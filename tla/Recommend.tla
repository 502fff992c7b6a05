------------------------------ MODULE Recommend ------------------------------
(***************************************************************************)
(* Online recommendation: getRecommend of server/rest.go and the           *)
(* Recommender of logics/recommend.go.  A request takes the feedback of    *)
(* the user and the items it excludes, reads the stored recommendations or *)
(* the recommenders of the ranker, then the fallback recommenders until    *)
(* the answer is long enough, cuts the page and writes it back as          *)
(* feedback.  Every recommender is a read of a store of its own; between   *)
(* two reads the lists are replaced, items change and feedback arrives.    *)
(*                                                                         *)
(* The lists of the caches are sequences of items; InCategory are the      *)
(* items of the one category a request may name.  Sim and Peers are the    *)
(* similarities of the vector collections: no two sums of them tie, for    *)
(* ties are broken by the order of a Go map.                               *)
(***************************************************************************)
EXTENDS Naturals, Sequences, FiniteSets, FiniteSetsExt, SequencesExt

CONSTANTS Catalogue, InCategory, Sim, Peers, Options, Lists, CacheSize, ContextSize,
          States, Histories, Ns, Offsets, MaxEvents

Recommenders == {"latest", "nonPersonalized", "collaborative", "itemToItem", "userToUser", "external"}

(* Feedback of the user; kind "neg" matches the negative types, "pos" the   *)
(* positive ones.                                                           *)
Feedback == [item : Catalogue, kind : {"pos", "neg", "read"}, time : Nat]

(* Cached lists hold an item once; a script of the administrator need not.  *)
ASSUME RecAssumption ==
  /\ IsFiniteSet(Catalogue) /\ Catalogue \subseteq Nat
  /\ CacheSize \in Nat \ {0} /\ ContextSize \in Nat \ {0}
  /\ Ns \subseteq Nat /\ Offsets \subseteq Nat
  /\ \A c \in Options : c.ranked \in Seq(Recommenders) /\ c.fallback \in Seq(Recommenders)
  /\ \A l \in Lists : \A name \in {"offline", "nonPersonalized", "collaborative", "external"} :
       l[name] \in Seq(Catalogue) /\ (name # "external" => IsInjective(l[name]))
  /\ \A i, j \in Catalogue : Sim[i][j] \in Nat
  /\ IsFiniteSet(Peers) /\ \A p \in Peers : p.score \in Nat
  /\ \A s \in States : s \in [Catalogue -> {"shown", "hidden", "gone"}]
  /\ \A F \in Histories : IsFiniteSet(F) /\ F \subseteq Feedback

VARIABLES settings, known, state, history, clock, lists, rec, served, previous, requests, changes

recVars == <<settings, known, state, history, clock, lists, rec, served, previous, requests, changes>>

Idle == [at |-> "idle"]

(* history is the feedback of the user in the data store.                   *)
RecInit ==
  /\ settings \in Options /\ known \in BOOLEAN
  /\ state \in States
  /\ history \in Histories /\ (history # {} => known) /\ clock = 1
  /\ lists \in Lists
  /\ rec = Idle /\ served = {} /\ previous = {} /\ requests = 0 /\ changes = 0

Seen == {f \in history : f.time <= clock}

-----------------------------------------------------------------------------
\* Mutant of Excluded: feedback that matches no type excludes nothing.
ExcludedTyped(F) == {f.item : f \in {g \in F : g.kind = "neg" \/ (g.kind = "pos" /\ ~settings.replacement)}}

(* NewRecommender: negative feedback always excludes, any other unless      *)
(* replacement is enabled (online).                                         *)
Excluded(F) == {f.item : f \in {g \in F : g.kind = "neg" \/ ~settings.replacement}}

(* r is the Recommender: what it read and excludes, and the category.       *)
NewRecommender(n, offset, category, delay) ==
  /\ rec = Idle /\ requests + changes < MaxEvents /\ requests' = requests + 1
  /\ rec' = [at |-> IF settings.ranker = "none" THEN "ranker" ELSE "cached",
             r |-> [feedback |-> Seen, exclude |-> Excluded(Seen), category |-> category],
             before |-> served, limit |-> n + offset, offset |-> offset, delay |-> delay,
             todo |-> settings.ranked, result |-> <<>>, since |-> changes, start |-> clock]
  /\ UNCHANGED <<settings, known, state, history, clock, lists, served, previous, changes>>

-----------------------------------------------------------------------------
(* What a recommender returns: a sequence of items. *)
Asked(r, i) == r.category => i \in InCategory
Cut(s, k) == SubSeq(s, 1, Min({k, Len(s)}))
(* The elements of s that are in S, in their order. *)
Keep(s, S) ==
  LET kept[k \in 0 .. Len(s)] ==
        IF k = 0 THEN <<>> ELSE IF s[k] \in S THEN Append(kept[k - 1], s[k]) ELSE kept[k - 1]
  IN kept[Len(s)]
Unexcluded(r, s) == Keep(s, Catalogue \ r.exclude)
(* The elements of S by falling weight. *)
ByWeight(w, S) ==
  CHOOSE s \in SetToSeqs(S) : \A j, k \in DOMAIN s : j < k => w[s[j]] >= w[s[k]]
Highest(w) == Cut(ByWeight(w, {i \in DOMAIN w : w[i] > 0}), CacheSize)

(* A read of a cached list: the documents of the category, CacheSize of them. *)
SearchScores(r, name) == Cut(Keep(lists[name], {i \in Catalogue : Asked(r, i)}), CacheSize)

(* GetLatestItems: the newer item has the larger number. *)
recommendLatest(r) ==
  Unexcluded(r, Cut(ByWeight([i \in Catalogue |-> i], {i \in Catalogue : state[i] = "shown" /\ Asked(r, i)}), CacheSize))

recommendNonPersonalized(r) == Unexcluded(r, SearchScores(r, "nonPersonalized"))
recommendCollaborative(r) == Unexcluded(r, SearchScores(r, "collaborative"))

(* The sum of the numbers w[k]. *)
SumOf(w) == Cardinality(UNION {{k} \X (1 .. w[k]) : k \in DOMAIN w})

(* The context: the latest positive feedback, ContextSize of it.  The       *)
(* collection is asked for the CacheSize nearest items of the category.     *)
Context(r) ==
  LET P == {f \in r.feedback : f.kind = "pos"}
  IN Cut(ByWeight([f \in P |-> f.time], P), ContextSize)
QueryItemToItem(r, i) ==
  Cut(ByWeight(Sim[i], {j \in Catalogue : j # i /\ Sim[i][j] > 0 /\ Asked(r, j)}), CacheSize)
recommendItemToItem(r) ==
  Highest([j \in Catalogue \ r.exclude |->
          SumOf([k \in {l \in DOMAIN Context(r) : j \in Range(QueryItemToItem(r, Context(r)[l].item))} |->
                   Sim[Context(r)[k].item][j]])])

(* The neighbours' positive items; only then what they are now. *)
recommendUserToUser(r) ==
  Keep(Highest([j \in Catalogue \ r.exclude |-> SumOf([p \in {q \in Peers : j \in q.likes} |-> p.score])]),
       {j \in Catalogue : state[j] = "shown" /\ Asked(r, j)})

(* A script of the administrator; it knows no categories. *)
recommendExternal(r) == IF r.category THEN <<>> ELSE Unexcluded(r, lists["external"])

parse(r, name) ==
  CASE name = "latest" -> recommendLatest(r)
    [] name = "nonPersonalized" -> recommendNonPersonalized(r)
    [] name = "collaborative" -> recommendCollaborative(r)
    [] name = "itemToItem" -> recommendItemToItem(r)
    [] name = "userToUser" -> recommendUserToUser(r)
    [] name = "external" -> recommendExternal(r)

Tagged(s, name) == [k \in DOMAIN s |-> [item |-> s[k], from |-> name]]

-----------------------------------------------------------------------------
(* The stored recommendations, when there is a ranker. *)
ReadCached ==
  /\ rec.at = "cached"
  /\ LET s == Unexcluded(rec.r, SearchScores(rec.r, "offline")) IN
     rec' = [rec EXCEPT !.result = Tagged(s, "offline"), !.r.exclude = @ \cup Range(s), !.todo = <<>>, !.at = "ranker"]
  /\ UNCHANGED <<settings, known, state, history, clock, lists, served, previous, requests, changes>>

(* One round of RecommendSequential: all that is returned is excluded, also *)
(* what the limit cuts off.                                                 *)
Deliver(limit) ==
  LET s == parse(rec.r, Head(rec.todo))
      all == rec.result \o Tagged(s, Head(rec.todo))
      full == limit > 0 /\ Len(all) >= limit
  IN rec' = [rec EXCEPT !.result = IF full THEN Cut(all, limit) ELSE all, !.r.exclude = @ \cup Range(s),
                        !.todo = IF full THEN <<>> ELSE Tail(@)]

RecommendSequential ==
  /\ rec.at \in {"ranker", "fallback"} /\ rec.todo # <<>>
  /\ Deliver(IF rec.at = "ranker" THEN CacheSize ELSE rec.limit)
  /\ UNCHANGED <<settings, known, state, history, clock, lists, served, previous, requests, changes>>

Fallback ==
  /\ rec.at = "ranker" /\ rec.todo = <<>>
  /\ rec' = IF rec.limit > 0 /\ Len(rec.result) >= rec.limit
            THEN [rec EXCEPT !.result = Cut(@, rec.limit), !.at = "answer"]
            ELSE [rec EXCEPT !.todo = settings.fallback, !.at = "fallback"]
  /\ UNCHANGED <<settings, known, state, history, clock, lists, served, previous, requests, changes>>

Recommended ==
  /\ rec.at = "fallback" /\ rec.todo = <<>> /\ rec' = [rec EXCEPT !.at = "answer"]
  /\ UNCHANGED <<settings, known, state, history, clock, lists, served, previous, requests, changes>>

Page == IF Len(rec.result) > rec.offset THEN SubSeq(rec.result, rec.offset + 1, Len(rec.result)) ELSE <<>>

(* previous holds the results of the requests since the last change.        *)
getRecommend ==
  /\ rec.at = "answer"
  /\ rec' = [rec EXCEPT !.at = "writeBack", !.todo = IF rec.delay = {} THEN <<>> ELSE Page, !.start = clock]
  /\ previous' = IF rec.since = changes THEN previous \cup {[category |-> rec.r.category, result |-> rec.result]} ELSE previous
  /\ UNCHANGED <<settings, known, state, history, clock, lists, served, requests, changes>>

(* One BatchInsertFeedback per item, of a user and an item that must exist. *)
WriteBack ==
  /\ rec.at = "writeBack" /\ rec.todo # <<>>
  /\ LET i == Head(rec.todo).item IN
     /\ history' = IF known /\ state[i] # "gone"
                   THEN history \cup {[item |-> i, kind |-> "read", time |-> rec.start + d] : d \in rec.delay} ELSE history
     /\ rec' = [rec EXCEPT !.todo = Tail(@)] /\ previous' = {}
  /\ UNCHANGED <<settings, known, state, clock, lists, served, requests, changes>>

(* The answer; served: what a caller who wrote back without delay was given. *)
Respond ==
  /\ rec.at = "writeBack" /\ rec.todo = <<>>
  /\ served' = IF rec.delay = {0} THEN served \cup {Page[k].item : k \in DOMAIN Page} ELSE served
  /\ rec' = Idle
  /\ UNCHANGED <<settings, known, state, history, clock, lists, previous, requests, changes>>

(* Any read or write fails: an error, with the feedback written so far. *)
RecFails ==
  /\ rec # Idle /\ rec' = Idle
  /\ UNCHANGED <<settings, known, state, history, clock, lists, served, previous, requests, changes>>

-----------------------------------------------------------------------------
(* The rest of the system: the lists are rebuilt; items are hidden, shown   *)
(* and, with their feedback, deleted; the user rates; time passes.          *)
Change ==
  /\ requests + changes < MaxEvents /\ changes' = changes + 1 /\ previous' = {}
  /\ \/ lists' \in Lists /\ UNCHANGED <<state, history, clock>>
     \/ /\ \E i \in Catalogue, s \in {"shown", "hidden", "gone"} :
             /\ state[i] \notin {s, "gone"} /\ state' = [state EXCEPT ![i] = s]
             /\ history' = {f \in history : s = "gone" => f.item # i}
        /\ UNCHANGED <<lists, clock>>
     \/ /\ known /\ \E i \in Catalogue : state[i] # "gone" /\ \E k \in {"pos", "neg"} : history' = history \cup {[item |-> i, kind |-> k, time |-> clock]}
        /\ UNCHANGED <<lists, state, clock>>
     \/ clock' = clock + 1 /\ UNCHANGED <<lists, state, history>>
  /\ UNCHANGED <<settings, known, rec, served, requests>>

RecNext ==
  \/ \E n \in Ns, o \in Offsets, c \in BOOLEAN, d \in {{}, {0}, {1}} : NewRecommender(n, o, c, d)
  \/ ReadCached \/ RecommendSequential \/ Fallback \/ Recommended \/ getRecommend
  \/ WriteBack \/ Respond \/ RecFails
  \/ Change

RecSpec == RecInit /\ [][RecNext]_recVars

-----------------------------------------------------------------------------
Answered == rec.at \in {"answer", "writeBack"}
Delivered == {rec.result[k].item : k \in DOMAIN rec.result}

(* No item is in an answer twice, whichever recommenders delivered it and   *)
(* whatever changed between their reads; a script that repeats itself is    *)
(* the one exception (recommendExternal removes no duplicates).             *)
DeliveredOnce ==
  Answered => \A j, k \in DOMAIN rec.result :
    j # k /\ rec.result[j].item = rec.result[k].item => rec.result[j].from = "external" /\ rec.result[k].from = "external"

(* A caller who writes back what was shown is never shown it again by a     *)
(* later request, unless replacement is on: every path to an answer goes    *)
(* through the excluded set, the stored lists included.  The user and the   *)
(* item must exist: the feedback of others is dropped without an error, and *)
(* a stored list shows a deleted item again and again.                      *)
NeverServedAgain ==
  Answered /\ ~settings.replacement /\ known => \A i \in Delivered \cap rec.before : state[i] = "gone"

(* Requests for pages of the same recommendations cut them from the same    *)
(* list: while nothing changes, of two answers the shorter is a prefix.     *)
PagesOfOneList ==
  \A a, b \in previous : a.category = b.category => IsPrefix(a.result, b.result) \/ IsPrefix(b.result, a.result)

(* All three: what getRecommend serves is served once, and from one list.   *)
ServedOnce == DeliveredOnce /\ NeverServedAgain /\ PagesOfOneList
=============================================================================
