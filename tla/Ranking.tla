------------------------------ MODULE Ranking ------------------------------
(***************************************************************************)
(* Ranking one user in the worker's offline pass (worker/pipeline.go,      *)
(* Pipeline.Recommend after the recommenders have answered): the           *)
(* collaborative list is refreshed from the vector store, candidates and   *)
(* replacement items are looked up through the item cache shared by all    *)
(* jobs, a model or a remote ranker scores them (logics/reranker.go, with  *)
(* its retries), and the scores of replaced items are decayed.             *)
(*                                                                         *)
(* The data store changes under the pass and other jobs fill the item      *)
(* cache.  Scores are integers; the decays are quotients, so every score   *)
(* is a multiple of 4.  The logits of the factorization machine may be     *)
(* negative, the probabilities of the remote rankers may not.              *)
(***************************************************************************)
EXTENDS Integers, Sequences, FiniteSets, SequencesExt

CONSTANTS ItemIds,       \* items, numbered
          Nearest,       \* the collection's items, nearest to the user first
          CacheSize,     \* Recommend.CacheSize
          Logits,        \* the model's scores, [ItemIds -> Int]
          MaxChanges     \* bound on changes of the data store

\* A collection holds finitely many vectors, and one for each item.
ASSUME RankAssumption ==
    /\ IsFiniteSet(ItemIds) /\ CacheSize \in Nat
    /\ Nearest \in Seq(ItemIds) /\ IsInjective(Nearest)

VARIABLES ranker,        \* Ranker.Type; "unfit": "fm" without a valid model
          replacing,     \* Replacement.EnableReplacement
          positive,      \* items with positive feedback of the user
          read,          \* items with read feedback of the user
          inStore,       \* data store: "shown", "hidden" or "gone"
          itemCache,     \* ItemCache.Data: "shown", "hidden" or "none"
          collaborative, \* the collaborative list written for the user
          candidates, positives, negatives, asked, attempt, reply, ranked,
          rankPhase, rankCancelled, changes

rankVars == <<ranker, replacing, positive, read, inStore, itemCache,
              collaborative, candidates, positives, negatives, asked, attempt,
              reply, ranked, rankPhase, rankCancelled, changes>>

RankTypes == {"none", "fm", "unfit", "reranker", "decision"}

\* Orders of distinct items.
Orders(S) == {q \in UNION {[1..n -> S] : n \in 0..Cardinality(S)} : IsInjective(q)}

\* The elements of s that are in S, in their order.
Keep(s, S) ==
    LET kept[n \in 0 .. Len(s)] ==
          IF n = 0 THEN <<>> ELSE IF s[n] \in S THEN Append(kept[n - 1], s[n]) ELSE kept[n - 1]
    IN  kept[Len(s)]

\* What NewRecommender(online = false) excludes: every item with feedback.
ExcludeSet == positive \cup read

RankInit ==
    /\ ranker \in RankTypes
    /\ replacing \in BOOLEAN
    /\ positive \in SUBSET ItemIds
    /\ read \in SUBSET ItemIds
    /\ inStore = [i \in ItemIds |-> "shown"]
    /\ itemCache = [i \in ItemIds |-> "none"]
    /\ collaborative = <<>> /\ candidates = <<>> /\ positives = {} /\ negatives = {}
    /\ asked = <<>> /\ attempt = 1 /\ reply = <<>> /\ ranked = <<>>
    /\ rankPhase = "collaborative" /\ rankCancelled = FALSE /\ changes = 0

-----------------------------------------------------------------------------
(* The item cache.                                                         *)

\* The cache after GetSlice(ids): what was missing is read from the store.
Loaded(ids) == [i \in ItemIds |-> IF i \in ids /\ itemCache[i] = "none" /\ inStore[i] # "gone"
                                  THEN inStore[i] ELSE itemCache[i]]

\* GetSlice: the requested items that exist and are not hidden, in order.
GetSlice(ids) == Keep(ids, {i \in ItemIds : Loaded(Range(ids))[i] = "shown"})

\* Another job of the pass loads an item into the shared cache.
OtherJobLoads(i) ==
    /\ itemCache[i] = "none" /\ changes < MaxChanges
    /\ itemCache' = Loaded({i}) /\ changes' = changes + 1
    /\ UNCHANGED <<ranker, replacing, positive, read, inStore, collaborative, candidates,
                   positives, negatives, asked, attempt, reply, ranked, rankPhase, rankCancelled>>

\* The REST API hides or deletes an item.
ItemChanges(i) ==
    /\ changes < MaxChanges /\ changes' = changes + 1
    /\ inStore' \in {[inStore EXCEPT ![i] = s] : s \in {"hidden", "gone"} \ {inStore[i]}}
    /\ UNCHANGED <<ranker, replacing, positive, read, itemCache, collaborative, candidates,
                   positives, negatives, asked, attempt, reply, ranked, rankPhase, rankCancelled>>

-----------------------------------------------------------------------------
(* updateCollaborativeRecommend.                                           *)

\* Mutant of Fetched: the excluded items are not asked for on top.
FetchedOnly == CacheSize

\* How many vectors are queried, so that enough survive the exclusion.
Fetched == CacheSize + Cardinality(ExcludeSet)

UpdateCollaborativeRecommend ==
    /\ rankPhase = "collaborative"
    /\ collaborative' = Keep(SubSeq(Nearest, 1, IF Fetched < Len(Nearest) THEN Fetched ELSE Len(Nearest)),
                             ItemIds \ ExcludeSet)
    /\ rankPhase' = "recommended"
    /\ UNCHANGED <<ranker, replacing, positive, read, inStore, itemCache, candidates,
                   positives, negatives, asked, attempt, reply, ranked, rankCancelled, changes>>

\* The vector store or the cache fails: the user is given up for this pass.
CollaborativeFails ==
    /\ rankPhase = "collaborative" /\ rankPhase' = "failed"
    /\ UNCHANGED <<ranker, replacing, positive, read, inStore, itemCache, collaborative, candidates,
                   positives, negatives, asked, attempt, reply, ranked, rankCancelled, changes>>

-----------------------------------------------------------------------------
(* Candidates and replacement items.                                       *)

\* The recommenders' list, filtered to the items that exist and are visible.
TakeCandidates(list) ==
    /\ rankPhase = "recommended"
    /\ candidates' = GetSlice(list) /\ itemCache' = Loaded(Range(list))
    /\ rankPhase' = IF replacing /\ ranker # "none" THEN "replace" ELSE "rank"
    /\ UNCHANGED <<ranker, replacing, positive, read, inStore, collaborative,
                   positives, negatives, asked, attempt, reply, ranked, rankCancelled, changes>>

\* addReplacementCandidates: a set's ToSlice may have any order.
AddReplacementCandidates(order) ==
    LET items == GetSlice(order)
    IN  /\ rankPhase = "replace" /\ rankPhase' = "rank"
        /\ Range(order) = positive \cup read
        /\ itemCache' = Loaded(Range(order))
        /\ candidates' = candidates \o Keep(items, ItemIds \ Range(candidates))
        /\ positives' = positive \cap Range(items)
        /\ negatives' = (read \ positive) \cap Range(items)
        /\ UNCHANGED <<ranker, replacing, positive, read, inStore, collaborative,
                       asked, attempt, reply, ranked, rankCancelled, changes>>

-----------------------------------------------------------------------------
(* Ranking.                                                                *)

\* cache.SortDocuments: highest first, ties in any order.
Sorted(q) == \A a, b \in DOMAIN q : a < b => q[a].score >= q[b].score
SortDocuments(S) == {q \in [1..Cardinality(S) -> S] : IsInjective(q) /\ Sorted(q)}

\* No ranker, or a model that is missing or invalid: the candidates as they are.
\* The recommenders' scores are outside this module: every one is 0.
RankByNothing ==
    /\ rankPhase = "rank" /\ ranker \in {"none", "unfit"}
    /\ ranked' = [k \in DOMAIN candidates |-> [id |-> candidates[k], score |-> 0]]
    /\ rankPhase' = "decay"
    /\ UNCHANGED <<ranker, replacing, positive, read, inStore, itemCache, collaborative, candidates,
                   positives, negatives, asked, attempt, reply, rankCancelled, changes>>

\* rankByClickTroughRate: the model's score of every candidate still visible.
RankByClickThroughRate ==
    /\ rankPhase = "rank" /\ ranker = "fm"
    /\ itemCache' = Loaded(Range(candidates))
    /\ ranked' \in SortDocuments({[id |-> i, score |-> Logits[i]] : i \in Range(GetSlice(candidates))})
    /\ rankPhase' = "decay"
    /\ UNCHANGED <<ranker, replacing, positive, read, inStore, collaborative, candidates,
                   positives, negatives, asked, attempt, reply, rankCancelled, changes>>

\* rankByAPI up to the request: one document for each visible candidate.
\* Decision.Rank answers an empty list itself.
AskRanker ==
    /\ rankPhase = "rank" /\ ranker \in {"reranker", "decision"}
    /\ itemCache' = Loaded(Range(candidates)) /\ asked' = GetSlice(candidates)
    /\ rankPhase' = IF ranker = "decision" /\ asked' = <<>> THEN "decay" ELSE "attempt"
    /\ UNCHANGED <<ranker, replacing, positive, read, inStore, collaborative, candidates,
                   positives, negatives, attempt, reply, ranked, rankCancelled, changes>>

maxAttempts == 3

\* retryable: transient statuses and broken connections.
Retryable(error) == error \in {"busy", "reset"}

\* retry: the attempt that follows attempt n.
NextAttempt(n) == n + 1

\* retry: an attempt is not begun once the context is cancelled, and a request
\* under way or the wait between two attempts ends with it.
Abandon ==
    /\ rankPhase \in {"attempt", "pause"} /\ rankCancelled
    /\ rankPhase' = "failed"
    /\ UNCHANGED <<ranker, replacing, positive, read, inStore, itemCache, collaborative, candidates,
                   positives, negatives, asked, attempt, reply, ranked, rankCancelled, changes>>

\* The remote ranker fails: a status, a broken connection, an unreadable body.
RequestFails(error) ==
    /\ rankPhase = "attempt"
    /\ rankPhase' = IF Retryable(error) /\ attempt # maxAttempts THEN "pause" ELSE "failed"
    /\ UNCHANGED <<ranker, replacing, positive, read, inStore, itemCache, collaborative, candidates,
                   positives, negatives, asked, attempt, reply, ranked, rankCancelled, changes>>

\* The wait between two attempts is over.
Resume ==
    /\ rankPhase = "pause" /\ rankPhase' = "attempt" /\ attempt' = NextAttempt(attempt)
    /\ UNCHANGED <<ranker, replacing, positive, read, inStore, itemCache, collaborative, candidates,
                   positives, negatives, asked, reply, ranked, rankCancelled, changes>>

\* An answer: positions of documents, best first; it may leave documents out.
\* The score of a position is 4 times its distance from the end.
Replies == {[k \in DOMAIN q |-> [index |-> q[k], score |-> 4 * (Len(q) - k)]] : q \in Orders(DOMAIN asked)}

\* Reranker.Rank: the item a position of the answer stands for.
Item(index) == asked[index]

\* Reranker.Rank and rankByAPI: the answer turned into scores, in its order.
\* Decision.Rank refuses an answer without a probability for every item.
RankByAnswer(answer) ==
    /\ rankPhase = "attempt" /\ reply' = answer
    /\ IF ranker = "decision" /\ Len(answer) < Len(asked)
       THEN rankPhase' = "failed" /\ UNCHANGED ranked
       ELSE /\ rankPhase' = "decay"
            /\ ranked' = [k \in DOMAIN answer |-> [id |-> Item(answer[k].index), score |-> answer[k].score]]
    /\ UNCHANGED <<ranker, replacing, positive, read, inStore, itemCache, collaborative, candidates,
                   positives, negatives, asked, attempt, rankCancelled, changes>>

\* applyReplacementDecay, one score: PositiveReplacementDecay is 1/2 and
\* ReadReplacementDecay 1/4.
Decayed(r) ==
    [r EXCEPT !.score = CASE r.id \in positives -> @ \div 2 [] r.id \in negatives -> @ \div 4 [] OTHER -> @]

\* applyReplacementDecay: sorted again when a score was decayed.
ApplyReplacementDecay ==
    /\ rankPhase = "decay" /\ rankPhase' = "ranked"
    /\ IF \A r \in Range(ranked) : r.id \notin positives \cup negatives
       THEN UNCHANGED ranked
       ELSE ranked' \in SortDocuments({Decayed(r) : r \in Range(ranked)})
    /\ UNCHANGED <<ranker, replacing, positive, read, inStore, itemCache, collaborative, candidates,
                   positives, negatives, asked, attempt, reply, rankCancelled, changes>>

\* The worker stops, or a new dataset resets its pass.
CancelPass ==
    /\ ~rankCancelled /\ rankCancelled' = TRUE
    /\ UNCHANGED <<ranker, replacing, positive, read, inStore, itemCache, collaborative, candidates,
                   positives, negatives, asked, attempt, reply, ranked, rankPhase, changes>>

\* The steps of the job's goroutine, but for the answers it waits for.
JobSteps ==
    \/ UpdateCollaborativeRecommend
    \/ \E list \in Orders(ItemIds \ ExcludeSet) : TakeCandidates(list)
    \/ \E order \in Orders(positive \cup read) : AddReplacementCandidates(order)
    \/ RankByNothing \/ RankByClickThroughRate \/ AskRanker
    \/ Resume \/ ApplyReplacementDecay

\* How a request to the remote ranker ends.
RemoteAnswers ==
    \/ Abandon
    \/ \E error \in {"busy", "reset", "refused", "malformed"} : RequestFails(error)
    \/ \E answer \in Replies : RankByAnswer(answer)

RankNext ==
    \/ JobSteps \/ RemoteAnswers
    \/ CollaborativeFails \/ CancelPass
    \/ \E i \in ItemIds : OtherJobLoads(i) \/ ItemChanges(i)

\* The goroutine runs on and the remote ranker answers or fails.
RankFairness == WF_rankVars(JobSteps) /\ WF_rankVars(RemoteAnswers)

RankSpec == RankInit /\ [][RankNext]_rankVars /\ RankFairness

-----------------------------------------------------------------------------

\* The collaborative list holds the CacheSize nearest items the user has no
\* feedback on, or all of them: excluding what was seen never shortens it.
CollaborativeIsFull ==
    rankPhase \notin {"collaborative", "failed"} =>
        LET fresh == Keep(Nearest, ItemIds \ ExcludeSet)
            n     == IF CacheSize < Len(fresh) THEN CacheSize ELSE Len(fresh)
        IN  Len(collaborative) >= n /\ SubSeq(collaborative, 1, n) = SubSeq(fresh, 1, n)

\* Every cached score is the one the ranker gave to that item's document,
\* halved for an item the user liked and quartered for one only read: no item is
\* decayed twice, not even one both liked and read.
ScoredAsAnswered ==
    rankPhase = "ranked" /\ ranker = "reranker" =>
        \A r \in Range(ranked) : \E a \in Range(reply) :
            /\ asked[a.index] = r.id
            /\ r.score = IF ~replacing THEN a.score
                         ELSE IF r.id \in positive THEN a.score \div 2
                         ELSE IF r.id \in read THEN a.score \div 4
                         ELSE a.score

\* Both: the lists of a user hold what they should, with the scores they should.
RankedAsAnswered == CollaborativeIsFull /\ ScoredAsAnswered

\* Ranking a user ends, however the remote ranker fails: at most three attempts
\* are made.
RankDone == rankPhase \in {"ranked", "failed"}
RankEnds == <>RankDone
=============================================================================
