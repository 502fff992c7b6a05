------------------------------- MODULE Config -------------------------------
(***************************************************************************)
(* The configuration of a running master (config/config.go and the         *)
(* dashboard's getConfig, postConfig, deleteConfig in master/rest.go): how *)
(* it is loaded, validated, shown with its secrets masked, posted back by  *)
(* several administrators at once, and digested to tell whether a cached   *)
(* recommendation is still the one the configuration asks for.             *)
(*                                                                         *)
(* A configuration has the parts the properties tell apart.  A recommender *)
(* is named <<kind, name>>.  A text a digest is made of is a sequence of   *)
(* pieces, so that a piece may end one text or begin the next; MD5 is an   *)
(* injection.  A secret is a sequence: <<>> empty, <<s>> short,            *)
(* <<head, middle, tail>> long enough to keep its ends when masked.  The   *)
(* two API tokens (reranker, decision) are alike.                          *)
(***************************************************************************)
EXTENDS Naturals, Sequences, FiniteSets, SequencesExt

CONSTANTS Admins,
          Drafts,     \* bodies an administrator may post, valid or not
          Apis,       \* the APIs that have a token
          Tokens,     \* secrets, none of them a mask
          MaxSteps    \* bound: edits, posts, deletions and restarts

VARIABLES redacted,   \* master.dashboard_redacted
          filed,      \* the configuration of the file and the environment
          conf,       \* m.Config.Recommend
          override,   \* RECOMMEND_CONFIG of the meta store, a set of at most one
          form,       \* what each administrator's dashboard shows, a set of at most one
          posting,    \* each administrator's request that passed validation, likewise
          typed,      \* ghost: the tokens typed in or loaded
          overtaken,  \* ghost: a form was posted after the tokens it showed changed
          steps

configVars == <<redacted, filed, conf, override, form, posting, typed,
                overtaken, steps>>

-----------------------------------------------------------------------------
(* Names. *)
FullName(kind, rec) == <<kind, rec.name>>
FullNames(kind, recs) == {FullName(kind, rec) : rec \in ToSet(recs)}
Duplicated(recs) == \E i, j \in DOMAIN recs : i # j /\ recs[i].name = recs[j].name

Available(b) ==
  FullNames("non-personalized", b.nonPersonalized)
    \cup FullNames("item-to-item", b.itemToItem)
    \cup FullNames("user-to-user", b.userToUser)
    \cup FullNames("external", b.external)
    \cup {<<"latest">>}
    \cup (IF b.collaborative = "none" THEN {} ELSE {<<"collaborative">>})

checkRecommenders(b, names) == ToSet(names) \subseteq Available(b)

Validate(b) ==
  /\ b.rankerType = "decision" => b.url /\ b.model
  /\ ~Duplicated(b.nonPersonalized) /\ ~Duplicated(b.itemToItem)
  /\ \A rec \in ToSet(b.itemToItem) : rec.type \in {"embedding", "tags", "users", "auto"}
  /\ \A rec \in ToSet(b.userToUser) : rec.type \in {"embedding", "tags", "items", "auto"}
  /\ b.ranker # <<>>
  /\ b.rankerType = "none" => Len(b.ranker) <= 1
  /\ checkRecommenders(b, b.ranker)
  /\ checkRecommenders(b, b.fallback)

-----------------------------------------------------------------------------
(* Digests.  The texts are written one after the other, with nothing        *)
(* between them and no mark of what they are.                               *)
Digest(text) == <<"md5", text>>
Feedbacks(b) == FlattenSeq(b.positive) \o FlattenSeq(b.negative)
FeedbacksIf(b, wanted) == IF wanted THEN Feedbacks(b) ELSE <<>>

NonPersonalizedHash(rec) == Digest(rec.name \o rec.score \o rec.filter)
(* Mutant of ItemToItemHash: it forgets the feedback types. *)
ItemToItemHashBare(rec, b) == Digest(rec.name \o <<rec.type>> \o rec.column)
ItemToItemHash(rec, b) ==
  Digest(rec.name \o <<rec.type>> \o rec.column \o FeedbacksIf(b, rec.type = "users"))
UserToUserHash(rec, b) ==
  Digest(rec.name \o <<rec.type>> \o rec.column \o FeedbacksIf(b, rec.type = "items"))
CollaborativeHash(b) == Digest(Feedbacks(b))
ExternalHash(rec) == Digest(rec.name \o rec.script)

(* The digests of the ranker's recommenders of a kind. *)
Digests(b, kind, recs, H(_)) ==
  LET named == SelectSeq(recs, LAMBDA rec : FullName(kind, rec) \in ToSet(b.ranker))
  IN [i \in DOMAIN named |-> H(named[i])]

(* util.MD5 sorts the digests first: how often each occurs is what counts. *)
MD5(digests) == [d \in ToSet(digests) |-> Cardinality({i \in DOMAIN digests : digests[i] = d})]

Hash(b) == MD5(
  Digests(b, "non-personalized", b.nonPersonalized, NonPersonalizedHash)
    \o Digests(b, "item-to-item", b.itemToItem, LAMBDA rec : ItemToItemHash(rec, b))
    \o Digests(b, "user-to-user", b.userToUser, LAMBDA rec : UserToUserHash(rec, b))
    \o Digests(b, "external", b.external, ExternalHash)
    \o (IF <<"collaborative">> \in ToSet(b.ranker) THEN <<CollaborativeHash(b)>> ELSE <<>>)
    \o (IF <<"latest">> \in ToSet(b.ranker) THEN <<<<"latest">>>> ELSE <<>>))

-----------------------------------------------------------------------------
(* Secrets. *)
RedactSecret(t) ==
  CASE Len(t) = 0 -> t
    [] Len(t) = 1 -> <<"******">>
    [] OTHER -> <<t[1], "******", t[3]>>

Redacted(c) ==
  IF redacted THEN [c EXCEPT !.tokens = [a \in Apis |-> RedactSecret(c.tokens[a])]] ELSE c

RestoreRedactedSecrets(c, original) ==
  [c EXCEPT !.tokens = [a \in Apis |->
     IF redacted /\ c.tokens[a] = RedactSecret(original.tokens[a])
       THEN original.tokens[a] ELSE c.tokens[a]]]

(* An environment variable that is set and not empty hides the file. *)
LoadConfig(b, fileTokens, env) ==
  [body |-> b, tokens |-> [a \in Apis |-> IF env[a] # <<>> THEN env[a] ELSE fileTokens[a]]]

-----------------------------------------------------------------------------
ConfigInit ==
  /\ redacted \in BOOLEAN
  /\ \E b \in {d \in Drafts : Validate(d)}, t \in Tokens, e \in {<<>>} \cup Tokens :
       filed = LoadConfig(b, [a \in Apis |-> t], [a \in Apis |-> e])
  /\ conf = filed
  /\ override = {}
  /\ form = [a \in Admins |-> {}]
  /\ posting = [a \in Admins |-> {}]
  /\ typed = [a \in Apis |-> {filed.tokens[a]}]
  /\ overtaken = FALSE
  /\ steps = 0

Step == steps < MaxSteps /\ steps' = steps + 1

(* The dashboard of an administrator shows the configuration. *)
getConfig(a) ==
  /\ form[a] = {}
  /\ form' = [form EXCEPT ![a] = {[shown |-> Redacted(conf), base |-> conf.tokens]}]
  /\ UNCHANGED <<redacted, filed, conf, override, posting, typed, overtaken, steps>>

(* The administrator edits the form. *)
Edit(a) ==
  /\ Step
  /\ \E f \in form[a] :
       \/ \E d \in Drafts :
            form' = [form EXCEPT ![a] = {[f EXCEPT !.shown.body = d]}] /\ UNCHANGED typed
       \/ \E api \in Apis, t \in Tokens :
            /\ form' = [form EXCEPT ![a] = {[f EXCEPT !.shown.tokens[api] = t]}]
            /\ typed' = [typed EXCEPT ![api] = @ \cup {t}]
  /\ UNCHANGED <<redacted, filed, conf, override, posting, overtaken>>

(* postConfig up to the unlock: restore the secrets and validate. *)
postConfig(a) ==
  /\ Step
  /\ posting[a] = {}
  /\ \E f \in form[a] :
       LET c == RestoreRedactedSecrets(f.shown, conf)
       IN /\ posting' = [posting EXCEPT ![a] = {x \in {c} : Validate(x.body)}]
          /\ overtaken' = (overtaken \/ f.base # conf.tokens)
  /\ form' = [form EXCEPT ![a] = {}]
  /\ UNCHANGED <<redacted, filed, conf, override, typed>>

(* postConfig from the write of the meta store on. *)
postConfigPut(a) ==
  /\ \E c \in posting[a] : override' = {c} /\ conf' = c
  /\ posting' = [posting EXCEPT ![a] = {}]
  /\ UNCHANGED <<redacted, filed, form, typed, overtaken, steps>>

(* metaStore.Put fails: the request is answered with an error. *)
postConfigFails(a) ==
  /\ posting[a] # {}
  /\ posting' = [posting EXCEPT ![a] = {}]
  /\ UNCHANGED <<redacted, filed, conf, override, form, typed, overtaken, steps>>

deleteConfig ==
  /\ Step
  /\ override' = {}
  /\ conf' = filed
  /\ UNCHANGED <<redacted, filed, form, posting, typed, overtaken>>

(* The master starts again: the file, then the stored override if it is valid. *)
loadOverride ==
  /\ Step
  /\ conf' = IF \E c \in override : Validate(c.body) THEN CHOOSE c \in override : TRUE ELSE filed
  /\ form' = [a \in Admins |-> {}]
  /\ posting' = [a \in Admins |-> {}]
  /\ UNCHANGED <<redacted, filed, override, typed, overtaken>>

ConfigNext ==
  \/ \E a \in Admins :
       getConfig(a) \/ Edit(a) \/ postConfig(a) \/ postConfigPut(a) \/ postConfigFails(a)
  \/ deleteConfig
  \/ loadOverride

ConfigSpec == ConfigInit /\ [][ConfigNext]_configVars

-----------------------------------------------------------------------------
(* The words a recommender computes from: its settings and the feedback     *)
(* types its lists are built of.  Type "auto" reads feedback too but its    *)
(* digest leaves it out: it is excepted here and listed as a hazard.        *)
Words(b, name) ==
  LET of(recs) == {rec \in ToSet(recs) : rec.name = name[2]}
      Likeness(rec, feedback) ==
        rec.name \o <<rec.type>> \o rec.column
          \o (IF rec.type = feedback THEN FlattenSeq(b.positive \o b.negative) ELSE <<>>)
  IN CASE name = <<"latest">> -> {}
       [] name = <<"collaborative">> -> {FlattenSeq(b.positive \o b.negative)}
       [] name[1] = "non-personalized" -> {rec.name \o rec.score \o rec.filter : rec \in of(b.nonPersonalized)}
       [] name[1] = "item-to-item" -> {Likeness(rec, "users") : rec \in of(b.itemToItem)}
       [] name[1] = "user-to-user" -> {Likeness(rec, "items") : rec \in of(b.userToUser)}
       [] OTHER -> {rec.name \o rec.script : rec \in of(b.external)}

RankedWords(b) == UNION {Words(b, name) : name \in ToSet(b.ranker)}

(* A change of the running configuration that changes the words its ranked  *)
(* recommenders compute from changes the digest the workers compare, so     *)
(* that every cached list is found out of date: a setting replaced, a       *)
(* feedback type added, a recommender more or less.  Words that only move,  *)
(* from one text to the next, from the positive to the negative types or    *)
(* from a recommender of one kind to one of another, do not change it.      *)
DigestTellsApart ==
  conf'.body # conf.body /\ Hash(conf'.body) = Hash(conf.body) =>
    RankedWords(conf'.body) = RankedWords(conf.body)

(* Every recommender the running configuration names, for the ranker and   *)
(* for the fallback, is one the recommender can look up, whoever posted it *)
(* and whatever was reloaded: recommendItemToItem and its like answer a    *)
(* name they do not find with an error, for every user.                    *)
NamesResolve ==
  \A name \in ToSet(conf.body.ranker) \cup ToSet(conf.body.fallback) :
    \/ name = <<"latest">>
    \/ name = <<"collaborative">> /\ conf.body.collaborative # "none"
    \/ name # <<"collaborative">> /\ Words(conf.body, name) # {}

(* A token the master uses was typed in by an administrator or loaded, it  *)
(* is never a mask that was shown, as long as no form is posted after the  *)
(* token it showed has changed.                                            *)
TokensAreReal ==
  ~overtaken => \A a \in Apis : conf.tokens[a] \in typed[a]
=============================================================================
