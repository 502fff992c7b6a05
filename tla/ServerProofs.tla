----------------------------- MODULE ServerProofs -----------------------------
(***************************************************************************)
(* Proofs about what requests to the server leave behind.                  *)
(*                                                                         *)
(* RecommendRefresh: a cache that passes for fresh misses no feedback, for *)
(* every set of items, every expiry and every number of failures, as long  *)
(* as a user's requests do not overlap.                                    *)
(*                                                                         *)
(* RestWrites: the quotas bound the data, for every number of users,       *)
(* items, handlers and requests, and every size of quota and batch.        *)
(*                                                                         *)
(* Recommend: what getRecommend serves is served once and from one list,   *)
(* for every catalogue, configuration, content of the lists and number of  *)
(* requests, whatever changes between two reads.                           *)
(***************************************************************************)
EXTENDS RecommendRefresh, RestWrites, Recommend, FiniteSetTheorems, SequenceTheorems,
        NaturalsInduction, WellFoundedInduction, TLAPS

-----------------------------------------------------------------------------
(* The refresh of a user's recommendations: RecommendRefresh.              *)

\* A user's requests are handled one after the other.
OneRequest == \A g, h \in Requests : g = h

\* No time that is kept anywhere lies in the future.
Past ==
    /\ modified <= now /\ updateTime <= now /\ rtime <= now
    /\ \A h \in Requests : htime[h] <= now
    /\ \A i \in Items : cache[i] <= now

\* A job past its time stamp is newer than the last complete refresh.
JobOrder ==
    pc \in {"read", "compute", "add", "delete", "set"} => updateTime <= rtime

\* No score is older than the refresh on record, nor, once the older ones are
\* deleted, than the refresh that will be recorded next.
CacheOrder ==
    \A i \in Items : cache[i] # 0 =>
        /\ updateTime <= cache[i]
        /\ pc = "set" => rtime <= cache[i]

\* Feedback is newer than any score for its item.
AckedLater ==
    \A i \in acked : cache[i] <= modified

\* Feedback that the job in flight does not exclude is newer than the job.
AckedMissed ==
    pc \in {"compute", "add"} => \A i \in acked \ exclude : rtime <= modified

\* What a request is about to acknowledge satisfies the same with its time.
RequestLater ==
    \A h \in Requests : hpc[h] = "set" =>
        /\ modified <= htime[h]
        /\ \A i \in hitems[h] \cap feedback :
              /\ cache[i] <= htime[h]
              /\ pc \in {"compute", "add"} /\ i \notin exclude => rtime <= htime[h]

ResultsUnseen ==
    pc = "add" => results \cap exclude = {}

Inv ==
    /\ TypeOK
    /\ Past
    /\ JobOrder
    /\ CacheOrder
    /\ AckedLater
    /\ AckedMissed
    /\ RequestLater
    /\ ResultsUnseen

-----------------------------------------------------------------------------

\* Every request, every step of the job and every failure keeps the variables
\* in their types.
LEMMA TypeStep == TypeOK /\ [Next]_vars => TypeOK'
<1> SUFFICES ASSUME TypeOK, [Next]_vars PROVE TypeOK'
  OBVIOUS
<1> USE MaxTimeAssumption, MaxConfigAssumption, MaxFailuresAssumption
    DEF TypeOK, Times, Configs, Steps, Failure, Leave, server, stored, job
<1>1. ASSUME NEW h \in Requests, InsertFeedback(h) PROVE TypeOK'
  BY <1>1 DEF InsertFeedback
<1>2. ASSUME NEW h \in Requests, Stamp(h) PROVE TypeOK'
  BY <1>2 DEF Stamp
<1>3. ASSUME NEW h \in Requests, SetModified(h) PROVE TypeOK'
  BY <1>3 DEF SetModified
<1>4. ASSUME NEW i \in Items, DeleteFeedback(i) PROVE TypeOK'
  BY <1>4 DEF DeleteFeedback
<1>5. CASE DropInactive BY <1>5 DEF DropInactive
<1>6. CASE CheckActive BY <1>6 DEF CheckActive
<1>7. CASE CheckOutOfDate BY <1>7 DEF CheckOutOfDate
<1>8. CASE TakeTime BY <1>8 DEF TakeTime
<1>9. CASE ReadFeedback BY <1>9 DEF ReadFeedback
<1>10. CASE SkipUser BY <1>10 DEF SkipUser
<1>11. CASE Compute BY <1>11 DEF Compute
<1>12. CASE AddScores BY <1>12 DEF AddScores
<1>13. CASE DeleteScores BY <1>13 DEF DeleteScores
<1>14. CASE SetUpdateTime BY <1>14 DEF SetUpdateTime
<1>15. CASE Abort BY <1>15 DEF Abort
<1>16. CASE Tick BY <1>16 DEF Tick
<1>17. CASE Reconfigure BY <1>17 DEF Reconfigure
<1>18. CASE UNCHANGED vars BY <1>18 DEF vars
<1>19. QED
  BY <1>1, <1>2, <1>3, <1>4, <1>5, <1>6, <1>7, <1>8, <1>9, <1>10, <1>11,
     <1>12, <1>13, <1>14, <1>15, <1>16, <1>17, <1>18 DEF Next, JobStep

\* Times are taken from the clock, and the clock does not go back.
LEMMA PastStep == TypeOK /\ Past /\ [Next]_vars => Past'
<1> SUFFICES ASSUME TypeOK, Past, [Next]_vars PROVE Past'
  OBVIOUS
<1> USE MaxTimeAssumption, MaxConfigAssumption
    DEF TypeOK, Past, Times, Configs, Failure, Leave, server, stored,
        job
<1>1. ASSUME NEW h \in Requests, InsertFeedback(h) PROVE Past'
  BY <1>1 DEF InsertFeedback
<1>2. ASSUME NEW h \in Requests, Stamp(h) PROVE Past'
  BY <1>2 DEF Stamp
<1>3. ASSUME NEW h \in Requests, SetModified(h) PROVE Past'
  BY <1>3 DEF SetModified
<1>4. ASSUME NEW i \in Items, DeleteFeedback(i) PROVE Past'
  BY <1>4 DEF DeleteFeedback
<1>5. CASE DropInactive BY <1>5 DEF DropInactive
<1>6. CASE CheckActive BY <1>6 DEF CheckActive
<1>7. CASE CheckOutOfDate BY <1>7 DEF CheckOutOfDate
<1>8. CASE TakeTime BY <1>8 DEF TakeTime
<1>9. CASE ReadFeedback BY <1>9 DEF ReadFeedback
<1>10. CASE SkipUser BY <1>10 DEF SkipUser
<1>11. CASE Compute BY <1>11 DEF Compute
<1>12. CASE AddScores BY <1>12 DEF AddScores
<1>13. CASE DeleteScores BY <1>13 DEF DeleteScores
<1>14. CASE SetUpdateTime BY <1>14 DEF SetUpdateTime
<1>15. CASE Abort BY <1>15 DEF Abort
<1>16. CASE Tick BY <1>16 DEF Tick
<1>17. CASE Reconfigure BY <1>17 DEF Reconfigure
<1>18. CASE UNCHANGED vars BY <1>18 DEF vars
<1>19. QED
  BY <1>1, <1>2, <1>3, <1>4, <1>5, <1>6, <1>7, <1>8, <1>9, <1>10, <1>11,
     <1>12, <1>13, <1>14, <1>15, <1>16, <1>17, <1>18 DEF Next, JobStep

\* A job takes its time after the last refresh was recorded.
LEMMA JobOrderStep == TypeOK /\ Past /\ JobOrder /\ [Next]_vars => JobOrder'
<1> SUFFICES ASSUME TypeOK, Past, JobOrder, [Next]_vars PROVE JobOrder'
  OBVIOUS
<1> USE MaxTimeAssumption, MaxConfigAssumption
    DEF TypeOK, Past, JobOrder, Times, Configs, Failure, Leave,
        server, stored, job
<1>1. ASSUME NEW h \in Requests, InsertFeedback(h) PROVE JobOrder'
  BY <1>1 DEF InsertFeedback
<1>2. ASSUME NEW h \in Requests, Stamp(h) PROVE JobOrder'
  BY <1>2 DEF Stamp
<1>3. ASSUME NEW h \in Requests, SetModified(h) PROVE JobOrder'
  BY <1>3 DEF SetModified
<1>4. ASSUME NEW i \in Items, DeleteFeedback(i) PROVE JobOrder'
  BY <1>4 DEF DeleteFeedback
<1>5. CASE DropInactive BY <1>5 DEF DropInactive
<1>6. CASE CheckActive BY <1>6 DEF CheckActive
<1>7. CASE CheckOutOfDate BY <1>7 DEF CheckOutOfDate
<1>8. CASE TakeTime BY <1>8 DEF TakeTime
<1>9. CASE ReadFeedback BY <1>9 DEF ReadFeedback
<1>10. CASE SkipUser BY <1>10 DEF SkipUser
<1>11. CASE Compute BY <1>11 DEF Compute
<1>12. CASE AddScores BY <1>12 DEF AddScores
<1>13. CASE DeleteScores BY <1>13 DEF DeleteScores
<1>14. CASE SetUpdateTime BY <1>14 DEF SetUpdateTime
<1>15. CASE Abort BY <1>15 DEF Abort
<1>16. CASE Tick BY <1>16 DEF Tick
<1>17. CASE Reconfigure BY <1>17 DEF Reconfigure
<1>18. CASE UNCHANGED vars BY <1>18 DEF vars
<1>19. QED
  BY <1>1, <1>2, <1>3, <1>4, <1>5, <1>6, <1>7, <1>8, <1>9, <1>10, <1>11,
     <1>12, <1>13, <1>14, <1>15, <1>16, <1>17, <1>18 DEF Next, JobStep

\* A refresh deletes the older scores before it records its time.
LEMMA CacheOrderStep ==
    TypeOK /\ JobOrder /\ CacheOrder /\ [Next]_vars => CacheOrder'
<1> SUFFICES ASSUME TypeOK, JobOrder, CacheOrder, [Next]_vars PROVE CacheOrder'
  OBVIOUS
<1> USE MaxTimeAssumption, MaxConfigAssumption
    DEF TypeOK, JobOrder, CacheOrder, Times, Configs, Failure, Leave,
        server, stored, job
<1>1. ASSUME NEW h \in Requests, InsertFeedback(h) PROVE CacheOrder'
  BY <1>1 DEF InsertFeedback
<1>2. ASSUME NEW h \in Requests, Stamp(h) PROVE CacheOrder'
  BY <1>2 DEF Stamp
<1>3. ASSUME NEW h \in Requests, SetModified(h) PROVE CacheOrder'
  BY <1>3 DEF SetModified
<1>4. ASSUME NEW i \in Items, DeleteFeedback(i) PROVE CacheOrder'
  BY <1>4 DEF DeleteFeedback
<1>5. CASE DropInactive BY <1>5 DEF DropInactive
<1>6. CASE CheckActive BY <1>6 DEF CheckActive
<1>7. CASE CheckOutOfDate BY <1>7 DEF CheckOutOfDate
<1>8. CASE TakeTime BY <1>8 DEF TakeTime
<1>9. CASE ReadFeedback BY <1>9 DEF ReadFeedback
<1>10. CASE SkipUser BY <1>10 DEF SkipUser
<1>11. CASE Compute BY <1>11 DEF Compute
<1>12. CASE AddScores BY <1>12 DEF AddScores
<1>13. CASE DeleteScores BY <1>13 DEF DeleteScores
<1>14. CASE SetUpdateTime BY <1>14 DEF SetUpdateTime
<1>15. CASE Abort BY <1>15 DEF Abort
<1>16. CASE Tick BY <1>16 DEF Tick
<1>17. CASE Reconfigure BY <1>17 DEF Reconfigure
<1>18. CASE UNCHANGED vars BY <1>18 DEF vars
<1>19. QED
  BY <1>1, <1>2, <1>3, <1>4, <1>5, <1>6, <1>7, <1>8, <1>9, <1>10, <1>11,
     <1>12, <1>13, <1>14, <1>15, <1>16, <1>17, <1>18 DEF Next, JobStep

\* The recommenders leave out what the job excludes.
LEMMA ResultsStep == TypeOK /\ ResultsUnseen /\ [Next]_vars => ResultsUnseen'
<1> SUFFICES ASSUME TypeOK, ResultsUnseen, [Next]_vars PROVE ResultsUnseen'
  OBVIOUS
<1> USE MaxTimeAssumption, MaxConfigAssumption
    DEF TypeOK, ResultsUnseen, Times, Configs, Failure, Leave, server,
        stored, job
<1>1. ASSUME NEW h \in Requests, InsertFeedback(h) PROVE ResultsUnseen'
  BY <1>1 DEF InsertFeedback
<1>2. ASSUME NEW h \in Requests, Stamp(h) PROVE ResultsUnseen'
  BY <1>2 DEF Stamp
<1>3. ASSUME NEW h \in Requests, SetModified(h) PROVE ResultsUnseen'
  BY <1>3 DEF SetModified
<1>4. ASSUME NEW i \in Items, DeleteFeedback(i) PROVE ResultsUnseen'
  BY <1>4 DEF DeleteFeedback
<1>5. CASE DropInactive BY <1>5 DEF DropInactive
<1>6. CASE CheckActive BY <1>6 DEF CheckActive
<1>7. CASE CheckOutOfDate BY <1>7 DEF CheckOutOfDate
<1>8. CASE TakeTime BY <1>8 DEF TakeTime
<1>9. CASE ReadFeedback BY <1>9 DEF ReadFeedback
<1>10. CASE SkipUser BY <1>10 DEF SkipUser
<1>11. CASE Compute BY <1>11 DEF Compute
<1>12. CASE AddScores BY <1>12 DEF AddScores
<1>13. CASE DeleteScores BY <1>13 DEF DeleteScores
<1>14. CASE SetUpdateTime BY <1>14 DEF SetUpdateTime
<1>15. CASE Abort BY <1>15 DEF Abort
<1>16. CASE Tick BY <1>16 DEF Tick
<1>17. CASE Reconfigure BY <1>17 DEF Reconfigure
<1>18. CASE UNCHANGED vars BY <1>18 DEF vars
<1>19. QED
  BY <1>1, <1>2, <1>3, <1>4, <1>5, <1>6, <1>7, <1>8, <1>9, <1>10, <1>11,
     <1>12, <1>13, <1>14, <1>15, <1>16, <1>17, <1>18 DEF Next, JobStep

\* No job caches an item under a time that hides its feedback.
LEMMA AckedLaterStep ==
    TypeOK /\ AckedLater /\ AckedMissed /\ RequestLater /\ ResultsUnseen
      /\ [Next]_vars => AckedLater'
<1> SUFFICES ASSUME TypeOK, AckedLater, AckedMissed, RequestLater,
                    ResultsUnseen, [Next]_vars
             PROVE  AckedLater'
  OBVIOUS
<1> USE MaxTimeAssumption, MaxConfigAssumption
    DEF TypeOK, AckedLater, AckedMissed, RequestLater, ResultsUnseen,
        Times, Configs, Failure, Leave, server, stored, job
<1>1. ASSUME NEW h \in Requests, InsertFeedback(h) PROVE AckedLater'
  BY <1>1 DEF InsertFeedback
<1>2. ASSUME NEW h \in Requests, Stamp(h) PROVE AckedLater'
  BY <1>2 DEF Stamp
<1>3. ASSUME NEW h \in Requests, SetModified(h) PROVE AckedLater'
  BY <1>3 DEF SetModified
<1>4. ASSUME NEW i \in Items, DeleteFeedback(i) PROVE AckedLater'
  BY <1>4 DEF DeleteFeedback
<1>5. CASE DropInactive BY <1>5 DEF DropInactive
<1>6. CASE CheckActive BY <1>6 DEF CheckActive
<1>7. CASE CheckOutOfDate BY <1>7 DEF CheckOutOfDate
<1>8. CASE TakeTime BY <1>8 DEF TakeTime
<1>9. CASE ReadFeedback BY <1>9 DEF ReadFeedback
<1>10. CASE SkipUser BY <1>10 DEF SkipUser
<1>11. CASE Compute BY <1>11 DEF Compute
<1>12. CASE AddScores BY <1>12 DEF AddScores
<1>13. CASE DeleteScores BY <1>13 DEF DeleteScores
<1>14. CASE SetUpdateTime BY <1>14 DEF SetUpdateTime
<1>15. CASE Abort BY <1>15 DEF Abort
<1>16. CASE Tick BY <1>16 DEF Tick
<1>17. CASE Reconfigure BY <1>17 DEF Reconfigure
<1>18. CASE UNCHANGED vars BY <1>18 DEF vars
<1>19. QED
  BY <1>1, <1>2, <1>3, <1>4, <1>5, <1>6, <1>7, <1>8, <1>9, <1>10, <1>11,
     <1>12, <1>13, <1>14, <1>15, <1>16, <1>17, <1>18 DEF Next, JobStep

\* Feedback that arrives after a job has read is newer than the job.
LEMMA AckedMissedStep ==
    TypeOK /\ AckedMissed /\ RequestLater /\ [Next]_vars => AckedMissed'
<1> SUFFICES ASSUME TypeOK, AckedMissed, RequestLater, [Next]_vars PROVE AckedMissed'
  OBVIOUS
<1> USE MaxTimeAssumption, MaxConfigAssumption
    DEF TypeOK, AckedMissed, RequestLater, Times, Configs, Failure,
        Leave, server, stored, job
<1>1. ASSUME NEW h \in Requests, InsertFeedback(h) PROVE AckedMissed'
  BY <1>1 DEF InsertFeedback
<1>2. ASSUME NEW h \in Requests, Stamp(h) PROVE AckedMissed'
  BY <1>2 DEF Stamp
<1>3. ASSUME NEW h \in Requests, SetModified(h) PROVE AckedMissed'
  BY <1>3 DEF SetModified
<1>4. ASSUME NEW i \in Items, DeleteFeedback(i) PROVE AckedMissed'
  BY <1>4 DEF DeleteFeedback
<1>5. CASE DropInactive BY <1>5 DEF DropInactive
<1>6. CASE CheckActive BY <1>6 DEF CheckActive
<1>7. CASE CheckOutOfDate BY <1>7 DEF CheckOutOfDate
<1>8. CASE TakeTime BY <1>8 DEF TakeTime
<1>9. CASE ReadFeedback BY <1>9 DEF ReadFeedback
<1>10. CASE SkipUser BY <1>10 DEF SkipUser
<1>11. CASE Compute BY <1>11 DEF Compute
<1>12. CASE AddScores BY <1>12 DEF AddScores
<1>13. CASE DeleteScores BY <1>13 DEF DeleteScores
<1>14. CASE SetUpdateTime BY <1>14 DEF SetUpdateTime
<1>15. CASE Abort BY <1>15 DEF Abort
<1>16. CASE Tick BY <1>16 DEF Tick
<1>17. CASE Reconfigure BY <1>17 DEF Reconfigure
<1>18. CASE UNCHANGED vars BY <1>18 DEF vars
<1>19. QED
  BY <1>1, <1>2, <1>3, <1>4, <1>5, <1>6, <1>7, <1>8, <1>9, <1>10, <1>11,
     <1>12, <1>13, <1>14, <1>15, <1>16, <1>17, <1>18 DEF Next, JobStep

\* A request takes its time after it has stored the feedback.
LEMMA RequestStep ==
    ASSUME OneRequest
    PROVE  TypeOK /\ Past /\ RequestLater /\ ResultsUnseen /\ [Next]_vars
              => RequestLater'
<1> SUFFICES ASSUME TypeOK, Past, RequestLater, ResultsUnseen, [Next]_vars
             PROVE  RequestLater'
  OBVIOUS
<1> USE MaxTimeAssumption, MaxConfigAssumption
    DEF TypeOK, Past, RequestLater, ResultsUnseen, Times, Configs,
        Failure, Leave, server, stored, job
<1>1. ASSUME NEW h \in Requests, InsertFeedback(h) PROVE RequestLater'
  <2>1. \A g \in Requests : hpc'[g] # "set"
    BY <1>1, OneRequest DEF InsertFeedback, OneRequest
  <2>2. QED BY <2>1
<1>2. ASSUME NEW h \in Requests, Stamp(h) PROVE RequestLater'
  BY <1>2 DEF Stamp
<1>3. ASSUME NEW h \in Requests, SetModified(h) PROVE RequestLater'
  <2>1. \A g \in Requests : hpc'[g] # "set"
    BY <1>3, OneRequest DEF SetModified, OneRequest
  <2>2. QED BY <2>1
<1>4. ASSUME NEW i \in Items, DeleteFeedback(i) PROVE RequestLater'
  BY <1>4 DEF DeleteFeedback
<1>5. CASE DropInactive BY <1>5 DEF DropInactive
<1>6. CASE CheckActive BY <1>6 DEF CheckActive
<1>7. CASE CheckOutOfDate BY <1>7 DEF CheckOutOfDate
<1>8. CASE TakeTime BY <1>8 DEF TakeTime
<1>9. CASE ReadFeedback BY <1>9 DEF ReadFeedback
<1>10. CASE SkipUser BY <1>10 DEF SkipUser
<1>11. CASE Compute BY <1>11 DEF Compute
<1>12. CASE AddScores BY <1>12 DEF AddScores
<1>13. CASE DeleteScores BY <1>13 DEF DeleteScores
<1>14. CASE SetUpdateTime BY <1>14 DEF SetUpdateTime
<1>15. CASE Abort BY <1>15 DEF Abort
<1>16. CASE Tick BY <1>16 DEF Tick
<1>17. CASE Reconfigure BY <1>17 DEF Reconfigure
<1>18. CASE UNCHANGED vars BY <1>18 DEF vars
<1>19. QED
  BY <1>1, <1>2, <1>3, <1>4, <1>5, <1>6, <1>7, <1>8, <1>9, <1>10, <1>11,
     <1>12, <1>13, <1>14, <1>15, <1>16, <1>17, <1>18 DEF Next, JobStep

-----------------------------------------------------------------------------

\* The invariant holds in the beginning and no step breaks it.
LEMMA InvAlways ==
    ASSUME OneRequest
    PROVE  Spec => []Inv
<1>1. Init => Inv
  BY MaxTimeAssumption, MaxConfigAssumption, MaxFailuresAssumption
  DEF Init, Inv, TypeOK, Times, Configs, Steps, Past, JobOrder, CacheOrder,
      AckedLater, AckedMissed, RequestLater, ResultsUnseen
<1>2. Inv /\ [Next]_vars => Inv'
  BY OneRequest, TypeStep, PastStep, JobOrderStep, CacheOrderStep, ResultsStep,
     AckedLaterStep, AckedMissedStep, RequestStep DEF Inv
<1>3. QED BY <1>1, <1>2, PTL DEF Spec

(***************************************************************************)
(* The variables of the server's requests, the worker's job and the stores *)
(* keep their types, also with requests that overlap.                      *)
(***************************************************************************)
THEOREM TypeCorrect == Spec => []TypeOK
<1>1. Init => TypeOK
  BY MaxTimeAssumption, MaxConfigAssumption, MaxFailuresAssumption
  DEF Init, TypeOK, Times, Configs, Steps
<1>2. QED BY <1>1, TypeStep, PTL DEF Spec

(***************************************************************************)
(* A cache that checkRecommendCacheOutOfDate takes for up to date holds no *)
(* item the user gave acknowledged feedback on, for any number of items    *)
(* and failures, any expiry and any configuration, as long as the user's   *)
(* requests do not overlap.                                                *)
(***************************************************************************)
THEOREM FreshMeansSeenAlways ==
    ASSUME OneRequest
    PROVE  Spec => []FreshMeansSeen
<1>1. Inv => FreshMeansSeen
  <2> SUFFICES ASSUME Inv, ~Stale, NEW i \in acked PROVE cache[i] = 0
    BY DEF FreshMeansSeen
  <2>1. modified \in Nat /\ updateTime \in Nat /\ i \in Items
        /\ cache[i] \in Nat
    BY MaxTimeAssumption DEF Inv, TypeOK, Times
  <2>2. modified < updateTime
    BY <2>1 DEF Stale
  <2>3. cache[i] <= modified
    BY DEF Inv, AckedLater
  <2>4. cache[i] # 0 => updateTime <= cache[i]
    BY <2>1 DEF Inv, CacheOrder
  <2>5. QED BY <2>1, <2>2, <2>3, <2>4
<1>2. QED BY <1>1, InvAlways, OneRequest, PTL

-----------------------------------------------------------------------------
(* The quotas: RestWrites.                                                 *)

\* What the configuration and the requests are made of.
Limits ==
    /\ IsFiniteSet(UserIds) /\ IsFiniteSet(ItemIds)
    /\ IsFiniteSet(Handlers) /\ Handlers # {}
    /\ MaxUsers \in Nat \ {0} /\ MaxItems \in Nat \ {0} /\ MaxBatch \in Nat \ {0}
    /\ Estimates \subseteq Nat

Ops == {"none", "insertUsers", "modifyUser", "deleteUser", "insertItems", "insertFeedback",
        "deleteFeedback"}
Points == {"free", "countUsers", "countItems", "data", "cache"}
Record == [op : Ops, users : SUBSET UserIds, items : SUBSET ItemIds, at : Points]

WriteTypeOK ==
    /\ auto \in [user : BOOLEAN, item : BOOLEAN]
    /\ users \in SUBSET UserIds /\ items \in SUBSET ItemIds
    /\ handler \in [Handlers -> Record]
    /\ exact \in BOOLEAN /\ short \in [{"user", "item"} -> Nat]

\* A request is not larger than a batch, and only two kinds count users.
Small ==
    \A h \in Handlers :
        /\ Cardinality(handler[h].users) <= MaxBatch
        /\ Cardinality(handler[h].items) <= MaxBatch
        /\ handler[h].at = "countUsers" => handler[h].op \in {"insertUsers", "insertFeedback"}

-----------------------------------------------------------------------------
(***************************************************************************)
(* The argument, for the users and for the items.  A handler counts and    *)
(* inserts later; in between its batch was promised a place.  The last one *)
(* that counted saw everything inserted so far and fitted together with    *)
(* it, so it alone can be charged with its own batch and all others that   *)
(* are in between with a full one each.  What its count was short of the   *)
(* things inserted is charged to the limit.                                *)
(***************************************************************************)
Limit(max) == max + (Cardinality(Handlers) - 1) * MaxBatch

\* n things are stored, the handlers in C are between count and insert.
Slack(n, C, size, max) ==
    IF C = {} THEN n <= Limit(max)
    ELSE \E h \in C : n + size[h] + (Cardinality(C) - 1) * MaxBatch <= Limit(max)

AddsUsers(h) == handler[h].op = "insertUsers" \/ (handler[h].op = "insertFeedback" /\ auto.user)
AddsItems(h) == handler[h].op = "insertItems" \/ (handler[h].op = "insertFeedback" /\ auto.item)

\* The handlers that have passed the quota and not yet inserted.
CountedUsers ==
    {h \in Handlers : /\ AddsUsers(h)
                      /\ \/ handler[h].at = "data"
                         \/ handler[h].at = "countItems"}
CountedItems == {h \in Handlers : AddsItems(h) /\ handler[h].at = "data"}

UserSize == [h \in Handlers |-> Cardinality(handler[h].users)]
ItemSize == [h \in Handlers |-> Cardinality(handler[h].items)]

\* The limits, and by how much the counts were short.
UserLimit == MaxUsers + short["user"]
ItemLimit == MaxItems + short["item"]

QuotaInv ==
    /\ WriteTypeOK /\ Small
    /\ exact => short["user"] = 0 /\ short["item"] = 0
    /\ ~uncounted => /\ Slack(Cardinality(users), CountedUsers, UserSize, UserLimit)
                     /\ Slack(Cardinality(items), CountedItems, ItemSize, ItemLimit)

-----------------------------------------------------------------------------
(* Counting.                                                               *)

\* A longer row of batches is not smaller.
LEMMA Monotone ==
    ASSUME NEW a \in Int, NEW b \in Int, NEW m \in Nat, a <= b
    PROVE  a * m <= b * m
<1>1. (b - a) * m >= 0
  OBVIOUS
<1>2. (b - a) * m = b * m - a * m
  OBVIOUS
<1>3. QED
  BY <1>1, <1>2

\* What handler h may do to the slack when n things become m: it inserts at most
\* what it was promised or gives the promise up, it goes on with it, or it counts
\* and fits.
Fit(n, m, C, D, s, t, h, max) ==
    \/ h \notin D /\ h \in C /\ m <= n + s[h]
    \/ h \notin D /\ m <= n
    \/ h \in D /\ h \in C /\ t[h] = s[h] /\ m <= n
    \/ h \in D /\ m + t[h] <= max

\* In all these cases there is slack again.
LEMMA SlackStep ==
    ASSUME Limits, NEW C \in SUBSET Handlers, NEW D \in SUBSET Handlers, NEW h \in Handlers,
           NEW s \in [Handlers -> 0 .. MaxBatch], NEW t \in [Handlers -> 0 .. MaxBatch],
           NEW n \in Nat, NEW m \in Nat, NEW max \in Nat,
           \A g \in Handlers \ {h} : (g \in C <=> g \in D) /\ s[g] = t[g],
           Slack(n, C, s, max), Fit(n, m, C, D, s, t, h, max)
    PROVE  Slack(m, D, t, max)
<1> DEFINE c == Cardinality(C)
           d == Cardinality(D)
           H == Cardinality(Handlers)
<1>1. MaxBatch \in Nat /\ H \in Nat /\ c \in Nat /\ d \in Nat /\ c <= H /\ d <= H
  BY FS_CardinalityType, FS_Subset DEF Limits
<1>2. IsFiniteSet(C) /\ IsFiniteSet(D)
  BY FS_Subset DEF Limits
<1>3. Limit(max) = max + (H - 1) * MaxBatch
  BY DEF Limit
<1> HIDE DEF c, d, H
<1>4. (c - 1) * MaxBatch \in Int /\ (d - 1) * MaxBatch \in Int /\ (H - 1) * MaxBatch \in Int
  BY <1>1
<1>5. CASE h \in D /\ m + t[h] <= max
  <2>1. (d - 1) * MaxBatch <= (H - 1) * MaxBatch
    BY <1>1, Monotone
  <2>2. m + t[h] + (d - 1) * MaxBatch <= Limit(max)
    BY <1>3, <1>4, <1>5, <2>1
  <2>3. QED
    BY <1>5, <2>2 DEF Slack, d
<1>6. CASE h \in D /\ h \in C /\ t[h] = s[h] /\ m <= n
  <2>1. D = C /\ \A g \in C : s[g] = t[g]
    BY <1>6
  <2>2. PICK g \in C : n + s[g] + (c - 1) * MaxBatch <= Limit(max)
    BY <1>6 DEF Slack, c
  <2>3. m + t[g] + (d - 1) * MaxBatch <= Limit(max)
    BY <1>1, <1>3, <1>4, <1>6, <2>1, <2>2 DEF c, d
  <2>4. QED
    BY <2>1, <2>3 DEF Slack, d
<1>7. CASE h \notin D /\ h \in C /\ m <= n + s[h]
  <2>1. D = C \ {h} /\ d = c - 1 /\ c >= 1
    <3>1. D = C \ {h}
      BY <1>7
    <3>2. d = c - 1
      BY <1>2, <1>7, <3>1, FS_RemoveElement DEF c, d
    <3>3. QED
      BY <1>1, <3>1, <3>2
  <2>2. (d - 1) * MaxBatch = (c - 1) * MaxBatch - MaxBatch
    BY <1>1, <2>1
  <2>3. PICK g \in C : n + s[g] + (c - 1) * MaxBatch <= Limit(max)
    BY <1>7 DEF Slack, c
  <2>4. CASE g = h
    <3>1. m + (c - 1) * MaxBatch <= Limit(max)
      BY <1>3, <1>4, <1>7, <2>3, <2>4
    <3>2. CASE D = {}
      <4>1. d = 0 /\ c = 1
        <5>1. d = 0
          BY <3>2, FS_EmptySet, Zenon DEF d
        <5>2. QED
          BY <1>1, <2>1, <5>1
      <4>2. (c - 1) * MaxBatch = 0
        BY <1>1, <4>1
      <4>3. QED
        BY <3>1, <3>2, <4>2 DEF Slack
    <3>3. CASE D # {}
      <4>1. PICK k \in D : TRUE
        BY <3>3
      <4>2. t[k] \in 0 .. MaxBatch
        OBVIOUS
      <4>3. m + t[k] + (d - 1) * MaxBatch <= Limit(max)
        BY <1>1, <1>3, <1>4, <2>2, <3>1, <4>2
      <4>4. QED
        BY <4>3 DEF Slack, d
    <3>4. QED
      BY <3>2, <3>3
  <2>5. CASE g # h
    <3>1. g \in D /\ t[g] = s[g] /\ s[h] \in 0 .. MaxBatch /\ s[g] \in 0 .. MaxBatch
      BY <2>1, <2>5
    <3>2. m + t[g] + (d - 1) * MaxBatch <= Limit(max)
      BY <1>1, <1>3, <1>4, <1>7, <2>2, <2>3, <3>1
    <3>3. QED
      BY <3>1, <3>2 DEF Slack, d
  <2>6. QED
    BY <2>4, <2>5
<1>8. CASE h \notin D /\ h \notin C /\ m <= n
  <2>1. D = C /\ \A g \in C : s[g] = t[g]
    BY <1>8
  <2>2. CASE C = {}
    BY <1>1, <1>3, <1>4, <1>8, <2>1, <2>2 DEF Slack
  <2>3. CASE C # {}
    <3>1. PICK g \in C : n + s[g] + (c - 1) * MaxBatch <= Limit(max)
      BY <2>3 DEF Slack, c
    <3>2. m + t[g] + (d - 1) * MaxBatch <= Limit(max)
      BY <1>1, <1>3, <1>4, <1>8, <2>1, <3>1 DEF c, d
    <3>3. QED
      BY <2>1, <3>2 DEF Slack, d
  <2>4. QED
    BY <2>2, <2>3
<1>9. CASE h \notin D /\ h \in C /\ m <= n
  <2>1. m <= n + s[h]
    BY <1>9
  <2>2. QED
    BY <1>7, <1>9, <2>1
<1>10. QED
  BY <1>5, <1>6, <1>7, <1>8, <1>9 DEF Fit

\* Slack is left when the limit grows.
LEMMA SlackGrows ==
    ASSUME Limits, NEW C \in SUBSET Handlers, NEW s \in [Handlers -> 0 .. MaxBatch],
           NEW n \in Nat, NEW max \in Nat, NEW more \in Nat, max <= more, Slack(n, C, s, max)
    PROVE  Slack(n, C, s, more)
<1>1. MaxBatch \in Nat /\ Cardinality(Handlers) \in Nat /\ Cardinality(C) \in Nat
  BY FS_CardinalityType, FS_Subset DEF Limits
<1> DEFINE a == (Cardinality(Handlers) - 1) * MaxBatch
           b == (Cardinality(C) - 1) * MaxBatch
<1>2. a \in Int /\ b \in Int
  BY <1>1
<1>3. Limit(max) = max + a /\ Limit(more) = more + a
  BY DEF Limit
<1> HIDE DEF a
<1>4. CASE C = {}
  BY <1>2, <1>3, <1>4 DEF Slack
<1>5. CASE C # {}
  <2>1. PICK h \in C : n + s[h] + b <= Limit(max)
    BY <1>5 DEF Slack
  <2>2. s[h] \in 0 .. MaxBatch
    OBVIOUS
  <2> HIDE DEF b
  <2>3. n + s[h] + b <= Limit(more)
    BY <1>1, <1>2, <1>3, <2>1, <2>2
  <2>4. QED
    BY <1>5, <2>3 DEF Slack, b
<1>6. QED
  BY <1>4, <1>5

\* With slack left, the limit is kept.
LEMMA SlackMeansLimit ==
    ASSUME Limits, NEW C \in SUBSET Handlers, NEW s \in [Handlers -> 0 .. MaxBatch],
           NEW n \in Nat, NEW max \in Nat, Slack(n, C, s, max)
    PROVE  n <= max + (Cardinality(Handlers) - 1) * MaxBatch
<1>1. CASE C = {}
  BY <1>1 DEF Slack, Limit
<1>2. CASE C # {}
  <2>1. PICK h \in C : n + s[h] + (Cardinality(C) - 1) * MaxBatch <= Limit(max)
    BY <1>2 DEF Slack
  <2>2. Cardinality(C) \in Nat /\ Cardinality(C) >= 1 /\ MaxBatch \in Nat /\ Cardinality(Handlers) \in Nat
    BY <1>2, FS_Subset, FS_CardinalityType, FS_EmptySet DEF Limits
  <2>3. 0 * MaxBatch <= (Cardinality(C) - 1) * MaxBatch
    BY <2>2, Monotone
  <2>4. s[h] \in 0 .. MaxBatch
    OBVIOUS
  <2>5. /\ (Cardinality(C) - 1) * MaxBatch \in Int /\ (Cardinality(C) - 1) * MaxBatch >= 0
        /\ (Cardinality(Handlers) - 1) * MaxBatch \in Int
    BY <2>2, <2>3
  <2>6. QED
    BY <2>1, <2>2, <2>4, <2>5 DEF Limit
<1>3. QED
  BY <1>1, <1>2

\* Sets of users and of items are finite, and a union is not larger than its parts.
LEMMA Finite ==
    ASSUME Limits, NEW S, IsFiniteSet(S), NEW A \in SUBSET S, NEW B \in SUBSET S
    PROVE  /\ Cardinality(A) \in Nat /\ Cardinality(B) \in Nat
           /\ Cardinality(A \cup B) \in Nat /\ Cardinality(A \ B) \in Nat
           /\ Cardinality(A \cup B) <= Cardinality(A) + Cardinality(B)
           /\ Cardinality(A \ B) <= Cardinality(A)
<1>1. IsFiniteSet(A) /\ IsFiniteSet(B)
  BY FS_Subset
<1>2. IsFiniteSet(A \cup B) /\ IsFiniteSet(A \cap B) /\ IsFiniteSet(A \ B)
  <2>1. A \cup B \in SUBSET S /\ A \cap B \in SUBSET S /\ A \ B \in SUBSET S
    OBVIOUS
  <2>2. QED
    BY <2>1, FS_Subset
<1>3. /\ Cardinality(A) \in Nat /\ Cardinality(B) \in Nat /\ Cardinality(A \cup B) \in Nat
      /\ Cardinality(A \cap B) \in Nat /\ Cardinality(A \ B) \in Nat
  BY <1>1, <1>2, FS_CardinalityType
<1>4. Cardinality(A \cup B) = Cardinality(A) + Cardinality(B) - Cardinality(A \cap B)
  BY <1>1, FS_Union
<1>5. Cardinality(A \ B) = Cardinality(A) - Cardinality(A \cap B)
  BY <1>1, FS_Difference
<1>6. QED
  BY <1>3, <1>4, <1>5

-----------------------------------------------------------------------------
(* The steps of a handler.                                                 *)

\* Every part of a finite set has a size.
LEMMA HasSize ==
    ASSUME NEW S, IsFiniteSet(S), NEW A \in SUBSET S
    PROVE  Cardinality(A) \in Nat
BY FS_Subset, FS_CardinalityType

\* The sizes of requests r that are no larger than a batch are what Slack expects.
LEMMA Sizes ==
    ASSUME Limits, NEW r \in [Handlers -> Record],
           \A h \in Handlers : /\ Cardinality(r[h].users) <= MaxBatch
                               /\ Cardinality(r[h].items) <= MaxBatch
    PROVE  /\ [h \in Handlers |-> Cardinality(r[h].users)] \in [Handlers -> 0 .. MaxBatch]
           /\ [h \in Handlers |-> Cardinality(r[h].items)] \in [Handlers -> 0 .. MaxBatch]
<1>1. ASSUME NEW h \in Handlers
      PROVE  Cardinality(r[h].users) \in 0 .. MaxBatch /\ Cardinality(r[h].items) \in 0 .. MaxBatch
  <2>1. r[h].users \in SUBSET UserIds /\ r[h].items \in SUBSET ItemIds
    BY DEF Record
  <2>2. Cardinality(r[h].users) \in Nat /\ Cardinality(r[h].items) \in Nat
    BY <2>1, HasSize DEF Limits
  <2>3. MaxBatch \in Nat
    BY DEF Limits
  <2>4. QED
    BY <2>2, <2>3
<1>2. QED
  BY <1>1

\* The frame of every action: one handler moves.
Moves(h) ==
    /\ auto' = auto
    /\ \A g \in Handlers : g # h => handler'[g] = handler[g]

\* What the action of h has to show for the users ...
UsersFit(h) == Fit(Cardinality(users), Cardinality(users'), CountedUsers, CountedUsers',
                   UserSize, UserSize', h, UserLimit')

\* ... and for the items.
ItemsFit(h) == Fit(Cardinality(items), Cardinality(items'), CountedItems, CountedItems',
                   ItemSize, ItemSize', h, ItemLimit')

\* Counts are short by no less than before, and never where the store counts.
Shorter ==
    /\ short["user"] <= short'["user"] /\ short["item"] <= short'["item"]
    /\ exact' => short'["user"] = 0 /\ short'["item"] = 0

\* Then the quotas are kept.
LEMMA QuotaStep ==
    ASSUME Limits, QuotaInv, WriteTypeOK', Small', NEW h \in Handlers, Moves(h), Shorter,
           uncounted => uncounted', ~uncounted' => UsersFit(h) /\ ItemsFit(h)
    PROVE  QuotaInv'
<1> SUFFICES ASSUME ~uncounted'
             PROVE  /\ Slack(Cardinality(users), CountedUsers, UserSize, UserLimit)'
                    /\ Slack(Cardinality(items), CountedItems, ItemSize, ItemLimit)'
  BY DEF QuotaInv, Shorter
<1>1. /\ Slack(Cardinality(users), CountedUsers, UserSize, UserLimit)
      /\ Slack(Cardinality(items), CountedItems, ItemSize, ItemLimit)
      /\ WriteTypeOK /\ Small
  BY DEF QuotaInv
<1>2. /\ UserSize \in [Handlers -> 0 .. MaxBatch] /\ ItemSize \in [Handlers -> 0 .. MaxBatch]
      /\ CountedUsers \in SUBSET Handlers /\ CountedItems \in SUBSET Handlers
  BY <1>1, Sizes DEF WriteTypeOK, Small, UserSize, ItemSize, CountedUsers, CountedItems
<1>3. /\ UserSize' \in [Handlers -> 0 .. MaxBatch] /\ ItemSize' \in [Handlers -> 0 .. MaxBatch]
      /\ CountedUsers' \in SUBSET Handlers /\ CountedItems' \in SUBSET Handlers
  BY Sizes DEF WriteTypeOK, Small, UserSize, ItemSize, CountedUsers, CountedItems
<1>9. /\ Cardinality(users) \in Nat /\ Cardinality(items) \in Nat
      /\ Cardinality(users') \in Nat /\ Cardinality(items') \in Nat
      /\ UserLimit \in Nat /\ ItemLimit \in Nat /\ UserLimit' \in Nat /\ ItemLimit' \in Nat
      /\ UserLimit <= UserLimit' /\ ItemLimit <= ItemLimit'
  <2>1. /\ Cardinality(users) \in Nat /\ Cardinality(items) \in Nat
        /\ Cardinality(users') \in Nat /\ Cardinality(items') \in Nat
    BY <1>1, HasSize DEF WriteTypeOK, Limits
  <2>2. QED
    BY <1>1, <2>1 DEF WriteTypeOK, Limits, UserLimit, ItemLimit, Shorter
<1>10. /\ Slack(Cardinality(users), CountedUsers, UserSize, UserLimit')
       /\ Slack(Cardinality(items), CountedItems, ItemSize, ItemLimit')
  BY <1>1, <1>2, <1>9, SlackGrows
<1>4. \A g \in Handlers \ {h} :
        /\ (g \in CountedUsers <=> g \in CountedUsers') /\ UserSize[g] = UserSize'[g]
        /\ (g \in CountedItems <=> g \in CountedItems') /\ ItemSize[g] = ItemSize'[g]
  BY DEF Moves, CountedUsers, CountedItems, AddsUsers, AddsItems, UserSize, ItemSize
<1>5. Slack(Cardinality(users'), CountedUsers', UserSize', UserLimit')
  BY <1>2, <1>3, <1>4, <1>9, <1>10, SlackStep DEF UsersFit
<1>6. Slack(Cardinality(items'), CountedItems', ItemSize', ItemLimit')
  BY <1>2, <1>3, <1>4, <1>9, <1>10, SlackStep DEF ItemsFit
<1>7. QED
  BY <1>5, <1>6 DEF Slack, Limit

\* A handler goes on with its request.
LEMMA GoMoves ==
    ASSUME Limits, QuotaInv, NEW h \in Handlers, NEW a \in Points \ {"countUsers"}, Go(h, a),
           auto' = auto
    PROVE  /\ Moves(h) /\ handler' \in [Handlers -> Record] /\ Small'
           /\ handler'[h].at = a /\ handler'[h].op = handler[h].op
           /\ handler'[h].users = handler[h].users /\ handler'[h].items = handler[h].items
<1>1. handler \in [Handlers -> Record]
  BY DEF QuotaInv, WriteTypeOK
<1>2. /\ handler' \in [Handlers -> Record]
      /\ handler'[h].at = a /\ handler'[h].op = handler[h].op
      /\ handler'[h].users = handler[h].users /\ handler'[h].items = handler[h].items
      /\ \A g \in Handlers : g # h => handler'[g] = handler[g]
  BY <1>1 DEF Go, Record
<1>3. Small'
  BY <1>2 DEF QuotaInv, Small
<1>4. QED
  BY <1>2, <1>3 DEF Moves

\* A handler is done with its request.
LEMMA AnswerMoves ==
    ASSUME Limits, QuotaInv, NEW h \in Handlers, Answer(h), auto' = auto
    PROVE  /\ Moves(h) /\ handler' \in [Handlers -> Record] /\ Small'
           /\ handler'[h] = Free
<1>1. handler \in [Handlers -> Record] /\ Free \in Record
  BY DEF QuotaInv, WriteTypeOK, Free, Record, Ops, Points
<1>2. /\ handler' \in [Handlers -> Record] /\ handler'[h] = Free
      /\ \A g \in Handlers : g # h => handler'[g] = handler[g]
  BY <1>1 DEF Answer
<1>3. MaxBatch \in Nat /\ Cardinality({}) = 0
  BY FS_EmptySet DEF Limits
<1>4. Small'
  <2>1. Free.users = {} /\ Free.items = {} /\ Free.at = "free"
    BY DEF Free
  <2>2. Cardinality(handler'[h].users) <= MaxBatch /\ Cardinality(handler'[h].items) <= MaxBatch
    BY <1>2, <1>3, <2>1
  <2>3. QED
    BY <1>2, <2>1, <2>2 DEF QuotaInv, Small
<1>5. QED
  BY <1>2, <1>4 DEF Moves

\* A handler that is free, or whose request is not one of those that count, has
\* no promise; it changes nothing when the stored things become no more.
LEMMA Unpromised ==
    ASSUME NEW h \in Handlers, h \notin CountedUsers', h \notin CountedItems',
           Cardinality(users') <= Cardinality(users), Cardinality(items') <= Cardinality(items)
    PROVE  UsersFit(h) /\ ItemsFit(h)
BY DEF UsersFit, ItemsFit, Fit

\* A number is at most itself: for stores that a step leaves alone.
LEMMA Same ==
    ASSUME Limits, WriteTypeOK
    PROVE  Cardinality(users) <= Cardinality(users) /\ Cardinality(items) <= Cardinality(items)
<1>1. Cardinality(users) \in Nat /\ Cardinality(items) \in Nat
  BY HasSize DEF Limits, WriteTypeOK
<1>2. QED
  BY <1>1

\* A step that counts nothing.
LEMMA NoCount == ASSUME QuotaInv, UNCHANGED <<exact, short>> PROVE Shorter
<1>1. short["user"] \in Nat /\ short["item"] \in Nat
  BY DEF QuotaInv, WriteTypeOK
<1>2. QED
  BY <1>1 DEF QuotaInv, Shorter

\* A request that arrives is no larger than a batch and begins before its count.
LEMMA ArriveStep ==
    ASSUME Limits, QuotaInv, NEW h \in Handlers, Arrive(h) PROVE QuotaInv'
<1>1. WriteTypeOK /\ Small /\ handler \in [Handlers -> Record]
  BY DEF QuotaInv, WriteTypeOK
<1>2. UNCHANGED <<auto, exact, users, items, short, uncounted>>
  BY DEF Arrive
<1>3. PICK r \in Bodies, form \in Forms :
        handler' = IF AuthFilter(form) /\ checkSizes(form)
                   THEN [handler EXCEPT ![h] = [op |-> r.op, users |-> r.users, items |-> r.items, at |-> First(r.op)]]
                   ELSE handler
  BY DEF Arrive
<1>4. CASE handler' = handler
  BY <1>2, <1>4 DEF QuotaInv, WriteTypeOK, Small, Slack, Limit, CountedUsers, CountedItems,
                    AddsUsers, AddsItems, UserSize, ItemSize, UserLimit, ItemLimit
<1>5. CASE handler' = [handler EXCEPT ![h] = [op |-> r.op, users |-> r.users, items |-> r.items, at |-> First(r.op)]]
  <2>1. /\ r.users \in SUBSET UserIds /\ r.items \in SUBSET ItemIds /\ r.op \in Ops
        /\ Cardinality(r.users) <= MaxBatch /\ Cardinality(r.items) <= MaxBatch
    <3>1. MaxBatch \in Nat /\ 0 <= MaxBatch /\ 1 <= MaxBatch
      BY DEF Limits
    <3>2. Cardinality({}) = 0 /\ \A x : Cardinality({x}) = 1
      BY FS_EmptySet, FS_Singleton
    <3>3. CASE r \in [op : {"insertUsers"}, users : Batches(UserIds), items : {{}}]
      BY <3>1, <3>2, <3>3 DEF Batches, Ops
    <3>4. CASE r \in [op : {"modifyUser", "deleteUser"}, users : {{u} : u \in UserIds}, items : {{}}]
      BY <3>1, <3>2, <3>4 DEF Ops
    <3>5. CASE r \in [op : {"insertItems"}, users : {{}}, items : Batches(ItemIds)]
      BY <3>1, <3>2, <3>5 DEF Batches, Ops
    <3>6. CASE r \in [op : {"insertFeedback", "deleteFeedback"}, users : {{u} : u \in UserIds}, items : {{i} : i \in ItemIds}]
      BY <3>1, <3>2, <3>6 DEF Ops
    <3>7. QED
      BY <3>3, <3>4, <3>5, <3>6 DEF Bodies
  <2>2. First(r.op) \in Points
    BY DEF First, Points
  <2>3. handler'[h] = [op |-> r.op, users |-> r.users, items |-> r.items, at |-> First(r.op)]
    BY <1>1, <1>5
  <2>4. handler' \in [Handlers -> Record] /\ \A g \in Handlers : g # h => handler'[g] = handler[g]
    BY <1>1, <1>5, <2>1, <2>2 DEF Record
  <2>5. First(r.op) = "countUsers" => r.op \in {"insertUsers", "insertFeedback"}
    BY DEF First
  <2>6. WriteTypeOK' /\ Small' /\ Moves(h)
    BY <1>1, <1>2, <2>1, <2>3, <2>4, <2>5 DEF WriteTypeOK, Small, Moves
  <2>7. h \notin CountedUsers' /\ h \notin CountedItems'
    BY <1>2, <2>3 DEF CountedUsers, CountedItems, AddsUsers, AddsItems, First
  <2>8. UsersFit(h) /\ ItemsFit(h)
    BY <1>1, <1>2, <2>7, Unpromised, Same
  <2>9. QED
    BY <1>2, <2>6, <2>8, NoCount, QuotaStep
<1>6. QED
  BY <1>3, <1>4, <1>5

\* What it means that a request passed: an exact count is not short, an estimate
\* may be, and then short says by how much.
LEMMA LetThroughShort ==
    ASSUME QuotaInv, NEW kind \in {"user", "item"}, NEW n \in Nat, NEW many \in Nat,
           LetThrough(kind, n, many), exact => n = many, exact' = exact
    PROVE  Shorter /\ short' \in [{"user", "item"} -> Nat] /\ many <= n + short'[kind]
<1>1. short \in [{"user", "item"} -> Nat] /\ (exact => short["user"] = 0 /\ short["item"] = 0)
  BY DEF QuotaInv, WriteTypeOK
<1>2. short' = [short EXCEPT ![kind] = IF many > n + @ THEN many - n ELSE @]
  BY DEF LetThrough
<1>3. short'[kind] = IF many > n + short[kind] THEN many - n ELSE short[kind]
  BY <1>1, <1>2
<1>4. \A k \in {"user", "item"} : k # kind => short'[k] = short[k]
  BY <1>1, <1>2
<1>5. short[kind] \in Nat
  BY <1>1
<1>6. short[kind] <= short'[kind] /\ many <= n + short'[kind] /\ short'[kind] \in Nat
  BY <1>3, <1>5
<1>7. exact => short'[kind] = 0
  BY <1>1, <1>3
<1>8. short' \in [{"user", "item"} -> Nat]
  BY <1>1, <1>2, <1>3, <1>6
<1>9. Shorter
  BY <1>1, <1>4, <1>6, <1>7 DEF Shorter
<1>10. QED
  BY <1>6, <1>8, <1>9

\* A request that does not fit is answered, and nothing else happens.
LEMMA RefusedStep ==
    ASSUME Limits, QuotaInv, NEW h \in Handlers, Answer(h),
           UNCHANGED <<auto, exact, users, items, short, uncounted>>
    PROVE  QuotaInv'
<1>1. WriteTypeOK /\ Small
  BY DEF QuotaInv
<1>2. h \notin CountedUsers' /\ h \notin CountedItems' /\ Small' /\ WriteTypeOK' /\ Moves(h)
  BY <1>1, AnswerMoves DEF WriteTypeOK, Free, CountedUsers, CountedItems
<1>3. QED
  BY <1>1, <1>2, Unpromised, Same, NoCount, QuotaStep

\* The quota of users: a handler that fits is promised its places.
LEMMA CountUsersStep ==
    ASSUME Limits, QuotaInv, NEW h \in Handlers, checkUserCountLimit(h)
    PROVE  QuotaInv'
<1>1. /\ WriteTypeOK /\ Small /\ UNCHANGED <<auto, exact, users, items, uncounted>>
      /\ handler[h].at = "countUsers"
  BY DEF QuotaInv, checkUserCountLimit
<1>2. PICK n \in CountUsers :
        IF n + Cardinality(handler[h].users) > MaxUsers
          THEN Answer(h) /\ UNCHANGED short
          ELSE Go(h, AfterUsers(h)) /\ LetThrough("user", n, Cardinality(users))
  BY DEF checkUserCountLimit
<1>3. CASE n + Cardinality(handler[h].users) > MaxUsers
  BY <1>1, <1>2, <1>3, RefusedStep
<1>4. CASE ~(n + Cardinality(handler[h].users) > MaxUsers)
  <2>1. handler[h].users \in SUBSET UserIds
    BY <1>1 DEF WriteTypeOK, Record
  <2>2. /\ Cardinality(users) \in Nat /\ Cardinality(handler[h].users) \in Nat
        /\ MaxUsers \in Nat /\ Estimates \subseteq Nat
    BY <1>1, <2>1, HasSize DEF WriteTypeOK, Limits
  <2>3. n \in Nat /\ (exact => n = Cardinality(users))
    BY <2>2 DEF CountUsers
  <2>4. Go(h, AfterUsers(h)) /\ LetThrough("user", n, Cardinality(users)) /\ AfterUsers(h) \in {"countItems", "data"}
    BY <1>2, <1>4 DEF AfterUsers
  <2>5. Shorter /\ short' \in [{"user", "item"} -> Nat] /\ Cardinality(users) <= n + short'["user"]
    BY <1>1, <2>2, <2>3, <2>4, LetThroughShort
  <2>6. /\ Small' /\ WriteTypeOK' /\ Moves(h) /\ handler'[h].at = AfterUsers(h)
        /\ handler'[h].op = handler[h].op /\ handler'[h].users = handler[h].users
    BY <1>1, <2>4, <2>5, GoMoves DEF WriteTypeOK, Points
  <2>7. UserSize'[h] = Cardinality(handler[h].users)
    BY <2>6 DEF UserSize
  <2>8. Cardinality(users) + UserSize'[h] <= UserLimit'
    <3>1. short'["user"] \in Nat
      BY <2>5
    <3>2. n + Cardinality(handler[h].users) <= MaxUsers
      BY <1>4, <2>2, <2>3
    <3>3. QED
      BY <2>2, <2>3, <2>5, <2>7, <3>1, <3>2 DEF UserLimit
  <2>9. UsersFit(h)
    <3>1. CASE h \in CountedUsers'
      BY <1>1, <2>8, <3>1 DEF UsersFit, Fit
    <3>2. CASE h \notin CountedUsers'
      BY <1>1, <3>2, Same DEF UsersFit, Fit
    <3>3. QED
      BY <3>1, <3>2
  <2>10. h \notin CountedItems'
    BY <1>1, <2>6 DEF CountedItems, AddsItems, Small, AfterUsers
  <2>11. ItemsFit(h)
    BY <1>1, <2>10, Same DEF ItemsFit, Fit
  <2>12. QED
    BY <1>1, <2>5, <2>6, <2>9, <2>11, QuotaStep
<1>5. QED
  BY <1>3, <1>4

\* The quota of items, likewise; the promise of users is kept.
LEMMA CountItemsStep ==
    ASSUME Limits, QuotaInv, NEW h \in Handlers, checkItemCountLimit(h)
    PROVE  QuotaInv'
<1>1. /\ WriteTypeOK /\ Small /\ UNCHANGED <<auto, exact, users, items, uncounted>>
      /\ handler[h].at = "countItems"
  BY DEF QuotaInv, checkItemCountLimit
<1>2. PICK n \in CountItems :
        IF n + Cardinality(handler[h].items) > MaxItems
          THEN Answer(h) /\ UNCHANGED short
          ELSE Go(h, "data") /\ LetThrough("item", n, Cardinality(items))
  BY DEF checkItemCountLimit
<1>3. CASE n + Cardinality(handler[h].items) > MaxItems
  BY <1>1, <1>2, <1>3, RefusedStep
<1>4. CASE ~(n + Cardinality(handler[h].items) > MaxItems)
  <2>1. handler[h].items \in SUBSET ItemIds
    BY <1>1 DEF WriteTypeOK, Record
  <2>2. /\ Cardinality(items) \in Nat /\ Cardinality(handler[h].items) \in Nat
        /\ MaxItems \in Nat /\ Estimates \subseteq Nat
    BY <1>1, <2>1, HasSize DEF WriteTypeOK, Limits
  <2>3. n \in Nat /\ (exact => n = Cardinality(items))
    BY <2>2 DEF CountItems
  <2>4. Go(h, "data") /\ LetThrough("item", n, Cardinality(items))
    BY <1>2, <1>4
  <2>5. Shorter /\ short' \in [{"user", "item"} -> Nat] /\ Cardinality(items) <= n + short'["item"]
    BY <1>1, <2>2, <2>3, <2>4, LetThroughShort
  <2>6. /\ Small' /\ WriteTypeOK' /\ Moves(h) /\ handler'[h].at = "data"
        /\ handler'[h].op = handler[h].op /\ handler'[h].users = handler[h].users
        /\ handler'[h].items = handler[h].items
    BY <1>1, <2>4, <2>5, GoMoves DEF WriteTypeOK, Points
  <2>7. ItemSize'[h] = Cardinality(handler[h].items) /\ UserSize'[h] = UserSize[h]
    BY <2>6 DEF ItemSize, UserSize
  <2>8. Cardinality(items) + ItemSize'[h] <= ItemLimit'
    <3>1. short'["item"] \in Nat
      BY <2>5
    <3>2. n + Cardinality(handler[h].items) <= MaxItems
      BY <1>4, <2>2, <2>3
    <3>3. QED
      BY <2>2, <2>3, <2>5, <2>7, <3>1, <3>2 DEF ItemLimit
  <2>9. ItemsFit(h)
    <3>1. CASE h \in CountedItems'
      BY <1>1, <2>8, <3>1 DEF ItemsFit, Fit
    <3>2. CASE h \notin CountedItems'
      BY <1>1, <3>2, Same DEF ItemsFit, Fit
    <3>3. QED
      BY <3>1, <3>2
  <2>10. h \in CountedUsers' <=> h \in CountedUsers
    BY <1>1, <2>6 DEF CountedUsers, AddsUsers
  <2>11. UsersFit(h)
    BY <1>1, <2>7, <2>10, Same DEF UsersFit, Fit
  <2>12. QED
    BY <1>1, <2>5, <2>6, <2>9, <2>11, QuotaStep
<1>5. QED
  BY <1>3, <1>4

\* A count that fails lifts the quotas.
LEMMA CountFailsStep ==
    ASSUME Limits, QuotaInv, NEW h \in Handlers, CountFails(h)
    PROVE  QuotaInv'
<1>1. WriteTypeOK /\ Small /\ uncounted' /\ UNCHANGED <<auto, exact, users, items, short>>
  BY DEF QuotaInv, CountFails
<1>2. PICK a \in {"countItems", "data"} : Go(h, a)
  BY DEF CountFails, AfterUsers
<1>3. Small' /\ WriteTypeOK' /\ Moves(h)
  BY <1>1, <1>2, GoMoves DEF WriteTypeOK, Points
<1>4. QED
  BY <1>1, <1>3, NoCount, QuotaStep

\* The calls on the stores: a handler inserts at most what it was promised.
LEMMA StoreStep ==
    ASSUME Limits, QuotaInv, NEW h \in Handlers,
           \/ insertUsers(h) \/ modifyUser(h) \/ deleteUser(h) \/ batchInsertItems(h)
           \/ insertFeedback(h) \/ deleteUserItemFeedback(h) \/ StampUsers(h) \/ Fail(h)
    PROVE  QuotaInv'
<1>1. WriteTypeOK /\ Small
  BY DEF QuotaInv
<1>2. UNCHANGED <<auto, exact, short, uncounted>>
  BY DEF insertUsers, modifyUser, deleteUser, batchInsertItems, insertFeedback,
         deleteUserItemFeedback, StampUsers, Fail
<1>3. Go(h, "cache") \/ Answer(h)
  BY DEF insertUsers, modifyUser, deleteUser, batchInsertItems, insertFeedback,
         deleteUserItemFeedback, StampUsers, Fail
<1>4. /\ Moves(h) /\ handler' \in [Handlers -> Record] /\ Small'
      /\ handler'[h].at \in {"cache", "free"}
  BY <1>2, <1>3, GoMoves, AnswerMoves DEF Points, Free
<1>5. h \notin CountedUsers' /\ h \notin CountedItems'
  BY <1>4 DEF CountedUsers, CountedItems
<1>6. handler[h].users \in SUBSET UserIds /\ handler[h].items \in SUBSET ItemIds
  BY <1>1 DEF WriteTypeOK, Record
<1>7. /\ users \in SUBSET UserIds /\ items \in SUBSET ItemIds
      /\ IsFiniteSet(UserIds) /\ IsFiniteSet(ItemIds)
  BY <1>1 DEF WriteTypeOK, Limits
<1>8. /\ Cardinality(users \cup handler[h].users) <= Cardinality(users) + UserSize[h]
      /\ Cardinality(items \cup handler[h].items) <= Cardinality(items) + ItemSize[h]
      /\ Cardinality(users \ handler[h].users) <= Cardinality(users)
  BY <1>6, <1>7, Finite DEF UserSize, ItemSize
<1>9. /\ users' = users \/ users' = users \ handler[h].users
         \/ (users' = users \cup handler[h].users /\ h \in CountedUsers)
      /\ items' = items \/ (items' = items \cup handler[h].items /\ h \in CountedItems)
  BY DEF insertUsers, modifyUser, deleteUser, batchInsertItems, insertFeedback,
         deleteUserItemFeedback, StampUsers, Fail, CountedUsers, CountedItems, AddsUsers, AddsItems
<1>10. WriteTypeOK'
  BY <1>1, <1>2, <1>4, <1>6, <1>7, <1>9 DEF WriteTypeOK
<1>11. UsersFit(h)
  BY <1>1, <1>5, <1>8, <1>9, Same DEF UsersFit, Fit
<1>12. ItemsFit(h)
  BY <1>1, <1>5, <1>8, <1>9, Same DEF ItemsFit, Fit
<1>13. QED
  BY <1>2, <1>4, <1>10, <1>11, <1>12, NoCount, QuotaStep

\* Nothing is stored and no handler is busy at the start.
LEMMA QuotaStart == ASSUME Limits PROVE WriteInit => QuotaInv
<1> SUFFICES ASSUME WriteInit PROVE QuotaInv
  OBVIOUS
<1>1. MaxBatch \in Nat /\ MaxUsers \in Nat /\ MaxItems \in Nat /\ Cardinality({}) = 0
  BY FS_EmptySet DEF Limits
<1>2. \A h \in Handlers : handler[h] = Free
  BY DEF WriteInit
<1>3. WriteTypeOK
  <2>1. [user |-> 0, item |-> 0] \in [{"user", "item"} -> Nat]
    OBVIOUS
  <2>2. QED
    BY <2>1 DEF WriteInit, WriteTypeOK, Free, Record, Ops, Points
<1>4. Small
  BY <1>1, <1>2 DEF Small, Free
<1>5. CountedUsers = {} /\ CountedItems = {}
  BY <1>2 DEF CountedUsers, CountedItems, Free
<1>6. Cardinality(Handlers) \in Nat /\ Cardinality(Handlers) >= 1
  BY FS_CardinalityType, FS_EmptySet DEF Limits
<1>7. 0 * MaxBatch <= (Cardinality(Handlers) - 1) * MaxBatch
  BY <1>1, <1>6, Monotone
<1>8. short["user"] = 0 /\ short["item"] = 0
  BY DEF WriteInit
<1>9. 0 <= Limit(UserLimit) /\ 0 <= Limit(ItemLimit)
  BY <1>1, <1>6, <1>7, <1>8 DEF Limit, UserLimit, ItemLimit
<1>10. QED
  BY <1>1, <1>3, <1>4, <1>5, <1>8, <1>9 DEF WriteInit, QuotaInv, Slack

(***************************************************************************)
(* The quotas bound what is stored although every handler counts in one    *)
(* call and inserts in another: by one batch of every other handler, and   *)
(* no more, whichever endpoints they serve, as long as no count fails.  A  *)
(* store that estimates exceeds them by what a count fell short besides.   *)
(***************************************************************************)
THEOREM QuotaBoundsAlways == ASSUME Limits PROVE WriteSpec => []QuotaBounds
<1>1. WriteInit => QuotaInv
  BY QuotaStart
<1>2. QuotaInv /\ [WriteNext]_writeVars => QuotaInv'
  <2> SUFFICES ASSUME QuotaInv, [WriteNext]_writeVars PROVE QuotaInv'
    OBVIOUS
  <2>1. CASE UNCHANGED writeVars
    BY <2>1 DEF writeVars, QuotaInv, WriteTypeOK, Small, Slack, Limit, CountedUsers,
                CountedItems, AddsUsers, AddsItems, UserSize, ItemSize, UserLimit, ItemLimit
  <2>2. CASE WriteNext
    BY <2>2, ArriveStep, CountUsersStep, CountItemsStep, CountFailsStep, StoreStep DEF WriteNext
  <2>3. QED
    BY <2>1, <2>2
<1>3. QuotaInv => QuotaBounds
  <2> SUFFICES ASSUME QuotaInv, ~uncounted
               PROVE  /\ Cardinality(users) <= MaxUsers + ((IF exact THEN 0 ELSE short["user"])
                                                             + (Cardinality(Handlers) - 1) * MaxBatch)
                      /\ Cardinality(items) <= MaxItems + ((IF exact THEN 0 ELSE short["item"])
                                                             + (Cardinality(Handlers) - 1) * MaxBatch)
    BY DEF QuotaBounds
  <2>1. WriteTypeOK /\ Small /\ (exact => short["user"] = 0 /\ short["item"] = 0)
    BY DEF QuotaInv
  <2>2. /\ UserSize \in [Handlers -> 0 .. MaxBatch] /\ ItemSize \in [Handlers -> 0 .. MaxBatch]
        /\ CountedUsers \in SUBSET Handlers /\ CountedItems \in SUBSET Handlers
    BY <2>1, Sizes DEF WriteTypeOK, Small, UserSize, ItemSize, CountedUsers, CountedItems
  <2>3. Cardinality(users) \in Nat /\ Cardinality(items) \in Nat
    BY <2>1, HasSize DEF WriteTypeOK, Limits
  <2>4. /\ short["user"] \in Nat /\ short["item"] \in Nat /\ MaxUsers \in Nat /\ MaxItems \in Nat
        /\ UserLimit \in Nat /\ ItemLimit \in Nat
    BY <2>1 DEF WriteTypeOK, Limits, UserLimit, ItemLimit
  <2> DEFINE others == (Cardinality(Handlers) - 1) * MaxBatch
  <2>5. Cardinality(users) <= UserLimit + others /\ Cardinality(items) <= ItemLimit + others
    BY <2>2, <2>3, <2>4, SlackMeansLimit DEF QuotaInv
  <2>6. others \in Int
    BY FS_CardinalityType DEF Limits
  <2> HIDE DEF others
  <2>7. /\ Cardinality(users) <= MaxUsers + ((IF exact THEN 0 ELSE short["user"]) + others)
        /\ Cardinality(items) <= MaxItems + ((IF exact THEN 0 ELSE short["item"]) + others)
    BY <2>1, <2>3, <2>4, <2>5, <2>6 DEF UserLimit, ItemLimit
  <2>8. QED
    BY <2>7 DEF others
<1>4. QED
  BY <1>1, <1>2, <1>3, PTL DEF WriteSpec
-----------------------------------------------------------------------------
(* What getRecommend serves: Recommend.                                    *)

LEMMA LeastOf == ASSUME NEW S \in SUBSET Nat, S # {} PROVE \E x \in S : \A y \in S : x <= y
<1>1. PICK x \in S : \A y \in S : ~(<<y, x>> \in OpToRel(<, Nat))
  BY NatLessThanWellFounded, WFMin, Zenon
<1>2. \A y \in S : ~(y < x)
  BY <1>1, Zenon DEF OpToRel
<1>3. QED
  BY <1>2

\* An enumeration of S, by falling weight.
Sorted(w, S, s) == s \in SetToSeqs(S) /\ \A j, k \in DOMAIN s : j < k => w[s[j]] >= w[s[k]]

\* A finite set can be sorted: the least set that cannot would have a lightest
\* element, to be put behind the others.
LEMMA SortExists ==
  ASSUME NEW S, IsFiniteSet(S), NEW w, \A x \in S : w[x] \in Nat
  PROVE  \E s : Sorted(w, S, s)
<1> DEFINE Bad == {n \in Nat : \E T \in SUBSET S : IsFiniteSet(T) /\ Cardinality(T) = n /\ ~\E s : Sorted(w, T, s)}
<1>1. SUFFICES ASSUME Bad # {} PROVE FALSE
  <2>1. Cardinality(S) \in Nat
    BY FS_CardinalityType
  <2>2. QED
    BY <2>1
<1>2. PICK n \in Bad : \A m \in Bad : n <= m
  BY <1>1, LeastOf
<1>3. PICK T \in SUBSET S : IsFiniteSet(T) /\ Cardinality(T) = n /\ ~\E s : Sorted(w, T, s)
  BY <1>2
<1>4. n \in Nat
  BY <1>2
<1>5. T # {}
  <2>1. ASSUME T = {} PROVE FALSE
    <3>1. n = 0
      BY <1>3, <2>1, FS_EmptySet
    <3>2. PICK s : s = [k \in 1 .. 0 |-> 0]
      OBVIOUS
    <3>3. s \in [1 .. 0 -> T]
      BY <3>2
    <3>4. Sorted(w, T, s)
      BY <1>3, <3>1, <3>3 DEF Sorted, SetToSeqs
    <3>5. QED
      BY <1>3, <3>4
  <2>2. QED
    BY <2>1
<1>6. PICK t \in T : \A x \in T : w[t] <= w[x]
  <2>1. {w[x] : x \in T} \in SUBSET Nat /\ {w[x] : x \in T} # {}
    BY <1>5
  <2>2. PICK v \in {w[x] : x \in T} : \A y \in {w[x] : x \in T} : v <= y
    BY <2>1, LeastOf
  <2>3. QED
    BY <2>2
<1>7. IsFiniteSet(T \ {t}) /\ Cardinality(T \ {t}) = n - 1 /\ n # 0
  BY <1>3, <1>5, <1>6, FS_RemoveElement, FS_EmptySet
<1>8. PICK s : Sorted(w, T \ {t}, s)
  <2>1. n - 1 \in Nat /\ n - 1 \notin Bad
    <3>1. n - 1 \in Nat /\ ~(n <= n - 1)
      BY <1>4, <1>7
    <3> HIDE DEF Bad
    <3>2. QED
      BY <1>2, <3>1
  <2>2. QED
    BY <1>7, <2>1
<1>9. PICK u : u = [k \in 1 .. n |-> IF k = n THEN t ELSE s[k]]
  OBVIOUS
<1>10. s \in [1 .. n - 1 -> T \ {t}] /\ (\A i, j \in 1 .. n - 1 : i # j => s[i] # s[j])
       /\ (\A j, k \in 1 .. n - 1 : j < k => w[s[j]] >= w[s[k]])
  BY <1>7, <1>8 DEF Sorted, SetToSeqs
<1>11. \A k \in 1 .. n : k = n \/ k \in 1 .. n - 1
  BY <1>4
<1>12. u \in [1 .. n -> T] /\ \A i, j \in 1 .. n : i # j => u[i] # u[j]
  BY <1>6, <1>9, <1>10, <1>11
<1>13. \A j, k \in 1 .. n : j < k => w[u[j]] >= w[u[k]]
  <2>1. SUFFICES ASSUME NEW j \in 1 .. n, NEW k \in 1 .. n, j < k PROVE w[u[j]] >= w[u[k]]
    OBVIOUS
  <2>2. j \in 1 .. n - 1 /\ u[j] = s[j] /\ s[j] \in T
    BY <1>4, <1>9, <1>10, <2>1
  <2>3. CASE k = n
    BY <1>3, <1>6, <1>9, <2>2, <2>3
  <2>4. CASE k \in 1 .. n - 1
    BY <1>4, <1>9, <1>10, <2>1, <2>2, <2>4
  <2>5. QED
    BY <1>11, <2>3, <2>4
<1>14. Sorted(w, T, u)
  <2>1. DOMAIN u = 1 .. n
    BY <1>9
  <2>2. QED
    BY <1>3, <1>12, <1>13, <2>1 DEF Sorted, SetToSeqs
<1>15. QED
  BY <1>3, <1>14

\* A sequence of elements of A that holds none twice.
Distinct(s, A) == s \in Seq(A) /\ \A j, k \in DOMAIN s : j # k => s[j] # s[k]

LEMMA ByWeightGives ==
  ASSUME NEW S, IsFiniteSet(S), NEW w, \A x \in S : w[x] \in Nat
  PROVE  Distinct(ByWeight(w, S), S)
<1>1. PICK s : s = ByWeight(w, S)
  OBVIOUS
<1>2. s \in SetToSeqs(S)
  BY <1>1, SortExists DEF ByWeight, Sorted
<1>3. s \in [1 .. Cardinality(S) -> S] /\ \A i, j \in 1 .. Cardinality(S) : i # j => s[i] # s[j]
  BY <1>2 DEF SetToSeqs
<1>4. Cardinality(S) \in Nat
  BY FS_CardinalityType
<1>5. s \in Seq(S) /\ DOMAIN s = 1 .. Cardinality(S)
  BY <1>3, <1>4, SeqDef
<1>6. QED
  BY <1>1, <1>3, <1>5 DEF Distinct

\* The first elements of a sequence.
LEMMA CutGives ==
  ASSUME NEW A, NEW s \in Seq(A), NEW n \in Nat
  PROVE  /\ Cut(s, n) \in Seq(A)
         /\ Len(Cut(s, n)) = IF n <= Len(s) THEN n ELSE Len(s)
         /\ \A k \in 1 .. Len(Cut(s, n)) : Cut(s, n)[k] = s[k]
         /\ Len(Cut(s, n)) <= Len(s)
<1>1. Len(s) \in Nat
  BY LenProperties
<1>2. PICK m : m = IF n <= Len(s) THEN n ELSE Len(s)
  OBVIOUS
<1>3. m \in Nat /\ m <= Len(s) /\ m \in {n, Len(s)} /\ \A x \in {n, Len(s)} : m <= x
  BY <1>1, <1>2
<1>4. Min({n, Len(s)}) = m
  <2>1. \A x \in {n, Len(s)} : (\A y \in {n, Len(s)} : x <= y) => x = m
    BY <1>1, <1>3
  <2>2. QED
    BY <1>3, <2>1 DEF Min
<1>5. PICK t : t = SubSeq(s, 1, m)
  OBVIOUS
<1>6. t \in Seq(A) /\ Len(t) = m /\ \A k \in 1 .. m : t[k] = s[k]
  <2>1. t = [k \in 1 .. m |-> s[k]]
    BY <1>1, <1>3, <1>5
  <2>2. \A k \in 1 .. m : k \in 1 .. Len(s)
    BY <1>1, <1>3
  <2>3. t \in [1 .. m -> A]
    BY <2>1, <2>2, ElementOfSeq
  <2>4. QED
    BY <1>3, <2>1, <2>3, SeqDef
<1>7. QED
  BY <1>2, <1>3, <1>4, <1>5, <1>6 DEF Cut

LEMMA CutDistinct ==
  ASSUME NEW A, NEW s, Distinct(s, A), NEW n \in Nat
  PROVE  Distinct(Cut(s, n), A)
<1>1. s \in Seq(A) /\ Len(s) \in Nat /\ DOMAIN s = 1 .. Len(s)
  BY LenProperties DEF Distinct
<1>2. PICK t : t = Cut(s, n)
  OBVIOUS
<1>3. t \in Seq(A) /\ Len(t) <= Len(s) /\ \A k \in 1 .. Len(t) : t[k] = s[k]
  BY <1>1, <1>2, CutGives
<1>4. Len(t) \in Nat /\ DOMAIN t = 1 .. Len(t)
  BY <1>3, LenProperties
<1>5. \A k \in 1 .. Len(t) : k \in 1 .. Len(s)
  BY <1>1, <1>3, <1>4
<1>6. QED
  BY <1>1, <1>2, <1>3, <1>4, <1>5 DEF Distinct
\* What Keep has kept after each of the first m elements.
IsKept(f, s, S, m) ==
  f = [k \in 0 .. m |-> IF k = 0 THEN <<>> ELSE IF s[k] \in S THEN Append(f[k - 1], s[k]) ELSE f[k - 1]]

LEMMA KeptExists ==
  ASSUME NEW s, NEW S, NEW m \in Nat
  PROVE  \E f : IsKept(f, s, S, m)
<1> DEFINE Bad == {k \in Nat : ~\E f : IsKept(f, s, S, k)}
<1>1. SUFFICES ASSUME Bad # {} PROVE FALSE
  OBVIOUS
<1>2. PICK k \in Bad : \A j \in Bad : k <= j
  BY <1>1, LeastOf
<1>3. k # 0
  <2>1. IsKept([n \in 0 .. 0 |-> <<>>], s, S, 0)
    BY DEF IsKept
  <2>2. QED
    BY <1>2, <2>1
<1>4. PICK f : IsKept(f, s, S, k - 1)
  BY <1>2, <1>3
<1>5. PICK v : v = IF s[k] \in S THEN Append(f[k - 1], s[k]) ELSE f[k - 1]
  OBVIOUS
<1>6. PICK g : g = [n \in 0 .. k |-> IF n = k THEN v ELSE f[n]]
  OBVIOUS
<1>7. IsKept(g, s, S, k)
  <2>1. ASSUME NEW n \in 0 .. k, n # k, n # 0
        PROVE  g[n] = IF s[n] \in S THEN Append(g[n - 1], s[n]) ELSE g[n - 1]
    <3>1. n \in 0 .. k - 1 /\ n - 1 \in 0 .. k - 1 /\ g[n] = f[n] /\ g[n - 1] = f[n - 1]
      BY <1>2, <1>6, <2>1
    <3>2. f[n] = IF s[n] \in S THEN Append(f[n - 1], s[n]) ELSE f[n - 1]
      BY <1>4, <2>1, <3>1 DEF IsKept
    <3>3. QED
      BY <3>1, <3>2
  <2>2. g[k] = IF s[k] \in S THEN Append(g[k - 1], s[k]) ELSE g[k - 1]
    BY <1>2, <1>3, <1>5, <1>6
  <2>3. g[0] = <<>>
    BY <1>2, <1>3, <1>4, <1>6 DEF IsKept
  <2>4. g = [n \in 0 .. k |-> g[n]]
    BY <1>6
  <2>5. \A n \in 0 .. k : g[n] = IF n = 0 THEN <<>> ELSE IF s[n] \in S THEN Append(g[n - 1], s[n]) ELSE g[n - 1]
    BY <1>3, <2>1, <2>2, <2>3
  <2>6. QED
    BY <2>4, <2>5 DEF IsKept
<1>8. QED
  BY <1>2, <1>7

\* What is kept of the first elements of a sequence is in S and of them, none of
\* it twice if the sequence holds none twice.
LEMMA KeptIs ==
  ASSUME NEW A, NEW s \in Seq(A), NEW S, NEW f, IsKept(f, s, S, Len(s))
  PROVE  \A n \in 0 .. Len(s) :
           /\ f[n] \in Seq(A)
           /\ \A k \in 1 .. Len(f[n]) : f[n][k] \in S \cap {s[j] : j \in 1 .. n}
           /\ Distinct(s, A) => Distinct(f[n], A)
<1> DEFINE P(i) == /\ f[i] \in Seq(A)
                   /\ \A k \in 1 .. Len(f[i]) : f[i][k] \in S \cap {s[j] : j \in 1 .. i}
                   /\ Distinct(s, A) => Distinct(f[i], A)
           Bad == {i \in 0 .. Len(s) : ~P(i)}
<1>1. Len(s) \in Nat /\ DOMAIN s = 1 .. Len(s)
  BY LenProperties
<1>2. SUFFICES ASSUME Bad # {} PROVE FALSE
  BY <1>1
<1>3. PICK i \in Bad : \A j \in Bad : i <= j
  <2>1. Bad \subseteq Nat
    BY <1>1
  <2>2. QED
    BY <1>2, <2>1, LeastOf
<1>4. i \in 0 .. Len(s) /\ i \in Nat /\ ~P(i)
  BY <1>1, <1>3
<1>5. CASE i = 0
  <2>1. f[0] = <<>>
    BY <1>1 DEF IsKept
  <2>2. P(0)
    BY <2>1 DEF Distinct
  <2>3. QED
    BY <1>4, <1>5, <2>2
<1>6. CASE i # 0
  <2>1. i - 1 \in 0 .. Len(s) /\ i \in 1 .. Len(s) /\ s[i] \in A
    BY <1>1, <1>4, <1>6
  <2>2. P(i - 1)
    <3>1. i - 1 \notin Bad
      <4> HIDE DEF Bad
      <4>1. QED
        BY <1>3, <1>4
    <3> HIDE DEF P
    <3>2. QED
      BY <2>1, <3>1
  <2>3. f[i] = IF s[i] \in S THEN Append(f[i - 1], s[i]) ELSE f[i - 1]
    BY <1>4, <1>6 DEF IsKept
  <2>4. PICK p, q : p = f[i - 1] /\ q = f[i]
    OBVIOUS
  <2>5. p \in Seq(A) /\ Len(p) \in Nat /\ DOMAIN p = 1 .. Len(p)
    BY <2>2, <2>4, LenProperties
  <2>6. \A j \in 1 .. i - 1 : j \in 1 .. i /\ j \in 1 .. Len(s) /\ j # i
    BY <1>1, <1>4
  <2>7. CASE s[i] \in S
    <3>1. q = Append(p, s[i])
      BY <2>3, <2>4, <2>7
    <3>2. /\ q \in Seq(A) /\ Len(q) = Len(p) + 1
          /\ \A k \in 1 .. Len(p) : q[k] = p[k]
          /\ q[Len(p) + 1] = s[i]
      BY <2>1, <2>5, <3>1, AppendProperties
    <3>3. \A k \in 1 .. Len(q) : k \in 1 .. Len(p) \/ k = Len(p) + 1
      BY <2>5, <3>2
    <3>4. \A k \in 1 .. Len(q) : q[k] \in S \cap {s[j] : j \in 1 .. i}
      <4>1. \A k \in 1 .. Len(p) : q[k] \in S \cap {s[j] : j \in 1 .. i}
        BY <2>2, <2>4, <2>6, <3>2
      <4>2. q[Len(p) + 1] \in S \cap {s[j] : j \in 1 .. i}
        BY <1>4, <1>6, <2>7, <3>2
      <4>3. QED
        BY <3>3, <4>1, <4>2
    <3>5. ASSUME Distinct(s, A) PROVE Distinct(q, A)
      <4>1. \A k \in 1 .. Len(p) : q[k] # s[i]
        <5>1. \A j \in 1 .. i - 1 : s[j] # s[i]
          BY <1>1, <2>1, <2>6, <3>5 DEF Distinct
        <5>2. QED
          BY <2>2, <2>4, <3>2, <5>1
      <4>2. \A j, k \in 1 .. Len(p) : j # k => q[j] # q[k]
        <5>1. Distinct(p, A)
          BY <2>2, <2>4, <3>5
        <5>2. QED
          BY <2>5, <3>2, <5>1 DEF Distinct
      <4>3. DOMAIN q = 1 .. Len(q)
        BY <3>2, LenProperties
      <4>4. QED
        BY <3>2, <3>3, <4>1, <4>2, <4>3 DEF Distinct
    <3> HIDE DEF Bad
    <3>6. QED
      BY <1>4, <2>4, <3>2, <3>4, <3>5
  <2>8. CASE s[i] \notin S
    <3>1. q = p
      BY <2>3, <2>4, <2>8
    <3> HIDE DEF Bad
    <3>2. QED
      BY <1>4, <2>2, <2>4, <2>6, <3>1
  <2>9. QED
    BY <2>7, <2>8
<1>7. QED
  BY <1>5, <1>6

\* Keep is what it has kept at the end.
LEMMA KeepIs ==
  ASSUME NEW s, Len(s) \in Nat, NEW S
  PROVE  \E f : IsKept(f, s, S, Len(s)) /\ Keep(s, S) = f[Len(s)]
<1>1. PICK m \in Nat : m = Len(s)
  OBVIOUS
<1>2. PICK g : IsKept(g, s, S, m)
  BY KeptExists
<1>3. QED
  BY <1>1, <1>2 DEF Keep, IsKept

LEMMA KeepGives ==
  ASSUME NEW A, NEW s \in Seq(A), NEW S
  PROVE  /\ Keep(s, S) \in Seq(A)
         /\ \A k \in DOMAIN Keep(s, S) : Keep(s, S)[k] \in S
         /\ Distinct(s, A) => Distinct(Keep(s, S), A)
<1>1. PICK m \in Nat : m = Len(s)
  BY LenProperties
<1>2. PICK g : IsKept(g, s, S, Len(s)) /\ Keep(s, S) = g[Len(s)]
  BY <1>1, KeepIs
<1>3. Keep(s, S) = g[m]
  BY <1>1, <1>2
<1>4. PICK q : q = Keep(s, S)
  OBVIOUS
<1>5. m \in 0 .. Len(s)
  BY <1>1
<1>6. q \in Seq(A) /\ (\A k \in 1 .. Len(q) : q[k] \in S) /\ (Distinct(s, A) => Distinct(q, A))
  BY <1>1, <1>2, <1>3, <1>4, <1>5, KeptIs
<1>7. DOMAIN q = 1 .. Len(q)
  BY <1>6, LenProperties
<1>8. QED
  BY <1>4, <1>6, <1>7

-----------------------------------------------------------------------------
(* Every recommender delivers items that are not excluded, none twice.     *)

\* The feedback a Recommender has read, and the Recommender.
IsHistory(F) == IsFiniteSet(F) /\ \A f \in F : f.item \in Catalogue /\ f.time \in Nat
IsRecommender(r) == IsHistory(r.feedback)

\* What a recommender may deliver.
Deliverable(s, r) == s \in Seq(Catalogue) /\ \A k \in DOMAIN s : s[k] \notin r.exclude

LEMMA SumIsNumber ==
  ASSUME NEW D, IsFiniteSet(D), NEW w \in [D -> Nat]
  PROVE  SumOf(w) \in Nat
<1> DEFINE U == {{k} \X (1 .. w[k]) : k \in D}
<1>1. IsFiniteSet(U)
  <2>1. PICK f : f = [k \in D |-> {k} \X (1 .. w[k])]
    OBVIOUS
  <2>2. f \in Surjection(D, U)
    BY <2>1 DEF Surjection
  <2>3. QED
    BY <2>2, FS_Surjection
<1>2. \A T \in U : IsFiniteSet(T)
  <2>1. SUFFICES ASSUME NEW k \in D PROVE IsFiniteSet({k} \X (1 .. w[k]))
    OBVIOUS
  <2>2. IsFiniteSet({k}) /\ IsFiniteSet(1 .. w[k])
    <3>1. 1 \in Int /\ w[k] \in Int
      OBVIOUS
    <3>2. QED
      BY <3>1, FS_Singleton, FS_Interval
  <2>3. QED
    BY <2>2, FS_Product
<1>3. IsFiniteSet(UNION U)
  BY <1>1, <1>2, FS_UNION
<1>4. QED
  BY <1>3, FS_CardinalityType DEF SumOf

LEMMA HighestGives ==
  ASSUME NEW D, IsFiniteSet(D), D \subseteq Catalogue, NEW w \in [D -> Nat]
  PROVE  Distinct(Highest(w), Catalogue) /\ \A k \in DOMAIN Highest(w) : Highest(w)[k] \in D
<1> DEFINE S == {i \in D : w[i] > 0}
<1>1. IsFiniteSet(S)
  BY FS_Subset
<1>2. PICK s : s = ByWeight(w, S)
  OBVIOUS
<1>3. Distinct(s, S)
  BY <1>1, <1>2, ByWeightGives
<1>4. PICK t : t = Cut(s, CacheSize)
  OBVIOUS
<1>5. Distinct(t, S)
  BY <1>3, <1>4, CutDistinct, RecAssumption
<1>6. t = Highest(w)
  BY <1>2, <1>4 DEF Highest
<1>7. t \in Seq(Catalogue) /\ \A k \in DOMAIN t : t[k] \in S
  <2>1. t \in Seq(S) /\ DOMAIN t = 1 .. Len(t)
    BY <1>5, LenProperties DEF Distinct
  <2>2. S \subseteq Catalogue
    OBVIOUS
  <2> HIDE DEF S
  <2>3. QED
    BY <2>1, <2>2, ElementOfSeq, SeqMonotonic
<1>8. QED
  BY <1>5, <1>6, <1>7 DEF Distinct
LEMMA UnexcludedGives ==
  ASSUME NEW r, NEW s \in Seq(Catalogue)
  PROVE  /\ Deliverable(Unexcluded(r, s), r)
         /\ Distinct(s, Catalogue) => Distinct(Unexcluded(r, s), Catalogue)
BY KeepGives DEF Unexcluded, Deliverable

\* A cached list.
LEMMA SearchGives ==
  ASSUME lists \in Lists, NEW r, NEW name \in {"offline", "nonPersonalized", "collaborative"}
  PROVE  Distinct(SearchScores(r, name), Catalogue)
<1>1. PICK l : l = lists[name]
  OBVIOUS
<1>2. l \in Seq(Catalogue) /\ IsInjective(l)
  BY <1>1, RecAssumption
<1>3. Distinct(l, Catalogue)
  BY <1>2 DEF Distinct, IsInjective
<1>4. PICK q : q = Keep(l, {i \in Catalogue : Asked(r, i)})
  OBVIOUS
<1>5. Distinct(q, Catalogue)
  BY <1>2, <1>3, <1>4, KeepGives
<1>6. Distinct(Cut(q, CacheSize), Catalogue)
  BY <1>5, CutDistinct, RecAssumption
<1>7. QED
  BY <1>1, <1>4, <1>6 DEF SearchScores

LEMMA LatestGives ==
  ASSUME NEW r
  PROVE  Deliverable(recommendLatest(r), r) /\ Distinct(recommendLatest(r), Catalogue)
<1> DEFINE S == {i \in Catalogue : state[i] = "shown" /\ Asked(r, i)}
           w == [i \in Catalogue |-> i]
<1>1. IsFiniteSet(S) /\ \A x \in S : w[x] \in Nat
  BY RecAssumption, FS_Subset
<1>2. PICK s : s = ByWeight(w, S)
  OBVIOUS
<1>3. Distinct(s, S)
  <2> HIDE DEF w, S
  <2>1. QED
    BY <1>1, <1>2, ByWeightGives
<1>4. Distinct(s, Catalogue)
  <2>1. S \subseteq Catalogue
    OBVIOUS
  <2> HIDE DEF S
  <2>2. QED
    BY <1>3, <2>1, SeqMonotonic DEF Distinct
<1>5. PICK t : t = Cut(s, CacheSize)
  OBVIOUS
<1>6. Distinct(t, Catalogue)
  BY <1>4, <1>5, CutDistinct, RecAssumption
<1>7. t \in Seq(Catalogue)
  BY <1>6 DEF Distinct
<1>8. recommendLatest(r) = Unexcluded(r, t)
  BY <1>2, <1>5 DEF recommendLatest
<1>9. QED
  BY <1>6, <1>7, <1>8, UnexcludedGives

\* The context is of feedback on items.
LEMMA ContextGives ==
  ASSUME NEW r, IsRecommender(r)
  PROVE  IsFiniteSet(DOMAIN Context(r)) /\ \A k \in DOMAIN Context(r) : Context(r)[k].item \in Catalogue
<1> DEFINE P == {f \in r.feedback : f.kind = "pos"}
           w == [f \in P |-> f.time]
<1>1. IsFiniteSet(P) /\ (\A x \in P : w[x] \in Nat) /\ \A x \in P : x.item \in Catalogue
  BY FS_Subset DEF IsRecommender, IsHistory
<1>2. PICK s : s = ByWeight(w, P)
  OBVIOUS
<1>3. s \in Seq(P)
  <2> HIDE DEF w, P
  <2>1. QED
    BY <1>1, <1>2, ByWeightGives DEF Distinct
<1>4. PICK t : t = Cut(s, ContextSize)
  OBVIOUS
<1>5. t \in Seq(P)
  <2> HIDE DEF P
  <2>1. QED
    BY <1>3, <1>4, CutGives, RecAssumption
<1>6. t = Context(r)
  BY <1>2, <1>4 DEF Context
<1>7. DOMAIN t = 1 .. Len(t) /\ Len(t) \in Nat
  BY <1>5, LenProperties
<1>8. IsFiniteSet(DOMAIN t)
  <2>1. 1 \in Int /\ Len(t) \in Int
    BY <1>7
  <2>2. QED
    BY <1>7, <2>1, FS_Interval
<1>9. \A k \in DOMAIN t : t[k] \in P
  <2> HIDE DEF P
  <2>1. QED
    BY <1>5, <1>7, ElementOfSeq
<1>10. QED
  <2>1. \A k \in DOMAIN t : t[k].item \in Catalogue
    <3> HIDE DEF P
    <3>1. QED
      BY <1>1, <1>9
  <2>2. QED
    BY <1>6, <1>8, <2>1

LEMMA ItemToItemGives ==
  ASSUME NEW r, IsRecommender(r)
  PROVE  Deliverable(recommendItemToItem(r), r) /\ Distinct(recommendItemToItem(r), Catalogue)
<1>1. PICK c : c = Context(r)
  OBVIOUS
<1>2. IsFiniteSet(DOMAIN c) /\ \A k \in DOMAIN c : c[k].item \in Catalogue
  BY <1>1, ContextGives
<1> DEFINE D == Catalogue \ r.exclude
           K(j) == {l \in DOMAIN c : j \in Range(QueryItemToItem(r, c[l].item))}
           v(j) == [k \in K(j) |-> Sim[c[k].item][j]]
           w == [j \in D |-> SumOf(v(j))]
<1>3. \A j \in D : SumOf(v(j)) \in Nat
  <2>1. SUFFICES ASSUME NEW j \in D PROVE SumOf(v(j)) \in Nat
    OBVIOUS
  <2>2. IsFiniteSet(K(j))
    BY <1>2, FS_Subset
  <2>3. v(j) \in [K(j) -> Nat]
    BY <1>2, RecAssumption
  <2> HIDE DEF v, K
  <2>4. QED
    BY <2>2, <2>3, SumIsNumber
<1>4. w \in [D -> Nat] /\ IsFiniteSet(D) /\ D \subseteq Catalogue
  <2>1. IsFiniteSet(D)
    BY FS_Subset, RecAssumption
  <2>2. w \in [D -> Nat]
    <3> HIDE DEF v
    <3>1. QED
      BY <1>3
  <2>3. QED
    BY <2>1, <2>2
<1>5. PICK t : t = Highest(w)
  OBVIOUS
<1>6. Distinct(t, Catalogue) /\ \A k \in DOMAIN t : t[k] \in D
  <2> HIDE DEF w, D
  <2>1. QED
    BY <1>4, <1>5, HighestGives
<1>7. t = recommendItemToItem(r)
  BY <1>1, <1>5 DEF recommendItemToItem
<1>8. QED
  BY <1>6, <1>7 DEF Deliverable, Distinct

LEMMA UserToUserGives ==
  ASSUME NEW r
  PROVE  Deliverable(recommendUserToUser(r), r) /\ Distinct(recommendUserToUser(r), Catalogue)
<1> DEFINE D == Catalogue \ r.exclude
           K(j) == {q \in Peers : j \in q.likes}
           v(j) == [p \in K(j) |-> p.score]
           w == [j \in D |-> SumOf(v(j))]
           V == {j \in Catalogue : state[j] = "shown" /\ Asked(r, j)}
<1>1. \A j \in D : SumOf(v(j)) \in Nat
  <2>1. SUFFICES ASSUME NEW j \in D PROVE SumOf(v(j)) \in Nat
    OBVIOUS
  <2>2. IsFiniteSet(K(j))
    BY RecAssumption, FS_Subset
  <2>3. v(j) \in [K(j) -> Nat]
    BY RecAssumption
  <2> HIDE DEF v, K
  <2>4. QED
    BY <2>2, <2>3, SumIsNumber
<1>2. w \in [D -> Nat] /\ IsFiniteSet(D) /\ D \subseteq Catalogue
  <2>1. IsFiniteSet(D)
    BY FS_Subset, RecAssumption
  <2>2. w \in [D -> Nat]
    <3> HIDE DEF v
    <3>1. QED
      BY <1>1
  <2>3. QED
    BY <2>1, <2>2
<1>3. PICK t : t = Highest(w)
  OBVIOUS
<1>4. Distinct(t, Catalogue) /\ \A k \in DOMAIN t : t[k] \in D
  <2> HIDE DEF w, D
  <2>1. QED
    BY <1>2, <1>3, HighestGives
<1>5. t \in Seq(D) /\ Distinct(t, D)
  <2>1. DOMAIN t = 1 .. Len(t) /\ Len(t) \in Nat /\ t \in Seq(Catalogue)
    BY <1>4, LenProperties DEF Distinct
  <2>2. t = [k \in 1 .. Len(t) |-> t[k]]
    BY <2>1, SeqDef
  <2>3. t \in Seq(D)
    <3> HIDE DEF D
    <3>1. t \in [1 .. Len(t) -> D]
      BY <1>4, <2>1, <2>2
    <3>2. QED
      BY <2>1, <3>1, SeqDef
  <2>4. QED
    BY <1>4, <2>3 DEF Distinct
<1>6. PICK q : q = Keep(t, V)
  OBVIOUS
<1>7. Distinct(q, D)
  <2> HIDE DEF V, D
  <2>1. QED
    BY <1>5, <1>6, KeepGives
<1>8. q = recommendUserToUser(r)
  BY <1>3, <1>6 DEF recommendUserToUser
<1>9. q \in Seq(Catalogue) /\ \A k \in DOMAIN q : q[k] \in D
  <2>1. q \in Seq(D) /\ DOMAIN q = 1 .. Len(q)
    BY <1>7, LenProperties DEF Distinct
  <2> HIDE DEF D
  <2>2. QED
    BY <1>2, <2>1, ElementOfSeq, SeqMonotonic
<1>10. QED
  BY <1>7, <1>8, <1>9 DEF Deliverable, Distinct

\* Of all recommenders only a script repeats itself.
LEMMA Delivers ==
  ASSUME lists \in Lists, NEW r, IsRecommender(r), NEW name \in Recommenders
  PROVE  /\ Deliverable(parse(r, name), r)
         /\ name # "external" => Distinct(parse(r, name), Catalogue)
<1>1. CASE name = "latest"
  <2>1. parse(r, name) = recommendLatest(r)
    BY <1>1 DEF parse
  <2>2. QED
    BY <2>1, LatestGives
<1>2. CASE name = "nonPersonalized"
  <2>1. parse(r, name) = Unexcluded(r, SearchScores(r, "nonPersonalized"))
    BY <1>2 DEF parse, recommendNonPersonalized
  <2>2. Distinct(SearchScores(r, "nonPersonalized"), Catalogue)
    BY SearchGives
  <2>3. QED
    BY <2>1, <2>2, UnexcludedGives DEF Distinct
<1>3. CASE name = "collaborative"
  <2>1. parse(r, name) = Unexcluded(r, SearchScores(r, "collaborative"))
    BY <1>3 DEF parse, recommendCollaborative
  <2>2. Distinct(SearchScores(r, "collaborative"), Catalogue)
    BY SearchGives
  <2>3. QED
    BY <2>1, <2>2, UnexcludedGives DEF Distinct
<1>4. CASE name = "itemToItem"
  <2>1. parse(r, name) = recommendItemToItem(r)
    BY <1>4 DEF parse
  <2>2. QED
    BY <2>1, ItemToItemGives
<1>5. CASE name = "userToUser"
  <2>1. parse(r, name) = recommendUserToUser(r)
    BY <1>5 DEF parse
  <2>2. QED
    BY <2>1, UserToUserGives
<1>6. CASE name = "external"
  <2>1. parse(r, name) = IF r.category THEN <<>> ELSE Unexcluded(r, lists["external"])
    BY <1>6 DEF parse, recommendExternal
  <2>2. lists["external"] \in Seq(Catalogue)
    BY RecAssumption
  <2>3. Deliverable(<<>>, r)
    BY DEF Deliverable
  <2>4. QED
    BY <1>6, <2>1, <2>2, <2>3, UnexcludedGives
<1>7. QED
  BY <1>1, <1>2, <1>3, <1>4, <1>5, <1>6 DEF Recommenders
-----------------------------------------------------------------------------
(* How a request gathers its result.                                       *)

Tags == Recommenders \cup {"offline"}
Entry == [item : Catalogue, from : Tags]
Reads == {F \in SUBSET Feedback : IsFiniteSet(F)}
Recs == [feedback : Reads, exclude : SUBSET Catalogue, category : BOOLEAN]

\* An item is in a result once unless a script delivered it; what is in the result
\* is excluded from now on and was not excluded at first.
Once(q, r) ==
  /\ \A j, k \in DOMAIN q : j # k /\ q[j].item = q[k].item => q[j].from = "external" /\ q[k].from = "external"
  /\ \A k \in DOMAIN q : q[k].item \in r.exclude /\ q[k].item \notin Excluded(r.feedback)
  /\ Excluded(r.feedback) \subseteq r.exclude

\* What a request has gathered so far, while there is more to ask.
Stages ==
  {x \in [at : {"cached", "ranker", "fallback"}, r : Recs, todo : Seq(Recommenders), result : Seq(Entry)] :
     /\ x.at = "cached" => x.result = <<>>
     /\ x.at = "ranker" /\ x.todo # <<>> => Len(x.result) < CacheSize
     /\ Once(x.result, x.r)}

LEMMA RecIsRecommender == ASSUME NEW r \in Recs PROVE IsRecommender(r)
BY DEF Recs, Reads, Feedback, IsRecommender, IsHistory

LEMMA PrefixIs ==
  ASSUME NEW A, NEW s \in Seq(A), NEW t \in Seq(A)
  PROVE  IsPrefix(s, t) <=> Len(s) <= Len(t) /\ \A k \in 1 .. Len(s) : s[k] = t[k]
<1>1. Len(s) \in Nat /\ Len(t) \in Nat
  BY LenProperties
<1>2. ASSUME Len(s) <= Len(t)
      PROVE  SubSeq(s, 1, Len(s)) = SubSeq(t, 1, Len(s)) <=> \A k \in 1 .. Len(s) : s[k] = t[k]
  <2>1. SubSeq(s, 1, Len(s)) = [k \in 1 .. Len(s) |-> s[k]] /\ SubSeq(t, 1, Len(s)) = [k \in 1 .. Len(s) |-> t[k]]
    BY <1>1, <1>2
  <2>2. QED
    BY <2>1
<1>3. QED
  BY <1>2 DEF IsPrefix

LEMMA PrefixTrans ==
  ASSUME NEW A, NEW s \in Seq(A), NEW t \in Seq(A), NEW u \in Seq(A), IsPrefix(s, t), IsPrefix(t, u)
  PROVE  IsPrefix(s, u)
<1>1. Len(s) \in Nat /\ Len(t) \in Nat /\ Len(u) \in Nat
  BY LenProperties
<1>2. Len(s) <= Len(t) /\ Len(t) <= Len(u) /\ (\A k \in 1 .. Len(s) : s[k] = t[k]) /\ \A k \in 1 .. Len(t) : t[k] = u[k]
  BY PrefixIs
<1>3. \A k \in 1 .. Len(s) : k \in 1 .. Len(t)
  BY <1>1, <1>2
<1>4. Len(s) <= Len(u) /\ \A k \in 1 .. Len(s) : s[k] = u[k]
  BY <1>1, <1>2, <1>3
<1>5. QED
  BY <1>4, PrefixIs

\* Two prefixes of one sequence.
LEMMA PrefixesAgree ==
  ASSUME NEW A, NEW s \in Seq(A), NEW t \in Seq(A), NEW u \in Seq(A), IsPrefix(s, u), IsPrefix(t, u)
  PROVE  IsPrefix(s, t) \/ IsPrefix(t, s)
<1>1. Len(s) \in Nat /\ Len(t) \in Nat /\ Len(u) \in Nat
  BY LenProperties
<1>2. (\A k \in 1 .. Len(s) : s[k] = u[k]) /\ \A k \in 1 .. Len(t) : t[k] = u[k]
  BY PrefixIs
<1>3. CASE Len(s) <= Len(t)
  <2>1. \A k \in 1 .. Len(s) : s[k] = t[k]
    BY <1>1, <1>2, <1>3
  <2>2. QED
    BY <1>3, <2>1, PrefixIs
<1>4. CASE Len(t) <= Len(s)
  <2>1. \A k \in 1 .. Len(t) : t[k] = s[k]
    BY <1>1, <1>2, <1>4
  <2>2. QED
    BY <1>4, <2>1, PrefixIs
<1>5. QED
  BY <1>1, <1>3, <1>4

\* A prefix of a result is as good.
LEMMA CutOnce ==
  ASSUME NEW q \in Seq(Entry), NEW n \in Nat, NEW r, Once(q, r)
  PROVE  Cut(q, n) \in Seq(Entry) /\ Once(Cut(q, n), r) /\ IsPrefix(Cut(q, n), q)
<1>1. PICK t : t = Cut(q, n)
  OBVIOUS
<1>2. t \in Seq(Entry) /\ Len(t) <= Len(q) /\ \A k \in 1 .. Len(t) : t[k] = q[k]
  BY <1>1, CutGives
<1>3. Len(t) \in Nat /\ Len(q) \in Nat /\ DOMAIN t = 1 .. Len(t) /\ DOMAIN q = 1 .. Len(q)
  BY <1>2, LenProperties
<1>4. \A k \in DOMAIN t : k \in DOMAIN q /\ t[k] = q[k]
  BY <1>2, <1>3
<1>5. Once(t, r)
  BY <1>4 DEF Once
<1>6. IsPrefix(t, q)
  BY <1>2, PrefixIs
<1>7. QED
  BY <1>1, <1>2, <1>5, <1>6

\* What one more recommender adds.
With(q, s, name) == q \o Tagged(s, name)
More(r, s) == [r EXCEPT !.exclude = @ \cup Range(s)]

LEMMA WithMore ==
  ASSUME NEW q \in Seq(Entry), NEW r \in Recs, Once(q, r), NEW name \in Tags, NEW s, Deliverable(s, r),
         name # "external" => Distinct(s, Catalogue)
  PROVE  /\ With(q, s, name) \in Seq(Entry) /\ More(r, s) \in Recs
         /\ Once(With(q, s, name), More(r, s))
         /\ IsPrefix(q, With(q, s, name))
<1>1. PICK g : g = Tagged(s, name)
  OBVIOUS
<1>2. s \in Seq(Catalogue) /\ Len(s) \in Nat /\ DOMAIN s = 1 .. Len(s) /\ (\A k \in DOMAIN s : s[k] \in Catalogue)
  BY LenProperties, ElementOfSeq DEF Deliverable
<1>3. g \in Seq(Entry) /\ Len(g) = Len(s) /\ \A k \in 1 .. Len(s) : g[k].item = s[k] /\ g[k].from = name
  <2>1. g = [k \in 1 .. Len(s) |-> [item |-> s[k], from |-> name]]
    BY <1>1, <1>2 DEF Tagged
  <2>2. g \in [1 .. Len(s) -> Entry]
    BY <1>2, <2>1 DEF Entry
  <2>3. g \in Seq(Entry)
    BY <1>2, <2>2, SeqDef
  <2>4. Len(g) = Len(s)
    BY <1>2, <2>1
  <2>5. QED
    BY <2>1, <2>3, <2>4
<1>4. PICK a : a = With(q, s, name)
  OBVIOUS
<1>5. Len(q) \in Nat /\ DOMAIN q = 1 .. Len(q)
  BY LenProperties
<1>6. /\ a \in Seq(Entry) /\ Len(a) = Len(q) + Len(s)
      /\ \A k \in 1 .. Len(q) + Len(s) : a[k] = IF k <= Len(q) THEN q[k] ELSE g[k - Len(q)]
  <2>1. a = q \o g
    BY <1>1, <1>4 DEF With
  <2>2. /\ q \o g \in Seq(Entry) /\ Len(q \o g) = Len(q) + Len(g)
        /\ \A k \in 1 .. Len(q) + Len(g) : (q \o g)[k] = IF k <= Len(q) THEN q[k] ELSE g[k - Len(q)]
    <3>1. PICK A : A = Entry
      OBVIOUS
    <3>2. q \in Seq(A) /\ g \in Seq(A)
      BY <1>3, <3>1
    <3>3. QED
      BY <3>1, <3>2, ConcatProperties
  <2>3. QED
    BY <1>3, <2>1, <2>2
<1>7. DOMAIN a = 1 .. Len(q) + Len(s)
  BY <1>6, LenProperties
<1>8. \A k \in DOMAIN a : \/ k \in DOMAIN q /\ a[k] = q[k]
                          \/ /\ k - Len(q) \in DOMAIN s /\ k - Len(q) \in 1 .. Len(s)
                             /\ a[k].item = s[k - Len(q)] /\ a[k].from = name
  <2>1. SUFFICES ASSUME NEW k \in DOMAIN a PROVE \/ k \in DOMAIN q /\ a[k] = q[k]
                          \/ /\ k - Len(q) \in DOMAIN s /\ k - Len(q) \in 1 .. Len(s)
                             /\ a[k].item = s[k - Len(q)] /\ a[k].from = name
    OBVIOUS
  <2>2. CASE k <= Len(q)
    BY <1>2, <1>5, <1>6, <1>7, <2>1, <2>2
  <2>3. CASE ~(k <= Len(q))
    <3>1. k - Len(q) \in 1 .. Len(s)
      BY <1>2, <1>5, <1>7, <2>1, <2>3
    <3>2. a[k] = g[k - Len(q)]
      BY <1>6, <1>7, <2>1, <2>3
    <3>3. QED
      BY <1>2, <1>3, <3>1, <3>2
  <2>4. QED
    BY <2>2, <2>3
<1>9. PICK m : m = More(r, s)
  OBVIOUS
<1>10. m.feedback = r.feedback /\ m.category = r.category /\ m.exclude = r.exclude \cup Range(s) /\ m \in Recs
  <2>1. Range(s) \subseteq Catalogue
    BY <1>2 DEF Range
  <2>2. QED
    BY <1>9, <2>1 DEF More, Recs
<1>11. \A k \in DOMAIN s : s[k] \in Range(s) /\ s[k] \notin r.exclude
  BY DEF Range, Deliverable
<1>12. \A k \in DOMAIN q : q[k].item \in r.exclude /\ q[k].item \notin Excluded(r.feedback)
  BY DEF Once
<1>13. Excluded(r.feedback) \subseteq r.exclude
  BY DEF Once
<1>14. \A j, k \in DOMAIN a : j # k /\ a[j].item = a[k].item => a[j].from = "external" /\ a[k].from = "external"
  <2>1. SUFFICES ASSUME NEW j \in DOMAIN a, NEW k \in DOMAIN a, j # k, a[j].item = a[k].item
                 PROVE  a[j].from = "external" /\ a[k].from = "external"
    OBVIOUS
  <2>2. CASE j \in DOMAIN q /\ a[j] = q[j] /\ k \in DOMAIN q /\ a[k] = q[k]
    BY <2>1, <2>2 DEF Once
  <2>3. CASE /\ j - Len(q) \in DOMAIN s /\ a[j].item = s[j - Len(q)] /\ a[j].from = name
             /\ k - Len(q) \in DOMAIN s /\ a[k].item = s[k - Len(q)] /\ a[k].from = name
    <3>1. j - Len(q) # k - Len(q)
      BY <1>2, <1>5, <1>7, <2>1
    <3>2. name = "external"
      BY <2>1, <2>3, <3>1 DEF Distinct
    <3>3. QED
      BY <2>3, <3>2
  <2>4. QED
    BY <1>8, <1>11, <1>12, <2>1, <2>2, <2>3
<1>15. \A k \in DOMAIN a : a[k].item \in m.exclude /\ a[k].item \notin Excluded(m.feedback)
  BY <1>8, <1>10, <1>11, <1>12, <1>13
<1>16. Once(a, m)
  BY <1>10, <1>13, <1>14, <1>15 DEF Once
<1>17. IsPrefix(q, a)
  <2>1. Len(q) <= Len(a) /\ \A k \in 1 .. Len(q) : q[k] = a[k]
    BY <1>2, <1>5, <1>6
  <2>2. QED
    BY <1>6, <2>1, PrefixIs
<1>18. QED
  BY <1>4, <1>6, <1>9, <1>10, <1>16, <1>17
LEMMA PrefixOfCut ==
  ASSUME NEW A, NEW s \in Seq(A), NEW t \in Seq(A), NEW n \in Nat, IsPrefix(s, t), Len(s) <= n
  PROVE  IsPrefix(s, Cut(t, n))
<1>1. PICK u : u = Cut(t, n)
  OBVIOUS
<1>2. u \in Seq(A) /\ (Len(u) = IF n <= Len(t) THEN n ELSE Len(t)) /\ \A k \in 1 .. Len(u) : u[k] = t[k]
  BY <1>1, CutGives
<1>3. Len(s) <= Len(t) /\ \A k \in 1 .. Len(s) : s[k] = t[k]
  BY PrefixIs
<1>4. Len(s) \in Nat /\ Len(t) \in Nat /\ Len(u) \in Nat
  BY <1>2, LenProperties
<1>5. Len(s) <= Len(u) /\ \A k \in 1 .. Len(s) : s[k] = u[k]
  BY <1>2, <1>3, <1>4
<1>6. QED
  BY <1>1, <1>2, <1>5, PrefixIs

\* The steps of a request, without the limit of the caller.
Given(x) == parse(x.r, Head(x.todo))
All(x) == With(x.result, Given(x), Head(x.todo))
Full(x, limit) == limit > 0 /\ Len(All(x)) >= limit
Asks(x, limit) ==
  [at |-> x.at, r |-> More(x.r, Given(x)), todo |-> IF Full(x, limit) THEN <<>> ELSE Tail(x.todo),
   result |-> IF Full(x, limit) THEN Cut(All(x), limit) ELSE All(x)]
Stored(r) == Unexcluded(r, SearchScores(r, "offline"))
Reading(x) == [at |-> "ranker", r |-> More(x.r, Stored(x.r)), todo |-> <<>>, result |-> Tagged(Stored(x.r), "offline")]
Falling(x) == [at |-> "fallback", r |-> x.r, todo |-> settings.fallback, result |-> x.result]

Onward(x) ==
  IF x.at = "cached" THEN Reading(x)
  ELSE IF x.todo # <<>> THEN Asks(x, IF x.at = "ranker" THEN CacheSize ELSE 0)
  ELSE IF x.at = "ranker" THEN Falling(x)
  ELSE x

LEMMA AllGives ==
  ASSUME lists \in Lists, NEW x \in Stages, x.todo # <<>>
  PROVE  /\ All(x) \in Seq(Entry) /\ More(x.r, Given(x)) \in Recs
         /\ Once(All(x), More(x.r, Given(x))) /\ IsPrefix(x.result, All(x))
         /\ Len(All(x)) \in Nat /\ Tail(x.todo) \in Seq(Recommenders)
<1>1. /\ x.r \in Recs /\ x.todo \in Seq(Recommenders) /\ x.result \in Seq(Entry) /\ Once(x.result, x.r)
      /\ IsRecommender(x.r)
  BY RecIsRecommender DEF Stages
<1>2. PICK name : name = Head(x.todo)
  OBVIOUS
<1>3. name \in Recommenders /\ name \in Tags /\ Tail(x.todo) \in Seq(Recommenders)
  BY <1>1, <1>2, HeadTailProperties DEF Tags
<1>4. PICK s : s = Given(x)
  OBVIOUS
<1>5. Deliverable(s, x.r) /\ (name # "external" => Distinct(s, Catalogue))
  BY <1>1, <1>2, <1>3, <1>4, Delivers DEF Given
<1>6. /\ With(x.result, s, name) \in Seq(Entry) /\ More(x.r, s) \in Recs
      /\ Once(With(x.result, s, name), More(x.r, s))
      /\ IsPrefix(x.result, With(x.result, s, name))
  BY <1>1, <1>3, <1>5, WithMore
<1>7. QED
  BY <1>2, <1>3, <1>4, <1>6, LenProperties DEF All

\* One more recommender, whatever the limit.
LEMMA AsksGives ==
  ASSUME lists \in Lists, NEW x \in Stages, x.todo # <<>>, NEW limit \in Nat
  PROVE  /\ Asks(x, limit).r \in Recs /\ Asks(x, limit).todo \in Seq(Recommenders)
         /\ Asks(x, limit).result \in Seq(Entry) /\ Once(Asks(x, limit).result, Asks(x, limit).r)
         /\ IsPrefix(Asks(x, limit).result, All(x))
         /\ limit > 0 /\ Asks(x, limit).todo # <<>> => Len(Asks(x, limit).result) < limit
         /\ limit = 0 \/ Len(x.result) < limit => IsPrefix(x.result, Asks(x, limit).result)
<1>1. PICK a, m : a = All(x) /\ m = More(x.r, Given(x))
  OBVIOUS
<1>2. /\ a \in Seq(Entry) /\ m \in Recs /\ Once(a, m) /\ IsPrefix(x.result, a)
      /\ Len(a) \in Nat /\ Tail(x.todo) \in Seq(Recommenders)
  BY <1>1, AllGives
<1>3. x.result \in Seq(Entry) /\ Len(x.result) \in Nat /\ <<>> \in Seq(Recommenders)
  BY LenProperties, EmptySeq DEF Stages
<1>4. Cut(a, limit) \in Seq(Entry) /\ Once(Cut(a, limit), m) /\ IsPrefix(Cut(a, limit), a)
  BY <1>2, CutOnce
<1>5. IsPrefix(a, a)
  BY <1>2, PrefixIs
<1>6. Len(x.result) < limit => IsPrefix(x.result, Cut(a, limit))
  BY <1>2, <1>3, PrefixOfCut
<1>7. Asks(x, limit) = [at |-> x.at, r |-> m, todo |-> IF limit > 0 /\ Len(a) >= limit THEN <<>> ELSE Tail(x.todo),
                        result |-> IF limit > 0 /\ Len(a) >= limit THEN Cut(a, limit) ELSE a]
  BY <1>1 DEF Asks, Full
<1>8. QED
  BY <1>1, <1>2, <1>3, <1>4, <1>5, <1>6, <1>7

LEMMA ReadingGives ==
  ASSUME lists \in Lists, NEW x \in Stages, x.at = "cached"
  PROVE  Reading(x) \in Stages /\ IsPrefix(x.result, Reading(x).result)
<1>1. x.r \in Recs /\ x.result = <<>> /\ Once(<<>>, x.r)
  BY DEF Stages
<1>2. PICK s : s = Stored(x.r)
  OBVIOUS
<1>3. Distinct(SearchScores(x.r, "offline"), Catalogue)
  BY SearchGives
<1>4. Deliverable(s, x.r) /\ Distinct(s, Catalogue)
  BY <1>2, <1>3, UnexcludedGives DEF Stored, Distinct
<1>5. <<>> \in Seq(Entry) /\ <<>> \in Seq(Recommenders)
  BY EmptySeq
<1>6. PICK q, m : q = With(<<>>, s, "offline") /\ m = More(x.r, s)
  OBVIOUS
<1>7. q \in Seq(Entry) /\ m \in Recs /\ Once(q, m) /\ IsPrefix(<<>>, q)
  <2>1. "offline" \in Tags
    BY DEF Tags
  <2>2. QED
    BY <1>1, <1>4, <1>5, <1>6, <2>1, WithMore
<1>8. Tagged(s, "offline") = q
  <2>1. PICK g : g = Tagged(s, "offline")
    OBVIOUS
  <2>2. g \in Seq(Entry)
    <3>1. s \in Seq(Catalogue) /\ Len(s) \in Nat /\ DOMAIN s = 1 .. Len(s) /\ (\A k \in DOMAIN s : s[k] \in Catalogue)
      BY <1>4, LenProperties, ElementOfSeq DEF Deliverable
    <3>2. g = [k \in 1 .. Len(s) |-> [item |-> s[k], from |-> "offline"]]
      BY <2>1, <3>1 DEF Tagged
    <3>3. g \in [1 .. Len(s) -> Entry]
      BY <3>1, <3>2 DEF Entry, Tags
    <3>4. QED
      BY <3>1, <3>3, SeqDef
  <2>3. <<>> \o g = g
    BY <2>2, ConcatEmptySeq
  <2>4. QED
    BY <1>6, <2>1, <2>3 DEF With
<1>9. Reading(x) = [at |-> "ranker", r |-> m, todo |-> <<>>, result |-> q]
  BY <1>2, <1>6, <1>8 DEF Reading
<1>10. QED
  BY <1>1, <1>5, <1>7, <1>9 DEF Stages

LEMMA OnwardGives ==
  ASSUME lists \in Lists, settings \in Options, NEW x \in Stages
  PROVE  Onward(x) \in Stages /\ IsPrefix(x.result, Onward(x).result)
<1>1. /\ x \in [at : {"cached", "ranker", "fallback"}, r : Recs, todo : Seq(Recommenders), result : Seq(Entry)]
      /\ x.at = "ranker" /\ x.todo # <<>> => Len(x.result) < CacheSize
      /\ Once(x.result, x.r)
  BY DEF Stages
<1>2. IsPrefix(x.result, x.result)
  <2>1. x.result \in Seq(Entry) /\ Len(x.result) \in Nat
    BY <1>1, LenProperties
  <2>2. QED
    BY <2>1, PrefixIs
<1>3. CASE x.at = "cached"
  <2>1. Onward(x) = Reading(x)
    BY <1>3 DEF Onward
  <2>2. QED
    BY <1>3, <2>1, ReadingGives
<1>4. CASE x.at # "cached" /\ x.todo # <<>>
  <2>1. PICK limit : limit = IF x.at = "ranker" THEN CacheSize ELSE 0
    OBVIOUS
  <2>2. Onward(x) = Asks(x, limit)
    BY <1>4, <2>1 DEF Onward
  <2>3. limit \in Nat /\ CacheSize > 0 /\ (x.at = "ranker" => limit = CacheSize) /\ (x.at # "ranker" => limit = 0)
    BY <2>1, RecAssumption
  <2>4. PICK y : y = Asks(x, limit)
    OBVIOUS
  <2>5. /\ y.r \in Recs /\ y.todo \in Seq(Recommenders)
        /\ y.result \in Seq(Entry) /\ Once(y.result, y.r)
        /\ limit > 0 /\ y.todo # <<>> => Len(y.result) < limit
        /\ limit = 0 \/ Len(x.result) < limit => IsPrefix(x.result, y.result)
    BY <1>4, <2>3, <2>4, AsksGives
  <2>6. y = [at |-> x.at, r |-> y.r, todo |-> y.todo, result |-> y.result]
    BY <2>4 DEF Asks
  <2>7. y \in Stages
    BY <1>1, <1>4, <2>3, <2>5, <2>6 DEF Stages
  <2>8. QED
    BY <1>1, <1>4, <2>2, <2>3, <2>4, <2>5, <2>7
<1>5. CASE x.at = "ranker" /\ x.todo = <<>>
  <2>1. Onward(x) = Falling(x)
    BY <1>5 DEF Onward
  <2>2. settings.fallback \in Seq(Recommenders)
    BY RecAssumption
  <2>3. QED
    BY <1>1, <1>2, <2>1, <2>2 DEF Stages, Falling
<1>6. CASE x.at = "fallback" /\ x.todo = <<>>
  BY <1>2, <1>6 DEF Onward
<1>7. QED
  BY <1>1, <1>3, <1>4, <1>5, <1>6
-----------------------------------------------------------------------------
(* All stages a request passes: the least set that holds the first and     *)
(* every next one.  Of two such stages one comes after the other.          *)

Walks(a) == {X \in SUBSET Stages : a \in X /\ \A z \in X : Onward(z) \in X}
Passed(a) == {y \in Stages : \A X \in Walks(a) : y \in X}

LEMMA PassedIsWalk ==
  ASSUME lists \in Lists, settings \in Options, NEW a \in Stages
  PROVE  Passed(a) \in Walks(a)
<1>1. a \in Passed(a)
  BY DEF Passed, Walks
<1>2. ASSUME NEW z \in Passed(a) PROVE Onward(z) \in Passed(a)
  <2>1. z \in Stages /\ \A X \in Walks(a) : z \in X
    BY <1>2 DEF Passed
  <2>2. Onward(z) \in Stages
    BY <2>1, OnwardGives
  <2>3. \A X \in Walks(a) : Onward(z) \in X
    BY <2>1 DEF Walks
  <2>4. QED
    BY <2>2, <2>3 DEF Passed
<1>3. Passed(a) \in SUBSET Stages
  BY DEF Passed
<1>4. QED
  BY <1>1, <1>2, <1>3 DEF Walks

LEMMA PassedGrows ==
  ASSUME lists \in Lists, settings \in Options, NEW a \in Stages, NEW y \in Passed(a)
  PROVE  y \in Stages /\ IsPrefix(a.result, y.result)
<1> DEFINE X == {z \in Stages : IsPrefix(a.result, z.result)}
<1>1. a.result \in Seq(Entry) /\ \A z \in Stages : z.result \in Seq(Entry)
  BY DEF Stages
<1>2. a \in X
  <2>1. Len(a.result) \in Nat
    BY <1>1, LenProperties
  <2>2. IsPrefix(a.result, a.result)
    BY <1>1, <2>1, PrefixIs
  <2>3. QED
    BY <2>2
<1>3. ASSUME NEW z \in X PROVE Onward(z) \in X
  <2>1. z \in Stages /\ IsPrefix(a.result, z.result)
    BY <1>3
  <2>2. Onward(z) \in Stages /\ IsPrefix(z.result, Onward(z).result)
    BY <2>1, OnwardGives
  <2>3. IsPrefix(a.result, Onward(z).result)
    BY <1>1, <2>1, <2>2, PrefixTrans
  <2>4. QED
    BY <2>2, <2>3
<1>4. X \in Walks(a)
  BY <1>2, <1>3 DEF Walks
<1>5. y \in X
  BY <1>4 DEF Passed
<1>6. QED
  BY <1>5

LEMMA PassedAfter ==
  ASSUME lists \in Lists, settings \in Options, NEW a \in Stages, NEW y \in Passed(a)
  PROVE  y = a \/ y \in Passed(Onward(a))
<1>1. Onward(a) \in Stages
  BY OnwardGives
<1>2. PICK b : b = Onward(a)
  OBVIOUS
<1> DEFINE X == {a} \cup Passed(b)
<1>3. Passed(b) \in Walks(b)
  BY <1>1, <1>2, PassedIsWalk
<1>4. Passed(b) \in SUBSET Stages /\ b \in Passed(b) /\ \A z \in Passed(b) : Onward(z) \in Passed(b)
  BY <1>3 DEF Walks
<1>5. X \in Walks(a)
  BY <1>2, <1>4 DEF Walks
<1>6. y \in X
  BY <1>5 DEF Passed
<1>7. QED
  BY <1>2, <1>6

LEMMA PassedInLine ==
  ASSUME lists \in Lists, settings \in Options, NEW a \in Stages, NEW x \in Passed(a), NEW y \in Passed(a)
  PROVE  y \in Passed(x) \/ x \in Passed(y)
<1> DEFINE X == {u \in Stages : \A v \in Passed(a) : v \in Passed(u) \/ u \in Passed(v)}
<1>1. a \in X
  OBVIOUS
<1>2. ASSUME NEW u \in X PROVE Onward(u) \in X
  <2>1. u \in Stages /\ \A v \in Passed(a) : v \in Passed(u) \/ u \in Passed(v)
    BY <1>2
  <2>2. Onward(u) \in Stages
    BY <2>1, OnwardGives
  <2>3. ASSUME NEW v \in Passed(a) PROVE v \in Passed(Onward(u)) \/ Onward(u) \in Passed(v)
    <3>1. v \in Stages
      BY DEF Passed
    <3>2. Passed(v) \in Walks(v)
      BY <3>1, PassedIsWalk
    <3>3. v \in Passed(v) /\ \A z \in Passed(v) : Onward(z) \in Passed(v)
      BY <3>2 DEF Walks
    <3>4. CASE u \in Passed(v)
      BY <3>3, <3>4
    <3>5. CASE v \in Passed(u)
      <4>1. v = u \/ v \in Passed(Onward(u))
        BY <2>1, <3>5, PassedAfter
      <4>2. QED
        BY <3>3, <4>1
    <3>6. QED
      BY <2>1, <3>4, <3>5
  <2>4. QED
    BY <2>2, <2>3
<1>3. X \in Walks(a)
  BY <1>1, <1>2 DEF Walks
<1>4. x \in X
  BY <1>3 DEF Passed
<1>5. QED
  BY <1>4

Begin(c) ==
  [at |-> IF settings.ranker = "none" THEN "ranker" ELSE "cached",
   r |-> [feedback |-> Seen, exclude |-> Excluded(Seen), category |-> c],
   todo |-> settings.ranked, result |-> <<>>]

\* What a request of category c may have gathered or cut off.
Gathered(c) == {q \in Seq(Entry) : \E y \in Passed(Begin(c)) : IsPrefix(q, y.result)}

LEMMA BeginIsStage ==
  ASSUME settings \in Options, history \in Reads, NEW c \in BOOLEAN
  PROVE  Begin(c) \in Stages
<1>1. Seen \in Reads
  BY FS_Subset DEF Seen, Reads
<1>2. Excluded(Seen) \in SUBSET Catalogue
  BY <1>1 DEF Excluded, Reads, Feedback
<1>3. settings.ranked \in Seq(Recommenders)
  BY RecAssumption
<1>4. <<>> \in Seq(Entry) /\ Len(<<>>) = 0 /\ CacheSize > 0
  BY EmptySeq, RecAssumption
<1>5. PICK r : r = [feedback |-> Seen, exclude |-> Excluded(Seen), category |-> c]
  OBVIOUS
<1>6. r \in Recs /\ Once(<<>>, r)
  BY <1>1, <1>2, <1>5 DEF Recs, Once
<1>7. Begin(c) = [at |-> IF settings.ranker = "none" THEN "ranker" ELSE "cached", r |-> r, todo |-> settings.ranked, result |-> <<>>]
  BY <1>5 DEF Begin
<1>8. QED
  BY <1>3, <1>4, <1>6, <1>7 DEF Stages

LEMMA GatheredInLine ==
  ASSUME lists \in Lists, settings \in Options, history \in Reads, NEW c \in BOOLEAN, NEW p \in Gathered(c), NEW q \in Gathered(c)
  PROVE  IsPrefix(p, q) \/ IsPrefix(q, p)
<1>1. PICK a : a = Begin(c)
  OBVIOUS
<1>2. a \in Stages
  BY <1>1, BeginIsStage
<1>3. PICK x \in Passed(a) : IsPrefix(p, x.result)
  BY <1>1 DEF Gathered
<1>4. PICK y \in Passed(a) : IsPrefix(q, y.result)
  BY <1>1 DEF Gathered
<1>5. x \in Stages /\ y \in Stages /\ p \in Seq(Entry) /\ q \in Seq(Entry)
  BY DEF Passed, Gathered
<1>6. x.result \in Seq(Entry) /\ y.result \in Seq(Entry)
  BY <1>5 DEF Stages
<1>7. CASE y \in Passed(x)
  <2>1. IsPrefix(x.result, y.result)
    BY <1>5, <1>7, PassedGrows
  <2>2. IsPrefix(p, y.result)
    BY <1>3, <1>5, <1>6, <2>1, PrefixTrans
  <2>3. QED
    BY <1>4, <1>5, <1>6, <2>2, PrefixesAgree
<1>8. CASE x \in Passed(y)
  <2>1. IsPrefix(y.result, x.result)
    BY <1>5, <1>8, PassedGrows
  <2>2. IsPrefix(q, x.result)
    BY <1>4, <1>5, <1>6, <2>1, PrefixTrans
  <2>3. QED
    BY <1>3, <1>5, <1>6, <2>2, PrefixesAgree
<1>9. QED
  BY <1>2, <1>7, <1>8, PassedInLine
-----------------------------------------------------------------------------
(* What a request gathers depends on the lists, the items and the feedback *)
(* alone: a step that leaves them alone leaves the stages alone.           *)

LEMMA SameAnswers ==
  ASSUME lists' = lists, state' = state, NEW r, NEW name
  PROVE  parse(r, name)' = parse(r, name)
<1>1. \A n : SearchScores(r, n)' = SearchScores(r, n)
  BY DEF SearchScores
<1>2. recommendNonPersonalized(r)' = recommendNonPersonalized(r)
  BY <1>1 DEF recommendNonPersonalized
<1>3. recommendCollaborative(r)' = recommendCollaborative(r)
  BY <1>1 DEF recommendCollaborative
<1>4. {i \in Catalogue : state[i] = "shown" /\ Asked(r, i)}' = {i \in Catalogue : state[i] = "shown" /\ Asked(r, i)}
  OBVIOUS
<1>5. recommendLatest(r)' = recommendLatest(r)
  BY <1>4 DEF recommendLatest
<1>6. recommendUserToUser(r)' = recommendUserToUser(r)
  BY <1>4 DEF recommendUserToUser
<1>7. recommendExternal(r)' = recommendExternal(r)
  BY DEF recommendExternal
<1>8. QED
  BY <1>2, <1>3, <1>5, <1>6, <1>7 DEF parse

LEMMA SameExcluded ==
  ASSUME settings' = settings, NEW F
  PROVE  Excluded(F)' = Excluded(F)
BY DEF Excluded

LEMMA SameStages ==
  ASSUME settings' = settings
  PROVE  Stages' = Stages
<1>1. \A q, r : Once(q, r)' <=> Once(q, r)
  BY SameExcluded DEF Once
<1>2. QED
  BY <1>1 DEF Stages

LEMMA SameOnward ==
  ASSUME settings' = settings, lists' = lists, state' = state, NEW x
  PROVE  Onward(x)' = Onward(x)
<1>1. Given(x)' = Given(x)
  BY SameAnswers DEF Given
<1>2. All(x)' = All(x)
  BY <1>1 DEF All
<1>3. \A limit : Asks(x, limit)' = Asks(x, limit)
  BY <1>1, <1>2 DEF Asks, Full
<1>4. SearchScores(x.r, "offline")' = SearchScores(x.r, "offline")
  BY DEF SearchScores
<1>5. Reading(x)' = Reading(x)
  BY <1>4 DEF Reading, Stored
<1>6. Falling(x)' = Falling(x)
  BY DEF Falling
<1>7. QED
  BY <1>3, <1>5, <1>6 DEF Onward

LEMMA SamePassed ==
  ASSUME settings' = settings, lists' = lists, state' = state, history' = history, clock' = clock, NEW c
  PROVE  Passed(Begin(c))' = Passed(Begin(c)) /\ Gathered(c)' = Gathered(c)
<1>1. Seen' = Seen
  BY DEF Seen
<1>2. Excluded(Seen)' = Excluded(Seen)
  BY <1>1, SameExcluded DEF Excluded
<1>3. Begin(c)' = Begin(c)
  BY <1>1, <1>2 DEF Begin
<1>4. \A a : Walks(a)' = Walks(a)
  BY SameStages, SameOnward DEF Walks
<1>5. \A a : Passed(a)' = Passed(a)
  BY <1>4, SameStages DEF Passed
<1>6. Passed(Begin(c))' = Passed(Begin(c))
  BY <1>3, <1>4, SameStages DEF Passed
<1>7. QED
  BY <1>6 DEF Gathered
-----------------------------------------------------------------------------
(* The inductive invariant.                                                *)

Fields == {"at", "r", "before", "limit", "offset", "delay", "todo", "result", "since", "start"}
IsRequest ==
  /\ DOMAIN rec = Fields
  /\ rec.at \in {"cached", "ranker", "fallback", "answer", "writeBack"} /\ rec.r \in Recs /\ rec.before \subseteq Catalogue
  /\ rec.limit \in Nat /\ rec.offset \in Nat /\ rec.delay \in {{}, {0}, {1}} /\ rec.result \in Seq(Entry)
  /\ rec.since \in Nat /\ rec.start \in Nat

Gathering == rec.at \in {"cached", "ranker", "fallback"}
Stage == [at |-> rec.at, r |-> rec.r, todo |-> rec.todo, result |-> rec.result]

RecTypes ==
  /\ settings \in Options /\ known \in BOOLEAN /\ state \in [Catalogue -> {"shown", "hidden", "gone"}]
  /\ history \in Reads /\ clock \in Nat /\ lists \in Lists /\ served \subseteq Catalogue /\ changes \in Nat

Fetching ==
  \/ rec = Idle
  \/ /\ IsRequest /\ Once(rec.result, rec.r)
     /\ rec.since <= changes /\ rec.start <= clock
     /\ Gathering => Stage \in Stages
     /\ rec.at = "writeBack" => rec.todo \in Seq(Entry)

\* The request comes to stage x.
ComesTo(x) ==
  /\ DOMAIN rec' = DOMAIN rec
  /\ rec'.at = x.at /\ rec'.r = x.r /\ rec'.todo = x.todo /\ rec'.result = x.result
  /\ rec'.before = rec.before /\ rec'.limit = rec.limit /\ rec'.offset = rec.offset /\ rec'.delay = rec.delay
  /\ rec'.since = rec.since /\ rec'.start = rec.start

LEMMA ReadCachedIs ==
  ASSUME IsRequest, ReadCached
  PROVE  ComesTo(Onward(Stage)) /\ Stage.at = "cached"
<1>1. rec.at = "cached" /\ Stage.at = "cached" /\ Stage.r = rec.r
  BY DEF ReadCached, Stage
<1>2. Onward(Stage) = Reading(Stage)
  BY <1>1 DEF Onward
<1>3. PICK s, q, y : s = Stored(rec.r) /\ q = Tagged(s, "offline") /\ y = Reading(Stage)
  OBVIOUS
<1>4. y.at = "ranker" /\ y.r = More(rec.r, s) /\ y.todo = <<>> /\ y.result = q
  BY <1>1, <1>3 DEF Reading
<1>5. rec' = [rec EXCEPT !.result = q, !.r.exclude = @ \cup Range(s), !.todo = <<>>, !.at = "ranker"]
  BY <1>3 DEF ReadCached, Stored
<1>6. ComesTo(y)
  BY <1>4, <1>5 DEF IsRequest, Fields, ComesTo, More
<1>7. QED
  BY <1>1, <1>2, <1>3, <1>6

LEMMA DeliverIs ==
  ASSUME IsRequest, NEW limit, Deliver(limit)
  PROVE  ComesTo(Asks(Stage, limit))
<1>1. Stage.at = rec.at /\ Stage.r = rec.r /\ Stage.todo = rec.todo /\ Stage.result = rec.result
  BY DEF Stage
<1>2. PICK s, a, y : s = Given(Stage) /\ a = All(Stage) /\ y = Asks(Stage, limit)
  OBVIOUS
<1>3. s = parse(rec.r, Head(rec.todo)) /\ a = rec.result \o Tagged(s, Head(rec.todo))
  BY <1>1, <1>2 DEF Given, All, With
<1>4. PICK b, t : b = Cut(a, limit) /\ t = Tail(rec.todo)
  OBVIOUS
<1>5. PICK f \in BOOLEAN : f = (limit > 0 /\ Len(a) >= limit)
  OBVIOUS
<1>6. y.at = rec.at /\ y.r = More(rec.r, s) /\ (y.todo = IF f THEN <<>> ELSE t) /\ y.result = IF f THEN b ELSE a
  BY <1>1, <1>2, <1>4, <1>5 DEF Asks, Full
<1>7. rec' = [rec EXCEPT !.result = IF f THEN b ELSE a, !.r.exclude = @ \cup Range(s), !.todo = IF f THEN <<>> ELSE t]
  BY <1>3, <1>4, <1>5 DEF Deliver
<1>8. ComesTo(y)
  BY <1>6, <1>7 DEF IsRequest, Fields, ComesTo, More
<1>9. QED
  BY <1>2, <1>8

LEMMA FallbackIs ==
  ASSUME IsRequest, Fallback
  PROVE  /\ Stage.at = "ranker" /\ Stage.todo = <<>>
         /\ \/ rec' = [rec EXCEPT !.result = Cut(@, rec.limit), !.at = "answer"]
            \/ ComesTo(Onward(Stage))
<1>1. Stage.at = "ranker" /\ Stage.todo = <<>> /\ Stage.r = rec.r /\ Stage.result = rec.result
  BY DEF Stage, Fallback
<1>2. Onward(Stage) = Falling(Stage)
  BY <1>1 DEF Onward
<1>3. PICK y, u : y = Onward(Stage) /\ u = settings.fallback
  OBVIOUS
<1>4. y.at = "fallback" /\ y.r = rec.r /\ y.todo = u /\ y.result = rec.result
  BY <1>1, <1>2, <1>3 DEF Falling
<1>5. CASE rec' = [rec EXCEPT !.todo = u, !.at = "fallback"]
  <2>1. ComesTo(y)
    BY <1>4, <1>5 DEF IsRequest, Fields, ComesTo
  <2>2. QED
    BY <1>1, <1>3, <2>1
<1>6. QED
  BY <1>1, <1>3, <1>5 DEF Fallback
LEMMA ComesGives ==
  ASSUME IsRequest, NEW x \in Stages, ComesTo(x), settings' = settings, changes' = changes, clock' = clock,
         rec.since <= changes, rec.start <= clock
  PROVE  Stage' = x /\ Fetching' /\ IsRequest'
<1>1. x \in [at : {"cached", "ranker", "fallback"}, r : Recs, todo : Seq(Recommenders), result : Seq(Entry)] /\ Once(x.result, x.r)
  BY DEF Stages
<1>2. x = [at |-> x.at, r |-> x.r, todo |-> x.todo, result |-> x.result]
  BY <1>1
<1>3. Stage' = x
  BY <1>2 DEF Stage, ComesTo
<1>4. Stages' = Stages
  BY SameStages
<1>5. Once(rec.result, rec.r)'
  <2>1. PICK r, q : r = x.r /\ q = x.result
    OBVIOUS
  <2>2. Once(q, r) /\ rec'.r = r /\ rec'.result = q
    BY <1>1, <2>1 DEF ComesTo
  <2>3. Excluded(rec.r.feedback)' = Excluded(r.feedback)
    BY <2>2 DEF Excluded
  <2>4. QED
    BY <2>2, <2>3 DEF Once
<1>6. IsRequest'
  BY <1>1 DEF IsRequest, ComesTo
<1>7. rec'.at # "writeBack"
  BY <1>1 DEF ComesTo
<1>8. rec'.since <= changes' /\ rec'.start <= clock'
  BY DEF ComesTo
<1>9. QED
  BY <1>3, <1>4, <1>5, <1>6, <1>7, <1>8 DEF Fetching

\* What is written back is feedback.
LEMMA WritesFeedback ==
  ASSUME RecTypes, Fetching, WriteBack
  PROVE  history' \in Reads
<1>1. /\ rec.todo \in Seq(Entry) /\ rec.todo # <<>> /\ rec.start \in Nat /\ rec.delay \in {{}, {0}, {1}}
  BY DEF WriteBack, Fetching, Idle, IsRequest
<1>2. PICK i : i = Head(rec.todo).item
  OBVIOUS
<1>3. i \in Catalogue
  <2>1. Head(rec.todo) \in Entry
    BY <1>1, HeadTailProperties
  <2>2. QED
    BY <1>2, <2>1 DEF Entry
<1>4. PICK N : N = {[item |-> i, kind |-> "read", time |-> rec.start + d] : d \in rec.delay}
  OBVIOUS
<1>5. history' = history \cup N \/ history' = history
  BY <1>2, <1>4 DEF WriteBack
<1>6. N \subseteq Feedback
  BY <1>1, <1>3, <1>4 DEF Feedback
<1>7. IsFiniteSet(N)
  <2>1. CASE rec.delay = {}
    <3>1. N = {}
      BY <1>4, <2>1
    <3>2. QED
      BY <3>1, FS_EmptySet
  <2>2. ASSUME NEW e \in {0, 1}, rec.delay = {e} PROVE IsFiniteSet(N)
    <3>1. N = {[item |-> i, kind |-> "read", time |-> rec.start + e]}
      BY <1>4, <2>2
    <3>2. QED
      BY <3>1, FS_Singleton
  <2>3. QED
    BY <1>1, <2>1, <2>2
<1>8. IsFiniteSet(history \cup N)
  BY <1>7, FS_Union DEF RecTypes, Reads
<1>9. QED
  BY <1>5, <1>6, <1>8 DEF RecTypes, Reads

LEMMA PageGives ==
  ASSUME rec.result \in Seq(Entry), rec.offset \in Nat
  PROVE  Page \in Seq(Entry) /\ \A k \in DOMAIN Page : Page[k].item \in Catalogue
<1>1. PICK n : n = Len(rec.result)
  OBVIOUS
<1>2. n \in Nat /\ DOMAIN rec.result = 1 .. n /\ \A k \in 1 .. n : rec.result[k] \in Entry
  BY <1>1, LenProperties, ElementOfSeq
<1>3. PICK p : p = Page
  OBVIOUS
<1>4. CASE n > rec.offset
  <2>1. p = SubSeq(rec.result, rec.offset + 1, n)
    BY <1>1, <1>3, <1>4 DEF Page
  <2>2. \A k \in rec.offset + 1 .. n : rec.result[k] \in Entry
    BY <1>2
  <2>3. p \in Seq(Entry)
    BY <1>2, <2>1, <2>2, SubSeqProperties
  <2>4. \A k \in DOMAIN p : p[k] \in Entry
    BY <2>3, LenProperties, ElementOfSeq
  <2>5. QED
    BY <1>3, <2>3, <2>4 DEF Entry
<1>5. CASE ~(n > rec.offset)
  <2>1. p = <<>>
    BY <1>1, <1>3, <1>5 DEF Page
  <2>2. QED
    BY <1>3, <2>1, EmptySeq
<1>6. QED
  BY <1>4, <1>5
LEMMA Busy ==
  ASSUME Fetching, rec.at # "idle"
  PROVE  /\ IsRequest /\ Once(rec.result, rec.r) /\ rec.since <= changes /\ rec.start <= clock
         /\ Gathering => Stage \in Stages
         /\ rec.at = "writeBack" => rec.todo \in Seq(Entry)
BY DEF Fetching, Idle

LEMMA SameOnce ==
  ASSUME settings' = settings, NEW q, NEW r, Once(q, r), rec'.result = q, rec'.r = r
  PROVE  Once(rec.result, rec.r)'
<1>1. Excluded(rec.r.feedback)' = Excluded(r.feedback)
  BY DEF Excluded
<1>2. QED
  BY <1>1 DEF Once

LEMMA NewRecommenderTypes ==
  ASSUME RecTypes, NEW n \in Nat, NEW o \in Nat, NEW c \in BOOLEAN, NEW d \in {{}, {0}, {1}}, NewRecommender(n, o, c, d)
  PROVE  RecTypes' /\ Fetching' /\ Stage' = Begin(c) /\ rec'.before = served /\ rec'.r.feedback = Seen
<1>1. PICK x : x = Begin(c)
  OBVIOUS
<1>2. x \in Stages
  BY <1>1, BeginIsStage DEF RecTypes
<1>3. x = [at |-> IF settings.ranker = "none" THEN "ranker" ELSE "cached",
           r |-> [feedback |-> Seen, exclude |-> Excluded(Seen), category |-> c], todo |-> settings.ranked, result |-> <<>>]
  BY <1>1 DEF Begin
<1>4. rec' = [at |-> x.at, r |-> x.r, before |-> served, limit |-> n + o, offset |-> o, delay |-> d,
              todo |-> x.todo, result |-> x.result, since |-> changes, start |-> clock]
  BY <1>3 DEF NewRecommender
<1>5. settings' = settings /\ changes' = changes /\ clock' = clock
  BY DEF NewRecommender
<1>6. x.at \in {"cached", "ranker"} /\ x.r \in Recs /\ x.result \in Seq(Entry) /\ Once(x.result, x.r)
  BY <1>2, <1>3 DEF Stages
<1>7. Stage' = x
  BY <1>3, <1>4 DEF Stage
<1>8. Stages' = Stages
  BY <1>5, SameStages
<1>9. IsRequest'
  BY <1>4, <1>5, <1>6 DEF IsRequest, Fields, RecTypes
<1>10. Once(rec.result, rec.r)'
  BY <1>4, <1>5, <1>6, SameOnce
<1>11. RecTypes'
  BY DEF RecTypes, NewRecommender
<1>12. Fetching'
  BY <1>2, <1>4, <1>5, <1>6, <1>7, <1>8, <1>9, <1>10 DEF Fetching, RecTypes
<1>13. rec'.before = served /\ rec'.r.feedback = Seen
  BY <1>3, <1>4
<1>14. QED
  BY <1>1, <1>7, <1>11, <1>12, <1>13

LEMMA AsksIsStage ==
  ASSUME lists \in Lists, NEW x \in Stages, x.at # "cached", x.todo # <<>>, NEW limit \in Nat, x.at = "ranker" => limit = CacheSize
  PROVE  Asks(x, limit) \in Stages
<1>1. PICK y : y = Asks(x, limit)
  OBVIOUS
<1>2. /\ y.r \in Recs /\ y.todo \in Seq(Recommenders)
      /\ y.result \in Seq(Entry) /\ Once(y.result, y.r)
      /\ limit > 0 /\ y.todo # <<>> => Len(y.result) < limit
  BY <1>1, AsksGives
<1>3. y = [at |-> x.at, r |-> y.r, todo |-> y.todo, result |-> y.result]
  BY <1>1 DEF Asks
<1>4. CacheSize > 0 /\ x.at \in {"ranker", "fallback"}
  BY RecAssumption DEF Stages
<1>5. QED
  BY <1>1, <1>2, <1>3, <1>4 DEF Stages

LEMMA ReadCachedTypes ==
  ASSUME RecTypes, Fetching, ReadCached
  PROVE  RecTypes' /\ Fetching' /\ Stage' = Onward(Stage) /\ ComesTo(Onward(Stage)) /\ Stage \in Stages
<1>1. rec.at = "cached"
  BY DEF ReadCached
<1>2. IsRequest /\ Stage \in Stages /\ rec.since <= changes /\ rec.start <= clock
  BY <1>1, Busy DEF Gathering
<1>3. PICK x, y : x = Stage /\ y = Onward(x)
  OBVIOUS
<1>4. y \in Stages
  BY <1>2, <1>3, OnwardGives DEF RecTypes
<1>5. ComesTo(y)
  BY <1>2, <1>3, ReadCachedIs
<1>6. settings' = settings /\ changes' = changes /\ clock' = clock /\ RecTypes'
  BY DEF ReadCached, RecTypes
<1>7. Stage' = y /\ Fetching'
  BY <1>2, <1>4, <1>5, <1>6, ComesGives
<1>8. QED
  BY <1>2, <1>3, <1>5, <1>6, <1>7

LEMMA SequentialTypes ==
  ASSUME RecTypes, Fetching, RecommendSequential
  PROVE  \E limit \in Nat : 
           /\ RecTypes' /\ Fetching' /\ Stage' = Asks(Stage, limit) /\ ComesTo(Asks(Stage, limit)) /\ Stage \in Stages
           /\ rec.at = "ranker" => limit = CacheSize
           /\ rec.at \in {"ranker", "fallback"} /\ rec.todo # <<>>
<1>1. rec.at \in {"ranker", "fallback"} /\ rec.todo # <<>>
  BY DEF RecommendSequential
<1>2. IsRequest /\ Stage \in Stages /\ rec.since <= changes /\ rec.start <= clock
  BY <1>1, Busy DEF Gathering
<1>3. PICK limit : limit = IF rec.at = "ranker" THEN CacheSize ELSE rec.limit
  OBVIOUS
<1>4. limit \in Nat /\ (rec.at = "ranker" => limit = CacheSize)
  BY <1>2, <1>3, RecAssumption DEF IsRequest
<1>5. PICK x, y : x = Stage /\ y = Asks(x, limit)
  OBVIOUS
<1>6. x.at = rec.at /\ x.todo = rec.todo
  BY <1>5 DEF Stage
<1>7. y \in Stages
  BY <1>1, <1>2, <1>4, <1>5, <1>6, AsksIsStage DEF RecTypes
<1>8. ComesTo(y)
  BY <1>2, <1>3, <1>5, DeliverIs DEF RecommendSequential
<1>9. settings' = settings /\ changes' = changes /\ clock' = clock /\ RecTypes'
  BY DEF RecommendSequential, RecTypes
<1>10. Stage' = y /\ Fetching'
  BY <1>2, <1>7, <1>8, <1>9, ComesGives
<1>11. QED
  BY <1>1, <1>2, <1>4, <1>5, <1>8, <1>9, <1>10
LEMMA FallbackTypes ==
  ASSUME RecTypes, Fetching, Fallback
  PROVE  /\ RecTypes' /\ Fetching' /\ Stage \in Stages /\ rec.at = "ranker" /\ Stage.todo = <<>>
         /\ DOMAIN rec' = Fields /\ rec'.r = rec.r /\ rec'.before = rec.before /\ rec'.since = rec.since
         /\ \/ Stage' = Onward(Stage) /\ rec'.at = "fallback"
            \/ rec'.at = "answer" /\ rec'.result \in Seq(Entry) /\ IsPrefix(rec'.result, rec.result)
<1>1. rec.at = "ranker"
  BY DEF Fallback
<1>2. IsRequest /\ Stage \in Stages /\ Once(rec.result, rec.r) /\ rec.since <= changes /\ rec.start <= clock
  BY <1>1, Busy DEF Gathering
<1>3. settings' = settings /\ changes' = changes /\ clock' = clock /\ RecTypes'
  BY DEF Fallback, RecTypes
<1>4. Stage.todo = <<>>
  BY DEF Stage, Fallback
<1>5. CASE ComesTo(Onward(Stage))
  <2>1. PICK x, y : x = Stage /\ y = Onward(x)
    OBVIOUS
  <2>2. y \in Stages
    BY <1>2, <2>1, OnwardGives DEF RecTypes
  <2>3. Stage' = y /\ Fetching'
    BY <1>2, <1>3, <1>5, <2>1, <2>2, ComesGives
  <2>4. Stage.at = "ranker" /\ Onward(Stage) = Falling(Stage) /\ Stage.r = rec.r
    BY <1>1, <1>4 DEF Onward, Stage
  <2>5. Falling(Stage).at = "fallback" /\ Falling(Stage).r = rec.r
    BY <2>4 DEF Falling
  <2>6. y.at = "fallback" /\ y.r = rec.r
    BY <2>1, <2>4, <2>5
  <2>7. QED
    BY <1>1, <1>2, <1>3, <1>4, <1>5, <2>1, <2>3, <2>6 DEF ComesTo, IsRequest
<1>6. CASE rec' = [rec EXCEPT !.result = Cut(@, rec.limit), !.at = "answer"]
  <2>1. PICK q, t : q = rec.result /\ t = Cut(q, rec.limit)
    OBVIOUS
  <2>2. t \in Seq(Entry) /\ Once(t, rec.r) /\ IsPrefix(t, q)
    BY <1>2, <2>1, CutOnce DEF IsRequest
  <2>3. /\ rec'.at = "answer" /\ rec'.r = rec.r /\ rec'.result = t /\ rec'.since = rec.since /\ rec'.start = rec.start
        /\ rec'.before = rec.before /\ IsRequest'
    BY <1>2, <1>6, <2>1, <2>2 DEF IsRequest, Fields
  <2>4. PICK r : r = rec.r
    OBVIOUS
  <2>5. Once(rec.result, rec.r)'
    BY <1>3, <2>2, <2>3, <2>4, SameOnce
  <2>6. Fetching'
    BY <1>2, <1>3, <2>3, <2>5 DEF Fetching, Gathering
  <2>7. QED
    BY <1>1, <1>2, <1>3, <1>4, <2>1, <2>2, <2>3, <2>6 DEF IsRequest
<1>7. QED
  BY <1>2, <1>5, <1>6, FallbackIs

\* The request stays as it is, but for what is left to do.
Stays == /\ DOMAIN rec' = Fields /\ rec'.r = rec.r /\ rec'.before = rec.before /\ rec'.limit = rec.limit /\ rec'.offset = rec.offset
         /\ rec'.delay = rec.delay /\ rec'.result = rec.result /\ rec'.since = rec.since

LEMMA StaysTypes ==
  ASSUME IsRequest, Once(rec.result, rec.r), Stays, settings' = settings
  PROVE  Once(rec.result, rec.r)'
<1>1. PICK r, q : r = rec.r /\ q = rec.result
  OBVIOUS
<1>2. QED
  BY <1>1, SameOnce DEF Stays

LEMMA RecommendedTypes ==
  ASSUME RecTypes, Fetching, Recommended
  PROVE  RecTypes' /\ Fetching' /\ Stays /\ rec'.at = "answer" /\ rec.at = "fallback" /\ Stage \in Stages
<1>1. rec.at = "fallback"
  BY DEF Recommended
<1>2. IsRequest /\ Stage \in Stages /\ Once(rec.result, rec.r) /\ rec.since <= changes /\ rec.start <= clock
  BY <1>1, Busy DEF Gathering
<1>3. settings' = settings /\ changes' = changes /\ clock' = clock /\ RecTypes'
  BY DEF Recommended, RecTypes
<1>4. Stays /\ rec'.at = "answer" /\ rec'.start = rec.start /\ IsRequest'
  BY <1>2 DEF Recommended, Stays, IsRequest, Fields
<1>5. Once(rec.result, rec.r)'
  BY <1>2, <1>3, <1>4, StaysTypes
<1>6. Fetching'
  BY <1>2, <1>3, <1>4, <1>5 DEF Fetching, Gathering, Stays
<1>7. QED
  BY <1>1, <1>2, <1>3, <1>4, <1>6

LEMMA getRecommendTypes ==
  ASSUME RecTypes, Fetching, getRecommend
  PROVE  RecTypes' /\ Fetching' /\ Stays /\ rec'.at = "writeBack" /\ rec.at = "answer" /\ (rec.delay = {0} => rec'.todo = Page)
<1>1. rec.at = "answer"
  BY DEF getRecommend
<1>2. IsRequest /\ Once(rec.result, rec.r) /\ rec.since <= changes /\ rec.start <= clock
  BY <1>1, Busy
<1>3. settings' = settings /\ changes' = changes /\ clock' = clock /\ RecTypes'
  BY DEF getRecommend, RecTypes
<1>4. PICK p : p = Page
  OBVIOUS
<1>5. p \in Seq(Entry) /\ <<>> \in Seq(Entry)
  BY <1>2, <1>4, PageGives, EmptySeq DEF IsRequest
<1>6. rec' = [rec EXCEPT !.at = "writeBack", !.todo = IF rec.delay = {} THEN <<>> ELSE p, !.start = clock]
  BY <1>4 DEF getRecommend
<1>7. /\ Stays /\ rec'.at = "writeBack" /\ rec'.start = clock /\ rec'.todo = (IF rec.delay = {} THEN <<>> ELSE p) /\ IsRequest'
  BY <1>2, <1>6 DEF Stays, IsRequest, Fields, RecTypes
<1>8. Once(rec.result, rec.r)'
  BY <1>2, <1>3, <1>7, StaysTypes
<1>9. Fetching'
  BY <1>2, <1>3, <1>5, <1>7, <1>8 DEF Fetching, Gathering, Stays, RecTypes
<1>10. rec.delay = {0} => rec'.todo = Page
  BY <1>4, <1>7
<1>11. QED
  BY <1>1, <1>3, <1>7, <1>9, <1>10

LEMMA WriteBackTypes ==
  ASSUME RecTypes, Fetching, WriteBack
  PROVE  RecTypes' /\ Fetching' /\ Stays /\ rec'.at = "writeBack" /\ rec.at = "writeBack" /\ rec.todo \in Seq(Entry) /\ rec'.todo = Tail(rec.todo)
<1>1. rec.at = "writeBack" /\ rec.todo # <<>>
  BY DEF WriteBack
<1>2. IsRequest /\ Once(rec.result, rec.r) /\ rec.since <= changes /\ rec.start <= clock /\ rec.todo \in Seq(Entry)
  BY <1>1, Busy
<1>3. settings' = settings /\ changes' = changes /\ clock' = clock /\ RecTypes'
  BY WritesFeedback DEF WriteBack, RecTypes
<1>4. PICK t : t = Tail(rec.todo)
  OBVIOUS
<1>5. t \in Seq(Entry)
  BY <1>1, <1>2, <1>4, HeadTailProperties
<1>6. rec' = [rec EXCEPT !.todo = t]
  BY <1>4 DEF WriteBack
<1>7. Stays /\ rec'.at = "writeBack" /\ rec'.start = rec.start /\ rec'.todo = t /\ IsRequest'
  BY <1>1, <1>2, <1>6 DEF Stays, IsRequest, Fields
<1>8. Once(rec.result, rec.r)'
  BY <1>2, <1>3, <1>7, StaysTypes
<1>9. Fetching'
  BY <1>2, <1>3, <1>5, <1>7, <1>8 DEF Fetching, Gathering, Stays
<1>10. QED
  BY <1>1, <1>2, <1>3, <1>4, <1>7, <1>9

LEMMA EndTypes ==
  ASSUME RecTypes, Fetching, Respond \/ RecFails
  PROVE  RecTypes' /\ Fetching' /\ rec' = Idle
<1>1. rec' = Idle /\ Fetching'
  BY DEF Respond, RecFails, Fetching
<1>2. CASE RecFails
  BY <1>1, <1>2 DEF RecFails, RecTypes
<1>3. CASE Respond
  <2>1. rec.at = "writeBack"
    BY <1>3 DEF Respond
  <2>2. IsRequest
    BY <2>1, Busy
  <2>3. \A k \in DOMAIN Page : Page[k].item \in Catalogue
    BY <2>2, PageGives DEF IsRequest
  <2>4. {Page[k].item : k \in DOMAIN Page} \subseteq Catalogue
    BY <2>3
  <2>5. served' \subseteq Catalogue
    BY <1>3, <2>4 DEF Respond, RecTypes
  <2>6. QED
    BY <1>1, <1>3, <2>5 DEF Respond, RecTypes
<1>4. QED
  BY <1>2, <1>3

LEMMA ChangeTypes ==
  ASSUME RecTypes, Fetching, Change
  PROVE  RecTypes' /\ Fetching' /\ rec' = rec /\ settings' = settings /\ clock <= clock' /\ changes' = changes + 1
<1>1. settings' = settings /\ known' = known /\ rec' = rec /\ served' = served /\ changes' = changes + 1
  BY DEF Change
<1>2. lists' \in Lists
  BY DEF Change, RecTypes
<1>3. clock' \in Nat /\ clock <= clock'
  BY DEF Change, RecTypes
<1>4. state' \in [Catalogue -> {"shown", "hidden", "gone"}]
  BY DEF Change, RecTypes
<1>5. history' \in Reads
  <2>1. CASE \E i \in Catalogue, s \in {"shown", "hidden", "gone"} : history' = {f \in history : s = "gone" => f.item # i}
    <3>1. history' \subseteq history
      BY <2>1
    <3>2. QED
      BY <3>1, FS_Subset DEF RecTypes, Reads
  <2>2. CASE \E i \in Catalogue, k \in {"pos", "neg"} : history' = history \cup {[item |-> i, kind |-> k, time |-> clock]}
    <3>1. PICK i \in Catalogue, k \in {"pos", "neg"} : history' = history \cup {[item |-> i, kind |-> k, time |-> clock]}
      BY <2>2
    <3>2. [item |-> i, kind |-> k, time |-> clock] \in Feedback
      BY DEF RecTypes, Feedback
    <3>3. IsFiniteSet(history \cup {[item |-> i, kind |-> k, time |-> clock]})
      BY FS_AddElement DEF RecTypes, Reads
    <3>4. QED
      BY <3>1, <3>2, <3>3 DEF RecTypes, Reads
  <2>3. CASE history' = history
    BY <2>3 DEF RecTypes
  <2>4. QED
    BY <2>1, <2>2, <2>3 DEF Change
<1>6. RecTypes'
  BY <1>1, <1>2, <1>3, <1>4, <1>5 DEF RecTypes
<1>7. Fetching'
  <2>1. CASE rec = Idle
    BY <1>1, <2>1 DEF Fetching
  <2>2. CASE rec # Idle
    <3>1. /\ IsRequest /\ Once(rec.result, rec.r) /\ rec.since <= changes /\ rec.start <= clock
          /\ Gathering => Stage \in Stages
          /\ rec.at = "writeBack" => rec.todo \in Seq(Entry)
      BY <2>2 DEF Fetching
    <3>2. IsRequest' /\ Gathering' = Gathering /\ Stage' = Stage
      BY <1>1, <3>1 DEF IsRequest, Gathering, Stage
    <3>3. Once(rec.result, rec.r)' 
      <4>1. PICK r, q : r = rec.r /\ q = rec.result
        OBVIOUS
      <4>2. QED
        BY <1>1, <3>1, <4>1, SameOnce
    <3>4. rec.since <= changes' /\ rec.start <= clock'
      BY <1>1, <1>3, <3>1 DEF IsRequest, RecTypes
    <3>5. QED
      BY <1>1, <3>1, <3>2, <3>3, <3>4, SameStages DEF Fetching
  <2>3. QED
    BY <2>1, <2>2
<1>8. QED
  BY <1>1, <1>3, <1>6, <1>7
-----------------------------------------------------------------------------
(* What was served is gone or fed back, and so excluded by the next        *)
(* request; a request that writes back has fed its page when nothing is    *)
(* left to do.                                                             *)

Gone(i) == state[i] = "gone"
Fed(i) == Gone(i) \/ \E f \in history : f.item = i /\ f.time <= clock
Excluding == rec # Idle => \A i \in rec.before : Gone(i) \/ i \in Excluded(rec.r.feedback)
Feeding ==
  rec.at = "writeBack" /\ rec.delay = {0} =>
    \A k \in DOMAIN Page : Fed(Page[k].item) \/ \E j \in DOMAIN rec.todo : rec.todo[j].item = Page[k].item

Again == known /\ ~settings.replacement => (\A i \in served : Fed(i)) /\ Excluding /\ Feeding

LEMMA FedLasts ==
  ASSUME RecTypes, Fetching, RecNext, NEW i \in Catalogue
  PROVE  settings' = settings /\ known' = known /\ (Gone(i) => Gone(i)') /\ (Fed(i) => Fed(i)')
<1>1. CASE Change
  <2>1. settings' = settings /\ known' = known /\ clock <= clock' /\ clock \in Nat /\ clock' \in Nat
    BY <1>1, ChangeTypes DEF Change, RecTypes
  <2>2. ASSUME NEW j \in Catalogue, NEW s \in {"shown", "hidden", "gone"}, state[j] \notin {s, "gone"},
               state' = [state EXCEPT ![j] = s], history' = {f \in history : s = "gone" => f.item # j}
        PROVE  (Gone(i) => Gone(i)') /\ (Fed(i) => Fed(i)')
    <3>1. Gone(i) => Gone(i)'
      BY <2>2 DEF Gone, RecTypes
    <3>2. ASSUME NEW f \in history, f.item = i, f.time <= clock PROVE Fed(i)'
      <4>1. CASE s = "gone" /\ i = j
        BY <2>2, <4>1 DEF Fed, Gone, RecTypes
      <4>2. CASE ~(s = "gone" /\ i = j)
        <5>1. f \in history' /\ f.time \in Nat
          BY <2>2, <3>2, <4>2 DEF RecTypes, Reads, Feedback
        <5>2. f.time <= clock'
          BY <2>1, <3>2, <5>1
        <5>3. QED
          BY <3>2, <5>1, <5>2 DEF Fed
      <4>3. QED
        BY <4>1, <4>2
    <3>3. QED
      BY <3>1, <3>2 DEF Fed
  <2>3. CASE state' = state /\ history \subseteq history'
    <3>1. \A f \in history : f.time \in Nat
      BY DEF RecTypes, Reads, Feedback
    <3>2. \A f \in history : f.time <= clock => f \in history' /\ f.time <= clock'
      BY <2>1, <2>3, <3>1
    <3>3. (\E f \in history : f.item = i /\ f.time <= clock) => \E f \in history' : f.item = i /\ f.time <= clock'
      BY <3>2
    <3>4. Gone(i) => Gone(i)'
      BY <2>3 DEF Gone
    <3>5. QED
      BY <2>1, <3>3, <3>4 DEF Fed
  <2>4. QED
    BY <1>1, <2>1, <2>2, <2>3 DEF Change
<1>2. CASE WriteBack
  <2>1. history \subseteq history' /\ state' = state /\ clock' = clock /\ settings' = settings /\ known' = known
    BY <1>2 DEF WriteBack
  <2>2. QED
    BY <2>1 DEF Fed, Gone
<1>3. CASE UNCHANGED <<settings, known, state, history, clock>>
  BY <1>3 DEF Fed, Gone
<1>4. CASE ReadCached \/ RecommendSequential \/ Fallback \/ Recommended \/ getRecommend \/ Respond \/ RecFails
  BY <1>3, <1>4 DEF ReadCached, RecommendSequential, Fallback, Recommended, getRecommend, Respond, RecFails
<1>5. CASE \E n \in Ns, o \in Offsets, c \in BOOLEAN, d \in {{}, {0}, {1}} : NewRecommender(n, o, c, d)
  BY <1>3, <1>5 DEF NewRecommender
<1>6. QED
  BY <1>1, <1>2, <1>4, <1>5 DEF RecNext

LEMMA OnwardFeedback ==
  ASSUME NEW x \in Stages, NEW limit
  PROVE  Onward(x).r.feedback = x.r.feedback /\ Asks(x, limit).r.feedback = x.r.feedback
         /\ Onward(x).r.category = x.r.category /\ Asks(x, limit).r.category = x.r.category
<1>1. x.r \in Recs
  BY DEF Stages
<1>2. \A s : More(x.r, s).feedback = x.r.feedback /\ More(x.r, s).category = x.r.category
  BY <1>1 DEF More, Recs
<1>3. \A l : Asks(x, l).r.feedback = x.r.feedback /\ Asks(x, l).r.category = x.r.category
  BY <1>2 DEF Asks
<1>4. Reading(x).r.feedback = x.r.feedback /\ Reading(x).r.category = x.r.category
  BY <1>2 DEF Reading
<1>5. Falling(x).r.feedback = x.r.feedback /\ Falling(x).r.category = x.r.category
  BY DEF Falling
<1>6. QED
  BY <1>3, <1>4, <1>5 DEF Onward

\* A request keeps what it read and what the caller had been served.
LEMMA RequestKeeps ==
  ASSUME RecTypes, Fetching, ReadCached \/ RecommendSequential \/ Fallback \/ Recommended \/ getRecommend \/ WriteBack
  PROVE  rec # Idle /\ rec'.before = rec.before /\ rec'.r.feedback = rec.r.feedback /\ rec.before \subseteq Catalogue
<1>1. rec.at \in {"cached", "ranker", "fallback", "answer", "writeBack"}
  BY DEF ReadCached, RecommendSequential, Fallback, Recommended, getRecommend, WriteBack
<1>2. rec # Idle /\ rec.before \subseteq Catalogue /\ Stage.r = rec.r
  BY <1>1, Busy DEF IsRequest, Idle, Stage
<1>3. CASE ReadCached
  <2>1. Stage \in Stages /\ ComesTo(Onward(Stage))
    BY <1>3, ReadCachedTypes
  <2>2. PICK x : x = Stage
    OBVIOUS
  <2>3. Onward(x).r.feedback = x.r.feedback
    BY <2>1, <2>2, OnwardFeedback
  <2>4. QED
    BY <1>2, <2>1, <2>2, <2>3 DEF ComesTo
<1>4. CASE RecommendSequential
  <2>1. PICK limit : Stage \in Stages /\ ComesTo(Asks(Stage, limit))
    BY <1>4, SequentialTypes
  <2>2. PICK x : x = Stage
    OBVIOUS
  <2>3. Asks(x, limit).r.feedback = x.r.feedback
    BY <2>1, <2>2, OnwardFeedback
  <2>4. QED
    BY <1>2, <2>1, <2>2, <2>3 DEF ComesTo
<1>5. CASE Fallback
  BY <1>2, <1>5, FallbackTypes
<1>6. CASE Recommended
  BY <1>2, <1>6, RecommendedTypes DEF Stays
<1>7. CASE getRecommend
  BY <1>2, <1>7, getRecommendTypes DEF Stays
<1>8. CASE WriteBack
  BY <1>2, <1>8, WriteBackTypes DEF Stays
<1>9. QED
  BY <1>3, <1>4, <1>5, <1>6, <1>7, <1>8
LEMMA ExcludingStep ==
  ASSUME RecTypes, Fetching, Again, RecNext, known, ~settings.replacement
  PROVE  Excluding'
<1>1. settings' = settings
  BY DEF RecNext, NewRecommender, ReadCached, RecommendSequential, Fallback, Recommended, getRecommend, WriteBack, Respond, RecFails, Change
<1>2. ASSUME rec # Idle, rec'.before = rec.before, rec'.r.feedback = rec.r.feedback, rec.before \subseteq Catalogue
      PROVE  Excluding'
  <2>1. Excluded(rec.r.feedback)' = Excluded(rec.r.feedback)
    BY <1>1, <1>2 DEF Excluded
  <2>2. ASSUME NEW i \in rec'.before PROVE Gone(i)' \/ i \in Excluded(rec.r.feedback)'
    <3>1. i \in rec.before /\ i \in Catalogue
      BY <1>2, <2>2
    <3>2. Gone(i) \/ i \in Excluded(rec.r.feedback)
      BY <1>2, <3>1 DEF Again, Excluding
    <3>3. QED
      BY <2>1, <3>1, <3>2, FedLasts
  <2>3. QED
    BY <2>2 DEF Excluding
<1>3. CASE \E n \in Ns, o \in Offsets, c \in BOOLEAN, d \in {{}, {0}, {1}} : NewRecommender(n, o, c, d)
  <2>1. PICK n \in Nat, o \in Nat, c \in BOOLEAN, d \in {{}, {0}, {1}} : NewRecommender(n, o, c, d)
    BY <1>3, RecAssumption
  <2>2. rec'.before = served /\ rec'.r.feedback = Seen
    BY <2>1, NewRecommenderTypes
  <2>3. state' = state
    BY <2>1 DEF NewRecommender
  <2>4. Excluded(rec.r.feedback)' = Excluded(Seen)
    BY <1>1, <2>2 DEF Excluded
  <2>5. \A i \in served : Gone(i) \/ i \in Excluded(Seen)
    <3>1. SUFFICES ASSUME NEW i \in served, NEW f \in history, f.item = i, f.time <= clock PROVE i \in Excluded(Seen)
      BY DEF Again, Fed
    <3>2. f \in Seen
      BY <3>1 DEF Seen
    <3>3. QED
      BY <3>1, <3>2 DEF Excluded
  <2>6. QED
    BY <2>2, <2>3, <2>4, <2>5 DEF Excluding, Gone
<1>4. CASE ReadCached \/ RecommendSequential \/ Fallback \/ Recommended \/ getRecommend \/ WriteBack
  BY <1>2, <1>4, RequestKeeps
<1>5. CASE Respond \/ RecFails
  BY <1>5 DEF Excluding, Respond, RecFails
<1>6. CASE Change
  <2>1. rec' = rec
    BY <1>6 DEF Change
  <2>2. CASE rec = Idle
    BY <2>1, <2>2 DEF Excluding
  <2>3. CASE rec # Idle
    <3>1. rec.before \subseteq Catalogue
      BY <2>3 DEF Fetching, IsRequest
    <3>2. QED
      BY <1>2, <2>1, <2>3, <3>1
  <2>4. QED
    BY <2>2, <2>3
<1>7. QED
  BY <1>3, <1>4, <1>5, <1>6 DEF RecNext

\* One more item of the page is fed, or gone.
LEMMA WriteBackFeeds ==
  ASSUME RecTypes, Fetching, Again, WriteBack, known, ~settings.replacement, rec.delay = {0}, NEW k \in DOMAIN Page
  PROVE  Fed(Page[k].item)' \/ \E j \in DOMAIN rec'.todo : rec'.todo[j].item = Page[k].item
<1>1. /\ rec.at = "writeBack" /\ rec.todo # <<>> /\ rec.todo \in Seq(Entry) /\ IsRequest /\ rec.start <= clock
  BY Busy DEF WriteBack
<1>2. PICK i, t : i = Page[k].item /\ t = rec.todo
  OBVIOUS
<1>3. i \in Catalogue
  BY <1>1, <1>2, PageGives DEF IsRequest
<1>4. CASE Fed(i)
  <2>1. RecNext
    BY DEF RecNext
  <2>2. Fed(i)'
    BY <1>3, <1>4, <2>1, FedLasts
  <2>3. Fed(Page[k].item)' <=> Fed(i)'
    <3>1. Page' = Page
      BY <1>1, WriteBackTypes DEF Page, Stays
    <3>2. QED
      BY <1>2, <3>1 DEF Fed, Gone
  <2>4. QED
    BY <2>2, <2>3
<1>5. CASE \E j \in DOMAIN t : t[j].item = i
  <2>1. PICK j \in DOMAIN t : t[j].item = i
    BY <1>5
  <2>2. t \in Seq(Entry) /\ t # <<>> /\ Len(t) \in Nat /\ DOMAIN t = 1 .. Len(t)
    BY <1>1, <1>2, LenProperties
  <2>3. PICK u : u = Tail(t)
    OBVIOUS
  <2>4. u \in Seq(Entry) /\ Len(u) = Len(t) - 1 /\ DOMAIN u = 1 .. Len(u) /\ \A m \in 1 .. Len(u) : u[m] = t[m + 1]
    <3>1. u \in Seq(Entry) /\ Len(u) = Len(t) - 1 /\ \A m \in 1 .. Len(u) : u[m] = t[m + 1]
      BY <2>2, <2>3, HeadTailProperties
    <3>2. QED
      BY <3>1, LenProperties
  <2>5. rec'.todo = u
    BY <1>2, <2>3, WriteBackTypes
  <2>6. CASE j = 1
    <3>1. Head(t).item = i
      BY <2>1, <2>2, <2>6
    <3>2. Fed(i)'
      <4>1. CASE Gone(i)
        BY <4>1 DEF WriteBack, Fed, Gone
      <4>2. CASE ~Gone(i)
        <5>1. PICK f : f = [item |-> i, kind |-> "read", time |-> rec.start + 0]
          OBVIOUS
        <5>2. f \in history'
          BY <1>2, <3>1, <4>2, <5>1 DEF WriteBack, Gone
        <5>3. f.item = i /\ f.time <= clock
          BY <1>1, <5>1 DEF IsRequest, RecTypes
        <5>4. clock' = clock
          BY DEF WriteBack
        <5>5. QED
          BY <5>2, <5>3, <5>4 DEF Fed
      <4>3. QED
        BY <4>1, <4>2
    <3>3. Page' = Page
      BY <1>1, WriteBackTypes DEF Page, Stays
    <3>4. QED
      BY <1>2, <3>2, <3>3 DEF Fed, Gone
  <2>7. CASE j # 1
    <3>1. j - 1 \in 1 .. Len(u) /\ u[j - 1] = t[j]
      <4>1. j \in 1 .. Len(t) /\ j - 1 \in 1 .. Len(u) /\ (j - 1) + 1 = j
        BY <2>2, <2>4, <2>7
      <4>2. QED
        BY <2>4, <4>1
    <3>2. QED
      BY <1>2, <2>1, <2>4, <2>5, <3>1
  <2>8. QED
    BY <2>6, <2>7
<1>6. QED
  BY <1>1, <1>2, <1>4, <1>5 DEF Again, Feeding
LEMMA FeedingStep ==
  ASSUME RecTypes, Fetching, Again, RecNext, known, ~settings.replacement
  PROVE  Feeding'
<1>1. CASE WriteBack
  <2>1. Page' = Page /\ rec'.delay = rec.delay
    BY <1>1, WriteBackTypes DEF Page, Stays
  <2>2. SUFFICES ASSUME rec.delay = {0}, NEW k \in DOMAIN Page
                 PROVE  Fed(Page[k].item)' \/ \E j \in DOMAIN rec'.todo : rec'.todo[j].item = Page[k].item
    BY <2>1 DEF Feeding
  <2>3. QED
    BY <1>1, <2>2, WriteBackFeeds
<1>2. CASE getRecommend
  <2>1. Page' = Page /\ rec'.delay = rec.delay /\ (rec.delay = {0} => rec'.todo = Page)
    BY <1>2, getRecommendTypes DEF Page, Stays
  <2>2. QED
    BY <2>1 DEF Feeding
<1>3. CASE Change
  <2>1. rec' = rec /\ Page' = Page
    BY <1>3 DEF Change, Page
  <2>2. SUFFICES ASSUME rec.at = "writeBack", rec.delay = {0}, NEW k \in DOMAIN Page
                 PROVE  Fed(Page[k].item)' \/ \E j \in DOMAIN rec.todo : rec.todo[j].item = Page[k].item
    BY <2>1 DEF Feeding
  <2>3. PICK i : i = Page[k].item
    OBVIOUS
  <2>4. i \in Catalogue
    <3>1. IsRequest
      BY <2>2, Busy
    <3>2. QED
      BY <2>2, <2>3, <3>1, PageGives DEF IsRequest
  <2>5. Fed(i) => Fed(i)'
    BY <2>4, FedLasts
  <2>6. Fed(i)' <=> Fed(Page[k].item)'
    BY <2>1, <2>3 DEF Fed, Gone
  <2>7. QED
    BY <2>2, <2>3, <2>5, <2>6 DEF Again, Feeding
<1>4. CASE ReadCached \/ RecommendSequential \/ Fallback \/ Recommended
  <2>1. rec'.at # "writeBack"
    <3>1. CASE ReadCached
      BY <3>1 DEF ReadCached, Idle, Fetching, IsRequest, Fields
    <3>2. CASE RecommendSequential
      <4>1. IsRequest
        BY <3>2, Busy DEF RecommendSequential
      <4>2. QED
        BY <3>2, <4>1 DEF RecommendSequential, Deliver, IsRequest, Fields
    <3>3. CASE Fallback
      BY <3>3, FallbackTypes
    <3>4. CASE Recommended
      BY <3>4, RecommendedTypes
    <3>5. QED
      BY <1>4, <3>1, <3>2, <3>3, <3>4
  <2>2. QED
    BY <2>1 DEF Feeding
<1>5. CASE Respond \/ RecFails
  <2>1. rec'.at = "idle"
    BY <1>5, EndTypes DEF Idle
  <2>2. QED
    BY <2>1 DEF Feeding
<1>6. CASE \E n \in Ns, o \in Offsets, c \in BOOLEAN, d \in {{}, {0}, {1}} : NewRecommender(n, o, c, d)
  BY <1>6 DEF Feeding, NewRecommender
<1>7. QED
  BY <1>1, <1>2, <1>3, <1>4, <1>5, <1>6 DEF RecNext

LEMMA ServedStep ==
  ASSUME RecTypes, Fetching, Again, RecNext, known, ~settings.replacement, NEW i \in served'
  PROVE  Fed(i)'
<1>1. CASE Respond /\ rec.delay = {0}
  <2>1. i \in served \/ \E k \in DOMAIN Page : i = Page[k].item
    BY <1>1 DEF Respond
  <2>2. CASE i \in served
    <3>1. i \in Catalogue /\ Fed(i)
      BY <2>2 DEF RecTypes, Again
    <3>2. QED
      BY <3>1, FedLasts
  <2>3. ASSUME NEW k \in DOMAIN Page, i = Page[k].item PROVE Fed(i)'
    <3>1. rec.at = "writeBack" /\ rec.todo = <<>> /\ DOMAIN <<>> = {}
      BY <1>1 DEF Respond
    <3>2. Fed(i)
      BY <1>1, <2>3, <3>1 DEF Again, Feeding
    <3>3. IsRequest
      BY <3>1, Busy
    <3>4. i \in Catalogue
      BY <2>3, <3>3, PageGives DEF IsRequest
    <3>5. QED
      BY <3>2, <3>4, FedLasts
  <2>4. QED
    BY <2>1, <2>2, <2>3
<1>2. CASE ~(Respond /\ rec.delay = {0})
  <2>1. served' = served
    BY <1>2 DEF RecNext, NewRecommender, ReadCached, RecommendSequential, Fallback, Recommended, getRecommend, WriteBack, Respond, RecFails, Change
  <2>2. i \in Catalogue /\ Fed(i)
    BY <2>1 DEF RecTypes, Again
  <2>3. QED
    BY <2>2, FedLasts
<1>3. QED
  BY <1>1, <1>2

LEMMA AgainStep ==
  ASSUME RecTypes, Fetching, Again, RecNext
  PROVE  Again'
<1>1. settings' = settings /\ known' = known
  BY DEF RecNext, NewRecommender, ReadCached, RecommendSequential, Fallback, Recommended, getRecommend, WriteBack, Respond, RecFails, Change
<1>2. SUFFICES ASSUME known, ~settings.replacement PROVE (\A i \in served' : Fed(i)') /\ Excluding' /\ Feeding'
  BY <1>1 DEF Again
<1>3. QED
  BY <1>2, ExcludingStep, FeedingStep, ServedStep

-----------------------------------------------------------------------------
(* While nothing changes, a request is at a stage that is passed by every  *)
(* request of its category, or has cut the result of one.                  *)

Unchanged == rec # Idle /\ rec.since = changes /\ rec.at # "writeBack"
Whole == \E c \in BOOLEAN : rec.r.category = c /\ Gathering /\ Stage \in Passed(Begin(c))
Done == \E c \in BOOLEAN : /\ rec.r.category = c /\ rec.at \in {"fallback", "answer"} /\ (rec.at = "fallback" => rec.todo = <<>>)
                           /\ rec.result \in Gathered(c)
Answers == \A p \in previous : p.category \in BOOLEAN /\ p.result \in Gathered(p.category)

Paged == (Unchanged => Whole \/ Done) /\ Answers

LEMMA AnswersStay ==
  ASSUME RecTypes, Answers, settings' = settings, lists' = lists, state' = state, history' = history, clock' = clock, previous' = previous
  PROVE  Answers'
<1>1. \A p \in previous : Gathered(p.category)' = Gathered(p.category)
  BY SamePassed
<1>2. QED
  BY <1>1 DEF Answers

\* A stage that was passed gives a result, and so does its next one.
LEMMA PassedGives ==
  ASSUME RecTypes, NEW c \in BOOLEAN, NEW x \in Passed(Begin(c))
  PROVE  /\ x \in Stages /\ Onward(x) \in Passed(Begin(c))
         /\ \A q \in Seq(Entry) : IsPrefix(q, x.result) \/ IsPrefix(q, Onward(x).result) => q \in Gathered(c)
<1>1. PICK a : a = Begin(c)
  OBVIOUS
<1>2. a \in Stages
  BY <1>1, BeginIsStage DEF RecTypes
<1>3. Passed(a) \in Walks(a)
  BY <1>2, PassedIsWalk DEF RecTypes
<1>4. Onward(x) \in Passed(a) /\ x \in Stages
  BY <1>1, <1>3 DEF Walks, Passed
<1>5. QED
  BY <1>1, <1>4 DEF Gathered
\* Nothing that a request reads changes.
Still == settings' = settings /\ lists' = lists /\ state' = state /\ history' = history /\ clock' = clock /\ changes' = changes

LEMMA WholeBegins ==
  ASSUME RecTypes, Fetching, NEW n \in Nat, NEW o \in Nat, NEW c \in BOOLEAN, NEW d \in {{}, {0}, {1}}, NewRecommender(n, o, c, d)
  PROVE  Whole'
<1>1. Still
  BY DEF NewRecommender, Still
<1>2. PICK a : a = Begin(c)
  OBVIOUS
<1>3. a \in Stages
  BY <1>2, BeginIsStage DEF RecTypes
<1>4. a \in Passed(a)
  BY <1>3, PassedIsWalk DEF RecTypes, Walks
<1>5. Stage' = a
  BY <1>2, NewRecommenderTypes
<1>6. a \in Passed(Begin(c))'
  BY <1>1, <1>2, <1>4, SamePassed DEF Still
<1>7. rec'.r.category = c /\ Gathering'
  BY DEF NewRecommender, Gathering
<1>8. QED
  BY <1>5, <1>6, <1>7 DEF Whole

LEMMA WholeGoesOn ==
  ASSUME RecTypes, Fetching, Whole, ComesTo(Onward(Stage)), Stage' = Onward(Stage), Still
  PROVE  Whole'
<1>1. PICK c \in BOOLEAN : rec.r.category = c /\ Gathering /\ Stage \in Passed(Begin(c))
  BY DEF Whole
<1>2. PICK x, y : x = Stage /\ y = Onward(x)
  OBVIOUS
<1>3. x \in Stages /\ y \in Passed(Begin(c))
  BY <1>1, <1>2, PassedGives
<1>4. y \in Stages
  BY <1>2, <1>3, OnwardGives DEF RecTypes
<1>5. y.r.category = c
  <2>1. x.r.category = c
    BY <1>1, <1>2 DEF Stage
  <2>2. QED
    BY <1>2, <1>3, <2>1, OnwardFeedback
<1>6. y \in Passed(Begin(c))'
  BY <1>3, SamePassed DEF Still
<1>7. rec'.r.category = c /\ Gathering'
  BY <1>2, <1>4, <1>5 DEF ComesTo, Gathering, Stages
<1>8. Stage' = y
  BY <1>2
<1>9. QED
  BY <1>6, <1>7, <1>8 DEF Whole

\* The result of a request so far, or a cut of it.
LEMMA WholeIsDone ==
  ASSUME RecTypes, Fetching, Whole, Still, NEW q \in Seq(Entry),
         IsPrefix(q, rec.result) \/ IsPrefix(q, Onward(Stage).result),
         rec'.r.category = rec.r.category, rec'.at \in {"fallback", "answer"}, rec'.at = "fallback" => rec'.todo = <<>>, rec'.result = q
  PROVE  Done'
<1>1. PICK c \in BOOLEAN : rec.r.category = c /\ Stage \in Passed(Begin(c))
  BY DEF Whole
<1>2. PICK x : x = Stage
  OBVIOUS
<1>3. x.result = rec.result
  BY <1>2 DEF Stage
<1>4. q \in Gathered(c)
  BY <1>1, <1>2, <1>3, PassedGives
<1>5. q \in Gathered(c)'
  BY <1>4, SamePassed DEF Still
<1>6. QED
  BY <1>1, <1>5 DEF Done

LEMMA UnchangedStep ==
  ASSUME RecTypes, Fetching, Paged, RecNext, Unchanged'
  PROVE  (Whole \/ Done)'
<1>1. CASE \E n \in Ns, o \in Offsets, c \in BOOLEAN, d \in {{}, {0}, {1}} : NewRecommender(n, o, c, d)
  <2>1. PICK n \in Nat, o \in Nat, c \in BOOLEAN, d \in {{}, {0}, {1}} : NewRecommender(n, o, c, d)
    BY <1>1, RecAssumption
  <2>2. QED
    BY <2>1, WholeBegins
<1>2. CASE ReadCached
  <2>1. ComesTo(Onward(Stage)) /\ Stage' = Onward(Stage) /\ rec.at = "cached" /\ rec # Idle
    BY <1>2, ReadCachedTypes DEF ReadCached, Idle
  <2>2. Still
    BY <1>2 DEF ReadCached, Still
  <2>3. Unchanged
    BY <2>1, <2>2 DEF Unchanged, ComesTo, Still
  <2>4. Whole
    BY <2>1, <2>3 DEF Paged, Done
  <2>5. QED
    BY <2>1, <2>2, <2>4, WholeGoesOn
<1>3. CASE RecommendSequential
  <2>1. PICK limit \in Nat : /\ Stage' = Asks(Stage, limit) /\ ComesTo(Asks(Stage, limit)) /\ Stage \in Stages
                             /\ rec.at = "ranker" => limit = CacheSize
                             /\ rec.at \in {"ranker", "fallback"} /\ rec.todo # <<>>
    BY <1>3, SequentialTypes
  <2>2. Still /\ rec # Idle
    BY <1>3, <2>1 DEF RecommendSequential, Still, Idle
  <2>3. Unchanged
    BY <2>1, <2>2 DEF Unchanged, ComesTo, Still
  <2>4. Whole
    BY <2>1, <2>3 DEF Paged, Done
  <2>5. PICK x, y : x = Stage /\ y = Asks(x, limit)
    OBVIOUS
  <2>6. x.at = rec.at /\ x.todo = rec.todo /\ x \in Stages
    BY <2>1, <2>5 DEF Stage
  <2>7. Onward(x) = Asks(x, IF x.at = "ranker" THEN CacheSize ELSE 0)
    BY <2>1, <2>6 DEF Onward
  <2>8. CASE rec.at = "ranker" \/ ~Full(x, limit)
    <3>1. Onward(x) = y
      <4>1. CASE rec.at = "ranker"
        BY <2>1, <2>5, <2>6, <2>7, <4>1
      <4>2. CASE rec.at # "ranker" /\ ~Full(x, limit)
        <5>1. Onward(x) = Asks(x, 0) /\ ~Full(x, 0)
          BY <2>6, <2>7, <4>2 DEF Full
        <5>2. QED
          BY <2>5, <4>2, <5>1 DEF Asks
      <4>3. QED
        BY <2>8, <4>1, <4>2
    <3>2. QED
      BY <2>1, <2>2, <2>4, <2>5, <3>1, WholeGoesOn
  <2>9. CASE rec.at = "fallback" /\ Full(x, limit)
    <3>1. Onward(x) = Asks(x, 0) /\ ~Full(x, 0)
      BY <2>6, <2>7, <2>9 DEF Full
    <3>2. Onward(x).result = All(x)
      BY <3>1 DEF Asks
    <3>3. y.result \in Seq(Entry) /\ IsPrefix(y.result, All(x))
      BY <2>1, <2>5, <2>6, AsksGives DEF RecTypes
    <3>4. y.todo = <<>> /\ y.at = "fallback" /\ y.r.category = x.r.category
      BY <2>5, <2>6, <2>9, OnwardFeedback DEF Asks
    <3>5. x.r = rec.r
      BY <2>5 DEF Stage
    <3>6. /\ rec'.r.category = rec.r.category /\ rec'.at = "fallback" /\ rec'.todo = <<>> /\ rec'.result = y.result
      BY <2>1, <2>5, <3>4, <3>5 DEF ComesTo
    <3>7. PICK q : q = y.result
      OBVIOUS
    <3>8. IsPrefix(q, Onward(Stage).result)
      BY <2>5, <3>2, <3>3, <3>7
    <3>9. Done'
      BY <2>2, <2>4, <3>3, <3>6, <3>7, <3>8, WholeIsDone
    <3>10. QED
      BY <3>9
  <2>10. QED
    BY <2>1, <2>8, <2>9
<1>4. CASE Fallback
  <2>1. /\ Stage \in Stages /\ rec.at = "ranker" /\ Stage.todo = <<>> /\ rec'.r = rec.r /\ rec'.since = rec.since
        /\ \/ Stage' = Onward(Stage) /\ rec'.at = "fallback"
           \/ rec'.at = "answer" /\ rec'.result \in Seq(Entry) /\ IsPrefix(rec'.result, rec.result)
    BY <1>4, FallbackTypes
  <2>2. Still /\ rec # Idle
    BY <1>4, <2>1 DEF Fallback, Still, Idle
  <2>3. Unchanged
    BY <2>1, <2>2 DEF Unchanged, Still
  <2>4. Whole
    BY <2>1, <2>3 DEF Paged, Done
  <2>5. CASE Stage' = Onward(Stage) /\ rec'.at = "fallback"
    <3>1. PICK c \in BOOLEAN : rec.r.category = c /\ Stage \in Passed(Begin(c))
      BY <2>4 DEF Whole
    <3>2. PICK x, y : x = Stage /\ y = Onward(x)
      OBVIOUS
    <3>3. y \in Passed(Begin(c))
      BY <3>1, <3>2, PassedGives
    <3>4. y \in Passed(Begin(c))'
      BY <2>2, <3>3, SamePassed DEF Still
    <3>5. Stage' = y
      BY <2>5, <3>2
    <3>6. QED
      BY <2>1, <2>5, <3>1, <3>4, <3>5 DEF Whole, Gathering
  <2>6. CASE rec'.at = "answer" /\ rec'.result \in Seq(Entry) /\ IsPrefix(rec'.result, rec.result)
    <3>1. PICK q : q = rec'.result
      OBVIOUS
    <3>2. Done'
      BY <2>1, <2>2, <2>4, <2>6, <3>1, WholeIsDone
    <3>3. QED
      BY <3>2
  <2>7. QED
    BY <2>1, <2>5, <2>6
<1>5. CASE Recommended
  <2>1. Stays /\ rec'.at = "answer" /\ rec.at = "fallback" /\ rec.todo = <<>> /\ Stage \in Stages
    BY <1>5, RecommendedTypes DEF Recommended
  <2>2. Still /\ rec # Idle
    BY <1>5, <2>1 DEF Recommended, Still, Idle
  <2>3. Unchanged
    BY <2>1, <2>2 DEF Unchanged, Still, Stays
  <2>4. CASE Whole
    <3>1. PICK q : q = rec.result
      OBVIOUS
    <3>2. q \in Seq(Entry) /\ Len(q) \in Nat
      <4>1. q \in Seq(Entry)
        BY <2>1, <3>1, Busy DEF IsRequest
      <4>2. QED
        BY <4>1, LenProperties
    <3>3. IsPrefix(q, rec.result)
      BY <3>1, <3>2, PrefixIs
    <3>4. Done'
      BY <2>1, <2>2, <2>4, <3>1, <3>2, <3>3, WholeIsDone DEF Stays
    <3>5. QED
      BY <3>4
  <2>5. CASE Done
    <3>1. PICK c \in BOOLEAN : rec.r.category = c /\ rec.result \in Gathered(c)
      BY <2>5 DEF Done
    <3>2. rec.result \in Gathered(c)'
      BY <2>2, <3>1, SamePassed DEF Still
    <3>3. QED
      BY <2>1, <3>1, <3>2 DEF Done, Stays
  <2>6. QED
    BY <2>3, <2>4, <2>5 DEF Paged
<1>6. CASE getRecommend \/ WriteBack
  BY <1>6, getRecommendTypes, WriteBackTypes DEF Unchanged
<1>7. CASE Respond \/ RecFails
  BY <1>7, EndTypes DEF Unchanged
<1>8. CASE Change
  <2>1. rec' = rec /\ changes' = changes + 1
    BY <1>8, ChangeTypes
  <2>2. rec # Idle /\ rec.since = changes + 1
    BY <2>1 DEF Unchanged
  <2>3. rec.since <= changes /\ changes \in Nat
    BY <2>2 DEF Fetching, RecTypes
  <2>4. QED
    BY <2>2, <2>3
<1>9. QED
  BY <1>1, <1>2, <1>3, <1>4, <1>5, <1>6, <1>7, <1>8 DEF RecNext
LEMMA PagedStep ==
  ASSUME RecTypes, Fetching, Paged, RecNext
  PROVE  Paged'
<1>1. Answers'
  <2>1. CASE previous' = previous /\ Still
    BY <2>1, AnswersStay DEF Paged, Still
  <2>2. CASE previous' = {}
    BY <2>2 DEF Answers
  <2>3. CASE getRecommend
    <3>1. rec.at = "answer" /\ Still /\ rec # Idle
      BY <2>3 DEF getRecommend, Still, Idle
    <3>2. CASE rec.since = changes
      <4>1. Unchanged /\ ~Gathering
        BY <3>1, <3>2 DEF Unchanged, Gathering
      <4>2. PICK c \in BOOLEAN : rec.r.category = c /\ rec.result \in Gathered(c)
        BY <4>1 DEF Paged, Whole, Done
      <4>3. PICK b : b = [category |-> c, result |-> rec.result]
        OBVIOUS
      <4>4. previous' = previous \cup {b} /\ b.category \in BOOLEAN /\ b.result \in Gathered(b.category)
        BY <2>3, <3>2, <4>2, <4>3 DEF getRecommend
      <4>5. \A p \in previous' : p.category \in BOOLEAN /\ p.result \in Gathered(p.category)
        BY <4>4 DEF Paged, Answers
      <4>6. \A p \in previous' : Gathered(p.category)' = Gathered(p.category)
        BY <3>1, SamePassed DEF Still
      <4>7. QED
        BY <4>5, <4>6 DEF Answers
    <3>3. CASE rec.since # changes
      <4>1. previous' = previous
        BY <2>3, <3>3 DEF getRecommend
      <4>2. QED
        BY <3>1, <4>1, AnswersStay DEF Paged, Still
    <3>4. QED
      BY <3>2, <3>3
  <2>4. CASE ReadCached \/ RecommendSequential \/ Fallback \/ Recommended \/ Respond \/ RecFails
    <3>1. previous' = previous /\ Still
      BY <2>4 DEF ReadCached, RecommendSequential, Fallback, Recommended, Respond, RecFails, Still
    <3>2. QED
      BY <2>1, <3>1
  <2>5. CASE \E n \in Ns, o \in Offsets, c \in BOOLEAN, d \in {{}, {0}, {1}} : NewRecommender(n, o, c, d)
    <3>1. previous' = previous /\ Still
      BY <2>5 DEF NewRecommender, Still
    <3>2. QED
      BY <2>1, <3>1
  <2>6. CASE WriteBack \/ Change
    BY <2>2, <2>6 DEF WriteBack, Change
  <2>7. QED
    BY <2>3, <2>4, <2>5, <2>6 DEF RecNext
<1>2. QED
  BY <1>1, UnchangedStep DEF Paged

RecIInv == RecTypes /\ Fetching /\ Again /\ Paged

LEMMA RecInductive == RecIInv /\ [RecNext]_recVars => RecIInv'
<1>1. SUFFICES ASSUME RecIInv, [RecNext]_recVars PROVE RecIInv'
  OBVIOUS
<1>2. RecTypes /\ Fetching /\ Again /\ Paged
  BY <1>1 DEF RecIInv
<1>3. CASE RecNext
  <2>1. RecTypes' /\ Fetching'
    <3>1. CASE \E n \in Ns, o \in Offsets, c \in BOOLEAN, d \in {{}, {0}, {1}} : NewRecommender(n, o, c, d)
      <4>1. PICK n \in Nat, o \in Nat, c \in BOOLEAN, d \in {{}, {0}, {1}} : NewRecommender(n, o, c, d)
        BY <3>1, RecAssumption
      <4>2. QED
        BY <1>2, <4>1, NewRecommenderTypes
    <3>2. CASE ReadCached
      BY <1>2, <3>2, ReadCachedTypes
    <3>3. CASE RecommendSequential
      BY <1>2, <3>3, SequentialTypes
    <3>4. CASE Fallback
      BY <1>2, <3>4, FallbackTypes
    <3>5. CASE Recommended
      BY <1>2, <3>5, RecommendedTypes
    <3>6. CASE getRecommend
      BY <1>2, <3>6, getRecommendTypes
    <3>7. CASE WriteBack
      BY <1>2, <3>7, WriteBackTypes
    <3>8. CASE Respond \/ RecFails
      BY <1>2, <3>8, EndTypes
    <3>9. CASE Change
      BY <1>2, <3>9, ChangeTypes
    <3>10. QED
      BY <1>3, <3>1, <3>2, <3>3, <3>4, <3>5, <3>6, <3>7, <3>8, <3>9 DEF RecNext
  <2>2. Again'
    BY <1>2, <1>3, AgainStep
  <2>3. Paged'
    BY <1>2, <1>3, PagedStep
  <2>4. QED
    BY <2>1, <2>2, <2>3 DEF RecIInv
<1>4. CASE UNCHANGED recVars
  <2>1. /\ settings' = settings /\ known' = known /\ state' = state /\ history' = history /\ clock' = clock /\ lists' = lists
        /\ rec' = rec /\ served' = served /\ previous' = previous /\ changes' = changes
    BY <1>4 DEF recVars
  <2>2. RecTypes'
    BY <1>2, <2>1 DEF RecTypes
  <2>3. Still
    BY <2>1 DEF Still
  <2>4. Page' = Page /\ Stage' = Stage /\ Gathering' = Gathering /\ IsRequest' = IsRequest
    BY <2>1 DEF Page, Stage, Gathering, IsRequest
  <2>5. Excluded(rec.r.feedback)' = Excluded(rec.r.feedback)
    BY <2>1 DEF Excluded
  <2>6. Once(rec.result, rec.r)' <=> Once(rec.result, rec.r)
    BY <2>1, <2>5 DEF Once
  <2>7. Fetching'
    BY <1>2, <2>1, <2>4, <2>6, SameStages DEF Fetching
  <2>8. \A i : Fed(i)' = Fed(i) /\ Gone(i)' = Gone(i)
    BY <2>1 DEF Fed, Gone
  <2>9. Excluding' = Excluding
    BY <2>1, <2>5, <2>8 DEF Excluding
  <2>10. Feeding' = Feeding
    <3>1. \A k \in DOMAIN Page : Fed(Page[k].item)' = Fed(Page[k].item)
      BY <2>1, <2>4 DEF Fed, Gone
    <3>2. QED
      BY <2>1, <2>4, <3>1 DEF Feeding
  <2>11. Again'
    BY <1>2, <2>1, <2>8, <2>9, <2>10 DEF Again
  <2>12. \A c : Passed(Begin(c))' = Passed(Begin(c)) /\ Gathered(c)' = Gathered(c)
    BY <2>1, SamePassed
  <2>13. Whole' = Whole /\ Done' = Done /\ Unchanged' = Unchanged
    BY <2>1, <2>4, <2>12 DEF Whole, Done, Unchanged
  <2>14. Answers'
    BY <1>2, <2>1, AnswersStay DEF Paged
  <2>15. QED
    BY <1>2, <2>2, <2>7, <2>11, <2>13, <2>14 DEF RecIInv, Paged
<1>5. QED
  BY <1>1, <1>3, <1>4

LEMMA RecStarts == RecInit => RecIInv
<1>1. SUFFICES ASSUME RecInit PROVE RecIInv
  OBVIOUS
<1>2. rec = Idle /\ served = {} /\ previous = {} /\ rec.at = "idle"
  BY <1>1 DEF RecInit, Idle
<1>3. history \in Reads /\ state \in [Catalogue -> {"shown", "hidden", "gone"}]
  BY <1>1, RecAssumption DEF RecInit, Reads
<1>4. RecTypes
  BY <1>1, <1>3 DEF RecInit, RecTypes
<1>5. Fetching /\ Again /\ Paged
  BY <1>2 DEF Fetching, Again, Excluding, Feeding, Paged, Unchanged, Answers
<1>6. QED
  BY <1>4, <1>5 DEF RecIInv

LEMMA RecImplies == RecIInv => ServedOnce
<1>1. SUFFICES ASSUME RecIInv PROVE DeliveredOnce /\ NeverServedAgain /\ PagesOfOneList
  BY DEF ServedOnce
<1>2. RecTypes /\ Fetching /\ Again /\ Paged
  BY <1>1 DEF RecIInv
<1>3. Answered => rec # Idle /\ IsRequest /\ Once(rec.result, rec.r)
  BY <1>2, Busy DEF Answered, Idle
<1>4. DeliveredOnce
  BY <1>3 DEF DeliveredOnce, Once
<1>5. NeverServedAgain
  <2>1. SUFFICES ASSUME Answered, ~settings.replacement, known, NEW i \in Delivered \cap rec.before PROVE state[i] = "gone"
    BY DEF NeverServedAgain
  <2>2. PICK k \in DOMAIN rec.result : rec.result[k].item = i
    BY <2>1 DEF Delivered
  <2>3. i \notin Excluded(rec.r.feedback)
    BY <1>3, <2>1, <2>2 DEF Once
  <2>4. Gone(i) \/ i \in Excluded(rec.r.feedback)
    BY <1>2, <1>3, <2>1 DEF Again, Excluding
  <2>5. QED
    BY <2>3, <2>4 DEF Gone
<1>6. PagesOfOneList
  <2>1. SUFFICES ASSUME NEW a \in previous, NEW b \in previous, a.category = b.category
                 PROVE  IsPrefix(a.result, b.result) \/ IsPrefix(b.result, a.result)
    BY DEF PagesOfOneList
  <2>2. a.category \in BOOLEAN /\ a.result \in Gathered(a.category) /\ b.result \in Gathered(a.category)
    BY <1>2, <2>1 DEF Paged, Answers
  <2>3. QED
    BY <1>2, <2>2, GatheredInLine DEF RecTypes
<1>7. QED
  BY <1>4, <1>5, <1>6

(***************************************************************************)
(* What getRecommend serves is served once and from one list: no item is   *)
(* in an answer twice, what a caller wrote back is not shown again, and    *)
(* while nothing changes the pages of two requests are cut from the same   *)
(* list; for any catalogue, recommenders, cached lists, limits and         *)
(* offsets, and any number of requests and of changes between their reads. *)
(* ByWeight orders equal scores always alike; where sums tie the code does *)
(* not, and its pages need not be of one list.                             *)
(***************************************************************************)
THEOREM ServedOnceAlways == RecSpec => []ServedOnce
BY RecStarts, RecInductive, RecImplies, PTL DEF RecSpec
=============================================================================
