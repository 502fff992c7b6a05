----------------------------- MODULE RestWrites -----------------------------
(***************************************************************************)
(* The requests that write users, items and feedback (server/rest.go), as  *)
(* the steps of concurrent handlers: authorisation, validation, the quotas *)
(* against a count read from the data store, the write, and the time of    *)
(* the modification in the cache.  Every call may fail.  (What a worker    *)
(* makes of those times is the subject of RecommendRefresh; what becomes   *)
(* of the cached lists when items are written, of ItemLists.)              *)
(*                                                                         *)
(* A request is [op, users, items]; its form is what the checks before any *)
(* call see.  stamped is the set of users that have a LastModifyUserTime.  *)
(* A store counts its rows (SQLite), or gives an estimate that may be stale *)
(* or wrong: the status of a table (MySQL), the statistics of the planner  *)
(* (PostgreSQL), the metadata of a collection (MongoDB).                   *)
(***************************************************************************)
EXTENDS Naturals, FiniteSets, FiniteSetsExt

CONSTANTS UserIds, ItemIds, Handlers, MaxUsers, MaxItems, MaxBatch, MaxWrites,
          Estimates  \* what a store that estimates may give for a count

VARIABLES auto, exact, users, items, rated, stamped, handler, writes,
          short,     \* ghost: how much a count that let a request pass was below what was stored, at most
          uncounted  \* ghost: a count has failed

writeVars == <<auto, exact, users, items, rated, stamped, handler, writes, short, uncounted>>

Free == [op |-> "none", users |-> {}, items |-> {}, at |-> "free"]
Forms == {"unauthorized", "malformed", "oversized", "good"}

WriteInit ==
  /\ auto \in [user : BOOLEAN, item : BOOLEAN] /\ exact \in BOOLEAN
  /\ users = {} /\ items = {} /\ rated = {}
  /\ stamped = {}
  /\ handler = [h \in Handlers |-> Free] /\ writes = 0
  /\ short = [user |-> 0, item |-> 0] /\ uncounted = FALSE

Batches(S) == {b \in SUBSET S : b # {} /\ Cardinality(b) <= MaxBatch}

Bodies ==
  [op : {"insertUsers"}, users : Batches(UserIds), items : {{}}]
    \cup [op : {"modifyUser", "deleteUser"}, users : {{u} : u \in UserIds}, items : {{}}]
    \cup [op : {"insertItems"}, users : {{}}, items : Batches(ItemIds)]
    \cup [op : {"insertFeedback", "deleteFeedback"}, users : {{u} : u \in UserIds}, items : {{i} : i \in ItemIds}]

-----------------------------------------------------------------------------
(* AuthFilter, the parsing of the body, ValidateLabels and the size checks: *)
(* nothing has happened yet when one of them answers.                       *)
AuthFilter(form) == form # "unauthorized"
checkSizes(form) == form \notin {"malformed", "oversized"}

First(op) ==
  CASE op = "insertUsers" -> "countUsers"
    [] op = "insertItems" -> "countItems"
    [] op = "insertFeedback" -> IF auto.user THEN "countUsers" ELSE IF auto.item THEN "countItems" ELSE "data"
    [] OTHER -> "data"

Arrive(h) ==
  /\ handler[h].at = "free" /\ writes < MaxWrites /\ writes' = writes + 1
  /\ \E r \in Bodies, form \in Forms :
       handler' = IF AuthFilter(form) /\ checkSizes(form)
                  THEN [handler EXCEPT ![h] = [op |-> r.op, users |-> r.users, items |-> r.items, at |-> First(r.op)]]
                  ELSE handler
  /\ UNCHANGED <<auto, exact, users, items, rated, stamped, short, uncounted>>

Go(h, at) == handler' = [handler EXCEPT ![h].at = at]
Answer(h) == handler' = [handler EXCEPT ![h] = Free]

CountUsers == IF exact THEN {Cardinality(users)} ELSE Estimates
CountItems == IF exact THEN {Cardinality(items)} ELSE Estimates

(* A request passed with the count n where stored were many. *)
LetThrough(kind, n, many) ==
  short' = [short EXCEPT ![kind] = IF many > n + @ THEN many - n ELSE @]
AfterUsers(h) == IF handler[h].op = "insertFeedback" /\ auto.item THEN "countItems" ELSE "data"

\* Mutant of checkUserCountLimit: feedback inserts its users unchecked.
checkUserCountLimitOfUsers(h) ==
  /\ handler[h].at = "countUsers"
  /\ \E n \in CountUsers :
       IF handler[h].op = "insertUsers" /\ n + Cardinality(handler[h].users) > MaxUsers
         THEN Answer(h) /\ UNCHANGED short
         ELSE Go(h, AfterUsers(h)) /\ LetThrough("user", n, Cardinality(users))
  /\ UNCHANGED <<auto, exact, users, items, rated, stamped, writes, uncounted>>

(* The quota: what is counted and what comes, known or not, must fit.  (A   *)
(* limit of zero is none; the limits of this model are above zero.)         *)
checkUserCountLimit(h) ==
  /\ handler[h].at = "countUsers"
  /\ \E n \in CountUsers :
       IF n + Cardinality(handler[h].users) > MaxUsers
         THEN Answer(h) /\ UNCHANGED short
         ELSE Go(h, AfterUsers(h)) /\ LetThrough("user", n, Cardinality(users))
  /\ UNCHANGED <<auto, exact, users, items, rated, stamped, writes, uncounted>>

checkItemCountLimit(h) ==
  /\ handler[h].at = "countItems"
  /\ \E n \in CountItems :
       IF n + Cardinality(handler[h].items) > MaxItems
         THEN Answer(h) /\ UNCHANGED short
         ELSE Go(h, "data") /\ LetThrough("item", n, Cardinality(items))
  /\ UNCHANGED <<auto, exact, users, items, rated, stamped, writes, uncounted>>

(* A count that fails is logged and the check passes. *)
CountFails(h) ==
  /\ handler[h].at \in {"countUsers", "countItems"} /\ uncounted' = TRUE
  /\ Go(h, IF handler[h].at = "countUsers" THEN AfterUsers(h) ELSE "data")
  /\ UNCHANGED <<auto, exact, users, items, rated, stamped, writes, short>>

-----------------------------------------------------------------------------
(* The calls on the data store. *)
insertUsers(h) ==
  /\ handler[h].op = "insertUsers" /\ handler[h].at = "data"
  /\ users' = users \cup handler[h].users /\ Go(h, "cache")
  /\ UNCHANGED <<auto, exact, items, rated, stamped, writes, short, uncounted>>

modifyUser(h) ==
  /\ handler[h].op = "modifyUser" /\ handler[h].at = "data"
  /\ Go(h, "cache")
  /\ UNCHANGED <<auto, exact, users, items, rated, stamped, writes, short, uncounted>>

(* The recommendations of a deleted user and what was stored about its      *)
(* modifications stay where they are.                                       *)
deleteUser(h) ==
  /\ handler[h].op = "deleteUser" /\ handler[h].at = "data"
  /\ users' = users \ handler[h].users /\ rated' = {f \in rated : f[1] \notin handler[h].users}
  /\ Answer(h)
  /\ UNCHANGED <<auto, exact, items, stamped, writes, short, uncounted>>

batchInsertItems(h) ==
  /\ handler[h].op = "insertItems" /\ handler[h].at = "data"
  /\ items' = items \cup handler[h].items /\ Answer(h)
  /\ UNCHANGED <<auto, exact, users, rated, stamped, writes, short, uncounted>>

(* BatchInsertFeedback: feedback whose user or item is unknown and not      *)
(* inserted is dropped.                                                     *)
insertFeedback(h) ==
  /\ handler[h].op = "insertFeedback" /\ handler[h].at = "data"
  /\ users' = IF auto.user THEN users \cup handler[h].users ELSE users
  /\ items' = IF auto.item THEN items \cup handler[h].items ELSE items
  /\ rated' = rated \cup ((handler[h].users \cap users') \X (handler[h].items \cap items'))
  /\ Go(h, "cache")
  /\ UNCHANGED <<auto, exact, stamped, writes, short, uncounted>>

(* Deleted feedback leaves no modification time. *)
deleteUserItemFeedback(h) ==
  /\ handler[h].op = "deleteFeedback" /\ handler[h].at = "data"
  /\ rated' = rated \ (handler[h].users \X handler[h].items) /\ Answer(h)
  /\ UNCHANGED <<auto, exact, users, items, stamped, writes, short, uncounted>>

(* LastModifyUserTime, after the write; then the answer. *)
StampUsers(h) ==
  /\ handler[h].at = "cache"
  /\ stamped' = stamped \cup handler[h].users
  /\ Answer(h)
  /\ UNCHANGED <<auto, exact, users, items, rated, writes, short, uncounted>>

(* A call fails: an error is answered (modifyUser answers nothing when the  *)
(* cache fails: an empty success), with the data written and its time not.  *)
Fail(h) ==
  /\ handler[h].at \in {"data", "cache"} /\ Answer(h)
  /\ UNCHANGED <<auto, exact, users, items, rated, stamped, writes, short, uncounted>>

-----------------------------------------------------------------------------
WriteNext ==
  \/ \E h \in Handlers :
       \/ Arrive(h) \/ checkUserCountLimit(h) \/ checkItemCountLimit(h) \/ CountFails(h)
       \/ insertUsers(h) \/ modifyUser(h) \/ deleteUser(h) \/ batchInsertItems(h)
       \/ insertFeedback(h) \/ deleteUserItemFeedback(h) \/ StampUsers(h) \/ Fail(h)

WriteSpec == WriteInit /\ [][WriteNext]_writeVars

-----------------------------------------------------------------------------
(* The quotas bound the data: the count and the insert are two calls, so    *)
(* handlers that count at the same time all fit, but no more than one batch *)
(* of every other handler goes beyond the limit, whichever endpoints they   *)
(* serve.  A store that estimates lets in what its counts fell short of     *)
(* besides, at most; only a count that fails lifts the quota.               *)
QuotaBounds ==
  ~uncounted =>
    LET Excess(kind) == (IF exact THEN 0 ELSE short[kind]) + (Cardinality(Handlers) - 1) * MaxBatch IN
    /\ Cardinality(users) <= MaxUsers + Excess("user")
    /\ Cardinality(items) <= MaxItems + Excess("item")
=============================================================================
