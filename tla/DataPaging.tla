----------------------------- MODULE DataPaging -----------------------------
(***************************************************************************)
(* Reading a table of the data store page by page: GetItems, GetUsers and  *)
(* GetFeedback of the SQL stores and of MongoDB, as a client of the REST   *)
(* API calls them, each time with the cursor of the page before, while     *)
(* other clients insert and delete rows.                                   *)
(*                                                                         *)
(* A row is its rank in the order of the primary key.  The cursor of a SQL *)
(* store is the first row of the next page, that of MongoDB the last row   *)
(* of this page; 0 is the empty cursor.  Future are the rows that          *)
(* GetFeedback filters out, dated after now.  A page is the set of its     *)
(* rows.  MaxRowWrites bounds the concurrent writes.                       *)
(***************************************************************************)
EXTENDS Naturals, Sequences, FiniteSets

CONSTANTS NRows, PageSize, Future, MaxRowWrites

\* A page has room for a row.
ASSUME PagingAssumption == NRows \in Nat /\ PageSize \in Nat \ {0}

VARIABLES store, table, stored, stayed, cursor, answered, over, rowWrites

pagingVars == <<store, table, stored, stayed, cursor, answered, over, rowWrites>>

Ranks == 1 .. NRows
FirstN(S, n) == {r \in S : Cardinality({q \in S : q < r}) < n}
LastOf(p) == CHOOSE r \in p : \A q \in p : q <= r

PagingInit ==
  /\ store \in {"sql", "mongo"}
  /\ table \in {"items", "users", "feedback"}
  /\ stored \in SUBSET Ranks
  /\ stayed = stored
  /\ cursor = 0
  /\ answered = <<>>
  /\ over = FALSE
  /\ rowWrites = 0

\* Mutant of SQLPage: the cursor is the last row of the page.
SQLPageInclusive(S) ==
  LET p == FirstN({r \in S : cursor # 0 => r >= cursor}, PageSize + 1)
  IN IF Cardinality(p) = PageSize + 1 THEN [rows |-> p \ {LastOf(p)}, next |-> LastOf(p \ {LastOf(p)})]
     ELSE [rows |-> p, next |-> 0]
(* One row more than asked for is read: it becomes the cursor. *)
SQLPage(S) ==
  LET p == FirstN({r \in S : cursor # 0 => r >= cursor}, PageSize + 1)
  IN IF Cardinality(p) = PageSize + 1 THEN [rows |-> p \ {LastOf(p)}, next |-> LastOf(p)]
     ELSE [rows |-> p, next |-> 0]
(* A full page may have been the last one: the next is then empty. *)
MongoPage(S) ==
  LET p == FirstN({r \in S : r > cursor}, PageSize)
  IN [rows |-> p, next |-> IF Cardinality(p) = PageSize THEN LastOf(p) ELSE 0]

SQLGetItems == SQLPage(stored)
SQLGetUsers == SQLPage(stored)
SQLGetFeedback == SQLPage(stored \ Future)
MongoGetItems == MongoPage(stored)
MongoGetUsers == MongoPage(stored)
MongoGetFeedback == MongoPage(stored \ Future)

Page == CASE store = "sql" /\ table = "items" -> SQLGetItems
          [] store = "sql" /\ table = "users" -> SQLGetUsers
          [] store = "sql" /\ table = "feedback" -> SQLGetFeedback
          [] store = "mongo" /\ table = "items" -> MongoGetItems
          [] store = "mongo" /\ table = "users" -> MongoGetUsers
          [] store = "mongo" /\ table = "feedback" -> MongoGetFeedback

(* The handlers return the rows and the cursor; an empty one ends it. *)
GetPage ==
  /\ ~over
  /\ answered' = Append(answered, Page.rows)
  /\ cursor' = Page.next
  /\ over' = (Page.next = 0)
  /\ UNCHANGED <<store, table, stored, stayed, rowWrites>>

InsertRow(r) ==
  /\ ~over /\ rowWrites < MaxRowWrites /\ r \notin stored
  /\ stored' = stored \cup {r}
  /\ rowWrites' = rowWrites + 1
  /\ UNCHANGED <<store, table, stayed, cursor, answered, over>>

DeleteRow(r) ==
  /\ ~over /\ rowWrites < MaxRowWrites /\ r \in stored
  /\ stored' = stored \ {r}
  /\ stayed' = stayed \ {r}
  /\ rowWrites' = rowWrites + 1
  /\ UNCHANGED <<store, table, cursor, answered, over>>

PagingNext == GetPage \/ \E r \in Ranks : InsertRow(r) \/ DeleteRow(r)
PagingSpec == PagingInit /\ [][PagingNext]_pagingVars

-----------------------------------------------------------------------------
(* No row is answered twice, whatever is written between the pages, and at  *)
(* the end every row that was there all the time has been answered.         *)
PagesCoverOnce ==
  /\ \A j, k \in DOMAIN answered : j # k => answered[j] \cap answered[k] = {}
  /\ over => stayed \ (IF table = "feedback" THEN Future ELSE {}) \subseteq UNION {answered[k] : k \in DOMAIN answered}
=============================================================================
