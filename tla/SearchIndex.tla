---------------------------- MODULE SearchIndex ----------------------------
(***************************************************************************)
(* The full text index of the items and its reconciliation with the        *)
(* configured columns (Reconcile of storage/data/sql.go and mongodb.go).   *)
(* Every load of the data set starts a Reconcile in the background (at     *)
(* most one at a time, the reconciling flag), while clients write items;   *)
(* the master may crash in the middle and be restarted with other columns. *)
(*                                                                         *)
(* SQLite has no index of its own: a table with the text of every item is  *)
(* kept up to date by three triggers, and Reconcile builds both in several *)
(* statements.  The other stores maintain their index themselves, and only *)
(* the columns it covers matter.  An index that is there already is known  *)
(* by its text, which the server gives back; of texts it is only told      *)
(* which of them are equal but for capitals (Folded) and which occur in    *)
(* which (Mentions).  A column of OddColumns is understood by MongoDB      *)
(* alone.  An item is its version; MaxVersion bounds the writes of an item, *)
(* MaxCrashes the crashes, failures and changes of configuration.          *)
(***************************************************************************)
EXTENDS Naturals, FiniteSets

CONSTANTS
  IndexDrivers, IndexedIds, Columns, OddColumns, MaxVersion, MaxCrashes,
  Folded,   \* [Columns -> names]: the column in lower case
  Mentions  \* Mentions[store][d]: the columns whose text occurs in that of d, as the store gives it back

(* The keys of a text index as MongoDB describes it: none is a field. *)
TextKeys == {"_fts", "_ftsx"}
ASSUME KeysAreNoColumns == TextKeys \cap Columns = {}

VARIABLES driver, wanted, version, doc, triggers, index, query, step, settled, missed, crashes

indexVars == <<driver, wanted, version, doc, triggers, index, query, step, settled, missed, crashes>>

Triggers == {"insert", "update", "delete"}
NoIndex == {}
NoTriggers == [t \in {} |-> {}]
NotStored == 0
Stored == {i \in IndexedIds : version[i] # NotStored}

(* The columns a Reconcile indexes: those whose name the store understands. *)
postgresSearchColumn(c) == c \notin OddColumns
mysqlSearchColumn(c) == c \notin OddColumns
sqliteSearchColumn(c) == c \notin OddColumns
mongoSearchColumnToField(c) == TRUE
Searched == {c \in wanted : CASE driver = "postgres" -> postgresSearchColumn(c)
                               [] driver = "mysql" -> mysqlSearchColumn(c)
                               [] driver = "sqlite" -> sqliteSearchColumn(c)
                               [] driver = "mongo" -> mongoSearchColumnToField(c)}

(* index is {} or {the columns covered}; doc is the SQLite table, a set of  *)
(* <<item, version, columns>>; triggers maps a trigger to its columns.      *)
IndexInit ==
  /\ driver \in IndexDrivers
  /\ wanted \in SUBSET Columns
  /\ version \in [IndexedIds -> {NotStored, 1}]
  /\ doc = {} /\ triggers = NoTriggers
  /\ index = NoIndex /\ query = {}
  /\ step = "idle" /\ settled = FALSE
  /\ missed = {}
  /\ crashes = 0

-----------------------------------------------------------------------------
(* What counts as the same index.  SQLite compares the statements of the    *)
(* three triggers, in lower case (as for Folded, columns that differ in     *)
(* capitals are taken to be sorted alike); MySQL and PostgreSQL only ask    *)
(* whether the text of every wanted column occurs in that of the index:     *)
(* "comment" occurs in the text of the label "comment"; MongoDB compares    *)
(* the wanted fields with the keys it describes the index by.               *)
SameText(A, B) ==
  \A f \in {Folded[c] : c \in A \cup B} :
    Cardinality({c \in A : Folded[c] = f}) = Cardinality({c \in B : Folded[c] = f})
searchExpressionContainsAll(C) == \A c \in Searched : \E d \in C : c \in Mentions[driver][d]

sqliteSearchIndexMatches == \A t \in Triggers : t \in DOMAIN triggers /\ SameText(triggers[t], Searched)
mysqlSearchIndexMatches == \E C \in index : searchExpressionContainsAll(C)
postgresSearchIndexMatches == \E C \in index : searchExpressionContainsAll(C)
mongoSearchIndexKeysMatch == index # NoIndex /\ TextKeys = Searched

Matches == CASE driver = "sqlite" -> sqliteSearchIndexMatches
             [] driver = "mysql" -> mysqlSearchIndexMatches
             [] driver = "postgres" -> postgresSearchIndexMatches
             [] driver = "mongo" -> mongoSearchIndexKeysMatch

Steps == [sqlite |-> "dropTriggers", mysql |-> "dropIndex", postgres |-> "dropIndex", mongo |-> "dropIndex"]

(* Nothing to search, or nothing the store understands: nothing is touched. *)
ReconcileStart ==
  /\ step = "idle" /\ Searched # {}
  /\ step' = IF Matches THEN "idle" ELSE Steps[driver]
  /\ settled' = Matches
  /\ query' = IF Matches /\ driver = "postgres" THEN Searched ELSE query
  /\ UNCHANGED <<driver, wanted, version, doc, triggers, index, missed, crashes>>

Goto(s) == step' = s /\ settled' = (s = "idle") /\ UNCHANGED <<driver, wanted, version, crashes>>

(* The old index is dropped (for MySQL the index and then its column), the  *)
(* new one built by the server over all items, and kept by it.              *)
DropIndex ==
  /\ step = "dropIndex"
  /\ index' = NoIndex
  /\ Goto("createIndex") /\ UNCHANGED <<doc, triggers, query, missed>>
CreateIndex ==
  /\ step = "createIndex"
  /\ index' = {Searched}
  /\ query' = IF driver = "postgres" THEN Searched ELSE query
  /\ Goto("idle") /\ UNCHANGED <<doc, triggers, missed>>

DropTriggers ==
  /\ step = "dropTriggers"
  /\ \E t \in DOMAIN triggers :
       triggers' = [u \in DOMAIN triggers \ {t} |-> triggers[u]]
  /\ Goto("dropTriggers") /\ UNCHANGED <<doc, index, query, missed>>
DropTable ==
  /\ step = "dropTriggers" /\ DOMAIN triggers = {}
  /\ doc' = {}
  /\ Goto("copy") /\ UNCHANGED <<triggers, index, query, missed>>
CopyItems ==
  /\ step = "copy"
  /\ doc' = {<<i, version[i], Searched>> : i \in Stored}
  /\ missed' = {}
  /\ Goto("insert") /\ UNCHANGED <<triggers, index, query>>
CreateTrigger(t, after) ==
  /\ step = t
  /\ triggers' = [u \in DOMAIN triggers \cup {t} |-> IF u = t THEN Searched ELSE triggers[u]]
  /\ Goto(after) /\ UNCHANGED <<doc, index, query, missed>>

(* A write of an item and what the trigger of its kind does.  An item that  *)
(* is written when a trigger is still missing is remembered in missed.      *)
Building == step \in Triggers
Fire(t, d) == IF t \in DOMAIN triggers THEN d ELSE doc
Wrote(t, i) ==
  /\ missed' = IF Building /\ t \notin DOMAIN triggers THEN missed \cup {i} ELSE missed
  /\ UNCHANGED <<driver, wanted, triggers, index, query, step, settled, crashes>>

InsertItem(i) ==
  /\ version[i] = NotStored
  /\ version' = [version EXCEPT ![i] = 1]
  /\ doc' = Fire("insert", doc \cup {<<i, 1, triggers["insert"]>>})
  /\ Wrote("insert", i)
\* Mutant of UpdateItem: the trigger leaves the row with the old text.
UpdateItemAdding(i) ==
  /\ i \in Stored /\ version[i] < MaxVersion
  /\ version' = [version EXCEPT ![i] = @ + 1]
  /\ doc' = Fire("update", doc \cup {<<i, version[i] + 1, triggers["update"]>>})
  /\ Wrote("update", i)
UpdateItem(i) ==
  /\ i \in Stored /\ version[i] < MaxVersion
  /\ version' = [version EXCEPT ![i] = @ + 1]
  /\ doc' = Fire("update", {r \in doc : r[1] # i} \cup {<<i, version[i] + 1, triggers["update"]>>})
  /\ Wrote("update", i)
(* The trigger deletes the row with the text of the item as it was. *)
DeleteItem(i) ==
  /\ i \in Stored
  /\ version' = [version EXCEPT ![i] = NotStored]
  /\ doc' = Fire("delete", doc \ {<<i, version[i], triggers["delete"]>>})
  /\ Wrote("delete", i)

(* A statement fails: Reconcile gives up and the error is logged. *)
ReconcileFails ==
  /\ step # "idle" /\ crashes < MaxCrashes
  /\ crashes' = crashes + 1
  /\ step' = "idle"
  /\ UNCHANGED <<driver, wanted, version, doc, triggers, index, query, settled, missed>>

(* The master crashes and comes back with a configuration of its own. *)
MasterCrash ==
  /\ crashes < MaxCrashes
  /\ crashes' = crashes + 1
  /\ wanted' \in SUBSET Columns
  /\ step' = "idle" /\ settled' = FALSE
  /\ query' = {}
  /\ UNCHANGED <<driver, version, doc, triggers, index, missed>>

(* The configuration is changed through the dashboard.  A Reconcile under   *)
(* way works on a copy of the columns: the change takes effect after it.    *)
Configure ==
  /\ step = "idle" /\ crashes < MaxCrashes
  /\ crashes' = crashes + 1
  /\ wanted' \in SUBSET Columns
  /\ settled' = FALSE
  /\ UNCHANGED <<driver, version, doc, triggers, index, query, step, missed>>

IndexNext ==
  \/ ReconcileStart \/ DropIndex \/ CreateIndex
  \/ DropTriggers \/ DropTable \/ CopyItems
  \/ CreateTrigger("insert", "update") \/ CreateTrigger("update", "delete") \/ CreateTrigger("delete", "idle")
  \/ \E i \in IndexedIds : InsertItem(i) \/ UpdateItem(i) \/ DeleteItem(i)
  \/ ReconcileFails \/ MasterCrash \/ Configure

IndexSpec == IndexInit /\ [][IndexNext]_indexVars

-----------------------------------------------------------------------------
(* A search joins the table of texts with the items. *)
SQLSearchItems == {r \in doc : r[1] \in Stored}

(* Once a Reconcile of SQLite has ended, a search finds every item exactly  *)
(* by its present text in the columns wanted, up to capitals in the name of *)
(* a label, and nothing else, whatever crashes and abandoned                *)
(* reconciliations went before.  The exception are items written while a    *)
(* reconciliation had copied the items and not yet made the trigger for     *)
(* that write; only the next change of the columns mends them.              *)
SearchFindsPresent ==
  driver = "sqlite" /\ settled =>
    \E C \in SUBSET Columns :
      /\ SameText(C, Searched)
      /\ {r \in SQLSearchItems : r[1] \notin missed} = {<<i, version[i], C>> : i \in Stored \ missed}

(* Once a Reconcile has ended, PostgreSQL searches exactly the wanted       *)
(* columns, MongoDB has an index of just these, and MySQL one that covers   *)
(* every wanted column unless a column that is covered mentions its text.   *)
SearchCoversWanted ==
  settled =>
    /\ driver = "mysql" =>
         \E C \in index : \A c \in Searched : c \in C \/ \E d \in C : c \in Mentions["mysql"][d]
    /\ driver = "mongo" => index = {Searched}
    /\ driver = "postgres" => query = Searched

(* Both: after a reconciliation a search finds what it should. *)
SearchIsCurrent == SearchFindsPresent /\ SearchCoversWanted

(* "Item fields to index for search" (config/config.toml): the index MySQL  *)
(* searches covers every column of the configuration.                      *)
WantedAreIndexed ==
  driver = "mysql" /\ settled => \E C \in index : Searched \subseteq C
=============================================================================
