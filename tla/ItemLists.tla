------------------------------ MODULE ItemLists ------------------------------
(***************************************************************************)
(* The lists of items in the cache and the writes that should be visible   *)
(* in them.  The master rebuilds every non-personalised list from the      *)
(* items it reads (loadDataset of master/tasks.go, NonPersonalized of      *)
(* logics); meanwhile the servers insert, patch and delete items           *)
(* (server/rest.go), each with one call on the data store and one or two   *)
(* on the cache, in an order that differs from handler to handler.  Any    *)
(* call may fail and end its handler.                                      *)
(*                                                                         *)
(* An item is [hidden, cats]; its score is its id.  HeapSize is the size   *)
(* of the heap of a category, MaxLoads bounds the loads, MaxWrites the     *)
(* requests.                                                               *)
(***************************************************************************)
EXTENDS Naturals, FiniteSets, FiniteSetsExt

CONSTANTS ItemIds, Categories, Lists, Writers, HeapSize, MaxLoads, MaxWrites

VARIABLES item, docs, writer, writes, load, loads, blurred, touched

listVars == <<item, docs, writer, writes, load, loads, blurred, touched>>

Absent == [hidden |-> TRUE, cats |-> {"absent"}]
Values == [hidden : BOOLEAN, cats : SUBSET Categories]
Free == [op |-> "none", id |-> 0, at |-> "", value |-> Absent, sets |-> {}]
withWildCard(C) == C \cup {""}

NoLoad == [at |-> "idle", read |-> <<>>, todo |-> {}, list |-> "", kept |-> FALSE]

ListInit ==
  /\ item \in [ItemIds -> {Absent} \cup Values]
  /\ docs = [l \in Lists |-> {}]
  /\ writer = [w \in Writers |-> Free] /\ writes = 0
  /\ load = NoLoad /\ loads = 0
  /\ blurred = [i \in ItemIds |-> FALSE]
  /\ touched = [i \in ItemIds |-> FALSE]

Writing(i) == \E w \in Writers : writer[w].op # "none" /\ writer[w].id = i

-----------------------------------------------------------------------------
(* UpdateScores and DeleteScores of cache.ItemCache by id. *)
Patch(i, F(_)) == docs' = [l \in Lists |-> {IF d.id = i THEN F(d) ELSE d : d \in docs[l]}]

Go(w, at) == writer' = [writer EXCEPT ![w].at = at]
End(w) == writer' = [writer EXCEPT ![w] = Free]
At(w, op, at) == writer[w].op = op /\ writer[w].at = at

(* A request arrives.  What it sets is known, and a patch has a value for   *)
(* nothing else; for a category the value is computed when the item has     *)
(* been read.                                                               *)
Arrive(w) ==
  /\ writer[w] = Free /\ writes < MaxWrites /\ writes' = writes + 1
  /\ \E i \in ItemIds :
       /\ \E v \in Values :
            \/ writer' = [writer EXCEPT ![w] = [op |-> "insert", id |-> i, at |-> "cache", value |-> v, sets |-> {"hidden", "cats"}]]
            \/ \E s \in SUBSET {"hidden", "cats"} :
                 /\ "hidden" \notin s => ~v.hidden
                 /\ "cats" \notin s => v.cats = {}
                 /\ writer' = [writer EXCEPT ![w] = [op |-> "modify", id |-> i, at |-> "hide", value |-> v, sets |-> s]]
            \/ \E op \in {"insertCategory", "deleteCategory"} :
                 v.cats # {} /\ ~v.hidden
                   /\ writer' = [writer EXCEPT ![w] = [op |-> op, id |-> i, at |-> "get", value |-> v, sets |-> {"cats"}]]
            \/ writer' = [writer EXCEPT ![w] = [op |-> "delete", id |-> i, at |-> "data", value |-> Absent, sets |-> {}]]
       /\ touched' = [touched EXCEPT ![i] = TRUE]
       /\ blurred' = [blurred EXCEPT ![i] = @ \/ Writing(i)]
  /\ UNCHANGED <<item, docs, load, loads>>

(* A call fails: the handler answers with the error and leaves what it did. *)
Fail(w) ==
  /\ writer[w] # Free /\ End(w)
  /\ blurred' = [blurred EXCEPT ![writer[w].id] = TRUE]
  /\ UNCHANGED <<item, docs, writes, load, loads, touched>>

Store(w, v) == item' = [item EXCEPT ![writer[w].id] = v]

(* batchInsertItems: the cache first. *)
insertCache(w) ==
  /\ At(w, "insert", "cache")
  /\ Patch(writer[w].id, LAMBDA d : [d EXCEPT !.cats = withWildCard(writer[w].value.cats), !.hidden = writer[w].value.hidden])
  /\ Go(w, "data")
  /\ UNCHANGED <<item, writes, load, loads, blurred, touched>>

batchInsertItems(w) ==
  /\ At(w, "insert", "data") /\ Store(w, writer[w].value) /\ End(w)
  /\ UNCHANGED <<docs, writes, load, loads, blurred, touched>>

(* modifyItem: hidden, then categories, then the data store, where a patch  *)
(* of an absent item changes nothing.                                       *)
modifyHidden(w) ==
  /\ At(w, "modify", "hide") /\ Go(w, "cats")
  /\ IF "hidden" \in writer[w].sets THEN Patch(writer[w].id, LAMBDA d : [d EXCEPT !.hidden = writer[w].value.hidden])
     ELSE UNCHANGED docs
  /\ UNCHANGED <<item, writes, load, loads, blurred, touched>>

modifyCategories(w) ==
  /\ At(w, "modify", "cats") /\ Go(w, "data")
  /\ IF "cats" \in writer[w].sets THEN Patch(writer[w].id, LAMBDA d : [d EXCEPT !.cats = withWildCard(writer[w].value.cats)])
     ELSE UNCHANGED docs
  /\ UNCHANGED <<item, writes, load, loads, blurred, touched>>

modifyItem(w) ==
  /\ At(w, "modify", "data") /\ End(w)
  /\ LET i == writer[w].id IN
     item' = IF item[i] = Absent THEN item
             ELSE [item EXCEPT ![i] = [hidden |-> IF "hidden" \in writer[w].sets THEN writer[w].value.hidden ELSE @.hidden,
                                       cats |-> IF "cats" \in writer[w].sets THEN writer[w].value.cats ELSE @.cats]]
  /\ UNCHANGED <<docs, writes, load, loads, blurred, touched>>

(* deleteItem: the data store first. *)
deleteItem(w) ==
  /\ At(w, "delete", "data") /\ Store(w, Absent) /\ Go(w, "cache")
  /\ UNCHANGED <<docs, writes, load, loads, blurred, touched>>

deleteScores(w) ==
  /\ At(w, "delete", "cache") /\ End(w)
  /\ docs' = [l \in Lists |-> {d \in docs[l] : d.id # writer[w].id}]
  /\ UNCHANGED <<item, writes, load, loads, blurred, touched>>

(* insertItemCategory and deleteItemCategory read the item and write all of *)
(* it back; the one writes the data store first, the other the cache.       *)
getItem(w) ==
  /\ writer[w].at = "get" /\ item[writer[w].id] # Absent
  /\ LET old == item[writer[w].id]
         new == IF writer[w].op = "insertCategory" THEN old.cats \cup writer[w].value.cats ELSE old.cats \ writer[w].value.cats
     IN writer' = [writer EXCEPT ![w].value = [old EXCEPT !.cats = new],
                                 ![w].at = IF writer[w].op = "insertCategory" THEN "data" ELSE "cache"]
  /\ UNCHANGED <<item, docs, writes, load, loads, blurred, touched>>

CategoryCache(w) == Patch(writer[w].id, LAMBDA d : [d EXCEPT !.cats = withWildCard(writer[w].value.cats)])

insertItemCategory(w) ==
  \/ /\ At(w, "insertCategory", "data") /\ Store(w, writer[w].value) /\ Go(w, "cache")
     /\ UNCHANGED <<docs, writes, load, loads, blurred, touched>>
  \/ /\ At(w, "insertCategory", "cache") /\ CategoryCache(w) /\ End(w)
     /\ UNCHANGED <<item, writes, load, loads, blurred, touched>>

deleteItemCategory(w) ==
  \/ /\ At(w, "deleteCategory", "cache") /\ CategoryCache(w) /\ Go(w, "data")
     /\ UNCHANGED <<item, writes, load, loads, blurred, touched>>
  \/ /\ At(w, "deleteCategory", "data") /\ Store(w, writer[w].value) /\ End(w)
     /\ UNCHANGED <<docs, writes, load, loads, blurred, touched>>

-----------------------------------------------------------------------------
(* A load: the items are streamed one after the other, its timestamp is the *)
(* moment it began.                                                         *)
LoadBegins ==
  /\ load = NoLoad /\ loads < MaxLoads /\ loads' = loads + 1
  /\ load' = [at |-> "read", read |-> <<>>, todo |-> Lists, list |-> "", kept |-> FALSE]
  /\ touched' = [i \in ItemIds |-> Writing(i)]
  /\ UNCHANGED <<item, docs, writer, writes, blurred>>

ReadItem ==
  /\ load.at = "read" /\ \E i \in ItemIds \ DOMAIN load.read :
       load' = [load EXCEPT !.read = [j \in DOMAIN @ \cup {i} |-> IF j = i THEN item[i] ELSE @[j]]]
  /\ UNCHANGED <<item, docs, writer, writes, loads, blurred, touched>>

(* Reading fails: no list is written.  Later errors are logged. *)
ReadFails ==
  /\ load.at = "read" /\ load.todo = Lists /\ load' = NoLoad
  /\ UNCHANGED <<item, docs, writer, writes, loads, blurred, touched>>

(* Push: hidden items are skipped. *)
Push(i) == load.read[i] # Absent /\ ~load.read[i].hidden

(* TopKFilter: the HeapSize best items of the heap of a category. *)
Heap(c) ==
  LET in == {i \in DOMAIN load.read : Push(i) /\ c \in withWildCard(load.read[i].cats)}
  IN {i \in in : Cardinality({j \in in : j > i}) < HeapSize}

(* PopAll: an item has the categories whose heap it is in. *)
PopAll ==
  LET cats(i) == {c \in withWildCard(Categories) : i \in Heap(c)}
  IN {[id |-> i, ts |-> loads, cats |-> cats(i), hidden |-> FALSE] : i \in {j \in DOMAIN load.read : cats(j) # {}}}

(* AddScores replaces the documents with the same id; it may fail, which is *)
(* logged.                                                                  *)
AddScores(l) ==
  /\ load.at = "read" /\ DOMAIN load.read = ItemIds /\ l \in load.todo
  /\ load' = [load EXCEPT !.at = "delete", !.list = l, !.todo = @ \ {l}]
  /\ \/ docs' = [docs EXCEPT ![l] = {d \in @ : \A p \in PopAll : p.id # d.id} \cup PopAll]
     \/ UNCHANGED docs
  /\ UNCHANGED <<item, writer, writes, loads, blurred, touched>>

\* Mutant of Outdated: the documents of the previous load are kept.
OutdatedTwice(d) == d.ts + 1 < loads
Outdated(d) == d.ts < loads

(* DeleteScores of the older documents of the list, which may fail; then    *)
(* the next list, or the end of the load.                                   *)
DeleteOutdated ==
  /\ load.at = "delete"
  /\ \E ok \in BOOLEAN :
       /\ docs' = IF ok THEN [docs EXCEPT ![load.list] = {d \in @ : ~Outdated(d)}] ELSE docs
       /\ IF load.todo # {} THEN /\ load' = [load EXCEPT !.at = "read", !.kept = @ \/ ~ok]
                                 /\ UNCHANGED <<blurred, touched>>
          ELSE /\ load' = NoLoad
               /\ blurred' = [i \in ItemIds |-> touched[i] \/ ((load.kept \/ ~ok) /\ blurred[i])]
               /\ touched' = [i \in ItemIds |-> FALSE]
  /\ UNCHANGED <<item, writer, writes, loads>>

Write(w) ==
  \/ Arrive(w) \/ Fail(w) \/ insertCache(w) \/ batchInsertItems(w)
  \/ modifyHidden(w) \/ modifyCategories(w) \/ modifyItem(w)
  \/ deleteItem(w) \/ deleteScores(w)
  \/ getItem(w) \/ insertItemCategory(w) \/ deleteItemCategory(w)

ListNext ==
  \/ \E w \in Writers : Write(w)
  \/ LoadBegins \/ ReadItem \/ ReadFails \/ DeleteOutdated
  \/ \E l \in Lists : AddScores(l)

ListSpec == ListInit /\ [][ListNext]_listVars

-----------------------------------------------------------------------------
(* A document of the cache that is shown is of an item that is in the data  *)
(* store, visible and in the categories of the document, unless a request   *)
(* for the item overlapped another one or a load, or failed half-way, since *)
(* the last whole load: nothing in the cache outlives that load.            *)
ShownIsVisible ==
  \A i \in ItemIds :
    ~blurred[i] /\ ~Writing(i) /\ (load = NoLoad \/ ~touched[i]) =>
      \A l \in Lists : \A d \in docs[l] :
        d.id = i /\ ~d.hidden => item[i] # Absent /\ ~item[i].hidden /\ d.cats \subseteq withWildCard(item[i].cats)
=============================================================================
