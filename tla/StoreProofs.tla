----------------------------- MODULE StoreProofs -----------------------------
(***************************************************************************)
(* Proofs about what is kept beside the items in the stores: the index for *)
(* full text search, the vectors neighbours are searched in, the lists of  *)
(* scores in Redis, and the cached lists of items.                         *)
(***************************************************************************)
EXTENDS ItemLists, SearchIndex, VectorWriter, RedisScores, DataPaging, FiniteSetTheorems,
        WellFoundedInduction, TLAPS

-----------------------------------------------------------------------------
(* SearchIndex.                                                            *)

\* The stores that have an index.
KnownDrivers == IndexDrivers \subseteq {"sqlite", "mysql", "postgres", "mongo"}

\* The rows of the table with the texts of C, but for the items that were missed,
\* are those of the items.
TextsAre(C) ==
  {r \in doc : r[1] \notin missed} = {<<i, version[i], C>> : i \in Stored \ missed}

\* The triggers a reconciliation has made when it is at a step.
Made == [insert |-> {}, update |-> {"insert"}, delete |-> {"insert", "update"}]

\* SQLite: while the triggers are made they keep the texts of the columns
\* wanted, and all three together always keep the texts of some columns.
Kept3 ==
  /\ DOMAIN triggers \subseteq Triggers
  /\ step \in {"idle", "dropTriggers", "copy"} \cup Triggers
  /\ step = "copy" => DOMAIN triggers = {}
  /\ Building => /\ DOMAIN triggers = Made[step]
                 /\ \A t \in DOMAIN triggers : triggers[t] = Searched
                 /\ TextsAre(Searched)
  /\ DOMAIN triggers = Triggers => \E C \in SUBSET Columns : (\A t \in Triggers : triggers[t] = C) /\ TextsAre(C)

\* The index holds what is wanted, as far as its store can tell.
Holds ==
  /\ driver = "sqlite" => sqliteSearchIndexMatches
  /\ driver = "mysql" => \E C \in index : \A c \in Searched : c \in C \/ \E d \in C : c \in Mentions["mysql"][d]
  /\ driver = "mongo" => index = {Searched}
  /\ driver = "postgres" => query = Searched

\* What a reconciliation that has ended leaves behind.
Covered == settled => step = "idle" /\ Holds

IndexInv ==
  /\ driver \in {"sqlite", "mysql", "postgres", "mongo"}
  /\ wanted \in SUBSET Columns
  /\ version \in [IndexedIds -> Nat]
  /\ Covered
  /\ IF driver = "sqlite" THEN Kept3 ELSE step \in {"idle", "dropIndex", "createIndex"}

\* At the start there is neither table nor trigger nor index.
LEMMA IndexStart == ASSUME KnownDrivers PROVE IndexInit => IndexInv
<1> SUFFICES ASSUME IndexInit PROVE IndexInv
  OBVIOUS
<1>1. version \in [IndexedIds -> Nat]
  BY DEF IndexInit, NotStored
<1>2. DOMAIN triggers = {}
  BY DEF IndexInit, NoTriggers
<1>3. Kept3
  BY <1>2 DEF IndexInit, Kept3, Triggers, Building
<1>4. QED
  BY <1>1, <1>3 DEF KnownDrivers, IndexInit, IndexInv, Covered

\* A write of an item keeps the texts of every item that is not missed, if the
\* trigger of that kind is there and keeps the texts of C, or the item is missed.
LEMMA WriteKeeps ==
  ASSUME version \in [IndexedIds -> Nat], NEW C, TextsAre(C), NEW i \in IndexedIds,
         DOMAIN triggers \subseteq Triggers, \A t \in DOMAIN triggers : triggers[t] = C,
         Building \/ DOMAIN triggers = Triggers,
         InsertItem(i) \/ UpdateItem(i) \/ DeleteItem(i)
  PROVE  TextsAre(C)'
<1> DEFINE Rest(D) == {r \in D : r[1] # i /\ r[1] \notin missed}
<1>1. Rest(doc) = {<<j, version[j], C>> : j \in (Stored \ missed) \ {i}}
  BY DEF TextsAre
<1>2. /\ missed' \in {missed, missed \cup {i}}
      /\ \A j \in IndexedIds \ {i} : version'[j] = version[j]
      /\ Stored' \ {i} = Stored \ {i}
  BY DEF InsertItem, UpdateItem, DeleteItem, Wrote, Stored
<1>3. Rest(doc') = Rest(doc)
  BY DEF InsertItem, UpdateItem, DeleteItem, Fire
<1>4. {<<j, version'[j], C>> : j \in (Stored' \ missed) \ {i}} = {<<j, version[j], C>> : j \in (Stored \ missed) \ {i}}
  BY <1>2 DEF Stored
<1>5. CASE i \in missed'
  <2>1. {r \in doc' : r[1] \notin missed'} = Rest(doc')
    BY <1>2, <1>5
  <2>2. {<<j, version'[j], C>> : j \in Stored' \ missed'} = {<<j, version'[j], C>> : j \in (Stored' \ missed) \ {i}}
    BY <1>2, <1>5
  <2>3. QED
    BY <1>1, <1>3, <1>4, <2>1, <2>2 DEF TextsAre
<1>6. CASE i \notin missed'
  <2>1. missed' = missed /\ i \notin missed
    BY <1>2, <1>6
  <2>2. ASSUME NEW r PROVE r \in doc' /\ r[1] = i <=> i \in Stored' /\ r = <<i, version'[i], C>>
    <3>1. r \in doc /\ r[1] = i <=> i \in Stored /\ r = <<i, version[i], C>>
      BY <2>1 DEF TextsAre, Stored
    <3>2. CASE InsertItem(i)
      <4>1. "insert" \in DOMAIN triggers /\ i \notin Stored /\ version'[i] = 1 /\ i \in Stored'
        BY <3>2, <1>6 DEF InsertItem, Wrote, Stored, NotStored, Triggers
      <4>2. doc' = doc \cup {<<i, 1, C>>}
        BY <3>2, <4>1 DEF InsertItem, Fire
      <4>3. QED
        BY <3>1, <4>1, <4>2
    <3>3. CASE UpdateItem(i)
      <4>1. "update" \in DOMAIN triggers /\ version'[i] = version[i] + 1 /\ i \in Stored'
        BY <3>3, <1>6 DEF UpdateItem, Wrote, Stored, NotStored, Triggers
      <4>2. doc' = {q \in doc : q[1] # i} \cup {<<i, version[i] + 1, C>>}
        BY <3>3, <4>1 DEF UpdateItem, Fire
      <4>3. QED
        BY <4>1, <4>2
    <3>4. CASE DeleteItem(i)
      <4>1. "delete" \in DOMAIN triggers /\ i \in Stored /\ i \notin Stored'
        BY <3>4, <1>6 DEF DeleteItem, Wrote, Stored, NotStored, Triggers
      <4>2. doc' = doc \ {<<i, version[i], C>>}
        BY <3>4, <4>1 DEF DeleteItem, Fire
      <4>3. QED
        BY <3>1, <4>1, <4>2
    <3>5. QED
      BY <3>2, <3>3, <3>4
  <2>3. \A r : r \in {q \in doc' : q[1] \notin missed'} <=> r \in Rest(doc') \/ (r \in doc' /\ r[1] = i)
    BY <2>1
  <2>4. \A r : r \in {<<j, version'[j], C>> : j \in Stored' \ missed'}
               <=> r \in {<<j, version'[j], C>> : j \in (Stored' \ missed) \ {i}} \/ (i \in Stored' /\ r = <<i, version'[i], C>>)
    BY <2>1
  <2>5. QED
    BY <1>1, <1>3, <1>4, <2>2, <2>3, <2>4 DEF TextsAre
<1>7. QED
  BY <1>5, <1>6

\* The columns indexed are those of the configuration the store understands.
LEMMA SearchedStays == ASSUME UNCHANGED <<driver, wanted>> PROVE Searched' = Searched
  BY DEF Searched

\* A step of a reconciliation of SQLite keeps what holds of the triggers.
LEMMA SQLiteKeeps ==
  ASSUME version \in [IndexedIds -> Nat], wanted \in SUBSET Columns, Kept3,
         \/ DropTriggers \/ DropTable \/ CopyItems
         \/ CreateTrigger("insert", "update") \/ CreateTrigger("update", "delete") \/ CreateTrigger("delete", "idle")
  PROVE  Kept3'
<1>1. Searched' = Searched /\ version' = version
  BY SearchedStays DEF DropTriggers, DropTable, CopyItems, CreateTrigger, Goto
<1>2. Stored' = Stored
  BY <1>1 DEF Stored
<1>3. CASE DropTriggers
  <2>1. PICK t \in DOMAIN triggers : triggers' = [u \in DOMAIN triggers \ {t} |-> triggers[u]]
    BY <1>3 DEF DropTriggers
  <2>2. step' = "dropTriggers" /\ DOMAIN triggers' \subseteq Triggers /\ t \in Triggers /\ t \notin DOMAIN triggers'
    BY <1>3, <2>1 DEF DropTriggers, Goto, Kept3
  <2>3. QED
    BY <2>2 DEF Kept3, Building, Triggers
<1>4. CASE DropTable
  BY <1>4 DEF DropTable, Goto, Kept3, Building, Triggers
<1>5. CASE CopyItems
  <2>1. step' = "insert" /\ DOMAIN triggers' = {} /\ missed' = {}
    BY <1>5 DEF CopyItems, Goto, Kept3
  <2>2. TextsAre(Searched)'
    BY <1>1, <1>2, <1>5, <2>1 DEF CopyItems, TextsAre
  <2>3. QED
    BY <2>1, <2>2 DEF Kept3, Building, Triggers, Made
<1>6. ASSUME NEW t \in Triggers, NEW after, CreateTrigger(t, after)
      PROVE  /\ Building /\ DOMAIN triggers' = Made[t] \cup {t}
             /\ \A u \in DOMAIN triggers' : triggers'[u] = Searched'
             /\ TextsAre(Searched)' /\ step' = after
  <2>1. step = t /\ Building /\ triggers' = [u \in DOMAIN triggers \cup {t} |-> IF u = t THEN Searched ELSE triggers[u]]
    BY <1>6 DEF CreateTrigger, Building
  <2>2. doc' = doc /\ missed' = missed /\ step' = after
    BY <1>6 DEF CreateTrigger, Goto
  <2>3. DOMAIN triggers = Made[t] /\ (\A u \in DOMAIN triggers : triggers[u] = Searched) /\ TextsAre(Searched)
    BY <2>1 DEF Kept3
  <2>4. TextsAre(Searched)'
    BY <1>1, <1>2, <2>2, <2>3 DEF TextsAre
  <2>5. QED
    BY <1>1, <2>1, <2>2, <2>3, <2>4
<1>7. CASE CreateTrigger("insert", "update")
  <2>1. /\ DOMAIN triggers' = {"insert"} /\ step' = "update" /\ TextsAre(Searched)'
        /\ \A u \in DOMAIN triggers' : triggers'[u] = Searched'
    BY <1>6, <1>7 DEF Triggers, Made
  <2>2. DOMAIN triggers' # Triggers /\ DOMAIN triggers' \subseteq Triggers
    BY <2>1 DEF Triggers
  <2>3. QED
    BY <2>1, <2>2 DEF Kept3, Building, Triggers, Made
<1>8. CASE CreateTrigger("update", "delete")
  <2>1. /\ DOMAIN triggers' = {"insert", "update"} /\ step' = "delete" /\ TextsAre(Searched)'
        /\ \A u \in DOMAIN triggers' : triggers'[u] = Searched'
    BY <1>6, <1>8 DEF Triggers, Made
  <2>2. DOMAIN triggers' # Triggers /\ DOMAIN triggers' \subseteq Triggers
    BY <2>1 DEF Triggers
  <2>3. QED
    BY <2>1, <2>2 DEF Kept3, Building, Triggers, Made
<1>9. CASE CreateTrigger("delete", "idle")
  <2>1. Searched' \in SUBSET Columns
    BY <1>1 DEF Searched
  <2>2. QED
    BY <1>6, <1>9, <2>1 DEF Kept3, Building, Triggers, Made
<1>10. QED
  BY <1>3, <1>4, <1>5, <1>7, <1>8, <1>9

\* A write of an item keeps what holds of the triggers.
LEMMA WritesKeepTriggers ==
  ASSUME version \in [IndexedIds -> Nat], Kept3, NEW i \in IndexedIds,
         InsertItem(i) \/ UpdateItem(i) \/ DeleteItem(i)
  PROVE  Kept3'
<1>1. UNCHANGED <<driver, wanted, triggers, step>>
  BY DEF InsertItem, UpdateItem, DeleteItem, Wrote
<1>2. Searched' = Searched
  BY <1>1, SearchedStays
<1>3. ASSUME Building PROVE TextsAre(Searched)'
  <2>1. TextsAre(Searched) /\ DOMAIN triggers \subseteq Triggers /\ \A t \in DOMAIN triggers : triggers[t] = Searched
    BY <1>3 DEF Kept3
  <2> DEFINE C == Searched
  <2>2. \A D : D = Searched => {r \in doc' : r[1] \notin missed'} = {<<j, version'[j], D>> : j \in Stored' \ missed'}
    <3> TAKE D
    <3> HAVE D = Searched
    <3>1. TextsAre(D) /\ \A t \in DOMAIN triggers : triggers[t] = D
      BY <2>1
    <3>2. {r \in doc' : r[1] \notin missed'} = {<<j, version'[j], D>> : j \in Stored' \ missed'}
      BY <1>3, <2>1, <3>1, WriteKeeps DEF TextsAre
    <3>3. QED
      BY <3>2
  <2>3. QED
    BY <1>2, <2>2 DEF TextsAre
<1>4. ASSUME DOMAIN triggers = Triggers
      PROVE  \E C \in SUBSET Columns : (\A t \in Triggers : triggers'[t] = C)
                    /\ {r \in doc' : r[1] \notin missed'} = {<<j, version'[j], C>> : j \in Stored' \ missed'}
  <2>1. PICK C \in SUBSET Columns : (\A t \in Triggers : triggers[t] = C) /\ TextsAre(C)
    BY <1>4 DEF Kept3
  <2>2. {r \in doc' : r[1] \notin missed'} = {<<j, version'[j], C>> : j \in Stored' \ missed'}
    BY <1>4, <2>1, WriteKeeps DEF TextsAre
  <2>3. QED
    BY <1>1, <2>1, <2>2
<1>5. QED
  BY <1>1, <1>2, <1>3, <1>4 DEF Kept3, Building, TextsAre

\* Nothing but the writes and the steps of SQLite touches triggers or texts.
LEMMA OthersKeep ==
  ASSUME Kept3, UNCHANGED <<version, doc, triggers, missed>>,
         \/ UNCHANGED <<driver, wanted, step>>
         \/ step' \in {"idle", "dropTriggers"}
  PROVE  Kept3'
<1>1. Stored' = Stored
  BY DEF Stored
<1>2. ASSUME NEW C PROVE TextsAre(C) => {r \in doc' : r[1] \notin missed'} = {<<j, version'[j], C>> : j \in Stored' \ missed'}
  BY <1>1 DEF TextsAre
<1>3. CASE UNCHANGED <<driver, wanted, step>>
  <2>1. Searched' = Searched
    BY <1>3, SearchedStays
  <2>2. Building' => TextsAre(Searched)'
    BY <1>1, <1>3, <2>1 DEF Kept3, Building, TextsAre
  <2>3. QED
    BY <1>2, <1>3, <2>1, <2>2 DEF Kept3, Building, TextsAre
<1>4. CASE step' \in {"idle", "dropTriggers"}
  BY <1>2, <1>4 DEF Kept3, Building, TextsAre, Triggers
<1>5. QED
  BY <1>3, <1>4

\* An index that counts as the same holds what is wanted.  MongoDB never finds one.
LEMMA MatchesHolds ==
  ASSUME driver \in {"sqlite", "mysql", "postgres", "mongo"}, wanted \in SUBSET Columns, Matches
  PROVE  /\ driver = "sqlite" => sqliteSearchIndexMatches
         /\ driver = "mysql" => \E C \in index : \A c \in Searched : \E d \in C : c \in Mentions["mysql"][d]
         /\ driver # "mongo"
<1>1. driver = "sqlite" => sqliteSearchIndexMatches
  BY DEF Matches
<1>2. driver = "mysql" => \E C \in index : \A c \in Searched : \E d \in C : c \in Mentions["mysql"][d]
  BY DEF Matches, mysqlSearchIndexMatches, searchExpressionContainsAll
<1>3. driver # "mongo"
  <2>1. "_fts" \notin Searched
    BY KeysAreNoColumns DEF Searched, TextKeys
  <2>2. driver = "mongo" => mongoSearchIndexKeysMatch
    BY DEF Matches
  <2>3. QED
    BY <2>1, <2>2 DEF mongoSearchIndexKeysMatch, TextKeys
<1>4. QED
  BY <1>1, <1>2, <1>3

\* Whether the triggers are the same depends on them and the columns alone.
LEMMA SameTriggers ==
  ASSUME UNCHANGED <<driver, wanted, triggers>>
  PROVE  sqliteSearchIndexMatches' <=> sqliteSearchIndexMatches
<1>1. Searched' = Searched
  BY SearchedStays
<1>2. QED
  BY <1>1 DEF sqliteSearchIndexMatches, SameText

\* What the index holds depends on the index and the columns alone.
LEMMA HoldsStays ==
  ASSUME Holds, UNCHANGED <<driver, wanted, triggers, index, query>>
  PROVE  Holds'
<1>1. Searched' = Searched
  BY SearchedStays
<1>2. QED
  BY <1>1, SameTriggers DEF Holds

\* Every step keeps the invariant of the index.
LEMMA IndexStep == IndexInv /\ [IndexNext]_indexVars => IndexInv'
<1> SUFFICES ASSUME IndexInv, [IndexNext]_indexVars PROVE IndexInv'
  OBVIOUS
<1> DEFINE D == {"sqlite", "mysql", "postgres", "mongo"}
<1>0. driver \in D /\ version \in [IndexedIds -> Nat] /\ wanted \in SUBSET Columns /\ Covered
  BY DEF IndexInv
<1>1. driver' = driver
  BY DEF IndexNext, indexVars, ReconcileStart, DropIndex, CreateIndex, DropTriggers, DropTable, CopyItems,
         CreateTrigger, Goto, InsertItem, UpdateItem, DeleteItem, Wrote, ReconcileFails, MasterCrash, Configure
<1>10. wanted' \in SUBSET Columns
  BY <1>0 DEF IndexNext, indexVars, ReconcileStart, DropIndex, CreateIndex, DropTriggers, DropTable, CopyItems,
         CreateTrigger, Goto, InsertItem, UpdateItem, DeleteItem, Wrote, ReconcileFails, MasterCrash, Configure
<1>2. ASSUME version' \in [IndexedIds -> Nat], Covered', driver = "sqlite" => Kept3',
             driver # "sqlite" => step' \in {"idle", "dropIndex", "createIndex"}
      PROVE  IndexInv'
  BY <1>0, <1>1, <1>2, <1>10 DEF IndexInv
<1>3. CASE ReconcileStart
  <2>1. UNCHANGED <<driver, wanted, version, doc, triggers, index, missed>> /\ step' \in {"idle", Steps[driver]}
    BY <1>3 DEF ReconcileStart
  <2>2. Searched' = Searched /\ (sqliteSearchIndexMatches' <=> sqliteSearchIndexMatches)
    BY <2>1, SearchedStays, SameTriggers
  <2>3. Matches => step' = "idle" /\ (driver = "postgres" => query' = Searched)
    BY <1>3 DEF ReconcileStart
  <2>4. settled' => Matches
    BY <1>3, Zenon DEF ReconcileStart
  <2>5. Covered'
    <3> SUFFICES ASSUME settled' PROVE step' = "idle" /\ Holds'
      BY DEF Covered
    <3>1. Matches /\ step' = "idle" /\ (driver = "postgres" => query' = Searched)
      BY <2>3, <2>4
    <3>2. /\ driver = "sqlite" => sqliteSearchIndexMatches
          /\ driver = "mysql" => \E C \in index : \A c \in Searched : \E d \in C : c \in Mentions["mysql"][d]
          /\ driver # "mongo"
      BY <1>0, <3>1, MatchesHolds
    <3>3. QED
      BY <1>1, <2>1, <2>2, <3>1, <3>2 DEF Holds
  <2>6. driver = "sqlite" => Kept3'
    BY <2>1, OthersKeep DEF IndexInv, Steps
  <2>7. driver # "sqlite" => step' \in {"idle", "dropIndex", "createIndex"}
    BY <1>0, <2>1 DEF Steps
  <2>8. QED
    BY <1>0, <1>2, <2>1, <2>5, <2>6, <2>7
<1>4. CASE DropIndex \/ CreateIndex
  <2>1. driver # "sqlite" /\ version' = version /\ UNCHANGED <<driver, wanted>>
    BY <1>4 DEF DropIndex, CreateIndex, Goto, IndexInv, Kept3, Triggers
  <2>2. Searched' = Searched
    BY <2>1, SearchedStays
  <2>3. CASE DropIndex
    <3>1. step' = "createIndex" /\ ~settled'
      BY <2>3 DEF DropIndex, Goto
    <3>2. QED
      BY <1>0, <1>2, <2>1, <3>1 DEF Covered
  <2>4. CASE CreateIndex
    <3>1. step' = "idle" /\ index' = {Searched'} /\ (driver = "postgres" => query' = Searched')
      BY <2>2, <2>4 DEF CreateIndex, Goto
    <3>5. Holds'
      BY <1>1, <2>1, <3>1 DEF Holds
    <3>6. QED
      BY <1>0, <1>1, <1>2, <2>1, <3>1, <3>5 DEF Covered
  <2>5. QED
    BY <1>4, <2>3, <2>4
<1>5. CASE \/ DropTriggers \/ DropTable \/ CopyItems
           \/ CreateTrigger("insert", "update") \/ CreateTrigger("update", "delete") \/ CreateTrigger("delete", "idle")
  <2>1. step \in {"dropTriggers", "copy"} \cup Triggers /\ version' = version
    BY <1>5 DEF DropTriggers, DropTable, CopyItems, CreateTrigger, Goto, Triggers
  <2>2. driver = "sqlite" /\ Kept3
    BY <2>1 DEF IndexInv, Triggers
  <2>3. Kept3'
    BY <1>0, <1>5, <2>2, SQLiteKeeps
  <2>4. CASE CreateTrigger("delete", "idle")
    <3>1. step = "delete" /\ step' = "idle" /\ UNCHANGED <<driver, wanted>>
          /\ triggers' = [u \in DOMAIN triggers \cup {"delete"} |-> IF u = "delete" THEN Searched ELSE triggers[u]]
      BY <2>4 DEF CreateTrigger, Goto
    <3>2. Building /\ DOMAIN triggers = {"insert", "update"} /\ \A t \in DOMAIN triggers : triggers[t] = Searched
      BY <2>2, <3>1 DEF Kept3, Building, Triggers, Made
    <3>3. Searched' = Searched
      BY <3>1, SearchedStays
    <3>4. \A t \in Triggers : t \in DOMAIN triggers' /\ triggers'[t] = Searched'
      BY <3>1, <3>2, <3>3 DEF Triggers
    <3>5. Holds'
      BY <1>1, <2>2, <3>4 DEF Holds, sqliteSearchIndexMatches, SameText
    <3>6. QED
      BY <1>0, <1>1, <1>2, <2>1, <2>2, <2>3, <3>1, <3>5 DEF Covered
  <2>5. CASE ~CreateTrigger("delete", "idle")
    <3>1. ~settled'
      BY <1>5, <2>5 DEF DropTriggers, DropTable, CopyItems, CreateTrigger, Goto
    <3>2. QED
      BY <1>0, <1>2, <2>1, <2>2, <2>3, <3>1 DEF Covered
  <2>6. QED
    BY <2>4, <2>5
<1>6. CASE \E i \in IndexedIds : InsertItem(i) \/ UpdateItem(i) \/ DeleteItem(i)
  <2>1. PICK i \in IndexedIds : InsertItem(i) \/ UpdateItem(i) \/ DeleteItem(i)
    BY <1>6
  <2>2. UNCHANGED <<driver, wanted, triggers, index, query, step, settled>> /\ version' \in [IndexedIds -> Nat]
    BY <1>0, <2>1 DEF InsertItem, UpdateItem, DeleteItem, Wrote, NotStored
  <2>4. Covered'
    BY <1>0, <2>2, HoldsStays DEF Covered
  <2>5. driver = "sqlite" => Kept3'
    BY <1>0, <2>1, WritesKeepTriggers DEF IndexInv
  <2>6. QED
    BY <1>2, <2>2, <2>4, <2>5 DEF IndexInv
<1>7. CASE ReconcileFails \/ MasterCrash \/ Configure
  <2>1. UNCHANGED <<version, doc, triggers, missed>> /\ step' = "idle"
    BY <1>7 DEF ReconcileFails, MasterCrash, Configure
  <2>2. ~settled'
    BY <1>0, <1>7 DEF ReconcileFails, MasterCrash, Configure, Covered
  <2>3. driver = "sqlite" => Kept3'
    BY <2>1, OthersKeep DEF IndexInv
  <2>4. QED
    BY <1>0, <1>2, <2>1, <2>2, <2>3 DEF Covered
<1>8. CASE UNCHANGED indexVars
  <2>1. UNCHANGED <<driver, wanted, version, doc, triggers, index, query, step, settled, missed>>
    BY <1>8 DEF indexVars
  <2>3. Covered'
    BY <1>0, <2>1, HoldsStays DEF Covered
  <2>4. driver = "sqlite" => Kept3'
    BY <2>1, OthersKeep DEF IndexInv
  <2>5. QED
    BY <1>0, <1>2, <2>1, <2>3, <2>4 DEF IndexInv
<1>9. QED
  BY <1>3, <1>4, <1>5, <1>6, <1>7, <1>8 DEF IndexNext

\* Once a reconciliation has ended a search finds what it should: in SQLite
\* every item exactly by its present text, but for those written between the copy
\* and their trigger, elsewhere through an index that covers the columns wanted,
\* after any crashes, failures and changes of the columns (Reconcile of
\* storage/data/sql.go and mongodb.go).
THEOREM SearchIsCurrentAlways == ASSUME KnownDrivers PROVE IndexSpec => []SearchIsCurrent
<1>1. IndexInv => SearchIsCurrent
  <2> SUFFICES ASSUME IndexInv, settled PROVE SearchIsCurrent
    BY DEF SearchIsCurrent, SearchFindsPresent, SearchCoversWanted
  <2>1. Holds
    BY DEF IndexInv, Covered
  <2>2. SearchCoversWanted
    BY <2>1 DEF Holds, SearchCoversWanted
  <2>3. ASSUME driver = "sqlite"
        PROVE  \E C \in SUBSET Columns :
                 /\ SameText(C, Searched)
                 /\ {r \in SQLSearchItems : r[1] \notin missed} = {<<i, version[i], C>> : i \in Stored \ missed}
    <3>1. Kept3 /\ \A t \in Triggers : t \in DOMAIN triggers /\ SameText(triggers[t], Searched)
      BY <2>1, <2>3 DEF Holds, IndexInv, sqliteSearchIndexMatches
    <3>2. DOMAIN triggers = Triggers
      BY <3>1 DEF Kept3
    <3>3. PICK C \in SUBSET Columns : (\A t \in Triggers : triggers[t] = C) /\ TextsAre(C)
      BY <3>1, <3>2 DEF Kept3
    <3>4. SameText(C, Searched)
      BY <3>1, <3>3 DEF Triggers
    <3>5. {r \in doc : r[1] \notin missed} = {<<i, version[i], C>> : i \in Stored \ missed}
      BY <3>3 DEF TextsAre
    <3>6. {r \in SQLSearchItems : r[1] \notin missed} = {<<i, version[i], C>> : i \in Stored \ missed}
      BY <3>5 DEF SQLSearchItems
    <3>7. QED
      BY <3>4, <3>6
  <2>4. QED
    BY <2>2, <2>3 DEF SearchIsCurrent, SearchFindsPresent
<1>2. QED
  BY <1>1, IndexStart, IndexStep, PTL DEF IndexSpec

-----------------------------------------------------------------------------
(* VectorWriter.                                                           *)

\* A set of numbers has a least member.
LEMMA LeastOf == ASSUME NEW S \in SUBSET Nat, S # {} PROVE \E x \in S : \A y \in S : x <= y
<1>1. PICK x \in S : \A y \in S : ~(<<y, x>> \in OpToRel(<, Nat))
  BY NatLessThanWellFounded, WFMin
<1>2. \A y \in S : ~(y < x)
  BY <1>1 DEF OpToRel
<1>3. QED
  BY <1>2

\* A set of numbers up to b has a greatest member.
LEMMA GreatestOf == ASSUME NEW b \in Nat, NEW S \in SUBSET (0..b), S # {} PROVE \E x \in S : \A y \in S : y <= x
<1> DEFINE D == {b - y : y \in S}
<1>1. D \in SUBSET Nat /\ D # {}
  <2>1. ASSUME NEW y \in S PROVE b - y \in Nat
    OBVIOUS
  <2>2. QED
    BY <2>1
<1>2. PICK d \in D : \A e \in D : d <= e
  BY <1>1, LeastOf
<1>3. PICK x \in S : d = b - x
  OBVIOUS
<1>4. ASSUME NEW y \in S PROVE y <= x
  <2>1. d <= b - y
    BY <1>2
  <2>2. QED
    BY <1>3, <2>1
<1>5. QED
  BY <1>4

\* The phases in which the writer has settled on the vectors it writes.
Settled == {"describe", "drop", "create", "store"}

WriterTypeOK ==
  /\ run \in Nat
  /\ column \in [Owners -> Nat \cup {NoColumn}]
  /\ left \subseteq Owners
  /\ DOMAIN buffer \subseteq Owners /\ \A o \in DOMAIN buffer : buffer[o] \in Nat
  /\ dimension \in Nat \cup {NoDimension}
  /\ ensured \in BOOLEAN
  /\ phase \in {"idle", "add", "flush", "delete"} \cup Settled

\* What the writer has seen of its run is in the buffer or in the collection.
Accounted ==
  /\ DOMAIN buffer \cap left = {}
  /\ \A o \in DOMAIN buffer : column[o] # NoColumn
  /\ kind = "sparse" => dimension = 0 /\ \A o \in Owners : column[o] \in {NoColumn, 0}
  /\ dimension = NoDimension => \A o \in Owners \ left : column[o] # NoColumn => o \in DOMAIN buffer
  /\ \A o \in Owners \ left : column[o] = dimension => o \in DOMAIN buffer \/ Vector(o) \in rows
  /\ phase \in Settled => dimension # NoDimension /\ \A o \in DOMAIN buffer : column[o] = dimension
  /\ phase = "flush" => DOMAIN buffer # {}
  /\ phase = "delete" => DOMAIN buffer = {} /\ cleaning
  /\ cleaning => left = {} /\ phase # "add"

\* The collection belongs to the run once it has been ensured.
Owned ==
  /\ IF ensured THEN dimension # NoDimension /\ collection.exists /\ Suits ELSE \A r \in rows : r.ts < run
  /\ \A r \in rows : r.ts = run => r.id \in Owners /\ r = Vector(r.id) /\ column[r.id] = dimension
  /\ phase \in {"describe", "drop", "create"} => ~ensured
  /\ phase = "create" => ~collection.exists
  /\ phase = "store" => ensured

WriterInv ==
  /\ WriterTypeOK
  /\ CollectionIsUniform
  /\ \A r \in rows : r.ts \in Nat /\ r.ts <= run
  /\ phase # "idle" => Accounted /\ Owned /\ ~complete
  /\ CompleteRunIsExact

\* At the start nothing has been written.
LEMMA WriterStart == WriterInit => WriterInv
<1> SUFFICES ASSUME WriterInit PROVE WriterInv
  OBVIOUS
<1>1. DOMAIN buffer = {}
  BY DEF WriterInit, NoVectors
<1>2. WriterTypeOK
  BY <1>1 DEF WriterInit, WriterTypeOK
<1>3. QED
  BY <1>2 DEF WriterInit, WriterInv, CollectionIsUniform, CompleteRunIsExact

\* The dimension most vectors have is that of one of them.
LEMMA MajorityIsSeen ==
  ASSUME WriterTypeOK, DOMAIN buffer # {} PROVE \E o \in DOMAIN buffer : Majority = column[o]
<1> DEFINE most == {o \in DOMAIN buffer : \A p \in DOMAIN buffer : Count(column[o]) >= Count(column[p])}
           C == {Count(column[o]) : o \in DOMAIN buffer}
           b == Cardinality(DOMAIN buffer)
           at == {buffer[o] : o \in most}
<1>1. IsFiniteSet(DOMAIN buffer)
  BY WriterAssumption, FS_Subset DEF WriterTypeOK
<1>2. b \in Nat
  BY <1>1, FS_CardinalityType
<1>3. ASSUME NEW d PROVE Count(d) \in 0..b
  <2>1. {o \in DOMAIN buffer : column[o] = d} \subseteq DOMAIN buffer
    OBVIOUS
  <2>2. Count(d) <= b /\ Count(d) \in Nat
    BY <1>1, <2>1, FS_Subset, FS_CardinalityType DEF Count
  <2>3. QED
    BY <1>2, <2>2
<1>4. C \in SUBSET (0..b) /\ C # {}
  BY <1>3
<1>5. PICK c \in C : \A e \in C : e <= c
  BY <1>2, <1>4, GreatestOf
<1>6. PICK o \in DOMAIN buffer : c = Count(column[o])
  OBVIOUS
<1>7. o \in most
  <2>1. ASSUME NEW p \in DOMAIN buffer PROVE Count(column[o]) >= Count(column[p])
    <3>1. Count(column[p]) <= c /\ Count(column[p]) \in Nat /\ c \in Nat
      BY <1>3, <1>5, <1>6
    <3>2. QED
      BY <1>6, <3>1
  <2>2. QED
    BY <2>1
<1>8. at \in SUBSET Nat /\ at # {}
  BY <1>7 DEF WriterTypeOK
<1>9. PICK a \in at : \A e \in at : a <= e
  BY <1>8, LeastOf
<1>10. PICK q \in most : a = buffer[q]
  OBVIOUS
<1>11. \A p \in most : buffer[q] <= buffer[p]
  BY <1>9, <1>10
<1> HIDE DEF most
<1>12. (CHOOSE r \in most : \A p \in most : buffer[r] <= buffer[p]) \in most
  BY <1>11
<1>13. QED
  BY <1>12 DEF Majority, most

\* The marks for no column and no dimension are no lengths.
LEMMA Marks == NoColumn \notin Nat /\ NoDimension \notin Nat /\ NoColumn # NoDimension
  BY DEF NoColumn, NoDimension

\* A run begins with an empty writer.
LEMMA BeginKeeps == ASSUME WriterInv, updateItemToItem \/ updateUserToUser PROVE WriterInv'
<1>1. PICK k \in Kinds : newSimilarityVectorWriter(k) /\ (column' \in [Owners -> ItemColumns(k)] \/ column' \in [Owners -> UserColumns(k)])
  BY DEF updateItemToItem, updateUserToUser
<1>2. /\ run' = run + 1 /\ left' = Owners /\ phase' = "add" /\ ~cleaning' /\ ~complete'
      /\ UNCHANGED <<collection, rows>>
  BY DEF updateItemToItem, updateUserToUser
<1>3. /\ kind' = k /\ dimension' = (IF k = "sparse" THEN 0 ELSE NoDimension)
      /\ ensured' = FALSE /\ DOMAIN buffer' = {}
  BY <1>1 DEF newSimilarityVectorWriter, NoVectors
<1>4. /\ column' \in [Owners -> Nat \cup {NoColumn}]
      /\ k = "sparse" => \A o \in Owners : column'[o] \in {NoColumn, 0}
  <2>1. CASE k = "sparse"
    <3>1. column' \in [Owners -> {NoColumn, 0}]
      BY <1>1, <2>1 DEF ItemColumns, UserColumns
    <3>2. QED
      BY <3>1
  <2>2. CASE k # "sparse"
    <3>1. column' \in [Owners -> Dims \cup {NoColumn}]
      BY <1>1, <2>2 DEF ItemColumns, UserColumns
    <3>2. QED
      BY <2>2, <3>1, WriterAssumption
  <2>3. QED
    BY <2>1, <2>2
<1>5. run \in Nat /\ \A r \in rows : r.ts \in Nat /\ r.ts <= run
  BY DEF WriterInv, WriterTypeOK
<1>6. WriterTypeOK'
  <2>1. dimension' \in Nat \cup {NoDimension} /\ run' \in Nat
    BY <1>2, <1>3, <1>5
  <2>2. QED
    BY <1>2, <1>3, <1>4, <2>1 DEF WriterTypeOK
<1>7. Accounted'
  BY <1>2, <1>3, <1>4 DEF Accounted, Settled
<1>8. \A r \in rows' : r.ts \in Nat /\ r.ts < run' /\ r.ts <= run'
  BY <1>2, <1>5
<1>9. Owned'
  BY <1>2, <1>3, <1>8 DEF Owned
<1>10. CollectionIsUniform'
  BY <1>2 DEF WriterInv, CollectionIsUniform
<1>11. QED
  BY <1>2, <1>6, <1>7, <1>8, <1>9, <1>10 DEF WriterInv, CompleteRunIsExact

\* An owner that is added waits in the buffer, if it has a vector.
LEMMA AddKeeps == ASSUME WriterInv, Add PROVE WriterInv'
<1>1. PICK o \in left :
        /\ left' = left \ {o}
        /\ buffer' = IF column[o] = NoColumn THEN buffer
                     ELSE [p \in DOMAIN buffer \cup {o} |-> IF p = o THEN Cardinality(DOMAIN buffer) ELSE buffer[p]]
        /\ phase' = IF column[o] # NoColumn /\ Cardinality(DOMAIN buffer') >= BatchSize THEN "flush" ELSE "add"
  BY DEF Add
<1>2. phase = "add" /\ UNCHANGED <<collection, rows, run, kind, column, dimension, ensured, cleaning, complete>>
  BY DEF Add
<1>3. WriterTypeOK /\ Accounted /\ Owned /\ ~complete /\ CollectionIsUniform /\ \A r \in rows : r.ts \in Nat /\ r.ts <= run
  BY <1>2 DEF WriterInv
<1>4. o \in Owners /\ ~cleaning
  BY <1>2, <1>3 DEF WriterTypeOK, Accounted
<1>5. DOMAIN buffer' = IF column[o] = NoColumn THEN DOMAIN buffer ELSE DOMAIN buffer \cup {o}
  BY <1>1
<1>6. Cardinality(DOMAIN buffer) \in Nat
  BY <1>3, WriterAssumption, FS_Subset, FS_CardinalityType DEF WriterTypeOK
<1>7. WriterTypeOK'
  <2>1. \A p \in DOMAIN buffer' : buffer'[p] \in Nat
    BY <1>1, <1>3, <1>6 DEF WriterTypeOK
  <2>2. QED
    BY <1>1, <1>2, <1>3, <1>4, <1>5, <2>1 DEF WriterTypeOK
<1>8. Vector(o)' = Vector(o) /\ \A p \in Owners : [id |-> p, dim |-> column'[p], kind |-> kind', ts |-> run'] = Vector(p)
  BY <1>2 DEF Vector
<1>9. Accounted'
  <2>1. /\ DOMAIN buffer' \cap left' = {}
        /\ \A p \in DOMAIN buffer' : column'[p] # NoColumn
        /\ kind' = "sparse" => dimension' = 0 /\ \A p \in Owners : column'[p] \in {NoColumn, 0}
    BY <1>1, <1>2, <1>3, <1>5 DEF Accounted
  <2>2. dimension' = NoDimension => \A p \in Owners \ left' : column'[p] # NoColumn => p \in DOMAIN buffer'
    BY <1>1, <1>2, <1>3, <1>5 DEF Accounted
  <2>3. \A p \in Owners \ left' : column'[p] = dimension' => p \in DOMAIN buffer' \/ Vector(p)' \in rows'
    <3> SUFFICES ASSUME NEW p \in Owners \ left', column[p] = dimension
                 PROVE  p \in DOMAIN buffer' \/ [id |-> p, dim |-> column'[p], kind |-> kind', ts |-> run'] \in rows'
      BY <1>2 DEF Vector
    <3>1. CASE p = o
      <4>1. column[o] # NoColumn
        BY <1>3, <3>1, Marks DEF WriterTypeOK
      <4>2. QED
        BY <1>5, <3>1, <4>1
    <3>2. CASE p # o
      <4>1. p \in DOMAIN buffer \/ Vector(p) \in rows
        BY <1>1, <1>3, <3>2 DEF Accounted
      <4>2. QED
        BY <1>2, <1>5, <1>8, <4>1
    <3>3. QED
      BY <3>1, <3>2
  <2>4. phase' = "flush" => DOMAIN buffer' # {}
    BY <1>1, <1>5
  <2>5. phase' \in {"add", "flush"}
    BY <1>1
  <2>6. QED
    BY <1>2, <1>4, <2>1, <2>2, <2>3, <2>4, <2>5 DEF Accounted, Settled
<1>10. Owned'
  <2>1. phase' \in {"add", "flush"}
    BY <1>1
  <2>2. QED
    BY <1>2, <1>3, <2>1 DEF Owned, Suits, Vector
<1>11. CollectionIsUniform'
  BY <1>2, <1>3 DEF CollectionIsUniform
<1>12. QED
  BY <1>2, <1>3, <1>7, <1>9, <1>10, <1>11 DEF WriterInv, CompleteRunIsExact

\* Clean begins when every owner has been added.
LEMMA CleanKeeps == ASSUME WriterInv, CleanBegins PROVE WriterInv'
<1>1. /\ phase = "add" /\ left = {} /\ cleaning' = TRUE
      /\ phase' = (IF DOMAIN buffer = {} THEN "delete" ELSE "flush")
      /\ UNCHANGED <<collection, rows, run, kind, column, left, buffer, dimension, ensured, complete>>
  BY DEF CleanBegins
<1>2. WriterTypeOK /\ Accounted /\ Owned /\ ~complete /\ CollectionIsUniform /\ \A r \in rows : r.ts \in Nat /\ r.ts <= run
  BY <1>1 DEF WriterInv
<1>3. WriterTypeOK'
  BY <1>1, <1>2 DEF WriterTypeOK
<1>4. Accounted'
  BY <1>1, <1>2 DEF Accounted, Settled, Vector
<1>5. Owned'
  BY <1>1, <1>2 DEF Owned, Suits, Vector
<1>6. CollectionIsUniform'
  BY <1>1, <1>2 DEF CollectionIsUniform
<1>7. QED
  BY <1>1, <1>2, <1>3, <1>4, <1>5, <1>6 DEF WriterInv, CompleteRunIsExact

\* The first flush settles the dimension, and every flush what it writes.
LEMMA FlushKeeps == ASSUME WriterInv, flushLocked PROVE WriterInv'
<1>1. /\ phase = "flush" /\ phase' = (IF ensured THEN "store" ELSE "describe")
      /\ dimension' = (IF kind = "sparse" \/ dimension # NoDimension THEN dimension ELSE Majority)
      /\ buffer' = (IF kind = "sparse" THEN buffer ELSE [o \in {p \in DOMAIN buffer : column[p] = dimension'} |-> buffer[o]])
      /\ UNCHANGED <<collection, rows, run, kind, column, left, ensured, cleaning, complete>>
  BY DEF flushLocked
<1>2. WriterTypeOK /\ Accounted /\ Owned /\ ~complete /\ CollectionIsUniform /\ \A r \in rows : r.ts \in Nat /\ r.ts <= run
  BY <1>1 DEF WriterInv
<1>3. dimension' \in Nat /\ (dimension # NoDimension => dimension' = dimension)
  <2>1. CASE dimension # NoDimension
    BY <1>1, <1>2, <2>1 DEF WriterTypeOK
  <2>2. CASE dimension = NoDimension
    <3>1. kind # "sparse"
      BY <1>2, <2>2, Marks DEF Accounted
    <3>2. PICK o \in DOMAIN buffer : Majority = column[o]
      BY <1>1, <1>2, MajorityIsSeen DEF Accounted
    <3>3. column[o] \in Nat
      BY <1>2 DEF WriterTypeOK, Accounted
    <3>4. QED
      BY <1>1, <2>2, <3>1, <3>2, <3>3
  <2>3. QED
    BY <2>1, <2>2
<1>4. dimension' # NoDimension /\ dimension' # NoColumn
  BY <1>3, Marks
<1>5. DOMAIN buffer' = {p \in DOMAIN buffer : column[p] = dimension'}
  <2>1. CASE kind = "sparse"
    <3>1. dimension' = 0 /\ \A p \in DOMAIN buffer : column[p] = 0
      BY <1>1, <1>2, <2>1 DEF Accounted, WriterTypeOK
    <3>2. QED
      BY <1>1, <2>1, <3>1
  <2>2. CASE kind # "sparse"
    BY <1>1, <2>2
  <2>3. QED
    BY <2>1, <2>2
<1>6. WriterTypeOK'
  <2>1. \A p \in DOMAIN buffer' : buffer'[p] \in Nat
    BY <1>1, <1>2, <1>5 DEF WriterTypeOK
  <2>2. QED
    BY <1>1, <1>2, <1>3, <1>5, <2>1 DEF WriterTypeOK, Settled
<1>7. Accounted'
  <2>1. \A p \in Owners \ left : column[p] = dimension' => p \in DOMAIN buffer' \/ [id |-> p, dim |-> column'[p], kind |-> kind', ts |-> run'] \in rows'
    <3> SUFFICES ASSUME NEW p \in Owners \ left, column[p] = dimension', p \notin DOMAIN buffer'
                 PROVE  Vector(p) \in rows
      BY <1>1 DEF Vector
    <3>1. p \notin DOMAIN buffer
      BY <1>5
    <3>2. column[p] # NoColumn
      BY <1>4
    <3>3. dimension # NoDimension
      BY <1>2, <3>1, <3>2 DEF Accounted
    <3>4. QED
      BY <1>2, <1>3, <3>1, <3>3 DEF Accounted
  <2>2. phase' \in Settled /\ phase' # "flush" /\ phase' # "delete" /\ phase' # "add"
    BY <1>1 DEF Settled
  <2>3. kind' = "sparse" => dimension' = 0
    BY <1>1, <1>2 DEF Accounted
  <2>4. QED
    BY <1>1, <1>2, <1>4, <1>5, <2>1, <2>2, <2>3 DEF Accounted, Vector
<1>8. Owned'
  <2>1. CASE ensured
    <3>1. dimension' = dimension
      BY <1>2, <1>3, <2>1 DEF Owned
    <3>2. QED
      BY <1>1, <1>2, <1>4, <2>1, <3>1 DEF Owned, Suits, Vector
  <2>2. CASE ~ensured
    <3>1. \A r \in rows : r.ts # run
      BY <1>2, <2>2 DEF Owned, WriterTypeOK
    <3>2. QED
      BY <1>1, <1>2, <2>2, <3>1 DEF Owned
  <2>3. QED
    BY <2>1, <2>2
<1>9. CollectionIsUniform'
  BY <1>1, <1>2 DEF CollectionIsUniform
<1>10. QED
  BY <1>1, <1>2, <1>6, <1>7, <1>8, <1>9 DEF WriterInv, CompleteRunIsExact

\* Describing the collection, dropping one that does not suit and creating it.
LEMMA EnsureKeeps ==
  ASSUME WriterInv, DescribeCollection \/ DeleteCollection \/ AddCollection PROVE WriterInv'
<1>1. /\ phase \in {"describe", "drop", "create"}
      /\ UNCHANGED <<run, kind, column, left, buffer, dimension, cleaning, complete>>
  BY DEF DescribeCollection, DeleteCollection, AddCollection
<1>2. WriterTypeOK /\ Accounted /\ Owned /\ ~complete /\ CollectionIsUniform /\ \A r \in rows : r.ts \in Nat /\ r.ts <= run
  BY <1>1 DEF WriterInv
<1>3. phase' \in Settled /\ ensured' \in BOOLEAN
  <2>1. DescribeCollection => ensured' \in BOOLEAN
    BY Zenon DEF DescribeCollection
  <2>2. DeleteCollection \/ AddCollection => ensured' \in BOOLEAN
    BY <1>2 DEF DeleteCollection, AddCollection, WriterTypeOK
  <2>3. phase' \in Settled
    BY DEF DescribeCollection, DeleteCollection, AddCollection, Settled
  <2>4. QED
    BY <2>1, <2>2, <2>3
<1>4. WriterTypeOK'
  BY <1>1, <1>2, <1>3 DEF WriterTypeOK
<1>5. ~ensured /\ dimension # NoDimension /\ \A r \in rows : r.ts < run /\ r.ts # run
  BY <1>1, <1>2 DEF Owned, Accounted, Settled, WriterTypeOK
<1>6. rows' \in {rows, {}}
  BY DEF DescribeCollection, DeleteCollection, AddCollection
<1>7. Accounted'
  <2>1. \A o \in Owners \ left : column[o] = dimension => o \in DOMAIN buffer
    BY <1>2, <1>5 DEF Accounted, Vector
  <2>2. phase' # "flush" /\ phase' # "delete" /\ phase' # "add" /\ phase \in Settled
    BY <1>1, <1>3 DEF Settled
  <2>3. QED
    BY <1>1, <1>2, <1>3, <1>5, <2>1, <2>2 DEF Accounted
<1>8. CASE DescribeCollection
  <2>1. /\ phase' = (IF ~collection.exists THEN "create" ELSE IF Suits THEN "store" ELSE "drop")
        /\ UNCHANGED <<collection, rows>>
    BY <1>8 DEF DescribeCollection
  <2>2. ensured' <=> collection.exists /\ Suits
    BY <1>8, Zenon DEF DescribeCollection
  <2>3. Suits' <=> Suits
    BY <1>1, <2>1 DEF Suits
  <2>4. Owned'
    BY <1>1, <1>5, <2>1, <2>2, <2>3 DEF Owned
  <2>5. CollectionIsUniform'
    BY <1>2, <2>1 DEF CollectionIsUniform
  <2>6. QED
    BY <1>1, <1>2, <1>4, <1>7, <2>1, <2>4, <2>5 DEF WriterInv, CompleteRunIsExact
<1>9. CASE DeleteCollection
  <2>1. collection' = NoCollection /\ rows' = {} /\ phase' = "create" /\ ensured' = ensured
    BY <1>9 DEF DeleteCollection
  <2>2. ~collection'.exists
    BY <2>1 DEF NoCollection
  <2>3. Owned'
    BY <1>5, <2>1, <2>2 DEF Owned
  <2>4. CollectionIsUniform'
    BY <2>1 DEF CollectionIsUniform
  <2>5. QED
    BY <1>1, <1>2, <1>4, <1>7, <2>1, <2>3, <2>4 DEF WriterInv, CompleteRunIsExact
<1>10. CASE AddCollection
  <2>1. /\ phase = "create" /\ collection' = [exists |-> TRUE, dim |-> dimension, kind |-> kind]
        /\ ensured' = TRUE /\ phase' = "store" /\ rows' = rows
    BY <1>10 DEF AddCollection
  <2>2. rows = {}
    BY <1>2, <2>1 DEF Owned, CollectionIsUniform
  <2>3. Owned'
    BY <1>1, <1>5, <2>1, <2>2 DEF Owned, Suits
  <2>4. CollectionIsUniform'
    BY <2>1, <2>2 DEF CollectionIsUniform
  <2>5. QED
    BY <1>1, <1>2, <1>4, <1>7, <2>1, <2>2, <2>3, <2>4 DEF WriterInv, CompleteRunIsExact
<1>11. QED
  BY <1>8, <1>9, <1>10

\* The vectors written are of the collection.
LEMMA StoreKeeps == ASSUME WriterInv, AddVectors PROVE WriterInv'
<1>1. /\ phase = "store" /\ DOMAIN buffer' = {} /\ phase' = Resume
      /\ rows' = {r \in rows : r.id \notin DOMAIN buffer} \cup {Vector(o) : o \in DOMAIN buffer}
      /\ UNCHANGED <<collection, run, kind, column, left, dimension, ensured, cleaning, complete>>
  BY DEF AddVectors, NoVectors
<1>2. WriterTypeOK /\ Accounted /\ Owned /\ ~complete /\ CollectionIsUniform /\ \A r \in rows : r.ts \in Nat /\ r.ts <= run
  BY <1>1 DEF WriterInv
<1>3. phase' \in {"add", "delete"} /\ (phase' = "delete" <=> cleaning)
  BY <1>1 DEF Resume
<1>4. WriterTypeOK'
  BY <1>1, <1>2, <1>3 DEF WriterTypeOK
<1>5. /\ ensured /\ collection.exists /\ collection.dim = dimension /\ collection.kind = kind /\ dimension # NoDimension
      /\ \A o \in DOMAIN buffer : column[o] = dimension /\ o \in Owners
  BY <1>1, <1>2 DEF Owned, Suits, Accounted, Settled, WriterTypeOK
<1>6. \A o : /\ Vector(o).id = o /\ Vector(o).dim = column[o] /\ Vector(o).kind = kind /\ Vector(o).ts = run
             /\ [id |-> o, dim |-> column'[o], kind |-> kind', ts |-> run'] = Vector(o)
  BY <1>1 DEF Vector
<1>7. Accounted'
  <2>1. ASSUME NEW o \in Owners \ left, column[o] = dimension PROVE Vector(o) \in rows'
    <3>1. o \in DOMAIN buffer \/ Vector(o) \in rows
      BY <1>2, <2>1 DEF Accounted
    <3>2. QED
      BY <1>1, <1>6, <3>1
  <2>2. phase' \notin Settled /\ phase' # "flush"
    BY <1>3 DEF Settled
  <2>3. \A o \in Owners \ left' : column'[o] = dimension' => [id |-> o, dim |-> column'[o], kind |-> kind', ts |-> run'] \in rows'
    BY <1>1, <1>6, <2>1
  <2>4. QED
    BY <1>1, <1>2, <1>3, <1>5, <2>2, <2>3 DEF Accounted, Vector
<1>8. \A r \in rows' : r.ts \in Nat /\ r.ts <= run /\ (r.ts = run => r.id \in Owners /\ r = Vector(r.id) /\ column[r.id] = dimension)
  <2> SUFFICES ASSUME NEW r \in rows' PROVE r.ts \in Nat /\ r.ts <= run /\ (r.ts = run => r.id \in Owners /\ r = Vector(r.id) /\ column[r.id] = dimension)
    OBVIOUS
  <2>1. CASE r \in rows
    BY <1>2, <2>1 DEF Owned
  <2>2. CASE r \in {Vector(o) : o \in DOMAIN buffer}
    <3>1. PICK o \in DOMAIN buffer : r = Vector(o)
      BY <2>2
    <3>2. run \in Nat
      BY <1>2 DEF WriterTypeOK
    <3>3. QED
      BY <1>5, <1>6, <3>1, <3>2
  <2>3. QED
    BY <1>1, <2>1, <2>2
<1>9. Owned'
  <2>1. \A r \in rows' : r.ts = run' => r.id \in Owners /\ r = [id |-> r.id, dim |-> column'[r.id], kind |-> kind', ts |-> run'] /\ column'[r.id] = dimension'
    BY <1>1, <1>6, <1>8
  <2>2. QED
    BY <1>1, <1>3, <1>5, <2>1 DEF Owned, Suits, Vector
<1>10. CollectionIsUniform'
  <2>1. ASSUME NEW r \in rows' PROVE r.dim = collection.dim /\ r.kind = collection.kind
    <3>1. CASE r \in rows
      BY <1>2, <3>1 DEF CollectionIsUniform
    <3>2. CASE r \in {Vector(o) : o \in DOMAIN buffer}
      BY <1>5, <1>6, <3>2
    <3>3. QED
      BY <1>1, <3>1, <3>2
  <2>2. QED
    BY <1>1, <1>5, <2>1 DEF CollectionIsUniform
<1>11. QED
  BY <1>1, <1>2, <1>4, <1>7, <1>8, <1>9, <1>10 DEF WriterInv, CompleteRunIsExact

\* A failed call loses nothing: the buffer is kept for the next flush.
LEMMA FailKeeps == ASSUME WriterInv, CallFails PROVE WriterInv'
<1>1. /\ phase \in Settled \cup {"delete"} /\ phase' = (IF cleaning THEN "idle" ELSE "add") /\ buffer' = buffer
      /\ UNCHANGED <<collection, rows, run, kind, column, left, dimension, ensured, cleaning, complete>>
  BY DEF CallFails, Kept, Settled
<1>2. WriterTypeOK /\ Accounted /\ Owned /\ ~complete /\ CollectionIsUniform /\ \A r \in rows : r.ts \in Nat /\ r.ts <= run
  BY <1>1 DEF WriterInv, Settled
<1>3. WriterTypeOK'
  BY <1>1, <1>2 DEF WriterTypeOK
<1>4. CollectionIsUniform'
  BY <1>1, <1>2 DEF CollectionIsUniform
<1>5. CASE cleaning
  BY <1>1, <1>2, <1>3, <1>4, <1>5 DEF WriterInv, CompleteRunIsExact
<1>6. CASE ~cleaning
  <2>1. phase' = "add" /\ phase' \notin Settled
    BY <1>1, <1>6 DEF Settled
  <2>2. Accounted'
    BY <1>1, <1>2, <1>6, <2>1 DEF Accounted, Vector
  <2>3. Owned'
    BY <1>1, <1>2, <2>1 DEF Owned, Suits, Vector
  <2>4. QED
    BY <1>1, <1>2, <1>3, <1>4, <2>2, <2>3 DEF WriterInv, CompleteRunIsExact
<1>7. QED
  BY <1>5, <1>6

\* Deleting what is older leaves exactly the vectors of the run.
LEMMA DeleteKeeps == ASSUME WriterInv, DeleteVectors PROVE WriterInv'
<1>1. /\ phase = "delete" /\ rows' = {r \in rows : ~(r.ts < run)} /\ phase' = "idle"
      /\ UNCHANGED <<collection, run, kind, column, left, buffer, dimension, ensured, cleaning>>
  BY DEF DeleteVectors, OldVector
<1>2. WriterTypeOK /\ Accounted /\ Owned /\ CollectionIsUniform /\ \A r \in rows : r.ts \in Nat /\ r.ts <= run
  BY <1>1 DEF WriterInv
<1>3. left = {} /\ DOMAIN buffer = {} /\ run \in Nat
  BY <1>1, <1>2 DEF Accounted, WriterTypeOK
<1>4. \A r \in rows' : r \in rows /\ r.ts = run
  BY <1>1, <1>2, <1>3
<1>5. rows' = {Vector(o) : o \in {p \in Owners : column[p] = dimension}}
  <2>1. ASSUME NEW o \in Owners, column[o] = dimension PROVE Vector(o) \in rows'
    <3>1. Vector(o) \in rows
      BY <1>2, <1>3, <2>1 DEF Accounted
    <3>2. Vector(o).ts = run
      BY DEF Vector
    <3>3. QED
      BY <1>1, <1>3, <3>1, <3>2
  <2>2. ASSUME NEW r \in rows' PROVE r.id \in Owners /\ r = Vector(r.id) /\ column[r.id] = dimension
    BY <1>2, <1>4 DEF Owned
  <2>3. QED
    BY <2>1, <2>2
<1>6. CompleteRunIsExact'
  BY <1>1, <1>5 DEF CompleteRunIsExact, Vector
<1>7. WriterTypeOK'
  BY <1>1, <1>2 DEF WriterTypeOK
<1>8. CollectionIsUniform'
  BY <1>1, <1>2, <1>4 DEF CollectionIsUniform
<1>9. QED
  BY <1>1, <1>2, <1>4, <1>6, <1>7, <1>8 DEF WriterInv

\* Every step of the writer keeps its invariant.
LEMMA WriterStep == WriterInv /\ [WriterNext]_writerVars => WriterInv'
<1> SUFFICES ASSUME WriterInv, [WriterNext]_writerVars PROVE WriterInv'
  OBVIOUS
<1>1. CASE WriterGone
  <2>1. /\ phase # "idle" /\ phase' = "idle" /\ DOMAIN buffer' = {}
        /\ UNCHANGED <<collection, rows, run, kind, column, left, dimension, ensured, cleaning, complete>>
    BY <1>1 DEF WriterGone, NoVectors
  <2>2. WriterTypeOK'
    BY <2>1 DEF WriterInv, WriterTypeOK
  <2>3. CollectionIsUniform' /\ ~complete'
    BY <2>1 DEF WriterInv, CollectionIsUniform
  <2>4. QED
    BY <2>1, <2>2, <2>3 DEF WriterInv, CompleteRunIsExact
<1>2. CASE UNCHANGED writerVars
  <2>1. UNCHANGED <<collection, rows, run, kind, column, left, buffer, dimension, ensured, phase, cleaning, complete>>
    BY <1>2 DEF writerVars
  <2>2. (WriterTypeOK' <=> WriterTypeOK) /\ (CollectionIsUniform' <=> CollectionIsUniform)
    BY <2>1 DEF WriterTypeOK, CollectionIsUniform
  <2>3. (Accounted => Accounted') /\ (Owned => Owned')
    BY <2>1 DEF Accounted, Owned, Suits, Vector
  <2>4. CompleteRunIsExact => CompleteRunIsExact'
    BY <2>1 DEF CompleteRunIsExact, Vector
  <2>5. QED
    BY <2>1, <2>2, <2>3, <2>4 DEF WriterInv
<1>3. QED
  BY <1>1, <1>2, BeginKeeps, AddKeeps, CleanKeeps, FlushKeeps, EnsureKeeps, StoreKeeps, FailKeeps, DeleteKeeps
  DEF WriterNext

\* The entries are as many of the ids seen as fit, and no other beats one of them.
SparseInv ==
  /\ weight \in [Indices -> Weights]
  /\ seen \subseteq Indices /\ IsFiniteSet(seen)
  /\ entries \subseteq seen
  /\ Cardinality(entries) <= MaxNNZ
  /\ entries = seen \/ Cardinality(entries) = MaxNNZ
  /\ \A i \in seen \ entries, j \in entries : Less(i, j)

\* The order of the heap is a strict total order on the indices.
LEMMA LessIsOrder ==
  ASSUME weight \in [Indices -> Weights]
  PROVE  /\ \A i \in Indices : ~Less(i, i)
         /\ \A i, j \in Indices : i = j \/ Less(i, j) \/ Less(j, i)
         /\ \A i, j \in Indices : ~(Less(i, j) /\ Less(j, i))
         /\ \A i, j, k \in Indices : Less(i, j) /\ Less(j, k) => Less(i, k)
<1>1. Indices \subseteq Nat
  <2>1. Offset \in Nat
    BY SparseAssumption, FS_CardinalityType DEF Offset
  <2>2. \A u \in Users : Offset + u \in Nat
    BY <2>1, SparseAssumption
  <2>3. QED
    BY <2>2, SparseAssumption DEF Indices
<1>2. \A i \in Indices : weight[i] \in Nat
  BY SparseAssumption
<1>3. QED
  BY <1>1, <1>2 DEF Less

\* The root of the heap is its least entry.
LEMMA RootIsLeast ==
  ASSUME SparseInv, entries # {}
  PROVE  Root \in entries /\ \A j \in entries : Root = j \/ Less(Root, j)
<1> DEFINE Below(i) == {j \in entries : Less(j, i)}
           R == {Cardinality(Below(i)) : i \in entries}
<1>1. IsFiniteSet(entries) /\ entries \subseteq Indices /\ weight \in [Indices -> Weights]
  BY FS_Subset DEF SparseInv
<1>2. ASSUME NEW i \in entries PROVE IsFiniteSet(Below(i)) /\ Cardinality(Below(i)) \in Nat
  BY <1>1, FS_Subset, FS_CardinalityType
<1>3. R \in SUBSET Nat /\ R # {}
  BY <1>2
<1>4. PICK n \in R : \A m \in R : n <= m
  BY <1>3, LeastOf
<1>5. PICK i \in entries : n = Cardinality(Below(i))
  OBVIOUS
<1>6. ASSUME NEW j \in entries PROVE i = j \/ Less(i, j)
  <2> SUFFICES ASSUME Less(j, i) PROVE FALSE
    BY <1>1, LessIsOrder
  <2>1. Below(j) \subseteq Below(i) /\ j \in Below(i) /\ j \notin Below(j)
    BY <1>1, LessIsOrder
  <2>2. Cardinality(Below(j)) < Cardinality(Below(i))
    <3>1. Below(j) # Below(i)
      BY <2>1
    <3>2. /\ Cardinality(Below(j)) <= Cardinality(Below(i))
          /\ Cardinality(Below(i)) = Cardinality(Below(j)) => Below(i) = Below(j)
      BY <1>2, <2>1, FS_Subset
    <3>3. QED
      BY <1>2, <3>1, <3>2
  <2>3. Cardinality(Below(i)) <= Cardinality(Below(j))
    BY <1>4, <1>5
  <2>4. QED
    BY <1>2, <2>2, <2>3
<1>7. QED
  BY <1>6 DEF Root

\* A new id enters in the place of the least entry, if it beats it.
LEMMA PruneKeeps ==
  ASSUME SparseInv, NEW i \in Indices \ seen, Prune(i), seen' = seen \cup {i}, weight' = weight
  PROVE  SparseInv'
<1>1. IsFiniteSet(entries) /\ entries \subseteq Indices /\ weight \in [Indices -> Weights] /\ Cardinality(entries) \in Nat
  BY FS_Subset, FS_CardinalityType DEF SparseInv
<1>2. IsFiniteSet(seen') /\ seen' \subseteq Indices /\ i \notin entries
  BY FS_AddElement DEF SparseInv
<1>3. \A j, k : Less(j, k)' <=> Less(j, k)
  BY DEF Less
<1>4. CASE Cardinality(entries) < MaxNNZ
  <2>1. entries = seen /\ entries' = seen'
    BY <1>1, <1>4, SparseAssumption DEF SparseInv, Prune
  <2>2. Cardinality(entries') = Cardinality(entries) + 1
    BY <1>1, <1>2, <2>1, FS_AddElement
  <2>3. Cardinality(entries') <= MaxNNZ
    BY <1>1, <1>4, <2>2, SparseAssumption
  <2>4. QED
    BY <1>1, <1>2, <2>1, <2>3 DEF SparseInv
<1>5. CASE ~(Cardinality(entries) < MaxNNZ)
  <2>1. Cardinality(entries) = MaxNNZ /\ MaxNNZ # 0
    BY <1>1, <1>5, SparseAssumption DEF SparseInv
  <2>2. entries # {}
    BY <2>1, FS_EmptySet
  <2>3. Root \in entries /\ Root # i /\ \A j \in entries : Root = j \/ Less(Root, j)
    BY <1>2, <2>2, RootIsLeast
  <2>4. Replaces(i) <=> Less(Root, i)
    BY <1>1, <2>3, SparseAssumption DEF Replaces, Less
  <2>5. CASE Replaces(i)
    <3>1. entries' = (entries \ {Root}) \cup {i}
      BY <1>5, <2>5 DEF Prune
    <3>2. Cardinality(entries') = MaxNNZ
      <4>1. Cardinality(entries \ {Root}) = MaxNNZ - 1 /\ IsFiniteSet(entries \ {Root})
        BY <1>1, <2>1, <2>3, FS_RemoveElement
      <4>2. Cardinality(entries') = Cardinality(entries \ {Root}) + 1
        BY <1>2, <3>1, <4>1, FS_AddElement
      <4>3. QED
        BY <4>1, <4>2, SparseAssumption
    <3>3. ASSUME NEW k \in seen' \ entries', NEW j \in entries' PROVE Less(k, j)
      <4>1. k \in seen /\ (k \in entries => k = Root) /\ k \in Indices /\ Root \in Indices
        BY <1>1, <1>2, <2>3, <3>1
      <4>2. Less(Root, i)
        BY <2>4, <2>5
      <4>3. k = Root \/ Less(k, Root)
        BY <2>3, <4>1 DEF SparseInv
      <4>4. CASE j = i
        BY <1>1, <4>1, <4>2, <4>3, <4>4, LessIsOrder
      <4>5. CASE j # i
        <5>1. j \in entries /\ j # Root
          BY <3>1, <4>5
        <5>2. QED
          BY <2>3, <4>1, <5>1 DEF SparseInv
      <4>6. QED
        BY <4>4, <4>5
    <3>4. entries' \subseteq seen'
      BY <3>1 DEF SparseInv
    <3>5. QED
      BY <1>1, <1>2, <1>3, <3>2, <3>3, <3>4, SparseAssumption DEF SparseInv
  <2>6. CASE ~Replaces(i)
    <3>1. entries' = entries
      BY <1>5, <2>6 DEF Prune
    <3>2. Less(i, Root)
      BY <1>1, <2>3, <2>4, <2>6, LessIsOrder
    <3>3. ASSUME NEW k \in seen' \ entries', NEW j \in entries' PROVE Less(k, j)
      <4>1. CASE k = i
        BY <1>1, <2>3, <3>1, <3>2, <4>1, LessIsOrder
      <4>2. CASE k # i
        BY <3>1, <4>2 DEF SparseInv
      <4>3. QED
        BY <4>1, <4>2
    <3>4. QED
      BY <1>1, <1>2, <1>3, <2>1, <3>1, <3>3 DEF SparseInv
  <2>7. QED
    BY <2>5, <2>6
<1>6. QED
  BY <1>4, <1>5

\* The pruner starts empty.
LEMMA SparseStart == SparseInit => SparseInv
<1> SUFFICES ASSUME SparseInit PROVE SparseInv
  OBVIOUS
<1>1. entries = {} /\ seen = {} /\ Cardinality({}) = 0 /\ IsFiniteSet({})
  BY FS_EmptySet DEF SparseInit
<1>2. QED
  BY <1>1, SparseAssumption DEF SparseInit, SparseInv

\* Every step of the pruner keeps its invariant.
LEMMA SparseStep == SparseInv /\ [SparseNext]_sparseVars => SparseInv'
<1> SUFFICES ASSUME SparseInv, [SparseNext]_sparseVars PROVE SparseInv'
  OBVIOUS
<1>1. ASSUME UNCHANGED <<weight, seen, entries>> PROVE SparseInv'
  BY <1>1 DEF SparseInv, Less
<1>2. CASE UNCHANGED sparseVars
  BY <1>1, <1>2 DEF sparseVars
<1>3. CASE NextSide
  <2>1. weight' = weight /\ seen' = entries /\ entries' = entries
    BY <1>3 DEF NextSide
  <2>2. IsFiniteSet(entries)
    BY FS_Subset DEF SparseInv
  <2>3. QED
    BY <2>1, <2>2 DEF SparseInv
<1>4. ASSUME NEW i \in Indices, appendSparseVector(i) PROVE SparseInv'
  <2>1. CASE weight[i] = 0 \/ i \in seen
    BY <1>1, <1>4, <2>1 DEF appendSparseVector
  <2>2. CASE ~(weight[i] = 0 \/ i \in seen)
    BY <1>4, <2>2, PruneKeeps DEF appendSparseVector
  <2>3. QED
    BY <2>1, <2>2
<1>5. QED
  BY <1>2, <1>3, <1>4 DEF SparseNext

\* The entries are the ids that fewer than MaxNNZ others beat.
LEMMA SparseIsBest == SparseInv => PrunedIsBest
<1> SUFFICES ASSUME SparseInv PROVE PrunedIsBest
  OBVIOUS
<1> DEFINE Above(i) == {j \in seen : Less(i, j)}
<1>1. IsFiniteSet(entries) /\ entries \subseteq Indices /\ seen \subseteq Indices /\ weight \in [Indices -> Weights]
      /\ Cardinality(entries) \in Nat /\ IsFiniteSet(seen)
  BY FS_Subset, FS_CardinalityType DEF SparseInv
<1>2. ASSUME NEW i \in seen PROVE IsFiniteSet(Above(i)) /\ Cardinality(Above(i)) \in Nat
  BY <1>1, FS_Subset, FS_CardinalityType
<1>3. ASSUME NEW i \in entries PROVE Cardinality(Above(i)) < MaxNNZ
  <2>1. i \in seen /\ i \in Indices
    BY <1>1 DEF SparseInv
  <2>2. Above(i) \subseteq entries \ {i}
    BY <1>1, <2>1, LessIsOrder DEF SparseInv
  <2>3. Cardinality(entries \ {i}) = Cardinality(entries) - 1 /\ IsFiniteSet(entries \ {i})
    BY <1>1, FS_RemoveElement
  <2>4. Cardinality(Above(i)) <= Cardinality(entries \ {i})
    BY <2>2, <2>3, FS_Subset
  <2>5. QED
    BY <1>1, <1>2, <2>1, <2>3, <2>4, SparseAssumption DEF SparseInv
<1>4. ASSUME NEW i \in seen \ entries PROVE ~(Cardinality(Above(i)) < MaxNNZ)
  <2>1. Cardinality(entries) = MaxNNZ
    BY DEF SparseInv
  <2>2. entries \subseteq Above(i)
    BY DEF SparseInv
  <2>3. Cardinality(entries) <= Cardinality(Above(i))
    BY <1>2, <2>2, FS_Subset
  <2>4. QED
    BY <1>1, <1>2, <2>1, <2>3
<1>5. QED
  BY <1>3, <1>4 DEF PrunedIsBest, SparseInv

\* Neighbours are searched among vectors of one dimension and one kind, after a
\* completed run among exactly the vectors of that run, whatever calls failed and
\* whatever was configured before, and a sparse vector holds the best ids in
\* whatever order they came (VectorWriter and sparseVectorPruner of
\* logics/vector_writer.go).
THEOREM NeighboursAreWrittenAlways == NeighboursSpec => []NeighboursAreWritten
<1>1. NeighboursInit => WriterInv /\ SparseInv
  BY WriterStart, SparseStart DEF NeighboursInit
<1>2. WriterInv /\ SparseInv /\ [NeighboursNext]_<<writerVars, sparseVars>> => WriterInv' /\ SparseInv'
  BY WriterStep, SparseStep DEF NeighboursNext
<1>3. WriterInv /\ SparseInv => NeighboursAreWritten
  BY SparseIsBest DEF WriterInv, NeighboursAreWritten
<1>4. QED
  BY <1>1, <1>2, <1>3, PTL DEF NeighboursSpec

-----------------------------------------------------------------------------
(* Pages of an ordered set: DataPaging and RedisScores.                    *)

\* The members of S that fewer than n others precede, in the order R.
Top(S, R, n) == {x \in S : Cardinality({y \in S : <<y, x>> \in R}) < n}

\* R orders S strictly and totally.
Orders(S, R) ==
  /\ \A x \in S : <<x, x>> \notin R
  /\ \A x, y \in S : x = y \/ <<x, y>> \in R \/ <<y, x>> \in R
  /\ \A x, y, z \in S : <<x, y>> \in R /\ <<y, z>> \in R => <<x, z>> \in R

\* A member that precedes another has fewer before it.
LEMMA FewerBefore ==
  ASSUME NEW S, IsFiniteSet(S), NEW R, Orders(S, R), NEW x \in S, NEW y \in S, <<y, x>> \in R
  PROVE  /\ Cardinality({z \in S : <<z, y>> \in R}) < Cardinality({z \in S : <<z, x>> \in R})
<1> DEFINE X == {z \in S : <<z, x>> \in R}
           Y == {z \in S : <<z, y>> \in R}
<1>1. Y \subseteq X /\ y \in X /\ y \notin Y
  BY DEF Orders
<1>2. IsFiniteSet(X) /\ Cardinality(X) \in Nat /\ IsFiniteSet(Y) /\ Cardinality(Y) \in Nat
  BY FS_Subset, FS_CardinalityType
<1>3. Cardinality(Y) <= Cardinality(X) /\ (Cardinality(X) = Cardinality(Y) => X = Y)
  BY <1>1, <1>2, FS_Subset
<1>4. X # Y
  BY <1>1
<1> HIDE DEF X, Y
<1>5. Cardinality(Y) < Cardinality(X)
  BY <1>2, <1>3, <1>4
<1>6. QED
  BY <1>5 DEF X, Y

\* The first n are n, or all.
LEMMA TopCounts ==
  ASSUME NEW S, IsFiniteSet(S), NEW R, Orders(S, R), NEW n \in Nat
  PROVE  /\ IsFiniteSet(Top(S, R, n)) /\ Cardinality(Top(S, R, n)) \in Nat
         /\ Cardinality(Top(S, R, n)) <= n
         /\ Top(S, R, n) # S => Cardinality(Top(S, R, n)) = n
<1> DEFINE Pre(x) == {y \in S : <<y, x>> \in R}
           T == Top(S, R, n)
<1>1. \A x \in S : IsFiniteSet(Pre(x)) /\ Cardinality(Pre(x)) \in Nat
  BY FS_Subset, FS_CardinalityType
<1>2. T = {x \in S : Cardinality(Pre(x)) < n}
  BY DEF Top
<1>3. \A x, y \in S : <<y, x>> \in R => Cardinality(Pre(y)) < Cardinality(Pre(x))
  BY FewerBefore
<1>4. IsFiniteSet(T) /\ Cardinality(T) \in Nat
  BY <1>2, FS_Subset, FS_CardinalityType
<1>5. Cardinality(T) <= n
  <2>1. CASE T = {}
    BY <2>1, FS_EmptySet
  <2>2. CASE T # {}
    <3> DEFINE C == {Cardinality(Pre(x)) : x \in T}
    <3>1. C \in SUBSET (0..n) /\ C # {}
      <4>1. \A x \in T : Cardinality(Pre(x)) \in 0..n
        BY <1>1, <1>2
      <4>2. QED
        BY <2>2, <4>1
    <3>2. PICK c \in C : \A d \in C : d <= c
      BY <3>1, GreatestOf
    <3>3. PICK x \in T : c = Cardinality(Pre(x))
      OBVIOUS
    <3>4. T \subseteq Pre(x) \cup {x}
      <4> SUFFICES ASSUME NEW y \in T, y # x, y \notin Pre(x) PROVE FALSE
        OBVIOUS
      <4>1. y \in S /\ x \in S
        BY <1>2
      <4>2. <<x, y>> \in R
        BY <4>1 DEF Orders
      <4>3. Cardinality(Pre(x)) < Cardinality(Pre(y))
        BY <1>3, <4>1, <4>2
      <4>4. Cardinality(Pre(y)) <= Cardinality(Pre(x))
        BY <3>2, <3>3
      <4>5. QED
        BY <1>1, <4>1, <4>3, <4>4
    <3>5. x \in S /\ x \notin Pre(x) /\ Cardinality(Pre(x)) < n
      BY <1>2 DEF Orders
    <3>6. IsFiniteSet(Pre(x) \cup {x}) /\ Cardinality(Pre(x) \cup {x}) = Cardinality(Pre(x)) + 1
      BY <1>1, <3>5, FS_AddElement
    <3>7. Cardinality(T) <= Cardinality(Pre(x) \cup {x})
      BY <3>4, <3>6, FS_Subset
    <3> HIDE DEF T, Pre
    <3>8. QED
      BY <1>1, <1>4, <3>5, <3>6, <3>7
  <2>3. QED
    BY <2>1, <2>2
<1>6. ASSUME T # S PROVE Cardinality(T) = n
  <2> DEFINE C == {Cardinality(Pre(x)) : x \in S \ T}
  <2>1. C \in SUBSET Nat /\ C # {}
    <3>1. T \subseteq S
      BY <1>2
    <3>2. PICK x \in S : x \notin T
      BY <1>6, <3>1
    <3>3. Cardinality(Pre(x)) \in C
      BY <3>2
    <3>4. \A c \in C : c \in Nat
      BY <1>1
    <3>5. QED
      BY <3>3, <3>4
  <2>2. PICK c \in C : \A d \in C : c <= d
    BY <2>1, LeastOf
  <2>3. PICK x \in S \ T : c = Cardinality(Pre(x))
    OBVIOUS
  <2>4. Pre(x) \subseteq T
    <3> SUFFICES ASSUME NEW y \in Pre(x), y \notin T PROVE FALSE
      OBVIOUS
    <3>1. y \in S /\ Cardinality(Pre(y)) < Cardinality(Pre(x))
      BY <1>3
    <3>2. Cardinality(Pre(x)) <= Cardinality(Pre(y))
      BY <2>2, <2>3, <3>1
    <3>3. Cardinality(Pre(x)) \in Nat /\ Cardinality(Pre(y)) \in Nat
      BY <1>1, <2>3, <3>1
    <3> HIDE DEF Pre
    <3>4. QED
      BY <3>1, <3>2, <3>3
  <2>5. Cardinality(Pre(x)) <= Cardinality(T)
    BY <1>4, <2>4, FS_Subset
  <2>6. ~(Cardinality(Pre(x)) < n) /\ Cardinality(Pre(x)) \in Nat
    BY <1>1, <1>2, <2>3
  <2> HIDE DEF T, Pre
  <2>7. QED
    BY <1>4, <1>5, <2>5, <2>6
<1>7. QED
  BY <1>4, <1>5, <1>6

\* Rows are numbered from one.
LEMMA RanksAre == IsFiniteSet(Ranks) /\ \A r \in Ranks : r \in Nat /\ r > 0 /\ r <= NRows
<1>1. IsFiniteSet(Ranks)
  BY PagingAssumption, FS_Interval DEF Ranks
<1>2. \A r \in Ranks : r \in Nat /\ r > 0 /\ r <= NRows
  BY PagingAssumption DEF Ranks
<1>3. QED
  BY <1>1, <1>2

\* The first n rows are n, or all.
LEMMA FirstNCounts ==
  ASSUME NEW S \in SUBSET Ranks, NEW n \in Nat
  PROVE  /\ IsFiniteSet(FirstN(S, n)) /\ Cardinality(FirstN(S, n)) \in Nat
         /\ FirstN(S, n) # S => Cardinality(FirstN(S, n)) = n
         /\ \A r \in FirstN(S, n), q \in S : q < r => q \in FirstN(S, n)
<1> DEFINE R == {p \in S \X S : p[1] < p[2]}
<1>1. IsFiniteSet(S) /\ S \subseteq Nat
  <2>1. IsFiniteSet(S)
    BY RanksAre, FS_Subset
  <2>2. QED
    BY <2>1, RanksAre
<1>2. \A x, y \in S : <<x, y>> \in R <=> x < y
  OBVIOUS
<1>3. Orders(S, R)
  BY <1>1, <1>2 DEF Orders
<1>4. ASSUME NEW r \in S PROVE {q \in S : q < r} = {q \in S : <<q, r>> \in R}
  BY <1>2
<1>5. FirstN(S, n) = Top(S, R, n)
  BY <1>4 DEF FirstN, Top
<1> HIDE DEF R
<1>6. ASSUME NEW r \in FirstN(S, n), NEW q \in S, q < r PROVE q \in FirstN(S, n)
  <2>1. r \in S /\ <<q, r>> \in R /\ Cardinality({z \in S : <<z, r>> \in R}) < n
    BY <1>2, <1>5, <1>6 DEF Top
  <2>2. Cardinality({z \in S : <<z, q>> \in R}) < Cardinality({z \in S : <<z, r>> \in R})
    BY <1>1, <1>3, <2>1, FewerBefore
  <2>3. Cardinality({z \in S : <<z, q>> \in R}) \in Nat /\ Cardinality({z \in S : <<z, r>> \in R}) \in Nat
    BY <1>1, FS_Subset, FS_CardinalityType
  <2>4. QED
    BY <1>5, <2>1, <2>2, <2>3 DEF Top
<1>7. QED
  BY <1>1, <1>3, <1>5, <1>6, TopCounts

\* The last row of a page is its greatest.
LEMMA LastOfIsLast ==
  ASSUME NEW p \in SUBSET Ranks, p # {} PROVE LastOf(p) \in p /\ \A q \in p : q <= LastOf(p)
<1>1. p \in SUBSET (0..NRows)
  BY PagingAssumption DEF Ranks
<1>2. \E r \in p : \A q \in p : q <= r
  BY <1>1, PagingAssumption, GreatestOf
<1>3. QED
  BY <1>2 DEF LastOf

\* The rows a client is answered.
Visible == IF table = "feedback" THEN stored \ Future ELSE stored
Wanted == IF table = "feedback" THEN stayed \ Future ELSE stayed
Answered == UNION {answered[k] : k \in DOMAIN answered}
\* Whether a row is before the cursor.
Passed(r) == IF store = "sql" THEN r < cursor ELSE r <= cursor

\* The pages so far are disjoint, hold no row the cursor has not passed, and all
\* that were there throughout and that it has passed.
PagingInv ==
  /\ store \in {"sql", "mongo"} /\ table \in {"items", "users", "feedback"}
  /\ stored \subseteq Ranks /\ stayed \subseteq stored
  /\ cursor \in Nat
  /\ answered \in Seq(SUBSET Ranks)
  /\ \A j, k \in DOMAIN answered : j # k => answered[j] \cap answered[k] = {}
  /\ ~over => /\ \A r \in Answered : Passed(r)
              /\ \A r \in Wanted : Passed(r) => r \in Answered
  /\ over => Wanted \subseteq Answered

\* A page is what the store has after the cursor, up to the next cursor.
LEMMA PageIs ==
  ASSUME PagingInv, ~over
  PROVE  /\ Page.rows \subseteq Visible /\ Page.next \in Nat
         /\ \A r \in Page.rows : ~Passed(r)
         /\ Page.next = 0 => \A r \in Visible : Passed(r) \/ r \in Page.rows
         /\ Page.next # 0 => /\ \A r : Passed(r) => (IF store = "sql" THEN r < Page.next ELSE r <= Page.next) \/ r \notin Nat
                             /\ \A r \in Visible : (IF store = "sql" THEN r < Page.next ELSE r <= Page.next) => Passed(r) \/ r \in Page.rows
                             /\ \A r \in Page.rows : IF store = "sql" THEN r < Page.next ELSE r <= Page.next
<1>1. Page = IF store = "sql" THEN SQLPage(Visible) ELSE MongoPage(Visible)
  BY DEF PagingInv, Page, Visible, SQLGetItems, SQLGetUsers, SQLGetFeedback, MongoGetItems, MongoGetUsers, MongoGetFeedback
<1>2. Visible \subseteq Ranks /\ Ranks \subseteq Nat /\ (\A r \in Ranks : r > 0) /\ cursor \in Nat
  BY RanksAre DEF PagingInv, Visible
<1>3. CASE store = "sql"
  <2> DEFINE S == {r \in Visible : cursor # 0 => r >= cursor}
             p == FirstN(S, PageSize + 1)
  <2>1. S = {r \in Visible : ~(r < cursor)} /\ S \in SUBSET Ranks /\ PageSize + 1 \in Nat
    <3>1. \A r \in Visible : (cursor # 0 => r >= cursor) <=> ~(r < cursor)
      BY <1>2
    <3>2. S \in SUBSET Ranks
      BY <1>2
    <3>3. PageSize + 1 \in Nat
      BY PagingAssumption
    <3>4. QED
      BY <3>1, <3>2, <3>3
  <2>2. p \subseteq S
    BY DEF FirstN
  <2>3. /\ Cardinality(p) \in Nat
        /\ p # S => Cardinality(p) = PageSize + 1
        /\ \A r \in p, q \in S : q < r => q \in p
    BY <2>1, FirstNCounts
  <2>4. CASE Cardinality(p) = PageSize + 1
    <3>1. Page.rows = p \ {LastOf(p)} /\ Page.next = LastOf(p)
      BY <1>1, <1>3, <2>4 DEF SQLPage
    <3>2. p # {} /\ p \in SUBSET Ranks
      <4>1. PageSize + 1 # 0
        BY PagingAssumption
      <4>2. p # {}
        BY <2>4, <4>1, FS_EmptySet
      <4>3. QED
        BY <2>1, <2>2, <4>2
    <3>3. LastOf(p) \in p /\ \A q \in p : q <= LastOf(p)
      BY <3>2, LastOfIsLast
    <3>4. LastOf(p) \in Nat /\ LastOf(p) # 0 /\ cursor <= LastOf(p)
      <4>1. LastOf(p) \in Visible /\ ~(LastOf(p) < cursor)
        BY <2>1, <2>2, <3>3
      <4> HIDE DEF S, p
      <4>2. ASSUME NEW m \in Visible, ~(m < cursor) PROVE m \in Nat /\ m # 0 /\ cursor <= m
        <5>1. m \in Nat /\ m > 0 /\ cursor \in Nat
          BY <1>2
        <5>2. QED
          BY <4>2, <5>1
      <4>3. QED
        BY <4>1, <4>2
    <3> HIDE DEF S, p
    <3>5. QED
      <4>1. \A r \in p \ {LastOf(p)} : r < LastOf(p) /\ ~(r < cursor) /\ r \in Visible
        BY <1>2, <2>1, <2>2, <3>2, <3>3, <3>4
      <4>2. \A r \in Visible : r < LastOf(p) => r < cursor \/ r \in p \ {LastOf(p)}
        BY <1>2, <2>1, <2>3, <3>3, <3>4
      <4>3. \A r : r < cursor => r < LastOf(p) \/ r \notin Nat
        BY <1>2, <3>4
      <4>4. QED
        BY <1>3, <3>1, <3>4, <4>1, <4>2, <4>3 DEF Passed
  <2>5. CASE Cardinality(p) # PageSize + 1
    <3>1. Page.rows = S /\ Page.next = 0
      BY <1>1, <1>3, <2>3, <2>5 DEF SQLPage
    <3>2. QED
      BY <1>3, <2>1, <3>1 DEF Passed
  <2>6. QED
    BY <2>4, <2>5
<1>4. CASE store = "mongo"
  <2> DEFINE S == {r \in Visible : r > cursor}
             p == FirstN(S, PageSize)
  <2>1. S = {r \in Visible : ~(r <= cursor)} /\ S \in SUBSET Ranks /\ PageSize \in Nat
    <3>1. \A r \in Visible : r > cursor <=> ~(r <= cursor)
      BY <1>2
    <3>2. S \in SUBSET Ranks
      BY <1>2
    <3>3. QED
      BY <3>1, <3>2, PagingAssumption
  <2>2. p \subseteq S
    BY DEF FirstN
  <2>3. /\ Cardinality(p) \in Nat
        /\ p # S => Cardinality(p) = PageSize
        /\ \A r \in p, q \in S : q < r => q \in p
    BY <2>1, FirstNCounts
  <2>4. Page.rows = p /\ Page.next = IF Cardinality(p) = PageSize THEN LastOf(p) ELSE 0
    BY <1>1, <1>4 DEF MongoPage
  <2>5. CASE Cardinality(p) = PageSize
    <3>1. p # {} /\ p \in SUBSET Ranks
      BY <2>1, <2>2, <2>5, FS_EmptySet, PagingAssumption
    <3>2. LastOf(p) \in p /\ \A q \in p : q <= LastOf(p)
      BY <3>1, LastOfIsLast
    <3>3. LastOf(p) \in Nat /\ LastOf(p) # 0 /\ cursor <= LastOf(p)
      <4>1. LastOf(p) \in Visible /\ ~(LastOf(p) <= cursor)
        BY <2>1, <2>2, <3>2
      <4> HIDE DEF S, p
      <4>2. ASSUME NEW m \in Visible, ~(m <= cursor) PROVE m \in Nat /\ m # 0 /\ cursor <= m
        <5>1. m \in Nat /\ m > 0 /\ cursor \in Nat
          BY <1>2
        <5>2. QED
          BY <4>2, <5>1
      <4>3. QED
        BY <4>1, <4>2
    <3> HIDE DEF S, p
    <3>4. QED
      <4>1. \A r \in p : r <= LastOf(p) /\ ~(r <= cursor) /\ r \in Visible
        BY <2>1, <2>2, <3>2
      <4>2. \A r \in Visible : r <= LastOf(p) => r <= cursor \/ r \in p
        BY <1>2, <2>1, <2>3, <3>2, <3>3
      <4>3. \A r : r <= cursor => r <= LastOf(p) \/ r \notin Nat
        BY <1>2, <3>3
      <4>4. QED
        BY <1>4, <2>4, <2>5, <3>3, <4>1, <4>2, <4>3 DEF Passed
  <2>6. CASE Cardinality(p) # PageSize
    <3>1. Page.rows = S /\ Page.next = 0
      BY <2>3, <2>4, <2>6
    <3>2. QED
      BY <1>4, <2>1, <3>1 DEF Passed
  <2>7. QED
    BY <2>5, <2>6
<1>5. QED
  BY <1>3, <1>4 DEF PagingInv

\* A page keeps the invariant of paging.
LEMMA GetPageKeeps == ASSUME PagingInv, GetPage PROVE PagingInv'
<1> DEFINE P == Page.rows
<1>1. /\ ~over /\ answered' = Append(answered, P) /\ cursor' = Page.next
      /\ UNCHANGED <<store, table, stored, stayed>>
  BY DEF GetPage
<1>2. over' <=> Page.next = 0
  BY Zenon DEF GetPage
<1>3. /\ P \subseteq Visible /\ Page.next \in Nat
      /\ \A r \in P : ~Passed(r)
      /\ Page.next = 0 => \A r \in Visible : Passed(r) \/ r \in P
      /\ Page.next # 0 => /\ \A r : Passed(r) => (IF store = "sql" THEN r < Page.next ELSE r <= Page.next) \/ r \notin Nat
                          /\ \A r \in Visible : (IF store = "sql" THEN r < Page.next ELSE r <= Page.next) => Passed(r) \/ r \in P
                          /\ \A r \in P : IF store = "sql" THEN r < Page.next ELSE r <= Page.next
  BY <1>1, PageIs
<1> HIDE DEF P
<1>4. Visible \subseteq Ranks /\ Wanted \subseteq Visible /\ Wanted' = Wanted
  BY <1>1 DEF PagingInv, Visible, Wanted
<1>5. answered \in Seq(SUBSET Ranks) /\ P \in SUBSET Ranks /\ answered' \in Seq(SUBSET Ranks)
  BY <1>1, <1>3, <1>4 DEF PagingInv
<1>6. /\ DOMAIN answered = 1..Len(answered) /\ DOMAIN answered' = 1..(Len(answered) + 1) /\ Len(answered) \in Nat
      /\ \A k \in DOMAIN answered : answered'[k] = answered[k]
      /\ answered'[Len(answered) + 1] = P
  BY <1>1, <1>5
<1>7. \A r \in Answered : Passed(r) /\ r \in Nat
  BY <1>1, <1>5, RanksAre DEF PagingInv, Answered
<1>8. Answered' = Answered \cup P
  <2>1. \A k \in DOMAIN answered' : k \in DOMAIN answered \/ k = Len(answered) + 1
    BY <1>6
  <2>2. DOMAIN answered \subseteq DOMAIN answered' /\ Len(answered) + 1 \in DOMAIN answered'
    BY <1>6
  <2>3. QED
    BY <1>6, <2>1, <2>2 DEF Answered
<1>9. \A j, k \in DOMAIN answered' : j # k => answered'[j] \cap answered'[k] = {}
  <2>1. \A k \in DOMAIN answered : answered[k] \cap P = {}
    BY <1>3, <1>7 DEF Answered
  <2>2. \A k \in DOMAIN answered' : k \in DOMAIN answered \/ k = Len(answered) + 1
    BY <1>6
  <2>3. QED
    BY <1>6, <2>1, <2>2 DEF PagingInv
<1>10. \A r \in Wanted : Passed(r) => r \in Answered
  BY <1>1 DEF PagingInv
<1>11. over' => Wanted' \subseteq Answered'
  BY <1>2, <1>3, <1>4, <1>8, <1>10
<1>12. ASSUME ~over'
       PROVE  /\ \A r \in Answered' : IF store' = "sql" THEN r < cursor' ELSE r <= cursor'
              /\ \A r \in Wanted' : (IF store' = "sql" THEN r < cursor' ELSE r <= cursor') => r \in Answered'
  <2>1. Page.next # 0
    BY <1>2, <1>12
  <2>2. \A r \in Answered' : IF store = "sql" THEN r < Page.next ELSE r <= Page.next
    BY <1>3, <1>7, <1>8, <2>1
  <2>3. \A r \in Wanted : (IF store = "sql" THEN r < Page.next ELSE r <= Page.next) => r \in Answered \cup P
    BY <1>3, <1>4, <1>10, <2>1
  <2>4. QED
    BY <1>1, <1>4, <1>8, <2>2, <2>3
<1>13. QED
  BY <1>1, <1>3, <1>5, <1>9, <1>11, <1>12 DEF PagingInv, Passed

\* Every step of paging and of the writers beside it keeps the invariant.
LEMMA PagingStep == PagingInv /\ [PagingNext]_pagingVars => PagingInv'
<1> SUFFICES ASSUME PagingInv, [PagingNext]_pagingVars PROVE PagingInv'
  OBVIOUS
<1>1. ASSUME UNCHANGED <<store, table, cursor, answered, over>>, stored' \subseteq Ranks, stayed' \subseteq stored', stayed' \subseteq stayed
      PROVE  PagingInv'
  <2>1. Wanted' \subseteq Wanted /\ Answered' = Answered /\ \A r : Passed(r)' <=> Passed(r)
    BY <1>1 DEF Wanted, Answered, Passed
  <2>2. QED
    BY <1>1, <2>1 DEF PagingInv
<1>2. CASE UNCHANGED pagingVars
  BY <1>1, <1>2 DEF pagingVars, PagingInv
<1>3. ASSUME NEW r \in Ranks, InsertRow(r) \/ DeleteRow(r) PROVE PagingInv'
  BY <1>1, <1>3 DEF InsertRow, DeleteRow, PagingInv
<1>4. QED
  BY <1>2, <1>3, GetPageKeeps DEF PagingNext

\* Whatever is inserted and deleted between two pages, no row is answered twice
\* and every row that was there throughout is answered (GetItems, GetUsers and
\* GetFeedback of storage/data/sql.go and mongodb.go).
THEOREM PagesCoverOnceAlways == PagingSpec => []PagesCoverOnce
<1>1. PagingInit => PagingInv
  <2> SUFFICES ASSUME PagingInit PROVE PagingInv
    OBVIOUS
  <2>1. DOMAIN answered = {} /\ answered \in Seq(SUBSET Ranks)
    BY DEF PagingInit
  <2>2. \A r \in Wanted : ~Passed(r)
    BY RanksAre DEF PagingInit, Wanted, Passed
  <2>3. QED
    BY <2>1, <2>2 DEF PagingInit, PagingInv, Answered
<1>2. PagingInv => PagesCoverOnce
  BY DEF PagingInv, PagesCoverOnce, Wanted, Answered
<1>3. QED
  BY <1>1, <1>2, PagingStep, PTL DEF PagingSpec

\* Keys are finitely many numbers.
LEMMA RKeysAre == IsFiniteSet(RKeys) /\ \A k \in RKeys : k \in Nat
<1>1. IsFiniteSet(RKeys)
  BY RedisAssumption, FS_Interval DEF RKeys
<1>2. \A k \in RKeys : k \in Nat
  BY RedisAssumption DEF RKeys
<1>3. QED
  BY <1>1, <1>2

\* A search orders the keys it answers.
LEMMA SearchOrders ==
  ASSUME NEW S \in SUBSET RKeys
  PROVE  \E R : /\ Orders(S, R) /\ IsFiniteSet(S)
                /\ \A k \in S : {j \in S : <<j, k>> \in R} = {j \in S : j > k}
                /\ \A j, k \in S : <<j, k>> \in R <=> j > k
<1> DEFINE R == {p \in S \X S : p[1] > p[2]}
<1>1. IsFiniteSet(S) /\ \A k \in S : k \in Nat
  <2>1. IsFiniteSet(S)
    BY RKeysAre, FS_Subset
  <2>2. QED
    BY <2>1, RKeysAre
<1>2. \A x, y \in S : <<x, y>> \in R <=> x > y
  OBVIOUS
<1> HIDE DEF R
<1>3. Orders(S, R)
  BY <1>1, <1>2 DEF Orders
<1>4. \A k \in S : {j \in S : <<j, k>> \in R} = {j \in S : j > k}
  BY <1>2
<1>5. QED
  BY <1>1, <1>2, <1>3, <1>4

\* The place of a key is a number, no two keys have the same, and a new key moves
\* the others by one at most.
LEMMA Places ==
  ASSUME NEW S \in SUBSET RKeys
  PROVE  /\ \A k : Before(S, k) \in Nat
         /\ \A j, k \in S : Before(S, j) = Before(S, k) => j = k
         /\ \A i \in RKeys : \A k : i \notin S => Before(S \cup {i}, k) \in {Before(S, k), Before(S, k) + 1}
<1>1. PICK R : /\ Orders(S, R) /\ IsFiniteSet(S)
               /\ \A k \in S : {j \in S : <<j, k>> \in R} = {j \in S : j > k}
               /\ \A j, k \in S : <<j, k>> \in R <=> j > k
  BY SearchOrders
<1>2. ASSUME NEW k PROVE IsFiniteSet({j \in S : j > k}) /\ Before(S, k) \in Nat
  BY <1>1, FS_Subset, FS_CardinalityType DEF Before
<1>3. ASSUME NEW j \in S, NEW k \in S, <<j, k>> \in R PROVE Before(S, j) < Before(S, k)
  <2>1. Cardinality({z \in S : <<z, j>> \in R}) < Cardinality({z \in S : <<z, k>> \in R})
    BY <1>1, <1>3, FewerBefore
  <2>2. QED
    BY <1>1, <2>1 DEF Before
<1>4. ASSUME NEW j \in S, NEW k \in S, Before(S, j) = Before(S, k) PROVE j = k
  <2>1. j = k \/ <<j, k>> \in R \/ <<k, j>> \in R
    BY <1>1 DEF Orders
  <2>2. Before(S, j) \in Nat /\ Before(S, k) \in Nat
    BY <1>2
  <2>3. ~(Before(S, j) < Before(S, k)) /\ ~(Before(S, k) < Before(S, j))
    BY <1>4, <2>2
  <2>4. QED
    BY <1>3, <2>1, <2>3
<1>5. ASSUME NEW i \in RKeys, NEW k, i \notin S PROVE Before(S \cup {i}, k) \in {Before(S, k), Before(S, k) + 1}
  <2> DEFINE A == {j \in S : j > k}
             B == {j \in S \cup {i} : j > k}
  <2>1. B = A \/ B = A \cup {i}
    OBVIOUS
  <2>2. i \notin A /\ IsFiniteSet(A)
    BY <1>2, <1>5
  <2>3. Cardinality(A \cup {i}) = Cardinality(A) + 1
    BY <2>2, FS_AddElement
  <2>4. QED
    BY <2>1, <2>3 DEF Before
<1>6. QED
  BY <1>2, <1>4, <1>5

\* A page has at most Limit keys, and if it has fewer it is the last.
LEMMA PageCounts ==
  ASSUME NEW S \in SUBSET RKeys, NEW o \in Nat
  PROVE  /\ IsFiniteSet(PageOf(S, o)) /\ Cardinality(PageOf(S, o)) \in Nat
         /\ Cardinality(PageOf(S, o)) <= Limit
         /\ Cardinality(PageOf(S, o)) # Limit => \A k \in S : Before(S, k) < o + Limit
<1>1. PICK R : /\ Orders(S, R) /\ IsFiniteSet(S)
               /\ \A k \in S : {j \in S : <<j, k>> \in R} = {j \in S : j > k}
  BY SearchOrders
<1> DEFINE T1 == Top(S, R, o)
           T2 == Top(S, R, o + Limit)
           P == PageOf(S, o)
<1>2. Limit \in Nat /\ Limit # 0 /\ o + Limit \in Nat
  BY RedisAssumption
<1>3. \A n \in Nat : Top(S, R, n) = {k \in S : Before(S, k) < n}
  BY <1>1 DEF Top, Before
<1>4. \A k : Before(S, k) \in Nat
  BY Places
<1>5. T1 \subseteq T2 /\ P = T2 \ T1
  <2>1. T1 = {k \in S : Before(S, k) < o} /\ T2 = {k \in S : Before(S, k) < o + Limit}
    BY <1>2, <1>3
  <2>2. \A k : /\ Before(S, k) < o => Before(S, k) < o + Limit
               /\ o <= Before(S, k) <=> ~(Before(S, k) < o)
    BY <1>2, <1>4
  <2>3. QED
    BY <2>1, <2>2 DEF PageOf
<1>6. /\ IsFiniteSet(T1) /\ Cardinality(T1) \in Nat /\ Cardinality(T1) <= o
      /\ T1 # S => Cardinality(T1) = o
  BY <1>1, TopCounts
<1>7. /\ IsFiniteSet(T2) /\ Cardinality(T2) \in Nat /\ Cardinality(T2) <= o + Limit
      /\ T2 # S => Cardinality(T2) = o + Limit
  BY <1>1, <1>2, TopCounts
<1>8. T2 = S => \A k \in S : Before(S, k) < o + Limit
  BY <1>2, <1>3
<1>9. T1 \subseteq S /\ T2 \subseteq S
  BY DEF Top
<1> HIDE DEF T1, T2, P
<1>10. IsFiniteSet(P) /\ Cardinality(P) = Cardinality(T2) - Cardinality(T2 \cap T1)
  BY <1>5, <1>6, <1>7, FS_Difference
<1>11. T2 \cap T1 = T1
  BY <1>5
<1>12. CASE T1 = S
  <2>1. P = {} /\ T2 = S
    BY <1>5, <1>9, <1>12
  <2>2. QED
    BY <1>2, <1>8, <2>1, FS_EmptySet DEF P
<1>13. CASE T1 # S
  <2>1. Cardinality(P) = Cardinality(T2) - o /\ Cardinality(T1) = o
    BY <1>6, <1>10, <1>11, <1>13
  <2>2. Cardinality(P) \in Nat
    BY <1>10, FS_CardinalityType
  <2>3. Cardinality(P) <= Limit /\ (Cardinality(P) # Limit => T2 = S)
    BY <1>2, <1>7, <2>1, <2>2
  <2>4. QED
    BY <1>8, <1>10, <2>2, <2>3 DEF P
<1>14. QED
  BY <1>12, <1>13

Statuses == {"none", "old", "new", "part"}

RedisTypeOK ==
  /\ hash \in [RKeys -> Statuses]
  /\ hidden \in [RKeys -> BOOLEAN]
  /\ upd \in [pc : {"page", "check", "set", "done"}, keys : SUBSET RKeys, offset : Nat, key : RKeys \cup {0}]
  /\ adds \in Nat /\ adds <= MaxAdds
  /\ watched \subseteq RKeys /\ kept \subseteq RKeys

\* The keys found so far at offset o or after it.
Later(W, o) == {k \in upd.keys : Before(W, k) >= o}

\* While no document is deleted, every one before the offset is found, and no
\* more are found twice than were added.
Paged ==
  /\ upd.keys \subseteq Whole(hash)
  /\ \A k \in watched : Before(Whole(hash), k) < upd.offset => k \in upd.keys
  /\ Cardinality(Later(Whole(hash), upd.offset)) <= adds

\* What is still to be patched, and what a search for old documents has seen.
RedisInv ==
  /\ RedisTypeOK
  /\ watched \subseteq Whole(hash)
  /\ upd.pc = "page" /\ watched # {} => Paged
  /\ upd.pc \in {"check", "set"} => \A k \in watched : k \in upd.keys \/ hidden[k] \/ (upd.pc = "set" /\ k = upd.key)
  /\ upd.pc = "set" => upd.key \in RKeys
  /\ UpdateReachesAll
  /\ del.pc = "del" /\ DeleteEnds => OldKeys \subseteq del.docs
  /\ del.pc = "done" => OldKeys = {}

\* At the start nothing has been found.
LEMMA RedisStart == RedisInit => RedisInv
<1> SUFFICES ASSUME RedisInit PROVE RedisInv
  OBVIOUS
<1>1. RedisTypeOK
  BY RedisAssumption DEF RedisInit, RedisTypeOK, Whole, Statuses
<1>2. Whole(hash) \in SUBSET RKeys
  BY DEF Whole
<1>3. Paged
  <2>1. Later(Whole(hash), upd.offset) = {}
    BY DEF RedisInit, Later
  <2>2. Cardinality(Later(Whole(hash), upd.offset)) = 0
    BY <2>1, FS_EmptySet
  <2>3. \A k : ~(Before(Whole(hash), k) < 0)
    BY <1>2, Places
  <2>4. QED
    BY <2>2, <2>3 DEF RedisInit, Paged
<1>4. QED
  BY <1>1, <1>3 DEF RedisInit, RedisInv, UpdateReachesAll

\* A document that is added moves at most one found key past the offset.
LEMMA AddKeepsPaged ==
  ASSUME RedisInv, Paged, NEW j \in RKeys, AddScore(j) PROVE Paged'
<1> DEFINE W == Whole(hash)
           o == upd.offset
           A == Later(W, o)
<1>1. /\ adds' = adds + 1 /\ adds \in Nat /\ upd' = upd /\ watched' = watched \ {j}
      /\ hash' = [hash EXCEPT ![j] = "new"] /\ o \in Nat /\ upd.keys \subseteq W
      /\ watched \subseteq W
  BY DEF AddScore, RedisInv, RedisTypeOK, Paged
<1>2. Whole(hash') = W \cup {j}
  BY <1>1 DEF Whole, RedisInv, RedisTypeOK, Statuses
<1>3. W \in SUBSET RKeys /\ W \cup {j} \in SUBSET RKeys
  BY DEF Whole
<1>4. /\ \A k : Before(W, k) \in Nat
      /\ \A i, k \in W : Before(W, i) = Before(W, k) => i = k
      /\ j \notin W => \A k : Before(W \cup {j}, k) \in {Before(W, k), Before(W, k) + 1}
  BY <1>3, Places
<1>5. ASSUME NEW k PROVE Before(W \cup {j}, k) \in {Before(W, k), Before(W, k) + 1}
  <2>1. CASE j \in W
    <3>1. W \cup {j} = W
      BY <2>1
    <3>2. QED
      BY <3>1
  <2>2. QED
    BY <1>4, <2>1
<1>6. IsFiniteSet(A) /\ Cardinality(A) \in Nat /\ Cardinality(A) <= adds
  <2>1. IsFiniteSet(RKeys) /\ A \subseteq RKeys
    BY <1>1, <1>3, RKeysAre DEF Later
  <2>2. QED
    BY <2>1, FS_Subset, FS_CardinalityType DEF Paged
<1> DEFINE B == {k \in upd.keys : Before(W \cup {j}, k) >= o}
<1>7. ASSUME NEW x \in B \ A, NEW y \in B \ A PROVE x = y
  <2>1. /\ ~(Before(W, x) >= o) /\ Before(W \cup {j}, x) >= o
        /\ ~(Before(W, y) >= o) /\ Before(W \cup {j}, y) >= o /\ x \in W /\ y \in W
    BY <1>1, <1>7 DEF Later
  <2>2. ASSUME NEW b \in Nat, NEW c \in {b, b + 1}, ~(b >= o), c >= o PROVE b = o - 1
    BY <1>1, <2>2
  <2>3. Before(W, x) = o - 1
    BY <1>4, <1>5, <2>1, <2>2
  <2>4. Before(W, y) = o - 1
    BY <1>4, <1>5, <2>1, <2>2
  <2>5. QED
    BY <1>4, <2>1, <2>3, <2>4
<1>8. Cardinality(B) <= adds + 1
  <2>1. CASE B \subseteq A
    <3>1. Cardinality(B) <= Cardinality(A) /\ IsFiniteSet(B)
      BY <1>6, <2>1, FS_Subset
    <3>2. Cardinality(B) \in Nat
      BY <3>1, FS_CardinalityType
    <3> HIDE DEF A, B
    <3>3. QED
      BY <1>1, <1>6, <3>1, <3>2
  <2>2. CASE ~(B \subseteq A)
    <3>1. PICK x \in B : x \notin A
      BY <2>2
    <3>2. B \subseteq A \cup {x}
      BY <1>7, <3>1
    <3>3. IsFiniteSet(A \cup {x}) /\ Cardinality(A \cup {x}) = Cardinality(A) + 1
      BY <1>6, <3>1, FS_AddElement
    <3>4. Cardinality(B) <= Cardinality(A \cup {x}) /\ IsFiniteSet(B)
      BY <3>2, <3>3, FS_Subset
    <3>5. Cardinality(B) \in Nat
      BY <3>4, FS_CardinalityType
    <3> HIDE DEF A, B
    <3>6. QED
      BY <1>1, <1>6, <3>3, <3>4, <3>5
  <2>3. QED
    BY <2>1, <2>2
<1>9. Later(Whole(hash), upd.offset)' = B
  BY <1>1, <1>2 DEF Later
<1>10. \A k \in watched' : Before(W \cup {j}, k) < o => k \in upd.keys
  <2> SUFFICES ASSUME NEW k \in watched, Before(W \cup {j}, k) < o PROVE k \in upd.keys
    BY <1>1
  <2>1. Before(W, k) < o
    <3>1. ASSUME NEW b \in Nat, NEW c \in {b, b + 1}, c < o PROVE b < o
      BY <1>1, <3>1
    <3>2. QED
      BY <1>4, <1>5, <3>1
  <2>2. QED
    BY <2>1 DEF Paged
<1>11. QED
  BY <1>1, <1>2, <1>8, <1>9, <1>10 DEF Paged

\* A page keeps the invariant, and the last leaves no watched key out.
LEMMA FindKeeps ==
  ASSUME MaxAdds < Limit, RedisInv, UpdateFind, watched # {}
  PROVE  /\ upd'.pc = "page" => Paged'
         /\ upd'.pc = "check" => \A k \in watched : k \in upd'.keys
<1> DEFINE W == Whole(hash)
           o == upd.offset
           page == PageOf(W, o)
<1>1. /\ upd.pc = "page" /\ Paged /\ o \in Nat /\ adds \in Nat /\ adds <= MaxAdds /\ watched \subseteq W
      /\ upd.keys \subseteq RKeys
  BY DEF UpdateFind, RedisInv, RedisTypeOK
<1>2. /\ upd' = [pc |-> IF NextPage(page, page \ upd.keys) THEN "page" ELSE "check",
                 keys |-> upd.keys \cup page, offset |-> o + Cardinality(page), key |-> 0]
      /\ UNCHANGED <<hash, adds, watched>>
  BY DEF UpdateFind
<1>3. W \in SUBSET RKeys
  BY DEF Whole
<1>4. /\ IsFiniteSet(page) /\ Cardinality(page) \in Nat /\ Cardinality(page) <= Limit
      /\ Cardinality(page) # Limit => \A k \in W : Before(W, k) < o + Limit
  BY <1>1, <1>3, PageCounts
<1>5. (\A k : Before(W, k) \in Nat) /\ Limit \in Nat /\ MaxAdds \in Nat
  BY <1>3, Places, RedisAssumption
<1>6. page = {k \in W : ~(Before(W, k) < o) /\ Before(W, k) < o + Limit}
  BY <1>1, <1>5 DEF PageOf
<1>7. \A k \in watched : Before(W, k) < o + Limit => k \in upd.keys \cup page
  BY <1>1, <1>6 DEF Paged
<1>8. ASSUME upd'.pc = "page" PROVE Paged'
  <2>1. Cardinality(page) = Limit /\ upd'.offset = o + Limit /\ upd'.keys = upd.keys \cup page
    BY <1>2, <1>8 DEF NextPage
  <2> DEFINE A == Later(W, o)
             B == {k \in upd'.keys : Before(W, k) >= o + Limit}
  <2>2. B \subseteq A
    BY <1>1, <1>5, <1>6, <2>1 DEF Later
  <2>3. IsFiniteSet(A) /\ Cardinality(A) \in Nat /\ Cardinality(A) <= adds
    <3>1. IsFiniteSet(RKeys) /\ A \subseteq RKeys
      BY <1>1, RKeysAre DEF Later
    <3>2. QED
      BY <1>1, <3>1, FS_Subset, FS_CardinalityType DEF Paged
  <2>4. Cardinality(B) <= Cardinality(A) /\ Cardinality(B) \in Nat
    BY <2>2, <2>3, FS_Subset, FS_CardinalityType
  <2>5. Cardinality(B) <= adds
    <3> HIDE DEF A, B
    <3>1. QED
      BY <1>1, <2>3, <2>4
  <2>6. Later(Whole(hash), upd.offset)' = B
    BY <1>2, <2>1 DEF Later
  <2>7. upd'.keys \subseteq W
    BY <1>1, <1>6, <2>1 DEF Paged
  <2>8. QED
    BY <1>2, <1>7, <2>1, <2>5, <2>6, <2>7 DEF Paged
<1>9. ASSUME upd'.pc = "check" PROVE \A k \in watched : k \in upd'.keys
  <2>1. upd'.keys = upd.keys \cup page
    BY <1>2
  <2>2. CASE Cardinality(page) # Limit
    BY <1>1, <1>4, <1>7, <2>1, <2>2
  <2>3. CASE Cardinality(page) = Limit
    <3>1. page \subseteq upd.keys
      BY <1>2, <1>9, <2>3 DEF NextPage
    <3>2. page \subseteq Later(W, o)
      BY <1>1, <1>5, <1>6, <3>1 DEF Later
    <3>3. IsFiniteSet(Later(W, o)) /\ Cardinality(Later(W, o)) \in Nat /\ Cardinality(Later(W, o)) <= adds
      <4>1. IsFiniteSet(RKeys) /\ Later(W, o) \subseteq RKeys
        BY <1>1, RKeysAre DEF Later
      <4>2. QED
        BY <1>1, <4>1, FS_Subset, FS_CardinalityType DEF Paged
    <3>4. Cardinality(page) <= Cardinality(Later(W, o))
      BY <3>2, <3>3, FS_Subset
    <3> HIDE DEF page, W, o
    <3>5. QED
      BY <1>1, <1>4, <1>5, <2>3, <3>3, <3>4
  <2>4. QED
    BY <2>2, <2>3
<1>10. QED
  BY <1>8, <1>9

\* Every step of the four clients keeps the invariant.
LEMMA RedisStep == ASSUME MaxAdds < Limit PROVE RedisInv /\ [RedisNext]_redisVars => RedisInv'
<1> SUFFICES ASSUME RedisInv, [RedisNext]_redisVars PROVE RedisInv'
  OBVIOUS
<1>0. RedisTypeOK /\ watched \subseteq Whole(hash)
  BY DEF RedisInv
<1>1. ASSUME NEW j \in RKeys, AddScore(j) PROVE RedisInv'
  <2>1. /\ adds < MaxAdds /\ adds' = adds + 1 /\ hash' = [hash EXCEPT ![j] = "new"]
        /\ hidden' = [hidden EXCEPT ![j] = FALSE] /\ watched' = watched \ {j} /\ kept' = kept \ {j} /\ UNCHANGED <<upd, del>>
    BY <1>1 DEF AddScore
  <2>2. RedisTypeOK'
    BY <1>0, <2>1, RedisAssumption DEF RedisTypeOK, Statuses
  <2>3. watched' \subseteq Whole(hash')
    BY <1>0, <2>1 DEF RedisTypeOK, Whole, Statuses
  <2>4. upd'.pc = "page" /\ watched' # {} => Paged'
    BY <1>1, <2>1, AddKeepsPaged DEF RedisInv
  <2>5. \A k \in watched' : hidden'[k] = hidden[k] /\ k \in watched
    BY <1>0, <2>1 DEF RedisTypeOK
  <2>6. OldKeys' \subseteq OldKeys
    BY <1>0, <2>1 DEF RedisTypeOK, OldKeys
  <2>7. UpdateReachesAll'
    BY <2>1, <2>5 DEF RedisInv, UpdateReachesAll
  <2>8. QED
    BY <2>1, <2>2, <2>3, <2>4, <2>5, <2>6, <2>7 DEF RedisInv, DeleteEnds
<1>2. CASE UpdateFind
  <2> DEFINE page == PageOf(Whole(hash), upd.offset)
  <2>1. /\ upd' = [pc |-> IF NextPage(page, page \ upd.keys) THEN "page" ELSE "check",
                   keys |-> upd.keys \cup page, offset |-> upd.offset + Cardinality(page), key |-> 0]
        /\ UNCHANGED <<hash, hidden, del, adds, watched, kept>>
    BY <1>2 DEF UpdateFind
  <2>2. page \subseteq RKeys /\ Cardinality(page) \in Nat
    <3>1. Whole(hash) \in SUBSET RKeys /\ upd.offset \in Nat
      BY <1>0 DEF Whole, RedisTypeOK
    <3>2. page \subseteq Whole(hash)
      BY DEF PageOf
    <3>3. QED
      BY <3>1, <3>2, PageCounts
  <2>3. RedisTypeOK'
    <3> HIDE DEF page
    <3>1. QED
      BY <1>0, <2>1, <2>2 DEF RedisTypeOK
  <2>4. upd'.pc \in {"page", "check"}
    BY <2>1
  <2>5. watched # {} => (upd'.pc = "page" => Paged') /\ (upd'.pc = "check" => \A k \in watched : k \in upd'.keys)
    BY <1>2, FindKeeps
  <2>6. OldKeys' = OldKeys /\ Whole(hash') = Whole(hash)
    BY <2>1 DEF OldKeys
  <2>7. QED
    BY <1>0, <2>1, <2>3, <2>4, <2>5, <2>6 DEF RedisInv, UpdateReachesAll, DeleteEnds
<1>3. CASE UpdateExists
  <2>1. UNCHANGED <<hash, hidden, del, adds, watched, kept>> /\ upd.pc = "check"
    BY <1>3 DEF UpdateExists
  <2>2. OldKeys' = OldKeys /\ Whole(hash') = Whole(hash)
    BY <2>1 DEF OldKeys
  <2>3. CASE upd.keys = {} /\ upd' = [upd EXCEPT !.pc = "done"]
    <3>1. RedisTypeOK' /\ upd'.pc = "done"
      BY <1>0, <2>1, <2>3 DEF RedisTypeOK
    <3>2. \A k \in watched : hidden[k]
      BY <2>1, <2>3 DEF RedisInv
    <3>3. QED
      BY <1>0, <2>1, <2>2, <3>1, <3>2 DEF RedisInv, UpdateReachesAll, DeleteEnds
  <2>4. ASSUME NEW k \in upd.keys,
               upd' = IF hash[k] = "none" THEN [upd EXCEPT !.keys = @ \ {k}]
                      ELSE [upd EXCEPT !.keys = @ \ {k}, !.pc = "set", !.key = k]
        PROVE  RedisInv'
    <3>1. k \in RKeys /\ upd'.keys = upd.keys \ {k} /\ (hash[k] = "none" => upd'.pc = "check")
          /\ (hash[k] # "none" => upd'.pc = "set" /\ upd'.key = k)
      BY <1>0, <2>1, <2>4 DEF RedisTypeOK
    <3>2. RedisTypeOK'
      BY <1>0, <2>1, <2>4, <3>1 DEF RedisTypeOK
    <3>3. hash[k] = "none" => k \notin watched
      BY <1>0 DEF Whole
    <3>4. \A i \in watched' : i \in upd'.keys \/ hidden'[i] \/ (upd'.pc = "set" /\ i = upd'.key)
      BY <2>1, <3>1, <3>3 DEF RedisInv
    <3>5. upd'.pc \in {"check", "set"} /\ (upd'.pc = "set" => upd'.key \in RKeys)
      BY <3>1
    <3>6. QED
      BY <1>0, <2>1, <2>2, <3>2, <3>4, <3>5 DEF RedisInv, UpdateReachesAll, DeleteEnds
  <2>5. QED
    BY <1>3, <2>3, <2>4 DEF UpdateExists
<1>4. CASE UpdateSet
  <2>1. /\ upd.pc = "set" /\ hash' = [hash EXCEPT ![upd.key] = IF @ = "none" THEN "part" ELSE @]
        /\ hidden' = [hidden EXCEPT ![upd.key] = TRUE] /\ upd' = [upd EXCEPT !.pc = "check", !.key = 0]
        /\ UNCHANGED <<del, adds, watched, kept>>
    BY <1>4 DEF UpdateSet
  <2>2. upd.key \in RKeys /\ upd'.pc = "check" /\ upd'.keys = upd.keys
    BY <1>0, <2>1 DEF RedisInv, RedisTypeOK
  <2>3. RedisTypeOK'
    BY <1>0, <2>1, <2>2 DEF RedisTypeOK, Statuses
  <2>4. OldKeys' = OldKeys /\ Whole(hash') = Whole(hash)
    BY <1>0, <2>1, <2>2 DEF OldKeys, Whole, RedisTypeOK, Statuses
  <2>5. \A i \in watched : i \in upd.keys \/ hidden'[i]
    BY <1>0, <2>1, <2>2 DEF RedisInv, RedisTypeOK
  <2>6. QED
    BY <1>0, <2>1, <2>2, <2>3, <2>4, <2>5 DEF RedisInv, UpdateReachesAll, DeleteEnds
<1>5. CASE DeleteFind
  <2>1. /\ del' = [pc |-> "del", docs |-> PageOf(OldKeys, 0), total |-> Cardinality(OldKeys)]
        /\ UNCHANGED <<hash, hidden, upd, adds, watched, kept>>
    BY <1>5 DEF DeleteFind
  <2>2. OldKeys' = OldKeys /\ Whole(hash') = Whole(hash)
    BY <2>1 DEF OldKeys
  <2>3. DeleteEnds' => OldKeys' \subseteq del'.docs
    <3> SUFFICES ASSUME Cardinality(OldKeys) = Cardinality(PageOf(OldKeys, 0)) PROVE OldKeys \subseteq PageOf(OldKeys, 0)
      BY <2>1, <2>2 DEF DeleteEnds
    <3>1. IsFiniteSet(OldKeys) /\ PageOf(OldKeys, 0) \subseteq OldKeys
      BY RKeysAre, FS_Subset DEF OldKeys, PageOf
    <3>2. QED
      BY <3>1, FS_Subset
  <2>4. RedisTypeOK' /\ (Paged => Paged')
    BY <1>0, <2>1, <2>2 DEF RedisTypeOK, Paged, Later
  <2>5. QED
    BY <2>1, <2>2, <2>3, <2>4 DEF RedisInv, UpdateReachesAll
<1>6. CASE DeleteFound
  <2>1. /\ del.pc = "del"
        /\ hash' = [k \in RKeys |-> IF k \in del.docs THEN "none" ELSE hash[k]]
        /\ hidden' = [k \in RKeys |-> IF k \in del.docs THEN FALSE ELSE hidden[k]]
        /\ watched' = (IF upd.pc = "page" THEN {} ELSE watched \ del.docs)
        /\ UNCHANGED <<upd, adds, kept>>
    BY <1>6 DEF DeleteFound
  <2>2. del' = [del EXCEPT !.pc = IF DeleteEnds THEN "done" ELSE "search", !.docs = {}]
    BY <1>6 DEF DeleteFound
  <2>3. del'.pc # "del" /\ (del'.pc = "done" => DeleteEnds)
    BY <2>1, <2>2
  <2>4. del'.pc = "done" => OldKeys' = {}
    <3> SUFFICES ASSUME DeleteEnds PROVE OldKeys' = {}
      BY <2>3
    <3>1. OldKeys \subseteq del.docs
      BY <2>1 DEF RedisInv
    <3>2. QED
      BY <2>1, <3>1 DEF OldKeys
  <2>5. RedisTypeOK'
    BY <1>0, <2>1 DEF RedisTypeOK, Statuses
  <2>6. \A k \in watched' : k \in watched /\ hidden'[k] = hidden[k] /\ hash'[k] = hash[k] /\ k \in RKeys
    BY <1>0, <2>1 DEF RedisTypeOK
  <2>7. watched' \subseteq Whole(hash')
    BY <1>0, <2>6 DEF Whole
  <2>8. QED
    BY <2>1, <2>3, <2>4, <2>5, <2>6, <2>7 DEF RedisInv, UpdateReachesAll
<1>7. ASSUME UNCHANGED <<hash, hidden, upd, del, adds, watched, kept>> PROVE RedisInv'
  <2>1. RedisTypeOK' /\ OldKeys' = OldKeys /\ Whole(hash') = Whole(hash) /\ (Paged => Paged')
    BY <1>0, <1>7 DEF RedisTypeOK, OldKeys, Paged, Later
  <2>2. QED
    BY <1>7, <2>1 DEF RedisInv, UpdateReachesAll, DeleteEnds
<1>8. CASE ScanPage \/ ScanFetch
  BY <1>7, <1>8 DEF ScanPage, ScanFetch
<1>9. CASE UNCHANGED redisVars
  BY <1>7, <1>9 DEF redisVars
<1>10. QED
  BY <1>1, <1>2, <1>3, <1>4, <1>5, <1>6, <1>8, <1>9 DEF RedisNext

\* As long as fewer documents are added than a page holds, UpdateScores hides
\* every document that was there all the time, and DeleteScores leaves no old
\* one, in whatever order the commands of the clients come (UpdateScores and
\* DeleteScores of storage/cache/redis.go).
THEOREM RedisPassesNoneOverAlways == ASSUME MaxAdds < Limit PROVE RedisSpec => []RedisPassesNoneOver
<1>1. RedisInv => RedisPassesNoneOver
  BY DEF RedisInv, RedisTypeOK, OldKeys, RedisPassesNoneOver, DeleteLeavesNone
<1>2. QED
  BY <1>1, RedisStart, RedisStep, PTL DEF RedisSpec

-----------------------------------------------------------------------------
(* ItemLists: the lists of items in the cache and the requests that change *)
(* their items, for every number of items, lists, loads, writers and       *)
(* requests, and every size of a heap.                                     *)

\* The category that marks an item that does not exist is not one of an item.
Proper == "absent" \notin Categories

Ops == {"none", "insert", "modify", "insertCategory", "deleteCategory", "delete"}
Points == {"", "get", "hide", "cats", "cache", "data"}
Request == [op : Ops, id : ItemIds \cup {0}, at : Points, value : Values \cup {Absent},
            sets : SUBSET {"hidden", "cats"}]
Document == [id : ItemIds, ts : Nat, cats : SUBSET withWildCard(Categories), hidden : BOOLEAN]

ListTypeOK ==
    /\ item \in [ItemIds -> Values \cup {Absent}]
    /\ docs \in [Lists -> SUBSET Document]
    /\ writer \in [Writers -> Request]
    /\ \A w \in Writers :
          /\ IF writer[w].op = "none" THEN writer[w] = Free ELSE writer[w].id \in ItemIds
          /\ writer[w].at = "get" => writer[w].op \in {"insertCategory", "deleteCategory"}
    /\ loads \in Nat
    /\ blurred \in [ItemIds -> BOOLEAN] /\ touched \in [ItemIds -> BOOLEAN]

\* The load: its lists are done one after the other once all items are read.
LoadOK ==
    /\ load.at = "idle" => load = NoLoad
    /\ load \in [at : {"idle", "read", "delete"}, read : {load.read}, todo : SUBSET Lists,
                 list : Lists \cup {""}, kept : BOOLEAN]
    /\ \A i \in DOMAIN load.read : i \in ItemIds /\ load.read[i] \in Values \cup {Absent}
    /\ load.at = "delete" => load.list \in Lists /\ load.list \notin load.todo

-----------------------------------------------------------------------------
(***************************************************************************)
(* The argument.  A document agrees with its item unless a request is      *)
(* half-way; then it is as far as the request got.  This is so for items   *)
(* that are clear: not blurred, and not touched while a load writes lists, *)
(* for those items the end of the load will blur.                          *)
(***************************************************************************)
Writes == load.at = "delete" \/ (load.at = "read" /\ load.todo # Lists)
Clear(i) == ~blurred[i] /\ ~(Writes /\ touched[i])

\* Hidden documents agree as well: a request may show them again.
Agrees(d, v) ==
    /\ v # Absent
    /\ v.hidden => d.hidden
    /\ d.cats \subseteq withWildCard(v.cats)

\* The requests that have written nothing, or both stores.
Even(r) ==
    \/ r.at = "get"
    \/ r.op = "insert" /\ r.at = "cache"
    \/ r.op = "modify" /\ r.at = "hide"
    \/ r.op = "delete" /\ r.at = "data"
    \/ r.op = "insertCategory"
    \/ r.op = "deleteCategory" /\ r.at = "cache"

\* What modifyItem has told the cache about hiding, before the data store.
Hides(r, d, v) == IF "hidden" \in r.sets THEN d.hidden = r.value.hidden ELSE v.hidden => d.hidden

\* A document of item v when request r is half-way.
Half(r, d, v) ==
    /\ Even(r) => Agrees(d, v)
    /\ r.op = "insert" /\ r.at = "data" =>
          d.cats = withWildCard(r.value.cats) /\ d.hidden = r.value.hidden
    /\ r.op = "modify" /\ r.at = "cats" =>
          v # Absent /\ Hides(r, d, v) /\ d.cats \subseteq withWildCard(v.cats)
    /\ r.op = "modify" /\ r.at = "data" =>
          /\ v # Absent /\ Hides(r, d, v)
          /\ IF "cats" \in r.sets THEN d.cats = withWildCard(r.value.cats)
             ELSE d.cats \subseteq withWildCard(v.cats)
    /\ r.op = "deleteCategory" /\ r.at = "data" =>
          (r.value.hidden => d.hidden) /\ d.cats = withWildCard(r.value.cats)

\* What a category request has read of item v is still so.
Current(r, v) ==
    /\ r.op = "insertCategory" /\ r.at = "data" =>
          v # Absent /\ r.value.hidden = v.hidden /\ v.cats \subseteq r.value.cats
    /\ r.op = "insertCategory" /\ r.at = "cache" => r.value = v
    /\ r.op = "deleteCategory" /\ r.at = "cache" =>
          v # Absent /\ r.value.hidden = v.hidden

\* What a request will store, but for a deletion, is an item.
Stores == \A w \in Writers : writer[w].op \notin {"none", "delete"} => writer[w].value \in Values

\* Nobody writes the item: its documents agree with it.
Quiet(i) == \A l \in Lists : \A d \in docs[l] : d.id = i => Agrees(d, item[i])

\* Request w is half-way.
Open(w) ==
    LET i == writer[w].id IN
    /\ Current(writer[w], item[i])
    /\ \A l \in Lists : \A d \in docs[l] : d.id = i => Half(writer[w], d, item[i])

Steady == \A i \in ItemIds : Clear(i) /\ ~Writing(i) => Quiet(i)
Underway == \A w \in Writers : writer[w].op # "none" /\ Clear(writer[w].id) => Open(w)

\* Two requests for one item blur it.
Single ==
    \A v, w \in Writers :
        v # w /\ writer[v].op # "none" /\ writer[w].op # "none" /\ writer[v].id = writer[w].id =>
            blurred[writer[w].id]

(***************************************************************************)
(* A load.  An item that nobody touched since it began was read as it is,  *)
(* and its new documents say so; unless a clean-up failed, the lists that  *)
(* are done hold new documents only.                                       *)
(***************************************************************************)
Loading == load.at # "idle"

Watched == Loading => \A i \in ItemIds : Writing(i) => touched[i]
ReadAsIs ==
    Loading => \A i \in DOMAIN load.read : ~touched[i] => load.read[i] = item[i]
NewAgree ==
    Loading => \A l \in Lists : \A d \in docs[l] :
        d.ts = loads /\ ~touched[d.id] => Agrees(d, item[d.id])
NoneLater == \A l \in Lists : \A d \in docs[l] : d.ts <= loads
Swept ==
    Loading /\ ~load.kept =>
        \A l \in Lists \ load.todo :
            ~(load.at = "delete" /\ l = load.list) => \A d \in docs[l] : d.ts = loads

LoadInv == Watched /\ ReadAsIs /\ NewAgree /\ NoneLater /\ Swept

ListInv == ListTypeOK /\ LoadOK /\ Stores /\ Steady /\ Underway /\ Single /\ LoadInv

-----------------------------------------------------------------------------
(* Requests.                                                               *)

\* A step of request w: it may change its item and the documents of it.
Local(w) ==
    /\ writer[w].op # "none"
    /\ \A v \in Writers \ {w} : writer'[v] = writer[v]
    /\ \/ writer'[w].op = "none"
       \/ writer'[w].op = writer[w].op /\ writer'[w].id = writer[w].id
    /\ \A j \in ItemIds \ {writer[w].id} : item'[j] = item[j]
    /\ \A l \in Lists : \A d \in docs'[l] : \E e \in docs[l] :
          e.id = d.id /\ e.ts = d.ts /\ (d.id # writer[w].id => e = d)
    /\ UNCHANGED <<load, loads, blurred, touched>>

\* A step of a request that leaves its own item in order keeps the invariant.
LEMMA LocalStep ==
    ASSUME ListInv, NEW w \in Writers, NEW i \in ItemIds, i = writer[w].id, Local(w),
           ListTypeOK', Stores',
           Clear(i) => IF writer'[w].op = "none" THEN Quiet(i)' ELSE Open(w)'
    PROVE  ListInv'
<1>0. ListTypeOK /\ LoadOK /\ load' = load /\ loads' = loads /\ blurred' = blurred /\ touched' = touched
  BY DEF ListInv, Local
<1>1. LoadOK'
  BY <1>0 DEF LoadOK, NoLoad
<1>2. (Writes' <=> Writes) /\ \A j \in ItemIds : Clear(j)' <=> Clear(j)
  BY <1>0 DEF Clear, Writes
<1>3. \A j \in ItemIds \ {i} : Writing(j)' <=> Writing(j)
  BY DEF Writing, Local
<1>4. Writing(i)
  BY DEF Writing, Local
<1>5. \A l \in Lists : \A d \in docs'[l] : d.id # i => d \in docs[l]
  BY DEF Local
<1>6. \A j \in ItemIds \ {i} : item'[j] = item[j]
  BY DEF Local
<1>7. Steady'
  <2> SUFFICES ASSUME NEW j \in ItemIds, Clear(j)', ~Writing(j)' PROVE Quiet(j)'
    BY DEF Steady
  <2>1. CASE j = i
    <3>1. writer'[w].op = "none"
      BY <2>1 DEF Writing, Local
    <3>2. QED
      BY <1>2, <2>1, <3>1
  <2>2. CASE j # i
    <3>1. Quiet(j)
      BY <1>2, <1>3, <2>2 DEF ListInv, Steady
    <3>2. QED
      BY <1>5, <1>6, <2>2, <3>1 DEF Quiet
  <2>3. QED
    BY <2>1, <2>2
<1>8. Underway'
  <2> SUFFICES ASSUME NEW v \in Writers, writer'[v].op # "none", Clear(writer[v].id)' PROVE Open(v)'
    BY DEF Underway
  <2>1. CASE v = w
    <3>1. writer'[v].id = i
      BY <2>1 DEF Local
    <3>2. QED
      BY <1>2, <2>1, <3>1
  <2>2. CASE v # w
    <3>1. writer'[v] = writer[v] /\ writer[v].id \in ItemIds
      BY <1>0, <2>2 DEF Local, ListTypeOK
    <3>2. Clear(writer[v].id)
      BY <1>2, <3>1
    <3>3. writer[v].id # i
      BY <2>2, <3>1, <3>2 DEF ListInv, Single, Local, Clear
    <3>4. Open(v)
      BY <3>1, <3>2 DEF ListInv, Underway
    <3>5. QED
      BY <1>5, <1>6, <3>1, <3>3, <3>4 DEF Open
  <2>3. QED
    BY <2>1, <2>2
<1>9. Single'
  <2> SUFFICES ASSUME NEW u \in Writers, NEW v \in Writers, u # v, writer'[u].op # "none",
                      writer'[v].op # "none", writer'[u].id = writer'[v].id
               PROVE  blurred'[writer'[v].id]
    BY DEF Single
  <2>1. \A x \in {u, v} : writer[x].op # "none" /\ writer'[x].id = writer[x].id
    BY DEF Local
  <2>2. blurred[writer[v].id]
    BY <2>1 DEF ListInv, Single
  <2>3. QED
    BY <1>0, <2>1, <2>2
<1>10. Watched'
  <2> SUFFICES ASSUME Loading', NEW j \in ItemIds, Writing(j)' PROVE touched'[j]
    BY DEF Watched
  <2>1. Writing(j) /\ Loading
    BY <1>0, <1>3, <1>4 DEF Loading
  <2>2. QED
    BY <1>0, <2>1 DEF ListInv, LoadInv, Watched
<1>11. Loading => touched[i]
  BY <1>4 DEF ListInv, LoadInv, Watched
<1>12. ReadAsIs'
  <2> SUFFICES ASSUME Loading', NEW j \in DOMAIN load'.read, ~touched'[j] PROVE load'.read[j] = item'[j]
    BY DEF ReadAsIs
  <2>1. Loading /\ j \in DOMAIN load.read /\ ~touched[j] /\ j \in ItemIds /\ j # i
    BY <1>0, <1>11 DEF Loading, LoadOK
  <2>2. load.read[j] = item[j]
    BY <2>1 DEF ListInv, LoadInv, ReadAsIs
  <2>3. QED
    BY <1>0, <1>6, <2>1, <2>2
<1>13. NewAgree'
  <2> SUFFICES ASSUME Loading', NEW l \in Lists, NEW d \in docs'[l], d.ts = loads', ~touched'[d.id]
               PROVE  Agrees(d, item'[d.id])
    BY DEF NewAgree, Agrees
  <2>1. Loading /\ d.ts = loads /\ ~touched[d.id] /\ d.id # i
    BY <1>0, <1>11 DEF Loading
  <2>2. d \in docs[l] /\ d.id \in ItemIds
    BY <1>0, <1>5, <2>1 DEF ListTypeOK, Document
  <2>3. Agrees(d, item[d.id])
    BY <2>1, <2>2 DEF ListInv, LoadInv, NewAgree
  <2>4. QED
    BY <1>6, <2>1, <2>2, <2>3
<1>14. \A l \in Lists : \A d \in docs'[l] : \E e \in docs[l] : e.ts = d.ts
  BY DEF Local
<1>15. NoneLater'
  BY <1>0, <1>14 DEF ListInv, LoadInv, NoneLater
<1>16. Swept'
  BY <1>0, <1>14 DEF ListInv, LoadInv, Swept, Loading
<1>17. QED
  BY <1>1, <1>7, <1>8, <1>9, <1>10, <1>12, <1>13, <1>15, <1>16 DEF ListInv, LoadInv

\* The item of a request under way, and what is known of the request.
LEMMA Mine ==
    ASSUME ListInv, NEW w \in Writers, writer[w].op # "none"
    PROVE  /\ writer[w] \in Request /\ writer[w].id \in ItemIds /\ item[writer[w].id] \in Values \cup {Absent}
           /\ writer[w].op # "delete" => writer[w].value \in Values
           /\ Clear(writer[w].id) => Open(w)
BY DEF ListInv, ListTypeOK, Stores, Underway

\* The parts of an item and of a request.
LEMMA Fields ==
    /\ \A v \in Values : v.hidden \in BOOLEAN /\ v.cats \in SUBSET Categories
    /\ \A v \in Values : withWildCard(v.cats) \in SUBSET withWildCard(Categories)
BY DEF Values, withWildCard

\* Document d is document e after a patch of item i: the fields in S are set.
Change(e, d, i, S, C, H) ==
    /\ d \in Document /\ e \in Document /\ d.id = e.id /\ d.ts = e.ts
    /\ e.id # i => d = e
    /\ e.id = i => /\ d.cats = IF "cats" \in S THEN C ELSE e.cats
                   /\ d.hidden = IF "hidden" \in S THEN H ELSE e.hidden

Patched(i, S, C, H) ==
    /\ docs' \in [Lists -> SUBSET Document]
    /\ \A l \in Lists : \A d \in docs'[l] : \E e \in docs[l] : Change(e, d, i, S, C, H)

\* The cache is left alone.
LEMMA PatchNone ==
    ASSUME ListTypeOK, UNCHANGED docs, NEW i, NEW C, NEW H PROVE Patched(i, {}, C, H)
BY DEF ListTypeOK, Patched, Change

\* UpdateScores with categories and hidden.
LEMMA PatchBoth ==
    ASSUME ListTypeOK, NEW i, NEW C \in SUBSET withWildCard(Categories), NEW H \in BOOLEAN,
           docs' = [l \in Lists |-> {IF d.id = i THEN [d EXCEPT !.cats = C, !.hidden = H] ELSE d : d \in docs[l]}]
    PROVE  Patched(i, {"hidden", "cats"}, C, H)
<1>1. \A e \in Document : Change(e, IF e.id = i THEN [e EXCEPT !.cats = C, !.hidden = H] ELSE e, i, {"hidden", "cats"}, C, H)
  BY DEF Document, Change
<1>2. \A l \in Lists : docs[l] \in SUBSET Document
  BY DEF ListTypeOK
<1>3. \A l \in Lists : \A d \in docs'[l] : \E e \in docs[l] : Change(e, d, i, {"hidden", "cats"}, C, H)
  BY <1>1, <1>2
<1>4. QED
  BY <1>3 DEF Patched, Change

\* UpdateScores with categories.
LEMMA PatchCats ==
    ASSUME ListTypeOK, NEW i, NEW C \in SUBSET withWildCard(Categories), NEW H,
           docs' = [l \in Lists |-> {IF d.id = i THEN [d EXCEPT !.cats = C] ELSE d : d \in docs[l]}]
    PROVE  Patched(i, {"cats"}, C, H)
<1>1. \A e \in Document : Change(e, IF e.id = i THEN [e EXCEPT !.cats = C] ELSE e, i, {"cats"}, C, H)
  BY DEF Document, Change
<1>2. \A l \in Lists : docs[l] \in SUBSET Document
  BY DEF ListTypeOK
<1>3. \A l \in Lists : \A d \in docs'[l] : \E e \in docs[l] : Change(e, d, i, {"cats"}, C, H)
  BY <1>1, <1>2
<1>4. QED
  BY <1>3 DEF Patched, Change

\* UpdateScores with hidden.
LEMMA PatchHidden ==
    ASSUME ListTypeOK, NEW i, NEW C, NEW H \in BOOLEAN,
           docs' = [l \in Lists |-> {IF d.id = i THEN [d EXCEPT !.hidden = H] ELSE d : d \in docs[l]}]
    PROVE  Patched(i, {"hidden"}, C, H)
<1>1. \A e \in Document : Change(e, IF e.id = i THEN [e EXCEPT !.hidden = H] ELSE e, i, {"hidden"}, C, H)
  BY DEF Document, Change
<1>2. \A l \in Lists : docs[l] \in SUBSET Document
  BY DEF ListTypeOK
<1>3. \A l \in Lists : \A d \in docs'[l] : \E e \in docs[l] : Change(e, d, i, {"hidden"}, C, H)
  BY <1>1, <1>2
<1>4. QED
  BY <1>3 DEF Patched, Change

\* An item that exists is not the mark of one that does not.
LEMMA NotAbsent == ASSUME Proper PROVE Absent \notin Values
<1>1. Absent.cats = {"absent"} /\ \A v \in Values : v.cats \in SUBSET Categories
  BY Fields DEF Absent
<1>2. QED
  BY <1>1 DEF Proper

\* A handler without a request has a record.
LEMMA FreeIsRequest == Free \in Request /\ Free.op = "none" /\ Free.at = ""
BY DEF Free, Request, Ops, Points

\* A step of request w for item i in the data store and on the request itself.
Step(w, i) ==
    /\ writer' \in [Writers -> Request] /\ \A v \in Writers \ {w} : writer'[v] = writer[v]
    /\ \/ writer'[w] = Free
       \/ /\ writer'[w].op = writer[w].op /\ writer'[w].id = i /\ writer'[w].at # "get"
          /\ writer'[w].op # "delete" => writer'[w].value \in Values
    /\ item' \in [ItemIds -> Values \cup {Absent}] /\ \A j \in ItemIds \ {i} : item'[j] = item[j]
    /\ UNCHANGED <<load, loads, blurred, touched>>

\* It keeps the invariant if it leaves its own item in order.
LEMMA RequestStep ==
    ASSUME ListInv, NEW w \in Writers, NEW i \in ItemIds, i = writer[w].id, writer[w].op # "none",
           Step(w, i), NEW S, NEW C, NEW H, Patched(i, S, C, H),
           Clear(i) => IF writer'[w].op = "none" THEN Quiet(i)' ELSE Open(w)'
    PROVE  ListInv'
<1>1. ListTypeOK'
  <2>1. \A v \in Writers :
           /\ IF writer'[v].op = "none" THEN writer'[v] = Free ELSE writer'[v].id \in ItemIds
           /\ writer'[v].at = "get" => writer'[v].op \in {"insertCategory", "deleteCategory"}
    BY FreeIsRequest DEF ListInv, ListTypeOK, Step
  <2>2. loads' \in Nat /\ blurred' \in [ItemIds -> BOOLEAN] /\ touched' \in [ItemIds -> BOOLEAN]
    BY DEF ListInv, ListTypeOK, Step
  <2>3. QED
    BY <2>1, <2>2 DEF ListTypeOK, Step, Patched
<1>2. Stores'
  BY FreeIsRequest DEF ListInv, Stores, Step
<1>3. Local(w)
  <2>1. \A l \in Lists : \A d \in docs'[l] : \E e \in docs[l] :
           e.id = d.id /\ e.ts = d.ts /\ (d.id # writer[w].id => e = d)
    BY DEF Patched, Change
  <2>2. QED
    BY <2>1, FreeIsRequest DEF Local, Step
<1>4. QED
  BY <1>1, <1>2, <1>3, LocalStep

\* batchInsertItems, the cache.
LEMMA InsertCacheStep ==
    ASSUME ListInv, NEW w \in Writers, insertCache(w) PROVE ListInv'
<1>1. PICK i \in ItemIds : i = writer[w].id
  BY Mine DEF insertCache, At
<1>2. /\ writer[w] \in Request /\ writer[w].value \in Values
      /\ writer[w].op = "insert" /\ writer' = [writer EXCEPT ![w].at = "data"]
      /\ UNCHANGED <<item, load, loads, blurred, touched>>
  BY <1>1, Mine DEF insertCache, At, Go
<1> DEFINE C == withWildCard(writer[w].value.cats)
           H == writer[w].value.hidden
<1>3. Patched(i, {"hidden", "cats"}, C, H)
  <2>1. C \in SUBSET withWildCard(Categories) /\ H \in BOOLEAN
    BY <1>2, Fields
  <2>2. docs' = [l \in Lists |-> {IF d.id = i THEN [d EXCEPT !.cats = C, !.hidden = H] ELSE d : d \in docs[l]}]
    BY <1>1 DEF insertCache, Patch
  <2> HIDE DEF C, H
  <2>3. QED
    BY <2>1, <2>2, PatchBoth DEF ListInv
<1>4. writer'[w].op = "insert" /\ writer'[w].at = "data" /\ writer'[w].id = i /\ writer'[w].value = writer[w].value
  BY <1>1, <1>2 DEF ListInv, ListTypeOK, Request
<1>5. Step(w, i)
  BY <1>1, <1>2, <1>4 DEF ListInv, ListTypeOK, Request, Points, Step
<1>6. Open(w)'
  <2>1. \A l \in Lists : \A d \in docs'[l] : d.id = i => d.cats = C /\ d.hidden = H
    BY <1>3 DEF Patched, Change
  <2>2. QED
    BY <1>4, <2>1 DEF Open, Half, Current, Even
<1>7. QED
  BY <1>1, <1>2, <1>3, <1>4, <1>5, <1>6, RequestStep

\* batchInsertItems, the data store.
LEMMA BatchInsertItemsStep ==
    ASSUME Proper, ListInv, NEW w \in Writers, batchInsertItems(w) PROVE ListInv'
<1>1. PICK i \in ItemIds : i = writer[w].id
  BY Mine DEF batchInsertItems, At
<1>2. /\ writer[w] \in Request /\ writer[w].value \in Values
      /\ writer[w].op = "insert" /\ writer[w].at = "data" /\ writer' = [writer EXCEPT ![w] = Free]
      /\ item' = [item EXCEPT ![i] = writer[w].value]
      /\ UNCHANGED <<docs, load, loads, blurred, touched>>
      /\ Clear(i) => Open(w)
  BY <1>1, Mine DEF batchInsertItems, At, Store, End
<1>3. Patched(i, {}, {}, FALSE)
  BY <1>2, PatchNone DEF ListInv
<1>4. writer'[w] = Free /\ writer'[w].op = "none" /\ item'[i] = writer[w].value
  BY <1>1, <1>2 DEF ListInv, ListTypeOK, Free
<1>5. Step(w, i)
  BY <1>2, <1>4, FreeIsRequest DEF ListInv, ListTypeOK, Step
<1>6. Clear(i) => Quiet(i)'
  <2>1. writer[w].value # Absent
    BY <1>2, NotAbsent
  <2>2. Clear(i) => \A l \in Lists : \A d \in docs[l] : d.id = i =>
           d.cats = withWildCard(writer[w].value.cats) /\ d.hidden = writer[w].value.hidden
    BY <1>1, <1>2 DEF Open, Half
  <2>3. QED
    BY <1>2, <1>4, <2>1, <2>2 DEF Quiet, Agrees
<1>7. QED
  BY <1>1, <1>2, <1>3, <1>4, <1>5, <1>6, RequestStep

\* modifyItem, hidden in the cache.
LEMMA ModifyHiddenStep ==
    ASSUME ListInv, NEW w \in Writers, modifyHidden(w) PROVE ListInv'
<1>1. PICK i \in ItemIds : i = writer[w].id
  BY Mine DEF modifyHidden, At
<1>2. /\ writer[w] \in Request /\ writer[w].value \in Values
      /\ writer[w].op = "modify" /\ writer[w].at = "hide" /\ writer' = [writer EXCEPT ![w].at = "cats"]
      /\ UNCHANGED <<item, load, loads, blurred, touched>>
      /\ Clear(i) => Open(w)
  BY <1>1, Mine DEF modifyHidden, At, Go
<1> DEFINE H == writer[w].value.hidden
           S == writer[w].sets \cap {"hidden"}
<1>3. Patched(i, S, {}, H)
  <2>1. CASE "hidden" \in writer[w].sets
    <3>1. H \in BOOLEAN
      BY <1>2, Fields
    <3>2. docs' = [l \in Lists |-> {IF d.id = i THEN [d EXCEPT !.hidden = H] ELSE d : d \in docs[l]}]
      BY <1>1, <2>1 DEF modifyHidden, Patch
    <3>3. S = {"hidden"}
      BY <2>1
    <3> HIDE DEF H, S
    <3>4. QED
      BY <3>1, <3>2, <3>3, PatchHidden DEF ListInv
  <2>2. CASE "hidden" \notin writer[w].sets
    <3>1. UNCHANGED docs /\ S = {}
      BY <2>2 DEF modifyHidden
    <3> HIDE DEF H, S
    <3>2. QED
      BY <3>1, PatchNone DEF ListInv
  <2>3. QED
    BY <2>1, <2>2
<1>4. /\ writer'[w].op = "modify" /\ writer'[w].at = "cats" /\ writer'[w].id = i
      /\ writer'[w].value = writer[w].value /\ writer'[w].sets = writer[w].sets
  BY <1>1, <1>2 DEF ListInv, ListTypeOK, Request
<1>5. Step(w, i)
  BY <1>1, <1>2, <1>4 DEF ListInv, ListTypeOK, Request, Points, Step
<1>6. Clear(i) => Open(w)'
  <2> SUFFICES ASSUME Clear(i), NEW l \in Lists, NEW d \in docs'[l], d.id = i
               PROVE  Half(writer'[w], d, item[i])
    BY <1>2, <1>4 DEF Open, Half, Current, Hides, Even, Agrees
  <2>1. PICK e \in docs[l] : Change(e, d, i, S, {}, H)
    BY <1>3 DEF Patched
  <2>2. Agrees(e, item[i])
    BY <1>1, <1>2, <2>1 DEF Open, Half, Even, Change
  <2>3. /\ d.cats = e.cats
        /\ IF "hidden" \in writer[w].sets THEN d.hidden = H ELSE d.hidden = e.hidden
    BY <2>1 DEF Change
  <2>4. Hides(writer'[w], d, item[i])
    BY <1>4, <2>2, <2>3 DEF Hides, Agrees
  <2>5. QED
    BY <1>4, <2>2, <2>3, <2>4 DEF Half, Even, Agrees
<1>7. QED
  BY <1>1, <1>2, <1>3, <1>4, <1>5, <1>6, RequestStep

\* modifyItem, the categories in the cache.
LEMMA ModifyCategoriesStep ==
    ASSUME ListInv, NEW w \in Writers, modifyCategories(w) PROVE ListInv'
<1>1. PICK i \in ItemIds : i = writer[w].id
  BY Mine DEF modifyCategories, At
<1>2. /\ writer[w] \in Request /\ writer[w].value \in Values
      /\ writer[w].op = "modify" /\ writer[w].at = "cats" /\ writer' = [writer EXCEPT ![w].at = "data"]
      /\ UNCHANGED <<item, load, loads, blurred, touched>>
      /\ Clear(i) => Open(w)
  BY <1>1, Mine DEF modifyCategories, At, Go
<1> DEFINE C == withWildCard(writer[w].value.cats)
           S == writer[w].sets \cap {"cats"}
<1>3. Patched(i, S, C, FALSE)
  <2>1. CASE "cats" \in writer[w].sets
    <3>1. C \in SUBSET withWildCard(Categories)
      BY <1>2, Fields
    <3>2. docs' = [l \in Lists |-> {IF d.id = i THEN [d EXCEPT !.cats = C] ELSE d : d \in docs[l]}]
      BY <1>1, <2>1 DEF modifyCategories, Patch
    <3>3. S = {"cats"}
      BY <2>1
    <3> HIDE DEF C, S
    <3>4. QED
      BY <3>1, <3>2, <3>3, PatchCats DEF ListInv
  <2>2. CASE "cats" \notin writer[w].sets
    <3>1. UNCHANGED docs /\ S = {}
      BY <2>2 DEF modifyCategories
    <3> HIDE DEF C, S
    <3>2. QED
      BY <3>1, PatchNone DEF ListInv
  <2>3. QED
    BY <2>1, <2>2
<1>4. /\ writer'[w].op = "modify" /\ writer'[w].at = "data" /\ writer'[w].id = i
      /\ writer'[w].value = writer[w].value /\ writer'[w].sets = writer[w].sets
  BY <1>1, <1>2 DEF ListInv, ListTypeOK, Request
<1>5. Step(w, i)
  BY <1>1, <1>2, <1>4 DEF ListInv, ListTypeOK, Request, Points, Step
<1>6. Clear(i) => Open(w)'
  <2> SUFFICES ASSUME Clear(i), NEW l \in Lists, NEW d \in docs'[l], d.id = i
               PROVE  Half(writer'[w], d, item[i])
    BY <1>2, <1>4 DEF Open, Half, Current, Hides, Even, Agrees
  <2>1. PICK e \in docs[l] : Change(e, d, i, S, C, FALSE)
    BY <1>3 DEF Patched
  <2>2. item[i] # Absent /\ Hides(writer[w], e, item[i]) /\ e.cats \subseteq withWildCard(item[i].cats)
    BY <1>1, <1>2, <2>1 DEF Open, Half, Change
  <2>3. /\ d.hidden = e.hidden
        /\ IF "cats" \in writer[w].sets THEN d.cats = C ELSE d.cats = e.cats
    BY <2>1 DEF Change
  <2>4. Hides(writer'[w], d, item[i])
    BY <1>4, <2>2, <2>3 DEF Hides
  <2>5. QED
    BY <1>4, <2>2, <2>3, <2>4 DEF Half, Even
<1>7. QED
  BY <1>1, <1>2, <1>3, <1>4, <1>5, <1>6, RequestStep

\* modifyItem, the data store.
LEMMA ModifyItemStep ==
    ASSUME Proper, ListInv, NEW w \in Writers, modifyItem(w) PROVE ListInv'
<1>1. PICK i \in ItemIds : i = writer[w].id
  BY Mine DEF modifyItem, At
<1> DEFINE old == item[i]
           new == [hidden |-> IF "hidden" \in writer[w].sets THEN writer[w].value.hidden ELSE old.hidden,
                   cats |-> IF "cats" \in writer[w].sets THEN writer[w].value.cats ELSE old.cats]
<1>2. /\ writer[w] \in Request /\ writer[w].value \in Values /\ old \in Values \cup {Absent}
      /\ writer[w].op = "modify" /\ writer[w].at = "data" /\ writer' = [writer EXCEPT ![w] = Free]
      /\ item' = IF old = Absent THEN item ELSE [item EXCEPT ![i] = new]
      /\ UNCHANGED <<docs, load, loads, blurred, touched>>
      /\ Clear(i) => Open(w)
  BY <1>1, Mine DEF modifyItem, At, End
<1>3. Patched(i, {}, {}, FALSE)
  BY <1>2, PatchNone DEF ListInv
<1>4. writer'[w] = Free /\ writer'[w].op = "none"
  BY <1>1, <1>2, FreeIsRequest DEF ListInv, ListTypeOK
<1>5. old # Absent => new \in Values /\ item'[i] = new
  BY <1>1, <1>2 DEF ListInv, ListTypeOK, Values
<1>6. Step(w, i)
  <2> HIDE DEF new
  <2>1. item' \in [ItemIds -> Values \cup {Absent}] /\ \A j \in ItemIds \ {i} : item'[j] = item[j]
    BY <1>2, <1>5 DEF ListInv, ListTypeOK
  <2>2. QED
    BY <1>2, <1>4, <2>1, FreeIsRequest DEF ListInv, ListTypeOK, Step
<1>7. Clear(i) => Quiet(i)'
  <2> SUFFICES ASSUME Clear(i), NEW l \in Lists, NEW d \in docs[l], d.id = i PROVE Agrees(d, item'[i])
    BY <1>2 DEF Quiet, Agrees
  <2>1. /\ old # Absent /\ Hides(writer[w], d, old)
        /\ IF "cats" \in writer[w].sets THEN d.cats = withWildCard(writer[w].value.cats)
           ELSE d.cats \subseteq withWildCard(old.cats)
    BY <1>1, <1>2 DEF Open, Half
  <2>2. new # Absent
    BY <1>5, <2>1, NotAbsent
  <2>3. new.hidden => d.hidden
    BY <2>1 DEF Hides
  <2>4. d.cats \subseteq withWildCard(new.cats)
    BY <2>1
  <2> HIDE DEF new
  <2>5. QED
    BY <1>5, <2>1, <2>2, <2>3, <2>4 DEF Agrees
<1>8. QED
  BY <1>1, <1>2, <1>3, <1>4, <1>6, <1>7, RequestStep

\* deleteItem, the data store.
LEMMA DeleteItemStep ==
    ASSUME ListInv, NEW w \in Writers, deleteItem(w) PROVE ListInv'
<1>1. PICK i \in ItemIds : i = writer[w].id
  BY Mine DEF deleteItem, At
<1>2. /\ writer[w] \in Request
      /\ writer[w].op = "delete" /\ writer' = [writer EXCEPT ![w].at = "cache"]
      /\ item' = [item EXCEPT ![i] = Absent]
      /\ UNCHANGED <<docs, load, loads, blurred, touched>>
  BY <1>1, Mine DEF deleteItem, At, Store, Go
<1>3. Patched(i, {}, {}, FALSE)
  BY <1>2, PatchNone DEF ListInv
<1>4. writer'[w].op = "delete" /\ writer'[w].at = "cache" /\ writer'[w].id = i
  BY <1>1, <1>2 DEF ListInv, ListTypeOK, Request
<1>5. Step(w, i)
  BY <1>1, <1>2, <1>4 DEF ListInv, ListTypeOK, Request, Points, Step
<1>6. Open(w)'
  BY <1>4 DEF Open, Half, Current, Even
<1>7. QED
  BY <1>1, <1>2, <1>3, <1>4, <1>5, <1>6, RequestStep

\* deleteItem, the cache.
LEMMA DeleteScoresStep ==
    ASSUME ListInv, NEW w \in Writers, deleteScores(w) PROVE ListInv'
<1>1. PICK i \in ItemIds : i = writer[w].id
  BY Mine DEF deleteScores, At
<1>2. /\ writer[w].op = "delete" /\ writer' = [writer EXCEPT ![w] = Free]
      /\ docs' = [l \in Lists |-> {d \in docs[l] : d.id # i}]
      /\ UNCHANGED <<item, load, loads, blurred, touched>>
  BY <1>1 DEF deleteScores, At, End
<1>3. Patched(i, {}, {}, FALSE)
  BY <1>2 DEF ListInv, ListTypeOK, Patched, Change
<1>4. writer'[w] = Free /\ writer'[w].op = "none"
  BY <1>1, <1>2, FreeIsRequest DEF ListInv, ListTypeOK
<1>5. Step(w, i)
  BY <1>2, <1>4, FreeIsRequest DEF ListInv, ListTypeOK, Step
<1>6. Quiet(i)'
  BY <1>2 DEF Quiet
<1>7. QED
  BY <1>1, <1>2, <1>3, <1>4, <1>5, <1>6, RequestStep

\* insertItemCategory and deleteItemCategory, the item is read.
LEMMA GetItemStep ==
    ASSUME ListInv, NEW w \in Writers, getItem(w) PROVE ListInv'
<1>1. PICK i \in ItemIds : i = writer[w].id
  BY FreeIsRequest, Mine DEF getItem, ListInv, ListTypeOK
<1> DEFINE old == item[i]
           inserts == writer[w].op = "insertCategory"
           cats == IF inserts THEN old.cats \cup writer[w].value.cats ELSE old.cats \ writer[w].value.cats
           new == [old EXCEPT !.cats = cats]
           at == IF inserts THEN "data" ELSE "cache"
<1>2. /\ writer[w] \in Request /\ writer[w].value \in Values /\ old \in Values /\ old # Absent
      /\ writer[w].op \in {"insertCategory", "deleteCategory"} /\ writer[w].at = "get"
      /\ UNCHANGED <<item, docs, load, loads, blurred, touched>>
      /\ Clear(i) => Open(w)
  <2>1. writer[w].op \in {"insertCategory", "deleteCategory"}
    BY DEF ListInv, ListTypeOK, getItem
  <2>2. QED
    BY <1>1, <2>1, Mine DEF getItem
<1>3. writer' = [writer EXCEPT ![w].value = new, ![w].at = at]
  BY <1>1 DEF getItem
<1>4. new \in Values /\ new.hidden = old.hidden /\ new.cats = cats
  BY <1>2 DEF Values
<1>5. Patched(i, {}, {}, FALSE)
  BY <1>2, PatchNone DEF ListInv
<1>6. /\ writer'[w].op = writer[w].op /\ writer'[w].at = at /\ writer'[w].id = i
      /\ writer'[w].value = new /\ writer' \in [Writers -> Request]
      /\ \A v \in Writers \ {w} : writer'[v] = writer[v]
  <2> HIDE DEF new
  <2>1. QED
    BY <1>1, <1>2, <1>3, <1>4 DEF ListInv, ListTypeOK, Request, Points
<1>7. Step(w, i)
  BY <1>2, <1>4, <1>6 DEF ListInv, ListTypeOK, Step
<1>8. Clear(i) => Open(w)'
  <2>1. Clear(i) => \A l \in Lists : \A d \in docs[l] : d.id = i => Agrees(d, old)
    BY <1>1, <1>2 DEF Open, Half, Even
  <2>2. Current(writer'[w], old)
    BY <1>2, <1>4, <1>6 DEF Current
  <2>3. \A d : Agrees(d, old) => Half(writer'[w], d, old)
    BY <1>2, <1>6 DEF Half
  <2>4. QED
    BY <1>2, <1>6, <2>1, <2>2, <2>3 DEF Open
<1>9. QED
  BY <1>1, <1>2, <1>5, <1>6, <1>7, <1>8, RequestStep

\* The cache is told the categories of a request.
LEMMA CategoryPatched ==
    ASSUME ListInv, NEW w \in Writers, writer[w].value \in Values, CategoryCache(w)
    PROVE  Patched(writer[w].id, {"cats"}, withWildCard(writer[w].value.cats), FALSE)
<1> DEFINE C == withWildCard(writer[w].value.cats)
           i == writer[w].id
<1>1. C \in SUBSET withWildCard(Categories)
  BY Fields
<1>2. docs' = [l \in Lists |-> {IF d.id = i THEN [d EXCEPT !.cats = C] ELSE d : d \in docs[l]}]
  BY DEF CategoryCache, Patch
<1> HIDE DEF C, i
<1>3. Patched(i, {"cats"}, C, FALSE)
  BY <1>1, <1>2, PatchCats DEF ListInv
<1>4. QED
  BY <1>3 DEF C, i

\* insertItemCategory: the data store, then the cache.
LEMMA InsertItemCategoryStep ==
    ASSUME Proper, ListInv, NEW w \in Writers, insertItemCategory(w) PROVE ListInv'
<1>1. PICK i \in ItemIds : i = writer[w].id
  BY Mine DEF insertItemCategory, At
<1>2. /\ writer[w] \in Request /\ writer[w].value \in Values
      /\ writer[w].op = "insertCategory"
      /\ UNCHANGED <<load, loads, blurred, touched>>
      /\ Clear(i) => Open(w)
  BY <1>1, Mine DEF insertItemCategory, At
<1>3. Clear(i) => \A l \in Lists : \A d \in docs[l] : d.id = i => Agrees(d, item[i])
  BY <1>1, <1>2 DEF Open, Half, Even
<1>4. CASE At(w, "insertCategory", "data") /\ Store(w, writer[w].value) /\ Go(w, "cache") /\ UNCHANGED docs
  <2>1. /\ writer' = [writer EXCEPT ![w].at = "cache"] /\ item' = [item EXCEPT ![i] = writer[w].value]
        /\ writer[w].at = "data"
    BY <1>1, <1>4 DEF At, Store, Go
  <2>2. Patched(i, {}, {}, FALSE)
    BY <1>4, PatchNone DEF ListInv
  <2>3. /\ writer'[w].op = "insertCategory" /\ writer'[w].at = "cache" /\ writer'[w].id = i
        /\ writer'[w].value = writer[w].value /\ item'[i] = writer[w].value
    BY <1>1, <1>2, <2>1 DEF ListInv, ListTypeOK, Request
  <2>4. Step(w, i)
    BY <1>1, <1>2, <2>1, <2>3 DEF ListInv, ListTypeOK, Request, Points, Step
  <2>5. Clear(i) => Open(w)'
    <3>1. Clear(i) => writer[w].value.hidden = item[i].hidden /\ item[i].cats \subseteq writer[w].value.cats
      BY <1>1, <1>2, <2>1 DEF Open, Current
    <3>2. writer[w].value # Absent
      BY <1>2, NotAbsent
    <3>3. Clear(i) => \A l \in Lists : \A d \in docs[l] : d.id = i => Agrees(d, writer[w].value)
      BY <1>3, <3>1, <3>2 DEF Agrees, withWildCard
    <3>4. QED
      BY <1>4, <2>3, <3>3 DEF Open, Half, Current
  <2>6. QED
    BY <1>1, <1>2, <2>2, <2>3, <2>4, <2>5, RequestStep
<1>5. CASE At(w, "insertCategory", "cache") /\ CategoryCache(w) /\ End(w) /\ UNCHANGED item
  <2>1. writer[w].at = "cache" /\ writer' = [writer EXCEPT ![w] = Free]
    BY <1>5 DEF At, End
  <2> DEFINE C == withWildCard(writer[w].value.cats)
  <2>2. Patched(i, {"cats"}, C, FALSE)
    BY <1>1, <1>2, <1>5, CategoryPatched
  <2>3. writer'[w] = Free /\ writer'[w].op = "none"
    BY <2>1, FreeIsRequest DEF ListInv, ListTypeOK
  <2>4. Step(w, i)
    BY <1>2, <1>5, <2>1, <2>3, FreeIsRequest DEF ListInv, ListTypeOK, Step
  <2>5. Clear(i) => Quiet(i)'
    <3> SUFFICES ASSUME Clear(i), NEW l \in Lists, NEW d \in docs'[l], d.id = i PROVE Agrees(d, item[i])
      BY <1>5 DEF Quiet, Agrees
    <3>1. PICK e \in docs[l] : Change(e, d, i, {"cats"}, C, FALSE)
      BY <2>2 DEF Patched
    <3>2. Agrees(e, item[i]) /\ d.hidden = e.hidden /\ d.cats = C
      BY <1>3, <3>1 DEF Change
    <3>3. C = withWildCard(item[i].cats)
      BY <1>1, <1>2, <2>1 DEF Open, Current
    <3> HIDE DEF C
    <3>4. QED
      BY <3>2, <3>3 DEF Agrees
  <2>6. QED
    BY <1>1, <1>2, <2>2, <2>3, <2>4, <2>5, RequestStep
<1>6. QED
  BY <1>4, <1>5 DEF insertItemCategory

\* deleteItemCategory: the cache, then the data store.
LEMMA DeleteItemCategoryStep ==
    ASSUME Proper, ListInv, NEW w \in Writers, deleteItemCategory(w) PROVE ListInv'
<1>1. PICK i \in ItemIds : i = writer[w].id
  BY Mine DEF deleteItemCategory, At
<1>2. /\ writer[w] \in Request /\ writer[w].value \in Values
      /\ writer[w].op = "deleteCategory"
      /\ UNCHANGED <<load, loads, blurred, touched>>
      /\ Clear(i) => Open(w)
  BY <1>1, Mine DEF deleteItemCategory, At
<1>3. CASE At(w, "deleteCategory", "cache") /\ CategoryCache(w) /\ Go(w, "data") /\ UNCHANGED item
  <2>1. writer[w].at = "cache" /\ writer' = [writer EXCEPT ![w].at = "data"]
    BY <1>3 DEF At, Go
  <2> DEFINE C == withWildCard(writer[w].value.cats)
  <2>2. Patched(i, {"cats"}, C, FALSE)
    BY <1>1, <1>2, <1>3, CategoryPatched
  <2>3. /\ writer'[w].op = "deleteCategory" /\ writer'[w].at = "data" /\ writer'[w].id = i
        /\ writer'[w].value = writer[w].value
    BY <1>1, <1>2, <2>1 DEF ListInv, ListTypeOK, Request
  <2>4. Step(w, i)
    BY <1>1, <1>2, <1>3, <2>1, <2>3 DEF ListInv, ListTypeOK, Request, Points, Step
  <2>5. Clear(i) => Open(w)'
    <3> SUFFICES ASSUME Clear(i), NEW l \in Lists, NEW d \in docs'[l], d.id = i
                 PROVE  (writer[w].value.hidden => d.hidden) /\ d.cats = C
      BY <2>3 DEF Open, Half, Current, Even
    <3>1. PICK e \in docs[l] : Change(e, d, i, {"cats"}, C, FALSE)
      BY <2>2 DEF Patched
    <3>2. e.id = i /\ d.hidden = e.hidden /\ d.cats = C
      BY <3>1 DEF Change
    <3>3. Agrees(e, item[i]) /\ writer[w].value.hidden = item[i].hidden
      BY <1>1, <1>2, <2>1, <3>2 DEF Open, Half, Current, Even
    <3> HIDE DEF C
    <3>4. QED
      BY <3>2, <3>3 DEF Agrees
  <2>6. QED
    BY <1>1, <1>2, <2>2, <2>3, <2>4, <2>5, RequestStep
<1>4. CASE At(w, "deleteCategory", "data") /\ Store(w, writer[w].value) /\ End(w) /\ UNCHANGED docs
  <2>1. /\ writer[w].at = "data" /\ writer' = [writer EXCEPT ![w] = Free]
        /\ item' = [item EXCEPT ![i] = writer[w].value]
    BY <1>1, <1>4 DEF At, Store, End
  <2>2. Patched(i, {}, {}, FALSE)
    BY <1>4, PatchNone DEF ListInv
  <2>3. writer'[w] = Free /\ writer'[w].op = "none" /\ item'[i] = writer[w].value
    BY <2>1, FreeIsRequest DEF ListInv, ListTypeOK
  <2>4. Step(w, i)
    BY <1>2, <2>1, <2>3, FreeIsRequest DEF ListInv, ListTypeOK, Step
  <2>5. Clear(i) => Quiet(i)'
    <3>1. writer[w].value # Absent
      BY <1>2, NotAbsent
    <3>2. Clear(i) => \A l \in Lists : \A d \in docs[l] : d.id = i =>
             (writer[w].value.hidden => d.hidden) /\ d.cats = withWildCard(writer[w].value.cats)
      BY <1>1, <1>2, <2>1 DEF Open, Half
    <3>3. QED
      BY <1>4, <2>3, <3>1, <3>2 DEF Quiet, Agrees
  <2>6. QED
    BY <1>1, <1>2, <2>2, <2>3, <2>4, <2>5, RequestStep
<1>5. QED
  BY <1>3, <1>4 DEF deleteItemCategory

\* A request arrives: two for one item blur it, and a load is told of it.
LEMMA ArriveStep ==
    ASSUME ListInv, NEW w \in Writers, Arrive(w) PROVE ListInv'
<1>1. PICK i \in ItemIds, r \in Request :
         /\ writer' = [writer EXCEPT ![w] = r] /\ r.id = i /\ r.op # "none"
         /\ Even(r) /\ (r.op \in {"insertCategory", "deleteCategory"} <=> r.at = "get")
         /\ r.op # "delete" => r.value \in Values
         /\ touched' = [touched EXCEPT ![i] = TRUE]
         /\ blurred' = [blurred EXCEPT ![i] = @ \/ Writing(i)]
  <2>1. PICK i \in ItemIds :
           /\ \E v \in Values :
                \/ writer' = [writer EXCEPT ![w] = [op |-> "insert", id |-> i, at |-> "cache", value |-> v, sets |-> {"hidden", "cats"}]]
                \/ \E s \in SUBSET {"hidden", "cats"} :
                     writer' = [writer EXCEPT ![w] = [op |-> "modify", id |-> i, at |-> "hide", value |-> v, sets |-> s]]
                \/ \E op \in {"insertCategory", "deleteCategory"} :
                     writer' = [writer EXCEPT ![w] = [op |-> op, id |-> i, at |-> "get", value |-> v, sets |-> {"cats"}]]
                \/ writer' = [writer EXCEPT ![w] = [op |-> "delete", id |-> i, at |-> "data", value |-> Absent, sets |-> {}]]
           /\ touched' = [touched EXCEPT ![i] = TRUE]
           /\ blurred' = [blurred EXCEPT ![i] = @ \/ Writing(i)]
    BY DEF Arrive
  <2> DEFINE Fits(r) ==
               /\ r \in Request /\ writer' = [writer EXCEPT ![w] = r] /\ r.id = i /\ r.op # "none"
               /\ Even(r) /\ (r.op \in {"insertCategory", "deleteCategory"} <=> r.at = "get")
               /\ r.op # "delete" => r.value \in Values
  <2>2. \E r \in Request : Fits(r)
    <3>1. PICK v \in Values :
                \/ writer' = [writer EXCEPT ![w] = [op |-> "insert", id |-> i, at |-> "cache", value |-> v, sets |-> {"hidden", "cats"}]]
                \/ \E s \in SUBSET {"hidden", "cats"} :
                     writer' = [writer EXCEPT ![w] = [op |-> "modify", id |-> i, at |-> "hide", value |-> v, sets |-> s]]
                \/ \E op \in {"insertCategory", "deleteCategory"} :
                     writer' = [writer EXCEPT ![w] = [op |-> op, id |-> i, at |-> "get", value |-> v, sets |-> {"cats"}]]
                \/ writer' = [writer EXCEPT ![w] = [op |-> "delete", id |-> i, at |-> "data", value |-> Absent, sets |-> {}]]
      BY <2>1
    <3>2. CASE writer' = [writer EXCEPT ![w] = [op |-> "insert", id |-> i, at |-> "cache", value |-> v, sets |-> {"hidden", "cats"}]]
      <4>1. Fits([op |-> "insert", id |-> i, at |-> "cache", value |-> v, sets |-> {"hidden", "cats"}])
        BY <3>2 DEF Request, Ops, Points, Even
      <4>2. QED
        BY <4>1
    <3>3. ASSUME NEW s \in SUBSET {"hidden", "cats"},
                 writer' = [writer EXCEPT ![w] = [op |-> "modify", id |-> i, at |-> "hide", value |-> v, sets |-> s]]
          PROVE  \E r \in Request : Fits(r)
      <4>1. Fits([op |-> "modify", id |-> i, at |-> "hide", value |-> v, sets |-> s])
        BY <3>3 DEF Request, Ops, Points, Even
      <4>2. QED
        BY <4>1
    <3>4. ASSUME NEW op \in {"insertCategory", "deleteCategory"},
                 writer' = [writer EXCEPT ![w] = [op |-> op, id |-> i, at |-> "get", value |-> v, sets |-> {"cats"}]]
          PROVE  \E r \in Request : Fits(r)
      <4>1. Fits([op |-> op, id |-> i, at |-> "get", value |-> v, sets |-> {"cats"}])
        BY <3>4 DEF Request, Ops, Points, Even
      <4>2. QED
        BY <4>1
    <3>5. CASE writer' = [writer EXCEPT ![w] = [op |-> "delete", id |-> i, at |-> "data", value |-> Absent, sets |-> {}]]
      <4>1. Fits([op |-> "delete", id |-> i, at |-> "data", value |-> Absent, sets |-> {}])
        BY <3>5 DEF Request, Ops, Points, Even
      <4>2. QED
        BY <4>1
    <3>6. QED
      BY <3>1, <3>2, <3>3, <3>4, <3>5
  <2>3. QED
    BY <2>1, <2>2
<1>2. writer[w] = Free /\ UNCHANGED <<item, docs, load, loads>>
  BY DEF Arrive
<1>3. writer'[w] = r /\ \A v \in Writers \ {w} : writer'[v] = writer[v]
  BY <1>1 DEF ListInv, ListTypeOK
<1>4. /\ \A j \in ItemIds \ {i} : blurred'[j] = blurred[j] /\ touched'[j] = touched[j]
      /\ touched'[i] /\ (blurred'[i] <=> blurred[i] \/ Writing(i))
  BY <1>1 DEF ListInv, ListTypeOK
<1>5. Writing(i)' /\ \A j \in ItemIds \ {i} : Writing(j)' <=> Writing(j)
  <2>1. \A j \in ItemIds \ {i} : Writing(j)' => Writing(j)
    BY <1>1, <1>3 DEF Writing
  <2>2. \A j \in ItemIds : Writing(j) => Writing(j)'
    BY <1>2, <1>3, FreeIsRequest DEF Writing
  <2>3. Writing(i)'
    BY <1>1, <1>3 DEF Writing
  <2>4. QED
    BY <2>1, <2>2, <2>3
<1>6. /\ \A j \in ItemIds \ {i} : Clear(j)' => Clear(j)
      /\ Clear(i)' => Clear(i) /\ ~Writing(i)
  BY <1>2, <1>4 DEF Clear, Writes
<1>7. ListTypeOK'
  <2>1. blurred' \in [ItemIds -> BOOLEAN] /\ touched' \in [ItemIds -> BOOLEAN]
    <3>1. blurred \in [ItemIds -> BOOLEAN] /\ touched \in [ItemIds -> BOOLEAN]
      BY DEF ListInv, ListTypeOK
    <3>2. touched' \in [ItemIds -> BOOLEAN]
      BY <1>1, <3>1
    <3>3. (blurred[i] \/ Writing(i)) \in BOOLEAN
      OBVIOUS
    <3>4. blurred' \in [ItemIds -> BOOLEAN]
      BY <1>1, <3>1, <3>3
    <3>5. QED
      BY <3>2, <3>4
  <2>2. writer' \in [Writers -> Request]
    BY <1>1 DEF ListInv, ListTypeOK
  <2>3. \A v \in Writers :
           /\ IF writer'[v].op = "none" THEN writer'[v] = Free ELSE writer'[v].id \in ItemIds
           /\ writer'[v].at = "get" => writer'[v].op \in {"insertCategory", "deleteCategory"}
    BY <1>1, <1>3 DEF ListInv, ListTypeOK
  <2>4. QED
    BY <1>2, <2>1, <2>2, <2>3 DEF ListInv, ListTypeOK
<1>8. LoadOK'
  BY <1>2 DEF ListInv, LoadOK, NoLoad
<1>9. Stores'
  BY <1>1, <1>3 DEF ListInv, Stores
<1>10. Steady'
  BY <1>2, <1>5, <1>6 DEF ListInv, Steady, Quiet
<1>11. Underway'
  <2> SUFFICES ASSUME NEW v \in Writers, writer'[v].op # "none", Clear(writer[v].id)' PROVE Open(v)'
    BY DEF Underway
  <2>1. CASE v = w
    <3>1. Quiet(i)
      BY <1>1, <1>3, <1>6, <2>1 DEF ListInv, Steady
    <3>2. Current(r, item[i])
      BY <1>1 DEF Current
    <3>3. \A d : Agrees(d, item[i]) => Half(r, d, item[i])
      BY <1>1 DEF Half, Even
    <3>4. QED
      BY <1>1, <1>2, <1>3, <2>1, <3>1, <3>2, <3>3 DEF Open, Quiet
  <2>2. CASE v # w
    <3>1. writer'[v] = writer[v] /\ writer[v].id \in ItemIds
      BY <1>3, <2>2 DEF ListInv, ListTypeOK
    <3>2. writer[v].id = i => Writing(i)
      BY <3>1 DEF Writing
    <3>3. Clear(writer[v].id)
      BY <1>6, <3>1, <3>2
    <3>4. Open(v)
      BY <3>1, <3>3 DEF ListInv, Underway
    <3>5. QED
      BY <1>2, <3>1, <3>4 DEF Open
  <2>3. QED
    BY <2>1, <2>2
<1>12. Single'
  <2> SUFFICES ASSUME NEW u \in Writers, NEW v \in Writers, u # v, writer'[u].op # "none",
                      writer'[v].op # "none", writer'[u].id = writer'[v].id
               PROVE  blurred'[writer'[v].id]
    BY DEF Single
  <2>1. CASE w \in {u, v}
    <3>1. PICK x \in {u, v} : x # w
      OBVIOUS
    <3>2. writer'[x] = writer[x] /\ writer'[x].id = i /\ writer'[v].id = i
      BY <1>1, <1>3, <2>1, <3>1
    <3>3. Writing(i)
      BY <3>2 DEF Writing
    <3>4. QED
      BY <1>4, <3>2, <3>3
  <2>2. CASE w \notin {u, v}
    <3>1. writer'[u] = writer[u] /\ writer'[v] = writer[v] /\ writer[v].id \in ItemIds
      BY <1>3, <2>2 DEF ListInv, ListTypeOK
    <3>2. blurred[writer[v].id]
      BY <3>1 DEF ListInv, Single
    <3>3. QED
      BY <1>4, <3>1, <3>2
  <2>3. QED
    BY <2>1, <2>2
<1>13. Watched'
  BY <1>2, <1>4, <1>5 DEF ListInv, LoadInv, Watched, Loading
<1>14. ReadAsIs'
  <2>1. \A j \in DOMAIN load.read : j \in ItemIds
    BY DEF ListInv, LoadOK
  <2>2. QED
    BY <1>2, <1>4, <2>1 DEF ListInv, LoadInv, ReadAsIs, Loading
<1>15. NewAgree'
  <2>1. \A l \in Lists : \A d \in docs[l] : d.id \in ItemIds
    BY DEF ListInv, ListTypeOK, Document
  <2>2. QED
    BY <1>2, <1>4, <2>1 DEF ListInv, LoadInv, NewAgree, Loading
<1>16. NoneLater' /\ Swept'
  BY <1>2 DEF ListInv, LoadInv, NoneLater, Swept, Loading
<1>17. QED
  BY <1>7, <1>8, <1>9, <1>10, <1>11, <1>12, <1>13, <1>14, <1>15, <1>16 DEF ListInv, LoadInv

\* A call fails: the item of the request is blurred.
LEMMA FailStep ==
    ASSUME ListInv, NEW w \in Writers, Fail(w) PROVE ListInv'
<1>1. PICK i \in ItemIds : i = writer[w].id /\ writer[w].op # "none"
  BY DEF Fail, ListInv, ListTypeOK
<1>2. /\ writer' = [writer EXCEPT ![w] = Free] /\ blurred' = [blurred EXCEPT ![i] = TRUE]
      /\ UNCHANGED <<item, docs, load, loads, touched>>
  BY <1>1 DEF Fail, End
<1>3. writer'[w] = Free /\ writer'[w].op = "none" /\ \A v \in Writers \ {w} : writer'[v] = writer[v]
  BY <1>2, FreeIsRequest DEF ListInv, ListTypeOK
<1>4. blurred'[i] /\ \A j \in ItemIds \ {i} : blurred'[j] = blurred[j]
  BY <1>2 DEF ListInv, ListTypeOK
<1>5. \A j \in ItemIds : /\ Writing(j)' => Writing(j)
                         /\ j # i /\ Writing(j) => Writing(j)'
  BY <1>1, <1>3 DEF Writing
<1>6. \A j \in ItemIds : Clear(j)' => j # i /\ Clear(j)
  BY <1>2, <1>4 DEF Clear, Writes
<1>7. ListTypeOK'
  <2>1. writer' \in [Writers -> Request] /\ blurred' \in [ItemIds -> BOOLEAN]
    BY <1>2, FreeIsRequest DEF ListInv, ListTypeOK
  <2>2. \A v \in Writers :
           /\ IF writer'[v].op = "none" THEN writer'[v] = Free ELSE writer'[v].id \in ItemIds
           /\ writer'[v].at = "get" => writer'[v].op \in {"insertCategory", "deleteCategory"}
    BY <1>3, FreeIsRequest DEF ListInv, ListTypeOK
  <2>3. QED
    BY <1>2, <2>1, <2>2 DEF ListInv, ListTypeOK
<1>8. LoadOK'
  BY <1>2 DEF ListInv, LoadOK, NoLoad
<1>9. Stores'
  BY <1>3 DEF ListInv, Stores
<1>10. Steady'
  BY <1>2, <1>5, <1>6 DEF ListInv, Steady, Quiet
<1>11. Underway'
  <2> SUFFICES ASSUME NEW v \in Writers, writer'[v].op # "none", Clear(writer[v].id)' PROVE Open(v)'
    BY DEF Underway
  <2>1. writer'[v] = writer[v] /\ writer[v].id \in ItemIds
    BY <1>3 DEF ListInv, ListTypeOK
  <2>2. Open(v)
    BY <1>6, <2>1 DEF ListInv, Underway
  <2>3. QED
    BY <1>2, <2>1, <2>2 DEF Open
<1>12. Single'
  <2> SUFFICES ASSUME NEW u \in Writers, NEW v \in Writers, u # v, writer'[u].op # "none",
                      writer'[v].op # "none", writer'[u].id = writer'[v].id
               PROVE  blurred'[writer'[v].id]
    BY DEF Single
  <2>1. writer'[u] = writer[u] /\ writer'[v] = writer[v] /\ writer[v].id \in ItemIds
    BY <1>3 DEF ListInv, ListTypeOK
  <2>2. blurred[writer[v].id]
    BY <2>1 DEF ListInv, Single
  <2>3. QED
    BY <1>4, <2>1, <2>2
<1>13. LoadInv'
  BY <1>2, <1>5 DEF ListInv, LoadInv, Watched, ReadAsIs, NewAgree, NoneLater, Swept, Loading
<1>14. QED
  BY <1>7, <1>8, <1>9, <1>10, <1>11, <1>12, <1>13 DEF ListInv

-----------------------------------------------------------------------------
(* Loads.                                                                  *)

\* What no step of a load changes.
Apart == UNCHANGED <<item, writer>>

\* A load leaves alone what is known of the requests.
LEMMA ApartStep ==
    ASSUME ListInv, Apart, blurred' = blurred, docs' = docs,
           \A i \in ItemIds : Clear(i)' => Clear(i)
    PROVE  Stores' /\ Steady' /\ Underway' /\ Single'
<1>1. \A w \in Writers : writer[w].op # "none" => writer[w].id \in ItemIds
  BY DEF ListInv, ListTypeOK
<1>2. Stores' /\ Single'
  BY DEF ListInv, Apart, Stores, Single
<1>3. Steady'
  BY DEF ListInv, Apart, Steady, Quiet, Writing
<1>4. Underway'
  BY <1>1 DEF ListInv, Apart, Underway, Open
<1>5. QED
  BY <1>2, <1>3, <1>4

\* The record of a load.
Loads(R) == [at : {"idle", "read", "delete"}, read : {R}, todo : SUBSET Lists,
             list : Lists \cup {""}, kept : BOOLEAN]

\* Nothing is read.
LEMMA NothingRead == DOMAIN <<>> = {}
OBVIOUS

\* The record of a load that has read nothing.
LEMMA Unread ==
    ASSUME NEW a \in {"idle", "read", "delete"}, NEW t \in SUBSET Lists,
           load' = [at |-> a, read |-> <<>>, todo |-> t, list |-> "", kept |-> FALSE]
    PROVE  /\ load'.at = a /\ load'.todo = t /\ ~load'.kept /\ DOMAIN load'.read = {}
           /\ load' \in Loads(load'.read)
<1>1. load'.at = a /\ load'.todo = t /\ load'.kept = FALSE /\ load'.read = <<>>
  BY Zenon
<1>2. DOMAIN <<>> = {}
  BY NothingRead
<1>3. \A R : [at |-> a, read |-> R, todo |-> t, list |-> "", kept |-> FALSE] \in Loads(R)
  BY DEF Loads
<1>4. load' \in Loads(load'.read)
  BY <1>1, <1>3, Zenon
<1>5. QED
  BY <1>1, <1>2, <1>4, Zenon

\* A load begins: it knows the requests under way, and no document is new.
LEMMA LoadBeginsStep == ASSUME ListInv, LoadBegins PROVE ListInv'
<1>1. /\ Apart /\ blurred' = blurred /\ docs' = docs /\ loads' = loads + 1
  BY DEF LoadBegins, Apart
<1>0. touched' \in [ItemIds -> BOOLEAN] /\ \A i \in ItemIds : touched'[i] <=> Writing(i)
  <2>1. touched' = [i \in ItemIds |-> Writing(i)] /\ \A i \in ItemIds : Writing(i) \in BOOLEAN
    BY Zenon DEF LoadBegins, Writing
  <2>2. QED
    BY <2>1, Zenon
<1>2. /\ load'.at = "read" /\ load'.todo = Lists /\ ~load'.kept /\ DOMAIN load'.read = {}
      /\ load' \in Loads(load'.read)
  <2>1. load' = [at |-> "read", read |-> <<>>, todo |-> Lists, list |-> "", kept |-> FALSE]
    BY DEF LoadBegins
  <2>2. "read" \in {"idle", "read", "delete"} /\ Lists \in SUBSET Lists
    OBVIOUS
  <2>3. QED
    BY <2>1, <2>2, Unread, Zenon
<1>3. ListTypeOK'
  <2>1. loads' \in Nat
    BY <1>1 DEF ListInv, ListTypeOK
  <2>2. QED
    BY <1>0, <1>1, <2>1 DEF ListInv, ListTypeOK, Apart
<1>4. LoadOK'
  BY <1>2 DEF LoadOK, Loads
<1>5. ~Writes'
  BY <1>2 DEF Writes
<1>6. Stores' /\ Steady' /\ Underway' /\ Single'
  <2>1. \A i \in ItemIds : Clear(i) <=> ~blurred[i]
    BY DEF Clear, Writes, LoadBegins, NoLoad
  <2>2. QED
    BY <1>1, <1>5, <2>1, ApartStep DEF Clear
<1>7. Watched'
  BY <1>0, <1>1 DEF Watched, Writing, Apart
<1>8. NoneLater' /\ \A l \in Lists : \A d \in docs'[l] : d.ts # loads'
  <2>1. loads \in Nat /\ \A l \in Lists : \A d \in docs[l] : d.ts \in Nat /\ d.ts <= loads
    BY DEF ListInv, ListTypeOK, Document, LoadInv, NoneLater
  <2>2. QED
    BY <1>1, <2>1 DEF NoneLater
<1>9. ReadAsIs' /\ NewAgree' /\ Swept'
  BY <1>2, <1>8 DEF ReadAsIs, NewAgree, Swept
<1>10. QED
  BY <1>3, <1>4, <1>6, <1>7, <1>8, <1>9 DEF ListInv, LoadInv

\* An item is read.
LEMMA ReadItemStep == ASSUME ListInv, ReadItem PROVE ListInv'
<1>1. PICK i \in ItemIds :
         load' = [load EXCEPT !.read = [j \in DOMAIN @ \cup {i} |-> IF j = i THEN item[i] ELSE @[j]]]
  BY DEF ReadItem
<1>2. Apart /\ UNCHANGED <<docs, loads, blurred, touched>> /\ load.at = "read"
  BY DEF ReadItem, Apart
<1> DEFINE R == [j \in DOMAIN load.read \cup {i} |-> IF j = i THEN item[i] ELSE load.read[j]]
<1>3. /\ load'.at = load.at /\ load'.todo = load.todo /\ load'.kept = load.kept /\ load'.list = load.list
      /\ load'.read = R
      /\ load' \in [at : {"idle", "read", "delete"}, read : {R}, todo : SUBSET Lists,
                    list : Lists \cup {""}, kept : BOOLEAN]
  BY <1>1 DEF ListInv, LoadOK
<1>4. DOMAIN R = DOMAIN load.read \cup {i} /\ \A j \in DOMAIN R : R[j] = IF j = i THEN item[i] ELSE load.read[j]
  OBVIOUS
<1> HIDE DEF R
<1>5. ListTypeOK'
  BY <1>2 DEF ListInv, ListTypeOK, Apart
<1>6. LoadOK'
  <2>1. item[i] \in Values \cup {Absent}
    BY DEF ListInv, ListTypeOK
  <2>2. \A j \in DOMAIN R : j \in ItemIds /\ R[j] \in Values \cup {Absent}
    BY <1>4, <2>1 DEF ListInv, LoadOK
  <2>3. QED
    BY <1>2, <1>3, <2>2 DEF LoadOK
<1>7. Stores' /\ Steady' /\ Underway' /\ Single'
  <2>1. \A j \in ItemIds : Clear(j)' => Clear(j)
    BY <1>2, <1>3 DEF Clear, Writes
  <2>2. QED
    BY <1>2, <2>1, ApartStep
<1>8. ReadAsIs'
  BY <1>2, <1>3, <1>4 DEF ListInv, LoadInv, ReadAsIs, Loading, Apart
<1>9. Watched' /\ NewAgree' /\ NoneLater' /\ Swept'
  BY <1>2, <1>3 DEF ListInv, LoadInv, Watched, NewAgree, NoneLater, Swept, Loading, Writing, Apart
<1>10. QED
  BY <1>5, <1>6, <1>7, <1>8, <1>9 DEF ListInv, LoadInv

\* No load is idle, and has read nothing.
LEMMA IdleLoad ==
    ASSUME load' = NoLoad
    PROVE  /\ load'.at = "idle" /\ load'.todo = {} /\ ~load'.kept /\ DOMAIN load'.read = {}
           /\ load' \in Loads(load'.read)
<1>1. "idle" \in {"idle", "read", "delete"} /\ {} \in SUBSET Lists
  OBVIOUS
<1>2. load' = [at |-> "idle", read |-> <<>>, todo |-> {}, list |-> "", kept |-> FALSE]
  BY Zenon DEF NoLoad
<1>3. QED
  BY <1>1, <1>2, Unread, Zenon

\* Reading fails before any list was written.
LEMMA ReadFailsStep == ASSUME ListInv, ReadFails PROVE ListInv'
<1>1. /\ Apart /\ UNCHANGED <<docs, loads, blurred, touched>> /\ load.at = "read" /\ load.todo = Lists
      /\ load' = NoLoad
  BY DEF ReadFails, Apart
<1>2. load'.at = "idle" /\ DOMAIN load'.read = {} /\ load' \in Loads(load'.read)
  BY <1>1, IdleLoad
<1>3. ListTypeOK'
  BY <1>1 DEF ListInv, ListTypeOK, Apart
<1>4. LoadOK'
  BY <1>1, <1>2 DEF LoadOK, Loads
<1>5. Stores' /\ Steady' /\ Underway' /\ Single'
  <2>1. \A i \in ItemIds : Clear(i)' => Clear(i)
    BY <1>1 DEF Clear, Writes
  <2>2. QED
    BY <1>1, <2>1, ApartStep
<1>6. LoadInv'
  BY <1>1, <1>2 DEF ListInv, LoadInv, Watched, ReadAsIs, NewAgree, NoneLater, Swept, Loading
<1>7. QED
  BY <1>3, <1>4, <1>5, <1>6 DEF ListInv

\* What PopAll makes of the items read: each agrees with what was read.
LEMMA Popped ==
    ASSUME ListInv, NEW p \in PopAll
    PROVE  /\ p \in Document /\ p.ts = loads /\ p.id \in DOMAIN load.read
           /\ Agrees(p, load.read[p.id])
<1> DEFINE cats(i) == {c \in withWildCard(Categories) : i \in Heap(c)}
<1>1. PICK i \in DOMAIN load.read :
         cats(i) # {} /\ p = [id |-> i, ts |-> loads, cats |-> cats(i), hidden |-> FALSE]
  BY DEF PopAll
<1>2. \A c \in cats(i) : Push(i) /\ c \in withWildCard(load.read[i].cats)
  BY DEF Heap
<1>3. cats(i) \in SUBSET withWildCard(Categories)
  OBVIOUS
<1>4. i \in ItemIds /\ loads \in Nat
  BY DEF ListInv, LoadOK, ListTypeOK
<1> HIDE DEF cats
<1>5. p.id = i /\ p.ts = loads /\ p.cats = cats(i) /\ p.hidden = FALSE /\ p \in Document
  BY <1>1, <1>3, <1>4 DEF Document
<1>6. load.read[i] # Absent /\ ~load.read[i].hidden
  BY <1>1, <1>2 DEF Push
<1>7. QED
  BY <1>2, <1>5, <1>6 DEF Agrees

\* A list is written.
LEMMA AddScoresStep == ASSUME ListInv, NEW l \in Lists, AddScores(l) PROVE ListInv'
<1>1. /\ Apart /\ UNCHANGED <<loads, blurred, touched>> /\ load.at = "read" /\ DOMAIN load.read = ItemIds
      /\ l \in load.todo /\ load' = [load EXCEPT !.at = "delete", !.list = l, !.todo = @ \ {l}]
      /\ \/ docs' = [docs EXCEPT ![l] = {d \in @ : \A p \in PopAll : p.id # d.id} \cup PopAll]
         \/ docs' = docs
  BY DEF AddScores, Apart
<1>2. /\ load'.at = "delete" /\ load'.todo = load.todo \ {l} /\ load'.kept = load.kept
      /\ load'.list = l /\ load'.read = load.read
      /\ load' \in [at : {"idle", "read", "delete"}, read : {load.read}, todo : SUBSET Lists,
                    list : Lists \cup {""}, kept : BOOLEAN]
  BY <1>1 DEF ListInv, LoadOK
<1>3. \A m \in Lists : \A d \in docs'[m] : d \in docs[m] \/ (m = l /\ d \in PopAll)
  BY <1>1 DEF ListInv, ListTypeOK
<1>4. \A d \in PopAll : /\ d \in Document /\ d.ts = loads
                        /\ ~touched[d.id] => Agrees(d, item[d.id])
  <2>1. \A i \in DOMAIN load.read : ~touched[i] => load.read[i] = item[i]
    BY <1>1 DEF ListInv, LoadInv, ReadAsIs, Loading
  <2>2. QED
    BY <2>1, Popped
<1>5. Loading /\ Loading' /\ Writes'
  BY <1>1, <1>2 DEF Loading, Writes
<1>6. ListTypeOK'
  <2>1. docs' \in [Lists -> SUBSET Document]
    BY <1>1, <1>4 DEF ListInv, ListTypeOK
  <2>2. QED
    BY <1>1, <2>1 DEF ListInv, ListTypeOK, Apart
<1>7. LoadOK'
  BY <1>2 DEF ListInv, LoadOK
<1>8. \A i \in ItemIds : Clear(i)' => Clear(i) /\ ~touched[i] /\ ~Writing(i)
  BY <1>1, <1>5 DEF ListInv, LoadInv, Watched, Clear
<1>9. Stores' /\ Single'
  BY <1>1 DEF ListInv, Stores, Single, Apart
<1>10. Steady'
  <2> SUFFICES ASSUME NEW i \in ItemIds, Clear(i)', NEW m \in Lists, NEW d \in docs'[m], d.id = i
               PROVE  Agrees(d, item[i])
    BY <1>1 DEF Steady, Quiet, Agrees, Apart
  <2>1. Quiet(i)
    BY <1>8 DEF ListInv, Steady
  <2>2. QED
    BY <1>3, <1>4, <1>8, <2>1 DEF Quiet
<1>11. Underway'
  <2>1. \A w \in Writers : writer[w].op # "none" => writer[w].id \in ItemIds /\ Writing(writer[w].id)
    BY DEF ListInv, ListTypeOK, Writing
  <2>2. QED
    BY <1>1, <1>8, <2>1 DEF Underway, Apart
<1>12. Watched' /\ ReadAsIs'
  BY <1>1, <1>2, <1>5 DEF ListInv, LoadInv, Watched, ReadAsIs, Writing, Apart
<1>13. NewAgree'
  <2> SUFFICES ASSUME NEW m \in Lists, NEW d \in docs'[m], d.ts = loads, ~touched[d.id]
               PROVE  Agrees(d, item[d.id])
    BY <1>1 DEF NewAgree, Agrees, Apart
  <2>1. QED
    BY <1>3, <1>4, <1>5 DEF ListInv, LoadInv, NewAgree
<1>14. NoneLater'
  <2>1. loads \in Nat
    BY DEF ListInv, ListTypeOK
  <2>2. QED
    BY <1>1, <1>3, <1>4, <2>1 DEF ListInv, LoadInv, NoneLater
<1>15. Swept'
  <2> SUFFICES ASSUME ~load.kept, NEW m \in Lists, m \notin load.todo, m # l, NEW d \in docs'[m]
               PROVE  d.ts = loads
    BY <1>1, <1>2 DEF Swept
  <2>1. d \in docs[m]
    BY <1>3
  <2>2. QED
    BY <1>1, <1>5, <2>1 DEF ListInv, LoadInv, Swept
<1>16. QED
  BY <1>6, <1>7, <1>9, <1>10, <1>11, <1>12, <1>13, <1>14, <1>15 DEF ListInv, LoadInv

\* Fewer documents disturb neither an item that nobody writes nor a request.
LEMMA FewerDocs ==
    ASSUME ListInv, Apart, \A l \in Lists : docs'[l] \subseteq docs[l]
    PROVE  /\ \A i \in ItemIds : Quiet(i) => Quiet(i)'
           /\ \A w \in Writers : writer[w].op # "none" /\ Open(w) => Open(w)'
<1>1. \A i \in ItemIds : Quiet(i) => Quiet(i)'
  BY DEF Quiet, Apart
<1>2. \A w \in Writers : writer[w].op # "none" /\ Open(w) => Open(w)'
  BY DEF Open, Apart
<1>3. QED
  BY <1>1, <1>2

\* The older documents of a list are deleted, and the load goes on or ends.
LEMMA DeleteOutdatedStep == ASSUME ListInv, DeleteOutdated PROVE ListInv'
<1>1. PICK ok \in BOOLEAN :
         /\ docs' = IF ok THEN [docs EXCEPT ![load.list] = {d \in @ : ~Outdated(d)}] ELSE docs
         /\ IF load.todo # {} THEN /\ load' = [load EXCEPT !.at = "read", !.kept = @ \/ ~ok]
                                   /\ UNCHANGED <<blurred, touched>>
            ELSE /\ load' = NoLoad
                 /\ blurred' = [i \in ItemIds |-> touched[i] \/ ((load.kept \/ ~ok) /\ blurred[i])]
                 /\ touched' = [i \in ItemIds |-> FALSE]
  BY DEF DeleteOutdated
<1>2. /\ Apart /\ loads' = loads /\ load.at = "delete" /\ load.list \in Lists /\ load.list \notin load.todo
      /\ Writes /\ Loading
  BY DEF DeleteOutdated, Apart, ListInv, LoadOK, Writes, Loading
<1>3. docs \in [Lists -> SUBSET Document] /\ loads \in Nat
  BY DEF ListInv, ListTypeOK
<1>4. docs' \in [Lists -> SUBSET Document] /\ \A l \in Lists : docs'[l] \subseteq docs[l]
  <2>1. docs' = IF ok THEN [docs EXCEPT ![load.list] = {d \in docs[load.list] : ~Outdated(d)}] ELSE docs
    BY <1>1
  <2>2. QED
    BY <1>2, <1>3, <2>1
<1>5. ok => \A d \in docs'[load.list] : d.ts = loads
  <2>1. ok => docs'[load.list] = {d \in docs[load.list] : ~Outdated(d)}
    BY <1>1, <1>2, <1>3
  <2>2. \A d \in docs[load.list] : d.ts \in Nat /\ d.ts <= loads
    BY <1>2, <1>3 DEF ListInv, LoadInv, NoneLater, Document
  <2>3. QED
    BY <1>3, <2>1, <2>2 DEF Outdated
<1>6. Stores'
  BY <1>2 DEF ListInv, Stores, Apart
<1>7. NoneLater'
  BY <1>2, <1>4 DEF ListInv, LoadInv, NoneLater
<1>8. CASE load.todo # {}
  <2>1. load' = [load EXCEPT !.at = "read", !.kept = load.kept \/ ~ok] /\ blurred' = blurred /\ touched' = touched
    BY <1>1, <1>8
  <2>2. (load.kept \/ ~ok) \in BOOLEAN
    BY Zenon
  <2>3. /\ load'.at = "read" /\ load'.todo = load.todo /\ load'.read = load.read
        /\ load' \in Loads(load.read)
    <3>1. load \in Loads(load.read)
      BY DEF ListInv, LoadOK, Loads
    <3>2. PICK k \in BOOLEAN : k = (load.kept \/ ~ok)
      BY <2>2
    <3>3. load' = [load EXCEPT !.at = "read", !.kept = k]
      BY <2>1, <3>2, Zenon
    <3>4. QED
      BY <3>1, <3>3 DEF Loads
  <2>4. ~load'.kept => ~load.kept /\ ok
    <3>1. load \in Loads(load.read)
      BY DEF ListInv, LoadOK, Loads
    <3>2. load'.kept = (load.kept \/ ~ok)
      BY <2>1, <3>1 DEF Loads
    <3>3. QED
      BY <3>2, Zenon
  <2>5. Writes' /\ Loading'
    BY <1>2, <2>3 DEF Writes, Loading
  <2>6. ListTypeOK'
    BY <1>2, <1>4, <2>1 DEF ListInv, ListTypeOK, Apart
  <2>7. LoadOK'
    BY <2>3 DEF ListInv, LoadOK, Loads
  <2>8. \A i \in ItemIds : Clear(i)' => Clear(i)
    BY <1>2, <2>1, <2>5 DEF Clear
  <2>9. Single'
    BY <1>2, <2>1 DEF ListInv, Single, Apart
  <2>10. Steady'
    BY <1>2, <1>4, <2>8, FewerDocs DEF ListInv, Steady, Writing, Apart
  <2>11. Underway'
    <3>1. \A w \in Writers : writer[w].op # "none" => writer[w].id \in ItemIds
      BY DEF ListInv, ListTypeOK
    <3>2. QED
      BY <1>2, <1>4, <2>8, <3>1, FewerDocs DEF ListInv, Underway, Apart
  <2>12. Watched' /\ ReadAsIs' /\ NewAgree'
    BY <1>2, <1>4, <2>1, <2>3, <2>5 DEF ListInv, LoadInv, Watched, ReadAsIs, NewAgree, Writing, Apart
  <2>13. Swept'
    <3> SUFFICES ASSUME ~load'.kept, NEW l \in Lists, l \notin load.todo, NEW d \in docs'[l]
                 PROVE  d.ts = loads
      BY <1>2, <2>3 DEF Swept
    <3>1. CASE l = load.list
      BY <1>5, <2>4, <3>1
    <3>2. CASE l # load.list
      BY <1>2, <1>4, <2>4, <3>2 DEF ListInv, LoadInv, Swept
    <3>3. QED
      BY <3>1, <3>2
  <2>14. QED
    BY <1>6, <1>7, <2>6, <2>7, <2>9, <2>10, <2>11, <2>12, <2>13 DEF ListInv, LoadInv
<1>9. CASE load.todo = {}
  <2>1. load' = NoLoad
    BY <1>1, <1>9
  <2>2. load'.at = "idle" /\ load' \in Loads(load'.read) /\ DOMAIN load'.read = {}
    BY <2>1, IdleLoad
  <2>3. ~Writes' /\ ~Loading'
    BY <2>2 DEF Writes, Loading
  <2>4. /\ blurred' = [i \in ItemIds |-> touched[i] \/ ((load.kept \/ ~ok) /\ blurred[i])]
        /\ touched' = [i \in ItemIds |-> FALSE]
    BY <1>1, <1>9
  <2>5. blurred' \in [ItemIds -> BOOLEAN] /\ touched' \in [ItemIds -> BOOLEAN]
    BY <2>4, Zenon
  <2>6. \A i \in ItemIds : ~blurred'[i] => ~touched[i] /\ (~blurred[i] \/ (~load.kept /\ ok))
    BY <2>4, Zenon
  <2> HIDE <1>1
  <2>7. ListTypeOK'
    BY <1>2, <1>4, <2>5 DEF ListInv, ListTypeOK, Apart
  <2>8. LoadOK'
    BY <2>1, <2>2 DEF LoadOK, Loads
  <2>9. \A i \in ItemIds : ~touched[i] => ~Writing(i)
    BY <1>2 DEF ListInv, LoadInv, Watched
  <2>10. \A i \in ItemIds : ~blurred'[i] => Quiet(i)'
    <3> SUFFICES ASSUME NEW i \in ItemIds, ~blurred'[i] PROVE Quiet(i)'
      OBVIOUS
    <3>1. ~touched[i]
      BY <2>6
    <3>2. CASE ~blurred[i]
      <4>1. Quiet(i)
        BY <2>9, <3>1, <3>2 DEF ListInv, Steady, Clear
      <4>2. QED
        BY <1>2, <1>4, <4>1, FewerDocs
    <3>3. CASE ~load.kept /\ ok
      <4> SUFFICES ASSUME NEW l \in Lists, NEW d \in docs'[l], d.id = i PROVE Agrees(d, item[i])
        BY <1>2 DEF Quiet, Agrees, Apart
      <4>1. d \in docs[l]
        BY <1>4
      <4>2. d.ts = loads
        <5>1. CASE l = load.list
          BY <1>5, <3>3, <5>1
        <5>2. CASE l # load.list
          BY <1>2, <1>9, <3>3, <4>1, <5>2 DEF ListInv, LoadInv, Swept
        <5>3. QED
          BY <5>1, <5>2
      <4>3. QED
        BY <1>2, <3>1, <4>1, <4>2 DEF ListInv, LoadInv, NewAgree
    <3>4. QED
      BY <2>6, <3>2, <3>3
  <2>11. Steady'
    BY <2>10 DEF Steady, Clear
  <2>12. \A w \in Writers : writer'[w].op # "none" =>
            writer'[w] = writer[w] /\ writer[w].id \in ItemIds /\ blurred'[writer[w].id]
    <3>1. \A w \in Writers : writer'[w] = writer[w]
      BY <1>2 DEF Apart
    <3>2. \A w \in Writers : writer[w].op # "none" => writer[w].id \in ItemIds /\ Writing(writer[w].id)
      BY DEF ListInv, ListTypeOK, Writing
    <3>3. QED
      BY <2>6, <2>9, <3>1, <3>2
  <2>13. Underway' /\ Single'
    BY <2>12 DEF Underway, Single, Clear
  <2>14. Watched' /\ ReadAsIs' /\ NewAgree' /\ Swept'
    BY <2>3 DEF Watched, ReadAsIs, NewAgree, Swept
  <2>15. QED
    BY <1>6, <1>7, <2>7, <2>8, <2>11, <2>13, <2>14 DEF ListInv, LoadInv
<1>10. QED
  BY <1>8, <1>9

-----------------------------------------------------------------------------

\* Nothing is in the cache, nobody writes and nothing is loaded.
LEMMA ListInvInit == ListInit => ListInv
<1> SUFFICES ASSUME ListInit PROVE ListInv
  OBVIOUS
<1>1. load.at = "idle" /\ DOMAIN load.read = {} /\ load \in Loads(load.read)
  <2>1. load = [at |-> "idle", read |-> <<>>, todo |-> {}, list |-> "", kept |-> FALSE]
    BY Zenon DEF ListInit, NoLoad
  <2>2. load.at = "idle" /\ load.read = <<>>
    BY <2>1, Zenon
  <2>3. \A R : [at |-> "idle", read |-> R, todo |-> {}, list |-> "", kept |-> FALSE] \in Loads(R)
    BY DEF Loads
  <2>4. QED
    BY <2>1, <2>2, <2>3, NothingRead, Zenon
<1>2. LoadOK
  BY <1>1 DEF LoadOK, Loads, ListInit
<1>3. ListTypeOK
  <2>1. blurred \in [ItemIds -> BOOLEAN] /\ touched \in [ItemIds -> BOOLEAN]
    BY Zenon DEF ListInit
  <2>2. docs \in [Lists -> SUBSET Document] /\ item \in [ItemIds -> Values \cup {Absent}] /\ loads \in Nat
    BY DEF ListInit
  <2>3. writer = [w \in Writers |-> Free]
    BY DEF ListInit
  <2>4. QED
    BY <2>1, <2>2, <2>3, FreeIsRequest DEF ListTypeOK
<1>4. \A w \in Writers : writer[w].op = "none"
  BY FreeIsRequest DEF ListInit
<1>5. \A l \in Lists : docs[l] = {}
  BY DEF ListInit
<1>6. QED
  BY <1>1, <1>2, <1>3, <1>4, <1>5
  DEF ListInv, Stores, Steady, Quiet, Underway, Single, LoadInv, Watched, ReadAsIs, NewAgree,
      NoneLater, Swept, Loading

\* Every step keeps the invariant.
LEMMA ListStep == ASSUME Proper PROVE ListInv /\ [ListNext]_listVars => ListInv'
<1> SUFFICES ASSUME ListInv, [ListNext]_listVars PROVE ListInv'
  OBVIOUS
<1>1. ASSUME NEW w \in Writers, Write(w) PROVE ListInv'
  BY <1>1, ArriveStep, FailStep, InsertCacheStep, BatchInsertItemsStep, ModifyHiddenStep,
     ModifyCategoriesStep, ModifyItemStep, DeleteItemStep, DeleteScoresStep, GetItemStep,
     InsertItemCategoryStep, DeleteItemCategoryStep
  DEF Write
<1>2. CASE LoadBegins BY <1>2, LoadBeginsStep
<1>3. CASE ReadItem BY <1>3, ReadItemStep
<1>4. CASE ReadFails BY <1>4, ReadFailsStep
<1>5. CASE DeleteOutdated BY <1>5, DeleteOutdatedStep
<1>6. ASSUME NEW l \in Lists, AddScores(l) PROVE ListInv'
  BY <1>6, AddScoresStep
<1>7. CASE UNCHANGED listVars
  <2>1. UNCHANGED <<item, docs, writer, load, loads, blurred, touched>>
    BY <1>7 DEF listVars
  <2>2. ListTypeOK' /\ LoadOK'
    BY <2>1 DEF ListInv, ListTypeOK, LoadOK, NoLoad
  <2>3. Stores' /\ Steady' /\ Underway' /\ Single'
    BY <2>1, ApartStep DEF Apart, Clear, Writes
  <2>4. LoadInv'
    BY <2>1 DEF ListInv, LoadInv, Watched, ReadAsIs, NewAgree, NoneLater, Swept, Loading, Writing
  <2>5. QED
    BY <2>2, <2>3, <2>4 DEF ListInv
<1>8. QED
  BY <1>1, <1>2, <1>3, <1>4, <1>5, <1>6, <1>7 DEF ListNext

(***************************************************************************)
(* A document that a list shows is of an item that is in the data store,   *)
(* visible and in its categories, unless requests for the item overlapped  *)
(* each other or a load or failed half-way since the last whole load.      *)
(***************************************************************************)
THEOREM ShownIsVisibleAlways ==
    ASSUME Proper
    PROVE  ListSpec => []ShownIsVisible
<1>1. ListInit => ListInv
  BY ListInvInit
<1>2. ListInv /\ [ListNext]_listVars => ListInv'
  BY ListStep
<1>3. ListInv => ShownIsVisible
  <2> SUFFICES ASSUME ListInv, NEW i \in ItemIds, ~blurred[i], ~Writing(i), load = NoLoad \/ ~touched[i]
               PROVE  Quiet(i)
    BY DEF ShownIsVisible, Quiet, Agrees
  <2>1. load = NoLoad => ~Writes
    <3>1. NoLoad.at = "idle"
      BY Zenon DEF NoLoad
    <3>2. QED
      BY <3>1 DEF Writes
  <2>2. QED
    BY <2>1 DEF ListInv, Steady, Clear
<1>4. QED
  BY <1>1, <1>2, <1>3, PTL DEF ListSpec
===============================================================================
