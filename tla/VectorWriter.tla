---------------------------- MODULE VectorWriter ----------------------------
(***************************************************************************)
(* The neighbours of items and users: each load of the data set computes a *)
(* vector per owner and writes them to a collection of the vector store    *)
(* (updateItemToItem and updateUserToUser of master/tasks.go, item_to_item *)
(* user_to_user and VectorWriter of logics).  Jobs add owners in parallel, *)
(* one at a time under the mutex of the writer, which fills a buffer and   *)
(* flushes it; the first flush decides the dimension and creates or        *)
(* recreates the collection; Clean flushes the rest and deletes what is    *)
(* older than the run.  Every call on the store may fail, which is logged, *)
(* and the master may crash between two calls.                             *)
(*                                                                         *)
(* A vector is [id, dim, kind, ts].  The kind stands for the distance and  *)
(* the quantisation: sparse vectors have one of their own and dimension 0, *)
(* dense ones follow the configuration.  An owner without a usable column  *)
(* has no vector.  The buffer holds the owners whose vectors wait, each    *)
(* with the number of those that waited before it.                         *)
(*                                                                         *)
(* The second half of the module is how a sparse vector is built           *)
(* (appendSparseVector and sparseVectorPruner).                            *)
(***************************************************************************)
EXTENDS Integers, FiniteSets

CONSTANTS Owners, Dims, Quantizations, BatchSize, MaxRuns, MaxFaults

\* There are finitely many owners, and a vector has a length.
ASSUME WriterAssumption == IsFiniteSet(Owners) /\ Dims \subseteq Nat \ {0}

VARIABLES of, collection, rows, run, kind, column, left, buffer, dimension, ensured, phase, cleaning, faults, complete

writerVars == <<of, collection, rows, run, kind, column, left, buffer, dimension, ensured, phase, cleaning, faults, complete>>

NoColumn == -1
NoDimension == -2
NoCollection == [exists |-> FALSE, dim |-> NoDimension, kind |-> "none"]
NoVectors == [o \in {} |-> 0]
Vector(o) == [id |-> o, dim |-> column[o], kind |-> kind, ts |-> run]
Kinds == Quantizations \cup {"sparse"}

WriterInit ==
  /\ of \in {"items", "users"}
  /\ collection = NoCollection /\ rows = {}
  /\ run = 0 /\ kind = "sparse" /\ column = [o \in Owners |-> NoColumn]
  /\ left = {} /\ buffer = NoVectors
  /\ dimension = NoDimension /\ ensured = FALSE
  /\ phase = "idle" /\ cleaning = FALSE /\ faults = 0 /\ complete = FALSE

(* What the labels or the feedback of an owner give: an embedding of some   *)
(* length, a sparse vector, or nothing usable.                              *)
ItemColumns(k) == IF k = "sparse" THEN {NoColumn, 0} ELSE Dims \cup {NoColumn}
UserColumns(k) == IF k = "sparse" THEN {NoColumn, 0} ELSE Dims \cup {NoColumn}

(* The dimension of a sparse collection is known. *)
newSimilarityVectorWriter(k) ==
  /\ kind' = k
  /\ dimension' = IF k = "sparse" THEN 0 ELSE NoDimension
  /\ ensured' = FALSE /\ buffer' = NoVectors

updateItemToItem ==
  /\ of = "items" /\ phase = "idle" /\ run < MaxRuns /\ run' = run + 1
  /\ \E k \in Kinds : newSimilarityVectorWriter(k) /\ column' \in [Owners -> ItemColumns(k)]
  /\ left' = Owners /\ phase' = "add" /\ cleaning' = FALSE /\ complete' = FALSE
  /\ UNCHANGED <<of, collection, rows, faults>>

updateUserToUser ==
  /\ of = "users" /\ phase = "idle" /\ run < MaxRuns /\ run' = run + 1
  /\ \E k \in Kinds : newSimilarityVectorWriter(k) /\ column' \in [Owners -> UserColumns(k)]
  /\ left' = Owners /\ phase' = "add" /\ cleaning' = FALSE /\ complete' = FALSE
  /\ UNCHANGED <<of, collection, rows, faults>>

(* Add: an owner without a vector is skipped; a full buffer is flushed.     *)
Add ==
  /\ phase = "add" /\ \E o \in left :
       /\ left' = left \ {o}
       /\ buffer' = IF column[o] = NoColumn THEN buffer
                    ELSE [p \in DOMAIN buffer \cup {o} |-> IF p = o THEN Cardinality(DOMAIN buffer) ELSE buffer[p]]
       /\ phase' = IF column[o] # NoColumn /\ Cardinality(DOMAIN buffer') >= BatchSize THEN "flush" ELSE "add"
  /\ UNCHANGED <<of, collection, rows, run, kind, column, dimension, ensured, cleaning, faults,
                 complete>>

(* Clean flushes what is left. *)
CleanBegins ==
  /\ phase = "add" /\ left = {} /\ cleaning' = TRUE
  /\ phase' = IF DOMAIN buffer = {} THEN "delete" ELSE "flush"
  /\ UNCHANGED <<of, collection, rows, run, kind, column, left, buffer, dimension, ensured,
                 faults, complete>>

(* The dimension most vectors of the buffer have, the earliest of equals.   *)
Count(d) == Cardinality({o \in DOMAIN buffer : column[o] = d})
Majority ==
  LET most == {o \in DOMAIN buffer : \A p \in DOMAIN buffer : Count(column[o]) >= Count(column[p])}
  IN column[CHOOSE o \in most : \A p \in most : buffer[o] <= buffer[p]]

(* flushLocked: the first flush decides the dimension; vectors of another   *)
(* are dropped.                                                             *)
flushLocked ==
  /\ phase = "flush"
  /\ dimension' = IF kind = "sparse" \/ dimension # NoDimension THEN dimension ELSE Majority
  /\ buffer' = IF kind = "sparse" THEN buffer
                ELSE [o \in {p \in DOMAIN buffer : column[p] = dimension'} |-> buffer[o]]
  /\ phase' = IF ensured THEN "store" ELSE "describe"
  /\ UNCHANGED <<of, collection, rows, run, kind, column, left, ensured, cleaning, faults,
                 complete>>

Suits == collection.dim = dimension /\ collection.kind = kind

(* ensureCollectionLocked: describe, delete if it does not suit, create.    *)
DescribeCollection ==
  /\ phase = "describe"
  /\ phase' = IF ~collection.exists THEN "create" ELSE IF Suits THEN "store" ELSE "drop"
  /\ ensured' = (collection.exists /\ Suits)
  /\ UNCHANGED <<of, collection, rows, run, kind, column, left, buffer, dimension, cleaning,
                 faults, complete>>

DeleteCollection ==
  /\ phase = "drop" /\ collection' = NoCollection /\ rows' = {} /\ phase' = "create"
  /\ UNCHANGED <<of, run, kind, column, left, buffer, dimension, ensured, cleaning, faults,
                 complete>>

AddCollection ==
  /\ phase = "create" /\ collection' = [exists |-> TRUE, dim |-> dimension, kind |-> kind]
  /\ ensured' = TRUE /\ phase' = "store"
  /\ UNCHANGED <<of, rows, run, kind, column, left, buffer, dimension, cleaning, faults,
                 complete>>

Resume == IF cleaning THEN "delete" ELSE "add"

(* AddVectors replaces the vectors with the same ids. *)
AddVectors ==
  /\ phase = "store"
  /\ rows' = {r \in rows : r.id \notin DOMAIN buffer} \cup {Vector(o) : o \in DOMAIN buffer}
  /\ buffer' = NoVectors /\ phase' = Resume
  /\ UNCHANGED <<of, collection, run, kind, column, left, dimension, ensured, cleaning, faults,
                 complete>>

\* Mutant of Kept: a batch that could not be written is dropped.
KeptNothing == NoVectors
(* What the buffer holds after a failed flush: it is tried again with the   *)
(* next owner, or by Clean.                                                 *)
Kept == buffer

(* A call on the store fails: an Add is logged and the next owner goes on,  *)
(* Clean ends the run.                                                      *)
CallFails ==
  /\ phase \in {"describe", "drop", "create", "store", "delete"} /\ faults < MaxFaults /\ faults' = faults + 1
  /\ buffer' = Kept
  /\ phase' = IF cleaning THEN "idle" ELSE "add"
  /\ UNCHANGED <<of, collection, rows, run, kind, column, left, dimension, ensured, cleaning,
                 complete>>

OldVector(r) == r.ts < run

(* DeleteVectors and Optimize; a collection that does not exist is fine.    *)
DeleteVectors ==
  /\ phase = "delete"
  /\ rows' = {r \in rows : ~OldVector(r)}
  /\ phase' = "idle" /\ complete' = TRUE
  /\ UNCHANGED <<of, collection, run, kind, column, left, buffer, dimension, ensured, cleaning,
                 faults>>

(* The context is cancelled or the master crashes: the writer is gone.      *)
WriterGone ==
  /\ phase # "idle" /\ faults < MaxFaults /\ faults' = faults + 1
  /\ phase' = "idle" /\ buffer' = NoVectors
  /\ UNCHANGED <<of, collection, rows, run, kind, column, left, dimension, ensured, cleaning,
                 complete>>

WriterNext ==
  \/ updateItemToItem \/ updateUserToUser \/ Add \/ CleanBegins \/ flushLocked
  \/ DescribeCollection \/ DeleteCollection \/ AddCollection \/ AddVectors
  \/ CallFails \/ DeleteVectors \/ WriterGone

WriterSpec == WriterInit /\ [][WriterNext]_writerVars

-----------------------------------------------------------------------------
(* Every vector of the collection has the dimension and the kind of the     *)
(* collection, whatever configurations and failures preceded: the search    *)
(* compares like with like.                                                 *)
CollectionIsUniform ==
  /\ rows # {} => collection.exists
  /\ \A r \in rows : r.dim = collection.dim /\ r.kind = collection.kind

(* A run that Clean completed left exactly its own vectors: none of an      *)
(* earlier run, and all of its owners whose vector has the dimension        *)
(* chosen, those of a batch that failed once and was written later too.     *)
CompleteRunIsExact ==
  complete => rows = {Vector(o) : o \in {p \in Owners : column[p] = dimension}}

-----------------------------------------------------------------------------
(* A sparse vector.  Ids come one after the other, possibly repeated; those *)
(* without a positive weight are skipped, and a heap keeps the MaxNNZ       *)
(* entries with the largest weights, the smaller index winning a tie.  An   *)
(* automatic vector appends the ids of the feedback, shifted by an offset,  *)
(* to those of the tags.                                                    *)
CONSTANTS Tags, Users, Weights, MaxNNZ, MaxIds

\* Indices are numbers, and weights the ranks of numbers not below zero.
ASSUME SparseAssumption ==
  Tags \subseteq Nat /\ Users \subseteq Nat /\ IsFiniteSet(Tags) /\ Weights \subseteq Nat /\ MaxNNZ \in Nat \ {0}

VARIABLES weight, side, given, seen, entries

sparseVars == <<weight, side, given, seen, entries>>

Offset == Cardinality(Tags)
Indices == Tags \cup {Offset + u : u \in Users}

SparseInit ==
  /\ weight \in [Indices -> Weights]
  /\ side = "tags" /\ given = 0
  /\ seen = {} /\ entries = {}

Less(i, j) == weight[i] < weight[j] \/ (weight[i] = weight[j] /\ i > j)
Root == CHOOSE i \in entries : \A j \in entries : i = j \/ Less(i, j)

Replaces(i) == weight[i] > weight[Root] \/ (weight[i] = weight[Root] /\ i < Root)

(* The pruner takes the entry if there is room or if it beats the root.     *)
Prune(i) ==
  entries' = IF Cardinality(entries) < MaxNNZ THEN entries \cup {i}
             ELSE IF Replaces(i) THEN (entries \ {Root}) \cup {i} ELSE entries

(* An id is appended: of a tag first, then of a user; the second pass       *)
(* begins with the entries the first one has kept.                          *)
appendSparseVector(i) ==
  /\ given < MaxIds /\ given' = given + 1
  /\ i \in Tags <=> side = "tags"
  /\ IF weight[i] = 0 \/ i \in seen THEN UNCHANGED <<seen, entries>>
     ELSE seen' = seen \cup {i} /\ Prune(i)
  /\ UNCHANGED <<weight, side>>

NextSide ==
  /\ side = "tags" /\ side' = "users"
  /\ seen' = entries
  /\ UNCHANGED <<weight, given, entries>>

SparseNext == NextSide \/ \E i \in Indices : appendSparseVector(i)
SparseSpec == SparseInit /\ [][SparseNext]_sparseVars

-----------------------------------------------------------------------------
(* Whatever the order the ids come in, the vector holds the MaxNNZ best of  *)
(* them: two owners with the same ids have the same vector.                 *)
PrunedIsBest == entries = {i \in seen : Cardinality({j \in seen : Less(i, j)}) < MaxNNZ}

-----------------------------------------------------------------------------
(* The neighbours and the sparse vectors they are made of, side by side. *)
NeighboursInit == WriterInit /\ SparseInit
NeighboursNext ==
  \/ WriterNext /\ UNCHANGED sparseVars
  \/ SparseNext /\ UNCHANGED writerVars
NeighboursSpec == NeighboursInit /\ [][NeighboursNext]_<<writerVars, sparseVars>>

(* What neighbours are searched in: all vectors of a collection have its    *)
(* dimension and kind, a completed run of VectorWriter left exactly its own *)
(* vectors, and a pruned sparse vector holds the best ids in whatever order *)
(* they came.                                                               *)
NeighboursAreWritten == CollectionIsUniform /\ CompleteRunIsExact /\ PrunedIsBest
=============================================================================
