----------------------------- MODULE FactorCodec -----------------------------
(***************************************************************************)
(* The ways a matrix factorization model leaves the trainer: as a whole    *)
(* (MarshalModel and UnmarshalModel of model/cf/model.go), and split into  *)
(* the user embeddings of the blob (logics/cf.go) and the item vectors of  *)
(* the vector store (master/tasks.go), from which a worker predicts.       *)
(*                                                                         *)
(* A byte stream is the sequence of the values written; reading a value of *)
(* another kind than the next one is an error.  The factors of a user or   *)
(* item are told apart by the owner, which is what they are called here.   *)
(***************************************************************************)
EXTENDS Integers, Sequences, SequencesExt, FiniteSetsExt

CONSTANTS UserNames, ItemNames, PageSize

VARIABLES dict,        \* [user |-> .., item |-> ..]: FreqDicts, sequences of names
          fedback,     \* the users and items with feedback in the training set
          bytes,       \* the whole model written, <<>> before
          unread,      \* position of Unmarshal in bytes
          loadedModel, \* [user, item |-> its FreqDict and factors], by sides read
          blob,        \* the user embeddings written
          workerUsers, \* the embeddings a worker unmarshalled, by user
          itemVectors, \* the collection of the item vectors
          page         \* items of the dictionary already indexed

codecVars == <<dict, fedback, bytes, unread, loadedModel, blob, workerUsers, itemVectors, page>>

Nothing == [none |-> TRUE]
Sides == <<"user", "item">>
NamesOf(s) == IF s = "user" THEN UserNames ELSE ItemNames

CodecInit ==
  /\ dict \in {[user |-> u, item |-> i] : u \in SetToSeqs(UserNames), i \in SetToSeqs(ItemNames)}
  /\ fedback \in [user : SUBSET UserNames, item : SUBSET ItemNames]
  /\ bytes = <<>> /\ unread = 1 /\ loadedModel = <<>>
  /\ blob = <<>> /\ workerUsers = Nothing
  /\ itemVectors = {} /\ page = 0

(* UserPredictable and ItemPredictable, set by Init. *)
Predictable(s, name) == name \in fedback[s]

\* Mutant of Written: every factor is written.
WrittenAll(s) == dict[s]

(* The names of a side in the order their factors are written. *)
Written(s) == LET P(name) == Predictable(s, name) IN SelectSeq(dict[s], P)

MarshalSide(s) ==
  <<Cardinality(fedback[s])>> \o [k \in DOMAIN Written(s) |-> <<Written(s)[k], Written(s)[k]>>]

Marshal ==
  /\ bytes = <<>>
  /\ bytes' = MarshalSide("user") \o MarshalSide("item")
  /\ UNCHANGED <<dict, fedback, unread, loadedModel, blob, workerUsers, itemVectors, page>>

IsCount(k) == k <= Len(bytes) /\ bytes[k] \in Nat
IsFactor(k) == k <= Len(bytes) /\ bytes[k] \in (UserNames \cup ItemNames) \X (UserNames \cup ItemNames)

(* A side: the count, then as many factors, indexed in the order they come. *)
Unmarshal ==
  /\ bytes # <<>> /\ Len(loadedModel) < 2 /\ unread > 0
  /\ LET n == bytes[unread]
         rest == [k \in 1 .. n |-> bytes[unread + k]]
     IN IF IsCount(unread) /\ \A k \in 1 .. n : IsFactor(unread + k)
        THEN /\ loadedModel' = Append(loadedModel, rest)
             /\ unread' = unread + n + 1
        ELSE /\ unread' = 0   \* an error
             /\ UNCHANGED loadedModel
  /\ UNCHANGED <<dict, fedback, bytes, blob, workerUsers, itemVectors, page>>

(* The blob of the user embeddings: the count, then pairs in any order. *)
UploadUsers ==
  /\ blob = <<>>
  /\ blob' = <<Cardinality(fedback["user"])>> \o
             [k \in DOMAIN Written("user") |-> <<Written("user")[k], Written("user")[k]>>]
  /\ UNCHANGED <<dict, fedback, bytes, unread, loadedModel, workerUsers, itemVectors, page>>

DownloadUsers ==
  /\ blob # <<>> /\ workerUsers = Nothing
  /\ LET pairs == {blob[k + 1] : k \in 1 .. blob[1]}
     IN workerUsers' = [u \in {p[1] : p \in pairs} |-> (CHOOSE p \in pairs : p[1] = u)[2]]
  /\ UNCHANGED <<dict, fedback, bytes, unread, loadedModel, blob, itemVectors, page>>

PageEnd == Min({page + PageSize, Len(dict["item"])})

PageItems == page + 1 .. PageEnd

(* A page of items goes to the vector store. *)
IndexItems ==
  /\ page < Len(dict["item"])
  /\ page' = PageEnd
  /\ itemVectors' = itemVectors \cup
       {dict["item"][k] : k \in {j \in PageItems : Predictable("item", dict["item"][j])}}
  /\ UNCHANGED <<dict, fedback, bytes, unread, loadedModel, blob, workerUsers>>

CodecNext == Marshal \/ Unmarshal \/ UploadUsers \/ DownloadUsers \/ IndexItems
CodecSpec == CodecInit /\ [][CodecNext]_codecVars

-----------------------------------------------------------------------------
(* A model read back knows exactly the users and items that were trained,   *)
(* and gives each of them the factors it had; reading never fails.          *)
LoadedIsTrained ==
  /\ unread > 0
  /\ \A k \in DOMAIN loadedModel :
       LET rows == loadedModel[k]
       IN /\ {rows[j][1] : j \in DOMAIN rows} = fedback[Sides[k]]
          /\ Len(rows) = Cardinality(fedback[Sides[k]])
          /\ \A j \in DOMAIN rows : rows[j][1] = rows[j][2]

(* What is published for the workers is complete: embeddings of the trained *)
(* users, each with its own factors, and vectors of the trained items.      *)
PublishedIsTrained ==
  /\ workerUsers # Nothing =>
       /\ DOMAIN workerUsers = fedback["user"]
       /\ \A u \in DOMAIN workerUsers : workerUsers[u] = u
  /\ page = Len(dict["item"]) => itemVectors = fedback["item"]
=============================================================================
