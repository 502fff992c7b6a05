---------------------------- MODULE DeliveryProofs ----------------------------
(***************************************************************************)
(* Proofs about what is handed on whole.  The id of a model: a worker      *)
(* beside the master of ModelRegistry, for every number of models and of   *)
(* failures, however Sync, Pull, Serve and the master interleave.  Its     *)
(* bytes: the blob stores, for blobs of any number of pieces and any       *)
(* number of versions, readers and failures, and for each kind of store.   *)
(* The records of a dump or an export: Backup, for any data and any size   *)
(* of a batch, wherever a stream or a reader fails.                        *)
(***************************************************************************)
EXTENDS WorkerSync, BlobStores, Backup, FiniteSetTheorems, SequenceTheorems, TLAPS

-----------------------------------------------------------------------------
(* The id: WorkerSync.                                                     *)

\* The types of the registry's variables, which ModelRegistry leaves unsaid.
RegistryTypeOK ==
    /\ last \in IdsOrNone
    /\ blobs \subseteq Ids /\ colls \subseteq Ids
    /\ cf \in IdsOrNone /\ ctr \in IdsOrNone
    /\ cfDurable \in IdsOrNone /\ ctrDurable \in IdsOrNone
    /\ up \in BOOLEAN

Types == RegistryTypeOK /\ SyncTypeOK

(***************************************************************************)
(* An id travels from the store of the master through its memory, a reply  *)
(* of GetMeta and latestCF to the worker, and at each station it is at     *)
(* most as new as at the one before.  While the master is down its memory  *)
(* is no station: a reply may be newer than it, but never newer than what  *)
(* the restart will read back.                                             *)
(***************************************************************************)
Stations ==
    /\ cf <= cfDurable /\ cfDurable <= last
    /\ reply.cf <= cfDurable
    /\ up => reply.cf <= cf
    /\ latestCF <= reply.cf
    /\ wCF <= latestCF

StationsInv == Types /\ Stations

\* A step of the master takes an id of the registry to an id.
LEMMA RegistryTypeStep == RegistryTypeOK /\ [Next]_registryVars => RegistryTypeOK'
<1> SUFFICES ASSUME RegistryTypeOK, [Next]_registryVars PROVE RegistryTypeOK'
  OBVIOUS
<1> USE MaxIdAssumption DEF RegistryTypeOK, Ids, IdsOrNone
<1>1. CASE NewId BY <1>1 DEF NewId
<1>2. CASE AddCollection BY <1>2 DEF AddCollection
<1>3. CASE AddBlob BY <1>3 DEF AddBlob
<1>4. CASE RecordCF BY <1>4 DEF RecordCF
<1>5. CASE AdvertiseCF BY <1>5 DEF AdvertiseCF
<1>6. CASE AdvertiseCTR BY <1>6 DEF AdvertiseCTR
<1>7. CASE RecordCTR BY <1>7 DEF RecordCTR
<1>8. ASSUME NEW i \in Ids, RemoveBlob(i) PROVE RegistryTypeOK'
  BY <1>8 DEF RemoveBlob
<1>9. ASSUME NEW i \in Ids, RemoveCollection(i) PROVE RegistryTypeOK'
  BY <1>9 DEF RemoveCollection
<1>10. CASE GoDown
  <2>1. up' \in BOOLEAN
    BY <1>10, Zenon DEF GoDown
  <2>2. cf' \in IdsOrNone /\ ctr' \in IdsOrNone
    BY <1>10 DEF GoDown
  <2>3. QED
    BY <1>10, <2>1, <2>2 DEF GoDown
<1>11. CASE ComeUp BY <1>11 DEF ComeUp
<1>12. CASE UNCHANGED registryVars BY <1>12 DEF registryVars
<1>13. QED
  BY <1>1, <1>2, <1>3, <1>4, <1>5, <1>6, <1>7, <1>8, <1>9, <1>10, <1>11, <1>12
  DEF Next

\* A step of the worker takes its variables from values of their types to
\* values of their types.
LEMMA WorkerTypeStep ==
    Types /\ RegistryTypeOK' /\ [SyncNext]_allVars => SyncTypeOK'
<1> SUFFICES ASSUME Types, RegistryTypeOK', [SyncNext]_allVars PROVE SyncTypeOK'
  OBVIOUS
<1> USE MaxIdAssumption, MaxFailuresAssumption
    DEF Types, SyncTypeOK, RegistryTypeOK, IdsOrNone, Ids, Reply, NoReply, Failure,
        syncVars, pullVars, installed, loopVars, ReadBlob, BeginLoop
<1>1. CASE GetMeta /\ UNCHANGED <<registryVars, failures>> BY <1>1 DEF GetMeta
<1>2. CASE SyncCF /\ UNCHANGED <<registryVars, failures>> BY <1>2 DEF SyncCF
<1>3. CASE SyncCTR /\ UNCHANGED <<registryVars, failures>> BY <1>3 DEF SyncCTR
<1>4. CASE SyncPeers /\ UNCHANGED <<registryVars, failures>> BY <1>4 DEF SyncPeers
<1>5. CASE PullStart /\ UNCHANGED failures BY <1>5 DEF PullStart
<1>6. CASE PullCF BY <1>6 DEF PullCF
<1>7. CASE InstallPulledCF /\ UNCHANGED failures BY <1>7 DEF InstallPulledCF
<1>8. CASE PullCTR BY <1>8 DEF PullCTR
<1>9. CASE InstallPulledCTR /\ UNCHANGED failures BY <1>9 DEF InstallPulledCTR
<1>10. CASE PullEnd /\ UNCHANGED failures BY <1>10 DEF PullEnd
<1>11. CASE LoopOnPull
  <2>1. looping' \in BOOLEAN /\ pulledChan' \in BOOLEAN
    BY <1>11, Zenon DEF LoopOnPull
  <2>2. failures' \in 0 .. MaxFailures /\ used' \in IdsOrNone
    BY <1>11 DEF LoopOnPull
  <2>3. QED
    BY <1>11, <2>1, <2>2 DEF LoopOnPull
<1>12. CASE LoopOnTick
  <2>1. looping' \in BOOLEAN
    BY <1>12, Zenon DEF LoopOnTick
  <2>2. failures' \in 0 .. MaxFailures /\ used' \in IdsOrNone
    BY <1>12 DEF LoopOnTick
  <2>3. QED
    BY <1>12, <2>1, <2>2 DEF LoopOnTick
<1>13. CASE EndStep BY <1>13 DEF EndStep, LoopEnd
<1>14. CASE WorkerCrash
  <2>1. /\ peers' \in BOOLEAN /\ synced' \in BOOLEAN /\ pulled' \in BOOLEAN
        /\ pulledChan' \in BOOLEAN /\ looping' \in BOOLEAN
    BY <1>14, Zenon DEF WorkerCrash
  <2>2. failures' \in 0 .. MaxFailures /\ 0 \in IdsOrNone
    BY <1>14 DEF WorkerCrash
  <2>3. QED
    BY <1>14, <2>1, <2>2 DEF WorkerCrash
<1>15. CASE MasterNext BY <1>15 DEF MasterNext, workerVars
<1>16. CASE UNCHANGED allVars BY <1>16 DEF allVars, workerVars
<1>17. QED
  BY <1>1, <1>2, <1>3, <1>4, <1>5, <1>6, <1>7, <1>8, <1>9, <1>10, <1>11, <1>12,
     <1>13, <1>14, <1>15, <1>16
  DEF SyncNext, WorkerNext, SyncStep, PullStep, TickStep

\* Every step is a step of the master, or leaves its variables alone.
LEMMA MasterOrWorker == [SyncNext]_allVars => [Next]_registryVars
BY DEF SyncNext, WorkerNext, SyncStep, PullStep, TickStep, EndStep, MasterNext, allVars

\* The types of both sides together.
LEMMA TypesStep == Types /\ [SyncNext]_allVars => Types'
BY RegistryTypeStep, WorkerTypeStep, MasterOrWorker DEF Types

\* Everything starts at 0.
LEMMA SyncStart == SyncInit => StationsInv
<1> SUFFICES ASSUME SyncInit PROVE StationsInv
  OBVIOUS
<1>1. RegistryTypeOK
  BY MaxIdAssumption DEF SyncInit, Init, RegistryTypeOK, Ids, IdsOrNone
<1>2. SyncTypeOK
  <2>1. /\ peers \in BOOLEAN /\ synced \in BOOLEAN /\ pulled \in BOOLEAN
        /\ pulledChan \in BOOLEAN /\ looping \in BOOLEAN
    BY Zenon DEF SyncInit, WorkerInit
  <2>2. failures \in 0 .. MaxFailures /\ 0 \in IdsOrNone
    BY MaxIdAssumption, MaxFailuresAssumption DEF SyncInit, IdsOrNone
  <2>3. QED
    BY <2>1, <2>2 DEF SyncInit, WorkerInit, SyncTypeOK, Reply, NoReply
<1>3. Stations
  BY DEF SyncInit, Init, WorkerInit, Stations, NoReply
<1>4. QED
  BY <1>1, <1>2, <1>3 DEF StationsInv, Types

(***************************************************************************)
(* The worker's variables keep their types, and so do the registry's.      *)
(***************************************************************************)
THEOREM SyncTypeCorrect == SyncSpec => []SyncTypeOK
<1>1. SyncInit => Types
  BY SyncStart DEF StationsInv
<1>2. Types => SyncTypeOK
  BY DEF Types
<1>3. QED
  BY <1>1, <1>2, TypesStep, PTL DEF SyncSpec

\* No step moves an id past the station before it.
LEMMA StationsStep == StationsInv /\ [SyncNext]_allVars => Stations'
<1> SUFFICES ASSUME StationsInv, [SyncNext]_allVars PROVE Stations'
  OBVIOUS
<1>1. /\ last \in Int /\ cf \in Int /\ cfDurable \in Int /\ latestCF \in Int
      /\ wCF \in Int /\ reply \in Reply /\ reply.cf \in Int
      /\ cf >= 0 /\ cfDurable >= 0 /\ reply.cf >= 0
  BY MaxIdAssumption DEF StationsInv, Types, RegistryTypeOK, SyncTypeOK, IdsOrNone, Reply
<1> USE <1>1 DEF StationsInv, Stations, syncVars, pullVars, installed, loopVars
<1>2. ASSUME UNCHANGED <<registryVars, reply, latestCF, wCF>> PROVE Stations'
  BY <1>2 DEF registryVars
<1>3. CASE SyncStep
  <2>1. CASE GetMeta
    BY <1>3, <2>1 DEF SyncStep, GetMeta, registryVars
  <2>2. CASE SyncCF
    BY <1>3, <2>2 DEF SyncStep, SyncCF, registryVars
  <2>3. CASE SyncCTR \/ SyncPeers
    BY <1>2, <1>3, <2>3 DEF SyncStep, SyncCTR, SyncPeers
  <2>4. QED
    BY <1>3, <2>1, <2>2, <2>3 DEF SyncStep
<1>4. CASE PullStep
  <2>1. CASE InstallPulledCF
    BY <1>4, <2>1 DEF PullStep, InstallPulledCF, registryVars
  <2>2. CASE PullStart \/ PullCF \/ PullCTR \/ InstallPulledCTR \/ PullEnd
    BY <1>2, <1>4, <2>2
    DEF PullStep, PullStart, PullCF, PullCTR, InstallPulledCTR, PullEnd
  <2>3. QED
    BY <1>4, <2>1, <2>2 DEF PullStep
<1>5. CASE TickStep \/ (LoopOnPull /\ UNCHANGED registryVars) \/ EndStep
  BY <1>2, <1>5 DEF TickStep, EndStep, LoopOnPull, LoopOnTick, LoopEnd
<1>6. CASE WorkerCrash /\ UNCHANGED registryVars
  BY <1>6 DEF WorkerCrash, NoReply, registryVars
<1>7. CASE MasterNext
  <2>1. UNCHANGED <<reply, latestCF, wCF>> /\ Next
    BY <1>7 DEF MasterNext, workerVars
  <2>2. CASE NewId BY <2>1, <2>2 DEF NewId
  <2>3. CASE RecordCF BY <2>1, <2>3 DEF RecordCF
  <2>4. CASE AdvertiseCF BY <2>1, <2>4 DEF AdvertiseCF
  <2>5. CASE GoDown BY <2>1, <2>5 DEF GoDown
  <2>6. CASE ComeUp BY <2>1, <2>6 DEF ComeUp
  <2>7. ASSUME UNCHANGED <<last, cf, cfDurable, up>> PROVE Stations'
    BY <2>1, <2>7
  <2>8. QED
    BY <2>1, <2>2, <2>3, <2>4, <2>5, <2>6, <2>7
    DEF Next, AddCollection, AddBlob, AdvertiseCTR, RecordCTR, RemoveBlob,
        RemoveCollection
<1>8. CASE UNCHANGED allVars
  BY <1>2, <1>8 DEF allVars, workerVars
<1>9. QED
  BY <1>3, <1>4, <1>5, <1>6, <1>7, <1>8 DEF SyncNext, WorkerNext

(***************************************************************************)
(* Only InstallPulledCF writes wCF outside of a crash, and what it writes  *)
(* is latestCF, at which the id already was or is still to come.           *)
(***************************************************************************)
LEMMA ForwardStep ==
    StationsInv /\ [SyncNext]_allVars => [wCF' < wCF => WorkerCrash]_allVars
<1> SUFFICES ASSUME StationsInv, [SyncNext]_allVars, wCF' < wCF PROVE WorkerCrash
  OBVIOUS
<1>1. latestCF \in Int /\ wCF \in Int /\ wCF <= latestCF
  BY MaxIdAssumption DEF StationsInv, Stations, Types, SyncTypeOK, IdsOrNone
<1>2. wCF' # wCF /\ wCF' # latestCF
  BY <1>1
<1>3. QED
  BY <1>2
  DEF SyncNext, WorkerNext, SyncStep, GetMeta, SyncCF, SyncCTR, SyncPeers, PullStep,
      PullStart, PullCF, InstallPulledCF, PullCTR, InstallPulledCTR, PullEnd,
      TickStep, EndStep, LoopOnPull, LoopOnTick, LoopEnd, MasterNext, workerVars,
      allVars, installed

(***************************************************************************)
(* The worker never replaces its collaborative filtering model by an older *)
(* one: Pull may install under an id that Sync wrote after it read the     *)
(* blob, and a reply may be from before a restart of the master, but no    *)
(* station ever falls behind the next.                                     *)
(***************************************************************************)
THEOREM NeverBackwardsAlways == SyncSpec => NeverBackwards
<1>1. StationsInv /\ [SyncNext]_allVars => StationsInv'
  BY TypesStep, StationsStep DEF StationsInv
<1>2. QED
  BY <1>1, SyncStart, ForwardStep, PTL DEF SyncSpec, NeverBackwards

-----------------------------------------------------------------------------
(* The bytes: BlobStores.                                                  *)

\* A blob has a number of pieces.
Pieces == NPieces \in Nat

BlobTypeOK ==
    /\ backend \in {"posix", "s3", "gcs", "azure", "upload"}
    /\ version \in Nat
    /\ blobWriter \in {"idle", "writing", "closed"}
    /\ handed \in 0 .. NPieces
    /\ copier \in {"none", "reading", "holding", "direct", "ended"}
    /\ spool \in Seq(Nat) /\ stored \in Seq(Nat)
    /\ reader \in [at : {"none", "open", "read"}, live : BOOLEAN,
                   file : Seq(Nat), got : Seq(Nat)]

(***************************************************************************)
(* Between Create and the end of the pipe.  What a store other than the    *)
(* directory has spooled are the pieces of this version that the writer    *)
(* has sent, but for the one in the hands of the copier; a server that has *)
(* refused a piece will not use them.                                      *)
(***************************************************************************)
Pipe ==
    /\ blobWriter = "idle" => copier \in {"none", "ended"}
    /\ done => copier \in {"none", "ended"}
    /\ blobWriter = "closed" => handed = NPieces
    /\ copier = "holding" => handed > 0
    /\ refused => backend = "upload"
    /\ copier = "direct" => backend = "gcs"

Arrived == IF copier = "holding" THEN handed - 1 ELSE handed

Spooled ==
    backend # "posix" /\ copier \in {"reading", "holding", "direct"} /\ ~refused =>
        Len(spool) = Arrived /\ \A i \in 1 .. Len(spool) : spool[i] = version

\* Only the directory shows a blob that is not whole.
Published == backend # "posix" => stored = <<>> \/ Whole(stored)

(***************************************************************************)
(* A reader that was not torn has a prefix of something whole: of the file *)
(* of the directory, which nobody is writing then, or of the object it was *)
(* given.                                                                  *)
(***************************************************************************)
Src == IF reader.live THEN stored ELSE reader.file

Reading ==
    /\ reader.live => backend = "posix"
    /\ reader.at # "none" /\ ~torn =>
          /\ Whole(Src)
          /\ Len(reader.got) <= Len(Src)
          /\ \A i \in 1 .. Len(reader.got) : reader.got[i] = Src[i]
          /\ reader.at = "read" => Len(reader.got) = Len(Src)
          /\ reader.live => blobWriter = "idle"

BlobInv == BlobTypeOK /\ Pipe /\ Spooled /\ Published /\ Reading

-----------------------------------------------------------------------------

\* One piece more.
LEMMA OnePieceMore ==
    ASSUME NEW s \in Seq(Nat), NEW x \in Nat
    PROVE  /\ Append(s, x) \in Seq(Nat)
           /\ Len(s) \in Nat /\ Len(Append(s, x)) = Len(s) + 1
           /\ Append(s, x)[Len(s) + 1] = x
           /\ \A i \in 1 .. Len(s) : Append(s, x)[i] = s[i]
           /\ \A i \in 1 .. Len(s) + 1 : i \in 1 .. Len(s) \/ i = Len(s) + 1
OBVIOUS

\* The blob of version 0 is whole, and nobody reads or writes.
LEMMA BlobStart == ASSUME Pieces PROVE BlobInit => BlobInv
<1> SUFFICES ASSUME BlobInit PROVE BlobInv
  OBVIOUS
<1>1. stored \in Seq(Nat) /\ Len(stored) = NPieces /\ \A i \in 1 .. NPieces : stored[i] = 0
  BY DEF Pieces, BlobInit
<1>2. BlobTypeOK
  BY <1>1 DEF Pieces, BlobInit, BlobTypeOK
<1>3. Pipe /\ Spooled
  BY DEF Pieces, BlobInit, Pipe, Spooled
<1>4. Published /\ Reading
  BY <1>1 DEF BlobInit, Published, Reading, Whole
<1>5. QED
  BY <1>2, <1>3, <1>4 DEF BlobInv

\* The writer and the goroutine of the store.
LEMMA WriterStep ==
    ASSUME Pieces, BlobInv,
           \/ PosixCreate \/ S3Create \/ AzureCreate \/ GCSCreate \/ ClientCreate
           \/ Write \/ MarshalFails \/ Close \/ Await \/ StoreSteps \/ Tick
    PROVE  (BlobTypeOK /\ Pipe /\ Spooled /\ Published)'
<1> USE DEF Pieces, BlobInv, BlobTypeOK, Pipe, Spooled, Arrived, Published
<1>1. CASE PosixCreate BY <1>1 DEF PosixCreate, Create
<1>2. CASE S3Create BY <1>2 DEF S3Create, Create
<1>3. CASE AzureCreate BY <1>3 DEF AzureCreate, Create
<1>4. CASE GCSCreate BY <1>4 DEF GCSCreate, Create
<1>5. CASE ClientCreate BY <1>5 DEF ClientCreate, Create
<1>6. CASE Write
  <2>1. CASE copier = "reading"
    BY <1>6, <2>1 DEF Write
  <2>2. CASE copier = "direct"
    <3>1. /\ handed' = handed + 1 /\ handed' \in 0 .. NPieces /\ spool' = Append(spool, version)
          /\ UNCHANGED <<backend, version, blobWriter, copier, stored, done, refused, reader>>
          /\ blobWriter = "writing" /\ backend = "gcs" /\ ~refused
      BY <1>6, <2>2 DEF Write
    <3>2. /\ spool' \in Seq(Nat) /\ Len(spool') = Len(spool) + 1 /\ Len(spool) = handed
          /\ \A i \in 1 .. Len(spool') : spool'[i] = version
      <4>1. Len(spool) = handed /\ \A i \in 1 .. Len(spool) : spool[i] = version
        BY <2>2, <3>1
      <4>2. spool \in Seq(Nat) /\ version \in Nat
        OBVIOUS
      <4> HIDE DEF BlobInv, BlobTypeOK, Pipe, Spooled, Arrived, Published
      <4>3. QED
        BY <3>1, <4>1, <4>2, OnePieceMore
    <3>3. QED
      BY <2>2, <3>1, <3>2
  <2>3. QED
    BY <1>6, <2>1, <2>2 DEF Write
<1>7. CASE MarshalFails BY <1>7 DEF MarshalFails
<1>8. CASE Close BY <1>8 DEF Close
<1>9. CASE Await BY <1>9 DEF Await
<1>10. CASE PosixCopy BY <1>10 DEF PosixCopy, Carry
<1>11. CASE PutObject BY <1>11 DEF PutObject, Carry
<1>12. CASE Send
  <2>1. CASE spool' = Append(spool, version) /\ refused' = refused
    BY <1>12, <2>1 DEF Send, Carry
  <2>2. CASE refused' /\ UNCHANGED spool
    BY <1>12, <2>2 DEF Send, Carry
  <2>3. QED
    BY <1>12, <2>1, <2>2 DEF Send
<1>13. CASE CopyFails BY <1>13 DEF CopyFails
<1>14. CASE PosixEnd BY <1>14 DEF PosixEnd, EndPipe
<1>15. CASE S3End
  <2>1. Whole(spool)
    BY <1>15 DEF S3End, EndPipe, Whole
  <2>2. QED
    BY <1>15, <2>1 DEF S3End, EndPipe
<1>16. CASE UploadEnd
  <2>1. ~refused => Whole(spool)
    BY <1>16 DEF UploadEnd, EndPipe, Whole
  <2>2. QED
    BY <1>16, <2>1 DEF UploadEnd, EndPipe
<1>17. ASSUME NEW fails \in BOOLEAN, GCSClose(fails)
       PROVE  (BlobTypeOK /\ Pipe /\ Spooled /\ Published)'
  <2>1. Whole(spool)
    BY <1>17 DEF GCSClose, Whole
  <2>2. QED
    BY <1>17, <2>1 DEF GCSClose
<1>18. CASE Tick BY <1>18 DEF Tick
<1>19. QED
  BY <1>1, <1>2, <1>3, <1>4, <1>5, <1>6, <1>7, <1>8, <1>9, <1>10, <1>11, <1>12, <1>13,
     <1>14, <1>15, <1>16, <1>17, <1>18
  DEF StoreSteps

\* The same steps, seen by a reader: they write the file it has open only
\* when it is torn.
LEMMA WriterReading ==
    ASSUME Pieces, BlobInv,
           \/ PosixCreate \/ S3Create \/ AzureCreate \/ GCSCreate \/ ClientCreate
           \/ Write \/ MarshalFails \/ Close \/ Await \/ StoreSteps \/ Tick
    PROVE  Reading'
<1> USE DEF BlobInv, BlobTypeOK, Pipe
<1>1. UNCHANGED <<backend, reader>>
  BY DEF PosixCreate, S3Create, AzureCreate, GCSCreate, ClientCreate, Create, Write,
         MarshalFails, Close, Await, StoreSteps, PosixCopy, PutObject, Send, Carry, CopyFails,
         PosixEnd, S3End, UploadEnd, EndPipe, GCSClose, Tick
<1>2. CASE PosixCreate
  BY <1>1, <1>2 DEF PosixCreate, Create, Reading
<1>3. ASSUME ~PosixCreate PROVE torn' = torn
  BY <1>3 DEF S3Create, AzureCreate, GCSCreate, ClientCreate, Create, Write,
         MarshalFails, Close, Await, StoreSteps, PosixCopy, PutObject, Send, Carry, CopyFails,
         PosixEnd, S3End, UploadEnd, EndPipe, GCSClose, Tick
<1>4. ASSUME ~PosixCreate, backend = "posix", blobWriter = "idle"
      PROVE  UNCHANGED <<stored, blobWriter>>
  BY <1>4 DEF S3Create, AzureCreate, GCSCreate, ClientCreate, Create, Write,
         MarshalFails, Close, Await, StoreSteps, PosixCopy, PutObject, Send, Carry, CopyFails,
         PosixEnd, S3End, UploadEnd, EndPipe, GCSClose, Tick
<1>5. CASE ~PosixCreate
  <2>1. CASE reader.live
    BY <1>1, <1>3, <1>4, <1>5, <2>1 DEF Reading, Src
  <2>2. CASE ~reader.live
    BY <1>1, <1>3, <1>5, <2>2 DEF Reading, Src
  <2>3. QED
    BY <2>1, <2>2
<1>6. QED
  BY <1>2, <1>5

\* The reader and who removes the blob.
LEMMA ReaderStep ==
    ASSUME Pieces, BlobInv,
           \/ PosixOpen \/ S3Open \/ GCSOpen \/ AzureOpen \/ DownloadBlob
           \/ Read \/ ReaderLeaves \/ RemoveFile
    PROVE  BlobInv'
<1> USE DEF Pieces, BlobInv, BlobTypeOK
<1>1. CASE PosixOpen
  <2>1. /\ reader' = [at |-> "open", live |-> TRUE, file |-> stored, got |-> <<>>]
        /\ backend = "posix" /\ UNCHANGED writeVars
    BY <1>1 DEF PosixOpen, Opened
  <2>2. ~torn' => blobWriter = "idle" /\ Whole(stored)
    BY <1>1, Zenon DEF PosixOpen
  <2>3. stored' = stored /\ backend' = backend /\ blobWriter' = blobWriter
    BY <2>1 DEF writeVars
  <2>4. Whole(stored)' <=> Whole(stored)
    BY <2>3 DEF Whole
  <2>5. Src' = stored /\ reader'.got = <<>> /\ reader'.at = "open"
    BY <2>1, <2>3 DEF Src
  <2>6. Reading'
    BY <2>1, <2>2, <2>3, <2>4, <2>5 DEF Reading, Whole
  <2>7. QED
    BY <2>1, <2>6 DEF writeVars, Pipe, Spooled, Arrived, Published
<1>2. CASE S3Open \/ GCSOpen \/ AzureOpen \/ DownloadBlob
  <2>1. Opened(FALSE) /\ backend # "posix" /\ UNCHANGED torn
    BY <1>2 DEF S3Open, GCSOpen, AzureOpen, DownloadBlob
  <2>2. reader' = [at |-> "open", live |-> FALSE, file |-> stored, got |-> <<>>]
    BY <2>1 DEF Opened
  <2>3. Whole(stored)
    BY <2>1 DEF Opened, Published
  <2>4. Reading'
    BY <2>1, <2>2, <2>3 DEF Reading, Src, Whole
  <2>5. QED
    BY <2>1, <2>2, <2>4 DEF Opened, writeVars, Pipe, Spooled, Arrived, Published
<1>3. CASE Read
  <2>1. UNCHANGED <<writeVars, torn>>
    BY <1>3 DEF Read
  <2>2. CASE /\ Len(reader.got) < Len(Src)
             /\ reader' = [reader EXCEPT !.got = Append(@, Src[Len(@) + 1])]
    <3>1. Src \in Seq(Nat) /\ Src[Len(reader.got) + 1] \in Nat
      BY <2>2 DEF Src
    <3>2. /\ reader'.at = reader.at /\ reader'.live = reader.live /\ reader'.file = reader.file
          /\ reader'.got = Append(reader.got, Src[Len(reader.got) + 1])
          /\ reader' \in [at : {"none", "open", "read"}, live : BOOLEAN,
                          file : Seq(Nat), got : Seq(Nat)]
      <4>1. Append(reader.got, Src[Len(reader.got) + 1]) \in Seq(Nat)
        BY <3>1
      <4>2. QED
        BY <2>2, <4>1
    <3>3. Src' = Src
      BY <2>1, <3>2 DEF writeVars, Src
    <3>4. reader.at = "open"
      BY <1>3 DEF Read
    <3>5. Reading'
      <4>1. UNCHANGED <<backend, blobWriter, torn>> /\ (Whole(Src)' <=> Whole(Src))
        BY <2>1, <3>3 DEF writeVars, Whole
      <4>2. /\ Len(reader'.got) = Len(reader.got) + 1 /\ Len(reader'.got) <= Len(Src)
            /\ reader'.got[Len(reader.got) + 1] = Src[Len(reader.got) + 1]
            /\ \A i \in 1 .. Len(reader.got) : reader'.got[i] = reader.got[i]
            /\ Len(reader.got) \in Nat
        <5>1. reader.got \in Seq(Nat) /\ Len(Src) \in Nat
          BY <3>1
        <5>2. QED
          BY <2>2, <3>1, <3>2, <5>1, OnePieceMore
      <4>3. \A i \in 1 .. Len(reader'.got) : i \in 1 .. Len(reader.got) \/ i = Len(reader.got) + 1
        BY <4>2
      <4>4. QED
        BY <3>2, <3>3, <3>4, <4>1, <4>2, <4>3 DEF Reading
    <3>6. QED
      BY <2>1, <3>2, <3>5 DEF writeVars, Pipe, Spooled, Arrived, Published
  <2>3. CASE ~(Len(reader.got) < Len(Src)) /\ reader' = [reader EXCEPT !.at = "read"]
    <3>1. Src' = Src /\ Len(Src) \in Nat /\ Len(reader.got) \in Nat
      BY <2>1, <2>3 DEF writeVars, Src
    <3>2. reader.at = "open"
      BY <1>3 DEF Read
    <3>3. Reading'
      BY <2>1, <2>3, <3>1, <3>2 DEF writeVars, Reading, Whole
    <3>4. QED
      BY <2>1, <2>3, <3>3 DEF writeVars, Pipe, Spooled, Arrived, Published
  <2>4. QED
    BY <1>3, <2>2, <2>3 DEF Read, Src
<1>4. CASE ReaderLeaves
  BY <1>4 DEF ReaderLeaves, writeVars, Pipe, Spooled, Arrived, Published, Reading, Src
<1>5. CASE RemoveFile
  <2>1. Src' = Src /\ reader'.at = reader.at /\ reader'.got = reader.got /\ ~reader'.live
    BY <1>5 DEF RemoveFile, Src
  <2>2. Whole(Src)' <=> Whole(Src)
    BY <2>1 DEF Whole
  <2>3. UNCHANGED <<backend, blobWriter, torn>> /\ stored' = <<>>
    BY <1>5 DEF RemoveFile
  <2>4. Reading'
    BY <2>1, <2>2, <2>3 DEF Reading
  <2>5. reader' \in [at : {"none", "open", "read"}, live : BOOLEAN, file : Seq(Nat), got : Seq(Nat)]
    BY <1>5 DEF RemoveFile
  <2>6. QED
    BY <1>5, <2>3, <2>4, <2>5 DEF RemoveFile, Pipe, Spooled, Arrived, Published
<1>6. QED
  BY <1>1, <1>2, <1>3, <1>4, <1>5

\* Every step keeps the invariant.
LEMMA BlobStep == ASSUME Pieces, BlobInv, [BlobNext]_blobVars PROVE BlobInv'
<1>1. CASE UNCHANGED blobVars
  BY <1>1 DEF blobVars, BlobInv, BlobTypeOK, Pipe, Spooled, Arrived, Published, Reading, Src
<1>2. CASE BlobNext
  BY <1>2, WriterStep, WriterReading, ReaderStep DEF BlobNext, BlobInv
<1>3. QED
  BY <1>1, <1>2

(***************************************************************************)
(* A reader of any store gets one version from its first piece to its      *)
(* last, whatever is created, renamed or removed meanwhile and whichever   *)
(* write fails; the directory alone lets it read what is being written.    *)
(***************************************************************************)
THEOREM ReadIsWholeAlways == ASSUME Pieces PROVE BlobSpec => []ReadIsWhole
<1>1. BlobInit => BlobInv
  BY BlobStart
<1>2. BlobInv /\ [BlobNext]_blobVars => BlobInv'
  BY BlobStep
<1>3. BlobInv => ReadIsWhole
  BY DEF BlobInv, BlobTypeOK, Reading, ReadIsWhole, Whole
<1>4. QED
  BY <1>1, <1>2, <1>3, PTL DEF BlobSpec

-----------------------------------------------------------------------------
(* The records: Backup.                                                    *)

\* A database holds no feedback without its user and item.
Dbs == {d \in [users : SUBSET BackupUsers, items : SUBSET BackupItems,
               feedback : SUBSET (BackupUsers \X BackupItems \X {Now, Now + 1})] :
          \A f \in d.feedback : f[1] \in d.users /\ f[2] \in d.items}

\* The lines of a file: flags, and records of three kinds.
FlagTags == {"UserStream", "ItemStream", "FeedbackStream", "EOF", "message", "invalid"}
Lines == {Flag(t) : t \in FlagTags}
         \cup [tag : {"User"}, key : {<<u>> : u \in BackupUsers}]
         \cup [tag : {"Item"}, key : {<<i>> : i \in BackupItems}]
         \cup [tag : {"Feedback"}, key : BackupUsers \X BackupItems \X {Now, Now + 1}]

Kinds == {"User", "Item", "Feedback"}
Dumping == {"users", "items", "feedback", "eof"}
Places == 1 .. Len(file)
Passed == 1 .. position - 1

BackupTypeOK ==
    /\ db \in Dbs /\ auto \in BOOLEAN
    /\ file \in Seq(Lines) /\ batch \in Seq(Lines)
    /\ dumped \in [db : Dbs, clean : BOOLEAN]
    /\ dumping \in {"no", "done"} \cup Dumping
    /\ reading \in {"no", "restore", "import"}
    /\ position \in Nat \ {0} /\ position <= Len(file) + 1
    /\ stage \in {"none"} \cup Kinds
    /\ dumping # "done" => reading = "no" /\ position = 1 /\ outcome = "none"

Ended == file # <<>> /\ file[Len(file)].tag = "EOF"
FromDump == dumping \in Dumping \/ \E k \in Places : file[k].tag \in DOMAIN Streams

HasUser(u, S) == \E k \in S : file[k].tag = "User" /\ file[k].key[1] = u
HasItem(i, S) == \E k \in S : file[k].tag = "Item" /\ file[k].key[1] = i
HasFeedback(f) == \E k \in Places : file[k].tag = "Feedback" /\ file[k].key = f

OwnersBefore(k) == HasUser(file[k].key[1], 1 .. k - 1) /\ HasItem(file[k].key[2], 1 .. k - 1)

(***************************************************************************)
(* The file: only a dump that came to its end has an EOF, which is its     *)
(* last line.  While nobody writes to the store, the streams dumped so far *)
(* are all it held when the dump began, and the user and the item of       *)
(* feedback come before it.                                                *)
(***************************************************************************)
EndsOnce == \A k \in Places : file[k].tag = "EOF" => k = Len(file) /\ dumping = "done"
UsersDumped == \A u \in dumped.db.users : HasUser(u, Places)
ItemsDumped == \A i \in dumped.db.items : HasItem(i, Places)
FeedbackDumped == \A f \in Until(dumped.db.feedback) : HasFeedback(f)
OwnersFirst == \A k \in Places : file[k].tag = "Feedback" => OwnersBefore(k)

FileInv ==
    /\ EndsOnce
    /\ outcome = "ok" => Ended
    /\ dumped.clean =>
         /\ dumping \in Dumping => db = dumped.db
         /\ dumping \in {"items", "feedback", "eof"} \/ Ended => UsersDumped
         /\ dumping \in {"feedback", "eof"} \/ Ended => ItemsDumped
         /\ dumping = "eof" \/ Ended => FeedbackDumped
         /\ FromDump => OwnersFirst

InBatch(k) == \E b \in DOMAIN batch : batch[b] = file[k]

(***************************************************************************)
(* The reader: what it has passed is in the store or in its batch, which   *)
(* holds records of one kind.  Feedback may be missing if its user or item *)
(* is: not in a restore of a dump nobody disturbed, nor in an import that  *)
(* inserts them.                                                           *)
(***************************************************************************)
BatchOK == \A b \in DOMAIN batch : batch[b].tag = stage /\ \E k \in Passed : batch[b] = file[k]
EntitiesLoaded ==
    \A k \in Passed :
        /\ file[k].tag = "User" => file[k].key[1] \in db.users \/ InBatch(k)
        /\ file[k].tag = "Item" => file[k].key[1] \in db.items \/ InBatch(k)
FeedbackLoaded ==
    \A k \in Passed : file[k].tag = "Feedback" => file[k].key \in db.feedback \/ InBatch(k)

ReadInv ==
    reading # "no" =>
        /\ BatchOK /\ EntitiesLoaded
        /\ (reading = "restore" /\ dumped.clean) \/ (reading = "import" /\ auto) => FeedbackLoaded
        /\ reading = "restore" => (stage = "none" => batch = <<>>) /\ (stage # "none" => FromDump)
        /\ reading = "import" => stage # "none" /\ \A k \in Passed : file[k].tag = stage

BackupInv == BackupTypeOK /\ FileInv /\ ReadInv

\* What the lines of the three kinds carry.
LEMMA LinesAre ==
  \A l \in Lines : /\ l.tag = "User" => l.key[1] \in BackupUsers
                   /\ l.tag = "Item" => l.key[1] \in BackupItems
                   /\ l.tag = "Feedback" => l.key \in BackupUsers \X BackupItems \X {Now, Now + 1}
  BY DEF Lines, Flag, FlagTags

\* The records of a finite set are a sequence of lines of one kind, one for each element.
LEMMA RecordsAre ==
  ASSUME NEW S, IsFiniteSet(S), NEW t, \A x \in S : [tag |-> t, key |-> x] \in Lines
  PROVE  /\ Records(t, S) \in Seq(Lines)
         /\ \A k \in 1 .. Len(Records(t, S)) : Records(t, S)[k].tag = t /\ Records(t, S)[k].key \in S
         /\ \A x \in S : \E k \in 1 .. Len(Records(t, S)) : Records(t, S)[k].key = x
<1> DEFINE n == Cardinality(S)
           s == SetToSeq(S)
<1>1. n \in Nat /\ ExistsBijection(1 .. n, S)
  BY FS_CardinalityType
<1>2. \E f \in [1 .. n -> S] : IsInjective(f)
  BY <1>1 DEF ExistsBijection, Bijection, Injection, IsInjective
<1>3. s \in [1 .. n -> S] /\ IsInjective(s)
  BY <1>2 DEF SetToSeq
<1>4. s \in Injection(1 .. n, S)
  BY <1>3 DEF Injection, IsInjective
<1>5. IsFiniteSet(1 .. n) /\ Cardinality(1 .. n) = n
  BY <1>1, FS_Interval
<1>6. s \in Surjection(1 .. n, S)
  BY <1>4, <1>5, FS_Injection
<1>7. \A x \in S : \E k \in 1 .. n : s[k] = x
  BY <1>6 DEF Surjection
<1>8. Records(t, S) = [k \in 1 .. n |-> [tag |-> t, key |-> s[k]]]
  BY <1>3 DEF Records
<1> HIDE DEF n, s
<1>9. Records(t, S) \in Seq(Lines) /\ Len(Records(t, S)) = n
  BY <1>1, <1>3, <1>8
<1>10. \A k \in 1 .. n : Records(t, S)[k] = [tag |-> t, key |-> s[k]] /\ s[k] \in S
  BY <1>3, <1>8
<1>11. QED
  BY <1>7, <1>9, <1>10

\* Ids of a database are finitely many, and so is its feedback.
LEMMA DatabasesAreFinite ==
  ASSUME NEW d \in Dbs
  PROVE  IsFiniteSet({<<u>> : u \in d.users}) /\ IsFiniteSet({<<i>> : i \in d.items}) /\ IsFiniteSet(Until(d.feedback))
<1>1. ASSUME NEW B, IsFiniteSet(B), NEW S \in SUBSET B PROVE IsFiniteSet({<<x>> : x \in S})
  <2>1. IsFiniteSet(S)
    BY <1>1, FS_Subset
  <2>2. [x \in S |-> <<x>>] \in Surjection(S, {<<x>> : x \in S})
    BY DEF Surjection
  <2>3. QED
    BY <2>1, <2>2, FS_Surjection
<1>2. d.users \subseteq BackupUsers /\ d.items \subseteq BackupItems
      /\ d.feedback \subseteq BackupUsers \X BackupItems \X {Now, Now + 1}
  BY DEF Dbs
<1>3. IsFiniteSet({Now, Now + 1})
  <2>1. IsFiniteSet({Now})
    BY FS_Singleton
  <2>2. IsFiniteSet({Now} \cup {Now + 1})
    BY <2>1, FS_AddElement, Zenon
  <2>3. {Now, Now + 1} = {Now} \cup {Now + 1}
    OBVIOUS
  <2>4. QED
    BY <2>2, <2>3, Zenon
<1>4. IsFiniteSet(BackupUsers \X BackupItems \X {Now, Now + 1})
  <2> DEFINE F == BackupUsers \X BackupItems \X {Now, Now + 1}
             P == (BackupUsers \X BackupItems) \X {Now, Now + 1}
  <2>1. IsFiniteSet(BackupUsers \X BackupItems)
    BY BackupAssumption, FS_Product
  <2>2. IsFiniteSet(P)
    BY <1>3, <2>1, FS_Product
  <2>3. [p \in P |-> <<p[1][1], p[1][2], p[2]>>] \in Surjection(P, F)
    <3>1. \A p \in P : <<p[1][1], p[1][2], p[2]>> \in F
      OBVIOUS
    <3>2. ASSUME NEW f \in F PROVE \E p \in P : <<p[1][1], p[1][2], p[2]>> = f
      <4>1. <<<<f[1], f[2]>>, f[3]>> \in P
        OBVIOUS
      <4>2. f = <<f[1], f[2], f[3]>>
        OBVIOUS
      <4>3. QED
        BY <4>1, <4>2
    <3>3. QED
      BY <3>1, <3>2 DEF Surjection
  <2>4. QED
    BY <2>2, <2>3, FS_Surjection
<1>5. IsFiniteSet(d.feedback)
  BY <1>2, <1>4, FS_Subset
<1>6. Until(d.feedback) \subseteq d.feedback
  BY DEF Until
<1>7. QED
  BY <1>1, <1>2, <1>5, <1>6, BackupAssumption, FS_Subset

\* The file with a flag and some records behind what it had.
Appended(flag, r) ==
    /\ file' \in Seq(Lines) /\ Len(file') = Len(file) + 1 + Len(r)
    /\ \A k \in Places : k \in Places' /\ file'[k] = file[k]
    /\ file'[Len(file) + 1] = flag
    /\ \A k \in 1 .. Len(r) : Len(file) + 1 + k \in Places' /\ file'[Len(file) + 1 + k] = r[k]
    /\ \A k \in Places' : k \in Places \/ k = Len(file) + 1 \/ \E j \in 1 .. Len(r) : k = Len(file) + 1 + j

\* A stream appends its flag, then its records.
LEMMA StreamIs ==
  ASSUME file \in Seq(Lines), NEW from, NEW to, NEW flag \in Lines, NEW r \in Seq(Lines), Dumps(from, to, flag, r)
  PROVE  Appended(flag, r)
<1> DEFINE g == file \o <<flag>>
<1>1. <<flag>> \in Seq(Lines) /\ Len(<<flag>>) = 1 /\ <<flag>>[1] = flag
  OBVIOUS
<1>2. Len(file) \in Nat /\ Len(r) \in Nat
  BY LenProperties
<1>3. /\ g \in Seq(Lines) /\ Len(g) = Len(file) + 1
      /\ \A k \in 1 .. Len(file) + 1 : g[k] = IF k <= Len(file) THEN file[k] ELSE <<flag>>[k - Len(file)]
  BY <1>1, ConcatProperties
<1>4. file' = g \o r
  BY DEF Dumps
<1> HIDE DEF g
<1>5. /\ file' \in Seq(Lines) /\ Len(file') = Len(g) + Len(r)
      /\ \A k \in 1 .. Len(g) + Len(r) : file'[k] = IF k <= Len(g) THEN g[k] ELSE r[k - Len(g)]
  BY <1>3, <1>4, ConcatProperties
<1>6. Len(file') = Len(file) + 1 + Len(r)
  BY <1>3, <1>5
<1>7. ASSUME NEW k \in Places PROVE k \in Places' /\ file'[k] = file[k]
  BY <1>2, <1>3, <1>5, <1>6 DEF Places
<1>8. file'[Len(file) + 1] = flag
  <2>1. g[Len(file) + 1] = <<flag>>[1]
    BY <1>2, <1>3
  <2>2. file'[Len(file) + 1] = g[Len(file) + 1]
    BY <1>2, <1>3, <1>5
  <2>3. QED
    BY <1>1, <2>1, <2>2
<1>9. ASSUME NEW k \in 1 .. Len(r) PROVE Len(file) + 1 + k \in Places' /\ file'[Len(file) + 1 + k] = r[k]
  <2>1. Len(file) + 1 + k \in 1 .. Len(g) + Len(r) /\ ~(Len(file) + 1 + k <= Len(g)) /\ Len(file) + 1 + k - Len(g) = k
    BY <1>2, <1>3
  <2>2. file'[Len(file) + 1 + k] = r[Len(file) + 1 + k - Len(g)]
    BY <1>5, <2>1
  <2>3. QED
    BY <1>5, <2>1, <2>2 DEF Places
<1>10. ASSUME NEW k \in Places' PROVE k \in Places \/ k = Len(file) + 1 \/ \E j \in 1 .. Len(r) : k = Len(file) + 1 + j
  <2>1. k \in Nat /\ 1 <= k /\ k <= Len(file) + 1 + Len(r)
    BY <1>2, <1>6, <1>10 DEF Places
  <2>2. CASE k <= Len(file) + 1
    BY <1>2, <2>1, <2>2 DEF Places
  <2>3. CASE k > Len(file) + 1
    <3>1. k - Len(file) - 1 \in 1 .. Len(r) /\ k = Len(file) + 1 + (k - Len(file) - 1)
      BY <1>2, <2>1, <2>3
    <3>2. QED
      BY <3>1
  <2>4. QED
    BY <1>2, <2>1, <2>2, <2>3
<1>11. QED
  BY <1>5, <1>6, <1>7, <1>8, <1>9, <1>10 DEF Appended

\* What every stream of a dump keeps: what the file had, and that it has no EOF yet.
LEMMA StreamKeeps ==
  ASSUME BackupInv, NEW from \in {"users", "items", "feedback"}, NEW to \in {"items", "feedback", "eof"},
         NEW flag \in Lines, flag.tag \in DOMAIN Streams, NEW r \in Seq(Lines),
         \A k \in 1 .. Len(r) : r[k].tag \in Kinds, Dumps(from, to, flag, r)
  PROVE  /\ BackupTypeOK' /\ ReadInv' /\ outcome' # "ok"
         /\ EndsOnce' /\ ~Ended'
         /\ \A u : HasUser(u, Places) => HasUser(u, Places)'
         /\ \A i : HasItem(i, Places) => HasItem(i, Places)'
         /\ dumped.clean => \A k \in Places : file'[k].tag = "Feedback" => OwnersBefore(k)'
<1>1. Appended(flag, r)
  <2>1. file \in Seq(Lines)
    BY DEF BackupInv, BackupTypeOK
  <2>2. QED
    BY <2>1, StreamIs
<1>2. /\ dumping = from /\ dumping' = to /\ from # "done"
      /\ UNCHANGED <<db, auto, dumped, reading, position, batch, stage, outcome>>
  BY DEF Dumps
<1>3. reading = "no" /\ position = 1 /\ outcome = "none"
  BY <1>2 DEF BackupInv, BackupTypeOK
<1>4. Len(file) \in Nat /\ Len(r) \in Nat /\ Len(file') \in Nat
  BY <1>1, LenProperties DEF BackupInv, BackupTypeOK, Appended
<1>5. BackupTypeOK'
  <2>1. dumping' \in Dumping
    BY <1>2 DEF Dumping
  <2>2. position' <= Len(file') + 1
    BY <1>2, <1>3, <1>4
  <2>3. QED
    BY <1>1, <1>2, <1>3, <2>1, <2>2 DEF BackupInv, BackupTypeOK, Dumping, Appended
<1>6. ReadInv'
  BY <1>2, <1>3 DEF ReadInv
<1>7. \A k \in Places' : file'[k].tag # "EOF"
  BY <1>1, <1>2 DEF BackupInv, FileInv, EndsOnce, Kinds, Streams, Appended
<1>8. ~Ended'
  <2>1. Len(file') \in Places'
    BY <1>1, <1>4 DEF Places, Appended
  <2>2. QED
    BY <1>7, <2>1 DEF Ended
<1>13. EndsOnce'
  BY <1>7 DEF EndsOnce
<1>9. \A u : HasUser(u, Places) => HasUser(u, Places)'
  BY <1>1 DEF HasUser, Appended
<1>10. \A i : HasItem(i, Places) => HasItem(i, Places)'
  BY <1>1 DEF HasItem, Appended
<1>11. ASSUME dumped.clean, NEW k \in Places, file'[k].tag = "Feedback" PROVE OwnersBefore(k)'
  <2>1. FromDump /\ file[k].tag = "Feedback"
    BY <1>1, <1>2, <1>11 DEF FromDump, Dumping, Appended
  <2>2. OwnersBefore(k)
    BY <1>11, <2>1 DEF BackupInv, FileInv, OwnersFirst
  <2>3. 1 .. k - 1 \subseteq Places
    BY <1>4 DEF Places
  <2>4. QED
    BY <1>1, <1>11, <2>2, <2>3 DEF OwnersBefore, HasUser, HasItem, Appended
<1>12. QED
  BY <1>2, <1>3, <1>5, <1>6, <1>8, <1>9, <1>10, <1>11, <1>13

\* Who leaves the file alone leaves what is known of it.
LEMMA FileStays ==
  ASSUME BackupInv, UNCHANGED <<file, dumping, dumped>>, outcome' = "ok" => Ended, dumping \in Dumping => db' = db
  PROVE  FileInv'
  BY DEF BackupInv, FileInv, EndsOnce, UsersDumped, ItemsDumped, FeedbackDumped, OwnersFirst, OwnersBefore, Places, Ended, FromDump, HasUser, HasItem, HasFeedback

\* The stream of users holds every user.
LEMMA UsersKeep == ASSUME BackupInv, dumpUsers PROVE BackupInv'
<1>1. PICK S : S = {<<u>> : u \in db.users}
  OBVIOUS
<1>2. PICK r : r = Records("User", S)
  OBVIOUS
<1>3. db \in Dbs /\ file \in Seq(Lines) /\ Len(file) \in Nat
  BY LenProperties DEF BackupInv, BackupTypeOK
<1>4. IsFiniteSet(S)
  BY <1>1, <1>3, DatabasesAreFinite
<1>5. \A x \in S : [tag |-> "User", key |-> x] \in Lines
  BY <1>1, <1>3 DEF Dbs, Lines
<1>6. /\ r \in Seq(Lines)
      /\ \A k \in 1 .. Len(r) : r[k].tag = "User" /\ r[k].key \in S
      /\ \A x \in S : \E k \in 1 .. Len(r) : r[k].key = x
  BY <1>2, <1>4, <1>5, RecordsAre
<1>7. PICK flag : flag = Flag("UserStream")
  OBVIOUS
<1>8. flag \in Lines /\ flag.tag = "UserStream" /\ flag.tag \in DOMAIN Streams
  BY <1>7 DEF Lines, FlagTags, Flag, Streams
<1>9. Dumps("users", "items", flag, r)
  BY <1>1, <1>2, <1>7 DEF dumpUsers
<1>10. \A k \in 1 .. Len(r) : r[k].tag \in Kinds
  BY <1>6 DEF Kinds
<1>11. /\ BackupTypeOK' /\ ReadInv' /\ outcome' # "ok" /\ EndsOnce' /\ ~Ended'
       /\ dumped.clean => \A k \in Places : file'[k].tag = "Feedback" => OwnersBefore(k)'
  BY <1>6, <1>8, <1>9, <1>10, StreamKeeps
<1>12. Appended(flag, r)
  BY <1>3, <1>6, <1>8, <1>9, StreamIs
<1>13. dumping = "users" /\ dumping' = "items" /\ UNCHANGED <<db, dumped>>
  BY <1>9 DEF Dumps
<1>14. ASSUME dumped.clean PROVE db' = dumped'.db /\ UsersDumped'
  <2>1. db = dumped.db
    BY <1>13, <1>14 DEF BackupInv, FileInv, Dumping
  <2>2. ASSUME NEW u \in dumped.db.users PROVE HasUser(u, Places)'
    <3>1. <<u>> \in S
      BY <1>1, <2>1
    <3>2. PICK k \in 1 .. Len(r) : r[k].key = <<u>>
      BY <1>6, <3>1
    <3>3. Len(file) + 1 + k \in Places' /\ file'[Len(file) + 1 + k] = r[k]
      BY <1>12, <3>2 DEF Appended
    <3>5. r[k].tag = "User" /\ r[k].key[1] = u
      BY <1>6, <3>2
    <3>4. QED
      BY <3>3, <3>5 DEF HasUser
  <2>3. QED
    BY <1>13, <2>1, <2>2 DEF UsersDumped
<1>15. ASSUME dumped.clean, NEW k \in Places', file'[k].tag = "Feedback" PROVE OwnersBefore(k)'
  <2>1. k \in Places
    <3>1. ASSUME k = Len(file) + 1 PROVE FALSE
      BY <1>8, <1>12, <1>15, <3>1 DEF Appended
    <3>2. ASSUME NEW j \in 1 .. Len(r), k = Len(file) + 1 + j PROVE FALSE
      BY <1>6, <1>12, <1>15, <3>2 DEF Appended
    <3>3. QED
      BY <1>12, <1>15, <3>1, <3>2 DEF Appended
  <2>2. QED
    BY <1>11, <1>15, <2>1
<1>16. FileInv'
  BY <1>11, <1>13, <1>14, <1>15 DEF FileInv, OwnersFirst
<1>17. QED
  BY <1>11, <1>16 DEF BackupInv

\* The stream of items holds every item.
LEMMA ItemsKeep == ASSUME BackupInv, dumpItems PROVE BackupInv'
<1>1. PICK S : S = {<<i>> : i \in db.items}
  OBVIOUS
<1>2. PICK r : r = Records("Item", S)
  OBVIOUS
<1>3. db \in Dbs /\ file \in Seq(Lines) /\ Len(file) \in Nat
  BY LenProperties DEF BackupInv, BackupTypeOK
<1>4. IsFiniteSet(S)
  BY <1>1, <1>3, DatabasesAreFinite
<1>5. \A x \in S : [tag |-> "Item", key |-> x] \in Lines
  BY <1>1, <1>3 DEF Dbs, Lines
<1>6. /\ r \in Seq(Lines)
      /\ \A k \in 1 .. Len(r) : r[k].tag = "Item" /\ r[k].key \in S
      /\ \A x \in S : \E k \in 1 .. Len(r) : r[k].key = x
  BY <1>2, <1>4, <1>5, RecordsAre
<1>7. PICK flag : flag = Flag("ItemStream")
  OBVIOUS
<1>8. flag \in Lines /\ flag.tag = "ItemStream" /\ flag.tag \in DOMAIN Streams
  BY <1>7 DEF Lines, FlagTags, Flag, Streams
<1>9. Dumps("items", "feedback", flag, r)
  BY <1>1, <1>2, <1>7 DEF dumpItems
<1>10. \A k \in 1 .. Len(r) : r[k].tag \in Kinds
  BY <1>6 DEF Kinds
<1>11. /\ BackupTypeOK' /\ ReadInv' /\ outcome' # "ok" /\ EndsOnce' /\ ~Ended'
       /\ \A u : HasUser(u, Places) => HasUser(u, Places)'
       /\ dumped.clean => \A k \in Places : file'[k].tag = "Feedback" => OwnersBefore(k)'
  BY <1>6, <1>8, <1>9, <1>10, StreamKeeps
<1>12. Appended(flag, r)
  BY <1>3, <1>6, <1>8, <1>9, StreamIs
<1>13. dumping = "items" /\ dumping' = "feedback" /\ UNCHANGED <<db, dumped>>
  BY <1>9 DEF Dumps
<1>14. ASSUME dumped.clean PROVE db' = dumped'.db /\ ItemsDumped'
  <2>1. db = dumped.db
    BY <1>13, <1>14 DEF BackupInv, FileInv, Dumping
  <2>2. ASSUME NEW i \in dumped.db.items PROVE HasItem(i, Places)'
    <3>1. <<i>> \in S
      BY <1>1, <2>1
    <3>2. PICK k \in 1 .. Len(r) : r[k].key = <<i>>
      BY <1>6, <3>1
    <3>3. Len(file) + 1 + k \in Places' /\ file'[Len(file) + 1 + k] = r[k]
      BY <1>12, <3>2 DEF Appended
    <3>4. r[k].tag = "Item" /\ r[k].key[1] = i
      BY <1>6, <3>2
    <3>5. QED
      BY <3>3, <3>4 DEF HasItem
  <2>3. QED
    BY <1>13, <2>1, <2>2 DEF ItemsDumped
<1>15. ASSUME dumped.clean, NEW k \in Places', file'[k].tag = "Feedback" PROVE OwnersBefore(k)'
  <2>1. k \in Places
    <3>1. ASSUME k = Len(file) + 1 PROVE FALSE
      BY <1>8, <1>12, <1>15, <3>1 DEF Appended
    <3>2. ASSUME NEW j \in 1 .. Len(r), k = Len(file) + 1 + j PROVE FALSE
      BY <1>6, <1>12, <1>15, <3>2 DEF Appended
    <3>3. QED
      BY <1>12, <1>15, <3>1, <3>2 DEF Appended
  <2>2. QED
    BY <1>11, <1>15, <2>1
<1>16. ASSUME dumped.clean PROVE UsersDumped'
  <2>1. UsersDumped
    BY <1>13, <1>16 DEF BackupInv, FileInv
  <2>2. QED
    BY <1>11, <1>13, <2>1 DEF UsersDumped
<1>17. FileInv'
  BY <1>11, <1>13, <1>14, <1>15, <1>16 DEF FileInv, OwnersFirst
<1>18. QED
  BY <1>11, <1>17 DEF BackupInv

\* The stream of feedback holds all that is not of the future, behind the users and the items.
LEMMA FeedbackKeep == ASSUME BackupInv, dumpFeedback PROVE BackupInv'
<1>1. PICK S : S = Until(db.feedback)
  OBVIOUS
<1>2. PICK r : r = Records("Feedback", S)
  OBVIOUS
<1>3. db \in Dbs /\ file \in Seq(Lines) /\ Len(file) \in Nat
  BY LenProperties DEF BackupInv, BackupTypeOK
<1>4. IsFiniteSet(S)
  BY <1>1, <1>3, DatabasesAreFinite
<1>5. \A x \in S : x \in BackupUsers \X BackupItems \X {Now, Now + 1} /\ x[1] \in db.users /\ x[2] \in db.items
  BY <1>1, <1>3 DEF Dbs, Until
<1>18. \A x \in S : [tag |-> "Feedback", key |-> x] \in Lines
  BY <1>5 DEF Lines
<1>6. /\ r \in Seq(Lines)
      /\ \A k \in 1 .. Len(r) : r[k].tag = "Feedback" /\ r[k].key \in S
      /\ \A x \in S : \E k \in 1 .. Len(r) : r[k].key = x
  BY <1>2, <1>4, <1>18, RecordsAre
<1>7. PICK flag : flag = Flag("FeedbackStream")
  OBVIOUS
<1>8. flag \in Lines /\ flag.tag = "FeedbackStream" /\ flag.tag \in DOMAIN Streams
  BY <1>7 DEF Lines, FlagTags, Flag, Streams
<1>9. Dumps("feedback", "eof", flag, r)
  BY <1>1, <1>2, <1>7 DEF dumpFeedback
<1>10. \A k \in 1 .. Len(r) : r[k].tag \in Kinds
  BY <1>6 DEF Kinds
<1>11. /\ BackupTypeOK' /\ ReadInv' /\ outcome' # "ok" /\ EndsOnce' /\ ~Ended'
       /\ \A u : HasUser(u, Places) => HasUser(u, Places)'
       /\ \A i : HasItem(i, Places) => HasItem(i, Places)'
       /\ dumped.clean => \A k \in Places : file'[k].tag = "Feedback" => OwnersBefore(k)'
  BY <1>6, <1>8, <1>9, <1>10, StreamKeeps
<1>12. Appended(flag, r)
  BY <1>3, <1>6, <1>8, <1>9, StreamIs
<1>13. dumping = "feedback" /\ dumping' = "eof" /\ UNCHANGED <<db, dumped>>
  BY <1>9 DEF Dumps
<1>14. ASSUME dumped.clean PROVE db' = dumped'.db /\ UsersDumped /\ ItemsDumped /\ db = dumped.db
  BY <1>13, <1>14 DEF BackupInv, FileInv, Dumping
<1>15. ASSUME dumped.clean PROVE FeedbackDumped'
  <2>2. ASSUME NEW f \in Until(dumped.db.feedback) PROVE HasFeedback(f)'
    <3>1. f \in S
      BY <1>1, <1>14, <1>15
    <3>2. PICK k \in 1 .. Len(r) : r[k].key = f
      BY <1>6, <3>1
    <3>3. Len(file) + 1 + k \in Places' /\ file'[Len(file) + 1 + k] = r[k]
      BY <1>12, <3>2 DEF Appended
    <3>4. r[k].tag = "Feedback"
      BY <1>6, <3>2
    <3>5. QED
      BY <3>2, <3>3, <3>4 DEF HasFeedback
  <2>3. QED
    BY <1>13, <2>2 DEF FeedbackDumped
<1>16. ASSUME dumped.clean, NEW k \in Places', file'[k].tag = "Feedback" PROVE OwnersBefore(k)'
  <2>1. CASE k \in Places
    BY <1>11, <1>16, <2>1
  <2>2. ASSUME k = Len(file) + 1 PROVE FALSE
    BY <1>8, <1>12, <1>16, <2>2 DEF Appended
  <2>3. ASSUME NEW j \in 1 .. Len(r), k = Len(file) + 1 + j PROVE OwnersBefore(k)'
    <3>1. file'[k] = r[j] /\ r[j].key \in S
      BY <1>6, <1>12, <2>3 DEF Appended
    <3>2. file'[k].key[1] \in dumped.db.users /\ file'[k].key[2] \in dumped.db.items
      BY <1>5, <1>14, <1>16, <3>1
    <3>3. PICK u \in Places : file[u].tag = "User" /\ file[u].key[1] = file'[k].key[1]
      BY <1>14, <1>16, <3>2 DEF UsersDumped, HasUser
    <3>4. PICK i \in Places : file[i].tag = "Item" /\ file[i].key[1] = file'[k].key[2]
      BY <1>14, <1>16, <3>2 DEF ItemsDumped, HasItem
    <3>5. u \in 1 .. k - 1 /\ i \in 1 .. k - 1
      BY <1>3, <2>3 DEF Places
    <3>6. file'[u] = file[u] /\ file'[i] = file[i]
      BY <1>12 DEF Appended
    <3>7. HasUser(file[k].key[1], 1 .. k - 1)' /\ HasItem(file[k].key[2], 1 .. k - 1)'
      BY <3>3, <3>4, <3>5, <3>6 DEF HasUser, HasItem
    <3>8. QED
      BY <3>7 DEF OwnersBefore
  <2>4. QED
    BY <1>12, <1>16, <2>1, <2>2, <2>3 DEF Appended
<1>17. ASSUME dumped.clean PROVE UsersDumped' /\ ItemsDumped'
  BY <1>11, <1>13, <1>14, <1>17 DEF UsersDumped, ItemsDumped
<1>19. FileInv'
  BY <1>11, <1>13, <1>14, <1>15, <1>16, <1>17 DEF FileInv, OwnersFirst
<1>20. QED
  BY <1>11, <1>19 DEF BackupInv

\* The EOF comes when all streams are there, and it is the only one.
LEMMA EOFKeeps == ASSUME BackupInv, dumpEOF PROVE BackupInv'
<1>1. PICK flag : flag = Flag("EOF")
  OBVIOUS
<1>2. flag \in Lines /\ flag.tag = "EOF"
  BY <1>1 DEF Lines, FlagTags, Flag
<1>3. file \in Seq(Lines) /\ Len(file) \in Nat
  BY LenProperties DEF BackupInv, BackupTypeOK
<1>16. PICK r : r = <<>>
  OBVIOUS
<1>4. r = <<>> /\ r \in Seq(Lines) /\ Len(r) = 0
  BY <1>16
<1>5. Dumps("eof", "done", flag, r)
  BY <1>1, <1>4 DEF dumpEOF
<1>6. Appended(flag, r)
  BY <1>2, <1>3, <1>4, <1>5, StreamIs
<1>7. dumping = "eof" /\ dumping' = "done" /\ UNCHANGED <<db, auto, dumped, reading, position, batch, stage, outcome>>
  BY <1>5 DEF Dumps
<1>8. reading = "no" /\ position = 1 /\ outcome = "none"
  BY <1>7 DEF BackupInv, BackupTypeOK
<1>9. /\ file' \in Seq(Lines) /\ Len(file') = Len(file) + 1 /\ file'[Len(file) + 1] = flag
      /\ \A k \in Places : k \in Places' /\ file'[k] = file[k]
      /\ \A k \in Places' : k \in Places \/ k = Len(file) + 1
  BY <1>4, <1>6 DEF Appended
<1>10. BackupTypeOK'
  <2>1. position' <= Len(file') + 1
    BY <1>3, <1>7, <1>8, <1>9
  <2>2. QED
    BY <1>7, <1>8, <1>9, <2>1 DEF BackupInv, BackupTypeOK, Dumping
<1>11. ReadInv'
  BY <1>7, <1>8 DEF ReadInv
<1>12. EndsOnce'
  BY <1>7, <1>9 DEF BackupInv, FileInv, EndsOnce
<1>13. ASSUME dumped.clean PROVE UsersDumped' /\ ItemsDumped' /\ FeedbackDumped' /\ OwnersFirst'
  <2>1. UsersDumped /\ ItemsDumped /\ FeedbackDumped /\ OwnersFirst
    BY <1>7, <1>13 DEF BackupInv, FileInv, FromDump, Dumping
  <2>2. UsersDumped' /\ ItemsDumped' /\ FeedbackDumped'
    BY <1>7, <1>9, <2>1 DEF UsersDumped, ItemsDumped, FeedbackDumped, HasUser, HasItem, HasFeedback
  <2>3. ASSUME NEW k \in Places', file'[k].tag = "Feedback" PROVE OwnersBefore(k)'
    <3>1. k \in Places /\ file'[k] = file[k]
      BY <1>2, <1>9, <2>3
    <3>2. OwnersBefore(k)
      BY <2>1, <2>3, <3>1 DEF OwnersFirst
    <3>3. 1 .. k - 1 \subseteq Places
      BY <1>3, <3>1 DEF Places
    <3>4. QED
      BY <1>9, <3>1, <3>2, <3>3 DEF OwnersBefore, HasUser, HasItem
  <2>4. QED
    BY <2>2, <2>3 DEF OwnersFirst
<1>14. FileInv'
  BY <1>7, <1>8, <1>12, <1>13 DEF FileInv, Dumping
<1>15. QED
  BY <1>10, <1>11, <1>14 DEF BackupInv

\* A dump that fails has no EOF, and what is left of it has its owners first.
LEMMA DumpFailureKeeps == ASSUME BackupInv, dumpFails PROVE BackupInv'
<1>1. file \in Seq(Lines) /\ Len(file) \in Nat
  BY LenProperties DEF BackupInv, BackupTypeOK
<1>2. dumping \in Dumping /\ dumping' = "done" /\ UNCHANGED <<db, auto, dumped, reading, position, batch, stage, outcome>>
  BY DEF dumpFails, Dumping
<1>3. reading = "no" /\ position = 1 /\ outcome = "none"
  BY <1>2 DEF BackupInv, BackupTypeOK, Dumping
<1>4. /\ file' \in Seq(Lines) /\ Len(file') \in Nat
      /\ \A k \in Places' : (k \in Places /\ file'[k] = file[k]) \/ file'[k].tag = "message"
  <2>1. CASE file' = Append(file, Flag("message"))
    <3>4. PICK flag : flag = Flag("message")
      OBVIOUS
    <3>1. flag = Flag("message") /\ flag \in Lines /\ flag.tag = "message"
      BY <3>4 DEF Lines, FlagTags, Flag
    <3>2. /\ file' \in Seq(Lines) /\ Len(file') = Len(file) + 1 /\ file'[Len(file) + 1] = flag
          /\ \A k \in 1 .. Len(file) : file'[k] = file[k]
      BY <1>1, <2>1, <3>1, AppendProperties
    <3>3. QED
      BY <1>1, <3>1, <3>2 DEF Places
  <2>2. ASSUME NEW cut \in 0 .. Len(file), file' = SubSeq(file, 1, cut)
        PROVE  /\ file' \in Seq(Lines) /\ Len(file') \in Nat
               /\ \A k \in Places' : k \in Places /\ file'[k] = file[k]
    <3>1. \A k \in 1 .. cut : file[k] \in Lines
      BY <1>1
    <3>2. file' = [k \in 1 .. cut |-> file[k]]
      BY <1>1, <2>2
    <3>3. file' \in Seq(Lines) /\ Len(file') = cut
      BY <3>1, <3>2
    <3>4. QED
      BY <1>1, <3>2, <3>3 DEF Places
  <2>3. QED
    BY <2>1, <2>2 DEF dumpFails
<1>5. BackupTypeOK'
  <2>1. position' <= Len(file') + 1
    BY <1>2, <1>3, <1>4
  <2>2. QED
    BY <1>2, <1>3, <1>4, <2>1 DEF BackupInv, BackupTypeOK
<1>6. ReadInv'
  BY <1>2, <1>3 DEF ReadInv
<1>7. \A k \in Places' : file'[k].tag # "EOF"
  BY <1>2, <1>4 DEF BackupInv, FileInv, EndsOnce, Dumping
<1>8. ~Ended'
  <2>1. ASSUME file' # <<>> PROVE Len(file') \in Places'
    BY <1>4, <2>1 DEF Places
  <2>2. QED
    BY <1>7, <2>1 DEF Ended
<1>9. ASSUME dumped.clean, NEW k \in Places', file'[k].tag = "Feedback" PROVE OwnersBefore(k)'
  <2>1. k \in Places /\ file'[k] = file[k]
    BY <1>4, <1>9
  <2>2. OwnersBefore(k)
    BY <1>2, <1>9, <2>1 DEF BackupInv, FileInv, OwnersFirst, FromDump
  <2>3. 1 .. k - 1 \subseteq Places /\ 1 .. k - 1 \subseteq Places'
    BY <1>1, <1>4, <1>9, <2>1 DEF Places
  <2>4. PICK u \in 1 .. k - 1 : file[u].tag = "User" /\ file[u].key[1] = file[k].key[1]
    BY <2>2 DEF OwnersBefore, HasUser
  <2>5. PICK i \in 1 .. k - 1 : file[i].tag = "Item" /\ file[i].key[1] = file[k].key[2]
    BY <2>2 DEF OwnersBefore, HasItem
  <2>7. Len(file') <= Len(file) + 1 /\ \A j \in 1 .. Len(file) : j \in Places' => file'[j] = file[j]
    <3>1. CASE file' = Append(file, Flag("message"))
      BY <1>1, <3>1, AppendProperties
    <3>2. ASSUME NEW cut \in 0 .. Len(file), file' = SubSeq(file, 1, cut)
          PROVE  Len(file') <= Len(file) + 1 /\ \A j \in 1 .. Len(file) : j \in Places' => file'[j] = file[j]
      <4>1. file' = [j \in 1 .. cut |-> file[j]]
        BY <1>1, <3>2
      <4>2. QED
        BY <1>1, <4>1 DEF Places
    <3>3. QED
      BY <3>1, <3>2 DEF dumpFails
  <2>8. file'[u] = file[u] /\ file'[i] = file[i]
    BY <2>3, <2>7 DEF Places
  <2>9. QED
    BY <2>1, <2>4, <2>5, <2>8 DEF OwnersBefore, HasUser, HasItem
<1>10. FileInv'
  BY <1>2, <1>3, <1>7, <1>8, <1>9 DEF FileInv, EndsOnce, OwnersFirst, Dumping
<1>11. QED
  BY <1>5, <1>6, <1>10 DEF BackupInv

\* A dump begins with an empty file, and with what the store has now.
LEMMA DumpKeeps == ASSUME BackupInv, dump PROVE BackupInv'
<1>1. /\ dumping = "no" /\ reading = "no" /\ dumping' = "users" /\ file' = <<>> /\ dumped' = [db |-> db, clean |-> TRUE]
      /\ UNCHANGED <<db, auto, reading, position, batch, stage, outcome>>
  BY DEF dump, Idle
<1>2. position = 1 /\ outcome = "none" /\ db \in Dbs
  BY <1>1 DEF BackupInv, BackupTypeOK
<1>3. Len(file') = 0 /\ Places' = {} /\ file' \in Seq(Lines)
  BY <1>1 DEF Places
<1>4. BackupTypeOK'
  BY <1>1, <1>2, <1>3 DEF BackupInv, BackupTypeOK, Dumping
<1>5. FileInv'
  BY <1>1, <1>2, <1>3 DEF FileInv, EndsOnce, Ended, OwnersFirst
<1>6. ReadInv'
  BY <1>1 DEF ReadInv
<1>7. QED
  BY <1>4, <1>5, <1>6 DEF BackupInv

\* A purge comes when nobody dumps or reads.
LEMMA PurgeKeeps == ASSUME BackupInv, purge PROVE BackupInv'
<1>1. /\ dumping \in {"no", "done"} /\ reading = "no" /\ db' = Empty
      /\ UNCHANGED <<auto, file, dumping, dumped, reading, position, batch, stage, outcome>>
  BY DEF purge, Idle
<1>2. db' \in Dbs
  BY <1>1 DEF Dbs, Empty
<1>3. BackupTypeOK'
  BY <1>1, <1>2 DEF BackupInv, BackupTypeOK
<1>4. FileInv'
  BY <1>1, FileStays DEF Dumping, BackupInv, FileInv
<1>5. ReadInv'
  BY <1>1 DEF ReadInv
<1>6. QED
  BY <1>3, <1>4, <1>5 DEF BackupInv

\* What the servers insert disturbs the dump, and takes nothing from the store.
LEMMA InsertKeeps == ASSUME BackupInv, InsertFeedback PROVE BackupInv'
<1>1. PICK u \in BackupUsers, i \in BackupItems :
        db' = [users |-> db.users \cup {u}, items |-> db.items \cup {i}, feedback |-> db.feedback \cup {<<u, i, Now>>}]
  BY DEF InsertFeedback
<1>2. UNCHANGED <<auto, file, dumping, reading, position, batch, stage, outcome>>
  BY DEF InsertFeedback
<1>3. dumped' \in [db : Dbs, clean : BOOLEAN] /\ dumped'.clean = FALSE
  BY DEF InsertFeedback, BackupInv, BackupTypeOK
<1>4. db' \in Dbs
  BY <1>1 DEF BackupInv, BackupTypeOK, Dbs
<1>5. BackupTypeOK'
  BY <1>2, <1>3, <1>4 DEF BackupInv, BackupTypeOK
<1>6. FileInv'
  BY <1>2, <1>3 DEF BackupInv, FileInv, EndsOnce, Ended, Places
<1>7. db.users \subseteq db'.users /\ db.items \subseteq db'.items /\ db.feedback \subseteq db'.feedback
  BY <1>1
<1>8. ReadInv'
  BY <1>2, <1>3, <1>7 DEF BackupInv, ReadInv, BatchOK, EntitiesLoaded, FeedbackLoaded, InBatch, FromDump, Places, Passed, Dumping
<1>9. QED
  BY <1>5, <1>6, <1>8 DEF BackupInv

\* A restore begins before the first line.
LEMMA RestoreBeginKeeps == ASSUME BackupInv, restoreBegins PROVE BackupInv'
<1>1. /\ dumping = "done" /\ reading' = "restore" /\ position' = 1 /\ batch' = <<>> /\ stage' = "none" /\ outcome' = "running"
      /\ UNCHANGED <<db, auto, file, dumping, dumped>>
  BY DEF restoreBegins
<1>2. Passed' = {} /\ DOMAIN batch' = {} /\ batch' \in Seq(Lines)
  BY <1>1 DEF Passed
<1>3. BackupTypeOK'
  <2>1. position' <= Len(file') + 1
    BY <1>1, LenProperties DEF BackupInv, BackupTypeOK
  <2>2. QED
    BY <1>1, <1>2, <2>1 DEF BackupInv, BackupTypeOK
<1>4. FileInv'
  BY <1>1, FileStays DEF Dumping
<1>5. ReadInv'
  BY <1>1, <1>2 DEF ReadInv, BatchOK, EntitiesLoaded, FeedbackLoaded
<1>6. QED
  BY <1>3, <1>4, <1>5 DEF BackupInv

\* An export is a sequence of lines of its kind.
LEMMA ExportedIs ==
  ASSUME db \in Dbs, NEW t \in Kinds
  PROVE  Exported(t) \in Seq(Lines) /\ \A k \in 1 .. Len(Exported(t)) : Exported(t)[k].tag = t
<1>1. PICK U, I, F : U = {<<u>> : u \in db.users} /\ I = {<<i>> : i \in db.items} /\ F = Until(db.feedback)
  OBVIOUS
<1>2. IsFiniteSet(U) /\ IsFiniteSet(I) /\ IsFiniteSet(F)
  BY <1>1, DatabasesAreFinite
<1>3. /\ \A x \in U : [tag |-> "User", key |-> x] \in Lines
      /\ \A x \in I : [tag |-> "Item", key |-> x] \in Lines
  BY <1>1 DEF Dbs, Lines
<1>4. \A x \in F : [tag |-> "Feedback", key |-> x] \in Lines
  BY <1>1 DEF Dbs, Lines, Until
<1>5. CASE t = "User"
  <2>1. Records("User", U) \in Seq(Lines) /\ \A k \in 1 .. Len(Records("User", U)) : Records("User", U)[k].tag = "User"
    BY <1>2, <1>3, RecordsAre
  <2>2. Exported(t) = Records("User", U)
    BY <1>1, <1>5 DEF Exported
  <2>3. QED
    BY <1>5, <2>1, <2>2
<1>6. CASE t = "Item"
  <2>1. Records("Item", I) \in Seq(Lines) /\ \A k \in 1 .. Len(Records("Item", I)) : Records("Item", I)[k].tag = "Item"
    BY <1>2, <1>3, RecordsAre
  <2>2. Exported(t) = Records("Item", I)
    BY <1>1, <1>6 DEF Exported
  <2>3. QED
    BY <1>6, <2>1, <2>2
<1>7. CASE t = "Feedback"
  <2>1. /\ Records("Feedback", F) \in Seq(Lines)
        /\ \A k \in 1 .. Len(Records("Feedback", F)) : Records("Feedback", F)[k].tag = "Feedback"
    BY <1>2, <1>4, RecordsAre
  <2>2. Exported(t) = Records("Feedback", F)
    BY <1>1, <1>7 DEF Exported
  <2>3. QED
    BY <1>7, <2>1, <2>2
<1>8. QED
  BY <1>5, <1>6, <1>7 DEF Kinds

\* An import begins before the first line of a file without flags and without EOF.
LEMMA ImportBeginKeeps == ASSUME BackupInv, importBegins PROVE BackupInv'
<1>1. PICK t \in Kinds, bad \in BOOLEAN :
        stage' = t /\ file' = Exported(t) \o IF bad THEN <<Flag("invalid")>> ELSE <<>>
  BY DEF importBegins, Kinds
<1>2. PICK r : r = Exported(t)
  OBVIOUS
<1>3. PICK z : z = IF bad THEN <<Flag("invalid")>> ELSE <<>>
  OBVIOUS
<1>4. r \in Seq(Lines) /\ \A k \in 1 .. Len(r) : r[k].tag = t
  BY <1>2, ExportedIs DEF BackupInv, BackupTypeOK
<1>5. z \in Seq(Lines) /\ \A k \in 1 .. Len(z) : z[k].tag = "invalid"
  <2>1. Flag("invalid") \in Lines /\ Flag("invalid").tag = "invalid"
    BY DEF Lines, Flag, FlagTags
  <2>2. QED
    BY <1>3, <2>1
<1>6. /\ file' \in Seq(Lines) /\ Len(file') = Len(r) + Len(z)
      /\ \A k \in 1 .. Len(r) + Len(z) : file'[k] = IF k <= Len(r) THEN r[k] ELSE z[k - Len(r)]
  <2>1. file' = r \o z
    BY <1>1, <1>2, <1>3
  <2>2. QED
    BY <1>4, <1>5, <2>1, ConcatProperties
<1>7. Len(r) \in Nat /\ Len(z) \in Nat
  BY <1>4, <1>5, LenProperties
<1>8. \A k \in Places' : file'[k].tag \in {t, "invalid"}
  <2>1. ASSUME NEW k \in Places' PROVE k \in Nat /\ 1 <= k /\ k <= Len(r) + Len(z)
    BY <1>6, <1>7 DEF Places
  <2>2. ASSUME NEW k \in Places', k <= Len(r) PROVE file'[k].tag = t
    BY <1>4, <1>6, <1>7, <2>1, <2>2
  <2>3. ASSUME NEW k \in Places', ~(k <= Len(r)) PROVE file'[k].tag = "invalid"
    <3>1. k - Len(r) \in 1 .. Len(z)
      BY <1>7, <2>1, <2>3
    <3>2. file'[k] = z[k - Len(r)]
      BY <1>6, <1>7, <2>1, <2>3
    <3>3. QED
      BY <1>5, <3>1, <3>2
  <2>4. QED
    BY <2>2, <2>3
<1>9. /\ reading' = "import" /\ position' = 1 /\ batch' = <<>> /\ outcome' = "running" /\ dumping' = "done"
      /\ dumped' = [db |-> db, clean |-> TRUE] /\ db' \in {db, Empty} /\ auto' = auto
  BY DEF importBegins
<1>10. Passed' = {} /\ DOMAIN batch' = {} /\ batch' \in Seq(Lines)
  BY <1>9 DEF Passed
<1>11. BackupTypeOK'
  <2>1. position' <= Len(file') + 1
    BY <1>6, <1>7, <1>9
  <2>2. db' \in Dbs
    BY <1>9 DEF Empty, Dbs, BackupInv, BackupTypeOK
  <2>3. QED
    BY <1>1, <1>6, <1>9, <1>10, <2>1, <2>2 DEF BackupInv, BackupTypeOK, Dumping
<1>12. EndsOnce' /\ ~Ended' /\ ~FromDump'
  <2>1. \A k \in Places' : file'[k].tag # "EOF" /\ file'[k].tag \notin DOMAIN Streams
    BY <1>8 DEF Kinds, Streams
  <2>2. file' # <<>> => Len(file') \in Places'
    BY <1>6, <1>7 DEF Places
  <2>3. QED
    BY <1>9, <2>1, <2>2 DEF EndsOnce, Ended, FromDump, Dumping
<1>13. FileInv'
  BY <1>9, <1>12 DEF FileInv, Dumping
<1>14. ReadInv'
  BY <1>1, <1>9, <1>10 DEF ReadInv, BatchOK, EntitiesLoaded, FeedbackLoaded, Kinds
<1>15. QED
  BY <1>11, <1>13, <1>14 DEF BackupInv

\* An insert takes nothing, stores the users and the items, and the feedback whose owners are there or inserted too.
LEMMA InsertedGives ==
  ASSUME db \in Dbs, NEW t \in Kinds, NEW s \in Seq(Lines), \A b \in DOMAIN s : s[b].tag = t, NEW insert \in BOOLEAN,
         NEW d, d = Inserted(t, s, insert)
  PROVE  /\ d \in Dbs /\ Covers(d, db)
         /\ \A b \in DOMAIN s :
              /\ s[b].tag = "User" => s[b].key[1] \in d.users
              /\ s[b].tag = "Item" => s[b].key[1] \in d.items
              /\ s[b].tag = "Feedback" /\ (insert \/ (s[b].key[1] \in db.users /\ s[b].key[2] \in db.items))
                   => s[b].key \in d.feedback
<1>1. \A b \in DOMAIN s : s[b] \in Lines
  OBVIOUS
<1>2. /\ db = [users |-> db.users, items |-> db.items, feedback |-> db.feedback]
      /\ db.users \subseteq BackupUsers /\ db.items \subseteq BackupItems
      /\ db.feedback \subseteq BackupUsers \X BackupItems \X {Now, Now + 1}
      /\ \A f \in db.feedback : f[1] \in db.users /\ f[2] \in db.items
  BY DEF Dbs
<1>3. PICK K : K = Keys(s)
  OBVIOUS
<1>4. CASE t = "User"
  <2>1. d = [db EXCEPT !.users = @ \cup {k[1] : k \in K}]
    BY <1>3, <1>4 DEF Inserted
  <2>2. \A k \in K : k[1] \in BackupUsers
    BY <1>1, <1>3, <1>4, LinesAre DEF Keys
  <2>3. \A b \in DOMAIN s : s[b].key \in K
    BY <1>3 DEF Keys
  <2>4. d.users = db.users \cup {k[1] : k \in K} /\ d.items = db.items /\ d.feedback = db.feedback
    BY <1>2, <2>1
  <2>5. d \in Dbs /\ Covers(d, db)
    <3>1. d = [users |-> d.users, items |-> d.items, feedback |-> d.feedback]
      BY <1>2, <2>1
    <3>2. QED
      BY <1>2, <2>2, <2>4, <3>1 DEF Dbs, Covers
  <2>6. QED
    BY <1>4, <2>3, <2>4, <2>5
<1>5. CASE t = "Item"
  <2>1. d = [db EXCEPT !.items = @ \cup {k[1] : k \in K}]
    BY <1>3, <1>5 DEF Inserted
  <2>2. \A k \in K : k[1] \in BackupItems
    BY <1>1, <1>3, <1>5, LinesAre DEF Keys
  <2>3. \A b \in DOMAIN s : s[b].key \in K
    BY <1>3 DEF Keys
  <2>4. d.items = db.items \cup {k[1] : k \in K} /\ d.users = db.users /\ d.feedback = db.feedback
    BY <1>2, <2>1
  <2>5. d \in Dbs /\ Covers(d, db)
    <3>1. d = [users |-> d.users, items |-> d.items, feedback |-> d.feedback]
      BY <1>2, <2>1
    <3>2. QED
      BY <1>2, <2>2, <2>4, <3>1 DEF Dbs, Covers
  <2>6. QED
    BY <1>5, <2>3, <2>4, <2>5
<1>6. CASE t = "Feedback"
  <2>1. PICK U, I : /\ U = IF insert THEN db.users \cup {k[1] : k \in K} ELSE db.users
                    /\ I = IF insert THEN db.items \cup {k[2] : k \in K} ELSE db.items
    OBVIOUS
  <2>2. d = [users |-> U, items |-> I, feedback |-> db.feedback \cup {k \in K : k[1] \in U /\ k[2] \in I}]
    BY <1>3, <1>6, <2>1 DEF Inserted
  <2>3. \A k \in K : k \in BackupUsers \X BackupItems \X {Now, Now + 1} /\ k[1] \in BackupUsers /\ k[2] \in BackupItems
    BY <1>1, <1>3, <1>6, LinesAre DEF Keys
  <2>4. \A b \in DOMAIN s : s[b].key \in K
    BY <1>3 DEF Keys
  <2>5. /\ U \subseteq BackupUsers /\ I \subseteq BackupItems /\ db.users \subseteq U /\ db.items \subseteq I
        /\ insert => \A k \in K : k[1] \in U /\ k[2] \in I
    BY <1>2, <2>1, <2>3
  <2>6. d \in Dbs /\ Covers(d, db)
    BY <1>2, <2>2, <2>3, <2>5 DEF Dbs, Covers
  <2>7. QED
    BY <1>6, <2>2, <2>4, <2>5, <2>6
<1>7. QED
  BY <1>4, <1>5, <1>6 DEF Kinds

\* What a store holds of a line of the file.
Holds(k, d) == /\ file[k].tag = "User" => file[k].key[1] \in d.users
               /\ file[k].tag = "Item" => file[k].key[1] \in d.items
HoldsFeedback(k, d) == file[k].tag = "Feedback" => file[k].key \in d.feedback
Undisturbed == (reading = "restore" /\ dumped.clean) \/ (reading = "import" /\ auto)
Inserting == reading = "import" /\ auto

\* A batch that goes into the store leaves nothing out: all that was read until then is stored.
LEMMA FlushStores ==
  ASSUME BackupInv, reading # "no", stage \in Kinds, NEW n \in Nat, n <= position, n <= Len(file), position - 1 <= n,
         NEW s \in Seq(Lines), \A b \in DOMAIN s : s[b].tag = stage /\ \E k \in 1 .. n : s[b] = file[k],
         \A b \in DOMAIN batch : \E c \in DOMAIN s : s[c] = batch[b],
         n = position => \E c \in DOMAIN s : s[c] = file[n],
         NEW insert \in BOOLEAN, insert = Inserting, NEW d, d = Inserted(stage, s, insert)
  PROVE  d \in Dbs /\ \A k \in 1 .. n : Holds(k, d) /\ (Undisturbed => HoldsFeedback(k, d))
<1>1. /\ d \in Dbs /\ Covers(d, db)
      /\ \A b \in DOMAIN s :
           /\ s[b].tag = "User" => s[b].key[1] \in d.users
           /\ s[b].tag = "Item" => s[b].key[1] \in d.items
           /\ s[b].tag = "Feedback" /\ (insert \/ (s[b].key[1] \in db.users /\ s[b].key[2] \in db.items))
                => s[b].key \in d.feedback
  <2>1. db \in Dbs
    BY DEF BackupInv, BackupTypeOK
  <2>2. QED
    BY <2>1, InsertedGives
<1>2. position \in Nat /\ Len(file) \in Nat
  BY LenProperties DEF BackupInv, BackupTypeOK
<1>3. ASSUME NEW k \in 1 .. n PROVE k \in Passed \/ \E c \in DOMAIN s : s[c] = file[k]
  BY <1>2 DEF Passed
<1>4. BatchOK /\ EntitiesLoaded /\ (Undisturbed => FeedbackLoaded)
  BY DEF BackupInv, ReadInv, Undisturbed
<1>5. ASSUME NEW k \in 1 .. n PROVE Holds(k, d)
  <2>1. CASE \E c \in DOMAIN s : s[c] = file[k]
    BY <1>1, <2>1 DEF Holds
  <2>2. CASE k \in Passed /\ InBatch(k)
    BY <1>1, <2>2 DEF Holds, InBatch
  <2>3. CASE k \in Passed /\ ~InBatch(k)
    BY <1>1, <1>4, <2>3 DEF Holds, EntitiesLoaded, Covers
  <2>4. QED
    BY <1>3, <1>5, <2>1, <2>2, <2>3
<1>6. ASSUME Undisturbed, NEW k \in 1 .. n, file[k].tag = "Feedback", NEW c \in DOMAIN s, s[c] = file[k]
      PROVE  file[k].key \in d.feedback
  <2>1. CASE Inserting
    BY <1>1, <1>6, <2>1
  <2>2. CASE reading = "restore" /\ dumped.clean
    <3>1. stage = "Feedback" /\ FromDump
      BY <1>6, <2>2 DEF BackupInv, ReadInv, Kinds
    <3>2. OwnersBefore(k)
      BY <1>2, <1>6, <2>2, <3>1 DEF BackupInv, FileInv, OwnersFirst, Places
    <3>3. 1 .. k - 1 \subseteq Passed
      BY <1>2 DEF Passed
    <3>4. \A j \in Passed : file[j].tag # "Feedback" => ~InBatch(j)
      BY <1>4, <3>1 DEF BatchOK, InBatch
    <3>5. file[k].key[1] \in db.users /\ file[k].key[2] \in db.items
      BY <1>4, <3>2, <3>3, <3>4 DEF OwnersBefore, HasUser, HasItem, EntitiesLoaded
    <3>6. QED
      BY <1>1, <1>6, <3>5
  <2>3. QED
    BY <1>6, <2>1, <2>2 DEF Undisturbed, Inserting
<1>7. ASSUME Undisturbed, NEW k \in 1 .. n PROVE HoldsFeedback(k, d)
  <2>1. CASE \E c \in DOMAIN s : s[c] = file[k]
    BY <1>6, <1>7, <2>1 DEF HoldsFeedback
  <2>2. CASE k \in Passed /\ InBatch(k)
    BY <1>6, <1>7, <2>2 DEF HoldsFeedback, InBatch
  <2>3. CASE k \in Passed /\ ~InBatch(k)
    BY <1>1, <1>4, <1>7, <2>3 DEF HoldsFeedback, FeedbackLoaded, Covers
  <2>4. QED
    BY <1>3, <1>7, <2>1, <2>2, <2>3
<1>8. QED
  BY <1>1, <1>5, <1>7

\* The last batch of a stream, which may be empty, leaves nothing out either.
LEMMA LastBatchStores ==
  ASSUME BackupInv, reading # "no", NEW insert \in BOOLEAN, insert = Inserting,
         NEW d, d = IF batch # <<>> THEN Inserted(stage, batch, insert) ELSE db
  PROVE  d \in Dbs /\ \A k \in Passed : Holds(k, d) /\ (Undisturbed => HoldsFeedback(k, d))
<1>1. /\ db \in Dbs /\ position \in Nat \ {0} /\ Len(file) \in Nat /\ position <= Len(file) + 1
      /\ batch \in Seq(Lines) /\ stage \in {"none"} \cup Kinds
  BY LenProperties DEF BackupInv, BackupTypeOK
<1>2. BatchOK /\ EntitiesLoaded /\ (Undisturbed => FeedbackLoaded)
  BY DEF BackupInv, ReadInv, Undisturbed
<1>3. CASE batch = <<>>
  <2>1. \A k \in Passed : ~InBatch(k)
    BY <1>3 DEF InBatch
  <2>2. d = db
    BY <1>3
  <2>3. QED
    BY <1>1, <1>2, <2>1, <2>2 DEF Holds, HoldsFeedback, EntitiesLoaded, FeedbackLoaded
<1>4. CASE batch # <<>>
  <2>1. stage \in Kinds
    <3>1. stage # "none"
      <4>1. reading \in {"restore", "import"}
        BY DEF BackupInv, BackupTypeOK
      <4>2. QED
        BY <1>4, <4>1 DEF BackupInv, ReadInv
    <3>2. QED
      BY <1>1, <3>1
  <2>2. PICK n \in Nat : n = position - 1
    BY <1>1
  <2>3. n <= position /\ n <= Len(file) /\ position - 1 <= n /\ n # position /\ Passed = 1 .. n
    BY <1>1, <2>2 DEF Passed
  <2>4. \A b \in DOMAIN batch : batch[b].tag = stage /\ \E k \in 1 .. n : batch[b] = file[k]
    BY <1>2, <2>3 DEF BatchOK
  <2>5. d = Inserted(stage, batch, insert)
    BY <1>4
  <2>6. QED
    BY <1>1, <2>1, <2>3, <2>4, <2>5, FlushStores
<1>5. QED
  BY <1>3, <1>4

\* A line that is read goes into the batch, and a full batch into the store.
LEMMA LineKeeps ==
  ASSUME BackupInv, reading # "no", More, Next1.tag = stage, stage \in Kinds, NEW insert \in BOOLEAN, insert = Inserting,
         NEW b, b = Append(batch, Next1),
         db' = IF Len(b) = RestoreBatch THEN Inserted(stage, b, insert) ELSE db,
         batch' = IF Len(b) = RestoreBatch THEN <<>> ELSE b,
         position' = position + 1, UNCHANGED <<auto, file, dumping, dumped, reading, stage, outcome>>
  PROVE  BackupInv'
<1>1. /\ db \in Dbs /\ position \in Nat \ {0} /\ Len(file) \in Nat /\ position <= Len(file) /\ dumping = "done"
      /\ batch \in Seq(Lines) /\ Len(batch) \in Nat /\ file[position] \in Lines
  BY LenProperties DEF BackupInv, BackupTypeOK, More
<1>2. BatchOK /\ EntitiesLoaded /\ (Undisturbed => FeedbackLoaded)
  BY DEF BackupInv, ReadInv, Undisturbed
<1>16. PICK p \in Nat \ {0} : p = position
  BY <1>1
<1>3. /\ b \in Seq(Lines) /\ Len(b) = Len(batch) + 1 /\ b[Len(batch) + 1] = file[position]
      /\ \A c \in 1 .. Len(batch) : b[c] = batch[c]
  BY <1>1, AppendProperties DEF Next1
<1>4. DOMAIN b = 1 .. Len(batch) + 1 /\ DOMAIN batch = 1 .. Len(batch)
  BY <1>1, <1>3, LenProperties
<1>5. Passed' = 1 .. p /\ \A k \in 1 .. p : k \in Passed \/ k = p
  BY <1>1, <1>16 DEF Passed
<1>14. Passed \subseteq 1 .. p /\ p \in 1 .. p
  BY <1>1, <1>16 DEF Passed
<1>6. \A c \in DOMAIN b : b[c].tag = stage /\ \E k \in 1 .. p : b[c] = file[k]
  <2>1. ASSUME NEW c \in DOMAIN b, c \in DOMAIN batch PROVE b[c].tag = stage /\ \E k \in 1 .. p : b[c] = file[k]
    BY <1>2, <1>3, <1>4, <1>14, <2>1 DEF BatchOK
  <2>2. \A c \in DOMAIN b : c \in DOMAIN batch \/ c = Len(batch) + 1
    BY <1>1, <1>4
  <2>3. QED
    BY <1>3, <1>14, <1>16, <2>1, <2>2 DEF Next1
<1>7. /\ \A c \in DOMAIN batch : c \in DOMAIN b /\ b[c] = batch[c]
      /\ \E c \in DOMAIN b : b[c] = file[p]
  BY <1>1, <1>3, <1>4, <1>16
<1>8. db' \in Dbs /\ batch' \in Seq(Lines) /\ BatchOK' /\ EntitiesLoaded' /\ (Undisturbed => FeedbackLoaded')
  <2>1. CASE Len(b) = RestoreBatch
    <3>1. PICK d : d = Inserted(stage, b, insert)
      OBVIOUS
    <3>2. p <= position /\ p <= Len(file) /\ position - 1 <= p
      BY <1>1, <1>16
    <3>3. \A c \in DOMAIN batch : \E e \in DOMAIN b : b[e] = batch[c]
      BY <1>7
    <3>4. d \in Dbs /\ \A k \in 1 .. p : Holds(k, d) /\ (Undisturbed => HoldsFeedback(k, d))
      <4>1. p \in Nat /\ b \in Seq(Lines)
        BY <1>3, <1>16
      <4>2. QED
        BY <1>6, <1>7, <3>1, <3>2, <3>3, <4>1, FlushStores
    <3>5. db' = d /\ batch' = <<>>
      BY <2>1, <3>1
    <3>6. QED
      BY <1>5, <3>4, <3>5 DEF BatchOK, EntitiesLoaded, FeedbackLoaded, Holds, HoldsFeedback
  <2>2. CASE Len(b) # RestoreBatch
    <3>1. db' = db /\ batch' = b
      BY <2>2
    <3>2. \A k \in Passed : InBatch(k) => InBatch(k)'
      BY <1>7, <3>1 DEF InBatch
    <3>3. InBatch(p)'
      BY <1>7, <3>1 DEF InBatch
    <3>4. BatchOK'
      BY <1>5, <1>6, <3>1 DEF BatchOK
    <3>5. EntitiesLoaded'
      BY <1>2, <1>5, <3>1, <3>2, <3>3 DEF EntitiesLoaded
    <3>6. Undisturbed => FeedbackLoaded'
      BY <1>2, <1>5, <3>1, <3>2, <3>3 DEF FeedbackLoaded
    <3>7. QED
      BY <1>1, <1>3, <3>1, <3>4, <3>5, <3>6
  <2>3. QED
    BY <2>1, <2>2
<1>9. BackupTypeOK'
  <2>1. position' \in Nat \ {0} /\ position' <= Len(file') + 1
    BY <1>1
  <2>2. QED
    BY <1>1, <1>8, <2>1 DEF BackupInv, BackupTypeOK
<1>10. FileInv'
  <2>1. outcome' = "ok" => Ended
    BY DEF BackupInv, FileInv
  <2>2. dumping \in Dumping => db' = db
    BY <1>1 DEF Dumping
  <2>3. QED
    BY <2>1, <2>2, FileStays
<1>11. reading = "import" => \A k \in Passed' : file[k].tag = stage
  BY <1>5, <1>16 DEF BackupInv, ReadInv, Next1
<1>12. reading = "restore" => FromDump'
  BY DEF BackupInv, ReadInv, Kinds, FromDump, Places
<1>13. ReadInv'
  BY <1>8, <1>11, <1>12 DEF ReadInv, Undisturbed, Kinds
<1>15. QED
  BY <1>9, <1>10, <1>13 DEF BackupInv

\* Who reads a line of a dump or of an import keeps what is known.
LEMMA ReadersKeep == ASSUME BackupInv, readDump \/ importLine PROVE BackupInv'
<1>1. PICK b : b = Append(batch, Next1)
  OBVIOUS
<1>2. stage \in {"none"} \cup Kinds
  BY DEF BackupInv, BackupTypeOK
<1>3. PICK insert \in BOOLEAN : insert = Inserting
  BY DEF Inserting
<1>4. CASE readDump
  <2>1. stage \in Kinds /\ ~Inserting
    BY <1>2, <1>4 DEF readDump, Inserting
  <2>2. /\ db' = IF Len(b) = RestoreBatch THEN Inserted(stage, b, FALSE) ELSE db
        /\ insert = FALSE
    BY <1>1, <1>3, <1>4, <2>1 DEF readDump
  <2>3. /\ reading # "no" /\ More /\ Next1.tag = stage /\ position' = position + 1
        /\ batch' = IF Len(b) = RestoreBatch THEN <<>> ELSE b
        /\ UNCHANGED <<auto, file, dumping, dumped, reading, stage, outcome>>
    BY <1>1, <1>4 DEF readDump
  <2>4. db' = IF Len(b) = RestoreBatch THEN Inserted(stage, b, insert) ELSE db
    BY <2>2
  <2>5. QED
    BY <1>1, <1>3, <2>1, <2>3, <2>4, LineKeeps
<1>5. CASE importLine
  <2>1. stage \in Kinds
    BY <1>2, <1>5 DEF importLine, BackupInv, ReadInv
  <2>2. /\ db' = IF Len(b) = RestoreBatch THEN Inserted(stage, b, auto) ELSE db
        /\ insert = auto
    BY <1>1, <1>3, <1>5 DEF importLine, Inserting, BackupInv, BackupTypeOK
  <2>3. /\ reading # "no" /\ More /\ Next1.tag = stage /\ position' = position + 1
        /\ batch' = IF Len(b) = RestoreBatch THEN <<>> ELSE b
        /\ UNCHANGED <<auto, file, dumping, dumped, reading, stage, outcome>>
    BY <1>1, <1>5 DEF importLine
  <2>4. db' = IF Len(b) = RestoreBatch THEN Inserted(stage, b, insert) ELSE db
    BY <2>2
  <2>5. QED
    BY <1>1, <1>3, <2>1, <2>3, <2>4, LineKeeps
<1>6. QED
  BY <1>4, <1>5

\* A reading that ends leaves the store a database, and reports success of a complete dump only.
LEMMA EndKeeps ==
  ASSUME BackupInv, reading # "no", NEW result, result = "ok" => Ended, Ends(result), db' \in Dbs,
         UNCHANGED <<auto, file, dumping, dumped, position>>
  PROVE  BackupInv'
<1>1. dumping = "done"
  BY DEF BackupInv, BackupTypeOK
<1>2. BackupTypeOK'
  <2>1. batch' \in Seq(Lines)
    BY DEF Ends
  <2>2. QED
    BY <1>1, <2>1 DEF Ends, BackupInv, BackupTypeOK
<1>3. FileInv'
  BY <1>1, FileStays DEF Ends, Dumping
<1>4. ReadInv'
  BY DEF Ends, ReadInv
<1>5. QED
  BY <1>2, <1>3, <1>4 DEF BackupInv

\* A flag puts the last batch into the store and opens the next stream, or ends a restore of a complete dump.
LEMMA FlagKeeps ==
  ASSUME BackupInv, readFlag
  PROVE  /\ BackupInv' /\ reading = "restore" /\ More /\ UNCHANGED <<file, dumped>>
         /\ \A k \in Passed : Holds(k, db') /\ (dumped.clean => HoldsFeedback(k, db'))
         /\ outcome' = "ok" => Next1.tag = "EOF" \/ outcome = "ok"
<1>1. PICK d : d = IF batch # <<>> THEN Inserted(stage, batch, FALSE) ELSE db
  OBVIOUS
<1>2. db' = d /\ reading = "restore" /\ More /\ UNCHANGED <<auto, file, dumping, dumped>> /\ ~Inserting
  BY <1>1 DEF readFlag, Inserting
<1>3. d \in Dbs /\ \A k \in Passed : Holds(k, d) /\ (dumped.clean => HoldsFeedback(k, d))
  <2>1. PICK insert \in BOOLEAN : insert = FALSE
    OBVIOUS
  <2>2. d = IF batch # <<>> THEN Inserted(stage, batch, insert) ELSE db
    BY <1>1, <2>1
  <2>3. insert = Inserting /\ reading # "no"
    BY <1>2, <2>1 DEF Inserting
  <2>4. d \in Dbs /\ \A k \in Passed : Holds(k, d) /\ (Undisturbed => HoldsFeedback(k, d))
    BY <2>2, <2>3, LastBatchStores
  <2>5. QED
    BY <1>2, <2>4 DEF Undisturbed
<1>4. position \in Nat \ {0} /\ Len(file) \in Nat /\ position <= Len(file) /\ position \in Places /\ dumping = "done"
  BY <1>2, LenProperties DEF BackupInv, BackupTypeOK, More, Places
<1>5. CASE Next1.tag = "EOF"
  <2>1. Ended
    BY <1>4, <1>5 DEF Next1, BackupInv, FileInv, EndsOnce, Ended
  <2>2. Ends("ok") /\ UNCHANGED position
    BY <1>5 DEF readFlag
  <2>3. BackupInv'
    BY <1>2, <1>3, <2>1, <2>2, EndKeeps
  <2>4. QED
    BY <1>2, <1>3, <1>5, <2>3
<1>6. CASE Next1.tag # "EOF"
  <2>1. /\ stage' = Streams[Next1.tag] /\ batch' = <<>> /\ position' = position + 1 /\ UNCHANGED <<reading, outcome>>
        /\ Next1.tag \in DOMAIN Streams
    BY <1>6 DEF readFlag
  <2>2. stage' \in Kinds /\ Next1.tag \notin Kinds
    BY <2>1 DEF Streams, Kinds
  <2>3. BackupTypeOK'
    <3>1. position' \in Nat \ {0} /\ position' <= Len(file') + 1 /\ batch' \in Seq(Lines)
      BY <1>2, <1>4, <2>1
    <3>2. QED
      BY <1>2, <1>3, <1>4, <2>1, <2>2, <3>1 DEF BackupInv, BackupTypeOK
  <2>4. FileInv'
    <3>1. outcome' = "ok" => Ended
      BY <2>1 DEF BackupInv, FileInv
    <3>2. QED
      BY <1>2, <1>4, <3>1, FileStays DEF Dumping
  <2>5. \A k \in Passed' : k \in Passed \/ k = position
    BY <1>4, <2>1 DEF Passed
  <2>6. BatchOK' /\ EntitiesLoaded' /\ (dumped.clean => FeedbackLoaded')
    <3>1. \A k \in Passed' : Holds(k, d) /\ (dumped.clean => HoldsFeedback(k, d))
      BY <1>3, <2>2, <2>5 DEF Holds, HoldsFeedback, Next1, Kinds
    <3>2. DOMAIN batch' = {}
      BY <2>1
    <3>3. QED
      BY <1>2, <3>1, <3>2 DEF BatchOK, EntitiesLoaded, FeedbackLoaded, Holds, HoldsFeedback
  <2>7. FromDump'
    BY <1>2, <1>4, <2>1 DEF FromDump, Next1, Places
  <2>8. ReadInv'
    BY <1>2, <2>1, <2>2, <2>6, <2>7 DEF ReadInv, Kinds
  <2>9. BackupInv'
    BY <2>3, <2>4, <2>8 DEF BackupInv
  <2>10. QED
    BY <1>2, <1>3, <2>1, <2>9
<1>7. QED
  BY <1>5, <1>6

\* An import that reaches the end has stored every line it passed, which are all.
LEMMA ImportEndKeeps ==
  ASSUME BackupInv, importEnds
  PROVE  /\ BackupInv' /\ UNCHANGED <<file, auto>>
         /\ \A k \in 1 .. Len(file) : Holds(k, db') /\ (auto => HoldsFeedback(k, db')) /\ file[k].tag \in Kinds
<1>1. PICK d : d = IF batch # <<>> THEN Inserted(stage, batch, auto) ELSE db
  OBVIOUS
<1>2. db' = d /\ reading = "import" /\ ~More /\ UNCHANGED <<auto, file, dumping, dumped, position>> /\ Ends("imported")
  BY <1>1 DEF importEnds
<1>3. auto \in BOOLEAN /\ auto = Inserting
  BY <1>2 DEF Inserting, BackupInv, BackupTypeOK
<1>4. d \in Dbs /\ \A k \in Passed : Holds(k, d) /\ (Undisturbed => HoldsFeedback(k, d))
  BY <1>1, <1>2, <1>3, LastBatchStores
<1>5. BackupInv'
  BY <1>2, <1>4, EndKeeps
<1>6. 1 .. Len(file) \subseteq Passed
  <2>1. position \in Nat /\ Len(file) \in Nat /\ ~(position <= Len(file))
    BY <1>2, LenProperties DEF BackupInv, BackupTypeOK, More
  <2>2. QED
    BY <2>1 DEF Passed
<1>7. \A k \in Passed : file[k].tag \in Kinds
  BY <1>2 DEF BackupInv, ReadInv, BackupTypeOK
<1>8. QED
  BY <1>2, <1>3, <1>4, <1>5, <1>6, <1>7 DEF Undisturbed

\* A reading that fails leaves the store as it is.
LEMMA FailureKeeps == ASSUME BackupInv, restoreFails \/ importFails PROVE BackupInv'
<1>1. reading # "no" /\ Ends("failed") /\ UNCHANGED <<db, auto, file, dumping, dumped, position>>
  BY DEF restoreFails, importFails
<1>2. db' \in Dbs
  BY <1>1 DEF BackupInv, BackupTypeOK
<1>3. QED
  BY <1>1, <1>2, EndKeeps

\* A store, no file, and nobody who reads.
LEMMA BackupStart == ASSUME BackupInit PROVE BackupInv
<1>1. db \in Dbs
  BY DEF BackupInit, Databases, Dbs
<1>2. dumped \in [db : Dbs, clean : BOOLEAN] /\ ~dumped.clean
  BY DEF BackupInit, Empty, Dbs
<1>3. file \in Seq(Lines) /\ Len(file) = 0 /\ batch \in Seq(Lines) /\ Places = {}
  BY DEF BackupInit, Places
<1>4. BackupTypeOK
  BY <1>1, <1>2, <1>3 DEF BackupInit, BackupTypeOK
<1>5. FileInv
  BY <1>2, <1>3 DEF BackupInit, FileInv, EndsOnce
<1>6. ReadInv
  BY DEF BackupInit, ReadInv
<1>7. QED
  BY <1>4, <1>5, <1>6 DEF BackupInv

\* Every step keeps the invariant.
LEMMA BackupKeeps == ASSUME BackupInv, [BackupNext]_backupVars PROVE BackupInv'
<1>1. CASE UNCHANGED backupVars
  BY <1>1 DEF backupVars, BackupInv, BackupTypeOK, FileInv, EndsOnce, UsersDumped, ItemsDumped, FeedbackDumped, OwnersFirst,
     OwnersBefore, Places, Ended, FromDump, HasUser, HasItem, HasFeedback, ReadInv, BatchOK, EntitiesLoaded, FeedbackLoaded,
     InBatch, Passed
<1>2. CASE BackupNext
  BY <1>2, DumpKeeps, UsersKeep, ItemsKeep, FeedbackKeep, EOFKeeps, DumpFailureKeeps, RestoreBeginKeeps, ReadersKeep,
     FlagKeeps, FailureKeeps, ImportBeginKeeps, ImportEndKeeps, PurgeKeeps, InsertKeeps DEF BackupNext
<1>3. QED
  BY <1>1, <1>2

\* A restore that reports success has stored every line before the EOF, and these are all that the store held.
LEMMA RestoreStep == ASSUME BackupInv, [BackupNext]_backupVars PROVE RestoreBringsBack
<1>1. SUFFICES ASSUME outcome = "running", outcome' = "ok", dumped.clean
               PROVE  Covers(db', [dumped.db EXCEPT !.feedback = Until(@)])
  BY DEF RestoreBringsBack
<1>2. readFlag
  BY <1>1 DEF BackupNext, backupVars, dump, dumpUsers, dumpItems, dumpFeedback, dumpEOF, Dumps, dumpFails, restoreBegins,
     readDump, restoreFails, importBegins, importLine, importEnds, importFails, purge, InsertFeedback, Ends
<1>3. PICK d : d = db'
  OBVIOUS
<1>4. /\ BackupInv' /\ More /\ UNCHANGED <<file, dumped>> /\ Next1.tag = "EOF"
      /\ \A k \in Passed : Holds(k, d) /\ HoldsFeedback(k, d)
  BY <1>1, <1>2, <1>3, FlagKeeps
<1>5. position \in Nat \ {0} /\ Len(file) \in Nat /\ position = Len(file) /\ dumped.db \in Dbs
  BY <1>4, LenProperties DEF BackupInv, BackupTypeOK, FileInv, EndsOnce, More, Next1, Places
<1>6. Ended
  BY <1>4, <1>5 DEF Ended, Next1
<1>7. UsersDumped /\ ItemsDumped /\ FeedbackDumped
  BY <1>1, <1>6 DEF BackupInv, FileInv
<1>8. \A k \in Places : file[k].tag # "EOF" => k \in Passed
  BY <1>4, <1>5 DEF Places, Passed, Next1
<1>9. dumped.db.users \subseteq d.users
  BY <1>4, <1>7, <1>8 DEF UsersDumped, HasUser, Holds
<1>10. dumped.db.items \subseteq d.items
  BY <1>4, <1>7, <1>8 DEF ItemsDumped, HasItem, Holds
<1>11. Until(dumped.db.feedback) \subseteq d.feedback
  BY <1>4, <1>7, <1>8 DEF FeedbackDumped, HasFeedback, HoldsFeedback
<1>12. PICK e : e = [dumped.db EXCEPT !.feedback = Until(@)]
  OBVIOUS
<1>13. e.users = dumped.db.users /\ e.items = dumped.db.items /\ e.feedback = Until(dumped.db.feedback)
  BY <1>5, <1>12 DEF Dbs
<1>14. QED
  BY <1>3, <1>9, <1>10, <1>11, <1>12, <1>13 DEF Covers

\* An import that reports success has reached the end of its file.
LEMMA ImportStep == ASSUME BackupInv, [BackupNext]_backupVars PROVE ImportIsComplete
<1>1. SUFFICES ASSUME reading = "import", reading' = "no", outcome' # "failed", NEW k \in DOMAIN file
               PROVE  CASE file[k].tag = "User" -> file[k].key[1] \in db'.users
                        [] file[k].tag = "Item" -> file[k].key[1] \in db'.items
                        [] file[k].tag = "Feedback" -> auto => file[k].key \in db'.feedback
  BY DEF ImportIsComplete
<1>2. importEnds
  BY <1>1 DEF BackupNext, backupVars, dump, Idle, dumpUsers, dumpItems, dumpFeedback, dumpEOF, Dumps, dumpFails, restoreBegins,
     readDump, readFlag, restoreFails, importBegins, importLine, importFails, purge, InsertFeedback, Ends
<1>3. k \in 1 .. Len(file)
  BY <1>1 DEF BackupInv, BackupTypeOK
<1>4. Holds(k, db') /\ (auto => HoldsFeedback(k, db')) /\ file[k].tag \in Kinds
  BY <1>2, <1>3, ImportEndKeeps
<1>5. QED
  BY <1>4 DEF Holds, HoldsFeedback, Kinds

(***************************************************************************)
(* A restore that reports success has read a complete dump and brings back *)
(* all that a dump nobody disturbed covers; an import that reports success *)
(* has stored every line of its file, feedback without its owners aside    *)
(* unless these are inserted too: for any data, any batch size, and a dump *)
(* or a reading that fails at any point.                                   *)
(***************************************************************************)
THEOREM BackupIsCompleteAlways == BackupSpec => BackupIsComplete
<1>1. BackupInit => BackupInv
  BY BackupStart
<1>2. BackupInv /\ [BackupNext]_backupVars => BackupInv'
  BY BackupKeeps
<1>3. BackupInv' => RestoredIsComplete'
  BY DEF BackupInv, FileInv, Ended, RestoredIsComplete, Last
<1>4. BackupInv /\ BackupInv' /\ [BackupNext]_backupVars
        => [RestoredIsComplete' /\ RestoreBringsBack /\ ImportIsComplete]_backupVars
  BY <1>3, RestoreStep, ImportStep
<1>5. QED
  BY <1>1, <1>2, <1>4, PTL DEF BackupSpec, BackupIsComplete
=============================================================================
