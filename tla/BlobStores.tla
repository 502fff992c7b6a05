----------------------------- MODULE BlobStores -----------------------------
(***************************************************************************)
(* The blob stores behind blob.Store: a directory (posix), S3, GCS, Azure  *)
(* and the upload service of the master.  One process writes successive    *)
(* versions of a blob, piece by piece, into the pipe that Create returns,  *)
(* closes it and waits for the done channel, as the trainers of the master *)
(* do; a goroutine of the store carries the pieces on; another process     *)
(* opens and reads the blob at any time.                                   *)
(*                                                                         *)
(* A blob is the sequence of the versions its pieces belong to, <<>> when  *)
(* there is none.  A pipe hands over one piece at a time and does not      *)
(* buffer.  MaxVersion and MaxReads bound the work, MaxFaults the failures *)
(* of the medium or of the encoder.                                        *)
(***************************************************************************)
EXTENDS Integers, Sequences

CONSTANTS NPieces, MaxVersion, MaxReads, MaxFaults

VARIABLES backend, version, blobWriter, handed, copier, spool, stored, done,
          stamp, clock, refused, faults, faulted,
          reader, reads, torn

blobVars == <<backend, version, blobWriter, handed, copier, spool, stored, done,
              stamp, clock, refused, faults, faulted, reader, reads, torn>>
writeVars == <<backend, version, blobWriter, handed, copier, spool, stored, done,
               stamp, clock, refused, faults, faulted>>

Whole(s) == Len(s) = NPieces /\ \A i, j \in 1 .. Len(s) : s[i] = s[j]

BlobInit ==
  /\ backend \in {"posix", "s3", "gcs", "azure", "upload"}
  /\ version = 0 /\ blobWriter = "idle" /\ handed = 0 /\ copier = "none" /\ spool = <<>>
  /\ stored = [i \in 1 .. NPieces |-> 0] /\ done = FALSE
  /\ stamp = 0 /\ clock = 1 /\ refused = FALSE /\ faults = 0 /\ faulted = FALSE
  /\ reader = [at |-> "none", live |-> FALSE, file |-> <<>>, got |-> <<>>]
  /\ reads = 0 /\ torn = FALSE

-----------------------------------------------------------------------------
(* Create.  A goroutine left behind by a failed encoder waits on its own   *)
(* pipe for ever and does nothing more.                                    *)

Create(c) ==
  /\ blobWriter = "idle" /\ version < MaxVersion
  /\ version' = version + 1
  /\ blobWriter' = "writing" /\ handed' = 0 /\ copier' = c /\ spool' = <<>> /\ done' = FALSE
  /\ stamp' = 0 /\ refused' = FALSE /\ faulted' = FALSE
  /\ UNCHANGED <<backend, clock, faults, reader, reads>>

(* os.Create truncates the file that a reader may have open. *)
PosixCreate == backend = "posix" /\ Create("reading") /\ stored' = <<>> /\ torn' = (torn \/ reader.at # "none")
S3Create == backend = "s3" /\ Create("reading") /\ UNCHANGED <<stored, torn>>
AzureCreate == backend = "azure" /\ Create("reading") /\ UNCHANGED <<stored, torn>>
(* There is no pipe: the writer is the client library's own. *)
GCSCreate == backend = "gcs" /\ Create("direct") /\ UNCHANGED <<stored, torn>>
ClientCreate == backend = "upload" /\ Create("reading") /\ UNCHANGED <<stored, torn>>

(* The encoder writes a piece: the goroutine must be there to read it. *)
Write ==
  /\ blobWriter = "writing" /\ handed < NPieces
  /\ copier \in {"reading", "direct"}
  /\ handed' = handed + 1
  /\ IF copier = "reading" THEN copier' = "holding" /\ UNCHANGED spool
     ELSE spool' = Append(spool, version) /\ UNCHANGED copier
  /\ UNCHANGED <<backend, version, blobWriter, stored, done, stamp, clock, refused, faults, faulted,
                 reader, reads, torn>>

(* The encoder fails: the trainer returns without closing the pipe. *)
MarshalFails ==
  /\ blobWriter = "writing" /\ faults < MaxFaults
  /\ faults' = faults + 1 /\ faulted' = TRUE
  /\ blobWriter' = "idle"
  /\ copier' = "none"
  /\ UNCHANGED <<backend, version, handed, spool, stored, done, stamp, clock, refused, reader, reads, torn>>

Close ==
  /\ blobWriter = "writing" /\ handed = NPieces
  /\ blobWriter' = "closed"
  /\ UNCHANGED <<backend, version, handed, copier, spool, stored, done, stamp, clock, refused, faults, faulted,
                 reader, reads, torn>>

(* Writer.Close of GCS commits the object, or fails, and closes done. *)
GCSClose(fails) ==
  /\ backend = "gcs" /\ blobWriter = "closed" /\ copier = "direct"
  /\ fails => faults < MaxFaults
  /\ faults' = IF fails THEN faults + 1 ELSE faults
  /\ faulted' = (faulted \/ fails)
  /\ stored' = IF fails THEN stored ELSE spool
  /\ copier' = "ended" /\ done' = TRUE
  /\ UNCHANGED <<backend, version, blobWriter, handed, spool, stamp, clock, refused, reader, reads, torn>>

Await ==
  /\ blobWriter = "closed" /\ done
  /\ blobWriter' = "idle"
  /\ UNCHANGED <<backend, version, handed, copier, spool, stored, done, stamp, clock, refused, faults, faulted,
                 reader, reads, torn>>

-----------------------------------------------------------------------------
(* The goroutine of the store.                                             *)

Carry ==
  /\ copier = "holding" /\ copier' = "reading"
  /\ UNCHANGED <<backend, version, blobWriter, handed, done, clock, faults, faulted, reader, reads, torn>>
PosixCopy == backend = "posix" /\ Carry /\ stored' = Append(stored, version) /\ UNCHANGED <<spool, stamp, refused>>
PutObject == backend \in {"s3", "azure"} /\ Carry /\ spool' = Append(spool, version)
             /\ UNCHANGED <<stored, stamp, refused>>
\* Mutant of Send: the server writes the file under its own name.
SendInPlace ==
  /\ backend = "upload" /\ ~refused /\ Carry
  /\ IF stamp \in {0, clock} THEN stamp' = clock /\ spool' = Append(spool, version) /\ UNCHANGED refused
     ELSE refused' = TRUE /\ UNCHANGED <<stamp, spool>>
  /\ stored' = Append(spool, version)
(* Every request carries the time it is sent at, and the server refuses an *)
(* upload whose times differ; the client's Send has returned by then.      *)
Send ==
  /\ backend = "upload" /\ ~refused /\ Carry
  /\ IF stamp \in {0, clock} THEN stamp' = clock /\ spool' = Append(spool, version) /\ UNCHANGED refused
     ELSE refused' = TRUE /\ UNCHANGED <<stamp, spool>>
  /\ UNCHANGED stored
Tick ==
  /\ clock < NPieces /\ copier = "holding" /\ backend = "upload"
  /\ clock' = clock + 1
  /\ UNCHANGED <<backend, version, blobWriter, handed, copier, spool, stored, done, stamp, refused, faults,
                 faulted, reader, reads, torn>>

(* The disk or the network fails, or the server has given up: the error is *)
(* logged, done is closed and the pipe has no reader any more.             *)
CopyFails ==
  /\ copier = "holding" /\ (refused \/ faults < MaxFaults)
  /\ faults' = IF refused THEN faults ELSE faults + 1
  /\ faulted' = TRUE
  /\ copier' = "ended" /\ done' = TRUE
  /\ UNCHANGED <<backend, version, blobWriter, handed, spool, stored, stamp, clock, refused, reader, reads, torn>>

(* The end of the pipe. *)
\* Mutant of EndPipe: done is closed only when the pieces were stored.
EndPipeOnSuccess(blob) ==
  /\ copier = "reading" /\ blobWriter = "closed"
  /\ copier' = "ended" /\ done' = ~refused
  /\ stored' = blob
  /\ UNCHANGED <<backend, version, blobWriter, handed, spool, stamp, clock, refused, faults, faulted,
                 reader, reads, torn>>
EndPipe(blob) ==
  /\ copier = "reading" /\ blobWriter = "closed"
  /\ copier' = "ended" /\ done' = TRUE
  /\ stored' = blob
  /\ UNCHANGED <<backend, version, blobWriter, handed, spool, stamp, clock, refused, faults, faulted,
                 reader, reads, torn>>
PosixEnd == backend = "posix" /\ EndPipe(stored)
S3End == backend \in {"s3", "azure"} /\ EndPipe(spool)
(* The server renames its temporary file when the stream has ended well. *)
UploadEnd == backend = "upload" /\ EndPipe(IF refused THEN stored ELSE spool)

-----------------------------------------------------------------------------
(* Readers.  A file that is being read is the same file even when a rename *)
(* or a removal has taken its name away.                                   *)

Opened(live) ==
  /\ reader.at = "none" /\ reads < MaxReads /\ stored # <<>>
  /\ reader' = [at |-> "open", live |-> live, file |-> stored, got |-> <<>>]
  /\ reads' = reads + 1
  /\ UNCHANGED writeVars
PosixOpen == backend = "posix" /\ Opened(TRUE) /\ torn' = (blobWriter # "idle" \/ ~Whole(stored))
S3Open == backend = "s3" /\ Opened(FALSE) /\ UNCHANGED torn
GCSOpen == backend = "gcs" /\ Opened(FALSE) /\ UNCHANGED torn
AzureOpen == backend = "azure" /\ Opened(FALSE) /\ UNCHANGED torn
DownloadBlob == backend = "upload" /\ Opened(FALSE) /\ UNCHANGED torn

Read ==
  LET src == IF reader.live THEN stored ELSE reader.file
  IN /\ reader.at = "open"
     /\ reader' = IF Len(reader.got) < Len(src) THEN [reader EXCEPT !.got = Append(@, src[Len(@) + 1])]
                  ELSE [reader EXCEPT !.at = "read"]
     /\ UNCHANGED <<writeVars, reads, torn>>
ReaderLeaves ==
  /\ reader.at = "read"
  /\ reader' = [at |-> "none", live |-> FALSE, file |-> <<>>, got |-> <<>>]
  /\ torn' = FALSE
  /\ UNCHANGED <<writeVars, reads>>

RemoveFile ==
  /\ blobWriter = "idle" /\ stored # <<>>
  /\ stored' = <<>>
  /\ reader' = IF reader.live THEN [reader EXCEPT !.live = FALSE, !.file = stored] ELSE reader
  /\ UNCHANGED <<backend, version, blobWriter, handed, copier, spool, done, stamp, clock, refused, faults, faulted,
                 reads, torn>>

-----------------------------------------------------------------------------
StoreSteps ==
  \/ PosixCopy \/ PutObject \/ Send \/ CopyFails \/ PosixEnd \/ S3End \/ UploadEnd
  \/ \E fails \in BOOLEAN : GCSClose(fails)
BlobNext ==
  \/ PosixCreate \/ S3Create \/ AzureCreate \/ GCSCreate \/ ClientCreate
  \/ Write \/ MarshalFails \/ Close \/ Await \/ StoreSteps \/ Tick
  \/ PosixOpen \/ S3Open \/ GCSOpen \/ AzureOpen \/ DownloadBlob \/ Read \/ ReaderLeaves
  \/ RemoveFile
(* The trainer and the goroutine of the store keep running. *)
BlobFairness == WF_blobVars(Write \/ Close \/ Await) /\ WF_blobVars(StoreSteps)
BlobSpec == BlobInit /\ [][BlobNext]_blobVars /\ BlobFairness

-----------------------------------------------------------------------------
(***************************************************************************)
(* A reader gets one version from the first piece to the last, whatever    *)
(* was created, renamed or removed meanwhile.  The directory store makes   *)
(* no such promise while its file is being written, or after a failed      *)
(* write: torn.                                                            *)
(***************************************************************************)
ReadIsWhole == reader.at = "read" => torn \/ Whole(reader.got)

(***************************************************************************)
(* A trainer that has begun to write gets to the end of it, unless the     *)
(* store failed: then it may wait for ever for a reader of the pipe.       *)
(***************************************************************************)
Writing == blobWriter # "idle"
WroteOrStuck == blobWriter = "idle" \/ (faulted /\ blobWriter = "writing")
WriteEnds == Writing ~> WroteOrStuck
=============================================================================
