------------------------------- MODULE Backup -------------------------------
(***************************************************************************)
(* Dump and restore, import and export, and purge of the data (dashboard   *)
(* API, master/rest.go).  A dump is the stream of users, then of items,    *)
(* then of feedback, each behind a flag, and a final EOF; it is written    *)
(* while the servers go on inserting.  A read that fails in the middle     *)
(* writes its message into the file, a broken connection truncates it.     *)
(* Restore and the imports insert in batches and stop at the first record  *)
(* they cannot use.                                                        *)
(*                                                                         *)
(* A record is [tag, key]; the key of feedback is <<user, item, time>>.    *)
(* Restore drops feedback whose user or item is missing, for it inserts    *)
(* neither.  MaxInserts bounds the concurrent inserts.                     *)
(***************************************************************************)
EXTENDS Naturals, Sequences, FiniteSets, SequencesExt

CONSTANTS BackupUsers, BackupItems, Now, RestoreBatch, MaxInserts

\* A store holds finitely many users and items.
ASSUME BackupAssumption == IsFiniteSet(BackupUsers) /\ IsFiniteSet(BackupItems) /\ Now \in Nat

VARIABLES db, auto, file, dumping, dumped, reading, position, batch, stage, lines, outcome, inserts

backupVars == <<db, auto, file, dumping, dumped, reading, position, batch, stage, lines, outcome, inserts>>

Empty == [users |-> {}, items |-> {}, feedback |-> {}]
Databases == {d \in [users : SUBSET BackupUsers, items : SUBSET BackupItems, feedback : SUBSET (BackupUsers \X BackupItems \X {Now, Now + 1})] :
                d.feedback = {} \/ d.feedback = d.users \X d.items \X {Now} \/ d.feedback = d.users \X d.items \X {Now, Now + 1}}
Flag(t) == [tag |-> t, key |-> <<>>]

BackupInit ==
  /\ db \in Databases /\ auto \in BOOLEAN
  /\ file = <<>> /\ dumping = "no" /\ dumped = [db |-> Empty, clean |-> FALSE]
  /\ reading = "no" /\ position = 1 /\ batch = <<>> /\ stage = "none" /\ lines = 0 /\ outcome = "none" /\ inserts = 0

Idle == dumping \in {"no", "done"} /\ reading = "no"

-----------------------------------------------------------------------------
(* dump.  The flag of a stream and its records; a stream is one query.      *)
Records(t, S) == LET s == SetToSeq(S) IN [k \in DOMAIN s |-> [tag |-> t, key |-> s[k]]]
Until(F) == {f \in F : f[3] <= Now}

Dumps(from, to, flag, records) ==
  /\ dumping = from /\ dumping' = to
  /\ file' = file \o <<flag>> \o records
  /\ UNCHANGED <<db, auto, dumped, reading, position, batch, stage, lines, outcome, inserts>>

dump ==
  /\ Idle /\ dumping = "no" /\ dumping' = "users"
  /\ file' = <<>> /\ dumped' = [db |-> db, clean |-> TRUE]
  /\ UNCHANGED <<db, auto, reading, position, batch, stage, lines, outcome, inserts>>

dumpUsers == Dumps("users", "items", Flag("UserStream"), Records("User", {<<u>> : u \in db.users}))
dumpItems == Dumps("items", "feedback", Flag("ItemStream"), Records("Item", {<<i>> : i \in db.items}))
dumpFeedback == Dumps("feedback", "eof", Flag("FeedbackStream"), Records("Feedback", Until(db.feedback)))
dumpEOF == Dumps("eof", "done", Flag("EOF"), <<>>)

(* A stream fails after some of its records: the message goes into the      *)
(* answer, whose status has long been sent.  Or the connection breaks.      *)
dumpFails ==
  /\ dumping \in {"users", "items", "feedback", "eof"} /\ dumping' = "done"
  /\ \E message \in BOOLEAN : \E cut \in 0..Len(file) :
       /\ message => cut = Len(file)
       /\ file' = IF message THEN Append(file, Flag("message")) ELSE SubSeq(file, 1, cut)
  /\ UNCHANGED <<db, auto, dumped, reading, position, batch, stage, lines, outcome, inserts>>

-----------------------------------------------------------------------------
(* BatchInsertUsers, BatchInsertItems and BatchInsertFeedback. *)
Keys(s) == {s[k].key : k \in DOMAIN s}
Inserted(t, s, insert) ==
  CASE t = "User" -> [db EXCEPT !.users = @ \cup {k[1] : k \in Keys(s)}]
    [] t = "Item" -> [db EXCEPT !.items = @ \cup {k[1] : k \in Keys(s)}]
    [] t = "Feedback" ->
         LET U == IF insert THEN db.users \cup {k[1] : k \in Keys(s)} ELSE db.users
             I == IF insert THEN db.items \cup {k[2] : k \in Keys(s)} ELSE db.items
         IN [users |-> U, items |-> I, feedback |-> db.feedback \cup {k \in Keys(s) : k[1] \in U /\ k[2] \in I}]

Ends(result) == reading' = "no" /\ outcome' = result /\ batch' = <<>> /\ stage' = "none"

restoreBegins ==
  /\ Idle /\ dumping = "done" /\ reading' = "restore" /\ position' = 1 /\ batch' = <<>> /\ stage' = "none"
  /\ outcome' = "running" /\ lines' = 0
  /\ UNCHANGED <<db, auto, file, dumping, dumped, inserts>>

More == position <= Len(file)
Next1 == file[position]
Streams == [UserStream |-> "User", ItemStream |-> "Item", FeedbackStream |-> "Feedback"]

(* A record of the stream, which is inserted with the others of its batch.  *)
readDump ==
  /\ reading = "restore" /\ More /\ stage # "none" /\ Next1.tag = stage
  /\ LET b == Append(batch, Next1) IN
     /\ db' = IF Len(b) = RestoreBatch THEN Inserted(stage, b, FALSE) ELSE db
     /\ batch' = IF Len(b) = RestoreBatch THEN <<>> ELSE b
  /\ position' = position + 1
  /\ UNCHANGED <<auto, file, dumping, dumped, reading, stage, lines, outcome, inserts>>

\* Mutant of readFlag: the end of the file ends a restore as its EOF does.
readFlagOrEnd ==
  /\ reading = "restore" /\ (More => Next1.tag \in DOMAIN Streams \cup {"EOF"})
  /\ db' = IF batch # <<>> THEN Inserted(stage, batch, FALSE) ELSE db
  /\ IF ~More \/ Next1.tag = "EOF" THEN Ends("ok") /\ UNCHANGED position
     ELSE stage' = Streams[Next1.tag] /\ batch' = <<>> /\ position' = position + 1 /\ UNCHANGED <<reading, outcome>>
  /\ UNCHANGED <<auto, file, dumping, dumped, lines, inserts>>

(* A flag: the last batch of the stream before it, then the next stream or  *)
(* the end.                                                                 *)
readFlag ==
  /\ reading = "restore" /\ More /\ Next1.tag \in DOMAIN Streams \cup {"EOF"}
  /\ db' = IF batch # <<>> THEN Inserted(stage, batch, FALSE) ELSE db
  /\ IF Next1.tag = "EOF" THEN Ends("ok") /\ UNCHANGED position
     ELSE stage' = Streams[Next1.tag] /\ batch' = <<>> /\ position' = position + 1 /\ UNCHANGED <<reading, outcome>>
  /\ UNCHANGED <<auto, file, dumping, dumped, lines, inserts>>

(* The file ends, or the message is read as a size: the batch is lost.  Or  *)
(* an insert fails.                                                         *)
restoreFails ==
  /\ reading = "restore" /\ Ends("failed")
  /\ (More /\ Next1.tag # "message") => batch # <<>>
  /\ UNCHANGED <<db, auto, file, dumping, dumped, position, lines, inserts>>

-----------------------------------------------------------------------------
(* importExportUsers, Items and Feedback.  An export is the records of one  *)
(* stream; an import reads lines until the end of the file, and a line that *)
(* does not parse or validate ends it.                                      *)
Exported(t) ==
  CASE t = "User" -> Records("User", {<<u>> : u \in db.users})
    [] t = "Item" -> Records("Item", {<<i>> : i \in db.items})
    [] t = "Feedback" -> Records("Feedback", Until(db.feedback))

importBegins ==
  /\ Idle /\ dumping = "no" /\ \E t \in {"User", "Item", "Feedback"} :
       /\ stage' = t /\ \E bad \in BOOLEAN : file' = Exported(t) \o IF bad THEN <<Flag("invalid")>> ELSE <<>>
  /\ reading' = "import" /\ position' = 1 /\ batch' = <<>> /\ outcome' = "running" /\ lines' = 0
  /\ dumped' = [db |-> db, clean |-> TRUE] /\ dumping' = "done"
  /\ db' \in {db, Empty} /\ UNCHANGED <<auto, inserts>>

importLine ==
  /\ reading = "import" /\ More /\ Next1.tag = stage
  /\ LET b == Append(batch, Next1) IN
     /\ db' = IF Len(b) = RestoreBatch THEN Inserted(stage, b, auto) ELSE db
     /\ batch' = IF Len(b) = RestoreBatch THEN <<>> ELSE b
  /\ position' = position + 1 /\ lines' = lines + 1
  /\ UNCHANGED <<auto, file, dumping, dumped, reading, stage, outcome, inserts>>

importEnds ==
  /\ reading = "import" /\ ~More
  /\ db' = IF batch # <<>> THEN Inserted(stage, batch, auto) ELSE db
  /\ Ends("imported")
  /\ UNCHANGED <<auto, file, dumping, dumped, position, lines, inserts>>

(* An invalid line, or an insert that fails. *)
importFails ==
  /\ reading = "import" /\ ((More /\ Next1.tag # "invalid") => batch # <<>>) /\ Ends("failed")
  /\ UNCHANGED <<db, auto, file, dumping, dumped, position, lines, inserts>>

-----------------------------------------------------------------------------
(* purge, for an administrator who has a password and has ticked all boxes. *)
purge ==
  /\ Idle /\ db' = Empty
  /\ UNCHANGED <<auto, file, dumping, dumped, reading, position, batch, stage, lines, outcome, inserts>>

(* The servers insert feedback with its user and item. *)
InsertFeedback ==
  /\ inserts < MaxInserts /\ inserts' = inserts + 1
  /\ \E u \in BackupUsers, i \in BackupItems :
       db' = [users |-> db.users \cup {u}, items |-> db.items \cup {i}, feedback |-> db.feedback \cup {<<u, i, Now>>}]
  /\ dumped' = [dumped EXCEPT !.clean = FALSE]
  /\ UNCHANGED <<auto, file, dumping, reading, position, batch, stage, lines, outcome>>

BackupNext ==
  \/ dump \/ dumpUsers \/ dumpItems \/ dumpFeedback \/ dumpEOF \/ dumpFails
  \/ restoreBegins \/ readDump \/ readFlag \/ restoreFails
  \/ importBegins \/ importLine \/ importEnds \/ importFails
  \/ purge \/ InsertFeedback

BackupSpec == BackupInit /\ [][BackupNext]_backupVars

-----------------------------------------------------------------------------
(* What was in the store and what is in it now. *)
Covers(d, e) == e.users \subseteq d.users /\ e.items \subseteq d.items /\ e.feedback \subseteq d.feedback

(* A restore that reports success has read a complete dump: a dump that     *)
(* failed, was cut off or holds an error message never passes for one.      *)
RestoredIsComplete == outcome = "ok" => file # <<>> /\ Last(file).tag = "EOF"

(* Of a step: a dump nobody wrote during restores everything it covers, in  *)
(* the order that feedback needs its users and items, last batches          *)
(* included; feedback of the future is not dumped.                          *)
RestoreBringsBack ==
  outcome = "running" /\ outcome' = "ok" /\ dumped.clean
    => Covers(db', [dumped.db EXCEPT !.feedback = Until(@)])

(* Of a step: an import that reports success has stored every line of the   *)
(* file; only feedback without user or item is left out unless they are     *)
(* inserted too.                                                            *)
ImportIsComplete ==
  reading = "import" /\ reading' = "no" /\ outcome' # "failed"
    => \A k \in DOMAIN file :
         CASE file[k].tag = "User" -> file[k].key[1] \in db'.users
           [] file[k].tag = "Item" -> file[k].key[1] \in db'.items
           [] file[k].tag = "Feedback" -> auto => file[k].key \in db'.feedback

(* A restore that reports success has read a complete dump and brings back  *)
(* all that an undisturbed dump covers; an import that reports success has  *)
(* stored every line of the file.                                           *)
BackupIsComplete == [][RestoredIsComplete' /\ RestoreBringsBack /\ ImportIsComplete]_backupVars
=============================================================================
