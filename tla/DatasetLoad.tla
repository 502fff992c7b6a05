---------------------------- MODULE DatasetLoad ----------------------------
(***************************************************************************)
(* How the master reads the feedback of its data set                       *)
(* (LoadDataFromDatabase, master/tasks.go): the items, sorted by id, are   *)
(* split into groups; for each group a job reads a stream of feedback,     *)
(* first the negative, then the positive, then the read feedback.  The     *)
(* jobs of a step run in parallel and share the sets they fill, the        *)
(* counters of the user dictionary and the variable err.  The data store   *)
(* may change between two steps, and a stream may break.                   *)
(*                                                                         *)
(* Items are 1..NItems in the order of their ids; a collation of the data  *)
(* store may deliver those of a group in another order, but is taken to    *)
(* find them between the first and the last id of the group.  Feedback is  *)
(* <<user, item, type>>; Known are the users that the first step has       *)
(* loaded.  Store is what the data store may hold.  MaxLate bounds the     *)
(* feedback inserted while the load runs.                                  *)
(***************************************************************************)
EXTENDS Integers, Sequences, FiniteSets, SequencesExt

CONSTANTS NItems, NumJobs, Known, Store, MaxLate, MayBreak

(* master.n_jobs is validated to be positive; a data store is finite.       *)
ASSUME LoadAssumption == NItems \in Nat /\ NumJobs \in Nat \ {0} /\ IsFiniteSet(Store)

VARIABLES store, late, step, jobs, negative, positive, read, pushed, freq,
          added, err, broken

loadVars == <<store, late, step, jobs, negative, positive, read, pushed, freq,
              added, err, broken>>

Steps == <<"neg", "pos", "read">>
Type == Steps[step]

(* parallel.Split: chunks of almost equal size, the larger ones first. *)
Split(n, k) ==
  LET parts == Min({n, k})
      Bound(i) == i * (n \div parts) + Min({i, n % parts})
  IN [i \in 1 .. parts |-> Bound(i - 1) + 1 .. Bound(i)]

Groups == Split(NItems, NumJobs)
(* The positive feedback comes ordered by item: that of one item together.  *)
Grouped(s) == \A a, c \in DOMAIN s : s[a][2] = s[c][2] => \A b \in a .. c : s[b][2] = s[a][2]

(* What the stream of a group delivers, otherwise in any order.             *)
Streams(group) ==
  {s \in SetToSeqs({f \in store : f[3] = Type /\ f[2] \in group}) : Type = "pos" => Grouped(s)}

(* Positions of items inside their group: itemPositions. *)
Position(i) == i - Min(CHOOSE g \in Range(Groups) : i \in g) + 1
ItemAt(j, p) == Min(Groups[j]) + p - 1

NewJob == [pc |-> "open", todo |-> <<>>, buffer |-> <<>>, at |-> 1, has |-> {},
           seen |-> 0, breaks |-> FALSE, failed |-> FALSE]

LoadInit ==
  /\ store \in SUBSET Store
  /\ late = 0
  /\ step = 1
  /\ jobs = [j \in DOMAIN Groups |-> NewJob]
  /\ negative = {} /\ positive = {} /\ read = {}
  /\ pushed = <<>>
  /\ freq = [u \in Known |-> 0]
  /\ added = <<>>
  /\ err = FALSE
  /\ broken = FALSE

Insert ==
  /\ late < MaxLate /\ step <= 3
  /\ late' = late + 1
  /\ \E f \in Store \ store : store' = store \cup {f}
  /\ UNCHANGED <<step, jobs, negative, positive, read, pushed, freq, added, err, broken>>

(* GetFeedbackStream; a stream that breaks delivers a part of its feedback. *)
Open(j) ==
  /\ step <= 3 /\ jobs[j].pc = "open"
  /\ \E s \in Streams(Groups[j]) : \E n \in 0 .. Len(s) :
       /\ n = Len(s) \/ (MayBreak /\ ~broken)
       /\ broken' = (broken \/ n < Len(s))
       /\ jobs' = [jobs EXCEPT ![j] = [NewJob EXCEPT !.pc = "stream", !.todo = SubSeq(s, 1, n),
                                         !.breaks = n < Len(s)]]
  /\ UNCHANGED <<store, late, step, negative, positive, read, pushed, freq, added, err>>

Next1(j) == Head(jobs[j].todo)
Pair(f) == <<f[1], f[2]>>
Drop(j) == jobs' = [jobs EXCEPT ![j].todo = Tail(@)]

Streaming(j, type) == step <= 3 /\ Type = type /\ jobs[j].pc = "stream" /\ jobs[j].todo # <<>>

(* Step 3: feedback of users or items that are not loaded is dropped. *)
TakeNegative(j) ==
  /\ Streaming(j, "neg")
  /\ negative' = IF Next1(j)[1] \in Known THEN negative \cup {Pair(Next1(j))} ELSE negative
  /\ Drop(j)
  /\ UNCHANGED <<store, late, step, positive, read, pushed, freq, added, err, broken>>

\* Mutant of Wanted: negative feedback does not go first.
WantedAnyway(f) == f[1] \in Known

Wanted(f) == f[1] \in Known /\ Pair(f) \notin negative

(* The feedback gathered so far goes to the item at itemGroupIndex. *)
Flush(j, f) ==
  Append(pushed, [item |-> ItemAt(j, jobs[j].at), feedback |-> jobs[j].buffer])

(* Step 4: gather the feedback of one item, hand it to the recommenders     *)
(* when the next item comes.  userDict.Add reads the counter of the user.   *)
TakePositive(j) ==
  /\ Streaming(j, "pos")
  /\ LET f == Next1(j)
         job == jobs[j]
         same == job.buffer = <<>> \/ Last(job.buffer)[2] = f[2]
     IN IF ~Wanted(f) THEN Drop(j) /\ UNCHANGED <<positive, pushed>>
        ELSE /\ positive' = positive \cup {Pair(f)}
             /\ pushed' = IF same THEN pushed ELSE Flush(j, f)
             /\ jobs' = [jobs EXCEPT ![j].pc = "count",
                           ![j].buffer = IF same THEN Append(@, f) ELSE <<f>>,
                           ![j].has = IF same THEN @ ELSE @ \cup {job.at},
                           ![j].at = Position(f[2]),
                           ![j].seen = freq[f[1]]]
  /\ UNCHANGED <<store, late, step, negative, read, freq, added, err, broken>>

(* AddFeedback: the counter is written without a lock, the lists under one. *)
CountPositive(j) ==
  /\ jobs[j].pc = "count"
  /\ LET f == Next1(j) IN
     /\ freq' = [freq EXCEPT ![f[1]] = jobs[j].seen + 1]
     /\ added' = Append(added, f)
  /\ jobs' = [jobs EXCEPT ![j].pc = "stream", ![j].todo = Tail(@)]
  /\ UNCHANGED <<store, late, step, negative, positive, read, pushed, err, broken>>

Unlabelled(f) == f[1] \in Known /\ Pair(f) \notin negative \cup positive

(* Step 5. *)
TakeRead(j) ==
  /\ Streaming(j, "read")
  /\ read' = IF Unlabelled(Next1(j)) THEN read \cup {Pair(Next1(j))} ELSE read
  /\ Drop(j)
  /\ UNCHANGED <<store, late, step, negative, positive, pushed, freq, added, err, broken>>

(* The end of the stream: the last item is pushed, then the items of the    *)
(* group without feedback.  err = <-errChan writes the shared variable.     *)
EndStream(j) ==
  /\ step <= 3 /\ jobs[j].pc = "stream" /\ jobs[j].todo = <<>>
  /\ LET job == jobs[j]
         has == IF job.buffer = <<>> THEN job.has ELSE job.has \cup {job.at}
         rest == SetToSeq(1 .. Cardinality(Groups[j]) \ has)
     IN pushed' = IF Type # "pos" THEN pushed
                  ELSE (IF job.buffer = <<>> THEN pushed ELSE Flush(j, Last(job.buffer)))
                       \o [k \in DOMAIN rest |->
                             [item |-> ItemAt(j, rest[k]), feedback |-> <<>>]]
  /\ err' = jobs[j].breaks
  /\ jobs' = [jobs EXCEPT ![j].pc = "test"]
  /\ UNCHANGED <<store, late, step, negative, positive, read, freq, added, broken>>

(* err != nil: another job may have written it since. *)
TestError(j) ==
  /\ jobs[j].pc = "test"
  /\ jobs' = [jobs EXCEPT ![j].pc = "end", ![j].failed = err]
  /\ UNCHANGED <<store, late, step, negative, positive, read, pushed, freq, added, err, broken>>

(* Step 6 makes an example of every pair of each of the three sets:         *)
(* PositiveCount + NegativeCount.                                           *)
Examples == Cardinality(negative) + Cardinality(positive) + Cardinality(read)

(* Parallel returns: the next step, or the end of the load with an error.   *)
EndStep ==
  /\ step <= 3 /\ \A j \in DOMAIN jobs : jobs[j].pc = "end"
  /\ step' = IF \E j \in DOMAIN jobs : jobs[j].failed THEN 5 ELSE step + 1
  /\ jobs' = [j \in DOMAIN jobs |-> NewJob]
  /\ err' = (step' = 5)
  /\ UNCHANGED <<store, late, negative, positive, read, pushed, freq, added, broken>>

LoadNext ==
  \/ Insert \/ EndStep
  \/ \E j \in DOMAIN Groups :
       Open(j) \/ TakeNegative(j) \/ TakePositive(j) \/ CountPositive(j) \/ TakeRead(j)
       \/ EndStream(j) \/ TestError(j)

LoadSpec == LoadInit /\ [][LoadNext]_loadVars

-----------------------------------------------------------------------------
Loaded == step = 4

(* Every item of a loaded data set is offered to the non-personalised       *)
(* recommenders exactly once, and with its own positive feedback: exactly   *)
(* the feedback added to the data set for it, however the streams of the    *)
(* groups interleave.                                                       *)
PushedOnce ==
  Loaded => /\ Len(pushed) = NItems
            /\ \A i \in 1 .. NItems : \E k \in DOMAIN pushed :
                 /\ pushed[k].item = i
                 /\ Range(pushed[k].feedback) = {f \in Range(added) : f[2] = i}

(* A pair of a user and an item is one example of the click-through rate    *)
(* data set: negative, positive or read, never two of them, though the      *)
(* feedback may change between the three passes over the data store.        *)
OneTarget == Loaded => Examples = Cardinality(negative \cup positive \cup read)

(* Both: the data set offers every item once with its own feedback, and     *)
(* makes one example of a pair (LoadDataFromDatabase).                      *)
DatasetIsComplete == PushedOnce /\ OneTarget
=============================================================================
