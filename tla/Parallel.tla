------------------------------ MODULE Parallel ------------------------------
(***************************************************************************)
(* parallel.Parallel, For and ForEach (common/parallel/parallel.go): a     *)
(* producer sends job numbers into a bounded channel, workers take them.   *)
(* The jobs of Parallel may fail, which ends their worker, or panic, which *)
(* CheckPanic swallows; those of For and ForEach (the same loop over the   *)
(* elements of a slice) do neither.  With one worker there is neither      *)
(* channel nor goroutine.  ctx may be cancelled at any time.               *)
(***************************************************************************)
EXTENDS Naturals, Sequences, FiniteSets

CONSTANTS nJobs, MaxWorkers, ChanSize

VARIABLES kind, workers, chan, sent, closed, state, jobId, ran, errs, panicked,
          ctxDone, ret

parVars == <<kind, workers, chan, sent, closed, state, jobId, ran, errs,
             panicked, ctxDone, ret>>

JobIds == 1 .. nJobs
Running == "running"
Sequential == workers = 1

ParInit ==
  /\ kind \in {"Parallel", "For", "ForEach"}
  /\ workers \in 1 .. MaxWorkers
  /\ chan = <<>>
  /\ sent = 0
  /\ closed = FALSE
  /\ state = [w \in 1 .. workers |-> "idle"]
  /\ jobId = [w \in 1 .. workers |-> 0]
  /\ ran = {}
  /\ errs = {}
  /\ panicked = {}
  /\ ctxDone = FALSE
  /\ ret = Running

CancelParallel ==
  /\ ~ctxDone /\ ret = Running
  /\ ctxDone' = TRUE
  /\ UNCHANGED <<kind, workers, chan, sent, closed, state, jobId, ran, errs, panicked, ret>>

(* The producer: send the next number, or stop when ctx is done. *)
Produce ==
  /\ ~Sequential /\ ~closed
  /\ \/ /\ sent < nJobs /\ Len(chan) < ChanSize
        /\ chan' = Append(chan, sent + 1)
        /\ sent' = sent + 1
        /\ UNCHANGED closed
     \/ /\ sent = nJobs \/ ctxDone
        /\ closed' = TRUE
        /\ UNCHANGED <<chan, sent>>
  /\ UNCHANGED <<kind, workers, state, jobId, ran, errs, panicked, ctxDone, ret>>

(* A worker takes a job; after a cancellation it drops it and leaves. *)
Take(w) ==
  /\ ~Sequential /\ state[w] = "idle" /\ chan # <<>>
  /\ chan' = Tail(chan)
  /\ jobId' = [jobId EXCEPT ![w] = Head(chan)]
  /\ state' = [state EXCEPT ![w] = IF ctxDone THEN "gone" ELSE "run"]
  /\ errs' = IF ctxDone /\ kind = "Parallel" THEN errs \cup {Head(chan)} ELSE errs
  /\ UNCHANGED <<kind, workers, sent, closed, ran, panicked, ctxDone, ret>>

Leave(w) ==
  /\ ~Sequential /\ state[w] = "idle"
  /\ ctxDone \/ (closed /\ chan = <<>>)
  /\ state' = [state EXCEPT ![w] = "gone"]
  /\ UNCHANGED <<kind, workers, chan, sent, closed, jobId, ran, errs, panicked, ctxDone, ret>>

(* The job of Parallel: done, failed or panicked. *)
Work(w) ==
  /\ kind = "Parallel" /\ state[w] = "run"
  /\ \/ /\ state' = [state EXCEPT ![w] = "idle"]
        /\ ran' = ran \cup {jobId[w]}
        /\ UNCHANGED <<errs, panicked>>
     \/ /\ state' = [state EXCEPT ![w] = "gone"]
        /\ \/ errs' = errs \cup {jobId[w]} /\ UNCHANGED panicked
           \/ panicked' = panicked \cup {w} /\ UNCHANGED errs
        /\ UNCHANGED ran
  /\ UNCHANGED <<kind, workers, chan, sent, closed, jobId, ctxDone, ret>>

(* The jobs of For and ForEach have no result. *)
Call(w) ==
  /\ state[w] = "run"
  /\ state' = [state EXCEPT ![w] = "idle"]
  /\ ran' = ran \cup {jobId[w]}
  /\ UNCHANGED <<kind, workers, chan, sent, closed, jobId, errs, panicked, ctxDone, ret>>
ForCall(w) == kind = "For" /\ Call(w)
ForEachCall(w) == kind = "ForEach" /\ Call(w)

AllGone == \A w \in DOMAIN state : state[w] = "gone"

\* Mutant of Outcome: the errors of the jobs are forgotten.
OutcomeOfContext == IF ctxDone THEN "cancelled" ELSE "nil"

Outcome == IF errs # {} THEN "error" ELSE IF ctxDone THEN "cancelled" ELSE "nil"

(* wg.Wait, then the first error of the jobs, or of ctx. *)
ReturnOutcome ==
  /\ ~Sequential /\ ret = Running /\ AllGone
  /\ ret' = Outcome
  /\ UNCHANGED <<kind, workers, chan, sent, closed, state, jobId, ran, errs, panicked, ctxDone>>

(* nWorkers <= 1: the jobs in order, until one fails or ctx is done. *)
Sequentially ==
  /\ Sequential /\ ret = Running
  /\ \/ /\ sent < nJobs /\ ~ctxDone
        /\ sent' = sent + 1
        /\ \/ ran' = ran \cup {sent + 1} /\ UNCHANGED <<errs, ret>>
           \/ kind = "Parallel" /\ errs' = {sent + 1} /\ ret' = "error" /\ UNCHANGED ran
     \/ /\ ctxDone \/ sent = nJobs
        /\ ret' = IF ctxDone THEN "cancelled" ELSE "nil"
        /\ UNCHANGED <<sent, ran, errs>>
  /\ UNCHANGED <<kind, workers, chan, closed, state, jobId, panicked, ctxDone>>

WorkerStep(w) ==
  w \in DOMAIN state /\ (Take(w) \/ Leave(w) \/ Work(w) \/ ForCall(w) \/ ForEachCall(w))

ParNext ==
  \/ CancelParallel \/ Produce \/ ReturnOutcome \/ Sequentially
  \/ \E w \in DOMAIN state : WorkerStep(w)

ParSpec == ParInit /\ [][ParNext]_parVars

(* Goroutines run until they block, jobs end. *)
ParFairness ==
  /\ WF_parVars(Produce)
  /\ WF_parVars(ReturnOutcome \/ Sequentially)
  /\ \A w \in 1 .. MaxWorkers : WF_parVars(WorkerStep(w))

-----------------------------------------------------------------------------
(* A call that returns no error has run every job to its end: the callers   *)
(* take nil as the proof that all data is processed.  A job that panics is  *)
(* lost without an error, and when every worker has panicked so are the     *)
(* jobs that nobody took.                                                   *)
NilMeansAllRan ==
  ret = "nil" => \/ Cardinality(JobIds \ ran) = Cardinality(panicked)
                 \/ Cardinality(panicked) = workers

(* The call returns, and its producer ends too, unless every worker left    *)
(* with an error or a panic and nobody reads the channel any more.          *)
Returned == ret # Running
ProducerLeaves == Sequential \/ closed
Deserted == AllGone /\ Cardinality(errs) + Cardinality(panicked) = workers
CallEnds == <>Returned /\ (<>ProducerLeaves \/ <>[]Deserted)
=============================================================================
