------------------------------ MODULE Detachable ------------------------------
(***************************************************************************)
(* parallel.Detachable (common/parallel/parallel.go): the scheduler the    *)
(* offline recommendation pipeline runs its users on.  Two buffered        *)
(* channels serve as counting semaphores: sem bounds the jobs that compute *)
(* and detachedSem the jobs that wait for a remote ranker.  A job may give *)
(* its compute slot back while it waits (Detach) and must queue for a slot *)
(* again afterwards (Attach).                                              *)
(*                                                                         *)
(* The worker function detaches at most once, as the pipeline's does       *)
(* around the call of the remote ranker (worker/pipeline.go, rankByAPI).   *)
(* It may return without having attached again.                            *)
(***************************************************************************)
EXTENDS Naturals, FiniteSets

CONSTANTS NJobs,         \* nJobs: the users to recommend to
          NWorkers,      \* nWorkers: capacity of sem
          NMaxDetached   \* nMaxDetached: capacity of detachedSem

ASSUME NJobsAssumption == NJobs \in Nat
ASSUME NWorkersAssumption == NWorkers \in Nat \ {0}
ASSUME NMaxDetachedAssumption == NMaxDetached \in Nat \ {0}

VARIABLES
    next,         \* loop variable i of Detachable
    main,         \* control point of the calling goroutine
    err,          \* the call returned a non-nil error
    cancelled,    \* ctx is done
    sem,          \* tokens in channel sem
    detachedSem,  \* tokens in channel detachedSem
    job           \* control point of each job's goroutine

vars == <<next, main, err, cancelled, sem, detachedSem, job>>

Jobs == 0 .. NJobs - 1

(***************************************************************************)
(* idle        the loop has not reached the job                            *)
(* spawned     the goroutine exists and has not looked at ctx yet          *)
(* attached    the worker function runs, before Detach                     *)
(* queueing    Detach waits for room in detachedSem                        *)
(* detaching   Detach holds a token of both channels                       *)
(* detached    the worker function waits for the remote ranker             *)
(* answered    the ranker answered and Attach is called                    *)
(* attaching   Attach gave its detachedSem token back and queues for sem   *)
(* reattached  the worker function runs, after Attach                      *)
(***************************************************************************)
JobStates == {"idle", "spawned", "attached", "queueing", "detaching",
              "detached", "answered", "attaching", "reattached", "skipped",
              "done"}

\* Jobs whose goroutine has ended or was never started: wg.Wait ignores them.
Quiet == {"idle", "skipped", "done"}

\* Jobs that own a token of sem, and jobs that own a token of detachedSem.
HoldsSem == {"spawned", "attached", "queueing", "detaching", "reattached"}
HoldsDetached == {"detaching", "detached", "answered"}

Init ==
    /\ next = 0
    /\ main = "loop"
    /\ err = FALSE
    /\ cancelled = FALSE
    /\ sem = 0
    /\ detachedSem = 0
    /\ job = [j \in Jobs |-> "idle"]

-----------------------------------------------------------------------------
(* The calling goroutine.                                                  *)

\* "case sem <- struct{}{}" and wg.Go: one more goroutine, holding a token.
Spawn ==
    /\ main = "loop"
    /\ next < NJobs
    /\ sem < NWorkers
    /\ sem' = sem + 1
    /\ job' = [job EXCEPT ![next] = "spawned"]
    /\ next' = next + 1
    /\ UNCHANGED <<main, err, cancelled, detachedSem>>

\* "case <-ctx.Done()": no further job is started, also when sem has room.
StopLoop ==
    /\ main = "loop"
    /\ next < NJobs
    /\ cancelled
    /\ main' = "waiting"
    /\ UNCHANGED <<next, err, cancelled, sem, detachedSem, job>>

EndLoop ==
    /\ main = "loop"
    /\ next = NJobs
    /\ main' = "waiting"
    /\ UNCHANGED <<next, err, cancelled, sem, detachedSem, job>>

\* Mutant of Return: the error is looked at, the goroutines are not.
ReturnWithoutWait ==
    /\ main = "waiting"
    /\ main' = "returned"
    /\ err' = cancelled
    /\ UNCHANGED <<next, cancelled, sem, detachedSem, job>>

\* wg.Wait, then return ctx.Err().
Return ==
    /\ main = "waiting"
    /\ \A j \in Jobs : job[j] \in Quiet
    /\ main' = "returned"
    /\ err' = cancelled
    /\ UNCHANGED <<next, cancelled, sem, detachedSem, job>>

\* The owner of ctx cancels it.
Cancel ==
    /\ ~cancelled
    /\ main # "returned"
    /\ cancelled' = TRUE
    /\ UNCHANGED <<next, main, err, sem, detachedSem, job>>

-----------------------------------------------------------------------------
(* The goroutine of job j.                                                 *)

\* Mutant of Skip: the early return forgets the token.
SkipKeepingToken(j) ==
    /\ job[j] = "spawned"
    /\ cancelled
    /\ job' = [job EXCEPT ![j] = "skipped"]
    /\ UNCHANGED <<next, main, err, cancelled, sem, detachedSem>>

\* ctx.Err() # nil: give the token back without running the worker.
Skip(j) ==
    /\ job[j] = "spawned"
    /\ cancelled
    /\ sem' = sem - 1
    /\ job' = [job EXCEPT ![j] = "skipped"]
    /\ UNCHANGED <<next, main, err, cancelled, detachedSem>>

Begin(j) ==
    /\ job[j] = "spawned"
    /\ ~cancelled
    /\ job' = [job EXCEPT ![j] = "attached"]
    /\ UNCHANGED <<next, main, err, cancelled, sem, detachedSem>>

\* The worker function calls Context.Detach.
CallDetach(j) ==
    /\ job[j] = "attached"
    /\ job' = [job EXCEPT ![j] = "queueing"]
    /\ UNCHANGED <<next, main, err, cancelled, sem, detachedSem>>

\* First half of Context.Detach: send to detachedSem, set detached.
Detach(j) ==
    /\ job[j] = "queueing"
    /\ detachedSem < NMaxDetached
    /\ detachedSem' = detachedSem + 1
    /\ job' = [job EXCEPT ![j] = "detaching"]
    /\ UNCHANGED <<next, main, err, cancelled, sem>>

\* Second half of Context.Detach: receive from sem.
DetachRelease(j) ==
    /\ job[j] = "detaching"
    /\ sem > 0
    /\ sem' = sem - 1
    /\ job' = [job EXCEPT ![j] = "detached"]
    /\ UNCHANGED <<next, main, err, cancelled, detachedSem>>

\* The worker function calls Context.Attach.
CallAttach(j) ==
    /\ job[j] = "detached"
    /\ job' = [job EXCEPT ![j] = "answered"]
    /\ UNCHANGED <<next, main, err, cancelled, sem, detachedSem>>

\* Mutant of Attach: queue for sem while still owning a detachedSem token.
AttachHolding(j) ==
    /\ job[j] = "answered"
    /\ sem < NWorkers
    /\ sem' = sem + 1
    /\ detachedSem' = detachedSem - 1
    /\ job' = [job EXCEPT ![j] = "reattached"]
    /\ UNCHANGED <<next, main, err, cancelled>>

\* First half of Context.Attach: clear detached, receive from detachedSem.
Attach(j) ==
    /\ job[j] = "answered"
    /\ detachedSem > 0
    /\ detachedSem' = detachedSem - 1
    /\ job' = [job EXCEPT ![j] = "attaching"]
    /\ UNCHANGED <<next, main, err, cancelled, sem>>

\* Second half of Context.Attach: send to sem.
AttachAcquire(j) ==
    /\ job[j] = "attaching"
    /\ sem < NWorkers
    /\ sem' = sem + 1
    /\ job' = [job EXCEPT ![j] = "reattached"]
    /\ UNCHANGED <<next, main, err, cancelled, detachedSem>>

\* The worker function returns; c.detached is false in both states.
Finish(j) ==
    /\ job[j] \in {"attached", "reattached"}
    /\ sem > 0
    /\ sem' = sem - 1
    /\ job' = [job EXCEPT ![j] = "done"]
    /\ UNCHANGED <<next, main, err, cancelled, detachedSem>>

\* The worker function returns while c.detached is true.
FinishDetached(j) ==
    /\ job[j] = "detached"
    /\ detachedSem > 0
    /\ detachedSem' = detachedSem - 1
    /\ job' = [job EXCEPT ![j] = "done"]
    /\ UNCHANGED <<next, main, err, cancelled, sem>>

JobStep(j) ==
    \/ Skip(j)
    \/ Begin(j)
    \/ CallDetach(j)
    \/ Detach(j)
    \/ DetachRelease(j)
    \/ CallAttach(j)
    \/ Attach(j)
    \/ AttachAcquire(j)
    \/ Finish(j)
    \/ FinishDetached(j)

MainStep == Spawn \/ StopLoop \/ EndLoop \/ Return

Next ==
    \/ MainStep
    \/ Cancel
    \/ \E j \in Jobs : JobStep(j)

(***************************************************************************)
(* The Go runtime runs every goroutine that can run, and the remote ranker *)
(* answers or times out.  Cancellation is never promised.                  *)
(***************************************************************************)
Fairness == WF_vars(MainStep) /\ \A j \in Jobs : WF_vars(JobStep(j))

Spec == Init /\ [][Next]_vars
FairSpec == Spec /\ Fairness

-----------------------------------------------------------------------------
(* Properties                                                              *)

TypeOK ==
    /\ next \in 0 .. NJobs
    /\ main \in {"loop", "waiting", "returned"}
    /\ err \in BOOLEAN
    /\ cancelled \in BOOLEAN
    /\ sem \in 0 .. NWorkers
    /\ detachedSem \in 0 .. NMaxDetached
    /\ job \in [Jobs -> JobStates]

SemHolders == {j \in Jobs : job[j] \in HoldsSem}
DetachedHolders == {j \in Jobs : job[j] \in HoldsDetached}

(***************************************************************************)
(* The tokens in both channels are exactly the ones the live jobs own: no  *)
(* path through Detach, Attach and the two ways a goroutine ends loses a   *)
(* token or returns one twice.  A lost sem token would shrink the pool for *)
(* the rest of the call, a doubled one would let more than NWorkers jobs   *)
(* compute.                                                                *)
(***************************************************************************)
TokensOwned ==
    /\ sem = Cardinality(SemHolders)
    /\ detachedSem = Cardinality(DetachedHolders)

(***************************************************************************)
(* A nil error means that every job ran to its end; after any return no    *)
(* goroutine of the call is left behind (the pipeline closes the channel   *)
(* its jobs report on right after the call).                               *)
(***************************************************************************)
ReturnIsComplete ==
    main = "returned" =>
        /\ \A j \in Jobs : job[j] \in Quiet
        /\ ~err => \A j \in Jobs : job[j] = "done"

(***************************************************************************)
(* The call returns: jobs that queue in Detach for detachedSem while they  *)
(* own sem, and jobs that queue in Attach for sem, never wait for each     *)
(* other.                                                                  *)
(***************************************************************************)
EventuallyReturns == <>(main = "returned")

=============================================================================
