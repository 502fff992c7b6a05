---------------------------- MODULE ParallelProofs ----------------------------
(***************************************************************************)
(* Proofs about package parallel: about Detachable, for every number of    *)
(* jobs, of workers and of detached jobs, about Parallel, For and ForEach, *)
(* for every number of jobs and of workers and every size of the channel,  *)
(* about the training loops that run on them, for every number of epochs   *)
(* and every patience, and about the ranking of one user, which the        *)
(* worker's pass runs in one of its jobs.                                  *)
(***************************************************************************)
EXTENDS Detachable, Parallel, Training, Ranking, FiniteSetTheorems,
        SequenceTheorems, NaturalsInduction, WellFoundedInduction, TLAPS

-----------------------------------------------------------------------------
(* Counting the owners of tokens.                                          *)

\* The jobs in one of the states of H.
In(H) == {j \in Jobs : job[j] \in H}

\* There are finitely many jobs in any set of states.
LEMMA OwnersFinite ==
    ASSUME NEW H
    PROVE  IsFiniteSet(In(H)) /\ Cardinality(In(H)) \in Nat
<1>1. IsFiniteSet(Jobs)
  BY NJobsAssumption, FS_Interval DEF Jobs
<1>2. QED
  BY <1>1, FS_Subset, FS_CardinalityType DEF In

\* A job that moves into the states of H makes one owner more.
LEMMA OneMore ==
    ASSUME NEW H, NEW j \in Jobs, NEW s, job \in [Jobs -> JobStates],
           job' = [job EXCEPT ![j] = s], job[j] \notin H, s \in H
    PROVE  Cardinality(In(H)') = Cardinality(In(H)) + 1
<1>1. In(H)' = In(H) \cup {j} /\ j \notin In(H)
  BY DEF In
<1>2. QED
  BY <1>1, OwnersFinite, FS_AddElement

\* A job that moves out of the states of H makes one owner less, and was one.
LEMMA OneLess ==
    ASSUME NEW H, NEW j \in Jobs, NEW s, job \in [Jobs -> JobStates],
           job' = [job EXCEPT ![j] = s], job[j] \in H, s \notin H
    PROVE  /\ Cardinality(In(H)') = Cardinality(In(H)) - 1
           /\ Cardinality(In(H)) > 0
<1>1. In(H)' = In(H) \ {j} /\ j \in In(H)
  BY DEF In
<1>2. Cardinality(In(H)') = Cardinality(In(H)) - 1
  BY <1>1, OwnersFinite, FS_RemoveElement
<1>3. Cardinality(In(H)) # 0
  BY <1>1, OwnersFinite, FS_EmptySet
<1>4. QED
  BY <1>2, <1>3, OwnersFinite

\* A job that stays inside or outside of the states of H changes nothing.
LEMMA AsMany ==
    ASSUME NEW H, NEW j \in Jobs, NEW s, job \in [Jobs -> JobStates],
           job' = [job EXCEPT ![j] = s], job[j] \in H <=> s \in H
    PROVE  Cardinality(In(H)') = Cardinality(In(H))
<1>1. In(H)' = In(H)
  BY DEF In
<1>2. QED
  BY <1>1

-----------------------------------------------------------------------------
(* TokensOwned.                                                            *)

\* The loop has not touched the jobs it has not reached.
Unstarted == \A j \in Jobs : j >= next => job[j] = "idle"

\* The inductive invariant: Skip gives a token back without looking whether
\* there is one, so the range of sem depends on who owns what.
OwnedInv == TypeOK /\ Unstarted /\ TokensOwned

\* Nothing is owned at the start.
LEMMA OwnedInit == Init => OwnedInv
<1> SUFFICES ASSUME Init PROVE OwnedInv
  OBVIOUS
<1>1. SemHolders = {} /\ DetachedHolders = {}
  BY DEF Init, SemHolders, DetachedHolders, HoldsSem, HoldsDetached
<1>2. err \in BOOLEAN /\ cancelled \in BOOLEAN
  BY Zenon DEF Init
<1>3. /\ next \in 0 .. NJobs /\ sem \in 0 .. NWorkers
      /\ detachedSem \in 0 .. NMaxDetached
  BY NJobsAssumption, NWorkersAssumption, NMaxDetachedAssumption DEF Init
<1>4. job \in [Jobs -> JobStates] /\ Unstarted
  BY DEF Init, JobStates, Unstarted
<1>5. TypeOK
  BY <1>2, <1>3, <1>4 DEF Init, TypeOK
<1>6. QED
  BY <1>1, <1>4, <1>5, FS_EmptySet DEF Init, OwnedInv, TokensOwned

\* The two sets of owners are what the counting lemmas count.
LEMMA Holders == SemHolders = In(HoldsSem) /\ DetachedHolders = In(HoldsDetached)
BY DEF SemHolders, DetachedHolders, In

\* Every step moves a token exactly when it moves a job over the border of
\* the states that own one.
LEMMA OwnedStep == OwnedInv /\ [Next]_vars => OwnedInv'
<1> SUFFICES ASSUME OwnedInv, [Next]_vars PROVE OwnedInv'
  OBVIOUS
<1> USE NJobsAssumption, NWorkersAssumption, NMaxDetachedAssumption
<1> DEFINE S == In(HoldsSem)
           D == In(HoldsDetached)
<1>1. /\ TypeOK /\ Unstarted
      /\ sem = Cardinality(S) /\ detachedSem = Cardinality(D)
  BY Holders DEF OwnedInv, TokensOwned
<1>2. SUFFICES /\ TypeOK' /\ Unstarted'
               /\ sem' = Cardinality(S') /\ detachedSem' = Cardinality(D')
  BY DEF OwnedInv, TokensOwned, SemHolders, DetachedHolders, In
<1>3. job \in [Jobs -> JobStates] /\ next \in 0 .. NJobs
  BY <1>1 DEF TypeOK
<1>4. CASE Spawn
  <2>1. next \in Jobs /\ next + 1 \in 0 .. NJobs /\ job[next] = "idle"
    BY <1>1, <1>4 DEF Spawn, TypeOK, Jobs, Unstarted
  <2>2. Cardinality(S') = Cardinality(S) + 1
    BY <1>3, <1>4, <2>1, OneMore DEF Spawn, HoldsSem
  <2>3. Cardinality(D') = Cardinality(D)
    BY <1>3, <1>4, <2>1, AsMany DEF Spawn, HoldsDetached
  <2>4. TypeOK'
    BY <1>1, <1>4, <2>1 DEF Spawn, TypeOK, JobStates
  <2>5. Unstarted'
    BY <1>1, <1>3, <1>4, <2>1 DEF Spawn, Unstarted, Jobs
  <2>6. QED
    BY <1>1, <1>4, <2>2, <2>3, <2>4, <2>5 DEF Spawn
<1>5. CASE StopLoop \/ EndLoop \/ Return \/ Cancel \/ UNCHANGED vars
  <2>1. UNCHANGED <<next, job, sem, detachedSem>>
    BY <1>5 DEF StopLoop, EndLoop, Return, Cancel, vars
  <2>2. S' = S /\ D' = D
    BY <2>1 DEF In
  <2>3. TypeOK'
    BY <1>1, <1>5 DEF StopLoop, EndLoop, Return, Cancel, vars, TypeOK
  <2>4. QED
    BY <1>1, <2>1, <2>2, <2>3 DEF Unstarted
<1>6. ASSUME NEW j \in Jobs, JobStep(j)
      PROVE  /\ TypeOK' /\ Unstarted'
             /\ sem' = Cardinality(S') /\ detachedSem' = Cardinality(D')
  <2>1. job[j] # "idle" /\ next' = next /\ \A i \in Jobs : i # j => job'[i] = job[i]
    BY <1>3, <1>6 DEF JobStep, Skip, Begin, CallDetach, Detach, DetachRelease, CallAttach,
                Attach, AttachAcquire, Finish, FinishDetached
  <2>2. Unstarted'
    BY <1>1, <1>3, <2>1 DEF Unstarted, Jobs
  <2> HIDE DEF S, D
  <2>3. CASE Skip(j)
    <3>1. Cardinality(S') = Cardinality(S) - 1 /\ Cardinality(S) > 0
      BY <1>3, <2>3, OneLess DEF Skip, S, HoldsSem
    <3>2. Cardinality(D') = Cardinality(D)
      BY <1>3, <2>3, AsMany DEF Skip, D, HoldsDetached
    <3>3. QED
      BY <1>1, <2>2, <2>3, <3>1, <3>2 DEF Skip, TypeOK, JobStates
  <2>4. CASE Begin(j)
    <3>1. Cardinality(S') = Cardinality(S)
      BY <1>3, <2>4, AsMany DEF Begin, S, HoldsSem
    <3>2. Cardinality(D') = Cardinality(D)
      BY <1>3, <2>4, AsMany DEF Begin, D, HoldsDetached
    <3>3. QED
      BY <1>1, <2>2, <2>4, <3>1, <3>2 DEF Begin, TypeOK, JobStates
  <2>5. CASE CallDetach(j)
    <3>1. Cardinality(S') = Cardinality(S)
      BY <1>3, <2>5, AsMany DEF CallDetach, S, HoldsSem
    <3>2. Cardinality(D') = Cardinality(D)
      BY <1>3, <2>5, AsMany DEF CallDetach, D, HoldsDetached
    <3>3. QED
      BY <1>1, <2>2, <2>5, <3>1, <3>2 DEF CallDetach, TypeOK, JobStates
  <2>6. CASE Detach(j)
    <3>1. Cardinality(S') = Cardinality(S)
      BY <1>3, <2>6, AsMany DEF Detach, S, HoldsSem
    <3>2. Cardinality(D') = Cardinality(D) + 1
      BY <1>3, <2>6, OneMore DEF Detach, D, HoldsDetached
    <3>3. QED
      BY <1>1, <2>2, <2>6, <3>1, <3>2 DEF Detach, TypeOK, JobStates
  <2>7. CASE DetachRelease(j)
    <3>1. Cardinality(S') = Cardinality(S) - 1 /\ Cardinality(S) > 0
      BY <1>3, <2>7, OneLess DEF DetachRelease, S, HoldsSem
    <3>2. Cardinality(D') = Cardinality(D)
      BY <1>3, <2>7, AsMany DEF DetachRelease, D, HoldsDetached
    <3>3. QED
      BY <1>1, <2>2, <2>7, <3>1, <3>2 DEF DetachRelease, TypeOK, JobStates
  <2>8. CASE CallAttach(j)
    <3>1. Cardinality(S') = Cardinality(S)
      BY <1>3, <2>8, AsMany DEF CallAttach, S, HoldsSem
    <3>2. Cardinality(D') = Cardinality(D)
      BY <1>3, <2>8, AsMany DEF CallAttach, D, HoldsDetached
    <3>3. QED
      BY <1>1, <2>2, <2>8, <3>1, <3>2 DEF CallAttach, TypeOK, JobStates
  <2>9. CASE Attach(j)
    <3>1. Cardinality(S') = Cardinality(S)
      BY <1>3, <2>9, AsMany DEF Attach, S, HoldsSem
    <3>2. Cardinality(D') = Cardinality(D) - 1 /\ Cardinality(D) > 0
      BY <1>3, <2>9, OneLess DEF Attach, D, HoldsDetached
    <3>3. QED
      BY <1>1, <2>2, <2>9, <3>1, <3>2 DEF Attach, TypeOK, JobStates
  <2>10. CASE AttachAcquire(j)
    <3>1. Cardinality(S') = Cardinality(S) + 1
      BY <1>3, <2>10, OneMore DEF AttachAcquire, S, HoldsSem
    <3>2. Cardinality(D') = Cardinality(D)
      BY <1>3, <2>10, AsMany DEF AttachAcquire, D, HoldsDetached
    <3>3. QED
      BY <1>1, <2>2, <2>10, <3>1, <3>2 DEF AttachAcquire, TypeOK, JobStates
  <2>11. CASE Finish(j)
    <3>1. Cardinality(S') = Cardinality(S) - 1 /\ Cardinality(S) > 0
      BY <1>3, <2>11, OneLess DEF Finish, S, HoldsSem
    <3>2. Cardinality(D') = Cardinality(D)
      BY <1>3, <2>11, AsMany DEF Finish, D, HoldsDetached
    <3>3. QED
      BY <1>1, <2>2, <2>11, <3>1, <3>2 DEF Finish, TypeOK, JobStates
  <2>12. CASE FinishDetached(j)
    <3>1. Cardinality(S') = Cardinality(S)
      BY <1>3, <2>12, AsMany DEF FinishDetached, S, HoldsSem
    <3>2. Cardinality(D') = Cardinality(D) - 1 /\ Cardinality(D) > 0
      BY <1>3, <2>12, OneLess DEF FinishDetached, D, HoldsDetached
    <3>3. QED
      BY <1>1, <2>2, <2>12, <3>1, <3>2 DEF FinishDetached, TypeOK, JobStates
  <2>13. QED
    BY <1>6, <2>3, <2>4, <2>5, <2>6, <2>7, <2>8, <2>9, <2>10, <2>11, <2>12 DEF JobStep
<1>7. QED
  BY <1>4, <1>5, <1>6 DEF Next, MainStep

(***************************************************************************)
(* The counters of Detachable stay in their ranges: no send finds a token  *)
(* too many, no receive one too few, and no job is started twice.          *)
(***************************************************************************)
THEOREM TypeCorrect == Spec => []TypeOK
<1>1. OwnedInv => TypeOK
  BY DEF OwnedInv
<1>2. QED
  BY <1>1, OwnedInit, OwnedStep, PTL DEF Spec

(***************************************************************************)
(* The tokens in sem and detachedSem are the ones that live jobs own,      *)
(* whatever path the jobs take through Detach and Attach.                  *)
(***************************************************************************)
THEOREM TokensOwnedAlways == Spec => []TokensOwned
<1>1. OwnedInv => TokensOwned
  BY DEF OwnedInv
<1>2. QED
  BY <1>1, OwnedInit, OwnedStep, PTL DEF Spec

-----------------------------------------------------------------------------
(* ReturnIsComplete.                                                       *)

\* Before the call is cancelled no job is skipped and the loop does not stop
\* early, so that a job that was never started will be.
Uncancelled ==
    ~cancelled => /\ \A j \in Jobs : job[j] # "skipped"
                  /\ main # "loop" => next = NJobs

\* The jobs that the loop has passed were started.
Started == \A j \in Jobs : j < next => job[j] # "idle"

ReturnInv == TypeOK /\ Started /\ Uncancelled /\ ReturnIsComplete

\* Nothing is started, skipped or over at the start.
LEMMA ReturnInit == Init => ReturnInv
<1> SUFFICES ASSUME Init PROVE ReturnInv
  OBVIOUS
<1>1. TypeOK
  BY OwnedInit DEF OwnedInv
<1>2. Started
  BY DEF Init, Started, Jobs
<1>3. Uncancelled /\ ReturnIsComplete
  BY DEF Init, Uncancelled, ReturnIsComplete
<1>4. QED
  BY <1>1, <1>2, <1>3 DEF ReturnInv

\* A job that is over stays as it is, and the error of the call is the one of
\* its context at the moment of the return.
LEMMA ReturnStep == OwnedInv /\ OwnedInv' /\ ReturnInv /\ [Next]_vars => ReturnInv'
<1> SUFFICES ASSUME OwnedInv, OwnedInv', ReturnInv, [Next]_vars PROVE ReturnInv'
  OBVIOUS
<1> USE NJobsAssumption DEF ReturnInv, Started, Uncancelled, ReturnIsComplete
<1>1. TypeOK /\ TypeOK'
  BY DEF OwnedInv
<1>2. job \in [Jobs -> JobStates] /\ next \in 0 .. NJobs
  BY <1>1 DEF TypeOK
<1>3. CASE Spawn
  BY <1>1, <1>2, <1>3 DEF Spawn, Jobs
<1>4. CASE StopLoop
  BY <1>1, <1>4 DEF StopLoop
<1>5. CASE EndLoop
  BY <1>1, <1>5 DEF EndLoop
<1>6. CASE Return
  <2>1. ~err' => \A j \in Jobs : job[j] = "done"
    BY <1>2, <1>6 DEF Return, Quiet, Jobs
  <2>2. QED
    BY <1>1, <1>6, <2>1 DEF Return
<1>7. CASE Cancel
  BY <1>1, <1>7 DEF Cancel
<1>8. ASSUME NEW j \in Jobs, JobStep(j) PROVE ReturnInv'
  <2>1. main # "returned" /\ UNCHANGED <<main, next, err, cancelled>>
    BY <1>8 DEF JobStep, Skip, Begin, CallDetach, Detach, DetachRelease, CallAttach,
                Attach, AttachAcquire, Finish, FinishDetached, Quiet
  <2>2. job'[j] # "idle" /\ \A i \in Jobs : i # j => job'[i] = job[i]
    BY <1>2, <1>8 DEF JobStep, Skip, Begin, CallDetach, Detach, DetachRelease, CallAttach,
                Attach, AttachAcquire, Finish, FinishDetached
  <2>3. ~cancelled => job'[j] # "skipped"
    BY <1>2, <1>8 DEF JobStep, Skip, Begin, CallDetach, Detach, DetachRelease, CallAttach,
                Attach, AttachAcquire, Finish, FinishDetached
  <2>4. QED
    BY <1>1, <2>1, <2>2, <2>3
<1>9. CASE UNCHANGED vars
  BY <1>1, <1>9 DEF vars
<1>10. QED
  BY <1>3, <1>4, <1>5, <1>6, <1>7, <1>8, <1>9 DEF Next, MainStep

(***************************************************************************)
(* When Detachable returns none of its goroutines is left, and a nil error *)
(* means that every job ran to its end.                                    *)
(***************************************************************************)
THEOREM ReturnIsCompleteAlways == Spec => []ReturnIsComplete
<1>1. ReturnInv => ReturnIsComplete
  BY DEF ReturnInv
<1>2. QED
  BY <1>1, OwnedInit, OwnedStep, ReturnInit, ReturnStep, PTL DEF Spec

-----------------------------------------------------------------------------
(* The worker pools: Parallel, For and ForEach.                            *)

\* What the callers pass: a number of jobs, and at least one worker.
Sizes == nJobs \in Nat /\ MaxWorkers \in Nat

ParTypeOK ==
    /\ workers \in Nat \ {0}
    /\ chan \in Seq(Nat)
    /\ sent \in 0 .. nJobs
    /\ closed \in BOOLEAN
    /\ state \in [1 .. workers -> {"idle", "run", "gone"}]
    /\ jobId \in [1 .. workers -> Nat]
    /\ panicked \subseteq 1 .. workers
    /\ ctxDone \in BOOLEAN
    /\ ret \in {Running, "nil", "error", "cancelled"}

(***************************************************************************)
(* One worker: the jobs done are the ones the loop has passed.             *)
(***************************************************************************)
InOrder ==
    Sequential =>
        /\ panicked = {} /\ \A w \in 1 .. workers : state[w] = "idle"
        /\ ret \in {Running, "nil"} => ran = 1 .. sent
        /\ ret = "nil" => sent = nJobs

(***************************************************************************)
(* More workers.  The channel holds the last numbers sent, in order, and   *)
(* the numbers taken from it are accounted for: each is done or belongs to *)
(* exactly one worker, which runs it or panicked on it.                    *)
(***************************************************************************)
Taken == sent - Len(chan)
Holds(w) == state[w] = "run" \/ w \in panicked

\* Neither ctx nor a job has made a worker leave.
Smooth == ~Sequential /\ ~ctxDone /\ errs = {}

Queue ==
    /\ Len(chan) <= sent
    /\ \A i \in 1 .. Len(chan) : chan[i] = Taken + i

Accounted ==
    /\ ran \subseteq 1 .. Taken
    /\ \A j \in 1 .. Taken : j \in ran \/ \E w \in 1 .. workers : Holds(w) /\ jobId[w] = j
    /\ \A w \in 1 .. workers : Holds(w) => jobId[w] \in (1 .. Taken) \ ran
    /\ \A v, w \in 1 .. workers : Holds(v) /\ Holds(w) /\ v # w => jobId[v] # jobId[w]

\* Who leaves, and when the producer closes the channel.
Leaving ==
    /\ \A w \in panicked : state[w] = "gone"
    /\ \A w \in 1 .. workers :
          state[w] = "gone" => w \in panicked \/ (closed /\ chan = <<>>)
    /\ closed => sent = nJobs

\* A call that has returned has no worker left, and nil says that all was smooth.
Over ==
    ~Sequential /\ ret # Running =>
        AllGone /\ (ret = "nil" => ~ctxDone /\ errs = {})

ParInv ==
    /\ ParTypeOK /\ InOrder /\ Over
    /\ Smooth => Queue /\ Accounted /\ Leaving

-----------------------------------------------------------------------------

\* Nothing is sent, taken or done at the start.
LEMMA ParStart ==
    ASSUME Sizes PROVE ParInit => ParInv
<1> SUFFICES ASSUME ParInit PROVE ParInv
  OBVIOUS
<1>1. workers \in Nat \ {0} /\ sent \in 0 .. nJobs
  BY DEF Sizes, ParInit
<1>2. closed \in BOOLEAN /\ ctxDone \in BOOLEAN
  BY Zenon DEF ParInit
<1>3. ParTypeOK
  BY <1>1, <1>2 DEF ParInit, ParTypeOK
<1>4. InOrder /\ Over
  BY <1>1 DEF ParInit, InOrder, Over, Running
<1>5. Queue /\ Accounted /\ Leaving
  BY <1>1 DEF ParInit, Queue, Taken, Accounted, Leaving, Holds
<1>6. QED
  BY <1>3, <1>4, <1>5 DEF ParInv

\* The types are kept.
LEMMA ParTypeStep ==
    ASSUME Sizes, ParTypeOK, [ParNext]_parVars PROVE ParTypeOK'
<1> USE DEF Sizes, ParTypeOK
<1>1. CASE CancelParallel
  BY <1>1 DEF CancelParallel
<1>2. CASE Produce
  <2>1. CASE sent < nJobs /\ chan' = Append(chan, sent + 1) /\ sent' = sent + 1 /\ UNCHANGED closed
    BY <1>2, <2>1 DEF Produce
  <2>2. CASE closed' = TRUE /\ UNCHANGED <<chan, sent>>
    BY <1>2, <2>2 DEF Produce
  <2>3. QED
    BY <1>2, <2>1, <2>2 DEF Produce
<1>3. CASE ReturnOutcome
  BY <1>3 DEF ReturnOutcome, Outcome
<1>4. CASE Sequentially
  BY <1>4 DEF Sequentially
<1>5. ASSUME NEW w \in DOMAIN state, WorkerStep(w) PROVE ParTypeOK'
  <2>1. CASE Take(w)
    <3>1. chan' \in Seq(Nat) /\ Head(chan) \in Nat
      BY <2>1 DEF Take
    <3>2. QED
      BY <2>1, <3>1 DEF Take
  <2>2. CASE Leave(w)
    BY <2>2 DEF Leave
  <2>3. CASE Work(w)
    BY <2>3 DEF Work
  <2>4. CASE Call(w)
    BY <2>4 DEF Call
  <2>5. QED
    BY <1>5, <2>1, <2>2, <2>3, <2>4 DEF WorkerStep, ForCall, ForEachCall
<1>6. CASE UNCHANGED parVars
  BY <1>6 DEF parVars
<1>7. QED
  BY <1>1, <1>2, <1>3, <1>4, <1>5, <1>6 DEF ParNext

\* The loop without goroutines, and the end of the call.
LEMMA SimpleStep ==
    ASSUME Sizes, ParInv, [ParNext]_parVars PROVE InOrder' /\ Over'
<1> USE DEF Sizes, ParInv, ParTypeOK, InOrder, Over, Sequential, AllGone, Running
<1>1. CASE CancelParallel
  BY <1>1 DEF CancelParallel
<1>2. CASE Produce
  BY <1>2 DEF Produce
<1>3. CASE ReturnOutcome
  BY <1>3 DEF ReturnOutcome, Outcome
<1>4. CASE Sequentially
  <2>1. workers = 1 /\ ret = Running /\ ran = 1 .. sent /\ sent \in 0 .. nJobs
    BY <1>4 DEF Sequentially
  <2>2. CASE sent' = sent + 1 /\ ran' = ran \cup {sent + 1} /\ ret' = ret
    <3>1. ran' = 1 .. sent'
      BY <2>1, <2>2
    <3>2. QED
      BY <1>4, <2>1, <2>2, <3>1 DEF Sequentially
  <2>3. CASE ret' = "error"
    BY <1>4, <2>3 DEF Sequentially
  <2>4. CASE /\ ctxDone \/ sent = nJobs
             /\ ret' = IF ctxDone THEN "cancelled" ELSE "nil"
             /\ UNCHANGED <<sent, ran>>
    BY <1>4, <2>1, <2>4 DEF Sequentially
  <2>5. QED
    BY <1>4, <2>2, <2>3, <2>4 DEF Sequentially
<1>5. ASSUME NEW w \in DOMAIN state, WorkerStep(w) PROVE InOrder' /\ Over'
  <2>1. workers # 1 /\ ret = Running
    BY <1>5 DEF WorkerStep, Take, Leave, Work, ForCall, ForEachCall, Call
  <2>2. workers' = workers /\ ret' = ret
    BY <1>5 DEF WorkerStep, Take, Leave, Work, ForCall, ForEachCall, Call
  <2>3. QED
    BY <2>1, <2>2
<1>6. CASE UNCHANGED parVars
  BY <1>6 DEF parVars
<1>7. QED
  BY <1>1, <1>2, <1>3, <1>4, <1>5, <1>6 DEF ParNext

\* A call that is not smooth never becomes so.
LEMMA StaysRough ==
    ASSUME [ParNext]_parVars, Smooth' PROVE Smooth
BY DEF ParNext, parVars, Smooth, Sequential, CancelParallel, Produce, ReturnOutcome, Sequentially,
       WorkerStep, Take, Leave, Work, ForCall, ForEachCall, Call

\* The account of a smooth call.
LEMMA SmoothStep ==
    ASSUME Sizes, ParInv, ParTypeOK', [ParNext]_parVars, Smooth, Smooth'
    PROVE  (Queue /\ Accounted /\ Leaving)'
<1>1. ParTypeOK /\ Queue /\ Accounted /\ Leaving /\ ~Sequential /\ ~ctxDone /\ ~ctxDone'
  BY DEF ParInv, Smooth
<1>2. Taken \in Nat /\ Len(chan) \in Nat /\ sent \in Nat
  BY <1>1 DEF ParTypeOK, Queue, Taken, Sizes
<1> USE DEF Sizes
<1>3. ASSUME UNCHANGED <<workers, chan, sent, closed, state, jobId, ran, panicked>>
      PROVE  (Queue /\ Accounted /\ Leaving)'
  BY <1>1, <1>3 DEF Queue, Taken, Accounted, Leaving, Holds
<1>4. CASE CancelParallel
  BY <1>1, <1>4, Zenon DEF CancelParallel
<1>5. CASE Produce
  <2>1. CASE closed' = TRUE /\ UNCHANGED <<chan, sent>> /\ sent = nJobs
    BY <1>1, <1>5, <2>1 DEF Produce, Queue, Taken, Accounted, Leaving, Holds
  <2>2. CASE /\ sent < nJobs /\ chan' = Append(chan, sent + 1) /\ sent' = sent + 1
             /\ UNCHANGED closed
    <3>1. Len(chan') = Len(chan) + 1 /\ Taken' = Taken
      BY <1>1, <1>2, <2>2 DEF ParTypeOK, Taken
    <3>2. Queue'
      <4>1. \A i \in 1 .. Len(chan) : chan'[i] = chan[i]
        BY <1>1, <1>2, <2>2 DEF ParTypeOK
      <4>2. chan'[Len(chan) + 1] = Taken + Len(chan) + 1
        BY <1>1, <1>2, <2>2 DEF ParTypeOK, Taken
      <4>3. \A i \in 1 .. Len(chan') : i \in 1 .. Len(chan) \/ i = Len(chan) + 1
        BY <1>2, <3>1
      <4>4. QED
        BY <1>1, <1>2, <2>2, <3>1, <4>1, <4>2, <4>3 DEF Queue
    <3>3. UNCHANGED <<workers, state, jobId, ran, panicked>> /\ ~closed
      BY <1>5 DEF Produce
    <3>4. Accounted'
      BY <1>1, <3>1, <3>3 DEF Accounted, Holds
    <3>5. Leaving'
      BY <1>1, <2>2, <3>3 DEF Leaving
    <3>6. QED
      BY <3>2, <3>4, <3>5
  <2>3. QED
    BY <1>1, <1>5, <2>1, <2>2 DEF Produce
<1>6. CASE ReturnOutcome
  BY <1>3, <1>6 DEF ReturnOutcome
<1>7. CASE Sequentially
  BY <1>1, <1>7 DEF Sequentially
<1>8. ASSUME NEW w \in DOMAIN state, WorkerStep(w) PROVE (Queue /\ Accounted /\ Leaving)'
  <2>0. w \in 1 .. workers /\ workers' = workers /\ UNCHANGED <<sent, closed>>
    BY <1>1, <1>8 DEF ParTypeOK, WorkerStep, Take, Leave, Work, ForCall, ForEachCall, Call
  <2>1. CASE Take(w)
    <3>1. chan # <<>> /\ Len(chan) > 0 /\ Head(chan) = Taken + 1
      BY <1>1, <1>2, <2>1 DEF Take, ParTypeOK, Queue
    <3>2. Len(chan') = Len(chan) - 1 /\ Taken' = Taken + 1
      BY <1>1, <1>2, <2>0, <2>1, <3>1 DEF Take, ParTypeOK, Taken
    <3>3. \A i \in 1 .. Len(chan') : chan'[i] = chan[i + 1]
      BY <1>1, <1>2, <2>1, <3>1 DEF Take, ParTypeOK
    <3>4. Queue'
      BY <1>1, <1>2, <2>0, <3>1, <3>2, <3>3 DEF Queue
    <3>5. /\ state'[w] = "run" /\ jobId'[w] = Taken + 1 /\ state[w] = "idle"
          /\ \A v \in 1 .. workers : v # w => state'[v] = state[v] /\ jobId'[v] = jobId[v]
          /\ UNCHANGED <<ran, panicked>>
      BY <1>1, <2>0, <2>1, <3>1 DEF Take, ParTypeOK
    <3>6. Holds(w)' /\ \A v \in 1 .. workers : v # w => (Holds(v)' <=> Holds(v))
      BY <3>5 DEF Holds
    <3>7. ~Holds(w)
      BY <1>1, <2>0, <3>5 DEF Holds, Leaving
    <3>8. Accounted'
      <4>1. (ran \subseteq 1 .. Taken)'
        BY <1>1, <1>2, <3>2, <3>5 DEF Accounted
      <4>2. ASSUME NEW j \in (1 .. Taken)'
            PROVE  (j \in ran \/ \E v \in 1 .. workers : Holds(v) /\ jobId[v] = j)'
        <5>1. CASE j = Taken + 1
          BY <2>0, <3>5, <3>6, <5>1
        <5>2. CASE j \in 1 .. Taken
          BY <1>1, <2>0, <3>5, <3>6, <3>7, <5>2 DEF Accounted
        <5>3. QED
          BY <1>2, <3>2, <4>2, <5>1, <5>2
      <4>3. (\A v \in 1 .. workers : Holds(v) => jobId[v] \in (1 .. Taken) \ ran)'
        BY <1>1, <1>2, <2>0, <3>2, <3>5, <3>6 DEF Accounted
      <4>4. (\A u, v \in 1 .. workers : Holds(u) /\ Holds(v) /\ u # v => jobId[u] # jobId[v])'
        BY <1>1, <1>2, <2>0, <3>5, <3>6 DEF Accounted
      <4>5. QED
        BY <4>1, <4>2, <4>3, <4>4 DEF Accounted
    <3>9. Leaving'
      BY <1>1, <2>0, <3>1, <3>5 DEF Leaving, ParTypeOK
    <3>10. QED
      BY <3>4, <3>8, <3>9
  <2>2. CASE Leave(w)
    <3>1. /\ closed /\ chan = <<>> /\ state[w] = "idle" /\ state'[w] = "gone"
          /\ \A v \in 1 .. workers : v # w => state'[v] = state[v]
          /\ UNCHANGED <<chan, jobId, ran, panicked>>
      BY <1>1, <2>0, <2>2 DEF Leave, ParTypeOK
    <3>2. \A v \in 1 .. workers : Holds(v)' <=> Holds(v)
      BY <3>1 DEF Holds
    <3>3. Queue' /\ Taken' = Taken
      BY <1>1, <2>0, <3>1 DEF Queue, Taken
    <3>4. Accounted'
      BY <1>1, <2>0, <3>1, <3>2, <3>3 DEF Accounted
    <3>5. Leaving'
      BY <1>1, <2>0, <3>1 DEF Leaving, ParTypeOK
    <3>6. QED
      BY <3>3, <3>4, <3>5
  <2>3. CASE state[w] = "run" /\ (Work(w) \/ Call(w))
    <3>1. /\ UNCHANGED <<chan, jobId>>
          /\ \A v \in 1 .. workers : v # w => state'[v] = state[v]
      BY <1>1, <2>0, <2>3 DEF Work, Call, ParTypeOK
    <3>2. Queue' /\ Taken' = Taken
      BY <1>1, <2>0, <3>1 DEF Queue, Taken
    <3>3. w \notin panicked /\ Holds(w)
      BY <1>1, <2>0, <2>3 DEF Leaving, Holds
    <3>4. CASE state'[w] = "idle" /\ ran' = ran \cup {jobId[w]} /\ panicked' = panicked
      <4>1. ~Holds(w)' /\ \A v \in 1 .. workers : v # w => (Holds(v)' <=> Holds(v))
        BY <3>1, <3>3, <3>4 DEF Holds
      <4>2. Accounted'
        BY <1>1, <1>2, <2>0, <3>1, <3>2, <3>3, <3>4, <4>1 DEF Accounted
      <4>3. Leaving'
        BY <1>1, <2>0, <3>1, <3>3, <3>4 DEF Leaving, ParTypeOK
      <4>4. QED
        BY <3>2, <4>2, <4>3
    <3>5. CASE state'[w] = "gone" /\ ran' = ran /\ panicked' = panicked \cup {w}
      <4>1. \A v \in 1 .. workers : Holds(v)' <=> Holds(v)
        BY <3>1, <3>3, <3>5 DEF Holds
      <4>2. Accounted'
        BY <1>1, <2>0, <3>1, <3>2, <3>5, <4>1 DEF Accounted
      <4>3. Leaving'
        BY <1>1, <2>0, <3>1, <3>5 DEF Leaving, ParTypeOK
      <4>4. QED
        BY <3>2, <4>2, <4>3
    <3>6. errs' = {}
      BY DEF Smooth
    <3>7. QED
      BY <1>1, <2>0, <2>3, <3>4, <3>5, <3>6 DEF Work, Call, ParTypeOK
  <2>4. QED
    BY <1>8, <2>1, <2>2, <2>3 DEF WorkerStep, ForCall, ForEachCall, Work, Call
<1>9. CASE UNCHANGED parVars
  BY <1>3, <1>9 DEF parVars
<1>10. QED
  BY <1>4, <1>5, <1>6, <1>7, <1>8, <1>9 DEF ParNext

\* Every step keeps the account.
LEMMA ParStep == ASSUME Sizes, ParInv, [ParNext]_parVars PROVE ParInv'
BY ParTypeStep, SimpleStep, StaysRough, SmoothStep DEF ParInv

\* When a smooth call is over, the jobs that did not run are one for each
\* worker that panicked, unless no worker is left to take them.
LEMMA LostJobs ==
    ASSUME Sizes, ParInv, ret = "nil" PROVE NilMeansAllRan
<1> USE DEF Sizes
<1>1. ParTypeOK
  BY DEF ParInv
<1>2. CASE Sequential
  <2>1. JobIds \ ran = {} /\ panicked = {}
    BY <1>2 DEF ParInv, InOrder, JobIds, Running
  <2>2. QED
    BY <2>1 DEF NilMeansAllRan
<1>3. CASE ~Sequential
  <2>1. AllGone /\ Queue /\ Accounted /\ Leaving
    BY <1>3 DEF ParInv, Over, Running, Smooth
  <2>2. CASE panicked = 1 .. workers
    BY <1>1, <2>2, FS_Interval DEF ParTypeOK, NilMeansAllRan
  <2>3. CASE panicked # 1 .. workers
    <3>1. PICK w \in 1 .. workers : w \notin panicked
      BY <1>1, <2>3 DEF ParTypeOK
    <3>2. closed /\ chan = <<>> /\ Taken = nJobs
      BY <1>1, <2>1, <3>1 DEF Leaving, AllGone, ParTypeOK, Taken
    <3>3. \A v \in 1 .. workers : Holds(v) <=> v \in panicked
      BY <1>1, <2>1 DEF Holds, AllGone, ParTypeOK
    <3>4. /\ \A v \in panicked : jobId[v] \in JobIds \ ran
          /\ \A u, v \in panicked : u # v => jobId[u] # jobId[v]
          /\ \A j \in JobIds \ ran : \E v \in panicked : jobId[v] = j
      BY <1>1, <2>1, <3>2, <3>3 DEF Accounted, JobIds, ParTypeOK
    <3>5. IsFiniteSet(panicked)
      <4>1. IsFiniteSet(1 .. workers)
        BY <1>1, FS_Interval DEF ParTypeOK
      <4>2. QED
        BY <1>1, <4>1, FS_Subset DEF ParTypeOK
    <3> DEFINE f == [v \in panicked |-> jobId[v]]
    <3>6. f \in Bijection(panicked, JobIds \ ran)
      BY <3>4 DEF Bijection, Injection, Surjection, IsInjective
    <3>7. Cardinality(panicked) = Cardinality(JobIds \ ran)
      BY <3>5, <3>6, FS_Bijection DEF ExistsBijection
    <3>8. QED
      BY <3>7 DEF NilMeansAllRan
  <2>4. QED
    BY <2>2, <2>3
<1>4. QED
  BY <1>2, <1>3

(***************************************************************************)
(* A call of Parallel, For or ForEach that returns nil has run every job,  *)
(* but for one for each worker that panicked; only when all workers have   *)
(* panicked may more be lost.                                              *)
(***************************************************************************)
THEOREM NilMeansAllRanAlways ==
    ASSUME Sizes PROVE ParSpec => []NilMeansAllRan
<1>1. ParInit => ParInv
  BY ParStart
<1>2. ParInv /\ [ParNext]_parVars => ParInv'
  BY ParStep
<1>3. ParInv => NilMeansAllRan
  BY LostJobs DEF NilMeansAllRan
<1>4. QED
  BY <1>1, <1>2, <1>3, PTL DEF ParSpec

-----------------------------------------------------------------------------
(* The training loops: Training.                                           *)

\* A number of epochs.
Epochs == NEpochs \in Nat

Evaluation == [epoch : Nat, value : Int, weights : Nat]

FitTypeOK ==
    /\ epoch \in Nat \ {0} /\ weights \in Nat /\ patience \in Nat /\ answer \in Nat
    /\ fitPhase \in {"epoch", "trained", "ended"}
    /\ scores \in Seq(Evaluation) /\ Len(scores) >= 1

\* Evaluations are made one epoch after the other.
Ordered(s) ==
    /\ \A k \in 1 .. Len(s) : s[k].epoch <= epoch
    /\ \A m, k \in 1 .. Len(s) : m <= k => s[m].epoch <= s[k].epoch

\* What lo.MaxBy looks for: beaten by none, and better than all before it.
IsBest(s, k) ==
    /\ \A m \in 1 .. Len(s) : ~Beats(s[m].value, s[k].value)
    /\ \A m \in 1 .. k - 1 : Beats(s[k].value, s[m].value)

\* While the loop goes on every evaluation measured NaN, or none did.
Comparable(s) ==
    \/ \A k \in 1 .. Len(s) : s[k].value = NaN
    \/ \A k \in 1 .. Len(s) : s[k].value # NaN

\* Improves and Flat of a list of evaluations.
ImprovesIn(s, k) == \A m \in 1 .. k - 1 : Beats(s[k].value, s[m].value)
FlatIn(s, k) ==
    /\ patience > 0 /\ s[k].epoch > patience
    /\ \A m \in 1 .. k : s[m].epoch > s[k].epoch - patience => ~ImprovesIn(s, m)

(***************************************************************************)
(* While the loop goes on, a best evaluation exists, and at none so far    *)
(* the last patience epochs were without improvement.                      *)
(***************************************************************************)
FitInv ==
    /\ FitTypeOK /\ Ordered(scores) /\ ScoreIsOfModel /\ StopsWhenFlat
    /\ ~Ended => /\ Comparable(scores)
                 /\ \E k \in 1 .. Len(scores) : IsBest(scores, k)
                 /\ \A k \in 1 .. Len(scores) : ~FlatIn(scores, k)

\* What a list of evaluations holds.
LEMMA Entries ==
    ASSUME NEW s \in Seq(Evaluation)
    PROVE  \A j \in 1 .. Len(s) : s[j].epoch \in Nat /\ s[j].value \in Int /\ s[j].weights \in Nat
<1>1. \A j \in 1 .. Len(s) : s[j] \in Evaluation
  OBVIOUS
<1>2. QED
  BY <1>1 DEF Evaluation

\* There is at most one best evaluation, so Best is the one that was found.
LEMMA BestIs ==
    ASSUME NEW s \in Seq(Evaluation), NEW k \in 1 .. Len(s), IsBest(s, k) PROVE Best(s) = k
<1>1. DOMAIN s = 1 .. Len(s) /\ Len(s) \in Nat
  OBVIOUS
<1>2. ASSUME NEW j \in 1 .. Len(s), IsBest(s, j) PROVE j = k
  <2>1. CASE j < k
    BY <1>1, <1>2, <2>1 DEF IsBest
  <2>2. CASE k < j
    BY <1>1, <1>2, <2>2 DEF IsBest
  <2>3. QED
    BY <1>1, <2>1, <2>2
<1>3. Best(s) = CHOOSE j \in 1 .. Len(s) : IsBest(s, j)
  BY <1>1 DEF Best, IsBest
<1>4. QED
  BY <1>2, <1>3

\* One more evaluation: the best so far stays the best, or the new one is.
LEMMA BestGrows ==
    ASSUME NEW s \in Seq(Evaluation), NEW k \in 1 .. Len(s), IsBest(s, k), Comparable(s),
           NEW e \in Evaluation, \/ \A j \in 1 .. Len(s) : s[j].value # NaN
                                 \/ e.value = NaN
    PROVE  \E j \in 1 .. Len(s) + 1 : IsBest(Append(s, e), j)
<1> DEFINE t == Append(s, e)
<1>1. /\ Len(s) \in Nat /\ Len(t) = Len(s) + 1 /\ t[Len(s) + 1] = e
      /\ \A j \in 1 .. Len(s) : t[j] = s[j] /\ s[j] \in Evaluation
  OBVIOUS
<1> HIDE DEF t
<1>2. CASE Beats(e.value, s[k].value)
  <2>1. \A j \in 1 .. Len(s) : s[j].value # NaN
    BY <1>2 DEF Beats, Comparable
  <2>2. ASSUME NEW j \in 1 .. Len(s) PROVE Beats(e.value, s[j].value)
    <3>1. ~Beats(s[j].value, s[k].value)
      BY DEF IsBest
    <3>2. s[j].value \in Int /\ s[k].value \in Int /\ e.value \in Int
      BY <1>1 DEF Evaluation
    <3>3. QED
      BY <1>2, <2>1, <3>1, <3>2 DEF Beats
  <2>3. ASSUME NEW j \in 1 .. Len(s) + 1 PROVE ~Beats(t[j].value, e.value)
    <3>1. CASE j = Len(s) + 1
      BY <1>1, <3>1 DEF Beats, Evaluation
    <3>2. CASE j \in 1 .. Len(s)
      <4>1. t[j].value = s[j].value /\ s[j].value \in Int /\ e.value \in Int
        BY <1>1, <3>2 DEF Evaluation
      <4>2. QED
        BY <2>2, <3>2, <4>1 DEF Beats
    <3>3. QED
      BY <1>1, <3>1, <3>2
  <2>4. IsBest(t, Len(s) + 1)
    BY <1>1, <2>2, <2>3 DEF IsBest
  <2>5. QED
    BY <1>1, <2>4 DEF t
<1>3. CASE ~Beats(e.value, s[k].value)
  <2>1. IsBest(t, k)
    BY <1>1, <1>3 DEF IsBest
  <2>2. QED
    BY <1>1, <2>1 DEF t
<1>4. QED
  BY <1>2, <1>3

\* EarlyStop looks at the age of the best evaluation; that is as old as the last
\* improvement.
LEMMA StopIsFlat ==
    ASSUME NEW s \in Seq(Evaluation), Len(s) >= 1, Ordered(s), s[Len(s)].epoch = epoch,
           FitTypeOK, NEW b \in 1 .. Len(s), IsBest(s, b)
    PROVE  EarlyStop(s) <=> FlatIn(s, Len(s))
<1>1. Best(s) = b
  BY BestIs
<1>2. Len(s) \in Nat /\ epoch \in Nat /\ patience \in Nat /\ \A j \in 1 .. Len(s) : s[j].epoch \in Nat
  BY Entries DEF FitTypeOK
<1>3. ImprovesIn(s, b)
  BY DEF IsBest, ImprovesIn
<1>4. ASSUME NEW m \in 1 .. Len(s), m > b PROVE ~ImprovesIn(s, m)
  BY <1>2, <1>4 DEF IsBest, ImprovesIn
<1>5. ASSUME s[b].epoch <= epoch - patience, NEW m \in 1 .. Len(s), s[m].epoch > epoch - patience
      PROVE  m > b
  <2>1. CASE m <= b
    <3>1. s[m].epoch <= s[b].epoch
      BY <2>1 DEF Ordered
    <3>2. QED
      BY <1>2, <1>5, <3>1
  <2>2. QED
    BY <1>2, <2>1
<1>6. ASSUME s[b].epoch <= epoch - patience
      PROVE  \A m \in 1 .. Len(s) : s[m].epoch > epoch - patience => ~ImprovesIn(s, m)
  BY <1>4, <1>5, <1>6
<1>7. ASSUME \A m \in 1 .. Len(s) : s[m].epoch > epoch - patience => ~ImprovesIn(s, m)
      PROVE  s[b].epoch <= epoch - patience
  BY <1>2, <1>3, <1>7
<1>8. QED
  BY <1>1, <1>6, <1>7 DEF EarlyStop, FlatIn

\* Whether training was flat at an evaluation does not change later.
LEMMA FlatStays ==
    ASSUME NEW s \in Seq(Evaluation), NEW e \in Evaluation, NEW k \in 1 .. Len(s)
    PROVE  FlatIn(Append(s, e), k) <=> FlatIn(s, k)
<1>1. Len(s) \in Nat /\ \A j \in 1 .. Len(s) : Append(s, e)[j] = s[j]
  OBVIOUS
<1>2. \A m \in 1 .. k : m \in 1 .. Len(s) /\ \A j \in 1 .. m - 1 : j \in 1 .. Len(s)
  BY <1>1
<1>3. \A m \in 1 .. k : ImprovesIn(Append(s, e), m) <=> ImprovesIn(s, m)
  BY <1>1, <1>2 DEF ImprovesIn
<1>4. QED
  BY <1>1, <1>2, <1>3 DEF FlatIn

\* The model's own words for Flat.
LEMMA FlatIs == \A k : Flat(k) <=> FlatIn(scores, k)
  BY DEF Flat, FlatIn, Improves, ImprovesIn

\* The untrained model has been evaluated.
LEMMA FitStart == ASSUME Epochs PROVE FitInit => FitInv
<1> SUFFICES ASSUME FitInit PROVE FitInv
  OBVIOUS
<1>1. PICK v \in Int : scores = <<[epoch |-> 0, value |-> v, weights |-> 0]>>
  BY DEF FitInit, NaN
<1>2. [epoch |-> 0, value |-> v, weights |-> 0] \in Evaluation
  BY DEF Evaluation
<1>3. /\ scores \in Seq(Evaluation) /\ Len(scores) = 1 /\ scores[1].epoch = 0
      /\ scores[1].value = v /\ scores[1].weights = 0
  BY <1>1, <1>2
<1>4. /\ epoch = 1 /\ weights = 0 /\ patience \in Nat
      /\ fitPhase = IF NEpochs = 0 THEN "ended" ELSE "epoch"
      /\ answer = IF NEpochs = 0 THEN 1 ELSE 0
  BY DEF FitInit
<1>5. FitTypeOK /\ Ordered(scores) /\ ScoreIsOfModel
  BY <1>3, <1>4 DEF FitTypeOK, Ordered, ScoreIsOfModel, Ended
<1>6. \A k \in 1 .. Len(scores) : ~FlatIn(scores, k)
  BY <1>3, <1>4 DEF FlatIn
<1>7. StopsWhenFlat
  BY <1>3, <1>4, <1>6, FlatIs DEF StopsWhenFlat, Ended, Epochs
<1>8. Comparable(scores) /\ IsBest(scores, 1)
  BY <1>3 DEF Comparable, IsBest, Beats
<1>9. QED
  BY <1>3, <1>5, <1>6, <1>7, <1>8 DEF FitInv

\* The step that evaluates.
LEMMA EvaluateKeeps == ASSUME Epochs, FitInv, EvaluateEpoch PROVE FitInv'
<1> DEFINE E(v) == [epoch |-> epoch, value |-> v, weights |-> weights]
<1>1. PICK v \in Evaluations :
        /\ scores' = Append(scores, E(v))
        /\ Proceed(Append(scores, E(v)), Diverged(Append(scores, E(v))) \/ EarlyStop(Append(scores, E(v))))
  BY DEF EvaluateEpoch, Scored
<1>2. /\ fitPhase = "trained" /\ ~Ended /\ FitTypeOK /\ Ordered(scores)
      /\ UNCHANGED <<trainer, patience, weights, fitCancelled>>
  BY DEF EvaluateEpoch, FitInv, Ended
<1>3. v \in Int
  BY <1>1 DEF Evaluations, NaN
<1>4. E(v) \in Evaluation /\ E(v).epoch = epoch /\ E(v).value = v /\ E(v).weights = weights
  BY <1>2, <1>3 DEF Evaluation, FitTypeOK
<1>5. PICK e \in Evaluation : e = E(v)
  BY <1>4
<1> HIDE DEF E
<1>6. PICK t : t = Append(scores, e)
  OBVIOUS
<1>7. scores' = t /\ Proceed(t, Diverged(t) \/ EarlyStop(t))
  BY <1>1, <1>5, <1>6
<1>8. /\ scores \in Seq(Evaluation) /\ t \in Seq(Evaluation) /\ Len(scores) \in Nat
      /\ Len(scores) >= 1 /\ Len(t) = Len(scores) + 1 /\ t[Len(t)] = e
      /\ \A j \in 1 .. Len(scores) : t[j] = scores[j]
  BY <1>2, <1>6 DEF FitTypeOK
<1>9. e.epoch = epoch /\ e.value = v /\ e.weights = weights
  BY <1>4, <1>5
<1>10. Ordered(t)
  <2>1. \A j \in 1 .. Len(scores) : scores[j].epoch \in Nat
    BY <1>8, Entries
  <2>2. \A j \in 1 .. Len(t) : t[j].epoch <= epoch
    BY <1>2, <1>8, <1>9 DEF Ordered, FitTypeOK
  <2>3. ASSUME NEW m \in 1 .. Len(t), NEW k \in 1 .. Len(t), m <= k PROVE t[m].epoch <= t[k].epoch
    <3>1. CASE k = Len(t)
      BY <1>8, <1>9, <2>2, <3>1
    <3>2. CASE k \in 1 .. Len(scores)
      <4>1. m \in 1 .. Len(scores)
        BY <1>8, <2>3, <3>2
      <4>2. QED
        BY <1>2, <1>8, <2>3, <3>2, <4>1 DEF Ordered
    <3>3. QED
      BY <1>8, <3>1, <3>2
  <2>4. QED
    BY <2>2, <2>3 DEF Ordered
<1>11. Comparable(scores) /\ \A k \in 1 .. Len(scores) : ~FlatIn(scores, k)
  BY <1>2 DEF FitInv
<1>12. PICK k \in 1 .. Len(scores) : IsBest(scores, k)
  BY <1>2 DEF FitInv
<1>13. (\A j \in 1 .. Len(scores) : scores[j].value # NaN) \/ e.value = NaN
  <2>1. CASE scores[1].value = NaN
    BY <1>1, <1>9, <2>1 DEF Evaluations
  <2>2. CASE scores[1].value # NaN
    BY <1>8, <1>11, <2>2 DEF Comparable
  <2>3. QED
    BY <2>1, <2>2
<1>14. PICK b \in 1 .. Len(t) : IsBest(t, b)
  BY <1>6, <1>8, <1>11, <1>12, <1>13, BestGrows
<1>15. EarlyStop(t) <=> FlatIn(t, Len(t))
  BY <1>2, <1>8, <1>9, <1>10, <1>14, StopIsFlat
<1>16. \A j \in 1 .. Len(scores) : ~FlatIn(t, j)
  BY <1>6, <1>8, <1>11, FlatStays
<1>17. \A j : Flat(j)' <=> FlatIn(t, j)
  BY <1>2, <1>7 DEF Flat, FlatIn, Improves, ImprovesIn
<1>18. CASE Diverged(t) \/ EarlyStop(t) \/ epoch = NEpochs
  <2>1. fitPhase' = "ended" /\ answer' = Len(t) /\ epoch' = epoch
    BY <1>7, <1>18 DEF Proceed
  <2>2. FitTypeOK' /\ Ordered(scores)'
    BY <1>2, <1>7, <1>8, <1>10, <2>1 DEF FitTypeOK, Ordered
  <2>3. ScoreIsOfModel'
    BY <1>2, <1>7, <1>8, <1>9, <2>1 DEF ScoreIsOfModel
  <2>4. \A j \in 1 .. Len(t) - 1 : ~FlatIn(t, j)
    BY <1>8, <1>16
  <2>5. epoch < NEpochs => FlatIn(t, Len(t)) \/ Diverged(t)
    BY <1>2, <1>15, <1>18 DEF FitTypeOK, Epochs
  <2>6. Diverged(scores)' <=> Diverged(t)
    BY <1>2, <1>7 DEF Diverged
  <2>7. StopsWhenFlat'
    BY <1>7, <1>17, <2>1, <2>4, <2>5, <2>6 DEF StopsWhenFlat
  <2>8. Ended'
    BY <2>1 DEF Ended
  <2>9. QED
    BY <2>2, <2>3, <2>7, <2>8 DEF FitInv
<1>19. CASE ~(Diverged(t) \/ EarlyStop(t) \/ epoch = NEpochs)
  <2>1. fitPhase' = "epoch" /\ epoch' = epoch + 1 /\ answer' = answer
    BY <1>7, <1>19 DEF Proceed
  <2>2. ~Ended'
    BY <2>1 DEF Ended
  <2>3. FitTypeOK'
    BY <1>2, <1>7, <1>8, <2>1 DEF FitTypeOK
  <2>4. Ordered(scores)'
    <3>1. \A j \in 1 .. Len(t) : t[j].epoch \in Nat
      BY <1>8, Entries
    <3>2. QED
      BY <1>2, <1>7, <1>10, <2>1, <3>1 DEF Ordered, FitTypeOK
  <2>5. \A j \in 1 .. Len(t) : ~FlatIn(t, j)
    BY <1>8, <1>15, <1>16, <1>19
  <2>6. StopsWhenFlat' /\ ScoreIsOfModel'
    BY <1>7, <1>8, <1>17, <2>2, <2>5 DEF StopsWhenFlat, ScoreIsOfModel
  <2>7. \A j \in 1 .. Len(t) : ~FlatIn(scores, j)'
    BY <1>2, <1>7, <2>5 DEF FlatIn, ImprovesIn
  <2>8. Comparable(t)
    <3>1. CASE e.value = NaN
      <4>1. trainer # "afm"
        BY <1>8, <1>19, <3>1 DEF Diverged
      <4>2. scores[1].value = NaN
        BY <1>1, <1>9, <3>1, <4>1 DEF Evaluations, NaN
      <4>3. QED
        BY <1>8, <1>11, <3>1, <4>2 DEF Comparable
    <3>2. CASE e.value # NaN
      BY <1>8, <1>13, <3>2 DEF Comparable
    <3>3. QED
      BY <3>1, <3>2
  <2>9. Comparable(scores)' /\ \E j \in 1 .. Len(t) : IsBest(scores, j)'
    BY <1>7, <1>14, <2>8 DEF Comparable, IsBest
  <2>10. QED
    BY <1>7, <2>3, <2>4, <2>6, <2>7, <2>9 DEF FitInv
<1>20. QED
  BY <1>18, <1>19

\* Every step keeps the invariant.
LEMMA FitStep == ASSUME Epochs, FitInv, [FitNext]_fitVars PROVE FitInv'
<1> DEFINE Same == UNCHANGED <<trainer, patience, epoch, scores>>
<1>1. ASSUME Same, UNCHANGED <<weights, fitPhase, answer>>, fitCancelled => fitCancelled'
      PROVE  FitInv'
  BY <1>1 DEF FitInv, FitTypeOK, Ordered, ScoreIsOfModel, StopsWhenFlat, Flat, Improves,
              Ended, Diverged, Comparable, IsBest, FlatIn, ImprovesIn, Beats
<1>2. CASE CancelFit
  BY <1>1, <1>2 DEF CancelFit
<1>3. CASE TrainBatch
  BY <1>1, <1>3 DEF TrainBatch
<1>4. CASE SwitchSides
  BY <1>1, <1>4 DEF SwitchSides
<1>5. ASSUME NEW w \in Workers, TrainerStep(w) PROVE FitInv'
  BY <1>1, <1>5 DEF TrainerStep, TakeJob, UpdatePair, UpdateFactor
<1>6. CASE UNCHANGED fitVars
  BY <1>1, <1>6 DEF fitVars
<1>7. ASSUME Same, ~Ended, FitTypeOK', ScoreIsOfModel', Ended' => answer' = 0 PROVE FitInv'
  <2>1. \A k \in 1 .. Len(scores) : ~Flat(k)
    BY <1>7, FlatIs DEF FitInv
  <2>2. \A k : Flat(k)' <=> Flat(k)
    BY <1>7 DEF Flat, Improves
  <2>3. StopsWhenFlat'
    BY <1>7, <2>1, <2>2 DEF StopsWhenFlat, FitInv, FitTypeOK, Ended
  <2>4. QED
    BY <1>7, <2>3 DEF FitInv, Ordered, Comparable, IsBest, FlatIn, ImprovesIn
<1>8. CASE Abort
  <2>1. Same /\ ~Ended /\ fitPhase' = "ended" /\ answer' = 0 /\ weights' = weights /\ fitCancelled'
    BY <1>8 DEF Abort, Ended
  <2>2. FitTypeOK' /\ ScoreIsOfModel'
    BY <2>1 DEF FitInv, FitTypeOK, ScoreIsOfModel
  <2>3. QED
    BY <1>7, <2>1, <2>2
<1>9. CASE EpochTrained
  <2>1. Same /\ ~Ended /\ fitPhase' = "trained" /\ answer' = answer /\ weights' = weights + 1
    BY <1>9 DEF EpochTrained, Ended
  <2>2. FitTypeOK' /\ ScoreIsOfModel' /\ ~Ended'
    BY <2>1 DEF FitInv, FitTypeOK, ScoreIsOfModel, Ended
  <2>3. QED
    BY <1>7, <2>1, <2>2
<1>10. CASE SkipEvaluation
  <2>1. /\ UNCHANGED <<trainer, patience, scores, weights>> /\ epoch' = epoch + 1 /\ ~Ended
        /\ fitPhase' = "epoch" /\ answer' = answer
    BY <1>10 DEF SkipEvaluation, Evaluates, Proceed, Ended
  <2>2. FitTypeOK' /\ ScoreIsOfModel' /\ ~Ended'
    BY <2>1 DEF FitInv, FitTypeOK, ScoreIsOfModel, Ended
  <2>3. Ordered(scores)'
    <3>1. \A j \in 1 .. Len(scores) : scores[j].epoch \in Nat
      BY Entries DEF FitInv, FitTypeOK
    <3>2. epoch \in Nat /\ Ordered(scores)
      BY DEF FitInv, FitTypeOK
    <3>3. \A j \in 1 .. Len(scores) : scores[j].epoch <= epoch + 1
      BY <3>1, <3>2 DEF Ordered
    <3>4. QED
      BY <2>1, <3>2, <3>3 DEF Ordered
  <2>4. \A k : Flat(k)' <=> FlatIn(scores, k)
    BY <2>1 DEF Flat, Improves, FlatIn, ImprovesIn
  <2>5. StopsWhenFlat'
    BY <2>1, <2>2, <2>4 DEF StopsWhenFlat, FitInv, FitTypeOK
  <2>6. QED
    BY <2>1, <2>2, <2>3, <2>5 DEF FitInv, Comparable, IsBest, FlatIn, ImprovesIn
<1>11. CASE EvaluateEpoch
  BY <1>11, EvaluateKeeps
<1>12. QED
  BY <1>2, <1>3, <1>4, <1>5, <1>6, <1>8, <1>9, <1>10, <1>11 DEF FitNext

(***************************************************************************)
(* The score that Fit returns, which decides what is published, was        *)
(* measured on the weights it leaves behind, and training stops early      *)
(* exactly when the last patience epochs brought no improvement: for every *)
(* number of epochs, jobs and workers, every patience and every score.     *)
(***************************************************************************)
THEOREM FitKeepsBestAlways ==
    ASSUME Epochs
    PROVE  FitSpec => []FitKeepsBest
<1>1. FitInit => FitInv
  BY FitStart
<1>2. FitInv /\ [FitNext]_fitVars => FitInv'
  BY FitStep
<1>3. FitInv => FitKeepsBest
  BY DEF FitInv, FitKeepsBest
<1>4. QED
  BY <1>1, <1>2, <1>3, PTL DEF FitSpec

-----------------------------------------------------------------------------
(* Ranking.                                                                *)

\* A set of numbers has a least member.
LEMMA LeastOf == ASSUME NEW S \in SUBSET Nat, S # {} PROVE \E x \in S : \A y \in S : x <= y
<1>1. PICK x \in S : \A y \in S : ~(<<y, x>> \in OpToRel(<, Nat))
  BY NatLessThanWellFounded, WFMin
<1>2. \A y \in S : ~(y < x)
  BY <1>1 DEF OpToRel
<1>3. QED
  BY <1>2

\* What Keep has kept after each of the first m elements.
IsKept(f, s, S, m) ==
    f = [n \in 0 .. m |-> IF n = 0 THEN <<>> ELSE IF s[n] \in S THEN Append(f[n - 1], s[n]) ELSE f[n - 1]]

LEMMA KeptExists ==
  ASSUME NEW s, NEW S, NEW m \in Nat
  PROVE  \E f : IsKept(f, s, S, m)
<1> DEFINE Bad == {k \in Nat : ~\E f : IsKept(f, s, S, k)}
<1>1. SUFFICES ASSUME Bad # {} PROVE FALSE
  OBVIOUS
<1>2. PICK k \in Bad : \A j \in Bad : k <= j
  BY <1>1, LeastOf
<1>3. k # 0
  <2>1. IsKept([n \in 0 .. 0 |-> <<>>], s, S, 0)
    BY DEF IsKept
  <2>2. QED
    BY <1>2, <2>1
<1>4. PICK f : IsKept(f, s, S, k - 1)
  BY <1>2, <1>3
<1>5. PICK v : v = IF s[k] \in S THEN Append(f[k - 1], s[k]) ELSE f[k - 1]
  OBVIOUS
<1>6. PICK g : g = [n \in 0 .. k |-> IF n = k THEN v ELSE f[n]]
  OBVIOUS
<1>7. IsKept(g, s, S, k)
  <2>1. ASSUME NEW n \in 0 .. k, n # k, n # 0
        PROVE  g[n] = IF s[n] \in S THEN Append(g[n - 1], s[n]) ELSE g[n - 1]
    <3>1. n \in 0 .. k - 1 /\ n - 1 \in 0 .. k - 1 /\ g[n] = f[n] /\ g[n - 1] = f[n - 1]
      BY <1>2, <1>6, <2>1
    <3>2. f[n] = IF s[n] \in S THEN Append(f[n - 1], s[n]) ELSE f[n - 1]
      BY <1>4, <2>1, <3>1 DEF IsKept
    <3>3. QED
      BY <3>1, <3>2
  <2>2. g[k] = IF s[k] \in S THEN Append(g[k - 1], s[k]) ELSE g[k - 1]
    BY <1>2, <1>3, <1>5, <1>6
  <2>3. g[0] = <<>>
    BY <1>2, <1>3, <1>4, <1>6 DEF IsKept
  <2>4. g = [n \in 0 .. k |-> g[n]]
    BY <1>6
  <2>5. \A n \in 0 .. k : g[n] = IF n = 0 THEN <<>> ELSE IF s[n] \in S THEN Append(g[n - 1], s[n]) ELSE g[n - 1]
    BY <1>3, <2>1, <2>2, <2>3
  <2>6. QED
    BY <2>4, <2>5 DEF IsKept
<1>8. QED
  BY <1>2, <1>7

\* Keep is what it has kept at the end.
LEMMA KeepIs ==
  ASSUME NEW s, Len(s) \in Nat, NEW S
  PROVE  \E f : IsKept(f, s, S, Len(s)) /\ Keep(s, S) = f[Len(s)]
<1>1. PICK m \in Nat : m = Len(s)
  OBVIOUS
<1>2. PICK g : IsKept(g, s, S, m)
  BY KeptExists
<1>3. QED
  BY <1>1, <1>2 DEF Keep, IsKept

\* What is kept is of s and in S, and each element either adds one or is one more that is left out.
LEMMA KeptIs ==
  ASSUME NEW A, NEW s \in Seq(A), NEW S, NEW f, IsKept(f, s, S, Len(s))
  PROVE  \A n \in 0 .. Len(s) :
           /\ f[n] \in Seq(A)
           /\ \A k \in 1 .. Len(f[n]) : f[n][k] \in S \cap {s[j] : j \in 1 .. n}
           /\ IsFiniteSet({j \in 1 .. n : s[j] \notin S})
           /\ Len(f[n]) + Cardinality({j \in 1 .. n : s[j] \notin S}) = n
<1> DEFINE P(i) == /\ f[i] \in Seq(A)
                   /\ \A k \in 1 .. Len(f[i]) : f[i][k] \in S \cap {s[j] : j \in 1 .. i}
                   /\ IsFiniteSet({j \in 1 .. i : s[j] \notin S})
                   /\ Len(f[i]) + Cardinality({j \in 1 .. i : s[j] \notin S}) = i
           Bad == {i \in 0 .. Len(s) : ~P(i)}
<1>1. Len(s) \in Nat
  BY LenProperties
<1>2. SUFFICES ASSUME Bad # {} PROVE FALSE
  BY <1>1
<1>3. PICK i \in Bad : \A j \in Bad : i <= j
  <2>1. Bad \subseteq Nat
    BY <1>1
  <2>2. QED
    BY <1>2, <2>1, LeastOf
<1>4. i \in 0 .. Len(s) /\ i \in Nat /\ ~P(i)
  BY <1>1, <1>3
<1>5. CASE i = 0
  <2>1. f[0] = <<>>
    BY <1>1 DEF IsKept
  <2>2. {j \in 1 .. 0 : s[j] \notin S} = {}
    OBVIOUS
  <2>3. P(0)
    BY <2>1, <2>2, FS_EmptySet
  <2>4. QED
    BY <1>4, <1>5, <2>3
<1>6. CASE i # 0
  <2>1. i - 1 \in 0 .. Len(s) /\ i \in 1 .. Len(s) /\ s[i] \in A
    BY <1>1, <1>4, <1>6
  <2>2. P(i - 1)
    <3>1. i - 1 \notin Bad
      <4> HIDE DEF Bad
      <4>1. QED
        BY <1>3, <1>4
    <3> HIDE DEF P
    <3>2. QED
      BY <2>1, <3>1
  <2>3. f[i] = IF s[i] \in S THEN Append(f[i - 1], s[i]) ELSE f[i - 1]
    BY <1>4, <1>6 DEF IsKept
  <2>4. PICK O : O = {j \in 1 .. i - 1 : s[j] \notin S}
    OBVIOUS
  <2>9. PICK p : p = f[i - 1]
    OBVIOUS
  <2>10. PICK Q, q : Q = {j \in 1 .. i : s[j] \notin S} /\ q = f[i]
    OBVIOUS
  <2>8. /\ p \in Seq(A) /\ Len(p) \in Nat /\ IsFiniteSet(O) /\ Cardinality(O) \in Nat /\ Len(p) + Cardinality(O) = i - 1
        /\ \A k \in 1 .. Len(p) : p[k] \in S \cap {s[j] : j \in 1 .. i - 1}
    BY <2>2, <2>4, <2>9, LenProperties, FS_CardinalityType
  <2>11. SUFFICES /\ q \in Seq(A) /\ \A k \in 1 .. Len(q) : q[k] \in S \cap {s[j] : j \in 1 .. i}
                  /\ IsFiniteSet(Q) /\ Len(q) + Cardinality(Q) = i
    BY <1>4, <2>10
  <2> HIDE DEF P, Bad
  <2>12. i \in 1 .. i /\ \A j \in 1 .. i - 1 : j \in 1 .. i
    BY <1>4, <1>6
  <2>13. i \in Nat /\ Len(p) \in Nat /\ Cardinality(O) \in Nat /\ Len(p) + Cardinality(O) = i - 1
    BY <1>4, <2>8
  <2>5. CASE s[i] \in S
    <3>1. q = Append(p, s[i])
      BY <2>3, <2>5, <2>9, <2>10
    <3>2. /\ q \in Seq(A) /\ Len(q) = Len(p) + 1 /\ q[Len(p) + 1] = s[i]
          /\ \A k \in 1 .. Len(p) : q[k] = p[k]
      BY <2>1, <2>8, <3>1, AppendProperties
    <3>3. ASSUME NEW k \in 1 .. Len(q) PROVE q[k] \in S \cap {s[j] : j \in 1 .. i}
      <4>1. CASE k = Len(p) + 1
        BY <2>5, <2>12, <3>2, <4>1
      <4>2. CASE k # Len(p) + 1
        <5>1. k \in 1 .. Len(p) /\ q[k] = p[k]
          BY <2>8, <3>2, <4>2
        <5>2. QED
          BY <2>8, <2>12, <5>1
      <4>3. QED
        BY <4>1, <4>2
    <3>4. Q = O
      BY <1>4, <1>6, <2>4, <2>5, <2>10
    <3>5. Len(q) + Cardinality(Q) = i
      <4>1. Len(q) = Len(p) + 1 /\ Cardinality(Q) = Cardinality(O)
        BY <3>2, <3>4
      <4>2. QED
        BY <2>13, <4>1
    <3>6. QED
      BY <2>8, <3>2, <3>3, <3>4, <3>5
  <2>6. CASE s[i] \notin S
    <3>1. q = p
      BY <2>3, <2>6, <2>9, <2>10
    <3>2. Q = O \cup {i} /\ i \notin O
      BY <1>4, <1>6, <2>4, <2>6, <2>10
    <3>3. IsFiniteSet(Q) /\ Cardinality(Q) = Cardinality(O) + 1
      BY <2>8, <3>2, FS_AddElement
    <3>4. Len(q) + Cardinality(Q) = i
      BY <2>13, <3>1, <3>3
    <3>5. QED
      BY <2>8, <2>12, <3>1, <3>3, <3>4
  <2>7. QED
    BY <2>5, <2>6
<1>7. QED
  BY <1>5, <1>6

\* What is kept of a longer part of a sequence begins with what is kept of a shorter one.
LEMMA KeptGrows ==
  ASSUME NEW A, NEW s \in Seq(A), NEW S, NEW f, IsKept(f, s, S, Len(s)), NEW m \in 0 .. Len(s)
  PROVE  Len(f[m]) <= Len(f[Len(s)]) /\ \A k \in 1 .. Len(f[m]) : f[Len(s)][k] = f[m][k]
<1> DEFINE P(i) == Len(f[m]) <= Len(f[i]) /\ \A k \in 1 .. Len(f[m]) : f[i][k] = f[m][k]
           Bad == {i \in m .. Len(s) : ~P(i)}
<1>1. Len(s) \in Nat /\ m \in Nat /\ m <= Len(s)
  BY LenProperties
<1>8. \A i \in 0 .. Len(s) : f[i] \in Seq(A) /\ Len(f[i]) \in Nat
  BY KeptIs, LenProperties
<1>2. SUFFICES ASSUME Bad # {} PROVE FALSE
  BY <1>1
<1>3. PICK i \in Bad : \A j \in Bad : i <= j
  <2>1. Bad \subseteq Nat
    BY <1>1
  <2>2. QED
    BY <1>2, <2>1, LeastOf
<1>4. i \in m .. Len(s) /\ i \in Nat /\ ~P(i)
  BY <1>1, <1>3
<1>5. i # m
  <2>1. P(m)
    BY <1>1, <1>8
  <2>2. QED
    BY <1>4, <2>1
<1>6. i - 1 \in m .. Len(s) /\ i - 1 \in 0 .. Len(s) /\ i \in 1 .. Len(s) /\ s[i] \in A
  BY <1>1, <1>4, <1>5
<1>7. P(i - 1)
  <2>1. i - 1 \notin Bad
    <3> HIDE DEF Bad
    <3>1. QED
      BY <1>3, <1>4
  <2> HIDE DEF P
  <2>2. QED
    BY <1>6, <2>1
<1>9. f[i] = IF s[i] \in S THEN Append(f[i - 1], s[i]) ELSE f[i - 1]
  <2>1. i \in 0 .. Len(s) /\ i # 0
    BY <1>6
  <2> HIDE DEF P, Bad
  <2>2. QED
    BY <2>1 DEF IsKept
<1>10. PICK p, q, r : p = f[i - 1] /\ q = f[i] /\ r = f[m]
  OBVIOUS
<1>11. /\ p \in Seq(A) /\ Len(p) \in Nat /\ Len(r) \in Nat
       /\ Len(r) <= Len(p) /\ \A k \in 1 .. Len(r) : p[k] = r[k]
  BY <1>1, <1>6, <1>7, <1>8, <1>10
<1>12. ~(Len(r) <= Len(q) /\ \A k \in 1 .. Len(r) : q[k] = r[k])
  BY <1>4, <1>10
<1>13. q = Append(p, s[i]) \/ q = p
  BY <1>9, <1>10
<1>14. CASE q = Append(p, s[i])
  <2>1. Len(q) = Len(p) + 1 /\ \A k \in 1 .. Len(p) : q[k] = p[k]
    BY <1>6, <1>11, <1>14, AppendProperties
  <2>2. \A k \in 1 .. Len(r) : k \in 1 .. Len(p)
    BY <1>11
  <2>3. Len(r) <= Len(q)
    BY <1>11, <2>1
  <2>4. QED
    BY <1>11, <1>12, <2>1, <2>2, <2>3
<1>15. QED
  BY <1>11, <1>12, <1>13, <1>14

\* What is kept of the first elements is what was kept after them.
LEMMA KeptOfFirst ==
  ASSUME NEW A, NEW s \in Seq(A), NEW S, NEW f, IsKept(f, s, S, Len(s)), NEW m \in 0 .. Len(s)
  PROVE  Keep(SubSeq(s, 1, m), S) = f[m]
<1>1. Len(s) \in Nat /\ m \in Nat /\ m <= Len(s)
  BY LenProperties
<1>2. PICK t : t = SubSeq(s, 1, m)
  OBVIOUS
<1>3. t = [k \in 1 .. m |-> s[k]] /\ Len(t) = m /\ \A k \in 1 .. m : t[k] = s[k]
  <2>1. t = [k \in 1 .. m |-> s[k]]
    BY <1>1, <1>2
  <2>2. t \in Seq(A)
    BY <1>1, <2>1
  <2>3. QED
    BY <1>1, <2>1, <2>2
<1>4. PICK g : IsKept(g, t, S, m) /\ Keep(t, S) = g[m]
  BY <1>1, <1>3, KeepIs
<1> DEFINE Bad == {i \in 0 .. m : g[i] # f[i]}
<1>5. ASSUME Bad # {} PROVE FALSE
  <2>1. PICK i \in Bad : \A j \in Bad : i <= j
    <3>1. Bad \subseteq Nat
      BY <1>1
    <3>2. QED
      BY <1>5, <3>1, LeastOf
  <2>2. i \in 0 .. m /\ i \in Nat /\ g[i] # f[i]
    BY <1>1, <2>1
  <2>3. i # 0
    BY <1>1, <1>4, <2>2 DEF IsKept
  <2>4. i - 1 \in 0 .. m /\ i \in 1 .. m /\ i \in 0 .. Len(s)
    BY <1>1, <2>2, <2>3
  <2>5. g[i - 1] = f[i - 1]
    <3>1. i - 1 \notin Bad
      <4> HIDE DEF Bad
      <4>1. QED
        BY <2>1, <2>2
    <3>2. QED
      BY <2>4, <3>1
  <2>6. g[i] = IF t[i] \in S THEN Append(g[i - 1], t[i]) ELSE g[i - 1]
    BY <1>4, <2>2, <2>3 DEF IsKept
  <2>7. f[i] = IF s[i] \in S THEN Append(f[i - 1], s[i]) ELSE f[i - 1]
    BY <2>3, <2>4 DEF IsKept
  <2>8. QED
    BY <1>3, <2>2, <2>4, <2>5, <2>6, <2>7
<1>6. m \notin Bad
  BY <1>5
<1>7. QED
  BY <1>1, <1>2, <1>4, <1>6

\* Keep keeps elements of its sequence.
LEMMA KeepGives ==
  ASSUME NEW A, NEW s \in Seq(A), NEW S
  PROVE  Keep(s, S) \in Seq(A) /\ Range(Keep(s, S)) \subseteq S \cap Range(s)
<1>1. Len(s) \in Nat
  BY LenProperties
<1>2. PICK f : IsKept(f, s, S, Len(s)) /\ Keep(s, S) = f[Len(s)]
  BY <1>1, KeepIs
<1>3. PICK r : r = Keep(s, S)
  OBVIOUS
<1>4. r \in Seq(A) /\ \A k \in 1 .. Len(r) : r[k] \in S \cap {s[j] : j \in 1 .. Len(s)}
  <2>1. PICK m \in 0 .. Len(s) : m = Len(s)
    BY <1>1
  <2>2. f[m] \in Seq(A) /\ \A k \in 1 .. Len(f[m]) : f[m][k] \in S \cap {s[j] : j \in 1 .. m}
    BY <1>2, KeptIs
  <2>3. r = f[m]
    BY <1>2, <1>3, <2>1
  <2>4. QED
    BY <2>1, <2>2, <2>3
<1>5. QED
  BY <1>3, <1>4 DEF Range

\* A duplicate-free sequence has no more positions in a finite set than the set has members.
LEMMA FewLeftOut ==
  ASSUME NEW A, NEW s \in Seq(A), IsInjective(s), NEW E, IsFiniteSet(E), NEW m \in 0 .. Len(s)
  PROVE  Cardinality({j \in 1 .. m : s[j] \in E}) <= Cardinality(E)
<1>1. PICK D : D = {j \in 1 .. m : s[j] \in E}
  OBVIOUS
<1>2. Len(s) \in Nat /\ DOMAIN s = 1 .. Len(s)
  BY LenProperties
<1>3. PICK g : g = [j \in D |-> s[j]]
  OBVIOUS
<1>4. D \subseteq DOMAIN s
  BY <1>1, <1>2
<1>5. g \in [D -> E]
  BY <1>1, <1>3
<1>6. IsInjective(g)
  BY <1>3, <1>4 DEF IsInjective
<1>7. g \in Injection(D, E)
  BY <1>5, <1>6 DEF Injection
<1>8. QED
  BY <1>1, <1>7, FS_Injection

\* The first c elements that survive the exclusion of E are among the first c + |E|.
LEMMA EnoughIsFetched ==
  ASSUME NEW A, NEW s \in Seq(A), IsInjective(s), NEW E \in SUBSET A, IsFiniteSet(E), NEW c \in Nat,
         NEW m \in 0 .. Len(s), m = IF c + Cardinality(E) < Len(s) THEN c + Cardinality(E) ELSE Len(s)
  PROVE  LET kept  == Keep(SubSeq(s, 1, m), A \ E)
             fresh == Keep(s, A \ E)
             n     == IF c < Len(fresh) THEN c ELSE Len(fresh)
         IN  Len(kept) >= n /\ SubSeq(kept, 1, n) = SubSeq(fresh, 1, n)
<1>1. Len(s) \in Nat /\ m \in Nat /\ Len(s) \in 0 .. Len(s)
  BY LenProperties
<1>2. PICK f : IsKept(f, s, A \ E, Len(s)) /\ Keep(s, A \ E) = f[Len(s)]
  BY <1>1, KeepIs
<1>3. PICK kept, fresh : kept = Keep(SubSeq(s, 1, m), A \ E) /\ fresh = Keep(s, A \ E)
  OBVIOUS
<1>4. kept = f[m] /\ fresh = f[Len(s)]
  BY <1>2, <1>3, KeptOfFirst
<1>5. kept \in Seq(A) /\ fresh \in Seq(A) /\ Len(kept) \in Nat /\ Len(fresh) \in Nat
  BY <1>1, <1>2, <1>4, KeptIs, LenProperties
<1>6. Len(kept) <= Len(fresh) /\ \A k \in 1 .. Len(kept) : fresh[k] = kept[k]
  BY <1>2, <1>4, KeptGrows
<1>7. PICK n : n = IF c < Len(fresh) THEN c ELSE Len(fresh)
  OBVIOUS
<1>8. n \in Nat /\ n <= Len(fresh) /\ n <= c
  BY <1>5, <1>7
<1>9. Len(kept) >= n
  <2>1. CASE m = Len(s)
    <3>1. kept = fresh
      BY <1>4, <2>1
    <3>2. QED
      BY <1>5, <1>8, <3>1
  <2>2. CASE m = c + Cardinality(E)
    <3>1. PICK D : D = {j \in 1 .. m : s[j] \in E}
      OBVIOUS
    <3>2. {j \in 1 .. m : s[j] \notin A \ E} = D
      <4>1. \A j \in 1 .. m : s[j] \in A
        BY <1>1
      <4>2. QED
        BY <3>1, <4>1
    <3>3. Len(kept) + Cardinality(D) = m /\ IsFiniteSet(D)
      BY <1>2, <1>4, <3>2, KeptIs
    <3>4. Cardinality(D) <= Cardinality(E)
      BY <3>1, FewLeftOut
    <3>5. Cardinality(D) \in Nat /\ Cardinality(E) \in Nat
      BY <3>3, FS_CardinalityType
    <3>6. QED
      BY <1>1, <1>5, <1>8, <2>2, <3>3, <3>4, <3>5
  <2>3. QED
    BY <2>1, <2>2
<1>10. SubSeq(kept, 1, n) = SubSeq(fresh, 1, n)
  <2>1. \A k \in 1 .. n : k \in 1 .. Len(kept)
    BY <1>5, <1>8, <1>9
  <2>2. SubSeq(kept, 1, n) = [k \in 1 .. n |-> kept[k]] /\ SubSeq(fresh, 1, n) = [k \in 1 .. n |-> fresh[k]]
    BY <1>5, <1>8, <1>9
  <2>3. QED
    BY <1>6, <2>1, <2>2
<1>11. QED
  BY <1>3, <1>7, <1>9, <1>10

LEMMA OrdersAre == ASSUME NEW S, NEW q \in Orders(S) PROVE q \in Seq(S) /\ Range(q) \subseteq S
<1>1. PICK n \in 0 .. Cardinality(S) : q \in [1 .. n -> S]
  BY DEF Orders
<1>2. n \in Nat
  BY <1>1
<1>3. q \in Seq(S)
  BY <1>1, <1>2
<1>4. QED
  BY <1>1, <1>3 DEF Range

\* Two sequences one after the other have the members of both.
LEMMA RangeOfBoth ==
  ASSUME NEW A, NEW s \in Seq(A), NEW t \in Seq(A)
  PROVE  s \o t \in Seq(A) /\ Range(s \o t) \subseteq Range(s) \cup Range(t)
<1>1. Len(s) \in Nat /\ Len(t) \in Nat /\ DOMAIN s = 1 .. Len(s) /\ DOMAIN t = 1 .. Len(t)
  BY LenProperties
<1>2. PICK r : r = s \o t
  OBVIOUS
<1>3. r \in Seq(A) /\ Len(r) = Len(s) + Len(t)
      /\ \A i \in 1 .. Len(s) + Len(t) : r[i] = IF i <= Len(s) THEN s[i] ELSE t[i - Len(s)]
  BY <1>2, ConcatProperties
<1>4. ASSUME NEW i \in DOMAIN r PROVE r[i] \in Range(s) \cup Range(t)
  <2>1. i \in 1 .. Len(s) + Len(t)
    BY <1>3, LenProperties
  <2>2. CASE i <= Len(s)
    <3>1. i \in DOMAIN s /\ r[i] = s[i]
      BY <1>1, <1>3, <2>1, <2>2
    <3>2. QED
      BY <3>1 DEF Range
  <2>3. CASE ~(i <= Len(s))
    <3>1. i - Len(s) \in DOMAIN t /\ r[i] = t[i - Len(s)]
      BY <1>1, <1>3, <2>1, <2>3
    <3>2. QED
      BY <3>1 DEF Range
  <2>4. QED
    BY <2>2, <2>3
<1>5. QED
  BY <1>2, <1>3, <1>4 DEF Range

\* A candidate with feedback is marked as a replacement of its kind.
Marked == \A i \in Range(candidates) : /\ i \in positive => i \in positives
                                       /\ i \in read \ positive => i \in negatives

\* A score that is not decayed yet is the answer's for the document of its item.
AnswersKept ==
    rankPhase = "decay" /\ ranker = "reranker" =>
        \A r \in Range(ranked) : \E a \in Range(reply) :
            a.index \in DOMAIN asked /\ r = [id |-> asked[a.index], score |-> a.score]

\* What is asked about are candidates, candidates with feedback are marked, and
\* marks are given to items of one kind of feedback.
RankFrame ==
    /\ positive \in SUBSET ItemIds /\ read \in SUBSET ItemIds
    /\ candidates \in Seq(ItemIds) /\ asked \in Seq(ItemIds)
    /\ positives \subseteq positive /\ negatives \subseteq read \ positive
    /\ ~replacing => positives = {} /\ negatives = {}
    /\ rankPhase = "replace" => replacing /\ Range(candidates) \cap ExcludeSet = {}
    /\ rankPhase \in {"collaborative", "recommended", "replace"} => asked = <<>>
    /\ Range(asked) \subseteq Range(candidates)
    /\ Marked

\* Why the lists are right.
RankInv == RankFrame /\ AnswersKept /\ RankedAsAnswered

\* What GetSlice returns are items it was asked for.
LEMMA GetSliceGives ==
  ASSUME NEW ids \in Seq(ItemIds)
  PROVE  GetSlice(ids) \in Seq(ItemIds) /\ Range(GetSlice(ids)) \subseteq Range(ids)
BY KeepGives DEF GetSlice

LEMMA NothingInEmpty == Range(<<>>) = {} /\ \A A : <<>> \in Seq(A)
BY DEF Range

LEMMA RankInvInit == RankInit => RankInv
BY NothingInEmpty DEF RankInit, RankInv, RankFrame, Marked, AnswersKept, RankedAsAnswered, CollaborativeIsFull, ScoredAsAnswered

\* The collaborative list is full in every phase after the one that writes it.
LEMMA FullKept ==
  ASSUME CollaborativeIsFull, rankPhase' \in {"collaborative", "failed"} \/ rankPhase \notin {"collaborative", "failed"},
         UNCHANGED <<positive, read, collaborative>>
  PROVE  CollaborativeIsFull'
BY DEF CollaborativeIsFull, ExcludeSet

LEMMA FullWritten ==
  ASSUME RankInv, UpdateCollaborativeRecommend
  PROVE  CollaborativeIsFull'
<1>1. positive \in SUBSET ItemIds /\ read \in SUBSET ItemIds
  BY DEF RankInv, RankFrame
<1>2. PICK E : E = ExcludeSet
  OBVIOUS
<1>3. E \in SUBSET ItemIds /\ IsFiniteSet(E) /\ E = ExcludeSet'
  BY <1>1, <1>2, RankAssumption, FS_Subset DEF ExcludeSet, UpdateCollaborativeRecommend
<1>4. Cardinality(E) \in Nat /\ Len(Nearest) \in Nat /\ CacheSize \in Nat
  BY <1>3, RankAssumption, FS_CardinalityType, LenProperties
<1>5. PICK m : m = IF CacheSize + Cardinality(E) < Len(Nearest) THEN CacheSize + Cardinality(E) ELSE Len(Nearest)
  OBVIOUS
<1>6. m \in 0 .. Len(Nearest)
  BY <1>4, <1>5
<1>7. collaborative' = Keep(SubSeq(Nearest, 1, m), ItemIds \ E)
  BY <1>2, <1>5 DEF UpdateCollaborativeRecommend, Fetched
<1>8. LET fresh == Keep(Nearest, ItemIds \ E)
          n     == IF CacheSize < Len(fresh) THEN CacheSize ELSE Len(fresh)
      IN  Len(collaborative') >= n /\ SubSeq(collaborative', 1, n) = SubSeq(fresh, 1, n)
  BY <1>3, <1>5, <1>6, <1>7, RankAssumption, EnoughIsFetched
<1>9. QED
  BY <1>3, <1>8 DEF CollaborativeIsFull

\* A step that changes none of what RankFrame is about but the phase.
LEMMA FrameKept ==
  ASSUME RankFrame, UNCHANGED <<replacing, positive, read, candidates, positives, negatives, asked>>,
         rankPhase' \in {rankPhase, "recommended", "rank", "attempt", "pause", "decay", "ranked", "failed"},
         rankPhase' = "recommended" => rankPhase \in {"recommended", "collaborative"}
  PROVE  RankFrame'
BY DEF RankFrame, Marked, ExcludeSet

LEMMA FrameTake ==
  ASSUME RankFrame, NEW list \in Orders(ItemIds \ ExcludeSet), TakeCandidates(list)
  PROVE  RankFrame'
<1>1. list \in Seq(ItemIds) /\ Range(list) \cap ExcludeSet = {}
  <2>1. list \in Seq(ItemIds \ ExcludeSet) /\ Range(list) \subseteq ItemIds \ ExcludeSet
    BY OrdersAre
  <2>2. QED
    BY <2>1
<1>2. candidates' \in Seq(ItemIds) /\ Range(candidates') \subseteq Range(list)
  BY <1>1, GetSliceGives DEF TakeCandidates
<1>3. UNCHANGED <<replacing, positive, read, positives, negatives, asked>> /\ asked = <<>>
      /\ (rankPhase' = "replace" => replacing) /\ ExcludeSet' = ExcludeSet
  BY DEF TakeCandidates, RankFrame, ExcludeSet
<1>4. Marked' /\ Range(candidates') \cap ExcludeSet = {}
  BY <1>1, <1>2, <1>3 DEF Marked, ExcludeSet
<1>5. QED
  BY <1>2, <1>3, <1>4, NothingInEmpty DEF RankFrame

LEMMA FrameReplace ==
  ASSUME RankFrame, NEW order \in Orders(positive \cup read), AddReplacementCandidates(order)
  PROVE  RankFrame'
<1>1. order \in Seq(ItemIds)
  <2>1. order \in Seq(positive \cup read)
    BY OrdersAre
  <2>2. positive \cup read \subseteq ItemIds
    BY DEF RankFrame
  <2>3. QED
    BY <2>1, <2>2
<1>2. PICK items, more : items = GetSlice(order) /\ more = Keep(items, ItemIds \ Range(candidates))
  OBVIOUS
<1>3. items \in Seq(ItemIds)
  BY <1>1, <1>2, GetSliceGives
<1>4. more \in Seq(ItemIds) /\ Range(more) \subseteq Range(items)
  BY <1>2, <1>3, KeepGives
<1>5. /\ rankPhase = "replace" /\ rankPhase' = "rank" /\ candidates' = candidates \o more
      /\ positives' = positive \cap Range(items) /\ negatives' = (read \ positive) \cap Range(items)
      /\ UNCHANGED <<replacing, positive, read, asked>>
  BY <1>2 DEF AddReplacementCandidates
<1>6. candidates' \in Seq(ItemIds) /\ Range(candidates') \subseteq Range(candidates) \cup Range(items)
  BY <1>4, <1>5, RangeOfBoth DEF RankFrame
<1>7. Range(candidates) \cap ExcludeSet = {} /\ replacing /\ asked = <<>>
  BY <1>5 DEF RankFrame
<1>8. Marked'
  BY <1>5, <1>6, <1>7 DEF Marked, ExcludeSet
<1>9. QED
  BY <1>5, <1>6, <1>7, <1>8, NothingInEmpty DEF RankFrame

LEMMA FrameAsk ==
  ASSUME RankFrame, AskRanker
  PROVE  RankFrame'
<1>1. asked' \in Seq(ItemIds) /\ Range(asked') \subseteq Range(candidates)
  BY GetSliceGives DEF RankFrame, AskRanker
<1>2. UNCHANGED <<replacing, positive, read, candidates, positives, negatives>>
      /\ rankPhase' \notin {"collaborative", "recommended", "replace"}
  BY DEF AskRanker
<1>3. QED
  BY <1>1, <1>2 DEF RankFrame, Marked

\* Every step keeps what is known of candidates and marks.
LEMMA FrameStep ==
  ASSUME RankFrame, [RankNext]_rankVars
  PROVE  RankFrame'
<1>1. CASE UpdateCollaborativeRecommend
  BY <1>1, FrameKept DEF UpdateCollaborativeRecommend
<1>2. CASE \E list \in Orders(ItemIds \ ExcludeSet) : TakeCandidates(list)
  BY <1>2, FrameTake
<1>3. CASE \E order \in Orders(positive \cup read) : AddReplacementCandidates(order)
  BY <1>3, FrameReplace
<1>4. CASE RankByNothing
  BY <1>4, FrameKept DEF RankByNothing
<1>5. CASE RankByClickThroughRate
  BY <1>5, FrameKept DEF RankByClickThroughRate
<1>6. CASE AskRanker
  BY <1>6, FrameAsk
<1>7. CASE Resume
  BY <1>7, FrameKept DEF Resume
<1>8. CASE ApplyReplacementDecay
  BY <1>8, FrameKept DEF ApplyReplacementDecay
<1>9. CASE Abandon
  BY <1>9, FrameKept DEF Abandon
<1>10. CASE \E error \in {"busy", "reset", "refused", "malformed"} : RequestFails(error)
  <2>1. PICK error : RequestFails(error)
    BY <1>10
  <2>2. QED
    BY <2>1, FrameKept DEF RequestFails
<1>11. CASE \E given \in Replies : RankByAnswer(given)
  <2>1. PICK given : RankByAnswer(given)
    BY <1>11
  <2>2. QED
    BY <2>1, FrameKept DEF RankByAnswer
<1>12. CASE CollaborativeFails
  BY <1>12, FrameKept DEF CollaborativeFails
<1>13. CASE CancelPass
  BY <1>13, FrameKept DEF CancelPass
<1>14. CASE \E i \in ItemIds : OtherJobLoads(i) \/ ItemChanges(i)
  <2>1. PICK i : OtherJobLoads(i) \/ ItemChanges(i)
    BY <1>14
  <2>2. QED
    BY <2>1, FrameKept DEF OtherJobLoads, ItemChanges
<1>15. CASE UNCHANGED rankVars
  BY <1>15, FrameKept DEF rankVars
<1>16. QED
  BY <1>1, <1>2, <1>3, <1>4, <1>5, <1>6, <1>7, <1>8, <1>9, <1>10, <1>11, <1>12, <1>13, <1>14, <1>15
     DEF RankNext, JobSteps, RemoteAnswers

\* Every step keeps the collaborative list full once it is written.
LEMMA FullStep ==
  ASSUME RankInv, [RankNext]_rankVars
  PROVE  CollaborativeIsFull'
<1>1. CollaborativeIsFull
  BY DEF RankInv, RankedAsAnswered
<1>2. CASE UpdateCollaborativeRecommend
  BY <1>2, FullWritten
<1>3. CASE \E list \in Orders(ItemIds \ ExcludeSet) : TakeCandidates(list)
  <2>1. PICK list : TakeCandidates(list)
    BY <1>3
  <2>2. QED
    BY <1>1, <2>1, FullKept DEF TakeCandidates
<1>4. CASE \E order \in Orders(positive \cup read) : AddReplacementCandidates(order)
  <2>1. PICK order : AddReplacementCandidates(order)
    BY <1>4
  <2>2. QED
    BY <1>1, <2>1, FullKept DEF AddReplacementCandidates
<1>5. CASE RankByNothing \/ RankByClickThroughRate \/ AskRanker \/ Resume \/ ApplyReplacementDecay
  BY <1>1, <1>5, FullKept DEF RankByNothing, RankByClickThroughRate, AskRanker, Resume, ApplyReplacementDecay
<1>6. CASE Abandon \/ CollaborativeFails \/ CancelPass
  BY <1>1, <1>6, FullKept DEF Abandon, CollaborativeFails, CancelPass, CollaborativeIsFull, ExcludeSet
<1>7. CASE \E error \in {"busy", "reset", "refused", "malformed"} : RequestFails(error)
  <2>1. PICK error : RequestFails(error)
    BY <1>7
  <2>2. QED
    BY <1>1, <2>1, FullKept DEF RequestFails
<1>8. CASE \E given \in Replies : RankByAnswer(given)
  <2>1. PICK given : RankByAnswer(given)
    BY <1>8
  <2>2. QED
    BY <1>1, <2>1, FullKept DEF RankByAnswer
<1>9. CASE \E i \in ItemIds : OtherJobLoads(i) \/ ItemChanges(i)
  <2>1. PICK i : OtherJobLoads(i) \/ ItemChanges(i)
    BY <1>9
  <2>2. QED
    BY <1>1, <2>1 DEF OtherJobLoads, ItemChanges, CollaborativeIsFull, ExcludeSet
<1>10. CASE UNCHANGED rankVars
  BY <1>1, <1>10 DEF rankVars, CollaborativeIsFull, ExcludeSet
<1>11. QED
  BY <1>2, <1>3, <1>4, <1>5, <1>6, <1>7, <1>8, <1>9, <1>10 DEF RankNext, JobSteps, RemoteAnswers

\* An answer's positions are of documents that were asked about.
LEMMA RepliesAre ==
  ASSUME NEW given \in Replies
  PROVE  \A k \in DOMAIN given : given[k].index \in DOMAIN asked
<1>1. PICK q \in Orders(DOMAIN asked) :
        given = [k \in DOMAIN q |-> [index |-> q[k], score |-> 4 * (Len(q) - k)]]
  BY DEF Replies
<1>2. ASSUME NEW k \in DOMAIN q PROVE q[k] \in DOMAIN asked
  BY OrdersAre DEF Range
<1>3. QED
  BY <1>1, <1>2

\* What is ranked by an answer has the scores of the answer.
LEMMA AnswersWritten ==
  ASSUME NEW given \in Replies, RankByAnswer(given)
  PROVE  AnswersKept'
<1>1. UNCHANGED asked /\ reply' = given
  BY DEF RankByAnswer
<1>2. SUFFICES ASSUME rankPhase' = "decay", NEW r \in Range(ranked')
               PROVE  \E a \in Range(reply') : a.index \in DOMAIN asked' /\ r = [id |-> asked'[a.index], score |-> a.score]
  BY DEF AnswersKept
<1>3. ranked' = [k \in DOMAIN given |-> [id |-> asked[given[k].index], score |-> given[k].score]]
  BY <1>2 DEF RankByAnswer, Item
<1>4. PICK k \in DOMAIN given : r = [id |-> asked[given[k].index], score |-> given[k].score]
  BY <1>2, <1>3 DEF Range
<1>5. given[k] \in Range(given) /\ given[k].index \in DOMAIN asked
  BY RepliesAre DEF Range
<1>6. QED
  BY <1>1, <1>4, <1>5

\* Only the answer of the remote ranker leads a reranker to the decay.
LEMMA AnswersStep ==
  ASSUME RankInv, [RankNext]_rankVars
  PROVE  AnswersKept'
<1>1. AnswersKept
  BY DEF RankInv
<1>2. CASE UpdateCollaborativeRecommend \/ Resume \/ Abandon \/ CollaborativeFails
  BY <1>2 DEF UpdateCollaborativeRecommend, Resume, Abandon, CollaborativeFails, AnswersKept
<1>3. CASE \E list \in Orders(ItemIds \ ExcludeSet) : TakeCandidates(list)
  BY <1>3 DEF TakeCandidates, AnswersKept
<1>4. CASE \E order \in Orders(positive \cup read) : AddReplacementCandidates(order)
  BY <1>4 DEF AddReplacementCandidates, AnswersKept
<1>5. CASE RankByNothing \/ RankByClickThroughRate \/ AskRanker
  BY <1>5 DEF RankByNothing, RankByClickThroughRate, AskRanker, AnswersKept
<1>6. CASE ApplyReplacementDecay
  BY <1>6 DEF ApplyReplacementDecay, AnswersKept
<1>7. CASE \E error \in {"busy", "reset", "refused", "malformed"} : RequestFails(error)
  BY <1>7 DEF RequestFails, AnswersKept
<1>8. CASE \E given \in Replies : RankByAnswer(given)
  BY <1>8, AnswersWritten
<1>9. CASE CancelPass \/ UNCHANGED rankVars
  BY <1>1, <1>9 DEF CancelPass, rankVars, AnswersKept
<1>10. CASE \E i \in ItemIds : OtherJobLoads(i) \/ ItemChanges(i)
  BY <1>1, <1>10 DEF OtherJobLoads, ItemChanges, AnswersKept
<1>11. QED
  BY <1>2, <1>3, <1>4, <1>5, <1>6, <1>7, <1>8, <1>9, <1>10 DEF RankNext, JobSteps, RemoteAnswers

\* Decaying turns the answer's scores into the cached ones.
LEMMA ScoredByDecay ==
  ASSUME RankInv, ApplyReplacementDecay
  PROVE  ScoredAsAnswered'
<1>1. UNCHANGED <<asked, reply, ranker, replacing, positive, read>> /\ rankPhase = "decay"
  BY DEF ApplyReplacementDecay
<1>2. SUFFICES ASSUME ranker = "reranker", NEW r \in Range(ranked')
               PROVE  \E a \in Range(reply) :
                        /\ asked[a.index] = r.id
                        /\ r.score = IF ~replacing THEN a.score
                                     ELSE IF r.id \in positive THEN a.score \div 2
                                     ELSE IF r.id \in read THEN a.score \div 4
                                     ELSE a.score
  BY <1>1 DEF ScoredAsAnswered
<1>3. PICK o \in Range(ranked) : (r = o /\ o.id \notin positives \cup negatives) \/ r = Decayed(o)
  <2>1. CASE \A q \in Range(ranked) : q.id \notin positives \cup negatives
    BY <1>2, <2>1 DEF ApplyReplacementDecay
  <2>2. CASE ~\A q \in Range(ranked) : q.id \notin positives \cup negatives
    <3>1. ranked' \in SortDocuments({Decayed(q) : q \in Range(ranked)})
      BY <2>2 DEF ApplyReplacementDecay
    <3>2. r \in {Decayed(q) : q \in Range(ranked)}
      BY <1>2, <3>1 DEF SortDocuments, Range
    <3>3. QED
      BY <3>2
  <2>3. QED
    BY <2>1, <2>2
<1>4. PICK a \in Range(reply) : a.index \in DOMAIN asked /\ o = [id |-> asked[a.index], score |-> a.score]
  BY <1>1, <1>2 DEF RankInv, AnswersKept
<1>5. PICK i : i = asked[a.index] /\ o.id = i /\ o.score = a.score
  BY <1>4
<1>6. i \in Range(candidates)
  BY <1>4, <1>5 DEF RankInv, RankFrame, Range
<1>7. /\ i \in positive => i \in positives
      /\ i \in read /\ i \notin positive => i \in negatives \/ ~replacing
      /\ i \in positives => i \in positive /\ replacing
      /\ i \in negatives => i \in read /\ i \notin positive /\ replacing
  BY <1>6 DEF RankInv, RankFrame, Marked
<1>8. CASE r = o /\ o.id \notin positives \cup negatives
  BY <1>5, <1>7, <1>8
<1>9. CASE r = Decayed(o)
  <2>1. r = [id |-> i, score |-> CASE i \in positives -> a.score \div 2
                                   [] i \in negatives -> a.score \div 4
                                   [] OTHER -> a.score]
    BY <1>4, <1>5, <1>9 DEF Decayed
  <2>2. r.id = i
    BY <2>1
  <2>3. CASE i \in positives
    <3>1. r.score = a.score \div 2
      BY <1>7, <2>1, <2>3
    <3>2. QED
      BY <1>5, <1>7, <2>2, <2>3, <3>1
  <2>4. CASE i \in negatives
    <3>1. r.score = a.score \div 4
      BY <1>7, <2>1, <2>4
    <3>2. QED
      BY <1>5, <1>7, <2>2, <2>4, <3>1
  <2>5. CASE i \notin positives /\ i \notin negatives
    <3>1. r.score = a.score
      BY <2>1, <2>5
    <3>2. QED
      BY <1>5, <1>7, <2>2, <2>5, <3>1
  <2>6. QED
    BY <2>3, <2>4, <2>5
<1>10. QED
  BY <1>3, <1>8, <1>9

\* Nothing changes a score once it is cached.
LEMMA ScoredStep ==
  ASSUME RankInv, [RankNext]_rankVars
  PROVE  ScoredAsAnswered'
<1>1. ScoredAsAnswered
  BY DEF RankInv, RankedAsAnswered
<1>2. CASE UpdateCollaborativeRecommend \/ Resume \/ Abandon \/ CollaborativeFails
           \/ RankByNothing \/ RankByClickThroughRate \/ AskRanker
  BY <1>2 DEF UpdateCollaborativeRecommend, Resume, Abandon, CollaborativeFails,
              RankByNothing, RankByClickThroughRate, AskRanker, ScoredAsAnswered
<1>3. CASE \E list \in Orders(ItemIds \ ExcludeSet) : TakeCandidates(list)
  BY <1>3 DEF TakeCandidates, ScoredAsAnswered
<1>4. CASE \E order \in Orders(positive \cup read) : AddReplacementCandidates(order)
  BY <1>4 DEF AddReplacementCandidates, ScoredAsAnswered
<1>5. CASE ApplyReplacementDecay
  BY <1>5, ScoredByDecay
<1>6. CASE \E error \in {"busy", "reset", "refused", "malformed"} : RequestFails(error)
  BY <1>6 DEF RequestFails, ScoredAsAnswered
<1>7. CASE \E given \in Replies : RankByAnswer(given)
  BY <1>7 DEF RankByAnswer, ScoredAsAnswered
<1>8. CASE CancelPass \/ UNCHANGED rankVars
  BY <1>1, <1>8 DEF CancelPass, rankVars, ScoredAsAnswered
<1>9. CASE \E i \in ItemIds : OtherJobLoads(i) \/ ItemChanges(i)
  BY <1>1, <1>9 DEF OtherJobLoads, ItemChanges, ScoredAsAnswered
<1>10. QED
  BY <1>2, <1>3, <1>4, <1>5, <1>6, <1>7, <1>8, <1>9 DEF RankNext, JobSteps, RemoteAnswers

\* For every set of items, every collection, every size of the cache and every
\* ranker: the collaborative list holds the nearest items without feedback,
\* however many vectors the exclusion drops, and every cached score is the
\* remote ranker's for that item's document, decayed once at most
\* (Pipeline.updateCollaborativeRecommend, Reranker.Rank,
\* Pipeline.applyReplacementDecay).
THEOREM RankedAsAnsweredAlways == RankSpec => []RankedAsAnswered
<1>1. RankInit => RankInv
  BY RankInvInit
<1>2. RankInv /\ [RankNext]_rankVars => RankInv'
  <2>1. SUFFICES ASSUME RankInv, [RankNext]_rankVars PROVE RankInv'
    OBVIOUS
  <2>2. RankFrame' /\ CollaborativeIsFull' /\ AnswersKept' /\ ScoredAsAnswered'
    BY <2>1, FrameStep, FullStep, AnswersStep, ScoredStep DEF RankInv
  <2>3. QED
    BY <2>2 DEF RankInv, RankedAsAnswered
<1>3. RankInv => RankedAsAnswered
  BY DEF RankInv
<1>4. QED
  BY <1>1, <1>2, <1>3, PTL DEF RankSpec
===============================================================================
