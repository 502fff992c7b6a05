----------------------------- MODULE MasterProofs -----------------------------
(***************************************************************************)
(* Proofs about the master.  Its scheduler, its configuration and its      *)
(* shutdown: for every set of requests and configurations and any number   *)
(* of changes.  The cluster it keeps: for any workers, servers and users,  *)
(* any time-out and any failures.  The data set it loads: for any items,   *)
(* feedback, jobs and users.                                               *)
(***************************************************************************)
EXTENDS MasterControl, Membership, DatasetLoad, FiniteSetTheorems, SequenceTheorems,
        NaturalsInduction, WellFoundedInduction, TLAPS

-----------------------------------------------------------------------------
(* The master itself: MasterControl.                                       *)

Values == Versions \cup {None}
Points == {"idle", "store", "file", "assign", "cancel", "token"}
Ops == {"none", "post", "delete", "import"}

ControlTypeOK ==
    /\ loop \in {"start", "select", "run", "ended", "dead"}
    /\ stopping \in {"no", "http", "wait", "closed"}
    /\ request \in [Requests -> [at : Points, op : Ops, value : Values]]
    /\ file \in Versions /\ override \in Values
    /\ watch \in [at : {"wait", "override", "assign", "token", "ended"}, value : Values]

(***************************************************************************)
(* The order of Shutdown.  A request ends before the context is cancelled  *)
(* and none begins after; the loop and the watcher never come back, and a  *)
(* reconciliation is begun by the loop only.                               *)
(***************************************************************************)
Drained == stopping \in {"wait", "closed"} => Busy = {}

ShutdownInv == ControlTypeOK /\ Drained /\ ClosedLast

(***************************************************************************)
(* The configuration.  Unless changes overlap, one of them at a time is    *)
(* between its first write and its last; meanwhile it carries what it will *)
(* put in memory, and outside of it the memory agrees with the stores.     *)
(***************************************************************************)
Changing(r) == request[r].op \in {"post", "delete"}
Reloading == watch.at \in {"override", "assign", "token"}

\* Two changes that did not overlap exclude each other.
Alone ==
    /\ \A r, q \in Requests : r # q => ~(Changing(r) /\ Changing(q))
    /\ Reloading => \A r \in Requests : ~Changing(r)

\* What a request or the watcher carries.
Carried ==
    /\ \A r \in Requests :
          /\ request[r].at = "file" => request[r].op = "delete" /\ override = None
          /\ request[r].at = "assign" =>
                Changing(r) /\ request[r].value = Stated(file, override)
    /\ watch.at = "override" => armed \/ watch.value = file
    /\ watch.at = "assign" => armed \/ watch.value = Stated(file, override)

\* Nobody is between the two writes, and the file was not edited since.
Settled ==
    /\ \A r \in Requests : request[r].at \notin {"file", "assign"}
    /\ watch.at \in {"wait", "token"}
    /\ ~armed

Agreeing == Settled => running = Stated(file, override)

\* What a request that stores a configuration carries is one.
Posting ==
    \A r \in Requests :
        /\ request[r].op = "post" /\ request[r].at = "store" => request[r].value \in Versions
        /\ request[r].op = "none" => request[r].at = "idle"

OverrideInv ==
    /\ ControlTypeOK /\ Posting
    /\ ~overlapped => Alone /\ Carried /\ Agreeing

-----------------------------------------------------------------------------
(* What the two ways to move a request on do to it.                        *)

\* Step moves one request, and keeps what it was asked to do.
LEMMA StepMoves ==
    ASSUME ControlTypeOK, NEW r \in Requests, NEW a \in Points, NEW v \in Values,
           Step(r, a, v)
    PROVE  /\ request' \in [Requests -> [at : Points, op : Ops, value : Values]]
           /\ request'[r].at = a /\ request'[r].value = v
           /\ request'[r].op = request[r].op
           /\ \A q \in Requests : q # r => request'[q] = request[q]
BY DEF ControlTypeOK, Step

\* Done makes one request idle.
LEMMA DoneMoves ==
    ASSUME ControlTypeOK, NEW r \in Requests, Done(r)
    PROVE  /\ request' \in [Requests -> [at : Points, op : Ops, value : Values]]
           /\ request'[r].at = "idle" /\ request'[r].value = None
           /\ request'[r].op = "none"
           /\ \A q \in Requests : q # r => request'[q] = request[q]
BY DEF ControlTypeOK, Done, Idle, Points, Ops, Values

\* Arrive gives an idle request its work.
LEMMA ArriveMoves ==
    ASSUME ControlTypeOK, NEW r \in Requests, Arrive(r)
    PROVE  /\ request' \in [Requests -> [at : Points, op : Ops, value : Values]]
           /\ request'[r].at = "store" /\ request'[r].op \in {"post", "delete", "import"}
           /\ request'[r].op = "post" => request'[r].value \in Versions
           /\ request'[r].op # "import" /\ OthersChange(r) => overlapped'
           /\ overlapped => overlapped'
           /\ \A q \in Requests : q # r => request'[q] = request[q]
<1>1. PICK op \in {"post", "delete", "import"} : \E v \in IF op = "post" THEN Versions ELSE {None} :
        /\ request' = [request EXCEPT ![r] = [at |-> "store", op |-> op, value |-> v]]
        /\ overlapped' = (overlapped \/ (op # "import" /\ OthersChange(r)))
  BY DEF Arrive
<1>2. PICK v \in IF op = "post" THEN Versions ELSE {None} :
        /\ request' = [request EXCEPT ![r] = [at |-> "store", op |-> op, value |-> v]]
        /\ overlapped' = (overlapped \/ (op # "import" /\ OthersChange(r)))
  BY <1>1
<1>3. v \in Values /\ op \in Ops /\ "store" \in Points
  BY DEF Values, Ops, Points
<1>4. request'[r] = [at |-> "store", op |-> op, value |-> v]
  BY <1>2 DEF ControlTypeOK
<1>5. QED
  BY <1>2, <1>3, <1>4 DEF ControlTypeOK

\* An idle request takes no step of a handler.
LEMMA HandleIsBusy ==
    ASSUME NEW r \in Requests, Handle(r)
    PROVE  request[r] # Idle
BY DEF Handle, Refuse, postConfigPut, deleteConfigStored, deleteConfigFile, Assign,
       Import, CancelRun, Schedule, Idle

\* A request that moves leaves the types of all variables as they are.
LEMMA RequestTypeStep ==
    ASSUME ControlTypeOK, NEW r \in Requests, Arrive(r) \/ Handle(r)
    PROVE  ControlTypeOK'
<1> USE DEF ControlTypeOK
<1>1. CASE Arrive(r)
  BY <1>1, ArriveMoves DEF Arrive
<1>2. CASE Refuse(r)
  BY <1>2, DoneMoves DEF Refuse
<1>3. CASE postConfigPut(r)
  BY <1>3, StepMoves DEF postConfigPut, Points, Values
<1>4. CASE deleteConfigStored(r)
  BY <1>4, StepMoves DEF deleteConfigStored, Points, Values
<1>5. CASE deleteConfigFile(r)
  BY <1>5, StepMoves, DoneMoves DEF deleteConfigFile, Points, Values
<1>6. CASE Assign(r)
  BY <1>6, StepMoves DEF Assign, Points, Values
<1>7. CASE Import(r)
  BY <1>7, StepMoves DEF Import, Points, Values
<1>8. CASE CancelRun(r)
  BY <1>8, StepMoves DEF CancelRun, Points, Values
<1>9. CASE Schedule(r)
  BY <1>9, DoneMoves DEF Schedule
<1>10. QED
  BY <1>1, <1>2, <1>3, <1>4, <1>5, <1>6, <1>7, <1>8, <1>9 DEF Handle

\* The same for the loop, the watcher and Shutdown.
LEMMA ControlTypeStep == ControlTypeOK /\ [ControlNext]_controlVars => ControlTypeOK'
<1> SUFFICES ASSUME ControlTypeOK, [ControlNext]_controlVars PROVE ControlTypeOK'
  OBVIOUS
<1>1. ASSUME NEW r \in Requests, Arrive(r) \/ Handle(r) PROVE ControlTypeOK'
  BY <1>1, RequestTypeStep
<1>2. CASE LoopStep \/ TakeTick \/ ReconcileEnds
  BY <1>2 DEF LoopStep, LoopEnter, TakeToken, RunEnds, LoopLeaves, TakeTick, RunBegins,
              ReconcileEnds, ControlTypeOK
<1>3. CASE EditFile
  BY <1>3 DEF EditFile, ControlTypeOK
<1>4. CASE Watch
  BY <1>4 DEF Watch, reloadConfigFromFile, applyRecommendOverride, reloadAssign,
              reloadSchedule, watchEnds, ControlTypeOK, Values, Stated
<1>5. CASE ShutdownBegins \/ backgroundCancel \/ CloseStores
  BY <1>5 DEF ShutdownBegins, backgroundCancel, CloseStores, ControlTypeOK
<1>6. CASE UNCHANGED controlVars
  BY <1>6 DEF controlVars, ControlTypeOK
<1>7. QED
  BY <1>1, <1>2, <1>3, <1>4, <1>5, <1>6 DEF ControlNext

\* Everything is idle at the start, and the memory is what the stores say.
LEMMA ControlStart == ControlInit => ShutdownInv /\ OverrideInv
<1> SUFFICES ASSUME ControlInit PROVE ShutdownInv /\ OverrideInv
  OBVIOUS
<1>1. ControlTypeOK
  BY DEF ControlInit, ControlTypeOK, Idle, Points, Ops, Values
<1>2. \A r \in Requests : request[r].at = "idle" /\ request[r].op = "none"
  BY DEF ControlInit, Idle
<1>3. Drained /\ ClosedLast
  BY DEF ControlInit, Drained, ClosedLast
<1>4. Posting /\ Alone /\ Carried /\ Agreeing
  BY <1>2 DEF ControlInit, Posting, Alone, Carried, Agreeing, Changing, Reloading
<1>5. QED
  BY <1>1, <1>3, <1>4 DEF ShutdownInv, OverrideInv

-----------------------------------------------------------------------------
(* ClosedLast.                                                             *)

\* No step of anybody else undoes what Shutdown has waited for.
LEMMA ShutdownStep == ShutdownInv /\ [ControlNext]_controlVars => ShutdownInv'
<1> SUFFICES ASSUME ShutdownInv, [ControlNext]_controlVars PROVE (Drained /\ ClosedLast)'
  BY ControlTypeStep DEF ShutdownInv
<1> USE DEF ShutdownInv, Drained, ClosedLast
<1>1. ASSUME NEW r \in Requests, Arrive(r) \/ Handle(r) PROVE (Drained /\ ClosedLast)'
  <2>1. CASE Arrive(r)
    BY <2>1 DEF Arrive
  <2>2. CASE Handle(r)
    <3>1. r \in Busy
      BY <2>2, HandleIsBusy DEF Busy
    <3>2. stopping' = stopping
      BY <2>2 DEF Handle, Refuse, postConfigPut, deleteConfigStored, deleteConfigFile,
                  Assign, Import, CancelRun, Schedule
    <3>3. QED
      BY <3>1, <3>2
  <2>3. QED
    BY <1>1, <2>1, <2>2
<1>2. ASSUME UNCHANGED request PROVE Busy' = Busy
  BY <1>2 DEF Busy
<1>3. CASE LoopStep \/ TakeTick \/ ReconcileEnds
  BY <1>2, <1>3 DEF LoopStep, LoopEnter, TakeToken, RunEnds, LoopLeaves, TakeTick, RunBegins,
              ReconcileEnds
<1>4. CASE EditFile
  BY <1>2, <1>4 DEF EditFile
<1>5. CASE Watch
  BY <1>2, <1>5 DEF Watch, reloadConfigFromFile, applyRecommendOverride, reloadAssign,
              reloadSchedule, watchEnds
<1>6. CASE ShutdownBegins \/ backgroundCancel
  BY <1>2, <1>6 DEF ShutdownBegins, backgroundCancel
<1>7. CASE CloseStores
  BY <1>2, <1>7 DEF CloseStores, Waited
<1>8. CASE UNCHANGED controlVars
  BY <1>2, <1>8 DEF controlVars
<1>9. QED
  BY <1>1, <1>3, <1>4, <1>5, <1>6, <1>7, <1>8 DEF ControlNext

(***************************************************************************)
(* When Shutdown closes the databases no request, no run of the loop, no   *)
(* watcher and no reconciliation is left to use them, and none begins.     *)
(***************************************************************************)
THEOREM ClosedLastAlways == ControlSpec => []ClosedLast
<1>1. ControlInit => ShutdownInv
  BY ControlStart
<1>2. ShutdownInv => ClosedLast
  BY DEF ShutdownInv
<1>3. QED
  BY <1>1, <1>2, ShutdownStep, PTL DEF ControlSpec

-----------------------------------------------------------------------------
(* OverrideMatches.                                                        *)

\* A step of a request.
LEMMA OverrideRequestStep ==
    ASSUME OverrideInv, NEW r \in Requests, Arrive(r) \/ Handle(r)
    PROVE  Posting' /\ (~overlapped' => (Alone /\ Carried /\ Agreeing)')
<1>0. ControlTypeOK /\ ControlTypeOK'
  BY RequestTypeStep DEF OverrideInv
<1> USE DEF OverrideInv, Posting, Alone, Carried, Agreeing, Settled, Changing, Reloading,
            Points, Values
<1>1. CASE Arrive(r)
  <2>1. request[r].at = "idle" /\ request[r].op = "none"
    BY <1>1 DEF Arrive, Idle
  <2>2. UNCHANGED <<file, override, running, watch, armed>>
    BY <1>1 DEF Arrive
  <2>3. QED
    BY <1>0, <1>1, <2>1, <2>2, ArriveMoves DEF OthersChange
<1>2. CASE Refuse(r)
  BY <1>0, <1>2, DoneMoves DEF Refuse
<1>3. CASE postConfigPut(r)
  BY <1>0, <1>3, StepMoves, VersionsAssumption DEF postConfigPut, Stated
<1>4. CASE deleteConfigStored(r)
  BY <1>0, <1>4, StepMoves DEF deleteConfigStored, Stated
<1>5. CASE deleteConfigFile(r)
  BY <1>0, <1>5, StepMoves, DoneMoves DEF deleteConfigFile, Stated, ControlTypeOK
<1>6. CASE Assign(r)
  BY <1>0, <1>6, StepMoves DEF Assign
<1>7. CASE Import(r)
  BY <1>0, <1>7, StepMoves DEF Import
<1>8. CASE CancelRun(r)
  BY <1>0, <1>8, StepMoves DEF CancelRun
<1>9. CASE Schedule(r)
  BY <1>0, <1>9, DoneMoves DEF Schedule
<1>10. QED
  BY <1>1, <1>2, <1>3, <1>4, <1>5, <1>6, <1>7, <1>8, <1>9 DEF Handle

\* A request that is not busy carries nothing.
LEMMA NotBusy == Busy = {} => \A r \in Requests : request[r].at = "idle" /\ request[r].op = "none"
BY DEF Busy, Idle

\* A step of anybody else.
LEMMA OverrideStep == OverrideInv /\ [ControlNext]_controlVars => OverrideInv'
<1> SUFFICES ASSUME OverrideInv, [ControlNext]_controlVars
             PROVE  Posting' /\ (~overlapped' => (Alone /\ Carried /\ Agreeing)')
  BY ControlTypeStep DEF OverrideInv
<1>1. ASSUME NEW r \in Requests, Arrive(r) \/ Handle(r)
      PROVE  Posting' /\ (~overlapped' => (Alone /\ Carried /\ Agreeing)')
  BY <1>1, OverrideRequestStep
<1>2. ASSUME UNCHANGED <<request, file, override, running, watch, armed, overlapped>>
      PROVE  Posting' /\ (~overlapped' => (Alone /\ Carried /\ Agreeing)')
  BY <1>2 DEF OverrideInv, Posting, Alone, Carried, Agreeing, Settled, Changing, Reloading
<1>3. CASE LoopStep \/ TakeTick \/ ReconcileEnds
  BY <1>2, <1>3 DEF LoopStep, LoopEnter, TakeToken, RunEnds, LoopLeaves, TakeTick, RunBegins,
              ReconcileEnds
<1>4. CASE ShutdownBegins \/ backgroundCancel \/ CloseStores
  BY <1>2, <1>4 DEF ShutdownBegins, backgroundCancel, CloseStores
<1>5. CASE UNCHANGED controlVars
  BY <1>2, <1>5 DEF controlVars
<1> USE DEF OverrideInv, Posting, Alone, Carried, Agreeing, Settled, Changing, Reloading,
            ControlTypeOK
<1>6. CASE EditFile
  BY <1>6, NotBusy DEF EditFile
<1>7. CASE Watch
  <2>1. CASE reloadConfigFromFile
    <3>1. Posting'
      BY <2>1 DEF reloadConfigFromFile
    <3>2. ~overlapped' => Busy = {} /\ ~overlapped
      BY <2>1, Zenon DEF reloadConfigFromFile
    <3>3. ~overlapped' => watch' = [at |-> "override", value |-> file]
      BY <2>1, Zenon DEF reloadConfigFromFile
    <3>4. UNCHANGED <<request, file, override, running>>
      BY <2>1 DEF reloadConfigFromFile
    <3>5. QED
      BY <3>1, <3>2, <3>3, <3>4, NotBusy
  <2>2. CASE applyRecommendOverride
    BY <2>2 DEF applyRecommendOverride
  <2>3. CASE reloadAssign
    BY <2>3 DEF reloadAssign
  <2>4. CASE reloadSchedule
    BY <2>4 DEF reloadSchedule
  <2>5. CASE watchEnds
    BY <2>5 DEF watchEnds
  <2>6. QED
    BY <1>7, <2>1, <2>2, <2>3, <2>4, <2>5 DEF Watch
<1>8. QED
  BY <1>1, <1>3, <1>4, <1>5, <1>6, <1>7 DEF ControlNext

(***************************************************************************)
(* Between changes that did not overlap, the recommend configuration in    *)
(* use is the one a restart computes from the file and the meta store:     *)
(* postConfig, deleteConfig and the reload of the file each leave the      *)
(* memory in step with what they read and wrote.                           *)
(***************************************************************************)
THEOREM OverrideMatchesAlways == ControlSpec => []OverrideMatches
<1>1. ControlInit => OverrideInv
  BY ControlStart
<1>2. OverrideInv => OverrideMatches
  BY NotBusy DEF OverrideInv, OverrideMatches, Quiet, Agreeing, Settled
<1>3. QED
  BY <1>1, <1>2, OverrideStep, PTL DEF ControlSpec

-----------------------------------------------------------------------------
(* The cluster: Membership.                                                *)

\* The ring: every worker and user has a place on it, workers different ones.
RingOK ==
    /\ IsFiniteSet(Workers) /\ IsFiniteSet(RingUsers)
    /\ Place \in [Workers \cup RingUsers -> 0 .. Ring - 1]
    /\ \A v, w \in Workers : Place[v] = Place[w] => v = w
    /\ TicksPerSecond \in Nat \ {0} /\ Timeout \in Nat

\* A small number is its own remainder.
LEMMA ModSmall == ASSUME NEW a \in Nat, NEW b \in Nat \ {0}, a < b PROVE a % b = a
OBVIOUS

\* A number past the first multiple loses it.
LEMMA ModWrap ==
    ASSUME NEW a \in Nat, NEW b \in Nat \ {0}, a >= b, a < b + b PROVE a % b = a - b
OBVIOUS

\* Rounding down to whole seconds does not raise a time.
LEMMA RoundsDown == ASSUME NEW a \in Nat, NEW b \in Nat \ {0} PROVE (a \div b) * b <= a
OBVIOUS

\* From one place two places are at different distances around the ring.
LEMMA Around ==
    ASSUME NEW R \in Nat \ {0}, NEW c \in 0 .. R - 1, NEW p \in 0 .. R - 1
    PROVE  /\ (p - c + R) % R = IF p < c THEN p - c + R ELSE p - c
           /\ (p - c + R) % R \in Nat
<1>1. CASE p < c
  <2>1. p - c + R \in Nat /\ p - c + R < R
    BY <1>1
  <2>2. QED
    BY <1>1, <2>1, ModSmall
<1>2. CASE p >= c
  <2>1. p - c + R \in Nat /\ p - c + R >= R /\ p - c + R < R + R
    BY <1>2
  <2>2. (p - c + R) % R = (p - c + R) - R
    BY <2>1, ModWrap
  <2>3. QED
    BY <1>2, <2>2
<1>3. QED
  BY <1>1, <1>2

\* Two places at one distance are one.
LEMMA AroundTells ==
    ASSUME NEW R \in Nat \ {0}, NEW c \in 0 .. R - 1, NEW p \in 0 .. R - 1, NEW q \in 0 .. R - 1,
           (p - c + R) % R = (q - c + R) % R
    PROVE  p = q
<1>1. PICK x : x = (p - c + R) % R /\ x = (q - c + R) % R
  OBVIOUS
<1>2. x = IF p < c THEN p - c + R ELSE p - c
  BY <1>1, Around
<1>3. x = IF q < c THEN q - c + R ELSE q - c
  BY <1>1, Around
<1>4. QED
  BY <1>2, <1>3

\* A worker is told apart by its distance from a user.
LEMMA DistanceTells ==
    ASSUME RingOK, NEW u \in RingUsers, NEW v \in Workers, NEW w \in Workers
    PROVE  /\ Distance(u, w) \in Nat
           /\ Distance(u, v) = Distance(u, w) => v = w
<1> DEFINE R == Ring
<1>1. Place[u] \in 0 .. R - 1 /\ Place[v] \in 0 .. R - 1 /\ Place[w] \in 0 .. R - 1
  BY DEF RingOK
<1>2. R \in Nat \ {0}
  <2>1. R \in Int
    BY FS_CardinalityType DEF RingOK, Ring
  <2>2. QED
    BY <1>1, <2>1
<1> HIDE DEF R
<1>3. (Place[w] - Place[u] + R) % R \in Nat
  BY <1>1, <1>2, Around
<1>4. (Place[v] - Place[u] + R) % R = (Place[w] - Place[u] + R) % R => Place[v] = Place[w]
  BY <1>1, <1>2, AroundTells
<1>5. QED
  BY <1>3, <1>4 DEF RingOK, Distance, R

\* Among some workers one is the nearest to a user.
LEMMA NearestExists ==
    ASSUME RingOK, NEW u \in RingUsers, NEW L \in SUBSET Workers, L # {}
    PROVE  \E w \in L : \A v \in L : Distance(u, w) <= Distance(u, v)
<1> DEFINE D == {Distance(u, w) : w \in L}
<1>1. D \subseteq Nat /\ D # {}
  BY DistanceTells
<1>2. PICK x \in D : \A y \in D : ~(<<y, x>> \in OpToRel(<, Nat))
  BY <1>1, NatLessThanWellFounded, WFMin
<1>3. \A y \in D : ~(y < x)
  BY <1>1, <1>2 DEF OpToRel
<1>4. PICK w \in L : x = Distance(u, w)
  OBVIOUS
<1>5. \A v \in L : Distance(u, v) \in D /\ Distance(u, v) \in Nat /\ x \in Nat
  BY <1>1
<1> HIDE DEF D
<1>6. ASSUME NEW v \in L PROVE x <= Distance(u, v)
  <2>1. PICK y \in Nat : y = Distance(u, v) /\ y \in D
    BY <1>5
  <2>2. ~(y < x) /\ x \in Nat
    BY <1>3, <1>5, <2>1
  <2>3. QED
    BY <2>1, <2>2
<1>7. QED
  BY <1>4, <1>6

\* A worker that has a list is in it: it registers before it is told the list.
MemberInv ==
    /\ time \in Nat
    /\ registered \in [Nodes -> Nat \cup {Never}]
    /\ peers \in [Nodes -> SUBSET Workers]
    /\ \A w \in Workers : peers[w] # {} => w \in peers[w]

\* Every step keeps it.
LEMMA MemberStep == ASSUME RingOK PROVE MemberInv /\ [MemberNext]_memberVars => MemberInv'
<1> SUFFICES ASSUME MemberInv, [MemberNext]_memberVars PROVE MemberInv'
  OBVIOUS
<1>1. ASSUME NEW n \in Nodes, Sync(n) PROVE MemberInv'
  <2> DEFINE r == [registered EXCEPT ![n] = time]
  <2>1. time' = time /\ registered' = Kept(r) /\ peers' = [peers EXCEPT ![n] = Listed(r)]
    BY <1>1 DEF Sync, GetMeta
  <2>2. r \in [Nodes -> Nat \cup {Never}] /\ r[n] = time
    BY DEF MemberInv
  <2>3. time # Never /\ time >= Threshold
    <3>1. time \in Nat /\ TicksPerSecond \in Nat \ {0} /\ Timeout \in Nat
      BY DEF MemberInv, RingOK
    <3>2. PICK k : k = (time \div TicksPerSecond) * TicksPerSecond
      OBVIOUS
    <3>3. k \in Int /\ k <= time
      BY <3>1, <3>2, RoundsDown
    <3>4. time >= k - Timeout /\ time # -1
      BY <3>1, <3>3
    <3>5. QED
      BY <3>2, <3>4 DEF Threshold, Never
  <2> HIDE DEF r
  <2>4. Kept(r) \in [Nodes -> Nat \cup {Never}]
    BY <2>2 DEF Kept
  <2>5. Listed(r) \in SUBSET Workers /\ (n \in Workers => n \in Listed(r))
    BY <2>2, <2>3 DEF Listed
  <2>6. QED
    BY <2>1, <2>4, <2>5 DEF MemberInv, Nodes
<1>2. ASSUME NEW n \in Nodes, SyncFails(n) PROVE MemberInv'
  BY <1>2 DEF MemberInv, SyncFails
<1>3. ASSUME NEW n \in Nodes, Crash(n) PROVE MemberInv'
  BY <1>3 DEF MemberInv, Crash
<1>4. ASSUME NEW n \in Nodes, Restart(n) PROVE MemberInv'
  BY <1>4 DEF MemberInv, Restart, Nodes
<1>5. CASE Tick
  BY <1>5 DEF MemberInv, Tick
<1>6. CASE UNCHANGED memberVars
  BY <1>6 DEF MemberInv, memberVars
<1>7. QED
  BY <1>1, <1>2, <1>3, <1>4, <1>5, <1>6 DEF MemberNext

\* The owner among all live workers owns the user in its own list too.
LEMMA Visited == ASSUME RingOK PROVE MemberInv => UsersAreCovered
<1> SUFFICES ASSUME MemberInv, Live # {}, \A w \in Live : peers[w] \cap Workers \subseteq Live,
                    NEW u \in RingUsers
             PROVE  \E w \in Live : u \in pullUsers(w)
  BY DEF UsersAreCovered
<1>1. Live \in SUBSET Workers
  BY DEF Live
<1>2. PICK w \in Live : \A v \in Live : Distance(u, w) <= Distance(u, v)
  BY <1>1, NearestExists
<1>3. w \in Workers /\ w \in peers[w] /\ peers[w] \in SUBSET Live
  BY <1>1 DEF MemberInv, Live, Nodes
<1>4. Owner(peers[w], u) = w
  <2>1. \A v \in peers[w] : Distance(u, w) <= Distance(u, v)
    BY <1>2, <1>3
  <2>2. ASSUME NEW x \in peers[w], \A v \in peers[w] : Distance(u, x) <= Distance(u, v) PROVE x = w
    <3>1. Distance(u, x) <= Distance(u, w) /\ Distance(u, w) <= Distance(u, x)
      BY <1>3, <2>1, <2>2
    <3>2. x \in Workers /\ Distance(u, x) \in Nat /\ Distance(u, w) \in Nat
      BY <1>1, <1>3, DistanceTells
    <3>3. Distance(u, x) = Distance(u, w)
      BY <3>1, <3>2
    <3>4. QED
      BY <1>3, <3>2, <3>3, DistanceTells
  <2>3. QED
    BY <1>3, <2>1, <2>2 DEF Owner
<1>5. QED
  BY <1>2, <1>3, <1>4 DEF pullUsers

\* Times: wakings are late by Jitter at most.
Delays == Jitter \in Nat

(***************************************************************************)
(* When the nodes were heard of.  A node that is up was told its list when *)
(* its waiting began, at due - Timeout, and wakes up in time.  A dead node *)
(* has not registered since it died.  So whoever is on a list and dead by  *)
(* now died no longer before the list was made than the time-out and the   *)
(* rounding allow.                                                         *)
(***************************************************************************)
Told(w) == due[w] - Timeout

HeardInv ==
    /\ time \in Nat
    /\ registered \in [Nodes -> Nat \cup {Never}]
    /\ alive \in [Nodes -> BOOLEAN] /\ missed \in [Nodes -> BOOLEAN]
    /\ due \in [Nodes -> Nat] /\ died \in [Nodes -> Nat \cup {Never}]
    /\ peers \in [Nodes -> SUBSET Workers]
    /\ \A n \in Nodes :
          /\ registered[n] <= time
          /\ Told(n) <= time
          /\ alive[n] => time <= due[n] + Jitter
          /\ ~alive[n] => registered[n] <= died[n] /\ died[n] <= time
    /\ \A w \in Nodes : alive[w] /\ ~missed[w] =>
          \A v \in peers[w] : ~alive[v] => died[v] > Told(w) - Timeout - TicksPerSecond

\* Rounding down to whole seconds loses less than one.
LEMMA RoundsLittle ==
    ASSUME NEW a \in Nat, NEW b \in Nat \ {0}
    PROVE  (a \div b) * b \in Int /\ (a \div b) * b > a - b
OBVIOUS

\* Who is on a list registered within the time-out and the rounding.
LEMMA ListedLate ==
    ASSUME RingOK, time \in Nat, NEW r \in [Nodes -> Nat \cup {Never}], NEW v \in Listed(r)
    PROVE  r[v] > time - TicksPerSecond - Timeout
<1>1. PICK k : k = (time \div TicksPerSecond) * TicksPerSecond
  OBVIOUS
<1>2. k \in Int /\ k > time - TicksPerSecond
  BY <1>1, RoundsLittle DEF RingOK
<1>3. v \in Nodes /\ r[v] \in Nat /\ r[v] >= k - Timeout
  BY <1>1 DEF Listed, Threshold, Nodes, Never
<1>4. QED
  BY <1>2, <1>3 DEF RingOK

\* Every step keeps it: a new list is as late as its registrations, and a crash
\* is later than every list.
LEMMA HeardStep ==
    ASSUME RingOK, Delays PROVE HeardInv /\ [MemberNext]_memberVars => HeardInv'
<1> SUFFICES ASSUME HeardInv, [MemberNext]_memberVars PROVE HeardInv'
  OBVIOUS
<1> TicksPerSecond \in Nat \ {0} /\ Timeout \in Nat /\ Jitter \in Nat /\ Never = -1
  BY DEF RingOK, Delays, Never
<1>1. ASSUME NEW n \in Nodes, Sync(n) PROVE HeardInv'
  <2> DEFINE r == [registered EXCEPT ![n] = time]
  <2>1. /\ time' = time /\ alive' = alive /\ died' = died /\ alive[n]
        /\ registered' = Kept(r) /\ peers' = [peers EXCEPT ![n] = Listed(r)]
        /\ due' = [due EXCEPT ![n] = time + Timeout]
        /\ missed' = [missed EXCEPT ![n] = FALSE]
    BY <1>1 DEF Sync, GetMeta, Awake
  <2>2. r \in [Nodes -> Nat \cup {Never}] /\ \A m \in Nodes : r[m] <= time
    BY DEF HeardInv
  <2>3. \A m \in Nodes : ~alive[m] => r[m] = registered[m]
    BY <2>1 DEF HeardInv
  <2>4. Listed(r) \in SUBSET Workers
    BY DEF Listed
  <2>5. \A m \in Nodes : Kept(r)[m] \in {Never, r[m]}
    BY DEF Kept
  <2>6. \A m \in Nodes : Kept(r)[m] \in Nat \cup {Never} /\ Kept(r)[m] <= r[m]
    <3> HIDE DEF r
    <3>1. \A m \in Nodes : r[m] \in Nat \cup {Never}
      BY <2>2
    <3>2. QED
      BY <2>5, <3>1
  <2>7. registered' \in [Nodes -> Nat \cup {Never}]
    BY <2>1, <2>6 DEF Kept
  <2>8. /\ time' \in Nat /\ alive' \in [Nodes -> BOOLEAN] /\ missed' \in [Nodes -> BOOLEAN]
        /\ due' \in [Nodes -> Nat] /\ died' \in [Nodes -> Nat \cup {Never}]
        /\ peers' \in [Nodes -> SUBSET Workers]
    <3> HIDE DEF r
    <3>1. missed' \in [Nodes -> BOOLEAN]
      BY <2>1 DEF HeardInv
    <3>2. due' \in [Nodes -> Nat]
      BY <2>1 DEF HeardInv
    <3>3. peers' \in [Nodes -> SUBSET Workers]
      BY <2>1, <2>4 DEF HeardInv
    <3>4. QED
      BY <2>1, <3>1, <3>2, <3>3 DEF HeardInv
  <2>9. ASSUME NEW m \in Nodes
        PROVE  /\ registered'[m] <= time' /\ Told(m)' <= time'
               /\ alive'[m] => time' <= due'[m] + Jitter
               /\ ~alive'[m] => registered'[m] <= died'[m] /\ died'[m] <= time'
    <3>1. registered'[m] \in Nat \cup {Never} /\ registered'[m] <= r[m] /\ r[m] <= time
      BY <2>1, <2>2, <2>6
    <3>2. /\ Told(m) <= time /\ (alive[m] => time <= due[m] + Jitter)
          /\ (~alive[m] => registered[m] <= died[m] /\ died[m] <= time)
      BY DEF HeardInv
    <3>3. due'[m] = IF m = n THEN time + Timeout ELSE due[m]
      BY <2>1 DEF HeardInv
    <3>4. due[m] \in Nat /\ due'[m] \in Nat /\ died[m] \in Int /\ r[m] \in Int /\ time \in Nat
      BY <2>2, <2>8 DEF HeardInv
    <3>5. Told(m)' <= time' /\ (alive'[m] => time' <= due'[m] + Jitter)
      BY <2>1, <3>2, <3>3, <3>4 DEF Told
    <3>6. ~alive'[m] => registered'[m] <= died'[m] /\ died'[m] <= time'
      BY <2>1, <2>3, <3>1, <3>2, <3>4
    <3>7. QED
      BY <2>1, <3>1, <3>4, <3>5, <3>6
  <2>10. ASSUME NEW w \in Nodes, alive'[w], ~missed'[w], NEW v \in peers'[w], ~alive'[v]
         PROVE  died'[v] > Told(w)' - Timeout - TicksPerSecond
    <3>1. v \in Workers /\ v \in Nodes
      BY <2>8 DEF Nodes
    <3>2. CASE w = n
      <4>1. v \in Listed(r) /\ Told(w)' = time
        BY <2>1, <2>8, <3>2 DEF Told, HeardInv
      <4>2. r[v] > time - TicksPerSecond - Timeout
        BY <2>2, <4>1, ListedLate DEF HeardInv
      <4>3. r[v] <= died[v] /\ r[v] \in Int /\ died[v] \in Int
        BY <2>1, <2>2, <2>3, <2>10, <3>1 DEF HeardInv
      <4>4. QED
        BY <2>1, <4>1, <4>2, <4>3 DEF HeardInv
    <3>3. CASE w # n
      <4>1. v \in peers[w] /\ alive[w] /\ ~missed[w] /\ ~alive[v] /\ due'[w] = due[w]
        BY <2>1, <2>10, <3>3 DEF HeardInv
      <4>2. QED
        BY <2>1, <4>1 DEF HeardInv, Told
    <3>4. QED
      BY <3>2, <3>3
  <2>11. QED
    BY <2>7, <2>8, <2>9, <2>10 DEF HeardInv
<1>2. ASSUME NEW n \in Nodes, SyncFails(n) PROVE HeardInv'
  BY <1>2 DEF HeardInv, SyncFails, Told, Awake
<1>3. ASSUME NEW n \in Nodes, Crash(n) PROVE HeardInv'
  BY <1>3 DEF HeardInv, Crash, Told
<1>4. ASSUME NEW n \in Nodes, Restart(n) PROVE HeardInv'
  BY <1>4 DEF HeardInv, Restart, Told
<1>5. CASE Tick
  BY <1>5 DEF HeardInv, Tick, Told
<1>6. CASE UNCHANGED memberVars
  BY <1>6 DEF HeardInv, memberVars, Told
<1>7. QED
  BY <1>1, <1>2, <1>3, <1>4, <1>5, <1>6 DEF MemberNext

\* Nobody who reached the master at its last synchronisation has a worker on its
\* list that died longer ago than two time-outs, the delay of a waking and a second.
LEMMA Forgotten == ASSUME RingOK, Delays PROVE HeardInv => DeadAreForgotten
<1> SUFFICES ASSUME HeardInv, NEW w \in Nodes, NEW v \in peers[w],
                    alive[w], ~missed[w], ~alive[v]
             PROVE  time - died[v] < 2 * Timeout + Jitter + TicksPerSecond
  BY DEF DeadAreForgotten
<1>1. v \in Nodes
  BY DEF HeardInv, Nodes
<1>2. died[v] > Told(w) - Timeout - TicksPerSecond /\ time <= due[w] + Jitter
  BY DEF HeardInv
<1>3. /\ died[v] \in Int /\ due[w] \in Nat /\ time \in Nat
      /\ TicksPerSecond \in Nat /\ Timeout \in Nat /\ Jitter \in Nat
  BY <1>1 DEF HeardInv, RingOK, Delays, Never
<1>4. QED
  BY <1>2, <1>3 DEF Told

(***************************************************************************)
(* However much the lists of the workers differ, as long as none names a   *)
(* worker that is gone, every user is visited by a worker; and a worker    *)
(* that is gone is soon on no list that was renewed since.                 *)
(***************************************************************************)
THEOREM EveryUserIsVisitedAlways ==
    ASSUME RingOK, Delays
    PROVE  MemberSpec => []EveryUserIsVisited
<1>1. MemberInit => MemberInv
  BY DEF MemberInit, MemberInv, RingOK, Nodes
<1>2. MemberInit => HeardInv
  BY DEF MemberInit, HeardInv, Told, RingOK, Delays, Never
<1>3. MemberInv /\ HeardInv => EveryUserIsVisited
  BY Visited, Forgotten DEF EveryUserIsVisited
<1>4. MemberInv /\ [MemberNext]_memberVars => MemberInv'
  BY MemberStep
<1>5. HeardInv /\ [MemberNext]_memberVars => HeardInv'
  BY HeardStep
<1>6. QED
  BY <1>1, <1>2, <1>3, <1>4, <1>5, PTL DEF MemberSpec

-----------------------------------------------------------------------------
(* The data set: DatasetLoad.                                              *)

\* A set of numbers has a least member.
LEMMA LeastOf == ASSUME NEW S \in SUBSET Nat, S # {} PROVE \E x \in S : \A y \in S : x <= y
<1>1. PICK x \in S : \A y \in S : ~(<<y, x>> \in OpToRel(<, Nat))
  BY NatLessThanWellFounded, WFMin
<1>2. \A y \in S : ~(y < x)
  BY <1>1 DEF OpToRel
<1>3. QED
  BY <1>2

\* How many groups parallel.Split makes, and the last item of the i-th.
Parts == Min({NItems, NumJobs})
Bound(i) == i * (NItems \div Parts) + Min({i, NItems % Parts})

LEMMA MinOfTwo == ASSUME NEW a \in Int, NEW b \in Int PROVE Min({a, b}) = IF a <= b THEN a ELSE b
BY DEF Min

LEMMA GroupsIs == Groups = [i \in 1 .. Parts |-> Bound(i - 1) + 1 .. Bound(i)]
BY DEF Groups, Split, Parts, Bound

\* Every group is longer by a whole share than the one before it is far.
LEMMA Bounds ==
  ASSUME NItems # 0
  PROVE  /\ Parts \in Nat \ {0}
         /\ \A i \in 0 .. Parts : Bound(i) \in Nat
         /\ Bound(0) = 0 /\ Bound(Parts) = NItems
         /\ \A i \in 1 .. Parts : Bound(i - 1) < Bound(i)
<1>1. PICK p : p = Parts
  OBVIOUS
<1>2. p \in Nat \ {0} /\ p <= NItems /\ NItems \in Nat
  BY <1>1, MinOfTwo, LoadAssumption DEF Parts
<1>3. PICK q, r : q = NItems \div p /\ r = NItems % p
  OBVIOUS
<1>4. q \in Nat /\ r \in Nat /\ r < p /\ NItems = p * q + r /\ q >= 1
  BY <1>2, <1>3
<1>5. \A i \in Nat : Bound(i) = i * q + (IF i <= r THEN i ELSE r)
  BY <1>1, <1>3, <1>4, MinOfTwo DEF Bound
<1>6. ASSUME NEW i \in Nat PROVE Bound(i) \in Nat /\ Bound(i + 1) > Bound(i)
  <2>1. PICK x : x = i * q
    OBVIOUS
  <2>2. x \in Nat /\ (i + 1) * q = x + q
    BY <1>4, <2>1
  <2>3. Bound(i) = x + (IF i <= r THEN i ELSE r) /\ Bound(i + 1) = x + q + (IF i + 1 <= r THEN i + 1 ELSE r)
    BY <1>5, <2>1, <2>2
  <2>4. QED
    BY <1>4, <2>2, <2>3
<1>7. Bound(0) = 0
  BY <1>4, <1>5
<1>8. Bound(p) = NItems
  BY <1>2, <1>4, <1>5
<1>9. ASSUME NEW i \in 1 .. p PROVE Bound(i - 1) < Bound(i)
  <2>1. i - 1 \in Nat /\ (i - 1) + 1 = i
    BY <1>2
  <2>2. QED
    BY <1>6, <2>1
<1>10. QED
  BY <1>1, <1>2, <1>6, <1>7, <1>8, <1>9

LEMMA BoundsGrow ==
  ASSUME NItems # 0, NEW i \in 0 .. Parts, NEW k \in i .. Parts
  PROVE  Bound(i) <= Bound(k)
<1>1. Parts \in Nat /\ (\A m \in 0 .. Parts : Bound(m) \in Nat) /\ \A m \in 1 .. Parts : Bound(m - 1) < Bound(m)
  BY Bounds
<1> DEFINE Bad == {m \in i .. Parts : ~(Bound(i) <= Bound(m))}
<1>2. SUFFICES ASSUME Bad # {} PROVE FALSE
  OBVIOUS
<1>3. PICK m \in Bad : \A y \in Bad : m <= y
  <2>1. Bad \subseteq Nat
    BY <1>1
  <2>2. QED
    BY <1>2, <2>1, LeastOf
<1>4. m \in i .. Parts /\ ~(Bound(i) <= Bound(m)) /\ m # i
  BY <1>1, <1>3
<1>5. m - 1 \in i .. Parts /\ m \in 1 .. Parts /\ m - 1 \in 0 .. Parts /\ m \in 0 .. Parts
  BY <1>1, <1>4
<1>6. Bound(i) <= Bound(m - 1)
  <2>1. m - 1 \notin Bad
    <3> HIDE DEF Bad
    <3>1. QED
      BY <1>3, <1>5
  <2>2. QED
    BY <1>5, <2>1
<1>7. QED
  BY <1>1, <1>4, <1>5, <1>6

\* The groups are intervals that share no item and leave none out.
LEMMA GroupsPartition ==
  /\ \A j \in DOMAIN Groups : /\ j \in Nat /\ Bound(j - 1) \in Nat /\ Bound(j) \in Nat
                              /\ Bound(j - 1) < Bound(j) /\ Bound(j) <= NItems
                              /\ Groups[j] = Bound(j - 1) + 1 .. Bound(j)
  /\ \A i \in 1 .. NItems : \E j \in DOMAIN Groups : i \in Groups[j]
  /\ \A j, k \in DOMAIN Groups : \A i \in Groups[j] \cap Groups[k] : j = k
<1>1. CASE NItems = 0
  <2>1. Parts = 0
    BY <1>1, MinOfTwo, LoadAssumption DEF Parts
  <2>2. DOMAIN Groups = {}
    BY <2>1, GroupsIs
  <2>3. QED
    BY <1>1, <2>2
<1>2. CASE NItems # 0
  <2>1. /\ Parts \in Nat \ {0} /\ DOMAIN Groups = 1 .. Parts
        /\ \A m \in 0 .. Parts : Bound(m) \in Nat
        /\ Bound(0) = 0 /\ Bound(Parts) = NItems
        /\ \A m \in 1 .. Parts : Bound(m - 1) < Bound(m)
        /\ \A m \in 1 .. Parts : Groups[m] = Bound(m - 1) + 1 .. Bound(m)
    BY <1>2, Bounds, GroupsIs
  <2>2. ASSUME NEW j \in 1 .. Parts
        PROVE  j \in Nat /\ Bound(j - 1) \in Nat /\ Bound(j) \in Nat /\ Bound(j) <= NItems
    <3>1. j \in 0 .. Parts /\ j - 1 \in 0 .. Parts /\ Parts \in j .. Parts /\ j \in Nat
      BY <2>1
    <3>2. QED
      BY <1>2, <2>1, <3>1, BoundsGrow
  <2>3. ASSUME NEW i \in 1 .. NItems
        PROVE  \E j \in 1 .. Parts : i \in Groups[j]
    <3> DEFINE Over == {j \in 1 .. Parts : i <= Bound(j)}
    <3>1. PICK j \in Over : \A y \in Over : j <= y
      <4>1. Parts \in Over
        BY <2>1, LoadAssumption
      <4>2. Over \subseteq Nat
        BY <2>1
      <4>3. QED
        BY <4>1, <4>2, LeastOf
    <3>2. j \in 1 .. Parts /\ i <= Bound(j) /\ Bound(j) \in Nat /\ Bound(j - 1) \in Nat
      BY <2>2, <3>1
    <3>3. Bound(j - 1) < i
      <4>1. CASE j = 1
        BY <2>1, <4>1
      <4>2. CASE j # 1
        <5>1. j - 1 \in 1 .. Parts /\ ~(j <= j - 1)
          BY <2>1, <3>2, <4>2
        <5>2. j - 1 \notin Over
          <6> HIDE DEF Over
          <6>1. QED
            BY <3>1, <5>1
        <5>3. QED
          BY <3>2, <5>1, <5>2
      <4>3. QED
        BY <4>1, <4>2
    <3>4. QED
      BY <2>1, <3>2, <3>3
  <2>4. ASSUME NEW j \in 1 .. Parts, NEW k \in 1 .. Parts, j < k, NEW i \in Groups[j] \cap Groups[k]
        PROVE  FALSE
    <3>1. j \in 0 .. Parts /\ k - 1 \in j .. Parts
      BY <2>1, <2>4
    <3>2. Bound(j) <= Bound(k - 1)
      BY <1>2, <3>1, BoundsGrow
    <3>3. Bound(j) \in Nat /\ Bound(k - 1) \in Nat
      BY <2>2
    <3>4. i \in Bound(j - 1) + 1 .. Bound(j) /\ i \in Bound(k - 1) + 1 .. Bound(k)
      BY <2>1
    <3>5. QED
      BY <3>2, <3>3, <3>4
  <2>5. ASSUME NEW j \in 1 .. Parts, NEW k \in 1 .. Parts, NEW i \in Groups[j] \cap Groups[k]
        PROVE  j = k
    <3>1. j < k \/ k < j \/ j = k
      BY <2>1
    <3>2. QED
      BY <2>4, <2>5, <3>1
  <2>6. QED
    BY <2>1, <2>2, <2>3, <2>5
<1>3. QED
  BY <1>1, <1>2

\* Positions in a group and items of it correspond one to one.
LEMMA Positions ==
  ASSUME NEW j \in DOMAIN Groups
  PROVE  /\ IsFiniteSet(Groups[j]) /\ Cardinality(Groups[j]) \in Nat /\ Groups[j] \subseteq 1 .. NItems
         /\ \A i \in Groups[j] : Position(i) \in 1 .. Cardinality(Groups[j]) /\ ItemAt(j, Position(i)) = i
         /\ \A p \in 1 .. Cardinality(Groups[j]) : ItemAt(j, p) \in Groups[j] /\ Position(ItemAt(j, p)) = p
<1>1. PICK a, b : a = Bound(j - 1) + 1 /\ b = Bound(j)
  OBVIOUS
<1>2. a \in Nat \ {0} /\ b \in Nat /\ a <= b /\ b <= NItems /\ Groups[j] = a .. b
  BY <1>1, GroupsPartition
<1>3. IsFiniteSet(Groups[j]) /\ Cardinality(Groups[j]) = b - a + 1
  <2>1. a \in Int /\ b \in Int /\ ~(a > b)
    BY <1>2
  <2>2. IsFiniteSet(a .. b) /\ Cardinality(a .. b) = b - a + 1
    BY <2>1, FS_Interval
  <2>3. QED
    BY <1>2, <2>2
<1>4. Min(a .. b) = a
  <2>1. a \in a .. b /\ \A y \in a .. b : a <= y
    BY <1>2
  <2>2. \A x \in a .. b : (\A y \in a .. b : x <= y) => x = a
    BY <1>2
  <2>3. QED
    BY <2>1, <2>2 DEF Min
<1>5. ASSUME NEW i \in Groups[j] PROVE (CHOOSE g \in Range(Groups) : i \in g) = Groups[j]
  <2>1. Groups[j] \in Range(Groups)
    BY DEF Range
  <2>2. ASSUME NEW g \in Range(Groups), i \in g PROVE g = Groups[j]
    <3>1. PICK k \in DOMAIN Groups : g = Groups[k]
      BY DEF Range
    <3>2. k = j
      BY <2>2, <3>1, GroupsPartition
    <3>3. QED
      BY <3>1, <3>2
  <2>3. QED
    BY <2>1, <2>2
<1>6. \A i \in Groups[j] : Position(i) = i - a + 1
  BY <1>2, <1>4, <1>5 DEF Position
<1>7. \A p : ItemAt(j, p) = a + p - 1
  BY <1>2, <1>4 DEF ItemAt
<1>8. Groups[j] \subseteq 1 .. NItems
  BY <1>2, LoadAssumption
<1>9. \A i \in Groups[j] : Position(i) \in 1 .. b - a + 1 /\ ItemAt(j, Position(i)) = i
  BY <1>2, <1>6, <1>7
<1>10. ASSUME NEW p \in 1 .. b - a + 1 PROVE ItemAt(j, p) \in Groups[j] /\ Position(ItemAt(j, p)) = p
  <2>1. ItemAt(j, p) = a + p - 1 /\ ItemAt(j, p) \in Groups[j]
    BY <1>2, <1>7
  <2>2. QED
    BY <1>2, <1>6, <2>1
<1>11. QED
  BY <1>2, <1>3, <1>8, <1>9, <1>10

\* What has been offered of item i, the feedback of each offer as a set; and that
\* no item is offered twice.
For(s, i) == {Range(s[k].feedback) : k \in {m \in DOMAIN s : s[m].item = i}}
Once(s) == \A k, m \in DOMAIN s : s[k].item = s[m].item => k = m

LEMMA ForBoth ==
  ASSUME NEW A, NEW s \in Seq(A), NEW t \in Seq(A)
  PROVE  /\ s \o t \in Seq(A)
         /\ \A i : For(s \o t, i) = For(s, i) \cup For(t, i)
         /\ Once(s) /\ Once(t) /\ (\A k \in DOMAIN s, m \in DOMAIN t : s[k].item # t[m].item) => Once(s \o t)
<1>1. PICK a, b \in Nat : a = Len(s) /\ b = Len(t) /\ DOMAIN s = 1 .. a /\ DOMAIN t = 1 .. b
  BY LenProperties
<1>2. PICK r : r = s \o t
  OBVIOUS
<1>3. r \in Seq(A) /\ DOMAIN r = 1 .. a + b /\ \A k \in 1 .. a + b : r[k] = IF k <= a THEN s[k] ELSE t[k - a]
  <2>1. r \in Seq(A) /\ Len(r) = a + b
    BY <1>1, <1>2, ConcatProperties
  <2>2. \A k \in 1 .. a + b : r[k] = IF k <= a THEN s[k] ELSE t[k - a]
    BY <1>1, <1>2, ConcatProperties
  <2>3. QED
    BY <1>1, <2>1, <2>2, LenProperties
<1>4. /\ \A k \in DOMAIN s : k \in DOMAIN r /\ r[k] = s[k]
      /\ \A k \in DOMAIN t : a + k \in DOMAIN r /\ r[a + k] = t[k]
      /\ \A k \in DOMAIN r : (k \in DOMAIN s /\ r[k] = s[k]) \/ (k - a \in DOMAIN t /\ r[k] = t[k - a])
  <2>1. ASSUME NEW k \in 1 .. a PROVE k \in 1 .. a + b /\ r[k] = s[k]
    BY <1>1, <1>3
  <2>2. ASSUME NEW k \in 1 .. b PROVE a + k \in 1 .. a + b /\ r[a + k] = t[k]
    <3>1. a + k \in 1 .. a + b /\ ~(a + k <= a) /\ (a + k) - a = k
      BY <1>1
    <3>2. QED
      BY <1>3, <3>1
  <2>3. ASSUME NEW k \in 1 .. a + b
        PROVE  (k \in 1 .. a /\ r[k] = s[k]) \/ (k - a \in 1 .. b /\ r[k] = t[k - a])
    BY <1>1, <1>3
  <2>4. QED
    BY <1>1, <1>3, <2>1, <2>2, <2>3
<1>5. ASSUME NEW i PROVE For(r, i) = For(s, i) \cup For(t, i)
  <2>1. ASSUME NEW x \in For(r, i) PROVE x \in For(s, i) \cup For(t, i)
    <3>1. PICK k \in DOMAIN r : r[k].item = i /\ x = Range(r[k].feedback)
      BY DEF For
    <3>2. QED
      BY <1>4, <3>1 DEF For
  <2>2. ASSUME NEW x \in For(s, i) PROVE x \in For(r, i)
    <3>1. PICK k \in DOMAIN s : s[k].item = i /\ x = Range(s[k].feedback)
      BY DEF For
    <3>2. QED
      BY <1>4, <3>1 DEF For
  <2>3. ASSUME NEW x \in For(t, i) PROVE x \in For(r, i)
    <3>1. PICK k \in DOMAIN t : t[k].item = i /\ x = Range(t[k].feedback)
      BY DEF For
    <3>2. QED
      BY <1>4, <3>1 DEF For
  <2>4. QED
    BY <2>1, <2>2, <2>3
<1>6. ASSUME Once(s), Once(t), \A k \in DOMAIN s, m \in DOMAIN t : s[k].item # t[m].item
      PROVE  Once(r)
  <2>1. ASSUME NEW k \in DOMAIN r, NEW m \in DOMAIN r, r[k].item = r[m].item PROVE k = m
    <3>1. CASE k \in DOMAIN s /\ r[k] = s[k]
      <4>1. m \in DOMAIN s /\ r[m] = s[m]
        BY <1>4, <1>6, <2>1, <3>1
      <4>2. QED
        BY <1>6, <2>1, <3>1, <4>1 DEF Once
    <3>2. CASE k - a \in DOMAIN t /\ r[k] = t[k - a]
      <4>1. m - a \in DOMAIN t /\ r[m] = t[m - a]
        BY <1>4, <1>6, <2>1, <3>2
      <4>2. k - a = m - a
        BY <1>6, <2>1, <3>2, <4>1 DEF Once
      <4>3. QED
        BY <1>1, <1>3, <4>2
    <3>3. QED
      BY <1>4, <3>1, <3>2
  <2>2. QED
    BY <2>1 DEF Once
<1>7. QED
  BY <1>2, <1>3, <1>5, <1>6

LEMMA ForOne ==
  ASSUME NEW A, NEW s \in Seq(A), NEW e \in A
  PROVE  /\ Append(s, e) \in Seq(A)
         /\ \A i : For(Append(s, e), i) = For(s, i) \cup (IF e.item = i THEN {Range(e.feedback)} ELSE {})
         /\ Once(s) /\ (\A k \in DOMAIN s : s[k].item # e.item) => Once(Append(s, e))
<1>1. PICK t : t = <<e>>
  OBVIOUS
<1>2. t \in Seq(A) /\ DOMAIN t = 1 .. 1 /\ t[1] = e /\ Append(s, e) = s \o t
  BY <1>1
<1>3. \A i : For(t, i) = IF e.item = i THEN {Range(e.feedback)} ELSE {}
  BY <1>2 DEF For
<1>4. Once(t)
  BY <1>2 DEF Once
<1>5. QED
  BY <1>2, <1>3, <1>4, ForBoth

\* The members of an extended sequence.
LEMMA RangeAppend ==
  ASSUME NEW A, NEW s \in Seq(A), NEW e \in A
  PROVE  Append(s, e) \in Seq(A) /\ Range(Append(s, e)) = Range(s) \cup {e} /\ Append(s, e) # <<>>
         /\ Last(Append(s, e)) = e
         /\ \A k \in DOMAIN Append(s, e) : Append(s, e)[k] \in Range(s) \cup {e}
<1>1. PICK n \in Nat : n = Len(s) /\ DOMAIN s = 1 .. n
  BY LenProperties
<1>2. PICK r : r = Append(s, e)
  OBVIOUS
<1>3. r \in Seq(A) /\ Len(r) = n + 1 /\ DOMAIN r = 1 .. n + 1 /\ r[n + 1] = e /\ \A k \in 1 .. n : r[k] = s[k]
  BY <1>1, <1>2, AppendProperties, LenProperties
<1>4. \A k \in 1 .. n + 1 : k \in 1 .. n \/ k = n + 1
  BY <1>1
<1>5. Range(r) = Range(s) \cup {e}
  <2>1. \A x \in Range(r) : x \in Range(s) \cup {e}
    BY <1>1, <1>3, <1>4 DEF Range
  <2>2. \A x \in Range(s) : x \in Range(r)
    <3>1. \A k \in 1 .. n : k \in 1 .. n + 1
      BY <1>1
    <3>2. QED
      BY <1>1, <1>3, <3>1 DEF Range
  <2>3. e \in Range(r)
    <3>1. n + 1 \in DOMAIN r
      BY <1>1, <1>3
    <3>2. QED
      BY <1>3, <3>1 DEF Range
  <2>4. QED
    BY <2>1, <2>2, <2>3
<1>6. r # <<>> /\ Last(r) = e
  BY <1>1, <1>3 DEF Last
<1>7. QED
  BY <1>2, <1>3, <1>5, <1>6 DEF Range

\* What is left of a stream when its first feedback is taken.
LEMMA TailIs ==
  ASSUME NEW A, NEW s \in Seq(A), s # <<>>
  PROVE  /\ Head(s) \in A /\ 1 \in DOMAIN s /\ Head(s) = s[1]
         /\ Tail(s) \in Seq(A)
         /\ \A k \in DOMAIN Tail(s) : k \in Nat /\ k + 1 \in DOMAIN s /\ Tail(s)[k] = s[k + 1]
<1>1. PICK n \in Nat \ {0} : n = Len(s) /\ DOMAIN s = 1 .. n
  BY LenProperties, EmptySeq
<1>2. PICK t : t = Tail(s)
  OBVIOUS
<1>3. t \in Seq(A) /\ Len(t) = n - 1 /\ \A k \in 1 .. n - 1 : t[k] = s[k + 1]
  BY <1>1, <1>2, HeadTailProperties
<1>4. DOMAIN t = 1 .. n - 1
  BY <1>3, LenProperties
<1>5. QED
  BY <1>1, <1>2, <1>3, <1>4, HeadTailProperties

\* SetToSeq lists every member of a finite set once.
LEMMA SetToSeqIs ==
  ASSUME NEW S, IsFiniteSet(S)
  PROVE  /\ Cardinality(S) \in Nat
         /\ SetToSeq(S) \in [1 .. Cardinality(S) -> S]
         /\ \A a, b \in 1 .. Cardinality(S) : SetToSeq(S)[a] = SetToSeq(S)[b] => a = b
         /\ \A x \in S : \E a \in 1 .. Cardinality(S) : SetToSeq(S)[a] = x
<1>1. PICK n \in Nat : n = Cardinality(S)
  BY FS_CardinalityType
<1>2. \E f \in [1 .. n -> S] : IsInjective(f)
  <2>1. Bijection(1 .. n, S) # {}
    BY <1>1, FS_CardinalityType DEF ExistsBijection
  <2>2. PICK f \in Injection(1 .. n, S) : TRUE
    BY <2>1 DEF Bijection
  <2>3. QED
    BY <2>2 DEF Injection
<1>3. PICK g : g = SetToSeq(S)
  OBVIOUS
<1>4. g \in [1 .. n -> S] /\ IsInjective(g)
  BY <1>1, <1>2, <1>3 DEF SetToSeq
<1>5. g \in Surjection(1 .. n, S)
  <2>1. g \in Injection(1 .. n, S)
    BY <1>4 DEF Injection
  <2>2. Cardinality(1 .. n) = n
    BY FS_Interval
  <2>3. QED
    BY <1>1, <2>1, <2>2, FS_Injection
<1>6. \A x \in S : \E a \in 1 .. n : g[a] = x
  BY <1>5 DEF Surjection
<1>7. \A a, b \in 1 .. n : g[a] = g[b] => a = b
  BY <1>4 DEF IsInjective
<1>8. QED
  BY <1>1, <1>3, <1>4, <1>6, <1>7

JobType == [pc : {"open", "stream", "count", "test", "end"}, todo : Seq(Store), buffer : Seq(Store),
            at : Nat, has : SUBSET Nat, seen : Nat, breaks : BOOLEAN, failed : BOOLEAN]

\* A job gathers the feedback of one item, which is not offered yet; what is to
\* come of this item comes before anything else, and nothing comes of an item
\* that was offered.  In the second pass, n = 2, the stream is ordered by item.
JobOK(j, job, n) ==
    /\ job \in JobType
    /\ \A k \in DOMAIN job.todo : job.todo[k][2] \in Groups[j]
    /\ n = 2 => Grouped(job.todo)
    /\ job.at \in 1 .. Cardinality(Groups[j]) /\ job.has \subseteq 1 .. Cardinality(Groups[j])
    /\ \A f \in Range(job.buffer) : f[2] = ItemAt(j, job.at)
    /\ job.pc \in {"stream", "count"} => \A k \in DOMAIN job.todo : Position(job.todo[k][2]) \notin job.has
    /\ job.buffer # <<>> =>
         /\ job.at \notin job.has
         /\ \A k \in DOMAIN job.todo : job.todo[k][2] = ItemAt(j, job.at) =>
              \A m \in 1 .. k : job.todo[m][2] = ItemAt(j, job.at)
    /\ job.pc = "count" => job.todo # <<>> /\ job.buffer # <<>> /\ Last(job.buffer) = Head(job.todo)
    /\ job.pc = "open" => job.has = {} /\ job.buffer = <<>>

\* The items a job has offered: all, once its stream has ended.
OfferedBy(j, job) == IF job.pc \in {"test", "end"} THEN Groups[j] ELSE {ItemAt(j, p) : p \in job.has}

\* What a job has gathered of an item, and what it is about to add of it.
InHand(j, job, i) == IF job.buffer # <<>> /\ i = ItemAt(j, job.at) THEN Range(job.buffer) ELSE {}
Coming(job, i) == IF job.pc = "count" /\ Head(job.todo)[2] = i THEN {Head(job.todo)} ELSE {}
AddedOf(a, i) == {f \in Range(a) : f[2] = i}

\* An item was offered with the feedback added for it, or it was not offered and
\* the job holds what was added.
ItemOK(j, job, s, a, i) ==
    IF i \in OfferedBy(j, job) THEN For(s, i) = {AddedOf(a, i)}
    ELSE For(s, i) = {} /\ AddedOf(a, i) \cup Coming(job, i) = InHand(j, job, i)
ItemsOK(j, job, s, a) == \A i \in Groups[j] : ItemOK(j, job, s, a, i)

\* Feedback is dropped.
LEMMA Dropped ==
  ASSUME NEW j \in DOMAIN Groups, NEW n, NEW job, JobOK(j, job, n), job.pc \in {"stream", "count"}, job.todo # <<>>
  PROVE  LET new == [job EXCEPT !.pc = "stream", !.todo = Tail(@)]
         IN  JobOK(j, new, n) /\ OfferedBy(j, new) = OfferedBy(j, job)
             /\ \A i : InHand(j, new, i) = InHand(j, job, i) /\ Coming(new, i) = {}
<1>1. PICK new : new = [job EXCEPT !.pc = "stream", !.todo = Tail(@)]
  OBVIOUS
<1>2. job \in JobType
  BY DEF JobOK
<1>3. /\ new \in JobType /\ new.pc = "stream" /\ new.todo = Tail(job.todo)
      /\ new.buffer = job.buffer /\ new.at = job.at /\ new.has = job.has
  <2>1. Tail(job.todo) \in Seq(Store)
    BY <1>2, TailIs DEF JobType
  <2>2. QED
    BY <1>1, <1>2, <2>1 DEF JobType
<1>4. PICK t, u : t = job.todo /\ u = new.todo
  OBVIOUS
<1>5. /\ t \in Seq(Store) /\ t # <<>> /\ \A k \in DOMAIN u : k \in Nat /\ k + 1 \in DOMAIN t /\ u[k] = t[k + 1]
  BY <1>2, <1>3, <1>4, TailIs DEF JobType
<1>6. PICK x : x = ItemAt(j, job.at)
  OBVIOUS
<1>7. \A k \in DOMAIN u : u[k][2] \in Groups[j] /\ Position(u[k][2]) \notin job.has
  BY <1>4, <1>5 DEF JobOK
<1>8. n = 2 => Grouped(u)
  <2>1. SUFFICES ASSUME n = 2, NEW a \in DOMAIN u, NEW c \in DOMAIN u, u[a][2] = u[c][2], NEW b \in a .. c
                 PROVE  u[b][2] = u[a][2]
    BY DEF Grouped
  <2>2. a \in Nat /\ c \in Nat /\ a + 1 \in DOMAIN t /\ c + 1 \in DOMAIN t /\ u[a] = t[a + 1] /\ u[c] = t[c + 1]
    BY <1>5
  <2>3. b + 1 \in (a + 1) .. (c + 1) /\ b \in Nat
    BY <2>2
  <2>4. t[b + 1][2] = t[a + 1][2]
    BY <1>4, <2>1, <2>2, <2>3 DEF JobOK, Grouped
  <2>5. b \in DOMAIN u
    <3>1. u \in Seq(Store)
      BY <1>3, <1>4 DEF JobType
    <3>2. DOMAIN u = 1 .. Len(u) /\ Len(u) \in Nat
      BY <3>1, LenProperties
    <3>3. QED
      BY <2>2, <3>2
  <2>6. QED
    BY <1>5, <2>2, <2>4, <2>5
<1>9. ASSUME job.buffer # <<>>, NEW k \in DOMAIN u, u[k][2] = x, NEW m \in 1 .. k
      PROVE  u[m][2] = x
  <2>1. k \in Nat /\ k + 1 \in DOMAIN t /\ u[k] = t[k + 1]
    BY <1>5
  <2>2. m + 1 \in 1 .. (k + 1) /\ m \in Nat
    BY <2>1
  <2>3. t[m + 1][2] = x
    BY <1>4, <1>6, <1>9, <2>1, <2>2 DEF JobOK
  <2>4. m \in DOMAIN u
    <3>1. u \in Seq(Store)
      BY <1>3, <1>4 DEF JobType
    <3>2. DOMAIN u = 1 .. Len(u) /\ Len(u) \in Nat
      BY <3>1, LenProperties
    <3>3. QED
      BY <2>1, <3>2
  <2>5. QED
    BY <1>5, <2>3, <2>4
<1>10. JobOK(j, new, n)
  <2>1. /\ \A f \in Range(new.buffer) : f[2] = ItemAt(j, new.at)
        /\ new.at \in 1 .. Cardinality(Groups[j]) /\ new.has \subseteq 1 .. Cardinality(Groups[j])
        /\ new.buffer # <<>> => new.at \notin new.has
    BY <1>3 DEF JobOK
  <2>2. new.buffer # <<>> => \A k \in DOMAIN new.todo : new.todo[k][2] = ItemAt(j, new.at) =>
              \A m \in 1 .. k : new.todo[m][2] = ItemAt(j, new.at)
    BY <1>3, <1>4, <1>6, <1>9
  <2>3. new.pc # "count" /\ new.pc # "open"
    BY <1>3
  <2>4. QED
    BY <1>3, <1>4, <1>7, <1>8, <2>1, <2>2, <2>3 DEF JobOK
<1>11. OfferedBy(j, new) = OfferedBy(j, job)
  BY <1>3 DEF OfferedBy
<1>12. \A i : InHand(j, new, i) = InHand(j, job, i) /\ Coming(new, i) = {}
  BY <1>3 DEF InHand, Coming
<1>13. QED
  BY <1>1, <1>10, <1>11, <1>12

\* A job before its stream is open.
LEMMA Fresh ==
  ASSUME NEW j \in DOMAIN Groups, NEW n
  PROVE  /\ JobOK(j, NewJob, n) /\ OfferedBy(j, NewJob) = {}
         /\ \A i : InHand(j, NewJob, i) = {} /\ Coming(NewJob, i) = {}
<1>1. Cardinality(Groups[j]) \in Nat /\ 1 <= Cardinality(Groups[j])
  <2>1. PICK a, b : a = Bound(j - 1) /\ b = Bound(j)
    OBVIOUS
  <2>2. a \in Nat /\ b \in Nat /\ a < b /\ Groups[j] = a + 1 .. b
    BY <2>1, GroupsPartition
  <2>3. Cardinality(Groups[j]) = b - (a + 1) + 1
    BY <2>2, FS_Interval
  <2>4. QED
    BY <2>2, <2>3
<1>2. NewJob \in JobType
  BY DEF NewJob, JobType
<1>3. Grouped(<<>>) /\ Range(<<>>) = {}
  BY DEF Grouped, Range
<1>4. /\ NewJob.pc = "open" /\ NewJob.todo = <<>> /\ NewJob.buffer = <<>> /\ NewJob.at = 1 /\ NewJob.has = {}
  BY DEF NewJob
<1>5. 1 \in 1 .. Cardinality(Groups[j])
  BY <1>1
<1>6. QED
  BY <1>2, <1>3, <1>4, <1>5 DEF JobOK, OfferedBy, InHand, Coming

\* The pass of a step.
LEMMA PassIs ==
  ASSUME step \in 1 .. 3
  PROVE  (Type = "neg" <=> step = 1) /\ (Type = "pos" <=> step = 2) /\ (Type = "read" <=> step = 3)
BY DEF Type, Steps

\* A stream is opened; it may deliver a part only.
LEMMA Opened ==
  ASSUME NEW j \in DOMAIN Groups, store \subseteq Store, step \in 1 .. 3,
         NEW s \in Streams(Groups[j]), NEW n \in 0 .. Len(s), NEW b \in BOOLEAN
  PROVE  LET new == [NewJob EXCEPT !.pc = "stream", !.todo = SubSeq(s, 1, n), !.breaks = b]
         IN  /\ JobOK(j, new, step) /\ OfferedBy(j, new) = {}
             /\ \A i : InHand(j, new, i) = {} /\ Coming(new, i) = {}
<1>1. PICK S : S = {f \in store : f[3] = Type /\ f[2] \in Groups[j]}
  OBVIOUS
<1>2. Cardinality(S) \in Nat /\ S \subseteq Store
  <2>1. IsFiniteSet(S)
    BY <1>1, LoadAssumption, FS_Subset
  <2>2. QED
    BY <1>1, <2>1, FS_CardinalityType
<1>3. s \in [1 .. Cardinality(S) -> S] /\ (step = 2 => Grouped(s))
  BY <1>1, PassIs DEF Streams, SetToSeqs
<1>4. Len(s) = Cardinality(S) /\ n \in Nat /\ n <= Cardinality(S)
  BY <1>2, <1>3
<1>5. PICK u : u = SubSeq(s, 1, n)
  OBVIOUS
<1>6. s \in Seq(S)
  BY <1>2, <1>3, SeqDef
<1>7. \A k \in 1 .. n : k \in 1 .. Cardinality(S)
  BY <1>2, <1>4
<1>8. u \in Seq(Store) /\ DOMAIN u = 1 .. n /\ \A k \in 1 .. n : u[k] = s[k] /\ u[k][2] \in Groups[j]
  <2>1. u \in Seq(S) /\ Len(u) = n /\ \A k \in 1 .. n : u[k] = s[k]
    BY <1>2, <1>4, <1>5, <1>6, SubSeqProperties
  <2>2. \A k \in 1 .. n : u[k] = s[k] /\ s[k] \in S
    BY <1>3, <1>7, <2>1
  <2>3. u \in [1 .. n -> Store]
    BY <1>2, <2>1, <2>2
  <2>4. QED
    BY <1>1, <1>4, <2>1, <2>2, <2>3, SeqDef
<1>9. ASSUME step = 2 PROVE Grouped(u)
  <2>1. ASSUME NEW a \in 1 .. n, NEW c \in 1 .. n, u[a][2] = u[c][2], NEW e \in a .. c
        PROVE  u[e][2] = u[a][2]
    <3>1. e \in 1 .. n
      BY <1>4
    <3>2. s[e][2] = s[a][2]
      BY <1>3, <1>7, <1>8, <1>9, <2>1 DEF Grouped
    <3>3. QED
      BY <1>8, <3>1, <3>2
  <2>2. QED
    BY <1>8, <2>1 DEF Grouped
<1>10. PICK new : new = [NewJob EXCEPT !.pc = "stream", !.todo = u, !.breaks = b]
  OBVIOUS
<1>11. /\ new \in JobType /\ new.pc = "stream" /\ new.todo = u /\ new.buffer = <<>> /\ new.has = {}
       /\ new.at = 1
  <2>1. new = [pc |-> "stream", todo |-> u, buffer |-> <<>>, at |-> 1, has |-> {},
               seen |-> 0, breaks |-> b, failed |-> FALSE]
    BY <1>10 DEF NewJob
  <2>2. QED
    BY <1>8, <2>1 DEF JobType
<1>12. Range(<<>>) = {}
  BY DEF Range
<1>13. 1 \in 1 .. Cardinality(Groups[j])
  BY Fresh DEF JobOK, NewJob
<1>14. JobOK(j, new, step) /\ OfferedBy(j, new) = {}
  BY <1>8, <1>9, <1>11, <1>12, <1>13 DEF JobOK, OfferedBy
<1>15. \A i : InHand(j, new, i) = {} /\ Coming(new, i) = {}
  BY <1>11 DEF InHand, Coming
<1>16. QED
  BY <1>5, <1>10, <1>14, <1>15

\* The next feedback, and where its item is.
LEMMA NextIs ==
  ASSUME NEW j \in DOMAIN Groups, NEW job, JobOK(j, job, 2), job.pc = "stream", job.todo # <<>>
  PROVE  LET f == Head(job.todo)
         IN  /\ f \in Store /\ f[2] \in Groups[j] /\ f = job.todo[1] /\ 1 \in DOMAIN job.todo
             /\ Position(f[2]) \in 1 .. Cardinality(Groups[j]) /\ ItemAt(j, Position(f[2])) = f[2]
             /\ Position(f[2]) \notin job.has
             /\ job.buffer # <<>> => Last(job.buffer) \in Range(job.buffer) /\ Last(job.buffer)[2] = ItemAt(j, job.at)
             /\ \A k \in DOMAIN job.todo : job.todo[k][2] = f[2] => \A m \in 1 .. k : job.todo[m][2] = f[2]
<1>1. job \in JobType
  BY DEF JobOK
<1>2. PICK f, t : f = Head(job.todo) /\ t = job.todo
  OBVIOUS
<1>3. t \in Seq(Store) /\ t # <<>> /\ f \in Store /\ 1 \in DOMAIN t /\ f = t[1]
  BY <1>1, <1>2, TailIs DEF JobType
<1>4. f[2] \in Groups[j] /\ Position(f[2]) \notin job.has
  BY <1>2, <1>3 DEF JobOK
<1>5. Position(f[2]) \in 1 .. Cardinality(Groups[j]) /\ ItemAt(j, Position(f[2])) = f[2]
  BY <1>4, Positions
<1>6. ASSUME job.buffer # <<>>
      PROVE  Last(job.buffer) \in Range(job.buffer) /\ Last(job.buffer)[2] = ItemAt(j, job.at)
  <2>1. job.buffer \in Seq(Store)
    BY <1>1 DEF JobType
  <2>2. Len(job.buffer) \in DOMAIN job.buffer
    BY <1>6, <2>1, LenProperties, EmptySeq
  <2>3. Last(job.buffer) \in Range(job.buffer)
    BY <2>2 DEF Last, Range
  <2>4. QED
    BY <2>3 DEF JobOK
<1>7. \A k \in DOMAIN t : t[k][2] = f[2] => \A m \in 1 .. k : t[m][2] = f[2]
  <2>1. Grouped(t)
    BY <1>2 DEF JobOK
  <2>2. QED
    BY <1>3, <2>1 DEF Grouped
<1>8. QED
  BY <1>2, <1>3, <1>4, <1>5, <1>6, <1>7

\* The job when feedback of the item that is gathered, or of the first item, is
\* taken; and when feedback of another item is.
SameItem(job, q) ==
  [job EXCEPT !.pc = "count", !.buffer = Append(@, Head(job.todo)),
              !.at = Position(Head(job.todo)[2]), !.seen = q]
NewItem(job, q) ==
  [job EXCEPT !.pc = "count", !.buffer = <<Head(job.todo)>>, !.has = @ \cup {job.at},
              !.at = Position(Head(job.todo)[2]), !.seen = q]

\* Feedback of the item that is gathered, or of the first item.
LEMMA Gathered ==
  ASSUME NEW j \in DOMAIN Groups, NEW job, JobOK(j, job, 2), job.pc = "stream", job.todo # <<>>, NEW q \in Nat,
         job.buffer = <<>> \/ Last(job.buffer)[2] = Head(job.todo)[2],
         NEW new, new = SameItem(job, q)
  PROVE  /\ JobOK(j, new, 2) /\ OfferedBy(j, new) = OfferedBy(j, job)
         /\ \A i : InHand(j, new, i) = InHand(j, job, i) \cup Coming(new, i)
<1>1. job \in JobType
  BY DEF JobOK
<1>2. PICK f, y, p, t, b : f = Head(job.todo) /\ y = f[2] /\ p = Position(y) /\ t = job.todo /\ b = job.buffer
  OBVIOUS
<1>3. /\ f \in Store /\ y \in Groups[j] /\ p \in 1 .. Cardinality(Groups[j]) /\ ItemAt(j, p) = y
      /\ p \notin job.has
      /\ \A k \in DOMAIN t : t[k][2] = y => \A m \in 1 .. k : t[m][2] = y
  BY <1>2, NextIs
<1>4. /\ Append(b, f) \in Seq(Store) /\ Range(Append(b, f)) = Range(b) \cup {f} /\ Append(b, f) # <<>>
      /\ Last(Append(b, f)) = f
  BY <1>1, <1>2, <1>3, RangeAppend DEF JobType
<1>5. \A g \in Range(b) : g[2] = y
  <2>1. CASE b = <<>>
    BY <2>1 DEF Range
  <2>2. CASE b # <<>>
    <3>1. ItemAt(j, job.at) = y
      BY <1>2, <2>2, NextIs
    <3>2. QED
      BY <1>2, <3>1 DEF JobOK
  <2>3. QED
    BY <2>1, <2>2
<1>6. new = [job EXCEPT !.pc = "count", !.buffer = Append(@, f), !.at = p, !.seen = q]
  BY <1>2 DEF SameItem
<1>7. /\ new \in JobType /\ new.pc = "count" /\ new.todo = t /\ new.buffer = Append(b, f) /\ new.at = p
      /\ new.has = job.has
  <2>1. p \in Nat
    BY <1>3
  <2>2. QED
    BY <1>1, <1>2, <1>4, <1>6, <2>1 DEF JobType
<1>8. JobOK(j, new, 2)
  <2>1. /\ \A k \in DOMAIN new.todo : new.todo[k][2] \in Groups[j]
        /\ Grouped(new.todo)
        /\ new.at \in 1 .. Cardinality(Groups[j]) /\ new.has \subseteq 1 .. Cardinality(Groups[j])
        /\ \A k \in DOMAIN new.todo : Position(new.todo[k][2]) \notin new.has
    BY <1>2, <1>3, <1>7 DEF JobOK
  <2>2. \A g \in Range(new.buffer) : g[2] = ItemAt(j, new.at)
    BY <1>2, <1>3, <1>4, <1>5, <1>7
  <2>3. /\ new.at \notin new.has
        /\ \A k \in DOMAIN new.todo : new.todo[k][2] = ItemAt(j, new.at) =>
             \A m \in 1 .. k : new.todo[m][2] = ItemAt(j, new.at)
    BY <1>3, <1>7
  <2>4. new.todo # <<>> /\ new.buffer # <<>> /\ Last(new.buffer) = Head(new.todo)
    BY <1>2, <1>4, <1>7
  <2>5. QED
    BY <1>7, <2>1, <2>2, <2>3, <2>4 DEF JobOK
<1>9. OfferedBy(j, new) = OfferedBy(j, job)
  BY <1>7 DEF OfferedBy
<1>10. ASSUME NEW i PROVE InHand(j, new, i) = InHand(j, job, i) \cup Coming(new, i)
  <2>1. InHand(j, new, i) = IF i = y THEN Range(b) \cup {f} ELSE {}
    BY <1>3, <1>4, <1>7 DEF InHand
  <2>2. Coming(new, i) = IF i = y THEN {f} ELSE {}
    BY <1>2, <1>7 DEF Coming
  <2>3. InHand(j, job, i) = IF i = y THEN Range(b) ELSE {}
    <3>1. CASE b = <<>>
      BY <1>2, <3>1 DEF InHand, Range
    <3>2. CASE b # <<>>
      <4>1. ItemAt(j, job.at) = y
        BY <1>2, <3>2, NextIs
      <4>2. QED
        BY <1>2, <3>2, <4>1 DEF InHand
    <3>3. QED
      BY <3>1, <3>2
  <2>4. QED
    BY <2>1, <2>2, <2>3
<1>11. QED
  BY <1>8, <1>9, <1>10

\* Feedback of another item: what was gathered is offered.
LEMMA Turned ==
  ASSUME NEW j \in DOMAIN Groups, NEW job, JobOK(j, job, 2), job.pc = "stream", job.todo # <<>>, NEW q \in Nat,
         ~(job.buffer = <<>> \/ Last(job.buffer)[2] = Head(job.todo)[2]),
         NEW new, new = NewItem(job, q),
         NEW x, x = ItemAt(j, job.at)
  PROVE  /\ JobOK(j, new, 2) /\ x \in Groups[j]
         /\ x \notin OfferedBy(j, job) /\ OfferedBy(j, new) = OfferedBy(j, job) \cup {x}
         /\ InHand(j, job, x) = Range(job.buffer)
         /\ \A i : i # x => InHand(j, job, i) = {}
         /\ \A i : i \notin OfferedBy(j, new) => InHand(j, new, i) = Coming(new, i)
<1>1. job \in JobType
  BY DEF JobOK
<1>2. PICK f, y, p, t, b : f = Head(job.todo) /\ y = f[2] /\ p = Position(y) /\ t = job.todo /\ b = job.buffer
  OBVIOUS
<1>3. /\ f \in Store /\ y \in Groups[j] /\ p \in 1 .. Cardinality(Groups[j]) /\ ItemAt(j, p) = y
      /\ p \notin job.has /\ 1 \in DOMAIN t /\ f = t[1]
      /\ \A k \in DOMAIN t : t[k][2] = y => \A m \in 1 .. k : t[m][2] = y
  BY <1>2, NextIs
<1>4. x = ItemAt(j, job.at)
  OBVIOUS
<1>5. b # <<>> /\ x # y /\ x \in Groups[j] /\ Position(x) = job.at /\ job.at \in 1 .. Cardinality(Groups[j])
  <2>1. b # <<>> /\ x # y
    BY <1>2, <1>4, NextIs
  <2>2. job.at \in 1 .. Cardinality(Groups[j])
    BY DEF JobOK
  <2>3. QED
    BY <1>4, <2>1, <2>2, Positions
<1>6. p # job.at
  BY <1>3, <1>4, <1>5
<1>7. new = [job EXCEPT !.pc = "count", !.buffer = <<f>>, !.has = @ \cup {job.at}, !.at = p, !.seen = q]
  BY <1>2 DEF NewItem
<1>8. /\ new \in JobType /\ new.pc = "count" /\ new.todo = t /\ new.buffer = <<f>> /\ new.at = p
      /\ new.has = job.has \cup {job.at}
  <2>1. PICK c, h : c = <<f>> /\ h = job.has \cup {job.at}
    OBVIOUS
  <2>2. p \in Nat /\ c \in Seq(Store) /\ h \in SUBSET Nat
    BY <1>1, <1>3, <1>5, <2>1 DEF JobType
  <2>3. new = [job EXCEPT !.pc = "count", !.buffer = c, !.has = h, !.at = p, !.seen = q]
    BY <1>7, <2>1
  <2>4. new \in JobType /\ new.pc = "count" /\ new.todo = t /\ new.buffer = c /\ new.at = p /\ new.has = h
    BY <1>1, <1>2, <2>2, <2>3 DEF JobType
  <2>5. QED
    BY <2>1, <2>4
<1>9. Range(<<f>>) = {f} /\ Last(<<f>>) = f
  BY DEF Range, Last
<1>10. ASSUME NEW k \in DOMAIN t PROVE Position(t[k][2]) \notin new.has
  <2>1. Position(t[k][2]) \notin job.has /\ t[k][2] \in Groups[j]
    BY <1>2 DEF JobOK
  <2>2. t[k][2] # x
    <3>1. SUFFICES ASSUME t[k][2] = x PROVE FALSE
      OBVIOUS
    <3>2. \A m \in 1 .. k : t[m][2] = x
      BY <1>2, <1>4, <1>5, <3>1 DEF JobOK
    <3>3. 1 \in 1 .. k
      <4>1. t \in Seq(Store)
        BY <1>1, <1>2 DEF JobType
      <4>2. DOMAIN t = 1 .. Len(t) /\ Len(t) \in Nat
        BY <4>1, LenProperties
      <4>3. QED
        BY <4>2
    <3>4. QED
      BY <1>2, <1>3, <1>5, <3>2, <3>3
  <2>3. Position(t[k][2]) # job.at
    BY <1>4, <2>1, <2>2, Positions
  <2>4. QED
    BY <1>8, <2>1, <2>3
<1>11. JobOK(j, new, 2)
  <2>1. /\ \A k \in DOMAIN new.todo : new.todo[k][2] \in Groups[j]
        /\ Grouped(new.todo)
        /\ new.at \in 1 .. Cardinality(Groups[j]) /\ new.has \subseteq 1 .. Cardinality(Groups[j])
    BY <1>2, <1>3, <1>5, <1>8 DEF JobOK
  <2>2. \A g \in Range(new.buffer) : g[2] = ItemAt(j, new.at)
    BY <1>2, <1>3, <1>8, <1>9
  <2>3. /\ new.at \notin new.has
        /\ \A k \in DOMAIN new.todo : new.todo[k][2] = ItemAt(j, new.at) =>
             \A m \in 1 .. k : new.todo[m][2] = ItemAt(j, new.at)
    BY <1>3, <1>6, <1>8
  <2>4. new.todo # <<>> /\ new.buffer # <<>> /\ Last(new.buffer) = Head(new.todo)
    BY <1>2, <1>8, <1>9
  <2>5. \A k \in DOMAIN new.todo : Position(new.todo[k][2]) \notin new.has
    BY <1>8, <1>10
  <2>6. QED
    BY <1>8, <2>1, <2>2, <2>3, <2>4, <2>5 DEF JobOK
<1>12. x \notin OfferedBy(j, job)
  <2>1. SUFFICES ASSUME NEW a \in job.has, x = ItemAt(j, a) PROVE FALSE
    BY DEF OfferedBy
  <2>2. a \in 1 .. Cardinality(Groups[j]) /\ job.at \notin job.has
    BY <1>2, <1>5 DEF JobOK
  <2>3. Position(x) = a
    BY <2>1, <2>2, Positions
  <2>4. QED
    BY <1>5, <2>1, <2>2, <2>3
<1>13. OfferedBy(j, new) = OfferedBy(j, job) \cup {x}
  BY <1>4, <1>8 DEF OfferedBy
<1>14. InHand(j, job, x) = Range(job.buffer) /\ \A i : i # x => InHand(j, job, i) = {}
  BY <1>2, <1>4, <1>5 DEF InHand
<1>15. ASSUME NEW i PROVE InHand(j, new, i) = Coming(new, i)
  <2>1. InHand(j, new, i) = IF i = y THEN {f} ELSE {}
    <3>1. new.buffer # <<>> /\ Range(new.buffer) = {f} /\ ItemAt(j, new.at) = y
      BY <1>3, <1>8, <1>9
    <3>2. QED
      BY <3>1 DEF InHand
  <2>2. Coming(new, i) = IF y = i THEN {f} ELSE {}
    BY <1>2, <1>8 DEF Coming
  <2>3. QED
    BY <2>1, <2>2
<1>16. QED
  BY <1>5, <1>11, <1>12, <1>13, <1>14, <1>15

Offered == [item : 1 .. NItems, feedback : Seq(Store)]

\* The items of a group that had no feedback.
RestOf(j, has) ==
  LET rest == SetToSeq(1 .. Cardinality(Groups[j]) \ has)
  IN  [k \in DOMAIN rest |-> [item |-> ItemAt(j, rest[k]), feedback |-> <<>>]]

LEMMA Without ==
  ASSUME NEW j \in DOMAIN Groups, NEW H \in SUBSET (1 .. Cardinality(Groups[j])), NEW r, r = RestOf(j, H)
  PROVE  /\ r \in Seq(Offered) /\ Once(r)
         /\ \A i : For(r, i) = IF \E p \in 1 .. Cardinality(Groups[j]) \ H : i = ItemAt(j, p)
                               THEN {{}} ELSE {}
<1>1. PICK S : S = 1 .. Cardinality(Groups[j]) \ H
  OBVIOUS
<1>2. IsFiniteSet(S)
  <2>1. IsFiniteSet(1 .. Cardinality(Groups[j]))
    BY Positions, FS_Interval
  <2>2. QED
    BY <1>1, <2>1, FS_Subset
<1>3. PICK rest : rest = SetToSeq(S)
  OBVIOUS
<1>4. PICK n : n = Cardinality(S)
  OBVIOUS
<1>5. /\ n \in Nat /\ rest \in [1 .. n -> S]
      /\ \A a, b \in 1 .. n : rest[a] = rest[b] => a = b
      /\ \A p \in S : \E a \in 1 .. n : rest[a] = p
  BY <1>2, <1>3, <1>4, SetToSeqIs
<1>6. \A p \in S : ItemAt(j, p) \in 1 .. NItems /\ Position(ItemAt(j, p)) = p
  BY <1>1, Positions
<1>7. r = [k \in DOMAIN rest |-> [item |-> ItemAt(j, rest[k]), feedback |-> <<>>]]
  BY <1>1, <1>3 DEF RestOf
<1>8. /\ DOMAIN r = 1 .. n
      /\ \A k \in 1 .. n : r[k].item = ItemAt(j, rest[k]) /\ r[k].feedback = <<>>
      /\ r \in Seq(Offered)
  <2>1. \A k \in 1 .. n : [item |-> ItemAt(j, rest[k]), feedback |-> <<>>] \in Offered
    BY <1>5, <1>6 DEF Offered
  <2>2. r \in [1 .. n -> Offered]
    BY <1>5, <1>7, <2>1
  <2>3. QED
    BY <1>5, <1>7, <2>2, SeqDef
<1>9. Once(r)
  <2>1. ASSUME NEW k \in 1 .. n, NEW m \in 1 .. n, r[k].item = r[m].item PROVE k = m
    <3>1. rest[k] = rest[m]
      BY <1>5, <1>6, <1>8, <2>1
    <3>2. QED
      BY <1>5, <3>1
  <2>2. QED
    BY <1>8, <2>1 DEF Once
<1>10. Range(<<>>) = {}
  BY DEF Range
<1>11. ASSUME NEW i PROVE For(r, i) = IF \E p \in S : i = ItemAt(j, p) THEN {{}} ELSE {}
  <2>1. \A x \in For(r, i) : x = {} /\ \E p \in S : i = ItemAt(j, p)
    BY <1>5, <1>8, <1>10 DEF For
  <2>2. ASSUME NEW p \in S, i = ItemAt(j, p) PROVE {} \in For(r, i)
    <3>1. PICK k \in 1 .. n : rest[k] = p
      BY <1>5
    <3>2. r[k].item = i /\ Range(r[k].feedback) = {}
      BY <1>8, <1>10, <2>2, <3>1
    <3>3. QED
      BY <1>8, <3>2 DEF For
  <2>3. QED
    BY <2>1, <2>2
<1>12. QED
  BY <1>1, <1>8, <1>9, <1>11

\* One sequence offers the items of a group that had feedback, another the rest.
Halves(one, two, s, a, G, Has) ==
  /\ \A i \in G : /\ For(one, i) = IF i \in Has THEN {AddedOf(a, i)} ELSE {}
                  /\ For(two, i) = IF i \in Has THEN {} ELSE {{}}
                  /\ i \notin Has => AddedOf(a, i) = {}
  /\ \A i : i \notin G => For(one, i) = For(s, i) /\ For(two, i) = {}

LEMMA Completed ==
  ASSUME NEW one \in Seq(Offered), Once(one), NEW two \in Seq(Offered), Once(two), NEW s, NEW a,
         NEW G, NEW Has, Halves(one, two, s, a, G, Has)
  PROVE  /\ one \o two \in Seq(Offered) /\ Once(one \o two)
         /\ \A i \in G : For(one \o two, i) = {AddedOf(a, i)}
         /\ \A i : i \notin G => For(one \o two, i) = For(s, i)
<1>1. one \o two \in Seq(Offered) /\ \A i : For(one \o two, i) = For(one, i) \cup For(two, i)
  BY ForBoth
<1>2. Once(one \o two)
  <2>1. ASSUME NEW k \in DOMAIN one, NEW m \in DOMAIN two, one[k].item = two[m].item PROVE FALSE
    <3>1. PICK i : i = two[m].item
      OBVIOUS
    <3>2. For(two, i) # {} /\ For(one, i) # {}
      BY <2>1, <3>1 DEF For
    <3>3. QED
      BY <3>2 DEF Halves
  <2>2. QED
    BY <2>1, ForBoth
<1>3. \A i \in G : For(one \o two, i) = {AddedOf(a, i)}
  <2>1. ASSUME NEW i \in G PROVE For(one \o two, i) = {AddedOf(a, i)}
    <3>1. CASE i \in Has
      BY <1>1, <3>1 DEF Halves
    <3>2. CASE i \notin Has
      BY <1>1, <3>2 DEF Halves
    <3>3. QED
      BY <3>1, <3>2
  <2>2. QED
    BY <2>1
<1>4. \A i : i \notin G => For(one \o two, i) = For(s, i)
  BY <1>1 DEF Halves
<1>5. QED
  BY <1>1, <1>2, <1>3, <1>4

\* What a job has offered when its stream ends, and what it then offers.
HasOf(job) == IF job.buffer = <<>> THEN job.has ELSE job.has \cup {job.at}
LastOf(j, job, s) ==
  IF job.buffer = <<>> THEN s ELSE Append(s, [item |-> ItemAt(j, job.at), feedback |-> job.buffer])

\* The item gathered last is offered.
LEMMA LastIs ==
  ASSUME NEW j \in DOMAIN Groups, NEW job, JobOK(j, job, 2), job.pc = "stream", job.todo = <<>>,
         NEW s \in Seq(Offered), Once(s), NEW a, ItemsOK(j, job, s, a)
  PROVE  /\ HasOf(job) \in SUBSET (1 .. Cardinality(Groups[j]))
         /\ LastOf(j, job, s) \in Seq(Offered) /\ Once(LastOf(j, job, s))
         /\ \A i \in Groups[j] : /\ Position(i) \in HasOf(job) => For(LastOf(j, job, s), i) = {AddedOf(a, i)}
                                 /\ Position(i) \notin HasOf(job) =>
                                      For(LastOf(j, job, s), i) = {} /\ AddedOf(a, i) = {}
         /\ \A i : i \notin Groups[j] => For(LastOf(j, job, s), i) = For(s, i)
<1>1. PICK x, has, first : x = ItemAt(j, job.at) /\ has = HasOf(job) /\ first = LastOf(j, job, s)
  OBVIOUS
<1>2. /\ job.buffer \in Seq(Store) /\ job.at \in 1 .. Cardinality(Groups[j])
      /\ job.has \in SUBSET (1 .. Cardinality(Groups[j]))
      /\ (job.buffer # <<>> => job.at \notin job.has)
  BY DEF JobOK, JobType
<1>3. x \in Groups[j] /\ Position(x) = job.at /\ Groups[j] \subseteq 1 .. NItems
  BY <1>1, <1>2, Positions
\* The items that a job has not offered are those of the other positions.
<1>4. \A i \in Groups[j] : i \in OfferedBy(j, job) <=> Position(i) \in job.has
  <2>1. OfferedBy(j, job) = {ItemAt(j, p) : p \in job.has}
    BY DEF OfferedBy
  <2>2. QED
    BY <1>2, <2>1, Positions
<1>5. \A i \in Groups[j] : /\ Position(i) \in job.has => For(s, i) = {AddedOf(a, i)}
                           /\ Position(i) \notin job.has => For(s, i) = {} /\ AddedOf(a, i) = InHand(j, job, i)
  <2>1. \A i : Coming(job, i) = {}
    BY DEF Coming
  <2>2. QED
    BY <1>4, <2>1 DEF ItemOK, ItemsOK
<1>6. CASE job.buffer = <<>>
  <2>1. has = job.has /\ first = s
    BY <1>1, <1>6 DEF HasOf, LastOf
  <2>2. \A i : InHand(j, job, i) = {}
    BY <1>6 DEF InHand
  <2>3. /\ \A i \in Groups[j] : /\ Position(i) \in has => For(first, i) = {AddedOf(a, i)}
                                /\ Position(i) \notin has => For(first, i) = {} /\ AddedOf(a, i) = {}
        /\ \A i : i \notin Groups[j] => For(first, i) = For(s, i)
    BY <1>5, <2>1, <2>2
  <2>4. QED
    BY <1>1, <1>2, <2>1, <2>3
<1>7. CASE job.buffer # <<>>
  <2>1. PICK e : e = [item |-> x, feedback |-> job.buffer]
    OBVIOUS
  <2>2. e \in Offered /\ e.item = x /\ e.feedback = job.buffer
    BY <1>2, <1>3, <2>1 DEF Offered
  <2>3. has = job.has \cup {job.at} /\ first = Append(s, e)
    BY <1>1, <1>7, <2>1 DEF HasOf, LastOf
  <2>4. For(s, x) = {} /\ AddedOf(a, x) = Range(job.buffer)
    <3>1. InHand(j, job, x) = Range(job.buffer)
      BY <1>1, <1>7 DEF InHand
    <3>2. Position(x) \notin job.has
      BY <1>2, <1>3, <1>7
    <3>3. QED
      BY <1>3, <1>5, <3>1, <3>2
  <2>5. \A k \in DOMAIN s : s[k].item # e.item
    BY <2>2, <2>4 DEF For
  <2>6. /\ first \in Seq(Offered) /\ Once(first)
        /\ \A i : For(first, i) = For(s, i) \cup (IF i = x THEN {Range(job.buffer)} ELSE {})
    BY <2>2, <2>3, <2>5, ForOne
  <2>7. \A i : i # x => InHand(j, job, i) = {}
    BY <1>1 DEF InHand
  <2>8. ASSUME NEW i \in Groups[j]
        PROVE  /\ Position(i) \in has => For(first, i) = {AddedOf(a, i)}
               /\ Position(i) \notin has => For(first, i) = {} /\ AddedOf(a, i) = {}
    <3>1. CASE i = x
      BY <1>3, <2>3, <2>4, <2>6, <3>1
    <3>2. CASE i # x
      <4>1. For(first, i) = For(s, i) /\ InHand(j, job, i) = {}
        BY <2>6, <2>7, <3>2
      <4>2. Position(i) # job.at
        BY <1>1, <3>2, Positions
      <4>3. QED
        BY <1>5, <2>3, <4>1, <4>2
    <3>3. QED
      BY <3>1, <3>2
  <2>9. \A i : i \notin Groups[j] => For(first, i) = For(s, i)
    BY <1>3, <2>6
  <2>10. has \in SUBSET (1 .. Cardinality(Groups[j]))
    BY <1>2, <2>3
  <2>11. QED
    BY <1>1, <2>6, <2>8, <2>9, <2>10
<1>8. QED
  BY <1>6, <1>7

\* When the stream ends, everything of the group is offered, and nothing of another.
LEMMA Finished ==
  ASSUME NEW j \in DOMAIN Groups, NEW job, JobOK(j, job, 2), job.pc = "stream", job.todo = <<>>,
         NEW s \in Seq(Offered), Once(s), NEW a, ItemsOK(j, job, s, a)
  PROVE  LET out == LastOf(j, job, s) \o RestOf(j, HasOf(job))
         IN  /\ out \in Seq(Offered) /\ Once(out)
             /\ \A i \in Groups[j] : For(out, i) = {AddedOf(a, i)}
             /\ \A i : i \notin Groups[j] => For(out, i) = For(s, i)
<1>1. PICK one, two, G, Has : /\ one = LastOf(j, job, s) /\ two = RestOf(j, HasOf(job))
                              /\ G = Groups[j] /\ Has = {i \in Groups[j] : Position(i) \in HasOf(job)}
  OBVIOUS
<1>2. /\ HasOf(job) \in SUBSET (1 .. Cardinality(Groups[j]))
      /\ one \in Seq(Offered) /\ Once(one)
      /\ \A i \in G : /\ For(one, i) = IF i \in Has THEN {AddedOf(a, i)} ELSE {}
                      /\ i \notin Has => AddedOf(a, i) = {}
      /\ \A i : i \notin G => For(one, i) = For(s, i)
  <2>1. /\ HasOf(job) \in SUBSET (1 .. Cardinality(Groups[j]))
        /\ LastOf(j, job, s) \in Seq(Offered) /\ Once(LastOf(j, job, s))
        /\ \A i \in Groups[j] : /\ Position(i) \in HasOf(job) => For(LastOf(j, job, s), i) = {AddedOf(a, i)}
                                /\ Position(i) \notin HasOf(job) =>
                                     For(LastOf(j, job, s), i) = {} /\ AddedOf(a, i) = {}
        /\ \A i : i \notin Groups[j] => For(LastOf(j, job, s), i) = For(s, i)
    BY LastIs
  <2>2. ASSUME NEW i \in G
        PROVE  /\ For(one, i) = IF i \in Has THEN {AddedOf(a, i)} ELSE {}
               /\ i \notin Has => AddedOf(a, i) = {}
    <3>1. For(one, i) = For(LastOf(j, job, s), i) /\ (i \in Has <=> Position(i) \in HasOf(job))
      BY <1>1
    <3>2. i \in Groups[j]
      BY <1>1
    <3>3. CASE Position(i) \in HasOf(job)
      <4>1. For(LastOf(j, job, s), i) = {AddedOf(a, i)}
        BY <2>1, <3>2, <3>3
      <4>2. QED
        BY <3>1, <3>3, <4>1
    <3>4. CASE Position(i) \notin HasOf(job)
      <4>1. For(LastOf(j, job, s), i) = {} /\ AddedOf(a, i) = {}
        BY <2>1, <3>2, <3>4
      <4>2. QED
        BY <3>1, <3>4, <4>1
    <3>5. QED
      BY <3>3, <3>4
  <2>3. ASSUME NEW i, i \notin G PROVE For(one, i) = For(s, i)
    BY <1>1, <2>1, <2>3
  <2>4. one \in Seq(Offered) /\ Once(one)
    BY <1>1, <2>1
  <2>5. QED
    BY <2>1, <2>2, <2>3, <2>4
<1>3. /\ two \in Seq(Offered) /\ Once(two)
      /\ \A i : For(two, i) = IF \E p \in 1 .. Cardinality(Groups[j]) \ HasOf(job) : i = ItemAt(j, p)
                              THEN {{}} ELSE {}
  BY <1>1, <1>2, Without
<1>4. \A i \in G : (\E p \in 1 .. Cardinality(Groups[j]) \ HasOf(job) : i = ItemAt(j, p)) <=> i \notin Has
  BY <1>1, Positions
<1>5. \A i : i \notin G => ~ \E p \in 1 .. Cardinality(Groups[j]) \ HasOf(job) : i = ItemAt(j, p)
  BY <1>1, Positions
<1>6. Halves(one, two, s, a, G, Has)
  <2>1. ASSUME NEW i \in G PROVE For(two, i) = IF i \in Has THEN {} ELSE {{}}
    BY <1>3, <1>4
  <2>2. ASSUME NEW i, i \notin G PROVE For(two, i) = {}
    BY <1>3, <1>5, <2>2
  <2>3. QED
    BY <1>2, <2>1, <2>2 DEF Halves
<1>7. /\ one \o two \in Seq(Offered) /\ Once(one \o two)
      /\ \A i \in G : For(one \o two, i) = {AddedOf(a, i)}
      /\ \A i : i \notin G => For(one \o two, i) = For(s, i)
  BY <1>2, <1>3, <1>6, Completed
<1>8. QED
  BY <1>1, <1>7

\* The feedback that is counted is of the item that is gathered.
LEMMA Counted ==
  ASSUME NEW j \in DOMAIN Groups, NEW job, JobOK(j, job, 2), job.pc = "count", NEW a \in Seq(Store)
  PROVE  LET f == Head(job.todo)
         IN  /\ f \in Store /\ f[2] \in Groups[j] /\ f[2] \notin OfferedBy(j, job)
             /\ Append(a, f) \in Seq(Store)
             /\ \A i : AddedOf(Append(a, f), i) = AddedOf(a, i) \cup Coming(job, i)
<1>1. job \in JobType /\ job.todo # <<>> /\ job.buffer # <<>> /\ Last(job.buffer) = Head(job.todo)
  BY DEF JobOK
<1>2. PICK f, y : f = Head(job.todo) /\ y = f[2]
  OBVIOUS
<1>3. f \in Store /\ y \in Groups[j]
  <2>1. job.todo \in Seq(Store)
    BY <1>1 DEF JobType
  <2>2. 1 \in DOMAIN job.todo /\ f = job.todo[1] /\ f \in Store
    BY <1>1, <1>2, <2>1, TailIs
  <2>3. QED
    BY <1>2, <2>2 DEF JobOK
<1>4. y = ItemAt(j, job.at) /\ job.at \notin job.has
  <2>1. job.buffer \in Seq(Store)
    BY <1>1 DEF JobType
  <2>2. Len(job.buffer) \in DOMAIN job.buffer
    BY <1>1, <2>1, LenProperties, EmptySeq
  <2>3. Last(job.buffer) \in Range(job.buffer)
    BY <2>2 DEF Last, Range
  <2>4. QED
    BY <1>1, <1>2, <2>3 DEF JobOK
<1>5. y \notin OfferedBy(j, job)
  <2>1. SUFFICES ASSUME NEW p \in job.has, y = ItemAt(j, p) PROVE FALSE
    BY DEF OfferedBy
  <2>2. p \in 1 .. Cardinality(Groups[j]) /\ job.at \in 1 .. Cardinality(Groups[j])
    BY DEF JobOK
  <2>3. p = job.at
    BY <1>4, <2>1, <2>2, Positions
  <2>4. QED
    BY <1>4, <2>3
<1>6. Append(a, f) \in Seq(Store) /\ Range(Append(a, f)) = Range(a) \cup {f}
  BY <1>3, RangeAppend
<1>7. ASSUME NEW i PROVE AddedOf(Append(a, f), i) = AddedOf(a, i) \cup Coming(job, i)
  <2>1. Coming(job, i) = IF y = i THEN {f} ELSE {}
    BY <1>2 DEF Coming
  <2>2. QED
    BY <1>2, <1>6, <2>1 DEF AddedOf
<1>8. QED
  BY <1>2, <1>3, <1>5, <1>6, <1>7

JobsOK == jobs \in [DOMAIN Groups -> JobType] /\ \A j \in DOMAIN Groups : JobOK(j, jobs[j], step)

\* Only the second pass gathers, of loaded users; after the last the jobs are done.
PassesOK ==
    /\ step \in 1 .. 5
    /\ step \in {4, 5} => \A j \in DOMAIN Groups : jobs[j].pc = "open"
    /\ \A j \in DOMAIN Groups : jobs[j].pc = "count" => step = 2 /\ Head(jobs[j].todo)[1] \in Known

DataOK ==
    /\ store \subseteq Store /\ added \in Seq(Store) /\ pushed \in Seq(Offered)
    /\ freq \in [Known -> Nat] /\ err \in BOOLEAN

\* No item is offered twice.  In the second pass, what was added is offered or in
\* the hands of the job of the group; then it is offered.
OffersOK ==
    /\ Once(pushed)
    /\ step = 1 => pushed = <<>> /\ added = <<>>
    /\ step = 2 => \A j \in DOMAIN Groups : \A i \in Groups[j] : ItemOK(j, jobs[j], pushed, added, i)
    /\ step \in {3, 4} => \A i \in 1 .. NItems : For(pushed, i) = {AddedOf(added, i)}

\* A pass fills its own set, with what no earlier one has.
SetsOK ==
    /\ IsFiniteSet(negative) /\ IsFiniteSet(positive) /\ IsFiniteSet(read)
    /\ negative \cap positive = {} /\ read \cap (negative \cup positive) = {}
    /\ step = 1 => positive = {} /\ read = {}
    /\ step = 2 => read = {}

LoadInv == JobsOK /\ PassesOK /\ DataOK /\ OffersOK /\ SetsOK

\* One job changes.
LEMMA OneJob ==
  ASSUME JobsOK, step' = step, NEW j \in DOMAIN Groups, NEW new, JobOK(j, new, step),
         jobs' = [jobs EXCEPT ![j] = new]
  PROVE  /\ JobsOK' /\ jobs'[j] = new
         /\ \A k \in DOMAIN Groups : k # j => jobs'[k] = jobs[k]
<1>1. new \in JobType
  BY DEF JobOK
<1>2. jobs' \in [DOMAIN Groups -> JobType] /\ jobs'[j] = new
       /\ \A k \in DOMAIN Groups : k # j => jobs'[k] = jobs[k]
  BY <1>1 DEF JobsOK
<1>3. \A k \in DOMAIN Groups : JobOK(k, jobs'[k], step)
  BY <1>2 DEF JobsOK
<1>4. QED
  BY <1>2, <1>3 DEF JobsOK

\* What the other jobs hold does not depend on it.
LEMMA OtherItems ==
  ASSUME NEW j \in DOMAIN Groups, OffersOK, step = 2, step' = 2, Once(pushed'),
         \A k \in DOMAIN Groups : k # j => jobs'[k] = jobs[k],
         \A i : i \notin Groups[j] => For(pushed', i) = For(pushed, i) /\ AddedOf(added', i) = AddedOf(added, i),
         \A i \in Groups[j] : ItemOK(j, jobs'[j], pushed', added', i)
  PROVE  OffersOK'
<1>1. ASSUME NEW k \in DOMAIN Groups, k # j, NEW i \in Groups[k]
      PROVE  ItemOK(k, jobs'[k], pushed', added', i)
  <2>1. ItemOK(k, jobs[k], pushed, added, i)
    BY DEF OffersOK
  <2>2. i \notin Groups[j]
    BY <1>1, GroupsPartition
  <2>3. For(pushed', i) = For(pushed, i) /\ AddedOf(added', i) = AddedOf(added, i) /\ jobs'[k] = jobs[k]
    BY <1>1, <2>2
  <2>4. QED
    BY <2>1, <2>3 DEF ItemOK
<1>2. \A k \in DOMAIN Groups : \A i \in Groups[k] : ItemOK(k, jobs'[k], pushed', added', i)
  BY <1>1
<1>3. QED
  BY <1>2 DEF OffersOK

\* The load begins with nothing offered.
LEMMA LoadInvInit == LoadInit => LoadInv
<1>1. SUFFICES ASSUME LoadInit PROVE LoadInv
  OBVIOUS
<1>2. JobsOK /\ \A j \in DOMAIN Groups : jobs[j].pc = "open"
  <2>1. \A j \in DOMAIN Groups : JobOK(j, NewJob, step)
    BY Fresh
  <2>2. NewJob.pc = "open"
    BY DEF NewJob
  <2>3. \A j \in DOMAIN Groups : jobs[j] = NewJob
    BY <1>1 DEF LoadInit
  <2>4. NewJob \in JobType
    BY DEF NewJob, JobType
  <2>5. QED
    BY <1>1, <2>1, <2>2, <2>3, <2>4 DEF LoadInit, JobsOK
<1>3. PassesOK
  BY <1>1, <1>2 DEF LoadInit, PassesOK
<1>4. DataOK
  <2>1. freq \in [Known -> Nat]
    BY <1>1 DEF LoadInit
  <2>2. store \subseteq Store /\ added \in Seq(Store) /\ pushed \in Seq(Offered)
    BY <1>1 DEF LoadInit
  <2>3. err \in BOOLEAN
    BY <1>1 DEF LoadInit
  <2>4. QED
    BY <2>1, <2>2, <2>3 DEF DataOK
<1>5. OffersOK
  BY <1>1 DEF LoadInit, OffersOK, Once
<1>6. SetsOK
  BY <1>1, FS_EmptySet DEF LoadInit, SetsOK
<1>7. QED
  BY <1>2, <1>3, <1>4, <1>5, <1>6 DEF LoadInv

\* A job at the head of its stream drops the feedback.
LEMMA DropStep ==
  ASSUME JobsOK, step' = step, NEW j \in DOMAIN Groups, Drop(j), jobs[j].pc = "stream", jobs[j].todo # <<>>
  PROVE  /\ JobsOK' /\ jobs'[j].pc = "stream"
         /\ \A k \in DOMAIN Groups : k # j => jobs'[k] = jobs[k]
         /\ \A s, a, i : ItemOK(j, jobs[j], s, a, i) => ItemOK(j, jobs'[j], s, a, i)
<1>1. PICK job, new : job = jobs[j] /\ new = [job EXCEPT !.pc = "stream", !.todo = Tail(@)]
  OBVIOUS
<1>2. job \in JobType /\ JobOK(j, job, step) /\ job.pc = "stream" /\ job.todo # <<>>
  BY <1>1 DEF JobsOK
<1>3. [job EXCEPT !.todo = Tail(@)] = new
  BY <1>1, <1>2 DEF JobType
<1>4. jobs' = [jobs EXCEPT ![j] = new]
  BY <1>1, <1>3 DEF Drop, JobsOK
<1>5. /\ JobOK(j, new, step) /\ OfferedBy(j, new) = OfferedBy(j, job)
      /\ \A i : InHand(j, new, i) = InHand(j, job, i) /\ Coming(new, i) = {}
  BY <1>1, <1>2, Dropped
<1>6. JobsOK' /\ jobs'[j] = new /\ \A k \in DOMAIN Groups : k # j => jobs'[k] = jobs[k]
  BY <1>4, <1>5, OneJob
<1>7. \A i : Coming(job, i) = {}
  BY <1>2 DEF Coming
<1>8. ASSUME NEW s, NEW a, NEW i, ItemOK(j, job, s, a, i) PROVE ItemOK(j, new, s, a, i)
  BY <1>5, <1>7, <1>8 DEF ItemOK
<1>9. new.pc = "stream"
  BY <1>1, <1>2 DEF JobType
<1>10. QED
  BY <1>1, <1>6, <1>8, <1>9

\* The steps of a job and of the load keep it all.
LEMMA InsertStep == ASSUME LoadInv, Insert PROVE LoadInv'
<1>1. JobsOK' /\ PassesOK' /\ SetsOK'
  BY DEF LoadInv, Insert, JobsOK, PassesOK, SetsOK
<1>2. DataOK'
  <2>1. store' \subseteq Store
    BY DEF LoadInv, DataOK, Insert
  <2>2. QED
    BY <2>1 DEF LoadInv, DataOK, Insert
<1>3. OffersOK'
  BY DEF LoadInv, OffersOK, Insert
<1>4. QED
  BY <1>1, <1>2, <1>3 DEF LoadInv

LEMMA OpenStep == ASSUME LoadInv, NEW j \in DOMAIN Groups, Open(j) PROVE LoadInv'
<1>1. JobsOK /\ PassesOK /\ DataOK /\ OffersOK /\ SetsOK
  BY DEF LoadInv
<1>2. /\ step \in 1 .. 3 /\ jobs[j].pc = "open"
      /\ UNCHANGED <<store, late, step, negative, positive, read, pushed, freq, added, err>>
  BY <1>1 DEF Open, PassesOK
<1>3. PICK s \in Streams(Groups[j]) : \E n \in 0 .. Len(s) :
         jobs' = [jobs EXCEPT ![j] = [NewJob EXCEPT !.pc = "stream", !.todo = SubSeq(s, 1, n),
                                         !.breaks = n < Len(s)]]
  BY DEF Open
<1>4. PICK n \in 0 .. Len(s) :
         jobs' = [jobs EXCEPT ![j] = [NewJob EXCEPT !.pc = "stream", !.todo = SubSeq(s, 1, n),
                                         !.breaks = n < Len(s)]]
  BY <1>3
<1>5. PICK b \in BOOLEAN : b = (n < Len(s))
  <2>1. CASE n < Len(s)
    <3>1. (n < Len(s)) = TRUE
      BY <2>1
    <3>2. QED
      BY <3>1, Zenon
  <2>2. CASE ~(n < Len(s))
    <3>1. (n < Len(s)) = FALSE
      BY <2>2
    <3>2. QED
      BY <3>1, Zenon
  <2>3. QED
    BY <2>1, <2>2
<1>6. PICK new : new = [NewJob EXCEPT !.pc = "stream", !.todo = SubSeq(s, 1, n), !.breaks = b]
  OBVIOUS
<1>7. JobOK(j, new, step) /\ OfferedBy(j, new) = {} /\ \A i : InHand(j, new, i) = {} /\ Coming(new, i) = {}
  BY <1>1, <1>2, <1>6, Opened DEF DataOK
<1>8. new.pc = "stream"
  BY <1>6 DEF NewJob
<1>9. JobsOK' /\ jobs'[j] = new /\ \A k \in DOMAIN Groups : k # j => jobs'[k] = jobs[k]
  <2>1. jobs' = [jobs EXCEPT ![j] = new]
    BY <1>4, <1>5, <1>6
  <2>2. QED
    BY <1>1, <1>2, <1>7, <2>1, OneJob
<1>10. PassesOK'
  <2>1. step' = step
    BY <1>2
  <2>2. \A k \in DOMAIN Groups : jobs'[k].pc = "count" => jobs'[k] = jobs[k]
    BY <1>8, <1>9
  <2>3. QED
    BY <1>1, <1>2, <2>1, <2>2 DEF PassesOK
<1>11. DataOK' /\ SetsOK'
  BY <1>1, <1>2 DEF DataOK, SetsOK
<1>12. OffersOK'
  <2>1. CASE step = 2
    <3>1. ASSUME NEW i \in Groups[j] PROVE ItemOK(j, jobs'[j], pushed', added', i)
      <4>1. ItemOK(j, jobs[j], pushed, added, i)
        BY <1>1, <2>1 DEF OffersOK
      <4>2. OfferedBy(j, jobs[j]) = {} /\ InHand(j, jobs[j], i) = {}
        <5>1. jobs[j].has = {} /\ jobs[j].buffer = <<>>
          BY <1>1, <1>2 DEF JobsOK, JobOK
        <5>2. QED
          BY <1>2, <5>1 DEF OfferedBy, InHand
      <4>3. Coming(jobs[j], i) = {}
        BY <1>2 DEF Coming
      <4>4. For(pushed, i) = {} /\ AddedOf(added, i) = {}
        BY <4>1, <4>2, <4>3 DEF ItemOK
      <4>5. QED
        BY <1>2, <1>7, <1>9, <4>4 DEF ItemOK
    <3>2. step' = 2 /\ pushed' = pushed /\ added' = added /\ Once(pushed')
      BY <1>1, <1>2, <2>1 DEF OffersOK
    <3>3. QED
      BY <1>1, <1>9, <2>1, <3>1, <3>2, OtherItems
  <2>2. CASE step # 2
    BY <1>1, <1>2, <2>2 DEF OffersOK
  <2>3. QED
    BY <2>1, <2>2
<1>13. QED
  BY <1>9, <1>10, <1>11, <1>12 DEF LoadInv

LEMMA TakeNegativeStep == ASSUME LoadInv, NEW j \in DOMAIN Groups, TakeNegative(j) PROVE LoadInv'
<1>1. JobsOK /\ PassesOK /\ DataOK /\ OffersOK /\ SetsOK
  BY DEF LoadInv
<1>2. /\ step = 1 /\ jobs[j].pc = "stream" /\ jobs[j].todo # <<>> /\ Drop(j)
      /\ UNCHANGED <<store, late, step, positive, read, pushed, freq, added, err, broken>>
  BY <1>1, PassIs DEF TakeNegative, Streaming, PassesOK
<1>3. JobsOK' /\ jobs'[j].pc = "stream" /\ \A k \in DOMAIN Groups : k # j => jobs'[k] = jobs[k]
  BY <1>1, <1>2, DropStep
<1>4. PassesOK'
  <2>1. \A k \in DOMAIN Groups : jobs'[k].pc = "count" => jobs'[k] = jobs[k]
    BY <1>3
  <2>2. QED
    BY <1>1, <1>2, <2>1 DEF PassesOK
<1>5. DataOK' /\ OffersOK'
  BY <1>1, <1>2 DEF DataOK, OffersOK
<1>6. SetsOK'
  <2>1. PICK x : negative' = negative \/ negative' = negative \cup {x}
    BY DEF TakeNegative
  <2>2. IsFiniteSet(negative')
    BY <1>1, <2>1, FS_AddElement DEF SetsOK
  <2>3. QED
    BY <1>1, <1>2, <2>2 DEF SetsOK
<1>7. QED
  BY <1>3, <1>4, <1>5, <1>6 DEF LoadInv

LEMMA TakeReadStep == ASSUME LoadInv, NEW j \in DOMAIN Groups, TakeRead(j) PROVE LoadInv'
<1>1. JobsOK /\ PassesOK /\ DataOK /\ OffersOK /\ SetsOK
  BY DEF LoadInv
<1>2. /\ step = 3 /\ jobs[j].pc = "stream" /\ jobs[j].todo # <<>> /\ Drop(j)
      /\ UNCHANGED <<store, late, step, negative, positive, pushed, freq, added, err, broken>>
  BY <1>1, PassIs DEF TakeRead, Streaming, PassesOK
<1>3. JobsOK' /\ jobs'[j].pc = "stream" /\ \A k \in DOMAIN Groups : k # j => jobs'[k] = jobs[k]
  BY <1>1, <1>2, DropStep
<1>4. PassesOK'
  <2>1. \A k \in DOMAIN Groups : jobs'[k].pc = "count" => jobs'[k] = jobs[k]
    BY <1>3
  <2>2. QED
    BY <1>1, <1>2, <2>1 DEF PassesOK
<1>5. DataOK' /\ OffersOK'
  BY <1>1, <1>2 DEF DataOK, OffersOK
<1>6. SetsOK'
  <2>1. PICK x : x = Pair(Next1(j))
    OBVIOUS
  <2>2. read' = read \/ (x \notin negative \cup positive /\ read' = read \cup {x})
    BY <2>1 DEF TakeRead, Unlabelled
  <2>3. IsFiniteSet(read')
    BY <1>1, <2>2, FS_AddElement DEF SetsOK
  <2>4. read' \cap (negative \cup positive) = {}
    BY <1>1, <2>2 DEF SetsOK
  <2>5. QED
    BY <1>1, <1>2, <2>3, <2>4 DEF SetsOK
<1>7. QED
  BY <1>3, <1>4, <1>5, <1>6 DEF LoadInv

LEMMA TakePositiveStep == ASSUME LoadInv, NEW j \in DOMAIN Groups, TakePositive(j) PROVE LoadInv'
<1>1. JobsOK /\ PassesOK /\ DataOK /\ OffersOK /\ SetsOK
  BY DEF LoadInv
<1>2. /\ step = 2 /\ jobs[j].pc = "stream" /\ jobs[j].todo # <<>>
      /\ UNCHANGED <<store, late, step, negative, read, freq, added, err, broken>>
  BY <1>1, PassIs DEF TakePositive, Streaming, PassesOK
<1>3. PICK job, f : job = jobs[j] /\ f = Head(job.todo)
  OBVIOUS
<1>4. JobOK(j, job, step) /\ job.pc = "stream" /\ job.todo # <<>> /\ job \in JobType
  BY <1>1, <1>2, <1>3 DEF JobsOK
<1>5. \A i : Coming(job, i) = {}
  BY <1>4 DEF Coming
<1>6. DataOK /\ \A i \in Groups[j] : ItemOK(j, job, pushed, added, i)
  BY <1>1, <1>2, <1>3 DEF OffersOK
<1>7. CASE ~Wanted(f)
  <2>1. Drop(j) /\ UNCHANGED <<positive, pushed>>
    BY <1>3, <1>7 DEF TakePositive, Next1
  <2>2. /\ JobsOK' /\ jobs'[j].pc = "stream" /\ \A k \in DOMAIN Groups : k # j => jobs'[k] = jobs[k]
        /\ \A i : ItemOK(j, jobs[j], pushed, added, i) => ItemOK(j, jobs'[j], pushed, added, i)
    BY <1>1, <1>2, <2>1, DropStep
  <2>3. PassesOK'
    <3>1. \A k \in DOMAIN Groups : jobs'[k].pc = "count" => jobs'[k] = jobs[k]
      BY <2>2
    <3>2. QED
      BY <1>1, <1>2, <3>1 DEF PassesOK
  <2>4. DataOK' /\ SetsOK'
    BY <1>1, <1>2, <2>1 DEF DataOK, SetsOK
  <2>5. OffersOK'
    <3>1. \A i \in Groups[j] : ItemOK(j, jobs'[j], pushed', added', i)
      BY <1>2, <1>3, <1>6, <2>1, <2>2
    <3>2. step' = 2 /\ pushed' = pushed /\ added' = added /\ Once(pushed')
      BY <1>1, <1>2, <2>1 DEF OffersOK
    <3>3. QED
      BY <1>1, <1>2, <2>2, <3>1, <3>2, OtherItems
  <2>6. QED
    BY <2>2, <2>3, <2>4, <2>5 DEF LoadInv
<1>8. CASE Wanted(f)
  <2>1. PICK q : q = freq[f[1]]
    OBVIOUS
  <2>2. f[1] \in Known /\ Pair(f) \notin negative /\ q \in Nat
    BY <1>1, <1>8, <2>1 DEF Wanted, DataOK
  <2>3. positive' = positive \cup {Pair(f)}
    BY <1>3, <1>8 DEF TakePositive, Next1
  <2>4. SetsOK'
    <3>1. PICK x : x = Pair(f)
      OBVIOUS
    <3>2. positive' = positive \cup {x} /\ x \notin negative /\ IsFiniteSet(positive')
      BY <1>1, <2>2, <2>3, <3>1, FS_AddElement DEF SetsOK
    <3>3. QED
      BY <1>1, <1>2, <3>2 DEF SetsOK
  \* Whatever the job becomes, it is about to count the feedback.
  <2>5. ASSUME NEW new, JobOK(j, new, step), jobs' = [jobs EXCEPT ![j] = new], new.pc = "count",
               new.todo = job.todo, pushed' \in Seq(Offered), Once(pushed'),
               \A i : i \notin Groups[j] => For(pushed', i) = For(pushed, i),
               \A i \in Groups[j] : ItemOK(j, new, pushed', added, i)
        PROVE  LoadInv'
    <3>1. JobsOK' /\ jobs'[j] = new /\ \A k \in DOMAIN Groups : k # j => jobs'[k] = jobs[k]
      BY <1>1, <1>2, <2>5, OneJob
    <3>2. PassesOK'
      <4>1. \A k \in DOMAIN Groups : jobs'[k].pc = "count" => k = j \/ jobs'[k] = jobs[k]
        BY <3>1
      <4>2. Head(jobs'[j].todo)[1] \in Known
        BY <1>3, <2>2, <2>5, <3>1
      <4>3. QED
        BY <1>1, <1>2, <4>1, <4>2 DEF PassesOK
    <3>3. DataOK'
      BY <1>1, <1>2, <2>5 DEF DataOK
    <3>4. OffersOK'
      <4>1. step' = 2 /\ added' = added
        BY <1>2
      <4>2. \A i \in Groups[j] : ItemOK(j, jobs'[j], pushed', added', i)
        BY <2>5, <3>1, <4>1
      <4>3. QED
        BY <1>1, <1>2, <2>5, <3>1, <4>1, <4>2, OtherItems
    <3>5. QED
      BY <2>4, <3>1, <3>2, <3>3, <3>4 DEF LoadInv
  <2>6. CASE job.buffer = <<>> \/ Last(job.buffer)[2] = f[2]
    <3>1. PICK new : new = [job EXCEPT !.pc = "count", !.buffer = Append(@, f), !.at = Position(f[2]), !.seen = q]
      OBVIOUS
    <3>2. /\ JobOK(j, new, step) /\ OfferedBy(j, new) = OfferedBy(j, job)
          /\ \A i : InHand(j, new, i) = InHand(j, job, i) \cup Coming(new, i)
      <4>1. job.buffer = <<>> \/ Last(job.buffer)[2] = Head(job.todo)[2]
        BY <1>3, <2>6
      <4>2. new = SameItem(job, q)
        BY <1>3, <3>1 DEF SameItem
      <4>3. QED
        BY <1>2, <1>4, <2>2, <4>1, <4>2, Gathered
    <3>3. new.pc = "count" /\ new.todo = job.todo
      BY <1>4, <3>1 DEF JobType
    <3>4. pushed' = pushed
      BY <1>3, <1>8, <2>6 DEF TakePositive, Next1
    <3>5. jobs' = [jobs EXCEPT ![j] = new]
      <4>1. jobs' = [jobs EXCEPT ![j].pc = "count", ![j].buffer = Append(@, f), ![j].has = @,
                                 ![j].at = Position(f[2]), ![j].seen = q]
        BY <1>3, <1>8, <2>1, <2>6 DEF TakePositive, Next1
      <4>2. QED
        BY <1>1, <1>3, <1>4, <3>1, <4>1 DEF JobsOK, JobType
    <3>6. ASSUME NEW i \in Groups[j] PROVE ItemOK(j, new, pushed', added, i)
      <4>1. ItemOK(j, job, pushed, added, i)
        BY <1>6
      <4>2. QED
        BY <1>5, <3>2, <3>4, <4>1 DEF ItemOK
    <3>7. pushed' \in Seq(Offered) /\ Once(pushed')
      BY <1>1, <3>4 DEF DataOK, OffersOK
    <3>8. QED
      BY <2>5, <3>2, <3>3, <3>4, <3>5, <3>6, <3>7
  <2>7. CASE ~(job.buffer = <<>> \/ Last(job.buffer)[2] = f[2])
    <3>1. PICK new : new = [job EXCEPT !.pc = "count", !.buffer = <<f>>, !.has = @ \cup {job.at},
                                       !.at = Position(f[2]), !.seen = q]
      OBVIOUS
    <3>2. PICK x : x = ItemAt(j, job.at)
      OBVIOUS
    <3>3. /\ JobOK(j, new, step) /\ x \in Groups[j]
          /\ x \notin OfferedBy(j, job) /\ OfferedBy(j, new) = OfferedBy(j, job) \cup {x}
          /\ InHand(j, job, x) = Range(job.buffer)
          /\ \A i : i # x => InHand(j, job, i) = {}
          /\ \A i : i \notin OfferedBy(j, new) => InHand(j, new, i) = Coming(new, i)
      <4>1. ~(job.buffer = <<>> \/ Last(job.buffer)[2] = Head(job.todo)[2])
        BY <1>3, <2>7
      <4>2. new = NewItem(job, q)
        BY <1>3, <3>1 DEF NewItem
      <4>3. QED
        BY <1>2, <1>4, <2>2, <3>2, <4>1, <4>2, Turned
    <3>4. new.pc = "count" /\ new.todo = job.todo
      BY <1>4, <3>1 DEF JobType
    <3>5. PICK e : e = [item |-> x, feedback |-> job.buffer]
      OBVIOUS
    <3>6. e \in Offered /\ e.item = x /\ e.feedback = job.buffer
      BY <1>4, <3>3, <3>5, Positions DEF JobType, Offered
    <3>7. pushed' = Append(pushed, e)
      BY <1>3, <1>8, <2>7, <3>2, <3>5 DEF TakePositive, Next1, Flush
    <3>8. For(pushed, x) = {} /\ AddedOf(added, x) = Range(job.buffer)
      <4>1. ItemOK(j, job, pushed, added, x)
        BY <1>6, <3>3
      <4>2. QED
        BY <1>5, <3>3, <4>1 DEF ItemOK
    <3>9. /\ pushed' \in Seq(Offered) /\ Once(pushed')
          /\ \A i : For(pushed', i) = For(pushed, i) \cup (IF i = x THEN {Range(job.buffer)} ELSE {})
      <4>1. \A k \in DOMAIN pushed : pushed[k].item # e.item
        BY <3>6, <3>8 DEF For
      <4>2. pushed \in Seq(Offered) /\ Once(pushed)
        BY <1>1 DEF DataOK, OffersOK
      <4>3. QED
        BY <3>6, <3>7, <4>1, <4>2, ForOne
    <3>10. jobs' = [jobs EXCEPT ![j] = new]
      <4>1. jobs' = [jobs EXCEPT ![j].pc = "count", ![j].buffer = <<f>>, ![j].has = @ \cup {job.at},
                                 ![j].at = Position(f[2]), ![j].seen = q]
        BY <1>3, <1>8, <2>1, <2>7 DEF TakePositive, Next1
      <4>2. QED
        BY <1>1, <1>3, <1>4, <3>1, <4>1 DEF JobsOK, JobType
    <3>11. ASSUME NEW i \in Groups[j] PROVE ItemOK(j, new, pushed', added, i)
      <4>1. ItemOK(j, job, pushed, added, i)
        BY <1>6
      <4>2. CASE i = x
        BY <3>3, <3>8, <3>9, <4>2 DEF ItemOK
      <4>3. CASE i # x
        <5>1. For(pushed', i) = For(pushed, i) /\ InHand(j, job, i) = {}
          BY <3>3, <3>9, <4>3
        <5>2. i \in OfferedBy(j, new) <=> i \in OfferedBy(j, job)
          BY <3>3, <4>3
        <5>3. CASE i \in OfferedBy(j, job)
          BY <4>1, <5>1, <5>2, <5>3 DEF ItemOK
        <5>4. CASE i \notin OfferedBy(j, job)
          <6>1. For(pushed, i) = {} /\ AddedOf(added, i) = {}
            BY <1>5, <4>1, <5>1, <5>4 DEF ItemOK
          <6>2. InHand(j, new, i) = Coming(new, i)
            BY <3>3, <5>2, <5>4
          <6>3. QED
            BY <5>1, <5>2, <5>4, <6>1, <6>2 DEF ItemOK
        <5>5. QED
          BY <5>3, <5>4
      <4>4. QED
        BY <4>2, <4>3
    <3>12. \A i : i \notin Groups[j] => For(pushed', i) = For(pushed, i)
      BY <3>3, <3>9
    <3>13. QED
      BY <2>5, <3>3, <3>4, <3>9, <3>10, <3>11, <3>12
  <2>8. QED
    BY <2>6, <2>7
<1>9. QED
  BY <1>7, <1>8

LEMMA CountStep == ASSUME LoadInv, NEW j \in DOMAIN Groups, CountPositive(j) PROVE LoadInv'
<1>1. JobsOK /\ PassesOK /\ DataOK /\ OffersOK /\ SetsOK
  BY DEF LoadInv
<1>2. PICK job, f : job = jobs[j] /\ f = Head(job.todo)
  OBVIOUS
<1>3. /\ step = 2 /\ job.pc = "count" /\ f[1] \in Known
      /\ UNCHANGED <<store, late, step, negative, positive, read, pushed, err, broken>>
  BY <1>1, <1>2 DEF CountPositive, PassesOK
<1>4. JobOK(j, job, step) /\ job \in JobType /\ job.todo # <<>>
  BY <1>1, <1>2, <1>3 DEF JobsOK, JobOK
<1>5. added' = Append(added, f) /\ freq' = [freq EXCEPT ![f[1]] = job.seen + 1]
  BY <1>2 DEF CountPositive, Next1
<1>6. /\ f[2] \in Groups[j] /\ f[2] \notin OfferedBy(j, job) /\ added' \in Seq(Store)
      /\ \A i : AddedOf(added', i) = AddedOf(added, i) \cup Coming(job, i)
  BY <1>1, <1>2, <1>3, <1>4, <1>5, Counted DEF DataOK
<1>7. PICK new : new = [job EXCEPT !.pc = "stream", !.todo = Tail(@)]
  OBVIOUS
<1>8. /\ JobOK(j, new, step) /\ OfferedBy(j, new) = OfferedBy(j, job)
      /\ \A i : InHand(j, new, i) = InHand(j, job, i) /\ Coming(new, i) = {}
  BY <1>3, <1>4, <1>7, Dropped
<1>9. new.pc = "stream"
  BY <1>4, <1>7 DEF JobType
<1>10. jobs' = [jobs EXCEPT ![j] = new]
  <2>1. jobs' = [jobs EXCEPT ![j].pc = "stream", ![j].todo = Tail(@)]
    BY DEF CountPositive
  <2>2. QED
    BY <1>1, <1>2, <1>4, <1>7, <2>1 DEF JobsOK, JobType
<1>11. JobsOK' /\ jobs'[j] = new /\ \A k \in DOMAIN Groups : k # j => jobs'[k] = jobs[k]
  BY <1>1, <1>3, <1>8, <1>10, OneJob
<1>12. PassesOK'
  <2>1. \A k \in DOMAIN Groups : jobs'[k].pc = "count" => jobs'[k] = jobs[k]
    BY <1>9, <1>11
  <2>2. QED
    BY <1>1, <1>3, <2>1 DEF PassesOK
<1>13. DataOK'
  <2>1. job.seen + 1 \in Nat
    BY <1>4 DEF JobType
  <2>2. freq' \in [Known -> Nat]
    BY <1>1, <1>5, <2>1 DEF DataOK
  <2>3. QED
    BY <1>1, <1>3, <1>6, <2>2 DEF DataOK
<1>14. OffersOK'
  <2>1. ASSUME NEW i \in Groups[j] PROVE ItemOK(j, new, pushed, added', i)
    <3>1. ItemOK(j, job, pushed, added, i)
      BY <1>1, <1>2, <1>3 DEF OffersOK
    <3>2. CASE i \in OfferedBy(j, job)
      <4>1. Coming(job, i) = {}
        BY <1>2, <1>6, <3>2 DEF Coming
      <4>2. QED
        BY <1>6, <1>8, <3>1, <3>2, <4>1 DEF ItemOK
    <3>3. CASE i \notin OfferedBy(j, job)
      BY <1>6, <1>8, <3>1, <3>3 DEF ItemOK
    <3>4. QED
      BY <3>2, <3>3
  <2>2. \A i : i \notin Groups[j] => AddedOf(added', i) = AddedOf(added, i)
    <3>1. \A i : i \notin Groups[j] => Coming(job, i) = {}
      BY <1>2, <1>6 DEF Coming
    <3>2. QED
      BY <1>6, <3>1
  <2>3. step' = 2 /\ pushed' = pushed /\ Once(pushed')
    BY <1>1, <1>3 DEF OffersOK
  <2>4. \A i \in Groups[j] : ItemOK(j, jobs'[j], pushed', added', i)
    BY <1>11, <2>1, <2>3
  <2>5. QED
    BY <1>1, <1>3, <1>11, <2>2, <2>3, <2>4, OtherItems
<1>15. SetsOK'
  BY <1>1, <1>3 DEF SetsOK
<1>16. QED
  BY <1>11, <1>12, <1>13, <1>14, <1>15 DEF LoadInv

LEMMA EndStreamStep == ASSUME LoadInv, NEW j \in DOMAIN Groups, EndStream(j) PROVE LoadInv'
<1>1. JobsOK /\ PassesOK /\ DataOK /\ OffersOK /\ SetsOK
  BY DEF LoadInv
<1>2. PICK job, new : job = jobs[j] /\ new = [job EXCEPT !.pc = "test"]
  OBVIOUS
<1>3. /\ step \in 1 .. 3 /\ job.pc = "stream" /\ job.todo = <<>>
      /\ UNCHANGED <<store, late, step, negative, positive, read, freq, added, broken>>
  BY <1>1, <1>2 DEF EndStream, PassesOK
<1>4. JobOK(j, job, step) /\ job \in JobType
  BY <1>1, <1>2 DEF JobsOK, JobOK
<1>5. /\ new \in JobType /\ new.pc = "test" /\ new.todo = job.todo /\ new.buffer = job.buffer
      /\ new.at = job.at /\ new.has = job.has
  BY <1>2, <1>4 DEF JobType
<1>6. JobOK(j, new, step)
  BY <1>4, <1>5 DEF JobOK
<1>7. jobs' = [jobs EXCEPT ![j] = new]
  <2>1. jobs' = [jobs EXCEPT ![j].pc = "test"]
    BY DEF EndStream
  <2>2. QED
    BY <1>1, <1>2, <1>4, <2>1 DEF JobsOK, JobType
<1>8. JobsOK' /\ jobs'[j] = new /\ \A k \in DOMAIN Groups : k # j => jobs'[k] = jobs[k]
  BY <1>1, <1>3, <1>6, <1>7, OneJob
<1>9. PassesOK'
  <2>1. \A k \in DOMAIN Groups : jobs'[k].pc = "count" => jobs'[k] = jobs[k]
    BY <1>5, <1>8
  <2>2. QED
    BY <1>1, <1>3, <2>1 DEF PassesOK
<1>10. err' \in BOOLEAN
  <2>1. err' = job.breaks
    BY <1>2 DEF EndStream
  <2>2. job.breaks \in BOOLEAN
    BY <1>4 DEF JobType
  <2>3. QED
    BY <2>1, <2>2
<1>11. pushed' \in Seq(Offered) /\ OffersOK'
  <2>1. CASE step # 2
    <3>1. pushed' = pushed
      BY <1>3, <2>1, PassIs DEF EndStream
    <3>2. QED
      BY <1>1, <1>3, <2>1, <3>1 DEF OffersOK, DataOK
  <2>2. CASE step = 2
    <3>4. pushed' = LastOf(j, job, pushed) \o RestOf(j, HasOf(job))
      <4>1. Type = "pos"
        BY <1>3, <2>2, PassIs
      <4>2. QED
        BY <1>2, <4>1 DEF EndStream, Flush, HasOf, LastOf, RestOf
    <3>5. pushed \in Seq(Offered) /\ Once(pushed) /\ ItemsOK(j, job, pushed, added)
      BY <1>1, <1>2, <2>2 DEF DataOK, OffersOK, ItemsOK
    <3>6. /\ pushed' \in Seq(Offered) /\ Once(pushed')
          /\ \A i \in Groups[j] : For(pushed', i) = {AddedOf(added, i)}
          /\ \A i : i \notin Groups[j] => For(pushed', i) = For(pushed, i)
      <4>1. LET out == LastOf(j, job, pushed) \o RestOf(j, HasOf(job))
            IN  /\ out \in Seq(Offered) /\ Once(out)
                /\ \A i \in Groups[j] : For(out, i) = {AddedOf(added, i)}
                /\ \A i : i \notin Groups[j] => For(out, i) = For(pushed, i)
        BY <1>3, <1>4, <2>2, <3>5, Finished
      <4>2. QED
        BY <3>4, <4>1
    <3>7. OfferedBy(j, new) = Groups[j]
      BY <1>5 DEF OfferedBy
    <3>8. step' = 2 /\ added' = added
      BY <1>3, <2>2
    <3>9. \A i \in Groups[j] : ItemOK(j, jobs'[j], pushed', added', i)
      BY <1>8, <3>6, <3>7, <3>8 DEF ItemOK
    <3>10. OffersOK'
      BY <1>1, <1>8, <2>2, <3>6, <3>8, <3>9, OtherItems
    <3>11. QED
      BY <3>6, <3>10
  <2>3. QED
    BY <2>1, <2>2
<1>12. DataOK'
  BY <1>1, <1>3, <1>10, <1>11 DEF DataOK
<1>13. SetsOK'
  BY <1>1, <1>3 DEF SetsOK
<1>14. QED
  BY <1>8, <1>9, <1>11, <1>12, <1>13 DEF LoadInv

LEMMA TestStep == ASSUME LoadInv, NEW j \in DOMAIN Groups, TestError(j) PROVE LoadInv'
<1>1. JobsOK /\ PassesOK /\ DataOK /\ OffersOK /\ SetsOK
  BY DEF LoadInv
<1>2. PICK job, new : job = jobs[j] /\ new = [job EXCEPT !.pc = "end", !.failed = err]
  OBVIOUS
<1>3. /\ job.pc = "test"
      /\ UNCHANGED <<store, late, step, negative, positive, read, pushed, freq, added, err, broken>>
  BY <1>2 DEF TestError
<1>4. JobOK(j, job, step) /\ job \in JobType /\ step \in 1 .. 3
  BY <1>1, <1>2, <1>3 DEF JobsOK, JobOK, PassesOK
<1>5. /\ new \in JobType /\ new.pc = "end" /\ new.todo = job.todo /\ new.buffer = job.buffer
      /\ new.at = job.at /\ new.has = job.has
  BY <1>1, <1>2, <1>4 DEF JobType, DataOK
<1>6. JobOK(j, new, step)
  BY <1>4, <1>5 DEF JobOK
<1>7. jobs' = [jobs EXCEPT ![j] = new]
  <2>1. jobs' = [jobs EXCEPT ![j].pc = "end", ![j].failed = err]
    BY DEF TestError
  <2>2. QED
    BY <1>1, <1>2, <1>4, <2>1 DEF JobsOK, JobType
<1>8. JobsOK' /\ jobs'[j] = new /\ \A k \in DOMAIN Groups : k # j => jobs'[k] = jobs[k]
  BY <1>1, <1>3, <1>6, <1>7, OneJob
<1>9. PassesOK'
  <2>1. \A k \in DOMAIN Groups : jobs'[k].pc = "count" => jobs'[k] = jobs[k]
    BY <1>5, <1>8
  <2>2. QED
    BY <1>1, <1>3, <1>4, <2>1 DEF PassesOK
<1>10. DataOK' /\ SetsOK'
  BY <1>1, <1>3 DEF DataOK, SetsOK
<1>11. OffersOK'
  <2>1. CASE step = 2
    <3>1. ASSUME NEW i \in Groups[j] PROVE ItemOK(j, new, pushed, added, i)
      <4>1. ItemOK(j, job, pushed, added, i)
        BY <1>1, <1>2, <2>1 DEF OffersOK
      <4>2. OfferedBy(j, new) = Groups[j] /\ OfferedBy(j, job) = Groups[j]
        BY <1>3, <1>5 DEF OfferedBy
      <4>3. QED
        BY <4>1, <4>2 DEF ItemOK
    <3>2. step' = 2 /\ pushed' = pushed /\ added' = added /\ Once(pushed')
      BY <1>1, <1>3, <2>1 DEF OffersOK
    <3>3. \A i \in Groups[j] : ItemOK(j, jobs'[j], pushed', added', i)
      BY <1>8, <3>1, <3>2
    <3>4. QED
      BY <1>1, <1>8, <2>1, <3>2, <3>3, OtherItems
  <2>2. CASE step # 2
    BY <1>1, <1>3, <2>2 DEF OffersOK
  <2>3. QED
    BY <2>1, <2>2
<1>12. QED
  BY <1>8, <1>9, <1>10, <1>11 DEF LoadInv

LEMMA EndStepStep == ASSUME LoadInv, EndStep PROVE LoadInv'
<1>1. JobsOK /\ PassesOK /\ DataOK /\ OffersOK /\ SetsOK
  BY DEF LoadInv
<1>2. /\ step \in 1 .. 3 /\ step' \in {step + 1, 5} /\ jobs' = [j \in DOMAIN Groups |-> NewJob]
      /\ UNCHANGED <<store, negative, positive, read, pushed, freq, added>>
      /\ \A j \in DOMAIN Groups : jobs[j].pc = "end"
  BY <1>1 DEF EndStep, PassesOK, JobsOK
<1>3. \A j \in DOMAIN Groups : jobs'[j] = NewJob /\ JobOK(j, NewJob, step') /\ NewJob.pc = "open"
  <2>1. NewJob.pc = "open"
    BY DEF NewJob
  <2>2. QED
    BY <1>2, <2>1, Fresh
<1>4. JobsOK'
  <2>1. NewJob \in JobType
    BY DEF NewJob, JobType
  <2>2. QED
    BY <1>2, <1>3, <2>1 DEF JobsOK
<1>5. PassesOK'
  BY <1>2, <1>3 DEF PassesOK
<1>6. DataOK'
  <2>1. err' \in BOOLEAN
    BY DEF EndStep
  <2>2. QED
    BY <1>1, <1>2, <2>1 DEF DataOK
<1>7. SetsOK'
  BY <1>1, <1>2 DEF SetsOK
<1>8. OffersOK'
  <2>1. Once(pushed') /\ step' # 1
    BY <1>1, <1>2 DEF OffersOK
  <2>2. step' = 2 => \A j \in DOMAIN Groups : \A i \in Groups[j] : ItemOK(j, jobs'[j], pushed', added', i)
    <3>1. SUFFICES ASSUME step' = 2, NEW j \in DOMAIN Groups, NEW i \in Groups[j]
                   PROVE  ItemOK(j, NewJob, pushed', added', i)
      BY <1>3
    <3>2. pushed' = <<>> /\ added' = <<>>
      BY <1>1, <1>2, <3>1 DEF OffersOK
    <3>3. For(<<>>, i) = {} /\ AddedOf(<<>>, i) = {}
      BY DEF For, AddedOf, Range
    <3>4. QED
      BY <3>2, <3>3, Fresh DEF ItemOK
  <2>3. step' \in {3, 4} => \A i \in 1 .. NItems : For(pushed', i) = {AddedOf(added', i)}
    <3>1. SUFFICES ASSUME step' \in {3, 4}, NEW i \in 1 .. NItems
                   PROVE  For(pushed, i) = {AddedOf(added, i)}
      BY <1>2
    <3>2. CASE step = 2
      <4>1. PICK j \in DOMAIN Groups : i \in Groups[j]
        BY GroupsPartition
      <4>2. ItemOK(j, jobs[j], pushed, added, i)
        BY <1>1, <3>2, <4>1 DEF OffersOK
      <4>3. OfferedBy(j, jobs[j]) = Groups[j]
        BY <1>2 DEF OfferedBy
      <4>4. QED
        BY <4>1, <4>2, <4>3 DEF ItemOK
    <3>3. CASE step = 3
      BY <1>1, <3>3 DEF OffersOK
    <3>4. QED
      BY <1>2, <3>1, <3>2, <3>3
  <2>4. QED
    BY <2>1, <2>2, <2>3 DEF OffersOK
<1>9. QED
  BY <1>4, <1>5, <1>6, <1>7, <1>8 DEF LoadInv

\* Every step keeps it, and a loaded data set is complete by it.
LEMMA LoadInvStep == LoadInv /\ [LoadNext]_loadVars => LoadInv'
<1>1. SUFFICES ASSUME LoadInv, [LoadNext]_loadVars PROVE LoadInv'
  OBVIOUS
<1>2. CASE UNCHANGED loadVars
  BY <1>1, <1>2 DEF loadVars, LoadInv, JobsOK, PassesOK, DataOK, OffersOK, SetsOK
<1>3. CASE Insert
  BY <1>1, <1>3, InsertStep
<1>4. CASE EndStep
  BY <1>1, <1>4, EndStepStep
<1>5. ASSUME NEW j \in DOMAIN Groups,
             Open(j) \/ TakeNegative(j) \/ TakePositive(j) \/ CountPositive(j) \/ TakeRead(j)
             \/ EndStream(j) \/ TestError(j)
      PROVE  LoadInv'
  BY <1>1, <1>5, OpenStep, TakeNegativeStep, TakePositiveStep, CountStep, TakeReadStep, EndStreamStep, TestStep
<1>6. QED
  BY <1>1, <1>2, <1>3, <1>4, <1>5 DEF LoadNext

\* A sequence that offers every item, and no item twice, has an entry for each.
LEMMA OnceEach ==
  ASSUME NEW s \in Seq(Offered), Once(s), \A i \in 1 .. NItems : For(s, i) # {}
  PROVE  Len(s) = NItems
<1>1. PICK n \in Nat : n = Len(s) /\ DOMAIN s = 1 .. n /\ \A k \in 1 .. n : s[k].item \in 1 .. NItems
  <2>1. Len(s) \in Nat /\ DOMAIN s = 1 .. Len(s) /\ \A k \in 1 .. Len(s) : s[k] \in Offered
    BY ElementOfSeq, LenProperties
  <2>2. QED
    BY <2>1 DEF Offered
<1>2. PICK g : g = [k \in 1 .. n |-> s[k].item]
  OBVIOUS
<1>3. g \in Bijection(1 .. n, 1 .. NItems)
  <2>1. g \in [1 .. n -> 1 .. NItems]
    BY <1>1, <1>2
  <2>2. \A k, m \in 1 .. n : g[k] = g[m] => k = m
    BY <1>1, <1>2 DEF Once
  <2>3. \A i \in 1 .. NItems : \E k \in 1 .. n : g[k] = i
    BY <1>1, <1>2 DEF For
  <2>4. QED
    BY <2>1, <2>2, <2>3 DEF Bijection, Injection, Surjection, IsInjective
<1>4. ExistsBijection(1 .. n, 1 .. NItems)
  BY <1>3 DEF ExistsBijection
<1>5. Cardinality(1 .. n) = n /\ Cardinality(1 .. NItems) = NItems /\ IsFiniteSet(1 .. n) /\ IsFiniteSet(1 .. NItems)
  BY FS_Interval, LoadAssumption
<1>6. QED
  BY <1>1, <1>4, <1>5, FS_CardinalityType, FS_Bijection

\* Disjoint sets are as large as their union.
LEMMA ThreeSets ==
  ASSUME NEW A, NEW B, NEW C, IsFiniteSet(A), IsFiniteSet(B), IsFiniteSet(C),
         A \cap B = {}, C \cap (A \cup B) = {}
  PROVE  Cardinality(A) + Cardinality(B) + Cardinality(C) = Cardinality(A \cup B \cup C)
<1>1. /\ Cardinality(A) \in Nat /\ Cardinality(B) \in Nat /\ Cardinality(C) \in Nat
      /\ IsFiniteSet(A \cup B) /\ Cardinality(A \cup B) \in Nat
  BY FS_CardinalityType, FS_Union
<1>2. Cardinality({}) = 0
  BY FS_EmptySet
<1>3. Cardinality(A \cup B) = Cardinality(A) + Cardinality(B)
  <2>1. Cardinality(A \cup B) = Cardinality(A) + Cardinality(B) - Cardinality(A \cap B)
    BY FS_Union
  <2>2. Cardinality(A \cap B) = 0
    BY <1>2
  <2>3. QED
    BY <1>1, <2>1, <2>2
<1>4. Cardinality(A \cup B \cup C) = Cardinality(A \cup B) + Cardinality(C)
  <2>1. PICK D : D = A \cup B
    OBVIOUS
  <2>2. Cardinality(D \cup C) = Cardinality(D) + Cardinality(C) - Cardinality(D \cap C)
    BY <1>1, <2>1, FS_Union
  <2>3. Cardinality(D \cap C) = 0
    BY <1>2, <2>1
  <2>4. QED
    BY <1>1, <2>1, <2>2, <2>3
<1>5. QED
  BY <1>1, <1>3, <1>4

LEMMA LoadInvComplete == LoadInv => DatasetIsComplete
<1>1. SUFFICES ASSUME LoadInv, step = 4 PROVE DatasetIsComplete
  BY DEF DatasetIsComplete, PushedOnce, OneTarget, Loaded
<1>2. /\ pushed \in Seq(Offered) /\ Once(pushed)
      /\ \A i \in 1 .. NItems : For(pushed, i) = {AddedOf(added, i)}
  BY <1>1 DEF LoadInv, DataOK, OffersOK
<1>3. Len(pushed) = NItems
  BY <1>2, OnceEach
<1>4. ASSUME NEW i \in 1 .. NItems
      PROVE  \E k \in DOMAIN pushed : /\ pushed[k].item = i
                                      /\ Range(pushed[k].feedback) = {f \in Range(added) : f[2] = i}
  <2>1. AddedOf(added, i) \in For(pushed, i)
    BY <1>2
  <2>2. PICK k \in DOMAIN pushed : pushed[k].item = i /\ Range(pushed[k].feedback) = AddedOf(added, i)
    BY <2>1 DEF For
  <2>3. QED
    BY <2>2 DEF AddedOf
<1>5. Examples = Cardinality(negative \cup positive \cup read)
  BY <1>1, ThreeSets DEF LoadInv, SetsOK, Examples
<1>6. QED
  BY <1>3, <1>4, <1>5 DEF DatasetIsComplete, PushedOnce, OneTarget, Loaded

\* A data set that is loaded offers every item once, with exactly the feedback that
\* was added for it, and makes one example of a pair of user and item, for any
\* items, groups, users and feedback, however the readers of a pass interleave,
\* streams break and the data store changes between them (LoadDataFromDatabase).
THEOREM DatasetIsCompleteAlways == LoadSpec => []DatasetIsComplete
<1>1. LoadInit => LoadInv
  BY LoadInvInit
<1>2. LoadInv /\ [LoadNext]_loadVars => LoadInv'
  BY LoadInvStep
<1>3. LoadInv => DatasetIsComplete
  BY LoadInvComplete
<1>4. QED
  BY <1>1, <1>2, <1>3, PTL DEF LoadSpec
=============================================================================
