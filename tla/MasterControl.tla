---------------------------- MODULE MasterControl ----------------------------
(***************************************************************************)
(* How the master is told that something changed, and how it is stopped    *)
(* (master/master.go, the handlers of master/rest.go that change the       *)
(* configuration or the data).                                             *)
(*                                                                         *)
(* One goroutine runs the tasks whenever its ticker fires or a token is in *)
(* the channel scheduled, of capacity one.  A handler that changed         *)
(* something calls m.cancel, which the loop rewrites for every run without *)
(* a lock, and offers a token; a goroutine that watches the configuration  *)
(* file does the same without cancelling.  Shutdown drains the handlers,   *)
(* cancels the background context, waits for the goroutines and closes the *)
(* databases.                                                              *)
(*                                                                         *)
(* A recommend configuration is a number of Versions; None is the absence  *)
(* of an override in the meta store.  Requests are served concurrently,    *)
(* one per member of Requests; MaxChanges bounds the requests and the edits  *)
(* of the file together.                                                   *)
(***************************************************************************)
EXTENDS Naturals, FiniteSets

CONSTANTS Requests, Versions, MaxChanges

VARIABLES token, loop, fresh, aborted, stale, asked, request, file,
          override, running, watch, armed, reconciling, stopping, overlapped

controlVars == <<token, loop, fresh, aborted, stale, asked, request, file,
                 override, running, watch, armed, reconciling, stopping, overlapped>>

None == 0

\* A configuration is not mistaken for the absence of one.
ASSUME VersionsAssumption == None \notin Versions

Idle == [at |-> "idle", op |-> "none", value |-> None]
Busy == {r \in Requests : request[r] # Idle}
Quiet == Busy = {} /\ watch.at = "wait"

(* What the file and the meta store say together (applyRecommendOverride). *)
Stated(f, o) == IF o = None THEN f ELSE o

(* NewMaster and Serve: no token yet, the override applied to the file. *)
ControlInit ==
  /\ token = FALSE
  /\ loop = "start" /\ fresh = FALSE /\ aborted = FALSE /\ stale = FALSE
  /\ asked = 0
  /\ request = [r \in Requests |-> Idle]
  /\ file \in Versions
  /\ override \in Versions \cup {None}
  /\ running = Stated(file, override)
  /\ watch = [at |-> "wait", value |-> None] /\ armed = FALSE
  /\ reconciling = FALSE
  /\ stopping = "no"
  /\ overlapped = FALSE

-----------------------------------------------------------------------------
(* A change is accepted: no whole run has seen it, nor does the present one. *)
Changed == stale' = TRUE /\ fresh' = FALSE

(* The non-blocking send: a token that is already there is enough. *)
\* Mutant of Offer: a token is offered only to a loop that is not running.
OfferIdle == token' = (token \/ loop # "run")
Offer == token' = TRUE

(* RunTasksLoop. *)
LoopEnter ==
  /\ loop = "start" /\ loop' = "select" /\ Offer
  /\ UNCHANGED <<fresh, aborted, stale, asked, request, file, override, running, watch, armed,
                 reconciling, stopping, overlapped>>

(* A run begins with loadDataset, which starts the reconciliation in the    *)
(* background, unless the previous one is still going.                      *)
RunBegins ==
  /\ loop' = "run" /\ fresh' = TRUE /\ aborted' = FALSE /\ reconciling' = TRUE
  /\ UNCHANGED <<stale, asked, request, file, override, running, watch, armed,
                 stopping, overlapped>>

TakeToken == loop = "select" /\ token /\ token' = FALSE /\ RunBegins

TakeTick == loop = "select" /\ stopping \notin {"wait", "closed"} /\ UNCHANGED token /\ RunBegins

ReconcileEnds ==
  /\ reconciling /\ reconciling' = FALSE
  /\ UNCHANGED <<token, loop, fresh, aborted, stale, asked, request, file, override, running,
                 watch, armed, stopping, overlapped>>

(* The run returns, with or without an error, or panics, which CheckPanic   *)
(* turns into the silent end of the loop.                                   *)
RunEnds ==
  /\ loop = "run"
  /\ loop' \in (IF stopping \in {"wait", "closed"} THEN {"ended"} ELSE {"select"}) \cup {"dead"}
  /\ stale' = (stale /\ (aborted \/ ~fresh \/ loop' = "dead"))
  /\ fresh' = FALSE /\ aborted' = FALSE
  /\ UNCHANGED <<token, asked, request, file, override, running, watch, armed,
                 reconciling, stopping, overlapped>>

LoopLeaves ==
  /\ loop = "select" /\ stopping \in {"wait", "closed"} /\ loop' = "ended"
  /\ UNCHANGED <<token, fresh, aborted, stale, asked, request, file, override, running, watch,
                 armed, reconciling, stopping, overlapped>>

-----------------------------------------------------------------------------
(* The handlers.  A request that has begun is a record of what it does, of  *)
(* the step it is at and of the configuration it carries.                   *)
Step(r, at, value) == request' = [request EXCEPT ![r] = [@ EXCEPT !.at = at, !.value = value]]
Done(r) == request' = [request EXCEPT ![r] = Idle]
OthersChange(r) == (\E q \in Requests \ {r} : request[q].op \in {"post", "delete"}) \/ watch.at \notin {"wait", "ended"}

Arrive(r) ==
  /\ request[r] = Idle /\ stopping = "no" /\ asked < MaxChanges /\ asked' = asked + 1
  /\ \E op \in {"post", "delete", "import"} : \E v \in IF op = "post" THEN Versions ELSE {None} :
        /\ request' = [request EXCEPT ![r] = [at |-> "store", op |-> op, value |-> v]]
        /\ overlapped' = (overlapped \/ (op # "import" /\ OthersChange(r)))
  /\ UNCHANGED <<token, loop, fresh, aborted, stale, file, override, running, watch, armed,
                 reconciling, stopping>>

(* The request is refused, or its store fails before anything was written.  *)
Refuse(r) ==
  /\ request[r].at = "store" /\ Done(r)
  /\ UNCHANGED <<token, loop, fresh, aborted, stale, asked, file, override, running, watch,
                 armed, reconciling, stopping, overlapped>>

\* Mutant of postConfigPut: the new configuration is used although it could not be stored.
postConfigPutAnyway(r) ==
  /\ request[r].at = "store" /\ request[r].op = "post"
  /\ override' \in {override, request[r].value}
  /\ Step(r, "assign", request[r].value)
  /\ UNCHANGED <<token, loop, fresh, aborted, stale, asked, file, running, watch, armed,
                 reconciling, stopping, overlapped>>
postConfigPut(r) ==
  /\ request[r].at = "store" /\ request[r].op = "post"
  /\ override' = request[r].value
  /\ Step(r, "assign", request[r].value)
  /\ UNCHANGED <<token, loop, fresh, aborted, stale, asked, file, running, watch, armed,
                 reconciling, stopping, overlapped>>

deleteConfigStored(r) ==
  /\ request[r].at = "store" /\ request[r].op = "delete"
  /\ override' = None
  /\ Step(r, "file", None)
  /\ UNCHANGED <<token, loop, fresh, aborted, stale, asked, file, running, watch, armed,
                 reconciling, stopping, overlapped>>

(* Reading the file may fail: the override is gone, the memory keeps it.    *)
deleteConfigFile(r) ==
  /\ request[r].at = "file"
  /\ \/ Step(r, "assign", file) /\ UNCHANGED overlapped
     \/ Done(r) /\ overlapped' = TRUE
  /\ UNCHANGED <<token, loop, fresh, aborted, stale, asked, file, override, running, watch,
                 armed, reconciling, stopping>>

Assign(r) ==
  /\ request[r].at = "assign"
  /\ running' = request[r].value /\ Changed
  /\ Step(r, "cancel", None)
  /\ UNCHANGED <<token, loop, aborted, asked, file, override, watch, armed, reconciling,
                 stopping, overlapped>>

(* importExportUsers, Items and Feedback, and restore: every batch written. *)
Import(r) ==
  /\ request[r].at = "store" /\ request[r].op = "import"
  /\ Changed
  /\ Step(r, "cancel", None)
  /\ UNCHANGED <<token, loop, aborted, asked, file, override, running, watch, armed,
                 reconciling, stopping, overlapped>>

(* m.cancel is read without a lock: the function called may be that of the  *)
(* run in progress or of an earlier one, which does nothing any more.       *)
CancelRun(r) ==
  /\ request[r].at = "cancel"
  /\ aborted' \in {aborted, loop = "run"}
  /\ Step(r, "token", None)
  /\ UNCHANGED <<token, loop, fresh, stale, asked, file, override, running, watch, armed,
                 reconciling, stopping, overlapped>>

Schedule(r) ==
  /\ request[r].at = "token" /\ Offer /\ Done(r)
  /\ UNCHANGED <<loop, fresh, aborted, stale, asked, file, override, running, watch, armed,
                 reconciling, stopping, overlapped>>

-----------------------------------------------------------------------------
(* watchConfigFile: an event arms the timer, the timer reloads the file.    *)
EditFile ==
  /\ asked < MaxChanges /\ asked' = asked + 1
  /\ file' \in Versions /\ armed' = (watch.at # "ended")
  /\ overlapped' = (overlapped \/ Busy # {} \/ watch.at = "ended")
  /\ UNCHANGED <<token, loop, fresh, aborted, stale, request, override, running, watch,
                 reconciling, stopping>>

reloadConfigFromFile ==
  /\ watch.at = "wait" /\ armed /\ armed' = FALSE
  /\ \/ watch' = [at |-> "override", value |-> file] /\ overlapped' = (overlapped \/ Busy # {})
     \/ UNCHANGED watch /\ overlapped' = TRUE
  /\ UNCHANGED <<token, loop, fresh, aborted, stale, asked, request, file, override, running,
                 reconciling, stopping>>

applyRecommendOverride ==
  /\ watch.at = "override"
  /\ \/ watch' = [at |-> "assign", value |-> Stated(watch.value, override)] /\ UNCHANGED overlapped
     \/ watch' = [at |-> "wait", value |-> None] /\ overlapped' = TRUE
  /\ UNCHANGED <<token, loop, fresh, aborted, stale, asked, request, file, override, running,
                 armed, reconciling, stopping>>

reloadAssign ==
  /\ watch.at = "assign"
  /\ running' = watch.value /\ Changed
  /\ watch' = [at |-> "token", value |-> None]
  /\ UNCHANGED <<token, loop, aborted, asked, request, file, override, armed, reconciling,
                 stopping, overlapped>>

reloadSchedule ==
  /\ watch.at = "token" /\ Offer
  /\ watch' = [at |-> "wait", value |-> None]
  /\ UNCHANGED <<loop, fresh, aborted, stale, asked, request, file, override, running, armed,
                 reconciling, stopping, overlapped>>

watchEnds ==
  /\ watch.at = "wait" /\ stopping = "wait"
  /\ watch' = [at |-> "ended", value |-> None] /\ armed' = FALSE
  /\ UNCHANGED <<token, loop, fresh, aborted, stale, asked, request, file, override, running,
                 reconciling, stopping, overlapped>>

-----------------------------------------------------------------------------
(* Shutdown: no new request, the requests in flight end, the background     *)
(* context is cancelled, the goroutines are waited for.                     *)
ShutdownBegins ==
  /\ stopping = "no" /\ stopping' = "http"
  /\ UNCHANGED <<token, loop, fresh, aborted, stale, asked, request, file, override, running,
                 watch, armed, reconciling, overlapped>>

backgroundCancel ==
  /\ stopping = "http" /\ Busy = {} /\ stopping' = "wait"
  /\ aborted' = (loop = "run")
  /\ UNCHANGED <<token, loop, fresh, stale, asked, request, file, override, running, watch,
                 armed, reconciling, overlapped>>

\* Mutant of Waited: the reconciliation is not in the wait group.
WaitedForLoops == loop \in {"ended", "dead"} /\ watch.at = "ended"
Waited == loop \in {"ended", "dead"} /\ watch.at = "ended" /\ ~reconciling

CloseStores ==
  /\ stopping = "wait" /\ Waited /\ stopping' = "closed"
  /\ UNCHANGED <<token, loop, fresh, aborted, stale, asked, request, file, override, running,
                 watch, armed, reconciling, overlapped>>

Handle(r) == Refuse(r) \/ postConfigPut(r) \/ deleteConfigStored(r) \/ deleteConfigFile(r)
               \/ Assign(r) \/ Import(r) \/ CancelRun(r) \/ Schedule(r)
Watch == reloadConfigFromFile \/ applyRecommendOverride \/ reloadAssign \/ reloadSchedule \/ watchEnds
LoopStep == LoopEnter \/ TakeToken \/ RunEnds \/ LoopLeaves

ControlNext ==
  \/ LoopStep \/ TakeTick \/ ReconcileEnds
  \/ \E r \in Requests : Arrive(r) \/ Handle(r)
  \/ EditFile \/ Watch
  \/ ShutdownBegins \/ backgroundCancel \/ CloseStores

(* Goroutines that can go on do; nothing is assumed of the ticker, of who   *)
(* sends requests or of who stops the master.  A run ends: it stops at a    *)
(* cancelled context and its stores answer.                                 *)
ControlFairness ==
  /\ WF_controlVars(LoopStep) /\ WF_controlVars(ReconcileEnds) /\ WF_controlVars(Watch)
  /\ \A r \in Requests : WF_controlVars(Handle(r))
  /\ WF_controlVars(backgroundCancel \/ CloseStores)

ControlSpec == ControlInit /\ [][ControlNext]_controlVars /\ ControlFairness

-----------------------------------------------------------------------------
(* Every accepted change of the configuration or of the data is followed by *)
(* a whole run that began after it and that no request cut short, whatever  *)
(* the loop was doing when the change came; unless the master is stopped or *)
(* its loop panicked.                                                       *)
TookEffect == ~stale \/ stopping # "no" \/ loop = "dead"
ChangeTakesEffect == stale ~> TookEffect

(* Shutdown ends, and closes the databases. *)
Stopping == stopping # "no"
Stopped == stopping = "closed"
ShutdownEnds == Stopping ~> Stopped

(* What was accepted is brought to its end, changes and Shutdown alike, with *)
(* one token for all wake-ups and with handlers, loop, watcher and           *)
(* reconciliation anywhere when it comes (RunTasksLoop, Shutdown).           *)
AcceptedIsDone == ChangeTakesEffect /\ ShutdownEnds

(* Nothing that uses a database is left when the databases are closed. *)
ClosedLast == stopping = "closed" => Busy = {} /\ ~reconciling /\ loop \in {"ended", "dead"} /\ watch.at = "ended"

(* While the master serves, between changes, the configuration in use is    *)
(* the one a restart would compute from the file and the meta store,        *)
(* provided that no two changes overlapped, the file was read when an       *)
(* override was deleted and its last edit was taken up.                     *)
OverrideMatches ==
  stopping = "no" /\ Quiet /\ ~overlapped /\ ~armed => running = Stated(file, override)
=============================================================================
