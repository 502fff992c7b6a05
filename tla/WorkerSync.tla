------------------------------ MODULE WorkerSync ------------------------------
(***************************************************************************)
(* A worker beside the master (worker/worker.go, worker/pipeline.go).      *)
(* Three goroutines of the worker share its fields without a lock:         *)
(*                                                                         *)
(*   Sync   asks the master for the current ids, stores them in latest*    *)
(*          and signals syncedChan when one is newer than what is          *)
(*          installed;                                                     *)
(*   Pull   waits for syncedChan, reads the blobs of latest*, installs     *)
(*          them and signals pulledChan;                                   *)
(*   Serve  waits for pulledChan or a tick, asks the data store for the    *)
(*          users that are its share, and recommends to them with what is  *)
(*          installed.                                                     *)
(*                                                                         *)
(* Both channels hold one signal and are written without blocking.  The    *)
(* master is the abstract one of ModelRegistry.                            *)
(*                                                                         *)
(* Workers do not affect each other here, so one worker is enough.         *)
(***************************************************************************)
EXTENDS ModelRegistry

CONSTANTS
    MaxFailures   \* bound: failed pulls, crashes of the worker or the master

ASSUME MaxFailuresAssumption == MaxFailures \in Nat

VARIABLES
    failures,   \* failures so far
    reply,      \* the Meta that GetMeta returned
    spc,        \* control point of Sync
    latestCF,   \* w.latestCollaborativeFilteringModelId
    latestCTR,  \* w.latestClickThroughRateModelId
    peers,      \* w.peers and w.me are set
    synced,     \* w.syncedChan holds a signal
    ppc,        \* control point of Pull
    opened,     \* the id of the blob Pull has read
    pulled,     \* local variable pulled of Pull
    wCF,        \* MatrixFactorizationId
    wUsers,     \* the id whose blob MatrixFactorizationUsers came from
    wCTR,       \* w.clickThroughRateModelId
    wModel,     \* the id whose blob ClickThroughRateModel came from
    pulledChan, \* w.pulledChan holds a signal
    looping,    \* Serve is inside loop()
    used        \* MatrixFactorizationId when the last loop began to recommend

syncVars == <<reply, spc, latestCF, latestCTR, peers>>
pullVars == <<ppc, opened, pulled>>
installed == <<wCF, wUsers, wCTR, wModel>>
loopVars == <<looping, used>>
workerVars == <<reply, spc, latestCF, latestCTR, peers, synced, ppc, opened,
                pulled, wCF, wUsers, wCTR, wModel, pulledChan, looping, used>>
allVars == <<registryVars, workerVars, failures>>

Failure == failures < MaxFailures /\ failures' = failures + 1

Reply == [cf : IdsOrNone, ctr : IdsOrNone]
NoReply == [cf |-> 0, ctr |-> 0]

WorkerInit ==
    /\ reply = NoReply /\ spc = "wait"
    /\ latestCF = 0 /\ latestCTR = 0 /\ peers = FALSE
    /\ synced = FALSE
    /\ ppc = "wait" /\ opened = 0 /\ pulled = FALSE
    /\ wCF = 0 /\ wUsers = 0 /\ wCTR = 0 /\ wModel = 0
    /\ pulledChan = FALSE
    /\ looping = FALSE /\ used = 0

SyncInit == Init /\ WorkerInit /\ failures = 0

-----------------------------------------------------------------------------
(* Sync                                                                    *)

\* GetMeta; when the master is down the call fails and is tried again later.
GetMeta ==
    /\ spc = "wait"
    /\ up
    /\ reply' = [cf |-> cf, ctr |-> ctr]
    /\ spc' = "cf"
    /\ UNCHANGED <<latestCF, latestCTR, peers, synced, pullVars, installed,
                   pulledChan, loopVars>>

\* Mutant of SyncCF: signal only when the id changed since the last reply.
SyncCFOnChange ==
    /\ spc = "cf"
    /\ latestCF' = reply.cf
    /\ synced' = (synced \/ reply.cf > latestCF)
    /\ spc' = "ctr"
    /\ UNCHANGED <<reply, latestCTR, peers, pullVars, installed, pulledChan,
                   loopVars>>

SyncCF ==
    /\ spc = "cf"
    /\ latestCF' = reply.cf
    /\ synced' = (synced \/ reply.cf > wCF)
    /\ spc' = "ctr"
    /\ UNCHANGED <<reply, latestCTR, peers, pullVars, installed, pulledChan,
                   loopVars>>

SyncCTR ==
    /\ spc = "ctr"
    /\ latestCTR' = reply.ctr
    /\ synced' = (synced \/ reply.ctr > wCTR)
    /\ spc' = "peers"
    /\ UNCHANGED <<reply, latestCF, peers, pullVars, installed, pulledChan,
                   loopVars>>

\* w.peers and w.me come last, after both signals.
SyncPeers ==
    /\ spc = "peers"
    /\ peers' = TRUE
    /\ spc' = "wait"
    /\ UNCHANGED <<reply, latestCF, latestCTR, synced, pullVars, installed,
                   pulledChan, loopVars>>

-----------------------------------------------------------------------------
(* Pull                                                                    *)

PullStart ==
    /\ ppc = "wait"
    /\ synced
    /\ synced' = FALSE
    /\ pulled' = FALSE
    /\ ppc' = "cf"
    /\ UNCHANGED <<syncVars, opened, installed, pulledChan, loopVars>>

\* Open and decode the blob of model i.
ReadBlob(i, next, skip) ==
    \/ /\ i \in blobs
       /\ opened' = i
       /\ ppc' = next
       /\ UNCHANGED failures
    \/ /\ i \notin blobs
       /\ ppc' = skip
       /\ UNCHANGED <<opened, failures>>
    \/ /\ Failure
       /\ ppc' = skip
       /\ UNCHANGED opened

PullCF ==
    /\ ppc = "cf"
    /\ \/ /\ latestCF > wCF
          /\ ReadBlob(latestCF, "installCF", "ctr")
       \/ /\ latestCF <= wCF
          /\ ppc' = "ctr"
          /\ UNCHANGED <<opened, failures>>
    /\ UNCHANGED <<syncVars, synced, pulled, installed, pulledChan, loopVars>>

\* UpdateMatrixFactorization, with the value that latestCF has by now.
InstallPulledCF ==
    /\ ppc = "installCF"
    /\ ppc' = "ctr"
    /\ \/ /\ latestCF \in colls
          /\ wCF' = latestCF
          /\ wUsers' = opened
          /\ pulled' = TRUE
       \/ /\ latestCF \notin colls
          /\ UNCHANGED <<wCF, wUsers, pulled>>
    /\ UNCHANGED <<syncVars, synced, opened, wCTR, wModel, pulledChan, loopVars>>

PullCTR ==
    /\ ppc = "ctr"
    /\ \/ /\ latestCTR > wCTR
          /\ ReadBlob(latestCTR, "installCTR", "end")
       \/ /\ latestCTR <= wCTR
          /\ ppc' = "end"
          /\ UNCHANGED <<opened, failures>>
    /\ UNCHANGED <<syncVars, synced, pulled, installed, pulledChan, loopVars>>

\* The model is set first; its id is the value that latestCTR has by now.
InstallPulledCTR ==
    /\ ppc = "installCTR"
    /\ ppc' = "end"
    /\ wModel' = opened
    /\ wCTR' = latestCTR
    /\ pulled' = TRUE
    /\ UNCHANGED <<syncVars, synced, opened, wCF, wUsers, pulledChan, loopVars>>

PullEnd ==
    /\ ppc = "end"
    /\ ppc' = "wait"
    /\ pulledChan' = (pulledChan \/ pulled)
    /\ UNCHANGED <<syncVars, synced, opened, pulled, installed, loopVars>>

-----------------------------------------------------------------------------
(* Serve                                                                   *)

\* pullUsers: it fails before the first Sync is over and when the data store
\* fails; then the function returns and the wake-up is spent.  Otherwise
\* Recommend takes its users, none of them with a model older than now.
BeginLoop ==
    \/ /\ peers
       /\ looping' = TRUE
       /\ used' = wCF
       /\ UNCHANGED failures
    \/ /\ ~peers
       /\ UNCHANGED <<looping, used, failures>>
    \/ /\ Failure
       /\ UNCHANGED <<looping, used>>

LoopOnPull ==
    /\ ~looping
    /\ pulledChan
    /\ pulledChan' = FALSE
    /\ BeginLoop
    /\ UNCHANGED <<syncVars, synced, pullVars, installed>>

LoopOnTick ==
    /\ ~looping
    /\ BeginLoop
    /\ UNCHANGED <<syncVars, synced, pullVars, installed, pulledChan>>

LoopEnd ==
    /\ looping
    /\ looping' = FALSE
    /\ UNCHANGED <<syncVars, synced, pullVars, installed, pulledChan, used>>

\* The worker dies and starts again with nothing installed.
WorkerCrash ==
    /\ Failure
    /\ reply' = NoReply /\ spc' = "wait"
    /\ latestCF' = 0 /\ latestCTR' = 0 /\ peers' = FALSE
    /\ synced' = FALSE
    /\ ppc' = "wait" /\ opened' = 0 /\ pulled' = FALSE
    /\ wCF' = 0 /\ wUsers' = 0 /\ wCTR' = 0 /\ wModel' = 0
    /\ pulledChan' = FALSE
    /\ looping' = FALSE /\ used' = 0

-----------------------------------------------------------------------------

SyncStep ==
    /\ GetMeta \/ SyncCF \/ SyncCTR \/ SyncPeers
    /\ UNCHANGED <<registryVars, failures>>

PullStep ==
    /\ \/ /\ PullStart \/ InstallPulledCF \/ InstallPulledCTR \/ PullEnd
          /\ UNCHANGED failures
       \/ PullCF
       \/ PullCTR
    /\ UNCHANGED registryVars

TickStep == LoopOnTick /\ UNCHANGED registryVars
EndStep == LoopEnd /\ UNCHANGED <<registryVars, failures>>

WorkerNext ==
    \/ SyncStep
    \/ PullStep
    \/ TickStep
    \/ LoopOnPull /\ UNCHANGED registryVars
    \/ EndStep
    \/ WorkerCrash /\ UNCHANGED registryVars

MasterNext ==
    /\ Next
    /\ IF up /\ ~up' THEN Failure ELSE UNCHANGED failures
    /\ UNCHANGED workerVars

MasterBack == ComeUp /\ UNCHANGED <<workerVars, failures>>

SyncNext == MasterNext \/ WorkerNext

(***************************************************************************)
(* The worker's goroutines run, Sync repeats every MetaTimeout, the ticker *)
(* fires, Recommend ends, and the master is restarted when it dies.        *)
(* Nothing is assumed of the master's training.                            *)
(***************************************************************************)
SyncFairness ==
    /\ WF_allVars(MasterBack)
    /\ WF_allVars(SyncStep)
    /\ WF_allVars(PullStep)
    /\ WF_allVars(TickStep)
    /\ WF_allVars(EndStep)

SyncSpec == SyncInit /\ [][SyncNext]_allVars
SyncFairSpec == SyncSpec /\ SyncFairness

-----------------------------------------------------------------------------
(* Properties                                                              *)

SyncTypeOK ==
    /\ reply \in Reply
    /\ spc \in {"wait", "cf", "ctr", "peers"}
    /\ latestCF \in IdsOrNone /\ latestCTR \in IdsOrNone
    /\ peers \in BOOLEAN
    /\ synced \in BOOLEAN
    /\ ppc \in {"wait", "cf", "installCF", "ctr", "installCTR", "end"}
    /\ opened \in IdsOrNone
    /\ pulled \in BOOLEAN
    /\ wCF \in IdsOrNone /\ wUsers \in IdsOrNone
    /\ wCTR \in IdsOrNone /\ wModel \in IdsOrNone
    /\ pulledChan \in BOOLEAN
    /\ looping \in BOOLEAN
    /\ used \in IdsOrNone
    /\ failures \in 0 .. MaxFailures

(***************************************************************************)
(* A worker never goes back to an older collaborative filtering model,     *)
(* unless it starts from nothing itself, although Pull installs under the  *)
(* id that Sync wrote last and Sync may apply a reply of GetMeta from      *)
(* before a restart of the master.  It rests on the master writing the     *)
(* meta store before it advertises the id.                                 *)
(***************************************************************************)
NeverBackwards ==
    [][wCF' < wCF => WorkerCrash]_allVars

(***************************************************************************)
(* A published collaborative filtering model gets used: however Sync, Pull *)
(* and Serve interleave and whichever pull, crash or pass over the users   *)
(* fails, the worker begins a pass with it or a newer one (ids of models   *)
(* only grow).  Neither channel may lose the news for good although its    *)
(* writers never block.                                                    *)
(***************************************************************************)
PublishedModelIsUsed ==
    (used < cf) ~> (used >= cf)

(***************************************************************************)
(* A click-through rate model that stays current reaches the worker: the   *)
(* signal is raised again by every Sync until Pull has taken the model,    *)
(* whatever Pull was doing meanwhile.  The id may go back when the master  *)
(* dies before it stored it; then nothing is owed.                         *)
(***************************************************************************)
CTRReachesWorker ==
    (wCTR < ctr) ~> (wCTR >= ctr)

(***************************************************************************)
(* "Pull user index and ranking model from master" (worker/worker.go:270): *)
(* the user vectors and the collection they are matched with belong to one *)
(* model.                                                                  *)
(***************************************************************************)
PairInstalled ==
    wUsers = wCF

=============================================================================
