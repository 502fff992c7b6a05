---------------------------- MODULE ModelLifecycle ----------------------------
(***************************************************************************)
(* How the master publishes a trained model and retires the older ones     *)
(* (master/tasks.go, master/master.go, storage/blob/posix.go).             *)
(*                                                                         *)
(* One goroutine, RunTasksLoop, trains a collaborative filtering (cf) and  *)
(* a click-through rate (ctr) model per round.  A model is spread over     *)
(* three stores that are written one after the other: the vector store     *)
(* (item vectors, cf only), the blob store (user vectors or the ctr model) *)
(* and the meta store (the id of the current model).  The id in memory is  *)
(* what GetMeta tells the workers.  Every write may fail and the process   *)
(* may die between any two of them.                                        *)
(*                                                                         *)
(* A model id is the wall clock in milliseconds when the fit ended.  The   *)
(* clock is taken to advance between two fits; 0 is "no model".            *)
(***************************************************************************)
EXTENDS Integers, FiniteSets

CONSTANTS
    MaxId,      \* bound: ids the clock hands out
    Counts,     \* feedback counts a loaded data set may have
    Faults,     \* which failures happen
    MaxFaults   \* bound: how many failures happen

(***************************************************************************)
(* get         metaStore.Get or FromJSON at start-up                       *)
(* collection  AddCollection         index   AddVectors or Optimize        *)
(* create      blobStore.Create      marshal the encoder of the model      *)
(* write       the disk, inside the goroutine that copies into the file    *)
(* cfPut, ctrPut  metaStore.Put      stats   AddTimeSeriesPoints           *)
(* list        List or ListCollections                                     *)
(* remove      blobStore.Remove      drop    DeleteCollection              *)
(* load        loadDataset           crash   the process dies              *)
(***************************************************************************)
AllFaults == {"get", "collection", "index", "create", "marshal", "write",
              "cfPut", "ctrPut", "stats", "list", "remove", "drop", "load",
              "crash"}

ASSUME MaxIdAssumption == MaxId \in Nat
ASSUME CountsAssumption == Counts \subseteq Nat
ASSUME FaultsAssumption == Faults \subseteq AllFaults
ASSUME MaxFaultsAssumption == MaxFaults \in Nat

VARIABLES
    clock,      \* the last id handed out
    blob,       \* blob store: what the file of each id holds
    coll,       \* vector store: the cf collection of each id
    cfStored,   \* meta store: COLLABORATIVE_FILTERING_MODEL
    ctrStored,  \* meta store: CLICK_THROUGH_RATE_MODEL
    cfMeta,     \* m.collaborativeFilteringMeta.ID
    ctrMeta,    \* m.clickThroughRateMeta.ID
    cfSize,     \* m.collaborativeFilteringTrainSetSize
    ctrSize,    \* m.clickThroughRateTrainSetSize
    cfCount,    \* trainSet.CountFeedback() of the loaded data set
    ctrCount,   \* trainSet.Count() of the loaded data set
    task,       \* the model the round is at
    pc,         \* the step the task is at
    id,         \* the id of the model being published
    todo,       \* removeOutOfDateModels: collections still to visit
    cur,        \* removeOutOfDateModels: collection to delete next, or 0
    loose,      \* removeOutOfDateModels: blobs the last loop will remove
    faults      \* failures so far

stores == <<blob, coll, cfStored, ctrStored>>
memory == <<cfMeta, ctrMeta, cfSize, ctrSize>>
counts == <<cfCount, ctrCount>>
gc == <<todo, cur, loose>>
vars == <<clock, blob, coll, cfStored, ctrStored, cfMeta, ctrMeta, cfSize,
          ctrSize, cfCount, ctrCount, task, pc, id, todo, cur, loose, faults>>

Ids == 1 .. MaxId
IdsOrNone == 0 .. MaxId

Steps == {"idle", "start", "index", "create", "write", "put", "install",
          "stats", "plan", "visit", "loose", "hung", "down"}

\* Failure f may happen here, and is counted.
Fault(f) ==
    /\ f \in Faults
    /\ faults < MaxFaults
    /\ faults' = faults + 1

Init ==
    /\ clock = 0
    /\ blob = [i \in Ids |-> "absent"]
    /\ coll = [i \in Ids |-> "absent"]
    /\ cfStored = 0 /\ ctrStored = 0
    /\ cfMeta = 0 /\ ctrMeta = 0
    /\ cfSize = 0 /\ ctrSize = 0
    /\ cfCount = 0 /\ ctrCount = 0
    /\ task = "cf"
    /\ pc = "idle"
    /\ id = 0
    /\ todo = {} /\ cur = 0 /\ loose = {}
    /\ faults = 0

-----------------------------------------------------------------------------
(* The round.                                                              *)

\* The function of the current task returns, with or without an error:
\* runLoadDatasetTask logs the error and goes on with the next task.
Leave ==
    IF task = "cf"
      THEN task' = "ctr" /\ pc' = "start"
      ELSE task' = "cf" /\ pc' = "idle"

Goto(step) == pc' = step /\ UNCHANGED task

Count == IF task = "cf" THEN cfCount ELSE ctrCount
TrainSetSize == IF task = "cf" THEN cfSize ELSE ctrSize

\* A tick or a schedule: load the data set.  A count of 0 also stands for a
\* task that the configuration switches off.
LoadDataset ==
    /\ pc = "idle"
    /\ pc' = "start"
    /\ cfCount' \in Counts
    /\ ctrCount' \in Counts
    /\ UNCHANGED <<clock, stores, memory, task, id, gc, faults>>

LoadDatasetFails ==
    /\ pc = "idle"
    /\ Fault("load")
    /\ UNCHANGED <<clock, stores, memory, counts, task, pc, id, gc>>

\* Nothing to train on, or as many samples as the last time.
Skip ==
    /\ pc = "start"
    /\ Count = 0 \/ Count = TrainSetSize \/ clock = MaxId
    /\ Leave
    /\ UNCHANGED <<clock, stores, memory, counts, id, gc, faults>>

MayFit(t) ==
    /\ pc = "start"
    /\ task = t
    /\ Count # 0
    /\ Count # TrainSetSize
    /\ clock < MaxId
    /\ clock' = clock + 1
    /\ id' = clock + 1

\* Mutant of FitCF: the size is recorded before the model is stored.
FitCFRecordingSize ==
    /\ MayFit("cf")
    /\ cfSize' = cfCount
    /\ \/ /\ coll' = [coll EXCEPT ![clock + 1] = "building"]
          /\ Goto("index")
          /\ UNCHANGED faults
       \/ /\ Fault("collection")
          /\ Leave
          /\ UNCHANGED coll
    /\ UNCHANGED <<blob, cfStored, ctrStored, cfMeta, ctrMeta, ctrSize, counts,
                   gc>>

\* Fit, then AddCollection.
FitCF ==
    /\ MayFit("cf")
    /\ \/ /\ coll' = [coll EXCEPT ![clock + 1] = "building"]
          /\ Goto("index")
          /\ UNCHANGED faults
       \/ /\ Fault("collection")
          /\ Leave
          /\ UNCHANGED coll
    /\ UNCHANGED <<blob, cfStored, ctrStored, memory, counts, gc>>

\* Fit; the size of the train set is recorded before anything is stored.
FitCTR ==
    /\ MayFit("ctr")
    /\ ctrSize' = ctrCount
    /\ Goto("create")
    /\ UNCHANGED <<stores, cfMeta, ctrMeta, cfSize, counts, gc, faults>>

\* AddVectors in batches, then Optimize.
IndexCF ==
    /\ pc = "index"
    /\ \/ /\ coll' = [coll EXCEPT ![id] = "ready"]
          /\ Goto("create")
          /\ UNCHANGED faults
       \/ /\ Fault("index")
          /\ Leave
          /\ UNCHANGED coll
    /\ UNCHANGED <<clock, blob, cfStored, ctrStored, memory, counts, id, gc>>

\* POSIX.Create makes the file at once, under its final name.
CreateBlob ==
    /\ pc = "create"
    /\ \/ /\ blob' = [blob EXCEPT ![id] = "partial"]
          /\ Goto("write")
          /\ UNCHANGED faults
       \/ /\ Fault("create")
          /\ Leave
          /\ UNCHANGED blob
    /\ UNCHANGED <<clock, coll, cfStored, ctrStored, memory, counts, id, gc>>

\* Mutant of AfterUpload: cf, too, writes the memory first.
AfterUploadInstall == "install"

\* cf writes the meta store first, ctr the memory.
AfterUpload == IF task = "cf" THEN "put" ELSE "install"

\* Marshal into the pipe, Close, wait for done.
WriteBlob ==
    /\ pc = "write"
    /\ blob' = [blob EXCEPT ![id] = "complete"]
    /\ Goto(AfterUpload)
    /\ UNCHANGED <<clock, coll, cfStored, ctrStored, memory, counts, id, gc,
                   faults>>

\* The encoder fails: the file stays behind, half written.
MarshalFails ==
    /\ pc = "write"
    /\ Fault("marshal")
    /\ Leave
    /\ UNCHANGED <<clock, stores, memory, counts, id, gc>>

(***************************************************************************)
(* The copying goroutine cannot write: it logs, closes done and ends, but  *)
(* does not close its end of the pipe.  If it already took the last chunk  *)
(* the caller sees no error; otherwise its next Write blocks for ever.     *)
(***************************************************************************)
WriteFails ==
    /\ pc = "write"
    /\ Fault("write")
    /\ Goto(AfterUpload) \/ Goto("hung")
    /\ UNCHANGED <<clock, stores, memory, counts, id, gc>>

PutCF ==
    /\ pc = "put" /\ task = "cf"
    /\ \/ /\ cfStored' = id
          /\ Goto("install")
          /\ UNCHANGED faults
       \/ /\ Fault("cfPut")
          /\ Leave
          /\ UNCHANGED cfStored
    /\ UNCHANGED <<clock, blob, coll, ctrStored, memory, counts, id, gc>>

InstallCF ==
    /\ pc = "install" /\ task = "cf"
    /\ cfMeta' = id
    /\ cfSize' = cfCount
    /\ Goto("stats")
    /\ UNCHANGED <<clock, stores, ctrMeta, ctrSize, counts, id, gc, faults>>

InstallCTR ==
    /\ pc = "install" /\ task = "ctr"
    /\ ctrMeta' = id
    /\ Goto("put")
    /\ UNCHANGED <<clock, stores, cfMeta, cfSize, ctrSize, counts, id, gc,
                   faults>>

PutCTR ==
    /\ pc = "put" /\ task = "ctr"
    /\ \/ /\ ctrStored' = ctrMeta
          /\ Goto("stats")
          /\ UNCHANGED faults
       \/ /\ Fault("ctrPut")
          /\ Leave
          /\ UNCHANGED ctrStored
    /\ UNCHANGED <<clock, blob, coll, cfStored, memory, counts, id, gc>>

\* Time series points; if they cannot be written nothing is retired.
Stats ==
    /\ pc = "stats"
    /\ \/ Goto("plan") /\ UNCHANGED faults
       \/ Fault("stats") /\ Leave
    /\ UNCHANGED <<clock, stores, memory, counts, id, gc>>

-----------------------------------------------------------------------------
(* removeOutOfDateModels.  No other goroutine writes the two stores.       *)

Files == {i \in Ids : blob[i] # "absent"}
Collections == {i \in Ids : coll[i] # "absent"}

\* completeCollaborativeFilteringModels: a collection and a blob of any content.
Complete == Files \cap Collections

Newest(S, n) == {i \in S : Cardinality({j \in S : j > i}) < n}

\* Mutant of Keep: only the two newest complete models.
KeepNewest == Newest(Complete, 2)

\* Mutant of Keep: every complete model.
KeepComplete == {cfMeta} \cup Complete

Keep == {cfMeta} \cup Newest(Complete, 2)

\* Mutant of Timestamp: the newer of the two current ids.
TimestampNewer == IF cfMeta < ctrMeta THEN ctrMeta ELSE cfMeta

Timestamp == IF cfMeta < ctrMeta THEN cfMeta ELSE ctrMeta

\* Mutant of Plan: every id below the threshold, 0 included.
PlanAnyId ==
    /\ pc = "plan"
    /\ todo' = Collections \ Keep
    /\ loose' = (0 .. Timestamp - 1) \ Keep
    /\ Goto("visit")
    /\ UNCHANGED <<clock, stores, memory, counts, id, cur, faults>>

Plan ==
    /\ pc = "plan"
    /\ \/ /\ todo' = Collections \ Keep
          /\ loose' = {i \in Files : i < Timestamp} \ Keep
          /\ Goto("visit")
          /\ UNCHANGED faults
       \/ /\ Fault("list")
          /\ Leave
          /\ UNCHANGED <<todo, loose>>
    /\ UNCHANGED <<clock, stores, memory, counts, id, cur>>

\* First loop, in map order: the blob of a collection goes first.
VisitBlob(i) ==
    /\ pc = "visit" /\ cur = 0
    /\ i \in todo
    /\ todo' = todo \ {i}
    /\ \/ /\ blob[i] # "absent" /\ i # ctrMeta
          /\ blob' = [blob EXCEPT ![i] = "absent"]
          /\ loose' = loose \ {i}
          /\ cur' = i
          /\ UNCHANGED faults
       \/ /\ blob[i] # "absent" /\ i # ctrMeta
          /\ Fault("remove")
          /\ UNCHANGED <<blob, loose, cur>>
       \/ /\ blob[i] = "absent" \/ i = ctrMeta
          /\ cur' = i
          /\ UNCHANGED <<blob, loose, faults>>
    /\ UNCHANGED <<clock, coll, cfStored, ctrStored, memory, counts, task, pc,
                   id>>

\* ... and the collection after it.
VisitCollection ==
    /\ pc = "visit" /\ cur # 0
    /\ cur' = 0
    /\ \/ /\ coll' = [coll EXCEPT ![cur] = "absent"]
          /\ UNCHANGED faults
       \/ /\ Fault("drop")
          /\ UNCHANGED coll
    /\ UNCHANGED <<clock, blob, cfStored, ctrStored, memory, counts, task, pc,
                   id, todo, loose>>

EndVisit ==
    /\ pc = "visit" /\ cur = 0
    /\ todo = {}
    /\ Goto("loose")
    /\ UNCHANGED <<clock, stores, memory, counts, id, gc, faults>>

\* Second loop: blobs older than both current models.
RemoveLoose(i) ==
    /\ pc = "loose"
    /\ i \in loose
    /\ loose' = loose \ {i}
    /\ \/ /\ blob' = [blob EXCEPT ![i] = "absent"]
          /\ UNCHANGED faults
       \/ /\ Fault("remove")
          /\ UNCHANGED blob
    /\ UNCHANGED <<clock, coll, cfStored, ctrStored, memory, counts, task, pc,
                   id, todo, cur>>

EndLoose ==
    /\ pc = "loose"
    /\ loose = {}
    /\ Leave
    /\ UNCHANGED <<clock, stores, memory, counts, id, gc, faults>>

-----------------------------------------------------------------------------
(* The process.                                                            *)

\* The stores survive; everything else is lost.
Crash ==
    /\ pc # "down"
    /\ Fault("crash")
    /\ cfMeta' = 0 /\ ctrMeta' = 0 /\ cfSize' = 0 /\ ctrSize' = 0
    /\ cfCount' = 0 /\ ctrCount' = 0
    /\ task' = "cf" /\ pc' = "down" /\ id' = 0
    /\ todo' = {} /\ cur' = 0 /\ loose' = {}
    /\ UNCHANGED <<clock, stores>>

\* Serve: an id that cannot be loaded is logged and stays 0.
Restart ==
    /\ pc = "down"
    /\ \/ /\ cfMeta' = cfStored
          /\ ctrMeta' = ctrStored
          /\ UNCHANGED faults
       \/ /\ Fault("get")
          /\ cfMeta' \in {0, cfStored}
          /\ ctrMeta' \in {0, ctrStored}
    /\ Goto("idle")
    /\ UNCHANGED <<clock, stores, cfSize, ctrSize, counts, id, gc>>

\* A Write on a pipe that nobody reads any more.
Hung == pc = "hung" /\ UNCHANGED vars

Publish ==
    \/ FitCF
    \/ FitCTR
    \/ IndexCF
    \/ CreateBlob
    \/ WriteBlob
    \/ MarshalFails
    \/ WriteFails
    \/ PutCF
    \/ PutCTR
    \/ InstallCF
    \/ InstallCTR
    \/ Stats

Retire ==
    \/ Plan
    \/ \E i \in Ids : VisitBlob(i)
    \/ VisitCollection
    \/ EndVisit
    \/ \E i \in Ids : RemoveLoose(i)
    \/ EndLoose

Round ==
    \/ LoadDataset
    \/ LoadDatasetFails
    \/ Skip
    \/ Publish
    \/ Retire

Next ==
    \/ Round
    \/ Crash
    \/ Restart
    \/ Hung

(***************************************************************************)
(* RunTasksLoop is ticked for ever and the process is restarted when it    *)
(* dies.  MaxFaults bounds the failures, so no fairness is needed for      *)
(* them.                                                                   *)
(***************************************************************************)
Fairness == WF_vars(Round) /\ WF_vars(Restart)

Spec == Init /\ [][Next]_vars
FairSpec == Spec /\ Fairness

-----------------------------------------------------------------------------
(* Properties                                                              *)

TypeOK ==
    /\ clock \in IdsOrNone
    /\ blob \in [Ids -> {"absent", "partial", "complete"}]
    /\ coll \in [Ids -> {"absent", "building", "ready"}]
    /\ cfStored \in IdsOrNone /\ ctrStored \in IdsOrNone
    /\ cfMeta \in IdsOrNone /\ ctrMeta \in IdsOrNone
    /\ cfSize \in Nat /\ ctrSize \in Nat
    /\ cfCount \in Nat /\ ctrCount \in Nat
    /\ task \in {"cf", "ctr"}
    /\ pc \in Steps
    /\ id \in IdsOrNone
    /\ todo \subseteq Ids
    /\ cur \in IdsOrNone
    /\ loose \subseteq Ids
    /\ faults \in Nat

(***************************************************************************)
(* GetMeta never names a collaborative filtering model that a worker       *)
(* cannot install: the blob that Pull opens and the collection that        *)
(* UpdateMatrixFactorization describes both exist, whatever failed before  *)
(* and wherever the process died, also right after a restart.              *)
(***************************************************************************)
AdvertisedCF ==
    cfMeta # 0 => blob[cfMeta] # "absent" /\ coll[cfMeta] = "ready"

(***************************************************************************)
(* The same for the click-through rate model: removeOutOfDateModels never  *)
(* takes the blob away from under the id that GetMeta hands out, also when *)
(* that id comes from the meta store after a restart.                      *)
(***************************************************************************)
AdvertisedCTR ==
    ctrMeta # 0 => blob[ctrMeta] # "absent"

(***************************************************************************)
(* removeOutOfDateModels catches up with what earlier rounds and crashes   *)
(* left behind: when its first loop is over, the current model and the two *)
(* newest complete ones are the only collections left, but for one per     *)
(* failure.                                                                *)
(***************************************************************************)
CollectionsBounded ==
    pc = "loose" => Cardinality(Collections) <= 3 + faults

(***************************************************************************)
(* A collaborative filtering model that could not be stored is trained     *)
(* again: the size of the train set, which makes trainCollaborativeFilter- *)
(* ing return early, is recorded only once the model is published.         *)
(***************************************************************************)
CFRetried == <>(cfMeta # 0)

Registry == INSTANCE ModelRegistry
    WITH last <- clock,
         blobs <- {i \in Ids : blob[i] = "complete"},
         colls <- {i \in Ids : coll[i] = "ready"},
         cf <- cfMeta,
         ctr <- ctrMeta,
         cfDurable <- cfStored,
         ctrDurable <- ctrStored,
         up <- (pc # "down"),
         UseCTR <- TRUE

(***************************************************************************)
(* The three stores, written and cleaned up one by one, implement the      *)
(* registry that the workers rely on: each step of the master is one step  *)
(* of ModelRegistry or invisible there.                                    *)
(***************************************************************************)
ImplementsRegistry == Registry!Spec
=============================================================================
