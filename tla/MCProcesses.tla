----------------------------- MODULE MCProcesses ----------------------------
(***************************************************************************)
(* Model checking of what runs in parallel and has to end: the scheduler   *)
(* of the pipeline, the worker pools, the blob stores, training and        *)
(* ranking.  A behaviour is one of a single component, chosen in the       *)
(* initial state; the others stay in an initial state of theirs.           *)
(***************************************************************************)
EXTENDS Detachable, Parallel, BlobStores, Training, Ranking

VARIABLE part  \* the component this behaviour is of

\* The collection's items, and the model's scores: it likes item 1 only.
NearestItems == <<1, 2>>
Outputs == <<8, -4>>

\* A component starts in any of its initial states, or does nothing in this one.
MCInit ==
    /\ part \in {"detachable", "parallel", "blob", "fit", "rank"}
    /\ Init
    /\ ParInit /\ (part = "parallel" \/ (kind = "For" /\ workers = 1))
    /\ BlobInit /\ (part = "blob" \/ backend = "posix")
    /\ FitInit /\ (part = "fit" \/ (trainer = "afm" /\ patience = 0 /\ verbose = 1 /\ scores[1].value = 0))
    /\ RankInit /\ (part = "rank" \/ (ranker = "none" /\ ~replacing /\ ExcludeSet = {}))

MCNext ==
    /\ UNCHANGED part
    /\ \/ part = "detachable" /\ Next /\ UNCHANGED <<parVars, blobVars, fitVars, rankVars>>
       \/ part = "parallel" /\ ParNext /\ UNCHANGED <<vars, blobVars, fitVars, rankVars>>
       \/ part = "blob" /\ BlobNext /\ UNCHANGED <<vars, parVars, fitVars, rankVars>>
       \/ part = "fit" /\ FitNext /\ UNCHANGED <<vars, parVars, blobVars, rankVars>>
       \/ part = "rank" /\ RankNext /\ UNCHANGED <<vars, parVars, blobVars, fitVars>>

mcVars == <<vars, parVars, blobVars, fitVars, rankVars, part>>

\* The fairness of each component, for its own behaviours.
ParallelGoesOn ==
    /\ WF_parVars(part = "parallel" /\ Produce)
    /\ WF_parVars(part = "parallel" /\ (ReturnOutcome \/ Sequentially))
    /\ \A w \in 1 .. 2 : WF_parVars(part = "parallel" /\ WorkerStep(w))

DetachableGoesOn ==
    /\ WF_vars(part = "detachable" /\ MainStep)
    /\ \A j \in Jobs : WF_vars(part = "detachable" /\ JobStep(j))

TrainerAndStoreGoOn ==
    /\ WF_blobVars(part = "blob" /\ (Write \/ Close \/ Await))
    /\ WF_blobVars(part = "blob" /\ StoreSteps)

FitGoesOn ==
    /\ WF_fitVars(part = "fit" /\ (TrainBatch \/ SwitchSides \/ Abort \/ EpochTrained
                                   \/ EvaluateEpoch \/ SkipEvaluation))
    /\ \A w \in 1 .. 2 : WF_fitVars(part = "fit" /\ TrainerStep(w))

RankingGoesOn ==
    /\ WF_rankVars(part = "rank" /\ JobSteps)
    /\ WF_rankVars(part = "rank" /\ RemoteAnswers)

MCFairness == ParallelGoesOn /\ DetachableGoesOn /\ TrainerAndStoreGoOn /\ FitGoesOn /\ RankingGoesOn

MCSpec == MCInit /\ [][MCNext]_mcVars /\ MCFairness

-----------------------------------------------------------------------------

\* Calls of package parallel return: jobs of Detachable that queue for a slot never
\* wait for each other, and a producer of Parallel ends unless all its workers left.
CallsEnd ==
    /\ <>(part = "detachable" => main = "returned")
    /\ <>(part = "parallel" => Returned)
    /\ <>(part = "parallel" => ProducerLeaves) \/ <>[](part = "parallel" => Deserted)

\* A trainer gets to the end of a write unless the store failed (Create), Fit ends,
\* cancelled or not, and so does ranking a user, however the remote ranker fails.
WorkEnds ==
    /\ (part = "blob" /\ Writing) ~> (part = "blob" => WroteOrStuck)
    /\ (part = "fit" /\ Drawable) ~> (part = "fit" => Ended)
    /\ <>(part = "rank" => RankDone)
=============================================================================
