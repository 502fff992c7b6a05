------------------------------ MODULE MCWorker ------------------------------
(***************************************************************************)
(* Model checking of a worker's synchronisation with the master: the       *)
(* instance the configuration file gives, with several collaborative       *)
(* filtering models and a failure, and a second one with both kinds of     *)
(* models in which nothing fails.  A behaviour is one of either instance.  *)
(***************************************************************************)
EXTENDS WorkerSync

VARIABLE kinds  \* the kinds of models that are trained

\* Two models of each kind.
Both == INSTANCE WorkerSync WITH MaxId <- 2, UseCTR <- TRUE, MaxFailures <- 0

MCInit ==
    \/ kinds = "cf" /\ SyncInit
    \/ kinds = "both" /\ Both!SyncInit

MCNext ==
    /\ UNCHANGED kinds
    /\ \/ kinds = "cf" /\ SyncNext
       \/ kinds = "both" /\ Both!SyncNext

\* The fairness of WorkerSync, for the two instances.
MCFairness ==
    /\ WF_allVars(IF kinds = "cf" THEN MasterBack ELSE Both!MasterBack)
    /\ WF_allVars(IF kinds = "cf" THEN SyncStep ELSE Both!SyncStep)
    /\ WF_allVars(IF kinds = "cf" THEN PullStep ELSE Both!PullStep)
    /\ WF_allVars(IF kinds = "cf" THEN TickStep ELSE Both!TickStep)
    /\ WF_allVars(IF kinds = "cf" THEN EndStep ELSE Both!EndStep)

MCSpec == MCInit /\ [][MCNext]_<<allVars, kinds>> /\ MCFairness

-----------------------------------------------------------------------------

\* Models of both kinds get from the registry to the passes of a worker, although
\* Sync and Pull wake each other through channels that drop signals.
ModelsReachWorker == PublishedModelIsUsed /\ CTRReachesWorker
=============================================================================
