------------------------------ MODULE Training ------------------------------
(***************************************************************************)
(* Fit of the four trainers: BPR and ALS (model/cf/model.go), AFM          *)
(* (model/ctr/fm.go) and AFM on XLA (model/ctr/fm_xla.go).  Each evaluates *)
(* the initial model, then runs epochs; it evaluates again every Verbose   *)
(* epochs and after the last one, and stops early when the best evaluation *)
(* is Patience epochs old.  Weights are named by the number of epochs they *)
(* went through; what an evaluation measures is arbitrary.                 *)
(***************************************************************************)
EXTENDS Integers, Sequences, FiniteSets

CONSTANTS Users, Items,  \* positive numbers
          NEpochs, MaxPatience, MaxVerbose,
          MaxScore,  \* evaluations measure 0 .. MaxScore, or NaN
          NThreads,  \* Config.Jobs
          NBatches   \* batches of the click-through rate training set

VARIABLES trainer, patience, verbose,
          likes,     \* the training feedback of each user
          epoch,     \* the loop variable
          half,      \* ALS updates users, then items
          jobsLeft,  \* jobs (batches) of the epoch that nobody took
          working,   \* the user each worker of Parallel has at hand, None or Busy
          weights,   \* epochs the weights went through
          scores,    \* (epoch, value) of every evaluation, and its weights
          fitPhase, fitCancelled,
          answer     \* the index in scores of the score returned, 0: Score{}

fitVars == <<trainer, patience, verbose, likes, epoch, half, jobsLeft, working,
             weights, scores, fitPhase, fitCancelled, answer>>

None == 0
Busy == -1
NaN == -1
Workers == 1 .. NThreads
Parallelised == trainer \in {"bpr", "als"}
Idle == \A w \in Workers : working[w] = None
Ended == fitPhase = "ended"
CountFeedback(f) == Cardinality({p \in Users \X Items : p[2] \in f[p[1]]})

(* Jobs of an epoch, or of half of it. *)
EpochJobs(h) ==
  CASE trainer = "bpr" -> CountFeedback(likes)
    [] trainer = "als" -> Cardinality(IF h = 1 THEN Users ELSE Items)
    [] OTHER -> NBatches

(* With no user in the validation set BPR and ALS measure NaN, always; AFM *)
(* may once its weights are NaN.                                           *)
Evaluations ==
  IF scores[1].value = NaN THEN {NaN}
  ELSE (0 .. MaxScore) \cup (IF trainer = "afm" THEN {NaN} ELSE {})
Scored(v) == Append(scores, [epoch |-> epoch, value |-> v, weights |-> weights])

(* Init, and the evaluation of the untrained model. *)
FitInit ==
  /\ trainer \in {"bpr", "als", "afm", "xla"}
  /\ patience \in 0 .. MaxPatience
  /\ verbose \in 1 .. MaxVerbose
  /\ likes \in [Users -> SUBSET Items]
  /\ trainer # "bpr" => \A u \in Users : likes[u] = {}
  /\ epoch = 1
  /\ half = 1
  /\ jobsLeft = EpochJobs(1)
  /\ working = [w \in Workers |-> None]
  /\ weights = 0
  /\ \E v \in (IF Parallelised THEN {NaN} ELSE {}) \cup (0 .. MaxScore) :
       scores = <<[epoch |-> 0, value |-> v, weights |-> 0]>>
  /\ fitPhase = IF NEpochs = 0 THEN "ended" ELSE "epoch"
  /\ fitCancelled = FALSE
  /\ answer = IF NEpochs = 0 THEN 1 ELSE 0

CancelFit ==
  /\ ~fitCancelled /\ ~Ended
  /\ fitCancelled' = TRUE
  /\ UNCHANGED <<trainer, patience, verbose, likes, epoch, half, jobsLeft, working,
                 weights, scores, fitPhase, answer>>

(* A worker takes a job; BPR's draws users until one has feedback. *)
TakeJob(w) ==
  /\ Parallelised /\ fitPhase = "epoch" /\ working[w] = None
  /\ jobsLeft > 0 /\ ~fitCancelled
  /\ jobsLeft' = jobsLeft - 1
  /\ \/ trainer = "als" /\ working' = [working EXCEPT ![w] = Busy]
     \/ trainer = "bpr" /\ \E u \in Users : likes[u] # {} /\ working' = [working EXCEPT ![w] = u]
  /\ UNCHANGED <<trainer, patience, verbose, likes, epoch, half, weights, scores,
                 fitPhase, fitCancelled, answer>>

(* The items BPR accepts as negative samples of u. *)
Unseen(u) == Items \ likes[u]

(* BPR draws items until one is unseen, whatever ctx says, and updates the *)
(* factors.  A draw that fails changes nothing.                            *)
UpdatePair(w) ==
  /\ working[w] \in Users
  /\ Unseen(working[w]) # {}
  /\ working' = [working EXCEPT ![w] = None]
  /\ UNCHANGED <<trainer, patience, verbose, likes, epoch, half, jobsLeft, weights,
                 scores, fitPhase, fitCancelled, answer>>

(* ALS solves for the factors of one user or item (ALS.tla). *)
UpdateFactor(w) ==
  /\ working[w] = Busy
  /\ working' = [working EXCEPT ![w] = None]
  /\ UNCHANGED <<trainer, patience, verbose, likes, epoch, half, jobsLeft, weights,
                 scores, fitPhase, fitCancelled, answer>>

(* AFM asks ctx before every batch; on XLA nobody asks. *)
TrainBatch ==
  /\ ~Parallelised /\ fitPhase = "epoch" /\ jobsLeft > 0
  /\ trainer = "afm" => ~fitCancelled
  /\ jobsLeft' = jobsLeft - 1
  /\ UNCHANGED <<trainer, patience, verbose, likes, epoch, half, working, weights,
                 scores, fitPhase, fitCancelled, answer>>

(* Between the halves of an epoch of ALS. *)
SwitchSides ==
  /\ trainer = "als" /\ fitPhase = "epoch" /\ half = 1
  /\ jobsLeft = 0 /\ Idle /\ ~fitCancelled
  /\ half' = 2
  /\ jobsLeft' = EpochJobs(2)
  /\ UNCHANGED <<trainer, patience, verbose, likes, epoch, working, weights, scores,
                 fitPhase, fitCancelled, answer>>

(* Parallel has returned ctx's error, or AFM saw it: Score{}. *)
Abort ==
  /\ fitPhase = "epoch" /\ fitCancelled /\ Idle
  /\ Parallelised \/ (trainer = "afm" /\ jobsLeft > 0)
  /\ fitPhase' = "ended"
  /\ answer' = 0
  /\ UNCHANGED <<trainer, patience, verbose, likes, epoch, half, jobsLeft, working,
                 weights, scores, fitCancelled>>

EpochTrained ==
  /\ fitPhase = "epoch" /\ jobsLeft = 0 /\ Idle
  /\ Parallelised => ~fitCancelled
  /\ trainer = "als" => half = 2
  /\ weights' = weights + 1
  /\ fitPhase' = "trained"
  /\ UNCHANGED <<trainer, patience, verbose, likes, epoch, half, jobsLeft, working,
                 scores, fitCancelled, answer>>

\* Mutant of Evaluates: the last epoch is evaluated only if its turn comes.
EvaluatesInTurn == epoch % verbose = 0

Evaluates == epoch % verbose = 0 \/ epoch = NEpochs

Beats(a, b) == a # NaN /\ b # NaN /\ a > b

(* lo.MaxBy: the first evaluation that no other beats. *)
Best(s) ==
  CHOOSE k \in DOMAIN s : /\ \A m \in DOMAIN s : ~Beats(s[m].value, s[k].value)
                          /\ \A m \in 1 .. k - 1 : Beats(s[k].value, s[m].value)

Diverged(s) == trainer = "afm" /\ s[Len(s)].value = NaN
EarlyStop(s) ==
  /\ patience > 0 /\ epoch > patience
  /\ s[Best(s)].epoch <= epoch - patience

(* The next turn of the loop, or its end with the last score. *)
Proceed(s, stop) ==
  IF stop \/ epoch = NEpochs
  THEN /\ fitPhase' = "ended"
       /\ answer' = Len(s)
       /\ UNCHANGED <<epoch, half, jobsLeft>>
  ELSE /\ fitPhase' = "epoch"
       /\ epoch' = epoch + 1
       /\ half' = 1
       /\ jobsLeft' = EpochJobs(1)
       /\ UNCHANGED answer

EvaluateEpoch ==
  /\ fitPhase = "trained" /\ Evaluates
  /\ \E v \in Evaluations :
       /\ scores' = Scored(v)
       /\ Proceed(Scored(v), Diverged(Scored(v)) \/ EarlyStop(Scored(v)))
  /\ UNCHANGED <<trainer, patience, verbose, likes, working, weights, fitCancelled>>

SkipEvaluation ==
  /\ fitPhase = "trained" /\ ~Evaluates
  /\ Proceed(scores, FALSE)
  /\ UNCHANGED <<trainer, patience, verbose, likes, working, weights, scores, fitCancelled>>

TrainerStep(w) == TakeJob(w) \/ UpdatePair(w) \/ UpdateFactor(w)

FitNext ==
  \/ CancelFit \/ TrainBatch \/ SwitchSides \/ Abort \/ EpochTrained
  \/ EvaluateEpoch \/ SkipEvaluation
  \/ \E w \in Workers : TrainerStep(w)

(* Goroutines run; random draws hit an unseen item if there is one. *)
FitFairness ==
  /\ WF_fitVars(TrainBatch \/ SwitchSides \/ Abort \/ EpochTrained
                \/ EvaluateEpoch \/ SkipEvaluation)
  /\ \A w \in Workers : WF_fitVars(TrainerStep(w))

FitSpec == FitInit /\ [][FitNext]_fitVars /\ FitFairness

-----------------------------------------------------------------------------
(* The score Fit returns, by which models are compared and published, was   *)
(* measured on the very weights it leaves behind, unless it is the empty    *)
(* score of a cancelled call.                                               *)
ScoreIsOfModel ==
  Ended => \/ answer = 0 /\ fitCancelled
           \/ answer > 0 /\ scores[answer].weights = weights

(* An evaluation improves if it beats all before it.  Training goes on past *)
(* an evaluation exactly as long as one of the last patience epochs          *)
(* improved, and ends before its last epoch for no other reason than         *)
(* cancellation and divergence.                                             *)
Improves(k) == \A m \in 1 .. k - 1 : Beats(scores[k].value, scores[m].value)
Flat(k) ==
  /\ patience > 0 /\ scores[k].epoch > patience
  /\ \A m \in 1 .. k : scores[m].epoch > scores[k].epoch - patience => ~Improves(m)
StopsWhenFlat ==
  /\ \A k \in 1 .. Len(scores) - 1 : ~Flat(k)
  /\ Ended /\ answer > 0 /\ epoch < NEpochs
       => Flat(Len(scores)) \/ Diverged(scores)

(* Both: Fit returns what it promises of the model it leaves behind. *)
FitKeepsBest == ScoreIsOfModel /\ StopsWhenFlat

(* Fit ends, cancelled or not, as long as every user BPR may draw misses an *)
(* item.                                                                    *)
Drawable == \A u \in Users : likes[u] # Items
FitEnds == Drawable ~> Ended
=============================================================================
