--------------------------- MODULE RecommendRefresh ---------------------------
(***************************************************************************)
(* How the cached recommendations of one user follow the user's feedback   *)
(* (worker/pipeline.go, server/rest.go, logics/recommend.go).              *)
(*                                                                         *)
(* A request for the REST server stores feedback in the data store and     *)
(* then the time in LastModifyUserTime.  The worker visits the user again  *)
(* and again: it compares that time with the time of the last refresh and, *)
(* if the cache is out of date, reads the feedback, computes new scores    *)
(* without the items the user has seen, adds them, deletes the older ones  *)
(* and records time and digest.  Every step is a call of a remote store    *)
(* and any of them may fail, or the worker may die after it.               *)
(*                                                                         *)
(* Users do not affect each other.  One worker visits the user, all clocks *)
(* agree, feedback is not dated in the future and replacement is off.      *)
(***************************************************************************)
EXTENDS Integers

CONSTANTS
    Items,         \* the items
    Positive,      \* items on which feedback is positive feedback
    Requests,      \* requests that the server handles at the same time
    CacheExpire,   \* Config.Recommend.CacheExpire
    RankerExpire,  \* Config.Recommend.Ranker.CacheExpire
    ActiveUserTTL, \* Config.Recommend.ActiveUserTTL, 0 for none
    EmptyFails,    \* AddScores refuses an empty list (the SQL stores do)
    Withdrawals,   \* feedback may be deleted, the model may lose the user
    MaxTime,       \* bound: the clock
    MaxConfig,     \* bound: versions of the configuration
    MaxFailures    \* bound: failures

ASSUME PositiveAssumption == Positive \subseteq Items
ASSUME ExpireAssumption == CacheExpire \in Nat /\ RankerExpire \in Nat
ASSUME ActiveUserTTLAssumption == ActiveUserTTL \in Nat
ASSUME FlagsAssumption == EmptyFails \in BOOLEAN /\ Withdrawals \in BOOLEAN
ASSUME MaxTimeAssumption == MaxTime \in Nat \ {0}
ASSUME MaxConfigAssumption == MaxConfig \in Nat \ {0}
ASSUME MaxFailuresAssumption == MaxFailures \in Nat

VARIABLES
    now,         \* the clock
    cfg,         \* version of the worker's configuration
    feedback,    \* data store: items the user has feedback on
    acked,       \* ... of which a request has been answered with Ok
    hpc,         \* control point of each request
    hitems,      \* the feedback in each request
    htime,       \* the time that each request will store
    modified,    \* cache store: LastModifyUserTime, 0 when missing
    cache,       \* cache store: timestamp of each score, 0 when missing
    updateTime,  \* cache store: RecommendUpdateTime, 0 when missing
    digest,      \* cache store: RecommendDigest, 0 when missing
    pc,          \* control point of the worker's job
    rtime,       \* recommendTime of the job
    exclude,     \* excludeSet of the job's recommender
    rcfg,        \* configuration the recommender was created with
    results,     \* scores to be cached
    failures     \* failures so far

server == <<feedback, acked, hpc, hitems, htime, modified>>
stored == <<cache, updateTime, digest>>
job == <<pc, rtime, exclude, rcfg, results>>
vars == <<now, cfg, feedback, acked, hpc, hitems, htime, modified, cache,
          updateTime, digest, pc, rtime, exclude, rcfg, results, failures>>

Times == 0 .. MaxTime
Configs == 1 .. MaxConfig
Steps == {"idle", "check", "time", "read", "compute", "add", "delete", "set"}

Failure == failures < MaxFailures /\ failures' = failures + 1

Init ==
    /\ now = 1
    /\ cfg = 1
    /\ feedback = {} /\ acked = {}
    /\ hpc = [h \in Requests |-> "idle"]
    /\ hitems = [h \in Requests |-> {}]
    /\ htime = [h \in Requests |-> 0]
    /\ modified = 0
    /\ cache = [i \in Items |-> 0] /\ updateTime = 0 /\ digest = 0
    /\ pc = "idle" /\ rtime = 0 /\ exclude = {} /\ rcfg = 1 /\ results = {}
    /\ failures = 0

-----------------------------------------------------------------------------
(* The REST server.                                                        *)

\* insertFeedback stores the feedback; no item stands for a request that
\* changes the user itself.
InsertFeedback(h) ==
    /\ hpc[h] = "idle"
    /\ now < MaxTime
    /\ \E S \in SUBSET Items :
          /\ feedback' = feedback \cup S
          /\ hitems' = [hitems EXCEPT ![h] = S]
    /\ hpc' = [hpc EXCEPT ![h] = "stamp"]
    /\ UNCHANGED <<now, cfg, acked, htime, modified, stored, job, failures>>

\* The values to be set are made with time.Now().
Stamp(h) ==
    /\ hpc[h] = "stamp"
    /\ htime' = [htime EXCEPT ![h] = now]
    /\ hpc' = [hpc EXCEPT ![h] = "set"]
    /\ UNCHANGED <<now, cfg, feedback, acked, hitems, modified, stored, job,
                   failures>>

\* LastModifyUserTime is overwritten; when that fails the client is told.
SetModified(h) ==
    /\ hpc[h] = "set"
    /\ \/ /\ modified' = htime[h]
          /\ acked' = acked \cup (hitems[h] \cap feedback)
          /\ UNCHANGED failures
       \/ /\ Failure
          /\ UNCHANGED <<modified, acked>>
    /\ hpc' = [hpc EXCEPT ![h] = "idle"]
    /\ UNCHANGED <<now, cfg, feedback, hitems, htime, stored, job>>

\* deleteUserItemFeedback leaves LastModifyUserTime alone.
DeleteFeedback(i) ==
    /\ Withdrawals
    /\ i \in feedback
    /\ feedback' = feedback \ {i}
    /\ acked' = acked \ {i}
    /\ UNCHANGED <<now, cfg, hpc, hitems, htime, modified, stored, job,
                   failures>>

-----------------------------------------------------------------------------
(* The worker's job for the user.                                          *)

Leave == pc' = "idle"

Inactive ==
    /\ ActiveUserTTL > 0
    /\ modified # 0
    /\ now - modified >= ActiveUserTTL

\* checkUserActiveTime of a user who has been away: empty the cache.
DropInactive ==
    /\ pc = "idle"
    /\ Inactive
    /\ cache' = [i \in Items |-> 0]
    /\ UNCHANGED <<now, cfg, server, updateTime, digest, job, failures>>

\* A time that cannot be read counts as active.
CheckActive ==
    /\ pc = "idle"
    /\ \/ ~Inactive /\ UNCHANGED failures
       \/ Inactive /\ Failure
    /\ pc' = "check"
    /\ UNCHANGED <<now, cfg, server, stored, rtime, exclude, rcfg, results>>

\* checkRecommendCacheOutOfDate.  Of what it reads, only LastModifyUserTime is
\* written by others, and it is read once.
Stale ==
    \/ \A i \in Items : cache[i] = 0
    \/ digest # cfg
    \/ updateTime < now - CacheExpire
    \/ modified >= updateTime
    \/ updateTime + RankerExpire < now

\* A cache that cannot be read counts as out of date.
CheckOutOfDate ==
    /\ pc = "check"
    /\ \/ pc' = (IF Stale THEN "time" ELSE "idle") /\ UNCHANGED failures
       \/ pc' = "time" /\ Failure
    /\ UNCHANGED <<now, cfg, server, stored, rtime, exclude, rcfg, results>>

\* recommendTime := time.Now()
TakeTime ==
    /\ pc = "time"
    /\ rtime' = now
    /\ pc' = "read"
    /\ UNCHANGED <<now, cfg, server, stored, exclude, rcfg, results, failures>>

\* Mutant of ReadFeedback: the time is taken after the feedback was read.
ReadFeedbackFirst ==
    /\ pc = "read"
    /\ \/ /\ exclude' = feedback
          /\ UNCHANGED <<pc, rtime>>
       \/ /\ rtime' = now
          /\ pc' = "compute"
          /\ UNCHANGED exclude
    /\ rcfg' = cfg
    /\ UNCHANGED <<now, cfg, server, stored, results, failures>>

\* NewRecommender, with a copy of the configuration.
ReadFeedback ==
    /\ pc = "read"
    /\ exclude' = feedback
    /\ rcfg' = cfg
    /\ pc' = "compute"
    /\ UNCHANGED <<now, cfg, server, stored, rtime, results, failures>>

\* IsColdStart, or the model knows nothing of the user: nothing is cached.
SkipUser ==
    /\ pc = "compute"
    /\ exclude \cap Positive = {} \/ Withdrawals
    /\ Leave
    /\ UNCHANGED <<now, cfg, server, stored, rtime, exclude, rcfg, results,
                   failures>>

\* The recommenders return some items that are not excluded; they are ranked.
Compute ==
    /\ pc = "compute"
    /\ exclude \cap Positive # {}
    /\ results' \in SUBSET (Items \ exclude)
    /\ pc' = "add"
    /\ UNCHANGED <<now, cfg, server, stored, rtime, exclude, rcfg, failures>>

AddScores ==
    /\ pc = "add"
    /\ \/ /\ results = {} /\ EmptyFails
          /\ Leave
          /\ UNCHANGED cache
       \/ /\ results # {} \/ ~EmptyFails
          /\ cache' = [i \in Items |-> IF i \in results THEN rtime ELSE cache[i]]
          /\ pc' = "delete"
    /\ UNCHANGED <<now, cfg, server, updateTime, digest, rtime, exclude, rcfg,
                   results, failures>>

\* Mutant of DeleteScores: the older scores stay.
DeleteNothing ==
    /\ pc = "delete"
    /\ pc' = "set"
    /\ UNCHANGED <<now, cfg, server, stored, rtime, exclude, rcfg, results,
                   failures>>

DeleteScores ==
    /\ pc = "delete"
    /\ cache' = [i \in Items |-> IF cache[i] < rtime THEN 0 ELSE cache[i]]
    /\ pc' = "set"
    /\ UNCHANGED <<now, cfg, server, updateTime, digest, rtime, exclude, rcfg,
                   results, failures>>

\* The digest is that of an older configuration when one of the lists that
\* were combined is.
SetUpdateTime ==
    /\ pc = "set"
    /\ updateTime' = rtime
    /\ digest' \in 0 .. rcfg
    /\ Leave
    /\ UNCHANGED <<now, cfg, server, cache, rtime, exclude, rcfg, results,
                   failures>>

\* A call fails and the job returns, or the worker dies.
Abort ==
    /\ pc # "idle"
    /\ Failure
    /\ Leave
    /\ UNCHANGED <<now, cfg, server, stored, rtime, exclude, rcfg, results>>

-----------------------------------------------------------------------------

Tick ==
    /\ now < MaxTime
    /\ now' = now + 1
    /\ UNCHANGED <<cfg, server, stored, job, failures>>

\* Sync replaces the configuration, also in the middle of a job.
Reconfigure ==
    /\ cfg < MaxConfig
    /\ cfg' = cfg + 1
    /\ UNCHANGED <<now, server, stored, job, failures>>

JobStep ==
    \/ DropInactive
    \/ CheckActive
    \/ CheckOutOfDate
    \/ TakeTime
    \/ ReadFeedback
    \/ SkipUser
    \/ Compute
    \/ AddScores
    \/ DeleteScores
    \/ SetUpdateTime

Next ==
    \/ JobStep
    \/ Abort
    \/ Tick
    \/ Reconfigure
    \/ \E h \in Requests : InsertFeedback(h) \/ Stamp(h) \/ SetModified(h)
    \/ \E i \in Items : DeleteFeedback(i)

(***************************************************************************)
(* The worker visits its users on every tick, time passes, and the server  *)
(* answers the requests it has taken.  No request is promised.             *)
(***************************************************************************)
Fairness ==
    /\ WF_vars(JobStep)
    /\ WF_vars(Tick)
    /\ \A h \in Requests : WF_vars(Stamp(h) \/ SetModified(h))

Spec == Init /\ [][Next]_vars
FairSpec == Spec /\ Fairness

-----------------------------------------------------------------------------
(* Properties                                                              *)

TypeOK ==
    /\ now \in Times
    /\ cfg \in Configs
    /\ feedback \subseteq Items /\ acked \subseteq feedback
    /\ hpc \in [Requests -> {"idle", "stamp", "set"}]
    /\ hitems \in [Requests -> SUBSET Items]
    /\ htime \in [Requests -> Times]
    /\ modified \in Times
    /\ cache \in [Items -> Times]
    /\ updateTime \in Times
    /\ digest \in Configs \cup {0}
    /\ pc \in Steps
    /\ rtime \in Times
    /\ exclude \subseteq Items
    /\ rcfg \in Configs
    /\ results \subseteq Items
    /\ failures \in 0 .. MaxFailures

(***************************************************************************)
(* While checkRecommendCacheOutOfDate takes the cache for up to date, it   *)
(* holds no item the user gave acknowledged feedback on, wherever a job    *)
(* failed and however requests and jobs overlap: feedback that a job did   *)
(* not see always makes the cache stale.                                   *)
(***************************************************************************)
FreshMeansSeen ==
    ~Stale => \A i \in acked : cache[i] = 0

(***************************************************************************)
(* Items with acknowledged feedback leave the cache: the worker finds the  *)
(* cache out of date, and a refresh that fails is tried again.             *)
(***************************************************************************)
FeedbackReflected ==
    (\E i \in acked : cache[i] # 0) ~> (\A i \in acked : cache[i] = 0)

=============================================================================
