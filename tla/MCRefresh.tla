------------------------------ MODULE MCRefresh ------------------------------
(***************************************************************************)
(* Model checking of the refresh of a user's recommendations: the instance *)
(* the configuration file gives, with withdrawn feedback and a store that  *)
(* refuses empty lists, and a second one in which both items get positive  *)
(* feedback, nothing is withdrawn and the store takes empty lists, so that *)
(* every refresh can succeed.  A behaviour is one of either instance; only *)
(* the second is fair.                                                     *)
(***************************************************************************)
EXTENDS RecommendRefresh

VARIABLE store  \* the cache store: "strict" refuses an empty list

\* Feedback stays, and a list may be emptied.
Lenient == INSTANCE RecommendRefresh
             WITH Positive <- Items, CacheExpire <- 1, EmptyFails <- FALSE,
                  Withdrawals <- FALSE, MaxConfig <- 1

MCInit ==
    \/ store = "strict" /\ Init
    \/ store = "lenient" /\ Lenient!Init

MCNext ==
    /\ UNCHANGED store
    /\ \/ store = "strict" /\ Next
       \/ store = "lenient" /\ Lenient!Next

\* The fairness of RecommendRefresh, for the second instance.
MCFairness ==
    /\ WF_vars(store = "lenient" /\ Lenient!JobStep)
    /\ WF_vars(store = "lenient" /\ Lenient!Tick)
    /\ \A h \in Requests : WF_vars(store = "lenient" /\ (Lenient!Stamp(h) \/ Lenient!SetModified(h)))

MCSpec == MCInit /\ [][MCNext]_<<vars, store>> /\ MCFairness

-----------------------------------------------------------------------------

\* Items with acknowledged feedback leave the cache
\* (checkRecommendCacheOutOfDate, updateRecommend).
FeedbackLeaves ==
    (store = "lenient" /\ \E i \in acked : cache[i] # 0) ~> (\A i \in acked : cache[i] = 0)
=============================================================================
