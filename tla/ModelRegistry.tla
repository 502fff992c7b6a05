----------------------------- MODULE ModelRegistry ----------------------------
(***************************************************************************)
(* What the master promises its workers about models: an abstract          *)
(* specification that ModelLifecycle implements and WorkerSync builds on.  *)
(*                                                                         *)
(* The id that GetMeta returns only ever moves to a model whose parts are  *)
(* readable, and nothing takes the parts of an advertised model away, nor  *)
(* those of a model that a restart would advertise.                        *)
(***************************************************************************)
EXTENDS Integers

CONSTANTS
    MaxId,   \* bound: model ids
    UseCTR   \* the ranker is "fm": click-through rate models are trained

ASSUME MaxIdAssumption == MaxId \in Nat
ASSUME UseCTRAssumption == UseCTR \in BOOLEAN

VARIABLES
    last,        \* the newest id in use
    blobs,       \* ids whose blob can be read
    colls,       \* ids whose collection can be queried
    cf,          \* the collaborative filtering id GetMeta returns
    ctr,         \* the click-through rate id GetMeta returns
    cfDurable,   \* the ids that a restart would advertise
    ctrDurable,
    up           \* the master answers

registryVars == <<last, blobs, colls, cf, ctr, cfDurable, ctrDurable, up>>

Ids == 1 .. MaxId
IdsOrNone == 0 .. MaxId
InUse == {cf, ctr, cfDurable, ctrDurable}

Init ==
    /\ last = 0
    /\ blobs = {} /\ colls = {}
    /\ cf = 0 /\ ctr = 0 /\ cfDurable = 0 /\ ctrDurable = 0
    /\ up = TRUE

-----------------------------------------------------------------------------

NewId ==
    /\ up
    /\ last < MaxId
    /\ last' = last + 1
    /\ UNCHANGED <<blobs, colls, cf, ctr, cfDurable, ctrDurable, up>>

AddCollection ==
    /\ up
    /\ last \in Ids
    /\ colls' = colls \cup {last}
    /\ UNCHANGED <<last, blobs, cf, ctr, cfDurable, ctrDurable, up>>

AddBlob ==
    /\ up
    /\ last \in Ids
    /\ blobs' = blobs \cup {last}
    /\ UNCHANGED <<last, colls, cf, ctr, cfDurable, ctrDurable, up>>

RecordCF ==
    /\ up
    /\ last \in blobs \cap colls
    /\ cfDurable' = last
    /\ UNCHANGED <<last, blobs, colls, cf, ctr, ctrDurable, up>>

\* Mutant of AdvertiseCF: the id is advertised before it is stored.
AdvertiseCFEarly ==
    /\ up
    /\ last \in blobs \cap colls
    /\ cf' = last
    /\ UNCHANGED <<last, blobs, colls, ctr, cfDurable, ctrDurable, up>>

AdvertiseCF ==
    /\ up
    /\ cf' = cfDurable
    /\ UNCHANGED <<last, blobs, colls, ctr, cfDurable, ctrDurable, up>>

AdvertiseCTR ==
    /\ up
    /\ UseCTR
    /\ last \in blobs \ colls
    /\ ctr' = last
    /\ UNCHANGED <<last, blobs, colls, cf, cfDurable, ctrDurable, up>>

RecordCTR ==
    /\ up
    /\ ctrDurable' = ctr
    /\ UNCHANGED <<last, blobs, colls, cf, ctr, cfDurable, up>>

RemoveBlob(i) ==
    /\ up
    /\ i \notin InUse
    /\ blobs' = blobs \ {i}
    /\ UNCHANGED <<last, colls, cf, ctr, cfDurable, ctrDurable, up>>

RemoveCollection(i) ==
    /\ up
    /\ i \notin InUse
    /\ colls' = colls \ {i}
    /\ UNCHANGED <<last, blobs, cf, ctr, cfDurable, ctrDurable, up>>

GoDown ==
    /\ up' = FALSE
    /\ cf' = 0 /\ ctr' = 0
    /\ UNCHANGED <<last, blobs, colls, cfDurable, ctrDurable>>

ComeUp ==
    /\ ~up
    /\ up' = TRUE
    /\ cf' = cfDurable
    /\ ctr' = ctrDurable
    /\ UNCHANGED <<last, blobs, colls, cfDurable, ctrDurable>>

Next ==
    \/ NewId
    \/ AddCollection
    \/ AddBlob
    \/ RecordCF
    \/ AdvertiseCF
    \/ AdvertiseCTR
    \/ RecordCTR
    \/ \E i \in Ids : RemoveBlob(i) \/ RemoveCollection(i)
    \/ GoDown
    \/ ComeUp

Spec == Init /\ [][Next]_registryVars

=============================================================================
