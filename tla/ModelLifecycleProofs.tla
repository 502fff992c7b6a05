------------------------ MODULE ModelLifecycleProofs --------------------------
(***************************************************************************)
(* Proofs about the publication of models, for every bound on ids and on   *)
(* failures, every data set and every set of failures that the theorems    *)
(* allow.                                                                  *)
(***************************************************************************)
EXTENDS ModelLifecycle, FiniteSetTheorems, TLAPS

-----------------------------------------------------------------------------
(* What both arguments need.                                               *)

\* An id above the clock has not been used in any store.
Fresh ==
    \A i \in Ids : i > clock => blob[i] = "absent" /\ coll[i] = "absent"

\* The work list of removeOutOfDateModels is empty outside of it.
WorkList ==
    /\ pc # "visit" => todo = {} /\ cur = 0
    /\ pc \notin {"visit", "loose"} => loose = {}

\* The model being published owns an id, and the task of a step is known.
Publishing ==
    /\ id <= clock
    /\ pc \in {"index", "create", "write", "put", "install"}
          => id = clock /\ id # 0
    /\ pc = "index" => task = "cf"

BaseInv == TypeOK /\ Fresh /\ WorkList /\ Publishing

\* Every step of the master preserves the types of its variables.
LEMMA TypeStep == TypeOK /\ [Next]_vars => TypeOK'
<1> SUFFICES ASSUME TypeOK, [Next]_vars PROVE TypeOK'
  OBVIOUS
<1> USE MaxIdAssumption, CountsAssumption, MaxFaultsAssumption
    DEF TypeOK, Ids, IdsOrNone, Steps, Fault, Leave, Goto, stores, memory,
        counts, gc
<1>1. CASE LoadDataset BY <1>1 DEF LoadDataset
<1>2. CASE LoadDatasetFails BY <1>2 DEF LoadDatasetFails
<1>3. CASE Skip BY <1>3 DEF Skip
<1>4. CASE FitCF BY <1>4 DEF FitCF, MayFit
<1>5. CASE FitCTR BY <1>5 DEF FitCTR, MayFit
<1>6. CASE IndexCF BY <1>6 DEF IndexCF
<1>7. CASE CreateBlob BY <1>7 DEF CreateBlob
<1>8. CASE WriteBlob BY <1>8 DEF WriteBlob, AfterUpload
<1>9. CASE MarshalFails BY <1>9 DEF MarshalFails
<1>10. CASE WriteFails BY <1>10 DEF WriteFails, AfterUpload
<1>11. CASE PutCF BY <1>11 DEF PutCF
<1>12. CASE InstallCF BY <1>12 DEF InstallCF
<1>13. CASE InstallCTR BY <1>13 DEF InstallCTR
<1>14. CASE PutCTR BY <1>14 DEF PutCTR
<1>15. CASE Stats BY <1>15 DEF Stats
<1>16. CASE Plan
  <2>1. Files \subseteq Ids /\ Collections \subseteq Ids
    BY DEF Files, Collections
  <2>2. todo' \subseteq Ids /\ loose' \subseteq Ids
    BY <1>16, <2>1 DEF Plan
  <2>3. QED BY <1>16, <2>2 DEF Plan
<1>17. ASSUME NEW i \in Ids, VisitBlob(i) PROVE TypeOK'
  <2>1. todo' \subseteq Ids /\ loose' \subseteq Ids
    BY <1>17 DEF VisitBlob
  <2>2. cur' \in IdsOrNone BY <1>17 DEF VisitBlob
  <2>3. blob' \in [Ids -> {"absent", "partial", "complete"}]
    BY <1>17 DEF VisitBlob
  <2>4. faults' \in Nat BY <1>17 DEF VisitBlob
  <2>5. QED BY <1>17, <2>1, <2>2, <2>3, <2>4 DEF VisitBlob
<1>18. CASE VisitCollection BY <1>18 DEF VisitCollection
<1>19. CASE EndVisit BY <1>19 DEF EndVisit
<1>20. ASSUME NEW i \in Ids, RemoveLoose(i) PROVE TypeOK'
  BY <1>20 DEF RemoveLoose
<1>21. CASE EndLoose BY <1>21 DEF EndLoose
<1>22. CASE Crash BY <1>22 DEF Crash
<1>23. CASE Restart BY <1>23 DEF Restart
<1>24. CASE Hung BY <1>24 DEF Hung, vars
<1>25. CASE UNCHANGED vars BY <1>25 DEF vars
<1>26. QED
  BY <1>1, <1>2, <1>3, <1>4, <1>5, <1>6, <1>7, <1>8, <1>9, <1>10, <1>11,
     <1>12, <1>13, <1>14, <1>15, <1>16, <1>17, <1>18, <1>19, <1>20, <1>21,
     <1>22, <1>23, <1>24, <1>25
  DEF Next, Round, Publish, Retire

(***************************************************************************)
(* The master's variables keep their types along every behaviour, with any *)
(* failures.                                                               *)
(***************************************************************************)
THEOREM TypeCorrect == Spec => []TypeOK
<1>1. Init => TypeOK
  BY MaxIdAssumption DEF Init, TypeOK, Ids, IdsOrNone, Steps
<1>2. TypeOK /\ [Next]_vars => TypeOK'
  BY TypeStep
<1>3. QED
  BY <1>1, <1>2, PTL DEF Spec

\* No step uses an id twice, and the work list is emptied before it is left.
LEMMA BaseStep == BaseInv /\ [Next]_vars => BaseInv'
<1> SUFFICES ASSUME BaseInv, [Next]_vars, TypeOK'
             PROVE  (Fresh /\ WorkList /\ Publishing)'
  BY TypeStep DEF BaseInv
<1> USE MaxIdAssumption
    DEF BaseInv, TypeOK, Ids, IdsOrNone, Steps, Fault, Leave, Goto, stores,
        memory, counts, gc, Fresh, WorkList, Publishing
<1>1. CASE LoadDataset BY <1>1 DEF LoadDataset
<1>2. CASE LoadDatasetFails BY <1>2 DEF LoadDatasetFails
<1>3. CASE Skip BY <1>3 DEF Skip
<1>4. CASE FitCF BY <1>4 DEF FitCF, MayFit
<1>5. CASE FitCTR BY <1>5 DEF FitCTR, MayFit
<1>6. CASE IndexCF BY <1>6 DEF IndexCF
<1>7. CASE CreateBlob BY <1>7 DEF CreateBlob
<1>8. CASE WriteBlob BY <1>8 DEF WriteBlob, AfterUpload
<1>9. CASE MarshalFails BY <1>9 DEF MarshalFails
<1>10. CASE WriteFails BY <1>10 DEF WriteFails, AfterUpload
<1>11. CASE PutCF BY <1>11 DEF PutCF
<1>12. CASE InstallCF BY <1>12 DEF InstallCF
<1>13. CASE InstallCTR BY <1>13 DEF InstallCTR
<1>14. CASE PutCTR BY <1>14 DEF PutCTR
<1>15. CASE Stats BY <1>15 DEF Stats
<1>16. CASE Plan BY <1>16 DEF Plan
<1>17. ASSUME NEW i \in Ids, VisitBlob(i) PROVE (Fresh /\ WorkList /\ Publishing)'
  BY <1>17 DEF VisitBlob
<1>18. CASE VisitCollection BY <1>18 DEF VisitCollection
<1>19. CASE EndVisit BY <1>19 DEF EndVisit
<1>20. ASSUME NEW i \in Ids, RemoveLoose(i) PROVE (Fresh /\ WorkList /\ Publishing)'
  BY <1>20 DEF RemoveLoose
<1>21. CASE EndLoose BY <1>21 DEF EndLoose
<1>22. CASE Crash BY <1>22 DEF Crash
<1>23. CASE Restart BY <1>23 DEF Restart
<1>24. CASE Hung BY <1>24 DEF Hung, vars
<1>25. CASE UNCHANGED vars BY <1>25 DEF vars
<1>26. QED
  BY <1>1, <1>2, <1>3, <1>4, <1>5, <1>6, <1>7, <1>8, <1>9, <1>10, <1>11, <1>12, <1>13, <1>14, <1>15, <1>16, <1>17, <1>18, <1>19, <1>20, <1>21, <1>22, <1>23, <1>24, <1>25
  DEF Next, Round, Publish, Retire

-----------------------------------------------------------------------------
(* The collaborative filtering model.                                      *)

ServableCF(i) == blob[i] # "absent" /\ coll[i] = "ready"

(***************************************************************************)
(* AdvertisedCF is not inductive: a restart copies the stored id to memory *)
(* and InstallCF the new one, so both must be servable before; the stored  *)
(* id survives removeOutOfDateModels because it is the one in memory,      *)
(* which Keep contains.                                                    *)
(***************************************************************************)
StoredCF == cfStored <= clock /\ (cfStored # 0 => ServableCF(cfStored))

PublishingCF ==
    task = "cf" =>
        /\ pc \in {"create", "write", "put", "install"} => coll[id] = "ready"
        /\ pc \in {"write", "put", "install"} => blob[id] # "absent"
        /\ pc = "install" => cfStored = id

MemoryCF ==
    pc # "down" /\ ~(pc = "install" /\ task = "cf") => cfMeta = cfStored

RetireSparesCF ==
    cfMeta \notin todo /\ cfMeta \notin loose /\ (cur # 0 => cur # cfMeta)

CFInv ==
    /\ BaseInv
    /\ AdvertisedCF
    /\ StoredCF
    /\ PublishingCF
    /\ MemoryCF
    /\ RetireSparesCF

\* Every step preserves the invariant of the collaborative filtering model.
LEMMA CFStep ==
    ASSUME "get" \notin Faults
    PROVE  CFInv /\ [Next]_vars => CFInv'
<1> DEFINE New == AdvertisedCF /\ StoredCF /\ PublishingCF /\ MemoryCF
                  /\ RetireSparesCF
<1> SUFFICES ASSUME CFInv, [Next]_vars, BaseInv' PROVE New'
  BY BaseStep DEF CFInv
<1> USE MaxIdAssumption
    DEF CFInv, BaseInv, TypeOK, Ids, IdsOrNone, Steps, Fault, Leave, Goto,
        stores, memory, counts, gc, Fresh, WorkList, Publishing, ServableCF,
        AdvertisedCF, StoredCF, PublishingCF, MemoryCF, RetireSparesCF
<1>1. CASE LoadDataset BY <1>1 DEF LoadDataset
<1>2. CASE LoadDatasetFails BY <1>2 DEF LoadDatasetFails
<1>3. CASE Skip BY <1>3 DEF Skip
<1>4. CASE FitCF BY <1>4 DEF FitCF, MayFit
<1>5. CASE FitCTR BY <1>5 DEF FitCTR, MayFit
<1>6. CASE IndexCF BY <1>6 DEF IndexCF
<1>7. CASE CreateBlob BY <1>7 DEF CreateBlob
<1>8. CASE WriteBlob BY <1>8 DEF WriteBlob, AfterUpload
<1>9. CASE MarshalFails BY <1>9 DEF MarshalFails
<1>10. CASE WriteFails BY <1>10 DEF WriteFails, AfterUpload
<1>11. CASE PutCF BY <1>11 DEF PutCF
<1>12. CASE InstallCF BY <1>12 DEF InstallCF
<1>13. CASE InstallCTR BY <1>13 DEF InstallCTR
<1>14. CASE PutCTR BY <1>14 DEF PutCTR
<1>15. CASE Stats BY <1>15 DEF Stats
<1>16. CASE Plan BY <1>16 DEF Plan, Keep
<1>17. ASSUME NEW i \in Ids, VisitBlob(i) PROVE New'
  BY <1>17 DEF VisitBlob
<1>18. CASE VisitCollection BY <1>18 DEF VisitCollection
<1>19. CASE EndVisit BY <1>19 DEF EndVisit
<1>20. ASSUME NEW i \in Ids, RemoveLoose(i) PROVE New'
  BY <1>20 DEF RemoveLoose
<1>21. CASE EndLoose BY <1>21 DEF EndLoose
<1>22. CASE Crash BY <1>22 DEF Crash
<1>23. CASE Restart BY <1>23 DEF Restart
<1>24. CASE Hung BY <1>24 DEF Hung, vars
<1>25. CASE UNCHANGED vars BY <1>25 DEF vars
<1>26. QED
  BY <1>1, <1>2, <1>3, <1>4, <1>5, <1>6, <1>7, <1>8, <1>9, <1>10, <1>11, <1>12, <1>13, <1>14, <1>15, <1>16, <1>17, <1>18, <1>19, <1>20, <1>21, <1>22, <1>23, <1>24, <1>25
  DEF Next, Round, Publish, Retire

(***************************************************************************)
(* Whatever fails and wherever the master dies, the collaborative          *)
(* filtering model that GetMeta advertises has its blob and a complete     *)
(* collection, provided the meta store can be read at start-up.            *)
(***************************************************************************)
THEOREM AdvertisedCFAlways ==
    ASSUME "get" \notin Faults
    PROVE  Spec => []AdvertisedCF
<1>1. Init => CFInv
  BY MaxIdAssumption
  DEF Init, CFInv, BaseInv, TypeOK, Ids, IdsOrNone, Steps, Fresh, WorkList,
      Publishing, AdvertisedCF, StoredCF, PublishingCF, MemoryCF,
      RetireSparesCF
<1>2. CFInv /\ [Next]_vars => CFInv'
  BY CFStep
<1>3. CFInv => AdvertisedCF
  BY DEF CFInv
<1>4. QED
  BY <1>1, <1>2, <1>3, PTL DEF Spec

-----------------------------------------------------------------------------
(* The click-through rate model.                                           *)

\* The blob exists, and no collection has the same id: the first loop of
\* removeOutOfDateModels visits ids of collections.
ServableCTR(i) == blob[i] # "absent" /\ coll[i] = "absent"

StoredCTR ==
    /\ ctrStored <= clock /\ ctrMeta <= clock
    /\ ctrStored # 0 => ServableCTR(ctrStored)
    /\ ctrMeta # 0 => ServableCTR(ctrMeta)

PublishingCTR ==
    /\ pc = "index" => coll[id] = "building"
    /\ task = "ctr" =>
        /\ pc \in {"create", "write", "put", "install"} => coll[id] = "absent"
        /\ pc \in {"write", "put", "install"} => blob[id] # "absent"
        /\ pc = "put" => ctrMeta = id

(***************************************************************************)
(* The step that needs PutCTR to succeed: outside of the two writes, the   *)
(* id in memory is the stored one, or 0 when it could not be loaded, and   *)
(* then the timestamp of removeOutOfDateModels is 0 too.                   *)
(***************************************************************************)
MemoryCTR ==
    pc # "down" /\ ~(pc = "put" /\ task = "ctr") => ctrMeta \in {0, ctrStored}

RetireSparesCTR ==
    /\ ctrMeta \notin todo /\ ctrMeta \notin loose
    /\ ctrStored \notin todo /\ ctrStored \notin loose
    /\ cur # 0 => cur # ctrMeta /\ cur # ctrStored

CTRInv ==
    /\ BaseInv
    /\ StoredCTR
    /\ PublishingCTR
    /\ MemoryCTR
    /\ RetireSparesCTR

\* Every step preserves the invariant of the click-through rate model.
LEMMA CTRStep ==
    ASSUME "ctrPut" \notin Faults
    PROVE  CTRInv /\ [Next]_vars => CTRInv'
<1> DEFINE New == StoredCTR /\ PublishingCTR /\ MemoryCTR /\ RetireSparesCTR
<1> SUFFICES ASSUME CTRInv, [Next]_vars, BaseInv' PROVE New'
  BY BaseStep DEF CTRInv
<1> USE MaxIdAssumption
    DEF CTRInv, BaseInv, TypeOK, Ids, IdsOrNone, Steps, Fault, Leave, Goto,
        stores, memory, counts, gc, Fresh, WorkList, Publishing, ServableCTR,
        StoredCTR, PublishingCTR, MemoryCTR, RetireSparesCTR
<1>1. CASE LoadDataset BY <1>1 DEF LoadDataset
<1>2. CASE LoadDatasetFails BY <1>2 DEF LoadDatasetFails
<1>3. CASE Skip BY <1>3 DEF Skip
<1>4. CASE FitCF BY <1>4 DEF FitCF, MayFit
<1>5. CASE FitCTR BY <1>5 DEF FitCTR, MayFit
<1>6. CASE IndexCF BY <1>6 DEF IndexCF
<1>7. CASE CreateBlob BY <1>7 DEF CreateBlob
<1>8. CASE WriteBlob BY <1>8 DEF WriteBlob, AfterUpload
<1>9. CASE MarshalFails BY <1>9 DEF MarshalFails
<1>10. CASE WriteFails BY <1>10 DEF WriteFails, AfterUpload
<1>11. CASE PutCF BY <1>11 DEF PutCF
<1>12. CASE InstallCF BY <1>12 DEF InstallCF
<1>13. CASE InstallCTR BY <1>13 DEF InstallCTR
<1>14. CASE PutCTR BY <1>14 DEF PutCTR
<1>15. CASE Stats BY <1>15 DEF Stats
<1>16. CASE Plan BY <1>16 DEF Plan, Timestamp, Files, Collections
<1>17. ASSUME NEW i \in Ids, VisitBlob(i) PROVE New'
  BY <1>17 DEF VisitBlob
<1>18. CASE VisitCollection BY <1>18 DEF VisitCollection
<1>19. CASE EndVisit BY <1>19 DEF EndVisit
<1>20. ASSUME NEW i \in Ids, RemoveLoose(i) PROVE New'
  BY <1>20 DEF RemoveLoose
<1>21. CASE EndLoose BY <1>21 DEF EndLoose
<1>22. CASE Crash BY <1>22 DEF Crash
<1>23. CASE Restart BY <1>23 DEF Restart
<1>24. CASE Hung BY <1>24 DEF Hung, vars
<1>25. CASE UNCHANGED vars BY <1>25 DEF vars
<1>26. QED
  BY <1>1, <1>2, <1>3, <1>4, <1>5, <1>6, <1>7, <1>8, <1>9, <1>10, <1>11, <1>12, <1>13, <1>14, <1>15, <1>16, <1>17, <1>18, <1>19, <1>20, <1>21, <1>22, <1>23, <1>24, <1>25
  DEF Next, Round, Publish, Retire

(***************************************************************************)
(* Whatever else fails and wherever the master dies, the click-through     *)
(* rate model that GetMeta advertises has its blob, provided its id can be *)
(* written to the meta store.                                              *)
(***************************************************************************)
THEOREM AdvertisedCTRAlways ==
    ASSUME "ctrPut" \notin Faults
    PROVE  Spec => []AdvertisedCTR
<1>1. Init => CTRInv
  BY MaxIdAssumption
  DEF Init, CTRInv, BaseInv, TypeOK, Ids, IdsOrNone, Steps, Fresh, WorkList,
      Publishing, StoredCTR, PublishingCTR, MemoryCTR, RetireSparesCTR
<1>2. CTRInv /\ [Next]_vars => CTRInv'
  BY CTRStep
<1>3. CTRInv => AdvertisedCTR
  BY DEF CTRInv, StoredCTR, AdvertisedCTR, ServableCTR
<1>4. QED
  BY <1>1, <1>2, <1>3, PTL DEF Spec

-----------------------------------------------------------------------------
(* The collections that removeOutOfDateModels leaves.                      *)

\* The n newest of a finite set of ids are at most n: the number of newer ones
\* tells any two of them apart.
LEMMA NewestBounded ==
    ASSUME NEW S \in SUBSET Int, IsFiniteSet(S), NEW n \in Nat
    PROVE  IsFiniteSet(Newest(S, n)) /\ Cardinality(Newest(S, n)) <= n
<1> DEFINE above(i) == {j \in S : j > i}
           N == Newest(S, n)
           f == [i \in N |-> Cardinality(above(i))]
<1>1. \A i \in S : IsFiniteSet(above(i)) /\ Cardinality(above(i)) \in Nat
  <2>1. \A i \in S : above(i) \in SUBSET S
    OBVIOUS
  <2>2. QED
    BY <2>1, FS_Subset, FS_CardinalityType
<1>2. N \in SUBSET S /\ \A i \in N : Cardinality(above(i)) < n
  BY DEF Newest
<1>3. f \in [N -> 0 .. n - 1]
  <2>1. \A i \in N : Cardinality(above(i)) \in Nat /\ Cardinality(above(i)) < n
    BY <1>1, <1>2
  <2> HIDE DEF N, above
  <2>2. \A i \in N : Cardinality(above(i)) \in 0 .. n - 1
    BY <2>1
  <2>3. QED
    BY <2>2
<1>4. ASSUME NEW i \in S, NEW k \in S, i < k PROVE Cardinality(above(k)) < Cardinality(above(i))
  <2>0. i \in Int /\ k \in Int /\ S \subseteq Int
    OBVIOUS
  <2>1. k \in above(i) /\ k \notin above(k) /\ \A j \in above(k) : j \in above(i)
    BY <1>4, <2>0
  <2>2. /\ Cardinality(above(k)) <= Cardinality(above(i))
        /\ Cardinality(above(k)) # Cardinality(above(i))
    <3> HIDE DEF above
    <3>1. above(k) \in SUBSET above(i) /\ above(k) # above(i)
      BY <2>1
    <3>2. QED
      BY <1>1, <3>1, FS_Subset
  <2>3. QED
    BY <1>1, <2>2
<1>5. ASSUME NEW i \in N, NEW k \in N, f[i] = f[k] PROVE i = k
  <2>1. i \in S /\ k \in S /\ Cardinality(above(i)) = Cardinality(above(k))
    BY <1>2, <1>5
  <2>2. Cardinality(above(i)) \in Nat /\ ~(i < k) /\ ~(k < i)
    BY <1>1, <1>4, <2>1
  <2>3. QED
    BY <2>1, <2>2
<1>6. f \in Injection(N, 0 .. n - 1)
  BY <1>3, <1>5 DEF Injection, IsInjective
<1>7. IsFiniteSet(0 .. n - 1) /\ Cardinality(0 .. n - 1) = n
  BY FS_Interval
<1>8. QED
  BY <1>6, <1>7, FS_Injection

\* The first loop leaves the collections of Keep and those that it failed on.
Left == Collections \ (todo \cup {cur})

LeftInv ==
    BaseInv /\ (pc \in {"visit", "loose"} => Cardinality(Left) <= 3 + faults)

\* A part of the ids has a size.
LEMMA IdsFinite ==
    ASSUME NEW A \in SUBSET Ids PROVE IsFiniteSet(A) /\ Cardinality(A) \in Nat
<1>1. IsFiniteSet(Ids)
  BY MaxIdAssumption, FS_Interval DEF Ids
<1>2. QED
  BY <1>1, FS_Subset, FS_CardinalityType

\* Keep holds the model in memory and the two newest complete ones.
LEMMA KeepBounded == TypeOK => IsFiniteSet(Keep) /\ Cardinality(Keep) <= 3
<1> SUFFICES ASSUME TypeOK PROVE IsFiniteSet(Keep) /\ Cardinality(Keep) <= 3
  OBVIOUS
<1>1. Complete \in SUBSET Ids
  BY DEF Complete, Files, Collections
<1>2. Complete \in SUBSET Int /\ IsFiniteSet(Complete)
  BY <1>1, IdsFinite, MaxIdAssumption DEF Ids
<1>3. IsFiniteSet(Newest(Complete, 2)) /\ Cardinality(Newest(Complete, 2)) <= 2
  BY <1>2, NewestBounded
<1>4. Keep = Newest(Complete, 2) \cup {cfMeta}
  BY DEF Keep
<1>5. Cardinality(Newest(Complete, 2)) \in Nat
  BY <1>3, FS_CardinalityType
<1>6. QED
  BY <1>3, <1>4, <1>5, FS_AddElement

\* One more element adds at most one to the size of a finite set.
LEMMA OneMore ==
    ASSUME NEW A, IsFiniteSet(A), NEW x
    PROVE  IsFiniteSet(A \cup {x}) /\ Cardinality(A \cup {x}) <= Cardinality(A) + 1
<1>1. Cardinality(A) \in Nat
  BY FS_CardinalityType
<1>2. IsFiniteSet(A \cup {x})
  BY FS_AddElement
<1>3. \/ Cardinality(A \cup {x}) = Cardinality(A)
      \/ Cardinality(A \cup {x}) = Cardinality(A) + 1
  BY FS_AddElement
<1>4. QED
  BY <1>1, <1>2, <1>3

\* What is left grows only with a failure.
LEMMA LeftStep == LeftInv /\ [Next]_vars => LeftInv'
<1> SUFFICES ASSUME LeftInv, [Next]_vars, BaseInv', (pc \in {"visit", "loose"})'
             PROVE  Cardinality(Left') <= 3 + faults'
  BY BaseStep DEF LeftInv
<1>0. /\ TypeOK /\ TypeOK' /\ WorkList /\ faults \in Nat /\ faults' \in Nat
      /\ Left \in SUBSET Ids /\ Left' \in SUBSET Ids
  BY DEF LeftInv, BaseInv, TypeOK, Left, Collections
<1>1. IsFiniteSet(Left) /\ Cardinality(Left) \in Nat /\ IsFiniteSet(Left') /\ Cardinality(Left') \in Nat
  BY <1>0, IdsFinite
<1>2. ASSUME Cardinality(Left) <= 3 + faults, Left' \subseteq Left, faults' >= faults
      PROVE  Cardinality(Left') <= 3 + faults'
  <2>1. Cardinality(Left') <= Cardinality(Left)
    BY <1>1, <1>2, FS_Subset
  <2>2. QED
    BY <1>0, <1>1, <1>2, <2>1
<1>3. ASSUME Cardinality(Left) <= 3 + faults, NEW x, Left' \subseteq Left \cup {x}, faults' = faults + 1
      PROVE  Cardinality(Left') <= 3 + faults'
  <2>1. IsFiniteSet(Left \cup {x}) /\ Cardinality(Left \cup {x}) <= Cardinality(Left) + 1
    BY <1>1, OneMore
  <2>2. Cardinality(Left \cup {x}) \in Nat
    BY <2>1, FS_CardinalityType
  <2>3. Cardinality(Left') <= Cardinality(Left \cup {x})
    BY <1>3, <2>1, FS_Subset
  <2>4. QED
    BY <1>0, <1>1, <1>3, <2>1, <2>2, <2>3
<1>4. CASE Plan
  <2>1. todo' = Collections \ Keep /\ coll' = coll /\ faults' = faults
    BY <1>4 DEF Plan, Goto, Leave, stores
  <2>2. Left' \in SUBSET Keep
    BY <2>1 DEF Left, Collections
  <2>3. IsFiniteSet(Keep) /\ Cardinality(Keep) <= 3
    BY <1>0, KeepBounded
  <2>4. Cardinality(Keep) \in Nat /\ Cardinality(Left') <= Cardinality(Keep)
    BY <2>2, <2>3, FS_CardinalityType, FS_Subset
  <2>5. QED
    BY <1>0, <1>1, <2>1, <2>3, <2>4
<1>5. ASSUME NEW i \in Ids, VisitBlob(i) PROVE Cardinality(Left') <= 3 + faults'
  <2>1. /\ pc = "visit" /\ cur = 0 /\ i \in todo /\ todo' = todo \ {i} /\ coll' = coll
        /\ Cardinality(Left) <= 3 + faults
    BY <1>5 DEF VisitBlob, LeftInv
  <2>2. CASE cur' = i /\ UNCHANGED faults
    <3>1. Left' \subseteq Left
      BY <1>0, <2>1, <2>2 DEF Left, Collections, Ids
    <3>2. QED
      BY <1>0, <1>2, <2>1, <2>2, <3>1
  <2>3. CASE cur' = cur /\ faults' = faults + 1
    <3>1. Left' \subseteq Left \cup {i}
      BY <2>1, <2>3 DEF Left, Collections
    <3>2. QED
      BY <1>3, <2>1, <2>3, <3>1
  <2>4. QED
    BY <1>5, <2>2, <2>3 DEF VisitBlob, Fault
<1>6. CASE VisitCollection
  <2>1. /\ pc = "visit" /\ cur # 0 /\ cur' = 0 /\ todo' = todo
        /\ Cardinality(Left) <= 3 + faults
    BY <1>6 DEF VisitCollection, LeftInv
  <2>2. CASE coll' = [coll EXCEPT ![cur] = "absent"] /\ UNCHANGED faults
    <3>1. Left' \subseteq Left
      BY <1>0, <2>1, <2>2 DEF Left, Collections, TypeOK
    <3>2. QED
      BY <1>0, <1>2, <2>1, <2>2, <3>1
  <2>3. CASE coll' = coll /\ faults' = faults + 1
    <3>1. Left' \subseteq Left \cup {cur}
      BY <2>1, <2>3 DEF Left, Collections
    <3>2. QED
      BY <1>3, <2>1, <2>3, <3>1
  <2>4. QED
    BY <1>6, <2>2, <2>3 DEF VisitCollection, Fault
<1>7. ASSUME pc \in {"visit", "loose"}, UNCHANGED <<coll, todo, cur>>, faults' >= faults
      PROVE  Cardinality(Left') <= 3 + faults'
  <2>1. Left' = Left
    BY <1>7 DEF Left, Collections
  <2>2. QED
    BY <1>2, <1>7, <2>1 DEF LeftInv
<1>8. CASE EndVisit
  BY <1>0, <1>7, <1>8 DEF EndVisit, Goto, stores, gc
<1>9. ASSUME NEW i \in Ids, RemoveLoose(i) PROVE Cardinality(Left') <= 3 + faults'
  BY <1>0, <1>7, <1>9 DEF RemoveLoose, Fault
<1>10. CASE UNCHANGED vars \/ Hung
  BY <1>0, <1>7, <1>10 DEF Hung, vars
<1>11. QED
  BY <1>4, <1>5, <1>6, <1>8, <1>9, <1>10
  DEF Next, Round, Publish, Retire, LoadDataset, LoadDatasetFails, Skip, FitCF, FitCTR,
      MayFit, IndexCF, CreateBlob, WriteBlob, MarshalFails, WriteFails, AfterUpload, PutCF,
      InstallCF, InstallCTR, PutCTR, Stats, EndLoose, Crash, Restart, Leave, Goto

(***************************************************************************)
(* Whatever fails, and however many models were published, when the first  *)
(* loop of removeOutOfDateModels is over no more than three collections    *)
(* are left, and one for each failure since the master was installed.      *)
(***************************************************************************)
THEOREM CollectionsBoundedAlways == Spec => []CollectionsBounded
<1>1. Init => LeftInv
  BY MaxIdAssumption
  DEF Init, LeftInv, BaseInv, TypeOK, Ids, IdsOrNone, Steps, Fresh, WorkList, Publishing
<1>2. LeftInv => CollectionsBounded
  <2> SUFFICES ASSUME LeftInv, pc = "loose" PROVE Cardinality(Collections) <= 3 + faults
    BY DEF CollectionsBounded
  <2>1. todo = {} /\ cur = 0
    BY DEF LeftInv, BaseInv, WorkList
  <2>2. Left = Collections
    BY <2>1 DEF Left, Collections, Ids
  <2>3. QED
    BY <2>2 DEF LeftInv
<1>3. QED
  BY <1>1, <1>2, LeftStep, PTL DEF Spec

-----------------------------------------------------------------------------
(* ModelLifecycle implements ModelRegistry, without the three failures     *)
(* that break the promise.                                                 *)

\* The failures under which the registry is implemented.
Benign == {"get", "ctrPut", "write"} \cap Faults = {}

\* The blob of the model in flight: empty until it is written, then complete.
InFlightBlob ==
    /\ pc \in {"index", "create"} => blob[id] = "absent"
    /\ pc = "write" => blob[id] = "partial"
    /\ pc \in {"put", "install"} => blob[id] = "complete"

RegistryInv == CFInv /\ CTRInv /\ InFlightBlob

\* A model is announced only after its blob has been written to the end.
LEMMA InFlightStep ==
    ASSUME Benign
    PROVE  BaseInv /\ InFlightBlob /\ [Next]_vars => InFlightBlob'
<1> SUFFICES ASSUME BaseInv, InFlightBlob, [Next]_vars PROVE InFlightBlob'
  OBVIOUS
<1> USE MaxIdAssumption
    DEF BaseInv, TypeOK, Ids, IdsOrNone, Steps, Fault, Leave, Goto, stores,
        memory, counts, gc, Fresh, Publishing, InFlightBlob, Benign
<1>1. CASE LoadDataset BY <1>1 DEF LoadDataset
<1>2. CASE LoadDatasetFails BY <1>2 DEF LoadDatasetFails
<1>3. CASE Skip BY <1>3 DEF Skip
<1>4. CASE FitCF BY <1>4 DEF FitCF, MayFit
<1>5. CASE FitCTR BY <1>5 DEF FitCTR, MayFit
<1>6. CASE IndexCF BY <1>6 DEF IndexCF
<1>7. CASE CreateBlob BY <1>7 DEF CreateBlob
<1>8. CASE WriteBlob BY <1>8 DEF WriteBlob, AfterUpload
<1>9. CASE MarshalFails BY <1>9 DEF MarshalFails
<1>10. CASE WriteFails BY <1>10 DEF WriteFails, AfterUpload
<1>11. CASE PutCF BY <1>11 DEF PutCF
<1>12. CASE InstallCF BY <1>12 DEF InstallCF
<1>13. CASE InstallCTR BY <1>13 DEF InstallCTR
<1>14. CASE PutCTR BY <1>14 DEF PutCTR
<1>15. CASE Stats BY <1>15 DEF Stats
<1>16. CASE Plan BY <1>16 DEF Plan
<1>17. ASSUME NEW i \in Ids, VisitBlob(i) PROVE InFlightBlob'
  BY <1>17 DEF VisitBlob
<1>18. CASE VisitCollection BY <1>18 DEF VisitCollection
<1>19. CASE EndVisit BY <1>19 DEF EndVisit
<1>20. ASSUME NEW i \in Ids, RemoveLoose(i) PROVE InFlightBlob'
  BY <1>20 DEF RemoveLoose
<1>21. CASE EndLoose BY <1>21 DEF EndLoose
<1>22. CASE Crash BY <1>22 DEF Crash
<1>23. CASE Restart BY <1>23 DEF Restart
<1>24. CASE Hung BY <1>24 DEF Hung, vars
<1>25. CASE UNCHANGED vars BY <1>25 DEF vars
<1>26. QED
  BY <1>1, <1>2, <1>3, <1>4, <1>5, <1>6, <1>7, <1>8, <1>9, <1>10, <1>11, <1>12, <1>13, <1>14, <1>15, <1>16, <1>17, <1>18, <1>19, <1>20, <1>21, <1>22, <1>23, <1>24, <1>25
  DEF Next, Round, Publish, Retire

\* The invariants of both models and of the blob in flight hold together.
LEMMA RegistryInvStep ==
    ASSUME Benign
    PROVE  RegistryInv /\ [Next]_vars => RegistryInv'
<1>1. "get" \notin Faults /\ "ctrPut" \notin Faults
  BY DEF Benign
<1>2. QED
  BY <1>1, CFStep, CTRStep, InFlightStep DEF RegistryInv, CFInv

-----------------------------------------------------------------------------
(* The refinement mapping, named for the proof.                            *)

blobsBar == {i \in Ids : blob[i] = "complete"}
collsBar == {i \in Ids : coll[i] = "ready"}

\* One step of the master is one step of the registry, or none.
LEMMA StepRefines ==
    ASSUME Benign, RegistryInv, [Next]_vars
    PROVE  [Registry!Next]_(Registry!registryVars)
<1> USE MaxIdAssumption
    DEF RegistryInv, CFInv, CTRInv, BaseInv, TypeOK, Ids, IdsOrNone, Steps,
        Fault, Leave, Goto, stores, memory, counts, gc, Benign,
        Registry!registryVars, Registry!Ids, Registry!Next
<1> DEFINE Goal == [Registry!Next]_(Registry!registryVars)
<1>1. CASE LoadDataset BY <1>1 DEF LoadDataset
<1>2. CASE LoadDatasetFails BY <1>2 DEF LoadDatasetFails
<1>3. CASE Skip BY <1>3 DEF Skip
<1>4. CASE FitCF
  <2>1. collsBar' = collsBar /\ blobsBar' = blobsBar
    BY <1>4 DEF FitCF, MayFit, collsBar, blobsBar, Fresh
  <2>2. Registry!NewId
    BY <1>4, <2>1 DEF FitCF, MayFit, collsBar, blobsBar, Registry!NewId
  <2>3. QED BY <2>2
<1>5. CASE FitCTR
  <2>1. Registry!NewId
    BY <1>5 DEF FitCTR, MayFit, Registry!NewId
  <2>2. QED BY <2>1
<1>6. CASE IndexCF
  <2>1. CASE coll' = coll
    BY <1>6, <2>1 DEF IndexCF
  <2>2. CASE coll' = [coll EXCEPT ![id] = "ready"]
    <3>1. collsBar' = collsBar \cup {clock} /\ clock \in Ids
      BY <1>6, <2>2 DEF IndexCF, Publishing, collsBar
    <3>2. Registry!AddCollection
      BY <1>6, <3>1 DEF IndexCF, collsBar, Registry!AddCollection
    <3>3. QED BY <3>2
  <2>3. QED BY <1>6, <2>1, <2>2 DEF IndexCF
<1>7. CASE CreateBlob
  <2>1. blobsBar' = blobsBar
    BY <1>7 DEF CreateBlob, Publishing, InFlightBlob, blobsBar
  <2>2. QED BY <1>7, <2>1 DEF CreateBlob, blobsBar
<1>8. CASE WriteBlob
  <2>1. blobsBar' = blobsBar \cup {clock} /\ clock \in Ids
    BY <1>8 DEF WriteBlob, Publishing, blobsBar
  <2>2. pc # "down" /\ pc' # "down"
    BY <1>8 DEF WriteBlob, AfterUpload
  <2>3. Registry!AddBlob
    BY <1>8, <2>1, <2>2 DEF WriteBlob, blobsBar, Registry!AddBlob
  <2>4. QED BY <2>3
<1>9. CASE MarshalFails BY <1>9 DEF MarshalFails
<1>10. CASE WriteFails BY <1>10 DEF WriteFails
<1>11. CASE PutCF
  <2>1. CASE cfStored' = cfStored
    BY <1>11, <2>1 DEF PutCF
  <2>2. CASE cfStored' = id
    <3>1. id = clock /\ clock \in blobsBar /\ clock \in collsBar
      BY <1>11 DEF PutCF, Publishing, PublishingCF, InFlightBlob, blobsBar,
                   collsBar
    <3>2. pc # "down" /\ pc' # "down"
      BY <1>11 DEF PutCF
    <3>3. Registry!RecordCF
      BY <1>11, <2>2, <3>1, <3>2
      DEF PutCF, blobsBar, collsBar, Registry!RecordCF
    <3>4. QED BY <3>3
  <2>3. QED BY <1>11, <2>1, <2>2 DEF PutCF
<1>12. CASE InstallCF
  <2>1. Registry!AdvertiseCF
    BY <1>12 DEF InstallCF, PublishingCF, Registry!AdvertiseCF
  <2>2. QED BY <2>1
<1>13. CASE InstallCTR
  <2>1. id = clock /\ clock \in blobsBar /\ clock \notin collsBar
    BY <1>13 DEF InstallCTR, Publishing, PublishingCTR, InFlightBlob,
                 blobsBar, collsBar
  <2>2. Registry!AdvertiseCTR
    BY <1>13, <2>1 DEF InstallCTR, blobsBar, collsBar, Registry!AdvertiseCTR
  <2>3. QED BY <2>2
<1>14. CASE PutCTR
  <2>1. Registry!RecordCTR
    BY <1>14 DEF PutCTR, Registry!RecordCTR
  <2>2. QED BY <2>1
<1>15. CASE Stats BY <1>15 DEF Stats
<1>16. CASE Plan BY <1>16 DEF Plan
<1>17. ASSUME NEW i \in Ids, VisitBlob(i) PROVE Goal
  <2>1. CASE blob' = blob
    BY <1>17, <2>1 DEF VisitBlob
  <2>2. CASE blob' = [blob EXCEPT ![i] = "absent"]
    <3>1. i \notin {cfMeta, ctrMeta, cfStored, ctrStored}
      BY <1>17 DEF VisitBlob, MemoryCF, RetireSparesCF, RetireSparesCTR
    <3>2. blobsBar' = blobsBar \ {i}
      BY <2>2 DEF blobsBar
    <3>3. Registry!RemoveBlob(i)
      BY <1>17, <3>1, <3>2
      DEF VisitBlob, blobsBar, Registry!RemoveBlob, Registry!InUse
    <3>4. QED BY <3>3
  <2>3. QED BY <1>17, <2>1, <2>2 DEF VisitBlob
<1>18. CASE VisitCollection
  <2>1. CASE coll' = coll
    BY <1>18, <2>1 DEF VisitCollection
  <2>2. CASE coll' = [coll EXCEPT ![cur] = "absent"]
    <3>1. cur \in Ids /\ cur \notin {cfMeta, ctrMeta, cfStored, ctrStored}
      BY <1>18 DEF VisitCollection, MemoryCF, RetireSparesCF, RetireSparesCTR
    <3>2. PICK i \in Ids : i = cur
      BY <3>1
    <3>3. collsBar' = collsBar \ {i}
      BY <2>2, <3>2 DEF collsBar
    <3>4. Registry!RemoveCollection(i)
      BY <1>18, <3>1, <3>2, <3>3
      DEF VisitCollection, collsBar, Registry!RemoveCollection,
          Registry!InUse
    <3>5. QED BY <3>4
  <2>3. QED BY <1>18, <2>1, <2>2 DEF VisitCollection
<1>19. CASE EndVisit BY <1>19 DEF EndVisit
<1>20. ASSUME NEW i \in Ids, RemoveLoose(i) PROVE Goal
  <2>1. CASE blob' = blob
    BY <1>20, <2>1 DEF RemoveLoose
  <2>2. CASE blob' = [blob EXCEPT ![i] = "absent"]
    <3>1. i \notin {cfMeta, ctrMeta, cfStored, ctrStored}
      BY <1>20 DEF RemoveLoose, MemoryCF, RetireSparesCF, RetireSparesCTR
    <3>2. blobsBar' = blobsBar \ {i}
      BY <2>2 DEF blobsBar
    <3>3. Registry!RemoveBlob(i)
      BY <1>20, <3>1, <3>2
      DEF RemoveLoose, blobsBar, Registry!RemoveBlob, Registry!InUse
    <3>4. QED BY <3>3
  <2>3. QED BY <1>20, <2>1, <2>2 DEF RemoveLoose
<1>21. CASE EndLoose BY <1>21 DEF EndLoose
<1>22. CASE Crash
  <2>1. Registry!GoDown
    BY <1>22 DEF Crash, Registry!GoDown
  <2>2. QED BY <2>1
<1>23. CASE Restart
  <2>1. Registry!ComeUp
    BY <1>23 DEF Restart, Registry!ComeUp
  <2>2. QED BY <2>1
<1>24. CASE Hung BY <1>24 DEF Hung, vars
<1>25. CASE UNCHANGED vars BY <1>25 DEF vars
<1>26. QED
  BY <1>1, <1>2, <1>3, <1>4, <1>5, <1>6, <1>7, <1>8, <1>9, <1>10, <1>11,
     <1>12, <1>13, <1>14, <1>15, <1>16, <1>17, <1>18, <1>19, <1>20, <1>21,
     <1>22, <1>23, <1>24, <1>25
  DEF Next, Round, Publish, Retire

(***************************************************************************)
(* The master's three stores, with every failure but an unreadable meta    *)
(* store, a ctr id that cannot be stored and a silently truncated blob,    *)
(* implement the registry of models that the workers rely on.              *)
(***************************************************************************)
THEOREM LifecycleImplementsRegistry ==
    ASSUME Benign
    PROVE  Spec => ImplementsRegistry
<1>1. Init => RegistryInv
  BY MaxIdAssumption
  DEF Init, RegistryInv, CFInv, CTRInv, InFlightBlob, BaseInv, TypeOK, Ids,
      IdsOrNone, Steps, Fresh, WorkList, Publishing, AdvertisedCF, StoredCF,
      PublishingCF, MemoryCF, RetireSparesCF, StoredCTR, PublishingCTR,
      MemoryCTR, RetireSparesCTR
<1>2. RegistryInv /\ [Next]_vars => RegistryInv'
  BY RegistryInvStep
<1>3. Init => Registry!Init
  BY DEF Init, Registry!Init
<1>4. RegistryInv /\ [Next]_vars => [Registry!Next]_(Registry!registryVars)
  BY StepRefines
<1>5. QED
  BY <1>1, <1>2, <1>3, <1>4, PTL
  DEF Spec, ImplementsRegistry, Registry!Spec

=============================================================================
