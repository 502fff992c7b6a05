------------------------------- MODULE Splits -------------------------------
(***************************************************************************)
(* Splitting a data set into a training and a test set: SplitCF and        *)
(* SplitLatest (dataset/dataset.go) for collaborative filtering, Split and *)
(* SplitByUserTime (model/ctr/data.go) for click-through rates, and the    *)
(* negative samples a test set draws once and keeps (SampleUserNegatives). *)
(*                                                                         *)
(* A sample is a pair <<user, position in the user's history>>; ratios are *)
(* tenths.                                                                 *)
(***************************************************************************)
EXTENDS Integers, Sequences, SequencesExt, FiniteSetsExt

CONSTANTS NUsers, Items,
          Times,
          MaxHistory,   \* bound: feedback of one user
          Ratios, Shots,
          MaxCandidates

VARIABLES history,      \* userFeedback and timestamps of the whole data set
          trainSet, testSet,
          splitBy,      \* the split done and its argument, <<>> before
          negatives     \* of the test set, by user; <<>> before they are drawn

splitVars == <<history, trainSet, testSet, splitBy, negatives>>

Users == 1 .. NUsers
All == {p \in Users \X (1 .. MaxHistory) : p[2] <= Len(history[p[1]])}
ItemOf(p) == history[p[1]][p[2]].item
TimeOf(p) == history[p[1]][p[2]].time

(* userFeedback (positions), itemFeedback and numFeedback of a new Dataset. *)
Empty == [users |-> [u \in Users |-> <<>>], items |-> [i \in Items |-> <<>>], count |-> 0]
Put(d, p) ==
  [users |-> [d.users EXCEPT ![p[1]] = Append(@, p[2])],
   items |-> [d.items EXCEPT ![ItemOf(p)] = Append(@, p[1])],
   count |-> d.count + 1]
PutAll(d, ps) == FoldLeft(Put, d, ps)
Positions(u) == [k \in 1 .. Len(history[u]) |-> <<u, k>>]

SplitsInit ==
  /\ history \in [Users -> UNION {[1 .. n -> [item : Items, time : Times]] : n \in 0 .. MaxHistory}]
  /\ \A u \in Users : \A j, k \in DOMAIN history[u] : j # k => history[u][j].item # history[u][k].item
  /\ trainSet = Empty
  /\ testSet = Empty
  /\ splitBy = <<>>
  /\ negatives = <<>>

(* Leave one out: drawn[u] is the position of the test sample of u. *)
LeaveOneOut(us, drawn) ==
  LET Kept(u) == SelectSeq(Positions(u), LAMBDA p : p[2] # drawn[u])
      With == {u \in us : history[u] # <<>>}
      order == SetToSortSeq(With, <)
  IN <<FlattenSeq([k \in DOMAIN order |-> Kept(order[k])]),
       [k \in DOMAIN order |-> <<order[k], drawn[order[k]]>>]>>

(* The users that are not test users. *)
Others(us) == Users \ us

(* numTestUsers out of range: every user is a test user. *)
SplitCF(n) ==
  /\ splitBy = <<>>
  /\ \E us \in IF n >= NUsers \/ n <= 0 THEN {Users} ELSE {x \in SUBSET Users : Cardinality(x) = n} :
     \E drawn \in {d \in [Users -> 1 .. Max({1} \cup {Len(history[u]) : u \in Users})] :
                     \A u \in Users : d[u] <= Max({1, Len(history[u])})} :
       LET s == LeaveOneOut(us, drawn)
           rest == SetToSortSeq(IF us = Users THEN {} ELSE Others(us), <)
       IN /\ testSet' = PutAll(Empty, s[2])
          /\ trainSet' = PutAll(Empty, s[1] \o FlattenSeq([k \in DOMAIN rest |-> Positions(rest[k])]))
  /\ splitBy' = <<"SplitCF", n>>
  /\ UNCHANGED <<history, negatives>>

(* The orders sort.Slice may leave a user's positions in, which is not stable. *)
Sorted(u, Before(_, _)) ==
  {s \in SetToSeqs({p \in All : p[1] = u}) :
     \A j, k \in DOMAIN s : j < k => ~Before(s[k], s[j])}

Newer(p, q) == TimeOf(p) > TimeOf(q)
Older(p, q) == TimeOf(p) < TimeOf(q)

SplitLatest(shots) ==
  /\ splitBy = <<>>
  /\ \E order \in {f \in [Users -> UNION {Sorted(u, Newer) : u \in Users}] :
                     \A u \in Users : f[u] \in Sorted(u, Newer)} :
       LET Test(u) == SubSeq(order[u], 1, Min({1, Len(order[u])}))
           Train(u) == SubSeq(order[u], 2, Min({shots + 1, Len(order[u])}))
           Each(Part(_)) == FlattenSeq([u \in Users |-> Part(u)])
       IN /\ testSet' = PutAll(Empty, Each(Test))
          /\ trainSet' = PutAll(Empty, Each(Train))
  /\ splitBy' = <<"SplitLatest", shots>>
  /\ UNCHANGED <<history, negatives>>

(* Split: a random sample of the whole. *)
Split(ratio) ==
  /\ splitBy = <<>>
  /\ \E sampled \in {s \in SUBSET All : Cardinality(s) = (Cardinality(All) * ratio) \div 10} :
       LET order == FlattenSeq([u \in Users |-> Positions(u)])
           Sampled(p) == p \in sampled
           Left(p) == p \notin sampled
       IN /\ testSet' = PutAll(Empty, SelectSeq(order, Sampled))
          /\ trainSet' = PutAll(Empty, SelectSeq(order, Left))
  /\ splitBy' = <<"Split", ratio>>
  /\ UNCHANGED <<history, negatives>>

NumTest(n, ratio) ==
  LET t == (n * ratio) \div 10
      t1 == IF t = 0 /\ n > 1 THEN 1 ELSE t
  IN IF t1 >= n THEN n - 1 ELSE t1

SplitByUserTime(ratio) ==
  /\ splitBy = <<>>
  /\ \E order \in {f \in [Users -> UNION {Sorted(u, Older) : u \in Users}] :
                     \A u \in Users : f[u] \in Sorted(u, Older)} :
       LET n(u) == Len(order[u])
           at(u) == IF n(u) = 0 THEN 0 ELSE n(u) - NumTest(n(u), ratio)
           Test(u) == SubSeq(order[u], at(u) + 1, n(u))
           Train(u) == SubSeq(order[u], 1, at(u))
           Each(Part(_)) == FlattenSeq([u \in Users |-> Part(u)])
       IN /\ testSet' = PutAll(Empty, Each(Test))
          /\ trainSet' = PutAll(Empty, Each(Train))
  /\ splitBy' = <<"SplitByUserTime", ratio>>
  /\ UNCHANGED <<history, negatives>>

Given(d, u) == {ItemOf(<<u, k>>) : k \in ToSet(d.users[u])}

Excluded(u) == Given(testSet, u) \cup Given(trainSet, u)

(* SampleInt32: n of the items not excluded, all of them if there are no more. *)
Samples(n, excluded) ==
  LET rest == Items \ excluded
  IN IF n >= Cardinality(rest) THEN {rest} ELSE {s \in SUBSET rest : Cardinality(s) = n}

SampleUserNegatives(n) ==
  /\ splitBy # <<>> /\ splitBy[1] \in {"SplitCF", "SplitLatest"} /\ negatives = <<>>
  /\ negatives' \in {f \in [Users -> SUBSET Items] : \A u \in Users : f[u] \in Samples(n, Excluded(u))}
  /\ UNCHANGED <<history, trainSet, testSet, splitBy>>

SplitsNext ==
  \/ \E n \in 0 .. NUsers : SplitCF(n)
  \/ \E s \in Shots : SplitLatest(s)
  \/ \E r \in Ratios : Split(r) \/ SplitByUserTime(r)
  \/ \E n \in 1 .. MaxCandidates : SampleUserNegatives(n)
SplitsSpec == SplitsInit /\ [][SplitsNext]_splitVars

-----------------------------------------------------------------------------
Taken(d) == {p \in All : p[2] \in ToSet(d.users[p[1]])}
Entries(d, i, u) == Cardinality({k \in DOMAIN d.items[i] : d.items[i][k] = u})

(* A split neither loses nor repeats feedback, in either of its two         *)
(* indexes: a sample is in exactly one of the sets (with SplitLatest, what  *)
(* is older than the shots is in none), and the feedback of the items is    *)
(* that of the users.                                                       *)
SplitsPartition ==
  splitBy # <<>> =>
    /\ Taken(trainSet) \cap Taken(testSet) = {}
    /\ splitBy[1] # "SplitLatest" => Taken(trainSet) \cup Taken(testSet) = All
    /\ \A d \in {trainSet, testSet} :
         /\ d.count = Cardinality(Taken(d))
         /\ \A i \in Items, u \in Users :
              Entries(d, i, u) = Cardinality({p \in Taken(d) : p[1] = u /\ ItemOf(p) = i})

(* Nothing leaks from the future: with the splits by time no sample of a    *)
(* user's training set is later than one in the user's test set, a user     *)
(* with two samples or more has some in the test set, and with              *)
(* SplitByUserTime some in the training set.                                *)
TestIsLatest ==
  splitBy # <<>> /\ splitBy[1] \in {"SplitLatest", "SplitByUserTime"} =>
    \A u \in Users :
      /\ \A p \in Taken(trainSet), q \in Taken(testSet) :
           p[1] = u /\ q[1] = u => TimeOf(p) <= TimeOf(q)
      /\ Len(history[u]) > 1 =>
           /\ testSet.users[u] # <<>>
           /\ splitBy[1] = "SplitByUserTime" => trainSet.users[u] # <<>>
=============================================================================
