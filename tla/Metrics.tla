------------------------------- MODULE Metrics -------------------------------
(***************************************************************************)
(* The evaluation of models.  Evaluate (model/cf/evaluator.go): the jobs   *)
(* of Parallel rank the candidates of one user each and add the metrics to *)
(* the sums of their worker, which are added up and divided by the number  *)
(* of users evaluated.  EvaluateClassification (model/ctr/evaluator.go):   *)
(* the AUC by one pass over the two sorted lists of predictions.           *)
(*                                                                         *)
(* Values are fractions <<n, d>>; 1/log2(i+2), the discount of rank i, is  *)
(* a table.                                                                *)
(***************************************************************************)
EXTENDS Integers, Sequences, SequencesExt, FiniteSetsExt

CONSTANTS NUsers, Items, Levels,   \* predictions are levels
          TopK, NJobs, Discounts,
          MaxPredictions

VARIABLES task,                    \* "rank" or "classify"
          targets, candidates, prediction, \* by user
          unranked, sums, counts, rankings, means,
          pos, neg, pPos, nPos, total, auc

metricVars == <<task, targets, candidates, prediction, unranked, sums, counts, rankings,
                means, pos, neg, pPos, nPos, total, auc>>

Users == 1 .. NUsers
Jobs == 1 .. NJobs
Undefined == <<>>
Plus(a, b) == <<a[1] * b[2] + b[1] * a[2], a[2] * b[2]>>
Same(a, b) == a[1] * b[2] = b[1] * a[2]
Zero == <<0, 1>>

(* Per metric: NDCG, Precision, Recall. *)
MetricNames == {"NDCG", "Precision", "Recall"}
Hits(target, list) == {k \in DOMAIN list : list[k] \in target}
Gain(S) == LET D(k) == Discounts[k] IN MapThenSumSet(D, S)
NDCG(target, list) ==
  <<Gain(Hits(target, list)), Gain(1 .. Min({Cardinality(target), Len(list)}))>>
Precision(target, list) == <<Cardinality(Hits(target, list)), Len(list)>>
Recall(target, list) == <<Cardinality(Hits(target, list)), Cardinality(target)>>
Measure(m, target, list) ==
  CASE m = "NDCG" -> NDCG(target, list)
    [] m = "Precision" -> Precision(target, list)
    [] m = "Recall" -> Recall(target, list)

MetricsInit ==
  /\ task \in {"rank", "classify"}
  /\ IF task = "rank"
     THEN /\ targets \in [Users -> SUBSET Items]
          /\ candidates \in {c \in [Users -> SUBSET Items] : \A u \in Users : targets[u] \subseteq c[u]}
          /\ prediction \in [Users -> [Items -> Levels]]
          /\ pos = <<>> /\ neg = <<>>
     ELSE /\ targets = [u \in Users |-> {}] /\ candidates = targets
          /\ prediction = [u \in Users |-> [i \in Items |-> 0]]
          /\ pos \in SeqOf(Levels, MaxPredictions)
          /\ neg \in SeqOf(Levels, MaxPredictions)
  /\ unranked = Users
  /\ sums = [w \in Jobs |-> [m \in MetricNames |-> Zero]]
  /\ counts = [w \in Jobs |-> 0]
  /\ rankings = [u \in Users |-> <<>>]
  /\ means = Undefined
  /\ pPos = 0 /\ nPos = 0 /\ total = 0
  /\ auc = Undefined

(* TopKFilter: above k elements the least is popped, ties in any order;    *)
(* PopAllValues lists them with decreasing weight.                         *)
Pushed(f, u, i) ==
  IF Cardinality(f) < TopK THEN {f \cup {i}}
  ELSE {(f \cup {i}) \ {x} : x \in {y \in f \cup {i} :
          \A z \in f \cup {i} : prediction[u][y] <= prediction[u][z]}}

\* Mutant of Filters: an element is refused once the filter is full.
FiltersFirst(u, order) == {ToSet(SubSeq(order, 1, Min({TopK, Len(order)})))}

(* The contents the filter may have after the candidates came in order. *)
Filters(u, order) ==
  LET Step(fs, i) == UNION {Pushed(f, u, i) : f \in fs} IN FoldLeft(Step, {{}}, order)

(* testSet's items first, then the negatives. *)
Candidates(u) == SetToSeq(targets[u]) \o SetToSeq(candidates[u] \ targets[u])
Rank(u) ==
  UNION {{s \in SetToSeqs(f) : \A j, k \in DOMAIN s :
            j < k => prediction[u][s[j]] >= prediction[u][s[k]]} : f \in Filters(u, Candidates(u))}

EvaluateUser(w, u) ==
  /\ task = "rank" /\ u \in unranked
  /\ unranked' = unranked \ {u}
  /\ IF targets[u] = {} THEN UNCHANGED <<sums, counts, rankings>>
     ELSE \E list \in Rank(u) :
            /\ rankings' = [rankings EXCEPT ![u] = list]
            /\ counts' = [counts EXCEPT ![w] = @ + 1]
            /\ sums' = [sums EXCEPT ![w] =
                 [m \in MetricNames |-> Plus(@[m], Measure(m, targets[u], list))]]
  /\ UNCHANGED <<task, targets, candidates, prediction, means, pos, neg, pPos, nPos, total, auc>>

Count == LET C(w) == counts[w] IN MapThenSumSet(C, Jobs)

Divisor == Count

(* With no user to evaluate the mean is NaN. *)
Mean ==
  /\ task = "rank" /\ unranked = {} /\ means = Undefined
  /\ means' = [m \in MetricNames |->
       LET Add(w, acc) == Plus(sums[w][m], acc)
           sum == FoldSet(Add, Zero, Jobs)
       IN <<sum[1], sum[2] * Divisor>>]
  /\ UNCHANGED <<task, targets, candidates, prediction, unranked, sums, counts, rankings,
                 pos, neg, pPos, nPos, total, auc>>

(* AUC. *)
SortPredictions ==
  /\ task = "classify" /\ pPos = 0
  /\ pos' = SortSeq(pos, <)
  /\ neg' = SortSeq(neg, <)
  /\ pPos' = 1
  /\ UNCHANGED <<task, targets, candidates, prediction, unranked, sums, counts, rankings,
                 means, nPos, total, auc>>

Advance(n, p) == n < Len(neg) /\ neg[n + 1] < p

NextPositive ==
  /\ pPos \in 1 .. Len(pos)
  /\ IF Advance(nPos, pos[pPos])
     THEN nPos' = nPos + 1 /\ UNCHANGED <<pPos, total>>
     ELSE total' = total + nPos /\ pPos' = pPos + 1 /\ UNCHANGED nPos
  /\ UNCHANGED <<task, targets, candidates, prediction, unranked, sums, counts, rankings,
                 means, pos, neg, auc>>

AUC ==
  /\ pPos > Len(pos) /\ pPos > 0 /\ auc = Undefined
  /\ auc' = IF Len(pos) * Len(neg) = 0 THEN Zero ELSE <<total, Len(pos) * Len(neg)>>
  /\ UNCHANGED <<task, targets, candidates, prediction, unranked, sums, counts, rankings,
                 means, pos, neg, pPos, nPos, total>>

MetricsNext ==
  \/ \E w \in Jobs, u \in Users : EvaluateUser(w, u)
  \/ Mean \/ SortPredictions \/ NextPositive \/ AUC
MetricsSpec == MetricsInit /\ [][MetricsNext]_metricVars

-----------------------------------------------------------------------------
(* The result does not depend on which worker evaluated which user: it is   *)
(* the mean over the users with test feedback of the metric of the list     *)
(* each of them was given.                                                  *)
MeansAreOfTestUsers ==
  means # Undefined =>
    LET E == {u \in Users : targets[u] # {}}
    IN \A m \in MetricNames :
         LET Add(u, acc) == Plus(Measure(m, targets[u], rankings[u]), acc)
             sum == FoldSet(Add, Zero, E)
         IN /\ (means[m][2] = 0) <=> (E = {})
            /\ E # {} => Same(means[m], <<sum[1], sum[2] * Cardinality(E)>>)

(* A ranking holds the best candidates in decreasing order: none that is    *)
(* left out is predicted higher than one that is listed, and the list is    *)
(* short only when there are no more candidates.                            *)
RankingIsBest ==
  \A u \in Users \ unranked :
    task = "rank" /\ targets[u] # {} =>
      LET list == rankings[u]
      IN /\ Len(list) = Min({TopK, Cardinality(candidates[u])})
         /\ IsInjective(list)
         /\ \A k \in DOMAIN list : \A i \in candidates[u] \ ToSet(SubSeq(list, 1, k)) :
              prediction[u][i] <= prediction[u][list[k]]

(* The AUC is the share of pairs of a positive and a negative sample in     *)
(* which the positive one is predicted higher.                              *)
AUCIsShareOfPairs ==
  auc # Undefined =>
    LET right == {p \in (DOMAIN pos) \X (DOMAIN neg) : neg[p[2]] < pos[p[1]]}
    IN auc[1] = Cardinality(right) /\ (auc[2] = Len(pos) * Len(neg) \/ auc = Zero)
=============================================================================
