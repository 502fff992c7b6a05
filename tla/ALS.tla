-------------------------------- MODULE ALS --------------------------------
(***************************************************************************)
(* One epoch of ALS.Fit (model/cf/model.go).  First the jobs of Parallel   *)
(* solve for the factors of the users, one coordinate after the other,     *)
(* then for those of the items.  The Gram matrix s of the other side is    *)
(* computed before each half; every worker keeps the predictions and       *)
(* residuals of its job in buffers it never clears, written only at the    *)
(* feedback of the job's owner.                                            *)
(*                                                                         *)
(* Floating point numbers are modelled by the field of P elements: what is *)
(* checked are identities of fields.  A denominator is positive in the     *)
(* code; here it may be 0, and such a step does not happen.                *)
(***************************************************************************)
EXTENDS Integers, FiniteSetsExt

CONSTANTS P,        \* a prime
          Members,  \* [user |-> the users, item |-> the items]
          NFactors, Weight, Reg,
          Initial,  \* the vectors the factors may start with
          NJobs

VARIABLES pairs,    \* feedback: pairs of a user and an item
          side,     \* "user", then "item", then "done"
          factor,   \* UserFactor and ItemFactor
          gram,     \* s
          todo,     \* owners nobody took
          owner,    \* the owner each worker is solving for, 0 if none
          coord,    \* the coordinate it solves next
          predictions, residuals, \* the buffers of each worker
          solved    \* the coordinate each worker solved last, 0 if none

alsVars == <<pairs, side, factor, gram, todo, owner, coord, predictions, residuals, solved>>

Field == 0 .. P - 1
Coords == 1 .. NFactors
Jobs == 1 .. NJobs
Other(x) == IF x = "user" THEN "item" ELSE "user"
Reciprocal(x) == CHOOSE y \in Field : (x * y) % P = 1
Total(Term(_), S) == MapThenSumSet(Term, S) % P

(* GetUserFeedback and GetItemFeedback. *)
Feedback(x, o) ==
  {y \in Members[Other(x)] : (IF x = "user" THEN <<o, y>> ELSE <<y, o>>) \in pairs}
Active(x) == {o \in Members[x] : Feedback(x, o) # {}}

internalPredict(x, o, y) ==
  LET Term(k) == factor[x][o][k] * factor[Other(x)][y][k] IN Total(Term, Coords)

Gram(x, f) ==
  [i \in Coords |-> [j \in Coords |->
     LET Term(o) == f[x][o][i] * f[x][o][j] IN Total(Term, Active(x))]]

Buffers == [y \in Members["user"] \cup Members["item"] |-> 0]

ALSInit ==
  /\ pairs \in SUBSET (Members["user"] \X Members["item"])
  /\ factor \in [user : [Members["user"] -> Initial], item : [Members["item"] -> Initial]]
  /\ side = "user"
  /\ gram = Gram("item", factor)
  /\ todo = Members["user"]
  /\ owner = [w \in Jobs |-> 0]
  /\ coord = [w \in Jobs |-> 1]
  /\ predictions = [w \in Jobs |-> Buffers]
  /\ residuals = [w \in Jobs |-> Buffers]
  /\ solved = [w \in Jobs |-> 0]

Start(w) ==
  /\ side # "done" /\ owner[w] = 0
  /\ \E o \in todo :
       /\ todo' = todo \ {o}
       /\ owner' = [owner EXCEPT ![w] = o]
       /\ predictions' = [predictions EXCEPT ![w] = [y \in DOMAIN @ |->
            IF y \in Feedback(side, o) THEN internalPredict(side, o, y) ELSE @[y]]]
  /\ coord' = [coord EXCEPT ![w] = 1]
  /\ solved' = [solved EXCEPT ![w] = 0]
  /\ UNCHANGED <<pairs, side, factor, gram, residuals>>

(* The prediction without the coordinate being solved. *)
Residual(w, y) ==
  (predictions[w][y] - factor[side][owner[w]][coord[w]] * factor[Other(side)][y][coord[w]]) % P

(* p_uf <- (a - b) / (c + weight * s_ff + reg). *)
Solve(w) ==
  /\ owner[w] # 0 /\ coord[w] \in Coords
  /\ LET o == owner[w]
         f == coord[w]
         q(y) == factor[Other(side)][y][f]
         r(y) == Residual(w, y)
         A(y) == (1 - (1 - Weight) * r(y)) * q(y)
         B(k) == Weight * factor[side][o][k] * gram[k][f]
         C(y) == (1 - Weight) * q(y) * q(y)
         a == Total(A, Feedback(side, o))
         b == Total(B, Coords \ {f})
         d == (Total(C, Feedback(side, o)) + Weight * gram[f][f] + Reg) % P
         p == ((a - b) * Reciprocal(d)) % P
     IN /\ d # 0
        /\ factor' = [factor EXCEPT ![side][o][f] = p]
        /\ residuals' = [residuals EXCEPT ![w] = [y \in DOMAIN @ |->
             IF y \in Feedback(side, o) THEN r(y) ELSE @[y]]]
        /\ predictions' = [predictions EXCEPT ![w] = [y \in DOMAIN @ |->
             IF y \in Feedback(side, o) THEN (r(y) + p * q(y)) % P ELSE @[y]]]
  /\ coord' = [coord EXCEPT ![w] = @ + 1]
  /\ solved' = [solved EXCEPT ![w] = coord[w]]
  /\ UNCHANGED <<pairs, side, gram, todo, owner>>

Finish(w) ==
  /\ owner[w] # 0 /\ coord[w] > NFactors
  /\ owner' = [owner EXCEPT ![w] = 0]
  /\ UNCHANGED <<pairs, side, factor, gram, todo, coord, predictions, residuals, solved>>

Turn ==
  /\ side # "done" /\ todo = {} /\ \A w \in Jobs : owner[w] = 0
  /\ IF side = "user"
     THEN /\ side' = "item"
          /\ gram' = Gram("user", factor)
          /\ todo' = Members["item"]
     ELSE /\ side' = "done"
          /\ UNCHANGED <<gram, todo>>
  /\ solved' = [w \in Jobs |-> 0]
  /\ UNCHANGED <<pairs, factor, owner, coord, predictions, residuals>>

ALSNext == Turn \/ \E w \in Jobs : Start(w) \/ Solve(w) \/ Finish(w)
ALSSpec == ALSInit /\ [][ALSNext]_alsVars

-----------------------------------------------------------------------------
(* Every coordinate ALS has just solved minimises the loss in that          *)
(* coordinate: the derivative of                                            *)
(*   sum over feedback (1 - r)^2 + Weight * sum over the rest r^2            *)
(*   + Reg * |p|^2                                                          *)
(* is zero, the rest being the members with any feedback, whatever the      *)
(* other workers do meanwhile and whatever a buffer held before.            *)
Derivative(o, f) ==
  LET R == Feedback(side, o)
      q(y) == factor[Other(side)][y][f]
      Liked(y) == (1 - internalPredict(side, o, y)) * q(y)
      Rest(y) == internalPredict(side, o, y) * q(y)
  IN (Total(Liked, R) - Weight * Total(Rest, Active(Other(side)) \ R)
      - Reg * factor[side][o][f]) % P
SolvedIsStationary ==
  \A w \in Jobs : owner[w] # 0 /\ solved[w] # 0 => Derivative(owner[w], solved[w]) = 0
=============================================================================
