----------------------------- MODULE TensorOps -----------------------------
(***************************************************************************)
(* The operators of the neural network library (common/nn/op.go,           *)
(* functions.go, tensor.go, and floats.MM): what forward computes, and     *)
(* what backward hands to the inputs.  Row-major index arithmetic is kept  *)
(* as it is in the code; numbers are integers, so the operators that leave *)
(* them (div, pow, exp, log, sin, cos, sigmoid) have no place here, and of *)
(* softmax and softmaxCrossEntropy only the shapes they combine.           *)
(*                                                                         *)
(* A behaviour applies one operator to one choice of inputs, runs its      *)
(* backward for one output gradient, then lets the optimiser SGD move the  *)
(* first input, its parts in parallel (Adam divides its step alike).       *)
(***************************************************************************)
EXTENDS Integers, Sequences, SequencesExt, FiniteSetsExt

CONSTANTS Shapes,   \* shapes of the inputs
          Fillings, \* ways to fill a tensor with numbers
          NJobs,    \* most jobs a product or a step is divided among
          Align     \* alignment of the parts of a step (32 in the code)

VARIABLES op, inputs, outcome, gradient, grads, opPhase,
          moved,    \* the data of the first input as the optimiser moves it
          parts     \* the parts of the step whose goroutine has not run

opVars == <<op, inputs, outcome, gradient, grads, opPhase, moved, parts>>

-----------------------------------------------------------------------------
(* Tensors: data is indexed from 0, as in the code. *)
Size(shape) == FoldLeft(LAMBDA a, b : a * b, 1, shape)
Indices(n) == 0 .. n - 1
Tensor(shape, F(_)) == [shape |-> shape, data |-> [i \in Indices(Size(shape)) |-> F(i)]]
SumOver(S, F(_)) == FoldSet(LAMBDA i, acc : acc + F(i), 0, S)
Zeros(shape) == Tensor(shape, LAMBDA i : 0)

(* Non-zero numbers, so that abs and ReLU have a derivative. *)
Fill(shape, f) == Tensor(shape, LAMBDA i : LET v == (((i + f) * f) % 7) - 3 IN IF v = 0 THEN 4 ELSE v)

IsSuffixShape(s, t) == Len(s) <= Len(t) /\ SubSeq(t, Len(t) - Len(s) + 1, Len(t)) = s

(* t.add, t.sub, t.mul: the second tensor is repeated over the first. *)
Elementwise(t, other, Op(_, _)) ==
  LET wSize == Size(other.shape)
  IN Tensor(t.shape, LAMBDA i : Op(t.data[i], other.data[i % wSize]))

(* The gradient of the repeated tensor sums what its copies receive. *)
Repeated(shape, dy, F(_)) ==
  LET wSize == Size(shape)
  IN Tensor(shape, LAMBDA w : SumOver({i \in DOMAIN dy.data : i % wSize = w}, F))

-----------------------------------------------------------------------------
(* Ranges of a parallel loop. *)
partition(n, p) ==
  IF n <= 0 THEN <<>>
  ELSE IF p <= 1 THEN <<<<0, n>>>>
  ELSE IF n <= p THEN [i \in 1 .. n |-> <<i - 1, i>>]
  ELSE LET ranges[i \in 0 .. n, more \in 0 .. p] ==
             IF i >= n THEN <<>>
             ELSE LET end == Min({i + (n \div p) + (IF more > 0 THEN 1 ELSE 0), n})
                  IN <<<<i, end>>>> \o ranges[end, IF more > 0 THEN more - 1 ELSE 0]
       IN ranges[0, n % p]

partitionAligned(n, m, k) ==
  IF n <= 0 THEN <<>>
  ELSE IF m <= 0 THEN <<<<0, n>>>>
  ELSE LET even == n \div m
           aligned == IF even % k # 0 THEN even + k - (even % k) ELSE even
           size == IF aligned = 0 THEN k ELSE aligned
           ranges[start \in 0 .. n] ==
             IF start >= n THEN <<>>
             ELSE <<<<start, Min({start + size, n})>>>> \o ranges[Min({start + size, n})]
       IN ranges[0]

-----------------------------------------------------------------------------
(* floats.MM on slices: a and b are read from an offset on, rows lda and   *)
(* ldb apart; the answer is the element (i, j) of the m by n result.       *)
MM(transA, transB, k, a, aFrom, lda, b, bFrom, ldb, i, j) ==
  SumOver(Indices(k), LAMBDA l :
    a[aFrom + (IF transA THEN l * lda + i ELSE i * lda + l)]
      * b[bFrom + (IF transB THEN j * ldb + l ELSE l * ldb + j)])

Compatible(s1, s2, transpose1, transpose2) ==
  s1[IF transpose1 THEN 1 ELSE 2] = s2[IF transpose2 THEN 2 ELSE 1]

(* The rows of the product are divided among the jobs: a part reads the    *)
(* first matrix from its first row, or from its first column if that       *)
(* matrix is transposed.                                                   *)
matMul(t, other, transpose1, transpose2, jobs) ==
  LET m == t.shape[IF transpose1 THEN 2 ELSE 1]
      n == other.shape[IF transpose2 THEN 1 ELSE 2]
      k == t.shape[IF transpose1 THEN 1 ELSE 2]
      lda == IF transpose1 THEN m ELSE k
      ldb == IF transpose2 THEN k ELSE n
      part(r) == CHOOSE p \in ToSet(partition(m, jobs)) : p[1] <= r /\ r < p[2]
  IN Tensor(<<m, n>>, LAMBDA i :
       LET p == part(i \div n)
       IN MM(transpose1, transpose2, k, t.data, IF transpose1 THEN p[1] ELSE p[1] * k, lda,
             other.data, 0, ldb, (i \div n) - p[1], i % n))

batchMatMul(t, other, transpose1, transpose2) ==
  LET m == t.shape[IF transpose1 THEN 3 ELSE 2]
      n == other.shape[IF transpose2 THEN 2 ELSE 3]
      k == t.shape[IF transpose1 THEN 2 ELSE 3]
      lda == IF transpose1 THEN m ELSE k
      ldb == IF transpose2 THEN k ELSE n
  IN Tensor(<<t.shape[1], m, n>>, LAMBDA i :
       LET b == i \div (m * n)
           r == i % (m * n)
       IN MM(transpose1, transpose2, k, t.data, b * m * k, lda, other.data, b * n * k, ldb, r \div n, r % n))

-----------------------------------------------------------------------------
(* The shape squashed to three dimensions, the middle one summed along. *)
Squash(shape, along) ==
  [outer |-> Size(SubSeq(shape, 1, along)), middle |-> shape[along + 1],
   inner |-> Size(SubSeq(shape, along + 2, Len(shape)))]

partialSum(x, along) ==
  LET s == Squash(x.shape, along)
  IN Tensor(SubSeq(x.shape, 1, along) \o SubSeq(x.shape, along + 2, Len(x.shape)), LAMBDA i :
       SumOver(Indices(s.middle), LAMBDA j :
         x.data[(i \div s.inner) * s.middle * s.inner + j * s.inner + (i % s.inner)]))

broadcast(x, shape) ==
  LET wSize == Size(shape)
  IN Tensor(x.shape \o shape, LAMBDA i : x.data[i \div wSize])

(* Rows of w picked by the numbers of x. *)
embedding(w, x) ==
  LET dim == Size(Tail(w.shape))
  IN Tensor(x.shape \o Tail(w.shape), LAMBDA i : w.data[x.data[i \div dim] * dim + (i % dim)])

-----------------------------------------------------------------------------
(* The applications a behaviour chooses from.  An operator is a record of  *)
(* its name and its settings; the functions of functions.go check the      *)
(* shapes and put the longer tensor first where the order does not matter. *)
Plain(name) == [name |-> name, along |-> 0, t1 |-> FALSE, t2 |-> FALSE, jobs |-> 1, shape |-> <<>>]
Products(name, jobs) ==
  {[Plain(name) EXCEPT !.t1 = t1, !.t2 = t2, !.jobs = j] : t1 \in BOOLEAN, t2 \in BOOLEAN, j \in jobs}

Of(rank) == {s \in Shapes : Len(s) = rank}
Filled(S) == {Fill(s, f) : s \in S, f \in Fillings}

(* The pairs Add, Mul and Sub accept, as they hand them to the operator.   *)
(* Add with a shorter first tensor compares it with itself instead of the  *)
(* other; t.add then panics only if its size does not divide the other's.  *)
Pairs == Filled(Shapes) \X Filled(Shapes)
Suffixed == {p \in Pairs : IsSuffixShape(p[2].shape, p[1].shape)}

Add ==
  Suffixed \cup {p \in Pairs : /\ Len(p[2].shape) < Len(p[1].shape)
                              /\ Size(p[1].shape) % Size(p[2].shape) = 0}
Mul == Suffixed
Sub == Suffixed

(* Unary operators on any shape, and those with an axis or a shape. *)
UnaryCalls ==
  [op : {Plain(n) : n \in {"neg", "square", "abs", "relu", "sum", "mean", "flatten"}},
   inputs : {<<x>> : x \in Filled(Shapes)}]
    \cup UNION {{[op |-> [Plain("partialSum") EXCEPT !.along = a], inputs |-> <<Fill(s, f)>>] :
                   a \in Indices(Len(s)), f \in Fillings} : s \in Shapes}
    \cup {[op |-> [Plain("softmax") EXCEPT !.along = a], inputs |-> <<x>>] : a \in {0, 1}, x \in Filled(Of(2))}
    \cup {[op |-> [Plain("broadcast") EXCEPT !.shape = s], inputs |-> <<x>>] :
            s \in Of(1), x \in Filled(Of(1) \cup Of(2))}
    \cup UNION {{[op |-> [Plain("reshape") EXCEPT !.shape = s], inputs |-> <<x>>] :
                   s \in {t \in Shapes : Size(t) = Size(x.shape)}} : x \in Filled(Shapes)}

BinaryCalls ==
  [op : {Plain("add")}, inputs : Add] \cup [op : {Plain("mul")}, inputs : Mul]
    \cup [op : {Plain("sub")}, inputs : Sub]

ProductCalls ==
  {c \in [op : Products("matMul", 1 .. NJobs), inputs : Filled(Of(2)) \X Filled(Of(2))] :
     Compatible(c.inputs[1].shape, c.inputs[2].shape, c.op.t1, c.op.t2)}
    \cup {c \in [op : Products("batchMatMul", {1}), inputs : Filled(Of(3)) \X Filled(Of(3))] :
     /\ c.inputs[1].shape[1] = c.inputs[2].shape[1]
     /\ Compatible(Tail(c.inputs[1].shape), Tail(c.inputs[2].shape), c.op.t1, c.op.t2)}

EmbeddingCalls ==
  {[op |-> Plain("embedding"), inputs |-> <<w, Tensor(s, LAMBDA i : (i * f) % w.shape[1])>>] :
     w \in Filled(Of(2)), s \in Of(1) \cup Of(2), f \in {1, 2}}

Calls == UnaryCalls \cup BinaryCalls \cup ProductCalls \cup EmbeddingCalls

(* What an operator passes to t.add, t.sub, t.mul or t.div as the second   *)
(* tensor: softmax subtracts and divides by one number for each line along *)
(* its axis, keepDim leaving a 1 in the shape.                             *)
SecondShape(o, x) ==
  IF o.name = "softmax" THEN [x[1].shape EXCEPT ![o.along + 1] = 1] ELSE x[Len(x)].shape

-----------------------------------------------------------------------------
Forward(o, x) ==
  CASE o.name = "neg" -> Tensor(x[1].shape, LAMBDA i : -x[1].data[i])
    [] o.name = "add" -> Elementwise(x[1], x[2], LAMBDA a, b : a + b)
    [] o.name = "sub" -> Elementwise(x[1], x[2], LAMBDA a, b : a - b)
    [] o.name = "mul" -> Elementwise(x[1], x[2], LAMBDA a, b : a * b)
    [] o.name = "square" -> Elementwise(x[1], x[1], LAMBDA a, b : a * b)
    [] o.name = "abs" -> Tensor(x[1].shape, LAMBDA i : IF x[1].data[i] < 0 THEN -x[1].data[i] ELSE x[1].data[i])
    [] o.name = "relu" -> Tensor(x[1].shape, LAMBDA i : Max({x[1].data[i], 0}))
    [] o.name = "sum" -> Tensor(<<>>, LAMBDA i : SumOver(DOMAIN x[1].data, LAMBDA j : x[1].data[j]))
    [] o.name = "mean" -> Tensor(<<>>, LAMBDA i : SumOver(DOMAIN x[1].data, LAMBDA j : x[1].data[j]) \div Size(x[1].shape))
    [] o.name = "partialSum" -> partialSum(x[1], o.along)
    [] o.name = "matMul" -> matMul(x[1], x[2], o.t1, o.t2, o.jobs)
    [] o.name = "batchMatMul" -> batchMatMul(x[1], x[2], o.t1, o.t2)
    [] o.name = "broadcast" -> broadcast(x[1], o.shape)
    [] o.name = "flatten" -> [x[1] EXCEPT !.shape = <<Size(x[1].shape)>>]
    [] o.name = "reshape" -> [x[1] EXCEPT !.shape = o.shape]
    [] o.name = "embedding" -> embedding(x[1], x[2])
    [] o.name = "softmax" -> x[1]

(* The gradients of the two factors of a product, for the four transpositions. *)
Product0(M(_, _, _, _), x, dy, t1, t2) ==
  IF t1 THEN M(x[2], dy, t2, TRUE) ELSE M(dy, x[2], FALSE, ~t2)
Product1(M(_, _, _, _), x, dy, t1, t2) ==
  IF t2 THEN M(dy, x[1], TRUE, t1) ELSE M(x[1], dy, ~t1, FALSE)

Backward(o, x, dy) ==
  CASE o.name = "neg" -> <<Tensor(dy.shape, LAMBDA i : -dy.data[i])>>
    [] o.name = "add" -> <<dy, Repeated(x[2].shape, dy, LAMBDA i : dy.data[i])>>
    [] o.name = "sub" -> <<dy, Repeated(x[2].shape, dy, LAMBDA i : -dy.data[i])>>
    [] o.name = "mul" -> <<Elementwise(dy, x[2], LAMBDA a, b : a * b),
                           Repeated(x[2].shape, dy, LAMBDA i : dy.data[i] * x[1].data[i])>>
    [] o.name = "square" -> <<Elementwise(dy, x[1], LAMBDA a, b : 2 * a * b)>>
    [] o.name = "abs" -> <<Tensor(dy.shape, LAMBDA i : IF x[1].data[i] < 0 THEN -dy.data[i] ELSE dy.data[i])>>
    [] o.name = "relu" -> <<Tensor(dy.shape, LAMBDA i : IF x[1].data[i] > 0 THEN dy.data[i] ELSE 0)>>
    [] o.name = "sum" -> <<Tensor(x[1].shape, LAMBDA i : dy.data[0])>>
    [] o.name = "mean" -> <<Tensor(x[1].shape, LAMBDA i : dy.data[0] \div Size(x[1].shape))>>
    [] o.name = "partialSum" ->
         LET s == Squash(x[1].shape, o.along)
         IN <<Tensor(x[1].shape, LAMBDA i : dy.data[(i \div (s.middle * s.inner)) * s.inner + (i % s.inner)])>>
    [] o.name = "matMul" ->
         LET M(a, b, t1, t2) == matMul(a, b, t1, t2, o.jobs)
         IN <<Product0(M, x, dy, o.t1, o.t2), Product1(M, x, dy, o.t1, o.t2)>>
    [] o.name = "batchMatMul" ->
         <<Product0(batchMatMul, x, dy, o.t1, o.t2), Product1(batchMatMul, x, dy, o.t1, o.t2)>>
    [] o.name = "broadcast" ->
         LET wSize == Size(o.shape)
         IN <<Tensor(x[1].shape, LAMBDA i : SumOver(i * wSize .. (i + 1) * wSize - 1, LAMBDA j : dy.data[j]))>>
    [] o.name \in {"flatten", "reshape"} -> <<[dy EXCEPT !.shape = x[1].shape]>>
    [] o.name = "embedding" ->
         LET dim == Size(Tail(x[1].shape))
         IN <<Tensor(x[1].shape, LAMBDA i :
                SumOver({r \in DOMAIN x[2].data : x[2].data[r] = i \div dim},
                        LAMBDA r : dy.data[r * dim + (i % dim)]))>>
    [] o.name = "softmax" -> <<>>

-----------------------------------------------------------------------------
OpInit ==
  /\ \E c \in Calls : op = c.op /\ inputs = c.inputs
  /\ outcome = Zeros(<<0>>)
  /\ gradient = Zeros(<<0>>)
  /\ grads = <<>>
  /\ opPhase = "new"
  /\ moved = inputs[1].data
  /\ parts = {}

apply ==
  /\ opPhase = "new"
  /\ outcome' = Forward(op, inputs)
  /\ opPhase' = "applied"
  /\ UNCHANGED <<op, inputs, gradient, grads, moved, parts>>

(* The gradient of a mean is chosen so that it can be divided. *)
backward ==
  /\ opPhase = "applied"
  /\ \E f \in Fillings :
       LET scale == IF op.name = "mean" THEN Size(inputs[1].shape) ELSE 1
       IN gradient' = Tensor(outcome.shape, LAMBDA i : scale * Fill(outcome.shape, f).data[i])
  /\ grads' = Backward(op, inputs, gradient')
  /\ opPhase' = "done"
  /\ UNCHANGED <<op, inputs, outcome, moved, parts>>

(* SGD.Step with learning rate 1 and no weight decay, divided among jobs. *)
Step ==
  /\ opPhase = "done" /\ grads # <<>>
  /\ \E jobs \in 1 .. NJobs : parts' = ToSet(partitionAligned(Size(inputs[1].shape), jobs, Align))
  /\ opPhase' = "step"
  /\ UNCHANGED <<op, inputs, outcome, gradient, grads, moved>>

StepPart(p) ==
  /\ parts' = parts \ {p}
  /\ moved' = [i \in DOMAIN moved |->
                IF p[1] <= i /\ i < p[2] THEN moved[i] - grads[1].data[i] ELSE moved[i]]
  /\ UNCHANGED <<op, inputs, outcome, gradient, grads, opPhase>>

OpNext == apply \/ backward \/ Step \/ \E p \in parts : StepPart(p)

OpSpec == OpInit /\ [][OpNext]_opVars

-----------------------------------------------------------------------------
(* The element i of the input n moved by h. *)
Moved(n, i, h) == [inputs EXCEPT ![n].data[i] = @ + h]

(* What backward hands to an input is the derivative of forward, weighted  *)
(* by the output gradient, and has the input's shape: for every element,   *)
(* the central difference of the forward computation, which is exact for   *)
(* functions of degree two in one element and for abs and ReLU off zero.   *)
GradientsMatch ==
  opPhase = "done" => \A n \in DOMAIN grads :
    LET h == IF op.name = "mean" THEN Size(inputs[1].shape) ELSE 1
    IN /\ grads[n].shape = inputs[n].shape
       /\ \A i \in DOMAIN inputs[n].data :
            LET up == Forward(op, Moved(n, i, h))
                down == Forward(op, Moved(n, i, -h))
            IN 2 * h * grads[n].data[i]
                 = SumOver(DOMAIN outcome.data, LAMBDA j : gradient.data[j] * (up.data[j] - down.data[j]))

(* The element (r, c) of a matrix, or of its transpose. *)
Cell(t, transpose, r, c) == t.data[IF transpose THEN c * t.shape[2] + r ELSE r * t.shape[2] + c]

(* However many jobs divide the rows of a product, with whichever factors  *)
(* transposed, every element is the product of its row and its column.     *)
ProductsAgree ==
  (op.name = "matMul" /\ opPhase = "applied") =>
    \A r \in Indices(outcome.shape[1]), c \in Indices(outcome.shape[2]) :
      outcome.data[r * outcome.shape[2] + c]
        = SumOver(Indices(inputs[1].shape[IF op.t1 THEN 1 ELSE 2]), LAMBDA l :
            Cell(inputs[1], op.t1, r, l) * Cell(inputs[2], op.t2, l, c))

(* When the goroutines of a step have all run, in whatever order, every    *)
(* element of the parameter has moved by its gradient exactly once.        *)
StepMovesAllOnce ==
  (opPhase = "step" /\ parts = {}) =>
    \A i \in DOMAIN moved : moved[i] = inputs[1].data[i] - grads[1].data[i]

(* The coordinates of the element i. *)
Coordinates(shape, i) ==
  [d \in DOMAIN shape |-> (i \div Size(SubSeq(shape, d + 1, Len(shape)))) % shape[d]]

(* What tensor.go says of sub and div: "The shape of the second tensor     *)
(* must be a suffix sequence of the shape of the first tensor", so that    *)
(* i % wSize is the element that belongs to the element i, a dimension     *)
(* kept as 1 being shared.                                                 *)
SecondIsAligned ==
  (opPhase = "applied" /\ op.name \in {"sub", "mul", "softmax"}) =>
    \A i \in DOMAIN outcome.data :
      LET first == inputs[1].shape
          second == SecondShape(op, inputs)
          own == Coordinates(first, i)
          used == Coordinates(second, i % Size(second))
      IN \A d \in DOMAIN second :
           used[d] = IF second[d] = 1 THEN 0 ELSE own[d + Len(first) - Len(second)]
=============================================================================
