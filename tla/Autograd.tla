------------------------------ MODULE Autograd ------------------------------
(***************************************************************************)
(* The computation graph of the neural network library and its backward    *)
(* pass (apply in common/nn/op.go, Tensor.Backward in tensor.go): applying *)
(* operators records a graph; Backward visits it from the root, the        *)
(* operator of the highest generation first, and adds up at every tensor   *)
(* the gradients its uses hand to it.                                      *)
(*                                                                         *)
(* Tensors hold one number each (TensorOps has the operators on tensors of *)
(* any shape).  Gradients are numbers in buffers, since reshape and        *)
(* flatten hand their own output's buffer on to their input.               *)
(***************************************************************************)
EXTENDS Integers, Sequences, SequencesExt, FiniteSetsExt

CONSTANTS Leaves,   \* the data of the leaf tensors, a sequence
          MaxOps,   \* bound: operators applied
          MaxPasses \* bound: calls of Backward

VARIABLES nodes,    \* tensors in the order of their creation
          root,     \* the tensor Backward was called on, 0 outside
          buffers,  \* the gradient buffers allocated
          grad,     \* the buffer of each tensor's gradient, 0 if nil
          queue,    \* opHeap: operators, named by their output, to visit
          seenOps,  \* operators ever put in the queue in this pass
          before,   \* the leaves' gradients when Backward was called
          passes

graphVars == <<nodes, root, buffers, grad, queue, seenOps, before, passes>>

NLeaves == Len(Leaves)
Ids == DOMAIN nodes
Value(n) == nodes[n].value
Uses(n) == nodes[n].ins
IsLeaf(n) == nodes[n].ins = <<>>
GradOf(n) == IF grad[n] = 0 THEN 0 ELSE buffers[grad[n]]

Compute(kind, ins) ==
  CASE kind = "neg" -> -Value(ins[1])
    [] kind = "square" -> Value(ins[1]) * Value(ins[1])
    [] kind = "reshape" -> Value(ins[1])
    [] kind = "add" -> Value(ins[1]) + Value(ins[2])
    [] kind = "mul" -> Value(ins[1]) * Value(ins[2])

(* The derivative of an operator by its input i. *)
Local(n, i) ==
  CASE nodes[n].op = "neg" -> -1
    [] nodes[n].op = "square" -> 2 * Value(Uses(n)[1])
    [] nodes[n].op = "mul" -> Value(Uses(n)[3 - i])
    [] OTHER -> 1

GraphInit ==
  /\ nodes = [i \in 1 .. NLeaves |-> [op |-> "leaf", ins |-> <<>>, value |-> Leaves[i], gen |-> 0]]
  /\ root = 0
  /\ buffers = <<>>
  /\ grad = [i \in 1 .. NLeaves |-> 0]
  /\ queue = {}
  /\ seenOps = {}
  /\ before = [i \in 1 .. NLeaves |-> 0]
  /\ passes = 0

(* Mutant of Generation: the inputs' generations are not looked at. *)
GenerationFlat(ins) == 1
Generation(ins) == 1 + Max({nodes[i].gen : i \in ToSet(ins)})

(* apply outside inference mode. *)
apply(kind, ins) ==
  /\ root = 0 /\ Len(nodes) < NLeaves + MaxOps
  /\ nodes' = Append(nodes, [op |-> kind, ins |-> ins, value |-> Compute(kind, ins), gen |-> Generation(ins)])
  /\ grad' = Append(grad, 0)
  /\ UNCHANGED <<root, buffers, queue, seenOps, before, passes>>

Backward(t) ==
  /\ root = 0 /\ ~IsLeaf(t) /\ passes < MaxPasses
  /\ root' = t
  /\ buffers' = Append(buffers, 1)
  /\ grad' = [grad EXCEPT ![t] = Len(buffers')]
  /\ queue' = {t}
  /\ seenOps' = {t}
  /\ before' = [i \in 1 .. NLeaves |-> GradOf(i)]
  /\ passes' = passes + 1
  /\ UNCHANGED nodes

(* heap.Pop: an operator of the highest generation. *)
Tops == {n \in queue : \A m \in queue : nodes[m].gen <= nodes[n].gen}

(* One input receives a gradient: the buffer itself if it has none yet. *)
Receive(s, n, i) ==
  LET x == Uses(n)[i]
      dy == buffers[grad[n]]
      shared == nodes[n].op = "reshape"
      fresh == IF shared THEN s.buffers ELSE Append(s.buffers, dy * Local(n, i))
      from == IF shared THEN s.grad[n] ELSE Len(fresh)
  IN IF s.grad[x] = 0
       THEN [buffers |-> fresh, grad |-> [s.grad EXCEPT ![x] = from]]
       ELSE [buffers |-> [fresh EXCEPT ![s.grad[x]] = @ + fresh[from]], grad |-> s.grad]

(* One round of the loop: the gradients of the operator's inputs are       *)
(* computed before the first of them is added.                             *)
Pop(n) ==
  /\ n \in Tops
  /\ LET s0 == [buffers |-> buffers, grad |-> grad]
         s1 == Receive(s0, n, 1)
         s2 == IF Len(Uses(n)) = 2 THEN Receive(s1, n, 2) ELSE s1
         new == {x \in ToSet(Uses(n)) : ~IsLeaf(x) /\ x \notin seenOps}
     IN /\ buffers' = s2.buffers
        /\ grad' = [s2.grad EXCEPT ![n] = 0]
        /\ queue' = (queue \ {n}) \cup new
        /\ seenOps' = seenOps \cup new
  /\ UNCHANGED <<nodes, root, before, passes>>

Return ==
  /\ root # 0 /\ queue = {}
  /\ root' = 0
  /\ UNCHANGED <<nodes, buffers, grad, queue, seenOps, before, passes>>

(* Optimizer.ZeroGrad between two passes. *)
ZeroGrad ==
  /\ root = 0 /\ \E i \in 1 .. NLeaves : grad[i] # 0
  /\ grad' = [i \in DOMAIN grad |-> IF i <= NLeaves THEN 0 ELSE grad[i]]
  /\ UNCHANGED <<nodes, root, buffers, queue, seenOps, before, passes>>

GraphNext ==
  \/ \E kind \in {"neg", "square", "reshape"}, x \in Ids : apply(kind, <<x>>)
  \/ \E kind \in {"add", "mul"}, x, y \in Ids : apply(kind, <<x, y>>)
  \/ \E t \in Ids : Backward(t)
  \/ \E n \in queue : Pop(n)
  \/ Return
  \/ ZeroGrad

GraphSpec == GraphInit /\ [][GraphNext]_graphVars

-----------------------------------------------------------------------------
(* The derivative of the tensor t by the leaf x, summed over every path    *)
(* between them: the tangent of t when x moves.                            *)
Derivative(t, x) ==
  LET tangent[n \in 1 .. t] ==
        IF n = x THEN 1
        ELSE FoldSet(LAMBDA i, acc : acc + Local(n, i) * tangent[Uses(n)[i]], 0, DOMAIN Uses(n))
  IN tangent[t]

(* When a backward pass has visited every operator, each leaf's gradient   *)
(* has grown by the derivative of the root by that leaf, whatever way      *)
(* tensors are shared, used twice or reshaped in the graph and in whatever *)
(* order operators of one generation are visited.                          *)
GradientIsDerivative ==
  (root # 0 /\ queue = {}) =>
    \A x \in 1 .. NLeaves : GradOf(x) = before[x] + Derivative(root, x)
=============================================================================
