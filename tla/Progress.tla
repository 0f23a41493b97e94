------------------------------ MODULE Progress ------------------------------
(***************************************************************************)
(* lf::Progress (core/progress.cpp) as a loading thread uses it: a tree of *)
(* which one branch is under way, from the root, which other threads read, *)
(* to the innermost node, which the thread reports to.                     *)
(***************************************************************************)
EXTENDS Naturals, Sequences, SequencesExt, Iteration

(* A node with phases reports them; one without reports done / total.      *)
Node(weight) ==
  [weight |-> weight, phases |-> <<>>, next |-> 1, completed |-> 0,
   done |-> 0, total |-> 0]

(* The branch: the nodes around the innermost one, from the root inwards.  *)
Root == [around |-> <<>>, node |-> Node(0)]

(* add(), for each of the weights *)
Add(branch, weights) == [branch EXCEPT !.node.phases = @ \o weights]

AddTotal(branch, amount) == [branch EXCEPT !.node.total = @ + amount]

Advance(branch, amount) == [branch EXCEPT !.node.done = @ + amount]

(* operator() *)
Begin(branch) ==
  [around |-> Append(branch.around, [branch.node EXCEPT !.next = @ + 1]),
   node |-> Node(branch.node.phases[branch.node.next])]

(* Faulty variant: the parent forgets the weight of the child. *)
FinishForgotten(branch) ==
  [around |-> Front(branch.around), node |-> Last(branch.around)]

(* The innermost node is destroyed: child_finished() of its parent.        *)
Finish(branch) ==
  [around |-> Front(branch.around),
   node |-> [Last(branch.around) EXCEPT
               !.completed = @ + branch.node.weight]]

(* phase = progress() makes the new child before the old one is destroyed; *)
(* the value between the two is the one before.                            *)
NextPhase(branch) == Begin(Finish(branch))

(* All nodes inside the first `depth` are destroyed, innermost first.      *)
Unwind(branch, depth) ==
  LET nodes == Append(branch.around, branch.node)
  IN  IF Len(nodes) = depth THEN branch
      ELSE [around |-> SubSeq(nodes, 1, depth - 1),
            node |-> [nodes[depth] EXCEPT
                        !.completed = @ + nodes[depth + 1].weight]]

(* value(), as a fraction: the node's own, or its phases with its child's. *)
Fractions == [num : Nat, den : Nat, weight : Nat]

WeightOf(phases) ==
  Iterated([x \in Nat \X DOMAIN phases |-> x[1] + phases[x[2]]], 0, Len(phases))

Value(branch) ==
  LET nodes == Append(branch.around, branch.node)
      outwards == [x \in Fractions \X DOMAIN nodes |->
                     LET child == x[1]
                         node == nodes[Len(nodes) + 1 - x[2]]
                     IN  IF node.phases = <<>>
                         THEN [num |-> IF node.total = 0 THEN 0 ELSE node.done,
                               den |-> IF node.total = 0 THEN 1 ELSE node.total,
                               weight |-> node.weight]
                         ELSE [num |-> node.completed * child.den
                                         + child.weight * child.num,
                               den |-> child.den * WeightOf(node.phases),
                               weight |-> node.weight]]
  IN  Iterated(outwards, [num |-> 0, den |-> 1, weight |-> 0], Len(nodes))

(* A fraction in millionths: value() returns a float.                      *)
Millionths(v) ==
  1000 * ((1000 * v.num) \div v.den)
    + (1000 * ((1000 * v.num) % v.den)) \div v.den

Complete(v) == v.num = v.den
=============================================================================
