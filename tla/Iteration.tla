----------------------------- MODULE Iteration ------------------------------
(* A loop that runs a number of times, as a function of how often.         *)
EXTENDS Naturals, Sequences, Functions

(* What is left of x after n runs: the i-th leads from x to step[<<x, i>>]. *)
Iterated(step, start, n) ==
  LET upto[i \in 0 .. n] ==
        IF i = 0 THEN start ELSE step[<<upto[i - 1], i>>]
  IN  upto[n]

PowerOfTwo(n) == Iterated([x \in Nat \X Nat |-> 2 * x[1]], 1, n)

(* The members of a sequence at some of its places, in their order.        *)
Selected(s, places) ==
  LET keep == [x \in Seq(Range(s)) \X DOMAIN s |->
                 IF x[2] \in places THEN Append(x[1], s[x[2]]) ELSE x[1]]
  IN  Iterated(keep, <<>>, Len(s))
=============================================================================
