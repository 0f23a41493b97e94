----------------------------- MODULE Induction ------------------------------
(***************************************************************************)
(* Induction over the natural numbers and definition by recursion, as      *)
(* facts about sets and functions: an induction hypothesis is a set T of   *)
(* numbers here, and the step of a recursion a function.  The loops of     *)
(* Iteration, its powers of two and SetToSeq are taken from there.         *)
(***************************************************************************)
EXTENDS Integers, Iteration, SequencesExt, FiniteSetTheorems, TLAPS

(* A set of natural numbers has a least element: inclusion is well founded *)
(* among the intervals that begin at 1.                                    *)
LEMMA LeastNumber ==
  ASSUME NEW T \in SUBSET Nat, T # {}
  PROVE  \E n \in T : \A m \in T : n <= m
<1> DEFINE R(k) == StrictSubsetOrdering(1 .. k)
           U(k) == {1 .. n : n \in T \cap 0 .. k}
<1>1. PICK k \in T : TRUE
  OBVIOUS
<1>2. IsWellFoundedOn(R(k), FiniteSubsetsOf(1 .. k))
  BY FS_StrictSubsetOrderingWellFounded
<1>3. U(k) \subseteq FiniteSubsetsOf(1 .. k)
  <2> SUFFICES ASSUME NEW n \in T, n <= k
               PROVE  (1 .. n) \in FiniteSubsetsOf(1 .. k)
    OBVIOUS
  <2>1. IsFiniteSet(1 .. n) /\ (1 .. n) \subseteq 1 .. k
    BY FS_Interval, <1>1
  <2> QED BY <2>1 DEF FiniteSubsetsOf
<1>4. U(k) # {}
  BY <1>1
<1>5. PICK x \in U(k) : \A y \in U(k) : <<y, x>> \notin R(k)
  <2> HIDE DEF R, U
  <2> QED BY <1>2, <1>3, <1>4, WFMin
<1>6. PICK n \in T \cap 0 .. k : x = 1 .. n
  BY <1>5
<1>7. ASSUME NEW m \in T, m < n
      PROVE  FALSE
  <2>1. (1 .. m) \in U(k)
    BY <1>6, <1>7
  <2>2. n \in 1 .. n /\ n \notin 1 .. m
    BY <1>6, <1>7
  <2>3. <<1 .. m, 1 .. n>> \in R(k)
    BY <2>2, <1>6, <1>7 DEF StrictSubsetOrdering
  <2> QED BY <2>1, <2>3, <1>5, <1>6
<1> QED BY <1>6, <1>7

(* Mathematical induction. *)
LEMMA SetInduction ==
  ASSUME NEW T, 0 \in T, \A n \in Nat : n \in T => n + 1 \in T
  PROVE  Nat \subseteq T
<1> SUFFICES ASSUME Nat \ T # {} PROVE FALSE
  OBVIOUS
<1>1. PICK n \in Nat \ T : \A m \in Nat \ T : n <= m
  BY LeastNumber
<1>2. n - 1 \in Nat /\ n - 1 \in T
  BY <1>1
<1> QED BY <1>1, <1>2

(* The same up to a number. *)
LEMMA IntervalInduction ==
  ASSUME NEW k \in Nat, NEW T, 0 \in T,
         \A n \in 0 .. k - 1 : n \in T => n + 1 \in T
  PROVE  0 .. k \subseteq T
<1> DEFINE U == {n \in Nat : n <= k => n \in T}
<1>1. 0 \in U
  OBVIOUS
<1>2. ASSUME NEW n \in Nat, n \in U PROVE n + 1 \in U
  BY <1>2
<1>3. Nat \subseteq U
  <2> HIDE DEF U
  <2> QED BY <1>1, <1>2, SetInduction
<1> QED BY <1>3

(* What a function is that is defined by recursion up to k.                *)
Recurs(f, k, base, step) ==
  f = [n \in 0 .. k |-> IF n = 0 THEN base ELSE step[<<f[n - 1], n>>]]

(* There is such a function if the step does not lead out of a set S.      *)
LEMMA RecursiveFunctionExists ==
  ASSUME NEW k \in Nat, NEW S, NEW base \in S, NEW step \in [S \X Nat -> S]
  PROVE  \E f \in [0 .. k -> S] : Recurs(f, k, base, step)
<1> DEFINE T == {m \in 0 .. k : \E f \in [0 .. m -> S] : Recurs(f, m, base, step)}
<1>1. 0 \in T
  <2> DEFINE f == [n \in 0 .. 0 |-> base]
  <2>1. f \in [0 .. 0 -> S]
    OBVIOUS
  <2>2. f = [n \in 0 .. 0 |-> IF n = 0 THEN base ELSE step[<<f[n - 1], n>>]]
    OBVIOUS
  <2>3. Recurs(f, 0, base, step)
    BY <2>2 DEF Recurs
  <2> HIDE DEF f
  <2> QED BY <2>1, <2>3
<1>2. ASSUME NEW m \in 0 .. k - 1, m \in T PROVE m + 1 \in T
  <2>1. PICK f \in [0 .. m -> S] : Recurs(f, m, base, step)
    BY <1>2
  <2> DEFINE next == step[<<f[m], m + 1>>]
             g == [n \in 0 .. m + 1 |-> IF n = m + 1 THEN next ELSE f[n]]
  <2>2. f[m] \in S /\ next \in S
    <3>1. m \in 0 .. m /\ m + 1 \in Nat
      OBVIOUS
    <3>2. f[m] \in S
      BY <3>1
    <3> QED BY <3>1, <3>2
  <2>3. g \in [0 .. m + 1 -> S]
    <3> HIDE DEF next
    <3> QED BY <2>2
  <2>4. ASSUME NEW n \in 0 .. m + 1
        PROVE  g[n] = IF n = 0 THEN base ELSE step[<<g[n - 1], n>>]
    <3>1. CASE n = m + 1
      <4>1. g[n] = next /\ g[n - 1] = f[m] /\ n # 0
        BY <3>1
      <4> QED BY <4>1, <3>1
    <3>2. CASE n # m + 1
      <4>1. n \in 0 .. m
        BY <3>2
      <4>2. f[n] = IF n = 0 THEN base ELSE step[<<f[n - 1], n>>]
        BY <2>1, <4>1 DEF Recurs
      <4>3. g[n] = f[n] /\ (n # 0 => g[n - 1] = f[n - 1])
        BY <4>1
      <4> QED BY <4>2, <4>3
    <3> QED BY <3>1, <3>2
  <2>5. g = [n \in 0 .. m + 1 |-> IF n = 0 THEN base ELSE step[<<g[n - 1], n>>]]
    <3> HIDE DEF next
    <3>1. g = [n \in 0 .. m + 1 |-> g[n]]
      OBVIOUS
    <3> HIDE DEF g
    <3> QED BY <2>4, <3>1
  <2>6. Recurs(g, m + 1, base, step)
    <3> HIDE DEF g
    <3> QED BY <2>5 DEF Recurs
  <2> HIDE DEF g
  <2> QED BY <2>3, <2>6
<1>3. 0 .. k \subseteq T
  <2> HIDE DEF T
  <2> QED BY <1>1, <1>2, IntervalInduction
<1> QED BY <1>3

(* Where such a function stays: its n-th value in I[n].                    *)
LEMMA RecursionStays ==
  ASSUME NEW k \in Nat, NEW base, NEW step, NEW I, base \in I[0],
         \A n \in 1 .. k : \A x \in I[n - 1] : step[<<x, n>>] \in I[n],
         NEW f, Recurs(f, k, base, step)
  PROVE  \A n \in 0 .. k : f[n] \in I[n]
<1> DEFINE T == {n \in 0 .. k : f[n] \in I[n]}
<1>1. \A n \in 0 .. k : f[n] = IF n = 0 THEN base ELSE step[<<f[n - 1], n>>]
  BY DEF Recurs
<1>2. 0 \in T
  <2>1. 0 \in 0 .. k
    OBVIOUS
  <2>2. f[0] = base
    BY <1>1, <2>1
  <2> QED BY <2>1, <2>2
<1>3. ASSUME NEW n \in 0 .. k - 1, n \in T PROVE n + 1 \in T
  <2>1. n + 1 \in 1 .. k /\ (n + 1) - 1 = n
    OBVIOUS
  <2>2. f[n + 1] = step[<<f[n], n + 1>>]
    BY <1>1, <2>1
  <2>3. \A x \in I[n] : step[<<x, n + 1>>] \in I[n + 1]
    BY <2>1
  <2> QED BY <1>3, <2>1, <2>2, <2>3
<1>4. 0 .. k \subseteq T
  <2> HIDE DEF T
  <2> QED BY <1>2, <1>3, IntervalInduction
<1> QED BY <1>4

(* There is such a function if each step leads from I[n - 1] to I[n].      *)
LEMMA RecursionWithin ==
  ASSUME NEW k \in Nat, NEW base, NEW step, NEW I, base \in I[0],
         \A n \in 1 .. k : \A x \in I[n - 1] : step[<<x, n>>] \in I[n]
  PROVE  \E f : Recurs(f, k, base, step)
<1> DEFINE S == UNION {I[n] : n \in 0 .. k}
           within == [x \in S \X Nat |->
                        IF x[2] \in 1 .. k /\ x[1] \in I[x[2] - 1]
                        THEN step[<<x[1], x[2]>>] ELSE base]
<1>1. base \in S
  OBVIOUS
<1>2. \A n \in 1 .. k : \A x \in I[n - 1] :
        /\ x \in S /\ n \in Nat
        /\ within[<<x, n>>] = step[<<x, n>>]
  <2> SUFFICES ASSUME NEW n \in 1 .. k, NEW x \in I[n - 1]
               PROVE  /\ x \in S /\ n \in Nat
                      /\ within[<<x, n>>] = step[<<x, n>>]
    OBVIOUS
  <2>1. n \in Nat /\ n - 1 \in 0 .. k
    OBVIOUS
  <2>2. <<x, n>> \in S \X Nat
    BY <2>1
  <2> HIDE DEF S
  <2> QED BY <2>2
<1>3. within \in [S \X Nat -> S]
  <2> SUFFICES ASSUME NEW x \in S, NEW n \in Nat
               PROVE  (IF n \in 1 .. k /\ x \in I[n - 1]
                       THEN step[<<x, n>>] ELSE base) \in S
    OBVIOUS
  <2>1. ASSUME n \in 1 .. k, x \in I[n - 1] PROVE step[<<x, n>>] \in S
    <3>1. step[<<x, n>>] \in I[n] /\ n \in 0 .. k
      BY <2>1
    <3> QED BY <3>1
  <2> HIDE DEF S
  <2> QED BY <1>1, <2>1
<1> HIDE DEF S, within
<1>4. PICK f \in [0 .. k -> S] : Recurs(f, k, base, within)
  BY <1>1, <1>3, RecursiveFunctionExists
<1>5. \A n \in 0 .. k : f[n] \in I[n]
  <2>1. \A n \in 1 .. k : \A x \in I[n - 1] : within[<<x, n>>] \in I[n]
    BY <1>2
  <2> QED BY <1>4, <2>1, RecursionStays
<1>6. \A n \in 0 .. k : n # 0 => within[<<f[n - 1], n>>] = step[<<f[n - 1], n>>]
  <2> SUFFICES ASSUME NEW n \in 0 .. k, n # 0
               PROVE  within[<<f[n - 1], n>>] = step[<<f[n - 1], n>>]
    OBVIOUS
  <2>1. n \in 1 .. k /\ n - 1 \in 0 .. k
    OBVIOUS
  <2>2. f[n - 1] \in I[n - 1]
    BY <1>5, <2>1
  <2> QED BY <1>2, <2>1, <2>2
<1>7. Recurs(f, k, base, step)
  BY <1>4, <1>6 DEF Recurs
<1> QED BY <1>7
-----------------------------------------------------------------------------
(* What a loop leads to, if each of its runs leads from I[n - 1] to I[n].  *)
LEMMA IteratedSteps ==
  ASSUME NEW k \in Nat, NEW start, NEW step, NEW I, start \in I[0],
         \A n \in 1 .. k : \A x \in I[n - 1] : step[<<x, n>>] \in I[n]
  PROVE  \A n \in 0 .. k :
           /\ Iterated(step, start, n) \in I[n]
           /\ n = 0 => Iterated(step, start, n) = start
           /\ n # 0 => Iterated(step, start, n)
                        = step[<<Iterated(step, start, n - 1), n>>]
<1>1. PICK f : Recurs(f, k, start, step)
  BY RecursionWithin
<1>2. \A n \in 0 .. k : f[n] \in I[n]
  BY <1>1, RecursionStays
<1>3. \A n \in 0 .. k : f[n] = IF n = 0 THEN start ELSE step[<<f[n - 1], n>>]
  BY <1>1 DEF Recurs
<1>4. ASSUME NEW n \in 0 .. k
      PROVE  Iterated(step, start, n) = f[n]
  <2> DEFINE g == CHOOSE upto :
                    upto = [i \in 0 .. n |->
                              IF i = 0 THEN start ELSE step[<<upto[i - 1], i>>]]
  <2>1. n \in Nat /\ \A i \in 1 .. n : i \in 1 .. k
    OBVIOUS
  <2>2. \E h : Recurs(h, n, start, step)
    BY <2>1, RecursionWithin
  <2>3. g = [i \in 0 .. n |-> IF i = 0 THEN start ELSE step[<<g[i - 1], i>>]]
    BY <2>2 DEF Recurs
  <2>4. Iterated(step, start, n) = g[n]
    BY DEF Iterated
  <2> HIDE DEF g
  <2> DEFINE T == {i \in 0 .. n : g[i] = f[i]}
  <2>5. \A i \in 0 .. n : g[i] = IF i = 0 THEN start ELSE step[<<g[i - 1], i>>]
    BY <2>3
  <2>6. 0 \in T
    <3>1. 0 \in 0 .. n /\ 0 \in 0 .. k
      BY <2>1
    <3>2. g[0] = start /\ f[0] = start
      BY <1>3, <2>5, <3>1
    <3> QED  BY <3>1, <3>2
  <2>7. ASSUME NEW i \in 0 .. n - 1, i \in T PROVE i + 1 \in T
    <3>1. i + 1 \in 0 .. n /\ i + 1 \in 0 .. k /\ i + 1 # 0 /\ (i + 1) - 1 = i
      OBVIOUS
    <3>2. g[i + 1] = step[<<g[i], i + 1>>] /\ f[i + 1] = step[<<f[i], i + 1>>]
      BY <1>3, <2>5, <3>1
    <3> QED  BY <2>7, <3>1, <3>2
  <2>8. 0 .. n \subseteq T
    <3> HIDE DEF T
    <3> QED  BY <2>1, <2>6, <2>7, IntervalInduction
  <2>9. n \in 0 .. n
    BY <2>1
  <2> QED  BY <2>4, <2>8, <2>9
<1> QED
  <2> SUFFICES ASSUME NEW n \in 0 .. k
               PROVE  /\ Iterated(step, start, n) \in I[n]
                      /\ n = 0 => Iterated(step, start, n) = start
                      /\ n # 0 => Iterated(step, start, n)
                                   = step[<<Iterated(step, start, n - 1), n>>]
    OBVIOUS
  <2>1. n # 0 => n - 1 \in 0 .. k
    OBVIOUS
  <2> QED  BY <1>2, <1>3, <1>4, <2>1

(* Powers of two, one by one.                                              *)
LEMMA Powers ==
  /\ PowerOfTwo(0) = 1
  /\ \A n \in Nat : /\ PowerOfTwo(n) \in Nat \ {0}
                    /\ PowerOfTwo(n + 1) = 2 * PowerOfTwo(n)
                    /\ n < PowerOfTwo(n)
<1> DEFINE step == [x \in Nat \X Nat |-> 2 * x[1]]
<1>1. ASSUME NEW k \in Nat
      PROVE  \A n \in 0 .. k :
               /\ PowerOfTwo(n) \in Nat \ {0}
               /\ n = 0 => PowerOfTwo(n) = 1
               /\ n # 0 => PowerOfTwo(n) = step[<<PowerOfTwo(n - 1), n>>]
  <2> DEFINE I == [n \in 0 .. k |-> Nat \ {0}]
             one == 1
  <2>1. one \in I[0]
    OBVIOUS
  <2>2. \A n \in 1 .. k : \A x \in I[n - 1] : step[<<x, n>>] \in I[n]
    OBVIOUS
  <2>3. \A n \in 0 .. k :
          /\ Iterated(step, one, n) \in I[n]
          /\ n = 0 => Iterated(step, one, n) = one
          /\ n # 0 => Iterated(step, one, n)
                       = step[<<Iterated(step, one, n - 1), n>>]
    <3> HIDE DEF step, I, one
    <3> QED  BY <2>1, <2>2, IteratedSteps, SMTT(60)
  <2>4. \A n : PowerOfTwo(n) = Iterated(step, one, n)
    BY DEF PowerOfTwo
  <2>5. \A n \in 0 .. k : I[n] = Nat \ {0}
    OBVIOUS
  <2> HIDE DEF step, I
  <2> QED  BY <2>3, <2>4, <2>5
<1>2. PowerOfTwo(0) = 1
  <2>1. 0 \in Nat /\ 0 \in 0 .. 0
    OBVIOUS
  <2> HIDE DEF step
  <2> QED  BY <1>1, <2>1
<1>3. ASSUME NEW n \in Nat
      PROVE  /\ PowerOfTwo(n) \in Nat \ {0}
             /\ PowerOfTwo(n + 1) = 2 * PowerOfTwo(n)
  <2>1. n + 1 \in Nat /\ n \in 0 .. n + 1 /\ n + 1 \in 0 .. n + 1
        /\ n + 1 # 0 /\ (n + 1) - 1 = n
    OBVIOUS
  <2>2. /\ PowerOfTwo(n) \in Nat \ {0}
        /\ PowerOfTwo(n + 1) = step[<<PowerOfTwo((n + 1) - 1), n + 1>>]
    <3> HIDE DEF step
    <3> QED  BY <1>1, <2>1
  <2> QED  BY <2>1, <2>2
<1>4. \A n \in Nat : n < PowerOfTwo(n)
  <2> DEFINE T == {n \in Nat : n < PowerOfTwo(n)}
  <2>1. 0 \in T
    BY <1>2
  <2>2. ASSUME NEW n \in Nat, n \in T PROVE n + 1 \in T
    BY <1>3, <2>2
  <2>3. Nat \subseteq T
    <3> HIDE DEF T
    <3> QED  BY <2>1, <2>2, SetInduction
  <2> QED  BY <2>3
<1> QED  BY <1>2, <1>3, <1>4

(* A finite set as a sequence.                                             *)
LEMMA SetAsSequence ==
  ASSUME NEW S, IsFiniteSet(S)
  PROVE  /\ SetToSeq(S) \in Seq(S) /\ Len(SetToSeq(S)) = Cardinality(S)
         /\ IsInjective(SetToSeq(S)) /\ Range(SetToSeq(S)) = S
<1> DEFINE n == Cardinality(S)
           f == SetToSeq(S)
<1>1. n \in Nat /\ ExistsBijection(1 .. n, S)
  BY FS_CardinalityType
<1>2. PICK g \in [1 .. n -> S] : IsInjective(g)
  BY <1>1, Zenon DEF ExistsBijection, Bijection, Injection
<1>3. f \in [1 .. n -> S] /\ IsInjective(f)
  BY <1>2, Zenon DEF SetToSeq
<1> HIDE DEF f
<1>4. f \in Seq(S) /\ Len(f) = n
  BY <1>1, <1>3
<1>5. Range(f) = S
  <2>1. IsFiniteSet(1 .. n) /\ Cardinality(1 .. n) = n
    BY <1>1, FS_Interval
  <2>2. f \in Injection(1 .. n, S)
    BY <1>3 DEF Injection
  <2>3. f \in Surjection(1 .. n, S)
    BY <1>1, <2>1, <2>2, FS_Surjection, FS_Injection
  <2> QED  BY <1>3, <2>3 DEF Range, Surjection
<1> QED  BY <1>3, <1>4, <1>5 DEF f
=============================================================================
