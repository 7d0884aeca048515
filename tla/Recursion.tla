------------------------------- MODULE Recursion -------------------------------
(***************************************************************************)
(* Induction over numbers, and what it says of functions that are defined   *)
(* by recursion, in a form without operator parameters: what is proved of   *)
(* every number is that a set contains it.  And what a function that        *)
(* collects a set step by step has collected in the end.                    *)
(***************************************************************************)
EXTENDS Integers, FiniteSetTheorems, TLAPS

\* A set with 0 and with the successor of each of its numbers contains them all.
LEMMA NatSetInduction ==
  ASSUME NEW S, 0 \in S, \A n \in Nat : n \in S => n + 1 \in S
  PROVE  Nat \subseteq S
<1> DEFINE T == Nat \ S
<1> SUFFICES ASSUME T # {} PROVE FALSE
  OBVIOUS
<1> DEFINE R == {ss \in Nat \X Nat : ss[1] < ss[2]}
<1>1. IsWellFoundedOn(R, Nat)
  BY NatLessThanWellFounded DEF OpToRel
<1>2. \E x \in T : \A y \in T : ~(<<y, x>> \in R)
  <2> HIDE DEF R
  <2>1. T \subseteq Nat
    OBVIOUS
  <2> HIDE DEF T
  <2>2. QED
    BY <1>1, <2>1, WFMin
<1>3. PICK x \in T : \A y \in T : ~(<<y, x>> \in R)
  BY <1>2
<1>4. x \in Nat /\ x # 0
  OBVIOUS
<1>5. x - 1 \in Nat /\ x - 1 \notin T
  <2>1. x - 1 \in Nat
    BY <1>4
  <2>2. ASSUME x - 1 \in T PROVE FALSE
    <3>1. <<x - 1, x>> \in R
      BY <1>4, <2>1
    <3>2. QED
      BY <1>3, <2>2, <3>1
  <2>3. QED
    BY <2>1, <2>2
<1>6. QED
  BY <1>4, <1>5

\* The same for the numbers up to n.
LEMMA IntervalInduction ==
  ASSUME NEW n \in Nat, NEW S, 0 \in S, \A i \in 1..n : i - 1 \in S => i \in S
  PROVE  0..n \subseteq S
<1> DEFINE T == {i \in Nat : i <= n => i \in S}
<1>1. 0 \in T
  OBVIOUS
<1>2. ASSUME NEW i \in Nat, i \in T PROVE i + 1 \in T
  <2> SUFFICES ASSUME i + 1 <= n PROVE i + 1 \in S
    OBVIOUS
  <2>1. i + 1 \in 1..n /\ (i + 1) - 1 = i /\ i \in S
    BY <1>2
  <2>2. QED
    BY <2>1
<1> HIDE DEF T
<1>3. Nat \subseteq T
  BY <1>1, <1>2, NatSetInduction
<1>4. QED
  BY <1>3 DEF T

\* Function f is what the recursion gives for the numbers up to n.
Follows(f, n, base, step) == f[0] = base /\ \A i \in 1..n : f[i] = step[<<i, f[i - 1]>>]

\* A recursion over the numbers up to n defines a function.
LEMMA IntervalRecursion ==
  ASSUME NEW n \in Nat, NEW S, NEW base \in S, NEW step \in [(1..n) \X S -> S]
  PROVE  \E f \in [0..n -> S] : Follows(f, n, base, step)
<1> DEFINE Ok(m, f) == /\ f \in [0..m -> S] /\ f[0] = base
                       /\ \A i \in 1..m : f[i] = step[<<i, f[i - 1]>>]
           D == {m \in Nat : \E f : Ok(m, f)}
<1>1. 0 \in D
  <2> DEFINE f == [i \in 0..0 |-> base]
  <2>1. Ok(0, f)
    OBVIOUS
  <2>2. QED
    BY <2>1
<1>2. ASSUME NEW m \in 1..n, m - 1 \in D PROVE m \in D
  <2>1. PICK f : Ok(m - 1, f)
    BY <1>2
  <2>2. m - 1 \in 0..(m - 1) /\ f[m - 1] \in S
    BY <2>1
  <2>3. step[<<m, f[m - 1]>>] \in S
    BY <2>2
  <2> DEFINE g == [i \in 0..m |-> IF i = m THEN step[<<m, f[m - 1]>>] ELSE f[i]]
  <2>4. \A i \in 0..m : i # m => i \in 0..(m - 1)
    OBVIOUS
  <2>5. g \in [0..m -> S]
    BY <2>1, <2>3, <2>4
  <2>6. g[0] = base
    BY <2>1
  <2>7. ASSUME NEW i \in 1..m PROVE g[i] = step[<<i, g[i - 1]>>]
    <3>1. i \in 0..m /\ i - 1 \in 0..m /\ i - 1 # m
      OBVIOUS
    <3>2. g[i - 1] = f[i - 1]
      BY <3>1
    <3>3. CASE i = m
      BY <3>1, <3>2, <3>3
    <3>4. CASE i # m
      <4>1. i \in 1..(m - 1) /\ g[i] = f[i]
        BY <3>1, <3>4
      <4>2. QED
        BY <2>1, <3>2, <4>1
    <3>5. QED
      BY <3>3, <3>4
  <2> HIDE DEF g
  <2>8. Ok(m, g) /\ m \in Nat
    BY <2>5, <2>6, <2>7
  <2>9. QED
    BY <2>8
<1> HIDE DEF Ok
<1>3. n \in 0..n /\ 0..n \subseteq D
  <2> HIDE DEF D
  <2>1. QED
    BY <1>1, <1>2, IntervalInduction
<1>4. PICK f : Ok(n, f)
  BY <1>3
<1>5. QED
  BY <1>4 DEF Ok, Follows

\* Function f is what the recursion along a tree gives, whose nodes are numbers above that
\* of their parent: the base for 0, its own value for a node in rooted, and else that of
\* the parent.
Inherits(f, n, base, rooted, own, parent) ==
  f[0] = base /\ \A b \in 1..n : f[b] = IF b \in rooted THEN own[b] ELSE f[parent[b]]

Inherited(f, n, base, rooted, own, parent) ==
  f = [b \in 0..n |-> IF b = 0 THEN base ELSE IF b \in rooted THEN own[b] ELSE f[parent[b]]]

\* Such a recursion defines a function.
LEMMA TreeRecursion ==
  ASSUME NEW n \in Nat, NEW base, NEW rooted, NEW own, NEW parent,
         \A b \in 1..n : parent[b] \in 0..(b - 1)
  PROVE  \E f : Inherited(f, n, base, rooted, own, parent)
<1> DEFINE Step(f, b) == IF b = 0 THEN base ELSE IF b \in rooted THEN own[b] ELSE f[parent[b]]
           Ok(m, f) == f = [b \in 0..m |-> Step(f, b)]
           D == {m \in Nat : \E f : Ok(m, f)}
<1>1. 0 \in D
  <2> DEFINE f == [b \in 0..0 |-> base]
  <2>1. Ok(0, f)
    OBVIOUS
  <2>2. QED
    BY <2>1
<1>2. ASSUME NEW m \in 1..n, m - 1 \in D PROVE m \in D
  <2>1. PICK f : Ok(m - 1, f)
    BY <1>2
  <2> DEFINE g == [b \in 0..m |-> IF b = m THEN Step(f, m) ELSE f[b]]
  <2>2. \A b \in 0..m : b # m => b \in 0..(m - 1) /\ g[b] = f[b]
    OBVIOUS
  <2>3. \A b \in 1..m : parent[b] \in 0..(b - 1) /\ parent[b] \in 0..m /\ parent[b] # m
    OBVIOUS
  <2>4. ASSUME NEW b \in 0..m PROVE g[b] = Step(f, b) /\ Step(f, b) = Step(g, b)
    <3>1. g[b] = Step(f, b)
      <4>1. CASE b = m
        BY <4>1
      <4>2. CASE b # m
        BY <2>1, <2>2, <4>2
      <4>3. QED
        BY <4>1, <4>2
    <3>2. Step(f, b) = Step(g, b)
      <4>1. CASE b = 0
        BY <4>1
      <4>2. CASE b # 0
        <5>1. b \in 1..m
          BY <4>2
        <5>2. g[parent[b]] = f[parent[b]]
          BY <2>2, <2>3, <5>1
        <5>3. QED
          BY <5>2
      <4>3. QED
        BY <4>1, <4>2
    <3>3. QED
      BY <3>1, <3>2
  <2>5. g = [b \in 0..m |-> g[b]]
    OBVIOUS
  <2> HIDE DEF g
  <2>6. g = [b \in 0..m |-> Step(g, b)]
    <3>1. \A b \in 0..m : g[b] = Step(g, b)
      BY <2>4
    <3> HIDE DEF Step
    <3>2. QED
      BY <2>5, <3>1
  <2>7. Ok(m, g) /\ m \in Nat
    BY <2>6
  <2>8. QED
    BY <2>7
<1> HIDE DEF Ok
<1>3. n \in 0..n /\ 0..n \subseteq D
  <2> HIDE DEF D
  <2>1. QED
    BY <1>1, <1>2, IntervalInduction
<1>4. PICK f : Ok(n, f)
  BY <1>3
<1>5. QED
  BY <1>4 DEF Ok, Inherited

\* Where two trees are the same, so are the functions.
LEMMA InheritsAlike ==
  ASSUME NEW n \in Nat, NEW base, NEW rooted, NEW own, NEW parent,
         \A b \in 1..n : parent[b] \in 0..(b - 1),
         NEW f, Inherits(f, n, base, rooted, own, parent),
         NEW g, Inherits(g, n, base, rooted, own, parent)
  PROVE  \A b \in 0..n : f[b] = g[b]
<1> DEFINE S == {m \in 0..n : \A b \in 0..m : f[b] = g[b]}
<1>1. 0 \in S
  BY DEF Inherits
<1>2. ASSUME NEW m \in 1..n, m - 1 \in S PROVE m \in S
  <2>1. \A b \in 0..(m - 1) : f[b] = g[b]
    BY <1>2
  <2>2. f[m] = g[m]
    BY <2>1 DEF Inherits
  <2>3. \A b \in 0..m : b \in 0..(m - 1) \/ b = m
    OBVIOUS
  <2>4. QED
    BY <2>1, <2>2, <2>3
<1> HIDE DEF S
<1>3. 0..n \subseteq S
  BY <1>1, <1>2, IntervalInduction
<1>4. n \in S
  BY <1>3
<1>5. QED
  BY <1>4 DEF S

\* Function f is a recursion over all numbers.
Repeats(f, base, step) == f = [d \in Nat |-> IF d = 0 THEN base ELSE step[f[d - 1]]]

\* Such a recursion defines a function.
LEMMA NatRecursion ==
  ASSUME NEW S, NEW base \in S, NEW step \in [S -> S]
  PROVE  \E f \in [Nat -> S] : Repeats(f, base, step)
<1> DEFINE Ok(n, f) == f \in [0..n -> S] /\ f[0] = base /\ \A i \in 1..n : f[i] = step[f[i - 1]]
           D == {n \in Nat : \E f : Ok(n, f)}
<1>1. 0 \in D
  <2> DEFINE f == [i \in 0..0 |-> base]
  <2>1. Ok(0, f)
    OBVIOUS
  <2>2. QED
    BY <2>1
<1>2. ASSUME NEW n \in Nat, n \in D PROVE n + 1 \in D
  <2>1. PICK f : Ok(n, f)
    BY <1>2
  <2>2. f[n] \in S /\ step[f[n]] \in S
    BY <2>1
  <2> DEFINE g == [i \in 0..(n + 1) |-> IF i = n + 1 THEN step[f[n]] ELSE f[i]]
  <2>3. \A i \in 0..(n + 1) : i # n + 1 => i \in 0..n
    OBVIOUS
  <2>4. g \in [0..(n + 1) -> S]
    BY <2>1, <2>2, <2>3
  <2>5. g[0] = base
    BY <2>1
  <2>6. ASSUME NEW i \in 1..(n + 1) PROVE g[i] = step[g[i - 1]]
    <3>1. i \in 0..(n + 1) /\ i - 1 \in 0..(n + 1) /\ i - 1 # n + 1
      OBVIOUS
    <3>2. g[i - 1] = f[i - 1]
      BY <3>1
    <3>3. CASE i = n + 1
      BY <3>1, <3>2, <3>3
    <3>4. CASE i # n + 1
      <4>1. i \in 1..n /\ g[i] = f[i]
        BY <3>1, <3>4
      <4>2. QED
        BY <2>1, <3>2, <4>1
    <3>5. QED
      BY <3>3, <3>4
  <2> HIDE DEF g
  <2>7. Ok(n + 1, g)
    BY <2>4, <2>5, <2>6
  <2>8. QED
    BY <2>7
<1> DEFINE F == [n \in Nat |-> CHOOSE f : Ok(n, f)]
<1>3. ASSUME NEW n \in Nat PROVE Ok(n, F[n])
  <2>1. Nat \subseteq D
    <3> HIDE DEF D
    <3> QED
      BY <1>1, <1>2, NatSetInduction
  <2>2. PICK f : Ok(n, f)
    BY <2>1
  <2>3. Ok(n, CHOOSE g : Ok(n, g))
    <3> HIDE DEF Ok
    <3> QED
      BY <2>2
  <2> QED
    BY <2>3
<1> HIDE DEF F
\* Functions for different numbers agree.
<1>4. ASSUME NEW n \in Nat PROVE \A i \in 0..n : F[n + 1][i] = F[n][i]
  <2> DEFINE A == {i \in 0..n : F[n + 1][i] = F[n][i]}
  <2>1. 0 \in A
    BY <1>3
  <2>2. ASSUME NEW i \in 1..n, i - 1 \in A PROVE i \in A
    <3>1. F[n][i] = step[F[n][i - 1]]
      BY <1>3
    <3>2. i \in 1..(n + 1)
      OBVIOUS
    <3>3. F[n + 1][i] = step[F[n + 1][i - 1]]
      BY <1>3, <3>2
    <3> QED
      BY <2>2, <3>1, <3>3
  <2> HIDE DEF A
  <2>3. 0..n \subseteq A
    BY <2>1, <2>2, IntervalInduction
  <2> QED
    BY <2>3 DEF A
<1> DEFINE h == [n \in Nat |-> F[n][n]]
<1>5. h \in [Nat -> S]
  <2>1. \A n \in Nat : F[n][n] \in S
    BY <1>3
  <2> QED
    BY <2>1
<1>6. ASSUME NEW d \in Nat PROVE h[d] = IF d = 0 THEN base ELSE step[h[d - 1]]
  <2>1. CASE d = 0
    BY <1>3, <2>1
  <2>2. CASE d # 0
    <3>1. PICK e \in Nat : d = e + 1 /\ e = d - 1
      BY <2>2
    <3>2. F[d][d] = step[F[d][d - 1]]
      <4>1. d \in 1..d
        BY <2>2
      <4> QED
        BY <1>3, <4>1
    <3>3. F[e + 1][e] = F[e][e]
      BY <1>4
    <3> QED
      BY <2>2, <3>1, <3>2, <3>3
  <2> QED
    BY <2>1, <2>2
<1> HIDE DEF h
<1>7. h = [d \in Nat |-> IF d = 0 THEN base ELSE step[h[d - 1]]]
  <2>1. h = [d \in Nat |-> h[d]]
    BY <1>5
  <2> QED
    BY <1>6, <2>1
<1>8. QED
  BY <1>5, <1>7 DEF Repeats

\* Function f grows a set, a step at a time.
Collects(f, V, first, step) ==
  /\ f \in [Nat -> SUBSET V] /\ step \in [SUBSET V -> SUBSET V]
  /\ f[0] = first
  /\ \A d \in Nat : f[d + 1] = f[d] \cup step[f[d]]

\* After as many steps as there are elements nothing is left to collect.
LEMMA CollectsAll ==
  ASSUME NEW V, IsFiniteSet(V), NEW n \in Nat, Cardinality(V) <= n,
         NEW f, NEW first, NEW step, Collects(f, V, first, step)
  PROVE  step[f[n]] \subseteq f[n] /\ first \subseteq f[n] /\ f[n] \subseteq V
<1> DEFINE D == {d \in Nat : /\ first \subseteq f[d]
                             /\ step[f[d]] \subseteq f[d] \/ Cardinality(f[d]) >= d}
<1>0. /\ \A d \in Nat : f[d] \in SUBSET V /\ step[f[d]] \in SUBSET V
      /\ \A d \in Nat : IsFiniteSet(f[d]) /\ Cardinality(f[d]) \in Nat
      /\ \A d \in Nat : f[d + 1] = f[d] \cup step[f[d]]
      /\ f[0] = first
  <2>1. \A d \in Nat : f[d] \in SUBSET V
    BY DEF Collects
  <2>2. \A d \in Nat : step[f[d]] \in SUBSET V
    BY <2>1 DEF Collects
  <2>3. \A d \in Nat : IsFiniteSet(f[d]) /\ Cardinality(f[d]) \in Nat
    BY <2>1, FS_Subset, FS_CardinalityType
  <2> QED
    BY <2>1, <2>2, <2>3 DEF Collects
<1>1. 0 \in D
  BY <1>0
<1>2. ASSUME NEW d \in Nat, d \in D PROVE d + 1 \in D
  <2>1. f[d + 1] = f[d] \cup step[f[d]] /\ d + 1 \in Nat
    BY <1>0
  <2>2. CASE step[f[d]] \subseteq f[d]
    <3>1. f[d + 1] = f[d]
      BY <2>1, <2>2
    <3> QED
      BY <1>2, <2>1, <2>2, <3>1
  <2>3. CASE ~(step[f[d]] \subseteq f[d])
    <3>1. f[d] \in SUBSET f[d + 1] /\ f[d] # f[d + 1]
      BY <2>1, <2>3
    <3>2. Cardinality(f[d]) <= Cardinality(f[d + 1]) /\ Cardinality(f[d]) # Cardinality(f[d + 1])
      BY <1>0, <2>1, <3>1, FS_Subset
    <3>3. Cardinality(f[d]) >= d /\ Cardinality(f[d]) \in Nat /\ Cardinality(f[d + 1]) \in Nat
      BY <1>0, <1>2, <2>1, <2>3
    <3>4. Cardinality(f[d + 1]) >= d + 1
      BY <3>2, <3>3
    <3>5. first \subseteq f[d + 1]
      BY <1>2, <2>1
    <3> QED
      BY <2>1, <3>4, <3>5
  <2> QED
    BY <2>2, <2>3
<1>3. n \in D
  <2> HIDE DEF D
  <2> QED
    BY <1>1, <1>2, NatSetInduction
<1>4. CASE step[f[n]] \subseteq f[n]
  BY <1>0, <1>3, <1>4
<1>5. CASE Cardinality(f[n]) >= n
  <2>1. f[n] \in SUBSET V /\ Cardinality(f[n]) <= Cardinality(V) /\ Cardinality(V) \in Nat
        /\ Cardinality(f[n]) \in Nat
    BY <1>0, FS_Subset, FS_CardinalityType
  <2>2. Cardinality(f[n]) = Cardinality(V)
    BY <1>5, <2>1
  <2>3. f[n] = V
    BY <2>1, <2>2, FS_Subset
  <2> QED
    BY <1>0, <1>3, <2>3
<1>6. QED
  BY <1>3, <1>4, <1>5

\* What is collected is in every set that holds the first elements and takes in every step.
LEMMA CollectsWithin ==
  ASSUME NEW V, NEW f, NEW first, NEW step, Collects(f, V, first, step), NEW n \in Nat,
         NEW W, first \subseteq W, \A X \in SUBSET V : X \subseteq W => step[X] \subseteq W
  PROVE  f[n] \subseteq W
<1> DEFINE D == {d \in Nat : f[d] \subseteq W}
<1>1. 0 \in D
  BY DEF Collects
<1>2. ASSUME NEW d \in Nat, d \in D PROVE d + 1 \in D
  <2>1. f[d] \in SUBSET V /\ f[d + 1] = f[d] \cup step[f[d]]
    BY DEF Collects
  <2>2. step[f[d]] \subseteq W
    BY <1>2, <2>1
  <2> QED
    BY <1>2, <2>1, <2>2
<1>3. n \in D
  <2> HIDE DEF D
  <2> QED
    BY <1>1, <1>2, NatSetInduction
<1>4. QED
  BY <1>3
=============================================================================
