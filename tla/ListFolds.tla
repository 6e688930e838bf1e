------------------------------- MODULE ListFolds -------------------------------
(***************************************************************************)
(* Induction, and what FoldLeft does step by step, whatever the operator   *)
(* Op is that it folds: k stands for all that does not change on the way.  *)
(***************************************************************************)
EXTENDS Naturals, Sequences, SequencesExt, NaturalsInduction, WellFoundedInduction, TLAPS

CONSTANT Op(_, _, _)

(* The natural numbers are well-ordered, and a set that has 0 and every    *)
(* successor of a member has them all.                                     *)
LEMMA Least ==
  ASSUME NEW T, T \subseteq Nat, T # {}
  PROVE  \E n \in T : \A m \in T : n <= m
<1>1. PICK n \in T : \A m \in T : ~(<<m, n>> \in OpToRel(<, Nat))
  BY NatLessThanWellFounded, WFMin
<1>2. \A m \in T : ~(m < n)
  BY <1>1 DEF OpToRel
<1>3. QED
  BY <1>2

LEMMA Inductive ==
  ASSUME NEW S, 0 \in S, \A n \in Nat : n \in S => n + 1 \in S
  PROVE  \A n \in Nat : n \in S
<1> DEFINE T == Nat \ S
<1>1. SUFFICES ASSUME T # {} PROVE FALSE
  OBVIOUS
<1>2. PICK n \in T : \A m \in T : n <= m
  BY <1>1, Least
<1>3. n - 1 \in Nat /\ n - 1 \notin T
  BY <1>2
<1>4. QED
  BY <1>3, <1>2

(* A set of numbers up to m has a greatest one.                            *)
LEMMA Greatest ==
  ASSUME NEW m \in Nat, NEW T \in SUBSET (1..m), T # {}
  PROVE  /\ Max(T) \in T
         /\ \A i \in T : i <= Max(T)
<1> DEFINE B == {n \in Nat : \A i \in T : i <= n}
<1>1. m \in B
  OBVIOUS
<1>2. PICK n \in B : \A j \in B : n <= j
  BY <1>1, Least
<1>3. n \in T
  <2>1. SUFFICES ASSUME n \notin T PROVE FALSE
    OBVIOUS
  <2>2. \A i \in T : i \in 1..m /\ i <= n - 1
    BY <2>1
  <2>3. n - 1 \in B
    <3>1. PICK i \in T : TRUE
      OBVIOUS
    <3>2. n \in Nat /\ i \in 1..m /\ i <= n - 1
      BY <2>2, <3>1
    <3>3. n - 1 \in Nat
      BY <3>2
    <3>4. QED
      BY <2>2, <3>3
  <2>4. QED
    BY <1>2, <2>3
<1>4. \E x \in T : \A y \in T : x >= y
  BY <1>3
<1>5. QED
  BY <1>4 DEF Max

-------------------------------------------------------------------------------
(* The function that FoldLeft reads its value from is there: it is built   *)
(* up from the sets of the first places of the list.                       *)
Folds(k, base, s, m, g) ==
  g = [T \in SUBSET (1..m) |->
         IF T = {} THEN base ELSE Op(k, g[T \ {Max(T)}], s[Max(T)])]

LEMMA FoldExists ==
  ASSUME NEW k, NEW base, NEW s
  PROVE  \A m \in Nat : \E g : Folds(k, base, s, m, g)
<1> DEFINE S == {m \in Nat : \E g : Folds(k, base, s, m, g)}
<1>1. 0 \in S
  <2> DEFINE g == [T \in SUBSET (1..0) |-> base]
  <2>1. \A T \in SUBSET (1..0) : T = {}
    OBVIOUS
  <2>2. Folds(k, base, s, 0, g)
    BY <2>1 DEF Folds
  <2>3. QED
    BY <2>2
<1>2. ASSUME NEW m \in Nat, m \in S PROVE m + 1 \in S
  <2>1. PICK g : Folds(k, base, s, m, g)
    BY <1>2
  <2> DEFINE h == [T \in SUBSET (1..(m + 1)) |->
                     IF m + 1 \in T THEN Op(k, g[T \ {m + 1}], s[m + 1]) ELSE g[T]]
  <2>2. ASSUME NEW T \in SUBSET (1..(m + 1))
        PROVE  h[T] = IF T = {} THEN base ELSE Op(k, h[T \ {Max(T)}], s[Max(T)])
    <3>1. CASE m + 1 \in T
      <4>1. Max(T) = m + 1
        <5>1. Max(T) \in T /\ \A i \in T : i <= Max(T)
          BY <3>1, Greatest, m + 1 \in Nat
        <5>2. Max(T) \in 1..(m + 1) /\ m + 1 <= Max(T)
          BY <3>1, <5>1
        <5>3. QED
          BY <5>2
      <4>2. T \ {m + 1} \in SUBSET (1..m)
        OBVIOUS
      <4>3. h[T \ {m + 1}] = g[T \ {m + 1}]
        BY <4>2
      <4>4. QED
        BY <3>1, <4>1, <4>3
    <3>2. CASE m + 1 \notin T
      <4>1. T \in SUBSET (1..m)
        BY <3>2
      <4>2. g[T] = IF T = {} THEN base ELSE Op(k, g[T \ {Max(T)}], s[Max(T)])
        BY <2>1, <4>1 DEF Folds
      <4>3. T \ {Max(T)} \in SUBSET (1..(m + 1)) /\ m + 1 \notin T \ {Max(T)}
        BY <3>2
      <4>4. h[T \ {Max(T)}] = g[T \ {Max(T)}] /\ h[T] = g[T]
        BY <3>2, <4>3
      <4> HIDE DEF h
      <4>5. QED
        BY <4>2, <4>4
    <3>3. QED
      BY <3>1, <3>2
  <2>3. h = [T \in SUBSET (1..(m + 1)) |-> h[T]]
    OBVIOUS
  <2> HIDE DEF h
  <2>4. Folds(k, base, s, m + 1, h)
    BY <2>2, <2>3 DEF Folds
  <2>5. QED
    BY <2>4
<1> HIDE DEF S
<1>3. \A m \in Nat : m \in S
  BY <1>1, <1>2, Inductive
<1>4. QED
  BY <1>3 DEF S

Fold(k, base, s) == FoldLeft(LAMBDA o, c : Op(k, o, c), base, s)

Steps(f, k, base, s) ==
  /\ f[0] = base
  /\ \A i \in 1..Len(s) : f[i] = Op(k, f[i - 1], s[i])
  /\ Fold(k, base, s) = f[Len(s)]

LEMMA FoldSteps ==
  ASSUME NEW k, NEW base, NEW s, Len(s) \in Nat, DOMAIN s = 1..Len(s)
  PROVE  \E f : Steps(f, k, base, s)
<1> DEFINE n == Len(s)
           g == CHOOSE g : Folds(k, base, s, n, g)
           f == [i \in 0..n |-> g[1..i]]
<1>1. Folds(k, base, s, n, g)
  BY FoldExists
<1>2. Fold(k, base, s) = g[1..n]
  BY DEF Fold, FoldLeft, MapThenFoldSet, Folds
<1> HIDE DEF g, n
<1>n. n \in Nat /\ n = Len(s)
  BY DEF n
<1>3. g[{}] = base /\ 1..0 = {}
  BY <1>1 DEF Folds
<1>4. ASSUME NEW i \in 1..n PROVE g[1..i] = Op(k, g[1..(i - 1)], s[i])
  <2>1. 1..i \in SUBSET (1..n) /\ 1..i # {}
    BY <1>n
  <2>2. Max(1..i) = i
    <3>1. Max(1..i) \in 1..i /\ \A j \in 1..i : j <= Max(1..i)
      BY <1>n, <2>1, Greatest
    <3>2. QED
      BY <3>1
  <2>3. (1..i) \ {i} = 1..(i - 1)
    OBVIOUS
  <2>4. QED
    BY <1>1, <2>1, <2>2, <2>3 DEF Folds
<1>5. f[0] = base /\ f[n] = g[1..n] /\ \A i \in 1..n : f[i] = Op(k, f[i - 1], s[i])
  BY <1>n, <1>3, <1>4
<1> HIDE DEF f
<1>6. Steps(f, k, base, s)
  BY <1>n, <1>2, <1>5 DEF Steps
<1>7. QED
  BY <1>6
===============================================================================
