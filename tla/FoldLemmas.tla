----------------------------- MODULE FoldLemmas ------------------------------
(***************************************************************************)
(* Facts about numbers, sequences and folds that the proofs of several     *)
(* components need.  Induction is by sets of naturals: the theorems of the *)
(* library that take a predicate are of no use to the provers at hand.     *)
(***************************************************************************)
EXTENDS Naturals, Sequences, FiniteSets, SequencesExt, WellFoundedInduction,
        SequenceTheorems, FiniteSetTheorems, TLAPS

(* Every set of naturals that is not empty has a smallest element. *)
LEMMA LeastNatural ==
  ASSUME NEW T \in SUBSET Nat, T # {}
  PROVE  \E x \in T : \A y \in T : x <= y
<1>1. \E x \in T : \A y \in T : ~(<<y, x>> \in OpToRel(<, Nat))
  BY WFMin, NatLessThanWellFounded
<1>2. PICK x \in T : \A y \in T : ~(<<y, x>> \in OpToRel(<, Nat))
  BY <1>1
<1>3. \A y \in T : ~(y < x)
  BY <1>2 DEF OpToRel
<1>4. x \in Nat /\ \A y \in T : y \in Nat
  OBVIOUS
<1>5. QED
  BY <1>3, <1>4

(* A set of naturals that holds 0 and all successors holds all naturals. *)
LEMMA NatSetInduction ==
  ASSUME NEW S \in SUBSET Nat, 0 \in S, \A n \in S : n + 1 \in S
  PROVE  S = Nat
<1> SUFFICES ASSUME Nat \ S # {} PROVE FALSE
  OBVIOUS
<1>1. PICK x \in Nat \ S : \A y \in Nat \ S : x <= y
  BY LeastNatural
<1>2. x # 0 /\ x - 1 \in Nat
  OBVIOUS
<1>3. x - 1 \in S
  BY <1>1, <1>2
<1>4. (x - 1) + 1 \in S
  BY <1>3
<1>5. QED
  BY <1>2, <1>4

LEMMA MinProperties ==
  ASSUME NEW T \in SUBSET Nat, T # {}
  PROVE  Min(T) \in T /\ \A y \in T : Min(T) <= y
BY LeastNatural DEF Min

LEMMA MaxProperties ==
  ASSUME NEW n \in Nat, NEW T \in SUBSET (1..n), T # {}
  PROVE  Max(T) \in T /\ \A y \in T : Max(T) >= y
<1> DEFINE S == {k \in Nat : \A U \in SUBSET (1..k) :
                                U # {} => \E x \in U : \A y \in U : x >= y}
<1>1. 0 \in S
  <2>1. 1..0 = {}
    OBVIOUS
  <2>2. QED
    BY <2>1
<1>2. ASSUME NEW k \in S PROVE k + 1 \in S
  <2> SUFFICES ASSUME NEW U \in SUBSET (1..(k + 1)), U # {}
               PROVE  \E x \in U : \A y \in U : x >= y
    OBVIOUS
  <2>1. CASE k + 1 \in U
    BY <2>1
  <2>2. CASE k + 1 \notin U
    <3>1. U \in SUBSET (1..k)
      BY <2>2
    <3>2. QED
      BY <3>1
  <2>3. QED
    BY <2>1, <2>2
<1>3. S = Nat
  <2>1. S \in SUBSET Nat
    OBVIOUS
  <2> HIDE DEF S
  <2>2. QED
    BY <1>1, <1>2, <2>1, NatSetInduction
<1>4. \E x \in T : \A y \in T : x >= y
  <2>1. n \in S
    BY <1>3
  <2>2. QED
    BY <2>1
<1>5. QED
  BY <1>4 DEF Max

LEMMA MaxOfInterval ==
  ASSUME NEW n \in Nat
  PROVE  Max(1..(n + 1)) = n + 1 /\ (1..(n + 1)) \ {n + 1} = 1..n
<1>1. Max(1..(n + 1)) \in 1..(n + 1) /\ \A y \in 1..(n + 1) : Max(1..(n + 1)) >= y
  <2>1. n + 1 \in Nat /\ n + 1 \in 1..(n + 1)
    OBVIOUS
  <2>2. QED
    BY <2>1, MaxProperties
<1>2. QED
  BY <1>1

-----------------------------------------------------------------------------
(* The function that FoldLeft chooses exists: G is the operation that is      *)
(* folded over the sequence s, from b on.                                     *)
Folding(g, G, b, s, D) ==
    \A t \in SUBSET D :
        g[t] = IF t = {} THEN b ELSE G[<<g[t \ {Max(t)}], s[Max(t)]>>]

FoldableTo(X, G, b, s, n) ==
    \E g \in [SUBSET (1..n) -> X] : Folding(g, G, b, s, 1..n)

LEMMA FoldExtends ==
  ASSUME NEW X, NEW E, NEW G \in [X \X E -> X], NEW b \in X, NEW s, NEW n \in Nat,
         s[n + 1] \in E, FoldableTo(X, G, b, s, n)
  PROVE  FoldableTo(X, G, b, s, n + 1)
<1>0. PICK g \in [SUBSET (1..n) -> X] : Folding(g, G, b, s, 1..n)
  BY Zenon DEF FoldableTo
<1> DEFINE h == [t \in SUBSET (1..(n + 1)) |->
                   IF n + 1 \in t THEN G[<<g[t \ {n + 1}], s[n + 1]>>] ELSE g[t]]
<1>1. ASSUME NEW t \in SUBSET (1..(n + 1)) PROVE h[t] \in X
  <2>1. CASE n + 1 \in t
    <3>1. t \ {n + 1} \in SUBSET (1..n)
      OBVIOUS
    <3>2. g[t \ {n + 1}] \in X
      BY <3>1
    <3>3. QED
      BY <2>1, <3>2
  <2>2. CASE n + 1 \notin t
    <3>1. t \in SUBSET (1..n)
      BY <2>2
    <3>2. QED
      BY <2>2, <3>1
  <2>3. QED
    BY <2>1, <2>2
<1>2. ASSUME NEW t \in SUBSET (1..(n + 1))
      PROVE  h[t] = IF t = {} THEN b ELSE G[<<h[t \ {Max(t)}], s[Max(t)]>>]
  <2>1. CASE n + 1 \in t
    <3>1. n + 1 \in Nat /\ Max(t) \in t /\ \A y \in t : Max(t) >= y
      <4>1. n + 1 \in Nat /\ t # {}
        BY <2>1
      <4>2. QED
        BY <4>1, MaxProperties
    <3>2. Max(t) = n + 1
      <4>1. Max(t) \in 1..(n + 1) /\ Max(t) >= n + 1
        BY <2>1, <3>1
      <4>2. QED
        BY <4>1
    <3>3. t \ {n + 1} \in SUBSET (1..n) /\ t \ {n + 1} \in SUBSET (1..(n + 1))
      OBVIOUS
    <3>4. h[t \ {n + 1}] = g[t \ {n + 1}]
      BY <3>3
    <3>5. QED
      BY <2>1, <3>2, <3>4
  <2>2. CASE n + 1 \notin t
    <3>1. t \in SUBSET (1..n)
      BY <2>2
    <3>2. h[t] = g[t]
      BY <2>2
    <3>3. CASE t = {}
      BY <1>0, <3>1, <3>2, <3>3 DEF Folding
    <3>4. CASE t # {}
      <4>1. t \ {Max(t)} \in SUBSET (1..(n + 1)) /\ n + 1 \notin t \ {Max(t)}
        BY <2>2
      <4>2. h[t \ {Max(t)}] = g[t \ {Max(t)}]
        BY <4>1
      <4>3. g[t] = G[<<g[t \ {Max(t)}], s[Max(t)]>>]
        BY <1>0, <3>1, <3>4 DEF Folding
      <4>4. QED
        BY <3>2, <3>4, <4>2, <4>3
    <3>5. QED
      BY <3>3, <3>4
  <2>3. QED
    BY <2>1, <2>2
<1>3. h \in [SUBSET (1..(n + 1)) -> X]
  BY <1>1
<1> HIDE DEF h
<1>4. Folding(h, G, b, s, 1..(n + 1))
  BY <1>2 DEF Folding
<1>5. QED
  BY <1>3, <1>4, Zenon DEF FoldableTo

LEMMA FoldExists ==
  ASSUME NEW X, NEW E, NEW G \in [X \X E -> X], NEW b \in X, NEW s \in Seq(E)
  PROVE  \E g \in [SUBSET (DOMAIN s) -> X] : Folding(g, G, b, s, DOMAIN s)
<1> DEFINE S == {n \in Nat : n <= Len(s) => FoldableTo(X, G, b, s, n)}
<1>1. 0 \in S
  <2> DEFINE g == [t \in SUBSET (1..0) |-> b]
  <2>1. 1..0 = {}
    OBVIOUS
  <2>2. g \in [SUBSET (1..0) -> X] /\ Folding(g, G, b, s, 1..0)
    BY <2>1 DEF Folding
  <2> HIDE DEF g
  <2>3. QED
    BY <2>2 DEF FoldableTo
<1>2. ASSUME NEW n \in S PROVE n + 1 \in S
  <2>1. n \in Nat /\ (n + 1 <= Len(s) => n <= Len(s) /\ s[n + 1] \in E)
    OBVIOUS
  <2>2. ASSUME n + 1 <= Len(s) PROVE FoldableTo(X, G, b, s, n + 1)
    <3>1. FoldableTo(X, G, b, s, n)
      BY <2>1, <2>2
    <3>2. n \in Nat /\ s[n + 1] \in E
      BY <2>1, <2>2
    <3> HIDE DEF S
    <3>3. QED
      BY <3>1, <3>2, FoldExtends
  <2>3. QED
    BY <2>1, <2>2
<1>3. S = Nat
  <2>1. S \in SUBSET Nat
    OBVIOUS
  <2> HIDE DEF S
  <2>2. QED
    BY <1>1, <1>2, <2>1, NatSetInduction
<1>4. Len(s) \in S /\ DOMAIN s = 1..Len(s)
  BY <1>3
<1>5. FoldableTo(X, G, b, s, Len(s))
  BY <1>4
<1> HIDE DEF S
<1>6. QED
  BY <1>4, <1>5, Zenon DEF FoldableTo

(* What holds of the first value of a fold and is handed on from each value  *)
(* to the next holds of the last: I[k] are the values that are possible      *)
(* after k elements.                                                         *)
LEMMA FoldInvariant ==
  ASSUME NEW n \in Nat, NEW h, NEW I,
         h[1..0] \in I[0],
         \A k \in Nat : k < n /\ h[1..k] \in I[k] => h[1..(k + 1)] \in I[k + 1]
  PROVE  h[1..n] \in I[n]
<1> DEFINE S == {k \in Nat : k <= n => h[1..k] \in I[k]}
<1>1. 0 \in S
  OBVIOUS
<1>2. ASSUME NEW k \in S PROVE k + 1 \in S
  OBVIOUS
<1>3. S \in SUBSET Nat
  OBVIOUS
<1>4. n \in Nat /\ n <= n
  OBVIOUS
<1>5. S = Nat
  <2> HIDE DEF S
  <2>1. QED
    BY <1>1, <1>2, <1>3, NatSetInduction
<1>6. QED
  BY <1>4, <1>5

(* The steps of a fold over s, in the form in which FoldLeft chooses it: the *)
(* set of the first k + 1 indices, its maximum, and what is left of it.      *)
LEMMA FirstIndices ==
  ASSUME NEW E, NEW s \in Seq(E), NEW k \in Nat, k < Len(s)
  PROVE  /\ 1..(k + 1) \in SUBSET (DOMAIN s) /\ 1..(k + 1) # {}
         /\ Max(1..(k + 1)) = k + 1
         /\ (1..(k + 1)) \ {k + 1} = 1..k
         /\ s[k + 1] \in E
<1>1. 1 \in 1..(k + 1) /\ DOMAIN s = 1..Len(s) /\ Len(s) \in Nat /\ k + 1 \in 1..Len(s)
  OBVIOUS
<1>2. \A i \in 1..(k + 1) : i \in 1..Len(s)
  BY <1>1
<1>3. Max(1..(k + 1)) = k + 1 /\ (1..(k + 1)) \ {k + 1} = 1..k
  BY MaxOfInterval
<1>4. QED
  BY <1>1, <1>2, <1>3

LEMMA NoIndices ==
  ASSUME NEW E, NEW s \in Seq(E)
  PROVE  1..0 = {} /\ 1..0 \in SUBSET (DOMAIN s) /\ DOMAIN s = 1..Len(s) /\ Len(s) \in Nat
OBVIOUS

(* A set of indices that is not empty has a maximum, with an element there.  *)
LEMMA LastIndex ==
  ASSUME NEW E, NEW s \in Seq(E), NEW t \in SUBSET (DOMAIN s), t # {}
  PROVE  t \ {Max(t)} \in SUBSET (DOMAIN s) /\ s[Max(t)] \in E
<1>1. Len(s) \in Nat /\ t \in SUBSET (1..Len(s)) /\ DOMAIN s = 1..Len(s)
  OBVIOUS
<1>2. Max(t) \in t
  BY <1>1, MaxProperties
<1>3. QED
  BY <1>1, <1>2

-----------------------------------------------------------------------------
(* The elements of a sequence, and sequences that hold no element twice.     *)
LEMMA ElementsOf ==
  ASSUME NEW E, NEW s \in Seq(E)
  PROVE  ToSet(s) \subseteq E /\ (ToSet(s) = {} => s = <<>>)
BY DEF ToSet

LEMMA InItsElements ==
  ASSUME NEW E, NEW s \in Seq(E), NEW F, ToSet(s) \subseteq F
  PROVE  s \in Seq(F)
<1>1. \A i \in DOMAIN s : s[i] \in ToSet(s)
  BY Zenon DEF ToSet
<1>2. \A i \in 1..Len(s) : s[i] \in F
  BY <1>1
<1>3. QED
  BY <1>2

LEMMA ElementsOfAppend ==
  ASSUME NEW E, NEW s \in Seq(E), NEW e \in E
  PROVE  /\ Append(s, e) \in Seq(E) /\ ToSet(Append(s, e)) = ToSet(s) \union {e}
         /\ IsInjective(s) /\ e \notin ToSet(s) => IsInjective(Append(s, e))
<1> DEFINE a == Append(s, e)
           n == Len(s)
<1>1. /\ n \in Nat /\ a \in Seq(E) /\ DOMAIN s = 1..n /\ DOMAIN a = 1..(n + 1)
      /\ a[n + 1] = e /\ \A i \in 1..n : a[i] = s[i]
  OBVIOUS
<1> HIDE DEF a, n
<1>2. \A i \in 1..(n + 1) : i \in 1..n \/ i = n + 1
  BY <1>1
<1>3. \A i \in 1..n : i \in 1..(n + 1) /\ n + 1 \in 1..(n + 1)
  BY <1>1
<1>4. n + 1 \in 1..(n + 1)
  BY <1>1
<1>5. ToSet(a) = ToSet(s) \union {e}
  BY <1>1, <1>2, <1>3, <1>4, Zenon DEF ToSet
<1>6. ASSUME IsInjective(s), e \notin ToSet(s) PROVE IsInjective(a)
  <2>1. \A i \in 1..n : s[i] # e
    BY <1>1, <1>6 DEF ToSet
  <2>2. \A i, j \in 1..n : s[i] = s[j] => i = j
    BY <1>1, <1>6 DEF IsInjective
  <2>3. \A i, j \in 1..(n + 1) : a[i] = a[j] => i = j
    BY <1>1, <1>2, <2>1, <2>2
  <2>4. QED
    BY <1>1, <2>3 DEF IsInjective
<1>7. QED
  BY <1>1, <1>5, <1>6 DEF a

LEMMA ElementsOfConcat ==
  ASSUME NEW E, NEW s \in Seq(E), NEW t \in Seq(E)
  PROVE  /\ s \o t \in Seq(E) /\ ToSet(s \o t) = ToSet(s) \union ToSet(t)
         /\ IsInjective(s) /\ IsInjective(t) /\ ToSet(s) \cap ToSet(t) = {}
               => IsInjective(s \o t)
<1> DEFINE c == s \o t
           m == Len(s)
           n == Len(t)
<1>1. /\ m \in Nat /\ n \in Nat /\ c \in Seq(E)
      /\ DOMAIN s = 1..m /\ DOMAIN t = 1..n /\ DOMAIN c = 1..(m + n)
      /\ \A i \in 1..m : c[i] = s[i]
      /\ \A i \in 1..n : c[m + i] = t[i]
  OBVIOUS
<1> HIDE DEF c, m, n
<1>2. \A i \in 1..(m + n) : i \in 1..m \/ \E j \in 1..n : i = m + j
  <2>1. ASSUME NEW i \in 1..(m + n), i \notin 1..m PROVE i - m \in 1..n /\ i = m + (i - m)
    BY <1>1, <2>1
  <2>2. QED
    BY <2>1
<1>3. (\A i \in 1..m : i \in 1..(m + n)) /\ (\A i \in 1..n : m + i \in 1..(m + n))
  BY <1>1
<1>4. ToSet(c) = ToSet(s) \union ToSet(t)
  <2>1. ASSUME NEW i \in 1..(m + n) PROVE c[i] \in ToSet(s) \union ToSet(t)
    BY <1>1, <1>2 DEF ToSet
  <2>2. ASSUME NEW i \in 1..m PROVE s[i] \in ToSet(c)
    BY <1>1, <1>3, Zenon DEF ToSet
  <2>3. ASSUME NEW i \in 1..n PROVE t[i] \in ToSet(c)
    BY <1>1, <1>3, Zenon DEF ToSet
  <2>4. QED
    BY <1>1, <2>1, <2>2, <2>3 DEF ToSet
<1>5. ASSUME IsInjective(s), IsInjective(t), ToSet(s) \cap ToSet(t) = {}
      PROVE  IsInjective(c)
  <2>1. \A i, j \in 1..m : s[i] = s[j] => i = j
    BY <1>1, <1>5 DEF IsInjective
  <2>2. \A i, j \in 1..n : t[i] = t[j] => i = j
    BY <1>1, <1>5 DEF IsInjective
  <2>3. \A i \in 1..m, j \in 1..n : s[i] # t[j]
    BY <1>1, <1>5 DEF ToSet
  <2>4. ASSUME NEW i \in 1..(m + n), NEW j \in 1..(m + n), c[i] = c[j] PROVE i = j
    <3>1. CASE i \in 1..m /\ j \in 1..m
      BY <1>1, <2>1, <2>4, <3>1
    <3>2. CASE i \in 1..m /\ j \notin 1..m
      <4>1. PICK q \in 1..n : j = m + q
        BY <1>2, <3>2
      <4>2. c[i] = s[i] /\ c[j] = t[q]
        BY <1>1, <3>2, <4>1
      <4>3. QED
        BY <2>3, <2>4, <3>2, <4>2
    <3>3. CASE i \notin 1..m /\ j \in 1..m
      <4>1. PICK p \in 1..n : i = m + p
        BY <1>2, <3>3
      <4>2. c[i] = t[p] /\ c[j] = s[j]
        BY <1>1, <3>3, <4>1
      <4>3. QED
        BY <2>3, <2>4, <3>3, <4>2
    <3>4. CASE i \notin 1..m /\ j \notin 1..m
      <4>1. PICK p \in 1..n, q \in 1..n : i = m + p /\ j = m + q
        BY <1>2, <3>4
      <4>2. c[i] = t[p] /\ c[j] = t[q]
        BY <1>1, <4>1
      <4>3. p = q
        BY <2>2, <2>4, <4>2
      <4>4. QED
        BY <4>1, <4>3
    <3>5. QED
      BY <3>1, <3>2, <3>3, <3>4
  <2>5. QED
    BY <1>1, <2>4 DEF IsInjective
<1>6. QED
  BY <1>1, <1>4, <1>5 DEF c
==============================================================================
