------------------------- MODULE PipelineDag_proofs -------------------------
(***************************************************************************)
(* topological_sort is sound for every graph: each order it returns lists  *)
(* every node once, every edge points forward, and no sink comes before a  *)
(* transform.                                                              *)
(*                                                                         *)
(* The algorithm is a recursive function, so the proof is by induction.    *)
(* The induction theorems of the library take an operator, which the       *)
(* provers cannot instantiate; the first section restates induction and    *)
(* recursion with a set and a function in its place.                       *)
(***************************************************************************)
EXTENDS PipelineDag, FiniteSetTheorems, WellFoundedInduction, TLAPS

-----------------------------------------------------------------------------
(* Induction and recursion over natural numbers. *)

\* Every non-empty set of natural numbers has a least element.
LEMMA LeastElement ==
  ASSUME NEW T \in SUBSET Nat, T # {}
  PROVE  \E x \in T : \A y \in T : x <= y
<1> DEFINE R == {ss \in Nat \X Nat : ss[1] < ss[2]}
<1>1. IsWellFoundedOn(R, Nat)
  BY NatLessThanWellFounded DEF OpToRel
<1> HIDE DEF R
<1>2. PICK x \in T : \A y \in T : ~(<<y, x>> \in R)
  BY <1>1, WFMin
<1>3. \A y \in T : ~(y < x)
  BY <1>2 DEF R
<1> QED
  BY <1>3

\* What holds of 0 and passes from each number below n to the next holds up to n.
LEMMA InductionUpTo ==
  ASSUME NEW n \in Nat, NEW S, 0 \in S, \A i \in 1..n : i - 1 \in S => i \in S
  PROVE  0..n \subseteq S
<1> DEFINE T == {i \in 0..n : i \notin S}
<1> SUFFICES ASSUME T # {} PROVE FALSE
  OBVIOUS
<1>0. T \in SUBSET Nat
  OBVIOUS
<1>1. PICK x \in T : \A y \in T : x <= y
  <2> HIDE DEF T
  <2> QED
    BY <1>0, LeastElement
<1>2. x \in 1..n
  BY <1>1
<1>3. x - 1 \in 0..n /\ x - 1 \notin T
  BY <1>1, <1>2
<1> QED
  BY <1>1, <1>2, <1>3

\* A step g defines a function on 0..n from its value at 0.
Iterates(f, X, x0, n, g) ==
  f \in [0..n -> X] /\ f[0] = x0 /\ \A i \in 1..n : f[i] = g[i][f[i - 1]]

\* An iteration of n rounds exists: the rounds it can be built for have no end before n.
LEMMA RecursionExists ==
  ASSUME NEW X, NEW x0 \in X, NEW n \in Nat, NEW g \in [1..n -> [X -> X]]
  PROVE  \E f : Iterates(f, X, x0, n, g)
<1> DEFINE Upto(k) == \E f \in [0..k -> X] : f[0] = x0 /\ \A i \in 1..k : f[i] = g[i][f[i - 1]]
           S == {k \in 0..n : Upto(k)}
<1>1. 0 \in S
  <2> DEFINE h == [i \in 0..0 |-> x0]
  <2>1. h \in [0..0 -> X] /\ h[0] = x0 /\ \A i \in 1..0 : h[i] = g[i][h[i - 1]]
    OBVIOUS
  <2> HIDE DEF h
  <2>2. Upto(0)
    BY <2>1
  <2> HIDE DEF Upto
  <2> QED
    BY <2>2
<1>2. ASSUME NEW k \in 1..n, k - 1 \in S PROVE k \in S
  <2>1. PICK f \in [0..(k - 1) -> X] : f[0] = x0 /\ \A i \in 1..(k - 1) : f[i] = g[i][f[i - 1]]
    BY <1>2
  <2> DEFINE h == [i \in 0..k |-> IF i = k THEN g[k][f[k - 1]] ELSE f[i]]
  <2>2. f[k - 1] \in X /\ g[k] \in [X -> X]
    BY <2>1
  <2>3. h \in [0..k -> X]
    BY <2>1, <2>2
  <2>4. h[0] = x0 /\ \A i \in 1..k : h[i] = g[i][h[i - 1]]
    BY <2>1
  <2> HIDE DEF h
  <2>5. Upto(k)
    BY <2>3, <2>4
  <2> HIDE DEF Upto
  <2> QED
    BY <2>5
<1> HIDE DEF S
<1>3. 0..n \subseteq S
  BY <1>1, <1>2, InductionUpTo
<1>4. n \in S
  BY <1>3
<1> QED
  BY <1>4 DEF S, Iterates

-----------------------------------------------------------------------------
(* Select. *)

\* The recursion that defines Select.
Takes(f, s, A) ==
  f = [i \in 0..Len(s) |-> IF i = 0 THEN << >>
                           ELSE IF s[i] \in A THEN Append(f[i - 1], s[i]) ELSE f[i - 1]]

\* Select is the last value of a function that satisfies its recursion.
LEMMA SelectRecursion ==
  ASSUME NEW D, NEW s \in Seq(D), NEW A
  PROVE  \E f : Takes(f, s, A) /\ Select(s, A) = f[Len(s)]
<1> DEFINE n == Len(s)
           g == [i \in 1..n |-> [x \in Seq(D) |-> IF s[i] \in A THEN Append(x, s[i]) ELSE x]]
<1>1. n \in Nat /\ << >> \in Seq(D) /\ \A i \in 1..n : s[i] \in D
  OBVIOUS
<1>2. g \in [1..n -> [Seq(D) -> Seq(D)]]
  BY <1>1
<1> HIDE DEF n
<1>3. PICK f \in [0..n -> Seq(D)] : f[0] = << >> /\ \A i \in 1..n : f[i] = g[i][f[i - 1]]
  <2> DEFINE e == << >>
             X == Seq(D)
  <2>1. e \in X /\ g \in [1..n -> [X -> X]]
    BY <1>1, <1>2
  <2> HIDE DEF g, e, X
  <2>2. \E f : Iterates(f, X, e, n, g)
    BY <1>1, <2>1, RecursionExists
  <2> QED
    BY <2>2 DEF e, X, Iterates
<1>4. \A i \in 1..n : f[i - 1] \in Seq(D)
  BY <1>1, <1>3
<1>5. \A i \in 1..n : f[i] = IF s[i] \in A THEN Append(f[i - 1], s[i]) ELSE f[i - 1]
  BY <1>3, <1>4
<1>6. f = [i \in 0..n |-> IF i = 0 THEN << >>
                          ELSE IF s[i] \in A THEN Append(f[i - 1], s[i]) ELSE f[i - 1]]
  <2>1. \A i \in 0..n : i # 0 => i \in 1..n
    BY <1>1
  <2> QED
    BY <1>3, <1>5, <2>1
<1>7. \E F : Takes(F, s, A)
  BY <1>6 DEF n, Takes
<1>8. Takes(CHOOSE F : Takes(F, s, A), s, A)
  BY <1>7
<1>9. Select(s, A) = (CHOOSE F : Takes(F, s, A))[Len(s)]
  BY DEF Select, Takes
<1> QED
  BY <1>8, <1>9

\* r consists of the elements of s up to position n that are in A: m says where
\* each one comes from.
Picked(r, s, n, A, m) ==
  /\ m \in [1..Len(r) -> 1..n]
  /\ \A k, l \in 1..Len(r) : k < l => m[k] < m[l]
  /\ \A k \in 1..Len(r) : r[k] = s[m[k]] /\ r[k] \in A
  /\ \A j \in 1..n : s[j] \in A => \E k \in 1..Len(r) : m[k] = j

\* One more position.
LEMMA PickStep ==
  ASSUME NEW D, NEW s \in Seq(D), NEW A, NEW i \in 1..Len(s),
         NEW r \in Seq(D), NEW m, Picked(r, s, i - 1, A, m)
  PROVE  IF s[i] \in A
         THEN Picked(Append(r, s[i]), s, i, A, [k \in 1..(Len(r) + 1) |-> IF k = Len(r) + 1 THEN i ELSE m[k]])
         ELSE Picked(r, s, i, A, m)
<1>0. s[i] \in D /\ Len(r) \in Nat /\ i \in Nat
  OBVIOUS
<1>1. CASE s[i] \in A
  <2> DEFINE q == Append(r, s[i])
             w == [k \in 1..(Len(r) + 1) |-> IF k = Len(r) + 1 THEN i ELSE m[k]]
  <2>1. /\ Len(q) = Len(r) + 1 /\ q[Len(r) + 1] = s[i]
        /\ \A k \in 1..Len(r) : q[k] = r[k]
    BY <1>0
  <2>2. /\ w[Len(r) + 1] = i /\ \A k \in 1..Len(r) : w[k] = m[k]
        /\ DOMAIN w = 1..(Len(r) + 1)
    BY <1>0
  <2>3. \A k \in 1..(Len(r) + 1) : k = Len(r) + 1 \/ k \in 1..Len(r)
    BY <1>0
  <2>4. \A k \in 1..Len(r) : m[k] \in 1..(i - 1)
    BY DEF Picked
  <2>5. w \in [1..(Len(r) + 1) -> 1..i]
    BY <1>0, <2>3, <2>4
  <2> HIDE DEF q, w
  <2>6. \A k, l \in 1..Len(q) : k < l => w[k] < w[l]
    BY <1>0, <2>1, <2>2, <2>3, <2>4 DEF Picked
  <2>7. \A k \in 1..Len(q) : q[k] = s[w[k]] /\ q[k] \in A
    BY <1>0, <1>1, <2>1, <2>2, <2>3 DEF Picked
  <2>8. ASSUME NEW j \in 1..i, s[j] \in A PROVE \E k \in 1..Len(q) : w[k] = j
    <3>1. CASE j = i
      BY <1>0, <2>1, <2>2, <3>1
    <3>2. CASE j # i
      <4>1. j \in 1..(i - 1)
        BY <3>2
      <4>2. PICK k \in 1..Len(r) : m[k] = j
        BY <2>8, <4>1 DEF Picked
      <4> QED
        BY <1>0, <2>1, <2>2, <4>2
    <3> QED
      BY <3>1, <3>2
  <2>9. Picked(q, s, i, A, w)
    BY <2>1, <2>5, <2>6, <2>7, <2>8 DEF Picked
  <2> QED
    BY <1>1, <2>9 DEF q, w
<1>2. CASE s[i] \notin A
  <2>1. \A k \in 1..Len(r) : m[k] \in 1..(i - 1)
    BY DEF Picked
  <2>2. m \in [1..Len(r) -> 1..i]
    BY <1>0, <2>1 DEF Picked
  <2>3. ASSUME NEW j \in 1..i, s[j] \in A PROVE j \in 1..(i - 1)
    BY <1>2, <2>3
  <2>4. \A j \in 1..i : s[j] \in A => \E k \in 1..Len(r) : m[k] = j
    BY <2>3 DEF Picked
  <2> QED
    BY <1>2, <2>2, <2>4 DEF Picked
<1> QED
  BY <1>1, <1>2

\* Select keeps exactly the elements in A, in their order.
LEMMA SelectPicks ==
  ASSUME NEW D, NEW s \in Seq(D), NEW A
  PROVE  Select(s, A) \in Seq(D) /\ \E m : Picked(Select(s, A), s, Len(s), A, m)
<1>1. PICK f : Takes(f, s, A) /\ Select(s, A) = f[Len(s)]
  BY SelectRecursion
<1>2. /\ Len(s) \in Nat /\ f[0] = << >>
      /\ \A i \in 1..Len(s) : f[i] = IF s[i] \in A THEN Append(f[i - 1], s[i]) ELSE f[i - 1]
  <2> DEFINE b(i) == IF i = 0 THEN << >>
                     ELSE IF s[i] \in A THEN Append(f[i - 1], s[i]) ELSE f[i - 1]
  <2>1. f = [i \in 0..Len(s) |-> b(i)]
    BY <1>1 DEF Takes
  <2>2. Len(s) \in Nat
    OBVIOUS
  <2> HIDE DEF b
  <2>3. \A i \in 0..Len(s) : f[i] = b(i)
    BY <2>1
  <2>4. f[0] = << >>
    BY <2>2, <2>3 DEF b
  <2>5. ASSUME NEW i \in 1..Len(s)
        PROVE  f[i] = IF s[i] \in A THEN Append(f[i - 1], s[i]) ELSE f[i - 1]
    <3>1. f[i] = b(i) /\ i # 0
      BY <2>2, <2>3
    <3> QED
      BY <3>1 DEF b
  <2> QED
    BY <2>2, <2>4, <2>5
<1> DEFINE Ok(i) == f[i] \in Seq(D) /\ \E m : Picked(f[i], s, i, A, m)
           S == {i \in 0..Len(s) : Ok(i)}
<1>3. 0 \in S
  <2> DEFINE m == [k \in 1..0 |-> 1]
  <2>1. f[0] \in Seq(D) /\ Len(f[0]) = 0
    BY <1>2
  <2>2. Picked(f[0], s, 0, A, m)
    BY <2>1 DEF Picked
  <2> HIDE DEF m
  <2>3. Ok(0)
    BY <2>1, <2>2
  <2> HIDE DEF Ok
  <2> QED
    BY <1>2, <2>3
<1>4. ASSUME NEW i \in 1..Len(s), i - 1 \in S PROVE i \in S
  <2>1. PICK m : f[i - 1] \in Seq(D) /\ Picked(f[i - 1], s, i - 1, A, m)
    BY <1>4
  <2>2. s[i] \in D
    OBVIOUS
  <2> DEFINE r == f[i - 1]
  <2>3. f[i] = IF s[i] \in A THEN Append(r, s[i]) ELSE r
    BY <1>2
  <2> HIDE DEF r
  <2>4. r \in Seq(D) /\ Picked(r, s, i - 1, A, m)
    BY <2>1 DEF r
  <2>5. f[i] \in Seq(D)
    BY <2>2, <2>3, <2>4
  <2>6. \E w : Picked(f[i], s, i, A, w)
    <3>1. IF s[i] \in A
          THEN Picked(Append(r, s[i]), s, i, A, [k \in 1..(Len(r) + 1) |-> IF k = Len(r) + 1 THEN i ELSE m[k]])
          ELSE Picked(r, s, i, A, m)
      BY <2>4, PickStep
    <3> QED
      BY <2>3, <3>1
  <2>7. Ok(i)
    BY <2>5, <2>6
  <2> HIDE DEF Ok
  <2> QED
    BY <2>7
<1> HIDE DEF Ok, S
<1>5. 0..Len(s) \subseteq S
  BY <1>2, <1>3, <1>4, InductionUpTo
<1>6. Len(s) \in S
  BY <1>2, <1>5
<1>7. Ok(Len(s))
  BY <1>6 DEF S
<1> QED
  BY <1>1, <1>7 DEF Ok

\* What follows for a sequence without repetitions: so is what is selected, and
\* it contains every element in A.
NoRepeats(s) == \A i, j \in 1..Len(s) : s[i] = s[j] => i = j

\* A selection is a sequence of the same elements without repeats.
LEMMA SelectFacts ==
  ASSUME NEW D, NEW s \in Seq(D), NoRepeats(s), NEW A
  PROVE  /\ Select(s, A) \in Seq(D) /\ NoRepeats(Select(s, A))
         /\ Range(Select(s, A)) = Range(s) \cap A
<1> DEFINE r == Select(s, A)
<1>1. PICK m : r \in Seq(D) /\ Picked(r, s, Len(s), A, m)
  BY SelectPicks
<1> HIDE DEF r
<1>2. NoRepeats(r)
  <2> SUFFICES ASSUME NEW i \in 1..Len(r), NEW j \in 1..Len(r), r[i] = r[j], i # j PROVE FALSE
    BY DEF NoRepeats
  <2>1. m[i] = m[j]
    BY <1>1 DEF Picked, NoRepeats
  <2>2. i < j \/ j < i
    BY <1>1
  <2>3. m[i] \in Nat /\ m[j] \in Nat
    BY <1>1 DEF Picked
  <2> QED
    BY <1>1, <2>1, <2>2, <2>3 DEF Picked
<1>3. DOMAIN r = 1..Len(r) /\ DOMAIN s = 1..Len(s)
  BY <1>1
<1>4. ASSUME NEW x \in Range(r) PROVE x \in Range(s) /\ x \in A
  <2>1. PICK k \in 1..Len(r) : x = r[k]
    BY <1>3 DEF Range
  <2>2. m[k] \in 1..Len(s) /\ r[k] = s[m[k]] /\ r[k] \in A
    BY <1>1 DEF Picked
  <2> QED
    BY <1>3, <2>1, <2>2 DEF Range
<1>5. ASSUME NEW x \in Range(s), x \in A PROVE x \in Range(r)
  <2>1. PICK j \in 1..Len(s) : x = s[j]
    BY <1>3 DEF Range
  <2>2. PICK k \in 1..Len(r) : m[k] = j
    BY <1>1, <1>5, <2>1 DEF Picked
  <2>3. r[k] = x
    BY <1>1, <2>1, <2>2 DEF Picked
  <2> QED
    BY <1>3, <2>3 DEF Range
<1> QED
  BY <1>1, <1>2, <1>4, <1>5 DEF r

-----------------------------------------------------------------------------
(* Sequences without repetitions. *)

\* The range of a sequence.
LEMMA SeqRange ==
  ASSUME NEW D, NEW s \in Seq(D)
  PROVE  Range(s) \subseteq D /\ \A x : x \in Range(s) <=> \E i \in 1..Len(s) : s[i] = x
<1>1. DOMAIN s = 1..Len(s) /\ \A i \in 1..Len(s) : s[i] \in D
  OBVIOUS
<1> QED
  BY <1>1 DEF Range

\* A new element at the end.
LEMMA AppendFacts ==
  ASSUME NEW D, NEW s \in Seq(D), NoRepeats(s), NEW x \in D, x \notin Range(s)
  PROVE  /\ Append(s, x) \in Seq(D) /\ NoRepeats(Append(s, x))
         /\ Range(Append(s, x)) = Range(s) \cup {x}
<1> DEFINE t == Append(s, x)
<1>1. /\ t \in Seq(D) /\ Len(s) \in Nat /\ Len(t) = Len(s) + 1 /\ t[Len(s) + 1] = x
      /\ \A i \in 1..Len(s) : t[i] = s[i]
  OBVIOUS
<1> HIDE DEF t
<1>2. \A i \in 1..Len(t) : i = Len(s) + 1 \/ i \in 1..Len(s)
  BY <1>1
<1>3. \A i \in 1..Len(s) : s[i] # x
  BY SeqRange
<1>4. NoRepeats(t)
  BY <1>1, <1>2, <1>3 DEF NoRepeats
<1>5. ASSUME NEW y PROVE y \in Range(t) <=> y \in Range(s) \cup {x}
  <2>1. y \in Range(t) <=> \E i \in 1..Len(t) : t[i] = y
    BY <1>1, SeqRange
  <2>2. y \in Range(s) <=> \E i \in 1..Len(s) : s[i] = y
    BY SeqRange
  <2>3. (\E i \in 1..Len(t) : t[i] = y) <=> (y = x \/ \E i \in 1..Len(s) : s[i] = y)
    BY <1>1, <1>2
  <2> QED
    BY <2>1, <2>2, <2>3
<1> QED
  BY <1>1, <1>4, <1>5 DEF t

\* Two sequences with nothing in common, one after the other.
LEMMA ConcatFacts ==
  ASSUME NEW D, NEW s \in Seq(D), NEW t \in Seq(D), NoRepeats(s), NoRepeats(t),
         Range(s) \cap Range(t) = {}
  PROVE  /\ s \o t \in Seq(D) /\ NoRepeats(s \o t)
         /\ Range(s \o t) = Range(s) \cup Range(t)
<1> DEFINE u == s \o t
<1>1. /\ u \in Seq(D) /\ Len(s) \in Nat /\ Len(t) \in Nat /\ Len(u) = Len(s) + Len(t)
      /\ \A i \in 1..Len(s) : u[i] = s[i]
      /\ \A i \in 1..Len(t) : u[Len(s) + i] = t[i]
  OBVIOUS
<1> HIDE DEF u
<1>2. ASSUME NEW i \in 1..Len(u)
      PROVE  \/ i \in 1..Len(s) /\ u[i] = s[i] /\ u[i] \in Range(s)
             \/ i - Len(s) \in 1..Len(t) /\ u[i] = t[i - Len(s)] /\ u[i] \in Range(t)
  <2>1. CASE i <= Len(s)
    BY <1>1, <2>1, SeqRange
  <2>2. CASE i > Len(s)
    <3>1. i - Len(s) \in 1..Len(t)
      BY <1>1, <2>2
    <3>2. u[Len(s) + (i - Len(s))] = t[i - Len(s)]
      BY <1>1, <3>1
    <3>3. Len(s) + (i - Len(s)) = i
      BY <1>1
    <3> QED
      BY <3>1, <3>2, <3>3, SeqRange
  <2> QED
    BY <1>1, <2>1, <2>2
<1>3. NoRepeats(u)
  <2> SUFFICES ASSUME NEW i \in 1..Len(u), NEW j \in 1..Len(u), u[i] = u[j] PROVE i = j
    BY DEF NoRepeats
  <2>1. CASE i \in 1..Len(s) /\ u[i] = s[i] /\ u[i] \in Range(s)
    <3>1. j \in 1..Len(s) /\ u[j] = s[j]
      BY <1>2, <2>1
    <3> QED
      BY <2>1, <3>1 DEF NoRepeats
  <2>2. CASE i - Len(s) \in 1..Len(t) /\ u[i] = t[i - Len(s)] /\ u[i] \in Range(t)
    <3>1. j - Len(s) \in 1..Len(t) /\ u[j] = t[j - Len(s)]
      BY <1>2, <2>2
    <3>2. i - Len(s) = j - Len(s)
      BY <2>2, <3>1 DEF NoRepeats
    <3> QED
      BY <1>1, <3>2
  <2> QED
    BY <1>2, <2>1, <2>2
<1>4. ASSUME NEW x PROVE x \in Range(u) <=> x \in Range(s) \cup Range(t)
  <2>1. x \in Range(u) => x \in Range(s) \cup Range(t)
    BY <1>1, <1>2, SeqRange
  <2>2. ASSUME x \in Range(s) PROVE x \in Range(u)
    <3>1. PICK i \in 1..Len(s) : s[i] = x
      BY <2>2, SeqRange
    <3>2. i \in 1..Len(u) /\ u[i] = x
      BY <1>1, <3>1
    <3> QED
      BY <1>1, <3>2, SeqRange
  <2>3. ASSUME x \in Range(t) PROVE x \in Range(u)
    <3>1. PICK i \in 1..Len(t) : t[i] = x
      BY <2>3, SeqRange
    <3>2. Len(s) + i \in 1..Len(u) /\ u[Len(s) + i] = x
      BY <1>1, <3>1
    <3> QED
      BY <1>1, <3>2, SeqRange
  <2> QED
    BY <2>1, <2>2, <2>3
<1> QED
  BY <1>1, <1>3, <1>4 DEF u

\* The head taken away.
LEMMA TailFacts ==
  ASSUME NEW D, NEW s \in Seq(D), NoRepeats(s), s # << >>
  PROVE  /\ Head(s) \in Range(s) /\ Head(s) \in D
         /\ Tail(s) \in Seq(D) /\ NoRepeats(Tail(s))
         /\ Range(Tail(s)) = Range(s) \ {Head(s)}
<1> DEFINE t == Tail(s)
<1>1. /\ t \in Seq(D) /\ Len(s) \in Nat \ {0} /\ Len(t) = Len(s) - 1
      /\ Head(s) = s[1] /\ 1 \in 1..Len(s) /\ s[1] \in D
      /\ \A i \in 1..Len(t) : t[i] = s[i + 1]
  OBVIOUS
<1> HIDE DEF t
<1>2. \A i \in 1..Len(t) : i + 1 \in 1..Len(s) /\ i + 1 # 1
  BY <1>1
<1>3. NoRepeats(t)
  BY <1>1, <1>2 DEF NoRepeats
<1>4. ASSUME NEW x PROVE x \in Range(t) <=> x \in Range(s) \ {s[1]}
  <2>1. ASSUME x \in Range(t) PROVE x \in Range(s) \ {s[1]}
    <3>1. PICK i \in 1..Len(t) : t[i] = x
      BY <1>1, <2>1, SeqRange
    <3>2. s[i + 1] = x /\ x # s[1]
      BY <1>1, <1>2, <3>1 DEF NoRepeats
    <3> QED
      BY <1>2, <3>2, SeqRange
  <2>2. ASSUME x \in Range(s), x # s[1] PROVE x \in Range(t)
    <3>1. PICK i \in 1..Len(s) : s[i] = x
      BY <2>2, SeqRange
    <3>2. i - 1 \in 1..Len(t) /\ (i - 1) + 1 = i
      BY <1>1, <2>2, <3>1
    <3>3. t[i - 1] = x
      BY <1>1, <3>1, <3>2
    <3> QED
      BY <1>1, <3>2, <3>3, SeqRange
  <2> QED
    BY <2>1, <2>2
<1> QED
  BY <1>1, <1>3, <1>4, SeqRange DEF t

-----------------------------------------------------------------------------
(* Kahn's algorithm on a finite graph whose nodes are N, given in some order *)
(* of the nodes and of the edges.                                            *)

KahnStates(N) == [queue : Seq(N), deg : [N -> Int], sorted : Seq(N)]

\* What a round preserves: degrees count the predecessors that are not sorted
\* yet, whatever is queued or sorted has none left, nothing is queued or sorted
\* twice, and a sorted node comes after its predecessors.
KahnInv(s, N, edges) ==
  /\ s \in KahnStates(N)
  /\ \A n \in N : s.deg[n] = Cardinality(Upstream(edges, n) \ Range(s.sorted))
  /\ \A n \in Range(s.queue) \cup Range(s.sorted) : s.deg[n] = 0
  /\ NoRepeats(s.queue) /\ NoRepeats(s.sorted) /\ Range(s.queue) \cap Range(s.sorted) = {}
  /\ \A i \in 1..Len(s.sorted) : \A u \in Upstream(edges, s.sorted[i]) :
       \E j \in 1..Len(s.sorted) : j < i /\ s.sorted[j] = u

\* The predecessors of a node are finitely many nodes.
LEMMA UpstreamFinite ==
  ASSUME NEW N, IsFiniteSet(N), NEW edges \in SUBSET (N \X N), NEW n, NEW A
  PROVE  /\ Upstream(edges, n) \subseteq N /\ IsFiniteSet(Upstream(edges, n) \ A)
         /\ Cardinality(Upstream(edges, n) \ A) \in Nat
         /\ \A u : u \in Upstream(edges, n) <=> <<u, n>> \in edges
<1>1. \A u : u \in Upstream(edges, n) <=> <<u, n>> \in edges
  BY DEF Upstream
<1>2. Upstream(edges, n) \subseteq N
  BY DEF Upstream
<1> QED
  BY <1>1, <1>2, FS_Subset, FS_CardinalityType

\* The nodes a round frees, in the order of the edges.
Freeable(edges, N, h, deg) == {n \in N : <<h, n>> \in edges /\ deg[n] = 1}

Freed(edges, es, h, deg) ==
  LET freed == Select(es, {e \in edges : e[1] = h /\ deg[e[2]] = 1})
  IN  [k \in 1..Len(freed) |-> freed[k][2]]

\* The nodes a round frees are different and have lost their last dependency.
LEMMA FreedFacts ==
  ASSUME NEW N, NEW edges \in SUBSET (N \X N), NEW es \in Seq(edges), NoRepeats(es), NEW h, NEW deg
  PROVE  /\ Freed(edges, es, h, deg) \in Seq(N) /\ NoRepeats(Freed(edges, es, h, deg))
         /\ Range(Freed(edges, es, h, deg)) \subseteq Freeable(edges, N, h, deg)
<1> DEFINE A == {e \in edges : e[1] = h /\ deg[e[2]] = 1}
           r == Select(es, A)
           F == [k \in 1..Len(r) |-> r[k][2]]
<1>1. r \in Seq(edges) /\ NoRepeats(r) /\ Range(r) \subseteq A
  BY SelectFacts
<1> HIDE DEF r
<1>2. \A k \in 1..Len(r) : r[k] \in A
  BY <1>1, SeqRange
<1>3. \A k \in 1..Len(r) : /\ r[k] = <<h, r[k][2]>> /\ r[k][2] \in N
                           /\ r[k] \in edges /\ deg[r[k][2]] = 1
  BY <1>2
<1>4. Len(r) \in Nat
  BY <1>1
<1>5. F \in Seq(N) /\ Len(F) = Len(r) /\ \A k \in 1..Len(r) : F[k] = r[k][2]
  BY <1>3, <1>4
<1> HIDE DEF F
<1>6. NoRepeats(F)
  <2> SUFFICES ASSUME NEW i \in 1..Len(r), NEW j \in 1..Len(r), r[i][2] = r[j][2] PROVE i = j
    BY <1>5 DEF NoRepeats
  <2>1. r[i] = r[j]
    BY <1>3
  <2> QED
    BY <1>1, <2>1 DEF NoRepeats
<1>7. Range(F) \subseteq Freeable(edges, N, h, deg)
  <2> SUFFICES ASSUME NEW n \in Range(F) PROVE n \in N /\ <<h, n>> \in edges /\ deg[n] = 1
    BY DEF Freeable
  <2>1. PICK k \in 1..Len(r) : n = r[k][2]
    BY <1>5, SeqRange
  <2> QED
    BY <1>3, <2>1
<1>8. Freed(edges, es, h, deg) = F
  BY DEF Freed, F, r
<1> QED
  BY <1>5, <1>6, <1>7, <1>8

\* A round of a non-empty queue, with the freed nodes named.
LEMMA RoundDef ==
  ASSUME NEW edges, NEW es, NEW s, s.queue # << >>
  PROVE  KahnRound(edges, es, s) =
           [queue |-> Tail(s.queue) \o Freed(edges, es, Head(s.queue), s.deg),
            deg |-> [n \in DOMAIN s.deg |-> IF <<Head(s.queue), n>> \in edges
                                            THEN s.deg[n] - 1 ELSE s.deg[n]],
            sorted |-> Append(s.sorted, Head(s.queue))]
BY DEF KahnRound, Freed

\* Rounds stay within the states of the algorithm.
LEMMA RoundType ==
  ASSUME NEW N, NEW edges \in SUBSET (N \X N), NEW es \in Seq(edges), NoRepeats(es),
         NEW s \in KahnStates(N)
  PROVE  KahnRound(edges, es, s) \in KahnStates(N)
<1>1. CASE s.queue = << >>
  BY <1>1 DEF KahnRound
<1>2. CASE s.queue # << >>
  <2> DEFINE F == Freed(edges, es, Head(s.queue), s.deg)
             d == [n \in DOMAIN s.deg |-> IF <<Head(s.queue), n>> \in edges
                                          THEN s.deg[n] - 1 ELSE s.deg[n]]
  <2>1. F \in Seq(N)
    BY FreedFacts
  <2>2. s.queue \in Seq(N) /\ s.deg \in [N -> Int] /\ s.sorted \in Seq(N)
    BY DEF KahnStates
  <2>3. d \in [N -> Int]
    BY <2>2
  <2> HIDE DEF F, d
  <2>4. Tail(s.queue) \in Seq(N) /\ Head(s.queue) \in N
    BY <1>2, <2>2
  <2>5. Tail(s.queue) \o F \in Seq(N) /\ Append(s.sorted, Head(s.queue)) \in Seq(N)
    BY <2>1, <2>2, <2>4
  <2>6. KahnRound(edges, es, s) = [queue |-> Tail(s.queue) \o F, deg |-> d,
                                   sorted |-> Append(s.sorted, Head(s.queue))]
    BY <1>2, RoundDef DEF F, d
  <2> QED
    BY <2>3, <2>5, <2>6 DEF KahnStates
<1> QED
  BY <1>1, <1>2

\* The initial state satisfies the invariant.
LEMMA StartInv ==
  ASSUME NEW N, IsFiniteSet(N), NEW edges \in SUBSET (N \X N),
         NEW q \in Seq(N), NoRepeats(q), Range(q) = N
  PROVE  KahnInv(KahnStart(edges, q), N, edges)
<1> DEFINE d == [n \in N |-> Cardinality(Upstream(edges, n))]
           A == {n \in N : d[n] = 0}
           s == KahnStart(edges, q)
<1>1. \A n \in N : Upstream(edges, n) \ {} = Upstream(edges, n)
  OBVIOUS
<1>2. ASSUME NEW n \in N PROVE Cardinality(Upstream(edges, n)) \in Nat
  <2>1. Cardinality(Upstream(edges, n) \ {}) \in Nat
    BY UpstreamFinite
  <2> QED
    BY <1>1, <2>1
<1>3. d \in [N -> Int] /\ \A n \in N : d[n] = Cardinality(Upstream(edges, n))
  BY <1>2
<1> HIDE DEF d
<1>4. Select(q, A) \in Seq(N) /\ NoRepeats(Select(q, A)) /\ Range(Select(q, A)) \subseteq A
  BY SelectFacts
<1>5. s = [queue |-> Select(q, A), deg |-> d, sorted |-> << >>]
  BY DEF KahnStart, d
<1>6. << >> \in Seq(N) /\ Len(<< >>) = 0 /\ NoRepeats(<< >>) /\ Range(<< >>) = {}
  BY DEF NoRepeats, Range
<1> HIDE DEF s
<1>7. s \in KahnStates(N) /\ s.queue = Select(q, A) /\ s.deg = d /\ s.sorted = << >>
  BY <1>3, <1>4, <1>5, <1>6 DEF KahnStates
<1>8. \A n \in N : s.deg[n] = Cardinality(Upstream(edges, n) \ Range(s.sorted))
  BY <1>1, <1>3, <1>6, <1>7
<1>9. \A n \in Range(s.queue) \cup Range(s.sorted) : s.deg[n] = 0
  BY <1>4, <1>6, <1>7
<1>10. KahnInv(s, N, edges)
  <2>1. 1..Len(s.sorted) = {}
    BY <1>6, <1>7
  <2>2. NoRepeats(s.queue) /\ NoRepeats(s.sorted) /\ Range(s.queue) \cap Range(s.sorted) = {}
    BY <1>4, <1>6, <1>7
  <2> QED
    BY <1>7, <1>8, <1>9, <2>1, <2>2 DEF KahnInv
<1> QED
  BY <1>10 DEF s

\* A round preserves the invariant.
LEMMA RoundInv ==
  ASSUME NEW N, IsFiniteSet(N), NEW edges \in SUBSET (N \X N),
         NEW es \in Seq(edges), NoRepeats(es), NEW s, KahnInv(s, N, edges)
  PROVE  KahnInv(KahnRound(edges, es, s), N, edges)
<1>1. CASE s.queue = << >>
  BY <1>1 DEF KahnRound
<1>2. CASE s.queue # << >>
  <2> DEFINE F == Freed(edges, es, Head(s.queue), s.deg)
             h == Head(s.queue)
             t == KahnRound(edges, es, s)
  <2>1. /\ s \in KahnStates(N) /\ s.queue \in Seq(N) /\ s.deg \in [N -> Int] /\ s.sorted \in Seq(N)
        /\ NoRepeats(s.queue) /\ NoRepeats(s.sorted) /\ Range(s.queue) \cap Range(s.sorted) = {}
        /\ \A n \in Range(s.queue) \cup Range(s.sorted) : s.deg[n] = 0
        /\ \A n \in N : s.deg[n] = Cardinality(Upstream(edges, n) \ Range(s.sorted))
    BY DEF KahnInv, KahnStates
  <2>2. /\ F \in Seq(N) /\ NoRepeats(F)
        /\ \A n \in Range(F) : <<h, n>> \in edges /\ s.deg[n] = 1
    <3> DEFINE d == s.deg
    <3>1. F = Freed(edges, es, h, d)
      OBVIOUS
    <3> HIDE DEF F, h, d
    <3>2. F \in Seq(N) /\ NoRepeats(F) /\ Range(F) \subseteq Freeable(edges, N, h, d)
      BY <3>1, FreedFacts
    <3> QED
      BY <3>2 DEF d, Freeable
  <2>3. t \in KahnStates(N)
    BY <2>1, RoundType
  <2>4. /\ t.queue = Tail(s.queue) \o F /\ t.sorted = Append(s.sorted, h)
        /\ \A n \in N : t.deg[n] = IF <<h, n>> \in edges THEN s.deg[n] - 1 ELSE s.deg[n]
    <3>1. t = [queue |-> Tail(s.queue) \o F,
               deg |-> [n \in DOMAIN s.deg |-> IF <<h, n>> \in edges THEN s.deg[n] - 1 ELSE s.deg[n]],
               sorted |-> Append(s.sorted, h)]
      BY <1>2, RoundDef
    <3>2. DOMAIN s.deg = N
      BY <2>1
    <3> HIDE DEF F, h, t
    <3> QED
      BY <3>1, <3>2
  <2>5. /\ h \in Range(s.queue) /\ h \in N /\ Tail(s.queue) \in Seq(N) /\ NoRepeats(Tail(s.queue))
        /\ Range(Tail(s.queue)) = Range(s.queue) \ {h}
    BY <1>2, <2>1, TailFacts
  <2> HIDE DEF F, h, t
  <2>6. Range(F) \subseteq N /\ Range(s.queue) \subseteq N /\ Range(s.sorted) \subseteq N
    BY <2>1, <2>2, SeqRange
  \* What has no predecessors left has only sorted ones; h is not sorted yet.
  <2>7. ASSUME NEW n \in N, s.deg[n] = 0
        PROVE  Upstream(edges, n) \subseteq Range(s.sorted) /\ <<h, n>> \notin edges
    <3>1. Cardinality(Upstream(edges, n) \ Range(s.sorted)) = 0
      BY <2>1, <2>7
    <3>2. IsFiniteSet(Upstream(edges, n) \ Range(s.sorted))
      BY UpstreamFinite
    <3>3. Upstream(edges, n) \ Range(s.sorted) = {}
      BY <3>1, <3>2, FS_EmptySet
    <3>4. h \notin Upstream(edges, n)
      BY <2>1, <2>5, <3>3
    <3>5. h \in Upstream(edges, n) <=> <<h, n>> \in edges
      BY UpstreamFinite
    <3> QED
      BY <3>3, <3>4, <3>5
  <2>8. Range(F) \cap (Range(s.queue) \cup Range(s.sorted)) = {}
    <3> SUFFICES ASSUME NEW n \in Range(F), n \in Range(s.queue) \cup Range(s.sorted) PROVE FALSE
      OBVIOUS
    <3>1. s.deg[n] = 0
      BY <2>1
    <3>2. s.deg[n] = 1
      BY <2>2
    <3> QED
      BY <3>1, <3>2
  <2>9. NoRepeats(t.queue) /\ Range(t.queue) = Range(Tail(s.queue)) \cup Range(F)
    <3>1. Range(Tail(s.queue)) \cap Range(F) = {}
      BY <2>5, <2>8
    <3> DEFINE T == Tail(s.queue)
    <3>2. T \in Seq(N) /\ NoRepeats(T) /\ F \in Seq(N) /\ NoRepeats(F) /\ Range(T) \cap Range(F) = {}
      BY <2>2, <2>5, <3>1
    <3>3. t.queue = T \o F
      BY <2>4
    <3> HIDE DEF T
    <3>4. NoRepeats(T \o F) /\ Range(T \o F) = Range(T) \cup Range(F)
      BY <3>2, ConcatFacts
    <3> QED
      BY <3>3, <3>4 DEF T
  <2>10. h \notin Range(s.sorted)
    BY <2>1, <2>5
  <2>11. NoRepeats(t.sorted) /\ Range(t.sorted) = Range(s.sorted) \cup {h}
    BY <2>1, <2>4, <2>5, <2>10, AppendFacts
  <2>12. Range(t.queue) \cap Range(t.sorted) = {}
    <3>1. Range(s.queue) \cap Range(s.sorted) = {}
      BY <2>1
    <3> QED
      BY <2>5, <2>8, <2>9, <2>11, <3>1
  <2>13. ASSUME NEW n \in Range(t.queue) \cup Range(t.sorted) PROVE t.deg[n] = 0
    <3>1. CASE n \in Range(F)
      <4>1. n \in N /\ <<h, n>> \in edges /\ s.deg[n] = 1
        BY <2>2, <2>6, <3>1
      <4>2. t.deg[n] = s.deg[n] - 1
        BY <2>4, <4>1
      <4> QED
        BY <4>1, <4>2
    <3>2. CASE n \notin Range(F)
      <4>1. n \in Range(s.queue) \cup Range(s.sorted)
        BY <2>5, <2>9, <2>11, <2>13, <3>2
      <4>2. n \in N /\ s.deg[n] = 0
        BY <2>1, <2>6, <4>1
      <4> QED
        BY <2>4, <2>7, <4>2
    <3> QED
      BY <3>1, <3>2
  <2>14. ASSUME NEW n \in N
         PROVE  t.deg[n] = Cardinality(Upstream(edges, n) \ Range(t.sorted))
    <3> DEFINE U == Upstream(edges, n) \ Range(s.sorted)
    <3>1. IsFiniteSet(U) /\ Cardinality(U) \in Nat
      BY UpstreamFinite
    <3>5. s.deg[n] = Cardinality(U)
      BY <2>1
    <3>2. Upstream(edges, n) \ Range(t.sorted) = U \ {h}
      BY <2>11
    <3>3. h \in U <=> <<h, n>> \in edges
      BY <2>10, UpstreamFinite
    <3> HIDE DEF U
    <3>4. Cardinality(U \ {h}) = IF h \in U THEN Cardinality(U) - 1 ELSE Cardinality(U)
      BY <3>1, FS_RemoveElement
    <3> QED
      BY <2>4, <3>1, <3>2, <3>3, <3>4, <3>5
  <2>15. ASSUME NEW i \in 1..Len(t.sorted), NEW u \in Upstream(edges, t.sorted[i])
         PROVE  \E j \in 1..Len(t.sorted) : j < i /\ t.sorted[j] = u
    <3>1. /\ Len(s.sorted) \in Nat /\ Len(t.sorted) = Len(s.sorted) + 1
          /\ t.sorted[Len(s.sorted) + 1] = h
          /\ \A k \in 1..Len(s.sorted) : t.sorted[k] = s.sorted[k]
      BY <2>1, <2>4, <2>5
    <3>2. CASE i = Len(s.sorted) + 1
      <4>1. s.deg[h] = 0
        BY <2>1, <2>5
      <4>2. u \in Range(s.sorted)
        BY <2>5, <2>7, <2>15, <3>1, <3>2, <4>1
      <4>3. PICK j \in 1..Len(s.sorted) : s.sorted[j] = u
        BY <2>1, <4>2, SeqRange
      <4> QED
        BY <3>1, <3>2, <4>3
    <3>3. CASE i # Len(s.sorted) + 1
      <4>1. i \in 1..Len(s.sorted)
        BY <3>1, <3>3
      <4>2. u \in Upstream(edges, s.sorted[i])
        BY <2>15, <3>1, <4>1
      <4>3. PICK j \in 1..Len(s.sorted) : j < i /\ s.sorted[j] = u
        BY <4>1, <4>2 DEF KahnInv
      <4> QED
        BY <3>1, <4>3
    <3> QED
      BY <3>2, <3>3
  <2>16. KahnInv(t, N, edges)
    BY <2>3, <2>9, <2>11, <2>12, <2>13, <2>14, <2>15 DEF KahnInv
  <2> QED
    BY <2>16 DEF t
<1> QED
  BY <1>1, <1>2

\* The recursion that defines Kahn.
Rounds(f, edges, q, es) ==
  f = [i \in 0..Len(q) |-> IF i = 0 THEN KahnStart(edges, q) ELSE KahnRound(edges, es, f[i - 1])]

\* A predecessor comes before its successors.
Forward(edges, s) ==
  \A i \in 1..Len(s) : \A u \in Upstream(edges, s[i]) : \E j \in 1..Len(s) : j < i /\ s[j] = u

\* Kahn's algorithm sorts: no node twice, and every node after the nodes that
\* feed it.
LEMMA KahnSorts ==
  ASSUME NEW N, IsFiniteSet(N), NEW edges \in SUBSET (N \X N),
         NEW q \in Seq(N), NoRepeats(q), Range(q) = N,
         NEW es \in Seq(edges), NoRepeats(es)
  PROVE  /\ Kahn(edges, q, es) \in Seq(N) /\ NoRepeats(Kahn(edges, q, es))
         /\ Forward(edges, Kahn(edges, q, es))
<1> DEFINE n == Len(q)
           X == KahnStates(N)
           x0 == KahnStart(edges, q)
           g == [i \in 1..n |-> [x \in X |-> KahnRound(edges, es, x)]]
<1>1. n \in Nat
  OBVIOUS
<1>2. KahnInv(x0, N, edges) /\ x0 \in X
  <2>1. KahnInv(x0, N, edges)
    BY StartInv
  <2> HIDE DEF x0
  <2> QED
    BY <2>1 DEF KahnInv
<1>3. \A x \in X : KahnRound(edges, es, x) \in X
  BY RoundType
<1>4. g \in [1..n -> [X -> X]]
  BY <1>3
<1> HIDE DEF n, X, x0
<1>5. \A i \in 1..n : \A x \in X : g[i][x] = KahnRound(edges, es, x)
  OBVIOUS
<1> HIDE DEF g
<1>6. PICK f : Iterates(f, X, x0, n, g)
  BY <1>1, <1>2, <1>4, RecursionExists
<1>7. \A i \in 1..n : f[i] = KahnRound(edges, es, f[i - 1])
  <2> SUFFICES ASSUME NEW i \in 1..n PROVE f[i] = KahnRound(edges, es, f[i - 1])
    OBVIOUS
  <2>1. f[i - 1] \in X
    BY <1>1, <1>6 DEF Iterates
  <2> QED
    BY <1>5, <1>6, <2>1 DEF Iterates
<1>8. Rounds(f, edges, q, es)
  <2>1. f = [i \in 0..n |-> f[i]]
    BY <1>6 DEF Iterates
  <2>2. \A i \in 0..n : f[i] = IF i = 0 THEN x0 ELSE KahnRound(edges, es, f[i - 1])
    <3> SUFFICES ASSUME NEW i \in 0..n
                 PROVE  f[i] = IF i = 0 THEN x0 ELSE KahnRound(edges, es, f[i - 1])
      OBVIOUS
    <3>1. CASE i = 0
      BY <1>6, <3>1 DEF Iterates
    <3>2. CASE i # 0
      <4>1. i \in 1..n
        BY <1>1, <3>2
      <4> QED
        BY <1>7, <3>2, <4>1
    <3> QED
      BY <3>1, <3>2
  <2> DEFINE b(i) == IF i = 0 THEN x0 ELSE KahnRound(edges, es, f[i - 1])
  <2>3. \A i \in 0..n : f[i] = b(i)
    BY <2>2
  <2> HIDE DEF b
  <2>4. f = [i \in 0..n |-> b(i)]
    BY <2>1, <2>3
  <2> QED
    BY <2>4 DEF b, Rounds, n, x0
<1> DEFINE F == CHOOSE e : Rounds(e, edges, q, es)
<1>9. Rounds(F, edges, q, es)
  BY <1>8
<1>10. Kahn(edges, q, es) = F[n].sorted
  BY DEF Kahn, Rounds, n
<1> HIDE DEF F
<1>11. F[0] = x0 /\ \A i \in 1..n : F[i] = KahnRound(edges, es, F[i - 1])
  <2> DEFINE b(i) == IF i = 0 THEN x0 ELSE KahnRound(edges, es, F[i - 1])
  <2>1. F = [i \in 0..n |-> b(i)]
    BY <1>9 DEF Rounds, n, x0
  <2> HIDE DEF b
  <2>2. \A i \in 0..n : F[i] = b(i)
    BY <2>1
  <2>3. F[0] = x0
    BY <1>1, <2>2 DEF b
  <2>4. ASSUME NEW i \in 1..n PROVE F[i] = KahnRound(edges, es, F[i - 1])
    <3>1. F[i] = b(i) /\ i # 0
      BY <1>1, <2>2
    <3> QED
      BY <3>1 DEF b
  <2> QED
    BY <2>3, <2>4
<1> DEFINE S == {i \in 0..n : KahnInv(F[i], N, edges)}
<1>12. 0 \in S
  BY <1>1, <1>2, <1>11
<1>13. ASSUME NEW i \in 1..n, i - 1 \in S PROVE i \in S
  <2> DEFINE x == F[i - 1]
  <2>1. KahnInv(x, N, edges) /\ F[i] = KahnRound(edges, es, x)
    BY <1>11, <1>13
  <2> HIDE DEF x
  <2>2. KahnInv(KahnRound(edges, es, x), N, edges)
    BY <2>1, RoundInv
  <2> QED
    BY <2>1, <2>2
<1> HIDE DEF S
<1>14. 0..n \subseteq S
  BY <1>1, <1>12, <1>13, InductionUpTo
<1>15. KahnInv(F[n], N, edges)
  <2>1. n \in S
    BY <1>1, <1>14
  <2> QED
    BY <2>1 DEF S
<1> QED
  BY <1>10, <1>15 DEF KahnInv, KahnStates, Forward

-----------------------------------------------------------------------------
(* topological_sort. *)

\* The enumerations of a finite set are its sequences without repetitions.
LEMMA Enumeration ==
  ASSUME NEW S, IsFiniteSet(S), NEW s \in SetToSeqs(S)
  PROVE  s \in Seq(S) /\ Len(s) = Cardinality(S) /\ NoRepeats(s) /\ Range(s) = S
<1> DEFINE n == Cardinality(S)
<1>1. n \in Nat
  BY FS_CardinalityType
<1>2. s \in [1..n -> S] /\ \A i, j \in 1..n : i # j => s[i] # s[j]
  BY DEF SetToSeqs
<1> HIDE DEF n
<1>3. s \in Seq(S) /\ Len(s) = n
  BY <1>1, <1>2
<1>4. NoRepeats(s)
  BY <1>2, <1>3 DEF NoRepeats
<1>5. s \in Injection(1..n, S)
  BY <1>2 DEF Injection, IsInjective
<1>6. IsFiniteSet(1..n) /\ Cardinality(1..n) = n
  BY <1>1, FS_Interval
<1>7. s \in Surjection(1..n, S)
  BY <1>5, <1>6, FS_Injection DEF n
<1>8. Range(s) = S
  BY <1>2, <1>7 DEF Range, Surjection
<1> QED
  BY <1>3, <1>4, <1>8 DEF n

\* A sequence without repetitions that is as long as its set is large lists it
\* all, and one that lists it all is as long.
LEMMA ListsAll ==
  ASSUME NEW S, IsFiniteSet(S), NEW s \in Seq(S), NoRepeats(s)
  PROVE  Len(s) = Cardinality(S) <=> Range(s) = S
<1> DEFINE n == Len(s)
<1>1. n \in Nat /\ s \in [1..n -> S]
  OBVIOUS
<1>2. s \in Injection(1..n, S)
  BY <1>1 DEF Injection, IsInjective, NoRepeats
<1>3. IsFiniteSet(1..n) /\ Cardinality(1..n) = n
  BY <1>1, FS_Interval
<1> HIDE DEF n
<1>4. n = Cardinality(S) <=> s \in Surjection(1..n, S)
  BY <1>2, <1>3, FS_Injection
<1>5. s \in Surjection(1..n, S) <=> Range(s) = S
  BY <1>1 DEF Range, Surjection
<1> QED
  BY <1>4, <1>5 DEF n

\* Two elements selected from a sequence are in the order they had there.
LEMMA SelectOrder ==
  ASSUME NEW D, NEW s \in Seq(D), NoRepeats(s), NEW A,
         NEW i \in 1..Len(Select(s, A)), NEW j \in 1..Len(Select(s, A)),
         NEW k \in 1..Len(s), NEW l \in 1..Len(s),
         Select(s, A)[i] = s[k], Select(s, A)[j] = s[l], k < l
  PROVE  i < j
<1> DEFINE r == Select(s, A)
<1>1. PICK m : r \in Seq(D) /\ Picked(r, s, Len(s), A, m)
  BY SelectPicks
<1>2. i \in 1..Len(r) /\ j \in 1..Len(r) /\ r[i] = s[k] /\ r[j] = s[l]
  OBVIOUS
<1> HIDE DEF r
<1>3. m[i] = k /\ m[j] = l
  <2>1. /\ m[i] \in 1..Len(s) /\ s[m[i]] = s[k]
        /\ m[j] \in 1..Len(s) /\ s[m[j]] = s[l]
    BY <1>1, <1>2 DEF Picked
  <2> QED
    BY <2>1 DEF NoRepeats
<1>4. ~(j < i) /\ i # j
  BY <1>1, <1>2, <1>3 DEF Picked
<1>5. i \in Nat /\ j \in Nat
  BY <1>2
<1> QED
  BY <1>4, <1>5

\* The stable sort by kind: each kind has its segment.
LEMMA Segments ==
  ASSUME NEW nodes, nodes \in [DOMAIN nodes -> Kinds], NEW p \in Seq(DOMAIN nodes), NoRepeats(p)
  PROVE  LET o  == SourcesFirst(nodes, p)
             s1 == Select(p, Sources(nodes))
             s2 == Select(p, Transforms(nodes))
         IN  /\ o \in Seq(DOMAIN nodes) /\ NoRepeats(o) /\ Range(o) = Range(p)
             /\ Len(s1) \in Nat /\ Len(s2) \in Nat
             /\ \A i \in 1..Len(o) :
                  /\ o[i] \in Sources(nodes) <=> i <= Len(s1)
                  /\ o[i] \in Sinks(nodes) <=> i > Len(s1) + Len(s2)
                  /\ o[i] \in Transforms(nodes)
                       => i - Len(s1) \in 1..Len(s2) /\ s2[i - Len(s1)] = o[i]
<1> DEFINE N  == DOMAIN nodes
           A1 == Sources(nodes)
           A2 == Transforms(nodes)
           A3 == Sinks(nodes)
           s1 == Select(p, A1)
           s2 == Select(p, A2)
           s3 == Select(p, A3)
           o  == SourcesFirst(nodes, p)
<1>1. /\ A1 \cap A2 = {} /\ A1 \cap A3 = {} /\ A2 \cap A3 = {}
      /\ A1 \cup A2 \cup A3 = N
  BY DEF Sources, Transforms, Sinks, OfKind, Kinds
<1>2. o = (s1 \o s2) \o s3
  BY DEF SourcesFirst
<1> HIDE DEF A1, A2, A3, o
<1>3. /\ s1 \in Seq(N) /\ NoRepeats(s1) /\ Range(s1) = Range(p) \cap A1
      /\ s2 \in Seq(N) /\ NoRepeats(s2) /\ Range(s2) = Range(p) \cap A2
      /\ s3 \in Seq(N) /\ NoRepeats(s3) /\ Range(s3) = Range(p) \cap A3
  BY SelectFacts
<1>4. Range(p) \subseteq N
  BY SeqRange
<1> HIDE DEF s1, s2, s3, N
<1>5. Range(s1) \cap Range(s2) = {} /\ (Range(s1) \cup Range(s2)) \cap Range(s3) = {}
  BY <1>1, <1>3
<1> DEFINE t == s1 \o s2
<1>6. t \in Seq(N) /\ NoRepeats(t) /\ Range(t) = Range(s1) \cup Range(s2)
  BY <1>3, <1>5, ConcatFacts
<1>7. /\ Len(t) = Len(s1) + Len(s2) /\ Len(s1) \in Nat /\ Len(s2) \in Nat /\ Len(s3) \in Nat
      /\ \A i \in 1..Len(s1) : t[i] = s1[i]
      /\ \A i \in 1..Len(s2) : t[Len(s1) + i] = s2[i]
  BY <1>3
<1>8. Range(t) \cap Range(s3) = {} /\ o = t \o s3
  BY <1>2, <1>5, <1>6
<1> HIDE DEF t
<1>9. o \in Seq(N) /\ NoRepeats(o) /\ Range(o) = Range(t) \cup Range(s3)
  <2>1. s3 \in Seq(N) /\ NoRepeats(s3)
    BY <1>3
  <2>2. /\ t \o s3 \in Seq(N) /\ NoRepeats(t \o s3)
        /\ Range(t \o s3) = Range(t) \cup Range(s3)
    BY <1>6, <1>8, <2>1, ConcatFacts
  <2> QED
    BY <1>8, <2>2
<1>10. Range(o) = Range(p)
  BY <1>1, <1>3, <1>4, <1>6, <1>9
<1>11. /\ Len(o) = Len(s1) + Len(s2) + Len(s3)
       /\ \A i \in 1..(Len(s1) + Len(s2)) : o[i] = t[i]
       /\ \A i \in 1..Len(s3) : o[Len(s1) + Len(s2) + i] = s3[i]
  <2>1. t \in Seq(N) /\ s3 \in Seq(N) /\ o = t \o s3
    BY <1>3, <1>6, <1>8
  <2>2. /\ Len(o) = Len(t) + Len(s3) /\ Len(t) \in Nat /\ Len(s3) \in Nat
        /\ \A i \in 1..Len(t) : o[i] = t[i]
        /\ \A i \in 1..Len(s3) : o[Len(t) + i] = s3[i]
    BY <2>1
  <2> QED
    BY <1>7, <2>2
<1>12. ASSUME NEW i \in 1..Len(o), i <= Len(s1) PROVE o[i] \in A1
  <2>1. i \in 1..Len(s1) /\ i \in 1..(Len(s1) + Len(s2))
    BY <1>7, <1>12
  <2>2. o[i] = s1[i]
    BY <1>7, <1>11, <2>1
  <2>3. s1[i] \in Range(s1)
    BY <1>3, <2>1, SeqRange
  <2> QED
    BY <1>3, <2>2, <2>3
<1>13. ASSUME NEW i \in 1..Len(o), i > Len(s1), i <= Len(s1) + Len(s2)
       PROVE  o[i] \in A2 /\ i - Len(s1) \in 1..Len(s2) /\ s2[i - Len(s1)] = o[i]
  <2>1. i - Len(s1) \in 1..Len(s2) /\ i \in 1..(Len(s1) + Len(s2)) /\ Len(s1) + (i - Len(s1)) = i
    BY <1>7, <1>13
  <2>2. o[i] = s2[i - Len(s1)]
    BY <1>7, <1>11, <2>1
  <2>3. s2[i - Len(s1)] \in Range(s2)
    BY <1>3, <2>1, SeqRange
  <2> QED
    BY <1>3, <2>1, <2>2, <2>3
<1>14. ASSUME NEW i \in 1..Len(o), i > Len(s1) + Len(s2) PROVE o[i] \in A3
  <2>1. /\ i - (Len(s1) + Len(s2)) \in 1..Len(s3)
        /\ Len(s1) + Len(s2) + (i - (Len(s1) + Len(s2))) = i
    BY <1>7, <1>11, <1>14
  <2>2. o[i] = s3[i - (Len(s1) + Len(s2))]
    BY <1>11, <2>1
  <2>3. s3[i - (Len(s1) + Len(s2))] \in Range(s3)
    BY <1>3, <2>1, SeqRange
  <2> QED
    BY <1>3, <2>2, <2>3
<1>15. ASSUME NEW i \in 1..Len(o)
       PROVE  /\ o[i] \in A1 <=> i <= Len(s1)
              /\ o[i] \in A3 <=> i > Len(s1) + Len(s2)
              /\ o[i] \in A2 => i - Len(s1) \in 1..Len(s2) /\ s2[i - Len(s1)] = o[i]
  <2>0. i \in Nat
    OBVIOUS
  <2>1. CASE i <= Len(s1)
    <3>1. o[i] \in A1 /\ ~(i > Len(s1) + Len(s2))
      BY <1>7, <1>12, <2>0, <2>1
    <3> QED
      BY <1>1, <2>1, <3>1
  <2>2. CASE i > Len(s1) /\ i <= Len(s1) + Len(s2)
    <3>1. /\ o[i] \in A2 /\ i - Len(s1) \in 1..Len(s2) /\ s2[i - Len(s1)] = o[i]
          /\ ~(i <= Len(s1)) /\ ~(i > Len(s1) + Len(s2))
      BY <1>7, <1>13, <2>0, <2>2
    <3> QED
      BY <1>1, <3>1
  <2>3. CASE i > Len(s1) + Len(s2)
    <3>1. o[i] \in A3 /\ ~(i <= Len(s1))
      BY <1>7, <1>14, <2>0, <2>3
    <3> QED
      BY <1>1, <2>3, <3>1
  <2> QED
    BY <1>7, <2>0, <2>1, <2>2, <2>3
<1> QED
  BY <1>7, <1>9, <1>10, <1>15 DEF o, s1, s2, A1, A2, A3, N

\* Every order topological_sort returns is a good one, for any graph and any
\* order in which its rows are read; it lists each node exactly once.
THEOREM TopologicalSortSound ==
  ASSUME NEW nodes, NEW edges, IsGraph(nodes, edges), NEW o \in topological_sort(nodes, edges)
  PROVE  /\ GoodOrder(nodes, edges, o)
         /\ o \in Seq(DOMAIN nodes) /\ NoRepeats(o) /\ WellFormed(nodes, edges)
<1> DEFINE N == DOMAIN nodes
<1>1. WellFormed(nodes, edges)
  BY DEF topological_sort
<1>2. PICK q \in SetToSeqs(N), es \in SetToSeqs(edges) :
        /\ o = SourcesFirst(nodes, Kahn(edges, q, es))
        /\ Len(Kahn(edges, q, es)) = Cardinality(N)
  BY <1>1 DEF topological_sort
<1> DEFINE p == Kahn(edges, q, es)
           s1 == Select(p, Sources(nodes))
           s2 == Select(p, Transforms(nodes))
<1>3. IsFiniteSet(N) /\ nodes \in [N -> Kinds] /\ edges \in SUBSET (N \X N)
  BY <1>1 DEF IsGraph, WellFormed
<1>4. IsFiniteSet(edges)
  BY <1>3, FS_Product, FS_Subset
<1>5. q \in Seq(N) /\ NoRepeats(q) /\ Range(q) = N /\ es \in Seq(edges) /\ NoRepeats(es)
  BY <1>3, <1>4, Enumeration
<1>6. p \in Seq(N) /\ NoRepeats(p) /\ Forward(edges, p)
  BY <1>3, <1>5, KahnSorts
<1>7. o = SourcesFirst(nodes, p) /\ Len(p) = Cardinality(N)
  BY <1>2
<1> HIDE DEF p
<1>8. Range(p) = N
  BY <1>3, <1>6, <1>7, ListsAll
<1>9. /\ o \in Seq(N) /\ NoRepeats(o) /\ Range(o) = N
      /\ Len(s1) \in Nat /\ Len(s2) \in Nat
      /\ \A i \in 1..Len(o) :
           /\ o[i] \in Sources(nodes) <=> i <= Len(s1)
           /\ o[i] \in Sinks(nodes) <=> i > Len(s1) + Len(s2)
           /\ o[i] \in Transforms(nodes) => i - Len(s1) \in 1..Len(s2) /\ s2[i - Len(s1)] = o[i]
  BY <1>3, <1>6, <1>7, <1>8, Segments
<1>10. Len(o) = Cardinality(N)
  BY <1>3, <1>9, ListsAll
<1>11. \A n \in N : n \in Sources(nodes) \/ n \in Transforms(nodes) \/ n \in Sinks(nodes)
  BY <1>3 DEF Sources, Transforms, Sinks, OfKind, Kinds
<1> HIDE DEF s1, s2
<1>12. ASSUME NEW i \in 1..Len(o), NEW j \in 1..Len(o),
              o[i] \in Transforms(nodes), o[j] \in Sinks(nodes)
       PROVE  i < j
  <2>1. i - Len(s1) \in 1..Len(s2) /\ j > Len(s1) + Len(s2)
    BY <1>9, <1>12
  <2> QED
    BY <1>9, <2>1
<1>13. ASSUME NEW i \in 1..Len(o), NEW j \in 1..Len(o), <<o[i], o[j]>> \in edges
       PROVE  i < j
  <2>0. o[i] \in N /\ o[j] \in N /\ i \in Nat /\ j \in Nat
    BY <1>9
  <2>1. o[j] \notin Sources(nodes) /\ o[i] \notin Sinks(nodes)
    <3>1. o[i] \in Upstream(edges, o[j]) /\ o[j] \in Downstream(edges, o[i])
      BY <1>13 DEF Upstream, Downstream
    <3> QED
      BY <1>1, <3>1 DEF WellFormed
  <2>2. CASE o[i] \in Sources(nodes)
    <3>1. i <= Len(s1) /\ ~(j <= Len(s1))
      BY <1>9, <2>1, <2>2
    <3> QED
      BY <1>9, <2>0, <3>1
  <2>3. CASE o[i] \in Transforms(nodes) /\ o[j] \in Sinks(nodes)
    BY <1>12, <2>3
  <2>4. CASE o[i] \in Transforms(nodes) /\ o[j] \in Transforms(nodes)
    <3> DEFINE a == i - Len(s1)
               b == j - Len(s1)
    <3>1. a \in 1..Len(s2) /\ s2[a] = o[i] /\ b \in 1..Len(s2) /\ s2[b] = o[j]
      BY <1>9, <2>4
    <3>2. PICK k \in 1..Len(p), l \in 1..Len(p) : p[k] = o[i] /\ p[l] = o[j]
      BY <1>6, <1>8, <2>0, SeqRange
    <3>3. p[k] \in Upstream(edges, p[l])
      BY <1>13, <3>2 DEF Upstream
    <3>4. PICK m \in 1..Len(p) : m < l /\ p[m] = p[k]
      BY <3>3 , <1>6 DEF Forward
    <3>5. k < l
      BY <1>6, <3>4 DEF NoRepeats
    <3> HIDE DEF a, b
    <3>6. a < b
      BY <1>6, <3>1, <3>2, <3>5, SelectOrder DEF s2
    <3> QED
      BY <1>9, <2>0, <3>6 DEF a, b
  <2> QED
    BY <1>11, <2>0, <2>1, <2>2, <2>3, <2>4
<1>14. \A n \in N : /\ nodes[n] = "transform" => n \in Transforms(nodes)
                    /\ nodes[n] = "sink" => n \in Sinks(nodes)
  BY DEF Transforms, Sinks, OfKind
<1>15. \A i \in 1..Len(o) : o[i] \in N
  BY <1>9
<1>16. GoodOrder(nodes, edges, o)
  BY <1>9, <1>10, <1>12, <1>13, <1>14, <1>15 DEF GoodOrder
<1> QED
  BY <1>1, <1>9, <1>16

=============================================================================
