----------------------------- MODULE FoldLemmas -----------------------------
(***************************************************************************)
(* What FoldLeft computes, for every operator and every sequence: the      *)
(* operator applied to one element after the other.  The proofs about the  *)
(* configuration and the requests instantiate this module with the step of *)
(* each fold.                                                              *)
(*                                                                         *)
(* FoldLeft is defined by a function on the sets of places of the          *)
(* sequence.  That there is such a function, and only one on the places    *)
(* 1 .. k, is shown by induction on k; induction in turn comes from the    *)
(* least number of a set, of which the library's theorem that < is         *)
(* well-founded is the source.                                             *)
(***************************************************************************)
EXTENDS SequencesExt, SequenceTheorems, WellFoundedInduction, TLAPS

CONSTANTS Op(_, _), Base

(* A set of numbers that is not empty has a least one.                     *)
LEMMA LeastOf ==
    ASSUME NEW I \in SUBSET Nat, I # {}
    PROVE  Min(I) \in I /\ \A j \in I : Min(I) <= j
<1> DEFINE Less == {ss \in Nat \X Nat : ss[1] < ss[2]}
<1>1. IsWellFoundedOn(Less, Nat)
  BY NatLessThanWellFounded DEF OpToRel
<1>2. \E x \in I : \A y \in I : <<y, x>> \notin Less
  <2> HIDE DEF Less
  <2> QED
    BY <1>1, WFMin
<1>3. \A x, y \in Nat : <<y, x>> \notin Less => x =< y
  OBVIOUS
<1>4. \E x \in I : \A y \in I : x =< y
  <2> HIDE DEF Less
  <2> QED
    BY <1>2, <1>3
<1> QED
  BY <1>4 DEF Min

(* A set of places that is not empty has a greatest one.                   *)
LEMMA GreatestOf ==
    ASSUME NEW n \in Nat, NEW I \in SUBSET (1 .. n), I # {}
    PROVE  Max(I) \in I /\ \A j \in I : Max(I) >= j
<1> DEFINE R == {n - i : i \in I}
<1>1. R \in SUBSET Nat /\ R # {}
  <2>1. \A i \in I : i \in 1 .. n
    OBVIOUS
  <2>2. \A i \in I : n - i \in Nat
    BY <2>1
  <2> QED
    BY <2>2
<1>2. PICK r \in R : \A q \in R : r =< q
  <2> HIDE DEF R
  <2> QED
    BY <1>1, LeastOf
<1>3. PICK i \in I : r = n - i
  OBVIOUS
<1>4. \A j \in I : n - j \in R
  OBVIOUS
<1>5. \A j \in I : i >= j
  <2>1. \A j \in I : n - i =< n - j /\ j \in Int /\ i \in Int
    BY <1>2, <1>3, <1>4
  <2> QED
    BY <2>1
<1> QED
  BY <1>5 DEF Max

(* Induction: a set of numbers with 0 and the successors of its members.   *)
LEMMA AllNumbers ==
    ASSUME NEW T, 0 \in T, \A n \in Nat : n \in T => n + 1 \in T
    PROVE  \A n \in Nat : n \in T
<1> DEFINE I == {n \in Nat : n \notin T}
<1> SUFFICES ASSUME I # {} PROVE FALSE
  OBVIOUS
<1>1. PICK m \in I : \A j \in I : m <= j
  <2>1. I \in SUBSET Nat
    OBVIOUS
  <2> HIDE DEF I
  <2> QED
    BY <2>1, LeastOf
<1>2. m \in Nat /\ m # 0 /\ m - 1 \in Nat
  OBVIOUS
<1>3. m - 1 \in T
  BY <1>1, <1>2
<1> QED
  BY <1>2, <1>3

(* The greatest of the first k places is k.                                *)
LEMMA GreatestPlace ==
    ASSUME NEW k \in Nat, NEW s \in SUBSET (1 .. k), k \in s
    PROVE  Max(s) = k
<1>1. \A x \in s : x =< k /\ x \in Int
  OBVIOUS
<1>2. \A x \in s : (\A y \in s : x >= y) <=> x = k
  BY <1>1
<1>3. Max(s) \in s /\ \A y \in s : Max(s) >= y
  BY <1>2 DEF Max
<1> QED
  BY <1>2, <1>3

---------------------------------------------------------------------------
(* The function behind FoldLeft, on the sets of the first n places.        *)
Solves(g, seq, n) ==
    g = [s \in SUBSET (1 .. n) |->
           IF s = {} THEN Base ELSE Op(g[s \ {Max(s)}], seq[Max(s)])]

Folded(seq) == FoldLeft(Op, Base, seq)

(* Such a function has its value at every set but the empty one from a     *)
(* smaller set.                                                            *)
LEMMA SolvesAt ==
    ASSUME NEW g, NEW seq, NEW n \in Nat, Solves(g, seq, n)
    PROVE  /\ g[{}] = Base
           /\ \A k \in 1 .. n : g[1 .. k] = Op(g[1 .. k - 1], seq[k])
<1>1. g[{}] = Base
  BY DEF Solves
<1>2. ASSUME NEW k \in 1 .. n
      PROVE  g[1 .. k] = Op(g[1 .. k - 1], seq[k])
  <2>1. Max(1 .. k) = k
    BY GreatestPlace
  <2>2. (1 .. k) \ {k} = 1 .. k - 1
    OBVIOUS
  <2>3. 1 .. k \in SUBSET (1 .. n) /\ 1 .. k # {}
    OBVIOUS
  <2>4. g[1 .. k] = IF 1 .. k = {} THEN Base
                    ELSE Op(g[(1 .. k) \ {Max(1 .. k)}], seq[Max(1 .. k)])
    BY <2>3, Zenon DEF Solves
  <2> QED
    BY <2>1, <2>2, <2>3, <2>4, Zenon
<1> QED
  BY <1>1, <1>2

(* From a function for n places one for n + 1 is made.                     *)
LEMMA SolvesOneMore ==
    ASSUME NEW seq, NEW n \in Nat, NEW g, Solves(g, seq, n)
    PROVE  \E h : Solves(h, seq, n + 1)
<1> DEFINE h == [s \in SUBSET (1 .. n + 1) |->
                   IF s \in SUBSET (1 .. n) THEN g[s] ELSE Op(g[s \ {n + 1}], seq[n + 1])]
           k == [s \in SUBSET (1 .. n + 1) |->
                   IF s = {} THEN Base ELSE Op(h[s \ {Max(s)}], seq[Max(s)])]
<1>1. ASSUME NEW s \in SUBSET (1 .. n + 1)
      PROVE  h[s] = k[s]
  <2>1. CASE s = {}
    <3>1. h[s] = g[{}]
      BY <2>1
    <3> QED
      BY <2>1, <3>1, SolvesAt
  <2>2. CASE s \in SUBSET (1 .. n) /\ s # {}
    <3>1. g[s] = Op(g[s \ {Max(s)}], seq[Max(s)])
      BY <2>2, Zenon DEF Solves
    <3>2. h[s] = g[s] /\ h[s \ {Max(s)}] = g[s \ {Max(s)}]
      BY <2>2
    <3>3. k[s] = Op(h[s \ {Max(s)}], seq[Max(s)])
      BY <2>2
    <3> HIDE DEF h, k
    <3> QED
      BY <3>1, <3>2, <3>3
  <2>3. CASE s \notin SUBSET (1 .. n)
    <3>1. n + 1 \in s
      BY <2>3
    <3>2. Max(s) = n + 1
      BY <3>1, GreatestPlace
    <3>3. s \ {n + 1} \in SUBSET (1 .. n) /\ s \ {n + 1} \in SUBSET (1 .. n + 1)
      OBVIOUS
    <3>4. h[s \ {n + 1}] = g[s \ {n + 1}]
      BY <3>3
    <3>5. k[s] = Op(h[s \ {Max(s)}], seq[Max(s)])
      BY <3>1
    <3>6. h[s] = Op(g[s \ {n + 1}], seq[n + 1])
      BY <2>3
    <3> HIDE DEF h, k
    <3> QED
      BY <3>2, <3>4, <3>5, <3>6
  <2> QED
    BY <2>1, <2>2, <2>3
<1>2. h = k
  <2>1. DOMAIN h = SUBSET (1 .. n + 1) /\ DOMAIN k = SUBSET (1 .. n + 1)
    OBVIOUS
  <2>2. h = [s \in SUBSET (1 .. n + 1) |-> h[s]]
    OBVIOUS
  <2>3. k = [s \in SUBSET (1 .. n + 1) |-> k[s]]
    OBVIOUS
  <2> HIDE DEF h, k
  <2> QED
    BY <1>1, <2>2, <2>3
<1>3. Solves(h, seq, n + 1)
  <2> HIDE DEF h
  <2> QED
    BY <1>2 DEF Solves
<1> QED
  BY <1>3

LEMMA Solvable ==
    ASSUME NEW seq
    PROVE  \A n \in Nat : \E g : Solves(g, seq, n)
<1> DEFINE T == {n \in Nat : \E g : Solves(g, seq, n)}
<1>1. 0 \in T
  <2> DEFINE g == [s \in SUBSET (1 .. 0) |-> Base]
  <2>1. ASSUME NEW s \in SUBSET (1 .. 0) PROVE s = {}
    OBVIOUS
  <2>2. g = [s \in SUBSET (1 .. 0) |->
               IF s = {} THEN Base ELSE Op(g[s \ {Max(s)}], seq[Max(s)])]
    BY <2>1
  <2>3. Solves(g, seq, 0)
    <3> HIDE DEF g
    <3> QED
      BY <2>2 DEF Solves
  <2> QED
    BY <2>3
<1>2. \A n \in Nat : n \in T => n + 1 \in T
  BY SolvesOneMore
<1>3. \A n \in Nat : n \in T
  <2> HIDE DEF T
  <2> QED
    BY <1>1, <1>2, AllNumbers
<1> QED
  BY <1>3

LEMMA FoldedIs ==
    ASSUME NEW S, NEW seq \in Seq(S)
    PROVE  Folded(seq) = (CHOOSE g : Solves(g, seq, Len(seq)))[1 .. Len(seq)]
<1>1. DOMAIN seq = 1 .. Len(seq)
  OBVIOUS
<1> QED
  BY <1>1 DEF Folded, FoldLeft, MapThenFoldSet, Solves

(* A fold is the last of its intermediate results: any function that       *)
(* begins with the base and has one step of the operator between each of   *)
(* its values and the next ends with the fold.                             *)
THEOREM FoldedAlong ==
    ASSUME NEW S, NEW seq \in Seq(S), NEW a,
           a[0] = Base,
           \A k \in 1 .. Len(seq) : a[k] = Op(a[k - 1], seq[k])
    PROVE  Folded(seq) = a[Len(seq)]
<1>1. \E g : Solves(g, seq, Len(seq))
  <2>1. Len(seq) \in Nat
    OBVIOUS
  <2> QED
    BY <2>1, Solvable, Zenon
<1> DEFINE f == CHOOSE h : Solves(h, seq, Len(seq))
<1>2. Solves(f, seq, Len(seq))
  BY <1>1, Zenon
<1>3. Folded(seq) = f[1 .. Len(seq)]
  BY FoldedIs, Zenon
<1> HIDE DEF f
<1>4. /\ f[{}] = Base
      /\ \A k \in 1 .. Len(seq) : f[1 .. k] = Op(f[1 .. k - 1], seq[k])
  BY <1>2, SolvesAt
<1> DEFINE T == {n \in Nat : n =< Len(seq) => f[1 .. n] = a[n]}
<1>5. 0 \in T
  <2>1. 1 .. 0 = {}
    OBVIOUS
  <2> QED
    BY <1>4, <2>1
<1>6. ASSUME NEW n \in Nat, n \in T
      PROVE  n + 1 \in T
  <2> SUFFICES ASSUME n + 1 =< Len(seq)
               PROVE  f[1 .. n + 1] = a[n + 1]
    OBVIOUS
  <2>1. f[1 .. n] = a[n]
    BY <1>6
  <2>2. n + 1 \in 1 .. Len(seq) /\ (n + 1) - 1 = n
    OBVIOUS
  <2>3. f[1 .. n + 1] = Op(f[1 .. (n + 1) - 1], seq[n + 1])
    BY <1>4, <2>2
  <2> QED
    BY <2>1, <2>2, <2>3
<1>7. \A n \in Nat : n \in T
  <2> HIDE DEF T
  <2> QED
    BY <1>5, <1>6, AllNumbers
<1> QED
  BY <1>3, <1>7

(* The fold of nothing is the base.                                        *)
THEOREM FoldedEmpty == Folded(<<>>) = Base
<1> DEFINE a == [k \in {0} |-> Base]
<1>1. a[0] = Base /\ \A k \in 1 .. Len(<<>>) : a[k] = Op(a[k - 1], <<>>[k])
  OBVIOUS
<1>2. <<>> \in Seq({}) /\ Len(<<>>) = 0
  OBVIOUS
<1> HIDE DEF a
<1> QED
  BY <1>1, <1>2, FoldedAlong

(* One element more is one step more.                                      *)
THEOREM FoldedAppend ==
    ASSUME NEW S, NEW seq \in Seq(S), NEW x \in S
    PROVE  Folded(Append(seq, x)) = Op(Folded(seq), x)
<1> DEFINE n == Len(seq)
           longer == Append(seq, x)
<1>1. longer \in Seq(S) /\ Len(longer) = n + 1 /\ longer[n + 1] = x
      /\ \A k \in 1 .. n : longer[k] = seq[k]
  OBVIOUS
<1>2. n \in Nat
  OBVIOUS
<1> HIDE DEF longer, n
<1>3. PICK g : Solves(g, longer, n + 1)
  <2>1. n + 1 \in Nat
    BY <1>2
  <2> QED
    BY <2>1, Solvable, Zenon
<1> DEFINE a == [k \in 0 .. n + 1 |-> g[1 .. k]]
<1>4. a[0] = Base
  <2>1. 1 .. 0 = {}
    OBVIOUS
  <2> QED
    BY <1>2, <1>3, <2>1, SolvesAt
<1>5. \A k \in 1 .. n + 1 : a[k] = Op(a[k - 1], longer[k])
  <2>1. \A k \in 1 .. n + 1 : g[1 .. k] = Op(g[1 .. k - 1], longer[k])
    BY <1>2, <1>3, SolvesAt
  <2>2. \A k \in 1 .. n + 1 : a[k] = g[1 .. k] /\ a[k - 1] = g[1 .. k - 1]
    BY <1>2
  <2> HIDE DEF a
  <2> QED
    BY <2>1, <2>2
<1> HIDE DEF a
<1>6. Folded(longer) = a[n + 1]
  BY <1>1, <1>4, <1>5, FoldedAlong
<1>7. Folded(seq) = a[n]
  <2>1. \A k \in 1 .. Len(seq) : a[k] = Op(a[k - 1], seq[k])
    BY <1>1, <1>2, <1>5 DEF n
  <2>2. Folded(seq) = a[Len(seq)]
    BY <1>4, <2>1, FoldedAlong
  <2> QED
    BY <2>2 DEF n
<1>8. a[n + 1] = Op(a[n], x)
  <2>1. n + 1 \in 1 .. n + 1 /\ (n + 1) - 1 = n
    BY <1>2
  <2> QED
    BY <1>1, <1>5, <2>1
<1> QED
  BY <1>6, <1>7, <1>8 DEF longer
=============================================================================
