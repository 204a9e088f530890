--------------------------- MODULE OrderingProofs ---------------------------
(***************************************************************************)
(* Facts about numbers and sorts that the proofs about the host's parts    *)
(* rest on.  The library's induction takes an operator as a parameter; the *)
(* least of a set of numbers serves in its place: a claim that fails for   *)
(* some number fails for a least one.                                      *)
(***************************************************************************)
EXTENDS Ordering, FiniteSetTheorems, FunctionTheorems, TLAPS

(* A set of numbers that is not empty has a least. *)
LEMMA LeastNat ==
    ASSUME NEW T \in SUBSET Nat, T # {}
    PROVE  \E x \in T : \A y \in T : x <= y
  <1> DEFINE R == OpToRel(<, Nat)
  <1>1. \A x, y \in Nat : <<y, x>> \in R <=> y < x
      BY DEF OpToRel
  <1>2. IsWellFoundedOn(R, Nat)
      BY NatLessThanWellFounded
  <1> HIDE DEF R
  <1>3. PICK x \in T : \A y \in T : ~(<<y, x>> \in R)
      BY <1>2, WFMin
  <1>4. \A y \in T : y \in Nat /\ x \in Nat /\ ~(y < x)
      BY <1>1, <1>3
  <1>5. \A y \in T : x <= y
      BY <1>4
  <1> QED BY <1>5, Zenon

(* A set that is ordered is listed in that order, each element once. *)
LEMMA Listed ==
    ASSUME NEW S, IsFiniteSet(S), NEW R, Orders(R, S)
    PROVE  /\ Cardinality(S) \in Nat
           /\ InOrder(S, R) \in [1..Cardinality(S) -> S]
           /\ \A x \in S : \E k \in 1..Cardinality(S) : InOrder(S, R)[k] = x
           /\ \A j, k \in 1..Cardinality(S) :
                  j < k => <<InOrder(S, R)[j], InOrder(S, R)[k]>> \in R
  <1> DEFINE n == Cardinality(S)
             b(x) == Before(S, R, x)
             rank == [x \in S |-> Cardinality(b(x)) + 1]
             q == InOrder(S, R)
  <1>1. n \in Nat /\ IsFiniteSet(1..n) /\ Cardinality(1..n) = n
    BY FS_CardinalityType, FS_Interval
  <1>2. \A x \in S : IsFiniteSet(b(x)) /\ Cardinality(b(x)) \in 0..n - 1
    <2> SUFFICES ASSUME NEW x \in S
                 PROVE  IsFiniteSet(b(x)) /\ Cardinality(b(x)) \in 0..n - 1
      OBVIOUS
    <2>1. b(x) \in SUBSET S /\ x \notin b(x) BY DEF Before, Orders
    <2>2. IsFiniteSet(b(x)) /\ Cardinality(b(x)) <= n /\ (n = Cardinality(b(x)) => S = b(x))
      BY <2>1, FS_Subset
    <2>3. Cardinality(b(x)) \in Nat BY <2>2, FS_CardinalityType
    <2> QED BY <1>1, <2>1, <2>2, <2>3
  <1>3. \A x, y \in S : <<x, y>> \in R => Cardinality(b(x)) < Cardinality(b(y))
    <2> SUFFICES ASSUME NEW x \in S, NEW y \in S, <<x, y>> \in R
                 PROVE  Cardinality(b(x)) < Cardinality(b(y))
      OBVIOUS
    <2>1. b(x) \in SUBSET b(y) BY DEF Before, Orders
    <2>2. x \in b(y) /\ x \notin b(x) BY DEF Before, Orders
    <2>3. /\ Cardinality(b(x)) <= Cardinality(b(y))
          /\ Cardinality(b(y)) = Cardinality(b(x)) => b(y) = b(x)
      BY <1>2, <2>1, FS_Subset
    <2> HIDE DEF b
    <2> QED BY <1>2, <2>2, <2>3
  <1>4. \A x, y \in S : x # y => Cardinality(b(x)) # Cardinality(b(y))
    <2> SUFFICES ASSUME NEW x \in S, NEW y \in S, x # y
                 PROVE  Cardinality(b(x)) # Cardinality(b(y))
      OBVIOUS
    <2>1. <<x, y>> \in R \/ <<y, x>> \in R BY DEF Orders
    <2> HIDE DEF b
    <2> QED BY <1>2, <1>3, <2>1
  <1> HIDE DEF b
  <1>5. rank \in Injection(S, 1..n)
    <2>1. rank \in [S -> 1..n] BY <1>1, <1>2
    <2>2. \A x, y \in S : rank[x] = rank[y] => x = y BY <1>2, <1>4
    <2> QED BY <2>1, <2>2, Fun_IsInj
  <1>6. rank \in Surjection(S, 1..n) BY <1>1, <1>5, FS_Injection
  <1>7. \A k \in 1..n : \E x \in S : Cardinality(b(x)) = k - 1
    <2>1. \A x \in S : rank[x] = Cardinality(b(x)) + 1 OBVIOUS
    <2> HIDE DEF rank
    <2>2. \A k \in 1..n : \E x \in S : rank[x] = k BY <1>6, Fun_SurjectionProperties
    <2> QED BY <1>2, <2>1, <2>2
  <1>8. \A k \in 1..n : q[k] \in S /\ Cardinality(b(q[k])) = k - 1
    BY <1>7 DEF InOrder, b
  <1>9. q \in [1..n -> S] BY <1>8 DEF InOrder
  <1>10. \A x \in S : \E k \in 1..n : q[k] = x
    <2> SUFFICES ASSUME NEW x \in S PROVE \E k \in 1..n : q[k] = x OBVIOUS
    <2>1. Cardinality(b(x)) + 1 \in 1..n BY <1>1, <1>2
    <2>2. Cardinality(b(q[Cardinality(b(x)) + 1])) = Cardinality(b(x)) BY <1>2, <1>8, <2>1
    <2> QED BY <1>4, <1>8, <2>1, <2>2
  <1>11. \A j, k \in 1..n : j < k => <<q[j], q[k]>> \in R
    <2> SUFFICES ASSUME NEW j \in 1..n, NEW k \in 1..n, j < k PROVE <<q[j], q[k]>> \in R
      OBVIOUS
    <2>1. q[j] \in S /\ q[k] \in S /\ Cardinality(b(q[j])) < Cardinality(b(q[k]))
      BY <1>8
    <2>2. q[j] # q[k] BY <2>1, <1>2
    <2>3. ~(<<q[k], q[j]>> \in R) BY <1>2, <1>3, <2>1
    <2> QED BY <2>1, <2>2, <2>3 DEF Orders
  <1> QED BY <1>1, <1>9, <1>10, <1>11

(* Numbers are listed by size. *)
LEMMA Listing ==
    ASSUME NEW n \in Nat, NEW S \in SUBSET (1..n)
    PROVE  /\ Cardinality(S) \in Nat
           /\ Ascending(S) \in [1..Cardinality(S) -> S]
           /\ \A x \in S : \E k \in 1..Cardinality(S) : Ascending(S)[k] = x
           /\ \A j, k \in 1..Cardinality(S) : j < k => Ascending(S)[j] < Ascending(S)[k]
  <1> DEFINE R == {p \in S \X S : p[1] < p[2]}
             q == Ascending(S)
             c == Cardinality(S)
  <1>1. IsFiniteSet(S)
    <2>1. IsFiniteSet(1..n) BY FS_Interval
    <2> QED BY <2>1, FS_Subset
  <1>2. \A x, y \in S : <<x, y>> \in R <=> x < y OBVIOUS
  <1>3. q = InOrder(S, R) BY DEF Ascending
  <1> HIDE DEF R, q
  <1>4. Orders(R, S) BY <1>2 DEF Orders
  <1>5. /\ c \in Nat /\ q \in [1..c -> S]
        /\ \A x \in S : \E k \in 1..c : q[k] = x
        /\ \A j, k \in 1..c : j < k => <<q[j], q[k]>> \in R
    BY <1>1, <1>3, <1>4, Listed
  <1> HIDE DEF c
  <1>6. \A j, k \in 1..c : j < k => q[j] < q[k] BY <1>2, <1>5
  <1> QED BY <1>5, <1>6 DEF q, c
=============================================================================
