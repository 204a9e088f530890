------------------------------ MODULE Ordering ------------------------------
(***************************************************************************)
(* What a sort returns, said without saying how: the k-th of a finite set  *)
(* is the element with k - 1 others before it.  (A sort of the community   *)
(* modules is defined by recursion, which cannot be reasoned about.)       *)
(***************************************************************************)
EXTENDS Integers, FiniteSets

(* The elements of S that come before x. *)
Before(S, R, x) == {y \in S : <<y, x>> \in R}

(* The elements of S in the order R, a set of pairs. *)
InOrder(S, R) ==
    [k \in 1..Cardinality(S) |-> CHOOSE x \in S : Cardinality(Before(S, R, x)) = k - 1]

(* The numbers of S, the smallest first. *)
Ascending(S) == InOrder(S, {p \in S \X S : p[1] < p[2]})

(* The elements of a sequence at the positions S, in their order. *)
ElementsAt(s, S) ==
    LET at == Ascending(S) IN [k \in DOMAIN at |-> s[at[k]]]

(* R orders S: of two elements exactly one comes before the other. *)
Orders(R, S) ==
    /\ \A x \in S : <<x, x>> \notin R
    /\ \A x, y \in S : x # y => <<x, y>> \in R \/ <<y, x>> \in R
    /\ \A x, y, z \in S : <<x, y>> \in R /\ <<y, z>> \in R => <<x, z>> \in R
=============================================================================
