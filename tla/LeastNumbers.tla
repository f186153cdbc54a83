------------------------------ MODULE LeastNumbers ------------------------------
(***************************************************************************)
(* Least elements of sets of natural numbers: what the code's searches for *)
(* a smallest number return, and induction in the form of a least          *)
(* counterexample.                                                         *)
(***************************************************************************)
EXTENDS Integers, FiniteSetsExt, TLAPS, WellFoundedInduction

\* Every nonempty set of natural numbers has a least one.  The searches of
\* recalculate_mtu and get_next_target_number rest on it, and so does every
\* induction below.
LEMMA Least ==
  ASSUME NEW T, T \subseteq Nat, T # {}
  PROVE  \E n \in T : \A m \in T : n <= m
<1>1. PICK n \in T : \A m \in T : <<m, n>> \notin OpToRel(<, Nat)
  BY NatLessThanWellFounded, WFMin, Zenon
<1>2. \A m \in T : ~ (m < n)
  BY <1>1 DEF OpToRel
<1> QED
  BY <1>2

\* Min is what recalculate_mtu and get_next_target_number take it for.
LEMMA MinIsLeast ==
  ASSUME NEW T, T \subseteq Nat, T # {}
  PROVE  Min(T) \in T /\ \A m \in T : Min(T) <= m
BY Least DEF Min

=============================================================================
