--------------------------- MODULE MCFeePayments ---------------------------
(***************************************************************************)
(* FeePayments on small instances: two schools, two captured payments.     *)
(***************************************************************************)
EXTENDS FeePayments, TLC

CONSTANTS s1, s2, x1, x2, r1, r2, r3, f1

(* Both captured payments were made to the first school.                   *)
SameSchool == [x \in Captured |-> s1]

(* Each school was paid once through the gateway.                          *)
OneEach == [x \in Captured |-> IF x = x1 THEN s1 ELSE s2]

Symmetry == Permutations(Requests)
=============================================================================
