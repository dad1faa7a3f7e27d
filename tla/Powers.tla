------------------------------- MODULE Powers -------------------------------
(***************************************************************************)
(* Powers, as a recursive function: a number of n digits in the radix r is *)
(* below Power(r, n).  The provers know no law of ^, and prove those of    *)
(* this function from its definition.                                      *)
(***************************************************************************)
EXTENDS Integers

Power(r, n) == LET p[k \in Nat] == IF k = 0 THEN 1 ELSE r * p[k - 1] IN p[n]
=============================================================================
