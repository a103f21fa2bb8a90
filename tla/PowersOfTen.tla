---------------------------- MODULE PowersOfTen ----------------------------
(***************************************************************************)
(* Powers of ten, the only ones the program takes: by the loop of          *)
(* checked_pow10_u128, or by u128::checked_pow.  A function and not the    *)
(* operator of Naturals, of which the provers know no law.                 *)
(***************************************************************************)
EXTENDS Naturals

PowerOfTen[n \in Nat] == IF n = 0 THEN 1 ELSE 10 * PowerOfTen[n - 1]
=============================================================================
