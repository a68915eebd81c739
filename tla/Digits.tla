------------------------------- MODULE Digits -------------------------------
(***************************************************************************)
(* What the packages numerology, psychomatrix and destinymatrix each have  *)
(* a copy of.                                                              *)
(***************************************************************************)
EXTENDS Integers

Magnitude(n) == IF n < 0 THEN -n ELSE n

DigitSum[n \in Nat] == IF n < 10 THEN n ELSE (n % 10) + DigitSum[n \div 10]
=============================================================================
