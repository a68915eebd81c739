------------------------------ MODULE MCOtp ------------------------------
(* Small instances of Otp. *)
EXTENDS Otp, TLC

\* Handlers are interchangeable: safety properties only.
Symmetric == Permutations(Req)

=============================================================================
