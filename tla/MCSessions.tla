---------------------------- MODULE MCSessions ----------------------------
(* Small instances of Sessions. *)
EXTENDS Sessions, TLC

\* Handlers and tokens are interchangeable: safety properties only.
Symmetric == Permutations(Req) \union Permutations(Token)

=============================================================================
