--------------------------- MODULE MCSpaceMembers ---------------------------
(* Small instances of SpaceMembers. *)
EXTENDS SpaceMembers, TLC

\* Handlers and users are interchangeable: safety properties only.
Symmetric == Permutations(Req) \union Permutations(User)

=============================================================================
