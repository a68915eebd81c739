------------------------------ MODULE MCPosts ------------------------------
(* Small instances of Posts. *)
EXTENDS Posts, TLC

\* Handlers and comments are interchangeable: safety properties only.
Symmetric == Permutations(Req) \union Permutations(Comment)

=============================================================================
