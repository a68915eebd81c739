--------------------------- MODULE MCBirthCharts ---------------------------
(* Small instances of BirthCharts. *)
EXTENDS BirthCharts, TLC
Symmetric == Permutations(Born) \union Permutations(Reader)

=============================================================================
