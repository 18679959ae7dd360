------------------------------ MODULE MCTalloc -------------------------------
(***************************************************************************)
(* Instances of Talloc for TLC: the chunks are interchangeable.            *)
(***************************************************************************)
EXTENDS TallocReports, TLC

Symmetry == Permutations(Chunks)

==============================================================================
