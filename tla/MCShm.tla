------------------------------- MODULE MCShm --------------------------------
(***************************************************************************)
(* Small instances of Shm for TLC. A word has two bytes, a page four; the  *)
(* largest area is two pages, so the sizes reach from one byte to the      *)
(* limit. Processes and objects are interchangeable.                        *)
(***************************************************************************)
EXTENDS ShmInvariants, TLC

Symmetry == Permutations(Procs) \cup Permutations(Objs)

\* One byte, a page, a byte more than a page, and the largest area there is.
BoundarySizes == {1, PageSize, PageSize + 1, MAX_SHM_SIZE}

=============================================================================
