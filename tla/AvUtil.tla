------------------------------- MODULE AvUtil -------------------------------
(***************************************************************************)
(* The size arithmetic of src/util.h: rounding a length up to a multiple   *)
(* of the machine word (AV_ALIGN) and of the page (AV_PAGE_ALIGN).         *)
(* A size_t is a natural number here: every length the code rounds is at   *)
(* most MAX_SHM_SIZE + SHM_MARKER_SIZE, far below the width of size_t.     *)
(***************************************************************************)
EXTENDS Integers

CONSTANTS
    WordSize,   \* sizeof(void *)
    PageSize    \* AV_PAGE_SIZE

ASSUME WordAssumption == WordSize \in Nat \ {0}

ASSUME PageAssumption == PageSize \in Nat \ {0}

\* AV_ALIGN: l rounded up to a multiple of the word size.
av_align(l) == ((l + WordSize - 1) \div WordSize) * WordSize

\* AV_PAGE_ALIGN: l rounded up to a multiple of the page size.
av_page_align(l) == ((l + PageSize - 1) \div PageSize) * PageSize

=============================================================================
