--------------------------- MODULE TallocReports -----------------------------
(***************************************************************************)
(* The functions of ccan/talloc/talloc.c that count and show what hangs    *)
(* below a chunk. They change nothing.                                     *)
(***************************************************************************)
EXTENDS Talloc, Sequences

\* _talloc_total_blocks: c, and the blocks of each child. The loop over the
\* children goes along next. No chunk is below itself (Rooted), so the test of
\* TALLOC_FLAG_LOOP never holds.
RECURSIVE TotalBlocks(_, _), ListBlocks(_, _)
TotalBlocks(H, c) == 1 + ListBlocks(H, H.mem[c].child)
ListBlocks(H, c) ==
    IF c = NULL THEN 0 ELSE TotalBlocks(H, c) + ListBlocks(H, H.mem[c].next)

\* _talloc_report_depth_cb: the calls of callback for c and what hangs below it,
\* no deeper than max (if that is not negative); a handle is reported as a
\* reference to its pointer.
RECURSIVE Report(_, _, _, _), ReportList(_, _, _, _)
Report(H, c, depth, max) ==
    <<[ptr |-> c, depth |-> depth, is_ref |-> FALSE]>>
        \o (IF max >= 0 /\ depth >= max THEN <<>>
            ELSE ReportList(H, H.mem[c].child, depth + 1, max))
ReportList(H, c, depth, max) ==
    IF c = NULL THEN <<>>
    ELSE (IF H.mem[c].ptr = NULL THEN Report(H, c, depth, max)
          ELSE <<[ptr |-> H.mem[c].ptr, depth |-> depth, is_ref |-> TRUE]>>)
         \o ReportList(H, H.mem[c].next, depth, max)

-----------------------------------------------------------------------------
(* Properties. *)

\* The calls of a report that shows everything below c: each pointer once, each
\* reference once.
ReportsEach(c, report) ==
    LET calls == {report[k] : k \in DOMAIN report}
        below == Below(heap, {c})
        Of(x) == IF heap.mem[x].ptr = NULL \/ x = c THEN x ELSE heap.mem[x].ptr
    IN  /\ Len(report) = Cardinality(below)
        /\ \A x \in below : \E call \in calls : call.ptr = Of(x) /\ (call.is_ref <=> Of(x) # x)

\* talloc_total_blocks and talloc_report_full, which go along the lists, count and
\* show each chunk and each reference below a chunk once, after any sequence of
\* moves, frees and reallocations; talloc_report shows the first level of that.
ReportsTrue ==
    \A c \in Live(heap) :
        /\ ReportsEach(c, Report(heap, c, 0, -1))
        /\ Report(heap, c, 0, 1) = SelectSeq(Report(heap, c, 0, -1), LAMBDA r : r.depth <= 1)
        /\ TotalBlocks(heap, c) = Cardinality(Below(heap, {c}))

==============================================================================
