----------------------------- MODULE TallocHeap ------------------------------
(***************************************************************************)
(* The heap of ccan/talloc/talloc.c, at the level of its pointers: chunks  *)
(* in lists of siblings, of which only the first knows the parent, and     *)
(* references, which are chunks with a handle. Each function that links or *)
(* unlinks a chunk is an operator from the heap before it to the heap      *)
(* after it.                                                               *)
(*                                                                         *)
(* An access to memory that has been freed, a store to an external pool    *)
(* without its lock, and a loop that cannot end, is recorded in the field  *)
(* fault. Names and sizes are left out.                                    *)
(***************************************************************************)
EXTENDS Integers, FiniteSets

CONSTANTS Chunks, NULL

ASSUME NullAssumption == NULL \notin Chunks

Pointers == Chunks \cup {NULL}

\* What a destructor does: nothing (none is set), it fails, it frees the
\* context the pointer hangs off, it is talloc_reference_destructor; "running"
\* is the value -1 the code stores while the destructor runs.
UserDestructors == {"none", "fail", "up"}

Destructors == UserDestructors \cup {"reference", "running"}

\* struct talloc_chunk; hnext, hprev and ptr are the struct
\* talloc_reference_handle behind it, ptr is NULL in every other chunk. ext is
\* the flag of chunks in an external pool.
Blank == [free |-> TRUE, loop |-> FALSE, ext |-> FALSE,
          next |-> NULL, prev |-> NULL, parent |-> NULL, child |-> NULL,
          refs |-> NULL, destructor |-> "none",
          hnext |-> NULL, hprev |-> NULL, ptr |-> NULL]

ChunkRecords ==
    [free : BOOLEAN, loop : BOOLEAN, ext : BOOLEAN,
     next : Pointers, prev : Pointers, parent : Pointers, child : Pointers,
     refs : Pointers, destructor : Destructors,
     hnext : Pointers, hprev : Pointers, ptr : Pointers]

Faults == {"none", "use after free", "endless", "unlocked", "nested locking"}

\* A heap: the chunks, null_context, whether this process has the lock of the
\* pool, and what went wrong so far.
Empty == [mem |-> [c \in Chunks |-> Blank], null_context |-> NULL,
          locked |-> FALSE, fault |-> "none"]

Heaps == [mem : [Chunks -> ChunkRecords], null_context : Pointers,
          locked : BOOLEAN, fault : Faults]

Live(H) == {c \in Chunks : ~H.mem[c].free}

Handles(H) == {c \in Live(H) : H.mem[c].ptr # NULL}

-----------------------------------------------------------------------------
(* Access. *)

\* An access to chunk c, which should be allocated.
Touch(H, c) ==
    IF H.fault = "none" /\ H.mem[c].free
    THEN [H EXCEPT !.fault = "use after free"] ELSE H

\* A store to c: other processes use the pool too.
Guard(H, c) ==
    IF H.fault = "none" /\ H.mem[c].ext /\ ~H.locked
    THEN [H EXCEPT !.fault = "unlocked"] ELSE H

\* A store to tc->name, which is left out of the heap.
SetName(H, c) == Guard(Touch(H, c), c)

Set(H, c, field, v) == [Guard(Touch(H, c), c) EXCEPT !.mem[c][field] = v]

\* A store the code guards by if (c).
Store(H, c, field, v) == IF c = NULL THEN H ELSE Set(H, c, field, v)

InPool(H, p) == p # NULL /\ H.mem[p].ext

\* lock(p). A pool exists only after talloc_add_external has set tc_lock.
lock(H, p) ==
    CASE ~InPool(H, p) -> H
      [] InPool(H, p) /\ H.locked -> [H EXCEPT !.fault = "nested locking"]
      [] InPool(H, p) /\ ~H.locked -> [H EXCEPT !.locked = TRUE]

unlock(H) == [H EXCEPT !.locked = FALSE]

-----------------------------------------------------------------------------
(* The lists. A list is given by the names of its fields. *)

Siblings == [head |-> "child", next |-> "next", prev |-> "prev"]

References == [head |-> "refs", next |-> "hnext", prev |-> "hprev"]

\* _TLIST_ADD(o->head, p)
TLIST_ADD(H, L, o, p) ==
    LET first == H.mem[o][L.head]
        H1 == Store(H, first, L.prev, p)
        H2 == Set(Set(H1, p, L.next, first), p, L.prev, NULL)
    IN  Set(H2, o, L.head, p)

\* c's neighbours in the list are linked to each other.
Close(H, L, c) ==
    LET next == H.mem[c][L.next]
        prev == H.mem[c][L.prev]
    IN  Store(Store(H, prev, L.next, next), next, L.prev, prev)

\* _TLIST_REMOVE(o->head, p)
TLIST_REMOVE(H, L, o, p) ==
    LET next == H.mem[p][L.next]
        H1 == IF H.mem[o][L.head] = p
              THEN Store(Set(H, o, L.head, next), next, L.prev, NULL)
              ELSE Close(H, L, p)
    IN  Set(Set(H1, p, L.next, NULL), p, L.prev, NULL)

-----------------------------------------------------------------------------
(* Allocation and moves. *)

\* context, or null_context for NULL
Context(H, context) == IF context = NULL THEN H.null_context ELSE context

\* A new chunk c, first child of parent.
Fresh(H, parent, c) ==
    [H EXCEPT !.mem[c] = [Blank EXCEPT !.free = FALSE, !.ext = InPool(H, parent),
                            !.parent = parent,
                            !.next = IF parent = NULL THEN NULL ELSE H.mem[parent].child]]

oneway_InitTalloc(H, parent, c) ==
    LET H1 == Fresh(H, parent, c)
    IN  Store(Store(H1, H1.mem[c].next, "parent", NULL), parent, "child", c)

\* init_talloc
InitTalloc(H, parent, c) ==
    LET H1 == Fresh(H, parent, c)
        next == H1.mem[c].next
        H2 == Store(Store(H1, next, "parent", NULL), next, "prev", c)
    IN  Store(H2, parent, "child", c)

\* _talloc_reference: c becomes a handle of ptr.
Reference(H, context, ptr, c) ==
    LET H1 == InitTalloc(H, Context(H, context), c)
        H2 == Set(Set(H1, c, "destructor", "reference"), c, "ptr", ptr)
    IN  TLIST_ADD(H2, References, ptr, c)

dropping_Detach(H, c) ==
    LET parent == H.mem[c].parent
    IN  IF parent = NULL
        THEN Close(H, Siblings, c)
        ELSE TLIST_REMOVE(H, Siblings, parent, c)

\* c leaves the list of its siblings; a first child passes its parent on. Any
\* other keeps its own pointers.
Detach(H, c) ==
    LET parent == H.mem[c].parent
        H1 == TLIST_REMOVE(H, Siblings, parent, c)
    IN  IF parent = NULL
        THEN Close(H, Siblings, c)
        ELSE Store(H1, H1.mem[parent].child, "parent", parent)

\* __talloc_steal
Steal(H, new_ctx, c) ==
    LET new == Context(H, new_ctx)
        H1 == Detach(H, c)
    IN  CASE new = NULL ->
                Set(Set(Set(H1, c, "parent", NULL), c, "next", NULL), c, "prev", NULL)
          [] new # NULL /\ (c = new \/ H.mem[c].parent = new) -> H
          [] OTHER ->
                LET H2 == Store(Set(H1, c, "parent", new), H1.mem[new].child, "parent", NULL)
                IN  TLIST_ADD(H2, Siblings, new, c)

\* _talloc_realloc moved p to c: its neighbours are told.
Moved(H, p, c) ==
    LET tc == H.mem[p]
        H1 == [H EXCEPT !.mem[c] = tc, !.mem[p] = Blank]
        H2 == Store(Store(H1, tc.parent, "child", c), tc.child, "parent", c)
    IN  Store(Store(H2, tc.prev, "next", c), tc.next, "prev", c)

forgetting_Dereference(H, h) == H

\* talloc_reference_destructor
Dereference(H, h) == TLIST_REMOVE(H, References, H.mem[h].ptr, h)

\* _talloc_free: c is out of its list and marked, its children are not.
TakenOut(H, c) ==
    Set(Detach(Set(H, c, "destructor", "none"), c), c, "loop", TRUE)

Freed(H, c) == [H EXCEPT !.mem[c].free = TRUE]

-----------------------------------------------------------------------------
(* What the lists promise. While _talloc_free takes chunks apart they are in *)
(* no list any more, so S is the set of the others, and R the set of the     *)
(* chunks and handles that take part in references.                          *)

\* A list linked both ways, at x and y.
BothWays(H, x, y, next, prev) == H.mem[x][next] = y <=> H.mem[y][prev] = x

\* The lists of siblings are linked both ways, and the first sibling and no other
\* knows the parent, which _talloc_free and __talloc_steal take as the test for
\* being first.
SiblingsSound(H, S) ==
    LET m == H.mem
    IN  /\ \A x \in S :
            /\ {m[x].next, m[x].prev} \subseteq S \cup {NULL}
            /\ m[x].parent \in Live(H) \cup {NULL}
            /\ m[x].parent # NULL => m[x].prev = NULL
            /\ \A y \in S : BothWays(H, x, y, "next", "prev")
        /\ \A x \in Live(H) :
            /\ m[x].child \in S \cup {NULL}
            /\ \A y \in S : BothWays(H, x, y, "child", "parent")

\* The handles of a chunk are in one list, linked both ways.
ReferencesSound(H, R) ==
    LET m == H.mem
    IN  /\ \A x \in R :
            /\ {m[x].refs, m[x].ptr, m[x].hnext, m[x].hprev} \subseteq R \cup {NULL}
            /\ \A y \in R : BothWays(H, x, y, "hnext", "hprev")
            /\ m[x].hnext # NULL => m[m[x].hnext].ptr = m[x].ptr
            /\ m[x].refs # NULL => m[m[x].refs].ptr = x
            /\ m[x].ptr # NULL => (m[x].hprev = NULL <=> m[m[x].ptr].refs = x)
            /\ m[x].ptr = NULL => m[x].hnext = NULL /\ m[x].hprev = NULL
        /\ \A T \in SUBSET R : T # {} => \E h \in T : m[h].hprev \notin T

\* The next chunk on the way up from x.
Up(H, x) == IF H.mem[x].prev = NULL THEN H.mem[x].parent ELSE H.mem[x].prev

\* Every way up ends: no list is a ring, and no chunk hangs below itself.
Grounded(H, S) == \A T \in SUBSET S : T # {} => \E x \in T : Up(H, x) \notin T

==============================================================================
