------------------------------- MODULE Talloc --------------------------------
(***************************************************************************)
(* A program that uses the hierarchical allocator of ccan/talloc: it       *)
(* allocates, references, moves, resizes, unlinks and frees in any order,  *)
(* with destructors that fail or that free something else.                 *)
(*                                                                         *)
(* The program keeps to the rules the library cannot check: it passes only *)
(* pointers it got and has not freed, and moves nothing below itself. Five *)
(* patterns of use are opened by the constant Patterns, since the library  *)
(* does not keep its promises under them:                                  *)
(*   "null reference"      a reference that hangs off NULL                 *)
(*   "ancestor reference"  one that hangs off an ancestor of the parent    *)
(*   "tangle"              a pointer that owns itself through references,  *)
(*                         and is referenced twice, unlinked, or owns      *)
(*                         something with a destructor                     *)
(*   "failing root"        null tracking is disabled while a destructor    *)
(*                         that fails is set                               *)
(*   "mixed pool"          a call with one pointer in an external pool and *)
(*                         one outside, a pool below a context, or a       *)
(*                         destructor, a string or a formatted name in one *)
(***************************************************************************)
EXTENDS TallocTree

CONSTANT Patterns

ASSUME PatternAssumption ==
    Patterns \subseteq {"null reference", "ancestor reference", "tangle",
                        "failing root", "mixed pool"}

VARIABLE heap

\* Between two calls nothing is marked as being freed, no destructor runs, and
\* the lock is free.
TypeOK ==
    /\ heap \in Heaps
    /\ \A c \in Chunks : ~heap.mem[c].loop /\ heap.mem[c].destructor # "running"
    /\ ~heap.locked

Init == heap = Empty

-----------------------------------------------------------------------------
(* The program. *)

\* The pointers the program has.
Users(H) == {c \in Live(H) : H.mem[c].ptr = NULL /\ c # H.null_context}

Contexts(H) == Users(H) \cup {NULL}

RefsOf(H, p) == {h \in Handles(H) : H.mem[h].ptr = p}

Holder(H, h) == ParentChunk(H, h)

\* The chunks of S and everything below them.
Below(H, S) ==
    LET below[T \in SUBSET Pointers] ==
            LET U == T \cup {x \in Live(H) : ParentChunk(H, x) \in T}
            IN  IF U = T THEN T ELSE below[U]
    IN  below[S]

\* The chunks of S and everything they own, as parents or by references.
Owned(H, S) ==
    LET owned[T \in SUBSET Pointers] ==
            LET U == Below(H, T) \cup {H.mem[h].ptr : h \in Handles(H) \cap T}
            IN  IF U = T THEN T ELSE owned[U]
    IN  owned[S]

\* p owns itself.
Tangled(H, p) == \E h \in RefsOf(H, p) : h \in Owned(H, {p})

\* The parent of c is below a.
IsAbove(H, a, c) ==
    ParentChunk(H, c) # NULL /\ IsParent(H, ParentChunk(H, ParentChunk(H, c)), a)

\* The patterns the program avoids.
Careful(H) ==
    /\ \/ "ancestor reference" \in Patterns
       \/ \A h \in Handles(H) :
            Holder(H, h) # NULL => ~IsAbove(H, Holder(H, h), H.mem[h].ptr)
    /\ \/ "tangle" \in Patterns
       \/ \A p \in Users(H) : Tangled(H, p) =>
            /\ Cardinality(RefsOf(H, p)) = 1
            /\ \A x \in Owned(H, {p}) : H.mem[x].destructor \in {"none", "reference"}

-----------------------------------------------------------------------------
(* The calls. *)

\* malloc gives any free chunk; without one the call returns NULL and changes
\* nothing.
Unused == Chunks \ Live(heap)

\* The call returns: what was freed is gone.
Settled(H) ==
    [H EXCEPT !.mem = [c \in Chunks |-> IF @[c].free THEN Blank ELSE @[c]]]

\* A call with both pointers in a pool or both outside.
Unmixed(p, q) == InPool(heap, p) = InPool(heap, q) \/ "mixed pool" \in Patterns

\* A call with nothing in a pool.
OutsidePool(p) == InPool(heap, p) => "mixed pool" \in Patterns

\* A new chunk c below ctx, under the lock.
Allocate(H, ctx, c) == unlock(InitTalloc(lock(H, ctx), Context(H, ctx), c))

\* talloc_named_const, talloc_zero, talloc_memdup, talloc_array, ...
talloc(ctx) == \E c \in Unused : heap' = Allocate(heap, ctx, c)

\* talloc_strdup, talloc_strndup and talloc_asprintf: the string is its own name,
\* which is stored when the lock has been given back.
talloc_strdup(ctx) ==
    /\ OutsidePool(ctx)
    /\ \E c \in Unused : heap' = SetName(Allocate(heap, ctx, c), c)

\* talloc_set_name_v: the name n hangs below p.
SetNameV(H, p, n) == SetName(SetName(Allocate(H, p, n), n), p)

\* A new chunk c below ctx gets a formatted name, or is freed again if there is no
\* memory for that.
Named(H, ctx, c) ==
    LET H1 == Allocate(H, ctx, c)
    IN  \/ \E n \in Chunks \ Live(H1) : heap' = SetNameV(H1, c, n)
        \/ heap' = Settled(unlock(Free(lock(H1, c), c).heap))

talloc_named(ctx) == OutsidePool(ctx) /\ \E c \in Unused : Named(heap, ctx, c)

\* The pool hangs off nothing if ctx is NULL, also with null tracking.
talloc_add_external(ctx) ==
    /\ ctx # NULL => "mixed pool" \in Patterns
    /\ \E c \in Unused : heap' = [InitTalloc(heap, ctx, c) EXCEPT !.mem[c].ext = TRUE]

\* talloc_set_destructor takes no lock.
talloc_set_destructor(p, d) ==
    /\ OutsidePool(p)
    /\ heap' = Set(heap, p, "destructor", d)
    /\ Careful(heap')

\* talloc_reference; talloc_increase_ref_count is the one with ctx = NULL.
talloc_reference(ctx, p) ==
    /\ ctx = NULL => "null reference" \in Patterns
    /\ Unmixed(ctx, p)
    /\ \E c \in Unused : heap' = unlock(Reference(lock(heap, ctx), ctx, p, c))
    /\ Careful(heap')

\* talloc_steal, talloc_move
talloc_steal(new_ctx, p) ==
    /\ ~IsParent(heap, new_ctx, p)
    /\ Unmixed(new_ctx, p)
    /\ heap' = unlock(Steal(lock(heap, new_ctx), new_ctx, p))
    /\ Careful(heap')

\* talloc_free, and talloc_realloc to no bytes
talloc_free(p) == heap' = Settled(unlock(Free(lock(heap, p), p).heap))

\* The result of talloc_unlink.
Unlinking(H, ctx, p) == Unlink(lock(H, Context(H, ctx)), ctx, p)

talloc_unlink(ctx, p) ==
    /\ Tangled(heap, p) => "tangle" \in Patterns
    /\ Unmixed(ctx, p)
    /\ heap' = Settled(unlock(Unlinking(heap, ctx, p).heap))

\* talloc_realloc moves p to c; a referenced pointer is left alone. (If it does
\* not move, or memory is short, nothing that is modelled changes.)
talloc_realloc(p) ==
    /\ heap.mem[p].refs = NULL
    /\ \E c \in Unused : heap' = unlock(Moved(lock(heap, p), p, c))

\* The new chunk c becomes null_context.
NullTracking(H, c) == [InitTalloc(H, NULL, c) EXCEPT !.null_context = c]

\* Also talloc_init if there is no memory for its pointer.
talloc_enable_null_tracking ==
    /\ heap.null_context = NULL
    /\ \E c \in Unused : heap' = NullTracking(heap, c)

\* talloc_init goes on without null tracking if there is no memory for it.
talloc_init ==
    \E c \in Unused :
        \/ Named(heap, NULL, c)
        \/ /\ heap.null_context = NULL
           /\ \E t \in Unused \ {c} : Named(NullTracking(heap, t), NULL, c)

\* Everything below null_context is freed with it.
talloc_disable_null_tracking ==
    /\ heap.null_context # NULL
    /\ \/ "failing root" \in Patterns
       \/ \A p \in Users(heap) : heap.mem[p].destructor # "fail"
    /\ heap' = [Settled(Free(heap, heap.null_context).heap) EXCEPT !.null_context = NULL]

Next ==
    \/ \E ctx \in Contexts(heap) : talloc(ctx) \/ talloc_strdup(ctx) \/ talloc_named(ctx) \/ talloc_add_external(ctx)
    \/ \E p \in Users(heap), d \in UserDestructors : talloc_set_destructor(p, d)
    \/ \E p \in Users(heap), ctx \in Contexts(heap) : talloc_reference(ctx, p)
    \/ \E p \in Users(heap), ctx \in Contexts(heap) : talloc_steal(ctx, p)
    \/ \E p \in Users(heap) : talloc_free(p)
    \/ \E p \in Users(heap), ctx \in Contexts(heap) : talloc_unlink(ctx, p)
    \/ \E p \in Users(heap) : talloc_realloc(p)
    \/ talloc_enable_null_tracking
    \/ talloc_init
    \/ talloc_disable_null_tracking

Spec == Init /\ [][Next]_heap

-----------------------------------------------------------------------------
(* Properties. *)

\* No call reads or writes a chunk that it, or a destructor it ran, has freed,
\* and every call ends (the loop over the children in _talloc_free). Nor does a
\* program that keeps a pool apart from the rest ("mixed pool" not in Patterns)
\* meet a store without the lock or a nested lock; one that does not may.
NoFault == heap.fault = "none"

\* The lists of siblings and of references are linked both ways, the first
\* sibling and no other knows the parent, which _talloc_free and __talloc_steal
\* take as the test for being first, and handles and their chunks agree.
ListsSound ==
    SiblingsSound(heap, Live(heap)) /\ ReferencesSound(heap, Live(heap))

\* Every chunk can be reached from the top: no call, also not one that has to
\* find a new owner for what it could not free, hangs a chunk below itself.
Rooted == Grounded(heap, Live(heap))

\* talloc.c:818, "return 0 if the memory is actually freed, otherwise -1", also
\* when references are dropped and destructors call talloc_free again.
FreeResult ==
    \A p \in Users(heap) :
        LET f == Free(lock(heap, p), p) IN f.ret = 0 <=> f.heap.mem[p].free

\* The chunks in dead go: what goes besides p has lost its parent too (or has a
\* child whose destructor freed it), and nothing goes that is referenced by a
\* context that stays, unless that is below it.
TakesOnlyOwn(p, dead) ==
    LET FreedByChild(x) == \E c \in dead :
            heap.mem[c].destructor = "up" /\ ParentChunk(heap, c) = x
    IN  \A x \in dead \cap Users(heap) :
        /\ x = p \/ ParentChunk(heap, x) \in dead \/ FreedByChild(x)
        /\ \A h \in RefsOf(heap, x) :
            Holder(heap, h) \in dead \/ IsParent(heap, h, x)

\* talloc.c:354, "the pointer remains valid until both the original caller and
\* this given context are freed": talloc_free(p) takes with it only what p owns
\* and nothing that stays does.
OwnedSurvive ==
    \A p \in Users(heap) : TakesOnlyOwn(p, Live(heap) \ Live(Free(lock(heap, p), p).heap))

\* How often context c owns p: as parent, and by references.
Shares(H, p) == [c \in Pointers |->
    (IF ParentChunk(H, p) = c THEN 1 ELSE 0)
        + Cardinality({h \in RefsOf(H, p) : Holder(H, h) = c})]

\* The result u of an unlink of p from c is the right one.
TakesOne(c, p, u) ==
    LET shares == Shares(heap, p)
    IN  \/ u.ret = -1 /\ shares[c] = 0 /\ u.heap.mem = heap.mem
        \/ u.ret = -1 /\ RefsOf(heap, p) = {} /\ heap.mem[p].destructor = "fail"
        \/ u.ret = 0 /\ RefsOf(heap, p) = {} /\ u.heap.mem[p].free
        \/ /\ u.ret = 0 /\ ~u.heap.mem[p].free
           /\ Shares(u.heap, p) = [shares EXCEPT ![c] = @ - 1]

\* talloc_unlink takes exactly the given context from the owners of a pointer;
\* the last one takes the pointer with it. It fails only for a context that
\* owns nothing of it, and for a destructor that fails.
UnlinkTakesOne ==
    \A p \in Users(heap), ctx \in Contexts(heap) :
        \/ Tangled(heap, p) \/ ~Unmixed(ctx, p)
        \/ TakesOne(Context(heap, ctx), p, Unlinking(heap, ctx, p))

==============================================================================
