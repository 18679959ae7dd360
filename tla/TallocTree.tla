----------------------------- MODULE TallocTree ------------------------------
(***************************************************************************)
(* The functions of ccan/talloc/talloc.c that go through the tree: to the  *)
(* parent, into the children and from reference to reference, as operators *)
(* from the heap before the call to the heap after it. The library is      *)
(* called from one thread, so a call is one step.                          *)
(*                                                                         *)
(* _talloc_free calls itself, for children, references and contexts. The   *)
(* bound MaxCalls is on the calls that are nested and the rounds of their  *)
(* loops; where it is exceeded the fault is "endless".                     *)
(***************************************************************************)
EXTENDS TallocHeap

CONSTANT MaxCalls

ASSUME MaxCallsAssumption == MaxCalls \in Nat

-----------------------------------------------------------------------------
(* The way up. *)

\* c and the siblings before it.
Elder(H, c) ==
    LET elder[x \in Chunks] ==
            {x} \cup (IF H.mem[x].prev = NULL THEN {} ELSE elder[H.mem[x].prev])
    IN  {x \in Chunks : x \in elder[c]}

\* The one of them without prev. (A list that is a ring has none; Grounded excludes
\* it.)
FirstSibling(H, c) ==
    LET firsts == {x \in Elder(H, c) : H.mem[x].prev = NULL}
    IN  IF firsts = {} THEN c ELSE CHOOSE x \in firsts : TRUE

\* talloc_parent_chunk
ParentChunk(H, c) == H.mem[FirstSibling(H, c)].parent

\* The accesses of talloc_parent_chunk.
TouchSiblings(H, c) ==
    IF H.fault = "none" /\ \E x \in Elder(H, c) : H.mem[x].free
    THEN [H EXCEPT !.fault = "use after free"] ELSE H

\* _talloc_is_parent(c, ptr): ptr is c or one of its ancestors.
IsParent(H, c, ptr) ==
    LET up[x \in Pointers] == x # NULL /\ (x = ptr \/ up[ParentChunk(H, x)])
    IN  up[c]

-----------------------------------------------------------------------------
(* Freeing. F are the calls one level down: F.free[H][c] is _talloc_free and  *)
(* F.children[H][c] the rest of its loop.                                     *)

\* What the destructor of c does, and its result. The one that frees its context
\* calls talloc_free, which takes and gives back the lock itself.
Destroy(F, H, c) ==
    LET d == H.mem[c].destructor
        H1 == Set(H, c, "destructor", "running")
        context == ParentChunk(H, c)
    IN  CASE d = "none" -> [heap |-> H, ret |-> 0]
          [] d = "fail" -> [heap |-> H1, ret |-> -1]
          [] d = "reference" -> [heap |-> Dereference(H1, c), ret |-> 0]
          [] d = "up" ->
                [heap |-> IF context \in {NULL, H.null_context}
                          THEN H1 ELSE unlock(F.free[lock(H1, context)][context].heap),
                 ret |-> 0]

leaving_Restore(H, c, d) == H

\* A destructor that failed is put back.
Restore(H, c, d) == Set(H, c, "destructor", d)

never_FromBelow(H, h, c) == FALSE

\* The reference h to c hangs off something below c.
FromBelow(H, h, c) == IsParent(H, h, c)

freed_StillOwned(H) == [heap |-> H, ret |-> 0]

\* A reference was dropped, the pointer stays.
StillOwned(H) == [heap |-> H, ret |-> -1]

blind_NewParent(H, x) == H.null_context

\* The context that gets child x of c if x cannot be freed, as it is before the
\* attempt: the holder of its first reference.
NewParent(H, x) ==
    LET first == H.mem[x].refs
        holder == ParentChunk(H, first)
    IN  IF first = NULL \/ holder = NULL THEN H.null_context ELSE holder

\* x could not be freed: it moves to new_parent, or if there was no holder to the
\* parent of c.
Rehome(H, c, x, new_parent) ==
    LET parent == ParentChunk(H, c)
    IN  IF new_parent # H.null_context THEN Steal(H, new_parent, x)
        ELSE Steal(TouchSiblings(H, c), IF parent = NULL THEN new_parent ELSE parent, x)

\* The heap after an attempt f to free child x of c.
AfterChild(H, c, x, f) ==
    IF f.ret = 0 THEN f.heap ELSE Rehome(f.heap, c, x, NewParent(H, x))

\* while (tc->child)
ChildrenOnce(F, H, c) ==
    LET x == H.mem[c].child
    IN  IF x = NULL \/ H.fault # "none" THEN H
        ELSE F.children[AfterChild(H, c, x, F.free[H][x])][c]

\* _talloc_free of a chunk without references, whose destructor succeeded.
Release(F, H, c) == Freed(F.children[TakenOut(H, c)][c], c)

\* The destructor d of c gave the result r.
AfterDestructor(F, r, c, d) ==
    IF r.ret = -1
    THEN [heap |-> Restore(r.heap, c, d), ret |-> -1]
    ELSE [heap |-> Release(F, r.heap, c), ret |-> 0]

\* The first reference to c is gone, with the heap dropped.
AfterReference(F, H, c, dropped) ==
    IF FromBelow(H, H.mem[c].refs, c) THEN F.free[dropped][c] ELSE StillOwned(dropped)

\* _talloc_free. After a fault the program is lost, and the call goes no further.
FreeOnce(F, H, c) ==
    LET tc == H.mem[c]
    IN  CASE H.fault # "none" \/ tc.free -> [heap |-> Touch(H, c), ret |-> -1]
          [] OTHER ->
            CASE tc.refs # NULL -> AfterReference(F, H, c, F.free[H][tc.refs].heap)
              [] tc.refs = NULL /\ tc.loop -> [heap |-> H, ret |-> 0]
              [] tc.refs = NULL /\ ~tc.loop /\ tc.destructor = "running" ->
                    [heap |-> H, ret |-> -1]
              [] OTHER -> AfterDestructor(F, Destroy(F, H, c), c, tc.destructor)

\* No call is left.
Endless(H) == IF H.fault = "none" THEN [H EXCEPT !.fault = "endless"] ELSE H

\* One call more than those in F.
OneMore(F) ==
    [free |-> [H \in Heaps |-> [c \in Chunks |-> FreeOnce(F, H, c)]],
     children |-> [H \in Heaps |-> [c \in Chunks |-> ChildrenOnce(F, H, c)]]]

NoCalls ==
    [free |-> [H \in Heaps |-> [c \in Chunks |-> [heap |-> Endless(H), ret |-> -1]]],
     children |-> [H \in Heaps |-> [c \in Chunks |-> Endless(H)]]]

\* The calls with at most n nested.
Calls[n \in Nat] == IF n = 0 THEN NoCalls ELSE OneMore(Calls[n - 1])

Free(H, c) == Calls[MaxCalls].free[H][c]

-----------------------------------------------------------------------------
(* References and owners. *)

\* The reference h and those before it in the list.
Earlier(H, h) ==
    LET earlier[x \in Chunks] ==
            {x} \cup (IF H.mem[x].hprev = NULL THEN {} ELSE earlier[H.mem[x].hprev])
    IN  {x \in Chunks : x \in earlier[h]}

\* talloc_unreference: the first reference to p that hangs off context.
FirstHandle(H, p, context) ==
    LET held == {h \in Handles(H) : H.mem[h].ptr = p /\ ParentChunk(H, h) = context}
        firsts == {h \in held : held \cap Earlier(H, h) = {h}}
    IN  IF firsts = {} THEN NULL ELSE CHOOSE h \in firsts : TRUE

newest_Unreference(H, context, p) ==
    LET h == H.mem[p].refs
    IN  IF h = NULL THEN [heap |-> H, ret |-> -1] ELSE Free(H, h)

\* talloc_unreference
Unreference(H, context, p) ==
    LET h == FirstHandle(H, p, Context(H, context))
    IN  IF h = NULL THEN [heap |-> H, ret |-> -1] ELSE Free(H, h)

\* p lost, with the result r, the reference of new_parent, which becomes its
\* parent.
AfterHolder(new_parent, p, r) ==
    IF r.ret # 0 THEN r ELSE [heap |-> Steal(r.heap, new_parent, p), ret |-> 0]

\* The rest of talloc_unlink, if there was no reference from context: for the
\* parent, p is freed or moves to the holder of its first reference.
UnlinkParent(H, context, p) ==
    LET new_parent == ParentChunk(H, H.mem[p].refs)
    IN  CASE Context(H, context) # ParentChunk(H, p) -> [heap |-> H, ret |-> -1]
          [] Context(H, context) = ParentChunk(H, p) /\ H.mem[p].refs = NULL -> Free(H, p)
          [] OTHER -> AfterHolder(new_parent, p, Unreference(H, new_parent, p))

AfterUnreference(H, context, p, r) ==
    IF r.ret = 0 THEN r ELSE UnlinkParent(H, context, p)

\* talloc_unlink
Unlink(H, context, p) ==
    AfterUnreference(H, context, p, Unreference(H, context, p))

==============================================================================
