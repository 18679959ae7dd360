---------------------------- MODULE TallocProofs -----------------------------
(***************************************************************************)
(* ccan/talloc keeps its lists, whatever the program calls (also under     *)
(* the patterns of use that break its other promises) and whatever the     *)
(* destructors do, as long as no call has accessed freed memory.           *)
(*                                                                         *)
(* _talloc_free calls itself from its loop over the children, for          *)
(* references and from destructors, at a moment when some chunks are out   *)
(* of their lists and some destructors run. Mid(H) is what holds then, and *)
(* Outcome what a call promises to the one that made it: above all that it *)
(* leaves alone the chunks other calls are busy with (Frame), and whether  *)
(* its chunk is gone. If the calls one level down keep that promise, so    *)
(* does one level more (FreeOnceOk, ChildrenOnceOk), and by induction over *)
(* the levels they all do (FreeSound). Calls is a recursive function, so   *)
(* its recursion is shown to have a solution first (CallsStep).            *)
(*                                                                         *)
(* Step is the promise of a whole call, NextStep proves it for every       *)
(* action, and TallocInvariant follows.                                    *)
(***************************************************************************)
EXTENDS Talloc, TallocHeapProofs, NaturalsInduction, WellFoundedInduction

-----------------------------------------------------------------------------
(* Within a call. *)

\* The chunks that are still in their lists, those that _talloc_free has taken out,
\* and those whose destructor runs.
InPlace(H) == {c \in Live(H) : ~H.mem[c].loop}

Loose(H) == {c \in Live(H) : H.mem[c].loop}

Running(H) == {c \in Live(H) : H.mem[c].destructor = "running"}

\* The lists are sound without the chunks taken out; what is being freed has no
\* references.
Mid(H) ==
    /\ SiblingsSound(H, InPlace(H))
    /\ ReferencesSound(H, InPlace(H))
    /\ Known(H, InPlace(H))
    /\ Plain(H)
    /\ \A x \in Loose(H) \cup Running(H) : H.mem[x].refs = NULL

\* What a call leaves alone.
Frame(H, G) ==
    /\ Live(G) \subseteq Live(H)
    /\ Loose(G) = Loose(H)
    /\ Running(G) = Running(H)
    /\ G.null_context = H.null_context
    /\ G.locked => H.locked
    /\ \A x \in Chunks : G.mem[x].ptr = H.mem[x].ptr

\* The heaps differ in nothing but the lock, a fault and chunks in pools.
Alike(H, G) ==
    /\ G \in Heaps
    /\ Live(G) = Live(H)
    /\ G.null_context = H.null_context
    /\ SameLinks(H, G, PointerFields)
    /\ \A x \in Chunks : /\ G.mem[x].loop = H.mem[x].loop
                         /\ G.mem[x].destructor = H.mem[x].destructor

\* The chunks in place and those taken out make up the allocated ones.
LEMMA LiveParts ==
    ASSUME NEW H
    PROVE  /\ InPlace(H) = Live(H) \ Loose(H)
           /\ InPlace(H) \subseteq Live(H) /\ Loose(H) \subseteq Live(H)
           /\ Running(H) \subseteq Live(H)
           /\ Live(H) \subseteq Chunks /\ NULL \notin Live(H)
BY NullAssumption DEF InPlace, Loose, Running, Live

\* Alike heaps are sound together.
LEMMA AlikeMid ==
    ASSUME NEW H \in Heaps, NEW G, Alike(H, G), Mid(H)
    PROVE  /\ Mid(G)
           /\ Loose(G) = Loose(H) /\ Running(G) = Running(H) /\ InPlace(G) = InPlace(H)
           /\ \A x \in Chunks : G.mem[x].ptr = H.mem[x].ptr
<1>1. Live(G) = Live(H) /\ Live(H) \subseteq Chunks
    BY LiveParts DEF Alike
<1>2. Loose(G) = Loose(H) /\ Running(G) = Running(H) /\ InPlace(G) = InPlace(H)
    BY <1>1 DEF Alike, Loose, Running, InPlace
<1>3. /\ SiblingsSound(G, InPlace(G)) /\ ReferencesSound(G, InPlace(G)) /\ Plain(G)
  <2>1. InPlace(H) \in SUBSET Live(H)
    BY LiveParts
  <2> QED BY <2>1, <1>1, <1>2, LinksSame DEF Alike, Mid
<1>4. \A x \in Chunks : G.mem[x].ptr = H.mem[x].ptr /\ G.mem[x].refs = H.mem[x].refs
    BY DEF Alike, SameLinks, PointerFields
<1>5. Known(G, InPlace(G))
  <2>1. InPlace(H) \subseteq Chunks
    BY LiveParts
  <2> QED BY <2>1, <1>2, <1>4 DEF Alike, Mid, Known
<1>6. \A x \in Loose(G) \cup Running(G) : G.mem[x].refs = NULL
  <2>1. Loose(H) \cup Running(H) \subseteq Chunks
    BY LiveParts
  <2> QED BY <2>1, <1>2, <1>4 DEF Mid
<1> QED BY <1>2, <1>3, <1>4, <1>5, <1>6 DEF Mid

\* Heaps with the same chunks are alike.
LEMMA SameAlike ==
    ASSUME NEW H \in Heaps, NEW G, SameChunks(H, G)
    PROVE  Alike(H, G)
BY DEF SameChunks, Alike, SameLinks, Live

-----------------------------------------------------------------------------
(* The way up. *)

\* talloc_parent_chunk (talloc.c:178) gives a pointer, and never one to a reference.
LEMMA ParentType ==
    ASSUME NEW H \in Heaps, NEW c \in Chunks
    PROVE  /\ ParentChunk(H, c) \in Pointers
           /\ Plain(H) /\ ParentChunk(H, c) # NULL => H.mem[ParentChunk(H, c)].ptr = NULL
<1> DEFINE firsts == {x \in Elder(H, c) : H.mem[x].prev = NULL}
           first == FirstSibling(H, c)
<1>1. Elder(H, c) \subseteq Chunks
    BY Zenon DEF Elder
<1>2. first \in Chunks
  <2>1. CASE firsts = {}
    BY <2>1 DEF FirstSibling
  <2>2. CASE firsts # {}
    <3>1. first = CHOOSE x \in firsts : TRUE
        BY <2>2 DEF FirstSibling
    <3>2. first \in firsts
        BY <2>2, <3>1
    <3> QED BY <3>2, <1>1
  <2> QED BY <2>1, <2>2
<1>3. ParentChunk(H, c) = H.mem[first].parent
    BY DEF ParentChunk
<1> HIDE DEF first
<1> QED BY <1>2, <1>3, LinkType DEF Plain, PointerFields

\* Its accesses change nothing.
LEMMA TouchSame ==
    ASSUME NEW H \in Heaps, NEW c
    PROVE  SameChunks(H, TouchSiblings(H, c)) /\ TouchSiblings(H, c).locked = H.locked
<1>1. TouchSiblings(H, c) \in {H, [H EXCEPT !.fault = "use after free"]}
    BY Zenon DEF TouchSiblings
<1>2. TouchSiblings(H, c).fault = "none" => H.fault = "none"
  <2>1. CASE H.fault = "none"
    BY <2>1
  <2>2. CASE H.fault # "none"
    <3>1. TouchSiblings(H, c) = H
        BY <2>2, Zenon DEF TouchSiblings
    <3> QED BY <3>1
  <2> QED BY <2>1, <2>2
<1> HIDE DEF TouchSiblings
<1> QED BY <1>1, <1>2 DEF SameChunks, Heaps, Faults

-----------------------------------------------------------------------------
(* What the calls one level down promise. *)

\* The result r of _talloc_free(c): the memory is freed just if it is 0 (or another
\* call is freeing c already), null_context stays, and a reference takes nothing with
\* it.
Outcome(H, c, r) ==
    /\ Mid(r.heap)
    /\ Frame(H, r.heap)
    /\ r.ret = -1 => c \in Live(r.heap) /\ c \notin Loose(H)
    /\ r.ret = 0 => c \notin Live(r.heap) \/ c \in Loose(H)
    /\ c # H.null_context /\ H.null_context \in Live(H) => H.null_context \in Live(r.heap)
    /\ c \in InPlace(H) /\ H.mem[c].ptr # NULL => Live(r.heap) = Live(H) \ {c}

\* A call that ends well has kept all that.
FreeGives(H, c, r) ==
    /\ r.heap \in Heaps
    /\ r.ret \in {0, -1}
    /\ r.heap.fault = "none" => H.fault = "none" /\ c \in Live(H)
    /\ Mid(H) /\ r.heap.fault = "none" => Outcome(H, c, r)

FreeOk(F) == \A H \in Heaps, c \in Chunks : FreeGives(H, c, F.free[H][c])

\* The heap G after the loop over the children of c.
Emptied(H, c, G) ==
    /\ Mid(G)
    /\ Frame(H, G)
    /\ G.mem[c].child = NULL
    /\ H.null_context \in Live(H) => H.null_context \in Live(G)
    /\ H.mem[c].child = NULL => Live(G) = Live(H)

ChildrenGive(H, c, G) ==
    /\ G \in Heaps
    /\ G.fault = "none" => H.fault = "none"
    /\ Mid(H) /\ c \in Loose(H) /\ G.fault = "none" => Emptied(H, c, G)

ChildrenOk(F) == \A H \in Heaps, c \in Chunks : ChildrenGive(H, c, F.children[H][c])

-----------------------------------------------------------------------------
(* The release of a chunk. *)

\* c has no reference to it, holds none, and its destructor has run.
Ready(H, c) ==
    /\ c \in InPlace(H)
    /\ SiblingsSound(H, InPlace(H))
    /\ ReferencesSound(H, InPlace(H) \ {c})
    /\ Known(H, InPlace(H) \ {c})
    /\ Plain(H)
    /\ \A x \in Loose(H) \cup Running(H) \cup {c} : H.mem[x].refs = NULL

\* A chunk that can be released is taken out of a sound heap.
LEMMA TakenOutMid ==
    ASSUME NEW H \in Heaps, NEW c \in Chunks, Ready(H, c)
    PROVE  LET G == TakenOut(H, c)
           IN  /\ Mid(G)
               /\ Live(G) = Live(H)
               /\ Loose(G) = Loose(H) \cup {c}
               /\ Running(G) = Running(H) \ {c}
               /\ \A x \in Chunks : G.mem[x].ptr = H.mem[x].ptr
<1> DEFINE G == TakenOut(H, c)
           S == InPlace(H)
<1>0. /\ S \subseteq Live(H) /\ Live(H) \subseteq Chunks /\ NULL \notin Live(H) /\ c \in S
      /\ c \in Live(H)
      /\ Loose(H) \cup Running(H) \subseteq Chunks
    BY LiveParts DEF Ready
<1>1. /\ G \in Heaps
      /\ Live(G) = Live(H)
      /\ \A x \in Chunks :
            /\ G.mem[x].loop = IF x = c THEN TRUE ELSE H.mem[x].loop
            /\ G.mem[x].destructor = IF x = c THEN "none" ELSE H.mem[x].destructor
    BY TakenOutMarks
<1>2. /\ SiblingsSound(G, S \ {c})
      /\ SameLinks(H, G, ReferenceFields)
      /\ Plain(G)
    BY <1>0, TakenOutSound DEF Ready
<1> HIDE DEF G
<1>3. Loose(G) = Loose(H) \cup {c} /\ Running(G) = Running(H) \ {c} /\ InPlace(G) = S \ {c}
    BY <1>0, <1>1 DEF Loose, Running, InPlace
<1>4. \A x \in Chunks : G.mem[x].ptr = H.mem[x].ptr /\ G.mem[x].refs = H.mem[x].refs
    BY <1>2 DEF SameLinks, ReferenceFields
<1>5. ReferencesSound(G, S \ {c})
  <2>1. SameIn(H, G, S \ {c}, ReferenceFields)
    BY <1>0, <1>2 DEF SameIn, SameLinks
  <2> QED BY <2>1, <1>0, ReferencesSame DEF Ready
<1>6. Known(G, S \ {c})
    BY <1>0, <1>1, <1>4 DEF Known, Ready
<1>7. \A x \in Loose(G) \cup Running(G) : G.mem[x].refs = NULL
    BY <1>0, <1>3, <1>4 DEF Ready
<1> QED BY <1>1, <1>2, <1>3, <1>4, <1>5, <1>6, <1>7 DEF Mid, G

\* Release frees its chunk, and keeps null_context and what else is being freed.
LEMMA ReleaseOk ==
    ASSUME NEW F, ChildrenOk(F), NEW H \in Heaps, NEW c \in Chunks
    PROVE  LET G == Release(F, H, c)
           IN  /\ G \in Heaps
               /\ G.fault = "none" => H.fault = "none" /\ c \in Live(H)
               /\ Ready(H, c) /\ G.fault = "none" =>
                    /\ Mid(G)
                    /\ Live(G) \subseteq Live(H) \ {c}
                    /\ Loose(G) = Loose(H)
                    /\ Running(G) = Running(H) \ {c}
                    /\ G.null_context = H.null_context
                    /\ G.locked => H.locked
                    /\ \A x \in Chunks : G.mem[x].ptr = H.mem[x].ptr
                    /\ c # H.null_context /\ H.null_context \in Live(H) =>
                            H.null_context \in Live(G)
                    /\ H.mem[c].ptr # NULL => Live(G) = Live(H) \ {c}
<1> DEFINE T == TakenOut(H, c)
           C == F.children[T][c]
           G == Freed(C, c)
<1>1. /\ T \in Heaps
      /\ Live(T) = Live(H)
      /\ T.null_context = H.null_context
      /\ T.fault = "none" => H.fault = "none" /\ c \in Live(H)
    BY TakenOutMarks
<1>1a. T.locked = H.locked
    BY TakenOutMarks
<1>2. G = Release(F, H, c)
    BY DEF Release
<1>3. Ready(H, c) => /\ Mid(T)
                     /\ Loose(T) = Loose(H) \cup {c}
                     /\ Running(T) = Running(H) \ {c}
                     /\ \A x \in Chunks : T.mem[x].ptr = H.mem[x].ptr
    BY TakenOutMid
<1> HIDE DEF T
<1>4. ChildrenGive(T, c, C)
    BY <1>1 DEF ChildrenOk
<1>5. C \in Heaps /\ (C.fault = "none" => T.fault = "none")
    BY <1>4 DEF ChildrenGive
<1> HIDE DEF C
<1>6. /\ G \in Heaps
      /\ Live(G) = Live(C) \ {c}
      /\ G.null_context = C.null_context
      /\ G.fault = C.fault
      /\ SameLinks(C, G, PointerFields)
      /\ \A x \in Chunks : /\ G.mem[x].loop = C.mem[x].loop
                           /\ G.mem[x].destructor = C.mem[x].destructor
    BY <1>5, FreedFacts
<1>6a. G.locked = C.locked
    BY <1>5, FreedFacts
<1>7. ASSUME Ready(H, c), G.fault = "none"
      PROVE  /\ Mid(G)
             /\ Live(G) \subseteq Live(H) \ {c}
             /\ Loose(G) = Loose(H)
             /\ Running(G) = Running(H) \ {c}
             /\ G.null_context = H.null_context
             /\ \A x \in Chunks : G.mem[x].ptr = H.mem[x].ptr
             /\ c # H.null_context /\ H.null_context \in Live(H) => H.null_context \in Live(G)
             /\ H.mem[c].ptr # NULL => Live(G) = Live(H) \ {c}
  <2>1. Emptied(T, c, C)
    BY <1>3, <1>4, <1>6, <1>7 DEF ChildrenGive
  <2>2. /\ Mid(C)
        /\ Live(C) \subseteq Live(H)
        /\ Loose(C) = Loose(H) \cup {c}
        /\ Running(C) = Running(H) \ {c}
        /\ C.null_context = H.null_context
        /\ C.mem[c].child = NULL
        /\ \A x \in Chunks : C.mem[x].ptr = H.mem[x].ptr
        /\ H.null_context \in Live(H) => H.null_context \in Live(C)
    BY <2>1, <1>1, <1>3, <1>7 DEF Emptied, Frame
  <2>3. c \in Live(C) /\ c \notin InPlace(C) /\ c \notin Loose(H) /\ InPlace(C) \subseteq Live(C)
    <3>1. c \in Loose(C)
        BY <2>2
    <3> QED BY <3>1, <1>7, LiveParts DEF Ready, InPlace, Loose
  <2> HIDE DEF G
  <2>4. Loose(G) = Loose(H) /\ Running(G) = Running(H) \ {c} /\ InPlace(G) = InPlace(C)
    <3>1. Loose(G) = Loose(C) \ {c} /\ Running(G) = Running(C) \ {c}
          /\ InPlace(G) = InPlace(C) \ {c}
        <4>1. Live(C) \subseteq Chunks
            BY LiveParts
        <4> QED BY <4>1, <1>6 DEF Loose, Running, InPlace
    <3> QED BY <3>1, <2>2, <2>3
  <2>5. SiblingsSound(G, InPlace(C)) /\ ReferencesSound(G, InPlace(C)) /\ Plain(G)
    <3>1. InPlace(C) \in SUBSET Live(C) /\ c \in Live(C) \ InPlace(C)
        BY <2>3
    <3> QED BY <3>1, <1>5, <2>2, FreedSound DEF Mid, G
  <2>6. \A x \in Chunks : G.mem[x].ptr = C.mem[x].ptr /\ G.mem[x].refs = C.mem[x].refs
    BY <1>6 DEF SameLinks, PointerFields
  <2>7. Known(G, InPlace(C))
    <3>1. InPlace(C) \subseteq Chunks
        BY LiveParts
    <3> QED BY <3>1, <2>2, <2>6, <1>6 DEF Mid, Known
  <2>8. \A x \in Loose(G) \cup Running(G) : G.mem[x].refs = NULL
    <3>1. Loose(G) \cup Running(G) \subseteq Chunks
        BY LiveParts
    <3> QED BY <3>1, <2>2, <2>4, <2>6 DEF Mid
  <2>9. Mid(G)
    BY <2>4, <2>5, <2>7, <2>8 DEF Mid
  <2>10. H.mem[c].ptr # NULL => Live(G) = Live(H) \ {c}
    <3>1. ASSUME H.mem[c].ptr # NULL PROVE T.mem[c].child = NULL
        <4>1. T.mem[c].ptr # NULL /\ Plain(T) /\ c \in Live(T)
            BY <3>1, <1>1, <1>3, <1>6, <1>5, <1>7 DEF Mid
        <4> QED BY <4>1 DEF Plain
    <3> QED BY <3>1, <2>1, <1>1, <1>6 DEF Emptied
  <2> QED BY <2>2, <2>4, <2>6, <2>9, <2>10, <1>6
<1>8. Ready(H, c) /\ G.fault = "none" => (G.locked => H.locked)
  <2>1. ASSUME Ready(H, c), G.fault = "none" PROVE C.locked => T.locked
    BY <2>1, <1>3, <1>4, <1>6 DEF ChildrenGive, Emptied, Frame
  <2>2. T.locked => H.locked
    BY <1>1a
  <2>3. G.locked => C.locked
    BY <1>6a
  <2> QED BY <2>1, <2>2, <2>3
<1> HIDE DEF G
<1> QED BY <1>1, <1>2, <1>5, <1>6, <1>7, <1>8

-----------------------------------------------------------------------------
(* The loop over the children. *)

\* __talloc_steal within a call.
LEMMA StealMid ==
    ASSUME NEW H \in Heaps, NEW x \in Chunks, NEW ctx \in Pointers
    PROVE  LET G == Steal(H, ctx, x)
           IN  /\ Mild(H, G)
               /\ (/\ Mid(H) /\ x \notin Loose(H) /\ x # H.null_context /\ G.fault = "none"
                   /\ ctx # NULL => H.mem[ctx].ptr = NULL)
                    => Mid(G) /\ Frame(H, G) /\ Live(G) = Live(H)
<1> DEFINE G == Steal(H, ctx, x)
           new == Context(H, ctx)
<1>0. new \in Pointers
    BY DEF Context, Heaps
<1>1. /\ Mild(H, G)
      /\ G.fault = "none" => G = H \/ (x \in Live(H) /\ new \in Live(H) \cup {NULL})
    BY <1>0, StealMild
<1>2. /\ G \in Heaps /\ Live(G) = Live(H) /\ G.null_context = H.null_context
      /\ \A y \in Chunks : /\ G.mem[y].loop = H.mem[y].loop
                           /\ G.mem[y].destructor = H.mem[y].destructor
    BY <1>1, MildLive DEF Mild
<1>2a. G.locked = H.locked
    BY <1>1 DEF Mild
<1>3. Loose(G) = Loose(H) /\ Running(G) = Running(H) /\ InPlace(G) = InPlace(H)
  <2>1. Live(H) \subseteq Chunks
    BY LiveParts
  <2> HIDE DEF G
  <2> QED BY <2>1, <1>2 DEF Loose, Running, InPlace
<1>4. ASSUME Mid(H), x \notin Loose(H), x # H.null_context, G.fault = "none",
             ctx # NULL => H.mem[ctx].ptr = NULL
      PROVE  Mid(G) /\ Frame(H, G)
  <2>1. CASE G = H
    BY <2>1, <1>4 DEF Frame
  <2>2. CASE G # H
    <3>1. x \in InPlace(H) /\ new \in Live(H) \cup {NULL}
        BY <2>2, <1>1, <1>4, LiveParts
    <3>2. new # NULL => H.mem[new].ptr = NULL
        BY <1>4 DEF Context, Mid, Plain
    <3>3. InPlace(H) \in SUBSET Live(H) /\ InPlace(H) \subseteq Chunks /\ NULL \notin InPlace(H)
          /\ Loose(H) \cup Running(H) \subseteq Chunks
        BY LiveParts
    <3>4. /\ SameLinks(H, G, ReferenceFields)
          /\ SiblingsSound(G, InPlace(H))
          /\ Plain(G)
        BY <3>1, <3>2, <3>3, <1>4, StealSound DEF Mid
    <3> HIDE DEF G
    <3>5. \A y \in Chunks : G.mem[y].ptr = H.mem[y].ptr /\ G.mem[y].refs = H.mem[y].refs
        BY <3>4 DEF SameLinks, ReferenceFields
    <3>6. ReferencesSound(G, InPlace(H))
        <4>1. SameIn(H, G, InPlace(H), ReferenceFields)
            BY <3>3, <3>4 DEF SameIn, SameLinks
        <4> QED BY <4>1, <3>3, <1>4, ReferencesSame DEF Mid
    <3>7. Known(G, InPlace(H))
        BY <3>3, <3>5, <1>2, <1>4 DEF Known, Mid
    <3>8. \A y \in Loose(G) \cup Running(G) : G.mem[y].refs = NULL
        BY <3>3, <3>5, <1>3, <1>4 DEF Mid
    <3>9. Mid(G)
        BY <3>4, <3>6, <3>7, <3>8, <1>3 DEF Mid
    <3>10. Frame(H, G)
        BY <3>5, <1>2, <1>2a, <1>3 DEF Frame
    <3> QED BY <3>9, <3>10
  <2> QED BY <2>1, <2>2
<1> QED BY <1>1, <1>2, <1>4

\* Two calls leave alone what each does.
LEMMA FrameTwice ==
    ASSUME NEW H, NEW G, NEW K, Frame(H, G), Frame(G, K)
    PROVE  Frame(H, K)
BY DEF Frame

\* A change of the lock or the fault leaves everything alone.
LEMMA SameFrame ==
    ASSUME NEW H \in Heaps, NEW G, SameChunks(H, G), G.locked = H.locked, Mid(H)
    PROVE  Mid(G) /\ Frame(H, G) /\ Live(G) = Live(H)
<1>1. Alike(H, G)
    BY SameAlike
<1> QED BY <1>1, AlikeMid DEF Alike, Frame

\* A child that could not be freed moves (talloc.c:545).
LEMMA RehomeMid ==
    ASSUME NEW H \in Heaps, NEW c \in Chunks, NEW x \in Chunks, NEW new_parent \in Pointers
    PROVE  LET G == Rehome(H, c, x, new_parent)
           IN  /\ G \in Heaps
               /\ G.fault = "none" => H.fault = "none"
               /\ (/\ Mid(H) /\ x \notin Loose(H) /\ x # H.null_context /\ G.fault = "none"
                   /\ new_parent # NULL => H.mem[new_parent].ptr = NULL)
                    => Mid(G) /\ Frame(H, G) /\ Live(G) = Live(H)
<1> DEFINE G == Rehome(H, c, x, new_parent)
           parent == ParentChunk(H, c)
           K == TouchSiblings(H, c)
           ctx == IF parent = NULL THEN new_parent ELSE parent
<1>1. CASE new_parent # H.null_context
  <2>1. G = Steal(H, new_parent, x)
    BY <1>1 DEF Rehome
  <2> QED BY <2>1, StealMid DEF Mild
<1>2. CASE new_parent = H.null_context
  <2>1. G = Steal(K, ctx, x)
    BY <1>2 DEF Rehome
  <2>2. SameChunks(H, K) /\ K.locked = H.locked
    BY TouchSame
  <2>3. /\ K \in Heaps /\ K.mem = H.mem /\ K.null_context = H.null_context
        /\ K.fault = "none" => H.fault = "none"
    BY <2>2 DEF SameChunks
  <2>4. /\ parent \in Pointers
        /\ Plain(H) /\ parent # NULL => H.mem[parent].ptr = NULL
    BY ParentType
  <2> HIDE DEF K, parent
  <2>5. ctx \in Pointers
    BY <2>4
  <2>6. ASSUME Mid(H), new_parent # NULL => H.mem[new_parent].ptr = NULL
        PROVE  ctx # NULL => K.mem[ctx].ptr = NULL
    BY <2>3, <2>4, <2>6 DEF Mid
  <2> HIDE DEF ctx
  <2>7. /\ Mild(K, G)
        /\ (/\ Mid(K) /\ x \notin Loose(K) /\ x # K.null_context /\ G.fault = "none"
            /\ ctx # NULL => K.mem[ctx].ptr = NULL)
                => Mid(G) /\ Frame(K, G) /\ Live(G) = Live(K)
    BY <2>1, <2>3, <2>5, StealMid
  <2> HIDE DEF G
  <2>8. G \in Heaps /\ (G.fault = "none" => H.fault = "none")
    BY <2>3, <2>7 DEF Mild
  <2>9. ASSUME Mid(H), x \notin Loose(H), x # H.null_context, G.fault = "none",
               new_parent # NULL => H.mem[new_parent].ptr = NULL
        PROVE  Mid(G) /\ Frame(H, G) /\ Live(G) = Live(H)
    <3>1. Mid(K) /\ Frame(H, K) /\ Live(K) = Live(H) /\ Loose(K) = Loose(H)
        BY <2>2, <2>9, SameFrame DEF Frame
    <3>2. Mid(G) /\ Frame(K, G) /\ Live(G) = Live(K)
        BY <2>3, <2>6, <2>7, <2>9, <3>1
    <3> QED BY <3>1, <3>2, FrameTwice
  <2> QED BY <2>8, <2>9 DEF G
<1> QED BY <1>1, <1>2

\* Its new parent (talloc.c:540) is no reference.
LEMMA NewParentType ==
    ASSUME NEW H \in Heaps, NEW x \in Chunks
    PROVE  /\ NewParent(H, x) \in Pointers
           /\ Plain(H) /\ NewParent(H, x) # NULL => H.mem[NewParent(H, x)].ptr = NULL
<1> DEFINE first == H.mem[x].refs
           holder == ParentChunk(H, first)
<1>1. first \in Pointers /\ H.null_context \in Pointers
    BY LinkType DEF PointerFields, Heaps
<1>2. CASE first = NULL \/ holder = NULL
  <2>1. NewParent(H, x) = H.null_context
    BY <1>2 DEF NewParent
  <2> QED BY <2>1, <1>1 DEF Plain
<1>3. CASE ~(first = NULL \/ holder = NULL)
  <2>1. NewParent(H, x) = holder
    BY <1>3 DEF NewParent
  <2>2. first \in Chunks
    BY <1>1, <1>3 DEF Pointers
  <2> HIDE DEF first
  <2> QED BY <2>1, <2>2, ParentType
<1> QED BY <1>2, <1>3

\* One round of the loop over the children.
LEMMA AfterChildMid ==
    ASSUME NEW F, FreeOk(F), NEW H \in Heaps, NEW c \in Chunks, NEW x \in Chunks
    PROVE  LET G == AfterChild(H, c, x, F.free[H][x])
           IN  /\ G \in Heaps
               /\ G.fault = "none" => H.fault = "none"
               /\ Mid(H) /\ x \notin {NULL, H.null_context} /\ G.fault = "none" =>
                    /\ Mid(G)
                    /\ Frame(H, G)
                    /\ H.null_context \in Live(H) => H.null_context \in Live(G)
<1> DEFINE f == F.free[H][x]
           K == f.heap
           new == NewParent(H, x)
           G == AfterChild(H, c, x, f)
<1>1. FreeGives(H, x, f)
    BY DEF FreeOk
<1> HIDE DEF f
<1>2. /\ K \in Heaps /\ f.ret \in {0, -1}
      /\ K.fault = "none" => H.fault = "none"
      /\ Mid(H) /\ K.fault = "none" => Outcome(H, x, f)
    BY <1>1 DEF FreeGives
<1>3. /\ new \in Pointers
      /\ Plain(H) /\ new # NULL => H.mem[new].ptr = NULL
    BY NewParentType
<1>4. CASE f.ret = 0
  <2>1. G = K
    BY <1>4 DEF AfterChild
  <2> QED BY <2>1, <1>2 DEF Outcome, f
<1>5. CASE f.ret # 0
  <2>1. G = Rehome(K, c, x, new) /\ f.ret = -1
    BY <1>2, <1>5 DEF AfterChild
  <2> HIDE DEF K, new
  <2>2. /\ G \in Heaps
        /\ G.fault = "none" => K.fault = "none"
        /\ (/\ Mid(K) /\ x \notin Loose(K) /\ x # K.null_context /\ G.fault = "none"
            /\ new # NULL => K.mem[new].ptr = NULL)
            => Mid(G) /\ Frame(K, G) /\ Live(G) = Live(K)
    BY <1>2, <1>3, <2>1, RehomeMid
  <2> HIDE DEF G
  <2>3. ASSUME Mid(H), x \notin {NULL, H.null_context}, G.fault = "none"
        PROVE  /\ Mid(G)
               /\ Frame(H, G)
               /\ H.null_context \in Live(H) => H.null_context \in Live(G)
    <3>1. Outcome(H, x, f)
        BY <1>2, <2>2, <2>3
    <3>2. /\ Mid(K) /\ Frame(H, K) /\ x \notin Loose(H)
          /\ H.null_context \in Live(H) => H.null_context \in Live(K)
        BY <2>1, <2>3, <3>1 DEF Outcome, K
    <3>3. Loose(K) = Loose(H) /\ K.null_context = H.null_context
        BY <3>2 DEF Frame
    <3>4. new # NULL => K.mem[new].ptr = NULL
        BY <1>3, <2>3, <3>2 DEF Mid, Frame, Pointers
    <3>5. Mid(G) /\ Frame(K, G) /\ Live(G) = Live(K)
        BY <2>2, <2>3, <3>2, <3>3, <3>4
    <3> QED BY <3>2, <3>5, FrameTwice
  <2> QED BY <1>2, <2>2, <2>3 DEF G, f
<1> QED BY <1>4, <1>5

\* The loop keeps its promise if the calls one level down keep theirs,
LEMMA ChildrenOnceOk ==
    ASSUME NEW F, FreeOk(F), ChildrenOk(F), NEW H \in Heaps, NEW c \in Chunks
    PROVE  ChildrenGive(H, c, ChildrenOnce(F, H, c))
<1> DEFINE x == H.mem[c].child
           A == AfterChild(H, c, x, F.free[H][x])
           G == ChildrenOnce(F, H, c)
<1>0. x \in Pointers
    BY LinkType DEF PointerFields
<1>1. CASE x = NULL \/ H.fault # "none"
  <2>1. G = H
    BY <1>1 DEF ChildrenOnce
  <2>2. Mid(H) /\ H.fault = "none" => Emptied(H, c, H)
    BY <1>1 DEF Emptied, Frame
  <2> QED BY <2>1, <2>2 DEF ChildrenGive
<1>2. CASE ~(x = NULL \/ H.fault # "none")
  <2>1. G = F.children[A][c] /\ x \in Chunks /\ x # NULL
    BY <1>0, <1>2 DEF ChildrenOnce, Pointers
  <2>2. /\ A \in Heaps
        /\ A.fault = "none" => H.fault = "none"
        /\ Mid(H) /\ x \notin {NULL, H.null_context} /\ A.fault = "none" =>
                    /\ Mid(A)
                    /\ Frame(H, A)
                    /\ H.null_context \in Live(H) => H.null_context \in Live(A)
    BY <2>1, AfterChildMid
  <2> HIDE DEF A
  <2>3. ChildrenGive(A, c, G)
    BY <2>1, <2>2 DEF ChildrenOk
  <2>4. G \in Heaps /\ (G.fault = "none" => A.fault = "none")
    BY <2>3 DEF ChildrenGive
  <2> HIDE DEF G
  <2>5. ASSUME Mid(H), c \in Loose(H), G.fault = "none"
        PROVE  Emptied(H, c, G)
    <3>1. x # H.null_context
        <4>1. c \in Live(H) /\ InPlace(H) \subseteq Live(H)
            BY <2>5, LiveParts
        <4>2. H.mem[x].parent = c
            BY <2>1, <2>5, <4>1 DEF Mid, SiblingsSound, BothWays
        <4>3. c # NULL
            BY NullAssumption
        <4> QED BY <2>1, <2>5, <4>2, <4>3 DEF Mid, Plain
    <3>2. /\ Mid(A) /\ Frame(H, A)
          /\ H.null_context \in Live(H) => H.null_context \in Live(A)
        BY <2>1, <2>2, <2>4, <2>5, <3>1
    <3>3. Emptied(A, c, G)
        BY <2>3, <2>5, <3>2 DEF ChildrenGive, Frame
    <3>4. Frame(H, G)
        BY <3>2, <3>3, FrameTwice DEF Emptied
    <3> QED BY <2>1, <3>2, <3>3, <3>4 DEF Emptied, Frame
  <2> QED BY <2>2, <2>4, <2>5 DEF ChildrenGive, G
<1> QED BY <1>1, <1>2

-----------------------------------------------------------------------------
(* Destructors. *)

\* The heap G in which a chunk c without references gets the destructor d.
LEMMA ArmedMid ==
    ASSUME NEW H \in Heaps, NEW c \in Chunks, NEW d, NEW G, Armed(H, G, c, d), Mid(H),
           H.mem[c].refs = NULL, d # "reference", H.mem[c].destructor # "reference"
    PROVE  /\ Mid(G)
           /\ Loose(G) = Loose(H) /\ InPlace(G) = InPlace(H)
           /\ \A x \in Chunks : G.mem[x].ptr = H.mem[x].ptr
<1>0. /\ InPlace(H) \in SUBSET Live(H) /\ InPlace(H) \subseteq Chunks
      /\ Live(H) \subseteq Chunks /\ Loose(H) \cup Running(H) \subseteq Chunks
      /\ Loose(G) \cup Running(G) \subseteq Chunks
    BY LiveParts
<1>1. Loose(G) = Loose(H) /\ InPlace(G) = InPlace(H) /\ Running(G) \subseteq Running(H) \cup {c}
    BY <1>0 DEF Armed, Loose, InPlace, Running
<1>2. SiblingsSound(G, InPlace(H)) /\ ReferencesSound(G, InPlace(H)) /\ Plain(G)
    BY <1>0, LinksSame DEF Armed, Mid
<1>3. \A x \in Chunks : G.mem[x].ptr = H.mem[x].ptr /\ G.mem[x].refs = H.mem[x].refs
    BY DEF Armed, SameLinks, PointerFields
<1>4. Known(G, InPlace(H))
    BY <1>0, <1>3 DEF Known, Armed, Mid
<1>5. \A x \in Loose(G) \cup Running(G) : G.mem[x].refs = NULL
    BY <1>0, <1>1, <1>3 DEF Mid
<1> QED BY <1>1, <1>2, <1>3, <1>4, <1>5 DEF Mid

\* A chunk without destructor, or whose destructor has returned, can be released.
LEMMA ReadyPlainly ==
    ASSUME NEW H \in Heaps, Mid(H), NEW c \in InPlace(H), H.mem[c].refs = NULL,
           H.mem[c].destructor # "reference"
    PROVE  Ready(H, c)
<1>0. NULL \notin InPlace(H)
    BY LiveParts
<1>1. H.mem[c].ptr = NULL
    BY DEF Mid, Known
<1>2. ReferencesSound(H, InPlace(H) \ {c})
    BY <1>0, <1>1, ReferencesWithout DEF Mid
<1>3. Known(H, InPlace(H) \ {c})
    BY DEF Mid, Known
<1> QED BY <1>2, <1>3 DEF Ready, Mid

\* A reference can be released after talloc_reference_destructor.
LEMMA ReadyReference ==
    ASSUME NEW H \in Heaps, Mid(H), NEW c \in InPlace(H), H.mem[c].refs = NULL,
           H.mem[c].destructor = "reference"
    PROVE  LET A == Set(H, c, "destructor", "running")
               K == Dereference(A, c)
           IN  /\ Ready(K, c)
               /\ Live(K) = Live(H)
               /\ Loose(K) = Loose(H)
               /\ Running(K) \subseteq Running(H) \cup {c}
               /\ Running(H) \subseteq Running(K)
               /\ \A x \in Chunks : K.mem[x].ptr = H.mem[x].ptr
<1> DEFINE A == Set(H, c, "destructor", "running")
           K == Dereference(A, c)
           S == InPlace(H)
<1>0. /\ S \subseteq Live(H) /\ S \subseteq Chunks /\ Live(H) \subseteq Chunks /\ c \in S
      /\ Loose(H) \cup Running(H) \subseteq Chunks /\ NULL \notin S /\ "running" \in Destructors
    BY LiveParts DEF Destructors
<1>1. Armed(H, A, c, "running")
    BY <1>0, SetDestructor
<1> HIDE DEF A
<1>2. /\ A \in Heaps /\ Live(A) = Live(H)
      /\ SiblingsSound(A, S) /\ ReferencesSound(A, S) /\ Plain(A)
    BY <1>0, <1>1, LinksSame DEF Armed, Mid
<1>3. /\ A.mem[c].ptr # NULL
      /\ \A x \in Chunks : A.mem[x].ptr = H.mem[x].ptr /\ A.mem[x].refs = H.mem[x].refs
  <2>1. H.mem[c].ptr # NULL
    BY DEF Mid, Known
  <2>2. \A x \in Chunks : A.mem[x].ptr = H.mem[x].ptr /\ A.mem[x].refs = H.mem[x].refs
    BY <1>1 DEF Armed, SameLinks, PointerFields
  <2> QED BY <2>1, <2>2, <1>0
<1>4. Quiet(A, K) /\ SameLinks(A, K, SiblingFields) /\ Unhung(A, K, c)
    BY <1>0, <1>2, <1>3, DereferenceUnhung
<1> HIDE DEF K
<1>5. /\ K \in Heaps /\ Live(K) = Live(H)
      /\ \A x \in Chunks : /\ K.mem[x].loop = H.mem[x].loop
                           /\ K.mem[x].destructor = IF x = c THEN "running" ELSE H.mem[x].destructor
    BY <1>1, <1>2, <1>4, QuietLive DEF Quiet, Mild, Armed
<1>6. /\ Loose(K) = Loose(H) /\ InPlace(K) = S /\ Running(K) \subseteq Running(H) \cup {c}
      /\ Running(H) \subseteq Running(K)
    BY <1>0, <1>5 DEF Loose, InPlace, Running
<1>7. SiblingsSound(K, S)
  <2>1. SameIn(A, K, Live(A), SiblingFields)
    BY <1>0, <1>2, <1>4 DEF SameIn, SameLinks
  <2> QED BY <2>1, <1>0, <1>2, <1>5, SiblingsSame
<1>8. ReferencesSound(K, S \ {c})
    BY <1>0, <1>2, <1>3, <1>4, UnhungSound
<1>9. Plain(K)
    BY <1>0, <1>2, <1>3, <1>4, UnhungPlain
<1>10. \A x \in Chunks : K.mem[x].ptr = H.mem[x].ptr
    BY <1>3, <1>4 DEF Unhung
<1>11. Known(K, S \ {c})
    BY <1>0, <1>5, <1>10 DEF Known, Mid
<1>12. \A x \in Chunks : H.mem[x].refs = NULL => K.mem[x].refs = NULL
  <2>1. A.mem[c].hprev = NULL <=> A.mem[A.mem[c].ptr].refs = c
    BY <1>0, <1>2, <1>3, ReferenceFacts
  <2>2. c # NULL
    BY <1>0
  <2> QED BY <2>1, <2>2, <1>3, <1>4 DEF Unhung
<1>13. \A x \in Loose(K) \cup Running(K) \cup {c} : K.mem[x].refs = NULL
    BY <1>0, <1>6, <1>12 DEF Mid
<1>14. Ready(K, c)
    BY <1>0, <1>6, <1>7, <1>8, <1>9, <1>11, <1>13 DEF Ready
<1> QED BY <1>5, <1>6, <1>10, <1>14 DEF K, A

\* The destructor of c left the heap K, in which c can be released.
Handed(H, c, K) ==
    /\ K \in Heaps
    /\ K.fault = "none" => H.fault = "none" /\ c \in Live(H)
    /\ Mid(H) /\ K.fault = "none" =>
            /\ Ready(K, c)
            /\ c \notin Running(H)
            /\ Live(K) \subseteq Live(H) /\ Loose(K) = Loose(H)
            /\ Running(K) \ {c} = Running(H)
            /\ K.null_context = H.null_context
            /\ K.locked => H.locked
            /\ \A x \in Chunks : K.mem[x].ptr = H.mem[x].ptr
            /\ H.null_context \in Live(H) => H.null_context \in Live(K)
            /\ H.mem[c].ptr # NULL => Live(K) = Live(H)

\* The rest of _talloc_free.
LEMMA AfterRelease ==
    ASSUME NEW F, ChildrenOk(F), NEW H \in Heaps, NEW c \in Chunks, NEW K, Handed(H, c, K)
    PROVE  FreeGives(H, c, [heap |-> Release(F, K, c), ret |-> 0])
<1> DEFINE G == Release(F, K, c)
           r == [heap |-> G, ret |-> 0]
<1>1. /\ G \in Heaps
      /\ G.fault = "none" => K.fault = "none" /\ c \in Live(K)
      /\ Ready(K, c) /\ G.fault = "none" =>
            /\ Mid(G)
            /\ Live(G) \subseteq Live(K) \ {c}
            /\ Loose(G) = Loose(K)
            /\ Running(G) = Running(K) \ {c}
            /\ G.null_context = K.null_context
            /\ G.locked => K.locked
            /\ \A x \in Chunks : G.mem[x].ptr = K.mem[x].ptr
            /\ c # K.null_context /\ K.null_context \in Live(K) => K.null_context \in Live(G)
            /\ K.mem[c].ptr # NULL => Live(G) = Live(K) \ {c}
    BY ReleaseOk DEF Handed
<1> HIDE DEF G
<1>2. r.heap = G /\ r.ret = 0
    OBVIOUS
<1> HIDE DEF r
<1>3. ASSUME Mid(H), G.fault = "none" PROVE Outcome(H, c, r)
  <2>1. /\ Mid(G)
        /\ Frame(H, G)
        /\ c \notin Live(G)
        /\ c # H.null_context /\ H.null_context \in Live(H) => H.null_context \in Live(G)
        /\ H.mem[c].ptr # NULL => Live(G) = Live(H) \ {c}
    BY <1>1, <1>3 DEF Frame, Handed
  <2> QED BY <2>1, <1>2 DEF Outcome
<1> QED BY <1>1, <1>2, <1>3 DEF FreeGives, G, r, Handed

-----------------------------------------------------------------------------
(* _talloc_free. *)

\* The first reference to c is dropped, and c freed if the reference was its own.
LEMMA DroppedOk ==
    ASSUME NEW F, FreeOk(F), NEW H \in Heaps, NEW c \in Live(H), H.fault = "none",
           H.mem[c].refs # NULL
    PROVE  FreeGives(H, c, AfterReference(F, H, c, F.free[H][H.mem[c].refs].heap))
<1> DEFINE h == H.mem[c].refs
           f == F.free[H][h]
           K == f.heap
           r == AfterReference(F, H, c, K)
<1>0. c \in Chunks /\ h \in Chunks
    BY LinkType, LiveParts DEF PointerFields, Pointers
<1> HIDE DEF h
<1>1. FreeGives(H, h, f)
    BY <1>0 DEF FreeOk
<1> HIDE DEF f
<1>2. /\ K \in Heaps
      /\ Mid(H) /\ K.fault = "none" => Outcome(H, h, f)
    BY <1>1 DEF FreeGives
<1>3. ASSUME Mid(H), K.fault = "none"
      PROVE  /\ Mid(K) /\ Frame(H, K)
             /\ c \in Live(K) /\ c \notin Loose(H) /\ H.mem[c].ptr = NULL
             /\ H.null_context \in Live(H) => H.null_context \in Live(K)
  <2>1. c \notin Loose(H) /\ c \in InPlace(H)
    <3>1. c \notin Loose(H)
        BY <1>3 DEF Mid
    <3> QED BY <3>1, LiveParts
  <2>2. h \in InPlace(H) /\ H.mem[h].ptr = c /\ h # NULL
    BY <1>3, <2>1, NullAssumption, <1>0 DEF Mid, ReferencesSound, h
  <2>3. H.mem[c].ptr = NULL
    BY <1>3 DEF Mid, Plain
  <2>4. c # NULL
    BY <1>0, NullAssumption
  <2>5. Mid(K) /\ Frame(H, K) /\ Live(K) = Live(H) \ {h}
    BY <1>2, <1>3, <2>2, <2>4 DEF Outcome
  <2>6. h # c /\ (H.null_context \in Live(H) => h # H.null_context)
    BY <1>3, <2>2, <2>3, <2>4, LiveParts DEF Mid, Plain
  <2> QED BY <2>1, <2>3, <2>5, <2>6
<1>4. CASE FromBelow(H, h, c)
  <2>1. r = F.free[K][c]
    BY <1>4 DEF AfterReference, h
  <2> HIDE DEF K, r
  <2>2. FreeGives(K, c, r)
    BY <1>0, <1>2, <2>1 DEF FreeOk
  <2>3. ASSUME Mid(H), r.heap.fault = "none" PROVE Outcome(H, c, r)
    <3>1. K.fault = "none"
        BY <2>2, <2>3 DEF FreeGives
    <3>2. /\ Mid(K) /\ Frame(H, K)
          /\ c \in Live(K) /\ c \notin Loose(H) /\ H.mem[c].ptr = NULL
          /\ H.null_context \in Live(H) => H.null_context \in Live(K)
        BY <1>3, <2>3, <3>1
    <3>3. Outcome(K, c, r)
        BY <2>2, <2>3, <3>2 DEF FreeGives
    <3>4. Frame(H, r.heap)
        BY <3>2, <3>3, FrameTwice DEF Outcome
    <3>5. Loose(K) = Loose(H) /\ K.null_context = H.null_context
        BY <3>2 DEF Frame
    <3> QED BY <3>2, <3>3, <3>4, <3>5 DEF Outcome
  <2> QED BY <2>2, <2>3 DEF FreeGives, r, K, f, h
<1>5. CASE ~FromBelow(H, h, c)
  <2>1. r = StillOwned(K)
    BY <1>5 DEF AfterReference, h
  <2>2. r.heap = K /\ r.ret = -1
    BY <2>1 DEF StillOwned
  <2> HIDE DEF K, r
  <2>3. ASSUME Mid(H), K.fault = "none" PROVE Outcome(H, c, r)
    BY <1>3, <2>2, <2>3 DEF Outcome
  <2> QED BY <1>2, <2>2, <2>3 DEF FreeGives, r, K, f, h
<1> QED BY <1>4, <1>5

\* The destructor that frees the context of c.
LEMMA UpOk ==
    ASSUME NEW F, FreeOk(F), NEW H \in Heaps, NEW c \in Live(H),
           H.fault = "none", H.mem[c].refs = NULL, ~H.mem[c].loop, H.mem[c].destructor = "up"
    PROVE  Handed(H, c, Destroy(F, H, c).heap)
<1> DEFINE A == Set(H, c, "destructor", "running")
           context == ParentChunk(H, c)
           B == lock(A, context)
           f == F.free[B][context]
           K == Destroy(F, H, c).heap
<1>0. c \in Chunks /\ "running" \in Destructors
    BY LiveParts DEF Destructors
<1>1. Armed(H, A, c, "running")
    BY <1>0, SetDestructor
<1>2. context \in Pointers
    BY <1>0, ParentType
<1>3. K = IF context \in {NULL, H.null_context} THEN A ELSE unlock(f.heap)
    BY DEF Destroy
<1> HIDE DEF A, context
<1>4. /\ A \in Heaps /\ Live(A) = Live(H) /\ A.null_context = H.null_context
      /\ A.fault = "none" => H.fault = "none"
    BY <1>1 DEF Armed
<1>5. ASSUME Mid(H)
      PROVE  /\ Mid(A) /\ Loose(A) = Loose(H) /\ InPlace(A) = InPlace(H)
             /\ Running(A) = Running(H) \cup {c} /\ c \notin Running(H)
             /\ \A x \in Chunks : A.mem[x].ptr = H.mem[x].ptr
             /\ c \in InPlace(H) /\ H.mem[c].ptr = NULL
  <2>1. /\ Mid(A) /\ Loose(A) = Loose(H) /\ InPlace(A) = InPlace(H)
        /\ \A x \in Chunks : A.mem[x].ptr = H.mem[x].ptr
    BY <1>0, <1>1, <1>5, ArmedMid
  <2>2. Running(A) = Running(H) \cup {c} /\ c \notin Running(H)
    <3>1. Live(H) \subseteq Chunks
        BY LiveParts
    <3> QED BY <3>1, <1>1 DEF Armed, Running
  <2>3. c \in InPlace(H)
    BY DEF InPlace
  <2>4. H.mem[c].ptr = NULL
    BY <1>5, <2>3 DEF Mid, Known
  <2> QED BY <2>1, <2>2, <2>3, <2>4
<1>6. CASE context \in {NULL, H.null_context}
  <2>1. K = A
    BY <1>3, <1>6
  <2> HIDE DEF K
  <2>2. ASSUME Mid(H) PROVE Ready(A, c)
    <3>1. A.mem[c].refs = NULL /\ A.mem[c].destructor # "reference"
        BY <1>0, <1>1 DEF Armed, SameLinks, PointerFields
    <3> QED BY <3>1, <1>4, <1>5, <2>2, ReadyPlainly
  <2>3. A.locked => H.locked
    BY <1>1 DEF Armed
  <2>4. Mid(H) => Running(A) \ {c} = Running(H)
    BY <1>5
  <2> QED BY <1>4, <1>5, <2>1, <2>2, <2>3, <2>4 DEF Handed, K
<1>7. CASE context \notin {NULL, H.null_context}
  <2>0. context \in Chunks
    BY <1>2, <1>7 DEF Pointers
  <2>1. K = unlock(f.heap)
    BY <1>3, <1>7
  <2> HIDE DEF K
  <2>2. SameChunks(A, B)
    BY <1>2, <1>4, LockSame
  <2> HIDE DEF B
  <2>3. /\ B \in Heaps /\ B.mem = A.mem /\ B.null_context = A.null_context
        /\ B.fault = "none" => A.fault = "none"
        /\ Live(B) = Live(A)
    BY <2>2 DEF SameChunks, Live
  <2>4. FreeGives(B, context, f)
    BY <2>0, <2>3 DEF FreeOk
  <2> HIDE DEF f
  <2>5. f.heap \in Heaps /\ (f.heap.fault = "none" => B.fault = "none")
    BY <2>4 DEF FreeGives
  <2>6. SameChunks(f.heap, K) /\ ~K.locked /\ K.fault = f.heap.fault
    BY <2>1, <2>5, UnlockSame
  <2>7. /\ K \in Heaps /\ K.mem = f.heap.mem /\ K.null_context = f.heap.null_context
        /\ K.fault = "none" => f.heap.fault = "none"
    BY <2>6 DEF SameChunks
  <2>8. ASSUME Mid(H), K.fault = "none"
        PROVE  /\ Ready(K, c)
               /\ Live(K) \subseteq Live(H) /\ Loose(K) = Loose(H)
               /\ Running(K) \ {c} = Running(H)
               /\ K.null_context = H.null_context
               /\ \A x \in Chunks : K.mem[x].ptr = H.mem[x].ptr
               /\ H.null_context \in Live(H) => H.null_context \in Live(K)
    <3>1. Alike(A, B)
        BY <1>4, <2>2, SameAlike
    <3>2. /\ Mid(B) /\ Loose(B) = Loose(H) /\ Running(B) = Running(H) \cup {c}
          /\ InPlace(B) = InPlace(H)
          /\ \A x \in Chunks : B.mem[x].ptr = H.mem[x].ptr
        BY <1>4, <1>5, <2>8, <3>1, AlikeMid
    <3>3. Outcome(B, context, f)
        BY <2>4, <2>6, <2>8, <3>2 DEF FreeGives
    <3>4. /\ Mid(f.heap) /\ Live(f.heap) \subseteq Live(B)
          /\ Loose(f.heap) = Loose(B) /\ Running(f.heap) = Running(B)
          /\ f.heap.null_context = B.null_context
          /\ \A x \in Chunks : f.heap.mem[x].ptr = B.mem[x].ptr
          /\ context # B.null_context /\ B.null_context \in Live(B) =>
                B.null_context \in Live(f.heap)
        BY <3>3 DEF Outcome, Frame
    <3>5. Alike(f.heap, K)
        BY <2>5, <2>6, SameAlike
    <3>6. Mid(K) /\ Loose(K) = Loose(f.heap) /\ Running(K) = Running(f.heap)
        BY <2>5, <3>4, <3>5, AlikeMid
    <3>7. Live(K) = Live(f.heap)
        BY <3>5 DEF Alike
    <3>8. c \in InPlace(K) /\ c \in Running(K)
        <4>1. c \in Running(K) /\ c \notin Loose(K)
            BY <1>5, <2>8, <3>2, <3>4, <3>6 DEF InPlace, Loose
        <4> QED BY <4>1, LiveParts
    <3>9. Ready(K, c)
        <4>1. K.mem[c].refs = NULL
            BY <3>6, <3>8 DEF Mid
        <4>2. K.mem[c].destructor # "reference"
            BY <3>8 DEF Running
        <4> QED BY <4>1, <4>2, <2>7, <3>6, <3>8, ReadyPlainly
    <3>10. Live(K) \subseteq Live(H) /\ (H.null_context \in Live(H) => H.null_context \in Live(K))
        BY <1>4, <1>7, <2>3, <3>4, <3>7
    <3>11. Running(K) \ {c} = Running(H)
        BY <1>5, <2>8, <3>2, <3>4, <3>6
    <3> QED BY <1>4, <2>3, <2>7, <3>2, <3>4, <3>6, <3>9, <3>10, <3>11
  <2>9. K.fault = "none" => H.fault = "none"
    BY <1>4, <2>3, <2>5, <2>7
  <2> QED BY <1>5, <2>6, <2>7, <2>8, <2>9 DEF Handed, K
<1> QED BY <1>6, <1>7

\* The destructor of a reference.
LEMMA DereferenceOk ==
    ASSUME NEW F, NEW H \in Heaps, NEW c \in Live(H),
           H.fault = "none", H.mem[c].refs = NULL, ~H.mem[c].loop,
           H.mem[c].destructor = "reference"
    PROVE  Handed(H, c, Destroy(F, H, c).heap)
<1> DEFINE A == Set(H, c, "destructor", "running")
           o == A.mem[c].ptr
           K == Dereference(A, c)
<1>0. c \in Chunks /\ "running" \in Destructors /\ References \in ListKinds
    BY LiveParts DEF Destructors, ListKinds
<1>1. Destroy(F, H, c).heap = K
    BY DEF Destroy
<1>2. Armed(H, A, c, "running")
    BY <1>0, SetDestructor
<1>3. ASSUME Mid(H)
      PROVE  /\ Ready(K, c)
             /\ Live(K) = Live(H)
             /\ Loose(K) = Loose(H)
             /\ Running(K) \ {c} = Running(H)
             /\ c \notin Running(H)
             /\ \A x \in Chunks : K.mem[x].ptr = H.mem[x].ptr
  <2>1. c \in InPlace(H) /\ c \notin Running(H)
    BY DEF InPlace, Running
  <2>2. /\ Ready(K, c)
        /\ Live(K) = Live(H)
        /\ Loose(K) = Loose(H)
        /\ Running(K) \subseteq Running(H) \cup {c}
        /\ Running(H) \subseteq Running(K)
        /\ \A x \in Chunks : K.mem[x].ptr = H.mem[x].ptr
    BY <1>3, <2>1, ReadyReference
  <2> HIDE DEF K
  <2> QED BY <2>1, <2>2
<1> HIDE DEF A
<1>4. A \in Heaps /\ o \in Pointers
    BY <1>0, <1>2, LinkType DEF Armed, PointerFields
<1>5. K = TLIST_REMOVE(A, References, o, c)
    BY DEF Dereference
<1> HIDE DEF K, o
<1>6. Mild(A, K)
    BY <1>0, <1>4, <1>5, RemoveMild
<1>7. K.locked => H.locked
  <2>1. K.locked = A.locked
    BY <1>6 DEF Mild
  <2>2. A.locked = H.locked
    BY <1>2 DEF Armed
  <2> QED BY <2>1, <2>2
<1>8. K \in Heaps /\ K.null_context = H.null_context
    BY <1>2, <1>6 DEF Mild, Armed
<1> QED BY <1>1, <1>3, <1>7, <1>8 DEF Handed

\* A destructor that fails leaves the heap as it was.
LEMMA FailOk ==
    ASSUME NEW H \in Heaps, NEW c \in Live(H), H.fault = "none", ~H.mem[c].loop,
           H.mem[c].destructor = "fail"
    PROVE  FreeGives(H, c, [heap |-> Restore(Set(H, c, "destructor", "running"), c, "fail"),
                            ret |-> -1])
<1> DEFINE A == Set(H, c, "destructor", "running")
           G == Restore(A, c, "fail")
           r == [heap |-> G, ret |-> -1]
<1>0. c \in Chunks /\ "running" \in Destructors /\ "fail" \in Destructors
    BY LiveParts DEF Destructors, UserDestructors
<1>1. Armed(H, A, c, "running")
    BY <1>0, SetDestructor
<1> HIDE DEF A
<1>2. Armed(A, G, c, "fail")
    BY <1>0, <1>1, SetDestructor DEF Restore, Armed
<1> HIDE DEF G
<1>3. /\ G \in Heaps /\ Live(G) = Live(H) /\ G.null_context = H.null_context
      /\ SameLinks(H, G, PointerFields)
    BY <1>1, <1>2 DEF Armed, SameLinks
<1>4. \A x \in Chunks : /\ G.mem[x].loop = H.mem[x].loop
                        /\ G.mem[x].destructor = H.mem[x].destructor
    BY <1>1, <1>2 DEF Armed
<1>5. G.locked => H.locked
  <2>1. G.locked = A.locked
    BY <1>2 DEF Armed
  <2>2. A.locked = H.locked
    BY <1>1 DEF Armed
  <2> QED BY <2>1, <2>2
<1>6. Alike(H, G)
    BY <1>3, <1>4 DEF Alike
<1>7. ASSUME Mid(H)
      PROVE  Mid(G) /\ Frame(H, G) /\ c \notin Loose(H) /\ H.mem[c].ptr = NULL
  <2>1. Mid(G) /\ Frame(H, G)
    BY <1>3, <1>5, <1>6, <1>7, AlikeMid DEF Frame
  <2>2. c \in InPlace(H) /\ c \notin Loose(H)
    BY DEF InPlace, Loose
  <2>3. H.mem[c].ptr = NULL
    BY <1>7, <2>2 DEF Mid, Known
  <2> QED BY <2>1, <2>2, <2>3
<1>8. r.heap = G /\ r.ret = -1
    OBVIOUS
<1> HIDE DEF r
<1>9. Mid(H) => Outcome(H, c, r)
    BY <1>3, <1>7, <1>8 DEF Outcome
<1> QED BY <1>3, <1>8, <1>9 DEF FreeGives, r, G, A

\* and so does _talloc_free.
LEMMA FreeOnceOk ==
    ASSUME NEW F, FreeOk(F), ChildrenOk(F), NEW H \in Heaps, NEW c \in Chunks
    PROVE  FreeGives(H, c, FreeOnce(F, H, c))
<1> DEFINE d == H.mem[c].destructor
           r == FreeOnce(F, H, c)
<1>0. d \in Destructors
    BY DEF Heaps, ChunkRecords
<1>1. CASE H.fault # "none" \/ H.mem[c].free
  <2>1. r = [heap |-> Touch(H, c), ret |-> -1]
    BY <1>1 DEF FreeOnce
  <2>2. Touch(H, c) \in Heaps /\ Touch(H, c).fault # "none"
    BY <1>1 DEF Touch, Heaps, Faults
  <2> QED BY <2>1, <2>2 DEF FreeGives
<1>2. CASE H.fault = "none" /\ ~H.mem[c].free
  <2>0. c \in Live(H)
    BY <1>2 DEF Live
  <2>1. CASE H.mem[c].refs # NULL
    <3>1. r = AfterReference(F, H, c, F.free[H][H.mem[c].refs].heap)
        BY <1>2, <2>1 DEF FreeOnce
    <3> QED BY <1>2, <2>0, <2>1, <3>1, DroppedOk
  <2>2. CASE H.mem[c].refs = NULL /\ H.mem[c].loop
    <3>1. r = [heap |-> H, ret |-> 0]
        BY <1>2, <2>2 DEF FreeOnce
    <3>2. c \in Loose(H) /\ c \notin InPlace(H)
        BY <2>0, <2>2 DEF Loose, InPlace
    <3>3. Mid(H) => Outcome(H, c, r)
        BY <3>1, <3>2 DEF Outcome, Frame
    <3> QED BY <1>2, <2>0, <3>1, <3>3 DEF FreeGives
  <2>3. CASE H.mem[c].refs = NULL /\ ~H.mem[c].loop /\ d = "running"
    <3>1. r = [heap |-> H, ret |-> -1]
        BY <1>2, <2>3 DEF FreeOnce
    <3>2. c \notin Loose(H) /\ c \in InPlace(H)
        BY <2>0, <2>3 DEF Loose, InPlace
    <3>3. Mid(H) => H.mem[c].ptr = NULL
        BY <3>2, <2>3 DEF Mid, Known
    <3>4. Mid(H) => Outcome(H, c, r)
        BY <2>0, <3>1, <3>2, <3>3 DEF Outcome, Frame
    <3> QED BY <1>2, <2>0, <3>1, <3>4 DEF FreeGives
  <2>4. CASE H.mem[c].refs = NULL /\ ~H.mem[c].loop /\ d # "running"
    <3>0. d \in {"none", "fail", "up", "reference"}
        BY <1>0, <2>4 DEF Destructors, UserDestructors
    <3>1. r = AfterDestructor(F, Destroy(F, H, c), c, d)
        BY <1>2, <2>4 DEF FreeOnce
    <3> DEFINE K == Destroy(F, H, c).heap
    <3>2. ASSUME Handed(H, c, K), Destroy(F, H, c).ret = 0
          PROVE  FreeGives(H, c, r)
        <4>1. r = [heap |-> Release(F, K, c), ret |-> 0]
            BY <3>1, <3>2 DEF AfterDestructor
        <4> QED BY <3>2, <4>1, AfterRelease
    <3>3. CASE d = "none"
        <4>1. K = H /\ Destroy(F, H, c).ret = 0
            BY <3>3 DEF Destroy
        <4>2. c \in InPlace(H) /\ c \notin Running(H)
            BY <2>0, <2>4, <3>3 DEF InPlace, Running
        <4>3. Mid(H) => Ready(H, c)
            BY <2>4, <3>3, <4>2, ReadyPlainly
        <4>4. Handed(H, c, H)
            BY <1>2, <2>0, <4>2, <4>3 DEF Handed
        <4> QED BY <3>2, <4>1, <4>4
    <3>4. CASE d = "fail"
        <4>1. Destroy(F, H, c) = [heap |-> Set(H, c, "destructor", "running"), ret |-> -1]
            BY <3>4 DEF Destroy
        <4>2. r = [heap |-> Restore(Set(H, c, "destructor", "running"), c, "fail"), ret |-> -1]
            BY <3>1, <3>4, <4>1 DEF AfterDestructor
        <4> QED BY <1>2, <2>0, <2>4, <3>4, <4>2, FailOk
    <3>5. CASE d = "up"
        <4>1. Destroy(F, H, c).ret = 0
            BY <3>5 DEF Destroy
        <4>2. Handed(H, c, K)
            BY <1>2, <2>0, <2>4, <3>5, UpOk
        <4> QED BY <3>2, <4>1, <4>2
    <3>6. CASE d = "reference"
        <4>1. Destroy(F, H, c).ret = 0
            BY <3>6 DEF Destroy
        <4>2. Handed(H, c, K)
            BY <1>2, <2>0, <2>4, <3>6, DereferenceOk
        <4> QED BY <3>2, <4>1, <4>2
    <3> QED BY <3>0, <3>3, <3>4, <3>5, <3>6
  <2> QED BY <2>1, <2>2, <2>3, <2>4
<1> QED BY <1>1, <1>2

-----------------------------------------------------------------------------
(* Any number of calls. *)

CallsOk(F) == FreeOk(F) /\ ChildrenOk(F)

\* Without any call left, what is promised is promised for no fault only;
LEMMA NoCallsOk ==
    CallsOk(NoCalls)
<1> SUFFICES ASSUME NEW H \in Heaps, NEW c \in Chunks
             PROVE  /\ FreeGives(H, c, NoCalls.free[H][c])
                    /\ ChildrenGive(H, c, NoCalls.children[H][c])
    BY DEF CallsOk, FreeOk, ChildrenOk
<1>1. NoCalls.free[H][c] = [heap |-> Endless(H), ret |-> -1]
    BY DEF NoCalls
<1>2. NoCalls.children[H][c] = Endless(H)
    BY DEF NoCalls
<1>3. Endless(H) \in Heaps /\ Endless(H).fault # "none"
    BY DEF Endless, Heaps, Faults
<1> QED BY <1>1, <1>2, <1>3 DEF FreeGives, ChildrenGive

\* with one call more the promises are kept again.
LEMMA OneMoreOk ==
    ASSUME NEW F, CallsOk(F)
    PROVE  CallsOk(OneMore(F))
<1> SUFFICES ASSUME NEW H \in Heaps, NEW c \in Chunks
             PROVE  /\ FreeGives(H, c, OneMore(F).free[H][c])
                    /\ ChildrenGive(H, c, OneMore(F).children[H][c])
    BY DEF CallsOk, FreeOk, ChildrenOk
<1>1. OneMore(F).free[H][c] = FreeOnce(F, H, c)
    BY DEF OneMore
<1>2. OneMore(F).children[H][c] = ChildrenOnce(F, H, c)
    BY DEF OneMore
<1> QED BY <1>1, <1>2, FreeOnceOk, ChildrenOnceOk DEF CallsOk

\* Induction: a set of numbers has a least one.
LEMMA Least ==
    ASSUME NEW T \in SUBSET Nat, T # {}
    PROVE  \E k \in T : \A j \in T : k <= j
<1>1. PICK k \in T : \A j \in T : ~(<<j, k>> \in OpToRel(<, Nat))
    BY NatLessThanWellFounded, WFMin, Zenon
<1>2. \A j \in T : ~(j < k)
    BY <1>1, Zenon DEF OpToRel
<1>3. \A j \in T : k <= j
  <2>1. k \in Nat /\ \A j \in T : j \in Nat
    OBVIOUS
  <2> QED BY <1>2, <2>1, SMT
<1> QED BY <1>3, Zenon

\* g is Calls up to n.
UpTo(g, n) == g[0] = NoCalls /\ \A i \in 1 .. n : g[i] = OneMore(g[i - 1])

\* There is a solution up to every n,
LEMMA UpToExists ==
    ASSUME NEW n \in Nat
    PROVE  \E g : UpTo(g, n)
<1> DEFINE T == {k \in Nat : ~\E g : UpTo(g, k)}
<1> SUFFICES ASSUME T # {} PROVE FALSE
    OBVIOUS
<1>1. PICK k \in T : \A j \in T : k <= j
  <2>1. T \in SUBSET Nat
    OBVIOUS
  <2> HIDE DEF T
  <2> QED BY <2>1, Least
<1>2. k \in Nat /\ ~\E g : UpTo(g, k)
    BY <1>1
<1>3. CASE k = 0
  <2> DEFINE g == [i \in Nat |-> NoCalls]
  <2>1. g[0] = NoCalls
    OBVIOUS
  <2>2. UpTo(g, k)
    BY <1>3, <2>1, SMT DEF UpTo
  <2> QED BY <1>2, <2>2
<1>4. CASE k # 0
  <2>1. k - 1 \in Nat /\ k - 1 \notin T
    BY <1>1, <1>2, <1>4
  <2>2. PICK g : UpTo(g, k - 1)
    BY <2>1
  <2> DEFINE f == [i \in Nat |-> IF i = k THEN OneMore(g[k - 1]) ELSE g[i]]
  <2>3. \A i \in Nat : f[i] = IF i = k THEN OneMore(g[k - 1]) ELSE g[i]
    OBVIOUS
  <2> HIDE DEF f, T
  <2>4. f[0] = NoCalls
    BY <1>4, <2>2, <2>3 DEF UpTo
  <2>5. ASSUME NEW i \in 1 .. k PROVE f[i] = OneMore(f[i - 1])
    <3>1. i \in Nat /\ i - 1 \in Nat /\ i - 1 # k /\ (i # k => i \in 1 .. k - 1)
        BY <1>2, <2>5
    <3>2. f[i - 1] = g[i - 1]
        BY <2>3, <3>1
    <3>3. CASE i = k
        BY <2>3, <3>1, <3>2, <3>3
    <3>4. CASE i # k
        <4>1. f[i] = g[i]
            BY <2>3, <3>1, <3>4
        <4>2. g[i] = OneMore(g[i - 1])
            BY <2>2, <3>1, <3>4 DEF UpTo
        <4> QED BY <3>2, <4>1, <4>2
    <3> QED BY <3>3, <3>4
  <2>6. UpTo(f, k)
    BY <2>4, <2>5 DEF UpTo
  <2> QED BY <1>2, <2>6
<1> QED BY <1>3, <1>4

\* and those for different n agree.
LEMMA UpToUnique ==
    ASSUME NEW n \in Nat, NEW g, UpTo(g, n), NEW m \in Nat, NEW f, UpTo(f, m), n <= m
    PROVE  g[n] = f[n]
<1> DEFINE T == {k \in 0 .. n : g[k] # f[k]}
<1> SUFFICES ASSUME T # {} PROVE FALSE
    OBVIOUS
<1>1. PICK k \in T : \A j \in T : k <= j
  <2>1. T \in SUBSET Nat
    OBVIOUS
  <2> HIDE DEF T
  <2> QED BY <2>1, Least
<1>2. k \in 0 .. n /\ g[k] # f[k]
    BY <1>1
<1>3. k # 0
    BY <1>2 DEF UpTo
<1>4. k - 1 \in 0 .. n /\ k - 1 \notin T /\ k \in 1 .. n /\ k \in 1 .. m
    BY <1>1, <1>2, <1>3
<1>5. g[k - 1] = f[k - 1]
    BY <1>4
<1>6. g[k] = OneMore(g[k - 1]) /\ f[k] = OneMore(f[k - 1])
    BY <1>4 DEF UpTo
<1> QED BY <1>2, <1>5, <1>6

\* The recursion of Calls has a solution.
LEMMA CallsStep ==
    /\ Calls[0] = NoCalls
    /\ \A n \in Nat : n # 0 => Calls[n] = OneMore(Calls[n - 1])
<1> DEFINE W == [n \in Nat |-> (CHOOSE g : UpTo(g, n))[n]]
           IsCalls(f) == f = [n \in Nat |-> IF n = 0 THEN NoCalls ELSE OneMore(f[n - 1])]
<1>1. ASSUME NEW n \in Nat
      PROVE  W[n] = IF n = 0 THEN NoCalls ELSE OneMore(W[n - 1])
  <2> DEFINE g == CHOOSE g : UpTo(g, n)
             f == CHOOSE f : UpTo(f, n - 1)
  <2>1. UpTo(g, n) /\ W[n] = g[n]
    BY UpToExists
  <2>2. CASE n = 0
    BY <2>1, <2>2 DEF UpTo
  <2>3. CASE n # 0
    <3>1. n - 1 \in Nat /\ n - 1 <= n /\ n \in 1 .. n
        BY <2>3
    <3>2. UpTo(f, n - 1) /\ W[n - 1] = f[n - 1]
        BY <3>1, UpToExists
    <3> HIDE DEF f, g, W
    <3>3. f[n - 1] = g[n - 1]
        BY <2>1, <3>1, <3>2, UpToUnique
    <3>4. g[n] = OneMore(g[n - 1])
        BY <2>1, <3>1 DEF UpTo
    <3> QED BY <2>1, <2>3, <3>2, <3>3, <3>4
  <2> QED BY <2>2, <2>3
<1>2. IsCalls(W)
  <2>1. W = [n \in Nat |-> W[n]]
    OBVIOUS
  <2> HIDE DEF W
  <2> QED BY <1>1, <2>1
<1>3. IsCalls(Calls)
  <2>1. Calls = CHOOSE f : IsCalls(f)
    BY DEF Calls
  <2> QED BY <1>2, <2>1, Zenon
<1> HIDE DEF W
<1>4. \A n \in Nat : Calls[n] = IF n = 0 THEN NoCalls ELSE OneMore(Calls[n - 1])
    BY <1>3, Zenon
<1> QED BY <1>4

\* By induction over the number of nested calls, all of them keep their promises.
LEMMA CallsAreOk ==
    ASSUME NEW n \in Nat
    PROVE  CallsOk(Calls[n])
<1> DEFINE T == {k \in Nat : ~CallsOk(Calls[k])}
<1> SUFFICES ASSUME T # {} PROVE FALSE
    OBVIOUS
<1>1. PICK k \in T : \A j \in T : k <= j
  <2>1. T \in SUBSET Nat
    OBVIOUS
  <2> HIDE DEF T
  <2> QED BY <2>1, Least
<1>2. k \in Nat /\ ~CallsOk(Calls[k])
    BY <1>1
<1>3. CASE k = 0
    BY <1>2, <1>3, CallsStep, NoCallsOk
<1>4. CASE k # 0
  <2>1. k - 1 \in Nat /\ k - 1 \notin T
    BY <1>1, <1>2, <1>4
  <2>2. CallsOk(Calls[k - 1])
    BY <2>1
  <2>3. Calls[k] = OneMore(Calls[k - 1])
    BY <1>2, <1>4, CallsStep
  <2> QED BY <1>2, <2>2, <2>3, OneMoreOk
<1> QED BY <1>3, <1>4

\* talloc.c:472: a call of _talloc_free without a fault, at any depth, from any heap
\* whose lists are sound but for the chunks being freed, leaves such a heap behind. It
\* frees or marks nothing another call is busy with, does not free null_context by
\* the way, frees nothing but the reference if it is given one, and returns -1 just if
\* its chunk is still there (or 0 because another call is freeing it already).
THEOREM FreeSound ==
    ASSUME NEW H \in Heaps, NEW c \in Chunks
    PROVE  FreeGives(H, c, Free(H, c))
<1>1. CallsOk(Calls[MaxCalls])
    BY CallsAreOk, MaxCallsAssumption
<1> QED BY <1>1 DEF CallsOk, FreeOk, Free

-----------------------------------------------------------------------------
(* talloc_unlink. *)

\* No call is being made.
Idle(H) == Mid(H) /\ Loose(H) = {} /\ Running(H) = {}

\* A call from H that ends well in G has kept the lists and null_context.
Kept(H, G) ==
    /\ G \in Heaps
    /\ G.fault = "none" => H.fault = "none"
    /\ Idle(H) /\ G.fault = "none" =>
            /\ Idle(G)
            /\ Frame(H, G)
            /\ H.null_context \in Live(H) => H.null_context \in Live(G)

\* A call that does nothing has kept everything.
LEMMA KeptSame ==
    ASSUME NEW H \in Heaps
    PROVE  Kept(H, H)
BY DEF Kept, Frame

\* A result of Free.
LEMMA FreeKept ==
    ASSUME NEW H \in Heaps, NEW c \in Chunks, Idle(H) => c # H.null_context
    PROVE  LET f == Free(H, c)
           IN  /\ Kept(H, f.heap)
               /\ Idle(H) /\ f.heap.fault = "none" => Outcome(H, c, f)
<1> DEFINE f == Free(H, c)
<1>1. FreeGives(H, c, f)
    BY FreeSound
<1> HIDE DEF f
<1>2. Idle(H) /\ f.heap.fault = "none" => Outcome(H, c, f)
    BY <1>1 DEF FreeGives, Idle
<1>3. Kept(H, f.heap)
    BY <1>1, <1>2 DEF Kept, FreeGives, Outcome, Idle, Frame
<1> QED BY <1>2, <1>3 DEF f

\* talloc_unreference (talloc.c:588) finds a reference to its pointer, or none.
LEMMA FirstHandleFacts ==
    ASSUME NEW H \in Heaps, NEW p, NEW context, FirstHandle(H, p, context) # NULL
    PROVE  LET h == FirstHandle(H, p, context)
           IN  h \in Live(H) /\ h \in Chunks /\ H.mem[h].ptr = p
<1> DEFINE held == {h \in Handles(H) : H.mem[h].ptr = p /\ ParentChunk(H, h) = context}
           firsts == {h \in held : held \cap Earlier(H, h) = {h}}
           h == FirstHandle(H, p, context)
<1>1. h = IF firsts = {} THEN NULL ELSE CHOOSE x \in firsts : TRUE
    BY DEF FirstHandle
<1>2. h \in firsts
  <2>1. firsts # {} /\ h = CHOOSE x \in firsts : TRUE
    BY <1>1
  <2> HIDE DEF firsts, h
  <2> QED BY <2>1
<1>3. h \in held
    BY <1>2
<1> HIDE DEF h
<1>4. h \in Handles(H) /\ H.mem[h].ptr = p
    BY <1>3
<1> QED BY <1>4 DEF Handles, Live, h

\* The reference that goes is not null_context, and nothing else goes.
LEMMA UnreferenceKept ==
    ASSUME NEW H \in Heaps, NEW context, NEW p \in Live(H)
    PROVE  LET r == Unreference(H, context, p)
           IN  /\ Kept(H, r.heap)
               /\ r.ret \in {0, -1}
               /\ Idle(H) /\ r.heap.fault = "none" => (H.mem[p].ptr = NULL => p \in Live(r.heap))
<1> DEFINE h == FirstHandle(H, p, Context(H, context))
           r == Unreference(H, context, p)
<1>0. p \in Chunks /\ p # NULL
    BY LiveParts
<1>1. CASE h = NULL
  <2>1. r = [heap |-> H, ret |-> -1]
    BY <1>1 DEF Unreference
  <2> QED BY <2>1, KeptSame
<1>2. CASE h # NULL
  <2>1. r = Free(H, h)
    BY <1>2 DEF Unreference
  <2>2. h \in Live(H) /\ h \in Chunks /\ H.mem[h].ptr = p
    BY <1>2, FirstHandleFacts
  <2> HIDE DEF h, r
  <2>3. Idle(H) => h # H.null_context
    BY <1>0, <1>2, <2>2 DEF Idle, Mid, Plain
  <2>4. /\ Kept(H, r.heap)
        /\ Idle(H) /\ r.heap.fault = "none" => Outcome(H, h, r)
    BY <2>1, <2>2, <2>3, FreeKept
  <2>5. r.ret \in {0, -1}
    BY <2>1, <2>2, FreeSound DEF FreeGives
  <2>6. ASSUME Idle(H), r.heap.fault = "none", H.mem[p].ptr = NULL
        PROVE  p \in Live(r.heap)
    <3>1. h \in InPlace(H)
        BY <2>2, <2>6, LiveParts DEF Idle
    <3>2. Live(r.heap) = Live(H) \ {h}
        BY <1>0, <2>2, <2>4, <2>6, <3>1 DEF Outcome
    <3>3. p # h
        BY <1>0, <2>2, <2>6
    <3> QED BY <3>2, <3>3
  <2> QED BY <2>4, <2>5, <2>6 DEF r
<1> QED BY <1>1, <1>2

\* talloc_unlink moves the pointer to the holder of a reference (talloc.c:653).
LEMMA AfterHolderKept ==
    ASSUME NEW H \in Heaps, NEW p \in Live(H), H.mem[p].ptr = NULL,
           p # H.null_context, NEW new_parent \in Pointers,
           Plain(H) /\ new_parent # NULL => H.mem[new_parent].ptr = NULL
    PROVE  Kept(H, AfterHolder(new_parent, p, Unreference(H, new_parent, p)).heap)
<1> DEFINE r == Unreference(H, new_parent, p)
           K == r.heap
           G == Steal(K, new_parent, p)
<1>0. p \in Chunks
    BY LiveParts
<1>1. /\ Kept(H, K)
      /\ Idle(H) /\ K.fault = "none" => p \in Live(K)
    BY UnreferenceKept
<1>2. CASE r.ret # 0
  <2>1. AfterHolder(new_parent, p, r) = r
    BY <1>2 DEF AfterHolder
  <2> QED BY <1>1, <2>1
<1>3. CASE r.ret = 0
  <2>1. AfterHolder(new_parent, p, r).heap = G
    BY <1>3 DEF AfterHolder
  <2> HIDE DEF r
  <2>2. K \in Heaps
    BY <1>1 DEF Kept
  <2> HIDE DEF K
  <2>3. /\ Mild(K, G)
        /\ (/\ Mid(K) /\ p \notin Loose(K) /\ p # K.null_context /\ G.fault = "none"
            /\ new_parent # NULL => K.mem[new_parent].ptr = NULL)
                => Mid(G) /\ Frame(K, G) /\ Live(G) = Live(K)
    BY <1>0, <2>2, StealMid
  <2> HIDE DEF G
  <2>4. G \in Heaps /\ (G.fault = "none" => K.fault = "none")
    BY <2>3 DEF Mild
  <2>5. ASSUME Idle(H), G.fault = "none"
        PROVE  /\ Idle(G) /\ Frame(H, G)
               /\ H.null_context \in Live(H) => H.null_context \in Live(G)
    <3>1. /\ Idle(K) /\ Frame(H, K)
          /\ H.null_context \in Live(H) => H.null_context \in Live(K)
        BY <1>1, <2>4, <2>5 DEF Kept
    <3>2. new_parent # NULL => K.mem[new_parent].ptr = NULL
        <4>1. Plain(H)
            BY <2>5 DEF Idle, Mid
        <4>2. new_parent # NULL => new_parent \in Chunks
            BY DEF Pointers
        <4> QED BY <3>1, <4>1, <4>2 DEF Frame
    <3>3. Mid(K) /\ p \notin Loose(K) /\ p # K.null_context
        BY <3>1 DEF Idle, Frame
    <3>4. Mid(G) /\ Frame(K, G) /\ Live(G) = Live(K)
        BY <2>3, <2>5, <3>2, <3>3
    <3>5. Idle(G)
        BY <3>1, <3>4 DEF Idle, Frame
    <3>6. Frame(H, G)
        BY <3>1, <3>4, FrameTwice
    <3> QED BY <3>1, <3>4, <3>5, <3>6
  <2>6. Kept(H, G)
    BY <1>1, <2>4, <2>5 DEF Kept
  <2> QED BY <2>1, <2>6 DEF r
<1> QED BY <1>2, <1>3

\* talloc_unlink keeps the lists, whatever it takes.
LEMMA UnlinkKept ==
    ASSUME NEW H \in Heaps, NEW context, NEW p \in Live(H), H.mem[p].ptr = NULL,
           p # H.null_context
    PROVE  Kept(H, Unlink(H, context, p).heap)
<1> DEFINE r == Unreference(H, context, p)
           first == H.mem[p].refs
           new_parent == ParentChunk(H, first)
           P == UnlinkParent(H, context, p)
<1>0. p \in Chunks /\ first \in Pointers
    BY LiveParts, LinkType DEF PointerFields
<1>1. Kept(H, r.heap)
    BY UnreferenceKept
<1>2. Unlink(H, context, p) = IF r.ret = 0 THEN r ELSE P
    BY DEF Unlink, AfterUnreference
<1>3. Kept(H, P.heap)
  <2>1. CASE Context(H, context) # ParentChunk(H, p)
    <3>1. P = [heap |-> H, ret |-> -1]
        BY <2>1 DEF UnlinkParent
    <3> QED BY <3>1, KeptSame
  <2>2. CASE Context(H, context) = ParentChunk(H, p) /\ first = NULL
    <3>1. P = Free(H, p)
        BY <2>2 DEF UnlinkParent
    <3> QED BY <3>1, <1>0, FreeKept
  <2>3. CASE Context(H, context) = ParentChunk(H, p) /\ first # NULL
    <3>1. P = AfterHolder(new_parent, p, Unreference(H, new_parent, p))
        BY <2>3 DEF UnlinkParent
    <3>2. first \in Chunks
        BY <1>0, <2>3 DEF Pointers
    <3> HIDE DEF first
    <3>3. /\ new_parent \in Pointers
          /\ Plain(H) /\ new_parent # NULL => H.mem[new_parent].ptr = NULL
        BY <3>2, ParentType
    <3> HIDE DEF new_parent
    <3> QED BY <3>1, <3>3, AfterHolderKept
  <2> QED BY <2>1, <2>2, <2>3
<1> HIDE DEF r, P
<1> QED BY <1>1, <1>2, <1>3

-----------------------------------------------------------------------------
(* Between two calls. *)

\* Between two calls nothing is being freed.
LEMMA GoodIdle ==
    ASSUME NEW H \in Heaps, Good(H)
    PROVE  Idle(H) /\ InPlace(H) = Live(H)
<1>1. Loose(H) = {} /\ Running(H) = {} /\ InPlace(H) = Live(H)
    BY DEF Good, Loose, Running, InPlace, Live
<1> QED BY <1>1 DEF Good, Idle, Mid

\* The end of a call clears what is free.
LEMMA SettledFacts ==
    ASSUME NEW H \in Heaps
    PROVE  LET G == Settled(H)
           IN  /\ G \in Heaps /\ G.fault = H.fault /\ G.null_context = H.null_context
               /\ G.locked = H.locked
               /\ Live(G) = Live(H)
               /\ \A x \in Live(H) : G.mem[x] = H.mem[x]
               /\ \A x \in Chunks \ Live(H) : G.mem[x] = Blank
<1> DEFINE m == [c \in Chunks |-> IF H.mem[c].free THEN Blank ELSE H.mem[c]]
           G == Settled(H)
<1>1. m \in [Chunks -> ChunkRecords]
  <2>1. Blank \in ChunkRecords
    BY DEF Blank, ChunkRecords, Pointers, Destructors, UserDestructors
  <2> QED BY <2>1 DEF Heaps
<1>2. \A x \in Chunks : m[x] = IF H.mem[x].free THEN Blank ELSE H.mem[x]
    OBVIOUS
<1>3. G = [H EXCEPT !.mem = m]
    BY DEF Settled
<1> HIDE DEF m, G
<1>4. /\ G \in Heaps /\ G.mem = m /\ G.fault = H.fault /\ G.null_context = H.null_context
    BY <1>1, <1>3 DEF Heaps
<1>5. G.locked = H.locked
    BY <1>3 DEF Heaps
<1>6. \A x \in Chunks : G.mem[x].free = H.mem[x].free
    BY <1>2, <1>4 DEF Blank, Heaps, ChunkRecords
<1>7. Live(G) = Live(H)
    BY <1>6 DEF Live
<1>8. /\ \A x \in Live(H) : G.mem[x] = H.mem[x]
      /\ \A x \in Chunks \ Live(H) : G.mem[x] = Blank
    BY <1>2, <1>4 DEF Live
<1> QED BY <1>4, <1>5, <1>7, <1>8 DEF G

\* The heap at the end of a call, but for null_context.
LEMMA SettledSound ==
    ASSUME NEW H \in Heaps, Idle(H)
    PROVE  LET G == Settled(H)
           IN  /\ SiblingsSound(G, Live(G))
               /\ ReferencesSound(G, Live(G))
               /\ Known(G, Live(G))
               /\ Plain(G)
               /\ Vacant(G)
               /\ \A x \in Chunks : ~G.mem[x].loop /\ G.mem[x].destructor # "running"
<1> DEFINE G == Settled(H)
<1>1. /\ G \in Heaps /\ G.null_context = H.null_context
      /\ Live(G) = Live(H)
      /\ \A x \in Live(H) : G.mem[x] = H.mem[x]
      /\ \A x \in Chunks \ Live(H) : G.mem[x] = Blank
    BY SettledFacts
<1> HIDE DEF G
<1>2. /\ InPlace(H) = Live(H) /\ Live(H) \subseteq Chunks /\ NULL \notin Live(H)
      /\ NULL \notin Chunks
    BY LiveParts, NullAssumption DEF Idle
<1>3. /\ SiblingsSound(H, Live(H)) /\ ReferencesSound(H, Live(H)) /\ Known(H, Live(H)) /\ Plain(H)
    BY <1>2 DEF Idle, Mid
<1>4. SiblingsSound(G, Live(G))
  <2>1. SameIn(H, G, Live(H), SiblingFields)
    BY <1>1 DEF SameIn
  <2> QED BY <2>1, <1>1, <1>2, <1>3, SiblingsSame
<1>5. ReferencesSound(G, Live(G))
  <2>1. SameIn(H, G, Live(H), ReferenceFields)
    BY <1>1 DEF SameIn
  <2> QED BY <2>1, <1>1, <1>2, <1>3, ReferencesSame
<1>6. Known(G, Live(G))
    BY <1>1, <1>3 DEF Known
<1>7. Vacant(G)
    BY <1>1 DEF Vacant, Blank
<1>8. Plain(G)
  <2>1. \A x \in Live(G) : G.mem[x].ptr # NULL => G.mem[x].child = NULL /\ G.mem[x].refs = NULL
    BY <1>1, <1>3 DEF Plain
  <2>2. ASSUME NEW x \in Chunks, G.mem[x].parent # NULL
        PROVE  G.mem[G.mem[x].parent].ptr = NULL
    <3>1. x \in Live(H)
        BY <1>1, <2>2 DEF Blank
    <3>2. H.mem[x].parent \in Live(H)
        BY <1>1, <1>3, <2>2, <3>1 DEF SiblingsSound
    <3> QED BY <1>1, <1>3, <2>2, <3>1, <3>2 DEF Plain
  <2>3. ASSUME G.null_context # NULL
        PROVE  /\ G.mem[G.null_context].parent = NULL
               /\ G.mem[G.null_context].prev = NULL
               /\ G.mem[G.null_context].ptr = NULL
    <3>1. H.null_context \in Chunks
        BY <1>1, <2>3 DEF Heaps, Pointers
    <3>2. CASE H.null_context \in Live(H)
        BY <1>1, <1>3, <2>3, <3>2 DEF Plain
    <3>3. CASE H.null_context \notin Live(H)
        BY <1>1, <3>1, <3>3 DEF Blank
    <3> QED BY <3>2, <3>3
  <2> QED BY <2>1, <2>2, <2>3 DEF Plain
<1>9. ASSUME NEW x \in Chunks
      PROVE  ~G.mem[x].loop /\ G.mem[x].destructor # "running"
  <2>1. CASE x \in Live(H)
    BY <1>1, <2>1 DEF Idle, Loose, Running
  <2>2. CASE x \notin Live(H)
    BY <1>1, <2>2 DEF Blank
  <2> QED BY <2>1, <2>2
<1> QED BY <1>4, <1>5, <1>6, <1>7, <1>8, <1>9 DEF G

\* A call that goes from the heap H to the heap G: if nothing went wrong it has kept
\* the lists, and given back the lock.
Step(H, G) ==
    /\ G \in Heaps
    /\ G.fault = "none" => H.fault = "none"
    /\ Good(H) /\ ~H.locked /\ G.fault = "none" => Good(G) /\ ~G.locked

\* Two such steps are one.
LEMMA StepTwice ==
    ASSUME NEW H, NEW G, NEW K, Step(H, G), Step(G, K)
    PROVE  Step(H, K)
BY DEF Step

\* A call that takes the lock, frees, and gives it back.
LEMMA KeptStep ==
    ASSUME NEW H \in Heaps, NEW p \in Pointers, NEW G, Kept(lock(H, p), G)
    PROVE  Step(H, Settled(unlock(G)))
<1> DEFINE B == lock(H, p)
           U == unlock(G)
           K == Settled(U)
<1>1. SameChunks(H, B)
    BY LockSame
<1> HIDE DEF B
<1>2. B \in Heaps /\ B.null_context = H.null_context /\ Live(B) = Live(H)
      /\ (B.fault = "none" => H.fault = "none")
    BY <1>1 DEF SameChunks, Live
<1>3. G \in Heaps /\ (G.fault = "none" => H.fault = "none")
    BY <1>2 DEF Kept, B
<1>4. SameChunks(G, U) /\ ~U.locked /\ U.fault = G.fault
    BY <1>3, UnlockSame
<1> HIDE DEF U
<1>5. U \in Heaps /\ U.null_context = G.null_context /\ Live(U) = Live(G)
    BY <1>4 DEF SameChunks, Live
<1>6. /\ K \in Heaps /\ K.fault = U.fault /\ K.null_context = U.null_context
      /\ Live(K) = Live(U)
    BY <1>5, SettledFacts
<1>7. K.locked = U.locked
    BY <1>5, SettledFacts
<1>8. ASSUME Good(H), K.fault = "none" PROVE Good(K)
  <2>1. Idle(B)
    BY <1>1, <1>2, <1>8, SameGood, GoodIdle
  <2>2. Idle(G) /\ Frame(B, G) /\ (B.null_context \in Live(B) => B.null_context \in Live(G))
    BY <1>4, <1>6, <1>8, <2>1 DEF Kept, B
  <2>3. Idle(U)
    <3>1. Alike(G, U)
        BY <1>3, <1>4, SameAlike
    <3> QED BY <3>1, <1>3, <2>2, AlikeMid DEF Idle
  <2>4. /\ SiblingsSound(K, Live(K)) /\ ReferencesSound(K, Live(K)) /\ Known(K, Live(K))
        /\ Plain(K) /\ Vacant(K)
        /\ \A x \in Chunks : ~K.mem[x].loop /\ K.mem[x].destructor # "running"
    BY <1>5, <2>3, SettledSound
  <2>5. K.null_context \in Live(K) \cup {NULL}
    BY <1>2, <1>5, <1>6, <1>8, <2>2 DEF Good, Frame
  <2> QED BY <2>4, <2>5 DEF Good
<1> QED BY <1>3, <1>4, <1>6, <1>7, <1>8 DEF Step, K, U

\* talloc_free (talloc.c:822).
LEMMA FreeStep ==
    ASSUME NEW H \in Heaps, NEW p \in Chunks, Good(H) => p # H.null_context
    PROVE  Step(H, Settled(unlock(Free(lock(H, p), p).heap)))
<1> DEFINE B == lock(H, p)
<1>0. p \in Pointers
    BY DEF Pointers
<1>1. SameChunks(H, B)
    BY <1>0, LockSame
<1> HIDE DEF B
<1>2. B \in Heaps /\ B.null_context = H.null_context
    BY <1>1 DEF SameChunks
<1>3. CASE p # H.null_context
  <2>1. Kept(B, Free(B, p).heap)
    BY <1>2, <1>3, FreeKept
  <2> QED BY <1>0, <2>1, KeptStep DEF B
<1>4. CASE p = H.null_context
  <2>1. FreeGives(B, p, Free(B, p))
    BY <1>2, FreeSound
  <2> DEFINE G == Free(B, p).heap
             K == Settled(unlock(G))
  <2>2. G \in Heaps /\ (G.fault = "none" => H.fault = "none")
    BY <1>1, <2>1 DEF FreeGives, SameChunks
  <2> HIDE DEF G
  <2>3. unlock(G) \in Heaps /\ unlock(G).fault = G.fault
    BY <2>2, UnlockSame DEF SameChunks
  <2>4. K \in Heaps /\ K.fault = G.fault
    BY <2>3, SettledFacts
  <2> QED BY <1>4, <2>2, <2>4 DEF Step, G, B
<1> QED BY <1>3, <1>4

-----------------------------------------------------------------------------
(* The calls. *)

\* A call that works under the lock, from p's side.
LEMMA LockedStep ==
    ASSUME NEW H \in Heaps, NEW p \in Pointers, NEW G \in Heaps,
           G.fault = "none" => lock(H, p).fault = "none",
           Good(lock(H, p)) /\ G.fault = "none" => Good(G)
    PROVE  Step(H, unlock(G))
<1> DEFINE B == lock(H, p)
           U == unlock(G)
<1>1. SameChunks(H, B)
    BY LockSame
<1>2. SameChunks(G, U) /\ ~U.locked /\ U.fault = G.fault
    BY UnlockSame
<1> HIDE DEF B, U
<1>3. U \in Heaps /\ (U.fault = "none" => H.fault = "none")
    BY <1>1, <1>2 DEF SameChunks, B
<1>4. ASSUME Good(H), U.fault = "none" PROVE Good(U)
  <2>1. Good(B)
    BY <1>1, <1>4, SameGood
  <2>2. Good(G)
    BY <1>2, <1>4, <2>1 DEF B
  <2> QED BY <1>2, <2>2, SameGood
<1> QED BY <1>2, <1>3, <1>4 DEF Step, U

\* The contexts a program passes can own something.
LEMMA ContextFacts ==
    ASSUME NEW H \in Heaps, NEW ctx \in Contexts(H)
    PROVE  /\ ctx \in Pointers
           /\ Context(H, ctx) \in Pointers
           /\ Good(H) => Ownable(H, Context(H, ctx))
<1>1. CASE ctx = NULL
  <2>1. Context(H, ctx) = H.null_context
    BY <1>1 DEF Context
  <2>2. H.null_context \in Pointers /\ NULL \in Pointers
    BY DEF Heaps, Pointers
  <2> QED BY <1>1, <2>1, <2>2 DEF Good, Ownable, Plain
<1>2. CASE ctx # NULL
  <2>1. ctx \in Live(H) /\ H.mem[ctx].ptr = NULL
    BY <1>2 DEF Contexts, Users
  <2>2. Context(H, ctx) = ctx
    BY <1>2 DEF Context
  <2>3. ctx \in Pointers
    BY <2>1 DEF Live, Pointers
  <2> QED BY <2>1, <2>2, <2>3 DEF Ownable
<1> QED BY <1>1, <1>2

\* What Allocate needs of ctx.
Usable(H, ctx) ==
    ctx \in Pointers /\ Context(H, ctx) \in Pointers /\ (Good(H) => Ownable(H, Context(H, ctx)))

\* Alike heaps are both sound between two calls, or neither is.
LEMMA AlikeGood ==
    ASSUME NEW H \in Heaps, NEW G, Alike(H, G), Good(H)
    PROVE  Good(G)
<1>1. /\ G \in Heaps /\ Live(G) = Live(H) /\ G.null_context = H.null_context
      /\ SameLinks(H, G, PointerFields)
      /\ \A x \in Chunks : /\ G.mem[x].loop = H.mem[x].loop
                           /\ G.mem[x].destructor = H.mem[x].destructor
    BY DEF Alike
<1>2. SiblingsSound(G, Live(G)) /\ ReferencesSound(G, Live(G)) /\ Plain(G) /\ Vacant(G)
    BY <1>1, LinksSame DEF Good
<1>3. Known(G, Live(G))
  <2>1. Live(H) \subseteq Chunks /\ \A x \in Chunks : G.mem[x].ptr = H.mem[x].ptr
    BY <1>1, LiveParts DEF SameLinks, PointerFields
  <2> QED BY <2>1, <1>1 DEF Good, Known
<1> QED BY <1>1, <1>2, <1>3 DEF Good

\* The lock changes neither the context nor whether it can own something.
LEMMA SameContext ==
    ASSUME NEW H \in Heaps, NEW p \in Pointers, NEW ctx
    PROVE  /\ lock(H, p) \in Heaps
           /\ Context(lock(H, p), ctx) = Context(H, ctx)
           /\ \A q : Ownable(lock(H, p), q) <=> Ownable(H, q)
           /\ Live(lock(H, p)) = Live(H)
           /\ Good(lock(H, p)) => Good(H)
<1> DEFINE B == lock(H, p)
<1>1. SameChunks(H, B)
    BY LockSame
<1> HIDE DEF B
<1>2. B \in Heaps /\ B.mem = H.mem /\ B.null_context = H.null_context
    BY <1>1 DEF SameChunks
<1>3. Live(B) = Live(H)
    BY <1>2 DEF Live
<1>4. Good(B) => Good(H)
  <2>1. Alike(B, H)
    BY <1>2, <1>3 DEF Alike, SameLinks
  <2> QED BY <1>2, <2>1, AlikeGood
<1> QED BY <1>2, <1>3, <1>4 DEF Context, Ownable, B

\* An allocation under the lock.
LEMMA AllocateStep ==
    ASSUME NEW H \in Heaps, NEW ctx, Usable(H, ctx), NEW c \in Chunks \ Live(H)
    PROVE  /\ Step(H, Allocate(H, ctx, c))
           /\ Live(Allocate(H, ctx, c)) = Live(H) \cup {c}
           /\ Allocate(H, ctx, c).null_context = H.null_context
           /\ Allocate(H, ctx, c).mem[c].destructor = "none"
<1> DEFINE B == lock(H, ctx)
           parent == Context(H, ctx)
           G == InitTalloc(B, parent, c)
<1>0. ctx \in Pointers /\ parent \in Pointers
    BY DEF Usable
<1>1. /\ B \in Heaps /\ Live(B) = Live(H)
      /\ Good(B) => Ownable(B, parent)
    BY <1>0, SameContext DEF Usable
<1>2. SameChunks(H, B)
    BY <1>0, LockSame
<1> HIDE DEF B, parent
<1>3. /\ G \in Heaps /\ Live(G) = Live(B) \cup {c} /\ G.null_context = B.null_context
      /\ G.fault = "none" => B.fault = "none"
      /\ G.mem[c].destructor = "none"
    BY <1>0, <1>1, InitMild
<1>4. Good(B) => Good(G)
    BY <1>1, InitGood
<1> HIDE DEF G
<1>5. Step(H, unlock(G))
    BY <1>0, <1>3, <1>4, LockedStep DEF B
<1>6. SameChunks(G, unlock(G))
    BY <1>3, UnlockSame
<1>7. /\ Live(unlock(G)) = Live(H) \cup {c} /\ unlock(G).null_context = H.null_context
      /\ unlock(G).mem[c].destructor = "none"
    BY <1>1, <1>2, <1>3, <1>6 DEF SameChunks, Live
<1>8. Allocate(H, ctx, c) = unlock(G)
    BY DEF Allocate, G, B, parent
<1> QED BY <1>5, <1>7, <1>8

\* The store of a name.
LEMMA SetNameStep ==
    ASSUME NEW H \in Heaps, NEW c \in Chunks
    PROVE  Step(H, SetName(H, c)) /\ Live(SetName(H, c)) = Live(H)
<1> DEFINE T == Touch(H, c)
           G == SetName(H, c)
<1>1. T \in {H, [H EXCEPT !.fault = "use after free"]} /\ (T.fault = "none" => H.fault = "none")
    BY DEF Touch
<1>2. G \in {T, [T EXCEPT !.fault = "unlocked"]} /\ (G.fault = "none" => T.fault = "none")
    BY DEF SetName, Guard
<1> HIDE DEF T, G
<1>3. SameChunks(H, T)
    BY <1>1 DEF SameChunks, Heaps, Faults
<1>3a. T.locked = H.locked
    BY <1>1 DEF Heaps
<1>4. SameChunks(T, G)
    BY <1>2, <1>3 DEF SameChunks, Heaps, Faults
<1>4a. G.locked = T.locked
    BY <1>2, <1>3 DEF SameChunks, Heaps
<1>5. SameChunks(H, G)
    BY <1>3, <1>4 DEF SameChunks
<1>6. G.locked = H.locked
    BY <1>3a, <1>4a
<1>7. Good(H) => Good(G)
    BY <1>5, SameGood
<1> QED BY <1>5, <1>6, <1>7 DEF Step, SameChunks, Live, G

\* A chunk with a formatted name, or not enough memory for that.
LEMMA NamedStep ==
    ASSUME NEW H \in Heaps, NEW ctx, Usable(H, ctx), NEW c \in Chunks \ Live(H),
           Named(H, ctx, c)
    PROVE  Step(H, heap')
<1> DEFINE K == Allocate(H, ctx, c)
<1>1. /\ Step(H, K) /\ Live(K) = Live(H) \cup {c} /\ K.null_context = H.null_context
      /\ K.mem[c].destructor = "none"
    BY AllocateStep
<1> HIDE DEF K
<1>2. K \in Heaps /\ c \in Live(K) /\ c \in Chunks
    BY <1>1 DEF Step
<1>3. Good(K) => K.mem[c].ptr = NULL
    BY <1>1, <1>2 DEF Good, Known
<1>4. CASE \E n \in Chunks \ Live(K) : heap' = SetNameV(K, c, n)
  <2>1. PICK n \in Chunks \ Live(K) : heap' = SetNameV(K, c, n)
    BY <1>4
  <2>2. Usable(K, c)
    <3>1. c # NULL /\ c \in Pointers
        BY <1>2, NullAssumption DEF Pointers
    <3>2. Context(K, c) = c
        BY <3>1 DEF Context
    <3> QED BY <3>1, <3>2, <1>2, <1>3 DEF Usable, Ownable
  <2> DEFINE A == Allocate(K, c, n)
             N == SetName(A, n)
  <2>3. Step(K, A)
    BY <1>2, <2>2, AllocateStep
  <2> HIDE DEF A
  <2>4. A \in Heaps
    BY <2>3 DEF Step
  <2>5. Step(A, N)
    BY <2>4, SetNameStep
  <2>6. N \in Heaps
    BY <2>5 DEF Step
  <2>7. Step(N, SetName(N, c))
    BY <1>2, <2>6, SetNameStep
  <2>8. heap' = SetName(N, c)
    BY <2>1 DEF SetNameV, A
  <2> HIDE DEF N
  <2> QED BY <1>1, <2>3, <2>5, <2>7, <2>8, StepTwice
<1>5. CASE heap' = Settled(unlock(Free(lock(K, c), c).heap))
  <2>1. ASSUME Good(K), c = H.null_context, Good(H) PROVE FALSE
    BY <2>1, NullAssumption DEF Good
  <2>2. CASE Good(H)
    <3>1. Good(K) => c # K.null_context
        BY <1>1, <2>1, <2>2
    <3>2. Step(K, heap')
        BY <1>2, <1>5, <3>1, FreeStep
    <3> QED BY <1>1, <3>2, StepTwice
  <2>3. CASE ~Good(H)
    <3> DEFINE f == Free(lock(K, c), c)
    <3>1. SameChunks(K, lock(K, c))
        BY <1>2, LockSame DEF Pointers
    <3>2. FreeGives(lock(K, c), c, f)
        BY <1>2, <3>1, FreeSound DEF SameChunks
    <3> HIDE DEF f
    <3>3. f.heap \in Heaps /\ (f.heap.fault = "none" => K.fault = "none")
        BY <3>1, <3>2 DEF FreeGives, SameChunks
    <3>4. unlock(f.heap) \in Heaps /\ unlock(f.heap).fault = f.heap.fault
        BY <3>3, UnlockSame DEF SameChunks
    <3>5. heap' \in Heaps /\ heap'.fault = f.heap.fault
        BY <1>5, <3>4, SettledFacts DEF f
    <3> QED BY <1>1, <2>3, <3>3, <3>5 DEF Step
  <2> QED BY <2>2, <2>3
<1> QED BY <1>4, <1>5 DEF Named, K

\* talloc_add_external (talloc.c:1568).
LEMMA AddExternalStep ==
    ASSUME NEW H \in Heaps, NEW ctx \in Contexts(H), NEW c \in Chunks \ Live(H)
    PROVE  Step(H, [InitTalloc(H, ctx, c) EXCEPT !.mem[c].ext = TRUE])
<1> DEFINE K == InitTalloc(H, ctx, c)
           G == [K EXCEPT !.mem[c].ext = TRUE]
<1>0. ctx \in Pointers /\ Ownable(H, ctx)
    BY ContextFacts DEF Contexts, Users, Ownable
<1>1. K \in Heaps /\ (K.fault = "none" => H.fault = "none")
    BY <1>0, InitMild
<1>1a. K.locked = H.locked
    BY <1>0, InitMild
<1>2. Good(H) => Good(K)
    BY <1>0, InitGood
<1> HIDE DEF K
<1> DEFINE tc == [K.mem[c] EXCEPT !.ext = TRUE]
           m == [K.mem EXCEPT ![c] = tc]
<1>2a. K.mem \in [Chunks -> ChunkRecords] /\ K.mem[c] \in ChunkRecords
    BY <1>1 DEF Heaps
<1>2b. tc \in ChunkRecords
    BY <1>2a DEF ChunkRecords
<1>2c. G = [K EXCEPT !.mem = m]
    BY <1>1 DEF Heaps
<1> HIDE DEF tc, G
<1>2d. m \in [Chunks -> ChunkRecords]
    BY <1>2a, <1>2b
<1>2e. \A x \in Chunks : m[x] = IF x = c THEN tc ELSE K.mem[x]
    BY <1>2a
<1> HIDE DEF m
<1>3. /\ G \in Heaps /\ G.null_context = K.null_context /\ G.fault = K.fault /\ G.mem = m
    BY <1>1, <1>2c, <1>2d DEF Heaps
<1>3a. G.locked = K.locked
    BY <1>1, <1>2c DEF Heaps
<1>4. \A x \in Chunks : /\ G.mem[x].free = K.mem[x].free
                        /\ G.mem[x].loop = K.mem[x].loop
                        /\ G.mem[x].destructor = K.mem[x].destructor
                        /\ \A g \in PointerFields : G.mem[x][g] = K.mem[x][g]
  <2>1. /\ tc.free = K.mem[c].free /\ tc.loop = K.mem[c].loop
        /\ tc.destructor = K.mem[c].destructor
        /\ \A g \in PointerFields : tc[g] = K.mem[c][g]
    BY <1>2a DEF ChunkRecords, PointerFields, tc
  <2> QED BY <1>2e, <1>3, <2>1
<1>5. Alike(K, G)
    BY <1>3, <1>4 DEF Alike, SameLinks, Live
<1>6. Good(H) => Good(G)
    BY <1>1, <1>2, <1>5, AlikeGood
<1> QED BY <1>1, <1>1a, <1>3, <1>3a, <1>6 DEF Step, G, K

\* talloc_set_destructor (talloc.c:297).
LEMMA SetDestructorStep ==
    ASSUME NEW H \in Heaps, NEW p \in Users(H), NEW d \in UserDestructors
    PROVE  Step(H, Set(H, p, "destructor", d))
<1> DEFINE G == Set(H, p, "destructor", d)
<1>0. /\ p \in Chunks /\ p \in Live(H) /\ H.mem[p].ptr = NULL
      /\ d \in Destructors /\ d # "reference" /\ d # "running"
    BY DEF Users, Live, Destructors, UserDestructors
<1>1. Armed(H, G, p, d)
    BY <1>0, SetDestructor
<1> HIDE DEF G
<1>2. G.locked = H.locked
    BY <1>1 DEF Armed
<1>3. ASSUME Good(H) PROVE Good(G)
  <2>0. Live(H) \subseteq Chunks
    BY LiveParts
  <2>1. SiblingsSound(G, Live(G)) /\ ReferencesSound(G, Live(G)) /\ Plain(G) /\ Vacant(G)
    BY <1>1, <1>3, LinksSame DEF Armed, Good
  <2>2. \A x \in Chunks : G.mem[x].ptr = H.mem[x].ptr
    BY <1>1 DEF Armed, SameLinks, PointerFields
  <2>3. Known(G, Live(G))
    BY <1>0, <1>1, <1>3, <2>0, <2>2 DEF Armed, Good, Known
  <2>4. \A x \in Chunks : ~G.mem[x].loop /\ G.mem[x].destructor # "running"
    BY <1>0, <1>1, <1>3 DEF Armed, Good
  <2> QED BY <1>1, <1>3, <2>1, <2>3, <2>4 DEF Armed, Good
<1> QED BY <1>1, <1>2, <1>3 DEF Step, Armed, G

\* talloc_reference (talloc.c:362).
LEMMA ReferenceStep ==
    ASSUME NEW H \in Heaps, NEW ctx \in Contexts(H), NEW p \in Users(H), NEW c \in Chunks \ Live(H)
    PROVE  Step(H, unlock(Reference(lock(H, ctx), ctx, p, c)))
<1> DEFINE B == lock(H, ctx)
           G == Reference(B, ctx, p, c)
<1>0. p \in Chunks /\ p \in Live(H) /\ H.mem[p].ptr = NULL
    BY DEF Users, Live
<1>1. ctx \in Pointers /\ Context(H, ctx) \in Pointers /\ (Good(H) => Ownable(H, Context(H, ctx)))
    BY ContextFacts
<1>2. /\ B \in Heaps /\ Context(B, ctx) = Context(H, ctx) /\ Live(B) = Live(H)
      /\ Good(B) => Ownable(B, Context(B, ctx))
    BY <1>1, SameContext
<1>3. B.mem = H.mem
    BY <1>1, LockSame DEF SameChunks
<1> HIDE DEF B
<1>4. G \in Heaps /\ (G.fault = "none" => B.fault = "none")
    BY <1>0, <1>1, <1>2, ReferenceMild
<1>5. Good(B) => Good(G)
    BY <1>0, <1>2, <1>3, ReferenceGood
<1> HIDE DEF G
<1>6. Step(H, unlock(G))
    BY <1>1, <1>4, <1>5, LockedStep DEF B
<1> QED BY <1>6 DEF G, B

\* talloc_steal (talloc.c:564).
LEMMA StealStep ==
    ASSUME NEW H \in Heaps, NEW ctx \in Contexts(H), NEW p \in Users(H)
    PROVE  Step(H, unlock(Steal(lock(H, ctx), ctx, p)))
<1> DEFINE B == lock(H, ctx)
           G == Steal(B, ctx, p)
<1>0. p \in Chunks /\ p \in Live(H) /\ p # H.null_context
    BY DEF Users, Live
<1>1. ctx \in Pointers /\ Context(H, ctx) \in Pointers /\ (Good(H) => Ownable(H, Context(H, ctx)))
    BY ContextFacts
<1>2. /\ B \in Heaps /\ Context(B, ctx) = Context(H, ctx) /\ Live(B) = Live(H)
      /\ Good(B) => Ownable(B, Context(B, ctx))
    BY <1>1, SameContext
<1>3. B.null_context = H.null_context
    BY <1>1, LockSame DEF SameChunks
<1> HIDE DEF B
<1>4. Mild(B, G)
    BY <1>0, <1>1, <1>2, StealMild
<1>5. Good(B) => Good(G)
    BY <1>0, <1>2, <1>3, StealGood
<1> HIDE DEF G
<1>6. Step(H, unlock(G))
    BY <1>1, <1>4, <1>5, LockedStep DEF B, Mild
<1> QED BY <1>6 DEF G, B

\* talloc_unlink (talloc.c:607).
LEMMA UnlinkStep ==
    ASSUME NEW H \in Heaps, NEW ctx \in Contexts(H), NEW p \in Users(H)
    PROVE  Step(H, Settled(unlock(Unlinking(H, ctx, p).heap)))
<1> DEFINE o == Context(H, ctx)
           B == lock(H, o)
           G == Unlink(B, ctx, p).heap
<1>0. p \in Live(H) /\ p # H.null_context /\ H.mem[p].ptr = NULL
    BY DEF Users
<1>1. o \in Pointers
    BY ContextFacts
<1>2. SameChunks(H, B)
    BY <1>1, LockSame
<1> HIDE DEF B, o
<1>3. /\ B \in Heaps /\ p \in Live(B) /\ p # B.null_context /\ B.mem[p].ptr = NULL
    BY <1>0, <1>2 DEF SameChunks, Live
<1>4. Kept(B, G)
    BY <1>3, UnlinkKept
<1> HIDE DEF G
<1>5. Step(H, Settled(unlock(G)))
    BY <1>1, <1>4, KeptStep DEF B
<1> QED BY <1>5 DEF G, B, o, Unlinking

\* talloc_realloc (talloc.c:840).
LEMMA ReallocStep ==
    ASSUME NEW H \in Heaps, NEW p \in Users(H), H.mem[p].refs = NULL, NEW c \in Chunks \ Live(H)
    PROVE  Step(H, unlock(Moved(lock(H, p), p, c)))
<1> DEFINE B == lock(H, p)
           C == Copied(B, p, c)
           G == Moved(B, p, c)
<1>0. /\ p \in Chunks /\ p \in Live(H) /\ p # H.null_context /\ H.mem[p].ptr = NULL
      /\ p \in Pointers /\ p # c
    BY DEF Users, Live, Pointers
<1>1. SameChunks(H, B)
    BY <1>0, LockSame
<1> HIDE DEF B
<1>2. /\ B \in Heaps /\ B.mem = H.mem /\ B.null_context = H.null_context /\ Live(B) = Live(H)
    BY <1>1 DEF SameChunks, Live
<1>3. Mild(C, G)
    BY <1>0, <1>2, MovedFacts
<1>4. C.fault = B.fault
    BY <1>2 DEF Copied, Heaps
<1>5. Good(B) /\ G.fault = "none" => Good(G)
    BY <1>0, <1>2, MovedGood
<1> HIDE DEF G, C
<1>6. Step(H, unlock(G))
    BY <1>0, <1>3, <1>4, <1>5, LockedStep DEF B, Mild
<1> QED BY <1>6 DEF G, B

\* talloc_enable_null_tracking (talloc.c:1176).
LEMMA NullTrackingStep ==
    ASSUME NEW H \in Heaps, NEW c \in Chunks \ Live(H)
    PROVE  /\ Step(H, NullTracking(H, c))
           /\ Live(NullTracking(H, c)) = Live(H) \cup {c}
<1> DEFINE K == InitTalloc(H, NULL, c)
           G == NullTracking(H, c)
<1>0. NULL \in Pointers /\ Ownable(H, NULL) /\ c # NULL
    BY NullAssumption DEF Pointers, Ownable
<1>1. /\ K \in Heaps /\ Live(K) = Live(H) \cup {c}
      /\ K.fault = "none" => H.fault = "none"
    BY <1>0, InitMild
<1>1a. K.locked = H.locked
    BY <1>0, InitMild
<1>2. Good(H) => Good(K)
    BY <1>0, InitGood
<1>3. K.mem[c].parent = NULL /\ K.mem[c].prev = NULL /\ K.mem[c].ptr = NULL
  <2>1. Fresh(H, NULL, c).mem[c].next = NULL
    BY DEF Fresh, Blank, Heaps
  <2>2. K = Fresh(H, NULL, c)
    BY <2>1 DEF InitTalloc, Store
  <2> QED BY <2>2 DEF Fresh, Blank, Heaps
<1>4. G = [K EXCEPT !.null_context = c]
    BY DEF NullTracking
<1> HIDE DEF K, G
<1>5. /\ G \in Heaps /\ G.mem = K.mem /\ G.null_context = c /\ G.fault = K.fault
      /\ Live(G) = Live(K)
    BY <1>1, <1>4 DEF Heaps, Live, Pointers
<1>6. G.locked = K.locked
    BY <1>1, <1>4 DEF Heaps
<1>7. ASSUME Good(K) PROVE Good(G)
  <2>1. SiblingsSound(G, Live(G)) /\ ReferencesSound(G, Live(G)) /\ Known(G, Live(G)) /\ Vacant(G)
    <3>1. SiblingsSound(G, Live(G))
        BY <1>5, <1>7 DEF Good, SiblingsSound, BothWays
    <3>2. ReferencesSound(G, Live(G))
        BY <1>5, <1>7 DEF Good, ReferencesSound, BothWays
    <3> QED BY <1>5, <1>7, <3>1, <3>2 DEF Good, Known, Vacant
  <2>2. Plain(G)
    BY <1>3, <1>5, <1>7 DEF Good, Plain
  <2>3. G.null_context \in Live(G)
    BY <1>1, <1>5
  <2> QED BY <1>5, <1>7, <2>1, <2>2, <2>3 DEF Good
<1> QED BY <1>1, <1>1a, <1>2, <1>5, <1>6, <1>7 DEF Step, G

\* talloc_disable_null_tracking (talloc.c:1186).
LEMMA DisableStep ==
    ASSUME NEW H \in Heaps, H.null_context # NULL
    PROVE  Step(H, [Settled(Free(H, H.null_context).heap) EXCEPT !.null_context = NULL])
<1> DEFINE c == H.null_context
           F == Free(H, c).heap
           S == Settled(F)
           G == [S EXCEPT !.null_context = NULL]
<1>0. c \in Chunks
    BY DEF Heaps, Pointers
<1>1. FreeGives(H, c, Free(H, c))
    BY <1>0, FreeSound
<1>2. /\ F \in Heaps
      /\ F.fault = "none" => H.fault = "none"
      /\ Mid(H) /\ F.fault = "none" => Mid(F) /\ Frame(H, F)
    BY <1>1 DEF FreeGives, Outcome
<1> HIDE DEF F
<1>3. S \in Heaps /\ S.fault = F.fault
    BY <1>2, SettledFacts
<1>3a. S.locked = F.locked
    BY <1>2, SettledFacts
<1> HIDE DEF S
<1>4. /\ G \in Heaps /\ G.mem = S.mem /\ G.null_context = NULL /\ G.fault = S.fault
      /\ Live(G) = Live(S)
    BY <1>3 DEF Heaps, Live, Pointers
<1>4a. G.locked = S.locked
    BY <1>3 DEF Heaps
<1> HIDE DEF G
<1>5. ASSUME Good(H), ~H.locked, G.fault = "none" PROVE Good(G) /\ ~G.locked
  <2>1. Idle(H)
    BY <1>5, GoodIdle
  <2>2. Mid(F) /\ Frame(H, F)
    BY <1>2, <1>3, <1>4, <1>5, <2>1 DEF Idle
  <2>3. ~G.locked
    <3>1. ~F.locked
        BY <1>5, <2>2 DEF Frame
    <3> QED BY <3>1, <1>3a, <1>4a
  <2>4. Idle(F)
    BY <2>1, <2>2 DEF Idle, Frame
  <2>5. /\ SiblingsSound(S, Live(S)) /\ ReferencesSound(S, Live(S)) /\ Known(S, Live(S))
        /\ Plain(S) /\ Vacant(S)
        /\ \A x \in Chunks : ~S.mem[x].loop /\ S.mem[x].destructor # "running"
    BY <1>2, <2>4, SettledSound DEF S
  <2>6. SiblingsSound(G, Live(G))
    BY <1>4, <2>5 DEF SiblingsSound, BothWays
  <2>7. ReferencesSound(G, Live(G))
    BY <1>4, <2>5 DEF ReferencesSound, BothWays
  <2>8. Known(G, Live(G)) /\ Plain(G) /\ Vacant(G)
    BY <1>4, <2>5 DEF Known, Plain, Vacant
  <2> QED BY <1>4, <2>3, <2>5, <2>6, <2>7, <2>8 DEF Good
<1> QED BY <1>2, <1>3, <1>4, <1>5 DEF Step, G, S, F

-----------------------------------------------------------------------------
(* The invariant. *)

\* As long as nothing went wrong, the heap between two calls is sound, and the lock
\* is free.
Inv == heap \in Heaps /\ (heap.fault = "none" => Good(heap) /\ ~heap.locked)

\* The first heap is sound.
LEMMA EmptyGood ==
    Empty \in Heaps /\ Good(Empty) /\ ~Empty.locked
<1>1. Empty \in Heaps /\ ~Empty.locked /\ Empty.null_context = NULL
    BY DEF Empty, Heaps, Blank, ChunkRecords, Pointers, Destructors, UserDestructors, Faults
<1>2. \A x \in Chunks : Empty.mem[x] = Blank
    BY DEF Empty
<1>3. Live(Empty) = {}
    BY <1>2 DEF Live, Blank
<1>4. SiblingsSound(Empty, {}) /\ ReferencesSound(Empty, {})
    BY <1>3 DEF SiblingsSound, ReferencesSound
<1>5. Known(Empty, {}) /\ Vacant(Empty) /\ Plain(Empty)
    BY <1>1, <1>2, <1>3 DEF Known, Vacant, Plain, Blank
<1>6. \A x \in Chunks : ~Empty.mem[x].loop /\ Empty.mem[x].destructor # "running"
    BY <1>2 DEF Blank
<1> QED BY <1>1, <1>3, <1>4, <1>5, <1>6 DEF Good

\* Every call is a step as above.
LEMMA NextStep ==
    ASSUME heap \in Heaps, Next
    PROVE  Step(heap, heap')
<1>u. Unused = Chunks \ Live(heap)
    BY DEF Unused
<1>c. ASSUME NEW ctx \in Contexts(heap) PROVE Usable(heap, ctx)
    BY ContextFacts DEF Usable
<1>n. Usable(heap, NULL)
    BY <1>c DEF Contexts
<1>1. ASSUME NEW ctx \in Contexts(heap), talloc(ctx)
      PROVE  Step(heap, heap')
    BY <1>1, <1>c, <1>u, AllocateStep DEF talloc
<1>2. ASSUME NEW ctx \in Contexts(heap), talloc_strdup(ctx)
      PROVE  Step(heap, heap')
  <2>1. PICK c \in Unused : heap' = SetName(Allocate(heap, ctx, c), c)
    BY <1>2 DEF talloc_strdup
  <2>2. Step(heap, Allocate(heap, ctx, c))
    BY <1>c, <1>u, AllocateStep
  <2>3. Step(Allocate(heap, ctx, c), heap')
    BY <1>u, <2>1, <2>2, SetNameStep DEF Step
  <2> QED BY <2>2, <2>3, StepTwice
<1>3. ASSUME NEW ctx \in Contexts(heap), talloc_named(ctx)
      PROVE  Step(heap, heap')
    BY <1>3, <1>c, <1>u, NamedStep DEF talloc_named
<1>4. ASSUME NEW ctx \in Contexts(heap), talloc_add_external(ctx)
      PROVE  Step(heap, heap')
  <2>1. PICK c \in Unused : heap' = [InitTalloc(heap, ctx, c) EXCEPT !.mem[c].ext = TRUE]
    BY <1>4, Zenon DEF talloc_add_external
  <2>2. c \in Chunks \ Live(heap)
    BY <1>u
  <2>3. Step(heap, [InitTalloc(heap, ctx, c) EXCEPT !.mem[c].ext = TRUE])
    BY <2>2, AddExternalStep, Zenon
  <2> QED BY <2>1, <2>3, Zenon
<1>5. ASSUME NEW p \in Users(heap), NEW d \in UserDestructors, talloc_set_destructor(p, d)
      PROVE  Step(heap, heap')
    BY <1>5, SetDestructorStep DEF talloc_set_destructor
<1>6. ASSUME NEW p \in Users(heap), NEW ctx \in Contexts(heap), talloc_reference(ctx, p)
      PROVE  Step(heap, heap')
    BY <1>6, <1>u, ReferenceStep DEF talloc_reference
<1>7. ASSUME NEW p \in Users(heap), NEW ctx \in Contexts(heap), talloc_steal(ctx, p)
      PROVE  Step(heap, heap')
    BY <1>7, StealStep DEF talloc_steal
<1>8. ASSUME NEW p \in Users(heap), talloc_free(p)
      PROVE  Step(heap, heap')
  <2>1. p \in Chunks /\ p # heap.null_context
    BY <1>8 DEF Users, Live
  <2> QED BY <1>8, <2>1, FreeStep DEF talloc_free
<1>9. ASSUME NEW p \in Users(heap), NEW ctx \in Contexts(heap), talloc_unlink(ctx, p)
      PROVE  Step(heap, heap')
    BY <1>9, UnlinkStep DEF talloc_unlink
<1>10. ASSUME NEW p \in Users(heap), talloc_realloc(p)
       PROVE  Step(heap, heap')
    BY <1>10, <1>u, ReallocStep DEF talloc_realloc
<1>11. ASSUME talloc_enable_null_tracking
       PROVE  Step(heap, heap')
    BY <1>11, <1>u, NullTrackingStep DEF talloc_enable_null_tracking
<1>12. ASSUME talloc_init
       PROVE  Step(heap, heap')
  <2>1. PICK c \in Unused :
            \/ Named(heap, NULL, c)
            \/ \E t \in Unused \ {c} : Named(NullTracking(heap, t), NULL, c)
    BY <1>12 DEF talloc_init
  <2>2. CASE Named(heap, NULL, c)
    BY <1>n, <1>u, <2>2, NamedStep
  <2>3. ASSUME NEW t \in Unused \ {c}, Named(NullTracking(heap, t), NULL, c)
        PROVE  Step(heap, heap')
    <3> DEFINE K == NullTracking(heap, t)
    <3>1. Step(heap, K) /\ Live(K) = Live(heap) \cup {t}
        BY <1>u, NullTrackingStep
    <3>2. Named(K, NULL, c)
        BY <2>3
    <3> HIDE DEF K
    <3>3. K \in Heaps /\ c \in Chunks \ Live(K)
        BY <1>u, <3>1 DEF Step
    <3>4. Usable(K, NULL)
        BY <3>3, ContextFacts DEF Usable, Contexts
    <3>5. Step(K, heap')
        BY <3>2, <3>3, <3>4, NamedStep
    <3> QED BY <3>1, <3>5, StepTwice
  <2> QED BY <2>1, <2>2, <2>3
<1>13. ASSUME talloc_disable_null_tracking
       PROVE  Step(heap, heap')
    BY <1>13, DisableStep DEF talloc_disable_null_tracking
<1> QED BY <1>1, <1>2, <1>3, <1>4, <1>5, <1>6, <1>7, <1>8, <1>9, <1>10, <1>11, <1>12, <1>13
        DEF Next

\* As long as no call made an access to freed memory, a store to a pool without its
\* lock or more calls than the bound, the heap between two calls is sound, for every
\* number of chunks, every pattern of use and every destructor.
THEOREM TallocInvariant == Spec => []Inv
<1>1. Init => Inv
    BY EmptyGood DEF Init, Inv
<1>2. Inv /\ [Next]_heap => Inv'
  <2>1. ASSUME Inv, Next PROVE Inv'
    BY <2>1, NextStep DEF Inv, Step
  <2>2. ASSUME Inv, UNCHANGED heap PROVE Inv'
    BY <2>2 DEF Inv
  <2> QED BY <2>1, <2>2
<1> QED BY <1>1, <1>2, PTL DEF Spec

\* Between two calls nothing is marked as being freed, no destructor is marked as
\* running, and the lock of the pool has been given back, however the calls nested
\* (talloc.c:500 and 507 refuse what is still marked).
THEOREM TallocTypes == Spec => [](heap.fault = "none" => TypeOK)
<1>1. Inv => (heap.fault = "none" => TypeOK)
    BY DEF Inv, Good, TypeOK
<1> QED BY <1>1, TallocInvariant, PTL

\* The lists of siblings and of references are linked both ways, the first sibling and
\* no other knows the parent, and handles and their chunks agree, after every call.
THEOREM TallocLists == Spec => [](heap.fault = "none" => ListsSound)
<1>1. Inv => (heap.fault = "none" => ListsSound)
    BY DEF Inv, Good, ListsSound
<1> QED BY <1>1, TallocInvariant, PTL

\* A call of talloc_free in this heap ends well.
FreesEndWell == \A p \in Users(heap) : Free(lock(heap, p), p).heap.fault = "none"

\* talloc.c:818, "return 0 if the memory is actually freed, otherwise -1": so it does,
\* also when references are dropped and destructors call talloc_free again, in every
\* heap from which the call makes no fault.
THEOREM TallocFreeResult == Spec => [](heap.fault = "none" /\ FreesEndWell => FreeResult)
<1>1. ASSUME Inv, heap.fault = "none", FreesEndWell PROVE FreeResult
  <2> SUFFICES ASSUME NEW p \in Users(heap)
               PROVE  LET f == Free(lock(heap, p), p) IN f.ret = 0 <=> f.heap.mem[p].free
    BY DEF FreeResult
  <2> DEFINE B == lock(heap, p)
             f == Free(B, p)
  <2>1. heap \in Heaps /\ Good(heap) /\ p \in Chunks /\ p \in Pointers /\ p # heap.null_context
    BY <1>1 DEF Inv, Users, Live, Pointers
  <2>2. SameChunks(heap, B)
    BY <2>1, LockSame
  <2>3. f.heap.fault = "none"
    BY <1>1 DEF FreesEndWell
  <2> HIDE DEF B
  <2>4. B \in Heaps /\ Idle(B)
    BY <2>1, <2>2, SameGood, GoodIdle DEF SameChunks
  <2>5. FreeGives(B, p, f)
    BY <2>1, <2>4, FreeSound
  <2> HIDE DEF f
  <2>6. f.ret \in {0, -1} /\ f.heap \in Heaps /\ Outcome(B, p, f) /\ Loose(B) = {}
    BY <2>3, <2>4, <2>5 DEF FreeGives, Idle
  <2>7. f.ret = 0 <=> p \notin Live(f.heap)
    BY <2>6 DEF Outcome
  <2>8. f.ret = 0 <=> f.heap.mem[p].free
    BY <2>1, <2>7 DEF Live
  <2> QED BY <2>8 DEF f, B
<1>2. Inv => (heap.fault = "none" /\ FreesEndWell => FreeResult)
    BY <1>1
<1> QED BY <1>2, TallocInvariant, PTL

==============================================================================
