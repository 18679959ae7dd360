-------------------------- MODULE TallocHeapProofs ---------------------------
(***************************************************************************)
(* What each function of ccan/talloc that links or unlinks a chunk does to *)
(* the lists, for every heap.                                              *)
(*                                                                         *)
(* A function is followed store by store twice. In any heap, sound or not, *)
(* it writes links only and forgets no fault (Mild). In a sound one it     *)
(* writes what a list needs: the operators Left, Joined, Alone, Hung and   *)
(* Unhung say which links differ afterwards, whatever the order of the     *)
(* stores was, and each has a lemma that the lists are sound again, a      *)
(* lemma about ways up, and one about handles (Plain).                     *)
(*                                                                         *)
(* S is the set of the chunks that are in their lists: while _talloc_free  *)
(* works, some are not. Good(H), the invariant between two calls, has them *)
(* all in place.                                                           *)
(***************************************************************************)
EXTENDS TallocHeap, TLAPS

PointerFields == {"next", "prev", "parent", "child", "refs", "hnext", "hprev", "ptr"}

\* From H to G no chunk was allocated, marked or freed, and a fault is not forgotten.
Mild(H, G) ==
    /\ G \in Heaps
    /\ G.null_context = H.null_context
    /\ G.locked = H.locked
    /\ \A x \in Chunks : /\ G.mem[x].free = H.mem[x].free
                         /\ G.mem[x].loop = H.mem[x].loop
                         /\ G.mem[x].destructor = H.mem[x].destructor
    /\ G.fault = "none" => H.fault = "none"

\* Moreover no chunk was accessed that is free.
Quiet(H, G) ==
    /\ Mild(H, G)
    /\ G.fault = "use after free" => H.fault = "use after free"

\* From H to G field f of c became v, and no other link changed.
Wrote(H, G, c, f, v) ==
    \A x \in Chunks, g \in PointerFields :
        G.mem[x][g] = IF x = c /\ g = f THEN v ELSE H.mem[x][g]

\* The fields of a record that another field was stored to.
LEMMA RecordSet ==
    ASSUME NEW t \in ChunkRecords, NEW f \in PointerFields, NEW v \in Pointers
    PROVE  /\ [t EXCEPT ![f] = v] \in ChunkRecords
           /\ \A g \in PointerFields : [t EXCEPT ![f] = v][g] = IF g = f THEN v ELSE t[g]
           /\ [t EXCEPT ![f] = v].free = t.free
           /\ [t EXCEPT ![f] = v].loop = t.loop
           /\ [t EXCEPT ![f] = v].destructor = t.destructor
<1>1. CASE f = "next"
    BY <1>1 DEF ChunkRecords, PointerFields
<1>2. CASE f = "prev"
    BY <1>2 DEF ChunkRecords, PointerFields
<1>3. CASE f = "parent"
    BY <1>3 DEF ChunkRecords, PointerFields
<1>4. CASE f = "child"
    BY <1>4 DEF ChunkRecords, PointerFields
<1>5. CASE f = "refs"
    BY <1>5 DEF ChunkRecords, PointerFields
<1>6. CASE f = "hnext"
    BY <1>6 DEF ChunkRecords, PointerFields
<1>7. CASE f = "hprev"
    BY <1>7 DEF ChunkRecords, PointerFields
<1>8. CASE f = "ptr"
    BY <1>8 DEF ChunkRecords, PointerFields
<1> QED BY <1>1, <1>2, <1>3, <1>4, <1>5, <1>6, <1>7, <1>8 DEF PointerFields

\* Touch and Guard change the fault only.
LEMMA GuardHeap ==
    ASSUME NEW H \in Heaps, NEW c \in Chunks
    PROVE  LET G == Guard(Touch(H, c), c)
           IN  /\ G \in Heaps
               /\ G.mem = H.mem
               /\ G.null_context = H.null_context /\ G.locked = H.locked
               /\ G.fault = "none" => H.fault = "none" /\ c \in Live(H)
               /\ c \in Live(H) /\ G.fault = "use after free" => H.fault = "use after free"
<1> DEFINE K == Touch(H, c)
<1>1. /\ K \in Heaps
      /\ K.mem = H.mem
      /\ K.null_context = H.null_context /\ K.locked = H.locked
      /\ K.fault = "none" => H.fault = "none" /\ ~H.mem[c].free
      /\ ~H.mem[c].free => K.fault = H.fault
  <2>1. CASE H.fault = "none" /\ H.mem[c].free
    BY <2>1 DEF Touch, Heaps, Faults
  <2>2. CASE ~(H.fault = "none" /\ H.mem[c].free)
    <3>1. K = H
        BY <2>2, Zenon DEF Touch
    <3> QED BY <3>1, <2>2
  <2> QED BY <2>1, <2>2
<1> HIDE DEF K
<1>2. LET G == Guard(K, c)
      IN  /\ G \in Heaps
          /\ G.mem = K.mem
          /\ G.null_context = K.null_context /\ G.locked = K.locked
          /\ G.fault = "none" => K.fault = "none"
          /\ G.fault = "use after free" => K.fault = "use after free"
  <2>1. CASE K.fault = "none" /\ K.mem[c].ext /\ ~K.locked
    BY <2>1, <1>1 DEF Guard, Heaps, Faults
  <2>2. CASE ~(K.fault = "none" /\ K.mem[c].ext /\ ~K.locked)
    <3>1. Guard(K, c) = K
        BY <2>2, Zenon DEF Guard
    <3> QED BY <3>1, <1>1
  <2> QED BY <2>1, <2>2
<1>3. c \in Live(H) <=> ~H.mem[c].free
    BY DEF Live
<1> QED BY <1>1, <1>2, <1>3 DEF K

\* A store to a link.
LEMMA SetMild ==
    ASSUME NEW H \in Heaps, NEW c \in Chunks, NEW f \in PointerFields, NEW v \in Pointers
    PROVE  LET G == Set(H, c, f, v)
           IN  /\ Mild(H, G)
               /\ Wrote(H, G, c, f, v)
               /\ G.fault = "none" => c \in Live(H)
               /\ c \in Live(H) => Quiet(H, G)
<1> DEFINE G == Guard(Touch(H, c), c)
           t == H.mem[c]
           u == [t EXCEPT ![f] = v]
           m == [H.mem EXCEPT ![c] = u]
<1>1. /\ G \in Heaps
      /\ G.mem = H.mem
      /\ G.null_context = H.null_context /\ G.locked = H.locked
      /\ G.fault = "none" => H.fault = "none" /\ c \in Live(H)
      /\ c \in Live(H) /\ G.fault = "use after free" => H.fault = "use after free"
    BY GuardHeap
<1>2. H.mem \in [Chunks -> ChunkRecords] /\ t \in ChunkRecords
    BY DEF Heaps
<1>3. /\ u \in ChunkRecords
      /\ \A g \in PointerFields : u[g] = IF g = f THEN v ELSE t[g]
      /\ u.free = t.free
      /\ u.loop = t.loop
      /\ u.destructor = t.destructor
    BY <1>2, RecordSet
<1>4. Set(H, c, f, v) = [G EXCEPT !.mem = m]
    BY <1>1 DEF Set
<1>5. m \in [Chunks -> ChunkRecords]
    BY <1>2, <1>3
<1>6. [G EXCEPT !.mem = m] \in Heaps
    BY <1>1, <1>5 DEF Heaps
<1>7. /\ Set(H, c, f, v) \in Heaps
      /\ Set(H, c, f, v).mem = m
      /\ Set(H, c, f, v).null_context = G.null_context
      /\ Set(H, c, f, v).locked = G.locked
      /\ Set(H, c, f, v).fault = G.fault
    BY <1>1, <1>4, <1>5, <1>6 DEF Heaps
<1>8. \A x \in Chunks : m[x] = IF x = c THEN u ELSE H.mem[x]
    BY <1>2
<1> HIDE DEF G, u, m
<1>9. \A x \in Chunks : /\ m[x].free = H.mem[x].free
                        /\ m[x].loop = H.mem[x].loop
                        /\ m[x].destructor = H.mem[x].destructor
    BY <1>8, <1>3
<1>10. Mild(H, Set(H, c, f, v))
    BY <1>1, <1>7, <1>9 DEF Mild
<1>11. \A x \in Chunks, g \in PointerFields : m[x][g] = IF x = c /\ g = f THEN v ELSE H.mem[x][g]
    BY <1>8, <1>3
<1> QED BY <1>10, <1>11, <1>7, <1>1 DEF Wrote, Quiet

\* Set of a link of an allocated chunk writes it, and may find the pool unlocked.
LEMMA SetLink ==
    ASSUME NEW H \in Heaps, NEW c \in Live(H), NEW f \in PointerFields, NEW v \in Pointers
    PROVE  Quiet(H, Set(H, c, f, v)) /\ Wrote(H, Set(H, c, f, v), c, f, v)
<1>1. c \in Chunks
    BY DEF Live
<1> QED BY <1>1, SetMild

\* A store to a link, if there is something to store to.
LEMMA StoreLink ==
    ASSUME NEW H \in Heaps, NEW c \in Live(H) \cup {NULL}, NEW f \in PointerFields,
           NEW v \in Pointers
    PROVE  Quiet(H, Store(H, c, f, v)) /\ Wrote(H, Store(H, c, f, v), c, f, v)
<1>1. CASE c = NULL
    BY <1>1, NullAssumption DEF Store, Quiet, Mild, Wrote
<1>2. CASE c # NULL
    BY <1>2, SetLink DEF Store
<1> QED BY <1>1, <1>2


-----------------------------------------------------------------------------
(* The two lists. *)

\* Quiet steps add up.
LEMMA QuietTwice ==
    ASSUME NEW H, NEW G, NEW K, Quiet(H, G), Quiet(G, K)
    PROVE  Quiet(H, K)
BY DEF Quiet, Mild

\* What is live stays live.
LEMMA QuietLive ==
    ASSUME NEW H \in Heaps, NEW G, Quiet(H, G)
    PROVE  Live(G) = Live(H) /\ G \in Heaps
BY DEF Quiet, Mild, Live

\* Every link of a heap is a pointer.
LEMMA LinkType ==
    ASSUME NEW H \in Heaps, NEW x \in Chunks, NEW g \in PointerFields
    PROVE  H.mem[x][g] \in Pointers
BY DEF Heaps, ChunkRecords, PointerFields

ListKinds == {Siblings, References}

\* The fields of the two kinds of lists are links, and differ.
LEMMA KindFields ==
    ASSUME NEW L \in ListKinds
    PROVE  /\ {L.head, L.next, L.prev} \subseteq PointerFields
           /\ L.head # L.next /\ L.head # L.prev /\ L.next # L.prev
BY DEF ListKinds, Siblings, References, PointerFields

\* What _TLIST_ADD stores.
LEMMA ListAdd ==
    ASSUME NEW H \in Heaps, NEW L \in ListKinds, NEW o \in Live(H), NEW p \in Live(H),
           H.mem[o][L.head] \in Live(H) \cup {NULL}
    PROVE  LET G == TLIST_ADD(H, L, o, p)
               first == H.mem[o][L.head]
           IN  /\ Quiet(H, G)
               /\ \A x \in Chunks, g \in PointerFields :
                    G.mem[x][g] =
                        CASE g = L.head /\ x = o -> p
                          [] g = L.next /\ x = p -> first
                          [] g = L.prev /\ x = p -> NULL
                          [] g = L.prev /\ x = first /\ x # p -> p
                          [] OTHER -> H.mem[x][g]
<1> DEFINE first == H.mem[o][L.head]
           H1 == Store(H, first, L.prev, p)
           H2 == Set(H1, p, L.next, first)
           H3 == Set(H2, p, L.prev, NULL)
           G == Set(H3, o, L.head, p)
<1>0. /\ Live(H) \subseteq Chunks
      /\ {o, p} \subseteq Chunks
      /\ first \in Pointers
      /\ p \in Pointers
      /\ NULL \in Pointers
      /\ NULL \notin Chunks
    BY NullAssumption DEF Live, Pointers
<1>k. /\ {L.head, L.next, L.prev} \subseteq PointerFields
      /\ L.head # L.next /\ L.head # L.prev /\ L.next # L.prev
    BY KindFields
<1> HIDE DEF first
<1>1. Quiet(H, H1) /\ Wrote(H, H1, first, L.prev, p)
    BY <1>0, <1>k, StoreLink DEF first
<1>2. Live(H1) = Live(H) /\ H1 \in Heaps
    BY <1>1, QuietLive
<1> HIDE DEF H1
<1>3. Quiet(H1, H2) /\ Wrote(H1, H2, p, L.next, first)
    BY <1>0, <1>2, <1>k, SetLink
<1>4. Live(H2) = Live(H) /\ H2 \in Heaps
    BY <1>3, <1>2, QuietLive
<1> HIDE DEF H2
<1>5. Quiet(H2, H3) /\ Wrote(H2, H3, p, L.prev, NULL)
    BY <1>0, <1>4, <1>k, SetLink
<1>6. Live(H3) = Live(H) /\ H3 \in Heaps
    BY <1>5, <1>4, QuietLive
<1> HIDE DEF H3
<1>7. Quiet(H3, G) /\ Wrote(H3, G, o, L.head, p)
    BY <1>0, <1>6, <1>k, SetLink
<1> HIDE DEF G
<1>8. Quiet(H, G)
    BY <1>1, <1>3, <1>5, <1>7, QuietTwice
<1>9. ASSUME NEW x \in Chunks, NEW g \in PointerFields
      PROVE  G.mem[x][g] =
                        CASE g = L.head /\ x = o -> p
                          [] g = L.next /\ x = p -> first
                          [] g = L.prev /\ x = p -> NULL
                          [] g = L.prev /\ x = first /\ x # p -> p
                          [] OTHER -> H.mem[x][g]
    BY <1>0, <1>k, <1>1, <1>3, <1>5, <1>7 DEF Wrote
<1>10. G = TLIST_ADD(H, L, o, p)
    BY DEF G, H3, H2, H1, first, TLIST_ADD
<1> QED BY <1>8, <1>9, <1>10 DEF first

\* What closing the gap stores.
LEMMA ListClose ==
    ASSUME NEW H \in Heaps, NEW L \in ListKinds, NEW p \in Live(H),
           {H.mem[p][L.next], H.mem[p][L.prev]} \subseteq Live(H) \cup {NULL}
    PROVE  LET G == Close(H, L, p)
               next == H.mem[p][L.next]
               prev == H.mem[p][L.prev]
           IN  /\ Quiet(H, G)
               /\ \A x \in Chunks, g \in PointerFields :
                    G.mem[x][g] =
                        CASE g = L.next /\ x = prev -> next
                          [] g = L.prev /\ x = next -> prev
                          [] OTHER -> H.mem[x][g]
<1> DEFINE next == H.mem[p][L.next]
           prev == H.mem[p][L.prev]
           H1 == Store(H, prev, L.next, next)
           G == Store(H1, next, L.prev, prev)
<1>0. next \in Pointers /\ prev \in Pointers /\ {next, prev} \subseteq Live(H) \cup {NULL}
    BY DEF Live, Pointers
<1>k. /\ {L.head, L.next, L.prev} \subseteq PointerFields
      /\ L.head # L.next /\ L.head # L.prev /\ L.next # L.prev
    BY KindFields
<1> HIDE DEF next, prev
<1>1. Quiet(H, H1) /\ Wrote(H, H1, prev, L.next, next)
    BY <1>0, <1>k, StoreLink
<1>2. Live(H1) = Live(H) /\ H1 \in Heaps
    BY <1>1, QuietLive
<1> HIDE DEF H1
<1>3. Quiet(H1, G) /\ Wrote(H1, G, next, L.prev, prev)
    BY <1>0, <1>2, <1>k, StoreLink
<1> HIDE DEF G
<1>8. Quiet(H, G)
    BY <1>1, <1>3, QuietTwice
<1>9. ASSUME NEW x \in Chunks, NEW g \in PointerFields
      PROVE  G.mem[x][g] =
                        CASE g = L.next /\ x = prev -> next
                          [] g = L.prev /\ x = next -> prev
                          [] OTHER -> H.mem[x][g]
    BY <1>k, <1>1, <1>3 DEF Wrote
<1>10. G = Close(H, L, p)
    BY DEF G, H1, next, prev, Close
<1> QED BY <1>8, <1>9, <1>10 DEF next, prev

\* What _TLIST_REMOVE stores.
LEMMA ListRemove ==
    ASSUME NEW H \in Heaps, NEW L \in ListKinds, NEW o \in Live(H), NEW p \in Live(H),
           {H.mem[p][L.next], H.mem[p][L.prev]} \subseteq Live(H) \cup {NULL},
           H.mem[o][L.head] = p <=> H.mem[p][L.prev] = NULL
    PROVE  LET G == TLIST_REMOVE(H, L, o, p)
               next == H.mem[p][L.next]
               prev == H.mem[p][L.prev]
           IN  /\ Quiet(H, G)
               /\ \A x \in Chunks, g \in PointerFields :
                    G.mem[x][g] =
                        CASE g = L.head /\ x = o /\ prev = NULL -> next
                          [] g \in {L.next, L.prev} /\ x = p -> NULL
                          [] g = L.next /\ x = prev /\ x # p -> next
                          [] g = L.prev /\ x = next /\ x # p -> prev
                          [] OTHER -> H.mem[x][g]
<1> DEFINE next == H.mem[p][L.next]
           prev == H.mem[p][L.prev]
           K == Set(H, o, L.head, next)
           H1 == IF H.mem[o][L.head] = p THEN Store(K, next, L.prev, NULL) ELSE Close(H, L, p)
           H2 == Set(H1, p, L.next, NULL)
           G == Set(H2, p, L.prev, NULL)
<1>0. /\ {o, p} \subseteq Chunks
      /\ next \in Pointers /\ prev \in Pointers /\ {next, prev} \subseteq Live(H) \cup {NULL}
      /\ NULL \in Pointers
      /\ NULL \notin Chunks
      /\ H.mem[o][L.head] = p <=> prev = NULL
    BY NullAssumption DEF Live, Pointers
<1>k. /\ {L.head, L.next, L.prev} \subseteq PointerFields
      /\ L.head # L.next /\ L.head # L.prev /\ L.next # L.prev
    BY KindFields
<1>1. /\ Quiet(H, H1)
      /\ \A x \in Chunks, g \in PointerFields :
            H1.mem[x][g] = CASE g = L.head /\ x = o /\ prev = NULL -> next
                            [] g = L.next /\ x = prev -> next
                            [] g = L.prev /\ x = next -> prev
                            [] OTHER -> H.mem[x][g]
  <2>1. CASE prev = NULL
    <3> HIDE DEF next, prev
    <3>1. Quiet(H, K) /\ Wrote(H, K, o, L.head, next)
        BY <1>0, <1>k, SetLink
    <3>2. Live(K) = Live(H) /\ K \in Heaps
        BY <3>1, QuietLive
    <3> HIDE DEF K
    <3>3. Quiet(K, Store(K, next, L.prev, NULL))
          /\ Wrote(K, Store(K, next, L.prev, NULL), next, L.prev, NULL)
        BY <1>0, <3>2, <1>k, StoreLink
    <3>4. H1 = Store(K, next, L.prev, NULL)
        BY <2>1, <1>0
    <3> HIDE DEF H1
    <3>5. Quiet(H, H1)
        BY <3>1, <3>3, <3>4, QuietTwice
    <3>6. ASSUME NEW x \in Chunks, NEW g \in PointerFields
          PROVE H1.mem[x][g] = CASE g = L.head /\ x = o /\ prev = NULL -> next
                                [] g = L.next /\ x = prev -> next
                                [] g = L.prev /\ x = next -> prev
                                [] OTHER -> H.mem[x][g]
        BY <2>1, <1>0, <1>k, <3>1, <3>3, <3>4 DEF Wrote
    <3> QED BY <3>5, <3>6
  <2>2. CASE prev # NULL
    <3>1. H1 = Close(H, L, p)
        BY <2>2, <1>0
    <3>2. /\ Quiet(H, H1)
          /\ \A x \in Chunks, g \in PointerFields :
            H1.mem[x][g] = CASE g = L.next /\ x = prev -> next
                            [] g = L.prev /\ x = next -> prev
                            [] OTHER -> H.mem[x][g]
        BY <3>1, ListClose
    <3> HIDE DEF H1, next, prev
    <3> QED BY <2>2, <3>2
  <2> QED BY <2>1, <2>2
<1>2. Live(H1) = Live(H) /\ H1 \in Heaps
    BY <1>1, QuietLive
<1> HIDE DEF H1, next, prev
<1>3. Quiet(H1, H2) /\ Wrote(H1, H2, p, L.next, NULL)
    BY <1>0, <1>2, <1>k, SetLink
<1>4. Live(H2) = Live(H) /\ H2 \in Heaps
    BY <1>3, <1>2, QuietLive
<1> HIDE DEF H2
<1>5. Quiet(H2, G) /\ Wrote(H2, G, p, L.prev, NULL)
    BY <1>0, <1>4, <1>k, SetLink
<1> HIDE DEF G
<1>8. Quiet(H, G)
    BY <1>1, <1>3, <1>5, QuietTwice
<1>9. ASSUME NEW x \in Chunks, NEW g \in PointerFields
      PROVE  G.mem[x][g] =
                        CASE g = L.head /\ x = o /\ prev = NULL -> next
                          [] g \in {L.next, L.prev} /\ x = p -> NULL
                          [] g = L.next /\ x = prev /\ x # p -> next
                          [] g = L.prev /\ x = next /\ x # p -> prev
                          [] OTHER -> H.mem[x][g]
    BY <1>0, <1>k, <1>1, <1>3, <1>5 DEF Wrote
<1>10. G = TLIST_REMOVE(H, L, o, p)
    BY Zenon DEF G, H2, H1, K, next, prev, TLIST_REMOVE
<1> QED BY <1>8, <1>9, <1>10 DEF next, prev


-----------------------------------------------------------------------------
(* Leaving the list of siblings. *)

SiblingFields == {"next", "prev", "parent", "child"}

ReferenceFields == {"refs", "hnext", "hprev", "ptr"}

\* The links in the fields F are the same in H and G.
SameLinks(H, G, F) == \A x \in Chunks, g \in F : G.mem[x][g] = H.mem[x][g]

\* From H to G chunk c has left the list of its siblings.
Left(H, G, c) ==
    LET parent == H.mem[c].parent
        next == H.mem[c].next
        prev == H.mem[c].prev
    IN  \A x \in Chunks :
        /\ G.mem[x].child = IF x = parent THEN next ELSE H.mem[x].child
        /\ G.mem[x].parent =
            IF parent # NULL /\ x = next THEN parent ELSE H.mem[x].parent
        /\ G.mem[x].next =
            CASE x = prev /\ parent = NULL -> next
              [] x = c /\ parent # NULL -> NULL
              [] OTHER -> H.mem[x].next
        /\ G.mem[x].prev =
            CASE x = next /\ parent = NULL -> prev
              [] x \in {c, next} /\ parent # NULL -> NULL
              [] OTHER -> H.mem[x].prev

\* What SiblingsSound says about one chunk of a list.
LEMMA SiblingFacts ==
    ASSUME NEW H \in Heaps, NEW S \in SUBSET Live(H), SiblingsSound(H, S), NEW x \in S
    PROVE  /\ x \in Chunks
           /\ H.mem[x].next \in S \cup {NULL}
           /\ H.mem[x].prev \in S \cup {NULL}
           /\ H.mem[x].child \in S \cup {NULL}
           /\ H.mem[x].parent \in Live(H) \cup {NULL}
           /\ H.mem[x].parent # NULL => H.mem[x].prev = NULL /\ H.mem[H.mem[x].parent].child = x
           /\ H.mem[x].next # NULL => H.mem[H.mem[x].next].prev = x
           /\ H.mem[x].prev # NULL => H.mem[H.mem[x].prev].next = x
<1>1. x \in Live(H) /\ x \in Chunks
    BY DEF Live
<1> QED BY <1>1 DEF SiblingsSound, BothWays

\* Detach (talloc.c:432, 521) takes a chunk out of a sound list of siblings.
LEMMA DetachLeft ==
    ASSUME NEW H \in Heaps, NEW S \in SUBSET Live(H), SiblingsSound(H, S), NEW c \in S
    PROVE  LET G == Detach(H, c)
           IN  Quiet(H, G) /\ SameLinks(H, G, ReferenceFields) /\ Left(H, G, c)
<1> DEFINE parent == H.mem[c].parent
           next == H.mem[c].next
           prev == H.mem[c].prev
           H1 == TLIST_REMOVE(H, Siblings, parent, c)
           G == Detach(H, c)
<1>1. /\ c \in Live(H) /\ c \in Chunks
      /\ {next, prev} \subseteq Live(H) \cup {NULL}
      /\ parent \in Live(H) \cup {NULL}
      /\ parent # NULL => prev = NULL /\ H.mem[parent].child = c
      /\ next # NULL => H.mem[next].prev = c
      /\ NULL \notin Chunks
      /\ Live(H) \subseteq Chunks
    BY SiblingFacts, NullAssumption DEF Live
<1>k. /\ Siblings \in ListKinds /\ Siblings.head = "child" /\ Siblings.next = "next"
      /\ Siblings.prev = "prev"
    BY DEF Siblings, ListKinds
<1>2. CASE parent = NULL
  <2>1. G = Close(H, Siblings, c)
    BY <1>2 DEF Detach
  <2>2. /\ Quiet(H, G)
        /\ \A x \in Chunks, g \in PointerFields :
            G.mem[x][g] = CASE g = "next" /\ x = prev -> next
                            [] g = "prev" /\ x = next -> prev
                            [] OTHER -> H.mem[x][g]
    BY <2>1, <1>1, <1>k, ListClose
  <2> HIDE DEF G
  <2>3. SameLinks(H, G, ReferenceFields)
    BY <2>2 DEF SameLinks, ReferenceFields, PointerFields
  <2>4. \A x \in Chunks :
            /\ G.mem[x].child = H.mem[x].child
            /\ G.mem[x].parent = H.mem[x].parent
            /\ G.mem[x].next = IF x = prev THEN next ELSE H.mem[x].next
            /\ G.mem[x].prev = IF x = next THEN prev ELSE H.mem[x].prev
    BY <2>2 DEF PointerFields
  <2>5. Left(H, G, c)
    BY <2>4, <1>1, <1>2 DEF Left
  <2> QED BY <2>2, <2>3, <2>5 DEF G
<1>3. CASE parent # NULL
  <2>1. H.mem[parent].child = c /\ prev = NULL /\ parent \in Live(H)
    BY <1>1, <1>3
  <2>2. /\ Quiet(H, H1)
        /\ \A x \in Chunks, g \in PointerFields :
            H1.mem[x][g] = CASE g = "child" /\ x = parent /\ prev = NULL -> next
                             [] g \in {"next", "prev"} /\ x = c -> NULL
                             [] g = "next" /\ x = prev /\ x # c -> next
                             [] g = "prev" /\ x = next /\ x # c -> prev
                             [] OTHER -> H.mem[x][g]
    BY <2>1, <1>1, <1>k, ListRemove
  <2>3. G = Store(H1, H1.mem[parent].child, "parent", parent)
    BY <1>3 DEF Detach
  <2> HIDE DEF H1, G
  <2>4. Live(H1) = Live(H) /\ H1 \in Heaps
    BY <2>2, QuietLive
  <2>5. H1.mem[parent].child = next
    BY <2>1, <2>2, <1>1 DEF PointerFields
  <2>6. Quiet(H1, G) /\ Wrote(H1, G, next, "parent", parent)
    BY <2>3, <2>4, <2>5, <2>1, <1>1, StoreLink DEF PointerFields, Pointers
  <2>7. Quiet(H, G)
    BY <2>2, <2>6, QuietTwice
  <2>8. \A x \in Chunks, g \in PointerFields :
            G.mem[x][g] = CASE g = "child" /\ x = parent -> next
                            [] g = "parent" /\ x = next -> parent
                            [] g \in {"next", "prev"} /\ x = c -> NULL
                            [] g = "prev" /\ x = next /\ x # c -> NULL
                            [] OTHER -> H.mem[x][g]
    BY <2>2, <2>6, <2>1, <1>1 DEF Wrote
  <2>9. SameLinks(H, G, ReferenceFields)
    BY <2>8 DEF SameLinks, ReferenceFields, PointerFields
  <2>10. \A x \in Chunks :
            /\ G.mem[x].child = IF x = parent THEN next ELSE H.mem[x].child
            /\ G.mem[x].parent = IF x = next THEN parent ELSE H.mem[x].parent
            /\ G.mem[x].next = IF x = c THEN NULL ELSE H.mem[x].next
            /\ G.mem[x].prev = IF x \in {c, next} THEN NULL ELSE H.mem[x].prev
    BY <2>8 DEF PointerFields
  <2>11. Left(H, G, c)
    BY <2>10, <1>3 DEF Left
  <2> QED BY <2>7, <2>9, <2>11 DEF G
<1> QED BY <1>2, <1>3

\* The others are still linked.
LEMMA LeftSound ==
    ASSUME NEW H \in Heaps, NEW S \in SUBSET Live(H), SiblingsSound(H, S), NEW c \in S,
           NEW G, Quiet(H, G), Left(H, G, c)
    PROVE  SiblingsSound(G, S \ {c})
<1> DEFINE parent == H.mem[c].parent
           next == H.mem[c].next
           prev == H.mem[c].prev
           Q == S \ {c}
<1>1. Live(G) = Live(H) /\ Live(H) \subseteq Chunks /\ NULL \notin Chunks /\ NULL \notin S
    BY QuietLive, NullAssumption DEF Live
<1>c. /\ next \in S \cup {NULL}
      /\ prev \in S \cup {NULL}
      /\ parent \in Live(H) \cup {NULL}
      /\ parent # NULL => prev = NULL /\ H.mem[parent].child = c
      /\ next # NULL => H.mem[next].prev = c
      /\ prev # NULL => H.mem[prev].next = c
    BY SiblingFacts
<1>l. \A x \in Live(H) : H.mem[x].child \in S \cup {NULL}
                         /\ \A y \in S : H.mem[x].child = y <=> H.mem[y].parent = x
    BY DEF SiblingsSound, BothWays
<1>p. next # NULL => H.mem[next].parent = NULL
    BY <1>c, <1>1, SiblingFacts
<1>2. ASSUME NEW x \in Q
      PROVE  /\ G.mem[x].next \in Q \cup {NULL}
             /\ G.mem[x].prev \in Q \cup {NULL}
             /\ G.mem[x].parent \in Live(G) \cup {NULL}
             /\ G.mem[x].parent # NULL => G.mem[x].prev = NULL
  <2>1. /\ x \in Chunks
        /\ H.mem[x].next \in S \cup {NULL}
        /\ H.mem[x].prev \in S \cup {NULL}
        /\ H.mem[x].parent \in Live(H) \cup {NULL}
        /\ H.mem[x].parent # NULL => H.mem[x].prev = NULL
        /\ H.mem[x].next # NULL => H.mem[H.mem[x].next].prev = x
        /\ H.mem[x].prev # NULL => H.mem[H.mem[x].prev].next = x
    BY SiblingFacts
  <2>2. H.mem[x].next = c <=> x = prev
    BY <2>1, <1>c, <1>1
  <2>3. H.mem[x].prev = c <=> x = next
    BY <2>1, <1>c, <1>1
  <2> HIDE DEF parent, next, prev
  <2>4. /\ G.mem[x].parent =
            IF parent # NULL /\ x = next THEN parent ELSE H.mem[x].parent
        /\ G.mem[x].next = IF x = prev /\ parent = NULL THEN next ELSE H.mem[x].next
        /\ G.mem[x].prev =
            CASE x = next /\ parent = NULL -> prev
              [] x = next /\ parent # NULL -> NULL
              [] OTHER -> H.mem[x].prev
    BY <2>1 DEF Left, parent, next, prev
  <2>5. next = c <=> prev = c
    BY <1>c, <1>1 DEF next, prev
  <2>6. next = c => x # prev /\ x # next
    BY <2>5
  <2> QED BY <2>1, <2>2, <2>3, <2>4, <2>6, <1>c, <1>1, <1>p
<1>3. ASSUME NEW x \in Q, NEW y \in Q
      PROVE  BothWays(G, x, y, "next", "prev")
  <2>1. H.mem[x].next = y <=> H.mem[y].prev = x
    BY DEF SiblingsSound, BothWays
  <2>2. /\ x \in Chunks /\ y \in Chunks
        /\ H.mem[x].next = c <=> x = prev
        /\ H.mem[y].prev = c <=> y = next
    BY <1>c, <1>1, SiblingFacts
  <2> HIDE DEF parent, next, prev
  <2>3. /\ G.mem[x].next = IF x = prev /\ parent = NULL THEN next ELSE H.mem[x].next
        /\ G.mem[y].prev =
            CASE y = next /\ parent = NULL -> prev
              [] y = next /\ parent # NULL -> NULL
              [] OTHER -> H.mem[y].prev
    BY <2>2 DEF Left, parent, next, prev
  <2>4. G.mem[x].next = y <=> G.mem[y].prev = x
    BY <2>1, <2>2, <2>3, <1>c, <1>1
  <2> QED BY <2>4 DEF BothWays
<1>4. ASSUME NEW x \in Live(G)
      PROVE  G.mem[x].child \in Q \cup {NULL}
  <2>1. x \in Chunks /\ H.mem[x].child \in S \cup {NULL}
        /\ (H.mem[x].child = c <=> parent = x)
    BY <1>1, <1>l
  <2>2. next = c => parent # x
    BY <1>c, <2>1, <1>1
  <2> HIDE DEF parent, next, prev
  <2>3. G.mem[x].child = IF x = parent THEN next ELSE H.mem[x].child
    BY <2>1 DEF Left, parent, next, prev
  <2> QED BY <2>1, <2>2, <2>3, <1>c
<1>5. ASSUME NEW x \in Live(G), NEW y \in Q
      PROVE  BothWays(G, x, y, "child", "parent")
  <2>1. /\ x \in Chunks /\ y \in Chunks
        /\ H.mem[x].child = c <=> parent = x
        /\ H.mem[x].child = y <=> H.mem[y].parent = x
    BY <1>1, <1>l
  <2>2. parent # NULL => H.mem[parent].child # y
    BY <1>c
  <2>3. y = next => H.mem[y].parent = NULL
    BY <1>p, <1>1
  <2> HIDE DEF parent, next, prev
  <2>4. /\ G.mem[x].child = IF x = parent THEN next ELSE H.mem[x].child
        /\ G.mem[y].parent = IF parent # NULL /\ y = next THEN parent ELSE H.mem[y].parent
    BY <2>1 DEF Left, parent, next, prev
  <2>5. G.mem[x].child = y <=> G.mem[y].parent = x
    BY <2>1, <2>2, <2>3, <2>4, <1>1
  <2> QED BY <2>5 DEF BothWays
<1> QED BY <1>2, <1>3, <1>4, <1>5 DEF SiblingsSound

\* Nor does one of them come to hang below itself.
LEMMA LeftGrounded ==
    ASSUME NEW H \in Heaps, NEW S \in SUBSET Live(H), SiblingsSound(H, S), Grounded(H, S),
           NEW c \in S, NEW G, Quiet(H, G), Left(H, G, c)
    PROVE  Grounded(G, S \ {c})
<1> DEFINE parent == H.mem[c].parent
           next == H.mem[c].next
           prev == H.mem[c].prev
<1> SUFFICES ASSUME NEW T \in SUBSET (S \ {c}), T # {}, \A x \in T : Up(G, x) \in T
             PROVE  FALSE
    BY DEF Grounded
<1>1. S \subseteq Chunks /\ NULL \notin S
    BY NullAssumption DEF Live
<1>c. /\ next \in S \cup {NULL}
      /\ parent # NULL => prev = NULL
      /\ next # NULL => H.mem[next].prev = c
    BY SiblingFacts
<1>u. /\ \A x \in S : Up(H, x) = IF H.mem[x].prev = NULL THEN H.mem[x].parent ELSE H.mem[x].prev
      /\ \A x \in T : Up(G, x) = IF G.mem[x].prev = NULL THEN G.mem[x].parent ELSE G.mem[x].prev
    BY DEF Up
<1>g. \A x \in T :
        /\ G.mem[x].parent = IF parent # NULL /\ x = next THEN parent ELSE H.mem[x].parent
        /\ G.mem[x].prev = IF x = next THEN prev ELSE H.mem[x].prev
    BY <1>1, <1>c DEF Left
<1>n. next # NULL => H.mem[next].parent = NULL
    BY <1>c, <1>1, SiblingFacts
<1>2. \A x \in T : x # next => Up(H, x) = Up(G, x)
    BY <1>u, <1>g
<1>3. next \in T => Up(H, next) = c /\ Up(G, next) = Up(H, c)
  <2> SUFFICES ASSUME next \in T
               PROVE  Up(H, next) = c /\ Up(G, next) = Up(H, c)
    OBVIOUS
  <2>1. /\ H.mem[next].prev = c /\ H.mem[next].parent = NULL
        /\ G.mem[next].parent = IF parent # NULL THEN parent ELSE NULL
        /\ G.mem[next].prev = prev
    BY <1>1, <1>c, <1>n, <1>g
  <2> QED BY <2>1, <1>u, <1>1
<1>4. CASE next \in T
  <2> DEFINE U == T \cup {c}
  <2>1. \A x \in U : Up(H, x) \in U
    BY <1>2, <1>3, <1>4
  <2>2. U \in SUBSET S /\ U # {}
    OBVIOUS
  <2> QED BY <2>1, <2>2 DEF Grounded
<1>5. CASE next \notin T
  <2>1. T \in SUBSET S /\ \A x \in T : Up(H, x) \in T
    BY <1>5, <1>2
  <2> QED BY <2>1 DEF Grounded
<1> QED BY <1>4, <1>5

-----------------------------------------------------------------------------
(* Joining a list of siblings. *)

\* From H to G chunk c became the first child of parent.
Joined(H, G, c, parent) ==
    LET first == H.mem[parent].child
    IN  \A x \in Chunks :
        /\ G.mem[x].child = IF x = parent THEN c ELSE H.mem[x].child
        /\ G.mem[x].parent = CASE x = c -> parent
                               [] x = first /\ x # c -> NULL
                               [] OTHER -> H.mem[x].parent
        /\ G.mem[x].next = IF x = c THEN first ELSE H.mem[x].next
        /\ G.mem[x].prev = CASE x = c -> NULL
                             [] x = first /\ x # c -> c
                             [] OTHER -> H.mem[x].prev

\* From H to G chunk c hangs off nothing.
Alone(H, G, c) ==
    \A x \in Chunks :
        /\ G.mem[x].child = H.mem[x].child
        /\ G.mem[x].parent = IF x = c THEN NULL ELSE H.mem[x].parent
        /\ G.mem[x].next = IF x = c THEN NULL ELSE H.mem[x].next
        /\ G.mem[x].prev = IF x = c THEN NULL ELSE H.mem[x].prev

\* A chunk that left its list and forgot its links keeps the lists sound.
LEMMA AloneSound ==
    ASSUME NEW H \in Heaps, NEW S \in SUBSET Live(H), SiblingsSound(H, S),
           NEW c \in Live(H) \ S, NEW G, Quiet(H, G), Alone(H, G, c)
    PROVE  SiblingsSound(G, S \cup {c})
<1>1. /\ Live(G) = Live(H) /\ Live(H) \subseteq Chunks /\ NULL \notin Chunks /\ NULL \notin S
      /\ c \in Chunks /\ c # NULL
    BY QuietLive, NullAssumption DEF Live
<1>2. ASSUME NEW x \in S
      PROVE  /\ G.mem[x].next = H.mem[x].next /\ H.mem[x].next \in S \cup {NULL}
             /\ G.mem[x].prev = H.mem[x].prev /\ H.mem[x].prev \in S \cup {NULL}
             /\ G.mem[x].parent = H.mem[x].parent /\ H.mem[x].parent \in Live(H) \cup {NULL}
             /\ H.mem[x].parent # NULL => H.mem[x].prev = NULL
    BY <1>1, SiblingFacts DEF Alone
<1>3. G.mem[c].next = NULL /\ G.mem[c].prev = NULL /\ G.mem[c].parent = NULL
    BY <1>1 DEF Alone
<1>4. \A x, y \in S : H.mem[x].next = y <=> H.mem[y].prev = x
    BY DEF SiblingsSound, BothWays
<1>5. \A x, y \in S \cup {c} : G.mem[x].next = y <=> G.mem[y].prev = x
    BY <1>2, <1>3, <1>4, <1>1
<1>6. \A x \in Live(H) :
        /\ H.mem[x].child \in S \cup {NULL}
        /\ \A y \in S : H.mem[x].child = y <=> H.mem[y].parent = x
    BY DEF SiblingsSound, BothWays
<1>7. \A x \in Live(H) : G.mem[x].child = H.mem[x].child
    BY <1>1 DEF Alone
<1>8. \A x \in Live(H) :
        /\ G.mem[x].child \in S \cup {NULL}
        /\ \A y \in S \cup {c} : G.mem[x].child = y <=> G.mem[y].parent = x
    BY <1>6, <1>7, <1>1, <1>2, <1>3
<1> QED BY <1>1, <1>2, <1>3, <1>5, <1>8 DEF SiblingsSound, BothWays

\* A chunk in front of the children of its new parent keeps the lists sound.
LEMMA JoinedSound ==
    ASSUME NEW H \in Heaps, NEW S \in SUBSET Live(H), SiblingsSound(H, S),
           NEW c \in Live(H) \ S, NEW parent \in Live(H), parent # c,
           NEW G, Quiet(H, G), Joined(H, G, c, parent)
    PROVE  SiblingsSound(G, S \cup {c})
<1> DEFINE first == H.mem[parent].child
           Q == S \cup {c}
<1>1. /\ Live(G) = Live(H) /\ Live(H) \subseteq Chunks /\ NULL \notin Chunks /\ NULL \notin S
      /\ c \in Chunks /\ c # NULL /\ parent # NULL
    BY QuietLive, NullAssumption DEF Live
<1>l. \A x \in Live(H) :
        /\ H.mem[x].child \in S \cup {NULL}
        /\ \A y \in S : H.mem[x].child = y <=> H.mem[y].parent = x
    BY DEF SiblingsSound, BothWays
<1>f. /\ first \in S \cup {NULL}
      /\ first # c
      /\ first # NULL => H.mem[first].parent = parent /\ H.mem[first].prev = NULL
    BY <1>l, <1>1, SiblingFacts
<1>n. \A x, y \in S : H.mem[x].next = y <=> H.mem[y].prev = x
    BY DEF SiblingsSound, BothWays
<1>2. ASSUME NEW x \in S
      PROVE  /\ G.mem[x].next = H.mem[x].next /\ H.mem[x].next \in S \cup {NULL}
             /\ G.mem[x].prev = (IF x = first THEN c ELSE H.mem[x].prev)
             /\ H.mem[x].prev \in S \cup {NULL}
             /\ G.mem[x].parent = (IF x = first THEN NULL ELSE H.mem[x].parent)
             /\ H.mem[x].parent \in Live(H) \cup {NULL}
             /\ H.mem[x].parent # NULL => H.mem[x].prev = NULL
    BY <1>1, SiblingFacts DEF Joined
<1>3. G.mem[c].next = first /\ G.mem[c].prev = NULL /\ G.mem[c].parent = parent
    BY <1>1 DEF Joined
<1>4. \A x \in Live(H) : G.mem[x].child = IF x = parent THEN c ELSE H.mem[x].child
    BY <1>1 DEF Joined
<1> HIDE DEF first
<1>5. \A x \in Q : /\ G.mem[x].next \in Q \cup {NULL}
                   /\ G.mem[x].prev \in Q \cup {NULL}
                   /\ G.mem[x].parent \in Live(G) \cup {NULL}
                   /\ G.mem[x].parent # NULL => G.mem[x].prev = NULL
    BY <1>1, <1>2, <1>3, <1>f
<1>6. \A x, y \in Q : G.mem[x].next = y <=> G.mem[y].prev = x
    BY <1>1, <1>2, <1>3, <1>f, <1>n
<1>7. \A x \in Live(H) : G.mem[x].child \in Q \cup {NULL}
    BY <1>4, <1>l
<1>8. ASSUME NEW x \in Live(H), NEW y \in Q
      PROVE  G.mem[x].child = y <=> G.mem[y].parent = x
  <2>1. CASE y = c
    BY <2>1, <1>1, <1>3, <1>4, <1>l
  <2>2. CASE y # c
    <3>1. H.mem[x].child = y <=> H.mem[y].parent = x
        BY <1>l, <2>2
    <3>2. x = parent => (H.mem[x].child = y <=> y = first)
        BY DEF first
    <3> QED BY <3>1, <3>2, <2>2, <1>1, <1>2, <1>4, <1>f
  <2> QED BY <2>1, <2>2
<1> QED BY <1>1, <1>5, <1>6, <1>7, <1>8 DEF SiblingsSound, BothWays

\* D holds everything that hangs below c.
Beneath(H, c, D) ==
    /\ c \notin D
    /\ H.mem[c].child \in D \cup {NULL}
    /\ \A d \in D : H.mem[d].child \in D \cup {NULL} /\ H.mem[d].next \in D \cup {NULL}

\* A chunk that hangs off nothing keeps every way up ending.
LEMMA AloneGrounded ==
    ASSUME NEW H \in Heaps, NEW S \in SUBSET Live(H), SiblingsSound(H, S), Grounded(H, S),
           NEW c \in Live(H) \ S, NEW G, Quiet(H, G), Alone(H, G, c)
    PROVE  Grounded(G, S \cup {c})
<1> SUFFICES ASSUME NEW T \in SUBSET (S \cup {c}), T # {}, \A x \in T : Up(G, x) \in T
             PROVE  FALSE
    BY DEF Grounded
<1>1. S \subseteq Chunks /\ NULL \notin S /\ c \in Chunks /\ c # NULL
    BY NullAssumption DEF Live
<1>2. Up(G, c) = NULL
    BY <1>1 DEF Up, Alone
<1>3. T \in SUBSET S
    BY <1>1, <1>2
<1>4. \A x \in T : Up(H, x) = Up(G, x)
    BY <1>1, <1>3 DEF Up, Alone
<1> QED BY <1>3, <1>4 DEF Grounded

\* So does one that hangs below a chunk which is not below it.
LEMMA JoinedGrounded ==
    ASSUME NEW H \in Heaps, NEW S \in SUBSET Live(H), SiblingsSound(H, S), Grounded(H, S),
           NEW c \in Live(H) \ S, NEW parent \in Live(H), parent # c,
           NEW D \in SUBSET Chunks, Beneath(H, c, D), parent \notin D,
           NEW G, Quiet(H, G), Joined(H, G, c, parent)
    PROVE  Grounded(G, S \cup {c})
<1> SUFFICES ASSUME NEW T \in SUBSET (S \cup {c}), T # {}, \A x \in T : Up(G, x) \in T
             PROVE  FALSE
    BY DEF Grounded
<1> DEFINE first == H.mem[parent].child
<1>1. /\ S \subseteq Chunks /\ NULL \notin S /\ c \in Chunks /\ c # NULL
      /\ parent # NULL /\ parent \in Chunks
    BY NullAssumption DEF Live
<1>l. \A x \in Live(H) :
        /\ H.mem[x].child \in S \cup {NULL}
        /\ \A y \in S : H.mem[x].child = y <=> H.mem[y].parent = x
    BY DEF SiblingsSound, BothWays
<1>f. /\ first \in S \cup {NULL}
      /\ first # c
      /\ first # NULL => H.mem[first].parent = parent /\ H.mem[first].prev = NULL
    BY <1>l, <1>1, SiblingFacts
<1>2. Up(G, c) = parent
    BY <1>1 DEF Up, Joined
<1>3. \A x \in S : x # first => Up(G, x) = Up(H, x)
    BY <1>1 DEF Up, Joined
<1>4. first # NULL => Up(G, first) = c /\ Up(H, first) = parent
    BY <1>1, <1>f DEF Up, Joined
<1>5. CASE c \notin T
  <2>1. T \in SUBSET S
    BY <1>5
  <2>2. first \notin T
    BY <2>1, <1>1, <1>4, <1>5
  <2>3. \A x \in T : Up(H, x) \in T
    BY <2>1, <2>2, <1>3
  <2> QED BY <2>1, <2>3 DEF Grounded
<1>6. CASE c \in T
  <2> DEFINE U == T \ (D \cup {c})
  <2>1. parent \in U
    BY <1>6, <1>2
  <2>2. U \in SUBSET S /\ U # {}
    BY <2>1
  <2>3. ASSUME NEW x \in U
        PROVE  Up(H, x) \in U
    <3>1. CASE x = first
        BY <3>1, <2>1, <2>2, <1>1, <1>4
    <3>2. CASE x # first
      <4>1. Up(H, x) \in T
        BY <3>2, <2>2, <1>3
      <4>2. /\ x \in S
            /\ H.mem[x].prev \in S \cup {NULL}
            /\ H.mem[x].parent \in Live(H) \cup {NULL}
            /\ H.mem[x].prev # NULL => H.mem[H.mem[x].prev].next = x
            /\ H.mem[x].parent # NULL => H.mem[H.mem[x].parent].child = x
        BY <2>2, SiblingFacts
      <4>3. Up(H, x) # NULL
        BY <4>1, <1>1
      <4>4. CASE H.mem[x].prev # NULL
        <5>1. Up(H, x) = H.mem[x].prev
            BY <4>4 DEF Up
        <5>2. Up(H, x) # c
            BY <5>1, <4>2, <1>1
        <5>3. Up(H, x) \in D => x \in D \cup {NULL}
            BY <5>1, <4>2, <4>4 DEF Beneath
        <5> QED BY <4>1, <5>2, <5>3, <4>2, <1>1
      <4>5. CASE H.mem[x].prev = NULL
        <5>1. Up(H, x) = H.mem[x].parent
            BY <4>5 DEF Up
        <5>2. H.mem[Up(H, x)].child = x
            BY <5>1, <4>2, <4>3
        <5>3. Up(H, x) \in D \cup {c} => x \in D \cup {NULL}
            BY <5>2 DEF Beneath
        <5> QED BY <4>1, <5>3, <4>2, <1>1
      <4> QED BY <4>4, <4>5
    <3> QED BY <3>1, <3>2
  <2> QED BY <2>2, <2>3 DEF Grounded
<1> QED BY <1>5, <1>6

\* The links in the fields F are the same in all chunks of P.
SameIn(H, G, P, F) == \A x \in P, g \in F : G.mem[x][g] = H.mem[x][g]

\* The promises depend on their own fields only.
LEMMA SiblingsSame ==
    ASSUME NEW H, NEW G, NEW S \in SUBSET Live(H), Live(H) \subseteq Live(G), SiblingsSound(H, S),
           SameIn(H, G, Live(H), SiblingFields),
           \A x \in Live(G) \ Live(H) : G.mem[x].child = NULL
    PROVE  SiblingsSound(G, S)
<1>1. \A x \in Live(H) : /\ G.mem[x].next = H.mem[x].next
                         /\ G.mem[x].prev = H.mem[x].prev
                         /\ G.mem[x].parent = H.mem[x].parent
                         /\ G.mem[x].child = H.mem[x].child
    BY DEF SameIn, SiblingFields
<1>2. NULL \notin Live(H) /\ NULL \notin Live(G)
    BY NullAssumption DEF Live
<1>3. \A x \in S :
            /\ {G.mem[x].next, G.mem[x].prev} \subseteq S \cup {NULL}
            /\ G.mem[x].parent \in Live(H) \cup {NULL}
            /\ G.mem[x].parent # NULL => G.mem[x].prev = NULL
            /\ \A y \in S : G.mem[x].next = y <=> G.mem[y].prev = x
    BY <1>1 DEF SiblingsSound, BothWays
<1>4. \A x \in Live(H) :
            /\ G.mem[x].child \in S \cup {NULL}
            /\ \A y \in S : G.mem[x].child = y <=> G.mem[y].parent = x
    BY <1>1 DEF SiblingsSound, BothWays
<1>5. \A x \in Live(G) :
            /\ G.mem[x].child \in S \cup {NULL}
            /\ \A y \in S : G.mem[x].child = y <=> G.mem[y].parent = x
    BY <1>2, <1>3, <1>4
<1> QED BY <1>3, <1>5 DEF SiblingsSound, BothWays

\* Ways up depend on prev and parent only.
LEMMA GroundedSame ==
    ASSUME NEW H, NEW G, NEW S, Grounded(H, S), SameIn(H, G, S, SiblingFields)
    PROVE  Grounded(G, S)
<1>1. \A x \in S : Up(G, x) = Up(H, x)
    BY DEF Up, SameIn, SiblingFields
<1> SUFFICES ASSUME NEW T \in SUBSET S, T # {}
             PROVE  \E x \in T : Up(G, x) \notin T
    BY DEF Grounded
<1>2. PICK x \in T : Up(H, x) \notin T
    BY DEF Grounded
<1> QED BY <1>1, <1>2

\* Whether references are sound depends on their own fields only.
LEMMA ReferencesSame ==
    ASSUME NEW H, NEW G, NEW R, NULL \notin R, ReferencesSound(H, R), SameIn(H, G, R, ReferenceFields)
    PROVE  ReferencesSound(G, R)
<1>1. \A x \in R : /\ G.mem[x].refs = H.mem[x].refs
                   /\ G.mem[x].hnext = H.mem[x].hnext
                   /\ G.mem[x].hprev = H.mem[x].hprev
                   /\ G.mem[x].ptr = H.mem[x].ptr
    BY DEF SameIn, ReferenceFields
<1>2. \A x \in R :
            /\ {H.mem[x].refs, H.mem[x].ptr, H.mem[x].hnext, H.mem[x].hprev} \subseteq R \cup {NULL}
            /\ \A y \in R : H.mem[x].hnext = y <=> H.mem[y].hprev = x
            /\ H.mem[x].hnext # NULL => H.mem[H.mem[x].hnext].ptr = H.mem[x].ptr
            /\ H.mem[x].refs # NULL => H.mem[H.mem[x].refs].ptr = x
            /\ H.mem[x].ptr # NULL => (H.mem[x].hprev = NULL <=> H.mem[H.mem[x].ptr].refs = x)
            /\ H.mem[x].ptr = NULL => H.mem[x].hnext = NULL /\ H.mem[x].hprev = NULL
    BY DEF ReferencesSound, BothWays
<1>3. \A x \in R :
            /\ {G.mem[x].refs, G.mem[x].ptr, G.mem[x].hnext, G.mem[x].hprev} \subseteq R \cup {NULL}
            /\ \A y \in R : G.mem[x].hnext = y <=> G.mem[y].hprev = x
            /\ G.mem[x].hnext # NULL => G.mem[G.mem[x].hnext].ptr = G.mem[x].ptr
            /\ G.mem[x].refs # NULL => G.mem[G.mem[x].refs].ptr = x
            /\ G.mem[x].ptr # NULL => (G.mem[x].hprev = NULL <=> G.mem[G.mem[x].ptr].refs = x)
            /\ G.mem[x].ptr = NULL => G.mem[x].hnext = NULL /\ G.mem[x].hprev = NULL
    BY <1>1, <1>2
<1>4. ASSUME NEW T \in SUBSET R, T # {}
      PROVE  \E h \in T : G.mem[h].hprev \notin T
  <2>1. PICK h \in T : H.mem[h].hprev \notin T
    BY <1>4 DEF ReferencesSound
  <2> QED BY <2>1, <1>1
<1> QED BY <1>3, <1>4 DEF ReferencesSound, BothWays

-----------------------------------------------------------------------------
(* Moves. *)

\* What __talloc_steal stores to take a detached chunk into a list.
LEMMA StealJoined ==
    ASSUME NEW H \in Heaps, NEW new \in Live(H), NEW c \in Live(H), new # c,
           H.mem[new].child \in Live(H) \cup {NULL}, H.mem[new].child # c
    PROVE  LET H2 == Store(Set(H, c, "parent", new), H.mem[new].child, "parent", NULL)
               G == TLIST_ADD(H2, Siblings, new, c)
           IN  Quiet(H, G) /\ SameLinks(H, G, ReferenceFields) /\ Joined(H, G, c, new)
<1> DEFINE first == H.mem[new].child
           H1 == Set(H, c, "parent", new)
           H2 == Store(H1, first, "parent", NULL)
           G == TLIST_ADD(H2, Siblings, new, c)
<1>0. /\ Live(H) \subseteq Chunks /\ NULL \notin Chunks
      /\ {new, c} \subseteq Chunks /\ first \in Live(H) \cup {NULL}
      /\ new \in Pointers /\ NULL \in Pointers
    BY NullAssumption DEF Live, Pointers
<1>k. /\ Siblings \in ListKinds /\ Siblings.head = "child" /\ Siblings.next = "next"
      /\ Siblings.prev = "prev"
    BY DEF Siblings, ListKinds
<1>1. Quiet(H, H1) /\ Wrote(H, H1, c, "parent", new)
    BY <1>0, SetLink DEF PointerFields
<1>2. Live(H1) = Live(H) /\ H1 \in Heaps
    BY <1>1, QuietLive
<1> HIDE DEF H1, first
<1>3. Quiet(H1, H2) /\ Wrote(H1, H2, first, "parent", NULL)
    BY <1>0, <1>2, StoreLink DEF PointerFields
<1>4. Live(H2) = Live(H) /\ H2 \in Heaps
    BY <1>2, <1>3, QuietLive
<1> HIDE DEF H2
<1>5. H2.mem[new]["child"] = first
  <2>1. H1.mem[new]["child"] = first
    BY <1>0, <1>1 DEF Wrote, PointerFields, first
  <2> QED BY <1>0, <1>3, <2>1 DEF Wrote, PointerFields
<1>6. /\ Quiet(H2, G)
      /\ \A x \in Chunks, g \in PointerFields :
            G.mem[x][g] = CASE g = "child" /\ x = new -> c
                            [] g = "next" /\ x = c -> first
                            [] g = "prev" /\ x = c -> NULL
                            [] g = "prev" /\ x = first /\ x # c -> c
                            [] OTHER -> H2.mem[x][g]
    BY <1>0, <1>4, <1>5, <1>k, ListAdd
<1> HIDE DEF G
<1>7. Quiet(H, G)
    BY <1>1, <1>3, <1>6, QuietTwice
<1>8. \A x \in Chunks, g \in PointerFields :
            G.mem[x][g] = CASE g = "child" /\ x = new -> c
                            [] g = "next" /\ x = c -> first
                            [] g = "prev" /\ x = c -> NULL
                            [] g = "prev" /\ x = first /\ x # c -> c
                            [] g = "parent" /\ x = first /\ x # c -> NULL
                            [] g = "parent" /\ x = c -> new
                            [] OTHER -> H.mem[x][g]
    BY <1>1, <1>3, <1>6, <1>0 DEF Wrote, first
<1>9. SameLinks(H, G, ReferenceFields)
    BY <1>8 DEF SameLinks, ReferenceFields, PointerFields
<1>10. Joined(H, G, c, new)
    BY <1>8 DEF Joined, PointerFields, first
<1> QED BY <1>7, <1>9, <1>10 DEF G, H2, H1, first

\* What it stores if there is no list to take it into.
LEMMA StealAlone ==
    ASSUME NEW H \in Heaps, NEW c \in Live(H)
    PROVE  LET G == Set(Set(Set(H, c, "parent", NULL), c, "next", NULL), c, "prev", NULL)
           IN  Quiet(H, G) /\ SameLinks(H, G, ReferenceFields) /\ Alone(H, G, c)
<1> DEFINE H1 == Set(H, c, "parent", NULL)
           H2 == Set(H1, c, "next", NULL)
           G == Set(H2, c, "prev", NULL)
<1>0. c \in Chunks /\ NULL \in Pointers
    BY DEF Live, Pointers
<1>1. Quiet(H, H1) /\ Wrote(H, H1, c, "parent", NULL)
    BY <1>0, SetLink DEF PointerFields
<1>2. Live(H1) = Live(H) /\ H1 \in Heaps
    BY <1>1, QuietLive
<1> HIDE DEF H1
<1>3. Quiet(H1, H2) /\ Wrote(H1, H2, c, "next", NULL)
    BY <1>0, <1>2, SetLink DEF PointerFields
<1>4. Live(H2) = Live(H) /\ H2 \in Heaps
    BY <1>2, <1>3, QuietLive
<1> HIDE DEF H2
<1>5. Quiet(H2, G) /\ Wrote(H2, G, c, "prev", NULL)
    BY <1>0, <1>4, SetLink DEF PointerFields
<1> HIDE DEF G
<1>6. Quiet(H, G)
    BY <1>1, <1>3, <1>5, QuietTwice
<1>7. \A x \in Chunks, g \in PointerFields :
        G.mem[x][g] = IF x = c /\ g \in {"parent", "next", "prev"} THEN NULL ELSE H.mem[x][g]
    BY <1>1, <1>3, <1>5 DEF Wrote
<1>8. SameLinks(H, G, ReferenceFields)
    BY <1>7 DEF SameLinks, ReferenceFields, PointerFields
<1>9. Alone(H, G, c)
    BY <1>7 DEF Alone, PointerFields
<1> QED BY <1>6, <1>8, <1>9 DEF G, H2, H1

\* Everything below c is still below it when c has left its list.
LEMMA LeftBeneath ==
    ASSUME NEW H \in Heaps, NEW S \in SUBSET Live(H), SiblingsSound(H, S), NEW c \in S,
           NEW G, Left(H, G, c), NEW D \in SUBSET Chunks, Beneath(H, c, D)
    PROVE  Beneath(G, c, D)
<1>1. /\ c \in Chunks
      /\ c # NULL
      /\ H.mem[c].parent # NULL => H.mem[H.mem[c].parent].child = c
      /\ H.mem[c].prev # NULL => H.mem[H.mem[c].prev].next = c
    BY SiblingFacts, NullAssumption
<1>2. H.mem[c].parent \notin D /\ H.mem[c].prev \notin D
    BY <1>1, NullAssumption DEF Beneath
<1>3. \A d \in D : G.mem[d].child = H.mem[d].child /\ G.mem[d].next = H.mem[d].next
    BY <1>2 DEF Left, Beneath
<1>4. H.mem[c].parent = c => H.mem[c].child = c
    BY <1>1
<1>5. H.mem[c].parent # c
    BY <1>4, <1>1 DEF Beneath
<1>6. G.mem[c].child = H.mem[c].child
    BY <1>1, <1>5 DEF Left
<1> QED BY <1>3, <1>6 DEF Beneath

-----------------------------------------------------------------------------
(* Handles and the top. *)

\* A reference owns nothing, and neither it nor null_context hangs where a chunk of
\* the program may: handles have no children and no references of their own, no
\* chunk has a handle as parent, and null_context has no parent.
Plain(H) ==
    /\ \A x \in Live(H) : H.mem[x].ptr # NULL => H.mem[x].child = NULL /\ H.mem[x].refs = NULL
    /\ \A x \in Chunks : H.mem[x].parent # NULL => H.mem[H.mem[x].parent].ptr = NULL
    /\ H.null_context # NULL =>
        /\ H.mem[H.null_context].parent = NULL
        /\ H.mem[H.null_context].prev = NULL
        /\ H.mem[H.null_context].ptr = NULL

\* A free chunk does not point to a parent.
Vacant(H) == \A x \in Chunks \ Live(H) : H.mem[x].parent = NULL

\* Handles stay without children when a chunk leaves its list,
LEMMA LeftPlain ==
    ASSUME NEW H \in Heaps, NEW S \in SUBSET Live(H), SiblingsSound(H, S), NEW c \in S,
           NEW G, Quiet(H, G), Left(H, G, c), SameLinks(H, G, ReferenceFields)
    PROVE  /\ Plain(H) => Plain(G)
           /\ Vacant(H) => Vacant(G)
<1> DEFINE parent == H.mem[c].parent
           next == H.mem[c].next
<1>1. /\ Live(G) = Live(H) /\ Live(H) \subseteq Chunks /\ NULL \notin Chunks /\ c \in Chunks
      /\ S \subseteq Live(H) /\ G.null_context = H.null_context
    BY QuietLive, NullAssumption DEF Live, Quiet, Mild
<1>2. /\ next \in S \cup {NULL} /\ parent \in Live(H) \cup {NULL}
      /\ parent # NULL => H.mem[parent].child = c
      /\ next # NULL => H.mem[next].prev = c
    BY SiblingFacts
<1>3. \A x \in Chunks :
        /\ G.mem[x].child = IF x = parent THEN next ELSE H.mem[x].child
        /\ G.mem[x].parent = IF parent # NULL /\ x = next THEN parent ELSE H.mem[x].parent
        /\ x # next => G.mem[x].prev \in {H.mem[x].prev, NULL}
        /\ G.mem[x].ptr = H.mem[x].ptr
        /\ G.mem[x].refs = H.mem[x].refs
    BY DEF Left, SameLinks, ReferenceFields
<1> HIDE DEF parent, next
<1>4. ASSUME Plain(H) PROVE Plain(G)
  <2>1. \A x \in Live(G) : G.mem[x].ptr # NULL => G.mem[x].child = NULL /\ G.mem[x].refs = NULL
    BY <1>1, <1>2, <1>3, <1>4 DEF Plain
  <2>2. \A x \in Chunks : G.mem[x].parent # NULL => G.mem[G.mem[x].parent].ptr = NULL
    <3>1. \A x \in Chunks : H.mem[x].parent \in Pointers
        BY LinkType DEF PointerFields
    <3>2. parent = H.mem[c].parent
        BY DEF parent
    <3> QED BY <1>1, <1>2, <1>3, <1>4, <3>1, <3>2 DEF Plain, Pointers
  <2>3. ASSUME H.null_context # NULL
        PROVE  /\ G.mem[H.null_context].parent = NULL
               /\ G.mem[H.null_context].prev = NULL
               /\ G.mem[H.null_context].ptr = NULL
    <3>1. H.null_context \in Chunks
        BY <2>3 DEF Heaps, Pointers
    <3>2. next # H.null_context
        BY <2>3, <1>1, <1>2, <1>4 DEF Plain
    <3> QED BY <2>3, <3>1, <3>2, <1>3, <1>4 DEF Plain
  <2> QED BY <1>1, <2>1, <2>2, <2>3 DEF Plain
<1>5. ASSUME Vacant(H) PROVE Vacant(G)
    BY <1>1, <1>2, <1>3, <1>5 DEF Vacant
<1> QED BY <1>4, <1>5

\* when it joins another,
LEMMA JoinedPlain ==
    ASSUME NEW H \in Heaps, NEW S \in SUBSET Live(H), SiblingsSound(H, S),
           NEW c \in Live(H) \ S, NEW parent \in Live(H), parent # c,
           NEW G, Quiet(H, G), Joined(H, G, c, parent), SameLinks(H, G, ReferenceFields)
    PROVE  /\ Plain(H) /\ c # H.null_context /\ H.mem[parent].ptr = NULL => Plain(G)
           /\ Vacant(H) => Vacant(G)
<1> DEFINE first == H.mem[parent].child
<1>1. /\ Live(G) = Live(H) /\ Live(H) \subseteq Chunks /\ NULL \notin Chunks /\ c \in Chunks
      /\ S \subseteq Live(H) /\ G.null_context = H.null_context
    BY QuietLive, NullAssumption DEF Live, Quiet, Mild
<1>2. first \in S \cup {NULL} /\ (first # NULL => H.mem[first].parent = parent)
    BY DEF SiblingsSound, BothWays
<1>3. \A x \in Chunks :
        /\ G.mem[x].child = IF x = parent THEN c ELSE H.mem[x].child
        /\ G.mem[x].parent = CASE x = c -> parent
                               [] x = first /\ x # c -> NULL
                               [] OTHER -> H.mem[x].parent
        /\ x \notin {c, first} => G.mem[x].prev = H.mem[x].prev
        /\ G.mem[x].ptr = H.mem[x].ptr
        /\ G.mem[x].refs = H.mem[x].refs
    BY DEF Joined, SameLinks, ReferenceFields
<1> HIDE DEF first
<1>4. ASSUME Plain(H), c # H.null_context, H.mem[parent].ptr = NULL PROVE Plain(G)
  <2>1. \A x \in Live(G) : G.mem[x].ptr # NULL => G.mem[x].child = NULL /\ G.mem[x].refs = NULL
    BY <1>1, <1>3, <1>4 DEF Plain
  <2>2. \A x \in Chunks : G.mem[x].parent # NULL => G.mem[G.mem[x].parent].ptr = NULL
    <3>1. \A x \in Chunks : H.mem[x].parent \in Pointers
        BY LinkType DEF PointerFields
    <3> QED BY <1>1, <1>2, <1>3, <1>4, <3>1 DEF Plain, Pointers
  <2>3. ASSUME H.null_context # NULL
        PROVE  /\ G.mem[H.null_context].parent = NULL
               /\ G.mem[H.null_context].prev = NULL
               /\ G.mem[H.null_context].ptr = NULL
    <3>1. H.null_context \in Chunks
        BY <2>3 DEF Heaps, Pointers
    <3>2. first # H.null_context
        BY <2>3, <1>1, <1>2, <1>4 DEF Plain
    <3> QED BY <2>3, <3>1, <3>2, <1>3, <1>4 DEF Plain
  <2> QED BY <1>1, <2>1, <2>2, <2>3 DEF Plain
<1>5. ASSUME Vacant(H) PROVE Vacant(G)
    BY <1>1, <1>3, <1>5 DEF Vacant
<1> QED BY <1>4, <1>5

\* and when it hangs off nothing.
LEMMA AlonePlain ==
    ASSUME NEW H \in Heaps, NEW c \in Live(H),
           NEW G, Quiet(H, G), Alone(H, G, c), SameLinks(H, G, ReferenceFields)
    PROVE  /\ Plain(H) => Plain(G)
           /\ Vacant(H) => Vacant(G)
<1>1. /\ Live(G) = Live(H) /\ Live(H) \subseteq Chunks /\ NULL \notin Chunks /\ c \in Chunks
      /\ G.null_context = H.null_context
    BY QuietLive, NullAssumption DEF Live, Quiet, Mild
<1>2. \A x \in Chunks :
        /\ G.mem[x].child = H.mem[x].child
        /\ G.mem[x].parent \in {NULL, H.mem[x].parent} /\ H.mem[x].parent \in Pointers
        /\ G.mem[x].prev \in {NULL, H.mem[x].prev}
        /\ G.mem[x].ptr = H.mem[x].ptr
        /\ G.mem[x].refs = H.mem[x].refs
    BY LinkType DEF Alone, SameLinks, ReferenceFields, PointerFields
<1>3. H.null_context \in Pointers
    BY DEF Heaps
<1> QED BY <1>1, <1>2, <1>3 DEF Plain, Vacant, Pointers

\* talloc.c:417: __talloc_steal keeps the lists of siblings linked, wherever it
\* takes the chunk and however many chunks are being freed around it, changes no
\* reference and accesses nothing that is free. Taken to a context that is not
\* below it, the chunk does not come to hang below itself.
THEOREM StealSound ==
    ASSUME NEW H \in Heaps, NEW S \in SUBSET Live(H), SiblingsSound(H, S), NEW c \in S,
           NEW new_ctx, Context(H, new_ctx) \in Live(H) \cup {NULL}
    PROVE  LET G == Steal(H, new_ctx, c)
           IN  /\ Quiet(H, G)
               /\ SameLinks(H, G, ReferenceFields)
               /\ SiblingsSound(G, S)
               /\ \A D \in SUBSET Chunks :
                    Grounded(H, S) /\ Beneath(H, c, D) /\ Context(H, new_ctx) \notin D
                        => Grounded(G, S)
               /\ (/\ Plain(H) /\ c # H.null_context
                   /\ Context(H, new_ctx) # NULL => H.mem[Context(H, new_ctx)].ptr = NULL)
                        => Plain(G)
               /\ Vacant(H) => Vacant(G)
<1> DEFINE new == Context(H, new_ctx)
           H1 == Detach(H, c)
           G == Steal(H, new_ctx, c)
           Q == S \ {c}
<1>0. /\ Live(H) \subseteq Chunks /\ NULL \notin Chunks /\ NULL \notin Live(H)
      /\ c \in Chunks /\ c \in Live(H)
      /\ Q \cup {c} = S
      /\ new \in Live(H) \cup {NULL}
    BY NullAssumption DEF Live
<1>1. Quiet(H, H1) /\ SameLinks(H, H1, ReferenceFields) /\ Left(H, H1, c)
    BY DetachLeft
<1>2. Live(H1) = Live(H) /\ H1 \in Heaps
    BY <1>1, QuietLive
<1> HIDE DEF H1
<1>3. SiblingsSound(H1, Q)
    BY <1>1, LeftSound
<1>4. Grounded(H, S) => Grounded(H1, Q)
    BY <1>1, LeftGrounded
<1>5. c \in Live(H1) \ Q /\ Q \in SUBSET Live(H1)
    BY <1>0, <1>2
<1>9. /\ Plain(H) => Plain(H1)
      /\ Vacant(H) => Vacant(H1)
      /\ H1.null_context = H.null_context
      /\ \A x \in Chunks : H1.mem[x].ptr = H.mem[x].ptr
    BY <1>1, LeftPlain DEF Quiet, Mild, SameLinks, ReferenceFields
<1>6. CASE new = NULL
  <2>1. G = Set(Set(Set(H1, c, "parent", NULL), c, "next", NULL), c, "prev", NULL)
    BY <1>6 DEF Steal, H1
  <2>2. Quiet(H1, G) /\ SameLinks(H1, G, ReferenceFields) /\ Alone(H1, G, c)
    BY <2>1, <1>2, <1>5, StealAlone
  <2> HIDE DEF G
  <2>3. Quiet(H, G)
    BY <1>1, <2>2, QuietTwice
  <2>4. SameLinks(H, G, ReferenceFields)
    BY <1>1, <2>2 DEF SameLinks
  <2>5. SiblingsSound(G, Q \cup {c})
    BY <1>2, <1>3, <1>5, <2>2, AloneSound
  <2>6. Grounded(H, S) => Grounded(G, Q \cup {c})
    BY <1>2, <1>3, <1>4, <1>5, <2>2, AloneGrounded
  <2>7. (Plain(H) => Plain(G)) /\ (Vacant(H) => Vacant(G))
    BY <1>2, <1>5, <1>9, <2>2, AlonePlain
  <2> QED BY <2>3, <2>4, <2>5, <2>6, <2>7, <1>0 DEF G
<1>7. CASE new # NULL /\ (c = new \/ H.mem[c].parent = new)
  <2>1. G = H
    BY <1>7 DEF Steal
  <2> QED BY <2>1 DEF Quiet, Mild, SameLinks
<1>8. CASE new # NULL /\ ~(c = new \/ H.mem[c].parent = new)
  <2>1. G = TLIST_ADD(Store(Set(H1, c, "parent", new), H1.mem[new].child, "parent", NULL),
                      Siblings, new, c)
    BY <1>8 DEF Steal, H1
  <2>2. new \in Live(H1) /\ new # c
    BY <1>8, <1>0, <1>2
  <2>3. H1.mem[new].child \in Q \cup {NULL}
    BY <2>2, <1>3 DEF SiblingsSound
  <2>4. H1.mem[new].child \in Live(H1) \cup {NULL} /\ H1.mem[new].child # c
    BY <2>3, <1>5, <1>0
  <2>5. Quiet(H1, G) /\ SameLinks(H1, G, ReferenceFields) /\ Joined(H1, G, c, new)
    BY <2>1, <2>2, <2>4, <1>2, <1>5, StealJoined
  <2> HIDE DEF G
  <2>6. Quiet(H, G)
    BY <1>1, <2>5, QuietTwice
  <2>7. SameLinks(H, G, ReferenceFields)
    BY <1>1, <2>5 DEF SameLinks
  <2> HIDE DEF new
  <2>8. SiblingsSound(G, Q \cup {c})
    BY <1>2, <1>3, <1>5, <2>2, <2>5, JoinedSound
  <2>9. ASSUME NEW D \in SUBSET Chunks, Grounded(H, S), Beneath(H, c, D), new \notin D
        PROVE  Grounded(G, Q \cup {c})
    <3>1. Beneath(H1, c, D)
        BY <2>9, <1>1, LeftBeneath
    <3> QED BY <2>9, <3>1, <1>2, <1>3, <1>4, <1>5, <2>2, <2>5, JoinedGrounded
  <2>10. /\ Plain(H) /\ c # H.null_context /\ H.mem[new].ptr = NULL => Plain(G)
         /\ Vacant(H) => Vacant(G)
    <3>1. new \in Chunks
        BY <2>2, <1>0, <1>2
    <3> QED BY <3>1, <1>2, <1>3, <1>5, <1>9, <2>2, <2>5, JoinedPlain
  <2> QED BY <1>8, <2>6, <2>7, <2>8, <2>9, <2>10, <1>0 DEF G, new
<1> QED BY <1>6, <1>7, <1>8

-----------------------------------------------------------------------------
(* In any heap, sound or not, the operations store links only, and one that  *)
(* accesses a free chunk is found out.                                       *)

\* Two such changes are one.
LEMMA MildTwice ==
    ASSUME NEW H, NEW G, NEW K, Mild(H, G), Mild(G, K)
    PROVE  Mild(H, K)
BY DEF Mild

\* Such a change keeps the set of allocated chunks.
LEMMA MildLive ==
    ASSUME NEW H, NEW G, Mild(H, G)
    PROVE  Live(G) = Live(H) /\ G \in Heaps
BY DEF Mild, Live

\* A store to a link is such a change, whatever the heap;
LEMMA StoreMild ==
    ASSUME NEW H \in Heaps, NEW c \in Pointers, NEW f \in PointerFields, NEW v \in Pointers
    PROVE  Mild(H, Store(H, c, f, v))
<1>1. CASE c = NULL
    BY <1>1 DEF Store, Mild
<1>2. CASE c # NULL
  <2>1. c \in Chunks
    BY <1>2 DEF Pointers
  <2> QED BY <1>2, <2>1, SetMild DEF Store
<1> QED BY <1>1, <1>2

\* so is _TLIST_ADD (talloc.c:126),
LEMMA AddMild ==
    ASSUME NEW H \in Heaps, NEW L \in ListKinds, NEW o \in Chunks, NEW p \in Chunks
    PROVE  LET G == TLIST_ADD(H, L, o, p)
           IN  Mild(H, G) /\ (G.fault = "none" => o \in Live(H) /\ p \in Live(H))
<1> DEFINE first == H.mem[o][L.head]
           H1 == Store(H, first, L.prev, p)
           H2 == Set(H1, p, L.next, first)
           H3 == Set(H2, p, L.prev, NULL)
           G == Set(H3, o, L.head, p)
<1>k. {L.head, L.next, L.prev} \subseteq PointerFields
    BY KindFields
<1>0. first \in Pointers /\ p \in Pointers /\ NULL \in Pointers
    BY <1>k, LinkType DEF Pointers
<1> HIDE DEF first
<1>1. Mild(H, H1)
    BY <1>0, <1>k, StoreMild
<1>2. Live(H1) = Live(H) /\ H1 \in Heaps
    BY <1>1, MildLive
<1> HIDE DEF H1
<1>3. Mild(H1, H2) /\ (H2.fault = "none" => p \in Live(H1))
    BY <1>0, <1>2, <1>k, SetMild
<1>4. Live(H2) = Live(H) /\ H2 \in Heaps
    BY <1>2, <1>3, MildLive
<1> HIDE DEF H2
<1>5. Mild(H2, H3)
    BY <1>0, <1>4, <1>k, SetMild
<1>6. Live(H3) = Live(H) /\ H3 \in Heaps
    BY <1>4, <1>5, MildLive
<1> HIDE DEF H3
<1>7. Mild(H3, G) /\ (G.fault = "none" => o \in Live(H3))
    BY <1>0, <1>6, <1>k, SetMild
<1> HIDE DEF G
<1>8. Mild(H, G)
    BY <1>1, <1>3, <1>5, <1>7, MildTwice
<1>9. G.fault = "none" => H2.fault = "none"
    BY <1>5, <1>7 DEF Mild
<1>10. G = TLIST_ADD(H, L, o, p)
    BY DEF G, H3, H2, H1, first, TLIST_ADD
<1> QED BY <1>2, <1>3, <1>6, <1>7, <1>8, <1>9, <1>10

\* the closing of a gap,
LEMMA CloseMild ==
    ASSUME NEW H \in Heaps, NEW L \in ListKinds, NEW p \in Chunks
    PROVE  Mild(H, Close(H, L, p))
<1> DEFINE next == H.mem[p][L.next]
           prev == H.mem[p][L.prev]
           H1 == Store(H, prev, L.next, next)
<1>k. {L.head, L.next, L.prev} \subseteq PointerFields
    BY KindFields
<1>0. next \in Pointers /\ prev \in Pointers
    BY <1>k, LinkType
<1> HIDE DEF next, prev
<1>1. Mild(H, H1)
    BY <1>0, <1>k, StoreMild
<1>2. H1 \in Heaps
    BY <1>1, MildLive
<1> HIDE DEF H1
<1>3. Mild(H1, Store(H1, next, L.prev, prev))
    BY <1>0, <1>2, <1>k, StoreMild
<1>4. Close(H, L, p) = Store(H1, next, L.prev, prev)
    BY DEF H1, next, prev, Close
<1> QED BY <1>1, <1>3, <1>4, MildTwice

\* A store through a pointer to nothing changes no chunk.
LEMMA SetNowhere ==
    ASSUME NEW H \in Heaps, NEW c, c \notin Chunks, NEW f, NEW v
    PROVE  Mild(H, Set(H, c, f, v))
<1> DEFINE K == Guard(Touch(H, c), c)
           m == [K.mem EXCEPT ![c][f] = v]
<1>1. Touch(H, c) \in {H, [H EXCEPT !.fault = "use after free"]}
    BY Zenon DEF Touch
<1>2. Touch(H, c).fault = "none" => H.fault = "none"
  <2>1. CASE H.fault = "none"
    BY <2>1
  <2>2. CASE H.fault # "none"
    <3>1. Touch(H, c) = H
        BY <2>2, Zenon DEF Touch
    <3> QED BY <3>1
  <2> QED BY <2>1, <2>2
<1>3. /\ Touch(H, c) \in Heaps /\ Touch(H, c).mem = H.mem
      /\ Touch(H, c).null_context = H.null_context /\ Touch(H, c).locked = H.locked
    BY <1>1 DEF Heaps, Faults
<1> DEFINE A == Touch(H, c)
<1> HIDE DEF A
<1>4. Guard(A, c) \in {A, [A EXCEPT !.fault = "unlocked"]}
    BY Zenon DEF Guard
<1>5. Guard(A, c).fault = "none" => A.fault = "none"
  <2>1. CASE A.fault = "none"
    BY <2>1
  <2>2. CASE A.fault # "none"
    <3>1. Guard(A, c) = A
        BY <2>2, Zenon DEF Guard
    <3> QED BY <3>1
  <2> QED BY <2>1, <2>2
<1>6. /\ A \in Heaps /\ A.mem = H.mem /\ A.null_context = H.null_context /\ A.locked = H.locked
      /\ A.fault = "none" => H.fault = "none"
    BY <1>2, <1>3 DEF A
<1>7. /\ Guard(A, c) \in Heaps /\ Guard(A, c).mem = H.mem
      /\ Guard(A, c).null_context = H.null_context /\ Guard(A, c).locked = H.locked
      /\ Guard(A, c).fault = "none" => H.fault = "none"
    BY <1>4, <1>5, <1>6 DEF Heaps, Faults
<1>8. /\ K \in Heaps /\ K.mem = H.mem
      /\ K.null_context = H.null_context /\ K.locked = H.locked
      /\ K.fault = "none" => H.fault = "none"
    BY <1>7 DEF A
<1>9. Set(H, c, f, v) = [K EXCEPT !.mem = m]
    BY DEF Set
<1> HIDE DEF K
<1>10. m = H.mem
    BY <1>8 DEF Heaps
<1> HIDE DEF m
<1>11. [K EXCEPT !.mem = m] = K
    BY <1>8, <1>10 DEF Heaps
<1> QED BY <1>8, <1>9, <1>11 DEF Mild

\* _TLIST_REMOVE (talloc.c:140),
LEMMA RemoveMild ==
    ASSUME NEW H \in Heaps, NEW L \in ListKinds, NEW o \in Pointers, NEW p \in Chunks
    PROVE  Mild(H, TLIST_REMOVE(H, L, o, p))
<1> DEFINE next == H.mem[p][L.next]
           K == Set(H, o, L.head, next)
           H1 == IF H.mem[o][L.head] = p THEN Store(K, next, L.prev, NULL) ELSE Close(H, L, p)
           H2 == Set(H1, p, L.next, NULL)
           G == Set(H2, p, L.prev, NULL)
<1>k. {L.head, L.next, L.prev} \subseteq PointerFields
    BY KindFields
<1>0. next \in Pointers /\ NULL \in Pointers
    BY <1>k, LinkType DEF Pointers
<1>1. Mild(H, H1)
  <2>1. CASE H.mem[o][L.head] = p
    <3> HIDE DEF next
    <3>1. Mild(H, K)
        BY <1>0, <1>k, SetMild, SetNowhere
    <3>2. K \in Heaps
        BY <3>1, MildLive
    <3> HIDE DEF K
    <3>3. Mild(K, Store(K, next, L.prev, NULL))
        BY <1>0, <3>2, <1>k, StoreMild
    <3> QED BY <2>1, <3>1, <3>3, MildTwice
  <2>2. CASE H.mem[o][L.head] # p
    BY <2>2, CloseMild
  <2> QED BY <2>1, <2>2
<1>2. H1 \in Heaps
    BY <1>1, MildLive
<1> HIDE DEF H1, next
<1>3. Mild(H1, H2)
    BY <1>0, <1>2, <1>k, SetMild
<1>4. H2 \in Heaps
    BY <1>3, MildLive
<1> HIDE DEF H2
<1>5. Mild(H2, G)
    BY <1>0, <1>4, <1>k, SetMild
<1> HIDE DEF G
<1>6. G = TLIST_REMOVE(H, L, o, p)
    BY Zenon DEF G, H2, H1, K, next, TLIST_REMOVE
<1> QED BY <1>1, <1>3, <1>5, <1>6, MildTwice

\* and Detach.
LEMMA DetachMild ==
    ASSUME NEW H \in Heaps, NEW c \in Chunks
    PROVE  Mild(H, Detach(H, c))
<1> DEFINE parent == H.mem[c].parent
           H1 == TLIST_REMOVE(H, Siblings, parent, c)
<1>k. Siblings \in ListKinds
    BY DEF ListKinds
<1>0. parent \in Pointers
    BY LinkType DEF PointerFields
<1>1. CASE parent = NULL
  <2>1. Detach(H, c) = Close(H, Siblings, c)
    BY <1>1 DEF Detach
  <2> QED BY <2>1, <1>k, CloseMild
<1>2. CASE parent # NULL
  <2>1. parent \in Chunks
    BY <1>2, <1>0 DEF Pointers
  <2>2. Mild(H, H1)
    BY <1>0, <1>k, RemoveMild
  <2>3. H1 \in Heaps
    BY <2>2, MildLive
  <2>4. Detach(H, c) = Store(H1, H1.mem[parent].child, "parent", parent)
    BY <1>2 DEF Detach
  <2> HIDE DEF H1, parent
  <2>5. H1.mem[parent].child \in Pointers
    BY <2>1, <2>3, LinkType DEF PointerFields
  <2>6. Mild(H1, Detach(H, c))
    BY <2>3, <2>4, <2>5, <1>0, StoreMild DEF PointerFields
  <2> QED BY <2>2, <2>6, MildTwice
<1> QED BY <1>1, <1>2

\* A move that accessed nothing free had a live chunk and a live context, or
\* nothing to do.
LEMMA StealMild ==
    ASSUME NEW H \in Heaps, NEW c \in Chunks, NEW new_ctx, Context(H, new_ctx) \in Pointers
    PROVE  LET G == Steal(H, new_ctx, c)
           IN  /\ Mild(H, G)
               /\ G.fault = "none" =>
                    G = H \/ (c \in Live(H) /\ Context(H, new_ctx) \in Live(H) \cup {NULL})
<1> DEFINE new == Context(H, new_ctx)
           H1 == Detach(H, c)
           G == Steal(H, new_ctx, c)
<1>0. new \in Pointers /\ NULL \in Pointers
    BY DEF Pointers
<1>1. Mild(H, H1)
    BY DetachMild
<1>2. H1 \in Heaps /\ Live(H1) = Live(H)
    BY <1>1, MildLive
<1>3. CASE new = NULL
  <2> DEFINE A == Set(H1, c, "parent", NULL)
             B == Set(A, c, "next", NULL)
  <2>1. G = Set(B, c, "prev", NULL)
    BY <1>3 DEF Steal
  <2> HIDE DEF H1, G
  <2>2. Mild(H1, A)
    BY <1>0, <1>2, SetMild DEF PointerFields
  <2>3. A \in Heaps /\ Live(A) = Live(H1)
    BY <2>2, MildLive
  <2> HIDE DEF A
  <2>4. Mild(A, B)
    BY <1>0, <2>3, SetMild DEF PointerFields
  <2>5. B \in Heaps /\ Live(B) = Live(A)
    BY <2>4, MildLive
  <2> HIDE DEF B
  <2>6. Mild(B, G) /\ (G.fault = "none" => c \in Live(B))
    BY <1>0, <2>1, <2>5, SetMild DEF PointerFields
  <2>7. Mild(H, G)
    BY <1>1, <2>2, <2>4, <2>6, MildTwice
  <2> QED BY <1>2, <1>3, <2>3, <2>5, <2>6, <2>7 DEF G
<1>4. CASE new # NULL /\ (c = new \/ H.mem[c].parent = new)
  <2>1. G = H
    BY <1>4 DEF Steal
  <2> QED BY <2>1 DEF Mild
<1>5. CASE new # NULL /\ ~(c = new \/ H.mem[c].parent = new)
  <2> DEFINE A == Set(H1, c, "parent", new)
             B == Store(A, H1.mem[new].child, "parent", NULL)
  <2>1. G = TLIST_ADD(B, Siblings, new, c)
    BY <1>5 DEF Steal
  <2>2. new \in Chunks
    BY <1>0, <1>5 DEF Pointers
  <2> HIDE DEF H1, G, new
  <2>3. H1.mem[new].child \in Pointers
    BY <1>2, <2>2, LinkType DEF PointerFields
  <2>4. Mild(H1, A)
    BY <1>0, <1>2, SetMild DEF PointerFields
  <2>5. A \in Heaps /\ Live(A) = Live(H1)
    BY <2>4, MildLive
  <2> HIDE DEF A
  <2>6. Mild(A, B)
    BY <1>0, <2>3, <2>5, StoreMild DEF PointerFields
  <2>7. B \in Heaps /\ Live(B) = Live(A)
    BY <2>6, MildLive
  <2> HIDE DEF B
  <2>8. Mild(B, G) /\ (G.fault = "none" => new \in Live(B) /\ c \in Live(B))
    BY <2>1, <2>2, <2>7, AddMild DEF ListKinds
  <2>9. Mild(H, G)
    BY <1>1, <2>4, <2>6, <2>8, MildTwice
  <2> QED BY <1>2, <2>5, <2>7, <2>8, <2>9 DEF G, new
<1> QED BY <1>3, <1>4, <1>5

-----------------------------------------------------------------------------
(* References. *)

\* What ReferencesSound says, without the field names.
LEMMA ReferenceFacts ==
    ASSUME NEW H, NEW R, ReferencesSound(H, R)
    PROVE  /\ \A x \in R :
                /\ H.mem[x].refs \in R \cup {NULL}
                /\ H.mem[x].ptr \in R \cup {NULL}
                /\ H.mem[x].hnext \in R \cup {NULL}
                /\ H.mem[x].hprev \in R \cup {NULL}
                /\ H.mem[x].hnext # NULL => H.mem[H.mem[x].hnext].ptr = H.mem[x].ptr
                /\ H.mem[x].refs # NULL => H.mem[H.mem[x].refs].ptr = x
                /\ H.mem[x].ptr # NULL => (H.mem[x].hprev = NULL <=> H.mem[H.mem[x].ptr].refs = x)
                /\ H.mem[x].ptr = NULL => H.mem[x].hnext = NULL /\ H.mem[x].hprev = NULL
           /\ \A x, y \in R : H.mem[x].hnext = y <=> H.mem[y].hprev = x
           /\ \A T \in SUBSET R : T # {} => \E h \in T : H.mem[h].hprev \notin T
BY DEF ReferencesSound, BothWays

\* A chunk whose list of references is empty has no handle.
LEMMA NoHandles ==
    ASSUME NEW H, NEW R, NULL \notin R, ReferencesSound(H, R), NEW x \in R, H.mem[x].refs = NULL
    PROVE  \A h \in R : H.mem[h].ptr # x
<1> DEFINE T == {h \in R : H.mem[h].ptr = x}
<1>1. ASSUME T # {} PROVE FALSE
  <2>1. PICK h \in T : H.mem[h].hprev \notin T
    BY <1>1, ReferenceFacts
  <2>2. h \in R /\ H.mem[h].ptr = x /\ H.mem[h].hprev # NULL
    BY <2>1, ReferenceFacts
  <2>3. H.mem[h].hprev \in R /\ H.mem[H.mem[h].hprev].hnext = h
    BY <2>2, ReferenceFacts
  <2>4. H.mem[H.mem[h].hprev].ptr = x
    BY <2>2, <2>3, ReferenceFacts
  <2> QED BY <2>1, <2>3, <2>4
<1> QED BY <1>1

\* A chunk without references that is no handle takes no part in them.
LEMMA ReferencesWithout ==
    ASSUME NEW H, NEW R, NULL \notin R, ReferencesSound(H, R), NEW c \in R,
           H.mem[c].refs = NULL, H.mem[c].ptr = NULL
    PROVE  ReferencesSound(H, R \ {c})
<1>1. \A h \in R : H.mem[h].ptr # c
    BY NoHandles
<1>2. \A h \in R : H.mem[h].refs # c /\ H.mem[h].hnext # c /\ H.mem[h].hprev # c
    BY ReferenceFacts
<1>3. \A x \in R \ {c} :
            /\ {H.mem[x].refs, H.mem[x].ptr, H.mem[x].hnext, H.mem[x].hprev} \subseteq (R \ {c}) \cup {NULL}
            /\ \A y \in R \ {c} : H.mem[x].hnext = y <=> H.mem[y].hprev = x
    BY <1>1, <1>2, ReferenceFacts
<1>4. \A T \in SUBSET (R \ {c}) : T # {} => \E h \in T : H.mem[h].hprev \notin T
    BY ReferenceFacts
<1> QED BY <1>3, <1>4, ReferenceFacts DEF ReferencesSound, BothWays

\* A new chunk without links.
LEMMA ReferencesWith ==
    ASSUME NEW H, NEW R, NULL \notin R, ReferencesSound(H, R), NEW c, c \notin R, c # NULL,
           H.mem[c].refs = NULL, H.mem[c].ptr = NULL,
           H.mem[c].hnext = NULL, H.mem[c].hprev = NULL
    PROVE  ReferencesSound(H, R \cup {c})
<1> DEFINE Q == R \cup {c}
<1>1. \A x \in Q :
            /\ {H.mem[x].refs, H.mem[x].ptr, H.mem[x].hnext, H.mem[x].hprev} \subseteq Q \cup {NULL}
            /\ \A y \in Q : H.mem[x].hnext = y <=> H.mem[y].hprev = x
            /\ H.mem[x].hnext # NULL => H.mem[H.mem[x].hnext].ptr = H.mem[x].ptr
            /\ H.mem[x].refs # NULL => H.mem[H.mem[x].refs].ptr = x
            /\ H.mem[x].ptr # NULL => (H.mem[x].hprev = NULL <=> H.mem[H.mem[x].ptr].refs = x)
            /\ H.mem[x].ptr = NULL => H.mem[x].hnext = NULL /\ H.mem[x].hprev = NULL
    BY ReferenceFacts
<1>2. ASSUME NEW T \in SUBSET Q, T # {}
      PROVE  \E h \in T : H.mem[h].hprev \notin T
  <2>1. CASE c \in T
    BY <2>1
  <2>2. CASE c \notin T
    BY <2>2, <1>2, ReferenceFacts
  <2> QED BY <2>1, <2>2
<1> QED BY <1>1, <1>2 DEF ReferencesSound, BothWays

\* From H to G chunk c became the first handle of p.
Hung(H, G, c, p) ==
    LET first == H.mem[p].refs
    IN  \A x \in Chunks :
        /\ G.mem[x].refs = IF x = p THEN c ELSE H.mem[x].refs
        /\ G.mem[x].ptr = IF x = c THEN p ELSE H.mem[x].ptr
        /\ G.mem[x].hnext = IF x = c THEN first ELSE H.mem[x].hnext
        /\ G.mem[x].hprev = CASE x = c -> NULL
                              [] x = first /\ x # c -> c
                              [] OTHER -> H.mem[x].hprev

\* A new first handle keeps the references sound.
LEMMA HungSound ==
    ASSUME NEW H, NEW R \in SUBSET Chunks, ReferencesSound(H, R), NEW c \in R, NEW p \in R,
           c # p, H.mem[c].ptr = NULL, NEW G, Hung(H, G, c, p)
    PROVE  ReferencesSound(G, R)
<1> DEFINE first == H.mem[p].refs
<1>0. NULL \notin R /\ c # NULL /\ p # NULL
    BY NullAssumption
<1>1. /\ first \in R \cup {NULL}
      /\ first # NULL => H.mem[first].ptr = p
      /\ first # NULL => H.mem[first].hprev = NULL
      /\ first # c
      /\ H.mem[c].hnext = NULL /\ H.mem[c].hprev = NULL
    BY <1>0, ReferenceFacts
<1>2. \A h \in R : H.mem[h].refs # c /\ H.mem[h].hnext # c /\ H.mem[h].hprev # c
    BY <1>0, ReferenceFacts
<1>3. \A x \in R :
        /\ G.mem[x].refs = IF x = p THEN c ELSE H.mem[x].refs
        /\ G.mem[x].ptr = IF x = c THEN p ELSE H.mem[x].ptr
        /\ G.mem[x].hnext = IF x = c THEN first ELSE H.mem[x].hnext
        /\ G.mem[x].hprev = IF x = c THEN NULL ELSE IF x = first THEN c ELSE H.mem[x].hprev
    BY DEF Hung
<1> HIDE DEF first
<1>4. \A x \in R : {G.mem[x].refs, G.mem[x].ptr, G.mem[x].hnext, G.mem[x].hprev} \subseteq R \cup {NULL}
    BY <1>1, <1>3, ReferenceFacts
<1>5. \A x, y \in R : G.mem[x].hnext = y <=> G.mem[y].hprev = x
    BY <1>0, <1>1, <1>2, <1>3, ReferenceFacts
<1>6. \A x \in R : G.mem[x].hnext # NULL => G.mem[G.mem[x].hnext].ptr = G.mem[x].ptr
    BY <1>0, <1>1, <1>2, <1>3, ReferenceFacts
<1>7. \A x \in R : G.mem[x].refs # NULL => G.mem[G.mem[x].refs].ptr = x
    BY <1>0, <1>1, <1>2, <1>3, ReferenceFacts
<1>8. ASSUME NEW x \in R, G.mem[x].ptr # NULL
      PROVE  G.mem[x].hprev = NULL <=> G.mem[G.mem[x].ptr].refs = x
  <2>1. CASE x = c
    BY <2>1, <1>3
  <2>2. CASE x # c
    <3>1. H.mem[x].ptr \in R /\ G.mem[x].ptr = H.mem[x].ptr
        BY <2>2, <1>3, <1>8, ReferenceFacts
    <3>2. H.mem[x].hprev = NULL <=> H.mem[H.mem[x].ptr].refs = x
        BY <3>1, <1>0, ReferenceFacts
    <3>3. CASE H.mem[x].ptr = p
        BY <3>1, <3>2, <3>3, <2>2, <1>0, <1>3 DEF first
    <3>4. CASE H.mem[x].ptr # p
        <4>1. x # first
            BY <3>4, <1>1, <1>0
        <4> QED BY <4>1, <3>1, <3>2, <3>4, <2>2, <1>3
    <3> QED BY <3>3, <3>4
  <2> QED BY <2>1, <2>2
<1>9. \A x \in R : G.mem[x].ptr = NULL => G.mem[x].hnext = NULL /\ G.mem[x].hprev = NULL
    BY <1>0, <1>1, <1>3, ReferenceFacts
<1>10. ASSUME NEW T \in SUBSET R, T # {}, \A h \in T : G.mem[h].hprev \in T
       PROVE  FALSE
  <2>1. c \notin T
    BY <1>10, <1>0, <1>3
  <2>2. first \notin T
    BY <2>1, <1>10, <1>1, <1>3
  <2>3. \A h \in T : H.mem[h].hprev \in T
    BY <2>1, <2>2, <1>10, <1>3
  <2> QED BY <1>10, <2>3, ReferenceFacts
<1> QED BY <1>4, <1>5, <1>6, <1>7, <1>8, <1>9, <1>10 DEF ReferencesSound, BothWays

\* From H to G handle h left the list of its pointer.
Unhung(H, G, h) ==
    LET next == H.mem[h].hnext
        prev == H.mem[h].hprev
        p == H.mem[h].ptr
    IN  \A x \in Chunks :
        /\ G.mem[x].ptr = H.mem[x].ptr
        /\ G.mem[x].refs = IF x = p /\ prev = NULL THEN next ELSE H.mem[x].refs
        /\ G.mem[x].hnext = CASE x = h -> NULL
                              [] x = prev /\ x # h -> next
                              [] OTHER -> H.mem[x].hnext
        /\ G.mem[x].hprev = CASE x = h -> NULL
                              [] x = next /\ x # h -> prev
                              [] OTHER -> H.mem[x].hprev

\* talloc_reference_destructor (talloc.c:319) takes a handle out of its list.
LEMMA DereferenceUnhung ==
    ASSUME NEW H \in Heaps, NEW R \in SUBSET Live(H), ReferencesSound(H, R), NEW h \in R,
           H.mem[h].ptr # NULL
    PROVE  LET G == Dereference(H, h)
           IN  Quiet(H, G) /\ SameLinks(H, G, SiblingFields) /\ Unhung(H, G, h)
<1> DEFINE p == H.mem[h].ptr
           next == H.mem[h].hnext
           prev == H.mem[h].hprev
           G == TLIST_REMOVE(H, References, p, h)
<1>1. /\ p \in Live(H) /\ h \in Live(H)
      /\ {next, prev} \subseteq Live(H) \cup {NULL}
      /\ H.mem[p].refs = h <=> prev = NULL
    BY ReferenceFacts
<1>k. /\ References \in ListKinds /\ References.head = "refs" /\ References.next = "hnext"
      /\ References.prev = "hprev"
    BY DEF References, ListKinds
<1>2. /\ Quiet(H, G)
      /\ \A x \in Chunks, g \in PointerFields :
            G.mem[x][g] = CASE g = "refs" /\ x = p /\ prev = NULL -> next
                            [] g \in {"hnext", "hprev"} /\ x = h -> NULL
                            [] g = "hnext" /\ x = prev /\ x # h -> next
                            [] g = "hprev" /\ x = next /\ x # h -> prev
                            [] OTHER -> H.mem[x][g]
    BY <1>1, <1>k, ListRemove
<1>3. G = Dereference(H, h)
    BY DEF Dereference
<1> HIDE DEF G
<1>4. SameLinks(H, G, SiblingFields)
    BY <1>2 DEF SameLinks, SiblingFields, PointerFields
<1>5. \A x \in Chunks :
        /\ G.mem[x].ptr = H.mem[x].ptr
        /\ G.mem[x].refs = IF x = p /\ prev = NULL THEN next ELSE H.mem[x].refs
        /\ G.mem[x].hnext = IF x = h THEN NULL ELSE IF x = prev THEN next ELSE H.mem[x].hnext
        /\ G.mem[x].hprev = IF x = h THEN NULL ELSE IF x = next THEN prev ELSE H.mem[x].hprev
    BY <1>2 DEF PointerFields
<1>6. Unhung(H, G, h)
    BY <1>5 DEF Unhung
<1> QED BY <1>2, <1>3, <1>4, <1>6

\* The references are sound without the handle that was taken out.
LEMMA UnhungSound ==
    ASSUME NEW H, NEW R \in SUBSET Chunks, ReferencesSound(H, R), NEW h \in R,
           H.mem[h].ptr # NULL, H.mem[h].refs = NULL, NEW G, Unhung(H, G, h)
    PROVE  ReferencesSound(G, R \ {h})
<1> DEFINE p == H.mem[h].ptr
           next == H.mem[h].hnext
           prev == H.mem[h].hprev
           Q == R \ {h}
<1>0. NULL \notin R /\ h # NULL
    BY NullAssumption
<1>1. \A g \in R : H.mem[g].ptr # h
    BY <1>0, NoHandles
<1>2. /\ p \in R /\ p # h /\ p # NULL
      /\ next \in R \cup {NULL} /\ prev \in R \cup {NULL}
      /\ H.mem[p].refs = h <=> prev = NULL
      /\ next # NULL => H.mem[next].hprev = h /\ H.mem[next].ptr = p
      /\ prev # NULL => H.mem[prev].hnext = h /\ H.mem[prev].ptr = p
    BY <1>0, <1>1, ReferenceFacts
<1>3. \A x \in R :
        /\ H.mem[x].hnext = h <=> x = prev
        /\ H.mem[x].hprev = h <=> x = next
        /\ H.mem[x].refs = h => x = p
    BY <1>0, ReferenceFacts
<1>4. \A x \in Q :
        /\ G.mem[x].ptr = H.mem[x].ptr
        /\ G.mem[x].refs = IF x = p /\ prev = NULL THEN next ELSE H.mem[x].refs
        /\ G.mem[x].hnext = IF x = prev THEN next ELSE H.mem[x].hnext
        /\ G.mem[x].hprev = IF x = next THEN prev ELSE H.mem[x].hprev
    BY DEF Unhung
<1>n. next # h /\ prev # h
  <2>1. next = h <=> prev = h
    BY <1>0, ReferenceFacts
  <2>2. ASSUME prev = h PROVE FALSE
    <3>1. {h} \in SUBSET R /\ {h} # {}
        OBVIOUS
    <3>2. \E g \in {h} : H.mem[g].hprev \notin {h}
        BY <3>1, ReferenceFacts
    <3> QED BY <3>2, <2>2
  <2> QED BY <2>1, <2>2
<1> HIDE DEF p, next, prev
<1>5. \A x \in Q : {G.mem[x].refs, G.mem[x].ptr, G.mem[x].hnext, G.mem[x].hprev} \subseteq Q \cup {NULL}
    BY <1>1, <1>2, <1>3, <1>4, <1>n, ReferenceFacts
<1>6. \A x, y \in Q : G.mem[x].hnext = y <=> G.mem[y].hprev = x
  <2> SUFFICES ASSUME NEW x \in Q, NEW y \in Q
               PROVE  G.mem[x].hnext = y <=> G.mem[y].hprev = x
    OBVIOUS
  <2>1. H.mem[x].hnext = y <=> H.mem[y].hprev = x
    BY ReferenceFacts
  <2> QED BY <2>1, <1>0, <1>2, <1>3, <1>4, <1>n
<1>7. \A x \in Q : G.mem[x].hnext # NULL => G.mem[G.mem[x].hnext].ptr = G.mem[x].ptr
  <2> SUFFICES ASSUME NEW x \in Q, G.mem[x].hnext # NULL
               PROVE  G.mem[G.mem[x].hnext].ptr = G.mem[x].ptr
    OBVIOUS
  <2>0. G.mem[x].hnext \in Q
    BY <1>5
  <2>1. CASE x = prev
    BY <2>0, <2>1, <1>0, <1>2, <1>4
  <2>2. CASE x # prev
    <3>1. G.mem[x].hnext = H.mem[x].hnext
        BY <2>2, <1>4
    <3>2. H.mem[H.mem[x].hnext].ptr = H.mem[x].ptr
        BY <3>1, ReferenceFacts
    <3> QED BY <3>1, <3>2, <2>0, <1>4
  <2> QED BY <2>1, <2>2
<1>8. \A x \in Q : G.mem[x].refs # NULL => G.mem[G.mem[x].refs].ptr = x
  <2> SUFFICES ASSUME NEW x \in Q, G.mem[x].refs # NULL
               PROVE  G.mem[G.mem[x].refs].ptr = x
    OBVIOUS
  <2>0. G.mem[x].refs \in Q
    BY <1>5
  <2>1. CASE x = p /\ prev = NULL
    BY <2>0, <2>1, <1>2, <1>4
  <2>2. CASE ~(x = p /\ prev = NULL)
    <3>1. G.mem[x].refs = H.mem[x].refs
        BY <2>2, <1>4
    <3>2. H.mem[H.mem[x].refs].ptr = x
        BY <3>1, ReferenceFacts
    <3> QED BY <3>1, <3>2, <2>0, <1>4
  <2> QED BY <2>1, <2>2
<1>9. ASSUME NEW x \in Q, G.mem[x].ptr # NULL
      PROVE  G.mem[x].hprev = NULL <=> G.mem[G.mem[x].ptr].refs = x
  <2>1. /\ G.mem[x].ptr = H.mem[x].ptr
        /\ H.mem[x].ptr \in Q
        /\ H.mem[x].hprev = NULL <=> H.mem[H.mem[x].ptr].refs = x
    BY <1>1, <1>4, <1>9, ReferenceFacts
  <2>2. CASE H.mem[x].ptr = p
    <3>1. G.mem[p].refs = IF prev = NULL THEN next ELSE H.mem[p].refs
        BY <1>2, <1>4
    <3>2. G.mem[x].hprev = IF x = next THEN prev ELSE H.mem[x].hprev
        BY <1>4
    <3>3. H.mem[x].hprev = NULL <=> H.mem[p].refs = x
        BY <2>1, <2>2
    <3>4. H.mem[next].hprev = h \/ next = NULL
        BY <1>2
    <3>5. CASE x = next
        <4>1. prev # NULL => H.mem[p].refs # x
            BY <3>3, <3>4, <3>5, <1>0
        <4> QED BY <4>1, <2>1, <2>2, <3>1, <3>2, <3>5
    <3>6. CASE x # next
        <4>1. prev = NULL => H.mem[p].refs = h
            BY <1>2
        <4> QED BY <4>1, <2>1, <2>2, <3>1, <3>2, <3>3, <3>6
    <3> QED BY <3>5, <3>6
  <2>3. CASE H.mem[x].ptr # p
    <3>1. x # next
        BY <2>3, <1>2, <1>0
    <3> QED BY <2>1, <2>3, <3>1, <1>4
  <2> QED BY <2>2, <2>3
<1>10. \A x \in Q : G.mem[x].ptr = NULL => G.mem[x].hnext = NULL /\ G.mem[x].hprev = NULL
    BY <1>0, <1>2, <1>4, ReferenceFacts
<1>11. ASSUME NEW T \in SUBSET Q, T # {}, \A g \in T : G.mem[g].hprev \in T
       PROVE  FALSE
  <2>1. CASE next \in T
    <3> DEFINE U == T \cup {h}
    <3>1. prev \in T
        BY <2>1, <1>4, <1>11
    <3>2. H.mem[h].hprev \in U
        BY <3>1 DEF prev
    <3>3. \A g \in T : H.mem[g].hprev \in U
        BY <1>2, <1>3, <1>4, <1>11
    <3>4. U \in SUBSET R /\ U # {}
        OBVIOUS
    <3> QED BY <3>2, <3>3, <3>4, ReferenceFacts
  <2>2. CASE next \notin T
    <3>1. \A g \in T : H.mem[g].hprev \in T
        BY <2>2, <1>4, <1>11
    <3> QED BY <3>1, <1>11, ReferenceFacts
  <2> QED BY <2>1, <2>2
<1> QED BY <1>5, <1>6, <1>7, <1>8, <1>9, <1>10, <1>11 DEF ReferencesSound, BothWays

-----------------------------------------------------------------------------
(* Marks, and the lock. *)

\* From H to G field f of c, no link, became v.
Noted(H, G, c, f, v) ==
    /\ G \in Heaps
    /\ G.null_context = H.null_context /\ G.locked = H.locked
    /\ SameLinks(H, G, PointerFields)
    /\ \A x \in Chunks :
        /\ G.mem[x].free = H.mem[x].free
        /\ G.mem[x].destructor = IF x = c /\ f = "destructor" THEN v ELSE H.mem[x].destructor
        /\ G.mem[x].loop = IF x = c /\ f = "loop" THEN v ELSE H.mem[x].loop
    /\ G.fault = "none" => H.fault = "none" /\ c \in Live(H)
    /\ c \in Live(H) /\ G.fault = "use after free" => H.fault = "use after free"

\* A store to the destructor or to the mark.
LEMMA SetMark ==
    ASSUME NEW H \in Heaps, NEW c \in Chunks, NEW f, NEW v,
           (f = "destructor" /\ v \in Destructors) \/ (f = "loop" /\ v \in BOOLEAN)
    PROVE  Noted(H, Set(H, c, f, v), c, f, v)
<1> DEFINE G == Guard(Touch(H, c), c)
           t == H.mem[c]
           u == [t EXCEPT ![f] = v]
           m == [H.mem EXCEPT ![c] = u]
<1>1. /\ G \in Heaps
      /\ G.mem = H.mem
      /\ G.null_context = H.null_context /\ G.locked = H.locked
      /\ G.fault = "none" => H.fault = "none" /\ c \in Live(H)
      /\ c \in Live(H) /\ G.fault = "use after free" => H.fault = "use after free"
    BY GuardHeap
<1>2. H.mem \in [Chunks -> ChunkRecords] /\ t \in ChunkRecords
    BY DEF Heaps
<1>3. /\ u \in ChunkRecords
      /\ \A g \in PointerFields : u[g] = t[g]
      /\ u.free = t.free
      /\ u.loop = IF f = "loop" THEN v ELSE t.loop
      /\ u.destructor = IF f = "destructor" THEN v ELSE t.destructor
  <2>1. CASE f = "destructor"
    <3>1. v \in Destructors
        BY <2>1
    <3>2. u \in ChunkRecords
        BY <1>2, <2>1, <3>1 DEF ChunkRecords
    <3>3. u.free = t.free /\ u.loop = t.loop /\ u.destructor = v
        BY <1>2, <2>1 DEF ChunkRecords
    <3>4. \A g \in PointerFields : u[g] = t[g]
        BY <1>2, <2>1 DEF ChunkRecords, PointerFields
    <3> QED BY <2>1, <3>2, <3>3, <3>4
  <2>2. CASE f = "loop"
    <3>1. v \in BOOLEAN
        BY <2>2
    <3>2. u \in ChunkRecords
        BY <1>2, <2>2, <3>1 DEF ChunkRecords
    <3>3. u.free = t.free /\ u.loop = v /\ u.destructor = t.destructor
        BY <1>2, <2>2 DEF ChunkRecords
    <3>4. \A g \in PointerFields : u[g] = t[g]
        BY <1>2, <2>2 DEF ChunkRecords, PointerFields
    <3> QED BY <2>2, <3>2, <3>3, <3>4
  <2> QED BY <2>1, <2>2
<1>4. Set(H, c, f, v) = [G EXCEPT !.mem = m]
    BY <1>1 DEF Set
<1>5. m \in [Chunks -> ChunkRecords]
    BY <1>2, <1>3
<1>6. [G EXCEPT !.mem = m] \in Heaps
    BY <1>1, <1>5 DEF Heaps
<1>7. /\ Set(H, c, f, v) \in Heaps
      /\ Set(H, c, f, v).mem = m
      /\ Set(H, c, f, v).null_context = G.null_context
      /\ Set(H, c, f, v).locked = G.locked
      /\ Set(H, c, f, v).fault = G.fault
    BY <1>1, <1>4, <1>5, <1>6 DEF Heaps
<1>8. \A x \in Chunks : m[x] = IF x = c THEN u ELSE H.mem[x]
    BY <1>2
<1> HIDE DEF G, u, m
<1>9. \A x \in Chunks : /\ m[x].free = H.mem[x].free
                        /\ m[x].loop = IF x = c /\ f = "loop" THEN v ELSE H.mem[x].loop
                        /\ m[x].destructor =
                            IF x = c /\ f = "destructor" THEN v ELSE H.mem[x].destructor
    BY <1>8, <1>3
<1>10. \A x \in Chunks, g \in PointerFields : m[x][g] = H.mem[x][g]
    BY <1>8, <1>3
<1> QED BY <1>1, <1>7, <1>9, <1>10 DEF SameLinks, Noted

\* From H to G the destructor of c became d.
Armed(H, G, c, d) ==
    /\ G \in Heaps
    /\ Live(G) = Live(H)
    /\ G.null_context = H.null_context
    /\ G.locked = H.locked
    /\ SameLinks(H, G, PointerFields)
    /\ \A x \in Chunks :
        /\ G.mem[x].destructor = IF x = c THEN d ELSE H.mem[x].destructor
        /\ G.mem[x].loop = H.mem[x].loop
    /\ G.fault = "none" => H.fault = "none" /\ c \in Live(H)

\* The stores to the destructor (talloc.c:297, 510, 512, 515).
LEMMA SetDestructor ==
    ASSUME NEW H \in Heaps, NEW c \in Chunks, NEW d \in Destructors
    PROVE  Armed(H, Set(H, c, "destructor", d), c, d)
<1> DEFINE f == "destructor"
           G == Set(H, c, f, d)
<1>1. f = "destructor"
    OBVIOUS
<1> HIDE DEF f
<1>2. Noted(H, G, c, f, d)
    BY <1>1, SetMark
<1> HIDE DEF G
<1>3. Live(G) = Live(H)
    BY <1>2 DEF Live, Noted
<1>4. f # "loop"
    BY <1>1
<1>5. Armed(H, G, c, d)
    BY <1>1, <1>2, <1>3, <1>4 DEF Noted, Armed
<1> QED BY <1>1, <1>5 DEF G

\* From H to G chunk c was marked as being freed.
Marked(H, G, c) ==
    /\ G \in Heaps
    /\ Live(G) = Live(H)
    /\ G.null_context = H.null_context
    /\ G.locked = H.locked
    /\ SameLinks(H, G, PointerFields)
    /\ \A x \in Chunks :
        /\ G.mem[x].destructor = H.mem[x].destructor
        /\ G.mem[x].loop = IF x = c THEN TRUE ELSE H.mem[x].loop
    /\ G.fault = "none" => H.fault = "none" /\ c \in Live(H)

\* The store of _talloc_free to the mark (talloc.c:531).
LEMMA SetLoop ==
    ASSUME NEW H \in Heaps, NEW c \in Chunks
    PROVE  Marked(H, Set(H, c, "loop", TRUE), c)
<1> DEFINE f == "loop"
           v == TRUE
           G == Set(H, c, f, v)
<1>1. f = "loop" /\ v \in BOOLEAN /\ v = TRUE
    OBVIOUS
<1> HIDE DEF f, v
<1>2. Noted(H, G, c, f, v)
    BY <1>1, SetMark
<1> HIDE DEF G
<1>3. Live(G) = Live(H)
    BY <1>2 DEF Live, Noted
<1>4. f # "destructor"
    BY <1>1
<1>5. Marked(H, G, c)
    BY <1>1, <1>2, <1>3, <1>4 DEF Noted, Marked
<1> QED BY <1>1, <1>5 DEF G

\* From H to G no chunk changed.
SameChunks(H, G) ==
    /\ G \in Heaps
    /\ G.mem = H.mem
    /\ G.null_context = H.null_context
    /\ G.fault = "none" => H.fault = "none"

\* lock (talloc.c:153) changes no chunk,
LEMMA LockSame ==
    ASSUME NEW H \in Heaps, NEW p \in Pointers
    PROVE  SameChunks(H, lock(H, p))
<1>1. lock(H, p) \in {H, [H EXCEPT !.fault = "nested locking"], [H EXCEPT !.locked = TRUE]}
    BY Zenon DEF lock
<1>2. SameChunks(H, H)
    BY DEF SameChunks
<1>3. SameChunks(H, [H EXCEPT !.fault = "nested locking"])
    BY DEF SameChunks, Heaps, Faults
<1>4. SameChunks(H, [H EXCEPT !.locked = TRUE])
    BY DEF SameChunks, Heaps
<1> QED BY <1>1, <1>2, <1>3, <1>4

\* and unlock (talloc.c:167) none either.
LEMMA UnlockSame ==
    ASSUME NEW H \in Heaps
    PROVE  SameChunks(H, unlock(H)) /\ ~unlock(H).locked /\ unlock(H).fault = H.fault
BY DEF SameChunks, Heaps, unlock

-----------------------------------------------------------------------------
(* Allocation. *)

\* The heap with the chunk c, of the pool of parent, before it is linked.
Unlinked(H, parent, c) ==
    [H EXCEPT !.mem[c] = [Blank EXCEPT !.free = FALSE, !.ext = InPool(H, parent)]]

\* From H to G the links of c are gone and it is live, and no other chunk changed.
Cleared(H, G, c) ==
    /\ G \in Heaps
    /\ G.null_context = H.null_context /\ G.locked = H.locked
    /\ G.fault = H.fault
    /\ Live(G) = Live(H) \cup {c}
    /\ \A x \in Chunks \ {c} : G.mem[x] = H.mem[x]
    /\ \A g \in PointerFields : G.mem[c][g] = NULL
    /\ ~G.mem[c].loop /\ G.mem[c].destructor = "none"

\* The flag of a pool is a Boolean, also for NULL.
LEMMA PoolFlag ==
    ASSUME NEW H \in Heaps, NEW p \in Pointers
    PROVE  InPool(H, p) \in BOOLEAN
BY DEF InPool, Heaps, ChunkRecords, Pointers

\* A chunk before it is linked has no links.
LEMMA UnlinkedCleared ==
    ASSUME NEW H \in Heaps, NEW parent \in Pointers, NEW c \in Chunks
    PROVE  Cleared(H, Unlinked(H, parent, c), c)
<1> DEFINE t == [Blank EXCEPT !.free = FALSE, !.ext = InPool(H, parent)]
           m == [H.mem EXCEPT ![c] = t]
           G == Unlinked(H, parent, c)
<1>0. InPool(H, parent) \in BOOLEAN
    BY PoolFlag
<1>1. /\ t \in ChunkRecords
      /\ ~t.free /\ ~t.loop /\ t.destructor = "none"
      /\ \A g \in PointerFields : t[g] = NULL
  <2> DEFINE e == InPool(H, parent)
  <2>0. e \in BOOLEAN
    BY <1>0
  <2> HIDE DEF e
  <2> DEFINE b == Blank
  <2>1. /\ b \in ChunkRecords
        /\ b.loop = FALSE /\ b.destructor = "none"
        /\ \A g \in PointerFields : b[g] = NULL
    BY DEF Blank, ChunkRecords, Pointers, Destructors, UserDestructors, PointerFields
  <2> HIDE DEF b
  <2>5. t = [b EXCEPT !.free = FALSE, !.ext = e]
    BY DEF b, e
  <2> HIDE DEF t
  <2>2. t \in ChunkRecords
    BY <2>0, <2>1, <2>5 DEF ChunkRecords
  <2>3. ~t.free /\ ~t.loop /\ t.destructor = "none"
    BY <2>1, <2>5 DEF ChunkRecords
  <2>4. \A g \in PointerFields : t[g] = NULL
    BY <2>1, <2>5 DEF PointerFields, ChunkRecords
  <2> QED BY <2>2, <2>3, <2>4
<1> HIDE DEF t
<1>2. H.mem \in [Chunks -> ChunkRecords]
    BY DEF Heaps
<1>3. m \in [Chunks -> ChunkRecords] /\ \A x \in Chunks : m[x] = IF x = c THEN t ELSE H.mem[x]
    BY <1>1, <1>2
<1>4. G = [H EXCEPT !.mem = m]
    BY DEF Unlinked, t
<1> HIDE DEF m
<1>5. G \in Heaps /\ G.mem = m /\ G.null_context = H.null_context /\ G.locked = H.locked /\ G.fault = H.fault
    BY <1>3, <1>4 DEF Heaps
<1>6. Live(G) = Live(H) \cup {c}
    BY <1>1, <1>3, <1>5 DEF Live
<1> QED BY <1>1, <1>3, <1>5, <1>6 DEF Cleared

\* From K to F the pointers of c to its parent and its next sibling are set.
Placed(K, F, parent, first, c) ==
    /\ F \in Heaps
    /\ F.null_context = K.null_context /\ F.locked = K.locked /\ F.fault = K.fault
    /\ \A x \in Chunks : /\ F.mem[x].free = K.mem[x].free
                         /\ F.mem[x].loop = K.mem[x].loop
                         /\ F.mem[x].destructor = K.mem[x].destructor
    /\ \A x \in Chunks, g \in PointerFields :
            F.mem[x][g] = CASE x = c /\ g = "parent" -> parent
                            [] x = c /\ g = "next" -> first
                            [] OTHER -> K.mem[x][g]

\* The chunk before its neighbours are told.
LEMMA FreshFacts ==
    ASSUME NEW H \in Heaps, NEW parent \in Pointers, NEW c \in Chunks
    PROVE  LET K == Unlinked(H, parent, c)
               F == Fresh(H, parent, c)
               first == IF parent = NULL THEN NULL ELSE H.mem[parent].child
           IN  first \in Pointers /\ Placed(K, F, parent, first, c)
<1> DEFINE K == Unlinked(H, parent, c)
           F == Fresh(H, parent, c)
           first == IF parent = NULL THEN NULL ELSE H.mem[parent].child
<1>0. first \in Pointers
  <2>1. parent # NULL => H.mem[parent].child \in Pointers
    BY LinkType DEF Pointers, PointerFields
  <2> QED BY <2>1 DEF Pointers
<1>1. Cleared(H, K, c)
    BY UnlinkedCleared
<1>2. /\ F \in Heaps
      /\ F.null_context = K.null_context /\ F.locked = K.locked /\ F.fault = K.fault
      /\ \A x \in Chunks : /\ F.mem[x].free = K.mem[x].free
                           /\ F.mem[x].loop = K.mem[x].loop
                           /\ F.mem[x].destructor = K.mem[x].destructor
      /\ \A x \in Chunks, g \in PointerFields :
            F.mem[x][g] = CASE x = c /\ g = "parent" -> parent
                            [] x = c /\ g = "next" -> first
                            [] OTHER -> K.mem[x][g]
  <2> DEFINE t == K.mem[c]
             u == [t EXCEPT !.parent = parent, !.next = first]
             m == [K.mem EXCEPT ![c] = u]
  <2>1. K \in Heaps /\ K.mem \in [Chunks -> ChunkRecords] /\ t \in ChunkRecords
    BY <1>1 DEF Cleared, Heaps
  <2>2. /\ u \in ChunkRecords
        /\ u.free = t.free /\ u.loop = t.loop /\ u.destructor = t.destructor
    <3> HIDE DEF first
    <3> QED BY <2>1, <1>0 DEF ChunkRecords
  <2>3. \A g \in PointerFields :
            u[g] = CASE g = "parent" -> parent [] g = "next" -> first [] OTHER -> t[g]
    <3> HIDE DEF first, K
    <3> QED BY <2>1, <1>0 DEF ChunkRecords, PointerFields
  <2>4. F = [K EXCEPT !.mem = m]
    <3>1. t = [Blank EXCEPT !.free = FALSE, !.ext = InPool(H, parent)]
        BY DEF Unlinked, Heaps
    <3>2. u = [Blank EXCEPT !.free = FALSE, !.ext = InPool(H, parent),
                            !.parent = parent, !.next = first]
        BY <3>1 DEF Blank
    <3>3. m = [H.mem EXCEPT ![c] = u]
        <4> HIDE DEF u
        <4> QED BY DEF Unlinked, Heaps
    <3> HIDE DEF u, m
    <3>4. F = [H EXCEPT !.mem = [H.mem EXCEPT ![c] = u]]
        BY <3>2, Zenon DEF Fresh
    <3>5. [K EXCEPT !.mem = m] = [H EXCEPT !.mem = m]
        BY DEF Unlinked, Heaps
    <3> QED BY <3>3, <3>4, <3>5
  <2> HIDE DEF K, F, u, first
  <2>5. m \in [Chunks -> ChunkRecords] /\ \A x \in Chunks : m[x] = IF x = c THEN u ELSE K.mem[x]
    BY <2>1, <2>2
  <2> HIDE DEF m
  <2>6. F \in Heaps /\ F.mem = m /\ F.null_context = K.null_context /\ F.locked = K.locked /\ F.fault = K.fault
    BY <2>1, <2>4, <2>5 DEF Heaps
  <2> QED BY <2>2, <2>3, <2>5, <2>6
<1> QED BY <1>0, <1>2 DEF Placed

\* init_talloc links the chunk into the list of its siblings.
LEMMA InitJoined ==
    ASSUME NEW H \in Heaps, NEW parent \in Live(H) \cup {NULL}, NEW c \in Chunks \ Live(H),
           parent # NULL => H.mem[parent].child \in Live(H) \cup {NULL}
    PROVE  LET K == Unlinked(H, parent, c)
               G == InitTalloc(H, parent, c)
           IN  /\ Quiet(K, G)
               /\ SameLinks(K, G, ReferenceFields)
               /\ parent = NULL => Alone(K, G, c)
               /\ parent # NULL => Joined(K, G, c, parent)
<1> DEFINE K == Unlinked(H, parent, c)
           first == IF parent = NULL THEN NULL ELSE H.mem[parent].child
           F == Fresh(H, parent, c)
           B == Store(F, first, "parent", NULL)
           C == Store(B, first, "prev", c)
           G == Store(C, parent, "child", c)
<1>0. /\ Live(H) \subseteq Chunks /\ NULL \notin Chunks /\ NULL \in Pointers
      /\ parent \in Pointers /\ c \in Pointers /\ parent # c
      /\ first \in Live(H) \cup {NULL} /\ first \in Pointers /\ first # c
    BY NullAssumption DEF Live, Pointers
<1>1. Cleared(H, K, c)
    BY <1>0, UnlinkedCleared
<1>2. /\ first \in Pointers
      /\ F \in Heaps
      /\ F.null_context = K.null_context /\ F.locked = K.locked /\ F.fault = K.fault
      /\ \A x \in Chunks : /\ F.mem[x].free = K.mem[x].free
                           /\ F.mem[x].loop = K.mem[x].loop
                           /\ F.mem[x].destructor = K.mem[x].destructor
      /\ \A x \in Chunks, g \in PointerFields :
            F.mem[x][g] = CASE x = c /\ g = "parent" -> parent
                            [] x = c /\ g = "next" -> first
                            [] OTHER -> K.mem[x][g]
  <2>1. first \in Pointers /\ Placed(K, F, parent, first, c)
    BY <1>0, FreshFacts
  <2> HIDE DEF first, F, K
  <2> QED BY <2>1 DEF Placed
<1>3. Quiet(K, F) /\ Live(F) = Live(H) \cup {c}
  <2>1. Quiet(K, F)
    BY <1>2 DEF Quiet, Mild
  <2>2. Live(F) = Live(K)
    BY <1>2 DEF Live
  <2> QED BY <2>1, <2>2, <1>1 DEF Cleared
<1>4. F.mem[c].next = first
    BY <1>2 DEF PointerFields
<1>5. G = InitTalloc(H, parent, c)
    BY <1>4 DEF InitTalloc
<1> HIDE DEF K, F, first
<1>6. Quiet(F, B) /\ Wrote(F, B, first, "parent", NULL)
    BY <1>0, <1>2, <1>3, StoreLink DEF PointerFields
<1>7. Live(B) = Live(F) /\ B \in Heaps
    BY <1>2, <1>6, QuietLive
<1> HIDE DEF B
<1>8. Quiet(B, C) /\ Wrote(B, C, first, "prev", c)
    BY <1>0, <1>3, <1>7, StoreLink DEF PointerFields
<1>9. Live(C) = Live(F) /\ C \in Heaps
    BY <1>7, <1>8, QuietLive
<1> HIDE DEF C
<1>10. Quiet(C, G) /\ Wrote(C, G, parent, "child", c)
    BY <1>0, <1>3, <1>9, StoreLink DEF PointerFields
<1> HIDE DEF G
<1>11. Quiet(K, G)
    BY <1>3, <1>6, <1>8, <1>10, QuietTwice
<1>12. \A x \in Chunks, g \in PointerFields :
            G.mem[x][g] = CASE g = "child" /\ x = parent -> c
                            [] g = "parent" /\ x = c -> parent
                            [] g = "parent" /\ x = first /\ x # c -> NULL
                            [] g = "next" /\ x = c -> first
                            [] g = "prev" /\ x = first -> c
                            [] OTHER -> K.mem[x][g]
    BY <1>0, <1>2, <1>6, <1>8, <1>10 DEF Wrote
<1>13. SameLinks(K, G, ReferenceFields)
    BY <1>12 DEF SameLinks, ReferenceFields, PointerFields
<1>14. K.mem[c].prev = NULL
    BY <1>1 DEF Cleared, PointerFields
<1>15. ASSUME parent = NULL PROVE Alone(K, G, c)
  <2>1. first = NULL
    BY <1>15 DEF first
  <2> QED BY <2>1, <1>0, <1>12, <1>14, <1>15 DEF Alone, PointerFields
<1>16. ASSUME parent # NULL PROVE Joined(K, G, c, parent)
  <2>1. K.mem[parent].child = first
    <3>1. parent \in Chunks \ {c} /\ first = H.mem[parent].child
        BY <1>0, <1>16 DEF first, Pointers
    <3> QED BY <3>1, <1>1 DEF Cleared
  <2> QED BY <2>1, <1>0, <1>12, <1>14 DEF Joined, PointerFields
<1> QED BY <1>5, <1>11, <1>13, <1>15, <1>16 DEF K, G

\* init_talloc keeps a heap a heap, whatever it is given.
LEMMA InitMild ==
    ASSUME NEW H \in Heaps, NEW parent \in Pointers, NEW c \in Chunks
    PROVE  LET G == InitTalloc(H, parent, c)
           IN  /\ G \in Heaps
               /\ Live(G) = Live(H) \cup {c}
               /\ G.null_context = H.null_context
               /\ G.locked = H.locked
               /\ G.fault = "none" => H.fault = "none" /\ parent \in Live(H) \cup {c, NULL}
               /\ \A x \in Chunks :
                    /\ G.mem[x].loop = (x # c /\ H.mem[x].loop)
                    /\ G.mem[x].destructor = IF x = c THEN "none" ELSE H.mem[x].destructor
<1> DEFINE K == Unlinked(H, parent, c)
           first == IF parent = NULL THEN NULL ELSE H.mem[parent].child
           F == Fresh(H, parent, c)
           B == Store(F, first, "parent", NULL)
           C == Store(B, first, "prev", c)
           G == Store(C, parent, "child", c)
<1>0. NULL \in Pointers /\ c \in Pointers /\ NULL \notin Chunks
    BY NullAssumption DEF Pointers
<1>1. Cleared(H, K, c)
    BY UnlinkedCleared
<1>2. /\ first \in Pointers
      /\ F \in Heaps
      /\ F.null_context = K.null_context /\ F.locked = K.locked /\ F.fault = K.fault
      /\ \A x \in Chunks : /\ F.mem[x].free = K.mem[x].free
                           /\ F.mem[x].loop = K.mem[x].loop
                           /\ F.mem[x].destructor = K.mem[x].destructor
      /\ \A x \in Chunks, g \in PointerFields :
            F.mem[x][g] = CASE x = c /\ g = "parent" -> parent
                            [] x = c /\ g = "next" -> first
                            [] OTHER -> K.mem[x][g]
  <2>1. first \in Pointers /\ Placed(K, F, parent, first, c)
    BY FreshFacts, Zenon
  <2> HIDE DEF first, F, K
  <2> QED BY <2>1 DEF Placed
<1>3. Live(F) = Live(H) \cup {c}
  <2>1. Live(F) = Live(K)
    BY <1>2 DEF Live
  <2> QED BY <2>1, <1>1 DEF Cleared
<1>4. F.mem[c].next = first
    BY <1>2 DEF PointerFields
<1>5. G = InitTalloc(H, parent, c)
    BY <1>4 DEF InitTalloc
<1> HIDE DEF K, F, first
<1>6. Mild(F, B)
    BY <1>0, <1>2, StoreMild DEF PointerFields
<1>7. B \in Heaps
    BY <1>6, MildLive
<1> HIDE DEF B
<1>8. Mild(B, C)
    BY <1>0, <1>2, <1>7, StoreMild DEF PointerFields
<1>9. C \in Heaps /\ Live(C) = Live(F)
    BY <1>6, <1>8, MildLive
<1> HIDE DEF C
<1>10. Mild(C, G) /\ (G.fault = "none" => parent \in Live(C) \cup {NULL})
  <2>1. CASE parent = NULL
    BY <2>1, <1>0, <1>9 DEF Mild, Store
  <2>2. CASE parent # NULL
    <3>1. parent \in Chunks /\ "child" \in PointerFields
        BY <2>2 DEF Pointers, PointerFields
    <3>2. G = Set(C, parent, "child", c)
        BY <2>2 DEF Store
    <3> HIDE DEF G
    <3> QED BY <3>1, <3>2, <1>0, <1>9, SetMild
  <2> QED BY <2>1, <2>2
<1> HIDE DEF G
<1>11. Mild(F, G)
    BY <1>6, <1>8, <1>10, MildTwice
<1>12. /\ G \in Heaps
       /\ Live(G) = Live(H) \cup {c}
       /\ G.null_context = H.null_context
       /\ G.fault = "none" => H.fault = "none"
    BY <1>1, <1>2, <1>3, <1>11, MildLive DEF Mild, Cleared
<1>13. G.locked = H.locked
    BY <1>1, <1>2, <1>11 DEF Mild, Cleared
<1>14. G.fault = "none" => parent \in Live(H) \cup {c, NULL}
    BY <1>3, <1>9, <1>10
<1>15. \A x \in Chunks : /\ G.mem[x].loop = K.mem[x].loop
                         /\ G.mem[x].destructor = K.mem[x].destructor
    BY <1>2, <1>11 DEF Mild
<1>16. \A x \in Chunks :
            /\ G.mem[x].loop = (x # c /\ H.mem[x].loop)
            /\ G.mem[x].destructor = IF x = c THEN "none" ELSE H.mem[x].destructor
    BY <1>1, <1>15 DEF Cleared, Heaps, ChunkRecords
<1> QED BY <1>5, <1>12, <1>13, <1>14, <1>16

\* A heap whose lists are sound, and stay sound with another chunk.
LEMMA InitSound ==
    ASSUME NEW H \in Heaps, NEW parent \in Live(H) \cup {NULL}, NEW c \in Chunks \ Live(H),
           SiblingsSound(H, Live(H)), ReferencesSound(H, Live(H))
    PROVE  LET G == InitTalloc(H, parent, c)
               K == Unlinked(H, parent, c)
           IN  /\ SiblingsSound(G, Live(H) \cup {c})
               /\ ReferencesSound(G, Live(H) \cup {c})
               /\ Grounded(H, Live(H)) => Grounded(G, Live(H) \cup {c})
<1> DEFINE K == Unlinked(H, parent, c)
           G == InitTalloc(H, parent, c)
           S == Live(H)
<1>0. /\ S \subseteq Chunks /\ NULL \notin Chunks /\ parent \in Pointers /\ c # NULL /\ parent # c
      /\ c \notin S
    BY NullAssumption DEF Live, Pointers
<1>1. Cleared(H, K, c)
    BY <1>0, UnlinkedCleared
<1>2. parent # NULL => H.mem[parent].child \in Live(H) \cup {NULL}
    BY DEF SiblingsSound
<1>3. /\ Quiet(K, G)
      /\ SameLinks(K, G, ReferenceFields)
      /\ parent = NULL => Alone(K, G, c)
      /\ parent # NULL => Joined(K, G, c, parent)
    BY <1>2, InitJoined
<1> HIDE DEF K, G, S
<1>4. /\ K \in Heaps /\ Live(K) = S \cup {c}
      /\ \A x \in S : K.mem[x] = H.mem[x]
      /\ \A g \in PointerFields : K.mem[c][g] = NULL
    BY <1>0, <1>1 DEF Cleared, S
<1>5. SiblingsSound(K, S)
  <2>1. SameIn(H, K, S, SiblingFields)
    BY <1>4 DEF SameIn
  <2>2. \A x \in Live(K) \ S : K.mem[x].child = NULL
    BY <1>4 DEF PointerFields
  <2> QED BY <2>1, <2>2, <1>4, SiblingsSame DEF S
<1>6. Grounded(H, S) => Grounded(K, S)
  <2>1. SameIn(H, K, S, SiblingFields)
    BY <1>4 DEF SameIn
  <2> QED BY <2>1, GroundedSame
<1>7. ReferencesSound(K, S \cup {c})
  <2>1. SameIn(H, K, S, ReferenceFields)
    BY <1>4 DEF SameIn
  <2>2. ReferencesSound(K, S)
    BY <2>1, <1>0, ReferencesSame DEF S
  <2>3. /\ K.mem[c].refs = NULL /\ K.mem[c].ptr = NULL
        /\ K.mem[c].hnext = NULL /\ K.mem[c].hprev = NULL
    BY <1>4 DEF PointerFields
  <2> QED BY <2>2, <2>3, <1>0, ReferencesWith
<1>8. ReferencesSound(G, S \cup {c})
  <2>1. SameIn(K, G, S \cup {c}, ReferenceFields)
    BY <1>0, <1>3 DEF SameIn, SameLinks
  <2> QED BY <2>1, <1>0, <1>7, ReferencesSame
<1>9. /\ SiblingsSound(G, S \cup {c})
      /\ Grounded(K, S) => Grounded(G, S \cup {c})
  <2>0. S \in SUBSET Live(K) /\ c \in Live(K) \ S
    BY <1>0, <1>4
  <2>1. CASE parent = NULL
    BY <2>1, <2>0, <1>3, <1>4, <1>5, AloneSound, AloneGrounded
  <2>2. CASE parent # NULL
    <3>1. parent \in Live(K)
        BY <2>2, <1>4 DEF S
    <3>2. SiblingsSound(G, S \cup {c})
        BY <2>0, <2>2, <3>1, <1>0, <1>3, <1>4, <1>5, JoinedSound
    <3>3. Beneath(K, c, {})
        BY <1>4 DEF Beneath, PointerFields
    <3>4. Grounded(K, S) => Grounded(G, S \cup {c})
        BY <2>0, <2>2, <3>1, <3>3, <1>0, <1>3, <1>4, <1>5, JoinedGrounded
    <3> QED BY <3>2, <3>4
  <2> QED BY <2>1, <2>2
<1> QED BY <1>6, <1>8, <1>9 DEF S, G

\* Handles stay without children when one is taken out of its list.
LEMMA UnhungPlain ==
    ASSUME NEW H \in Heaps, NEW R \in SUBSET Live(H), ReferencesSound(H, R), NEW h \in R,
           H.mem[h].ptr # NULL, Plain(H),
           NEW G, Quiet(H, G), Unhung(H, G, h), SameLinks(H, G, SiblingFields)
    PROVE  Plain(G)
<1> DEFINE p == H.mem[h].ptr
<1>1. /\ Live(G) = Live(H) /\ Live(H) \subseteq Chunks /\ NULL \notin Chunks /\ h \in Chunks
      /\ G.null_context = H.null_context /\ H.null_context \in Pointers
    BY QuietLive, NullAssumption DEF Live, Quiet, Mild, Heaps
<1>2. \A x \in Chunks :
        /\ G.mem[x].child = H.mem[x].child
        /\ G.mem[x].parent = H.mem[x].parent /\ H.mem[x].parent \in Pointers
        /\ G.mem[x].prev = H.mem[x].prev
        /\ G.mem[x].ptr = H.mem[x].ptr
        /\ G.mem[x].refs # H.mem[x].refs => x = p /\ H.mem[h].hprev = NULL
    BY LinkType DEF Unhung, SameLinks, SiblingFields, PointerFields
<1>3. p # NULL /\ (H.mem[h].hprev = NULL <=> H.mem[p].refs = h) /\ h # NULL
    BY <1>1, ReferenceFacts
<1> HIDE DEF p
<1>4. \A x \in Live(G) : G.mem[x].ptr # NULL => G.mem[x].child = NULL /\ G.mem[x].refs = NULL
    BY <1>1, <1>2, <1>3 DEF Plain
<1>5. \A x \in Chunks : G.mem[x].parent # NULL => G.mem[G.mem[x].parent].ptr = NULL
    BY <1>1, <1>2 DEF Plain, Pointers
<1>6. H.null_context # NULL =>
        /\ G.mem[H.null_context].parent = NULL
        /\ G.mem[H.null_context].prev = NULL
        /\ G.mem[H.null_context].ptr = NULL
    BY <1>1, <1>2 DEF Plain, Pointers
<1> QED BY <1>1, <1>4, <1>5, <1>6 DEF Plain

\* Heaps with the same links keep the same promises.
LEMMA LinksSame ==
    ASSUME NEW H \in Heaps, NEW G, Live(G) = Live(H), G.null_context = H.null_context,
           SameLinks(H, G, PointerFields), NEW S \in SUBSET Live(H)
    PROVE  /\ SiblingsSound(H, S) => SiblingsSound(G, S)
           /\ ReferencesSound(H, S) => ReferencesSound(G, S)
           /\ Plain(H) => Plain(G)
           /\ Vacant(H) => Vacant(G)
<1>1. /\ Live(H) \subseteq Chunks /\ NULL \notin Chunks /\ NULL \notin S
      /\ H.null_context \in Pointers
      /\ \A x \in Chunks : H.mem[x].parent \in Pointers
    BY NullAssumption, LinkType DEF Live, Heaps, PointerFields
<1>2. /\ SameIn(H, G, Live(H), SiblingFields)
      /\ SameIn(H, G, S, ReferenceFields)
    BY <1>1 DEF SameLinks, SameIn, PointerFields, SiblingFields, ReferenceFields
<1>3. SiblingsSound(H, S) => SiblingsSound(G, S)
    BY <1>2, SiblingsSame
<1>4. ReferencesSound(H, S) => ReferencesSound(G, S)
    BY <1>1, <1>2, ReferencesSame
<1>5. \A x \in Chunks : /\ G.mem[x].child = H.mem[x].child /\ G.mem[x].parent = H.mem[x].parent
                        /\ G.mem[x].prev = H.mem[x].prev /\ G.mem[x].ptr = H.mem[x].ptr
                        /\ G.mem[x].refs = H.mem[x].refs
    BY DEF SameLinks, PointerFields
<1>6. Plain(H) => Plain(G)
    BY <1>1, <1>5 DEF Plain, Pointers
<1>7. Vacant(H) => Vacant(G)
    BY <1>1, <1>5 DEF Vacant
<1> QED BY <1>3, <1>4, <1>6, <1>7

-----------------------------------------------------------------------------
(* Freeing. *)

\* A chunk taken out is marked, whatever the heap.
LEMMA TakenOutMarks ==
    ASSUME NEW H \in Heaps, NEW c \in Chunks
    PROVE  LET G == TakenOut(H, c)
           IN  /\ G \in Heaps
               /\ Live(G) = Live(H)
               /\ G.null_context = H.null_context
               /\ G.locked = H.locked
               /\ G.fault = "none" => H.fault = "none" /\ c \in Live(H)
               /\ \A x \in Chunks :
                    /\ G.mem[x].loop = IF x = c THEN TRUE ELSE H.mem[x].loop
                    /\ G.mem[x].destructor = IF x = c THEN "none" ELSE H.mem[x].destructor
<1> DEFINE A == Set(H, c, "destructor", "none")
           B == Detach(A, c)
           G == Set(B, c, "loop", TRUE)
<1>0. "none" \in Destructors
    BY DEF Destructors, UserDestructors
<1>1. Armed(H, A, c, "none")
    BY <1>0, SetDestructor
<1>2. A \in Heaps
    BY <1>1 DEF Armed
<1> HIDE DEF A
<1>3. Mild(A, B)
    BY <1>2, DetachMild
<1>4. B \in Heaps /\ Live(B) = Live(A)
    BY <1>3, MildLive
<1> HIDE DEF B
<1>5. Marked(B, G, c)
    BY <1>4, SetLoop
<1>6. G = TakenOut(H, c)
    BY DEF TakenOut, A, B
<1> HIDE DEF G
<1>7. \A x \in Chunks :
        /\ G.mem[x].loop = IF x = c THEN TRUE ELSE H.mem[x].loop
        /\ G.mem[x].destructor = IF x = c THEN "none" ELSE H.mem[x].destructor
    BY <1>1, <1>3, <1>5 DEF Mild, Armed, Marked
<1>8. /\ G \in Heaps /\ Live(G) = Live(H) /\ G.null_context = H.null_context
      /\ G.fault = "none" => H.fault = "none" /\ c \in Live(H)
    BY <1>1, <1>3, <1>4, <1>5 DEF Mild, Armed, Marked
<1>9. G.locked = H.locked
    BY <1>1, <1>3, <1>5 DEF Mild, Armed, Marked
<1> QED BY <1>6, <1>7, <1>8, <1>9

\* The lists of the others are sound without it.
LEMMA TakenOutSound ==
    ASSUME NEW H \in Heaps, NEW S \in SUBSET Live(H), SiblingsSound(H, S), NEW c \in S
    PROVE  LET G == TakenOut(H, c)
           IN  /\ SiblingsSound(G, S \ {c})
               /\ SameLinks(H, G, ReferenceFields)
               /\ Plain(H) => Plain(G)
<1> DEFINE A == Set(H, c, "destructor", "none")
           B == Detach(A, c)
           G == Set(B, c, "loop", TRUE)
<1>0. "none" \in Destructors /\ c \in Chunks
    BY DEF Destructors, UserDestructors, Live
<1>1. Armed(H, A, c, "none")
    BY <1>0, SetDestructor
<1>2. /\ A \in Heaps /\ Live(A) = Live(H) /\ A.null_context = H.null_context
      /\ SameLinks(H, A, PointerFields)
    BY <1>1 DEF Armed
<1> HIDE DEF A
<1>3. SiblingsSound(A, S) /\ (Plain(H) => Plain(A))
    BY <1>2, LinksSame
<1>4. Quiet(A, B) /\ SameLinks(A, B, ReferenceFields) /\ Left(A, B, c)
    BY <1>2, <1>3, DetachLeft
<1>5. B \in Heaps /\ Live(B) = Live(A)
    BY <1>2, <1>4, QuietLive
<1> HIDE DEF B
<1>6. SiblingsSound(B, S \ {c}) /\ (Plain(A) => Plain(B))
    BY <1>2, <1>3, <1>4, LeftSound, LeftPlain
<1>7. Marked(B, G, c)
    BY <1>0, <1>5, SetLoop
<1>8. G = TakenOut(H, c)
    BY DEF TakenOut, A, B
<1> HIDE DEF G
<1>9. /\ Live(G) = Live(B) /\ G.null_context = B.null_context
      /\ SameLinks(B, G, PointerFields)
    BY <1>7 DEF Marked
<1>10. SiblingsSound(G, S \ {c}) /\ (Plain(B) => Plain(G))
    BY <1>2, <1>5, <1>6, <1>9, LinksSame
<1>11. SameLinks(H, G, ReferenceFields)
    BY <1>2, <1>4, <1>9 DEF SameLinks, ReferenceFields, PointerFields
<1> QED BY <1>3, <1>6, <1>8, <1>10, <1>11

\* The end of _talloc_free (talloc.c:554) changes nothing but that c is free.
LEMMA FreedFacts ==
    ASSUME NEW H \in Heaps, NEW c \in Chunks
    PROVE  LET G == Freed(H, c)
           IN  /\ G \in Heaps
               /\ Live(G) = Live(H) \ {c}
               /\ G.null_context = H.null_context
               /\ G.locked = H.locked
               /\ G.fault = H.fault
               /\ SameLinks(H, G, PointerFields)
               /\ \A x \in Chunks : /\ G.mem[x].loop = H.mem[x].loop
                                    /\ G.mem[x].destructor = H.mem[x].destructor
<1> DEFINE t == H.mem[c]
           u == [t EXCEPT !.free = TRUE]
           m == [H.mem EXCEPT ![c] = u]
           G == Freed(H, c)
<1>1. H.mem \in [Chunks -> ChunkRecords] /\ t \in ChunkRecords
    BY DEF Heaps
<1>2. u \in ChunkRecords /\ u.free /\ u.loop = t.loop /\ u.destructor = t.destructor
    BY <1>1 DEF ChunkRecords
<1>3. \A g \in PointerFields : u[g] = t[g]
    BY <1>1 DEF ChunkRecords, PointerFields
<1>4. G = [H EXCEPT !.mem = m]
    BY DEF Freed
<1> HIDE DEF u
<1>5. m \in [Chunks -> ChunkRecords] /\ \A x \in Chunks : m[x] = IF x = c THEN u ELSE H.mem[x]
    BY <1>1, <1>2
<1> HIDE DEF m
<1>6. /\ G \in Heaps /\ G.mem = m
      /\ G.null_context = H.null_context /\ G.locked = H.locked /\ G.fault = H.fault
    BY <1>4, <1>5 DEF Heaps
<1> HIDE DEF G
<1>7. Live(G) = Live(H) \ {c}
    BY <1>2, <1>5, <1>6 DEF Live
<1>8. SameLinks(H, G, PointerFields)
    BY <1>3, <1>5, <1>6 DEF SameLinks
<1>9. \A x \in Chunks : G.mem[x].loop = H.mem[x].loop /\ G.mem[x].destructor = H.mem[x].destructor
    BY <1>2, <1>5, <1>6
<1> QED BY <1>6, <1>7, <1>8, <1>9 DEF G

\* A chunk without children that is in no list can go.
LEMMA FreedSound ==
    ASSUME NEW H \in Heaps, NEW S \in SUBSET Live(H), NEW c \in Live(H) \ S,
           SiblingsSound(H, S), ReferencesSound(H, S), H.mem[c].child = NULL
    PROVE  LET G == Freed(H, c)
           IN  /\ SiblingsSound(G, S)
               /\ ReferencesSound(G, S)
               /\ Plain(H) => Plain(G)
<1> DEFINE G == Freed(H, c)
<1>0. c \in Chunks /\ Live(H) \subseteq Chunks /\ NULL \notin Chunks /\ NULL \notin S
    BY NullAssumption DEF Live
<1>1. /\ Live(G) = Live(H) \ {c}
      /\ G.null_context = H.null_context /\ H.null_context \in Pointers
      /\ SameLinks(H, G, PointerFields)
    BY <1>0, FreedFacts DEF Heaps
<1> HIDE DEF G
<1>2. \A x \in Chunks : /\ G.mem[x].child = H.mem[x].child
                        /\ G.mem[x].parent = H.mem[x].parent /\ H.mem[x].parent \in Pointers
                        /\ G.mem[x].next = H.mem[x].next
                        /\ G.mem[x].prev = H.mem[x].prev /\ G.mem[x].ptr = H.mem[x].ptr
                        /\ G.mem[x].refs = H.mem[x].refs
    BY <1>1, LinkType DEF SameLinks, PointerFields
<1>3. \A y \in S : H.mem[y].parent # c
    BY <1>0 DEF SiblingsSound, BothWays
<1>4. SiblingsSound(G, S)
  <2>1. \A x \in S :
            /\ {G.mem[x].next, G.mem[x].prev} \subseteq S \cup {NULL}
            /\ G.mem[x].parent \in Live(G) \cup {NULL}
            /\ G.mem[x].parent # NULL => G.mem[x].prev = NULL
    BY <1>0, <1>1, <1>2, <1>3 DEF SiblingsSound
  <2>2. \A x, y \in S : G.mem[x].next = y <=> G.mem[y].prev = x
    BY <1>0, <1>2 DEF SiblingsSound, BothWays
  <2>3. \A x \in Live(G) :
            /\ G.mem[x].child \in S \cup {NULL}
            /\ \A y \in S : G.mem[x].child = y <=> G.mem[y].parent = x
    BY <1>0, <1>1, <1>2 DEF SiblingsSound, BothWays
  <2> QED BY <2>1, <2>2, <2>3 DEF SiblingsSound, BothWays
<1>5. ReferencesSound(G, S)
  <2>1. SameIn(H, G, S, ReferenceFields)
    BY <1>0, <1>1 DEF SameIn, SameLinks, ReferenceFields, PointerFields
  <2> QED BY <2>1, <1>0, ReferencesSame
<1>6. Plain(H) => Plain(G)
    BY <1>0, <1>1, <1>2 DEF Plain, Pointers
<1> QED BY <1>4, <1>5, <1>6 DEF G

-----------------------------------------------------------------------------
(* Between two calls. *)

\* A chunk has the destructor of references just if it is one.
Known(H, S) == \A x \in S : H.mem[x].destructor = "reference" <=> H.mem[x].ptr # NULL

\* What holds between two calls, as long as nothing went wrong.
Good(H) ==
    /\ SiblingsSound(H, Live(H))
    /\ ReferencesSound(H, Live(H))
    /\ Known(H, Live(H))
    /\ Plain(H)
    /\ Vacant(H)
    /\ H.null_context \in Live(H) \cup {NULL}
    /\ \A x \in Chunks : ~H.mem[x].loop /\ H.mem[x].destructor # "running"

\* p may be the parent of a chunk.
Ownable(H, p) == p \in Live(H) \cup {NULL} /\ (p # NULL => H.mem[p].ptr = NULL)

\* What holds between two calls does not depend on the lock and the fault.
LEMMA SameGood ==
    ASSUME NEW H \in Heaps, NEW G, SameChunks(H, G), Good(H)
    PROVE  Good(G)
<1>1. /\ G.mem = H.mem /\ G.null_context = H.null_context /\ Live(G) = Live(H)
    BY DEF SameChunks, Live
<1>2. SameLinks(H, G, PointerFields)
    BY <1>1 DEF SameLinks
<1>3. SiblingsSound(G, Live(G)) /\ ReferencesSound(G, Live(G)) /\ Plain(G) /\ Vacant(G)
    BY <1>1, <1>2, LinksSame DEF Good
<1> QED BY <1>1, <1>3 DEF Good, Known

\* What init_talloc makes of the heap.
LEMMA InitLinks ==
    ASSUME NEW H \in Heaps, SiblingsSound(H, Live(H)),
           NEW parent \in Live(H) \cup {NULL}, NEW c \in Chunks \ Live(H)
    PROVE  LET G == InitTalloc(H, parent, c)
           IN  /\ G.mem[c].child = NULL
               /\ G.mem[c].refs = NULL
               /\ G.mem[c].ptr = NULL
               /\ \A x \in Chunks \ {c}, g \in ReferenceFields : G.mem[x][g] = H.mem[x][g]
               /\ (/\ Plain(H) /\ H.null_context # c
                   /\ parent # NULL => H.mem[parent].ptr = NULL)
                        => Plain(G)
               /\ Vacant(H) => Vacant(G)
<1> DEFINE K == Unlinked(H, parent, c)
           G == InitTalloc(H, parent, c)
           S == Live(H)
<1>0. /\ S \subseteq Chunks /\ NULL \notin Chunks /\ parent \in Pointers /\ c # NULL /\ parent # c
      /\ c \notin S /\ c \in Chunks
    BY NullAssumption DEF Live, Pointers
<1>1. Cleared(H, K, c)
    BY <1>0, UnlinkedCleared
<1>2. parent # NULL => H.mem[parent].child \in Live(H) \cup {NULL}
    BY DEF SiblingsSound
<1>3. /\ Quiet(K, G)
      /\ SameLinks(K, G, ReferenceFields)
      /\ parent = NULL => Alone(K, G, c)
      /\ parent # NULL => Joined(K, G, c, parent)
    BY <1>2, InitJoined
<1> HIDE DEF K, G, S
<1>4. /\ K \in Heaps /\ Live(K) = S \cup {c} /\ K.null_context = H.null_context
      /\ \A x \in Chunks \ {c} : K.mem[x] = H.mem[x]
      /\ \A g \in PointerFields : K.mem[c][g] = NULL
    BY <1>0, <1>1 DEF Cleared, S
<1>5. SiblingsSound(K, S)
  <2>1. SameIn(H, K, S, SiblingFields)
    BY <1>0, <1>4 DEF SameIn
  <2>2. \A x \in Live(K) \ S : K.mem[x].child = NULL
    BY <1>4 DEF PointerFields
  <2> QED BY <2>1, <2>2, <1>4, SiblingsSame DEF S
<1>6. /\ K.mem[c].refs = NULL /\ K.mem[c].ptr = NULL /\ K.mem[c].parent = NULL
      /\ K.mem[c].prev = NULL /\ K.mem[c].child = NULL
    BY <1>4 DEF PointerFields
<1>7. /\ G.mem[c].child = NULL /\ G.mem[c].refs = NULL /\ G.mem[c].ptr = NULL
  <2>1. G.mem[c].child = NULL
    BY <1>0, <1>3, <1>6 DEF Alone, Joined
  <2> QED BY <2>1, <1>0, <1>3, <1>6 DEF SameLinks, ReferenceFields
<1>8. \A x \in Chunks \ {c}, g \in ReferenceFields : G.mem[x][g] = H.mem[x][g]
    BY <1>3, <1>4 DEF SameLinks
<1>9. ASSUME Plain(H), H.null_context # c PROVE Plain(K)
  <2>0. /\ \A x \in Chunks : H.mem[x].parent \in Pointers
        /\ H.null_context \in Pointers
    BY LinkType DEF PointerFields, Heaps
  <2>1. \A x \in Live(K) : K.mem[x].ptr # NULL => K.mem[x].child = NULL /\ K.mem[x].refs = NULL
    BY <1>0, <1>4, <1>6, <1>9 DEF Plain, S
  <2>2. \A x \in Chunks : K.mem[x].parent # NULL => K.mem[K.mem[x].parent].ptr = NULL
    BY <1>0, <1>4, <1>6, <1>9, <2>0 DEF Plain, Pointers
  <2>3. H.null_context # NULL =>
            /\ K.mem[H.null_context].parent = NULL
            /\ K.mem[H.null_context].prev = NULL
            /\ K.mem[H.null_context].ptr = NULL
    BY <1>4, <1>9, <2>0 DEF Plain, Pointers
  <2> QED BY <1>4, <2>1, <2>2, <2>3 DEF Plain
<1>10. ASSUME Vacant(H) PROVE Vacant(K)
    BY <1>4, <1>10 DEF Vacant, S
<1>11. S \in SUBSET Live(K) /\ c \in Live(K) \ S /\ c \in Live(K)
    BY <1>0, <1>4
<1>12. CASE parent = NULL
  <2>1. (Plain(K) => Plain(G)) /\ (Vacant(K) => Vacant(G))
    BY <1>12, <1>3, <1>4, <1>11, AlonePlain
  <2> QED BY <2>1, <1>7, <1>8, <1>9, <1>10 DEF G
<1>13. CASE parent # NULL
  <2>1. parent \in Live(K) /\ parent \in Chunks /\ K.mem[parent].ptr = H.mem[parent].ptr
    BY <1>13, <1>0, <1>4 DEF S
  <2>2. /\ Plain(K) /\ c # K.null_context /\ K.mem[parent].ptr = NULL => Plain(G)
        /\ Vacant(K) => Vacant(G)
    BY <1>13, <2>1, <1>0, <1>3, <1>4, <1>5, <1>11, JoinedPlain
  <2> QED BY <1>13, <2>1, <2>2, <1>4, <1>7, <1>8, <1>9, <1>10 DEF G
<1> QED BY <1>12, <1>13

\* init_talloc (talloc.c:225) keeps it,
LEMMA InitGood ==
    ASSUME NEW H \in Heaps, Good(H), NEW parent, Ownable(H, parent),
           NEW c \in Chunks \ Live(H)
    PROVE  Good(InitTalloc(H, parent, c))
<1> DEFINE G == InitTalloc(H, parent, c)
<1>0. /\ parent \in Live(H) \cup {NULL} /\ parent \in Pointers /\ c # H.null_context
      /\ parent # NULL => H.mem[parent].ptr = NULL
      /\ Live(H) \subseteq Chunks /\ NULL \notin Chunks
    BY NullAssumption DEF Ownable, Good, Live, Pointers
<1>1. /\ Live(G) = Live(H) \cup {c}
      /\ G.null_context = H.null_context
      /\ \A x \in Chunks :
            /\ G.mem[x].loop = (x # c /\ H.mem[x].loop)
            /\ G.mem[x].destructor = IF x = c THEN "none" ELSE H.mem[x].destructor
    BY <1>0, InitMild
<1>2. SiblingsSound(G, Live(G)) /\ ReferencesSound(G, Live(G))
    BY <1>0, <1>1, InitSound DEF Good
<1>3. /\ G.mem[c].ptr = NULL
      /\ \A x \in Chunks \ {c}, g \in ReferenceFields : G.mem[x][g] = H.mem[x][g]
      /\ Plain(G) /\ Vacant(G)
    BY <1>0, InitLinks DEF Good
<1> HIDE DEF G
<1>4. Known(G, Live(G))
    BY <1>0, <1>1, <1>3 DEF Good, Known, ReferenceFields
<1>5. \A x \in Chunks : ~G.mem[x].loop /\ G.mem[x].destructor # "running"
    BY <1>1 DEF Good
<1>6. G.null_context \in Live(G) \cup {NULL}
    BY <1>1 DEF Good
<1> QED BY <1>2, <1>3, <1>4, <1>5, <1>6 DEF Good, G

\* so does __talloc_steal (talloc.c:417),
LEMMA StealGood ==
    ASSUME NEW H \in Heaps, Good(H), NEW new_ctx, Ownable(H, Context(H, new_ctx)),
           NEW c \in Live(H), c # H.null_context
    PROVE  Good(Steal(H, new_ctx, c))
<1> DEFINE G == Steal(H, new_ctx, c)
<1>1. /\ Context(H, new_ctx) \in Live(H) \cup {NULL}
      /\ Context(H, new_ctx) # NULL => H.mem[Context(H, new_ctx)].ptr = NULL
    BY DEF Ownable
<1>2. /\ Quiet(H, G)
      /\ SameLinks(H, G, ReferenceFields)
      /\ SiblingsSound(G, Live(H))
      /\ Plain(G) /\ Vacant(G)
    BY <1>1, StealSound DEF Good
<1> HIDE DEF G
<1>3. /\ Live(G) = Live(H) /\ G.null_context = H.null_context
      /\ \A x \in Chunks : /\ G.mem[x].loop = H.mem[x].loop
                           /\ G.mem[x].destructor = H.mem[x].destructor
    BY <1>2, QuietLive DEF Quiet, Mild
<1>4. Live(H) \subseteq Chunks /\ NULL \notin Live(H)
    BY NullAssumption DEF Live
<1>5. ReferencesSound(G, Live(H))
  <2>1. SameIn(H, G, Live(H), ReferenceFields)
    BY <1>2, <1>4 DEF SameIn, SameLinks
  <2> QED BY <2>1, <1>4, ReferencesSame DEF Good
<1>6. Known(G, Live(G))
    BY <1>2, <1>3, <1>4 DEF Good, Known, SameLinks, ReferenceFields
<1>7. \A x \in Chunks : ~G.mem[x].loop /\ G.mem[x].destructor # "running"
    BY <1>3 DEF Good
<1>8. G.null_context \in Live(G) \cup {NULL}
    BY <1>3 DEF Good
<1> QED BY <1>2, <1>3, <1>5, <1>6, <1>7, <1>8 DEF Good, G

\* _talloc_reference keeps a heap a heap, whatever it is given.
LEMMA ReferenceMild ==
    ASSUME NEW H \in Heaps, NEW context, Context(H, context) \in Pointers,
           NEW p \in Chunks, NEW c \in Chunks
    PROVE  LET G == Reference(H, context, p, c)
           IN  /\ G \in Heaps
               /\ G.locked = H.locked
               /\ G.fault = "none" => H.fault = "none"
<1> DEFINE K == InitTalloc(H, Context(H, context), c)
           A == Set(K, c, "destructor", "reference")
           B == Set(A, c, "ptr", p)
           G == TLIST_ADD(B, References, p, c)
<1>0. "reference" \in Destructors /\ "ptr" \in PointerFields /\ p \in Pointers
    BY DEF Destructors, PointerFields, Pointers
<1>1. K \in Heaps /\ (K.fault = "none" => H.fault = "none")
    BY InitMild
<1>2. K.locked = H.locked
    BY InitMild
<1> HIDE DEF K
<1>3. Armed(K, A, c, "reference")
    BY <1>0, <1>1, SetDestructor
<1>4. A \in Heaps
    BY <1>3 DEF Armed
<1> HIDE DEF A
<1>5. Mild(A, B)
    BY <1>0, <1>4, SetMild
<1>6. B \in Heaps
    BY <1>5, MildLive
<1> HIDE DEF B
<1>7. Mild(B, G)
    BY <1>6, AddMild DEF ListKinds
<1>8. G = Reference(H, context, p, c)
    BY DEF Reference, G, B, A, K
<1> HIDE DEF G
<1>9. G \in Heaps /\ (G.fault = "none" => H.fault = "none")
    BY <1>1, <1>3, <1>5, <1>7 DEF Mild, Armed
<1>10. G.locked = H.locked
    BY <1>2, <1>3, <1>5, <1>7 DEF Mild, Armed
<1> QED BY <1>8, <1>9, <1>10

\* and _talloc_reference (talloc.c:362).
LEMMA ReferenceGood ==
    ASSUME NEW H \in Heaps, Good(H), NEW context, Ownable(H, Context(H, context)),
           NEW p \in Live(H), H.mem[p].ptr = NULL, NEW c \in Chunks \ Live(H)
    PROVE  Good(Reference(H, context, p, c))
<1> DEFINE parent == Context(H, context)
           K == InitTalloc(H, parent, c)
           A == Set(K, c, "destructor", "reference")
           B == Set(A, c, "ptr", p)
           G == TLIST_ADD(B, References, p, c)
           S == Live(H) \cup {c}
           first == A.mem[p].refs
<1>0. /\ "reference" \in Destructors /\ "ptr" \in PointerFields /\ p \in Pointers /\ p \in Chunks
      /\ p # c /\ c \in Chunks /\ p # NULL /\ c # NULL /\ NULL \notin Chunks
      /\ parent \in Pointers /\ parent \in Live(H) \cup {NULL} /\ c # H.null_context
      /\ Live(H) \subseteq Chunks
    BY NullAssumption DEF Destructors, PointerFields, Pointers, Live, Ownable, Good
<1>1. K \in Heaps /\ Live(K) = S /\ K.null_context = H.null_context
    BY <1>0, InitMild
<1>2. Good(K)
    BY <1>0, InitGood
<1>3. /\ K.mem[c].child = NULL
      /\ K.mem[c].refs = NULL
      /\ K.mem[c].ptr = NULL
      /\ K.mem[p].ptr = NULL
    BY <1>0, InitLinks DEF Good, ReferenceFields
<1> HIDE DEF K
<1>4. Armed(K, A, c, "reference")
    BY <1>0, <1>1, SetDestructor
<1> HIDE DEF A
<1>5. /\ A \in Heaps /\ Live(A) = S /\ A.null_context = H.null_context
      /\ SiblingsSound(A, S) /\ ReferencesSound(A, S) /\ Plain(A) /\ Vacant(A)
    BY <1>1, <1>2, <1>4, LinksSame DEF Good, Armed
<1>6. /\ A.mem[c].child = NULL
      /\ A.mem[c].refs = NULL
      /\ A.mem[c].ptr = NULL
      /\ A.mem[p].ptr = NULL
    BY <1>0, <1>3, <1>4 DEF Armed, SameLinks, PointerFields
<1>7. c \in Live(A) /\ p \in Live(A) /\ S \subseteq Chunks
    BY <1>0, <1>5
<1> HIDE DEF S
<1>8. Quiet(A, B) /\ Wrote(A, B, c, "ptr", p)
    BY <1>0, <1>5, <1>7, SetLink
<1>9. B \in Heaps /\ Live(B) = S
    BY <1>5, <1>8, QuietLive
<1> HIDE DEF B
<1>10. B.mem[p].refs = first /\ first \in S \cup {NULL} /\ first # c
  <2>1. B.mem[p].refs = first
    BY <1>0, <1>8 DEF Wrote, PointerFields
  <2>2. first \in S \cup {NULL} /\ (first # NULL => A.mem[first].ptr = p)
    BY <1>5, <1>7, ReferenceFacts
  <2> QED BY <2>1, <2>2, <1>0, <1>6
<1>11. /\ Quiet(B, G)
       /\ \A x \in Chunks, g \in PointerFields :
            G.mem[x][g] = CASE g = "refs" /\ x = p -> c
                            [] g = "hnext" /\ x = c -> first
                            [] g = "hprev" /\ x = c -> NULL
                            [] g = "hprev" /\ x = first /\ x # c -> c
                            [] OTHER -> B.mem[x][g]
  <2> DEFINE L == References
  <2>1. L \in ListKinds /\ L.head = "refs" /\ L.next = "hnext" /\ L.prev = "hprev"
    BY DEF ListKinds, References
  <2> HIDE DEF L
  <2>2. p \in Live(B) /\ c \in Live(B) /\ B.mem[p][L.head] \in Live(B) \cup {NULL}
        /\ B.mem[p][L.head] = first
    BY <2>1, <1>5, <1>7, <1>9, <1>10
  <2> HIDE DEF first
  <2>3. LET R == TLIST_ADD(B, L, p, c)
        IN  /\ Quiet(B, R)
            /\ \A x \in Chunks, g \in PointerFields :
                R.mem[x][g] = CASE g = L.head /\ x = p -> c
                                [] g = L.next /\ x = c -> first
                                [] g = L.prev /\ x = c -> NULL
                                [] g = L.prev /\ x = first /\ x # c -> c
                                [] OTHER -> B.mem[x][g]
    BY <1>9, <2>1, <2>2, ListAdd
  <2>4. G = TLIST_ADD(B, L, p, c)
    BY DEF L
  <2> HIDE DEF G
  <2> QED BY <2>1, <2>3, <2>4
<1>12. G = Reference(H, context, p, c)
    BY DEF Reference, G, B, A, K
<1> HIDE DEF G
<1>13. /\ G \in Heaps /\ Live(G) = S /\ G.null_context = H.null_context
       /\ \A x \in Chunks : /\ G.mem[x].loop = A.mem[x].loop
                            /\ G.mem[x].destructor = A.mem[x].destructor
    BY <1>5, <1>8, <1>9, <1>11, QuietLive DEF Quiet, Mild
<1>14. SameLinks(A, G, SiblingFields)
  <2>1. \A g \in SiblingFields : g \in PointerFields /\ g \notin {"refs", "hnext", "hprev", "ptr"}
    BY DEF SiblingFields, PointerFields
  <2> HIDE DEF first
  <2> QED BY <2>1, <1>8, <1>11 DEF SameLinks, Wrote
<1>15. Hung(A, G, c, p)
  <2> HIDE DEF first
  <2>1. \A x \in Chunks :
        /\ G.mem[x].refs = IF x = p THEN c ELSE A.mem[x].refs
        /\ G.mem[x].ptr = IF x = c THEN p ELSE A.mem[x].ptr
        /\ G.mem[x].hnext = IF x = c THEN first ELSE A.mem[x].hnext
        /\ G.mem[x].hprev = CASE x = c -> NULL
                              [] x = first /\ x # c -> c
                              [] OTHER -> A.mem[x].hprev
    BY <1>8, <1>11 DEF Wrote, PointerFields
  <2> QED BY <2>1 DEF Hung, first
<1>16. ReferencesSound(G, S)
    BY <1>0, <1>5, <1>6, <1>7, <1>15, HungSound
<1>17. SiblingsSound(G, S)
  <2>1. SameIn(A, G, Live(A), SiblingFields)
    BY <1>5, <1>7, <1>14 DEF SameIn, SameLinks
  <2> QED BY <2>1, <1>5, <1>13, SiblingsSame
<1>18. \A x \in Chunks :
        /\ G.mem[x].child = A.mem[x].child /\ G.mem[x].parent = A.mem[x].parent
        /\ G.mem[x].prev = A.mem[x].prev
        /\ A.mem[x].parent \in Pointers
        /\ G.mem[x].refs = IF x = p THEN c ELSE A.mem[x].refs
        /\ G.mem[x].ptr = IF x = c THEN p ELSE A.mem[x].ptr
    BY <1>5, <1>14, <1>15, LinkType DEF SameLinks, SiblingFields, Hung, PointerFields
<1>19. \A x \in Chunks : A.mem[x].parent # c
  <2>1. \A x \in S : A.mem[x].parent # c
    BY <1>0, <1>5, <1>6, <1>7 DEF SiblingsSound, BothWays
  <2>2. \A x \in Chunks \ S : A.mem[x].parent = NULL
    BY <1>5 DEF Vacant
  <2> QED BY <2>1, <2>2, <1>0
<1>20. Plain(G)
  <2>1. \A x \in Live(G) : G.mem[x].ptr # NULL => G.mem[x].child = NULL /\ G.mem[x].refs = NULL
    BY <1>0, <1>5, <1>6, <1>7, <1>13, <1>18 DEF Plain
  <2>2. \A x \in Chunks : G.mem[x].parent # NULL => G.mem[G.mem[x].parent].ptr = NULL
    BY <1>0, <1>5, <1>18, <1>19 DEF Plain, Pointers
  <2>3. H.null_context # NULL =>
            /\ G.mem[H.null_context].parent = NULL
            /\ G.mem[H.null_context].prev = NULL
            /\ G.mem[H.null_context].ptr = NULL
    <3>1. H.null_context \in Pointers
        BY DEF Heaps
    <3> QED BY <3>1, <1>0, <1>5, <1>18 DEF Plain, Pointers
  <2> QED BY <1>13, <2>1, <2>2, <2>3 DEF Plain
<1>21. Vacant(G)
    BY <1>5, <1>13, <1>18 DEF Vacant
<1>22. Known(G, Live(G))
  <2>1. \A x \in S : G.mem[x].destructor = IF x = c THEN "reference" ELSE K.mem[x].destructor
    BY <1>4, <1>7, <1>13 DEF Armed
  <2>2. \A x \in S \ {c} : G.mem[x].ptr = K.mem[x].ptr
    BY <1>4, <1>7, <1>18 DEF Armed, SameLinks, PointerFields
  <2>3. \A x \in S : K.mem[x].destructor = "reference" <=> K.mem[x].ptr # NULL
    BY <1>1, <1>2 DEF Good, Known
  <2>4. G.mem[c].ptr # NULL
    BY <1>0, <1>18
  <2> QED BY <2>1, <2>2, <2>3, <2>4, <1>13 DEF Known
<1>23. \A x \in Chunks : ~G.mem[x].loop /\ G.mem[x].destructor # "running"
    BY <1>2, <1>4, <1>13 DEF Good, Armed
<1>24. G.null_context \in Live(G) \cup {NULL}
    BY <1>1, <1>2, <1>13 DEF Good
<1> QED BY <1>12, <1>13, <1>16, <1>17, <1>20, <1>21, <1>22, <1>23, <1>24 DEF Good

-----------------------------------------------------------------------------
(* Resizing. *)

\* The heap with p moved to c, before its neighbours are told.
Copied(H, p, c) == [H EXCEPT !.mem[c] = H.mem[p], !.mem[p] = Blank]

\* What realloc copied.
LEMMA CopiedFacts ==
    ASSUME NEW H \in Heaps, NEW p \in Chunks, NEW c \in Chunks, p # c
    PROVE  LET K == Copied(H, p, c)
           IN  /\ K \in Heaps
               /\ K.null_context = H.null_context
               /\ K.locked = H.locked
               /\ K.fault = H.fault
               /\ K.mem[c] = H.mem[p]
               /\ \A x \in Chunks \ {p, c} : K.mem[x] = H.mem[x]
               /\ K.mem[p].free /\ ~K.mem[p].loop /\ K.mem[p].destructor = "none"
               /\ \A g \in PointerFields : K.mem[p][g] = NULL
<1> DEFINE K == Copied(H, p, c)
           b == Blank
           m == [H.mem EXCEPT ![c] = H.mem[p], ![p] = b]
<1>1. /\ b \in ChunkRecords /\ b.free /\ ~b.loop /\ b.destructor = "none"
      /\ \A g \in PointerFields : b[g] = NULL
  <2>1. b \in ChunkRecords
    BY DEF Blank, ChunkRecords, Pointers, Destructors, UserDestructors
  <2>2. b.free /\ ~b.loop /\ b.destructor = "none"
    BY DEF Blank
  <2>3. \A g \in PointerFields : b[g] = NULL
    BY DEF Blank, PointerFields
  <2> QED BY <2>1, <2>2, <2>3
<1>2. K = [H EXCEPT !.mem = m]
    BY DEF Copied, b
<1> HIDE DEF b
<1>3. H.mem \in [Chunks -> ChunkRecords]
    BY DEF Heaps
<1>4. /\ m \in [Chunks -> ChunkRecords]
      /\ \A x \in Chunks : m[x] = IF x = p THEN b ELSE IF x = c THEN H.mem[p] ELSE H.mem[x]
    BY <1>1, <1>3
<1> HIDE DEF m
<1>5. /\ K \in Heaps /\ K.mem = m
      /\ K.null_context = H.null_context /\ K.locked = H.locked /\ K.fault = H.fault
    BY <1>2, <1>4 DEF Heaps
<1> HIDE DEF K
<1> QED BY <1>1, <1>4, <1>5 DEF K

\* A store to a neighbour, if there is one; what was stored to is live.
LEMMA StoreFacts ==
    ASSUME NEW H \in Heaps, NEW c \in Pointers, NEW f \in PointerFields, NEW v \in Pointers
    PROVE  LET G == Store(H, c, f, v)
           IN  /\ Mild(H, G)
               /\ Wrote(H, G, c, f, v)
               /\ G.fault = "none" => c \in Live(H) \cup {NULL}
<1>1. CASE c = NULL
    BY <1>1, NullAssumption DEF Store, Mild, Wrote
<1>2. CASE c # NULL
  <2>1. c \in Chunks
    BY <1>2 DEF Pointers
  <2>2. Store(H, c, f, v) = Set(H, c, f, v)
    BY <1>2 DEF Store
  <2> QED BY <2>1, <2>2, SetMild
<1> QED BY <1>1, <1>2

\* From H to G the links to p became links to c.
Renamed(H, G, p, c) ==
    /\ \A x \in Chunks \ {p, c} :
        /\ G.mem[x].child = IF x = H.mem[p].parent THEN c ELSE H.mem[x].child
        /\ G.mem[x].parent = IF x = H.mem[p].child THEN c ELSE H.mem[x].parent
        /\ G.mem[x].next = IF x = H.mem[p].prev THEN c ELSE H.mem[x].next
        /\ G.mem[x].prev = IF x = H.mem[p].next THEN c ELSE H.mem[x].prev
        /\ \A g \in ReferenceFields : G.mem[x][g] = H.mem[x][g]
    /\ \A g \in PointerFields : G.mem[c][g] = H.mem[p][g] /\ G.mem[p][g] = NULL

\* realloc keeps a heap a heap. No neighbour is p itself.
LEMMA MovedFacts ==
    ASSUME NEW H \in Heaps, NEW p \in Chunks, NEW c \in Chunks, p # c
    PROVE  LET G == Moved(H, p, c)
           IN  /\ Mild(Copied(H, p, c), G)
               /\ G.fault = "none" =>
                    {H.mem[p].parent, H.mem[p].child, H.mem[p].prev, H.mem[p].next} \subseteq
                        Live(Copied(H, p, c)) \cup {NULL}
               /\ c \notin {H.mem[p].parent, H.mem[p].child, H.mem[p].prev, H.mem[p].next}
                  /\ p \notin {H.mem[p].parent, H.mem[p].child, H.mem[p].prev, H.mem[p].next}
                    => Renamed(H, G, p, c)
<1> DEFINE K == Copied(H, p, c)
           parent == H.mem[p].parent
           child == H.mem[p].child
           prev == H.mem[p].prev
           next == H.mem[p].next
           A == Store(K, parent, "child", c)
           B == Store(A, child, "parent", c)
           C == Store(B, prev, "next", c)
           G == Store(C, next, "prev", c)
<1>0. /\ {"child", "parent", "prev", "next"} \subseteq PointerFields
      /\ parent \in Pointers /\ child \in Pointers /\ prev \in Pointers /\ next \in Pointers
      /\ c \in Pointers /\ p # NULL /\ c # NULL
    BY LinkType, NullAssumption DEF PointerFields, Pointers
<1>1. G = Moved(H, p, c)
    BY DEF Moved, Copied
<1>2. /\ K \in Heaps
      /\ K.mem[c] = H.mem[p]
      /\ \A x \in Chunks \ {p, c} : K.mem[x] = H.mem[x]
      /\ \A g \in PointerFields : K.mem[p][g] = NULL
    BY CopiedFacts
<1> HIDE DEF K, parent, child, prev, next
<1>3. /\ Mild(K, A) /\ Wrote(K, A, parent, "child", c)
      /\ A.fault = "none" => parent \in Live(K) \cup {NULL}
    BY <1>0, <1>2, StoreFacts
<1>4. A \in Heaps /\ Live(A) = Live(K)
    BY <1>3, MildLive
<1> HIDE DEF A
<1>5. /\ Mild(A, B) /\ Wrote(A, B, child, "parent", c)
      /\ B.fault = "none" => child \in Live(A) \cup {NULL}
    BY <1>0, <1>4, StoreFacts
<1>6. B \in Heaps /\ Live(B) = Live(K)
    BY <1>4, <1>5, MildLive
<1> HIDE DEF B
<1>7. /\ Mild(B, C) /\ Wrote(B, C, prev, "next", c)
      /\ C.fault = "none" => prev \in Live(B) \cup {NULL}
    BY <1>0, <1>6, StoreFacts
<1>8. C \in Heaps /\ Live(C) = Live(K)
    BY <1>6, <1>7, MildLive
<1> HIDE DEF C
<1>9. /\ Mild(C, G) /\ Wrote(C, G, next, "prev", c)
      /\ G.fault = "none" => next \in Live(C) \cup {NULL}
    BY <1>0, <1>8, StoreFacts
<1> HIDE DEF G
<1>10. Mild(K, G)
    BY <1>3, <1>5, <1>7, <1>9, MildTwice
<1>11. G.fault = "none" => {parent, child, prev, next} \subseteq Live(K) \cup {NULL}
    BY <1>3, <1>4, <1>5, <1>6, <1>7, <1>8, <1>9 DEF Mild
<1>12. \A x \in Chunks, g \in PointerFields :
        G.mem[x][g] = CASE g = "child" /\ x = parent -> c
                        [] g = "parent" /\ x = child -> c
                        [] g = "next" /\ x = prev -> c
                        [] g = "prev" /\ x = next -> c
                        [] OTHER -> K.mem[x][g]
    BY <1>3, <1>5, <1>7, <1>9 DEF Wrote
<1>13. ASSUME c \notin {parent, child, prev, next}, p \notin {parent, child, prev, next}
       PROVE  Renamed(H, G, p, c)
  <2>1. \A x \in Chunks \ {p, c} :
        /\ G.mem[x].child = IF x = parent THEN c ELSE H.mem[x].child
        /\ G.mem[x].parent = IF x = child THEN c ELSE H.mem[x].parent
        /\ G.mem[x].next = IF x = prev THEN c ELSE H.mem[x].next
        /\ G.mem[x].prev = IF x = next THEN c ELSE H.mem[x].prev
    BY <1>0, <1>2, <1>12
  <2>2. \A x \in Chunks \ {p, c}, g \in ReferenceFields : G.mem[x][g] = H.mem[x][g]
    <3>1. \A g \in ReferenceFields : g \in PointerFields /\ g \notin {"child", "parent", "next", "prev"}
        BY DEF ReferenceFields, PointerFields
    <3> QED BY <3>1, <1>2, <1>12
  <2>3. \A g \in PointerFields : G.mem[c][g] = H.mem[p][g] /\ G.mem[p][g] = NULL
    BY <1>2, <1>12, <1>13
  <2> QED BY <2>1, <2>2, <2>3 DEF Renamed, parent, child, prev, next
<1> QED BY <1>1, <1>10, <1>11, <1>13 DEF K, parent, child, prev, next

\* The list of a chunk that got a new address is sound when its neighbours know it.
LEMMA RenamedSiblings ==
    ASSUME NEW H \in Heaps, NEW S \in SUBSET Chunks, S = Live(H), SiblingsSound(H, S),
           NEW p \in S, NEW c \in Chunks, c \notin S,
           p \notin {H.mem[p].parent, H.mem[p].child, H.mem[p].prev, H.mem[p].next},
           NEW G, Renamed(H, G, p, c), Live(G) = (S \ {p}) \cup {c}
    PROVE  SiblingsSound(G, Live(G))
<1> DEFINE parent == H.mem[p].parent
           child == H.mem[p].child
           prev == H.mem[p].prev
           next == H.mem[p].next
           T == (S \ {p}) \cup {c}
<1>0. NULL \notin S /\ p # NULL /\ c # NULL /\ p # c /\ p \in Chunks /\ T \subseteq Chunks
    BY NullAssumption
<1>1. /\ \A x \in S : /\ H.mem[x].next \in S \cup {NULL} /\ H.mem[x].prev \in S \cup {NULL}
                      /\ H.mem[x].parent \in S \cup {NULL} /\ H.mem[x].child \in S \cup {NULL}
                      /\ H.mem[x].parent # NULL => H.mem[x].prev = NULL
      /\ \A x, y \in S : H.mem[x].next = y <=> H.mem[y].prev = x
      /\ \A x, y \in S : H.mem[x].child = y <=> H.mem[y].parent = x
    BY DEF SiblingsSound, BothWays
<1>2. /\ \A x \in S \ {p} :
            /\ G.mem[x].child = IF x = parent THEN c ELSE H.mem[x].child
            /\ G.mem[x].parent = IF x = child THEN c ELSE H.mem[x].parent
            /\ G.mem[x].next = IF x = prev THEN c ELSE H.mem[x].next
            /\ G.mem[x].prev = IF x = next THEN c ELSE H.mem[x].prev
      /\ G.mem[c].child = child /\ G.mem[c].parent = parent
      /\ G.mem[c].next = next /\ G.mem[c].prev = prev
    BY DEF Renamed, PointerFields
<1>3. /\ {parent, child, prev, next} \subseteq (S \ {p}) \cup {NULL}
      /\ parent # NULL => prev = NULL
    BY <1>1
<1>4. \A x \in S \ {p} : /\ H.mem[x].child = p <=> x = parent
                         /\ H.mem[x].parent = p <=> x = child
                         /\ H.mem[x].next = p <=> x = prev
                         /\ H.mem[x].prev = p <=> x = next
    BY <1>1
<1> HIDE DEF parent, child, prev, next
<1>5. \A x \in T :
        /\ {G.mem[x].next, G.mem[x].prev} \subseteq T \cup {NULL}
        /\ G.mem[x].parent \in T \cup {NULL}
        /\ G.mem[x].child \in T \cup {NULL}
    BY <1>0, <1>1, <1>2, <1>3, <1>4
<1>6. \A x \in T : G.mem[x].parent # NULL => G.mem[x].prev = NULL
  <2>1. child # NULL => H.mem[child].prev = NULL
    BY <1>0, <1>1, <1>3, <1>4
  <2>2. next # NULL => H.mem[next].parent = NULL
    BY <1>0, <1>1, <1>3, <1>4
  <2>3. child # NULL => child # next
    BY <1>0, <1>1, <1>3, <1>4
  <2> QED BY <2>1, <2>2, <2>3, <1>0, <1>1, <1>2, <1>3
<1>7. \A x, y \in T : G.mem[x].next = y <=> G.mem[y].prev = x
  <2>1. \A x, y \in S \ {p} : G.mem[x].next = y <=> G.mem[y].prev = x
    BY <1>0, <1>1, <1>2, <1>3, <1>4
  <2>2. \A y \in S \ {p} : G.mem[c].next = y <=> G.mem[y].prev = c
    BY <1>0, <1>1, <1>2, <1>3
  <2>3. \A x \in S \ {p} : G.mem[x].next = c <=> G.mem[c].prev = x
    BY <1>0, <1>1, <1>2, <1>3
  <2>4. G.mem[c].next # c /\ G.mem[c].prev # c
    BY <1>0, <1>2, <1>3
  <2> QED BY <2>1, <2>2, <2>3, <2>4
<1>8. \A x, y \in T : G.mem[x].child = y <=> G.mem[y].parent = x
  <2>1. \A x, y \in S \ {p} : G.mem[x].child = y <=> G.mem[y].parent = x
    BY <1>0, <1>1, <1>2, <1>3, <1>4
  <2>2. \A y \in S \ {p} : G.mem[c].child = y <=> G.mem[y].parent = c
    BY <1>0, <1>1, <1>2, <1>3
  <2>3. \A x \in S \ {p} : G.mem[x].child = c <=> G.mem[c].parent = x
    BY <1>0, <1>1, <1>2, <1>3
  <2>4. G.mem[c].child # c /\ G.mem[c].parent # c
    BY <1>0, <1>2, <1>3
  <2> QED BY <2>1, <2>2, <2>3, <2>4
<1> HIDE DEF T
<1>9. Live(G) = T
    BY DEF T
<1> QED BY <1>5, <1>6, <1>7, <1>8, <1>9 DEF SiblingsSound, BothWays

\* _talloc_realloc (talloc.c:840) keeps what holds between two calls.
LEMMA MovedGood ==
    ASSUME NEW H \in Heaps, Good(H), NEW p \in Live(H), p # H.null_context,
           H.mem[p].refs = NULL, H.mem[p].ptr = NULL, NEW c \in Chunks \ Live(H),
           Moved(H, p, c).fault = "none"
    PROVE  Good(Moved(H, p, c))
<1> DEFINE K == Copied(H, p, c)
           G == Moved(H, p, c)
           S == Live(H)
           T == (S \ {p}) \cup {c}
           near == {H.mem[p].parent, H.mem[p].child, H.mem[p].prev, H.mem[p].next}
<1>0. /\ S \subseteq Chunks /\ NULL \notin Chunks /\ p \in Chunks /\ c \in Chunks /\ p # c
      /\ c \notin S /\ c # NULL /\ p # NULL /\ c # H.null_context /\ T \subseteq Chunks
    BY NullAssumption DEF Live, Good
<1>1. /\ K \in Heaps /\ K.null_context = H.null_context
      /\ K.mem[c] = H.mem[p]
      /\ \A x \in Chunks \ {p, c} : K.mem[x] = H.mem[x]
      /\ K.mem[p].free /\ ~K.mem[p].loop /\ K.mem[p].destructor = "none"
    BY <1>0, CopiedFacts
<1>2. Live(K) = T
    BY <1>0, <1>1 DEF Live
<1>3. /\ Mild(K, G)
      /\ G.fault = "none" => near \subseteq Live(K) \cup {NULL}
      /\ c \notin near /\ p \notin near => Renamed(H, G, p, c)
    BY <1>0, MovedFacts
<1>4. near \subseteq S \cup {NULL}
    BY SiblingFacts DEF Good
<1> HIDE DEF near
<1>5. c \notin near /\ p \notin near
    BY <1>0, <1>2, <1>3, <1>4
<1>6. Renamed(H, G, p, c)
    BY <1>3, <1>5
<1>7. Live(G) = T /\ G.null_context = H.null_context
    BY <1>1, <1>2, <1>3, MildLive DEF Mild
<1>8. \A x \in Chunks : /\ G.mem[x].loop = K.mem[x].loop
                        /\ G.mem[x].destructor = K.mem[x].destructor
    BY <1>3 DEF Mild
<1> HIDE DEF K, G
<1>9. SiblingsSound(G, Live(G))
    BY <1>0, <1>5, <1>6, <1>7, RenamedSiblings DEF Good, near
<1>10. /\ G.mem[c].refs = NULL /\ G.mem[c].ptr = NULL
       /\ G.mem[c].hnext = NULL /\ G.mem[c].hprev = NULL
       /\ G.mem[c].child = H.mem[p].child /\ G.mem[c].parent = H.mem[p].parent
       /\ G.mem[p].parent = NULL
    BY <1>6, ReferenceFacts DEF Good, Renamed, PointerFields
<1>11. ReferencesSound(G, T)
  <2>1. ReferencesSound(H, S \ {p})
    BY <1>0, ReferencesWithout DEF Good
  <2>2. SameIn(H, G, S \ {p}, ReferenceFields)
    BY <1>0, <1>6 DEF Renamed, SameIn
  <2>3. ReferencesSound(G, S \ {p})
    BY <2>1, <2>2, <1>0, ReferencesSame
  <2> QED BY <2>3, <1>0, <1>10, ReferencesWith
<1>12. /\ \A x \in Chunks \ {p, c} :
            /\ G.mem[x].child = IF x = H.mem[p].parent THEN c ELSE H.mem[x].child
            /\ G.mem[x].parent = IF x = H.mem[p].child THEN c ELSE H.mem[x].parent
            /\ G.mem[x].prev = IF x = H.mem[p].next THEN c ELSE H.mem[x].prev
            /\ G.mem[x].ptr = H.mem[x].ptr /\ G.mem[x].refs = H.mem[x].refs
       /\ \A x \in Chunks : H.mem[x].parent \in Pointers
    BY <1>6, LinkType DEF Renamed, ReferenceFields, PointerFields
<1>13. /\ H.mem[p].parent # NULL => H.mem[H.mem[p].parent].child = p
       /\ H.mem[p].child # NULL => H.mem[H.mem[p].child].parent = p
       /\ H.mem[p].next # NULL => H.mem[H.mem[p].next].prev = p
  <2>1. H.mem[p].parent # NULL => H.mem[H.mem[p].parent].child = p
    BY SiblingFacts DEF Good
  <2>2. H.mem[p].next # NULL => H.mem[H.mem[p].next].prev = p
    BY SiblingFacts DEF Good
  <2>3. H.mem[p].child # NULL => H.mem[H.mem[p].child].parent = p
    BY DEF Good, SiblingsSound, BothWays
  <2> QED BY <2>1, <2>2, <2>3
<1>14. \A x \in S \ {p} : H.mem[x].parent # NULL => H.mem[x].parent \in S
    BY DEF Good, SiblingsSound
<1>15. \A x \in Chunks \ S : H.mem[x].parent = NULL
    BY DEF Good, Vacant
<1>16. Plain(G)
  <2>0. Plain(H)
    BY DEF Good
  <2>1. \A x \in T : G.mem[x].ptr # NULL => G.mem[x].child = NULL /\ G.mem[x].refs = NULL
    BY <2>0, <1>0, <1>10, <1>12, <1>13 DEF Plain
  <2>2. \A x \in Chunks : G.mem[x].parent # NULL => G.mem[G.mem[x].parent].ptr = NULL
    <3>1. \A x \in S : H.mem[x].parent = p => x = H.mem[p].child
        BY DEF Good, SiblingsSound, BothWays
    <3>2. \A x \in Chunks \ {p, c} : G.mem[x].parent # NULL => G.mem[G.mem[x].parent].ptr = NULL
        BY <2>0, <3>1, <1>0, <1>10, <1>12, <1>14, <1>15 DEF Plain
    <3>3. G.mem[c].parent # NULL => G.mem[G.mem[c].parent].ptr = NULL
      <4>1. H.mem[p].parent # p /\ (H.mem[p].parent # NULL => H.mem[p].parent \in S)
        BY <1>5 DEF near, Good, SiblingsSound
      <4> QED BY <4>1, <2>0, <1>0, <1>10, <1>12 DEF Plain
    <3> QED BY <3>2, <3>3, <1>10
  <2>3. ASSUME H.null_context # NULL
        PROVE  /\ G.mem[H.null_context].parent = NULL
               /\ G.mem[H.null_context].prev = NULL
               /\ G.mem[H.null_context].ptr = NULL
    <3>1. H.null_context \in Chunks \ {p, c}
        BY <2>3, <1>0 DEF Heaps, Pointers
    <3>2. H.null_context # H.mem[p].child /\ H.null_context # H.mem[p].next
        BY <2>0, <2>3, <1>0, <1>13 DEF Plain
    <3> QED BY <2>0, <2>3, <3>1, <3>2, <1>12 DEF Plain
  <2> QED BY <1>7, <2>1, <2>2, <2>3 DEF Plain
<1>17. Vacant(G)
  <2>1. ASSUME NEW x \in Chunks \ T PROVE G.mem[x].parent = NULL
    <3>1. CASE x = p
        BY <3>1, <1>10
    <3>2. CASE x # p
        <4>1. x \in Chunks \ {p, c} /\ x \notin S
            BY <3>2, <2>1
        <4>2. H.mem[p].child \in S \cup {NULL}
            BY <1>4 DEF near
        <4>3. x # H.mem[p].child
            BY <4>1, <4>2, <1>0
        <4> QED BY <4>1, <4>3, <1>12, <1>15
    <3> QED BY <3>1, <3>2
  <2> QED BY <2>1, <1>7 DEF Vacant
<1>18. Known(G, Live(G))
    BY <1>0, <1>1, <1>7, <1>8, <1>10, <1>12 DEF Good, Known
<1>19. \A x \in Chunks : ~G.mem[x].loop /\ G.mem[x].destructor # "running"
  <2>1. \A x \in Chunks : ~H.mem[x].loop /\ H.mem[x].destructor # "running"
    BY DEF Good
  <2> QED BY <2>1, <1>0, <1>1, <1>8
<1>20. G.null_context \in Live(G) \cup {NULL}
    BY <1>7 DEF Good
<1>21. ReferencesSound(G, Live(G))
    BY <1>7, <1>11
<1> QED BY <1>9, <1>16, <1>17, <1>18, <1>19, <1>20, <1>21 DEF Good, G

==============================================================================
