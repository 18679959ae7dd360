----------------------------- MODULE ListProofs ------------------------------
(***************************************************************************)
(* The operations of ccan/list keep the rings of any number of lists with  *)
(* any number of nodes, and a loop stays in its list.                      *)
(*                                                                         *)
(* RingSound is not inductive alone: that a store to the links of one item *)
(* disturbs no other needs the positions of all lists to hold different    *)
(* nodes (Apart). The lemmas about the three changes of a ring are about   *)
(* any links n and p and any lists o.                                      *)
(***************************************************************************)
EXTENDS List, SequenceTheorems, NaturalsInduction, WellFoundedInduction, TLAPS

\* The lists o and links n and p of the right types.
Linked(n, p, o) ==
    /\ n \in [Items -> Items \cup {NULL}]
    /\ p \in [Items -> Items \cup {NULL}]
    /\ o \in [Heads -> Seq(Nodes)]

\* What stands at position k of the ring of h.
Pos(o, h, k) == IF k \in 1 .. Len(o[h]) THEN o[h][k] ELSE h

\* No node is twice in the lists.
Apart(o) ==
    \A g, h \in Heads : \A j \in 1 .. Len(o[g]), k \in 1 .. Len(o[h]) :
        o[g][j] = o[h][k] => g = h /\ j = k

\* The links hold the lists.
Rings(n, p, o) ==
    \A h \in Heads : \A k \in 0 .. Len(o[h]) :
        n[Pos(o, h, k)] = Pos(o, h, k + 1) /\ p[Pos(o, h, k + 1)] = Pos(o, h, k)

Sound(n, p, o) == Linked(n, p, o) /\ Apart(o) /\ Rings(n, p, o)

\* x is in no list.
Outside(o, x) == \A h \in Heads : \A k \in 1 .. Len(o[h]) : o[h][k] # x

\* The types of what is not in the rings.
Locals ==
    /\ debug \in BOOLEAN /\ aborted \in BOOLEAN /\ added \in BOOLEAN
    /\ loop \in Loops \cup {NULL}
    /\ stay \subseteq Nodes /\ seen \in Seq(Nodes)

\* The inductive invariant.
ListInv == Locals /\ Sound(next, prev, order) /\ LoopInside

-----------------------------------------------------------------------------
(* Positions. *)

\* A position holds an item, the node that stands there or the head.
LEMMA PosItem ==
    ASSUME NEW o \in [Heads -> Seq(Nodes)], NEW h \in Heads, NEW k \in Int
    PROVE  /\ Len(o[h]) \in Nat
           /\ Pos(o, h, k) \in Items
           /\ k \in 1 .. Len(o[h]) => Pos(o, h, k) = o[h][k] /\ o[h][k] \in Nodes
           /\ k \notin 1 .. Len(o[h]) => Pos(o, h, k) = h
<1>1. o[h] \in Seq(Nodes)
    OBVIOUS
<1>2. Len(o[h]) \in Nat /\ \A i \in 1 .. Len(o[h]) : o[h][i] \in Nodes
    BY <1>1
<1> QED BY <1>2 DEF Pos, Items

\* Positions with the same item are the same, or both are the head of one list.
LEMMA PosApart ==
    ASSUME NEW o \in [Heads -> Seq(Nodes)], Apart(o),
           NEW g \in Heads, NEW h \in Heads, NEW j \in Int, NEW k \in Int,
           Pos(o, g, j) = Pos(o, h, k)
    PROVE  /\ g = h
           /\ j = k \/ (j \notin 1 .. Len(o[g]) /\ k \notin 1 .. Len(o[g]))
<1>1. /\ j \in 1 .. Len(o[g]) => Pos(o, g, j) = o[g][j] /\ o[g][j] \in Nodes
      /\ j \notin 1 .. Len(o[g]) => Pos(o, g, j) = g
    BY PosItem
<1>2. /\ k \in 1 .. Len(o[h]) => Pos(o, h, k) = o[h][k] /\ o[h][k] \in Nodes
      /\ k \notin 1 .. Len(o[h]) => Pos(o, h, k) = h
    BY PosItem
<1> QED BY <1>1, <1>2, ListAssumption DEF Apart

\* A node in no list is at no position.
LEMMA PosOutside ==
    ASSUME NEW o \in [Heads -> Seq(Nodes)], NEW x \in Nodes, Outside(o, x),
           NEW h \in Heads, NEW k \in Int
    PROVE  Pos(o, h, k) # x
<1>1. k \in 1 .. Len(o[h]) => Pos(o, h, k) = o[h][k]
    BY PosItem
<1>2. k \notin 1 .. Len(o[h]) => Pos(o, h, k) = h
    BY PosItem
<1> QED BY <1>1, <1>2, ListAssumption DEF Outside

-----------------------------------------------------------------------------
(* The changes of a ring. *)

\* list_add (list.h:113) puts x between the head and the first node.
LEMMA AddSound ==
    ASSUME NEW n, NEW p, NEW o, Sound(n, p, o), NEW h \in Heads, NEW x \in Nodes, Outside(o, x)
    PROVE  Sound([n EXCEPT ![x] = n[h], ![h] = x],
                 [p EXCEPT ![x] = h, ![n[h]] = x],
                 [o EXCEPT ![h] = <<x>> \o @])
<1> DEFINE n2 == [n EXCEPT ![x] = n[h], ![h] = x]
           p2 == [p EXCEPT ![x] = h, ![n[h]] = x]
           o2 == [o EXCEPT ![h] = <<x>> \o @]
           L == Len(o[h])
<1>1. /\ n \in [Items -> Items \cup {NULL}] /\ p \in [Items -> Items \cup {NULL}]
      /\ o \in [Heads -> Seq(Nodes)] /\ Apart(o) /\ Rings(n, p, o)
    BY DEF Sound, Linked
<1>2. x \in Items /\ h \in Items /\ x # h
    BY ListAssumption DEF Items
<1>3. n[h] = Pos(o, h, 1) /\ n[h] \in Items /\ n[h] # x /\ L \in Nat
  <2>1. L \in Nat /\ Pos(o, h, 0) = h /\ Pos(o, h, 1) \in Items
    BY <1>1, PosItem
  <2>2. Pos(o, h, 1) # x
    BY <1>1, PosOutside
  <2> QED BY <1>1, <2>1, <2>2 DEF Rings
<1>4. /\ <<x>> \o o[h] \in Seq(Nodes)
      /\ Len(<<x>> \o o[h]) = L + 1
      /\ \A i \in 1 .. L + 1 : (<<x>> \o o[h])[i] = IF i = 1 THEN x ELSE o[h][i - 1]
  <2>1. <<x>> \in Seq(Nodes) /\ Len(<<x>>) = 1 /\ <<x>>[1] = x /\ o[h] \in Seq(Nodes)
    BY <1>1
  <2>2. /\ <<x>> \o o[h] \in Seq(Nodes)
        /\ Len(<<x>> \o o[h]) = 1 + L
        /\ \A i \in 1 .. 1 + L : (<<x>> \o o[h])[i] =
                    IF i <= 1 THEN <<x>>[i] ELSE o[h][i - 1]
    BY <2>1, ConcatProperties
  <2> QED BY <1>3, <2>1, <2>2
<1>5. /\ o2 \in [Heads -> Seq(Nodes)]
      /\ o2[h] = <<x>> \o o[h]
      /\ \A g \in Heads \ {h} : o2[g] = o[g]
    BY <1>1, <1>4
<1>6. Linked(n2, p2, o2)
    BY <1>1, <1>2, <1>3, <1>5 DEF Linked
<1>7. /\ Len(o2[h]) = L + 1
      /\ \A k \in 0 .. L + 2 :
            Pos(o2, h, k) = IF k = 0 THEN h ELSE IF k = 1 THEN x ELSE Pos(o, h, k - 1)
      /\ \A g \in Heads \ {h} : \A k \in Int : Pos(o2, g, k) = Pos(o, g, k)
    BY <1>3, <1>4, <1>5 DEF Pos
<1> HIDE DEF o2
<1>8. Apart(o2)
  <2>1. \A i \in 1 .. Len(o2[h]) :
            \/ i = 1 /\ o2[h][i] = x
            \/ i - 1 \in 1 .. L /\ o2[h][i] = o[h][i - 1]
    BY <1>3, <1>4, <1>5
  <2>2. \A g \in Heads \ {h} : \A i \in 1 .. Len(o2[g]) : i \in 1 .. Len(o[g]) /\ o2[g][i] = o[g][i]
    BY <1>5
  <2>3. \A g \in Heads \ {h} : \A i \in 1 .. Len(o[g]), j \in 1 .. L : o[g][i] # o[h][j]
    BY <1>1 DEF Apart
  <2>4. \A g \in Heads : \A i \in 1 .. Len(o[g]) : o[g][i] # x
    BY DEF Outside
  <2>5. \A i, j \in 1 .. Len(o2[h]) : o2[h][i] = o2[h][j] => i = j
    BY <1>1, <1>3, <1>7, <2>1, <2>4 DEF Apart
  <2>6. ASSUME NEW g \in Heads \ {h}, NEW i \in 1 .. Len(o2[g]), NEW j \in 1 .. Len(o2[h])
        PROVE  o2[g][i] # o2[h][j]
    <3>1. i \in 1 .. Len(o[g]) /\ o2[g][i] = o[g][i]
        BY <2>2
    <3>2. \/ o2[h][j] = x
          \/ j - 1 \in 1 .. L /\ o2[h][j] = o[h][j - 1]
        BY <2>1
    <3>3. CASE o2[h][j] = x
        BY <2>4, <3>1, <3>3
    <3>4. CASE j - 1 \in 1 .. L /\ o2[h][j] = o[h][j - 1]
        BY <2>3, <3>1, <3>4
    <3> QED BY <3>2, <3>3, <3>4
  <2>7. \A f, g \in Heads \ {h} : \A i \in 1 .. Len(o2[f]), j \in 1 .. Len(o2[g]) :
            o2[f][i] = o2[g][j] => f = g /\ i = j
    BY <1>1, <2>2 DEF Apart
  <2> QED BY <2>5, <2>6, <2>7 DEF Apart
<1>9. ASSUME NEW g \in Heads, NEW k \in 0 .. Len(o2[g])
      PROVE  n2[Pos(o2, g, k)] = Pos(o2, g, k + 1) /\ p2[Pos(o2, g, k + 1)] = Pos(o2, g, k)
  <2>1. CASE g # h
    <3>1. k \in 0 .. Len(o[g]) /\ Len(o[g]) \in Nat /\ k \in Int /\ k + 1 \in Int
        BY <1>1, <1>5, <2>1, PosItem
    <3>2. /\ n[Pos(o, g, k)] = Pos(o, g, k + 1) /\ p[Pos(o, g, k + 1)] = Pos(o, g, k)
        BY <1>1, <3>1 DEF Rings
    <3>3. /\ Pos(o, g, k) \in Items /\ Pos(o, g, k + 1) \in Items
          /\ Pos(o, g, k) # x /\ Pos(o, g, k + 1) # x
        BY <1>1, <3>1, PosItem, PosOutside
    <3>4. Pos(o, g, k) # h
      <4>1. Pos(o, h, 0) = h
        BY <1>1, PosItem
      <4> QED BY <1>1, <2>1, <3>1, <4>1, PosApart
    <3>5. Pos(o, g, k + 1) # n[h]
        BY <1>1, <1>3, <2>1, <3>1, PosApart
    <3> QED BY <1>1, <1>2, <1>3, <1>7, <2>1, <3>1, <3>2, <3>3, <3>4, <3>5
  <2>2. CASE g = h /\ k = 0
    BY <1>1, <1>2, <1>3, <1>7, <2>2
  <2>3. CASE g = h /\ k = 1
    BY <1>1, <1>2, <1>3, <1>7, <2>3
  <2>4. CASE g = h /\ k > 1
    <3>1. k - 1 \in 1 .. L /\ k \in 2 .. L + 1 /\ k \in Int /\ k - 1 \in Int
        BY <1>3, <1>7, <2>4
    <3>2. n[Pos(o, h, k - 1)] = Pos(o, h, k) /\ p[Pos(o, h, k)] = Pos(o, h, k - 1)
        BY <1>1, <1>3, <3>1 DEF Rings
    <3>3. /\ Pos(o, h, k - 1) \in Items /\ Pos(o, h, k) \in Items
          /\ Pos(o, h, k - 1) # x /\ Pos(o, h, k) # x
        BY <1>1, <3>1, PosItem, PosOutside
    <3>4. Pos(o, h, k - 1) # h
      <4>1. Pos(o, h, 0) = h
        BY <1>1, PosItem
      <4> QED BY <1>1, <1>3, <3>1, <4>1, PosApart
    <3>5. Pos(o, h, k) # n[h]
        BY <1>1, <1>3, <3>1, PosApart
    <3>6. Pos(o2, h, k) = Pos(o, h, k - 1) /\ Pos(o2, h, k + 1) = Pos(o, h, k)
        BY <1>3, <1>7, <3>1
    <3> QED BY <1>1, <1>2, <1>3, <2>4, <3>1, <3>2, <3>3, <3>4, <3>5, <3>6
  <2> QED BY <1>7, <1>3, <2>1, <2>2, <2>3, <2>4
<1>10. Rings(n2, p2, o2)
    BY <1>9 DEF Rings
<1> QED BY <1>6, <1>8, <1>10 DEF Sound, o2

\* list_add_tail (list.h:132) puts x between the last node and the head.
LEMMA AddTailSound ==
    ASSUME NEW n, NEW p, NEW o, Sound(n, p, o), NEW h \in Heads, NEW x \in Nodes, Outside(o, x)
    PROVE  Sound([n EXCEPT ![x] = h, ![p[h]] = x],
                 [p EXCEPT ![x] = p[h], ![h] = x],
                 [o EXCEPT ![h] = @ \o <<x>>])
<1> DEFINE n2 == [n EXCEPT ![x] = h, ![p[h]] = x]
           p2 == [p EXCEPT ![x] = p[h], ![h] = x]
           o2 == [o EXCEPT ![h] = @ \o <<x>>]
           L == Len(o[h])
<1>1. /\ n \in [Items -> Items \cup {NULL}] /\ p \in [Items -> Items \cup {NULL}]
      /\ o \in [Heads -> Seq(Nodes)] /\ Apart(o) /\ Rings(n, p, o)
    BY DEF Sound, Linked
<1>2. x \in Items /\ h \in Items /\ x # h
    BY ListAssumption DEF Items
<1>3. p[h] = Pos(o, h, L) /\ p[h] \in Items /\ p[h] # x /\ L \in Nat
  <2>0. L \in Nat
    BY <1>1, PosItem
  <2>1. Pos(o, h, L + 1) = h /\ Pos(o, h, L) \in Items
    BY <1>1, <2>0, PosItem
  <2>2. Pos(o, h, L) # x
    BY <1>1, <2>0, PosOutside
  <2> QED BY <1>1, <2>0, <2>1, <2>2 DEF Rings
<1>4. /\ o[h] \o <<x>> \in Seq(Nodes)
      /\ Len(o[h] \o <<x>>) = L + 1
      /\ \A i \in 1 .. L + 1 : (o[h] \o <<x>>)[i] = IF i = L + 1 THEN x ELSE o[h][i]
  <2>1. <<x>> \in Seq(Nodes) /\ Len(<<x>>) = 1 /\ <<x>>[1] = x /\ o[h] \in Seq(Nodes)
    BY <1>1
  <2>2. /\ o[h] \o <<x>> \in Seq(Nodes)
        /\ Len(o[h] \o <<x>>) = L + 1
        /\ \A i \in 1 .. L + 1 : (o[h] \o <<x>>)[i] =
                    IF i <= L THEN o[h][i] ELSE <<x>>[i - L]
    BY <2>1, ConcatProperties
  <2> QED BY <1>3, <2>1, <2>2
<1>5. /\ o2 \in [Heads -> Seq(Nodes)]
      /\ o2[h] = o[h] \o <<x>>
      /\ \A g \in Heads \ {h} : o2[g] = o[g]
    BY <1>1, <1>4
<1>6. Linked(n2, p2, o2)
    BY <1>1, <1>2, <1>3, <1>5 DEF Linked
<1>7. /\ Len(o2[h]) = L + 1
      /\ \A k \in 0 .. L + 2 : Pos(o2, h, k) = IF k = L + 1 THEN x ELSE Pos(o, h, k)
      /\ \A g \in Heads \ {h} : \A k \in Int : Pos(o2, g, k) = Pos(o, g, k)
    BY <1>3, <1>4, <1>5 DEF Pos
<1> HIDE DEF o2
<1>8. Apart(o2)
  <2>1. \A i \in 1 .. Len(o2[h]) :
            \/ i = L + 1 /\ o2[h][i] = x
            \/ i \in 1 .. L /\ o2[h][i] = o[h][i]
    BY <1>3, <1>4, <1>5
  <2>2. \A g \in Heads \ {h} : \A i \in 1 .. Len(o2[g]) : i \in 1 .. Len(o[g]) /\ o2[g][i] = o[g][i]
    BY <1>5
  <2>3. \A g \in Heads \ {h} : \A i \in 1 .. Len(o[g]), j \in 1 .. L : o[g][i] # o[h][j]
    BY <1>1 DEF Apart
  <2>4. \A g \in Heads : \A i \in 1 .. Len(o[g]) : o[g][i] # x
    BY DEF Outside
  <2>5. \A i, j \in 1 .. Len(o2[h]) : o2[h][i] = o2[h][j] => i = j
    BY <1>1, <1>3, <1>7, <2>1, <2>4 DEF Apart
  <2>6. ASSUME NEW g \in Heads \ {h}, NEW i \in 1 .. Len(o2[g]), NEW j \in 1 .. Len(o2[h])
        PROVE  o2[g][i] # o2[h][j]
    <3>1. i \in 1 .. Len(o[g]) /\ o2[g][i] = o[g][i]
        BY <2>2
    <3>2. \/ o2[h][j] = x
          \/ j \in 1 .. L /\ o2[h][j] = o[h][j]
        BY <2>1
    <3>3. CASE o2[h][j] = x
        BY <2>4, <3>1, <3>3
    <3>4. CASE j \in 1 .. L /\ o2[h][j] = o[h][j]
        BY <2>3, <3>1, <3>4
    <3> QED BY <3>2, <3>3, <3>4
  <2>7. \A f, g \in Heads \ {h} : \A i \in 1 .. Len(o2[f]), j \in 1 .. Len(o2[g]) :
            o2[f][i] = o2[g][j] => f = g /\ i = j
    BY <1>1, <2>2 DEF Apart
  <2> QED BY <2>5, <2>6, <2>7 DEF Apart
<1>9. ASSUME NEW g \in Heads, NEW k \in 0 .. Len(o2[g])
      PROVE  n2[Pos(o2, g, k)] = Pos(o2, g, k + 1) /\ p2[Pos(o2, g, k + 1)] = Pos(o2, g, k)
  <2>1. CASE g # h
    <3>1. k \in 0 .. Len(o[g]) /\ Len(o[g]) \in Nat /\ k \in Int /\ k + 1 \in Int
        BY <1>1, <1>5, <2>1, PosItem
    <3>2. /\ n[Pos(o, g, k)] = Pos(o, g, k + 1) /\ p[Pos(o, g, k + 1)] = Pos(o, g, k)
        BY <1>1, <3>1 DEF Rings
    <3>3. /\ Pos(o, g, k) \in Items /\ Pos(o, g, k + 1) \in Items
          /\ Pos(o, g, k) # x /\ Pos(o, g, k + 1) # x
        BY <1>1, <3>1, PosItem, PosOutside
    <3>4. Pos(o, g, k + 1) # h
      <4>1. Pos(o, h, 0) = h
        BY <1>1, PosItem
      <4> QED BY <1>1, <2>1, <3>1, <4>1, PosApart
    <3>5. Pos(o, g, k) # p[h]
        BY <1>1, <1>3, <2>1, <3>1, PosApart
    <3> QED BY <1>1, <1>2, <1>3, <1>7, <2>1, <3>1, <3>2, <3>3, <3>4, <3>5
  <2>2. CASE g = h /\ k = L + 1
    <3>1. Pos(o2, h, k) = x /\ Pos(o2, h, k + 1) = h
      <4>1. Pos(o, h, L + 2) = h
        BY <1>1, <1>3, PosItem
      <4> QED BY <1>3, <1>7, <2>2, <4>1
    <3> QED BY <1>1, <1>2, <1>3, <2>2, <3>1
  <2>3. CASE g = h /\ k = L
    <3>1. Pos(o2, h, k) = p[h] /\ Pos(o2, h, k + 1) = x
        BY <1>3, <1>7, <2>3
    <3> QED BY <1>1, <1>2, <1>3, <2>3, <3>1
  <2>4. CASE g = h /\ k < L
    <3>1. k \in 0 .. L /\ k + 1 \in 1 .. L /\ k \in Int /\ k + 1 \in Int
        BY <1>3, <1>7, <2>4
    <3>2. n[Pos(o, h, k)] = Pos(o, h, k + 1) /\ p[Pos(o, h, k + 1)] = Pos(o, h, k)
        BY <1>1, <1>3, <3>1 DEF Rings
    <3>3. /\ Pos(o, h, k) \in Items /\ Pos(o, h, k + 1) \in Items
          /\ Pos(o, h, k) # x /\ Pos(o, h, k + 1) # x
        BY <1>1, <3>1, PosItem, PosOutside
    <3>4. Pos(o, h, k + 1) # h
      <4>1. Pos(o, h, 0) = h
        BY <1>1, PosItem
      <4> QED BY <1>1, <1>3, <3>1, <4>1, PosApart
    <3>5. Pos(o, h, k) # p[h]
        BY <1>1, <1>3, <2>4, <3>1, PosApart
    <3>6. Pos(o2, h, k) = Pos(o, h, k) /\ Pos(o2, h, k + 1) = Pos(o, h, k + 1)
        BY <1>3, <1>7, <3>1, <2>4
    <3> QED BY <1>1, <1>2, <1>3, <2>4, <3>1, <3>2, <3>3, <3>4, <3>5, <3>6
  <2> QED BY <1>7, <1>3, <2>1, <2>2, <2>3, <2>4
<1>10. Rings(n2, p2, o2)
    BY <1>9 DEF Rings
<1> QED BY <1>6, <1>8, <1>10 DEF Sound, o2

\* list_del (list.h:149) takes the node at position m out.
LEMMA DelSound ==
    ASSUME NEW n, NEW p, NEW o, Sound(n, p, o), NEW h \in Heads, NEW m \in 1 .. Len(o[h]),
           NEW x, x = o[h][m]
    PROVE  /\ Sound([n EXCEPT ![p[x]] = n[x]], [p EXCEPT ![n[x]] = p[x]],
                    [o EXCEPT ![h] = Without(@, m)])
           /\ Outside([o EXCEPT ![h] = Without(@, m)], x)
<1> DEFINE n2 == [n EXCEPT ![p[x]] = n[x]]
           p2 == [p EXCEPT ![n[x]] = p[x]]
           o2 == [o EXCEPT ![h] = Without(@, m)]
           L == Len(o[h])
<1>1. /\ n \in [Items -> Items \cup {NULL}] /\ p \in [Items -> Items \cup {NULL}]
      /\ o \in [Heads -> Seq(Nodes)] /\ Apart(o) /\ Rings(n, p, o)
    BY DEF Sound, Linked
<1>2. L \in Nat /\ m \in Int /\ m >= 1 /\ m <= L /\ m - 1 \in Int /\ m + 1 \in Int
    BY <1>1, PosItem
<1>3. /\ p[x] = Pos(o, h, m - 1) /\ p[x] \in Items
      /\ n[x] = Pos(o, h, m + 1) /\ n[x] \in Items
  <2>1. Pos(o, h, m) = x /\ Pos(o, h, m - 1) \in Items /\ Pos(o, h, m + 1) \in Items
    BY <1>1, <1>2, PosItem
  <2>2. m - 1 \in 0 .. L /\ m \in 0 .. L /\ (m - 1) + 1 = m
    BY <1>2
  <2>3. p[Pos(o, h, (m - 1) + 1)] = Pos(o, h, m - 1)
    BY <1>1, <2>2 DEF Rings
  <2>4. n[Pos(o, h, m)] = Pos(o, h, m + 1)
    BY <1>1, <2>2 DEF Rings
  <2> QED BY <2>1, <2>2, <2>3, <2>4
<1>4. /\ Without(o[h], m) \in Seq(Nodes)
      /\ Len(Without(o[h], m)) = L - 1
      /\ \A i \in 1 .. L - 1 : Without(o[h], m)[i] = IF i < m THEN o[h][i] ELSE o[h][i + 1]
  <2>1. o[h] \in Seq(Nodes) /\ L - 1 \in Nat
    BY <1>1, <1>2
  <2>2. \A i \in 1 .. L : o[h][i] \in Nodes
    BY <2>1
  <2>3. \A i \in 1 .. L - 1 : i \in 1 .. L /\ i + 1 \in 1 .. L
    BY <1>2
  <2>4. Without(o[h], m) \in [1 .. L - 1 -> Nodes]
    BY <1>2, <2>2, <2>3 DEF Without
  <2>5. \A f : f \in [1 .. L - 1 -> Nodes] => f \in Seq(Nodes) /\ Len(f) = L - 1
    BY <2>1
  <2> QED BY <2>4, <2>5 DEF Without
<1>5. /\ o2 \in [Heads -> Seq(Nodes)]
      /\ o2[h] = Without(o[h], m)
      /\ \A g \in Heads \ {h} : o2[g] = o[g]
    BY <1>1, <1>4
<1>6. Linked(n2, p2, o2)
    BY <1>1, <1>3, <1>5 DEF Linked
<1>7. /\ Len(o2[h]) = L - 1
      /\ \A k \in 0 .. L : Pos(o2, h, k) = IF k < m THEN Pos(o, h, k) ELSE Pos(o, h, k + 1)
      /\ \A g \in Heads \ {h} : \A k \in Int : Pos(o2, g, k) = Pos(o, g, k)
    BY <1>2, <1>4, <1>5 DEF Pos
<1> HIDE DEF o2
<1> DEFINE Old(g, i) == IF g = h /\ i >= m THEN i + 1 ELSE i
<1>8. ASSUME NEW g \in Heads, NEW i \in 1 .. Len(o2[g])
      PROVE  /\ i \in Int /\ Old(g, i) \in 1 .. Len(o[g])
             /\ o2[g][i] = o[g][Old(g, i)]
             /\ g = h => Old(g, i) # m
  <2>1. CASE g # h
    <3>1. o2[g] = o[g]
        BY <1>5, <2>1
    <3> QED BY <2>1, <3>1
  <2>2. CASE g = h /\ i < m
    <3>1. i \in 1 .. L - 1 /\ i \in 1 .. L /\ ~(i >= m)
        BY <1>2, <1>7, <2>2
    <3>2. o2[h][i] = o[h][i]
        BY <1>4, <1>5, <2>2, <3>1
    <3> QED BY <1>2, <2>2, <3>1, <3>2
  <2>3. CASE g = h /\ i >= m
    <3>1. i \in 1 .. L - 1 /\ i + 1 \in 1 .. L /\ ~(i < m) /\ i + 1 # m
        BY <1>2, <1>7, <2>3
    <3>2. o2[h][i] = o[h][i + 1]
        BY <1>4, <1>5, <2>3, <3>1
    <3> QED BY <1>2, <2>3, <3>1, <3>2
  <2>4. i < m \/ i >= m
    BY <1>2
  <2> QED BY <2>1, <2>2, <2>3, <2>4
<1>9. Apart(o2) /\ Outside(o2, x)
  <2>1. ASSUME NEW f \in Heads, NEW g \in Heads, NEW i \in 1 .. Len(o2[f]), NEW j \in 1 .. Len(o2[g]),
               o2[f][i] = o2[g][j]
        PROVE  f = g /\ i = j
    <3>1. Old(f, i) \in 1 .. Len(o[f]) /\ o2[f][i] = o[f][Old(f, i)] /\ i \in Int
        BY <1>8
    <3>2. Old(g, j) \in 1 .. Len(o[g]) /\ o2[g][j] = o[g][Old(g, j)] /\ j \in Int
        BY <1>8
    <3> HIDE DEF Old
    <3>3. f = g /\ Old(f, i) = Old(g, j)
      <4>1. o[f][Old(f, i)] = o[g][Old(g, j)]
        BY <2>1, <3>1, <3>2
      <4> QED BY <1>1, <3>1, <3>2, <4>1 DEF Apart
    <3>4. f = g /\ Old(f, i) = Old(f, j)
        BY <3>3
    <3> QED BY <1>2, <3>1, <3>2, <3>4 DEF Old
  <2>2. ASSUME NEW g \in Heads, NEW i \in 1 .. Len(o2[g])
        PROVE  o2[g][i] # x
    <3>1. /\ Old(g, i) \in 1 .. Len(o[g]) /\ o2[g][i] = o[g][Old(g, i)]
          /\ g = h => Old(g, i) # m
        BY <1>8
    <3> HIDE DEF Old
    <3>2. ASSUME o2[g][i] = x PROVE FALSE
      <4>1. o[g][Old(g, i)] = o[h][m]
        BY <3>1, <3>2
      <4>2. g = h /\ Old(g, i) = m
        BY <1>1, <3>1, <4>1 DEF Apart
      <4> QED BY <3>1, <4>2
    <3> QED BY <3>2
  <2> QED BY <2>1, <2>2 DEF Apart, Outside
<1>10. ASSUME NEW g \in Heads, NEW k \in 0 .. Len(o2[g])
      PROVE  n2[Pos(o2, g, k)] = Pos(o2, g, k + 1) /\ p2[Pos(o2, g, k + 1)] = Pos(o2, g, k)
  <2>1. CASE g # h
    <3>1. k \in 0 .. Len(o[g]) /\ Len(o[g]) \in Nat /\ k \in Int /\ k + 1 \in Int
        BY <1>1, <1>5, <2>1, PosItem
    <3>2. /\ n[Pos(o, g, k)] = Pos(o, g, k + 1) /\ p[Pos(o, g, k + 1)] = Pos(o, g, k)
        BY <1>1, <3>1 DEF Rings
    <3>3. Pos(o, g, k) \in Items /\ Pos(o, g, k + 1) \in Items
        BY <1>1, <3>1, PosItem
    <3>4. Pos(o, g, k) # p[x] /\ Pos(o, g, k + 1) # n[x]
        BY <1>1, <1>2, <1>3, <2>1, <3>1, PosApart
    <3> QED BY <1>1, <1>3, <1>7, <2>1, <3>1, <3>2, <3>3, <3>4
  <2>2. CASE g = h /\ k = m - 1
    <3>1. Pos(o2, h, k) = p[x] /\ Pos(o2, h, k + 1) = n[x]
        BY <1>2, <1>3, <1>7, <2>2
    <3> QED BY <1>1, <1>3, <2>2, <3>1
  <2>3. CASE g = h /\ k < m - 1
    <3>1. k \in 0 .. L /\ k \in Int /\ k + 1 \in 1 .. L /\ k + 1 \in Int
        BY <1>2, <1>7, <2>3
    <3>2. n[Pos(o, h, k)] = Pos(o, h, k + 1) /\ p[Pos(o, h, k + 1)] = Pos(o, h, k)
        BY <1>1, <3>1 DEF Rings
    <3>3. Pos(o, h, k) \in Items /\ Pos(o, h, k + 1) \in Items
        BY <1>1, <3>1, PosItem
    <3>4. Pos(o, h, k) # p[x]
        BY <1>1, <1>2, <1>3, <2>3, <3>1, PosApart
    <3>5. Pos(o, h, k + 1) # n[x]
        BY <1>1, <1>2, <1>3, <2>3, <3>1, PosApart
    <3>6. Pos(o2, h, k) = Pos(o, h, k) /\ Pos(o2, h, k + 1) = Pos(o, h, k + 1)
        BY <1>2, <1>7, <2>3, <3>1
    <3> QED BY <1>1, <1>3, <2>3, <3>2, <3>3, <3>4, <3>5, <3>6
  <2>4. CASE g = h /\ k > m - 1
    <3>0. k \in Int /\ k <= L - 1 /\ k > m - 1
        BY <1>2, <1>7, <2>4
    <3>1. /\ k + 1 \in 1 .. L /\ k + 1 \in Int /\ k + 2 \in Int /\ k + 2 = (k + 1) + 1
          /\ m + 1 \in 1 .. L /\ k >= m /\ k + 1 # m - 1 /\ k + 2 # m + 1
          /\ k \in 0 .. L /\ k + 1 \in 0 .. L /\ ~(k < m) /\ ~(k + 1 < m)
      <4> HIDE DEF L
      <4>1. k >= m /\ k + 1 # m - 1 /\ k + 2 # m + 1 /\ ~(k < m) /\ ~(k + 1 < m)
        BY <1>2, <3>0
      <4>2. k \in 0 .. L /\ k + 1 \in 1 .. L /\ k + 1 \in 0 .. L
        BY <1>2, <3>0
      <4>3. m + 1 \in 1 .. L
        BY <1>2, <3>0
      <4>4. k + 1 \in Int /\ k + 2 \in Int /\ k + 2 = (k + 1) + 1
        BY <3>0
      <4> QED BY <4>1, <4>2, <4>3, <4>4
    <3>2. n[Pos(o, h, k + 1)] = Pos(o, h, k + 2) /\ p[Pos(o, h, k + 2)] = Pos(o, h, k + 1)
        BY <1>1, <1>2, <3>1 DEF Rings
    <3>3. Pos(o, h, k + 1) \in Items /\ Pos(o, h, k + 2) \in Items
        BY <1>1, <3>1, PosItem
    <3>4. Pos(o, h, k + 1) # Pos(o, h, m - 1)
        BY <1>1, <1>2, <3>1, PosApart
    <3>5. Pos(o, h, k + 2) # Pos(o, h, m + 1)
        BY <1>1, <1>2, <3>1, PosApart
    <3>6. Pos(o2, h, k) = Pos(o, h, k + 1) /\ Pos(o2, h, k + 1) = Pos(o, h, (k + 1) + 1)
        BY <1>7, <3>1
    <3> QED BY <1>1, <1>3, <2>4, <3>2, <3>3, <3>4, <3>5, <3>6
  <2> QED BY <1>2, <1>7, <2>1, <2>2, <2>3, <2>4
<1>11. Rings(n2, p2, o2)
    BY <1>10 DEF Rings
<1> QED BY <1>6, <1>9, <1>11 DEF Sound, o2

\* In the debug build list_del clears the node it took out (list.h:156).
LEMMA ClearSound ==
    ASSUME NEW n, NEW p, NEW o, Sound(n, p, o), NEW x \in Nodes, Outside(o, x)
    PROVE  Sound([n EXCEPT ![x] = NULL], [p EXCEPT ![x] = NULL], o)
<1>1. /\ n \in [Items -> Items \cup {NULL}] /\ p \in [Items -> Items \cup {NULL}]
      /\ o \in [Heads -> Seq(Nodes)] /\ Apart(o) /\ Rings(n, p, o)
    BY DEF Sound, Linked
<1>2. \A h \in Heads : \A k \in Int : Pos(o, h, k) # x /\ Pos(o, h, k) \in Items
    BY <1>1, PosOutside, PosItem
<1>3. \A h \in Heads : \A k \in 0 .. Len(o[h]) : k \in Int /\ k + 1 \in Int
    BY <1>1, PosItem
<1>4. Rings([n EXCEPT ![x] = NULL], [p EXCEPT ![x] = NULL], o)
    BY <1>1, <1>2, <1>3 DEF Rings
<1>5. Linked([n EXCEPT ![x] = NULL], [p EXCEPT ![x] = NULL], o)
    BY <1>1 DEF Linked
<1> QED BY <1>1, <1>4, <1>5 DEF Sound

\* list_head_init (list.h:81) makes the list of h empty.
LEMMA InitSound ==
    ASSUME NEW n, NEW p, NEW o, Sound(n, p, o), NEW h \in Heads
    PROVE  Sound([n EXCEPT ![h] = h], [p EXCEPT ![h] = h], [o EXCEPT ![h] = <<>>])
<1> DEFINE n2 == [n EXCEPT ![h] = h]
           p2 == [p EXCEPT ![h] = h]
           o2 == [o EXCEPT ![h] = <<>>]
<1>1. /\ n \in [Items -> Items \cup {NULL}] /\ p \in [Items -> Items \cup {NULL}]
      /\ o \in [Heads -> Seq(Nodes)] /\ Apart(o) /\ Rings(n, p, o)
    BY DEF Sound, Linked
<1>2. h \in Items /\ <<>> \in Seq(Nodes) /\ Len(<<>>) = 0
    BY DEF Items
<1>3. o2[h] = <<>> /\ \A g \in Heads \ {h} : o2[g] = o[g]
    BY <1>1
<1>4. Linked(n2, p2, o2)
    BY <1>1, <1>2 DEF Linked
<1>5. Apart(o2)
  <2>1. Len(o2[h]) = 0
    BY <1>2, <1>3
  <2> QED BY <1>1, <1>3, <2>1 DEF Apart
<1>6. ASSUME NEW g \in Heads, NEW k \in 0 .. Len(o2[g])
      PROVE  n2[Pos(o2, g, k)] = Pos(o2, g, k + 1) /\ p2[Pos(o2, g, k + 1)] = Pos(o2, g, k)
  <2>1. CASE g = h
    <3>1. k = 0 /\ Len(o2[g]) = 0
        BY <1>2, <1>3, <2>1
    <3>2. Pos(o2, g, 0) = h /\ Pos(o2, g, 1) = h
        BY <2>1, <3>1 DEF Pos
    <3> QED BY <1>1, <1>2, <2>1, <3>1, <3>2
  <2>2. CASE g # h
    <3>1. k \in 0 .. Len(o[g]) /\ Len(o[g]) \in Nat /\ k \in Int /\ k + 1 \in Int
        BY <1>1, <1>3, <2>2, PosItem
    <3>2. /\ n[Pos(o, g, k)] = Pos(o, g, k + 1) /\ p[Pos(o, g, k + 1)] = Pos(o, g, k)
        BY <1>1, <3>1 DEF Rings
    <3>3. Pos(o, g, k) \in Items /\ Pos(o, g, k + 1) \in Items
        BY <1>1, <3>1, PosItem
    <3>4. Pos(o, g, k) # h /\ Pos(o, g, k + 1) # h
      <4>1. Pos(o, h, 0) = h
        BY <1>1, PosItem
      <4> QED BY <1>1, <2>2, <3>1, <4>1, PosApart
    <3>5. Pos(o2, g, k) = Pos(o, g, k) /\ Pos(o2, g, k + 1) = Pos(o, g, k + 1)
        BY <1>3, <2>2 DEF Pos
    <3> QED BY <1>1, <1>2, <3>2, <3>3, <3>4, <3>5
  <2> QED BY <2>1, <2>2
<1>7. Rings(n2, p2, o2)
    BY <1>6 DEF Rings
<1> QED BY <1>4, <1>5, <1>7 DEF Sound

-----------------------------------------------------------------------------
(* list_check. *)

\* f says from which items on the walk of list_check(n, p, g) finds nothing wrong.
IsWalk(n, p, g, f) ==
    f = [x \in Items |-> n[x] = g \/ (n[x] # NULL /\ p[n[x]] = x /\ f[n[x]])]

\* The links from position a of the ring of h to position b are right, and the
\* walk does not end there.
Straight(n, p, g, o, h, a, b) ==
    \A k \in a .. b - 1 : /\ n[Pos(o, h, k)] = Pos(o, h, k + 1)
                          /\ p[Pos(o, h, k + 1)] = Pos(o, h, k)
                          /\ Pos(o, h, k + 1) # g

\* The links m and q are n and p up to position a of the ring of h.
SameTo(n, p, m, q, o, h, a) ==
    /\ \A k \in 0 .. a - 1 : m[Pos(o, h, k)] = n[Pos(o, h, k)]
    /\ \A k \in 1 .. a : q[Pos(o, h, k)] = p[Pos(o, h, k)]

\* Induction over positions: a set of numbers has a least one.
LEMMA Least ==
    ASSUME NEW T \in SUBSET Nat, T # {}
    PROVE  \E k \in T : \A j \in T : k <= j
<1>1. PICK k \in T : \A j \in T : ~(<<j, k>> \in OpToRel(<, Nat))
    BY NatLessThanWellFounded, WFMin, Zenon
<1>2. \A j \in T : ~(j < k)
    BY <1>1, Zenon DEF OpToRel
<1>3. \A j \in T : k <= j
  <2>1. k \in Nat /\ \A j \in T : j \in Nat
    OBVIOUS
  <2> QED BY <1>2, <2>1, SMT
<1> QED BY <1>3, Zenon

\* The recursion of the walk has a solution: the items in a set that the walk does
\* not leave but at its end.
LEMMA WalkExists ==
    ASSUME NEW n \in [Items -> Items \cup {NULL}], NEW p, NEW g \in Items
    PROVE  \E f : IsWalk(n, p, g, f)
<1> DEFINE Good(S) == \A z \in S : n[z] = g \/ (n[z] # NULL /\ p[n[z]] = z /\ n[z] \in S)
           W == [x \in Items |-> \E S \in SUBSET Items : x \in S /\ Good(S)]
<1>1. ASSUME NEW x \in Items
      PROVE  W[x] <=> (n[x] = g \/ (n[x] # NULL /\ p[n[x]] = x /\ W[n[x]]))
  <2>1. CASE n[x] = g
    <3>1. {x} \in SUBSET Items /\ x \in {x} /\ Good({x})
        BY <2>1
    <3> QED BY <2>1, <3>1
  <2>2. CASE n[x] # g /\ W[x]
    <3>1. PICK S \in SUBSET Items : x \in S /\ Good(S)
        BY <2>2
    <3>2. n[x] # NULL /\ p[n[x]] = x /\ n[x] \in S
        BY <2>2, <3>1
    <3>3. W[n[x]]
        BY <3>1, <3>2
    <3> QED BY <2>2, <3>2, <3>3
  <2>3. CASE n[x] # NULL /\ p[n[x]] = x /\ W[n[x]]
    <3>1. n[x] \in Items
        BY <2>3
    <3>2. PICK S \in SUBSET Items : n[x] \in S /\ Good(S)
        BY <2>3, <3>1
    <3>3. S \cup {x} \in SUBSET Items /\ x \in S \cup {x} /\ Good(S \cup {x})
        BY <2>3, <3>2
    <3> QED BY <2>3, <3>3
  <2> QED BY <2>1, <2>2, <2>3
<1>2. \A x \in Items : W[x] \in BOOLEAN
    OBVIOUS
<1> HIDE DEF W
<1>3. W = [x \in Items |-> n[x] = g \/ (n[x] # NULL /\ p[n[x]] = x /\ W[n[x]])]
    BY <1>1, <1>2, Zenon DEF W
<1> QED BY <1>3 DEF IsWalk

\* list_check (list.c:5) looks at an empty list, or walks.
LEMMA CheckWalks ==
    ASSUME NEW n \in [Items -> Items \cup {NULL}], NEW p, NEW g \in Items
    PROVE  \E f : /\ IsWalk(n, p, g, f)
                  /\ list_check(n, p, g) = IF n[g] = g THEN p[g] = g ELSE f[g]
<1> DEFINE f == CHOOSE f : f = [x \in Items |-> n[x] = g \/ (n[x] # NULL /\ p[n[x]] = x /\ f[n[x]])]
<1>1. list_check(n, p, g) = IF n[g] = g THEN p[g] = g ELSE f[g]
    BY DEF list_check
<1>2. IsWalk(n, p, g, f)
  <2>1. \E w : IsWalk(n, p, g, w)
    BY WalkExists
  <2>2. \E w : w = [x \in Items |-> n[x] = g \/ (n[x] # NULL /\ p[n[x]] = x /\ w[n[x]])]
    BY <2>1 DEF IsWalk
  <2>3. f = [x \in Items |-> n[x] = g \/ (n[x] # NULL /\ p[n[x]] = x /\ f[n[x]])]
    BY <2>2, Zenon
  <2> QED BY <2>3 DEF IsWalk
<1> QED BY <1>1, <1>2

\* A step of the walk.
LEMMA WalkStep ==
    ASSUME NEW n \in [Items -> Items \cup {NULL}], NEW p, NEW g \in Items,
           NEW f, IsWalk(n, p, g, f), NEW x \in Items, n[x] \in Items
    PROVE  /\ f[x] \in BOOLEAN
           /\ n[x] = g => f[x]
           /\ n[x] # g => (f[x] <=> p[n[x]] = x /\ f[n[x]])
<1>1. f[x] = (n[x] = g \/ (n[x] # NULL /\ p[n[x]] = x /\ f[n[x]]))
    BY Zenon DEF IsWalk
<1>2. n[x] # NULL
    BY ListAssumption DEF Items
<1>3. f[x] \in BOOLEAN
    BY <1>1, Zenon
<1> QED BY <1>1, <1>2, <1>3

\* The last step.
LEMMA WalkEnds ==
    ASSUME NEW n \in [Items -> Items \cup {NULL}], NEW p, NEW g \in Items,
           NEW f, IsWalk(n, p, g, f), NEW x \in Items, n[x] = g
    PROVE  f[x]
BY WalkStep

\* A step that is not the last.
LEMMA WalkPast ==
    ASSUME NEW n \in [Items -> Items \cup {NULL}], NEW p, NEW g \in Items,
           NEW f, IsWalk(n, p, g, f), NEW x \in Items, NEW y \in Items, y = n[x], y # g
    PROVE  f[x] <=> p[y] = x /\ f[y]
BY WalkStep

\* Along right links the walk finds nothing wrong.
LEMMA WalkAlong ==
    ASSUME NEW n \in [Items -> Items \cup {NULL}], NEW p, NEW g \in Items,
           NEW f, IsWalk(n, p, g, f),
           NEW o \in [Heads -> Seq(Nodes)], NEW h \in Heads,
           NEW a \in Nat, NEW b \in Nat, a <= b, Straight(n, p, g, o, h, a, b)
    PROVE  f[Pos(o, h, a)] <=> f[Pos(o, h, b)]
<1> DEFINE c(k) == Pos(o, h, k)
           T == {k \in Nat : k >= a /\ k <= b /\ ~(f[c(a)] <=> f[c(k)])}
<1>1. \A k \in Nat : c(k) \in Items
    BY PosItem
<1>2. ASSUME NEW k \in a .. b - 1
      PROVE  f[c(k)] <=> f[c(k + 1)]
  <2>1. k \in Nat /\ k + 1 \in Nat
    OBVIOUS
  <2>2. c(k) \in Items /\ c(k + 1) \in Items
    BY <1>1, <2>1
  <2>3. n[c(k)] = c(k + 1) /\ p[c(k + 1)] = c(k) /\ c(k + 1) # g
    BY DEF Straight
  <2> HIDE DEF c
  <2>4. f[c(k)] <=> p[c(k + 1)] = c(k) /\ f[c(k + 1)]
    BY <2>2, <2>3, WalkPast
  <2> QED BY <2>3, <2>4
<1> HIDE DEF c
<1>3. CASE T = {}
  <2>1. ~(b \in T)
    BY <1>3
  <2> QED BY <2>1 DEF c
<1>4. CASE T # {}
  <2>1. PICK m \in T : \A j \in T : m <= j
    BY <1>4, Least
  <2>2. m \in Nat /\ m >= a /\ m <= b /\ ~(f[c(a)] <=> f[c(m)])
    OBVIOUS
  <2>3. m # a
    BY <2>2
  <2>4. m - 1 \in a .. b - 1 /\ m - 1 \in Nat /\ (m - 1) + 1 = m /\ m - 1 <= b
    BY <2>2, <2>3
  <2>5. ~(m - 1 \in T)
    BY <2>1, <2>2
  <2>6. f[c(a)] <=> f[c(m - 1)]
    BY <2>4, <2>5
  <2>7. f[c(m - 1)] <=> f[c(m)]
    BY <1>2, <2>4
  <2> QED BY <2>2, <2>6, <2>7
<1> QED BY <1>3, <1>4

\* list_check accepts a list as it should be from the head and from any node of it.
LEMMA CheckSound ==
    ASSUME NEW n, NEW p, NEW o, Sound(n, p, o), NEW h \in Heads, NEW s \in 0 .. Len(o[h])
    PROVE  list_check(n, p, Pos(o, h, s))
<1> DEFINE L == Len(o[h])
           c(k) == Pos(o, h, k)
           g == c(s)
<1>1. /\ n \in [Items -> Items \cup {NULL}] /\ p \in [Items -> Items \cup {NULL}]
      /\ o \in [Heads -> Seq(Nodes)] /\ Apart(o) /\ Rings(n, p, o)
    BY DEF Sound, Linked
<1>2. L \in Nat /\ s \in Nat /\ s <= L
    BY <1>1, PosItem
<1>3. \A k \in Nat : c(k) \in Items
    BY <1>1, PosItem
<1>4. c(0) = h /\ c(L + 1) = h
    BY <1>1, <1>2, PosItem
<1>5. \A k \in 0 .. L : n[c(k)] = c(k + 1) /\ p[c(k + 1)] = c(k)
    BY <1>1 DEF Rings
<1>6. \A j, k \in 0 .. L : c(j) = c(k) => j = k
  <2> SUFFICES ASSUME NEW j \in 0 .. L, NEW k \in 0 .. L, c(j) = c(k) PROVE j = k
    OBVIOUS
  <2>1. j = k \/ (j \notin 1 .. L /\ k \notin 1 .. L)
    BY <1>1, <1>2, PosApart
  <2> QED BY <1>2, <2>1
<1> HIDE DEF c, L
<1>7. g \in Items
    BY <1>2, <1>3
<1>8. PICK f : /\ IsWalk(n, p, g, f)
               /\ list_check(n, p, g) = IF n[g] = g THEN p[g] = g ELSE f[g]
    BY <1>1, <1>7, CheckWalks
<1>81. /\ n \in [Items -> Items \cup {NULL}] /\ o \in [Heads -> Seq(Nodes)]
       /\ IsWalk(n, p, g, f)
    BY <1>1, <1>8
<1>9. CASE n[g] = g
  <2>1. c(s + 1) = c(s)
    BY <1>2, <1>5, <1>9
  <2>2. s = L
    <3>1. s # L => s + 1 \in 0 .. L /\ s \in 0 .. L /\ s + 1 # s
        BY <1>2
    <3> QED BY <1>6, <2>1, <3>1
  <2>3. c(s) = c(0)
    BY <1>4, <2>1, <2>2
  <2>4. s = 0 /\ L = 0
    BY <1>2, <1>6, <2>2, <2>3
  <2>5. p[c(1)] = c(0) /\ c(1) = c(0)
    BY <1>2, <1>4, <1>5, <2>4
  <2>6. p[g] = g
    BY <2>4, <2>5
  <2> QED BY <1>8, <1>9, <2>6 DEF c
<1>10. CASE n[g] # g
  <2>1. \A a, b \in Nat : a <= b /\ b <= L /\ ~(a < s /\ s <= b) => (f[c(a)] <=> f[c(b)])
    <3> SUFFICES ASSUME NEW a \in Nat, NEW b \in Nat, a <= b, b <= L, ~(a < s /\ s <= b)
                 PROVE  f[c(a)] <=> f[c(b)]
        OBVIOUS
    <3>1. ASSUME NEW k \in a .. b - 1
          PROVE  n[c(k)] = c(k + 1) /\ p[c(k + 1)] = c(k) /\ c(k + 1) # g
      <4>1. k \in 0 .. L /\ k + 1 \in 0 .. L /\ k + 1 # s /\ s \in 0 .. L
        BY <1>2
      <4> QED BY <1>5, <1>6, <4>1
    <3>2. Straight(n, p, g, o, h, a, b)
        BY <3>1 DEF Straight, c
    <3> QED BY <1>7, <1>81, <3>2, WalkAlong DEF c
  <2>2. f[g]
    <3>1. CASE s = 0
      <4>1. n[c(L)] = g /\ c(L) \in Items
        BY <1>2, <1>3, <1>4, <1>5, <3>1
      <4>2. f[c(L)]
        BY <1>1, <1>7, <1>8, <4>1, WalkStep
      <4> QED BY <1>2, <2>1, <3>1, <4>2
    <3>2. CASE s # 0
      <4>1. f[c(s)] <=> f[c(L)]
        BY <1>2, <2>1
      <4>2. f[c(L)] <=> f[c(0)]
        <5>1. /\ n[c(L)] = c(0) /\ p[c(0)] = c(L)
              /\ c(L) \in Items /\ c(0) \in Items
            BY <1>2, <1>3, <1>4, <1>5
        <5>2. c(0) # g
            BY <1>2, <1>6, <3>2
        <5>3. f[c(L)] <=> p[c(0)] = c(L) /\ f[c(0)]
          <6>1. IsWalk(n, p, g, f) /\ n \in [Items -> Items \cup {NULL}] /\ g \in Items
            BY <1>7, <1>81
          <6>2. c(L) \in Items /\ c(0) \in Items /\ c(0) = n[c(L)] /\ c(0) # g
            BY <5>1, <5>2
          <6> HIDE DEF g
          <6> QED BY <6>1, <6>2, WalkPast
        <5> QED BY <5>1, <5>3
      <4>3. f[c(0)] <=> f[c(s - 1)]
        BY <1>2, <2>1, <3>2
      <4>4. f[c(s - 1)]
        <5>1. s - 1 \in 0 .. L /\ (s - 1) + 1 = s /\ s - 1 \in Nat
            BY <1>2, <3>2
        <5>2. n[c(s - 1)] = g /\ c(s - 1) \in Items
            BY <1>3, <1>5, <5>1
        <5> QED BY <1>1, <1>7, <1>8, <5>2, WalkStep
      <4> QED BY <4>1, <4>2, <4>3, <4>4
    <3> QED BY <3>1, <3>2
  <2> QED BY <1>8, <1>10, <2>2 DEF c
<1> QED BY <1>9, <1>10

\* What a ring looks like by its positions.
LEMMA RingPos ==
    ASSUME NEW n, NEW p, NEW o, Sound(n, p, o), NEW h \in Heads
    PROVE  /\ n \in [Items -> Items \cup {NULL}] /\ p \in [Items -> Items \cup {NULL}]
           /\ o \in [Heads -> Seq(Nodes)] /\ Len(o[h]) \in Nat
           /\ \A k \in Nat : Pos(o, h, k) \in Items
           /\ Pos(o, h, 0) = h /\ Pos(o, h, Len(o[h]) + 1) = h
           /\ \A k \in 0 .. Len(o[h]) : n[Pos(o, h, k)] = Pos(o, h, k + 1)
           /\ \A k \in 0 .. Len(o[h]) : p[Pos(o, h, k + 1)] = Pos(o, h, k)
           /\ \A j, k \in 0 .. Len(o[h]) : Pos(o, h, j) = Pos(o, h, k) => j = k
<1>1. /\ n \in [Items -> Items \cup {NULL}] /\ p \in [Items -> Items \cup {NULL}]
      /\ o \in [Heads -> Seq(Nodes)] /\ Apart(o) /\ Rings(n, p, o)
    BY DEF Sound, Linked
<1>2. Len(o[h]) \in Nat
    BY <1>1, PosItem
<1>3. \A k \in Nat : Pos(o, h, k) \in Items
    BY <1>1, PosItem
<1>4. Pos(o, h, 0) = h /\ Pos(o, h, Len(o[h]) + 1) = h
    BY <1>1, <1>2, PosItem
<1>5. /\ \A k \in 0 .. Len(o[h]) : n[Pos(o, h, k)] = Pos(o, h, k + 1)
      /\ \A k \in 0 .. Len(o[h]) : p[Pos(o, h, k + 1)] = Pos(o, h, k)
    BY <1>1 DEF Rings
<1>6. ASSUME NEW j \in 0 .. Len(o[h]), NEW k \in 0 .. Len(o[h]), Pos(o, h, j) = Pos(o, h, k)
      PROVE  j = k
  <2>1. j = k \/ (j \notin 1 .. Len(o[h]) /\ k \notin 1 .. Len(o[h]))
    BY <1>1, <1>2, <1>6, PosApart
  <2> QED BY <1>2, <2>1
<1> QED BY <1>1, <1>2, <1>3, <1>4, <1>5, <1>6

\* Where the walk of the list at h stands at position a, if the links up to there
\* are right.
LEMMA WalkTo ==
    ASSUME NEW n, NEW p, NEW o, Sound(n, p, o), NEW h \in Heads, NEW a \in 0 .. Len(o[h]),
           NEW n2 \in [Items -> Items \cup {NULL}], NEW p2,
           SameTo(n, p, n2, p2, o, h, a),
           NEW f, IsWalk(n2, p2, h, f)
    PROVE  f[h] <=> f[Pos(o, h, a)]
<1> DEFINE L == Len(o[h])
           c(k) == Pos(o, h, k)
<1>1. /\ o \in [Heads -> Seq(Nodes)] /\ L \in Nat /\ c(0) = h
      /\ \A k \in 0 .. L : n[c(k)] = c(k + 1) /\ p[c(k + 1)] = c(k)
      /\ \A j, k \in 0 .. L : c(j) = c(k) => j = k
    BY RingPos
<1>2. a \in Nat /\ a <= L /\ h \in Items
    BY <1>1 DEF Items
<1>3. ASSUME NEW k \in 0 .. a - 1
      PROVE  n2[c(k)] = c(k + 1) /\ p2[c(k + 1)] = c(k) /\ c(k + 1) # h
  <2>1. k \in 0 .. L /\ k + 1 \in 0 .. L /\ k + 1 \in 1 .. a /\ k + 1 # 0 /\ 0 \in 0 .. L
    BY <1>1, <1>2
  <2>2. n2[c(k)] = n[c(k)] /\ p2[c(k + 1)] = p[c(k + 1)]
    BY <2>1 DEF SameTo
  <2> HIDE DEF c, L
  <2> QED BY <1>1, <2>1, <2>2
<1>4. Straight(n2, p2, h, o, h, 0, a)
    BY <1>3 DEF Straight
<1>5. o \in [Heads -> Seq(Nodes)] /\ c(0) = h
    BY <1>1
<1>6. f[c(0)] <=> f[c(a)]
  <2>1. 0 \in Nat /\ 0 <= a
    BY <1>2
  <2> QED BY <1>2, <1>4, <1>5, <2>1, WalkAlong
<1> QED BY <1>5, <1>6

\* A next link with another item of the list in it is found, but one of a node that
\* goes to the head and cuts the list short.
LEMMA NextDamage ==
    ASSUME NEW n, NEW p, NEW o, Sound(n, p, o), NEW h \in Heads,
           NEW a \in 0 .. Len(o[h]), NEW b \in 0 .. Len(o[h]),
           NEW x, x = Pos(o, h, a), NEW y, y = Pos(o, h, b)
    PROVE  list_check([n EXCEPT ![x] = y], p, h) <=> y = n[x] \/ (x # h /\ y = h)
<1> DEFINE L == Len(o[h])
           c(k) == Pos(o, h, k)
           n2 == [n EXCEPT ![x] = y]
<1>1. /\ n \in [Items -> Items \cup {NULL}] /\ L \in Nat /\ c(0) = h /\ c(L + 1) = h
      /\ \A k \in Nat : c(k) \in Items
      /\ \A k \in 0 .. L : n[c(k)] = c(k + 1) /\ p[c(k + 1)] = c(k)
      /\ \A j, k \in 0 .. L : c(j) = c(k) => j = k
    BY RingPos
<1>2. x = c(a) /\ y = c(b) /\ a \in 0 .. L /\ b \in 0 .. L
    OBVIOUS
<1>3. x \in Items /\ y \in Items /\ h \in Items
    BY <1>1, <1>2 DEF Items
<1>4. n2 \in [Items -> Items \cup {NULL}] /\ n2[x] = y /\ \A z \in Items \ {x} : n2[z] = n[z]
    BY <1>1, <1>3
<1>5. y = n[x] => list_check(n2, p, h)
  <2>1. y = n[x] => n2 = n
    BY <1>1
  <2>2. list_check(n, p, Pos(o, h, 0))
    <3>1. 0 \in 0 .. Len(o[h])
        BY <1>1
    <3> QED BY <3>1, CheckSound
  <2> QED BY <1>1, <2>1, <2>2
<1> HIDE DEF n2
<1>6. PICK f : /\ IsWalk(n2, p, h, f)
               /\ list_check(n2, p, h) = IF n2[h] = h THEN p[h] = h ELSE f[h]
  <2>1. n2 \in [Items -> Items \cup {NULL}] /\ h \in Items
    BY <1>3, <1>4
  <2> QED BY <2>1, CheckWalks
<1>61. IsWalk(n2, p, h, f)
    BY <1>6
<1>7. y # h => (p[y] = x <=> y = n[x])
  <2> SUFFICES ASSUME y # h PROVE p[y] = x <=> y = n[x]
    OBVIOUS
  <2> HIDE DEF c, L
  <2>1. b - 1 \in 0 .. L /\ (b - 1) + 1 = b
    <3>1. b # 0
        BY <1>1, <1>2
    <3> QED BY <1>1, <1>2, <3>1
  <2>2. p[y] = c(b - 1)
    BY <1>1, <1>2, <2>1
  <2>3. n[x] = c(a + 1)
    BY <1>1, <1>2
  <2>4. c(b - 1) = c(a) => a + 1 = b
    BY <1>1, <1>2, <2>1
  <2>5. c(b) = c(a + 1) => b - 1 = a
    <3>1. CASE a = L
        BY <1>1, <1>2, <3>1
    <3>2. CASE a # L
      <4>1. a + 1 \in 0 .. L
        BY <1>1, <1>2, <3>2
      <4> QED BY <1>1, <1>2, <2>1, <4>1
    <3> QED BY <3>1, <3>2
  <2>6. a + 1 = b <=> b - 1 = a
    BY <1>1, <1>2
  <2> QED BY <1>2, <2>2, <2>3, <2>4, <2>5, <2>6
<1>8. CASE x = h /\ y = h
  <2> HIDE DEF c, L
  <2>1. p[h] = c(L) /\ n[h] = c(1)
    BY <1>1
  <2>2. p[h] = h <=> L = 0
    BY <1>1, <2>1
  <2>3. n[h] = h <=> L = 0
    <3>1. L # 0 => 1 \in 0 .. L
        BY <1>1
    <3>2. L # 0 => c(1) # c(0)
        BY <1>1, <3>1
    <3> QED BY <1>1, <2>1, <3>2
  <2> QED BY <1>4, <1>6, <1>8, <2>2, <2>3 DEF n2
<1>9. CASE x = h /\ y # h
  <2>1. f[h] => p[y] = h
    <3>1. n2[h] = y
        BY <1>4, <1>9
    <3> QED BY <1>3, <1>4, <1>6, <1>9, <3>1, WalkStep
  <2> QED BY <1>4, <1>5, <1>6, <1>7, <1>9, <2>1 DEF n2
<1>10. CASE x # h
  <2>1. n2[h] # h
    <3> HIDE DEF c, L
    <3>1. n2[h] = n[h] /\ n[h] = c(1)
        BY <1>1, <1>3, <1>4, <1>10
    <3>2. 1 \in 0 .. L /\ 0 \in 0 .. L
        BY <1>1, <1>2, <1>10
    <3> QED BY <1>1, <3>1, <3>2
  <2>2. f[h] <=> f[x]
    <3>1. ASSUME NEW k \in 0 .. a - 1 PROVE n2[c(k)] = n[c(k)]
      <4>1. k \in 0 .. L /\ k # a /\ k \in Nat
        BY <1>1, <1>2
      <4> HIDE DEF c, L
      <4>2. c(k) # x /\ c(k) \in Items
        BY <1>1, <1>2, <4>1
      <4> QED BY <1>4, <4>2
    <3>2. SameTo(n, p, n2, p, o, h, a)
        BY <3>1 DEF SameTo
    <3> QED BY <1>2, <1>4, <1>61, <3>2, WalkTo
  <2>3. f[x] <=> y = h \/ (p[y] = x /\ f[y])
    <3>1. n2 \in [Items -> Items \cup {NULL}] /\ n2[x] = y
        BY <1>4
    <3>2. CASE y = h
        BY <1>3, <1>61, <3>1, <3>2, WalkEnds
    <3>3. CASE y # h
        BY <1>3, <1>61, <3>1, <3>3, WalkPast
    <3> QED BY <3>2, <3>3
  <2>4. list_check(n2, p, h) <=> f[x]
    <3>1. f[h] \in BOOLEAN
      <4>1. n2[h] \in Items
        <5> HIDE DEF c, L
        <5> QED BY <1>1, <1>3, <1>4, <1>10
      <4> QED BY <1>3, <1>4, <1>6, <4>1, WalkStep
    <3> QED BY <1>6, <2>1, <2>2, <3>1
  <2> QED BY <1>5, <1>7, <1>10, <2>3, <2>4 DEF n2
<1> QED BY <1>8, <1>9, <1>10

\* A prev link with another item of the list in it is found, but the one of the head
\* of a list with nodes.
LEMMA PrevDamage ==
    ASSUME NEW n, NEW p, NEW o, Sound(n, p, o), NEW h \in Heads,
           NEW a \in 0 .. Len(o[h]), NEW b \in 0 .. Len(o[h]),
           NEW x, x = Pos(o, h, a), NEW y, y = Pos(o, h, b)
    PROVE  list_check(n, [p EXCEPT ![x] = y], h) <=> y = p[x] \/ (x = h /\ n[h] # h)
<1> DEFINE L == Len(o[h])
           c(k) == Pos(o, h, k)
           p2 == [p EXCEPT ![x] = y]
<1>1. /\ n \in [Items -> Items \cup {NULL}] /\ p \in [Items -> Items \cup {NULL}]
      /\ L \in Nat /\ c(0) = h /\ c(L + 1) = h
      /\ \A k \in Nat : c(k) \in Items
      /\ \A k \in 0 .. L : n[c(k)] = c(k + 1) /\ p[c(k + 1)] = c(k)
      /\ \A j, k \in 0 .. L : c(j) = c(k) => j = k
    BY RingPos
<1>2. x = c(a) /\ y = c(b) /\ a \in 0 .. L /\ b \in 0 .. L
    OBVIOUS
<1>3. x \in Items /\ y \in Items /\ h \in Items
    BY <1>1, <1>2 DEF Items
<1>4. p2[x] = y /\ \A z \in Items \ {x} : p2[z] = p[z]
    BY <1>1, <1>3
<1>5. y = p[x] => list_check(n, p2, h)
  <2>1. y = p[x] => p2 = p
    BY <1>1
  <2>2. list_check(n, p, Pos(o, h, 0))
    <3>1. 0 \in 0 .. Len(o[h])
        BY <1>1
    <3> QED BY <3>1, CheckSound
  <2> QED BY <1>1, <2>1, <2>2
<1> HIDE DEF p2
<1>6. PICK f : /\ IsWalk(n, p2, h, f)
               /\ list_check(n, p2, h) = IF n[h] = h THEN p2[h] = h ELSE f[h]
  <2>1. n \in [Items -> Items \cup {NULL}] /\ h \in Items
    BY <1>1, <1>3
  <2> QED BY <2>1, CheckWalks
<1>61. IsWalk(n, p2, h, f) /\ n \in [Items -> Items \cup {NULL}]
    BY <1>1, <1>6
<1>7. n[h] = h <=> L = 0
  <2> HIDE DEF c, L
  <2>1. n[h] = c(1)
    BY <1>1
  <2>2. L # 0 => 1 \in 0 .. L /\ 0 \in 0 .. L
    BY <1>1
  <2> QED BY <1>1, <2>1, <2>2
<1>8. CASE L = 0
  <2> HIDE DEF c, L
  <2>1. x = h /\ y = h
    BY <1>1, <1>2, <1>8
  <2>2. p[h] = h
    BY <1>1, <1>8
  <2> QED BY <1>5, <2>1, <2>2 DEF p2
<1>9. CASE L # 0 /\ x = h
  <2>1. f[h] <=> f[c(L)]
    <3>1. ASSUME NEW k \in 1 .. L PROVE p2[c(k)] = p[c(k)]
      <4>1. k \in 0 .. L /\ k # 0 /\ k \in Nat /\ 0 \in 0 .. L
        BY <1>1
      <4> HIDE DEF c, L
      <4>2. c(k) # x /\ c(k) \in Items
        BY <1>1, <1>9, <4>1
      <4> QED BY <1>4, <4>2
    <3>2. L \in 0 .. L
        BY <1>1
    <3>3. SameTo(n, p, n, p2, o, h, L)
        BY <3>1 DEF SameTo
    <3> QED BY <1>61, <3>2, <3>3, WalkTo
  <2>2. f[c(L)]
    <3>1. n[c(L)] = h /\ c(L) \in Items
      <4> HIDE DEF c, L
      <4> QED BY <1>1
    <3> HIDE DEF c, L
    <3> QED BY <1>3, <1>61, <3>1, WalkEnds
  <2> QED BY <1>6, <1>7, <1>9, <2>1, <2>2 DEF p2
<1>10. CASE x # h
  <2>1. a - 1 \in 0 .. L /\ (a - 1) + 1 = a /\ L # 0 /\ a - 1 \in Nat
    <3> HIDE DEF c, L
    <3>1. a # 0
        BY <1>1, <1>2, <1>10
    <3> QED BY <1>1, <1>2, <3>1
  <2>2. f[h] <=> f[c(a - 1)]
    <3>1. ASSUME NEW k \in 1 .. a - 1 PROVE p2[c(k)] = p[c(k)]
      <4>1. k \in 0 .. L /\ k # a /\ k \in Nat
        BY <1>1, <1>2
      <4> HIDE DEF c, L
      <4>2. c(k) # x /\ c(k) \in Items
        BY <1>1, <1>2, <4>1
      <4> QED BY <1>4, <4>2
    <3>2. SameTo(n, p, n, p2, o, h, a - 1)
        BY <3>1 DEF SameTo
    <3> QED BY <1>61, <2>1, <3>2, WalkTo
  <2>3. n[c(a - 1)] = x /\ p[x] = c(a - 1) /\ c(a - 1) \in Items
    <3> HIDE DEF c, L
    <3> QED BY <1>1, <1>2, <2>1
  <2>4. f[c(a - 1)] => y = p[x]
    <3> HIDE DEF c, L
    <3>1. f[c(a - 1)] => p2[n[c(a - 1)]] = c(a - 1)
        BY <1>1, <1>3, <1>6, <1>10, <2>3, WalkStep
    <3> QED BY <1>4, <2>3, <3>1
  <2>5. list_check(n, p2, h) => f[h]
    BY <1>6, <1>7, <2>1
  <2> QED BY <1>5, <1>10, <2>2, <2>4, <2>5 DEF p2
<1> QED BY <1>8, <1>9, <1>10

-----------------------------------------------------------------------------
(* The invariant. *)

\* Members and positions.
LEMMA RingMembers ==
    ASSUME NEW n, NEW p, NEW o, Sound(n, p, o), NEW h \in Heads,
           NEW x \in Members(o[h]) \cup {h}
    PROVE  n[x] \in Members(o[h]) \cup {h} /\ n[h] \in Members(o[h]) \cup {h} /\ x \in Items
<1>1. o \in [Heads -> Seq(Nodes)] /\ Rings(n, p, o)
    BY DEF Sound, Linked
<1>2. o[h] \in Seq(Nodes) /\ Len(o[h]) \in Nat /\ DOMAIN o[h] = 1 .. Len(o[h])
    BY <1>1
<1>3. \A k \in Int : Pos(o, h, k) \in Members(o[h]) \cup {h} /\ Pos(o, h, k) \in Items
  <2> TAKE k \in Int
  <2>1. Pos(o, h, k) \in Items
    BY <1>1, PosItem
  <2>2. Pos(o, h, k) \in Members(o[h]) \cup {h}
    BY <1>2 DEF Pos, Members
  <2> QED BY <2>1, <2>2
<1>4. PICK k \in 0 .. Len(o[h]) : x = Pos(o, h, k)
    BY <1>2 DEF Pos, Members
<1>5. n[Pos(o, h, k)] = Pos(o, h, k + 1) /\ n[Pos(o, h, 0)] = Pos(o, h, 0 + 1)
    BY <1>1, <1>2 DEF Rings
<1>6. Pos(o, h, 0) = h
    BY <1>2 DEF Pos
<1>7. k \in Int /\ k + 1 \in Int /\ 0 + 1 \in Int
    BY <1>2
<1> QED BY <1>3, <1>4, <1>5, <1>6, <1>7

\* A node that is in no list of the program is outside.
LEMMA NotInList ==
    ASSUME ListInv, NEW x \in Nodes, x \notin InList
    PROVE  Outside(order, x)
<1> SUFFICES ASSUME NEW h \in Heads, NEW k \in 1 .. Len(order[h]) PROVE order[h][k] # x
    BY DEF Outside
<1>1. order[h] \in Seq(Nodes)
    BY DEF ListInv, Sound, Linked
<1>2. k \in DOMAIN order[h]
    BY <1>1
<1> QED BY <1>2 DEF InList, Members

\* The links and lists that the rings determine keep their types.
LEMMA SoundTypes ==
    ASSUME NEW n, NEW p, NEW o, Sound(n, p, o)
    PROVE  /\ n \in [Items -> Items \cup {NULL}] /\ p \in [Items -> Items \cup {NULL}]
           /\ o \in [Heads -> Seq(Nodes)]
           /\ \A h \in Heads : n[h] # NULL /\ p[h] # NULL
<1>1. /\ n \in [Items -> Items \cup {NULL}] /\ p \in [Items -> Items \cup {NULL}]
      /\ o \in [Heads -> Seq(Nodes)] /\ Rings(n, p, o)
    BY DEF Sound, Linked
<1>2. NULL \notin Items
    BY ListAssumption DEF Items
<1>3. ASSUME NEW h \in Heads PROVE n[h] # NULL /\ p[h] # NULL
  <2>1. Len(o[h]) \in Nat
    BY <1>1, PosItem
  <2>2. /\ Pos(o, h, 0) = h /\ Pos(o, h, Len(o[h]) + 1) = h
        /\ Pos(o, h, 1) \in Items /\ Pos(o, h, Len(o[h])) \in Items
    BY <1>1, <2>1, PosItem
  <2>3. /\ n[Pos(o, h, 0)] = Pos(o, h, 0 + 1)
        /\ p[Pos(o, h, Len(o[h]) + 1)] = Pos(o, h, Len(o[h]))
    BY <1>1, <2>1 DEF Rings
  <2> QED BY <1>2, <2>2, <2>3
<1> QED BY <1>1, <1>3

\* The invariant holds at first: all lists are empty.
LEMMA ListInit == Init => ListInv
<1> SUFFICES ASSUME Init PROVE ListInv
    OBVIOUS
<1>1. /\ next = [x \in Items |-> IF x \in Heads THEN x ELSE NULL] /\ prev = next
      /\ order = [h \in Heads |-> <<>>] /\ loop = NULL
    BY DEF Init
<1>2. \A h \in Heads : order[h] = <<>> /\ Len(order[h]) = 0
    BY <1>1
<1>3. Linked(next, prev, order)
  <2>1. <<>> \in Seq(Nodes)
    OBVIOUS
  <2> QED BY <1>1, <2>1 DEF Linked, Items
<1>4. Apart(order)
    BY <1>2 DEF Apart
<1>5. \A h \in Heads, k \in Int : Pos(order, h, k) = h
    BY <1>2 DEF Pos
<1>6. Rings(next, prev, order)
    BY <1>1, <1>2, <1>5 DEF Rings, Items
<1>7. Sound(next, prev, order)
    BY <1>3, <1>4, <1>6 DEF Sound
<1>8. Locals
  <2>1. debug \in BOOLEAN /\ aborted \in BOOLEAN /\ added \in BOOLEAN
    BY DEF Init
  <2>2. stay \subseteq Nodes /\ seen \in Seq(Nodes)
    BY DEF Init
  <2> QED BY <1>1, <2>1, <2>2 DEF Locals
<1>9. LoopInside
    BY <1>1 DEF LoopInside
<1> QED BY <1>7, <1>8, <1>9 DEF ListInv

\* A step that leaves the loop alone and only takes away nodes it does not need.
LEMMA LoopKept ==
    ASSUME ListInv, loop' = loop,
           loop # NULL => Needed \in Members(order'[loop.h]) \cup {loop.h}
    PROVE  LoopInside'
BY DEF ListInv, LoopInside, Needed

\* list_head_init preserves the invariant.
LEMMA Inv_list_head_init ==
    ASSUME ListInv, NEW h \in Heads, list_head_init(h)
    PROVE  ListInv'
<1>1. Sound(next', prev', order')
    BY InitSound DEF ListInv, list_head_init
<1>2. Locals'
    BY DEF ListInv, Locals, list_head_init
<1>3. loop # NULL => Needed \in Members(order'[loop.h]) \cup {loop.h}
  <2>1. loop # NULL => loop.h \in Heads \ {h}
    BY DEF ListInv, Locals, Loops, list_head_init
  <2>2. loop # NULL => order'[loop.h] = order[loop.h]
    BY <2>1 DEF ListInv, Sound, Linked, list_head_init
  <2> QED BY <2>2 DEF ListInv, LoopInside
<1>4. LoopInside'
    BY <1>3, LoopKept DEF list_head_init
<1> QED BY <1>1, <1>2, <1>4 DEF ListInv

\* Nodes that are added, at either end, do not disturb the others.
LEMMA MembersAdded ==
    ASSUME NEW s \in Seq(Nodes), NEW x \in Nodes
    PROVE  Members(s) \subseteq Members(<<x>> \o s) /\ Members(s) \subseteq Members(s \o <<x>>)
<1>1. <<x>> \in Seq(Nodes) /\ Len(<<x>>) = 1
    OBVIOUS
<1>2. Len(s) \in Nat /\ DOMAIN s = 1 .. Len(s)
    OBVIOUS
<1>3. /\ <<x>> \o s \in Seq(Nodes) /\ Len(<<x>> \o s) = 1 + Len(s)
      /\ \A i \in 1 .. 1 + Len(s) : (<<x>> \o s)[i] = IF i <= 1 THEN <<x>>[i] ELSE s[i - 1]
    BY <1>1, ConcatProperties
<1>4. /\ s \o <<x>> \in Seq(Nodes) /\ Len(s \o <<x>>) = Len(s) + 1
      /\ \A i \in 1 .. Len(s) + 1 : (s \o <<x>>)[i] = IF i <= Len(s) THEN s[i] ELSE <<x>>[i - Len(s)]
    BY <1>1, ConcatProperties
<1>5. ASSUME NEW k \in 1 .. Len(s)
      PROVE  /\ s[k] \in Members(<<x>> \o s)
             /\ s[k] \in Members(s \o <<x>>)
  <2>1. k + 1 \in DOMAIN (<<x>> \o s) /\ (<<x>> \o s)[k + 1] = s[k]
    BY <1>2, <1>3
  <2>2. k \in DOMAIN (s \o <<x>>) /\ (s \o <<x>>)[k] = s[k]
    BY <1>2, <1>4
  <2> QED BY <2>1, <2>2 DEF Members
<1> QED BY <1>2, <1>5 DEF Members

\* What list_add and list_add_tail have in common.
LEMMA Inv_Adds ==
    ASSUME ListInv, NEW h \in Heads, NEW x \in Nodes, Adds(h, x),
           Sound(next', prev', order'),
           \A g \in Heads : Members(order[g]) \subseteq Members(order'[g])
    PROVE  ListInv'
<1>1. Locals'
    BY DEF ListInv, Locals, Adds, debug_list
<1>2. loop # NULL => Needed \in Members(order'[loop.h]) \cup {loop.h}
  <2>1. loop # NULL => loop.h \in Heads
    BY DEF ListInv, Locals, Loops
  <2> QED BY <2>1 DEF ListInv, LoopInside
<1>3. LoopInside'
    BY <1>2, LoopKept DEF Adds
<1> QED BY <1>1, <1>3 DEF ListInv

\* list_add preserves the invariant.
LEMMA Inv_list_add ==
    ASSUME ListInv, NEW h \in Heads, NEW x \in Nodes, list_add(h, x)
    PROVE  ListInv'
<1>1. Outside(order, x)
    BY NotInList DEF list_add, Adds
<1>2. Sound(next', prev', order')
    BY <1>1, AddSound DEF ListInv, list_add
<1>3. \A g \in Heads : Members(order[g]) \subseteq Members(order'[g])
  <2>1. order \in [Heads -> Seq(Nodes)]
    BY DEF ListInv, Sound, Linked
  <2> QED BY <2>1, MembersAdded DEF list_add
<1> QED BY <1>2, <1>3, Inv_Adds DEF list_add

\* list_add_tail preserves the invariant.
LEMMA Inv_list_add_tail ==
    ASSUME ListInv, NEW h \in Heads, NEW x \in Nodes, list_add_tail(h, x)
    PROVE  ListInv'
<1>1. Outside(order, x)
    BY NotInList DEF list_add_tail, Adds
<1>2. Sound(next', prev', order')
    BY <1>1, AddTailSound DEF ListInv, list_add_tail
<1>3. \A g \in Heads : Members(order[g]) \subseteq Members(order'[g])
  <2>1. order \in [Heads -> Seq(Nodes)]
    BY DEF ListInv, Sound, Linked
  <2> QED BY <2>1, MembersAdded DEF list_add_tail
<1> QED BY <1>2, <1>3, Inv_Adds DEF list_add_tail

\* Only the deleted node goes.
LEMMA MembersKept ==
    ASSUME NEW s \in Seq(Nodes), NEW m \in 1 .. Len(s)
    PROVE  Members(s) \subseteq Members(Without(s, m)) \cup {s[m]}
<1>1. Len(s) \in Nat /\ DOMAIN s = 1 .. Len(s) /\ m \in Int
    OBVIOUS
<1>2. ASSUME NEW k \in 1 .. Len(s), k # m PROVE s[k] \in Members(Without(s, m))
  <2>1. CASE k < m
    <3>1. k \in 1 .. Len(s) - 1
        BY <1>1, <2>1
    <3> QED BY <2>1, <3>1 DEF Members, Without
  <2>2. CASE k > m
    <3>1. k - 1 \in 1 .. Len(s) - 1 /\ ~(k - 1 < m) /\ (k - 1) + 1 = k
        BY <1>1, <2>2
    <3>2. Without(s, m)[k - 1] = s[k]
        BY <3>1 DEF Without
    <3>3. k - 1 \in DOMAIN Without(s, m)
        BY <3>1 DEF Without
    <3> QED BY <3>2, <3>3 DEF Members
  <2> QED BY <1>1, <1>2, <2>1, <2>2
<1> QED BY <1>1, <1>2 DEF Members

\* list_del preserves the invariant.
LEMMA Inv_list_del ==
    ASSUME ListInv, NEW x \in Nodes, list_del(x)
    PROVE  ListInv'
<1>0. PICK h \in Heads : \E m \in DOMAIN order[h] :
            order[h][m] = x /\ order' = [order EXCEPT ![h] = Without(@, m)]
    BY DEF list_del
<1>1. PICK m \in DOMAIN order[h] :
            order[h][m] = x /\ order' = [order EXCEPT ![h] = Without(@, m)]
    BY <1>0
<1>2. order \in [Heads -> Seq(Nodes)]
    BY DEF ListInv, Sound, Linked
<1>3. m \in 1 .. Len(order[h])
    BY <1>2
<1>4. Sound(Unlinked(x).next, Unlinked(x).prev, order') /\ Outside(order', x)
    BY <1>1, <1>3, DelSound DEF ListInv, Unlinked
<1>5. Sound(next', prev', order')
  <2>1. CASE debug
    BY <1>4, <2>1, ClearSound DEF list_del, Cleared
  <2>2. CASE ~debug
    BY <1>4, <2>2 DEF list_del, Cleared
  <2> QED BY <2>1, <2>2
<1>6. Locals'
    BY DEF ListInv, Locals, list_del, debug_list
<1>7. loop # NULL => Needed \in Members(order'[loop.h]) \cup {loop.h}
  <2>1. loop # NULL => loop.h \in Heads
    BY DEF ListInv, Locals, Loops
  <2>2. \A g \in Heads : Members(order[g]) \subseteq Members(order'[g]) \cup {x}
    BY <1>1, <1>2, <1>3, MembersKept
  <2>3. Needed # x
    BY DEF list_del
  <2> QED BY <2>1, <2>2, <2>3 DEF ListInv, LoopInside
<1>8. LoopInside'
    BY <1>7, LoopKept DEF list_del
<1> QED BY <1>5, <1>6, <1>8 DEF ListInv

\* A loop that comes to x inside its list, with what it needs next.
LEMMA Inv_ComesTo ==
    ASSUME ListInv, UNCHANGED <<next, prev, order>>,
           NEW kind \in {"each", "safe"}, NEW h \in Heads,
           NEW x \in Members(order[h]) \cup {h}, NEW nxt, ComesTo(kind, h, x, nxt),
           kind = "each" => nxt = NULL,
           kind = "safe" => nxt \in Members(order[h]) \cup {h}
    PROVE  /\ loop' \in Loops \cup {NULL}
           /\ Sound(next', prev', order')
           /\ LoopInside'
<1>1. x \in Items
    BY RingMembers DEF ListInv
<1>2. kind = "safe" => nxt \in Items
    BY RingMembers DEF ListInv
<1>3. loop' \in Loops
    BY <1>1, <1>2 DEF ComesTo, Loops
<1>4. loop'.i = x /\ loop'.h = h /\ loop'.nxt = nxt /\ loop'.kind = kind
    BY DEF ComesTo
<1>5. NULL \notin Items
    BY ListAssumption DEF Items
<1>6. LoopInside'
  <2>1. CASE loop' = NULL
    BY <2>1 DEF LoopInside
  <2>2. CASE loop' # NULL
    BY <1>1, <1>4, <1>5, <2>2 DEF LoopInside, Needed
  <2> QED BY <2>1, <2>2
<1>7. Sound(next', prev', order')
    BY DEF ListInv
<1> QED BY <1>3, <1>6, <1>7

\* What the loops have in common at their start.
LEMMA Inv_Starts ==
    ASSUME ListInv, NEW h \in Heads, Starts(h)
    PROVE  /\ debug' \in BOOLEAN /\ aborted' \in BOOLEAN /\ added' \in BOOLEAN
           /\ stay' \subseteq Nodes /\ seen' \in Seq(Nodes)
           /\ UNCHANGED <<next, prev, order>>
<1>1. order[h] \in Seq(Nodes)
    BY DEF ListInv, Sound, Linked
<1>2. debug' \in BOOLEAN /\ aborted' \in BOOLEAN /\ added' \in BOOLEAN
    BY DEF ListInv, Locals, Starts, debug_list
<1>3. stay' \subseteq Nodes
    BY <1>1 DEF Starts, Members
<1>4. seen' \in Seq(Nodes)
    BY DEF Starts
<1> QED BY <1>2, <1>3, <1>4 DEF Starts, links

\* list_for_each preserves the invariant.
LEMMA Inv_list_for_each ==
    ASSUME ListInv, NEW h \in Heads, list_for_each(h)
    PROVE  ListInv'
<1>1. next[h] \in Members(order[h]) \cup {h}
    BY RingMembers DEF ListInv
<1>2. /\ debug' \in BOOLEAN /\ aborted' \in BOOLEAN /\ added' \in BOOLEAN
      /\ stay' \subseteq Nodes /\ seen' \in Seq(Nodes)
      /\ UNCHANGED <<next, prev, order>>
    BY Inv_Starts DEF list_for_each
<1>3. loop' \in Loops \cup {NULL} /\ Sound(next', prev', order') /\ LoopInside'
  <2>1. ComesTo("each", h, next[h], NULL)
    BY DEF list_for_each
  <2> QED BY <1>1, <1>2, <2>1, Inv_ComesTo
<1> QED BY <1>2, <1>3 DEF ListInv, Locals

\* list_for_each_safe preserves the invariant.
LEMMA Inv_list_for_each_safe ==
    ASSUME ListInv, NEW h \in Heads, list_for_each_safe(h)
    PROVE  ListInv'
<1>1. next[h] \in Members(order[h]) \cup {h} /\ next[next[h]] \in Members(order[h]) \cup {h}
  <2>1. next[h] \in Members(order[h]) \cup {h}
    BY RingMembers DEF ListInv
  <2> QED BY <2>1, RingMembers DEF ListInv
<1>2. /\ debug' \in BOOLEAN /\ aborted' \in BOOLEAN /\ added' \in BOOLEAN
      /\ stay' \subseteq Nodes /\ seen' \in Seq(Nodes)
      /\ UNCHANGED <<next, prev, order>>
    BY Inv_Starts DEF list_for_each_safe
<1>3. loop' \in Loops \cup {NULL} /\ Sound(next', prev', order') /\ LoopInside'
  <2>1. ComesTo("safe", h, next[h], next[next[h]])
    BY DEF list_for_each_safe
  <2> QED BY <1>1, <1>2, <2>1, Inv_ComesTo
<1> QED BY <1>2, <1>3 DEF ListInv, Locals

\* The step of a loop (list.h:235 and 259) preserves the invariant.
LEMMA Inv_Advance ==
    ASSUME ListInv, Advance
    PROVE  ListInv'
<1>1. /\ loop # NULL /\ Step
      /\ seen' = IF loop'.i \in stay THEN Append(seen, loop'.i) ELSE seen
      /\ UNCHANGED <<debug, aborted, added, stay>>
      /\ UNCHANGED <<next, prev, order>>
    BY DEF Advance, links
<1>2. loop.h \in Heads /\ loop.kind \in {"each", "safe"}
    BY <1>1 DEF ListInv, Locals, Loops
<1>3. Needed \in Members(order[loop.h]) \cup {loop.h}
    BY <1>1 DEF ListInv, LoopInside
<1>4. next[Needed] \in Members(order[loop.h]) \cup {loop.h} /\ Needed # NULL
  <2>1. next[Needed] \in Members(order[loop.h]) \cup {loop.h} /\ Needed \in Items
    BY <1>2, <1>3, RingMembers DEF ListInv
  <2> QED BY <2>1, ListAssumption DEF Items
<1>5. loop' \in Loops \cup {NULL} /\ Sound(next', prev', order') /\ LoopInside'
  <2>1. CASE loop.kind = "each"
    <3>1. Needed = loop.i
        BY <1>1, <2>1 DEF Needed
    <3>2. ComesTo("each", loop.h, next[Needed], NULL)
        BY <1>1, <1>4, <2>1, <3>1 DEF Step, Follow
    <3> QED BY <1>1, <1>2, <1>4, <3>2, Inv_ComesTo
  <2>2. CASE loop.kind = "safe"
    <3>1. Needed = loop.nxt
        BY <1>1, <2>2 DEF Needed
    <3>2. ComesTo("safe", loop.h, Needed, next[Needed])
        BY <1>1, <1>4, <2>2, <3>1 DEF Step, Follow
    <3> QED BY <1>1, <1>2, <1>3, <1>4, <3>2, Inv_ComesTo
  <2> QED BY <1>2, <2>1, <2>2
<1>6. seen' \in Seq(Nodes)
    BY <1>1 DEF ListInv, Locals
<1> QED BY <1>1, <1>5, <1>6 DEF ListInv, Locals

\* The end of a loop preserves the invariant.
LEMMA Inv_Leave ==
    ASSUME ListInv, Leave
    PROVE  ListInv'
<1>1. loop' = NULL /\ Sound(next', prev', order')
    BY DEF ListInv, Leave, links
<1>2. debug' \in BOOLEAN /\ aborted' \in BOOLEAN /\ added' \in BOOLEAN
    BY DEF ListInv, Locals, Leave
<1>3. stay' \subseteq Nodes /\ seen' \in Seq(Nodes)
    BY DEF Leave
<1> QED BY <1>1, <1>2, <1>3 DEF ListInv, Locals, LoopInside

\* A look at a list preserves the invariant.
LEMMA Inv_Look ==
    ASSUME ListInv, NEW h \in Heads, Look(h)
    PROVE  ListInv'
<1>1. Locals'
    BY DEF ListInv, Locals, Look, debug_list
<1>2. Sound(next', prev', order') /\ LoopInside'
    BY DEF ListInv, Look, links, LoopInside, Needed
<1> QED BY <1>1, <1>2 DEF ListInv

\* Every step preserves the invariant.
LEMMA ListNext == ListInv /\ [Next]_vars => ListInv'
<1> SUFFICES ASSUME ListInv, [Next]_vars PROVE ListInv'
    OBVIOUS
<1>1. ASSUME NEW h \in Heads, list_head_init(h) PROVE ListInv'
    BY <1>1, Inv_list_head_init
<1>2. ASSUME NEW h \in Heads, Look(h) PROVE ListInv'
    BY <1>2, Inv_Look
<1>3. ASSUME NEW h \in Heads, list_for_each(h) PROVE ListInv'
    BY <1>3, Inv_list_for_each
<1>4. ASSUME NEW h \in Heads, list_for_each_safe(h) PROVE ListInv'
    BY <1>4, Inv_list_for_each_safe
<1>5. ASSUME NEW h \in Heads, NEW n \in Nodes, list_add(h, n) PROVE ListInv'
    BY <1>5, Inv_list_add
<1>6. ASSUME NEW h \in Heads, NEW n \in Nodes, list_add_tail(h, n) PROVE ListInv'
    BY <1>6, Inv_list_add_tail
<1>7. ASSUME NEW n \in Nodes, list_del(n) PROVE ListInv'
    BY <1>7, Inv_list_del
<1>8. CASE Advance
    BY <1>8, Inv_Advance
<1>9. CASE Leave
    BY <1>9, Inv_Leave
<1>10. CASE UNCHANGED vars
    BY <1>10 DEF ListInv, Locals, LoopInside, Needed, vars, links
<1> QED BY <1>1, <1>2, <1>3, <1>4, <1>5, <1>6, <1>7, <1>8, <1>9, <1>10 DEF Next, Operations

\* The invariant in every behaviour.
LEMMA ListInvariant == Spec => []ListInv
BY ListInit, ListNext, PTL DEF Spec

\* The invariant gives the types.
LEMMA InvTypes == ListInv => TypeOK
<1> SUFFICES ASSUME ListInv PROVE TypeOK
    OBVIOUS
<1>1. /\ next \in [Items -> Items \cup {NULL}] /\ prev \in [Items -> Items \cup {NULL}]
      /\ order \in [Heads -> Seq(Nodes)]
      /\ \A h \in Heads : next[h] # NULL /\ prev[h] # NULL
    BY SoundTypes DEF ListInv
<1> QED BY <1>1 DEF ListInv, Locals, TypeOK

\* The invariant gives the rings as RingSound states them.
LEMMA InvRings == ListInv => RingSound
<1> SUFFICES ASSUME ListInv, NEW h \in Heads
             PROVE  /\ \A k \in 0 .. Len(order[h]) :
                        next[At(h, k)] = At(h, k + 1) /\ prev[At(h, k + 1)] = At(h, k)
                    /\ list_empty(h) <=> order[h] = <<>>
                    /\ ~list_empty(h) =>
                        list_top(h) = order[h][1] /\ list_tail(h) = order[h][Len(order[h])]
    BY DEF RingSound
<1>1. order \in [Heads -> Seq(Nodes)] /\ Rings(next, prev, order)
    BY DEF ListInv, Sound, Linked
<1>2. /\ order[h] \in Seq(Nodes) /\ Len(order[h]) \in Nat
      /\ DOMAIN order[h] = 1 .. Len(order[h])
    BY <1>1
<1>3. \A k \in Int : At(h, k) = Pos(order, h, k)
    BY <1>2 DEF At, Pos
<1>4. \A k \in 0 .. Len(order[h]) :
        next[At(h, k)] = At(h, k + 1) /\ prev[At(h, k + 1)] = At(h, k)
    BY <1>1, <1>2, <1>3 DEF Rings
<1>5. /\ next[Pos(order, h, 0)] = Pos(order, h, 0 + 1)
      /\ prev[Pos(order, h, Len(order[h]) + 1)] = Pos(order, h, Len(order[h]))
    BY <1>1, <1>2 DEF Rings
<1>6. Pos(order, h, 0) = h /\ Pos(order, h, Len(order[h]) + 1) = h
    BY <1>2 DEF Pos
<1>7. CASE order[h] = <<>>
  <2>1. Pos(order, h, 1) = h
    BY <1>7 DEF Pos
  <2> QED BY <1>4, <1>5, <1>6, <1>7, <2>1 DEF list_empty
<1>8. CASE order[h] # <<>>
  <2>1. Len(order[h]) >= 1
    BY <1>2, <1>8
  <2>2. /\ Pos(order, h, 1) = order[h][1] /\ order[h][1] \in Nodes
        /\ Pos(order, h, Len(order[h])) = order[h][Len(order[h])]
    BY <1>2, <2>1 DEF Pos
  <2>3. next[h] # h
    BY <1>5, <1>6, <2>2, ListAssumption
  <2> QED BY <1>4, <1>5, <1>6, <1>8, <2>2, <2>3 DEF list_empty, list_top, list_tail
<1> QED BY <1>7, <1>8

-----------------------------------------------------------------------------
(* The debug checks. *)

\* A member of a list, or its head, has a position.
LEMMA RingItem ==
    ASSUME NEW o \in [Heads -> Seq(Nodes)], NEW h \in Heads, NEW x \in Members(o[h]) \cup {h}
    PROVE  \E k \in 0 .. Len(o[h]) : x = Pos(o, h, k)
<1>1. o[h] \in Seq(Nodes) /\ Len(o[h]) \in Nat /\ DOMAIN o[h] = 1 .. Len(o[h])
    OBVIOUS
<1> QED BY <1>1 DEF Pos, Members

\* The check passes from any item of a list in the lists o.
LEMMA CheckPasses ==
    ASSUME NEW n, NEW p, NEW o, Sound(n, p, o), NEW h \in Heads, NEW x \in Members(o[h]) \cup {h}
    PROVE  list_check(n, p, x)
<1>1. o \in [Heads -> Seq(Nodes)]
    BY DEF Sound, Linked
<1>2. PICK k \in 0 .. Len(o[h]) : x = Pos(o, h, k)
    BY <1>1, RingItem
<1>3. list_check(n, p, Pos(o, h, k))
    BY CheckSound
<1> QED BY <1>2, <1>3

\* The links that list_del (list.h:151) checks are those of the shorter lists, and
\* the check starts in one of them.
LEMMA DelChecked ==
    ASSUME ListInv, NEW x \in Nodes, list_del(x)
    PROVE  list_check(Unlinked(x).next, Unlinked(x).prev, CheckFrom(x))
<1>0. PICK h \in Heads : \E m \in DOMAIN order[h] :
            order[h][m] = x /\ order' = [order EXCEPT ![h] = Without(@, m)]
    BY DEF list_del
<1>1. PICK m \in DOMAIN order[h] :
            order[h][m] = x /\ order' = [order EXCEPT ![h] = Without(@, m)]
    BY <1>0
<1>2. order \in [Heads -> Seq(Nodes)] /\ Sound(next, prev, order)
    BY DEF ListInv, Sound, Linked
<1>3. m \in 1 .. Len(order[h]) /\ order[h] \in Seq(Nodes) /\ Len(order[h]) \in Nat
    BY <1>2
<1>4. Sound(Unlinked(x).next, Unlinked(x).prev, order')
    BY <1>1, <1>3, DelSound DEF ListInv, Unlinked
<1>5. next[x] \in Members(order[h]) \cup {h}
  <2>1. x \in Members(order[h])
    BY <1>1 DEF Members
  <2> QED BY <1>2, <2>1, RingMembers
<1>6. next[x] # x
  <2>1. m \in 0 .. Len(order[h]) /\ Pos(order, h, m) = x
    BY <1>1, <1>3 DEF Pos
  <2>2. next[x] = Pos(order, h, m + 1)
    BY <1>2, <2>1, RingPos
  <2>3. Pos(order, h, m + 1) # Pos(order, h, m)
    <3>1. CASE m = Len(order[h])
      <4>1. Pos(order, h, m + 1) = h
        BY <1>3, <3>1 DEF Pos
      <4> QED BY <2>1, <4>1, ListAssumption
    <3>2. CASE m # Len(order[h])
      <4>1. m + 1 \in 0 .. Len(order[h]) /\ m + 1 # m
        BY <1>3, <3>2
      <4> QED BY <1>2, <2>1, <4>1, RingPos
    <3> QED BY <3>1, <3>2
  <2> QED BY <2>1, <2>2, <2>3
<1>7. next[x] \in Members(order'[h]) \cup {h}
  <2>1. Members(order[h]) \subseteq Members(order'[h]) \cup {x}
    BY <1>1, <1>2, <1>3, MembersKept
  <2> QED BY <1>5, <1>6, <2>1
<1> QED BY <1>4, <1>7, CheckPasses DEF CheckFrom

\* No step of a program that keeps the rules ends in abort().
LEMMA NoAbort == ListInv /\ ListInv' /\ NeverAborts /\ [Next]_vars => NeverAborts'
<1> SUFFICES ASSUME ListInv, ListInv', NeverAborts, [Next]_vars PROVE NeverAborts'
    OBVIOUS
<1>1. Sound(next, prev, order) /\ Sound(next', prev', order')
    BY DEF ListInv
<1>2. ASSUME NEW h \in Heads PROVE list_check(next, prev, h) /\ list_check(next', prev', h)
  <2>1. h \in Members(order[h]) \cup {h} /\ h \in Members(order'[h]) \cup {h}
    OBVIOUS
  <2> QED BY <1>1, <2>1, CheckPasses
<1>3. ASSUME NEW h \in Heads, list_head_init(h) PROVE NeverAborts'
    BY <1>3 DEF list_head_init, NeverAborts
<1>4. ASSUME NEW h \in Heads, Look(h) PROVE NeverAborts'
    BY <1>2, <1>4 DEF Look, debug_list, NeverAborts
<1>5. ASSUME NEW h \in Heads, Starts(h) PROVE NeverAborts'
    BY <1>2, <1>5 DEF Starts, debug_list, NeverAborts
<1>6. ASSUME NEW h \in Heads, NEW n \in Nodes, Adds(h, n) PROVE NeverAborts'
    BY <1>2, <1>6 DEF Adds, debug_list, NeverAborts
<1>7. ASSUME NEW n \in Nodes, list_del(n) PROVE NeverAborts'
  <2>1. list_check(Unlinked(n).next, Unlinked(n).prev, CheckFrom(n))
    BY <1>7, DelChecked
  <2> QED BY <1>7, <2>1 DEF list_del, debug_list, NeverAborts
<1>8. CASE Advance
    BY <1>8 DEF Advance, NeverAborts
<1>9. CASE Leave
    BY <1>9 DEF Leave, NeverAborts
<1>10. CASE UNCHANGED vars
    BY <1>10 DEF vars, NeverAborts
<1> QED BY <1>3, <1>4, <1>5, <1>6, <1>7, <1>8, <1>9, <1>10
        DEF Next, Operations, list_for_each, list_for_each_safe, list_add, list_add_tail

\* The invariant gives what list_check says of a damaged list.
LEMMA InvDamage == ListInv => CheckFindsDamage
<1> SUFFICES ASSUME ListInv, NEW h \in Heads
             PROVE  /\ list_check(next, prev, h)
                    /\ \A x \in Ring(h), y \in Ring(h) :
                        /\ list_check(Hit(next, x, y), prev, h)
                            => y = next[x] \/ (x # h /\ y = h)
                        /\ list_check(next, Hit(prev, x, y), h)
                            => y = prev[x] \/ (x = h /\ ~list_empty(h))
    BY DEF CheckFindsDamage
<1>1. order \in [Heads -> Seq(Nodes)] /\ Sound(next, prev, order)
    BY DEF ListInv, Sound, Linked
<1>2. list_check(next, prev, h)
  <2>1. h \in Members(order[h]) \cup {h}
    OBVIOUS
  <2> QED BY <1>1, <2>1, CheckPasses
<1>3. ASSUME NEW x \in Ring(h), NEW y \in Ring(h)
      PROVE  /\ list_check(Hit(next, x, y), prev, h) => y = next[x] \/ (x # h /\ y = h)
             /\ list_check(next, Hit(prev, x, y), h)
                    => y = prev[x] \/ (x = h /\ ~list_empty(h))
  <2>1. PICK a \in 0 .. Len(order[h]) : x = Pos(order, h, a)
    BY <1>1, RingItem DEF Ring
  <2>2. PICK b \in 0 .. Len(order[h]) : y = Pos(order, h, b)
    BY <1>1, RingItem DEF Ring
  <2>3. list_check([next EXCEPT ![x] = y], prev, h) <=> y = next[x] \/ (x # h /\ y = h)
    BY <1>1, <2>1, <2>2, NextDamage
  <2>4. list_check(next, [prev EXCEPT ![x] = y], h)
            <=> y = prev[x] \/ (x = h /\ next[h] # h)
    BY <1>1, <2>1, <2>2, PrevDamage
  <2> QED BY <2>3, <2>4 DEF list_empty, Hit
<1> QED BY <1>2, <1>3

-----------------------------------------------------------------------------
(* What a loop comes to. *)

\* The loop has come to the node x of its list: it stands before the one the loop
\* needs next, which list_for_each has come to already.
Came(x) ==
    \/ loop.i = loop.h \/ Needed = loop.h
    \/ Before(order[loop.h], x, Needed)
    \/ x = Needed /\ loop.kind = "each"

\* The nodes that stay are in the list, the loop has come to those on its way, and
\* in the order of the list.
VisitInv ==
    loop # NULL =>
        /\ stay \subseteq Members(order[loop.h])
        /\ \A x, y \in stay : Before(seen, x, y) => Before(order[loop.h], x, y)
        /\ \A x \in stay : x \in Members(seen) <=> Came(x)

\* A node put in front changes nothing of the order of the others.
LEMMA BeforeFront ==
    ASSUME NEW s \in Seq(Nodes), NEW n \in Nodes, NEW x, NEW y, x # n, y # n
    PROVE  Before(<<n>> \o s, x, y) <=> Before(s, x, y)
<1> DEFINE t == <<n>> \o s
<1>1. <<n>> \in Seq(Nodes) /\ Len(<<n>>) = 1 /\ <<n>>[1] = n /\ Len(s) \in Nat
    OBVIOUS
<1>2. /\ t \in Seq(Nodes) /\ Len(t) = 1 + Len(s)
      /\ \A i \in 1 .. 1 + Len(s) : t[i] = IF i <= 1 THEN <<n>>[i] ELSE s[i - 1]
    BY <1>1, ConcatProperties
<1> HIDE DEF t
<1>3. DOMAIN s = 1 .. Len(s) /\ DOMAIN t = 1 .. Len(s) + 1
    BY <1>1, <1>2
<1>4. \A i \in DOMAIN t : i \in Int /\ (t[i] = n \/ (i - 1 \in DOMAIN s /\ t[i] = s[i - 1]))
    BY <1>1, <1>2, <1>3
<1>5. \A i \in DOMAIN s : i \in Int /\ i + 1 \in DOMAIN t /\ t[i + 1] = s[i]
    BY <1>1, <1>2, <1>3
<1>6. ASSUME Before(t, x, y) PROVE Before(s, x, y)
  <2>1. PICK j \in DOMAIN t, k \in DOMAIN t : j < k /\ t[j] = x /\ t[k] = y
    BY <1>6 DEF Before
  <2>2. /\ j - 1 \in DOMAIN s /\ k - 1 \in DOMAIN s /\ j - 1 < k - 1
        /\ s[j - 1] = x /\ s[k - 1] = y
    BY <1>4, <2>1
  <2> QED BY <2>2 DEF Before
<1>7. ASSUME Before(s, x, y) PROVE Before(t, x, y)
  <2>1. PICK j \in DOMAIN s, k \in DOMAIN s : j < k /\ s[j] = x /\ s[k] = y
    BY <1>7 DEF Before
  <2>2. /\ j + 1 \in DOMAIN t /\ k + 1 \in DOMAIN t /\ j + 1 < k + 1
        /\ t[j + 1] = x /\ t[k + 1] = y
    BY <1>5, <2>1
  <2> QED BY <2>2 DEF Before
<1> QED BY <1>6, <1>7 DEF t

\* Nor does a node put at the end.
LEMMA BeforeBack ==
    ASSUME NEW s \in Seq(Nodes), NEW n \in Nodes, NEW x, NEW y, x # n, y # n
    PROVE  Before(s \o <<n>>, x, y) <=> Before(s, x, y)
<1> DEFINE t == s \o <<n>>
<1>1. <<n>> \in Seq(Nodes) /\ Len(<<n>>) = 1 /\ <<n>>[1] = n /\ Len(s) \in Nat
    OBVIOUS
<1>2. /\ t \in Seq(Nodes) /\ Len(t) = Len(s) + 1
      /\ \A i \in 1 .. Len(s) + 1 : t[i] = IF i <= Len(s) THEN s[i] ELSE <<n>>[i - Len(s)]
    BY <1>1, ConcatProperties
<1> HIDE DEF t
<1>3. DOMAIN s = 1 .. Len(s) /\ DOMAIN t = 1 .. Len(s) + 1
    BY <1>1, <1>2
<1>4. \A i \in DOMAIN t : t[i] = n \/ (i \in DOMAIN s /\ t[i] = s[i])
    BY <1>1, <1>2, <1>3
<1>5. \A i \in DOMAIN s : i \in DOMAIN t /\ t[i] = s[i]
    BY <1>1, <1>2, <1>3
<1> QED BY <1>4, <1>5 DEF Before, t

\* Nor does the node at m that is taken out.
LEMMA BeforeWithout ==
    ASSUME NEW s \in Seq(Nodes), NEW m \in 1 .. Len(s), NEW x, NEW y, x # s[m], y # s[m]
    PROVE  Before(Without(s, m), x, y) <=> Before(s, x, y)
<1> DEFINE t == Without(s, m)
           Old(i) == IF i < m THEN i ELSE i + 1
           New(i) == IF i < m THEN i ELSE i - 1
<1>1. Len(s) \in Nat /\ DOMAIN s = 1 .. Len(s) /\ m \in Int /\ m >= 1 /\ m <= Len(s)
    OBVIOUS
<1>2. DOMAIN t = 1 .. Len(s) - 1 /\ \A i \in 1 .. Len(s) - 1 : t[i] = s[Old(i)]
    BY DEF Without
<1>3. ASSUME NEW i \in DOMAIN t PROVE i \in Int /\ Old(i) \in DOMAIN s /\ t[i] = s[Old(i)]
    BY <1>1, <1>2
<1>4. ASSUME NEW i \in DOMAIN s, i # m PROVE i \in Int /\ New(i) \in DOMAIN t /\ t[New(i)] = s[i]
  <2>1. i \in Int /\ New(i) \in 1 .. Len(s) - 1 /\ Old(New(i)) = i
    BY <1>1, <1>4
  <2> HIDE DEF New, Old
  <2> QED BY <1>2, <2>1
<1> HIDE DEF t
<1>5. ASSUME Before(t, x, y) PROVE Before(s, x, y)
  <2>1. PICK j \in DOMAIN t, k \in DOMAIN t : j < k /\ t[j] = x /\ t[k] = y
    BY <1>5 DEF Before
  <2>2. j \in Int /\ k \in Int /\ Old(j) \in DOMAIN s /\ Old(k) \in DOMAIN s
    BY <1>3
  <2>3. s[Old(j)] = x /\ s[Old(k)] = y
    BY <1>3, <2>1
  <2>4. Old(j) < Old(k)
    BY <1>1, <2>1, <2>2
  <2> HIDE DEF Old
  <2> QED BY <2>2, <2>3, <2>4 DEF Before
<1>6. ASSUME Before(s, x, y) PROVE Before(t, x, y)
  <2>1. PICK j \in DOMAIN s, k \in DOMAIN s : j < k /\ s[j] = x /\ s[k] = y
    BY <1>6 DEF Before
  <2>2. j # m /\ k # m
    BY <2>1
  <2>3. j \in Int /\ k \in Int /\ New(j) \in DOMAIN t /\ New(k) \in DOMAIN t
    BY <1>4, <2>2
  <2>4. t[New(j)] = x /\ t[New(k)] = y
    BY <1>4, <2>1, <2>2
  <2>5. New(j) < New(k)
    BY <1>1, <2>1, <2>2, <2>3
  <2> HIDE DEF New
  <2> QED BY <2>3, <2>4, <2>5 DEF Before
<1> QED BY <1>5, <1>6 DEF t

\* A step of the body that keeps the nodes that stay, and what the loop needs, in
\* their order.
LEMMA VisitKept ==
    ASSUME ListInv, VisitInv, UNCHANGED <<loop, seen>>,
           loop # NULL =>
                /\ stay' \subseteq stay
                /\ stay' \subseteq Members(order'[loop.h])
                /\ \A x, y \in stay' \cup ({Needed} \ {loop.h}) :
                        Before(order'[loop.h], x, y) <=> Before(order[loop.h], x, y)
    PROVE  VisitInv'
<1> SUFFICES ASSUME loop # NULL
             PROVE  /\ stay' \subseteq Members(order'[loop.h])
                    /\ \A x, y \in stay' : Before(seen, x, y) => Before(order'[loop.h], x, y)
                    /\ \A x \in stay' : x \in Members(seen) <=> Came(x)'
    BY DEF VisitInv
<1>1. Needed' = Needed
    BY DEF Needed
<1>2. ASSUME NEW x \in stay' PROVE Came(x)' <=> Came(x)
  <2>1. CASE Needed = loop.h
    BY <1>1, <2>1 DEF Came
  <2>2. CASE Needed # loop.h
    <3>1. Before(order'[loop.h], x, Needed) <=> Before(order[loop.h], x, Needed)
        BY <2>2
    <3> QED BY <1>1, <3>1 DEF Came
  <2> QED BY <2>1, <2>2
<1>3. \A x \in stay : x \in Members(seen) <=> Came(x)
    BY DEF VisitInv
<1>4. \A x, y \in stay : Before(seen, x, y) => Before(order[loop.h], x, y)
    BY DEF VisitInv
<1>5. \A x \in stay' : x \in Members(seen) <=> Came(x)'
    BY <1>2, <1>3
<1>6. \A x, y \in stay' : Before(seen, x, y) => Before(order'[loop.h], x, y)
    BY <1>4
<1> QED BY <1>5, <1>6

\* What follows a node in its list comes after it and what stands before it.
LEMMA NextBefore ==
    ASSUME NEW n, NEW p, NEW o, Sound(n, p, o), NEW h \in Heads, NEW d \in Members(o[h])
    PROVE  /\ n[d] = h => \A z \in Members(o[h]) : z = d \/ Before(o[h], z, d)
           /\ n[d] # h => \A z \in Members(o[h]) :
                            Before(o[h], z, n[d]) <=> z = d \/ Before(o[h], z, d)
<1> DEFINE s == o[h]
<1>1. s \in Seq(Nodes) /\ Len(s) \in Nat /\ DOMAIN s = 1 .. Len(s)
    BY DEF Sound, Linked
<1>2. \A j, k \in DOMAIN s : s[j] = s[k] => j = k
  <2>1. Apart(o)
    BY DEF Sound
  <2> QED BY <1>1, <2>1 DEF Apart
<1>3. PICK b \in DOMAIN s : d = s[b]
    BY DEF Members
<1>4. n[d] = Pos(o, h, b + 1)
  <2>1. b \in 0 .. Len(o[h]) /\ Pos(o, h, b) = d
    BY <1>1, <1>3 DEF Pos
  <2> QED BY <2>1, RingPos
<1>5. b # Len(s) => b + 1 \in DOMAIN s /\ n[d] = s[b + 1] /\ n[d] # h
  <2> SUFFICES ASSUME b # Len(s) PROVE b + 1 \in DOMAIN s /\ n[d] = s[b + 1] /\ n[d] # h
    OBVIOUS
  <2>1. b + 1 \in 1 .. Len(s)
    BY <1>1, <1>3
  <2>2. n[d] = s[b + 1] /\ s[b + 1] \in Nodes
    BY <1>1, <1>4, <2>1 DEF Pos
  <2> QED BY <1>1, <2>1, <2>2, ListAssumption
<1>6. b = Len(s) => n[d] = h
    BY <1>1, <1>4 DEF Pos
<1> HIDE DEF s
<1>7. \A z \in Members(s) : \E a \in DOMAIN s : a \in Int /\ s[a] = z
    BY <1>1 DEF Members
<1>8. \A a, c \in DOMAIN s : Before(s, s[a], s[c]) <=> a < c
    BY <1>2 DEF Before
<1>9. CASE b = Len(s)
  <2>1. \A z \in Members(s) : z = d \/ Before(s, z, d)
    <3> SUFFICES ASSUME NEW z \in Members(s) PROVE z = d \/ Before(s, z, d)
        OBVIOUS
    <3>1. PICK a \in DOMAIN s : a \in Int /\ s[a] = z
        BY <1>7
    <3>2. a = b \/ a < b
        BY <1>1, <1>9, <3>1
    <3> QED BY <1>3, <1>8, <3>1, <3>2
  <2> QED BY <1>6, <1>9, <2>1 DEF s
<1>10. CASE b # Len(s)
  <2>1. ASSUME NEW z \in Members(s)
        PROVE  Before(s, z, n[d]) <=> z = d \/ Before(s, z, d)
    <3>1. PICK a \in DOMAIN s : a \in Int /\ s[a] = z
        BY <1>7
    <3>2. Before(s, z, n[d]) <=> a < b + 1
        BY <1>5, <1>8, <1>10, <3>1
    <3>3. Before(s, z, d) <=> a < b
        BY <1>3, <1>8, <3>1
    <3>4. z = d <=> a = b
        BY <1>2, <1>3, <3>1
    <3>5. a < b + 1 <=> a = b \/ a < b
        BY <1>1, <3>1
    <3> QED BY <3>2, <3>3, <3>4, <3>5
  <2> QED BY <1>5, <1>10, <2>1 DEF s
<1> QED BY <1>9, <1>10

\* Nothing stands before the first node.
LEMMA FirstBefore ==
    ASSUME NEW n, NEW p, NEW o, Sound(n, p, o), NEW h \in Heads
    PROVE  /\ n[h] = h => Members(o[h]) = {}
           /\ n[h] # h => /\ n[h] \in Members(o[h])
                          /\ \A z : ~Before(o[h], z, n[h])
<1> DEFINE s == o[h]
<1>1. s \in Seq(Nodes) /\ Len(s) \in Nat /\ DOMAIN s = 1 .. Len(s)
    BY DEF Sound, Linked
<1>2. \A j, k \in DOMAIN s : s[j] = s[k] => j = k
  <2>1. Apart(o)
    BY DEF Sound
  <2> QED BY <1>1, <2>1 DEF Apart
<1>3. n[h] = Pos(o, h, 1)
  <2>1. 0 \in 0 .. Len(o[h]) /\ Pos(o, h, 0) = h /\ 0 + 1 = 1
    BY <1>1 DEF Pos
  <2>2. n[Pos(o, h, 0)] = Pos(o, h, 0 + 1)
    BY <2>1, RingPos
  <2> QED BY <2>1, <2>2
<1>4. CASE Len(s) = 0
  <2>1. n[h] = h /\ Members(s) = {}
    BY <1>1, <1>3, <1>4 DEF Pos, Members
  <2> QED BY <2>1
<1>5. CASE Len(s) # 0
  <2>1. 1 \in DOMAIN s /\ n[h] = s[1] /\ s[1] \in Nodes
    BY <1>1, <1>3, <1>5 DEF Pos
  <2>2. n[h] # h /\ n[h] \in Members(s)
    BY <2>1, ListAssumption DEF Members
  <2>3. \A z : ~Before(s, z, s[1])
    BY <1>1, <1>2, <2>1 DEF Before
  <2> QED BY <2>1, <2>2, <2>3
<1> QED BY <1>4, <1>5

\* A sequence with one more element.
LEMMA AppendSeen ==
    ASSUME NEW s \in Seq(Nodes), NEW v \in Nodes
    PROVE  /\ Members(Append(s, v)) = Members(s) \cup {v}
           /\ \A x, y : Before(Append(s, v), x, y) =>
                            Before(s, x, y) \/ (y = v /\ x \in Members(s))
<1> DEFINE t == Append(s, v)
<1>1. Len(s) \in Nat /\ DOMAIN s = 1 .. Len(s) /\ DOMAIN t = 1 .. Len(s) + 1
    OBVIOUS
<1>2. \A i \in DOMAIN t : t[i] = IF i = Len(s) + 1 THEN v ELSE s[i]
    OBVIOUS
<1> HIDE DEF t
<1>3. Members(t) = Members(s) \cup {v}
  <2>1. ASSUME NEW i \in DOMAIN t PROVE t[i] \in Members(s) \cup {v}
    BY <1>1, <1>2 DEF Members
  <2>2. ASSUME NEW i \in DOMAIN s PROVE s[i] \in Members(t)
    <3>1. i \in DOMAIN t /\ t[i] = s[i]
        BY <1>1, <1>2
    <3> QED BY <3>1 DEF Members
  <2>3. v \in Members(t)
    <3>1. Len(s) + 1 \in DOMAIN t /\ t[Len(s) + 1] = v
        BY <1>1, <1>2
    <3> QED BY <3>1 DEF Members
  <2> QED BY <2>1, <2>2, <2>3 DEF Members
<1>4. ASSUME NEW x, NEW y, Before(t, x, y)
      PROVE  Before(s, x, y) \/ (y = v /\ x \in Members(s))
  <2>1. PICK j \in DOMAIN t, k \in DOMAIN t : j < k /\ t[j] = x /\ t[k] = y
    BY <1>4 DEF Before
  <2>2. j \in DOMAIN s /\ s[j] = x
    BY <1>1, <1>2, <2>1
  <2>3. CASE k = Len(s) + 1
    BY <1>2, <2>1, <2>2, <2>3 DEF Members
  <2>4. CASE k # Len(s) + 1
    <3>1. k \in DOMAIN s /\ s[k] = y
        BY <1>1, <1>2, <2>1, <2>4
    <3> QED BY <2>1, <2>2, <3>1 DEF Before
  <2> QED BY <2>3, <2>4
<1> QED BY <1>3, <1>4 DEF t

\* Initialising another list changes nothing for the loop.
LEMMA Visit_list_head_init ==
    ASSUME ListInv, VisitInv, NEW h \in Heads, list_head_init(h)
    PROVE  VisitInv'
<1>1. UNCHANGED <<loop, seen, stay>>
    BY DEF list_head_init
<1>2. loop # NULL => loop.h \in Heads \ {h}
    BY DEF ListInv, Locals, Loops, list_head_init
<1>3. loop # NULL => order'[loop.h] = order[loop.h]
    BY <1>2 DEF ListInv, Sound, Linked, list_head_init
<1>4. loop # NULL => stay \subseteq Members(order[loop.h])
    BY DEF VisitInv
<1> QED BY <1>1, <1>3, <1>4, VisitKept

\* What both insertions have in common: the node is new to the list of the loop.
LEMMA Visit_Adds ==
    ASSUME ListInv, VisitInv, NEW h \in Heads, NEW n \in Nodes, Adds(h, n),
           order' = [order EXCEPT ![h] = order'[h]],
           Members(order[h]) \subseteq Members(order'[h]),
           \A x, y : x # n /\ y # n => (Before(order'[h], x, y) <=> Before(order[h], x, y))
    PROVE  VisitInv'
<1>1. UNCHANGED <<loop, seen, stay>>
    BY DEF Adds
<1>2. order \in [Heads -> Seq(Nodes)]
    BY DEF ListInv, Sound, Linked
<1>3. CASE loop # NULL
  <2>1. loop.h \in Heads
    BY <1>3 DEF ListInv, Locals, Loops
  <2>2. stay \subseteq Members(order[loop.h])
    BY <1>3 DEF VisitInv
  <2>3. n \notin Members(order[loop.h])
    BY <2>1 DEF Adds, InList
  <2>4. \A x \in stay \cup ({Needed} \ {loop.h}) : x # n
    <3>1. Needed \in Members(order[loop.h]) \cup {loop.h}
        BY <1>3 DEF ListInv, LoopInside
    <3> QED BY <2>2, <2>3, <3>1
  <2>5. loop.h # h => order'[loop.h] = order[loop.h]
    BY <1>2, <2>1
  <2>6. stay \subseteq Members(order'[loop.h])
    BY <2>2, <2>5
  <2>7. \A x, y \in stay \cup ({Needed} \ {loop.h}) :
            Before(order'[loop.h], x, y) <=> Before(order[loop.h], x, y)
    BY <2>4, <2>5
  <2> QED BY <1>1, <2>6, <2>7, VisitKept
<1>4. CASE loop = NULL
    BY <1>1, <1>4 DEF VisitInv
<1> QED BY <1>3, <1>4

\* list_add in the body.
LEMMA Visit_list_add ==
    ASSUME ListInv, VisitInv, NEW h \in Heads, NEW n \in Nodes, list_add(h, n)
    PROVE  VisitInv'
<1>1. order \in [Heads -> Seq(Nodes)]
    BY DEF ListInv, Sound, Linked
<1>2. order' = [order EXCEPT ![h] = <<n>> \o order[h]] /\ order'[h] = <<n>> \o order[h]
    BY <1>1 DEF list_add
<1>3. Members(order[h]) \subseteq Members(order'[h])
    BY <1>1, <1>2, MembersAdded
<1>4. \A x, y : x # n /\ y # n => (Before(order'[h], x, y) <=> Before(order[h], x, y))
  <2>1. order[h] \in Seq(Nodes)
    BY <1>1
  <2> QED BY <1>2, <2>1, BeforeFront
<1> QED BY <1>2, <1>3, <1>4, Visit_Adds DEF list_add

\* list_add_tail in the body.
LEMMA Visit_list_add_tail ==
    ASSUME ListInv, VisitInv, NEW h \in Heads, NEW n \in Nodes, list_add_tail(h, n)
    PROVE  VisitInv'
<1>1. order \in [Heads -> Seq(Nodes)]
    BY DEF ListInv, Sound, Linked
<1>2. order' = [order EXCEPT ![h] = order[h] \o <<n>>] /\ order'[h] = order[h] \o <<n>>
    BY <1>1 DEF list_add_tail
<1>3. Members(order[h]) \subseteq Members(order'[h])
    BY <1>1, <1>2, MembersAdded
<1>4. \A x, y : x # n /\ y # n => (Before(order'[h], x, y) <=> Before(order[h], x, y))
  <2>1. order[h] \in Seq(Nodes)
    BY <1>1
  <2> QED BY <1>2, <2>1, BeforeBack
<1> QED BY <1>2, <1>3, <1>4, Visit_Adds DEF list_add_tail

\* list_del in the body, which takes the node from those that stay.
LEMMA Visit_list_del ==
    ASSUME ListInv, VisitInv, NEW n \in Nodes, list_del(n)
    PROVE  VisitInv'
<1>0. PICK h \in Heads : \E m \in DOMAIN order[h] :
            order[h][m] = n /\ order' = [order EXCEPT ![h] = Without(@, m)]
    BY DEF list_del
<1>1. PICK m \in DOMAIN order[h] :
            order[h][m] = n /\ order' = [order EXCEPT ![h] = Without(@, m)]
    BY <1>0
<1>2. order \in [Heads -> Seq(Nodes)]
    BY DEF ListInv, Sound, Linked
<1>3. m \in 1 .. Len(order[h]) /\ order[h] \in Seq(Nodes)
    BY <1>2
<1>4. order'[h] = Without(order[h], m) /\ \A g \in Heads \ {h} : order'[g] = order[g]
    BY <1>1, <1>2
<1>5. UNCHANGED <<loop, seen>> /\ stay' = stay \ {n} /\ Needed # n
    BY DEF list_del
<1>6. CASE loop # NULL
  <2>1. loop.h \in Heads
    BY <1>6 DEF ListInv, Locals, Loops
  <2>2. stay' \subseteq Members(order'[loop.h])
    <3>1. Members(order[loop.h]) \subseteq Members(order'[loop.h]) \cup {n}
        BY <1>1, <1>3, <1>4, <2>1, MembersKept
    <3>2. stay \subseteq Members(order[loop.h])
        BY <1>6 DEF VisitInv
    <3> QED BY <1>5, <3>1, <3>2
  <2>3. \A x, y \in stay' \cup ({Needed} \ {loop.h}) :
            Before(order'[loop.h], x, y) <=> Before(order[loop.h], x, y)
    <3>1. CASE loop.h = h
        BY <1>1, <1>3, <1>4, <1>5, <3>1, BeforeWithout
    <3>2. CASE loop.h # h
        BY <1>4, <2>1, <3>2
    <3> QED BY <3>1, <3>2
  <2> QED BY <1>5, <2>2, <2>3, VisitKept
<1>7. CASE loop = NULL
    BY <1>5, <1>7 DEF VisitInv
<1> QED BY <1>6, <1>7

\* A step of the loop that comes to v, if it comes to no other node.
LEMMA VisitGoesOn ==
    ASSUME ListInv, VisitInv, loop # NULL, UNCHANGED <<order, stay>>,
           loop'.h = loop.h, NEW v, v = loop'.i,
           seen' = IF v \in stay THEN Append(seen, v) ELSE seen,
           \A x \in stay : Came(x)' <=> Came(x) \/ x = v,
           v \in stay => \A x \in stay : Came(x) => Before(order[loop.h], x, v)
    PROVE  VisitInv'
<1>1. /\ stay \subseteq Members(order[loop.h])
      /\ \A x, y \in stay : Before(seen, x, y) => Before(order[loop.h], x, y)
      /\ \A x \in stay : x \in Members(seen) <=> Came(x)
    BY DEF VisitInv
<1>2. seen \in Seq(Nodes) /\ stay \subseteq Nodes
    BY DEF ListInv, Locals
<1>3. \A x \in stay : x \in Members(seen') <=> Came(x)'
  <2>1. CASE v \in stay
    <3>1. Members(seen') = Members(seen) \cup {v}
        BY <1>2, <2>1, AppendSeen
    <3> QED BY <1>1, <3>1
  <2>2. CASE v \notin stay
    BY <1>1, <2>2
  <2> QED BY <2>1, <2>2
<1>4. \A x, y \in stay : Before(seen', x, y) => Before(order[loop.h], x, y)
  <2>1. CASE v \in stay
    <3>1. \A x, y : Before(seen', x, y) => Before(seen, x, y) \/ (y = v /\ x \in Members(seen))
        BY <1>2, <2>1, AppendSeen
    <3> QED BY <1>1, <2>1, <3>1
  <2>2. CASE v \notin stay
    BY <1>1, <2>2
  <2> QED BY <2>1, <2>2
<1>5. /\ stay' \subseteq Members(order'[loop'.h])
      /\ \A x, y \in stay' : Before(seen', x, y) => Before(order'[loop'.h], x, y)
      /\ \A x \in stay' : x \in Members(seen') <=> Came(x)'
    BY <1>1, <1>3, <1>4
<1> QED BY <1>5 DEF VisitInv

\* The step of a loop (list.h:235 and 259).
LEMMA Visit_Advance ==
    ASSUME ListInv, VisitInv, Advance
    PROVE  VisitInv'
<1>1. /\ loop # NULL /\ loop.i # loop.h /\ Step
      /\ seen' = IF loop'.i \in stay THEN Append(seen, loop'.i) ELSE seen
      /\ UNCHANGED <<order, stay>> /\ next' = next
    BY DEF Advance, links
<1>2. loop.h \in Heads /\ loop.kind \in {"each", "safe"}
    BY <1>1 DEF ListInv, Locals, Loops
<1>3. Needed \in Members(order[loop.h]) \cup {loop.h} /\ Needed # NULL
  <2>1. Needed \in Members(order[loop.h]) \cup {loop.h}
    BY <1>1 DEF ListInv, LoopInside
  <2>2. Needed \in Items
    BY <1>2, <2>1, RingMembers DEF ListInv
  <2> QED BY <2>1, <2>2, ListAssumption DEF Items
<1>4. Needed # loop.h =>
        /\ next[Needed] = loop.h =>
            \A z \in Members(order[loop.h]) : z = Needed \/ Before(order[loop.h], z, Needed)
        /\ next[Needed] # loop.h =>
            \A z \in Members(order[loop.h]) :
                Before(order[loop.h], z, next[Needed])
                    <=> z = Needed \/ Before(order[loop.h], z, Needed)
  <2> SUFFICES ASSUME Needed # loop.h
               PROVE  /\ next[Needed] = loop.h =>
                            \A z \in Members(order[loop.h]) :
                                z = Needed \/ Before(order[loop.h], z, Needed)
                      /\ next[Needed] # loop.h =>
                            \A z \in Members(order[loop.h]) :
                                Before(order[loop.h], z, next[Needed])
                                    <=> z = Needed \/ Before(order[loop.h], z, Needed)
    OBVIOUS
  <2>1. Sound(next, prev, order) /\ Needed \in Members(order[loop.h])
    BY <1>3 DEF ListInv
  <2> QED BY <1>2, <2>1, NextBefore
<1>5. stay \subseteq Members(order[loop.h]) /\ loop.h \notin stay
  <2>1. stay \subseteq Nodes
    BY DEF ListInv, Locals
  <2> QED BY <1>1, <1>2, <2>1, ListAssumption DEF VisitInv
<1>6. CASE loop.kind = "each"
  <2>1. Needed = loop.i
    BY <1>1, <1>6 DEF Needed
  <2>2. loop' = [kind |-> "each", h |-> loop.h, i |-> next[Needed], nxt |-> NULL]
    BY <1>1, <1>3, <1>6, <2>1 DEF Step, Follow, ComesTo
  <2>3. /\ loop'.h = loop.h /\ loop'.i = next[Needed] /\ loop'.kind = "each"
    BY <2>2
  <2>4. CASE loop' # NULL
    <3>1. Needed' = next[Needed]
        BY <2>3, <2>4 DEF Needed
    <3>2. ASSUME NEW x \in stay
          PROVE  /\ Came(x)' <=> Came(x) \/ x = next[Needed]
                 /\ next[Needed] \in stay => (Came(x) => Before(order[loop.h], x, next[Needed]))
      <4>1. Came(x) <=> Before(order[loop.h], x, Needed) \/ x = Needed
        BY <1>1, <1>6, <2>1 DEF Came
      <4>2. Came(x)' <=> \/ next[Needed] = loop.h
                         \/ Before(order[loop.h], x, next[Needed])
                         \/ x = next[Needed]
        BY <1>1, <2>3, <3>1 DEF Came
      <4> QED BY <1>1, <1>4, <1>5, <2>1, <4>1, <4>2
    <3> QED BY <1>1, <2>3, <3>2, VisitGoesOn
  <2>5. CASE loop' = NULL
    BY <2>5 DEF VisitInv
  <2> QED BY <2>4, <2>5
<1>7. CASE loop.kind = "safe"
  <2>1. Needed = loop.nxt
    BY <1>1, <1>7 DEF Needed
  <2>2. loop' = [kind |-> "safe", h |-> loop.h, i |-> Needed, nxt |-> next[Needed]]
    BY <1>1, <1>3, <1>7, <2>1 DEF Step, Follow, ComesTo
  <2>3. /\ loop'.h = loop.h /\ loop'.i = Needed /\ loop'.kind = "safe" /\ loop'.nxt = next[Needed]
    BY <2>2
  <2>4. CASE loop' # NULL
    <3>1. Needed' = next[Needed]
        BY <2>3, <2>4 DEF Needed
    <3>2. ASSUME NEW x \in stay
          PROVE  /\ Came(x)' <=> Came(x) \/ x = Needed
                 /\ Needed \in stay => (Came(x) => Before(order[loop.h], x, Needed))
      <4>1. Came(x) <=> Needed = loop.h \/ Before(order[loop.h], x, Needed)
        BY <1>1, <1>7 DEF Came
      <4>2. Came(x)' <=> \/ Needed = loop.h \/ next[Needed] = loop.h
                         \/ Before(order[loop.h], x, next[Needed])
        BY <1>1, <2>3, <3>1 DEF Came
      <4>3. CASE Needed = loop.h
        BY <1>5, <4>1, <4>2, <4>3
      <4>4. CASE Needed # loop.h
        BY <1>4, <1>5, <4>1, <4>2, <4>4
      <4> QED BY <4>3, <4>4
    <3> QED BY <1>1, <2>3, <3>2, VisitGoesOn
  <2>5. CASE loop' = NULL
    BY <2>5 DEF VisitInv
  <2> QED BY <2>4, <2>5
<1> QED BY <1>2, <1>6, <1>7

\* The start of a loop: it comes to the first node.
LEMMA Visit_Starts ==
    ASSUME ListInv, NEW h \in Heads, Starts(h), NEW kind \in {"each", "safe"}, NEW nxt,
           ComesTo(kind, h, next[h], nxt), kind = "safe" => nxt = next[next[h]]
    PROVE  VisitInv'
<1>1. /\ stay' = Members(order[h]) /\ order' = order /\ next' = next
      /\ seen' = IF next[h] \in Nodes THEN <<next[h]>> ELSE <<>>
    BY DEF Starts, links
<1>2. loop'.h = h /\ loop'.i = next[h] /\ loop'.kind = kind /\ loop'.nxt = nxt
    BY DEF ComesTo
<1>3. /\ next[h] = h => Members(order[h]) = {}
      /\ next[h] # h => next[h] \in Members(order[h]) /\ \A z : ~Before(order[h], z, next[h])
    BY FirstBefore DEF ListInv
<1>4. CASE loop' = NULL
    BY <1>4 DEF VisitInv
<1>5. CASE loop' # NULL /\ next[h] = h
    BY <1>1, <1>2, <1>3, <1>5 DEF VisitInv
<1>6. CASE loop' # NULL /\ next[h] # h
  <2>1. order[h] \in Seq(Nodes)
    BY DEF ListInv, Sound, Linked
  <2>2. next[h] \in Nodes
    BY <1>3, <1>6, <2>1 DEF Members
  <2>3. Members(seen') = {next[h]} /\ \A x, y : ~Before(seen', x, y)
    BY <1>1, <2>2 DEF Members, Before
  <2>4. /\ next[next[h]] = h => \A z \in Members(order[h]) : z = next[h]
        /\ next[next[h]] # h =>
            \A z \in Members(order[h]) : Before(order[h], z, next[next[h]]) <=> z = next[h]
    <3>1. Sound(next, prev, order) /\ next[h] \in Members(order[h])
        BY <1>3, <1>6 DEF ListInv
    <3>2. /\ next[next[h]] = h => \A z \in Members(order[h]) : z = next[h] \/ Before(order[h], z, next[h])
          /\ next[next[h]] # h =>
                \A z \in Members(order[h]) :
                    Before(order[h], z, next[next[h]]) <=> z = next[h] \/ Before(order[h], z, next[h])
        BY <3>1, NextBefore
    <3> QED BY <1>3, <1>6, <3>2
  <2>5. Needed' = IF kind = "each" THEN next[h] ELSE nxt
    BY <1>2, <1>6 DEF Needed
  <2>6. ASSUME NEW x \in Members(order[h]) PROVE x = next[h] <=> Came(x)'
    <3>1. CASE kind = "each"
      <4>1. Came(x)' <=> Before(order[h], x, next[h]) \/ x = next[h]
        BY <1>1, <1>2, <1>6, <2>5, <3>1 DEF Came
      <4> QED BY <1>3, <1>6, <4>1
    <3>2. CASE kind = "safe"
      <4>1. Came(x)' <=> nxt = h \/ Before(order[h], x, nxt)
        BY <1>1, <1>2, <1>6, <2>5, <3>2 DEF Came
      <4> QED BY <2>4, <3>2, <4>1
    <3> QED BY <3>1, <3>2
  <2> QED BY <1>1, <1>2, <2>3, <2>6 DEF VisitInv
<1> QED BY <1>4, <1>5, <1>6

\* Every step keeps what the loop has come to.
LEMMA VisitNext == ListInv /\ VisitInv /\ [Next]_vars => VisitInv'
<1> SUFFICES ASSUME ListInv, VisitInv, [Next]_vars PROVE VisitInv'
    OBVIOUS
<1>1. ASSUME NEW h \in Heads, list_head_init(h) PROVE VisitInv'
    BY <1>1, Visit_list_head_init
<1>2. ASSUME NEW h \in Heads, Look(h) PROVE VisitInv'
    BY <1>2 DEF Look, VisitInv, Came, Needed
<1>3. ASSUME NEW h \in Heads, list_for_each(h) PROVE VisitInv'
    BY <1>3, Visit_Starts DEF list_for_each
<1>4. ASSUME NEW h \in Heads, list_for_each_safe(h) PROVE VisitInv'
    BY <1>4, Visit_Starts DEF list_for_each_safe
<1>5. ASSUME NEW h \in Heads, NEW n \in Nodes, list_add(h, n) PROVE VisitInv'
    BY <1>5, Visit_list_add
<1>6. ASSUME NEW h \in Heads, NEW n \in Nodes, list_add_tail(h, n) PROVE VisitInv'
    BY <1>6, Visit_list_add_tail
<1>7. ASSUME NEW n \in Nodes, list_del(n) PROVE VisitInv'
    BY <1>7, Visit_list_del
<1>8. CASE Advance
    BY <1>8, Visit_Advance
<1>9. CASE Leave
    BY <1>9 DEF Leave, VisitInv
<1>10. CASE UNCHANGED vars
    BY <1>10 DEF vars, VisitInv, Came, Needed
<1> QED BY <1>1, <1>2, <1>3, <1>4, <1>5, <1>6, <1>7, <1>8, <1>9, <1>10 DEF Next, Operations

\* At the end of the loop nothing is left to come to.
LEMMA InvVisits == VisitInv => VisitsAll
BY DEF VisitInv, VisitsAll, Came

-----------------------------------------------------------------------------

\* The links of every item are in range and a head's are never NULL, after any
\* calls of the operations of list.h.
THEOREM ListTypes == Spec => []TypeOK
BY ListInvariant, InvTypes, PTL

\* After any calls of list_add, list_add_tail, list_del and list_head_init (list.h:81
\* to 158) the links of all lists hold exactly what was put there, in that order,
\* both ways round, and list_empty, list_top and list_tail say so.
THEOREM ListRings == Spec => []RingSound
BY ListInvariant, InvRings, PTL

\* A loop of list_for_each or list_for_each_safe (list.h:232 and 255) never leaves
\* its list, whatever its body adds, deletes or moves within the rules.
THEOREM ListLoops == Spec => []LoopInside
<1>1. ListInv => LoopInside
    BY DEF ListInv
<1> QED BY <1>1, ListInvariant, PTL

\* A loop of list_for_each or list_for_each_safe that came to its end has visited
\* each node that stayed in the list, once and in the order of the list, for lists of
\* any length and whatever the body did (list.h:232 and 255).
THEOREM ListVisitsAll == Spec => []VisitsAll
<1>1. Init => VisitInv
    BY DEF Init, VisitInv
<1> QED BY <1>1, ListInvariant, VisitNext, InvVisits, PTL DEF Spec

\* In the debug build list_check (list.c:5), which every operation calls, never
\* aborts a program that keeps the rules; list_del starts it in the middle of the
\* list (list.h:153).
THEOREM ListNeverAborts == Spec => []NeverAborts
<1>1. Init => NeverAborts
    BY DEF Init, NeverAborts
<1> QED BY <1>1, ListInvariant, NoAbort, PTL DEF Spec

\* list_check (list.c:5 to 33) passes a list of any length as the operations leave
\* it, and finds any one wrong link but a cut to the head and the prev of the head.
THEOREM ListDamage == Spec => []CheckFindsDamage
BY ListInvariant, InvDamage, PTL

==============================================================================
