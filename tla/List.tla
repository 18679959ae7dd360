-------------------------------- MODULE List ---------------------------------
(***************************************************************************)
(* The doubly linked lists of ccan/list: a list is a ring of nodes through *)
(* its head, which is embedded in the program's structures. The program    *)
(* adds and deletes nodes, also in the body of a loop over a list, one     *)
(* loop at a time. It keeps the rules of the header: a node is in at most  *)
(* one list, only nodes in a list are deleted, and the body of a loop does *)
(* not delete the node the loop needs for its next step.                   *)
(*                                                                         *)
(* Both builds are covered: with CCAN_LIST_DEBUG each operation ends with  *)
(* list_check, and a deleted node is cleared.                              *)
(***************************************************************************)
EXTENDS Integers, Sequences

CONSTANTS Heads, Nodes, NULL

ASSUME ListAssumption == Heads \cap Nodes = {} /\ NULL \notin Heads \cup Nodes

VARIABLES
    debug,      \* CCAN_LIST_DEBUG is defined
    next, prev, \* the links of struct list_node
    aborted,    \* list_check called abort()
    loop,       \* the loop under way, and its variables i and nxt
    order,      \* history: the nodes of each list as the program put them there
    stay,       \* history: nodes in the list of the loop since its start
    seen,       \* history: those of them the loop came to
    added       \* history: the body added a node to the list of the loop

links == <<next, prev>>
vars == <<debug, links, aborted, loop, order, stay, seen, added>>

Items == Heads \cup Nodes

Members(s) == {s[k] : k \in DOMAIN s}

InList == UNION {Members(order[h]) : h \in Heads}

Loops == [kind : {"each", "safe"}, h : Heads, i : Items \cup {NULL}, nxt : Items \cup {NULL}]

TypeOK ==
    /\ debug \in BOOLEAN /\ aborted \in BOOLEAN /\ added \in BOOLEAN
    /\ next \in [Items -> Items \cup {NULL}] /\ prev \in [Items -> Items \cup {NULL}]
    /\ \A h \in Heads : next[h] # NULL /\ prev[h] # NULL
    /\ loop \in Loops \cup {NULL}
    /\ order \in [Heads -> Seq(Nodes)]
    /\ stay \subseteq Nodes /\ seen \in Seq(Nodes)

\* LIST_HEAD; the links of a node are set when it is added.
Init ==
    /\ debug \in BOOLEAN /\ aborted = FALSE
    /\ next = [x \in Items |-> IF x \in Heads THEN x ELSE NULL]
    /\ prev = next
    /\ loop = NULL
    /\ order = [h \in Heads |-> <<>>]
    /\ stay = {} /\ seen = <<>> /\ added = FALSE

-----------------------------------------------------------------------------
(* list_check *)

lenient_list_check(n, p, h) == n[h] = h => p[h] = h

\* The list at h in the links n and p is consistent; x is the p of the loop, and
\* n[x] its n. The walk ends, also in a damaged list: the first item it comes to
\* twice is h. A NULL link does not pass.
list_check(n, p, h) ==
    LET walk[x \in Items] == n[x] = h \/ (n[x] # NULL /\ p[n[x]] = x /\ walk[n[x]])
    IN  IF n[h] = h THEN p[h] = h ELSE walk[h]

\* debug_list(h), on the new links n and p
debug_list(n, p, h) == aborted' = (debug /\ ~list_check(n, p, h))

-----------------------------------------------------------------------------
(* The operations. *)

\* The program is in the body of a loop over h, or in none.
InBody == loop # NULL => loop.i # loop.h

nulling_list_head_init(h) ==
    /\ loop = NULL
    /\ next' = [next EXCEPT ![h] = NULL]
    /\ prev' = [prev EXCEPT ![h] = NULL]
    /\ order' = [order EXCEPT ![h] = <<>>]
    /\ UNCHANGED <<debug, aborted, loop, stay, seen, added>>

\* Also of a list that has nodes: they are in none then.
list_head_init(h) ==
    /\ InBody /\ (loop # NULL => loop.h # h)
    /\ next' = [next EXCEPT ![h] = h]
    /\ prev' = [prev EXCEPT ![h] = h]
    /\ order' = [order EXCEPT ![h] = <<>>]
    /\ UNCHANGED <<debug, aborted, loop, stay, seen, added>>

Adds(h, n) ==
    /\ InBody /\ n \notin InList
    /\ added' = (added \/ (loop # NULL /\ loop.h = h))
    /\ debug_list(next', prev', h)
    /\ UNCHANGED <<debug, loop, stay, seen>>

self_linked_list_add(h, n) ==
    /\ next' = [next EXCEPT ![n] = n, ![h] = n]
    /\ prev' = [prev EXCEPT ![n] = h, ![next[h]] = n]
    /\ order' = [order EXCEPT ![h] = <<n>> \o @]
    /\ Adds(h, n)

list_add(h, n) ==
    /\ next' = [next EXCEPT ![n] = next[h], ![h] = n]
    /\ prev' = [prev EXCEPT ![n] = h, ![next[h]] = n]
    /\ order' = [order EXCEPT ![h] = <<n>> \o @]
    /\ Adds(h, n)

one_sided_list_add_tail(h, n) ==
    /\ next' = [next EXCEPT ![n] = h, ![prev[h]] = n]
    /\ prev' = [prev EXCEPT ![h] = n]
    /\ order' = [order EXCEPT ![h] = @ \o <<n>>]
    /\ Adds(h, n)

list_add_tail(h, n) ==
    /\ next' = [next EXCEPT ![n] = h, ![prev[h]] = n]
    /\ prev' = [prev EXCEPT ![n] = prev[h], ![h] = n]
    /\ order' = [order EXCEPT ![h] = @ \o <<n>>]
    /\ Adds(h, n)

\* The node the loop reads for its next step.
Needed == IF loop = NULL THEN NULL ELSE IF loop.kind = "each" THEN loop.i ELSE loop.nxt

\* s without its k-th element
Without(s, k) == [j \in 1 .. Len(s) - 1 |-> IF j < k THEN s[j] ELSE s[j + 1]]

\* The links with n taken out.
Unlinked(n) ==
    [next |-> [next EXCEPT ![prev[n]] = next[n]], prev |-> [prev EXCEPT ![next[n]] = prev[n]]]

cleared_CheckFrom(n) == n

\* debug_list(n->next) in list_del: any item of the list
CheckFrom(n) == next[n]

Cleared(link, n) == IF debug THEN [link EXCEPT ![n] = NULL] ELSE link

\* The check starts at the next item, head or not, and comes before the node is
\* cleared.
list_del(n) ==
    /\ InBody /\ n # Needed
    /\ \E h \in Heads : \E k \in DOMAIN order[h] :
        /\ order[h][k] = n
        /\ order' = [order EXCEPT ![h] = Without(@, k)]
    /\ next' = Cleared(Unlinked(n).next, n)
    /\ prev' = Cleared(Unlinked(n).prev, n)
    /\ debug_list(Unlinked(n).next, Unlinked(n).prev, CheckFrom(n))
    /\ stay' = stay \ {n}
    /\ UNCHANGED <<debug, loop, seen, added>>

list_empty(h) == next[h] = h

list_top(h) == IF list_empty(h) THEN NULL ELSE next[h]

list_tail(h) == IF list_empty(h) THEN NULL ELSE prev[h]

\* A call of list_empty, list_top or list_tail; their results are in RingSound.
Look(h) ==
    /\ InBody
    /\ debug_list(next, prev, h)
    /\ UNCHANGED <<debug, links, loop, order, stay, seen, added>>

-----------------------------------------------------------------------------
(* The loops. *)

\* A read through NULL is the end of the program; it goes nowhere.
Follow(x) == IF x = NULL THEN NULL ELSE next[x]

\* The loop comes to x, with x followed by nxt.
ComesTo(kind, h, x, nxt) == loop' = [kind |-> kind, h |-> h, i |-> x, nxt |-> nxt]

Starts(h) ==
    /\ loop = NULL
    /\ debug_list(next, prev, h)
    /\ stay' = Members(order[h])
    /\ seen' = IF next[h] \in Nodes THEN <<next[h]>> ELSE <<>>
    /\ added' = FALSE
    /\ UNCHANGED <<debug, links, order>>

\* list_for_each(h, i, member), with no nxt
list_for_each(h) == Starts(h) /\ ComesTo("each", h, next[h], NULL)

list_for_each_safe(h) == Starts(h) /\ ComesTo("safe", h, next[h], next[next[h]])

late_Step ==
    IF loop.kind = "each"
    THEN ComesTo("each", loop.h, Follow(loop.i), NULL)
    ELSE ComesTo("safe", loop.h, Follow(loop.i), Follow(Follow(loop.i)))

\* i = i->next, or i = nxt and nxt = i->next
Step ==
    IF loop.kind = "each"
    THEN ComesTo("each", loop.h, Follow(loop.i), NULL)
    ELSE ComesTo("safe", loop.h, loop.nxt, Follow(loop.nxt))

\* The body ends and the loop goes on.
Advance ==
    /\ loop # NULL /\ loop.i # loop.h
    /\ Step
    /\ seen' = IF loop'.i \in stay THEN Append(seen, loop'.i) ELSE seen
    /\ UNCHANGED <<debug, links, aborted, order, stay, added>>

\* The loop has come to its head, or the body breaks.
Leave ==
    /\ loop # NULL
    /\ loop' = NULL /\ stay' = {} /\ seen' = <<>> /\ added' = FALSE
    /\ UNCHANGED <<debug, links, aborted, order>>

Operations ==
    \/ \E h \in Heads : list_head_init(h) \/ Look(h) \/ list_for_each(h) \/ list_for_each_safe(h)
    \/ \E h \in Heads, n \in Nodes : list_add(h, n) \/ list_add_tail(h, n)
    \/ \E n \in Nodes : list_del(n)
    \/ Advance \/ Leave

Next == ~aborted /\ Operations

Spec == Init /\ [][Next]_vars

\* The body of a loop returns.
FairSpec == Spec /\ WF_vars(~aborted /\ Advance)

-----------------------------------------------------------------------------
(* Properties. *)

\* The items of the ring at h: position 0 and the one after the last are h.
At(h, k) == IF k \in DOMAIN order[h] THEN order[h][k] ELSE h

\* The links hold exactly what was put there, in that order, both ways round,
\* after any sequence of list_add, list_add_tail and list_del on several lists.
RingSound ==
    \A h \in Heads :
        /\ \A k \in 0 .. Len(order[h]) :
            next[At(h, k)] = At(h, k + 1) /\ prev[At(h, k + 1)] = At(h, k)
        /\ list_empty(h) <=> order[h] = <<>>
        /\ ~list_empty(h) =>
            list_top(h) = order[h][1] /\ list_tail(h) = order[h][Len(order[h])]

\* x stands before y in s.
Before(s, x, y) == \E j, k \in DOMAIN s : j < k /\ s[j] = x /\ s[k] = y

\* A loop that came to its end has visited each node that was in the list all
\* the time once, in the order of the list, whatever its body added and deleted
\* meanwhile: list_for_each_safe also if the body deletes, moves or adds again
\* the very node it is at.
VisitsAll ==
    loop # NULL /\ loop.i = loop.h =>
        /\ stay \subseteq Members(seen)
        /\ \A x, y \in stay : Before(seen, x, y) => Before(order[loop.h], x, y)

\* A loop never leaves the list it goes over, and never reads a node that is not
\* in it.
LoopInside ==
    loop # NULL =>
        /\ Needed \in Members(order[loop.h]) \cup {loop.h}
        /\ loop.i # NULL

\* list_check does not abort a program that keeps the rules, in particular not
\* from list_del, where it starts in the middle of the list.
NeverAborts == ~aborted

\* Where a stray write may hit the list at h.
Ring(h) == Members(order[h]) \cup {h}

\* The links with the one of x that the write hit set to y.
Hit(link, x, y) == [link EXCEPT ![x] = y]

\* list.h:43: consistency checking between the back and forward links. After a
\* stray write to one link, list_check misses at most a cut behind one of the
\* nodes and a wrong link back from the head (see CheckRejectsDamage); a list as
\* the operations leave it passes.
CheckFindsDamage ==
    \A h \in Heads :
        /\ list_check(next, prev, h)
        /\ \A x \in Ring(h), y \in Ring(h) :
            /\ list_check(Hit(next, x, y), prev, h) => y = next[x] \/ (x # h /\ y = h)
            /\ list_check(next, Hit(prev, x, y), h) => y = prev[x] \/ (x = h /\ ~list_empty(h))

\* list.h:51: "Returns the list head if the list is consistent, NULL if not".
\* list_check rejects every list in which a stray write changed a link.
CheckRejectsDamage ==
    \A h \in Heads : \A x \in Ring(h), y \in Ring(h) :
        /\ list_check(Hit(next, x, y), prev, h) => y = next[x]
        /\ list_check(next, Hit(prev, x, y), h) => y = prev[x]

\* A loop ends if its body adds nothing to the list.
LoopEnds == (loop # NULL) ~> (loop = NULL \/ loop.i = loop.h \/ added \/ aborted)

==============================================================================
