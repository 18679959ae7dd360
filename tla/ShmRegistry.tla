---------------------------- MODULE ShmRegistry -----------------------------
(***************************************************************************)
(* What the shared memory component promises to the processes that use it, *)
(* with no word about how: a segment name has at most one owner, a process *)
(* that lives owns exactly the names it relies on, and a name is taken     *)
(* away by nobody but its owner, until the owner is dead.                  *)
(***************************************************************************)

CONSTANTS
    Procs,  \* processes
    Ids,    \* segment names
    NULL    \* the owner of a free name

VARIABLES
    owner,  \* owner[i]: the process that owns segment name i, NULL when free
    claims, \* claims[p]: the names p relies on
    life    \* life[p]: "unborn", "live" or "dead"

Init ==
    /\ owner = [i \in Ids |-> NULL]
    /\ claims = [p \in Procs |-> {}]
    /\ life = [p \in Procs |-> "unborn"]

\* A live process takes a free name.
Publish(p, i) ==
    /\ life[p] = "live"
    /\ owner[i] = NULL
    /\ i \notin claims[p]
    /\ owner' = [owner EXCEPT ![i] = p]
    /\ claims' = [claims EXCEPT ![p] = @ \cup {i}]
    /\ UNCHANGED life

\* A live process gives up a name it owns.
Withdraw(p, i) ==
    /\ life[p] = "live"
    /\ owner[i] = p
    /\ i \in claims[p]
    /\ owner' = [owner EXCEPT ![i] = NULL]
    /\ claims' = [claims EXCEPT ![p] = @ \ {i}]
    /\ UNCHANGED life

\* The name of a dead owner is reclaimed.
Reap(i) ==
    /\ owner[i] # NULL
    /\ life[owner[i]] = "dead"
    /\ owner' = [owner EXCEPT ![i] = NULL]
    /\ UNCHANGED <<claims, life>>

\* A process starts; a process that is gone never comes back.
Begin(p) ==
    /\ life[p] = "unborn"
    /\ life' = [life EXCEPT ![p] = "live"]
    /\ UNCHANGED <<owner, claims>>

\* A process ends, in the middle of anything; what it owns stays behind.
Die(p) ==
    /\ life[p] = "live"
    /\ life' = [life EXCEPT ![p] = "dead"]
    /\ claims' = [claims EXCEPT ![p] = {}]
    /\ UNCHANGED owner

Next ==
    \/ \E p \in Procs : Begin(p) \/ Die(p)
    \/ \E p \in Procs, i \in Ids : Publish(p, i) \/ Withdraw(p, i)
    \/ \E i \in Ids : Reap(i)

vars == <<owner, claims, life>>

Spec == Init /\ [][Next]_vars

\* A name that a live process relies on is its own, and a name a live process
\* owns is one it relies on: nothing is stolen and nothing is forgotten.
ClaimsAreOwned ==
    \A p \in Procs :
        life[p] = "live" => claims[p] = {i \in Ids : owner[i] = p}

\* ClaimsAreOwned made inductive: the unborn own nothing, the dead rely on
\* nothing.
Inv ==
    /\ owner \in [Ids -> Procs \cup {NULL}]
    /\ claims \in [Procs -> SUBSET Ids]
    /\ life \in [Procs -> {"unborn", "live", "dead"}]
    /\ \A p \in Procs :
        life[p] = "unborn" => claims[p] = {} /\ \A i \in Ids : owner[i] # p
    /\ ClaimsAreOwned

=============================================================================
