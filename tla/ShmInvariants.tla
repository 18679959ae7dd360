---------------------------- MODULE ShmInvariants ---------------------------
(***************************************************************************)
(* The inductive invariant behind the safety properties of Shm, in parts:  *)
(* what a process knows of its own call, what the directory and the        *)
(* objects say of each other, and what links the two.                      *)
(***************************************************************************)
EXTENDS Shm

\* The call a process is in has the arguments and locals its step needs.
CallInv(p) ==
    /\ life[p] # "live" => pc[p] = "idle" /\ held[p] = {}
    /\ pc[p] \in {"opendir"} \cup ScanPcs => call[p].op \in {"create", "cleanup"}
    /\ pc[p] \in CreatePcs => call[p].op = "create"
    /\ pc[p] \in AttachPcs => call[p].op # "none"
    /\ pc[p] # "idle" /\ call[p].op \in {"create", "attach"} =>
        call[p].h \in Handles \ held[p]
    /\ pc[p] # "idle" /\ call[p].op = "create" =>
        call[p].size \in Sizes /\ call[p].shared \in SharedArgs
    /\ pc[p] \in AttachPcs \cup (ScanPcs \ {"readdir"}) => ent[p] \in Ids
    /\ pc[p] = "fstat" \/ Creating(p) => fd[p] \in Objs
    /\ Creating(p) => call[p].shared # 0
    /\ pc[p] \in {"mmap", "store_pid", "store_marker"} =>
        New(p).size = SegmentSize(call[p].size)
    /\ pc[p] \in {"store_pid", "store_marker"} => New(p).ptr = fd[p]
    /\ pc[p] \in {"marker", "pid", "kill"} => seg[p].ptr \in Objs

\* The directory and the objects agree, and since no id is drawn twice an
\* object is told by its name even after the name is gone.
ObjInv ==
    /\ \A p \in Procs : life[p] = "unborn" <=> pid[p] = 0
    /\ \A i \in Ids : dir[i] # NULL =>
        obj[dir[i]].owner # NULL /\ obj[dir[i]].name = i
    /\ \A o \in Objs : obj[o].owner # NULL =>
        obj[o].name \in drawn /\ life[obj[o].owner] # "unborn"
    /\ \A o \in Objs : obj[o].marker =>
        obj[o].owner # NULL /\ obj[o].pid = pid[obj[o].owner]
    /\ \A o1, o2 \in Objs :
        obj[o1].owner # NULL /\ obj[o2].owner # NULL
            /\ obj[o1].name = obj[o2].name => o1 = o2

\* A process that creates has the object it opened, under the id it drew.
CreateInv(p) ==
    /\ Creating(p) => /\ obj[fd[p]].owner = p
                      /\ New(p).id \in Ids
                      /\ dir[New(p).id] = fd[p]
    /\ pc[p] = "store_marker" => obj[fd[p]].pid = pid[p]

\* A variable that will unlink a name has the object of that name, and no
\* other variable of the process has it.
HoldInv(p) ==
    /\ \A h \in Unlinkers(p) :
        /\ m[p][h].id \in Ids
        /\ dir[m[p][h].id] # NULL
        /\ obj[dir[m[p][h].id]].owner = p
        /\ Creating(p) => m[p][h].id # New(p).id
    /\ \A h1, h2 \in Unlinkers(p) : m[p][h1].id = m[p][h2].id => h1 = h2

\* What a cleanup has learned about the entry it looks at stays true until it
\* acts on it: the object it mapped is the only one that ever has the name.
ScanInv(p) ==
    /\ pc[p] = "fstat" =>
        obj[fd[p]].owner # NULL /\ (call[p].op # "attach" => obj[fd[p]].name = ent[p])
    /\ pc[p] \in {"marker", "pid", "kill"} =>
        /\ obj[seg[p].ptr].owner # NULL
        /\ obj[seg[p].ptr].name = ent[p]
        /\ ~seg[p].do_unlink
    /\ pc[p] \in {"pid", "kill"} => obj[seg[p].ptr].marker
    /\ pc[p] = "kill" => rpid[p] = obj[seg[p].ptr].pid
    /\ pc[p] = "unlink" =>
        /\ ent[p] \in drawn
        /\ \A o \in Objs : obj[o].owner # NULL /\ obj[o].name = ent[p] =>
            life[obj[o].owner] = "dead"

TypeInv == TypeOK /\ \A p \in Procs : CallInv(p)

\* The inductive invariant, which holds when av_random never repeats an id:
\* what a cleanup decided about a name by reading the object behind it, and
\* what a process keeps about the names it created, stays true until it acts
\* on the name.
NamesInv ==
    /\ TypeInv
    /\ ObjInv
    /\ \A p \in Procs : CreateInv(p) /\ HoldInv(p) /\ ScanInv(p)

-----------------------------------------------------------------------------
(* What holds even if av_random repeats ids: names may then be lost to a   *)
(* cleanup, but what is in the directory is still what its owner made.     *)

\* An object belongs to the process that created it. Its size is set once and
\* is one av_shm_attach_ro accepts, and the marker vouches for the pid and for
\* its own place.
SegmentInv ==
    /\ \A p \in Procs : life[p] = "unborn" <=> pid[p] = 0
    /\ \A i \in Ids : dir[i] # NULL => obj[dir[i]].owner # NULL /\ obj[dir[i]].name = i
    /\ \A o \in Objs : obj[o].owner # NULL => life[obj[o].owner] # "unborn"
    /\ \A o \in Objs : obj[o].owner = NULL => obj[o].size = 0 /\ ~obj[o].marker
    /\ \A o \in Objs : obj[o].marker =>
        /\ obj[o].pid = pid[obj[o].owner]
        /\ SizeValid(obj[o].size) /\ obj[o].size >= SHM_MARKER_SIZE
        /\ obj[o].base = MarkerOffset(obj[o].size)

\* A process that creates has its own object, sized and marked as far as it
\* has come.
CreatorInv(p) ==
    /\ Creating(p) => obj[fd[p]].owner = p
    /\ pc[p] = "ftruncate" => obj[fd[p]].size = 0
    /\ pc[p] \in {"mmap", "store_pid", "store_marker"} =>
        obj[fd[p]].size = SegmentSize(call[p].size)
    /\ pc[p] = "store_marker" =>
        /\ obj[fd[p]].pid = pid[p]
        /\ obj[fd[p]].base = MarkerOffset(obj[fd[p]].size)

SegmentsInv == TypeInv /\ SegmentInv /\ \A p \in Procs : CreatorInv(p)

\* The cleanup of p has yet to decide about the name i: readdir still has to
\* return it, or it is the entry p looks at, and what p has read of it so far
\* is about the object behind the name.
Pending(p, i) ==
    \/ InScan(p) /\ i \in must[p]
    \/ /\ ent[p] = i
       /\ \/ pc[p] = "shm_open" /\ call[p].op # "attach"
          \/ pc[p] = "fstat" /\ call[p].op # "attach" /\ fd[p] = dir[i]
          \/ /\ pc[p] \in {"marker", "pid", "kill"}
             /\ seg[p].ptr = dir[i] /\ seg[p].size = obj[dir[i]].size
             /\ pc[p] = "kill" => rpid[p] = obj[dir[i]].pid
          \/ pc[p] = "unlink"

\* The segments a cleanup is to remove stay removable, none of them was made
\* since the walk began, and none is passed by.
StaleInv(p) ==
    /\ \A o \in stale[p] : /\ obj[o].owner # NULL
                           /\ life[obj[o].owner] = "dead"
                           /\ ~PidUsed(pid[obj[o].owner])
    /\ stale[p] \cap todo[p] = {}
    /\ \A i \in Ids : dir[i] \in stale[p] /\ obj[dir[i]].marker => Pending(p, i)

\* Callers pass a value for "shared" that survives the one-bit field.
SharedFits == \A v \in SharedArgs : v # 0 => OneBit(v)

=============================================================================
