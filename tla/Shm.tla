--------------------------------- MODULE Shm --------------------------------
(***************************************************************************)
(* The shared memory segments of src/shm.c and the processes that create,  *)
(* attach, free and clean them up.                                         *)
(*                                                                         *)
(* A segment is an object (an inode of /dev/shm) that a process creates    *)
(* under a random name, sizes, maps and marks with its pid, in that order; *)
(* av_shm_cleanup, which every creation runs first, walks the directory    *)
(* and unlinks the segments whose marked pid belongs to no process.        *)
(* Nothing locks the directory, so a system call that others can see and   *)
(* an access to the marker is a step of its own here; what a process does  *)
(* to its own memory and descriptors, and its fstat of a segment, is part  *)
(* of the step next to it. The atomic loads and stores of                  *)
(* src/atomic.h carry full barriers, so the steps interleave sequentially. *)
(***************************************************************************)
EXTENDS AvUtil

CONSTANTS
    Procs,          \* processes: each lives once, its pid may be used again
    Pids,           \* the kernel's pids
    Ids,            \* segment ids, the unsigned int of struct av_shm
    Objs,           \* shared memory objects (bounds the creations)
    Handles,        \* the struct av_shm variables each process has
    Sizes,          \* the sizes callers ask for
    SharedArgs,     \* the values callers pass for "shared"
    MarkerStruct,   \* sizeof(struct shm_marker)
    MaxSize,        \* 1024*1024*64 in shm.h
    FreshIds,       \* TRUE: av_random never draws an id twice
    MaxFaults,      \* bounds the system calls that fail without cause
    NULL,           \* no object, no process
    MAP_FAILED,     \* what a failed mmap leaves in ptr
    ANON            \* a private mapping, not an object of /dev/shm

ASSUME NaturalsAssumption ==
    /\ Pids \subseteq Nat \ {0}
    /\ Ids \subseteq Nat
    /\ SharedArgs \subseteq Nat
    /\ MarkerStruct \in Nat \ {0}
    /\ MaxSize \in Nat
    /\ Sizes \subseteq 1 .. av_align(MaxSize)

ASSUME FreshAssumption == FreshIds \in BOOLEAN

ASSUME FaultsAssumption == MaxFaults \in Nat

ASSUME SentinelAssumption ==
    /\ NULL \notin Objs \cup Procs \cup {MAP_FAILED, ANON}
    /\ MAP_FAILED \notin Objs \cup {ANON}
    /\ ANON \notin Objs

\* MAX_SHM_SIZE is a whole number of pages, and a page of words (64 MiB,
\* 4 KiB pages and 8 byte words in the code).
ASSUME GeometryAssumption ==
    /\ av_align(MaxSize) % PageSize = 0
    /\ PageSize % WordSize = 0

VARIABLES
    dir,    \* dir[i]: the object named i in /dev/shm, NULL when there is none
    obj,    \* obj[o]: size, owner and marker of an object; owner NULL: unused
    life,   \* life[p]: "unborn", "live" or "dead"
    pid,    \* pid[p]: the pid p has, or had; 0 before p starts
    pc,     \* pc[p]: where p is in the call it executes, "idle" between calls
    call,   \* call[p]: the function p called, and its arguments
    m,      \* m[p][h]: the struct av_shm variable h of p
    held,   \* held[p]: the variables whose last create or attach returned 0
    fd,     \* fd[p]: the object behind the descriptor open in the call
    ent,    \* ent[p]: the id being attached, in cleanup the entry's id
    seg,    \* seg[p]: the local struct av_shm of av_shm_cleanup
    rpid,   \* rpid[p]: the local pid_t of av_shm_cleanup
    must,   \* must[p]: the names readdir still has to return
    todo,   \* todo[p]: the objects named since opendir that it may return
    drawn,  \* the ids av_random has returned
    faults, \* failed system calls so far
    stale   \* history, stale[p]: the dead segments p's last cleanup faced

kernelVars == <<dir, obj, life, pid>>
handleVars == <<m, held>>
scanVars == <<seg, rpid, must, todo>>
vars == <<dir, obj, life, pid, pc, call, m, held, fd, ent, seg, rpid, must,
          todo, drawn, faults, stale>>

-----------------------------------------------------------------------------
(* Sizes, records and types. *)

SHM_MARKER_SIZE == av_align(MarkerStruct)

MAX_SHM_SIZE == av_align(MaxSize)

\* The size of a segment that holds "size" bytes and the marker.
SegmentSize(size) == av_page_align(size) + SHM_MARKER_SIZE

swapped_MarkerOffset(size) == SHM_MARKER_SIZE - size

\* Where the marker lies in a segment: its last SHM_MARKER_SIZE bytes.
MarkerOffset(size) == size - SHM_MARKER_SIZE

accept_empty_SizeValid(st_size) ==
    /\ st_size <= MAX_SHM_SIZE + SHM_MARKER_SIZE
    /\ av_align(st_size) = st_size

forget_marker_SizeValid(st_size) ==
    /\ st_size > 0
    /\ st_size <= MAX_SHM_SIZE
    /\ av_align(st_size) = st_size

\* The sizes av_shm_attach_ro accepts.
SizeValid(st_size) ==
    /\ st_size > 0
    /\ st_size <= MAX_SHM_SIZE + SHM_MARKER_SIZE
    /\ av_align(st_size) = st_size

\* The value of a one-bit field after v was assigned to it: only the lowest
\* bit of v is kept.
OneBit(v) == v % 2 = 1

\* A struct av_shm after memset.
Zeroed == [id |-> 0, ptr |-> NULL, size |-> 0,
           do_unlink |-> FALSE, shared |-> FALSE]

\* An object that has not been created.
Unused == [size |-> 0, owner |-> NULL, name |-> 0,
           pid |-> 0, marker |-> FALSE, base |-> 0]

NoCall == [op |-> "none", h |-> NULL, size |-> 0, shared |-> 0]

AvShm == [id : Ids \cup {0}, ptr : Objs \cup {NULL, MAP_FAILED, ANON},
          size : Nat, do_unlink : BOOLEAN, shared : BOOLEAN]

Segment == [size : Nat, owner : Procs \cup {NULL}, name : Ids \cup {0},
            pid : Pids \cup {0}, marker : BOOLEAN, base : Nat]

Call == [op : {"none", "create", "attach", "cleanup"},
         h : Handles \cup {NULL}, size : Nat, shared : Nat]

ScanPcs == {"readdir", "marker", "pid", "kill", "unlink"}

CreatePcs == {"alloc", "ftruncate", "mmap", "store_pid", "store_marker", "fail"}

AttachPcs == {"shm_open", "fstat"}

Pcs == {"idle", "opendir"} \cup ScanPcs \cup CreatePcs \cup AttachPcs

\* p is between the opendir and the closedir of av_shm_cleanup.
InScan(p) ==
    \/ pc[p] \in ScanPcs
    \/ pc[p] \in AttachPcs /\ call[p].op # "attach"

KernelTypeOK ==
    /\ dir \in [Ids -> Objs \cup {NULL}]
    /\ obj \in [Objs -> Segment]
    /\ life \in [Procs -> {"unborn", "live", "dead"}]
    /\ pid \in [Procs -> Pids \cup {0}]

CallTypeOK ==
    /\ pc \in [Procs -> Pcs]
    /\ call \in [Procs -> Call]
    /\ fd \in [Procs -> Objs \cup {NULL}]
    /\ ent \in [Procs -> Ids \cup {0}]

HandleTypeOK ==
    /\ m \in [Procs -> [Handles -> AvShm]]
    /\ held \in [Procs -> SUBSET Handles]

ScanTypeOK ==
    /\ seg \in [Procs -> AvShm]
    /\ rpid \in [Procs -> Pids \cup {0}]
    /\ must \in [Procs -> SUBSET Ids]
    /\ todo \in [Procs -> SUBSET Objs]

RecordTypeOK ==
    /\ drawn \in SUBSET Ids
    /\ faults \in 0 .. MaxFaults
    /\ stale \in [Procs -> SUBSET Objs]

\* The type of every variable.
TypeOK ==
    KernelTypeOK /\ CallTypeOK /\ HandleTypeOK /\ ScanTypeOK /\ RecordTypeOK

Init ==
    /\ dir = [i \in Ids |-> NULL]
    /\ obj = [o \in Objs |-> Unused]
    /\ life = [p \in Procs |-> "unborn"]
    /\ pid = [p \in Procs |-> 0]
    /\ pc = [p \in Procs |-> "idle"]
    /\ call = [p \in Procs |-> NoCall]
    /\ m = [p \in Procs |-> [h \in Handles |-> Zeroed]]
    /\ held = [p \in Procs |-> {}]
    /\ fd = [p \in Procs |-> NULL]
    /\ ent = [p \in Procs |-> 0]
    /\ seg = [p \in Procs |-> Zeroed]
    /\ rpid = [p \in Procs |-> 0]
    /\ must = [p \in Procs |-> {}]
    /\ todo = [p \in Procs |-> {}]
    /\ drawn = {}
    /\ faults = 0
    /\ stale = [p \in Procs |-> {}]

-----------------------------------------------------------------------------
(* The kernel: names, processes, failing system calls. *)

\* The names in /dev/shm.
Named == {i \in Ids : dir[i] # NULL}

\* shm_unlink(i): the name goes, whatever it names; the object stays for
\* those who have it open or mapped.
shm_unlink(i) == dir' = [dir EXCEPT ![i] = NULL]

\* Some process has pid n.
PidUsed(n) == \E p \in Procs : life[p] = "live" /\ pid[p] = n

never_Alive(n) == FALSE

always_Alive(n) == TRUE

\* kill(n, 0) == 0 || errno != ESRCH: also a process of another user counts.
Alive(n) == PidUsed(n)

\* The objects a cleanup that starts now should remove: named, and their
\* owner is dead, its pid not in use again.
Stale == {o \in Objs : /\ \E i \in Ids : dir[i] = o
                       /\ life[obj[o].owner] = "dead"
                       /\ ~PidUsed(pid[obj[o].owner])}

\* A system call fails for a reason outside the model (EMFILE, ENOMEM,
\* EACCES, ...).
Fault == faults < MaxFaults /\ faults' = faults + 1

NoFault == UNCHANGED faults

\* A process starts, under a pid no live process has. A pid that comes back
\* makes the segments of its previous holder look alive again.
Spawn(p) ==
    /\ life[p] = "unborn"
    /\ \E n \in Pids :
        /\ ~PidUsed(n)
        /\ pid' = [pid EXCEPT ![p] = n]
        /\ stale' = [q \in Procs |-> {o \in stale[q] :
                                          pid[obj[o].owner] # n}]
    /\ life' = [life EXCEPT ![p] = "live"]
    /\ UNCHANGED <<dir, obj, pc, call, handleVars, fd, ent, scanVars, drawn,
                   faults>>

\* A process exits, is killed or aborts on an assertion, anywhere in a call.
\* The kernel drops its descriptors and mappings; its names stay.
Exit(p) ==
    /\ life[p] = "live"
    /\ life' = [life EXCEPT ![p] = "dead"]
    /\ pc' = [pc EXCEPT ![p] = "idle"]
    /\ call' = [call EXCEPT ![p] = NoCall]
    /\ m' = [m EXCEPT ![p] = [h \in Handles |-> Zeroed]]
    /\ held' = [held EXCEPT ![p] = {}]
    /\ fd' = [fd EXCEPT ![p] = NULL]
    /\ ent' = [ent EXCEPT ![p] = 0]
    /\ seg' = [seg EXCEPT ![p] = Zeroed]
    /\ rpid' = [rpid EXCEPT ![p] = 0]
    /\ must' = [must EXCEPT ![p] = {}]
    /\ todo' = [todo EXCEPT ![p] = {}]
    /\ stale' = [stale EXCEPT ![p] = {}]
    /\ UNCHANGED <<dir, obj, pid, drawn, faults>>

-----------------------------------------------------------------------------
(* Calls and returns. The caller keeps the contract of the asserts: it     *)
(* creates or attaches into a variable it does not hold, with a size in    *)
(* 1 .. MAX_SHM_SIZE, and frees what it holds, once.                       *)

Goto(p, where) == pc' = [pc EXCEPT ![p] = where]

MayCall(p) == life[p] = "live" /\ pc[p] = "idle"

Calling(p, op, h, size, shared) ==
    call' = [call EXCEPT ![p] = [op |-> op, h |-> h, size |-> size,
                                 shared |-> shared]]

\* The function called returns; ent is a local of the call.
Return(p) ==
    /\ Goto(p, "idle")
    /\ call' = [call EXCEPT ![p] = NoCall]
    /\ ent' = [ent EXCEPT ![p] = 0]

\* av_shm_create_rw(m, size, shared, mode), up to the call of av_shm_cleanup.
av_shm_create_rw(p, h, size, shared) ==
    /\ MayCall(p)
    /\ h \notin held[p]
    /\ Calling(p, "create", h, size, shared)
    /\ Goto(p, "opendir")
    /\ UNCHANGED <<kernelVars, handleVars, fd, ent, scanVars, drawn, faults,
                   stale>>

\* av_shm_attach_ro(m, id) called by a user of the segment.
av_shm_attach_ro(p, h, id) ==
    /\ MayCall(p)
    /\ h \notin held[p]
    /\ Calling(p, "attach", h, 0, 0)
    /\ m' = [m EXCEPT ![p][h].id = id]
    /\ ent' = [ent EXCEPT ![p] = id]
    /\ Goto(p, "shm_open")
    /\ UNCHANGED <<kernelVars, held, fd, scanVars, drawn, faults, stale>>

\* av_shm_cleanup() called on its own.
av_shm_cleanup(p) ==
    /\ MayCall(p)
    /\ Calling(p, "cleanup", NULL, 0, 0)
    /\ Goto(p, "opendir")
    /\ UNCHANGED <<kernelVars, handleVars, fd, ent, scanVars, drawn, faults,
                   stale>>

keep_name_FreeEffect(s) == UNCHANGED dir

\* What av_shm_free does to the directory: the name goes only if the variable
\* is a shared one that its own process created.
FreeEffect(s) ==
    IF s.shared /\ s.do_unlink THEN shm_unlink(s.id) ELSE UNCHANGED dir

\* av_shm_free(m) called by the holder of m.
av_shm_free(p, h) ==
    /\ MayCall(p)
    /\ h \in held[p]
    /\ FreeEffect(m[p][h])
    /\ m' = [m EXCEPT ![p][h] = Zeroed]
    /\ held' = [held EXCEPT ![p] = @ \ {h}]
    /\ UNCHANGED <<obj, life, pid, pc, call, fd, ent, scanVars, drawn, faults,
                   stale>>

-----------------------------------------------------------------------------
(* The body of av_shm_attach_ro, run for a user or for av_shm_cleanup.     *)

\* The struct av_shm the attach fills: the user's variable, or the local
\* "seg" of the cleanup.
SetTarget(p, s) ==
    IF call[p].op = "attach"
    THEN m' = [m EXCEPT ![p][call[p].h] = s] /\ UNCHANGED seg
    ELSE seg' = [seg EXCEPT ![p] = s] /\ UNCHANGED m

Target(p) == IF call[p].op = "attach" THEN m[p][call[p].h] ELSE seg[p]

\* The attach returns -1: to the user, or to the loop, which continues.
AttachFails(p) ==
    /\ fd' = [fd EXCEPT ![p] = NULL]
    /\ IF call[p].op = "attach"
       THEN Return(p)
       ELSE Goto(p, "readdir") /\ UNCHANGED <<call, ent>>
    /\ UNCHANGED held

\* The entry p is looking at is left alone because a system call failed.
Excused(p) == stale' = [stale EXCEPT ![p] = @ \ {dir[ent[p]]}]

\* shm_open(fn, O_RDONLY, 0)
shm_open_ro(p) ==
    /\ pc[p] = "shm_open"
    /\ \/ /\ dir[ent[p]] # NULL
          /\ fd' = [fd EXCEPT ![p] = dir[ent[p]]]
          /\ Goto(p, "fstat")
          /\ NoFault
          /\ UNCHANGED <<call, ent, held, stale>>
       \/ dir[ent[p]] = NULL /\ AttachFails(p) /\ NoFault /\ UNCHANGED stale
       \/ AttachFails(p) /\ Fault /\ Excused(p)
    /\ UNCHANGED <<kernelVars, m, scanVars, drawn>>

unlinking_Attached(s, o, size) ==
    [s EXCEPT !.size = size, !.ptr = o, !.do_unlink = TRUE, !.shared = TRUE]

\* The fields av_shm_attach_ro sets on success; id was set before.
Attached(s, o, size) ==
    [s EXCEPT !.size = size, !.ptr = o, !.do_unlink = FALSE, !.shared = TRUE]

\* fstat, the check of the size, mmap and close.
fstat_mmap_ro(p) ==
    LET st_size == obj[fd[p]].size
    IN  /\ pc[p] = "fstat"
        /\ \/ /\ SizeValid(st_size)
              /\ SetTarget(p, Attached(Target(p), fd[p], st_size))
              /\ fd' = [fd EXCEPT ![p] = NULL]
              /\ IF call[p].op = "attach"
                 THEN /\ Return(p)
                      /\ held' = [held EXCEPT ![p] = @ \cup {call[p].h}]
                 ELSE Goto(p, "marker") /\ UNCHANGED <<call, ent, held>>
              /\ NoFault
              /\ UNCHANGED stale
           \/ /\ ~SizeValid(st_size)
              /\ AttachFails(p)
              /\ NoFault
              /\ UNCHANGED <<m, seg, stale>>
           \/ AttachFails(p) /\ Fault /\ Excused(p) /\ UNCHANGED <<m, seg>>
           \/ /\ SizeValid(st_size)
              /\ SetTarget(p, [Target(p) EXCEPT !.size = st_size,
                                                !.ptr = MAP_FAILED])
              /\ AttachFails(p)
              /\ Fault
              /\ Excused(p)
        /\ UNCHANGED <<kernelVars, rpid, must, todo, drawn>>

-----------------------------------------------------------------------------
(* The loop of av_shm_cleanup. *)

\* av_shm_cleanup returns to its caller, which ignores the result.
CleanupReturns(p) ==
    IF call[p].op = "create"
    THEN /\ Goto(p, "alloc")
         /\ ent' = [ent EXCEPT ![p] = 0]
         /\ UNCHANGED call
    ELSE Return(p)

opendir(p) ==
    /\ pc[p] = "opendir"
    /\ \/ /\ must' = [must EXCEPT ![p] = Named]
          /\ todo' = [todo EXCEPT ![p] = {o \in Objs : obj[o].owner = NULL}]
          /\ stale' = [stale EXCEPT ![p] = Stale]
          /\ Goto(p, "readdir")
          /\ NoFault
          /\ UNCHANGED <<call, ent>>
       \/ /\ CleanupReturns(p)
          /\ stale' = [stale EXCEPT ![p] = {}]
          /\ Fault
          /\ UNCHANGED <<must, todo>>
    /\ UNCHANGED <<kernelVars, handleVars, fd, seg, rpid, drawn>>

\* readdir returns an entry, and av_shm_attach_ro(&seg, id) begins. A name
\* that was there at opendir is returned, also if it has gone since; an entry
\* made later may be returned or not, and a name that was removed and made
\* again is a new entry. No entry is returned twice. The entries of other
\* programs are skipped and change nothing.
readdir(p) ==
    /\ pc[p] = "readdir"
    /\ \E i \in Ids :
        /\ \/ /\ i \in must[p]
              /\ must' = [must EXCEPT ![p] = @ \ {i}]
              /\ UNCHANGED todo
           \/ /\ dir[i] \in todo[p]
              /\ todo' = [todo EXCEPT ![p] = @ \ {dir[i]}]
              /\ UNCHANGED must
        /\ ent' = [ent EXCEPT ![p] = i]
        /\ seg' = [seg EXCEPT ![p] = [Zeroed EXCEPT !.id = i]]
    /\ Goto(p, "shm_open")
    /\ UNCHANGED <<kernelVars, call, handleVars, fd, rpid, drawn, faults,
                   stale>>

\* readdir returns NULL, and the directory is closed.
closedir(p) ==
    /\ pc[p] = "readdir"
    /\ \A i \in must[p] : dir[i] = NULL \/ dir[i] \in todo[p]
    /\ CleanupReturns(p)
    /\ must' = [must EXCEPT ![p] = {}]
    /\ todo' = [todo EXCEPT ![p] = {}]
    /\ UNCHANGED <<kernelVars, handleVars, fd, seg, rpid, drawn, faults, stale>>

\* av_shm_free(&seg) and on to "where".
FreeSegAndGoto(p, where) ==
    /\ FreeEffect(seg[p])
    /\ seg' = [seg EXCEPT ![p] = Zeroed]
    /\ Goto(p, where)

\* Reading the mapped object o at byte offset x: what was stored there, or
\* the zeroes of ftruncate.
Load(o, x, value, zero) == IF obj[o].base = x THEN value ELSE zero

\* av_atomic_load(&m->marker) of the segment, if it is large enough.
load_marker(p) ==
    LET s == seg[p]
    IN  /\ pc[p] = "marker"
        /\ IF /\ s.size >= SHM_MARKER_SIZE
              /\ Load(s.ptr, MarkerOffset(s.size), obj[s.ptr].marker, FALSE)
           THEN Goto(p, "pid") /\ UNCHANGED <<dir, seg>>
           ELSE FreeSegAndGoto(p, "readdir")
        /\ UNCHANGED <<obj, life, pid, call, handleVars, fd, ent, rpid, must,
                       todo, drawn, faults, stale>>

\* av_atomic_load(&m->pid)
load_pid(p) ==
    LET s == seg[p]
        n == Load(s.ptr, MarkerOffset(s.size), obj[s.ptr].pid, 0)
    IN  /\ pc[p] = "pid"
        /\ IF n # 0
           THEN Goto(p, "kill") /\ UNCHANGED <<dir, seg>>
           ELSE FreeSegAndGoto(p, "readdir")
        /\ rpid' = [rpid EXCEPT ![p] = n]
        /\ UNCHANGED <<obj, life, pid, call, handleVars, fd, ent, must, todo,
                       drawn, faults, stale>>

\* kill(pid, 0): the segment is let go in either case, its name is condemned
\* when nobody has the pid.
kill(p) ==
    /\ pc[p] = "kill"
    /\ FreeSegAndGoto(p, IF Alive(rpid[p]) THEN "readdir" ELSE "unlink")
    /\ rpid' = [rpid EXCEPT ![p] = 0]
    /\ UNCHANGED <<obj, life, pid, call, handleVars, fd, ent, must, todo,
                   drawn, faults, stale>>

\* shm_unlink of the condemned name; it fails without consequence.
unlink_stale(p) ==
    /\ pc[p] = "unlink"
    /\ \/ shm_unlink(ent[p]) /\ NoFault /\ UNCHANGED stale
       \/ Fault /\ Excused(p) /\ UNCHANGED dir
    /\ Goto(p, "readdir")
    /\ UNCHANGED <<obj, life, pid, call, handleVars, fd, ent, scanVars, drawn>>

-----------------------------------------------------------------------------
(* The rest of av_shm_create_rw, once av_shm_cleanup has returned. *)

\* The variable p is creating into.
New(p) == m[p][call[p].h]

SetNew(p, s) == m' = [m EXCEPT ![p][call[p].h] = s]

\* A private area: an anonymous mapping and no name.
mmap_private(p) ==
    LET s == [New(p) EXCEPT !.id = 0, !.size = av_page_align(call[p].size)]
    IN  /\ pc[p] = "alloc"
        /\ call[p].shared = 0
        /\ \/ /\ SetNew(p, [s EXCEPT !.ptr = ANON, !.do_unlink = FALSE,
                                     !.shared = FALSE])
              /\ held' = [held EXCEPT ![p] = @ \cup {call[p].h}]
              /\ NoFault
           \/ SetNew(p, [s EXCEPT !.ptr = MAP_FAILED]) /\ Fault /\ UNCHANGED held
        /\ Return(p)
        /\ UNCHANGED <<kernelVars, fd, scanVars, drawn, stale>>

\* av_random(&m->id) and shm_open(fn, O_RDWR|O_CREAT|O_EXCL), which fails when
\* the name is taken; a failure here leaves nothing to undo.
shm_open_excl(p) ==
    /\ pc[p] = "alloc"
    /\ call[p].shared # 0
    /\ \E id \in Ids :
        /\ FreshIds => id \notin drawn
        /\ drawn' = drawn \cup {id}
        /\ SetNew(p, [New(p) EXCEPT !.id = id])
        /\ \/ /\ dir[id] = NULL
              /\ \E o \in Objs :
                  /\ obj[o].owner = NULL
                  /\ dir' = [dir EXCEPT ![id] = o]
                  /\ obj' = [obj EXCEPT ![o].owner = p, ![o].name = id]
                  /\ fd' = [fd EXCEPT ![p] = o]
              /\ Goto(p, "ftruncate")
              /\ NoFault
              /\ UNCHANGED <<call, ent>>
           \/ /\ \/ dir[id] # NULL /\ NoFault
                 \/ (\A o \in Objs : obj[o].owner # NULL) /\ NoFault
                 \/ Fault
              /\ Return(p)
              /\ UNCHANGED <<dir, obj, fd>>
    /\ UNCHANGED <<life, pid, held, scanVars, stale>>

\* m->size is set, and the object gets that size, or the creation fails.
ftruncate(p) ==
    LET size == SegmentSize(call[p].size)
    IN  /\ pc[p] = "ftruncate"
        /\ SetNew(p, [New(p) EXCEPT !.size = size])
        /\ \/ /\ obj' = [obj EXCEPT ![fd[p]].size = size]
              /\ Goto(p, "mmap")
              /\ NoFault
           \/ Goto(p, "fail") /\ Fault /\ UNCHANGED obj
        /\ UNCHANGED <<dir, life, pid, call, held, fd, ent, scanVars, drawn,
                       stale>>

mmap_rw(p) ==
    /\ pc[p] = "mmap"
    /\ \/ /\ SetNew(p, [New(p) EXCEPT !.ptr = fd[p]])
          /\ Goto(p, "store_pid")
          /\ NoFault
       \/ /\ SetNew(p, [New(p) EXCEPT !.ptr = MAP_FAILED])
          /\ Goto(p, "fail")
          /\ Fault
    /\ UNCHANGED <<kernelVars, call, held, fd, ent, scanVars, drawn, stale>>

\* av_atomic_store(&marker->pid, getpid()), at the marker's place.
store_pid(p) ==
    /\ pc[p] = "store_pid"
    /\ obj' = [obj EXCEPT ![New(p).ptr].pid = pid[p],
                          ![New(p).ptr].base = MarkerOffset(New(p).size)]
    /\ Goto(p, "store_marker")
    /\ UNCHANGED <<dir, life, pid, call, handleVars, fd, ent, scanVars, drawn,
                   faults, stale>>

\* av_atomic_store(&marker->marker, SHM_MARKER), close and return 0.
store_marker(p) ==
    /\ pc[p] = "store_marker"
    /\ obj' = [obj EXCEPT ![New(p).ptr].marker = TRUE]
    /\ SetNew(p, [New(p) EXCEPT !.do_unlink = TRUE,
                                !.shared = OneBit(call[p].shared)])
    /\ held' = [held EXCEPT ![p] = @ \cup {call[p].h}]
    /\ fd' = [fd EXCEPT ![p] = NULL]
    /\ Return(p)
    /\ UNCHANGED <<dir, life, pid, scanVars, drawn, faults, stale>>

leaking_create_fail(p) ==
    /\ pc[p] = "fail"
    /\ fd' = [fd EXCEPT ![p] = NULL]
    /\ Return(p)
    /\ UNCHANGED <<kernelVars, handleVars, scanVars, drawn, faults, stale>>

\* The label "fail" with an open descriptor: the name is removed again.
create_fail(p) ==
    /\ pc[p] = "fail"
    /\ shm_unlink(New(p).id)
    /\ fd' = [fd EXCEPT ![p] = NULL]
    /\ Return(p)
    /\ UNCHANGED <<obj, life, pid, handleVars, scanVars, drawn, faults, stale>>

-----------------------------------------------------------------------------
(* The specification. *)

\* A process takes the next step of the call it is in.
Step(p) ==
    \/ opendir(p) \/ readdir(p) \/ closedir(p)
    \/ shm_open_ro(p) \/ fstat_mmap_ro(p)
    \/ load_marker(p) \/ load_pid(p) \/ kill(p) \/ unlink_stale(p)
    \/ mmap_private(p) \/ shm_open_excl(p) \/ ftruncate(p) \/ mmap_rw(p)
    \/ store_pid(p) \/ store_marker(p) \/ create_fail(p)

\* A process calls the component.
Request(p) ==
    \/ av_shm_cleanup(p)
    \/ \E h \in Handles :
        \/ \E size \in Sizes, shared \in SharedArgs :
            av_shm_create_rw(p, h, size, shared)
        \/ \E id \in Ids : av_shm_attach_ro(p, h, id)
        \/ av_shm_free(p, h)

Next == \E p \in Procs : Spawn(p) \/ Exit(p) \/ Request(p) \/ Step(p)

Spec == Init /\ [][Next]_vars

-----------------------------------------------------------------------------
(* Properties. *)

\* p is in av_shm_create_rw with its name published and not yet returned.
Creating(p) ==
    pc[p] \in {"ftruncate", "mmap", "store_pid", "store_marker", "fail"}

\* The variables through which p will remove a name in av_shm_free.
Unlinkers(p) == {h \in held[p] : m[p][h].shared /\ m[p][h].do_unlink}

\* The names p relies on: of the segments it holds and of the one it creates.
Claims(p) == {m[p][h].id : h \in Unlinkers(p)}
             \cup (IF Creating(p) THEN {New(p).id} ELSE {})

\* A step takes a name away from a live process only if it is a step of that
\* process.
KeepsLiveNames ==
    \A i \in Ids :
        dir[i] # NULL /\ dir'[i] # dir[i] =>
            LET p == obj[dir[i]].owner
            IN  life[p] = "dead" \/ pc'[p] # pc[p] \/ held'[p] # held[p]

\* shm.c:257, "the owner of this shms segment is dead, so, let's remove the
\* segment": while its owner lives, a name is removed by no step but the
\* owner's (av_shm_free or the failure path of av_shm_create_rw), whatever
\* the cleanups of other processes do meanwhile.
UnlinksOnlyDeadOrOwn == [][KeepsLiveNames]_vars

\* The process that created the segment behind each name.
NameOwner == [i \in Ids |-> IF dir[i] = NULL THEN NULL ELSE obj[dir[i]].owner]

Registry ==
    INSTANCE ShmRegistry WITH owner <- NameOwner,
                              claims <- [p \in Procs |-> Claims(p)]

\* The component implements the registry of names: a name has one owner, a
\* live process owns exactly the names it relies on, and others take away a
\* name only from a dead owner.
ImplementsRegistry == Registry!Spec

\* Nothing is stolen and nothing is forgotten: the names a live process will
\* remove, now or in av_shm_free, are exactly the names in /dev/shm of the
\* segments it created.
ClaimsAreOwned == Registry!ClaimsAreOwned

\* No leak while the owner lives (tests/shm.test finds no name left behind):
\* a name whose owner lives can still be removed by the owner, through the
\* variable it holds or the failure path of the creation it is in.
NamesAreHeld ==
    \A i \in Ids :
        LET o == dir[i]
            p == obj[o].owner
        IN  o # NULL /\ life[p] = "live" =>
                \/ Creating(p) /\ fd[p] = o /\ New(p).id = i
                \/ \E h \in Unlinkers(p) : m[p][h].ptr = o /\ m[p][h].id = i

\* What av_shm_free asserts of the variables it is given: a create or attach
\* that returned 0 left a mapping, whose recorded size is that of the object,
\* however creation and attach interleaved.
HandlesSound ==
    \A p \in Procs : \A h \in held[p] :
        LET s == m[p][h]
        IN  /\ s.ptr \notin {NULL, MAP_FAILED}
            /\ s.size > 0
            /\ s.ptr \in Objs => obj[s.ptr].size = s.size

\* Creation and attach agree on sizes: whatever size was asked for, the
\* segment av_shm_create_rw makes passes the check of av_shm_attach_ro, the
\* largest one too.
SegmentsAttachable ==
    \A o \in Objs : obj[o].size # 0 => SizeValid(obj[o].size)

\* A cleanup leaves none of the marked segments whose owner was dead when it
\* started, unless a system call on the segment failed or the pid is in use
\* again, and a name is not skipped because others clean up at the same time.
StaleDropped ==
    \A p \in Procs :
        ~InScan(p) => \A i \in Ids : dir[i] \in stale[p] => ~obj[dir[i]].marker

\* shm.c:63, "Each time we create a new SHM area, let's first drop all stale
\* ones": once the cleanup in av_shm_create_rw is done, no name is left whose
\* owner was dead when the cleanup started.
AllStaleDropped ==
    \A p \in Procs :
        pc[p] = "alloc" => \A i \in Ids : dir[i] \notin stale[p]

=============================================================================
