--------------------------- MODULE ShmSegmentProofs --------------------------
(***************************************************************************)
(* What Shm promises even if av_random repeats ids: the variables a        *)
(* process holds are sound, its names can all be removed by it, and a      *)
(* cleanup passes by no marked segment of a dead process. And that Shm     *)
(* implements ShmRegistry, if ids are not repeated.                        *)
(*                                                                         *)
(* The argument has two layers. SegmentsInv is inductive and says what an  *)
(* object is: the work of one process, sized once and marked last. Hence   *)
(* SegmentFrame: no step changes the owner of an object, its size once     *)
(* set, or anything of an object whose owner is dead. The three properties *)
(* are then inductive on top of it.                                        *)
(*                                                                         *)
(* The refinement rests on NamesInv alone: every step of a process takes,  *)
(* gives up or reaps one name of the registry, starts or ends the process, *)
(* or changes nothing the registry sees.                                   *)
(***************************************************************************)
EXTENDS ShmNameProofs

-----------------------------------------------------------------------------
(* What the steps of a process leave alone. *)

\* A step of p touches neither the locals of q nor its walk over the directory.
LEMMA OthersKeep ==
    ASSUME TypeOK, NEW p \in Procs, Spawn(p) \/ Exit(p) \/ Request(p) \/ Step(p),
           NEW q \in Procs, q # p
    PROVE  Local(q) /\ UNCHANGED <<must[q], todo[q]>> /\ stale'[q] \subseteq stale[q]
<1> USE DEF TypeOK, CallTypeOK, HandleTypeOK, ScanTypeOK, RecordTypeOK, Local, Return,
        Goto, handleVars, scanVars
<1>1. CASE Spawn(p)
    BY <1>1 DEF Spawn
<1>2. CASE Exit(p)
    BY <1>2 DEF Exit
<1>3. CASE av_shm_cleanup(p)
    BY <1>3 DEF av_shm_cleanup, Calling
<1>4. ASSUME NEW h \in Handles, NEW size \in Sizes, NEW shared \in SharedArgs,
             av_shm_create_rw(p, h, size, shared)
      PROVE  Local(q) /\ UNCHANGED <<must[q], todo[q]>> /\ stale'[q] \subseteq stale[q]
    BY <1>4 DEF av_shm_create_rw, Calling
<1>5. ASSUME NEW h \in Handles, NEW id \in Ids, av_shm_attach_ro(p, h, id)
      PROVE  Local(q) /\ UNCHANGED <<must[q], todo[q]>> /\ stale'[q] \subseteq stale[q]
    BY <1>5 DEF av_shm_attach_ro, Calling
<1>6. ASSUME NEW h \in Handles, av_shm_free(p, h)
      PROVE  Local(q) /\ UNCHANGED <<must[q], todo[q]>> /\ stale'[q] \subseteq stale[q]
    BY <1>6 DEF av_shm_free
<1>7. CASE opendir(p) \/ readdir(p) \/ closedir(p)
    BY <1>7 DEF opendir, readdir, closedir, CleanupReturns
<1>8. CASE shm_open_ro(p)
    BY <1>8 DEF shm_open_ro, AttachFails, Excused
<1>9. CASE fstat_mmap_ro(p)
    BY <1>9 DEF fstat_mmap_ro, AttachFails, SetTarget, Excused
<1>10. CASE load_marker(p) \/ load_pid(p) \/ kill(p)
    BY <1>10 DEF load_marker, load_pid, kill, FreeSegAndGoto
<1>11. CASE unlink_stale(p)
    BY <1>11 DEF unlink_stale, Excused
<1>12. CASE mmap_private(p) \/ ftruncate(p) \/ mmap_rw(p)
    BY <1>12 DEF mmap_private, ftruncate, mmap_rw, SetNew
<1>13. CASE shm_open_excl(p)
  <2>1. /\ \E s : m' = [m EXCEPT ![p][call[p].h] = s]
        /\ UNCHANGED <<held, seg, rpid, must, todo, stale>>
    BY <1>13 DEF shm_open_excl, SetNew
  <2>2. /\ pc'[q] = pc[q] /\ call'[q] = call[q]
        /\ fd'[q] = fd[q] /\ ent'[q] = ent[q]
    BY <1>13 DEF shm_open_excl
  <2> QED BY <2>1, <2>2
<1>14. CASE store_pid(p) \/ store_marker(p) \/ create_fail(p)
    BY <1>14 DEF store_pid, store_marker, create_fail, SetNew
<1> QED BY <1>1, <1>2, <1>3, <1>4, <1>5, <1>6, <1>7, <1>8, <1>9, <1>10, <1>11, <1>12,
           <1>13, <1>14 DEF Request, Step

\* The steps that write to an object.
Writes(p) == shm_open_excl(p) \/ ftruncate(p) \/ store_pid(p) \/ store_marker(p)

\* Names only go.
DirShrinks == \A i \in Ids : dir'[i] = dir[i] \/ dir'[i] = NULL

\* What the directory can lose by the free of a variable.
LEMMA FreeShrinks ==
    ASSUME KernelTypeOK, NEW s, FreeEffect(s)
    PROVE  DirShrinks
BY DEF KernelTypeOK, FreeEffect, shm_unlink, DirShrinks

\* All other steps leave the objects and the processes alone and add no name.
LEMMA OtherKernel ==
    ASSUME TypeOK, NEW p \in Procs, Request(p) \/ Step(p), ~Writes(p)
    PROVE  UNCHANGED <<obj, life, pid>> /\ DirShrinks
<1>0. KernelTypeOK
    BY DEF TypeOK
<1>1. CASE Request(p)
  <2>1. ASSUME NEW h \in Handles, av_shm_free(p, h)
        PROVE  UNCHANGED <<obj, life, pid>> /\ DirShrinks
    BY <1>0, <2>1, FreeShrinks DEF av_shm_free
  <2> QED BY <1>1, <2>1 DEF Request, av_shm_cleanup, av_shm_create_rw, av_shm_attach_ro,
            kernelVars, DirShrinks
<1>2. CASE load_marker(p) \/ load_pid(p) \/ kill(p)
  <2>1. UNCHANGED <<obj, life, pid>> /\ (dir' = dir \/ FreeEffect(seg[p]))
    BY <1>2 DEF load_marker, load_pid, kill, FreeSegAndGoto
  <2> QED BY <1>0, <2>1, FreeShrinks DEF DirShrinks
<1>3. CASE unlink_stale(p) \/ create_fail(p)
    BY <1>0, <1>3 DEF unlink_stale, create_fail, shm_unlink, KernelTypeOK, DirShrinks
<1> QED BY <1>1, <1>2, <1>3 DEF Step, Writes, opendir, readdir, closedir, shm_open_ro,
        fstat_mmap_ro, mmap_private, mmap_rw, kernelVars, DirShrinks

\* Of these steps only the mapping is one of a creation that goes on.
LEMMA OtherPlace ==
    ASSUME TypeOK, NEW p \in Procs, Request(p) \/ Step(p), ~Writes(p), Creating(p)'
    PROVE  mmap_rw(p)
<1> USE DEF TypeOK, CallTypeOK, Creating, Return, Goto
<1>1. CASE Request(p)
    BY <1>1 DEF Request, av_shm_cleanup, av_shm_create_rw, av_shm_attach_ro, av_shm_free,
        MayCall
<1>2. CASE opendir(p) \/ readdir(p) \/ closedir(p)
    BY <1>2 DEF opendir, readdir, closedir, CleanupReturns
<1>3. CASE shm_open_ro(p) \/ fstat_mmap_ro(p)
    BY <1>3 DEF shm_open_ro, fstat_mmap_ro, AttachFails
<1>4. CASE load_marker(p) \/ load_pid(p) \/ kill(p) \/ unlink_stale(p)
    BY <1>4 DEF load_marker, load_pid, kill, unlink_stale, FreeSegAndGoto
<1>5. CASE mmap_private(p) \/ create_fail(p)
    BY <1>5 DEF mmap_private, create_fail
<1> QED BY <1>1, <1>2, <1>3, <1>4, <1>5 DEF Step, Writes

\* Whatever a caller asks for is not empty, and a segment has room for its
\* marker (shm.c:68 and 94).
LEMMA SegmentHolds ==
    ASSUME NEW size \in Sizes
    PROVE  /\ av_page_align(size) > 0
           /\ SegmentSize(size) >= SHM_MARKER_SIZE /\ SegmentSize(size) > 0
<1>1. size \in Nat /\ size > 0
    BY NaturalsAssumption
<1>2. av_page_align(size) \in Nat /\ av_page_align(size) >= size
    BY <1>1, PageAlignNat
<1>3. SHM_MARKER_SIZE \in Nat
    BY AlignNat, NaturalsAssumption DEF SHM_MARKER_SIZE
<1> QED BY <1>1, <1>2, <1>3 DEF SegmentSize

-----------------------------------------------------------------------------
(* SegmentsInv is inductive. *)

\* There are no objects at the start.
LEMMA SegmentsInit == Init => SegmentsInv
<1> SUFFICES ASSUME Init PROVE SegmentsInv
    OBVIOUS
<1>1. TypeInv
    BY TypeInit
<1>2. SegmentInv
    BY DEF Init, SegmentInv, Unused
<1>3. \A p \in Procs : CreatorInv(p)
    BY DEF Init, CreatorInv, Creating
<1> QED BY <1>1, <1>2, <1>3 DEF SegmentsInv

\* A process that takes no step keeps what it knows of the object it creates,
\* if nobody writes to it.
LEMMA CreatorKeeps ==
    ASSUME NEW q \in Procs, CreatorInv(q), Local(q),
           Creating(q) => obj'[fd[q]] = obj[fd[q]] /\ pid'[q] = pid[q]
    PROVE  CreatorInv(q)'
BY DEF CreatorInv, Local, Creating

\* Steps that write to no object preserve SegmentsInv.
LEMMA SegmentsOther ==
    ASSUME SegmentsInv, TypeInv', NEW p \in Procs, Request(p) \/ Step(p), ~Writes(p)
    PROVE  SegmentsInv'
<1>0. TypeOK /\ SegmentInv
    BY DEF SegmentsInv, TypeInv
<1>1. UNCHANGED <<obj, life, pid>> /\ DirShrinks
    BY <1>0, OtherKernel
<1>2. SegmentInv'
    BY <1>0, <1>1 DEF SegmentInv, DirShrinks
<1>3. ASSUME NEW q \in Procs, q # p PROVE CreatorInv(q)'
  <2>1. Local(q) /\ CreatorInv(q)
    BY <1>0, <1>3, OthersKeep DEF SegmentsInv
  <2> QED BY <1>1, <2>1, CreatorKeeps
<1>4. CreatorInv(p)'
  <2>1. CASE ~Creating(p)'
    BY <2>1 DEF CreatorInv, Creating
  <2>2. CASE Creating(p)'
    <3>1. mmap_rw(p) /\ CreatorInv(p)
        BY <1>0, <2>2, OtherPlace DEF SegmentsInv
    <3>2. /\ pc[p] = "mmap" /\ pc'[p] \in {"store_pid", "fail"}
          /\ UNCHANGED <<fd, call>>
        BY <1>0, <3>1 DEF mmap_rw, Goto, TypeOK, CallTypeOK
    <3> QED BY <1>1, <3>1, <3>2 DEF CreatorInv, Creating
  <2> QED BY <2>1, <2>2
<1> QED BY <1>2, <1>3, <1>4 DEF SegmentsInv

\* The start of a process preserves SegmentsInv: a process that is not born
\* owns nothing.
LEMMA SegmentsSpawn ==
    ASSUME SegmentsInv, TypeInv', NEW p \in Procs, Spawn(p)
    PROVE  SegmentsInv'
<1>0. TypeOK /\ SegmentInv /\ life[p] = "unborn" /\ ~Creating(p)
    BY DEF SegmentsInv, TypeInv, Spawn, CallInv, Creating
<1>1. /\ UNCHANGED <<dir, obj>>
      /\ life'[p] = "live" /\ pid'[p] # 0
      /\ \A q \in Procs : q # p => life'[q] = life[q] /\ pid'[q] = pid[q]
    BY <1>0, NaturalsAssumption DEF Spawn, TypeOK, KernelTypeOK
<1>2. \A o \in Objs : obj[o].owner # NULL => obj[o].owner \in Procs \ {p}
    BY <1>0 DEF SegmentInv, TypeOK, KernelTypeOK, Segment
<1>3. SegmentInv'
    BY <1>0, <1>1, <1>2 DEF SegmentInv
<1>4. ASSUME NEW q \in Procs PROVE CreatorInv(q)'
  <2>1. Local(q) /\ CreatorInv(q)
    BY DEF SegmentsInv, Spawn, Local, handleVars, scanVars
  <2> QED BY <1>0, <1>1, <2>1, CreatorKeeps
<1> QED BY <1>3, <1>4 DEF SegmentsInv

\* The end of a process preserves SegmentsInv.
LEMMA SegmentsExit ==
    ASSUME SegmentsInv, TypeInv', NEW p \in Procs, Exit(p)
    PROVE  SegmentsInv'
<1>0. TypeOK /\ SegmentInv
    BY DEF SegmentsInv, TypeInv
<1>1. /\ UNCHANGED <<dir, obj, pid>>
      /\ \A q \in Procs : life'[q] = IF q = p THEN "dead" ELSE life[q]
      /\ life[p] = "live" /\ pc'[p] = "idle"
    BY <1>0 DEF Exit, TypeOK, KernelTypeOK, CallTypeOK
<1>2. SegmentInv'
  <2>1. \A o \in Objs : obj[o].owner # NULL => obj[o].owner \in Procs
    BY <1>0 DEF TypeOK, KernelTypeOK, Segment
  <2> QED BY <1>0, <1>1, <2>1 DEF SegmentInv
<1>3. ASSUME NEW q \in Procs, q # p PROVE CreatorInv(q)'
  <2>1. Local(q) /\ CreatorInv(q)
    BY <1>0, <1>3, OthersKeep DEF SegmentsInv
  <2> QED BY <1>1, <2>1, CreatorKeeps
<1>4. CreatorInv(p)'
    BY <1>1 DEF CreatorInv, Creating
<1> QED BY <1>2, <1>3, <1>4 DEF SegmentsInv

\* Two processes never create the same object.
LEMMA CreatorsApart ==
    ASSUME SegmentsInv, NEW p \in Procs, NEW q \in Procs, q # p,
           Creating(p), Creating(q)
    PROVE  fd[q] # fd[p]
BY DEF SegmentsInv, CreatorInv

\* A step of the creator p that writes to its object only, and leaves the
\* directory and the processes alone, disturbs no other creator.
LEMMA OtherCreators ==
    ASSUME SegmentsInv, NEW p \in Procs, Writes(p), Creating(p), pid' = pid,
           \A o \in Objs : o # fd[p] => obj'[o] = obj[o],
           NEW q \in Procs, q # p
    PROVE  CreatorInv(q)'
<1>1. Local(q) /\ CreatorInv(q)
    BY OthersKeep DEF SegmentsInv, TypeInv, Writes, Step
<1>2. Creating(q) => fd[q] # fd[p] /\ fd[q] \in Objs
    BY CreatorsApart DEF SegmentsInv, TypeInv, CallInv
<1> QED BY <1>1, <1>2, CreatorKeeps

\* Opening a new segment (shm.c:86) preserves SegmentsInv: the object is not
\* one anybody has.
LEMMA SegmentsOpenExcl ==
    ASSUME SegmentsInv, TypeInv', NEW p \in Procs, shm_open_excl(p)
    PROVE  SegmentsInv'
<1>0. /\ TypeOK /\ SegmentInv /\ UNCHANGED <<life, pid>> /\ p # NULL
      /\ life[p] = "live"
    BY SentinelAssumption DEF SegmentsInv, TypeInv, CallInv, shm_open_excl
<1>a. \A q \in Procs : q # p => Local(q)
    BY <1>0, OthersKeep DEF Step
<1>1. CASE UNCHANGED <<dir, obj>> /\ pc'[p] = "idle"
  <2>1. SegmentInv'
    BY <1>0, <1>1 DEF SegmentInv
  <2>2. CreatorInv(p)'
    BY <1>1 DEF CreatorInv, Creating
  <2>3. \A q \in Procs : q # p => CreatorInv(q)'
    BY <1>0, <1>1, <1>a, CreatorKeeps DEF SegmentsInv
  <2> QED BY <2>1, <2>2, <2>3 DEF SegmentsInv
<1>2. ASSUME NEW id \in Ids, NEW o \in Objs, obj[o].owner = NULL,
             dir' = [dir EXCEPT ![id] = o],
             obj' = [obj EXCEPT ![o].owner = p, ![o].name = id],
             fd'[p] = o, pc'[p] = "ftruncate"
      PROVE  SegmentsInv'
  <2>1. /\ obj'[o].owner = p /\ obj'[o].name = id
        /\ obj'[o].size = 0 /\ ~obj'[o].marker
        /\ \A x \in Objs : x # o => obj'[x] = obj[x]
    BY <1>0, <1>2 DEF SegmentInv, TypeOK, KernelTypeOK, Segment
  <2>2. \A i \in Ids : dir'[i] = IF i = id THEN o ELSE dir[i]
    BY <1>0, <1>2 DEF TypeOK, KernelTypeOK
  <2>3. \A i \in Ids : dir[i] # NULL => dir[i] \in Objs \ {o}
    BY <1>0, <1>2 DEF SegmentInv, TypeOK, KernelTypeOK
  <2>4. SegmentInv'
    BY <1>0, <2>1, <2>2, <2>3 DEF SegmentInv
  <2>5. CreatorInv(p)'
    BY <1>2, <2>1 DEF CreatorInv, Creating
  <2>6. ASSUME NEW q \in Procs, q # p PROVE CreatorInv(q)'
    <3>1. Creating(q) => fd[q] \in Objs \ {o}
        BY <1>2, SentinelAssumption DEF SegmentsInv, TypeInv, CallInv, CreatorInv
    <3> QED BY <1>0, <1>a, <2>1, <2>6, <3>1, CreatorKeeps DEF SegmentsInv
  <2> QED BY <2>4, <2>5, <2>6 DEF SegmentsInv
<1>3. \/ UNCHANGED <<dir, obj>> /\ pc'[p] = "idle"
      \/ \E id \in Ids, o \in Objs :
            /\ obj[o].owner = NULL
            /\ dir' = [dir EXCEPT ![id] = o]
            /\ obj' = [obj EXCEPT ![o].owner = p, ![o].name = id]
            /\ fd'[p] = o /\ pc'[p] = "ftruncate"
    BY <1>0 DEF shm_open_excl, Return, Goto, TypeOK, CallTypeOK
<1> QED BY <1>1, <1>2, <1>3

\* Sizing the segment (shm.c:94) preserves SegmentsInv: it had no size yet.
LEMMA SegmentsFtruncate ==
    ASSUME SegmentsInv, TypeInv', NEW p \in Procs, ftruncate(p)
    PROVE  SegmentsInv'
<1>0. /\ TypeOK /\ SegmentInv /\ UNCHANGED <<dir, life, pid, call, fd>>
      /\ Creating(p) /\ pc[p] = "ftruncate" /\ fd[p] \in Objs
      /\ obj[fd[p]].owner = p /\ obj[fd[p]].size = 0 /\ p # NULL
    BY SentinelAssumption DEF SegmentsInv, TypeInv, CallInv, CreatorInv, ftruncate, Creating
<1>1. /\ \A o \in Objs : o # fd[p] => obj'[o] = obj[o]
      /\ obj'[fd[p]].owner = obj[fd[p]].owner /\ obj'[fd[p]].name = obj[fd[p]].name
      /\ obj'[fd[p]].marker = obj[fd[p]].marker
      /\ pc'[p] = "fail" \/ /\ pc'[p] = "mmap"
                            /\ obj'[fd[p]].size = SegmentSize(call[p].size)
    BY <1>0 DEF ftruncate, Goto, TypeOK, KernelTypeOK, Segment, CallTypeOK
<1>2. ~obj[fd[p]].marker
    BY <1>0 DEF SegmentInv, SizeValid
<1>3. SegmentInv'
  <2>1. \A i \in Ids : dir[i] # NULL => dir[i] \in Objs
    BY <1>0 DEF TypeOK, KernelTypeOK
  <2> QED BY <1>0, <1>1, <1>2, <2>1 DEF SegmentInv
<1>4. CreatorInv(p)'
    BY <1>0, <1>1 DEF CreatorInv, Creating
<1>5. \A q \in Procs : q # p => CreatorInv(q)'
    BY <1>0, <1>1, OtherCreators DEF Writes
<1> QED BY <1>3, <1>4, <1>5 DEF SegmentsInv

\* Storing the pid (shm.c:109) preserves SegmentsInv.
LEMMA SegmentsStorePid ==
    ASSUME SegmentsInv, TypeInv', NEW p \in Procs, store_pid(p)
    PROVE  SegmentsInv'
<1>0. /\ TypeOK /\ SegmentInv /\ UNCHANGED <<dir, life, pid, call, fd>>
      /\ Creating(p) /\ pc[p] = "store_pid" /\ fd[p] \in Objs
      /\ obj[fd[p]].owner = p /\ p # NULL
    BY SentinelAssumption DEF SegmentsInv, TypeInv, CallInv, CreatorInv, store_pid,
        Creating, handleVars
<1>1. /\ New(p).ptr = fd[p] /\ New(p).size = obj[fd[p]].size
      /\ obj[fd[p]].size = SegmentSize(call[p].size)
    BY <1>0 DEF SegmentsInv, TypeInv, CallInv, CreatorInv
<1>2. /\ \A o \in Objs : o # fd[p] => obj'[o] = obj[o]
      /\ obj'[fd[p]].owner = p /\ obj'[fd[p]].name = obj[fd[p]].name
      /\ obj'[fd[p]].marker = obj[fd[p]].marker /\ obj'[fd[p]].size = obj[fd[p]].size
      /\ obj'[fd[p]].pid = pid[p] /\ obj'[fd[p]].base = MarkerOffset(obj[fd[p]].size)
      /\ pc'[p] = "store_marker"
    BY <1>0, <1>1 DEF store_pid, Goto, TypeOK, KernelTypeOK, Segment, CallTypeOK
<1>3. SegmentInv'
  <2>1. \A i \in Ids : dir[i] # NULL => dir[i] \in Objs
    BY <1>0 DEF TypeOK, KernelTypeOK
  <2> QED BY <1>0, <1>2, <2>1 DEF SegmentInv
<1>4. CreatorInv(p)'
    BY <1>0, <1>1, <1>2 DEF CreatorInv, Creating
<1>5. \A q \in Procs : q # p => CreatorInv(q)'
    BY <1>0, <1>2, OtherCreators DEF Writes
<1> QED BY <1>3, <1>4, <1>5 DEF SegmentsInv

\* Storing the marker (shm.c:110) preserves SegmentsInv: what it vouches for
\* was written before.
LEMMA SegmentsStoreMarker ==
    ASSUME SegmentsInv, TypeInv', NEW p \in Procs, store_marker(p)
    PROVE  SegmentsInv'
<1>0. /\ TypeOK /\ SegmentInv /\ UNCHANGED <<dir, life, pid>>
      /\ Creating(p) /\ pc[p] = "store_marker" /\ fd[p] \in Objs
      /\ obj[fd[p]].owner = p /\ p # NULL /\ New(p).ptr = fd[p]
      /\ call[p].size \in Sizes
    BY SentinelAssumption DEF SegmentsInv, TypeInv, CallInv, CreatorInv, store_marker,
        Creating, CreatePcs
<1>1. /\ obj[fd[p]].size = SegmentSize(call[p].size)
      /\ obj[fd[p]].pid = pid[p] /\ obj[fd[p]].base = MarkerOffset(obj[fd[p]].size)
    BY <1>0 DEF SegmentsInv, CreatorInv
<1>2. SizeValid(obj[fd[p]].size) /\ obj[fd[p]].size >= SHM_MARKER_SIZE
  <2>1. SizeValid(SegmentSize(call[p].size))
    BY <1>0, SegmentSizeValid
  <2>2. SegmentSize(call[p].size) >= SHM_MARKER_SIZE
    BY <1>0, SegmentHolds
  <2> QED BY <1>1, <2>1, <2>2
<1>3. /\ \A o \in Objs : o # fd[p] => obj'[o] = obj[o]
      /\ obj'[fd[p]].owner = p /\ obj'[fd[p]].name = obj[fd[p]].name
      /\ obj'[fd[p]].size = obj[fd[p]].size
      /\ obj'[fd[p]].pid = pid[p] /\ obj'[fd[p]].base = MarkerOffset(obj[fd[p]].size)
      /\ pc'[p] = "idle"
    BY <1>0, <1>1 DEF store_marker, Return, Goto, TypeOK, KernelTypeOK, Segment, CallTypeOK
<1>4. SegmentInv'
  <2>1. \A i \in Ids : dir[i] # NULL => dir[i] \in Objs
    BY <1>0 DEF TypeOK, KernelTypeOK
  <2> QED BY <1>0, <1>2, <1>3, <2>1 DEF SegmentInv
<1>5. CreatorInv(p)'
    BY <1>3 DEF CreatorInv, Creating
<1>6. \A q \in Procs : q # p => CreatorInv(q)'
    BY <1>0, <1>3, OtherCreators DEF Writes
<1> QED BY <1>4, <1>5, <1>6 DEF SegmentsInv

\* Every step preserves SegmentsInv.
LEMMA SegmentsStep ==
    ASSUME SegmentsInv, [Next]_vars
    PROVE  SegmentsInv'
<1>0. TypeInv'
    BY TypeStep DEF SegmentsInv
<1>1. CASE UNCHANGED vars
  <2>1. SegmentInv' /\ \A q \in Procs : Local(q)
    BY <1>1 DEF vars, SegmentsInv, SegmentInv, Local
  <2>2. \A q \in Procs : CreatorInv(q)'
    BY <1>1, <2>1, CreatorKeeps DEF vars, SegmentsInv
  <2> QED BY <1>0, <2>1, <2>2 DEF SegmentsInv
<1>2. ASSUME NEW p \in Procs, Spawn(p) \/ Exit(p) PROVE SegmentsInv'
    BY <1>0, <1>2, SegmentsSpawn, SegmentsExit
<1>3. ASSUME NEW p \in Procs, Writes(p) PROVE SegmentsInv'
    BY <1>0, <1>3, SegmentsOpenExcl, SegmentsFtruncate, SegmentsStorePid,
       SegmentsStoreMarker DEF Writes
<1>4. ASSUME NEW p \in Procs, Request(p) \/ Step(p), ~Writes(p) PROVE SegmentsInv'
    BY <1>0, <1>4, SegmentsOther
<1> QED BY <1>1, <1>2, <1>3, <1>4 DEF Next

\* What an object is, in every state, whatever ids av_random draws (shm.c:86):
\* one process's work, sized once, with a marker that is true of the pid and
\* of its own place.
THEOREM SegmentsInvariant == Spec => []SegmentsInv
BY SegmentsInit, SegmentsStep, PTL DEF Spec

-----------------------------------------------------------------------------
(* What no step changes. *)

\* The objects, across a step.
ObjectsKeep ==
    \A o \in Objs : obj[o].owner # NULL =>
        /\ obj'[o].owner = obj[o].owner
        /\ obj[o].size # 0 => obj'[o].size = obj[o].size
        /\ life[obj[o].owner] = "dead" => obj'[o] = obj[o]

\* The names, across a step: one that is there names what it named, or is new
\* and names an object nobody had.
NamesKeep ==
    \A i \in Ids : dir'[i] # NULL /\ dir'[i] # dir[i] =>
        \E p \in Procs : /\ shm_open_excl(p)
                         /\ dir'[i] \in Objs /\ obj[dir'[i]].owner = NULL
                         /\ obj'[dir'[i]].owner = p
                         /\ pc'[p] = "ftruncate" /\ fd'[p] = dir'[i] /\ New(p)'.id = i

\* The processes, across a step.
ProcsKeep ==
    /\ \A q \in Procs : life[q] = "dead" => life'[q] = "dead"
    /\ \A q \in Procs : life'[q] = "live" => life[q] # "dead"
    /\ \A q \in Procs : life[q] # "unborn" => pid'[q] = pid[q]
    /\ \A n : PidUsed(n)' => PidUsed(n) \/ \E p \in Procs : Spawn(p) /\ pid'[p] = n

\* A new segment has the id that was drawn for it.
LEMMA OpenExclNames ==
    ASSUME SegmentsInv, NEW p \in Procs, shm_open_excl(p)
    PROVE  NamesKeep
<1>0. TypeOK /\ call[p].h \in Handles /\ New(p) \in AvShm /\ HandleTypeOK
    BY DEF SegmentsInv, TypeInv, TypeOK, shm_open_excl, CallInv, CreatePcs, HandleTypeOK, New
<1> SUFFICES ASSUME NEW i \in Ids, dir'[i] # NULL, dir'[i] # dir[i]
             PROVE  /\ dir'[i] \in Objs /\ obj[dir'[i]].owner = NULL
                    /\ obj'[dir'[i]].owner = p
                    /\ pc'[p] = "ftruncate" /\ fd'[p] = dir'[i] /\ New(p)'.id = i
    BY DEF NamesKeep
<1>1. PICK id \in Ids, o \in Objs :
        /\ SetNew(p, [New(p) EXCEPT !.id = id])
        /\ obj[o].owner = NULL
        /\ dir' = [dir EXCEPT ![id] = o]
        /\ obj' = [obj EXCEPT ![o].owner = p, ![o].name = id]
        /\ fd' = [fd EXCEPT ![p] = o]
        /\ Goto(p, "ftruncate") /\ call' = call
    BY DEF shm_open_excl
<1>2. i = id /\ dir'[i] = o
    BY <1>0, <1>1 DEF TypeOK, KernelTypeOK
<1>3. obj'[o].owner = p
    BY <1>0, <1>1 DEF TypeOK, KernelTypeOK, Segment
<1>4. pc'[p] = "ftruncate" /\ fd'[p] = o
    BY <1>0, <1>1 DEF TypeOK, CallTypeOK, Goto
<1>5. New(p)'.id = id
  <2>1. m'[p][call[p].h] = [New(p) EXCEPT !.id = id]
    BY <1>0, <1>1, SetNewValue
  <2> QED BY <1>0, <1>1, <2>1 DEF New, AvShm
<1> QED BY <1>1, <1>2, <1>3, <1>4, <1>5

\* The steps that write, write to an object of a live process.
LEMMA WritesOwn ==
    ASSUME SegmentsInv, NEW p \in Procs, Writes(p)
    PROVE  ObjectsKeep
<1>0. /\ TypeOK /\ SegmentInv /\ p # NULL /\ CallInv(p) /\ CreatorInv(p)
      /\ life[p] # "dead"
    BY SentinelAssumption
    DEF SegmentsInv, TypeInv, CallInv, Writes, shm_open_excl, ftruncate, store_pid, store_marker
<1>1. CASE shm_open_excl(p)
  <2>1. obj' = obj \/ \E id \in Ids, o \in Objs :
            /\ obj[o].owner = NULL
            /\ obj' = [obj EXCEPT ![o].owner = p, ![o].name = id]
    BY <1>1 DEF shm_open_excl
  <2> QED BY <1>0, <2>1 DEF ObjectsKeep, TypeOK, KernelTypeOK
<1>2. ASSUME NEW o \in Objs, obj[o].owner = p,
             \A x \in Objs : x # o => obj'[x] = obj[x],
             obj'[o].owner = p, obj[o].size # 0 => obj'[o].size = obj[o].size
      PROVE  ObjectsKeep
    BY <1>0, <1>2 DEF ObjectsKeep
<1>3. CASE ftruncate(p) \/ store_pid(p) \/ store_marker(p)
  <2>1. /\ fd[p] \in Objs /\ obj[fd[p]].owner = p
        /\ ftruncate(p) => obj[fd[p]].size = 0
        /\ ~ftruncate(p) => New(p).ptr = fd[p]
    BY <1>0, <1>3 DEF CallInv, CreatorInv, Creating, ftruncate, store_pid, store_marker
  <2>2. /\ \A x \in Objs : x # fd[p] => obj'[x] = obj[x]
        /\ obj'[fd[p]].owner = p
        /\ obj[fd[p]].size # 0 => obj'[fd[p]].size = obj[fd[p]].size
    <3>1. CASE ftruncate(p)
        BY <1>0, <2>1, <3>1 DEF ftruncate, TypeOK, KernelTypeOK, Segment
    <3>2. CASE ~ftruncate(p) /\ store_pid(p)
        BY <1>0, <2>1, <3>2 DEF store_pid, TypeOK, KernelTypeOK, Segment
    <3>3. CASE ~ftruncate(p) /\ store_marker(p)
        BY <1>0, <2>1, <3>3 DEF store_marker, TypeOK, KernelTypeOK, Segment
    <3> QED BY <1>3, <3>1, <3>2, <3>3
  <2> QED BY <1>2, <2>1, <2>2
<1> QED BY <1>1, <1>3 DEF Writes

\* A process that starts takes a pid, one that ends gives it back.
LEMMA SpawnExitProcs ==
    ASSUME TypeOK, NEW p \in Procs, Spawn(p) \/ Exit(p)
    PROVE  ProcsKeep
<1>1. /\ \A q \in Procs : q # p => life'[q] = life[q] /\ pid'[q] = pid[q]
      /\ \/ Spawn(p) /\ life[p] = "unborn"
         \/ life[p] = "live" /\ life'[p] = "dead" /\ pid'[p] = pid[p]
    BY DEF TypeOK, KernelTypeOK, Spawn, Exit
<1>2. \A n : PidUsed(n)' => PidUsed(n) \/ \E r \in Procs : Spawn(r) /\ pid'[r] = n
    BY <1>1 DEF PidUsed
<1> QED BY <1>1, <1>2 DEF ProcsKeep

\* No step changes whose an object is, or a size once set, or what a dead
\* process left; no step gives a name to an object somebody had.
LEMMA SegmentFrame ==
    ASSUME SegmentsInv, [Next]_vars
    PROVE  ObjectsKeep /\ NamesKeep /\ ProcsKeep
<1>0. TypeOK
    BY DEF SegmentsInv, TypeInv
<1>1. ASSUME UNCHANGED <<obj, life, pid>>, DirShrinks
      PROVE  ObjectsKeep /\ NamesKeep /\ ProcsKeep
    BY <1>1 DEF ObjectsKeep, NamesKeep, ProcsKeep, PidUsed, DirShrinks
<1>2. CASE UNCHANGED vars
    BY <1>1, <1>2 DEF vars, DirShrinks
<1>3. ASSUME NEW p \in Procs, Spawn(p) \/ Exit(p)
      PROVE  ObjectsKeep /\ NamesKeep /\ ProcsKeep
  <2>1. UNCHANGED <<dir, obj>>
    BY <1>3 DEF Spawn, Exit
  <2> QED BY <1>0, <1>3, <2>1, SpawnExitProcs DEF ObjectsKeep, NamesKeep
<1>4. ASSUME NEW p \in Procs, Request(p) \/ Step(p), ~Writes(p)
      PROVE  ObjectsKeep /\ NamesKeep /\ ProcsKeep
    BY <1>0, <1>1, <1>4, OtherKernel
<1>5. ASSUME NEW p \in Procs, Writes(p)
      PROVE  ObjectsKeep /\ NamesKeep /\ ProcsKeep
  <2>1. UNCHANGED <<life, pid>> /\ (dir' = dir \/ shm_open_excl(p))
    BY <1>5 DEF Writes, shm_open_excl, ftruncate, store_pid, store_marker
  <2>2. NamesKeep
    BY <2>1, OpenExclNames DEF NamesKeep
  <2>3. ProcsKeep
    BY <2>1 DEF ProcsKeep, PidUsed
  <2> QED BY <1>5, <2>2, <2>3, WritesOwn
<1> QED BY <1>2, <1>3, <1>4, <1>5 DEF Next

-----------------------------------------------------------------------------
(* The variables a process holds. *)

\* The steps whose success the caller sees as a return of 0.
Acquires(p) == mmap_private(p) \/ store_marker(p) \/ fstat_mmap_ro(p)

\* A variable that is held after a step was held before and has not changed,
\* or the step has just filled it.
LEMMA HeldAfter ==
    ASSUME TypeInv, NEW p \in Procs, Spawn(p) \/ Exit(p) \/ Request(p) \/ Step(p),
           ~Acquires(p), NEW h \in held'[p]
    PROVE  h \in held[p] /\ m'[p][h] = m[p][h]
<1>0. TypeOK /\ CallInv(p)
    BY DEF TypeInv
<1> USE <1>0 DEF TypeOK, HandleTypeOK, handleVars
<1>1. CASE Spawn(p) \/ Exit(p)
    BY <1>1 DEF Spawn, Exit
<1>2. CASE Request(p)
    BY <1>2 DEF Request, av_shm_cleanup, av_shm_create_rw, av_shm_attach_ro, av_shm_free
<1>3. CASE shm_open_ro(p)
    BY <1>3 DEF shm_open_ro, AttachFails
<1>4. CASE shm_open_excl(p) \/ ftruncate(p) \/ mmap_rw(p)
  <2>1. call[p].h \in Handles \ held[p] /\ held' = held
    BY <1>4 DEF shm_open_excl, ftruncate, mmap_rw, CallInv, CreatePcs
  <2>2. \E s : SetNew(p, s)
    BY <1>4 DEF shm_open_excl, ftruncate, mmap_rw
  <2> QED BY <2>1, <2>2, SetNewValue
<1> QED BY <1>1, <1>2, <1>3, <1>4 DEF Step, Acquires, opendir, readdir, closedir,
        load_marker, load_pid, kill, unlink_stale, store_pid, create_fail

\* A variable that is held stays as it is until it is freed.
LEMMA HeldBefore ==
    ASSUME TypeInv, NEW p \in Procs, Spawn(p) \/ Request(p) \/ Step(p),
           NEW h \in held[p], ~av_shm_free(p, h)
    PROVE  h \in held'[p] /\ m'[p][h] = m[p][h]
<1>0. TypeOK /\ CallInv(p) /\ h \in Handles
    BY DEF TypeInv, TypeOK, HandleTypeOK
<1> USE <1>0 DEF TypeOK, HandleTypeOK, handleVars
<1>1. CASE Spawn(p)
    BY <1>1 DEF Spawn
<1>2. CASE Request(p)
    BY <1>2 DEF Request, av_shm_cleanup, av_shm_create_rw, av_shm_attach_ro, av_shm_free
<1>3. CASE shm_open_ro(p)
    BY <1>3 DEF shm_open_ro, AttachFails
<1>4. CASE fstat_mmap_ro(p)
  <2>1. call[p].op = "attach" => call[p].h \in Handles \ held[p]
    BY <1>4 DEF fstat_mmap_ro, CallInv
  <2>2. h \in held'[p]
    BY <1>4 DEF fstat_mmap_ro, AttachFails
  <2>3. m'[p][h] = m[p][h]
    BY <1>4, <2>1 DEF fstat_mmap_ro, SetTarget
  <2> QED BY <2>2, <2>3
<1>5. CASE mmap_private(p) \/ shm_open_excl(p) \/ ftruncate(p) \/ mmap_rw(p) \/ store_marker(p)
  <2>1. call[p].h \in Handles \ held[p]
    BY <1>5 DEF mmap_private, shm_open_excl, ftruncate, mmap_rw, store_marker, CallInv, CreatePcs
  <2>2. \E s : SetNew(p, s)
    BY <1>5 DEF mmap_private, shm_open_excl, ftruncate, mmap_rw, store_marker
  <2>3. h \in held'[p]
    BY <1>5 DEF mmap_private, shm_open_excl, ftruncate, mmap_rw, store_marker
  <2> QED BY <2>1, <2>2, <2>3, SetNewValue
<1> QED BY <1>1, <1>2, <1>3, <1>4, <1>5 DEF Step, opendir, readdir, closedir,
        load_marker, load_pid, kill, unlink_stale, store_pid, create_fail

\* A variable that a create or an attach has filled is sound.
SoundHandle(s) ==
    /\ s.ptr \notin {NULL, MAP_FAILED}
    /\ s.size > 0
    /\ s.ptr \in Objs => obj[s.ptr].size = s.size

\* A private area (shm.c:74) is no object.
LEMMA PrivateSound ==
    ASSUME SegmentsInv, NEW p \in Procs, mmap_private(p), NEW h \in held'[p]
    PROVE  (h \in held[p] /\ m'[p][h] = m[p][h]) \/ SoundHandle(m[p][h])'
<1>0. /\ TypeOK /\ HandleTypeOK /\ call[p].h \in Handles \ held[p] /\ New(p) \in AvShm
      /\ call[p].size \in Sizes /\ held[p] \subseteq Handles
    BY DEF SegmentsInv, TypeInv, TypeOK, HandleTypeOK, CallInv, CreatePcs, mmap_private, New
<1> DEFINE s == [New(p) EXCEPT !.id = 0, !.size = av_page_align(call[p].size)]
           t == [s EXCEPT !.ptr = ANON, !.do_unlink = FALSE, !.shared = FALSE]
<1>1. \/ SetNew(p, t) /\ held'[p] = held[p] \cup {call[p].h}
      \/ (\E u : SetNew(p, u)) /\ held'[p] = held[p]
    BY <1>0 DEF mmap_private, HandleTypeOK
<1>2. t.ptr = ANON /\ t.size = av_page_align(call[p].size)
    BY <1>0 DEF AvShm
<1>3. av_page_align(call[p].size) > 0
    BY <1>0, SegmentHolds
<1> HIDE DEF t
<1>4. CASE h # call[p].h
    BY <1>0, <1>1, <1>4, SetNewValue
<1>5. CASE h = call[p].h
  <2>1. m'[p][h] = t
    BY <1>0, <1>1, <1>5, SetNewValue
  <2> QED BY <1>2, <1>3, <2>1, SentinelAssumption DEF SoundHandle
<1> QED BY <1>4, <1>5

\* A segment that av_shm_create_rw returns (shm.c:110) has the size it got.
LEMMA CreatedSound ==
    ASSUME SegmentsInv, NEW p \in Procs, store_marker(p), NEW h \in held'[p]
    PROVE  (h \in held[p] /\ m'[p][h] = m[p][h]) \/ SoundHandle(m[p][h])'
<1>0. /\ TypeOK /\ HandleTypeOK /\ call[p].h \in Handles \ held[p] /\ New(p) \in AvShm
      /\ call[p].size \in Sizes /\ held[p] \subseteq Handles
    BY DEF SegmentsInv, TypeInv, TypeOK, HandleTypeOK, CallInv, CreatePcs, store_marker, New
<1>1. /\ New(p).ptr = fd[p] /\ fd[p] \in Objs
      /\ New(p).size = SegmentSize(call[p].size)
      /\ obj[fd[p]].size = SegmentSize(call[p].size)
    BY DEF SegmentsInv, TypeInv, CallInv, CreatorInv, Creating, store_marker
<1> DEFINE t == [New(p) EXCEPT !.do_unlink = TRUE, !.shared = OneBit(call[p].shared)]
<1>2. SetNew(p, t) /\ held'[p] = held[p] \cup {call[p].h}
    BY <1>0 DEF store_marker, HandleTypeOK
<1>3. t.ptr = fd[p] /\ t.size = SegmentSize(call[p].size)
    BY <1>0, <1>1 DEF AvShm
<1>4. obj'[fd[p]].size = obj[fd[p]].size
    BY <1>0, <1>1 DEF store_marker, TypeOK, KernelTypeOK, Segment
<1>5. SegmentSize(call[p].size) > 0
    BY <1>0, SegmentHolds
<1> HIDE DEF t
<1>6. CASE h # call[p].h
    BY <1>0, <1>2, <1>6, SetNewValue
<1>7. CASE h = call[p].h
  <2>1. m'[p][h] = t
    BY <1>0, <1>2, <1>7, SetNewValue
  <2> QED BY <1>1, <1>3, <1>4, <1>5, <2>1, SentinelAssumption DEF SoundHandle
<1> QED BY <1>6, <1>7

\* A segment that av_shm_attach_ro returns (shm.c:171) has the size that was
\* checked.
LEMMA AttachedSound ==
    ASSUME SegmentsInv, NEW p \in Procs, fstat_mmap_ro(p), NEW h \in held'[p]
    PROVE  (h \in held[p] /\ m'[p][h] = m[p][h]) \/ SoundHandle(m[p][h])'
<1>0. /\ TypeOK /\ HandleTypeOK /\ fd[p] \in Objs /\ held[p] \subseteq Handles /\ obj' = obj
    BY DEF SegmentsInv, TypeInv, TypeOK, HandleTypeOK, CallInv, fstat_mmap_ro, kernelVars
<1>1. CASE held'[p] = held[p]
  <2>1. call[p].op = "attach" => h # call[p].h
    BY <1>1 DEF SegmentsInv, TypeInv, CallInv, fstat_mmap_ro
  <2> QED BY <1>0, <1>1, <2>1 DEF fstat_mmap_ro, SetTarget, HandleTypeOK
<1>2. CASE held'[p] # held[p]
  <2> DEFINE t == Attached(Target(p), fd[p], obj[fd[p]].size)
  <2>1. /\ call[p].op = "attach" /\ SizeValid(obj[fd[p]].size)
        /\ held'[p] = held[p] \cup {call[p].h}
        /\ SetTarget(p, t)
    BY <1>0, <1>2 DEF fstat_mmap_ro, AttachFails, HandleTypeOK
  <2>2. call[p].h \in Handles \ held[p] /\ Target(p) \in AvShm
    BY <1>0, <2>1 DEF SegmentsInv, TypeInv, CallInv, fstat_mmap_ro, Target, HandleTypeOK
  <2>3. t.ptr = fd[p] /\ t.size = obj[fd[p]].size /\ t.size > 0
    BY <2>1, <2>2 DEF Attached, AvShm, SizeValid
  <2> HIDE DEF t
  <2>4. SetNew(p, t)
    BY <2>1 DEF SetTarget, SetNew
  <2>5. CASE h # call[p].h
    BY <1>0, <2>1, <2>2, <2>4, <2>5, SetNewValue
  <2>6. CASE h = call[p].h
    <3>1. m'[p][h] = t
        BY <1>0, <2>2, <2>4, <2>6, SetNewValue
    <3> QED BY <1>0, <2>3, <3>1, SentinelAssumption DEF SoundHandle
  <2> QED BY <2>5, <2>6
<1> QED BY <1>1, <1>2

\* Sound variables stay sound, and the ones that are filled are.
LEMMA HandlesStep ==
    ASSUME SegmentsInv, HandlesSound, [Next]_vars
    PROVE  HandlesSound'
<1> SUFFICES ASSUME NEW q \in Procs, NEW h \in held'[q] PROVE SoundHandle(m[q][h])'
    BY DEF HandlesSound, SoundHandle
<1>0. TypeInv /\ TypeOK /\ SegmentInv /\ ObjectsKeep
    BY SegmentFrame DEF SegmentsInv, TypeInv
<1>1. ASSUME h \in held[q], m'[q][h] = m[q][h] PROVE SoundHandle(m[q][h])'
  <2>1. SoundHandle(m[q][h])
    BY <1>1 DEF HandlesSound, SoundHandle
  <2>2. m[q][h].ptr \in Objs => obj'[m[q][h].ptr].size = obj[m[q][h].ptr].size
    <3>1. m[q][h].ptr \in Objs =>
            obj[m[q][h].ptr].size # 0 /\ obj[m[q][h].ptr].owner # NULL
        BY <1>0, <2>1 DEF SoundHandle, SegmentInv
    <3> QED BY <1>0, <3>1 DEF ObjectsKeep
  <2> QED BY <1>1, <2>1, <2>2 DEF SoundHandle
<1>2. CASE UNCHANGED vars
    BY <1>1, <1>2 DEF vars
<1>3. ASSUME NEW p \in Procs, Spawn(p) \/ Exit(p) \/ Request(p) \/ Step(p)
      PROVE  SoundHandle(m[q][h])'
  <2>1. CASE q # p
    <3>1. Local(q)
        BY <1>0, <1>3, <2>1, OthersKeep
    <3> QED BY <1>1, <3>1 DEF Local
  <2>2. CASE q = p /\ Acquires(p)
    <3>1. (h \in held[q] /\ m'[q][h] = m[q][h]) \/ SoundHandle(m[q][h])'
        BY <2>2, PrivateSound, CreatedSound, AttachedSound DEF Acquires
    <3> QED BY <1>1, <3>1
  <2>3. CASE q = p /\ ~Acquires(p)
    <3>1. h \in held[q] /\ m'[q][h] = m[q][h]
        BY <1>0, <1>3, <2>3, HeldAfter
    <3> QED BY <1>1, <3>1
  <2> QED BY <2>1, <2>2, <2>3
<1> QED BY <1>2, <1>3 DEF Next

\* A variable that a caller holds has a mapping and the size of what it maps
\* (the asserts of av_shm_free, shm.c:181-185), for every set of processes and
\* sizes and whatever ids are drawn.
THEOREM SoundHandles == Spec => []HandlesSound
<1>1. Init => HandlesSound
    BY DEF Init, HandlesSound
<1> QED BY <1>1, HandlesStep, SegmentsInvariant, PTL DEF Spec

-----------------------------------------------------------------------------
(* The names of a live process. *)

\* p can remove the name i of its object o: through the failure path of the
\* creation it is in, or through a variable it holds.
Removable(p, o, i) ==
    \/ Creating(p) /\ fd[p] = o /\ New(p).id = i
    \/ \E h \in Unlinkers(p) : m[p][h].ptr = o /\ m[p][h].id = i

\* The steps of a creation keep hold of its name, until create_fail (shm.c:122)
\* removes it or the variable that av_shm_create_rw returns has it.
LEMMA CreationKeeps ==
    ASSUME SharedFits, SegmentsInv, NEW p \in Procs, Request(p) \/ Step(p),
           NEW o \in Objs, NEW i \in Ids, dir'[i] = o,
           Creating(p), fd[p] = o, New(p).id = i
    PROVE  Removable(p, o, i)'
<1>0. /\ TypeOK /\ HandleTypeOK /\ KernelTypeOK /\ CallTypeOK
      /\ call[p].h \in Handles \ held[p] /\ New(p) \in AvShm
      /\ call[p].shared \in SharedArgs /\ call[p].shared # 0
    BY DEF SegmentsInv, TypeInv, TypeOK, HandleTypeOK, CallInv, Creating, CreatePcs, New
<1>1. CASE ftruncate(p)
  <2>1. /\ call' = call /\ fd' = fd /\ pc'[p] \in {"mmap", "fail"}
        /\ SetNew(p, [New(p) EXCEPT !.size = SegmentSize(call[p].size)])
    BY <1>0, <1>1 DEF ftruncate, Goto, CallTypeOK
  <2>2. New(p)' = [New(p) EXCEPT !.size = SegmentSize(call[p].size)]
    BY <1>0, <2>1, SetNewValue DEF New
  <2>3. New(p)'.id = i
    BY <1>0, <2>2 DEF AvShm
  <2> QED BY <2>1, <2>3 DEF Removable, Creating
<1>2. CASE mmap_rw(p)
  <2>1. /\ call' = call /\ fd' = fd /\ pc'[p] \in {"store_pid", "fail"}
        /\ \/ SetNew(p, [New(p) EXCEPT !.ptr = fd[p]])
           \/ SetNew(p, [New(p) EXCEPT !.ptr = MAP_FAILED])
    BY <1>0, <1>2 DEF mmap_rw, Goto, CallTypeOK
  <2>2. \/ New(p)' = [New(p) EXCEPT !.ptr = fd[p]]
        \/ New(p)' = [New(p) EXCEPT !.ptr = MAP_FAILED]
    BY <1>0, <2>1, SetNewValue DEF New
  <2>3. New(p)'.id = i
    BY <1>0, <2>2 DEF AvShm
  <2> QED BY <2>1, <2>3 DEF Removable, Creating
<1>3. CASE store_pid(p)
    BY <1>0, <1>3 DEF store_pid, Goto, CallTypeOK, handleVars, Removable, Creating, New
<1>4. CASE store_marker(p)
  <2> DEFINE t == [New(p) EXCEPT !.do_unlink = TRUE, !.shared = OneBit(call[p].shared)]
  <2>1. SetNew(p, t) /\ call[p].h \in held'[p]
    BY <1>0, <1>4 DEF store_marker, HandleTypeOK
  <2>2. New(p).ptr = o
    BY <1>4 DEF SegmentsInv, TypeInv, CallInv, store_marker
  <2>3. OneBit(call[p].shared) = TRUE
    BY <1>0 DEF SharedFits, OneBit
  <2>4. t.ptr = o /\ t.id = i /\ t.do_unlink = TRUE /\ t.shared = TRUE
    BY <1>0, <2>2, <2>3 DEF AvShm
  <2> HIDE DEF t
  <2>5. m'[p][call[p].h] = t
    BY <1>0, <2>1, SetNewValue
  <2> QED BY <2>1, <2>4, <2>5 DEF Removable, Unlinkers
<1>5. CASE create_fail(p)
    BY <1>0, <1>5, SentinelAssumption DEF create_fail, shm_unlink, KernelTypeOK
<1> QED BY <1>1, <1>2, <1>3, <1>4, <1>5 DEF Creating, Request, Step, MayCall, av_shm_cleanup,
        av_shm_create_rw, av_shm_attach_ro, av_shm_free, opendir, readdir, closedir,
        shm_open_ro, fstat_mmap_ro, load_marker, load_pid, kill, unlink_stale,
        mmap_private, shm_open_excl

\* A variable keeps hold of its name until av_shm_free (shm.c:200) removes it.
LEMMA VariableKeeps ==
    ASSUME SegmentsInv, NEW p \in Procs, Spawn(p) \/ Request(p) \/ Step(p),
           NEW o \in Objs, NEW i \in Ids, dir'[i] = o,
           NEW h \in Unlinkers(p), m[p][h].ptr = o, m[p][h].id = i
    PROVE  Removable(p, o, i)'
<1>0. TypeInv /\ KernelTypeOK /\ h \in held[p]
    BY DEF SegmentsInv, TypeInv, TypeOK, Unlinkers
<1>1. ~av_shm_free(p, h)
    BY <1>0, SentinelAssumption DEF av_shm_free, FreeEffect, shm_unlink, Unlinkers, KernelTypeOK
<1>2. h \in held'[p] /\ m'[p][h] = m[p][h]
    BY <1>0, <1>1, HeldBefore
<1> QED BY <1>2 DEF Removable, Unlinkers

\* A name that a step leaves in place stays removable by its owner, if it lives.
LEMMA RemovableKeeps ==
    ASSUME SharedFits, SegmentsInv, [Next]_vars,
           NEW o \in Objs, NEW p \in Procs, NEW i \in Ids, dir'[i] = o,
           life[p] = "live", life'[p] = "live", Removable(p, o, i)
    PROVE  Removable(p, o, i)'
<1>0. TypeOK /\ KernelTypeOK
    BY DEF SegmentsInv, TypeInv, TypeOK
<1>1. ASSUME Local(p) PROVE Removable(p, o, i)'
    BY <1>1 DEF Removable, Local, Creating, New, Unlinkers
<1>2. ASSUME NEW q \in Procs, Spawn(q) \/ Exit(q) \/ Request(q) \/ Step(q)
      PROVE  Removable(p, o, i)'
  <2>1. CASE p # q
    BY <1>0, <1>1, <1>2, <2>1, OthersKeep
  <2>2. CASE p = q
    <3>1. Request(p) \/ Step(p)
        BY <1>0, <1>2, <2>2 DEF Spawn, Exit, KernelTypeOK
    <3>2. CASE Creating(p) /\ fd[p] = o /\ New(p).id = i
        BY <3>1, <3>2, CreationKeeps
    <3> QED BY <3>1, <3>2, VariableKeeps DEF Removable
  <2> QED BY <2>1, <2>2
<1>3. CASE UNCHANGED vars
  <2>1. Local(p)
    BY <1>3 DEF vars, Local
  <2> QED BY <1>1, <2>1
<1> QED BY <1>2, <1>3 DEF Next

\* A step leaves the names of the live processes removable.
LEMMA RemovableStep ==
    ASSUME SharedFits, SegmentsInv, NamesAreHeld, [Next]_vars
    PROVE  NamesAreHeld'
<1> SUFFICES ASSUME NEW i \in Ids, NEW o, o = dir'[i], o # NULL,
                    NEW p, p = obj'[o].owner, life'[p] = "live"
             PROVE  Removable(p, o, i)'
    BY DEF NamesAreHeld, Removable
<1>0. /\ TypeOK /\ KernelTypeOK /\ SegmentInv
      /\ ObjectsKeep /\ NamesKeep /\ ProcsKeep
    BY SegmentFrame DEF SegmentsInv, TypeInv, TypeOK
<1>1. CASE o # dir[i]
    BY <1>0, <1>1 DEF NamesKeep, Removable, Creating
<1>2. CASE o = dir[i]
  <2>1. o \in Objs /\ obj[o].owner = p /\ p \in Procs /\ life[p] # "unborn"
    BY <1>0, <1>2 DEF KernelTypeOK, Segment, SegmentInv, ObjectsKeep
  <2>2. life[p] = "live"
    BY <1>0, <2>1 DEF KernelTypeOK, ProcsKeep
  <2>3. Removable(p, o, i)
    BY <1>2, <2>1, <2>2 DEF NamesAreHeld, Removable
  <2> QED BY <2>1, <2>2, <2>3, RemovableKeeps
<1> QED BY <1>1, <1>2

\* No leak while the owner lives (tests/shm.test): every name of a live process
\* is one that process can still remove. Only a "shared" that the one-bit field
\* (shm.h:18) would lose has to be ruled out.
THEOREM NamesHeld ==
    ASSUME SharedFits
    PROVE  Spec => []NamesAreHeld
<1>1. Init => NamesAreHeld
    BY DEF Init, NamesAreHeld
<1>2. SegmentsInv /\ NamesAreHeld /\ [Next]_vars => NamesAreHeld'
    BY RemovableStep
<1> QED BY <1>1, <1>2, SegmentsInvariant, PTL DEF Spec

-----------------------------------------------------------------------------
(* The segments of the dead. *)

\* A cleanup decides what it has to remove when it opens the directory; after
\* that the set only shrinks, by the pids that come back among others.
LEMMA StaleShrinks ==
    ASSUME TypeOK, [Next]_vars, NEW q \in Procs, ~opendir(q)
    PROVE  /\ stale'[q] \subseteq stale[q]
           /\ \A r \in Procs : Spawn(r) =>
                \A o \in stale'[q] : pid[obj[o].owner] # pid'[r]
<1>1. \A r \in Procs : Spawn(r) => \A o \in stale'[q] : pid[obj[o].owner] # pid'[r]
    BY DEF Spawn, TypeOK, KernelTypeOK
<1> SUFFICES stale'[q] \subseteq stale[q]
    BY <1>1
<1>2. ASSUME NEW p \in Procs, p # q, Spawn(p) \/ Exit(p) \/ Request(p) \/ Step(p)
      PROVE  stale'[q] \subseteq stale[q]
    BY <1>2, OthersKeep
<1>3. CASE UNCHANGED vars \/ Request(q)
    BY <1>3 DEF vars, Request, av_shm_cleanup, av_shm_create_rw, av_shm_attach_ro, av_shm_free
<1>4. CASE Spawn(q) \/ Exit(q)
    BY <1>4 DEF Spawn, Exit, TypeOK, RecordTypeOK
<1>5. CASE shm_open_ro(q) \/ fstat_mmap_ro(q) \/ unlink_stale(q)
  <2>1. UNCHANGED stale \/ Excused(q)
    BY <1>5 DEF shm_open_ro, fstat_mmap_ro, unlink_stale
  <2> QED BY <2>1 DEF Excused, TypeOK, RecordTypeOK
<1>6. CASE Step(q) /\ ~(shm_open_ro(q) \/ fstat_mmap_ro(q) \/ unlink_stale(q))
  <2>1. UNCHANGED stale
    BY <1>6 DEF Step, readdir, closedir, load_marker, load_pid, kill, mmap_private,
        shm_open_excl, ftruncate, mmap_rw, store_pid, store_marker, create_fail
  <2> QED BY <2>1
<1> QED BY <1>2, <1>3, <1>4, <1>5, <1>6 DEF Next, Step

\* Nor are objects added to those that readdir may return.
LEMMA TodoShrinks ==
    ASSUME TypeOK, [Next]_vars, NEW q \in Procs, ~opendir(q)
    PROVE  todo'[q] \subseteq todo[q]
<1>1. ASSUME NEW p \in Procs, p # q, Spawn(p) \/ Exit(p) \/ Request(p) \/ Step(p)
      PROVE  todo'[q] \subseteq todo[q]
    BY <1>1, OthersKeep
<1>2. CASE UNCHANGED vars \/ Request(q) \/ Spawn(q)
    BY <1>2 DEF vars, Spawn, Request, av_shm_cleanup, av_shm_create_rw, av_shm_attach_ro,
        av_shm_free, scanVars
<1>3. CASE Exit(q) \/ readdir(q) \/ closedir(q)
    BY <1>3 DEF Exit, readdir, closedir, TypeOK, ScanTypeOK
<1>4. CASE Step(q) /\ ~readdir(q) /\ ~closedir(q)
  <2>1. UNCHANGED todo
    BY <1>4 DEF Step, shm_open_ro, fstat_mmap_ro, load_marker, load_pid, kill, unlink_stale,
        mmap_private, shm_open_excl, ftruncate, mmap_rw, store_pid, store_marker, create_fail,
        scanVars
  <2> QED BY <2>1
<1> QED BY <1>1, <1>2, <1>3, <1>4 DEF Next

\* What a cleanup is to remove, it may remove: nobody takes over the segments
\* of the dead, nor do the dead come back.
Removables(q) ==
    \A o \in stale[q] : /\ obj[o].owner # NULL
                        /\ life[obj[o].owner] = "dead"
                        /\ ~PidUsed(pid[obj[o].owner])

\* The first part of StaleInv is preserved.
LEMMA RemovablesStep ==
    ASSUME SegmentsInv, [Next]_vars, NEW q \in Procs, Removables(q)
    PROVE  Removables(q)'
<1>0. /\ TypeOK /\ KernelTypeOK /\ SegmentInv /\ stale[q] \subseteq Objs
      /\ ObjectsKeep /\ ProcsKeep
    BY SegmentFrame DEF SegmentsInv, TypeInv, TypeOK, RecordTypeOK
<1>1. CASE opendir(q)
  <2>1. UNCHANGED <<dir, obj, life, pid>> /\ (stale'[q] = Stale \/ stale'[q] = {})
    BY <1>0, <1>1 DEF opendir, kernelVars, TypeOK, RecordTypeOK
  <2>2. \A o \in Stale : /\ obj[o].owner # NULL
                         /\ life[obj[o].owner] = "dead"
                         /\ ~PidUsed(pid[obj[o].owner])
    BY <1>0, SentinelAssumption DEF Stale, SegmentInv
  <2> QED BY <2>1, <2>2 DEF Removables, PidUsed
<1>2. CASE ~opendir(q)
  <2> SUFFICES ASSUME NEW o \in stale'[q]
               PROVE  /\ obj'[o].owner # NULL /\ life'[obj'[o].owner] = "dead"
                      /\ ~PidUsed(pid[obj[o].owner])'
    BY DEF Removables
  <2>1. /\ o \in stale[q] /\ o \in Objs
        /\ \A r \in Procs : Spawn(r) => pid[obj[o].owner] # pid'[r]
    BY <1>0, <1>2, StaleShrinks
  <2>2. /\ obj[o].owner # NULL /\ life[obj[o].owner] = "dead"
        /\ ~PidUsed(pid[obj[o].owner]) /\ obj[o].owner \in Procs
    BY <1>0, <2>1 DEF Removables, KernelTypeOK, Segment
  <2>3. obj'[o] = obj[o] /\ life'[obj[o].owner] = "dead" /\ pid'[obj[o].owner] = pid[obj[o].owner]
    BY <1>0, <2>1, <2>2 DEF ObjectsKeep, ProcsKeep
  <2>4. PICK n : n = pid[obj[o].owner] /\ n = pid'[obj'[o].owner]
    BY <2>3
  <2>5. ~PidUsed(n)'
    BY <1>0, <2>1, <2>2, <2>4 DEF ProcsKeep
  <2> QED BY <2>2, <2>3, <2>4, <2>5 DEF PidUsed
<1> QED BY <1>1, <1>2

\* The name i of o is one the cleanup of q is to remove, and what q can read
\* there is in order.
Condemned(q, o, i) ==
    /\ dir[i] = o /\ o \in Objs \ todo[q]
    /\ obj[o].marker = TRUE /\ obj[o].pid # 0 /\ ~PidUsed(obj[o].pid)
    /\ SizeValid(obj[o].size) /\ obj[o].size >= SHM_MARKER_SIZE
    /\ obj[o].base = MarkerOffset(obj[o].size)
    /\ Pending(q, i)

\* An entry is pending only while the directory is walked.
LEMMA PendingPlace ==
    ASSUME TypeInv, NEW q \in Procs, NEW i \in Ids, Pending(q, i)
    PROVE  /\ InScan(q) /\ call[q].op # "attach"
           /\ pc[q] \in ScanPcs \cup AttachPcs
           /\ pc[q] = "readdir" => i \in must[q]
BY DEF Pending, InScan, TypeInv, CallInv, ScanPcs, AttachPcs

\* The next entry (shm.c:217) is one of the pending, which all stay pending.
LEMMA PendingReaddir ==
    ASSUME TypeInv, NEW q \in Procs, NEW i \in Ids, Pending(q, i), readdir(q)
    PROVE  Pending(q, i)'
<1>1. i \in must[q] /\ call[q].op # "attach" /\ call' = call
    BY PendingPlace DEF readdir
<1>2. \E j \in Ids : ent'[q] = j /\ must[q] \ {j} \subseteq must'[q]
    BY DEF readdir, TypeInv, TypeOK, CallTypeOK, ScanTypeOK
<1>3. pc'[q] = "shm_open"
    BY DEF readdir, Goto, TypeInv, TypeOK, CallTypeOK
<1> QED BY <1>1, <1>2, <1>3 DEF Pending, InScan, AttachPcs

\* The walk ends only after every entry of its beginning that is still there.
LEMMA PendingClosedir ==
    ASSUME TypeInv, NEW q \in Procs, NEW i \in Ids, Pending(q, i),
           dir[i] # NULL, dir[i] \notin todo[q]
    PROVE  ~closedir(q)
BY PendingPlace DEF closedir

\* The steps on an entry.
OnEntry(q) ==
    \/ shm_open_ro(q) \/ fstat_mmap_ro(q) \/ load_marker(q) \/ load_pid(q)
    \/ kill(q) \/ unlink_stale(q)

\* The steps on an entry leave the other entries pending.
LEMMA PendingOthers ==
    ASSUME TypeInv, NEW q \in Procs, NEW i \in Ids, InScan(q), call[q].op # "attach",
           i \in must[q], OnEntry(q)
    PROVE  Pending(q, i)'
<1> USE DEF TypeInv, TypeOK, CallTypeOK, ScanTypeOK, Goto
<1>1. must' = must
    BY DEF OnEntry, shm_open_ro, fstat_mmap_ro, load_marker, load_pid, kill, unlink_stale,
        scanVars
<1>2. call' = call
    BY DEF OnEntry, shm_open_ro, fstat_mmap_ro, load_marker, load_pid, kill, unlink_stale,
        AttachFails
<1>3. pc'[q] \in {"readdir", "fstat", "marker", "pid", "kill", "unlink"}
    BY DEF OnEntry, shm_open_ro, fstat_mmap_ro, load_marker, load_pid, kill, unlink_stale,
        AttachFails, FreeSegAndGoto
<1> QED BY <1>1, <1>2, <1>3 DEF Pending, InScan, ScanPcs, AttachPcs

\* The condemned entry that q looks at goes through the checks of
\* av_shm_cleanup (shm.c:230-260) and loses its name, unless a call fails.
LEMMA PendingEntry ==
    ASSUME TypeInv, NEW q \in Procs, NEW i \in Ids, NEW o, Condemned(q, o, i),
           call[q].op # "attach", i \notin must[q], OnEntry(q),
           dir'[i] = o, obj'[o] = obj[o], o \in stale'[q]
    PROVE  Pending(q, i)'
<1> USE DEF TypeInv, TypeOK, CallTypeOK, ScanTypeOK, RecordTypeOK, KernelTypeOK, Goto
<1>0. o # NULL /\ dir[i] = o /\ o \in Objs /\ ent[q] = i
    BY SentinelAssumption DEF Condemned, Pending
<1>1. ~Excused(q)
    BY <1>0 DEF Excused
<1>2. CASE shm_open_ro(q)
    BY <1>0, <1>1, <1>2 DEF shm_open_ro, Pending
<1>3. CASE fstat_mmap_ro(q)
  <2>1. fd[q] = o /\ SizeValid(obj[o].size)
    BY <1>3 DEF fstat_mmap_ro, Condemned, Pending
  <2>2. /\ seg' = [seg EXCEPT ![q] = Attached(seg[q], o, obj[o].size)]
        /\ pc'[q] = "marker" /\ ent' = ent
    BY <1>1, <1>3, <2>1 DEF fstat_mmap_ro, SetTarget, Target
  <2>3. seg'[q].ptr = o /\ seg'[q].size = obj[o].size
    BY <2>2 DEF Attached, AvShm
  <2> QED BY <1>0, <2>2, <2>3 DEF Pending
<1>4. CASE load_marker(q) \/ load_pid(q)
  <2>1. /\ seg[q].ptr = o /\ seg[q].size = obj[o].size /\ obj[o].marker = TRUE
        /\ obj[o].size >= SHM_MARKER_SIZE /\ obj[o].pid # 0
        /\ obj[o].base = MarkerOffset(obj[o].size)
    BY <1>0, <1>4 DEF load_marker, load_pid, Condemned, Pending
  <2>2. CASE load_marker(q)
    BY <1>0, <2>1, <2>2 DEF load_marker, Load, Pending
  <2>3. CASE load_pid(q)
    BY <1>0, <2>1, <2>3 DEF load_pid, Load, Pending
  <2> QED BY <1>4, <2>2, <2>3
<1>5. CASE kill(q)
  <2>1. rpid[q] = obj[o].pid /\ ~Alive(rpid[q])
    BY <1>0, <1>5 DEF kill, Condemned, Pending, Alive
  <2> QED BY <1>0, <1>5, <2>1 DEF kill, FreeSegAndGoto, Pending
<1>6. CASE unlink_stale(q)
    BY <1>0, <1>1, <1>6 DEF unlink_stale, shm_unlink
<1> QED BY <1>2, <1>3, <1>4, <1>5, <1>6 DEF OnEntry

\* No step passes a condemned name by.
LEMMA PendingStep ==
    ASSUME SegmentsInv, [Next]_vars, NEW q \in Procs, ~opendir(q),
           NEW i \in Ids, NEW o, Condemned(q, o, i),
           dir'[i] = o, obj'[o] = obj[o], o \in stale'[q]
    PROVE  Pending(q, i)'
<1>0. /\ TypeInv /\ TypeOK /\ dir[i] = o /\ o # NULL /\ o \notin todo[q] /\ Pending(q, i)
      /\ pc[q] \in ScanPcs \cup AttachPcs /\ InScan(q) /\ call[q].op # "attach"
    BY SentinelAssumption, PendingPlace DEF SegmentsInv, TypeInv, Condemned
<1>1. ASSUME Local(q), must'[q] = must[q] PROVE Pending(q, i)'
    BY <1>0, <1>1 DEF Local, Pending, InScan
<1>2. ASSUME NEW p \in Procs, p # q, Spawn(p) \/ Exit(p) \/ Request(p) \/ Step(p)
      PROVE  Pending(q, i)'
    BY <1>0, <1>1, <1>2, OthersKeep
<1>3. CASE UNCHANGED vars \/ Spawn(q)
  <2>1. Local(q) /\ must'[q] = must[q]
    BY <1>3 DEF vars, Spawn, handleVars, scanVars, Local
  <2> QED BY <1>1, <2>1
<1>4. ~Exit(q) /\ ~Request(q)
  <2>1. ~Exit(q)
    BY <1>0 DEF Exit, TypeOK, RecordTypeOK
  <2>2. ~Request(q)
    BY <1>0 DEF Request, MayCall, av_shm_cleanup, av_shm_create_rw, av_shm_attach_ro,
        av_shm_free, ScanPcs, AttachPcs
  <2> QED BY <2>1, <2>2
<1>5. CASE Step(q)
  <2>1. readdir(q) \/ OnEntry(q)
    <3>1. ~closedir(q)
        BY <1>0, PendingClosedir
    <3> QED BY <1>0, <1>5, <3>1 DEF Step, OnEntry, mmap_private, shm_open_excl, ftruncate,
            mmap_rw, store_pid, store_marker, create_fail, ScanPcs, AttachPcs
  <2>2. CASE readdir(q)
    BY <1>0, <2>2, PendingReaddir
  <2>3. CASE OnEntry(q)
    BY <1>0, <2>3, PendingOthers, PendingEntry
  <2> QED BY <2>1, <2>2, <2>3
<1> QED BY <1>2, <1>3, <1>4, <1>5 DEF Next

\* What a marked segment of a dead process says is true, so a cleanup that
\* looks at it finds nobody with its pid.
LEMMA StaleCondemned ==
    ASSUME SegmentsInv, NEW q \in Procs, StaleInv(q), NEW i \in Ids, NEW o \in stale[q],
           dir[i] = o, obj[o].marker
    PROVE  Condemned(q, o, i)
<1>0. /\ SegmentInv /\ o \in Objs /\ obj[o].owner \in Procs
      /\ obj[o].marker \in BOOLEAN /\ Pending(q, i)
      /\ ~PidUsed(pid[obj[o].owner]) /\ life[obj[o].owner] = "dead" /\ o \notin todo[q]
  <2>1. SegmentInv /\ o \in Objs /\ obj[o] \in Segment
    BY DEF SegmentsInv, TypeInv, TypeOK, RecordTypeOK, KernelTypeOK
  <2>2. /\ obj[o].owner # NULL /\ Pending(q, i)
        /\ ~PidUsed(pid[obj[o].owner]) /\ life[obj[o].owner] = "dead" /\ o \notin todo[q]
    BY DEF StaleInv
  <2> QED BY <2>1, <2>2 DEF Segment
<1>1. /\ obj[o].pid = pid[obj[o].owner]
      /\ SizeValid(obj[o].size) /\ obj[o].size >= SHM_MARKER_SIZE
      /\ obj[o].base = MarkerOffset(obj[o].size)
    BY <1>0 DEF SegmentInv
<1>2. obj[o].pid # 0
    BY <1>0, <1>1 DEF SegmentInv
<1>3. obj[o].marker = TRUE
    BY <1>0
<1> QED BY <1>0, <1>1, <1>2, <1>3 DEF Condemned

\* StaleInv is preserved by every step.
LEMMA StaleStep ==
    ASSUME SegmentsInv, [Next]_vars, NEW q \in Procs, StaleInv(q)
    PROVE  StaleInv(q)'
<1>0. /\ TypeOK /\ SegmentInv /\ ObjectsKeep /\ NamesKeep /\ Removables(q)
      /\ KernelTypeOK /\ stale[q] \subseteq Objs
    BY SegmentFrame DEF SegmentsInv, TypeInv, TypeOK, RecordTypeOK, StaleInv, Removables
<1>1. Removables(q)'
    BY <1>0, RemovablesStep
<1>2. ASSUME NEW i \in Ids, NEW o, o = dir'[i], o \in stale'[q], obj'[o].marker
      PROVE  Pending(q, i)'
  <2>1. CASE opendir(q)
    <3>1. /\ UNCHANGED dir /\ stale'[q] # {}
          /\ (stale'[q] = {} \/ (must'[q] = Named /\ pc'[q] = "readdir"))
        BY <1>0, <1>2, <2>1
        DEF opendir, kernelVars, Goto, TypeOK, RecordTypeOK, CallTypeOK, ScanTypeOK
    <3>2. i \in Named
      <4>1. o \in stale'[q] => o # NULL
        BY <1>0, <2>1, SentinelAssumption DEF opendir, Stale, TypeOK, RecordTypeOK
      <4> QED BY <1>2, <3>1, <4>1 DEF Named
    <3> QED BY <3>1, <3>2 DEF Pending, InScan, ScanPcs
  <2>2. CASE ~opendir(q)
    <3>1. o \in stale[q] /\ o \in Objs /\ o # NULL
        BY <1>0, <1>2, <2>2, StaleShrinks, SentinelAssumption
    <3>2. obj[o].owner # NULL /\ obj'[o] = obj[o]
        BY <1>0, <3>1 DEF Removables, ObjectsKeep
    <3>3. dir[i] = o
        BY <1>0, <1>2, <3>1, <3>2 DEF NamesKeep
    <3>4. Condemned(q, o, i)
        BY <1>2, <3>1, <3>2, <3>3, StaleCondemned
    <3> QED BY <1>2, <2>2, <3>2, <3>4, PendingStep
  <2> QED BY <2>1, <2>2
<1>3. (stale[q] \cap todo[q] = {})'
  <2>1. CASE opendir(q)
    <3>1. UNCHANGED obj /\ (stale'[q] = {} \/ todo'[q] = {o \in Objs : obj[o].owner = NULL})
        BY <1>0, <2>1 DEF opendir, kernelVars, TypeOK, RecordTypeOK, ScanTypeOK
    <3> QED BY <1>1, <3>1 DEF Removables
  <2>2. CASE ~opendir(q)
    BY <1>0, <2>2, StaleShrinks, TodoShrinks DEF StaleInv
  <2> QED BY <2>1, <2>2
<1> QED BY <1>1, <1>2, <1>3 DEF StaleInv, Removables

\* The cleanup of av_shm_cleanup (shm.c:208-268) misses nothing it should see:
\* when it is over, no marked segment is left whose owner was dead when it
\* began, however many cleanups, creations and exits ran meanwhile, and also if
\* ids are drawn twice; only a failed system call or a pid that is in use again
\* excuses a segment.
THEOREM MarkedDropped == Spec => []StaleDropped
<1> DEFINE Inv == \A q \in Procs : StaleInv(q)
<1>1. Init => Inv
    BY SentinelAssumption DEF Init, StaleInv
<1>2. SegmentsInv /\ Inv /\ [Next]_vars => Inv'
    BY StaleStep
<1>3. SegmentsInv /\ Inv => StaleDropped
  <2> SUFFICES ASSUME SegmentsInv, Inv, NEW q \in Procs, ~InScan(q), NEW i \in Ids,
                      dir[i] \in stale[q], obj[dir[i]].marker
               PROVE  FALSE
    BY DEF StaleDropped
  <2>1. Pending(q, i)
    BY DEF StaleInv
  <2> QED BY <2>1, PendingPlace DEF SegmentsInv
<1> HIDE DEF Inv
<1> QED BY <1>1, <1>2, <1>3, SegmentsInvariant, PTL DEF Spec

-----------------------------------------------------------------------------
(* The registry. *)

ClaimMap == [p \in Procs |-> Claims(p)]

\* The claims of a process depend on its variables and its place only.
LEMMA ClaimsEq ==
    ASSUME NEW p \in Procs, Unlinkers(p)' = Unlinkers(p),
           \A h \in Unlinkers(p) : m'[p][h].id = m[p][h].id,
           Creating(p)' <=> Creating(p),
           Creating(p) => New(p)'.id = New(p).id
    PROVE  Claims(p)' = Claims(p)
BY DEF Claims

\* A step of p does not touch the locals of q.
LEMMA OthersLocal ==
    ASSUME NamesInv, NEW p \in Procs, Exit(p) \/ Request(p) \/ Step(p),
           NEW q \in Procs, q # p
    PROVE  Claims(q)' = Claims(q)
<1>0. TypeOK
    BY DEF NamesInv, TypeInv
<1>1. pc'[q] = pc[q] /\ call'[q] = call[q] /\ held'[q] = held[q] /\ m'[q] = m[q]
  <2> USE <1>0 DEF TypeOK, CallTypeOK, HandleTypeOK, Return, Goto, handleVars
  <2>1. CASE Exit(p)
    BY <2>1 DEF Exit
  <2>2. CASE Request(p)
    BY <2>2 DEF Request, av_shm_cleanup, av_shm_create_rw, av_shm_attach_ro,
        av_shm_free, Calling
  <2>3. CASE opendir(p) \/ readdir(p) \/ closedir(p)
    BY <2>3 DEF opendir, readdir, closedir, CleanupReturns
  <2>4. CASE shm_open_ro(p) \/ fstat_mmap_ro(p)
    BY <2>4 DEF shm_open_ro, fstat_mmap_ro, AttachFails, SetTarget
  <2>5. CASE load_marker(p) \/ load_pid(p) \/ kill(p) \/ unlink_stale(p)
    BY <2>5 DEF load_marker, load_pid, kill, unlink_stale, FreeSegAndGoto
  <2>6. CASE mmap_private(p) \/ shm_open_excl(p)
    BY <2>6 DEF mmap_private, shm_open_excl, SetNew
  <2>7. CASE ftruncate(p) \/ mmap_rw(p)
    BY <2>7 DEF ftruncate, mmap_rw, SetNew
  <2>8. CASE store_pid(p) \/ store_marker(p) \/ create_fail(p)
    BY <2>8 DEF store_pid, store_marker, create_fail, SetNew
  <2> QED BY <2>1, <2>2, <2>3, <2>4, <2>5, <2>6, <2>7, <2>8 DEF Step
<1> QED BY <1>1 DEF Claims, Unlinkers, Creating, New

\* A name that is given to an object changes the directory.
LEMMA ClosedName ==
    ASSUME TypeOK, NEW id \in Ids, NEW o \in Objs, dir[id] = NULL,
           dir' = [dir EXCEPT ![id] = o]
    PROVE  dir' # dir
<1>1. dir'[id] = o /\ o # NULL
    BY SentinelAssumption DEF TypeOK, KernelTypeOK
<1> QED BY <1>1

\* The steps of a call that the registry does not see.
LEMMA OwnClaims ==
    ASSUME NamesInv, SharedFits, NEW p \in Procs,
           \/ Step(p) /\ ~create_fail(p) /\ ~(shm_open_excl(p) /\ dir' # dir)
           \/ Request(p) /\ \A h \in Unlinkers(p) : ~av_shm_free(p, h)
    PROVE  Claims(p)' = Claims(p)
<1>0. TypeOK /\ CallInv(p)
    BY DEF NamesInv, TypeInv
<1>a. held[p] \subseteq Handles
    BY <1>0 DEF TypeOK, HandleTypeOK
<1>1. ASSUME m' = m, held' = held, ~Creating(p), ~Creating(p)'
      PROVE  Claims(p)' = Claims(p)
    BY <1>1 DEF Claims, Unlinkers
<1>2. CASE av_shm_cleanup(p) \/ \E h \in Handles, size \in Sizes, shared \in SharedArgs :
                                    av_shm_create_rw(p, h, size, shared)
    BY <1>0, <1>1, <1>2 DEF av_shm_cleanup, av_shm_create_rw, MayCall, Goto, handleVars,
        Creating, TypeOK, CallTypeOK
<1>3. ASSUME NEW h \in Handles, NEW id \in Ids, av_shm_attach_ro(p, h, id)
      PROVE  Claims(p)' = Claims(p)
    BY <1>0, <1>3 DEF av_shm_attach_ro, MayCall, Goto, Creating, Claims, Unlinkers,
        TypeOK, CallTypeOK, HandleTypeOK
<1>4. ASSUME NEW h \in Handles, av_shm_free(p, h), h \notin Unlinkers(p)
      PROVE  Claims(p)' = Claims(p)
  <2>1. pc'[p] = "idle" /\ pc[p] = "idle"
    BY <1>4 DEF av_shm_free, MayCall
  <2>2. Unlinkers(p)' = Unlinkers(p)
    BY <1>0, <1>4 DEF av_shm_free, Unlinkers, TypeOK, HandleTypeOK
  <2>3. \A h2 \in Unlinkers(p) : m'[p][h2] = m[p][h2]
    BY <1>0, <1>4 DEF av_shm_free, Unlinkers, TypeOK, HandleTypeOK
  <2> QED BY <2>1, <2>2, <2>3, ClaimsEq DEF Creating
<1>5. CASE opendir(p) \/ readdir(p) \/ closedir(p) \/ unlink_stale(p)
    BY <1>0, <1>1, <1>5 DEF opendir, readdir, closedir, unlink_stale, CleanupReturns,
        Return, Goto, handleVars, Creating, TypeOK, CallTypeOK
<1>6. CASE load_marker(p) \/ load_pid(p) \/ kill(p)
    BY <1>0, <1>1, <1>6 DEF load_marker, load_pid, kill, FreeSegAndGoto, Goto,
        handleVars, Creating, TypeOK, CallTypeOK
<1>7. CASE shm_open_ro(p)
    BY <1>0, <1>1, <1>7 DEF shm_open_ro, AttachFails, Return, Goto, Creating, TypeOK,
        CallTypeOK
<1>8. CASE fstat_mmap_ro(p)
  <2>0. ~Creating(p) /\ ~Creating(p)' /\ (call[p].op # "attach" => m' = m /\ held' = held)
    BY <1>0, <1>8 DEF fstat_mmap_ro, SetTarget, AttachFails, Return, Goto, Creating,
        TypeOK, CallTypeOK
  <2>1. CASE call[p].op # "attach"
    BY <1>1, <2>0, <2>1
  <2>2. CASE call[p].op = "attach"
    <3>1. call[p].h \in Handles \ held[p] /\ m[p][call[p].h] \in AvShm
        BY <1>0, <1>8, <2>2 DEF CallInv, fstat_mmap_ro, TypeOK, HandleTypeOK
    <3>2. \A h \in Handles : h # call[p].h => m'[p][h] = m[p][h]
        BY <1>0, <1>8, <2>2 DEF fstat_mmap_ro, SetTarget, TypeOK, HandleTypeOK
    <3>3. \/ held'[p] = held[p]
          \/ /\ held'[p] = held[p] \cup {call[p].h}
             /\ m'[p][call[p].h] = Attached(m[p][call[p].h], fd[p], obj[fd[p]].size)
        BY <1>0, <1>8, <2>2, <3>1 DEF fstat_mmap_ro, SetTarget, Target, AttachFails,
            TypeOK, HandleTypeOK
    <3>4. held'[p] = held[p] \cup {call[p].h} => held'[p] = held[p] \/ ~m'[p][call[p].h].do_unlink
        BY <3>1, <3>3 DEF Attached, AvShm
    <3>5. Unlinkers(p)' = Unlinkers(p)
        BY <1>a, <3>1, <3>2, <3>3, <3>4 DEF Unlinkers
    <3>6. \A h \in Unlinkers(p) : m'[p][h].id = m[p][h].id
        BY <1>a, <3>1, <3>2 DEF Unlinkers
    <3> QED BY <2>0, <3>5, <3>6, ClaimsEq
  <2> QED BY <2>1, <2>2
<1>9. ASSUME pc[p] \in CreatePcs
      PROVE  call[p].h \in Handles \ held[p] /\ New(p) \in AvShm /\ HandleTypeOK
    BY <1>0, <1>9 DEF CallInv, CreatePcs, TypeOK, HandleTypeOK, New
<1>10. CASE mmap_private(p)
  <2> DEFINE s == [New(p) EXCEPT !.id = 0, !.size = av_page_align(call[p].size)]
  <2> DEFINE t == [s EXCEPT !.ptr = ANON, !.do_unlink = FALSE, !.shared = FALSE]
  <2>0. /\ pc[p] = "alloc" /\ pc'[p] = "idle"
        /\ \/ SetNew(p, t) /\ held'[p] = held[p] \cup {call[p].h}
           \/ SetNew(p, [s EXCEPT !.ptr = MAP_FAILED]) /\ held'[p] = held[p]
    BY <1>0, <1>10 DEF mmap_private, Return, Goto, TypeOK, CallTypeOK, HandleTypeOK
  <2>1. call[p].h \in Handles \ held[p] /\ New(p) \in AvShm /\ HandleTypeOK
    BY <1>9, <2>0 DEF CreatePcs
  <2>2. ~t.do_unlink
    BY <2>1 DEF AvShm
  <2> HIDE DEF s, t
  <2>3. \A h \in Handles : h # call[p].h => m'[p][h] = m[p][h]
    BY <2>0, <2>1, SetNewValue
  <2>4. held'[p] = held[p] \/ (held'[p] = held[p] \cup {call[p].h} /\ ~m'[p][call[p].h].do_unlink)
    BY <2>0, <2>1, <2>2, SetNewValue
  <2>5. Unlinkers(p)' = Unlinkers(p)
    BY <1>a, <2>1, <2>3, <2>4 DEF Unlinkers
  <2>6. \A h \in Unlinkers(p) : m'[p][h].id = m[p][h].id
    BY <1>a, <2>1, <2>3 DEF Unlinkers
  <2> QED BY <2>0, <2>5, <2>6, ClaimsEq DEF Creating
<1>11. CASE shm_open_excl(p) /\ dir' = dir
  <2>0. pc[p] = "alloc" /\ pc'[p] = "idle" /\ held' = held
        /\ \E id \in Ids : SetNew(p, [New(p) EXCEPT !.id = id])
    BY <1>0, <1>11, ClosedName DEF shm_open_excl, Return, Goto, TypeOK, CallTypeOK
  <2>1. call[p].h \in Handles \ held[p] /\ HandleTypeOK
    BY <1>9, <2>0 DEF CreatePcs
  <2>3. \A h \in held[p] : m'[p][h] = m[p][h]
    BY <1>a, <2>0, <2>1, SetNewValue
  <2>5. Unlinkers(p)' = Unlinkers(p)
    BY <2>0, <2>3 DEF Unlinkers
  <2>6. \A h \in Unlinkers(p) : m'[p][h].id = m[p][h].id
    BY <2>3 DEF Unlinkers
  <2> QED BY <2>0, <2>5, <2>6, ClaimsEq DEF Creating
<1>12. CASE ftruncate(p) \/ mmap_rw(p)
  <2>0. /\ Creating(p) /\ Creating(p)' /\ pc[p] \in CreatePcs /\ held' = held /\ call' = call
        /\ \E x : SetNew(p, [New(p) EXCEPT !.size = x]) \/ SetNew(p, [New(p) EXCEPT !.ptr = x])
    BY <1>0, <1>12 DEF ftruncate, mmap_rw, Goto, Creating, CreatePcs, TypeOK, CallTypeOK
  <2>1. call[p].h \in Handles \ held[p] /\ New(p) \in AvShm /\ HandleTypeOK
    BY <1>9, <2>0
  <2>2. PICK x : \/ SetNew(p, [New(p) EXCEPT !.size = x])
                 \/ SetNew(p, [New(p) EXCEPT !.ptr = x])
    BY <2>0
  <2>3. New(p)'.id = New(p).id
    <3>1. \/ m'[p][call[p].h] = [New(p) EXCEPT !.size = x]
          \/ m'[p][call[p].h] = [New(p) EXCEPT !.ptr = x]
        BY <2>1, <2>2, SetNewValue
    <3>2. m'[p][call[p].h].id = New(p).id
        BY <2>1, <3>1 DEF AvShm
    <3> QED BY <2>0, <3>2 DEF New
  <2>4. \A h \in held[p] : m'[p][h] = m[p][h]
    BY <1>a, <2>0, <2>1, SetNewValue
  <2>5. Unlinkers(p)' = Unlinkers(p)
    BY <2>0, <2>4 DEF Unlinkers
  <2>6. \A h \in Unlinkers(p) : m'[p][h].id = m[p][h].id
    BY <2>4 DEF Unlinkers
  <2> QED BY <2>0, <2>3, <2>5, <2>6, ClaimsEq
<1>13. CASE store_pid(p)
    BY <1>0, <1>13 DEF store_pid, Goto, handleVars, Claims, Unlinkers, Creating, New,
        TypeOK, CallTypeOK
<1>14. CASE store_marker(p)
  <2> DEFINE hh == call[p].h
  <2> DEFINE t == [New(p) EXCEPT !.do_unlink = TRUE, !.shared = OneBit(call[p].shared)]
  <2>0. /\ Creating(p) /\ ~Creating(p)' /\ pc[p] = "store_marker"
        /\ held'[p] = held[p] \cup {hh}
        /\ SetNew(p, t)
    BY <1>0, <1>14 DEF store_marker, Return, Goto, Creating, TypeOK, CallTypeOK, HandleTypeOK
  <2>1. hh \in Handles \ held[p] /\ New(p) \in AvShm /\ HandleTypeOK
    BY <1>9, <2>0 DEF CreatePcs
  <2>2. OneBit(call[p].shared)
    BY <1>0, <2>0 DEF CallInv, SharedFits, CreatePcs
  <2>3. t.id = New(p).id /\ t.do_unlink /\ t.shared
    BY <2>1, <2>2 DEF AvShm
  <2> HIDE DEF t
  <2>4. /\ m'[p][hh].id = New(p).id /\ m'[p][hh].do_unlink /\ m'[p][hh].shared
        /\ \A h \in held[p] : m'[p][h] = m[p][h]
    BY <1>a, <2>0, <2>1, <2>3, SetNewValue
  <2>5. Unlinkers(p)' = Unlinkers(p) \cup {hh}
    BY <2>0, <2>4 DEF Unlinkers
  <2>6. \A h \in Unlinkers(p) : m'[p][h].id = m[p][h].id
    BY <2>4 DEF Unlinkers
  <2> HIDE DEF hh
  <2> QED BY <2>0, <2>4, <2>5, <2>6 DEF Claims
<1> QED BY <1>2, <1>3, <1>4, <1>5, <1>6, <1>7, <1>8, <1>10, <1>11, <1>12, <1>13, <1>14
        DEF Step, Request

\* The names of live processes and of dead ones, as the registry sees them.
LEMMA OwnerFrame ==
    ASSUME NamesInv, dir' = dir,
           \A o \in Objs : obj[o].owner # NULL => obj'[o].owner = obj[o].owner
    PROVE  NameOwner' = NameOwner
<1>1. \A i \in Ids : dir[i] # NULL => obj'[dir[i]].owner = obj[dir[i]].owner
    BY DEF NamesInv, ObjInv, TypeInv, TypeOK, KernelTypeOK
<1> QED BY <1>1 DEF NameOwner

\* A name goes: in the registry it becomes free.
LEMMA OwnerUnlink ==
    ASSUME NamesInv, NEW i \in Ids, shm_unlink(i), obj' = obj
    PROVE  NameOwner' = [NameOwner EXCEPT ![i] = NULL]
<1>1. dir \in [Ids -> Objs \cup {NULL}]
    BY DEF NamesInv, TypeInv, TypeOK, KernelTypeOK
<1>2. \A j \in Ids : dir'[j] = IF j = i THEN NULL ELSE dir[j]
    BY <1>1 DEF shm_unlink
<1> QED BY <1>2 DEF NameOwner

\* The objects keep their owners.
LEMMA OwnersFrame ==
    ASSUME NamesInv, NEW p \in Procs, Step(p), ~shm_open_excl(p)
    PROVE  \A o \in Objs : obj'[o].owner = obj[o].owner
<1>0. obj \in [Objs -> Segment]
    BY DEF NamesInv, TypeInv, TypeOK, KernelTypeOK
<1>1. CASE ftruncate(p)
    BY <1>0, <1>1 DEF ftruncate, Segment
<1>2. CASE store_pid(p)
    BY <1>0, <1>2 DEF store_pid, Segment
<1>3. CASE store_marker(p)
    BY <1>0, <1>3 DEF store_marker, Segment
<1>4. CASE obj' = obj
    BY <1>4
<1> QED BY <1>1, <1>2, <1>3, <1>4 DEF Step, opendir, readdir, closedir, shm_open_ro,
        fstat_mmap_ro, load_marker, load_pid, kill, unlink_stale, mmap_private,
        mmap_rw, create_fail, kernelVars

\* The start and the end of a process are those of the registry.
LEMMA RefinesSpawnExit ==
    ASSUME NamesInv, NEW p \in Procs, Spawn(p) \/ Exit(p)
    PROVE  Registry!Begin(p) \/ Registry!Die(p)
<1>0. TypeOK
    BY DEF NamesInv, TypeInv
<1>1. CASE Spawn(p)
  <2>1. NameOwner' = NameOwner
    BY <1>1 DEF Spawn, NameOwner
  <2>2. ClaimMap' = ClaimMap
    BY <1>1 DEF Spawn, handleVars, ClaimMap, Claims, Unlinkers, Creating, New
  <2> QED BY <1>1, <2>1, <2>2 DEF Spawn, Registry!Begin, ClaimMap
<1>2. CASE Exit(p)
  <2>1. NameOwner' = NameOwner
    BY <1>2 DEF Exit, NameOwner
  <2>2. Claims(p)' = {}
    <3>1. held'[p] = {} /\ pc'[p] = "idle"
        BY <1>0, <1>2 DEF Exit, TypeOK, CallTypeOK, HandleTypeOK
    <3> QED BY <3>1 DEF Claims, Unlinkers, Creating
  <2>3. ClaimMap' = [ClaimMap EXCEPT ![p] = {}]
    BY <1>2, <2>2, OthersLocal DEF ClaimMap
  <2> QED BY <1>2, <2>1, <2>3 DEF Exit, Registry!Die, ClaimMap
<1> QED BY <1>1, <1>2

\* av_shm_free of a variable that unlinks (shm.c:195) gives up one name.
LEMMA RefinesFree ==
    ASSUME NamesInv, NEW p \in Procs, NEW h \in Unlinkers(p), av_shm_free(p, h)
    PROVE  Registry!Withdraw(p, m[p][h].id)
<1> DEFINE i == m[p][h].id
<1>0. TypeOK /\ HoldInv(p) /\ h \in Handles
    BY DEF NamesInv, TypeInv, TypeOK, HandleTypeOK, Unlinkers
<1>1. /\ life[p] = "live" /\ pc[p] = "idle" /\ pc' = pc /\ life' = life
      /\ shm_unlink(i) /\ obj' = obj
    BY DEF av_shm_free, MayCall, FreeEffect, Unlinkers
<1>2. i \in Ids /\ NameOwner[i] = p /\ i \in Claims(p)
    BY <1>0 DEF HoldInv, NameOwner, Claims
<1>3. NameOwner' = [NameOwner EXCEPT ![i] = NULL]
    BY <1>1, <1>2, OwnerUnlink
<1>4. Claims(p)' = Claims(p) \ {i}
  <2>1. Unlinkers(p)' = Unlinkers(p) \ {h}
    BY <1>0 DEF av_shm_free, Unlinkers, TypeOK, HandleTypeOK, Zeroed
  <2>2. \A h2 \in Unlinkers(p) \ {h} : m'[p][h2].id = m[p][h2].id /\ m[p][h2].id # i
    BY <1>0 DEF av_shm_free, Unlinkers, TypeOK, HandleTypeOK, HoldInv
  <2>3. ~Creating(p) /\ ~Creating(p)'
    BY <1>1 DEF Creating
  <2> QED BY <2>1, <2>2, <2>3 DEF Claims
<1>5. ClaimMap' = [ClaimMap EXCEPT ![p] = @ \ {i}]
  <2>1. Request(p)
    BY <1>0 DEF Request
  <2> QED BY <1>4, <2>1, OthersLocal DEF ClaimMap
<1> QED BY <1>1, <1>2, <1>3, <1>5 DEF Registry!Withdraw, ClaimMap

\* The failure path of av_shm_create_rw (shm.c:120) gives up the name.
LEMMA RefinesCreateFail ==
    ASSUME NamesInv, NEW p \in Procs, create_fail(p)
    PROVE  Registry!Withdraw(p, New(p).id)
<1> DEFINE i == New(p).id
<1>0. TypeOK /\ HoldInv(p) /\ CreateInv(p) /\ CallInv(p) /\ Creating(p)
    BY DEF NamesInv, TypeInv, create_fail, Creating
<1>1. /\ life[p] = "live" /\ pc'[p] = "idle" /\ life' = life
      /\ shm_unlink(i) /\ obj' = obj /\ UNCHANGED <<m, held>>
    BY <1>0 DEF create_fail, Return, Goto, handleVars, CallInv, TypeOK, CallTypeOK
<1>2. i \in Ids /\ NameOwner[i] = p /\ i \in Claims(p)
    BY <1>0, SentinelAssumption DEF CreateInv, CallInv, NameOwner, Claims
<1>3. NameOwner' = [NameOwner EXCEPT ![i] = NULL]
    BY <1>1, <1>2, OwnerUnlink
<1>4. Claims(p)' = Claims(p) \ {i}
  <2>1. Unlinkers(p)' = Unlinkers(p) /\ \A h \in Unlinkers(p) : m[p][h].id # i
    BY <1>0, <1>1 DEF Unlinkers, HoldInv
  <2> QED BY <1>0, <1>1, <2>1 DEF Claims, Creating
<1>5. ClaimMap' = [ClaimMap EXCEPT ![p] = @ \ {i}]
  <2>1. Step(p)
    BY DEF Step
  <2> QED BY <1>4, <2>1, OthersLocal DEF ClaimMap
<1> QED BY <1>1, <1>2, <1>3, <1>5 DEF Registry!Withdraw, ClaimMap

\* An unlink by a cleanup (shm.c:258) reaps the name of a dead owner.
LEMMA RefinesUnlink ==
    ASSUME NamesInv, SharedFits, NEW p \in Procs, unlink_stale(p), dir' # dir
    PROVE  Registry!Reap(ent[p])
<1> DEFINE i == ent[p]
<1>0. TypeOK /\ CallInv(p) /\ ScanInv(p) /\ ObjInv /\ pc[p] = "unlink"
    BY DEF NamesInv, TypeInv, unlink_stale
<1>1. shm_unlink(i) /\ obj' = obj /\ life' = life /\ i \in Ids
    BY <1>0 DEF unlink_stale, CallInv, ScanPcs
<1>2. dir[i] # NULL
    BY <1>0, <1>1 DEF shm_unlink, TypeOK, KernelTypeOK
<1>3. NameOwner[i] # NULL /\ life[NameOwner[i]] = "dead"
    BY <1>0, <1>1, <1>2 DEF NameOwner, ScanInv, ObjInv, TypeOK, KernelTypeOK
<1>4. NameOwner' = [NameOwner EXCEPT ![i] = NULL]
    BY <1>1, OwnerUnlink
<1>5. ClaimMap' = ClaimMap
  <2>1. Step(p) /\ ~create_fail(p) /\ ~shm_open_excl(p)
    BY <1>0 DEF Step, create_fail, shm_open_excl
  <2> QED BY <2>1, OwnClaims, OthersLocal DEF ClaimMap
<1> QED BY <1>1, <1>3, <1>4, <1>5 DEF Registry!Reap, ClaimMap

\* shm_open with O_EXCL (shm.c:89) takes a name that was free.
LEMMA RefinesOpenExcl ==
    ASSUME NamesInv, NEW p \in Procs, shm_open_excl(p), dir' # dir
    PROVE  \E i \in Ids : Registry!Publish(p, i)
<1>0. TypeOK /\ CallInv(p) /\ ObjInv /\ HoldInv(p) /\ pc[p] = "alloc"
    BY DEF NamesInv, TypeInv, shm_open_excl
<1>1. call[p].h \in Handles \ held[p] /\ New(p) \in AvShm /\ life[p] = "live"
    BY <1>0 DEF CallInv, CreatePcs, TypeOK, HandleTypeOK, New
<1>2. PICK i \in Ids, o \in Objs :
        /\ SetNew(p, [New(p) EXCEPT !.id = i])
        /\ dir[i] = NULL
        /\ obj[o].owner = NULL
        /\ dir' = [dir EXCEPT ![i] = o]
        /\ obj' = [obj EXCEPT ![o].owner = p, ![o].name = i]
        /\ Goto(p, "ftruncate")
        /\ UNCHANGED call
    BY DEF shm_open_excl
<1>3. life' = life /\ held' = held
    BY DEF shm_open_excl
<1>4. NameOwner' = [NameOwner EXCEPT ![i] = p] /\ NameOwner[i] = NULL
  <2>1. /\ dir[i] = NULL /\ dir'[i] = o /\ o # NULL /\ obj'[o].owner = p
        /\ \A j \in Ids : j # i => dir'[j] = dir[j]
    BY <1>0, <1>2, SentinelAssumption DEF TypeOK, KernelTypeOK, Segment
  <2>2. \A j \in Ids : dir[j] # NULL => obj'[dir[j]] = obj[dir[j]]
    BY <1>0, <1>2 DEF ObjInv, TypeOK, KernelTypeOK
  <2>3. /\ NameOwner[i] = NULL
        /\ \A j \in Ids : NameOwner'[j] = IF j = i THEN p ELSE NameOwner[j]
    BY <2>1, <2>2 DEF NameOwner
  <2>4. NameOwner' = [j \in Ids |-> NameOwner'[j]] /\ NameOwner = [j \in Ids |-> NameOwner[j]]
    BY DEF NameOwner
  <2> QED BY <2>3, <2>4
<1>5. Claims(p)' = Claims(p) \cup {i} /\ i \notin Claims(p)
  <2>1. m'[p][call[p].h] = [New(p) EXCEPT !.id = i]
        /\ \A h \in Handles : h # call[p].h => m'[p][h] = m[p][h]
    BY <1>0, <1>1, <1>2, SetNewValue DEF TypeOK
  <2>2. New(p)'.id = i
    BY <1>1, <1>2, <2>1 DEF New, AvShm
  <2>3. \A h \in held[p] : m'[p][h] = m[p][h]
    BY <1>0, <1>1, <2>1 DEF TypeOK, HandleTypeOK
  <2>4. Unlinkers(p)' = Unlinkers(p) /\ \A h \in Unlinkers(p) : m'[p][h].id = m[p][h].id
    BY <1>3, <2>3 DEF Unlinkers
  <2>5. ~Creating(p) /\ Creating(p)'
    BY <1>0, <1>2 DEF Creating, Goto, TypeOK, CallTypeOK
  <2>6. \A h \in Unlinkers(p) : m[p][h].id # i
    BY <1>0, <1>2 DEF HoldInv
  <2> QED BY <2>2, <2>4, <2>5, <2>6 DEF Claims
<1>6. ClaimMap' = [ClaimMap EXCEPT ![p] = @ \cup {i}]
  <2>1. Step(p)
    BY DEF Step
  <2> QED BY <1>5, <2>1, OthersLocal DEF ClaimMap
<1> QED BY <1>1, <1>3, <1>4, <1>5, <1>6 DEF Registry!Publish, ClaimMap

\* Every other step is invisible in the registry.
LEMMA RefinesStutter ==
    ASSUME NamesInv, SharedFits, NEW p \in Procs, dir' = dir,
           \/ Step(p) /\ ~create_fail(p)
           \/ Request(p) /\ \A h \in Unlinkers(p) : ~av_shm_free(p, h)
    PROVE  UNCHANGED Registry!vars
<1>1. life' = life
    BY DEF Step, Request, opendir, readdir, closedir, shm_open_ro, fstat_mmap_ro,
        load_marker, load_pid, kill, unlink_stale, mmap_private, shm_open_excl,
        ftruncate, mmap_rw, store_pid, store_marker, create_fail, av_shm_cleanup,
        av_shm_create_rw, av_shm_attach_ro, av_shm_free, kernelVars
<1>2. \A o \in Objs : obj[o].owner # NULL => obj'[o].owner = obj[o].owner
  <2>1. CASE Request(p)
    BY <2>1 DEF Request, av_shm_cleanup, av_shm_create_rw, av_shm_attach_ro,
        av_shm_free, kernelVars
  <2>2. CASE shm_open_excl(p)
    <3>1. obj' = obj
        BY <2>2, ClosedName DEF shm_open_excl, NamesInv, TypeInv
    <3> QED BY <3>1
  <2> QED BY <2>1, <2>2, OwnersFrame
<1>3. NameOwner' = NameOwner
    BY <1>2, OwnerFrame
<1>4. ClaimMap' = ClaimMap
    BY OwnClaims, OthersLocal DEF ClaimMap
<1> QED BY <1>1, <1>3, <1>4 DEF Registry!vars, ClaimMap

\* Shm implements the registry of names: nobody takes a name from a live
\* process, and a process that lives owns exactly the names it relies on.
THEOREM Refinement ==
    ASSUME FreshIds, SharedFits
    PROVE  Spec => ImplementsRegistry
<1>1. Init => Registry!Init
  <2>1. Init => NameOwner = [i \in Ids |-> NULL]
    BY DEF Init, NameOwner
  <2>2. Init => [p \in Procs |-> Claims(p)] = [p \in Procs |-> {}]
    BY DEF Init, Claims, Unlinkers, Creating
  <2> QED BY <2>1, <2>2 DEF Init, Registry!Init
<1>2. NamesInv /\ [Next]_vars => [Registry!Next]_(Registry!vars)
  <2> SUFFICES ASSUME NamesInv, [Next]_vars
               PROVE  Registry!Next \/ UNCHANGED Registry!vars
    OBVIOUS
  <2>1. CASE UNCHANGED vars
    BY <2>1 DEF vars, Registry!vars, NameOwner, Claims, Unlinkers, Creating, New
  <2>2. ASSUME NEW p \in Procs, Spawn(p) \/ Exit(p)
        PROVE  Registry!Next
    BY <2>2, RefinesSpawnExit DEF Registry!Next
  <2>3. ASSUME NEW p \in Procs, Request(p)
        PROVE  Registry!Next \/ UNCHANGED Registry!vars
    <3>1. ASSUME NEW h \in Unlinkers(p), av_shm_free(p, h)
          PROVE  Registry!Next
        <4>1. m[p][h].id \in Ids
            BY DEF NamesInv, HoldInv
        <4> QED BY <3>1, <4>1, RefinesFree DEF Registry!Next
    <3>2. ASSUME \A h \in Unlinkers(p) : ~av_shm_free(p, h)
          PROVE  UNCHANGED Registry!vars
        <4>1. dir' = dir
            BY <2>3, <3>2 DEF Request, av_shm_cleanup, av_shm_create_rw,
                av_shm_attach_ro, av_shm_free, FreeEffect, Unlinkers, kernelVars
        <4> QED BY <2>3, <3>2, <4>1, RefinesStutter
    <3> QED BY <3>1, <3>2
  <2>4. ASSUME NEW p \in Procs, Step(p)
        PROVE  Registry!Next \/ UNCHANGED Registry!vars
    <3>1. CASE create_fail(p)
        <4>1. New(p).id \in Ids
            BY <3>1 DEF create_fail, NamesInv, CreateInv, Creating
        <4> QED BY <3>1, <4>1, RefinesCreateFail DEF Registry!Next
    <3>2. CASE dir' = dir /\ ~create_fail(p)
        BY <2>4, <3>2, RefinesStutter
    <3>3. CASE unlink_stale(p) /\ dir' # dir
        <4>1. ent[p] \in Ids
            BY <3>3 DEF unlink_stale, NamesInv, TypeInv, CallInv, ScanPcs
        <4> QED BY <3>3, <4>1, RefinesUnlink DEF Registry!Next
    <3>4. CASE shm_open_excl(p) /\ dir' # dir
        BY <3>4, RefinesOpenExcl DEF Registry!Next
    <3>5. CASE load_marker(p) \/ load_pid(p) \/ kill(p)
        <4>1. ~seg[p].do_unlink
            BY <3>5 DEF load_marker, load_pid, kill, NamesInv, ScanInv
        <4>2. dir' = dir
            BY <3>5, <4>1 DEF load_marker, load_pid, kill, FreeSegAndGoto, FreeEffect
        <4> QED BY <3>1, <3>2, <4>2
    <3> QED BY <2>4, <3>1, <3>2, <3>3, <3>4, <3>5 DEF Step, opendir, readdir, closedir,
                shm_open_ro, fstat_mmap_ro, mmap_private, ftruncate, mmap_rw, store_pid,
                store_marker, kernelVars
  <2> QED BY <2>1, <2>2, <2>3, <2>4 DEF Next
<1> QED BY <1>1, <1>2, NamesInvariant, PTL DEF Spec, ImplementsRegistry, Registry!Spec

\* The claims of each process after a step that changes those of p.
LEMMA ClaimMapValue ==
    ASSUME NEW p \in Procs, NEW c, ClaimMap' = [ClaimMap EXCEPT ![p] = c]
    PROVE  \A q \in Procs : Claims(q)' = IF q = p THEN c ELSE Claims(q)
<1>1. \A q \in Procs : ClaimMap[q] = Claims(q) /\ ClaimMap'[q] = Claims(q)'
    BY DEF ClaimMap
<1>2. DOMAIN ClaimMap = Procs
    BY DEF ClaimMap
<1> QED BY <1>1, <1>2

\* A live process relies on exactly the names it owns: a consequence of the
\* refinement and of an invariant of the registry.
THEOREM LiveClaimsOwned ==
    ASSUME FreshIds, SharedFits
    PROVE  Spec => []ClaimsAreOwned
<1> DEFINE claims == [p \in Procs |-> Claims(p)]
<1>0. NULL \notin Procs
    BY SentinelAssumption
<1>1. Registry!Init => Registry!Inv
    BY <1>0 DEF Registry!Init, Registry!Inv, Registry!ClaimsAreOwned
<1>2. Registry!Inv /\ [Registry!Next]_(Registry!vars) => Registry!Inv'
  <2> SUFFICES ASSUME Registry!Inv, [Registry!Next]_(Registry!vars)
               PROVE  Registry!Inv'
    OBVIOUS
  <2> USE <1>0 DEF Registry!Inv, Registry!ClaimsAreOwned
  <2>1. ASSUME NEW p \in Procs, NEW i \in Ids, Registry!Publish(p, i)
        PROVE  Registry!Inv'
    <3>1. /\ life[p] = "live" /\ life' = life
          /\ NameOwner' = [NameOwner EXCEPT ![i] = p]
          /\ \A q \in Procs : Claims(q)' = IF q = p THEN Claims(p) \cup {i} ELSE Claims(q)
        BY <2>1, ClaimMapValue DEF Registry!Publish, ClaimMap
    <3>2. \A j \in Ids : NameOwner'[j] = IF j = i THEN p ELSE NameOwner[j]
        BY <3>1
    <3> QED BY <2>1, <3>1, <3>2 DEF Registry!Publish
  <2>2. ASSUME NEW p \in Procs, NEW i \in Ids, Registry!Withdraw(p, i)
        PROVE  Registry!Inv'
    <3>1. /\ life[p] = "live" /\ life' = life
          /\ NameOwner' = [NameOwner EXCEPT ![i] = NULL]
          /\ \A q \in Procs : Claims(q)' = IF q = p THEN Claims(p) \ {i} ELSE Claims(q)
        BY <2>2, ClaimMapValue DEF Registry!Withdraw, ClaimMap
    <3>2. \A j \in Ids : NameOwner'[j] = IF j = i THEN NULL ELSE NameOwner[j]
        BY <3>1
    <3> QED BY <2>2, <3>1, <3>2 DEF Registry!Withdraw
  <2>3. ASSUME NEW i \in Ids, Registry!Reap(i)
        PROVE  Registry!Inv'
    BY <2>3 DEF Registry!Reap
  <2>4. ASSUME NEW p \in Procs, Registry!Begin(p)
        PROVE  Registry!Inv'
    BY <2>4 DEF Registry!Begin
  <2>5. ASSUME NEW p \in Procs, Registry!Die(p)
        PROVE  Registry!Inv'
    <3>1. /\ life' = [life EXCEPT ![p] = "dead"] /\ life[p] = "live"
          /\ NameOwner' = NameOwner
          /\ \A q \in Procs : Claims(q)' = IF q = p THEN {} ELSE Claims(q)
        BY <2>5, ClaimMapValue DEF Registry!Die, ClaimMap
    <3> QED BY <2>5, <3>1 DEF Registry!Die
  <2>6. CASE UNCHANGED Registry!vars
    BY <2>6 DEF Registry!vars
  <2> QED BY <2>1, <2>2, <2>3, <2>4, <2>5, <2>6 DEF Registry!Next
<1>3. Registry!Inv => ClaimsAreOwned
    BY DEF Registry!Inv, ClaimsAreOwned
<1> QED BY <1>1, <1>2, <1>3, Refinement, PTL DEF ImplementsRegistry, Registry!Spec

==============================================================================
