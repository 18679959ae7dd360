---------------------------- MODULE ShmNameProofs ----------------------------
(***************************************************************************)
(* The types of Shm, and why nobody loses a name while it lives, if        *)
(* av_random never repeats an id.                                          *)
(*                                                                         *)
(* A step reads locals that an earlier step of the same call has set (the  *)
(* descriptor, the mapping, the size), so types alone are not inductive:   *)
(* TypeInv adds to TypeOK what a process knows at each place of a call.    *)
(*                                                                         *)
(* NamesInv is inductive on top of it. A step of another process may take  *)
(* away names of dead processes, add objects under new ids and mark its    *)
(* own, but nothing else that a process relies on (Foreign below), so what *)
(* a cleanup has read about an entry is still true when it unlinks it.     *)
(***************************************************************************)
EXTENDS ShmInvariants, TLAPS

-----------------------------------------------------------------------------
(* Types, and the arithmetic of the sizes. *)

\* AV_ALIGN of a length is a length, and no shorter (util.h:90).
LEMMA AlignNat ==
    ASSUME NEW l \in Nat
    PROVE  /\ av_align(l) \in Nat
           /\ av_align(l) >= l
<1>1. (l + WordSize - 1) \div WordSize \in Nat
    BY WordAssumption
<1>2. ((l + WordSize - 1) \div WordSize) * WordSize >= l
    BY WordAssumption
<1> QED BY <1>1, <1>2, WordAssumption DEF av_align

\* AV_PAGE_ALIGN of a length is a length, and no shorter (util.h:102).
LEMMA PageAlignNat ==
    ASSUME NEW l \in Nat
    PROVE  /\ av_page_align(l) \in Nat
           /\ av_page_align(l) >= l
<1>1. (l + PageSize - 1) \div PageSize \in Nat
    BY PageAssumption
<1>2. ((l + PageSize - 1) \div PageSize) * PageSize >= l
    BY PageAssumption
<1> QED BY <1>1, <1>2, PageAssumption DEF av_page_align

\* A segment has room for its marker: the marker's offset is not negative
\* (shm.c:94 and 107).
LEMMA SegmentSizeNat ==
    ASSUME NEW size \in Nat
    PROVE  /\ SegmentSize(size) \in Nat
           /\ MarkerOffset(SegmentSize(size)) \in Nat
    BY PageAlignNat, AlignNat, NaturalsAssumption
    DEF SegmentSize, MarkerOffset, SHM_MARKER_SIZE

\* A length without a remainder is a whole number of units.
LEMMA Multiple ==
    ASSUME NEW a \in Nat, NEW b \in Nat \ {0}, a % b = 0
    PROVE  \E k \in Nat : a = k * b
<1>1. a \div b \in Nat
    OBVIOUS
<1>2. a = (a \div b) * b
  <2>1. a = (a \div b) * b + (a % b)
    OBVIOUS
  <2> QED BY <1>1, <2>1
<1> QED BY <1>1, <1>2

\* A multiple of a word is its own rounding (util.h:90).
LEMMA AlignOfMultiple ==
    ASSUME NEW k \in Nat
    PROVE  av_align(k * WordSize) = k * WordSize
<1> DEFINE x == k * WordSize
<1>1. WordSize \in Nat /\ WordSize > 0 /\ x \in Nat
    BY WordAssumption
<1>2. (x + WordSize - 1) \div WordSize = k
  <2>1. x + WordSize - 1 = k * WordSize + (WordSize - 1)
    OBVIOUS
  <2> QED BY <1>1, <2>1
<1> QED BY <1>2 DEF av_align

\* A length that fits into a whole number of pages still fits once it is
\* rounded up to pages (util.h:102).
LEMMA PageAlignBound ==
    ASSUME NEW l \in Nat, NEW j \in Nat, l <= j * PageSize
    PROVE  av_page_align(l) <= j * PageSize
<1> DEFINE k == (l + PageSize - 1) \div PageSize
<1>1. PageSize \in Nat /\ PageSize > 0 /\ k \in Nat
    BY PageAssumption
<1>2. k * PageSize <= l + PageSize - 1
    BY <1>1
<1> HIDE DEF k
<1>3. k * PageSize < (j + 1) * PageSize
    BY <1>1, <1>2
<1>4. k < j + 1
    BY <1>1, <1>3
<1>5. k * PageSize <= j * PageSize
    BY <1>1, <1>4
<1> QED BY <1>5 DEF k, av_page_align

\* The size av_shm_create_rw gives a segment passes the check of
\* av_shm_attach_ro, for every size a caller may ask for.
LEMMA SegmentSizeValid ==
    ASSUME NEW size \in Sizes
    PROVE  SizeValid(SegmentSize(size))
<1>0. /\ size \in Nat /\ size > 0 /\ size <= MAX_SHM_SIZE
      /\ WordSize \in Nat \ {0} /\ PageSize \in Nat \ {0}
    BY NaturalsAssumption, WordAssumption, PageAssumption, AlignNat
    DEF MAX_SHM_SIZE
<1>1. PICK c \in Nat : SHM_MARKER_SIZE = c * WordSize
    <2>1. (MarkerStruct + WordSize - 1) \div WordSize \in Nat
        BY <1>0, NaturalsAssumption
    <2> QED BY <2>1 DEF SHM_MARKER_SIZE, av_align
<1>2. PICK k \in Nat : av_page_align(size) = k * PageSize
    <2>1. (size + PageSize - 1) \div PageSize \in Nat
        BY <1>0
    <2> QED BY <2>1 DEF av_page_align
<1>3. PICK t \in Nat : PageSize = t * WordSize
    BY <1>0, GeometryAssumption, Multiple
<1>4. PICK j \in Nat : MAX_SHM_SIZE = j * PageSize
    <2>0. MAX_SHM_SIZE \in Nat /\ MAX_SHM_SIZE % PageSize = 0
        BY AlignNat, NaturalsAssumption, GeometryAssumption DEF MAX_SHM_SIZE
    <2> QED BY <1>0, <2>0, Multiple
<1>5. SegmentSize(size) = (k * t + c) * WordSize
    <2>1. k * (t * WordSize) = (k * t) * WordSize
        BY <1>0
    <2> QED BY <1>0, <1>1, <1>2, <1>3, <2>1 DEF SegmentSize
<1>6. av_align(SegmentSize(size)) = SegmentSize(size)
    <2>1. k * t + c \in Nat
        OBVIOUS
    <2> QED BY <1>5, <2>1, AlignOfMultiple
<1>7. SegmentSize(size) > 0
    <2>1. av_page_align(size) \in Nat /\ av_page_align(size) >= size
        BY <1>0, PageAlignNat
    <2>2. SHM_MARKER_SIZE \in Nat
        BY AlignNat, NaturalsAssumption DEF SHM_MARKER_SIZE
    <2> QED BY <1>0, <2>1, <2>2 DEF SegmentSize
<1>8. SegmentSize(size) <= MAX_SHM_SIZE + SHM_MARKER_SIZE
    <2>1. av_page_align(size) <= MAX_SHM_SIZE
        BY <1>0, <1>4, PageAlignBound
    <2>2. SHM_MARKER_SIZE \in Nat /\ av_page_align(size) \in Nat /\ MAX_SHM_SIZE \in Nat
        BY <1>0, AlignNat, PageAlignNat, NaturalsAssumption
        DEF SHM_MARKER_SIZE, MAX_SHM_SIZE
    <2> QED BY <2>1, <2>2 DEF SegmentSize
<1> QED BY <1>6, <1>7, <1>8 DEF SizeValid

\* The records a variable starts with are well typed.
LEMMA RecordTypes ==
    /\ Zeroed \in AvShm
    /\ NoCall \in Call
    /\ Unused \in Segment
BY DEF Zeroed, AvShm, NoCall, Call, Unused, Segment

\* Setting one field of a struct av_shm keeps it well typed.
LEMMA AvShmUpdates ==
    ASSUME NEW s \in AvShm
    PROVE  /\ \A id \in Ids : [s EXCEPT !.id = id] \in AvShm
           /\ \A o \in Objs \cup {MAP_FAILED} : [s EXCEPT !.ptr = o] \in AvShm
           /\ \A size \in Nat : [s EXCEPT !.size = size] \in AvShm
BY DEF AvShm

\* Writing the variable of a creation keeps the variables well typed.
LEMMA SetNewType ==
    ASSUME HandleTypeOK, NEW p \in Procs, NEW s \in AvShm, SetNew(p, s)
    PROVE  m' \in [Procs -> [Handles -> AvShm]]
BY DEF HandleTypeOK, SetNew

\* The places of a call, listed.
LEMMA PcTypes ==
    {"idle", "opendir", "readdir", "marker", "pid", "kill", "unlink", "alloc",
     "ftruncate", "mmap", "store_pid", "store_marker", "fail", "shm_open",
     "fstat"} = Pcs
BY DEF Pcs, ScanPcs, CreatePcs, AttachPcs

\* TypeInv holds before any process has started.
LEMMA TypeInit == Init => TypeInv
BY NaturalsAssumption, FaultsAssumption, RecordTypes, PcTypes
DEF Init, TypeInv, TypeOK, KernelTypeOK, CallTypeOK, HandleTypeOK, ScanTypeOK, RecordTypeOK,
    CallInv, ScanPcs, CreatePcs, AttachPcs, Creating

\* The start of a process preserves the types and the per-call knowledge of
\* TypeInv.
LEMMA TypeSpawn ==
    ASSUME TypeInv, NEW p \in Procs, Spawn(p)
    PROVE  TypeInv'
<1> USE RecordTypes, PcTypes DEF TypeInv, TypeOK, Spawn,
        handleVars, scanVars, PidUsed
<1>1. KernelTypeOK'
    BY DEF KernelTypeOK
<1>2. CallTypeOK'
    BY DEF KernelTypeOK, CallTypeOK
<1>3. HandleTypeOK'
    BY DEF HandleTypeOK
<1>4. ScanTypeOK'
    BY DEF ScanTypeOK
<1>5. RecordTypeOK'
    BY FaultsAssumption DEF RecordTypeOK
<1>6. \A q \in Procs : CallInv(q)'
    BY DEF CallInv, KernelTypeOK, CallTypeOK, HandleTypeOK, ScanTypeOK, Creating, New,
        ScanPcs, CreatePcs, AttachPcs, NoCall
<1> QED BY <1>1, <1>2, <1>3, <1>4, <1>5, <1>6

\* The end of a process, anywhere in a call, preserves the types and the
\* per-call knowledge of TypeInv.
LEMMA TypeExit ==
    ASSUME TypeInv, NEW p \in Procs, Exit(p)
    PROVE  TypeInv'
<1> USE RecordTypes, PcTypes DEF TypeInv, TypeOK, Exit,
        Zeroed, NoCall
<1>1. KernelTypeOK'
    BY DEF KernelTypeOK
<1>2. CallTypeOK'
    BY DEF KernelTypeOK, CallTypeOK
<1>3. HandleTypeOK'
    BY DEF HandleTypeOK
<1>4. ScanTypeOK'
    BY DEF ScanTypeOK
<1>5. RecordTypeOK'
    BY FaultsAssumption DEF RecordTypeOK
<1>6. \A q \in Procs : CallInv(q)'
    BY DEF CallInv, KernelTypeOK, CallTypeOK, HandleTypeOK, ScanTypeOK, Creating, New,
        ScanPcs, CreatePcs, AttachPcs, NoCall
<1> QED BY <1>1, <1>2, <1>3, <1>4, <1>5, <1>6

\* A call of av_shm_cleanup (shm.c:208) preserves the types and the per-call
\* knowledge of TypeInv.
LEMMA TypeCleanup ==
    ASSUME TypeInv, NEW p \in Procs, av_shm_cleanup(p)
    PROVE  TypeInv'
<1> USE RecordTypes, PcTypes DEF TypeInv, TypeOK, av_shm_cleanup,
        MayCall, Calling, Goto, kernelVars, handleVars, scanVars
<1>1. KernelTypeOK'
    BY DEF KernelTypeOK
<1>2. CallTypeOK'
    BY DEF CallTypeOK, Call
<1>3. HandleTypeOK'
    BY DEF HandleTypeOK
<1>4. ScanTypeOK'
    BY DEF ScanTypeOK
<1>5. RecordTypeOK'
    BY FaultsAssumption DEF RecordTypeOK
<1>6. \A q \in Procs : CallInv(q)'
    BY DEF CallInv, KernelTypeOK, CallTypeOK, HandleTypeOK, ScanTypeOK, Creating, New,
        ScanPcs, CreatePcs, AttachPcs, NoCall
<1> QED BY <1>1, <1>2, <1>3, <1>4, <1>5, <1>6

\* opendir (shm.c:212) preserves the types and the per-call knowledge of
\* TypeInv.
LEMMA TypeOpendir ==
    ASSUME TypeInv, NEW p \in Procs, opendir(p)
    PROVE  TypeInv'
<1> USE RecordTypes, PcTypes DEF TypeInv, TypeOK, opendir,
        CleanupReturns, Return, Goto, Fault, NoFault, Named, Stale, kernelVars, handleVars
<1>1. KernelTypeOK'
    BY DEF KernelTypeOK
<1>2. CallTypeOK'
    BY DEF KernelTypeOK, CallTypeOK
<1>3. HandleTypeOK'
    BY DEF HandleTypeOK
<1>4. ScanTypeOK'
    BY DEF ScanTypeOK
<1>5. RecordTypeOK'
    BY FaultsAssumption DEF RecordTypeOK
<1>6. \A q \in Procs : CallInv(q)'
    BY DEF CallInv, KernelTypeOK, CallTypeOK, HandleTypeOK, ScanTypeOK, Creating, New,
        ScanPcs, CreatePcs, AttachPcs, NoCall
<1> QED BY <1>1, <1>2, <1>3, <1>4, <1>5, <1>6

\* readdir and the test of the entry (shm.c:217) preserves the types and the
\* per-call knowledge of TypeInv.
LEMMA TypeReaddir ==
    ASSUME TypeInv, NEW p \in Procs, readdir(p)
    PROVE  TypeInv'
<1> USE RecordTypes, PcTypes DEF TypeInv, TypeOK, readdir,
        Goto, Named, kernelVars, handleVars
<1>1. KernelTypeOK'
    BY DEF KernelTypeOK
<1>2. CallTypeOK'
  <2>1. PICK i \in Ids : ent' = [ent EXCEPT ![p] = i]
    BY DEF ScanTypeOK
  <2> QED BY <2>1 DEF CallTypeOK
<1>3. HandleTypeOK'
    BY DEF HandleTypeOK
<1>4. ScanTypeOK'
  <2>1. \A i \in Ids : [Zeroed EXCEPT !.id = i] \in AvShm
    BY DEF Zeroed, AvShm
  <2> QED BY <2>1 DEF ScanTypeOK
<1>5. RecordTypeOK'
    BY FaultsAssumption DEF RecordTypeOK
<1>6. \A q \in Procs : CallInv(q)'
    BY DEF CallInv, KernelTypeOK, CallTypeOK, HandleTypeOK, ScanTypeOK, Creating, New,
        ScanPcs, CreatePcs, AttachPcs, NoCall
<1> QED BY <1>1, <1>2, <1>3, <1>4, <1>5, <1>6

\* The end of the directory (shm.c:265) preserves the types and the per-call
\* knowledge of TypeInv.
LEMMA TypeClosedir ==
    ASSUME TypeInv, NEW p \in Procs, closedir(p)
    PROVE  TypeInv'
<1> USE RecordTypes, PcTypes DEF TypeInv, TypeOK, closedir,
        CleanupReturns, Return, Goto, Named, kernelVars, handleVars
<1>1. KernelTypeOK'
    BY DEF KernelTypeOK
<1>2. CallTypeOK'
    BY DEF KernelTypeOK, CallTypeOK
<1>3. HandleTypeOK'
    BY DEF HandleTypeOK
<1>4. ScanTypeOK'
    BY DEF ScanTypeOK
<1>5. RecordTypeOK'
    BY FaultsAssumption DEF RecordTypeOK
<1>6. \A q \in Procs : CallInv(q)'
    BY DEF CallInv, KernelTypeOK, CallTypeOK, HandleTypeOK, ScanTypeOK, Creating, New,
        ScanPcs, CreatePcs, AttachPcs, NoCall
<1> QED BY <1>1, <1>2, <1>3, <1>4, <1>5, <1>6

\* shm_open in av_shm_attach_ro (shm.c:138) preserves the types and the per-
\* call knowledge of TypeInv.
LEMMA TypeOpenRo ==
    ASSUME TypeInv, NEW p \in Procs, shm_open_ro(p)
    PROVE  TypeInv'
<1> USE RecordTypes, PcTypes DEF TypeInv, TypeOK, shm_open_ro,
        AttachFails, Excused, Return, Goto, Fault, NoFault, kernelVars, scanVars
<1>1. KernelTypeOK'
    BY DEF KernelTypeOK
<1>2. CallTypeOK'
  <2>1. ent[p] \in Ids
    BY DEF CallInv, AttachPcs
  <2> QED BY <2>1 DEF KernelTypeOK, CallTypeOK
<1>3. HandleTypeOK'
    BY DEF HandleTypeOK
<1>4. ScanTypeOK'
    BY DEF ScanTypeOK
<1>5. RecordTypeOK'
    BY FaultsAssumption DEF RecordTypeOK
<1>6. ASSUME NEW q \in Procs PROVE CallInv(q)'
  <2>1. CASE q = p
    BY <2>1 DEF CallInv, KernelTypeOK, CallTypeOK, Call, Creating,
        ScanPcs, CreatePcs, AttachPcs, NoCall
  <2>2. CASE q # p
    BY <2>2 DEF CallInv, CallTypeOK, Creating, New
  <2> QED BY <2>1, <2>2
<1> QED BY <1>1, <1>2, <1>3, <1>4, <1>5, <1>6

\* Reading the marker (shm.c:233) preserves the types and the per-call
\* knowledge of TypeInv.
LEMMA TypeLoadMarker ==
    ASSUME TypeInv, NEW p \in Procs, load_marker(p)
    PROVE  TypeInv'
<1> USE RecordTypes, PcTypes DEF TypeInv, TypeOK, load_marker,
        FreeSegAndGoto, FreeEffect, shm_unlink, Goto, handleVars
<1>1. KernelTypeOK'
    BY DEF KernelTypeOK
<1>2. CallTypeOK'
    BY DEF KernelTypeOK, CallTypeOK
<1>3. HandleTypeOK'
    BY DEF HandleTypeOK
<1>4. ScanTypeOK'
    BY DEF ScanTypeOK
<1>5. RecordTypeOK'
    BY FaultsAssumption DEF RecordTypeOK
<1>6. ASSUME NEW q \in Procs PROVE CallInv(q)'
  <2>1. CASE q = p
    <3>1. /\ pc[p] = "marker" /\ pc'[p] \in {"pid", "readdir"}
          /\ pc'[p] = "pid" => seg' = seg
        BY DEF CallTypeOK
    <3>2. UNCHANGED <<life, held, call, m, fd, ent>> /\ CallInv(p)
        OBVIOUS
    <3> HIDE DEF load_marker, TypeInv
    <3> QED BY <2>1, <3>1, <3>2 DEF CallInv, Creating, ScanPcs, CreatePcs, AttachPcs
  <2>2. CASE q # p
    <3>1. /\ pc'[q] = pc[q] /\ seg'[q] = seg[q] /\ CallInv(q)
          /\ UNCHANGED <<life, held, call, m, fd, ent>>
        BY <2>2 DEF CallTypeOK, ScanTypeOK
    <3> HIDE DEF load_marker, TypeInv
    <3> QED BY <3>1 DEF CallInv, Creating, New
  <2> QED BY <2>1, <2>2
<1> QED BY <1>1, <1>2, <1>3, <1>4, <1>5, <1>6

\* Reading the pid (shm.c:245) preserves the types and the per-call
\* knowledge of TypeInv.
LEMMA TypeLoadPid ==
    ASSUME TypeInv, NEW p \in Procs, load_pid(p)
    PROVE  TypeInv'
<1> USE RecordTypes, PcTypes DEF TypeInv, TypeOK, load_pid,
        Load, FreeSegAndGoto, FreeEffect, shm_unlink, Goto, handleVars
<1>1. KernelTypeOK'
    BY DEF KernelTypeOK
<1>2. CallTypeOK'
    BY DEF KernelTypeOK, CallTypeOK
<1>3. HandleTypeOK'
    BY DEF HandleTypeOK
<1>4. ScanTypeOK'
  <2>1. obj[seg[p].ptr].pid \in Pids \cup {0}
    BY DEF CallInv, KernelTypeOK, Segment
  <2> QED BY <2>1 DEF ScanTypeOK
<1>5. RecordTypeOK'
    BY FaultsAssumption DEF RecordTypeOK
<1>6. \A q \in Procs : CallInv(q)'
    BY DEF CallInv, KernelTypeOK, CallTypeOK, HandleTypeOK, ScanTypeOK, Creating, New,
        ScanPcs, CreatePcs, AttachPcs, NoCall
<1> QED BY <1>1, <1>2, <1>3, <1>4, <1>5, <1>6

\* Asking for the pid (shm.c:250) preserves the types and the per-call
\* knowledge of TypeInv.
LEMMA TypeKill ==
    ASSUME TypeInv, NEW p \in Procs, kill(p)
    PROVE  TypeInv'
<1> USE RecordTypes, PcTypes DEF TypeInv, TypeOK, kill,
        FreeSegAndGoto, FreeEffect, shm_unlink, Goto, handleVars
<1>1. KernelTypeOK'
    BY DEF KernelTypeOK
<1>2. CallTypeOK'
    BY DEF KernelTypeOK, CallTypeOK
<1>3. HandleTypeOK'
    BY DEF HandleTypeOK
<1>4. ScanTypeOK'
    BY DEF ScanTypeOK
<1>5. RecordTypeOK'
    BY FaultsAssumption DEF RecordTypeOK
<1>6. \A q \in Procs : CallInv(q)'
    BY DEF CallInv, KernelTypeOK, CallTypeOK, HandleTypeOK, ScanTypeOK, Creating, New,
        ScanPcs, CreatePcs, AttachPcs, NoCall
<1> QED BY <1>1, <1>2, <1>3, <1>4, <1>5, <1>6

\* Unlinking a condemned name (shm.c:258) preserves the types and the per-
\* call knowledge of TypeInv.
LEMMA TypeUnlink ==
    ASSUME TypeInv, NEW p \in Procs, unlink_stale(p)
    PROVE  TypeInv'
<1> USE RecordTypes, PcTypes DEF TypeInv, TypeOK, unlink_stale,
        shm_unlink, Excused, Goto, Fault, NoFault, handleVars, scanVars
<1>1. KernelTypeOK'
    BY DEF KernelTypeOK
<1>2. CallTypeOK'
    BY DEF KernelTypeOK, CallTypeOK
<1>3. HandleTypeOK'
    BY DEF HandleTypeOK
<1>4. ScanTypeOK'
    BY DEF ScanTypeOK
<1>5. RecordTypeOK'
    BY FaultsAssumption DEF RecordTypeOK
<1>6. \A q \in Procs : CallInv(q)'
    BY DEF CallInv, KernelTypeOK, CallTypeOK, HandleTypeOK, ScanTypeOK, Creating, New,
        ScanPcs, CreatePcs, AttachPcs, NoCall
<1> QED BY <1>1, <1>2, <1>3, <1>4, <1>5, <1>6

\* The failure path of av_shm_create_rw (shm.c:120) preserves the types and
\* the per-call knowledge of TypeInv.
LEMMA TypeCreateFail ==
    ASSUME TypeInv, NEW p \in Procs, create_fail(p)
    PROVE  TypeInv'
<1> USE RecordTypes, PcTypes DEF TypeInv, TypeOK, create_fail,
        shm_unlink, Return, Goto, handleVars, scanVars
<1>1. KernelTypeOK'
    BY DEF KernelTypeOK
<1>2. CallTypeOK'
    BY DEF KernelTypeOK, CallTypeOK
<1>3. HandleTypeOK'
    BY DEF HandleTypeOK
<1>4. ScanTypeOK'
    BY DEF ScanTypeOK
<1>5. RecordTypeOK'
    BY FaultsAssumption DEF RecordTypeOK
<1>6. \A q \in Procs : CallInv(q)'
    BY DEF CallInv, KernelTypeOK, CallTypeOK, HandleTypeOK, ScanTypeOK, Creating, New,
        ScanPcs, CreatePcs, AttachPcs, NoCall
<1> QED BY <1>1, <1>2, <1>3, <1>4, <1>5, <1>6

\* Storing the pid (shm.c:109) preserves the types and the per-call
\* knowledge of TypeInv.
LEMMA TypeStorePid ==
    ASSUME TypeInv, NEW p \in Procs, store_pid(p)
    PROVE  TypeInv'
<1> USE RecordTypes, PcTypes DEF TypeInv, TypeOK, store_pid,
        Goto, handleVars, scanVars
<1>1. KernelTypeOK'
  <2>1. New(p).ptr \in Objs /\ call[p].size \in Nat
    BY NaturalsAssumption DEF CallInv, CreatePcs, Creating, CallTypeOK, Call
  <2>2. MarkerOffset(New(p).size) \in Nat
    BY <2>1, SegmentSizeNat DEF CallInv
  <2> QED BY <2>1, <2>2 DEF KernelTypeOK, Segment
<1>2. CallTypeOK'
    BY DEF KernelTypeOK, CallTypeOK
<1>3. HandleTypeOK'
    BY DEF HandleTypeOK
<1>4. ScanTypeOK'
    BY DEF ScanTypeOK
<1>5. RecordTypeOK'
    BY FaultsAssumption DEF RecordTypeOK
<1>6. ASSUME NEW q \in Procs PROVE CallInv(q)'
  <2>1. /\ UNCHANGED <<life, held, call, m, fd, ent, seg>> /\ CallInv(q)
        /\ pc'[q] = IF q = p THEN "store_marker" ELSE pc[q]
        /\ pc[p] = "store_pid"
    BY DEF CallTypeOK
  <2> HIDE DEF store_pid, TypeInv
  <2> QED BY <2>1 DEF CallInv, Creating, New, ScanPcs, CreatePcs, AttachPcs
<1> QED BY <1>1, <1>2, <1>3, <1>4, <1>5, <1>6

\* A call of av_shm_create_rw (shm.c:53) preserves the types and the per-
\* call knowledge of TypeInv.
LEMMA TypeCreateRw ==
    ASSUME TypeInv, NEW p \in Procs, NEW h \in Handles, NEW size \in Sizes,
           NEW shared \in SharedArgs, av_shm_create_rw(p, h, size, shared)
    PROVE  TypeInv'
<1> USE RecordTypes, PcTypes DEF TypeInv, TypeOK, av_shm_create_rw,
        MayCall, Calling, Goto, kernelVars, handleVars, scanVars
<1>1. KernelTypeOK'
    BY DEF KernelTypeOK
<1>2. CallTypeOK'
    BY NaturalsAssumption DEF CallTypeOK, Call
<1>3. HandleTypeOK'
    BY DEF HandleTypeOK
<1>4. ScanTypeOK'
    BY DEF ScanTypeOK
<1>5. RecordTypeOK'
    BY FaultsAssumption DEF RecordTypeOK
<1>6. ASSUME NEW q \in Procs PROVE CallInv(q)'
  <2>1. CASE q = p
    BY <2>1 DEF CallInv, KernelTypeOK, CallTypeOK, HandleTypeOK, Creating, New,
        ScanPcs, CreatePcs, AttachPcs, NoCall
  <2>2. CASE q # p
    BY <2>2 DEF CallInv, CallTypeOK, HandleTypeOK, Creating, New
  <2> QED BY <2>1, <2>2
<1> QED BY <1>1, <1>2, <1>3, <1>4, <1>5, <1>6

\* A call of av_shm_attach_ro (shm.c:129) preserves the types and the per-
\* call knowledge of TypeInv.
LEMMA TypeAttachRo ==
    ASSUME TypeInv, NEW p \in Procs, NEW h \in Handles, NEW id \in Ids,
           av_shm_attach_ro(p, h, id)
    PROVE  TypeInv'
<1> USE RecordTypes, PcTypes DEF TypeInv, TypeOK, av_shm_attach_ro,
        MayCall, Calling, Goto, kernelVars, scanVars
<1>1. KernelTypeOK'
    BY DEF KernelTypeOK
<1>2. CallTypeOK'
    BY NaturalsAssumption DEF CallTypeOK, Call
<1>3. HandleTypeOK'
  <2>1. [m[p][h] EXCEPT !.id = id] \in AvShm
    BY AvShmUpdates DEF HandleTypeOK
  <2> QED BY <2>1 DEF HandleTypeOK
<1>4. ScanTypeOK'
    BY DEF ScanTypeOK
<1>5. RecordTypeOK'
    BY FaultsAssumption DEF RecordTypeOK
<1>6. ASSUME NEW q \in Procs PROVE CallInv(q)'
  <2>1. CASE q = p
    BY <2>1 DEF CallInv, KernelTypeOK, CallTypeOK, HandleTypeOK, Creating, New,
        ScanPcs, CreatePcs, AttachPcs, NoCall
  <2>2. CASE q # p
    BY <2>2 DEF CallInv, CallTypeOK, HandleTypeOK, Creating, New
  <2> QED BY <2>1, <2>2
<1> QED BY <1>1, <1>2, <1>3, <1>4, <1>5, <1>6

\* A call of av_shm_free (shm.c:180) preserves the types and the per-call
\* knowledge of TypeInv.
LEMMA TypeFree ==
    ASSUME TypeInv, NEW p \in Procs, NEW h \in Handles, av_shm_free(p, h)
    PROVE  TypeInv'
<1> USE RecordTypes, PcTypes DEF TypeInv, TypeOK, av_shm_free,
        MayCall, FreeEffect, shm_unlink, scanVars
<1>1. KernelTypeOK'
    BY DEF KernelTypeOK
<1>2. CallTypeOK'
    BY DEF CallTypeOK
<1>3. HandleTypeOK'
    BY DEF HandleTypeOK
<1>4. ScanTypeOK'
    BY DEF ScanTypeOK
<1>5. RecordTypeOK'
    BY FaultsAssumption DEF RecordTypeOK
<1>6. ASSUME NEW q \in Procs PROVE CallInv(q)'
  <2>1. CASE q = p
    BY <2>1 DEF CallInv, KernelTypeOK, CallTypeOK, HandleTypeOK, Creating, New,
        ScanPcs, CreatePcs, AttachPcs, NoCall
  <2>2. CASE q # p
    BY <2>2 DEF CallInv, CallTypeOK, HandleTypeOK, Creating, New
  <2> QED BY <2>1, <2>2
<1> QED BY <1>1, <1>2, <1>3, <1>4, <1>5, <1>6

\* Mapping a private area (shm.c:70) preserves the types and the per-call
\* knowledge of TypeInv.
LEMMA TypeMmapPrivate ==
    ASSUME TypeInv, NEW p \in Procs, mmap_private(p)
    PROVE  TypeInv'
<1> USE RecordTypes, PcTypes DEF TypeInv, TypeOK, mmap_private,
        Return, Goto, Fault, NoFault, kernelVars, scanVars
<1>0. call[p].op = "create" /\ call[p].h \in Handles \ held[p] /\ New(p) \in AvShm
      /\ call[p].size \in Nat /\ life[p] = "live" /\ call[p].size \in Sizes
    BY DEF CallInv, CreatePcs, CallTypeOK, Call, HandleTypeOK, New
<1>1. KernelTypeOK'
    BY DEF KernelTypeOK
<1>2. CallTypeOK'
    BY DEF CallTypeOK
<1>3. HandleTypeOK'
  <2> DEFINE s == [New(p) EXCEPT !.id = 0, !.size = av_page_align(call[p].size)]
  <2>1. [s EXCEPT !.ptr = ANON, !.do_unlink = FALSE, !.shared = FALSE] \in AvShm
    BY <1>0, PageAlignNat DEF AvShm
  <2>2. [s EXCEPT !.ptr = MAP_FAILED] \in AvShm
    BY <1>0, PageAlignNat DEF AvShm
  <2>3. m' \in [Procs -> [Handles -> AvShm]]
    BY <2>1, <2>2, SetNewType
  <2> QED BY <1>0, <2>3 DEF HandleTypeOK
<1>4. ScanTypeOK'
    BY DEF ScanTypeOK
<1>5. RecordTypeOK'
    BY FaultsAssumption DEF RecordTypeOK
<1>6. ASSUME NEW q \in Procs PROVE CallInv(q)'
  <2>1. CASE q = p
    BY <1>0, <2>1 DEF CallInv, KernelTypeOK, CallTypeOK, HandleTypeOK, SetNew, Creating, New,
        ScanPcs, CreatePcs, AttachPcs, NoCall
  <2>2. CASE q # p
    BY <2>2 DEF CallInv, CallTypeOK, HandleTypeOK, SetNew, Creating, New
  <2> QED BY <2>1, <2>2
<1> QED BY <1>1, <1>2, <1>3, <1>4, <1>5, <1>6

\* Drawing an id and creating the name (shm.c:86) preserves the types and
\* the per-call knowledge of TypeInv.
LEMMA TypeOpenExcl ==
    ASSUME TypeInv, NEW p \in Procs, shm_open_excl(p)
    PROVE  TypeInv'
<1> USE RecordTypes, PcTypes DEF TypeInv, TypeOK, shm_open_excl,
        Return, Goto, Fault, NoFault, scanVars
<1>0. call[p].op = "create" /\ call[p].h \in Handles \ held[p] /\ New(p) \in AvShm
      /\ call[p].size \in Nat /\ life[p] = "live" /\ call[p].size \in Sizes
    BY DEF CallInv, CreatePcs, CallTypeOK, Call, HandleTypeOK, New
<1>a. /\ life' = life /\ held' = held /\ call[p].shared # 0
      /\ \/ fd' = fd /\ Return(p)
         \/ /\ \E o \in Objs : fd' = [fd EXCEPT ![p] = o]
            /\ Goto(p, "ftruncate")
            /\ UNCHANGED <<call, ent>>
    OBVIOUS
<1>1. KernelTypeOK'
  <2>1. CASE UNCHANGED <<dir, obj>>
    BY <2>1 DEF KernelTypeOK
  <2>2. CASE ~UNCHANGED <<dir, obj>>
    <3>1. PICK id \in Ids, o \in Objs :
            /\ dir' = [dir EXCEPT ![id] = o]
            /\ obj' = [obj EXCEPT ![o].owner = p, ![o].name = id]
        BY <2>2
    <3> QED BY <3>1 DEF KernelTypeOK, Segment
  <2> QED BY <2>1, <2>2
<1>2. CallTypeOK'
  <2> HIDE DEF shm_open_excl
  <2> QED BY <1>a DEF CallTypeOK
<1>3. HandleTypeOK'
  <2>1. m' \in [Procs -> [Handles -> AvShm]]
    BY <1>0, SetNewType, AvShmUpdates
  <2> QED BY <2>1 DEF HandleTypeOK
<1>4. ScanTypeOK'
    BY DEF ScanTypeOK
<1>5. RecordTypeOK'
    BY FaultsAssumption DEF RecordTypeOK
<1>6. ASSUME NEW q \in Procs PROVE CallInv(q)'
  <2>1. CASE q = p
    <3> HIDE DEF shm_open_excl
    <3>0. CallInv(p) /\ pc[p] = "alloc"
        BY DEF shm_open_excl
    <3>1. CASE Return(p)
        BY <1>0, <1>a, <2>1, <3>1 DEF CallInv, CallTypeOK, Creating, ScanPcs,
            CreatePcs, AttachPcs
    <3>2. CASE ~Return(p)
        <4>1. /\ pc'[p] = "ftruncate" /\ fd'[p] \in Objs
              /\ call' = call /\ ent' = ent
            BY <1>a, <3>2 DEF CallTypeOK
        <4> HIDE DEF TypeInv, Goto, Return
        <4> QED BY <1>0, <1>a, <2>1, <3>0, <4>1 DEF CallInv, Creating, ScanPcs,
                    CreatePcs, AttachPcs
    <3> QED BY <3>1, <3>2
  <2>2. CASE q # p
    <3>1. m'[q] = m[q] /\ UNCHANGED <<life, held, seg>>
        BY <2>2 DEF HandleTypeOK, SetNew
    <3> HIDE DEF shm_open_excl
    <3>2. pc'[q] = pc[q] /\ call'[q] = call[q] /\ ent'[q] = ent[q] /\ fd'[q] = fd[q]
        BY <1>a, <2>2 DEF CallTypeOK
    <3>3. CallInv(q)
        OBVIOUS
    <3> HIDE DEF TypeInv
    <3> QED BY <3>1, <3>2, <3>3 DEF CallInv, Creating, New
  <2> QED BY <2>1, <2>2
<1> QED BY <1>1, <1>2, <1>3, <1>4, <1>5, <1>6

\* Sizing the segment (shm.c:94) preserves the types and the per-call
\* knowledge of TypeInv.
LEMMA TypeFtruncate ==
    ASSUME TypeInv, NEW p \in Procs, ftruncate(p)
    PROVE  TypeInv'
<1> USE RecordTypes, PcTypes DEF TypeInv, TypeOK, ftruncate,
        Goto, Fault, NoFault, scanVars
<1>0. call[p].op = "create" /\ call[p].h \in Handles \ held[p] /\ New(p) \in AvShm
      /\ call[p].size \in Nat /\ life[p] = "live" /\ call[p].size \in Sizes
    BY DEF CallInv, CreatePcs, CallTypeOK, Call, HandleTypeOK, New
<1>1. KernelTypeOK'
    BY <1>0, SegmentSizeNat DEF KernelTypeOK, Segment
<1>2. CallTypeOK'
    BY DEF CallTypeOK
<1>3. HandleTypeOK'
  <2>1. [New(p) EXCEPT !.size = SegmentSize(call[p].size)] \in AvShm
    BY <1>0, SegmentSizeNat DEF AvShm
  <2> QED BY <2>1, SetNewType DEF HandleTypeOK
<1>4. ScanTypeOK'
    BY DEF ScanTypeOK
<1>5. RecordTypeOK'
    BY FaultsAssumption DEF RecordTypeOK
<1>6. ASSUME NEW q \in Procs PROVE CallInv(q)'
  <2>1. CASE q = p
    BY <1>0, <2>1 DEF CallInv, KernelTypeOK, CallTypeOK, HandleTypeOK, SetNew, Creating, New,
        ScanPcs, CreatePcs, AttachPcs, NoCall
  <2>2. CASE q # p
    BY <2>2 DEF CallInv, CallTypeOK, HandleTypeOK, SetNew, Creating, New
  <2> QED BY <2>1, <2>2
<1> QED BY <1>1, <1>2, <1>3, <1>4, <1>5, <1>6

\* Mapping the new segment (shm.c:101) preserves the types and the per-call
\* knowledge of TypeInv.
LEMMA TypeMmapRw ==
    ASSUME TypeInv, NEW p \in Procs, mmap_rw(p)
    PROVE  TypeInv'
<1> USE RecordTypes, PcTypes DEF TypeInv, TypeOK, mmap_rw,
        Goto, Fault, NoFault, kernelVars, scanVars
<1>0. call[p].op = "create" /\ call[p].h \in Handles \ held[p] /\ New(p) \in AvShm
      /\ call[p].size \in Nat /\ life[p] = "live" /\ call[p].size \in Sizes
    BY DEF CallInv, CreatePcs, CallTypeOK, Call, HandleTypeOK, New
<1>1. KernelTypeOK'
    BY DEF KernelTypeOK
<1>2. CallTypeOK'
    BY DEF CallTypeOK
<1>3. HandleTypeOK'
  <2>1. fd[p] \in Objs
    BY DEF CallInv, Creating
  <2>2. m' \in [Procs -> [Handles -> AvShm]]
    BY <1>0, <2>1, AvShmUpdates, SetNewType
  <2> QED BY <2>2 DEF HandleTypeOK
<1>4. ScanTypeOK'
    BY DEF ScanTypeOK
<1>5. RecordTypeOK'
    BY FaultsAssumption DEF RecordTypeOK
<1>6. ASSUME NEW q \in Procs PROVE CallInv(q)'
  <2>1. CASE q = p
    <3>1. /\ New(p)'.size = New(p).size
          /\ pc'[p] = "store_pid" => New(p)'.ptr = fd[p]
        BY <1>0 DEF SetNew, New, HandleTypeOK, CallTypeOK, AvShm
    <3> QED BY <1>0, <2>1, <3>1 DEF CallInv, KernelTypeOK, CallTypeOK, HandleTypeOK,
                Creating, ScanPcs, CreatePcs, AttachPcs
  <2>2. CASE q # p
    BY <2>2 DEF CallInv, CallTypeOK, HandleTypeOK, SetNew, Creating, New
  <2> QED BY <2>1, <2>2
<1> QED BY <1>1, <1>2, <1>3, <1>4, <1>5, <1>6

\* Storing the marker and returning (shm.c:110) preserves the types and the
\* per-call knowledge of TypeInv.
LEMMA TypeStoreMarker ==
    ASSUME TypeInv, NEW p \in Procs, store_marker(p)
    PROVE  TypeInv'
<1> USE RecordTypes, PcTypes DEF TypeInv, TypeOK, store_marker,
        Return, Goto, scanVars
<1>0. call[p].op = "create" /\ call[p].h \in Handles \ held[p] /\ New(p) \in AvShm
      /\ call[p].size \in Nat /\ life[p] = "live" /\ call[p].size \in Sizes
    BY DEF CallInv, CreatePcs, CallTypeOK, Call, HandleTypeOK, New
<1>1. KernelTypeOK'
    BY <1>0 DEF KernelTypeOK, Segment
<1>2. CallTypeOK'
    BY DEF CallTypeOK
<1>3. HandleTypeOK'
  <2>1. [New(p) EXCEPT !.do_unlink = TRUE, !.shared = OneBit(call[p].shared)] \in AvShm
    BY <1>0 DEF AvShm, OneBit
  <2> QED BY <1>0, <2>1, SetNewType DEF HandleTypeOK
<1>4. ScanTypeOK'
    BY DEF ScanTypeOK
<1>5. RecordTypeOK'
    BY FaultsAssumption DEF RecordTypeOK
<1>6. ASSUME NEW q \in Procs PROVE CallInv(q)'
  <2>1. CASE q = p
    BY <1>0, <2>1 DEF CallInv, KernelTypeOK, CallTypeOK, HandleTypeOK, SetNew, Creating, New,
        ScanPcs, CreatePcs, AttachPcs, NoCall
  <2>2. CASE q # p
    BY <2>2 DEF CallInv, CallTypeOK, HandleTypeOK, SetNew, Creating, New
  <2> QED BY <2>1, <2>2
<1> QED BY <1>1, <1>2, <1>3, <1>4, <1>5, <1>6

\* Writing the variable an attach fills keeps the variables well typed.
LEMMA SetTargetType ==
    ASSUME HandleTypeOK, ScanTypeOK, NEW p \in Procs, NEW s \in AvShm,
           SetTarget(p, s)
    PROVE  /\ m' \in [Procs -> [Handles -> AvShm]]
           /\ seg' \in [Procs -> AvShm]
<1>1. CASE call[p].op = "attach"
  <2>1. m' = [m EXCEPT ![p] = [m[p] EXCEPT ![call[p].h] = s]] /\ seg' = seg
    BY <1>1 DEF SetTarget
  <2> QED BY <2>1 DEF HandleTypeOK, ScanTypeOK
<1>2. CASE call[p].op # "attach"
    BY <1>2 DEF HandleTypeOK, ScanTypeOK, SetTarget
<1> QED BY <1>1, <1>2

\* fstat, the size check and mmap of av_shm_attach_ro (shm.c:145) preserves
\* the types and the per-call knowledge of TypeInv.
LEMMA TypeFstat ==
    ASSUME TypeInv, NEW p \in Procs, fstat_mmap_ro(p)
    PROVE  TypeInv'
<1> USE RecordTypes, PcTypes DEF TypeInv, TypeOK, fstat_mmap_ro, AttachFails,
        Return, Goto, Fault, NoFault, Excused, kernelVars
<1>0. /\ fd[p] \in Objs
      /\ obj[fd[p]].size \in Nat
      /\ life[p] = "live"
      /\ call[p].op \in {"create", "attach", "cleanup"}
      /\ call[p].op = "attach" => call[p].h \in Handles \ held[p]
      /\ Target(p) \in AvShm
      /\ ent[p] \in Ids
    <2> HIDE DEF fstat_mmap_ro
    <2>1. pc[p] = "fstat"
        BY DEF fstat_mmap_ro
    <2> QED BY <2>1 DEF CallInv, AttachPcs, CallTypeOK, Call, HandleTypeOK, ScanTypeOK,
                KernelTypeOK, Segment, Target
<1>a. /\ Attached(Target(p), fd[p], obj[fd[p]].size) \in AvShm
      /\ [Target(p) EXCEPT !.size = obj[fd[p]].size, !.ptr = MAP_FAILED] \in AvShm
    <2> HIDE DEF fstat_mmap_ro
    <2> QED BY <1>0 DEF AvShm, Attached
<1>b. /\ m' \in [Procs -> [Handles -> AvShm]]
      /\ seg' \in [Procs -> AvShm]
    <2>1. CASE \E s \in AvShm : SetTarget(p, s)
        <3> HIDE DEF fstat_mmap_ro
        <3> QED BY <2>1, SetTargetType
    <2>2. CASE UNCHANGED <<m, seg>>
        <3> HIDE DEF fstat_mmap_ro
        <3> QED BY <2>2 DEF HandleTypeOK, ScanTypeOK
    <2> QED BY <1>a, <2>1, <2>2
<1>c. /\ UNCHANGED <<dir, obj, life, pid, rpid, must, todo, drawn>>
      /\ fd' = [fd EXCEPT ![p] = NULL]
      /\ IF call[p].op = "attach"
         THEN /\ Return(p)
              /\ \/ UNCHANGED held
                 \/ held' = [held EXCEPT ![p] = @ \cup {call[p].h}]
         ELSE /\ \/ Goto(p, "readdir")
                 \/ Goto(p, "marker") /\ SetTarget(p, Attached(Target(p), fd[p], obj[fd[p]].size))
              /\ UNCHANGED <<call, ent, held>>
      /\ call[p].op = "attach" => UNCHANGED seg
      /\ call[p].op # "attach" => UNCHANGED m
      /\ \A q \in Procs : q # p => m'[q] = m[q] /\ seg'[q] = seg[q]
      /\ UNCHANGED stale \/ Excused(p)
      /\ UNCHANGED faults \/ Fault
    BY DEF SetTarget, HandleTypeOK, ScanTypeOK
<1> HIDE DEF fstat_mmap_ro
<1>1. KernelTypeOK'
    BY <1>c DEF KernelTypeOK
<1>2. CallTypeOK'
    BY <1>c DEF CallTypeOK
<1>3. HandleTypeOK'
    BY <1>0, <1>b, <1>c DEF HandleTypeOK
<1>4. ScanTypeOK'
    BY <1>b, <1>c DEF ScanTypeOK
<1>5. RecordTypeOK'
    BY <1>c, FaultsAssumption DEF RecordTypeOK
<1>6. ASSUME NEW q \in Procs PROVE CallInv(q)'
  <2>1. CASE q = p
    <3>1. CASE call[p].op = "attach"
        BY <1>0, <1>c, <2>1, <3>1 DEF CallInv, CallTypeOK, Creating, ScanPcs,
            CreatePcs, AttachPcs
    <3>2. CASE call[p].op # "attach"
        <4>1. pc'[p] \in {"readdir", "marker"}
            BY <1>c, <3>2 DEF CallTypeOK
        <4>2. pc'[p] = "marker" =>
                seg'[p] = Attached(Target(p), fd[p], obj[fd[p]].size)
            BY <1>c, <3>2 DEF SetTarget, CallTypeOK, ScanTypeOK
        <4>3. pc'[p] = "marker" => seg'[p].ptr \in Objs
            BY <1>0, <4>2 DEF Attached, AvShm
        <4>4. call'[p] = call[p] /\ ent'[p] = ent[p] /\ held' = held /\ life' = life
            BY <1>c, <3>2
        <4>5. CallInv(p) /\ pc[p] = "fstat"
            BY DEF fstat_mmap_ro
        <4>6. CallInv(p)'
            <5> HIDE DEF Goto, Return, AttachFails, TypeInv
            <5> QED BY <1>0, <3>2, <4>1, <4>3, <4>4, <4>5 DEF CallInv, Creating,
                        ScanPcs, CreatePcs, AttachPcs
        <4> QED BY <2>1, <4>6
    <3> QED BY <3>1, <3>2
  <2>2. CASE q # p
    BY <1>c, <2>2 DEF CallInv, CallTypeOK, HandleTypeOK, Creating, New
  <2> QED BY <2>1, <2>2
<1> QED BY <1>1, <1>2, <1>3, <1>4, <1>5, <1>6

\* TypeInv is inductive: every step of every process preserves it.
LEMMA TypeStep == TypeInv /\ [Next]_vars => TypeInv'
<1> SUFFICES ASSUME TypeInv, [Next]_vars PROVE TypeInv'
    OBVIOUS
<1>1. CASE UNCHANGED vars
    BY <1>1 DEF vars, TypeInv, TypeOK, KernelTypeOK, CallTypeOK, HandleTypeOK,
        ScanTypeOK, RecordTypeOK, CallInv, Creating, New
<1>2. ASSUME NEW p \in Procs, Spawn(p) \/ Exit(p) \/ Request(p)
      PROVE  TypeInv'
    BY <1>2, TypeSpawn, TypeExit, TypeCleanup, TypeCreateRw, TypeAttachRo,
       TypeFree DEF Request
<1>3. ASSUME NEW p \in Procs, Step(p)
      PROVE  TypeInv'
    BY <1>3, TypeOpendir, TypeReaddir, TypeClosedir, TypeOpenRo, TypeFstat,
       TypeLoadMarker, TypeLoadPid, TypeKill, TypeUnlink, TypeMmapPrivate,
       TypeOpenExcl, TypeFtruncate, TypeMmapRw, TypeStorePid, TypeStoreMarker,
       TypeCreateFail DEF Step
<1> QED BY <1>1, <1>2, <1>3 DEF Next

\* Every variable keeps its type, and a process in a call has the arguments,
\* descriptor and mapping the rest of the call uses (shm.c:53 to 268).
THEOREM TypeInvariant == Spec => []TypeInv
BY TypeInit, TypeStep, PTL DEF Spec

\* Every variable keeps its type, for every instance of the constants.
THEOREM TypeCorrect == Spec => []TypeOK
BY TypeInvariant, PTL DEF TypeInv

\* Every other step leaves the sizes of all objects alone.
LEMMA SizeFrame ==
    ASSUME TypeInv, [Next]_vars, NEW o \in Objs, obj'[o].size # obj[o].size
    PROVE  \E p \in Procs : ftruncate(p)
<1> SUFFICES ASSUME \A p \in Procs : ~ftruncate(p) PROVE obj'[o].size = obj[o].size
    OBVIOUS
<1>1. CASE obj' = obj
    BY <1>1
<1>2. ASSUME NEW p \in Procs, Step(p), obj' # obj
      PROVE  obj'[o].size = obj[o].size
  <2>1. shm_open_excl(p) \/ store_pid(p) \/ store_marker(p)
    BY <1>2 DEF Step, opendir, readdir, closedir, shm_open_ro, fstat_mmap_ro,
        load_marker, load_pid, kill, unlink_stale, mmap_private, mmap_rw,
        create_fail, kernelVars
  <2>2. CASE shm_open_excl(p)
    <3>1. PICK id \in Ids, x \in Objs :
            obj' = [obj EXCEPT ![x].owner = p, ![x].name = id]
        BY <1>2, <2>2 DEF shm_open_excl
    <3> QED BY <3>1 DEF TypeInv, TypeOK, KernelTypeOK, Segment
  <2>3. CASE store_pid(p)
    BY <2>3 DEF store_pid, TypeInv, TypeOK, KernelTypeOK, Segment
  <2>4. CASE store_marker(p)
    BY <2>4 DEF store_marker, TypeInv, TypeOK, KernelTypeOK, Segment
  <2> QED BY <2>1, <2>2, <2>3, <2>4
<1>3. ASSUME NEW p \in Procs, Spawn(p) \/ Exit(p) \/ Request(p) PROVE obj' = obj
    BY <1>3 DEF Spawn, Exit, Request, av_shm_cleanup, av_shm_create_rw,
        av_shm_attach_ro, av_shm_free, kernelVars
<1> QED BY <1>1, <1>2, <1>3 DEF Next, vars

\* For every word, page and marker size that satisfies the assumptions, a
\* segment av_shm_create_rw makes (shm.c:94) passes the size check of
\* av_shm_attach_ro (shm.c:150). A segment changes its size only in the
\* ftruncate of its creation.
THEOREM SizesAttachable == Spec => []SegmentsAttachable
<1>1. Init => SegmentsAttachable
    BY DEF Init, SegmentsAttachable, Unused
<1>2. TypeInv /\ SegmentsAttachable /\ [Next]_vars => SegmentsAttachable'
  <2> SUFFICES ASSUME TypeInv, SegmentsAttachable, [Next]_vars,
                      NEW o \in Objs, obj'[o].size # 0
               PROVE  SizeValid(obj'[o].size)
    BY DEF SegmentsAttachable
  <2>1. CASE obj'[o].size = obj[o].size
    BY <2>1 DEF SegmentsAttachable
  <2>2. CASE obj'[o].size # obj[o].size
    <3>1. PICK p \in Procs : ftruncate(p)
        BY <2>2, SizeFrame
    <3>2. call[p].size \in Sizes
        BY <3>1 DEF ftruncate, TypeInv, CallInv, CreatePcs
    <3>3. obj'[o].size = SegmentSize(call[p].size)
        BY <2>2, <3>1 DEF ftruncate, TypeInv, TypeOK, KernelTypeOK, Segment
    <3> QED BY <3>2, <3>3, SegmentSizeValid
  <2> QED BY <2>1, <2>2
<1> QED BY <1>1, <1>2, TypeInvariant, PTL DEF Spec

-----------------------------------------------------------------------------
(* Names. *)

\* What a process q relies on in the kernel, across a step.
Foreign(q) ==
    /\ \A o \in Objs : obj[o].owner # NULL =>
        /\ obj'[o].owner = obj[o].owner
        /\ obj'[o].name = obj[o].name
        /\ obj[o].marker => obj'[o].marker /\ obj'[o].pid = obj[o].pid
    /\ \A o \in Objs : obj[o].owner = NULL /\ obj'[o].owner # NULL =>
        obj'[o].name \notin drawn
    /\ drawn \subseteq drawn'
    /\ life[q] = "live" => \A i \in Ids :
        dir[i] # NULL /\ obj[dir[i]].owner = q => dir'[i] = dir[i]
    /\ \A r \in Procs : life[r] = "dead" => life'[r] = "dead"
    /\ pc[q] = "store_marker" =>
        obj'[fd[q]].pid = obj[fd[q]].pid /\ pid'[q] = pid[q]

\* The locals of q, across a step of another process.
Local(q) ==
    /\ pc'[q] = pc[q] /\ call'[q] = call[q] /\ m'[q] = m[q] /\ held'[q] = held[q]
    /\ fd'[q] = fd[q] /\ ent'[q] = ent[q] /\ seg'[q] = seg[q] /\ rpid'[q] = rpid[q]

\* The variables of q that unlink, and the name q is creating, across a step
\* that adds none.
SameClaims(q) ==
    /\ \A h \in Unlinkers(q)' : h \in Unlinkers(q) /\ m'[q][h].id = m[q][h].id
    /\ Creating(q)' => Creating(q) /\ New(q)'.id = New(q).id

\* What writing the variable of a creation does, and what it leaves alone.
LEMMA SetNewValue ==
    ASSUME HandleTypeOK, NEW p \in Procs, call[p].h \in Handles, NEW s,
           SetNew(p, s)
    PROVE  /\ m'[p][call[p].h] = s
           /\ \A h \in Handles : h # call[p].h => m'[p][h] = m[p][h]
           /\ \A q \in Procs : q # p => m'[q] = m[q]
BY DEF HandleTypeOK, SetNew

\* What a process knows of the names it holds survives a step that takes none
\* of them away and adds no claim of its own.
LEMMA HoldKeeps ==
    ASSUME NamesInv, TypeInv', NEW q \in Procs, Foreign(q), SameClaims(q)
    PROVE  HoldInv(q)'
<1>1. ASSUME NEW h \in Unlinkers(q)'
      PROVE  /\ m'[q][h].id \in Ids
             /\ dir'[m'[q][h].id] # NULL
             /\ obj'[dir'[m'[q][h].id]].owner = q
             /\ Creating(q)' => m'[q][h].id # New(q)'.id
  <2> DEFINE i == m[q][h].id
  <2>1. /\ h \in Unlinkers(q)
        /\ m'[q][h].id = i
        /\ Creating(q)' => Creating(q) /\ New(q)'.id = New(q).id
    BY <1>1 DEF SameClaims
  <2>2. i \in Ids /\ dir[i] # NULL /\ obj[dir[i]].owner = q
        /\ (Creating(q) => i # New(q).id)
    BY <2>1 DEF NamesInv, HoldInv
  <2>3. dir[i] \in Objs /\ q # NULL
    BY <2>2, SentinelAssumption DEF NamesInv, TypeInv, TypeOK, KernelTypeOK
  <2>4. life[q] = "live"
    BY <2>1 DEF Unlinkers, NamesInv, TypeInv, CallInv
  <2>5. dir'[i] = dir[i] /\ obj'[dir[i]].owner = q
    BY <2>2, <2>3, <2>4 DEF Foreign
  <2> QED BY <2>1, <2>2, <2>5
<1>2. ASSUME NEW h1 \in Unlinkers(q)', NEW h2 \in Unlinkers(q)',
             m'[q][h1].id = m'[q][h2].id
      PROVE  h1 = h2
    BY <1>2 DEF SameClaims, NamesInv, HoldInv
<1> QED BY <1>1, <1>2 DEF HoldInv

\* What a process knows of the segment it creates survives such a step.
LEMMA CreateKeeps ==
    ASSUME NamesInv, TypeInv', NEW q \in Procs, Foreign(q), SameClaims(q),
           Creating(q)' => fd'[q] = fd[q],
           pc'[q] = "store_marker" => pc[q] = "store_marker"
    PROVE  CreateInv(q)'
<1>1. ASSUME Creating(q)'
      PROVE  /\ obj'[fd'[q]].owner = q
             /\ New(q)'.id \in Ids
             /\ dir'[New(q)'.id] = fd'[q]
  <2>1. Creating(q) /\ New(q)'.id = New(q).id /\ fd'[q] = fd[q]
    BY <1>1 DEF SameClaims
  <2>2. obj[fd[q]].owner = q /\ New(q).id \in Ids /\ dir[New(q).id] = fd[q]
    BY <2>1 DEF NamesInv, CreateInv
  <2>3. fd[q] \in Objs /\ q # NULL /\ fd[q] # NULL
    BY <2>1, SentinelAssumption DEF NamesInv, TypeInv, CallInv
  <2>4. life[q] = "live"
    BY <2>1 DEF Creating, NamesInv, TypeInv, CallInv
  <2> QED BY <2>1, <2>2, <2>3, <2>4 DEF Foreign
<1>2. ASSUME pc'[q] = "store_marker"
      PROVE  obj'[fd'[q]].pid = pid'[q]
  <2>1. Creating(q)' /\ Creating(q) /\ pc[q] = "store_marker"
    BY <1>2 DEF Creating
  <2> QED BY <1>2, <2>1 DEF Foreign, NamesInv, CreateInv
<1> QED BY <1>1, <1>2 DEF CreateInv

\* What a cleanup read of an entry survives every step of others: no new
\* object gets the name, a marked pid never changes, and the dead stay dead.
LEMMA ScanKeeps ==
    ASSUME NamesInv, TypeInv', NEW q \in Procs, Foreign(q), Local(q)
    PROVE  ScanInv(q)'
<1> USE DEF Local
<1>a. ScanInv(q) /\ CallInv(q) /\ TypeOK
    BY DEF NamesInv, TypeInv
<1>0. /\ pc[q] \in {"marker", "pid", "kill"} => seg[q].ptr \in Objs
      /\ pc[q] = "fstat" => fd[q] \in Objs
    BY <1>a DEF CallInv
<1>1. pc'[q] = "fstat" =>
        obj'[fd'[q]].owner # NULL
            /\ (call'[q].op # "attach" => obj'[fd'[q]].name = ent'[q])
    BY <1>0, <1>a DEF ScanInv, Foreign
<1>2. pc'[q] \in {"marker", "pid", "kill"} =>
        /\ obj'[seg'[q].ptr].owner # NULL
        /\ obj'[seg'[q].ptr].name = ent'[q]
        /\ ~seg'[q].do_unlink
    BY <1>0, <1>a DEF ScanInv, Foreign
<1>3. pc'[q] \in {"pid", "kill"} => obj'[seg'[q].ptr].marker
    BY <1>0, <1>a DEF ScanInv, Foreign
<1>4. pc'[q] = "kill" => rpid'[q] = obj'[seg'[q].ptr].pid
    BY <1>0, <1>a DEF ScanInv, Foreign
<1>5. pc'[q] = "unlink" =>
        /\ ent'[q] \in drawn'
        /\ \A o \in Objs : obj'[o].owner # NULL /\ obj'[o].name = ent'[q] =>
            life'[obj'[o].owner] = "dead"
    <2> SUFFICES ASSUME pc[q] = "unlink", NEW o \in Objs,
                        obj'[o].owner # NULL, obj'[o].name = ent[q]
                 PROVE  life'[obj'[o].owner] = "dead"
        BY <1>a DEF ScanInv, Foreign
    <2>1. ent[q] \in drawn
        BY <1>a DEF ScanInv
    <2>2. obj[o].owner # NULL
        BY <2>1 DEF Foreign
    <2>3. obj'[o].owner = obj[o].owner /\ obj'[o].name = obj[o].name
        BY <2>2 DEF Foreign
    <2>4. life[obj[o].owner] = "dead" /\ obj[o].owner \in Procs
        BY <1>a, <2>2, <2>3 DEF ScanInv, TypeOK, KernelTypeOK, Segment
    <2> QED BY <2>3, <2>4 DEF Foreign
<1> QED BY <1>1, <1>2, <1>3, <1>4, <1>5 DEF ScanInv

\* A process that takes no step keeps what it knows.
LEMMA LocalKeeps ==
    ASSUME NamesInv, TypeInv', NEW q \in Procs, Foreign(q), Local(q)
    PROVE  CreateInv(q)' /\ HoldInv(q)' /\ ScanInv(q)'
<1>1. SameClaims(q)
    BY DEF Local, SameClaims, Unlinkers, Creating, New
<1> QED BY <1>1, HoldKeeps, CreateKeeps, ScanKeeps DEF Local

\* The kernel is left alone.
Quiet == UNCHANGED <<dir, obj, life, pid, drawn>>

\* A step that leaves the kernel's state alone disturbs nobody.
LEMMA QuietForeign ==
    ASSUME NamesInv, Quiet
    PROVE  ObjInv' /\ \A q \in Procs : Foreign(q)
<1>1. ObjInv'
    BY DEF NamesInv, ObjInv, Quiet
<1>2. \A q \in Procs : Foreign(q)
    BY DEF Foreign, Quiet
<1> QED BY <1>1, <1>2

\* A step of p that leaves the kernel alone and adds no claim.
LEMMA QuietStep ==
    ASSUME NamesInv, TypeInv', NEW p \in Procs, Quiet, SameClaims(p),
           Creating(p)' => fd'[p] = fd[p],
           pc'[p] = "store_marker" => pc[p] = "store_marker",
           \A q \in Procs : q # p => Local(q),
           ScanInv(p)'
    PROVE  NamesInv'
<1>1. ObjInv' /\ \A q \in Procs : Foreign(q)
    BY QuietForeign
<1>2. CreateInv(p)' /\ HoldInv(p)'
    BY <1>1, HoldKeeps, CreateKeeps
<1>3. \A q \in Procs : q # p => CreateInv(q)' /\ HoldInv(q)' /\ ScanInv(q)'
    BY <1>1, LocalKeeps
<1> QED BY <1>1, <1>2, <1>3 DEF NamesInv

\* A call of av_shm_cleanup (shm.c:208) preserves NamesInv.
LEMMA NamesCleanup ==
    ASSUME NamesInv, TypeInv', NEW p \in Procs, av_shm_cleanup(p)
    PROVE  NamesInv'
<1> USE DEF av_shm_cleanup, MayCall, Calling, Goto, kernelVars, handleVars, scanVars
<1>0. TypeOK /\ CallInv(p) /\ ScanInv(p)
    BY DEF NamesInv, TypeInv
<1>1. Quiet
    BY DEF Quiet
<1>2. \A q \in Procs : q # p => Local(q)
    BY <1>0 DEF Local, TypeOK, CallTypeOK, HandleTypeOK, ScanTypeOK
<1>3. /\ SameClaims(p)
      /\ Creating(p)' => fd'[p] = fd[p]
      /\ pc'[p] # "store_marker"
    BY <1>0 DEF SameClaims, Unlinkers, Creating, New, TypeOK, CallTypeOK, HandleTypeOK
<1>4. ScanInv(p)'
    BY <1>0 DEF ScanInv, TypeOK, CallTypeOK
<1> QED BY <1>1, <1>2, <1>3, <1>4, QuietStep

\* A call of av_shm_create_rw (shm.c:53) preserves NamesInv.
LEMMA NamesCreateRw ==
    ASSUME NamesInv, TypeInv', NEW p \in Procs, NEW h \in Handles, NEW size \in Sizes,
           NEW shared \in SharedArgs, av_shm_create_rw(p, h, size, shared)
    PROVE  NamesInv'
<1> USE DEF av_shm_create_rw, MayCall, Calling, Goto, kernelVars, handleVars, scanVars
<1>0. TypeOK /\ CallInv(p) /\ ScanInv(p)
    BY DEF NamesInv, TypeInv
<1>1. Quiet
    BY DEF Quiet
<1>2. \A q \in Procs : q # p => Local(q)
    BY <1>0 DEF Local, TypeOK, CallTypeOK, HandleTypeOK, ScanTypeOK
<1>3. /\ SameClaims(p)
      /\ Creating(p)' => fd'[p] = fd[p]
      /\ pc'[p] # "store_marker"
    BY <1>0 DEF SameClaims, Unlinkers, Creating, New, TypeOK, CallTypeOK, HandleTypeOK
<1>4. ScanInv(p)'
    BY <1>0 DEF ScanInv, TypeOK, CallTypeOK
<1> QED BY <1>1, <1>2, <1>3, <1>4, QuietStep

\* A call of av_shm_attach_ro (shm.c:129) preserves NamesInv.
LEMMA NamesAttachRo ==
    ASSUME NamesInv, TypeInv', NEW p \in Procs, NEW h \in Handles, NEW id \in Ids,
           av_shm_attach_ro(p, h, id)
    PROVE  NamesInv'
<1> USE DEF av_shm_attach_ro, MayCall, Calling, Goto, kernelVars, scanVars
<1>0. TypeOK /\ CallInv(p) /\ ScanInv(p)
    BY DEF NamesInv, TypeInv
<1>1. Quiet
    BY DEF Quiet
<1>2. \A q \in Procs : q # p => Local(q)
    BY <1>0 DEF Local, TypeOK, CallTypeOK, HandleTypeOK, ScanTypeOK
<1>3. /\ SameClaims(p)
      /\ Creating(p)' => fd'[p] = fd[p]
      /\ pc'[p] # "store_marker"
    BY <1>0 DEF SameClaims, Unlinkers, Creating, New, TypeOK, CallTypeOK, HandleTypeOK
<1>4. ScanInv(p)'
    BY <1>0 DEF ScanInv, TypeOK, CallTypeOK
<1> QED BY <1>1, <1>2, <1>3, <1>4, QuietStep

\* opendir (shm.c:212) preserves NamesInv.
LEMMA NamesOpendir ==
    ASSUME NamesInv, TypeInv', NEW p \in Procs, opendir(p)
    PROVE  NamesInv'
<1> USE DEF opendir, CleanupReturns, Return, Goto, kernelVars, handleVars
<1>0. TypeOK /\ CallInv(p) /\ ScanInv(p)
    BY DEF NamesInv, TypeInv
<1>1. Quiet
    BY DEF Quiet
<1>2. \A q \in Procs : q # p => Local(q)
    BY <1>0 DEF Local, TypeOK, CallTypeOK, HandleTypeOK, ScanTypeOK
<1>3. /\ SameClaims(p)
      /\ Creating(p)' => fd'[p] = fd[p]
      /\ pc'[p] # "store_marker"
    BY <1>0 DEF SameClaims, Unlinkers, Creating, New, TypeOK, CallTypeOK, HandleTypeOK
<1>4. ScanInv(p)'
    BY <1>0 DEF ScanInv, TypeOK, CallTypeOK
<1> QED BY <1>1, <1>2, <1>3, <1>4, QuietStep

\* readdir and the test of the entry (shm.c:217) preserves NamesInv.
LEMMA NamesReaddir ==
    ASSUME NamesInv, TypeInv', NEW p \in Procs, readdir(p)
    PROVE  NamesInv'
<1> USE DEF readdir, Goto, kernelVars, handleVars
<1>0. TypeOK /\ CallInv(p) /\ ScanInv(p)
    BY DEF NamesInv, TypeInv
<1>1. Quiet
    BY DEF Quiet
<1>2. \A q \in Procs : q # p => Local(q)
    BY <1>0 DEF Local, TypeOK, CallTypeOK, HandleTypeOK, ScanTypeOK
<1>3. /\ SameClaims(p)
      /\ Creating(p)' => fd'[p] = fd[p]
      /\ pc'[p] # "store_marker"
    BY <1>0 DEF SameClaims, Unlinkers, Creating, New, TypeOK, CallTypeOK, HandleTypeOK
<1>4. ScanInv(p)'
    BY <1>0 DEF ScanInv, TypeOK, CallTypeOK
<1> QED BY <1>1, <1>2, <1>3, <1>4, QuietStep

\* The end of the directory (shm.c:265) preserves NamesInv.
LEMMA NamesClosedir ==
    ASSUME NamesInv, TypeInv', NEW p \in Procs, closedir(p)
    PROVE  NamesInv'
<1> USE DEF closedir, CleanupReturns, Return, Goto, kernelVars, handleVars
<1>0. TypeOK /\ CallInv(p) /\ ScanInv(p)
    BY DEF NamesInv, TypeInv
<1>1. Quiet
    BY DEF Quiet
<1>2. \A q \in Procs : q # p => Local(q)
    BY <1>0 DEF Local, TypeOK, CallTypeOK, HandleTypeOK, ScanTypeOK
<1>3. /\ SameClaims(p)
      /\ Creating(p)' => fd'[p] = fd[p]
      /\ pc'[p] # "store_marker"
    BY <1>0 DEF SameClaims, Unlinkers, Creating, New, TypeOK, CallTypeOK, HandleTypeOK
<1>4. ScanInv(p)'
    BY <1>0 DEF ScanInv, TypeOK, CallTypeOK
<1> QED BY <1>1, <1>2, <1>3, <1>4, QuietStep

\* shm_open in av_shm_attach_ro (shm.c:138) preserves NamesInv.
LEMMA NamesOpenRo ==
    ASSUME NamesInv, TypeInv', NEW p \in Procs, shm_open_ro(p)
    PROVE  NamesInv'
<1> USE DEF shm_open_ro, AttachFails, Return, Goto, kernelVars, scanVars
<1>0. TypeOK /\ CallInv(p) /\ ScanInv(p)
    BY DEF NamesInv, TypeInv
<1>1. Quiet
    BY DEF Quiet
<1>2. \A q \in Procs : q # p => Local(q)
    BY <1>0 DEF Local, TypeOK, CallTypeOK, HandleTypeOK, ScanTypeOK
<1>3. /\ SameClaims(p)
      /\ Creating(p)' => fd'[p] = fd[p]
      /\ pc'[p] # "store_marker"
    BY <1>0 DEF SameClaims, Unlinkers, Creating, New, TypeOK, CallTypeOK, HandleTypeOK
<1>4. ScanInv(p)'
  <2>1. ent[p] \in Ids
    BY <1>0 DEF CallInv, AttachPcs
  <2>2. dir[ent[p]] # NULL =>
            obj[dir[ent[p]]].owner # NULL /\ obj[dir[ent[p]]].name = ent[p]
    BY <2>1 DEF NamesInv, ObjInv
  <2> QED BY <1>0, <2>1, <2>2 DEF ScanInv, TypeOK, CallTypeOK
<1> QED BY <1>1, <1>2, <1>3, <1>4, QuietStep

\* Mapping a private area (shm.c:70) preserves NamesInv.
LEMMA NamesMmapPrivate ==
    ASSUME NamesInv, TypeInv', NEW p \in Procs, mmap_private(p)
    PROVE  NamesInv'
<1> USE DEF mmap_private, SetNew, New, Return, Goto, kernelVars, scanVars
<1>0. TypeOK /\ CallInv(p) /\ ScanInv(p)
    BY DEF NamesInv, TypeInv
<1>1. Quiet
    BY DEF Quiet
<1>2. \A q \in Procs : q # p => Local(q)
    BY <1>0 DEF Local, TypeOK, CallTypeOK, HandleTypeOK, ScanTypeOK
<1>3. /\ SameClaims(p)
      /\ Creating(p)' => fd'[p] = fd[p]
      /\ pc'[p] # "store_marker"
  <2>1. call[p].h \in Handles \ held[p] /\ m[p][call[p].h] \in AvShm
    BY <1>0 DEF CallInv, CreatePcs, TypeOK, HandleTypeOK
  <2>2. \A h \in Handles : h # call[p].h => m'[p][h] = m[p][h]
    BY <1>0, <2>1 DEF TypeOK, HandleTypeOK
  <2>3. \/ held'[p] = held[p]
        \/ held'[p] = held[p] \cup {call[p].h} /\ ~m'[p][call[p].h].do_unlink
    <3> HIDE DEF SetNew
    <3>1. CASE held' = held
        BY <3>1
    <3>2. CASE held' # held
        <4> DEFINE s == [New(p) EXCEPT !.id = 0, !.size = av_page_align(call[p].size)]
        <4>1. /\ SetNew(p, [s EXCEPT !.ptr = ANON, !.do_unlink = FALSE, !.shared = FALSE])
              /\ held' = [held EXCEPT ![p] = @ \cup {call[p].h}]
            BY <3>2
        <4>2. m'[p][call[p].h] = [s EXCEPT !.ptr = ANON, !.do_unlink = FALSE,
                                           !.shared = FALSE]
            BY <1>0, <2>1, <4>1, SetNewValue DEF TypeOK
        <4>3. ~m'[p][call[p].h].do_unlink
            BY <2>1, <4>2 DEF AvShm
        <4> QED BY <1>0, <4>1, <4>3 DEF TypeOK, HandleTypeOK
    <3> QED BY <3>1, <3>2
  <2>4. pc'[p] = "idle"
    BY <1>0 DEF TypeOK, CallTypeOK
  <2>5. held[p] \subseteq Handles
    BY <1>0 DEF TypeOK, HandleTypeOK
  <2> HIDE DEF mmap_private
  <2> QED BY <2>1, <2>2, <2>3, <2>4, <2>5 DEF SameClaims, Unlinkers, Creating
<1>4. ScanInv(p)'
    BY <1>0 DEF ScanInv, TypeOK, CallTypeOK
<1> QED BY <1>1, <1>2, <1>3, <1>4, QuietStep

\* Mapping the new segment (shm.c:101) preserves NamesInv.
LEMMA NamesMmapRw ==
    ASSUME NamesInv, TypeInv', NEW p \in Procs, mmap_rw(p)
    PROVE  NamesInv'
<1> USE DEF mmap_rw, SetNew, New, Goto, kernelVars, scanVars
<1>0. TypeOK /\ CallInv(p) /\ ScanInv(p)
    BY DEF NamesInv, TypeInv
<1>1. Quiet
    BY DEF Quiet
<1>2. \A q \in Procs : q # p => Local(q)
    BY <1>0 DEF Local, TypeOK, CallTypeOK, HandleTypeOK, ScanTypeOK
<1>3. /\ SameClaims(p)
      /\ Creating(p)' => fd'[p] = fd[p]
      /\ pc'[p] # "store_marker"
  <2>1. call[p].h \in Handles \ held[p] /\ m[p][call[p].h] \in AvShm
    BY <1>0 DEF CallInv, CreatePcs, TypeOK, HandleTypeOK
  <2>2. /\ \A h \in Handles : h # call[p].h => m'[p][h] = m[p][h]
        /\ m'[p][call[p].h].id = m[p][call[p].h].id
    <3> HIDE DEF SetNew
    <3>1. PICK o : SetNew(p, [New(p) EXCEPT !.ptr = o])
        OBVIOUS
    <3>2. m'[p][call[p].h] = [New(p) EXCEPT !.ptr = o]
        BY <1>0, <2>1, <3>1, SetNewValue DEF TypeOK
    <3> QED BY <1>0, <2>1, <3>1, <3>2, SetNewValue DEF TypeOK, AvShm
  <2>3. held' = held /\ fd' = fd /\ call' = call /\ Creating(p)
        /\ pc'[p] \in {"store_pid", "fail"} /\ held[p] \subseteq Handles
    BY <1>0 DEF TypeOK, CallTypeOK, HandleTypeOK, Creating
  <2> HIDE DEF mmap_rw
  <2> QED BY <2>1, <2>2, <2>3 DEF SameClaims, Unlinkers, Creating
<1>4. ScanInv(p)'
    BY <1>0 DEF ScanInv, TypeOK, CallTypeOK
<1> QED BY <1>1, <1>2, <1>3, <1>4, QuietStep

\* Reading the marker (shm.c:233) preserves NamesInv.
LEMMA NamesLoadMarker ==
    ASSUME NamesInv, TypeInv', NEW p \in Procs, load_marker(p)
    PROVE  NamesInv'
<1> USE DEF load_marker, FreeSegAndGoto, FreeEffect, shm_unlink, Zeroed, Goto, handleVars
<1>0. TypeOK /\ CallInv(p) /\ ScanInv(p)
    BY DEF NamesInv, TypeInv
<1>1. Quiet
    BY <1>0 DEF Quiet, ScanInv
<1>2. \A q \in Procs : q # p => Local(q)
  <2>1. UNCHANGED <<m, held, call, fd, ent, rpid>>
    OBVIOUS
  <2>2. \A q \in Procs : q # p => pc'[q] = pc[q] /\ seg'[q] = seg[q]
    BY <1>0 DEF TypeOK, CallTypeOK, ScanTypeOK
  <2> QED BY <2>1, <2>2 DEF Local
<1>3. /\ SameClaims(p)
      /\ Creating(p)' => fd'[p] = fd[p]
      /\ pc'[p] # "store_marker"
    BY <1>0 DEF SameClaims, Unlinkers, Creating, New, TypeOK, CallTypeOK, HandleTypeOK
<1>4. ScanInv(p)'
    BY <1>0 DEF ScanInv, Load, TypeOK, CallTypeOK, ScanTypeOK
<1> QED BY <1>1, <1>2, <1>3, <1>4, QuietStep

\* Reading the pid (shm.c:245) preserves NamesInv.
LEMMA NamesLoadPid ==
    ASSUME NamesInv, TypeInv', NEW p \in Procs, load_pid(p)
    PROVE  NamesInv'
<1> USE DEF load_pid, FreeSegAndGoto, FreeEffect, shm_unlink, Zeroed, Goto, handleVars
<1>0. TypeOK /\ CallInv(p) /\ ScanInv(p)
    BY DEF NamesInv, TypeInv
<1>1. Quiet
    BY <1>0 DEF Quiet, ScanInv
<1>2. \A q \in Procs : q # p => Local(q)
    BY <1>0 DEF Local, TypeOK, CallTypeOK, HandleTypeOK, ScanTypeOK
<1>3. /\ SameClaims(p)
      /\ Creating(p)' => fd'[p] = fd[p]
      /\ pc'[p] # "store_marker"
    BY <1>0 DEF SameClaims, Unlinkers, Creating, New, TypeOK, CallTypeOK, HandleTypeOK
<1>4. ScanInv(p)'
    BY <1>0 DEF ScanInv, Load, TypeOK, CallTypeOK, ScanTypeOK
<1> QED BY <1>1, <1>2, <1>3, <1>4, QuietStep

\* Asking for the pid (shm.c:250) preserves NamesInv.
LEMMA NamesKill ==
    ASSUME NamesInv, TypeInv', NEW p \in Procs, kill(p)
    PROVE  NamesInv'
<1> USE DEF kill, FreeSegAndGoto, FreeEffect, shm_unlink, Zeroed, Goto, handleVars
<1>0. TypeOK /\ CallInv(p) /\ ScanInv(p)
    BY DEF NamesInv, TypeInv
<1>1. Quiet
    BY <1>0 DEF Quiet, ScanInv
<1>2. \A q \in Procs : q # p => Local(q)
    BY <1>0 DEF Local, TypeOK, CallTypeOK, HandleTypeOK, ScanTypeOK
<1>3. /\ SameClaims(p)
      /\ Creating(p)' => fd'[p] = fd[p]
      /\ pc'[p] # "store_marker"
    BY <1>0 DEF SameClaims, Unlinkers, Creating, New, TypeOK, CallTypeOK, HandleTypeOK
<1>4. ScanInv(p)'
  <2> DEFINE o == seg[p].ptr
  <2>1. /\ o \in Objs /\ obj[o].owner # NULL /\ obj[o].name = ent[p]
        /\ obj[o].marker /\ rpid[p] = obj[o].pid
    BY <1>0 DEF ScanInv, CallInv
  <2>2. /\ obj[o].owner \in Procs
        /\ obj[o].name \in drawn
        /\ life[obj[o].owner] # "unborn"
        /\ obj[o].pid = pid[obj[o].owner]
        /\ \A x \in Objs : obj[x].owner # NULL /\ obj[x].name = ent[p] => x = o
    BY <1>0, <2>1 DEF NamesInv, ObjInv, TypeOK, KernelTypeOK, Segment
  <2>3. ~Alive(rpid[p]) => life[obj[o].owner] = "dead"
    BY <1>0, <2>1, <2>2 DEF Alive, PidUsed, TypeOK, KernelTypeOK
  <2>4. pc'[p] = (IF Alive(rpid[p]) THEN "readdir" ELSE "unlink") /\ ent' = ent
    BY <1>0 DEF TypeOK, CallTypeOK
  <2> HIDE DEF o
  <2> QED BY <1>1, <2>1, <2>2, <2>3, <2>4 DEF ScanInv, Quiet
<1> QED BY <1>1, <1>2, <1>3, <1>4, QuietStep

\* fstat, the size check and mmap of av_shm_attach_ro (shm.c:145) preserves
\* NamesInv.
LEMMA NamesFstat ==
    ASSUME NamesInv, TypeInv', NEW p \in Procs, fstat_mmap_ro(p)
    PROVE  NamesInv'
<1> DEFINE st_size == obj[fd[p]].size
<1>0. TypeOK /\ CallInv(p) /\ ScanInv(p) /\ pc[p] = "fstat"
    BY DEF NamesInv, TypeInv, fstat_mmap_ro
<1>1. Quiet
    BY DEF Quiet, fstat_mmap_ro, kernelVars
<1>2. \A q \in Procs : q # p => Local(q)
    BY <1>0 DEF fstat_mmap_ro, Local, TypeOK, CallTypeOK, HandleTypeOK, ScanTypeOK,
        SetTarget, AttachFails, Return, Goto
<1>3. /\ SameClaims(p)
      /\ ~Creating(p)'
  <2>1. CASE call[p].op = "attach"
    <3>1. call[p].h \in Handles \ held[p] /\ m[p][call[p].h] \in AvShm
        BY <1>0, <2>1 DEF CallInv, TypeOK, HandleTypeOK
    <3>2. \A h \in Handles : h # call[p].h => m'[p][h] = m[p][h]
        BY <1>0, <2>1 DEF fstat_mmap_ro, SetTarget, TypeOK, HandleTypeOK
    <3>3. CASE held' = held
        BY <1>0, <2>1, <3>1, <3>2, <3>3 DEF fstat_mmap_ro, AttachFails, Return, Goto,
            SameClaims, Unlinkers, Creating, TypeOK, CallTypeOK, HandleTypeOK
    <3>4. CASE held' # held
        <4>1. /\ m' = [m EXCEPT ![p][call[p].h] =
                        Attached(m[p][call[p].h], fd[p], st_size)]
              /\ held' = [held EXCEPT ![p] = @ \cup {call[p].h}]
              /\ Return(p)
            BY <2>1, <3>4 DEF fstat_mmap_ro, AttachFails, SetTarget, Target
        <4>2. m'[p][call[p].h] = Attached(m[p][call[p].h], fd[p], st_size)
            BY <1>0, <3>1, <4>1 DEF TypeOK, HandleTypeOK
        <4>3. ~m'[p][call[p].h].do_unlink
            BY <3>1, <4>2 DEF AvShm, Attached
        <4> QED BY <1>0, <3>2, <4>1, <4>3 DEF Return, Goto,
            SameClaims, Unlinkers, Creating, TypeOK, CallTypeOK, HandleTypeOK
    <3> QED BY <3>3, <3>4
  <2>2. CASE call[p].op # "attach"
    BY <1>0, <2>2 DEF fstat_mmap_ro, AttachFails, Goto, SetTarget, SameClaims, Unlinkers,
        Creating, TypeOK, CallTypeOK
  <2> QED BY <2>1, <2>2
<1>4. ScanInv(p)'
  <2>1. CASE call[p].op = "attach"
    BY <1>0, <2>1 DEF fstat_mmap_ro, AttachFails, Return, Goto, ScanInv, TypeOK, CallTypeOK
  <2>2. CASE call[p].op # "attach"
    <3>1. \/ pc'[p] = "readdir"
          \/ /\ pc'[p] = "marker"
             /\ seg'[p] = Attached(seg[p], fd[p], st_size)
             /\ ent' = ent
        BY <1>0, <2>2 DEF fstat_mmap_ro, AttachFails, Goto, SetTarget, Target, TypeOK,
            CallTypeOK, ScanTypeOK
    <3>2. seg[p] \in AvShm
        BY <1>0 DEF TypeOK, ScanTypeOK
    <3>3. pc'[p] = "marker" => seg'[p].ptr = fd[p] /\ ~seg'[p].do_unlink
        BY <3>1, <3>2 DEF Attached, AvShm
    <3> QED BY <1>0, <1>1, <2>2, <3>1, <3>3 DEF ScanInv, Quiet
  <2> QED BY <2>1, <2>2
<1> QED BY <1>1, <1>2, <1>3, <1>4, QuietStep DEF Creating

\* The start of a process preserves NamesInv.
LEMMA NamesSpawn ==
    ASSUME NamesInv, TypeInv', NEW p \in Procs, Spawn(p)
    PROVE  NamesInv'
<1>0. TypeOK /\ CallInv(p) /\ ObjInv
    BY DEF NamesInv, TypeInv
<1>1. /\ UNCHANGED <<dir, obj, drawn, pc, call, m, held, fd, ent, seg, rpid>>
      /\ \E n \in Pids : pid' = [pid EXCEPT ![p] = n]
      /\ life[p] = "unborn"
      /\ life' = [life EXCEPT ![p] = "live"]
    BY DEF Spawn, handleVars, scanVars
<1>2. ObjInv'
  <2>1. \A q \in Procs : life'[q] = "unborn" <=> pid'[q] = 0
    BY <1>0, <1>1, NaturalsAssumption DEF ObjInv, TypeOK, KernelTypeOK
  <2>2. \A o \in Objs : obj[o].owner # NULL =>
            obj[o].owner # p /\ obj[o].owner \in Procs
    BY <1>0, <1>1 DEF ObjInv, TypeOK, KernelTypeOK, Segment
  <2>3. \A o \in Objs : obj[o].owner # NULL =>
            life'[obj[o].owner] = life[obj[o].owner]
                /\ pid'[obj[o].owner] = pid[obj[o].owner]
    BY <1>0, <1>1, <2>2 DEF TypeOK, KernelTypeOK
  <2> QED BY <1>0, <1>1, <2>1, <2>3 DEF ObjInv
<1>3. \A q \in Procs : Foreign(q) /\ Local(q)
    BY <1>0, <1>1 DEF Foreign, Local, CallInv, TypeOK, KernelTypeOK
<1> QED BY <1>2, <1>3, LocalKeeps DEF NamesInv

\* The end of a process, anywhere in a call, preserves NamesInv.
LEMMA NamesExit ==
    ASSUME NamesInv, TypeInv', NEW p \in Procs, Exit(p)
    PROVE  NamesInv'
<1>0. TypeOK /\ ObjInv
    BY DEF NamesInv, TypeInv
<1>1. ObjInv'
    BY <1>0 DEF Exit, ObjInv, TypeOK, KernelTypeOK, Segment
<1>2. \A q \in Procs : q # p => Foreign(q) /\ Local(q)
    BY <1>0 DEF Exit, Foreign, Local, TypeOK, KernelTypeOK, CallTypeOK, HandleTypeOK,
        ScanTypeOK
<1>3. CreateInv(p)' /\ HoldInv(p)' /\ ScanInv(p)'
    BY <1>0 DEF Exit, CreateInv, HoldInv, ScanInv, Unlinkers, Creating, TypeOK,
        CallTypeOK, HandleTypeOK
<1> QED BY <1>1, <1>2, <1>3, LocalKeeps DEF NamesInv

\* A name is unlinked that no live process but p owns.
LEMMA UnlinkForeign ==
    ASSUME NamesInv, NEW p \in Procs, NEW i \in Ids, shm_unlink(i),
           UNCHANGED <<obj, life, pid, drawn>>,
           dir[i] # NULL => obj[dir[i]].owner = p \/ life[obj[dir[i]].owner] = "dead"
    PROVE  ObjInv' /\ \A q \in Procs : q # p => Foreign(q)
<1>1. ObjInv'
    BY DEF shm_unlink, NamesInv, TypeInv, TypeOK, KernelTypeOK, ObjInv
<1>2. \A q \in Procs : q # p => Foreign(q)
    BY DEF shm_unlink, NamesInv, TypeInv, TypeOK, KernelTypeOK, Foreign
<1> QED BY <1>1, <1>2

\* Unlinking a condemned name (shm.c:258) preserves NamesInv.
LEMMA NamesUnlink ==
    ASSUME NamesInv, TypeInv', NEW p \in Procs, unlink_stale(p)
    PROVE  NamesInv'
<1> USE DEF unlink_stale, Goto, handleVars, scanVars
<1>0. TypeOK /\ CallInv(p) /\ ScanInv(p) /\ ObjInv
    BY DEF NamesInv, TypeInv
<1>1. \A q \in Procs : q # p => Local(q)
    BY <1>0 DEF Local, TypeOK, CallTypeOK
<1>2. SameClaims(p) /\ ~Creating(p)' /\ ScanInv(p)'
    BY <1>0 DEF SameClaims, Unlinkers, Creating, ScanInv, TypeOK, CallTypeOK
<1>3. CASE dir' = dir
  <2>1. Quiet
    BY <1>3 DEF Quiet
  <2> QED BY <1>1, <1>2, <2>1, QuietStep DEF Creating
<1>4. CASE dir' # dir
  <2>1. ent[p] \in Ids /\ shm_unlink(ent[p]) /\ UNCHANGED <<obj, life, pid, drawn>>
    BY <1>0, <1>4 DEF CallInv, ScanPcs
  <2>2. dir[ent[p]] # NULL => life[obj[dir[ent[p]]].owner] = "dead"
    BY <1>0, <2>1 DEF ScanInv, ObjInv, TypeOK, KernelTypeOK
  <2>3. ObjInv' /\ \A q \in Procs : q # p => Foreign(q)
    BY <2>1, <2>2, UnlinkForeign
  <2>4. Foreign(p)
    <3>1. life[p] = "live"
        BY <1>0 DEF CallInv
    <3> QED BY <1>0, <2>1, <2>2, <3>1 DEF Foreign, shm_unlink, TypeOK, KernelTypeOK
  <2>5. CreateInv(p)' /\ HoldInv(p)'
    BY <1>2, <2>4, HoldKeeps, CreateKeeps DEF Creating
  <2> QED BY <1>1, <1>2, <2>3, <2>5, LocalKeeps DEF NamesInv
<1> QED BY <1>3, <1>4

\* A call of av_shm_free (shm.c:180) preserves NamesInv.
LEMMA NamesFree ==
    ASSUME NamesInv, TypeInv', NEW p \in Procs, NEW h \in Handles, av_shm_free(p, h)
    PROVE  NamesInv'
<1> USE DEF av_shm_free, MayCall, scanVars
<1>0. TypeOK /\ CallInv(p) /\ ScanInv(p) /\ ObjInv /\ HoldInv(p)
    BY DEF NamesInv, TypeInv
<1>1. \A q \in Procs : q # p => Local(q)
    BY <1>0 DEF Local, TypeOK, HandleTypeOK
<1>2. /\ ~Creating(p)' /\ pc'[p] = "idle"
      /\ \A h2 \in Unlinkers(p)' :
            h2 # h /\ h2 \in Unlinkers(p) /\ m'[p][h2].id = m[p][h2].id
    BY <1>0 DEF Unlinkers, Creating, TypeOK, HandleTypeOK
<1>3. ScanInv(p)' /\ SameClaims(p) /\ CreateInv(p)'
    BY <1>2 DEF ScanInv, SameClaims, CreateInv, Creating
<1>4. CASE h \notin Unlinkers(p)
  <2>1. Quiet
    BY <1>4 DEF Quiet, FreeEffect, Unlinkers
  <2> QED BY <1>1, <1>2, <1>3, <2>1, QuietStep
<1>5. CASE h \in Unlinkers(p)
  <2> DEFINE i == m[p][h].id
  <2>1. i \in Ids /\ shm_unlink(i) /\ obj[dir[i]].owner = p
    BY <1>0, <1>5 DEF FreeEffect, Unlinkers, HoldInv
  <2>2. UNCHANGED <<obj, life, pid, drawn>>
    OBVIOUS
  <2>3. ObjInv' /\ \A q \in Procs : q # p => Foreign(q)
    BY <2>1, <2>2, UnlinkForeign
  <2>4. HoldInv(p)'
    <3> HIDE DEF av_shm_free
    <3>1. \A h2 \in Unlinkers(p)' : m[p][h2].id # i /\ m[p][h2].id \in Ids
        BY <1>0, <1>2, <1>5 DEF HoldInv
    <3>2. \A h2 \in Unlinkers(p)' : dir'[m[p][h2].id] = dir[m[p][h2].id]
        BY <1>0, <2>1, <3>1 DEF shm_unlink, TypeOK, KernelTypeOK
    <3> HIDE DEF i
    <3> QED BY <1>0, <1>2, <2>2, <3>2 DEF HoldInv
  <2> QED BY <1>1, <1>3, <2>3, <2>4, LocalKeeps DEF NamesInv
<1> QED BY <1>4, <1>5

\* The failure path of av_shm_create_rw (shm.c:120) preserves NamesInv.
LEMMA NamesCreateFail ==
    ASSUME NamesInv, TypeInv', NEW p \in Procs, create_fail(p)
    PROVE  NamesInv'
<1> USE DEF create_fail, Return, Goto, handleVars, scanVars
<1> DEFINE i == New(p).id
<1>0. TypeOK /\ CallInv(p) /\ ObjInv /\ HoldInv(p) /\ CreateInv(p) /\ Creating(p)
    BY DEF NamesInv, TypeInv, Creating
<1>1. \A q \in Procs : q # p => Local(q)
    BY <1>0 DEF Local, TypeOK, CallTypeOK
<1>2. /\ ~Creating(p)' /\ pc'[p] = "idle" /\ Unlinkers(p)' = Unlinkers(p)
      /\ m' = m
    BY <1>0 DEF Unlinkers, Creating, TypeOK, CallTypeOK
<1>3. ScanInv(p)' /\ CreateInv(p)'
    BY <1>2 DEF ScanInv, CreateInv, Creating
<1>4. /\ i \in Ids /\ shm_unlink(i) /\ obj[dir[i]].owner = p
      /\ UNCHANGED <<obj, life, pid, drawn>>
    BY <1>0 DEF CreateInv
<1>5. ObjInv' /\ \A q \in Procs : q # p => Foreign(q)
    BY <1>4, UnlinkForeign
<1>6. HoldInv(p)'
  <2> HIDE DEF create_fail
  <2>1. \A h2 \in Unlinkers(p) : m[p][h2].id # i /\ m[p][h2].id \in Ids
    BY <1>0 DEF HoldInv
  <2>2. \A h2 \in Unlinkers(p) : dir'[m[p][h2].id] = dir[m[p][h2].id]
    BY <1>0, <1>4, <2>1 DEF shm_unlink, TypeOK, KernelTypeOK
  <2> HIDE DEF i
  <2> QED BY <1>0, <1>2, <1>4, <2>2 DEF HoldInv
<1> QED BY <1>1, <1>3, <1>5, <1>6, LocalKeeps DEF NamesInv

\* Sizing the segment (shm.c:94) preserves NamesInv.
LEMMA NamesFtruncate ==
    ASSUME NamesInv, TypeInv', NEW p \in Procs, ftruncate(p)
    PROVE  NamesInv'
<1> USE DEF ftruncate, Goto, scanVars
<1>0. TypeOK /\ CallInv(p) /\ ObjInv /\ Creating(p) /\ pc[p] = "ftruncate"
    BY DEF NamesInv, TypeInv, Creating
<1>1. call[p].h \in Handles \ held[p] /\ New(p) \in AvShm
    BY <1>0 DEF CallInv, CreatePcs, TypeOK, HandleTypeOK, New
<1>2. SetNew(p, [New(p) EXCEPT !.size = SegmentSize(call[p].size)])
    OBVIOUS
<1>3. \A q \in Procs : q # p => Local(q)
    BY <1>0, <1>1, <1>2, SetNewValue DEF Local, TypeOK, CallTypeOK
<1>4. /\ \A o \in Objs : /\ obj'[o].owner = obj[o].owner
                         /\ obj'[o].name = obj[o].name
                         /\ obj'[o].marker = obj[o].marker
                         /\ obj'[o].pid = obj[o].pid
      /\ UNCHANGED <<dir, life, pid, drawn>>
    BY <1>0 DEF TypeOK, KernelTypeOK, Segment
<1>5. ObjInv'
    BY <1>0, <1>4 DEF ObjInv, TypeOK, KernelTypeOK
<1>6. \A q \in Procs : Foreign(q)
    BY <1>0, <1>4 DEF Foreign, NamesInv, TypeInv, CallInv, Creating
<1>7. /\ SameClaims(p)
      /\ fd'[p] = fd[p]
      /\ pc'[p] \in {"mmap", "fail"}
  <2>1. /\ \A h \in Handles : h # call[p].h => m'[p][h] = m[p][h]
        /\ m'[p][call[p].h].id = New(p).id
    BY <1>0, <1>1, <1>2, SetNewValue DEF TypeOK, AvShm
  <2>2. held' = held /\ fd' = fd /\ call' = call /\ held[p] \subseteq Handles
        /\ pc'[p] \in {"mmap", "fail"}
    BY <1>0 DEF TypeOK, CallTypeOK, HandleTypeOK
  <2> HIDE DEF ftruncate
  <2> QED BY <1>0, <1>1, <2>1, <2>2 DEF SameClaims, Unlinkers, Creating, New
<1>8. CreateInv(p)' /\ HoldInv(p)' /\ ScanInv(p)'
    BY <1>6, <1>7, HoldKeeps, CreateKeeps DEF ScanInv
<1> QED BY <1>3, <1>5, <1>6, <1>8, LocalKeeps DEF NamesInv

\* Storing the pid (shm.c:109) preserves NamesInv.
LEMMA NamesStorePid ==
    ASSUME NamesInv, TypeInv', NEW p \in Procs, store_pid(p)
    PROVE  NamesInv'
<1> USE DEF store_pid, Goto, handleVars, scanVars
<1>0. TypeOK /\ CallInv(p) /\ ObjInv /\ CreateInv(p) /\ Creating(p) /\ pc[p] = "store_pid"
    BY DEF NamesInv, TypeInv, Creating
<1>1. New(p).ptr = fd[p] /\ fd[p] \in Objs /\ obj[fd[p]].owner = p /\ p # NULL
    BY <1>0, SentinelAssumption DEF CallInv, CreateInv
<1>2. \A q \in Procs : q # p => Local(q)
    BY <1>0 DEF Local, TypeOK, CallTypeOK
<1>3. /\ \A o \in Objs : /\ obj'[o].owner = obj[o].owner
                         /\ obj'[o].name = obj[o].name
                         /\ obj'[o].marker = obj[o].marker
                         /\ o # fd[p] => obj'[o].pid = obj[o].pid
      /\ obj'[fd[p]].pid = pid[p]
      /\ UNCHANGED <<dir, life, pid, drawn>>
    BY <1>0, <1>1 DEF TypeOK, KernelTypeOK, Segment
<1>4. \A o \in Objs : obj[o].marker => obj'[o].pid = obj[o].pid
  <2>1. obj[fd[p]].marker => obj[fd[p]].pid = pid[p]
    BY <1>0, <1>1 DEF ObjInv
  <2> HIDE DEF store_pid
  <2> QED BY <1>3, <2>1
<1>5. ObjInv'
  <2>1. \A i \in Ids : dir[i] # NULL => dir[i] \in Objs
    BY <1>0 DEF TypeOK, KernelTypeOK
  <2> HIDE DEF store_pid
  <2> QED BY <1>0, <1>3, <1>4, <2>1 DEF ObjInv
<1>6. \A q \in Procs : Foreign(q)
  <2>1. \A q \in Procs : pc[q] = "store_marker" => fd[q] \in Objs \ {fd[p]}
    BY <1>0, <1>1 DEF NamesInv, TypeInv, CallInv, CreateInv, Creating
  <2> QED BY <1>3, <1>4, <2>1 DEF Foreign
<1>7. /\ SameClaims(p)
      /\ fd'[p] = fd[p]
      /\ pc'[p] = "store_marker"
    BY <1>0 DEF SameClaims, Unlinkers, Creating, New, TypeOK, CallTypeOK
<1>8. HoldInv(p)' /\ ScanInv(p)'
    BY <1>6, <1>7, HoldKeeps DEF ScanInv
<1>9. CreateInv(p)'
    BY <1>0, <1>1, <1>3, <1>7 DEF CreateInv, SameClaims
<1> QED BY <1>2, <1>5, <1>6, <1>8, <1>9, LocalKeeps DEF NamesInv

\* Storing the marker and returning (shm.c:110) preserves NamesInv.
LEMMA NamesStoreMarker ==
    ASSUME NamesInv, TypeInv', NEW p \in Procs, store_marker(p)
    PROVE  NamesInv'
<1> USE DEF store_marker, Return, Goto, scanVars
<1> DEFINE hh == call[p].h
<1>0. /\ TypeOK /\ CallInv(p) /\ ObjInv /\ CreateInv(p) /\ HoldInv(p) /\ Creating(p)
      /\ pc[p] = "store_marker"
    BY DEF NamesInv, TypeInv, Creating
<1>1. /\ New(p).ptr = fd[p] /\ fd[p] \in Objs /\ obj[fd[p]].owner = p /\ p # NULL
      /\ obj[fd[p]].pid = pid[p]
      /\ New(p).id \in Ids /\ dir[New(p).id] = fd[p] /\ fd[p] # NULL
    BY <1>0, SentinelAssumption DEF CallInv, CreateInv
<1>2. call[p].h \in Handles \ held[p] /\ New(p) \in AvShm
    BY <1>0 DEF CallInv, CreatePcs, TypeOK, HandleTypeOK, New
<1>3. SetNew(p, [New(p) EXCEPT !.do_unlink = TRUE, !.shared = OneBit(call[p].shared)])
    OBVIOUS
<1>4. \A q \in Procs : q # p => Local(q)
    BY <1>0, <1>2, <1>3, SetNewValue DEF Local, TypeOK, CallTypeOK, HandleTypeOK
<1>5. /\ \A o \in Objs : /\ obj'[o].owner = obj[o].owner
                         /\ obj'[o].name = obj[o].name
                         /\ o # fd[p] => obj'[o].marker = obj[o].marker
                         /\ obj'[o].pid = obj[o].pid
      /\ obj'[fd[p]].marker
      /\ UNCHANGED <<dir, life, pid, drawn>>
    BY <1>0, <1>1 DEF TypeOK, KernelTypeOK, Segment
<1>6. ObjInv'
  <2> HIDE DEF store_marker, Return, Goto, scanVars
  <2>1. \A i \in Ids : dir[i] # NULL => dir[i] \in Objs
    BY <1>0 DEF TypeOK, KernelTypeOK
  <2> QED BY <1>0, <1>1, <1>5, <2>1 DEF ObjInv
<1>7. \A q \in Procs : Foreign(q)
  <2>1. \A q \in Procs : pc[q] = "store_marker" => fd[q] \in Objs
    BY DEF NamesInv, TypeInv, CallInv, Creating
  <2> QED BY <1>5, <2>1 DEF Foreign
<1>8. pc'[p] = "idle" /\ held'[p] = held[p] \cup {hh}
    BY <1>0 DEF TypeOK, CallTypeOK, HandleTypeOK
<1>9. ScanInv(p)' /\ CreateInv(p)'
    BY <1>8 DEF ScanInv, CreateInv, Creating
<1>10. HoldInv(p)'
  <2>1. /\ \A h \in Handles : h # hh => m'[p][h] = m[p][h]
        /\ m'[p][hh].id = New(p).id
    <3> HIDE DEF store_marker
    <3>1. m'[p][hh] = [New(p) EXCEPT !.do_unlink = TRUE,
                                     !.shared = OneBit(call[p].shared)]
        BY <1>0, <1>2, <1>3, SetNewValue DEF TypeOK
    <3>2. m'[p][hh].id = New(p).id
        BY <1>2, <3>1 DEF AvShm
    <3> QED BY <1>0, <1>2, <1>3, <3>2, SetNewValue DEF TypeOK
  <2> HIDE DEF store_marker
  <2>2. \A h \in Unlinkers(p)' :
            \/ h = hh
            \/ h # hh /\ h \in Unlinkers(p) /\ m'[p][h].id = m[p][h].id
    BY <1>0, <1>8, <2>1 DEF Unlinkers, TypeOK, HandleTypeOK
  <2>3. \A h \in Unlinkers(p) :
            /\ m[p][h].id \in Ids /\ dir[m[p][h].id] \in Objs
            /\ dir[m[p][h].id] # NULL
            /\ obj[dir[m[p][h].id]].owner = p
            /\ m[p][h].id # New(p).id
    BY <1>0 DEF HoldInv, TypeOK, KernelTypeOK
  <2>4. ASSUME NEW h \in Unlinkers(p)'
        PROVE  /\ m'[p][h].id \in Ids
               /\ dir'[m'[p][h].id] # NULL
               /\ obj'[dir'[m'[p][h].id]].owner = p
    BY <1>1, <1>5, <2>1, <2>2, <2>3
  <2>5. ASSUME NEW h1 \in Unlinkers(p)', NEW h2 \in Unlinkers(p)',
               m'[p][h1].id = m'[p][h2].id
        PROVE  h1 = h2
    BY <1>0, <2>1, <2>2, <2>3, <2>5 DEF HoldInv
  <2> QED BY <1>8, <2>4, <2>5 DEF HoldInv, Creating
<1> QED BY <1>4, <1>6, <1>7, <1>9, <1>10, LocalKeeps DEF NamesInv

\* Drawing an id and creating the name (shm.c:86) preserves NamesInv.
LEMMA NamesOpenExcl ==
    ASSUME NamesInv, TypeInv', FreshIds, NEW p \in Procs, shm_open_excl(p)
    PROVE  NamesInv'
<1> USE DEF scanVars
<1>0. /\ TypeOK /\ CallInv(p) /\ ObjInv /\ HoldInv(p) /\ pc[p] = "alloc"
    BY DEF NamesInv, TypeInv, shm_open_excl
<1>1. call[p].h \in Handles \ held[p] /\ New(p) \in AvShm
    BY <1>0 DEF CallInv, CreatePcs, TypeOK, HandleTypeOK, New
<1>2. PICK id \in Ids :
        /\ id \notin drawn
        /\ drawn' = drawn \cup {id}
        /\ SetNew(p, [New(p) EXCEPT !.id = id])
        /\ \/ /\ dir[id] = NULL
              /\ \E o \in Objs :
                  /\ obj[o].owner = NULL
                  /\ dir' = [dir EXCEPT ![id] = o]
                  /\ obj' = [obj EXCEPT ![o].owner = p, ![o].name = id]
                  /\ fd' = [fd EXCEPT ![p] = o]
              /\ Goto(p, "ftruncate")
              /\ UNCHANGED <<call, ent>>
           \/ Return(p) /\ UNCHANGED <<dir, obj, fd>>
    BY DEF shm_open_excl
<1>3. UNCHANGED <<life, pid, held, seg, rpid>>
    BY DEF shm_open_excl
<1>4. \A q \in Procs : q # p => Local(q)
  <2>1. \A q \in Procs : q # p => m'[q] = m[q]
    BY <1>0, <1>1, <1>2, SetNewValue DEF TypeOK
  <2> QED BY <1>0, <1>2, <1>3, <2>1 DEF Local, TypeOK, CallTypeOK, Return, Goto
<1>5. /\ \A h \in Handles : h # call[p].h => m'[p][h] = m[p][h]
      /\ m'[p][call[p].h].id = id
    BY <1>0, <1>1, <1>2, SetNewValue DEF TypeOK, AvShm
<1>6. \A h \in Unlinkers(p)' : h \in Unlinkers(p) /\ m'[p][h].id = m[p][h].id
    BY <1>0, <1>1, <1>3, <1>5 DEF Unlinkers, TypeOK, HandleTypeOK
<1>7. CASE Return(p) /\ UNCHANGED <<dir, obj, fd>>
  <2>1. ObjInv'
    BY <1>0, <1>2, <1>3, <1>7 DEF ObjInv
  <2>2. \A q \in Procs : Foreign(q)
    BY <1>2, <1>3, <1>7 DEF Foreign
  <2>3. pc'[p] = "idle"
    BY <1>0, <1>7 DEF Return, Goto, TypeOK, CallTypeOK
  <2>4. SameClaims(p) /\ ~Creating(p)' /\ ScanInv(p)'
    BY <1>6, <2>3 DEF SameClaims, Creating, ScanInv
  <2>5. CreateInv(p)' /\ HoldInv(p)'
    BY <2>2, <2>3, <2>4, HoldKeeps, CreateKeeps
  <2> QED BY <1>4, <2>1, <2>2, <2>4, <2>5, LocalKeeps DEF NamesInv
<1>8. CASE ~(Return(p) /\ UNCHANGED <<dir, obj, fd>>)
  <2>1. PICK o \in Objs :
            /\ obj[o].owner = NULL
            /\ dir' = [dir EXCEPT ![id] = o]
            /\ obj' = [obj EXCEPT ![o].owner = p, ![o].name = id]
            /\ fd' = [fd EXCEPT ![p] = o]
    BY <1>2, <1>8
  <2>2. dir[id] = NULL /\ Goto(p, "ftruncate") /\ UNCHANGED <<call, ent>>
    BY <1>2, <1>8
  <2>3. /\ obj'[o].owner = p /\ obj'[o].name = id
        /\ obj'[o].marker = obj[o].marker /\ obj'[o].pid = obj[o].pid
        /\ \A x \in Objs : x # o => obj'[x] = obj[x]
        /\ dir'[id] = o
        /\ \A i \in Ids : i # id => dir'[i] = dir[i]
        /\ fd'[p] = o /\ pc'[p] = "ftruncate"
    BY <1>0, <2>1, <2>2 DEF Goto, TypeOK, KernelTypeOK, CallTypeOK, Segment
  <2>4. p # NULL /\ life[p] = "live" /\ ~obj[o].marker /\ o # NULL
    BY <1>0, <2>1, SentinelAssumption DEF CallInv, ObjInv
  <2>5. \A i \in Ids : dir[i] # NULL => dir[i] # o /\ dir[i] \in Objs
    BY <1>0, <2>1 DEF ObjInv, TypeOK, KernelTypeOK
  <2>6. ObjInv'
    <3>1. \A q \in Procs : life'[q] = "unborn" <=> pid'[q] = 0
        BY <1>0, <1>3 DEF ObjInv
    <3>2. \A i \in Ids : dir'[i] # NULL =>
            obj'[dir'[i]].owner # NULL /\ obj'[dir'[i]].name = i
        BY <1>0, <2>3, <2>4, <2>5 DEF ObjInv
    <3>3. \A x \in Objs : obj'[x].owner # NULL =>
            obj'[x].name \in drawn' /\ life'[obj'[x].owner] # "unborn"
        BY <1>0, <1>2, <1>3, <2>3, <2>4 DEF ObjInv
    <3>4. \A x \in Objs : obj'[x].marker =>
            obj'[x].owner # NULL /\ obj'[x].pid = pid'[obj'[x].owner]
        BY <1>0, <1>3, <2>3, <2>4 DEF ObjInv
    <3>5. \A x \in Objs : x # o /\ obj[x].owner # NULL => obj[x].name # id
        BY <1>0, <1>2 DEF ObjInv
    <3>6. \A o1, o2 \in Objs :
            obj'[o1].owner # NULL /\ obj'[o2].owner # NULL
                /\ obj'[o1].name = obj'[o2].name => o1 = o2
        BY <1>0, <2>3, <3>5 DEF ObjInv
    <3> QED BY <3>1, <3>2, <3>3, <3>4, <3>6 DEF ObjInv
  <2>7. \A q \in Procs : Foreign(q)
    <3>1. \A x \in Objs : obj[x].owner # NULL => obj'[x] = obj[x]
        BY <2>1, <2>3
    <3>2. \A x \in Objs : obj'[x].pid = obj[x].pid
        BY <2>3
    <3>3. \A x \in Objs : obj[x].owner = NULL /\ obj'[x].owner # NULL =>
            obj'[x].name \notin drawn
        BY <1>2, <2>3
    <3>4. \A i \in Ids : dir[i] # NULL => dir'[i] = dir[i]
        BY <2>2, <2>3
    <3>5. \A q \in Procs : pc[q] = "store_marker" => fd[q] \in Objs
        BY DEF NamesInv, TypeInv, CallInv, Creating
    <3> QED BY <1>2, <1>3, <3>1, <3>2, <3>3, <3>4, <3>5 DEF Foreign
  <2>8. CreateInv(p)' /\ ScanInv(p)'
    BY <1>5, <2>2, <2>3 DEF CreateInv, ScanInv, New
  <2>9. HoldInv(p)'
    <3>1. \A h \in Unlinkers(p) :
            /\ m[p][h].id \in Ids /\ dir[m[p][h].id] # NULL
            /\ obj[dir[m[p][h].id]].owner = p
        BY <1>0 DEF HoldInv
    <3>2. \A h \in Unlinkers(p) : m[p][h].id # id
        BY <2>2, <3>1
    <3>3. New(p)'.id = id
        BY <1>5, <2>2 DEF New
    <3>4. \A h \in Unlinkers(p)' :
            /\ m'[p][h].id \in Ids
            /\ dir'[m'[p][h].id] # NULL
            /\ obj'[dir'[m'[p][h].id]].owner = p
            /\ m'[p][h].id # New(p)'.id
        BY <1>6, <2>3, <2>5, <3>1, <3>2, <3>3
    <3> QED BY <1>0, <1>6, <3>4 DEF HoldInv
  <2> QED BY <1>4, <2>6, <2>7, <2>8, <2>9, LocalKeeps DEF NamesInv
<1> QED BY <1>7, <1>8

\* NamesInv holds before any process has started.
LEMMA NamesInit == Init => NamesInv
<1> SUFFICES ASSUME Init PROVE NamesInv
    OBVIOUS
<1>1. TypeInv
    BY TypeInit
<1>2. ObjInv
    BY DEF Init, ObjInv, Unused
<1>3. \A p \in Procs : CreateInv(p) /\ HoldInv(p) /\ ScanInv(p)
    BY DEF Init, CreateInv, HoldInv, ScanInv, Creating, Unlinkers
<1> QED BY <1>1, <1>2, <1>3 DEF NamesInv

\* NamesInv is inductive: every step of every process preserves it.
LEMMA NamesStep ==
    ASSUME FreshIds, NamesInv, [Next]_vars
    PROVE  NamesInv'
<1>0. TypeInv'
    BY TypeStep DEF NamesInv
<1>1. CASE UNCHANGED vars
  <2>1. Quiet /\ \A q \in Procs : Local(q)
    BY <1>1 DEF vars, Quiet, Local
  <2>2. ObjInv' /\ \A q \in Procs : Foreign(q)
    BY <2>1, QuietForeign
  <2> QED BY <1>0, <2>1, <2>2, LocalKeeps DEF NamesInv
<1>2. ASSUME NEW p \in Procs, Spawn(p) \/ Exit(p) \/ Request(p)
      PROVE  NamesInv'
    BY <1>0, <1>2, NamesSpawn, NamesExit, NamesCleanup, NamesCreateRw, NamesAttachRo,
       NamesFree DEF Request
<1>3. ASSUME NEW p \in Procs, Step(p)
      PROVE  NamesInv'
    BY <1>0, <1>3, NamesOpendir, NamesReaddir, NamesClosedir, NamesOpenRo, NamesFstat,
       NamesLoadMarker, NamesLoadPid, NamesKill, NamesUnlink, NamesMmapPrivate,
       NamesOpenExcl, NamesFtruncate, NamesMmapRw, NamesStorePid, NamesStoreMarker,
       NamesCreateFail DEF Step
<1> QED BY <1>1, <1>2, <1>3 DEF Next

\* If av_random (shm.c:86) never repeats an id, what a cleanup decided about a
\* name and what a creator keeps about its names stays true until it is acted
\* on, for any number of processes, names and segments.
THEOREM NamesInvariant ==
    ASSUME FreshIds
    PROVE  Spec => []NamesInv
BY NamesInit, NamesStep, PTL DEF Spec

\* The steps that take a name out of the directory.
LEMMA DirFrame ==
    ASSUME NamesInv, [Next]_vars, NEW i \in Ids, dir[i] # NULL, dir'[i] # dir[i]
    PROVE  \E p \in Procs :
            \/ unlink_stale(p) /\ ent[p] = i
            \/ create_fail(p) /\ New(p).id = i
            \/ \E h \in Unlinkers(p) : av_shm_free(p, h) /\ m[p][h].id = i
<1>0. dir \in [Ids -> Objs \cup {NULL}] /\ dir' # dir
    BY DEF NamesInv, TypeInv, TypeOK, KernelTypeOK
<1>1. ASSUME NEW p \in Procs, Spawn(p) \/ Exit(p) \/ Request(p)
      PROVE  \E h \in Unlinkers(p) : av_shm_free(p, h) /\ m[p][h].id = i
  <2>1. PICK h \in Handles : av_shm_free(p, h)
    BY <1>0, <1>1 DEF Spawn, Exit, Request, av_shm_cleanup, av_shm_create_rw,
        av_shm_attach_ro, kernelVars
  <2>2. h \in Unlinkers(p) /\ shm_unlink(m[p][h].id)
    BY <1>0, <2>1 DEF av_shm_free, FreeEffect, Unlinkers
  <2>3. m[p][h].id = i
    BY <1>0, <2>2 DEF shm_unlink
  <2> QED BY <2>1, <2>2, <2>3
<1>2. ASSUME NEW p \in Procs, Step(p)
      PROVE  \/ unlink_stale(p) /\ ent[p] = i
             \/ create_fail(p) /\ New(p).id = i
  <2>1. CASE unlink_stale(p)
    <3>1. shm_unlink(ent[p])
        BY <1>0, <2>1 DEF unlink_stale
    <3>2. ent[p] = i
        BY <1>0, <3>1 DEF shm_unlink
    <3> QED BY <2>1, <3>2
  <2>2. CASE create_fail(p)
    BY <1>0, <2>2 DEF create_fail, shm_unlink
  <2>3. CASE load_marker(p) \/ load_pid(p) \/ kill(p)
    <3>1. ~seg[p].do_unlink
        BY <2>3 DEF load_marker, load_pid, kill, NamesInv, ScanInv
    <3> QED BY <1>0, <2>3, <3>1 DEF load_marker, load_pid, kill, FreeSegAndGoto, FreeEffect
  <2>4. CASE shm_open_excl(p)
    BY <1>0, <2>4 DEF shm_open_excl
  <2> QED BY <1>0, <1>2, <2>1, <2>2, <2>3, <2>4 DEF Step, opendir, readdir, closedir,
            shm_open_ro, fstat_mmap_ro, mmap_private, ftruncate, mmap_rw, store_pid,
            store_marker, kernelVars
<1> QED BY <1>0, <1>1, <1>2 DEF Next, vars

\* While its owner lives, only the owner removes a name (shm.c:257).
THEOREM OnlyDeadOrOwn ==
    ASSUME FreshIds
    PROVE  Spec => UnlinksOnlyDeadOrOwn
<1>1. ASSUME NamesInv, [Next]_vars, NEW i \in Ids, dir[i] # NULL, dir'[i] # dir[i]
      PROVE  LET p == obj[dir[i]].owner
             IN  life[p] = "dead" \/ pc'[p] # pc[p] \/ held'[p] # held[p]
  <2>1. PICK p \in Procs :
            \/ unlink_stale(p) /\ ent[p] = i
            \/ create_fail(p) /\ New(p).id = i
            \/ \E h \in Unlinkers(p) : av_shm_free(p, h) /\ m[p][h].id = i
    BY <1>1, DirFrame
  <2>0. dir[i] \in Objs /\ obj[dir[i]].owner # NULL /\ obj[dir[i]].name = i
    BY <1>1 DEF NamesInv, ObjInv, TypeInv, TypeOK, KernelTypeOK
  <2>2. CASE unlink_stale(p) /\ ent[p] = i
    BY <1>1, <2>0, <2>2 DEF unlink_stale, NamesInv, ScanInv
  <2>3. CASE create_fail(p) /\ New(p).id = i
    <3>1. obj[dir[i]].owner = p /\ pc[p] = "fail"
        BY <1>1, <2>3 DEF create_fail, NamesInv, CreateInv, Creating
    <3>2. pc'[p] = "idle"
        BY <1>1, <2>3 DEF create_fail, Return, Goto, NamesInv, TypeInv, TypeOK, CallTypeOK
    <3> QED BY <3>1, <3>2
  <2>4. ASSUME NEW h \in Unlinkers(p), av_shm_free(p, h), m[p][h].id = i
        PROVE  obj[dir[i]].owner = p /\ held'[p] # held[p]
    BY <1>1, <2>4 DEF av_shm_free, Unlinkers, NamesInv, HoldInv, TypeInv, TypeOK,
        HandleTypeOK
  <2> QED BY <2>1, <2>2, <2>3, <2>4
<1>2. NamesInv /\ [Next]_vars => [KeepsLiveNames]_vars
    BY <1>1 DEF KeepsLiveNames
<1> QED BY <1>2, NamesInvariant, PTL DEF Spec, UnlinksOnlyDeadOrOwn

==============================================================================
