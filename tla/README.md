# Verification of anekvideo

anekvideo is a small C library for a daemon that captures video frames from
V4L2 devices and hands them to its clients through shared memory. This
directory keeps TLA+ modules of its components, TLC configurations that check
them on small instances, and TLAPS proofs of the main results for all instances.
File names without a directory are under `src/` of the repository.

## The system

| component | state | operations | interacts through |
|---|---|---|---|
| shared memory (`shm.c`, `shm.h`, `atomic.h`) | the names in `/dev/shm`, the segments behind them with size and marker, a `struct av_shm` per user | `av_shm_create_rw`, `av_shm_attach_ro`, `av_shm_free`, `av_shm_cleanup` | files shared by unrelated processes, the process table (`kill(pid, 0)`), `av_random` for ids |
| size arithmetic (`util.h`) | none | `av_align`, `av_page_align` | used by shm |
| I/O helpers (`util.c`) | a descriptor's `type` (socket or not) kept by the caller | `av_read`, `av_write`, `av_loop_read`, `av_loop_write`, `av_close`, `av_ioctl`, `av_atou` | the kernel, `random.c`, `device.c` |
| random numbers (`random.c`) | `has_whined`, libc's `rand` state | `random_proper`, `av_random`, `av_random_seed` | `/dev/urandom`, `/dev/random`, `av_loop_read` |
| device (`device.c`) | descriptor, capabilities, format, request for buffers, frame table | `av_device_new`, `av_device_setup_from_path`, `av_device_setup_buffers`, `av_device_copy_frame`, `av_device_new_from_path`, the destructor | the V4L2 driver by ioctl and mmap, talloc |
| frame (`frame.c`) | metadata and mapping of one frame | `av_frame_new_for_*`, the copy functions, the destructor | talloc parents |
| server (`server.c`) | client and device tables | `av_server_new`; client handling is compiled out (`#if 0`) | root of the talloc tree |
| daemon loop (`anekvideo.c`), buffer (`buffer.c`), client (`anekclient.c`) | fd set, message buffers | `select` loop, `av_buffer_grow` | not built (commented out in `Makefile.am`) |
| talloc (`ccan/talloc`) | the tree of chunks, references, destructors; an external pool and whether its lock is held | `talloc`, `talloc_named`, `talloc_init`, `talloc_free`, `talloc_steal`, `talloc_reference`, `talloc_unlink`, `talloc_realloc`, `talloc_add_external`, reports | owner of every object of device, frame and server; other processes through the pool |
| list (`ccan/list`) | rings of nodes embedded in other structures | `list_add`, `list_add_tail`, `list_del`, the loops, `list_check` | called by whoever embeds a node; the library does not yet |
| typesafe_cb, container_of, check_type, build_assert (`ccan`) | none: compile-time checks | macros | the headers above |

The hard part is shared memory. Processes that never talk to each other create,
attach, unlink and clean up names in one directory with no lock. A process may
die between any two system calls, its pid may be used again, an id may be drawn
again, any call may fail. Everything else is sequential code whose difficulty is
in the failure paths: short transfers, interrupted calls, destructors that fail,
a driver that answers something else than was asked for.

What makes each component correct:

* shared memory: a name is removed only by its owner or after the owner's death;
  a live process can always remove what it created; a cleanup removes every
  marked segment of a dead owner; creation and attach agree on sizes.
* I/O helpers: a loop delivers the bytes in order, none lost or doubled, and says
  how many; a short count means end of file; an interruption is invisible.
* random: what is returned is filled completely, from one source.
* device and frame: a descriptor is closed exactly once; what is returned to the
  caller is set up; what is not returned is freed.
* talloc: a chunk lives until its parent and all its references are gone, and
  then is freed exactly once; it can always be reached from the top.
* list: the links are the lists the program made; a loop stays in its list and
  comes to every node, whatever its body does within the rules.

## Modules

| module | what it is |
|---|---|
| `AvUtil` | `av_align` and `av_page_align` with their constants |
| `Shm` | the shared memory component and the processes using it |
| `ShmRegistry` | abstract specification: ownership of names |
| `ShmInvariants` | the two inductive invariants of `Shm`, in parts: with ids that never repeat, and with any |
| `MCShm` | symmetry sets and boundary sizes for TLC |
| `ShmNameProofs` | types and the arithmetic of segment sizes; the invariant for ids that never repeat, and that names of live processes are safe |
| `ShmSegmentProofs` | `Shm` implements `ShmRegistry`; the invariant for any ids: sound variables, no leaked names, complete cleanups |
| `LoopIO` | a writer and a reader in the I/O loops of `util.c` over a stream |
| `LoopIOProofs` | the inductive invariant of `LoopIO` and its properties |
| `Random` | `av_random` and `av_random_seed` |
| `RandomProofs` | the inductive invariant of `Random` and its properties |
| `Device` | set-up and release of capture devices, with the process's descriptors |
| `DeviceProofs` | the inductive invariant of `Device` and its properties |
| `TallocHeap` | a heap of chunks, and the functions of talloc that change lists and references |
| `TallocTree` | the functions that go through the tree: parents, free, unlink |
| `Talloc` | a program that calls talloc, and what talloc promises it |
| `TallocReports` | the reports and counts of talloc, with `ReportsTrue` |
| `MCTalloc` | symmetry for TLC |
| `TallocHeapProofs` | what each function that links or unlinks a chunk does to the lists |
| `TallocProofs` | nested frees keep the lists; the inductive invariant of `Talloc` and its properties |
| `List` | the lists of `ccan/list`, and a program that changes them in and outside loops |
| `ListProofs` | the operations keep the rings, loops stay in them and miss nothing, what `list_check` passes and what damage it finds |

### Shm

`dir` is `/dev/shm` (a name is its id: `segment_name` is injective and `av_atou`
inverts it; entries of other programs are skipped by `strncmp` and change
nothing), `obj` the segments (size, and the words stored at the marker's place),
`life` and `pid` the process table. Per process, `pc` and `call` say where it is
in which call, `m` are its `struct av_shm` variables, `seg`, `rpid`, `ent`, `fd`
the locals of `av_shm_cleanup` and `av_shm_attach_ro`. `held` is the caller's own
knowledge of which variables hold a segment: the asserts of `av_shm_free` and the
absence of any in-use flag make it the caller's duty, and `Request` keeps it.
`stale`, `must` and `todo` are the history and the kernel's directory stream.

System calls and atomic accesses are actions, named after the call; what the C
code does between two of them is private to the process and belongs to the step
before or after. Two groups of calls share one action, since only one of
each group touches what others can see: `fstat` goes with the `mmap` and `close` after it
(a size, once set, does not change), and `kill` with the `munmap` of the segment. `av_atomic_load` and `av_atomic_store` are full
barriers, so steps interleave in one order. `ftruncate` fills with zeroes, hence
an unmarked segment reads as pid 0 and no marker. `readdir` follows POSIX: entries
present during the whole walk are returned once (`must`), entries made after
`opendir` may be (`todo`, a set of objects: a name that was removed and made again
is a new entry, and may be returned a second time).

Failing system calls are a choice in the action of the call, bounded by
`MaxFaults`. Two failures have no choice of their own: `shm_unlink` of a name the
process itself created (`av_shm_free`, the failure path), which the kernel grants
to the owner of the file, and `munmap`, `closedir` and `close`, whose results
change nothing that is modelled. `av_close` repeats an interrupted `close`, which
the files it is used on here do not meet.

`OneBit` keeps the truncation of `m->shared = shared`: the field has one bit.

### LoopIO

The writer's and the reader's locals are variables of the module (`data`, `size`,
`ret`, `type` and `rdata`, `rsize`, `rret`), the kernel is the sequence `stream`
of the bytes it took and the count `taken` of those it delivered. Byte i of the
data is the number i, so that a byte out of place shows. `send`, `write` and
`read` are the system calls; they take or deliver any part, return 0, or fail.
`EINTR` repeats the call with the same arguments and is a stutter. A writer may
pass a `type` of its own, which then stays with it (`mine`, `kept`), or NULL.
A call that failed has lost its count, so the model's writer stops there; a
reader that got less than it asked for does not ask again.

### Random

`av_loop_read` is used at what `LoopIO` shows: it stores a prefix and says how
much. Bytes are modelled by where they came from. `has_whined` starts TRUE as in
the code, so `warned` stays FALSE: the fallback is never reported.

### Device

`table` is the process's descriptor table, in which other parts of the process
open and close too; `open` takes the lowest free number. `TallocFree` is
`talloc_free` for a device: the destructor closes the descriptor, and its failure
fails the free (the general case is `TallocHeap`). `close` fails only for a number
that is not open: a V4L2 device file has no flush operation, the one place from which
`close` of an open descriptor could report an error. Running out of memory is left
out: the checks for it (`dev < 0`) never hold, and the next line would store
through NULL. The branch of `mmap` in which a mapping succeeds is in the model
though the code never takes it: the length it asks for is 0 (see findings).

### TallocHeap, TallocTree and Talloc

talloc runs in one thread, so a call is one step; what makes it hard is inside
the call: `_talloc_free` takes a tree apart while it looks for new owners for
what cannot be freed, and destructors call back. The heap is modelled with the
pointers of the code: siblings in a doubly linked list of which only the first
knows the parent, handles of references in a second list. `Free`, `Steal`,
`Unlink` and the others are operators from heap to heap. `_talloc_free` calls
itself: `Calls[n]` are its function and the loop over the children with at most n
levels of calls and rounds below them, made from `Calls[n - 1]`; `Free` is at
level `MaxCalls`, and a call that needs more sets `fault` to "endless", as one
that never returns must. A freed chunk keeps its contents until the call returns
and any access to it sets `fault`. Destructors are of
three kinds: none, one that fails, one that frees the context it hangs off; a
successful destructor with no effect on the tree is the same as none.

The program passes only live pointers of its own and moves nothing below itself.
Five further patterns are opened by the constant `Patterns`, because the library
breaks its promises under each of them (below).

Memory may run out at any allocation: the call then changes nothing, except
`talloc_named` and `talloc_init`, which make a chunk, then a second one for its
formatted name, and free the first if that fails. `Report` (module
`TallocReports`) is the sequence of callbacks of a report.

An external pool (`talloc_add_external`) is memory shared with other processes.
The flag `ext` of a chunk and the static `locked` are in the heap; `lock` and
`unlock` stand where the code has them, and a store to a chunk of the pool
without the lock, like a second call of `lock`, sets `fault`. What other
processes do to the pool meanwhile is not modelled. Each exported function locks
for one of its arguments only, and some store after they gave the lock back, so
ordinary uses change a pool unlocked. No property says otherwise: the run keeps
calls on the pool and calls outside it apart, and mixing them is the fifth pattern,
described with what the runs found.

### List

`next` and `prev` are the links of heads and nodes. `order`, the history of what
was put where, is the abstract list. A loop is a state of the program: `loop` has
the macro's variables `i` and `nxt`, `Advance` is the step of the `for`, and
between two steps the body may call any operation on any list. The program keeps
the rules the macros cannot check: a node is in one list, only listed nodes are
deleted, and the body does not delete the node the loop needs next (`i` for
`list_for_each`, `nxt` for `list_for_each_safe`). One loop runs at a time.
`debug` is the build: with `CCAN_LIST_DEBUG` operations call `list_check`, which
aborts, and deletion clears the node. The walk of `list_check` is a recursive
function on heads and nodes.

### Runs

| run | instance | checks |
|---|---|---|
| `shm_fresh` | 3 processes, 2 pids, 2 ids never repeated, 2 segments | `NamesInv`, `ClaimsAreOwned`, `UnlinksOnlyDeadOrOwn`, `ImplementsRegistry`, `StaleDropped` |
| `shm_sizes` | 2 processes, 1 id that repeats, 2 segments, sizes 1, page, page + 1, maximum; private and shared; 1 failing call | `TypeOK`, `HandlesSound`, `SegmentsAttachable`, `NamesAreHeld` |
| `shm_aba` | as `shm_fresh`, ids repeat | `UnlinksOnlyDeadOrOwn` is violated |
| `shm_stale` | 2 processes | `AllStaleDropped` is violated |
| `loopio` | 5 bytes, a buffer of 2, calls of 1 and 3 bytes, 1 failing call | `TypeOK`, `StreamIntact`, `CountsTrue`, `ShortMeansEof`, `SocketsNeverKill`, `LoopsEnd` |
| `random` | lengths 1 to 3, 3 calls | `TypeOK`, `OneSource`, `NoDescriptorLeft` |
| `device` | 3 devices, 4 descriptors, a frame table of 3, up to 4 buffers granted | `TypeOK`, `DescriptorsOwned`, `NoDescriptorLost`, `OnlyUnopenedRemain` |
| `device_frames` | the same | `FramesMapped` is violated |
| `talloc` | 5 chunks, references, names, null context and pools included | `TypeOK`, `NoFault`, `ListsSound`, `Rooted`, `FreeResult`, `OwnedSurvive`, `UnlinkTakesOne`, `ReportsTrue` |
| `talloc_null` | the same with references from NULL | `OwnedSurvive` is violated |
| `list` | 2 lists, 3 nodes, both builds, weak fairness | `TypeOK`, `RingSound`, `VisitsAll`, `LoopInside`, `NeverAborts`, `CheckFindsDamage`, `LoopEnds` |
| `list_damage` | the same | `CheckRejectsDamage` is violated |

Bounds. Each process lives once, so three processes give a creator, a cleaner
and a third that either reuses the creator's pid or creates while the cleaner is
preempted; that is what every known race of this code needs. For `StaleDropped`
they are a dead owner, a cleanup that walks the directory, and a third process that
cleans up or creates meanwhile, or takes the dead owner's pid. In `shm_sizes` the
second segment lets the one id be removed and made again. Two ids and two
segments let a name be free, reused, and taken. One variable per process is
enough because calls of one process do not interleave; the proofs have any
number. A word of 2 bytes, a page of 4, a marker of 3 and a maximum of 7 make
every rounding non-trivial. Deadlock is not checked: all processes may have
exited. Symmetry over processes and segments is used only for safety.

In `loopio` a call of 3 bytes meets a buffer of 2, so every transfer may be cut
and both sides block; 5 bytes let a cut call follow another. In `device` the
driver may grant more buffers than the table has places, and there are fewer
descriptors than devices and others want. Five chunks of `talloc` are a tree of
three with two references, or two siblings that reference each other; a fault
that needs more is possible, since moves nest to any depth. `MaxCalls` is 40: `NoFault`
shows that with five chunks no call needs more.
In `list` three nodes
give a first, a middle and a last one, and a node can leave a list and come back,
at either end, or go to the other list, while a loop is at it, before it or
behind it. `CheckFindsDamage` tries every single wrong link within a list in
every reachable state.

Fairness. `loopio` assumes that a process in `send`, `write` or `read` runs and
is not interrupted for ever (`WF` of the three calls); that the other side closes
or goes on is not assumed but is the left side of `LoopsEnd`. `Shm` has no
fairness: none of its calls blocks, and the only loop, the walk of a cleanup, ends
when `readdir` says so, which POSIX does not promise while others keep making
names. `list` assumes that the body of a loop returns (`WF(Advance)`),
which it does after finitely many calls; a body that adds nodes to the list it
goes over may keep the loop running, and is excepted on the right side of
`LoopEnds`.

### What the runs found

* `shm_aba`: a cleanup judges a segment by its content and unlinks it by name.
  Preempted in between, it removes the segment of a live process that took the
  name after another cleanup had removed the stale one. This needs an id drawn
  twice: unlikely with `/dev/urandom`, likely with the fallback of `av_random`,
  `rand()` never seeded, which gives every process the same ids.
* `shm_stale`: a creator that dies before it stored the marker leaves a name no
  cleanup ever drops.
* `device_frames`: the comment announces `VIDIOC_QUERYBUF`, the code makes no such
  request. The length to map is 0, `mmap` fails, the result is dropped, and a
  device without buffers is returned as set up.
* `talloc_null`: a pointer that `talloc_increase_ref_count` holds is freed with
  its grandparent. `_talloc_free` takes the holder NULL for no holder, and moves
  the pointer to the grandparent that is being freed.

* `list_damage`: `list.h` says that `list_check` returns NULL if a list is not
  consistent. The loop never looks at `prev` of the head of a list with nodes: a
  wrong `h->prev` passes, and so does a list cut short by a wrong `next` back to
  the head. `CheckFindsDamage`, which holds, says that no other single wrong
  link does.

More disagreements of talloc have no run of their own; a run of `MCTalloc`
with the pattern shows each in a few steps:

* `"ancestor reference"`: a has children h (a reference to e) and b, b has
  children e and c, the destructor of c fails. `talloc_free(b)` drops h, and then
  looks for the parent of b through h, which is freed (`NoFault`).
* `"tangle"`: a child holds a reference to its parent a; `talloc_unlink(NULL, a)`
  hangs a below the child, and both are out of reach (`Rooted`).
* `"failing root"`: `talloc_disable_null_tracking` never returns if a chunk's
  destructor fails (`NoFault`).
* `"mixed pool"` (`NoFault`): `talloc.h` calls the lock "the call to lock before
  manipulation of external nodes", but `talloc_steal` locks for the new context
  only, so moving a chunk out of the pool is unlocked; a pool below an ordinary
  context is freed unlocked; `talloc_set_destructor`, and `talloc_strdup`,
  `talloc_asprintf` and `talloc_named` for the name, store after the lock is given
  back; a destructor in a pool that calls `talloc_free` aborts with "nested
  locking".

Smaller things met on the way, not checked: `talloc_reference_count` passes the
chunk where `lock` wants the pointer (`talloc.c:1026`), so with a pool it takes
the memory before the chunk for a header; the destructor of the autofree context
clears the pointer also for the context a parent process made; the fallback warning of `random.c` is never logged; a device whose
path cannot be opened stays allocated (`OnlyUnopenedRemain` says that no other
does); frames are never unmapped.

### Proofs

For every set of processes, pids, ids, segments, variables and sizes, and every
word, page, marker and maximal size that satisfies the named assumptions:

* `TypeCorrect`, `SizesAttachable` (module `ShmNameProofs`). Types alone are not
  inductive: `store_pid` writes through a pointer `mmap` stored two steps
  before. `TypeInv` adds `CallInv`, what a process knows at each place of a call.
  Sizes follow from the arithmetic lemmas: a page holds whole words and the
  maximum whole pages (`GeometryAssumption`).
* `NamesInvariant`, `OnlyDeadOrOwn` (module `ShmNameProofs`), assuming
  `FreshIds`. `NamesInv` says: names and objects agree and an id belongs to one
  object for ever (`ObjInv`); a creator owns what it creates (`CreateInv`); the
  names a process will unlink are its own, each once (`HoldInv`); what a cleanup
  read of an entry stays true until it unlinks it (`ScanInv`). Steps of others are
  dealt with once: they satisfy `Foreign`, and `LocalKeeps` shows that a process
  keeps its knowledge across them. Each action then only needs its own part.
* `Refinement`, `LiveClaimsOwned` (module `ShmSegmentProofs`), assuming
  `FreshIds` and `SharedFits` (callers pass a `shared` that survives one bit).
  Creation publishes a name, free and the failure path withdraw it, a cleanup
  reaps, all else stutters.

`FreshIds` is what `shm_aba` shows to be necessary for these. Three properties need
no such assumption, and are proved of any ids (module `ShmSegmentProofs`):

* `SegmentsInvariant`: an object is the work of one process, its size is set once
  and accepted by attach, and its marker, stored last, is true of the pid and of
  its own place (`SegmentInv`, with `CreatorInv` for the creation under way). From
  it follows `SegmentFrame`, which the three proofs share: no step changes the
  owner of an object, a size once set, or anything of an object whose owner is
  dead; a name that appears is one of an object nobody had.
* `SoundHandles`. A mapping outlives its name, so this rests on objects only: a
  creator records the size it set, attach the size it checked, and neither
  changes.
* `NamesHeld`, assuming `SharedFits`. The name goes from the creation that opened
  it to the variable it returns, and both remove it; an even `shared` is lost
  in the one-bit field, and the name with it.
* `MarkedDropped`. The invariant is `StaleInv`: every marked segment a cleanup has
  to remove is still to be returned by `readdir`, or is the entry the cleanup is
  at, and all it has read so far is about the object behind the name (`Pending`).
  Since the segments of the dead do not change, each check of the loop comes out
  right. That another cleanup takes the name first is the case in which
  nothing is left to remove.

For every amount of data, buffer, size of calls and number of failures:

* `LoopTypes`, `Intact`, `Counts`, `Short`, `NoSigpipe` (module `LoopIOProofs`). The invariant
  `LoopInv` has a part for each side. `WriterInv`: within a call, the pointer is
  the sum of what was reported before and the count so far, and equals the length
  of the stream; the rest of the call fits in the data; a socket's type is 0
  everywhere. `ReaderInv`: pointer and bytes taken agree, count and rest add up to
  what was asked, memory below the pointer holds the stream. Without them
  the stated properties are not inductive: that the next byte is the right one
  depends on the pointer of the call under way.

For every length and number of calls:

* `RandomTypes`, `BytesOfOneSource`, `DevicesClosed` (module `RandomProofs`).
  `RandomInv` adds to the properties what holds within a call: a read takes place
  only before the end of the table of devices (`ReadsDevice`), and no byte beyond
  the length was stored (`WithinLength`).

For every number of devices, descriptors and frames:

* `DeviceTypesHold`, `OwnDescriptors`, `DescriptorsKept`, `UnopenedRemain` (module
  `DeviceProofs`). `DeviceInv` adds which devices exist (`AllocInv`), what the
  set-up has done at each of its steps (`SetupInv`: no descriptor before
  the open, its own after it, its own or none after a failure) and that an open
  descriptor of a device is the one recorded in it (`Recorded`). The constants are assumed such that a device is neither NULL nor
  "other" and that the bound `MaxCount` on granted buffers is not below what the
  code asks for.

For every number of lists and nodes, in both builds:

* `ListTypes`, `ListRings`, `ListLoops` (module `ListProofs`), assuming only that
  heads, nodes and NULL are different. That a store to the links of one item
  disturbs no other ring needs to know that no node is twice in the lists
  (`Apart`), which with the rings themselves is `Sound`. One lemma for each change
  of a ring (`AddSound`, `AddTailSound`, `DelSound`, `ClearSound`, `InitSound`) is
  about any links and lists; the lemmas per action put them together with what
  the loop needs next, which a deletion spares and an insertion keeps in the list.
* `ListVisitsAll`, from `VisitInv`: the nodes that were there all the time and that
  the loop came to are those that stand before the node it needs next. "Before"
  is a relation between places, so that what an insertion at either end and a
  deletion do to it (`BeforeFront`, `BeforeBack`, `BeforeWithout`) needs no
  induction over the list.
* `ListNeverAborts`, `ListDamage`: what `list_check` computes. The function that
  stands for its walk is the one solution or another of its recursion; that there
  is one is proved by the set of items from which the links hold out
  (`WalkExists`). Along the ring the walk is followed by the least place at which
  it would fail (`Least`, from the well-foundedness of < on the numbers), which
  takes the place of an induction (`WalkTo`, `CheckSound`). `NextDamage` and
  `PrevDamage` are the two kinds of wrong link.

For every number of chunks and any bound on nested calls, under all five patterns
too, as long as no call has set `fault`:

* `StealSound` (module `TallocHeapProofs`), of any heap in which some chunks are in
  sound lists and others may be out of theirs: `__talloc_steal` keeps the lists,
  disturbs no reference, accesses nothing free and, if the new context is not below
  the chunk, leaves every chunk reachable from the top. The functions are
  followed store by store; `Left`, `Joined`, `Alone`, `Hung` and `Unhung` say
  what they have written together, and one lemma for each says that the lists are sound
  again. `Good` is what holds between two calls: lists, references and marks.
* `FreeSound` (module `TallocProofs`): what `_talloc_free` promises whoever calls it,
  also from within another `_talloc_free` or from a destructor, when chunks are out of
  their lists and destructors run (`Mid`, which is why `Good` is not enough).
  `Outcome` and `Frame` say: the lists without the chunks taken out are
  sound again, the chunks other calls are busy with are untouched, the result is
  0 just if the chunk is gone, and marks and running destructors are as before. One level
  of calls keeps the promise if the level below does; induction is over the
  levels, with the set of those that fail. That the recursive function `Calls` satisfies
  its recursion is proved too (`CallsStep`).
* `TallocInvariant`, with `Inv`: no fault implies `Good(heap)`. Each
  action has a lemma that its step keeps it, and `TallocTypes`, `TallocLists`
  (`TypeOK` and `ListsSound`) follow. So, also when destructors fail or free their context, after every call no
  mark is left behind, the lock is given back and all lists are linked both ways.
* `TallocFreeResult`: the result of `talloc_free` is true in every heap from
  which frees make no fault (`FreesEndWell`).

The premise is what `NoFault` checks in the run, and what the
patterns break. It is not proved: that no call comes back to a chunk it has freed
depends on the program's care (`Careful`), which speaks of all that a pointer owns over
ways of any length.

Only model-checked: `LoopsEnd` and `LoopEnds` (liveness); of `Talloc`,
`NoFault` for the reason just given; `Rooted`, `OwnedSurvive` and
`UnlinkTakesOne`, which are about parents found over lists of siblings of any length and
about all that is below a chunk, and `ReportsTrue`, whose reports are recursive
operators: these need induction over data.

## Not modelled

* `anekvideo.c`, `anekclient.c`, `buffer.c` and the client handling of `server.c`
  are not built and cannot be: they call functions that do not exist under these
  names. They would add an event loop (stale descriptor sets while clients are
  removed, `clients[fd]` beyond `AV_MAX_CLIENTS`, `FIONREAD` against `recv`).
* `av_atou` (parsing of one number), logging, the copy functions of frames, the
  compile-time macros of `ccan`: no state.
* `talloc_reference_count`: with a pool its `lock` reads the memory before the chunk
  as a header, and what is there is up to malloc.
* talloc's sizes, the text of names, strings and reports, and the autofree
  context (a static that is compared with the process's pid after a fork).
* Nested loops over one list in `List`: the inner one is subject to the same
  rules, and its deletions to the outer one's.

## Plan

1. Specify: an abstract specification of talloc as owners of pointers, which
   `Talloc` implements under `Patterns = {}`; frames as chunks of a device, with
   `Device` and `TallocHeap` composed.
2. Model: the autofree context over a fork.
