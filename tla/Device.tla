------------------------------- MODULE Device --------------------------------
(***************************************************************************)
(* Capture devices (src/device.c) and their frames (src/frame.c): a server *)
(* opens devices and frees them with talloc_free, while the rest of the    *)
(* process opens and closes descriptors of its own. The V4L2 driver may    *)
(* refuse each request and grants as many buffers as it likes.             *)
(*                                                                         *)
(* An ioctl that is interrupted is made again (av_ioctl): a stutter. The   *)
(* callers use av_device_new_from_path, as tests/device.c does, and free   *)
(* what it returns. av_device_copy_frame changes no state: VIDIOC_DQBUF    *)
(* fails, since no buffer is ever queued and no stream started.            *)
(***************************************************************************)
EXTENDS Integers

CONSTANTS
    Devs,       \* the struct av_device a server may allocate
    MaxFd,      \* the largest descriptor of the process
    MaxCount,   \* the most buffers a driver grants
    MAX_DEVICE_FRAMES,
    NULL

ASSUME BoundAssumption ==
    /\ MaxFd \in Nat
    /\ MaxCount \in Nat
    /\ MAX_DEVICE_FRAMES \in 1 .. MaxCount
    /\ NULL \notin Devs
    /\ "other" \notin Devs \cup {NULL}

VARIABLES
    table,  \* table[n]: what descriptor n refers to: a device, "other", NULL
    alloc,  \* the devices that are children of the server
    dev,    \* dev[d]: the struct av_device d
    mine,   \* the devices the callers got from av_device_new_from_path
    cur,    \* the device being set up
    pc      \* where av_device_new_from_path is

vars == <<table, alloc, dev, mine, cur, pc>>

Fds == 0 .. MaxFd

\* After av_clear: the descriptor is 0, which is not a descriptor the device
\* opened, no buffers are requested and the v4l2_buffer has length 0.
Cleared == [fd |-> 0, count |-> 0, length |-> 0, frames |-> 0, mapped |-> 0]

Steps == {"open", "querycap", "s_fmt", "reqbufs", "frame", "mmap", "give_up"}

TypeOK ==
    /\ table \in [Fds -> Devs \cup {"other", NULL}]
    /\ alloc \in SUBSET Devs /\ mine \in SUBSET Devs
    /\ dev \in [Devs -> [fd : Fds \cup {-1}, count : 0 .. MaxCount,
                         length : {0}, frames : 0 .. MAX_DEVICE_FRAMES,
                         mapped : 0 .. MAX_DEVICE_FRAMES]]
    /\ cur \in Devs \cup {NULL}
    /\ pc \in Steps \cup {"idle", "aborted"}

Init ==
    /\ table = [n \in Fds |-> NULL]
    /\ alloc = {} /\ mine = {}
    /\ dev = [d \in Devs |-> Cleared]
    /\ cur = NULL /\ pc = "idle"

-----------------------------------------------------------------------------
(* The kernel's descriptors, and the rest of the process. *)

Free == {n \in Fds : table[n] = NULL}

\* The lowest free descriptor refers to x now.
Opens(n, x) ==
    /\ n \in Free
    /\ \A k \in Free : n <= k
    /\ table' = [table EXCEPT ![n] = x]

OtherOpens ==
    /\ pc = "idle"
    /\ \E n \in Fds : Opens(n, "other")
    /\ UNCHANGED <<alloc, dev, mine, cur, pc>>

OtherCloses ==
    /\ pc = "idle"
    /\ \E n \in Fds :
        /\ table[n] = "other"
        /\ table' = [table EXCEPT ![n] = NULL]
    /\ UNCHANGED <<alloc, dev, mine, cur, pc>>

-----------------------------------------------------------------------------
(* Freeing a device. *)

\* close(n) succeeds.
IsOpen(n) == n \in Fds /\ table[n] # NULL

failing_DestroyFails(d) == TRUE

\* av_device_destroy returns -1 when close() fails. Of an open descriptor it does
\* not: a V4L2 device file has no flush operation that could report an error.
DestroyFails(d) == ~IsOpen(dev[d].fd)

\* talloc_free(d): a failing destructor fails the free, and everything stays
\* as it was; else the descriptor is closed, and the device goes with its
\* frames, whose destructor never fails.
TallocFree(d) ==
    \/ DestroyFails(d) /\ UNCHANGED <<table, alloc, dev>>
    \/ /\ ~DestroyFails(d)
       /\ table' = [table EXCEPT ![dev[d].fd] = NULL]
       /\ alloc' = alloc \ {d}
       /\ dev' = [dev EXCEPT ![d] = Cleared]

\* A caller frees a device it got.
talloc_free(d) ==
    /\ pc = "idle" /\ d \in mine
    /\ TallocFree(d)
    /\ mine' = mine \ {d}
    /\ UNCHANGED <<cur, pc>>

-----------------------------------------------------------------------------
(* av_device_new_from_path *)

\* av_device_new: the device is allocated, cleared, and has its destructor.
av_device_new(d) ==
    /\ pc = "idle" /\ d \notin alloc
    /\ alloc' = alloc \cup {d}
    /\ dev' = [dev EXCEPT ![d] = Cleared]
    /\ cur' = d /\ pc' = "open"
    /\ UNCHANGED <<table, mine>>

Goto(where) == pc' = where /\ UNCHANGED <<table, alloc, mine, cur>>

unstored_open ==
    /\ pc = "open"
    /\ \/ (\E n \in Fds : Opens(n, cur)) /\ pc' = "querycap"
       \/ pc' = "give_up" /\ UNCHANGED table
    /\ UNCHANGED <<alloc, dev, mine, cur>>

\* dev->fd = open(path, O_RDWR)
open ==
    /\ pc = "open"
    /\ \/ /\ \E n \in Fds :
              /\ Opens(n, cur)
              /\ dev' = [dev EXCEPT ![cur].fd = n]
          /\ pc' = "querycap"
       \/ /\ dev' = [dev EXCEPT ![cur].fd = -1]
          /\ pc' = "give_up"
          /\ UNCHANGED table
    /\ UNCHANGED <<alloc, mine, cur>>

\* VIDIOC_QUERYCAP fails, or the device cannot capture or stream.
querycap ==
    /\ pc = "querycap"
    /\ Goto("s_fmt") \/ Goto("give_up")
    /\ UNCHANGED dev

\* VIDIOC_S_FMT; the result of VIDIOC_S_PARM is not looked at.
s_fmt ==
    /\ pc = "s_fmt"
    /\ Goto("reqbufs") \/ Goto("give_up")
    /\ UNCHANGED dev

\* av_device_setup_from_path returns 0 and the caller gets the device, also
\* when av_device_setup_buffers has failed: its result is not looked at.
Returned ==
    /\ mine' = mine \cup {cur}
    /\ cur' = NULL /\ pc' = "idle"
    /\ UNCHANGED <<table, alloc>>

\* VIDIOC_REQBUFS fails and leaves the count as requested, or the driver
\* sets it; two buffers or fewer are an assertion failure.
reqbufs ==
    /\ pc = "reqbufs"
    /\ \/ /\ dev' = [dev EXCEPT ![cur].count = MAX_DEVICE_FRAMES]
          /\ Returned
       \/ \E n \in 0 .. MaxCount :
           /\ dev' = [dev EXCEPT ![cur].count = n]
           /\ Goto(IF n > 2 THEN "frame" ELSE "aborted")

\* dev->frames[i] = av_frame_new_for_device(dev), with the metadata of the
\* v4l2_buffer.
frame ==
    /\ pc = "frame"
    /\ dev' = [dev EXCEPT ![cur].frames = @ + 1]
    /\ Goto("mmap")

querying_Mappable(d) == TRUE

\* mmap() of no bytes fails.
Mappable(d) == dev[d].length > 0

\* f->mem = mmap(NULL, buf->length, ...): the last frame is mapped and the loop
\* goes on, or the loop ends.
mmap ==
    /\ pc = "mmap"
    /\ IF Mappable(cur)
       THEN /\ dev' = [dev EXCEPT ![cur].mapped = @ + 1]
            /\ IF dev[cur].frames < dev[cur].count THEN Goto("frame") ELSE Returned
       ELSE Returned /\ UNCHANGED dev

forgetful_give_up ==
    /\ pc = "give_up"
    /\ cur' = NULL /\ pc' = "idle"
    /\ UNCHANGED <<table, alloc, dev, mine>>

\* av_device_setup_from_path has failed: talloc_free(dev), return NULL.
give_up ==
    /\ pc = "give_up"
    /\ TallocFree(cur)
    /\ cur' = NULL /\ pc' = "idle"
    /\ UNCHANGED mine

Next ==
    \/ OtherOpens \/ OtherCloses
    \/ \E d \in Devs : av_device_new(d) \/ talloc_free(d)
    \/ open \/ querycap \/ s_fmt \/ reqbufs \/ frame \/ mmap \/ give_up

Spec == Init /\ [][Next]_vars

-----------------------------------------------------------------------------
(* Properties. *)

\* A device the caller has refers to the descriptor it opened itself, whatever
\* was opened and closed meanwhile: its destructor never closes a descriptor
\* of somebody else.
DescriptorsOwned == \A d \in mine : IsOpen(dev[d].fd) /\ table[dev[d].fd] = d

\* A descriptor opened for a device that was not returned is closed again, on
\* every failure path of the set-up.
NoDescriptorLost ==
    \A n \in Fds : table[n] \in Devs => table[n] \in mine \cup {cur}

\* What av_device_new_from_path leaves behind in the server when it returns
\* NULL: a device whose path could not be opened stays, since its destructor
\* closes -1 and the free fails; no other does.
OnlyUnopenedRemain ==
    \A d \in alloc \ (mine \cup {cur}) : dev[d].fd = -1

\* device.c:126, "VIDIOC_QUERYBUF and map to av_frame": a device that was set
\* up has every buffer the driver granted mapped to a frame.
FramesMapped ==
    \A d \in mine : dev[d].frames > 0 => dev[d].mapped = dev[d].count

==============================================================================
