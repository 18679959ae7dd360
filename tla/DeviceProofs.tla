---------------------------- MODULE DeviceProofs -----------------------------
(***************************************************************************)
(* Descriptors of capture devices, for any number of devices and           *)
(* descriptors: none is closed by anybody but its device, and none is      *)
(* lost.                                                                   *)
(*                                                                         *)
(* The argument: a device and its descriptor refer to each other. From the *)
(* device to the descriptor this is DescriptorsOwned; the way back         *)
(* (Recorded) says that the descriptor that is closed is the only one the  *)
(* device has. In between, the device that is set up has a descriptor      *)
(* exactly from its open() on (SetupInv).                                  *)
(***************************************************************************)
EXTENDS Device, TLAPS

\* The struct av_device.
Device == [fd : Fds \cup {-1}, count : 0 .. MaxCount, length : {0},
           frames : 0 .. MAX_DEVICE_FRAMES, mapped : 0 .. MAX_DEVICE_FRAMES]

\* The device d has the descriptor it opened.
HasDescriptor(d) == IsOpen(dev[d].fd) /\ table[dev[d].fd] = d

\* A descriptor of a device is the one the device has recorded.
Recorded == \A n \in Fds : table[n] \in Devs => dev[table[n]].fd = n

\* Callers have children of the server, and not the one being set up.
AllocInv ==
    /\ mine \subseteq alloc
    /\ cur # NULL => cur \in alloc \ mine
    /\ cur = NULL <=> pc = "idle"

\* What the device that is set up has got so far: no descriptor before
\* open(), and after a failure its own or none.
SetupInv ==
    /\ pc = "open" => \A n \in Fds : table[n] # cur
    /\ pc \in {"querycap", "s_fmt", "reqbufs", "frame", "mmap"} => HasDescriptor(cur)
    /\ pc = "give_up" => HasDescriptor(cur) \/ dev[cur].fd = -1
    /\ pc \in {"open", "querycap", "s_fmt", "reqbufs", "frame"} => dev[cur].frames = 0

\* The inductive invariant.
DeviceInv ==
    /\ TypeOK /\ AllocInv /\ SetupInv /\ Recorded
    /\ DescriptorsOwned /\ NoDescriptorLost /\ OnlyUnopenedRemain

-----------------------------------------------------------------------------

\* Updates of a device keep its type.
LEMMA DeviceUpdates ==
    /\ Cleared \in Device
    /\ \A r \in Device :
        /\ \A n \in Fds \cup {-1} : [r EXCEPT !.fd = n] \in Device
        /\ \A n \in 0 .. MaxCount : [r EXCEPT !.count = n] \in Device
        /\ \A n \in 0 .. MAX_DEVICE_FRAMES : [r EXCEPT !.frames = n] \in Device
<1>1. 0 \in Fds /\ 0 \in 0 .. MaxCount /\ 0 \in 0 .. MAX_DEVICE_FRAMES
    BY BoundAssumption DEF Fds
<1>2. Cleared \in Device
    BY <1>1 DEF Cleared, Device
<1> QED BY <1>2 DEF Device

\* What TypeOK says, in the form the steps below use.
LEMMA DeviceTypes ==
    ASSUME TypeOK
    PROVE  /\ table \in [Fds -> Devs \cup {"other", NULL}]
           /\ alloc \subseteq Devs /\ mine \subseteq Devs
           /\ dev \in [Devs -> Device]
           /\ cur \in Devs \cup {NULL}
BY DEF TypeOK, Device

\* Nothing is mapped and nothing open at the start.
LEMMA DeviceInit == Init => DeviceInv
<1> SUFFICES ASSUME Init PROVE DeviceInv
    OBVIOUS
<1>1. TypeOK
    BY DeviceUpdates DEF Init, TypeOK, Device
<1>2. AllocInv /\ SetupInv /\ DescriptorsOwned /\ OnlyUnopenedRemain
    BY DEF Init, AllocInv, SetupInv, DescriptorsOwned, OnlyUnopenedRemain
<1>3. Recorded /\ NoDescriptorLost
    BY BoundAssumption DEF Init, Recorded, NoDescriptorLost
<1> QED BY <1>1, <1>2, <1>3 DEF DeviceInv

\* The rest of the process opens and closes descriptors of its own: no device
\* notices.
LEMMA DeviceOther ==
    ASSUME DeviceInv, OtherOpens \/ OtherCloses
    PROVE  DeviceInv'
<1> USE DeviceTypes DEF DeviceInv
<1>1. PICK n \in Fds, x \in {"other", NULL} :
        table' = [table EXCEPT ![n] = x] /\ table[n] \in {"other", NULL}
    BY DEF OtherOpens, OtherCloses, Opens, Free
<1>2. UNCHANGED <<alloc, dev, mine, cur, pc>> /\ pc = "idle"
    BY DEF OtherOpens, OtherCloses
<1>3. /\ \A k \in Fds : k # n => table'[k] = table[k]
      /\ table'[n] \notin Devs /\ table[n] \notin Devs
      /\ table' \in [Fds -> Devs \cup {"other", NULL}]
    BY <1>1, BoundAssumption
<1>4. TypeOK'
    BY <1>2, <1>3 DEF TypeOK
<1>5. (AllocInv /\ SetupInv /\ OnlyUnopenedRemain)'
    BY <1>2 DEF AllocInv, SetupInv, OnlyUnopenedRemain
<1>6. (Recorded /\ NoDescriptorLost)'
    BY <1>2, <1>3 DEF Recorded, NoDescriptorLost
<1>7. DescriptorsOwned'
  <2> SUFFICES ASSUME NEW d \in mine
               PROVE  IsOpen(dev[d].fd)' /\ table'[dev[d].fd] = d
    BY <1>2 DEF DescriptorsOwned
  <2>1. dev[d].fd \in Fds /\ table[dev[d].fd] = d /\ d # NULL /\ d \in Devs
    BY BoundAssumption DEF DescriptorsOwned, IsOpen
  <2>2. dev[d].fd # n
    BY <1>3, <2>1
  <2> QED BY <1>2, <1>3, <2>1, <2>2 DEF IsOpen
<1> QED BY <1>4, <1>5, <1>6, <1>7

\* talloc_free of a device with its descriptor closes that descriptor, and
\* leaves every other device alone.
LEMMA FreeCloses ==
    ASSUME DeviceInv, NEW d \in Devs, HasDescriptor(d), TallocFree(d)
    PROVE  /\ alloc' = alloc \ {d}
           /\ dev' \in [Devs -> Device]
           /\ \A e \in Devs : e # d => dev'[e] = dev[e]
           /\ table' \in [Fds -> Devs \cup {"other", NULL}]
           /\ \A n \in Fds : table[n] # d => table'[n] = table[n]
           /\ \A n \in Fds : table'[n] # d
<1> USE DeviceTypes DEF DeviceInv
<1>1. dev[d].fd \in Fds /\ table[dev[d].fd] = d /\ d # NULL
    BY BoundAssumption DEF HasDescriptor, IsOpen
<1>2. /\ table' = [table EXCEPT ![dev[d].fd] = NULL]
      /\ alloc' = alloc \ {d}
      /\ dev' = [dev EXCEPT ![d] = Cleared]
    BY DEF TallocFree, DestroyFails, HasDescriptor
<1>3. dev' \in [Devs -> Device] /\ \A e \in Devs : e # d => dev'[e] = dev[e]
    BY <1>2, DeviceUpdates
<1>4. \A n \in Fds : table[n] = d => n = dev[d].fd
    BY DEF Recorded
<1> QED BY <1>1, <1>2, <1>3, <1>4

\* A device goes with its descriptor, whether a caller or the set-up frees it.
LEMMA FreeKeeps ==
    ASSUME DeviceInv, NEW d \in Devs, HasDescriptor(d), TallocFree(d),
           mine' = mine \ {d}, cur' = NULL, pc' = "idle",
           cur \in {d, NULL}
    PROVE  DeviceInv'
<1> USE DeviceTypes DEF DeviceInv
<1>1. /\ alloc' = alloc \ {d}
      /\ dev' \in [Devs -> Device]
      /\ \A e \in Devs : e # d => dev'[e] = dev[e]
      /\ table' \in [Fds -> Devs \cup {"other", NULL}]
      /\ \A n \in Fds : table[n] # d => table'[n] = table[n]
      /\ \A n \in Fds : table'[n] # d
    BY FreeCloses
<1>a. \A n \in Fds : table'[n] \in Devs => table'[n] = table[n] /\ table[n] # d
  <2> SUFFICES ASSUME NEW n \in Fds, table'[n] \in Devs
               PROVE  table'[n] = table[n] /\ table[n] # d
    OBVIOUS
  <2>1. ASSUME table[n] = d PROVE FALSE
    <3>1. n = dev[d].fd
        BY <2>1 DEF Recorded
    <3>2. table'[n] = NULL
        BY <3>1 DEF TallocFree, DestroyFails, HasDescriptor
    <3> QED BY <3>2, BoundAssumption
  <2> QED BY <1>1, <2>1
<1>2. TypeOK'
    BY <1>1 DEF TypeOK, Device
<1>3. AllocInv'
    BY <1>1 DEF AllocInv
<1>4. SetupInv'
    BY DEF SetupInv
<1>5. Recorded'
    BY <1>1, <1>a DEF Recorded
<1>6. NoDescriptorLost'
    BY <1>a, BoundAssumption DEF NoDescriptorLost
<1>7. DescriptorsOwned'
  <2> SUFFICES ASSUME NEW e \in mine, e # d
               PROVE  IsOpen(dev[e].fd)' /\ table'[dev'[e].fd] = e
    BY DEF DescriptorsOwned
  <2>1. dev[e].fd \in Fds /\ table[dev[e].fd] = e /\ e # NULL /\ e \in Devs
    BY BoundAssumption DEF DescriptorsOwned, IsOpen
  <2>2. dev'[e].fd = dev[e].fd /\ table'[dev[e].fd] = e
    BY <1>1, <2>1
  <2> QED BY <2>1, <2>2 DEF IsOpen
<1>8. OnlyUnopenedRemain'
  <2>1. \A e \in alloc' \ mine' : e \in alloc \ (mine \cup {cur}) /\ e # d /\ e \in Devs
    BY <1>1, BoundAssumption
  <2> QED BY <1>1, <2>1 DEF OnlyUnopenedRemain
<1> QED BY <1>2, <1>3, <1>4, <1>5, <1>6, <1>7, <1>8

\* A caller frees a device it got (tests/device.c): its free never fails.
LEMMA Device_talloc_free ==
    ASSUME DeviceInv, NEW d \in Devs, talloc_free(d)
    PROVE  DeviceInv'
<1>1. HasDescriptor(d) /\ cur = NULL
    BY DEF talloc_free, DeviceInv, DescriptorsOwned, HasDescriptor, AllocInv
<1>2. TallocFree(d) /\ mine' = mine \ {d} /\ cur' = NULL /\ pc' = "idle"
    BY <1>1 DEF talloc_free
<1> QED BY <1>1, <1>2, FreeKeeps

\* The set-up has failed and frees its device (device.c:187): with the
\* descriptor it goes, without one it stays.
LEMMA Device_give_up ==
    ASSUME DeviceInv, give_up
    PROVE  DeviceInv'
<1> USE DeviceTypes
<1>1. cur \in Devs /\ cur \notin mine /\ cur \in alloc
    BY DEF give_up, DeviceInv, AllocInv
<1>2. TallocFree(cur) /\ cur' = NULL /\ pc' = "idle" /\ mine' = mine
    BY DEF give_up
<1>3. CASE HasDescriptor(cur)
  <2>1. mine' = mine \ {cur}
    BY <1>1, <1>2
  <2> QED BY <1>1, <1>2, <1>3, <2>1, FreeKeeps
<1>4. CASE ~HasDescriptor(cur)
  <2>1. dev[cur].fd = -1
    BY <1>4 DEF give_up, DeviceInv, SetupInv
  <2>2. UNCHANGED <<table, alloc, dev>>
    BY <1>2, <2>1 DEF TallocFree, DestroyFails, IsOpen, Fds
  <2>3. \A n \in Fds : table[n] # cur
    <3>1. ASSUME NEW n \in Fds, table[n] = cur PROVE FALSE
      <4>1. dev[cur].fd = n /\ n >= 0
        BY <1>1, <3>1 DEF DeviceInv, Recorded, Fds
      <4> QED BY <2>1, <4>1
    <3> QED BY <3>1
  <2>4. TypeOK'
    BY <1>2, <2>2 DEF DeviceInv, TypeOK
  <2>5. (AllocInv /\ SetupInv)'
    BY <1>2, <2>2 DEF DeviceInv, AllocInv, SetupInv
  <2>6. (Recorded /\ DescriptorsOwned)'
    BY <1>2, <2>2 DEF DeviceInv, Recorded, DescriptorsOwned, IsOpen
  <2>7. NoDescriptorLost'
    BY <1>2, <2>2, <2>3 DEF DeviceInv, NoDescriptorLost
  <2>8. OnlyUnopenedRemain'
    BY <1>2, <2>1, <2>2 DEF DeviceInv, OnlyUnopenedRemain
  <2> QED BY <2>4, <2>5, <2>6, <2>7, <2>8 DEF DeviceInv
<1> QED BY <1>3, <1>4

\* A new device (device.c:36) has no descriptor yet: nothing in the table
\* refers to it, so clearing its struct loses nothing.
LEMMA Device_av_device_new ==
    ASSUME DeviceInv, NEW d \in Devs, av_device_new(d)
    PROVE  DeviceInv'
<1> USE DeviceTypes DEF DeviceInv
<1>1. /\ pc = "idle" /\ cur = NULL /\ d \notin alloc /\ d # NULL /\ d \notin mine
      /\ alloc' = alloc \cup {d} /\ cur' = d /\ pc' = "open"
      /\ table' = table /\ mine' = mine
    BY BoundAssumption DEF av_device_new, AllocInv
<1>2. /\ dev' \in [Devs -> Device] /\ dev'[d] = Cleared
      /\ \A e \in Devs : e # d => dev'[e] = dev[e]
    BY DeviceUpdates DEF av_device_new
<1>3. \A n \in Fds : table[n] # d
    BY <1>1 DEF NoDescriptorLost
<1>4. TypeOK'
    BY <1>1, <1>2 DEF TypeOK, Steps, Device
<1>5. AllocInv'
    BY <1>1 DEF AllocInv
<1>6. SetupInv'
    BY <1>1, <1>2, <1>3 DEF SetupInv, Cleared
<1>7. (Recorded /\ NoDescriptorLost)'
    BY <1>1, <1>2, <1>3, BoundAssumption DEF Recorded, NoDescriptorLost
<1>8. DescriptorsOwned'
    BY <1>1, <1>2 DEF DescriptorsOwned, IsOpen
<1>9. OnlyUnopenedRemain'
    BY <1>1, <1>2, BoundAssumption DEF OnlyUnopenedRemain
<1> QED BY <1>4, <1>5, <1>6, <1>7, <1>8, <1>9

\* open() of the path (device.c:54): the descriptor it returns was free, so no
\* device has it, and it is recorded in the same step.
LEMMA Device_open ==
    ASSUME DeviceInv, open
    PROVE  DeviceInv'
<1> USE DeviceTypes DEF DeviceInv
<1>1. /\ pc = "open" /\ cur \in Devs /\ cur # NULL /\ cur \notin mine
      /\ UNCHANGED <<alloc, mine, cur>>
      /\ \A n \in Fds : table[n] # cur
      /\ dev[cur].frames = 0
    BY BoundAssumption DEF open, AllocInv, SetupInv
<1>2. ASSUME NEW n \in Fds, Opens(n, cur), dev' = [dev EXCEPT ![cur].fd = n],
             pc' = "querycap"
      PROVE  DeviceInv'
  <2>1. /\ table[n] = NULL /\ table'[n] = cur
        /\ \A k \in Fds : k # n => table'[k] = table[k]
        /\ table' \in [Fds -> Devs \cup {"other", NULL}]
    BY <1>1, <1>2 DEF Opens, Free
  <2>2. dev[cur] \in Device /\ dev' = [dev EXCEPT ![cur] = [dev[cur] EXCEPT !.fd = n]]
    BY <1>1, <1>2
  <2>3. /\ dev' \in [Devs -> Device] /\ dev'[cur].fd = n /\ dev'[cur].frames = 0
        /\ \A e \in Devs : e # cur => dev'[e] = dev[e]
    BY <1>1, <2>2, DeviceUpdates DEF Device
  <2>4. TypeOK'
    BY <1>1, <1>2, <2>1, <2>3 DEF TypeOK, Steps, Device
  <2>5. AllocInv'
    BY <1>1, <1>2 DEF AllocInv
  <2>6. SetupInv'
    BY <1>1, <1>2, <2>1, <2>3 DEF SetupInv, HasDescriptor, IsOpen
  <2>7. (Recorded /\ NoDescriptorLost)'
    BY <1>1, <2>1, <2>3 DEF Recorded, NoDescriptorLost
  <2>8. DescriptorsOwned'
    <3> SUFFICES ASSUME NEW d \in mine
                 PROVE  IsOpen(dev[d].fd)' /\ table'[dev'[d].fd] = d
        BY <1>1 DEF DescriptorsOwned
    <3>1. dev[d].fd \in Fds /\ table[dev[d].fd] = d /\ d # NULL /\ d \in Devs
        BY BoundAssumption DEF DescriptorsOwned, IsOpen
    <3>2. dev'[d].fd = dev[d].fd /\ dev[d].fd # n
        BY <1>1, <2>1, <2>3, <3>1
    <3> QED BY <2>1, <3>1, <3>2 DEF IsOpen
  <2>9. OnlyUnopenedRemain'
    BY <1>1, <2>3 DEF OnlyUnopenedRemain
  <2> QED BY <2>4, <2>5, <2>6, <2>7, <2>8, <2>9
<1>3. ASSUME dev' = [dev EXCEPT ![cur].fd = -1], pc' = "give_up", table' = table
      PROVE  DeviceInv'
  <2>2. dev[cur] \in Device /\ dev' = [dev EXCEPT ![cur] = [dev[cur] EXCEPT !.fd = -1]]
    BY <1>1, <1>3
  <2>3. /\ dev' \in [Devs -> Device] /\ dev'[cur].fd = -1
        /\ \A e \in Devs : e # cur => dev'[e] = dev[e]
    BY <1>1, <2>2, DeviceUpdates DEF Device
  <2>4. TypeOK'
    BY <1>1, <1>3, <2>3 DEF TypeOK, Steps, Device
  <2>5. AllocInv' /\ SetupInv'
    BY <1>1, <1>3, <2>3 DEF AllocInv, SetupInv
  <2>6. (Recorded /\ NoDescriptorLost)'
    BY <1>1, <1>3, <2>3 DEF Recorded, NoDescriptorLost
  <2>7. DescriptorsOwned'
    BY <1>1, <1>3, <2>3 DEF DescriptorsOwned, IsOpen
  <2>8. OnlyUnopenedRemain'
    BY <1>1, <2>3 DEF OnlyUnopenedRemain
  <2> QED BY <2>4, <2>5, <2>6, <2>7, <2>8
<1> QED BY <1>2, <1>3 DEF open

\* Between open() and the return, a step leaves every descriptor where it is.
LEMMA SetupKeeps ==
    ASSUME DeviceInv, pc \in {"querycap", "s_fmt", "reqbufs", "frame", "mmap"},
           UNCHANGED <<table, alloc>>,
           dev' \in [Devs -> Device],
           \A d \in Devs : dev'[d].fd = dev[d].fd
    PROVE  /\ Returned => DeviceInv'
           /\ /\ UNCHANGED <<mine, cur>>
              /\ pc' \in {"s_fmt", "reqbufs", "frame", "mmap", "give_up", "aborted"}
              /\ pc' \in {"s_fmt", "reqbufs", "frame"} => dev'[cur].frames = 0
              => DeviceInv'
<1> USE DeviceTypes DEF DeviceInv
<1>1. cur \in Devs /\ cur # NULL /\ cur \in alloc \ mine /\ HasDescriptor(cur)
    BY BoundAssumption DEF AllocInv, SetupInv
<1>2. Recorded'
    BY DEF Recorded
<1>3. \A d \in Devs : HasDescriptor(d) => HasDescriptor(d)'
    BY DEF HasDescriptor, IsOpen
<1>4. \A d \in mine \cup {cur} : HasDescriptor(d)' /\ d \in Devs
    BY <1>1, <1>3 DEF DescriptorsOwned, HasDescriptor
<1>5. ASSUME Returned PROVE DeviceInv'
  <2>1. mine' = mine \cup {cur} /\ cur' = NULL /\ pc' = "idle"
    BY <1>5 DEF Returned
  <2>2. TypeOK'
    BY <1>1, <2>1 DEF TypeOK, Device
  <2>3. (AllocInv /\ SetupInv)'
    BY <1>1, <2>1 DEF AllocInv, SetupInv
  <2>4. DescriptorsOwned'
    BY <1>4, <2>1 DEF DescriptorsOwned, HasDescriptor
  <2>5. (NoDescriptorLost /\ OnlyUnopenedRemain)'
    BY <1>1, <2>1 DEF NoDescriptorLost, OnlyUnopenedRemain
  <2> QED BY <1>2, <2>2, <2>3, <2>4, <2>5
<1>6. ASSUME UNCHANGED <<mine, cur>>,
             pc' \in {"s_fmt", "reqbufs", "frame", "mmap", "give_up", "aborted"},
             pc' \in {"s_fmt", "reqbufs", "frame"} => dev'[cur].frames = 0
      PROVE  DeviceInv'
  <2>2. TypeOK'
    BY <1>6 DEF TypeOK, Device, Steps
  <2>3. AllocInv'
    BY <1>1, <1>6 DEF AllocInv
  <2>4. HasDescriptor(cur)' /\ cur' = cur
    BY <1>4, <1>6
  <2>5. SetupInv'
    BY <1>6, <2>4 DEF SetupInv, HasDescriptor
  <2>6. DescriptorsOwned'
    BY <1>4, <1>6 DEF DescriptorsOwned, HasDescriptor
  <2>7. (NoDescriptorLost /\ OnlyUnopenedRemain)'
    BY <1>1, <1>6 DEF NoDescriptorLost, OnlyUnopenedRemain
  <2> QED BY <1>2, <2>2, <2>3, <2>5, <2>6, <2>7
<1> QED BY <1>5, <1>6

\* Capabilities and format (device.c:60, device.c:83).
LEMMA Device_format ==
    ASSUME DeviceInv, querycap \/ s_fmt
    PROVE  DeviceInv'
<1>1. /\ pc \in {"querycap", "s_fmt"} /\ pc' \in {"s_fmt", "reqbufs", "give_up"}
      /\ UNCHANGED <<table, alloc, dev, mine, cur>>
    BY DEF querycap, s_fmt, Goto
<1>2. dev \in [Devs -> Device] /\ dev[cur].frames = 0
    BY <1>1, DeviceTypes DEF DeviceInv, SetupInv
<1> QED BY <1>1, <1>2, SetupKeeps

\* The buffers (device.c:117): the count is the driver's or the one asked for.
LEMMA Device_reqbufs ==
    ASSUME DeviceInv, reqbufs
    PROVE  DeviceInv'
<1>0. /\ pc = "reqbufs" /\ cur \in Devs /\ dev \in [Devs -> Device]
      /\ dev[cur].frames = 0
    BY DeviceTypes DEF reqbufs, DeviceInv, AllocInv, SetupInv
<1>1. PICK n \in 0 .. MaxCount :
        /\ dev' = [dev EXCEPT ![cur] = [dev[cur] EXCEPT !.count = n]]
        /\ Returned \/ Goto(IF n > 2 THEN "frame" ELSE "aborted")
  <2>1. MAX_DEVICE_FRAMES \in 0 .. MaxCount
    BY BoundAssumption
  <2> QED BY <1>0, <2>1 DEF reqbufs
<1>2. /\ dev' \in [Devs -> Device]
      /\ \A d \in Devs : dev'[d].fd = dev[d].fd /\ dev'[d].frames = dev[d].frames
    BY <1>0, <1>1, DeviceUpdates DEF Device
<1>3. CASE Returned
    BY <1>0, <1>2, <1>3, SetupKeeps DEF Returned
<1>4. CASE Goto(IF n > 2 THEN "frame" ELSE "aborted")
  <2>1. /\ UNCHANGED <<table, alloc, mine, cur>> /\ pc' \in {"frame", "aborted"}
        /\ dev'[cur].frames = 0
    BY <1>0, <1>2, <1>4 DEF Goto
  <2> QED BY <1>0, <1>2, <2>1, SetupKeeps
<1> QED BY <1>1, <1>3, <1>4

\* The frame (device.c:128): it is the first, since the mapping of a frame fails, so it
\* is within MAX_DEVICE_FRAMES.
LEMMA Device_frame ==
    ASSUME DeviceInv, frame
    PROVE  DeviceInv'
<1>0. /\ pc = "frame" /\ cur \in Devs /\ dev \in [Devs -> Device]
      /\ dev[cur].frames = 0
    BY DeviceTypes DEF frame, DeviceInv, AllocInv, SetupInv
<1>1. 0 + 1 \in 0 .. MAX_DEVICE_FRAMES
    BY BoundAssumption
<1>2. dev' = [dev EXCEPT ![cur] = [dev[cur] EXCEPT !.frames = 0 + 1]]
    BY <1>0 DEF frame
<1>3. dev' \in [Devs -> Device] /\ \A d \in Devs : dev'[d].fd = dev[d].fd
    BY <1>0, <1>1, <1>2, DeviceUpdates DEF Device
<1>4. UNCHANGED <<table, alloc, mine, cur>> /\ pc' = "mmap"
    BY DEF frame, Goto
<1> QED BY <1>0, <1>3, <1>4, SetupKeeps

\* The mapping (device.c:140): the length of the buffer is 0, so it fails and
\* the device is returned.
LEMMA Device_mmap ==
    ASSUME DeviceInv, mmap
    PROVE  DeviceInv'
<1>0. pc = "mmap" /\ cur \in Devs /\ dev \in [Devs -> Device]
    BY DeviceTypes DEF mmap, DeviceInv, AllocInv
<1>1. dev[cur].length = 0
    BY <1>0 DEF Device
<1>2. Returned /\ dev' = dev
    BY <1>1 DEF mmap, Mappable
<1> QED BY <1>0, <1>2, SetupKeeps DEF Returned

\* Every step preserves the invariant.
LEMMA DeviceStep == DeviceInv /\ [Next]_vars => DeviceInv'
<1> SUFFICES ASSUME DeviceInv, [Next]_vars PROVE DeviceInv'
    OBVIOUS
<1>1. CASE OtherOpens \/ OtherCloses
    BY <1>1, DeviceOther
<1>2. ASSUME NEW d \in Devs, av_device_new(d) \/ talloc_free(d) PROVE DeviceInv'
    BY <1>2, Device_av_device_new, Device_talloc_free
<1>3. CASE open \/ querycap \/ s_fmt
    BY <1>3, Device_open, Device_format
<1>4. CASE reqbufs \/ frame \/ mmap \/ give_up
    BY <1>4, Device_reqbufs, Device_frame, Device_mmap, Device_give_up
<1>5. CASE UNCHANGED vars
  <2> USE <1>5 DEF vars
  <2>1. TypeOK'
    BY DEF DeviceInv, TypeOK
  <2>2. (AllocInv /\ SetupInv /\ Recorded)'
    BY DEF DeviceInv, AllocInv, SetupInv, Recorded, HasDescriptor, IsOpen
  <2>3. (DescriptorsOwned /\ NoDescriptorLost /\ OnlyUnopenedRemain)'
    BY DEF DeviceInv, DescriptorsOwned, NoDescriptorLost, OnlyUnopenedRemain, IsOpen
  <2> QED BY <2>1, <2>2, <2>3 DEF DeviceInv
<1> QED BY <1>1, <1>2, <1>3, <1>4, <1>5 DEF Next

\* The variables keep their types; no frame is stored beyond the array of
\* MAX_DEVICE_FRAMES frames (device.h:26), since the loop over the buffers
\* (device.c:127) ends with its first mapping, whose length is 0.
THEOREM DeviceTypesHold == Spec => []TypeOK
<1>1. DeviceInv => TypeOK
    BY DEF DeviceInv
<1> QED BY <1>1, DeviceInit, DeviceStep, PTL DEF Spec

\* A device a caller has keeps the descriptor it opened (device.c:54), and its
\* destructor (device.c:30) closes no other.
THEOREM OwnDescriptors == Spec => []DescriptorsOwned
<1>1. DeviceInv => DescriptorsOwned
    BY DEF DeviceInv
<1> QED BY <1>1, DeviceInit, DeviceStep, PTL DEF Spec

\* A descriptor opened for a device belongs to a device a caller has or that
\* is being set up: the failure paths of the set-up (device.c:187) lose none.
THEOREM DescriptorsKept == Spec => []NoDescriptorLost
<1>1. DeviceInv => NoDescriptorLost
    BY DEF DeviceInv
<1> QED BY <1>1, DeviceInit, DeviceStep, PTL DEF Spec

\* A device that av_device_new_from_path leaves behind in the server is one
\* whose path could not be opened (device.c:55).
THEOREM UnopenedRemain == Spec => []OnlyUnopenedRemain
<1>1. DeviceInv => OnlyUnopenedRemain
    BY DEF DeviceInv
<1> QED BY <1>1, DeviceInit, DeviceStep, PTL DEF Spec

=============================================================================
