---------------------------- MODULE LoopIOProofs -----------------------------
(***************************************************************************)
(* The loops of util.c deliver a stream intact and report it truly, for    *)
(* every length of stream, capacity of the kernel and size of the calls.   *)
(*                                                                         *)
(* StreamIntact needs to know where the pointers of the loops stand:       *)
(* WriterInv ties the writer's to what the kernel has taken and to the     *)
(* counts returned, ReaderInv the reader's to what it has taken.           *)
(***************************************************************************)
EXTENDS LoopIO, SequenceTheorems, TLAPS

\* Where the writer's loop stands; a socket is never taken for something else.
WriterInv ==
    /\ wpc \in {"send", "write"} =>
        /\ Len(stream) = data
        /\ data = reported + ret
        /\ size > 0 /\ data + size <= Bytes
    /\ socket => type = 0 /\ kept = 0 /\ wpc \notin {"write", "killed"}

\* Where the reader's loop stands.
ReaderInv ==
    /\ taken = rdata
    /\ rpc = "read" => rsize > 0 /\ rret + rsize = asked

\* The inductive invariant.
LoopInv ==
    /\ TypeOK
    /\ WriterInv /\ ReaderInv
    /\ StreamIntact /\ CountsTrue /\ ShortMeansEof

-----------------------------------------------------------------------------

\* The invariant holds before the first call.
LEMMA LoopInit == Init => LoopInv
<1> SUFFICES ASSUME Init PROVE LoopInv
    OBVIOUS
<1>1. stream \in Seq(1 .. Bytes) /\ Len(stream) = 0
    BY DEF Init
<1>2. TypeOK
  <2>1. socket \in BOOLEAN /\ ignoring \in BOOLEAN /\ mine \in BOOLEAN
    BY DEF Init
  <2>2. mem \in [1 .. Bytes -> 0 .. Bytes]
    BY SizeAssumption DEF Init
  <2>3. taken \in 0 .. Len(stream)
    BY <1>1 DEF Init
  <2> QED BY <1>1, <2>1, <2>2, <2>3, SizeAssumption DEF Init, TypeOK
<1>3. WriterInv /\ ReaderInv /\ CountsTrue /\ ShortMeansEof
    BY <1>1 DEF Init, WriterInv, ReaderInv, CountsTrue, ShortMeansEof
<1>4. StreamIntact
    BY <1>1, SizeAssumption DEF Init, StreamIntact
<1> QED BY <1>2, <1>3, <1>4 DEF LoopInv

\* A call of av_loop_write (util.c:142) preserves the invariant.
LEMMA Loop_av_loop_write ==
    ASSUME LoopInv, NEW n \in WriteSizes, NEW own \in BOOLEAN, av_loop_write(n, own)
    PROVE  LoopInv'
BY SizeAssumption DEF LoopInv, TypeOK, WriterInv, ReaderInv, StreamIntact, CountsTrue,
    ShortMeansEof, InFlight, WriterGone, av_loop_write, InitialType, AvWrite,
    kindVars, writerVars, readerVars

\* The close of the writer preserves the invariant.
LEMMA Loop_WriterCloses ==
    ASSUME LoopInv, WriterCloses
    PROVE  LoopInv'
BY SizeAssumption DEF LoopInv, TypeOK, WriterInv, ReaderInv, StreamIntact, CountsTrue,
    ShortMeansEof, InFlight, WriterGone, WriterCloses,
    kindVars, writerVars, readerVars

\* A call of av_loop_read (util.c:110) preserves the invariant.
LEMMA Loop_av_loop_read ==
    ASSUME LoopInv, NEW n \in ReadSizes, av_loop_read(n)
    PROVE  LoopInv'
BY SizeAssumption DEF LoopInv, TypeOK, WriterInv, ReaderInv, StreamIntact, CountsTrue,
    ShortMeansEof, InFlight, WriterGone, av_loop_read,
    kindVars, writerVars, readerVars

\* The close of the reader preserves the invariant.
LEMMA Loop_ReaderCloses ==
    ASSUME LoopInv, ReaderCloses
    PROVE  LoopInv'
BY SizeAssumption DEF LoopInv, TypeOK, WriterInv, ReaderInv, StreamIntact, CountsTrue,
    ShortMeansEof, InFlight, WriterGone, ReaderCloses,
    kindVars, writerVars, readerVars

\* Appending the next k bytes of the writer's memory to a stream that is in
\* order keeps it in order.
LEMMA TakesStream ==
    ASSUME LoopInv, wpc \in {"send", "write"}, NEW k \in 1 .. size, Takes(k)
    PROVE  /\ stream' \in Seq(1 .. Bytes)
           /\ Len(stream') = data + k
           /\ \A i \in 1 .. Len(stream') : stream'[i] = i
<1> DEFINE new == BytesAt(data, k)
<1>1. /\ new \in Seq(1 .. Bytes) /\ Len(new) = k
      /\ \A i \in 1 .. k : new[i] = data + i
    BY SizeAssumption DEF LoopInv, TypeOK, WriterInv, BytesAt
<1>2. stream \in Seq(1 .. Bytes) /\ Len(stream) = data /\ stream' = stream \o new
    BY DEF LoopInv, TypeOK, WriterInv, Takes
<1>0. data \in Nat /\ k \in Nat /\ size \in Nat
    BY SizeAssumption DEF LoopInv, TypeOK
<1> HIDE DEF new
<1>3. stream' \in Seq(1 .. Bytes) /\ Len(stream') = data + k
  <2>1. /\ stream \o new \in Seq(1 .. Bytes)
        /\ Len(stream \o new) = Len(stream) + Len(new)
    BY <1>1, <1>2, ConcatProperties
  <2> QED BY <1>0, <1>1, <1>2, <2>1
<1>4. \A i \in 1 .. Len(stream') : stream'[i] = i
    BY <1>0, <1>1, <1>2, <1>3 DEF LoopInv, StreamIntact
<1> QED BY <1>3, <1>4

\* The kernel takes a part of the data (util.c:79 and 100).
LEMMA LoopTakes ==
    ASSUME LoopInv, wpc \in {"send", "write"}, NEW k \in 1 .. size, Takes(k),
           socket => wpc = "send",
           UNCHANGED <<kindVars, type, mine, taken, readerVars, faults>>
    PROVE  LoopInv'
<1>1. /\ stream' \in Seq(1 .. Bytes)
      /\ Len(stream') = data + k
      /\ \A i \in 1 .. Len(stream') : stream'[i] = i
    BY TakesStream
<1>0. /\ data \in Nat /\ size \in Nat /\ ret \in Nat /\ reported \in Nat /\ k \in Nat
      /\ k <= size /\ k > 0 /\ Bytes \in Nat /\ taken \in Nat /\ taken <= data
      /\ data = reported + ret /\ data + size <= Bytes /\ Len(stream) = data
    BY SizeAssumption DEF LoopInv, TypeOK, WriterInv
<1>2. data' = data + k /\ size' = size - k /\ ret' = ret + k
    BY DEF Takes, Advance
<1>3. ReaderInv' /\ StreamIntact'
    BY <1>1 DEF LoopInv, ReaderInv, StreamIntact, readerVars
<1>5. CASE size = k
  <2>1. wpc' = "idle" /\ reported' = reported + ret + k /\ kept' = IF mine THEN type ELSE kept
    BY <1>0, <1>2, <1>5 DEF Takes, WriteReturns
  <2>2. TypeOK'
    BY <1>0, <1>1, <1>2, <1>5, <2>1 DEF LoopInv, TypeOK, kindVars, readerVars
  <2>3. WriterInv' /\ CountsTrue'
    BY <1>0, <1>1, <1>2, <2>1 DEF LoopInv, WriterInv, CountsTrue, kindVars
  <2>4. ShortMeansEof'
    BY <1>0, <2>1 DEF LoopInv, ShortMeansEof, WriterGone, readerVars
  <2> QED BY <1>3, <2>2, <2>3, <2>4 DEF LoopInv
<1>6. CASE size # k
  <2>1. wpc' = AvWrite(type) /\ kept' = kept /\ reported' = reported
    BY <1>6 DEF Takes
  <2>2. wpc' \in {"send", "write"} /\ (socket => wpc' = "send")
    BY <2>1 DEF AvWrite, LoopInv, WriterInv
  <2>3. TypeOK'
    BY <1>0, <1>1, <1>2, <1>6, <2>1, <2>2 DEF LoopInv, TypeOK, kindVars, readerVars
  <2>4. WriterInv' /\ CountsTrue'
    BY <1>0, <1>1, <1>2, <1>6, <2>1, <2>2 DEF LoopInv, WriterInv, CountsTrue, kindVars
  <2>5. ShortMeansEof'
    BY <1>0, <2>2 DEF LoopInv, ShortMeansEof, WriterGone, readerVars
  <2> QED BY <1>3, <2>3, <2>4, <2>5 DEF LoopInv
<1> QED BY <1>5, <1>6

\* A write that is not taken: the call returns or fails, the stream stays.
LEMMA LoopRefused ==
    ASSUME LoopInv, wpc \in {"send", "write"}, socket => wpc = "send",
           \/ WriteReturns(ret)
           \/ WriteFails
           \/ ~socket /\ wpc' = "killed" /\ UNCHANGED <<kept, reported>>,
           UNCHANGED <<kindVars, type, mine, data, size, ret, stream, taken, readerVars>>,
           faults' \in 0 .. MaxFaults
    PROVE  LoopInv'
BY SizeAssumption DEF WriteReturns, WriteFails, LoopInv, TypeOK, WriterInv, ReaderInv,
    StreamIntact, CountsTrue, ShortMeansEof, InFlight, WriterGone, kindVars, readerVars

\* A step of the kernel on the writer's data preserves the invariant.
LEMMA LoopTransfer ==
    ASSUME LoopInv, wpc \in {"send", "write"}, socket => wpc = "send", Transfer,
           UNCHANGED <<kindVars, type, mine, taken, readerVars>>
    PROVE  LoopInv'
<1>1. faults \in 0 .. MaxFaults
    BY DEF LoopInv, TypeOK
<1>2. CASE \E k \in 1 .. size : Takes(k) /\ UNCHANGED faults
    BY <1>2, LoopTakes
<1>3. CASE Fault /\ (WriteReturns(ret) \/ WriteFails) /\ UNCHANGED <<data, size, ret, stream>>
  <2>1. faults' \in 0 .. MaxFaults
    BY <1>1, <1>3, SizeAssumption DEF Fault
  <2> QED BY <1>3, <2>1, LoopRefused
<1> QED BY <1>2, <1>3 DEF Transfer

\* send() preserves the invariant (util.c:79).
LEMMA Loop_send ==
    ASSUME LoopInv, send
    PROVE  LoopInv'
<1>1. faults \in 0 .. MaxFaults
    BY DEF LoopInv, TypeOK
<1>2. CASE socket /\ Transfer /\ UNCHANGED type
    BY <1>2, LoopTransfer DEF send
<1>3. CASE WriteFails /\ UNCHANGED <<data, size, ret, type, stream, faults>>
    BY <1>1, <1>3, LoopRefused DEF send
<1>4. CASE ~socket /\ type' = 1 /\ wpc' = "write"
           /\ UNCHANGED <<data, size, ret, kept, reported, stream, faults>>
    BY <1>4, SizeAssumption DEF send, LoopInv, TypeOK, WriterInv, ReaderInv, StreamIntact,
        CountsTrue, ShortMeansEof, InFlight, WriterGone, kindVars, readerVars
<1> QED BY <1>2, <1>3, <1>4 DEF send

\* write() preserves the invariant (util.c:100).
LEMMA Loop_write ==
    ASSUME LoopInv, write
    PROVE  LoopInv'
<1>0. faults \in 0 .. MaxFaults
    BY DEF LoopInv, TypeOK
<1>1. ~socket /\ wpc = "write"
    BY DEF LoopInv, WriterInv, write
<1>2. CASE Transfer
    BY <1>1, <1>2, LoopTransfer DEF write
<1>3. CASE /\ \/ WriteFails
              \/ wpc' = "killed" /\ UNCHANGED <<kept, reported>>
           /\ UNCHANGED <<data, size, ret, stream, faults>>
  <2>1. UNCHANGED <<kindVars, type, mine, data, size, ret, stream, taken, readerVars>>
    BY <1>3 DEF write
  <2>2. faults' = faults
    BY <1>3
  <2>3. faults' \in 0 .. MaxFaults
    BY <1>0, <2>2
  <2> QED BY <1>1, <1>3, <2>1, <2>3, LoopRefused
<1> QED BY <1>2, <1>3 DEF write

\* read() preserves the invariant (util.c:65): it stores the bytes behind those
\* stored before.
LEMMA Loop_read ==
    ASSUME LoopInv, read
    PROVE  LoopInv'
<1> USE SizeAssumption DEF read, LoopInv, TypeOK, WriterInv, ReaderInv, InFlight,
        WriterGone, kindVars, writerVars
<1>1. ASSUME NEW k \in 1 .. rsize, k <= InFlight, Delivers(k), Continues(k),
             UNCHANGED faults
      PROVE  LoopInv'
  <2>0. /\ k \in Nat /\ k > 0 /\ taken \in Nat /\ rdata = taken /\ taken' = taken + k
        /\ taken + k <= Len(stream) /\ Len(stream) \in Nat
    BY <1>1 DEF Delivers
  <2>1. \A i \in 1 .. Bytes : mem'[i] = IF i <= taken' THEN i ELSE 0
    <3> SUFFICES ASSUME NEW i \in 1 .. Bytes
                 PROVE  mem'[i] = IF i <= taken' THEN i ELSE 0
        OBVIOUS
    <3>1. mem'[i] = IF i \in rdata + 1 .. rdata + k THEN stream[taken + i - rdata] ELSE mem[i]
        BY <1>1 DEF Delivers
    <3>2. CASE i \in rdata + 1 .. rdata + k
      <4>1. taken + i - rdata = i /\ i \in 1 .. Len(stream)
        BY <2>0, <3>2
      <4> QED BY <2>0, <3>1, <3>2, <4>1 DEF StreamIntact
    <3>3. CASE i \notin rdata + 1 .. rdata + k
        BY <2>0, <3>1, <3>3 DEF StreamIntact
    <3> QED BY <3>2, <3>3
  <2>a. Bytes \in Nat /\ \A i \in 1 .. Bytes : i \in 0 .. Bytes /\ 0 \in 0 .. Bytes
    BY SizeAssumption
  <2>b. mem' = [i \in 1 .. Bytes |-> mem'[i]]
    BY <1>1 DEF Delivers
  <2>2. mem' \in [1 .. Bytes -> 0 .. Bytes]
    BY <2>1, <2>a, <2>b
  <2>3. taken' = rdata' /\ taken' \in 0 .. Len(stream) /\ rdata' \in Nat
    BY <1>1 DEF Delivers
  <2>4. CASE rsize = k
    BY <1>1, <2>1, <2>2, <2>3, <2>4 DEF Delivers, Continues, ReadReturns, StreamIntact,
        CountsTrue, ShortMeansEof
  <2>5. CASE rsize # k
    BY <1>1, <2>1, <2>2, <2>3, <2>5 DEF Delivers, Continues, StreamIntact, CountsTrue,
        ShortMeansEof
  <2> QED BY <2>4, <2>5
<1>2. CASE InFlight = 0 /\ WriterGone /\ EndOfFile
           /\ UNCHANGED <<mem, taken, rdata, rsize, rret, faults>>
    BY <1>2 DEF EndOfFile, ReadReturns, StreamIntact, CountsTrue, ShortMeansEof
<1>3. CASE rpc' = "failed" /\ Fault /\ UNCHANGED <<mem, taken, rdata, rsize, rret, result>>
    BY <1>3 DEF Fault, StreamIntact, CountsTrue, ShortMeansEof
<1> QED BY <1>1, <1>2, <1>3

\* Every step preserves the invariant.
LEMMA LoopStep == LoopInv /\ [Next]_vars => LoopInv'
<1> SUFFICES ASSUME LoopInv, [Next]_vars PROVE LoopInv'
    OBVIOUS
<1>1. CASE UNCHANGED vars
    BY <1>1 DEF vars, LoopInv, TypeOK, WriterInv, ReaderInv, StreamIntact, CountsTrue,
        ShortMeansEof, InFlight, WriterGone
<1>2. CASE Next
    BY <1>2, Loop_av_loop_write, Loop_send, Loop_write, Loop_WriterCloses,
        Loop_av_loop_read, Loop_read, Loop_ReaderCloses DEF Next
<1> QED BY <1>1, <1>2

\* The variables keep their types: the pointers of both loops (util.c:134 and
\* 166) stay in their buffers and no count exceeds the data.
THEOREM LoopTypes == Spec => []TypeOK
<1>1. LoopInv => TypeOK
    BY DEF LoopInv
<1> QED BY <1>1, LoopInit, LoopStep, PTL DEF Spec

\* However the kernel cuts the transfers of util.c:110 and 142, the bytes arrive
\* in order at their place.
THEOREM Intact == Spec => []StreamIntact
<1>1. LoopInv => StreamIntact
    BY DEF LoopInv
<1> QED BY <1>1, LoopInit, LoopStep, PTL DEF Spec

\* The counts of av_loop_write (util.c:170) add up to what the kernel took.
THEOREM Counts == Spec => []CountsTrue
<1>1. LoopInv => CountsTrue
    BY DEF LoopInv
<1> QED BY <1>1, LoopInit, LoopStep, PTL DEF Spec

\* A short count of av_loop_read (util.c:138) means end of file.
THEOREM Short == Spec => []ShortMeansEof
<1>1. LoopInv => ShortMeansEof
    BY DEF LoopInv
<1> QED BY <1>1, LoopInit, LoopStep, PTL DEF Spec

\* av_loop_write on a socket never raises SIGPIPE (util.c:79).
THEOREM NoSigpipe == Spec => []SocketsNeverKill
<1>1. LoopInv => SocketsNeverKill
    BY DEF LoopInv, WriterInv, SocketsNeverKill
<1> QED BY <1>1, LoopInit, LoopStep, PTL DEF Spec

==============================================================================
