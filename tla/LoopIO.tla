------------------------------- MODULE LoopIO --------------------------------
(***************************************************************************)
(* The I/O loops of src/util.c: a writer that calls av_loop_write and a    *)
(* reader that calls av_loop_read on the two ends of a byte stream, a      *)
(* socket, or a pipe or other file that send() refuses.                    *)
(*                                                                         *)
(* The kernel takes and delivers any part of what it is offered, fails,    *)
(* and interrupts. A call that is interrupted (EINTR) is made again with   *)
(* the same arguments: such a step changes nothing and is a stutter here.  *)
(* Byte number i of what the writer has to send is the number i, so that   *)
(* a byte tells where it belongs.                                          *)
(***************************************************************************)
EXTENDS Integers, Sequences

CONSTANTS
    Bytes,      \* the bytes the writer sends before it stops
    Capacity,   \* the bytes the kernel keeps for a reader
    WriteSizes, \* the sizes the writer passes to av_loop_write
    ReadSizes,  \* the sizes the reader passes to av_loop_read
    MaxFaults   \* bounds the calls that fail without cause

ASSUME SizeAssumption ==
    /\ Bytes \in Nat
    /\ Capacity \in Nat \ {0}
    /\ WriteSizes \subseteq Nat \ {0}
    /\ ReadSizes \subseteq Nat \ {0}
    /\ MaxFaults \in Nat

VARIABLES
    socket,     \* the descriptors are sockets
    ignoring,   \* the writer ignores SIGPIPE
    wpc,        \* where the writer is: in send, in write, or between calls
    data,       \* bytes before the pointer "data" of av_loop_write
    size,       \* bytes still to write in the call
    ret,        \* the count av_loop_write will return
    type,       \* *type in the call: 1 when the descriptor is no socket
    mine,       \* the caller passed a type of its own, not NULL
    kept,       \* the caller's own type
    reported,   \* the sum of what av_loop_write has returned
    stream,     \* every byte the kernel has taken from the writer
    taken,      \* how many of them the reader has taken
    rpc,        \* where the reader is: in read, or between calls
    rdata,      \* bytes before the pointer "data" of av_loop_read
    rsize,      \* bytes still to read in the call
    rret,       \* the count av_loop_read will return
    asked,      \* the size passed to the last av_loop_read
    result,     \* what the last av_loop_read returned
    mem,        \* mem[i]: the byte at place i of the reader's memory, 0: none
    faults      \* calls that have failed without cause

kindVars == <<socket, ignoring>>
writerVars == <<wpc, data, size, ret, type, mine, kept, reported>>
readerVars == <<rpc, rdata, rsize, rret, asked, result, mem>>
vars == <<socket, ignoring, wpc, data, size, ret, type, mine, kept, reported,
          stream, taken, rpc, rdata, rsize, rret, asked, result, mem, faults>>

TypeOK ==
    /\ socket \in BOOLEAN /\ ignoring \in BOOLEAN
    /\ wpc \in {"idle", "send", "write", "failed", "killed", "closed"}
    /\ data \in 0 .. Bytes /\ size \in 0 .. Bytes /\ ret \in 0 .. Bytes
    /\ type \in {0, 1} /\ mine \in BOOLEAN /\ kept \in {0, 1}
    /\ reported \in 0 .. Bytes
    /\ stream \in Seq(1 .. Bytes) /\ taken \in 0 .. Len(stream)
    /\ rpc \in {"idle", "read", "failed", "closed"}
    /\ rdata \in Nat /\ rsize \in Nat /\ rret \in Nat /\ asked \in Nat
    /\ result \in Nat
    /\ mem \in [1 .. Bytes -> 0 .. Bytes]
    /\ faults \in 0 .. MaxFaults

Init ==
    /\ socket \in BOOLEAN /\ ignoring \in BOOLEAN
    /\ wpc = "idle" /\ data = 0 /\ size = 0 /\ ret = 0
    /\ type = 0 /\ mine = FALSE /\ kept = 0 /\ reported = 0
    /\ stream = <<>> /\ taken = 0
    /\ rpc = "idle" /\ rdata = 0 /\ rsize = 0 /\ rret = 0
    /\ asked = 0 /\ result = 0
    /\ mem = [i \in 1 .. Bytes |-> 0]
    /\ faults = 0

-----------------------------------------------------------------------------
(* The kernel. *)

\* The bytes the reader has not taken yet.
InFlight == Len(stream) - taken

WriterGone == wpc \in {"closed", "failed", "killed"}

ReaderGone == rpc \in {"closed", "failed"}

Fault == faults < MaxFaults /\ faults' = faults + 1

\* The k bytes at place "from" of the writer's memory.
BytesAt(from, k) == [i \in 1 .. k |-> from + i]

-----------------------------------------------------------------------------
(* av_loop_write *)

\* The next call of av_write in the loop begins with send() unless the
\* descriptor is known not to be a socket.
AvWrite(t) == IF t = 0 THEN "send" ELSE "write"

skipping_InitialType(own) == IF own THEN kept ELSE 1

\* The type a call of av_loop_write starts with.
InitialType(own) == IF own THEN kept ELSE 0

\* av_loop_write(fd, data, size, type): the writer sends its next n bytes.
av_loop_write(n, own) ==
    /\ wpc = "idle"
    /\ reported + n <= Bytes
    /\ data' = reported /\ size' = n /\ ret' = 0
    /\ mine' = own
    /\ type' = InitialType(own)
    /\ wpc' = AvWrite(InitialType(own))
    /\ UNCHANGED <<kindVars, kept, reported, stream, taken, readerVars, faults>>

\* av_loop_write returns count; what it found out about the descriptor stays
\* with the caller if it passed a type.
WriteReturns(count) ==
    /\ wpc' = "idle"
    /\ reported' = reported + count
    /\ kept' = IF mine THEN type ELSE kept

\* av_loop_write returns -1: how much was written is lost, and the caller can
\* but give up.
WriteFails ==
    /\ wpc' = "failed"
    /\ kept' = IF mine THEN type ELSE kept
    /\ UNCHANGED reported

rewinding_Advance(k) == data' = data /\ size' = size - k /\ ret' = ret + k

growing_Advance(k) == data' = data + k /\ size' = size + k /\ ret' = ret + k

forgetting_Advance(k) == data' = data + k /\ size' = size - k /\ ret' = k

\* The loop goes on after k bytes were written.
Advance(k) == data' = data + k /\ size' = size - k /\ ret' = ret + k

\* send() or write() takes k bytes, as many as fit or fewer.
Takes(k) ==
    /\ stream' = stream \o BytesAt(data, k)
    /\ Advance(k)
    /\ IF size = k
       THEN WriteReturns(ret')
       ELSE wpc' = AvWrite(type) /\ UNCHANGED <<kept, reported>>

\* The kernel takes a part of the data, takes none, or fails.
Transfer ==
    \/ /\ ~ReaderGone
       /\ \E k \in 1 .. size : k <= Capacity - InFlight /\ Takes(k)
       /\ UNCHANGED faults
    \/ WriteReturns(ret) /\ Fault /\ UNCHANGED <<data, size, ret, stream>>
    \/ WriteFails /\ Fault /\ UNCHANGED <<data, size, ret, stream>>

\* send(fd, buf, count, MSG_NOSIGNAL)
send ==
    /\ wpc = "send"
    /\ \/ socket /\ Transfer /\ UNCHANGED type
       \/ /\ socket /\ ReaderGone
          /\ WriteFails
          /\ UNCHANGED <<data, size, ret, type, stream, faults>>
       \/ /\ ~socket
          /\ type' = 1
          /\ wpc' = "write"
          /\ UNCHANGED <<data, size, ret, kept, reported, stream, faults>>
    /\ UNCHANGED <<kindVars, mine, taken, readerVars>>

\* write(fd, buf, count): without a reader the writer gets SIGPIPE.
write ==
    /\ wpc = "write"
    /\ \/ Transfer
       \/ /\ ReaderGone
          /\ \/ ignoring /\ WriteFails
             \/ ~ignoring /\ wpc' = "killed" /\ UNCHANGED <<kept, reported>>
          /\ UNCHANGED <<data, size, ret, stream, faults>>
    /\ UNCHANGED <<kindVars, type, mine, taken, readerVars>>

\* The writer has sent what it wanted and closes its end.
WriterCloses ==
    /\ wpc = "idle"
    /\ wpc' = "closed"
    /\ UNCHANGED <<kindVars, data, size, ret, type, mine, kept, reported,
                   stream, taken, readerVars, faults>>

-----------------------------------------------------------------------------
(* av_loop_read *)

\* av_loop_read(fd, data, size, type): the reader wants n more bytes.
av_loop_read(n) ==
    /\ rpc = "idle"
    /\ result = asked
    /\ rdata + n <= Bytes
    /\ rpc' = "read"
    /\ rsize' = n /\ rret' = 0 /\ asked' = n /\ result' = 0
    /\ UNCHANGED <<kindVars, writerVars, stream, taken, rdata, mem, faults>>

ReadReturns(count) == rpc' = "idle" /\ result' = count

\* read() delivers k bytes.
Delivers(k) ==
    /\ mem' = [i \in 1 .. Bytes |-> IF i \in rdata + 1 .. rdata + k
                                    THEN stream[taken + i - rdata]
                                    ELSE mem[i]]
    /\ taken' = taken + k
    /\ rdata' = rdata + k
    /\ rsize' = rsize - k
    /\ rret' = rret + k

once_Continues(k) == ReadReturns(rret + k)

\* The loop goes on while bytes are missing.
Continues(k) ==
    IF rsize = k
    THEN ReadReturns(rret + k)
    ELSE UNCHANGED <<rpc, result>>

spinning_EndOfFile == UNCHANGED <<rpc, result>>

\* read() returns 0: the loop ends.
EndOfFile == ReadReturns(rret)

\* read(fd, buf, count) blocks while there is neither data nor end of file.
read ==
    /\ rpc = "read"
    /\ \/ /\ \E k \in 1 .. rsize :
              k <= InFlight /\ Delivers(k) /\ Continues(k)
          /\ UNCHANGED faults
       \/ /\ InFlight = 0 /\ WriterGone
          /\ EndOfFile
          /\ UNCHANGED <<mem, taken, rdata, rsize, rret, faults>>
       \/ /\ rpc' = "failed"
          /\ Fault
          /\ UNCHANGED <<mem, taken, rdata, rsize, rret, result>>
    /\ UNCHANGED <<kindVars, writerVars, stream, asked>>

ReaderCloses ==
    /\ rpc = "idle"
    /\ rpc' = "closed"
    /\ UNCHANGED <<kindVars, writerVars, stream, taken, rdata, rsize, rret,
                   asked, result, mem, faults>>

-----------------------------------------------------------------------------
(* The specification. *)

Next ==
    \/ \E n \in WriteSizes, own \in BOOLEAN : av_loop_write(n, own)
    \/ send \/ write \/ WriterCloses
    \/ \E n \in ReadSizes : av_loop_read(n)
    \/ read \/ ReaderCloses

Spec == Init /\ [][Next]_vars

\* A process in a call runs, and is not interrupted for ever.
FairSpec == Spec /\ WF_vars(send) /\ WF_vars(write) /\ WF_vars(read)

-----------------------------------------------------------------------------
(* Properties. *)

\* However the transfers are cut, the bytes arrive in order at their place:
\* none is lost, doubled or written over (the pointers of both loops).
StreamIntact ==
    /\ \A i \in 1 .. Len(stream) : stream[i] = i
    /\ \A i \in 1 .. Bytes : mem[i] = IF i <= taken THEN i ELSE 0

\* Between calls that did not fail, the counts av_loop_write returned add up
\* to what the kernel took.
CountsTrue == wpc \in {"idle", "closed"} => Len(stream) = reported

\* util.c:108, "Makes sure that as much as 'size' bytes, unless EOF is reached
\* or an error occurred": a short count means that the writer is gone and that
\* everything it got out was read.
ShortMeansEof ==
    rpc \in {"idle", "closed"} /\ result < asked => WriterGone /\ InFlight = 0

\* A socket's writer is never killed by SIGPIPE, also in the calls that keep
\* no type: every call finds out anew, with MSG_NOSIGNAL, what the
\* descriptor is.
SocketsNeverKill == socket => wpc # "killed"

\* A reader is not stuck once the writer is gone, nor a writer once the
\* reader is gone.
LoopsEnd ==
    /\ WriterGone ~> rpc # "read"
    /\ ReaderGone ~> wpc \notin {"send", "write"}

==============================================================================
