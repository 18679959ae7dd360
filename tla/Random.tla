------------------------------- MODULE Random --------------------------------
(***************************************************************************)
(* Random bytes (src/random.c): av_random fills a buffer from the first    *)
(* device that delivers all of it, else from rand(); av_random_seed seeds  *)
(* rand() from a device, else from the clock. A byte is the source it came *)
(* from.                                                                   *)
(*                                                                         *)
(* av_loop_read is taken at what LoopIO shows of it: it stores a prefix of *)
(* the buffer, and its result says whether that is all of it.              *)
(***************************************************************************)
EXTENDS Integers

CONSTANTS
    MaxLength,  \* the largest length asked for
    MaxCalls    \* bounds the calls

ASSUME LengthAssumption == MaxLength \in Nat \ {0} /\ MaxCalls \in Nat

Devices == <<"urandom", "random">>

\* What rand() starts from: 1 unless av_random_seed was called.
Seeds == {"default", "device", "clock"}

Sources == {"unset", "urandom", "random", "rand"}

VARIABLES
    pc,     \* where the caller is
    op,     \* the function called
    length, \* the length asked for
    buf,    \* buf[i]: where byte i of the caller's buffer came from
    device, \* the device random_proper tries
    fds,    \* the devices that are open
    seed,   \* what rand() was seeded with
    has_whined,
    warned, \* a warning has been logged
    calls   \* calls so far

vars == <<pc, op, length, buf, device, fds, seed, has_whined, warned, calls>>

TypeOK ==
    /\ pc \in {"idle", "open", "read", "fallback"}
    /\ op \in {"none", "av_random", "av_random_seed"}
    /\ length \in 0 .. MaxLength
    /\ buf \in [1 .. MaxLength -> Sources]
    /\ device \in 1 .. 3
    /\ fds \in SUBSET {1, 2}
    /\ seed \in Seeds
    /\ has_whined \in BOOLEAN /\ warned \in BOOLEAN
    /\ calls \in 0 .. MaxCalls

Init ==
    /\ pc = "idle" /\ op = "none" /\ length = 0
    /\ buf = [i \in 1 .. MaxLength |-> "unset"]
    /\ device = 1 /\ fds = {}
    /\ seed = "default"
    /\ has_whined = TRUE /\ warned = FALSE
    /\ calls = 0

\* The first n bytes of the buffer come from s.
Filled(n, s) == [i \in 1 .. MaxLength |-> IF i <= n THEN s ELSE buf[i]]

\* av_random(ret_data, length) or av_random_seed(), up to the loop of
\* random_proper over the devices. The buffer holds nothing yet.
Begin(f, n) ==
    /\ pc = "idle" /\ calls < MaxCalls
    /\ op' = f /\ length' = n /\ calls' = calls + 1
    /\ buf' = [i \in 1 .. MaxLength |-> "unset"]
    /\ device' = 1
    /\ pc' = "open"
    /\ UNCHANGED <<fds, seed, has_whined, warned>>

missing_Last == FALSE

\* *device is NULL: all devices were tried.
Last == device > 2

\* open() of the device, or on to the next one; without a next one
\* random_proper fails.
open ==
    /\ pc = "open"
    /\ IF Last
       THEN pc' = "fallback" /\ UNCHANGED <<device, fds>>
       ELSE \/ fds' = fds \cup {device} /\ pc' = "read" /\ UNCHANGED device
            \/ device' = device + 1 /\ UNCHANGED <<pc, fds>>
    /\ UNCHANGED <<op, length, buf, seed, has_whined, warned, calls>>

lenient_Proper(n, failed) == ~failed

\* The read has succeeded: (r = av_loop_read(...)) >= 0 and r == length.
Proper(n, failed) == ~failed /\ n = length

\* av_random or av_random_seed returns after random_proper succeeded.
Done ==
    /\ pc' = "idle"
    /\ seed' = IF op = "av_random_seed" THEN "device" ELSE seed

leaking_CloseDevice == UNCHANGED fds

\* av_close(fd) follows the read whatever its result.
CloseDevice == fds' = fds \ {device}

\* av_loop_read stores n bytes and returns n, or fails after n bytes; then
\* av_close, and on to the next device unless all is there.
read ==
    /\ pc = "read"
    /\ \E n \in 0 .. length, failed \in BOOLEAN :
        /\ buf' = Filled(n, Devices[device])
        /\ \/ Proper(n, failed) /\ Done /\ UNCHANGED device
           \/ /\ ~Proper(n, failed)
              /\ device' = device + 1
              /\ pc' = "open"
              /\ UNCHANGED seed
    /\ CloseDevice
    /\ UNCHANGED <<op, length, has_whined, warned, calls>>

partial_FromRand == [i \in 1 .. MaxLength |->
    IF i <= length /\ buf[i] = "unset" THEN "rand" ELSE buf[i]]

\* The whole buffer is filled with rand().
FromRand == Filled(length, "rand")

\* random_proper failed: a warning, once, and the second best source.
fallback ==
    /\ pc = "fallback"
    /\ warned' = (warned \/ ~has_whined)
    /\ has_whined' = TRUE
    /\ IF op = "av_random"
       THEN buf' = FromRand /\ UNCHANGED seed
       ELSE seed' = "clock" /\ UNCHANGED buf
    /\ pc' = "idle"
    /\ UNCHANGED <<op, length, device, fds, calls>>

Next ==
    \/ \E n \in 1 .. MaxLength : Begin("av_random", n)
    \/ Begin("av_random_seed", 1)
    \/ open \/ read \/ fallback

Spec == Init /\ [][Next]_vars

-----------------------------------------------------------------------------
(* Properties. *)

\* When av_random returns, every byte it was asked for is set and all come
\* from one source: what a device delivered before it failed is overwritten.
OneSource ==
    pc = "idle" /\ op = "av_random" =>
        \E s \in Sources \ {"unset"} :
            \A i \in 1 .. MaxLength : buf[i] = IF i <= length THEN s ELSE "unset"

\* No descriptor outlives a call, and at most one device is open at a time,
\* whichever device failed in whichever way.
NoDescriptorLeft ==
    fds = IF pc = "read" THEN {device} ELSE {}

==============================================================================
