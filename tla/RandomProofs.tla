---------------------------- MODULE RandomProofs -----------------------------
(***************************************************************************)
(* What av_random leaves in the buffer and which descriptors it leaves     *)
(* open, for every length and however the devices fail.                    *)
(*                                                                         *)
(* OneSource speaks of a call that has returned. What makes it inductive   *)
(* is that a call never writes beyond the length it was asked for, so that *)
(* the step that returns, which fills that length from one source, leaves  *)
(* nothing of an earlier device.                                           *)
(***************************************************************************)
EXTENDS Random, TLAPS

\* A device is read only if the loop of random_proper has reached one.
ReadsDevice == pc = "read" => device \in {1, 2}

\* Nothing is written beyond the length asked for.
WithinLength == \A i \in 1 .. MaxLength : i > length => buf[i] = "unset"

\* The inductive invariant.
RandomInv ==
    TypeOK /\ ReadsDevice /\ WithinLength /\ NoDescriptorLeft /\ OneSource

-----------------------------------------------------------------------------

\* What filling the first n bytes from one source leaves in the buffer.
LEMMA FilledValue ==
    ASSUME buf \in [1 .. MaxLength -> Sources], NEW n \in Int, NEW s \in Sources
    PROVE  /\ Filled(n, s) \in [1 .. MaxLength -> Sources]
           /\ \A i \in 1 .. MaxLength : Filled(n, s)[i] = IF i <= n THEN s ELSE buf[i]
BY DEF Filled

\* A device is a source.
LEMMA DeviceSource ==
    ASSUME device \in {1, 2}
    PROVE  Devices[device] \in Sources \ {"unset"}
<1>1. Devices[1] = "urandom" /\ Devices[2] = "random"
    BY DEF Devices
<1> QED BY <1>1 DEF Sources

\* The invariant holds before the first call.
LEMMA RandomInit == Init => RandomInv
<1> SUFFICES ASSUME Init PROVE RandomInv
    OBVIOUS
<1>1. TypeOK
  <2>1. has_whined \in BOOLEAN /\ warned \in BOOLEAN
    BY DEF Init
  <2> QED BY <2>1, LengthAssumption DEF Init, TypeOK, Sources, Seeds
<1>2. ReadsDevice /\ WithinLength /\ NoDescriptorLeft /\ OneSource
    BY DEF Init, ReadsDevice, WithinLength, NoDescriptorLeft, OneSource
<1> QED BY <1>1, <1>2 DEF RandomInv

\* The call (random.c:66, random.c:82) preserves the invariant.
LEMMA RandomBegin ==
    ASSUME RandomInv, NEW f \in {"av_random", "av_random_seed"},
           NEW n \in 1 .. MaxLength, Begin(f, n)
    PROVE  RandomInv'
<1> USE DEF RandomInv, Begin
<1>1. TypeOK'
  <2>1. (has_whined \in BOOLEAN /\ warned \in BOOLEAN)'
    BY DEF TypeOK
  <2>2. calls' \in 0 .. MaxCalls
    BY LengthAssumption DEF TypeOK
  <2> QED BY <2>1, <2>2, LengthAssumption DEF TypeOK, Sources
<1>2. (ReadsDevice /\ WithinLength /\ NoDescriptorLeft /\ OneSource)'
    BY DEF TypeOK, ReadsDevice, WithinLength, NoDescriptorLeft, OneSource
<1> QED BY <1>1, <1>2

\* Opening a device, or going on to the next (random.c:49), preserves the
\* invariant.
LEMMA RandomOpen ==
    ASSUME RandomInv, open
    PROVE  RandomInv'
<1> USE DEF RandomInv, open
<1>1. TypeOK'
  <2>1. (has_whined \in BOOLEAN /\ warned \in BOOLEAN)'
    BY DEF TypeOK
  <2>2. CASE Last
    BY <2>1, <2>2 DEF TypeOK
  <2>3. CASE ~Last
    <3>1. device \in {1, 2} /\ device + 1 \in 1 .. 3
        BY <2>3 DEF TypeOK, Last
    <3> QED BY <2>1, <2>3, <3>1 DEF TypeOK
  <2> QED BY <2>2, <2>3
<1>2. (ReadsDevice /\ NoDescriptorLeft)'
    BY DEF TypeOK, ReadsDevice, NoDescriptorLeft, Last
<1>3. (WithinLength /\ OneSource)'
    BY DEF WithinLength, OneSource
<1> QED BY <1>1, <1>2, <1>3

\* Reading a device and closing it (random.c:50) preserves the invariant:
\* after a read that delivers less, nothing is promised but that the rest of
\* the buffer is untouched.
LEMMA RandomRead ==
    ASSUME RandomInv, read
    PROVE  RandomInv'
<1> USE DEF RandomInv, read, CloseDevice
<1>1. PICK n \in 0 .. length, failed \in BOOLEAN :
        /\ buf' = Filled(n, Devices[device])
        /\ \/ Proper(n, failed) /\ Done /\ UNCHANGED device
           \/ /\ ~Proper(n, failed)
              /\ device' = device + 1
              /\ pc' = "open"
              /\ UNCHANGED seed
    OBVIOUS
<1>2. /\ device \in {1, 2} /\ fds = {device} /\ n \in Int /\ length \in Int /\ n <= length
      /\ buf \in [1 .. MaxLength -> Sources]
    BY LengthAssumption DEF TypeOK, ReadsDevice, NoDescriptorLeft
<1>3. Devices[device] \in Sources \ {"unset"}
    BY <1>2, DeviceSource
<1>4. /\ buf' \in [1 .. MaxLength -> Sources]
      /\ \A i \in 1 .. MaxLength : buf'[i] = IF i <= n THEN Devices[device] ELSE buf[i]
    BY <1>1, <1>2, <1>3, FilledValue
<1>5. TypeOK'
  <2>1. (has_whined \in BOOLEAN /\ warned \in BOOLEAN)'
    BY DEF TypeOK
  <2> QED BY <1>1, <1>2, <1>4, <2>1 DEF TypeOK, Done, Seeds
<1>6. (ReadsDevice /\ NoDescriptorLeft)'
    BY <1>1, <1>2 DEF ReadsDevice, NoDescriptorLeft, Done
<1>7. WithinLength'
    BY <1>2, <1>4 DEF WithinLength
<1>8. OneSource'
  <2> SUFFICES ASSUME pc' = "idle"
               PROVE  \E s \in Sources \ {"unset"} :
                        \A i \in 1 .. MaxLength : buf'[i] = IF i <= length' THEN s ELSE "unset"
    BY DEF OneSource
  <2>1. n = length /\ length' = length
    BY <1>1 DEF Proper
  <2>2. \A i \in 1 .. MaxLength : buf'[i] = IF i <= length' THEN Devices[device] ELSE "unset"
    BY <1>2, <1>4, <2>1 DEF WithinLength
  <2> QED BY <1>3, <2>2
<1> QED BY <1>5, <1>6, <1>7, <1>8

\* The second best source (random.c:76, random.c:97) preserves the invariant:
\* it overwrites whatever the devices left.
LEMMA RandomFallback ==
    ASSUME RandomInv, fallback
    PROVE  RandomInv'
<1> USE DEF RandomInv, fallback
<1>1. length \in Int /\ buf \in [1 .. MaxLength -> Sources] /\ "rand" \in Sources \ {"unset"}
    BY LengthAssumption DEF TypeOK, Sources
<1>2. op = "av_random" =>
        /\ buf' \in [1 .. MaxLength -> Sources]
        /\ \A i \in 1 .. MaxLength : buf'[i] = IF i <= length THEN "rand" ELSE buf[i]
    BY <1>1, FilledValue DEF FromRand
<1>3. op # "av_random" => buf' = buf
    OBVIOUS
<1>4. TypeOK'
  <2>1. (has_whined \in BOOLEAN /\ warned \in BOOLEAN)'
    BY DEF TypeOK
  <2> QED BY <1>2, <1>3, <2>1 DEF TypeOK, Seeds
<1>5. (ReadsDevice /\ NoDescriptorLeft)'
  <2>1. pc = "fallback" /\ pc' = "idle" /\ fds' = fds /\ NoDescriptorLeft
    OBVIOUS
  <2> HIDE DEF RandomInv, fallback
  <2>2. fds = {}
    BY <2>1 DEF NoDescriptorLeft
  <2>3. ReadsDevice'
    BY <2>1 DEF ReadsDevice
  <2>4. NoDescriptorLeft'
    BY <2>1, <2>2 DEF NoDescriptorLeft
  <2> QED BY <2>3, <2>4
<1>6. WithinLength'
  <2>1. length' = length /\ WithinLength
    OBVIOUS
  <2> HIDE DEF RandomInv, fallback
  <2>2. CASE op = "av_random"
    BY <1>1, <1>2, <2>1, <2>2, LengthAssumption DEF WithinLength
  <2>3. CASE op # "av_random"
    BY <1>3, <2>1, <2>3 DEF WithinLength
  <2> QED BY <2>2, <2>3
<1>7. OneSource'
  <2> SUFFICES ASSUME op = "av_random"
               PROVE  \E s \in Sources \ {"unset"} :
                        \A i \in 1 .. MaxLength : buf'[i] = IF i <= length' THEN s ELSE "unset"
    BY DEF OneSource
  <2>1. \A i \in 1 .. MaxLength : buf'[i] = IF i <= length' THEN "rand" ELSE "unset"
    BY <1>1, <1>2 DEF WithinLength
  <2> QED BY <1>1, <2>1
<1> QED BY <1>4, <1>5, <1>6, <1>7

\* Every step preserves the invariant.
LEMMA RandomStep == RandomInv /\ [Next]_vars => RandomInv'
<1> SUFFICES ASSUME RandomInv, [Next]_vars PROVE RandomInv'
    OBVIOUS
<1>1. ASSUME NEW n \in 1 .. MaxLength, Begin("av_random", n) PROVE RandomInv'
    BY <1>1, RandomBegin
<1>2. CASE Begin("av_random_seed", 1)
  <2>1. 1 \in 1 .. MaxLength
    BY LengthAssumption
  <2> QED BY <1>2, <2>1, RandomBegin
<1>3. CASE open
    BY <1>3, RandomOpen
<1>4. CASE read
    BY <1>4, RandomRead
<1>5. CASE fallback
    BY <1>5, RandomFallback
<1>6. CASE UNCHANGED vars
    BY <1>6 DEF vars, RandomInv, TypeOK, ReadsDevice, WithinLength, NoDescriptorLeft,
        OneSource
<1> QED BY <1>1, <1>2, <1>3, <1>4, <1>5, <1>6 DEF Next

\* The variables keep their types: the pointer of random_proper (random.c:60)
\* never runs past the NULL behind the devices.
THEOREM RandomTypes == Spec => []TypeOK
<1>1. RandomInv => TypeOK
    BY DEF RandomInv
<1> QED BY <1>1, RandomInit, RandomStep, PTL DEF Spec

\* When av_random returns (random.c:82), the bytes asked for come from one
\* source and no others were written, for every length.
THEOREM BytesOfOneSource == Spec => []OneSource
<1>1. RandomInv => OneSource
    BY DEF RandomInv
<1> QED BY <1>1, RandomInit, RandomStep, PTL DEF Spec

\* No device stays open after a call, and never two are (random.c:53).
THEOREM DevicesClosed == Spec => []NoDescriptorLeft
<1>1. RandomInv => NoDescriptorLeft
    BY DEF RandomInv
<1> QED BY <1>1, RandomInit, RandomStep, PTL DEF Spec

=============================================================================
