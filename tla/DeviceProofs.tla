------------------------------ MODULE DeviceProofs ------------------------------
(***************************************************************************)
(* Proofs about the devices of a terminal.                                 *)
(*                                                                         *)
(* The keyboard driver, for every size of its ring, every set of keys and  *)
(* any number of key strokes: the ring is a bounded queue, and             *)
(* keyboard_read only waits for bytes that are still to come.              *)
(*                                                                         *)
(* The console, for every number and size of consoles and every use of     *)
(* them: one that TTY and printx do not both write to keeps to its part of *)
(* the video memory, and the display shows the console it should.          *)
(***************************************************************************)
EXTENDS Keyboard, Console, SequenceTheorems, TLAPS

Byte == 0 .. 255

\* The slot of the ring that is i behind slot p.
Slot(p, i) == (p + i) % KB_IN_BYTES

(***************************************************************************)
(* Arithmetic of the ring                                                  *)
(***************************************************************************)

\* An index goes around the ring once at most.
LEMMA SlotOf ==
    ASSUME NEW p, p \in Slots, NEW i, i \in 0 .. KB_IN_BYTES
    PROVE  /\ Slot(p, i) \in Slots
           /\ p + i < KB_IN_BYTES => Slot(p, i) = p + i
           /\ p + i >= KB_IN_BYTES => Slot(p, i) = p + i - KB_IN_BYTES
<1> DEFINE N == KB_IN_BYTES
<1>1. N \in Nat /\ N > 0 /\ p \in Nat /\ p < N /\ i \in Nat /\ i <= N
  BY KeyboardAssumption DEF Slots
<1>2. (p + i) % N \in 0 .. N - 1
  BY <1>1
<1>3. p + i < N => (p + i) % N = p + i
  BY <1>1
<1>4. ASSUME p + i >= N PROVE (p + i) % N = p + i - N
  <2>1. (p + i - N) % N = p + i - N
    BY <1>1, <1>4
  <2>2. (p + i - N + N) % N = (p + i - N) % N
    BY <1>1, <1>4
  <2>3. p + i - N + N = p + i
    BY <1>1
  <2>4. QED
    BY <2>1, <2>2, <2>3
<1>5. QED
  BY <1>2, <1>3, <1>4 DEF Slot, Slots

\* Moving a pointer moves what it counts by one slot.
LEMMA AdvanceSlot ==
    ASSUME NEW p, p \in Slots, NEW i, i \in 0 .. KB_IN_BYTES - 1
    PROVE  /\ Advance(p) \in Slots
           /\ Advance(Slot(p, i)) = Slot(p, i + 1)
           /\ Slot(Advance(p), i) = Slot(p, i + 1)
<1> DEFINE N == KB_IN_BYTES
<1>1. N \in Nat /\ N > 0 /\ p \in Nat /\ p < N /\ i \in Nat /\ i < N
  BY KeyboardAssumption DEF Slots
<1>2. i \in 0 .. N /\ i + 1 \in 0 .. N
  BY <1>1
<1>3. Advance(p) \in Slots /\ Advance(p) = (IF p + 1 = N THEN 0 ELSE p + 1)
  BY <1>1 DEF Advance, Slots
<1>4. /\ Slot(p, i) = (IF p + i < N THEN p + i ELSE p + i - N)
      /\ Slot(p, i + 1) = (IF p + i + 1 < N THEN p + i + 1 ELSE p + i + 1 - N)
      /\ Slot(Advance(p), i) = (IF Advance(p) + i < N THEN Advance(p) + i ELSE Advance(p) + i - N)
  <2>1. Slot(p, i) = (IF p + i < N THEN p + i ELSE p + i - N)
    BY <1>1, <1>2, SlotOf
  <2>2. Slot(p, i + 1) = (IF p + (i + 1) < N THEN p + (i + 1) ELSE p + (i + 1) - N)
    BY <1>1, <1>2, SlotOf
  <2>3. Slot(Advance(p), i) = (IF Advance(p) + i < N THEN Advance(p) + i ELSE Advance(p) + i - N)
    <3>1. Advance(p) \in Nat
      BY <1>1, <1>3
    <3>2. QED
      BY <1>1, <1>2, <1>3, <3>1, SlotOf
  <2>4. QED
    BY <1>1, <2>1, <2>2, <2>3
<1>5. Advance(Slot(p, i)) = (IF Slot(p, i) + 1 = N THEN 0 ELSE Slot(p, i) + 1)
  BY DEF Advance
<1>6. QED
  BY <1>1, <1>3, <1>4, <1>5

\* Bytes less than a whole ring apart are in different slots.
LEMMA SlotsDiffer ==
    ASSUME NEW p, p \in Slots, NEW i, i \in 0 .. KB_IN_BYTES - 1, NEW j, j \in 0 .. KB_IN_BYTES - 1, i # j
    PROVE  Slot(p, i) # Slot(p, j)
<1> DEFINE N == KB_IN_BYTES
<1>1. N \in Nat /\ N > 0 /\ p \in Nat /\ p < N /\ i \in Nat /\ i < N /\ j \in Nat /\ j < N
  BY KeyboardAssumption DEF Slots
<1>2. /\ Slot(p, i) = (IF p + i < N THEN p + i ELSE p + i - N)
      /\ Slot(p, j) = (IF p + j < N THEN p + j ELSE p + j - N)
  BY <1>1, SlotOf
<1>3. QED
  BY <1>1, <1>2

(***************************************************************************)
(* The ring                                                                *)
(***************************************************************************)

\* The bytes in the ring, the oldest first.
contents == [i \in 1 .. count |-> buf[(p_tail + i - 1) % KB_IN_BYTES]]

\* p_head is count slots behind p_tail; the reader changes count with interrupts
\* disabled, and only if there is a byte.
RingOK ==
    /\ buf \in [Slots -> Byte] /\ p_head \in Slots /\ p_tail \in Slots
    /\ count \in 0 .. KB_IN_BYTES
    /\ p_head = Slot(p_tail, count)
    /\ pc = "pop" => ~int_on /\ taken = count /\ count > 0

\* The keyboard sends bytes, and none that is the answer to a command.
ScanByte == Byte \ {KB_ACK}
SendsBytes == sending \in Seq(ScanByte)

\* The scan codes of the table are of one byte, of one behind E0, or those of print
\* screen and pause.
LEMMA SendsTable ==
    ASSUME NEW k \in DOMAIN Sends
    PROVE  \/ \E c \in {29, 30, 42, 54, 56, 58, 69, 70, 72} : Sends[k] = OneByte(c)
           \/ \E c \in {29, 56, 72} : Sends[k] = TwoByte(c)
           \/ Sends[k].make = <<224, 42, 224, 55>> /\ Sends[k].brk = <<224, 183, 224, 170>>
           \/ Sends[k].make = <<225, 29, 69, 225, 157, 197>> /\ Sends[k].brk = << >>
<1>1. k \in {"a", "SHIFT_L", "SHIFT_R", "CTRL_L", "CTRL_R", "ALT_L", "ALT_R", "CAPS_LOCK", "NUM_LOCK",
             "SCROLL_LOCK", "PAD_UP", "UP", "PRINTSCREEN", "PAUSEBREAK"}
  BY DEF Sends
<1>2. /\ Sends["PRINTSCREEN"] = [make |-> <<E0, 42, E0, 55>>, brk |-> <<E0, 183, E0, 170>>]
      /\ Sends["PAUSEBREAK"] = [make |-> PauseCode, brk |-> << >>]
  BY DEF Sends
<1>3. /\ Sends["PRINTSCREEN"].make = <<224, 42, 224, 55>> /\ Sends["PRINTSCREEN"].brk = <<224, 183, 224, 170>>
      /\ Sends["PAUSEBREAK"].make = <<225, 29, 69, 225, 157, 197>> /\ Sends["PAUSEBREAK"].brk = << >>
  BY <1>2 DEF PauseCode, E0, E1
<1>4. /\ Sends["a"] = OneByte(30) /\ Sends["SHIFT_L"] = OneByte(42) /\ Sends["SHIFT_R"] = OneByte(54)
      /\ Sends["CTRL_L"] = OneByte(29) /\ Sends["CTRL_R"] = TwoByte(29) /\ Sends["ALT_L"] = OneByte(56)
      /\ Sends["ALT_R"] = TwoByte(56) /\ Sends["CAPS_LOCK"] = OneByte(58) /\ Sends["NUM_LOCK"] = OneByte(69)
      /\ Sends["SCROLL_LOCK"] = OneByte(70) /\ Sends["PAD_UP"] = OneByte(72) /\ Sends["UP"] = TwoByte(72)
  BY DEF Sends
<1>5. QED
  BY <1>1, <1>3, <1>4

\* Every scan code of the table consists of bytes, none of them KB_ACK.
LEMMA SendsAreBytes ==
    ASSUME NEW k \in DOMAIN Sends
    PROVE  Sends[k].make \in Seq(ScanByte) /\ Sends[k].brk \in Seq(ScanByte)
<1>1. ASSUME NEW c \in {29, 30, 42, 54, 56, 58, 69, 70, 72}
      PROVE  /\ OneByte(c).make \in Seq(ScanByte) /\ OneByte(c).brk \in Seq(ScanByte)
             /\ TwoByte(c).make \in Seq(ScanByte) /\ TwoByte(c).brk \in Seq(ScanByte)
  <2>1. c \in ScanByte /\ c + 128 \in ScanByte /\ 224 \in ScanByte
    BY DEF Byte, ScanByte, KB_ACK
  <2>2. <<c>> \in Seq(ScanByte) /\ <<c + 128>> \in Seq(ScanByte)
        /\ <<224, c>> \in Seq(ScanByte) /\ <<224, c + 128>> \in Seq(ScanByte)
    BY <2>1
  <2>3. QED
    BY <2>2 DEF OneByte, TwoByte, E0, FLAG_BREAK
<1>2. /\ <<225, 29, 69, 225, 157, 197>> \in Seq(ScanByte) /\ << >> \in Seq(ScanByte)
      /\ <<224, 42, 224, 55>> \in Seq(ScanByte) /\ <<224, 183, 224, 170>> \in Seq(ScanByte)
  BY DEF Byte, ScanByte, KB_ACK
<1>3. CASE \E c \in {29, 30, 42, 54, 56, 58, 69, 70, 72} : Sends[k] = OneByte(c)
  BY <1>1, <1>3
<1>4. CASE \E c \in {29, 56, 72} : Sends[k] = TwoByte(c)
  <2>1. PICK c \in {29, 30, 42, 54, 56, 58, 69, 70, 72} : Sends[k] = TwoByte(c)
    BY <1>4
  <2>2. QED
    BY <1>1, <2>1
<1>5. CASE \/ Sends[k].make = <<224, 42, 224, 55>> /\ Sends[k].brk = <<224, 183, 224, 170>>
           \/ Sends[k].make = <<225, 29, 69, 225, 157, 197>> /\ Sends[k].brk = << >>
  BY <1>2, <1>5, ZenonT(40)
<1>6. QED
  BY <1>3, <1>4, <1>5, SendsTable, Zenon

\* The handler puts a byte behind those in the ring, if there is room.
LEMMA HandlerPuts ==
    ASSUME RingOK, NEW b \in Byte, keyboard_handler(b)
    PROVE  /\ RingOK'
           /\ contents' = IF Len(contents) < KB_IN_BYTES THEN Append(contents, b) ELSE contents
<1> DEFINE N == KB_IN_BYTES
<1>1. N \in Nat /\ N > 0 /\ count \in Nat /\ count <= N /\ p_tail \in Nat /\ p_tail < N /\ p_tail \in Slots
  BY KeyboardAssumption DEF RingOK, Slots
<1>2. Len(contents) = count
  BY <1>1 DEF contents
<1>3. p_tail' = p_tail /\ int_on /\ UNCHANGED <<pc, taken, int_on>> /\ pc # "pop"
  BY DEF keyboard_handler, RingOK, reader
<1>4. CASE count < N
  <2>1. buf' = [buf EXCEPT ![p_head] = b] /\ p_head' = Advance(p_head) /\ count' = count + 1
    BY <1>4 DEF keyboard_handler
  <2>2. count \in 0 .. N - 1 /\ count' \in 0 .. N
    BY <1>1, <1>4, <2>1
  <2>3. p_head \in Slots /\ p_head' \in Slots /\ p_head = Slot(p_tail, count) /\ p_head' = Slot(p_tail, count + 1)
    BY <1>1, <2>1, <2>2, AdvanceSlot DEF RingOK
  <2>4. RingOK'
    <3>1. buf' \in [Slots -> Byte]
      BY <2>1 DEF RingOK
    <3>2. QED
      BY <1>3, <2>1, <2>2, <2>3, <3>1, <1>1 DEF RingOK
  <2>5. ASSUME NEW i \in 1 .. count PROVE buf'[(p_tail + i - 1) % N] = buf[(p_tail + i - 1) % N]
    <3>1. (p_tail + i - 1) % N = Slot(p_tail, i - 1) /\ i - 1 \in 0 .. N - 1 /\ i - 1 # count
          /\ i - 1 \in 0 .. N
      BY <1>1 DEF Slot
    <3>2. Slot(p_tail, i - 1) # p_head /\ Slot(p_tail, i - 1) \in Slots
      BY <1>1, <2>2, <2>3, <3>1, SlotsDiffer, SlotOf
    <3>3. QED
      BY <2>1, <3>1, <3>2 DEF RingOK
  <2>6. buf'[(p_tail + (count + 1) - 1) % N] = b
    <3>1. (p_tail + (count + 1) - 1) % N = p_head
      BY <1>1 DEF RingOK, Slot
    <3>2. QED
      BY <2>1, <3>1 DEF RingOK
  <2>7. contents' = [i \in 1 .. count + 1 |-> buf'[(p_tail + i - 1) % N]]
    BY <1>3, <2>1 DEF contents
  <2>8. Append(contents, b) = [i \in 1 .. count + 1 |-> IF i = count + 1 THEN b ELSE buf[(p_tail + i - 1) % N]]
    <3>1. contents = [i \in 1 .. count |-> buf[(p_tail + i - 1) % N]] /\ count + 1 \in Nat
      BY <1>1 DEF contents
    <3>2. Append(contents, b) = [i \in 1 .. Len(contents) + 1 |-> IF i = Len(contents) + 1 THEN b ELSE contents[i]]
      BY <1>1, <1>2 DEF contents
    <3>3. QED
      BY <1>1, <1>2, <3>1, <3>2
  <2>9. contents' = Append(contents, b)
    <3>1. ASSUME NEW i \in 1 .. count + 1
          PROVE  buf'[(p_tail + i - 1) % N] = IF i = count + 1 THEN b ELSE buf[(p_tail + i - 1) % N]
      <4>1. CASE i = count + 1
        BY <2>6, <4>1
      <4>2. CASE i # count + 1
        BY <1>1, <2>5, <4>2
      <4>3. QED
        BY <4>1, <4>2
    <3>2. QED
      BY <2>7, <2>8, <3>1
  <2>10. QED
    BY <1>2, <1>4, <2>4, <2>9
<1>5. CASE ~(count < N)
  <2>1. UNCHANGED <<buf, p_head, count>>
    BY <1>5 DEF keyboard_handler
  <2>2. QED
    BY <1>2, <1>3, <1>5, <2>1 DEF RingOK, contents
<1>6. QED
  BY <1>4, <1>5

\* get_byte_from_kbuf, in two steps of which the handler cannot get between, takes out
\* the oldest byte.
LEMMA ReaderGets ==
    ASSUME RingOK, PopByte
    PROVE  /\ RingOK' /\ contents # << >> /\ contents' = Tail(contents)
           /\ buf[p_tail] = Head(contents)
<1> DEFINE N == KB_IN_BYTES
<1>1. N \in Nat /\ N > 0 /\ count \in Nat /\ count > 0 /\ count <= N /\ p_tail \in Nat /\ p_tail \in Slots
  BY KeyboardAssumption DEF RingOK, Slots, PopByte
<1>2. /\ p_tail' = Advance(p_tail) /\ count' = count - 1 /\ UNCHANGED <<buf, p_head, taken>>
      /\ pc' # "pop"
  <2>1. taken = count /\ p_tail' = Advance(p_tail) /\ count' = taken - 1 /\ UNCHANGED <<buf, p_head, taken>>
        /\ ReadByte(buf[p_tail])
    BY DEF RingOK, PopByte
  <2>2. pc' # "pop"
    BY <2>1 DEF ReadByte, More, Decode, Normal, Found
  <2>3. QED
    BY <2>1, <2>2
<1>3. p_tail' \in Slots /\ Slot(p_tail', count - 1) = Slot(p_tail, count)
  <2>1. count - 1 \in 0 .. N - 1 /\ count - 1 + 1 = count
    BY <1>1
  <2>2. QED
    BY <1>1, <1>2, <2>1, AdvanceSlot
<1>4. RingOK'
  BY <1>1, <1>2, <1>3 DEF RingOK
<1>5. contents = [i \in 1 .. count |-> buf[(p_tail + i - 1) % N]] /\ Len(contents) = count
  BY <1>1 DEF contents
<1>6. contents # << >> /\ Head(contents) = contents[1]
  BY <1>1, <1>5
<1>7. buf[p_tail] = Head(contents)
  <2>1. (p_tail + 1 - 1) % N = p_tail
    BY <1>1 DEF Slots
  <2>2. QED
    BY <1>1, <1>5, <1>6, <2>1
<1>8. contents' = Tail(contents)
  <2>1. contents' = [i \in 1 .. count - 1 |-> buf[(p_tail' + i - 1) % N]]
    BY <1>2 DEF contents
  <2>2. Tail(contents) = [i \in 1 .. count - 1 |-> contents[i + 1]]
    BY <1>1, <1>5
  <2>3. ASSUME NEW i \in 1 .. count - 1 PROVE buf[(p_tail' + i - 1) % N] = contents[i + 1]
    <3>1. i - 1 \in 0 .. N - 1 /\ i - 1 + 1 = i /\ i + 1 \in 1 .. count
      BY <1>1
    <3>2. Slot(p_tail', i - 1) = Slot(p_tail, i)
      BY <1>1, <1>2, <3>1, AdvanceSlot
    <3>3. (p_tail' + i - 1) % N = Slot(p_tail', i - 1) /\ (p_tail + (i + 1) - 1) % N = Slot(p_tail, i)
      BY <1>1, <1>3 DEF Slot, Slots
    <3>4. QED
      BY <1>5, <3>1, <3>2, <3>3
  <2>4. QED
    BY <2>1, <2>2, <2>3
<1>9. QED
  BY <1>4, <1>6, <1>7, <1>8

\* Nothing else changes the ring.
LEMMA RingLeft ==
    ASSUME RingOK,
           \/ \E k \in session.keys : Press(k) \/ Release(k)
           \/ Start \/ TakeByte \/ LedCommand \/ LedArgument \/ kb_ack
           \/ UNCHANGED vars
    PROVE  RingOK' /\ contents' = contents
<1>1. UNCHANGED <<buf, p_head, p_tail, count>>
  BY DEF Press, Release, Start, TakeByte, LedCommand, LedArgument, kb_ack, LedStep, vars, ring
<1>2. contents' = contents
  BY <1>1 DEF contents
<1>3. CASE TakeByte
  <2>1. pc' = "pop" /\ taken' = count /\ int_on' = FALSE /\ count > 0
    BY <1>3 DEF TakeByte
  <2>2. QED
    BY <1>1, <1>2, <2>1 DEF RingOK
<1>4. CASE ~TakeByte
  <2>1. (pc' = pc /\ UNCHANGED <<int_on, taken>>) \/ pc' # "pop"
    BY <1>4 DEF Press, Release, Start, LedCommand, LedArgument, kb_ack, LedStep, vars, ring, reader
  <2>2. QED
    BY <1>1, <1>2, <2>1 DEF RingOK
<1>5. QED
  BY <1>3, <1>4

\* The keyboard has only bytes to send.
LEMMA SendsBytesInv ==
    ASSUME SendsBytes, [Next]_vars, session \in Sessions
    PROVE  SendsBytes' /\ session' \in Sessions
<1>1. session' \in Sessions
  BY DEF Next, SendByte, Answer, Press, Release, KeyEvent, Read, Start, TakeByte, PopByte, LedCommand,
         LedArgument, kb_ack, LedStep, vars, typing
<1>2. CASE SendByte
  BY <1>1, <1>2 DEF SendsBytes, SendByte
<1>3. ASSUME NEW k \in session.keys, Press(k) \/ Release(k) PROVE SendsBytes'
  <2>1. k \in DOMAIN Sends
    BY KeyboardAssumption
  <2>2. sending' = Sends[k].make \/ sending' = Sends[k].brk
    BY <1>3 DEF Press, Release
  <2>3. QED
    BY <2>1, <2>2, SendsAreBytes DEF SendsBytes
<1>4. CASE UNCHANGED sending
  BY <1>1, <1>4 DEF SendsBytes
<1>5. QED
  BY <1>1, <1>2, <1>3, <1>4 DEF Next, Answer, Read, Start, TakeByte, PopByte, LedCommand, LedArgument, kb_ack,
     LedStep, vars, device

\* The ring is in order at the beginning and after each step.
LEMMA RingStep ==
    ASSUME RingOK, SendsBytes, [Next]_vars
    PROVE  RingOK' /\ [Queue!Next]_contents
<1>1. ASSUME NEW b \in Byte, keyboard_handler(b) PROVE RingOK' /\ [Queue!Next]_contents
  <2>1. Queue!Put(b)
    BY <1>1, HandlerPuts DEF Queue!Put, contents
  <2>2. QED
    BY <1>1, <2>1, HandlerPuts DEF Queue!Next, Byte
<1>2. CASE SendByte
  <2>1. Head(sending) \in Byte
    BY <1>2 DEF SendByte, SendsBytes, ScanByte
  <2>2. QED
    BY <1>1, <1>2, <2>1 DEF SendByte
<1>3. CASE Answer
  <2>1. KB_ACK \in Byte
    BY DEF KB_ACK, Byte
  <2>2. QED
    BY <1>1, <1>3, <2>1 DEF Answer
<1>4. CASE PopByte
  <2>1. Queue!Get
    BY <1>4, ReaderGets DEF Queue!Get, contents
  <2>2. QED
    BY <1>4, <2>1, ReaderGets DEF Queue!Next
<1>5. CASE \/ \E k \in session.keys : Press(k) \/ Release(k)
           \/ Start \/ TakeByte \/ LedCommand \/ LedArgument \/ kb_ack
           \/ UNCHANGED vars
  BY <1>5, RingLeft
<1>6. QED
  BY <1>2, <1>3, <1>4, <1>5 DEF Next, Read

\* At first the ring is empty.
LEMMA RingInit == Init => RingOK /\ contents = << >> /\ SendsBytes /\ session \in Sessions
<1> SUFFICES ASSUME Init PROVE RingOK /\ contents = << >> /\ SendsBytes /\ session \in Sessions
  OBVIOUS
<1>1. 0 \in Slots /\ 0 \in 0 .. KB_IN_BYTES /\ 0 \in Byte
  BY KeyboardAssumption DEF Slots, Byte
<1>2. Slot(0, 0) = 0
  BY KeyboardAssumption DEF Slot
<1>3. RingOK
  BY <1>1, <1>2 DEF Init, RingOK
<1>4. contents = << >>
  BY DEF Init, contents
<1>5. QED
  BY <1>3, <1>4 DEF Init, SendsBytes

\* The invariant of the ring.
THEOREM KeyboardRing == Spec => [](RingOK /\ SendsBytes /\ session \in Sessions)
<1>1. RingOK /\ SendsBytes /\ session \in Sessions /\ [Next]_vars
      => (RingOK /\ SendsBytes /\ session \in Sessions)'
  BY RingStep, SendsBytesInv
<1>2. QED
  BY <1>1, RingInit, PTL DEF Spec

\* The interrupt handler and get_byte_from_kbuf, sharing the pointers and the count of
\* kb_in, implement a bounded queue of bytes, however the interrupts fall.
THEOREM KeyboardRingIsQueue == Spec => RingIsQueue
<1>1. Init => Queue!Init
  BY RingInit DEF Queue!Init, contents
<1>2. RingOK /\ SendsBytes /\ [Next]_vars
      => [Queue!Next]_([i \in 1 .. count |-> buf[(p_tail + i - 1) % KB_IN_BYTES]])
  BY RingStep DEF contents
<1>3. QED
  BY <1>1, <1>2, KeyboardRing, PTL DEF Spec, RingIsQueue, Queue!Spec

(***************************************************************************)
(* Types                                                                   *)
(***************************************************************************)

\* All variables but those of the ring keep their types: keyboard_read stays within the
\* bytes of a scan code, and the modifiers and locks it keeps are such keys.
Types ==
    /\ taken \in 0 .. KB_IN_BYTES
    /\ pc \in {"idle", "get", "pop", "led_command", "ack_command", "led_argument", "ack_argument"}
    /\ want \in {"first", "E0", "pause", "pressed", "released"} \X (1 .. 6)
    /\ key \in {"0", "PAUSEBREAK", "PRINTSCREEN"}
    /\ dev \in {"scan", "command", "waits", "argument"}
    /\ mods \subseteq Mods /\ locks \subseteq Locks /\ leds \subseteq Locks /\ toggled \subseteq Locks
    /\ held \subseteq session.keys
    /\ int_on \in BOOLEAN /\ code_with_E0 \in BOOLEAN /\ acked \in BOOLEAN
    /\ astray \in BOOLEAN /\ lost \in BOOLEAN

\* A scan code that is decoded leaves the reader's variables with their types.
LEMMA DecodeTypes ==
    ASSUME Types, NEW scan_code, NEW e0 \in BOOLEAN, Decode(scan_code, e0)
    PROVE  /\ pc' \in {"idle", "led_command"} /\ want' = want
           /\ key' \in {"0", "PAUSEBREAK", "PRINTSCREEN"}
           /\ code_with_E0' \in BOOLEAN /\ mods' \subseteq Mods /\ locks' \subseteq Locks
           /\ astray' \in BOOLEAN
<1>1. CASE key = "0" /\ Normal(scan_code, e0)
  <2> DEFINE make == scan_code < FLAG_BREAK
             c == Column(scan_code % FLAG_BREAK, e0)
             k == keymap(scan_code % FLAG_BREAK)[c.col]
  <2>1. /\ code_with_E0' = c.e0 /\ key' = "0" /\ want' = want
        /\ mods' = IF k \notin Mods THEN mods ELSE IF make THEN mods \cup {k} ELSE mods \ {k}
        /\ locks' = IF k \in Locks /\ make THEN Toggle(locks, k) ELSE locks
        /\ pc' = IF k \in Locks /\ make THEN "led_command" ELSE "idle"
        /\ (\E x : in_process(x, mods')) \/ astray' = astray
    BY <1>1 DEF Normal
  <2>2. c.e0 = FALSE
    BY DEF Column
  <2>3. astray' \in BOOLEAN
    BY <2>1 DEF Types, in_process
  <2> HIDE DEF make, c, k
  <2>4. QED
    BY <2>1, <2>2, <2>3 DEF Types, Toggle
<1>2. CASE key # "0" /\ code_with_E0' = e0 /\ pc' = "idle" /\ UNCHANGED <<want, key, mods, locks, due, astray>>
  BY <1>2 DEF Types
<1>3. QED
  BY <1>1, <1>2 DEF Decode

\* Where keyboard_read is in a scan code after byte b, when it was at w.
Wants == {"first", "E0", "pause", "pressed", "released"} \X (1 .. 6)
FIRST == <<"first", 1>>
PrintCode(w) == IF w = "pressed" THEN <<E0, 42, E0, 55>> ELSE <<E0, 183, E0, 170>>

Follow(w, b) ==
    CASE w[1] = "first" -> IF b = E1 THEN <<"pause", 2>> ELSE IF b = E0 THEN <<"E0", 2>> ELSE FIRST
      [] w[1] = "pause" -> IF b = PauseCode[w[2]] /\ w[2] < 6 THEN <<"pause", w[2] + 1>> ELSE FIRST
      [] w[1] = "E0" -> IF b = 42 THEN <<"pressed", 3>> ELSE IF b = 183 THEN <<"released", 3>> ELSE FIRST
      [] OTHER -> IF b = PrintCode(w[1])[w[2]] /\ w[2] = 3 THEN <<w[1], 4>> ELSE FIRST

\* A byte is decoded, or is the last of a key without effect, or another one is read.
LEMMA ReadByteCases ==
    ASSUME want \in Wants, NEW b, ReadByte(b)
    PROVE  \/ Follow(want, b) = FIRST /\ \E s : Decode(s, code_with_E0) \/ Decode(s, TRUE)
           \/ Follow(want, b) = FIRST /\ \E k \in {"PAUSEBREAK", "PRINTSCREEN"} : Found(k)
           \/ \E w \in Wants : Follow(want, b) = w /\ w[1] # "first" /\ More(w[1], w[2])
<1>1. want[1] \in {"first", "E0", "pause", "pressed", "released"} /\ want[2] \in 1 .. 6
  BY DEF Wants
<1>2. E0 = 224 /\ E1 = 225
  BY DEF E0, E1
<1>3. ASSUME NEW w \in Wants, Follow(want, b) = w, w[1] # "first", More(w[1], w[2])
      PROVE  \E v \in Wants : Follow(want, b) = v /\ v[1] # "first" /\ More(v[1], v[2])
  BY <1>3
<1>4. CASE want[1] = "first" /\ b = E1 /\ More("pause", 2)
  <2>1. Follow(want, b) = <<"pause", 2>> /\ <<"pause", 2>> \in Wants
    BY <1>2, <1>4 DEF Follow, Wants
  <2>2. QED
    BY <1>4, <2>1
<1>5. CASE want[1] = "first" /\ b = E0 /\ More("E0", 2)
  <2>1. Follow(want, b) = <<"E0", 2>> /\ <<"E0", 2>> \in Wants
    BY <1>2, <1>5 DEF Follow, Wants
  <2>2. QED
    BY <1>5, <2>1
<1>6. CASE want[1] = "first" /\ b \notin {E0, E1} /\ Decode(b, code_with_E0)
  <2>1. Follow(want, b) = FIRST
    BY <1>6 DEF Follow
  <2>2. QED
    BY <1>6, <2>1
<1>7. CASE /\ want[1] = "pause" /\ b = PauseCode[want[2]]
           /\ IF want[2] < 6 THEN More("pause", want[2] + 1) ELSE Found("PAUSEBREAK")
  <2>1. CASE want[2] < 6
    <3>1. Follow(want, b) = <<"pause", want[2] + 1>> /\ <<"pause", want[2] + 1>> \in Wants
      BY <1>1, <1>7, <2>1 DEF Follow, Wants
    <3>2. QED
      BY <1>7, <2>1, <3>1
  <2>2. CASE ~(want[2] < 6)
    <3>1. Follow(want, b) = FIRST
      BY <1>7, <2>2 DEF Follow
    <3>2. QED
      BY <1>7, <2>2, <3>1
  <2>3. QED
    BY <2>1, <2>2
<1>8. CASE want[1] = "pause" /\ b # PauseCode[want[2]] /\ Decode(E1, code_with_E0)
  <2>1. Follow(want, b) = FIRST
    BY <1>8 DEF Follow
  <2>2. QED
    BY <1>8, <2>1
<1>9. CASE want[1] = "E0" /\ b \in {42, 183} /\ More(IF b = 42 THEN "pressed" ELSE "released", 3)
  <2>1. PICK v \in {"pressed", "released"} : v = IF b = 42 THEN "pressed" ELSE "released"
    OBVIOUS
  <2>2. Follow(want, b) = <<v, 3>> /\ <<v, 3>> \in Wants
    BY <1>9, <2>1 DEF Follow, Wants
  <2>3. More(v, 3) /\ v # "first"
    BY <1>9, <2>1
  <2>4. More(<<v, 3>>[1], <<v, 3>>[2]) /\ <<v, 3>>[1] # "first"
    BY <2>3
  <2>5. QED
    BY <2>2, <2>4
<1>10. CASE want[1] = "E0" /\ b \notin {42, 183} /\ Decode(b, TRUE)
  <2>1. Follow(want, b) = FIRST
    BY <1>10 DEF Follow
  <2>2. QED
    BY <1>10, <2>1
<1>11. CASE want[1] \in {"pressed", "released"} /\ b # PrintCode(want[1])[want[2]]
            /\ Decode(PrintCode(want[1])[2], code_with_E0)
  <2>1. Follow(want, b) = FIRST
    BY <1>11 DEF Follow
  <2>2. QED
    BY <1>11, <2>1
<1>12. CASE want[1] \in {"pressed", "released"} /\ b = PrintCode(want[1])[want[2]]
            /\ IF want[2] = 3 THEN More(want[1], 4) ELSE Found("PRINTSCREEN")
  <2>1. CASE want[2] = 3
    <3>1. Follow(want, b) = <<want[1], 4>> /\ <<want[1], 4>> \in Wants
      BY <1>12, <2>1 DEF Follow, Wants
    <3>2. QED
      BY <1>12, <2>1, <3>1
  <2>2. CASE want[2] # 3
    <3>1. Follow(want, b) = FIRST
      BY <1>12, <2>2 DEF Follow
    <3>2. QED
      BY <1>12, <2>2, <3>1
  <2>3. QED
    BY <2>1, <2>2
<1>13. QED
  BY <1>4, <1>5, <1>6, <1>7, <1>8, <1>9, <1>10, <1>11, <1>12 DEF ReadByte, PrintCode

\* Every byte that keyboard_read reads leaves its variables with their types.
LEMMA ReadByteTypes ==
    ASSUME Types, NEW b, ReadByte(b)
    PROVE  /\ \/ pc' \in {"idle", "led_command"} /\ want' \in Wants /\ Follow(want, b) = FIRST
              \/ pc' = "get" /\ want' = Follow(want, b) /\ want' \in Wants /\ want'[1] # "first"
           /\ key' \in {"0", "PAUSEBREAK", "PRINTSCREEN"}
           /\ code_with_E0' \in BOOLEAN /\ mods' \subseteq Mods /\ locks' \subseteq Locks
           /\ astray' \in BOOLEAN
<1>1. want \in Wants /\ code_with_E0 \in BOOLEAN
  BY DEF Types, Wants
<1>2. CASE Follow(want, b) = FIRST /\ \E s : Decode(s, code_with_E0) \/ Decode(s, TRUE)
  BY <1>1, <1>2, DecodeTypes
<1>3. CASE Follow(want, b) = FIRST /\ \E k \in {"PAUSEBREAK", "PRINTSCREEN"} : Found(k)
  BY <1>1, <1>3 DEF Found, Types
<1>4. ASSUME NEW w \in Wants, Follow(want, b) = w, w[1] # "first", More(w[1], w[2])
      PROVE  /\ pc' = "get" /\ want' = w
             /\ UNCHANGED <<key, code_with_E0, mods, locks, astray>>
  BY <1>4 DEF More, Wants
<1>5. CASE \E w \in Wants : Follow(want, b) = w /\ w[1] # "first" /\ More(w[1], w[2])
  BY <1>4, <1>5 DEF Types
<1>6. QED
  BY <1>1, <1>2, <1>3, <1>5, ReadByteCases

\* Every step of the keyboard, its handler and TTY keeps the types.
LEMMA TypesStep ==
    ASSUME Types, RingOK, [Next]_vars, session \in Sessions
    PROVE  Types'
<1>1. want \in Wants /\ count \in 0 .. KB_IN_BYTES
  BY DEF Types, Wants, RingOK
<1>2. CASE SendByte
  BY <1>2 DEF SendByte, keyboard_handler, Types, typing, reader
<1>3. CASE Answer
  BY <1>3 DEF Answer, keyboard_handler, Types, typing, reader
<1>4. ASSUME NEW k \in session.keys, Press(k) PROVE Types'
  <2>1. /\ session' = session /\ held' = held \cup {k}
        /\ toggled' = IF k \in Locks THEN Toggle(toggled, k) ELSE toggled
        /\ UNCHANGED <<taken, pc, want, key, dev, mods, locks, leds, int_on, code_with_E0, acked, astray, lost>>
    BY <1>4 DEF Press, KeyEvent, ring, reader
  <2>2. toggled' \subseteq Locks
    BY <2>1 DEF Types, Toggle
  <2>3. QED
    BY <2>1, <2>2 DEF Types
<1>5. ASSUME NEW k \in session.keys, Release(k) PROVE Types'
  BY <1>5 DEF Release, KeyEvent, ring, reader, Types
<1>6. CASE Start
  <2>1. <<"first", 1>> \in {"first", "E0", "pause", "pressed", "released"} \X (1 .. 6)
    OBVIOUS
  <2>2. QED
    BY <1>6, <2>1 DEF Start, Types, ring, device, typing
<1>7. CASE TakeByte
  BY <1>1, <1>7 DEF TakeByte, Types, device, typing
<1>8. CASE PopByte
  <2>1. ReadByte(buf[p_tail]) /\ int_on' = TRUE
        /\ UNCHANGED <<taken, dev, leds, toggled, held, session, acked, lost>>
    BY <1>8 DEF PopByte, device, typing
  <2>2. /\ pc' \in {"idle", "led_command", "get"} /\ want' \in Wants
        /\ key' \in {"0", "PAUSEBREAK", "PRINTSCREEN"}
        /\ code_with_E0' \in BOOLEAN /\ mods' \subseteq Mods /\ locks' \subseteq Locks
        /\ astray' \in BOOLEAN
    BY <2>1, ReadByteTypes
  <2>3. QED
    BY <2>1, <2>2 DEF Types, Wants
<1>9. CASE LedCommand \/ LedArgument \/ kb_ack
  BY <1>9 DEF LedCommand, LedArgument, kb_ack, LedStep, Types, ring, typing
<1>10. CASE UNCHANGED vars
  BY <1>10 DEF vars, ring, reader, device, typing, Types
<1>11. QED
  BY <1>2, <1>3, <1>4, <1>5, <1>6, <1>7, <1>8, <1>9, <1>10 DEF Next, Read

\* At first all variables have their types.
LEMMA TypesInit == Init => Types
<1>1. <<"first", 1>> \in {"first", "E0", "pause", "pressed", "released"} \X (1 .. 6)
  OBVIOUS
<1>2. 0 \in 0 .. KB_IN_BYTES
  BY KeyboardAssumption
<1>3. QED
  BY <1>1, <1>2 DEF Init, Types, Locks, Mods

\* Every variable keeps its type, the ring's pointers and count included.
THEOREM KeyboardTypes == Spec => []KeyboardTypeOK
<1>1. RingOK /\ SendsBytes /\ session \in Sessions /\ Types /\ [Next]_vars => Types'
  BY TypesStep
<1>2. RingOK /\ Types => KeyboardTypeOK
  BY DEF RingOK, Types, KeyboardTypeOK, Byte
<1>3. QED
  BY <1>1, <1>2, TypesInit, KeyboardRing, PTL DEF Spec

(***************************************************************************)
(* keyboard_read waits for bytes that come                                 *)
(***************************************************************************)

\* A reader that is at w in a scan code is at its end after the bytes s: f says
\* where it is after each of them.
Parsed(w, s) ==
    \E f \in [0 .. Len(s) -> Wants] :
        /\ f[0] = w /\ f[Len(s)] = FIRST
        /\ \A i \in 1 .. Len(s) : f[i] = Follow(f[i - 1], s[i])

\* Reading a byte leaves the rest to be read.
LEMMA ParsedTail ==
    ASSUME NEW w, NEW s \in Seq(Byte), s # << >>, Parsed(w, s)
    PROVE  Parsed(Follow(w, Head(s)), Tail(s))
<1>1. PICK f \in [0 .. Len(s) -> Wants] :
          /\ f[0] = w /\ f[Len(s)] = FIRST
          /\ \A i \in 1 .. Len(s) : f[i] = Follow(f[i - 1], s[i])
  BY DEF Parsed
<1> DEFINE t == Tail(s)
           g == [i \in 0 .. Len(s) - 1 |-> f[i + 1]]
<1>2. Len(s) \in Nat /\ Len(s) > 0 /\ Len(t) = Len(s) - 1 /\ Head(s) = s[1]
      /\ \A i \in 1 .. Len(t) : t[i] = s[i + 1]
  BY HeadTailProperties, EmptySeq
<1>3. g \in [0 .. Len(t) -> Wants]
  BY <1>2
<1>4. g[0] = Follow(w, Head(s)) /\ g[Len(t)] = FIRST
  BY <1>1, <1>2
<1>5. ASSUME NEW i \in 1 .. Len(t) PROVE g[i] = Follow(g[i - 1], t[i])
  <2>1. i \in Nat /\ i >= 1 /\ i <= Len(s) - 1
    BY <1>2
  <2>2. g[i] = f[i + 1] /\ g[i - 1] = f[i] /\ t[i] = s[i + 1]
    BY <1>2, <2>1
  <2>3. f[i + 1] = Follow(f[i + 1 - 1], s[i + 1]) /\ i + 1 - 1 = i
    BY <1>1, <1>2, <2>1
  <2>4. QED
    BY <2>2, <2>3
<1>6. QED
  BY <1>3, <1>4, <1>5 DEF Parsed

\* Another scan code behind what is to be read leaves the reader at its end.
LEMMA ParsedConcat ==
    ASSUME NEW w, NEW s \in Seq(Byte), NEW c \in Seq(Byte), Parsed(w, s), Parsed(FIRST, c)
    PROVE  Parsed(w, s \o c)
<1>1. PICK f \in [0 .. Len(s) -> Wants] :
          /\ f[0] = w /\ f[Len(s)] = FIRST
          /\ \A i \in 1 .. Len(s) : f[i] = Follow(f[i - 1], s[i])
  BY DEF Parsed
<1>2. PICK g \in [0 .. Len(c) -> Wants] :
          /\ g[0] = FIRST /\ g[Len(c)] = FIRST
          /\ \A i \in 1 .. Len(c) : g[i] = Follow(g[i - 1], c[i])
  BY DEF Parsed
<1> DEFINE m == Len(s)
           n == Len(c)
           h == [i \in 0 .. m + n |-> IF i <= m THEN f[i] ELSE g[i - m]]
<1>3. m \in Nat /\ n \in Nat /\ Len(s \o c) = m + n
      /\ \A i \in 1 .. m + n : (s \o c)[i] = IF i <= m THEN s[i] ELSE c[i - m]
  BY ConcatProperties, LenProperties
<1> HIDE DEF m, n
<1>4. f \in [0 .. m -> Wants] /\ g \in [0 .. n -> Wants] /\ f[0] = w /\ f[m] = FIRST /\ g[0] = FIRST
      /\ g[n] = FIRST
  BY <1>1, <1>2 DEF m, n
<1>5. h \in [0 .. m + n -> Wants]
  <2>1. ASSUME NEW i \in 0 .. m + n PROVE (IF i <= m THEN f[i] ELSE g[i - m]) \in Wants
    BY <1>3, <1>4
  <2>2. QED
    BY <2>1
<1>6. h[0] = w /\ h[m + n] = FIRST
  <2>1. h[0] = f[0]
    BY <1>3
  <2>2. CASE n = 0
    BY <1>3, <1>4, <2>1, <2>2
  <2>3. CASE n # 0
    BY <1>3, <1>4, <2>1, <2>3
  <2>4. QED
    BY <2>2, <2>3
<1>7. ASSUME NEW i \in 1 .. m + n PROVE h[i] = Follow(h[i - 1], (s \o c)[i])
  <2>1. CASE i <= m
    <3>1. h[i] = f[i] /\ h[i - 1] = f[i - 1] /\ (s \o c)[i] = s[i]
      BY <1>3, <2>1
    <3>2. f[i] = Follow(f[i - 1], s[i])
      BY <1>1, <1>3, <2>1 DEF m
    <3>3. QED
      BY <3>1, <3>2
  <2>2. CASE i > m
    <3>1. h[i] = g[i - m] /\ (s \o c)[i] = c[i - m] /\ i - m \in 1 .. n
      BY <1>3, <2>2
    <3>2. h[i - 1] = g[i - m - 1]
      BY <1>3, <1>4, <2>2
    <3>3. g[i - m] = Follow(g[i - m - 1], c[i - m])
      BY <1>2, <3>1 DEF n
    <3>4. QED
      BY <3>1, <3>2, <3>3
  <2>3. QED
    BY <1>3, <2>1, <2>2
<1> HIDE DEF h
<1>8. QED
  BY <1>3, <1>5, <1>6, <1>7 DEF Parsed

\* A byte that begins no longer scan code is one, and so is KB_ACK.
LEMMA ParsedShort ==
    /\ \A w : Parsed(w, << >>) <=> w = FIRST
    /\ \A b \in Byte \ {224, 225} : Parsed(FIRST, <<b>>)
    /\ \A b \in Byte \ {42, 183} : Parsed(FIRST, <<224, b>>)
<1>0. FIRST \in Wants /\ <<"E0", 2>> \in Wants /\ FIRST[1] = "first"
  BY DEF FIRST, Wants
<1>1. ASSUME NEW w PROVE Parsed(w, << >>) <=> w = FIRST
  <2>1. ASSUME w = FIRST PROVE Parsed(w, << >>)
    <3> DEFINE f == [i \in 0 .. 0 |-> FIRST]
    <3>1. f \in [0 .. 0 -> Wants] /\ f[0] = FIRST
      BY <1>0
    <3> HIDE DEF f
    <3>2. QED
      BY <2>1, <3>1 DEF Parsed
  <2>2. QED
    BY <2>1 DEF Parsed
<1>2. ASSUME NEW b \in Byte \ {224, 225} PROVE Parsed(FIRST, <<b>>)
  <2> DEFINE f == [i \in 0 .. 1 |-> FIRST]
  <2>1. f \in [0 .. 1 -> Wants] /\ f[0] = FIRST /\ f[1] = FIRST
    BY <1>0
  <2>2. Follow(FIRST, b) = FIRST
    BY <1>0 DEF Follow, E0, E1
  <2> HIDE DEF f
  <2>3. Len(<<b>>) = 1 /\ <<b>>[1] = b
    OBVIOUS
  <2>4. \A i \in 1 .. 1 : f[i] = Follow(f[i - 1], <<b>>[i])
    BY <2>1, <2>2
  <2>5. QED
    BY <2>1, <2>3, <2>4 DEF Parsed
<1>3. ASSUME NEW b \in Byte \ {42, 183} PROVE Parsed(FIRST, <<224, b>>)
  <2> DEFINE f == [i \in 0 .. 2 |-> IF i = 1 THEN <<"E0", 2>> ELSE FIRST]
  <2>1. f \in [0 .. 2 -> Wants] /\ f[0] = FIRST /\ f[1] = <<"E0", 2>> /\ f[2] = FIRST
    BY <1>0
  <2>2. Follow(FIRST, 224) = <<"E0", 2>> /\ Follow(<<"E0", 2>>, b) = FIRST
    BY <1>0 DEF Follow, E0, E1
  <2> HIDE DEF f
  <2>3. Len(<<224, b>>) = 2 /\ <<224, b>>[1] = 224 /\ <<224, b>>[2] = b
    OBVIOUS
  <2>4. \A i \in 1 .. 2 : f[i] = Follow(f[i - 1], <<224, b>>[i])
    BY <2>1, <2>2, <2>3
  <2>5. QED
    BY <2>1, <2>3, <2>4 DEF Parsed
<1>4. QED
  BY <1>1, <1>2, <1>3

\* Print screen and pause are whole scan codes too.
LEMMA ParsedLong ==
    /\ Parsed(FIRST, <<224, 42, 224, 55>>) /\ Parsed(FIRST, <<224, 183, 224, 170>>)
    /\ Parsed(FIRST, <<225, 29, 69, 225, 157, 197>>)
<1>0. FIRST \in Wants /\ FIRST[1] = "first"
  BY DEF FIRST, Wants
<1>1. ASSUME NEW p \in {<<"pressed", 42, 55>>, <<"released", 183, 170>>}
      PROVE  Parsed(FIRST, <<224, p[2], 224, p[3]>>)
  <2> DEFINE c == <<224, p[2], 224, p[3]>>
             f == [i \in 0 .. 4 |-> IF i = 1 THEN <<"E0", 2>> ELSE IF i = 2 THEN <<p[1], 3>>
                                    ELSE IF i = 3 THEN <<p[1], 4>> ELSE FIRST]
  <2>1. <<"E0", 2>> \in Wants /\ <<p[1], 3>> \in Wants /\ <<p[1], 4>> \in Wants
    BY DEF Wants
  <2>2. f \in [0 .. 4 -> Wants] /\ f[0] = FIRST /\ f[1] = <<"E0", 2>> /\ f[2] = <<p[1], 3>>
        /\ f[3] = <<p[1], 4>> /\ f[4] = FIRST
    BY <1>0, <2>1
  <2>3. Len(c) = 4 /\ c[1] = 224 /\ c[2] = p[2] /\ c[3] = 224 /\ c[4] = p[3]
    OBVIOUS
  <2>4. Follow(FIRST, 224) = <<"E0", 2>>
    BY <1>0 DEF Follow, E0, E1
  <2>5. Follow(<<"E0", 2>>, p[2]) = <<p[1], 3>>
    BY DEF Follow
  <2>6. Follow(<<p[1], 3>>, 224) = <<p[1], 4>> /\ Follow(<<p[1], 4>>, p[3]) = FIRST
    BY DEF Follow, PrintCode, E0
  <2> HIDE DEF f, c
  <2>7. \A i \in 1 .. 4 : f[i] = Follow(f[i - 1], c[i])
    BY <2>2, <2>3, <2>4, <2>5, <2>6
  <2>8. QED
    BY <2>2, <2>3, <2>7 DEF Parsed, c
<1>2. Parsed(FIRST, <<225, 29, 69, 225, 157, 197>>)
  <2> DEFINE c == <<225, 29, 69, 225, 157, 197>>
             f == [i \in 0 .. 6 |-> IF i \in 1 .. 5 THEN <<"pause", i + 1>> ELSE FIRST]
  <2>1. \A i \in 1 .. 5 : <<"pause", i + 1>> \in Wants
    BY DEF Wants
  <2>2. f \in [0 .. 6 -> Wants] /\ f[0] = FIRST /\ f[6] = FIRST
        /\ f[1] = <<"pause", 2>> /\ f[2] = <<"pause", 3>> /\ f[3] = <<"pause", 4>>
        /\ f[4] = <<"pause", 5>> /\ f[5] = <<"pause", 6>>
    BY <1>0, <2>1
  <2>3. Len(c) = 6 /\ c[1] = 225 /\ c[2] = 29 /\ c[3] = 69 /\ c[4] = 225 /\ c[5] = 157 /\ c[6] = 197
    OBVIOUS
  <2>4. Follow(FIRST, 225) = <<"pause", 2>>
    BY <1>0 DEF Follow, E1
  <2>5. /\ Follow(<<"pause", 2>>, 29) = <<"pause", 3>> /\ Follow(<<"pause", 3>>, 69) = <<"pause", 4>>
        /\ Follow(<<"pause", 4>>, 225) = <<"pause", 5>> /\ Follow(<<"pause", 5>>, 157) = <<"pause", 6>>
        /\ Follow(<<"pause", 6>>, 197) = FIRST
    BY DEF Follow, PauseCode, E1
  <2> HIDE DEF f, c
  <2>6. \A i \in 1 .. 6 : f[i] = Follow(f[i - 1], c[i])
    BY <2>2, <2>3, <2>4, <2>5
  <2>7. QED
    BY <2>2, <2>3, <2>6 DEF Parsed, c
<1>3. QED
  <2>1. Parsed(FIRST, <<224, <<"pressed", 42, 55>>[2], 224, <<"pressed", 42, 55>>[3]>>)
        /\ Parsed(FIRST, <<224, <<"released", 183, 170>>[2], 224, <<"released", 183, 170>>[3]>>)
    BY <1>1
  <2>2. QED
    BY <1>2, <2>1

\* Every scan code of the table is read as a whole.
LEMMA ParsedSends ==
    ASSUME NEW k \in DOMAIN Sends
    PROVE  Parsed(FIRST, Sends[k].make) /\ Parsed(FIRST, Sends[k].brk)
<1>1. ASSUME NEW c \in {29, 30, 42, 54, 56, 58, 69, 70, 72}
      PROVE  Parsed(FIRST, OneByte(c).make) /\ Parsed(FIRST, OneByte(c).brk)
  <2>1. c \in Byte \ {224, 225} /\ c + 128 \in Byte \ {224, 225}
    BY DEF Byte
  <2>2. OneByte(c).make = <<c>> /\ OneByte(c).brk = <<c + 128>>
    BY DEF OneByte, FLAG_BREAK
  <2>3. QED
    BY <2>1, <2>2, ParsedShort
<1>2. ASSUME NEW c \in {29, 56, 72}
      PROVE  Parsed(FIRST, TwoByte(c).make) /\ Parsed(FIRST, TwoByte(c).brk)
  <2>1. c \in Byte \ {42, 183} /\ c + 128 \in Byte \ {42, 183}
    BY DEF Byte
  <2>2. TwoByte(c).make = <<224, c>> /\ TwoByte(c).brk = <<224, c + 128>>
    BY DEF TwoByte, FLAG_BREAK, E0
  <2>3. QED
    BY <2>1, <2>2, ParsedShort
<1>3. QED
  BY <1>1, <1>2, SendsTable, ParsedShort, ParsedLong, SMTT(40)

\* Where the reader is in a scan code.
Within == IF pc \in {"get", "pop"} THEN want ELSE FIRST

\* All that the handler did not drop, in the ring or still to be sent, is read as
\* whole scan codes, and keyboard_read looks for the first byte of one only if there
\* is one in the ring.
Following ==
    /\ ~lost => Parsed(Within, contents \o sending)
    /\ pc = "get" /\ want[1] = "first" => count > 0

\* The ring holds bytes.
LEMMA ContentsAreBytes ==
    ASSUME RingOK
    PROVE  contents \in Seq(Byte) /\ Len(contents) = count
<1>1. count \in Nat /\ count <= KB_IN_BYTES /\ p_tail \in Slots /\ KB_IN_BYTES \in Nat
  BY KeyboardAssumption DEF RingOK
<1>2. ASSUME NEW i \in 1 .. count PROVE buf[(p_tail + i - 1) % KB_IN_BYTES] \in Byte
  <2>1. (p_tail + i - 1) % KB_IN_BYTES = Slot(p_tail, i - 1) /\ i - 1 \in 0 .. KB_IN_BYTES
    BY <1>1 DEF Slot, Slots
  <2>2. Slot(p_tail, i - 1) \in Slots
    BY <1>1, <2>1, SlotOf
  <2>3. QED
    BY <2>1, <2>2 DEF RingOK
<1>3. QED
  BY <1>1, <1>2 DEF contents

\* A byte at the end of a sequence is one behind it.
LEMMA AppendBehind ==
    ASSUME NEW s \in Seq(Byte), NEW b \in Byte
    PROVE  Append(s, b) = s \o <<b>> /\ s \o <<b>> \in Seq(Byte) /\ <<b>> \in Seq(Byte)
OBVIOUS

\* The handler moves a byte from what is to be sent to what is in the ring.
LEMMA HandlerFollows ==
    ASSUME RingOK, SendsBytes, Following, SendByte, ~lost'
    PROVE  contents' \o sending' = contents \o sending
<1> DEFINE s == contents
           b == Head(sending)
           t == Tail(sending)
<1>1. s \in Seq(Byte) /\ sending \in Seq(Byte) /\ sending # << >> /\ b # KB_ACK
  BY ContentsAreBytes DEF SendsBytes, SendByte, ScanByte
<1>2. b \in Byte /\ t \in Seq(Byte) /\ sending = <<b>> \o t
  BY <1>1
<1>3. count < KB_IN_BYTES
  BY <1>1 DEF SendByte, keyboard_handler
<1>4. Len(s) = count
  BY ContentsAreBytes
<1>5. s' = Append(s, b) /\ sending' = t
  BY <1>2, <1>3, <1>4, HandlerPuts DEF SendByte
<1>6. Append(s, b) = s \o <<b>>
  BY <1>1, <1>2, AppendBehind
<1> HIDE DEF s, b, t
<1>7. (s \o <<b>>) \o t = s \o (<<b>> \o t)
  BY <1>1, <1>2, ConcatAssociative
<1>8. QED
  BY <1>2, <1>5, <1>6, <1>7 DEF s

\* Every step keeps the reader in step with what the keyboard sends.
LEMMA FollowingStep ==
    ASSUME RingOK, SendsBytes, Types, session \in Sessions, Following, [Next]_vars
    PROVE  Following'
<1> DEFINE s == contents
<1>1. s \in Seq(Byte) /\ sending \in Seq(Byte) /\ Len(s) = count /\ want \in Wants
  BY ContentsAreBytes DEF SendsBytes, ScanByte, Types, Wants
<1>2. CASE SendByte
  <2>1. lost' \in BOOLEAN /\ (~lost' => ~lost) /\ UNCHANGED <<pc, want>>
    BY <1>2 DEF SendByte, keyboard_handler, Types, reader
  <2>2. count \in Nat /\ (count' = count \/ count' = count + 1)
    BY <1>2 DEF SendByte, keyboard_handler, RingOK
  <2>3. Within' = Within
    BY <2>1 DEF Within
  <2>4. ~lost' => Parsed(Within', contents' \o sending')
    BY <1>2, <2>1, <2>3, HandlerFollows DEF Following
  <2>5. pc' = "get" /\ want'[1] = "first" => count' > 0
    BY <2>1, <2>2 DEF Following
  <2>6. QED
    BY <2>4, <2>5 DEF Following
<1>3. CASE Answer
  <2>1. /\ sending = << >> /\ sending' = << >> /\ (~lost' => ~lost) /\ UNCHANGED <<pc, want>>
        /\ keyboard_handler(KB_ACK)
    BY <1>3 DEF Answer, keyboard_handler, reader
  <2>2. KB_ACK \in Byte \ {224, 225}
    BY DEF KB_ACK, Byte
  <2>3. s' = Append(s, KB_ACK) \/ s' = s
    BY <2>1, <2>2, HandlerPuts
  <2>4. count \in Nat /\ (count' = count \/ count' = count + 1) /\ Within' = Within
    BY <2>1 DEF keyboard_handler, RingOK, Within
  <2>5. ASSUME ~lost PROVE Parsed(Within, s' \o << >>)
    <3>1. Parsed(Within, s)
      BY <1>1, <2>1, <2>5, ConcatEmptySeq DEF Following
    <3>2. Parsed(FIRST, <<KB_ACK>>) /\ <<KB_ACK>> \in Seq(Byte)
      BY <2>2, ParsedShort
    <3>3. Parsed(Within, s \o <<KB_ACK>>)
      BY <1>1, <3>1, <3>2, ParsedConcat
    <3>4. Append(s, KB_ACK) = s \o <<KB_ACK>> /\ Append(s, KB_ACK) \in Seq(Byte)
      BY <1>1, <2>2, AppendBehind
    <3>5. s' \o << >> = s'
      BY <1>1, <2>3, <3>4, ConcatEmptySeq
    <3>6. QED
      BY <2>3, <3>1, <3>3, <3>4, <3>5
  <2>6. pc' = "get" /\ want'[1] = "first" => count' > 0
    BY <2>1, <2>4 DEF Following
  <2>7. QED
    BY <2>1, <2>4, <2>5, <2>6 DEF Following
<1>4. ASSUME NEW k \in session.keys, Press(k) \/ Release(k) PROVE Following'
  <2>1. k \in DOMAIN Sends
    BY KeyboardAssumption
  <2>2. /\ sending = << >> /\ lost' = lost /\ UNCHANGED <<pc, want, count>>
        /\ sending' = Sends[k].make \/ sending' = Sends[k].brk
    BY <1>4 DEF Press, Release, KeyEvent, ring, reader
  <2>3. s' = s /\ Within' = Within
    BY <1>4, <2>2, RingLeft DEF Within
  <2>4. sending' \in Seq(Byte) /\ Parsed(FIRST, sending')
    BY <2>1, <2>2, SendsAreBytes, ParsedSends DEF ScanByte
  <2>5. ASSUME ~lost PROVE Parsed(Within, s \o sending')
    <3>1. Parsed(Within, s)
      BY <1>1, <2>2, <2>5, ConcatEmptySeq DEF Following
    <3>2. QED
      BY <1>1, <2>4, <3>1, ParsedConcat
  <2>6. QED
    BY <2>2, <2>3, <2>5 DEF Following
<1>5. CASE PopByte
  <2> DEFINE b == buf[p_tail]
  <2>1. /\ s # << >> /\ s' = Tail(s) /\ b = Head(s) /\ sending' = sending /\ lost' = lost
        /\ ReadByte(b) /\ pc = "pop"
    BY <1>5, ReaderGets DEF PopByte, device
  <2>2. /\ \/ pc' \in {"idle", "led_command"} /\ Follow(want, b) = FIRST
           \/ pc' = "get" /\ want' = Follow(want, b) /\ want'[1] # "first"
    BY <2>1, ReadByteTypes
  <2>3. Within = want /\ Within' = Follow(want, b)
    BY <2>1, <2>2 DEF Within
  <2>4. ASSUME ~lost PROVE Parsed(Within', s' \o sending')
    <3>1. Parsed(want, s \o sending) /\ s \o sending \in Seq(Byte)
      BY <1>1, <2>3, <2>4, ConcatProperties DEF Following
    <3>2. s \o sending # << >> /\ Head(s \o sending) = Head(s) /\ Tail(s \o sending) = Tail(s) \o sending
      BY <1>1, <2>1
    <3>3. Parsed(Follow(want, Head(s)), Tail(s) \o sending)
      BY <3>1, <3>2, ParsedTail
    <3>4. QED
      BY <2>1, <2>3, <3>3
  <2>5. QED
    BY <2>1, <2>2, <2>4 DEF Following
<1>6. CASE Start
  <2>1. /\ count > 0 /\ pc = "idle" /\ pc' = "get" /\ want' = <<"first", 1>>
        /\ UNCHANGED <<count, sending, lost>>
    BY <1>6 DEF Start, ring, device
  <2>2. s' = s /\ Within' = Within
    BY <1>6, <2>1, RingLeft DEF Within, FIRST
  <2>3. QED
    BY <2>1, <2>2 DEF Following
<1>7. CASE TakeByte \/ LedCommand \/ LedArgument \/ kb_ack \/ UNCHANGED vars
  <2>1. \/ UNCHANGED <<want, sending, lost, count>> /\ Within' = Within /\ pc' # "get"
        \/ UNCHANGED vars
    BY <1>7 DEF TakeByte, LedCommand, LedArgument, kb_ack, LedStep, ring, device, Within
  <2>2. UNCHANGED <<want, sending, lost, count>> /\ Within' = Within /\ (pc' # "get" \/ pc' = pc)
    BY <2>1 DEF vars, ring, reader, device, Within
  <2>3. s' = s
    BY <1>7, RingLeft
  <2>4. QED
    BY <2>2, <2>3 DEF Following
<1>8. QED
  BY <1>2, <1>3, <1>4, <1>5, <1>6, <1>7 DEF Next, Read

\* keyboard_read, which spins until there is another byte, does so only in the middle
\* of a scan code that is still being sent, unless the ring was full and a byte is
\* missing, for every size of the ring and any keys.
THEOREM KeyboardNoVainWait == Spec => []NoVainWait
<1>1. Init => Following
  BY RingInit, ParsedShort DEF Init, Following, Within, FIRST
<1>2. RingOK /\ SendsBytes /\ session \in Sessions /\ Types /\ Following /\ [Next]_vars
      => Following'
  BY FollowingStep
<1>3. RingOK /\ SendsBytes /\ session \in Sessions /\ Types /\ [Next]_vars => Types'
  BY TypesStep
<1>4. ASSUME RingOK, Following, pc = "get", count = 0, ~lost, sending = << >> PROVE FALSE
  <2>1. contents = << >>
    BY <1>4 DEF contents
  <2>2. Parsed(want, << >>)
    BY <1>4, <2>1, ConcatEmptySeq, EmptySeq DEF Following, Within
  <2>3. want = FIRST
    BY <2>2, ParsedShort
  <2>4. QED
    BY <1>4, <2>3 DEF Following, FIRST
<1>5. RingOK /\ Following => NoVainWait
  BY <1>4 DEF NoVainWait
<1>6. QED
  BY <1>1, <1>2, <1>3, <1>5, TypesInit, KeyboardRing, PTL DEF Spec

(***************************************************************************)
(* The console                                                             *)
(***************************************************************************)

USE DEF Consoles, Threads

(***************************************************************************)
(* Arithmetic of addresses                                                 *)
(***************************************************************************)

\* The part of a console lies in the video memory (init_console): no address in it, or
\* one line or screen beyond, is too large for the registers of the display or for an
\* unsigned.
LEMMA Addresses ==
    ASSUME NEW c \in Consoles
    PROVE  /\ begin_adr(c) \in Nat /\ limit_adr(c) = begin_adr(c) + vmem_limit
           /\ begin_adr(0) = 0 /\ (c # 0 => begin_adr(c) >= vmem_limit)
           /\ limit_adr(c) <= NR_CONSOLE * vmem_limit
           /\ NR_CONSOLE * vmem_limit + vmem_limit < RegWord
           /\ NR_CONSOLE * vmem_limit \in Nat
<1>1. c \in Nat /\ c + 1 <= NR_CONSOLE /\ NR_CONSOLE \in Nat /\ vmem_limit \in Nat
  BY ConsoleAssumption
<1>2. (c + 1) * vmem_limit <= NR_CONSOLE * vmem_limit
  BY <1>1
<1>3. (c + 1) * vmem_limit = c * vmem_limit + vmem_limit
  BY <1>1
<1>4. (c # 0 => c * vmem_limit >= vmem_limit) /\ c * vmem_limit \in Nat
  BY <1>1
<1>5. NR_CONSOLE * vmem_limit + vmem_limit < RegWord
  BY <1>1, ConsoleAssumption
<1>6. NR_CONSOLE * vmem_limit \in Nat /\ 0 * vmem_limit = 0
  BY <1>1
<1>7. QED
  BY <1>1, <1>2, <1>3, <1>4, <1>5, <1>6 DEF begin_adr, limit_adr

\* The unsigned addition of out_char and scroll_screen is exact where it does not wrap.
LEMMA Addition ==
    ASSUME NEW a, NEW b, a \in Int, b \in Int
    PROVE  /\ Add(a, b) \in Nat /\ Add(a, b) < Word
           /\ a + b \in Nat /\ a + b < Word => Add(a, b) = a + b
<1>1. Word \in Nat \ {0} /\ a + b \in Int
  BY ConsoleAssumption
<1>2. QED
  BY <1>1 DEF Add

\* So is the subtraction.
LEMMA Subtraction ==
    ASSUME NEW a, NEW b, a \in Int, b \in Int
    PROVE  /\ Sub(a, b) \in Nat /\ Sub(a, b) < Word
           /\ a - b \in Nat /\ a - b < Word => Sub(a, b) = a - b
<1>1. Word \in Nat \ {0} /\ a - b \in Int
  BY ConsoleAssumption
<1>2. QED
  BY <1>1 DEF Sub

\* What is put in a register fits it.
LEMMA Registers == ASSUME NEW a \in Int PROVE Register(a) \in 0 .. RegWord - 1
<1>1. RegWord \in Nat \ {0}
  BY ConsoleAssumption
<1>2. a % RegWord \in 0 .. RegWord - 1 /\ 0 \in 0 .. RegWord - 1
  BY <1>1
<1>3. QED
  BY <1>2 DEF Register

\* The line after the one a cell is in begins behind the cell, less than a line and a
\* cell away (the division in out_char's newline).
LEMMA LineBelow ==
    ASSUME NEW a \in Nat
    PROVE  (a \div SCREEN_WIDETH + 1) * SCREEN_WIDETH \in a + 1 .. a + SCREEN_WIDETH
<1>1. SCREEN_WIDETH \in Nat /\ SCREEN_WIDETH > 0
  BY ConsoleAssumption
<1>2. a = (a \div SCREEN_WIDETH) * SCREEN_WIDETH + (a % SCREEN_WIDETH)
      /\ a \div SCREEN_WIDETH \in Nat /\ a % SCREEN_WIDETH \in 0 .. SCREEN_WIDETH - 1
  BY <1>1
<1>3. (a \div SCREEN_WIDETH + 1) * SCREEN_WIDETH = (a \div SCREEN_WIDETH) * SCREEN_WIDETH + SCREEN_WIDETH
  BY <1>1, <1>2
<1>4. (a \div SCREEN_WIDETH) * SCREEN_WIDETH \in Nat
  BY <1>1, <1>2
<1>5. QED
  BY <1>1, <1>2, <1>3, <1>4

(***************************************************************************)
(* The inductive invariant                                                 *)
(***************************************************************************)

\* The places in out_char up to its test whether to scroll, and those in scroll_screen up
\* to its store: there the cursor and the window are read and written.
Writing == {"switch", "line", "next", "back", "dec", "put", "inc", "wrap", "top", "loop", "window"}
Scrolling == {"scroll", "move", "moved"}

\* Each thread is in a console it may write to or scroll, and does what it was called for.
Placed ==
    /\ \A t \in Threads : /\ thread_pc[t] \in Writing => ch[t] \in Chars
                          /\ thread_pc[t] \in Scrolling => ch[t] \in Chars \cup {"up", "down"}
    /\ thread_pc["tty"] # "idle" =>
           /\ ch["tty"] \in Chars => con["tty"] \in setting.used
           /\ ch["tty"] \in {"up", "down"} => con["tty"] \in setting.scrolled
           /\ setting.onlyShown => con["tty"] = current_tty
    /\ thread_pc["printx"] # "idle" =>
           setting.printx /\ con["printx"] = 0 /\ ch["printx"] \in Chars \cup {"done"}

\* The display is only behind with the window until it has been shown, and with the
\* cursor during a call.
Display ==
    (setting.onlyShown /\ ~setting.printx) =>
        /\ \/ thread_pc["tty"] = "show" \/ (thread_pc["tty"] = "cursor" /\ ch["tty"] = "shown")
           \/ crtc_start = current_start_addr[current_tty] % RegWord
        /\ (thread_pc["tty"] = "idle" \/ (thread_pc["tty"] = "show" /\ ch["tty"] = "shown"))
               => crtc_cursor = cursor_location[current_tty] % RegWord

CursorKept(c) == cursor_location[c] \in begin_adr(c) .. limit_adr(c)

\* What a thread that writes to console c has read of its cursor is still so, and so is
\* what it has found out about it.
Fresh(t, c) ==
    con[t] = c =>
        /\ thread_pc[t] \in {"switch", "back", "put", "dec"} => vmem_p[t] = cursor_location[c]
        /\ thread_pc[t] \in {"dec", "inc"} => reg[t] = cursor_location[c]
        /\ thread_pc[t] \in {"back", "dec"} => cursor_location[c] > begin_adr(c)
        /\ thread_pc[t] \in {"put", "inc"} => cursor_location[c] < limit_adr(c)
        /\ thread_pc[t] = "line" => cursor_location[c] + SCREEN_WIDETH < limit_adr(c)
        /\ thread_pc[t] = "next" => reg[t] \in begin_adr(c) .. limit_adr(c)
        /\ thread_pc[t] = "top" => cursor_location[c] = begin_adr(c)

Written == \A w \in wrote : ~Shared(w[1]) => w[2] \in begin_adr(w[1]) .. limit_adr(w[1]) - 1

Cursors ==
    /\ \A c \in Consoles : ~Shared(c) => CursorKept(c) /\ \A t \in Threads : Fresh(t, c)
    /\ Written

\* The same of a console's window, if it is not the first one scrolled by hand.
WindowKept(c) == current_start_addr[c] \in begin_adr(c) .. limit_adr(c)

Ready(t, c) ==
    con[t] = c =>
        /\ thread_pc[t] \in {"move", "moved"} => MayScroll(t, c)
        /\ thread_pc[t] = "moved" => reg[t] = current_start_addr[c]

Windows ==
    \A c \in Consoles : ~Shared(c) /\ ~ByHand(c) => WindowKept(c) /\ \A t \in Threads : Ready(t, c)

ConsoleTypes == ConsoleTypeOK /\ setting \in Settings

IInv == ConsoleTypes /\ Placed /\ Display /\ Cursors /\ Windows

\* The consoles are empty at first but for the boot messages and two characters, and the
\* first is shown.
LEMMA InitInv == ConsoleInit => IInv
<1> SUFFICES ASSUME ConsoleInit PROVE IInv
  OBVIOUS
<1> USE ConsoleAssumption
<1>1. 0 \in Consoles
  OBVIOUS
<1>2. BootCursor \in Nat /\ BootCursor <= vmem_limit /\ vmem_limit >= 2 /\ vmem_limit \in Nat
      /\ vmem_limit < RegWord /\ RegWord \in Nat /\ RegWord <= Word /\ Word \in Nat
  BY <1>1, Addresses
<1>3. \A c \in Consoles : begin_adr(c) \in Nat /\ limit_adr(c) = begin_adr(c) + vmem_limit
                          /\ begin_adr(0) = 0 /\ limit_adr(c) < Word
  BY Addresses
<1>4. ConsoleTypes
  <2>1. cursor_location \in [Consoles -> 0 .. Word - 1] /\ current_start_addr \in [Consoles -> 0 .. Word - 1]
    BY <1>2, <1>3, SMTT(40) DEF ConsoleInit
  <2>2. thread_pc \in [Threads -> Labels] /\ con \in [Threads -> Consoles]
        /\ ch \in [Threads -> Chars \cup {"up", "down", "shown", "done"}]
    BY <1>1 DEF ConsoleInit, Chars, Labels
  <2>3. vmem_p \in [Threads -> 0 .. Word - 1] /\ reg \in [Threads -> 0 .. Word - 1]
    BY <1>2 DEF ConsoleInit
  <2>4. setting \in Settings /\ current_tty \in Consoles
        /\ wrote \in SUBSET (Consoles \X (0 .. Word - 1))
        /\ {crtc_start, crtc_cursor} \subseteq 0 .. RegWord - 1
    BY <1>1, <1>2 DEF ConsoleInit
  <2>5. QED
    BY <2>1, <2>2, <2>3, <2>4 DEF ConsoleTypes, ConsoleTypeOK
<1>5. \A t \in Threads : thread_pc[t] = "idle"
  BY DEF ConsoleInit
<1>6. ASSUME NEW c \in Consoles PROVE CursorKept(c) /\ WindowKept(c)
  <2>1. cursor_location[c] = (IF c = 0 THEN BootCursor ELSE begin_adr(c) + 2)
        /\ current_start_addr[c] = begin_adr(c)
    BY DEF ConsoleInit
  <2>2. QED
    BY <2>1, <1>2, <1>3 DEF CursorKept, WindowKept
<1>7. Placed /\ \A c \in Consoles, t \in Threads : Fresh(t, c) /\ Ready(t, c)
  BY <1>5 DEF Placed, Fresh, Ready, Writing, Scrolling
<1>8. Display
  <2>1. crtc_start = 0 /\ current_start_addr[current_tty] = 0 /\ crtc_cursor = BootCursor
        /\ cursor_location[current_tty] = BootCursor
    BY <1>1, <1>3 DEF ConsoleInit
  <2>2. 0 % RegWord = 0 /\ BootCursor % RegWord = BootCursor
    BY <1>2
  <2>3. QED
    BY <2>1, <2>2 DEF Display
<1>9. Written
  BY DEF Written, ConsoleInit
<1>10. QED
  BY <1>4, <1>6, <1>7, <1>8, <1>9 DEF IInv, Cursors, Windows

(***************************************************************************)
(* What a step changes                                                     *)
(***************************************************************************)

\* A thread changes only its own locals and the console it works on, whose cursor only
\* while it writes and whose window only at the store of scroll_screen.
LEMMA OwnStep ==
    ASSUME ConsoleTypes, NEW t \in Threads, Step(t)
    PROVE  /\ current_tty' = current_tty /\ thread_pc[t] # "idle"
           /\ \A u \in Threads : u # t =>
                  /\ thread_pc'[u] = thread_pc[u] /\ con'[u] = con[u] /\ ch'[u] = ch[u]
                  /\ vmem_p'[u] = vmem_p[u] /\ reg'[u] = reg[u]
           /\ \A c \in Consoles : c # con[t] =>
                  cursor_location'[c] = cursor_location[c] /\ current_start_addr'[c] = current_start_addr[c]
           /\ thread_pc'[t] = "idle" \/ con'[t] = con[t]
           /\ thread_pc[t] \in Writing \/ cursor_location' = cursor_location
           /\ thread_pc[t] = "moved" \/ current_start_addr' = current_start_addr
<1> USE DEF ConsoleTypes, ConsoleTypeOK, At, Goto, Jump, Load, Idle, Writing, crtc
<1>1. CASE NewLineTest(t) \/ BackTest(t) \/ PutTest(t)
  BY <1>1 DEF NewLineTest, BackTest, PutTest
<1>2. CASE NewLine(t) \/ Back(t) \/ Put(t)
  BY <1>2 DEF NewLine, Back, Put
<1>3. CASE NextLine(t) \/ Dec(t) \/ Inc(t)
  BY <1>3 DEF NextLine, Dec, Inc
<1>4. CASE Wrap(t) \/ PutTop(t)
  BY <1>4 DEF Wrap, PutTop
<1>5. CASE Loop(t) \/ Window(t)
  BY <1>5 DEF Loop, Window
<1>6. CASE scroll_screen(t) \/ Move(t) \/ Moved(t)
  BY <1>6 DEF scroll_screen, Move, Moved
<1>7. CASE set_console_start_addr(t) \/ set_cursor(t)
  BY <1>7 DEF set_console_start_addr, set_cursor
<1>8. QED
  BY <1>1, <1>2, <1>3, <1>4, <1>5, <1>6, <1>7 DEF Step

\* What a call changes when it begins: the locals of its thread, and the console shown.
CallBegins(t, c) ==
    /\ thread_pc[t] = "idle" /\ con'[t] = c /\ reg' = reg /\ wrote' = {}
    /\ \A u \in Threads : u # t =>
           /\ thread_pc'[u] = thread_pc[u] /\ con'[u] = con[u] /\ ch'[u] = ch[u]
           /\ vmem_p'[u] = vmem_p[u]
    /\ UNCHANGED <<cursor_location, current_start_addr, crtc_start, crtc_cursor>>
    /\ \/ /\ thread_pc'[t] = "switch" /\ vmem_p'[t] = cursor_location[c]
          /\ ch'[t] \in Chars /\ current_tty' = current_tty
          /\ IF t = "tty" THEN c \in setting.used /\ (setting.onlyShown => c = current_tty)
             ELSE c = 0 /\ setting.printx
       \/ /\ t = "tty" /\ thread_pc'[t] = "scroll" /\ ch'[t] \in {"up", "down"}
          /\ c = current_tty /\ current_tty' = current_tty /\ c \in setting.scrolled
       \/ t = "tty" /\ thread_pc'[t] = "cursor" /\ ch'[t] = "shown" /\ current_tty' = c

\* So does every call.
LEMMA CallStep ==
    ASSUME ConsoleTypes, \/ \E t \in Threads, c \in Consoles, x \in Chars : OutChar(t, c, x)
                  \/ ScrollKey \/ \E c \in Consoles : switch_console(c)
    PROVE  \E t \in Threads, c \in Consoles : CallBegins(t, c)
<1> USE DEF ConsoleTypes, ConsoleTypeOK, At, Goto, crtc
<1>1. ASSUME NEW t \in Threads, NEW c \in Consoles, NEW x \in Chars, OutChar(t, c, x)
      PROVE  /\ thread_pc[t] = "idle" /\ con'[t] = c /\ reg' = reg /\ wrote' = {}
             /\ \A u \in Threads : u # t =>
                    /\ thread_pc'[u] = thread_pc[u] /\ con'[u] = con[u] /\ ch'[u] = ch[u]
                    /\ vmem_p'[u] = vmem_p[u]
             /\ UNCHANGED <<cursor_location, current_start_addr, crtc_start, crtc_cursor, current_tty>>
             /\ thread_pc'[t] = "switch" /\ vmem_p'[t] = cursor_location[c] /\ ch'[t] = x
             /\ IF t = "tty" THEN c \in setting.used /\ (setting.onlyShown => c = current_tty)
                ELSE c = 0 /\ setting.printx
  BY <1>1 DEF OutChar
<1>2. ASSUME NEW c \in Consoles, NEW x \in {"up", "down", "shown"}, Key(c, x)
      PROVE  /\ thread_pc["tty"] = "idle" /\ con'["tty"] = c /\ ch'["tty"] = x
             /\ reg' = reg /\ wrote' = {}
             /\ con'["printx"] = con["printx"] /\ ch'["printx"] = ch["printx"] /\ vmem_p' = vmem_p
             /\ UNCHANGED <<cursor_location, current_start_addr, crtc_start, crtc_cursor>>
  BY <1>2 DEF Key
<1>3. CASE ScrollKey
  <2>1. PICK x \in {"up", "down"} : Key(current_tty, x)
    BY <1>3 DEF ScrollKey
  <2>2. current_tty \in Consoles
    OBVIOUS
  <2>3. PICK c \in Consoles : c = current_tty
    BY <2>2
  <2>4. /\ thread_pc'["tty"] = "scroll" /\ thread_pc'["printx"] = thread_pc["printx"]
        /\ current_tty' = current_tty /\ c \in setting.scrolled
    BY <1>3, <2>3 DEF ScrollKey
  <2>5. QED
    BY <1>2, <2>1, <2>3, <2>4 DEF CallBegins
<1>4. ASSUME NEW c \in Consoles, switch_console(c)
      PROVE  /\ Key(c, "shown") /\ current_tty' = c
             /\ thread_pc'["tty"] = "cursor" /\ thread_pc'["printx"] = thread_pc["printx"]
  BY <1>4 DEF switch_console
<1>5. CASE \E c \in Consoles : switch_console(c)
  BY <1>2, <1>4, <1>5 DEF CallBegins
<1>6. CASE \E t \in Threads, c \in Consoles, x \in Chars : OutChar(t, c, x)
  <2>1. PICK t \in Threads, c \in Consoles, x \in Chars : OutChar(t, c, x)
    BY <1>6
  <2>2. CallBegins(t, c)
    BY <1>1, <2>1 DEF CallBegins
  <2>3. QED
    BY <2>2
<1>7. QED
  BY <1>3, <1>5, <1>6

\* Every step keeps the types: what is stored is unsigned, or fits a register.
LEMMA TypesKept == ASSUME ConsoleTypes, ConsoleNext PROVE ConsoleTypes'
<1> DEFINE Cells == 0 .. Word - 1
<1> DEFINE Regs == 0 .. RegWord - 1
<1> DEFINE Calls == Chars \cup {"up", "down", "shown", "done"}
<1>1. /\ Word \in Nat \ {0} /\ 0 \in Cells /\ 0 \in Consoles /\ 0 \in Regs
      /\ SCREEN_WIDETH \in Int /\ RegWord \in Nat /\ RegWord <= Word
  BY ConsoleAssumption
<1>2. \A a, b \in Int : Add(a, b) \in Cells /\ Sub(a, b) \in Cells
  BY Addition, Subtraction, <1>1
<1>3. \A c \in Consoles : begin_adr(c) \in Cells
  <2>1. ASSUME NEW c \in Consoles PROVE begin_adr(c) \in Cells
    <3>1. begin_adr(c) \in Nat /\ begin_adr(c) < RegWord
      BY <1>1, ConsoleAssumption, Addresses
    <3>2. QED
      BY <3>1, <1>1
  <2>2. QED
    BY <2>1
<1>4. \A a \in Cells : a \in Int /\ Register(a) \in Regs
  BY <1>1, Registers
<1>5. /\ cursor_location \in [Consoles -> Cells] /\ current_start_addr \in [Consoles -> Cells]
      /\ current_tty \in Consoles /\ crtc_start \in Regs /\ crtc_cursor \in Regs
      /\ thread_pc \in [Threads -> Labels] /\ con \in [Threads -> Consoles]
      /\ ch \in [Threads -> Calls] /\ vmem_p \in [Threads -> Cells] /\ reg \in [Threads -> Cells]
  BY DEF ConsoleTypes, ConsoleTypeOK
<1>6. {"up", "down", "shown", "done", "char"} \subseteq Calls /\ Chars \subseteq Calls
  BY DEF Chars
<1> HIDE DEF Cells, Regs, Calls, Consoles
<1>7. SUFFICES /\ cursor_location' \in [Consoles -> Cells] /\ current_start_addr' \in [Consoles -> Cells]
               /\ current_tty' \in Consoles /\ crtc_start' \in Regs /\ crtc_cursor' \in Regs
               /\ thread_pc' \in [Threads -> Labels] /\ con' \in [Threads -> Consoles]
               /\ ch' \in [Threads -> Calls] /\ vmem_p' \in [Threads -> Cells]
               /\ reg' \in [Threads -> Cells] /\ wrote' \in SUBSET (Consoles \X Cells)
  BY DEF ConsoleTypes, ConsoleTypeOK, ConsoleNext, Cells, Regs, Calls
<1>8. CASE \E t \in Threads : Step(t)
  <2>1. PICK t \in Threads : Step(t)
    BY <1>8
  <2> USE <1>1, <1>5, <1>6 DEF At, Goto, Jump, Load, Idle, crtc, Labels
  <2>2. CASE NewLineTest(t) \/ BackTest(t) \/ PutTest(t) \/ scroll_screen(t)
    BY <2>2 DEF NewLineTest, BackTest, PutTest, scroll_screen
  <2>3. CASE NewLine(t)
    <3>1. Sub(cursor_location[con[t]], begin_adr(con[t])) \in Nat
      BY <1>3, <1>4, Subtraction
    <3>2. (Sub(cursor_location[con[t]], begin_adr(con[t])) \div SCREEN_WIDETH + 1) * SCREEN_WIDETH \in Int
      BY <3>1, LineBelow
    <3>3. Add((Sub(cursor_location[con[t]], begin_adr(con[t])) \div SCREEN_WIDETH + 1) * SCREEN_WIDETH,
              begin_adr(con[t])) \in Cells
      BY <3>2, <1>2, <1>3, <1>4
    <3>4. QED
      BY <2>3, <3>3 DEF NewLine
  <2>4. CASE Back(t) \/ Move(t)
    BY <2>4 DEF Back, Move
  <2>5. CASE Put(t)
    BY <2>5 DEF Put
  <2>6. CASE NextLine(t) \/ PutTop(t)
    BY <2>6 DEF NextLine, PutTop
  <2>7. CASE Dec(t)
    <3>1. reg[t] \in Int /\ vmem_p[t] \in Int /\ 1 \in Int
      BY <1>4
    <3>2. Sub(reg[t], 1) \in Cells /\ Sub(vmem_p[t], 1) \in Cells
      BY ONLY <1>2, <3>1
    <3>3. QED
      BY <2>7, <3>2 DEF Dec
  <2>8. CASE Inc(t)
    <3>1. reg[t] \in Int /\ 1 \in Int
      BY <1>4
    <3>2. Add(reg[t], 1) \in Cells
      BY ONLY <1>2, <3>1
    <3>3. QED
      BY <2>8, <3>2 DEF Inc
  <2>9. CASE Wrap(t)
    BY <2>9, <1>3 DEF Wrap
  <2>10. CASE Loop(t) \/ Window(t)
    BY <2>10 DEF Loop, Window
  <2>11. CASE Moved(t)
    <3>1. Scrolled(t, reg[t]) \in Cells
      BY <1>2, <1>4 DEF Scrolled
    <3>2. QED
      BY <2>11, <3>1 DEF Moved
  <2>12. CASE set_console_start_addr(t)
    BY <2>12, <1>4 DEF set_console_start_addr
  <2>13. CASE set_cursor(t)
    BY <2>13, <1>4 DEF set_cursor
  <2>14. QED
    BY <2>1, <2>2, <2>3, <2>4, <2>5, <2>6, <2>7, <2>8, <2>9, <2>10, <2>11, <2>12, <2>13 DEF Step
<1>9. CASE \E t \in Threads, c \in Consoles, x \in Chars : OutChar(t, c, x)
  BY <1>5, <1>6, <1>9 DEF OutChar, Labels, Goto, crtc
<1>10. ASSUME NEW c \in Consoles, NEW x \in {"up", "down", "shown"}, Key(c, x)
       PROVE  /\ con' \in [Threads -> Consoles] /\ wrote' = {} /\ ch' \in [Threads -> Calls]
              /\ UNCHANGED <<cursor_location, current_start_addr, crtc_start, crtc_cursor, vmem_p, reg>>
  BY <1>5, <1>6, <1>10 DEF Key, crtc
<1>11. CASE ScrollKey
  <2>1. PICK x \in {"up", "down"} : Key(current_tty, x)
    BY <1>11 DEF ScrollKey
  <2>2. thread_pc' \in [Threads -> Labels] /\ current_tty' = current_tty
    BY <1>5, <1>11 DEF ScrollKey, Labels, Goto
  <2>3. QED
    BY <1>5, <1>10, <2>1, <2>2
<1>12. CASE \E c \in Consoles : switch_console(c)
  <2>1. PICK c \in Consoles : switch_console(c)
    BY <1>12
  <2>2. thread_pc' \in [Threads -> Labels] /\ current_tty' = c /\ Key(c, "shown")
    BY <1>5, <2>1 DEF switch_console, Labels, Goto
  <2>3. QED
    BY <1>5, <1>10, <2>2
<1>13. QED
  BY <1>8, <1>9, <1>11, <1>12 DEF ConsoleNext

\* Each thread stays in a console it may write to or scroll.
LEMMA PlacedKept == ASSUME ConsoleTypes, Placed, ConsoleNext PROVE Placed'
<1> USE DEF ConsoleTypes, ConsoleTypeOK
<1>1. setting' = setting
  BY DEF ConsoleNext
<1>2. ASSUME NEW t \in Threads, Step(t)
      PROVE  /\ thread_pc'[t] \in Writing => ch'[t] \in Chars
             /\ thread_pc'[t] \in Scrolling => ch'[t] \in Chars \cup {"up", "down"}
             /\ thread_pc'[t] = "idle" \/ ch'[t] = ch[t] \/ (ch[t] \in Chars /\ ch'[t] = "done")
  <2> USE <1>2 DEF Writing, Scrolling, Chars, Placed, At, Goto, Jump, Load, Idle
  <2>1. CASE NewLineTest(t) \/ BackTest(t) \/ PutTest(t)
    BY <2>1 DEF NewLineTest, BackTest, PutTest
  <2>2. CASE NewLine(t) \/ Back(t) \/ Put(t)
    BY <2>2 DEF NewLine, Back, Put
  <2>3. CASE NextLine(t) \/ Dec(t) \/ Inc(t)
    BY <2>3 DEF NextLine, Dec, Inc
  <2>4. CASE Wrap(t) \/ PutTop(t)
    BY <2>4 DEF Wrap, PutTop
  <2>5. CASE Loop(t)
    BY <2>5 DEF Loop
  <2>6. CASE Window(t)
    BY <2>6 DEF Window
  <2>7. CASE scroll_screen(t) \/ Move(t) \/ Moved(t)
    BY <2>7 DEF scroll_screen, Move, Moved
  <2>8. CASE set_console_start_addr(t)
    BY <2>8 DEF set_console_start_addr
  <2>9. CASE set_cursor(t)
    BY <2>9 DEF set_cursor
  <2>10. QED
    BY <2>1, <2>2, <2>3, <2>4, <2>5, <2>6, <2>7, <2>8, <2>9 DEF Step
<1>3. CASE \E t \in Threads : Step(t)
  <2>1. PICK t \in Threads : Step(t)
    BY <1>3
  <2>2. \A u \in Threads : /\ thread_pc'[u] \in Writing => ch'[u] \in Chars
                           /\ thread_pc'[u] \in Scrolling => ch'[u] \in Chars \cup {"up", "down"}
    BY <1>2, <2>1, OwnStep DEF Placed
  <2>3. \A u \in Threads : thread_pc'[u] # "idle" =>
            /\ thread_pc[u] # "idle" /\ con'[u] = con[u]
            /\ ch'[u] = ch[u] \/ (ch[u] \in Chars /\ ch'[u] = "done")
    BY <1>2, <2>1, OwnStep
  <2>4. current_tty' = current_tty
    BY <2>1, OwnStep
  <2>5. QED
    BY <1>1, <2>2, <2>3, <2>4 DEF Placed, Chars
<1>4. CASE \/ \E t \in Threads, c \in Consoles, x \in Chars : OutChar(t, c, x)
           \/ ScrollKey \/ \E c \in Consoles : switch_console(c)
  <2>1. PICK t \in Threads, c \in Consoles : CallBegins(t, c)
    BY <1>4, CallStep
  <2>2. "tty" \in Threads /\ "printx" \in Threads /\ \A u \in Threads : u = "tty" \/ u = "printx"
    OBVIOUS
  <2>3. CASE t = "printx"
    BY <1>1, <2>1, <2>2, <2>3 DEF CallBegins, Placed, Chars, Writing, Scrolling
  <2>4. CASE t = "tty"
    BY <1>1, <2>1, <2>2, <2>4 DEF CallBegins, Placed, Chars, Writing, Scrolling
  <2>5. QED
    BY <2>2, <2>3, <2>4
<1>5. QED
  BY <1>3, <1>4 DEF ConsoleNext

\* The display is never behind but while a call shows what it has changed.
LEMMA DisplayKept == ASSUME ConsoleTypes, Placed, Display, ConsoleNext PROVE Display'
<1>1. setting' = setting
  BY DEF ConsoleNext
<1>2. SUFFICES ASSUME setting.onlyShown, ~setting.printx PROVE Display'
  BY <1>1 DEF Display
<1>3. thread_pc["printx"] = "idle" /\ "tty" \in Threads /\ current_tty \in Consoles
  BY <1>2 DEF Placed, ConsoleTypes, ConsoleTypeOK
<1>4. thread_pc["tty"] # "idle" => con["tty"] = current_tty
  BY <1>2 DEF Placed
<1>5. /\ \/ thread_pc["tty"] = "show" \/ (thread_pc["tty"] = "cursor" /\ ch["tty"] = "shown")
         \/ crtc_start = current_start_addr[current_tty] % RegWord
      /\ (thread_pc["tty"] = "idle" \/ (thread_pc["tty"] = "show" /\ ch["tty"] = "shown"))
             => crtc_cursor = cursor_location[current_tty] % RegWord
  BY <1>2 DEF Display
<1>6. /\ thread_pc["tty"] \in Writing => ch["tty"] \in Chars
      /\ thread_pc["tty"] \in Scrolling => ch["tty"] \in Chars \cup {"up", "down"}
  BY <1>3 DEF Placed
<1>7. DOMAIN thread_pc = Threads /\ DOMAIN ch = Threads
  BY DEF ConsoleTypes, ConsoleTypeOK
<1>8. SUFFICES /\ \/ thread_pc'["tty"] = "show" \/ (thread_pc'["tty"] = "cursor" /\ ch'["tty"] = "shown")
                  \/ crtc_start' = current_start_addr'[current_tty'] % RegWord
               /\ (thread_pc'["tty"] = "idle" \/ (thread_pc'["tty"] = "show" /\ ch'["tty"] = "shown"))
                      => crtc_cursor' = cursor_location'[current_tty'] % RegWord
  BY DEF Display
<1>9. CASE Step("tty")
  <2>1. current_tty' = current_tty /\ con["tty"] = current_tty
    BY <1>3, <1>4, <1>9, OwnStep
  <2> USE DEF At, Goto, Jump, Load, Idle, crtc
  <2> USE <1>3, <1>5, <1>6, <1>7, <2>1
  <2>2. CASE NewLineTest("tty") \/ BackTest("tty") \/ PutTest("tty")
    BY <2>2 DEF NewLineTest, BackTest, PutTest, Writing, Chars
  <2>3. CASE NewLine("tty") \/ Back("tty") \/ Put("tty")
    BY <2>3 DEF NewLine, Back, Put, Writing, Chars
  <2>4. CASE NextLine("tty") \/ Dec("tty") \/ Inc("tty")
    BY <2>4 DEF NextLine, Dec, Inc, Writing, Chars
  <2>5. CASE Wrap("tty") \/ PutTop("tty") \/ Loop("tty") \/ Window("tty")
    BY <2>5 DEF Wrap, PutTop, Loop, Window, Writing, Chars
  <2>6. CASE scroll_screen("tty") \/ Move("tty") \/ Moved("tty")
    BY <2>6 DEF scroll_screen, Move, Moved, Scrolling, Chars
  <2>7. CASE set_console_start_addr("tty")
    <3>1. crtc_start' = current_start_addr[current_tty] % RegWord
      BY <1>2, <2>7 DEF set_console_start_addr, Register
    <3>2. QED
      BY <2>7, <3>1 DEF set_console_start_addr
  <2>8. CASE set_cursor("tty")
    <3>1. crtc_cursor' = cursor_location[current_tty] % RegWord
      BY <1>2, <2>8 DEF set_cursor, Register
    <3>2. QED
      BY <2>8, <3>1 DEF set_cursor, Chars
  <2>9. QED
    BY <1>9, <2>2, <2>3, <2>4, <2>5, <2>6, <2>7, <2>8 DEF Step
<1>10. CASE Step("printx")
  BY <1>3, <1>10, OwnStep
<1>11. CASE \/ \E t \in Threads, c \in Consoles, x \in Chars : OutChar(t, c, x)
            \/ ScrollKey \/ \E c \in Consoles : switch_console(c)
  <2>1. PICK t \in Threads, c \in Consoles : CallBegins(t, c)
    BY <1>11, CallStep
  <2>2. t = "tty"
    BY <1>2, <2>1 DEF CallBegins
  <2>3. QED
    BY <1>5, <2>1, <2>2 DEF CallBegins
<1>12. QED
  BY <1>9, <1>10, <1>11 DEF ConsoleNext

\* Two threads write to one console at a time only if it is the first one and shared.
LEMMA OneWriter ==
    ASSUME ConsoleTypes, Placed, NEW t \in Threads, NEW u \in Threads, u # t, con[t] = con[u],
           thread_pc[t] \in Writing, thread_pc[u] \in Writing
    PROVE  Shared(con[t])
BY DEF Placed, Writing, Shared

\* A thread that writes to a console alone keeps the cursor in it, and what it has read of
\* the cursor and found out about it stays so until it uses it.
LEMMA WriterStep ==
    ASSUME ConsoleTypes, NEW t \in Threads, Step(t), CursorKept(con[t]), Fresh(t, con[t])
    PROVE  /\ cursor_location'[con[t]] \in begin_adr(con[t]) .. limit_adr(con[t])
           /\ con'[t] = con[t] => Fresh(t, con[t])'
           /\ \A w \in wrote' : /\ w[1] = con[t]
                                /\ w[2] \in begin_adr(con[t]) .. limit_adr(con[t]) - 1
<1> DEFINE c == con[t]
<1> DEFINE k == cursor_location[c]
<1> DEFINE first == begin_adr(c)
<1> DEFINE limit == limit_adr(c)
<1>1. c \in Consoles /\ con[t] = c
  BY DEF ConsoleTypes, ConsoleTypeOK
<1>2. /\ first \in Nat /\ limit = first + vmem_limit /\ limit + SCREEN_WIDETH < Word
      /\ vmem_limit \in Nat /\ SCREEN_WIDETH \in Nat /\ SCREEN_WIDETH > 0 /\ vmem_limit > 0
      /\ Word \in Nat
  <2>1. /\ vmem_limit \in Nat /\ SCREEN_WIDETH \in Nat /\ SCREEN_WIDETH > 0 /\ SCREEN_WIDETH < vmem_limit
        /\ RegWord <= Word /\ RegWord \in Nat /\ Word \in Nat
    BY ConsoleAssumption
  <2>2. QED
    BY <1>1, <2>1, Addresses
<1>3. k \in first .. limit /\ k \in Int
  BY <1>2 DEF CursorKept
<1>4. /\ thread_pc[t] \in {"switch", "back", "put", "dec"} => vmem_p[t] = k
      /\ thread_pc[t] \in {"dec", "inc"} => reg[t] = k
      /\ thread_pc[t] \in {"back", "dec"} => k > first
      /\ thread_pc[t] \in {"put", "inc"} => k < limit
      /\ thread_pc[t] = "line" => k + SCREEN_WIDETH < limit
      /\ thread_pc[t] = "next" => reg[t] \in first .. limit
      /\ thread_pc[t] = "top" => k = first
  BY DEF Fresh
<1>5. /\ DOMAIN thread_pc = Threads /\ DOMAIN reg = Threads /\ DOMAIN vmem_p = Threads
      /\ DOMAIN cursor_location = Consoles
  BY DEF ConsoleTypes, ConsoleTypeOK
<1>6. SUFFICES
         /\ cursor_location'[c] \in first .. limit
         /\ con'[t] = c =>
             /\ thread_pc'[t] \in {"switch", "back", "put", "dec"} => vmem_p'[t] = cursor_location'[c]
             /\ thread_pc'[t] \in {"dec", "inc"} => reg'[t] = cursor_location'[c]
             /\ thread_pc'[t] \in {"back", "dec"} => cursor_location'[c] > first
             /\ thread_pc'[t] \in {"put", "inc"} => cursor_location'[c] < limit
             /\ thread_pc'[t] = "line" => cursor_location'[c] + SCREEN_WIDETH < limit
             /\ thread_pc'[t] = "next" => reg'[t] \in first .. limit
             /\ thread_pc'[t] = "top" => cursor_location'[c] = first
         /\ \A w \in wrote' : w[1] = c /\ w[2] \in first .. limit - 1
  BY DEF Fresh, begin_adr, limit_adr
<1> USE <1>1, <1>3, <1>4, <1>5
<1> HIDE DEF c, k, first, limit
<1>k. k = cursor_location[c]
  BY DEF k
<1> USE <1>k
<1> USE DEF At, Goto, Jump, Load, Idle, crtc
<1>7. CASE NewLineTest(t)
  <2>1. Add(k, SCREEN_WIDETH) = k + SCREEN_WIDETH
    BY ONLY <1>2, <1>3, Addition
  <2>2. QED
    BY <1>7, <2>1 DEF NewLineTest, limit
<1>8. CASE NewLine(t)
  <2> DEFINE below == (Sub(k, first) \div SCREEN_WIDETH + 1) * SCREEN_WIDETH
  <2>1. Sub(k, first) = k - first /\ k - first \in Nat
    BY ONLY <1>2, <1>3, Subtraction
  <2>2. below \in k - first + 1 .. k - first + SCREEN_WIDETH
    BY ONLY <2>1, LineBelow
  <2>3. k + SCREEN_WIDETH < limit
    BY <1>8 DEF NewLine
  <2>4. Add(below, first) \in first .. limit
    <3> HIDE DEF below
    <3>1. below \in Int /\ below + first \in Nat /\ below + first < Word
      BY ONLY <1>2, <1>3, <2>2
    <3>2. Add(below, first) = below + first
      BY ONLY <1>2, <3>1, Addition
    <3>3. QED
      BY ONLY <1>2, <1>3, <2>2, <2>3, <3>2
  <2>5. thread_pc'[t] = "next" /\ reg'[t] = Add(below, first) /\ cursor_location' = cursor_location
        /\ wrote' = {}
    BY <1>8 DEF NewLine, first
  <2>6. QED
    BY <2>4, <2>5
<1>9. CASE NextLine(t)
  BY <1>9 DEF NextLine
<1>10. CASE BackTest(t)
  BY <1>10 DEF BackTest, first
<1>11. CASE Back(t)
  BY <1>11 DEF Back
<1>12. CASE Dec(t)
  <2>1. reg[t] = k /\ vmem_p[t] = k /\ k > first
    BY <1>12 DEF Dec
  <2>2. Sub(k, 1) = k - 1
    BY ONLY <1>2, <1>3, <2>1, Subtraction
  <2>3. k - 1 \in first .. limit - 1 /\ k - 1 \in first .. limit
    BY ONLY <1>2, <1>3, <2>1
  <2>4. /\ thread_pc'[t] = "loop" /\ cursor_location'[c] = Sub(k, 1) /\ wrote' = {<<c, Sub(k, 1)>>}
    BY <1>12, <2>1 DEF Dec
  <2>5. QED
    BY <2>2, <2>3, <2>4
<1>13. CASE PutTest(t)
  BY <1>13 DEF PutTest, limit
<1>14. CASE Put(t)
  <2>1. k \in first .. limit - 1
    BY <1>2, <1>14 DEF Put
  <2>2. QED
    BY <1>14, <2>1 DEF Put
<1>15. CASE Inc(t)
  <2>1. reg[t] = k /\ k < limit
    BY <1>15 DEF Inc
  <2>2. Add(k, 1) = k + 1 /\ k + 1 \in first .. limit
    BY ONLY <1>2, <1>3, <2>1, Addition
  <2>3. thread_pc'[t] = "loop" /\ cursor_location'[c] = Add(k, 1) /\ wrote' = {}
    BY <1>15, <2>1 DEF Inc
  <2>4. QED
    BY <2>2, <2>3
<1>16. CASE Wrap(t)
  <2>1. thread_pc'[t] = "top" /\ cursor_location'[c] = first /\ wrote' = {}
    BY <1>16 DEF Wrap, first
  <2>2. first \in first .. limit
    BY ONLY <1>2
  <2>3. QED
    BY <2>1, <2>2
<1>17. CASE PutTop(t)
  <2>1. k = first /\ k \in first .. limit - 1
    BY <1>2, <1>17 DEF PutTop
  <2>2. thread_pc'[t] = "loop" /\ cursor_location' = cursor_location /\ wrote' = {<<c, k>>}
    BY <1>17 DEF PutTop
  <2>3. \A w \in wrote' : w[1] = c /\ w[2] \in first .. limit - 1
    BY ONLY <2>1, <2>2
  <2>4. cursor_location'[c] \in first .. limit
    BY ONLY <1>3, <1>k, <2>2
  <2>5. QED
    BY <2>2, <2>3, <2>4
<1>18. CASE Loop(t) \/ Window(t)
  BY <1>18 DEF Loop, Window
<1>19. CASE scroll_screen(t) \/ Move(t) \/ Moved(t)
  BY <1>19 DEF scroll_screen, Move, Moved
<1>20. CASE set_console_start_addr(t) \/ set_cursor(t)
  BY <1>20 DEF set_console_start_addr, set_cursor
<1>21. QED
  BY <1>7, <1>8, <1>9, <1>10, <1>11, <1>12, <1>13, <1>14, <1>15, <1>16, <1>17, <1>18, <1>19, <1>20
     DEF Step

\* Each step leaves the cursors, and what the threads know of them, as they should be.
LEMMA CursorsKept == ASSUME ConsoleTypes, ConsoleTypes', Placed, Cursors, ConsoleNext PROVE Cursors'
<1>1. setting' = setting /\ \A c \in Consoles : Shared(c)' <=> Shared(c)
  BY DEF ConsoleNext, Shared
<1>2. CASE \E t \in Threads : Step(t)
  <2>1. PICK t \in Threads : Step(t)
    BY <1>2
  <2>2. con[t] \in Consoles /\ \A u \in Threads : con'[u] \in Consoles /\ con[u] \in Consoles
    BY DEF ConsoleTypes, ConsoleTypeOK
  <2>3. ~Shared(con[t]) => CursorKept(con[t]) /\ Fresh(t, con[t])
    BY <2>2 DEF Cursors
  <2>4. Written'
    <3>1. wrote' = {} \/ \E a : wrote' = {<<con[t], a>>}
      <4>1. CASE \/ NewLineTest(t) \/ NewLine(t) \/ NextLine(t) \/ BackTest(t) \/ Back(t)
                 \/ PutTest(t) \/ Inc(t) \/ Wrap(t) \/ Loop(t) \/ Window(t)
        BY <4>1 DEF NewLineTest, NewLine, NextLine, BackTest, Back, PutTest, Inc, Wrap, Loop, Window
      <4>2. CASE \/ scroll_screen(t) \/ Move(t) \/ Moved(t) \/ set_console_start_addr(t) \/ set_cursor(t)
        BY <4>2 DEF scroll_screen, Move, Moved, set_console_start_addr, set_cursor
      <4>3. CASE Dec(t) \/ Put(t) \/ PutTop(t)
        BY <4>3 DEF Dec, Put, PutTop
      <4>4. QED
        BY <2>1, <4>1, <4>2, <4>3 DEF Step
    <3>2. \A w \in wrote' : w[1] = con[t]
      BY <3>1
    <3>3. ~Shared(con[t]) =>
              \A w \in wrote' : w[2] \in begin_adr(con[t]) .. limit_adr(con[t]) - 1
      BY <2>1, <2>3, WriterStep
    <3>4. \A w \in wrote' : ~Shared(w[1])' => w[2] \in begin_adr(w[1]) .. limit_adr(w[1]) - 1
      BY <1>1, <3>2, <3>3 DEF Shared
    <3>5. QED
      BY <3>4 DEF Written, Shared, begin_adr, limit_adr
  <2>5. ASSUME NEW c \in Consoles, ~Shared(c)
        PROVE  CursorKept(c)' /\ \A u \in Threads : Fresh(u, c)'
    <3>1. CursorKept(c) /\ \A u \in Threads : Fresh(u, c)
      BY <2>5 DEF Cursors
    <3>2. CASE c = con[t]
      <4>1. CursorKept(c)'
        BY <2>1, <3>1, <3>2, WriterStep DEF CursorKept, begin_adr, limit_adr
      <4>2. Fresh(t, c)'
        <5>1. CASE thread_pc'[t] = "idle"
          BY <5>1 DEF Fresh
        <5>2. CASE con'[t] = con[t]
          BY <2>1, <3>1, <3>2, <5>2, WriterStep DEF Fresh
        <5>3. QED
          BY <2>1, <5>1, <5>2, OwnStep
      <4>3. ASSUME NEW u \in Threads, u # t PROVE Fresh(u, c)'
        <5>1. /\ thread_pc'[u] = thread_pc[u] /\ con'[u] = con[u]
              /\ vmem_p'[u] = vmem_p[u] /\ reg'[u] = reg[u]
          BY <2>1, <4>3, OwnStep
        <5>2. CASE cursor_location' = cursor_location
          BY <3>1, <5>1, <5>2 DEF Fresh, begin_adr, limit_adr
        <5>3. CASE thread_pc[t] \in Writing
          <6>1. con[u] # c \/ thread_pc[u] \notin Writing
            BY <2>5, <3>2, <4>3, <5>3, OneWriter
          <6>2. QED
            BY <5>1, <6>1 DEF Fresh, Writing
        <5>4. QED
          BY <2>1, <5>2, <5>3, OwnStep
      <4>4. QED
        BY <4>1, <4>2, <4>3
    <3>3. CASE c # con[t]
      <4>1. cursor_location'[c] = cursor_location[c]
        BY <2>1, <3>3, OwnStep
      <4>2. CursorKept(c)'
        BY <3>1, <4>1 DEF CursorKept, begin_adr, limit_adr
      <4>3. ASSUME NEW u \in Threads, u # t PROVE Fresh(u, c)'
        <5>1. /\ thread_pc'[u] = thread_pc[u] /\ con'[u] = con[u]
              /\ vmem_p'[u] = vmem_p[u] /\ reg'[u] = reg[u]
          BY <2>1, <4>3, OwnStep
        <5>2. QED
          BY <3>1, <4>1, <5>1 DEF Fresh, begin_adr, limit_adr
      <4>4. Fresh(t, c)'
        <5>1. thread_pc'[t] = "idle" \/ con'[t] # c
          BY <2>1, <3>3, OwnStep
        <5>2. QED
          BY <5>1 DEF Fresh
      <4>5. QED
        BY <4>2, <4>3, <4>4
    <3>4. QED
      BY <3>2, <3>3
  <2>6. QED
    BY <1>1, <2>4, <2>5 DEF Cursors, Consoles, Threads
<1>3. CASE \/ \E t \in Threads, c \in Consoles, x \in Chars : OutChar(t, c, x)
           \/ ScrollKey \/ \E c \in Consoles : switch_console(c)
  <2>1. PICK t \in Threads, d \in Consoles : CallBegins(t, d)
    BY <1>3, CallStep
  <2>2. cursor_location' = cursor_location /\ wrote' = {} /\ reg' = reg
    BY <2>1 DEF CallBegins
  <2>3. ASSUME NEW c \in Consoles, ~Shared(c)
        PROVE  CursorKept(c)' /\ \A u \in Threads : Fresh(u, c)'
    <3>1. CursorKept(c) /\ \A u \in Threads : Fresh(u, c)
      BY <2>3 DEF Cursors
    <3>2. CursorKept(c)'
      BY <2>2, <3>1 DEF CursorKept, begin_adr, limit_adr
    <3>3. Fresh(t, c)'
      BY <2>1, <2>2 DEF CallBegins, Fresh
    <3>4. ASSUME NEW u \in Threads, u # t PROVE Fresh(u, c)'
      BY <2>1, <2>2, <3>1, <3>4 DEF CallBegins, Fresh, begin_adr, limit_adr
    <3>5. QED
      BY <3>2, <3>3, <3>4
  <2>4. Written'
    BY <2>2 DEF Written
  <2>5. QED
    BY <1>1, <2>3, <2>4 DEF Cursors, Consoles, Threads
<1>4. QED
  BY <1>2, <1>3 DEF ConsoleNext

\* Two threads scroll one console at a time only if it is the first one, shared or scrolled
\* by hand.
LEMMA OneMover ==
    ASSUME ConsoleTypes, Placed, NEW t \in Threads, NEW u \in Threads, u # t, con[t] = con[u],
           thread_pc[t] \in Scrolling, thread_pc[u] \in Scrolling
    PROVE  Shared(con[t]) \/ ByHand(con[t])
BY DEF Placed, Scrolling, Shared, ByHand

\* A thread that scrolls a console alone keeps the window in it, unless it is the first one
\* and scrolled by hand: of any other, a line above its first cell is a number below it.
LEMMA MoverStep ==
    ASSUME ConsoleTypes, Placed, NEW t \in Threads, Step(t),
           ~ByHand(con[t]), WindowKept(con[t]), Ready(t, con[t])
    PROVE  /\ current_start_addr'[con[t]] \in begin_adr(con[t]) .. limit_adr(con[t])
           /\ con'[t] = con[t] => Ready(t, con[t])'
<1> DEFINE c == con[t]
<1> DEFINE a == current_start_addr[c]
<1> DEFINE first == begin_adr(c)
<1> DEFINE limit == limit_adr(c)
<1>1. c \in Consoles /\ con[t] = c /\ a = current_start_addr[c]
  BY DEF ConsoleTypes, ConsoleTypeOK
<1>2. /\ first \in Nat /\ limit = first + vmem_limit /\ limit + SCREEN_WIDETH < Word
      /\ vmem_limit \in Nat /\ SCREEN_WIDETH \in Nat /\ SCREEN_WIDETH < vmem_limit /\ Word \in Nat
      /\ c # 0 => first >= vmem_limit
  <2>1. /\ vmem_limit \in Nat /\ SCREEN_WIDETH \in Nat /\ SCREEN_WIDETH < vmem_limit
        /\ RegWord <= Word /\ RegWord \in Nat /\ Word \in Nat
    BY ConsoleAssumption
  <2>2. QED
    BY <1>1, <2>1, Addresses
<1>3. a \in first .. limit /\ a \in Int
  BY <1>2 DEF WindowKept
<1>4. /\ thread_pc[t] \in {"move", "moved"} => MayScroll(t, c)
      /\ thread_pc[t] = "moved" => reg[t] = a
  BY DEF Ready
<1>5. /\ DOMAIN thread_pc = Threads /\ DOMAIN reg = Threads
      /\ DOMAIN current_start_addr = Consoles
  BY DEF ConsoleTypes, ConsoleTypeOK
<1>6. \/ thread_pc'[t] \notin {"move", "moved"} /\ current_start_addr' = current_start_addr
      \/ scroll_screen(t) \/ Move(t) \/ Moved(t)
  <2> USE <1>5 DEF At, Goto, Jump, Load, Idle
  <2>1. CASE NewLineTest(t) \/ BackTest(t) \/ PutTest(t)
    BY <2>1 DEF NewLineTest, BackTest, PutTest
  <2>2. CASE NewLine(t) \/ Back(t) \/ Put(t)
    BY <2>2 DEF NewLine, Back, Put
  <2>3. CASE NextLine(t) \/ Dec(t) \/ Inc(t)
    BY <2>3 DEF NextLine, Dec, Inc
  <2>4. CASE Wrap(t) \/ PutTop(t) \/ Loop(t) \/ Window(t)
    BY <2>4 DEF Wrap, PutTop, Loop, Window
  <2>5. CASE set_console_start_addr(t) \/ set_cursor(t)
    BY <2>5 DEF set_console_start_addr, set_cursor
  <2>6. QED
    BY <2>1, <2>2, <2>3, <2>4, <2>5 DEF Step
<1> HIDE DEF c, a, first, limit
<1>7. CASE thread_pc'[t] \notin {"move", "moved"} /\ current_start_addr' = current_start_addr
  BY <1>1, <1>3, <1>7 DEF Ready, c, first, limit
<1>8. CASE scroll_screen(t)
  <2>1. /\ current_start_addr' = current_start_addr /\ ch' = ch /\ con' = con
        /\ thread_pc'[t] = (IF MayScroll(t, c) THEN "move" ELSE "show")
    BY <1>1, <1>5, <1>8 DEF scroll_screen, Goto, Jump
  <2>2. MayScroll(t, c)' <=> MayScroll(t, c)
    BY <1>1, <2>1 DEF MayScroll, Scrolled, begin_adr, limit_adr, c
  <2>3. Ready(t, c)'
    BY <2>1, <2>2 DEF Ready
  <2>4. QED
    BY <1>1, <1>3, <2>1, <2>3 DEF c, first, limit
<1>9. CASE Move(t)
  <2>1. /\ current_start_addr' = current_start_addr /\ ch' = ch /\ con' = con
        /\ thread_pc[t] = "move" /\ reg'[t] = a
    BY <1>1, <1>5, <1>9 DEF Move, Load, At
  <2>2. MayScroll(t, c)' <=> MayScroll(t, c)
    BY <1>1, <2>1 DEF MayScroll, Scrolled, begin_adr, limit_adr, c
  <2>3. Ready(t, c)'
    BY <1>1, <1>4, <2>1, <2>2 DEF Ready, c
  <2>4. QED
    BY <1>1, <1>3, <2>1, <2>3 DEF c, first, limit
<1>10. CASE Moved(t)
  <2>1. /\ thread_pc[t] = "moved" /\ thread_pc'[t] = "show"
        /\ current_start_addr'[c] = Scrolled(t, reg[t])
    BY <1>1, <1>5, <1>10 DEF Moved, Goto, Jump, At
  <2>2. reg[t] = a /\ MayScroll(t, c)
    BY <1>4, <2>1
  <2>3. Scrolled(t, a) \in first .. limit
    <3>1. CASE ch[t] = "up"
      <4>1. c # 0
        BY <1>1, <2>1, <3>1 DEF Placed, ByHand, Chars
      <4>2. Scrolled(t, a) = a - SCREEN_WIDETH
        <5>1. a - SCREEN_WIDETH \in Nat /\ a - SCREEN_WIDETH < Word
          BY ONLY <1>2, <1>3, <4>1
        <5>2. Sub(a, SCREEN_WIDETH) = a - SCREEN_WIDETH
          BY ONLY <1>2, <1>3, <5>1, Subtraction
        <5>3. QED
          BY <3>1, <5>2 DEF Scrolled
      <4>3. Scrolled(t, a) >= first
        BY <1>1, <2>2, <3>1 DEF MayScroll, first
      <4>4. QED
        BY ONLY <1>2, <1>3, <4>2, <4>3
    <3>2. CASE ch[t] # "up"
      <4>1. Scrolled(t, a) = a + SCREEN_WIDETH
        <5>1. Add(a, SCREEN_WIDETH) = a + SCREEN_WIDETH
          BY ONLY <1>2, <1>3, Addition
        <5>2. QED
          BY <3>2, <5>1 DEF Scrolled
      <4>2. Scrolled(t, a) <= limit
        BY <1>1, <2>2, <3>2 DEF MayScroll, limit
      <4>3. QED
        BY ONLY <1>2, <1>3, <4>1, <4>2
    <3>3. QED
      BY <3>1, <3>2
  <2>4. QED
    BY <1>1, <2>1, <2>2, <2>3 DEF Ready, c, first, limit
<1>11. QED
  BY <1>6, <1>7, <1>8, <1>9, <1>10

\* Each step leaves the windows, and what the threads know of them, as they should be.
LEMMA WindowsKept == ASSUME ConsoleTypes, ConsoleTypes', Placed, Windows, ConsoleNext PROVE Windows'
<1>1. /\ setting' = setting
      /\ \A c \in Consoles : (Shared(c)' <=> Shared(c)) /\ (ByHand(c)' <=> ByHand(c))
  BY DEF ConsoleNext, Shared, ByHand
<1>2. SUFFICES ASSUME NEW c \in Consoles, ~Shared(c), ~ByHand(c)
               PROVE  WindowKept(c)' /\ \A u \in Threads : Ready(u, c)'
  BY <1>1 DEF Windows, Consoles, Threads
<1>3. WindowKept(c) /\ \A u \in Threads : Ready(u, c)
  BY <1>2 DEF Windows
<1>4. CASE \E t \in Threads : Step(t)
  <2>1. PICK t \in Threads : Step(t)
    BY <1>4
  <2>2. ASSUME NEW u \in Threads, u # t, current_start_addr'[c] = current_start_addr[c]
        PROVE  Ready(u, c)'
    <3>1. /\ thread_pc'[u] = thread_pc[u] /\ con'[u] = con[u] /\ ch'[u] = ch[u] /\ reg'[u] = reg[u]
      BY <2>1, <2>2, OwnStep
    <3>2. MayScroll(u, c)' <=> MayScroll(u, c)
      BY <2>2, <3>1 DEF MayScroll, Scrolled, begin_adr, limit_adr
    <3>3. QED
      BY <1>3, <2>2, <3>1, <3>2 DEF Ready
  <2>3. CASE c = con[t]
    <3>1. WindowKept(c)'
      BY <1>2, <1>3, <2>1, <2>3, MoverStep DEF WindowKept, begin_adr, limit_adr
    <3>2. Ready(t, c)'
      <4>1. CASE thread_pc'[t] = "idle"
        BY <4>1 DEF Ready
      <4>2. CASE con'[t] = con[t]
        BY <1>2, <1>3, <2>1, <2>3, <4>2, MoverStep DEF Ready
      <4>3. QED
        BY <2>1, <4>1, <4>2, OwnStep
    <3>3. ASSUME NEW u \in Threads, u # t PROVE Ready(u, c)'
      <4>1. CASE current_start_addr' = current_start_addr
        BY <2>2, <3>3, <4>1
      <4>2. CASE thread_pc[t] = "moved"
        <5>1. con[u] # c \/ thread_pc[u] \notin Scrolling
          BY <1>2, <2>3, <3>3, <4>2, OneMover DEF Scrolling
        <5>2. thread_pc'[u] = thread_pc[u] /\ con'[u] = con[u]
          BY <2>1, <3>3, OwnStep
        <5>3. QED
          BY <5>1, <5>2 DEF Ready, Scrolling
      <4>3. QED
        BY <2>1, <4>1, <4>2, OwnStep
    <3>4. QED
      BY <3>1, <3>2, <3>3
  <2>4. CASE c # con[t]
    <3>1. current_start_addr'[c] = current_start_addr[c]
      BY <2>1, <2>4, OwnStep
    <3>2. WindowKept(c)'
      BY <1>3, <3>1 DEF WindowKept, begin_adr, limit_adr
    <3>3. Ready(t, c)'
      <4>1. thread_pc'[t] = "idle" \/ con'[t] # c
        BY <2>1, <2>4, OwnStep
      <4>2. QED
        BY <4>1 DEF Ready
    <3>4. QED
      BY <2>2, <3>1, <3>2, <3>3
  <2>5. QED
    BY <2>3, <2>4
<1>5. CASE \/ \E t \in Threads, d \in Consoles, x \in Chars : OutChar(t, d, x)
           \/ ScrollKey \/ \E d \in Consoles : switch_console(d)
  <2>1. PICK t \in Threads, d \in Consoles : CallBegins(t, d)
    BY <1>5, CallStep
  <2>2. current_start_addr' = current_start_addr /\ reg' = reg
    BY <2>1 DEF CallBegins
  <2>3. WindowKept(c)'
    BY <1>3, <2>2 DEF WindowKept, begin_adr, limit_adr
  <2>4. Ready(t, c)'
    BY <2>1 DEF CallBegins, Ready
  <2>5. ASSUME NEW u \in Threads, u # t PROVE Ready(u, c)'
    <3>1. /\ thread_pc'[u] = thread_pc[u] /\ con'[u] = con[u] /\ ch'[u] = ch[u] /\ reg'[u] = reg[u]
      BY <2>1, <2>2, <2>5 DEF CallBegins
    <3>2. MayScroll(u, c)' <=> MayScroll(u, c)
      BY <2>2, <3>1 DEF MayScroll, Scrolled, begin_adr, limit_adr
    <3>3. QED
      BY <1>3, <2>2, <2>5, <3>1, <3>2 DEF Ready
  <2>6. QED
    BY <2>3, <2>4, <2>5
<1>6. QED
  BY <1>4, <1>5 DEF ConsoleNext

(***************************************************************************)
(* The theorems                                                            *)
(***************************************************************************)

\* Every step keeps the invariant.
LEMMA NextInv == IInv /\ [ConsoleNext]_consoleVars => IInv'
<1>1. CASE ConsoleNext
  BY <1>1, TypesKept, PlacedKept, DisplayKept, CursorsKept, WindowsKept DEF IInv
<1>2. CASE UNCHANGED consoleVars
  <2>1. /\ UNCHANGED <<setting, cursor_location, current_start_addr, current_tty, crtc_start, crtc_cursor>>
        /\ UNCHANGED <<thread_pc, con, ch, vmem_p, reg, wrote>>
    BY <1>2 DEF consoleVars, crtc, threads
  <2>2. ConsoleTypes' = ConsoleTypes /\ Placed' = Placed /\ Display' = Display
    BY <2>1 DEF ConsoleTypes, ConsoleTypeOK, Placed, Display
  <2>3. Cursors' = Cursors
    BY <2>1 DEF Cursors, Written, CursorKept, Fresh, Shared, begin_adr, limit_adr
  <2>4. Windows' = Windows
    BY <2>1 DEF Windows, WindowKept, Ready, MayScroll, Scrolled, Shared, ByHand, begin_adr, limit_adr
  <2>5. QED
    BY <2>2, <2>3, <2>4 DEF IInv
<1>3. QED
  BY <1>1, <1>2

\* The invariant of the consoles, whoever uses them: what a thread in out_char or
\* scroll_screen has read of a console that only it works on is still so, and the display
\* lags behind only during a call.
THEOREM ConsoleInvariant == ConsoleSpec => []IInv
BY InitInv, NextInv, PTL DEF ConsoleSpec

\* A console that TTY and printx do not both write to keeps its cursor and its characters in
\* its part of the video memory, and its window too if it is not the first one and scrolled
\* by hand, whatever happens to the others; all consoles but the first are such consoles.
THEOREM EachConsoleKept ==
    /\ ConsoleSpec => [](\A c \in Consoles : ~Shared(c) =>
           /\ CursorKept(c)
           /\ \A w \in wrote : w[1] = c => w[2] \in begin_adr(c) .. limit_adr(c) - 1
           /\ ~ByHand(c) => WindowKept(c))
    /\ [](\A c \in Consoles \ {0} : ~Shared(c) /\ ~ByHand(c))
<1>1. IInv => \A c \in Consoles : ~Shared(c) =>
           /\ CursorKept(c)
           /\ \A w \in wrote : w[1] = c => w[2] \in begin_adr(c) .. limit_adr(c) - 1
           /\ ~ByHand(c) => WindowKept(c)
  BY DEF IInv, Cursors, Windows, Written
<1>2. \A c \in Consoles \ {0} : ~Shared(c) /\ ~ByHand(c)
  BY DEF Shared, ByHand
<1>3. QED
  BY <1>1, <1>2, ConsoleInvariant, PTL

\* No console ever writes outside its part of the video memory, and no window begins outside
\* it but that of the first console when it is scrolled by hand, if printx and TTY do not
\* both write to the first console.
THEOREM ConsolesStayInside == ConsoleSpec /\ ~Shared(0) => []ConsolesInside
<1>1. ~Shared(0) /\ [ConsoleNext]_consoleVars => ~Shared(0)'
  BY DEF ConsoleNext, consoleVars, Shared
<1>2. ASSUME IInv, ~Shared(0) PROVE ConsolesInside
  <2>1. \A c \in Consoles : ~Shared(c)
    BY <1>2 DEF Shared
  <2>2. ConsoleTypeOK
    BY <1>2 DEF IInv, ConsoleTypes
  <2>3. \A w \in wrote : w[1] \in Consoles
    BY <2>2 DEF ConsoleTypeOK
  <2>4. WritesInside
    BY <1>2, <2>1, <2>3 DEF WritesInside, IInv, Cursors, Written, CursorKept
  <2>5. ASSUME NEW c \in Consoles, ~ByHand(c)
        PROVE  current_start_addr[c] \in
                   begin_adr(c) .. limit_adr(c) + IF Shared(c) THEN SCREEN_WIDETH ELSE 0
    <3>1. current_start_addr[c] \in begin_adr(c) .. limit_adr(c)
      BY <1>2, <2>1, <2>5 DEF IInv, Windows, WindowKept
    <3>2. limit_adr(c) + 0 = limit_adr(c)
      BY Addresses, ConsoleAssumption
    <3>3. QED
      BY <2>1, <3>1, <3>2
  <2>6. QED
    BY <2>2, <2>4, <2>5 DEF ConsolesInside, WindowInside
<1>3. QED
  BY <1>1, <1>2, ConsoleInvariant, PTL DEF ConsoleSpec

\* Between two calls the display shows the window and the cursor of the console that
\* current_tty says is shown, as long as only that console is written to, wherever it was
\* scrolled.
THEOREM DisplayShowsCurrent == ConsoleSpec => []ShownIsCurrent
<1>1. IInv => ShownIsCurrent
  BY DEF IInv, Display, ShownIsCurrent, Threads
<1>2. QED
  BY <1>1, ConsoleInvariant, PTL
================================================================================
