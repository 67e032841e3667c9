-------------------------------- MODULE Keyboard --------------------------------
(***************************************************************************)
(* The keyboard driver (kernel/keyboard.c): the interrupt handler puts     *)
(* scan codes into the ring kb_in, and TTY takes them out one by one,      *)
(* finds the key, keeps the state of the modifiers and of the locks, and   *)
(* passes the key on.  The keyboard itself is modelled from how the code   *)
(* uses it: a key sends the bytes of its scan code in order, the rest of a *)
(* scan code always follows its first byte, and a command is answered by   *)
(* KB_ACK between two scan codes, through the same port and interrupt.     *)
(*                                                                         *)
(* A key is a string; the key map keeps the rows that differ in kind.      *)
(***************************************************************************)
EXTENDS Naturals, Sequences, FiniteSets, TLC

CONSTANTS
    Sessions,       \* the keys that are used and, a bound, how often something is
                    \* pressed, repeated or released
    KB_IN_BYTES     \* size of the ring

(***************************************************************************)
(* Scan codes                                                              *)
(***************************************************************************)
E0 == 224
E1 == 225
KB_ACK == 250
FLAG_BREAK == 128

\* Rows of keymap, one of each kind: without and with shift, and after E0.
Rows == (30 :> <<"a", "A", "0">>) @@ (42 :> <<"SHIFT_L", "SHIFT_L", "0">>)
     @@ (54 :> <<"SHIFT_R", "SHIFT_R", "0">>) @@ (29 :> <<"CTRL_L", "CTRL_L", "CTRL_R">>)
     @@ (56 :> <<"ALT_L", "ALT_L", "ALT_R">>) @@ (58 :> <<"CAPS_LOCK", "CAPS_LOCK", "0">>)
     @@ (69 :> <<"NUM_LOCK", "NUM_LOCK", "0">>)
     @@ (70 :> <<"SCROLL_LOCK", "SCROLL_LOCK", "0">>) @@ (55 :> <<"*", "*", "0">>)
     @@ (72 :> <<"PAD_UP", "8", "UP">>)

keymap(code) == IF code \in DOMAIN Rows THEN Rows[code] ELSE <<"0", "0", "0">>

Mods == {"SHIFT_L", "SHIFT_R", "CTRL_L", "CTRL_R", "ALT_L", "ALT_R"}
Locks == {"CAPS_LOCK", "NUM_LOCK", "SCROLL_LOCK"}
Shifts == {"SHIFT_L", "SHIFT_R"}

PauseCode == <<E1, 29, 69, E1, 157, 197>>

\* What the keyboard sends for a key of one byte, and for one behind E0.
OneByte(c) == [make |-> <<c>>, brk |-> <<c + FLAG_BREAK>>]
TwoByte(c) == [make |-> <<E0, c>>, brk |-> <<E0, c + FLAG_BREAK>>]

\* The keys of an MF-2 keyboard, by the names of keyboard.h.
Sends == [a |-> OneByte(30), SHIFT_L |-> OneByte(42), SHIFT_R |-> OneByte(54),
          CTRL_L |-> OneByte(29), CTRL_R |-> TwoByte(29), ALT_L |-> OneByte(56),
          ALT_R |-> TwoByte(56), CAPS_LOCK |-> OneByte(58), NUM_LOCK |-> OneByte(69),
          SCROLL_LOCK |-> OneByte(70), PAD_UP |-> OneByte(72), UP |-> TwoByte(72),
          PRINTSCREEN |-> [make |-> <<E0, 42, E0, 55>>, brk |-> <<E0, 183, E0, 170>>],
          PAUSEBREAK |-> [make |-> PauseCode, brk |-> << >>]]

ASSUME KeyboardAssumption ==
    /\ KB_IN_BYTES \in Nat \ {0}
    /\ \A x \in Sessions : x.keys \subseteq DOMAIN Sends /\ x.maxEvents \in Nat

VARIABLES
    buf, p_head, p_tail, count,  \* kb_in
    int_on,         \* whether interrupts are enabled
    pc, want,       \* where TTY is, and which byte of a scan code it reads next
    taken,          \* the value of count that get_byte_from_kbuf decrements
    key,            \* keyboard_read's key, as far as it is compared: it is not initialized
    code_with_E0,
    mods, locks,    \* the modifiers taken to be down, the locks taken to be on
    \* the keyboard
    sending,        \* bytes of the current scan code still to be sent
    held,           \* keys that are down
    leds, dev,      \* the locks it shows, and the command it is busy with
    acked,          \* whether its port shows KB_ACK
    \* what was typed
    session,        \* the keys used, chosen at the start
    events,         \* how often something was pressed or released
    toggled,        \* the locks that are on by what was typed
    due,            \* keys typed and not passed on yet
    astray,         \* whether a key other than the next one due was passed on
    lost            \* whether the ring was too full for a byte of a scan code

ring == <<buf, p_head, p_tail, count, int_on>>
reader == <<pc, want, taken, key, code_with_E0, mods, locks>>
device == <<sending, held, leds, dev>>
typing == <<session, events, toggled>>
vars == <<ring, reader, device, acked, typing, due, astray, lost>>

Slots == 0 .. KB_IN_BYTES - 1

\* init_keyboard, the command for the LEDs having been answered.
Init ==
    /\ buf = [i \in Slots |-> 0] /\ p_head = 0 /\ p_tail = 0 /\ count = 0
    /\ int_on = TRUE
    /\ pc = "idle" /\ want = <<"first", 1>> /\ taken = 0 /\ key = "0"
    /\ code_with_E0 = FALSE
    /\ mods = {} /\ locks = {"CAPS_LOCK"}
    /\ sending = << >> /\ held = {} /\ leds = {"CAPS_LOCK"} /\ dev = "scan"
    /\ acked = TRUE
    /\ session \in Sessions /\ events = 0 /\ toggled = {"CAPS_LOCK"}
    /\ due = << >> /\ astray = FALSE /\ lost = FALSE

(***************************************************************************)
(* The keyboard and its interrupt                                          *)
(***************************************************************************)
\* Both pointers go around at the end of the buffer.
Advance(p) == IF p + 1 = KB_IN_BYTES THEN 0 ELSE p + 1

keyboard_handler(b) ==
    /\ int_on
    /\ acked' = (b = KB_ACK)
    /\ IF count < KB_IN_BYTES
       THEN /\ buf' = [buf EXCEPT ![p_head] = b]
            /\ p_head' = Advance(p_head)
            /\ count' = count + 1
            /\ UNCHANGED lost
       ELSE /\ lost' = (lost \/ b # KB_ACK)
            /\ UNCHANGED <<buf, p_head, count>>
    /\ UNCHANGED <<p_tail, int_on, reader>>

\* What a key is to bring about, by keyboard.h and the heads of keymap's columns.
Meant(k) ==
    LET shift == held \cap Shifts # {}
    IN  CASE k = "a" -> IF shift # ("CAPS_LOCK" \in toggled) THEN "A" ELSE "a"
          [] k = "PAD_UP" -> IF shift \/ "NUM_LOCK" \in toggled THEN "8" ELSE "UP"
          [] k = "UP" -> "UP"

Toggle(S, x) == IF x \in S THEN S \ {x} ELSE S \cup {x}

KeyEvent ==
    /\ dev = "scan" /\ sending = << >>
    /\ events < session.maxEvents /\ events' = events + 1 /\ UNCHANGED session

\* A key goes down, or is held and repeats.
Press(k) ==
    /\ KeyEvent
    /\ sending' = Sends[k].make
    /\ held' = held \cup {k}
    /\ toggled' = IF k \in Locks THEN Toggle(toggled, k) ELSE toggled
    /\ due' = IF k \in {"a", "PAD_UP", "UP"}
              THEN Append(due, [key |-> Meant(k), mods |-> held \cap Mods]) ELSE due
    /\ UNCHANGED <<ring, reader, leds, dev, acked, astray, lost>>

Release(k) ==
    /\ KeyEvent /\ k \in held
    /\ sending' = Sends[k].brk
    /\ held' = held \ {k}
    /\ UNCHANGED <<ring, reader, leds, dev, acked, toggled, due, astray, lost>>

SendByte ==
    /\ sending # << >>
    /\ keyboard_handler(Head(sending))
    /\ sending' = Tail(sending)
    /\ UNCHANGED <<held, leds, dev, typing, due, astray>>

\* The answer to the command for the LEDs, and to the byte that follows it.
Answer ==
    /\ sending = << >> /\ dev \in {"command", "argument"}
    /\ keyboard_handler(KB_ACK)
    /\ dev' = IF dev = "command" THEN "waits" ELSE "scan"
    /\ UNCHANGED <<sending, held, leds, typing, due, astray>>

(***************************************************************************)
(* keyboard_read                                                           *)
(***************************************************************************)

\* tty_read, and the start of keyboard_read: key is what the stack holds, which
\* may be what the previous call has left there.
Start ==
    /\ pc = "idle" /\ count > 0
    /\ pc' = "get" /\ want' = <<"first", 1>>
    /\ key' \in {key, "0"}
    /\ UNCHANGED <<ring, taken, code_with_E0, mods, locks, device, acked, typing, due, astray, lost>>

\* Wrong: interrupts stay enabled.
TakeByte_IntOn ==
    /\ pc = "get" /\ count > 0
    /\ pc' = "pop" /\ taken' = count
    /\ UNCHANGED <<ring, want, key, code_with_E0, mods, locks, device, acked, typing, due, astray, lost>>

\* get_byte_from_kbuf: it spins until there is a byte, and then decrements count,
\* which takes a load and a store, with interrupts disabled.
TakeByte ==
    /\ pc = "get" /\ count > 0
    /\ int_on' = FALSE
    /\ pc' = "pop" /\ taken' = count
    /\ UNCHANGED <<buf, p_head, p_tail, count, want, key, code_with_E0, mods, locks, device,
                   acked, typing, due, astray, lost>>

More(w, i) ==
    /\ want' = <<w, i>> /\ pc' = "get"
    /\ UNCHANGED <<key, code_with_E0, mods, locks, due, astray>>

\* A whole scan code of a key that keyboard_read does nothing for.
Found(k) ==
    /\ key' = k /\ pc' = "idle"
    /\ UNCHANGED <<want, code_with_E0, mods, locks, due, astray>>

\* The num pad: its characters, and what it does without num lock.
Pad(k) ==
    IF k # "PAD_UP" THEN k ELSE IF "NUM_LOCK" \in locks THEN "8" ELSE "UP"

\* in_process gets a key that is of use to the terminal.  Key 0 reaches the terminal
\* too, which drops it.
in_process(k, m) ==
    IF k \in {"0"} \cup Locks THEN UNCHANGED <<due, astray>>
    ELSE /\ astray' = (astray \/ due = << >> \/ Head(due) # [key |-> k, mods |-> m])
         /\ due' = IF due = << >> THEN due ELSE Tail(due)

\* The column of keymap, and code_with_E0 afterwards.
Column(code, e0) ==
    LET shift == mods \cap Shifts # {}
        letter == keymap(code)[1] = "a"
        caps == IF letter /\ "CAPS_LOCK" \in locks THEN ~shift ELSE shift
    IN  [col |-> IF e0 THEN 3 ELSE IF caps THEN 2 ELSE 1, e0 |-> FALSE]

\* The part for normal keys.  After it key is neither of the two it is compared with.
Normal(scan_code, e0) ==
    LET make == scan_code < FLAG_BREAK
        c == Column(scan_code % FLAG_BREAK, e0)
        k == keymap(scan_code % FLAG_BREAK)[c.col]
    IN  /\ code_with_E0' = c.e0
        /\ key' = "0"
        /\ mods' = IF k \notin Mods THEN mods ELSE IF make THEN mods \cup {k} ELSE mods \ {k}
        /\ locks' = IF k \in Locks /\ make THEN Toggle(locks, k) ELSE locks
        /\ pc' = IF k \in Locks /\ make THEN "led_command" ELSE "idle"
        /\ IF make THEN in_process(IF k \in Mods THEN "0" ELSE Pad(k), mods')
           ELSE UNCHANGED <<due, astray>>
        /\ UNCHANGED want

\* The scan code is read; whether it is decoded depends on key.
Decode(scan_code, e0) ==
    \/ /\ key = "0"
       /\ Normal(scan_code, e0)
    \/ /\ key # "0"
       /\ code_with_E0' = e0
       /\ pc' = "idle"
       /\ UNCHANGED <<want, key, mods, locks, due, astray>>

\* Wrong: every code behind E0 is taken to have four bytes.
ReadByte_Four(b) ==
    \/ /\ want[1] = "first" /\ b = E0
       /\ More("E0", 2)
    \/ /\ want[1] = "first" /\ b # E0
       /\ Decode(b, code_with_E0)
    \/ /\ want[1] = "E0" /\ want[2] < 4
       /\ More("E0", want[2] + 1)
    \/ /\ want[1] = "E0" /\ want[2] = 4
       /\ Decode(b, TRUE)

\* What keyboard_read does with the next byte of a scan code.
ReadByte(b) ==
    \/ /\ want[1] = "first" /\ b = E1
       /\ More("pause", 2)
    \/ /\ want[1] = "first" /\ b = E0
       /\ More("E0", 2)
    \/ /\ want[1] = "first" /\ b \notin {E0, E1}
       /\ Decode(b, code_with_E0)
    \/ /\ want[1] = "pause" /\ b = PauseCode[want[2]]
       /\ IF want[2] < 6 THEN More("pause", want[2] + 1) ELSE Found("PAUSEBREAK")
    \/ /\ want[1] = "pause" /\ b # PauseCode[want[2]]
       /\ Decode(E1, code_with_E0)
    \/ /\ want[1] = "E0" /\ b \in {42, 183}
       /\ More(IF b = 42 THEN "pressed" ELSE "released", 3)
    \/ /\ want[1] = "E0" /\ b \notin {42, 183}
       /\ Decode(b, TRUE)
    \/ /\ want[1] \in {"pressed", "released"}
       /\ LET code == IF want[1] = "pressed" THEN <<E0, 42, E0, 55>> ELSE <<E0, 183, E0, 170>>
          IN  IF b # code[want[2]] THEN Decode(code[2], code_with_E0)
              ELSE IF want[2] = 3 THEN More(want[1], 4) ELSE Found("PRINTSCREEN")

PopByte ==
    /\ pc = "pop"
    /\ p_tail' = Advance(p_tail)
    /\ count' = taken - 1
    /\ int_on' = TRUE
    /\ ReadByte(buf[p_tail])
    /\ UNCHANGED <<buf, p_head, taken, device, acked, typing, lost>>

(***************************************************************************)
(* set_leds, with interrupts enabled: kb_wait waits until the keyboard has *)
(* dealt with the last byte, kb_ack until its port shows KB_ACK.           *)
(***************************************************************************)
LedStep(from, to) ==
    /\ pc = from /\ pc' = to
    /\ UNCHANGED <<ring, want, taken, key, code_with_E0, mods, locks, sending, held, acked,
                   typing, due, astray, lost>>

LedCommand ==
    /\ LedStep("led_command", "ack_command")
    /\ dev = "scan" /\ dev' = "command"
    /\ UNCHANGED leds

\* Wrong: the LEDs are those of before.
LedArgument_Old ==
    /\ LedStep("led_argument", "ack_argument")
    /\ dev = "waits" /\ dev' = "argument"
    /\ UNCHANGED leds

LedArgument ==
    /\ LedStep("led_argument", "ack_argument")
    /\ dev = "waits" /\ dev' = "argument"
    /\ leds' = locks

kb_ack ==
    /\ \/ LedStep("ack_command", "led_argument")
       \/ LedStep("ack_argument", "idle")
    /\ acked
    /\ UNCHANGED <<leds, dev>>

Read == Start \/ TakeByte \/ PopByte \/ LedCommand \/ LedArgument \/ kb_ack

Next ==
    \/ SendByte \/ Answer
    \/ \E k \in session.keys : Press(k) \/ Release(k)
    \/ Read

Spec == Init /\ [][Next]_vars

(***************************************************************************)
(* Properties                                                              *)
(***************************************************************************)

\* The values of all variables.
KeyboardTypeOK ==
    /\ buf \in [Slots -> 0 .. 255] /\ {p_head, p_tail} \subseteq Slots
    /\ count \in 0 .. KB_IN_BYTES /\ taken \in 0 .. KB_IN_BYTES
    /\ pc \in {"idle", "get", "pop", "led_command", "ack_command", "led_argument", "ack_argument"}
    /\ want \in {"first", "E0", "pause", "pressed", "released"} \X (1 .. 6)
    /\ key \in {"0", "PAUSEBREAK", "PRINTSCREEN"}
    /\ dev \in {"scan", "command", "waits", "argument"}
    /\ mods \subseteq Mods /\ {locks, leds, toggled} \subseteq SUBSET Locks
    /\ held \subseteq session.keys
    /\ {int_on, code_with_E0, acked, astray, lost} \subseteq BOOLEAN

\* The pointers and the count of kb_in, changed by the handler and by
\* get_byte_from_kbuf, make a bounded queue: bytes come out in the order they came
\* in, none twice, and none is lost but the newest when the ring is full.
Queue == INSTANCE ByteQueue WITH
    Bytes <- 0 .. 255, Size <- KB_IN_BYTES,
    q <- [i \in 1 .. count |-> buf[(p_tail + i - 1) % KB_IN_BYTES]]
RingIsQueue == Queue!Spec

\* Everything that was typed has been read.
Quiet == pc = "idle" /\ count = 0 /\ sending = << >> /\ dev = "scan"

\* Behind print screen and pause keyboard_read drops keys, for it compares key
\* before it assigns it: the two are left out of what follows.
Ordinary == session.keys \cap {"PRINTSCREEN", "PAUSEBREAK"} = {}

\* When all is read and the ring never overflowed, the modifiers are those that are
\* held down, the locks those typed, and the LEDs show the locks.
ModsAgree ==
    Ordinary /\ Quiet /\ ~lost => mods = held \cap Mods /\ locks = toggled /\ leds = locks

\* As long as the ring does not overflow, the keys are passed on in the order in
\* which they were typed, each with the character and the modifiers that it had
\* when it was pressed, and none is left out.
KeysAsTyped == Ordinary /\ ~lost => ~astray /\ (Quiet => due = << >>)

\* As long as the ring does not overflow, keyboard_read waits for another byte only
\* in the middle of a scan code the keyboard is still sending: TTY would spin in
\* get_byte_from_kbuf for ever.
NoVainWait == pc = "get" /\ count = 0 /\ ~lost => sending # << >>

\* What keyboard_read makes of the bytes, key for key and at rest.
ReadAsTyped == KeyboardTypeOK /\ ModsAgree /\ KeysAsTyped
================================================================================
