-------------------------------- MODULE Console --------------------------------
(***************************************************************************)
(* The consoles (kernel/console.c): parts of the video memory, each with a *)
(* cursor and a window, and the registers of the display.  TTY puts        *)
(* characters on them, scrolls and switches them; the kernel puts those of *)
(* printx on console 0 (kernel/tty.c).  TTY can be preempted between any   *)
(* two accesses to a console, the kernel cannot.                           *)
(*                                                                         *)
(* Addresses are cells of the video memory and unsigned: they are computed *)
(* modulo Word.  What the cells contain is left out.                       *)
(*                                                                         *)
(* Definitions whose comment starts with "Wrong:" are not part of the      *)
(* model: they are mistakes that the properties would notice.              *)
(***************************************************************************)
EXTENDS Integers

CONSTANTS
    NR_CONSOLE, vmem_limit, SCREEN_WIDETH, SCREEN_SIZE,
    Word, RegWord,   \* 2^32 and 2^16: unsigned, and an address in the registers
    BootCursor,      \* cells the boot messages have taken on console 0
    Settings         \* who uses the consoles, see setting

Consoles == 0 .. NR_CONSOLE - 1
Threads == {"tty", "printx"}
Chars == {"newline", "backspace", "char"}
Labels == {"idle", "switch", "line", "next", "back", "dec", "put", "inc", "wrap", "top", "loop",
           "window", "scroll", "move", "moved", "show", "cursor"}

ASSUME ConsoleAssumption ==
    /\ {NR_CONSOLE, vmem_limit, SCREEN_WIDETH, SCREEN_SIZE, Word, RegWord} \subseteq Nat \ {0}
    /\ SCREEN_WIDETH < SCREEN_SIZE /\ SCREEN_SIZE < vmem_limit
    /\ (NR_CONSOLE + 1) * vmem_limit < RegWord /\ RegWord <= Word
    /\ BootCursor \in 0 .. vmem_limit
    /\ Settings \subseteq [used : SUBSET Consoles, scrolled : SUBSET Consoles,
                           onlyShown : BOOLEAN, printx : BOOLEAN]

VARIABLES
    setting,   \* never changed: the consoles TTY writes to, those scrolled by hand, whether
               \* TTY writes only to the console shown (only then are the registers
               \* followed), whether the kernel prints
    cursor_location, current_start_addr,  \* of each console
    current_tty,                          \* the console shown
    crtc_start, crtc_cursor,              \* the registers of the display
    thread_pc, con, vmem_p, reg,          \* of each thread: where it is, and its locals
    ch,                                   \* what it was called for
    wrote      \* the cell the last step has written to, with its console, if any

crtc    == <<crtc_start, crtc_cursor>>
threads == <<thread_pc, con, ch, vmem_p, reg>>
consoleVars == <<setting, cursor_location, current_start_addr, current_tty, crtc, threads, wrote>>

begin_adr(c) == c * vmem_limit
limit_adr(c) == begin_adr(c) + vmem_limit
Add(a, b) == (a + b) % Word
Sub(a, b) == (a - b) % Word

\* init_console of all consoles, which writes two characters on all but the first,
\* and switch_console to the first.
ConsoleInit ==
    /\ cursor_location = [c \in Consoles |-> IF c = 0 THEN BootCursor ELSE begin_adr(c) + 2]
    /\ current_start_addr = [c \in Consoles |-> begin_adr(c)]
    /\ current_tty = 0 /\ crtc_start = 0 /\ crtc_cursor = BootCursor
    /\ thread_pc = [t \in Threads |-> "idle"] /\ con = [t \in Threads |-> 0]
    /\ ch = [t \in Threads |-> "char"] /\ vmem_p = [t \in Threads |-> 0]
    /\ reg = [t \in Threads |-> 0]
    /\ wrote = {}
    /\ setting \in Settings

\* TTY does not run while the kernel does.
At(t, label) == thread_pc[t] = label /\ (t = "tty" => thread_pc["printx"] = "idle")

\* What is put in a register of the display, where it is followed.
Register(a) == IF setting.onlyShown THEN a % RegWord ELSE 0

Goto(t, label) == thread_pc' = [thread_pc EXCEPT ![t] = label]

Idle(t) ==
    /\ Goto(t, "idle")
    /\ con' = [con EXCEPT ![t] = 0] /\ ch' = [ch EXCEPT ![t] = "char"]
    /\ vmem_p' = [vmem_p EXCEPT ![t] = 0] /\ reg' = [reg EXCEPT ![t] = 0]

\* What a step does but for the console it stores to, if any: a jump, and a load.  A
\* value that has been used is forgotten.
Jump(t, label) ==
    /\ Goto(t, label) /\ reg' = [reg EXCEPT ![t] = 0]
    /\ UNCHANGED <<current_tty, crtc, con, ch, vmem_p>>
Load(t, a, label) ==
    /\ reg' = [reg EXCEPT ![t] = a] /\ Goto(t, label)
    /\ UNCHANGED <<cursor_location, current_start_addr, current_tty, crtc, con, ch, vmem_p>>

(***************************************************************************)
(* out_char                                                                *)
(***************************************************************************)

\* tty_write, write_tty and tty_do_write call it from TTY, sys_printx in the kernel.
OutChar(t, c, x) ==
    /\ At(t, "idle")
    /\ IF t = "tty"
       THEN c \in setting.used /\ (setting.onlyShown => c = current_tty)
       ELSE c = 0 /\ setting.printx
    /\ con' = [con EXCEPT ![t] = c]
    /\ ch' = [ch EXCEPT ![t] = x]
    /\ vmem_p' = [vmem_p EXCEPT ![t] = cursor_location[c]]
    /\ Goto(t, "switch")
    /\ wrote' = {} /\ UNCHANGED <<cursor_location, current_start_addr, current_tty, crtc, reg>>

\* A new line begins unless the cursor is in the last ones: the test, ...
NewLineTest(t) ==
    /\ At(t, "switch") /\ ch[t] = "newline"
    /\ Jump(t, IF Add(cursor_location[con[t]], SCREEN_WIDETH) < limit_adr(con[t]) THEN "line" ELSE "loop")
    /\ wrote' = {} /\ UNCHANGED <<cursor_location, current_start_addr>>

\* ... the number of the line, from the cursor read again, ...
NewLine(t) ==
    /\ At(t, "line")
    /\ LET line == Sub(cursor_location[con[t]], begin_adr(con[t])) \div SCREEN_WIDETH + 1
       IN  Load(t, Add(line * SCREEN_WIDETH, begin_adr(con[t])), "next")
    /\ wrote' = {}

\* ... and the store.
NextLine(t) ==
    /\ At(t, "next")
    /\ cursor_location' = [cursor_location EXCEPT ![con[t]] = reg[t]]
    /\ Jump(t, "loop") /\ wrote' = {} /\ UNCHANGED current_start_addr

\* A backspace, unless the cursor is in the first cell: cursor_location-- is a load ...
BackTest(t) ==
    /\ At(t, "switch") /\ ch[t] = "backspace"
    /\ Jump(t, IF cursor_location[con[t]] > begin_adr(con[t]) THEN "back" ELSE "loop")
    /\ wrote' = {} /\ UNCHANGED <<cursor_location, current_start_addr>>

Back(t) ==
    /\ At(t, "back")
    /\ Load(t, cursor_location[con[t]], "dec") /\ wrote' = {}

\* ... and a store, before a blank is put in the cell.
Dec(t) ==
    /\ At(t, "dec")
    /\ cursor_location' = [cursor_location EXCEPT ![con[t]] = Sub(reg[t], 1)]
    /\ wrote' = {<<con[t], Sub(vmem_p[t], 1)>>}
    /\ Jump(t, "loop") /\ UNCHANGED current_start_addr

\* A character: is there a cell left?
PutTest(t) ==
    /\ At(t, "switch") /\ ch[t] = "char"
    /\ Jump(t, IF cursor_location[con[t]] < limit_adr(con[t]) THEN "put" ELSE "wrap")
    /\ wrote' = {} /\ UNCHANGED <<cursor_location, current_start_addr>>

\* It goes where the cursor was at first; cursor_location++ is a load ...
Put(t) ==
    /\ At(t, "put")
    /\ wrote' = {<<con[t], vmem_p[t]>>}
    /\ Load(t, cursor_location[con[t]], "inc")

\* ... and a store.
Inc(t) ==
    /\ At(t, "inc")
    /\ cursor_location' = [cursor_location EXCEPT ![con[t]] = Add(reg[t], 1)]
    /\ Jump(t, "loop") /\ wrote' = {} /\ UNCHANGED current_start_addr

\* Wrong: the cursor goes back to the top of the video memory.
Wrap_Top(t) ==
    /\ At(t, "wrap")
    /\ cursor_location' = [cursor_location EXCEPT ![con[t]] = 0]
    /\ Jump(t, "top") /\ wrote' = {} /\ UNCHANGED current_start_addr

\* The console is full: the cursor goes to its first cell ...
Wrap(t) ==
    /\ At(t, "wrap")
    /\ cursor_location' = [cursor_location EXCEPT ![con[t]] = begin_adr(con[t])]
    /\ Jump(t, "top") /\ wrote' = {} /\ UNCHANGED current_start_addr

\* ... and the character to where the cursor is then.
PutTop(t) ==
    /\ At(t, "top")
    /\ wrote' = {<<con[t], cursor_location[con[t]]>>}
    /\ Jump(t, "loop") /\ UNCHANGED <<cursor_location, current_start_addr>>

\* The window follows the cursor down, but not up: the cursor is read first, ...
Loop(t) ==
    /\ At(t, "loop")
    /\ reg' = [reg EXCEPT ![t] = cursor_location[con[t]]]
    /\ vmem_p' = [vmem_p EXCEPT ![t] = 0]
    /\ Goto(t, "window")
    /\ wrote' = {} /\ UNCHANGED <<cursor_location, current_start_addr, current_tty, crtc, con, ch>>

\* ... then the window.  In the end the cursor is shown.
Window(t) ==
    /\ At(t, "window")
    /\ IF reg[t] >= Add(current_start_addr[con[t]], SCREEN_SIZE)
       THEN Goto(t, "scroll") /\ UNCHANGED ch
       ELSE Goto(t, "cursor") /\ ch' = [ch EXCEPT ![t] = "done"]
    /\ reg' = [reg EXCEPT ![t] = 0]
    /\ wrote' = {} /\ UNCHANGED <<cursor_location, current_start_addr, current_tty, crtc, con, vmem_p>>

(***************************************************************************)
(* scroll_screen and switch_console                                        *)
(***************************************************************************)

\* Shift with an arrow key, or with a function key, which also makes another console
\* the current one.
Key(c, x) ==
    /\ At("tty", "idle")
    /\ con' = [con EXCEPT !["tty"] = c] /\ ch' = [ch EXCEPT !["tty"] = x]
    /\ wrote' = {} /\ UNCHANGED <<cursor_location, current_start_addr, crtc, vmem_p, reg>>

ScrollKey ==
    /\ current_tty \in setting.scrolled
    /\ \E direction \in {"up", "down"} : Key(current_tty, direction)
    /\ Goto("tty", "scroll") /\ UNCHANGED current_tty

switch_console(c) ==
    /\ Key(c, "shown")
    /\ current_tty' = c /\ Goto("tty", "cursor")

\* A line up, by hand only, or down.
Scrolled(t, a) == IF ch[t] = "up" THEN Sub(a, SCREEN_WIDETH) ELSE Add(a, SCREEN_WIDETH)

\* Wrong: downwards the window is compared with the first cell, not the last.
MayScroll_First(t, c) ==
    IF ch[t] = "up" THEN Scrolled(t, current_start_addr[c]) >= begin_adr(c)
                    ELSE Scrolled(t, current_start_addr[c]) <= begin_adr(c)

MayScroll(t, c) ==
    IF ch[t] = "up" THEN Scrolled(t, current_start_addr[c]) >= begin_adr(c)
                    ELSE Scrolled(t, current_start_addr[c]) <= limit_adr(c)

\* The test, ...
scroll_screen(t) ==
    /\ At(t, "scroll")
    /\ Jump(t, IF MayScroll(t, con[t]) THEN "move" ELSE "show")
    /\ wrote' = {} /\ UNCHANGED <<cursor_location, current_start_addr>>

\* ... the load ...
Move(t) ==
    /\ At(t, "move")
    /\ Load(t, current_start_addr[con[t]], "moved") /\ wrote' = {}

\* ... and the store.
Moved(t) ==
    /\ At(t, "moved")
    /\ current_start_addr' = [current_start_addr EXCEPT ![con[t]] = Scrolled(t, reg[t])]
    /\ Jump(t, "show") /\ wrote' = {} /\ UNCHANGED cursor_location

\* The registers of the display: scroll_screen writes the window's and the cursor's,
\* switch_console the cursor's and the window's, out_char in the end the cursor's.  (The
\* loads are no steps of their own: only with a second writer would they be.)
set_console_start_addr(t) ==
    /\ At(t, "show")
    /\ crtc_start' = Register(current_start_addr[con[t]])
    /\ IF ch[t] = "shown" THEN Idle(t) ELSE Goto(t, "cursor") /\ UNCHANGED <<con, ch, vmem_p, reg>>
    /\ wrote' = {} /\ UNCHANGED <<cursor_location, current_start_addr, current_tty, crtc_cursor>>

\* Wrong: switch_console leaves the window as it is.
set_cursor_NoWindow(t) ==
    /\ At(t, "cursor")
    /\ crtc_cursor' = Register(cursor_location[con[t]])
    /\ IF ch[t] \in Chars THEN Goto(t, "loop") /\ UNCHANGED <<con, ch, vmem_p, reg>> ELSE Idle(t)
    /\ wrote' = {} /\ UNCHANGED <<cursor_location, current_start_addr, current_tty, crtc_start>>

set_cursor(t) ==
    /\ At(t, "cursor")
    /\ crtc_cursor' = Register(cursor_location[con[t]])
    /\ IF ch[t] \in Chars \cup {"shown"}
       THEN /\ Goto(t, IF ch[t] = "shown" THEN "show" ELSE "loop")
            /\ UNCHANGED <<con, ch, vmem_p, reg>>
       ELSE Idle(t)
    /\ wrote' = {} /\ UNCHANGED <<cursor_location, current_start_addr, current_tty, crtc_start>>

Step(t) ==
    \/ NewLineTest(t) \/ NewLine(t) \/ NextLine(t) \/ BackTest(t) \/ Back(t) \/ Dec(t)
    \/ PutTest(t) \/ Put(t) \/ Inc(t) \/ Wrap(t) \/ PutTop(t) \/ Loop(t) \/ Window(t)
    \/ scroll_screen(t) \/ Move(t) \/ Moved(t)
    \/ set_console_start_addr(t) \/ set_cursor(t)

ConsoleNext ==
    /\ \/ \E t \in Threads : Step(t) \/ \E c \in Consoles, x \in Chars : OutChar(t, c, x)
       \/ ScrollKey
       \/ \E c \in Consoles : switch_console(c)
    /\ UNCHANGED setting

\* A call goes on: the kernel runs to its end, and TTY is scheduled between the
\* processes that call printx.
ConsoleSpec ==
    /\ ConsoleInit /\ [][ConsoleNext]_consoleVars
    /\ WF_consoleVars(Step("printx") /\ UNCHANGED setting) /\ SF_consoleVars(Step("tty") /\ UNCHANGED setting)

(***************************************************************************)
(* Properties                                                              *)
(***************************************************************************)

\* The values of the variables.
ConsoleTypeOK ==
    /\ cursor_location \in [Consoles -> 0 .. Word - 1]
    /\ current_start_addr \in [Consoles -> 0 .. Word - 1]
    /\ current_tty \in Consoles /\ {crtc_start, crtc_cursor} \subseteq 0 .. RegWord - 1
    /\ thread_pc \in [Threads -> Labels] /\ con \in [Threads -> Consoles]
    /\ ch \in [Threads -> Chars \cup {"up", "down", "shown", "done"}]
    /\ vmem_p \in [Threads -> 0 .. Word - 1] /\ reg \in [Threads -> 0 .. Word - 1]
    /\ wrote \in SUBSET (Consoles \X (0 .. Word - 1))

\* The first console when TTY and printx both write to it: what one of them has read of
\* it the other changes.
Shared(c) == c = 0 /\ 0 \in setting.used /\ setting.printx

\* The first console when it is scrolled by hand: its cells begin at address 0, and
\* scroll_screen's test of a line less is one of unsigned numbers.
ByHand(c) == c = 0 /\ 0 \in setting.scrolled

\* However much is written and erased, a console never writes to a cell of another
\* one, and its cursor never leaves it by more than the cell behind the last.  Of the
\* first console, when TTY and printx both write to it, this is so but for the line
\* behind its last cell and the two cells before its first.
WritesInside ==
    /\ \A w \in wrote :
           IF Shared(w[1]) THEN Add(w[2], 2) \in 0 .. limit_adr(0) + SCREEN_WIDETH + 2
           ELSE w[2] \in begin_adr(w[1]) .. limit_adr(w[1]) - 1
    /\ \A c \in Consoles :
           IF Shared(c) THEN Add(cursor_location[c], 2) \in 0 .. limit_adr(c) + SCREEN_WIDETH + 2
           ELSE cursor_location[c] \in begin_adr(c) .. limit_adr(c)

\* The window of a console begins in the console; that of the first one, when TTY and
\* printx both write to it, at most a line behind it, and when it is scrolled by hand,
\* anywhere.
WindowInside ==
    \A c \in Consoles : ~ByHand(c) =>
        current_start_addr[c] \in begin_adr(c) .. limit_adr(c) + IF Shared(c) THEN SCREEN_WIDETH ELSE 0

\* Between two calls the display shows the window and the cursor of the console
\* that current_tty says is shown, as far as the registers hold them and as long as only
\* that console is written to.
ShownIsCurrent ==
    (setting.onlyShown /\ ~setting.printx /\ \A t \in Threads : thread_pc[t] = "idle") =>
        /\ crtc_start = current_start_addr[current_tty] % RegWord
        /\ crtc_cursor = cursor_location[current_tty] % RegWord

\* The cursor of the first console is below its window and scrolling down does not move
\* the window: either it was scrolled by hand two lines or more above address 0, or two
\* writers left the cursor before address 0.  Thread t, or the kernel, for which it
\* waits, stays in out_char's loop.
Lost(t) ==
    /\ Shared(0) \/ ByHand(0)
    /\ cursor_location[0] >= Add(current_start_addr[0], SCREEN_SIZE)
    /\ Add(current_start_addr[0], SCREEN_WIDETH) > limit_adr(0)
    /\ \E u \in {t, "printx"} : thread_pc[u] # "idle" /\ con[u] = 0

\* out_char comes to an end: its loop reaches a window with the cursor in it, unless the
\* first console is scrolled by hand above address 0, or has two writers that leave the
\* cursor there.
OutputEnds == \A t \in Threads : thread_pc[t] # "idle" ~> (thread_pc[t] = "idle" \/ []Lost(t))

\* A console keeps to its part of the video memory.
ConsolesInside == ConsoleTypeOK /\ WritesInside /\ WindowInside
================================================================================
