# A TLA+ model of DIY_kernel

DIY_kernel is a small x86 microkernel. The kernel proper switches processes,
handles interrupts and passes messages; terminals, disk, files and processes are
managed by *tasks* that user programs talk to with synchronous SEND and RECEIVE.
This directory holds TLA+ modules that model the kernel and its tasks, TLC runs
that check them on small instances, and TLAPS proofs of what matters most.

## 1. Inventory

| Component | Source | State | Operations |
|---|---|---|---|
| Message passing | `kernel/proc.c` | per process: `p_flags`, `p_msg`, `p_recvfrom`, `p_sendto`, `has_int_msg`, list `q_sending`/`next_sending` | `sys_sendrec`, `msg_send`, `msg_receive`, `deadlock`, `inform_int` |
| Scheduler, clock | `kernel/proc.c`, `kernel/clock.c`, `kernel/kernel.asm` | `ticks`, `priority`, `p_proc_ready`, `k_reenter`, masked lines | `schedule`, `block`, `clock_handler`, `save`/`sys_call`/`restart` |
| Process management | `mm/*.c`, `lib/unistd.c`, `lib/ipc.c` | `p_parent`, WAITING/HANGING/FREE_SLOT bits, registers of callers | `do_fork`, `do_wait`, `do_exit`, `cleanup`, `do_exec` |
| File system | `fs/*.c` | descriptor, inode and super-block tables, bitmaps, one directory, file data | `do_open`, `do_close`, `do_rw`, `do_unlink`, `do_stat`, `fs_fork`, `fs_exit` |
| Terminals, keyboard | `kernel/tty.c`, `kernel/keyboard.c` | scan-code ring, a ring and a read request per terminal, shift state | `keyboard_handler`, `keyboard_read`, `tty_read`, `tty_write`, `tty_do_read`, `tty_do_write` |
| Console | `kernel/console.c` | cursor and visible window per console | `out_char`, `scroll_screen`, `switch_console` |
| Disk driver | `driver/hd.c` | partition table, open count, current command | `hd_rw`, `hd_open`, `hd_ioctl`, `hd_handler` |
| System task | `kernel/systask.c` | none | GET_TICKS, GET_PID |
| Formatted output | `lib/stdio.c` | none | `i2a`, `vsprintf` |
| Init and shell | `kernel/main.c` | the line buffer, the archive's position | `untar`; fork one shell; wait for ever; split a line, fork, exec and wait per command |

How they interact. A user program sends to MM, FS or SYS and receives the answer
from the same task (`send_recv(BOTH)`: two system calls, and anything may run
between them). MM calls FS, FS calls HD and TTY, TTY sends RESUME_PROC back to
FS when a suspended read is complete. Clock and disk interrupts become HARD_INT
messages (`inform_int`). All of them share the process table: MM and FS write
entries of other processes directly, without locks and with interrupts enabled.

What is hard: a lost wake-up between an interrupt and a RECEIVE; circles of
SENDs, which panic; unlinking a sender from the middle of a queue; interrupts
between the steps of `schedule`'s scan; MM rewriting the entry of a caller that
is between its SEND and its RECEIVE; the order of exits, waits and adoptions;
full tables and bitmaps; leftover disk interrupts. `PROJECT.json` lists each such
hazard with its source line and the properties that cover it.

Properties that make each component correct: message passing loses, duplicates
and misdirects nothing, and its assertions hold; the scheduler resumes only
runnable processes and starves none; MM keeps the process tree rooted in Init,
returns from every fork and wakes every waiting parent as long as it does not block
for ever itself (section 3); the
file system's counts match the descriptors in use and its bitmaps the inodes;
a read of a terminal is resumed once with what was typed for it; a key arrives
as typed; a console keeps to its part of the video memory; a disk request is
answered with the data of its own sectors; the words of a command arrive as the
program's arguments.

## 2. Modules

| Module | Models | Checked by |
|---|---|---|
| `Ipc` | message passing, queues as sequences | run `ipc`, proofs `IpcProofs` |
| `SendQueue` | abstract: what the queues of blocked senders promise | implemented by `Ipc` and `SendList` |
| `SendList` | the queues as linked lists | run `send_list`, proofs `SendListProofs` |
| `Sched` | scheduler and clock | run `sched`, proofs `SchedProofs` |
| `Mm` | MM and the programs that call it, composed with `Ipc` | runs `mm`, `mm_live`, `wait_without_child`, proofs `MmProofs` |
| `OpenFiles` | abstract: what descriptors promise, without counters | implemented by `Fs` |
| `Fs` | the file system task: tables, maps, directory, sectors | run `fs`, proofs `FsProofs` |
| `Tty` | TTY, FS as its client, programs and interrupts, composed with `Ipc` | run `tty`, proofs `TtyProofs` |
| `ByteQueue` | abstract: a bounded queue of bytes | implemented by `Keyboard` |
| `Keyboard` | interrupt handler, ring, decoding, modifiers, locks and LEDs | run `keyboard`, proofs `DeviceProofs` |
| `Hd` | disk driver, SYS, FS as their client, the disk, composed with `Ipc` | run `hd`, proofs `HdProofs` |
| `Console` | cursors, windows and display registers | run `console`, proofs `DeviceProofs` |
| `Format` | `vsprintf` and `i2a` against a reference | run `user_code` |
| `Exec` | from the line typed to the arguments of `main` | run `user_code`, proofs at the end of `MmProofs` |
| `Untar` | unpacking the commands | run `user_code` |

`MC*.tla` and `MC*.cfg` give the constants their values. One run often asks its
question of several situations: a variable that `Init` chooses and no step changes
(`setting` in `Mm`, `Hd` and `Console`, `work` in `Fs`, `session` in `Tty` and
`Keyboard`) says who is there and what they may do. `MCUser` composes `Format`,
`Exec` and `Untar`, which share nothing: a behaviour does one of the three jobs.

**Ipc.** One action per path of the handlers: `SendPanic`, `SendDeliver`,
`SendBlock`; `ReceiveInt`, `ReceiveQueued`, `ReceiveBlock`; `InformWake`,
`InformPend`. A handler is one step because the kernel does not preempt itself
and disables interrupts before it touches what interrupt handlers touch.
Messages are a source and a body; the addresses and the copying are abstracted
to one buffer per process. `deadlock` is stated without the walk: `src` lies in
every set of processes that contains `dest` and is closed under "is blocked
sending to". Any runnable process may step, so the runs and proofs hold for
every scheduling.

**SendQueue, SendList.** `SendQueue` says what the queues promise. `SendList`
has the pointers of `proc.c`, with the walks as functions from step numbers to
nodes; its refinement mapping reads a list off the pointers. `Ipc` implements
`SendQueue` too, with `q_sending` itself as the queue.

**Sched.** `mode` tells user code, a system call and a running `schedule` apart.
`Scan` is one iteration of the loop, so `ClockInKernel` and `HdInterrupt` come
between any two. The clock interrupts `schedule` only when it was called from
`block`; called from `clock_handler` the clock line is masked.

**Mm.** Uses the operators of `Ipc` for every SEND and RECEIVE of MM and of the
programs. `prog` says where a program is: in its own code, before the RECEIVE,
after it, or spinning after a failed assertion. `mm_pc` names the place in MM's
code. FS's part in fork and exit is the step `FsReply`. `setting` says which calls each
process makes and which slots the table has (`setting.calls`, `setting.slots`; Init makes
only the calls its code makes) and whether `p_flags |= ...` of MM is one step or a load
and a store (`setting.atomic`).

**Fs, OpenFiles.** FS serves one request at a time and nobody else writes its
tables, so a request is one step, named after the handler and its outcome. What
can come between is kept: MM copies `filp` in a fork (`MmFork`:
the child's descriptors exist before FS has counted them). A sector's contents
are the number of the file last written there, which is enough to see a transfer
that strays. A failed assertion or a panic stops FS; mkfs runs at every boot, so
nothing it leaves behind is ever read. `OpenFiles` has no counters: the mapping
reads each process's descriptors off `filp`.

**Tty.** Uses the operators of `Ipc` for every SEND and RECEIVE of TTY, FS and the
programs. The task's loop, the requests of FS and the two interrupts (keyboard
and clock) are separate steps; a change of TTY's own data and the SEND behind it
are one. The keyboard's ring holds keys here.

**Keyboard, ByteQueue.** The handler and the reader are two actors. The reader's
program counter follows `keyboard_read` from one `get_byte` to the next, so bytes
arrive in the middle of a scan code. The keyboard is external: it sends the bytes
of a scan code in order and answers commands with KB_ACK through the same port.
`key` keeps its value from one call to the next, as the stack slot does. The key
map has one row of each kind.

**Hd.** `hd_pc` names the place in the driver: waiting for the status, for an
interrupt, between two sectors, or reading partition tables. The disk is
external: one interrupt per sector. Time is what SYS answers, since the driver
polls it. SYS and the program that calls it are there because the driver's
timeout goes through them.

**Console.** `thread_pc` of each of the two threads follows `out_char` and `scroll_screen`
from one access of `cursor_location` or `current_start_addr` to the next: in `newline` the
test, the load of which the number of the next line is made and the store are steps of
their own (`NewLineTest`, `NewLine`, `NextLine`), and so are load and store of
`cursor_location--`, of `cursor_location++` and of the two assignments of
`scroll_screen`. What has been loaded is in `reg`, the pointer computed at the entry of
`out_char` in `vmem_p`. The thread of `printx` runs in the kernel and so without
interruption, TTY's can be preempted anywhere. Addresses are unsigned and wrap.
`setting` says which consoles TTY writes to, which are scrolled by hand and whether the
kernel prints. The registers of the display are followed (`Register`) where only the
console shown is written to (`onlyShown`); elsewhere nothing is said of them.

**Format, Exec, Untar.** Sequential code checked against a reference: a format is
made from items and the text compared with what the items say; the words of a
line are defined as runs of non-blanks and compared with the strings the
program finds through its pointers, in a memory of bytes; an archive is packed
from files and compared with the files stored. The pointers `p` and `s` of the
shell's loop are `rd_p` and `rd_s` in `Exec`.

Definitions marked "Wrong:" are deliberate mistakes. Replacing the definition
that follows by one of them makes TLC report the property `PROJECT.json` pairs it
with ("mutants"), so that no property holds only for lack of anything to catch.

## 3. Runs

| Run | Instance | Shows |
|---|---|---|
| `ipc` | 4 processes, one with interrupts, 2 message bodies, symmetric | `TypeOK`, `QueueExact`, `SendGraphAcyclic`, `NoMissedWakeup`, `AssertsHold`, `RendezvousSound`, `NoOvertaking`, `ImplementsQueue` |
| `send_list` | 5 processes | `NoStaleLinks`, `ImplementsQueue` |
| `sched` | 4 processes, priorities 3, 2, 2, 0 | `TypeOK`, `ResumesRunnable`, `NoStarvation`, no deadlock |
| `mm` | Init and 3 slots | `KernelSound` (`MmTypeOK`, `QueueExact`, `NoPanic`, `DeliverAsserts`, `CallersClean`), `LiveTree` |
| `mm_live` | Init and 2 slots, also with exec and non-atomic flags; Init and 3 slots, a shell and a child of its that can exit before its own child does | `LiveTree`, `ForkResult`, `ForkReturns`, `ExitWakesParent` |
| `fs` | 2 processes sharing descriptors; 1 with 3 files and cmd.tar, a hole before it; 1 that reads and writes | `TablesExact` (`FsTypeOK`, `CountsExact`, `InodesHeld`), `DiskConsistent` (`MapsMatch`, `DirExact`), `FittingTransfer`, `ImplementsOpenFiles` |
| `tty` | 1 program with 3 keys; 2 programs, each on its terminal, with 2 keys | `NothingForgotten` (`TtyTypeOK`, `KeysNoticed`, `RequestKept`, `AnswersCaller`), `NoCircle`, `KeysDrained`, `EnterResumes` |
| `keyboard` | 4 events of letters and modifiers or of the num pad, 3 of long scan codes; ring of 3 bytes | `ReadAsTyped` (`KeyboardTypeOK`, `ModsAgree`, `KeysAsTyped`), `NoVainWait`, `RingIsQueue` |
| `hd` | 4 requests of 2 or 3 sectors, disk may be late; 2 requests of 1 or 3 sectors beside a program that calls SYS | `RequestsExact` (`HdTypeOK`, `TransfersExact`, `PartitionsFound`), `NoStrayInterrupt`, `RequestsAnswered`, `SysServes` |
| `console` | 2 consoles of 5 cells: TTY alone writes to the one shown and scrolls both by hand; TTY and `printx` write to the first one; the same, scrolled by hand too | `ConsolesInside` (`ConsoleTypeOK`, `WritesInside`, `WindowInside`), `ShownIsCurrent`, `OutputEnds` |
| `user_code` | formats of 2 items with ints of 8 bits; lines of 7 characters; archives of 3 files, sectors of 4 bytes, a buffer of 2 | `FormatExact`, `ArgsIntact` (`ArgsArrive`, `StacksHold`), `UnpackedSoFar` |
| `wait_without_child` | Init and 2 slots | violates `WaiterHasChild`, see below |

In brackets, the named parts of an invariant.

Bounds. Four processes let three senders queue up for the fourth, so that a
RECEIVE unlinks the first, the middle and the last, and let a circle of SENDs be
longer than two; five give a list with two middle elements. Two message bodies
suffice because no step looks at a body. In `sched` a task with the largest
slice is woken by interrupts again and again, against another task and a user
process; one process is shut down. In `mm` three slots are the least with which
a process other than Init's own child leaves an exited child to Init; that is the
case in which do_exit reaps orphans, and in which MM can block for ever in `cleanup`.
`mm_live` has it too, with fewer calls than `mm`, as liveness is dearer to check: Init and
the first process fork and wait, the second forks and exits, the third exits.

In `fs` a descriptor is shared by parent and child while both open and close;
three descriptors and inode slots are one fewer than two processes can want. Three
files meet the hole before cmd.tar, are removed and created again in other
places. Positions go over the end of a file's sectors. In `tty` three keys are a
character, a backspace or Enter in any order, two an Enter and a switch of
terminals, and rings of two overflow. Keyboard events include presses, repeats and
releases, so that four are a modifier or a lock and a key; a ring smaller than the
longest scan code fills up in the middle of one. `NSECTOR` is the number of
sectors whose count the register holds as 0 (256 in the code). A console of 5
cells with a screen of 4 meets its end at the first line; the real one has 5461
cells and a screen of 2000. An unsigned of `Console` is `Word`, 24, and an address in the
registers `RegWord`, 16: the memory of both consoles and one console more fit, as in the code. In `user_code` 8 bits put the largest int within three
digits; two items suffice because the only state kept from one to the next is the
text and the argument pointer. The stack of `Exec` is one byte larger than the
longest argument list of such a line, which the real sizes (215 bytes of 1024)
exceed by far. Files have sizes just below, at and above one sector, one buffer
and two.

Runs with CHECK_DEADLOCK FALSE: all processes may wait for messages, children or
keys, spin, or have been stopped by a panic; the jobs of `user_code` end.

Fairness. `sched`: the kernel's loops run, a system call ends, and the timer,
which is not synchronised with programs, hits user mode again and again (strong
fairness of `ClockInUser`). At most one tick falls into a scan of the table: a
tick is 10 ms. Without that a slice of 1 could be used up while `schedule`
chooses. `mm_live`: MM and programs inside a call go on, which `NoStarvation`
justifies; programs need not make calls. `ForkReturns` and `ExitWakesParent` name the
one way in which MM goes on no more (`LostToInit`). `tty`: the clock ticks, and FS, TTY
and programs inside a call go on; no key need be typed. `hd`: the tasks go on and
the disk ends what it began; how long it takes is open, and where it may be too
slow the driver's panic is an end too. `console`: `printx` runs without
interruption (weak fairness), TTY is preempted and goes on again and again (strong
fairness); a thread may stay in its loop only in the states `Lost` describes.

### A disagreement, and where the properties end

`wait_without_child` checks what the comment on `do_wait` says ("if P has no child
at all -reply to P with err", `mm/fork2exit.c:165`) and TLC finds a behaviour of
the code that contradicts it: a slot freed by `cleanup` keeps `p_parent`, so
`do_wait` counts it as a child and the caller is left WAITING for ever.

The models also do the following, as the code does. The properties name it as an
exception or are stated around it, and the notes of the hazards in `PROJECT.json` say so
at each line.

- `mm`: `do_exit` compares flags with `==`, so Init is not told of an exited child
  it inherits, or, if the comparison succeeds, stays WAITING while MM blocks for ever in
  its SEND: no fork returns and no exit wakes anyone after that. Run `mm_live` gets
  there, and its two liveness properties hold with that one exception (`LostToInit`, by
  the state MM and Init are in). `do_exec` redirects a caller that has not issued its
  RECEIVE, and MM blocks in the reply; a RECEIVE between load and store of
  `p_flags |= WAITING` is lost, and MM can block too: the two properties are about
  behaviours without either (`Plain`). `fork` fails its assertion when the table is full,
  which `ForkReturns` counts as an end.
- `fs`: a refused `unlink` keeps the inode it got; `unlink` of a missing file and
  of one whose bits begin a byte of the map, and an allocation that meets a hole
  smaller than a file, stop FS; transfers across the end of a file go on behind
  it. A name as long as the name field clears the next entry. When the directory
  fills its first sector, `new_dir_entry` writes that sector again as the next one:
  the file gets no entry of its own but the old ones a second time, and an
  `unlink` leaves one of the two behind, of a freed inode. With a full inode map
  inode 0 is given out. The instance has shorter names, a directory within one
  sector and more inodes than files.
- `tty`: two programs can make TTY's SEND to FS meet FS's SEND to TTY, and the
  kernel panics; a second read of one terminal replaces the first.
- `keyboard`: keys behind print screen and pause are dropped; a scan code can
  replace KB_ACK in the port, and `kb_ack` never ends.
- `hd`: more sectors than the register can count make the driver wait for ever
  (the instance asks for no more than it can).
- `console`: Shift+Up at the top of the first console, whose cells begin at address 0,
  makes its window wrap around, and after the second time scrolling down is refused:
  once the cursor is low enough `out_char` loops for ever. The run scrolls both consoles
  by hand; `WindowInside` leaves out the first one where it is (`ByHand`), and
  `OutputEnds` says that the loop ends but in this case (`Lost`). `printx` and TTY both
  write to the first console: what one has read the other changes before it is used, so
  that characters go up to a line behind its last cell, into the next console, and up to
  two cells before its first (a backspace that races with a wrap to the first cell
  leaves the cursor before address 0, from where the loop, in the kernel's `printx` too,
  has no end; `Lost` covers it as well). `WritesInside` says just that much of a shared
  console (`Shared`), and that no other is concerned. Output to a console that is not
  shown moves the display: `ShownIsCurrent` is about output to the one shown only.

## 4. Proofs

All theorems hold for every value of the constants that the assumptions of the
modules allow: any table sizes, priorities, message bodies, keys, files and
screens. `IpcProofs` holds for infinite sets of processes too; `SendListProofs` and
`FsProofs` count processes and need a finite one. No theorem assumes fairness.

**IpcProofs.** `IpcInvariant` proves `Spec => []IInv`. `IInv` adds `Shape` to the
properties checked: a process is runnable, SENDING or RECEIVING, its message
pointer is set exactly when it is blocked, and `p_sendto` and `p_recvfrom` are
set exactly when it is SENDING or RECEIVING. None of the properties is inductive
without it: that a SEND appends somebody not queued yet follows from the queued
being SENDING and the sender being runnable. `StepCases` splits the steps into
those that leave senders alone, `SendBlock` and `ReceiveQueued`; each of the
conjuncts is then a lemma of its own. Acyclicity is preserved by `SendBlock`
because a closed set of senders that contains the new one would make `deadlock`
true. From the invariant follow `IpcTypeOK`, `IpcQueueExact`,
`IpcSendGraphAcyclic`, `IpcNoMissedWakeup`, `IpcAssertsHold`, and for steps
`IpcRendezvousSound`, `IpcNoOvertaking` and the refinement `IpcImplementsQueue`.
The lemmas `Sends`, `Receives`, `Informs` and `PanicsInCircle` state once what a SEND, a
RECEIVE and an interrupt do to the entries of the processes concerned; the proofs of the
tasks on top of `Ipc` cite them.

**SchedProofs.** `SchedInvariant` needs, besides the properties, `Candidate`:
while `schedule` scans, the process it remembers is runnable and not shut down
if `greatest_ticks > 0`. Interrupts keep it because they only make processes
runnable. `SchedTypeOK` and `SchedResumesRunnable` follow.

**SendListProofs.** `ListsHoldQueues` proves that the pointers of `proc.c` hold
queues. Its invariant `Chains(Queue)` says of the sequence of senders a walk
visits: each points at the one behind it, the last at null; nobody is in two
places; and the queued are exactly those blocked, each in the queue of the process
it is sending to. `NoStaleLinks` is part of it and is what makes appending sound:
a sender that still had a successor from an earlier queue would bring a tail of
strangers along. A step is proved for any queues `Q` that satisfy `Chains(Q)`; that
the walks, which are recursive functions, visit these queues afterwards is
`WalkFollows`, by looking at the first place where a walk would leave its queue.
From that follow `LinksCleared` (`NoStaleLinks`) and `ListsAreQueues`
(`ImplementsQueue`): together with `IpcImplementsQueue`, whoever relies on what
`SendQueue` promises may take the lists or the sequences.

**DeviceProofs, consoles.** `ConsoleInvariant` is about both threads, whoever writes to
the consoles and scrolls them. `Placed` says which console each may be in. `Cursors` says
of a console that is not shared by TTY and `printx` that its cursor is inside, and what a
thread in `out_char` knows of it (`Fresh`): what it has loaded is still so, and so is what
its tests have established; `Windows` says the same of the window and `scroll_screen`
(`Ready`), unless it is the first one scrolled by hand, and `Display` what the registers
still have to become. Each step of a thread keeps what it knows itself (`WriterStep`,
`MoverStep`), and what another knows of the same console is not disturbed because no two
write to it, or move its window, at a time (`OneWriter`, `OneMover`). `EachConsoleKept` says
what follows for one console, whatever happens to the others; all consoles but the
first are neither shared nor left out. `ConsolesStayInside` (`ConsolesInside`) needs that
the first one is not shared either (`~Shared(0)`), but it may be scrolled by hand;
`DisplayShowsCurrent` (`ShownIsCurrent`) needs no hypothesis. How far characters can go
on a shared console is model-checked only.

**DeviceProofs, keyboard.** `KeyboardRing` relates pointers and count of the ring for every
size: the head is `count` slots behind the tail, and between TTY's load of the count
and its store interrupts are off, so that no increment is lost.
`KeyboardRingIsQueue` (`RingIsQueue`) is the refinement. `KeyboardNoVainWait`
(`NoVainWait`) is about the two actors together: as long as no byte was lost, what
is in the ring and what the keyboard still has to send are the rest of the scan
code that `keyboard_read` is in the middle of and whole scan codes behind it
(`Following`), so that it never waits for a byte of a scan code that has ended.

**TtyProofs.** `TtyInvariant` proves `TtySpec => []TtyInv` for any number of programs
and terminals in any loop order, any keys, lengths and ring sizes, and for any use of the
terminals, shared ones included. The argument is that a program that is in a call and
not yet answered (`Asked`) is in one place at a time: FS has its call (`FsHas`), a
terminal holds its read (`HeldAt`), or TTY is telling FS to resume it (`Resuming`).
`CallOf` says so of each program, and each step moves a program from one place to the next.
What makes it inductive is who can be blocked at whom, at which place (`Traffic`); that
FS waits for TTY exactly while TTY has FS's request or its answer (`Turn`), so that an
answer meets the request it belongs to, and a RESUME_PROC never arrives where an answer
is awaited; and what the messages under way contain (`Content`). `Noticed` is about the
keys: as long as key_pressed is not set and keys are unread, TTY is still to come past the
terminal shown in this round, also when a key has just switched terminals. From the
invariant follow, without a hypothesis, `NoKeyForgotten` (`KeysNoticed`),
`AnswersGoToCallers` (`AnswersCaller`) and `TerminalsTypeOK`. `NoRequestForgotten`
(`NothingForgotten`, which adds `RequestKept`) has the hypothesis `OwnTerminals`, that
no two programs use the same terminal, as in run `tty`: `tty_do_read` overwrites the
read a terminal holds, so with a second reader the first one is forgotten (section 3).
`AloneNeverInCircle` (`NoCircle`) is for one program alone on any number of terminals:
a SEND of TTY in `tty_write` and one of FS in `do_rw` concern two different programs,
the one resumed and the one whose call FS has at hand, and no other SEND of the five kinds
can close a circle, whoever uses the terminals. After a panic nothing moves, and the
invariant says only that there were two programs. `TtyInv` was model-checked before it
was proved, on the sessions of run `tty` and on one with two programs sharing a terminal.

**FsProofs.** `FsInvariant` has the counters (`CountsExact`: an open file counts its
descriptors; `Counted`: an inode in memory counts the descriptors that lead to it, the
root one more), and what they rest on. A child that MM has made and FS not yet
heard of has its parent's descriptors, and there is one at most (`Families`):
otherwise its descriptors would be counted twice or for ever missing. Inodes in
memory are different, allocated and as on disk (`Mirrors`): two slots for one inode
would each have half its count. And an inode stays allocated while somebody has it
open only because `do_unlink` finds it by name: no two entries of the directory
are of one inode and each is of an allocated one (`Directory`), so that removing a
name frees the inode of no other. From these follow `TablesAreExact` (`TablesExact`)
and `DescriptorsKeepTheirFiles` (`ImplementsOpenFiles`): a descriptor names the file
it was opened for, shares its position with exactly the descriptors forked from
it, and is closed alone. The theorems assume that the directory stays within its
first sector and the inode map is never full (`Roomy`, a state predicate that holds
in every state of run `fs`): without that the code does what section 3 says, and
`TablesExact` fails. `FsInvariant` was model-checked on that run's instance before
it was proved.

`TransfersFit` (`FittingTransfer`) follows from the same invariant and the arithmetic of
`do_rw`, for any size of a sector and of `fsbuf`: rounded up to whole chunks of sectors,
the loop goes at least as far as the last byte, so `bytes` is the length asked for
(`FittingBytes`); the last sector written is one of the file's (`LastSector`), as the inode in
memory is the one on disk (`Mirrors`); and a transfer is never of the root, whose size
alone may differ. `div` and `%` by a constant of unknown value are taken apart by one
lemma (`Quotient`): everything else is about sums and products.

**MmProofs.** `TreeInvariant` is about processes and holds in every setting, with
`exec` and with updates of the process table that an interrupt cuts in two. Whoever
asked MM for something and whose request MM has got can only receive the answer
(`Asked`); what is in MM's queue, in its message and in its locals is such a caller
(`Requests`, `AtDispatch`, `AtWork`); one that asked to exit never gets out again
(`Ending`), so that freeing its slot is safe. `Tree` then says that a parent is Init,
alive, or exits just now and has not yet passed the child in the loop of `do_exit`.
Two things make it inductive: a slot is freed only when nobody names it as parent
any more, except by the process that exits and is before its loop; and flags that
are stored late are a subset of what they have become meanwhile. `ProcessTree`
(`LiveTree`) follows. `KernelStaysSound` (`KernelSound`) is for uninterrupted updates
and programs that do not call `exec`, the setting of run `mm`. It adds that the fields of
an entry agree although `fork` copies them and MM adds flags to them (`Shapes`), and
that MM is queued for one process at most, which is about to receive (`Senders`): so
the walk of `deadlock` ends after two steps and finds none. `ForkReturnsChild`
(`ForkResult`) is for every setting again: what `fork` returns in the parent is a
child that is still in use. The pid is on its way in MM's locals (`AtFork`,
`AtReply`), then perhaps in the message MM is blocked with (`Pending`), then in the
caller's (`Replied`), and nothing may reap or hand away the child before the return: who
reaps it is its parent in `wait` or MM for a parent that waits (`WaitCalls`,
`AtCleanup`), and whose children go to Init exits (`AtOrphans`). `exec` and flags stored late can
leave MM blocked with an answer nobody waits for any more; `Pending` says that a pid in it
is a child of whoever takes it as the answer of `fork`. All of that holds until the kernel panics, when
nothing moves. The three invariants were
model-checked with two slots in both settings before they were proved.

`ArgStackHolds` (`StacksHold`, a part of `ArgsIntact`) is about one process that calls
`execv`: no line the shell reads makes an assertion of `execv` fail or leaves the line buffer
or `arg_stack`. The invariant `ExecInv` says that each word found in the line buffer ends
with a zero before the next begins (`WordsEnd`), that a word takes two bytes of the line at
least (`LineSplit`), and that what is in `arg_stack` is a pointer for each argument and no
more bytes than the line has before the next word (`StackUsed`). So the largest need is that
of a line of the shortest words, for which `ExecAssumption` leaves room.

**HdProofs.** `DriverInvariant` is about a request from FS's SEND to the answer, with
any number of programs that ask SYS for the time meanwhile. `Phase` says where it is:
still with FS, taken but not looked at, worked on, or answered, in one of these only;
`Traffic` says of HD, SYS, FS and the programs who can be blocked at whom, and rests on
`IpcProofs` for the queues. `Step` is what makes the driver right: at each place
in it, what the disk is doing and whether its interrupt is pending. While it polls for
the end of BSY nothing is pending; while it waits for an interrupt, either the disk is at
work on this command and will give one, or it has given just one. So no command finds an
interrupt of the one before it. `Transfer` says how far the work is: the sectors read
so far, the sectors written so far and all others unchanged, or the partition tables
parsed so far (`Parsed`). After a panic nothing moves, so the invariant is the
properties themselves there. `DriverExact` (`RequestsExact`) and `InterruptsBelong`
(`NoStrayInterrupt`) follow. The hypothesis `Fits` is that a request is of at least one
and at most as many sectors as the register can count to, 256: FS's tables are read
and written one sector at a time, and a file in one piece by `do_rw`, so it means
that no program transfers more than that at once (`do_rw` would pass on up to 2048, and the
driver waits for ever, section 3). `HdInv` was
model-checked on the instance of run `hd` before it was proved.

**Assumptions.** The pseudo process numbers are distinct and no process has one;
tasks informed of interrupts are processes; the first process has a positive
priority; the video memory of all consoles can be addressed by an unsigned and by
the registers of the display; inodes outnumber the
files the disk has sectors for; the messages of MM and its callers are among the
bodies of messages, and Init's number is below those of the slots. For the terminals:
the loop of `task_tty` comes to each of them from the first; lengths of reads and writes
are positive and have a largest one; and the messages of the calls are bodies, none of them
an interrupt's. For the disk:
positions and counts are multiples of a sector; an interrupt's message is none of a
request's; each extended partition begins with a table and has at most as many logical
ones as `hds_info` has room for, no two tables share a sector, and the device FS works
on lies on the disk and holds no table. Each is an ASSUME of the module that declares the
constants, and TLC evaluates it on the run's values.

**Only model-checked.** Liveness (`NoStarvation`, `ForkReturns`, `ExitWakesParent`,
`KeysDrained`, `EnterResumes`, `RequestsAnswered`, `SysServes`, `OutputEnds`), which
is out of the prover's reach. What `WritesInside` and `WindowInside` say of a console
with two writers. `Fs`'s `DiskConsistent` (with a directory that fills
its sector it does not hold, and what `mkfs` lays out would have to be assumed bit
by bit); of `Keyboard`, that keys arrive as typed, a statement about the whole
history of what was pressed. `Format`, `Untar` and, of `Exec`, that the words arrive
(`ArgsArrive`) compare algorithms with references: `i2a`, the walks over strings and
the list of the words of a line are recursions whose results would need induction over
data.

## 5. Not modelled

- Boot code, descriptor tables, interrupt controllers and port I/O: they run once
  or have no state that a property could be about.
- `fs/open.c`, `kernel/hd.c`, `kernel/nostdio.c`, `lib/open.c`, `lib/close.c` and
  `drive/driver.c`: not built.
- The order of the shell's calls: programs make any calls in `Mm`, `Fs` and `Tty`,
  which includes the shell's. The commands `echo` and `pwd` only print and exit.
- In `Mm`, memory images and segments: a forked child that runs before its LDT is
  set, and a copy of the process table entry that is itself interrupted, are
  listed as hazards without a property. In `Exec` the program is what it
  overwrites.
- In `Fs`, reads and writes of the root directory as a file, and more than one
  terminal. In `Keyboard`, the shifts a keyboard puts around grey keys when num lock
  is on, and the slash of the num pad. In `Console`, what the cells contain, and the screen that panic fills.
  In `Hd`, the functions that only print.
- In `Format`, lengths of buffers, and inputs no line of the repository gives a
  meaning to: a negative `%x`, zeroes before a sign, the smallest int, a format
  that ends in `%`.

## 6. Plan

Of the invariants the runs check, `DiskConsistent` is the one a proof could still reach: its
`MapsMatch` needs a layout in which no file begins where a byte of the map does (otherwise
`unlink` stops at its assertion or clears the bits of another file), its `DirExact` needs
`Roomy` and names shorter than the longest. Both would be hypotheses of the theorem, as `Roomy`
is of `FsInvariant`. What section 5 leaves out of `Mm` and `Fs` would be next in the models.
