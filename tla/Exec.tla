---------------------------------- MODULE Exec ----------------------------------
(***************************************************************************)
(* How the words of a command reach the program: shabby_shell splits the   *)
(* line in place, execv (lib/unistd.c) packs pointers and words into       *)
(* arg_stack, and do_exec (mm/exec.c) loads the program into the caller's  *)
(* memory, moves the stack to the top of it and corrects the pointers.     *)
(*                                                                         *)
(* Memory is bytes.  mem is the memory of the process that execs, rdbuf    *)
(* the shell's line buffer, whose place no step depends on.  The fork      *)
(* between open and execv copies all of it and is left to Mm.              *)
(***************************************************************************)
EXTENDS Integers, Sequences, SequencesExt

CONSTANTS
    Letters,             \* characters other than the blank
    LINE,                \* 70: the most read takes from the terminal
    RDBUF,               \* 128: bytes of rdbuf
    STACK,               \* PROC_ORIGIN_STACK
    ARG_STACK,           \* where arg_stack lies in the caller
    PROGRAM,             \* the program fills the memory below this address
    IMAGE                \* PROC_IMAGE_SIZE_DEFAULT: bytes of a process

VARIABLES
    line,                \* what was typed
    rdbuf,               \* the line buffer
    rd_p, rd_s, word,    \* the loop's pointers p and s, and its flag
    argv,                \* pointers into rdbuf
    mem, stack_len,      \* the process; how much of arg_stack is used
    args_done,           \* arguments packed so far
    ecx, eax,            \* registers the program starts with
    exec_pc

execVars == <<line, rdbuf, rd_p, rd_s, word, argv, mem, stack_len, args_done, ecx, eax, exec_pc>>
split_vars == <<line, rdbuf, rd_p, rd_s, word, argv>>

Blank == 32
Ptr == 4                                  \* sizeof(char*)
Junk == 255                               \* what is in memory before
ORIG_STACK == IMAGE - STACK

ASSUME ExecAssumption ==
    /\ Letters \subseteq 1 .. 254 /\ Blank \notin Letters
    /\ {LINE, RDBUF, STACK, ARG_STACK, PROGRAM, IMAGE} \subseteq Nat
    /\ LINE < RDBUF /\ IMAGE < 256 ^ 3
    \* a line of as many words as fit into it
    /\ Ptr * ((LINE + 1) \div 2 + 1) + LINE + 1 < STACK
    \* the program does not reach the caller's stack
    /\ PROGRAM <= ARG_STACK /\ ARG_STACK + STACK <= IMAGE

(***************************************************************************)
(* Bytes in memory                                                         *)
(***************************************************************************)
StrLen(m, a) == CHOOSE n \in 0 .. STACK : m[a + n] = 0 /\ \A i \in 0 .. n - 1 : m[a + i] # 0
StrAt(m, a) == [i \in 1 .. StrLen(m, a) |-> m[a + i - 1]]

Load(m, a) == m[a] + 256 * m[a + 1] + 256 ^ 2 * m[a + 2] + 256 ^ 3 * m[a + 3]

\* Memory after the bytes of a sequence are stored at address a.
Put(m, a, bytes) == [x \in DOMAIN m |-> IF x \in a .. a + Len(bytes) - 1 THEN bytes[x - a + 1] ELSE m[x]]
PutPtr(m, a, v) == Put(m, a, [i \in 1 .. Ptr |-> (v \div 256 ^ (i - 1)) % 256])

(***************************************************************************)
(* The shell                                                               *)
(***************************************************************************)

Lines == SeqOf(Letters \cup {Blank}, LINE)

\* A line has been read: it ends with a zero, behind which is what an earlier line left.
ExecInit(typed) ==
    /\ line = typed
    /\ rdbuf = [i \in 0 .. RDBUF - 1 |->
                  IF i < Len(line) THEN line[i + 1] ELSE IF i = Len(line) THEN 0 ELSE Junk]
    /\ rd_p = 0 /\ rd_s = 0 /\ word = FALSE /\ argv = << >>
    /\ mem = [a \in 0 .. IMAGE - 1 |-> Junk]
    /\ stack_len = 0 /\ args_done = 0 /\ ecx = 0 /\ eax = 0 /\ exec_pc = "split"

\* One iteration of the loop, which ends after the byte that was zero before it.
Split ==
    /\ exec_pc = "split"
    /\ LET c == rdbuf[rd_p]
           begins == c \notin {Blank, 0} /\ ~word
           ends == c \in {Blank, 0} /\ word
       IN  /\ rd_s' = IF begins THEN rd_p ELSE rd_s
           /\ word' = (begins \/ (word /\ ~ends))
           /\ argv' = IF ends THEN Append(argv, rd_s) ELSE argv
           /\ rdbuf' = IF ends THEN [rdbuf EXCEPT ![rd_p] = 0] ELSE rdbuf
           /\ exec_pc' = IF c = 0 THEN "open" ELSE "split"
    /\ rd_p' = rd_p + 1
    /\ UNCHANGED <<line, mem, stack_len, args_done, ecx, eax>>

\* There is no such file: the shell says so.  An empty line opens whatever name is at
\* address zero.
NotFound ==
    /\ exec_pc = "open" /\ exec_pc' = "done"
    /\ UNCHANGED <<split_vars, mem, stack_len, args_done, ecx, eax>>

Found ==
    /\ exec_pc = "open" /\ exec_pc' = "count"
    /\ UNCHANGED <<split_vars, mem, stack_len, args_done, ecx, eax>>

(***************************************************************************)
(* execv                                                                   *)
(***************************************************************************)

\* Room for one pointer per argument ...
Count ==
    /\ exec_pc = "count" /\ args_done < Len(argv)
    /\ IF stack_len + 2 * Ptr < STACK
       THEN stack_len' = stack_len + Ptr /\ args_done' = args_done + 1 /\ UNCHANGED exec_pc
       ELSE exec_pc' = "assert" /\ UNCHANGED <<stack_len, args_done>>
    /\ UNCHANGED <<split_vars, mem, ecx, eax>>

\* ... and the zero behind them.
Terminate ==
    /\ exec_pc = "count" /\ args_done = Len(argv)
    /\ mem' = PutPtr(mem, ARG_STACK + stack_len, 0)
    /\ stack_len' = stack_len + Ptr /\ args_done' = 0 /\ exec_pc' = "copy"
    /\ UNCHANGED <<split_vars, ecx, eax>>

Used(len) == len + 1

\* One word: the pointer to it, and its bytes.
Copy ==
    /\ exec_pc = "copy" /\ args_done < Len(argv)
    /\ LET text == StrAt(rdbuf, argv[args_done + 1])
           withPtr == PutPtr(mem, ARG_STACK + Ptr * args_done, ARG_STACK + stack_len)
       IN  IF stack_len + Len(text) + 1 < STACK
           THEN /\ mem' = Put(withPtr, ARG_STACK + stack_len, Append(text, 0))
                /\ stack_len' = stack_len + Used(Len(text)) /\ args_done' = args_done + 1
                /\ UNCHANGED exec_pc
           ELSE exec_pc' = "assert" /\ mem' = withPtr /\ UNCHANGED <<stack_len, args_done>>
    /\ UNCHANGED <<split_vars, ecx, eax>>

SendExec ==
    /\ exec_pc = "copy" /\ args_done = Len(argv) /\ exec_pc' = "load"
    /\ UNCHANGED <<split_vars, mem, stack_len, args_done, ecx, eax>>

(***************************************************************************)
(* do_exec                                                                 *)
(***************************************************************************)

\* The program is copied into the caller before the caller's stack is copied out.
LoadProgram ==
    /\ exec_pc = "load" /\ exec_pc' = "stack"
    /\ mem' = [a \in DOMAIN mem |-> IF a < PROGRAM THEN Junk ELSE mem[a]]
    /\ UNCHANGED <<split_vars, stack_len, args_done, ecx, eax>>

\* How many pointers there are before the zero.
Args(m) ==
    CHOOSE n \in 0 .. STACK : Load(m, ARG_STACK + Ptr * n) = 0
                              /\ \A i \in 0 .. n - 1 : Load(m, ARG_STACK + Ptr * i) # 0

\* Wrong: the pointers stay as they were in the caller's stack.
Moved_Not(ptr) == ptr

Moved(ptr) == ptr + (ORIG_STACK - ARG_STACK)

\* The stack at the top of the memory, with its pointers moved.
SetupStack ==
    /\ exec_pc = "stack" /\ exec_pc' = "run"
    /\ LET argc == Args(mem)
           bytes(i) == IF i < Ptr * argc
                       THEN (Moved(Load(mem, ARG_STACK + Ptr * (i \div Ptr))) \div 256 ^ (i % Ptr)) % 256
                       ELSE mem[ARG_STACK + i]
       IN  /\ mem' = Put(mem, ORIG_STACK, [i \in 1 .. stack_len |-> bytes(i - 1)])
           /\ ecx' = argc /\ eax' = ORIG_STACK
    /\ UNCHANGED <<split_vars, stack_len, args_done>>

ExecNext ==
    \/ Split \/ NotFound \/ Found
    \/ Count \/ Terminate \/ Copy \/ SendExec
    \/ LoadProgram \/ SetupStack

ExecSpec == (\E typed \in Lines : ExecInit(typed)) /\ [][ExecNext]_execVars

(***************************************************************************)
(* Properties                                                              *)
(***************************************************************************)

\* The runs of characters other than the blank, in order.
Words ==
    LET starts == {i \in DOMAIN line : line[i] # Blank /\ (i = 1 \/ line[i - 1] = Blank)}
        end(i) == CHOOSE j \in i .. Len(line) :
                     /\ \A x \in i .. j : line[x] # Blank
                     /\ j = Len(line) \/ line[j + 1] = Blank
        order == SetToSortSeq(starts, <)
    IN  [n \in DOMAIN order |-> SubSeq(line, order[n], end(order[n]))]

\* The program's main gets the words of the line, as strings that lie in its own
\* stack, and a zero behind the last pointer (execv and do_exec).
ArgsArrive ==
    exec_pc = "run" =>
        /\ ecx = Len(Words)
        /\ Load(mem, eax + Ptr * ecx) = 0
        /\ \A i \in 1 .. ecx :
              LET ptr == Load(mem, eax + Ptr * (i - 1))
              IN  ptr \in ORIG_STACK .. IMAGE - 1 /\ StrAt(mem, ptr) = Words[i]

\* No line makes an assertion of execv fail, and neither the line buffer nor
\* arg_stack is left.
StacksHold == exec_pc # "assert" /\ stack_len <= STACK /\ rd_p <= Len(line) + 1

\* The words of a line reach the program whole, within the memory set apart for them.
ArgsIntact == StacksHold /\ ArgsArrive
================================================================================
