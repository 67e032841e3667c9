--------------------------------- MODULE Format ---------------------------------
(***************************************************************************)
(* Formatted output (lib/stdio.c): vsprintf goes through a format and its  *)
(* arguments and builds the text; i2a writes a number.  A format is made   *)
(* from a list of items, and the text is compared with what the items say. *)
(*                                                                         *)
(* A character is a string of length one, a text a sequence of characters, *)
(* an int a number of Word values.  For TLC only: i2a is recursive.        *)
(***************************************************************************)
EXTENDS Integers, Sequences, SequencesExt

CONSTANTS
    Word,            \* 2^32: how many values an int has
    MaxItems,        \* bound: items of a format
    Widths,          \* widths in a format, 0 for none
    Ints, Texts      \* arguments of %d and %x, arguments of %s

VARIABLES
    items,           \* the items of the format
    fmt, args,       \* what is left of the format and of the arguments
    out,               \* the text written so far
    stage,           \* "loop" between two items, else inside one
    cs, align_nr     \* the padding of the item

formatVars == <<items, fmt, args, out, stage, cs, align_nr>>

Digits == <<"0", "1", "2", "3", "4", "5", "6", "7", "8", "9", "A", "B", "C", "D", "E", "F">>
IsDigit(c) == \E i \in 1 .. 10 : Digits[i] = c
DigitVal(c) == (CHOOSE i \in 1 .. 10 : Digits[i] = c) - 1

(***************************************************************************)
(* What the items say                                                      *)
(***************************************************************************)
Directives ==
    [zero : BOOLEAN, width : Widths, conv : {"c"}, arg : {"b"}]
    \cup [zero : BOOLEAN, width : Widths, conv : {"s"}, arg : Texts]
    \cup [zero : BOOLEAN, width : Widths, conv : {"x"}, arg : {n \in Ints : n >= 0}]
    \cup [zero : BOOLEAN, width : Widths, conv : {"d"}, arg : Ints]

\* A number cannot have zeroes in front of its sign.
Items ==
    [conv : {"lit"}, arg : {"a", "%"}]
    \cup {d \in Directives : ~(d.zero /\ d.conv = "d" /\ d.arg < 0)}

\* The shortest digits of a natural number.
Numeral(n, base) ==
    LET len == CHOOSE k \in 1 .. 8 : n < base ^ k /\ (k = 1 \/ n >= base ^ (k - 1))
    IN  [i \in 1 .. len |-> Digits[((n \div base ^ (len - i)) % base) + 1]]

Abs(n) == IF n < 0 THEN -n ELSE n

Said(d) ==
    CASE d.conv \in {"lit", "c"} -> <<d.arg>>
      [] d.conv = "s" -> d.arg
      [] d.conv = "x" -> Numeral(d.arg, 16)
      [] d.conv = "d" -> (IF d.arg < 0 THEN <<"-">> ELSE << >>) \o Numeral(Abs(d.arg), 10)

Padded(d) ==
    LET n == IF d.conv = "lit" \/ d.width <= Len(Said(d)) THEN 0 ELSE d.width - Len(Said(d))
    IN  [i \in 1 .. n |-> IF d.zero THEN "0" ELSE " "] \o Said(d)

\* An item as it is written in a format.
Written(d) ==
    IF d.conv = "lit" THEN IF d.arg = "%" THEN <<"%", "%">> ELSE <<d.arg>>
    ELSE <<"%">> \o (IF d.zero THEN <<"0">> ELSE << >>)
                 \o (IF d.width = 0 THEN << >> ELSE Numeral(d.width, 10)) \o <<d.conv>>

Formats == SeqOf(Items, MaxItems)

FormatInit(list) ==
    /\ items = list
    /\ fmt = FlattenSeq([i \in DOMAIN items |-> Written(items[i])])
    /\ args = [i \in 1 .. Len(SelectSeq(items, LAMBDA d : d.conv # "lit")) |->
                 SelectSeq(items, LAMBDA d : d.conv # "lit")[i].arg]
    /\ out = << >> /\ stage = "loop" /\ cs = " " /\ align_nr = 0

(***************************************************************************)
(* i2a and vsprintf                                                        *)
(***************************************************************************)

\* Division and remainder of C, which cut off towards zero.
Quot(a, b) == IF a >= 0 THEN a \div b ELSE -((-a) \div b)
Rem(a, b) == a - b * Quot(a, b)

\* The value as an int: more than an int can hold becomes negative.
AsInt(n) == ((n + Word \div 2) % Word) - Word \div 2

RECURSIVE i2a(_, _)
i2a(val, base) ==
    LET q == Quot(val, base)
        m == Rem(val, base)
    IN  (IF q # 0 THEN i2a(q, base) ELSE << >>) \o <<IF m < 0 THEN "junk" ELSE Digits[m + 1]>>

Is(s, c) == stage = s /\ fmt # << >> /\ Head(fmt) = c

\* A character that stands for itself.
Literal ==
    /\ stage = "loop" /\ fmt # << >> /\ Head(fmt) # "%"
    /\ out' = Append(out, Head(fmt)) /\ fmt' = Tail(fmt)
    /\ UNCHANGED <<items, args, stage, cs, align_nr>>

\* A percent sign begins an item ...
Percent ==
    /\ Is("loop", "%")
    /\ fmt' = Tail(fmt) /\ align_nr' = 0 /\ stage' = "flag"
    /\ UNCHANGED <<items, args, out, cs>>

\* ... unless another one follows.
Escaped ==
    /\ Is("flag", "%")
    /\ out' = Append(out, "%") /\ fmt' = Tail(fmt) /\ stage' = "loop"
    /\ UNCHANGED <<items, args, cs, align_nr>>

Flag ==
    /\ stage = "flag" /\ fmt # << >> /\ Head(fmt) # "%"
    /\ stage' = "width"
    /\ IF Head(fmt) = "0" THEN cs' = "0" /\ fmt' = Tail(fmt) ELSE cs' = " " /\ UNCHANGED fmt
    /\ UNCHANGED <<items, args, out, align_nr>>

Width ==
    /\ stage = "width" /\ fmt # << >> /\ IsDigit(Head(fmt))
    /\ align_nr' = align_nr * 10 + DigitVal(Head(fmt)) /\ fmt' = Tail(fmt)
    /\ UNCHANGED <<items, args, out, stage, cs>>

\* inner_buf for the item.
Inner(conv, arg) ==
    CASE conv = "c" -> <<arg>>
      [] conv = "x" -> i2a(arg, 16)
      [] conv = "d" -> (IF arg < 0 THEN <<"-">> ELSE << >>) \o i2a(IF arg < 0 THEN AsInt(-arg) ELSE arg, 10)
      [] conv = "s" -> arg
      [] OTHER -> << >>

\* Wrong: the padding is the width, whatever is padded.
Padding_Full(text) == [i \in 1 .. align_nr |-> cs]

Padding(text) ==
    [i \in 1 .. (IF align_nr > Len(text) THEN align_nr - Len(text) ELSE 0) |-> cs]

Convert ==
    /\ stage = "width" /\ fmt # << >> /\ ~IsDigit(Head(fmt))
    /\ LET text == Inner(Head(fmt), Head(args))
       IN  out' = out \o Padding(text) \o text
    /\ args' = IF Head(fmt) \in {"c", "x", "d", "s"} THEN Tail(args) ELSE args
    /\ fmt' = Tail(fmt) /\ stage' = "loop"
    /\ UNCHANGED <<items, cs, align_nr>>

FormatNext == Literal \/ Percent \/ Escaped \/ Flag \/ Width \/ Convert

FormatSpec == (\E list \in Formats : FormatInit(list)) /\ [][FormatNext]_formatVars

(***************************************************************************)
(* Properties                                                              *)
(***************************************************************************)

\* When vsprintf is at the end of the format, the text is what the items say, and
\* every argument has been used.
FormatExact ==
    stage = "loop" /\ fmt = << >> =>
        out = FlattenSeq([i \in DOMAIN items |-> Padded(items[i])]) /\ args = << >>
================================================================================
