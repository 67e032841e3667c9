------------------------------- MODULE MCConsole -------------------------------
(* An instance of Console: lines of two cells, a screen of two lines, and       *)
(* consoles of half a line more than two.  In the first setting TTY alone       *)
(* writes to the consoles, one at a time; in the others the kernel prints on    *)
(* the first console, to which TTY writes too, and in the last one it is        *)
(* scrolled by hand besides.                                                    *)
EXTENDS Console

MCSettings ==
    {[used |-> {0, 1}, scrolled |-> {0, 1}, onlyShown |-> TRUE, printx |-> FALSE],
     [used |-> {0}, scrolled |-> {}, onlyShown |-> FALSE, printx |-> TRUE],
     [used |-> {0}, scrolled |-> {0}, onlyShown |-> FALSE, printx |-> TRUE]}
================================================================================
