------------------------------ MODULE MCKeyboard ------------------------------
(* An instance of Keyboard: letters and modifiers, the num pad, long scan codes. *)
EXTENDS Keyboard

MCSessions ==
    {[keys |-> {"a", "SHIFT_L", "CTRL_R", "CAPS_LOCK"}, maxEvents |-> 4],
     [keys |-> {"PAD_UP", "UP", "NUM_LOCK", "SHIFT_R"}, maxEvents |-> 4],
     [keys |-> {"PRINTSCREEN", "PAUSEBREAK", "ALT_R", "SCROLL_LOCK"}, maxEvents |-> 3]}
================================================================================
