------------------------------- MODULE MCInput -------------------------------
(* Instances of Input for TLC.                                             *)
EXTENDS Input

CONSTANT r1

(* Lines are edited, on a console that programs print on as well. *)
Editing == [keys |-> {"A", "TAB", "ENTER", "BACKSPACE"}, counts |-> {}, outputs |-> {<<"o">>}]

(* Lines are read, in pieces of one and three bytes. *)
Delivery == [keys |-> {"LSHIFT", "A", "ENTER", "F1"}, counts |-> {1, 3}, outputs |-> {}]

Resting == [keys |-> {}, counts |-> {}, outputs |-> {}]

AllKbdScenes == {Editing, Delivery, Resting}

(* Reports with small motions, up and to the right, one with overflow; and *)
(* with motions to the left and down, whose bytes have bit 3 set.          *)
SmallSteps == {<<8, 1, 2>>, <<9, 0, 7>>, <<72, 0, 1>>}
AnySteps == {<<56, 255, 254>>, <<8, 8, 1>>}

AllDevices == {{}, SmallSteps, AnySteps}

MouseCalls == {<<2, FALSE>>, <<1, TRUE>>}
=============================================================================
