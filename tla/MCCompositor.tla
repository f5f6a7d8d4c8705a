----------------------------- MODULE MCCompositor -----------------------------
(* Instances of Compositor for TLC.                                        *)
EXTENDS Compositor

CONSTANTS x1, x2, x3, x4

B == <<"b">>
T == <<"t">>

(* The windows reach over the bottom and the right edge of the screen. *)
Places == <<<<0, 1>>, <<2, 0>>>>
Arrow == {<<0, 0>>, <<0, 1>>}

With == <<[kind |-> "file", path |-> <<B, T>>, data |-> <<>>]>>
Path == <<B, T>>

(* Two clients whose windows fit; a failure anywhere; a request that is    *)
(* too wide, next to a window that the screen's edge cuts; and a mouse     *)
(* that moves over an empty screen.                                        *)
Sending == [archive |-> With, requests |-> <<<<1, 2>>, <<1, 1>>>>, nframes |-> 2,
            moves |-> {}, mishaps |-> 0, draws |-> TRUE]
Failing == [archive |-> With, requests |-> <<<<1, 1>>, <<1, 1>>>>, nframes |-> 1,
            moves |-> {}, mishaps |-> 1, draws |-> FALSE]
TooWide == [archive |-> With, requests |-> <<<<3, 1>>, <<2, 1>>>>, nframes |-> 1,
            moves |-> {}, mishaps |-> 0, draws |-> TRUE]
Moving == [archive |-> <<>>, requests |-> <<<<1, 1>>, <<1, 1>>>>, nframes |-> 1,
           moves |-> {<<1, 1>>, <<-2, -1>>}, mishaps |-> 0, draws |-> TRUE]

AllWindowScenes == {Sending, Failing, TooWide, Moving}
=============================================================================
