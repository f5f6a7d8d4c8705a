-------------------------------- MODULE Input --------------------------------
(* The two input devices.  Their drivers share no state, so a behaviour    *)
(* uses one of them; the other rests.                                      *)
EXTENDS Keyboard, Mouse

VARIABLE device

inputVars == <<device, kbdVars, mouseVars>>

Init ==
    /\ KeyboardInit /\ MouseInit /\ device \in {"keyboard", "mouse"}
    /\ (device = "keyboard") = (reports = {})
    /\ (device = "mouse") = (kbdScene.keys = {})

Next ==
    /\ \/ device = "keyboard" /\ KeyboardNext /\ UNCHANGED mouseVars
       \/ device = "mouse" /\ MouseNext /\ UNCHANGED kbdVars
    /\ UNCHANGED device

Spec == Init /\ [][Next]_inputVars

(* Nobody sleeps over input that has arrived: neither cli ... sti window,  *)
(* of keyboard_read or of mouse_read, loses the wake-up of its interrupt.  *)
NoInputWaits == NoByteWaits /\ NoPacketWaits
=============================================================================
