-------------------------------- MODULE Fifo --------------------------------
(* What a pipe promises: a bounded queue of bytes.  Every byte put in comes *)
(* out once, in order, and the queue never holds more than Size of them.    *)
EXTENDS Naturals, Sequences

CONSTANTS Byte, Size

VARIABLE chan

Init == chan = <<>>

Put(b) == Len(chan) < Size /\ chan' = Append(chan, b)

Get == chan # <<>> /\ chan' = Tail(chan)

Next == Get \/ \E b \in Byte : Put(b)

Spec == Init /\ [][Next]_chan
=============================================================================
