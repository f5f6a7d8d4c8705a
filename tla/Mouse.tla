-------------------------------- MODULE Mouse --------------------------------
(***************************************************************************)
(* The mouse driver (drivers/mouse.c): packets assembled byte by byte from *)
(* a stream in which bytes can be lost, buffered, and handed to a reader   *)
(* that may or may not want to block.                                      *)
(***************************************************************************)
EXTENDS Integers, SequencesExt

CONSTANTS
    MOUSE_BUF_SIZE,
    Devices,          \* each the set of 3-byte packets that a device sends
    MaxReports,       \* bound: packets the device sends
    MaxLost,          \* bound: bytes lost on the way
    ReadCalls         \* the <<max_packets, nonblock>> of mouse_read's callers

(* Bit k of a byte. *)
Bit(byte, k) == (byte \div 2^k) % 2 = 1

(* PS/2 mice set bit 3 of the first byte of a packet (mouse.c:76). *)
ASSUME MouseAssumption ==
    /\ MOUSE_BUF_SIZE \in Nat \ {0, 1}
    /\ \A device \in Devices :
          /\ device \subseteq [1 .. 3 -> 0 .. 255]
          /\ \A r \in device : Bit(r[1], 3)
    /\ MaxReports \in Nat /\ MaxLost \in Nat
    /\ ReadCalls \subseteq (Nat \ {0}) \X BOOLEAN

VARIABLES
    reports,       \* what the device at hand sends
    wire,          \* the bytes of the packet being sent that are still to come
    nsent,         \* packets sent so far
    nlost,
    packet_bytes,  \* packet_bytes[0 .. packet_idx)
    mouse_buf,     \* the circular buffer from mouse_tail up to mouse_head
    mouse_waiting, \* the reader is on mouse_waitq, in PROCESS_BLOCKED_MOUSE
    call,          \* its mouse_read: [max, nonblock, n], or InUserMode
    ngarbage       \* auxiliary: packets queued that the device never sent

mouseVars ==
    <<reports, wire, nsent, nlost, packet_bytes, mouse_buf, mouse_waiting, call, ngarbage>>

InUserMode == [max |-> 0, nonblock |-> FALSE, n |-> 0]

MouseInit ==
    /\ reports \in Devices
    /\ wire = <<>> /\ nsent = 0 /\ nlost = 0 /\ packet_bytes = <<>>
    /\ mouse_buf = <<>> /\ mouse_waiting = FALSE /\ call = InUserMode /\ ngarbage = 0

(* The packet that three bytes stand for: nine-bit deltas whose sign bits  *)
(* are bits 4 and 5 of the first byte.                                     *)
Decode(flags, x, y) ==
    [dx |-> IF Bit(flags, 4) THEN x - 256 ELSE x,
     dy |-> IF Bit(flags, 5) THEN y - 256 ELSE y,
     buttons |-> flags % 8]

(* The device starts its next report; every byte remembers where it is     *)
(* from.                                                                   *)
Report(r) ==
    /\ wire = <<>> /\ nsent < MaxReports
    /\ wire' = [i \in 1 .. 3 |-> [byte |-> r[i], of |-> nsent, at |-> i]]
    /\ nsent' = nsent + 1
    /\ UNCHANGED <<nlost, packet_bytes, mouse_buf, mouse_waiting, call, ngarbage>>

(* A byte is lost before the interrupt handler has read it. *)
LoseByte ==
    /\ wire # <<>> /\ nlost < MaxLost
    /\ wire' = Tail(wire) /\ nlost' = nlost + 1
    /\ UNCHANGED <<nsent, packet_bytes, mouse_buf, mouse_waiting, call, ngarbage>>

(* Three bytes that the device sent as one packet. *)
Genuine(bytes) == \A i \in 1 .. 3 : bytes[i].of = bytes[1].of /\ bytes[i].at = i

mouse_buf_push(pkt) ==
    mouse_buf' = IF Len(mouse_buf) = MOUSE_BUF_SIZE - 1 THEN mouse_buf
                 ELSE Append(mouse_buf, pkt)

(* Mutant: a packet that no byte 0 can start is assembled all the same. *)
InStep_always(data) == TRUE

(* The byte may follow what has been assembled. *)
InStep(data) == packet_bytes # <<>> \/ Bit(data, 3)

Overflowed(flags) == Bit(flags, 6) \/ Bit(flags, 7)

(* The packet is complete: it is dropped, or queued and a reader woken. *)
Complete(bytes) ==
    /\ packet_bytes' = <<>>
    /\ IF Overflowed(bytes[1].byte)
       THEN UNCHANGED <<mouse_buf, mouse_waiting, ngarbage>>
       ELSE /\ mouse_buf_push(Decode(bytes[1].byte, bytes[2].byte, bytes[3].byte))
            /\ mouse_waiting' = FALSE
            /\ ngarbage' = ngarbage + IF Genuine(bytes) THEN 0 ELSE 1

on_irq12 ==
    /\ wire # <<>> /\ wire' = Tail(wire)
    /\ LET bytes == Append(packet_bytes, Head(wire))
       IN  IF ~ InStep(Head(wire).byte)
           THEN UNCHANGED <<packet_bytes, mouse_buf, mouse_waiting, ngarbage>>
           ELSE IF Len(bytes) < 3
           THEN packet_bytes' = bytes /\ UNCHANGED <<mouse_buf, mouse_waiting, ngarbage>>
           ELSE Complete(bytes)
    /\ UNCHANGED <<nsent, nlost, call>>

SYS_mouse_read(c) ==
    /\ call = InUserMode
    /\ call' = [max |-> c[1], nonblock |-> c[2], n |-> 0]
    /\ UNCHANGED <<wire, nsent, nlost, packet_bytes, mouse_buf, mouse_waiting, ngarbage>>

(* One turn of mouse_read's loop: a packet, the end, or the wait queue. *)
mouse_read ==
    /\ call # InUserMode /\ ~ mouse_waiting
    /\ IF mouse_buf # <<>>
       THEN /\ mouse_buf' = Tail(mouse_buf)
            /\ call' = IF call.n + 1 < call.max THEN [call EXCEPT !.n = @ + 1] ELSE InUserMode
            /\ UNCHANGED mouse_waiting
       ELSE /\ IF call.n > 0 \/ call.nonblock
               THEN call' = InUserMode /\ UNCHANGED mouse_waiting
               ELSE mouse_waiting' = TRUE /\ UNCHANGED call
            /\ UNCHANGED mouse_buf
    /\ UNCHANGED <<wire, nsent, nlost, packet_bytes, ngarbage>>

MouseNext ==
    /\ \/ \E r \in reports : Report(r)
       \/ LoseByte \/ on_irq12 \/ mouse_read
       \/ \E c \in ReadCalls : SYS_mouse_read(c)
    /\ UNCHANGED reports
-----------------------------------------------------------------------------
(* mouse.c:76: byte 0 "always has bit 3 set"; a byte without it is dropped *)
(* "instead of building a garbage packet out of it".  While no byte is     *)
(* lost every packet queued is one the device sent, and if its motion      *)
(* bytes have bit 3 clear, each lost byte costs one false packet at most:  *)
(* the assembly is back in step with the next report.                      *)
MouseInSync ==
    /\ nlost = 0 => ngarbage = 0
    /\ (\A r \in reports : ~ Bit(r[2], 3) /\ ~ Bit(r[3], 3)) => ngarbage <= nlost

(* mouse.c:132: a reader on the wait queue has fetched nothing, is one     *)
(* that may block, and leaves no packet behind in the buffer.              *)
NoPacketWaits == mouse_waiting => mouse_buf = <<>> /\ call.n = 0 /\ ~ call.nonblock
=============================================================================
