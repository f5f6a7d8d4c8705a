----------------------------- MODULE InputProofs -----------------------------
(* Proof that no reader of the keyboard or of the mouse sleeps over input, *)
(* for every size of the buffers and whatever is typed, moved and read.    *)
EXTENDS Input, FiniteSetTheorems, TLAPS

(* The keyboard's wait queue holds its reader exactly while that reader is *)
(* blocked, which it is only over an empty buffer.                         *)
KbdInv(r) ==
    /\ kbd_waitq = IF kstate[r] = "BLOCKED_KBD" THEN <<r>> ELSE <<>>
    /\ kstate[r] = "BLOCKED_KBD" => kbd_buf = <<>>
    /\ kstate \in [{r} -> {"READY", "BLOCKED_KBD"}]

(* The mouse's reader is parked in a call that may block and has fetched   *)
(* nothing.                                                                *)
MouseInv ==
    /\ call \in [max : Nat, nonblock : BOOLEAN, n : Nat]
    /\ mouse_waiting \in BOOLEAN
    /\ mouse_waiting => call # InUserMode
    /\ NoPacketWaits

(* Waking the head leaves nobody blocked. *)
LEMMA WakesAll ==
    ASSUME NEW r, KbdInv(r), WakeHead
    PROVE  kbd_waitq' = <<>> /\ kstate' = [kstate EXCEPT ![r] = "READY"]
<1>1. CASE kstate[r] = "BLOCKED_KBD"
  <2>1. kbd_waitq = <<r>> /\ Head(kbd_waitq) = r /\ Tail(kbd_waitq) = <<>> /\ kbd_waitq # <<>>
    BY <1>1 DEF KbdInv
  <2> QED
    BY <2>1 DEF WakeHead
<1>2. CASE kstate[r] = "READY"
  BY <1>2 DEF WakeHead, KbdInv
<1> QED
  BY <1>1, <1>2 DEF KbdInv

(* A key either commits the line and wakes the reader, or leaves the       *)
(* buffer, the queue and the reader as they are.                           *)
LEMMA KeyInv ==
    ASSUME NEW r, KbdInv(r), NEW key, NEW is_break, on_irq1(key, is_break)
    PROVE  KbdInv(r)'
<1>1. CASE WakeHead
  BY <1>1, WakesAll DEF KbdInv
<1>2. CASE UNCHANGED <<kbd_buf, kbd_waitq, kstate>>
  BY <1>2 DEF KbdInv
<1> QED
  BY <1>1, <1>2 DEF on_irq1, EraseLast, TypeChar, CommitLine, KeepLine

(* The reader blocks only over an empty buffer. *)
LEMMA ReadInv ==
    ASSUME NEW r, KbdInv(r), keyboard_read(r)
    PROVE  KbdInv(r)'
<1>1. kbd_waitq = <<>> /\ kstate[r] = "READY"
  BY DEF KbdInv, keyboard_read
<1>2. Append(<<>>, r) = <<r>>
  OBVIOUS
<1>3. CASE kbd_buf # <<>>
  BY <1>1, <1>3 DEF KbdInv, keyboard_read
<1>4. CASE kbd_buf = <<>>
  BY <1>1, <1>2, <1>4 DEF KbdInv, keyboard_read
<1> QED
  BY <1>3, <1>4

(* Every step of the keyboard preserves its invariant. *)
LEMMA KbdNextInv ==
    ASSUME NEW r, Readers = {r}, KbdInv(r), KeyboardNext
    PROVE  KbdInv(r)'
<1>1. ASSUME NEW n, SYS_read_kbd(r, n) PROVE KbdInv(r)'
  BY <1>1 DEF SYS_read_kbd, KbdInv
<1>2. ASSUME NEW str, SYS_write_console(str) PROVE KbdInv(r)'
  BY <1>2 DEF SYS_write_console, KbdInv
<1> QED
  BY <1>1, <1>2, KeyInv, ReadInv DEF KeyboardNext

(* Every step of the mouse preserves its invariant. *)
LEMMA MouseNextInv ==
    ASSUME MouseInv, MouseNext
    PROVE  MouseInv'
<1>1. CASE \E x \in reports : Report(x)
  BY <1>1 DEF Report, MouseInv, NoPacketWaits
<1>2. CASE LoseByte
  BY <1>2 DEF LoseByte, MouseInv, NoPacketWaits
<1>3. CASE on_irq12
  <2>1. UNCHANGED call
    BY <1>3 DEF on_irq12
  <2>2. mouse_waiting' = FALSE \/ UNCHANGED <<mouse_buf, mouse_waiting>>
    <3>1. \/ UNCHANGED <<mouse_buf, mouse_waiting, ngarbage>>
          \/ \E bytes : Complete(bytes)
      BY <1>3 DEF on_irq12
    <3>2. ASSUME NEW bytes, Complete(bytes)
          PROVE  mouse_waiting' = FALSE \/ UNCHANGED <<mouse_buf, mouse_waiting, ngarbage>>
      BY <3>2 DEF Complete
    <3> QED
      BY Zenon, <3>1, <3>2
  <2>3. CASE mouse_waiting' = FALSE
    BY Zenon, <2>1, <2>3 DEF MouseInv, NoPacketWaits
  <2>4. CASE UNCHANGED <<mouse_buf, mouse_waiting>>
    BY <2>1, <2>4 DEF MouseInv, NoPacketWaits
  <2> QED
    BY Zenon, <2>2, <2>3, <2>4
<1>4. CASE mouse_read
  <2>1. mouse_waiting = FALSE /\ call # InUserMode
    BY <1>4 DEF mouse_read, MouseInv
  <2>2. InUserMode \in [max : Nat, nonblock : BOOLEAN, n : Nat]
    BY DEF InUserMode
  <2>3. CASE mouse_buf # <<>>
    <3>1. mouse_waiting' = FALSE
      BY <1>4, <2>1, <2>3 DEF mouse_read
    <3>2. call' \in [max : Nat, nonblock : BOOLEAN, n : Nat]
      BY <1>4, <2>2, <2>3 DEF mouse_read, MouseInv
    <3> QED
      BY Zenon, <3>1, <3>2 DEF MouseInv, NoPacketWaits
  <2>4. CASE mouse_buf = <<>> /\ (call.n > 0 \/ call.nonblock)
    BY <1>4, <2>1, <2>2, <2>4 DEF mouse_read, MouseInv, NoPacketWaits
  <2>5. CASE mouse_buf = <<>> /\ ~ (call.n > 0 \/ call.nonblock)
    <3>1. call.n = 0 /\ ~ call.nonblock
      BY <2>5 DEF MouseInv
    <3>2. mouse_waiting' = TRUE /\ UNCHANGED <<call, mouse_buf>>
      BY <1>4, <2>5 DEF mouse_read
    <3> QED
      BY <2>1, <2>5, <3>1, <3>2 DEF MouseInv, NoPacketWaits
  <2> QED
    BY <2>3, <2>4, <2>5
<1>5. CASE \E c \in ReadCalls : SYS_mouse_read(c)
  <2>1. PICK c \in ReadCalls : SYS_mouse_read(c)
    BY <1>5
  <2>2. c[1] \in Nat /\ c[2] \in BOOLEAN
    BY MouseAssumption
  <2>3. mouse_waiting = FALSE /\ mouse_waiting' = FALSE
    BY <2>1 DEF SYS_mouse_read, MouseInv
  <2>4. call' \in [max : Nat, nonblock : BOOLEAN, n : Nat]
    BY <2>1, <2>2 DEF SYS_mouse_read
  <2> QED
    BY Zenon, <2>3, <2>4 DEF MouseInv, NoPacketWaits
<1> QED
  BY <1>1, <1>2, <1>3, <1>4, <1>5 DEF MouseNext

(* A mouse that reports, a reader that polls or blocks, and a single       *)
(* reader of the keyboard.                                                 *)
InputInv ==
    /\ MouseInv
    /\ \A r : Readers = {r} => KbdInv(r)

(* Nothing is buffered and nobody waits when the drivers start. *)
LEMMA InputInitInv == Init => InputInv
<1> SUFFICES ASSUME Init PROVE InputInv
  OBVIOUS
<1>1. MouseInv
  BY Zenon DEF Init, MouseInit, MouseInv, NoPacketWaits, InUserMode
<1>2. ASSUME NEW r, Readers = {r} PROVE KbdInv(r)
  BY <1>2 DEF Init, KeyboardInit, KbdInv
<1> QED
  BY <1>1, <1>2 DEF InputInv

(* Every step of either device preserves the invariant. *)
LEMMA InputNextInv == InputInv /\ [Next]_inputVars => InputInv'
<1> SUFFICES ASSUME InputInv, [Next]_inputVars PROVE InputInv'
  OBVIOUS
<1>1. MouseInv'
  <2>1. MouseNext \/ UNCHANGED mouseVars
    BY DEF Next, inputVars
  <2>2. CASE UNCHANGED mouseVars
    BY <2>2 DEF InputInv, MouseInv, NoPacketWaits, mouseVars
  <2> QED
    BY <2>1, <2>2, MouseNextInv DEF InputInv
<1>2. ASSUME NEW r, Readers = {r} PROVE KbdInv(r)'
  <2>1. KeyboardNext \/ UNCHANGED kbdVars
    BY DEF Next, inputVars
  <2>2. KbdInv(r)
    BY <1>2 DEF InputInv
  <2>3. CASE UNCHANGED kbdVars
    BY <2>2, <2>3 DEF KbdInv, kbdVars
  <2> QED
    BY <1>2, <2>1, <2>2, <2>3, KbdNextInv
<1> QED
  BY <1>1, <1>2 DEF InputInv

(* keyboard.c:185 and mouse.c:132: "cli/sti around the empty-check +       *)
(* enqueue close the race".  No reader of the mouse and no single reader   *)
(* of the keyboard sleeps over input that has arrived.                     *)
THEOREM InputAwaited == Spec => []NoInputWaits
<1>1. InputInv => NoInputWaits
  <2> SUFFICES ASSUME InputInv, Cardinality(Readers) = 1, NEW r \in Readers
               PROVE  kstate[r] = "BLOCKED_KBD" => kbd_buf = <<>>
    BY DEF NoInputWaits, NoByteWaits, InputInv, MouseInv
  <2>1. Readers = {r}
    BY ReadersAssumption, FS_Singleton
  <2> QED
    BY Zenon, <2>1 DEF InputInv, KbdInv
<1> QED
  BY <1>1, InputInitInv, InputNextInv, PTL DEF Spec
-----------------------------------------------------------------------------
(* A byte on its way, or in the packet being assembled. *)
SentByte == [byte : 0 .. 255, of : Nat, at : 1 .. 3]

(* The bytes still to come are the end of the last report. *)
WireInv ==
    /\ wire \in Seq(SentByte) /\ Len(wire) <= 3
    /\ \A i \in 1 .. Len(wire) :
          /\ wire[i].of = nsent - 1 /\ wire[i].at = 3 - Len(wire) + i
          /\ \E r \in reports : wire[i].byte = r[wire[i].at]

(* Fewer than three bytes are assembled, all of them sent before. *)
PacketInv ==
    /\ packet_bytes \in Seq(SentByte) /\ Len(packet_bytes) <= 2
    /\ \A i \in 1 .. Len(packet_bytes) : packet_bytes[i].of < nsent

(* What is assembled and what is still to come are one report. *)
Aligned ==
    /\ Len(packet_bytes) + Len(wire) = 3
    /\ \A i \in 1 .. Len(packet_bytes) : packet_bytes[i].of = nsent - 1 /\ packet_bytes[i].at = i

(* The device sends motion bytes with bit 3 clear. *)
SmallMotion == \A r \in reports : ~ Bit(r[2], 3) /\ ~ Bit(r[3], 3)

(* While nothing is lost the assembly is aligned.  Whenever it is not, a   *)
(* byte was lost since its first byte came, and no packet has been charged *)
(* to that loss yet.                                                       *)
SyncInv ==
    /\ reports \in Devices /\ nsent \in Nat /\ nlost \in Nat /\ ngarbage \in Nat
    /\ WireInv /\ PacketInv
    /\ nlost = 0 => /\ ngarbage = 0
                    /\ Aligned \/ (packet_bytes = <<>> /\ wire = <<>>)
    /\ SmallMotion =>
          ngarbage + (IF packet_bytes = <<>> \/ Aligned THEN 0 ELSE 1) <= nlost

(* A function on 1 .. n is a sequence of length n. *)
LEMMA OfLength ==
    ASSUME NEW S, NEW n \in Nat, NEW f \in [1 .. n -> S]
    PROVE  f \in Seq(S) /\ Len(f) = n
  OBVIOUS

(* The length of a sequence is a number, and not 0 unless it is empty; Tail shortens it by one. *)
LEMMA LengthBound ==
    ASSUME NEW S, NEW q \in Seq(S), NEW n \in Nat, Len(q) <= n
    PROVE  /\ Len(q) \in 0 .. n
           /\ q # <<>> => /\ Len(q) \in 1 .. n
                          /\ Len(Tail(q)) \in 0 .. n - 1
                          /\ 1 .. Len(Tail(q)) = 1 .. Len(q) - 1
<1>1. Len(q) \in Nat
  OBVIOUS
<1>2. ASSUME q # <<>>
      PROVE  Len(q) # 0 /\ Len(Tail(q)) = Len(q) - 1
  BY <1>2
<1> QED
  BY <1>1, <1>2

(* The next report starts when the one before it is through. *)
LEMMA ReportSync ==
    ASSUME SyncInv, NEW r \in reports, Report(r), UNCHANGED reports
    PROVE  SyncInv'
<1>1. /\ wire = <<>> /\ wire' = [i \in 1 .. 3 |-> [byte |-> r[i], of |-> nsent, at |-> i]]
      /\ nsent' = nsent + 1 /\ nsent \in Nat
      /\ UNCHANGED <<nlost, packet_bytes, ngarbage>>
  BY DEF Report, SyncInv
<1>2. r \in [1 .. 3 -> 0 .. 255]
  BY MouseAssumption DEF SyncInv
<1>3. WireInv'
  <2>1. wire' \in [1 .. 3 -> SentByte]
    BY <1>1, <1>2 DEF SentByte
  <2>2. wire' \in Seq(SentByte) /\ Len(wire') = 3
    BY Zenon, <2>1, OfLength
  <2>3. \A i \in 1 .. 3 : wire'[i].of = nsent' - 1 /\ wire'[i].at = i /\ wire'[i].byte = r[i]
    BY <1>1
  <2> QED
    BY <2>2, <2>3 DEF WireInv
<1>4. PacketInv'
  <2>0. packet_bytes \in Seq(SentByte)
    BY DEF SyncInv, PacketInv
  <2>1. \A i \in 1 .. Len(packet_bytes) : packet_bytes[i] \in SentByte
    BY <2>0
  <2>2. \A i \in 1 .. Len(packet_bytes) : packet_bytes[i].of < nsent /\ packet_bytes[i].of \in Nat
    BY <2>1 DEF SyncInv, PacketInv, SentByte
  <2> QED
    BY <1>1, <2>2 DEF SyncInv, PacketInv
<1>5. Len(wire') = 3 /\ Len(wire) = 0 /\ Len(packet_bytes) \in 0 .. 2
  <2>1. wire' \in [1 .. 3 -> SentByte]
    BY <1>1, <1>2 DEF SentByte
  <2>2. Len(wire') = 3
    BY <2>1, OfLength
  <2>3. packet_bytes \in Seq(SentByte) /\ Len(packet_bytes) <= 2
    BY DEF SyncInv, PacketInv
  <2>4. Len(packet_bytes) \in 0 .. 2
    BY Zenon, <2>3, LengthBound
  <2> QED
    BY <1>1, <2>2, <2>4
<1>6. packet_bytes = <<>> \/ ~ Aligned
  BY <1>5 DEF Aligned
<1>7. packet_bytes = <<>> => Aligned'
  BY <1>1, <1>5 DEF Aligned
<1>8. nlost' = 0 => ngarbage' = 0 /\ Aligned'
  BY <1>1, <1>6, <1>7 DEF SyncInv
<1>9. SmallMotion' = SmallMotion
  BY DEF SmallMotion
<1>10. SmallMotion' =>
         ngarbage' + (IF packet_bytes' = <<>> \/ Aligned' THEN 0 ELSE 1) <= nlost'
  BY <1>1, <1>6, <1>9 DEF SyncInv
<1> QED
  BY <1>1, <1>3, <1>4, <1>8, <1>10 DEF SyncInv

(* What the wire holds once its first byte is gone. *)
LEMMA WireTail ==
    ASSUME SyncInv, wire # <<>>, wire' = Tail(wire), UNCHANGED <<nsent, reports>>
    PROVE  WireInv' /\ Len(wire') = Len(wire) - 1 /\ Len(wire) \in 1 .. 3
<1>1. wire \in Seq(SentByte) /\ Len(wire) \in 1 .. 3
  <2>1. wire \in Seq(SentByte) /\ Len(wire) <= 3
    BY DEF SyncInv, WireInv
  <2> QED
    BY Zenon, <2>1, LengthBound
<1>2. /\ wire' \in Seq(SentByte) /\ Len(wire') = Len(wire) - 1
      /\ \A i \in 1 .. Len(wire) - 1 : wire'[i] = wire[i + 1]
  BY <1>1
<1>3. ASSUME NEW i \in 1 .. Len(wire) - 1
      PROVE  /\ wire'[i].of = nsent' - 1 /\ wire'[i].at = 3 - Len(wire') + i
             /\ \E r \in reports' : wire'[i].byte = r[wire'[i].at]
  <2>1. i + 1 \in 1 .. Len(wire)
    BY <1>1
  <2>2. /\ wire[i + 1].of = nsent - 1 /\ wire[i + 1].at = 3 - Len(wire) + (i + 1)
        /\ \E r \in reports : wire[i + 1].byte = r[wire[i + 1].at]
    BY <2>1 DEF SyncInv, WireInv
  <2>3. 3 - Len(wire) + (i + 1) = 3 - Len(wire') + i
    BY <1>1, <1>2
  <2> QED
    BY <1>2, <2>2, <2>3
<1>4. Len(wire') <= 3 /\ 1 .. Len(wire') = 1 .. Len(wire) - 1
  <2>1. wire \in Seq(SentByte) /\ Len(wire) <= 3
    BY DEF SyncInv, WireInv
  <2>2. Len(Tail(wire)) \in 0 .. 3 - 1 /\ 1 .. Len(Tail(wire)) = 1 .. Len(wire) - 1
    BY Zenon, <2>1, LengthBound
  <2> QED
    BY <2>2
<1>5. WireInv'
  BY <1>2, <1>3, <1>4 DEF WireInv
<1> QED
  BY <1>1, <1>2, <1>5

(* A byte that is lost pays for the packet it spoils. *)
LEMMA LoseSync ==
    ASSUME SyncInv, LoseByte, UNCHANGED reports
    PROVE  SyncInv'
<1>1. /\ wire # <<>> /\ wire' = Tail(wire) /\ nlost' = nlost + 1
      /\ UNCHANGED <<nsent, packet_bytes, ngarbage, reports>>
  BY DEF LoseByte
<1>2. WireInv' /\ PacketInv'
  BY <1>1, WireTail DEF SyncInv, PacketInv
<1>3. SmallMotion' = SmallMotion
  BY <1>1 DEF SmallMotion
<1> QED
  BY <1>1, <1>2, <1>3 DEF SyncInv

(* The byte that an interrupt brings: it is the next one of the last       *)
(* report, bit 3 is set in a first byte, and in no other if motion is      *)
(* small.                                                                  *)
LEMMA NextByte ==
    ASSUME SyncInv, wire # <<>>
    PROVE  /\ Head(wire) \in SentByte
           /\ Head(wire).of = nsent - 1 /\ Head(wire).at = 4 - Len(wire)
           /\ Head(wire).at = 1 => Bit(Head(wire).byte, 3)
           /\ SmallMotion /\ Bit(Head(wire).byte, 3) => Head(wire).at = 1
<1>1. wire \in Seq(SentByte) /\ Len(wire) \in 1 .. 3
  <2>1. wire \in Seq(SentByte) /\ Len(wire) <= 3
    BY DEF SyncInv, WireInv
  <2> QED
    BY Zenon, <2>1, LengthBound
<1>2. Head(wire) = wire[1] /\ wire[1] \in SentByte
  BY <1>1
<1>3. 1 \in 1 .. Len(wire) /\ 3 - Len(wire) + 1 = 4 - Len(wire)
  BY <1>1
<1>4. /\ wire[1].of = nsent - 1 /\ wire[1].at = 4 - Len(wire)
      /\ \E r \in reports : wire[1].byte = r[wire[1].at]
  BY <1>3 DEF SyncInv, WireInv
<1>5. PICK r \in reports : wire[1].byte = r[wire[1].at]
  BY <1>4
<1>6. Bit(r[1], 3)
  BY MouseAssumption DEF SyncInv
<1>7. wire[1].at \in {1, 2, 3}
  BY <1>2 DEF SentByte
<1>8. SmallMotion => ~ Bit(r[2], 3) /\ ~ Bit(r[3], 3)
  BY DEF SmallMotion
<1> QED
  BY <1>2, <1>4, <1>5, <1>6, <1>7, <1>8

(* One byte more is assembled. *)
LEMMA ByteAdded ==
    ASSUME SyncInv, wire # <<>>
    PROVE  LET bytes == Append(packet_bytes, Head(wire))
           IN  /\ bytes \in Seq(SentByte) /\ Len(packet_bytes) \in 0 .. 2
               /\ Len(bytes) = Len(packet_bytes) + 1
               /\ \A i \in 1 .. Len(packet_bytes) + 1 :
                     /\ bytes[i].of < nsent
                     /\ Aligned => bytes[i].of = nsent - 1 /\ bytes[i].at = i
<1> DEFINE bytes == Append(packet_bytes, Head(wire))
<1>1. packet_bytes \in Seq(SentByte) /\ Len(packet_bytes) \in 0 .. 2
  <2>1. packet_bytes \in Seq(SentByte) /\ Len(packet_bytes) <= 2
    BY DEF SyncInv, PacketInv
  <2> QED
    BY Zenon, <2>1, LengthBound
<1>2. /\ Head(wire) \in SentByte
      /\ Head(wire).of = nsent - 1 /\ Head(wire).at = 4 - Len(wire)
  BY NextByte
<1>3. /\ bytes \in Seq(SentByte) /\ Len(bytes) = Len(packet_bytes) + 1
      /\ bytes[Len(packet_bytes) + 1] = Head(wire)
      /\ \A i \in 1 .. Len(packet_bytes) : bytes[i] = packet_bytes[i]
  BY <1>1, <1>2
<1>4. \A i \in 1 .. Len(packet_bytes) :
         /\ packet_bytes[i].of < nsent
         /\ Aligned => packet_bytes[i].of = nsent - 1 /\ packet_bytes[i].at = i
  BY DEF SyncInv, PacketInv, Aligned
<1>5. nsent - 1 < nsent
  BY DEF SyncInv
<1>6. Aligned => 4 - Len(wire) = Len(packet_bytes) + 1
  <2>1. wire \in Seq(SentByte)
    BY DEF SyncInv, WireInv
  <2>2. Len(wire) \in Nat
    BY <2>1
  <2> QED
    BY <1>1, <2>2 DEF Aligned
<1>7. ASSUME NEW i \in 1 .. Len(packet_bytes) + 1
      PROVE  /\ bytes[i].of < nsent
             /\ Aligned => bytes[i].of = nsent - 1 /\ bytes[i].at = i
  <2>1. i \in 1 .. Len(packet_bytes) \/ i = Len(packet_bytes) + 1
    BY <1>1
  <2>2. CASE i \in 1 .. Len(packet_bytes)
    BY <2>2, <1>3, <1>4
  <2>3. CASE i = Len(packet_bytes) + 1
    BY <2>3, <1>2, <1>3, <1>5, <1>6
  <2> QED
    BY <2>1, <2>2, <2>3
<1> QED
  BY <1>1, <1>3, <1>7

(* An interrupt drops a byte that cannot start a packet, adds one to the   *)
(* packet, or completes it.  Only a packet that is out of step is garbage, *)
(* and the loss it is charged to is used up.                               *)
LEMMA ByteSync ==
    ASSUME SyncInv, on_irq12, UNCHANGED reports
    PROVE  SyncInv'
<1> DEFINE b == Head(wire)
           bytes == Append(packet_bytes, b)
<1>1. wire # <<>> /\ wire' = Tail(wire) /\ UNCHANGED <<nsent, nlost, reports>>
  BY DEF on_irq12
<1>2. WireInv' /\ Len(wire') = Len(wire) - 1 /\ Len(wire) \in 1 .. 3
  BY <1>1, WireTail
<1>3. /\ b.at = 4 - Len(wire)
      /\ b.at = 1 => Bit(b.byte, 3)
      /\ SmallMotion /\ Bit(b.byte, 3) => b.at = 1
  BY <1>1, NextByte
<1>4. /\ bytes \in Seq(SentByte) /\ Len(packet_bytes) \in 0 .. 2
      /\ Len(bytes) = Len(packet_bytes) + 1
      /\ \A i \in 1 .. Len(packet_bytes) + 1 :
            /\ bytes[i].of < nsent
            /\ Aligned => bytes[i].of = nsent - 1 /\ bytes[i].at = i
  BY <1>1, ByteAdded
<1>5. /\ nsent \in Nat /\ nlost \in Nat /\ ngarbage \in Nat /\ reports \in Devices /\ PacketInv
      /\ nlost = 0 => ngarbage = 0 /\ Aligned
      /\ SmallMotion => ngarbage + (IF packet_bytes = <<>> \/ Aligned THEN 0 ELSE 1) <= nlost
  BY <1>1 DEF SyncInv
<1>6. SmallMotion' = SmallMotion
  BY <1>1 DEF SmallMotion
<1>7. packet_bytes = <<>> <=> Len(packet_bytes) = 0
  BY DEF SyncInv, PacketInv
<1>8. CASE ~ InStep(b.byte)
  <2>1. packet_bytes = <<>> /\ b.at # 1 /\ UNCHANGED <<packet_bytes, ngarbage>>
    BY <1>3, <1>8 DEF on_irq12, InStep
  <2>2. ~ Aligned
    <3>1. Len(wire) = 3 => b.at = 4 - 3
      BY <1>3
    <3>2. Len(wire) # 3
      BY <2>1, <3>1
    <3>3. Len(packet_bytes) = 0
      BY <2>1, <1>7
    <3> QED
      BY <3>2, <3>3, <1>2 DEF Aligned
  <2>3. PacketInv'
    BY <1>1, <1>5, <2>1 DEF PacketInv
  <2> QED
    BY <1>1, <1>2, <1>5, <1>6, <2>1, <2>2, <2>3 DEF SyncInv
<1>9. CASE InStep(b.byte) /\ Len(bytes) < 3
  <2>1. packet_bytes' = bytes /\ UNCHANGED ngarbage
    BY <1>9 DEF on_irq12
  <2>2. PacketInv'
    BY <1>1, <1>4, <1>9, <2>1 DEF PacketInv
  <2>3. Aligned => Aligned'
    BY <1>1, <1>2, <1>4, <2>1 DEF Aligned
  <2>4. packet_bytes = <<>> /\ SmallMotion => Aligned
    <3> HAVE packet_bytes = <<>> /\ SmallMotion
    <3>1. b.at = 1
      BY <1>3, <1>9 DEF InStep
    <3>2. Len(packet_bytes) = 0 /\ Len(wire) = 3
      BY <3>1, <1>2, <1>3, <1>7
    <3> QED
      BY <3>2 DEF Aligned
  <2> QED
    BY <1>1, <1>2, <1>5, <1>6, <2>1, <2>2, <2>3, <2>4 DEF SyncInv
<1>10. CASE InStep(b.byte) /\ ~ (Len(bytes) < 3)
  <2>1. packet_bytes' = <<>> /\ Len(packet_bytes) = 2 /\ packet_bytes # <<>>
    BY <1>4, <1>7, <1>10 DEF on_irq12, Complete
  <2>2. ngarbage' = ngarbage \/ ngarbage' = ngarbage + IF Genuine(bytes) THEN 0 ELSE 1
    BY <1>10 DEF on_irq12, Complete
  <2>3. Aligned => Genuine(bytes) /\ wire' = <<>>
    <3> HAVE Aligned
    <3>1. Len(wire) = 1
      BY <1>2, <2>1 DEF Aligned
    <3>2. Len(wire') = 0 /\ wire' \in Seq(SentByte)
      BY <3>1, <1>2 DEF WireInv
    <3>3. wire' = <<>>
      BY <3>2
    <3> QED
      BY <1>4, <2>1, <3>3 DEF Genuine
  <2>4. PacketInv'
    <3>1. Len(packet_bytes') = 0 /\ packet_bytes' \in Seq(SentByte)
      BY <2>1
    <3> QED
      BY <3>1 DEF PacketInv
  <2>5. ngarbage' \in Nat /\ (Aligned => ngarbage' = ngarbage) /\ ngarbage' <= ngarbage + 1
    BY <1>5, <2>2, <2>3
  <2>6. nlost' = 0 => ngarbage' = 0 /\ packet_bytes' = <<>> /\ wire' = <<>>
    BY <1>1, <1>5, <2>1, <2>3, <2>5
  <2>7. SmallMotion => ngarbage' <= nlost'
    BY <1>1, <1>5, <2>1, <2>5
  <2>8. SmallMotion' =>
           ngarbage' + (IF packet_bytes' = <<>> \/ Aligned' THEN 0 ELSE 1) <= nlost'
    BY <1>6, <2>1, <2>5, <2>7
  <2> QED
    BY Zenon, <1>1, <1>2, <1>5, <2>4, <2>5, <2>6, <2>8 DEF SyncInv
<1> QED
  BY <1>8, <1>9, <1>10

(* Every step keeps the assembly aligned or charged. *)
LEMMA SyncNext ==
    ASSUME SyncInv, [Next]_inputVars
    PROVE  SyncInv'
<1>1. CASE UNCHANGED <<reports, wire, nsent, nlost, packet_bytes, ngarbage>>
  BY <1>1 DEF SyncInv, WireInv, PacketInv, Aligned, SmallMotion
<1>2. CASE MouseNext
  <2>1. CASE \E r \in reports : Report(r)
    BY <1>2, <2>1, ReportSync DEF MouseNext
  <2>2. CASE LoseByte
    BY <1>2, <2>2, LoseSync DEF MouseNext
  <2>3. CASE on_irq12
    BY <1>2, <2>3, ByteSync DEF MouseNext
  <2>4. CASE mouse_read \/ \E c \in ReadCalls : SYS_mouse_read(c)
    BY <1>1, <1>2, <2>4 DEF MouseNext, mouse_read, SYS_mouse_read
  <2> QED
    BY <1>2, <2>1, <2>2, <2>3, <2>4 DEF MouseNext
<1>3. CASE UNCHANGED mouseVars
  BY <1>1, <1>3 DEF mouseVars
<1> QED
  BY <1>2, <1>3 DEF Next, inputVars

(* mouse.c:76: a byte without bit 3 is dropped "instead of building a      *)
(* garbage packet out of it".  While no byte is lost no packet is garbage, *)
(* and if motion bytes have bit 3 clear each lost byte costs one at most,  *)
(* however many packets are sent and bytes are lost.                       *)
THEOREM MouseKeepsStep == Spec => []MouseInSync
<1>1. Init => SyncInv
  BY MouseAssumption
     DEF Init, MouseInit, SyncInv, WireInv, PacketInv, Aligned, SmallMotion
<1>2. SyncInv => MouseInSync
  BY DEF SyncInv, MouseInSync, SmallMotion
<1> QED
  BY <1>1, <1>2, SyncNext, PTL DEF Spec

=============================================================================
