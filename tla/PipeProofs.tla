----------------------------- MODULE PipeProofs -----------------------------
(***************************************************************************)
(* The ring buffer of a pipe implements the bounded FIFO of module Fifo,   *)
(* for every buffer size, any number of readers and writers, and whatever  *)
(* closes and wake-ups run between their steps; and the counts of open     *)
(* descriptors are exact, so that the pipe is freed once, for any number   *)
(* of processes and entries of their fd_tables.                            *)
(***************************************************************************)
EXTENDS Pipe, Sequences, FiniteSetTheorems, TLAPS

(* head is where tail and count say it is. *)
RingInv ==
    /\ buf \in [0 .. PIPE_BUF_SIZE - 1 -> Byte]
    /\ tail \in 0 .. PIPE_BUF_SIZE - 1
    /\ count \in 0 .. PIPE_BUF_SIZE
    /\ head = (tail + count) % PIPE_BUF_SIZE

(* What an index below twice the buffer size wraps to. *)
Once(i) == IF i < PIPE_BUF_SIZE THEN i ELSE i - PIPE_BUF_SIZE

(* The remainder by which head and tail wrap, without division. *)
LEMMA WrapOnce ==
    ASSUME NEW n \in Nat \ {0}, NEW i \in 0 .. 2 * n - 1
    PROVE  i % n = IF i < n THEN i ELSE i - n
<1>1. CASE i < n
  BY <1>1
<1>2. CASE i >= n
  <2>1. i - n \in 0 .. n - 1
    BY <1>2
  <2>2. (i - n) % n = i - n
    BY <2>1
  <2>3. i % n = (i - n) % n
    BY <1>2, <2>1
  <2> QED
    BY <1>2, <2>2, <2>3
<1> QED
  BY <1>1, <1>2

(* What Contents is, without its definition. *)
ContentsOK ==
    /\ Contents \in Seq(Byte) /\ Len(Contents) = count
    /\ \A k \in 1 .. count : Contents[k] = buf[(tail + k - 1) % PIPE_BUF_SIZE]

(* Contents reads the ring from tail, count bytes long. *)
LEMMA ContentsFacts == RingInv => ContentsOK
<1> SUFFICES ASSUME RingInv PROVE ContentsOK
  OBVIOUS
<1>1. /\ PIPE_BUF_SIZE \in Nat \ {0} /\ tail \in 0 .. PIPE_BUF_SIZE - 1
      /\ count \in 0 .. PIPE_BUF_SIZE /\ buf \in [0 .. PIPE_BUF_SIZE - 1 -> Byte]
  BY PipeAssumption DEF RingInv
<1>2. ASSUME NEW k \in 1 .. count
      PROVE  buf[(tail + k - 1) % PIPE_BUF_SIZE] \in Byte
  <2>1. (tail + k - 1) % PIPE_BUF_SIZE \in 0 .. PIPE_BUF_SIZE - 1
    BY <1>1
  <2> QED
    BY <1>1, <2>1
<1>3. Contents \in [1 .. count -> Byte]
  BY <1>2 DEF Contents
<1>4. count \in Nat
  BY <1>1
<1>5. Contents \in Seq(Byte) /\ Len(Contents) = count
  BY <1>3, <1>4
<1> QED
  BY Zenon, <1>5 DEF Contents, ContentsOK

(* The same, after a step. *)
LEMMA ContentsFactsNext == RingInv' => ContentsOK'
  BY ContentsFacts, PTL

(* Taking the byte at tail removes the first of the contents. *)
LEMMA ReadByte ==
    ASSUME RingInv, NEW p \in Proc, read_byte(p)
    PROVE  RingInv' /\ Contents' = Tail(Contents) /\ Contents # <<>>
<1>1. /\ PIPE_BUF_SIZE \in Nat \ {0} /\ tail \in 0 .. PIPE_BUF_SIZE - 1
      /\ count \in 1 .. PIPE_BUF_SIZE
      /\ tail' = (tail + 1) % PIPE_BUF_SIZE /\ count' = count - 1
      /\ buf' = buf /\ head' = head
  BY PipeAssumption DEF RingInv, read_byte, Wrap
<1>2. \A i \in 0 .. 2 * PIPE_BUF_SIZE - 1 :
         i % PIPE_BUF_SIZE = Once(i)
  BY Zenon, <1>1, WrapOnce DEF Once
<1>3. tail' = IF tail + 1 < PIPE_BUF_SIZE THEN tail + 1 ELSE 0
  BY <1>1, <1>2 DEF Once
<1>4. \A k \in 0 .. count - 1 :
         (tail' + k) % PIPE_BUF_SIZE = (tail + k + 1) % PIPE_BUF_SIZE
  <2> SUFFICES ASSUME NEW k \in 0 .. count - 1
               PROVE  (tail' + k) % PIPE_BUF_SIZE = (tail + k + 1) % PIPE_BUF_SIZE
    OBVIOUS
  <2>1. tail' + k \in 0 .. 2 * PIPE_BUF_SIZE - 1 /\ tail + k + 1 \in 0 .. 2 * PIPE_BUF_SIZE - 1
    BY <1>1, <1>3
  <2>2. /\ (tail' + k) % PIPE_BUF_SIZE = Once(tail' + k)
        /\ (tail + k + 1) % PIPE_BUF_SIZE = Once(tail + k + 1)
    BY <1>2, <2>1, Zenon
  <2> QED
    BY <1>1, <1>3, <2>2 DEF Once
<1>5. RingInv'
  <2>1. (tail' + count') % PIPE_BUF_SIZE = (tail + count) % PIPE_BUF_SIZE
    <3>1. count - 1 \in 0 .. count - 1 /\ tail + (count - 1) + 1 = tail + count
      BY <1>1
    <3> QED
      BY <1>1, <1>4, <3>1
  <2>2. tail' \in 0 .. PIPE_BUF_SIZE - 1 /\ count' \in 0 .. PIPE_BUF_SIZE
    BY <1>1, <1>3
  <2> QED
    BY <1>1, <2>1, <2>2 DEF RingInv
<1>6. /\ Contents \in Seq(Byte) /\ Len(Contents) = count
      /\ \A k \in 1 .. count : Contents[k] = buf[(tail + k - 1) % PIPE_BUF_SIZE]
  BY ContentsFacts DEF ContentsOK
<1>7. /\ Contents' \in Seq(Byte) /\ Len(Contents') = count'
      /\ \A k \in 1 .. count' : Contents'[k] = buf'[(tail' + k - 1) % PIPE_BUF_SIZE]
  BY <1>5, ContentsFactsNext DEF ContentsOK
<1>8. Contents # <<>>
  BY <1>1, <1>6
<1>9. /\ Tail(Contents) \in Seq(Byte) /\ Len(Tail(Contents)) = count - 1
      /\ \A k \in 1 .. count - 1 : Tail(Contents)[k] = Contents[k + 1]
  BY <1>6, <1>8
<1>10. ASSUME NEW k \in 1 .. count - 1 PROVE Contents'[k] = Tail(Contents)[k]
  <2>1. k - 1 \in 0 .. count - 1 /\ k + 1 \in 1 .. count /\ k \in Int
    BY <1>1
  <2>2. (tail' + (k - 1)) % PIPE_BUF_SIZE = (tail + (k - 1) + 1) % PIPE_BUF_SIZE
    BY <1>4, <2>1
  <2>3. tail' + (k - 1) = tail' + k - 1 /\ tail + (k - 1) + 1 = tail + (k + 1) - 1
    BY <1>1, <1>3, <2>1
  <2>4. Contents'[k] = buf[(tail' + k - 1) % PIPE_BUF_SIZE]
    BY <1>1, <1>7
  <2>5. Tail(Contents)[k] = buf[(tail + (k + 1) - 1) % PIPE_BUF_SIZE]
    BY <1>6, <1>9, <2>1
  <2> QED
    BY Zenon, <2>2, <2>3, <2>4, <2>5
<1>11. Contents' = Tail(Contents)
  <2>1. Len(Contents') = Len(Tail(Contents)) /\ Len(Contents') = count - 1
    BY <1>1, <1>7, <1>9
  <2> QED
    BY <1>7, <1>9, <1>10, <2>1
<1> QED
  BY <1>5, <1>8, <1>11

(* Storing a byte at head appends it to the contents. *)
LEMMA WriteByte ==
    ASSUME RingInv, NEW p \in Proc, NEW b \in Byte, write_byte(p, b)
    PROVE  /\ RingInv' /\ Contents' = Append(Contents, b)
           /\ Len(Contents) < PIPE_BUF_SIZE
<1>1. /\ PIPE_BUF_SIZE \in Nat \ {0} /\ tail \in 0 .. PIPE_BUF_SIZE - 1
      /\ count \in 0 .. PIPE_BUF_SIZE - 1 /\ buf \in [0 .. PIPE_BUF_SIZE - 1 -> Byte]
      /\ head = (tail + count) % PIPE_BUF_SIZE
      /\ head' = (head + 1) % PIPE_BUF_SIZE /\ count' = count + 1
      /\ buf' = [buf EXCEPT ![head] = b] /\ tail' = tail
  BY PipeAssumption DEF RingInv, write_byte, Wrap
<1>2. \A i \in 0 .. 2 * PIPE_BUF_SIZE - 1 :
         i % PIPE_BUF_SIZE = Once(i)
  BY Zenon, <1>1, WrapOnce DEF Once
<1>3. \A k \in 0 .. count : (tail + k) % PIPE_BUF_SIZE = Once(tail + k)
  <2>1. \A k \in 0 .. count : tail + k \in 0 .. 2 * PIPE_BUF_SIZE - 1
    BY <1>1
  <2> QED
    BY <1>2, <2>1, Zenon
<1>4. head \in 0 .. PIPE_BUF_SIZE - 1
  BY <1>1
<1>5. /\ (head + 1) % PIPE_BUF_SIZE = Once(head + 1)
      /\ (tail + count + 1) % PIPE_BUF_SIZE = Once(tail + count + 1)
  <2>1. head + 1 \in 0 .. 2 * PIPE_BUF_SIZE - 1 /\ tail + count + 1 \in 0 .. 2 * PIPE_BUF_SIZE - 1
    BY <1>1, <1>4
  <2> QED
    BY <1>2, <2>1, Zenon
<1>6. RingInv'
  <2>1. head = Once(tail + count)
    BY <1>1, <1>3
  <2>2. (head + 1) % PIPE_BUF_SIZE = (tail + count + 1) % PIPE_BUF_SIZE
    BY <1>1, <1>5, <2>1 DEF Once
  <2>3. tail + (count + 1) = tail + count + 1
    BY <1>1
  <2>4. head' = (tail' + count') % PIPE_BUF_SIZE
    BY <1>1, <2>2, <2>3
  <2>5. buf' \in [0 .. PIPE_BUF_SIZE - 1 -> Byte] /\ count' \in 0 .. PIPE_BUF_SIZE
    BY <1>1
  <2> QED
    BY <1>1, <2>4, <2>5 DEF RingInv
<1>7. /\ Contents \in Seq(Byte) /\ Len(Contents) = count
      /\ \A k \in 1 .. count : Contents[k] = buf[(tail + k - 1) % PIPE_BUF_SIZE]
  BY ContentsFacts DEF ContentsOK
<1>8. /\ Contents' \in Seq(Byte) /\ Len(Contents') = count + 1
      /\ \A k \in 1 .. count + 1 : Contents'[k] = buf'[(tail + k - 1) % PIPE_BUF_SIZE]
  BY <1>1, <1>6, ContentsFactsNext DEF ContentsOK
<1>9. /\ Append(Contents, b) \in Seq(Byte) /\ Len(Append(Contents, b)) = count + 1
      /\ Append(Contents, b)[count + 1] = b
      /\ \A k \in 1 .. count : Append(Contents, b)[k] = Contents[k]
  BY <1>7
<1>10. Contents'[count + 1] = b
  <2>1. count + 1 \in 1 .. count + 1 /\ tail + (count + 1) - 1 = tail + count
    BY <1>1
  <2>2. Contents'[count + 1] = buf'[head]
    BY <1>1, <1>8, <2>1
  <2> QED
    BY <1>1, <1>4, <2>2
(* The slot written is none of the occupied ones. *)
<1>11. ASSUME NEW k \in 1 .. count PROVE Contents'[k] = Contents[k]
  <2>1. k - 1 \in 0 .. count - 1 /\ tail + (k - 1) = tail + k - 1 /\ k \in 1 .. count + 1
    BY <1>1
  <2> DEFINE i == (tail + k - 1) % PIPE_BUF_SIZE
  <2>2. i = Once(tail + (k - 1))
    <3>1. k - 1 \in 0 .. count
      BY <1>1, <2>1
    <3>2. (tail + (k - 1)) % PIPE_BUF_SIZE = Once(tail + (k - 1))
      BY <1>3, <3>1, Zenon
    <3> QED
      BY <2>1, <3>2, Zenon
  <2>3. head = Once(tail + count)
    <3>1. count \in 0 .. count
      BY <1>1
    <3> QED
      BY <1>1, <1>3, <3>1, Zenon
  <2>4. Contents[k] = buf[i] /\ Contents'[k] = buf'[i]
    BY <1>7, <1>8, <2>1
  <2> HIDE DEF i
  <2>5. i # head /\ i \in 0 .. PIPE_BUF_SIZE - 1
    BY <1>1, <2>1, <2>2, <2>3 DEF Once
  <2> QED
    BY <1>1, <2>4, <2>5
<1>12. Contents' = Append(Contents, b)
  <2>1. \A k \in 1 .. count + 1 : Contents'[k] = Append(Contents, b)[k]
    <3>1. \A k \in 1 .. count + 1 : k = count + 1 \/ k \in 1 .. count
      BY <1>1
    <3> QED
      BY <1>9, <1>10, <1>11, <3>1
  <2> QED
    BY <1>8, <1>9, <2>1
<1> QED
  BY <1>1, <1>6, <1>7, <1>12
-----------------------------------------------------------------------------
(* pipe_create makes an empty pipe. *)
LEMMA InitRing == Init => RingInv /\ Contents = <<>>
<1> SUFFICES ASSUME Init PROVE RingInv /\ Contents = <<>>
  OBVIOUS
<1>1. PIPE_BUF_SIZE \in Nat \ {0} /\ (CHOOSE b \in Byte : TRUE) \in Byte
  BY PipeAssumption
<1>2. /\ buf = [i \in 0 .. PIPE_BUF_SIZE - 1 |-> CHOOSE b \in Byte : TRUE]
      /\ head = 0 /\ tail = 0 /\ count = 0
  BY DEF Init
<1>3. RingInv
  BY <1>1, <1>2 DEF RingInv
<1>4. Contents \in Seq(Byte) /\ Len(Contents) = 0
  BY <1>2, <1>3, ContentsFacts DEF ContentsOK
<1> QED
  BY <1>3, <1>4

(* Only the transfer of a byte touches the ring. *)
LEMMA RingSteps ==
    ASSUME [Next]_vars
    PROVE  \/ \E p \in Proc : read_byte(p)
           \/ \E p \in Proc, b \in Byte : write_byte(p, b)
           \/ UNCHANGED bufVars
<1>1. ASSUME NEW p \in Proc, KernelStep(p)
      PROVE  read_byte(p) \/ (\E b \in Byte : write_byte(p, b)) \/ UNCHANGED bufVars
  <2>1. CASE pipe_read(p)
    BY <2>1 DEF pipe_read
  <2>2. CASE pipe_write(p)
    BY <2>2 DEF pipe_write
  <2>3. CASE \E e \in End : transfer_wake(p, e) \/ dup2_copy(p, e)
    BY <2>3 DEF transfer_wake, dup2_copy, pipeVars
  <2>4. CASE wake_all(p) \/ pop_head(p) \/ pop_tail(p) \/ pop_clear(p) \/ wake_enqueue(p)
    BY <2>4 DEF wake_all, pop_head, pop_tail, pop_clear, wake_enqueue, pipeVars
  <2>5. CASE SYS_exit(p)
    BY <2>5 DEF SYS_exit, pipe_close_end, pipeVars
  <2> QED
    BY <1>1, <2>1, <2>2, <2>3, <2>4, <2>5 DEF KernelStep
<1>2. ASSUME NEW p \in Proc, UserStep(p) PROVE UNCHANGED bufVars
  BY <1>2 DEF UserStep, SYS_transfer, SYS_close, SYS_dup, SYS_dup2, SYS_fork, SYS_exit,
              pipe_close_end, pipeVars
<1>3. ASSUME UNCHANGED vars PROVE UNCHANGED bufVars
  BY <1>3 DEF vars, pipeVars
<1> QED
  BY <1>1, <1>2, <1>3 DEF Next

(* Every step of the pipe is a step of the FIFO, or leaves it alone. *)
LEMMA RingStep == RingInv /\ [Next]_vars => RingInv' /\ [Channel!Next]_Contents
<1> SUFFICES ASSUME RingInv, [Next]_vars PROVE RingInv' /\ [Channel!Next]_Contents
  OBVIOUS
<1>1. CASE \E p \in Proc : read_byte(p)
  <2>1. RingInv' /\ Contents' = Tail(Contents) /\ Contents # <<>>
    BY <1>1, ReadByte
  <2> QED
    BY <2>1 DEF Channel!Next, Channel!Get
<1>2. CASE \E p \in Proc, b \in Byte : write_byte(p, b)
  <2>1. PICK p \in Proc, b \in Byte : write_byte(p, b)
    BY <1>2
  <2>2. RingInv' /\ Contents' = Append(Contents, b) /\ Len(Contents) < PIPE_BUF_SIZE
    BY <2>1, WriteByte
  <2> QED
    BY <2>2 DEF Channel!Next, Channel!Put
<1>3. CASE UNCHANGED bufVars
  BY <1>3 DEF bufVars, RingInv, Contents
<1> QED
  BY <1>1, <1>2, <1>3, RingSteps

(* pipe_read and pipe_write transfer every byte once and in order, within   *)
(* the bound of the buffer, under every interleaving.                       *)
THEOREM PipeImplementsFifo == Spec => FifoSpec
<1>1. Init => RingInv /\ Channel!Init
  BY InitRing DEF Channel!Init
<1>2. RingInv /\ [Next]_vars => RingInv' /\ [Channel!Next]_Contents
  BY RingStep
<1> QED
  BY <1>1, <1>2, PTL DEF Spec, FifoSpec, Channel!Spec
-----------------------------------------------------------------------------
(* The points of the kernel inside pipe_close_end, after its counting. *)
ClosePCs == {"wake_all", "pop_head", "pop_tail", "pop_clear", "enqueue"}

(* The points where a process has one in hand that it popped. *)
HandPCs == {"pop_head", "pop_tail", "pop_clear", "enqueue", "read_wake", "write_wake"}

(* The source of the dup2 that p is in the middle of, if any. *)
Copies(p, e) == pc[p] = CopyPoint(e) \/ (pc[p] \in ClosePCs /\ then[p] = CopyPoint(e))

(* What the calls under way rely on: left to transfer, a process in hand,  *)
(* and, for dup2, the source and room in the fd_table.                     *)
CallOK(p) ==
    /\ pc[p] \in End => left[p] > 0
    /\ pc[p] \in HandPCs => waiter[p] # NULL
    /\ fds[p]["read"] + fds[p]["write"] <= MAX_FDS
    /\ \A e \in End :
          Copies(p, e) => fds[p][e] > 0 /\ fds[p]["read"] + fds[p]["write"] < MAX_FDS
    /\ state[p] = "FREE" => fds[p] = NoFds /\ pc[p] = "user"
    /\ should_free[p] => pc[p] \in ClosePCs

(* Every count is that of the entries. *)
Counted == \A e \in End : openers[e] = Cardinality(Entries(fds, e))

(* The pipe is freed once, by the one who closed the last entry. *)
FreedOnce ==
    LET freeing == {p \in Proc : should_free[p]} IN
    IF \A e \in End : openers[e] = 0
    THEN Cardinality(freeing) = IF freed THEN 0 ELSE 1
    ELSE freeing = {} /\ ~ freed

(* The inductive invariant behind RefsExact. *)
RefsInv == RingInv /\ TypeOK /\ Counted /\ FreedOnce /\ \A p \in Proc : CallOK(p)
-----------------------------------------------------------------------------
Tables == [Proc -> [End -> 0 .. MAX_FDS]]

(* There are finitely many entries, and one at least if a table has one. *)
LEMMA EntriesFinite ==
    ASSUME NEW T \in Tables, NEW e \in End
    PROVE  /\ IsFiniteSet(Entries(T, e)) /\ Cardinality(Entries(T, e)) \in Nat
           /\ (\E p \in Proc : T[p][e] > 0) <=> Cardinality(Entries(T, e)) # 0
<1>1. IsFiniteSet(Proc) /\ MAX_FDS \in Nat
  BY PipeAssumption
<1>2. IsFiniteSet(1 .. MAX_FDS)
  BY <1>1, FS_Interval
<1>3. IsFiniteSet(Proc \X (1 .. MAX_FDS))
  BY <1>1, <1>2, FS_Product
<1>4. Entries(T, e) \subseteq Proc \X (1 .. MAX_FDS)
  BY DEF Entries
<1>5. IsFiniteSet(Entries(T, e)) /\ Cardinality(Entries(T, e)) \in Nat
  BY <1>3, <1>4, FS_Subset, FS_CardinalityType
<1>6. ASSUME NEW p \in Proc, T[p][e] > 0
      PROVE  <<p, 1>> \in Entries(T, e)
  <2>1. T[p][e] \in 0 .. MAX_FDS
    BY DEF Tables
  <2>2. 1 \in 1 .. MAX_FDS /\ 1 <= T[p][e]
    BY <1>1, <1>6, <2>1
  <2>3. QED
    BY <2>2 DEF Entries
<1>7. ASSUME NEW x \in Entries(T, e)
      PROVE  \E p \in Proc : T[p][e] > 0
  <2>1. PICK p \in Proc, i \in 1 .. MAX_FDS : i <= T[p][e]
    BY DEF Entries
  <2>2. T[p][e] \in 0 .. MAX_FDS
    BY DEF Tables
  <2>3. QED
    BY <1>1, <2>1, <2>2
<1>8. Cardinality(Entries(T, e)) = 0 <=> Entries(T, e) = {}
  BY <1>5, FS_EmptySet
<1>9. QED
  BY Zenon, <1>5, <1>6, <1>7, <1>8

(* One more entry of p's table refers to end e. *)
More(T, U, p, e) ==
    /\ U[p][e] = T[p][e] + 1
    /\ \A q \in Proc, d \in End : <<q, d>> # <<p, e>> => U[q][d] = T[q][d]

(* It is one more of all entries, and the other end keeps its own. *)
LEMMA EntriesMore ==
    ASSUME NEW T \in Tables, NEW U \in Tables, NEW p \in Proc, NEW e \in End, More(T, U, p, e)
    PROVE  /\ Cardinality(Entries(U, e)) = Cardinality(Entries(T, e)) + 1
           /\ \A d \in End \ {e} : Entries(U, d) = Entries(T, d)
<1>1. T[p][e] \in 0 .. MAX_FDS /\ U[p][e] \in 0 .. MAX_FDS /\ U[p][e] = T[p][e] + 1 /\ MAX_FDS \in Nat
  BY PipeAssumption DEF Tables, More
<1> DEFINE x == <<p, T[p][e] + 1>>
<1>2. x \notin Entries(T, e)
  <2>1. ~ (T[p][e] + 1 <= T[p][e])
    BY <1>1
  <2>2. QED
    BY <2>1 DEF Entries
<1>3. ASSUME NEW q \in Proc, NEW i \in 1 .. MAX_FDS
      PROVE  i <= U[q][e] <=> (i <= T[q][e] \/ <<q, i>> = x)
  <2>1. CASE q = p
    BY <1>1, <2>1
  <2>2. CASE q # p
    BY <2>2 DEF More
  <2>3. QED
    BY <2>1, <2>2
<1>4. x \in Proc \X (1 .. MAX_FDS)
  BY <1>1
<1> HIDE DEF x
<1>5. Entries(U, e) = Entries(T, e) \cup {x}
  BY <1>3, <1>4 DEF Entries
<1>6. Cardinality(Entries(U, e)) = Cardinality(Entries(T, e)) + 1
  BY Zenon, <1>2, <1>5, EntriesFinite, FS_AddElement
<1>7. \A d \in End \ {e} : Entries(U, d) = Entries(T, d)
  BY DEF Entries, More
<1>8. QED
  BY <1>6, <1>7

(* A forked process has a copy of every entry of its parent. *)
LEMMA EntriesCopied ==
    ASSUME NEW T \in Tables, NEW p \in Proc, NEW c \in Proc, T[c] = NoFds, NEW e \in End
    PROVE  Cardinality(Entries([T EXCEPT ![c] = T[p]], e))
              = Cardinality(Entries(T, e)) + T[p][e]
<1> DEFINE U == [T EXCEPT ![c] = T[p]]
           k == T[p][e]
           new == {c} \X (1 .. k)
<1>1. k \in 0 .. MAX_FDS /\ MAX_FDS \in Nat /\ k \in Nat
  BY PipeAssumption DEF Tables
<1>2. U[c][e] = k /\ T[c][e] = 0 /\ \A q \in Proc \ {c} : U[q] = T[q]
  BY DEF Tables, NoFds
<1>3. Cardinality(new) = k /\ IsFiniteSet(new)
  <2>1. IsFiniteSet({c}) /\ Cardinality({c}) = 1
    BY Zenon, FS_Singleton
  <2>2. IsFiniteSet(1 .. k) /\ Cardinality(1 .. k) = k
    <3>1. 1 \in Int /\ k \in Int
      BY <1>1
    <3> HIDE DEF k
    <3>2. IsFiniteSet(1 .. k) /\ Cardinality(1 .. k) = IF 1 > k THEN 0 ELSE k - 1 + 1
      BY <3>1, FS_Interval
    <3>3. QED
      BY <1>1, <3>2
  <2>3. IsFiniteSet(new) /\ Cardinality(new) = Cardinality({c}) * Cardinality(1 .. k)
    BY Zenon, <2>1, <2>2, FS_Product
  <2>4. QED
    BY <1>1, <2>1, <2>2, <2>3
<1> HIDE DEF k, U
<1>4. ASSUME NEW q \in Proc, NEW i \in 1 .. MAX_FDS
      PROVE  i <= U[q][e] <=> (i <= T[q][e] \/ <<q, i>> \in new)
  <2>1. CASE q = c
    <3>1. i <= k <=> <<c, i>> \in new
      BY <1>1
    <3>2. ~ (i <= T[c][e])
      BY <1>2
    <3>3. QED
      BY <1>2, <2>1, <3>1, <3>2
  <2>2. CASE q # c
    <3>1. <<q, i>> \notin new
      BY <2>2
    <3>2. QED
      BY <1>2, <2>2, <3>1
  <2>3. QED
    BY <2>1, <2>2
<1>5. new \subseteq Proc \X (1 .. MAX_FDS)
  BY <1>1
<1>6. \A x \in new : x \notin Entries(T, e)
  <2>1. SUFFICES ASSUME NEW i \in 1 .. k, <<c, i>> \in Entries(T, e)
                 PROVE  FALSE
    OBVIOUS
  <2>2. i <= T[c][e]
    BY <2>1 DEF Entries
  <2>3. QED
    BY <1>1, <1>2, <2>2
<1> HIDE DEF new
<1>7. Entries(U, e) = Entries(T, e) \cup new /\ Entries(T, e) \cap new = {}
  <2>1. Entries(T, e) \cap new = {}
    BY <1>6
  <2>2. \A x \in Proc \X (1 .. MAX_FDS) :
           x \in Entries(U, e) <=> (x \in Entries(T, e) \/ x \in new)
    BY <1>4 DEF Entries
  <2>3. Entries(U, e) \subseteq Proc \X (1 .. MAX_FDS) /\ Entries(T, e) \subseteq Proc \X (1 .. MAX_FDS)
    BY DEF Entries
  <2>4. QED
    BY <1>5, <2>1, <2>2, <2>3
<1>8. IsFiniteSet(Entries(T, e)) /\ Cardinality(Entries(T, e)) \in Nat
  BY EntriesFinite
<1>9. Cardinality(Entries(U, e)) = Cardinality(Entries(T, e)) + Cardinality(new)
  <2>1. Cardinality(Entries(T, e) \cap new) = 0
    BY <1>7, FS_EmptySet
  <2>2. Cardinality(Entries(T, e) \cup new) =
          Cardinality(Entries(T, e)) + Cardinality(new) - Cardinality(Entries(T, e) \cap new)
    BY <1>3, <1>8, FS_Union
  <2>3. QED
    BY <1>1, <1>3, <1>7, <1>8, <2>1, <2>2
<1>10. QED
  BY <1>3, <1>9 DEF U, k

(* The pipe after SYS_pipe. *)
LEMMA RefsInit == Init => RefsInv
<1> SUFFICES ASSUME Init PROVE RefsInv
  OBVIOUS
<1>1. /\ scene \in Scenes /\ scene \in SceneType /\ NULL \notin Proc /\ MAX_FDS \in Nat
      /\ MaxCount \in Nat /\ IsFiniteSet(Proc)
  BY PipeAssumption DEF Init
<1>2. RingInv
  BY InitRing
<1>3. fds \in Tables
  <2>1. scene.fds \in [Proc -> [End -> 0 .. MAX_FDS] \cup {NULL}]
    BY <1>1 DEF SceneType
  <2>2. NoFds \in [End -> 0 .. MAX_FDS]
    BY <1>1 DEF NoFds
  <2>3. QED
    BY <2>1, <2>2 DEF Init, Tables
<1>4. Counted
  BY DEF Init, Counted
<1>5. openers \in [End -> Nat]
  BY <1>3, EntriesFinite DEF Init
<1>6. TypeOK
  <2>1. buf \in [0 .. PIPE_BUF_SIZE - 1 -> Byte] /\ count \in 0 .. PIPE_BUF_SIZE
        /\ head \in 0 .. PIPE_BUF_SIZE - 1 /\ tail \in 0 .. PIPE_BUF_SIZE - 1
    BY <1>2, PipeAssumption DEF RingInv
  <2>2. /\ waiters \in [End -> [head : Proc \cup {NULL}, tail : Proc \cup {NULL}]]
        /\ freed \in BOOLEAN /\ wait_next \in [Proc -> Proc \cup {NULL}]
        /\ state \in [Proc -> {"FREE", "READY", "BLOCKED_PIPE", "DEAD"}]
        /\ pc \in [Proc -> PCs] /\ waiter \in [Proc -> Proc \cup {NULL}]
        /\ sweep \in [Proc -> End] /\ should_free \in [Proc -> BOOLEAN]
        /\ then \in [Proc -> {"user", "exit", "dup2_read", "dup2_write"}]
    BY Zenon DEF Init, PCs, End
  <2>3. left \in [Proc -> 0 .. MaxCount]
    BY <1>1 DEF Init
  <2>4. QED
    BY <1>1, <1>3, <1>5, <2>1, <2>2, <2>3 DEF TypeOK, Tables
<1>7. FreedOnce
  <2>1. PICK p \in Proc, e \in End : scene.fds[p] # NULL /\ scene.fds[p][e] > 0
    BY <1>1, PipeAssumption
  <2>2. fds[p][e] > 0
    BY <2>1 DEF Init
  <2>3. openers[e] # 0
    BY <1>3, <1>4, <2>2, EntriesFinite DEF Counted
  <2>4. {q \in Proc : should_free[q]} = {} /\ ~ freed
    BY DEF Init
  <2>5. QED
    BY <2>3, <2>4 DEF FreedOnce
<1>8. ASSUME NEW p \in Proc
      PROVE  CallOK(p)
  <2>1. fds[p]["read"] + fds[p]["write"] <= MAX_FDS
    <3>1. CASE scene.fds[p] = NULL
      BY <1>1, <3>1 DEF Init, NoFds, End
    <3>2. CASE scene.fds[p] # NULL
      BY <1>1, <3>2, PipeAssumption DEF Init
    <3>3. QED
      BY <3>1, <3>2
  <2>2. pc[p] = "user" /\ should_free[p] = FALSE /\ (state[p] = "FREE" => fds[p] = NoFds)
    BY DEF Init
  <2>3. QED
    BY <2>1, <2>2 DEF CallOK, HandPCs, ClosePCs, End, Copies, CopyPoint
<1>9. QED
  BY <1>2, <1>4, <1>6, <1>7, <1>8 DEF RefsInv

(* A step that leaves the entries and the counts alone. *)
LEMMA RefsKept ==
    ASSUME Counted, FreedOnce, UNCHANGED <<openers, freed, fds, should_free>>
    PROVE  Counted' /\ FreedOnce'
  BY DEF Counted, FreedOnce

(* Nothing of a process but its state changes. *)
LEMMA CallKept ==
    ASSUME NEW q \in Proc, CallOK(q), pc'[q] = pc[q], left'[q] = left[q], waiter'[q] = waiter[q],
           fds'[q] = fds[q], then'[q] = then[q], should_free'[q] = should_free[q],
           state'[q] = "FREE" => state[q] = "FREE"
    PROVE  CallOK(q)'
  BY DEF CallOK, Copies

(* The types of the ring follow from what head, tail and count are. *)
LEMMA RingTypes ==
    RingInv => /\ buf \in [0 .. PIPE_BUF_SIZE - 1 -> Byte] /\ count \in 0 .. PIPE_BUF_SIZE
               /\ head \in 0 .. PIPE_BUF_SIZE - 1 /\ tail \in 0 .. PIPE_BUF_SIZE - 1
  BY PipeAssumption DEF RingInv

(* The rest of the types. *)
CallType ==
    /\ openers \in [End -> Nat] /\ freed \in BOOLEAN
    /\ waiters \in [End -> [head : Proc \cup {NULL}, tail : Proc \cup {NULL}]]
    /\ wait_next \in [Proc -> Proc \cup {NULL}]
    /\ state \in [Proc -> {"FREE", "READY", "BLOCKED_PIPE", "DEAD"}]
    /\ fds \in [Proc -> [End -> 0 .. MAX_FDS]]
    /\ pc \in [Proc -> PCs]
    /\ left \in [Proc -> 0 .. MaxCount]
    /\ waiter \in [Proc -> Proc \cup {NULL}]
    /\ sweep \in [Proc -> End]
    /\ should_free \in [Proc -> BOOLEAN]
    /\ then \in [Proc -> {"user", "exit", "dup2_read", "dup2_write"}]

(* All of the invariant but the ring's, which PipeImplementsFifo is about. *)
RestInv == CallType /\ Counted /\ FreedOnce /\ \A p \in Proc : CallOK(p)

LEMMA RefsSplit == RefsInv <=> RingInv /\ RestInv /\ scene \in Scenes
  BY Zenon, RingTypes DEF RefsInv, RestInv, CallType, TypeOK

(* Parking oneself on a wait queue. *)
LEMMA ParkStep ==
    ASSUME CallType, NEW p \in Proc, NEW e \in End, Park(e, p)
    PROVE  /\ waiters' \in [End -> [head : Proc \cup {NULL}, tail : Proc \cup {NULL}]]
           /\ wait_next' \in [Proc -> Proc \cup {NULL}]
           /\ state' = [state EXCEPT ![p] = "BLOCKED_PIPE"]
           /\ state' \in [Proc -> {"FREE", "READY", "BLOCKED_PIPE", "DEAD"}]
<1>1. waiters \in [End -> [head : Proc \cup {NULL}, tail : Proc \cup {NULL}]]
  BY DEF CallType
<1>2. waiters' = [waiters EXCEPT ![e].tail = p,
                                 ![e].head = IF waiters[e].tail = NULL THEN p ELSE @]
  BY DEF Park, wait_queue_push
<1>3. waiters' \in [End -> [head : Proc \cup {NULL}, tail : Proc \cup {NULL}]]
  BY Zenon, <1>1, <1>2
<1>4. wait_next' \in [Proc -> Proc \cup {NULL}]
  BY DEF CallType, Park, wait_queue_push
<1>5. state' = [state EXCEPT ![p] = "BLOCKED_PIPE"]
  BY DEF Park
<1>6. QED
  BY <1>3, <1>4, <1>5 DEF CallType

(* Popping a wait queue with interrupts masked. *)
LEMMA PopStep ==
    ASSUME CallType, NEW p \in Proc, NEW e \in End, wait_queue_pop(e, p)
    PROVE  /\ waiters' \in [End -> [head : Proc \cup {NULL}, tail : Proc \cup {NULL}]]
           /\ wait_next' \in [Proc -> Proc \cup {NULL}]
           /\ waiter' \in [Proc -> Proc \cup {NULL}]
           /\ \A q \in Proc \ {p} : waiter'[q] = waiter[q]
<1>1. CASE waiters[e].head = NULL
  BY <1>1 DEF CallType, wait_queue_pop
<1>2. CASE waiters[e].head # NULL
  <2>1. waiters[e].head \in Proc /\ wait_next[waiters[e].head] \in Proc \cup {NULL}
    BY <1>2 DEF CallType
  <2>2. /\ waiters \in [End -> [head : Proc \cup {NULL}, tail : Proc \cup {NULL}]]
        /\ wait_next \in [Proc -> Proc \cup {NULL}] /\ waiter \in [Proc -> Proc \cup {NULL}]
    BY DEF CallType
  <2> DEFINE n == wait_next[waiters[e].head]
  <2>3. waiters' = [waiters EXCEPT ![e].head = n, ![e].tail = IF n = NULL THEN NULL ELSE @]
    BY <1>2 DEF wait_queue_pop
  <2>4. waiters' \in [End -> [head : Proc \cup {NULL}, tail : Proc \cup {NULL}]]
    <3>1. n \in Proc \cup {NULL}
      BY <2>1
    <3> DEFINE R == [head : Proc \cup {NULL}, tail : Proc \cup {NULL}]
               w == IF n = NULL THEN NULL ELSE waiters[e].tail
    <3>2. waiters[e] \in R /\ w \in Proc \cup {NULL}
      BY <2>2
    <3>3. waiters' = [waiters EXCEPT ![e] = [@ EXCEPT !.head = n, !.tail = w]]
      BY Zenon, <2>2, <2>3
    <3>4. [waiters[e] EXCEPT !.head = n, !.tail = w] \in R
      BY Zenon, <3>1, <3>2
    <3>5. waiters' = [waiters EXCEPT ![e] = [waiters[e] EXCEPT !.head = n, !.tail = w]]
      BY <2>2, <3>3
    <3> HIDE DEF n, w, R
    <3>6. waiters' \in [End -> R]
      BY <2>2, <3>4, <3>5 DEF R
    <3>7. QED
      BY <3>6 DEF R
  <2>5. wait_next' = [wait_next EXCEPT ![waiters[e].head] = NULL]
        /\ waiter' = [waiter EXCEPT ![p] = waiters[e].head]
    BY <1>2 DEF wait_queue_pop
  <2>6. QED
    BY <2>1, <2>2, <2>4, <2>5
<1>3. QED
  BY <1>1, <1>2

(* The end of every step below: the types, and the calls of all others. *)
LEMMA RestStep ==
    ASSUME RestInv, NEW p \in Proc, CallType', Counted', FreedOnce', CallOK(p)',
           \A q \in Proc \ {p} :
              /\ pc'[q] = pc[q] /\ left'[q] = left[q] /\ waiter'[q] = waiter[q]
              /\ fds'[q] = fds[q] /\ then'[q] = then[q] /\ should_free'[q] = should_free[q]
              /\ state'[q] = "FREE" => state[q] = "FREE"
    PROVE  RestInv'
  BY CallKept DEF RestInv

(* A transfer of bytes moves one process between the points of the two     *)
(* loops; no descriptor changes.                                           *)
TransferStep(p) ==
    /\ UNCHANGED <<openers, freed, fds, sweep, should_free, then>>
    /\ \A q \in Proc \ {p} :
          /\ pc'[q] = pc[q] /\ left'[q] = left[q] /\ waiter'[q] = waiter[q]
          /\ state'[q] = "FREE" => state[q] = "FREE"
    /\ waiters' \in [End -> [head : Proc \cup {NULL}, tail : Proc \cup {NULL}]]
    /\ wait_next' \in [Proc -> Proc \cup {NULL}]
    /\ state' \in [Proc -> {"FREE", "READY", "BLOCKED_PIPE", "DEAD"}]
    /\ waiter' \in [Proc -> Proc \cup {NULL}] /\ left' \in [Proc -> 0 .. MaxCount]
    /\ pc' \in [Proc -> PCs]
    /\ pc[p] \in {"user", "read", "write", "read_wake", "write_wake"}
    /\ pc'[p] \in {"user", "read", "write", "read_wake", "write_wake"}
    /\ pc'[p] \in End => left'[p] > 0
    /\ pc'[p] \in {"read_wake", "write_wake"} => waiter'[p] # NULL
    /\ state'[p] # "FREE"

LEMMA TransferKept ==
    ASSUME RestInv, NEW p \in Proc, TransferStep(p)
    PROVE  RestInv'
<1>1. CallType'
  BY DEF RestInv, CallType, TransferStep
<1>2. Counted' /\ FreedOnce'
  BY RefsKept DEF RestInv, TransferStep
<1>3. CallOK(p)'
  <2>1. ~ should_free[p]
    BY DEF RestInv, CallOK, TransferStep, ClosePCs
  <2>2. fds' = fds /\ fds[p]["read"] + fds[p]["write"] <= MAX_FDS /\ ~ should_free'[p]
    BY <2>1 DEF RestInv, CallOK, TransferStep
  <2>3. pc'[p] \notin ClosePCs /\ \A e \in End : pc'[p] # CopyPoint(e)
    BY DEF TransferStep, ClosePCs, CopyPoint
  <2>4. pc'[p] \in HandPCs => waiter'[p] # NULL
    BY DEF TransferStep, HandPCs
  <2>5. QED
    BY <2>2, <2>3, <2>4 DEF CallOK, Copies, TransferStep
<1>4. QED
  BY <1>1, <1>2, <1>3, RestStep DEF TransferStep

(* Calling read or write. *)
LEMMA SysTransferKept ==
    ASSUME RestInv, NEW p \in Proc, NEW e \in End, SYS_transfer(p, e)
    PROVE  RestInv'
<1>1. PICK n \in 1 .. MaxCount : left' = [left EXCEPT ![p] = n]
  BY Zenon DEF SYS_transfer
<1>2. /\ pc' = [pc EXCEPT ![p] = e] /\ pc[p] = "user" /\ state[p] = "READY" /\ e \in {"read", "write"}
      /\ UNCHANGED <<openers, freed, waiters, wait_next, state, fds, waiter, sweep, should_free, then>>
  BY DEF SYS_transfer, Issues, At, Goto, pipeVars, End
<1>3. left' \in [Proc -> 0 .. MaxCount] /\ left'[p] > 0 /\ pc'[p] = e /\ pc' \in [Proc -> PCs]
      /\ \A q \in Proc \ {p} : pc'[q] = pc[q] /\ left'[q] = left[q]
  BY <1>1, <1>2, PipeAssumption DEF RestInv, CallType, PCs
<1>4. TransferStep(p)
  BY <1>2, <1>3 DEF TransferStep, RestInv, CallType, End
<1>5. QED
  BY <1>4, TransferKept

(* The transfer of a byte, in either direction. *)
ByteMoved(p, e, d) ==
    /\ left' = [left EXCEPT ![p] = @ - 1]
    /\ wait_queue_pop(d, p)
    /\ pc' = [pc EXCEPT ![p] = AfterByte(p, e)]
    /\ state' = state

LEMMA ByteKept ==
    ASSUME RestInv, NEW p \in Proc, NEW e \in End, NEW d \in End, At(p, e), ByteMoved(p, e, d),
           UNCHANGED <<openers, freed, fds, sweep, should_free, then>>
    PROVE  RestInv'
<1>1. pc[p] = e /\ state[p] = "READY" /\ e \in {"read", "write"} /\ left[p] > 0
      /\ left \in [Proc -> 0 .. MaxCount] /\ MaxCount \in Nat /\ CallType
  BY PipeAssumption DEF At, End, RestInv, CallOK, CallType
<1>2. left' \in [Proc -> 0 .. MaxCount] /\ \A q \in Proc \ {p} : left'[q] = left[q]
  BY <1>1 DEF ByteMoved
<1>3. /\ waiters' \in [End -> [head : Proc \cup {NULL}, tail : Proc \cup {NULL}]]
      /\ wait_next' \in [Proc -> Proc \cup {NULL}]
      /\ waiter' \in [Proc -> Proc \cup {NULL}]
      /\ \A q \in Proc \ {p} : waiter'[q] = waiter[q]
  BY <1>1, PopStep DEF ByteMoved
<1>4. /\ AfterByte(p, e) \in {"user", "read", "write", "read_wake", "write_wake"}
      /\ AfterByte(p, e) \in End => left'[p] > 0
      /\ AfterByte(p, e) \in {"read_wake", "write_wake"} => waiter'[p] # NULL
  BY <1>1 DEF AfterByte, WakePoint, End
<1>5. pc'[p] = AfterByte(p, e) /\ \A q \in Proc \ {p} : pc'[q] = pc[q]
  BY <1>1 DEF ByteMoved, CallType
<1>6. pc' \in [Proc -> PCs]
  BY <1>1, <1>4 DEF ByteMoved, CallType, PCs
<1>7. TransferStep(p)
  BY <1>1, <1>2, <1>3, <1>4, <1>5, <1>6 DEF TransferStep, ByteMoved, CallType, End
<1>8. QED
  BY <1>7, TransferKept

(* A read or write that finds nothing to do parks, or ends. *)
LEMMA LoopKept ==
    ASSUME RestInv, NEW p \in Proc, NEW e \in End, At(p, e),
           \/ Park(e, p) /\ UNCHANGED <<pc, left, waiter>>
           \/ Goto(p, "user") /\ UNCHANGED <<waiters, wait_next, state, left, waiter>>,
           UNCHANGED <<openers, freed, fds, sweep, should_free, then>>
    PROVE  RestInv'
<1>1. pc[p] = e /\ state[p] = "READY" /\ e \in {"read", "write"} /\ left[p] > 0 /\ CallType
  BY Zenon DEF At, End, RestInv, CallOK
<1>2. CASE Park(e, p) /\ UNCHANGED <<pc, left, waiter>>
  <2>1. /\ waiters' \in [End -> [head : Proc \cup {NULL}, tail : Proc \cup {NULL}]]
        /\ wait_next' \in [Proc -> Proc \cup {NULL}]
        /\ state' = [state EXCEPT ![p] = "BLOCKED_PIPE"]
        /\ state' \in [Proc -> {"FREE", "READY", "BLOCKED_PIPE", "DEAD"}]
    BY <1>1, <1>2, ParkStep
  <2>2. state'[p] = "BLOCKED_PIPE" /\ \A q \in Proc \ {p} : state'[q] = state[q]
    BY <1>1, <2>1 DEF CallType
  <2>3. TransferStep(p)
    BY <1>1, <1>2, <2>1, <2>2 DEF TransferStep, CallType, End
  <2>4. QED
    BY <2>3, TransferKept
<1>3. CASE Goto(p, "user") /\ UNCHANGED <<waiters, wait_next, state, left, waiter>>
  <2>1. pc'[p] = "user" /\ pc' \in [Proc -> PCs] /\ \A q \in Proc \ {p} : pc'[q] = pc[q]
    BY <1>1, <1>3 DEF CallType, Goto, PCs
  <2>2. TransferStep(p)
    BY <1>1, <1>3, <2>1 DEF TransferStep, CallType, End
  <2>3. QED
    BY <2>2, TransferKept
<1>4. QED
  BY <1>2, <1>3

(* pipe_read and pipe_write. *)
LEMMA ReadKept ==
    ASSUME RestInv, NEW p \in Proc, pipe_read(p)
    PROVE  RestInv'
<1>1. At(p, "read") /\ UNCHANGED <<openers, freed, fds, sweep, should_free, then>>
  BY DEF pipe_read
<1>2. CASE read_byte(p)
  <2>1. ByteMoved(p, "read", "write")
    BY <1>2 DEF read_byte, ByteMoved, Goto
  <2>2. QED
    BY <1>1, <2>1, ByteKept DEF End
<1>3. CASE Goto(p, "user") /\ UNCHANGED <<waiters, wait_next, state, left, waiter>>
  BY <1>1, <1>3, LoopKept DEF End
<1>4. CASE Park("read", p) /\ UNCHANGED <<pc, left, waiter>>
  BY <1>1, <1>4, LoopKept DEF End
<1>5. QED
  BY <1>2, <1>3, <1>4 DEF pipe_read

LEMMA WriteKept ==
    ASSUME RestInv, NEW p \in Proc, pipe_write(p)
    PROVE  RestInv'
<1>1. At(p, "write") /\ UNCHANGED <<openers, freed, fds, sweep, should_free, then>>
  BY DEF pipe_write
<1>2. ASSUME NEW b \in Byte, write_byte(p, b)
      PROVE  RestInv'
  <2>1. ByteMoved(p, "write", "read")
    BY <1>2 DEF write_byte, ByteMoved, Goto
  <2>2. QED
    BY <1>1, <2>1, ByteKept DEF End
<1>3. CASE Goto(p, "user") /\ UNCHANGED <<waiters, wait_next, state, left, waiter>>
  BY <1>1, <1>3, LoopKept DEF End
<1>4. CASE Park("write", p) /\ UNCHANGED <<pc, left, waiter>>
  BY <1>1, <1>4, LoopKept DEF End
<1>5. QED
  BY <1>2, <1>3, <1>4 DEF pipe_write

(* mlfq_enqueue readies the process in hand. *)
LEMMA EnqueueStep ==
    ASSUME CallType, NEW p \in Proc, waiter[p] # NULL, mlfq_enqueue(p)
    PROVE  /\ state' \in [Proc -> {"FREE", "READY", "BLOCKED_PIPE", "DEAD"}]
           /\ \A q \in Proc : state'[q] = "FREE" => state[q] = "FREE"
           /\ \A q \in Proc : state[q] = "READY" => state'[q] = "READY"
  BY DEF CallType, mlfq_enqueue

LEMMA WakeKept ==
    ASSUME RestInv, NEW p \in Proc, NEW e \in End, transfer_wake(p, e)
    PROVE  RestInv'
<1>1. /\ pc[p] = WakePoint(e) /\ state[p] = "READY" /\ e \in {"read", "write"} /\ CallType
      /\ WakePoint(e) \in {"read_wake", "write_wake"} /\ waiter[p] # NULL
  BY DEF transfer_wake, At, End, RestInv, CallOK, WakePoint, HandPCs
<1>2. /\ state' \in [Proc -> {"FREE", "READY", "BLOCKED_PIPE", "DEAD"}]
      /\ \A q \in Proc : state'[q] = "FREE" => state[q] = "FREE"
      /\ state'[p] = "READY"
  BY <1>1, EnqueueStep DEF transfer_wake
<1>3. /\ waiter' = [waiter EXCEPT ![p] = NULL]
      /\ pc' = [pc EXCEPT ![p] = IF left[p] > 0 THEN e ELSE "user"]
      /\ UNCHANGED <<openers, freed, waiters, wait_next, fds, left, sweep, should_free, then>>
  BY DEF transfer_wake, Goto, pipeVars
<1>4. /\ waiter' \in [Proc -> Proc \cup {NULL}] /\ pc' \in [Proc -> PCs]
      /\ \A q \in Proc \ {p} : pc'[q] = pc[q] /\ waiter'[q] = waiter[q]
      /\ pc'[p] \in {"user", "read", "write"} /\ (pc'[p] \in End => left[p] > 0)
  BY <1>1, <1>3 DEF CallType, PCs, End
<1>5. TransferStep(p)
  BY <1>1, <1>2, <1>3, <1>4 DEF TransferStep, CallType, End
<1>6. QED
  BY <1>5, TransferKept
-----------------------------------------------------------------------------
(* A turn of wake_all moves one process between the points of the loop. *)
SweepStep(p) ==
    /\ UNCHANGED <<openers, freed, fds, left, should_free, then>>
    /\ \A q \in Proc \ {p} :
          /\ pc'[q] = pc[q] /\ waiter'[q] = waiter[q]
          /\ state'[q] = "FREE" => state[q] = "FREE"
    /\ waiters' \in [End -> [head : Proc \cup {NULL}, tail : Proc \cup {NULL}]]
    /\ wait_next' \in [Proc -> Proc \cup {NULL}]
    /\ state' \in [Proc -> {"FREE", "READY", "BLOCKED_PIPE", "DEAD"}]
    /\ waiter' \in [Proc -> Proc \cup {NULL}] /\ sweep' \in [Proc -> End]
    /\ pc' \in [Proc -> PCs]
    /\ pc[p] \in ClosePCs /\ pc'[p] \in ClosePCs
    /\ pc'[p] \in HandPCs => waiter'[p] # NULL
    /\ state'[p] # "FREE"

LEMMA SweepKept ==
    ASSUME RestInv, NEW p \in Proc, SweepStep(p)
    PROVE  RestInv'
<1>1. CallType'
  BY DEF RestInv, CallType, SweepStep
<1>2. Counted' /\ FreedOnce'
  BY RefsKept DEF RestInv, SweepStep
<1>3. CallOK(p)'
  <2>1. pc'[p] \notin End /\ pc[p] \in ClosePCs /\ pc'[p] \in ClosePCs
        /\ \A e \in End : pc'[p] # CopyPoint(e)
    BY DEF SweepStep, ClosePCs, End, CopyPoint
  <2>2. CallOK(p) /\ fds' = fds /\ then' = then /\ should_free' = should_free /\ state'[p] # "FREE"
        /\ (pc'[p] \in HandPCs => waiter'[p] # NULL)
    BY DEF RestInv, SweepStep
  <2>3. QED
    BY <2>1, <2>2 DEF CallOK, Copies
<1>4. QED
  BY <1>1, <1>2, <1>3, RestStep DEF SweepStep

(* The end of the loop: what follows the close, after the kfree if it is    *)
(* this one that closed the last entry.                                     *)
LEMMA SweepEnds ==
    ASSUME RestInv, NEW p \in Proc, At(p, "wake_all"),
           freed' = (freed \/ should_free[p]), should_free' = [should_free EXCEPT ![p] = FALSE],
           Goto(p, then[p]),
           UNCHANGED <<openers, waiters, wait_next, state, fds, left, waiter, sweep, then>>
    PROVE  RestInv'
<1>1. CallType /\ pc[p] = "wake_all" /\ state[p] = "READY" /\ CallOK(p)
  BY DEF RestInv, At
<1>2. pc'[p] = then[p] /\ \A q \in Proc \ {p} : pc'[q] = pc[q] /\ should_free'[q] = should_free[q]
  BY <1>1 DEF CallType, Goto
<1>3. should_free'[p] = FALSE
  BY <1>1 DEF CallType
<1>4. then[p] \in {"user", "exit", "dup2_read", "dup2_write"}
  BY <1>1 DEF CallType
<1>5. CallType'
  <2>1. pc' \in [Proc -> PCs]
    BY <1>1, <1>4 DEF CallType, Goto, PCs
  <2>2. freed' \in BOOLEAN /\ should_free' \in [Proc -> BOOLEAN]
    BY <1>1 DEF CallType
  <2>3. QED
    BY <1>1, <2>1, <2>2 DEF CallType
<1>6. Counted'
  BY DEF RestInv, Counted
<1>7. FreedOnce'
  <2> DEFINE F == {q \in Proc : should_free[q]}
             G == {q \in Proc : should_free'[q]}
  <2>1. G = F \ {p}
    BY <1>2, <1>3
  <2>2. CASE ~ should_free[p]
    <3>1. G = F /\ freed' = freed
      BY <1>1, <2>1, <2>2 DEF CallType
    <3>2. QED
      BY <3>1 DEF RestInv, FreedOnce
  <2>3. CASE should_free[p]
    <3>1. p \in F
      BY <2>3
    <3>2. (\A e \in End : openers[e] = 0) /\ Cardinality(F) = IF freed THEN 0 ELSE 1
      BY <3>1 DEF RestInv, FreedOnce
    <3>3. IsFiniteSet(F)
      BY PipeAssumption, FS_Subset
    <3> HIDE DEF F, G
    <3>4. IsFiniteSet(G) /\ Cardinality(G) = Cardinality(F) - 1 /\ Cardinality(G) \in Nat
      BY <2>1, <3>1, <3>3, FS_RemoveElement, FS_CardinalityType
    <3>5. Cardinality(G) = 0
      <4>1. Cardinality(F) \in {0, 1}
        BY <3>2
      <4>2. QED
        BY <3>4, <4>1
    <3>6. freed'
      BY Zenon, <2>3
    <3>7. QED
      BY <3>2, <3>5, <3>6 DEF FreedOnce, G
  <2>4. QED
    BY <2>2, <2>3
<1>8. CallOK(p)'
  <2>1. pc'[p] \notin End /\ pc'[p] \notin HandPCs /\ pc'[p] \notin ClosePCs
    BY <1>2, <1>4 DEF End, HandPCs, ClosePCs
  <2>2. \A e \in End : pc'[p] = CopyPoint(e) => Copies(p, e)
    BY <1>1, <1>2 DEF Copies, ClosePCs
  <2>3. QED
    BY Zenon, <1>1, <1>3, <2>1, <2>2 DEF CallOK, Copies
<1>9. QED
  BY Zenon, <1>2, <1>5, <1>6, <1>7, <1>8, RestStep

(* wake_all, pop_head, pop_tail, pop_clear and wake_enqueue. *)
LEMMA WakeAllKept ==
    ASSUME RestInv, NEW p \in Proc, wake_all(p)
    PROVE  RestInv'
<1>1. CallType /\ pc[p] = "wake_all" /\ state[p] = "READY" /\ At(p, "wake_all")
      /\ waiters[sweep[p]] \in [head : Proc \cup {NULL}, tail : Proc \cup {NULL}]
  BY DEF RestInv, At, wake_all, CallType
<1>2. UNCHANGED <<openers, waiters, wait_next, state, fds, left, then>>
  BY DEF wake_all
<1>3. CASE /\ waiters[sweep[p]].head # NULL
           /\ waiter' = [waiter EXCEPT ![p] = waiters[sweep[p]].head]
           /\ Goto(p, "pop_head")
           /\ UNCHANGED <<sweep, freed, should_free>>
  <2>1. pc'[p] = "pop_head" /\ pc' \in [Proc -> PCs] /\ \A q \in Proc \ {p} : pc'[q] = pc[q]
    BY <1>1, <1>3 DEF CallType, Goto, PCs
  <2>2. waiter' \in [Proc -> Proc \cup {NULL}] /\ waiter'[p] # NULL
        /\ \A q \in Proc \ {p} : waiter'[q] = waiter[q]
    BY <1>1, <1>3 DEF CallType
  <2>3. SweepStep(p)
    BY <1>1, <1>2, <1>3, <2>1, <2>2 DEF SweepStep, CallType, ClosePCs
  <2>4. QED
    BY <2>3, SweepKept
<1>4. CASE sweep' = [sweep EXCEPT ![p] = "read"] /\ UNCHANGED <<waiter, pc, freed, should_free>>
  <2>1. sweep' \in [Proc -> End]
    BY <1>1, <1>4 DEF CallType, End
  <2>2. SweepStep(p)
    BY <1>1, <1>2, <1>4, <2>1 DEF SweepStep, CallType, ClosePCs, HandPCs
  <2>3. QED
    BY <2>2, SweepKept
<1>5. CASE /\ freed' = (freed \/ should_free[p])
           /\ should_free' = [should_free EXCEPT ![p] = FALSE]
           /\ Goto(p, then[p])
           /\ UNCHANGED <<sweep, waiter>>
  BY Zenon, <1>1, <1>2, <1>5, SweepEnds
<1>6. QED
  BY <1>3, <1>4, <1>5 DEF wake_all

LEMMA PopKept ==
    ASSUME RestInv, NEW p \in Proc, pop_head(p) \/ pop_tail(p) \/ pop_clear(p)
    PROVE  RestInv'
<1>1. /\ CallType /\ state[p] = "READY" /\ pc[p] \in {"pop_head", "pop_tail", "pop_clear"}
      /\ waiter[p] \in Proc /\ waiter[p] # NULL /\ sweep[p] \in End
  BY DEF RestInv, At, CallType, CallOK, HandPCs, pop_head, pop_tail, pop_clear
<1>2. UNCHANGED <<openers, freed, state, fds, left, waiter, sweep, should_free, then>>
  BY DEF pop_head, pop_tail, pop_clear, pipeVars, callVars
<1>3. PICK l \in {"pop_tail", "pop_clear", "enqueue"} : Goto(p, l)
  BY DEF pop_head, pop_tail, pop_clear
<1>4. pc'[p] \in ClosePCs /\ pc' \in [Proc -> PCs] /\ \A q \in Proc \ {p} : pc'[q] = pc[q]
  BY <1>1, <1>3 DEF CallType, Goto, PCs, ClosePCs
<1>5. waiters' \in [End -> [head : Proc \cup {NULL}, tail : Proc \cup {NULL}]]
  <2>1. waiters \in [End -> [head : Proc \cup {NULL}, tail : Proc \cup {NULL}]]
    BY <1>1 DEF CallType
  <2>2. CASE pop_head(p)
    <3>1. PICK n \in Proc \cup {NULL} : waiters' = [waiters EXCEPT ![sweep[p]].head = n]
      BY Zenon, <1>1, <2>2 DEF CallType, pop_head
    <3>2. QED
      BY <1>1, <2>1, <3>1
  <2>3. CASE pop_tail(p)
    <3>1. PICK n \in Proc \cup {NULL} : waiters' = [waiters EXCEPT ![sweep[p]].tail = n]
      <4>1. waiters' = [waiters EXCEPT ![sweep[p]].tail =
                           IF waiters[sweep[p]].head = NULL THEN NULL ELSE waiters[sweep[p]].tail]
        BY <1>1, <2>1, <2>3 DEF pop_tail
      <4>2. QED
        BY Zenon, <1>1, <2>1, <4>1
    <3>2. QED
      BY <1>1, <2>1, <3>1
  <2>4. CASE pop_clear(p)
    BY <2>1, <2>4 DEF pop_clear, pipeVars
  <2>5. QED
    BY <2>2, <2>3, <2>4
<1>6. wait_next' \in [Proc -> Proc \cup {NULL}]
  BY <1>1 DEF CallType, pop_head, pop_tail, pop_clear
<1>7. SweepStep(p)
  BY <1>1, <1>2, <1>4, <1>5, <1>6 DEF SweepStep, CallType, ClosePCs
<1>8. QED
  BY <1>7, SweepKept

LEMMA WakeEnqueueKept ==
    ASSUME RestInv, NEW p \in Proc, wake_enqueue(p)
    PROVE  RestInv'
<1>1. CallType /\ pc[p] = "enqueue" /\ state[p] = "READY" /\ waiter[p] # NULL
  BY DEF wake_enqueue, At, RestInv, CallOK, HandPCs
<1>2. /\ state' \in [Proc -> {"FREE", "READY", "BLOCKED_PIPE", "DEAD"}]
      /\ \A q \in Proc : state'[q] = "FREE" => state[q] = "FREE"
      /\ state'[p] = "READY"
  BY <1>1, EnqueueStep DEF wake_enqueue
<1>3. /\ waiter' = [waiter EXCEPT ![p] = NULL] /\ Goto(p, "wake_all")
      /\ UNCHANGED <<openers, freed, waiters, wait_next, fds, left, sweep, should_free, then>>
  BY DEF wake_enqueue, pipeVars
<1>4. /\ waiter' \in [Proc -> Proc \cup {NULL}] /\ pc' \in [Proc -> PCs] /\ pc'[p] = "wake_all"
      /\ \A q \in Proc \ {p} : pc'[q] = pc[q] /\ waiter'[q] = waiter[q]
  BY <1>1, <1>3 DEF CallType, Goto, PCs
<1>5. SweepStep(p)
  BY <1>1, <1>2, <1>3, <1>4 DEF SweepStep, CallType, ClosePCs, HandPCs
<1>6. QED
  BY <1>5, SweepKept
-----------------------------------------------------------------------------
(* Somebody holds an entry: nobody is freeing the pipe, nor has. *)
LEMMA HeldNotFreed ==
    ASSUME RestInv, NEW p \in Proc, NEW e \in End, fds[p][e] > 0
    PROVE  /\ openers[e] # 0 /\ ~ freed
           /\ \A q \in Proc : ~ should_free[q]
<1>1. openers[e] # 0
  <2>1. fds \in Tables
    BY DEF RestInv, CallType, Tables
  <2>2. QED
    BY <2>1, EntriesFinite DEF RestInv, Counted
<1>2. QED
  BY <1>1 DEF RestInv, FreedOnce

(* The counting half of pipe_close_end. *)
LEMMA CloseKept ==
    ASSUME RestInv, NEW p \in Proc, NEW e \in End, state[p] = "READY", fds[p][e] > 0,
           NEW next \in {"user", "exit", "dup2_read", "dup2_write"},
           \A d \in End : next = CopyPoint(d) => fds[p][d] > IF d = e THEN 1 ELSE 0,
           pipe_close_end(p, e, next)
    PROVE  RestInv'
<1>1. CallType /\ CallOK(p) /\ fds \in Tables /\ MAX_FDS \in Nat
  BY Zenon, PipeAssumption DEF RestInv, CallType, Tables
<1>2. fds[p][e] \in 0 .. MAX_FDS /\ fds[p][e] - 1 \in 0 .. MAX_FDS
  <2> DEFINE n == fds[p][e]
  <2>1. n \in 0 .. MAX_FDS /\ n > 0
    BY <1>1 DEF Tables
  <2> HIDE DEF n
  <2>2. n - 1 \in 0 .. MAX_FDS
    BY <1>1, <2>1
  <2>3. QED
    BY Zenon, <2>1, <2>2 DEF n
<1>3. fds' = [fds EXCEPT ![p][e] = fds[p][e] - 1]
  BY <1>1 DEF pipe_close_end, Tables
<1>4. /\ fds' \in Tables /\ fds'[p][e] = fds[p][e] - 1
      /\ \A q \in Proc, d \in End : <<q, d>> # <<p, e>> => fds'[q][d] = fds[q][d]
      /\ \A q \in Proc \ {p} : fds'[q] = fds[q]
  <2> DEFINE n == fds[p][e] - 1
  <2>1. n \in 0 .. MAX_FDS /\ fds' = [fds EXCEPT ![p][e] = n]
    BY <1>2, <1>3
  <2> HIDE DEF n
  <2>2. /\ fds' \in Tables /\ fds'[p][e] = n
        /\ \A q \in Proc, d \in End : <<q, d>> # <<p, e>> => fds'[q][d] = fds[q][d]
        /\ \A q \in Proc \ {p} : fds'[q] = fds[q]
    BY <1>1, <2>1 DEF Tables
  <2>3. QED
    BY <2>2 DEF n
<1>5. /\ Cardinality(Entries(fds, e)) = Cardinality(Entries(fds', e)) + 1
      /\ \A d \in End \ {e} : Entries(fds, d) = Entries(fds', d)
  <2>1. More(fds', fds, p, e)
    BY <1>2, <1>4 DEF More
  <2>2. QED
    BY Zenon, <1>1, <1>4, <2>1, EntriesMore
<1>6. openers[e] # 0 /\ ~ freed /\ \A q \in Proc : ~ should_free[q]
  BY HeldNotFreed
<1>7. openers' \in [End -> Nat] /\ openers'[e] = openers[e] - 1
      /\ \A d \in End \ {e} : openers'[d] = openers[d]
  <2>1. openers \in [End -> Nat] /\ openers[e] > 0
    BY <1>1, <1>6 DEF CallType
  <2>2. QED
    BY <2>1 DEF pipe_close_end
<1>8. Counted'
  <2>1. \A d \in End : Cardinality(Entries(fds', d)) \in Nat /\ openers[d] = Cardinality(Entries(fds, d))
    BY Zenon, <1>4, EntriesFinite DEF RestInv, Counted
  <2>2. ASSUME NEW d \in End PROVE openers'[d] = Cardinality(Entries(fds', d))
    BY <1>5, <1>7, <2>1
  <2>3. QED
    BY <2>2 DEF Counted, Entries
<1>9. should_free' \in [Proc -> BOOLEAN]
      /\ (should_free'[p] <=> \A d \in End : openers'[d] = 0)
      /\ \A q \in Proc \ {p} : should_free'[q] = should_free[q]
  BY <1>1 DEF CallType, pipe_close_end
<1>10. FreedOnce'
  <2> DEFINE G == {q \in Proc : should_free'[q]}
  <2>1. ~ freed'
    BY <1>6 DEF pipe_close_end
  <2>2. CASE \A d \in End : openers'[d] = 0
    <3>1. G = {p}
      BY <1>6, <1>9, <2>2
    <3>2. Cardinality(G) = 1
      BY Zenon, <3>1, FS_Singleton
    <3>3. QED
      BY <2>1, <2>2, <3>2 DEF FreedOnce
  <2>3. CASE ~ \A d \in End : openers'[d] = 0
    <3>1. G = {}
      BY <1>6, <1>9, <2>3
    <3>2. QED
      BY <2>1, <2>3, <3>1 DEF FreedOnce
  <2>4. QED
    BY <2>2, <2>3
<1>11. /\ pc' \in [Proc -> PCs] /\ pc'[p] = "wake_all" /\ then'[p] = next
       /\ then' \in [Proc -> {"user", "exit", "dup2_read", "dup2_write"}] /\ sweep' \in [Proc -> End]
       /\ \A q \in Proc \ {p} : pc'[q] = pc[q] /\ then'[q] = then[q]
       /\ UNCHANGED <<freed, waiters, wait_next, state, left, waiter>>
  BY <1>1 DEF CallType, pipe_close_end, Goto, PCs, End
<1>12. CallType'
  BY <1>1, <1>4, <1>7, <1>9, <1>11 DEF CallType, Tables
<1>13. CallOK(p)'
  <2>1. fds'[p]["read"] + fds'[p]["write"] < MAX_FDS
    <3>1. fds[p]["read"] \in Nat /\ fds[p]["write"] \in Nat
      BY <1>1 DEF Tables, End
    <3>2. fds[p]["read"] + fds[p]["write"] <= MAX_FDS
      BY <1>1 DEF CallOK
    <3>3. CASE e = "read"
      <4>1. fds'[p]["read"] = fds[p]["read"] - 1 /\ fds'[p]["write"] = fds[p]["write"]
        BY <1>4, <3>3 DEF End
      <4>2. QED
        BY <1>1, <3>1, <3>2, <4>1
    <3>4. CASE e = "write"
      <4>1. fds'[p]["write"] = fds[p]["write"] - 1 /\ fds'[p]["read"] = fds[p]["read"]
        BY <1>4, <3>4 DEF End
      <4>2. QED
        BY <1>1, <3>1, <3>2, <4>1
    <3>5. QED
      BY <3>3, <3>4 DEF End
  <2>2. ASSUME NEW d \in End, next = CopyPoint(d) PROVE fds'[p][d] > 0
    <3>1. fds[p][d] \in Nat /\ fds[p][d] > IF d = e THEN 1 ELSE 0
      BY <1>1, <2>2 DEF Tables
    <3>2. QED
      BY <1>4, <3>1
  <2>3. "wake_all" \notin End /\ "wake_all" \notin HandPCs /\ "wake_all" \in ClosePCs
        /\ \A d \in End : "wake_all" # CopyPoint(d)
    BY DEF End, HandPCs, ClosePCs, CopyPoint
  <2>4. fds'[p]["read"] + fds'[p]["write"] <= MAX_FDS
    <3>1. fds'[p]["read"] \in Nat /\ fds'[p]["write"] \in Nat
      BY <1>4 DEF Tables, End
    <3>2. QED
      BY <1>1, <2>1, <3>1
  <2>5. state'[p] # "FREE"
    BY <1>11
  <2>6. QED
    BY <1>11, <2>1, <2>2, <2>3, <2>4, <2>5 DEF CallOK, Copies
<1>14. QED
  BY Zenon, <1>4, <1>8, <1>9, <1>10, <1>11, <1>12, <1>13, RestStep

(* A new entry, made by dup or by the second half of dup2. *)
LEMMA AddRefKept ==
    ASSUME RestInv, NEW p \in Proc, NEW e \in End, state[p] = "READY", fds[p][e] > 0, HasRoom(p),
           pc[p] \in {"user", "dup2_read", "dup2_write"}, AddRef(p, e),
           pc' = [pc EXCEPT ![p] = "user"],
           UNCHANGED <<freed, waiters, wait_next, state, callVars>>
    PROVE  RestInv'
<1>1. CallType /\ CallOK(p) /\ fds \in Tables /\ MAX_FDS \in Nat
  BY Zenon, PipeAssumption DEF RestInv, CallType, Tables
<1>2. fds[p]["read"] \in Nat /\ fds[p]["write"] \in Nat /\ fds[p]["read"] + fds[p]["write"] < MAX_FDS
  BY <1>1 DEF Tables, End, HasRoom
<1>3. fds[p][e] + 1 \in 0 .. MAX_FDS /\ fds[p][e] \in 0 .. MAX_FDS
  BY <1>1, <1>2 DEF End
<1>4. fds' = [fds EXCEPT ![p][e] = fds[p][e] + 1]
  BY <1>1 DEF AddRef, Tables
<1>5. /\ fds' \in Tables /\ fds'[p][e] = fds[p][e] + 1
      /\ \A q \in Proc, d \in End : <<q, d>> # <<p, e>> => fds'[q][d] = fds[q][d]
      /\ \A q \in Proc \ {p} : fds'[q] = fds[q]
  <2> DEFINE n == fds[p][e] + 1
  <2>1. n \in 0 .. MAX_FDS /\ fds' = [fds EXCEPT ![p][e] = n]
    BY <1>3, <1>4
  <2> HIDE DEF n
  <2>2. /\ fds' \in Tables /\ fds'[p][e] = n
        /\ \A q \in Proc, d \in End : <<q, d>> # <<p, e>> => fds'[q][d] = fds[q][d]
        /\ \A q \in Proc \ {p} : fds'[q] = fds[q]
    BY <1>1, <2>1 DEF Tables
  <2>3. QED
    BY <2>2 DEF n
<1>6. /\ Cardinality(Entries(fds', e)) = Cardinality(Entries(fds, e)) + 1
      /\ \A d \in End \ {e} : Entries(fds', d) = Entries(fds, d)
  <2>1. More(fds, fds', p, e)
    BY Zenon, <1>5 DEF More
  <2>2. QED
    BY Zenon, <1>1, <1>5, <2>1, EntriesMore
<1>7. openers' \in [End -> Nat] /\ openers'[e] = openers[e] + 1 /\ openers[e] \in Nat
      /\ \A d \in End \ {e} : openers'[d] = openers[d]
  <2>1. openers \in [End -> Nat]
    BY <1>1 DEF CallType
  <2>2. QED
    BY <2>1 DEF AddRef
<1>8. Counted'
  <2>1. ASSUME NEW d \in End PROVE openers'[d] = Cardinality(Entries(fds', d))
    BY <1>6, <1>7 DEF RestInv, Counted
  <2>2. QED
    BY <2>1 DEF Counted, Entries
<1>9. ~ freed' /\ should_free' = should_free /\ \A q \in Proc : ~ should_free'[q]
  BY HeldNotFreed DEF callVars
<1>10. FreedOnce'
  <2>1. openers'[e] # 0
    BY <1>7
  <2>2. {q \in Proc : should_free'[q]} = {}
    BY <1>9
  <2>3. QED
    BY <1>9, <2>1, <2>2 DEF FreedOnce
<1>11. pc' \in [Proc -> PCs] /\ pc'[p] = "user" /\ \A q \in Proc \ {p} : pc'[q] = pc[q]
  BY <1>1 DEF CallType, PCs
<1>12. CallType'
  BY Zenon, <1>1, <1>5, <1>7, <1>11 DEF CallType, Tables, callVars
<1>13. CallOK(p)'
  <2>1. fds'[p]["read"] + fds'[p]["write"] <= MAX_FDS
    <3>1. CASE e = "read"
      BY <1>1, <1>2, <1>5, <3>1 DEF End
    <3>2. CASE e = "write"
      BY <1>1, <1>2, <1>5, <3>2 DEF End
    <3>3. QED
      BY Zenon, <3>1, <3>2 DEF End
  <2>2. "user" \notin End /\ "user" \notin HandPCs /\ "user" \notin ClosePCs
        /\ \A d \in End : "user" # CopyPoint(d)
    BY DEF End, HandPCs, ClosePCs, CopyPoint
  <2>3. state'[p] # "FREE"
    OBVIOUS
  <2>4. QED
    BY Zenon, <1>9, <1>11, <2>1, <2>2, <2>3 DEF CallOK, Copies
<1>14. QED
  BY Zenon, <1>5, <1>8, <1>10, <1>11, <1>12, <1>13, RestStep DEF callVars

(* dup, the second half of dup2, close and the first half of dup2. *)
LEMMA DupKept ==
    ASSUME RestInv, NEW p \in Proc, NEW e \in End, SYS_dup(p, e)
    PROVE  RestInv'
<1>1. state[p] = "READY" /\ pc[p] = "user" /\ fds[p][e] > 0 /\ HasRoom(p) /\ AddRef(p, e)
      /\ UNCHANGED <<freed, waiters, wait_next, state, pc, callVars>>
  BY DEF SYS_dup, Issues, At
<1>2. pc' = [pc EXCEPT ![p] = "user"]
  BY <1>1 DEF RestInv, CallType
<1>3. QED
  BY Zenon, <1>1, <1>2, AddRefKept

LEMMA Dup2CopyKept ==
    ASSUME RestInv, NEW p \in Proc, NEW e \in End, dup2_copy(p, e)
    PROVE  RestInv'
<1>1. state[p] = "READY" /\ pc[p] = CopyPoint(e) /\ AddRef(p, e) /\ pc' = [pc EXCEPT ![p] = "user"]
      /\ UNCHANGED <<freed, waiters, wait_next, state, callVars>>
  BY DEF dup2_copy, At, Goto
<1>2. fds[p][e] > 0 /\ HasRoom(p)
  BY <1>1 DEF RestInv, CallOK, Copies, HasRoom
<1>3. pc[p] \in {"user", "dup2_read", "dup2_write"}
  BY <1>1 DEF CopyPoint
<1>4. QED
  BY Zenon, <1>1, <1>2, <1>3, AddRefKept

LEMMA SysCloseKept ==
    ASSUME RestInv, NEW p \in Proc, NEW e \in End, SYS_close(p, e)
    PROVE  RestInv'
<1>1. state[p] = "READY" /\ fds[p][e] > 0 /\ pipe_close_end(p, e, "user")
  BY DEF SYS_close, Issues, At
<1>2. \A d \in End : "user" # CopyPoint(d)
  BY DEF CopyPoint
<1>3. QED
  BY <1>1, <1>2, CloseKept

LEMMA Dup2Kept ==
    ASSUME RestInv, NEW p \in Proc, NEW src \in End, NEW dst \in End, SYS_dup2(p, src, dst)
    PROVE  RestInv'
<1>1. /\ state[p] = "READY" /\ fds[p][src] > 0 /\ fds[p][dst] > IF src = dst THEN 1 ELSE 0
      /\ pipe_close_end(p, dst, CopyPoint(src))
  BY DEF SYS_dup2, Issues, At
<1>2. fds[p][dst] \in Nat
  BY PipeAssumption DEF RestInv, CallType
<1>3. fds[p][dst] > 0
  BY <1>1, <1>2
<1>4. \A d \in End : CopyPoint(src) = CopyPoint(d) => d = src
  BY DEF CopyPoint, End
<1>5. CopyPoint(src) \in {"user", "exit", "dup2_read", "dup2_write"}
  BY DEF CopyPoint
<1>6. \A d \in End : CopyPoint(src) = CopyPoint(d) => fds[p][d] > IF d = dst THEN 1 ELSE 0
  BY <1>1, <1>4
<1>7. QED
  BY <1>1, <1>3, <1>5, <1>6, CloseKept

(* SYS_fork: the child's slot was free, so its table was empty. *)
LEMMA ForkKept ==
    ASSUME RestInv, NEW p \in Proc, NEW c \in Proc, SYS_fork(p, c)
    PROVE  RestInv'
<1>1. CallType /\ CallOK(p) /\ CallOK(c) /\ fds \in Tables /\ MAX_FDS \in Nat
  BY PipeAssumption DEF RestInv, CallType, Tables
<1>2. /\ state[p] = "READY" /\ pc[p] = "user" /\ state[c] = "FREE"
      /\ state' = [state EXCEPT ![c] = "READY"] /\ fds' = [fds EXCEPT ![c] = fds[p]]
      /\ openers' = [e \in End |-> openers[e] + fds[p][e]]
      /\ UNCHANGED <<freed, waiters, wait_next, pc, left, waiter, sweep, should_free, then>>
  BY DEF SYS_fork, Issues, At, callVars
<1>3. fds[c] = NoFds /\ pc[c] = "user" /\ ~ should_free[c]
  BY <1>1, <1>2 DEF CallOK, ClosePCs
<1>4. /\ fds' \in Tables /\ fds'[c] = fds[p] /\ state'[c] = "READY"
      /\ state' \in [Proc -> {"FREE", "READY", "BLOCKED_PIPE", "DEAD"}]
      /\ \A q \in Proc \ {c} : fds'[q] = fds[q] /\ state'[q] = state[q]
  BY <1>1, <1>2 DEF Tables, CallType
<1>5. \A e \in End : fds[p][e] \in Nat /\ openers[e] \in Nat
  BY <1>1 DEF CallType
<1>6. openers' \in [End -> Nat] /\ \A e \in End : openers'[e] = openers[e] + fds[p][e]
  BY <1>2, <1>5
<1>7. Counted'
  <2>1. ASSUME NEW e \in End PROVE openers'[e] = Cardinality(Entries(fds', e))
    <3>1. Cardinality(Entries([fds EXCEPT ![c] = fds[p]], e)) = Cardinality(Entries(fds, e)) + fds[p][e]
      BY <1>1, <1>3, EntriesCopied
    <3>2. Cardinality(Entries(fds', e)) = Cardinality(Entries(fds, e)) + fds[p][e]
      BY <1>2, <3>1
    <3>3. QED
      BY <1>6, <3>2 DEF RestInv, Counted
  <2>2. QED
    BY <2>1 DEF Counted, Entries
<1>8. FreedOnce'
  <2>1. CASE \A e \in End : fds[p][e] = 0
    <3>1. openers' = openers
      BY <1>1, <1>2, <1>5, <2>1 DEF CallType
    <3>2. QED
      BY <1>2, <3>1 DEF RestInv, FreedOnce
  <2>2. CASE \E e \in End : fds[p][e] # 0
    <3>1. PICK e \in End : fds[p][e] > 0
      BY <1>5, <2>2
    <3>2. ~ freed' /\ \A q \in Proc : ~ should_free'[q]
      BY <1>2, <3>1, HeldNotFreed
    <3>3. openers'[e] # 0
      BY <1>5, <1>6, <3>1
    <3>4. {q \in Proc : should_free'[q]} = {}
      BY <3>2
    <3>5. QED
      BY <3>2, <3>3, <3>4 DEF FreedOnce
  <2>3. QED
    BY <2>1, <2>2
<1>9. CallType'
  BY <1>1, <1>2, <1>4, <1>6 DEF CallType, Tables
<1>10. CallOK(c)'
  <2>1. fds'[c]["read"] + fds'[c]["write"] <= MAX_FDS
    BY Zenon, <1>1, <1>4 DEF CallOK
  <2>2. pc'[c] = "user" /\ ~ should_free'[c] /\ state'[c] # "FREE"
    BY <1>2, <1>3, <1>4
  <2>3. "user" \notin End /\ "user" \notin HandPCs /\ "user" \notin ClosePCs
        /\ \A d \in End : "user" # CopyPoint(d)
    BY DEF End, HandPCs, ClosePCs, CopyPoint
  <2>4. QED
    BY <2>1, <2>2, <2>3 DEF CallOK, Copies
<1>11. QED
  BY <1>2, <1>4, <1>7, <1>8, <1>9, <1>10, RestStep

(* SYS_exit: one more close, or the end. *)
LEMMA ExitKept ==
    ASSUME RestInv, NEW p \in Proc, SYS_exit(p)
    PROVE  RestInv'
<1>1. state[p] = "READY" /\ pc[p] \in {"user", "exit"} /\ CallType /\ CallOK(p)
  BY DEF SYS_exit, Issues, At, RestInv
<1>2. CASE \E e \in End : fds[p][e] > 0 /\ pipe_close_end(p, e, "exit")
  <2>1. \A d \in End : "exit" # CopyPoint(d)
    BY DEF CopyPoint
  <2>2. QED
    BY <1>1, <1>2, <2>1, CloseKept
<1>3. CASE /\ state' = [state EXCEPT ![p] = "DEAD"]
           /\ UNCHANGED <<pipeVars, wait_next, fds, pc, callVars>>
  <2>1. UNCHANGED <<openers, freed, waiters, wait_next, fds, pc, left, waiter, sweep, should_free, then>>
    BY <1>3 DEF pipeVars, callVars
  <2>2. state' \in [Proc -> {"FREE", "READY", "BLOCKED_PIPE", "DEAD"}]
        /\ \A q \in Proc : state'[q] = "FREE" => state[q] = "FREE"
    BY <1>1, <1>3 DEF CallType
  <2>3. CallType'
    BY <1>1, <2>1, <2>2 DEF CallType
  <2>4. Counted' /\ FreedOnce'
    BY <2>1, RefsKept DEF RestInv
  <2>5. CallOK(p)'
    BY Zenon, <1>1, <2>1, <2>2, CallKept
  <2>6. QED
    BY <2>1, <2>2, <2>3, <2>4, <2>5, RestStep
<1>4. QED
  BY <1>2, <1>3 DEF SYS_exit

(* Every step of the kernel and of the programs. *)
LEMMA RefsNext == RefsInv /\ [Next]_vars => RefsInv'
<1> SUFFICES ASSUME RefsInv, [Next]_vars PROVE RefsInv'
  OBVIOUS
<1>1. RingInv /\ RestInv /\ scene \in Scenes
  BY RefsSplit
<1>2. RingInv'
  BY <1>1, RingStep
<1>3. scene' = scene
  BY DEF Next, vars
<1>4. RestInv'
  <2>1. ASSUME NEW p \in Proc, KernelStep(p) PROVE RestInv'
    <3>1. ASSUME NEW e \in End, transfer_wake(p, e) \/ dup2_copy(p, e) PROVE RestInv'
      BY <1>1, <3>1, WakeKept, Dup2CopyKept
    <3>2. QED
      BY <1>1, <2>1, <3>1, ReadKept, WriteKept, WakeAllKept, PopKept, WakeEnqueueKept, ExitKept
         DEF KernelStep
  <2>2. ASSUME NEW p \in Proc, UserStep(p) PROVE RestInv'
    <3>1. ASSUME NEW e \in End, SYS_transfer(p, e) \/ SYS_close(p, e) \/ SYS_dup(p, e) PROVE RestInv'
      BY <1>1, <3>1, SysTransferKept, SysCloseKept, DupKept
    <3>2. ASSUME NEW src \in End, NEW dst \in End, SYS_dup2(p, src, dst) PROVE RestInv'
      BY <1>1, <3>2, Dup2Kept
    <3>3. ASSUME NEW c \in Proc, SYS_fork(p, c) PROVE RestInv'
      BY <1>1, <3>3, ForkKept
    <3>4. QED
      BY <1>1, <2>2, <3>1, <3>2, <3>3, ExitKept DEF UserStep
  <2>3. ASSUME UNCHANGED vars PROVE RestInv'
    <3>1. UNCHANGED <<openers, freed, waiters, wait_next, state, fds, pc, left, waiter, sweep,
                      should_free, then>>
      BY <2>3 DEF vars, pipeVars, callVars
    <3>2. CallType' /\ Counted' /\ FreedOnce' /\ \A q \in Proc : CallOK(q)'
      BY <1>1, <3>1, RefsKept, CallKept DEF RestInv, CallType
    <3>3. QED
      BY <3>2 DEF RestInv
  <2>4. QED
    BY <2>1, <2>2, <2>3 DEF Next
<1>5. (RingInv /\ RestInv /\ scene \in Scenes)' => RefsInv'
  BY RefsSplit, PTL
<1>6. QED
  BY <1>1, <1>2, <1>3, <1>4, <1>5

(* readers and writers of a pipe_t (pipe.h:12) are at every moment the      *)
(* numbers of descriptors that refer to its ends, over all fd_tables and    *)
(* through close, dup, dup2, fork and exit; and the pipe is freed by        *)
(* exactly one closer, once both are zero.                                  *)
THEOREM RefsStayExact == Spec => []RefsExact
<1>1. RefsInv => RefsExact
  BY DEF RefsInv, RefsExact, Counted, FreedOnce
<1>2. QED
  BY <1>1, RefsInit, RefsNext, PTL DEF Spec

=============================================================================
