------------------------------ MODULE Keyboard ------------------------------
(***************************************************************************)
(* The keyboard driver (drivers/keyboard.c) between the interrupt that     *)
(* edits, echoes and commits a line and the process that reads it, and the *)
(* console it shares with the programs that print.                         *)
(*                                                                         *)
(* on_irq1 runs with interrupts off; keyboard_read takes one byte, or      *)
(* registers as a waiter, between a cli and its sti.  A process that was   *)
(* woken takes its next step when the scheduler lets it.                   *)
(***************************************************************************)
EXTENDS Console

CONSTANTS
    Readers,        \* the processes that read the keyboard
    KBD_BUF_SIZE,   \* also LINE_BUF_SIZE
    KbdScenes       \* what is done with the keyboard and the console (KbdSceneType)

LINE_BUF_SIZE == KBD_BUF_SIZE

(* The keys that are struck, the sizes of the reads that are made, and the *)
(* strings that programs print.                                            *)
Key == {"LSHIFT", "RSHIFT", "A", "ENTER", "BACKSPACE", "TAB", "F1"}
KbdSceneType == [keys : SUBSET Key, counts : SUBSET (1 .. KBD_BUF_SIZE),
                 outputs : SUBSET BoundedSeq({"NL", "o"}, 1)]

VARIABLES
    shift_down,
    line_buf,   \* line_buf[0 .. line_len)
    kbd_buf,    \* the bytes of the circular buffer from kbd_tail up to kbd_head
    kbd_waitq,
    kstate,     \* process_t.state of each reader: READY or BLOCKED_KBD
    left,       \* bytes its keyboard_read has yet to fetch; 0 in user mode
    console,
    mixed,      \* auxiliary: a program printed while the line was being typed
    dropped,    \* auxiliary: kbd_buf_push has dropped a byte
    kbdScene

kbdVars ==
    <<shift_down, line_buf, kbd_buf, kbd_waitq, kstate, left, console, mixed, dropped, kbdScene>>

ASSUME ReadersAssumption == IsFiniteSet(Readers)

ASSUME KeyboardAssumption ==
    /\ KBD_BUF_SIZE \in Nat \ {0, 1}
    /\ KbdScenes \subseteq KbdSceneType

KeyboardInit ==
    /\ shift_down = FALSE /\ line_buf = <<>>
    /\ kbd_buf = <<>> /\ kbd_waitq = <<>> /\ kbdScene \in KbdScenes
    /\ kstate = [r \in Readers |-> "READY"] /\ left = [r \in Readers |-> 0]
    /\ console = CleanConsole /\ mixed = FALSE /\ dropped = FALSE

NoChar == "NUL"

kbd_us(key) ==
    CASE key = "A" -> "a" [] key = "ENTER" -> "NL" [] key = "BACKSPACE" -> "BS"
      [] key = "TAB" -> "TAB" [] OTHER -> NoChar

shift_char(c) == IF c = "a" THEN "A" ELSE c
-----------------------------------------------------------------------------
(* One slot stays empty, to tell a full buffer from an empty one. *)
kbd_buf_push(buf, c) == IF Len(buf) = KBD_BUF_SIZE - 1 THEN buf ELSE Append(buf, c)

WakeHead ==
    IF kbd_waitq = <<>> THEN UNCHANGED <<kbd_waitq, kstate>>
    ELSE /\ kbd_waitq' = Tail(kbd_waitq)
         /\ kstate' = [kstate EXCEPT ![Head(kbd_waitq)] = "READY"]

(* Mutant: the line is handed over without the character that ended it. *)
CommitLine_short(line) ==
    LET buf == FoldLeft(kbd_buf_push, kbd_buf, Front(line))
    IN  /\ kbd_buf' = buf
        /\ dropped' = (dropped \/ Len(buf) < Len(kbd_buf) + Len(line) - 1)
        /\ line_buf' = <<>> /\ mixed' = FALSE
        /\ WakeHead

(* Mutant: only a newline wakes the reader. *)
CommitLine_newline(line) ==
    LET buf == FoldLeft(kbd_buf_push, kbd_buf, line)
    IN  /\ kbd_buf' = buf
        /\ dropped' = (dropped \/ Len(buf) < Len(kbd_buf) + Len(line))
        /\ line_buf' = <<>> /\ mixed' = FALSE
        /\ IF Last(line) = "NL" THEN WakeHead ELSE UNCHANGED <<kbd_waitq, kstate>>

(* The whole line goes to the ring, and one waiter is readied. *)
CommitLine(line) ==
    LET buf == FoldLeft(kbd_buf_push, kbd_buf, line)
    IN  /\ kbd_buf' = buf
        /\ dropped' = (dropped \/ Len(buf) < Len(kbd_buf) + Len(line))
        /\ line_buf' = <<>> /\ mixed' = FALSE
        /\ WakeHead

KeepLine(line) ==
    /\ line_buf' = line
    /\ mixed' = (mixed /\ line # <<>>)
    /\ UNCHANGED <<kbd_buf, kbd_waitq, kstate, dropped>>

EraseLast ==
    IF line_buf = <<>> THEN KeepLine(line_buf) /\ UNCHANGED console
    ELSE KeepLine(Front(line_buf)) /\ console' = print(console, <<"BS", Blank, "BS">>)

TypeChar(c) ==
    LET line == Append(line_buf, c)
    IN  /\ console' = print(console, <<c>>)
        /\ IF c = "NL" \/ Len(line) = LINE_BUF_SIZE THEN CommitLine(line) ELSE KeepLine(line)

(* A scan code: the press or the release (is_break) of a key. *)
on_irq1(key, is_break) ==
    LET us == kbd_us(key)
        c  == IF shift_down THEN shift_char(us) ELSE us
    IN  /\ UNCHANGED left
        /\ IF key \in {"LSHIFT", "RSHIFT"}
           THEN shift_down' = ~ is_break /\ KeepLine(line_buf) /\ UNCHANGED console
           ELSE /\ UNCHANGED shift_down
                /\ IF is_break \/ us = NoChar THEN KeepLine(line_buf) /\ UNCHANGED console
                   ELSE IF c = "BS" THEN EraseLast
                   ELSE TypeChar(c)
-----------------------------------------------------------------------------
SYS_read_kbd(r, count) ==
    /\ kstate[r] = "READY" /\ left[r] = 0
    /\ left' = [left EXCEPT ![r] = count]
    /\ UNCHANGED <<shift_down, line_buf, kbd_buf, kbd_waitq, kstate, console, mixed, dropped>>

(* One turn of keyboard_read's loop: a byte, or the wait queue. *)
keyboard_read(r) ==
    /\ kstate[r] = "READY" /\ left[r] > 0
    /\ IF kbd_buf # <<>>
       THEN /\ kbd_buf' = Tail(kbd_buf)
            /\ left' = [left EXCEPT ![r] = IF Head(kbd_buf) = "NL" THEN 0 ELSE @ - 1]
            /\ UNCHANGED <<kbd_waitq, kstate>>
       ELSE /\ kstate' = [kstate EXCEPT ![r] = "BLOCKED_KBD"]
            /\ kbd_waitq' = Append(kbd_waitq, r)
            /\ UNCHANGED <<kbd_buf, left>>
    /\ UNCHANGED <<shift_down, line_buf, console, mixed, dropped>>

(* SYS_write on fd 1: print_n. *)
SYS_write_console(str) ==
    /\ console' = print(console, str)
    /\ mixed' = (line_buf # <<>>)
    /\ UNCHANGED <<shift_down, line_buf, kbd_buf, kbd_waitq, kstate, left, dropped>>

KeyboardNext ==
    /\ \/ \E key \in kbdScene.keys, is_break \in BOOLEAN : on_irq1(key, is_break)
       \/ \E r \in Readers :
             keyboard_read(r) \/ (\E n \in kbdScene.counts : SYS_read_kbd(r, n))
       \/ \E str \in kbdScene.outputs : SYS_write_console(str)
    /\ UNCHANGED kbdScene
-----------------------------------------------------------------------------
(* What keyboard.c's line editing promises the person who types: the line  *)
(* that Enter will hand over is the one on the screen, right before the    *)
(* cursor, through wrapping, scrolling and backspaces across rows, as far  *)
(* as it has not scrolled off the top; a tab leaves its cell as it was.    *)
(* Only a program that prints while the line is being typed breaks this.   *)
EchoMatches ==
    ~ mixed =>
        \A k \in 1 .. Len(line_buf) :
            LET i == CellAt(console.x, console.y) - (Len(line_buf) - k + 1)
            IN  i >= 0 /\ line_buf[k] # "TAB" => console.cell[i] = line_buf[k]

(* As long as the ring has had room, what it holds ends with the end of a  *)
(* line: no reader is left with half of one.  A line that fills line_buf   *)
(* without a newline never fits, as the ring holds a byte less.            *)
LinesWhole == ~ dropped /\ kbd_buf # <<>> => Last(kbd_buf) = "NL"

(* keyboard.c:19: the buffer is "Single-producer (IRQ), single-consumer    *)
(* (sys_read)".  A single reader never sleeps over a byte: its test and    *)
(* its registration are one step to on_irq1, which wakes it at every line. *)
NoByteWaits ==
    Cardinality(Readers) = 1 =>
        \A r \in Readers : kstate[r] = "BLOCKED_KBD" => kbd_buf = <<>>
=============================================================================
