---------------------------- MODULE MCScheduler ----------------------------
(***************************************************************************)
(* Instances of Scheduler for TLC: the idle process, the shell that the    *)
(* kernel starts, and up to two further process_t addresses.  A scene      *)
(* limits what programs and the keyboard do, never the kernel: which       *)
(* addresses fork may take, which calls are issued, how many bytes lines   *)
(* and reads have, and how many lines are buffered at a time.              *)
(***************************************************************************)
EXTENDS Scheduler, TLC

CONSTANTS idle, sh, p2, p3, Scenes

VARIABLE scene

(* Two programs that make every call, on lines of one byte. *)
Chores == [procs |-> {sh, p2}, calls |-> Syscalls, bytes |-> {1}, lines |-> 1]

(* Two readers, whose reads are shorter than lines or longer. *)
Typing == [procs |-> {sh, p2}, calls |-> {"fork", "read"}, bytes |-> {1, 2}, lines |-> 2]

(* Three generations that fork, exit and wait for each other. *)
Family == [procs |-> {sh, p2, p3}, calls |-> {"fork", "exit", "wait"}, bytes |-> {}, lines |-> 0]

AllScenes == {Chores, Typing, Family}

(* The shell computes for ever, and nobody types. *)
Computing == {[procs |-> {sh}, calls |-> {}, bytes |-> {}, lines |-> 0]}

SceneInit == Init /\ scene \in Scenes

(* The calls of UserStep that the scene allows. *)
SceneUserStep ==
    /\ pc[current_process] = "user"
    /\ \/ "fork" \in scene.calls /\ \E c \in scene.procs : SYS_fork(c)
       \/ "exit" \in scene.calls /\ SYS_exit
       \/ "wait" \in scene.calls /\ SYS_wait
       \/ "sleep" \in scene.calls /\ \E d \in 1 .. MaxSleep : SYS_sleep_ms(d)
       \/ "read" \in scene.calls /\ \E n \in scene.bytes : keyboard_read(n)

SceneNext ==
    /\ \/ KernelStep
       \/ SceneUserStep
       \/ on_irq0
       \/ \E n \in scene.bytes : Len(kbd_buf) < scene.lines /\ on_irq1(n)
    /\ UNCHANGED scene

SceneSpec == SceneInit /\ [][SceneNext]_<<vars, scene>> /\ Fairness
=============================================================================
