------------------------------ MODULE Scheduler ------------------------------
(***************************************************************************)
(* The single-core scheduler of the kernel: the multi-level feedback queue *)
(* of scheduler.c, schedule() and the process ring of process.c, and the   *)
(* system calls that block through it (SYS_wait, SYS_sleep_ms, a blocking  *)
(* keyboard read), interleaved with the timer and keyboard interrupts.     *)
(*                                                                         *)
(* A process is a process_t address: fork takes any free one, and wait()   *)
(* gives it back, so addresses are reused the way kmalloc reuses them.     *)
(* A step is what runs without an interrupt being able to intervene: code  *)
(* under cli (or under SYSCALL's FMASK) is one action, code after an sti   *)
(* is a further one.                                                       *)
(***************************************************************************)
EXTENDS Integers, FiniteSets, Sequences, SeqOps

CONSTANTS
    Proc,                     \* process_t addresses, the idle process included
    Idle,                     \* idle_process
    Shell,                    \* the process spawn_initial_processes() creates
    NULL,
    NUM_QUEUES,
    PRIORITY_BOOST_INTERVAL,
    Syscalls,                 \* the system calls programs issue in this instance
    MaxSleep,                 \* bound: longest sleep, in ticks
    MaxLines,                 \* bound: unread keyboard lines
    MaxBytes                  \* bound: bytes of a line, and of a read

ASSUME ProcAssumption ==
    /\ IsFiniteSet(Proc)
    /\ Idle \in Proc /\ Shell \in Proc /\ Idle # Shell
    /\ NULL \notin Proc

ASSUME BoundAssumption ==
    /\ NUM_QUEUES \in Nat \ {0}
    /\ PRIORITY_BOOST_INTERVAL \in Nat \ {0}
    /\ MaxSleep \in Nat
    /\ MaxLines \in Nat
    /\ MaxBytes \in Nat \ {0}
    /\ Syscalls \subseteq {"fork", "exit", "wait", "sleep", "read"}

VARIABLES
    current_process,
    state,           \* process_t.state; FREE is an unallocated process_t
    priority,
    ticks_executed,
    parent,
    mlfq,            \* the ready queue of each level, head first
    global_ticks,
    process_queue,   \* the ring of all processes, from the idle process on
    pc,              \* where each process is suspended, or executing
    sleep_left,      \* wake_tick - ticks of a sleeping process, 0 once reached
    kbd_buf,         \* the lines buffered, each as the number of its unread bytes,
                     \* of which the last is '\n'
    kbd_waitq,
    left,            \* count - n of a process in keyboard_read, 0 elsewhere
    cut              \* history: reads their count stopped within a line, since
                     \* kbd_buf was last empty; MaxLines stands for any more

queueVarsButState == <<current_process, priority, ticks_executed, mlfq>>
queueVars == <<queueVarsButState, state>>
procVars  == <<parent, process_queue>>
kbdVars   == <<kbd_buf, kbd_waitq, left, cut>>
vars == <<queueVars, procVars, kbdVars, global_ticks, pc, sleep_left>>

Level == 0 .. NUM_QUEUES - 1

(* mlfq_init: 2, 4, 6, ... ticks from the highest level down. *)
Quantum(i) == 2 * (i + 1)

(* Interrupts are masked from SYSCALL entry through the whole of the       *)
(* SYS_wait loop, and in kmain before its sti.                             *)
Masked == {"kmain", "wait"}

InterruptsOn == pc[current_process] \notin Masked
-----------------------------------------------------------------------------
(***************************************************************************)
(* The ready queues.  q stands for the contents of mlfq at the moment of   *)
(* the call.                                                               *)
(***************************************************************************)
mlfq_enqueue(q, st, p, level) ==
    IF st[p] = "DEAD" THEN q ELSE [q EXCEPT ![level] = Append(@, p)]

(* The state mlfq_enqueue gives the process it links. *)
mlfq_enqueue_state(st, p) ==
    IF st[p] = "DEAD" THEN st ELSE [st EXCEPT ![p] = "READY"]

NonEmpty(q) == {i \in Level : q[i] # <<>>}

(* Mutant: the scan of the levels starts from the lowest priority. *)
TopLevelReversed(q) == CHOOSE i \in NonEmpty(q) : \A j \in NonEmpty(q) : j <= i

TopLevel(q) == CHOOSE i \in NonEmpty(q) : \A j \in NonEmpty(q) : i <= j

(* The process mlfq_pick_next returns, schedule_locked's fallback included. *)
mlfq_pick_next(q) ==
    IF NonEmpty(q) = {} THEN Idle ELSE Head(q[TopLevel(q)])

(* Mutant: the process picked stays linked at the head of its queue. *)
mlfq_unlink_next_kept(q) == q

(* What mlfq_pick_next leaves in the queues. *)
mlfq_unlink_next(q) ==
    IF NonEmpty(q) = {} THEN q ELSE [q EXCEPT ![TopLevel(q)] = Tail(@)]

(* Every level below the top is appended to it, nearest level first. *)
mlfq_boost_all(q) ==
    [i \in Level |-> IF i = 0 THEN Join(q, NUM_QUEUES - 1) ELSE <<>>]

(* The processes of levels 1 .. NUM_QUEUES - 1, which the boost resets. *)
Boosted(q) == UNION {Range(q[i]) : i \in Level \ {0}}
-----------------------------------------------------------------------------
(* The members of a set of processes, in the order of a walk of the ring. *)
InRingOrder(P) == Keep(process_queue, P)

(* Mutant: every dead process is freed, the one still on its stack included. *)
reap_all_zombies(st) == {p \in Range(process_queue) : st[p] = "DEAD"}

(* reap_zombies frees dead processes that have no parent. *)
reap_zombies(st) ==
    {p \in Range(process_queue) :
        st[p] = "DEAD" /\ p # current_process /\ parent[p] = NULL}

(* wake_blocked_processes readies everyone in PROCESS_BLOCKED but self. *)
wake_blocked_processes(st, self) ==
    {p \in Range(process_queue) : p # self /\ st[p] = "BLOCKED"}

(* A caller of schedule() that is still running goes back in its queue. *)
Yields(st) == current_process # Idle /\ st[current_process] = "RUNNING"

(* The processes one schedule() links into the ready queues. *)
Readied(st) ==
    wake_blocked_processes(st, current_process)
        \cup (IF Yields(st) THEN {current_process} ELSE {})

(* The queues that schedule() picks from: the woken first, then the caller. *)
Requeued(st, q, pr) ==
    LET woken == wake_blocked_processes(st, current_process)
    IN  [i \in Level |->
            q[i] \o InRingOrder({p \in woken : pr[p] = i})
                 \o (IF Yields(st) /\ pr[current_process] = i
                     THEN <<current_process>> ELSE <<>>)]

(***************************************************************************)
(* schedule(), called when the states are st, the queues q and the         *)
(* priorities pr.  The process it picks is left in state READY when it is  *)
(* the caller itself: the early return precedes the assignment of          *)
(* PROCESS_RUNNING.                                                        *)
(***************************************************************************)
schedule(st, q, pr) ==
    LET queues == Requeued(st, q, pr)
        next   == mlfq_pick_next(queues)
    IN  /\ process_queue' = InRingOrder(Proc \ reap_zombies(st))
        /\ mlfq' = mlfq_unlink_next(queues)
        /\ current_process' = next
        /\ state' = [p \in Proc |->
                        IF p = next /\ next # current_process THEN "RUNNING"
                        ELSE IF p \in reap_zombies(st) THEN "FREE"
                        ELSE IF p \in Readied(st) THEN "READY"
                        ELSE st[p]]
-----------------------------------------------------------------------------
(* kmain, once the boot code has run: init_scheduler's idle process is     *)
(* current and /bin/sh, its child, is queued.                              *)
Init ==
    /\ current_process = Idle
    /\ state = [p \in Proc |-> CASE p = Idle  -> "RUNNING"
                                 [] p = Shell -> "READY"
                                 [] OTHER     -> "FREE"]
    /\ priority = [p \in Proc |-> IF p = Idle THEN NUM_QUEUES - 1 ELSE 0]
    /\ ticks_executed = [p \in Proc |-> 0]
    /\ parent = [p \in Proc |-> IF p = Shell THEN Idle ELSE NULL]
    /\ mlfq = [i \in Level |-> IF i = 0 THEN <<Shell>> ELSE <<>>]
    /\ global_ticks = 0
    /\ process_queue = <<Idle, Shell>>
    /\ pc = [p \in Proc |-> IF p = Idle THEN "kmain" ELSE "user"]
    /\ sleep_left = [p \in Proc |-> 0]
    /\ kbd_buf = <<>>
    /\ kbd_waitq = <<>>
    /\ left = [p \in Proc |-> 0]
    /\ cut = 0

(* kmain's schedule(), and the sti and hlt loop that idle resumes into. *)
kmain_schedule ==
    /\ pc[current_process] = "kmain"
    /\ pc' = [pc EXCEPT ![current_process] = "hlt"]
    /\ schedule(state, mlfq, priority)
    /\ UNCHANGED <<priority, ticks_executed, parent, global_ticks, sleep_left, kbdVars>>

(* The current process is in user code and issues system call s. *)
Calls(s) == s \in Syscalls /\ pc[current_process] = "user"

(* SYS_fork: clone_process queues the child at the top level. *)
SYS_fork(c) ==
    /\ Calls("fork")
    /\ state[c] = "FREE"
    /\ state' = mlfq_enqueue_state(state, c)
    /\ parent' = [parent EXCEPT ![c] = current_process]
    /\ process_queue' = Append(process_queue, c)
    /\ priority' = [priority EXCEPT ![c] = 0]
    /\ ticks_executed' = [ticks_executed EXCEPT ![c] = 0]
    /\ mlfq' = mlfq_enqueue(mlfq, state, c, 0)
    /\ pc' = [pc EXCEPT ![c] = "user"]
    /\ UNCHANGED <<current_process, global_ticks, sleep_left, kbdVars>>

(* SYS_exit; the kill of a process that faults in user mode is the same. *)
SYS_exit ==
    /\ Calls("exit")
    /\ schedule([state EXCEPT ![current_process] = "DEAD"], mlfq, priority)
    /\ UNCHANGED <<priority, ticks_executed, parent, global_ticks, pc, sleep_left, kbdVars>>

Children(p) == {c \in Range(process_queue) : parent[c] = p}

DeadChildren(p) == {c \in Children(p) : state[c] = "DEAD"}

(* SYS_wait finds a dead child: the first in the ring is freed. *)
wait_reap_child ==
    LET dead  == DeadChildren(current_process)
        found == Head(InRingOrder(dead))
    IN  /\ dead # {}
        /\ state' = [state EXCEPT ![found] = "FREE"]
        /\ parent' = [parent EXCEPT ![found] = NULL]
        /\ process_queue' = InRingOrder(Proc \ {found})
        /\ pc' = [pc EXCEPT ![current_process] = "user"]
        /\ UNCHANGED queueVarsButState

(* SYS_wait with no child at all returns ECHILD. *)
wait_echild ==
    /\ Children(current_process) = {}
    /\ pc' = [pc EXCEPT ![current_process] = "user"]
    /\ UNCHANGED <<queueVars, procVars>>

(* SYS_wait with only live children blocks until some later schedule(). *)
wait_block ==
    /\ Children(current_process) # {} /\ DeadChildren(current_process) = {}
    /\ pc' = [pc EXCEPT ![current_process] = "wait"]
    /\ schedule([state EXCEPT ![current_process] = "BLOCKED"], mlfq, priority)
    /\ UNCHANGED <<priority, ticks_executed, parent>>

(* One turn of the SYS_wait loop for any child (pid 0 or less), interrupts *)
(* masked throughout.                                                      *)
SYS_wait ==
    /\ Calls("wait") \/ pc[current_process] = "wait"
    /\ wait_reap_child \/ wait_echild \/ wait_block
    /\ UNCHANGED <<global_ticks, sleep_left, kbdVars>>

(***************************************************************************)
(* SYS_sleep_ms.  Up to its first sti the call is masked; every later turn *)
(* of its loop runs with interrupts on, so the test, the assignment of     *)
(* PROCESS_BLOCKED and the call of schedule() are separate steps.          *)
(***************************************************************************)
SYS_sleep_ms(d) ==
    /\ Calls("sleep")
    /\ sleep_left' = [sleep_left EXCEPT ![current_process] = d]
    /\ state' = [state EXCEPT ![current_process] = "BLOCKED"]
    /\ pc' = [pc EXCEPT ![current_process] = "sleep_yield"]
    /\ UNCHANGED <<queueVarsButState, procVars, global_ticks, kbdVars>>

sleep_yield ==
    /\ pc[current_process] = "sleep_yield"
    /\ pc' = [pc EXCEPT ![current_process] = "sleep_test"]
    /\ schedule(state, mlfq, priority)
    /\ UNCHANGED <<priority, ticks_executed, parent, global_ticks, sleep_left, kbdVars>>

sleep_test ==
    /\ pc[current_process] = "sleep_test"
    /\ pc' = [pc EXCEPT ![current_process] =
                 IF sleep_left[current_process] > 0 THEN "sleep_block" ELSE "user"]
    /\ UNCHANGED <<queueVars, procVars, global_ticks, sleep_left, kbdVars>>

sleep_block ==
    /\ pc[current_process] = "sleep_block"
    /\ state' = [state EXCEPT ![current_process] = "BLOCKED"]
    /\ pc' = [pc EXCEPT ![current_process] = "sleep_yield"]
    /\ UNCHANGED <<queueVarsButState, procVars, global_ticks, sleep_left, kbdVars>>

(* What kbd_buf_pop leaves when it has taken a byte of the first line. *)
kbd_buf_pop ==
    IF Head(kbd_buf) = 1 THEN Tail(kbd_buf) ELSE [kbd_buf EXCEPT ![1] = @ - 1]

(* keyboard_read finds a byte, with n still to go: it returns with the     *)
(* '\n' of the line or the last byte asked for, and reads on otherwise.    *)
read_byte(n) ==
    LET eol  == Head(kbd_buf) = 1
        done == eol \/ n <= 1
    IN  /\ kbd_buf # <<>>
        /\ kbd_buf' = kbd_buf_pop
        /\ left' = [left EXCEPT ![current_process] = IF done THEN 0 ELSE n - 1]
        /\ pc' = [pc EXCEPT ![current_process] = IF done THEN "user" ELSE "read"]
        /\ cut' = IF kbd_buf_pop = <<>> THEN 0
                  ELSE IF done /\ ~ eol /\ cut < MaxLines THEN cut + 1
                  ELSE cut
        /\ UNCHANGED <<state, kbd_waitq>>

(* keyboard_read finds nothing: it registers as a waiter and will yield. *)
read_block(n) ==
    /\ kbd_buf = <<>>
    /\ state' = [state EXCEPT ![current_process] = "BLOCKED_KBD"]
    /\ kbd_waitq' = Append(kbd_waitq, current_process)
    /\ left' = [left EXCEPT ![current_process] = n]
    /\ pc' = [pc EXCEPT ![current_process] = "read_yield"]
    /\ UNCHANGED <<kbd_buf, cut>>

(***************************************************************************)
(* One turn of keyboard_read's loop, with n bytes to go.  A turn is masked *)
(* from its cli to its sti; between turns, and between the registration    *)
(* and the call of schedule(), interrupts are on.                          *)
(***************************************************************************)
keyboard_read(n) ==
    /\ Calls("read") \/ (pc[current_process] = "read" /\ left[current_process] = n)
    /\ read_byte(n) \/ read_block(n)
    /\ UNCHANGED <<queueVarsButState, procVars, global_ticks, sleep_left>>

read_yield ==
    /\ pc[current_process] = "read_yield"
    /\ pc' = [pc EXCEPT ![current_process] = "read"]
    /\ schedule(state, mlfq, priority)
    /\ UNCHANGED <<priority, ticks_executed, parent, global_ticks, sleep_left, kbdVars>>

(* Mutant: a reader is woken only when the buffer was empty. *)
WakesReaderIfEmpty == kbd_waitq # <<>> /\ kbd_buf = <<>>

(* wait_queue_pop finds a reader to wake. *)
WakesReader == kbd_waitq # <<>>

(* on_irq1 completes a line of n bytes: it is buffered and the first       *)
(* waiter readied.                                                         *)
on_irq1(n) ==
    /\ InterruptsOn
    /\ "read" \in Syscalls /\ Len(kbd_buf) < MaxLines
    /\ kbd_buf' = Append(kbd_buf, n)
    /\ \/ LET p == Head(kbd_waitq) IN
          /\ WakesReader
          /\ kbd_waitq' = Tail(kbd_waitq)
          /\ state' = mlfq_enqueue_state(state, p)
          /\ mlfq' = mlfq_enqueue(mlfq, state, p, priority[p])
       \/ /\ ~ WakesReader
          /\ UNCHANGED <<kbd_waitq, state, mlfq>>
    /\ UNCHANGED <<current_process, priority, ticks_executed, procVars, global_ticks,
                   pc, sleep_left, left, cut>>
-----------------------------------------------------------------------------
(* on_irq0 advances ticks, which brings every sleeper's deadline nearer. *)
advance_ticks ==
    sleep_left' = [p \in Proc |-> IF sleep_left[p] = 0 THEN 0 ELSE sleep_left[p] - 1]

(* Mutant: the boost returns without calling schedule(). *)
tick_boost_stays ==
    LET reset == Boosted(mlfq) \cup ({current_process} \ {Idle})
    IN  /\ global_ticks + 1 >= PRIORITY_BOOST_INTERVAL
        /\ global_ticks' = 0
        /\ priority' = [p \in Proc |-> IF p \in reset THEN 0 ELSE priority[p]]
        /\ ticks_executed' =
              [p \in Proc |-> IF p \in reset THEN 0 ELSE ticks_executed[p]]
        /\ mlfq' = mlfq_boost_all(mlfq)
        /\ UNCHANGED <<current_process, state, procVars>>

(* mlfq_on_tick at the boost interval. *)
tick_boost ==
    LET reset == Boosted(mlfq) \cup ({current_process} \ {Idle})
        pr    == [p \in Proc |-> IF p \in reset THEN 0 ELSE priority[p]]
    IN  /\ global_ticks + 1 >= PRIORITY_BOOST_INTERVAL
        /\ global_ticks' = 0
        /\ priority' = pr
        /\ ticks_executed' =
              [p \in Proc |-> IF p \in reset THEN 0 ELSE ticks_executed[p]]
        /\ schedule(state, mlfq_boost_all(mlfq), pr)
        /\ UNCHANGED parent

(* A tick that does not find a running process, or does not end its quantum. *)
tick_count ==
    /\ global_ticks + 1 < PRIORITY_BOOST_INTERVAL
    /\ global_ticks' = global_ticks + 1
    /\ \/ /\ state[current_process] # "RUNNING"
          /\ UNCHANGED ticks_executed
       \/ /\ state[current_process] = "RUNNING"
          /\ ticks_executed[current_process] + 1 < Quantum(priority[current_process])
          /\ ticks_executed' = [ticks_executed EXCEPT ![current_process] = @ + 1]
    /\ UNCHANGED <<current_process, state, priority, mlfq, procVars>>

Demoted(level) == IF level < NUM_QUEUES - 1 THEN level + 1 ELSE level

(* Mutant: the process is demoted after schedule() has queued it. *)
tick_expire_late ==
    LET pr == [priority EXCEPT ![current_process] = Demoted(@)]
    IN  /\ global_ticks + 1 < PRIORITY_BOOST_INTERVAL
        /\ global_ticks' = global_ticks + 1
        /\ state[current_process] = "RUNNING"
        /\ ticks_executed[current_process] + 1 >= Quantum(priority[current_process])
        /\ priority' = pr
        /\ ticks_executed' = [ticks_executed EXCEPT ![current_process] = 0]
        /\ schedule(state, mlfq, priority)
        /\ UNCHANGED parent

(* The tick that ends the current process's quantum demotes it. *)
tick_expire ==
    LET pr == [priority EXCEPT ![current_process] = Demoted(@)]
    IN  /\ global_ticks + 1 < PRIORITY_BOOST_INTERVAL
        /\ global_ticks' = global_ticks + 1
        /\ state[current_process] = "RUNNING"
        /\ ticks_executed[current_process] + 1 >= Quantum(priority[current_process])
        /\ priority' = pr
        /\ ticks_executed' = [ticks_executed EXCEPT ![current_process] = 0]
        /\ schedule(state, mlfq, pr)
        /\ UNCHANGED parent

on_irq0 ==
    /\ InterruptsOn
    /\ advance_ticks
    /\ tick_boost \/ tick_count \/ tick_expire
    /\ UNCHANGED <<pc, kbdVars>>
-----------------------------------------------------------------------------
(* What the kernel does on its own account once a program has called it. *)
KernelStep ==
    \/ kmain_schedule
    \/ pc[current_process] = "wait" /\ SYS_wait
    \/ sleep_yield \/ sleep_test \/ sleep_block
    \/ pc[current_process] = "read" /\ keyboard_read(left[current_process])
    \/ read_yield

(* What programs may ask for. *)
UserStep ==
    /\ pc[current_process] = "user"
    /\ \/ \E c \in Proc : SYS_fork(c)
       \/ SYS_exit
       \/ SYS_wait
       \/ \E d \in 1 .. MaxSleep : SYS_sleep_ms(d)
       \/ \E n \in 1 .. MaxBytes : keyboard_read(n)

Next == KernelStep \/ UserStep \/ on_irq0 \/ \E n \in 1 .. MaxBytes : on_irq1(n)

Spec == Init /\ [][Next]_vars

(***************************************************************************)
(* The processor keeps executing kernel code: weak fairness of KernelStep, *)
(* which is enabled just when InKernel holds.  The LAPIC latches a timer   *)
(* interrupt while interrupts are masked and delivers it at the next sti,  *)
(* so on_irq0, the one step that counts a tick, is taken if it is enabled  *)
(* again and again.  Programs owe nothing: no fairness on UserStep, nor on *)
(* the keyboard.                                                           *)
(***************************************************************************)
Tick == InterruptsOn /\ global_ticks' = (global_ticks + 1) % PRIORITY_BOOST_INTERVAL

InKernel == pc[current_process] \notin {"user", "hlt"}

Fairness ==
    /\ []<>(~ InKernel) \/ []<><<KernelStep>>_vars
    /\ SF_global_ticks(Tick)
-----------------------------------------------------------------------------
States == {"FREE", "READY", "RUNNING", "BLOCKED", "BLOCKED_KBD", "DEAD"}

PCs == {"kmain", "hlt", "user", "wait", "sleep_yield", "sleep_test", "sleep_block",
        "read", "read_yield"}

KbdTyped ==
    /\ kbd_buf \in Seq(Nat \ {0}) /\ Len(kbd_buf) <= MaxLines
    /\ left \in [Proc -> Nat]
    /\ cut \in 0 .. MaxLines

(* Every variable has its type: priorities index mlfq, the idle process is *)
(* never linked into a queue, and tick counters stay within their bounds.  *)
TypeOK ==
    /\ current_process \in Proc
    /\ state \in [Proc -> States]
    /\ priority \in [Proc -> Level]
    /\ ticks_executed \in [Proc -> Nat]
    /\ parent \in [Proc -> Proc \cup {NULL}]
    /\ mlfq \in [Level -> Seq(Proc \ {Idle})]
    /\ global_ticks \in 0 .. PRIORITY_BOOST_INTERVAL - 1
    /\ process_queue \in Seq(Proc)
    /\ pc \in [Proc -> PCs]
    /\ sleep_left \in [Proc -> 0 .. MaxSleep]
    /\ KbdTyped
    /\ kbd_waitq \in Seq(Proc \ {Idle})

Queued(p) == \E i \in Level : p \in Range(mlfq[i])

(* mlfq_enqueue links a process through its own queue_next and queue_prev  *)
(* and does not look whether it is linked already, so linking one twice    *)
(* would cut a queue.  It never happens: a queued process is READY, sits   *)
(* in the queue of its priority, and sits there once.                      *)
QueueSound ==
    \A i \in Level :
        /\ IsInjective(mlfq[i])
        /\ \A p \in Range(mlfq[i]) : state[p] = "READY" /\ priority[p] = i

(* schedule() marks the process it switches to and unmarks the one it      *)
(* leaves: nobody but the current process (and the idle process, which is  *)
(* never unmarked) is RUNNING, and the process executing is alive.         *)
OneRunner ==
    /\ \A p \in Proc \ {Idle} : state[p] = "RUNNING" => p = current_process
    /\ state[current_process] \notin {"DEAD", "FREE"}

(* The keyboard's wait queue holds exactly the processes in state          *)
(* PROCESS_BLOCKED_KBD, each once: wait_queue_push, on_irq1's pop and      *)
(* mlfq_enqueue keep process.c's two kinds of queue apart.                 *)
KbdWaitqSound ==
    /\ IsInjective(kbd_waitq)
    /\ \A p \in Proc : p \in Range(kbd_waitq) <=> state[p] = "BLOCKED_KBD"

(* mlfq_enqueue would corrupt the queue of a process that runs while still *)
(* linked.  The one process that is current and queued at once is a reader *)
(* that on_irq1 readied between keyboard_read's sti and its schedule();    *)
(* and a process parked on the keyboard resumes nowhere but in             *)
(* keyboard_read, past its registration.                                   *)
ResumeSound ==
    /\ Queued(current_process) => pc[current_process] = "read_yield"
    /\ \A p \in Proc : state[p] = "BLOCKED_KBD" =>
          pc[p] = "read_yield" \/ (pc[p] = "read" /\ p # current_process)
    /\ state[Idle] = "RUNNING"
    /\ \A p \in Proc : p = Idle <=> pc[p] \in {"kmain", "hlt"}

(* on_irq1 wakes one reader per line and keyboard_read's cli/sti closes    *)
(* the window between its test and its registration.  While a reader is    *)
(* parked, each buffered line has a reader on its way to it, but for one   *)
(* line per read that returned with its count and left the rest of a line: *)
(* nobody is woken for such a rest.                                        *)
NoLostKbdWakeup ==
    kbd_waitq # <<>> =>
        Len(kbd_buf) <= cut + Cardinality({p \in Proc : /\ pc[p] \in {"read", "read_yield"}
                                                        /\ p \notin Range(kbd_waitq)})

(* The ring holds every allocated process_t once, the idle process first:  *)
(* wait_reap_child and reap_zombies unlink what they kfree, clone_process  *)
(* links what it kmallocs.                                                 *)
RingSound ==
    /\ IsInjective(process_queue)
    /\ Range(process_queue) = {p \in Proc : state[p] # "FREE"}
    /\ process_queue # <<>> /\ Head(process_queue) = Idle

(* A process_t and its kernel stack are freed only once the process is     *)
(* dead, switched away from for good, and linked in no queue; and a dead   *)
(* process never comes back to life.                                       *)
ReapSafe ==
    [][\A p \in Proc :
          /\ state[p] # "FREE" /\ state'[p] = "FREE" =>
                state[p] = "DEAD" /\ p # current_process /\ ~ Queued(p)
          /\ state[p] = "DEAD" => state'[p] \in {"DEAD", "FREE"}]_vars

(* A switch is always to the best process there is: when the processor     *)
(* changes hands, nobody is left queued at a better level than the one     *)
(* that got it, and idle runs only if nobody is queued at all.             *)
PicksHighest ==
    [][current_process' # current_process =>
          \A i \in Level :
              (current_process' = Idle \/ i < priority'[current_process']) =>
                  mlfq'[i] = <<>>]_vars

(* scheduler.c:22: the priority boost "prevents starvation of              *)
(* lower-priority processes and ensures that all processes get a chance to *)
(* run".  A queued process eventually gets the processor, if interrupts    *)
(* keep coming through.  They need not: two processes that wait for their  *)
(* children hand each other the processor within SYS_wait's masked loop    *)
(* (syscall.c:395), where no tick is taken and nobody below them runs.     *)
QueuedRuns ==
    []<>InterruptsOn => \A p \in Proc \ {Idle} : Queued(p) ~> current_process = p

(* The same promise for every process that is ready to run.                *)
ReadyRuns == \A p \in Proc \ {Idle} : state[p] = "READY" ~> current_process = p
=============================================================================
