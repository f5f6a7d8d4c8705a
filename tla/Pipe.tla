-------------------------------- MODULE Pipe --------------------------------
(***************************************************************************)
(* One pipe of pipe.c: its ring buffer, its two wait queues, and the       *)
(* descriptors that SYS_pipe's caller and its descendants hold on it.      *)
(*                                                                         *)
(* A step is what runs from a cli to the next sti.  Everything after an    *)
(* sti can be preempted between any two accesses to shared memory, so      *)
(* pipe_close_end's wake_all, which runs with interrupts enabled, pops a   *)
(* wait queue in as many steps as wait_queue_pop has stores.  Any process  *)
(* that is READY may take the next step: which one does is the scheduler's *)
(* affair (module Scheduler).                                              *)
(***************************************************************************)
EXTENDS Integers, FiniteSets

CONSTANTS
    Proc,
    NULL,
    PIPE_BUF_SIZE,
    Byte,
    MAX_FDS,
    MaxCount,    \* bound: bytes asked for in one read or write
    Scenes       \* the situations a run may start from (SceneType)

End == {"read", "write"}

(* The descriptors each process starts with, NULL if it is yet to be       *)
(* forked, and the system calls that the program of each process issues.   *)
SceneType == [fds   : [Proc -> [End -> 0 .. MAX_FDS] \cup {NULL}],
              calls : [Proc -> SUBSET {"read", "write", "close", "dup", "dup2", "fork", "exit"}]]

ASSUME PipeAssumption ==
    /\ IsFiniteSet(Proc) /\ NULL \notin Proc
    /\ PIPE_BUF_SIZE \in Nat \ {0} /\ Byte # {} /\ MaxCount \in Nat /\ MAX_FDS \in Nat
    /\ Scenes \subseteq SceneType
    \* An fd_table has MAX_FDS entries, and somebody holds the pipe.
    /\ \A s \in Scenes :
          /\ \A p \in Proc : s.fds[p] # NULL => s.fds[p]["read"] + s.fds[p]["write"] <= MAX_FDS
          /\ \E p \in Proc, e \in End : s.fds[p] # NULL /\ s.fds[p][e] > 0

VARIABLES
    buf, head, tail, count,  \* pipe_t
    openers,       \* pipe_t.readers and pipe_t.writers
    freed,         \* the pipe_t has been given back by kfree
    waiters,       \* read_waiters and write_waiters: head and tail
    wait_next,
    state,         \* process_t.state; READY stands for RUNNING too
    fds,           \* how many entries of each fd_table refer to each end
    pc,            \* the point of the kernel each process is at
    left,          \* bytes its read or write still has to transfer
    waiter,        \* the process it has popped and not yet enqueued
    sweep,         \* the wait queue its wake_all is working on
    should_free,
    then,          \* what follows its pipe_close_end
    scene          \* the situation this behaviour started from

bufVars  == <<buf, head, tail, count>>
pipeVars == <<bufVars, openers, freed, waiters>>
callVars == <<left, waiter, sweep, should_free, then>>
vars == <<pipeVars, wait_next, state, fds, pc, callVars, scene>>

NoFds == [e \in End |-> 0]

(* The entries of all fd_tables that refer to end e. *)
Entries(tables, e) == {x \in Proc \X (1 .. MAX_FDS) : x[2] <= tables[x[1]][e]}

(* After SYS_pipe (pipe_create) and the forks and closes that a scene sums up. *)
Init ==
    /\ scene \in Scenes
    /\ buf = [i \in 0 .. PIPE_BUF_SIZE - 1 |-> CHOOSE b \in Byte : TRUE]
    /\ head = 0 /\ tail = 0 /\ count = 0
    /\ freed = FALSE
    /\ waiters = [e \in End |-> [head |-> NULL, tail |-> NULL]]
    /\ wait_next = [p \in Proc |-> NULL]
    /\ state = [p \in Proc |-> IF scene.fds[p] = NULL THEN "FREE" ELSE "READY"]
    /\ fds = [p \in Proc |-> IF scene.fds[p] = NULL THEN NoFds ELSE scene.fds[p]]
    /\ openers = [e \in End |-> Cardinality(Entries(fds, e))]
    /\ pc = [p \in Proc |-> "user"]
    /\ left = [p \in Proc |-> 0]
    /\ waiter = [p \in Proc |-> NULL]
    /\ sweep = [p \in Proc |-> "write"]
    /\ should_free = [p \in Proc |-> FALSE]
    /\ then = [p \in Proc |-> "user"]

At(p, l) == state[p] = "READY" /\ pc[p] = l

(* The program of p issues system call s. *)
Issues(p, s) == At(p, "user") /\ s \in scene.calls[p]

Goto(p, l) == pc' = [pc EXCEPT ![p] = l]
-----------------------------------------------------------------------------
wait_queue_push(e, p) ==
    LET last == waiters[e].tail IN
    /\ waiters' = [waiters EXCEPT ![e].tail = p,
                                  ![e].head = IF last = NULL THEN p ELSE @]
    /\ wait_next' = [q \in Proc |-> IF q = last THEN p
                                    ELSE IF q = p THEN NULL ELSE wait_next[q]]

(* wait_queue_pop with interrupts masked: the head is left in waiter[p]. *)
wait_queue_pop(e, p) ==
    LET first == waiters[e].head IN
    /\ waiter' = [waiter EXCEPT ![p] = first]
    /\ IF first = NULL
       THEN UNCHANGED <<waiters, wait_next>>
       ELSE /\ wait_next' = [wait_next EXCEPT ![first] = NULL]
            /\ waiters' = [waiters EXCEPT
                  ![e].head = wait_next[first],
                  ![e].tail = IF wait_next[first] = NULL THEN NULL ELSE @]

(* mlfq_enqueue(waiter[p]), as far as the pipe can tell. *)
mlfq_enqueue(p) == state' = [state EXCEPT ![waiter[p]] = "READY"]

(* current_process parks itself; the schedule() that follows returns only  *)
(* after somebody's mlfq_enqueue.                                          *)
Park(e, p) ==
    /\ state' = [state EXCEPT ![p] = "BLOCKED_PIPE"]
    /\ wait_queue_push(e, p)
-----------------------------------------------------------------------------
(* SYS_read and SYS_write on a descriptor of the pipe. *)
SYS_transfer(p, e) ==
    /\ Issues(p, e) /\ fds[p][e] > 0
    /\ \E n \in 1 .. MaxCount : left' = [left EXCEPT ![p] = n]
    /\ Goto(p, e)
    /\ UNCHANGED <<pipeVars, wait_next, state, fds, waiter, sweep, should_free, then>>

WakePoint(e) == IF e = "read" THEN "read_wake" ELSE "write_wake"

(* The point after a byte is transferred: wake the process popped, if any. *)
AfterByte(p, e) ==
    CASE waiter'[p] # NULL -> WakePoint(e)
      [] waiter'[p] = NULL /\ left'[p] > 0 -> e
      [] OTHER -> "user"

Wrap(i) == (i + 1) % PIPE_BUF_SIZE

(* Mutant: the oldest byte is not consumed. *)
read_byte_peeks(p) ==
    /\ count > 0
    /\ count' = count - 1
    /\ left' = [left EXCEPT ![p] = @ - 1]
    /\ wait_queue_pop("write", p)
    /\ Goto(p, AfterByte(p, "read"))
    /\ UNCHANGED <<buf, head, tail, state>>

read_byte(p) ==
    /\ count > 0
    /\ tail' = Wrap(tail) /\ count' = count - 1
    /\ left' = [left EXCEPT ![p] = @ - 1]
    /\ wait_queue_pop("write", p)
    /\ Goto(p, AfterByte(p, "read"))
    /\ UNCHANGED <<buf, head, state>>

(* Mutant: at the end of the data the loop goes on instead of ending. *)
pipe_read_continues(p) ==
    /\ At(p, "read")
    /\ \/ read_byte(p)
       \/ /\ count = 0 /\ openers["write"] = 0
          /\ UNCHANGED <<bufVars, waiters, wait_next, state, pc, left, waiter>>
       \/ /\ count = 0 /\ openers["write"] > 0
          /\ Park("read", p)
          /\ UNCHANGED <<bufVars, pc, left, waiter>>
    /\ UNCHANGED <<openers, freed, fds, sweep, should_free, then>>

(* One turn of the loop of pipe_read. *)
pipe_read(p) ==
    /\ At(p, "read")
    /\ \/ read_byte(p)
       \/ /\ count = 0 /\ openers["write"] = 0
          /\ Goto(p, "user")
          /\ UNCHANGED <<bufVars, waiters, wait_next, state, left, waiter>>
       \/ /\ count = 0 /\ openers["write"] > 0
          /\ Park("read", p)
          /\ UNCHANGED <<bufVars, pc, left, waiter>>
    /\ UNCHANGED <<openers, freed, fds, sweep, should_free, then>>

(* Mutant: a reader is woken only by the byte that ends emptiness. *)
write_byte_wakes_if_empty(p, b) ==
    /\ count < PIPE_BUF_SIZE
    /\ buf' = [buf EXCEPT ![head] = b]
    /\ head' = Wrap(head) /\ count' = count + 1
    /\ left' = [left EXCEPT ![p] = @ - 1]
    /\ IF count = 0 THEN wait_queue_pop("read", p)
       ELSE UNCHANGED <<waiter, waiters, wait_next>>
    /\ Goto(p, AfterByte(p, "write"))
    /\ UNCHANGED <<tail, state>>

write_byte(p, b) ==
    /\ count < PIPE_BUF_SIZE
    /\ buf' = [buf EXCEPT ![head] = b]
    /\ head' = Wrap(head) /\ count' = count + 1
    /\ left' = [left EXCEPT ![p] = @ - 1]
    /\ wait_queue_pop("read", p)
    /\ Goto(p, AfterByte(p, "write"))
    /\ UNCHANGED <<tail, state>>

(* One turn of the loop of pipe_write. *)
pipe_write(p) ==
    /\ At(p, "write")
    /\ \/ /\ openers["read"] = 0
          /\ Goto(p, "user")
          /\ UNCHANGED <<bufVars, waiters, wait_next, state, left, waiter>>
       \/ openers["read"] > 0 /\ \E b \in Byte : write_byte(p, b)
       \/ /\ openers["read"] > 0 /\ count = PIPE_BUF_SIZE
          /\ Park("write", p)
          /\ UNCHANGED <<bufVars, pc, left, waiter>>
    /\ UNCHANGED <<openers, freed, fds, sweep, should_free, then>>

(* After the sti: the process popped is handed to the scheduler. *)
transfer_wake(p, e) ==
    /\ At(p, WakePoint(e))
    /\ mlfq_enqueue(p)
    /\ waiter' = [waiter EXCEPT ![p] = NULL]
    /\ Goto(p, IF left[p] > 0 THEN e ELSE "user")
    /\ UNCHANGED <<pipeVars, wait_next, fds, left, sweep, should_free, then>>
-----------------------------------------------------------------------------
(* The counting half of pipe_close_end, under cli; next is what its caller *)
(* goes on to do.                                                          *)
pipe_close_end(p, e, next) ==
    /\ fds' = [fds EXCEPT ![p][e] = @ - 1]
    /\ openers' = [openers EXCEPT ![e] = IF @ > 0 THEN @ - 1 ELSE 0]
    /\ should_free' = [should_free EXCEPT ![p] = \A d \in End : openers'[d] = 0]
    /\ sweep' = [sweep EXCEPT ![p] = "write"]
    /\ then' = [then EXCEPT ![p] = next]
    /\ Goto(p, "wake_all")
    /\ UNCHANGED <<bufVars, freed, waiters, wait_next, state, left, waiter>>

(***************************************************************************)
(* wake_all(&p->write_waiters), wake_all(&p->read_waiters), kfree.  Each   *)
(* turn is wait_queue_pop, store by store, and mlfq_enqueue.               *)
(***************************************************************************)
wake_all(p) ==
    /\ At(p, "wake_all")
    /\ \/ /\ waiters[sweep[p]].head # NULL
          /\ waiter' = [waiter EXCEPT ![p] = waiters[sweep[p]].head]
          /\ Goto(p, "pop_head")
          /\ UNCHANGED <<sweep, freed, should_free>>
       \/ /\ waiters[sweep[p]].head = NULL /\ sweep[p] = "write"
          /\ sweep' = [sweep EXCEPT ![p] = "read"]
          /\ UNCHANGED <<waiter, pc, freed, should_free>>
       \/ /\ waiters[sweep[p]].head = NULL /\ sweep[p] = "read"
          /\ freed' = (freed \/ should_free[p])
          /\ should_free' = [should_free EXCEPT ![p] = FALSE]
          /\ Goto(p, then[p])
          /\ UNCHANGED <<sweep, waiter>>
    /\ UNCHANGED <<bufVars, openers, waiters, wait_next, state, fds, left, then>>

pop_head(p) ==
    /\ At(p, "pop_head")
    /\ waiters' = [waiters EXCEPT ![sweep[p]].head = wait_next[waiter[p]]]
    /\ Goto(p, "pop_tail")
    /\ UNCHANGED <<bufVars, openers, freed, wait_next, state, fds, callVars>>

(* Mutant: the tail of a queue that becomes empty is kept. *)
pop_tail_kept(p) ==
    /\ At(p, "pop_tail")
    /\ Goto(p, "pop_clear")
    /\ UNCHANGED <<pipeVars, wait_next, state, fds, callVars>>

pop_tail(p) ==
    /\ At(p, "pop_tail")
    /\ waiters' = [waiters EXCEPT ![sweep[p]].tail =
                      IF waiters[sweep[p]].head = NULL THEN NULL ELSE @]
    /\ Goto(p, "pop_clear")
    /\ UNCHANGED <<bufVars, openers, freed, wait_next, state, fds, callVars>>

pop_clear(p) ==
    /\ At(p, "pop_clear")
    /\ wait_next' = [wait_next EXCEPT ![waiter[p]] = NULL]
    /\ Goto(p, "enqueue")
    /\ UNCHANGED <<pipeVars, state, fds, callVars>>

wake_enqueue(p) ==
    /\ At(p, "enqueue")
    /\ mlfq_enqueue(p)
    /\ waiter' = [waiter EXCEPT ![p] = NULL]
    /\ Goto(p, "wake_all")
    /\ UNCHANGED <<pipeVars, wait_next, fds, left, sweep, should_free, then>>
-----------------------------------------------------------------------------
SYS_close(p, e) ==
    /\ Issues(p, "close") /\ fds[p][e] > 0
    /\ pipe_close_end(p, e, "user")

HasRoom(p) == fds[p]["read"] + fds[p]["write"] < MAX_FDS

(* One more entry of p's fd_table refers to end e. *)
AddRef(p, e) ==
    /\ fds' = [fds EXCEPT ![p][e] = @ + 1]
    /\ openers' = [openers EXCEPT ![e] = @ + 1]

SYS_dup(p, e) ==
    /\ Issues(p, "dup") /\ fds[p][e] > 0 /\ HasRoom(p)
    /\ AddRef(p, e)
    /\ UNCHANGED <<bufVars, freed, waiters, wait_next, state, pc, callVars>>

CopyPoint(e) == IF e = "read" THEN "dup2_read" ELSE "dup2_write"

(* dup2 onto an entry of the pipe closes that entry first. *)
SYS_dup2(p, src, dst) ==
    /\ Issues(p, "dup2") /\ fds[p][src] > 0
    /\ fds[p][dst] > IF src = dst THEN 1 ELSE 0
    /\ pipe_close_end(p, dst, CopyPoint(src))

dup2_copy(p, src) ==
    /\ At(p, CopyPoint(src))
    /\ AddRef(p, src)
    /\ Goto(p, "user")
    /\ UNCHANGED <<bufVars, freed, waiters, wait_next, state, callVars>>

(* Mutant: the child's descriptors are copied without counting them. *)
SYS_fork_uncounted(p, c) ==
    /\ Issues(p, "fork") /\ state[c] = "FREE"
    /\ state' = [state EXCEPT ![c] = "READY"]
    /\ fds' = [fds EXCEPT ![c] = fds[p]]
    /\ UNCHANGED <<pipeVars, wait_next, pc, callVars>>

(* clone_process copies fd_table and counts every pipe entry of the copy. *)
SYS_fork(p, c) ==
    /\ Issues(p, "fork") /\ state[c] = "FREE"
    /\ state' = [state EXCEPT ![c] = "READY"]
    /\ fds' = [fds EXCEPT ![c] = fds[p]]
    /\ openers' = [e \in End |-> openers[e] + fds[p][e]]
    /\ UNCHANGED <<bufVars, freed, waiters, wait_next, pc, callVars>>

(* SYS_exit: process_release_fds closes one entry after the other. *)
SYS_exit(p) ==
    /\ Issues(p, "exit") \/ At(p, "exit")
    /\ \/ \E e \in End : fds[p][e] > 0 /\ pipe_close_end(p, e, "exit")
       \/ /\ fds[p] = NoFds
          /\ state' = [state EXCEPT ![p] = "DEAD"]
          /\ UNCHANGED <<pipeVars, wait_next, fds, pc, callVars>>
-----------------------------------------------------------------------------
KernelStep(p) ==
    \/ pipe_read(p) \/ pipe_write(p)
    \/ \E e \in End : transfer_wake(p, e) \/ dup2_copy(p, e)
    \/ wake_all(p) \/ pop_head(p) \/ pop_tail(p) \/ pop_clear(p) \/ wake_enqueue(p)
    \/ At(p, "exit") /\ SYS_exit(p)

UserStep(p) ==
    /\ At(p, "user")
    /\ \/ \E e \in End : SYS_transfer(p, e) \/ SYS_close(p, e) \/ SYS_dup(p, e)
       \/ \E src, dst \in End : SYS_dup2(p, src, dst)
       \/ \E c \in Proc : SYS_fork(p, c)
       \/ SYS_exit(p)

Next == (\E p \in Proc : KernelStep(p) \/ UserStep(p)) /\ UNCHANGED scene

Spec == Init /\ [][Next]_vars

(* A process that is ready inside the kernel gets the processor again      *)
(* (Scheduler's QueuedRuns); programs owe nothing.                         *)
Fairness == \A p \in Proc : WF_vars(KernelStep(p) /\ UNCHANGED scene)
-----------------------------------------------------------------------------
PCs == {"user", "read", "write", "read_wake", "write_wake", "wake_all", "pop_head",
        "pop_tail", "pop_clear", "enqueue", "dup2_read", "dup2_write", "exit"}

TypeOK ==
    /\ buf \in [0 .. PIPE_BUF_SIZE - 1 -> Byte]
    /\ head \in 0 .. PIPE_BUF_SIZE - 1 /\ tail \in 0 .. PIPE_BUF_SIZE - 1
    /\ count \in 0 .. PIPE_BUF_SIZE
    /\ openers \in [End -> Nat] /\ freed \in BOOLEAN
    /\ waiters \in [End -> [head : Proc \cup {NULL}, tail : Proc \cup {NULL}]]
    /\ wait_next \in [Proc -> Proc \cup {NULL}]
    /\ state \in [Proc -> {"FREE", "READY", "BLOCKED_PIPE", "DEAD"}]
    /\ fds \in [Proc -> [End -> 0 .. MAX_FDS]]
    /\ pc \in [Proc -> PCs]
    /\ left \in [Proc -> 0 .. MaxCount]
    /\ waiter \in [Proc -> Proc \cup {NULL}]
    /\ sweep \in [Proc -> End]
    /\ should_free \in [Proc -> BOOLEAN]
    /\ then \in [Proc -> {"user", "exit", "dup2_read", "dup2_write"}]
    /\ scene \in Scenes

(* The bytes in the pipe, oldest first. *)
Contents == [k \in 1 .. count |-> buf[(tail + k - 1) % PIPE_BUF_SIZE]]

Channel == INSTANCE Fifo WITH chan <- Contents, Size <- PIPE_BUF_SIZE

(* pipe_read and pipe_write, whatever their interleaving, implement a      *)
(* bounded FIFO of bytes on the ring of head, tail and count.              *)
FifoSpec == Channel!Spec

(* pipe.h:12: readers and writers "count how many open file descriptors    *)
(* (across possibly multiple processes, after fork()) reference each end;  *)
(* the pipe is freed once both drop to zero": and by exactly one closer.   *)
RefsExact ==
    /\ TypeOK
    /\ \A e \in End : openers[e] = Cardinality(Entries(fds, e))
    /\ LET freeing == {p \in Proc : should_free[p]} IN
       IF \A e \in End : openers[e] = 0
       THEN Cardinality(freeing) = IF freed THEN 0 ELSE 1
       ELSE freeing = {} /\ ~ freed

(* pipe.h:53: pipe_close_end "frees `p` once both ends have no references  *)
(* left"; nobody is still inside pipe_close_end, about to look at the wait *)
(* queues, when that happens.                                              *)
NoUseAfterFree ==
    freed => \A p \in Proc : pc[p] \notin {"wake_all", "pop_head", "pop_tail"}
=============================================================================
