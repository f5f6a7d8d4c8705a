----------------------------- MODULE PipeWaits ------------------------------
(***************************************************************************)
(* What the two wait queues of a pipe promise to the processes parked on   *)
(* them.  wait_queue_push and wait_queue_pop are not atomic by themselves: *)
(* pipe_read and pipe_write call them under cli, wake_all does not.  When  *)
(* another process changes a queue after a wake_all has read its head and  *)
(* before it has stored the new head and tail, the queue can lose          *)
(* processes.  The history variable crossed records that this has          *)
(* happened; what is promised is promised until then.                      *)
(***************************************************************************)
EXTENDS Pipe

VARIABLE crossed

(* A wake_all is between the load of the head of the queue of end e and    *)
(* its last store to that queue.                                           *)
MidPop(p, e) == pc[p] \in {"pop_head", "pop_tail"} /\ sweep[p] = e

(* This step is another process's, and changes that queue. *)
Crosses ==
    \E p \in Proc, e \in End : MidPop(p, e) /\ pc'[p] = pc[p] /\ waiters'[e] # waiters[e]

WaitsInit == Init /\ crossed = FALSE

WaitsNext == Next /\ crossed' = (crossed \/ Crosses)

WaitsSpec == WaitsInit /\ [][WaitsNext]_<<vars, crossed>> /\ Fairness
-----------------------------------------------------------------------------
(* The processes linked in a wait queue, from its head on. *)
Parked(e) ==
    LET at[k \in 0 .. Cardinality(Proc)] ==
            IF k = 0 THEN waiters[e].head
            ELSE IF at[k - 1] = NULL THEN NULL ELSE wait_next[at[k - 1]]
    IN  {at[k] : k \in DOMAIN at} \ {NULL}

Popping == {p \in Proc : pc[p] \in {"pop_head", "pop_tail", "pop_clear"}}

(* A process blocked on the pipe is parked on the queue of its call, or is *)
(* in the hands of exactly one process about to ready it, and the tail is  *)
(* the last of its queue; so none drops out of sight (process.c:178-215).  *)
(* It holds until a push or a pop has come between the stores of a         *)
(* wake_all's pop (pipe.c:13), and not after.                              *)
WaitersSound ==
    crossed \/ Popping # {} \/
        /\ \A e \in End :
              /\ Parked(e) = {p \in Proc : /\ state[p] = "BLOCKED_PIPE" /\ pc[p] = e
                                         /\ \A q \in Proc : waiter[q] # p}
              /\ Parked(e) = {} => waiters[e].tail = NULL
              /\ Parked(e) # {} => /\ waiters[e].tail \in Parked(e)
                                   /\ wait_next[waiters[e].tail] = NULL
        /\ \A p, q \in Proc : waiter[p] # NULL /\ waiter[p] = waiter[q] => p = q

(* Somebody's wake_all has yet to empty the queue of end e. *)
Sweeping(e) ==
    \E p \in Proc : /\ pc[p] \in {"wake_all", "pop_head", "pop_tail", "pop_clear", "enqueue"}
                    /\ sweep[p] \in {"write", e}

(* The processes that will test the buffer again for end e. *)
Retrying(e) ==
    {p \in Proc : pc[p] \in {e, WakePoint(e)} /\ left[p] > 0 /\ p \notin Parked(e)}

(* pipe.c:61: the cli/sti of pipe_read "close the race against             *)
(* pipe_write()".  While a reader is parked, each buffered byte has an     *)
(* awake reader to fetch it, and a writer is still open; likewise for      *)
(* parked writers and free slots; or a close is about to wake them all.    *)
(* It holds until a push or a pop has crossed a wake_all's, and not after. *)
NoLostWakeup ==
    crossed \/
        /\ Parked("read") # {} => \/ Sweeping("read")
                                  \/ /\ openers["write"] > 0
                                     /\ count <= Cardinality(Retrying("read"))
        /\ Parked("write") # {} => \/ Sweeping("write")
                                   \/ /\ openers["read"] > 0
                                      /\ PIPE_BUF_SIZE - count <= Cardinality(Retrying("write"))

(* pipe.c:7: wake_all "wakes every process parked".  A blocked read ends   *)
(* once no writer is left, and a blocked write once no reader is left,     *)
(* however many descriptors were closed on the way, unless another process *)
(* has changed a queue in the middle of a wake_all's pop: then a blocked   *)
(* process can stay parked, or unlinked, for ever.                         *)
HangupReaches ==
    \A p \in Proc :
        /\ pc[p] = "read" /\ openers["write"] = 0 ~> pc[p] = "user" \/ crossed
        /\ pc[p] = "write" /\ openers["read"] = 0 ~> pc[p] = "user" \/ crossed

(* pipe.c:7: wake_all "Wakes every process parked on `wq`", so that a      *)
(* reader blocked when the last writer closes learns of the end.           *)
EveryReaderWoken ==
    \A p \in Proc : pc[p] = "read" /\ openers["write"] = 0 ~> pc[p] = "user"
=============================================================================
