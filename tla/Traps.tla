-------------------------------- MODULE Traps --------------------------------
(***************************************************************************)
(* How the processor enters and leaves the kernel (idt.c, usercopy.c,      *)
(* syscall_entry.asm), on one CPU: system calls, exceptions, interrupts,   *)
(* and the copies to and from user memory, whose single global recovery    *)
(* point serves whichever process is copying.                              *)
(***************************************************************************)
EXTENDS Integers

CONSTANTS
    Tasks,       \* user processes
    idle_process,
    MaxBytes     \* bound: bytes of one copy

ASSUME TrapsAssumption == MaxBytes \in Nat \ {0} /\ idle_process \notin Tasks

AllTasks == Tasks \cup {idle_process}

(* The user page that a task touches next: mapped, shared copy-on-write,   *)
(* or not mapped at all.                                                   *)
Pages == {"mapped", "cow", "absent"}

VARIABLES
    current,
    where,       \* "user", "idle", "dead"; in a call "call", "copy", "blocked", "return"
    int_enabled, \* IF: in RFLAGS, or in what switch_task has saved of them
    page,
    to_copy,     \* bytes the task's copy still has to move
    user_copy_ctx, user_copy_in_flight,
    panicked     \* where the exception that halted the kernel was taken

trapVars ==
    <<current, where, int_enabled, page, to_copy, user_copy_ctx, user_copy_in_flight, panicked>>

copyVars == <<to_copy, user_copy_ctx, user_copy_in_flight>>

TrapsInit ==
    /\ current \in Tasks
    /\ where = [t \in AllTasks |-> IF t = idle_process THEN "idle" ELSE "user"]
    /\ int_enabled = [t \in AllTasks |-> TRUE]
    /\ page = [t \in AllTasks |-> "mapped"] /\ to_copy = [t \in AllTasks |-> 0]
    /\ user_copy_ctx = idle_process /\ user_copy_in_flight = FALSE
    /\ panicked = "no"

Enter(t, place) == where' = [where EXCEPT ![t] = place]
-----------------------------------------------------------------------------
(* Mutant: FMASK leaves IF alone, and calls run with interrupts enabled. *)
syscall_entry_unmasked(t) ==
    /\ where[t] = "user" /\ Enter(t, "call")
    /\ UNCHANGED <<current, int_enabled, page, copyVars, panicked>>

(* The syscall instruction clears the flags in FMASK, IF among them. *)
syscall_entry(t) ==
    /\ where[t] = "user" /\ Enter(t, "call")
    /\ int_enabled' = [int_enabled EXCEPT ![t] = FALSE]
    /\ UNCHANGED <<current, page, copyVars, panicked>>

(* sysret restores the caller's RFLAGS. *)
sysret(t) ==
    /\ where[t] \in {"call", "blocked", "return"} /\ Enter(t, "user")
    /\ int_enabled' = [int_enabled EXCEPT ![t] = TRUE]
    /\ UNCHANGED <<current, page, copyVars, panicked>>

(* keyboard_read, mouse_read, pipe_read, pipe_write and SYS_sleep_ms       *)
(* enable interrupts; none of them uses copy_to_user.                      *)
sti(t) ==
    /\ where[t] = "call" /\ Enter(t, "blocked")
    /\ int_enabled' = [int_enabled EXCEPT ![t] = TRUE]
    /\ UNCHANGED <<current, page, copyVars, panicked>>

(* copy_to_user up to its loop; copy_from_user is the same. *)
copy_to_user(t, n) ==
    /\ where[t] = "call" /\ Enter(t, "copy")
    /\ to_copy' = [to_copy EXCEPT ![t] = n]
    /\ user_copy_ctx' = t /\ user_copy_in_flight' = TRUE
    /\ UNCHANGED <<current, int_enabled, page, panicked>>

copy_byte(t, next) ==
    /\ where[t] = "copy" /\ to_copy[t] > 0 /\ page[t] = "mapped"
    /\ to_copy' = [to_copy EXCEPT ![t] = @ - 1]
    /\ page' = [page EXCEPT ![t] = next]
    /\ UNCHANGED <<current, where, int_enabled, user_copy_ctx, user_copy_in_flight, panicked>>

copy_end(t) ==
    /\ where[t] = "copy" /\ to_copy[t] = 0 /\ Enter(t, "return")
    /\ user_copy_in_flight' = FALSE
    /\ UNCHANGED <<current, int_enabled, page, to_copy, user_copy_ctx, panicked>>

(* User code, or a call that reads its arguments directly, touches memory. *)
touch(t, next) ==
    /\ where[t] \in {"user", "call", "blocked"} /\ page[t] = "mapped" /\ next # "mapped"
    /\ page' = [page EXCEPT ![t] = next]
    /\ UNCHANGED <<current, where, int_enabled, copyVars, panicked>>

(* schedule() picks another task; IF goes with the task. (Which one is for *)
(* the module Scheduler.)                                                  *)
schedule(t) ==
    /\ current' \in {u \in AllTasks \ {t} : where[u] # "dead"}
    /\ UNCHANGED <<int_enabled, page, copyVars>>

(* SYS_wait gives up the CPU with interrupts disabled. *)
SYS_wait_yields(t) == where[t] = "call" /\ schedule(t) /\ UNCHANGED <<where, panicked>>
-----------------------------------------------------------------------------
(* isr_handler for a page fault.  A write to a copy-on-write page is       *)
(* resolved and retried.                                                   *)
cow_fault(t) ==
    /\ page[t] = "cow" /\ page' = [page EXCEPT ![t] = "mapped"]
    /\ UNCHANGED <<current, where, int_enabled, copyVars, panicked>>

(* usercopy_recover_or_return: the saved context returns from its copy     *)
(* with -1.                                                                *)
recover(t) ==
    /\ page[t] = "absent" /\ user_copy_in_flight
    /\ user_copy_in_flight' = FALSE /\ Enter(user_copy_ctx, "return")
    /\ page' = [page EXCEPT ![user_copy_ctx] = "mapped"]
    /\ UNCHANGED <<current, int_enabled, to_copy, user_copy_ctx, panicked>>

(* A task at fault in user mode is killed; a fault in the kernel halts it. *)
fatal_fault(t) ==
    /\ page[t] = "absent" /\ ~user_copy_in_flight
    /\ \/ where[t] = "user" /\ Enter(t, "dead") /\ schedule(t) /\ UNCHANGED panicked
       \/ /\ where[t] # "user" /\ panicked' = where[t]
          /\ UNCHANGED <<current, where, int_enabled, page, copyVars>>

isr_handler(t) ==
    /\ where[t] \in {"user", "call", "copy", "blocked"}
    /\ where[t] = "copy" => to_copy[t] > 0
    /\ cow_fault(t) \/ recover(t) \/ fatal_fault(t)

(* The timer interrupt is acknowledged, and its handler switches tasks. *)
irq_handler(t) == int_enabled[t] /\ schedule(t) /\ UNCHANGED <<where, panicked>>

TrapsNext ==
    /\ panicked = "no"
    /\ LET t == current
       IN \/ syscall_entry(t) \/ sysret(t) \/ sti(t) \/ copy_end(t) \/ SYS_wait_yields(t)
          \/ \E n \in 1 .. MaxBytes : copy_to_user(t, n)
          \/ \E next \in Pages : copy_byte(t, next) \/ touch(t, next)
          \/ isr_handler(t) \/ irq_handler(t)

TrapsSpec == TrapsInit /\ [][TrapsNext]_trapVars

(* At most one copy is under way, and it is the running task's own: an     *)
(* exception that finds user_copy_in_flight set was raised by that very    *)
(* copy, so the recovery never resumes another task's call, and a bad      *)
(* pointer given to copy_to_user never halts the kernel.                   *)
OneCopyInFlight ==
    /\ user_copy_in_flight <=> where[current] = "copy"
    /\ user_copy_in_flight => user_copy_ctx = current
    /\ \A t \in AllTasks \ {current} : where[t] # "copy"
    /\ panicked # "copy"
=============================================================================
