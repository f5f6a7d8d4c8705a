----------------------------- MODULE TrapsProofs -----------------------------
(* Proof that the single global recovery point of usercopy.c is enough,    *)
(* for any number of processes and any length of a copy.                   *)
EXTENDS Traps, TLAPS

Places == {"user", "idle", "dead", "call", "copy", "blocked", "return"}

(* The types, and what makes OneCopyInFlight inductive: from syscall_entry *)
(* to the end of the copy a task's interrupts are masked, so that only its *)
(* own schedule() could take the processor from it.                        *)
TrapsInv ==
    /\ current \in AllTasks
    /\ where \in [AllTasks -> Places]
    /\ int_enabled \in [AllTasks -> BOOLEAN]
    /\ page \in [AllTasks -> Pages]
    /\ to_copy \in [AllTasks -> Nat]
    /\ user_copy_ctx \in AllTasks
    /\ user_copy_in_flight \in BOOLEAN
    /\ \A t \in AllTasks : where[t] \in {"call", "copy"} => int_enabled[t] = FALSE
    /\ OneCopyInFlight

(* At boot no copy is under way. *)
LEMMA TrapsInitInv == TrapsInit => TrapsInv
<1> SUFFICES ASSUME TrapsInit PROVE TrapsInv
  OBVIOUS
<1>1. \A t \in AllTasks : where[t] \notin {"call", "copy"}
  BY DEF TrapsInit
<1>2. current \in AllTasks /\ where \in [AllTasks -> Places] /\ page \in [AllTasks -> Pages]
  BY DEF TrapsInit, AllTasks, Places, Pages
<1>3. int_enabled \in [AllTasks -> BOOLEAN]
  BY DEF TrapsInit
<1>4. to_copy \in [AllTasks -> Nat] /\ user_copy_ctx \in AllTasks
  BY DEF TrapsInit, AllTasks
<1>5. user_copy_in_flight \in BOOLEAN /\ OneCopyInFlight
  BY Zenon, <1>1, <1>2 DEF TrapsInit, OneCopyInFlight
<1> QED
  BY <1>1, <1>2, <1>3, <1>4, <1>5 DEF TrapsInv

(* A switch away from a task that is not copying leaves no copy under way. *)
LEMMA ScheduleInv ==
    ASSUME TrapsInv, where[current] # "copy", schedule(current), UNCHANGED <<where, panicked>>
    PROVE  TrapsInv'
  BY DEF schedule, TrapsInv, OneCopyInFlight, copyVars

(* Entering, leaving and unmasking. *)
LEMMA CallsInv ==
    ASSUME TrapsInv, syscall_entry(current) \/ sysret(current) \/ sti(current)
    PROVE  TrapsInv'
<1>1. int_enabled' \in [AllTasks -> BOOLEAN]
  BY Zenon DEF TrapsInv, syscall_entry, sysret, sti
<1>2. \A t \in AllTasks : where'[t] \in {"call", "copy"} => int_enabled'[t] = FALSE
  BY DEF TrapsInv, syscall_entry, sysret, sti, Enter
<1>3. OneCopyInFlight'
  BY DEF TrapsInv, OneCopyInFlight, syscall_entry, sysret, sti, Enter, copyVars
<1>4. where' \in [AllTasks -> Places]
  BY DEF TrapsInv, syscall_entry, sysret, sti, Enter, Places
<1> QED
  BY <1>1, <1>2, <1>3, <1>4 DEF TrapsInv, syscall_entry, sysret, sti, copyVars

(* A copy from its recovery point to its end. *)
LEMMA CopiesInv ==
    ASSUME TrapsInv,
           \/ \E n \in 1 .. MaxBytes : copy_to_user(current, n)
           \/ \E next \in Pages : copy_byte(current, next) \/ touch(current, next)
           \/ copy_end(current)
    PROVE  TrapsInv'
<1>1. CASE \E n \in 1 .. MaxBytes : copy_to_user(current, n)
  BY <1>1 DEF TrapsInv, OneCopyInFlight, copy_to_user, Enter, Places
<1>2. CASE \E next \in Pages : copy_byte(current, next)
  BY <1>2 DEF TrapsInv, OneCopyInFlight, copy_byte
<1>3. CASE \E next \in Pages : touch(current, next)
  BY <1>3 DEF TrapsInv, OneCopyInFlight, touch, copyVars
<1>4. CASE copy_end(current)
  BY Zenon, <1>4 DEF TrapsInv, OneCopyInFlight, copy_end, Enter, Places
<1> QED
  BY <1>1, <1>2, <1>3, <1>4

(* A page fault is resolved, recovered from, or fatal; it cannot be fatal  *)
(* in a copy, as the copy's flag is set.                                   *)
LEMMA FaultsInv ==
    ASSUME TrapsInv, panicked = "no", isr_handler(current)
    PROVE  TrapsInv'
<1>1. CASE cow_fault(current)
  BY <1>1 DEF TrapsInv, OneCopyInFlight, cow_fault, copyVars, Pages
<1>2. CASE recover(current)
  BY Zenon, <1>2 DEF TrapsInv, OneCopyInFlight, recover, Enter, Places, Pages
<1>3. CASE fatal_fault(current)
  BY <1>3 DEF TrapsInv, OneCopyInFlight, fatal_fault, schedule, Enter, copyVars, Places
<1> QED
  BY <1>1, <1>2, <1>3 DEF isr_handler

(* Every step of the processor preserves the invariant. *)
LEMMA TrapsNextInv == TrapsInv /\ [TrapsNext]_trapVars => TrapsInv'
<1> SUFFICES ASSUME TrapsInv, [TrapsNext]_trapVars PROVE TrapsInv'
  OBVIOUS
<1>1. CASE SYS_wait_yields(current)
  BY <1>1, ScheduleInv DEF SYS_wait_yields
<1>2. CASE irq_handler(current)
  <2>1. where[current] # "copy"
    BY <1>2 DEF irq_handler, TrapsInv
  <2> QED
    BY <1>2, <2>1, ScheduleInv DEF irq_handler
<1>3. CASE UNCHANGED trapVars
  BY <1>3 DEF trapVars, TrapsInv, OneCopyInFlight
<1> QED
  BY <1>1, <1>2, <1>3, CallsInv, CopiesInv, FaultsInv DEF TrapsNext

(* usercopy.c:26-30: "Only one copy can be in flight at a time".  However  *)
(* calls, faults and preemptions of the processes follow each other, the   *)
(* recovery point belongs to the copy of the running process.              *)
THEOREM CopiesAlone == TrapsSpec => []OneCopyInFlight
<1>1. TrapsInv => OneCopyInFlight
  BY DEF TrapsInv
<1> QED
  BY <1>1, TrapsInitInv, TrapsNextInv, PTL DEF TrapsSpec
=============================================================================
