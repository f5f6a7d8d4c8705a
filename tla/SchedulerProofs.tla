--------------------------- MODULE SchedulerProofs ---------------------------
(***************************************************************************)
(* Safety of the scheduler for every number of processes, levels and       *)
(* ticks.  The invariants of Scheduler are inductive together: a queue is  *)
(* sound because a running or blocked process is not queued, which holds   *)
(* because of where a process can be when it is current and queued.        *)
(***************************************************************************)
EXTENDS Scheduler, SeqLemmas

(* QueueSound, of the queues in the middle of an operation. *)
QueuesOf(q, st, pr) ==
    /\ q \in [Level -> Seq(Proc \ {Idle})]
    /\ \A i \in Level :
          /\ IsInjective(q[i])
          /\ \A p \in Range(q[i]) : st[p] = "READY" /\ pr[p] = i

(* What every caller of schedule() owes it. *)
Schedulable(st, q, pr) ==
    /\ st \in [Proc -> States] /\ pr \in [Proc -> Level]
    /\ QueuesOf(q, st, pr)
    /\ current_process \in Proc
    /\ process_queue \in Seq(Proc) /\ IsInjective(process_queue)
    /\ Range(process_queue) = {p \in Proc : st[p] # "FREE"}
    /\ process_queue # <<>> /\ Head(process_queue) = Idle
    /\ st[Idle] = "RUNNING"
    /\ \A p \in Proc \ {Idle} : st[p] = "RUNNING" => p = current_process

Inv == /\ TypeOK /\ QueueSound /\ OneRunner /\ KbdWaitqSound /\ RingSound
       /\ ResumeSound
-----------------------------------------------------------------------------
(* Levels are the naturals below NUM_QUEUES. *)
LEMMA LevelNat == Level \in SUBSET Nat /\ 0 \in Level /\ Level = 0 .. NUM_QUEUES - 1
                  /\ NUM_QUEUES - 1 \in Nat
  BY BoundAssumption DEF Level

(* schedule() links each process it readies once, in its level's queue. *)
LEMMA RequeuedSound ==
    ASSUME NEW st, NEW q, NEW pr, Schedulable(st, q, pr)
    PROVE  /\ Requeued(st, q, pr) \in [Level -> Seq(Proc \ {Idle})]
           /\ \A i \in Level :
                 /\ IsInjective(Requeued(st, q, pr)[i])
                 /\ Range(Requeued(st, q, pr)[i]) =
                       Range(q[i]) \cup {p \in Readied(st) : pr[p] = i}
           /\ Readied(st) \in SUBSET (Proc \ {Idle})
           /\ \A p \in Readied(st) : st[p] \in {"BLOCKED", "RUNNING"}
           /\ Yields(st) => current_process \in Readied(st)
<1> DEFINE woken == wake_blocked_processes(st, current_process)
           self == IF Yields(st) THEN {current_process} ELSE {}
           W(i) == {p \in woken : pr[p] = i}
           a(i) == InRingOrder(W(i))
           b(i) == IF Yields(st) /\ pr[current_process] = i
                   THEN <<current_process>> ELSE <<>>
           Q == Requeued(st, q, pr)
<1>1. /\ woken \in SUBSET (Proc \ {Idle}) /\ woken \subseteq Range(process_queue)
      /\ \A p \in woken : st[p] = "BLOCKED" /\ p # current_process
  BY DEF Schedulable, wake_blocked_processes
<1>2. /\ self \in SUBSET (Proc \ {Idle})
      /\ \A p \in self : st[p] = "RUNNING" /\ p = current_process
  BY DEF Schedulable, Yields
<1>3. Readied(st) = woken \cup self
  BY DEF Readied
<1>4. Q = [i \in Level |-> q[i] \o a(i) \o b(i)]
  BY DEF Requeued
<1>5. ASSUME NEW i \in Level
      PROVE  /\ q[i] \o a(i) \o b(i) \in Seq(Proc \ {Idle})
             /\ IsInjective(q[i] \o a(i) \o b(i))
             /\ Range(q[i] \o a(i) \o b(i)) =
                   Range(q[i]) \cup {p \in Readied(st) : pr[p] = i}
  <2> HIDE DEF woken
  <2>1. /\ a(i) \in Seq(Proc) /\ Range(a(i)) = W(i) /\ IsInjective(a(i))
    <3>1. /\ a(i) \in Seq(Proc) /\ IsInjective(a(i))
          /\ Range(a(i)) = Range(process_queue) \cap W(i)
      BY KeepProperties DEF Schedulable, InRingOrder
    <3> QED
      BY <3>1, <1>1
  <2>2. a(i) \in Seq(Proc \ {Idle})
    BY <2>1, <1>1, SeqInRange
  <2>3. /\ b(i) \in Seq(Proc \ {Idle}) /\ IsInjective(b(i))
        /\ Range(b(i)) = {p \in self : pr[p] = i}
    <3>1. CASE Yields(st) /\ pr[current_process] = i
      BY <3>1, <1>2, ShortRange
    <3>2. CASE ~ (Yields(st) /\ pr[current_process] = i)
      BY <3>2, <1>2, ShortRange
    <3> QED
      BY <3>1, <3>2
  <2>4. /\ q[i] \in Seq(Proc \ {Idle}) /\ IsInjective(q[i])
        /\ \A p \in Range(q[i]) : st[p] = "READY"
    BY DEF Schedulable, QueuesOf
  <2>5. Range(q[i]) \cap Range(a(i)) = {}
    BY <2>1, <2>4, <1>1
  <2> HIDE DEF a, b, W
  <2>6. /\ q[i] \o a(i) \in Seq(Proc \ {Idle}) /\ IsInjective(q[i] \o a(i))
        /\ Range(q[i] \o a(i)) = Range(q[i]) \cup Range(a(i))
    BY <2>1, <2>2, <2>4, <2>5, ConcatRange
  <2>7. Range(q[i] \o a(i)) \cap Range(b(i)) = {}
    BY <2>1, <2>3, <2>4, <2>6, <1>1, <1>2 DEF W
  <2>8. /\ q[i] \o a(i) \o b(i) \in Seq(Proc \ {Idle})
        /\ IsInjective(q[i] \o a(i) \o b(i))
        /\ Range(q[i] \o a(i) \o b(i)) = Range(q[i] \o a(i)) \cup Range(b(i))
    <3> DEFINE s == q[i] \o a(i)
               t == b(i)
    <3>1. s \in Seq(Proc \ {Idle}) /\ t \in Seq(Proc \ {Idle})
          /\ IsInjective(s) /\ IsInjective(t) /\ Range(s) \cap Range(t) = {}
      BY <2>3, <2>6, <2>7
    <3> HIDE DEF s, t
    <3>2. s \o t \in Seq(Proc \ {Idle}) /\ IsInjective(s \o t)
          /\ Range(s \o t) = Range(s) \cup Range(t)
      BY <3>1, ConcatRange
    <3> QED
      BY <3>2 DEF s, t
  <2>9. {p \in Readied(st) : pr[p] = i} = Range(a(i)) \cup Range(b(i))
    BY <2>1, <2>3, <1>3 DEF W
  <2> QED
    BY <2>6, <2>8, <2>9
<1> HIDE DEF a, b, W, woken, self
<1>6. Q \in [Level -> Seq(Proc \ {Idle})] /\ \A i \in Level : Q[i] = q[i] \o a(i) \o b(i)
  BY <1>4, <1>5
<1>7. Yields(st) => current_process \in self
  BY DEF self
<1> QED
  BY Zenon, <1>1, <1>2, <1>3, <1>5, <1>6, <1>7

(* mlfq_pick_next takes the head of the best level that has one. *)
LEMMA PickSound ==
    ASSUME NEW q \in [Level -> Seq(Proc \ {Idle})],
           \A i \in Level : IsInjective(q[i])
    PROVE  /\ mlfq_unlink_next(q) \in [Level -> Seq(Proc \ {Idle})]
           /\ mlfq_pick_next(q) \in Proc
           /\ \A i \in Level :
                 /\ IsInjective(mlfq_unlink_next(q)[i])
                 /\ Range(mlfq_unlink_next(q)[i]) \subseteq Range(q[i])
           /\ \/ /\ mlfq_pick_next(q) = Idle
                 /\ \A i \in Level : mlfq_unlink_next(q)[i] = <<>>
              \/ \E t \in Level :
                    /\ mlfq_pick_next(q) \in Range(q[t]) \ {Idle}
                    /\ mlfq_pick_next(q) \notin Range(mlfq_unlink_next(q)[t])
                    /\ \A i \in Level : i < t => mlfq_unlink_next(q)[i] = <<>>
<1>1. CASE NonEmpty(q) = {}
  <2>1. mlfq_pick_next(q) = Idle /\ mlfq_unlink_next(q) = q
    BY <1>1 DEF mlfq_pick_next, mlfq_unlink_next
  <2>2. \A i \in Level : q[i] = <<>>
    BY <1>1 DEF NonEmpty
  <2> QED
    BY <2>1, <2>2, ProcAssumption
<1>2. CASE NonEmpty(q) # {}
  <2> DEFINE t == TopLevel(q)
             u == mlfq_unlink_next(q)
  <2>1. NonEmpty(q) \in SUBSET Nat
    BY LevelNat DEF NonEmpty
  <2>2. t \in NonEmpty(q) /\ \A j \in NonEmpty(q) : t <= j
    BY <1>2, <2>1, LeastNat DEF TopLevel
  <2>3. mlfq_pick_next(q) = Head(q[t]) /\ u = [q EXCEPT ![t] = Tail(q[t])]
    BY <1>2 DEF mlfq_pick_next, mlfq_unlink_next
  <2> HIDE DEF t, u
  <2>4. t \in Level /\ q[t] # <<>> /\ q[t] \in Seq(Proc \ {Idle}) /\ IsInjective(q[t])
    BY <2>2 DEF NonEmpty
  <2>5. /\ Tail(q[t]) \in Seq(Proc \ {Idle}) /\ IsInjective(Tail(q[t]))
        /\ Head(q[t]) \in Range(q[t])
        /\ Range(Tail(q[t])) = Range(q[t]) \ {Head(q[t])}
    BY <2>4, TailRange
  <2>6. /\ u \in [Level -> Seq(Proc \ {Idle})] /\ u[t] = Tail(q[t])
        /\ \A i \in Level : i # t => u[i] = q[i]
    BY <2>3, <2>4, <2>5
  <2>7. Head(q[t]) \in Proc \ {Idle}
    BY <2>4
  <2>8. ASSUME NEW i \in Level, i < t PROVE u[i] = <<>>
    BY <2>2, <2>4, <2>6, <2>8, LevelNat DEF NonEmpty
  <2>9. \A i \in Level : IsInjective(u[i]) /\ Range(u[i]) \subseteq Range(q[i])
    BY <2>5, <2>6
  <2> QED
    BY <2>3, <2>4, <2>5, <2>6, <2>7, <2>8, <2>9 DEF u
<1> QED
  BY <1>1, <1>2

(* What schedule() establishes, whoever calls it. *)
LEMMA ScheduleSound ==
    ASSUME NEW st, NEW q, NEW pr, Schedulable(st, q, pr), schedule(st, q, pr)
    PROVE  /\ current_process' \in Proc /\ state' \in [Proc -> States]
           /\ QueuesOf(mlfq', state', pr)
           /\ process_queue' \in Seq(Proc) /\ IsInjective(process_queue')
           /\ Range(process_queue') = {p \in Proc : state'[p] # "FREE"}
           /\ process_queue' # <<>> /\ Head(process_queue') = Idle
           /\ state'[Idle] = "RUNNING"
           /\ \A p \in Proc \ {Idle} : state'[p] = "RUNNING" => p = current_process'
           /\ state'[current_process'] \in {"READY", "RUNNING"}
           /\ \A i \in Level : current_process' \notin Range(mlfq'[i])
           /\ \A p \in Proc : state'[p] = "BLOCKED_KBD" <=> st[p] = "BLOCKED_KBD"
           /\ \A p \in Proc : st[p] # "FREE" /\ state'[p] = "FREE" =>
                                 st[p] = "DEAD" /\ p # current_process
           /\ \A p \in Proc : st[p] = "DEAD" => state'[p] \in {"DEAD", "FREE"}
           /\ current_process' # current_process =>
                 \A i \in Level :
                    (current_process' = Idle \/ i < pr[current_process']) => mlfq'[i] = <<>>
<1> DEFINE Q == Requeued(st, q, pr)
           next == mlfq_pick_next(Q)
           u == mlfq_unlink_next(Q)
           reaped == reap_zombies(st)
           R == Readied(st)
<1>1. /\ process_queue' = InRingOrder(Proc \ reaped) /\ mlfq' = u
      /\ current_process' = next
      /\ state' = [p \in Proc |-> IF p = next /\ next # current_process THEN "RUNNING"
                                  ELSE IF p \in reaped THEN "FREE"
                                  ELSE IF p \in R THEN "READY"
                                  ELSE st[p]]
  BY DEF schedule
<1>2. /\ Q \in [Level -> Seq(Proc \ {Idle})]
      /\ \A i \in Level : /\ IsInjective(Q[i])
                          /\ Range(Q[i]) = Range(q[i]) \cup {p \in R : pr[p] = i}
      /\ R \in SUBSET (Proc \ {Idle})
      /\ \A p \in R : st[p] \in {"BLOCKED", "RUNNING"}
      /\ Yields(st) => current_process \in R
  BY RequeuedSound
<1>3. /\ u \in [Level -> Seq(Proc \ {Idle})] /\ next \in Proc
      /\ \A i \in Level : IsInjective(u[i]) /\ Range(u[i]) \subseteq Range(Q[i])
      /\ \/ next = Idle /\ \A i \in Level : u[i] = <<>>
         \/ \E t \in Level : /\ next \in Range(Q[t]) \ {Idle}
                             /\ next \notin Range(u[t])
                             /\ \A i \in Level : i < t => u[i] = <<>>
  <2> HIDE DEF Q
  <2> QED
    BY Zenon, <1>2, PickSound
<1>4. \A p \in reaped : p \in Proc /\ st[p] = "DEAD" /\ p # current_process
  BY DEF reap_zombies, Schedulable
<1>5. /\ st \in [Proc -> States] /\ pr \in [Proc -> Level] /\ current_process \in Proc
      /\ q \in [Level -> Seq(Proc \ {Idle})]
      /\ \A i \in Level : \A p \in Range(q[i]) : st[p] = "READY" /\ pr[p] = i
      /\ st[Idle] = "RUNNING" /\ Idle \in Proc
      /\ \A p \in Proc \ {Idle} : st[p] = "RUNNING" => p = current_process
  BY ProcAssumption DEF Schedulable, QueuesOf
<1> HIDE DEF Q, next, u, reaped, R
(* The processes linked in the queues that next is picked from. *)
<1>6. \A i \in Level : \A p \in Range(Q[i]) :
         /\ p \in Proc /\ p # Idle /\ pr[p] = i
         /\ st[p] = "READY" \/ p \in R
  <2>1. \A i \in Level : \A p \in Range(Q[i]) : p \in Proc \ {Idle}
    <3> SUFFICES ASSUME NEW i \in Level, NEW p \in Range(Q[i]) PROVE p \in Proc \ {Idle}
      OBVIOUS
    <3>1. Q[i] \in Seq(Proc \ {Idle})
      BY <1>2
    <3> QED
      BY <3>1 DEF Range
  <2> QED
    BY <2>1, <1>2, <1>5
<1>7. next = Idle \/ (next # Idle /\ (st[next] = "READY" \/ next \in R))
  BY <1>3, <1>6
<1>8. state' \in [Proc -> States] /\ current_process' \in Proc
  BY <1>1, <1>3, <1>5 DEF States
<1>9. ASSUME NEW p \in Proc
      PROVE  /\ p \in R /\ p # next => state'[p] = "READY"
             /\ st[p] = "READY" /\ p # next => state'[p] = "READY"
             /\ p \in reaped => state'[p] = "FREE"
             /\ p \notin R /\ p \notin reaped /\ p # next => state'[p] = st[p]
  BY <1>1, <1>2, <1>4, <1>5, <1>7
<1>10. state'[next] \in {"READY", "RUNNING"} /\ state'[Idle] = "RUNNING"
  BY <1>1, <1>2, <1>3, <1>4, <1>5, <1>7
<1>11. \A i \in Level : next \notin Range(u[i])
  <2>1. CASE next = Idle
    BY <2>1, <1>3, <1>6
  <2>2. CASE next # Idle
    <3>1. PICK t \in Level : next \in Range(Q[t]) \ {Idle} /\ next \notin Range(u[t])
      BY <2>2, <1>3
    <3>2. \A i \in Level : next \in Range(u[i]) => i = t
      BY <3>1, <1>3, <1>6
    <3> QED
      BY <3>1, <3>2
  <2> QED
    BY <2>1, <2>2
<1>12. QueuesOf(mlfq', state', pr)
  <2>1. ASSUME NEW i \in Level, NEW p \in Range(u[i])
        PROVE  state'[p] = "READY" /\ pr[p] = i
    BY <1>3, <1>6, <1>9, <1>11
  <2> QED
    BY <1>1, <1>3, <2>1 DEF QueuesOf
<1>13. ASSUME NEW p \in Proc \ {Idle}, state'[p] = "RUNNING" PROVE p = next
  <2>1. CASE st[p] = "RUNNING"
    BY <2>1, <1>2, <1>5, <1>9, <1>13 DEF Yields
  <2>2. CASE st[p] # "RUNNING"
    BY <2>2, <1>9, <1>13
  <2> QED
    BY <2>1, <2>2
<1>14. ASSUME NEW p \in Proc PROVE p \in reaped <=> st[p] # "FREE" /\ state'[p] = "FREE"
  BY <1>4, <1>9, <1>10
<1>15. /\ process_queue' \in Seq(Proc) /\ IsInjective(process_queue')
       /\ Range(process_queue') = Range(process_queue) \ reaped
       /\ process_queue' # <<>> /\ Head(process_queue') = Idle
  <2>1. Idle \in Proc \ reaped
    BY <1>4, <1>5
  <2>2. /\ process_queue \in Seq(Proc) /\ IsInjective(process_queue)
        /\ process_queue # <<>> /\ Head(process_queue) = Idle
        /\ Range(process_queue) \subseteq Proc
    BY DEF Schedulable
  <2>3. Range(process_queue) \cap (Proc \ reaped) = Range(process_queue) \ reaped
    BY <2>2
  <2>4. process_queue' = Keep(process_queue, Proc \ reaped)
    BY <1>1 DEF InRingOrder
  <2> QED
    BY Zenon, <2>1, <2>2, <2>3, <2>4, KeepProperties
<1>16. Range(process_queue') = {p \in Proc : state'[p] # "FREE"}
  <2>1. Range(process_queue) = {p \in Proc : st[p] # "FREE"}
    BY DEF Schedulable
  <2>2. \A p \in Proc : st[p] = "FREE" => state'[p] = "FREE"
    BY Zenon, <1>2, <1>4, <1>5, <1>7, <1>9
  <2> QED
    BY <1>14, <1>15, <2>1, <2>2
<1>17. \A p \in Proc : state'[p] = "BLOCKED_KBD" <=> st[p] = "BLOCKED_KBD"
  BY Zenon, <1>2, <1>4, <1>5, <1>7, <1>9, <1>10
<1>18. ASSUME NEW p \in Proc, st[p] = "DEAD" PROVE state'[p] \in {"DEAD", "FREE"}
  BY Zenon, <1>2, <1>5, <1>7, <1>9, <1>18
<1>19. ASSUME NEW i \in Level, next = Idle \/ i < pr[next] PROVE u[i] = <<>>
  BY <1>3, <1>6, <1>19
<1> QED
  BY Zenon, <1>1, <1>4, <1>8, <1>10, <1>11, <1>12, <1>13, <1>14, <1>15, <1>16, <1>17, <1>18, <1>19
-----------------------------------------------------------------------------
(* The boot state is sound. *)
LEMMA InitInv == Init => Inv
<1> SUFFICES ASSUME Init PROVE Inv
  OBVIOUS
<1> USE ProcAssumption, BoundAssumption, LevelNat
<1>1. /\ Range(<<Shell>>) = {Shell} /\ IsInjective(<<Shell>>)
      /\ Range(<<>>) = {} /\ IsInjective(<<>>)
  BY ShortRange
<1>2. mlfq \in [Level -> Seq(Proc \ {Idle})]
  <2>1. <<Shell>> \in Seq(Proc \ {Idle}) /\ <<>> \in Seq(Proc \ {Idle})
    OBVIOUS
  <2> QED
    BY Zenon, <2>1 DEF Init
<1>3. TypeOK
  BY <1>2 DEF Init, TypeOK, States, PCs
<1>4. \A i \in Level : mlfq[i] = IF i = 0 THEN <<Shell>> ELSE <<>>
  BY DEF Init
<1>5. QueueSound
  BY <1>1, <1>4 DEF QueueSound, Init
<1>6. OneRunner /\ KbdWaitqSound
  BY <1>1 DEF OneRunner, KbdWaitqSound, Init
<1>7. RingSound
  <2>1. process_queue = <<Idle, Shell>>
    BY DEF Init
  <2>2. IsInjective(process_queue) /\ Range(process_queue) = {Idle, Shell}
    BY <2>1 DEF IsInjective, Range
  <2>3. process_queue # <<>> /\ Head(process_queue) = Idle
    BY <2>1
  <2>4. {p \in Proc : state[p] # "FREE"} = {Idle, Shell}
    BY DEF Init
  <2> QED
    BY <2>2, <2>3, <2>4 DEF RingSound
<1>8. ResumeSound
  <2>1. ~ Queued(current_process)
    BY <1>1, <1>4 DEF Queued, Init
  <2> QED
    BY <2>1 DEF ResumeSound, Init
<1> QED
  BY <1>3, <1>5, <1>6, <1>7, <1>8 DEF Inv

(* In a sound state schedule() may be called as it is. *)
LEMMA InvSchedulable == Inv => Schedulable(state, mlfq, priority)
  BY Zenon DEF Inv, TypeOK, QueueSound, OneRunner, RingSound, ResumeSound, Schedulable, QueuesOf

(* What leaves the keyboard alone leaves its variables typed. *)
LEMMA KbdKept ==
    ASSUME Inv, UNCHANGED kbdVars PROVE KbdTyped' /\ UNCHANGED kbd_waitq
  BY DEF Inv, TypeOK, KbdTyped, kbdVars

(* An operation that ends in schedule() preserves the invariant if it calls *)
(* schedule() in a sound state and leaves readers where they were.          *)
LEMMA ScheduleInv ==
    ASSUME Inv, NEW st, NEW q, NEW pr, Schedulable(st, q, pr), schedule(st, q, pr),
           \A p \in Proc : st[p] = "BLOCKED_KBD" <=> state[p] = "BLOCKED_KBD",
           priority' = pr, ticks_executed' \in [Proc -> Nat], parent' = parent,
           global_ticks' \in 0 .. PRIORITY_BOOST_INTERVAL - 1,
           sleep_left' \in [Proc -> 0 .. MaxSleep], UNCHANGED kbdVars,
           pc' \in [Proc -> PCs],
           \A p \in Proc : p = Idle <=> pc'[p] \in {"kmain", "hlt"},
           \A p \in Proc : state[p] = "BLOCKED_KBD" => pc'[p] \in {"read", "read_yield"}
    PROVE  Inv'
<1>1. pr \in [Proc -> Level]
  BY DEF Schedulable
<1>2. TypeOK'
  BY Zenon, <1>1, ScheduleSound, KbdKept DEF Inv, TypeOK, QueuesOf
<1>3. QueueSound'
  <2>1. QueuesOf(mlfq', state', pr)
    BY ScheduleSound
  <2> QED
    BY <2>1 DEF QueuesOf, QueueSound
<1>4. OneRunner' /\ RingSound'
  BY Zenon, ScheduleSound DEF OneRunner, RingSound
<1>5. KbdWaitqSound'
  <2>1. \A p \in Proc : state'[p] = "BLOCKED_KBD" <=> state[p] = "BLOCKED_KBD"
    BY ScheduleSound
  <2> QED
    BY <2>1 DEF Inv, KbdWaitqSound, kbdVars
<1>6. ResumeSound'
  <2>1. /\ \A i \in Level : current_process' \notin Range(mlfq'[i])
        /\ state'[Idle] = "RUNNING" /\ state'[current_process'] \in {"READY", "RUNNING"}
        /\ \A p \in Proc : state'[p] = "BLOCKED_KBD" <=> state[p] = "BLOCKED_KBD"
    BY ScheduleSound
  <2>2. ~ Queued(current_process)'
    BY <2>1 DEF Queued
  <2> QED
    BY <2>1, <2>2 DEF ResumeSound
<1> QED
  BY <1>2, <1>3, <1>4, <1>5, <1>6 DEF Inv

(* The callers of schedule() that change no state of their own but pc. *)
LEMMA YieldInv ==
    ASSUME Inv, schedule(state, mlfq, priority),
           NEW l \in PCs, pc' = [pc EXCEPT ![current_process] = l],
           l \in {"kmain", "hlt"} <=> current_process = Idle,
           state[current_process] = "BLOCKED_KBD" => l \in {"read", "read_yield"},
           UNCHANGED <<priority, ticks_executed, parent, global_ticks, sleep_left, kbdVars>>
    PROVE  Inv'
<1>1. Schedulable(state, mlfq, priority)
  BY InvSchedulable
<1>2. /\ pc' \in [Proc -> PCs]
      /\ \A p \in Proc : p = Idle <=> pc'[p] \in {"kmain", "hlt"}
      /\ \A p \in Proc : state[p] = "BLOCKED_KBD" => pc'[p] \in {"read", "read_yield"}
  BY DEF Inv, TypeOK, ResumeSound
<1> QED
  BY Zenon, <1>1, <1>2, ScheduleInv DEF Inv, TypeOK

(* A process that blocks or dies as it calls schedule(): it is not queued. *)
LEMMA BlockSchedulable ==
    ASSUME Inv, NEW x \in {"BLOCKED", "DEAD"}, pc[current_process] \notin {"kmain", "hlt"},
           ~ Queued(current_process)
    PROVE  Schedulable([state EXCEPT ![current_process] = x], mlfq, priority)
<1> DEFINE st == [state EXCEPT ![current_process] = x]
<1>1. /\ current_process \in Proc \ {Idle} /\ state \in [Proc -> States]
      /\ state[current_process] # "FREE"
  BY DEF Inv, TypeOK, ResumeSound, OneRunner
<1>2. /\ st \in [Proc -> States] /\ st[current_process] = x
      /\ \A p \in Proc : p # current_process => st[p] = state[p]
  BY <1>1 DEF States
<1> HIDE DEF st
<1>3. \A i \in Level : \A p \in Range(mlfq[i]) : p \in Proc /\ p # current_process
  <2> SUFFICES ASSUME NEW i \in Level, NEW p \in Range(mlfq[i])
               PROVE  p \in Proc /\ p # current_process
    OBVIOUS
  <2>1. mlfq[i] \in Seq(Proc \ {Idle})
    BY DEF Inv, TypeOK
  <2>2. p \in Proc
    BY <2>1 DEF Range
  <2> QED
    BY <2>2 DEF Queued
<1>4. QueuesOf(mlfq, st, priority)
  BY <1>2, <1>3 DEF QueuesOf, Inv, TypeOK, QueueSound
<1>5. {p \in Proc : st[p] # "FREE"} = {p \in Proc : state[p] # "FREE"}
  BY <1>1, <1>2
<1> QED
  <2>1. Schedulable(st, mlfq, priority)
    BY Zenon, <1>1, <1>2, <1>4, <1>5, ProcAssumption
       DEF Schedulable, Inv, TypeOK, OneRunner, RingSound, ResumeSound
  <2> QED
    BY <2>1 DEF st
-----------------------------------------------------------------------------
(* What the invariant says of a process that executes outside its windows. *)
LEMMA CurrentFacts ==
    ASSUME Inv
    PROVE  /\ current_process \in Proc
           /\ current_process = Idle <=> pc[current_process] \in {"kmain", "hlt"}
           /\ pc[current_process] # "read_yield" =>
                 state[current_process] # "BLOCKED_KBD" /\ ~ Queued(current_process)
           /\ state[current_process] \notin {"DEAD", "FREE"}
  BY DEF Inv, TypeOK, ResumeSound, OneRunner

(* A queued process is a READY process other than idle. *)
LEMMA QueuedProc ==
    ASSUME Inv, NEW i \in Level, NEW p \in Range(mlfq[i])
    PROVE  p \in Proc \ {Idle} /\ state[p] = "READY" /\ priority[p] = i
<1>1. mlfq[i] \in Seq(Proc \ {Idle})
  BY DEF Inv, TypeOK
<1>2. p \in Proc \ {Idle}
  BY <1>1 DEF Range
<1> QED
  BY <1>2 DEF Inv, QueueSound

(* The state of a process outside the ready queues is no concern of theirs. *)
LEMMA UnqueuedState ==
    ASSUME Inv, NEW p \in Proc, ~ Queued(p), UNCHANGED <<mlfq, priority>>,
           \A x \in Proc \ {p} : state'[x] = state[x]
    PROVE  QueueSound'
<1>1. mlfq' = mlfq /\ priority' = priority
  OBVIOUS
<1>2. ASSUME NEW i \in Level PROVE IsInjective(mlfq[i])
  BY DEF Inv, QueueSound
<1>3. ASSUME NEW i \in Level, NEW x \in Range(mlfq[i])
      PROVE  state'[x] = "READY" /\ priority[x] = i
  <2>1. x # p
    BY DEF Queued
  <2> QED
    BY <2>1, QueuedProc
<1> QED
  BY <1>1, <1>2, <1>3 DEF QueueSound

(* What the conjuncts of the invariant other than TypeOK read. *)
LEMMA FrameInv ==
    ASSUME Inv,
           UNCHANGED <<current_process, state, priority, mlfq, process_queue, pc, kbd_waitq>>
    PROVE  QueueSound' /\ OneRunner' /\ KbdWaitqSound' /\ RingSound' /\ ResumeSound'
<1>1. QueueSound'
  BY DEF Inv, QueueSound
<1>2. OneRunner'
  BY DEF Inv, OneRunner
<1>3. KbdWaitqSound'
  BY DEF Inv, KbdWaitqSound
<1>4. RingSound'
  BY DEF Inv, RingSound
<1>5. ResumeSound'
  BY DEF Inv, ResumeSound, Queued
<1> QED
  BY <1>1, <1>2, <1>3, <1>4, <1>5

(* mlfq_enqueue of a process that is in no queue keeps the queues sound. *)
LEMMA EnqueueSound ==
    ASSUME Inv, NEW p \in Proc \ {Idle}, NEW l \in Level, state[p] # "READY"
    PROVE  /\ QueuesOf([mlfq EXCEPT ![l] = Append(mlfq[l], p)],
                       [state EXCEPT ![p] = "READY"], [priority EXCEPT ![p] = l])
           /\ \A x \in Proc \ {p} : ~ Queued(x) =>
                 \A i \in Level : x \notin Range([mlfq EXCEPT ![l] = Append(mlfq[l], p)][i])
<1> DEFINE q == [mlfq EXCEPT ![l] = Append(mlfq[l], p)]
           st == [state EXCEPT ![p] = "READY"]
           pr == [priority EXCEPT ![p] = l]
<1>0. /\ st[p] = "READY" /\ pr[p] = l
      /\ \A x \in Proc \ {p} : st[x] = state[x] /\ pr[x] = priority[x]
  BY DEF Inv, TypeOK
<1> HIDE DEF st, pr
<1>1. \A i \in Level : p \notin Range(mlfq[i])
  BY QueuedProc
<1>2. \A i \in Level : mlfq[i] \in Seq(Proc \ {Idle}) /\ IsInjective(mlfq[i])
  BY DEF Inv, TypeOK, QueueSound
<1>3. /\ Append(mlfq[l], p) \in Seq(Proc \ {Idle}) /\ IsInjective(Append(mlfq[l], p))
      /\ Range(Append(mlfq[l], p)) = Range(mlfq[l]) \cup {p}
  BY <1>1, <1>2, AppendRange
<1>4. mlfq \in [Level -> Seq(Proc \ {Idle})]
  BY DEF Inv, TypeOK
<1>5. q[l] = Append(mlfq[l], p) /\ \A i \in Level : i # l => q[i] = mlfq[i]
  BY <1>4
<1>6. q \in [Level -> Seq(Proc \ {Idle})]
  BY <1>3, <1>4
<1> HIDE DEF q
<1>7. ASSUME NEW i \in Level
      PROVE  /\ IsInjective(q[i])
             /\ \A x \in Range(q[i]) : x # p => x \in Range(mlfq[i])
             /\ p \in Range(q[i]) => i = l
  BY Zenon, <1>1, <1>2, <1>3, <1>5
<1>8. ASSUME NEW i \in Level, NEW x \in Range(q[i]) PROVE st[x] = "READY" /\ pr[x] = i
  <2>1. CASE x = p
    BY <2>1, <1>0, <1>7
  <2>2. CASE x # p
    BY <2>2, <1>0, <1>7, QueuedProc
  <2> QED
    BY <2>1, <2>2
<1>9. QueuesOf(q, st, pr)
  BY <1>6, <1>7, <1>8 DEF QueuesOf
<1>10. ASSUME NEW x \in Proc \ {p}, ~ Queued(x), NEW i \in Level PROVE x \notin Range(q[i])
  BY <1>7, <1>10 DEF Queued
<1> QED
  BY <1>9, <1>10 DEF q, st, pr

(* clone_process links a fresh process once. *)
LEMMA ForkInv == ASSUME Inv, NEW c \in Proc, SYS_fork(c) PROVE Inv'
<1>1. /\ state[c] = "FREE" /\ c \in Proc \ {Idle} /\ c # current_process
      /\ pc[current_process] = "user"
      /\ state' = [state EXCEPT ![c] = "READY"]
      /\ priority' = [priority EXCEPT ![c] = 0]
      /\ mlfq' = [mlfq EXCEPT ![0] = Append(mlfq[0], c)]
  BY Zenon, CurrentFacts, LevelNat DEF SYS_fork, Calls, mlfq_enqueue, mlfq_enqueue_state,
     Inv, TypeOK, ResumeSound
<1>2. 0 \in Level
  BY LevelNat
<1>3. /\ QueuesOf(mlfq', state', priority')
      /\ \A x \in Proc \ {c} : ~ Queued(x) => \A i \in Level : x \notin Range(mlfq'[i])
  BY Zenon, <1>1, <1>2, EnqueueSound
<1>4. /\ process_queue' \in Seq(Proc) /\ IsInjective(process_queue')
      /\ Range(process_queue') = Range(process_queue) \cup {c}
  <2>1. c \notin Range(process_queue)
    BY <1>1 DEF Inv, RingSound
  <2>2. process_queue \in Seq(Proc) /\ IsInjective(process_queue)
    BY DEF Inv, TypeOK, RingSound
  <2>3. process_queue' = Append(process_queue, c)
    BY DEF SYS_fork
  <2> QED
    BY <2>1, <2>2, <2>3, AppendRange
<1>5. process_queue' # <<>> /\ Head(process_queue') = Idle
  BY Zenon, AppendHead DEF SYS_fork, Inv, TypeOK, RingSound
<1>6. TypeOK'
  <2>1. /\ mlfq' \in [Level -> Seq(Proc \ {Idle})] /\ process_queue' \in Seq(Proc)
    BY <1>3, <1>4 DEF QueuesOf
  <2>2. /\ state' \in [Proc -> States] /\ priority' \in [Proc -> Level]
        /\ current_process' \in Proc
    BY <1>1, <1>2 DEF SYS_fork, Inv, TypeOK, States
  <2>3. /\ ticks_executed' \in [Proc -> Nat] /\ parent' \in [Proc -> Proc \cup {NULL}]
        /\ pc' \in [Proc -> PCs]
    BY DEF SYS_fork, Inv, TypeOK, PCs
  <2> QED
    BY Zenon, <2>1, <2>2, <2>3, KbdKept DEF SYS_fork, Inv, TypeOK
<1>7. QueueSound'
  BY <1>3 DEF QueuesOf, QueueSound
<1>8. OneRunner'
  BY <1>1 DEF SYS_fork, Inv, TypeOK, OneRunner
<1>9. KbdWaitqSound'
  BY <1>1 DEF SYS_fork, Inv, TypeOK, KbdWaitqSound, kbdVars
<1>10. RingSound'
  <2>1. {p \in Proc : state'[p] # "FREE"} = {p \in Proc : state[p] # "FREE"} \cup {c}
    BY <1>1 DEF Inv, TypeOK
  <2> QED
    BY <1>4, <1>5, <2>1 DEF Inv, RingSound
<1>11. ResumeSound'
  <2>1. ~ Queued(current_process)'
    <3>1. current_process \in Proc \ {c} /\ ~ Queued(current_process)
      BY <1>1, CurrentFacts
    <3>2. Queued(current_process)' <=> \E i \in Level : current_process \in Range(mlfq'[i])
      BY DEF Queued, SYS_fork
    <3> QED
      BY <1>3, <3>1, <3>2
  <2> QED
    BY <1>1, <2>1 DEF SYS_fork, Inv, TypeOK, ResumeSound
<1> QED
  BY <1>6, <1>7, <1>8, <1>9, <1>10, <1>11 DEF Inv

(* SYS_exit leaves a dead process that no queue holds. *)
LEMMA ExitInv == ASSUME Inv, SYS_exit PROVE Inv'
<1> DEFINE st == [state EXCEPT ![current_process] = "DEAD"]
<1>1. pc[current_process] = "user" /\ schedule(st, mlfq, priority)
  BY DEF SYS_exit, Calls
<1>2. Schedulable(st, mlfq, priority)
  BY <1>1, CurrentFacts, BlockSchedulable
<1>3. \A p \in Proc : st[p] = "BLOCKED_KBD" <=> state[p] = "BLOCKED_KBD"
  BY <1>1, CurrentFacts DEF Inv, TypeOK
<1>4. /\ priority' = priority /\ parent' = parent /\ UNCHANGED kbdVars
      /\ ticks_executed' \in [Proc -> Nat]
      /\ global_ticks' \in 0 .. PRIORITY_BOOST_INTERVAL - 1
      /\ sleep_left' \in [Proc -> 0 .. MaxSleep] /\ pc' \in [Proc -> PCs]
      /\ \A p \in Proc : p = Idle <=> pc'[p] \in {"kmain", "hlt"}
      /\ \A p \in Proc : state[p] = "BLOCKED_KBD" => pc'[p] \in {"read", "read_yield"}
  BY DEF SYS_exit, Inv, TypeOK, ResumeSound
<1> HIDE DEF st
<1> QED
  BY <1>1, <1>2, <1>3, <1>4, ScheduleInv

(* SYS_wait blocks and yields. *)
LEMMA WaitBlockInv ==
    ASSUME Inv, pc[current_process] \in {"user", "wait"}, wait_block,
           UNCHANGED <<global_ticks, sleep_left, kbdVars>>
    PROVE  Inv'
<1> DEFINE st == [state EXCEPT ![current_process] = "BLOCKED"]
<1>1. schedule(st, mlfq, priority) /\ pc' = [pc EXCEPT ![current_process] = "wait"]
  BY DEF wait_block
<1>2. Schedulable(st, mlfq, priority)
  BY <1>1, CurrentFacts, BlockSchedulable
<1>3. \A p \in Proc : st[p] = "BLOCKED_KBD" <=> state[p] = "BLOCKED_KBD"
  BY <1>1, CurrentFacts DEF Inv, TypeOK
<1>4. /\ priority' = priority /\ parent' = parent /\ UNCHANGED kbdVars
      /\ ticks_executed' \in [Proc -> Nat]
      /\ global_ticks' \in 0 .. PRIORITY_BOOST_INTERVAL - 1
      /\ sleep_left' \in [Proc -> 0 .. MaxSleep] /\ pc' \in [Proc -> PCs]
  BY <1>1 DEF wait_block, Inv, TypeOK, PCs
<1>5. /\ \A p \in Proc : p = Idle <=> pc'[p] \in {"kmain", "hlt"}
      /\ \A p \in Proc : state[p] = "BLOCKED_KBD" => pc'[p] \in {"read", "read_yield"}
  BY <1>1, CurrentFacts DEF Inv, TypeOK, ResumeSound
<1> HIDE DEF st
<1> QED
  BY <1>1, <1>2, <1>3, <1>4, <1>5, ScheduleInv

(* wait_reap_child unlinks the child it frees. *)
LEMMA WaitReapInv ==
    ASSUME Inv, pc[current_process] \in {"user", "wait"}, wait_reap_child,
           UNCHANGED <<global_ticks, sleep_left, kbdVars>>
    PROVE  Inv'
<1> DEFINE dead == DeadChildren(current_process)
           found == Head(InRingOrder(dead))
<1>1. /\ dead # {}
      /\ state' = [state EXCEPT ![found] = "FREE"]
      /\ parent' = [parent EXCEPT ![found] = NULL]
      /\ process_queue' = Keep(process_queue, Proc \ {found})
      /\ pc' = [pc EXCEPT ![current_process] = "user"]
      /\ UNCHANGED queueVarsButState
  BY DEF wait_reap_child, InRingOrder
<1>2. dead \subseteq Range(process_queue) /\ dead \subseteq {p \in Proc : state[p] = "DEAD"}
  BY DEF DeadChildren, Children, Inv, RingSound
<1>3. found \in dead
  <2>1. /\ InRingOrder(dead) \in Seq(Proc) /\ IsInjective(InRingOrder(dead))
        /\ Range(InRingOrder(dead)) = Range(process_queue) \cap dead
    <3>1. process_queue \in Seq(Proc) /\ IsInjective(process_queue)
      BY DEF Inv, TypeOK, RingSound
    <3> QED
      BY <3>1, KeepProperties DEF InRingOrder
  <2>2. InRingOrder(dead) # <<>>
    BY <1>1, <1>2, <2>1, ShortRange
  <2> QED
    BY <2>1, <2>2, TailRange
<1> HIDE DEF dead, found
<1>4. /\ found \in Proc /\ state[found] = "DEAD" /\ found # current_process /\ found # Idle
  BY <1>2, <1>3, CurrentFacts DEF Inv, ResumeSound
<1>5. /\ process_queue' \in Seq(Proc) /\ IsInjective(process_queue')
      /\ Range(process_queue') = Range(process_queue) \cap (Proc \ {found})
      /\ process_queue' # <<>> /\ Head(process_queue') = Idle
  BY Zenon, <1>1, <1>4, ProcAssumption, KeepProperties DEF Inv, TypeOK, RingSound
<1>6. /\ state' \in [Proc -> States] /\ state'[found] = "FREE"
      /\ \A p \in Proc \ {found} : state'[p] = state[p]
  BY <1>1, <1>4 DEF Inv, TypeOK, States
<1>7. UNCHANGED <<current_process, priority, ticks_executed, mlfq>>
  BY <1>1 DEF queueVarsButState
<1>8. TypeOK'
  BY Zenon, <1>1, <1>5, <1>6, <1>7, KbdKept DEF Inv, TypeOK, PCs
<1>9. QueueSound'
  <2>1. ~ Queued(found)
    BY <1>4, QueuedProc DEF Queued
  <2> QED
    BY <1>4, <1>6, <1>7, <2>1, UnqueuedState
<1>10. OneRunner'
  BY <1>4, <1>6, <1>7, ProcAssumption DEF OneRunner, Inv, TypeOK
<1>11. KbdWaitqSound'
  BY <1>4, <1>6 DEF KbdWaitqSound, Inv, kbdVars
<1>12. RingSound'
  <2>1. {p \in Proc : state'[p] # "FREE"} = {p \in Proc : state[p] # "FREE"} \cap (Proc \ {found})
    BY <1>4, <1>6
  <2> QED
    BY <1>5, <2>1 DEF RingSound, Inv
<1>13. ResumeSound'
  <2>1. ~ Queued(current_process)'
    BY <1>7, CurrentFacts DEF Queued
  <2> QED
    BY Zenon, <1>1, <1>4, <1>6, <1>7, <2>1, CurrentFacts, ProcAssumption DEF ResumeSound, Inv, TypeOK
<1> QED
  BY <1>8, <1>9, <1>10, <1>11, <1>12, <1>13 DEF Inv

(* Steps that move the current process, and leave the scheduler alone. *)
LEMMA PcInv ==
    ASSUME Inv, pc[current_process] \notin {"kmain", "hlt", "read_yield"},
           NEW l \in PCs \ {"kmain", "hlt"}, pc' = [pc EXCEPT ![current_process] = l],
           UNCHANGED <<queueVars, procVars, global_ticks, sleep_left, kbd_waitq>>,
           KbdTyped'
    PROVE  Inv'
<1>1. UNCHANGED <<current_process, state, priority, ticks_executed, mlfq, parent, process_queue,
                  global_ticks, sleep_left, kbd_waitq>>
  BY DEF queueVars, queueVarsButState, procVars
<1>2. TypeOK'
  BY <1>1 DEF Inv, TypeOK
<1>3. QueueSound' /\ OneRunner' /\ KbdWaitqSound' /\ RingSound'
  <2>1. QueueSound'
    BY <1>1 DEF Inv, QueueSound
  <2>2. OneRunner'
    BY <1>1 DEF Inv, OneRunner
  <2>3. KbdWaitqSound'
    BY <1>1 DEF Inv, KbdWaitqSound
  <2>4. RingSound'
    BY <1>1 DEF Inv, RingSound
  <2> QED
    BY <2>1, <2>2, <2>3, <2>4
<1>4. ResumeSound'
  <2>1. ~ Queued(current_process)'
    BY <1>1, CurrentFacts DEF Queued
  <2> QED
    BY <1>1, <2>1, CurrentFacts DEF Inv, TypeOK, ResumeSound
<1> QED
  BY <1>2, <1>3, <1>4 DEF Inv

(* A process about to sleep marks itself blocked before it yields. *)
LEMMA MarkBlockedInv ==
    ASSUME Inv, pc[current_process] \notin {"kmain", "hlt", "read_yield"},
           state' = [state EXCEPT ![current_process] = "BLOCKED"],
           pc' = [pc EXCEPT ![current_process] = "sleep_yield"],
           sleep_left' \in [Proc -> 0 .. MaxSleep],
           UNCHANGED <<queueVarsButState, procVars, global_ticks, kbdVars>>
    PROVE  Inv'
<1>1. UNCHANGED <<current_process, priority, ticks_executed, mlfq, parent, process_queue,
                  global_ticks, kbd_waitq>>
      /\ KbdTyped'
  BY KbdKept DEF queueVarsButState, procVars
<1>2. /\ current_process \in Proc \ {Idle} /\ state[current_process] # "BLOCKED_KBD"
      /\ state[current_process] # "FREE" /\ ~ Queued(current_process)
  BY CurrentFacts
<1>3. /\ state' \in [Proc -> States] /\ state'[current_process] = "BLOCKED"
      /\ \A p \in Proc \ {current_process} : state'[p] = state[p]
  BY <1>2 DEF Inv, TypeOK, States
<1>4. TypeOK'
  BY <1>1, <1>3 DEF Inv, TypeOK, PCs
<1>5. QueueSound'
  BY <1>1, <1>2, <1>3, UnqueuedState
<1>6. OneRunner' /\ KbdWaitqSound'
  BY <1>1, <1>2, <1>3 DEF Inv, OneRunner, KbdWaitqSound
<1>7. RingSound'
  <2>1. {p \in Proc : state'[p] # "FREE"} = {p \in Proc : state[p] # "FREE"}
    BY <1>2, <1>3
  <2> QED
    BY <1>1, <2>1 DEF Inv, RingSound
<1>8. ResumeSound'
  <2>1. ~ Queued(current_process)'
    BY <1>1, <1>2 DEF Queued
  <2> QED
    BY <1>1, <1>2, <1>3, <2>1, ProcAssumption DEF Inv, TypeOK, ResumeSound
<1> QED
  BY <1>4, <1>5, <1>6, <1>7, <1>8 DEF Inv

(* kbd_buf_pop takes the last byte of a line, and the line with it, or     *)
(* leaves the line shorter.                                                *)
LEMMA PopTyped ==
    ASSUME kbd_buf \in Seq(Nat \ {0}), kbd_buf # <<>>
    PROVE  /\ kbd_buf_pop \in Seq(Nat \ {0})
           /\ Len(kbd_buf_pop) = IF Head(kbd_buf) = 1 THEN Len(kbd_buf) - 1 ELSE Len(kbd_buf)
           /\ Head(kbd_buf) # 1 => kbd_buf_pop # <<>>
<1>1. Len(kbd_buf) \in Nat \ {0} /\ kbd_buf[1] \in Nat \ {0} /\ Head(kbd_buf) = kbd_buf[1]
  OBVIOUS
<1>2. CASE Head(kbd_buf) = 1
  BY <1>1, <1>2 DEF kbd_buf_pop
<1>3. CASE Head(kbd_buf) # 1
  <2>1. kbd_buf[1] - 1 \in Nat \ {0}
    BY <1>1, <1>3
  <2>2. kbd_buf_pop = [kbd_buf EXCEPT ![1] = kbd_buf[1] - 1]
    BY <1>3 DEF kbd_buf_pop
  <2> QED
    BY <1>1, <1>3, <2>1, <2>2
<1> QED
  BY <1>2, <1>3

(* A byte taken leaves the keyboard's variables typed. *)
LEMMA ReadByteTyped ==
    ASSUME Inv, NEW n \in Nat, read_byte(n) PROVE KbdTyped'
<1>1. /\ kbd_buf \in Seq(Nat \ {0}) /\ kbd_buf # <<>> /\ Len(kbd_buf) <= MaxLines
      /\ left \in [Proc -> Nat] /\ cut \in 0 .. MaxLines
  BY DEF read_byte, Inv, TypeOK, KbdTyped
<1>2. kbd_buf' \in Seq(Nat \ {0}) /\ Len(kbd_buf') <= MaxLines
  BY <1>1, PopTyped, BoundAssumption DEF read_byte
<1>3. left' \in [Proc -> Nat]
  <2> DEFINE x == IF Head(kbd_buf) = 1 \/ n <= 1 THEN 0 ELSE n - 1
  <2>1. x \in Nat /\ left' = [left EXCEPT ![current_process] = x]
    BY DEF read_byte
  <2> HIDE DEF x
  <2> QED
    BY <1>1, <2>1
<1>4. cut' \in 0 .. MaxLines
  BY <1>1, BoundAssumption DEF read_byte
<1> QED
  BY <1>2, <1>3, <1>4 DEF KbdTyped

(* keyboard_read parks a process that is in no queue yet. *)
LEMMA ReadInv ==
    ASSUME Inv, pc[current_process] \in {"user", "read"}, NEW n \in Nat, keyboard_read(n)
    PROVE  Inv'
<1>1. UNCHANGED <<current_process, priority, ticks_executed, mlfq, parent, process_queue,
                  global_ticks, sleep_left>>
  BY DEF keyboard_read, queueVarsButState, procVars
<1>2. CASE read_byte(n)
  <2>1. PICK l \in {"user", "read"} : pc' = [pc EXCEPT ![current_process] = l]
    BY <1>2 DEF read_byte
  <2>2. UNCHANGED <<state, kbd_waitq>> /\ KbdTyped'
    BY <1>2, ReadByteTyped DEF read_byte
  <2>3. l \in PCs \ {"kmain", "hlt"}
    BY <2>1 DEF PCs
  <2> QED
    BY Zenon, <1>1, <2>1, <2>2, <2>3, PcInv DEF queueVars, queueVarsButState, procVars
<1>3. CASE read_block(n)
  <2>0. /\ state' = [state EXCEPT ![current_process] = "BLOCKED_KBD"]
        /\ kbd_waitq' = Append(kbd_waitq, current_process)
        /\ pc' = [pc EXCEPT ![current_process] = "read_yield"]
    BY <1>3 DEF read_block
  <2>1. /\ current_process \in Proc \ {Idle} /\ state[current_process] # "BLOCKED_KBD"
        /\ state[current_process] # "FREE" /\ ~ Queued(current_process)
    BY CurrentFacts
  <2>2. /\ state' \in [Proc -> States] /\ state'[current_process] = "BLOCKED_KBD"
        /\ \A p \in Proc \ {current_process} : state'[p] = state[p]
    BY <2>0, <2>1 DEF Inv, TypeOK, States
  <2>3. /\ kbd_waitq' \in Seq(Proc \ {Idle}) /\ IsInjective(kbd_waitq')
        /\ Range(kbd_waitq') = Range(kbd_waitq) \cup {current_process}
    <3>1. /\ kbd_waitq \in Seq(Proc \ {Idle}) /\ IsInjective(kbd_waitq)
          /\ current_process \notin Range(kbd_waitq)
      BY <2>1 DEF Inv, TypeOK, KbdWaitqSound
    <3> QED
      BY <2>0, <2>1, <3>1, AppendRange
  <2>4. TypeOK'
    <3>1. KbdTyped'
      BY <1>3 DEF read_block, Inv, TypeOK, KbdTyped
    <3> QED
      BY <1>1, <2>0, <2>2, <2>3, <3>1 DEF Inv, TypeOK, PCs
  <2>5. QueueSound'
    BY <1>1, <2>1, <2>2, UnqueuedState
  <2>6. OneRunner'
    BY <1>1, <2>1, <2>2 DEF Inv, OneRunner
  <2>7. KbdWaitqSound'
    BY <2>1, <2>2, <2>3 DEF Inv, KbdWaitqSound
  <2>8. RingSound'
    <3>1. {p \in Proc : state'[p] # "FREE"} = {p \in Proc : state[p] # "FREE"}
      BY <2>1, <2>2
    <3> QED
      BY <1>1, <3>1 DEF Inv, RingSound
  <2>9. ResumeSound'
    BY <1>1, <2>0, <2>1, <2>2, ProcAssumption DEF Inv, TypeOK, ResumeSound
  <2> QED
    BY <2>4, <2>5, <2>6, <2>7, <2>8, <2>9 DEF Inv
<1> QED
  BY <1>2, <1>3 DEF keyboard_read

(* on_irq1 moves a reader from the wait queue to a ready queue. *)
LEMMA KeyboardIrqInv == ASSUME Inv, NEW n \in 1 .. MaxBytes, on_irq1(n) PROVE Inv'
<1>1. UNCHANGED <<current_process, priority, ticks_executed, parent, process_queue,
                  global_ticks, pc, sleep_left>>
  BY DEF on_irq1, procVars
<1>2. KbdTyped'
  BY BoundAssumption DEF on_irq1, Inv, TypeOK, KbdTyped
<1>3. CASE UNCHANGED <<kbd_waitq, state, mlfq>>
  <2>1. TypeOK'
    BY <1>1, <1>2, <1>3 DEF Inv, TypeOK
  <2>2. QueueSound' /\ OneRunner' /\ KbdWaitqSound' /\ RingSound' /\ ResumeSound'
    BY <1>1, <1>3, FrameInv
  <2> QED
    BY <2>1, <2>2 DEF Inv
<1>4. CASE /\ kbd_waitq # <<>> /\ kbd_waitq' = Tail(kbd_waitq)
           /\ state' = mlfq_enqueue_state(state, Head(kbd_waitq))
           /\ mlfq' = mlfq_enqueue(mlfq, state, Head(kbd_waitq), priority[Head(kbd_waitq)])
  <2> DEFINE p == Head(kbd_waitq)
             l == priority[p]
  <2>1. kbd_waitq \in Seq(Proc \ {Idle}) /\ IsInjective(kbd_waitq)
    BY DEF Inv, TypeOK, KbdWaitqSound
  <2>2. /\ p \in Range(kbd_waitq) /\ kbd_waitq' \in Seq(Proc \ {Idle})
        /\ Range(kbd_waitq') = Range(kbd_waitq) \ {p} /\ IsInjective(kbd_waitq')
    BY <1>4, <2>1, TailRange
  <2>3. p \in Proc \ {Idle}
    BY <1>4, <2>1
  <2>4. state[p] = "BLOCKED_KBD" /\ l \in Level
    BY <2>2, <2>3 DEF Inv, TypeOK, KbdWaitqSound
  <2>5. /\ state' = [state EXCEPT ![p] = "READY"]
        /\ mlfq' = [mlfq EXCEPT ![l] = Append(mlfq[l], p)]
        /\ priority' = [priority EXCEPT ![p] = l]
    BY <1>1, <1>4, <2>3, <2>4 DEF mlfq_enqueue, mlfq_enqueue_state, Inv, TypeOK
  <2> HIDE DEF p, l
  <2>6. /\ QueuesOf(mlfq', state', priority')
        /\ \A x \in Proc \ {p} : ~ Queued(x) => \A i \in Level : x \notin Range(mlfq'[i])
    BY Zenon, <2>3, <2>4, <2>5, EnqueueSound
  <2>7. /\ state' \in [Proc -> States] /\ state'[p] = "READY"
        /\ \A x \in Proc \ {p} : state'[x] = state[x]
    BY <2>3, <2>5 DEF Inv, TypeOK, States
  <2>8. TypeOK'
    BY <1>1, <1>2, <2>2, <2>6, <2>7 DEF Inv, TypeOK, QueuesOf
  <2>9. QueueSound'
    BY <2>6 DEF QueuesOf, QueueSound
  <2>10. OneRunner'
    BY <1>1, <2>3, <2>4, <2>7 DEF Inv, TypeOK, OneRunner
  <2>11. KbdWaitqSound'
    BY <2>2, <2>4, <2>7 DEF Inv, KbdWaitqSound
  <2>12. RingSound'
    <3>1. {x \in Proc : state'[x] # "FREE"} = {x \in Proc : state[x] # "FREE"}
      BY <2>3, <2>4, <2>7
    <3> QED
      BY <1>1, <3>1 DEF Inv, RingSound
  <2>13. ResumeSound'
    <3>1. Queued(current_process)' => current_process = p \/ Queued(current_process)
      BY Zenon, <1>1, <2>6 DEF Queued, Inv, TypeOK
    <3>2. Queued(current_process)' => pc'[current_process'] = "read_yield"
      BY <1>1, <2>3, <2>4, <3>1 DEF Inv, ResumeSound
    <3> QED
      BY <1>1, <2>3, <2>7, <3>2, ProcAssumption DEF Inv, ResumeSound
  <2> QED
    BY <2>8, <2>9, <2>10, <2>11, <2>12, <2>13 DEF Inv
<1> QED
  BY <1>3, <1>4 DEF on_irq1, WakesReader

(* The boost gathers every queued process, once, at the top level. *)
LEMMA BoostSchedulable ==
    ASSUME Inv, NEW pr,
           pr = [p \in Proc |-> IF p \in Boosted(mlfq) \cup ({current_process} \ {Idle})
                                THEN 0 ELSE priority[p]]
    PROVE  Schedulable(state, mlfq_boost_all(mlfq), pr)
<1> DEFINE n == NUM_QUEUES - 1
           q == mlfq_boost_all(mlfq)
<1>1. n \in Nat /\ Level = 0 .. n /\ 0 \in Level
  BY LevelNat
<1>2. mlfq \in [0 .. n -> Seq(Proc \ {Idle})]
  BY <1>1 DEF Inv, TypeOK
<1>3. \A i \in 0 .. n : IsInjective(mlfq[i])
  BY <1>1 DEF Inv, QueueSound
<1>4. \A i, j \in 0 .. n : i # j => Range(mlfq[i]) \cap Range(mlfq[j]) = {}
  BY <1>1, QueuedProc
<1>5. q = [i \in Level |-> IF i = 0 THEN Join(mlfq, n) ELSE <<>>]
  BY DEF mlfq_boost_all
<1> HIDE DEF n, q
<1>6. /\ Join(mlfq, n) \in Seq(Proc \ {Idle}) /\ IsInjective(Join(mlfq, n))
      /\ Range(Join(mlfq, n)) = UNION {Range(mlfq[i]) : i \in 0 .. n}
  BY Zenon, <1>1, <1>2, <1>3, <1>4, JoinProperties
<1>7. q \in [Level -> Seq(Proc \ {Idle})] /\ q[0] = Join(mlfq, n)
      /\ \A i \in Level : i # 0 => q[i] = <<>>
  BY <1>1, <1>5, <1>6
<1>8. pr \in [Proc -> Level]
  BY <1>1 DEF Inv, TypeOK
<1>9. ASSUME NEW p \in Range(q[0]) PROVE state[p] = "READY" /\ pr[p] = 0
  <2>1. PICK i \in Level : p \in Range(mlfq[i])
    BY <1>1, <1>6, <1>7
  <2>2. p \in Proc \ {Idle} /\ state[p] = "READY" /\ priority[p] = i
    BY <2>1, QueuedProc
  <2>3. i # 0 => p \in Boosted(mlfq)
    BY <2>1 DEF Boosted
  <2> QED
    BY <2>2, <2>3
<1>10. QueuesOf(q, state, pr)
  BY <1>6, <1>7, <1>9, ShortRange DEF QueuesOf
<1>11. Schedulable(state, mlfq, priority)
  BY InvSchedulable
<1> QED
  BY <1>8, <1>10, <1>11 DEF Schedulable, q

(* Demotion concerns the running process, which is in no queue. *)
LEMMA DemoteSchedulable ==
    ASSUME Inv, state[current_process] = "RUNNING"
    PROVE  Schedulable(state, mlfq, [priority EXCEPT ![current_process] = Demoted(@)])
<1> DEFINE pr == [priority EXCEPT ![current_process] = Demoted(@)]
<1>1. current_process \in Proc /\ priority \in [Proc -> Level]
  BY DEF Inv, TypeOK
<1>2. Demoted(priority[current_process]) \in Level
  BY <1>1, BoundAssumption DEF Demoted, Level
<1>3. pr \in [Proc -> Level] /\ \A p \in Proc \ {current_process} : pr[p] = priority[p]
  BY <1>1, <1>2
<1> HIDE DEF pr
<1>4. QueuesOf(mlfq, state, pr)
  <2>1. ASSUME NEW i \in Level, NEW p \in Range(mlfq[i]) PROVE state[p] = "READY" /\ pr[p] = i
    BY <1>3, QueuedProc
  <2> QED
    BY <2>1 DEF QueuesOf, Inv, TypeOK, QueueSound
<1>5. Schedulable(state, mlfq, priority)
  BY InvSchedulable
<1> QED
  BY <1>3, <1>4, <1>5 DEF Schedulable, pr

(* on_irq0, with or without boost and demotion. *)
LEMMA TimerInv == ASSUME Inv, on_irq0 PROVE Inv'
<1>1. /\ sleep_left' \in [Proc -> 0 .. MaxSleep] /\ UNCHANGED kbdVars /\ pc' = pc
  BY BoundAssumption DEF on_irq0, advance_ticks, Inv, TypeOK
<1>2. /\ pc' \in [Proc -> PCs]
      /\ \A p \in Proc : p = Idle <=> pc'[p] \in {"kmain", "hlt"}
      /\ \A p \in Proc : state[p] = "BLOCKED_KBD" => pc'[p] \in {"read", "read_yield"}
  BY <1>1 DEF Inv, TypeOK, ResumeSound
<1>3. CASE tick_boost
  <2> DEFINE reset == Boosted(mlfq) \cup ({current_process} \ {Idle})
             pr == [p \in Proc |-> IF p \in reset THEN 0 ELSE priority[p]]
             q == mlfq_boost_all(mlfq)
  <2>1. Schedulable(state, q, pr)
    BY BoostSchedulable
  <2>2. /\ schedule(state, q, pr) /\ priority' = pr /\ parent' = parent
        /\ ticks_executed' = [p \in Proc |-> IF p \in reset THEN 0 ELSE ticks_executed[p]]
        /\ global_ticks' = 0
    BY <1>3 DEF tick_boost
  <2>3. ticks_executed' \in [Proc -> Nat] /\ global_ticks' \in 0 .. PRIORITY_BOOST_INTERVAL - 1
    BY <2>2, BoundAssumption DEF Inv, TypeOK
  <2> HIDE DEF pr, q
  <2> QED
    BY <1>1, <1>2, <2>1, <2>2, <2>3, ScheduleInv
<1>4. CASE tick_count
  <2>1. /\ UNCHANGED <<current_process, state, priority, mlfq, parent, process_queue, pc,
                       kbd_waitq>>
        /\ KbdTyped'
    BY <1>1, <1>4, KbdKept DEF tick_count, procVars
  <2>2. ticks_executed' \in [Proc -> Nat]
    <3>1. \/ ticks_executed' = ticks_executed
          \/ ticks_executed' = [ticks_executed EXCEPT ![current_process] = @ + 1]
      BY <1>4 DEF tick_count
    <3>2. ticks_executed \in [Proc -> Nat] /\ current_process \in Proc
      BY DEF Inv, TypeOK
    <3> QED
      BY <3>1, <3>2
  <2>3. global_ticks' \in 0 .. PRIORITY_BOOST_INTERVAL - 1
    BY <1>4, BoundAssumption DEF tick_count, Inv, TypeOK
  <2>4. TypeOK'
    BY <1>1, <2>1, <2>2, <2>3 DEF Inv, TypeOK
  <2>5. QueueSound' /\ OneRunner' /\ KbdWaitqSound' /\ RingSound' /\ ResumeSound'
    BY <2>1, FrameInv
  <2> QED
    BY <2>4, <2>5 DEF Inv
<1>5. CASE tick_expire
  <2> DEFINE pr == [priority EXCEPT ![current_process] = Demoted(@)]
  <2>1. Schedulable(state, mlfq, pr)
    BY <1>5, DemoteSchedulable DEF tick_expire
  <2>2. /\ schedule(state, mlfq, pr) /\ priority' = pr /\ parent' = parent
        /\ ticks_executed' = [ticks_executed EXCEPT ![current_process] = 0]
    BY <1>5 DEF tick_expire
  <2>3. ticks_executed' \in [Proc -> Nat]
    BY <2>2 DEF Inv, TypeOK
  <2>4. global_ticks' \in 0 .. PRIORITY_BOOST_INTERVAL - 1
    BY <1>5, BoundAssumption DEF tick_expire, Inv, TypeOK
  <2> HIDE DEF pr
  <2> QED
    BY <1>1, <1>2, <2>1, <2>2, <2>3, <2>4, ScheduleInv
<1> QED
  BY <1>3, <1>4, <1>5 DEF on_irq0

(* SYS_wait, whatever it finds. *)
LEMMA WaitInv ==
    ASSUME Inv, pc[current_process] \in {"user", "wait"}, SYS_wait PROVE Inv'
<1>1. UNCHANGED <<global_ticks, sleep_left, kbdVars>>
  BY DEF SYS_wait
<1>2. CASE wait_reap_child
  BY <1>1, <1>2, WaitReapInv
<1>3. CASE wait_echild
  <2>1. KbdTyped' /\ UNCHANGED kbd_waitq
    BY <1>1, KbdKept
  <2> QED
    BY Zenon, <1>1, <1>3, <2>1, PcInv DEF wait_echild, PCs
<1>4. CASE wait_block
  BY <1>1, <1>4, WaitBlockInv
<1> QED
  BY <1>2, <1>3, <1>4 DEF SYS_wait

(* Every step of kernel code preserves the invariant. *)
LEMMA KernelInv == ASSUME Inv, KernelStep PROVE Inv'
<1>1. CASE kmain_schedule
  <2>1. current_process = Idle /\ state[current_process] # "BLOCKED_KBD"
    BY <1>1, CurrentFacts DEF kmain_schedule
  <2> QED
    BY <1>1, <2>1, YieldInv DEF kmain_schedule, PCs
<1>2. CASE pc[current_process] = "wait" /\ SYS_wait
  BY <1>2, WaitInv
<1>3. CASE sleep_yield
  <2>1. current_process # Idle /\ state[current_process] # "BLOCKED_KBD"
    BY Zenon, <1>3, CurrentFacts DEF sleep_yield
  <2> QED
    BY Zenon, <1>3, <2>1, YieldInv DEF sleep_yield, PCs
<1>4. CASE sleep_test
  <2>1. KbdTyped' /\ UNCHANGED kbd_waitq
    BY <1>4, KbdKept DEF sleep_test
  <2> DEFINE l == IF sleep_left[current_process] > 0 THEN "sleep_block" ELSE "user"
  <2>2. l \in PCs \ {"kmain", "hlt"}
    BY DEF PCs
  <2>3. pc' = [pc EXCEPT ![current_process] = l]
    BY <1>4 DEF sleep_test
  <2> HIDE DEF l
  <2> QED
    BY Zenon, <1>4, <2>1, <2>2, <2>3, PcInv DEF sleep_test
<1>5. CASE sleep_block
  <2>1. sleep_left' \in [Proc -> 0 .. MaxSleep]
    BY <1>5 DEF sleep_block, Inv, TypeOK
  <2> QED
    BY <1>5, <2>1, MarkBlockedInv DEF sleep_block
<1>6. CASE pc[current_process] = "read" /\ keyboard_read(left[current_process])
  <2>1. left[current_process] \in Nat
    BY DEF Inv, TypeOK, KbdTyped
  <2> QED
    BY <1>6, <2>1, ReadInv
<1>7. CASE read_yield
  <2>1. current_process # Idle
    BY <1>7, CurrentFacts DEF read_yield
  <2> QED
    BY <1>7, <2>1, YieldInv DEF read_yield, PCs
<1> QED
  BY <1>1, <1>2, <1>3, <1>4, <1>5, <1>6, <1>7 DEF KernelStep

(* Every system call entry preserves the invariant. *)
LEMMA UserInv == ASSUME Inv, UserStep PROVE Inv'
<1>0. pc[current_process] = "user"
  BY DEF UserStep
<1>1. CASE \E c \in Proc : SYS_fork(c)
  BY <1>1, ForkInv
<1>2. CASE SYS_exit
  BY <1>2, ExitInv
<1>3. CASE SYS_wait
  BY <1>0, <1>3, WaitInv
<1>4. CASE \E d \in 1 .. MaxSleep : SYS_sleep_ms(d)
  <2>1. sleep_left' \in [Proc -> 0 .. MaxSleep]
    BY <1>4, BoundAssumption DEF SYS_sleep_ms, Inv, TypeOK
  <2> QED
    BY <1>0, <1>4, <2>1, MarkBlockedInv DEF SYS_sleep_ms
<1>5. CASE \E n \in 1 .. MaxBytes : keyboard_read(n)
  BY <1>0, <1>5, ReadInv
<1> QED
  BY <1>1, <1>2, <1>3, <1>4, <1>5 DEF UserStep

(* The invariant is inductive. *)
LEMMA NextInv == Inv /\ [Next]_vars => Inv'
<1> SUFFICES ASSUME Inv, [Next]_vars PROVE Inv'
  OBVIOUS
<1>1. CASE Next
  BY <1>1, KernelInv, UserInv, TimerInv, KeyboardIrqInv DEF Next
<1>2. CASE UNCHANGED vars
  <2>1. /\ UNCHANGED <<current_process, state, priority, mlfq, process_queue, pc, kbd_waitq>>
        /\ UNCHANGED <<ticks_executed, parent, global_ticks, sleep_left>> /\ KbdTyped'
    BY <1>2, KbdKept DEF vars, queueVars, queueVarsButState, procVars
  <2>2. TypeOK'
    BY <2>1 DEF Inv, TypeOK
  <2> QED
    BY <2>1, <2>2, FrameInv DEF Inv
<1> QED
  BY <1>1, <1>2
-----------------------------------------------------------------------------
(* The invariant holds in every reachable state. *)
THEOREM Invariance == Spec => []Inv
<1>1. Init => Inv
  BY InitInv
<1>2. Inv /\ [Next]_vars => Inv'
  BY NextInv
<1> QED
  BY <1>1, <1>2, PTL DEF Spec

(* No array of the scheduler is indexed out of bounds, and the idle         *)
(* process is never linked into a ready or wait queue.                      *)
THEOREM TypeCorrect == Spec => []TypeOK
<1>1. Inv => TypeOK
  BY DEF Inv
<1> QED
  BY <1>1, Invariance, PTL

(* mlfq_enqueue never links a process that is already in a queue, so the    *)
(* queues stay well-formed lists of the ready processes of their level.     *)
THEOREM QueuesSound == Spec => []QueueSound
<1>1. Inv => QueueSound
  BY DEF Inv
<1> QED
  BY <1>1, Invariance, PTL

(* schedule() never leaves two processes marked RUNNING, nor executes a     *)
(* dead or freed one.                                                       *)
THEOREM OneRunnerOnly == Spec => []OneRunner
<1>1. Inv => OneRunner
  BY DEF Inv
<1> QED
  BY <1>1, Invariance, PTL

(* The ring that reap_zombies, wait_reap_child and wake_blocked_processes   *)
(* walk holds exactly the allocated processes.                              *)
THEOREM RingIntact == Spec => []RingSound
<1>1. Inv => RingSound
  BY DEF Inv
<1> QED
  BY <1>1, Invariance, PTL

(* The keyboard wait queue holds exactly the processes marked               *)
(* PROCESS_BLOCKED_KBD.                                                     *)
THEOREM WaitqSound == Spec => []KbdWaitqSound
<1>1. Inv => KbdWaitqSound
  BY DEF Inv
<1> QED
  BY <1>1, Invariance, PTL

(* Only a reader between keyboard_read's sti and its schedule() is both     *)
(* running and queued.                                                      *)
THEOREM ResumesSound == Spec => []ResumeSound
<1>1. Inv => ResumeSound
  BY DEF Inv
<1> QED
  BY <1>1, Invariance, PTL
-----------------------------------------------------------------------------
(* A step either ends in schedule(), called with at most the caller's own   *)
(* state changed, or keeps the processor where it is.                       *)
SchedStep ==
    \E st, q : /\ Schedulable(st, q, priority') /\ schedule(st, q, priority')
               /\ \A p \in Proc \ {current_process} : st[p] = state[p]
               /\ st[current_process] # "FREE"

LocalStep ==
    /\ current_process' = current_process
    /\ \A p \in Proc :
          /\ state[p] # "FREE" /\ state'[p] = "FREE" => state[p] = "DEAD"
          /\ state[p] = "DEAD" => state'[p] \in {"DEAD", "FREE"}

(* A step either ends in schedule() or leaves the processor alone. *)
LEMMA StepKinds == ASSUME Inv, Next PROVE SchedStep \/ LocalStep
<1>1. Schedulable(state, mlfq, priority) /\ state[current_process] # "FREE"
  BY InvSchedulable, CurrentFacts
<1>2. ASSUME schedule(state, mlfq, priority), priority' = priority PROVE SchedStep
  BY <1>1, <1>2 DEF SchedStep
<1>3. ASSUME NEW x \in {"BLOCKED", "DEAD"}, priority' = priority,
             schedule([state EXCEPT ![current_process] = x], mlfq, priority),
             pc[current_process] \in {"user", "wait"}
      PROVE  SchedStep
  <2> DEFINE st == [state EXCEPT ![current_process] = x]
  <2>1. Schedulable(st, mlfq, priority)
    BY Zenon, <1>3, CurrentFacts, BlockSchedulable
  <2>2. /\ \A p \in Proc \ {current_process} : st[p] = state[p]
        /\ st[current_process] # "FREE"
    BY CurrentFacts DEF Inv, TypeOK
  <2> HIDE DEF st
  <2>3. schedule(st, mlfq, priority)
    BY <1>3 DEF st
  <2> QED
    BY <1>3, <2>1, <2>2, <2>3 DEF SchedStep
<1>4. ASSUME current_process' = current_process, state' = state PROVE LocalStep
  BY <1>4 DEF LocalStep
<1>5. ASSUME current_process' = current_process, NEW c \in Proc, NEW x,
             state' = [state EXCEPT ![c] = x],
             x = "FREE" => state[c] = "DEAD", state[c] = "DEAD" => x = "FREE"
      PROVE  LocalStep
  <2>1. \A p \in Proc : state'[p] = IF p = c THEN x ELSE state[p]
    BY <1>5 DEF Inv, TypeOK
  <2> QED
    BY <1>5, <2>1 DEF LocalStep
<1>6. CASE kmain_schedule \/ sleep_yield \/ read_yield
  BY <1>2, <1>6 DEF kmain_schedule, sleep_yield, read_yield
<1>7. CASE SYS_wait /\ pc[current_process] \in {"user", "wait"}
  <2>1. CASE wait_reap_child
    <3> DEFINE found == Head(InRingOrder(DeadChildren(current_process)))
    <3>1. found \in Proc /\ state[found] = "DEAD"
      <4> DEFINE dead == DeadChildren(current_process)
      <4>1. dead # {} /\ dead \subseteq Range(process_queue)
        BY <2>1 DEF wait_reap_child, DeadChildren, Children
      <4>2. process_queue \in Seq(Proc) /\ IsInjective(process_queue)
        BY DEF Inv, TypeOK, RingSound
      <4>3. /\ InRingOrder(dead) \in Seq(Proc) /\ IsInjective(InRingOrder(dead))
            /\ Range(InRingOrder(dead)) = Range(process_queue) \cap dead
        BY <4>2, KeepProperties DEF InRingOrder
      <4>4. InRingOrder(dead) # <<>>
        BY <4>1, <4>3, ShortRange
      <4>5. found \in dead /\ found \in Range(process_queue)
        BY <4>3, <4>4, TailRange
      <4> QED
        BY <4>5 DEF DeadChildren, Inv, RingSound
    <3>2. current_process' = current_process /\ state' = [state EXCEPT ![found] = "FREE"]
      BY <2>1 DEF wait_reap_child, queueVarsButState
    <3> HIDE DEF found
    <3> QED
      BY Zenon, <1>5, <3>1, <3>2
  <2>2. CASE wait_echild
    BY <1>4, <2>2 DEF wait_echild, queueVars, queueVarsButState
  <2>3. CASE wait_block
    BY <1>3, <1>7, <2>3 DEF wait_block
  <2> QED
    BY <1>7, <2>1, <2>2, <2>3 DEF SYS_wait
<1>8. CASE sleep_test
  BY <1>4, <1>8 DEF sleep_test, queueVars, queueVarsButState
<1>9. CASE sleep_block \/ \E d \in 1 .. MaxSleep : SYS_sleep_ms(d)
  <2>1. /\ state' = [state EXCEPT ![current_process] = "BLOCKED"]
        /\ current_process' = current_process
    BY <1>9 DEF sleep_block, SYS_sleep_ms, queueVarsButState
  <2> QED
    BY Zenon, <1>5, <2>1, CurrentFacts
<1>10. ASSUME NEW n, keyboard_read(n) PROVE LocalStep
  <2>1. /\ current_process' = current_process
        /\ state' = state \/ state' = [state EXCEPT ![current_process] = "BLOCKED_KBD"]
    BY <1>10 DEF keyboard_read, read_byte, read_block, queueVarsButState
  <2> QED
    BY <1>4, <1>5, <2>1, CurrentFacts
<1>11. ASSUME NEW c \in Proc, SYS_fork(c) PROVE LocalStep
  <2>1. /\ state' = [state EXCEPT ![c] = "READY"] /\ state[c] = "FREE"
        /\ current_process' = current_process
    BY <1>11 DEF SYS_fork, mlfq_enqueue_state
  <2> QED
    BY Zenon, <1>5, <2>1
<1>12. CASE SYS_exit
  BY <1>3, <1>12 DEF SYS_exit, Calls
<1>13. ASSUME NEW n, on_irq1(n) PROVE LocalStep
  <2>1. current_process' = current_process
    BY <1>13 DEF on_irq1
  <2>2. CASE state' = state
    BY <1>4, <2>1, <2>2
  <2>3. CASE WakesReader /\ state' = mlfq_enqueue_state(state, Head(kbd_waitq))
    <3>1. kbd_waitq \in Seq(Proc \ {Idle}) /\ kbd_waitq # <<>> /\ IsInjective(kbd_waitq)
      BY <2>3 DEF WakesReader, Inv, TypeOK, KbdWaitqSound
    <3>2. Head(kbd_waitq) \in Proc /\ Head(kbd_waitq) \in Range(kbd_waitq)
      BY <3>1, TailRange
    <3>3. state[Head(kbd_waitq)] = "BLOCKED_KBD"
      BY <3>2 DEF Inv, KbdWaitqSound
    <3>4. state' = [state EXCEPT ![Head(kbd_waitq)] = "READY"]
      BY <2>3, <3>3 DEF mlfq_enqueue_state
    <3> QED
      BY Zenon, <1>5, <2>1, <3>2, <3>3, <3>4
  <2> QED
    BY <1>13, <2>2, <2>3 DEF on_irq1
<1>14. CASE on_irq0
  <2>1. CASE tick_boost
    <3> DEFINE pr == [p \in Proc |-> IF p \in Boosted(mlfq) \cup ({current_process} \ {Idle})
                                     THEN 0 ELSE priority[p]]
    <3>1. Schedulable(state, mlfq_boost_all(mlfq), pr)
      BY BoostSchedulable
    <3>2. priority' = pr /\ schedule(state, mlfq_boost_all(mlfq), pr)
      BY <2>1 DEF tick_boost
    <3> HIDE DEF pr
    <3> QED
      BY <1>1, <3>1, <3>2 DEF SchedStep
  <2>2. CASE tick_count
    BY <1>4, <2>2 DEF tick_count
  <2>3. CASE tick_expire
    <3> DEFINE pr == [priority EXCEPT ![current_process] = Demoted(@)]
    <3>1. priority' = pr /\ schedule(state, mlfq, pr) /\ state[current_process] = "RUNNING"
      BY <2>3 DEF tick_expire
    <3>2. Schedulable(state, mlfq, pr)
      BY <3>1, DemoteSchedulable
    <3> HIDE DEF pr
    <3> QED
      BY <1>1, <3>1, <3>2 DEF SchedStep
  <2> QED
    BY <1>14, <2>1, <2>2, <2>3 DEF on_irq0
<1> QED
  BY <1>6, <1>7, <1>8, <1>9, <1>10, <1>11, <1>12, <1>13, <1>14 DEF Next, KernelStep, UserStep

(* mlfq_enqueue refuses dead processes, so no queue holds one. *)
LEMMA DeadNotQueued ==
    ASSUME Inv, NEW p \in Proc, state[p] = "DEAD" PROVE ~ Queued(p) /\ p # current_process
  BY QueuedProc, CurrentFacts DEF Queued

(* What one step may do to the states, and to whom it may give the processor. *)
LEMMA StepSafe ==
    ASSUME Inv, Next
    PROVE  /\ \A p \in Proc :
                 /\ state[p] # "FREE" /\ state'[p] = "FREE" =>
                       state[p] = "DEAD" /\ p # current_process /\ ~ Queued(p)
                 /\ state[p] = "DEAD" => state'[p] \in {"DEAD", "FREE"}
           /\ current_process' # current_process =>
                 \A i \in Level :
                    (current_process' = Idle \/ i < priority'[current_process']) =>
                       mlfq'[i] = <<>>
<1>1. CASE LocalStep
  BY <1>1, DeadNotQueued DEF LocalStep
<1>2. CASE SchedStep
  <2>1. PICK st, q : /\ Schedulable(st, q, priority') /\ schedule(st, q, priority')
                     /\ \A p \in Proc \ {current_process} : st[p] = state[p]
                     /\ st[current_process] # "FREE"
    BY <1>2 DEF SchedStep
  <2>2. /\ \A p \in Proc : st[p] # "FREE" /\ state'[p] = "FREE" =>
                              st[p] = "DEAD" /\ p # current_process
        /\ \A p \in Proc : st[p] = "DEAD" => state'[p] \in {"DEAD", "FREE"}
        /\ current_process' # current_process =>
              \A i \in Level :
                 (current_process' = Idle \/ i < priority'[current_process']) => mlfq'[i] = <<>>
    BY Zenon, <2>1, ScheduleSound
  <2>3. ASSUME NEW p \in Proc
        PROVE  /\ state[p] # "FREE" /\ state'[p] = "FREE" => state[p] = "DEAD"
               /\ state[p] = "DEAD" => state'[p] \in {"DEAD", "FREE"}
    BY <2>1, <2>2, DeadNotQueued
  <2> QED
    BY <2>2, <2>3, DeadNotQueued
<1> QED
  BY <1>1, <1>2, StepKinds

(* reap_zombies and wait_reap_child free only what nobody executes on or    *)
(* will schedule, and no dead process is revived.                           *)
THEOREM ReapsSafely == Spec => ReapSafe
<1>1. Inv /\ [Next]_vars =>
        [\A p \in Proc :
            /\ state[p] # "FREE" /\ state'[p] = "FREE" =>
                  state[p] = "DEAD" /\ p # current_process /\ ~ Queued(p)
            /\ state[p] = "DEAD" => state'[p] \in {"DEAD", "FREE"}]_vars
  BY StepSafe
<1> QED
  BY <1>1, Invariance, PTL DEF Spec, ReapSafe

(* Every switch is to a process of the best level that has one.             *)
THEOREM PicksTheHighest == Spec => PicksHighest
<1>1. Inv /\ [Next]_vars =>
        [current_process' # current_process =>
            \A i \in Level :
                (current_process' = Idle \/ i < priority'[current_process']) =>
                    mlfq'[i] = <<>>]_vars
  BY StepSafe
<1> QED
  BY <1>1, Invariance, PTL DEF Spec, PicksHighest
-----------------------------------------------------------------------------
(* p is inside keyboard_read. *)
Reading(p) == pc[p] \in {"read", "read_yield"}

(* A process exits from user code, so none that is dead or free was left   *)
(* inside keyboard_read; and a parked reader is never alone with a line.   *)
ReadInvariant ==
    /\ \A p \in Proc : state[p] \in {"FREE", "DEAD"} => ~ Reading(p)
    /\ NoLostKbdWakeup

(* The readers on their way to the buffer. *)
Awake == {p \in Proc : Reading(p) /\ p \notin Range(kbd_waitq)}

(* What NoLostKbdWakeup says of Awake. *)
AwakeOK ==
    /\ NoLostKbdWakeup <=> (kbd_waitq # <<>> => Len(kbd_buf) <= cut + Cardinality(Awake))
    /\ IsFiniteSet(Awake) /\ Cardinality(Awake) \in Nat

(* NoLostKbdWakeup counts Awake. *)
LEMMA AwakeCounted == AwakeOK
<1>1. Awake = {p \in Proc : /\ pc[p] \in {"read", "read_yield"}
                           /\ p \notin Range(kbd_waitq)}
  BY DEF Awake, Reading
<1>2. IsFiniteSet(Awake)
  BY ProcAssumption, FS_Subset DEF Awake
<1> QED
  BY <1>1, <1>2, FS_CardinalityType DEF NoLostKbdWakeup, AwakeOK

(* The same, after a step. *)
LEMMA AwakeCountedNext == AwakeOK'
  BY AwakeCounted, PTL

(* keyboard_read takes a byte and leaves others in the buffer: it ends a   *)
(* line and its read; it reads on; or its count is up within the line.     *)
TakesByte ==
    /\ UNCHANGED <<kbd_waitq, current_process>>
    /\ \A p \in Proc \ {current_process} : Reading(p)' <=> Reading(p)
    /\ \/ Len(kbd_buf') = Len(kbd_buf) - 1 /\ cut' = cut
       \/ Len(kbd_buf') = Len(kbd_buf) /\ cut' = cut /\ Reading(current_process)'
       \/ Len(kbd_buf') = Len(kbd_buf) /\ cut' \in {cut + 1, MaxLines}

(* What keyboard_read may do. *)
LEMMA ReadSteps ==
    ASSUME Inv, NEW n, keyboard_read(n)
    PROVE  kbd_buf' = <<>> \/ TakesByte
<1>1. /\ pc \in [Proc -> PCs] /\ current_process \in Proc
      /\ kbd_buf \in Seq(Nat \ {0}) /\ cut \in 0 .. MaxLines
  BY DEF Inv, TypeOK, KbdTyped
<1>2. CASE read_block(n)
  BY <1>2 DEF read_block
<1>3. CASE read_byte(n) /\ kbd_buf' # <<>>
  <2>1. /\ kbd_buf # <<>> /\ kbd_buf' = kbd_buf_pop /\ kbd_waitq' = kbd_waitq
        /\ Len(kbd_buf') = IF Head(kbd_buf) = 1 THEN Len(kbd_buf) - 1 ELSE Len(kbd_buf)
    BY <1>1, <1>3, PopTyped DEF read_byte
  <2>2. PICK l : /\ pc' = [pc EXCEPT ![current_process] = l]
                 /\ Head(kbd_buf) # 1 /\ ~ (n <= 1) => l = "read"
    BY <1>3 DEF read_byte
  <2>3. /\ UNCHANGED current_process
        /\ \A p \in Proc \ {current_process} : Reading(p)' <=> Reading(p)
        /\ l = "read" => Reading(current_process)'
    <3>1. pc'[current_process] = l /\ \A p \in Proc \ {current_process} : pc'[p] = pc[p]
      BY <1>1, <2>2
    <3>2. UNCHANGED current_process
      BY DEF keyboard_read, queueVarsButState
    <3> QED
      BY <3>1, <3>2 DEF Reading
  <2>4. CASE Head(kbd_buf) = 1
    BY <1>3, <2>1, <2>3, <2>4 DEF read_byte, TakesByte
  <2>5. CASE Head(kbd_buf) # 1 /\ n <= 1
    <3>1. cut' \in {cut + 1, MaxLines}
      BY <1>1, <1>3, <2>1, <2>5, BoundAssumption DEF read_byte
    <3> QED
      BY <2>1, <2>3, <2>5, <3>1 DEF TakesByte
  <2>6. CASE Head(kbd_buf) # 1 /\ ~ (n <= 1)
    BY <1>3, <2>1, <2>2, <2>3, <2>6 DEF read_byte, TakesByte
  <2> QED
    BY <2>4, <2>5, <2>6
<1> QED
  BY <1>2, <1>3 DEF keyboard_read

(* What a step may do to the readers: nothing; one takes a byte; one finds *)
(* the buffer empty, or empties it; or a line arrives.                     *)
LEMMA ReadingSteps ==
    ASSUME Inv, ReadInvariant, Next
    PROVE  \/ UNCHANGED kbdVars /\ \A p \in Proc : Reading(p)' <=> Reading(p)
           \/ TakesByte
           \/ kbd_buf' = <<>>
           \/ \E n \in 1 .. MaxBytes : on_irq1(n)
<1> DEFINE Same == UNCHANGED kbdVars /\ \A p \in Proc : Reading(p)' <=> Reading(p)
<1>1. pc \in [Proc -> PCs] /\ current_process \in Proc
  BY DEF Inv, TypeOK
<1>2. ASSUME NEW c \in Proc, NEW l, ~ Reading(c), l \notin {"read", "read_yield"},
             pc' = [pc EXCEPT ![c] = l], UNCHANGED kbdVars
      PROVE  Same
  BY <1>1, <1>2 DEF Reading
<1>3. ASSUME UNCHANGED kbdVars, UNCHANGED pc PROVE Same
  BY <1>3 DEF Reading
<1>4. CASE kmain_schedule
  BY <1>1, <1>2, <1>4 DEF kmain_schedule, Reading
<1>5. CASE sleep_yield
  BY <1>1, <1>2, <1>5 DEF sleep_yield, Reading
<1>6. CASE sleep_test
  <2> DEFINE l == IF sleep_left[current_process] > 0 THEN "sleep_block" ELSE "user"
  <2>1. l \notin {"read", "read_yield"} /\ pc' = [pc EXCEPT ![current_process] = l]
    BY <1>6 DEF sleep_test
  <2> HIDE DEF l
  <2> QED
    BY <1>1, <1>2, <1>6, <2>1 DEF sleep_test, Reading
<1>7. CASE sleep_block
  BY <1>1, <1>2, <1>7 DEF sleep_block, Reading
<1>8. CASE read_yield
  <2>1. UNCHANGED kbdVars /\ pc[current_process] = "read_yield"
        /\ pc' = [pc EXCEPT ![current_process] = "read"]
    BY <1>8 DEF read_yield
  <2> QED
    BY <1>1, <2>1 DEF Reading
<1>9. CASE SYS_wait
  <2>1. UNCHANGED kbdVars /\ ~ Reading(current_process)
    BY <1>9 DEF SYS_wait, Calls, Reading
  <2>2. \/ pc' = [pc EXCEPT ![current_process] = "user"]
        \/ pc' = [pc EXCEPT ![current_process] = "wait"]
    BY <1>9 DEF SYS_wait, wait_reap_child, wait_echild, wait_block
  <2>3. CASE pc' = [pc EXCEPT ![current_process] = "user"]
    BY Zenon, <1>1, <1>2, <2>1, <2>3
  <2>4. CASE pc' = [pc EXCEPT ![current_process] = "wait"]
    BY Zenon, <1>1, <1>2, <2>1, <2>4
  <2> QED
    BY <2>2, <2>3, <2>4
<1>10. ASSUME NEW d \in 1 .. MaxSleep, SYS_sleep_ms(d) PROVE Same
  BY <1>1, <1>2, <1>10 DEF SYS_sleep_ms, Calls, Reading
<1>11. ASSUME NEW c \in Proc, SYS_fork(c) PROVE Same
  <2>1. ~ Reading(c)
    BY <1>11 DEF SYS_fork, ReadInvariant
  <2> QED
    BY Zenon, <1>2, <1>11, <2>1 DEF SYS_fork
<1>12. CASE SYS_exit
  BY <1>3, <1>12 DEF SYS_exit
<1>13. CASE on_irq0
  BY <1>3, <1>13 DEF on_irq0
<1>14. ASSUME NEW n, keyboard_read(n) PROVE kbd_buf' = <<>> \/ TakesByte
  BY <1>14, ReadSteps
<1> QED
  BY <1>4, <1>5, <1>6, <1>7, <1>8, <1>9, <1>10, <1>11, <1>12, <1>13, <1>14
     DEF Next, KernelStep, UserStep

(* A step moves nobody's pc but the current process's and a new child's. *)
LEMMA PcSteps ==
    ASSUME Inv, Next, NEW p \in Proc \ {current_process}
    PROVE  pc'[p] = pc[p] \/ pc'[p] = "user"
<1>1. pc \in [Proc -> PCs] /\ current_process \in Proc
  BY DEF Inv, TypeOK
<1>2. ASSUME NEW l, pc' = [pc EXCEPT ![current_process] = l] PROVE pc'[p] = pc[p]
  BY <1>1, <1>2
<1>3. CASE KernelStep
  BY <1>2, <1>3 DEF KernelStep, kmain_schedule, SYS_wait, wait_reap_child, wait_echild, wait_block,
     sleep_yield, sleep_test, sleep_block, keyboard_read, read_byte, read_block, read_yield
<1>4. ASSUME NEW c \in Proc, SYS_fork(c) PROVE pc'[p] = pc[p] \/ pc'[p] = "user"
  BY <1>1, <1>4 DEF SYS_fork
<1>5. CASE UserStep
  BY <1>2, <1>4, <1>5 DEF UserStep, SYS_exit, SYS_wait, wait_reap_child, wait_echild, wait_block,
     SYS_sleep_ms, keyboard_read, read_byte, read_block
<1>6. CASE on_irq0 \/ \E n \in 1 .. MaxBytes : on_irq1(n)
  BY <1>6 DEF on_irq0, on_irq1
<1> QED
  BY <1>3, <1>5, <1>6 DEF Next

(* Only SYS_exit makes a process dead, and it is the caller. *)
LEMMA DeathSteps ==
    ASSUME Inv, Next, NEW p \in Proc, state[p] # "DEAD", state'[p] = "DEAD"
    PROVE  SYS_exit /\ p = current_process
<1>1. state \in [Proc -> States] /\ current_process \in Proc
  BY DEF Inv, TypeOK
<1>2. ASSUME NEW st, NEW q, NEW pr, schedule(st, q, pr) PROVE st[p] = "DEAD"
  BY <1>2 DEF schedule
<1>3. ASSUME NEW st, NEW q, NEW pr, schedule(st, q, pr), st[p] = state[p] PROVE FALSE
  BY <1>2, <1>3
<1>4. ASSUME NEW c, NEW x, x # "DEAD", state' = [state EXCEPT ![c] = x] PROVE FALSE
  BY <1>1, <1>4
<1>5. CASE kmain_schedule \/ sleep_yield \/ read_yield \/ tick_boost \/ tick_expire
  BY Zenon, <1>3, <1>5 DEF kmain_schedule, sleep_yield, read_yield, tick_boost, tick_expire
<1>6. CASE sleep_test \/ tick_count \/ wait_echild
  BY <1>6 DEF sleep_test, tick_count, wait_echild, queueVars
<1>7. CASE sleep_block \/ (\E d \in 1 .. MaxSleep : SYS_sleep_ms(d)) \/ wait_reap_child
  BY <1>4, <1>7 DEF sleep_block, SYS_sleep_ms, wait_reap_child
<1>8. ASSUME NEW n, keyboard_read(n) PROVE FALSE
  BY Zenon, <1>4, <1>8 DEF keyboard_read, read_byte, read_block
<1>9. CASE wait_block
  <2>1. schedule([state EXCEPT ![current_process] = "BLOCKED"], mlfq, priority)
    BY <1>9 DEF wait_block
  <2>2. [state EXCEPT ![current_process] = "BLOCKED"][p] # "DEAD"
    BY <1>1
  <2> QED
    BY Zenon, <1>2, <2>1, <2>2
<1>10. ASSUME NEW c \in Proc, SYS_fork(c) PROVE FALSE
  BY <1>1, <1>10 DEF SYS_fork, mlfq_enqueue_state
<1>11. ASSUME NEW n, on_irq1(n) PROVE FALSE
  BY <1>1, <1>11 DEF on_irq1, mlfq_enqueue_state
<1>12. CASE SYS_exit
  <2>1. [state EXCEPT ![current_process] = "DEAD"][p] = "DEAD"
    BY Zenon, <1>2, <1>12 DEF SYS_exit
  <2> QED
    BY <1>1, <1>12, <2>1
<1> QED
  BY <1>5, <1>6, <1>7, <1>8, <1>9, <1>10, <1>11, <1>12
     DEF Next, KernelStep, UserStep, SYS_wait, on_irq0

(* A step of anybody preserves ReadInvariant. *)
LEMMA ReadInvariantNext ==
    ASSUME Inv, ReadInvariant, Next
    PROVE  ReadInvariant'
<1>1. /\ pc \in [Proc -> PCs] /\ current_process \in Proc
      /\ kbd_waitq \in Seq(Proc \ {Idle}) /\ IsInjective(kbd_waitq)
      /\ kbd_buf \in Seq(Nat \ {0}) /\ Len(kbd_buf) \in Nat /\ cut \in Nat
      /\ Len(kbd_buf) <= MaxLines
  BY BoundAssumption DEF Inv, TypeOK, KbdTyped, KbdWaitqSound
<1>2. AwakeOK /\ AwakeOK' /\ (kbd_waitq # <<>> => Len(kbd_buf) <= cut + Cardinality(Awake))
  BY AwakeCounted, AwakeCountedNext DEF AwakeOK, ReadInvariant
(* Only SYS_exit makes a process dead, and only a dead one is freed. *)
<1>3. ASSUME NEW p \in Proc, state'[p] \in {"FREE", "DEAD"} PROVE ~ Reading(p)'
  <2>1. CASE state[p] \in {"FREE", "DEAD"}
    <3>1. ~ Reading(p) /\ p # current_process
      BY <2>1, CurrentFacts DEF ReadInvariant
    <3> QED
      BY <1>1, <1>3, <3>1, PcSteps DEF Reading
  <2>2. CASE state[p] \notin {"FREE", "DEAD"}
    <3>1. SYS_exit /\ p = current_process
      BY <1>3, <2>2, DeathSteps, StepSafe
    <3> QED
      BY <3>1 DEF SYS_exit, Calls, Reading
  <2> QED
    BY <2>1, <2>2
<1>4. NoLostKbdWakeup'
  <2>1. CASE UNCHANGED kbdVars /\ \A p \in Proc : Reading(p)' <=> Reading(p)
    <3>1. Awake' = Awake /\ UNCHANGED <<kbd_buf, kbd_waitq, cut>>
      BY <2>1 DEF Awake, kbdVars
    <3> QED
      BY <1>2, <3>1 DEF AwakeOK
  <2>2. CASE TakesByte
    <3>0. IsFiniteSet(Awake) /\ Cardinality(Awake) \in Nat
      BY <1>2 DEF AwakeOK
    <3>1. /\ IsFiniteSet(Awake \ {current_process})
          /\ Cardinality(Awake \ {current_process}) =
                IF current_process \in Awake THEN Cardinality(Awake) - 1 ELSE Cardinality(Awake)
      BY <3>0, FS_RemoveElement
    <3>2. Awake \ {current_process} \subseteq Awake'
      BY <2>2 DEF Awake, TakesByte
    <3>3. Cardinality(Awake \ {current_process}) <= Cardinality(Awake')
      BY <1>2, <3>2, FS_Subset, Zenon DEF AwakeOK
    <3>4. Cardinality(Awake \ {current_process}) \in Nat
      BY <3>1, FS_CardinalityType
    <3>5. Cardinality(Awake) \in Nat /\ Cardinality(Awake') \in Nat
      BY <1>2 DEF AwakeOK
    <3>6. ASSUME kbd_waitq # <<>> PROVE Len(kbd_buf') <= cut' + Cardinality(Awake')
      <4>0. Len(kbd_buf) <= cut + Cardinality(Awake)
        BY <1>2, <3>6
      <4>1. CASE Len(kbd_buf') = Len(kbd_buf) - 1 /\ cut' = cut
        BY <1>1, <3>1, <3>3, <3>4, <3>5, <4>0, <4>1
      <4>2. CASE Len(kbd_buf') = Len(kbd_buf) /\ cut' = cut /\ Reading(current_process)'
        <5>1. Awake \subseteq Awake'
          <6> SUFFICES ASSUME NEW p \in Awake PROVE p \in Awake'
            OBVIOUS
          <6>1. p \in Proc /\ Reading(p) /\ p \notin Range(kbd_waitq)' /\ UNCHANGED current_process
            BY <2>2 DEF Awake, TakesByte
          <6>2. Reading(p)'
            <7>1. CASE p = current_process
              BY <4>2, <6>1, <7>1 DEF Reading
            <7>2. CASE p # current_process
              BY <2>2, <6>1, <7>2 DEF TakesByte
            <7> QED
              BY <7>1, <7>2
          <6> QED
            BY <6>1, <6>2 DEF Awake
        <5>2. Cardinality(Awake) <= Cardinality(Awake')
          BY <1>2, <5>1, FS_Subset, Zenon DEF AwakeOK
        <5> QED
          BY <1>1, <3>5, <4>0, <4>2, <5>2
      <4>3. CASE Len(kbd_buf') = Len(kbd_buf) /\ cut' = MaxLines
        BY <1>1, <3>5, <4>3, BoundAssumption
      <4>4. CASE Len(kbd_buf') = Len(kbd_buf) /\ cut' = cut + 1
        BY <1>1, <3>1, <3>3, <3>4, <3>5, <4>0, <4>4
      <4> QED
        BY <2>2, <4>1, <4>2, <4>3, <4>4 DEF TakesByte
    <3> QED
      BY <1>2, <2>2, <3>6 DEF AwakeOK, TakesByte
  <2>3. CASE kbd_buf' = <<>>
    <3>1. cut' \in Nat /\ Cardinality(Awake') \in Nat
      BY <1>2, NextInv, BoundAssumption DEF Inv, TypeOK, KbdTyped, AwakeOK
    <3> QED
      BY <1>2, <2>3, <3>1 DEF AwakeOK
  <2>4. ASSUME NEW n \in 1 .. MaxBytes, on_irq1(n) PROVE NoLostKbdWakeup'
    <3>0. kbd_buf' = Append(kbd_buf, n) /\ cut' = cut /\ pc' = pc
      BY <2>4 DEF on_irq1
    <3>1. CASE kbd_waitq # <<>>
      <4> DEFINE h == Head(kbd_waitq)
      <4>1. kbd_waitq' = Tail(kbd_waitq) /\ pc' = pc /\ Len(kbd_buf') = Len(kbd_buf) + 1
        BY <1>1, <2>4, <3>0, <3>1 DEF on_irq1, WakesReader
      <4>2. h \in Range(kbd_waitq) /\ Range(kbd_waitq') = Range(kbd_waitq) \ {h} /\ h \in Proc
        BY <1>1, <3>1, <4>1, TailRange
      <4>3. Reading(h) /\ h \notin Awake
        BY <4>2 DEF Inv, KbdWaitqSound, ResumeSound, Reading, Awake
      <4> HIDE DEF h
      <4>4. Awake' = Awake \cup {h}
        BY <4>1, <4>2, <4>3 DEF Awake, Reading
      <4>5. Cardinality(Awake') = Cardinality(Awake) + 1
        BY <1>2, <4>3, <4>4, FS_AddElement DEF AwakeOK
      <4> QED
        BY <1>1, <1>2, <3>0, <3>1, <4>1, <4>5 DEF AwakeOK
    <3>2. CASE kbd_waitq = <<>>
      BY <1>2, <2>4, <3>2 DEF on_irq1, WakesReader, AwakeOK
    <3> QED
      BY <3>1, <3>2
  <2> QED
    BY <2>1, <2>2, <2>3, <2>4, ReadingSteps
<1> QED
  BY <1>3, <1>4 DEF ReadInvariant

(* keyboard.c:185: on_irq1 wakes one reader for each line, and             *)
(* keyboard_read tests and registers in one cli ... sti.  For any number   *)
(* of readers that take any number of bytes each, however they interleave: *)
(* while one is parked, the lines buffered exceed the readers on their way *)
(* by at most one for each read that returned in the middle of a line.     *)
THEOREM KbdWakeupsKept == Spec => []NoLostKbdWakeup
<1>1. Init => ReadInvariant
  <2>1. Init => kbd_waitq = <<>> /\ \A p \in Proc : ~ Reading(p)
    BY DEF Init, Reading
  <2> QED
    BY <2>1 DEF ReadInvariant, NoLostKbdWakeup
<1>2. Inv /\ ReadInvariant /\ [Next]_vars => ReadInvariant'
  <2>1. ASSUME ReadInvariant, UNCHANGED vars PROVE ReadInvariant'
    BY <2>1 DEF ReadInvariant, NoLostKbdWakeup, Reading, vars, queueVars, kbdVars
  <2> QED
    BY <2>1, ReadInvariantNext
<1>3. ReadInvariant => NoLostKbdWakeup
  BY DEF ReadInvariant
<1> QED
  BY <1>1, <1>2, <1>3, Invariance, PTL DEF Spec
=============================================================================
