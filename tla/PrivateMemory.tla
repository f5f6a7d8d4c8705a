---------------------------- MODULE PrivateMemory ----------------------------
(***************************************************************************)
(* What the virtual memory manager promises to programs: every process has *)
(* a memory of its own, fork() copies it, and a store is seen by nobody    *)
(* but those who share the page (threads of the same address space and     *)
(* relatives of a MAP_SHARED page).                                        *)
(***************************************************************************)
EXTENDS FiniteSets

CONSTANTS Proc, Page, Val, Zero, NULL

VARIABLES
    view,  \* view[p][v]: what process p reads at page v, NULL if unmapped
    kin    \* kin[p][v]: the processes that share p's page v, p included

vars == <<view, kin>>

Empty(p) == \A v \in Page : view[p][v] = NULL

Init ==
    /\ view \in [Proc -> [Page -> Val \cup {NULL}]]
    /\ kin = [p \in Proc |-> [v \in Page |-> IF view[p][v] = NULL THEN {} ELSE {p}]]

Write(p, v, x) ==
    /\ view[p][v] # NULL
    /\ view' = [q \in Proc |-> IF q \in kin[p][v] THEN [view[q] EXCEPT ![v] = x] ELSE view[q]]
    /\ UNCHANGED kin

(* Page v of every process is as it was. *)
Keeps(v) == \A q \in Proc : view'[q][v] = view[q][v] /\ kin'[q][v] = kin[q][v]

(* c gets a copy of p's page v, or comes to share it. *)
Copies(p, c, v) ==
    \A q \in Proc :
        /\ view'[q][v] = IF q = c THEN view[p][v] ELSE view[q][v]
        /\ kin'[q][v] = IF q = c THEN {c} ELSE kin[q][v]

Shares(p, c, v) ==
    \A q \in Proc :
        /\ view'[q][v] = IF q = c THEN view[p][v] ELSE view[q][v]
        /\ kin'[q][v] = IF q \in kin[p][v] \cup {c} THEN kin[p][v] \cup {c} ELSE kin[q][v]

Fork(p, c) ==
    /\ Empty(c) /\ ~ Empty(p)
    /\ \A v \in Page : IF view[p][v] = NULL THEN Keeps(v)
                       ELSE Copies(p, c, v) \/ Shares(p, c, v)

(* Page v of the processes G is mapped afresh, or unmapped if x is NULL. *)
Maps(G, v, x) ==
    \A q \in Proc :
        /\ view'[q][v] = IF q \in G THEN x ELSE view[q][v]
        /\ kin'[q][v] = IF q \notin G THEN kin[q][v] \ G ELSE IF x = NULL THEN {} ELSE G

(* Processes that share all they have map zeroed pages, or unmap some. *)
Remap(G) ==
    /\ \A q \in G, v \in Page : kin[q][v] = {} \/ G \subseteq kin[q][v]
    /\ \A v \in Page : Keeps(v) \/ Maps(G, v, NULL) \/ Maps(G, v, Zero)

Next ==
    \/ \E p \in Proc, v \in Page, x \in Val : Write(p, v, x)
    \/ \E p, c \in Proc : Fork(p, c)
    \/ \E G \in SUBSET Proc : Remap(G)

Spec == Init /\ [][Next]_vars
=============================================================================
