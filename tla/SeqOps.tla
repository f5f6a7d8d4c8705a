------------------------------- MODULE SeqOps -------------------------------
(* Operators on sequences that the kernel's linked lists need.  They are   *)
(* defined without RECURSIVE so that SeqLemmas can reason about them.      *)
EXTENDS Integers, FiniteSets, Sequences, Functions

(* The member of rank n of a finite set of naturals, smallest first. *)
Nth(I, n) == CHOOSE k \in I : Cardinality({j \in I : j <= k}) = n

(* The elements of s that belong to P, in the order of s. *)
Keep(s, P) ==
    LET I == {k \in DOMAIN s : s[k] \in P}
    IN  [n \in 1 .. Cardinality(I) |-> s[Nth(I, n)]]

(* The sequences q[0], ..., q[n], one after the other. *)
Join(q, n) ==
    LET upto[i \in 0 .. n] == IF i = 0 THEN q[0] ELSE upto[i - 1] \o q[i]
    IN  upto[n]
=============================================================================
