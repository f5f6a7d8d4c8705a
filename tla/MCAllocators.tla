---------------------------- MODULE MCAllocators ----------------------------
(***************************************************************************)
(* Small instances of Pmm and Malloc.                                      *)
(*                                                                         *)
(* Pages of 8 bytes, so that the tables take more than one: nine frames, 2 *)
(* and 3 not usable, 4 to 6 taken by the tables.                           *)
(*                                                                         *)
(* A heap of 14 units that grows four at a time.  Programs ask for what    *)
(* fills two units, for a byte more, and for more than a growth step.      *)
(***************************************************************************)
EXTENDS Allocators

Region(first, frames, usable) == [base |-> first, length |-> frames, usable |-> usable]

GappedMap == <<Region(0, 2, TRUE), Region(2, 2, FALSE), Region(4, 5, TRUE)>>

AskedSizes == {HEADER, HEADER + 1, 5 * HEADER}
=============================================================================
