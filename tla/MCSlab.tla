------------------------------- MODULE MCSlab -------------------------------
(* The two largest caches: three chunks to a slab, and one. *)
EXTENDS Slab

LargeCaches == <<1024, 2048>>
=============================================================================
