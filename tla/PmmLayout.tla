------------------------------ MODULE PmmLayout ------------------------------
(* How init_pmm (pmm.c) lays out its two tables.  Bytes and page frames;   *)
(* a memory map is a sequence of [base, length, usable], in frames.        *)
EXTENDS Integers, Sequences

Usable(memmap) == {i \in DOMAIN memmap : memmap[i].usable}

(* highest_address, in frames. *)
highest_address(memmap) ==
    LET tops == {memmap[i].base + memmap[i].length : i \in Usable(memmap)}
    IN  CHOOSE t \in tops : \A u \in tops : u <= t

(* The number of whole bytes, one more unless that is a multiple of 8. *)
bitmap_size(frames) ==
    LET bytes == frames \div 8
    IN  IF bytes % 8 # 0 THEN bytes + 1 ELSE bytes

refcounts_size(frames) == 2 * frames

TableBytes(frames) == bitmap_size(frames) + refcounts_size(frames)

(* The first usable region that holds both tables. *)
Fitting(memmap, PAGE_SIZE) ==
    {i \in Usable(memmap) :
        memmap[i].length * PAGE_SIZE >= TableBytes(highest_address(memmap))}

TableFrames(memmap, PAGE_SIZE) ==
    LET fit   == Fitting(memmap, PAGE_SIZE)
        entry == memmap[CHOOSE i \in fit : \A j \in fit : i <= j]
        bytes == TableBytes(highest_address(memmap))
    IN  {entry.base + b \div PAGE_SIZE : b \in 0 .. bytes - 1}

UsableFrames(memmap) ==
    UNION {memmap[i].base .. memmap[i].base + memmap[i].length - 1 : i \in Usable(memmap)}
=============================================================================
