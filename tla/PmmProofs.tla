------------------------------ MODULE PmmProofs ------------------------------
(***************************************************************************)
(* The frame allocator for every memory map, as long as no frame is held   *)
(* more often than a uint16_t can count.  IndexSound is the strengthening: *)
(* without it the first loop of pmm_alloc_page need not find the lowest    *)
(* free frame.                                                             *)
(***************************************************************************)
EXTENDS Pmm, SeqLemmas

Inv == PmmTypeOK /\ HeldSurvives /\ CountsHolders /\ NoLeak /\ IndexSound

(* Frames are numbers below the highest address. *)
LEMMA FrameFacts ==
    /\ Frame \in SUBSET Nat /\ 0 \in Frame /\ Frames \in Nat /\ NO_FRAME \notin Frame
    /\ Reserved \subseteq Frame
<1>1. Frames \in Nat \ {0} /\ NO_FRAME \notin Frame
      /\ TableFrames(MemMap, PAGE_SIZE) \subseteq Frame
  BY MemMapAssumption
<1>2. Frame \in SUBSET Nat /\ 0 \in Frame
  BY <1>1 DEF Frame
<1> QED
  BY <1>1, <1>2 DEF Reserved

(* init_pmm leaves every table sound. *)
LEMMA InitInv == PmmInit => Inv
<1> SUFFICES ASSUME PmmInit PROVE Inv
  OBVIOUS
<1>1. PmmTypeOK
  BY FrameFacts, RefAssumption DEF PmmInit, PmmTypeOK
<1>2. HeldSurvives /\ CountsHolders
  BY DEF PmmInit, HeldSurvives, CountsHolders
<1>3. NoLeak
  BY FrameFacts DEF PmmInit, NoLeak
<1>4. IndexSound
  BY DEF PmmInit, IndexSound
<1> QED
  BY <1>1, <1>2, <1>3, <1>4 DEF Inv

(* The search of pmm_alloc_page finds the lowest free frame, if any. *)
LEMMA SearchLowest ==
    ASSUME Inv
    PROVE  /\ Candidates = {} => bitmap = Frame
           /\ Candidates # {} => /\ Lowest(Candidates) \in Frame \ bitmap
                                 /\ \A g \in Frame \ bitmap : Lowest(Candidates) <= g
<1>1. /\ bitmap_index \in Frame /\ bitmap \in SUBSET Frame
      /\ \A f \in 0 .. bitmap_index - 1 : f \in bitmap
  BY DEF Inv, PmmTypeOK, IndexSound
<1>2. FreeFrom(0, bitmap_index) = {}
  BY <1>1 DEF FreeFrom
<1>3. Candidates = FreeFrom(bitmap_index, Frames)
  BY <1>2 DEF Candidates
<1>4. FreeFrom(bitmap_index, Frames) = Frame \ bitmap
  BY <1>1, FrameFacts DEF FreeFrom, Frame
<1>5. Frame \ bitmap \in SUBSET Nat
  BY Zenon, FrameFacts
<1>6. ASSUME Frame \ bitmap # {}
      PROVE  /\ Lowest(Frame \ bitmap) \in Frame \ bitmap
             /\ \A g \in Frame \ bitmap : Lowest(Frame \ bitmap) <= g
  BY Zenon, <1>5, <1>6, LeastNat DEF Lowest
<1> QED
  BY <1>1, <1>3, <1>4, <1>6

(* pmm_alloc_page preserves the invariant. *)
LEMMA AllocInv == ASSUME Inv, pmm_alloc_page PROVE Inv'
<1>1. CASE Candidates = {}
  <2>1. result' = NO_FRAME /\ UNCHANGED <<bitmap, refcounts, bitmap_index, holders>>
    BY <1>1 DEF pmm_alloc_page
  <2> QED
    BY <2>1 DEF Inv, PmmTypeOK, HeldSurvives, CountsHolders, NoLeak, IndexSound
<1>2. CASE Candidates # {}
  <2> DEFINE f == Lowest(Candidates)
  <2>1. f \in Frame \ bitmap /\ \A g \in Frame \ bitmap : f <= g
    BY <1>2, SearchLowest
  <2>2. /\ bitmap' = bitmap \cup {f} /\ bitmap_index' = f /\ result' = f
        /\ refcounts' = [refcounts EXCEPT ![f] = 1]
        /\ holders' = [holders EXCEPT ![f] = 1]
    BY <1>2 DEF pmm_alloc_page
  <2> HIDE DEF f
  <2>3. PmmTypeOK'
    BY <2>1, <2>2, RefAssumption DEF Inv, PmmTypeOK
  <2>4. HeldSurvives' /\ CountsHolders'
    BY <2>1, <2>2 DEF Inv, PmmTypeOK, HeldSurvives, CountsHolders
  <2>5. NoLeak'
    BY <2>1, <2>2, FrameFacts DEF Inv, PmmTypeOK, NoLeak
  <2>6. IndexSound'
    BY <2>1, <2>2, FrameFacts DEF IndexSound, Frame
  <2> QED
    BY <2>3, <2>4, <2>5, <2>6 DEF Inv
<1> QED
  BY <1>1, <1>2

(* pmm_free_page preserves the invariant. *)
LEMMA FreeInv == ASSUME Inv, NEW f \in Frame, pmm_free_page(f) PROVE Inv'
<1>1. /\ f \in bitmap /\ refcounts[f] = holders[f] /\ f \notin Reserved
      /\ holders[f] \in 1 .. MaxRefs /\ refcounts[f] \in 1 .. RefLimit - 1
  BY RefAssumption DEF pmm_free_page, Inv, PmmTypeOK, HeldSurvives, CountsHolders, NoLeak
<1>2. /\ holders' = [holders EXCEPT ![f] = holders[f] - 1] /\ result' = result
      /\ refcounts' = [refcounts EXCEPT ![f] = refcounts[f] - 1]
      /\ bitmap' = IF DropsLast(f) THEN bitmap \ {f} ELSE bitmap
      /\ bitmap_index' = IF DropsLast(f) THEN IndexAfterFree(f) ELSE bitmap_index
  BY <1>1 DEF pmm_free_page
<1>3. PmmTypeOK'
  BY <1>1, <1>2, FrameFacts, RefAssumption DEF Inv, PmmTypeOK, IndexAfterFree
<1>4. \A g \in Frame : /\ g # f => holders'[g] = holders[g] /\ refcounts'[g] = refcounts[g]
                       /\ holders'[f] = holders[f] - 1 /\ refcounts'[f] = refcounts[f] - 1
  BY <1>2 DEF Inv, PmmTypeOK
<1>5. HeldSurvives' /\ CountsHolders'
  BY <1>1, <1>2, <1>4 DEF Inv, HeldSurvives, CountsHolders, DropsLast
<1>6. NoLeak'
  BY <1>1, <1>2, <1>4, FrameFacts DEF Inv, PmmTypeOK, NoLeak, DropsLast
<1>7. IndexSound'
  <2>1. CASE DropsLast(f)
    <3>1. bitmap_index' = IF f < bitmap_index THEN f ELSE bitmap_index
      BY <1>2, <2>1 DEF IndexAfterFree
    <3>2. bitmap' = bitmap \ {f} /\ bitmap_index \in Nat /\ f \in Nat
      BY <1>2, <2>1, FrameFacts DEF Inv, PmmTypeOK
    <3> QED
      BY <3>1, <3>2 DEF Inv, IndexSound
  <2>2. CASE ~ DropsLast(f)
    BY <1>2, <2>2 DEF Inv, IndexSound
  <2> QED
    BY <2>1, <2>2
<1> QED
  BY <1>3, <1>5, <1>6, <1>7 DEF Inv

(* pmm_page_ref_inc preserves it below the limit of the count. *)
LEMMA RefIncInv ==
    ASSUME MaxRefs < RefLimit, Inv, NEW f \in Frame, pmm_page_ref_inc(f) PROVE Inv'
<1>1. /\ holders[f] \in 1 .. MaxRefs - 1 /\ refcounts[f] = holders[f]
      /\ holders' = [holders EXCEPT ![f] = holders[f] + 1]
      /\ refcounts' = [refcounts EXCEPT ![f] = (refcounts[f] + 1) % RefLimit]
      /\ UNCHANGED <<bitmap, bitmap_index, result>>
  BY RefAssumption DEF pmm_page_ref_inc, Inv, PmmTypeOK, CountsHolders
<1>2. (refcounts[f] + 1) % RefLimit = holders[f] + 1
  <2>1. refcounts[f] + 1 \in 0 .. RefLimit - 1
    BY <1>1, RefAssumption
  <2> QED
    BY <1>1, <2>1, RefAssumption
<1>3. PmmTypeOK'
  BY <1>1, <1>2, RefAssumption DEF Inv, PmmTypeOK
<1>4. HeldSurvives' /\ CountsHolders'
  BY <1>1, <1>2 DEF Inv, PmmTypeOK, HeldSurvives, CountsHolders
<1>5. NoLeak' /\ IndexSound'
  BY <1>1, FrameFacts DEF Inv, PmmTypeOK, NoLeak, IndexSound
<1> QED
  BY <1>3, <1>4, <1>5 DEF Inv

(* The invariant is inductive below the limit of the count. *)
LEMMA NextInv == MaxRefs < RefLimit => (Inv /\ [PmmNext]_pmmVars => Inv')
<1> SUFFICES ASSUME MaxRefs < RefLimit, Inv, [PmmNext]_pmmVars PROVE Inv'
  OBVIOUS
<1>1. CASE PmmNext
  BY <1>1, AllocInv, FreeInv, RefIncInv DEF PmmNext
<1>2. CASE UNCHANGED pmmVars
  BY <1>2 DEF pmmVars, Inv, PmmTypeOK, HeldSurvives, CountsHolders, NoLeak, IndexSound
<1> QED
  BY <1>1, <1>2

(* The invariant holds as long as no count reaches its limit. *)
THEOREM Invariance == MaxRefs < RefLimit => (PmmSpec => []Inv)
<1> SUFFICES ASSUME MaxRefs < RefLimit PROVE PmmSpec => []Inv
  OBVIOUS
<1>1. PmmInit => Inv
  BY InitInv
<1>2. Inv /\ [PmmNext]_pmmVars => Inv'
  BY NextInv
<1> QED
  BY <1>1, <1>2, PTL DEF PmmSpec

(* The tables of the allocator keep their types, and bitmap_index stays     *)
(* a frame number, whatever is allocated and released.                      *)
THEOREM TypeCorrect == MaxRefs < RefLimit => (PmmSpec => []PmmTypeOK)
<1>1. Inv => PmmTypeOK
  BY DEF Inv
<1> QED
  BY <1>1, Invariance, PTL

(* A frame somebody holds is never returned to the bitmap: pmm_free_page    *)
(* waits for the last of its holders.                                       *)
THEOREM SharedSurvive == MaxRefs < RefLimit => (PmmSpec => []HeldSurvives)
<1>1. Inv => HeldSurvives
  BY DEF Inv
<1> QED
  BY <1>1, Invariance, PTL

(* pmm_page_refcount is the number of holders.                              *)
THEOREM CountsExact == MaxRefs < RefLimit => (PmmSpec => []CountsHolders)
<1>1. Inv => CountsHolders
  BY DEF Inv
<1> QED
  BY <1>1, Invariance, PTL

(* No frame leaks, and frame 0, the tables and unusable memory are never    *)
(* handed out.                                                              *)
THEOREM LeakFree == MaxRefs < RefLimit => (PmmSpec => []NoLeak)
<1>1. Inv => NoLeak
  BY DEF Inv
<1> QED
  BY <1>1, Invariance, PTL

(* pmm_alloc_page returns the lowest free frame, and NULL only when there   *)
(* is none.                                                                 *)
THEOREM AllocatesLowest == MaxRefs < RefLimit => (PmmSpec => AllocLowest)
<1> DEFINE Step == /\ \A f \in bitmap' \ bitmap :
                        holders[f] = 0 /\ result' = f /\ \A g \in Frame \ bitmap : f <= g
                   /\ result' = NO_FRAME /\ result # NO_FRAME => bitmap = Frame
<1>1. ASSUME Inv, pmm_alloc_page PROVE Step
  <2>1. CASE Candidates = {}
    BY <1>1, <2>1, SearchLowest DEF pmm_alloc_page
  <2>2. CASE Candidates # {}
    <3> DEFINE f == Lowest(Candidates)
    <3>1. f \in Frame \ bitmap /\ \A g \in Frame \ bitmap : f <= g
      BY <1>1, <2>2, SearchLowest
    <3>2. bitmap' = bitmap \cup {f} /\ result' = f
      BY <1>1, <2>2 DEF pmm_alloc_page
    <3> HIDE DEF f
    <3>3. holders[f] = 0 /\ result' # NO_FRAME
      BY <1>1, <3>1, <3>2, FrameFacts, RefAssumption DEF Inv, PmmTypeOK, HeldSurvives
    <3> QED
      BY <3>1, <3>2, <3>3
  <2> QED
    BY <2>1, <2>2
<1>2. ASSUME NEW f \in Frame, pmm_free_page(f) \/ pmm_page_ref_inc(f) PROVE Step
  <2>1. bitmap' \subseteq bitmap /\ result' = result
    BY <1>2 DEF pmm_free_page, pmm_page_ref_inc
  <2> QED
    BY <2>1
<1> HIDE DEF Step
<1>3. Inv /\ [PmmNext]_pmmVars => [Step]_pmmVars
  BY <1>1, <1>2 DEF PmmNext
<1> QED
  BY <1>3, Invariance, PTL DEF PmmSpec, AllocLowest, Step
(* The byte of the bitmap that holds the bit of the last frame.             *)
LastByte(frames) == (frames - 1) \div 8

(* pmm.c:129: bitmap and reference counts are placed "so they never        *)
(* overlap".  The bit of the last frame lies outside the bitmap, in the     *)
(* first reference count, on exactly the machines whose frames fill a       *)
(* multiple of 64 and a part of a byte more; on all others it lies within.  *)
THEOREM BitmapFits ==
    ASSUME NEW frames \in Nat \ {0}
    PROVE  LastByte(frames) < bitmap_size(frames)
               <=> ~ (frames % 8 # 0 /\ (frames \div 8) % 8 = 0)
<1> DEFINE q == frames \div 8
           r == frames % 8
<1>1. q \in Nat /\ r \in 0 .. 7 /\ frames = 8 * q + r
  OBVIOUS
<1>2. LastByte(frames) = IF r = 0 THEN q - 1 ELSE q
  BY <1>1 DEF LastByte
<1>3. bitmap_size(frames) = IF q % 8 # 0 THEN q + 1 ELSE q
  BY DEF bitmap_size
<1> HIDE DEF q, r
<1>4. LastByte(frames) < bitmap_size(frames) <=> ~ (r # 0 /\ q % 8 = 0)
  BY <1>1, <1>2, <1>3
<1> QED
  BY <1>4 DEF q, r

(* Even then the two tables stay within what init_pmm reserves for them:    *)
(* the byte that is short is one of refcounts, not somebody else's memory.  *)
THEOREM TablesHoldBitmap ==
    ASSUME NEW frames \in Nat \ {0} PROVE LastByte(frames) < TableBytes(frames)
<1>1. LastByte(frames) \in Nat /\ LastByte(frames) < frames
  BY DEF LastByte
<1>2. bitmap_size(frames) \in Nat
  BY DEF bitmap_size
<1> QED
  BY <1>1, <1>2 DEF TableBytes, refcounts_size
=============================================================================
