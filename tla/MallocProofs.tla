---------------------------- MODULE MallocProofs ----------------------------
(***************************************************************************)
(* Proofs about the user-space heap, for every heap, header and batch size *)
(* and every sequence of calls: the blocks tile the heap, the free list is *)
(* one circle in address order, no two free blocks touch, and the blocks   *)
(* handed out never overlap.                                               *)
(***************************************************************************)
EXTENDS Malloc, FiniteSetTheorems, TLAPS

(* A free list: one circle through base, in address order. *)
ListOK(n) ==
    /\ base \in DOMAIN n /\ DOMAIN n \subseteq Nat
    /\ \A a \in DOMAIN n :
          /\ n[a] \in DOMAIN n /\ (n[a] = base \/ n[a] > a)
          /\ \A c \in DOMAIN n : a < c => c >= n[a] /\ n[a] # base

(* Blocks that tile the heap up to top. *)
Tiles(s, top) ==
    /\ top \in HeapStart .. HeapEnd
    /\ \A a \in DOMAIN s \ {base} :
          a \in HeapStart .. HeapEnd /\ s[a] \in Nat \ {0} /\ a + s[a] <= top
    /\ \A a, b \in DOMAIN s \ {base} : a < b => a + s[a] <= b
    /\ \A u \in HeapStart .. top - 1 : \E a \in DOMAIN s \ {base} : a <= u /\ u < a + s[a]

(* The block that a pointer points into. *)
At(b) == b.addr \div HEADER - 1

(* What the caller is in the middle of. *)
SearchInv ==
    /\ growing \in BOOLEAN
    /\ pc = "user" => prev = NULL /\ cur = NULL /\ asked = 0 /\ block = NULL /\ growing = FALSE
    /\ pc = "malloc" =>
          /\ prev \in DOMAIN next /\ cur = next[prev]
          /\ asked \in Sizes \ {0} /\ block = NULL /\ growing = FALSE
    /\ pc = "free" =>
          /\ cur \in DOMAIN next /\ block \in DOMAIN size \ DOMAIN next
          /\ IF growing THEN prev \in DOMAIN next /\ asked \in Sizes \ {0}
             ELSE prev = NULL /\ asked = 0

(* The blocks in use are blocks of the heap that are not free, as large as *)
(* malloc made them.                                                       *)
HeldInv ==
    \A b \in held :
        /\ b \in [addr : Nat, size : Sizes]
        /\ At(b) \in DOMAIN size \ DOMAIN next /\ At(b) # block
        /\ b.addr = (At(b) + 1) * HEADER /\ size[At(b)] = Units(b.size)
        /\ \A c \in held : c.addr = b.addr => c = b

(* The inductive invariant: before the first call there is no list. *)
MallocInv ==
    /\ Tiles(size, brk) /\ Coalesced /\ SearchInv /\ HeldInv
    /\ DOMAIN next \subseteq DOMAIN size
    /\ pc \in {"user", "malloc", "free"}
    /\ \/ /\ free_list = NULL /\ DOMAIN next = {} /\ DOMAIN size = {}
          /\ pc = "user" /\ brk = HeapStart /\ held = {}
       \/ /\ free_list \in DOMAIN next /\ ListOK(next) /\ size[base] = 0
-----------------------------------------------------------------------------
(* Entering a block between a free block and its successor. *)
Inserted(n, m, c, b) ==
    /\ DOMAIN m = DOMAIN n \cup {b} /\ m[b] = n[c] /\ m[c] = b
    /\ \A a \in DOMAIN n \ {c} : m[a] = n[a]

(* Taking the successor of a free block out. *)
Deleted(n, m, c) ==
    /\ DOMAIN m = DOMAIN n \ {n[c]} /\ m[c] = n[n[c]]
    /\ \A a \in DOMAIN m \ {c} : m[a] = n[a]

(* free's search ends at the one place where the block belongs. *)
LEMMA BetweenPlace ==
    ASSUME NEW n, ListOK(n), NEW c \in DOMAIN n, NEW b \in Nat \ DOMAIN n, Between(c, b, n[c])
    PROVE  /\ c < b
           /\ n[c] = base \/ b < n[c]
           /\ \A a \in DOMAIN n : a <= c \/ (n[c] # base /\ b < n[c] /\ n[c] <= a)
BY DEF ListOK, Between, base

(* A list stays one ordered circle when a block enters where it belongs. *)
LEMMA InsertList ==
    ASSUME NEW n, ListOK(n), NEW c \in DOMAIN n, NEW b \in Nat \ DOMAIN n, Between(c, b, n[c]),
           NEW m, Inserted(n, m, c, b)
    PROVE  ListOK(m)
<1>1. /\ c < b /\ (n[c] = base \/ b < n[c])
      /\ \A a \in DOMAIN n : a <= c \/ (n[c] # base /\ b < n[c] /\ n[c] <= a)
  BY BetweenPlace
<1>2. base \in DOMAIN m /\ DOMAIN m \subseteq Nat
  BY DEF ListOK, Inserted
<1>3. ASSUME NEW a \in DOMAIN m
      PROVE  /\ m[a] \in DOMAIN m /\ (m[a] = base \/ m[a] > a)
             /\ \A d \in DOMAIN m : a < d => d >= m[a] /\ m[a] # base
  <2>1. CASE a = b
    BY <1>1, <2>1 DEF ListOK, Inserted, base
  <2>2. CASE a = c
    BY <1>1, <2>2 DEF ListOK, Inserted, base
  <2>3. CASE a \in DOMAIN n \ {c}
    BY <1>1, <2>3 DEF ListOK, Inserted, base
  <2>4. QED
    BY <2>1, <2>2, <2>3 DEF Inserted
<1>4. QED
  BY <1>2, <1>3 DEF ListOK

(* And when a block other than base leaves it. *)
LEMMA DeleteList ==
    ASSUME NEW n, ListOK(n), NEW c \in DOMAIN n, n[c] # base, NEW m, Deleted(n, m, c)
    PROVE  ListOK(m)
<1>1. c # n[c] /\ c < n[c]
  BY DEF ListOK, base
<1>2. base \in DOMAIN m /\ DOMAIN m \subseteq Nat
  BY DEF ListOK, Deleted
<1>3. ASSUME NEW a \in DOMAIN m
      PROVE  /\ m[a] \in DOMAIN m /\ (m[a] = base \/ m[a] > a)
             /\ \A d \in DOMAIN m : a < d => d >= m[a] /\ m[a] # base
  <2>1. CASE a = c
    BY <1>1, <2>1 DEF ListOK, Deleted, base
  <2>2. CASE a # c
    BY <1>1, <2>2 DEF ListOK, Deleted, base
  <2>3. QED
    BY <2>1, <2>2
<1>4. QED
  BY <1>2, <1>3 DEF ListOK

(* Two blocks that meet made one. *)
Merged(s, t, x, y) ==
    /\ DOMAIN t = DOMAIN s \ {y} /\ t[x] = s[x] + s[y]
    /\ \A a \in DOMAIN t \ {x} : t[a] = s[a]

(* The heap stays tiled when two blocks that meet are made one. *)
LEMMA MergeTiles ==
    ASSUME NEW s, NEW top, Tiles(s, top), NEW x \in DOMAIN s \ {base}, NEW y \in DOMAIN s \ {base},
           x + s[x] = y, NEW t, Merged(s, t, x, y)
    PROVE  Tiles(t, top)
<1> USE MallocAssumption
<1>1. x < y /\ x # y /\ x \in DOMAIN t \ {base}
  BY DEF Tiles, Merged
<1>2. \A a \in DOMAIN t \ {base} :
          a \in HeapStart .. HeapEnd /\ t[a] \in Nat \ {0} /\ a + t[a] <= top
  BY <1>1 DEF Tiles, Merged
<1>3. ASSUME NEW a \in DOMAIN t \ {base}, NEW b \in DOMAIN t \ {base}, a < b
      PROVE  a + t[a] <= b
  <2>1. a + s[a] <= b /\ a \in Nat /\ b \in Nat /\ s[a] \in Nat /\ s[y] \in Nat /\ s[x] \in Nat
    BY <1>3 DEF Tiles, Merged
  <2>2. CASE a = x
    <3>0. b # y
      BY DEF Merged
    <3>1. y < b
      BY <2>1, <2>2, <3>0
    <3>2. y + s[y] <= b
      BY <3>1 DEF Tiles, Merged
    <3>3. t[a] = s[x] + s[y]
      BY <2>2 DEF Merged
    <3>4. QED
      BY <2>1, <2>2, <3>2, <3>3
  <2>3. CASE a # x
    BY <2>1, <2>3 DEF Merged
  <2>4. QED
    BY <2>2, <2>3
<1>4. ASSUME NEW u \in HeapStart .. top - 1
      PROVE  \E a \in DOMAIN t \ {base} : a <= u /\ u < a + t[a]
  <2>1. PICK a \in DOMAIN s \ {base} : a <= u /\ u < a + s[a]
    BY DEF Tiles
  <2>2. s[x] \in Nat /\ s[y] \in Nat /\ x \in Nat /\ y \in Nat /\ top \in Nat /\ u \in Nat
    BY DEF Tiles
  <2>3. CASE a = x \/ a = y
    <3>1. x <= u /\ u < x + t[x]
      BY <1>1, <2>1, <2>2, <2>3 DEF Merged
    <3>2. QED
      BY <1>1, <3>1
  <2>4. CASE a # x /\ a # y
    BY <2>1, <2>4 DEF Merged
  <2>5. QED
    BY <2>3, <2>4
<1>5. QED
  BY <1>2, <1>3, <1>4 DEF Tiles

(* The tail of a block made a block of its own. *)
Cut(s, t, x, a, u) ==
    /\ DOMAIN t = DOMAIN s \cup {a} /\ t[x] = s[x] - u /\ t[a] = u
    /\ \A b \in DOMAIN s \ {x} : t[b] = s[b]

(* The heap stays tiled when a tail is cut off, and the tail is new. *)
LEMMA CutTiles ==
    ASSUME NEW s, NEW top, Tiles(s, top), NEW x \in DOMAIN s \ {base},
           NEW u \in Nat \ {0}, u < s[x], NEW a, a = x + s[x] - u, NEW t, Cut(s, t, x, a, u)
    PROVE  /\ Tiles(t, top) /\ a \notin DOMAIN s /\ a \in Nat /\ a # base
<1> USE MallocAssumption
<1>0. x \in Nat /\ s[x] \in Nat /\ top \in Nat /\ x + s[x] <= top /\ x >= HeapStart
  BY DEF Tiles
<1>1. a \in HeapStart .. HeapEnd /\ a # base /\ x < a /\ a + u = x + s[x] /\ a <= top
  BY <1>0 DEF base, Tiles
<1>2. a \notin DOMAIN s
  <2>1. SUFFICES ASSUME a \in DOMAIN s \ {base}
                 PROVE  FALSE
    BY <1>1
  <2>2. x + s[x] <= a
    BY <1>1, <2>1 DEF Tiles
  <2>3. QED
    BY <1>0, <1>1, <2>2
<1>3. x \in DOMAIN t \ {base} /\ a \in DOMAIN t \ {base} /\ t[x] \in Nat \ {0} /\ x + t[x] = a
  BY <1>0, <1>1 DEF Cut
<1>4. \A b \in DOMAIN t \ {base} :
          b \in HeapStart .. HeapEnd /\ t[b] \in Nat \ {0} /\ b + t[b] <= top
  BY <1>0, <1>1, <1>3 DEF Tiles, Cut
<1>5. ASSUME NEW b \in DOMAIN t \ {base}, NEW c \in DOMAIN t \ {base}, b < c
      PROVE  b + t[b] <= c
  <2>0. b \in Nat /\ c \in Nat /\ t[b] \in Nat
    BY <1>4
  <2>1. CASE b = x /\ c = a
    BY <1>3, <2>0, <2>1
  <2>2. CASE b = x /\ c # a
    <3>1. c \in DOMAIN s \ {base} /\ x + s[x] <= c
      BY <1>5, <2>2 DEF Tiles, Cut
    <3>2. QED
      BY <1>0, <1>1, <1>3, <2>0, <2>2, <3>1
  <2>3. CASE b = a
    <3>1. c \in DOMAIN s \ {base} /\ x < c
      BY <1>0, <1>1, <1>5, <2>0, <2>3 DEF Cut
    <3>2. x + s[x] <= c
      BY <3>1 DEF Tiles
    <3>3. QED
      BY <1>0, <1>1, <2>0, <2>3, <3>2 DEF Cut
  <2>4. CASE b # x /\ b # a /\ c = a
    <3>1. b \in DOMAIN s \ {base} /\ t[b] = s[b] /\ b \in Nat /\ s[b] \in Nat
      BY <2>4, <2>0 DEF Cut
    <3>2. CASE b < x
      <4>1. b + s[b] <= x
        BY <3>1, <3>2 DEF Tiles
      <4>2. QED
        BY <1>0, <1>1, <2>4, <3>1, <4>1
    <3>3. CASE x < b
      <4>1. x + s[x] <= b
        BY <3>1, <3>3 DEF Tiles
      <4>2. QED
        BY <1>0, <1>1, <1>5, <2>0, <2>4, <4>1
    <3>4. QED
      BY <1>0, <2>0, <2>4, <3>2, <3>3
  <2>5. CASE b # x /\ b # a /\ c # a
    BY <1>5, <2>5 DEF Tiles, Cut
  <2>6. QED
    BY <2>1, <2>2, <2>3, <2>4, <2>5
<1>6. ASSUME NEW v \in HeapStart .. top - 1
      PROVE  \E b \in DOMAIN t \ {base} : b <= v /\ v < b + t[b]
  <2>1. PICK b \in DOMAIN s \ {base} : b <= v /\ v < b + s[b]
    BY DEF Tiles
  <2>2. CASE b = x
    <3>1. v \in Nat /\ t[a] = u
      BY <1>0 DEF Cut
    <3>2. (x <= v /\ v < x + t[x]) \/ (a <= v /\ v < a + t[a])
      BY <1>0, <1>1, <1>3, <2>1, <2>2, <3>1
    <3>3. QED
      BY <1>3, <3>2
  <2>3. CASE b # x
    BY <2>1, <2>3 DEF Cut
  <2>4. QED
    BY <2>2, <2>3
<1>7. QED
  BY <1>1, <1>2, <1>4, <1>5, <1>6 DEF Tiles

(* The heap stays tiled when it grows by a block. *)
LEMMA GrowTiles ==
    ASSUME NEW s, NEW top, Tiles(s, top), NEW n \in Nat \ {0}, top + n <= HeapEnd
    PROVE  Tiles(Update(s, top, n), top + n) /\ top \notin DOMAIN s /\ top # base /\ top \in Nat
<1> USE MallocAssumption
<1> DEFINE t == Update(s, top, n)
<1>0. top \in HeapStart .. HeapEnd /\ top \in Nat /\ top # base
  BY DEF Tiles, base
<1>1. top \notin DOMAIN s
  BY <1>0 DEF Tiles
<1>2. DOMAIN t = DOMAIN s \cup {top} /\ t[top] = n /\ \A a \in DOMAIN s : t[a] = s[a]
  BY <1>1 DEF Update
<1> HIDE DEF t
<1>3. \A b \in DOMAIN t \ {base} :
          b \in HeapStart .. HeapEnd /\ t[b] \in Nat \ {0} /\ b + t[b] <= top + n
  BY <1>0, <1>2 DEF Tiles
<1>4. \A a, b \in DOMAIN t \ {base} : a < b => a + t[a] <= b
  BY <1>0, <1>2 DEF Tiles
<1>5. ASSUME NEW v \in HeapStart .. (top + n) - 1
      PROVE  \E b \in DOMAIN t \ {base} : b <= v /\ v < b + t[b]
  <2>1. CASE v < top
    <3>1. v \in HeapStart .. top - 1
      BY <1>0, <2>1
    <3>2. QED
      BY <1>2, <3>1 DEF Tiles
  <2>2. CASE top <= v
    BY <1>0, <1>2, <2>2
  <2>3. QED
    BY <1>0, <2>1, <2>2
<1>6. QED
  BY <1>0, <1>1, <1>3, <1>4, <1>5 DEF Tiles, t
-----------------------------------------------------------------------------
(* No two free blocks touch. *)
Sparse(n, s) == \A a \in DOMAIN n \ {base} : a + s[a] \notin DOMAIN n \ {base}

(* A free list over the blocks of a tiled heap. *)
FreeOK(n, s, top) ==
    /\ ListOK(n) /\ Tiles(s, top) /\ DOMAIN n \subseteq DOMAIN s /\ s[base] = 0

(* The blocks in use, but for b, stay what they are. *)
UsedKept(n, s, b, m, t) ==
    \A a \in (DOMAIN s \ DOMAIN n) \ {b} : a \in DOMAIN t \ DOMAIN m /\ t[a] = s[a]

(* Once a block is entered and merged with the one after it, the only free *)
(* blocks that may still touch are the one before it and itself.           *)
AfterOK(n, s, top, c, b, m, t) ==
    /\ FreeOK(m, t, top) /\ UsedKept(n, s, b, m, t)
    /\ c \in DOMAIN m /\ m[c] = b /\ b # base /\ c < b
    /\ \A a \in DOMAIN m \ {base, c} : a + t[a] \notin DOMAIN m \ {base}

(* The list of that moment, with the predecessor linked. *)
Entered(n, s, c, b) == Update(MergedAfter(c, b, n, s).next, c, b)

(* What MergedAfter makes of a free list. *)
LEMMA AfterMerge ==
    ASSUME NEW n, NEW s, NEW top, FreeOK(n, s, top), Sparse(n, s),
           NEW c \in DOMAIN n, NEW b \in DOMAIN s \ DOMAIN n, Between(c, b, n[c])
    PROVE  AfterOK(n, s, top, c, b, Entered(n, s, c, b), MergedAfter(c, b, n, s).size)
<1> USE MallocAssumption
<1> DEFINE d == n[c]
           r == MergedAfter(c, b, n, s)
           m == Update(r.next, c, b)
           t == r.size
<1>0. /\ b \in Nat /\ b # base /\ s[b] \in Nat \ {0} /\ b + s[b] <= top
      /\ c \in Nat /\ d \in DOMAIN n /\ d \in Nat /\ c \in DOMAIN s
  BY DEF FreeOK, ListOK, Tiles, base
<1>1. /\ c < b /\ (d = base \/ b < d)
      /\ \A a \in DOMAIN n : a <= c \/ (d # base /\ b < d /\ d <= a)
  BY <1>0, BetweenPlace DEF FreeOK
<1>2. CASE b + s[b] = d
  <2>1. d # base /\ d # b /\ d # c /\ b < d
    BY <1>0, <1>1, <1>2 DEF base
  <2>2. /\ r.next = Without(Update(n, b, n[d]), d)
        /\ t = Without(Update(s, b, s[b] + s[d]), d)
    BY <1>2 DEF MergedAfter
  <2>3. /\ DOMAIN m = (DOMAIN n \cup {b}) \ {d} /\ m[c] = b /\ m[b] = n[d]
        /\ \A a \in DOMAIN n \ {c, d} : m[a] = n[a]
    <3>1. /\ DOMAIN r.next = (DOMAIN n \cup {b}) \ {d} /\ r.next[b] = n[d]
          /\ \A a \in DOMAIN n \ {b, d} : r.next[a] = n[a]
      BY <2>1, <2>2 DEF Update, Without
    <3>2. c \in DOMAIN r.next /\ b # c
      BY <1>0, <1>1, <2>1, <3>1
    <3>3. \A a \in DOMAIN n \ {c, d} : a # b /\ a \in DOMAIN r.next /\ a # c
      BY <3>1
    <3> HIDE DEF r
    <3>4. /\ DOMAIN m = DOMAIN r.next /\ m[c] = b
          /\ \A a \in DOMAIN r.next \ {c} : m[a] = r.next[a]
      BY <3>2 DEF Update
    <3> HIDE DEF m
    <3>5. b \in DOMAIN r.next \ {c}
      BY <2>1, <3>1, <3>2
    <3>6. QED
      BY <3>1, <3>3, <3>4, <3>5
  <2>4. Merged(s, t, b, d)
    BY <2>1, <2>2, <1>0 DEF Update, Without, Merged, FreeOK
  <2>5. DEFINE e == Update(Update(n, b, d), c, b)
  <2>6. /\ DOMAIN e = DOMAIN n \cup {b} /\ e[b] = d /\ e[c] = b
        /\ \A a \in DOMAIN n \ {c} : e[a] = n[a]
    BY <1>0, <1>1 DEF Update
  <2> HIDE DEF m, t, r, e
  <2>7. Inserted(n, e, c, b)
    BY <2>6 DEF Inserted
  <2>8. ListOK(e)
    BY <1>0, <2>7, InsertList DEF FreeOK
  <2>9. Deleted(e, m, b)
    BY <1>0, <1>1, <2>1, <2>3, <2>6 DEF Deleted
  <2>10. ListOK(m)
    BY <2>1, <2>6, <2>8, <2>9, DeleteList
  <2>11. d \in DOMAIN s \ {base} /\ b \in DOMAIN s \ {base}
    BY <1>0, <2>1 DEF FreeOK
  <2>12. Tiles(t, top)
    BY <1>2, <2>4, <2>11, MergeTiles DEF FreeOK
  <2>13. FreeOK(m, t, top)
    <3>1. DOMAIN m \subseteq DOMAIN t
      BY <2>3, <2>4 DEF FreeOK, Merged
    <3>2. base \in DOMAIN t \ {b}
      BY <1>0, <2>10, <3>1 DEF ListOK
    <3>3. t[base] = 0
      BY <2>4, <3>2 DEF FreeOK, Merged
    <3>4. QED
      BY <2>10, <2>12, <3>1, <3>3 DEF FreeOK
  <2>14. UsedKept(n, s, b, m, t)
    BY <1>0, <2>3, <2>4 DEF UsedKept, Merged
  <2>15. ASSUME NEW a \in DOMAIN m \ {base, c}, a + t[a] \in DOMAIN m \ {base}
         PROVE  FALSE
    <3>1. CASE a = b
      <4>1. a + t[a] = d + s[d] /\ s[d] \in Nat /\ d + s[d] # b /\ d + s[d] \in Nat
        BY <1>0, <1>2, <2>1, <2>4, <2>11, <3>1 DEF Merged, FreeOK, Tiles
      <4>2. d + s[d] \in DOMAIN n \ {base}
        BY <2>3, <2>15, <4>1
      <4>3. QED
        BY <1>0, <2>1, <4>2 DEF Sparse
    <3>2. CASE a # b
      <4>1. a \in DOMAIN n \ {base, c, d} /\ t[a] = s[a] /\ a \in DOMAIN s \ {base}
        BY <2>3, <2>4, <3>2 DEF Merged, FreeOK
      <4>2. a + s[a] = b
        BY <2>3, <2>15, <4>1 DEF Sparse
      <4>3. a \in Nat /\ s[a] \in Nat \ {0}
        BY <4>1 DEF FreeOK, Tiles
      <4>4. a < c
        BY <1>0, <1>1, <4>1, <4>2, <4>3
      <4>5. c \in DOMAIN s \ {base}
        BY <1>0, <4>3, <4>4 DEF base
      <4>6. a + s[a] <= c
        BY <4>1, <4>4, <4>5 DEF FreeOK, Tiles
      <4>7. QED
        BY <1>0, <1>1, <4>2, <4>6
    <3>3. QED
      BY <3>1, <3>2
  <2>16. c \in DOMAIN m
    BY <2>1, <2>3
  <2>17. AfterOK(n, s, top, c, b, m, t)
    BY <1>0, <1>1, <2>3, <2>13, <2>14, <2>15, <2>16 DEF AfterOK
  <2>18. QED
    BY <2>17 DEF m, t, r, Entered
<1>3. CASE b + s[b] # d
  <2>1. r.next = Update(n, b, d) /\ t = s
    BY <1>3 DEF MergedAfter
  <2>2. /\ DOMAIN m = DOMAIN n \cup {b} /\ m[c] = b /\ m[b] = d
        /\ \A a \in DOMAIN n \ {c} : m[a] = n[a]
    BY <1>0, <1>1, <2>1 DEF Update
  <2> HIDE DEF m, t, r
  <2>3. Inserted(n, m, c, b)
    BY <2>2 DEF Inserted
  <2>4. ListOK(m)
    BY <1>0, <2>3, InsertList DEF FreeOK
  <2>5. FreeOK(m, t, top)
    BY <2>1, <2>2, <2>4 DEF FreeOK
  <2>6. UsedKept(n, s, b, m, t)
    BY <2>1, <2>2 DEF UsedKept
  <2>7. ASSUME NEW a \in DOMAIN m \ {base, c}, a + t[a] \in DOMAIN m \ {base}
        PROVE  FALSE
    <3>0. a \in DOMAIN s \ {base} /\ a \in Nat /\ s[a] \in Nat \ {0}
      BY <1>0, <2>2 DEF FreeOK, Tiles
    <3>1. CASE a = b
      <4>1. b + s[b] \in DOMAIN n \ {base}
        BY <1>0, <2>1, <2>2, <2>7, <3>1
      <4>2. d # base /\ b < d /\ d < b + s[b]
        BY <1>0, <1>1, <1>3, <4>1
      <4>3. b + s[b] <= d
        BY <1>0, <4>2 DEF FreeOK, Tiles
      <4>4. QED
        BY <1>0, <4>2, <4>3
    <3>2. CASE a # b
      <4>1. a \in DOMAIN n \ {base, c}
        BY <2>2, <3>2
      <4>2. a + s[a] = b
        BY <2>1, <2>2, <2>7, <4>1 DEF Sparse
      <4>4. a < c
        BY <1>0, <1>1, <3>0, <4>1, <4>2
      <4>5. c \in DOMAIN s \ {base}
        BY <1>0, <3>0, <4>4 DEF base
      <4>6. a + s[a] <= c
        BY <3>0, <4>4, <4>5 DEF FreeOK, Tiles
      <4>7. QED
        BY <1>0, <1>1, <4>2, <4>6
    <3>3. QED
      BY <3>1, <3>2
  <2>8. AfterOK(n, s, top, c, b, m, t)
    BY <1>0, <1>1, <2>2, <2>5, <2>6, <2>7 DEF AfterOK
  <2>9. QED
    BY <2>8 DEF m, t, r, Entered
<1>4. QED
  BY <1>2, <1>3

(* The list and the sizes that free leaves. *)
Joined(n, s, c, b) ==
    LET m == MergedAfter(c, b, n, s) IN MergedBefore(c, b, m.next, m.size)

JoinedOK(n, s, top, c, b, m, t) ==
    FreeOK(m, t, top) /\ UsedKept(n, s, b, m, t) /\ Sparse(m, t) /\ c \in DOMAIN m

(* What free makes of a free list: one ordered circle again, over blocks   *)
(* that tile the heap and do not touch.                                    *)
LEMMA FreeMerge ==
    ASSUME NEW n, NEW s, NEW top, FreeOK(n, s, top), Sparse(n, s),
           NEW c \in DOMAIN n, NEW b \in DOMAIN s \ DOMAIN n, Between(c, b, n[c])
    PROVE  JoinedOK(n, s, top, c, b, Joined(n, s, c, b).next, Joined(n, s, c, b).size)
<1> USE MallocAssumption
<1> DEFINE r == MergedAfter(c, b, n, s)
           e == Entered(n, s, c, b)
           s1 == r.size
           j == Joined(n, s, c, b)
           m == j.next
           t == j.size
<1>1. AfterOK(n, s, top, c, b, e, s1)
  BY AfterMerge
<1>2. /\ c \in DOMAIN r.next /\ b \in DOMAIN r.next /\ b # c
      /\ e = Update(r.next, c, b)
  <2>1. e = Update(r.next, c, b) /\ DOMAIN e = DOMAIN r.next \cup {c}
    BY DEF Entered, Update
  <2>2. c \in DOMAIN e /\ b \in DOMAIN e /\ b # c
    BY Zenon, <1>1 DEF AfterOK, FreeOK, ListOK
  <2>3. c \in DOMAIN r.next
    <3>1. CASE b + s[b] = n[c]
      <4>1. b \in Nat /\ s[b] \in Nat \ {0} /\ c \in Nat /\ n[c] \in Nat
        BY DEF FreeOK, ListOK, Tiles, base
      <4>2. c # n[c]
        BY <1>1, <3>1, <4>1 DEF AfterOK
      <4>3. r.next = Without(Update(n, b, n[n[c]]), n[c])
        BY <3>1 DEF MergedAfter
      <4>4. QED
        BY <4>2, <4>3 DEF Update, Without
    <3>2. CASE b + s[b] # n[c]
      BY <3>2 DEF MergedAfter, Update
    <3>3. QED
      BY Zenon, <3>1, <3>2
  <2>4. QED
    BY <2>1, <2>2, <2>3
<1>3. j = MergedBefore(c, b, r.next, s1)
  BY DEF Joined
<1>4. /\ DOMAIN e = DOMAIN r.next /\ e[c] = b /\ e[b] = r.next[b]
      /\ \A a \in DOMAIN e \ {c} : e[a] = r.next[a]
  BY <1>2 DEF Update
<1>5. /\ b \in DOMAIN s1 \ {base} /\ c \in DOMAIN s1 /\ b \in Nat /\ c \in Nat /\ b # base
      /\ s1[b] \in Nat \ {0} /\ c < b
  BY Zenon, <1>1, <1>2, <1>4 DEF AfterOK, FreeOK, Tiles, ListOK
<1> HIDE DEF r, e, s1, j
<1>6. CASE c + s1[c] = b
  <2>1. /\ m = Without(Update(r.next, c, r.next[b]), b)
        /\ t = Without(Update(s1, c, s1[c] + s1[b]), b)
    BY Zenon, <1>3, <1>6 DEF MergedBefore
  <2>2. c # base
    <3>1. s1[base] = 0
      BY <1>1 DEF AfterOK, FreeOK
    <3>2. QED
      BY <1>5, <1>6, <3>1 DEF base
  <2>3. Deleted(e, m, c)
    BY Zenon, <1>2, <1>4, <2>1 DEF Deleted, Update, Without
  <2>4. Merged(s1, t, c, b)
    <3>1. DOMAIN t = DOMAIN s1 \ {b}
      BY <1>5, <2>1 DEF Update, Without
    <3>2. t[c] = s1[c] + s1[b]
      BY <1>2, <1>5, <2>1 DEF Update, Without
    <3>3. \A a \in DOMAIN t \ {c} : t[a] = s1[a]
      BY <2>1, <3>1 DEF Update, Without
    <3>4. QED
      BY <3>1, <3>2, <3>3 DEF Merged
  <2> HIDE DEF m, t
  <2>5. ListOK(m)
    BY Zenon, <1>1, <1>2, <1>4, <1>5, <2>3, DeleteList DEF AfterOK, FreeOK
  <2>6. Tiles(t, top)
    BY <1>1, <1>5, <1>6, <2>2, <2>4, MergeTiles DEF AfterOK, FreeOK
  <2>7. FreeOK(m, t, top)
    BY Zenon, <1>1, <1>4, <1>5, <2>2, <2>3, <2>4, <2>5, <2>6 DEF AfterOK, FreeOK, Deleted, Merged, ListOK
  <2>8. UsedKept(n, s, b, m, t)
    BY Zenon, <1>1, <1>2, <1>4, <2>3, <2>4 DEF AfterOK, UsedKept, Deleted, Merged
  <2>9. ASSUME NEW a \in DOMAIN m \ {base}
        PROVE  a + t[a] \notin DOMAIN m \ {base}
    <3>1. DOMAIN m = DOMAIN e \ {b} /\ a \in DOMAIN e \ {base, b}
      BY <1>4, <2>3 DEF Deleted
    <3>2. CASE a = c
      <4>1. a + t[a] = b + s1[b]
        <5>1. s1[c] \in Nat
          BY <1>1, <1>5, <2>2 DEF AfterOK, FreeOK, Tiles
        <5>2. QED
          BY <1>5, <1>6, <2>4, <3>2, <5>1 DEF Merged
      <4>2. b \in DOMAIN e \ {base, c}
        BY <1>2, <1>4, <1>5
      <4>3. QED
        BY <1>1, <3>1, <4>1, <4>2 DEF AfterOK
    <3>3. CASE a # c
      <4>1. t[a] = s1[a]
        BY <1>1, <2>4, <3>1, <3>3 DEF Merged, AfterOK, FreeOK
      <4>2. QED
        BY <1>1, <3>1, <3>3, <4>1 DEF AfterOK
    <3>4. QED
      BY <3>2, <3>3
  <2>10. c \in DOMAIN m
    BY Zenon, <1>2, <1>4, <2>3 DEF Deleted
  <2>11. QED
    BY Zenon, <2>7, <2>8, <2>9, <2>10 DEF JoinedOK, Sparse, m, t, j
<1>7. CASE c + s1[c] # b
  <2>1. m = e /\ t = s1
    BY <1>2, <1>3, <1>7 DEF MergedBefore
  <2>2. c # base => c + s1[c] \notin DOMAIN e \ {base}
    <3>1. SUFFICES ASSUME c # base, c + s1[c] \in DOMAIN e
                   PROVE  FALSE
      OBVIOUS
    <3>2. s1[c] \in Nat \ {0} /\ c + s1[c] <= b
      BY <1>1, <1>5, <3>1 DEF AfterOK, FreeOK, Tiles
    <3>3. c + s1[c] >= b
      <4>1. ListOK(e) /\ c \in DOMAIN e /\ e[c] = b
        BY <1>1 DEF AfterOK, FreeOK
      <4>2. c < c + s1[c]
        BY <1>5, <3>2
      <4>3. QED
        BY <3>1, <4>1, <4>2 DEF ListOK
    <3>4. QED
      BY <1>5, <1>7, <3>2, <3>3
  <2>3. Sparse(e, s1)
    BY <1>1, <2>2 DEF Sparse, AfterOK
  <2>4. QED
    BY <1>1, <2>1, <2>3 DEF JoinedOK, AfterOK, j
<1>8. QED
  BY <1>6, <1>7
-----------------------------------------------------------------------------
(* Sizes are natural numbers. *)
LEMMA SizesNat == Sizes \subseteq Nat
  BY MallocAssumption

(* A block has at least its header. *)
LEMMA UnitsPositive == \A n \in Sizes : Units(n) \in Nat \ {0}
<1> SUFFICES ASSUME NEW n \in Sizes PROVE Units(n) \in Nat \ {0}
  OBVIOUS
<1>1. n \in Nat /\ HEADER \in Nat \ {0} /\ SIZE_LIMIT \in Nat \ {0} /\ n + HEADER - 1 \in Nat
  BY MallocAssumption
<1>2. (n + HEADER - 1) % SIZE_LIMIT \in Nat
  BY <1>1
<1> DEFINE m == (n + HEADER - 1) % SIZE_LIMIT
<1> HIDE DEF m
<1>3. m \div HEADER \in Nat
  BY <1>1, <1>2 DEF m
<1>4. QED
  BY <1>3 DEF Units, m

(* The header is right before what malloc returned. *)
LEMMA Header == \A a \in Nat : (a + 1) * HEADER \in Nat /\ ((a + 1) * HEADER) \div HEADER - 1 = a
<1>1. HEADER \in Nat \ {0}
  BY MallocAssumption
<1>2. \A i \in Nat, z \in Nat \ {0} : i * z \in Nat /\ (i * z) \div z = i
  OBVIOUS
<1>3. QED
  BY <1>1, <1>2

(* The blocks in use keep their place, and one more may be handed out. *)
HeldStay ==
    \A b \in held :
        /\ At(b) \in DOMAIN size' \ DOMAIN next' /\ At(b) # block'
        /\ size'[At(b)] = size[At(b)]

LEMMA HeldKept ==
    ASSUME HeldInv, HeldStay, held' \subseteq held
    PROVE  HeldInv'
  BY DEF HeldInv, HeldStay, At

LEMMA HandKept ==
    ASSUME HeldInv, HeldStay, NEW a \in Nat, Hand(a), asked \in Sizes,
           a \in DOMAIN size' \ DOMAIN next', a # block', size'[a] = Units(asked),
           \A b \in held : At(b) # a
    PROVE  HeldInv'
<1> DEFINE h == [addr |-> (a + 1) * HEADER, size |-> asked]
<1>1. h \in [addr : Nat, size : Sizes] /\ h.addr = (a + 1) * HEADER /\ h.size = asked
  BY Header
<1>2. At(h) = a
  BY <1>1, Header DEF At
<1>3. held' = held \cup {h}
  BY DEF Hand
<1> HIDE DEF h
<1>4. \A b \in held : b.addr # h.addr
  BY <1>2 DEF At
<1>5. ASSUME NEW b \in held'
      PROVE  /\ b \in [addr : Nat, size : Sizes]
             /\ At(b) \in DOMAIN size' \ DOMAIN next' /\ At(b) # block'
             /\ b.addr = (At(b) + 1) * HEADER /\ size'[At(b)] = Units(b.size)
             /\ \A c \in held' : c.addr = b.addr => c = b
  <2>1. CASE b = h
    BY <1>1, <1>2, <1>3, <1>4, <2>1
  <2>2. CASE b \in held
    BY <1>3, <1>4, <2>2 DEF HeldInv, HeldStay
  <2>3. QED
    BY <1>3, <2>1, <2>2
<1>6. QED
  BY <1>5 DEF HeldInv, At

(* What holds from the first call on. *)
Running ==
    /\ free_list \in DOMAIN next /\ FreeOK(next, size, brk) /\ Sparse(next, size)

LEMMA RunningFacts ==
    ASSUME MallocInv
    PROVE  /\ pc # "user" => Running
           /\ held # {} => Running
           /\ free_list # NULL => Running
           /\ Running => free_list # NULL
  BY MallocAssumption DEF MallocInv, Running, FreeOK, Sparse, Coalesced, FreeBlocks, ListOK

LEMMA RunningInv ==
    ASSUME Running', SearchInv', HeldInv', pc' \in {"user", "malloc", "free"}
    PROVE  MallocInv'
  BY DEF MallocInv, Running, FreeOK, Sparse, Coalesced, FreeBlocks

(* No call was made yet. *)
LEMMA MallocInit == Init => MallocInv
<1> SUFFICES ASSUME Init PROVE MallocInv
  OBVIOUS
<1>1. DOMAIN next = {} /\ DOMAIN size = {}
  BY DEF Init
<1>2. Tiles(size, brk)
  BY <1>1, MallocAssumption DEF Init, Tiles
<1>3. QED
  BY Zenon, <1>1, <1>2 DEF Init, MallocInv, SearchInv, HeldInv, Coalesced, FreeBlocks

(* A call of malloc up to its loop. *)
LEMMA MallocCall ==
    ASSUME MallocInv, NEW n \in Sizes, malloc(n)
    PROVE  MallocInv'
<1>1. CASE free_list = NULL
  <2>1. /\ DOMAIN next = {} /\ DOMAIN size = {} /\ brk = HeapStart /\ held = {}
        /\ next' = Update(next, base, base) /\ size' = Update(size, base, 0)
        /\ free_list' = base /\ prev' = base /\ cur' = next'[base] /\ brk' = brk /\ held' = held
    BY <1>1, MallocAssumption DEF malloc, MallocInv, ListOK
  <2>2. /\ DOMAIN next' = {base} /\ DOMAIN size' = {base} /\ next'[base] = base /\ size'[base] = 0
    BY <2>1 DEF Update
  <2>3. ListOK(next')
    BY <2>2 DEF ListOK, base
  <2>4. Tiles(size', brk')
    BY <2>1, <2>2, MallocAssumption DEF Tiles
  <2>5. Running'
    BY <2>1, <2>2, <2>3, <2>4 DEF Running, FreeOK, Sparse
  <2>6. SearchInv'
    BY <2>1, <2>2 DEF SearchInv, MallocInv, malloc
  <2>7. HeldInv'
    BY <2>1 DEF HeldInv
  <2>8. QED
    BY <2>5, <2>6, <2>7, RunningInv DEF malloc
<1>2. CASE free_list # NULL
  <2>1. UNCHANGED <<next, size, free_list, brk, block, growing, held>>
    BY <1>2 DEF malloc
  <2>2. Running'
    BY <1>2, <2>1, RunningFacts DEF Running
  <2>3. SearchInv'
    BY <1>2, <2>1, <2>2 DEF SearchInv, MallocInv, malloc, Running
  <2>4. HeldInv'
    BY <2>1 DEF HeldInv, MallocInv, At
  <2>5. QED
    BY <2>2, <2>3, <2>4, RunningInv DEF malloc
<1>3. QED
  BY <1>1, <1>2

(* What a search of malloc stands on. *)
LEMMA SearchFacts ==
    ASSUME MallocInv, pc = "malloc"
    PROVE  /\ Running /\ prev \in DOMAIN next /\ cur = next[prev] /\ cur \in DOMAIN next
           /\ asked \in Sizes \ {0} /\ Units(asked) \in Nat \ {0} /\ size[base] = 0
           /\ cur # base => prev < cur /\ prev # cur
           /\ cur \in DOMAIN size /\ cur \in Nat /\ size[cur] \in Nat
<1>1. Running /\ prev \in DOMAIN next /\ cur = next[prev] /\ asked \in Sizes \ {0}
  BY Zenon, RunningFacts DEF MallocInv, SearchInv
<1>2. /\ cur \in DOMAIN next /\ size[base] = 0 /\ cur \in Nat /\ cur \in DOMAIN size
      /\ cur # base => prev < cur /\ prev # cur
  BY <1>1 DEF Running, FreeOK, ListOK
<1>3. size[cur] \in Nat
  BY <1>1, <1>2 DEF Running, FreeOK, Tiles
<1>4. QED
  BY <1>1, <1>2, <1>3, UnitsPositive

(* A block of just the size leaves the list. *)
LEMMA MallocExact ==
    ASSUME MallocInv, malloc_exact
    PROVE  MallocInv'
<1>1. /\ Running /\ prev \in DOMAIN next /\ cur = next[prev] /\ cur \in DOMAIN next
      /\ asked \in Sizes \ {0} /\ size[cur] = Units(asked) /\ cur # base /\ prev # cur
      /\ cur \in DOMAIN size /\ cur \in Nat
  BY SearchFacts DEF malloc_exact
<1>2. /\ next' = Without(Update(next, prev, next[cur]), cur) /\ free_list' = prev
      /\ size' = size /\ brk' = brk /\ block' = block /\ growing' = growing /\ block = NULL
      /\ growing = FALSE
  BY DEF malloc_exact, MallocInv, SearchInv
<1>3. /\ DOMAIN next' = DOMAIN next \ {cur} /\ next'[prev] = next[cur]
      /\ \A a \in DOMAIN next' \ {prev} : next'[a] = next[a]
  BY <1>1, <1>2 DEF Update, Without
<1>4. Deleted(next, next', prev)
  BY <1>1, <1>3 DEF Deleted
<1>5. ListOK(next')
  BY <1>1, <1>4, DeleteList DEF Running, FreeOK
<1>6. Running'
  BY <1>1, <1>2, <1>3, <1>5 DEF Running, FreeOK, Sparse
<1>7. HeldStay /\ \A b \in held : At(b) # cur
  BY Zenon, <1>1, <1>2, <1>3 DEF MallocInv, HeldInv, HeldStay
<1>8. HeldInv'
  <2>1. cur \in DOMAIN size' \ DOMAIN next' /\ cur # block' /\ size'[cur] = Units(asked)
    BY <1>1, <1>2, <1>3, MallocAssumption
  <2>2. Hand(cur) /\ HeldInv /\ asked \in Sizes
    BY <1>1 DEF malloc_exact, MallocInv
  <2>3. QED
    BY <1>1, <1>7, <2>1, <2>2, HandKept
<1>9. SearchInv' /\ pc' = "user"
  BY Zenon, <1>2 DEF malloc_exact, Return, SearchInv
<1>10. QED
  BY <1>6, <1>8, <1>9, RunningInv

(* The tail of a larger block is handed out, and the list stays. *)
LEMMA MallocSplit ==
    ASSUME MallocInv, malloc_split
    PROVE  MallocInv'
<1> DEFINE u == Units(asked)
           a == cur + size[cur] - u
<1>1. /\ Running /\ prev \in DOMAIN next /\ cur \in DOMAIN next
      /\ asked \in Sizes \ {0} /\ u \in Nat \ {0} /\ size[cur] > u /\ cur # base
      /\ cur \in DOMAIN size /\ cur \in Nat /\ size[cur] \in Nat
  BY SearchFacts DEF malloc_split
<1>2. /\ size' = Update(Update(size, cur, size[cur] - u), a, u) /\ free_list' = prev
      /\ next' = next /\ brk' = brk /\ block' = block /\ growing' = growing /\ block = NULL
      /\ growing = FALSE /\ Hand(a) /\ Return /\ HeldInv
  BY DEF malloc_split, MallocInv, SearchInv
<1> HIDE DEF u
<1>3. a \in Nat /\ a # cur
  BY <1>1
<1>4. /\ DOMAIN size' = DOMAIN size \cup {a} /\ size'[cur] = size[cur] - u /\ size'[a] = u
      /\ \A b \in DOMAIN size \ {cur} : b # a => size'[b] = size[b]
  BY <1>1, <1>2, <1>3 DEF Update
<1>5. a = cur + size[cur] - u
  OBVIOUS
<1> HIDE DEF a
<1>6. a \notin DOMAIN size
  <2>1. SUFFICES ASSUME a \in DOMAIN size
                 PROVE  FALSE
    OBVIOUS
  <2>2. cur < a /\ a # base /\ a < cur + size[cur]
    BY <1>1, <1>3, <1>5 DEF base
  <2>3. cur + size[cur] <= a
    BY <1>1, <2>1, <2>2 DEF Running, FreeOK, Tiles
  <2>4. QED
    BY <1>1, <1>3, <2>2, <2>3
<1>7. Cut(size, size', cur, a, u)
  BY Zenon, <1>4, <1>6 DEF Cut
<1>8. Tiles(size', brk') /\ a # base
  BY <1>1, <1>2, <1>5, <1>7, CutTiles DEF Running, FreeOK
<1>9. Sparse(next', size')
  <2>1. cur + size'[cur] = a
    BY <1>1, <1>3, <1>4, <1>5
  <2>2. QED
    BY <1>1, <1>2, <1>4, <1>6, <2>1 DEF Sparse, Running, FreeOK
<1>10. size'[base] = 0 /\ DOMAIN next' \subseteq DOMAIN size'
  BY <1>1, <1>2, <1>4, <1>8 DEF Running, FreeOK, ListOK
<1>11. Running'
  BY <1>1, <1>2, <1>8, <1>9, <1>10 DEF Running, FreeOK
<1>12. HeldStay /\ \A b \in held : At(b) # a
  BY <1>1, <1>2, <1>4, <1>6 DEF HeldInv, HeldStay
<1>13. HeldInv'
  <2>1. a \in DOMAIN size' \ DOMAIN next' /\ a # block' /\ size'[a] = Units(asked)
    BY <1>1, <1>2, <1>3, <1>4, <1>6, MallocAssumption DEF Running, FreeOK, u
  <2>2. QED
    BY <1>1, <1>2, <1>3, <1>12, <2>1, HandKept
<1>14. SearchInv' /\ pc' = "user"
  BY Zenon, <1>2 DEF Return, SearchInv
<1>15. QED
  BY <1>11, <1>13, <1>14, RunningInv
(* The search goes on to the next free block. *)
LEMMA MallocNext ==
    ASSUME MallocInv, malloc_next
    PROVE  MallocInv'
<1>1. /\ Running /\ cur \in DOMAIN next /\ asked \in Sizes \ {0}
  BY SearchFacts DEF malloc_next
<1>2. UNCHANGED <<next, size, free_list, brk, block, growing, held, asked, pc>>
      /\ prev' = cur /\ cur' = next[cur] /\ pc = "malloc" /\ SearchInv /\ HeldInv
  BY DEF malloc_next, MallocInv
<1>3. Running'
  BY <1>1, <1>2 DEF Running
<1>4. SearchInv'
  BY <1>1, <1>2 DEF SearchInv
<1>5. HeldInv'
  BY <1>2 DEF HeldInv, At
<1>6. QED
  BY <1>2, <1>3, <1>4, <1>5, RunningInv

(* sbrk made a block, which free has yet to enter. *)
LEMMA GrowHeap ==
    ASSUME MallocInv, grow_heap
    PROVE  MallocInv'
<1> DEFINE n == IF Units(asked) < MIN_ALLOC_UNITS THEN MIN_ALLOC_UNITS ELSE Units(asked)
<1>1. /\ Running /\ prev \in DOMAIN next /\ cur \in DOMAIN next /\ asked \in Sizes \ {0}
      /\ Units(asked) \in Nat \ {0}
  BY SearchFacts DEF grow_heap
<1>2. n \in Nat \ {0}
  BY <1>1, MallocAssumption
<1>3. /\ brk + n <= HeapEnd /\ brk' = brk + n /\ size' = Update(size, brk, n)
      /\ next' = next /\ free_list' = free_list /\ prev' = prev /\ asked' = asked /\ held' = held
      /\ block' = brk /\ growing' = TRUE /\ cur' = free_list /\ pc' = "free" /\ HeldInv
  BY DEF grow_heap, Grown, MallocInv
<1> HIDE DEF n
<1>4. Tiles(size', brk') /\ brk \notin DOMAIN size /\ brk # base
  BY <1>1, <1>2, <1>3, GrowTiles DEF Running, FreeOK
<1>5. DOMAIN size' = DOMAIN size \cup {brk} /\ \A a \in DOMAIN size : size'[a] = size[a]
  BY <1>3, <1>4 DEF Update
<1>6. FreeOK(next', size', brk')
  BY <1>1, <1>3, <1>4, <1>5 DEF Running, FreeOK, ListOK
<1>7. Sparse(next', size')
  BY <1>1, <1>3, <1>5 DEF Running, FreeOK, Sparse
<1>8. Running'
  BY <1>1, <1>3, <1>6, <1>7 DEF Running
<1>9. SearchInv'
  BY <1>1, <1>3, <1>4, <1>5 DEF SearchInv, Running, FreeOK
<1>10. HeldStay
  BY Zenon, <1>3, <1>4, <1>5 DEF HeldInv, HeldStay
<1>11. HeldInv'
  BY <1>3, <1>10, HeldKept
<1>12. QED
  BY <1>3, <1>8, <1>9, <1>11, RunningInv

(* sbrk failed, and malloc returns NULL. *)
LEMMA GrowHeapFails ==
    ASSUME MallocInv, grow_heap_fails
    PROVE  MallocInv'
<1>1. Running
  BY SearchFacts DEF grow_heap_fails
<1>2. /\ UNCHANGED <<next, size, free_list, brk, block, growing, held>> /\ Return
      /\ pc = "malloc" /\ SearchInv /\ HeldInv
  BY DEF grow_heap_fails, MallocInv
<1>3. Running'
  BY <1>1, <1>2 DEF Running
<1>4. SearchInv' /\ pc' = "user"
  BY <1>2 DEF SearchInv, Return
<1>5. HeldInv'
  BY <1>2 DEF HeldInv, At
<1>6. QED
  BY <1>3, <1>4, <1>5, RunningInv

(* A call of free: the block is no longer in use, and not yet free. *)
LEMMA FreeCall ==
    ASSUME MallocInv, NEW b \in held, free(b)
    PROVE  MallocInv'
<1>1. Running /\ free_list \in DOMAIN next
  BY RunningFacts DEF Running
<1>2. /\ UNCHANGED <<next, size, free_list, brk, prev, asked, growing>> /\ held' = held \ {b}
      /\ block' = At(b) /\ cur' = free_list /\ pc' = "free" /\ pc = "user" /\ SearchInv /\ HeldInv
  BY DEF free, At, MallocInv
<1>3. Running'
  BY <1>1, <1>2 DEF Running
<1>4. SearchInv'
  BY <1>1, <1>2 DEF SearchInv, HeldInv
<1>5. ASSUME NEW c \in held'
      PROVE  At(c) # block'
  <2>1. c \in held /\ c # b
    BY <1>2
  <2>2. c.addr # b.addr
    BY <1>2, <2>1 DEF HeldInv
  <2>3. QED
    BY <1>2, <2>1, <2>2 DEF HeldInv
<1>6. HeldInv'
  BY <1>2, <1>5 DEF HeldInv, At
<1>7. QED
  BY <1>2, <1>3, <1>4, <1>6, RunningInv

(* free's search goes on. *)
LEMMA FreeNext ==
    ASSUME MallocInv, free_next
    PROVE  MallocInv'
<1>1. Running
  BY RunningFacts DEF free_next
<1>2. UNCHANGED <<next, size, free_list, brk, pc, prev, asked, block, growing, held>>
      /\ cur' = next[cur] /\ pc = "free" /\ SearchInv /\ HeldInv
  BY Zenon DEF free_next, MallocInv
<1>3. Running'
  BY <1>1, <1>2 DEF Running
<1>4. cur' \in DOMAIN next
  BY <1>1, <1>2 DEF SearchInv, Running, FreeOK, ListOK
<1>5. SearchInv'
  BY <1>2, <1>4 DEF SearchInv
<1>6. HeldInv'
  BY <1>2 DEF HeldInv, At
<1>7. QED
  BY <1>2, <1>3, <1>5, <1>6, RunningInv

(* The block enters the list, merged with its neighbours. *)
LEMMA FreeInsert ==
    ASSUME MallocInv, free_insert
    PROVE  MallocInv'
<1> DEFINE j == Joined(next, size, cur, block)
<1>1. Running /\ SearchInv /\ HeldInv /\ cur \in DOMAIN next /\ block \in DOMAIN size \ DOMAIN next
      /\ (growing => asked \in Sizes \ {0})
  BY Zenon, RunningFacts DEF free_insert, MallocInv, SearchInv
<1>2. /\ Between(cur, block, next[cur]) /\ next' = j.next /\ size' = j.size
      /\ free_list' = cur /\ block' = NULL /\ growing' = FALSE /\ brk' = brk /\ held' = held
      /\ growing => pc' = "malloc" /\ prev' = cur /\ cur' = j.next[cur] /\ asked' = asked
      /\ ~ growing => Return
  BY Zenon DEF free_insert, Joined
<1>3. JoinedOK(next, size, brk, cur, block, j.next, j.size)
  BY Zenon, <1>1, <1>2, FreeMerge DEF Running
<1> HIDE DEF j
<1>4. Running'
  BY Zenon, <1>2, <1>3 DEF Running, JoinedOK
<1>5. SearchInv' /\ pc' \in {"user", "malloc", "free"}
  <2>1. growing \in BOOLEAN
    BY <1>1 DEF SearchInv
  <2>2. CASE growing
    BY Zenon, <1>1, <1>2, <1>3, <2>2 DEF SearchInv, JoinedOK
  <2>3. CASE ~ growing
    BY Zenon, <1>2, <2>3 DEF SearchInv, Return
  <2>4. QED
    BY <2>2, <2>3
<1>6. HeldStay
  <2>1. SUFFICES ASSUME NEW b \in held
                 PROVE  /\ At(b) \in DOMAIN size' \ DOMAIN next' /\ At(b) # block'
                        /\ size'[At(b)] = size[At(b)]
    BY DEF HeldStay
  <2>2. At(b) \in (DOMAIN size \ DOMAIN next) \ {block}
    BY <1>1 DEF HeldInv
  <2>3. At(b) \in DOMAIN size' \ DOMAIN next' /\ size'[At(b)] = size[At(b)]
    BY Zenon, <1>2, <1>3, <2>2 DEF JoinedOK, UsedKept
  <2>4. At(b) \in Int
    <3>1. At(b) # base
      BY <1>1, <2>2 DEF Running, FreeOK, ListOK
    <3>2. QED
      BY <1>1, <2>2, <3>1 DEF Running, FreeOK, Tiles
  <2>5. QED
    BY <1>2, <2>3, <2>4, MallocAssumption
<1>7. HeldInv'
  BY <1>1, <1>2, <1>6, HeldKept
<1>8. QED
  BY <1>4, <1>5, <1>7, RunningInv

(* No step of the heap breaks the invariant. *)
LEMMA MallocInvNext == MallocInv /\ [Next]_vars => MallocInv'
<1>1. ASSUME MallocInv, UNCHANGED vars
      PROVE  MallocInv'
  BY Zenon, <1>1 DEF MallocInv, vars, SearchInv, HeldInv, Coalesced, FreeBlocks, At
<1>2. QED
  BY <1>1, MallocCall, MallocExact, MallocSplit, MallocNext, GrowHeap, GrowHeapFails,
     FreeCall, FreeNext, FreeInsert DEF Next, Search

(* The blocks tile the heap and the free list is an ordered circle at      *)
(* every turn of malloc's and free's loops.                                *)
THEOREM MallocInvariant == Spec => []MallocInv
  BY MallocInit, MallocInvNext, PTL DEF Spec
-----------------------------------------------------------------------------
(* However blocks were cut and merged, they tile the heap end to end: no   *)
(* unit that sbrk granted is lost, or in two blocks.                       *)
THEOREM HeapStaysTiled == Spec => []Tiled
<1>1. ASSUME MallocInv
      PROVE  Tiled
  <2> USE MallocAssumption
  <2>1. Tiles(size, brk) /\ SearchInv /\ DOMAIN next \subseteq DOMAIN size
    BY <1>1 DEF MallocInv
  <2>2. DOMAIN size \subseteq Addr /\ DOMAIN size \ {base} \subseteq HeapStart .. HeapEnd
    BY <2>1 DEF Addr, Tiles
  <2>3. /\ \A a \in DOMAIN next : next[a] \in DOMAIN next
        /\ free_list \in DOMAIN next \cup {NULL}
        /\ base \in DOMAIN size => size[base] = 0
    BY <1>1 DEF MallocInv, ListOK
  <2>4. \A a \in DOMAIN size : size[a] \in Nat
    BY <2>1, <2>3 DEF Tiles
  <2>5. brk \in HeapStart .. HeapEnd
    BY <2>1 DEF Tiles
  <2>6. {prev, cur, block} \subseteq Addr \cup {NULL}
    <3>1. pc \in {"user", "malloc", "free"}
      BY <1>1 DEF MallocInv
    <3>2. prev \in DOMAIN size \cup {NULL}
      BY <2>1, <3>1 DEF SearchInv
    <3>3. cur \in DOMAIN size \cup {NULL}
      BY <2>1, <2>3, <3>1 DEF SearchInv
    <3>4. block \in DOMAIN size \cup {NULL}
      BY <2>1, <3>1 DEF SearchInv
    <3>5. QED
      BY <2>2, <3>2, <3>3, <3>4
  <2>7. asked \in Sizes \cup {0} /\ growing \in BOOLEAN /\ pc \in {"user", "malloc", "free"}
    BY <1>1, <2>1 DEF SearchInv, MallocInv
  <2>8. TypeOK
    BY <2>1, <2>2, <2>3, <2>4, <2>5, <2>6, <2>7 DEF TypeOK
  <2>9. ASSUME NEW u \in HeapStart .. brk - 1
        PROVE  Cardinality({a \in DOMAIN size \ {base} : a <= u /\ u < a + size[a]}) = 1
    <3>1. PICK a \in DOMAIN size \ {base} : a <= u /\ u < a + size[a]
      BY <2>1 DEF Tiles
    <3>2. ASSUME NEW b \in DOMAIN size \ {base}, b <= u, u < b + size[b], b # a
          PROVE  FALSE
      <4>1. a \in Nat /\ b \in Nat /\ size[a] \in Nat /\ size[b] \in Nat /\ u \in Nat
        BY <2>2, <2>4, <2>5
      <4>2. a < b => a + size[a] <= b
        BY <2>1 DEF Tiles
      <4>3. b < a => b + size[b] <= a
        BY <2>1 DEF Tiles
      <4>4. QED
        BY <3>1, <3>2, <4>1, <4>2, <4>3
    <3>3. {b \in DOMAIN size \ {base} : b <= u /\ u < b + size[b]} = {a}
      BY <3>1, <3>2
    <3>4. QED
      BY Zenon, <3>3, FS_Singleton
  <2>10. QED
    BY <2>8, <2>9 DEF Tiled
<1>2. QED
  BY <1>1, MallocInvariant, PTL

(* The free list is one circle through base in address order, which        *)
(* free's search relies on to find the place of a block.                   *)
THEOREM ListStaysOrdered == Spec => []ListOrdered
<1>1. MallocInv => ListOrdered
  BY DEF MallocInv, ListOK, ListOrdered
<1>2. QED
  BY <1>1, MallocInvariant, PTL

(* free leaves no two free blocks that touch. *)
THEOREM FreeBlocksCoalesce == Spec => []Coalesced
<1>1. MallocInv => Coalesced
  BY DEF MallocInv
<1>2. QED
  BY <1>1, MallocInvariant, PTL

(* No size asked for is so large that counting its units wraps: malloc.c   *)
(* does not check for that.                                                *)
NoWrap == \A n \in Sizes : n + HEADER - 1 < SIZE_LIMIT

(* Without wrapping, the units of a block hold the header and what was     *)
(* asked for.                                                              *)
LEMMA UnitsSuffice ==
    ASSUME NoWrap, NEW n \in Sizes
    PROVE  n + HEADER <= Units(n) * HEADER
<1>1. n \in Nat /\ HEADER \in Nat \ {0} /\ SIZE_LIMIT \in Nat \ {0} /\ n + HEADER - 1 \in Nat
      /\ n + HEADER - 1 < SIZE_LIMIT
  BY MallocAssumption DEF NoWrap
<1>2. \A x \in Nat, z \in Nat \ {0} : x < z => x % z = x
  OBVIOUS
<1>3. Units(n) = (n + HEADER - 1) \div HEADER + 1
  BY <1>1, <1>2 DEF Units
<1>4. \A x \in Nat, z \in Nat \ {0} : x \div z \in Nat /\ x < (x \div z) * z + z
  OBVIOUS
<1> DEFINE q == (n + HEADER - 1) \div HEADER
<1>5. q \in Nat /\ n + HEADER - 1 < q * HEADER + HEADER
  BY <1>1, <1>4
<1>6. Units(n) = q + 1
  BY <1>3
<1> HIDE DEF q
<1>7. (q + 1) * HEADER = q * HEADER + HEADER /\ q * HEADER \in Nat
  BY <1>1, <1>5
<1>8. QED
  BY <1>1, <1>5, <1>6, <1>7

(* A block as its owner and free see it, header included. *)
Block(b) == [addr |-> b.addr - HEADER, size |-> b.size + HEADER]

(* Two blocks in use never overlap. *)
LEMMA BlocksApart ==
    ASSUME NoWrap, MallocInv, NEW b \in held, NEW c \in held, At(b) < At(c)
    PROVE  Block(b).addr + Block(b).size <= Block(c).addr /\ Block(b).addr < Block(c).addr
<1> DEFINE i == At(b)
           k == At(c)
<1>1. Running /\ HeldInv
  BY Zenon, RunningFacts DEF MallocInv
<1>2. i \in DOMAIN size \ {base} /\ k \in DOMAIN size \ {base}
  BY <1>1 DEF HeldInv, Running, FreeOK, ListOK
<1>3. i \in Nat /\ k \in Nat /\ size[i] \in Nat \ {0} /\ i + size[i] <= k
  BY <1>1, <1>2, MallocAssumption DEF Running, FreeOK, Tiles
<1>4. /\ b.addr = (i + 1) * HEADER /\ c.addr = (k + 1) * HEADER
      /\ size[i] = Units(b.size) /\ b.size \in Sizes /\ b.size \in Nat
  <2>1. b \in [addr : Nat, size : Sizes] /\ size[i] = Units(b.size) /\ b.addr = (i + 1) * HEADER
    BY <1>1 DEF HeldInv
  <2>2. c.addr = (k + 1) * HEADER
    BY <1>1 DEF HeldInv
  <2>3. b.size \in Sizes
    BY <2>1
  <2>4. Sizes \subseteq Nat
    BY SizesNat
  <2>5. QED
    BY Zenon, <2>1, <2>2, <2>3, <2>4
<1>5. b.size + HEADER <= size[i] * HEADER
  BY <1>4, UnitsSuffice
<1> HIDE DEF i, k
<1> DEFINE z == size[i]
<1> HIDE DEF z
<1>6. HEADER \in Nat \ {0}
  BY MallocAssumption
<1>7. \A x, y, w \in Nat, h \in Nat \ {0} :
          x + y <= w => (x + 1) * h - h = x * h /\ x * h + y * h <= w * h
                        /\ x * h \in Nat /\ y * h \in Nat /\ w * h \in Nat
  <2>1. \A x, y, w, h \in Nat : x <= y => x * h <= y * h
    OBVIOUS
  <2>2. \A x, y, h \in Nat : (x + y) * h = x * h + y * h /\ x + y \in Nat /\ x * h \in Nat
    OBVIOUS
  <2>3. \A h \in Nat : 1 * h = h
    OBVIOUS
  <2>4. QED
    BY <2>1, <2>2, <2>3
<1>8. /\ (i + 1) * HEADER - HEADER = i * HEADER /\ (k + 1) * HEADER - HEADER = k * HEADER
      /\ i * HEADER + z * HEADER <= k * HEADER
      /\ i * HEADER \in Nat /\ k * HEADER \in Nat /\ z * HEADER \in Nat
  <2>1. z \in Nat /\ i + z <= k /\ k + 0 <= k
    BY <1>3 DEF z
  <2>2. /\ (i + 1) * HEADER - HEADER = i * HEADER /\ i * HEADER + z * HEADER <= k * HEADER
        /\ i * HEADER \in Nat /\ k * HEADER \in Nat /\ z * HEADER \in Nat
    BY <1>3, <1>6, <1>7, <2>1
  <2>3. (k + 1) * HEADER - HEADER = k * HEADER
    BY <1>3, <1>6, <1>7, <2>1
  <2>4. QED
    BY <2>2, <2>3
<1>9. /\ Block(b).addr = i * HEADER /\ Block(c).addr = k * HEADER
      /\ Block(b).size = b.size + HEADER /\ b.size + HEADER <= z * HEADER
  BY <1>4, <1>5, <1>8 DEF Block, i, k, z
<1>10. QED
  BY <1>4, <1>6, <1>8, <1>9

(* No two blocks in use overlap, unless a size wrapped. *)
AllApart ==
    NoWrap => \A a, b \in held :
                 a # b => UserHeap!Apart(Block(a), Block(b)) /\ Block(a) # Block(b)

(* In any state that the invariant allows. *)
LEMMA ApartLemma == MallocInv => AllApart
<1> SUFFICES ASSUME MallocInv, NoWrap, NEW a \in held, NEW b \in held, a # b
             PROVE  UserHeap!Apart(Block(a), Block(b)) /\ Block(a) # Block(b)
  BY DEF AllApart
<1>1. Running /\ HeldInv
  BY RunningFacts DEF MallocInv
<1>2. At(a) \in Nat /\ At(b) \in Nat
  <2>1. At(a) \in DOMAIN size \ {base} /\ At(b) \in DOMAIN size \ {base}
    BY <1>1 DEF HeldInv, Running, FreeOK, ListOK
  <2>2. QED
    BY <1>1, <2>1, MallocAssumption DEF Running, FreeOK, Tiles
<1>3. At(a) # At(b)
  BY <1>1 DEF HeldInv
<1>4. At(a) < At(b) \/ At(b) < At(a)
  BY <1>2, <1>3
<1>5. Block(a).addr \in Int /\ Block(b).addr \in Int
  BY <1>1, MallocAssumption DEF HeldInv, Block
<1>6. CASE At(a) < At(b)
  BY <1>5, <1>6, BlocksApart DEF UserHeap!Apart
<1>7. CASE At(b) < At(a)
  BY <1>5, <1>7, BlocksApart DEF UserHeap!Apart
<1>8. QED
  BY <1>4, <1>6, <1>7

(* And in the next one. *)
LEMMA ApartNext == MallocInv' => AllApart'
  BY ApartLemma, PTL

(* malloc.c promises what Heap does, for sizes that do not wrap: a block   *)
(* that malloc returns, with its header, overlaps none that is in use, and *)
(* free takes back just the one it is given.                               *)
THEOREM MallocImplementsHeap ==
    ASSUME NoWrap
    PROVE  Spec => HeapSpec
<1>1. Blocks = {Block(b) : b \in held} /\ Blocks' = {Block(b) : b \in held'}
  BY DEF Blocks, Block
<1>2. Init => UserHeap!Init
  BY DEF Init, UserHeap!Init, Blocks
<1>3. ASSUME MallocInv, MallocInv', [Next]_vars
      PROVE  [UserHeap!Next]_Blocks
  <2>1. CASE held' = held
    BY <2>1 DEF Blocks
  <2>2. ASSUME NEW b, held' = held \cup {b}, b \notin held
        PROVE  UserHeap!Alloc
    <3>1. Blocks' = Blocks \cup {Block(b)}
      BY <1>1, <2>2
    <3>2. \A a \in held' : a # b => UserHeap!Apart(Block(a), Block(b)) /\ Block(a) # Block(b)
      BY <1>3, <2>2, ApartNext DEF AllApart, UserHeap!Apart, NoWrap
    <3>3. \A a \in Blocks : UserHeap!Apart(a, Block(b)) /\ a # Block(b)
      BY <1>1, <2>2, <3>2
    <3>4. QED
      BY <3>1, <3>3 DEF UserHeap!Alloc
  <2>3. CASE malloc_exact \/ malloc_split
    <3>1. PICK b : held' = held \cup {b}
      BY Zenon, <2>3 DEF malloc_exact, malloc_split, Hand
    <3>2. QED
      BY <2>1, <2>2, <3>1 DEF UserHeap!Next
  <2>4. ASSUME NEW b \in held, free(b)
        PROVE  UserHeap!Free
    <3>1. held' = held \ {b}
      BY <2>4 DEF free
    <3>2. \A a \in held : a # b => Block(a) # Block(b)
      BY <1>3, ApartLemma DEF AllApart
    <3>3. Blocks' = Blocks \ {Block(b)}
      BY <1>1, <3>1, <3>2
    <3>4. QED
      BY Zenon, <1>1, <3>3 DEF UserHeap!Free
  <2>5. CASE UNCHANGED held
    BY <2>1, <2>5
  <2>6. QED
    BY <1>3, <2>3, <2>4, <2>5 DEF Next, Search, vars, UserHeap!Next, malloc, malloc_next,
       grow_heap, grow_heap_fails, free_next, free_insert
<1>4. QED
  BY <1>2, <1>3, MallocInvariant, PTL DEF Spec, HeapSpec, UserHeap!Spec

=============================================================================
