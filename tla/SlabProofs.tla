----------------------------- MODULE SlabProofs -----------------------------
(***************************************************************************)
(* Proofs about the kernel heap, for every number of pages, every table of *)
(* caches and every sequence of calls: the chunks of a slab are shared out *)
(* between its free list and the holders, the lists stay linked however    *)
(* slabs move between them, a slab is kept as long as it is used, kmalloc  *)
(* fails only when it must, and the blocks handed out never overlap.       *)
(***************************************************************************)
EXTENDS Slab, FiniteSetTheorems, TLAPS

(* Every non-empty set of naturals has a least member. *)
LEMMA LeastNat ==
    ASSUME NEW T \in SUBSET Nat, T # {}
    PROVE  \E x \in T : \A y \in T : x <= y
<1> DEFINE Lt == {ss \in Nat \X Nat : ss[1] < ss[2]}
<1>1. IsWellFoundedOn(Lt, Nat)
  BY NatLessThanWellFounded, Zenon DEF OpToRel
<1>2. PICK x \in T : \A y \in T : ~ (<<y, x>> \in Lt)
  BY Zenon, <1>1, WFMin
<1>3. \A y \in T : ~ (y < x)
  BY Zenon, <1>2
<1> QED
  BY <1>3

(* The memory of the allocator. *)
Links    == [Page -> Page \cup {NULL}]
HeapType ==
    [slab : [Page -> SlabType], next : Links, prev : Links,
     head : [Cache -> [List -> Page \cup {NULL}]], free_pages : SUBSET Page]

(* Where pages can be: on a list of a cache, or nowhere. *)
Spots == (Cache \X List) \cup {Nowhere}

(* No list runs in a circle: pages can be numbered so that links lead up. *)
Ordered(h, on, rank) ==
    \A p \in Page : on[p] # Nowhere /\ h.next[p] # NULL => rank[p] < rank[h.next[p]]

Acyclic(h, on) == \E rank \in [Page -> Nat] : Ordered(h, on, rank)

(* NULL is no page, and no list of a cache is Nowhere. *)
LEMMA Distinct ==
    /\ NULL \notin Page
    /\ \A c \in Cache, l \in List : <<c, l>> # Nowhere
<1>1. Pages \in Nat /\ NULL \notin Int
  BY SlabAssumption
<1>2. NULL \notin Page
  BY <1>1 DEF Page
<1>3. ASSUME NEW c \in Cache, NEW l \in List
      PROVE  <<c, l>> # Nowhere
  <2>1. l # "none"
    BY DEF List
  <2> QED
    BY <2>1 DEF Nowhere
<1> QED
  BY <1>2, <1>3

(* What list_remove writes. *)
LEMMA RemoveFields ==
    ASSUME NEW h \in HeapType, NEW c \in Cache, NEW l \in List, NEW s \in Page
    PROVE  LET g == list_remove(h, c, l, s)
           IN  /\ g \in HeapType /\ g.slab = h.slab /\ g.free_pages = h.free_pages
               /\ \A q \in Page :
                     /\ g.next[q] = IF q = h.prev[s] THEN h.next[s] ELSE h.next[q]
                     /\ g.prev[q] = IF q = h.next[s] THEN h.prev[s] ELSE h.prev[q]
               /\ \A d \in Cache, m \in List :
                     g.head[d][m] = IF <<d, m>> = <<c, l>> /\ h.head[c][l] = s
                                    THEN h.next[s] ELSE h.head[d][m]
<1> DEFINE g == list_remove(h, c, l, s)
           nx == [q \in Page |-> IF q = h.prev[s] THEN h.next[s] ELSE h.next[q]]
           pv == [q \in Page |-> IF q = h.next[s] THEN h.prev[s] ELSE h.prev[q]]
           to == IF h.head[c][l] = s THEN h.next[s] ELSE h.head[c][l]
           hd == [h.head EXCEPT ![c] = [h.head[c] EXCEPT ![l] = to]]
<1>1. /\ h.next \in Links /\ h.prev \in Links /\ h.free_pages \in SUBSET Page
      /\ h.slab \in [Page -> SlabType] /\ h.head \in [Cache -> [List -> Page \cup {NULL}]]
  BY DEF HeapType
<1>2. nx \in Links /\ pv \in Links /\ to \in Page \cup {NULL}
  BY <1>1 DEF Links
<1>3. hd \in [Cache -> [List -> Page \cup {NULL}]]
  BY <1>1, <1>2
<1>4. g = [h EXCEPT !.next = nx, !.prev = pv, !.head = hd]
  BY DEF list_remove, HeapType
<1>5. /\ g.next = nx /\ g.prev = pv /\ g.head = hd
      /\ g.slab = h.slab /\ g.free_pages = h.free_pages /\ g \in HeapType
  BY Zenon, <1>1, <1>2, <1>3, <1>4 DEF HeapType
<1>6. ASSUME NEW d \in Cache, NEW m \in List
      PROVE  hd[d][m] = IF <<d, m>> = <<c, l>> /\ h.head[c][l] = s
                        THEN h.next[s] ELSE h.head[d][m]
  BY <1>1
<1> QED
  BY <1>5, <1>6

(* What list_add writes. *)
LEMMA AddFields ==
    ASSUME NEW h \in HeapType, NEW c \in Cache, NEW l \in List, NEW s \in Page
    PROVE  LET g == list_add(h, c, l, s)
           IN  /\ g \in HeapType /\ g.slab = h.slab /\ g.free_pages = h.free_pages
               /\ \A q \in Page :
                     /\ g.next[q] = IF q = s THEN h.head[c][l] ELSE h.next[q]
                     /\ g.prev[q] = IF q = s THEN NULL
                                    ELSE IF q = h.head[c][l] THEN s ELSE h.prev[q]
               /\ \A d \in Cache, m \in List :
                     g.head[d][m] = IF <<d, m>> = <<c, l>> THEN s ELSE h.head[d][m]
<1> DEFINE g == list_add(h, c, l, s)
           nx == [h.next EXCEPT ![s] = h.head[c][l]]
           pv == [q \in Page |-> IF q = s THEN NULL
                                 ELSE IF q = h.head[c][l] THEN s ELSE h.prev[q]]
           hd == [h.head EXCEPT ![c] = [h.head[c] EXCEPT ![l] = s]]
<1>1. /\ h.next \in Links /\ h.prev \in Links /\ h.free_pages \in SUBSET Page
      /\ h.slab \in [Page -> SlabType] /\ h.head \in [Cache -> [List -> Page \cup {NULL}]]
  BY DEF HeapType
<1>2. nx \in Links /\ pv \in Links
  BY <1>1 DEF Links
<1>3. hd \in [Cache -> [List -> Page \cup {NULL}]]
  BY <1>1
<1>4. g = [h EXCEPT !.next = nx, !.prev = pv, !.head = hd]
  BY DEF list_add, HeapType
<1>5. /\ g.next = nx /\ g.prev = pv /\ g.head = hd
      /\ g.slab = h.slab /\ g.free_pages = h.free_pages /\ g \in HeapType
  BY Zenon, <1>1, <1>2, <1>3, <1>4 DEF HeapType
<1>6. ASSUME NEW d \in Cache, NEW m \in List
      PROVE  hd[d][m] = IF <<d, m>> = <<c, l>> THEN s ELSE h.head[d][m]
  BY <1>1
<1>7. ASSUME NEW q \in Page
      PROVE  nx[q] = IF q = s THEN h.head[c][l] ELSE h.next[q]
  BY <1>1 DEF Links
<1> QED
  BY <1>5, <1>6, <1>7
(* list_remove takes the slab off its list and leaves every list linked. *)
LEMMA RemoveLinked ==
    ASSUME NEW h \in HeapType, NEW on \in [Page -> Spots], Linked(h, on),
           NEW c \in Cache, NEW l \in List, NEW s \in Page, on[s] = <<c, l>>
    PROVE  Linked(list_remove(h, c, l, s), [on EXCEPT ![s] = Nowhere])
<1> DEFINE g  == list_remove(h, c, l, s)
           no == [on EXCEPT ![s] = Nowhere]
<1> USE Distinct
<1>1. /\ \A q \in Page :
            /\ g.next[q] = IF q = h.prev[s] THEN h.next[s] ELSE h.next[q]
            /\ g.prev[q] = IF q = h.next[s] THEN h.prev[s] ELSE h.prev[q]
      /\ \A d \in Cache, m \in List :
            g.head[d][m] = IF <<d, m>> = <<c, l>> /\ h.head[c][l] = s
                           THEN h.next[s] ELSE h.head[d][m]
  BY RemoveFields
<1>2. /\ \A q \in Page : h.next[q] \in Page \cup {NULL} /\ h.prev[q] \in Page \cup {NULL}
      /\ \A d \in Cache, m \in List : h.head[d][m] \in Page \cup {NULL}
  BY DEF HeapType, Links
<1>3. \A q \in Page : no[q] = IF q = s THEN Nowhere ELSE on[q]
  OBVIOUS
<1>4. \A d \in Cache, m \in List :
         h.head[d][m] # NULL =>
             on[h.head[d][m]] = <<d, m>> /\ h.prev[h.head[d][m]] = NULL
  BY DEF Linked
<1>5. \A p \in Page : on[p] # Nowhere =>
         /\ h.next[p] # NULL => on[h.next[p]] = on[p] /\ h.prev[h.next[p]] = p
         /\ h.prev[p] # NULL => on[h.prev[p]] = on[p] /\ h.next[h.prev[p]] = p
         /\ h.prev[p] = NULL => h.head[on[p][1]][on[p][2]] = p
  BY DEF Linked
<1> HIDE DEF g, no
<1>6. on[s] # Nowhere /\ on[s][1] = c /\ on[s][2] = l
  OBVIOUS
<1>7. ASSUME NEW d \in Cache, NEW m \in List, g.head[d][m] # NULL
      PROVE  no[g.head[d][m]] = <<d, m>> /\ g.prev[g.head[d][m]] = NULL
  <2>1. CASE <<d, m>> = <<c, l>> /\ h.head[c][l] = s
    <3>1. g.head[d][m] = h.next[s] /\ h.next[s] \in Page /\ h.prev[s] = NULL
      BY <1>1, <1>2, <1>4, <1>7, <2>1
    <3>2. on[h.next[s]] = <<d, m>> /\ h.prev[h.next[s]] = s
      BY Zenon, <1>5, <1>6, <2>1, <3>1
    <3> QED
      BY <1>1, <1>3, <3>1, <3>2
  <2>2. CASE ~ (<<d, m>> = <<c, l>> /\ h.head[c][l] = s)
    <3>1. g.head[d][m] = h.head[d][m] /\ h.head[d][m] \in Page
      BY <1>1, <1>2, <1>7, <2>2
    <3>2. on[h.head[d][m]] = <<d, m>> /\ h.prev[h.head[d][m]] = NULL
      BY <1>4, <3>1
    <3>3. h.head[d][m] # s
      BY <2>2, <3>2
    <3>4. h.next[s] # NULL => h.prev[h.next[s]] = s
      BY <1>5, <1>6
    <3>5. h.head[d][m] # h.next[s]
      BY <3>1, <3>2, <3>4
    <3> QED
      BY <1>1, <1>3, <3>1, <3>2, <3>3, <3>5
  <2> QED
    BY <2>1, <2>2
<1>8. ASSUME NEW q \in Page, no[q] # Nowhere
      PROVE  /\ g.next[q] # NULL => no[g.next[q]] = no[q] /\ g.prev[g.next[q]] = q
             /\ g.prev[q] # NULL => no[g.prev[q]] = no[q] /\ g.next[g.prev[q]] = q
             /\ g.prev[q] = NULL => g.head[no[q][1]][no[q][2]] = q
  <2>1. q # s /\ no[q] = on[q] /\ on[q] # Nowhere
    BY <1>3, <1>8
  <2>2. PICK d \in Cache, m \in List : on[q] = <<d, m>>
    BY <2>1 DEF Spots
  <2>3. g.next[q] # NULL => no[g.next[q]] = no[q] /\ g.prev[g.next[q]] = q
    <3>1. CASE q = h.prev[s] /\ h.next[s] # NULL
      <4>1. g.next[q] = h.next[s] /\ h.next[s] \in Page
        BY <1>1, <1>2, <3>1
      <4>2. on[h.next[s]] = on[s] /\ h.prev[h.next[s]] = s /\ on[q] = on[s]
        BY Zenon, <1>5, <1>6, <3>1
      <4>3. h.next[s] # s
        BY <4>2, <3>1, <2>1
      <4> QED
        BY <1>1, <1>3, <2>1, <3>1, <4>1, <4>2, <4>3
    <3>2. CASE q # h.prev[s] /\ h.next[q] # NULL
      <4>1. g.next[q] = h.next[q] /\ h.next[q] \in Page
        BY <1>1, <1>2, <3>2
      <4>2. on[h.next[q]] = on[q] /\ h.prev[h.next[q]] = q
        BY <1>5, <2>1, <3>2
      <4>3. h.next[q] # s /\ h.next[q] # h.next[s]
        BY Zenon, <1>5, <1>6, <2>1, <3>2, <4>2
      <4> QED
        BY <1>1, <1>3, <2>1, <4>1, <4>2, <4>3
    <3> QED
      BY <1>1, <3>1, <3>2
  <2>4. g.prev[q] # NULL => no[g.prev[q]] = no[q] /\ g.next[g.prev[q]] = q
    <3>1. CASE q = h.next[s] /\ h.prev[s] # NULL
      <4>1. g.prev[q] = h.prev[s] /\ h.prev[s] \in Page
        BY <1>1, <1>2, <3>1
      <4>2. on[h.prev[s]] = on[s] /\ h.next[h.prev[s]] = s /\ on[q] = on[s]
        BY Zenon, <1>5, <1>6, <3>1
      <4>3. h.prev[s] # s
        BY <4>2, <3>1, <2>1
      <4> QED
        BY <1>1, <1>3, <2>1, <3>1, <4>1, <4>2, <4>3
    <3>2. CASE q # h.next[s] /\ h.prev[q] # NULL
      <4>1. g.prev[q] = h.prev[q] /\ h.prev[q] \in Page
        BY <1>1, <1>2, <3>2
      <4>2. on[h.prev[q]] = on[q] /\ h.next[h.prev[q]] = q
        BY <1>5, <2>1, <3>2
      <4>3. h.prev[q] # s /\ h.prev[q] # h.prev[s]
        BY Zenon, <1>5, <1>6, <2>1, <3>2, <4>2
      <4> QED
        BY <1>1, <1>3, <2>1, <4>1, <4>2, <4>3
    <3> QED
      BY <1>1, <3>1, <3>2
  <2>5. g.prev[q] = NULL => g.head[d][m] = q
    <3>1. CASE q = h.next[s] /\ h.prev[s] = NULL
      <4>1. h.head[c][l] = s /\ on[q] = on[s]
        BY Zenon, <1>5, <1>6, <3>1
      <4> QED
        BY <1>1, <2>2, <3>1, <4>1
    <3>2. CASE q # h.next[s] /\ h.prev[q] = NULL
      <4>1. h.head[on[q][1]][on[q][2]] = q
        BY <1>5, <2>1, <3>2
      <4>2. h.head[d][m] = q
        BY <2>2, <4>1
      <4> QED
        BY <1>1, <2>1, <4>2
    <3> QED
      BY <1>1, <3>1, <3>2
  <2> QED
    BY <2>1, <2>2, <2>3, <2>4, <2>5
<1> QED
  BY <1>7, <1>8 DEF Linked, g, no

(* list_add puts a slab that is on no list at the head of one. *)
LEMMA AddLinked ==
    ASSUME NEW h \in HeapType, NEW on \in [Page -> Spots], Linked(h, on),
           NEW c \in Cache, NEW l \in List, NEW s \in Page, on[s] = Nowhere
    PROVE  Linked(list_add(h, c, l, s), [on EXCEPT ![s] = <<c, l>>])
<1> DEFINE g  == list_add(h, c, l, s)
           no == [on EXCEPT ![s] = <<c, l>>]
           o  == h.head[c][l]
<1> USE Distinct
<1>1. /\ \A q \in Page :
            /\ g.next[q] = IF q = s THEN o ELSE h.next[q]
            /\ g.prev[q] = IF q = s THEN NULL ELSE IF q = o THEN s ELSE h.prev[q]
      /\ \A d \in Cache, m \in List :
            g.head[d][m] = IF <<d, m>> = <<c, l>> THEN s ELSE h.head[d][m]
  BY AddFields
<1>2. /\ \A q \in Page : h.next[q] \in Page \cup {NULL} /\ h.prev[q] \in Page \cup {NULL}
      /\ \A d \in Cache, m \in List : h.head[d][m] \in Page \cup {NULL}
  BY DEF HeapType, Links
<1>3. \A q \in Page : no[q] = IF q = s THEN <<c, l>> ELSE on[q]
  OBVIOUS
<1>4. \A d \in Cache, m \in List :
         h.head[d][m] # NULL =>
             on[h.head[d][m]] = <<d, m>> /\ h.prev[h.head[d][m]] = NULL
  BY DEF Linked
<1>5. \A p \in Page : on[p] # Nowhere =>
         /\ h.next[p] # NULL => on[h.next[p]] = on[p] /\ h.prev[h.next[p]] = p
         /\ h.prev[p] # NULL => on[h.prev[p]] = on[p] /\ h.next[h.prev[p]] = p
         /\ h.prev[p] = NULL => h.head[on[p][1]][on[p][2]] = p
  BY DEF Linked
<1>6. o \in Page \cup {NULL} /\ (o # NULL => on[o] = <<c, l>> /\ h.prev[o] = NULL /\ o # s)
  BY Zenon, <1>2, <1>4
<1> HIDE DEF g, no, o
<1>7. ASSUME NEW d \in Cache, NEW m \in List, g.head[d][m] # NULL
      PROVE  no[g.head[d][m]] = <<d, m>> /\ g.prev[g.head[d][m]] = NULL
  <2>1. CASE <<d, m>> = <<c, l>>
    BY <1>1, <1>3, <2>1
  <2>2. CASE <<d, m>> # <<c, l>>
    <3>1. g.head[d][m] = h.head[d][m] /\ h.head[d][m] \in Page
      BY <1>1, <1>2, <1>7, <2>2
    <3>2. on[h.head[d][m]] = <<d, m>> /\ h.prev[h.head[d][m]] = NULL
      BY <1>4, <3>1
    <3>3. h.head[d][m] # s /\ h.head[d][m] # o
      BY <1>6, <2>2, <3>1, <3>2
    <3> QED
      BY <1>1, <1>3, <3>1, <3>2, <3>3
  <2> QED
    BY <2>1, <2>2
<1>8. ASSUME NEW q \in Page, no[q] # Nowhere
      PROVE  /\ g.next[q] # NULL => no[g.next[q]] = no[q] /\ g.prev[g.next[q]] = q
             /\ g.prev[q] # NULL => no[g.prev[q]] = no[q] /\ g.next[g.prev[q]] = q
             /\ g.prev[q] = NULL => g.head[no[q][1]][no[q][2]] = q
  <2>1. CASE q = s
    <3>1. g.next[q] = o /\ g.prev[q] = NULL /\ no[q] = <<c, l>>
      BY <1>1, <1>3, <2>1
    <3>2. o # NULL => no[o] = <<c, l>> /\ g.prev[o] = s
      BY <1>1, <1>3, <1>6
    <3>3. g.head[no[q][1]][no[q][2]] = s
      BY <1>1, <3>1
    <3> QED
      BY <2>1, <3>1, <3>2, <3>3
  <2>2. CASE q # s
    <3>1. no[q] = on[q] /\ on[q] # Nowhere /\ g.next[q] = h.next[q]
      BY <1>1, <1>3, <1>8, <2>2
    <3>2. PICK d \in Cache, m \in List : on[q] = <<d, m>>
      BY <3>1 DEF Spots
    <3>3. g.next[q] # NULL => no[g.next[q]] = no[q] /\ g.prev[g.next[q]] = q
      <4> HAVE g.next[q] # NULL
      <4>1. h.next[q] \in Page /\ on[h.next[q]] = on[q] /\ h.prev[h.next[q]] = q
        BY <1>2, <1>5, <3>1
      <4>2. h.next[q] # s /\ h.next[q] # o
        BY <1>6, <3>1, <4>1
      <4> QED
        BY <1>1, <1>3, <3>1, <4>1, <4>2
    <3>4. CASE q = o
      <4>1. on[q] = <<c, l>> /\ g.prev[q] = s
        BY <1>1, <1>6, <2>2, <3>4
      <4>2. no[s] = <<c, l>> /\ g.next[s] = q
        BY <1>1, <1>3, <3>4
      <4> QED
        BY <3>1, <3>3, <4>1, <4>2
    <3>5. CASE q # o
      <4>1. g.prev[q] = h.prev[q]
        BY <1>1, <2>2, <3>5
      <4>2. g.prev[q] # NULL => no[g.prev[q]] = no[q] /\ g.next[g.prev[q]] = q
        <5> HAVE g.prev[q] # NULL
        <5>1. h.prev[q] \in Page /\ on[h.prev[q]] = on[q] /\ h.next[h.prev[q]] = q
          BY <1>2, <1>5, <3>1, <4>1
        <5>2. h.prev[q] # s
          BY <3>1, <5>1
        <5> QED
          BY <1>1, <1>3, <3>1, <4>1, <5>1, <5>2
      <4>3. g.prev[q] = NULL => g.head[d][m] = q
        <5> HAVE g.prev[q] = NULL
        <5>1. h.head[on[q][1]][on[q][2]] = q
          BY <1>5, <3>1, <4>1
        <5>2. h.head[d][m] = q
          BY <3>2, <5>1
        <5>3. <<d, m>> # <<c, l>>
          BY <3>5, <5>2 DEF o
        <5> QED
          BY <1>1, <5>2, <5>3
      <4> QED
        BY <3>1, <3>2, <3>3, <4>2, <4>3
    <3> QED
      BY <3>4, <3>5
  <2> QED
    BY <2>1, <2>2
<1> QED
  BY Zenon, <1>7, <1>8 DEF Linked, g, no

(* list_remove shortens the way round and list_add starts a new one, so    *)
(* neither closes a circle.                                                *)
LEMMA RemoveAcyclic ==
    ASSUME NEW h \in HeapType, NEW on \in [Page -> Spots], Linked(h, on), Acyclic(h, on),
           NEW c \in Cache, NEW l \in List, NEW s \in Page, on[s] = <<c, l>>
    PROVE  Acyclic(list_remove(h, c, l, s), [on EXCEPT ![s] = Nowhere])
<1> DEFINE g  == list_remove(h, c, l, s)
           no == [on EXCEPT ![s] = Nowhere]
<1> USE Distinct
<1>1. PICK rank \in [Page -> Nat] : Ordered(h, on, rank)
  BY DEF Acyclic
<1>2. \A q \in Page : g.next[q] = IF q = h.prev[s] THEN h.next[s] ELSE h.next[q]
  BY RemoveFields
<1>3. \A q \in Page : h.next[q] \in Page \cup {NULL} /\ h.prev[q] \in Page \cup {NULL}
  BY DEF HeapType, Links
<1>4. \A q \in Page : no[q] = IF q = s THEN Nowhere ELSE on[q]
  OBVIOUS
<1>5. h.prev[s] # NULL => on[h.prev[s]] = on[s] /\ h.next[h.prev[s]] = s
  <2>1. on[s] # Nowhere
    OBVIOUS
  <2> QED
    BY Zenon, <2>1 DEF Linked
<1> HIDE DEF g, no
<1>6. ASSUME NEW q \in Page, no[q] # Nowhere, g.next[q] # NULL
      PROVE  rank[q] < rank[g.next[q]]
  <2>1. q # s /\ on[q] # Nowhere
    BY <1>4, <1>6
  <2>2. CASE q = h.prev[s]
    <3>1. g.next[q] = h.next[s] /\ h.next[s] \in Page /\ on[s] # Nowhere /\ h.next[q] = s
      BY <1>2, <1>3, <1>5, <1>6, <2>2
    <3>2. rank[q] < rank[s] /\ rank[s] < rank[h.next[s]]
      BY <1>1, <2>1, <3>1 DEF Ordered
    <3>3. rank[q] \in Nat /\ rank[s] \in Nat /\ rank[h.next[s]] \in Nat
      BY <3>1
    <3> QED
      BY <3>1, <3>2, <3>3
  <2>3. CASE q # h.prev[s]
    BY <1>1, <1>2, <1>6, <2>1, <2>3 DEF Ordered
  <2> QED
    BY <2>2, <2>3
<1>7. Ordered(g, no, rank)
  BY <1>6 DEF Ordered
<1> QED
  BY <1>7 DEF Acyclic, g, no

(* The same of list_add. *)
LEMMA AddAcyclic ==
    ASSUME NEW h \in HeapType, NEW on \in [Page -> Spots], Linked(h, on), Acyclic(h, on),
           NEW c \in Cache, NEW l \in List, NEW s \in Page, on[s] = Nowhere
    PROVE  Acyclic(list_add(h, c, l, s), [on EXCEPT ![s] = <<c, l>>])
<1> DEFINE g  == list_add(h, c, l, s)
           no == [on EXCEPT ![s] = <<c, l>>]
<1> USE Distinct
<1>1. PICK rank \in [Page -> Nat] : Ordered(h, on, rank)
  BY DEF Acyclic
<1> DEFINE up == [q \in Page |-> IF q = s THEN 0 ELSE rank[q] + 1]
<1>2. up \in [Page -> Nat] /\ \A q \in Page : up[q] = IF q = s THEN 0 ELSE rank[q] + 1
  OBVIOUS
<1>3. \A q \in Page : g.next[q] = IF q = s THEN h.head[c][l] ELSE h.next[q]
  BY AddFields
<1>4. /\ \A q \in Page : h.next[q] \in Page \cup {NULL}
      /\ h.head[c][l] \in Page \cup {NULL}
  BY DEF HeapType, Links
<1>5. \A q \in Page : no[q] = IF q = s THEN <<c, l>> ELSE on[q]
  OBVIOUS
<1>6. h.head[c][l] # NULL => on[h.head[c][l]] = <<c, l>>
  BY DEF Linked
<1>7. \A q \in Page : on[q] # Nowhere /\ h.next[q] # NULL => on[h.next[q]] = on[q]
  BY DEF Linked
<1> HIDE DEF g, no, up
<1>8. ASSUME NEW q \in Page, no[q] # Nowhere, g.next[q] # NULL
      PROVE  up[q] < up[g.next[q]]
  <2>1. CASE q = s
    <3>1. g.next[q] = h.head[c][l] /\ h.head[c][l] \in Page /\ h.head[c][l] # s
      BY Zenon, <1>3, <1>4, <1>6, <1>8, <2>1
    <3>2. up[q] = 0 /\ up[g.next[q]] = rank[h.head[c][l]] + 1 /\ rank[h.head[c][l]] \in Nat
      BY <1>2, <2>1, <3>1
    <3> QED
      BY <3>2
  <2>2. CASE q # s
    <3>1. on[q] # Nowhere /\ g.next[q] = h.next[q] /\ h.next[q] \in Page
      BY <1>3, <1>4, <1>5, <1>8, <2>2
    <3>2. h.next[q] # s /\ rank[q] < rank[h.next[q]]
      BY <1>1, <1>7, <1>8, <3>1 DEF Ordered
    <3>3. rank[q] \in Nat /\ rank[h.next[q]] \in Nat
      BY <3>1
    <3> QED
      BY <1>2, <2>2, <3>1, <3>2, <3>3
  <2> QED
    BY <2>1, <2>2
<1>9. Ordered(g, no, up)
  BY <1>8 DEF Ordered
<1> QED
  BY <1>2, <1>9 DEF Acyclic, g, no
-----------------------------------------------------------------------------
(* A quotient, and products of one factor. *)
LEMMA Division ==
    ASSUME NEW a \in Nat, NEW b \in Nat \ {0}
    PROVE  a \div b \in Nat /\ (a \div b) * b <= a /\ (b <= a => a \div b >= 1)
  OBVIOUS

(* Multiples are a factor apart. *)
LEMMA Multiples ==
    ASSUME NEW i \in Nat, NEW j \in Nat, NEW z \in Nat, i < j
    PROVE  i * z + z <= j * z /\ i * z \in Nat
  OBVIOUS

(* Every cache has chunks of at least a byte, and one of them fits. *)
LEMMA CacheFits ==
    ASSUME NEW c \in Cache
    PROVE  /\ CACHE_SIZES[c] \in Nat \ {0} /\ CACHE_SIZES[c] <= MaxSize
           /\ PAGE_SIZE - DATA_START \in Nat /\ DATA_START \in Nat /\ PAGE_SIZE \in Nat
           /\ total_chunks(c) \in Nat /\ total_chunks(c) >= 1
           /\ total_chunks(c) * CACHE_SIZES[c] <= PAGE_SIZE - DATA_START
<1>1. /\ CACHE_SIZES \in Seq(Nat \ {0}) /\ CACHE_SIZES # <<>>
      /\ PAGE_SIZE \in Nat /\ DATA_START \in 0 .. PAGE_SIZE
      /\ DATA_START + MaxSize <= PAGE_SIZE
  BY SlabAssumption
<1>2. Len(CACHE_SIZES) \in Nat /\ Len(CACHE_SIZES) # 0
  BY <1>1
<1>3. Len(CACHE_SIZES) \in Cache /\ \A d \in Cache : CACHE_SIZES[d] \in Nat \ {0}
  BY <1>1, <1>2 DEF Cache
<1>4. c = Len(CACHE_SIZES) \/ c < Len(CACHE_SIZES)
  BY <1>2 DEF Cache
<1>5. CACHE_SIZES[c] <= MaxSize /\ MaxSize \in Nat
  BY <1>3, <1>4, SlabAssumption DEF MaxSize
<1>6. PAGE_SIZE - DATA_START \in Nat /\ CACHE_SIZES[c] <= PAGE_SIZE - DATA_START
  BY <1>1, <1>3, <1>5
<1>7. DATA_START \in Nat /\ PAGE_SIZE \in Nat
  BY <1>1
<1>8. CACHE_SIZES[c] \in Nat \ {0}
  BY <1>3
<1>9. /\ total_chunks(c) \in Nat /\ total_chunks(c) >= 1
      /\ total_chunks(c) * CACHE_SIZES[c] <= PAGE_SIZE - DATA_START
  BY <1>6, <1>8, Division DEF total_chunks
<1> QED
  BY <1>5, <1>6, <1>7, <1>8, <1>9

(* The chunks of a slab: numbers, as many as were counted, that lie within *)
(* the page and at least their size apart.                                 *)
LEMMA ChunkFacts ==
    ASSUME NEW c \in Cache
    PROVE  /\ Chunks(c) \in Seq(Nat) /\ Len(Chunks(c)) = total_chunks(c)
           /\ IsInjective(Chunks(c))
           /\ \A x \in Range(Chunks(c)) :
                 x \in DATA_START .. PAGE_SIZE /\ x + CACHE_SIZES[c] <= PAGE_SIZE
           /\ \A x, y \in Range(Chunks(c)) :
                 x = y \/ x + CACHE_SIZES[c] <= y \/ y + CACHE_SIZES[c] <= x
<1> DEFINE n == total_chunks(c)
           z == CACHE_SIZES[c]
<1>1. /\ z \in Nat /\ z >= 1 /\ n \in Nat /\ n >= 1 /\ n * z <= PAGE_SIZE - DATA_START
      /\ DATA_START \in Nat /\ PAGE_SIZE \in Nat
  BY CacheFits
<1>2. Chunks(c) = [i \in 1 .. n |-> DATA_START + (n - i) * z]
  BY DEF Chunks
<1> HIDE DEF n, z
<1>3. ASSUME NEW i \in 1 .. n
      PROVE  /\ (n - i) * z \in Nat
             /\ DATA_START + (n - i) * z + z <= PAGE_SIZE
  <2>1. n - i \in Nat /\ n - i < n
    BY <1>1
  <2>2. (n - i) * z + z <= n * z /\ (n - i) * z \in Nat
    BY <1>1, <2>1, Multiples
  <2>3. n * z \in Nat
    BY <1>1
  <2> QED
    BY <1>1, <2>2, <2>3
<1>4. ASSUME NEW i \in 1 .. n, NEW j \in 1 .. n, i < j
      PROVE  (DATA_START + (n - j) * z) + z <= DATA_START + (n - i) * z
  <2>1. n - i \in Nat /\ n - j \in Nat /\ n - j < n - i
    BY <1>1, <1>4
  <2>2. (n - j) * z + z <= (n - i) * z
    BY <1>1, <2>1, Multiples
  <2> QED
    BY <1>1, <1>3, <2>2
<1>5. Chunks(c) \in [1 .. n -> Nat]
  BY <1>1, <1>2, <1>3
<1>6. Chunks(c) \in Seq(Nat) /\ Len(Chunks(c)) = n
  BY <1>1, <1>5
<1>7. \A i \in 1 .. n : Chunks(c)[i] \in DATA_START .. PAGE_SIZE /\ Chunks(c)[i] + z <= PAGE_SIZE
  BY <1>1, <1>2, <1>3
<1>8. \A i, j \in 1 .. n : i < j => Chunks(c)[j] + z <= Chunks(c)[i]
  BY <1>2, <1>4
<1>9. \A i, j \in 1 .. n : i = j \/ Chunks(c)[i] + z <= Chunks(c)[j] \/ Chunks(c)[j] + z <= Chunks(c)[i]
  BY <1>1, <1>8
<1>10. IsInjective(Chunks(c))
  BY <1>1, <1>5, <1>9 DEF IsInjective
<1>11. \A x \in Range(Chunks(c)) : \E i \in 1 .. n : x = Chunks(c)[i]
  BY <1>5 DEF Range
<1> QED
  BY <1>6, <1>7, <1>9, <1>10, <1>11 DEF n, z

(* A list without repetition has as many elements as places. *)
LEMMA CountInjective ==
    ASSUME NEW S, NEW q \in Seq(S), IsInjective(q)
    PROVE  IsFiniteSet(Range(q)) /\ Cardinality(Range(q)) = Len(q)
<1>1. Len(q) \in Nat /\ q \in [1 .. Len(q) -> S]
  OBVIOUS
<1>2. q \in Bijection(1 .. Len(q), Range(q))
  BY <1>1 DEF IsInjective, Range, Bijection, Injection, Surjection
<1>3. ExistsBijection(1 .. Len(q), Range(q))
  BY <1>2 DEF ExistsBijection
<1>4. IsFiniteSet(Range(q))
  BY <1>1, <1>3, FS_NatBijection
<1>5. Cardinality(Range(q)) = Len(q)
  BY <1>1, <1>3, FS_CountingElements
<1> QED
  BY <1>4, <1>5

(* A sequence of numbers as a function. *)
LEMMA SeqFunction == \A t \in Seq(Nat) : t \in [1 .. Len(t) -> Nat]
  OBVIOUS

(* The first chunk of a free list is taken off. *)
LEMMA TailShares ==
    ASSUME NEW q \in Seq(Nat), q # <<>>, IsInjective(q)
    PROVE  /\ Tail(q) \in Seq(Nat) /\ Len(Tail(q)) = Len(q) - 1 /\ IsInjective(Tail(q))
           /\ Head(q) \in Nat /\ Head(q) \in Range(q)
           /\ Range(Tail(q)) = Range(q) \ {Head(q)}
<1>1. /\ Tail(q) \in Seq(Nat) /\ Len(Tail(q)) = Len(q) - 1
      /\ Len(q) \in Nat /\ Len(q) >= 1 /\ q \in [1 .. Len(q) -> Nat] /\ Head(q) = q[1]
      /\ Tail(q) \in [1 .. Len(q) - 1 -> Nat]
      /\ \A i \in 1 .. Len(q) - 1 : Tail(q)[i] = q[i + 1]
  <2>1. Len(q) \in Nat /\ Len(q) >= 1 /\ Head(q) = q[1]
    OBVIOUS
  <2>2. Tail(q) \in Seq(Nat) /\ Len(Tail(q)) = Len(q) - 1
    OBVIOUS
  <2>3. \A i \in 1 .. Len(q) - 1 : Tail(q)[i] = q[i + 1]
    OBVIOUS
  <2>4. q \in [1 .. Len(q) -> Nat] /\ Tail(q) \in [1 .. Len(Tail(q)) -> Nat]
    BY Zenon, <2>2, SeqFunction
  <2> QED
    BY <2>1, <2>2, <2>3, <2>4
<1> DEFINE t == Tail(q)
           n == Len(q)
<1> HIDE DEF t, n
<1>2. /\ n \in Nat /\ n >= 1 /\ q \in [1 .. n -> Nat] /\ t \in [1 .. n - 1 -> Nat]
      /\ \A i \in 1 .. n - 1 : t[i] = q[i + 1]
      /\ \A i, j \in 1 .. n : q[i] = q[j] => i = j
  BY Zenon, <1>1 DEF t, n, IsInjective
<1>3. IsInjective(t)
  BY <1>2 DEF IsInjective
<1>4. Range(t) = Range(q) \ {q[1]}
  <2>1. /\ \A y : y \in Range(t) <=> \E i \in 1 .. n - 1 : y = t[i]
        /\ \A y : y \in Range(q) <=> \E i \in 1 .. n : y = q[i]
    BY Zenon, <1>2 DEF Range
  <2>2. ASSUME NEW i \in 1 .. n - 1
        PROVE  i + 1 \in 1 .. n /\ t[i] = q[i + 1] /\ q[i + 1] # q[1]
    BY <1>2
  <2>3. ASSUME NEW i \in 1 .. n, q[i] # q[1]
        PROVE  i - 1 \in 1 .. n - 1 /\ q[i] = t[i - 1]
    BY <1>2, <2>3
  <2> QED
    BY <2>1, <2>2, <2>3
<1>5. q[1] \in Range(q) /\ q[1] \in Nat
  BY <1>2 DEF Range
<1> QED
  BY <1>1, <1>3, <1>4, <1>5 DEF t

(* A chunk that is not on it is put at the front of a free list. *)
LEMMA ConsShares ==
    ASSUME NEW q \in Seq(Nat), IsInjective(q), NEW x \in Nat, x \notin Range(q)
    PROVE  /\ <<x>> \o q \in Seq(Nat) /\ Len(<<x>> \o q) = Len(q) + 1
           /\ IsInjective(<<x>> \o q) /\ Range(<<x>> \o q) = Range(q) \cup {x}
<1> DEFINE u == <<x>> \o q
           n == Len(q)
<1>1. /\ u \in Seq(Nat) /\ Len(u) = n + 1 /\ n \in Nat /\ q \in [1 .. n -> Nat]
      /\ u \in [1 .. n + 1 -> Nat] /\ u[1] = x
      /\ \A i \in 1 .. n : u[i + 1] = q[i]
  <2>1. n \in Nat /\ u \in Seq(Nat) /\ Len(u) = n + 1
    OBVIOUS
  <2>2. u[1] = x
    OBVIOUS
  <2>3. \A i \in 1 .. n : u[i + 1] = q[i]
    OBVIOUS
  <2>4. q \in [1 .. n -> Nat] /\ u \in [1 .. Len(u) -> Nat]
    BY Zenon, <2>1, SeqFunction
  <2> QED
    BY <2>1, <2>2, <2>3, <2>4
<1> HIDE DEF u, n
<1>2. /\ \A y : y \in Range(u) <=> \E i \in 1 .. n + 1 : y = u[i]
      /\ \A y : y \in Range(q) <=> \E i \in 1 .. n : y = q[i]
      /\ \A i, j \in 1 .. n : q[i] = q[j] => i = j
  BY <1>1 DEF Range, IsInjective
<1>3. ASSUME NEW i \in 1 .. n + 1
      PROVE  i = 1 \/ (i - 1 \in 1 .. n /\ u[i] = q[i - 1])
  BY <1>1
<1>4. IsInjective(u)
  BY <1>1, <1>2, <1>3 DEF IsInjective
<1>5. Range(u) = Range(q) \cup {x}
  <2>1. \A i \in 1 .. n : i + 1 \in 1 .. n + 1 /\ q[i] = u[i + 1]
    BY <1>1
  <2>2. 1 \in 1 .. n + 1 /\ u[1] = x
    BY <1>1
  <2> QED
    BY <1>2, <1>3, <2>1, <2>2
<1> QED
  BY <1>1, <1>4, <1>5 DEF u, n

-----------------------------------------------------------------------------
(* The lists hold the pages where on says, each of them once. *)
ListsSound(h, on) == Linked(h, on) /\ Acyclic(h, on)

(* Place says of every page on which list it is, if on any. *)
LEMMA PlaceType ==
    ASSUME NEW h \in HeapType
    PROVE  /\ Place(h) \in [Page -> Spots]
           /\ \A p \in SlabPages(h) :
                 /\ Place(h)[p] = <<h.slab[p].cache,
                                    IF h.slab[p].free_chunks = 0 THEN "full" ELSE "partial">>
                 /\ h.slab[p].cache \in Cache
           /\ \A p \in Page \ SlabPages(h) : Place(h)[p] = Nowhere
<1>1. \A p \in Page : h.slab[p].cache \in Cache
  BY DEF HeapType, SlabType
<1>2. SlabPages(h) \subseteq Page /\ "full" \in List /\ "partial" \in List
  BY DEF SlabPages, List
<1> QED
  BY <1>1, <1>2 DEF Place, Spots

(* A page on a list is a slab of that cache, with free chunks or without. *)
LEMMA PlaceOf ==
    ASSUME NEW h \in HeapType, NEW p \in Page, NEW c \in Cache, NEW l \in List,
           Place(h)[p] = <<c, l>>
    PROVE  /\ p \in SlabPages(h) /\ h.slab[p].cache = c
           /\ \/ l = "full" /\ h.slab[p].free_chunks = 0
              \/ l = "partial" /\ h.slab[p].free_chunks # 0
<1>1. p \in SlabPages(h)
  BY Zenon, PlaceType, Distinct
<1>2. <<c, l>> = <<h.slab[p].cache,
                  IF h.slab[p].free_chunks = 0 THEN "full" ELSE "partial">>
  BY <1>1, PlaceType
<1> QED
  BY <1>1, <1>2

(* The slab at the head of a list is on it. *)
LEMMA HeadOnList ==
    ASSUME NEW h \in HeapType, NEW on, ListsSound(h, on),
           NEW c \in Cache, NEW l \in List, h.head[c][l] # NULL
    PROVE  h.head[c][l] \in Page /\ on[h.head[c][l]] = <<c, l>>
<1>1. h.head[c][l] \in Page
  BY DEF HeapType
<1>2. on[h.head[c][l]] = <<c, l>>
  BY DEF ListsSound, Linked
<1> QED
  BY <1>1, <1>2

(* Pages other than s are where they were if their slabs are as they were. *)
LEMMA PlaceBut ==
    ASSUME NEW h \in HeapType, NEW g \in HeapType, NEW s \in Page,
           \A q \in Page \ {s} :
               g.slab[q] = h.slab[q] /\ (q \in g.free_pages <=> q \in h.free_pages)
    PROVE  /\ Place(g) = [Place(h) EXCEPT ![s] = Place(g)[s]]
           /\ \A q \in Page \ {s} : q \in SlabPages(g) <=> q \in SlabPages(h)
<1>1. \A q \in Page \ {s} : q \in SlabPages(g) <=> q \in SlabPages(h)
  BY DEF SlabPages
<1>2. \A q \in Page \ {s} : Place(g)[q] = Place(h)[q]
  BY <1>1 DEF Place
<1>3. Place(g) \in [Page -> Spots] /\ Place(h) \in [Page -> Spots]
  BY PlaceType
<1> QED
  BY <1>1, <1>2, <1>3

(* Only links matter to the lists. *)
LEMMA SameLinks ==
    ASSUME NEW h, NEW g, NEW on, ListsSound(h, on),
           g.next = h.next, g.prev = h.prev, g.head = h.head
    PROVE  ListsSound(g, on)
  BY DEF ListsSound, Linked, Acyclic, Ordered

(* g has the slabs of h, where on says. *)
Relinked(h, g, on) ==
    g \in HeapType /\ g.slab = h.slab /\ g.free_pages = h.free_pages /\ ListsSound(g, on)

(* A slab goes from one list of its cache to another. *)
Moved(h, c, l, m, s) == list_add(list_remove(h, c, l, s), c, m, s)

(* The lists stay sound, and it is on the one instead of the other. *)
LEMMA MoveSound ==
    ASSUME NEW h \in HeapType, NEW on \in [Page -> Spots], ListsSound(h, on),
           NEW c \in Cache, NEW l \in List, NEW m \in List,
           NEW s \in Page, on[s] = <<c, l>>
    PROVE  Relinked(h, Moved(h, c, l, m, s), [on EXCEPT ![s] = <<c, m>>])
<1> DEFINE r  == list_remove(h, c, l, s)
           no == [on EXCEPT ![s] = Nowhere]
           g  == list_add(r, c, m, s)
<1>1. r \in HeapType /\ r.slab = h.slab /\ r.free_pages = h.free_pages
  BY RemoveFields
<1>2. ListsSound(r, no)
  BY Zenon, RemoveLinked, RemoveAcyclic DEF ListsSound
<1>3. no \in [Page -> Spots] /\ no[s] = Nowhere /\ [no EXCEPT ![s] = <<c, m>>] = [on EXCEPT ![s] = <<c, m>>]
  BY Zenon DEF Spots
<1> HIDE DEF r, no
<1>4. g \in HeapType /\ g.slab = r.slab /\ g.free_pages = r.free_pages
  BY <1>1, AddFields
<1>5. ListsSound(g, [no EXCEPT ![s] = <<c, m>>])
  BY Zenon, <1>1, <1>2, <1>3, AddLinked, AddAcyclic DEF ListsSound
<1> QED
  BY <1>1, <1>3, <1>4, <1>5 DEF r, Moved, Relinked

(* The chunks of a slab are on its free list or in use, and counted. *)
Shares(s, used) ==
    /\ IsInjective(s.free_list) /\ s.free_chunks = Len(s.free_list)
    /\ s.total_chunks = total_chunks(s.cache)
    /\ Range(s.free_list) \cap used = {}
    /\ Range(s.free_list) \cup used = Range(Chunks(s.cache))

(* The allocator's memory while the chunks used are handed out. *)
HeapOK(h, used) ==
    /\ h \in HeapType /\ DOMAIN used = Page
    /\ \A p \in SlabPages(h) : Shares(h.slab[p], used[p])
    /\ \A p \in Page \ SlabPages(h) : used[p] = {}
    /\ ListsSound(h, Place(h))

(* pmm_alloc_page has a page to give as long as one is free. *)
LEMMA NewPageFree ==
    ASSUME NEW h \in HeapType, h.free_pages # {}
    PROVE  NewPage(h) \in h.free_pages /\ NewPage(h) \in Page
<1>1. h.free_pages \subseteq Page /\ Page \subseteq Nat
  BY SlabAssumption DEF HeapType, Page
<1>2. \E p \in h.free_pages : \A q \in h.free_pages : p <= q
  BY Zenon, <1>1, LeastNat
<1>3. NewPage(h) \in h.free_pages
  BY <1>2 DEF NewPage
<1> QED
  BY <1>1, <1>3

(* The slab that allocate_new_slab makes of a page. *)
NewSlab(c) ==
    [magic |-> TRUE, cache |-> c, free_list |-> Chunks(c),
     free_chunks |-> total_chunks(c), total_chunks |-> total_chunks(c)]

(* A new slab is on no list yet, and the lists do not notice. *)
LEMMA NewSlabFields ==
    ASSUME NEW h \in HeapType, NEW c \in Cache, h.free_pages # {}
    PROVE  LET s == NewPage(h)
               g == allocate_new_slab(h, c)
           IN  /\ g \in HeapType /\ g.slab = [h.slab EXCEPT ![s] = NewSlab(c)]
               /\ g.free_pages = h.free_pages \ {s} /\ g.head = h.head
               /\ g.next = [h.next EXCEPT ![s] = NULL] /\ g.prev = [h.prev EXCEPT ![s] = NULL]
<1> DEFINE s == NewPage(h)
           g == allocate_new_slab(h, c)
           sl == [h.slab EXCEPT ![s] = NewSlab(c)]
           nx == [h.next EXCEPT ![s] = NULL]
           pv == [h.prev EXCEPT ![s] = NULL]
           fp == h.free_pages \ {s}
<1>1. /\ h.next \in Links /\ h.prev \in Links /\ h.free_pages \in SUBSET Page
      /\ h.slab \in [Page -> SlabType] /\ h.head \in [Cache -> [List -> Page \cup {NULL}]]
  BY DEF HeapType
<1>2. s \in Page
  BY NewPageFree
<1>3. NewSlab(c) \in SlabType
  BY CacheFits, ChunkFacts DEF NewSlab, SlabType
<1>4. sl \in [Page -> SlabType] /\ nx \in Links /\ pv \in Links /\ fp \in SUBSET Page
  BY <1>1, <1>2, <1>3 DEF Links
<1>5. g = [h EXCEPT !.free_pages = fp, !.next = nx, !.prev = pv, !.slab = sl]
  BY DEF allocate_new_slab, NewSlab, HeapType
<1> HIDE DEF s, g, sl, nx, pv, fp
<1>6. /\ g.slab = sl /\ g.next = nx /\ g.prev = pv /\ g.free_pages = fp /\ g.head = h.head
      /\ g \in HeapType
  BY Zenon, <1>1, <1>4, <1>5 DEF HeapType
<1> QED
  BY <1>6 DEF s, g, sl, nx, pv, fp

(* The links of a page that is on no list are nobody's business. *)
LEMMA ClearLinks ==
    ASSUME NEW h \in HeapType, NEW g \in HeapType, NEW on \in [Page -> Spots],
           ListsSound(h, on), NEW s \in Page, on[s] = Nowhere, g.head = h.head,
           \A q \in Page \ {s} : g.next[q] = h.next[q] /\ g.prev[q] = h.prev[q]
    PROVE  ListsSound(g, on)
<1> USE Distinct
<1>1. /\ \A q \in Page : h.next[q] \in Page \cup {NULL} /\ h.prev[q] \in Page \cup {NULL}
      /\ \A d \in Cache, m \in List : h.head[d][m] \in Page \cup {NULL}
  BY DEF HeapType, Links
<1>2. ASSUME NEW d \in Cache, NEW m \in List, h.head[d][m] # NULL
      PROVE  on[h.head[d][m]] = <<d, m>> /\ g.prev[h.head[d][m]] = NULL
  <2>1. on[h.head[d][m]] = <<d, m>> /\ h.prev[h.head[d][m]] = NULL
    BY <1>2 DEF ListsSound, Linked
  <2> QED
    BY Zenon, <1>1, <1>2, <2>1
<1>3. ASSUME NEW p \in Page, on[p] # Nowhere
      PROVE  /\ g.next[p] # NULL => on[g.next[p]] = on[p] /\ g.prev[g.next[p]] = p
             /\ g.prev[p] # NULL => on[g.prev[p]] = on[p] /\ g.next[g.prev[p]] = p
             /\ g.prev[p] = NULL => g.head[on[p][1]][on[p][2]] = p
  <2>1. /\ h.next[p] # NULL => on[h.next[p]] = on[p] /\ h.prev[h.next[p]] = p
        /\ h.prev[p] # NULL => on[h.prev[p]] = on[p] /\ h.next[h.prev[p]] = p
        /\ h.prev[p] = NULL => h.head[on[p][1]][on[p][2]] = p
    BY <1>3 DEF ListsSound, Linked
  <2>2. p # s /\ g.next[p] = h.next[p] /\ g.prev[p] = h.prev[p]
    BY <1>3
  <2> QED
    BY <1>1, <1>3, <2>1, <2>2
<1>4. Linked(g, on)
  BY <1>2, <1>3 DEF Linked
<1>5. PICK rank \in [Page -> Nat] : Ordered(h, on, rank)
  BY DEF ListsSound, Acyclic
<1>6. Ordered(g, on, rank)
  BY <1>5 DEF Ordered
<1> QED
  BY <1>4, <1>6 DEF ListsSound, Acyclic

(* A page that becomes a slab shares its chunks with nobody and stands at  *)
(* the head of the partial list.                                           *)
LEMMA NewSlabOK ==
    ASSUME NEW h, NEW used, HeapOK(h, used), NEW c \in Cache, h.free_pages # {}
    PROVE  LET s == NewPage(h)
               g == list_add(allocate_new_slab(h, c), c, "partial", s)
           IN  /\ HeapOK(g, used) /\ SlabPages(g) = SlabPages(h) \cup {s} /\ s \in Page
               /\ s \notin SlabPages(h) /\ g.head[c]["partial"] = s
               /\ \A q \in SlabPages(h) : g.slab[q] = h.slab[q]
<1> DEFINE s  == NewPage(h)
           a  == allocate_new_slab(h, c)
           g  == list_add(a, c, "partial", s)
           on == Place(h)
<1>1. h \in HeapType /\ ListsSound(h, on) /\ on \in [Page -> Spots]
  BY PlaceType DEF HeapOK
<1>2. s \in h.free_pages /\ s \in Page /\ s \notin SlabPages(h) /\ on[s] = Nowhere
  BY <1>1, NewPageFree, PlaceType DEF SlabPages
<1>3. /\ a \in HeapType /\ a.slab = [h.slab EXCEPT ![s] = NewSlab(c)]
      /\ a.free_pages = h.free_pages \ {s} /\ a.head = h.head
      /\ a.next = [h.next EXCEPT ![s] = NULL] /\ a.prev = [h.prev EXCEPT ![s] = NULL]
  BY <1>1, NewSlabFields
<1>4. h.slab \in [Page -> SlabType] /\ h.next \in Links /\ h.prev \in Links
  BY <1>1 DEF HeapType
<1> HIDE DEF s, a, on
<1>5. \A q \in Page \ {s} : a.next[q] = h.next[q] /\ a.prev[q] = h.prev[q]
  BY <1>3, <1>4 DEF Links
<1>6. ListsSound(a, on)
  BY Zenon, <1>1, <1>2, <1>3, <1>5, ClearLinks
<1>7. "partial" \in List
  BY DEF List
<1>8. g \in HeapType /\ g.slab = a.slab /\ g.free_pages = a.free_pages /\ g.head[c]["partial"] = s
  BY <1>2, <1>3, <1>7, AddFields
<1>9. ListsSound(g, [on EXCEPT ![s] = <<c, "partial">>])
  BY Zenon, <1>1, <1>2, <1>3, <1>6, <1>7, AddLinked, AddAcyclic DEF ListsSound
<1> HIDE DEF g
<1>10. /\ g.slab[s] = NewSlab(c)
       /\ \A q \in Page \ {s} :
             g.slab[q] = h.slab[q] /\ (q \in g.free_pages <=> q \in h.free_pages)
  BY <1>2, <1>3, <1>4, <1>8
<1>11. s \notin g.free_pages /\ g.slab[s].magic /\ g.slab[s].cache = c
  BY <1>3, <1>8, <1>10 DEF NewSlab
<1>12. /\ Place(g) = [on EXCEPT ![s] = Place(g)[s]]
       /\ \A q \in Page \ {s} : q \in SlabPages(g) <=> q \in SlabPages(h)
  BY <1>1, <1>2, <1>8, <1>10, PlaceBut DEF on
<1>13. s \in SlabPages(g)
  BY <1>2, <1>11 DEF SlabPages
<1>14. SlabPages(g) = SlabPages(h) \cup {s}
  BY <1>2, <1>12, <1>13 DEF SlabPages
<1>15. total_chunks(c) \in Nat /\ total_chunks(c) # 0
  BY CacheFits
<1>16. Place(g)[s] = <<c, "partial">>
  <2>1. g.slab[s].free_chunks # 0
    BY <1>10, <1>15 DEF NewSlab
  <2> QED
    BY <1>8, <1>11, <1>13, <2>1, PlaceType
<1>17. ListsSound(g, Place(g))
  BY Zenon, <1>9, <1>12, <1>16
<1>18. used[s] = {}
  BY <1>2 DEF HeapOK
<1>19. Shares(g.slab[s], used[s])
  BY <1>10, <1>18, ChunkFacts DEF Shares, NewSlab
<1>20. \A q \in SlabPages(h) : g.slab[q] = h.slab[q]
  BY <1>2, <1>10 DEF SlabPages
<1>21. \A p \in SlabPages(g) : Shares(g.slab[p], used[p])
  BY <1>14, <1>19, <1>20 DEF HeapOK
<1>22. \A p \in Page \ SlabPages(g) : used[p] = {}
  BY <1>14 DEF HeapOK
<1>23. HeapOK(g, used)
  BY <1>8, <1>17, <1>21, <1>22 DEF HeapOK
<1> QED
  BY <1>2, <1>8, <1>14, <1>20, <1>23 DEF g, s, a

(* If the head of a list is NULL no page is on it. *)
LEMMA EmptyList ==
    ASSUME NEW h \in HeapType, NEW on \in [Page -> Spots], ListsSound(h, on),
           NEW c \in Cache, NEW l \in List, h.head[c][l] = NULL
    PROVE  \A p \in Page : on[p] # <<c, l>>
<1> USE Distinct
<1>1. PICK rank \in [Page -> Nat] : Ordered(h, on, rank)
  BY DEF ListsSound, Acyclic
<1> DEFINE R == {rank[p] : p \in {q \in Page : on[q] = <<c, l>>}}
<1> SUFFICES ASSUME R # {} PROVE FALSE
  OBVIOUS
<1>2. PICK n \in R : \A m \in R : n <= m
  <2>1. R \in SUBSET Nat
    OBVIOUS
  <2> HIDE DEF R
  <2> QED
    BY <2>1, LeastNat
<1>3. PICK p \in Page : on[p] = <<c, l>> /\ rank[p] = n
  OBVIOUS
<1>4. on[p] # Nowhere /\ h.head[on[p][1]][on[p][2]] = NULL
  BY <1>3
<1>5. h.prev[p] # NULL
  BY <1>4 DEF ListsSound, Linked
<1>6. h.prev[p] \in Page
  BY <1>5 DEF HeapType, Links
<1>7. on[h.prev[p]] = on[p] /\ h.next[h.prev[p]] = p
  BY <1>4, <1>5 DEF ListsSound, Linked
<1>8. rank[h.prev[p]] < rank[p] /\ rank[h.prev[p]] \in R
  BY <1>1, <1>3, <1>4, <1>6, <1>7 DEF Ordered
<1>9. n <= rank[h.prev[p]] /\ rank[h.prev[p]] \in Nat /\ rank[p] \in Nat
  BY <1>2, <1>6, <1>8
<1> QED
  BY <1>3, <1>8, <1>9

(* kmalloc's search ends with a slab at the head of the partial list, or   *)
(* finds no page to make one of.                                           *)
LEMMA WithPartialOK ==
    ASSUME NEW h, NEW used, HeapOK(h, used), NEW c \in Cache
    PROVE  LET g == WithPartial(h, c)
               s == g.head[c]["partial"]
           IN  /\ HeapOK(g, used)
               /\ s = NULL => g = h /\ h.free_pages = {} /\ h.head[c]["partial"] = NULL
               /\ s # NULL => s \in Page /\ SlabPages(g) = SlabPages(h) \cup {s}
               /\ \A q \in SlabPages(h) : g.slab[q] = h.slab[q]
<1> USE Distinct
<1>1. h \in HeapType /\ ListsSound(h, Place(h)) /\ Place(h) \in [Page -> Spots]
  BY PlaceType DEF HeapOK
<1>2. "partial" \in List /\ "free" \in List
  BY DEF List
<1>3. h.head[c]["partial"] \in Page \cup {NULL} /\ h.head[c]["free"] \in Page \cup {NULL}
  BY <1>1, <1>2 DEF HeapType
<1>4. h.head[c]["free"] = NULL
  <2> SUFFICES ASSUME h.head[c]["free"] # NULL PROVE FALSE
    OBVIOUS
  <2>1. h.head[c]["free"] \in Page /\ Place(h)[h.head[c]["free"]] = <<c, "free">>
    BY <1>1, <1>2, HeadOnList
  <2> QED
    BY <1>1, <1>2, <2>1, PlaceOf
<1>5. CASE h.head[c]["partial"] # NULL
  <2>1. WithPartial(h, c) = h
    BY <1>5 DEF WithPartial
  <2>2. h.head[c]["partial"] \in Page /\ Place(h)[h.head[c]["partial"]] = <<c, "partial">>
    BY <1>1, <1>2, <1>5, HeadOnList
  <2>3. h.head[c]["partial"] \in SlabPages(h)
    BY <1>1, <1>2, <2>2, PlaceOf
  <2>4. SlabPages(h) = SlabPages(h) \cup {h.head[c]["partial"]}
    BY <2>3
  <2> QED
    BY <1>3, <1>5, <2>1, <2>4
<1>6. CASE h.head[c]["partial"] = NULL /\ h.free_pages # {}
  <2>1. WithPartial(h, c) = list_add(allocate_new_slab(h, c), c, "partial", NewPage(h))
    BY <1>4, <1>6 DEF WithPartial
  <2> QED
    BY <1>6, <2>1, NewSlabOK
<1>7. CASE h.head[c]["partial"] = NULL /\ h.free_pages = {}
  <2>1. WithPartial(h, c) = h
    BY <1>4, <1>7 DEF WithPartial
  <2> QED
    BY <1>7, <2>1
<1> QED
  BY <1>5, <1>6, <1>7

(* A slab header after a chunk has been taken or put back. *)
Written(h, s, q, n) == [h EXCEPT !.slab[s].free_list = q, !.slab[s].free_chunks = n]

(* g is h but for the free list of slab s. *)
SameBut(h, g, s, q, n) ==
    /\ g \in HeapType /\ g.next = h.next /\ g.prev = h.prev /\ g.head = h.head
    /\ g.free_pages = h.free_pages
    /\ \A p \in Page \ {s} : g.slab[p] = h.slab[p]
    /\ g.slab[s].free_list = q /\ g.slab[s].free_chunks = n
    /\ g.slab[s].magic = h.slab[s].magic /\ g.slab[s].cache = h.slab[s].cache
    /\ g.slab[s].total_chunks = h.slab[s].total_chunks

(* Only the free list of that slab is written. *)
LEMMA SlabWritten ==
    ASSUME NEW h \in HeapType, NEW s \in Page, NEW q \in Seq(Nat), NEW n \in Nat
    PROVE  SameBut(h, Written(h, s, q, n), s, q, n)
<1> DEFINE new == [h.slab[s] EXCEPT !.free_list = q, !.free_chunks = n]
           sl  == [h.slab EXCEPT ![s] = new]
           g   == Written(h, s, q, n)
<1>1. /\ h.next \in Links /\ h.prev \in Links /\ h.free_pages \in SUBSET Page
      /\ h.slab \in [Page -> SlabType] /\ h.head \in [Cache -> [List -> Page \cup {NULL}]]
  BY DEF HeapType
<1>2. h.slab[s] \in SlabType
  BY <1>1
<1>3. /\ new \in SlabType /\ new.free_list = q /\ new.free_chunks = n
      /\ new.magic = h.slab[s].magic /\ new.cache = h.slab[s].cache
      /\ new.total_chunks = h.slab[s].total_chunks
  BY Zenon, <1>2 DEF SlabType
<1>4. g = [h EXCEPT !.slab = sl]
  BY Zenon, <1>1, <1>2 DEF Written, SlabType, HeapType
<1> HIDE DEF new, g
<1>5. sl \in [Page -> SlabType] /\ sl[s] = new /\ \A p \in Page \ {s} : sl[p] = h.slab[p]
  BY <1>1, <1>3
<1> HIDE DEF sl
<1>6. /\ g \in HeapType /\ g.slab = sl /\ g.next = h.next /\ g.prev = h.prev
      /\ g.head = h.head /\ g.free_pages = h.free_pages
  BY <1>1, <1>4, <1>5 DEF HeapType
<1> QED
  BY <1>3, <1>5, <1>6 DEF g, SameBut

(* Taking a chunk moves it from the free list to the caller, and a slab    *)
(* that has none left to the full list.                                    *)
LEMMA TakeChunkOK ==
    ASSUME NEW h, NEW used, HeapOK(h, used), NEW c \in Cache, h.head[c]["partial"] # NULL
    PROVE  LET s == h.head[c]["partial"]
               x == Head(h.slab[s].free_list)
               g == TakeChunk(h, c, s)
           IN  /\ s \in SlabPages(h) /\ h.slab[s].cache = c
               /\ x \in Range(Chunks(c)) /\ x \notin used[s] /\ x \in Nat
               /\ HeapOK(g, [used EXCEPT ![s] = @ \cup {x}])
               /\ SlabPages(g) = SlabPages(h)
               /\ \A p \in Page : g.slab[p].cache = h.slab[p].cache
<1> DEFINE s  == h.head[c]["partial"]
           q  == h.slab[s].free_list
           x  == Head(q)
           n  == h.slab[s].free_chunks
           w  == Written(h, s, Tail(q), n - 1)
           g  == TakeChunk(h, c, s)
           nu == [used EXCEPT ![s] = @ \cup {x}]
           on == Place(h)
<1>1. h \in HeapType /\ ListsSound(h, on) /\ on \in [Page -> Spots]
  BY PlaceType DEF HeapOK
<1>2. "partial" \in List /\ "full" \in List
  BY DEF List
<1>3. s \in Page /\ on[s] = <<c, "partial">>
  BY <1>1, <1>2, HeadOnList
<1>4. s \in SlabPages(h) /\ h.slab[s].cache = c /\ n # 0
  BY <1>1, <1>2, <1>3, PlaceOf
<1>5. Shares(h.slab[s], used[s])
  BY <1>4 DEF HeapOK
<1>6. q \in Seq(Nat) /\ n \in Nat
  BY <1>1, <1>3 DEF HeapType, SlabType
<1>7. IsInjective(q) /\ n = Len(q) /\ q # <<>>
  BY Zenon, <1>4, <1>5, <1>6 DEF Shares
<1>8. /\ Tail(q) \in Seq(Nat) /\ Len(Tail(q)) = n - 1 /\ IsInjective(Tail(q))
      /\ x \in Nat /\ x \in Range(q) /\ Range(Tail(q)) = Range(q) \ {x}
  BY Zenon, <1>6, <1>7, TailShares
<1>9. x \in Range(Chunks(c)) /\ x \notin used[s]
  BY Zenon, <1>4, <1>5, <1>8 DEF Shares
<1>10. n - 1 \in Nat
  BY <1>4, <1>6
<1>11. g = IF w.slab[s].free_chunks # 0 THEN w
           ELSE list_add(list_remove(w, c, "partial", s), c, "full", s)
  BY <1>1, <1>3 DEF TakeChunk, Written, HeapType, SlabType
<1> HIDE DEF s, q, x, n, g, nu, on
<1>12. SameBut(h, w, s, Tail(q), n - 1)
  BY Zenon, <1>1, <1>3, <1>8, <1>10, SlabWritten
<1> HIDE DEF w
<1>13. ListsSound(w, on)
  BY <1>1, <1>12, SameLinks DEF SameBut
<1>14. /\ g \in HeapType /\ g.slab = w.slab /\ g.free_pages = h.free_pages
       /\ ListsSound(g, [on EXCEPT ![s] = <<c, IF n - 1 = 0 THEN "full" ELSE "partial">>])
  <2>1. CASE n - 1 # 0
    <3>1. g = w
      BY <1>11, <1>12, <2>1 DEF SameBut
    <3>2. [on EXCEPT ![s] = <<c, "partial">>] = on
      BY <1>1, <1>3
    <3> QED
      BY <1>12, <1>13, <2>1, <3>1, <3>2 DEF SameBut
  <2>2. CASE n - 1 = 0
    <3>1. g = Moved(w, c, "partial", "full", s)
      BY <1>11, <1>12, <2>2 DEF Moved, SameBut
    <3>2. w \in HeapType
      BY <1>12 DEF SameBut
    <3>3. Relinked(w, g, [on EXCEPT ![s] = <<c, "full">>])
      BY Zenon, <1>1, <1>2, <1>3, <1>13, <3>1, <3>2, MoveSound
    <3> QED
      BY <1>12, <2>2, <3>3 DEF SameBut, Relinked
  <2> QED
    BY <2>1, <2>2
<1>15. /\ Place(g) = [on EXCEPT ![s] = Place(g)[s]]
       /\ \A p \in Page \ {s} : p \in SlabPages(g) <=> p \in SlabPages(h)
  <2>1. \A p \in Page \ {s} :
           g.slab[p] = h.slab[p] /\ (p \in g.free_pages <=> p \in h.free_pages)
    BY <1>12, <1>14 DEF SameBut
  <2> QED
    BY <1>1, <1>3, <1>14, <2>1, PlaceBut DEF on
<1>16. s \in SlabPages(g)
  BY <1>4, <1>12, <1>14 DEF SlabPages, SameBut
<1>17. SlabPages(g) = SlabPages(h)
  BY <1>4, <1>15, <1>16 DEF SlabPages
<1>18. Place(g)[s] = <<c, IF n - 1 = 0 THEN "full" ELSE "partial">>
  BY Zenon, <1>4, <1>12, <1>14, <1>16, PlaceType DEF SameBut
<1>19. ListsSound(g, Place(g))
  BY Zenon, <1>14, <1>15, <1>18
<1>20. DOMAIN nu = Page /\ nu[s] = used[s] \cup {x} /\ \A p \in Page \ {s} : nu[p] = used[p]
  BY <1>3 DEF HeapOK, nu
<1>21. Shares(g.slab[s], nu[s])
  <2>1. /\ Range(q) \cap used[s] = {} /\ Range(q) \cup used[s] = Range(Chunks(c))
        /\ h.slab[s].total_chunks = total_chunks(c)
    BY <1>4, <1>5 DEF Shares, q
  <2>2. /\ Range(Tail(q)) \cap nu[s] = {} /\ Range(Tail(q)) \cup nu[s] = Range(Chunks(c))
    BY <1>8, <1>20, <2>1
  <2> QED
    BY Zenon, <1>4, <1>8, <1>12, <1>14, <2>1, <2>2 DEF Shares, SameBut
<1>22. \A p \in SlabPages(g) : Shares(g.slab[p], nu[p])
  BY Zenon, <1>12, <1>14, <1>17, <1>20, <1>21 DEF HeapOK, SlabPages, SameBut
<1>23. \A p \in Page \ SlabPages(g) : nu[p] = {}
  BY <1>4, <1>17, <1>20 DEF HeapOK
<1>24. HeapOK(g, nu)
  BY <1>14, <1>19, <1>20, <1>22, <1>23 DEF HeapOK
<1>25. \A p \in Page : g.slab[p].cache = h.slab[p].cache
  BY <1>12, <1>14 DEF SameBut
<1> QED
  BY Zenon, <1>4, <1>8, <1>9, <1>17, <1>24, <1>25 DEF g, s, x, q, nu

(* A slab has all its chunks on the free list exactly if none is in use. *)
LEMMA AllFree ==
    ASSUME NEW s \in SlabType, NEW used, Shares(s, used)
    PROVE  s.free_chunks = s.total_chunks <=> used = {}
<1> DEFINE q == s.free_list
           C == Chunks(s.cache)
<1>1. q \in Seq(Nat) /\ s.cache \in Cache
  BY DEF SlabType
<1>2. /\ IsInjective(q) /\ s.free_chunks = Len(q) /\ s.total_chunks = total_chunks(s.cache)
      /\ Range(q) \cap used = {} /\ Range(q) \cup used = Range(C)
  BY DEF Shares
<1>3. C \in Seq(Nat) /\ IsInjective(C) /\ Len(C) = total_chunks(s.cache)
  BY <1>1, ChunkFacts
<1> HIDE DEF q, C
<1>4. IsFiniteSet(Range(C)) /\ Cardinality(Range(C)) = Len(C)
  BY <1>3, CountInjective
<1>5. IsFiniteSet(Range(q)) /\ Cardinality(Range(q)) = Len(q)
  BY <1>1, <1>2, CountInjective
<1>6. Range(q) \in SUBSET Range(C)
  BY <1>2
<1>7. Cardinality(Range(C)) = Cardinality(Range(q)) => Range(C) = Range(q)
  BY <1>4, <1>6, FS_Subset, Zenon
<1>8. used = {} <=> Range(C) = Range(q)
  BY Zenon, <1>2
<1> QED
  BY <1>2, <1>3, <1>4, <1>5, <1>7, <1>8

(* g is h but for the page of slab s, which goes back if none of it is used. *)
Kept(h, g, used, s) ==
    /\ HeapOK(g, used) /\ g.slab = h.slab
    /\ SlabPages(g) = IF used[s] = {} THEN SlabPages(h) \ {s} ELSE SlabPages(h)

(* The end of kfree: the page of an empty slab goes back. *)
LEMMA GiveBackOK ==
    ASSUME NEW h, NEW used, HeapOK(h, used), NEW s \in SlabPages(h),
           h.slab[s].free_chunks # 0
    PROVE  Kept(h, GiveBack(h, h.slab[s].cache, s), used, s)
<1> DEFINE c  == h.slab[s].cache
           on == Place(h)
           r  == list_remove(h, c, "partial", s)
           g  == GiveBack(h, c, s)
<1>1. h \in HeapType /\ ListsSound(h, on) /\ on \in [Page -> Spots] /\ s \in Page
  BY PlaceType DEF HeapOK, SlabPages
<1>2. on[s] = <<c, "partial">> /\ c \in Cache
  BY <1>1, PlaceType
<1>3. h.slab[s] \in SlabType /\ Shares(h.slab[s], used[s])
  BY <1>1 DEF HeapOK, HeapType
<1>4. h.slab[s].free_chunks = h.slab[s].total_chunks <=> used[s] = {}
  BY <1>3, AllFree
<1>5. CASE used[s] # {}
  <2>1. g = h
    BY <1>4, <1>5 DEF GiveBack
  <2> QED
    BY <1>5, <2>1 DEF Kept
<1>6. CASE used[s] = {}
  <2> HIDE DEF c, on
  <2>0. "partial" \in List
    BY DEF List
  <2>1. g = [r EXCEPT !.free_pages = @ \cup {s}]
    BY <1>4, <1>6 DEF GiveBack
  <2>2. r \in HeapType /\ r.slab = h.slab /\ r.free_pages = h.free_pages
    BY <1>1, <1>2, <2>0, RemoveFields
  <2>3. ListsSound(r, [on EXCEPT ![s] = Nowhere])
    BY Zenon, <1>1, <1>2, <2>0, RemoveLinked, RemoveAcyclic DEF ListsSound
  <2> HIDE DEF r, g
  <2>4. /\ g \in HeapType /\ g.slab = h.slab /\ g.free_pages = h.free_pages \cup {s}
        /\ g.next = r.next /\ g.prev = r.prev /\ g.head = r.head
    BY <1>1, <2>1, <2>2 DEF HeapType
  <2>5. ListsSound(g, [on EXCEPT ![s] = Nowhere])
    BY <2>3, <2>4, SameLinks
  <2>6. /\ Place(g) = [on EXCEPT ![s] = Place(g)[s]]
        /\ \A q \in Page \ {s} : q \in SlabPages(g) <=> q \in SlabPages(h)
    <3>1. \A q \in Page \ {s} :
             g.slab[q] = h.slab[q] /\ (q \in g.free_pages <=> q \in h.free_pages)
      BY <2>4
    <3> QED
      BY <1>1, <2>4, <3>1, PlaceBut DEF on
  <2>7. s \notin SlabPages(g)
    BY <2>4 DEF SlabPages
  <2>8. SlabPages(g) = SlabPages(h) \ {s}
    BY <2>6, <2>7 DEF SlabPages
  <2>9. Place(g)[s] = Nowhere
    BY <1>1, <2>4, <2>7, PlaceType
  <2>10. ListsSound(g, Place(g))
    BY Zenon, <2>5, <2>6, <2>9
  <2>11. \A p \in SlabPages(g) : Shares(g.slab[p], used[p])
    BY <2>4, <2>8 DEF HeapOK
  <2>12. \A p \in Page \ SlabPages(g) : used[p] = {}
    BY <1>6, <2>8 DEF HeapOK
  <2>13. HeapOK(g, used)
    BY <2>4, <2>10, <2>11, <2>12 DEF HeapOK
  <2> QED
    BY <1>6, <2>4, <2>8, <2>13 DEF g, c, Kept
<1> QED
  BY <1>5, <1>6

(* kfree moves the chunk from its holder to the free list, a slab that was *)
(* full to the partial list, and the page of an empty slab to its owner.   *)
LEMMA KfreeOK ==
    ASSUME NEW h, NEW used, HeapOK(h, used), NEW b,
           b.page \in SlabPages(h), b.off \in used[b.page]
    PROVE  LET s  == b.page
               g  == kfree(h, b)
               nu == [used EXCEPT ![s] = @ \ {b.off}]
           IN  /\ HeapOK(g, nu)
               /\ SlabPages(g) = IF nu[s] = {} THEN SlabPages(h) \ {s} ELSE SlabPages(h)
               /\ \A p \in Page : g.slab[p].cache = h.slab[p].cache
<1> DEFINE s  == b.page
           x  == b.off
           c  == h.slab[s].cache
           q  == h.slab[s].free_list
           n  == h.slab[s].free_chunks
           k  == IF n = 0 THEN Moved(h, c, "full", "partial", s) ELSE h
           e  == <<x>> \o q
           w  == Written(k, s, e, n + 1)
           nu == [used EXCEPT ![s] = @ \ {x}]
           on == Place(h)
           no == [on EXCEPT ![s] = <<c, "partial">>]
<1>1. h \in HeapType /\ ListsSound(h, on) /\ on \in [Page -> Spots] /\ s \in Page
  BY PlaceType DEF HeapOK, SlabPages
<1>2. on[s] = <<c, IF n = 0 THEN "full" ELSE "partial">> /\ c \in Cache
  BY <1>1, PlaceType
<1>3. Shares(h.slab[s], used[s]) /\ h.slab[s].magic
  BY DEF HeapOK, SlabPages
<1>4. q \in Seq(Nat) /\ n \in Nat /\ h.slab[s] \in SlabType
  BY <1>1 DEF HeapType, SlabType
<1>5. /\ IsInjective(q) /\ n = Len(q) /\ h.slab[s].total_chunks = total_chunks(c)
      /\ Range(q) \cap used[s] = {} /\ Range(q) \cup used[s] = Range(Chunks(c))
  BY <1>3 DEF Shares
<1>6. x \in Nat /\ x \notin Range(q) /\ x \in Range(Chunks(c))
  <2>1. x \notin Range(q) /\ x \in Range(Chunks(c))
    BY <1>5
  <2>2. x \in DATA_START .. PAGE_SIZE /\ DATA_START \in Nat /\ PAGE_SIZE \in Nat
    BY <1>2, <2>1, ChunkFacts, CacheFits
  <2> QED
    BY <2>1, <2>2
<1>7. e \in Seq(Nat) /\ Len(e) = n + 1 /\ IsInjective(e) /\ Range(e) = Range(q) \cup {x}
  BY <1>4, <1>5, <1>6, ConsShares
<1>8. "partial" \in List /\ "full" \in List
  BY DEF List
<1>9. Relinked(h, k, no)
  <2>1. CASE n = 0
    <3>1. on[s] = <<c, "full">> /\ k = Moved(h, c, "full", "partial", s)
      BY <1>2, <2>1
    <3> HIDE DEF on, c, s, k
    <3> QED
      BY Zenon, <1>1, <1>2, <1>8, <3>1, MoveSound
  <2>2. CASE n # 0
    <3>1. on[s] = <<c, "partial">> /\ k = h
      BY <1>2, <2>2
    <3>2. no = on
      BY <1>1, <3>1
    <3> QED
      BY Zenon, <1>1, <3>1, <3>2 DEF Relinked
  <2> QED
    BY <2>1, <2>2
<1>10. k \in HeapType /\ k.slab = h.slab /\ k.free_pages = h.free_pages /\ ListsSound(k, no)
  BY Zenon, <1>9 DEF Relinked
<1>11. kfree(h, b) = GiveBack(w, c, s)
  <2>1. w = [k EXCEPT !.slab[s].free_list = <<x>> \o @, !.slab[s].free_chunks = @ + 1]
    <3> HIDE DEF k
    <3> QED
      BY <1>1, <1>10 DEF Written, HeapType, SlabType
  <2> QED
    BY Zenon, <1>3, <2>1 DEF kfree, Moved
<1> HIDE DEF s, x, c, q, n, k, e, w, nu, on
<1>12. SameBut(k, w, s, e, n + 1)
  <2>1. n + 1 \in Nat
    BY <1>4
  <2> QED
    BY Zenon, <1>1, <1>7, <1>10, <2>1, SlabWritten DEF w
<1>13. /\ w \in HeapType /\ w.free_pages = h.free_pages
       /\ \A p \in Page \ {s} : w.slab[p] = h.slab[p]
       /\ w.slab[s].free_list = e /\ w.slab[s].free_chunks = n + 1
       /\ w.slab[s].magic = h.slab[s].magic /\ w.slab[s].cache = c
       /\ w.slab[s].total_chunks = total_chunks(c)
  BY Zenon, <1>5, <1>10, <1>12 DEF SameBut, c
<1>14. ListsSound(w, no)
  BY <1>10, <1>12, SameLinks DEF SameBut
<1>15. /\ Place(w) = [on EXCEPT ![s] = Place(w)[s]]
       /\ \A p \in Page \ {s} : p \in SlabPages(w) <=> p \in SlabPages(h)
  <2>1. \A p \in Page \ {s} :
           w.slab[p] = h.slab[p] /\ (p \in w.free_pages <=> p \in h.free_pages)
    BY <1>13
  <2> QED
    BY <1>1, <1>13, <2>1, PlaceBut DEF on
<1>16. s \in SlabPages(h) /\ s \in SlabPages(w)
  BY Zenon, <1>1, <1>3, <1>13 DEF SlabPages, s
<1>17. SlabPages(w) = SlabPages(h)
  BY <1>15, <1>16 DEF SlabPages
<1>18. n + 1 # 0
  BY <1>4
<1>19. Place(w)[s] = <<c, "partial">>
  BY <1>13, <1>16, <1>18, PlaceType
<1>20. ListsSound(w, Place(w))
  BY Zenon, <1>14, <1>15, <1>19
<1>21. DOMAIN nu = Page /\ nu[s] = used[s] \ {x} /\ \A p \in Page \ {s} : nu[p] = used[p]
  BY <1>1 DEF HeapOK, nu
<1>22. x \in used[s]
  BY DEF x, s
<1>23. Shares(w.slab[s], nu[s])
  <2>1. Range(e) \cap nu[s] = {} /\ Range(e) \cup nu[s] = Range(Chunks(c))
    BY <1>5, <1>7, <1>21, <1>22
  <2> QED
    BY <1>7, <1>13, <2>1 DEF Shares
<1>24. \A p \in SlabPages(w) : Shares(w.slab[p], nu[p])
  BY Zenon, <1>13, <1>17, <1>21, <1>23 DEF HeapOK, SlabPages
<1>25. \A p \in Page \ SlabPages(w) : nu[p] = {}
  BY <1>16, <1>17, <1>21 DEF HeapOK
<1>26. HeapOK(w, nu)
  BY <1>13, <1>20, <1>21, <1>24, <1>25 DEF HeapOK
<1> DEFINE g == kfree(h, b)
<1>27. /\ HeapOK(g, nu) /\ g.slab = w.slab
       /\ SlabPages(g) = IF nu[s] = {} THEN SlabPages(w) \ {s} ELSE SlabPages(w)
  <2>1. w.slab[s].free_chunks # 0 /\ w.slab[s].cache = c
    BY <1>13, <1>18
  <2>2. Kept(w, g, nu, s)
    BY <1>11, <1>16, <1>26, <2>1, GiveBackOK
  <2> QED
    BY <2>2 DEF Kept
<1>28. \A p \in Page : g.slab[p].cache = h.slab[p].cache
  BY <1>13, <1>27 DEF c
<1> QED
  BY <1>17, <1>27, <1>28 DEF s, x, nu

(* A size that is not too large has a class, and fits into its chunks. *)
LEMMA CacheForFits ==
    ASSUME NEW size \in Nat, size <= MaxSize
    PROVE  CacheFor(size) \in Cache /\ size <= CACHE_SIZES[CacheFor(size)]
<1> DEFINE F == {c \in Cache : size <= CACHE_SIZES[c]}
<1>1. CACHE_SIZES \in Seq(Nat \ {0}) /\ CACHE_SIZES # <<>>
  BY SlabAssumption
<1>2. Len(CACHE_SIZES) \in Nat /\ Len(CACHE_SIZES) # 0
  BY <1>1
<1>3. Cache \subseteq Nat /\ Len(CACHE_SIZES) \in Cache
  BY <1>2 DEF Cache
<1>4. F \in SUBSET Nat /\ F # {}
  BY Zenon, <1>3 DEF MaxSize
<1>5. PICK c \in F : \A d \in F : c <= d
  <2> HIDE DEF F
  <2> QED
    BY <1>4, LeastNat
<1>6. \A d \in Cache : d < c => size > CACHE_SIZES[d]
  <2> SUFFICES ASSUME NEW d \in Cache, d < c PROVE size > CACHE_SIZES[d]
    OBVIOUS
  <2>1. c \in Nat /\ d \in Nat /\ CACHE_SIZES[d] \in Nat
    BY <1>3, CacheFits
  <2>2. d \notin F
    BY <1>5, <2>1
  <2> QED
    BY <2>1, <2>2
<1>7. \E e \in Cache : size <= CACHE_SIZES[e] /\ \A d \in Cache : d < e => size > CACHE_SIZES[d]
  BY <1>5, <1>6
<1> QED
  BY <1>7 DEF CacheFor

(* What becomes of the memory when a chunk of size bytes at offset x of    *)
(* page s is handed out.                                                   *)
HandedOut(h, g, used, s, x, size) ==
    /\ s \in Page /\ x \in Nat /\ size # 0 /\ x \notin used[s]
    /\ HeapOK(g, [used EXCEPT ![s] = @ \cup {x}])
    /\ SlabPages(g) = SlabPages(h) \cup {s}
    /\ \A q \in SlabPages(h) : g.slab[q].cache = h.slab[q].cache
    /\ size <= CACHE_SIZES[g.slab[s].cache]

(* Why kmalloc may fail. *)
Exhausted(h, size) ==
    \/ size = 0 \/ size > MaxSize
    \/ CacheFor(size) \in Cache /\ h.free_pages = {} /\ h.head[CacheFor(size)]["partial"] = NULL

(* kmalloc hands out a chunk, or fails for a reason and changes nothing. *)
LEMMA KmallocOK ==
    ASSUME NEW h, NEW used, HeapOK(h, used), NEW size \in Nat
    PROVE  LET r == kmalloc(h, size)
           IN  \/ r.ptr = NULL /\ r.heap = h /\ Exhausted(h, size)
               \/ /\ r.ptr # NULL /\ r.ptr = [page |-> r.ptr.page, off |-> r.ptr.off]
                  /\ HandedOut(h, r.heap, used, r.ptr.page, r.ptr.off, size)
<1> DEFINE c == CacheFor(size)
           g == WithPartial(h, c)
           s == g.head[c]["partial"]
           x == Head(g.slab[s].free_list)
           t == TakeChunk(g, c, s)
           nu == [used EXCEPT ![s] = @ \cup {x}]
<1>1. CASE size = 0 \/ size > MaxSize
  BY Zenon, <1>1 DEF kmalloc, Exhausted
<1>2. CASE ~ (size = 0 \/ size > MaxSize)
  <2>1. MaxSize \in Nat
    <3>1. CACHE_SIZES \in Seq(Nat \ {0}) /\ CACHE_SIZES # <<>>
      BY SlabAssumption
    <3>2. Len(CACHE_SIZES) \in Cache
      BY <3>1 DEF Cache
    <3> QED
      BY <3>2, CacheFits DEF MaxSize
  <2>2. c \in Cache /\ size <= CACHE_SIZES[c] /\ size # 0
    BY <1>2, <2>1, CacheForFits
  <2>3. /\ HeapOK(g, used)
        /\ s = NULL => g = h /\ h.free_pages = {} /\ h.head[c]["partial"] = NULL
        /\ s # NULL => s \in Page /\ SlabPages(g) = SlabPages(h) \cup {s}
        /\ \A q \in SlabPages(h) : g.slab[q] = h.slab[q]
    BY <2>2, WithPartialOK
  <2>4. CASE s = NULL
    <3>1. kmalloc(h, size) = [heap |-> g, ptr |-> NULL]
      BY <1>2, <2>4 DEF kmalloc
    <3> QED
      BY <2>2, <2>3, <2>4, <3>1 DEF Exhausted
  <2>5. CASE s # NULL
    <3>1. kmalloc(h, size) = [heap |-> t, ptr |-> [page |-> s, off |-> x]]
      BY <1>2, <2>5 DEF kmalloc
    <3> HIDE DEF g
    <3>2. /\ s \in SlabPages(g) /\ g.slab[s].cache = c
          /\ x \in Range(Chunks(c)) /\ x \notin used[s] /\ x \in Nat
          /\ HeapOK(t, nu) /\ SlabPages(t) = SlabPages(g)
          /\ \A p \in Page : t.slab[p].cache = g.slab[p].cache
      BY Zenon, <2>2, <2>3, <2>5, TakeChunkOK
    <3> HIDE DEF c, s, x, t, nu
    <3>3. HandedOut(h, t, used, s, x, size)
      <4>1. SlabPages(h) \subseteq Page
        BY DEF SlabPages
      <4>2. \A q \in SlabPages(h) : t.slab[q].cache = h.slab[q].cache
        BY <2>3, <3>2, <4>1
      <4> QED
        BY <2>2, <2>3, <2>5, <3>2, <4>2 DEF HandedOut, nu
    <3>4. Page \subseteq Nat
      BY SlabAssumption DEF Page
    <3>5. [page |-> s, off |-> x] # NULL
      BY <2>3, <2>5, <3>2, <3>4, SlabAssumption
    <3> QED
      BY <3>1, <3>3, <3>5
  <2> QED
    BY Zenon, <2>4, <2>5
<1> QED
  BY Zenon, <1>1, <1>2
-----------------------------------------------------------------------------
Used == [p \in Page |-> InUse(p)]

(* The inductive invariant.  The blocks in use are those that the heap is  *)
(* without; each fits into a chunk of its slab.                            *)
SlabInv ==
    /\ HeapOK(heap, Used)
    /\ held \subseteq [page : Page, off : Nat, size : Nat \ {0}]
    /\ \A a, b \in held : a.page = b.page /\ a.off = b.off => a = b
    /\ \A b \in held : b.size <= CACHE_SIZES[heap.slab[b.page].cache]
    /\ NoSlabLeak

(* Pages that are no slab's change hands unnoticed. *)
LEMMA OthersOK ==
    ASSUME NEW h, NEW used, HeapOK(h, used), NEW g \in HeapType, NEW p \in Page,
           p \notin SlabPages(h), p \notin SlabPages(g),
           g.next = h.next, g.prev = h.prev, g.head = h.head,
           \A q \in Page \ {p} :
               g.slab[q] = h.slab[q] /\ (q \in g.free_pages <=> q \in h.free_pages)
    PROVE  /\ HeapOK(g, used) /\ SlabPages(g) = SlabPages(h)
           /\ \A q \in SlabPages(h) : g.slab[q] = h.slab[q]
<1>1. h \in HeapType
  BY DEF HeapOK
<1>2. /\ Place(g) = [Place(h) EXCEPT ![p] = Place(g)[p]]
      /\ \A q \in Page \ {p} : q \in SlabPages(g) <=> q \in SlabPages(h)
  BY <1>1, PlaceBut
<1>3. SlabPages(g) = SlabPages(h)
  BY <1>2 DEF SlabPages
<1>4. Place(g)[p] = Nowhere /\ Place(h)[p] = Nowhere /\ Place(h) \in [Page -> Spots]
  BY <1>1, PlaceType
<1>5. Place(g) = Place(h)
  BY Zenon, <1>2, <1>4
<1>6. ListsSound(h, Place(h))
  BY DEF HeapOK
<1>7. ListsSound(g, Place(g))
  BY <1>5, <1>6, SameLinks
<1>8. \A q \in SlabPages(h) : g.slab[q] = h.slab[q]
  BY DEF SlabPages
<1> QED
  BY Zenon, <1>3, <1>7, <1>8 DEF HeapOK

(* init_slab leaves an empty heap. *)
LEMMA SlabInit == Init => SlabInv
<1> SUFFICES ASSUME Init PROVE SlabInv
  OBVIOUS
<1>1. 1 \in Cache
  <2>1. CACHE_SIZES \in Seq(Nat \ {0}) /\ CACHE_SIZES # <<>>
    BY SlabAssumption
  <2> QED
    BY <2>1 DEF Cache
<1>2. NoSlab \in SlabType
  BY <1>1 DEF NoSlab, SlabType
<1>3. heap \in HeapType
  BY <1>2 DEF Init, HeapType, Links
<1>4. SlabPages(heap) = {} /\ Used = [p \in Page |-> {}]
  BY DEF Init, SlabPages, NoSlab, Used, InUse
<1>5. \A p \in Page : Place(heap)[p] = Nowhere
  BY <1>4 DEF Place
<1>6. Linked(heap, Place(heap))
  BY Zenon, <1>5 DEF Init, Linked
<1>7. Acyclic(heap, Place(heap))
  <2> DEFINE zero == [p \in Page |-> 0]
  <2>1. zero \in [Page -> Nat] /\ Ordered(heap, Place(heap), zero)
    BY <1>5 DEF Ordered
  <2> QED
    BY <2>1 DEF Acyclic
<1>8. HeapOK(heap, Used)
  BY <1>3, <1>4, <1>6, <1>7 DEF HeapOK, ListsSound
<1> QED
  BY <1>4, <1>8 DEF Init, SlabInv, NoSlabLeak

(* A step that leaves the blocks in use and the slabs alone. *)
LEMMA SlabIdle ==
    ASSUME SlabInv, UNCHANGED held, HeapOK(heap', Used), SlabPages(heap') = SlabPages(heap),
           \A q \in SlabPages(heap) : heap'.slab[q] = heap.slab[q]
    PROVE  SlabInv'
<1>1. Used' = Used
  BY DEF Used, InUse
<1>2. \A b \in held : b.page \in SlabPages(heap)
  BY DEF SlabInv, NoSlabLeak
<1> QED
  BY <1>1, <1>2 DEF SlabInv, NoSlabLeak

(* kmalloc. *)
LEMMA AllocateInv ==
    ASSUME SlabInv, NEW size \in Sizes, Allocate(size)
    PROVE  SlabInv'
<1> DEFINE r == kmalloc(heap, size)
           s == r.ptr.page
           x == r.ptr.off
           b == [page |-> s, off |-> x, size |-> size]
<1>1. size \in Nat
  BY SlabAssumption
<1>2. HeapOK(heap, Used)
  BY DEF SlabInv
<1>3. \/ r.ptr = NULL /\ r.heap = heap
      \/ r.ptr # NULL /\ HandedOut(heap, r.heap, Used, s, x, size)
  BY Zenon, <1>1, <1>2, KmallocOK
<1>4. CASE r.ptr = NULL /\ r.heap = heap
  BY <1>2, <1>4, SlabIdle DEF Allocate
<1>5. CASE r.ptr # NULL /\ HandedOut(heap, r.heap, Used, s, x, size)
  <2>1. heap' = r.heap /\ held' = held \cup {b}
    BY <1>5 DEF Allocate
  <2> HIDE DEF r, s, x
  <2>2. /\ s \in Page /\ x \in Nat /\ size # 0 /\ x \notin Used[s]
        /\ HeapOK(heap', [Used EXCEPT ![s] = @ \cup {x}])
        /\ SlabPages(heap') = SlabPages(heap) \cup {s}
        /\ \A q \in SlabPages(heap) : heap'.slab[q].cache = heap.slab[q].cache
        /\ size <= CACHE_SIZES[heap'.slab[s].cache]
    BY <1>5, <2>1 DEF HandedOut
  <2>3. held \subseteq [page : Page, off : Nat, size : Nat \ {0}]
    BY DEF SlabInv
  <2>4. b \in [page : Page, off : Nat, size : Nat \ {0}] /\ b.page = s /\ b.off = x /\ b.size = size
    BY <1>1, <2>2
  <2> HIDE DEF b
  <2>5. Used' = [Used EXCEPT ![s] = @ \cup {x}]
    <3>1. \A p \in Page : InUse(p)' = IF p = s THEN InUse(p) \cup {x} ELSE InUse(p)
      BY <2>1, <2>4 DEF InUse
    <3> QED
      BY Zenon, <2>2, <3>1 DEF Used
  <2>6. \A a \in held : ~ (a.page = s /\ a.off = x)
    BY <2>2, <2>3 DEF Used, InUse
  <2>7. \A a, d \in held' : a.page = d.page /\ a.off = d.off => a = d
    BY <2>1, <2>4, <2>6 DEF SlabInv
  <2>8. \A a \in held : a.page \in SlabPages(heap)
    BY DEF SlabInv, NoSlabLeak
  <2>9. \A a \in held' : a.size <= CACHE_SIZES[heap'.slab[a.page].cache]
    BY <2>1, <2>2, <2>4, <2>8 DEF SlabInv
  <2>10. SlabPages(heap') = {a.page : a \in held'}
    BY <2>1, <2>2, <2>4 DEF SlabInv, NoSlabLeak
  <2> QED
    BY <2>1, <2>2, <2>3, <2>4, <2>5, <2>7, <2>9, <2>10 DEF SlabInv, NoSlabLeak
<1> QED
  BY <1>3, <1>4, <1>5

(* kfree. *)
LEMMA ReleaseInv ==
    ASSUME SlabInv, NEW b \in held, Release(b)
    PROVE  SlabInv'
<1> DEFINE s == b.page
           nu == [Used EXCEPT ![s] = @ \ {b.off}]
<1>1. heap' = kfree(heap, b) /\ held' = held \ {b}
  BY DEF Release
<1>2. HeapOK(heap, Used) /\ held \subseteq [page : Page, off : Nat, size : Nat \ {0}]
  BY DEF SlabInv
<1>3. s \in Page /\ s \in SlabPages(heap)
  BY <1>2 DEF SlabInv, NoSlabLeak
<1>4. b.off \in Used[s]
  BY <1>3 DEF Used, InUse
<1>5. /\ HeapOK(heap', nu)
      /\ SlabPages(heap') = IF nu[s] = {} THEN SlabPages(heap) \ {s} ELSE SlabPages(heap)
      /\ \A p \in Page : heap'.slab[p].cache = heap.slab[p].cache
  BY <1>1, <1>2, <1>3, <1>4, KfreeOK
<1>6. Used' = nu
  <2>1. \A a \in held : a.page = s /\ a.off = b.off => a = b
    BY DEF SlabInv
  <2>2. \A p \in Page : InUse(p)' = IF p = s THEN InUse(p) \ {b.off} ELSE InUse(p)
    BY <1>1, <2>1 DEF InUse
  <2> QED
    BY Zenon, <1>3, <2>2 DEF Used
<1>7. nu[s] = InUse(s)'
  BY <1>3, <1>6 DEF Used
<1>8. SlabPages(heap') = {a.page : a \in held'}
  <2>1. nu[s] = {} <=> s \notin {a.page : a \in held'}
    BY <1>7 DEF InUse
  <2>2. \A q : q # s => (q \in {a.page : a \in held'} <=> q \in {a.page : a \in held})
    BY <1>1
  <2>3. SlabPages(heap) = {a.page : a \in held}
    BY DEF SlabInv, NoSlabLeak
  <2> QED
    BY <1>3, <1>5, <2>1, <2>2, <2>3
<1>9. \A a \in held' : a.size <= CACHE_SIZES[heap'.slab[a.page].cache]
  BY <1>1, <1>2, <1>5 DEF SlabInv
<1> QED
  BY <1>1, <1>2, <1>5, <1>6, <1>8, <1>9 DEF SlabInv, NoSlabLeak

(* Pages that other users of the page allocator take and return. *)
LEMMA OthersInv ==
    ASSUME SlabInv, OthersTake \/ OthersReturn
    PROVE  SlabInv'
<1>1. HeapOK(heap, Used) /\ heap \in HeapType
  BY DEF SlabInv, HeapOK
<1>2. NoSlab \in SlabType
  <2>1. CACHE_SIZES \in Seq(Nat \ {0}) /\ CACHE_SIZES # <<>>
    BY SlabAssumption
  <2>2. 1 \in Cache
    BY <2>1 DEF Cache
  <2> QED
    BY <2>2 DEF NoSlab, SlabType
<1>3. \E p \in Page, g \in HeapType :
         /\ heap' = g /\ p \notin SlabPages(heap) /\ p \notin SlabPages(g)
         /\ g.next = heap.next /\ g.prev = heap.prev /\ g.head = heap.head
         /\ \A q \in Page \ {p} :
               g.slab[q] = heap.slab[q] /\ (q \in g.free_pages <=> q \in heap.free_pages)
  <2>1. CASE OthersTake
    <3> DEFINE p == NewPage(heap)
               sl == [heap.slab EXCEPT ![p] = NoSlab]
               fp == heap.free_pages \ {p}
               g == [heap EXCEPT !.free_pages = fp, !.slab = sl]
    <3>1. p \in heap.free_pages /\ p \in Page
      BY <1>1, <2>1, NewPageFree DEF OthersTake
    <3>2. heap' = g
      BY <1>1, <2>1 DEF OthersTake, HeapType
    <3> HIDE DEF p
    <3>3. sl \in [Page -> SlabType] /\ sl[p] = NoSlab /\ fp \in SUBSET Page
          /\ \A q \in Page \ {p} : sl[q] = heap.slab[q] /\ (q \in fp <=> q \in heap.free_pages)
      BY <1>1, <1>2, <3>1 DEF HeapType
    <3> HIDE DEF sl, fp
    <3>4. /\ g \in HeapType /\ g.slab = sl /\ g.free_pages = fp
          /\ g.next = heap.next /\ g.prev = heap.prev /\ g.head = heap.head
      BY Zenon, <1>1, <3>3 DEF HeapType
    <3> HIDE DEF g
    <3>5. p \notin SlabPages(heap) /\ p \notin SlabPages(g)
      BY <3>1, <3>3, <3>4 DEF SlabPages, NoSlab
    <3> QED
      BY <3>1, <3>2, <3>3, <3>4, <3>5
  <2>2. CASE OthersReturn
    <3>1. PICK p \in Others : heap' = [heap EXCEPT !.free_pages = @ \cup {p}]
      BY <2>2 DEF OthersReturn
    <3> DEFINE g == [heap EXCEPT !.free_pages = @ \cup {p}]
    <3>2. p \in Page /\ ~ heap.slab[p].magic
      BY DEF Others
    <3>3. /\ g \in HeapType /\ g.slab = heap.slab /\ g.free_pages = heap.free_pages \cup {p}
          /\ g.next = heap.next /\ g.prev = heap.prev /\ g.head = heap.head
      BY <1>1, <3>2 DEF HeapType
    <3> HIDE DEF g
    <3>4. p \notin SlabPages(heap) /\ p \notin SlabPages(g)
      BY <3>2, <3>3 DEF SlabPages
    <3> QED
      BY Zenon, <3>1, <3>2, <3>3, <3>4 DEF g
  <2> QED
    BY <2>1, <2>2
<1>4. /\ HeapOK(heap', Used) /\ SlabPages(heap') = SlabPages(heap)
      /\ \A q \in SlabPages(heap) : heap'.slab[q] = heap.slab[q]
  BY <1>1, <1>3, OthersOK
<1>5. UNCHANGED held
  BY DEF OthersTake, OthersReturn
<1> QED
  BY <1>4, <1>5, SlabIdle

(* Every step keeps the invariant. *)
LEMMA SlabNext ==
    ASSUME SlabInv, [Next]_vars
    PROVE  SlabInv'
<1>1. CASE \E size \in Sizes : Allocate(size)
  BY <1>1, AllocateInv
<1>2. CASE \E b \in held : Release(b)
  BY <1>2, ReleaseInv
<1>3. CASE OthersTake \/ OthersReturn
  BY <1>3, OthersInv
<1>4. CASE UNCHANGED vars
  BY <1>4, SlabIdle DEF vars, SlabInv
<1> QED
  BY <1>1, <1>2, <1>3, <1>4 DEF Next

(* The invariant holds of every behaviour. *)
THEOREM SlabInvariant == Spec => []SlabInv
<1> QED
  BY SlabInit, SlabNext, PTL DEF Spec

(* Where the blocks in use lie: in chunks of their slab. *)
LEMMA BlockFacts ==
    ASSUME SlabInv, NEW b \in held
    PROVE  /\ b.page \in SlabPages(heap) /\ b.page \in Page
           /\ heap.slab[b.page].cache \in Cache
           /\ b.off \in Range(Chunks(heap.slab[b.page].cache))
           /\ b.off \in DATA_START .. PAGE_SIZE /\ b.off \in Nat /\ b.size \in Nat \ {0}
           /\ b.off + CACHE_SIZES[heap.slab[b.page].cache] <= PAGE_SIZE
           /\ b.size <= CACHE_SIZES[heap.slab[b.page].cache]
           /\ CACHE_SIZES[heap.slab[b.page].cache] \in Nat
<1>1. b \in [page : Page, off : Nat, size : Nat \ {0}] /\ b.size <= CACHE_SIZES[heap.slab[b.page].cache]
  BY DEF SlabInv
<1>2. b.page \in SlabPages(heap)
  BY DEF SlabInv, NoSlabLeak
<1>3. heap.slab[b.page].cache \in Cache
  BY <1>1 DEF SlabInv, HeapOK, HeapType, SlabType
<1>4. Shares(heap.slab[b.page], InUse(b.page))
  BY Zenon, <1>1, <1>2 DEF SlabInv, HeapOK, Used
<1>5. b.off \in InUse(b.page)
  BY DEF InUse
<1>6. b.off \in Range(Chunks(heap.slab[b.page].cache))
  BY <1>4, <1>5 DEF Shares
<1>7. /\ b.off \in DATA_START .. PAGE_SIZE
      /\ b.off + CACHE_SIZES[heap.slab[b.page].cache] <= PAGE_SIZE
  BY <1>3, <1>6, ChunkFacts
<1>8. CACHE_SIZES[heap.slab[b.page].cache] \in Nat
  BY <1>3, CacheFits
<1> QED
  BY <1>1, <1>2, <1>3, <1>6, <1>7, <1>8

(* slab.rs: a chunk is on the free list of its slab or with one holder,    *)
(* never both, and free_chunks counts the list: what kmalloc and kfree     *)
(* take for granted when they take the head of the list without a check.   *)
THEOREM ChunksStayAccounted == Spec => []ChunksAccounted
<1>1. SlabInv => ChunksAccounted
  <2> SUFFICES ASSUME SlabInv PROVE ChunksAccounted
    OBVIOUS
  <2>1. heap \in HeapType
    BY DEF SlabInv, HeapOK
  <2>2. held \subseteq [page : Page, off : DATA_START .. PAGE_SIZE, size : Nat]
    <3> SUFFICES ASSUME NEW b \in held
                 PROVE  b \in [page : Page, off : DATA_START .. PAGE_SIZE, size : Nat]
      OBVIOUS
    <3>1. b \in [page : Page, off : Nat, size : Nat \ {0}]
      BY DEF SlabInv
    <3>2. b.off \in DATA_START .. PAGE_SIZE
      BY BlockFacts
    <3> QED
      BY <3>1, <3>2
  <2>3. TypeOK
    BY <2>1, <2>2, BlockFacts DEF TypeOK, HeapType, Links
  <2>4. SlabPages(heap) \subseteq Page
    BY DEF SlabPages
  <2>5. \A p \in SlabPages(heap) : Shares(heap.slab[p], InUse(p))
    BY Zenon, <2>4 DEF SlabInv, HeapOK, Used
  <2>6. \A b \in held : b.page \in SlabPages(heap)
    BY BlockFacts
  <2> QED
    BY <2>3, <2>5, <2>6 DEF ChunksAccounted, Shares, SlabInv
<1> QED
  BY <1>1, SlabInvariant, PTL

(* list_remove and list_add, slab.rs: every slab stays linked, both ways,  *)
(* on the list that its free chunks call for.                              *)
THEOREM LinksStaySound == Spec => []LinksSound
<1>1. SlabInv => LinksSound
  BY DEF SlabInv, HeapOK, ListsSound, LinksSound
<1> QED
  BY <1>1, SlabInvariant, PTL

(* The end of kfree: no page is kept that nobody uses, and none is given   *)
(* back that somebody does.                                                *)
THEOREM SlabsGoBack == Spec => []NoSlabLeak
<1>1. SlabInv => NoSlabLeak
  BY DEF SlabInv
<1> QED
  BY <1>1, SlabInvariant, PTL

(* slab.h:15: kmalloc returns NULL for a size of 0 or beyond the largest   *)
(* class, and otherwise only if no page is to be had and no slab of the    *)
(* class has a chunk to spare.                                             *)
THEOREM KmallocFindsMemory == Spec => []NullOnlyWhenExhausted
<1>1. SlabInv => NullOnlyWhenExhausted
  <2> SUFFICES ASSUME SlabInv, NEW size \in Sizes, kmalloc(heap, size).ptr = NULL,
                      size # 0, ~ (size > MaxSize)
               PROVE  /\ heap.free_pages = {}
                      /\ \A p \in SlabPages(heap) :
                            heap.slab[p].cache = CacheFor(size) => heap.slab[p].free_list = <<>>
    BY DEF NullOnlyWhenExhausted
  <2>1. HeapOK(heap, Used) /\ heap \in HeapType /\ size \in Nat
    BY SlabAssumption DEF SlabInv, HeapOK
  <2>2. Exhausted(heap, size)
    BY Zenon, <2>1, KmallocOK
  <2>3. /\ CacheFor(size) \in Cache /\ heap.free_pages = {}
        /\ heap.head[CacheFor(size)]["partial"] = NULL
    BY <2>2 DEF Exhausted
  <2>4. "partial" \in List /\ ListsSound(heap, Place(heap)) /\ Place(heap) \in [Page -> Spots]
    BY <2>1, PlaceType DEF List, HeapOK
  <2>5. \A p \in Page : Place(heap)[p] # <<CacheFor(size), "partial">>
    BY <2>1, <2>3, <2>4, EmptyList
  <2>6. ASSUME NEW p \in SlabPages(heap), heap.slab[p].cache = CacheFor(size)
        PROVE  heap.slab[p].free_list = <<>>
    <3>1. p \in Page
      BY DEF SlabPages
    <3>2. heap.slab[p].free_chunks = 0
      BY <2>1, <2>5, <2>6, <3>1, PlaceType
    <3>3. Shares(heap.slab[p], Used[p]) /\ heap.slab[p].free_list \in Seq(Nat)
      BY <2>1, <3>1 DEF HeapOK, HeapType, SlabType
    <3> QED
      BY <3>2, <3>3 DEF Shares
  <2> QED
    BY <2>3, <2>6
<1> QED
  BY <1>1, SlabInvariant, PTL
-----------------------------------------------------------------------------
(* A block as its caller sees it. *)
Block(b) == [addr |-> b.page * PAGE_SIZE + b.off, size |-> b.size]

(* Blocks in use do not overlap: chunks of a slab are their size apart,    *)
(* and those of two slabs in different pages.                              *)
LEMMA BlocksApart ==
    ASSUME SlabInv, NEW a \in held, NEW b \in held, a # b
    PROVE  /\ Block(a).addr + Block(a).size <= Block(b).addr
              \/ Block(b).addr + Block(b).size <= Block(a).addr
           /\ Block(a) # Block(b)
<1> DEFINE za == CACHE_SIZES[heap.slab[a.page].cache]
           zb == CACHE_SIZES[heap.slab[b.page].cache]
<1>1. /\ a.page \in Page /\ a.off \in Nat /\ a.size \in Nat \ {0} /\ a.size <= za
      /\ za \in Nat /\ a.off + za <= PAGE_SIZE
  BY BlockFacts
<1>2. /\ b.page \in Page /\ b.off \in Nat /\ b.size \in Nat \ {0} /\ b.size <= zb
      /\ zb \in Nat /\ b.off + zb <= PAGE_SIZE
  BY BlockFacts
<1>3. PAGE_SIZE \in Nat /\ Page \subseteq Nat
  BY SlabAssumption DEF Page
<1>4. a.page * PAGE_SIZE \in Nat /\ b.page * PAGE_SIZE \in Nat
  <2>1. \A i \in Nat : i * PAGE_SIZE \in Nat
    BY <1>3
  <2>2. a.page \in Nat /\ b.page \in Nat
    BY Zenon, <1>1, <1>2, <1>3
  <2> QED
    BY <2>1, <2>2
<1>5. \/ a.page * PAGE_SIZE + a.off + a.size <= b.page * PAGE_SIZE + b.off
      \/ b.page * PAGE_SIZE + b.off + b.size <= a.page * PAGE_SIZE + a.off
  <2>1. CASE a.page = b.page
    <3>1. a.off # b.off
      BY <2>1 DEF SlabInv
    <3>2. /\ heap.slab[a.page].cache \in Cache
          /\ a.off \in Range(Chunks(heap.slab[a.page].cache))
          /\ b.off \in Range(Chunks(heap.slab[a.page].cache))
      BY <2>1, BlockFacts
    <3>3. a.off + za <= b.off \/ b.off + za <= a.off
      BY <3>1, <3>2, ChunkFacts
    <3>4. za = zb
      BY <2>1
    <3> HIDE DEF za, zb
    <3> QED
      BY <1>1, <1>2, <1>4, <2>1, <3>3, <3>4
  <2> HIDE DEF za, zb
  <2>2. CASE a.page < b.page
    <3>1. a.page * PAGE_SIZE + PAGE_SIZE <= b.page * PAGE_SIZE
      BY Zenon, <1>1, <1>2, <1>3, <2>2, Multiples
    <3> QED
      BY <1>1, <1>2, <1>3, <1>4, <3>1
  <2>3. CASE b.page < a.page
    <3>1. b.page * PAGE_SIZE + PAGE_SIZE <= a.page * PAGE_SIZE
      BY Zenon, <1>1, <1>2, <1>3, <2>3, Multiples
    <3> QED
      BY <1>1, <1>2, <1>3, <1>4, <3>1
  <2>4. a.page \in Nat /\ b.page \in Nat
    BY Zenon, <1>1, <1>2, <1>3
  <2>5. a.page = b.page \/ a.page < b.page \/ b.page < a.page
    BY <2>4
  <2> QED
    BY <2>1, <2>2, <2>3, <2>5
<1>6. /\ Block(a).addr = a.page * PAGE_SIZE + a.off /\ Block(a).size = a.size
      /\ Block(b).addr = b.page * PAGE_SIZE + b.off /\ Block(b).size = b.size
  BY DEF Block
<1>7. a.page * PAGE_SIZE + a.off # b.page * PAGE_SIZE + b.off
  <2> HIDE DEF za, zb
  <2> QED
    BY <1>1, <1>2, <1>4, <1>5
<1> QED
  BY <1>5, <1>6, <1>7

(* No two blocks in use overlap. *)
AllApart ==
    \A a, b \in held : a # b => KernelHeap!Apart(Block(a), Block(b)) /\ Block(a) # Block(b)

(* In any state that the invariant allows. *)
LEMMA ApartLemma == SlabInv => AllApart
  BY BlocksApart DEF AllApart, KernelHeap!Apart

(* And in the next one. *)
LEMMA ApartNext == SlabInv' => AllApart'
  BY ApartLemma, PTL

(* slab.rs promises what Heap does: a block that kmalloc returns overlaps  *)
(* none that is in use, and kfree takes back just the one it is given.     *)
THEOREM SlabImplementsHeap == Spec => HeapSpec
<1>1. Blocks = {Block(b) : b \in held} /\ Blocks' = {Block(b) : b \in held'}
  BY DEF Blocks, Block
<1>2. Init => KernelHeap!Init
  BY DEF Init, KernelHeap!Init, Blocks
<1>3. ASSUME SlabInv, SlabInv', [Next]_vars
      PROVE  [KernelHeap!Next]_Blocks
  <2>1. CASE held' = held
    BY <2>1 DEF Blocks
  <2>2. ASSUME NEW size \in Sizes, Allocate(size), held' # held
        PROVE  KernelHeap!Alloc
    <3>1. PICK b : held' = held \cup {b} /\ b \notin held
      BY <2>2 DEF Allocate
    <3>2. Blocks' = Blocks \cup {Block(b)}
      BY <1>1, <3>1
    <3>3. \A a \in held' : a # b => KernelHeap!Apart(Block(a), Block(b)) /\ Block(a) # Block(b)
      BY <1>3, <3>1, ApartNext DEF AllApart, KernelHeap!Apart
    <3>4. \A a \in Blocks : KernelHeap!Apart(a, Block(b)) /\ a # Block(b)
      BY <1>1, <3>1, <3>3
    <3> QED
      BY <3>2, <3>4 DEF KernelHeap!Alloc
  <2>3. ASSUME NEW b \in held, Release(b)
        PROVE  KernelHeap!Free
    <3>1. held' = held \ {b}
      BY <2>3 DEF Release
    <3>2. \A a \in held : a # b => Block(a) # Block(b)
      BY <1>3, ApartLemma DEF AllApart
    <3>3. Blocks' = Blocks \ {Block(b)}
      BY <1>1, <3>1, <3>2
    <3> QED
      BY Zenon, <1>1, <3>3 DEF KernelHeap!Free
  <2>4. CASE OthersTake \/ OthersReturn
    BY <2>1, <2>4 DEF OthersTake, OthersReturn
  <2> QED
    BY <1>3, <2>1, <2>2, <2>3, <2>4 DEF Next, vars, KernelHeap!Next
<1> QED
  BY <1>2, <1>3, SlabInvariant, PTL DEF Spec, HeapSpec, KernelHeap!Spec

=============================================================================
