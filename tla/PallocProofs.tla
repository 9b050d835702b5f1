---------------------------- MODULE PallocProofs ----------------------------
(***************************************************************************)
(* Proofs about Palloc, for any number of threads, any amount of memory    *)
(* and groups of any size.                                                 *)
(***************************************************************************)
EXTENDS Palloc, TLAPS

(* A thread that looks for pages holds the lock of their pool.               *)
LockInv ==
    \A t \in Thread : pc[t] \in {"scan", "flip"} =>
        lock[pool[t]] = t /\ page_cnt[t] > 0

(* The group found or being freed lies in its pool, and the one found is     *)
(* still free.                                                               *)
RangeInv ==
    \A t \in Thread : pc[t] \in {"flip", "clear"} =>
        /\ page_cnt[t] > 0
        /\ page_idx[t] + page_cnt[t] <= Size[pool[t]]
        /\ pc[t] = "flip" =>
             \A b \in page_idx[t] .. page_idx[t] + page_cnt[t] - 1 :
                 b \notin used_map[pool[t]]

InPool(g, p) == Base[p] <= g.start /\ g.start + g.cnt <= Base[p] + Size[p]

(* The groups in use lie in a pool and have no page in common.               *)
HeldInv ==
    /\ \A g \in held : g.cnt > 0 /\ \E p \in Pool : InPool(g, p)
    /\ \A g, h \in held : \A n \in Pages(g) : n \in Pages(h) => g = h

(* A page that is being freed is in no group in use, and only one thread     *)
(* frees it.                                                                 *)
ClearInv ==
    /\ \A t, u \in Thread : \A b \in ToClear(t) :
           pool[t] = pool[u] /\ b \in ToClear(u) => t = u
    /\ \A t \in Thread : \A b \in ToClear(t) : \A g \in held :
           Base[pool[t]] + b \notin Pages(g)

(* UsedMapExact, bit by bit.                                                 *)
BitExact(p, b) ==
    b \in used_map[p] <=>
        \/ b \in 0 .. Size[p] - 1 /\ \E g \in held : Base[p] + b \in Pages(g)
        \/ \E t \in Thread : pool[t] = p /\ b \in ToClear(t)

MapInv == \A p \in Pool : \A b \in Nat : BitExact(p, b)

(* What a scan has seen: bits that were clear when it began still are, and   *)
(* no group that begins before page_idx was clear then.                      *)
ScanInv ==
    \A t \in Thread : pc[t] = "scan" =>
        /\ was_free[t] \subseteq 0 .. Size[pool[t]] - 1
        /\ \A b \in was_free[t] : b \notin used_map[pool[t]]
        /\ \A i \in 0 .. page_idx[t] - 1 :
               \E b \in i .. i + page_cnt[t] - 1 : b \notin was_free[t]

PallocInv ==
    /\ PallocTypeOK
    /\ NoPanic
    /\ LockInv
    /\ RangeInv
    /\ HeldInv
    /\ ClearInv
    /\ MapInv
    /\ ScanInv

-----------------------------------------------------------------------------
(* The number of pages for a bitmap is a number.                             *)
LEMMA BitmapPages == ASSUME NEW n \in Nat PROVE bm_pages(n) \in Nat
<1> DEFINE w == (n + 31) \div 32
<1>1. w \in Nat
  OBVIOUS
<1> HIDE DEF w
<1>2. (8 + 4 * w + 4095) \div 4096 \in Nat
  BY <1>1
<1> QED BY <1>2 DEF bm_pages, w

(* palloc_init() divides the pages into two pools that do not overlap, and   *)
(* init_pool() takes the bitmap of each out of its own share.                *)
LEMMA Layout ==
    /\ Base \in [Pool -> Nat]
    /\ Size \in [Pool -> Nat]
    /\ Base["kernel"] + Size["kernel"] <= Base["user"]
    /\ Pool = {"kernel", "user"}
    /\ "kernel" # "user"
<1> DEFINE bk == bm_pages(kernel_pages)
           bu == bm_pages(user_pages)
<1>1. free_pages \div 2 \in Nat /\ free_pages \div 2 <= free_pages
  BY PallocAssumption
<1>2. user_pages \in Nat /\ kernel_pages \in Nat
  BY <1>1, PallocAssumption DEF user_pages, kernel_pages
<1>3. bk \in Nat /\ bu \in Nat /\ bk <= kernel_pages /\ bu <= user_pages
  BY <1>2, BitmapPages, PallocAssumption
<1>4. /\ Base = [p \in Pool |-> IF p = "kernel" THEN free_start + bk
                               ELSE free_start + kernel_pages + bu]
      /\ Size = [p \in Pool |-> IF p = "kernel" THEN kernel_pages - bk
                               ELSE user_pages - bu]
  BY DEF Base, Size
<1> HIDE DEF bk, bu
<1> QED BY <1>2, <1>3, <1>4, PallocAssumption DEF Pool

(* A page is in one pool only.                                               *)
LEMMA OnePool ==
    ASSUME NEW p \in Pool, NEW q \in Pool, NEW n \in Int,
           Base[p] <= n, n < Base[p] + Size[p],
           Base[q] <= n, n < Base[q] + Size[q]
    PROVE  p = q
BY Layout

-----------------------------------------------------------------------------
(* The invariant holds after palloc_init().                                  *)
LEMMA InitInv == Init => PallocInv
<1> SUFFICES ASSUME Init PROVE PallocInv
  OBVIOUS
<1>1. PallocTypeOK /\ NoPanic /\ LockInv /\ RangeInv /\ ScanInv
  BY DEF Init, PallocTypeOK, NoPanic, LockInv, RangeInv, ScanInv, Location, Pool
<1>2. HeldInv /\ ClearInv
  BY DEF Init, HeldInv, ClearInv, ToClear
<1>3. MapInv
  BY DEF Init, MapInv, BitExact, ToClear
<1> QED BY <1>1, <1>2, <1>3 DEF PallocInv

-----------------------------------------------------------------------------
(* Taking the lock and starting to look.                                     *)
LEMMA GetMultipleStep ==
    ASSUME PallocInv, NEW t \in Thread, NEW p \in Pool, NEW n \in Count,
           GetMultiple(t, p, n)
    PROVE  PallocInv'
<1> USE DEF PallocInv, GetMultiple, Goto
<1>1. n \in Nat /\ n > 0 /\ Size[p] \in Nat
  BY PallocAssumption, Layout
<1>2. PallocTypeOK'
  BY <1>1 DEF PallocTypeOK, Location
<1>3. NoPanic' /\ LockInv'
  BY <1>1, PallocAssumption DEF PallocTypeOK, NoPanic, LockInv
<1>4. RangeInv'
  BY DEF PallocTypeOK, RangeInv
<1>5. \A u \in Thread : ToClear(u)' = ToClear(u) /\ (ToClear(u) # {} => u # t)
  BY DEF PallocTypeOK, ToClear
<1>6. HeldInv'
  BY DEF HeldInv, InPool, Pages
<1>7. ClearInv'
  BY <1>5 DEF ClearInv, PallocTypeOK
<1>8. MapInv'
  BY <1>5 DEF MapInv, BitExact, PallocTypeOK
<1>9. ScanInv'
  <2> SUFFICES ASSUME NEW u \in Thread, pc'[u] = "scan"
               PROVE  /\ was_free'[u] \subseteq 0 .. Size[pool'[u]] - 1
                      /\ \A b \in was_free'[u] : b \notin used_map'[pool'[u]]
                      /\ \A i \in 0 .. page_idx'[u] - 1 :
                             \E b \in i .. i + page_cnt'[u] - 1 :
                                 b \notin was_free'[u]
    BY DEF ScanInv
  <2>1. CASE u = t
    BY <2>1 DEF PallocTypeOK
  <2>2. CASE u # t
    BY <2>2 DEF PallocTypeOK, ScanInv
  <2> QED BY <2>1, <2>2
<1> QED BY <1>2, <1>3, <1>4, <1>6, <1>7, <1>8, <1>9

(* One position of the bitmap.                                               *)
LEMMA ScanStep ==
    ASSUME PallocInv, NEW t \in Thread, Scan(t)
    PROVE  PallocInv'
<1> DEFINE p == pool[t]
           i == page_idx[t]
           n == page_cnt[t]
<1>1. /\ p \in Pool /\ i \in Nat /\ n \in Nat /\ n > 0 /\ Size[p] \in Nat
      /\ pc[t] = "scan" /\ lock[p] = t
  BY Layout DEF PallocInv, PallocTypeOK, LockInv, Scan
<1>2. \A u \in Thread : ToClear(u)' = ToClear(u)
  <2>1. pc'[t] # "clear"
    BY <1>1 DEF PallocInv, PallocTypeOK, Scan, Goto, Return
  <2>2. ASSUME NEW u \in Thread, u # t
        PROVE  /\ pc'[u] = pc[u] /\ page_idx'[u] = page_idx[u]
               /\ page_cnt'[u] = page_cnt[u]
    BY <2>2 DEF PallocInv, PallocTypeOK, Scan, Goto, Return
  <2> QED BY <1>1, <2>1, <2>2 DEF ToClear
<1>3. HeldInv'
  BY DEF PallocInv, HeldInv, InPool, Pages, Scan
<1>4. ClearInv'
  BY <1>2 DEF PallocInv, ClearInv, Scan
<1>5. MapInv'
  BY <1>2 DEF PallocInv, MapInv, BitExact, Scan
<1>6. CASE i + n > Size[p]
  <2>1. /\ pc' = [pc EXCEPT ![t] = "out"]
        /\ page_idx' = [page_idx EXCEPT ![t] = 0]
        /\ page_cnt' = [page_cnt EXCEPT ![t] = 0]
        /\ was_free' = [was_free EXCEPT ![t] = {}]
        /\ lock' = [lock EXCEPT ![p] = NoThread]
        /\ UNCHANGED <<used_map, held, pool>>
    BY <1>6 DEF Scan, Return, Goto
  <2>2. PallocTypeOK' /\ NoPanic'
    BY <2>1 DEF PallocInv, PallocTypeOK, NoPanic, Location
  <2>3. LockInv'
    BY <1>1, <2>1 DEF PallocInv, PallocTypeOK, LockInv
  <2>4. RangeInv' /\ ScanInv'
    BY <2>1 DEF PallocInv, PallocTypeOK, RangeInv, ScanInv
  <2> QED BY <1>3, <1>4, <1>5, <2>2, <2>3, <2>4 DEF PallocInv
<1>7. CASE ~(i + n > Size[p])
  <2>1. /\ UNCHANGED <<used_map, held, pool, page_cnt, was_free, lock>>
        /\ \/ /\ (i .. i + n - 1) \cap used_map[p] = {}
              /\ pc' = [pc EXCEPT ![t] = "flip"] /\ UNCHANGED page_idx
           \/ /\ (i .. i + n - 1) \cap used_map[p] # {}
              /\ page_idx' = [page_idx EXCEPT ![t] = i + 1] /\ UNCHANGED pc
    BY <1>7 DEF Scan, Goto
  <2>2. PallocTypeOK' /\ NoPanic'
    BY <1>1, <2>1 DEF PallocInv, PallocTypeOK, NoPanic, Location
  <2>3. LockInv'
    BY <1>1, <2>1 DEF PallocInv, PallocTypeOK, LockInv
  <2>4. RangeInv'
    BY <1>1, <1>7, <2>1 DEF PallocInv, PallocTypeOK, RangeInv
  <2>5. ScanInv'
    <3>1. CASE UNCHANGED page_idx
      BY <2>1, <3>1 DEF PallocInv, PallocTypeOK, ScanInv
    <3>2. CASE page_idx' = [page_idx EXCEPT ![t] = i + 1]
               /\ (i .. i + n - 1) \cap used_map[p] # {} /\ UNCHANGED pc
      <4>1. \E b \in i .. i + n - 1 : b \notin was_free[t]
        BY <1>1, <3>2 DEF PallocInv, ScanInv
      <4>2. \A j \in 0 .. page_idx'[t] - 1 : j \in 0 .. i - 1 \/ j = i
        BY <1>1, <3>2 DEF PallocInv, PallocTypeOK
      <4>3. \A j \in 0 .. page_idx'[t] - 1 :
                \E b \in j .. j + n - 1 : b \notin was_free[t]
        BY <1>1, <4>1, <4>2 DEF PallocInv, ScanInv
      <4> QED BY <2>1, <3>2, <4>3 DEF PallocInv, PallocTypeOK, ScanInv
    <3> QED BY <2>1, <3>1, <3>2
  <2> QED BY <1>3, <1>4, <1>5, <2>2, <2>3, <2>4, <2>5 DEF PallocInv
<1> QED BY <1>6, <1>7

(* The group that a scan has found has no page in use.                       *)
LEMMA FlipFresh ==
    ASSUME PallocInv, NEW t \in Thread, pc[t] = "flip"
    PROVE  LET g == [start |-> Base[pool[t]] + page_idx[t], cnt |-> page_cnt[t]]
           IN  \A h \in held : \A m \in Pages(g) : m \notin Pages(h)
<1> DEFINE p == pool[t]
           i == page_idx[t]
           n == page_cnt[t]
           g == [start |-> Base[p] + i, cnt |-> n]
<1> SUFFICES ASSUME NEW h \in held, NEW m \in Pages(g), m \in Pages(h)
             PROVE  FALSE
  OBVIOUS
<1>1. /\ p \in Pool /\ i \in Nat /\ n \in Nat /\ i + n <= Size[p]
      /\ Size[p] \in Nat /\ Base[p] \in Nat
      /\ \A b \in i .. i + n - 1 : b \notin used_map[p]
  BY Layout DEF PallocInv, PallocTypeOK, RangeInv
<1> DEFINE b == m - Base[p]
<1>2. /\ b \in i .. i + n - 1 /\ b \in Nat /\ b \in 0 .. Size[p] - 1
      /\ Base[p] + b = m
  BY <1>1 DEF Pages
<1> HIDE DEF b
<1>3. b \in used_map[p]
  BY <1>1, <1>2 DEF PallocInv, MapInv, BitExact
<1> QED BY <1>1, <1>2, <1>3

(* The group found is marked and handed out.                                 *)
LEMMA FlipStep ==
    ASSUME PallocInv, NEW t \in Thread, Flip(t)
    PROVE  PallocInv'
<1> DEFINE p == pool[t]
           i == page_idx[t]
           n == page_cnt[t]
           g == [start |-> Base[p] + i, cnt |-> n]
<1>1. /\ p \in Pool /\ i \in Nat /\ n \in Nat /\ n > 0 /\ i + n <= Size[p]
      /\ Size[p] \in Nat /\ Base[p] \in Nat
      /\ pc[t] = "flip" /\ lock[p] = t
      /\ \A b \in i .. i + n - 1 : b \notin used_map[p]
  BY Layout DEF PallocInv, PallocTypeOK, LockInv, RangeInv, Flip
<1>2. /\ used_map' = [used_map EXCEPT ![p] = @ \cup (i .. i + n - 1)]
      /\ held' = held \cup {g}
      /\ lock' = [lock EXCEPT ![p] = NoThread]
      /\ pc' = [pc EXCEPT ![t] = "out"]
      /\ page_idx' = [page_idx EXCEPT ![t] = 0]
      /\ page_cnt' = [page_cnt EXCEPT ![t] = 0]
      /\ was_free' = [was_free EXCEPT ![t] = {}]
      /\ pool' = pool
  <2>1. Bits(p, g) = i .. i + n - 1
    BY <1>1 DEF Bits
  <2> QED BY <2>1 DEF Flip, Return, Goto
<1>3. g \in Group /\ g.start = Base[p] + i /\ g.cnt = n
  BY <1>1 DEF Group
<1>4. /\ \A m \in Pages(g) : m - Base[p] \in i .. i + n - 1
      /\ \A b \in i .. i + n - 1 : Base[p] + b \in Pages(g)
      /\ InPool(g, p)
  BY <1>1, <1>3 DEF Pages, InPool
<1> HIDE DEF g
<1>5. PallocTypeOK' /\ NoPanic'
  BY <1>1, <1>2, <1>3 DEF PallocInv, PallocTypeOK, NoPanic, Location
<1>6. LockInv'
  BY <1>1, <1>2 DEF PallocInv, PallocTypeOK, LockInv
<1>7. \A u \in Thread : pc'[u] \in {"scan", "flip"} => u # t /\ pool[u] # p
  BY <1>1, <1>2 DEF PallocInv, PallocTypeOK, LockInv
<1>8. RangeInv'
  BY <1>2, <1>7 DEF PallocInv, PallocTypeOK, RangeInv
<1>9. ScanInv'
  BY <1>2, <1>7 DEF PallocInv, PallocTypeOK, ScanInv
<1>10. \A u \in Thread : ToClear(u)' = ToClear(u) /\ (ToClear(u) # {} => u # t)
  BY <1>1, <1>2 DEF PallocInv, PallocTypeOK, ToClear
<1>11. \A h \in held : \A m \in Pages(g) : m \notin Pages(h)
  BY <1>1, FlipFresh DEF g
<1>12. HeldInv'
  <2>1. \A h \in held' : h.cnt > 0 /\ \E q \in Pool : InPool(h, q)
    BY <1>1, <1>2, <1>3, <1>4 DEF PallocInv, HeldInv
  <2>2. \A h, k \in held' : \A m \in Pages(h) : m \in Pages(k) => h = k
    BY <1>2, <1>11 DEF PallocInv, HeldInv
  <2> QED BY <2>1, <2>2 DEF HeldInv, InPool, Pages
<1>13. \A u \in Thread : \A b \in ToClear(u) :
           /\ b \in Nat /\ b \in 0 .. Size[pool[u]] - 1 /\ pool[u] \in Pool
           /\ b \in used_map[pool[u]]
  BY Layout DEF PallocInv, PallocTypeOK, RangeInv, ToClear, MapInv, BitExact
<1>14. ASSUME NEW q \in Pool, NEW b \in 0 .. Size[q] - 1,
              Base[q] + b \in Pages(g)
       PROVE  q = p /\ b \in i .. i + n - 1
  <2>1. Base[q] \in Nat /\ Size[q] \in Nat /\ b \in Nat
    BY Layout
  <2>2. /\ Base[p] <= Base[q] + b /\ Base[q] + b < Base[p] + Size[p]
    BY <1>1, <1>3, <1>14, <2>1 DEF Pages
  <2>3. q = p
    BY <1>1, <2>1, <2>2, OnePool
  <2> QED BY <1>1, <1>3, <1>14, <2>1, <2>3 DEF Pages
<1>15. ClearInv'
  <2>1. \A u \in Thread : \A b \in ToClear(u) :
            Base[pool[u]] + b \notin Pages(g)
    BY <1>1, <1>13, <1>14
  <2> QED BY <1>2, <1>10, <2>1 DEF PallocInv, ClearInv, Pages
<1>16. MapInv'
  <2> SUFFICES ASSUME NEW q \in Pool, NEW b \in Nat
               PROVE  BitExact(q, b)'
    BY DEF MapInv
  <2>1. BitExact(q, b)
    BY DEF PallocInv, MapInv
  <2>2. (\E u \in Thread : pool'[u] = q /\ b \in ToClear(u)')
          <=> (\E u \in Thread : pool[u] = q /\ b \in ToClear(u))
    BY <1>2, <1>10
  <2>3. (\E h \in held' : Base[q] + b \in Pages(h))
          <=> (\E h \in held : Base[q] + b \in Pages(h))
              \/ Base[q] + b \in Pages(g)
    BY <1>2
  <2>4. b \in used_map'[q] <=> b \in used_map[q]
                               \/ (q = p /\ b \in i .. i + n - 1)
    BY <1>1, <1>2 DEF PallocInv, PallocTypeOK
  <2>5. b \in 0 .. Size[q] - 1 /\ Base[q] + b \in Pages(g)
          <=> q = p /\ b \in i .. i + n - 1
    BY <1>1, <1>4, <1>14
  <2> QED BY <2>1, <2>2, <2>3, <2>4, <2>5 DEF BitExact, Pages
<1> QED
  BY <1>5, <1>6, <1>8, <1>9, <1>12, <1>15, <1>16 DEF PallocInv

(* A group that its caller gives back is found in its pool, with its bits    *)
(* set.                                                                      *)
LEMMA FreeStep ==
    ASSUME PallocInv, NEW t \in Thread, NEW g \in held, FreeMultiple(t, g)
    PROVE  PallocInv'
<1>1. g \in Group /\ g.start \in Nat /\ g.cnt \in Nat /\ g.cnt > 0 /\ pc[t] = "out"
  BY DEF PallocInv, PallocTypeOK, HeldInv, Group, FreeMultiple
<1>2. PICK p \in Pool : InPool(g, p)
  BY DEF PallocInv, HeldInv
<1> DEFINE i == g.start - Base[p]
           n == g.cnt
<1>3. /\ Base[p] \in Nat /\ Size[p] \in Nat
      /\ i \in Nat /\ i + n <= Size[p] /\ Base[p] + i = g.start
  BY <1>1, <1>2, Layout DEF InPool
<1>4. /\ \A m \in Pages(g) : m - Base[p] \in i .. i + n - 1
      /\ \A b \in i .. i + n - 1 : b \in Nat /\ b \in 0 .. Size[p] - 1
                                   /\ Base[p] + b \in Pages(g)
      /\ Bits(p, g) = i .. i + n - 1
  BY <1>1, <1>3 DEF Pages, Bits
<1>5. Bits(p, g) \subseteq used_map[p]
  BY <1>4 DEF PallocInv, MapInv, BitExact
<1>6. FreeFrom(t, g, p)
  <2>1. page_from_pool(p, g.start)
    BY <1>1, <1>3 DEF page_from_pool
  <2>2. ASSUME NEW q \in Pool, page_from_pool(q, g.start) PROVE q = p
    BY <1>1, <1>3, <2>2, OnePool DEF page_from_pool
  <2> QED BY <2>1, <2>2, Layout DEF FreeMultiple
<1>7. /\ pool' = [pool EXCEPT ![t] = p]
      /\ page_idx' = [page_idx EXCEPT ![t] = i]
      /\ page_cnt' = [page_cnt EXCEPT ![t] = n]
      /\ pc' = [pc EXCEPT ![t] = "clear"]
      /\ was_free' = was_free /\ held' = held \ {g}
      /\ used_map' = used_map /\ lock' = lock
  BY <1>5, <1>6 DEF FreeFrom, FreeMultiple, Goto
<1> HIDE DEF i, n
<1>8. n \in Nat /\ n > 0
  BY <1>1 DEF n
<1>9. PallocTypeOK' /\ NoPanic'
  BY <1>3, <1>7, <1>8 DEF PallocInv, PallocTypeOK, NoPanic, Location
<1>10. \A u \in Thread \ {t} :
           /\ pc'[u] = pc[u] /\ pool'[u] = pool[u] /\ page_idx'[u] = page_idx[u]
           /\ page_cnt'[u] = page_cnt[u] /\ ToClear(u)' = ToClear(u)
  BY <1>7 DEF PallocInv, PallocTypeOK, ToClear
<1>11. /\ pc'[t] = "clear" /\ pool'[t] = p /\ page_idx'[t] = i
       /\ page_cnt'[t] = n /\ ToClear(t)' = i .. i + n - 1 /\ ToClear(t) = {}
  BY <1>1, <1>7 DEF PallocInv, PallocTypeOK, ToClear
<1>12. LockInv'
  BY <1>1, <1>7, <1>10, <1>11, PallocAssumption
     DEF PallocInv, PallocTypeOK, LockInv
<1>13. RangeInv'
  BY <1>3, <1>7, <1>8, <1>10, <1>11 DEF PallocInv, RangeInv
<1>14. ScanInv'
  BY <1>7, <1>10, <1>11 DEF PallocInv, ScanInv
<1>15. HeldInv'
  BY <1>7 DEF PallocInv, HeldInv, InPool, Pages
<1>16. ClearInv'
  <2>1. ASSUME NEW u \in Thread, NEW b \in ToClear(u), pool[u] = p
        PROVE  b \notin i .. i + n - 1
    BY <1>4, <2>1 DEF PallocInv, ClearInv
  <2>2. ASSUME NEW b \in i .. i + n - 1, NEW h \in held \ {g}
        PROVE  Base[p] + b \notin Pages(h)
    BY <1>4, <2>2 DEF PallocInv, HeldInv
  <2>3. ASSUME NEW u \in Thread, NEW v \in Thread, NEW b \in ToClear(u)',
               pool'[u] = pool'[v], b \in ToClear(v)'
        PROVE  u = v
    <3>1. CASE u # t /\ v # t
      BY <1>10, <2>3, <3>1 DEF PallocInv, ClearInv
    <3>2. CASE u = t /\ v # t
      BY <1>10, <1>11, <2>1, <2>3, <3>2
    <3>3. CASE u # t /\ v = t
      BY <1>10, <1>11, <2>1, <2>3, <3>3
    <3> QED BY <3>1, <3>2, <3>3
  <2>4. ASSUME NEW u \in Thread, NEW b \in ToClear(u)', NEW h \in held'
        PROVE  Base[pool'[u]] + b \notin Pages(h)
    <3>1. CASE u = t
      BY <1>7, <1>11, <2>2, <2>4, <3>1
    <3>2. CASE u # t
      BY <1>7, <1>10, <2>4, <3>2 DEF PallocInv, ClearInv
    <3> QED BY <3>1, <3>2
  <2> QED BY <2>3, <2>4 DEF ClearInv, Pages
<1>17. MapInv'
  <2> SUFFICES ASSUME NEW q \in Pool, NEW b \in Nat
               PROVE  BitExact(q, b)'
    BY DEF MapInv
  <2>1. BitExact(q, b)
    BY DEF PallocInv, MapInv
  <2>2. (\E u \in Thread : pool'[u] = q /\ b \in ToClear(u)')
          <=> \/ \E u \in Thread : pool[u] = q /\ b \in ToClear(u)
              \/ q = p /\ b \in i .. i + n - 1
    BY <1>10, <1>11
  <2>3. b \in 0 .. Size[q] - 1 /\ Base[q] + b \in Pages(g)
          <=> q = p /\ b \in i .. i + n - 1
    <3>1. ASSUME b \in 0 .. Size[q] - 1, Base[q] + b \in Pages(g)
          PROVE  q = p /\ b \in i .. i + n - 1
      <4>1. Base[q] \in Nat /\ Size[q] \in Nat
        BY Layout
      <4>2. Base[p] <= Base[q] + b /\ Base[q] + b < Base[p] + Size[p]
        BY <1>1, <1>3, <3>1, <4>1 DEF Pages, n
      <4>3. q = p
        BY <1>3, <3>1, <4>1, <4>2, OnePool
      <4> QED BY <1>4, <3>1, <4>1, <4>3
    <3> QED BY <1>4, <3>1
  <2>4. (\E h \in held : Base[q] + b \in Pages(h))
          <=> (\E h \in held' : Base[q] + b \in Pages(h))
              \/ Base[q] + b \in Pages(g)
    BY <1>7
  <2>5. used_map' = used_map
    BY <1>7
  <2> QED BY <2>1, <2>2, <2>3, <2>4, <2>5 DEF BitExact, Pages
<1> QED
  BY <1>9, <1>12, <1>13, <1>14, <1>15, <1>16, <1>17 DEF PallocInv

(* One bit of a group that is being freed.                                   *)
LEMMA ClearStep ==
    ASSUME PallocInv, NEW t \in Thread, Clear(t)
    PROVE  PallocInv'
<1> DEFINE p == pool[t]
           i == page_idx[t]
           n == page_cnt[t]
<1>1. /\ p \in Pool /\ i \in Nat /\ n \in Nat /\ n > 0 /\ i + n <= Size[p]
      /\ Size[p] \in Nat /\ Base[p] \in Nat /\ pc[t] = "clear"
  BY Layout DEF PallocInv, PallocTypeOK, RangeInv, Clear
<1>2. /\ used_map' = [used_map EXCEPT ![p] = @ \ {i}]
      /\ lock' = lock /\ held' = held /\ pool' = pool
  BY DEF Clear
<1>3. \/ /\ n = 1 /\ pc' = [pc EXCEPT ![t] = "out"]
         /\ page_idx' = [page_idx EXCEPT ![t] = 0]
         /\ page_cnt' = [page_cnt EXCEPT ![t] = 0]
         /\ was_free' = [was_free EXCEPT ![t] = {}]
      \/ /\ n # 1 /\ pc' = pc /\ was_free' = was_free
         /\ page_idx' = [page_idx EXCEPT ![t] = i + 1]
         /\ page_cnt' = [page_cnt EXCEPT ![t] = n - 1]
  BY DEF Clear, Return, Goto
<1> HIDE DEF p, i, n
<1>4. PallocTypeOK' /\ NoPanic'
  BY <1>1, <1>2, <1>3 DEF PallocInv, PallocTypeOK, NoPanic, Location
<1>5. \A u \in Thread \ {t} :
          /\ pc'[u] = pc[u] /\ page_idx'[u] = page_idx[u]
          /\ page_cnt'[u] = page_cnt[u] /\ was_free'[u] = was_free[u]
          /\ ToClear(u)' = ToClear(u)
  <2>1. \A u \in Thread \ {t} :
          /\ pc'[u] = pc[u] /\ page_idx'[u] = page_idx[u]
          /\ page_cnt'[u] = page_cnt[u] /\ was_free'[u] = was_free[u]
    BY <1>3 DEF PallocInv, PallocTypeOK
  <2> QED BY <2>1 DEF ToClear
<1>6. /\ pc'[t] \in {"out", "clear"}
      /\ pc'[t] = "clear" => n > 1 /\ page_idx'[t] = i + 1
                                   /\ page_cnt'[t] = n - 1
      /\ pc'[t] # "clear" => n = 1
  BY <1>1, <1>3 DEF PallocInv, PallocTypeOK
<1>7. ToClear(t) = i .. i + n - 1
  BY <1>1 DEF ToClear, i, n
<1>8. ToClear(t)' = ToClear(t) \ {i} /\ i \in ToClear(t)
  <2>1. CASE pc'[t] = "clear"
    <3>1. ToClear(t)' = i + 1 .. (i + 1) + (n - 1) - 1
      BY <1>6, <2>1 DEF ToClear
    <3> QED BY <1>1, <1>6, <1>7, <2>1, <3>1
  <2>2. CASE pc'[t] # "clear"
    <3>1. ToClear(t)' = {}
      BY <2>2 DEF ToClear
    <3>2. i .. i + n - 1 = {i}
      BY <1>1, <1>6, <2>2
    <3> QED BY <1>7, <3>1, <3>2
  <2> QED BY <2>1, <2>2
<1>9. LockInv'
  BY <1>1, <1>2, <1>5, <1>6 DEF PallocInv, PallocTypeOK, LockInv
<1>10. \A q \in Pool : used_map'[q] \subseteq used_map[q]
  BY <1>1, <1>2 DEF PallocInv, PallocTypeOK
<1>11. RangeInv'
  <2> SUFFICES ASSUME NEW u \in Thread, pc'[u] \in {"flip", "clear"}
               PROVE  /\ page_cnt'[u] > 0
                      /\ page_idx'[u] + page_cnt'[u] <= Size[pool'[u]]
                      /\ pc'[u] = "flip" =>
                           \A b \in page_idx'[u] .. page_idx'[u] + page_cnt'[u] - 1 :
                               b \notin used_map'[pool'[u]]
    BY DEF RangeInv
  <2>1. CASE u = t
    BY <1>1, <1>2, <1>6, <2>1 DEF p
  <2>2. CASE u # t
    BY <1>2, <1>5, <1>10, <2>2 DEF PallocInv, PallocTypeOK, RangeInv
  <2> QED BY <2>1, <2>2
<1>12. ScanInv'
  BY <1>2, <1>5, <1>6, <1>10 DEF PallocInv, PallocTypeOK, ScanInv
<1>13. HeldInv'
  BY <1>2 DEF PallocInv, HeldInv, InPool, Pages
<1>14. ClearInv'
  <2>1. \A u \in Thread : ToClear(u)' \subseteq ToClear(u)
    BY <1>5, <1>8
  <2> QED BY <1>2, <2>1 DEF PallocInv, ClearInv, Pages
<1>15. MapInv'
  <2> SUFFICES ASSUME NEW q \in Pool, NEW b \in Nat
               PROVE  BitExact(q, b)'
    BY DEF MapInv
  <2>1. BitExact(q, b)
    BY DEF PallocInv, MapInv
  <2>2. CASE q = p /\ b = i
    <3>1. b \notin used_map'[q]
      BY <1>1, <1>2, <2>2 DEF PallocInv, PallocTypeOK
    <3>2. \A g \in held' : Base[q] + b \notin Pages(g)
      BY <1>2, <1>8, <2>2 DEF PallocInv, ClearInv, p
    <3>3. \A u \in Thread : pool'[u] = q => b \notin ToClear(u)'
      <4> SUFFICES ASSUME NEW u \in Thread, pool'[u] = q, b \in ToClear(u)'
                   PROVE  FALSE
        OBVIOUS
      <4>1. u # t
        BY <1>8, <2>2
      <4>2. b \in ToClear(u) /\ pool[u] = pool[t]
        BY <1>2, <1>5, <2>2, <4>1 DEF p
      <4> QED BY <1>8, <2>2, <4>1, <4>2 DEF PallocInv, ClearInv
    <3> QED BY <3>1, <3>2, <3>3 DEF BitExact, Pages
  <2>3. CASE ~(q = p /\ b = i)
    <3>1. b \in used_map'[q] <=> b \in used_map[q]
      BY <1>1, <1>2, <2>3 DEF PallocInv, PallocTypeOK
    <3>2. \A u \in Thread : pool'[u] = q =>
              (b \in ToClear(u)' <=> b \in ToClear(u))
      BY <1>2, <1>5, <1>8, <2>3 DEF p
    <3> QED BY <1>2, <2>1, <3>1, <3>2 DEF BitExact, Pages
  <2> QED BY <2>2, <2>3
<1> QED
  BY <1>4, <1>9, <1>11, <1>12, <1>13, <1>14, <1>15 DEF PallocInv

(* Every step preserves the invariant.                                       *)
LEMMA NextInv == PallocInv /\ [Next]_vars => PallocInv'
<1> SUFFICES ASSUME PallocInv, [Next]_vars PROVE PallocInv'
  OBVIOUS
<1>1. CASE Next
  BY <1>1, GetMultipleStep, ScanStep, FlipStep, FreeStep, ClearStep DEF Next
<1>2. CASE UNCHANGED vars
  BY <1>2 DEF vars, locals, PallocInv, PallocTypeOK, NoPanic, LockInv, RangeInv,
     HeldInv, InPool, ClearInv, MapInv, BitExact, ScanInv, ToClear, Pages
<1> QED BY <1>1, <1>2

(* The inductive invariant of the page allocator: who has the lock, what the *)
(* bitmap means and what a scan has seen.                                    *)
THEOREM PallocInvariant == Spec => []PallocInv
BY InitInv, NextInv, PTL DEF Spec

(* Every variable has its type, for any number of threads and any memory     *)
(* size that palloc_init() accepts.                                          *)
THEOREM PallocTypeCorrect == Spec => []PallocTypeOK
BY PallocInvariant, PTL DEF PallocInv

(* The ASSERT and the NOT_REACHED of palloc_free_multiple() never fail.      *)
THEOREM PallocNeverPanics == Spec => []NoPanic
BY PallocInvariant, PTL DEF PallocInv

(* A group in use has its bits in the bitmap of the pool that holds it, and  *)
(* in no other.                                                              *)
LEMMA GroupBits ==
    ASSUME PallocInv, NEW p \in Pool, NEW g \in held
    PROVE  /\ Pages(g) \subseteq PoolPages[p] <=> InPool(g, p)
           /\ \A b \in Int : b \in Bits(p, g) <=> Base[p] + b \in Pages(g)
           /\ \A b \in 0 .. Size[p] - 1 : Base[p] + b \in Pages(g) => InPool(g, p)
<1>1. /\ g.start \in Nat /\ g.cnt \in Nat /\ g.cnt > 0
      /\ Base[p] \in Nat /\ Size[p] \in Nat
  BY Layout DEF PallocInv, PallocTypeOK, HeldInv, Group
<1>2. PoolPages[p] = Base[p] .. Base[p] + Size[p] - 1
  BY DEF PoolPages
<1>3. ASSUME Pages(g) \subseteq PoolPages[p] PROVE InPool(g, p)
  <2>1. g.start \in Pages(g) /\ g.start + g.cnt - 1 \in Pages(g)
    BY <1>1 DEF Pages
  <2>2. g.start \in PoolPages[p] /\ g.start + g.cnt - 1 \in PoolPages[p]
    BY <1>3, <2>1
  <2> QED BY <1>1, <1>2, <2>2 DEF InPool
<1>4. ASSUME InPool(g, p) PROVE Pages(g) \subseteq PoolPages[p]
  BY <1>1, <1>2, <1>4 DEF InPool, Pages
<1>5. \A b \in Int : b \in Bits(p, g) <=> Base[p] + b \in Pages(g)
  BY <1>1 DEF Bits, Pages
<1>6. ASSUME NEW b \in 0 .. Size[p] - 1, Base[p] + b \in Pages(g)
      PROVE  InPool(g, p)
  <2>1. PICK q \in Pool : InPool(g, q)
    BY DEF PallocInv, HeldInv
  <2>2. Base[q] \in Nat /\ Size[q] \in Nat
    BY Layout
  <2>3. q = p
    BY <1>1, <1>6, <2>1, <2>2, OnePool DEF InPool, Pages
  <2> QED BY <2>1, <2>3
<1> QED BY <1>3, <1>4, <1>5, <1>6

(* The bitmap is exact at every moment, so no page leaks and none is free    *)
(* while it is in use.                                                       *)
THEOREM PallocBitmapExact == Spec => []UsedMapExact
<1>1. PallocInv => UsedMapExact
  <2> SUFFICES ASSUME PallocInv, NEW p \in Pool
               PROVE  used_map[p] = HeldBits(p) \cup BitsToClear(p)
    BY DEF UsedMapExact
  <2>1. Size[p] \in Nat /\ Base[p] \in Nat /\ used_map[p] \subseteq Nat
    BY Layout DEF PallocInv, PallocTypeOK
  <2>2. \A b : b \in HeldBits(p) <=>
                \E g \in held : Pages(g) \subseteq PoolPages[p] /\ b \in Bits(p, g)
    BY DEF HeldBits
  <2>3. \A b : b \in BitsToClear(p) <=>
                \E t \in Thread : pool[t] = p /\ b \in ToClear(t)
    BY DEF BitsToClear
  <2>4. \A b \in HeldBits(p) : b \in 0 .. Size[p] - 1
                     /\ \E g \in held : Base[p] + b \in Pages(g)
    <3> SUFFICES ASSUME NEW b \in HeldBits(p)
                 PROVE  b \in 0 .. Size[p] - 1
                        /\ \E g \in held : Base[p] + b \in Pages(g)
      OBVIOUS
    <3>1. PICK g \in held : Pages(g) \subseteq PoolPages[p] /\ b \in Bits(p, g)
      BY <2>2
    <3>2. g.start \in Nat /\ g.cnt \in Nat
      BY DEF PallocInv, PallocTypeOK, Group
    <3>3. b \in Int
      BY <2>1, <3>1, <3>2 DEF Bits
    <3>4. InPool(g, p) /\ Base[p] + b \in Pages(g)
      BY <3>1, <3>3, GroupBits
    <3> QED BY <2>1, <3>2, <3>3, <3>4 DEF InPool, Pages
  <2>5. \A b \in BitsToClear(p) : b \in Nat
    BY <2>3 DEF PallocInv, PallocTypeOK, ToClear
  <2>6. ASSUME NEW b \in Nat
        PROVE  b \in used_map[p] <=> b \in HeldBits(p) \/ b \in BitsToClear(p)
    <3>1. BitExact(p, b)
      BY DEF PallocInv, MapInv
    <3>2. (b \in 0 .. Size[p] - 1 /\ \E g \in held : Base[p] + b \in Pages(g))
            => b \in HeldBits(p)
      BY <2>2, GroupBits
    <3> QED BY <2>3, <2>4, <3>1, <3>2 DEF BitExact
  <2> QED BY <2>1, <2>4, <2>5, <2>6
<1> QED BY <1>1, PallocInvariant, PTL

(* palloc_get_multiple() gives up only when no large enough run of pages was *)
(* free at the moment it took the lock.                                      *)
THEOREM PallocNullCorrect == Spec => NullOnlyIfTooFew
<1> DEFINE Step == \A t \in Thread :
              pc[t] = "scan" /\ pc'[t] = "out" =>
                \A i \in 0 .. Size[pool[t]] - 1 :
                    ~ (i .. i + page_cnt[t] - 1 \subseteq was_free[t])
<1>1. ASSUME PallocInv, [Next]_vars PROVE [Step]_vars
  <2> SUFFICES ASSUME NEW t \in Thread, pc[t] = "scan", pc'[t] = "out", Next,
                      NEW i \in 0 .. Size[pool[t]] - 1,
                      i .. i + page_cnt[t] - 1 \subseteq was_free[t]
               PROVE  FALSE
    BY <1>1
  <2>1. PICK u \in Thread :
           \/ \E p \in Pool, n \in Count : GetMultiple(u, p, n)
           \/ Scan(u)
           \/ Flip(u)
           \/ \E g \in held : FreeMultiple(u, g)
           \/ Clear(u)
    BY DEF Next
  <2>2. \A v \in Thread \ {u} : pc'[v] = pc[v]
    BY <1>1, <2>1 DEF PallocInv, PallocTypeOK, GetMultiple, Scan, Flip,
       FreeMultiple, FreeFrom, Clear, Return, Goto
  <2>3. u = t
    BY <2>2
  <2>4. Scan(t)
    BY <2>1, <2>3 DEF GetMultiple, Flip, FreeMultiple, Clear
  <2>5. /\ page_idx[t] \in Nat /\ page_cnt[t] \in Nat /\ page_cnt[t] > 0
        /\ Size[pool[t]] \in Nat /\ i \in Nat
    BY <1>1, Layout DEF PallocInv, PallocTypeOK, LockInv
  <2>6. page_idx[t] + page_cnt[t] > Size[pool[t]]
    BY <1>1, <2>4 DEF Scan, Goto, PallocInv, PallocTypeOK
  <2>7. i + page_cnt[t] - 1 \in was_free[t]
    BY <2>5
  <2>8. i + page_cnt[t] <= Size[pool[t]]
    BY <1>1, <2>5, <2>7 DEF PallocInv, ScanInv
  <2>9. i \in 0 .. page_idx[t] - 1
    BY <2>5, <2>6, <2>8
  <2> QED BY <1>1, <2>9 DEF PallocInv, ScanInv
<1> QED BY <1>1, PallocInvariant, PTL DEF Spec, NullOnlyIfTooFew

(* palloc.c hands out a group only if its pages are in one pool and none of  *)
(* them is in use, whoever frees pages without the lock meanwhile.           *)
THEOREM PallocRefinesPagePool == Spec => ImplementsPagePool
<1>1. Init => P!Init
  BY DEF Init, P!Init
<1>2. ASSUME PallocInv, [Next]_vars PROVE [P!Next]_held
  <2>1. CASE UNCHANGED vars
    BY <2>1 DEF vars
  <2>2. ASSUME NEW t \in Thread, Flip(t) PROVE P!Next
    <3> DEFINE p == pool[t]
               i == page_idx[t]
               n == page_cnt[t]
               g == [start |-> Base[p] + i, cnt |-> n]
               end == Base[p] + i + n - 1
    <3>1. /\ p \in Pool /\ i \in Nat /\ n \in Nat /\ n > 0 /\ i + n <= Size[p]
          /\ Size[p] \in Nat /\ Base[p] \in Nat /\ pc[t] = "flip"
      BY <1>2, <2>2, Layout DEF PallocInv, PallocTypeOK, RangeInv, Flip
    <3>2. PoolPages[p] = Base[p] .. Base[p] + Size[p] - 1
      BY <3>1 DEF PoolPages
    <3>3. /\ Base[p] + i \in PoolPages[p] /\ end \in PoolPages[p]
          /\ end - (Base[p] + i) + 1 = n
      <4>1. ASSUME NEW b \in Nat, NEW s \in Nat, NEW j \in Nat, NEW c \in Nat,
                   c > 0, j + c <= s
            PROVE  /\ b + j \in b .. b + s - 1 /\ b + j + c - 1 \in b .. b + s - 1
                   /\ b + j + c - 1 - (b + j) + 1 = c
        BY <4>1
      <4> HIDE DEF p, i, n
      <4>2. /\ Base[p] + i \in Base[p] .. Base[p] + Size[p] - 1
            /\ Base[p] + i + n - 1 \in Base[p] .. Base[p] + Size[p] - 1
            /\ Base[p] + i + n - 1 - (Base[p] + i) + 1 = n
        BY <3>1, <4>1
      <4> HIDE DEF g
      <4> QED BY <3>1, <3>2, <4>2
    <3>4. P!Pages(g) = Pages(g) /\ \A h \in held : P!Pages(h) = Pages(h)
      BY DEF Pages, P!Pages
    <3>5. \A h \in held : P!Pages(g) \cap P!Pages(h) = {}
      <4>1. \A h \in held : \A m \in Pages(g) : m \notin Pages(h)
        BY <1>2, <3>1, FlipFresh
      <4> QED BY <3>4, <4>1
    <3>6. P!Pages(g) \subseteq PoolPages[p]
      BY <3>1, <3>2 DEF P!Pages
    <3>7. held' = held \cup {g}
      BY <2>2 DEF Flip
    <3>8. P!Get(Base[p] + i, n)
      BY <3>1, <3>5, <3>6, <3>7 DEF P!Get
    <3> QED BY <3>1, <3>3, <3>8 DEF P!Next
  <2>3. ASSUME NEW t \in Thread, NEW g \in held, FreeMultiple(t, g) PROVE P!Next
    BY <2>3 DEF FreeMultiple, P!Next, P!Free
  <2>4. ASSUME NEW t \in Thread, NEW p \in Pool, NEW n \in Count,
               GetMultiple(t, p, n)
        PROVE  UNCHANGED held
    BY <2>4 DEF GetMultiple
  <2>5. ASSUME NEW t \in Thread, Scan(t) \/ Clear(t) PROVE UNCHANGED held
    BY <2>5 DEF Scan, Clear
  <2> QED BY <1>2, <2>1, <2>2, <2>3, <2>4, <2>5 DEF Next
<1> QED BY <1>1, <1>2, PallocInvariant, PTL DEF Spec, ImplementsPagePool, P!Spec
=============================================================================
