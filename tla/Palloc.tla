------------------------------- MODULE Palloc -------------------------------
(***************************************************************************)
(* The page allocator of threads/palloc.c, over the bitmaps of             *)
(* lib/kernel/bitmap.c.                                                    *)
(*                                                                         *)
(* palloc_get_multiple() looks for free pages and marks them under the     *)
(* pool's lock.  palloc_free_multiple() takes no lock (schedule() calls it *)
(* with interrupts off), so it clears bits while another thread is looking *)
(* at them.  The test of one position in the bitmap is one action: a bit   *)
(* that it has seen clear stays clear, because only the holder of the lock *)
(* sets bits; for the same reason nobody can tell whether the bits of a    *)
(* group are set one by one.                                               *)
(***************************************************************************)
EXTENDS Integers

CONSTANTS
    Thread,
    NoThread,           \* no holder
    free_start,         \* the number of the first free page of the machine
    free_pages,         \* how many there are
    user_page_limit,    \* the kernel's -ul option
    Count               \* the values of PAGE_CNT that are tried

-----------------------------------------------------------------------------
(* palloc_init() and init_pool().                                            *)

Pool == {"kernel", "user"}

user_pages ==
    IF free_pages \div 2 > user_page_limit THEN user_page_limit
    ELSE free_pages \div 2

kernel_pages == free_pages - user_pages

(* The pages that the bitmap of a pool of n pages takes: two words, and one  *)
(* bit per page in words of 32.                                              *)
bm_pages(n) == (8 + 4 * ((n + 31) \div 32) + 4095) \div 4096

(* The number of the first page a pool hands out, and how many it has.       *)
Base ==
    [p \in Pool |-> IF p = "kernel" THEN free_start + bm_pages(kernel_pages)
                    ELSE free_start + kernel_pages + bm_pages(user_pages)]

Size ==
    [p \in Pool |-> IF p = "kernel" THEN kernel_pages - bm_pages(kernel_pages)
                    ELSE user_pages - bm_pages(user_pages)]

(* init_pool() panics unless the bitmaps fit.                                *)
ASSUME PallocAssumption ==
    /\ NoThread \notin Thread
    /\ free_start \in Nat
    /\ free_pages \in Nat
    /\ user_page_limit \in Nat
    /\ bm_pages(kernel_pages) <= kernel_pages
    /\ bm_pages(user_pages) <= user_pages
    /\ Count \subseteq Nat \ {0}

VARIABLES
    used_map,   \* the set bits of each pool's used_map
    lock,       \* holder of each pool's lock
    held,       \* the groups of pages callers have, and have not freed
    pc,         \* where in palloc.c each thread is
    pool,       \* its local variables: the pool,
    page_idx,   \* the position in the bitmap,
    page_cnt,   \* and the number of pages to find, or left to free
    was_free    \* history: the clear bits when each thread began its scan

locals == <<pool, page_idx, page_cnt, was_free>>
vars == <<used_map, lock, held, pc, locals>>

Location ==
    { "out",    \* not in palloc.c
      "scan",   \* bitmap_scan(), at the loop test
      "flip",   \* bitmap_scan_and_flip(), page_idx found
      "clear",  \* palloc_free_multiple(), in bitmap_set_multiple()
      "panic" } \* an ASSERT has failed

Group == [start : Nat, cnt : Nat]

(* The pages of a group, and their bits in the bitmap of pool p.             *)
Pages(g) == g.start .. g.start + g.cnt - 1
Bits(p, g) == g.start - Base[p] .. g.start - Base[p] + g.cnt - 1

Goto(t, l) == pc' = [pc EXCEPT ![t] = l]

-----------------------------------------------------------------------------
Init ==
    /\ used_map = [p \in Pool |-> {}]
    /\ lock = [p \in Pool |-> NoThread]
    /\ held = {}
    /\ pc = [t \in Thread |-> "out"]
    /\ pool = [t \in Thread |-> "kernel"]
    /\ page_idx = [t \in Thread |-> 0]
    /\ page_cnt = [t \in Thread |-> 0]
    /\ was_free = [t \in Thread |-> {}]

(* Mutant of GetMultiple: the lock is not taken.                             *)
GetMultipleUnlocked(t, p, n) ==
    /\ pc[t] = "out"
    /\ pool' = [pool EXCEPT ![t] = p]
    /\ page_idx' = [page_idx EXCEPT ![t] = 0]
    /\ page_cnt' = [page_cnt EXCEPT ![t] = n]
    /\ was_free' = [was_free EXCEPT ![t] = (0 .. Size[p] - 1) \ used_map[p]]
    /\ Goto(t, "scan")
    /\ UNCHANGED <<used_map, lock, held>>

(* palloc_get_multiple() for n > 0 pages of pool p, up to the scan.  (For no *)
(* pages it returns a null pointer and changes nothing.  With PAL_ASSERT,    *)
(* for start-up code and fsutil.c, it panics where it returns null here.)    *)
GetMultiple(t, p, n) ==
    /\ pc[t] = "out"
    /\ lock[p] = NoThread
    /\ lock' = [lock EXCEPT ![p] = t]
    /\ pool' = [pool EXCEPT ![t] = p]
    /\ page_idx' = [page_idx EXCEPT ![t] = 0]
    /\ page_cnt' = [page_cnt EXCEPT ![t] = n]
    /\ was_free' = [was_free EXCEPT ![t] = (0 .. Size[p] - 1) \ used_map[p]]
    /\ Goto(t, "scan")
    /\ UNCHANGED <<used_map, held>>

(* t returns from palloc.c; its local variables are gone.                    *)
Return(t) ==
    /\ Goto(t, "out")
    /\ page_idx' = [page_idx EXCEPT ![t] = 0]
    /\ page_cnt' = [page_cnt EXCEPT ![t] = 0]
    /\ was_free' = [was_free EXCEPT ![t] = {}]

(* Mutant of Scan: the last position is not tried.                           *)
ScanEarlyEnd(t) ==
    LET p == pool[t]
        i == page_idx[t]
        n == page_cnt[t]
    IN  /\ pc[t] = "scan"
        /\ IF i + n >= Size[p]
             THEN Return(t) /\ lock' = [lock EXCEPT ![p] = NoThread]
             ELSE /\ IF (i .. i + n - 1) \cap used_map[p] = {}
                       THEN Goto(t, "flip") /\ UNCHANGED page_idx
                       ELSE /\ page_idx' = [page_idx EXCEPT ![t] = i + 1]
                            /\ UNCHANGED pc
                  /\ UNCHANGED <<page_cnt, was_free, lock>>
        /\ UNCHANGED <<used_map, held, pool>>

(* One turn of the loop of bitmap_scan(); a null pointer is returned at its  *)
(* end.                                                                      *)
Scan(t) ==
    LET p == pool[t]
        i == page_idx[t]
        n == page_cnt[t]
    IN  /\ pc[t] = "scan"
        /\ IF i + n > Size[p]
             THEN Return(t) /\ lock' = [lock EXCEPT ![p] = NoThread]
             ELSE /\ IF (i .. i + n - 1) \cap used_map[p] = {}
                       THEN Goto(t, "flip") /\ UNCHANGED page_idx
                       ELSE /\ page_idx' = [page_idx EXCEPT ![t] = i + 1]
                            /\ UNCHANGED pc
                  /\ UNCHANGED <<page_cnt, was_free, lock>>
        /\ UNCHANGED <<used_map, held, pool>>

(* The group found is marked and returned.                                   *)
Flip(t) ==
    LET p == pool[t]
        g == [start |-> Base[p] + page_idx[t], cnt |-> page_cnt[t]]
    IN  /\ pc[t] = "flip"
        /\ used_map' = [used_map EXCEPT ![p] = @ \cup Bits(p, g)]
        /\ held' = held \cup {g}
        /\ lock' = [lock EXCEPT ![p] = NoThread]
        /\ Return(t)
        /\ UNCHANGED pool

-----------------------------------------------------------------------------
(* Mutant of page_from_pool: the end of the pool is not tested.              *)
page_from_pool_open(p, page) == page >= Base[p]

page_from_pool(p, page) == page >= Base[p] /\ page < Base[p] + Size[p]

(* palloc_free_multiple() of a group that its caller has, from pool p, up to *)
(* the loop of bitmap_set_multiple().                                        *)
FreeFrom(t, g, p) ==
    IF Bits(p, g) \subseteq used_map[p]
      THEN /\ pool' = [pool EXCEPT ![t] = p]
           /\ page_idx' = [page_idx EXCEPT ![t] = g.start - Base[p]]
           /\ page_cnt' = [page_cnt EXCEPT ![t] = g.cnt]
           /\ Goto(t, "clear")
           /\ UNCHANGED was_free
      ELSE Goto(t, "panic") /\ UNCHANGED locals

FreeMultiple(t, g) ==
    /\ pc[t] = "out"
    /\ g \in held
    /\ held' = held \ {g}
    /\ IF page_from_pool("kernel", g.start) THEN FreeFrom(t, g, "kernel")
       ELSE IF page_from_pool("user", g.start) THEN FreeFrom(t, g, "user")
       ELSE Goto(t, "panic") /\ UNCHANGED locals
    /\ UNCHANGED <<used_map, lock>>

(* Mutant of Clear: the bit after it is cleared.                             *)
ClearNext(t) ==
    LET p == pool[t]
        i == page_idx[t]
    IN  /\ pc[t] = "clear"
        /\ used_map' = [used_map EXCEPT ![p] = @ \ {i + 1}]
        /\ IF page_cnt[t] = 1 THEN Return(t)
           ELSE /\ page_idx' = [page_idx EXCEPT ![t] = i + 1]
                /\ page_cnt' = [page_cnt EXCEPT ![t] = @ - 1]
                /\ UNCHANGED <<pc, was_free>>
        /\ UNCHANGED <<lock, held, pool>>

(* Mutant of Clear: the loop runs downwards.                                 *)
ClearDown(t) ==
    LET p == pool[t]
        i == page_idx[t]
    IN  /\ pc[t] = "clear"
        /\ used_map' = [used_map EXCEPT ![p] = @ \ {i}]
        /\ IF page_cnt[t] = 1 THEN Return(t)
           ELSE /\ page_idx' = [page_idx EXCEPT ![t] = i - 1]
                /\ page_cnt' = [page_cnt EXCEPT ![t] = @ - 1]
                /\ UNCHANGED <<pc, was_free>>
        /\ UNCHANGED <<lock, held, pool>>

(* One turn of that loop.                                                    *)
Clear(t) ==
    LET p == pool[t]
        i == page_idx[t]
    IN  /\ pc[t] = "clear"
        /\ used_map' = [used_map EXCEPT ![p] = @ \ {i}]
        /\ IF page_cnt[t] = 1 THEN Return(t)
           ELSE /\ page_idx' = [page_idx EXCEPT ![t] = i + 1]
                /\ page_cnt' = [page_cnt EXCEPT ![t] = @ - 1]
                /\ UNCHANGED <<pc, was_free>>
        /\ UNCHANGED <<lock, held, pool>>

-----------------------------------------------------------------------------
Next ==
    \E t \in Thread :
        \/ \E p \in Pool, n \in Count : GetMultiple(t, p, n)
        \/ Scan(t)
        \/ Flip(t)
        \/ \E g \in held : FreeMultiple(t, g)
        \/ Clear(t)

Spec == Init /\ [][Next]_vars

-----------------------------------------------------------------------------
(* Properties                                                                *)

(* Every variable has its type.                                              *)
PallocTypeOK ==
    /\ used_map \in [Pool -> SUBSET Nat]
    /\ lock \in [Pool -> Thread \cup {NoThread}]
    /\ held \subseteq Group
    /\ pc \in [Thread -> Location]
    /\ pool \in [Thread -> Pool]
    /\ page_idx \in [Thread -> Nat]
    /\ page_cnt \in [Thread -> Nat]
    /\ was_free \in [Thread -> SUBSET Nat]

PoolPages == [p \in Pool |-> Base[p] .. Base[p] + Size[p] - 1]

(* The bits that t has still to clear.                                       *)
ToClear(t) ==
    IF pc[t] = "clear" THEN page_idx[t] .. page_idx[t] + page_cnt[t] - 1 ELSE {}

(* The bits of pool p whose pages are in use, and those being freed whose    *)
(* loop has not come to them.                                                *)
HeldBits(p) ==
    UNION {Bits(p, g) : g \in {h \in held : Pages(h) \subseteq PoolPages[p]}}

BitsToClear(p) == UNION {ToClear(t) : t \in {u \in Thread : pool[u] = p}}

(* The bitmap is exact at every moment, whoever is freeing: a bit is set if  *)
(* and only if its page belongs to a group in use, or to one being freed     *)
(* whose loop has not come to it.  So no page is leaked.                     *)
UsedMapExact ==
    \A p \in Pool : used_map[p] = HeldBits(p) \cup BitsToClear(p)

P == INSTANCE PagePool

(* palloc_get_multiple() never hands out a page that is in use, although     *)
(* palloc_free_multiple() works on the same bitmap without the lock.         *)
ImplementsPagePool == P!Spec

(* The ASSERT (bitmap_all (...)) and the NOT_REACHED () of                   *)
(* palloc_free_multiple() do not fail.                                       *)
NoPanic == \A t \in Thread : pc[t] # "panic"

(* palloc_get_multiple() returns a null pointer only "if too few pages are   *)
(* available": when it gives up, there was no large enough run of clear bits *)
(* at the moment it took the lock.                                           *)
NullOnlyIfTooFew ==
    [][\A t \in Thread :
          pc[t] = "scan" /\ pc'[t] = "out" =>
            \A i \in 0 .. Size[pool[t]] - 1 :
                ~ (i .. i + page_cnt[t] - 1 \subseteq was_free[t])]_vars

=============================================================================
