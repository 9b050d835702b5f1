------------------------------ MODULE PagePool ------------------------------
(***************************************************************************)
(* What threads/palloc.h promises its callers: a group of contiguous pages *)
(* is handed out only if none of its pages is in use.  Palloc.tla          *)
(* implements this.                                                        *)
(***************************************************************************)
EXTENDS Integers

CONSTANTS
    Pool,       \* the pools
    PoolPages   \* the page numbers of each pool

VARIABLE held   \* the groups in use

(* The pages of a group.                                                     *)
Pages(g) == g.start .. g.start + g.cnt - 1

Init == held = {}

Get(start, cnt) ==
    LET g == [start |-> start, cnt |-> cnt]
    IN  /\ \E p \in Pool : Pages(g) \subseteq PoolPages[p]
        /\ \A h \in held : Pages(g) \cap Pages(h) = {}
        /\ held' = held \cup {g}

Free(g) ==
    /\ g \in held
    /\ held' = held \ {g}

Next ==
    \/ \E p \in Pool : \E start \in PoolPages[p], end \in PoolPages[p] :
           Get(start, end - start + 1)
    \/ \E g \in held : Free(g)

Spec == Init /\ [][Next]_held
=============================================================================
