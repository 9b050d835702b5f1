------------------------------ MODULE Monitor ------------------------------
(***************************************************************************)
(* What threads/synch.h promises the rest of the kernel about locks and    *)
(* condition variables: a lock has at most one owner, and cond_wait()      *)
(* releases the lock and joins the queue of waiting threads in one step.   *)
(* Synch.tla implements this; the modules that use locks rely on it.       *)
(***************************************************************************)
EXTENDS Naturals, Sequences

CONSTANTS Thread, NoThread, Lock, Cond, CondLock

VARIABLES
    owner,      \* the thread inside each lock, or NoThread
    waiting     \* the queue of threads waiting for each condition

Asleep(t) ==
    \E c \in Cond : \E i \in 1 .. Len(waiting[c]) : waiting[c][i] = t

Init ==
    /\ owner = [l \in Lock |-> NoThread]
    /\ waiting = [c \in Cond |-> <<>>]

Acquire(t, l) ==
    /\ owner[l] = NoThread
    /\ ~Asleep(t)
    /\ owner' = [owner EXCEPT ![l] = t]
    /\ UNCHANGED waiting

Release(t, l) ==
    /\ owner[l] = t
    /\ owner' = [owner EXCEPT ![l] = NoThread]
    /\ UNCHANGED waiting

(* cond_wait(): "Atomically releases LOCK and waits for COND".               *)
Wait(t, c) ==
    /\ owner[CondLock[c]] = t
    /\ owner' = [owner EXCEPT ![CondLock[c]] = NoThread]
    /\ waiting' = [waiting EXCEPT ![c] = Append(@, t)]

(* cond_signal() by the owner; the waiter must still acquire the lock.       *)
Signal(t, c) ==
    /\ owner[CondLock[c]] = t
    /\ waiting[c] # <<>>
    /\ waiting' = [waiting EXCEPT ![c] = Tail(@)]
    /\ UNCHANGED owner

Next ==
    \E t \in Thread :
        \/ \E l \in Lock : Acquire(t, l) \/ Release(t, l)
        \/ \E c \in Cond : Wait(t, c) \/ Signal(t, c)

Spec == Init /\ [][Next]_<<owner, waiting>>
=============================================================================
