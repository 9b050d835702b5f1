------------------------------- MODULE Synch -------------------------------
(***************************************************************************)
(* threads/synch.c on top of the scheduler: semaphores, locks and condition*)
(* variables.  A sema_up() or one turn of the loop in sema_down() runs     *)
(* with interrupts off and is one action; the stores that locks and        *)
(* condition variables make around them are actions of their own, because  *)
(* interrupts are on and the thread may be preempted before and after.     *)
(***************************************************************************)
EXTENDS Threads

CONSTANTS
    Sema,           \* semaphores used as such
    Lock,           \* locks; a lock stands for its semaphore too
    Cond,           \* condition variables
    CondLock,       \* the lock each condition variable is associated with
    InitialValue,   \* the value each semaphore of Sema is initialised with
    MaxValue        \* bound: no sema_up() on a semaphore of this value

(* cond_wait() has a semaphore on its stack; it is named by its thread.      *)
Sem == Sema \cup Lock \cup Thread

ASSUME SynchAssumption ==
    /\ Sema \cap Lock = {}
    /\ (Sema \cup Lock) \cap (Thread \cup {NoThread}) = {}
    /\ CondLock \in [Cond -> Lock]
    /\ MaxValue \in Nat
    /\ InitialValue \in [Sema -> 0 .. MaxValue]

VARIABLES
    value,          \* semaphore values
    waiters,        \* semaphores' queues of waiting threads
    holder,         \* struct lock's holder
    cond_waiters,   \* condition variables' queues of waiting threads
    at,             \* where in synch.c each thread is
    on,             \* the semaphore, lock or condition variable it works on
    signalled       \* the waiter a cond_signal() has dequeued and will up

synchVars == <<value, waiters, holder, cond_waiters, at, on, signalled>>
vars == <<threadVars, synchVars>>

SynchLocation ==
    { "none",           \* not in synch.c
      "down",           \* sema_down() called as such, in thread_block()
      "lock_loop",      \* lock_acquire(), in sema_down()'s thread_block()
      "lock_take",      \* lock_acquire(), before holder is stored
      "lock_up",        \* lock_release(), before sema_up()
      "wait_drop",      \* cond_wait(), queued, before lock_release()
      "wait_up",        \* cond_wait(), in lock_release(), before sema_up()
      "wait_down",      \* cond_wait(), before sema_down(&waiter.semaphore)
      "wait_loop",      \* cond_wait(), in that sema_down()'s thread_block()
      "wait_lock",      \* cond_wait(), before lock_acquire()
      "signal_up",      \* cond_signal(), before sema_up()
      "broadcast",      \* cond_broadcast(), at the loop test
      "broadcast_up" }  \* cond_broadcast(), in cond_signal()'s sema_up()

-----------------------------------------------------------------------------
(* The running thread is in code outside synch.c, thread.c and timer.c.      *)
Caller == pc[current] = "run" /\ at[current] = "none"

(* sema_down() tests the value again, after thread_block() returns, with     *)
(* interrupts still off.                                                     *)
InterruptsOn == at[current] \notin {"down", "lock_loop", "wait_loop"}

(* The running thread goes on at location l, working on object o.            *)
GoOn(l, o) ==
    /\ at' = [at EXCEPT ![current] = l]
    /\ on' = [on EXCEPT ![current] = IF l = "none" THEN NoThread ELSE o]

(* Mutant of Down: yields instead of blocking.                               *)
DownYield(s, o, loop, done) ==
    IF value[s] = 0
      THEN /\ waiters' = [waiters EXCEPT ![s] = Append(@, current)]
           /\ Yield(status, ready_list)
           /\ GoOn(loop, o)
           /\ UNCHANGED value
      ELSE /\ value' = [value EXCEPT ![s] = @ - 1]
           /\ GoOn(done, o)
           /\ UNCHANGED <<schedVars, waiters>>

(* One turn of the loop of sema_down(s), for the sake of object o: either    *)
(* join the queue of s and block at location loop, or take one from the      *)
(* value and go on at location done.                                         *)
Down(s, o, loop, done) ==
    IF value[s] = 0
      THEN /\ waiters' = [waiters EXCEPT ![s] = Append(@, current)]
           /\ Deschedule("BLOCKED")
           /\ GoOn(loop, o)
           /\ UNCHANGED value
      ELSE /\ value' = [value EXCEPT ![s] = @ - 1]
           /\ GoOn(done, o)
           /\ UNCHANGED <<schedVars, waiters>>

(* Mutant of Up: list_front() for list_pop_front().                          *)
UpFront(s) ==
    /\ value' = [value EXCEPT ![s] = @ + 1]
    /\ IF waiters[s] = <<>>
         THEN UNCHANGED schedVars
         ELSE MakeReady(Head(waiters[s]))
    /\ UNCHANGED waiters

(* Mutant of Up: wakes a thread only when the value was 0.                   *)
UpFromZero(s) ==
    /\ value' = [value EXCEPT ![s] = @ + 1]
    /\ IF waiters[s] = <<>> \/ value[s] > 0
         THEN UNCHANGED <<schedVars, waiters>>
         ELSE /\ MakeReady(Head(waiters[s]))
              /\ waiters' = [waiters EXCEPT ![s] = Tail(@)]

(* Mutant of Up: wakes nobody.                                               *)
UpSilent(s) ==
    /\ value' = [value EXCEPT ![s] = @ + 1]
    /\ UNCHANGED <<schedVars, waiters>>

(* sema_up(s): the longest waiting thread, if any, becomes ready.  It does   *)
(* not own the increment: it tests the value again when it runs.             *)
Up(s) ==
    /\ value' = [value EXCEPT ![s] = @ + 1]
    /\ IF waiters[s] = <<>>
         THEN UNCHANGED <<schedVars, waiters>>
         ELSE /\ MakeReady(Head(waiters[s]))
              /\ waiters' = [waiters EXCEPT ![s] = Tail(@)]

(* What the operations of synch.c leave alone in threads/ and devices/.      *)
restVars == <<timerVars, idleVars, pc, newborn>>

-----------------------------------------------------------------------------
(* Semaphores.                                                               *)

SemaDown(s) ==
    /\ Caller
    /\ Down(s, s, "down", "none")
    /\ UNCHANGED <<restVars, holder, cond_waiters, signalled>>

SemaDownLoop ==
    /\ at[current] = "down"
    /\ Down(on[current], on[current], "down", "none")
    /\ UNCHANGED <<restVars, holder, cond_waiters, signalled>>

(* sema_try_down(s) when it succeeds; otherwise it changes nothing.          *)
SemaTryDown(s) ==
    /\ Caller
    /\ value[s] > 0
    /\ value' = [value EXCEPT ![s] = @ - 1]
    /\ UNCHANGED <<threadVars, waiters, holder, cond_waiters, at, on, signalled>>

(* sema_up(s), by the running thread or by an interrupt handler.             *)
SemaUp(s) ==
    /\ InterruptsOn
    /\ value[s] < MaxValue
    /\ Up(s)
    /\ UNCHANGED <<restVars, holder, cond_waiters, at, on, signalled>>

-----------------------------------------------------------------------------
(* Locks.                                                                    *)

LockAcquire(l) ==
    /\ Caller
    /\ holder[l] # current
    /\ Down(l, l, "lock_loop", "lock_take")
    /\ UNCHANGED <<restVars, holder, cond_waiters, signalled>>

(* Mutant of LockAcquireLoop: the value is not tested again (if for while).  *)
LockAcquireIf ==
    /\ at[current] = "lock_loop"
    /\ value' = [value EXCEPT ![on[current]] = IF @ = 0 THEN 0 ELSE @ - 1]
    /\ GoOn("lock_take", on[current])
    /\ UNCHANGED <<threadVars, waiters, holder, cond_waiters, signalled>>

LockAcquireLoop ==
    /\ at[current] = "lock_loop"
    /\ Down(on[current], on[current], "lock_loop", "lock_take")
    /\ UNCHANGED <<restVars, holder, cond_waiters, signalled>>

(* holder = thread_current(), which ends lock_acquire(), lock_try_acquire()  *)
(* and cond_wait().                                                          *)
LockTake ==
    /\ at[current] = "lock_take"
    /\ holder' = [holder EXCEPT ![on[current]] = current]
    /\ GoOn("none", NoThread)
    /\ UNCHANGED <<threadVars, value, waiters, cond_waiters, signalled>>

(* Mutant of LockTryAcquire: the value is not tested.                        *)
LockTryAcquireBlind(l) ==
    /\ Caller
    /\ holder[l] # current
    /\ value' = [value EXCEPT ![l] = @ - 1]
    /\ GoOn("lock_take", l)
    /\ UNCHANGED <<threadVars, waiters, holder, cond_waiters, signalled>>

(* lock_try_acquire(l) when sema_try_down() succeeds.                        *)
LockTryAcquire(l) ==
    /\ Caller
    /\ holder[l] # current
    /\ value[l] > 0
    /\ value' = [value EXCEPT ![l] = @ - 1]
    /\ GoOn("lock_take", l)
    /\ UNCHANGED <<threadVars, waiters, holder, cond_waiters, signalled>>

(* holder = NULL: the first half of lock_release(l), then of cond_wait()'s.  *)
Drop(l, next) ==
    /\ holder' = [holder EXCEPT ![l] = NoThread]
    /\ GoOn(next, l)
    /\ UNCHANGED <<threadVars, value, waiters, cond_waiters, signalled>>

LockRelease(l) ==
    /\ Caller
    /\ holder[l] = current
    /\ Drop(l, "lock_up")

LockReleaseUp ==
    /\ at[current] = "lock_up"
    /\ Up(on[current])
    /\ GoOn("none", NoThread)
    /\ UNCHANGED <<restVars, holder, cond_waiters, signalled>>

-----------------------------------------------------------------------------
(* Condition variables.                                                      *)

(* cond_wait(c): a fresh semaphore joins the queue of c ...                  *)
CondWait(c) ==
    /\ Caller
    /\ holder[CondLock[c]] = current
    /\ value' = [value EXCEPT ![current] = 0]
    /\ waiters' = [waiters EXCEPT ![current] = <<>>]
    /\ cond_waiters' = [cond_waiters EXCEPT ![c] = Append(@, current)]
    /\ GoOn("wait_drop", CondLock[c])
    /\ UNCHANGED <<threadVars, holder, signalled>>

(* ... the lock is released, in two steps ...                                *)
CondWaitDrop ==
    /\ at[current] = "wait_drop"
    /\ Drop(on[current], "wait_up")

CondWaitUp ==
    /\ at[current] = "wait_up"
    /\ Up(on[current])
    /\ GoOn("wait_down", on[current])
    /\ UNCHANGED <<restVars, holder, cond_waiters, signalled>>

(* ... the thread waits for its semaphore ...                                *)
CondWaitDown ==
    /\ at[current] \in {"wait_down", "wait_loop"}
    /\ Down(current, on[current], "wait_loop", "wait_lock")
    /\ UNCHANGED <<restVars, holder, cond_waiters, signalled>>

(* ... and acquires the lock again.                                          *)
CondWaitLock ==
    /\ at[current] = "wait_lock"
    /\ Down(on[current], on[current], "lock_loop", "lock_take")
    /\ UNCHANGED <<restVars, holder, cond_waiters, signalled>>

(* Mutant of Pop: list_front() for list_pop_front().                         *)
PopFront(c, next) ==
    /\ signalled' = [signalled EXCEPT ![current] = Head(cond_waiters[c])]
    /\ GoOn(next, c)
    /\ UNCHANGED <<threadVars, value, waiters, holder, cond_waiters>>

(* list_pop_front() in cond_signal(c), the queue not being empty.            *)
Pop(c, next) ==
    /\ cond_waiters' = [cond_waiters EXCEPT ![c] = Tail(@)]
    /\ signalled' = [signalled EXCEPT ![current] = Head(cond_waiters[c])]
    /\ GoOn(next, c)
    /\ UNCHANGED <<threadVars, value, waiters, holder>>

(* Mutant of CondSignal: called without the lock.                            *)
CondSignalUnlocked(c) ==
    /\ Caller
    /\ cond_waiters[c] # <<>>
    /\ Pop(c, "signal_up")

CondSignal(c) ==
    /\ Caller
    /\ holder[CondLock[c]] = current
    /\ cond_waiters[c] # <<>>
    /\ Pop(c, "signal_up")

(* sema_up() of the semaphore taken from the queue.                          *)
CondSignalUp ==
    /\ at[current] \in {"signal_up", "broadcast_up"}
    /\ Up(signalled[current])
    /\ signalled' = [signalled EXCEPT ![current] = NoThread]
    /\ IF at[current] = "signal_up" THEN GoOn("none", NoThread)
       ELSE GoOn("broadcast", on[current])
    /\ UNCHANGED <<restVars, holder, cond_waiters>>

CondBroadcast(c) ==
    /\ Caller
    /\ holder[CondLock[c]] = current
    /\ cond_waiters[c] # <<>>
    /\ Pop(c, "broadcast_up")

(* The loop of cond_broadcast(), back at its test.                           *)
CondBroadcastLoop ==
    /\ at[current] = "broadcast"
    /\ IF cond_waiters[on[current]] # <<>>
         THEN Pop(on[current], "broadcast_up")
         ELSE /\ GoOn("none", NoThread)
              /\ UNCHANGED <<threadVars, value, waiters, holder, cond_waiters,
                             signalled>>

-----------------------------------------------------------------------------
SynchInit ==
    /\ Init
    /\ value = [s \in Sem |-> CASE s \in Sema -> InitialValue[s]
                                [] s \in Lock -> 1
                                [] OTHER -> 0]
    /\ waiters = [s \in Sem |-> <<>>]
    /\ holder = [l \in Lock |-> NoThread]
    /\ cond_waiters = [c \in Cond |-> <<>>]
    /\ at = [t \in Thread |-> "none"]
    /\ on = [t \in Thread |-> NoThread]
    /\ signalled = [t \in Thread |-> NoThread]

(* Steps inside synch.c that the running thread takes by itself.             *)
Continue ==
    \/ SemaDownLoop
    \/ LockAcquireLoop
    \/ LockTake
    \/ LockReleaseUp
    \/ CondWaitDrop
    \/ CondWaitUp
    \/ CondWaitDown
    \/ CondWaitLock
    \/ CondSignalUp
    \/ CondBroadcastLoop

(* Calls of synch.c.                                                         *)
SemaCall ==
    \E s \in Sema : SemaDown(s) \/ SemaTryDown(s) \/ SemaUp(s)
LockCall ==
    \E l \in Lock : LockAcquire(l) \/ LockTryAcquire(l) \/ LockRelease(l)
CondCall ==
    \E c \in Cond : CondWait(c) \/ CondSignal(c) \/ CondBroadcast(c)

(* The scheduler's own steps, and the calls of thread.c and timer.c, which   *)
(* a thread makes outside synch.c.  A thread exits holding no lock.          *)
ThreadStep ==
    /\ \/ ThreadCreateUnblock
       \/ AwaitIdle
       \/ IdleRegister
       \/ IdleUp
       \/ IdleLoop
       \/ TimerSleepBlock
       \/ InterruptsOn /\ TimerInterrupt
       \/ Caller /\ (Create \/ ThreadYield \/ Sleep)
       \/ Caller /\ ThreadExit /\ \A l \in Lock : holder[l] # current
    /\ UNCHANGED synchVars

SynchNext == Continue \/ SemaCall \/ LockCall \/ CondCall \/ ThreadStep

SynchSpec == SynchInit /\ [][SynchNext]_vars

(* Ticks keep coming, and a thread that keeps getting the processor inside   *)
(* synch.c gets on with it: every time slice is long enough for a few        *)
(* instructions.                                                             *)
SynchFair ==
    /\ SynchSpec
    /\ SF_vars(InterruptsOn /\ TimerInterrupt /\ UNCHANGED synchVars)
    /\ \A t \in Thread : SF_vars(current = t /\ Continue)

-----------------------------------------------------------------------------
(* Properties                                                                *)

(* Every variable has its type; in particular no value goes below 0.         *)
SynchTypeOK ==
    /\ value \in [Sem -> Nat]
    /\ waiters \in [Sem -> Seq(Thread)]
    /\ holder \in [Lock -> Thread \cup {NoThread}]
    /\ cond_waiters \in [Cond -> Seq(Thread)]
    /\ at \in [Thread -> SynchLocation]
    /\ on \in [Thread -> Sema \cup Lock \cup Cond \cup {NoThread}]
    /\ signalled \in [Thread -> Thread \cup {NoThread}]

(* t has decremented the semaphore of lock l and not yet incremented it.     *)
Inside(t, l) ==
    \/ holder[l] = t
    \/ at[t] \in {"lock_take", "lock_up", "wait_up"} /\ on[t] = l

(* "A lock can only be owned by a single thread at a time" (lock_init()'s    *)
(* comment), counting the steps where the owner is not in holder: no other   *)
(* thread is inside, and the semaphore is 1 exactly if none is.              *)
MutualExclusion ==
    \A l \in Lock :
        /\ value[l] \in {0, 1}
        /\ value[l] = 1 <=> \A t \in Thread : ~Inside(t, l)
        /\ \A t, u \in Thread : Inside(t, l) /\ Inside(u, l) => t = u

(* t is inside sema_down(s).                                                 *)
InDown(t, s) ==
    \/ at[t] \in {"down", "lock_loop"} /\ on[t] = s
    \/ at[t] = "wait_loop" /\ s = t

(* The `elem' of a struct thread is in one list at a time: a thread in the   *)
(* queue of a semaphore is BLOCKED there, in that queue only, and once.  This*)
(* is thread_unblock()'s ASSERT (status == BLOCKED) for sema_up().           *)
WaitersBlocked ==
    /\ \A s \in Sem : IsInjective(waiters[s])
    /\ \A s \in Sem : \A t \in ToSet(waiters[s]) :
           InDown(t, s) /\ Waiting(t)
    /\ \A t \in Thread : at[t] # "none" /\ status[t] = "BLOCKED"
           => \E s \in Sem : t \in ToSet(waiters[s])

(* No wake-up is lost: if threads wait although the value is positive, at    *)
(* least that many woken threads are on their way to test it.                *)
NoLostWakeup ==
    \A s \in Sem :
        waiters[s] # <<>> =>
          value[s] <= Cardinality({t \in Thread :
                                     InDown(t, s) /\ status[t] # "BLOCKED"})

(* Between joining the queue of a condition and decrementing its semaphore,  *)
(* a thread is in exactly one of three places: in the queue, in the hands of *)
(* a signaller, or with its semaphore up.  So no signal is lost or given     *)
(* twice, even one that comes between lock_release() and sema_down() in      *)
(* cond_wait(), and a signaller never touches the stack frame of a           *)
(* cond_wait() that has returned.                                            *)
SignalAccounted ==
    \A t \in Thread :
        Cardinality({c \in Cond : t \in ToSet(cond_waiters[c])})
          + Cardinality({u \in Thread : signalled[u] = t})
          + value[t]
        = IF at[t] \in {"wait_drop", "wait_up", "wait_down", "wait_loop"}
            THEN 1 ELSE 0

(* The abstract locks and condition variables that synch.c implements: the   *)
(* owner of a lock is the thread inside it, and a thread counts as waiting   *)
(* once it has released the lock in cond_wait().                             *)
Mon == INSTANCE Monitor WITH
    owner <- [l \in Lock |-> IF \E t \in Thread : Inside(t, l)
                               THEN CHOOSE t \in Thread : Inside(t, l)
                               ELSE NoThread],
    waiting <- [c \in Cond |->
                  SelectSeq(cond_waiters[c],
                            LAMBDA t : at[t] \notin {"wait_drop", "wait_up"})]

(* synch.c implements the abstract monitor: in particular cond_wait()        *)
(* releases its lock and joins the queue in one step as far as anyone can    *)
(* tell, although it takes four.                                             *)
ImplementsMonitor == Mon!Spec

(* Seen from the scheduler, the operations of synch.c are thread_block()s    *)
(* and thread_unblock()s that keep to the scheduler's rules, so what is      *)
(* shown of Threads holds here.                                              *)
ImplementsThreads == Spec

(* A lock that threads wait for does not stay free: some thread gets in.     *)
(* (Which one is open: a woken waiter can be overtaken by a newcomer.)       *)
LockProgress ==
    \A l \in Lock :
        (\E t \in Thread : at[t] = "lock_loop" /\ on[t] = l)
          ~> (\E t \in Thread : Inside(t, l))

(* A thread that has been signalled leaves cond_wait()'s sema_down().        *)
SignalledWakes == \A t \in Thread : value[t] > 0 ~> at[t] = "wait_lock"

=============================================================================
