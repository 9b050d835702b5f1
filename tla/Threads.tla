------------------------------ MODULE Threads ------------------------------
(***************************************************************************)
(* The scheduler of threads/thread.c, with the sleep queue of              *)
(* devices/timer.c and the preemption point of threads/interrupt.c.        *)
(*                                                                         *)
(* There is one processor.  An action is one stretch of code that runs     *)
(* with interrupts off, or one store made with interrupts on, so that a    *)
(* timer interrupt (TimerInterrupt) may come between any two actions and   *)
(* at no other point.  What a blocked thread waits for is left open here   *)
(* (ThreadBlock, ThreadUnblock); Synch.tla supplies it.                    *)
(***************************************************************************)
EXTENDS Integers, SequencesExt

CONSTANTS
    Thread,         \* the pages that can hold a struct thread
    Main,           \* initial_thread, the thread that runs pintos_init()
    FirstIdle,      \* the page in which boot creates the idle thread
    NoThread,       \* the null struct thread *
    TIME_SLICE,     \* timer ticks given to a thread
    Delays,         \* the arguments of timer_sleep() that are tried
    Horizon         \* bound: ticks saturates here, no deadline lies beyond

ASSUME ThreadsAssumption ==
    /\ Main \in Thread
    /\ FirstIdle \in Thread \ {Main}
    /\ NoThread \notin Thread
    /\ TIME_SLICE \in Nat \ {0}
    /\ Delays \subseteq Int
    /\ Horizon \in Nat

VARIABLES
    current,        \* running_thread()
    status,         \* struct thread's status; "FREE": the page is not a thread
    ready_list,     \* the run queue
    idle_thread,    \* the thread next_thread_to_run() falls back on
    thread_ticks,   \* timer ticks since the last switch
    ticks,          \* timer ticks since boot
    list_threads,   \* the sleeping threads, in the order they will be woken
    ticks_to_sleep, \* struct thread's wake-up time
    pc,             \* where in thread.c and timer.c each thread is
    newborn,        \* the thread a creator holds between init_thread() and
                    \* thread_unblock()
    idle_started    \* value of the semaphore of thread_start()

schedVars == <<current, status, ready_list, thread_ticks>>
timerVars == <<ticks, list_threads, ticks_to_sleep>>
idleVars == <<idle_thread, idle_started>>
threadVars == <<schedVars, timerVars, idleVars, pc, newborn>>

Status == {"FREE", "RUNNING", "READY", "BLOCKED", "DYING"}
Location ==
    { "run",        \* ordinary code, interrupts on
      "sleep",      \* timer_sleep(), the deadline computed and not yet queued
      "create",     \* thread_create(), before the new thread is unblocked
      "await_idle", \* thread_start(), in sema_down(&idle_started)
      "new_idle",   \* idle(), before it stores idle_thread
      "up_idle",    \* idle(), before sema_up(idle_started)
      "idle" }      \* the loop of idle()

-----------------------------------------------------------------------------
(* Mutant of Schedule: the time slice is not restarted.                      *)
ScheduleNoReset(cur, st0, rl) ==
    LET next == IF rl = <<>> THEN idle_thread ELSE Head(rl)
        gone == st0[cur] = "DYING" /\ cur # Main
        st1  == IF gone THEN [st0 EXCEPT ![cur] = "FREE"] ELSE st0
    IN  /\ current' = next
        /\ ready_list' = IF rl = <<>> THEN rl ELSE Tail(rl)
        /\ status' = [st1 EXCEPT ![next] = "RUNNING"]
        /\ thread_ticks' = thread_ticks + 1

(* schedule(): cur stops with status st0[cur] (not RUNNING), the run queue   *)
(* being rl.  The head of rl runs next, or the idle thread if rl is empty;   *)
(* a new time slice starts; a dying thread's page is freed, unless it is     *)
(* initial_thread's.                                                         *)
Schedule(cur, st0, rl) ==
    LET next == IF rl = <<>> THEN idle_thread ELSE Head(rl)
        gone == st0[cur] = "DYING" /\ cur # Main
        st1  == IF gone THEN [st0 EXCEPT ![cur] = "FREE"] ELSE st0
    IN  /\ current' = next
        /\ ready_list' = IF rl = <<>> THEN rl ELSE Tail(rl)
        /\ status' = [st1 EXCEPT ![next] = "RUNNING"]
        /\ thread_ticks' = 0

(* thread_block() and the scheduling half of thread_exit(): the running      *)
(* thread leaves the processor with status s and joins no queue here.        *)
Deschedule(s) ==
    Schedule(current, [status EXCEPT ![current] = s], ready_list)

(* Mutant of Yield: the idle thread is queued too.                           *)
YieldIdleToo(st, rl) ==
    Schedule(current, [st EXCEPT ![current] = "READY"], Append(rl, current))

(* Mutant of Yield: push_front for push_back.                                *)
YieldToFront(st, rl) ==
    Schedule(current, [st EXCEPT ![current] = "READY"],
             IF current # idle_thread THEN <<current>> \o rl ELSE rl)

(* thread_yield(), run with the status and queue st and rl.                  *)
Yield(st, rl) ==
    Schedule(current, [st EXCEPT ![current] = "READY"],
             IF current # idle_thread THEN Append(rl, current) ELSE rl)

(* Mutant of MakeReady: push_front for push_back.                            *)
MakeReadyFront(t) ==
    /\ ready_list' = <<t>> \o ready_list
    /\ status' = [status EXCEPT ![t] = "READY"]
    /\ UNCHANGED <<current, thread_ticks>>

(* thread_unblock(t).                                                        *)
MakeReady(t) ==
    /\ ready_list' = Append(ready_list, t)
    /\ status' = [status EXCEPT ![t] = "READY"]
    /\ UNCHANGED <<current, thread_ticks>>

Goto(t, l) == pc' = [pc EXCEPT ![t] = l]

-----------------------------------------------------------------------------
(* Boot, up to thread_start()'s sema_down(): main runs, and the idle thread  *)
(* is on the run queue but has not run yet.                                  *)
Init ==
    /\ current = Main
    /\ status = [t \in Thread |-> CASE t = Main -> "RUNNING"
                                    [] t = FirstIdle -> "READY"
                                    [] OTHER -> "FREE"]
    /\ ready_list = <<FirstIdle>>
    /\ idle_thread = NoThread
    /\ thread_ticks = 0
    /\ ticks = 0
    /\ list_threads = <<>>
    /\ ticks_to_sleep = [t \in Thread |-> 0]
    /\ pc = [t \in Thread |-> CASE t = Main -> "await_idle"
                                [] t = FirstIdle -> "new_idle"
                                [] OTHER -> "run"]
    /\ newborn = [t \in Thread |-> NoThread]
    /\ idle_started = 0

(* thread_create() up to the point where the new thread is set up: its page  *)
(* comes from the page allocator, its status is BLOCKED, and it will start   *)
(* at entry.  thread_start() creates an idle thread.                         *)
ThreadCreate(t, entry) ==
    /\ pc[current] = "run"
    /\ entry = "new_idle" => current = Main
    /\ status[t] = "FREE"
    /\ status' = [status EXCEPT ![t] = "BLOCKED"]
    /\ ticks_to_sleep' = [ticks_to_sleep EXCEPT ![t] = 0]
    /\ newborn' = [newborn EXCEPT ![current] = t]
    /\ pc' = [pc EXCEPT ![t] = entry, ![current] = "create"]
    /\ UNCHANGED <<current, ready_list, thread_ticks, ticks, list_threads,
                   idleVars>>

(* The thread_unblock() at the end of thread_create().  If the new thread    *)
(* is an idle thread, thread_start() goes on to sema_down() a fresh          *)
(* semaphore.                                                                *)
ThreadCreateUnblock ==
    LET t == newborn[current]
        starting == pc[t] = "new_idle"
    IN  /\ pc[current] = "create"
        /\ MakeReady(t)
        /\ newborn' = [newborn EXCEPT ![current] = NoThread]
        /\ Goto(current, IF starting THEN "await_idle" ELSE "run")
        /\ idle_started' = IF starting THEN 0 ELSE idle_started
        /\ UNCHANGED <<timerVars, idle_thread>>

(* sema_down(&idle_started) in thread_start(), one turn of its loop.         *)
AwaitIdle ==
    /\ pc[current] = "await_idle"
    /\ IF idle_started = 0
         THEN /\ Deschedule("BLOCKED")
              /\ UNCHANGED <<pc, idle_started>>
         ELSE /\ idle_started' = idle_started - 1
              /\ Goto(current, "run")
              /\ UNCHANGED schedVars
    /\ UNCHANGED <<timerVars, idle_thread, newborn>>

(* Mutant of IdleRegister: idle_thread is not stored before the up.          *)
IdleRegisterLate ==
    /\ pc[current] = "new_idle"
    /\ Goto(current, "up_idle")
    /\ UNCHANGED <<schedVars, timerVars, newborn, idleVars>>

(* The idle thread makes itself the one that runs when nothing is ready.     *)
IdleRegister ==
    /\ pc[current] = "new_idle"
    /\ idle_thread' = current
    /\ Goto(current, "up_idle")
    /\ UNCHANGED <<schedVars, timerVars, newborn, idle_started>>

(* sema_up(idle_started) in idle().                                          *)
IdleUp ==
    /\ pc[current] = "up_idle"
    /\ IF pc[Main] = "await_idle" /\ status[Main] = "BLOCKED"
         THEN MakeReady(Main)
         ELSE UNCHANGED schedVars
    /\ idle_started' = idle_started + 1
    /\ Goto(current, "idle")
    /\ UNCHANGED <<timerVars, idle_thread, newborn>>

(* The loop of idle(): block, and if scheduled again at once, halt.          *)
IdleLoop ==
    /\ pc[current] = "idle"
    /\ Deschedule("BLOCKED")
    /\ UNCHANGED <<timerVars, idleVars, pc, newborn>>

(* thread_block() by a thread that will wait for some event.                 *)
ThreadBlock ==
    /\ pc[current] = "run"
    /\ Deschedule("BLOCKED")
    /\ UNCHANGED <<timerVars, idleVars, pc, newborn>>

(* The threads that ThreadBlock put to sleep: neither being created, nor in  *)
(* timer_sleep(), nor an idle thread, nor waiting for one.                   *)
Waiting(t) ==
    /\ status[t] = "BLOCKED"
    /\ pc[t] = "run"
    /\ t \notin ToSet(list_threads)
    /\ \A p \in Thread : newborn[p] # t

(* thread_unblock(t) by whoever makes the event happen: the running thread   *)
(* or an interrupt handler.                                                  *)
ThreadUnblock(t) ==
    /\ Waiting(t)
    /\ MakeReady(t)
    /\ UNCHANGED <<timerVars, idleVars, pc, newborn>>

ThreadYield ==
    /\ pc[current] = "run"
    /\ Yield(status, ready_list)
    /\ UNCHANGED <<timerVars, idleVars, pc, newborn>>

ThreadExit ==
    /\ pc[current] = "run"
    /\ Deschedule("DYING")
    /\ UNCHANGED <<timerVars, idleVars, pc, newborn>>

(* timer_sleep(d): the deadline is computed with interrupts on ...           *)
TimerSleep(d) ==
    /\ pc[current] = "run"
    /\ ticks + d <= Horizon
    /\ ticks_to_sleep' = [ticks_to_sleep EXCEPT ![current] = ticks + d]
    /\ Goto(current, "sleep")
    /\ UNCHANGED <<schedVars, ticks, list_threads, idleVars, newborn>>

(* Mutant of InsertOrdered: push_back.                                       *)
InsertLast(t) == Append(list_threads, t)

(* list_insert_ordered(): before the first thread that wakes later.          *)
InsertOrdered(t) ==
    LET later == { i \in 1 .. Len(list_threads) :
                     ticks_to_sleep[t] < ticks_to_sleep[list_threads[i]] }
        pos   == IF later = {} THEN Len(list_threads) + 1
                 ELSE CHOOSE i \in later : \A j \in later : i <= j
    IN  InsertAt(list_threads, pos, t)

(* Mutant of TimerSleepBlock: yields instead of blocking.                    *)
TimerSleepYield ==
    /\ pc[current] = "sleep"
    /\ list_threads' = InsertOrdered(current)
    /\ Yield(status, ready_list)
    /\ Goto(current, "run")
    /\ UNCHANGED <<ticks, ticks_to_sleep, idleVars, newborn>>

(* ... and the thread is queued and blocked with interrupts off.             *)
TimerSleepBlock ==
    /\ pc[current] = "sleep"
    /\ list_threads' = InsertOrdered(current)
    /\ Deschedule("BLOCKED")
    /\ Goto(current, "run")
    /\ UNCHANGED <<ticks, ticks_to_sleep, idleVars, newborn>>

(* Mutant of DueCount: < for <=.                                             *)
DueCountStrict(now) ==
    CHOOSE k \in 0 .. Len(list_threads) :
        /\ \A i \in 1 .. k : ticks_to_sleep[list_threads[i]] < now
        /\ k < Len(list_threads) => now <= ticks_to_sleep[list_threads[k + 1]]

(* Mutant of DueCount: the comparison the wrong way round.                   *)
DueCountSwapped(now) ==
    CHOOSE k \in 0 .. Len(list_threads) :
        /\ \A i \in 1 .. k : ticks_to_sleep[list_threads[i]] > now
        /\ k < Len(list_threads) => now >= ticks_to_sleep[list_threads[k + 1]]

(* The number of threads that the loop of timer_interrupt() pops at time     *)
(* now: it stops at the first one whose time has not come.                   *)
DueCount(now) ==
    CHOOSE k \in 0 .. Len(list_threads) :
        /\ \A i \in 1 .. k : ticks_to_sleep[list_threads[i]] <= now
        /\ k < Len(list_threads) => now < ticks_to_sleep[list_threads[k + 1]]

(* timer_interrupt() with its thread_tick(), and the thread_yield() at the   *)
(* end of intr_handler() once the time slice is used up.                     *)
TimerInterrupt ==
    LET now   == IF ticks < Horizon THEN ticks + 1 ELSE ticks
        k     == DueCount(now)
        woken == SubSeq(list_threads, 1, k)
        rl    == ready_list \o woken
        st    == [t \in Thread |-> IF t \in ToSet(woken) THEN "READY"
                                   ELSE status[t]]
    IN  /\ ticks' = now
        /\ list_threads' = SubSeq(list_threads, k + 1, Len(list_threads))
        /\ IF thread_ticks + 1 >= TIME_SLICE
             THEN Yield(st, rl)
             ELSE /\ ready_list' = rl
                  /\ status' = st
                  /\ thread_ticks' = thread_ticks + 1
                  /\ UNCHANGED current
        /\ UNCHANGED <<ticks_to_sleep, idleVars, pc, newborn>>

-----------------------------------------------------------------------------
(* What the scheduler does by itself, and what threads call.                 *)
Create ==
    \E t \in Thread, entry \in {"run", "new_idle"} : ThreadCreate(t, entry)

Sleep == \E d \in Delays : TimerSleep(d)

Unblock == \E t \in Thread : ThreadUnblock(t)

Next ==
    \/ Create
    \/ ThreadCreateUnblock
    \/ AwaitIdle
    \/ IdleRegister
    \/ IdleUp
    \/ IdleLoop
    \/ ThreadBlock
    \/ Unblock
    \/ ThreadYield
    \/ ThreadExit
    \/ Sleep
    \/ TimerSleepBlock
    \/ TimerInterrupt

Spec == Init /\ [][Next]_threadVars

(* The timer chip keeps interrupting, and no code path leaves interrupts     *)
(* off.  Nothing is assumed about the threads: they may loop for ever.       *)
FairSpec == Spec /\ WF_threadVars(TimerInterrupt)

-----------------------------------------------------------------------------
(* Properties                                                                *)

(* Every variable has its type; in particular thread_ticks stays below       *)
(* TIME_SLICE, because the interrupt that uses up the slice switches.        *)
TypeOK ==
    /\ current \in Thread \cup {NoThread}
    /\ status \in [Thread -> Status]
    /\ ready_list \in Seq(Thread)
    /\ idle_thread \in Thread \cup {NoThread}
    /\ thread_ticks \in 0 .. TIME_SLICE - 1
    /\ ticks \in 0 .. Horizon
    /\ list_threads \in Seq(Thread)
    /\ ticks_to_sleep \in [Thread -> Int]
    /\ pc \in [Thread -> Location]
    /\ newborn \in [Thread -> Thread \cup {NoThread}]
    /\ idle_started \in 0 .. 1

(* Threads that have registered as the idle thread: the current one, and the *)
(* ones that a later thread_start() replaced.                                *)
Idles == {t \in Thread : pc[t] \in {"up_idle", "idle"}}

(* schedule() always finds a thread to run: its ASSERT (is_thread (next))    *)
(* holds, also during boot, when idle_thread is still null and main gives    *)
(* up the processor in thread_start().                                       *)
ScheduleFindsThread == current \in Thread

(* thread_current()'s ASSERT (status == RUNNING), and the premise of the     *)
(* run queue: exactly the running thread is RUNNING, and the run queue holds *)
(* exactly the READY threads, each once, idle threads excepted.              *)
RunQueueMatchesStatus ==
    /\ \A t \in Thread : status[t] = "RUNNING" <=> t = current
    /\ IsInjective(ready_list)
    /\ ToSet(ready_list) = {t \in Thread : status[t] = "READY"} \ Idles

(* A struct thread has a single `elem', used for the run queue and for the   *)
(* sleep queue: a sleeping thread is BLOCKED, and in the sleep queue once.   *)
(* This is also the ASSERT (status == BLOCKED) of the thread_unblock() in    *)
(* timer_interrupt().                                                        *)
SleepersBlocked ==
    /\ IsInjective(list_threads)
    /\ \A t \in ToSet(list_threads) : status[t] = "BLOCKED"

(* timer_interrupt() looks at the front of the sleep queue only, which is    *)
(* right because list_insert_ordered() keeps the earliest deadline there.    *)
SleepQueueSorted ==
    \A i, j \in 1 .. Len(list_threads) :
        i < j => ticks_to_sleep[list_threads[i]]
                   <= ticks_to_sleep[list_threads[j]]

(* A tick wakes exactly the threads whose time has come, whatever the order  *)
(* in which they went to sleep: none leaves timer_sleep()'s queue early, and *)
(* none that is due stays.                                                   *)
TickWakesAllDue ==
    [][/\ \A t \in ToSet(list_threads) \ ToSet(list_threads') :
              ticks_to_sleep[t] <= ticks'
       /\ ticks' # ticks =>
              \A t \in ToSet(list_threads') : ticks' < ticks_to_sleep[t]
      ]_threadVars

(* Round robin: the run queue is left only at its head, by the thread that   *)
(* then runs, and threads join at its end, so no ready thread is overtaken.  *)
NoOvertaking ==
    [][\/ IsPrefix(ready_list, ready_list')
       \/ /\ ready_list # <<>>
          /\ current' = Head(ready_list)
          /\ IsPrefix(Tail(ready_list), ready_list')]_threadVars

(* Preemption gives every ready thread the processor in the end, even if the *)
(* other threads never call the kernel.                                      *)
ReadyEventuallyRuns ==
    \A t \in Thread :
        (status[t] = "READY" /\ t \notin Idles) ~> (current = t)

(* A sleeping thread runs again.                                             *)
SleeperEventuallyRuns ==
    \A t \in Thread : (t \in ToSet(list_threads)) ~> (current = t)

=============================================================================
