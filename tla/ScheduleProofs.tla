-------------------------- MODULE ScheduleProofs --------------------------
(***************************************************************************)
(* The inductive invariant of Threads, and the proof that the actions that *)
(* model threads/thread.c preserve it.  ThreadsProofs has the rest.        *)
(***************************************************************************)
EXTENDS Threads, QueueTheorems

(* A page that is no live thread is not in the middle of an operation; main  *)
(* keeps its page for ever.                                                  *)
FreeInv ==
    /\ \A t \in Thread : status[t] \in {"FREE", "DYING"} => pc[t] = "run"
    /\ status[Main] # "FREE"

(* A thread being created is BLOCKED, in no queue, and known to its creator  *)
(* only; it is an idle thread only if main, in thread_start(), creates it.   *)
NewbornInv ==
    /\ \A p \in Thread : newborn[p] # NoThread <=> pc[p] = "create"
    /\ \A p \in Thread : newborn[p] # NoThread =>
           LET t == newborn[p]
           IN  /\ status[t] = "BLOCKED"
               /\ t \notin ToSet(list_threads)
               /\ pc[t] \in {"run", "new_idle"}
               /\ pc[t] = "new_idle" => p = Main
    /\ \A p, q \in Thread : newborn[p] = newborn[q] /\ newborn[p] # NoThread
           => p = q

(* Sleeping threads have left the code of timer_sleep() that matters.        *)
SleeperInv == \A t \in ToSet(list_threads) : pc[t] = "run"

(* The idle thread has registered, and no idle thread it replaced runs.      *)
IdleInv ==
    /\ idle_thread # NoThread => idle_thread \in Idles
    /\ current \in Idles => current = idle_thread

(* Only main is ever in thread_start(), and while an idle thread is between  *)
(* its creation and its sema_up(), main is there, and waits.                 *)
StartInv ==
    /\ Main \notin Idles /\ pc[Main] # "new_idle"
    /\ \A t \in Thread : pc[t] = "await_idle" => t = Main
    /\ \A t \in Thread : pc[t] \in {"new_idle", "up_idle"} =>
           /\ idle_started = 0
           /\ \/ pc[Main] = "await_idle" /\ \A p \in Thread : newborn[p] # t
              \/ pc[Main] = "create" /\ newborn[Main] = t
    /\ \A t, u \in Thread : /\ pc[t] \in {"new_idle", "up_idle"}
                            /\ pc[u] \in {"new_idle", "up_idle"}
                            => t = u
    /\ idle_started = 1 => pc[Main] = "await_idle"

(* Until the idle thread has registered, it is ready or running, and main    *)
(* is the only other thread.                                                 *)
BootInv ==
    idle_thread = NoThread =>
        /\ pc[Main] = "await_idle"
        /\ pc[FirstIdle] = "new_idle"
        /\ status[FirstIdle] \in {"READY", "RUNNING"}
        /\ \A t \in Thread \ {Main, FirstIdle} : status[t] = "FREE"

ThreadsInv ==
    /\ TypeOK
    /\ ScheduleFindsThread
    /\ RunQueueMatchesStatus
    /\ SleepersBlocked
    /\ SleepQueueSorted
    /\ FreeInv
    /\ NewbornInv
    /\ SleeperInv
    /\ IdleInv
    /\ StartInv
    /\ BootInv

-----------------------------------------------------------------------------
(* What schedule() guarantees, given the statuses st it starts from, in      *)
(* which nobody is RUNNING: one thread, ready or idle, becomes RUNNING and   *)
(* leaves the run queue, and the others keep their status, except that the   *)
(* page of a dying thread becomes free.                                      *)
Switch(st) ==
    /\ current' \in Thread
    /\ status' \in [Thread -> Status]
    /\ ready_list' \in Seq(Thread)
    /\ thread_ticks' = 0
    /\ \A t \in Thread : status'[t] = "RUNNING" <=> t = current'
    /\ Queues(ready_list', {t \in Thread : status'[t] = "READY"} \ Idles)
    /\ current' \in Idles => current' = idle_thread
    /\ st[current'] = "READY" \/ current' = idle_thread
    /\ \A t \in Thread \ {current'} :
           \/ status'[t] = st[t]
           \/ st[t] = "DYING" /\ status'[t] = "FREE" /\ t # Main

(* schedule() finds a thread to run and leaves the queue and the states of   *)
(* threads in step.                                                          *)
LEMMA ScheduleSwitches ==
    ASSUME NEW cur \in Thread, NEW st \in [Thread -> Status],
           NEW rl \in Seq(Thread),
           \A t \in Thread : st[t] # "RUNNING",
           Queues(rl, {t \in Thread : st[t] = "READY"} \ Idles),
           idle_thread \in Idles \/ rl # <<>>,
           Schedule(cur, st, rl)
    PROVE  Switch(st)
<1> DEFINE next == IF rl = <<>> THEN idle_thread ELSE Head(rl)
           Ready == {t \in Thread : st[t] = "READY"} \ Idles
<1>1. /\ next \in Thread
      /\ next \in Idles => next = idle_thread
      /\ st[next] = "READY" \/ next = idle_thread
  <2>1. CASE rl = <<>>
    BY <2>1 DEF Idles
  <2>2. CASE rl # <<>>
    <3>1. Head(rl) \in Ready
      BY <2>2, QueuesPop
    <3> QED BY <2>2, <3>1
  <2> QED BY <2>1, <2>2
<1>2. /\ current' = next
      /\ thread_ticks' = 0
      /\ ready_list' = IF rl = <<>> THEN rl ELSE Tail(rl)
      /\ status' \in [Thread -> Status]
      /\ status'[next] = "RUNNING"
      /\ \A t \in Thread \ {next} :
             \/ status'[t] = st[t]
             \/ st[t] = "DYING" /\ status'[t] = "FREE" /\ t # Main
  BY <1>1 DEF Schedule, Status
<1>3. \A t \in Thread : status'[t] = "RUNNING" <=> t = current'
  BY <1>2
<1>4. {t \in Thread : status'[t] = "READY"} \ Idles = Ready \ {next}
  BY <1>2
<1>5. ready_list' \in Seq(Thread) /\ Queues(ready_list', Ready \ {next})
  <2>1. CASE rl = <<>>
    <3>1. Ready = {}
      BY <2>1, QueuesEmpty
    <3>2. Ready \ {next} = Ready
      BY <3>1
    <3> QED BY <2>1, <3>2, <1>2
  <2>2. CASE rl # <<>>
    BY <2>2, <1>2, QueuesPop
  <2> QED BY <2>1, <2>2
<1> QED BY <1>1, <1>2, <1>3, <1>4, <1>5 DEF Switch

(* thread_block() and thread_exit().                                         *)
LEMMA DescheduleSwitches ==
    ASSUME ThreadsInv, NEW s \in {"BLOCKED", "DYING"}, Deschedule(s),
           idle_thread # NoThread \/ ready_list # <<>>
    PROVE  Switch([status EXCEPT ![current] = s])
<1> DEFINE st == [status EXCEPT ![current] = s]
<1>1. /\ st \in [Thread -> Status]
      /\ current \in Thread
      /\ ready_list \in Seq(Thread)
      /\ \A t \in Thread : st[t] # "RUNNING"
  BY DEF ThreadsInv, TypeOK, ScheduleFindsThread, RunQueueMatchesStatus, Status
<1>2. {t \in Thread : st[t] = "READY"} = {t \in Thread : status[t] = "READY"}
  BY DEF ThreadsInv, TypeOK, ScheduleFindsThread, RunQueueMatchesStatus
<1>3. Queues(ready_list, {t \in Thread : st[t] = "READY"} \ Idles)
  BY <1>2 DEF ThreadsInv, RunQueueMatchesStatus, Queues
<1>4. idle_thread \in Idles \/ ready_list # <<>>
  BY DEF ThreadsInv, IdleInv
<1>5. Schedule(current, st, ready_list)
  BY DEF Deschedule
<1> QED BY <1>1, <1>3, <1>4, <1>5, ScheduleSwitches

(* thread_yield(), by a thread or at the end of an interrupt that has made   *)
(* some threads ready already.                                               *)
LEMMA YieldSwitches ==
    ASSUME ThreadsInv, NEW st \in [Thread -> Status], NEW rl \in Seq(Thread),
           \A t \in Thread : st[t] = "RUNNING" <=> t = current,
           Queues(rl, {t \in Thread : st[t] = "READY"} \ Idles),
           Yield(st, rl)
    PROVE  Switch([st EXCEPT ![current] = "READY"])
<1> DEFINE st1 == [st EXCEPT ![current] = "READY"]
           rl1 == IF current # idle_thread THEN Append(rl, current) ELSE rl
           Ready == {t \in Thread : st[t] = "READY"} \ Idles
<1>1. /\ st1 \in [Thread -> Status]
      /\ current \in Thread
      /\ \A t \in Thread : st1[t] # "RUNNING"
  BY DEF ThreadsInv, ScheduleFindsThread, Status
<1>2. {t \in Thread : st1[t] = "READY"} \ Idles
        = IF current # idle_thread THEN Ready \cup {current} ELSE Ready
  <2>1. current # idle_thread => current \notin Idles
    BY DEF ThreadsInv, IdleInv
  <2>2. current = idle_thread => current \in Idles
    BY <1>1, ThreadsAssumption DEF ThreadsInv, IdleInv
  <2> QED BY <1>1, <2>1, <2>2
<1>3. /\ rl1 \in Seq(Thread)
      /\ Queues(rl1, {t \in Thread : st1[t] = "READY"} \ Idles)
      /\ idle_thread \in Idles \/ rl1 # <<>>
  <2>1. CASE current # idle_thread
    <3>1. current \notin Ready
      BY <1>1
    <3>2. Append(rl, current) # <<>>
      BY <1>1, AppendProperties
    <3>3. /\ Append(rl, current) \in Seq(Thread)
          /\ Queues(Append(rl, current), Ready \cup {current})
      <4> HIDE DEF Ready
      <4> QED BY <3>1, <1>1, QueuesAppend DEF Ready
    <3> QED BY <2>1, <3>2, <3>3, <1>2
  <2>2. CASE current = idle_thread
    BY <2>2, <1>1, <1>2, ThreadsAssumption DEF ThreadsInv, IdleInv
  <2> QED BY <2>1, <2>2
<1>4. Schedule(current, st1, rl1)
  BY DEF Yield
<1> QED BY <1>1, <1>3, <1>4, ScheduleSwitches

-----------------------------------------------------------------------------
(* A switch keeps the invariants, whatever made the running thread give up   *)
(* the processor: other threads' statuses are as before, except that some    *)
(* sleeping threads may have been made ready, and the running thread stops   *)
(* in a way that its position in the code allows.                            *)
LEMMA SwitchKeeps ==
    ASSUME ThreadsInv, NEW st \in [Thread -> Status], Switch(st),
           UNCHANGED <<idle_thread, idle_started, newborn>>,
           pc' \in [Thread -> Location],
           \A t \in Thread : \/ pc'[t] = pc[t]
                             \/ t = current /\ pc[t] = "sleep" /\ pc'[t] = "run",
           \A t \in Thread \ {current} :
               \/ st[t] = status[t]
               \/ t \in ToSet(list_threads) /\ st[t] = "READY",
           \/ st[current] \in {"READY", "BLOCKED"}
           \/ st[current] = "DYING" /\ pc[current] = "run",
           pc[current] = "new_idle" => st[current] = "READY",
           ToSet(list_threads') \subseteq ToSet(list_threads) \cup {current},
           \A t \in ToSet(list_threads') : st[t] = "BLOCKED" /\ pc'[t] = "run"
    PROVE  /\ ScheduleFindsThread'
           /\ RunQueueMatchesStatus'
           /\ \A t \in ToSet(list_threads') : status'[t] = "BLOCKED"
           /\ FreeInv'
           /\ NewbornInv'
           /\ SleeperInv'
           /\ IdleInv'
           /\ StartInv'
           /\ BootInv'
<1>1. /\ current \in Thread
      /\ status[current] = "RUNNING"
      /\ status \in [Thread -> Status]
      /\ pc \in [Thread -> Location]
      /\ newborn \in [Thread -> Thread \cup {NoThread}]
      /\ ToSet(list_threads) \subseteq Thread
      /\ \A t \in ToSet(list_threads) : status[t] = "BLOCKED" /\ pc[t] = "run"
  <2>1. ToSet(list_threads) \subseteq Thread
    BY ToSetSubset DEF ThreadsInv, TypeOK
  <2> QED BY <2>1 DEF ThreadsInv, TypeOK, ScheduleFindsThread,
                      RunQueueMatchesStatus, SleepersBlocked, SleeperInv
<1>2. Idles' = Idles
  BY DEF Idles
<1>3. idle_thread \in Thread => pc[idle_thread] \in {"up_idle", "idle"}
  BY <1>1, ThreadsAssumption DEF ThreadsInv, IdleInv, Idles
<1>4. ScheduleFindsThread' /\ RunQueueMatchesStatus'
  BY <1>2 DEF Switch, ScheduleFindsThread, RunQueueMatchesStatus, Queues
<1>5. \A t \in Thread : st[t] = "BLOCKED" /\ pc[t] \notin {"up_idle", "idle"}
                          => status'[t] = "BLOCKED"
  BY <1>3 DEF Switch
<1>6. \A t \in ToSet(list_threads') : status'[t] = "BLOCKED"
  BY <1>1, <1>5
<1>7. FreeInv'
  <2>1. ASSUME NEW t \in Thread, status'[t] \in {"FREE", "DYING"}
        PROVE  pc'[t] = "run"
    <3>1. st[t] \in {"FREE", "DYING"}
      BY <2>1 DEF Switch
    <3>2. CASE t = current
      BY <3>1, <3>2
    <3>3. CASE t # current
      BY <3>1, <3>3 DEF ThreadsInv, FreeInv
    <3> QED BY <3>2, <3>3
  <2>2. status'[Main] # "FREE"
    <3>1. Main \in Thread /\ st[Main] # "FREE"
      BY <1>1, ThreadsAssumption DEF ThreadsInv, FreeInv
    <3> QED BY <3>1 DEF Switch
  <2> QED BY <2>1, <2>2 DEF FreeInv
<1>8. NewbornInv'
  <2>1. \A p \in Thread : newborn[p] # NoThread <=> pc'[p] = "create"
    BY DEF ThreadsInv, NewbornInv
  <2>2. ASSUME NEW p \in Thread, newborn[p] # NoThread
        PROVE  /\ status'[newborn[p]] = "BLOCKED"
               /\ newborn[p] \notin ToSet(list_threads')
               /\ pc'[newborn[p]] \in {"run", "new_idle"}
               /\ pc'[newborn[p]] = "new_idle" => p = Main
    <3>1. /\ newborn[p] \in Thread
          /\ status[newborn[p]] = "BLOCKED"
          /\ newborn[p] \notin ToSet(list_threads)
          /\ pc[newborn[p]] \in {"run", "new_idle"}
          /\ pc[newborn[p]] = "new_idle" => p = Main
      BY <1>1, <2>2 DEF ThreadsInv, NewbornInv
    <3>2. newborn[p] # current
      BY <1>1, <3>1
    <3> QED BY <1>5, <3>1, <3>2
  <2> QED BY <2>1, <2>2 DEF ThreadsInv, NewbornInv
<1>9. SleeperInv'
  BY DEF SleeperInv
<1>10. IdleInv'
  BY <1>2 DEF Switch, ThreadsInv, IdleInv
<1>11. StartInv'
  <2>1. Main \in Thread /\ Main \notin Idles' /\ pc'[Main] # "new_idle"
    BY <1>2, ThreadsAssumption DEF ThreadsInv, StartInv
  <2>2. \A t \in Thread : \A l \in {"await_idle", "new_idle", "up_idle", "create"} :
            pc'[t] = l <=> pc[t] = l
    OBVIOUS
  <2> QED BY <2>1, <2>2 DEF ThreadsInv, StartInv
<1>12. BootInv'
  <2> SUFFICES ASSUME idle_thread = NoThread
               PROVE  /\ pc'[Main] = "await_idle"
                      /\ pc'[FirstIdle] = "new_idle"
                      /\ status'[FirstIdle] \in {"READY", "RUNNING"}
                      /\ \A t \in Thread \ {Main, FirstIdle} : status'[t] = "FREE"
    BY DEF BootInv
  <2>1. /\ Main \in Thread /\ FirstIdle \in Thread
        /\ pc[Main] = "await_idle"
        /\ pc[FirstIdle] = "new_idle"
        /\ status[FirstIdle] \in {"READY", "RUNNING"}
        /\ \A t \in Thread \ {Main, FirstIdle} : status[t] = "FREE"
    BY ThreadsAssumption DEF ThreadsInv, BootInv
  <2>2. current' # idle_thread /\ st[current'] = "READY"
    BY ThreadsAssumption DEF Switch
  <2>3. st[FirstIdle] = "READY"
    BY <1>1, <2>1 DEF ThreadsInv, RunQueueMatchesStatus
  <2>4. status'[FirstIdle] \in {"READY", "RUNNING"}
    BY <2>1, <2>3 DEF Switch
  <2>5. ASSUME NEW t \in Thread \ {Main, FirstIdle} PROVE status'[t] = "FREE"
    <3>1. t # current /\ st[t] = "FREE"
      BY <1>1, <2>1
    <3> QED BY <2>2, <3>1 DEF Switch
  <2> QED BY <2>1, <2>4, <2>5
<1> QED BY <1>4, <1>6, <1>7, <1>8, <1>9, <1>10, <1>11, <1>12

(* thread_unblock(): a BLOCKED thread joins the run queue.                   *)
LEMMA MakeReadyQueues ==
    ASSUME ThreadsInv, NEW t \in Thread, status[t] = "BLOCKED", t \notin Idles,
           MakeReady(t)
    PROVE  /\ ready_list' \in Seq(Thread)
           /\ status' \in [Thread -> Status]
           /\ \A u \in Thread : status'[u] = "RUNNING" <=> u = current
           /\ Queues(ready_list', {u \in Thread : status'[u] = "READY"} \ Idles)
<1> DEFINE Ready == {u \in Thread : status[u] = "READY"} \ Idles
<1>1. /\ status \in [Thread -> Status]
      /\ ready_list \in Seq(Thread)
      /\ Queues(ready_list, Ready)
      /\ \A u \in Thread : status[u] = "RUNNING" <=> u = current
  BY DEF ThreadsInv, TypeOK, RunQueueMatchesStatus, Queues
<1>2. /\ status' = [status EXCEPT ![t] = "READY"]
      /\ ready_list' = Append(ready_list, t)
  BY DEF MakeReady
<1>3. t \notin Ready
  OBVIOUS
<1>4. {u \in Thread : status'[u] = "READY"} \ Idles = Ready \cup {t}
  BY <1>1, <1>2
<1>5. ready_list' \in Seq(Thread) /\ Queues(ready_list', Ready \cup {t})
  <2> HIDE DEF Ready
  <2> QED BY <1>1, <1>2, <1>3, QueuesAppend
<1> QED BY <1>1, <1>2, <1>4, <1>5 DEF Status

-----------------------------------------------------------------------------
(* Each action preserves the invariant.                                      *)

(* thread_create() up to its call of thread_unblock().                       *)
LEMMA CreateStep ==
    ASSUME ThreadsInv, NEW t \in Thread, NEW entry \in {"run", "new_idle"},
           ThreadCreate(t, entry)
    PROVE  ThreadsInv'
<1> USE ThreadsAssumption
<1>1. /\ pc[current] = "run"
      /\ entry = "new_idle" => current = Main
      /\ status[t] = "FREE"
      /\ status' = [status EXCEPT ![t] = "BLOCKED"]
      /\ ticks_to_sleep' = [ticks_to_sleep EXCEPT ![t] = 0]
      /\ newborn' = [newborn EXCEPT ![current] = t]
      /\ pc' = [pc EXCEPT ![t] = entry, ![current] = "create"]
      /\ UNCHANGED <<current, ready_list, thread_ticks, ticks, list_threads,
                     idle_thread, idle_started>>
  BY DEF ThreadCreate, idleVars
<1>2. TypeOK
  BY DEF ThreadsInv
<1>3. /\ current \in Thread /\ current # t /\ t # Main
      /\ pc[t] = "run"
      /\ newborn[current] = NoThread /\ newborn[t] = NoThread
      /\ \A p \in Thread : newborn[p] # t
      /\ ToSet(list_threads) \subseteq Thread \ {t, current}
      /\ idle_thread # NoThread
  <2>1. current \in Thread /\ current # t /\ t # Main /\ pc[t] = "run"
    BY <1>1 DEF ThreadsInv, ScheduleFindsThread, RunQueueMatchesStatus, FreeInv
  <2>2. newborn[current] = NoThread /\ newborn[t] = NoThread
    BY <1>1, <2>1 DEF ThreadsInv, NewbornInv
  <2>3. \A p \in Thread : newborn[p] # t
    BY <1>1 DEF ThreadsInv, NewbornInv
  <2>4. ToSet(list_threads) \subseteq Thread \ {t, current}
    <3>1. ToSet(list_threads) \subseteq Thread
      BY <1>2, ToSetSubset DEF TypeOK
    <3> QED BY <3>1, <1>1, <2>1
            DEF ThreadsInv, SleepersBlocked, RunQueueMatchesStatus
  <2>5. idle_thread # NoThread
    BY <1>1, <2>1 DEF ThreadsInv, BootInv, RunQueueMatchesStatus
  <2> QED BY <2>1, <2>2, <2>3, <2>4, <2>5
<1>4. /\ pc' \in [Thread -> Location]
      /\ pc'[t] = entry /\ pc'[current] = "create"
      /\ \A u \in Thread \ {t, current} : pc'[u] = pc[u]
      /\ status' \in [Thread -> Status]
      /\ status'[t] = "BLOCKED"
      /\ \A u \in Thread \ {t} : status'[u] = status[u]
      /\ newborn' \in [Thread -> Thread \cup {NoThread}]
      /\ newborn'[current] = t
      /\ \A p \in Thread \ {current} : newborn'[p] = newborn[p]
  BY <1>1, <1>2, <1>3 DEF TypeOK, Location, Status
<1>5. TypeOK'
  <2>1. ticks_to_sleep' \in [Thread -> Int]
    BY <1>1, <1>2 DEF TypeOK
  <2> QED BY <2>1, <1>1, <1>2, <1>4 DEF TypeOK
<1>6. ScheduleFindsThread'
  BY <1>1, <1>3 DEF ScheduleFindsThread
<1>7. Idles' = Idles
  BY <1>1, <1>3, <1>4 DEF Idles
<1>8. RunQueueMatchesStatus'
  <2>1. {u \in Thread : status'[u] = "READY"} = {u \in Thread : status[u] = "READY"}
    BY <1>1, <1>4
  <2>2. \A u \in Thread : status'[u] = "RUNNING" <=> u = current
    BY <1>1, <1>4 DEF ThreadsInv, RunQueueMatchesStatus
  <2> QED BY <2>1, <2>2, <1>1, <1>7 DEF ThreadsInv, RunQueueMatchesStatus
<1>9. SleepersBlocked'
  BY <1>1, <1>3, <1>4 DEF ThreadsInv, SleepersBlocked
<1>10. SleepQueueSorted'
  <2>1. ASSUME NEW i \in 1 .. Len(list_threads)
        PROVE  ticks_to_sleep'[list_threads[i]] = ticks_to_sleep[list_threads[i]]
    <3>1. list_threads[i] \in ToSet(list_threads)
      BY <1>2, ToSetByIndex DEF TypeOK
    <3> QED BY <3>1, <1>1, <1>2, <1>3 DEF TypeOK
  <2> QED BY <2>1, <1>1 DEF ThreadsInv, SleepQueueSorted
<1>11. FreeInv'
  BY <1>1, <1>3, <1>4 DEF ThreadsInv, FreeInv, RunQueueMatchesStatus
<1>12. NewbornInv'
  <2>1. \A p \in Thread : newborn'[p] # NoThread <=> pc'[p] = "create"
    BY <1>1, <1>3, <1>4 DEF ThreadsInv, NewbornInv
  <2>2. ASSUME NEW p \in Thread, newborn'[p] # NoThread
        PROVE  /\ status'[newborn'[p]] = "BLOCKED"
               /\ newborn'[p] \notin ToSet(list_threads)
               /\ pc'[newborn'[p]] \in {"run", "new_idle"}
               /\ pc'[newborn'[p]] = "new_idle" => p = Main
    <3>1. CASE p = current
      BY <3>1, <1>1, <1>3, <1>4
    <3>2. CASE p # current
      <4>1. newborn'[p] = newborn[p] /\ newborn[p] \in Thread \ {t, current}
        BY <3>2, <2>2, <1>1, <1>2, <1>3, <1>4
           DEF ThreadsInv, NewbornInv, RunQueueMatchesStatus, TypeOK
      <4> QED BY <4>1, <2>2, <1>4 DEF ThreadsInv, NewbornInv
    <3> QED BY <3>1, <3>2
  <2>3. \A p, q \in Thread : newborn'[p] = newborn'[q] /\ newborn'[p] # NoThread
            => p = q
    BY <1>3, <1>4 DEF ThreadsInv, NewbornInv
  <2> QED BY <2>1, <2>2, <2>3, <1>1 DEF NewbornInv
<1>13. SleeperInv'
  BY <1>1, <1>3, <1>4 DEF ThreadsInv, SleeperInv
<1>14. IdleInv'
  BY <1>1, <1>7 DEF ThreadsInv, IdleInv
<1>15. StartInv'
  BY <1>1, <1>2, <1>3, <1>4, <1>7 DEF ThreadsInv, StartInv, NewbornInv, TypeOK
<1>16. BootInv'
  BY <1>1, <1>3 DEF BootInv
<1> QED BY <1>5, <1>6, <1>8, <1>9, <1>10, <1>11, <1>12, <1>13, <1>14, <1>15, <1>16
        DEF ThreadsInv

(* Once a thread runs ordinary code, the idle thread has registered.         *)
LEMMA NotBooting ==
    ASSUME ThreadsInv, pc[current] \notin {"await_idle", "new_idle"}
    PROVE  idle_thread # NoThread
<1>1. current \in Thread /\ status[current] = "RUNNING"
  BY DEF ThreadsInv, ScheduleFindsThread, RunQueueMatchesStatus
<1> QED BY <1>1 DEF ThreadsInv, BootInv

(* Blocking and exiting, with nothing else changed.                          *)
LEMMA DescheduleStep ==
    ASSUME ThreadsInv, NEW s \in {"BLOCKED", "DYING"}, Deschedule(s),
           idle_thread # NoThread \/ ready_list # <<>>,
           s = "DYING" => pc[current] = "run",
           pc[current] # "new_idle",
           UNCHANGED <<timerVars, idleVars, pc, newborn>>
    PROVE  ThreadsInv'
<1> DEFINE st == [status EXCEPT ![current] = s]
<1>1. Switch(st)
  BY DescheduleSwitches
<1>2. /\ current \in Thread
      /\ status[current] = "RUNNING"
      /\ st \in [Thread -> Status]
      /\ st[current] = s
      /\ \A t \in Thread \ {current} : st[t] = status[t]
      /\ pc' = pc /\ pc \in [Thread -> Location]
      /\ list_threads' = list_threads
      /\ UNCHANGED <<idle_thread, idle_started, newborn, ticks, ticks_to_sleep>>
  BY DEF ThreadsInv, TypeOK, ScheduleFindsThread, RunQueueMatchesStatus, Status,
         timerVars, idleVars
<1>3. ASSUME NEW t \in ToSet(list_threads)
      PROVE  st[t] = "BLOCKED" /\ pc[t] = "run"
  <2>1. t \in Thread /\ status[t] = "BLOCKED" /\ pc[t] = "run"
    BY ToSetSubset DEF ThreadsInv, TypeOK, SleepersBlocked, SleeperInv
  <2> QED BY <1>2, <2>1
<1> HIDE DEF st
<1>4. /\ ScheduleFindsThread'
      /\ RunQueueMatchesStatus'
      /\ \A t \in ToSet(list_threads') : status'[t] = "BLOCKED"
      /\ FreeInv' /\ NewbornInv' /\ SleeperInv'
      /\ IdleInv' /\ StartInv' /\ BootInv'
  BY <1>1, <1>2, <1>3, SwitchKeeps
<1>5. TypeOK'
  BY <1>1, <1>2, ThreadsAssumption DEF Switch, ThreadsInv, TypeOK
<1>6. SleepersBlocked' /\ SleepQueueSorted'
  BY <1>2, <1>4 DEF ThreadsInv, SleepersBlocked, SleepQueueSorted
<1> QED BY <1>4, <1>5, <1>6 DEF ThreadsInv

(* thread_start() waits in sema_down() for the idle thread.                  *)
LEMMA AwaitIdleStep ==
    ASSUME ThreadsInv, AwaitIdle
    PROVE  ThreadsInv'
<1>1. current \in Thread /\ status[current] = "RUNNING" /\ pc[current] = "await_idle"
      /\ current = Main
  BY DEF AwaitIdle, ThreadsInv, ScheduleFindsThread, RunQueueMatchesStatus, StartInv
<1>2. CASE idle_started = 0
  <2>1. idle_thread # NoThread \/ ready_list # <<>>
    <3> SUFFICES ASSUME idle_thread = NoThread PROVE ready_list # <<>>
      OBVIOUS
    <3>1. FirstIdle \in {t \in Thread : status[t] = "READY"} \ Idles
      BY <1>1, ThreadsAssumption
         DEF ThreadsInv, BootInv, Idles, RunQueueMatchesStatus
    <3>2. FirstIdle \in ToSet(ready_list) /\ ready_list \in Seq(Thread)
      BY <3>1 DEF ThreadsInv, RunQueueMatchesStatus, TypeOK
    <3>3. PICK i \in 1 .. Len(ready_list) : ready_list[i] = FirstIdle
      BY <3>2, ToSetByIndex
    <3> QED BY <3>3
  <2>2. Deschedule("BLOCKED") /\ UNCHANGED <<timerVars, idleVars, pc, newborn>>
    BY <1>2 DEF AwaitIdle, idleVars
  <2> QED BY <1>1, <2>1, <2>2, DescheduleStep
<1>3. CASE idle_started # 0
  <2>1. /\ idle_started = 1
        /\ idle_started' = 0
        /\ pc' = [pc EXCEPT ![Main] = "run"]
        /\ UNCHANGED <<schedVars, timerVars, idle_thread, newborn>>
    BY <1>1, <1>3 DEF AwaitIdle, Goto, ThreadsInv, TypeOK
  <2>2. /\ pc \in [Thread -> Location]
        /\ pc' \in [Thread -> Location]
        /\ Main \in Thread
        /\ pc'[Main] = "run" /\ pc[Main] = "await_idle"
        /\ \A t \in Thread \ {Main} : pc'[t] = pc[t]
        /\ \A t \in Thread : pc[t] \notin {"new_idle", "up_idle"}
    BY <1>1, <2>1 DEF ThreadsInv, TypeOK, StartInv, Location
  <2>3. Idles' = Idles
    BY <2>2 DEF Idles
  <2>4. TypeOK'
    BY <2>1, <2>2 DEF ThreadsInv, TypeOK, schedVars, timerVars
  <2>5. ScheduleFindsThread' /\ RunQueueMatchesStatus' /\ SleepersBlocked'
        /\ SleepQueueSorted'
    BY <2>1, <2>3 DEF ThreadsInv, ScheduleFindsThread, RunQueueMatchesStatus,
         SleepersBlocked, SleepQueueSorted, schedVars, timerVars
  <2>6. FreeInv' /\ SleeperInv'
    <3>1. ToSet(list_threads) \subseteq Thread
      BY ToSetSubset DEF ThreadsInv, TypeOK
    <3> QED BY <3>1, <2>1, <2>2 DEF ThreadsInv, FreeInv, SleeperInv, schedVars, timerVars
  <2>7. NewbornInv'
    <3>1. \A p \in Thread : newborn[p] # NoThread => newborn[p] \in Thread \ {Main}
      BY <2>2 DEF ThreadsInv, NewbornInv, TypeOK
    <3> QED BY <3>1, <2>1, <2>2 DEF ThreadsInv, NewbornInv, schedVars, timerVars
  <2>8. IdleInv'
    BY <2>1, <2>3 DEF ThreadsInv, IdleInv, schedVars
  <2>9. StartInv'
    BY <2>1, <2>2, <2>3 DEF ThreadsInv, StartInv
  <2>10. BootInv'
    BY <2>1, <2>2, ThreadsAssumption DEF ThreadsInv, BootInv, schedVars
  <2> QED BY <2>4, <2>5, <2>6, <2>7, <2>8, <2>9, <2>10 DEF ThreadsInv
<1> QED BY <1>2, <1>3

(* idle() stores itself in idle_thread.                                      *)
LEMMA IdleRegisterStep ==
    ASSUME ThreadsInv, IdleRegister
    PROVE  ThreadsInv'
<1>1. /\ current \in Thread /\ status[current] = "RUNNING"
      /\ pc[current] = "new_idle"
      /\ idle_thread' = current
      /\ pc' = [pc EXCEPT ![current] = "up_idle"]
      /\ UNCHANGED <<current, status, ready_list, thread_ticks, ticks,
                     list_threads, ticks_to_sleep, newborn, idle_started>>
  BY DEF IdleRegister, Goto, ThreadsInv, ScheduleFindsThread,
         RunQueueMatchesStatus, schedVars, timerVars
<1>2. /\ pc' \in [Thread -> Location]
      /\ pc'[current] = "up_idle"
      /\ \A t \in Thread \ {current} : pc'[t] = pc[t]
      /\ current # Main
  BY <1>1 DEF ThreadsInv, TypeOK, StartInv, Location
<1>3. Idles' = Idles \cup {current}
  BY <1>1, <1>2 DEF Idles
<1>4. TypeOK'
  BY <1>1, <1>2 DEF ThreadsInv, TypeOK
<1>5. ScheduleFindsThread' /\ SleepersBlocked' /\ SleepQueueSorted'
  BY <1>1 DEF ThreadsInv, ScheduleFindsThread, SleepersBlocked, SleepQueueSorted
<1>6. RunQueueMatchesStatus'
  BY <1>1, <1>3 DEF ThreadsInv, RunQueueMatchesStatus
<1>7. \A p \in Thread : newborn[p] # NoThread
                          => newborn[p] \in Thread \ {current} /\ newborn[p] # NoThread
  BY <1>1 DEF ThreadsInv, NewbornInv, TypeOK
<1>8. FreeInv' /\ SleeperInv'
  <2>1. ToSet(list_threads) \subseteq Thread
    BY ToSetSubset DEF ThreadsInv, TypeOK
  <2> QED BY <2>1, <1>1, <1>2 DEF ThreadsInv, FreeInv, SleeperInv
<1>9. NewbornInv'
  BY <1>1, <1>2, <1>7 DEF ThreadsInv, NewbornInv
<1>10. IdleInv'
  BY <1>1, <1>3 DEF IdleInv
<1>11. StartInv'
  <2>1. Main \in Thread /\ pc'[Main] = pc[Main] /\ Main \notin Idles'
    BY <1>2, <1>3, ThreadsAssumption DEF ThreadsInv, StartInv
  <2>2. \A t \in Thread : pc'[t] \in {"new_idle", "up_idle"}
                            <=> pc[t] \in {"new_idle", "up_idle"}
    BY <1>1, <1>2
  <2>3. \A t \in Thread : pc'[t] = "await_idle" <=> pc[t] = "await_idle"
    BY <1>1, <1>2
  <2> QED BY <2>1, <2>2, <2>3, <1>1 DEF ThreadsInv, StartInv
<1>12. BootInv'
  BY <1>1, ThreadsAssumption DEF BootInv
<1> QED BY <1>4, <1>5, <1>6, <1>8, <1>9, <1>10, <1>11, <1>12 DEF ThreadsInv

(* The sema_up() of idle().                                                  *)
LEMMA IdleUpStep ==
    ASSUME ThreadsInv, IdleUp
    PROVE  ThreadsInv'
<1>1. /\ current \in Thread /\ status[current] = "RUNNING"
      /\ pc[current] = "up_idle"
      /\ idle_started' = idle_started + 1
      /\ pc' = [pc EXCEPT ![current] = "idle"]
      /\ UNCHANGED <<ticks, list_threads, ticks_to_sleep, idle_thread, newborn>>
  BY DEF IdleUp, Goto, ThreadsInv, ScheduleFindsThread, RunQueueMatchesStatus,
         timerVars
<1>2. /\ pc' \in [Thread -> Location]
      /\ pc'[current] = "idle"
      /\ \A t \in Thread \ {current} : pc'[t] = pc[t]
  BY <1>1 DEF ThreadsInv, TypeOK, Location
<1>3. /\ Main \in Thread \ {current}
      /\ idle_started = 0
      /\ pc[Main] = "await_idle"
      /\ \A p \in Thread : newborn[p] \notin {current, Main}
      /\ idle_thread \in Thread
      /\ ToSet(list_threads) \subseteq Thread \ {current, Main}
  <2>1. Main \in Thread \ {current}
    BY <1>1, ThreadsAssumption DEF ThreadsInv, StartInv, Idles
  <2>2. \A p \in Thread : newborn[p] # current
    BY <1>1, ThreadsAssumption DEF ThreadsInv, NewbornInv
  <2>3. idle_started = 0 /\ pc[Main] = "await_idle"
    BY <1>1, <2>1, <2>2 DEF ThreadsInv, StartInv
  <2>4. \A p \in Thread : newborn[p] # Main
    BY <2>1, <2>3, ThreadsAssumption DEF ThreadsInv, NewbornInv
  <2>5. idle_thread \in Thread
    BY <1>1, NotBooting DEF ThreadsInv, TypeOK
  <2>6. ToSet(list_threads) \subseteq Thread \ {current, Main}
    BY <1>1, <2>1, <2>3, ToSetSubset DEF ThreadsInv, TypeOK, SleeperInv
  <2> QED BY <2>1, <2>2, <2>3, <2>4, <2>5, <2>6
<1>4. Idles' = Idles
  BY <1>1, <1>2 DEF Idles
<1>5. /\ current' = current /\ thread_ticks' = thread_ticks
      /\ ready_list' \in Seq(Thread)
      /\ status' \in [Thread -> Status]
      /\ \A t \in Thread : status'[t] = "RUNNING" <=> t = current
      /\ Queues(ready_list', {t \in Thread : status'[t] = "READY"} \ Idles)
      /\ \A t \in Thread \ {Main} : status'[t] = status[t]
      /\ status'[Main] = status[Main] \/ status'[Main] = "READY"
  <2>1. CASE status[Main] = "BLOCKED"
    <3>1. MakeReady(Main)
      BY <2>1, <1>3 DEF IdleUp
    <3>2. Main \notin Idles
      BY DEF ThreadsInv, StartInv
    <3>3. status \in [Thread -> Status] /\ status' = [status EXCEPT ![Main] = "READY"]
      BY <3>1 DEF ThreadsInv, TypeOK, MakeReady
    <3>4. current' = current /\ thread_ticks' = thread_ticks
      BY <3>1 DEF MakeReady
    <3> QED BY <2>1, <3>1, <3>2, <3>3, <3>4, <1>3, MakeReadyQueues
  <2>2. CASE status[Main] # "BLOCKED"
    BY <2>2 DEF IdleUp, schedVars, ThreadsInv, TypeOK, RunQueueMatchesStatus, Queues
  <2> QED BY <2>1, <2>2
<1>6. TypeOK'
  BY <1>1, <1>2, <1>3, <1>5 DEF ThreadsInv, TypeOK
<1>7. ScheduleFindsThread' /\ RunQueueMatchesStatus'
  BY <1>1, <1>4, <1>5 DEF ScheduleFindsThread, RunQueueMatchesStatus, Queues
<1>8. SleepersBlocked' /\ SleepQueueSorted'
  BY <1>1, <1>3, <1>5 DEF ThreadsInv, SleepersBlocked, SleepQueueSorted
<1>9. FreeInv' /\ SleeperInv'
  BY <1>1, <1>2, <1>3, <1>5 DEF ThreadsInv, FreeInv, SleeperInv
<1>10. NewbornInv'
  <2>1. \A p \in Thread : newborn[p] # NoThread =>
            newborn[p] \in Thread \ {current, Main}
    BY <1>3 DEF ThreadsInv, TypeOK
  <2> QED BY <2>1, <1>1, <1>2, <1>5 DEF ThreadsInv, NewbornInv
<1>11. IdleInv'
  BY <1>1, <1>4, <1>5 DEF ThreadsInv, IdleInv
<1>12. StartInv'
  <2>1. \A t \in Thread : pc'[t] \notin {"new_idle", "up_idle"}
    BY <1>1, <1>2 DEF ThreadsInv, StartInv
  <2> QED BY <2>1, <1>1, <1>2, <1>3, <1>4 DEF ThreadsInv, StartInv
<1>13. BootInv'
  BY <1>1, <1>3, ThreadsAssumption DEF BootInv
<1> QED BY <1>6, <1>7, <1>8, <1>9, <1>10, <1>11, <1>12, <1>13 DEF ThreadsInv

(* thread_unblock() of a thread just created.                                *)
LEMMA CreateUnblockStep ==
    ASSUME ThreadsInv, ThreadCreateUnblock
    PROVE  ThreadsInv'
<1> DEFINE t == newborn[current]
           starting == pc[t] = "new_idle"
           here == IF starting THEN "await_idle" ELSE "run"
<1>1. /\ current \in Thread /\ status[current] = "RUNNING"
      /\ pc[current] = "create"
      /\ MakeReady(t)
      /\ newborn' = [newborn EXCEPT ![current] = NoThread]
      /\ pc' = [pc EXCEPT ![current] = here]
      /\ idle_started' = IF starting THEN 0 ELSE idle_started
      /\ UNCHANGED <<ticks, list_threads, ticks_to_sleep, idle_thread>>
  BY DEF ThreadCreateUnblock, Goto, ThreadsInv, ScheduleFindsThread,
         RunQueueMatchesStatus, timerVars
<1>2. /\ t \in Thread \ {current}
      /\ status[t] = "BLOCKED"
      /\ t \notin ToSet(list_threads)
      /\ pc[t] \in {"run", "new_idle"}
      /\ starting => current = Main
      /\ \A p \in Thread \ {current} : newborn[p] # t
      /\ idle_thread # NoThread
  <2>1. t # NoThread
    BY <1>1 DEF ThreadsInv, NewbornInv
  <2>2. t \in Thread /\ status[t] = "BLOCKED" /\ t \notin ToSet(list_threads)
        /\ pc[t] \in {"run", "new_idle"} /\ (starting => current = Main)
    BY <1>1, <2>1 DEF ThreadsInv, NewbornInv, TypeOK
  <2>3. \A p \in Thread \ {current} : newborn[p] # t
    BY <1>1, <2>1 DEF ThreadsInv, NewbornInv
  <2>4. idle_thread # NoThread
    BY <1>1, NotBooting
  <2> QED BY <2>2, <2>3, <2>4, <1>1
<1> HIDE DEF t
<1>3. /\ pc' \in [Thread -> Location]
      /\ pc'[current] = here
      /\ \A u \in Thread \ {current} : pc'[u] = pc[u]
      /\ newborn' \in [Thread -> Thread \cup {NoThread}]
      /\ newborn'[current] = NoThread
      /\ \A u \in Thread \ {current} : newborn'[u] = newborn[u]
      /\ status' = [status EXCEPT ![t] = "READY"]
      /\ UNCHANGED <<current, thread_ticks>>
  BY <1>1 DEF ThreadsInv, TypeOK, Location, MakeReady
<1>4. /\ status'[t] = "READY"
      /\ \A u \in Thread \ {t} : status'[u] = status[u]
      /\ ToSet(list_threads) \subseteq Thread \ {t, current}
  <2>1. ToSet(list_threads) \subseteq Thread
    BY ToSetSubset DEF ThreadsInv, TypeOK
  <2> QED BY <2>1, <1>1, <1>2, <1>3 DEF ThreadsInv, TypeOK, SleeperInv
<1>5. Idles' = Idles
  BY <1>1, <1>3 DEF Idles
<1>6. /\ ready_list' \in Seq(Thread)
      /\ status' \in [Thread -> Status]
      /\ \A u \in Thread : status'[u] = "RUNNING" <=> u = current
      /\ Queues(ready_list', {u \in Thread : status'[u] = "READY"} \ Idles)
  <2>1. t \notin Idles
    BY <1>2 DEF Idles
  <2> QED BY <2>1, <1>1, <1>2, MakeReadyQueues
<1>7. TypeOK'
  <2>1. idle_started' \in 0 .. 1
    BY <1>1 DEF ThreadsInv, TypeOK
  <2> QED BY <2>1, <1>1, <1>3, <1>6 DEF ThreadsInv, TypeOK
<1>8. ScheduleFindsThread' /\ RunQueueMatchesStatus'
  BY <1>1, <1>3, <1>5, <1>6 DEF ScheduleFindsThread, RunQueueMatchesStatus, Queues
<1>9. SleepersBlocked' /\ SleepQueueSorted'
  BY <1>1, <1>4 DEF ThreadsInv, SleepersBlocked, SleepQueueSorted
<1>10. FreeInv' /\ SleeperInv'
  <2>1. FreeInv'
    BY <1>1, <1>2, <1>3, <1>4, ThreadsAssumption DEF ThreadsInv, FreeInv
  <2>2. SleeperInv'
    BY <1>1, <1>3, <1>4 DEF ThreadsInv, SleeperInv
  <2> QED BY <2>1, <2>2
<1>11. NewbornInv'
  <2>1. ASSUME NEW p \in Thread, newborn'[p] # NoThread
        PROVE  /\ p # current
               /\ newborn'[p] = newborn[p]
               /\ newborn[p] \in Thread \ {t, current}
    BY <2>1, <1>1, <1>2, <1>3 DEF ThreadsInv, NewbornInv, TypeOK
  <2>2. \A p \in Thread : newborn'[p] # NoThread <=> pc'[p] = "create"
    BY <1>1, <1>3 DEF ThreadsInv, NewbornInv
  <2> QED BY <2>1, <2>2, <1>1, <1>3, <1>4 DEF ThreadsInv, NewbornInv
<1>12. IdleInv'
  BY <1>1, <1>3, <1>5 DEF ThreadsInv, IdleInv
<1>13. StartInv'
  <2>1. CASE starting
    <3>1. /\ \A u \in Thread : pc'[u] \in {"new_idle", "up_idle"} <=> u = t
          /\ \A p \in Thread : newborn'[p] # t
          /\ idle_started' = 0 /\ pc'[Main] = "await_idle"
          /\ \A u \in Thread : pc'[u] = "await_idle" <=> u = Main
      BY <2>1, <1>1, <1>2, <1>3, ThreadsAssumption DEF ThreadsInv, StartInv
    <3> QED BY <3>1, <1>5 DEF ThreadsInv, StartInv
  <2>2. CASE ~starting
    <3>1. \A u \in Thread : \A l \in {"new_idle", "up_idle", "await_idle"} :
              pc'[u] = l <=> pc[u] = l
      BY <2>2, <1>1, <1>3
    <3>2. ASSUME NEW u \in Thread, pc[u] \in {"new_idle", "up_idle"}
          PROVE  \/ pc'[Main] = "await_idle" /\ \A p \in Thread : newborn'[p] # u
                 \/ pc'[Main] = "create" /\ newborn'[Main] = u
      <4>1. u # t
        BY <2>2, <3>2, <1>2
      <4>2. CASE pc[Main] = "await_idle" /\ \A p \in Thread : newborn[p] # u
        BY <4>2, <3>1, <1>3, ThreadsAssumption
      <4>3. CASE pc[Main] = "create" /\ newborn[Main] = u
        <5>1. Main # current
          BY <4>1, <4>3 DEF t
        <5> QED BY <4>3, <5>1, <1>3, ThreadsAssumption
      <4> QED BY <3>2, <4>2, <4>3 DEF ThreadsInv, StartInv
    <3> QED BY <2>2, <3>1, <3>2, <1>1, <1>5, ThreadsAssumption DEF ThreadsInv, StartInv
  <2> QED BY <2>1, <2>2
<1>14. BootInv'
  BY <1>1, <1>2 DEF BootInv
<1> QED BY <1>7, <1>8, <1>9, <1>10, <1>11, <1>12, <1>13, <1>14 DEF ThreadsInv

(* thread_unblock() of any other blocked thread.                             *)
LEMMA UnblockStep ==
    ASSUME ThreadsInv, NEW t \in Thread, ThreadUnblock(t)
    PROVE  ThreadsInv'
<1>1. /\ status[t] = "BLOCKED" /\ pc[t] = "run"
      /\ t \notin ToSet(list_threads)
      /\ \A p \in Thread : newborn[p] # t
      /\ MakeReady(t)
      /\ UNCHANGED <<ticks, list_threads, ticks_to_sleep, idle_thread,
                     idle_started, pc, newborn>>
  BY DEF ThreadUnblock, Waiting, timerVars, idleVars
<1>2. /\ status' = [status EXCEPT ![t] = "READY"]
      /\ UNCHANGED <<current, thread_ticks>>
      /\ status \in [Thread -> Status]
      /\ ToSet(list_threads) \subseteq Thread \ {t}
  BY <1>1, ToSetSubset DEF MakeReady, ThreadsInv, TypeOK
<1>3. Idles' = Idles
  BY <1>1 DEF Idles
<1>4. /\ ready_list' \in Seq(Thread)
      /\ status' \in [Thread -> Status]
      /\ \A u \in Thread : status'[u] = "RUNNING" <=> u = current
      /\ Queues(ready_list', {u \in Thread : status'[u] = "READY"} \ Idles)
  <2>1. t \notin Idles
    BY <1>1 DEF Idles
  <2> QED BY <2>1, <1>1, MakeReadyQueues
<1>5. TypeOK'
  BY <1>1, <1>2, <1>4 DEF ThreadsInv, TypeOK
<1>6. ScheduleFindsThread' /\ RunQueueMatchesStatus'
  BY <1>2, <1>3, <1>4 DEF ThreadsInv, ScheduleFindsThread, RunQueueMatchesStatus,
     Queues
<1>7. SleepersBlocked' /\ SleepQueueSorted' /\ SleeperInv'
  BY <1>1, <1>2 DEF ThreadsInv, SleepersBlocked, SleepQueueSorted, SleeperInv
<1>8. FreeInv'
  BY <1>1, <1>2, ThreadsAssumption DEF ThreadsInv, FreeInv
<1>9. NewbornInv'
  BY <1>1, <1>2 DEF ThreadsInv, NewbornInv
<1>10. IdleInv' /\ StartInv'
  BY <1>1, <1>2, <1>3 DEF ThreadsInv, IdleInv, StartInv
<1>11. BootInv'
  BY <1>1, <1>2, ThreadsAssumption DEF ThreadsInv, BootInv
<1> QED BY <1>5, <1>6, <1>7, <1>8, <1>9, <1>10, <1>11 DEF ThreadsInv

(* thread_yield() by a thread in the kernel.                                 *)
LEMMA YieldStep ==
    ASSUME ThreadsInv, ThreadYield
    PROVE  ThreadsInv'
<1> DEFINE st == [status EXCEPT ![current] = "READY"]
<1>1. /\ current \in Thread
      /\ status \in [Thread -> Status]
      /\ ready_list \in Seq(Thread)
      /\ \A t \in Thread : status[t] = "RUNNING" <=> t = current
      /\ Queues(ready_list, {t \in Thread : status[t] = "READY"} \ Idles)
      /\ pc[current] = "run"
      /\ pc \in [Thread -> Location]
      /\ UNCHANGED <<ticks, list_threads, ticks_to_sleep, idle_thread,
                     idle_started, pc, newborn>>
      /\ Yield(status, ready_list)
  BY DEF ThreadsInv, TypeOK, ScheduleFindsThread, RunQueueMatchesStatus, Queues,
         ThreadYield, timerVars, idleVars
<1>2. Switch(st)
  BY <1>1, YieldSwitches
<1>3. /\ st \in [Thread -> Status]
      /\ st[current] = "READY"
      /\ \A t \in Thread \ {current} : st[t] = status[t]
      /\ \A t \in ToSet(list_threads) : st[t] = "BLOCKED" /\ pc[t] = "run"
  <2>1. ToSet(list_threads) \subseteq Thread
    BY ToSetSubset DEF ThreadsInv, TypeOK
  <2> QED BY <2>1, <1>1 DEF Status, ThreadsInv, SleepersBlocked, SleeperInv
<1> HIDE DEF st
<1>4. /\ ScheduleFindsThread'
      /\ RunQueueMatchesStatus'
      /\ \A t \in ToSet(list_threads') : status'[t] = "BLOCKED"
      /\ FreeInv' /\ NewbornInv' /\ SleeperInv'
      /\ IdleInv' /\ StartInv' /\ BootInv'
  BY <1>1, <1>2, <1>3, SwitchKeeps
<1>5. TypeOK'
  BY <1>1, <1>2, ThreadsAssumption DEF Switch, ThreadsInv, TypeOK
<1>6. SleepersBlocked' /\ SleepQueueSorted'
  BY <1>1, <1>4 DEF ThreadsInv, SleepersBlocked, SleepQueueSorted
<1> QED BY <1>4, <1>5, <1>6 DEF ThreadsInv
=============================================================================
