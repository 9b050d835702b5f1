--------------------------- MODULE ThreadsProofs ---------------------------
(***************************************************************************)
(* Theorems about Threads, for any number of threads, any length of the    *)
(* time slice and any delays.  ScheduleProofs has the invariant and the    *)
(* lemmas on thread.c; those on devices/timer.c are here.                  *)
(***************************************************************************)
EXTENDS ScheduleProofs

(* timer_sleep() up to the insertion in the sleep queue.                     *)
LEMMA SleepStep ==
    ASSUME ThreadsInv, NEW d \in Int, TimerSleep(d)
    PROVE  ThreadsInv'
<1>1. /\ current \in Thread /\ status[current] = "RUNNING"
      /\ pc[current] = "run"
      /\ ticks_to_sleep' = [ticks_to_sleep EXCEPT ![current] = ticks + d]
      /\ pc' = [pc EXCEPT ![current] = "sleep"]
      /\ UNCHANGED <<current, status, ready_list, thread_ticks, ticks,
                     list_threads, idle_thread, idle_started, newborn>>
      /\ TypeOK
  BY DEF ThreadsInv, ScheduleFindsThread, RunQueueMatchesStatus, TimerSleep,
         Goto, schedVars, idleVars
<1>2. /\ pc' \in [Thread -> Location]
      /\ pc'[current] = "sleep"
      /\ \A t \in Thread \ {current} : pc'[t] = pc[t]
      /\ \A t \in Thread \ {current} : ticks_to_sleep'[t] = ticks_to_sleep[t]
      /\ ticks_to_sleep' \in [Thread -> Int]
      /\ ToSet(list_threads) \subseteq Thread \ {current}
  <2>1. ToSet(list_threads) \subseteq Thread \ {current}
    BY <1>1, ToSetSubset DEF ThreadsInv, TypeOK, SleepersBlocked
  <2>2. ticks + d \in Int
    BY <1>1 DEF TypeOK
  <2> QED BY <2>1, <2>2, <1>1 DEF TypeOK, Location
<1>3. Idles' = Idles
  BY <1>1, <1>2 DEF Idles
<1>4. TypeOK'
  BY <1>1, <1>2 DEF TypeOK
<1>5. ScheduleFindsThread' /\ RunQueueMatchesStatus' /\ SleepersBlocked'
  BY <1>1, <1>3 DEF ThreadsInv, ScheduleFindsThread, RunQueueMatchesStatus,
     SleepersBlocked
<1>6. SleepQueueSorted'
  <2>1. ASSUME NEW i \in 1 .. Len(list_threads)
        PROVE  ticks_to_sleep'[list_threads[i]] = ticks_to_sleep[list_threads[i]]
    <3>1. list_threads[i] \in ToSet(list_threads)
      BY <1>1, ToSetByIndex DEF TypeOK
    <3> QED BY <3>1, <1>2
  <2> QED BY <2>1, <1>1 DEF ThreadsInv, SleepQueueSorted
<1>7. FreeInv' /\ SleeperInv'
  BY <1>1, <1>2 DEF ThreadsInv, FreeInv, SleeperInv
<1>8. NewbornInv'
  <2>1. \A p \in Thread : newborn[p] # NoThread => newborn[p] \in Thread \ {current}
    BY <1>1 DEF ThreadsInv, NewbornInv, TypeOK
  <2> QED BY <2>1, <1>1, <1>2 DEF ThreadsInv, NewbornInv
<1>9. IdleInv'
  BY <1>1, <1>3 DEF ThreadsInv, IdleInv
<1>10. StartInv'
  <2>1. \A t \in Thread : \A l \in {"new_idle", "up_idle", "await_idle", "create"} :
            pc'[t] = l <=> pc[t] = l
    BY <1>1, <1>2
  <2> QED BY <2>1, <1>1, <1>3, ThreadsAssumption DEF ThreadsInv, StartInv
<1>11. BootInv'
  BY <1>1, NotBooting DEF BootInv
<1> QED BY <1>4, <1>5, <1>6, <1>7, <1>8, <1>9, <1>10, <1>11 DEF ThreadsInv

(* list_insert_ordered() keeps the sleep queue sorted.                       *)
LEMMA InsertOrderedSorts ==
    ASSUME ThreadsInv, NEW t \in Thread, t \notin ToSet(list_threads)
    PROVE  LET r == InsertOrdered(t)
           IN  /\ r \in Seq(Thread)
               /\ Queues(r, ToSet(list_threads) \cup {t})
               /\ \A i, j \in 1 .. Len(r) :
                      i < j => ticks_to_sleep[r[i]] <= ticks_to_sleep[r[j]]
<1> DEFINE q == list_threads
           n == Len(q)
           D(u) == ticks_to_sleep[u]
           later == {i \in 1 .. n : D(t) < D(q[i])}
           p == IF later = {} THEN n + 1
                ELSE CHOOSE i \in later : \A j \in later : i <= j
           r == InsertAt(q, p, t)
<1>1. /\ q \in Seq(Thread)
      /\ n \in Nat
      /\ \A i \in 1 .. n : q[i] \in Thread
      /\ \A u \in Thread : D(u) \in Int
      /\ \A i, j \in 1 .. n : i < j => D(q[i]) <= D(q[j])
      /\ Queues(q, ToSet(q))
  BY LenProperties, ElementOfSeq
     DEF ThreadsInv, TypeOK, SleepQueueSorted, SleepersBlocked, Queues
<1> HIDE DEF n, D
<1>2. /\ p \in 1 .. n + 1
      /\ \A i \in 1 .. p - 1 : ~(D(t) < D(q[i]))
      /\ p <= n => D(t) < D(q[p])
  <2>1. CASE later = {}
    <3>1. p = n + 1
      BY <2>1
    <3>2. \A i \in 1 .. n : ~(D(t) < D(q[i]))
      BY <2>1
    <3> HIDE DEF p
    <3>3. p - 1 = n /\ ~(p <= n) /\ p \in 1 .. n + 1
      BY <3>1, <1>1
    <3> QED BY <3>2, <3>3
  <2>2. CASE later # {}
    <3>1. later \subseteq Nat
      BY <1>1
    <3>2. \E i \in later : \A j \in later : i <= j
      BY <2>2, <3>1, LeastNat
    <3>3. p \in later /\ \A j \in later : p <= j
      BY <2>2, <3>2
    <3> HIDE DEF p
    <3>4. ASSUME NEW i \in 1 .. p - 1 PROVE ~(D(t) < D(q[i]))
      <4>1. i \in 1 .. n /\ ~(p <= i)
        BY <3>3, <1>1
      <4> QED BY <4>1, <3>3
    <3> QED BY <3>3, <3>4, <1>1
  <2> QED BY <2>1, <2>2
<1>3. InsertOrdered(t) = r
  BY DEF InsertOrdered, n, D
<1> HIDE DEF p
<1>4. /\ r \in Seq(Thread)
      /\ Len(r) = n + 1
      /\ \A i \in 1 .. p - 1 : r[i] = q[i]
      /\ r[p] = t
      /\ \A i \in p + 1 .. n + 1 : r[i] = q[i - 1]
      /\ Queues(r, ToSet(q) \cup {t})
  BY <1>1, <1>2, QueuesInsert DEF n
<1> HIDE DEF r
<1>5. ASSUME NEW i \in 1 .. n + 1, NEW j \in 1 .. n + 1, i < j
      PROVE  D(r[i]) <= D(r[j])
  <2>1. CASE j < p
    <3>1. /\ i \in 1 .. p - 1 /\ j \in 1 .. p - 1
          /\ i \in 1 .. n /\ j \in 1 .. n
      BY <2>1, <1>1, <1>2, <1>5
    <3> QED BY <3>1, <1>1, <1>4, <1>5
  <2>2. CASE j = p
    <3>1. i \in 1 .. p - 1 /\ i \in 1 .. n
      BY <2>2, <1>1, <1>2, <1>5
    <3>2. D(q[i]) <= D(t)
      BY <3>1, <1>1, <1>2
    <3> QED BY <2>2, <3>1, <3>2, <1>4
  <2>3. CASE p < j
    <3>1. j \in p + 1 .. n + 1 /\ j - 1 \in 1 .. n /\ p \in 1 .. n
      BY <2>3, <1>1, <1>2
    <3>2. r[j] = q[j - 1]
      BY <3>1, <1>4
    <3>3. D(t) < D(q[p]) /\ (p < j - 1 => D(q[p]) <= D(q[j - 1]))
      BY <3>1, <1>1, <1>2
    <3>4. D(t) <= D(q[j - 1])
      <4>1. D(t) \in Int /\ D(q[p]) \in Int /\ D(q[j - 1]) \in Int
        BY <3>1, <1>1
      <4>2. p = j - 1 \/ p < j - 1
        BY <3>1, <1>1
      <4> QED BY <4>1, <4>2, <3>3
    <3>5. CASE i < p
      <4>1. i \in 1 .. p - 1 /\ i \in 1 .. n /\ i < j - 1
        BY <3>1, <3>5, <1>1
      <4> QED BY <4>1, <3>1, <3>2, <1>1, <1>4
    <3>6. CASE i = p
      BY <3>2, <3>4, <3>6, <1>4
    <3>7. CASE p < i
      <4>1. i \in p + 1 .. n + 1 /\ i - 1 \in 1 .. n /\ i - 1 < j - 1
        BY <3>1, <3>7, <1>1, <1>5
      <4> QED BY <4>1, <3>1, <3>2, <1>1, <1>4
    <3> QED BY <3>5, <3>6, <3>7, <1>1, <1>2
  <2> QED BY <2>1, <2>2, <2>3, <1>1, <1>2
<1> QED BY <1>3, <1>4, <1>5 DEF D

(* timer_sleep() inserts the thread in the sleep queue and blocks it.        *)
LEMMA SleepBlockStep ==
    ASSUME ThreadsInv, TimerSleepBlock
    PROVE  ThreadsInv'
<1> DEFINE st == [status EXCEPT ![current] = "BLOCKED"]
<1>1. /\ current \in Thread /\ status[current] = "RUNNING"
      /\ pc[current] = "sleep"
      /\ list_threads' = InsertOrdered(current)
      /\ Deschedule("BLOCKED")
      /\ pc' = [pc EXCEPT ![current] = "run"]
      /\ UNCHANGED <<ticks, ticks_to_sleep, idle_thread, idle_started, newborn>>
      /\ TypeOK
  BY DEF ThreadsInv, ScheduleFindsThread, RunQueueMatchesStatus, TimerSleepBlock,
         Goto, idleVars
<1>2. Switch(st)
  <2>1. idle_thread # NoThread
    BY <1>1, NotBooting
  <2> QED BY <1>1, <2>1, DescheduleSwitches
<1>3. /\ ToSet(list_threads) \subseteq Thread \ {current}
      /\ \A t \in ToSet(list_threads) : status[t] = "BLOCKED" /\ pc[t] = "run"
  BY <1>1, ToSetSubset DEF ThreadsInv, TypeOK, SleepersBlocked, SleeperInv
<1>4. /\ list_threads' \in Seq(Thread)
      /\ Queues(list_threads', ToSet(list_threads) \cup {current})
      /\ \A i, j \in 1 .. Len(list_threads') :
             i < j => ticks_to_sleep[list_threads'[i]]
                        <= ticks_to_sleep[list_threads'[j]]
  <2>1. current \notin ToSet(list_threads)
    BY <1>3
  <2> QED BY <2>1, <1>1, InsertOrderedSorts
<1>5. /\ pc' \in [Thread -> Location]
      /\ pc'[current] = "run"
      /\ \A t \in Thread \ {current} : pc'[t] = pc[t]
      /\ st \in [Thread -> Status]
      /\ st[current] = "BLOCKED"
      /\ \A t \in Thread \ {current} : st[t] = status[t]
  BY <1>1 DEF TypeOK, Location, Status
<1>6. \A t \in ToSet(list_threads') : st[t] = "BLOCKED" /\ pc'[t] = "run"
  BY <1>3, <1>4, <1>5 DEF Queues
<1> HIDE DEF st
<1>7. ToSet(list_threads') \subseteq ToSet(list_threads) \cup {current}
  BY <1>4 DEF Queues
<1>8. /\ ScheduleFindsThread'
      /\ RunQueueMatchesStatus'
      /\ \A t \in ToSet(list_threads') : status'[t] = "BLOCKED"
      /\ FreeInv' /\ NewbornInv' /\ SleeperInv'
      /\ IdleInv' /\ StartInv' /\ BootInv'
  BY <1>1, <1>2, <1>5, <1>6, <1>7, SwitchKeeps
<1>9. TypeOK'
  BY <1>1, <1>2, <1>4, <1>5, ThreadsAssumption DEF Switch, TypeOK
<1>10. SleepersBlocked' /\ SleepQueueSorted'
  BY <1>1, <1>4, <1>8 DEF SleepersBlocked, SleepQueueSorted, Queues
<1> QED BY <1>8, <1>9, <1>10 DEF ThreadsInv

(* The loop of timer_interrupt() stops.                                      *)
LEMMA DueCountExists ==
    ASSUME ThreadsInv, NEW now \in Int
    PROVE  LET k == DueCount(now)
           IN  /\ k \in 0 .. Len(list_threads)
               /\ \A i \in 1 .. k : ticks_to_sleep[list_threads[i]] <= now
               /\ k < Len(list_threads) =>
                      now < ticks_to_sleep[list_threads[k + 1]]
<1> DEFINE q == list_threads
           n == Len(q)
           D(i) == ticks_to_sleep[q[i]]
           late == {i \in 1 .. n : now < D(i)}
           Good(k) == /\ \A i \in 1 .. k : D(i) <= now
                      /\ k < n => now < D(k + 1)
<1>1. n \in Nat /\ \A i \in 1 .. n : D(i) \in Int
  BY LenProperties, ElementOfSeq DEF ThreadsInv, TypeOK
<1> HIDE DEF n, D
<1>2. \E k \in 0 .. n : Good(k)
  <2>1. CASE late = {}
    <3>1. n \in 0 .. n /\ Good(n)
      BY <2>1, <1>1
    <3> QED BY <3>1
  <2>2. CASE late # {}
    <3>1. PICK m \in late : \A j \in late : m <= j
      <4>1. late \subseteq Nat
        BY <1>1
      <4> QED BY <2>2, <4>1, LeastNat
    <3>2. m - 1 \in 0 .. n /\ m - 1 + 1 = m /\ now < D(m)
      BY <3>1, <1>1
    <3>3. ASSUME NEW i \in 1 .. m - 1 PROVE D(i) <= now
      <4>1. i \in 1 .. n /\ ~(m <= i)
        BY <3>1, <1>1
      <4> QED BY <4>1, <3>1, <1>1
    <3>4. Good(m - 1)
      BY <3>2, <3>3
    <3> QED BY <3>2, <3>4
  <2> QED BY <2>1, <2>2
<1>3. DueCount(now) = CHOOSE k \in 0 .. n : Good(k)
  BY DEF DueCount, n, D
<1> HIDE DEF Good
<1>4. DueCount(now) \in 0 .. n /\ Good(DueCount(now))
  BY <1>2, <1>3
<1> QED BY <1>4 DEF Good, n, D

(* The timer interrupt: threads are woken, and the slice may end.            *)
LEMMA TimerInterruptStep ==
    ASSUME ThreadsInv, TimerInterrupt
    PROVE  ThreadsInv'
<1> DEFINE now   == IF ticks < Horizon THEN ticks + 1 ELSE ticks
           k     == DueCount(now)
           woken == SubSeq(list_threads, 1, k)
           rest  == SubSeq(list_threads, k + 1, Len(list_threads))
           rl    == ready_list \o woken
           st    == [t \in Thread |-> IF t \in ToSet(woken) THEN "READY"
                                      ELSE status[t]]
           Ready == {t \in Thread : status[t] = "READY"} \ Idles
<1>1. /\ ticks' = now
      /\ list_threads' = rest
      /\ IF thread_ticks + 1 >= TIME_SLICE
           THEN Yield(st, rl)
           ELSE /\ ready_list' = rl
                /\ status' = st
                /\ thread_ticks' = thread_ticks + 1
                /\ UNCHANGED current
      /\ UNCHANGED <<ticks_to_sleep, idle_thread, idle_started, pc, newborn>>
  BY DEF TimerInterrupt, idleVars
<1>2. /\ TypeOK
      /\ current \in Thread
      /\ \A t \in Thread : status[t] = "RUNNING" <=> t = current
      /\ Queues(ready_list, Ready)
      /\ Queues(list_threads, ToSet(list_threads))
      /\ ToSet(list_threads) \subseteq Thread
      /\ \A t \in ToSet(list_threads) : status[t] = "BLOCKED" /\ pc[t] = "run"
  BY ToSetSubset DEF ThreadsInv, TypeOK, ScheduleFindsThread, Queues,
     RunQueueMatchesStatus, SleepersBlocked, SleeperInv
<1>3. now \in 0 .. Horizon /\ now \in Int
  BY <1>2, ThreadsAssumption DEF TypeOK
<1>4. k \in 0 .. Len(list_threads)
  <2> HIDE DEF now
  <2> QED BY <1>3, DueCountExists
<1> HIDE DEF now, k
<1>5. /\ woken \in Seq(Thread) /\ rest \in Seq(Thread)
      /\ Len(rest) = Len(list_threads) - k
      /\ \A i \in 1 .. Len(list_threads) - k : rest[i] = list_threads[i + k]
      /\ Queues(woken, ToSet(woken))
      /\ Queues(rest, ToSet(rest))
      /\ ToSet(woken) \cup ToSet(rest) = ToSet(list_threads)
      /\ ToSet(woken) \cap ToSet(rest) = {}
  <2>1. list_threads \in Seq(Thread)
    BY <1>2 DEF TypeOK
  <2>2. Queues(list_threads, ToSet(list_threads))
    BY <1>2
  <2> HIDE DEF st, rl, Ready
  <2>3. Splits(woken, rest, list_threads, k, Thread, ToSet(list_threads))
    BY <2>1, <2>2, <1>4, QueuesSplit
  <2> HIDE DEF woken, rest
  <2> QED BY <2>3 DEF Splits
<1> HIDE DEF woken, rest
<1>6. /\ st \in [Thread -> Status]
      /\ \A t \in Thread : st[t] = IF t \in ToSet(woken) THEN "READY" ELSE status[t]
      /\ \A t \in Thread : st[t] = "RUNNING" <=> t = current
      /\ \A t \in ToSet(rest) : t \in Thread /\ st[t] = "BLOCKED" /\ pc[t] = "run"
  BY <1>2, <1>5 DEF TypeOK, Status
<1>7. {t \in Thread : st[t] = "READY"} \ Idles = Ready \cup ToSet(woken)
  BY <1>2, <1>5, <1>6, Zenon DEF Idles
<1>8. rl \in Seq(Thread) /\ Queues(rl, {t \in Thread : st[t] = "READY"} \ Idles)
  <2>1. Ready \cap ToSet(woken) = {}
    BY <1>2, <1>5
  <2>2. ready_list \in Seq(Thread)
    BY <1>2 DEF TypeOK
  <2>3. rl \in Seq(Thread) /\ Queues(rl, Ready \cup ToSet(woken))
    <3> HIDE DEF Ready
    <3> QED BY <2>1, <2>2, <1>2, <1>5, QueuesConcat
  <2> QED BY <2>3, <1>7
<1> HIDE DEF st, rl
<1>9. SleepQueueSorted'
  <2>1. ASSUME NEW i \in 1 .. Len(rest), NEW j \in 1 .. Len(rest), i < j
        PROVE  ticks_to_sleep[rest[i]] <= ticks_to_sleep[rest[j]]
    <3>1. /\ rest[i] = list_threads[i + k] /\ rest[j] = list_threads[j + k]
          /\ i + k \in 1 .. Len(list_threads) /\ j + k \in 1 .. Len(list_threads)
          /\ i + k < j + k
      <4>1. Len(list_threads) \in Nat
        BY <1>2, LenProperties DEF TypeOK
      <4> QED BY <4>1, <2>1, <1>4, <1>5
    <3> QED BY <3>1 DEF ThreadsInv, SleepQueueSorted
  <2> QED BY <2>1, <1>1 DEF SleepQueueSorted
<1>10. CASE thread_ticks + 1 >= TIME_SLICE
  <2> DEFINE st1 == [st EXCEPT ![current] = "READY"]
  <2>1. Switch(st1)
    BY <1>1, <1>6, <1>8, <1>10, YieldSwitches
  <2>2. /\ st1 \in [Thread -> Status]
        /\ st1[current] = "READY"
        /\ \A t \in Thread \ {current} : st1[t] = st[t]
        /\ \A t \in Thread \ {current} :
               \/ st1[t] = status[t]
               \/ t \in ToSet(list_threads) /\ st1[t] = "READY"
        /\ \A t \in ToSet(rest) : st1[t] = "BLOCKED" /\ pc[t] = "run"
    BY <1>2, <1>5, <1>6 DEF Status
  <2> HIDE DEF st1
  <2>3. pc \in [Thread -> Location]
    BY <1>2 DEF TypeOK
  <2>4. ToSet(list_threads') \subseteq ToSet(list_threads) \cup {current}
    BY <1>1, <1>5
  <2>5. /\ ScheduleFindsThread'
        /\ RunQueueMatchesStatus'
        /\ \A t \in ToSet(list_threads') : status'[t] = "BLOCKED"
        /\ FreeInv' /\ NewbornInv' /\ SleeperInv'
        /\ IdleInv' /\ StartInv' /\ BootInv'
    BY <1>1, <2>1, <2>2, <2>3, <2>4, SwitchKeeps, Zenon
  <2>6. TypeOK'
    <3>1. /\ current' \in Thread /\ status' \in [Thread -> Status]
          /\ ready_list' \in Seq(Thread) /\ thread_ticks' = 0
      BY <2>1 DEF Switch
    <3>2. thread_ticks' \in 0 .. TIME_SLICE - 1
      BY <3>1, ThreadsAssumption
    <3>3. /\ ticks' \in 0 .. Horizon /\ list_threads' \in Seq(Thread)
          /\ UNCHANGED <<ticks_to_sleep, idle_thread, idle_started, pc, newborn>>
      BY <1>1, <1>3, <1>5
    <3> HIDE DEF Ready
    <3> QED BY <3>1, <3>2, <3>3, <1>2 DEF TypeOK
  <2>7. SleepersBlocked'
    BY <1>1, <1>5, <2>5 DEF SleepersBlocked, Queues
  <2> QED BY <2>5, <2>6, <2>7, <1>9 DEF ThreadsInv
<1>11. CASE ~(thread_ticks + 1 >= TIME_SLICE)
  <2>1. /\ ready_list' = rl
        /\ status' = st
        /\ thread_ticks' \in 0 .. TIME_SLICE - 1
        /\ current' = current
    BY <1>1, <1>2, <1>11, ThreadsAssumption DEF TypeOK
  <2>2. Idles' = Idles
    BY <1>1 DEF Idles
  <2>3. TypeOK'
    BY <2>1, <1>1, <1>2, <1>3, <1>5, <1>6, <1>8 DEF TypeOK
  <2>4. ScheduleFindsThread' /\ RunQueueMatchesStatus'
    BY <2>1, <2>2, <1>2, <1>6, <1>8
       DEF ScheduleFindsThread, RunQueueMatchesStatus, Queues
  <2>5. SleepersBlocked' /\ SleeperInv'
    BY <2>1, <1>1, <1>5, <1>6 DEF SleepersBlocked, SleeperInv, Queues
  <2>6. FreeInv'
    BY <2>1, <1>1, <1>6, ThreadsAssumption DEF ThreadsInv, FreeInv
  <2>7. NewbornInv'
    <3>1. ASSUME NEW p \in Thread, newborn[p] # NoThread
          PROVE  st[newborn[p]] = "BLOCKED" /\ newborn[p] \notin ToSet(rest)
      <4>1. /\ newborn[p] \in Thread
            /\ status[newborn[p]] = "BLOCKED"
            /\ newborn[p] \notin ToSet(list_threads)
        BY <3>1, <1>2 DEF ThreadsInv, NewbornInv, TypeOK
      <4>2. newborn[p] \notin ToSet(woken) /\ newborn[p] \notin ToSet(rest)
        BY <4>1, <1>5, Zenon
      <4> QED BY <4>1, <4>2, <1>6
    <3> QED BY <3>1, <2>1, <1>1 DEF ThreadsInv, NewbornInv
  <2>8. IdleInv' /\ StartInv'
    BY <2>1, <2>2, <1>1 DEF ThreadsInv, IdleInv, StartInv
  <2>9. BootInv'
    <3>1. ASSUME idle_thread = NoThread, NEW t \in Thread
          PROVE  st[t] = status[t] \/ t = Main
      BY <3>1, <1>2, <1>5, <1>6 DEF ThreadsInv, BootInv
    <3> QED BY <3>1, <2>1, <1>1, ThreadsAssumption DEF ThreadsInv, BootInv
  <2> QED BY <2>3, <2>4, <2>5, <2>6, <2>7, <2>8, <2>9, <1>9 DEF ThreadsInv
<1> QED BY <1>10, <1>11

-----------------------------------------------------------------------------
(* The invariant holds when thread_init() has returned.                      *)
LEMMA InitInv == Init => ThreadsInv
<1> SUFFICES ASSUME Init PROVE ThreadsInv
  OBVIOUS
<1> USE ThreadsAssumption
<1>1. Idles = {} /\ ready_list \in Seq(Thread) /\ list_threads \in Seq(Thread)
      /\ Len(list_threads) = 0
  BY DEF Init, Idles
<1>2. ToSet(list_threads) = {}
  <2>1. 1 .. Len(list_threads) = {}
    BY <1>1
  <2> QED BY <1>1, <2>1, ToSetByIndex
<1>3. TypeOK /\ ScheduleFindsThread
  BY <1>1 DEF Init, TypeOK, ScheduleFindsThread, Status, Location
<1>4. RunQueueMatchesStatus
  <2>1. Queues(ready_list, {FirstIdle})
    BY QueuesOne DEF Init
  <2>2. {t \in Thread : status[t] = "READY"} = {FirstIdle}
    BY DEF Init
  <2>3. \A t \in Thread : status[t] = "RUNNING" <=> t = current
    BY DEF Init
  <2> QED BY <2>1, <2>2, <2>3, <1>1 DEF RunQueueMatchesStatus, Queues
<1>5. SleepersBlocked /\ SleepQueueSorted /\ SleeperInv
  <2>1. 1 .. Len(list_threads) = {}
    BY <1>1
  <2>2. IsInjective(list_threads)
    BY <1>1, <2>1, InjectiveByIndex
  <2> QED BY <2>1, <2>2, <1>2 DEF SleepersBlocked, SleepQueueSorted, SleeperInv
<1>6. FreeInv /\ NewbornInv /\ BootInv
  BY DEF Init, FreeInv, NewbornInv, BootInv
<1>7. IdleInv /\ StartInv
  BY <1>1 DEF Init, IdleInv, StartInv
<1> QED BY <1>3, <1>4, <1>5, <1>6, <1>7 DEF ThreadsInv

(* Every step preserves the invariant.                                       *)
LEMMA NextInv == ThreadsInv /\ [Next]_threadVars => ThreadsInv'
<1> SUFFICES ASSUME ThreadsInv, [Next]_threadVars PROVE ThreadsInv'
  OBVIOUS
<1>1. CASE Create
  BY <1>1, CreateStep DEF Create
<1>2. CASE ThreadCreateUnblock
  BY <1>2, CreateUnblockStep
<1>3. CASE AwaitIdle
  BY <1>3, AwaitIdleStep
<1>4. CASE IdleRegister
  BY <1>4, IdleRegisterStep
<1>5. CASE IdleUp
  BY <1>5, IdleUpStep
<1>6. CASE IdleLoop
  BY <1>6, NotBooting, DescheduleStep DEF IdleLoop
<1>7. CASE ThreadBlock
  BY <1>7, NotBooting, DescheduleStep DEF ThreadBlock
<1>8. CASE Unblock
  BY <1>8, UnblockStep DEF Unblock
<1>9. CASE ThreadYield
  BY <1>9, YieldStep
<1>10. CASE ThreadExit
  BY <1>10, NotBooting, DescheduleStep DEF ThreadExit
<1>11. CASE Sleep
  BY <1>11, SleepStep, ThreadsAssumption DEF Sleep
<1>12. CASE TimerSleepBlock
  BY <1>12, SleepBlockStep
<1>13. CASE TimerInterrupt
  BY <1>13, TimerInterruptStep
<1>14. CASE UNCHANGED threadVars
  <2>1. UNCHANGED <<current, status, ready_list, thread_ticks, ticks,
                    list_threads, ticks_to_sleep, idle_thread, idle_started,
                    pc, newborn>>
    BY <1>14 DEF threadVars, schedVars, timerVars, idleVars
  <2>2. Idles' = Idles
    BY <2>1 DEF Idles
  <2>3. TypeOK' /\ ScheduleFindsThread' /\ RunQueueMatchesStatus'
    BY <2>1, <2>2 DEF ThreadsInv, TypeOK, ScheduleFindsThread,
       RunQueueMatchesStatus
  <2>4. SleepersBlocked' /\ SleepQueueSorted' /\ SleeperInv'
    BY <2>1, Zenon DEF ThreadsInv, SleepersBlocked, SleepQueueSorted, SleeperInv
  <2>5. FreeInv' /\ NewbornInv'
    BY <2>1 DEF ThreadsInv, FreeInv, NewbornInv
  <2>6. IdleInv' /\ StartInv' /\ BootInv'
    BY <2>1, <2>2 DEF ThreadsInv, IdleInv, StartInv, BootInv
  <2> QED BY <2>3, <2>4, <2>5, <2>6 DEF ThreadsInv
<1> QED BY <1>1, <1>2, <1>3, <1>4, <1>5, <1>6, <1>7, <1>8, <1>9, <1>10, <1>11,
           <1>12, <1>13, <1>14 DEF Next

(* The inductive invariant holds in every reachable state.                   *)
THEOREM ThreadsInvariant == Spec => []ThreadsInv
<1>1. Init => ThreadsInv
  BY InitInv
<1>2. ThreadsInv /\ [Next]_threadVars => ThreadsInv'
  BY NextInv
<1> QED BY <1>1, <1>2, PTL DEF Spec

(* The variables of thread.c and timer.c keep their types; in particular the *)
(* interrupt that uses up a time slice always starts a new one.              *)
THEOREM TypeCorrect == Spec => []TypeOK
<1>1. ThreadsInv => TypeOK
  BY DEF ThreadsInv
<1> QED BY <1>1, ThreadsInvariant, PTL

(* schedule() finds a thread to run in every state, from boot on, for any    *)
(* number of threads: its ASSERT (is_thread (next)) never fails.             *)
THEOREM ScheduleCorrect == Spec => []ScheduleFindsThread
<1>1. ThreadsInv => ScheduleFindsThread
  BY DEF ThreadsInv
<1> QED BY <1>1, ThreadsInvariant, PTL

(* The run queue and the statuses agree in every state: the running thread   *)
(* is the RUNNING one, and the READY threads that are not idle threads are   *)
(* queued, each once.                                                        *)
THEOREM RunQueueCorrect == Spec => []RunQueueMatchesStatus
<1>1. ThreadsInv => RunQueueMatchesStatus
  BY DEF ThreadsInv
<1> QED BY <1>1, ThreadsInvariant, PTL

(* The sleep queue holds BLOCKED threads only, each once, and is sorted by   *)
(* deadline, so that timer_interrupt() may stop at the first later one.      *)
THEOREM SleepQueueCorrect == Spec => [](SleepersBlocked /\ SleepQueueSorted)
<1>1. ThreadsInv => SleepersBlocked /\ SleepQueueSorted
  BY DEF ThreadsInv
<1> QED BY <1>1, ThreadsInvariant, PTL

-----------------------------------------------------------------------------
(* A step of timer_interrupt() wakes the threads that are due, and no other. *)
LEMMA TickWakes ==
    ASSUME ThreadsInv, TimerInterrupt
    PROVE  /\ \A t \in ToSet(list_threads) \ ToSet(list_threads') :
                  ticks_to_sleep[t] <= ticks'
           /\ \A t \in ToSet(list_threads') : ticks' < ticks_to_sleep[t]
<1> DEFINE q     == list_threads
           now   == IF ticks < Horizon THEN ticks + 1 ELSE ticks
           k     == DueCount(now)
           woken == SubSeq(q, 1, k)
           rest  == SubSeq(q, k + 1, Len(q))
<1>1. /\ ticks' = now /\ list_threads' = rest
      /\ q \in Seq(Thread) /\ Len(q) \in Nat
      /\ Queues(q, ToSet(q))
      /\ now \in Int
      /\ \A i \in 1 .. Len(q) : ticks_to_sleep[q[i]] \in Int
  BY LenProperties, ElementOfSeq, ThreadsAssumption
     DEF TimerInterrupt, ThreadsInv, TypeOK, SleepersBlocked, Queues
<1> HIDE DEF now
<1>2. /\ k \in 0 .. Len(q)
      /\ \A i \in 1 .. k : ticks_to_sleep[q[i]] <= now
      /\ k < Len(q) => now < ticks_to_sleep[q[k + 1]]
  BY <1>1, DueCountExists
<1> HIDE DEF k
<1>3. /\ woken \in Seq(Thread) /\ rest \in Seq(Thread)
      /\ Len(woken) = k /\ Len(rest) = Len(q) - k
      /\ \A i \in 1 .. k : woken[i] = q[i]
      /\ \A i \in 1 .. Len(q) - k : rest[i] = q[i + k]
      /\ ToSet(woken) \cup ToSet(rest) = ToSet(q)
  <2>1. Splits(woken, rest, q, k, Thread, ToSet(q))
    BY <1>1, <1>2, QueuesSplit
  <2> HIDE DEF woken, rest, q
  <2> QED BY <2>1 DEF Splits
<1> HIDE DEF woken, rest
<1>4. ASSUME NEW t \in ToSet(q) \ ToSet(rest) PROVE ticks_to_sleep[t] <= now
  <2>1. PICK i \in 1 .. Len(woken) : woken[i] = t
    BY <1>3, ToSetByIndex
  <2> QED BY <2>1, <1>2, <1>3
<1>5. ASSUME NEW t \in ToSet(rest) PROVE now < ticks_to_sleep[t]
  <2>1. PICK i \in 1 .. Len(rest) : rest[i] = t
    BY <1>3, ToSetByIndex
  <2>2. /\ i + k \in 1 .. Len(q) /\ k + 1 \in 1 .. Len(q) /\ k < Len(q)
        /\ t = q[i + k]
        /\ k + 1 = i + k \/ k + 1 < i + k
    BY <2>1, <1>1, <1>2, <1>3
  <2>3. k + 1 < i + k => ticks_to_sleep[q[k + 1]] <= ticks_to_sleep[q[i + k]]
    BY <2>2 DEF ThreadsInv, SleepQueueSorted
  <2> QED BY <2>2, <2>3, <1>1, <1>2
<1> QED BY <1>1, <1>4, <1>5

(* A tick wakes exactly the threads whose time has come, for any number of   *)
(* sleeping threads and any deadlines.                                       *)
THEOREM TickCorrect == Spec => TickWakesAllDue
<1>1. ASSUME ThreadsInv, [Next]_threadVars
      PROVE  [/\ \A t \in ToSet(list_threads) \ ToSet(list_threads') :
                     ticks_to_sleep[t] <= ticks'
              /\ ticks' # ticks =>
                     \A t \in ToSet(list_threads') : ticks' < ticks_to_sleep[t]
             ]_threadVars
  <2>1. CASE TimerInterrupt
    BY <2>1, <1>1, TickWakes
  <2>2. CASE TimerSleepBlock
    <3>1. ToSet(list_threads') = ToSet(list_threads) \cup {current}
      <4>1. current \in Thread /\ current \notin ToSet(list_threads)
        BY <1>1 DEF ThreadsInv, ScheduleFindsThread, SleepersBlocked,
                    RunQueueMatchesStatus
      <4> QED BY <4>1, <1>1, <2>2, InsertOrderedSorts DEF TimerSleepBlock, Queues
    <3>2. ticks' = ticks
      BY <2>2 DEF TimerSleepBlock
    <3> QED BY <3>1, <3>2
  <2>3. CASE UNCHANGED <<ticks, list_threads>>
    BY <2>3
  <2>4. CASE UNCHANGED threadVars
    BY <2>4 DEF threadVars, timerVars
  <2>5. CASE Next /\ ~TimerInterrupt /\ ~TimerSleepBlock
    <3>1. UNCHANGED <<ticks, list_threads>>
      BY <2>5, Zenon DEF Next, Create, ThreadCreate, ThreadCreateUnblock, AwaitIdle,
         IdleRegister, IdleUp, IdleLoop, ThreadBlock, Unblock, ThreadUnblock,
         ThreadYield, ThreadExit, Sleep, TimerSleep, timerVars
    <3> QED BY <3>1, <2>3
  <2> QED BY <1>1, <2>1, <2>2, <2>4, <2>5
<1> QED BY <1>1, ThreadsInvariant, PTL DEF Spec, TickWakesAllDue
=============================================================================
