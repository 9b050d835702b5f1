------------------------------ MODULE Process ------------------------------
(***************************************************************************)
(* Starting, waiting for and ending user processes: process_execute(),     *)
(* start_process(), process_wait() and process_exit() of                   *)
(* userprog/process.c, exec() and exit() of userprog/syscall.c, and the    *)
(* page fault and exception handlers of userprog/exception.c.              *)
(*                                                                         *)
(* Parent and child share the parent's struct thread and the struct child  *)
(* it keeps for the child.  They run with interrupts on, so every access to*)
(* a field the other one uses is an action of its own, and so is every     *)
(* element of the parent's list that a child looks at in find_child().     *)
(* Semaphores and locks are atomic (shown in Synch.tla).                   *)
(*                                                                         *)
(* A struct thread and a struct child are named by the memory they are in, *)
(* as a child may still use them when they have been freed: nothing, or    *)
(* another thread or record, is there then.                                *)
(***************************************************************************)
EXTENDS Integers, FiniteSetsExt

CONSTANTS
    MaxTid,     \* bound: threads 3 .. MaxTid can be created
    Statuses,   \* the arguments of exit() that are tried
    Commands,   \* the kinds of command line tried: "ok" loads, "bad" fails
                \* to load, "empty" has no token
    Deaths,     \* the ways to end that are tried: "exit", "fault", "kill"
    Garbage,    \* what an uninitialised child_ret holds
    NoLock      \* process_lock has no holder

ASSUME ProcessAssumption ==
    /\ MaxTid \in Nat /\ MaxTid >= 2
    /\ Statuses \subseteq Int
    /\ Commands \subseteq {"ok", "bad", "empty"}
    /\ Deaths \subseteq {"exit", "fault", "kill"}
    /\ Garbage \notin Int
    /\ NoLock \notin Int

Main == 1       \* initial_thread, which runs run_task()
Idle == 2       \* the first idle thread, created by Main like a child
Tid == 1 .. MaxTid

VARIABLES
    pc,             \* where each thread is
    next_tid,       \* allocate_tid()'s counter
    parent,         \* struct thread's parent
    page,           \* the page of each struct thread, named by the first in it
    child_list,     \* the children a thread has a struct child for; the list
                    \* is in the order of their tids
    block,          \* the memory of the struct child for each thread, named by
                    \* the first in it; 0 if there is none
    child_done,     \* done flag and return value in the struct child for each
    child_ret,      \* thread; there is at most one
    child_loaded,   \* struct thread's flag: -1 if the last child did not load
    child_waiting,  \* struct thread's child that it waits or waited for
    sem_child_load, \* values of struct thread's semaphores
    sem_child_wait,
    process_lock,   \* holder of the lock around process_execute()
    exit_status,    \* struct thread's exit status, printed at the end
    command,        \* the command line a process is started with
    target,         \* local: tid in process_execute(), c_t in process_wait()
    report,         \* local: what exit() or page_fault() puts in child_ret
    c_t,            \* local: the record find_child() looks at or found; 0: null
    panic           \* the kernel has used freed memory and stopped

childVars == <<child_list, child_done, child_ret, block>>
loadVars == <<child_loaded, sem_child_load>>
waitVars == <<child_waiting, sem_child_wait>>
bornVars == <<next_tid, parent, page, command>>
endVars == <<exit_status, report, c_t>>
vars == <<pc, childVars, loadVars, waitVars, bornVars, endVars, process_lock,
          target, panic>>

Location ==
    { "unborn",
      "start",          \* start_process()
      "failed",         \* start_process(), load failed, before sema_up()
      "idle",           \* idle()
      "user",           \* user code; Main: between two run_task()s
      "exec_lock",      \* exec(), in lock_acquire(&process_lock)
      "load_wait",      \* process_execute(), in sema_down(&sem_child_load)
      "task_wait",      \* Main: run_task(), before process_wait()
      "wait_test",      \* process_wait(), before child_done is tested
      "wait_down",      \* process_wait(), in sema_down(&sem_child_wait)
      "wait_reap",      \* process_wait(), before child_ret is read
      "task_end",       \* Main: run_task(), before thread_start()
      "exit_find",      \* exit() or page_fault(), before find_child()
      "exit_walk",      \* ... in its loop, at the record c_t
      "exit_ret",       \* ... before child_ret is stored
      "exit_done",      \* ... before child_done is stored
      "exit_check",     \* ... before child_waiting is tested
      "exit_up",        \* ... before sema_up(&sem_child_wait)
      "process_exit",   \* in process_exit()'s loop
      "dying",          \* before the page of the struct thread is freed
      "dead" }

-----------------------------------------------------------------------------
Goto(p, l) == pc' = [pc EXCEPT ![p] = l]

(* process_execute() or process_wait() returns, in Main to run_task().       *)
Return(p) ==
    /\ Goto(p, IF p = Main THEN "task_end" ELSE "user")
    /\ target' = [target EXCEPT ![p] = 0]

Live(p) == pc[p] \notin {"unborn", "dead"}

(* The thread in the page that p's parent pointer points to: its parent or,  *)
(* when that is dead, none or one created since.                             *)
Father(p) == {q \in Tid : Live(q) /\ page[q] = page[parent[p]]}

(* The record in the memory that p's c_t points to, if one is there.         *)
Record(p) == {c \in Tid : block[c] = c_t[p]}

(* list_remove() and free() of the struct child for c, which p has.          *)
Delete(p, c) ==
    /\ child_list' = [child_list EXCEPT ![p] = @ \ {c}]
    /\ child_done' = [child_done EXCEPT ![c] = FALSE]
    /\ child_ret' = [child_ret EXCEPT ![c] = Garbage]
    /\ block' = [block EXCEPT ![c] = 0]

(* Memory for a struct thread and for a struct child: new, or freed memory   *)
(* that some child still has a pointer to (any other is as good as new).     *)
FreePages ==
    {next_tid} \cup {page[parent[c]] : c \in {d \in Tid : Live(d) /\ Father(d) = {}}}
FreeBlocks ==
    {next_tid} \cup {c_t[c] : c \in {d \in Tid :
        pc[d] \in {"exit_walk", "exit_ret", "exit_done"} /\ Record(d) = {}}}

(* thread_create() by p, which goes on at l; the new thread begins at l2.    *)
ThreadCreate(p, l, l2, cmd) ==
    /\ next_tid \in Tid
    /\ next_tid' = next_tid + 1
    /\ pc' = [pc EXCEPT ![p] = l, ![next_tid] = l2]
    /\ parent' = [parent EXCEPT ![next_tid] = p]
    /\ \E g \in FreePages : page' = [page EXCEPT ![next_tid] = g]
    /\ child_loaded' = [child_loaded EXCEPT ![p] = 0]
    /\ \E b \in FreeBlocks : block' = [block EXCEPT ![next_tid] = b]
    /\ child_list' = [child_list EXCEPT ![p] = @ \cup {next_tid}]
    /\ child_done' = [child_done EXCEPT ![next_tid] = FALSE]
    /\ command' = [command EXCEPT ![next_tid] = cmd]

-----------------------------------------------------------------------------
Init ==
    /\ pc = [p \in Tid |-> CASE p = Main -> "user"
                        [] p = Idle -> "idle"
                        [] OTHER -> "unborn"]
    /\ next_tid = 3
    /\ parent = [p \in Tid |-> Main]
    /\ page = [p \in Tid |-> p]
    /\ child_list = [p \in Tid |-> IF p = Main THEN {Idle} ELSE {}]
    /\ block = [p \in Tid |-> IF p = Idle THEN Idle ELSE 0]
    /\ child_done = [p \in Tid |-> FALSE]
    /\ child_ret = [p \in Tid |-> Garbage]
    /\ child_loaded = [p \in Tid |-> 0]
    /\ child_waiting = [p \in Tid |-> 0]
    /\ sem_child_load = [p \in Tid |-> 0]
    /\ sem_child_wait = [p \in Tid |-> 0]
    /\ process_lock = NoLock
    /\ exit_status = [p \in Tid |-> -1]
    /\ command = [p \in Tid |-> "ok"]
    /\ target = [p \in Tid |-> 0]
    /\ report = [p \in Tid |-> 0]
    /\ c_t = [p \in Tid |-> 0]
    /\ panic = FALSE

(* exec() asks for process_lock; run_task() does without.                    *)
Exec(p) ==
    /\ pc[p] = "user" /\ p # Main
    /\ Goto(p, "exec_lock")
    /\ UNCHANGED <<childVars, loadVars, waitVars, bornVars, endVars,
                   process_lock, target, panic>>

MayExecute(p) ==
    IF p = Main THEN pc[p] = "user"
    ELSE pc[p] = "exec_lock" /\ process_lock = NoLock

(* process_execute() creates the thread, with its struct child, and will     *)
(* wait for it to load, in exec() with the lock.                             *)
ProcessExecute(p, cmd) ==
    /\ MayExecute(p)
    /\ process_lock' = IF p = Main THEN process_lock ELSE p
    /\ ThreadCreate(p, "load_wait", "start", cmd)
    /\ target' = [target EXCEPT ![p] = next_tid]
    /\ UNCHANGED <<child_ret, sem_child_load, waitVars, endVars, panic>>

(* process_execute() finds no page for its copy of the command line or for   *)
(* the thread, and returns TID_ERROR; exec() releases the lock.              *)
ExecNoMemory(p) ==
    /\ MayExecute(p)
    /\ Return(p)
    /\ UNCHANGED <<childVars, loadVars, waitVars, bornVars, endVars,
                   process_lock, panic>>


(* The rest of process_execute(), once the child has upped sem_child_load:   *)
(* TID_ERROR, and the child's record deleted, if it did not load; its tid    *)
(* otherwise, for which run_task() calls process_wait().                     *)
ExecReturn(p) ==
    /\ pc[p] = "load_wait"
    /\ sem_child_load[p] > 0
    /\ sem_child_load' = [sem_child_load EXCEPT ![p] = @ - 1]
    /\ IF child_loaded[p] = -1
         THEN Delete(p, target[p])
         ELSE UNCHANGED childVars
    /\ process_lock' = IF p = Main THEN process_lock ELSE NoLock
    /\ IF p = Main /\ child_loaded[p] # -1
         THEN Goto(p, "task_wait") /\ UNCHANGED target
         ELSE Return(p)
    /\ UNCHANGED <<child_loaded, waitVars, bornVars, endVars, panic>>

-----------------------------------------------------------------------------
(* start_process(), in the new thread.                                       *)

(* No token in the command line: it returns, and the thread exits.           *)
StartEmpty(p) ==
    /\ pc[p] = "start"
    /\ command[p] = "empty"
    /\ Goto(p, "process_exit")
    /\ UNCHANGED <<childVars, loadVars, waitVars, bornVars, endVars,
                   process_lock, target, panic>>

(* Mutant of StartLoaded: two ups.                                           *)
StartLoadedTwice(p) ==
    /\ pc[p] = "start"
    /\ command[p] = "ok"
    /\ sem_child_load' = [sem_child_load EXCEPT ![parent[p]] = @ + 2]
    /\ Goto(p, "user")
    /\ UNCHANGED <<childVars, child_loaded, waitVars, bornVars, endVars,
                   process_lock, target, panic>>

StartLoaded(p) ==
    /\ pc[p] = "start"
    /\ command[p] = "ok"
    /\ sem_child_load' = [sem_child_load EXCEPT ![parent[p]] = @ + 1]
    /\ Goto(p, "user")
    /\ UNCHANGED <<childVars, child_loaded, waitVars, bornVars, endVars,
                   process_lock, target, panic>>

(* Mutant of StartFailed: sema_up() before child_loaded is stored.           *)
StartFailedEarly(p) ==
    /\ pc[p] = "start"
    /\ command[p] = "bad"
    /\ exit_status' = [exit_status EXCEPT ![p] = -1]
    /\ sem_child_load' = [sem_child_load EXCEPT ![parent[p]] = @ + 1]
    /\ Goto(p, "process_exit")
    /\ UNCHANGED <<childVars, child_loaded, waitVars, bornVars, report,
                   c_t, process_lock, target, panic>>

(* load() failed: the parent is told through child_loaded ...                *)
StartFailed(p) ==
    /\ pc[p] = "start"
    /\ command[p] = "bad"
    /\ exit_status' = [exit_status EXCEPT ![p] = -1]
    /\ child_loaded' = [child_loaded EXCEPT ![parent[p]] = -1]
    /\ Goto(p, "failed")
    /\ UNCHANGED <<childVars, sem_child_load, waitVars, bornVars, report,
                   c_t, process_lock, target, panic>>

(* ... and released.                                                         *)
StartFailedUp(p) ==
    /\ pc[p] = "failed"
    /\ sem_child_load' = [sem_child_load EXCEPT ![parent[p]] = @ + 1]
    /\ Goto(p, "process_exit")
    /\ UNCHANGED <<childVars, child_loaded, waitVars, bornVars, endVars,
                   process_lock, target, panic>>

-----------------------------------------------------------------------------
(* Mutant of ProcessWait: child_waiting is not stored.                       *)
ProcessWaitSilent(p, c) ==
    /\ IF child_list[p] = {} \/ child_loaded[p] = -1 \/ c \notin child_list[p]
         THEN Return(p)
         ELSE /\ target' = [target EXCEPT ![p] = c]
              /\ Goto(p, "wait_test")
    /\ UNCHANGED <<childVars, loadVars, waitVars, bornVars, endVars,
                   process_lock, panic>>

(* process_wait(c): refused with -1, or p announces what it waits for ...    *)
ProcessWait(p, c) ==
    /\ IF child_list[p] = {} \/ child_loaded[p] = -1 \/ c \notin child_list[p]
         THEN Return(p) /\ UNCHANGED child_waiting
         ELSE /\ child_waiting' = [child_waiting EXCEPT ![p] = c]
              /\ target' = [target EXCEPT ![p] = c]
              /\ Goto(p, "wait_test")
    /\ UNCHANGED <<childVars, loadVars, sem_child_wait, bornVars, endVars,
                   process_lock, panic>>

Wait(p, c) == p # Main /\ pc[p] = "user" /\ ProcessWait(p, c)

TaskWait == pc[Main] = "task_wait" /\ ProcessWait(Main, target[Main])

(* ... blocks unless the child is done ...                                   *)
WaitTest(p) ==
    /\ pc[p] = "wait_test"
    /\ Goto(p, IF child_done[target[p]] THEN "wait_reap" ELSE "wait_down")
    /\ UNCHANGED <<childVars, loadVars, waitVars, bornVars, endVars,
                   process_lock, target, panic>>

WaitDown(p) ==
    /\ pc[p] = "wait_down"
    /\ sem_child_wait[p] > 0
    /\ sem_child_wait' = [sem_child_wait EXCEPT ![p] = @ - 1]
    /\ Goto(p, "wait_reap")
    /\ UNCHANGED <<childVars, loadVars, child_waiting, bornVars, endVars,
                   process_lock, target, panic>>

(* ... and returns child_ret and deletes the record.                         *)
WaitReap(p) ==
    /\ pc[p] = "wait_reap"
    /\ Delete(p, target[p])
    /\ Return(p)
    /\ UNCHANGED <<loadVars, waitVars, bornVars, endVars, process_lock, panic>>

(* run_task() ends with thread_start(), which creates another idle thread.   *)
TaskEnd ==
    /\ pc[Main] = "task_end"
    /\ ThreadCreate(Main, "user", "idle", "ok")
    /\ UNCHANGED <<child_ret, sem_child_load, waitVars, endVars, process_lock,
                   target, panic>>

-----------------------------------------------------------------------------
(* The end of a process: exit(s) ...                                         *)
Exit(p, s) ==
    /\ pc[p] = "user" /\ p # Main
    /\ exit_status' = [exit_status EXCEPT ![p] = s]
    /\ report' = [report EXCEPT ![p] = s]
    /\ Goto(p, "exit_find")
    /\ UNCHANGED <<childVars, loadVars, waitVars, bornVars, c_t, process_lock,
                   target, panic>>

(* ... or page_fault(), which goes the same way ...                          *)
PageFault(p) ==
    /\ pc[p] = "user" /\ p # Main
    /\ exit_status' = [exit_status EXCEPT ![p] = -1]
    /\ report' = [report EXCEPT ![p] = 0]
    /\ Goto(p, "exit_find")
    /\ UNCHANGED <<childVars, loadVars, waitVars, bornVars, c_t, process_lock,
                   target, panic>>

(* ... or kill(), for any other exception, which tells the parent nothing.   *)
Kill(p) ==
    /\ pc[p] = "user" /\ p # Main
    /\ Goto(p, "process_exit")
    /\ UNCHANGED <<childVars, loadVars, waitVars, bornVars, endVars,
                   process_lock, target, panic>>

(* find_child(tid, parent) begins with the first element of the list.  In a  *)
(* page without a thread it finds none, or the kernel stops.                 *)
ExitFind(p) ==
    LET records == UNION {child_list[q] : q \in Father(p)}
    IN  /\ pc[p] = "exit_find"
        /\ panic' \in {FALSE, Father(p) = {}}
        /\ IF records = {}
             THEN /\ c_t' = [c_t EXCEPT ![p] = 0]
                  /\ Goto(p, "exit_check")
             ELSE /\ c_t' = [c_t EXCEPT ![p] = block[Min(records)]]
                  /\ Goto(p, "exit_walk")
        /\ UNCHANGED <<childVars, loadVars, waitVars, bornVars, exit_status, report,
                       process_lock, target>>

(* A turn of its loop, at a record: it is the one, or the next element       *)
(* follows, or the tail of the parent's list.  At the tail of another list   *)
(* an ASSERT in list_next() fails.                                           *)
ExitWalk(p) ==
    /\ pc[p] = "exit_walk"
    /\ \E c \in Record(p), q \in Tid :
         LET rest == {d \in child_list[q] : d > c}
         IN  /\ c \in child_list[q]
             /\ \/ c = p /\ Goto(p, "exit_ret") /\ UNCHANGED <<c_t, panic>>
                \/ /\ c # p /\ rest # {}
                   /\ c_t' = [c_t EXCEPT ![p] = block[Min(rest)]]
                   /\ UNCHANGED <<pc, panic>>
                \/ /\ c # p /\ rest = {}
                   /\ c_t' = [c_t EXCEPT ![p] = 0]
                   /\ Goto(p, "exit_check")
                   /\ panic' = (q \notin Father(p))
    /\ UNCHANGED <<childVars, loadVars, waitVars, bornVars, exit_status, report,
                   process_lock, target>>

(* The same where the record has been freed.  free() has filled it with      *)
(* 0xcc, and following that pointer is a page fault, of the kernel, whose    *)
(* handler takes it for one of the process and begins again; if the memory   *)
(* has been put to another use, the kernel stops.                            *)
ExitWalkFreed(p) ==
    /\ pc[p] = "exit_walk"
    /\ Record(p) = {}
    /\ exit_status' = [exit_status EXCEPT ![p] = -1]
    /\ report' = [report EXCEPT ![p] = 0]
    /\ c_t' = [c_t EXCEPT ![p] = 0]
    /\ Goto(p, "exit_find")
    /\ panic' \in BOOLEAN
    /\ UNCHANGED <<childVars, loadVars, waitVars, bornVars, process_lock, target>>

(* The stores through c_t change p's record or, if it has been freed since,  *)
(* the one that is in its memory now.                                        *)
ExitRet(p) ==
    /\ pc[p] = "exit_ret"
    /\ child_ret' = [c \in Tid |-> IF c \in Record(p) THEN report[p] ELSE child_ret[c]]
    /\ Goto(p, "exit_done")
    /\ UNCHANGED <<child_list, child_done, block, loadVars, waitVars, bornVars,
                   endVars, process_lock, target, panic>>

(* In a free block child_done is the link of malloc()'s free list.           *)
ExitDone(p) ==
    /\ pc[p] = "exit_done"
    /\ child_done' = [c \in Tid |-> c \in Record(p) \/ child_done[c]]
    /\ panic' \in {FALSE, Record(p) = {}}
    /\ Goto(p, "exit_check")
    /\ UNCHANGED <<child_list, child_ret, block, loadVars, waitVars, bornVars,
                   endVars, process_lock, target>>

(* Is the parent waiting for us?                                             *)
ExitCheck(p) ==
    /\ pc[p] = "exit_check"
    /\ panic' \in {FALSE, Father(p) = {}}
    /\ Goto(p, IF \E q \in Father(p) : child_waiting[q] = p
                 THEN "exit_up" ELSE "process_exit")
    /\ UNCHANGED <<childVars, loadVars, waitVars, bornVars, endVars,
                   process_lock, target>>

(* Mutant of ExitUp: the wrong semaphore.                                    *)
ExitUpOwn(p) ==
    /\ pc[p] = "exit_up"
    /\ panic' \in {FALSE, Father(p) = {}}
    /\ sem_child_wait' = [sem_child_wait EXCEPT ![p] = @ + 1]
    /\ Goto(p, "process_exit")
    /\ UNCHANGED <<childVars, loadVars, child_waiting, bornVars, endVars,
                   process_lock, target>>

(* The parent is released, or whoever is in its page.                        *)
ExitUp(p) ==
    /\ pc[p] = "exit_up"
    /\ panic' \in {FALSE, Father(p) = {}}
    /\ sem_child_wait' = [q \in Tid |-> IF q \in Father(p) THEN sem_child_wait[q] + 1
                                        ELSE sem_child_wait[q]]
    /\ Goto(p, "process_exit")
    /\ UNCHANGED <<childVars, loadVars, child_waiting, bornVars, endVars,
                   process_lock, target>>

(* process_exit() deletes the records of p's own children, one by one ...    *)
ProcessExit(p) ==
    /\ pc[p] = "process_exit"
    /\ IF child_list[p] # {}
         THEN Delete(p, Min(child_list[p])) /\ UNCHANGED pc
         ELSE Goto(p, "dying") /\ UNCHANGED childVars
    /\ UNCHANGED <<loadVars, waitVars, bornVars, endVars, process_lock, target,
                   panic>>

(* ... and thread_exit() gives up the processor and, for good, the page with *)
(* the struct thread.                                                        *)
ThreadExit(p) ==
    /\ pc[p] = "dying"
    /\ Goto(p, "dead")
    /\ parent' = [parent EXCEPT ![p] = Main]
    /\ child_loaded' = [child_loaded EXCEPT ![p] = 0]
    /\ child_waiting' = [child_waiting EXCEPT ![p] = 0]
    /\ sem_child_wait' = [sem_child_wait EXCEPT ![p] = 0]
    /\ report' = [report EXCEPT ![p] = 0]
    /\ UNCHANGED <<childVars, sem_child_load, next_tid, page, command, exit_status,
                   c_t, process_lock, target, panic>>

-----------------------------------------------------------------------------
(* What p does in the kernel without being asked.                            *)
KernelStep(p) ==
    \/ ExecReturn(p)
    \/ StartEmpty(p)
    \/ StartLoaded(p)
    \/ StartFailed(p)
    \/ StartFailedUp(p)
    \/ p = Main /\ (TaskWait \/ TaskEnd)
    \/ WaitTest(p)
    \/ WaitDown(p)
    \/ WaitReap(p)
    \/ ExitFind(p)
    \/ ExitWalk(p)
    \/ ExitWalkFreed(p)
    \/ ExitRet(p)
    \/ ExitDone(p)
    \/ ExitCheck(p)
    \/ ExitUp(p)
    \/ ProcessExit(p)
    \/ ThreadExit(p)

(* What p does of its own will.                                              *)
UserStep(p) ==
    \/ Exec(p)
    \/ \E c \in Tid : Wait(p, c)
    \/ "exit" \in Deaths /\ \E s \in Statuses : Exit(p, s)
    \/ "fault" \in Deaths /\ PageFault(p)
    \/ "kill" \in Deaths /\ Kill(p)

(* process_execute(), when exec() has the lock or run_task() calls it.       *)
Execute(p) == (\E cmd \in Commands : ProcessExecute(p, cmd)) \/ ExecNoMemory(p)

Next == ~panic /\ \E p \in Tid : KernelStep(p) \/ UserStep(p) \/ Execute(p)

Spec == Init /\ [][Next]_vars

(* A thread that can go on in the kernel does (ReadyEventuallyRuns in        *)
(* Threads.tla), and one that waits for a lock which is released again and   *)
(* again gets it (LockProgress in Synch.tla).  User code may run for ever,   *)
(* and so may Main between two tasks.                                        *)
FairSpec ==
    /\ Spec
    /\ \A p \in Tid \ {Idle} : WF_vars(~panic /\ KernelStep(p))
    /\ \A p \in Tid \ {Main, Idle} : SF_vars(~panic /\ Execute(p))

-----------------------------------------------------------------------------
(* Properties                                                                *)

(* Every variable has its type.                                              *)
ProcessTypeOK ==
    /\ pc \in [Tid -> Location]
    /\ next_tid \in 3 .. MaxTid + 1
    /\ parent \in [Tid -> Tid]
    /\ page \in [Tid -> Tid]
    /\ child_list \in [Tid -> SUBSET Tid]
    /\ block \in [Tid -> Tid \cup {0}]
    /\ child_done \in [Tid -> BOOLEAN]
    /\ child_ret \in [Tid -> Int \cup {Garbage}]
    /\ child_loaded \in [Tid -> {0, -1}]
    /\ child_waiting \in [Tid -> Tid \cup {0}]
    /\ sem_child_load \in [Tid -> 0 .. 1]
    /\ sem_child_wait \in [Tid -> Nat]
    /\ process_lock \in Tid \cup {NoLock}
    /\ exit_status \in [Tid -> Int]
    /\ command \in [Tid -> {"ok", "bad", "empty"}]
    /\ target \in [Tid -> Tid \cup {0}]
    /\ report \in [Tid -> Int]
    /\ c_t \in [Tid -> Tid \cup {0}]
    /\ panic \in BOOLEAN

(* process_execute() reports on the child it has just created: when it is    *)
(* released, that child is past loading and child_loaded is that child's     *)
(* result; and no up is left over that could release a later exec() early.   *)
ExecReportsLoad ==
    \A p \in Tid : sem_child_load[p] > 0 =>
        /\ pc[p] = "load_wait"
        /\ pc[target[p]] \notin {"unborn", "start", "failed"}
        /\ child_loaded[p] = -1 <=> command[target[p]] = "bad"

(* process_wait() stores child_waiting before it tests child_done, and       *)
(* exit() and page_fault() store child_done before they test child_waiting.  *)
(* So no parent is left asleep by a child that found its record and has gone *)
(* past the test: the up that wakes it is there.                             *)
FoundExitWakes ==
    \A p, c \in Tid :
        /\ pc[p] = "wait_down" /\ target[p] = c
        /\ pc[c] \in {"process_exit", "dying", "dead"} /\ c_t[c] # 0
        => sem_child_wait[p] > 0

(* "Tell the parent thread we are done": a child that leaves exit() without  *)
(* releasing its parent, while the parent has a record of it, has marked the *)
(* record, so that a later process_wait() does not sleep.                    *)
NoLostExit ==
    [][\A c \in Tid :
          /\ pc[c] = "exit_check" /\ pc'[c] = "process_exit"
          /\ c \in child_list[parent[c]]
          => child_done[c]]_vars

(* A parent that waits for a child which ends through exit() or a page fault *)
(* is released.                                                              *)
ExitReleasesParent ==
    \A p \in Tid \ {Idle} :
        (pc[p] = "wait_down" /\ pc[target[p]] = "exit_check")
          ~> (panic \/ pc[p] # "wait_down")


(* "Waits for thread TID to die and returns its exit status": the record     *)
(* that process_wait() takes its result from is that of an ended process.    *)
WaitReturnsExitStatus ==
    \A p \in Tid : pc[p] = "wait_reap" =>
        /\ pc[target[p]] \in {"exit_check", "exit_up", "process_exit", "dying",
                              "dead"}
        /\ child_ret[target[p]] = exit_status[target[p]]

(* "If it was terminated by the kernel (i.e. killed due to an exception),    *)
(* returns -1": a finished child's record holds its exit status.             *)
KilledReturnsError ==
    \A p \in Tid : pc[p] = "wait_reap" /\ child_done[target[p]]
        => child_ret[target[p]] = exit_status[target[p]]

=============================================================================
