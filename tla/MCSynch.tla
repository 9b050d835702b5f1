------------------------------ MODULE MCSynch ------------------------------
(* A small instance of Synch: main, the idle thread and pages for two more   *)
(* threads, sharing a semaphore, a lock and a condition variable.            *)
EXTENDS Synch

CONSTANTS l1

MCCondLock == [c \in Cond |-> l1]
MCInitialValue == [s \in Sema |-> 0]
=============================================================================
