----------------------------- MODULE MCThreads -----------------------------
(* A small instance of Threads: main, the idle thread and pages for two more *)
(* threads (one of which may become the second idle thread).                 *)
EXTENDS Threads

(* timer_sleep() with a negative, a zero, a short and a long delay.          *)
MCDelays == {-1, 0, 1, 2}
=============================================================================
