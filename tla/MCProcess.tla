----------------------------- MODULE MCProcess -----------------------------
(* Process itself, with numbers for threads: main, the idle thread and       *)
(* MaxTid - 2 processes.                                                     *)
EXTENDS Process
=============================================================================
