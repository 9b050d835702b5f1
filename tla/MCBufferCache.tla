--------------------------- MODULE MCBufferCache ---------------------------
(* A cache of two entries over three sectors, used by a thread that holds    *)
(* file_lock in its calls and by one that reads and writes without it.       *)
EXTENDS BufferCache, TLC

CONSTANTS zero, one

MCValue == {zero, one}
MCSymmetry ==
    Permutations(Sector) \cup Permutations(Value) \cup Permutations(Offset)
=============================================================================
