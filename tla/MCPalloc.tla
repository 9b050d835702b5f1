------------------------------ MODULE MCPalloc ------------------------------
(* Seven free pages: a kernel pool of three and a user pool of two, each     *)
(* after a page for its bitmap.                                              *)
EXTENDS Palloc, TLC

MCSymmetry == Permutations(Thread)
=============================================================================
