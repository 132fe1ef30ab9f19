--------------------------- MODULE MCOperandStack ---------------------------
(* Two values of each size, so that the order of equal sizes shows.         *)
EXTENDS OperandStack

MCSmall == {"x", "y"}
MCBig == {"l", "m"}
=============================================================================
