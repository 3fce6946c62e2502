-------------------------------- MODULE MCMm ---------------------------------
(* Two processes that share a small RAM.                                   *)
EXTENDS Mm

MCCodeSize == [p \in Procs |-> IF p = 1 THEN 3 ELSE 2]

MCLongCodeSize == [p \in Procs |-> IF p = 1 THEN 4 ELSE 1]
=============================================================================
