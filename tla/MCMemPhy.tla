------------------------------- MODULE MCMemPhy --------------------------------
(* Three processes that need one page or three at a time of a small RAM.   *)
EXTENDS MemPhy
=============================================================================
