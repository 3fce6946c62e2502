----------------------------- MODULE AddressSpace -----------------------------
(***************************************************************************)
(* What the memory library promises a process: variables that share no     *)
(* cell, and an address space of its own.  An allocation gives a variable  *)
(* (rgid) cells no other variable of the process has; a write changes one  *)
(* address of the process that writes, inside of its variables or not, and *)
(* nothing else changes what it, or any other one, would read.             *)
(*                                                                         *)
(* The promise about what is read ends with the first page fault, of which *)
(* ever process; the one about the variables does not.                     *)
(***************************************************************************)
CONSTANTS
  Procs,      (* the processes                              *)
  Rgids,      (* the names of the variables of a process    *)
  Addresses,  (* the virtual addresses                      *)
  Values      (* what a cell may contain                    *)

VARIABLES
  owned,      (* per process and variable: its cells        *)
  content,    (* per process and address: the value there   *)
  intact      (* has there been no page fault?              *)

spaceVars == <<owned, content, intact>>

Taken(p) == UNION {owned[p][r] : r \in Rgids}

(* A variable gets fresh cells.  What it had before stays with it, or is   *)
(* given up.                                                               *)
Grant(p, r) ==
  \E fresh \in SUBSET (Addresses \ Taken(p)), kept \in {{}, owned[p][r]} :
    /\ fresh # {}
    /\ owned' = [owned EXCEPT ![p][r] = kept \cup fresh]

Release(p, r) == owned' = [owned EXCEPT ![p][r] = {}]

Store(p) ==
  \E a \in Addresses, v \in Values : content' = [content EXCEPT ![p][a] = v]

SpaceInit ==
  /\ owned = [p \in Procs |-> [r \in Rgids |-> {}]]
  /\ \E v \in Values : content = [p \in Procs |-> [a \in Addresses |-> v]]
  /\ intact = TRUE

OwnedStep ==
  \/ UNCHANGED owned
  \/ \E p \in Procs, r \in Rgids : Grant(p, r) \/ Release(p, r)

SpaceNext ==
  \/ OwnedStep /\ UNCHANGED <<content, intact>>
  \/ (\E p \in Procs : Store(p)) /\ UNCHANGED <<owned, intact>>
  \/ OwnedStep /\ intact' = FALSE

SpaceSpec == SpaceInit /\ [][SpaceNext]_spaceVars
=============================================================================
