------------------------------- MODULE Mutex -------------------------------
(***************************************************************************)
(* What a lock shared by processes that may die promises its users.  A     *)
(* process is a pid slot and an instance number: the slot of a dead        *)
(* process may be taken again by a later instance with the same pid.  The  *)
(* lock is held by at most one instance, returned by that instance while   *)
(* it lives, and taken from it only once it is dead.                       *)
(***************************************************************************)
EXTENDS Naturals

CONSTANTS Procs,   (* pid slots                                            *)
          Nobody   (* the holder of a free lock                            *)

VARIABLES alive,   (* alive[p]: a process runs under pid p                 *)
          inc,     (* inc[p]: which instance last ran under pid p          *)
          holder,  (* the instance that has the lock, or Nobody            *)
          inside   (* the pids in the section the lock protects           *)

vars == <<alive, inc, holder, inside>>

Instance(p) == [pid |-> p, inc |-> inc[p]]
Dead(h) == ~alive[h.pid] \/ inc[h.pid] # h.inc

Init == /\ alive = [p \in Procs |-> TRUE]
        /\ inc = [p \in Procs |-> 0]
        /\ holder = Nobody
        /\ inside = {}

Take(p) == /\ alive[p]
           /\ holder = Nobody
           /\ holder' = Instance(p)
           /\ inside' = inside \cup {p}
           /\ UNCHANGED <<alive, inc>>

(* The one way out: whoever is inside still has the lock and returns it,   *)
(* or leaves it behind when the file system refuses to remove it.          *)
GiveBack(p) == /\ alive[p]
               /\ p \in inside
               /\ holder = Instance(p)
               /\ holder' \in {Nobody, holder}
               /\ inside' = inside \ {p}
               /\ UNCHANGED <<alive, inc>>

Reclaim == /\ holder # Nobody
           /\ Dead(holder)
           /\ holder' = Nobody
           /\ UNCHANGED <<alive, inc, inside>>

Die(p) == /\ alive[p]
          /\ alive' = [alive EXCEPT ![p] = FALSE]
          /\ inside' = inside \ {p}
          /\ UNCHANGED <<inc, holder>>

Revive(p) == /\ ~alive[p]
             /\ alive' = [alive EXCEPT ![p] = TRUE]
             /\ inc' = [inc EXCEPT ![p] = @ + 1]
             /\ UNCHANGED <<holder, inside>>

Next == \/ \E p \in Procs : Take(p) \/ GiveBack(p) \/ Die(p) \/ Revive(p)
        \/ Reclaim

Spec == Init /\ [][Next]_vars
=============================================================================
