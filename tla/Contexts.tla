------------------------------ MODULE Contexts ------------------------------
(***************************************************************************)
(* What exception entry and return promise, with or without a scheduler:    *)
(* the code that is interrupted resumes later, most recent first, exactly   *)
(* as it was, and a parked task comes back exactly as it was parked.        *)
(***************************************************************************)
EXTENDS Integers, Sequences

CONSTANTS Tasks, Boot, Created

VARIABLES
  running,   (* the context of the code that executes                       *)
  suspended, (* contexts of interrupted code, most recent last              *)
  parked     (* contexts of the tasks that the scheduler has put aside      *)

vars == <<running, suspended, parked>>

Init == running = Boot /\ suspended = <<>> /\ parked = Created

Work == UNCHANGED <<suspended, parked>>

Interrupt == suspended' = Append(suspended, running) /\ UNCHANGED parked

Resume ==
  /\ suspended # <<>>
  /\ running' = suspended[Len(suspended)]
  /\ suspended' = SubSeq(suspended, 1, Len(suspended) - 1)
  /\ UNCHANGED parked

(* The scheduler runs in a handler that interrupted thread code directly.   *)
Park(t) ==
  /\ Len(suspended) = 1
  /\ parked' = [parked EXCEPT ![t] = suspended[1]]
  /\ UNCHANGED suspended

Unpark(t) == Len(suspended) = 1 /\ suspended' = <<parked[t]>> /\ UNCHANGED parked

Restart == running' = Boot /\ suspended' = <<>> /\ parked' = Created

Next ==
  \/ Work \/ Interrupt \/ Resume \/ Restart
  \/ \E t \in Tasks : Park(t) \/ Unpark(t)

Spec == Init /\ [][Next]_vars
=============================================================================
