------------------------------- MODULE PrintLog -------------------------------
(***************************************************************************)
(* What the print history promises: a log of prints, one after the other.  *)
(* At most one entry is open, it is the newest, and an entry that was      *)
(* closed is never open again.                                             *)
(***************************************************************************)
EXTENDS Naturals

VARIABLES
  current,  \* the open entry, if there is one
  last      \* the number of the newest entry there ever was

Init ==
  /\ current = {}
  /\ last \in Nat

(* A print starts; the one before it is over, whatever became of it. *)
Begin ==
  /\ last' = last + 1
  /\ current' = {last + 1}

End ==
  /\ current' = {}
  /\ UNCHANGED last

Spec == Init /\ [][Begin \/ End]_<<current, last>>
===============================================================================
