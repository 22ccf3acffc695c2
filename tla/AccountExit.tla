----------------------------- MODULE AccountExit -----------------------------
(***************************************************************************)
(* What leaving a position promises (models/live-account-control.md,       *)
(* invariants 4, 8 and 12): an exit ends with the account flat, or with    *)
(* what is left under a protective order of its size, or as a failure that *)
(* is reported; and what it ended with lasts, except that a protective     *)
(* order may sell what it protects.                                        *)
(***************************************************************************)
EXTENDS Integers

CONSTANT Dust

VARIABLES base,     \* the quantity held
          covered,  \* the quantity that protective orders would sell
          status

vars == <<base, covered, status>>

Flat == base <= Dust
Protected == Flat \/ covered = base

Init == base \in Nat /\ covered \in 0..base /\ status = "held"

Begin == status = "held" /\ status' = "exiting" /\ UNCHANGED <<base, covered>>

(* Before the end, and after a failure, anything may happen to the account.*)
Move ==
  /\ status \in {"held", "exiting", "failed"}
  /\ base' \in Nat /\ covered' \in Nat
  /\ UNCHANGED status

End ==
  /\ status = "exiting"
  /\ \/ status' = "flat" /\ Flat /\ covered = 0
     \/ status' = "protected" /\ Protected
     \/ status' = "failed"
  /\ UNCHANGED <<base, covered>>

(* Afterwards the quantity only shrinks, by what the protection sells.     *)
Drain ==
  /\ status = "protected"
  /\ base' <= base /\ base' >= 0
  /\ covered' \in Nat /\ Protected'
  /\ UNCHANGED status

Next == Begin \/ Move \/ End \/ Drain

Spec == Init /\ [][Next]_vars
=============================================================================
