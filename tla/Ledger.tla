------------------------------- MODULE Ledger -------------------------------
(***************************************************************************)
(* What the history collector promises about the sales of an item, whatever *)
(* its polls, checkpoints, retention windows and compactions do.           *)
(*                                                                         *)
(* A sale is new until the collector decides about it, once: it counts it, *)
(* or lets it go.  A counted sale may be forgotten later.  A sale that is  *)
(* gone is never counted again: only an operator's restore can bring it    *)
(* back.                                                                   *)
(***************************************************************************)
CONSTANT Sale
VARIABLES status, restoring

vars == <<status, restoring>>

Status == {"new", "counted", "gone"}

\* Every sale keeps its status or moves from one in `from` to one in `to`.
Move(from, to) ==
    /\ status' \in [Sale -> Status]
    /\ \A s \in Sale : status'[s] # status[s] => status[s] \in from /\ status'[s] \in to

Init == status = [s \in Sale |-> "new"] /\ restoring = FALSE

\* The collector decides about some new sales.
Collect == Move({"new"}, {"counted", "gone"}) /\ UNCHANGED restoring

\* Counted sales fall out of the tables.
Forget == Move({"counted"}, {"gone"}) /\ UNCHANGED restoring

BeginRestore == ~restoring /\ restoring' = TRUE /\ UNCHANGED status

\* A restore brings gone sales back, and may lose counted ones; it never touches
\* a sale the collector has not decided about.
Restore ==
    /\ restoring /\ restoring' = FALSE
    /\ Move({"counted", "gone"}, {"counted", "gone"})

AbandonRestore == restoring /\ restoring' = FALSE /\ UNCHANGED status

Next == Collect \/ Forget \/ BeginRestore \/ Restore \/ AbandonRestore

Spec == Init /\ [][Next]_vars
=============================================================================
