-------------------------- MODULE ReconcilerJournal --------------------------
(***************************************************************************)
(* The refinement mapping from Reconciler to Journal: the record and what  *)
(* is pending are those of the current version of the Secret, whichever    *)
(* manager wrote it and whatever version any of them holds.                *)
(***************************************************************************)
EXTENDS ReconcilerInv

J == INSTANCE Journal WITH open <- Cur(objs).there, held <- Cur(objs).fin,
                           record <- Cur(secrets).res, pending <- Cur(secrets).pending

\* Every behaviour of the managers is one of the journal: no step of any of them
\* writes the record but to conclude the one operation written down, and none
\* changes the cloud but by it (ReconcileObject over kubeStack.Save).
IsJournal == J!Spec
=============================================================================
