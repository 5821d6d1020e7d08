-------------------------- MODULE EngineOperations --------------------------
(***************************************************************************)
(* The refinement mapping from EngineEvents to Operations.  An operation   *)
(* has answered when ReconcileObject has read its StackChanges; the answer *)
(* is what they hold, then and ever after.                                 *)
(***************************************************************************)
EXTENDS EngineEvents

Stage == CASE phase = "call" -> "call"
           [] phase = "end" -> "over"
           [] OTHER -> "running"

Answer(o) == CASE shown[o] \in StackChanges -> changes[o]
               [] shown[o] = Failed /\ phase = "end" -> Failed
               [] OTHER -> None

O == INSTANCE Operations WITH Answers <- StackChanges, stage <- Stage,
                              answer <- [o \in Ops |-> Answer(o)]

\* With all its goroutines an operation is one call that returns: the update is
\* run for changes that the status of the preview showed, and the StackChanges
\* stay as they were read (ReconcileObject over newUpdate and runEngineAction).
IsCall == O!Spec
=============================================================================
