----------------------------- MODULE Operations -----------------------------
(***************************************************************************)
(* What the operations of one reconciliation are to the rest of it, and in *)
(* Reconciler: calls that return.  A preview answers with the status       *)
(* changes it found or fails; only a preview that found changes is         *)
(* followed by an update; what was answered does not change any more.      *)
(* Events, channels and goroutines are not to be seen here.                *)
(***************************************************************************)
CONSTANTS
    Answers,   \* what an operation can report
    None,      \* no answer yet
    Failed     \* the operation failed

VARIABLES
    op,        \* the operation it is at
    stage,     \* whether that one is still to be called, runs, or was the last
    answer     \* per operation: what it returned

operationVars == <<op, stage, answer>>

Init ==
    /\ op = "preview" /\ stage = "call"
    /\ answer = [o \in {"preview", "update"} |-> None]

\* The operation is called; it may fail before it begins.
Begin ==
    /\ stage = "call" /\ stage' \in {"running", "over"}
    /\ UNCHANGED <<op, answer>>

Fail ==
    /\ stage = "running" /\ stage' = "over"
    /\ answer' = [answer EXCEPT ![op] = Failed]
    /\ UNCHANGED op

\* The operation answers, and may be the last.
Finish(c) ==
    /\ stage = "running"
    /\ answer' = [answer EXCEPT ![op] = c]
    /\ \/ op = "preview" /\ c.has /\ op' = "update" /\ stage' = "call"
       \/ stage' = "over" /\ UNCHANGED op

Next == Begin \/ Fail \/ \E c \in Answers : Finish(c)

Spec == Init /\ [][Next]_operationVars
=============================================================================
