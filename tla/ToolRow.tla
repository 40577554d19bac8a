------------------------------ MODULE ToolRow ------------------------------
(***************************************************************************)
(* What the reader of a stream is promised of tool rows.  In one run a row *)
(* shows its call first and its result after that, each once; it never     *)
(* goes back to running.  Only a later run may ask for the call again.     *)
(***************************************************************************)
EXTENDS Naturals

CONSTANT Calls

VARIABLES
    run,        \* the number of the run
    shown,      \* "absent", "called" or "settled"
    due         \* calls this run has not shown yet

rowVars == <<run, shown, due>>

RowInit == run = 1 /\ shown = [c \in Calls |-> "absent"] /\ due = Calls

ShowCall(c) ==
    /\ c \in due
    /\ due' = due \ {c}
    /\ shown' = [shown EXCEPT ![c] = "called"]
    /\ UNCHANGED run

\* The run does not show this call after all.
Omit(c) ==
    /\ c \in due
    /\ due' = due \ {c}
    /\ UNCHANGED <<run, shown>>

Settle(c) ==
    /\ c \notin due /\ shown[c] = "called"
    /\ shown' = [shown EXCEPT ![c] = "settled"]
    /\ UNCHANGED <<run, due>>

RunAgain ==
    /\ run' = run + 1
    /\ due' \in SUBSET Calls
    /\ UNCHANGED shown

RowNext == RunAgain \/ \E c \in Calls : ShowCall(c) \/ Omit(c) \/ Settle(c)

RowSpec == RowInit /\ [][RowNext]_rowVars

=============================================================================
