---------------------------- MODULE RunContract ----------------------------
(***************************************************************************)
(* What one run promises the reader of a conversation stream: the run row  *)
(* is opened, ordinary frames follow while it reads "running", the row     *)
(* becomes terminal once, and the writer is closed once, last.  A run that *)
(* is cut short may stop at any point of that line; it never runs it       *)
(* backwards and never adds to it once it is over.                         *)
(***************************************************************************)
EXTENDS Naturals

VARIABLES
    row,        \* status of the run row: "prior" is whatever an earlier run left
    frames,     \* number of frames on the stream other than the run row
    closes      \* number of times the writer was closed

contractVars == <<row, frames, closes>>

\* The statuses after which the client stops showing the run as live.
Terminal == {"complete", "interrupt", "error"}

ContractInit ==
    /\ row \in {"prior", "running"}
    /\ frames = 0
    /\ closes = 0

Open ==
    /\ row = "prior"
    /\ row' = "running"
    /\ UNCHANGED <<frames, closes>>

Append ==
    /\ row = "running"
    /\ frames' = frames + 1
    /\ UNCHANGED <<row, closes>>

Finish ==
    /\ row = "running"
    /\ row' \in Terminal
    /\ UNCHANGED <<frames, closes>>

Close ==
    /\ row \in Terminal
    /\ closes = 0
    /\ closes' = 1
    /\ UNCHANGED <<row, frames>>

ContractNext == Open \/ Append \/ Finish \/ Close

ContractSpec == ContractInit /\ [][ContractNext]_contractVars

=============================================================================
