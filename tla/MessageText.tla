---------------------------- MODULE MessageText ----------------------------
(***************************************************************************)
(* What a reader of the stream is promised of a message: the text it shows *)
(* is always a prefix of what the model said, never shrinks, and is all of *)
(* it once the message is over.  Lengths stand for the texts; a client     *)
(* whose chunks do not join up shows Garbled, which no action allows.      *)
(***************************************************************************)
EXTENDS Integers

CONSTANTS Messages, Parts

VARIABLES
    said,       \* how much of each part of a message the model has produced
    shown,      \* how much of it the reader of the stream sees
    over        \* messages that were streamed to their end

textVars == <<said, shown, over>>

Garbled == -1

TextInit ==
    /\ said = [m \in Messages |-> [p \in Parts |-> 0]]
    /\ shown = said
    /\ over = {}

Say(m, p) ==
    /\ m \notin over
    /\ said'[m][p] \in Nat /\ said'[m][p] > said[m][p]
    /\ said' = [said EXCEPT ![m][p] = said'[m][p]]
    /\ UNCHANGED <<shown, over>>

\* Rows land: no part of any message shrinks, or outgrows what was said.
Show ==
    /\ \A m \in Messages, p \in Parts : shown'[m][p] \in shown[m][p]..said[m][p]
    /\ shown' = [m \in Messages |-> [p \in Parts |-> shown'[m][p]]]
    /\ UNCHANGED <<said, over>>

End(m) ==
    /\ over' = over \cup {m}
    /\ shown' = [shown EXCEPT ![m] = said[m]]
    /\ UNCHANGED said

TextNext ==
    Show \/ \E m \in Messages : End(m) \/ \E p \in Parts : Say(m, p)

TextSpec == TextInit /\ [][TextNext]_textVars

=============================================================================
