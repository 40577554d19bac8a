-------------------------- MODULE MCMessageStream --------------------------
(* MessageStream on a message of the run and a shorter one of a subagent.   *)
EXTENDS MessageStream

CONSTANTS m1, s1

MCChannel == m1 :> "messages" @@ s1 :> "subagent"
MCDeltas  == m1 :> 4 @@ s1 :> 1
MCFlush   == [p \in Parts |-> IF p = "text" THEN 3 ELSE 2]

=============================================================================
