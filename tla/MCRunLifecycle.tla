-------------------------- MODULE MCRunLifecycle --------------------------
(***************************************************************************)
(* An instance of RunLifecycle.  Of the five projections the two that own  *)
(* tasks in a nested group are taken; one that only writes behaves as      *)
(* tool_calls does before it has started anything.  t1 is a tool           *)
(* execution, d1 the drain of a subagent's projection, and s1 an execution *)
(* that drain starts.                                                      *)
(***************************************************************************)
EXTENDS RunLifecycle

CONSTANTS tool_calls, subgraphs, t1, d1, s1

MCChannels == {tool_calls, subgraphs}
MCWorkers  == {t1, d1, s1}
MCDrains   == {d1}
MCOwner    == [w \in MCWorkers |-> IF w = t1 THEN tool_calls ELSE subgraphs]

=============================================================================
