----------------------------- MODULE MCIterRows -----------------------------
(***************************************************************************)
(* IterRows with three snapshots, two of which look alike to a client, and *)
(* a payload for each branch of _handle_custom that differs in what it     *)
(* writes: nothing, a keyed row or none for want of a key, the ops of a    *)
(* tool, an effect of its own, and an effect made of anything else.        *)
(***************************************************************************)
EXTENDS IterRows

MCSnapshots ==
    {[client |-> "idle", internal |-> 1], [client |-> "idle", internal |-> 2],
     [client |-> "busy", internal |-> 1]}

MCPayloads ==
    {[kind |-> "tool_summary", call |-> "c"], [kind |-> "tool_action", call |-> ""],
     [kind |-> "on_state_row"], [kind |-> "subagent_start"], [kind |-> "subagent_end"],
     [kind |-> "compaction_start"], [kind |-> "anything"],
     [kind |-> "tool_end", ops |-> <<[type |-> "report_generated", file |-> "f"],
                                     [type |-> "navigate"]>>]}

=============================================================================
