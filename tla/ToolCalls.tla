----------------------------- MODULE ToolCalls -----------------------------
(***************************************************************************)
(* The tool calls of a run that may pause and be resumed: what the graph   *)
(* does with a call, what the execution that watches it writes, and the    *)
(* interrupts the run ends with.  A call of a subagent is watched by       *)
(* _consume_subagent_tool, which first waits for the link to the call that *)
(* dispatched the subagent.  Both waits are bounded by a timer.            *)
(***************************************************************************)
EXTENDS Integers, SequencesExt

CONSTANTS
    TopCalls,       \* top-level calls, which the graph runs in parallel
    NestedCalls,    \* calls of subagents
    Dispatch,       \* the top-level call each nested call's subagent works for
    RawId,          \* the id LangGraph gives an interrupt of each call
    Named,          \* calls whose interrupt payload carries the tool_call_id
    Plain,          \* calls whose interrupt payload is not a dict
    NoAgent,        \* the row carries no agentId
    MayFail,        \* bound: calls whose tool may raise an error
    MaxRuns         \* bound: the first run and its resumes

Calls == TopCalls \cup NestedCalls

ASSUME DispatchAssumption == Dispatch \in [NestedCalls -> TopCalls]
ASSUME CallAssumption ==
    /\ TopCalls \cap NestedCalls = {} /\ NoAgent \notin TopCalls
    /\ DOMAIN RawId = Calls /\ Named \cup Plain \subseteq Calls
ASSUME RunBounds == MaxRuns \in Nat /\ MayFail \subseteq Calls

VARIABLES
    runs,       \* runs so far
    phase,      \* "run", "finalise", "interrupt", "clear" or "complete"
    tool,       \* the graph: what became of each call
    unanswered, \* the graph: paused calls the resume brought no answer for
    linked,     \* _subagent_tool_call: dispatch calls whose subagent is linked
    exec,       \* the await the task watching each call is suspended at
    result,     \* the result it is about to write
    late,       \* history: calls the drain's timeout overtook
    row,        \* the stream: tool rows
    interrupts, \* the stream: the call each interrupt row shows, by key
    todo        \* interrupt rows to write, or to delete, one by one

graphVars  == <<tool, unanswered>>
streamVars == <<row, interrupts>>
vars == <<runs, phase, graphVars, linked, exec, result, late, streamVars, todo>>

None == [none |-> TRUE]
Settled == {"ok", "error"}
Waiting == {"linking", "calling", "draining", "landing"}
Ended   == {"done", "paused", "skipped", "swallowed"}

NestedOf(c) == {n \in NestedCalls : Dispatch[n] = c}

Init ==
    /\ runs = 1 /\ phase = "run"
    /\ tool = [c \in Calls |-> IF c \in TopCalls THEN "running" ELSE "idle"]
    /\ unanswered = {} /\ linked = {} /\ late = {}
    /\ exec = [c \in Calls |-> "none"]
    /\ result = [c \in Calls |-> "none"]
    /\ row = [c \in Calls |-> None]
    /\ interrupts = <<>>
    /\ todo = {}

Running == phase = "run" /\ UNCHANGED <<runs, phase, interrupts, todo>>

-----------------------------------------------------------------------------
(* The graph.                                                              *)

\* A subagent asks for a call, once its dispatch is past any pause of its own.
StartNested(n) ==
    /\ Running
    /\ tool[n] = "idle" /\ tool[Dispatch[n]] = "running"
    /\ Dispatch[n] \notin unanswered
    /\ tool' = [tool EXCEPT ![n] = "running"]
    /\ UNCHANGED <<unanswered, linked, exec, result, late, row>>

\* A pause without an answer is met again; that of a nested call pauses the call that
\* dispatched its subagent.
Outcomes(c) ==
    IF c \in unanswered \/ \E n \in NestedOf(c) : tool[n] = "paused"
    THEN {"paused"}
    ELSE {"ok", "paused"} \cup IF c \in MayFail THEN {"error"} ELSE {}

EndTool(c) ==
    /\ Running
    /\ tool[c] = "running"
    /\ \A n \in NestedOf(c) : tool[n] # "running" /\ (n \in unanswered => tool[n] # "idle")
    /\ \E o \in Outcomes(c) : tool' = [tool EXCEPT ![c] = o]
    /\ UNCHANGED <<unanswered, linked, exec, result, late, row>>

\* Faulty variant: the two ids of the event are swapped.
LinkSwapped(c) ==
    /\ Running
    /\ NestedOf(c) # {} /\ tool[c] # "idle"
    /\ linked' = linked \cup NestedOf(c)
    /\ UNCHANGED <<graphVars, exec, result, late, row>>

\* The subagent_start event of the subagent of call c: _record_subagent_link.
Link(c) ==
    /\ Running
    /\ NestedOf(c) # {} /\ tool[c] # "idle"
    /\ linked' = linked \cup {c}
    /\ UNCHANGED <<graphVars, exec, result, late, row>>

-----------------------------------------------------------------------------
(* The task that watches a call.                                           *)

Watching == Running /\ UNCHANGED <<graphVars, linked>>

\* The tool_calls projection yields the call's handle.
Take(c) ==
    /\ Watching
    /\ exec[c] = "none" /\ tool[c] # "idle"
    /\ exec' = [exec EXCEPT ![c] = IF c \in NestedCalls THEN "linking" ELSE "calling"]
    /\ UNCHANGED <<result, late, row>>

\* _subagent_agent_id: the wait ends with the link,
SeeLink(c) ==
    /\ Watching
    /\ exec[c] = "linking" /\ Dispatch[c] \in linked
    /\ exec' = [exec EXCEPT ![c] = "calling"]
    /\ UNCHANGED <<result, late, row>>

\* Faulty variant: after the timeout the rows are written without an agent.
LinkTimeoutUntagged(c) ==
    /\ Watching
    /\ exec[c] = "linking"
    /\ exec' = [exec EXCEPT ![c] = "calling"]
    /\ UNCHANGED <<result, late, row>>

\* or with its timer, which can fire just as the link lands: the call is left out.
LinkTimeout(c) ==
    /\ Watching
    /\ exec[c] = "linking"
    /\ exec' = [exec EXCEPT ![c] = "skipped"]
    /\ UNCHANGED <<result, late, row>>

\* The whole row is written each time, so a result it had is gone.
Row(c, res) ==
    [agent  |-> IF c \in NestedCalls /\ Dispatch[c] \in linked THEN Dispatch[c] ELSE NoAgent,
     result |-> res]

LandCall(c) ==
    /\ Watching
    /\ exec[c] = "calling"
    /\ row' = [row EXCEPT ![c] = Row(c, "none")]
    /\ exec' = [exec EXCEPT ![c] = "draining"]
    /\ late' = late \ {c}
    /\ UNCHANGED result

\* Faulty variant: a pause is taken for a failure.
AfterDrainFailing(c) ==
    /\ exec' = [exec EXCEPT ![c] = "landing"]
    /\ result' = [result EXCEPT ![c] = CASE tool[c] = "running" -> "null"
                                         [] tool[c] = "paused" -> "error"
                                         [] OTHER -> tool[c]]

\* What the drain leaves is read without an await: an interrupt pauses the call, a
\* tool that has not ended has no output, which reads "null".
AfterDrain(c) ==
    IF tool[c] = "paused"
    THEN exec' = [exec EXCEPT ![c] = "paused"] /\ UNCHANGED result
    ELSE /\ exec' = [exec EXCEPT ![c] = "landing"]
         /\ result' = [result EXCEPT ![c] = IF tool[c] = "running" THEN "null" ELSE tool[c]]

\* output_deltas ends with the tool.
EndDrain(c) ==
    /\ Watching
    /\ exec[c] = "draining" /\ tool[c] # "running"
    /\ AfterDrain(c)
    /\ UNCHANGED <<late, row>>

\* Faulty variant: nothing bounds the drain of a tool that is still running.
DrainUnbounded(c) ==
    /\ Watching
    /\ exec[c] = "draining" /\ tool[c] # "running"
    /\ AfterDrain(c)
    /\ late' = late \cup {c}
    /\ UNCHANGED row

\* _TOOL_OUTPUT_DRAIN_TIMEOUT has passed, whatever the tool is doing.
DrainTimeout(c) ==
    /\ Watching
    /\ exec[c] = "draining"
    /\ AfterDrain(c)
    /\ late' = IF tool[c] = "running" THEN late \cup {c} ELSE late
    /\ UNCHANGED row

\* output_deltas raises CancelledError by itself: the TaskGroup passes over the task.
SwallowCancel(c) ==
    /\ Watching
    /\ exec[c] = "draining"
    /\ exec' = [exec EXCEPT ![c] = "swallowed"]
    /\ UNCHANGED <<result, late, row>>

\* Faulty variant: the task lands its result and drains once more.
LandResultAgain(c) ==
    /\ Watching
    /\ exec[c] = "landing"
    /\ row' = [row EXCEPT ![c] = Row(c, result[c])]
    /\ exec' = [exec EXCEPT ![c] = "calling"]
    /\ UNCHANGED <<result, late>>

LandResult(c) ==
    /\ Watching
    /\ exec[c] = "landing"
    /\ row' = [row EXCEPT ![c] = Row(c, result[c])]
    /\ exec' = [exec EXCEPT ![c] = "done"]
    /\ result' = [result EXCEPT ![c] = "none"]
    /\ UNCHANGED late

-----------------------------------------------------------------------------
(* The end of a run, and its resume.                                       *)

\* The interrupts the stream holds: a pause that came from below is listed once.
Open == {c \in Calls : tool[c] = "paused" /\ \A n \in NestedOf(c) : tool[n] # "paused"}

\* Those of them a row can show.
Listed == Open \ Plain

\* Faulty variant: a row is keyed by the id LangGraph gave, shared or not.
RowKeyRaw(s, i) == <<RawId[s[i]]>>

\* ag_ui_interrupt_rows: an id seen before is told apart by the call, or by a count.
RowKey(s, i) ==
    LET before == Cardinality({j \in 1..(i - 1) : RawId[s[j]] = RawId[s[i]]}) IN
    IF before = 0 THEN <<RawId[s[i]]>>
    ELSE <<RawId[s[i]], IF s[i] \in Named THEN s[i] ELSE before>>

InterruptRows(s) == {[key |-> RowKey(s, i), call |-> s[i]] : i \in DOMAIN s}

Quiet(c) ==
    /\ tool[c] # "running" /\ exec[c] \notin Waiting
    /\ tool[c] # "idle" => exec[c] # "none"

\* The stream is exhausted: _finalise collects its interrupts, and without a row for
\* one the run is complete.
EndRun ==
    /\ phase = "run"
    /\ \A c \in Calls : Quiet(c)
    /\ phase' = IF Listed = {} THEN "complete" ELSE "finalise"
    /\ \E s \in SetToSeqs(Listed) : todo' = InterruptRows(s)
    /\ UNCHANGED <<runs, graphVars, linked, exec, result, late, streamVars>>

UpsertInterrupt ==
    /\ phase = "finalise"
    /\ \E r \in todo :
         /\ interrupts' = [k \in DOMAIN interrupts \cup {r.key} |->
                             IF k = r.key THEN r.call ELSE interrupts[k]]
         /\ todo' = todo \ {r}
    /\ UNCHANGED <<runs, phase, graphVars, linked, exec, result, late, row>>

\* The run row reads "interrupt".
Pause ==
    /\ phase = "finalise" /\ todo = {}
    /\ phase' = "interrupt"
    /\ UNCHANGED <<runs, graphVars, linked, exec, result, late, streamVars, todo>>

\* The caller resumes with answers for some of the calls, and addresses every
\* interrupt row that shows one of them.
Resume ==
    /\ phase = "interrupt" /\ runs < MaxRuns
    /\ phase' = "clear"
    /\ \E answered \in (SUBSET Open) \ {{}} :
         /\ unanswered' = Open \ answered
         /\ todo' = {[key |-> k, call |-> interrupts[k]] :
                       k \in {k \in DOMAIN interrupts : interrupts[k] \in answered}}
    /\ UNCHANGED <<runs, tool, linked, exec, result, late, streamVars>>

\* Faulty variant: the rows are forgotten, not deleted.
ClearInterruptKeeping ==
    /\ phase = "clear"
    /\ \E r \in todo : todo' = todo \ {r}
    /\ UNCHANGED <<runs, phase, graphVars, linked, exec, result, late, streamVars>>

\* clear_interrupts
ClearInterrupt ==
    /\ phase = "clear"
    /\ \E r \in todo : /\ todo' = todo \ {r}
                       /\ interrupts' = [k \in DOMAIN interrupts \ {r.key} |-> interrupts[k]]
    /\ UNCHANGED <<runs, phase, graphVars, linked, exec, result, late, row>>

\* The resumed run has a translator of its own, and runs what was paused once more.
RunAgain ==
    /\ phase = "clear" /\ todo = {}
    /\ phase' = "run" /\ runs' = runs + 1
    /\ linked' = {}
    /\ tool' = [c \in Calls |-> IF tool[c] # "paused" THEN tool[c]
                                ELSE IF c \in TopCalls THEN "running" ELSE "idle"]
    /\ exec' = [c \in Calls |-> IF tool[c] = "paused" THEN "none" ELSE exec[c]]
    /\ UNCHANGED <<unanswered, result, late, streamVars, todo>>

-----------------------------------------------------------------------------
WatchStep(c) ==
    \/ SeeLink(c) \/ LinkTimeout(c) \/ LandCall(c)
    \/ EndDrain(c) \/ DrainTimeout(c) \/ LandResult(c)

Next ==
    \/ \E c \in Calls : EndTool(c) \/ Take(c) \/ WatchStep(c) \/ SwallowCancel(c)
    \/ \E n \in NestedCalls : StartNested(n)
    \/ \E c \in TopCalls : Link(c)
    \/ EndRun \/ UpsertInterrupt \/ Pause
    \/ Resume \/ ClearInterrupt \/ RunAgain

\* Writes return and timers fire.  Nothing is assumed of the graph: a tool need not
\* end, nor a link arrive.
Spec == Init /\ [][Next]_vars /\ \A c \in Calls : WF_vars(WatchStep(c))

Rows == INSTANCE ToolRow WITH
    run   <- runs,
    shown <- [c \in Calls |-> CASE row[c] = None -> "absent"
                                [] row[c] # None /\ row[c].result = "none" -> "called"
                                [] OTHER -> "settled"],
    due   <- {c \in Calls : exec[c] \in {"none", "linking", "calling"}}

-----------------------------------------------------------------------------
(* Properties.                                                             *)

TypeOK ==
    /\ runs \in Nat
    /\ phase \in {"run", "finalise", "interrupt", "clear", "complete"}
    /\ tool \in [Calls -> {"idle", "running", "paused"} \cup Settled]
    /\ unanswered \subseteq Calls /\ linked \subseteq TopCalls /\ late \subseteq Calls
    /\ exec \in [Calls -> {"none"} \cup Waiting \cup Ended]
    /\ result \in [Calls -> {"none", "null"} \cup Settled]
    /\ row \in [Calls -> {None} \cup [agent  : TopCalls \cup {NoAgent},
                                     result : {"none", "null"} \cup Settled]]
    /\ \A k \in DOMAIN interrupts : interrupts[k] \in Calls
    /\ \A r \in todo : r.call \in Calls

\* "an untagged row would leak into the parent transcript" (_subagent_agent_id): the
\* rows of a subagent carry the call that dispatched it, whenever its link comes, and
\* no other row carries an agent.
NestedRowsTagged ==
    \A c \in Calls : row[c] # None =>
        row[c].agent = IF c \in NestedCalls THEN Dispatch[c] ELSE NoAgent

\* A result on a row is what the tool came to, unless the timeout overtook the tool; a
\* paused call shows none.  On a completed run the only calls left without a result are
\* those whose drain was cancelled from within, those a missing link left out, those a
\* resumed subagent did not ask for again, and those of a pause that no row can show.
ResultsAreTrue ==
    \A c \in Calls : row[c] # None =>
        /\ row[c].result # "none" => c \in late \/ row[c].result = tool[c]
        /\ phase = "complete" /\ row[c].result = "none" =>
             \/ exec[c] \in {"swallowed", "skipped", "none"}
             \/ exec[c] = "paused" /\ Open # {} /\ Open \subseteq Plain

\* "Upserting two rows under the same key would silently drop one interrupt"
\* (ag_ui_interrupt_rows): a paused run shows every open interrupt with a payload it can
\* show, whatever ids they share with each other or with rows an earlier run left.
OpenInterruptsShown ==
    phase = "interrupt" => \A c \in Listed : \E k \in DOMAIN interrupts : interrupts[k] = c

\* "would otherwise linger in the client's shared collection" (clear_interrupts): a run
\* that has ended leaves no interrupt row but of calls that are open.
NoStaleInterrupt ==
    phase \in {"interrupt", "complete"} =>
        \A k \in DOMAIN interrupts : interrupts[k] \in Open

\* In one run a row goes from its call to its result and never back (ToolRow).
KeepsRows == Rows!RowSpec

\* "bounded so a wedged stream can't hang the run" (_drain_output_deltas): a call that
\* was taken is done with, though its tool never ends and its link never comes.
CallsEnd == \A c \in Calls : exec[c] \in Waiting ~> exec[c] \in Ended

=============================================================================
