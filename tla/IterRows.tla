------------------------------ MODULE IterRows ------------------------------
(***************************************************************************)
(* iter_state_rows: a background task drives the run into a queue, the     *)
(* generator takes frames off it until the sentinel, and its caller may    *)
(* leave, or be cancelled, at any frame.  A put on the unbounded queue     *)
(* never suspends, so what a channel writes for one item of its projection *)
(* is one step.  Of the channels, custom and values are drained here.      *)
(***************************************************************************)
EXTENDS Integers, SequencesExt

CONSTANTS
    Snapshots,      \* values: raw states, [client |-> slice, internal |-> rest]
    InitialState,   \* initial_state, NoState if the caller gave none
    NoState,
    Payloads,       \* custom: what graph nodes emit
    MaxItems        \* bound: snapshots and payloads of one run

ASSUME ItemBound == MaxItems \in Nat
\* A projection is a dict, never the None that _stream_values starts from, and the ops of
\* a tool_end are a list.
ASSUME StateAssumption == \A s \in Snapshots : s.client # NoState
ASSUME PayloadAssumption ==
    \A p \in Payloads : p.kind = "tool_end" => p.ops \in Seq(ToSet(p.ops))

VARIABLES
    consumer,   \* the generator: "opening", "getting", "holding", "joining", "ended"
    why,        \* what made it leave its loop
    outcome,    \* what its caller got in the end
    task,       \* the background task
    held,       \* the exception in flight in the task, or the one it ended with
    cancelling, \* task.cancel() was called and is not delivered yet
    prev,       \* the last projection _stream_values saw
    latest,     \* history: the last snapshot the graph yielded, as a client sees it
    items,      \* items drained
    queue,      \* the queue: frames, and the sentinel
    received    \* history: frames the caller was given

consumerVars == <<consumer, why, outcome, received>>
channelVars  == <<prev, latest, items>>
vars == <<consumerVars, task, held, cancelling, channelVars, queue>>

Frame(type, key, value) == [type |-> type, key |-> key, value |-> value]
CLOSED == Frame("CLOSED", "", "")
RunRow(status) == Frame("run", "run", status)
Types == {"run", "suggestion", "agentState", "interrupt",
          "toolSummary", "toolAction", "report", "effect"}

Put(frames) == queue' = queue \o frames

Init ==
    /\ consumer = "opening" /\ why = "none" /\ outcome = "none"
    /\ task = "none" /\ held = "none" /\ cancelling = FALSE
    /\ prev = NoState /\ latest = NoState /\ items = 0
    /\ queue = <<>> /\ received = <<>>

-----------------------------------------------------------------------------
(* The background task.                                                    *)

TaskStep == ~cancelling /\ UNCHANGED <<cancelling, consumerVars>>

\* emit_run_started, and the row seeded from initial_state.
StartRun ==
    /\ TaskStep
    /\ task = "created" /\ task' = "draining"
    /\ Put(<<RunRow("running"), Frame("suggestion", "thread", "deleted")>>
             \o IF InitialState = NoState THEN <<>>
                ELSE <<Frame("agentState", "thread", InitialState)>>)
    /\ UNCHANGED <<held, channelVars>>

Draining ==
    /\ TaskStep
    /\ task = "draining" /\ items < MaxItems
    /\ items' = items + 1
    /\ UNCHANGED <<task, held>>

\* project_client_state keeps the slices a client renders.
Project(snapshot) == snapshot.client

\* Faulty variant: a state is written once in a run, not once in a row.
TakeSnapshotOnce ==
    /\ Draining
    /\ \E s \in Snapshots :
         /\ latest' = Project(s) /\ prev' = Project(s)
         /\ LET f == Frame("agentState", "thread", Project(s)) IN
              Put(IF f \in ToSet(received \o queue) THEN <<>> ELSE <<f>>)

\* _stream_values: a snapshot that shows the client nothing new is not written.
TakeSnapshot ==
    /\ Draining
    /\ \E s \in Snapshots :
         /\ latest' = Project(s) /\ prev' = Project(s)
         /\ Put(IF Project(s) = prev THEN <<>>
                ELSE <<Frame("agentState", "thread", Project(s))>>)

\* The rows of a payload: keyed by its tool call if it carries what its branch asks
\* for; a report by its file; anything one-shot by a token of its own.
Fresh(i) == Len(received) + Len(queue) + i
Effect(value) == <<Frame("effect", Fresh(1), value)>>

OpFrames(ops) ==
    FlattenSeq([i \in DOMAIN ops |->
        CASE ops[i].type # "report_generated" -> <<Frame("effect", Fresh(i), ops[i].type)>>
          [] ops[i].type = "report_generated" /\ ops[i].file = "" -> <<>>
          [] OTHER -> <<Frame("report", ops[i].file, "report")>>])

CustomFrames(p) ==
    CASE p.kind = "tool_summary" ->
           IF p.call = "" THEN <<>> ELSE <<Frame("toolSummary", p.call, p.kind)>>
      [] p.kind = "tool_action" ->
           IF p.call = "" THEN <<>> ELSE <<Frame("toolAction", p.call, p.kind)>>
      [] p.kind = "tool_end" -> OpFrames(p.ops)
      [] p.kind \in {"on_state_row", "subagent_start", "subagent_end"} -> <<>>
      [] OTHER -> Effect(p.kind)

\* _handle_custom
TakePayload ==
    /\ Draining
    /\ \E p \in Payloads : Put(CustomFrames(p))
    /\ UNCHANGED <<prev, latest>>

\* A channel fails, or ends cancelled by itself; an error outranks a cancel.
GraphRaises ==
    /\ UNCHANGED <<cancelling, consumerVars, channelVars, queue>>
    /\ \/ task = "draining" /\ held' \in {"failed", "cancelled"}
       \/ task = "unwinding" /\ held' = "failed"
    /\ task' = "unwinding"

DrainEnds ==
    /\ TaskStep
    /\ task = "draining" /\ task' = "collecting"
    /\ UNCHANGED <<held, channelVars, queue>>

\* Faulty variant: the writer is closed before the terminal row.
AbortClosingFirst ==
    /\ TaskStep
    /\ task = "unwinding" /\ task' = "done"
    /\ Put(<<CLOSED, RunRow("error")>>)
    /\ UNCHANGED <<held, channelVars>>

\* The tasks and the stream are unwound: _abort_run, and the exception leaves run.
Abort ==
    /\ TaskStep
    /\ task = "unwinding" /\ task' = "done"
    /\ Put(<<RunRow("error"), CLOSED>>)
    /\ UNCHANGED <<held, channelVars>>

\* Faulty variant: the run row turns before the interrupt rows are written.
CompleteRowFirst ==
    /\ TaskStep
    /\ task = "collecting" /\ task' = "done"
    /\ Put(<<RunRow("complete"), CLOSED>>)
         \/ Put(<<RunRow("interrupt"), Frame("interrupt", "i", "open"), CLOSED>>)
    /\ UNCHANGED <<held, channelVars>>

\* _finalise
Complete ==
    /\ TaskStep
    /\ task = "collecting" /\ task' = "done"
    /\ Put(<<RunRow("complete"), CLOSED>>)
         \/ Put(<<Frame("interrupt", "i", "open"), RunRow("interrupt"), CLOSED>>)
    /\ UNCHANGED <<held, channelVars>>

\* interrupted() or interrupts() raises in _finalise: run ends, the writer is open.
CollectFails ==
    /\ TaskStep
    /\ task = "collecting" /\ task' = "done"
    /\ held' = "failed"
    /\ UNCHANGED <<channelVars, queue>>

\* The cancel is delivered where the task is suspended: before its first step and in
\* _finalise nothing handles it; while a failed run unwinds, the failure outranks it in
\* the group and loses to it in the exit of the stream.
CancelLands ==
    /\ cancelling /\ cancelling' = FALSE
    /\ task' = IF task \in {"created", "collecting"} THEN "done" ELSE "unwinding"
    /\ held' \in {"cancelled"} \cup ({held} \cap {"failed"})
    /\ UNCHANGED <<consumerVars, channelVars, queue>>

-----------------------------------------------------------------------------
(* The generator and its caller.                                           *)

\* make_run_stream returns a stream that has every channel the translator drains,
Open ==
    /\ consumer = "opening"
    /\ consumer' = "getting" /\ task' = "created"
    /\ UNCHANGED <<why, outcome, received, held, cancelling, channelVars, queue>>

\* or raises, when there is no task yet.
OpenFails ==
    /\ consumer = "opening"
    /\ consumer' = "ended" /\ outcome' = "failed" /\ why' = "failed"
    /\ UNCHANGED <<received, task, held, cancelling, channelVars, queue>>

\* Faulty variant: the task is awaited without being cancelled.
FinallyJoining(reason) ==
    /\ why' = reason
    /\ consumer' = IF task = "done" THEN "ended" ELSE "joining"
    /\ outcome' = IF task # "done" THEN outcome ELSE IF held = "none" THEN reason ELSE held
    /\ UNCHANGED cancelling

\* Faulty variant: the task is cancelled and not awaited.
FinallyAbandoning(reason) ==
    /\ why' = reason
    /\ consumer' = "ended"
    /\ outcome' = IF task = "done" /\ held # "none" THEN held ELSE reason
    /\ cancelling' = (task # "done")

\* The finally clause: a task that is done is awaited for its exception, one that is
\* not is cancelled first.
Finally(reason) ==
    /\ why' = reason
    /\ IF task = "done"
       THEN /\ consumer' = "ended"
            /\ outcome' = IF held = "none" THEN reason ELSE held
            /\ UNCHANGED cancelling
       ELSE /\ consumer' = "joining" /\ cancelling' = TRUE
            /\ UNCHANGED outcome

\* Faulty variant: the sentinel is handed on like a frame.
GetAnything ==
    /\ consumer = "getting" /\ queue # <<>>
    /\ consumer' = "holding"
    /\ received' = Append(received, Head(queue))
    /\ queue' = Tail(queue)
    /\ UNCHANGED <<why, outcome, task, held, cancelling, channelVars>>

Get ==
    /\ consumer = "getting" /\ queue # <<>> /\ Head(queue) # CLOSED
    /\ consumer' = "holding"
    /\ received' = Append(received, Head(queue))
    /\ queue' = Tail(queue)
    /\ UNCHANGED <<why, outcome, task, held, cancelling, channelVars>>

GetClosed ==
    /\ consumer = "getting" /\ queue # <<>> /\ Head(queue) = CLOSED
    /\ queue' = Tail(queue)
    /\ Finally("end")
    /\ UNCHANGED <<received, task, held, channelVars>>

\* The caller asks for the next frame.
GoOn ==
    /\ consumer = "holding" /\ consumer' = "getting"
    /\ UNCHANGED <<why, outcome, received, task, held, cancelling, channelVars, queue>>

\* The caller breaks out of its loop, or is cancelled while it waits for a frame.
Leave ==
    /\ \/ consumer = "holding" /\ Finally("left")
       \/ consumer = "getting" /\ Finally("cancelled")
    /\ UNCHANGED <<received, task, held, channelVars, queue>>

\* The cancelled task is done: its CancelledError is swallowed, its failure is not.  (A
\* cancel of the caller that arrives here goes to the task and is swallowed as well.)
Join ==
    /\ consumer = "joining" /\ task = "done"
    /\ consumer' = "ended"
    /\ outcome' = IF held = "failed" THEN held ELSE why
    /\ UNCHANGED <<why, received, task, held, cancelling, channelVars, queue>>

-----------------------------------------------------------------------------
Next ==
    \/ StartRun \/ TakeSnapshot \/ TakePayload \/ GraphRaises \/ DrainEnds
    \/ Abort \/ Complete \/ CollectFails \/ CancelLands
    \/ Open \/ OpenFails \/ Get \/ GetClosed \/ GoOn \/ Leave \/ Join

\* Tasks that can run are run, and what is cancelled unwinds.  Neither the graph nor
\* the caller has to do anything.
Fairness ==
    /\ WF_vars(Get) /\ WF_vars(GetClosed) /\ WF_vars(Join)
    /\ WF_vars(StartRun) /\ WF_vars(CancelLands) /\ WF_vars(Abort)

Spec == Init /\ [][Next]_vars /\ Fairness

-----------------------------------------------------------------------------
(* The stream as the caller is given it: the run row as it was last        *)
(* written, the frames of other types, and whether the generator came to   *)
(* the sentinel.                                                           *)

RunRowsOf(s)  == {i \in 1..Len(s) : s[i].type = "run"}
OthersOf(s)   == {i \in 1..Len(s) : s[i].type # "run"}
LastRunRow(s) == s[CHOOSE i \in RunRowsOf(s) : \A j \in RunRowsOf(s) : j <= i]
RowOf(s)      == IF s = <<>> THEN "prior" ELSE LastRunRow(s).value

Contract == INSTANCE RunContract WITH
    row    <- RowOf(received),
    frames <- Cardinality(OthersOf(received)),
    closes <- IF why = "end" THEN 1 ELSE 0

-----------------------------------------------------------------------------
(* Properties.                                                             *)

Outcomes == {"end", "left", "failed", "cancelled"}

TypeOK ==
    /\ consumer \in {"opening", "getting", "holding", "joining", "ended"}
    /\ why \in Outcomes \cup {"none"} /\ outcome \in Outcomes \cup {"none"}
    /\ task \in {"none", "created", "draining", "unwinding", "collecting", "done"}
    /\ held \in {"none", "failed", "cancelled"}
    /\ cancelling \in BOOLEAN
    /\ latest \in {Project(s) : s \in Snapshots} \cup {NoState}
    /\ items \in 0..MaxItems
    /\ \A i \in DOMAIN received : received[i].type \in Types
    /\ \A i \in DOMAIN queue : queue[i] = CLOSED \/ queue[i].type \in Types

\* "yields the frames ... in emission order, until the run closes" and "Any exception
\* raised inside the run propagates out of the iterator once its buffered frames have
\* been yielded": a caller that reads to the end has the whole run, terminal row last,
\* and learns of a failure exactly if the row reads "error".
IterationIsWhole ==
    consumer = "ended" /\ why = "end" =>
        /\ queue = <<>>
        /\ Head(received) = RunRow("running")
        /\ IF outcome = "end"
           THEN Last(received) \in {RunRow("complete"), RunRow("interrupt")}
           ELSE Last(received) = RunRow("error") /\ outcome = held

\* "yields the frames ... in emission order, until the run closes": what a caller is
\* handed keeps RunContract like the rows that run writes do (RunLifecycle).  The run row
\* opens it, frames follow while that reads "running", it becomes terminal once and
\* last, and only then the iteration ends by itself; a caller that leaves has a
\* beginning of that.
ReaderKeepsContract == Contract!ContractSpec

\* "cancel it so it stops burning LLM/tool cost instead of orphaning it": however the
\* iteration ended, no run goes on behind it.
NoOrphan == consumer = "ended" => task \in {"none", "done"}

\* The agentState row, seeded from initial_state and then written only when a snapshot
\* differs from the one before, always shows the graph's latest snapshot.
AgentStateCurrent ==
    LET rows    == received \o queue
        states  == {i \in DOMAIN rows : rows[i].type = "agentState"}
        current == IF latest = NoState THEN InitialState ELSE latest
    IN  rows # <<>> =>
          IF current = NoState THEN states = {}
          ELSE \E i \in states : rows[i].value = current /\ \A j \in states : j <= i

\* A caller that leaves early is let go although the graph may never yield again.
LeaveEnds == consumer = "joining" ~> consumer = "ended"

\* "so the drain loop below always terminates" (iter_state_rows): once the run is over
\* the generator does not go on waiting for a frame.
DrainLoopTerminates ==
    consumer = "getting" /\ task = "done" ~> consumer # "getting"

=============================================================================
