----------------------------- MODULE TurnOrder -----------------------------
(***************************************************************************)
(* The order and ordinal counters over the turns of one conversation.      *)
(* Each turn is a translate_turn: a fresh StateTranslator, its counters    *)
(* seeded from the history the caller folded, one user row, and a run that *)
(* stamps rows from several tasks while the graph runs ahead of them.  A   *)
(* turn a tool paused is resumed by one more run of the graph, with one    *)
(* more translator.                                                        *)
(***************************************************************************)
EXTENDS Integers, Sequences, FiniteSetsExt

CONSTANTS
    MaxTurns,       \* bound: turns of the conversation
    MaxMessages,    \* bound: model messages of one turn
    MaxCalls,       \* bound: tool calls one message asks for
    MaxNested,      \* bound: rows written by subagents in one turn
    MaxRestreams,   \* bound: messages whose id the graph streams once more
    MaxResumes,     \* bound: runs that resume a paused turn
    MaxForgets,     \* bound: messages compacted away, and turns that go unfolded
    FromStream      \* the caller reads ordinal_start and order_start off the stream

ASSUME SeedingAssumption == FromStream \in BOOLEAN

ASSUME OrderBounds ==
    {MaxTurns, MaxMessages, MaxCalls, MaxNested, MaxRestreams, MaxResumes, MaxForgets}
        \subseteq Nat

None == -1

Turns == 1..MaxTurns
UserKey(t)      == <<t, 0>>
MessageKey(t, m) == <<t, m>>
Messages == {<<t, m>> : t \in Turns, m \in 0..MaxMessages}
Tools    == {<<t, m, c>> : t \in Turns, m \in 1..MaxMessages, c \in 1..MaxCalls}
Nested   == {<<t, 0, n>> : t \in Turns, n \in 1..MaxNested}
Keys     == Messages \cup Tools \cup Nested

VARIABLES
    turn,           \* the turn under way, or the last one
    phase,          \* "idle", "user" (its row is being written) or "run"
    history,        \* ids of the messages and calls the folded history carries
    resumes,        \* runs that resumed a turn so far
    forgets,        \* what the caller lost from the history so far
    ordinalSeq,     \* self._ordinal
    orderSeq,       \* self._order_seq
    ordinals,       \* self._ordinals, None where there is no entry
    orders,         \* self._order_by_key, likewise
    speaking,       \* the graph's model is producing its latest message
    started,        \* model messages the graph started this turn
    restreams,      \* messages it streamed once more
    messageQueue,   \* handles the messages projection has yet to yield
    messageTask,    \* what the messages task is doing, and for which message
    toolTask,       \* how far each tool call has come
    nestedTask,     \* how far each subagent row has come
    rowOrder,       \* the stream: order of each row on it, None if it has none
    rowOrdinal      \* the stream: ordinal of each top-level message row

callerVars     == <<turn, phase, history, resumes, forgets>>
translatorVars == <<ordinalSeq, orderSeq, ordinals, orders>>
graphVars      == <<speaking, started, restreams>>
streamVars     == <<rowOrder, rowOrdinal>>
taskVars       == <<messageQueue, messageTask, toolTask, nestedTask>>
vars == <<callerVars, translatorVars, graphVars, taskVars, streamVars>>

ToolStates ==
    {"none", "asked", "queued", "calling", "draining", "landing", "done", "paused"}
Idle == [at |-> "idle", key |-> UserKey(0)]

TypeOK ==
    /\ turn \in 0..MaxTurns
    /\ phase \in {"idle", "user", "run"}
    /\ history \in [messages : SUBSET Messages, calls : SUBSET Tools]
    /\ resumes \in 0..MaxResumes /\ forgets \in 0..MaxForgets
    /\ ordinalSeq \in Nat /\ orderSeq \in Nat
    /\ ordinals \in [Messages -> Nat \cup {None}]
    /\ orders \in [Keys -> Nat \cup {None}]
    /\ speaking \in BOOLEAN
    /\ started \in 0..MaxMessages
    /\ restreams \in 0..MaxRestreams
    /\ messageQueue \in Seq(Messages)
    /\ messageTask = Idle \/ messageTask \in [at : {"anchor", "text"}, key : Messages]
    /\ toolTask \in [Tools -> ToolStates]
    /\ nestedTask \in [Nested -> {"none", "calling", "done"}]
    /\ rowOrder \in [Keys -> Nat \cup {None}]
    /\ rowOrdinal \in [Messages -> Nat \cup {None}]

Init ==
    /\ turn = 0 /\ phase = "idle"
    /\ history = [messages |-> {}, calls |-> {}]
    /\ resumes = 0 /\ forgets = 0
    /\ ordinalSeq = 0 /\ orderSeq = 0
    /\ ordinals = [k \in Messages |-> None]
    /\ orders = [k \in Keys |-> None]
    /\ speaking = FALSE /\ started = 0 /\ restreams = 0
    /\ messageQueue = <<>> /\ messageTask = Idle
    /\ toolTask = [k \in Tools |-> "none"]
    /\ nestedTask = [k \in Nested |-> "none"]
    /\ rowOrder = [k \in Keys |-> None]
    /\ rowOrdinal = [k \in Messages |-> None]

-----------------------------------------------------------------------------
(* Counters.                                                               *)

\* The next free ordinal and order after a history: a slot for each message that
\* carries an id, and a further order for each tool call that does.
NextLiveOrdinal(h) == Cardinality(h.messages)

\* Faulty variant: the tool calls are left out of the count.
NextLiveOrderNoCalls(h) == NextLiveOrdinal(h)

NextLiveOrder(h) == NextLiveOrdinal(h) + Cardinality(h.calls)

\* Faulty variant: a message seen before takes a new slot.
NextOrdinalAfresh(k) ==
    /\ ordinals' = [ordinals EXCEPT ![k] = ordinalSeq]
    /\ ordinalSeq' = ordinalSeq + 1

\* A message is stamped with an ordinal, any row with an order, the first time its
\* key is seen; both happen without an await in between.
NextOrdinal(k) ==
    IF ordinals[k] # None
    THEN UNCHANGED <<ordinals, ordinalSeq>>
    ELSE /\ ordinals' = [ordinals EXCEPT ![k] = ordinalSeq]
         /\ ordinalSeq' = ordinalSeq + 1

\* Faulty variant: a key seen before is stamped again.
RenderOrderAfresh(k) ==
    /\ orders' = [orders EXCEPT ![k] = orderSeq]
    /\ orderSeq' = orderSeq + 1

\* Faulty variant: the counter is not moved on, as if an await stood before that.
RenderOrderShared(k) ==
    /\ orders' = [orders EXCEPT ![k] = IF @ # None THEN @ ELSE orderSeq]
    /\ UNCHANGED orderSeq

RenderOrder(k) ==
    IF orders[k] # None
    THEN UNCHANGED <<orders, orderSeq>>
    ELSE /\ orders' = [orders EXCEPT ![k] = orderSeq]
         /\ orderSeq' = orderSeq + 1

\* The row of key k lands, carrying what the translator stamped on it.
Land(k) ==
    /\ rowOrder' = [rowOrder EXCEPT ![k] = orders[k]]
    /\ rowOrdinal' = IF k \in Messages
                     THEN [rowOrdinal EXCEPT ![k] = ordinals[k]] ELSE rowOrdinal

-----------------------------------------------------------------------------
(* A turn begins: translate_turn.                                          *)

\* Faulty variant: the caller passes the highest order instead of one past it.
OrderStartHighest ==
    IF FromStream THEN Max({rowOrder[k] : k \in Keys} \cup {0})
    ELSE NextLiveOrder(history)

\* The counters are seeded from the history, or by the caller with "one past the
\* highest order the stream has already carried" (None is below every order).
OrderStart ==
    IF FromStream THEN Max({rowOrder[k] : k \in Keys}) + 1 ELSE NextLiveOrder(history)

OrdinalStart ==
    IF FromStream THEN Max({rowOrdinal[k] : k \in Messages}) + 1
    ELSE NextLiveOrdinal(history)

\* A new translator, seeded past the history, stamps the user's message.
BeginTurn ==
    /\ phase = "idle" /\ turn < MaxTurns
    /\ turn' = turn + 1
    /\ phase' = "user"
    /\ ordinals' = [k \in Messages |-> IF k = UserKey(turn + 1) THEN OrdinalStart ELSE None]
    /\ ordinalSeq' = OrdinalStart + 1
    /\ orders' = [k \in Keys |-> IF k = UserKey(turn + 1) THEN OrderStart ELSE None]
    /\ orderSeq' = OrderStart + 1
    /\ toolTask' = [k \in Tools |-> "none"] /\ started' = 0
    /\ UNCHANGED <<history, resumes, forgets, speaking, restreams, messageQueue,
                   messageTask, nestedTask, streamVars>>

LandUser ==
    /\ phase = "user"
    /\ phase' = "run"
    /\ Land(UserKey(turn))
    /\ UNCHANGED <<turn, history, resumes, forgets, translatorVars, graphVars, taskVars>>

\* The graph is resumed with a new translator, seeded like a turn's, and no user row:
\* it replays the calls that paused.
Resume(ordinalStart, orderStart) ==
    /\ phase = "idle" /\ resumes < MaxResumes
    /\ \E k \in Tools : toolTask[k] = "paused"
    /\ phase' = "run" /\ resumes' = resumes + 1
    /\ ordinals' = [k \in Messages |-> None] /\ ordinalSeq' = ordinalStart
    /\ orders' = [k \in Keys |-> None] /\ orderSeq' = orderStart
    /\ toolTask' = [k \in Tools |-> IF toolTask[k] = "paused" THEN "asked" ELSE toolTask[k]]
    /\ UNCHANGED <<turn, history, forgets, graphVars, messageQueue, messageTask,
                   nestedTask, streamVars>>

\* Faulty variant: the counters start at zero.
ResumeTurnUnseeded == Resume(0, 0)

ResumeTurn == Resume(OrdinalStart, OrderStart)

-----------------------------------------------------------------------------
(* The graph: what the projections of the run stream will yield.           *)

Running == phase = "run" /\ UNCHANGED callerVars

\* The model starts a message once the tools it last asked for have been run.
StartMessage ==
    /\ Running
    /\ ~speaking /\ started < MaxMessages
    /\ \A k \in Tools : toolTask[k] \notin {"asked", "paused"}
    /\ speaking' = TRUE
    /\ started' = started + 1
    /\ messageQueue' = Append(messageQueue, MessageKey(turn, started + 1))
    /\ UNCHANGED <<restreams, translatorVars, messageTask, toolTask, nestedTask,
                   streamVars>>

\* A handle comes with the id of a message already streamed.
Restream ==
    /\ Running
    /\ restreams < MaxRestreams
    /\ restreams' = restreams + 1
    /\ \E m \in 1..started : messageQueue' = Append(messageQueue, MessageKey(turn, m))
    /\ UNCHANGED <<speaking, started, translatorVars, messageTask, toolTask,
                   nestedTask, streamVars>>

\* The message ends, asking for some tool calls.
FinishMessage ==
    /\ Running
    /\ speaking
    /\ speaking' = FALSE
    /\ \E n \in 0..MaxCalls :
         toolTask' = [k \in Tools |->
                        IF \E c \in 1..n : k = <<turn, started, c>>
                        THEN "asked" ELSE toolTask[k]]
    /\ UNCHANGED <<started, restreams, translatorVars, messageQueue, messageTask,
                   nestedTask, streamVars>>

\* The graph runs a tool: the tool_calls projection has a handle to yield.
RunTool(k) ==
    /\ Running
    /\ toolTask[k] = "asked"
    /\ toolTask' = [toolTask EXCEPT ![k] = "queued"]
    /\ UNCHANGED <<translatorVars, graphVars, messageQueue, messageTask, nestedTask,
                   streamVars>>

-----------------------------------------------------------------------------
(* The tasks of the run.                                                   *)

\* _consume_message stamps the anchor before its first await.
TakeMessage ==
    /\ Running
    /\ messageTask = Idle /\ messageQueue # <<>>
    /\ NextOrdinal(Head(messageQueue))
    /\ RenderOrder(Head(messageQueue))
    /\ messageTask' = [at |-> "anchor", key |-> Head(messageQueue)]
    /\ messageQueue' = Tail(messageQueue)
    /\ UNCHANGED <<graphVars, toolTask, nestedTask, streamVars>>

LandAnchor ==
    /\ Running
    /\ messageTask.at = "anchor"
    /\ Land(messageTask.key)
    /\ messageTask' = [messageTask EXCEPT !.at = "text"]
    /\ UNCHANGED <<translatorVars, graphVars, messageQueue, toolTask, nestedTask>>

\* The deltas are driven until the message ends; only then is the next one taken.
EndText ==
    /\ Running
    /\ messageTask.at = "text"
    /\ ~(speaking /\ messageTask.key = MessageKey(turn, started))
    /\ messageTask' = Idle
    /\ UNCHANGED <<translatorVars, graphVars, messageQueue, toolTask, nestedTask,
                   streamVars>>

\* _consume_tool_call_execution stamps the row before its first await.
TakeTool(k) ==
    /\ Running
    /\ toolTask[k] = "queued"
    /\ RenderOrder(k)
    /\ toolTask' = [toolTask EXCEPT ![k] = "calling"]
    /\ UNCHANGED <<ordinals, ordinalSeq, graphVars, messageQueue, messageTask,
                   nestedTask, streamVars>>

LandCall(k) ==
    /\ Running
    /\ toolTask[k] = "calling"
    /\ Land(k)
    /\ toolTask' = [toolTask EXCEPT ![k] = "draining"]
    /\ UNCHANGED <<translatorVars, graphVars, messageQueue, messageTask, nestedTask>>

\* The drain ends; a call that paused writes nothing more, and the model nothing
\* until it is resumed.
EndToolDrain(k) ==
    /\ Running
    /\ toolTask[k] = "draining"
    /\ \/ toolTask' = [toolTask EXCEPT ![k] = "landing"]
       \/ /\ ~speaking /\ k[2] = started
          /\ toolTask' = [toolTask EXCEPT ![k] = "paused"]
    /\ UNCHANGED <<translatorVars, graphVars, messageQueue, messageTask, nestedTask,
                   streamVars>>

LandResult(k) ==
    /\ Running
    /\ toolTask[k] = "landing"
    /\ Land(k)
    /\ toolTask' = [toolTask EXCEPT ![k] = "done"]
    /\ UNCHANGED <<translatorVars, graphVars, messageQueue, messageTask, nestedTask>>

\* A subagent of a tool under way stamps a row of its own off the same counter.
TakeNested(k) ==
    /\ Running
    /\ k[1] = turn /\ nestedTask[k] = "none"
    /\ \E d \in Tools : toolTask[d] \in {"calling", "draining"}
    /\ RenderOrder(k)
    /\ nestedTask' = [nestedTask EXCEPT ![k] = "calling"]
    /\ UNCHANGED <<ordinals, ordinalSeq, graphVars, messageQueue, messageTask,
                   toolTask, streamVars>>

LandNested(k) ==
    /\ Running
    /\ nestedTask[k] = "calling"
    /\ Land(k)
    /\ nestedTask' = [nestedTask EXCEPT ![k] = "done"]
    /\ UNCHANGED <<translatorVars, graphVars, messageQueue, messageTask, toolTask>>

-----------------------------------------------------------------------------
(* A turn ends, and its caller folds it into the history.                  *)

\* Faulty variant: every row counts as a message, the tools' rows too.
EmittedRows == {k \in Keys : orders[k] # None}

\* emitted_turn: the top-level messages and tool calls this translator stamped.
EmittedMessages == {k \in Messages : ordinals[k] # None}

\* Faulty variant: a tool call is recorded once its row has landed.
EmittedCallsLanded == {k \in Tools : orders[k] # None /\ rowOrder[k] # None}

EmittedCalls == {k \in Tools : orders[k] # None}

Fold(messages, calls) ==
    history' = [messages |-> history.messages \cup messages,
                calls    |-> history.calls \cup calls]

EndTurn ==
    /\ phase' = "idle"
    /\ messageQueue' = <<>> /\ messageTask' = Idle
    /\ nestedTask' = [k \in Nested |-> "none"]
    /\ speaking' = FALSE /\ restreams' = 0
    /\ UNCHANGED <<turn, resumes, started, translatorVars>>

\* The run returns.  Its caller folds what the graph put into its checkpoint: every
\* message, and every call a message asked for, even one that was never run.
CompleteTurn ==
    /\ phase = "run"
    /\ ~speaking /\ messageQueue = <<>> /\ messageTask = Idle
    /\ \A k \in Tools : toolTask[k] \in {"none", "asked", "done", "paused"}
    /\ \A k \in Nested : nestedTask[k] # "calling"
    /\ Fold({MessageKey(turn, m) : m \in 0..started},
            {k \in Tools : toolTask[k] # "none"})
    /\ EndTurn
    /\ UNCHANGED <<forgets, toolTask, streamVars>>

\* The rows being written at this moment.
InFlight ==
    {k \in Messages : \/ phase = "user" /\ k = UserKey(turn)
                      \/ messageTask.at = "anchor" /\ k = messageTask.key}
    \cup {k \in Tools : toolTask[k] \in {"calling", "landing"}}
    \cup {k \in Nested : nestedTask[k] = "calling"}

\* The turn is cut short and its partial output salvaged through emitted_turn, unless
\* its caller waited for translate_turn to return the translator.  Of the rows being
\* written any may have landed.
CutTurn ==
    /\ phase \in {"user", "run"}
    /\ \E landed \in SUBSET InFlight :
         /\ rowOrder' = [k \in Keys |-> IF k \in landed THEN orders[k] ELSE rowOrder[k]]
         /\ rowOrdinal' = [k \in Messages |->
                             IF k \in landed THEN ordinals[k] ELSE rowOrdinal[k]]
    /\ \/ Fold(EmittedMessages, EmittedCalls) /\ UNCHANGED forgets
       \/ /\ forgets < MaxForgets /\ forgets' = forgets + 1
          /\ UNCHANGED history
    /\ toolTask' = [k \in Tools |-> "none"]
    /\ EndTurn

\* Compaction: a message, and the calls on it, leave the history.
Compact ==
    /\ phase = "idle" /\ forgets < MaxForgets
    /\ forgets' = forgets + 1
    /\ \E gone \in history.messages :
         history' = [messages |-> history.messages \ {gone},
                     calls |-> {k \in history.calls : MessageKey(k[1], k[2]) # gone}]
    /\ UNCHANGED <<turn, phase, resumes, translatorVars, graphVars, taskVars, streamVars>>

-----------------------------------------------------------------------------
UncutNext ==
    \/ BeginTurn \/ LandUser \/ CompleteTurn \/ ResumeTurn \/ Compact
    \/ StartMessage \/ Restream \/ FinishMessage
    \/ TakeMessage \/ LandAnchor \/ EndText
    \/ \E k \in Tools :
         RunTool(k) \/ TakeTool(k) \/ LandCall(k) \/ EndToolDrain(k) \/ LandResult(k)
    \/ \E k \in Nested : TakeNested(k) \/ LandNested(k)

Next == UncutNext \/ CutTurn

Spec == Init /\ [][Next]_vars

\* The same conversation on its best behaviour: no turn is cut short.
CalmSpec == Init /\ [][UncutNext]_vars

-----------------------------------------------------------------------------
(* Properties.                                                             *)

OnStream == {k \in Keys : rowOrder[k] # None}

\* One monotonic sequence for the whole conversation: no two rows on the stream,
\* of whichever task and turn, render at the same place.
OneSequence ==
    \A a, b \in OnStream : rowOrder[a] = rowOrder[b] => a = b

\* "Across turns the counters continue past all prior history so a new row never
\* collides with, or sorts before, an earlier one" (translate_turn).
LaterTurnsSortAfter ==
    \A a, b \in OnStream : a[1] < b[1] => rowOrder[a] < rowOrder[b]

\* The transcript sorted by ordinal, which salvage archives by, is the transcript
\* sorted by order, which the client renders by.
SequencesAgree ==
    \A a, b \in OnStream \cap Messages :
        rowOrdinal[a] < rowOrdinal[b] <=> rowOrder[a] < rowOrder[b]

\* Where no turn is resumed a row on the stream never moves: not by its result, nor by
\* a handle with an id seen before, nor by anything a later turn writes.
RowsStay ==
    [][\A k \in OnStream : rowOrder'[k] = rowOrder[k]]_vars

\* Between turns the seeds computed from the folded history reach past everything
\* the last translator stamped, though its turn may have been cut anywhere.
SeedsReachPast ==
    phase = "idle" =>
        /\ NextLiveOrder(history) >= orderSeq
        /\ NextLiveOrdinal(history) >= ordinalSeq

\* A row moves only in a resumed run that takes up what it shows once more, and then
\* behind all that was on the stream when the run was resumed.
MovesBehindThePast ==
    [][\A k \in OnStream : rowOrder'[k] # rowOrder[k] =>
         /\ resumes > 0
         /\ \A j \in OnStream : orders[j] = None => rowOrder[j] < rowOrder'[k]]_vars

=============================================================================
