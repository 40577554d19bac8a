--------------------------- MODULE HistoryReplay ---------------------------
(***************************************************************************)
(* replay_history: the messages of a checkpoint become rows, one awaited   *)
(* upsert after another, with the same two sequences the live run stamps.  *)
(* The caller seeds the live counters with next_live_ordinal and           *)
(* next_live_order over the same messages.  The task may die between any   *)
(* two upserts and be started again; the rows it wrote stay.  The ids of   *)
(* a checkpoint's messages are distinct, so a message's row is kept under  *)
(* its position.                                                           *)
(***************************************************************************)
EXTENDS Integers, Sequences, FiniteSets

CONSTANTS
    Histories,      \* the message lists to replay
    Windows,        \* values of max_turns, NoWindow among them
    NoWindow,       \* max_turns is None
    NoId,           \* a tool call without an id
    Calls,          \* the ids of tool calls
    MaxCrashes      \* bound: times the replay dies and is started again

\* A message of the checkpoint.  id says whether it can be keyed: "plain" can,
\* "none" has no id, "summary" is the compaction's note to self.
Human     == [kind : {"human"}, id : {"plain", "none", "summary"}]
Assistant == [kind : {"ai"}, id : {"plain", "none", "summary"},
              calls : Seq(Calls \cup {NoId})]
ToolReply == [kind : {"tool"}, call : Calls, error : BOOLEAN]
Message   == Human \cup Assistant \cup ToolReply

ASSUME HistoryAssumption == Histories \subseteq Seq(Message)
ASSUME WindowAssumption == Windows \subseteq Nat \cup {NoWindow} /\ NoWindow \notin Nat
ASSUME CrashAssumption == MaxCrashes \in Nat
ASSUME IdAssumption == NoId \notin Calls

VARIABLES
    history,        \* the history the caller passes
    messages,       \* what is replayed: the history, windowed
    next,           \* position of the loop over the messages
    ordinal, order, \* the two counters
    toolRows,       \* tool_rows: the row gathered for each call, None without
    unwritten,      \* calls whose row the final loop has yet to upsert
    messageRow,     \* the stream: the row of the message at each position
    toolRow,        \* the stream: the row of each call
    state,          \* "scan", "tools" or "done"
    crashes

localVars  == <<next, ordinal, order, toolRows, unwritten, state>>
streamVars == <<messageRow, toolRow>>
vars == <<history, messages, localVars, streamVars, crashes>>

None == [none |-> TRUE]

-----------------------------------------------------------------------------
(* Helpers.                                                                *)

\* _carries_ordinal, which only next_live_ordinal calls.
CarriesOrdinal(m) == m.kind \in {"human", "ai"} /\ m.id = "plain"

\* The places of a message's tool calls that carry an id, and those before place k.
KeyedCalls(m) == IF m.kind = "ai" THEN {k \in DOMAIN m.calls : m.calls[k] # NoId} ELSE {}
KeyedBefore(m, k) == {j \in KeyedCalls(m) : j < k}

\* What a prefix of the messages holds: slots, and keyed calls by where they stand.
Slots(ms, n) == {i \in 1..n : CarriesOrdinal(ms[i])}
CallPlaces(ms, n) == UNION {{i} \X KeyedCalls(ms[i]) : i \in 1..n}

NextLiveOrdinal(ms) == Cardinality(Slots(ms, Len(ms)))

\* Faulty variant: only calls that were answered are counted.
NextLiveOrderAnswered(ms) ==
    NextLiveOrdinal(ms) + Cardinality({i \in DOMAIN ms : ms[i].kind = "tool"})

\* Every call with an id counts, whatever the message it is on.
NextLiveOrder(ms) == NextLiveOrdinal(ms) + Cardinality(CallPlaces(ms, Len(ms)))

Humans(ms) == {i \in DOMAIN ms : ms[i].kind = "human"}

\* Faulty variant: the window counts messages, not turns.
WindowByMessages(ms, turns) ==
    IF turns = NoWindow \/ turns = 0 \/ Len(ms) <= turns
    THEN ms ELSE SubSeq(ms, Len(ms) - turns + 1, Len(ms))

\* _window_to_last_turns keeps the last human messages and what follows them.
LastTurns(ms, turns) ==
    {i \in DOMAIN ms :
       \E h \in Humans(ms) : /\ h <= i
                             /\ Cardinality({j \in Humans(ms) : j >= h}) <= turns}

Window(ms, turns) ==
    IF turns = NoWindow \/ turns = 0 \/ Cardinality(Humans(ms)) <= turns
    THEN ms ELSE SubSeq(ms, Len(ms) - Cardinality(LastTurns(ms, turns)) + 1, Len(ms))

\* Faulty variant: the loop lets the compaction's note through.
HumanSkippedKeyless(m) == m.id = "none"

\* The loop's own tests, one in each branch: a message it does not seed.
HumanSkipped(m)     == m.id \in {"none", "summary"}
AssistantSkipped(m) == m.id \in {"none", "summary"}

-----------------------------------------------------------------------------
(* The replay.                                                             *)

Init ==
    /\ history \in Histories
    /\ \E turns \in Windows : messages = Window(history, turns)
    /\ next = 1 /\ ordinal = 0 /\ order = 0
    /\ toolRows = [c \in Calls |-> None]
    /\ unwritten = {}
    /\ state = "scan"
    /\ messageRow = [i \in DOMAIN messages |-> None]
    /\ toolRow = [c \in Calls |-> None]
    /\ crashes = 0

Current == messages[next]
Scanning == state = "scan" /\ next <= Len(messages)

\* The row of the call at place k of the current message.
GatheredRow(k) ==
    [order |-> order + 1 + Cardinality(KeyedBefore(Current, k)),
     reply |-> 0, isError |-> FALSE]

LastPlace(c) ==
    CHOOSE k \in KeyedCalls(Current) :
        /\ Current.calls[k] = c
        /\ \A j \in KeyedCalls(Current) : Current.calls[j] = c => j <= k

Asks(m, c) == \E k \in KeyedCalls(m) : m.calls[k] = c

UpsertMessage ==
    /\ messageRow' = [messageRow EXCEPT ![next] = [ordinal |-> ordinal, order |-> order]]
    /\ ordinal' = ordinal + 1
    /\ next' = next + 1
    /\ UNCHANGED <<history, messages, unwritten, state, toolRow, crashes>>

SeedHuman ==
    /\ Scanning
    /\ Current.kind = "human" /\ ~HumanSkipped(Current)
    /\ UpsertMessage
    /\ order' = order + 1
    /\ UNCHANGED toolRows

\* An assistant's row is upserted, and the rows of its calls are gathered.
SeedAssistant ==
    /\ Scanning
    /\ Current.kind = "ai" /\ ~AssistantSkipped(Current)
    /\ UpsertMessage
    /\ order' = order + 1 + Cardinality(KeyedCalls(Current))
    /\ toolRows' = [c \in Calls |->
                      IF Asks(Current, c) THEN GatheredRow(LastPlace(c)) ELSE toolRows[c]]

\* The calls of an assistant message passed over are passed over with it.
SkipMessage ==
    /\ Scanning
    /\ \/ Current.kind = "human" /\ HumanSkipped(Current)
       \/ Current.kind = "ai" /\ AssistantSkipped(Current)
    /\ next' = next + 1
    /\ UNCHANGED <<history, messages, ordinal, order, toolRows, unwritten, state,
                   streamVars, crashes>>

\* Faulty variant: a reply is looked up by the last call gathered, not by its own.
AttachReplyToAny ==
    /\ Scanning
    /\ Current.kind = "tool"
    /\ toolRows' = [c \in Calls |-> IF toolRows[c] = None THEN None
                                   ELSE [toolRows[c] EXCEPT !.reply = next]]
    /\ next' = next + 1
    /\ UNCHANGED <<history, messages, ordinal, order, unwritten, state, streamVars,
                   crashes>>

\* A tool message completes the row of its call, if there is one.
AttachReply ==
    /\ Scanning
    /\ Current.kind = "tool"
    /\ LET c == Current.call IN
         toolRows' = IF toolRows[c] = None THEN toolRows
                     ELSE [toolRows EXCEPT
                             ![c] = [order |-> @.order, reply |-> next,
                                     isError |-> @.isError \/ Current.error]]
    /\ next' = next + 1
    /\ UNCHANGED <<history, messages, ordinal, order, unwritten, state, streamVars,
                   crashes>>

\* Faulty variant: every call is written, gathered or not.
EndScanEveryCall ==
    /\ state = "scan" /\ next > Len(messages)
    /\ state' = "tools"
    /\ unwritten' = Calls
    /\ UNCHANGED <<history, messages, next, ordinal, order, toolRows, streamVars,
                   crashes>>

EndScan ==
    /\ state = "scan" /\ next > Len(messages)
    /\ state' = "tools"
    /\ unwritten' = {c \in Calls : toolRows[c] # None}
    /\ UNCHANGED <<history, messages, next, ordinal, order, toolRows, streamVars,
                   crashes>>

\* The rows gathered are upserted one by one; no property tells their order apart.
UpsertTool ==
    /\ state = "tools"
    /\ \E c \in unwritten :
         /\ toolRow' = [toolRow EXCEPT ![c] = toolRows[c]]
         /\ unwritten' = unwritten \ {c}
    /\ UNCHANGED <<history, messages, next, ordinal, order, toolRows, state,
                   messageRow, crashes>>

\* Faulty variant: the replay returns with rows still to be written.
ReturnEarly ==
    /\ state = "tools"
    /\ state' = "done"
    /\ UNCHANGED <<history, messages, next, ordinal, order, toolRows, unwritten,
                   streamVars, crashes>>

Return ==
    /\ state = "tools" /\ unwritten = {}
    /\ state' = "done"
    /\ UNCHANGED <<history, messages, next, ordinal, order, toolRows, unwritten,
                   streamVars, crashes>>

\* The replay dies and is started again: what it held is gone, its rows are not.
Crash ==
    /\ state # "done" /\ crashes < MaxCrashes
    /\ crashes' = crashes + 1
    /\ next' = 1 /\ ordinal' = 0 /\ order' = 0
    /\ toolRows' = [c \in Calls |-> None]
    /\ unwritten' = {}
    /\ state' = "scan"
    /\ UNCHANGED <<history, messages, streamVars>>

Next ==
    \/ SeedHuman \/ SeedAssistant \/ SkipMessage \/ AttachReply
    \/ EndScan \/ UpsertTool \/ Return
    \/ Crash

Spec == Init /\ [][Next]_vars

-----------------------------------------------------------------------------
(* What the rows should be, read off the messages without a loop.          *)

\* A history an agent leaves: a reply that was asked for follows a request for it, with
\* no human message in between.
RepliesFollow(h) ==
    \A i \in DOMAIN h : h[i].kind = "tool" =>
        \/ \A j \in DOMAIN h : ~Asks(h[j], h[i].call)
        \/ \E j \in 1..(i - 1) : /\ Asks(h[j], h[i].call)
                                 /\ \A k \in j..i : h[k].kind # "human"

\* Calls that get a row: those of assistant messages with a slot.
SeededPlaces(ms, n) == {p \in CallPlaces(ms, n) : CarriesOrdinal(ms[p[1]])}

MessageRowOf(i) ==
    IF ~CarriesOrdinal(messages[i]) THEN None
    ELSE [ordinal |-> Cardinality(Slots(messages, i - 1)),
          order   |-> Cardinality(Slots(messages, i - 1))
                        + Cardinality(SeededPlaces(messages, i - 1))]

\* The call is shown where it was last asked for, with the reply that came last.
PlacesOf(c) ==
    {p \in SeededPlaces(messages, Len(messages)) : messages[p[1]].calls[p[2]] = c}

LastOf(S) ==
    CHOOSE p \in S : \A q \in S : q[1] < p[1] \/ (q[1] = p[1] /\ q[2] <= p[2])

RepliesAfter(ms, c, i, n) == {j \in (i + 1)..n : ms[j].kind = "tool" /\ ms[j].call = c}

Latest(S) == IF S = {} THEN 0 ELSE CHOOSE i \in S : \A j \in S : j <= i

ToolRowOf(c) ==
    IF PlacesOf(c) = {} THEN None
    ELSE LET p == LastOf(PlacesOf(c))
             replies == RepliesAfter(messages, c, p[1], Len(messages))
         IN  [order   |-> MessageRowOf(p[1]).order + 1
                            + Cardinality(KeyedBefore(messages[p[1]], p[2])),
              reply   |-> Latest(replies),
              isError |-> \E i \in replies : messages[i].error]

-----------------------------------------------------------------------------
(* Properties.                                                             *)

TypeOK ==
    /\ history \in Seq(Message)
    /\ messages \in Seq(Message)
    /\ next \in 1..(Len(messages) + 1)
    /\ ordinal \in Nat /\ order \in Nat
    /\ DOMAIN toolRows = Calls /\ DOMAIN toolRow = Calls
    /\ unwritten \subseteq {c \in Calls : toolRows[c] # None}
    /\ DOMAIN messageRow = DOMAIN messages
    /\ state \in {"scan", "tools", "done"}
    /\ crashes \in 0..MaxCrashes

\* Whatever point a replay has reached, and however often it died before, a row on
\* the stream is the row a complete replay gives: a retry only repeats rows, and no
\* tool shows as running that the history has an answer for.
OnlyReplayedRows ==
    /\ \A i \in DOMAIN messages : messageRow[i] \in {None, MessageRowOf(i)}
    /\ \A c \in Calls : toolRow[c] \in {None, ToolRowOf(c)}

\* A replay that returns has put every row on the stream.
ReplayComplete ==
    state = "done" =>
        /\ \A i \in DOMAIN messages : messageRow[i] = MessageRowOf(i)
        /\ \A c \in Calls : toolRow[c] = ToolRowOf(c)

\* The ordinal replay_history counts up to, with tests of its own, is the one
\* next_live_ordinal computes from the same messages with _carries_ordinal, so seeded
\* and live messages share one sequence.
OrdinalsMeet == state = "done" => ordinal = NextLiveOrdinal(messages)

\* The order next_live_order computes is past every row of the replay, whatever
\* messages without a slot the history holds, and whether the caller counts the
\* window or the whole history: a live row never lands on a replayed one.
OrderStaysBelowSeed ==
    order <= NextLiveOrder(messages) /\ order <= NextLiveOrder(history)

\* "a tool result is never split from its requesting assistant message"
\* (_window_to_last_turns): a reply the window keeps still has its request.
WindowKeepsRequests ==
    \A i \in DOMAIN messages :
        LET m == messages[i] IN
        m.kind = "tool" /\ (\E j \in DOMAIN history : Asks(history[j], m.call)) =>
            \E j \in 1..(i - 1) : Asks(messages[j], m.call)


=============================================================================
