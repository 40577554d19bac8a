--------------------------- MODULE RunLifecycle ---------------------------
(***************************************************************************)
(* One call of StateTranslator.run: the task that runs it ("main"), the    *)
(* channel tasks of its TaskGroup, the tasks a channel starts in a         *)
(* TaskGroup of its own ("workers": tool executions, and the drains of a   *)
(* subagent's projections), and the writer they share.  Every await is a   *)
(* step, so cancellations and exceptions can fall between any two of them. *)
(* A write that is cut short may or may not have landed.                   *)
(***************************************************************************)
EXTENDS Integers

CONSTANTS
    Channels,       \* the projections of the stream that run drains
    Workers,        \* the tasks of nested groups that may be started
    Drains,         \* those of them that drain a projection of a subagent
    Owner,          \* the channel whose nested group each worker belongs to
    MaxFrames,      \* bound: no channel writes once this many frames are out
    MaxInterrupts,  \* bound: interrupts the finished stream may hold
    MaxCancels,     \* bound: CancelledErrors raised at an await of main
    MaxFailures     \* bound: exceptions raised by the graph or the writer

ASSUME OwnerAssumption == Owner \in [Workers -> Channels] /\ Drains \subseteq Workers

ASSUME BoundAssumption ==
    {MaxFrames, MaxInterrupts, MaxCancels, MaxFailures} \subseteq Nat

VARIABLES
    pc,         \* the await main is suspended at
    held,       \* the exception in flight in main, "none" if there is none
    errored,    \* self._errored
    found,      \* how many interrupts _collect_interrupts returned
    left,       \* how many of them _finalise has yet to upsert
    outcome,    \* how run ended: "returned", "cancelled" or "failed"
    escape,     \* history: the unguarded part of run an exception left from
    chan,       \* state of each channel task
    wrk,        \* state of each worker task
    aborting,   \* the outer TaskGroup has cancelled its tasks
    propagate,  \* the outer TaskGroup owes its caller a CancelledError
    row,        \* status on the run row; "prior" is what an earlier run left
    frames,     \* frames on the stream other than the run row
    closes,     \* calls of writer.close that took effect
    cancels, failures   \* what was used of MaxCancels and MaxFailures

mainVars   == <<pc, held, errored, found, left, outcome, escape>>
taskVars   == <<chan, wrk, aborting, propagate>>
streamVars == <<row, frames, closes>>
budgetVars == <<cancels, failures>>
vars == <<mainVars, taskVars, streamVars, budgetVars>>

Prologue == {"start", "suggestion", "seed"}
Aborts   == {"abort_row", "abort_close"}
Finalise == {"pre_finish", "collect", "interrupts", "final_row", "final_close"}
PCs      == Prologue \cup Aborts \cup Finalise \cup {"drain", "exit", "done"}

Raised == {"cancelled", "failed"}

\* A channel or worker that has ended, or was never created, writes nothing.
ChanEnded  == {"ok", "error", "self_cancelled", "cancelled"}
ChanQuiet  == ChanEnded \cup {"idle"}
ChanStates == ChanQuiet \cup {"running", "joining", "failing",
                              "self_cancelling", "cancelling"}
WrkQuiet   == {"none", "ok", "error", "cancelled"}
WrkActive  == {"reading", "calling", "draining", "landing"}
WrkStates  == WrkQuiet \cup WrkActive \cup {"cancelling"}

Statuses == {"prior", "running", "complete", "interrupt", "error"}
Terminal == {"complete", "interrupt", "error"}

WorkersOf(c) == {w \in Workers : Owner[w] = c}
WorkersQuiet(c) == \A w \in WorkersOf(c) : wrk[w] \in WrkQuiet
WorkerError(c) == \E w \in WorkersOf(c) : wrk[w] = "error"

TypeOK ==
    /\ pc \in PCs
    /\ held \in Raised \cup {"none"}
    /\ errored \in BOOLEAN
    /\ found \in 0..MaxInterrupts
    /\ left \in 0..MaxInterrupts
    /\ outcome \in Raised \cup {"none", "returned"}
    /\ escape \in {"none", "prologue", "abort", "finalise"}
    /\ chan \in [Channels -> ChanStates]
    /\ wrk \in [Workers -> WrkStates]
    /\ aborting \in BOOLEAN
    /\ propagate \in BOOLEAN
    /\ row \in Statuses
    /\ frames \in Nat
    /\ closes \in Nat
    /\ cancels \in 0..MaxCancels
    /\ failures \in 0..MaxFailures

\* run is called with emit_run_started, or after the caller did that itself.
Init ==
    /\ \/ pc = "start" /\ row = "prior"
       \/ pc = "seed" /\ row = "running"
    /\ held = "none" /\ errored = FALSE /\ found = 0 /\ left = 0
    /\ outcome = "none" /\ escape = "none"
    /\ chan = [c \in Channels |-> "idle"]
    /\ wrk = [w \in Workers |-> "none"]
    /\ aborting = FALSE /\ propagate = FALSE
    /\ frames = 0 /\ closes = 0
    /\ cancels = 0 /\ failures = 0

-----------------------------------------------------------------------------
(* What the awaited calls of the writer put on the stream.                 *)

SetRun(status) == row' = status /\ UNCHANGED <<frames, closes>>
Upsert         == frames' = frames + 1 /\ UNCHANGED <<row, closes>>
CloseWriter    == closes' = closes + 1 /\ UNCHANGED <<row, frames>>

FinalStatus == IF found > 0 THEN "interrupt" ELSE "complete"

\* The write main awaits at pc is cut short: it landed, or it did not.
CutWrite ==
    \/ UNCHANGED streamVars
    \/ pc = "start" /\ SetRun("running")
    \/ pc \in {"suggestion", "seed", "interrupts"} /\ Upsert
    \/ pc = "abort_row" /\ SetRun("error")
    \/ pc = "final_row" /\ SetRun(FinalStatus)
    \/ pc \in {"abort_close", "final_close"} /\ CloseWriter

\* An exception of this kind is raised, within the bounds of the model.
Spend(kind) ==
    \/ /\ kind = "cancelled" /\ cancels < MaxCancels
       /\ cancels' = cancels + 1 /\ UNCHANGED failures
    \/ /\ kind = "failed" /\ failures < MaxFailures
       /\ failures' = failures + 1 /\ UNCHANGED cancels

\* run ends with this outcome; where names the unguarded part it left from.
Leave(kind, where) ==
    /\ pc' = "done" /\ outcome' = kind /\ escape' = where
    /\ UNCHANGED <<held, errored, found, left>>

\* Faulty variant: _finalise does not look at _errored.
FinallyUnguarded(kind, where) ==
    /\ pc' = "pre_finish" /\ held' = kind
    /\ UNCHANGED <<errored, found, left, outcome, escape>>

\* The finally clause: _finalise does nothing once _errored is set.
Finally(kind, where) ==
    IF errored
    THEN Leave(kind, where)
    ELSE /\ pc' = "pre_finish" /\ held' = kind
         /\ UNCHANGED <<errored, found, left, outcome, escape>>

\* Faulty variant: _abort_run sets _errored only if it gets through both awaits.
AbortRunLate(kind) ==
    /\ pc' = "abort_row" /\ held' = kind
    /\ UNCHANGED <<errored, found, left, outcome, escape>>

\* The except clauses: _abort_run sets _errored before its first await.
AbortRun(kind) ==
    /\ pc' = "abort_row" /\ held' = kind /\ errored' = TRUE
    /\ UNCHANGED <<found, left, outcome, escape>>

Goto(next) ==
    /\ pc' = next
    /\ UNCHANGED <<held, errored, found, left, outcome, escape>>

-----------------------------------------------------------------------------
(* Main, before the try block.                                             *)

EmitRunStarted ==
    /\ pc = "start"
    /\ SetRun("running")
    /\ Goto("suggestion")
    /\ UNCHANGED <<taskVars, budgetVars>>

DropSuggestion ==
    /\ pc = "suggestion"
    /\ Upsert
    /\ Goto("seed")
    /\ UNCHANGED <<taskVars, budgetVars>>

\* The initial_state row is written if the caller gave one; then the TaskGroup
\* is entered and its tasks are created.
SeedAndOpen ==
    /\ pc = "seed"
    /\ UNCHANGED streamVars \/ Upsert
    /\ Goto("drain")
    /\ chan' = [c \in Channels |-> "running"]
    /\ UNCHANGED <<wrk, aborting, propagate, budgetVars>>

\* Nothing catches what is raised here: it leaves run as it is.
LeavePrologue ==
    /\ pc \in Prologue
    /\ \E kind \in Raised : Spend(kind) /\ Leave(kind, "prologue")
    /\ CutWrite
    /\ UNCHANGED taskVars

-----------------------------------------------------------------------------
(* The tasks.                                                              *)

TaskStep == pc = "drain" /\ UNCHANGED mainVars

\* A row of the channel's own: anchors, chunks, effects, agentState.
Emit(c) ==
    /\ TaskStep
    /\ chan[c] = "running"
    /\ frames < MaxFrames
    /\ Upsert
    /\ UNCHANGED <<taskVars, budgetVars>>

\* The channel's stream is exhausted; its nested group waits for the workers.
EndStream(c) ==
    /\ TaskStep
    /\ chan[c] = "running"
    /\ chan' = [chan EXCEPT ![c] = "joining"]
    /\ UNCHANGED <<wrk, aborting, propagate, streamVars, budgetVars>>

Join(c) ==
    /\ TaskStep
    /\ chan[c] = "joining"
    /\ WorkersQuiet(c) /\ ~WorkerError(c)
    /\ chan' = [chan EXCEPT ![c] = "ok"]
    /\ UNCHANGED <<wrk, aborting, propagate, streamVars, budgetVars>>

Become(w, state) ==
    /\ wrk' = [wrk EXCEPT ![w] = state]
    /\ UNCHANGED <<chan, aborting, propagate>>

DrainsOf(c) == {d \in Drains : Owner[d] = c}

\* A channel starts executions, or, if its items are subagents, their drains.  Those
\* start the rest of the group, also when the channel's own stream is exhausted.
Spawn(w) ==
    /\ TaskStep
    /\ wrk[w] = "none"
    /\ \/ chan[Owner[w]] = "running" /\ (w \in Drains \/ DrainsOf(Owner[w]) = {})
       \/ \E d \in DrainsOf(Owner[w]) : wrk[d] = "reading"
    /\ Become(w, IF w \in Drains THEN "reading" ELSE "calling")
    /\ UNCHANGED <<streamVars, budgetVars>>

\* A row of the subagent's own: its messages and their chunks.
DrainEmits(w) ==
    /\ TaskStep
    /\ wrk[w] = "reading"
    /\ frames < MaxFrames
    /\ Upsert
    /\ UNCHANGED <<taskVars, budgetVars>>

\* The subagent's projection is exhausted, or the link it waited for did not come; nor
\* does it for an execution, which then writes nothing.
LeaveOut(w) ==
    /\ TaskStep
    /\ wrk[w] = "reading" \/ (wrk[w] = "calling" /\ DrainsOf(Owner[w]) # {})
    /\ Become(w, "ok")
    /\ UNCHANGED <<streamVars, budgetVars>>

UpsertCall(w) ==
    /\ TaskStep
    /\ wrk[w] = "calling"
    /\ Upsert
    /\ Become(w, "draining")
    /\ UNCHANGED budgetVars

\* The tool's output deltas end, if they ever do.
OutputEnds(w) ==
    /\ TaskStep
    /\ wrk[w] = "draining"
    /\ Become(w, "landing")
    /\ UNCHANGED <<streamVars, budgetVars>>

\* Faulty variant: the drain is awaited without a timeout.
DrainUnbounded(w) == wrk[w] = "no timer" /\ UNCHANGED vars

\* A wedged output stream is given up after _TOOL_OUTPUT_DRAIN_TIMEOUT.
DrainTimeout(w) ==
    /\ TaskStep
    /\ wrk[w] = "draining"
    /\ Become(w, "landing")
    /\ UNCHANGED <<streamVars, budgetVars>>

\* The result is upserted, unless the call is paused by an interrupt.
LandResult(w) ==
    /\ TaskStep
    /\ wrk[w] = "landing"
    /\ UNCHANGED streamVars \/ Upsert
    /\ Become(w, "ok")
    /\ UNCHANGED budgetVars

WorkerFails(w) ==
    /\ TaskStep
    /\ wrk[w] \in WrkActive
    /\ Spend("failed")
    /\ UNCHANGED streamVars \/ (wrk[w] # "draining" /\ Upsert)
    /\ Become(w, "error")

\* The stream of a tool, or of a subagent, raises CancelledError by itself: a TaskGroup
\* passes over a child that ends cancelled, so nothing is reported.
WorkerCancelsItself(w) ==
    /\ TaskStep
    /\ wrk[w] \in {"reading", "draining"}
    /\ Spend("failed")
    /\ Become(w, "cancelled")
    /\ UNCHANGED streamVars

\* A cancelled worker ends; the write it was in may have landed, or failed.
WorkerUnwinds(w) ==
    /\ TaskStep
    /\ wrk[w] = "cancelling"
    /\ UNCHANGED streamVars \/ Upsert
    /\ \/ Become(w, "cancelled") /\ UNCHANGED budgetVars
       \/ Become(w, "error") /\ Spend("failed")

CancelWorkersOf(c) ==
    wrk' = [w \in Workers |->
              IF Owner[w] = c /\ wrk[w] \in WrkActive THEN "cancelling" ELSE wrk[w]]

\* The channel's own code or stream raises: its nested group is left at once.
ChannelRaises(c) ==
    /\ TaskStep
    /\ chan[c] = "running"
    /\ Spend("failed")
    /\ \E state \in {"failing", "self_cancelling"} :
         chan' = [chan EXCEPT ![c] = state]
    /\ CancelWorkersOf(c)
    /\ UNCHANGED streamVars \/ Upsert
    /\ UNCHANGED <<aborting, propagate>>

\* The nested group notices a failed worker, or that its parent is cancelled.
NestedAbort(c) ==
    /\ TaskStep
    /\ \/ chan[c] \in {"running", "joining"} /\ WorkerError(c)
       \/ chan[c] = "cancelling" /\ \E w \in WorkersOf(c) : wrk[w] \in WrkActive
    /\ chan' = [chan EXCEPT ![c] = IF @ = "cancelling" THEN @ ELSE "failing"]
    /\ CancelWorkersOf(c)
    /\ UNCHANGED <<aborting, propagate, streamVars, budgetVars>>

\* Faulty variant: _run_channel lets every CancelledError pass.
ResolutionUnconverted(c) ==
    IF chan[c] = "failing" \/ WorkerError(c) THEN "error" ELSE "cancelled"

\* How a channel that is being unwound ends.  _run_channel turns a CancelledError
\* nobody asked for into _ChannelCancelled; an error outranks a cancellation.
Resolution(c) ==
    IF chan[c] = "failing" \/ WorkerError(c) THEN "error"
    ELSE IF chan[c] = "self_cancelling" THEN "self_cancelled" ELSE "cancelled"

Resolve(c) ==
    /\ TaskStep
    /\ chan[c] \in {"failing", "self_cancelling", "cancelling"}
    /\ WorkersQuiet(c)
    /\ chan' = [chan EXCEPT ![c] = Resolution(c)]
    /\ UNCHANGED streamVars \/ (chan[c] = "cancelling" /\ Upsert)
    /\ UNCHANGED <<wrk, aborting, propagate, budgetVars>>

-----------------------------------------------------------------------------
(* The outer TaskGroup, in which main waits for the channels.              *)

Aborted == [c \in Channels |->
              IF chan[c] \in {"running", "joining", "self_cancelling"}
              THEN "cancelling" ELSE chan[c]]

\* Faulty variant: only a channel that cancelled itself counts as failed.
OwnCancelError == \E c \in Channels : chan[c] = "self_cancelled"

ChannelError == \E c \in Channels : chan[c] \in {"error", "self_cancelled"}

GroupAbort ==
    /\ TaskStep
    /\ ~aborting
    /\ ChannelError
    /\ aborting' = TRUE
    /\ chan' = Aborted
    /\ UNCHANGED <<wrk, propagate, streamVars, budgetVars>>

\* Faulty variant: a cancel is noted, but the tasks are left to run on.
CancelDrainPatient ==
    /\ TaskStep
    /\ Spend("cancelled")
    /\ propagate' = TRUE
    /\ UNCHANGED <<chan, wrk, aborting, streamVars>>

\* A cancel of main while it waits.  The group goes on waiting for its tasks; it
\* remembers the cancel only if it was not already aborting.
CancelDrain ==
    /\ TaskStep
    /\ Spend("cancelled")
    /\ propagate' = (propagate \/ ~aborting)
    /\ chan' = IF aborting THEN chan ELSE Aborted
    /\ aborting' = TRUE
    /\ UNCHANGED <<wrk, streamVars>>

\* What the group raises once every task has ended: errors come first, and among
\* them a _ChannelCancelled makes the run count as cancelled.
GroupResult ==
    IF ChannelError
    THEN IF \E c \in Channels : chan[c] = "self_cancelled"
         THEN "cancelled" ELSE "failed"
    ELSE IF propagate THEN "cancelled" ELSE "none"

\* Faulty variant: main goes on as soon as one channel has ended with an error.
EndDrainEarly ==
    /\ pc = "drain"
    /\ ChannelError \/ \A c \in Channels : chan[c] \in ChanEnded
    /\ pc' = "exit"
    /\ held' = GroupResult
    /\ UNCHANGED <<errored, found, left, outcome, escape,
                   taskVars, streamVars, budgetVars>>

EndDrain ==
    /\ pc = "drain"
    /\ \A c \in Channels : chan[c] \in ChanEnded
    /\ pc' = "exit"
    /\ held' = GroupResult
    /\ UNCHANGED <<errored, found, left, outcome, escape,
                   taskVars, streamVars, budgetVars>>

-----------------------------------------------------------------------------
(* Main, after the drain.                                                  *)

\* async with stream: its exit passes the exception on, or replaces it.
ExitStream ==
    /\ pc = "exit"
    /\ IF held = "none" THEN Finally("none", "none") ELSE AbortRun(held)
    /\ UNCHANGED <<taskVars, streamVars, budgetVars>>

RaiseAtExit ==
    /\ pc = "exit"
    /\ \E kind \in Raised : Spend(kind) /\ AbortRun(kind)
    /\ UNCHANGED <<taskVars, streamVars>>

AbortSetRun ==
    /\ pc = "abort_row"
    /\ SetRun("error")
    /\ Goto("abort_close")
    /\ UNCHANGED <<taskVars, budgetVars>>

AbortClose ==
    /\ pc = "abort_close"
    /\ CloseWriter
    /\ Finally(held, "none")
    /\ UNCHANGED <<taskVars, budgetVars>>

RaiseInAbort ==
    /\ pc \in Aborts
    /\ \E kind \in Raised : Spend(kind) /\ Finally(kind, "abort")
    /\ CutWrite
    /\ UNCHANGED taskVars

\* pre_finish is awaited if there is one; an Exception it raises is swallowed.
PreFinish ==
    /\ pc = "pre_finish"
    /\ Goto("collect")
    /\ UNCHANGED <<taskVars, streamVars, budgetVars>>

CollectInterrupts ==
    /\ pc = "collect"
    /\ \E n \in 0..MaxInterrupts :
         /\ found' = n /\ left' = n
         /\ pc' = IF n > 0 THEN "interrupts" ELSE "final_row"
    /\ UNCHANGED <<held, errored, outcome, escape,
                   taskVars, streamVars, budgetVars>>

\* Faulty variant: the loop over the interrupts runs once too often.
UpsertInterruptAgain ==
    /\ pc = "interrupts"
    /\ Upsert
    /\ left' = left - 1
    /\ pc' = IF left = 0 THEN "final_row" ELSE "interrupts"
    /\ UNCHANGED <<held, errored, found, outcome, escape, taskVars, budgetVars>>

UpsertInterrupt ==
    /\ pc = "interrupts"
    /\ Upsert
    /\ left' = left - 1
    /\ pc' = IF left = 1 THEN "final_row" ELSE "interrupts"
    /\ UNCHANGED <<held, errored, found, outcome, escape, taskVars, budgetVars>>

FinaliseSetRun ==
    /\ pc = "final_row"
    /\ SetRun(FinalStatus)
    /\ Goto("final_close")
    /\ UNCHANGED <<taskVars, budgetVars>>

FinaliseClose ==
    /\ pc = "final_close"
    /\ CloseWriter
    /\ Leave(IF held = "none" THEN "returned" ELSE held, "none")
    /\ UNCHANGED <<taskVars, budgetVars>>

\* Nothing catches what is raised in _finalise, a CancelledError from pre_finish
\* included.
RaiseInFinalise ==
    /\ pc \in Finalise
    /\ \E kind \in Raised :
         /\ pc = "pre_finish" => kind = "cancelled"
         /\ Spend(kind)
         /\ Leave(kind, "finalise")
    /\ CutWrite
    /\ UNCHANGED taskVars

-----------------------------------------------------------------------------
ChannelStep(c) ==
    \/ Emit(c) \/ EndStream(c) \/ Join(c)
    \/ ChannelRaises(c) \/ NestedAbort(c) \/ Resolve(c)

WorkerStep(w) ==
    \/ Spawn(w) \/ DrainEmits(w) \/ LeaveOut(w)
    \/ UpsertCall(w) \/ OutputEnds(w) \/ DrainTimeout(w)
    \/ LandResult(w) \/ WorkerFails(w) \/ WorkerCancelsItself(w) \/ WorkerUnwinds(w)

MainStep ==
    \/ EmitRunStarted \/ DropSuggestion \/ SeedAndOpen
    \/ GroupAbort \/ EndDrain \/ ExitStream
    \/ AbortSetRun \/ AbortClose
    \/ PreFinish \/ CollectInterrupts \/ UpsertInterrupt
    \/ FinaliseSetRun \/ FinaliseClose

\* Exceptions out of main's awaits: nothing obliges them to happen.
MainRaises ==
    \/ LeavePrologue \/ CancelDrain \/ RaiseAtExit
    \/ RaiseInAbort \/ RaiseInFinalise

Next ==
    \/ MainStep
    \/ MainRaises
    \/ \E c \in Channels : ChannelStep(c)
    \/ \E w \in Workers : WorkerStep(w)

Spec == Init /\ [][Next]_vars

(***************************************************************************)
(* Fairness: a task that can run is run, a write returns, and a timer      *)
(* fires.  Nothing is assumed of the graph: a stream need not yield or     *)
(* end, and a tool's output may be wedged for good.                        *)
(***************************************************************************)
Fairness ==
    /\ WF_vars(MainStep)
    /\ \A c \in Channels : WF_vars(Join(c) \/ NestedAbort(c) \/ Resolve(c))
    /\ \A w \in Workers :
         WF_vars(UpsertCall(w) \/ DrainTimeout(w) \/ LandResult(w) \/ WorkerUnwinds(w))

FairSpec == Spec /\ Fairness

-----------------------------------------------------------------------------
(* Properties.                                                             *)

\* Structured concurrency: once the run row is terminal, or run has ended in any
\* way at all, none of its tasks is alive.  A straggler could otherwise write to
\* a closed stream, or under the next run's row (source: the TaskGroups of run
\* and _stream_tool_calls).
QuietOnceOver ==
    row \in Terminal \/ pc = "done" =>
        /\ \A c \in Channels : chan[c] \in ChanQuiet
        /\ \A w \in Workers : wrk[w] \in WrkQuiet

\* A run is shown as complete or interrupted only if every channel was drained to
\* the end of its stream and no cancel arrived while they were: no failed channel
\* and no projection cancelled behind main's back is passed off as success.
SuccessMeansDrained ==
    row \in {"complete", "interrupt"} =>
        /\ \A c \in Channels : chan[c] = "ok"
        /\ ~aborting /\ ~propagate /\ held = "none"

\* Whatever was raised in the guarded part of run (channels, stream exit, workers),
\* the writer is closed exactly once and the row tells how run ended.
EndsAsReported ==
    pc = "done" /\ escape = "none" =>
        /\ closes = 1
        /\ outcome \in Raised => row = "error"
        /\ outcome = "returned" => row = FinalStatus /\ left = 0

Contract == INSTANCE RunContract

\* The stream a reader sees never runs backwards: no frame after the terminal row,
\* one terminal row, one close, and nothing before "running".
KeepsContract == Contract!ContractSpec

\* A cancelled run ends, though neither the graph nor its tools ever answer.
CancelEnds == (cancels > 0) ~> (pc = "done")

\* A failed channel or tool ends the run the same way.
FailureEnds ==
    (ChannelError \/ \E w \in Workers : wrk[w] = "error") ~> (pc = "done")

\* Once every projection, a subagent's included, is exhausted the run ends, though a
\* tool's output stream stays wedged: the drain's timeout is what lets go of it.
DrainedEnds ==
    (/\ \A c \in Channels : chan[c] \notin {"idle", "running"}
     /\ \A w \in Workers : wrk[w] # "reading") ~> (pc = "done")

\* What the comment on run's except clause says: "A cancel must still leave the run
\* row terminal and close the stream, or the frontend runtime binds isRunning
\* forever".  It does not hold of an await outside the try block, nor in _finalise.
CancelClearsRunning ==
    pc = "done" /\ outcome = "cancelled" => row # "running"

=============================================================================
