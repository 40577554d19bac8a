------------------------ MODULE RunLifecycle_proofs ------------------------
(***************************************************************************)
(* Proofs about RunLifecycle for any channels, workers and bounds: one     *)
(* inductive invariant, the safety properties it implies, and the          *)
(* refinement of RunContract.                                              *)
(***************************************************************************)
EXTENDS RunLifecycle, TLAPS

\* Where main stands decides what the stream says.
Guarded == {"drain", "exit"}

RowFollowsMain ==
    /\ pc = "start" => row = "prior"
    /\ pc \in {"suggestion", "seed", "drain", "exit", "abort_row", "pre_finish",
               "collect", "interrupts", "final_row"} => row = "running"
    /\ pc = "abort_close" => row = "error"
    /\ pc = "final_close" => row = FinalStatus

ClosedLast ==
    /\ pc # "done" => closes = 0
    /\ pc # "done" => escape = "none"

\* _errored is set exactly while an exception is being reported.
ErroredFollowsMain ==
    /\ pc \in Aborts => errored /\ held \in Raised
    /\ pc \in Prologue \cup Guarded \cup Finalise => ~errored
    /\ pc \in Prologue \cup Finalise \cup {"drain"} => held = "none"

InterruptsCounted ==
    /\ pc = "interrupts" => left \in 1..found
    /\ pc \in {"final_row", "final_close"} => left = 0

\* A channel ends after its workers, and main goes on after the channels.
ChannelOutlivesWorkers ==
    \A w \in Workers : chan[Owner[w]] \in ChanQuiet => wrk[w] \in WrkQuiet

MainOutlivesChannels ==
    pc # "drain" => \A c \in Channels : chan[c] \in ChanQuiet

\* Why the group cancelled its tasks, and that it cancels nothing otherwise.
AbortHasCause ==
    /\ pc \in Prologue => ~aborting
    /\ aborting => propagate \/ ChannelError
    /\ \A c \in Channels : chan[c] \in {"cancelling", "cancelled"} => aborting

Drained ==
    /\ \A c \in Channels : chan[c] = "ok"
    /\ ~aborting /\ ~propagate /\ held = "none"

DrainedBeforeFinalise ==
    /\ pc = "exit" /\ held = "none" => Drained
    /\ pc \in Finalise => Drained
    /\ row \in {"complete", "interrupt"} => Drained

Inv ==
    /\ TypeOK
    /\ RowFollowsMain
    /\ ClosedLast
    /\ ErroredFollowsMain
    /\ InterruptsCounted
    /\ ChannelOutlivesWorkers
    /\ MainOutlivesChannels
    /\ AbortHasCause
    /\ DrainedBeforeFinalise
    /\ EndsAsReported

-----------------------------------------------------------------------------
(* Type correctness.                                                       *)

\* Every variable keeps its type: the counters stay within their bounds and the
\* loop over the interrupts never runs below zero.
LEMMA TypeInit == Init => TypeOK
<1> SUFFICES ASSUME Init PROVE TypeOK
  OBVIOUS
<1>1. 0 \in 0..MaxInterrupts /\ 0 \in 0..MaxCancels /\ 0 \in 0..MaxFailures
  BY BoundAssumption
<1>2. chan \in [Channels -> ChanStates] /\ wrk \in [Workers -> WrkStates]
  BY DEF Init, ChanStates, ChanQuiet, WrkStates, WrkQuiet
<1>3. pc \in PCs /\ row \in Statuses
  BY DEF Init, PCs, Prologue, Statuses
<1> QED
  BY <1>1, <1>2, <1>3 DEF Init, TypeOK

\* No step takes a variable out of its type; the loop counter needs to know that it
\* is positive while the loop runs.
LEMMA TypeStep == TypeOK /\ InterruptsCounted /\ [Next]_vars => TypeOK'
<1> SUFFICES ASSUME TypeOK, InterruptsCounted, [Next]_vars PROVE TypeOK'
  OBVIOUS
<1> USE BoundAssumption, OwnerAssumption
   DEF mainVars, taskVars, streamVars, budgetVars,
       TypeOK, PCs, Prologue, Aborts, Finalise, Raised, Statuses, Terminal, ChanStates,
       ChanQuiet, ChanEnded, WrkStates, WrkQuiet, WrkActive
<1>1. CASE EmitRunStarted
  BY <1>1 DEF EmitRunStarted, SetRun, Goto
<1>2. CASE DropSuggestion
  BY <1>2 DEF DropSuggestion, Upsert, Goto
<1>3. CASE SeedAndOpen
  BY <1>3 DEF SeedAndOpen, Upsert, Goto
<1>4. CASE EndDrain
  BY <1>4 DEF EndDrain, GroupResult
<1>5. CASE ExitStream
  <2>1. CASE held # "none"
    BY <1>5, <2>1 DEF ExitStream, AbortRun
  <2>2. CASE held = "none" /\ errored
    BY <1>5, <2>2 DEF ExitStream, Finally, Leave
  <2>3. CASE held = "none" /\ ~errored
    BY <1>5, <2>3 DEF ExitStream, Finally
  <2> QED
    BY <2>1, <2>2, <2>3
<1>6. CASE AbortSetRun
  BY <1>6 DEF AbortSetRun, SetRun, Goto
<1>7. CASE AbortClose
  BY <1>7 DEF AbortClose, CloseWriter, Finally, Leave
<1>8. CASE PreFinish
  BY <1>8 DEF PreFinish, Goto
<1>9. CASE CollectInterrupts
  BY <1>9 DEF CollectInterrupts
<1>10. CASE UpsertInterrupt
  BY <1>10 DEF UpsertInterrupt, InterruptsCounted, Upsert
<1>11. CASE FinaliseSetRun
  BY <1>11 DEF FinaliseSetRun, SetRun, FinalStatus, Goto
<1>12. CASE FinaliseClose
  BY <1>12 DEF FinaliseClose, CloseWriter, Leave
<1>13. CASE LeavePrologue
  BY <1>13 DEF LeavePrologue, Spend, Leave, CutWrite, SetRun, Upsert,
     CloseWriter
<1>14. CASE RaiseAtExit
  BY <1>14 DEF RaiseAtExit, Spend, AbortRun
<1>15. CASE RaiseInAbort
  BY <1>15 DEF RaiseInAbort, Spend, Finally, Leave, CutWrite, SetRun, Upsert,
     CloseWriter
<1>16. CASE RaiseInFinalise
  BY <1>16 DEF RaiseInFinalise, Spend, Leave, CutWrite, SetRun, Upsert,
     CloseWriter, FinalStatus
<1>17. CASE GroupAbort
  BY <1>17 DEF GroupAbort, TaskStep, Aborted
<1>18. CASE CancelDrain
  BY <1>18 DEF CancelDrain, TaskStep, Aborted, Spend
<1>19. CASE \E c \in Channels : Emit(c)
  BY <1>19 DEF Emit, TaskStep, Upsert
<1>20. CASE \E c \in Channels : EndStream(c)
  BY <1>20 DEF EndStream, TaskStep
<1>21. CASE \E c \in Channels : Join(c)
  BY <1>21 DEF Join, TaskStep
<1>22. CASE \E c \in Channels : ChannelRaises(c)
  BY <1>22 DEF ChannelRaises, TaskStep, Spend, Upsert, CancelWorkersOf
<1>23. CASE \E c \in Channels : NestedAbort(c)
  BY <1>23 DEF NestedAbort, TaskStep, CancelWorkersOf
<1>24. CASE \E c \in Channels : Resolve(c)
  BY <1>24 DEF Resolve, TaskStep, Resolution, Upsert
<1>25. CASE \E w \in Workers : Spawn(w)
  BY <1>25 DEF Spawn, TaskStep, Become
<1>26. CASE \E w \in Workers : DrainEmits(w)
  BY <1>26 DEF DrainEmits, TaskStep, Upsert
<1>27. CASE \E w \in Workers : LeaveOut(w)
  BY <1>27 DEF LeaveOut, TaskStep, Become
<1>28. CASE \E w \in Workers : UpsertCall(w)
  BY <1>28 DEF UpsertCall, TaskStep, Upsert, Become
<1>29. CASE \E w \in Workers : OutputEnds(w)
  BY <1>29 DEF OutputEnds, TaskStep, Become
<1>30. CASE \E w \in Workers : DrainTimeout(w)
  BY <1>30 DEF DrainTimeout, TaskStep, Become
<1>31. CASE \E w \in Workers : LandResult(w)
  BY <1>31 DEF LandResult, TaskStep, Upsert, Become
<1>32. CASE \E w \in Workers : WorkerFails(w)
  BY <1>32 DEF WorkerFails, TaskStep, Spend, Upsert, Become
<1>33. CASE \E w \in Workers : WorkerCancelsItself(w)
  BY <1>33 DEF WorkerCancelsItself, TaskStep, Spend, Become
<1>34. CASE \E w \in Workers : WorkerUnwinds(w)
  BY <1>34 DEF WorkerUnwinds, TaskStep, Spend, Upsert, Become
<1>35. CASE UNCHANGED vars
  BY <1>35 DEF vars
<1> QED
  BY <1>1, <1>2, <1>3, <1>4, <1>5, <1>6, <1>7, <1>8, <1>9, <1>10, <1>11,
     <1>12, <1>13, <1>14, <1>15, <1>16, <1>17, <1>18, <1>19, <1>20, <1>21,
     <1>22, <1>23, <1>24, <1>25, <1>26, <1>27, <1>28, <1>29, <1>30, <1>31,
     <1>32, <1>33, <1>34, <1>35 DEF Next, MainStep, MainRaises, ChannelStep, WorkerStep

-----------------------------------------------------------------------------
(* Main and the stream.                                                    *)

\* The steps of the tasks and of the groups they are in happen while main waits,
\* and touch neither main, nor the run row, nor the writer's end.
TasksNext ==
    \/ GroupAbort \/ CancelDrain
    \/ \E c \in Channels : ChannelStep(c)
    \/ \E w \in Workers : WorkerStep(w)

LEMMA TasksLeaveMain ==
    TasksNext => pc = "drain" /\ UNCHANGED mainVars /\ UNCHANGED <<row, closes>>
<1> SUFFICES ASSUME TasksNext
             PROVE  pc = "drain" /\ UNCHANGED mainVars /\ UNCHANGED <<row, closes>>
  OBVIOUS
<1> USE DEF TaskStep, Upsert, streamVars
<1>1. CASE GroupAbort \/ CancelDrain
  BY <1>1 DEF GroupAbort, CancelDrain
<1>2. CASE \E c \in Channels : ChannelStep(c)
  BY <1>2 DEF ChannelStep, Emit, EndStream, Join, ChannelRaises, NestedAbort, Resolve
<1>3. CASE \E w \in Workers : WorkerStep(w)
  BY <1>3 DEF WorkerStep, Spawn, DrainEmits, LeaveOut, UpsertCall, OutputEnds, DrainTimeout, LandResult,
     WorkerFails, WorkerCancelsItself, WorkerUnwinds
<1> QED
  BY <1>1, <1>2, <1>3 DEF TasksNext

MainInv == RowFollowsMain /\ ClosedLast /\ ErroredFollowsMain /\ InterruptsCounted

\* Main's place, the run row, the writer and _errored stay in step.
LEMMA MainInvStep == TypeOK /\ MainInv /\ [Next]_vars => MainInv'
<1> SUFFICES ASSUME TypeOK, MainInv, [Next]_vars PROVE MainInv'
  OBVIOUS
<1> USE DEF MainInv, mainVars, taskVars, streamVars, budgetVars,
       RowFollowsMain, ClosedLast, ErroredFollowsMain, InterruptsCounted,
       FinalStatus, Prologue, Aborts, Finalise, Guarded, Raised
<1>1. CASE EmitRunStarted
  BY <1>1 DEF EmitRunStarted, SetRun, Goto
<1>2. CASE DropSuggestion
  BY <1>2 DEF DropSuggestion, Upsert, Goto
<1>3. CASE SeedAndOpen
  BY <1>3 DEF SeedAndOpen, Upsert, Goto
<1>4. CASE EndDrain
  BY <1>4 DEF EndDrain, GroupResult, TypeOK
<1>5. CASE ExitStream
  BY <1>5 DEF ExitStream, Finally, Leave, AbortRun, TypeOK
<1>6. CASE AbortSetRun
  BY <1>6 DEF AbortSetRun, SetRun, Goto
<1>7. CASE AbortClose
  BY <1>7 DEF AbortClose, CloseWriter, Finally, Leave
<1>8. CASE PreFinish
  BY <1>8 DEF PreFinish, Goto
<1>9. CASE CollectInterrupts
  BY <1>9 DEF CollectInterrupts, TypeOK
<1>10. CASE UpsertInterrupt
  BY <1>10 DEF UpsertInterrupt, Upsert, TypeOK
<1>11. CASE FinaliseSetRun
  BY <1>11 DEF FinaliseSetRun, SetRun, FinalStatus, Goto
<1>12. CASE FinaliseClose
  BY <1>12 DEF FinaliseClose, CloseWriter, Leave
<1>13. CASE LeavePrologue
  BY <1>13 DEF LeavePrologue, Spend, Leave, CutWrite, SetRun, Upsert,
     CloseWriter
<1>14. CASE RaiseAtExit
  BY <1>14 DEF RaiseAtExit, Spend, AbortRun
<1>15. CASE RaiseInAbort
  BY <1>15 DEF RaiseInAbort, Spend, Finally, Leave, CutWrite, SetRun, Upsert,
     CloseWriter
<1>16. CASE RaiseInFinalise
  BY <1>16 DEF RaiseInFinalise, Spend, Leave, CutWrite, SetRun, Upsert,
     CloseWriter, FinalStatus
<1>17. CASE TasksNext
  BY <1>17, TasksLeaveMain
<1>18. CASE UNCHANGED vars
  BY <1>18 DEF vars
<1> QED
  BY <1>1, <1>2, <1>3, <1>4, <1>5, <1>6, <1>7, <1>8, <1>9, <1>10, <1>11,
     <1>12, <1>13, <1>14, <1>15, <1>16, <1>17, <1>18 DEF Next, MainStep,
     MainRaises, TasksNext

-----------------------------------------------------------------------------
(* The tasks.                                                              *)

TasksInv == ChannelOutlivesWorkers /\ MainOutlivesChannels /\ AbortHasCause

\* Workers end before their channel, channels before main goes on, and a task is
\* cancelled by the group only for a reason the group will report.
LEMMA TasksInvStep == TypeOK /\ MainInv /\ TasksInv /\ [Next]_vars => TasksInv'
<1> SUFFICES ASSUME TypeOK, MainInv, TasksInv, [Next]_vars PROVE TasksInv'
  OBVIOUS
<1> USE OwnerAssumption DEF TypeOK, mainVars, taskVars, streamVars, budgetVars,
       TasksInv, ChannelOutlivesWorkers,
       MainOutlivesChannels, AbortHasCause, ChannelError, ChanStates, ChanQuiet,
       ChanEnded, WrkStates, WrkQuiet, WrkActive, Prologue, Finalise, Aborts,
       WorkersOf, WorkersQuiet, WorkerError
<1>1. CASE EmitRunStarted
  BY <1>1 DEF EmitRunStarted, SetRun, Goto
<1>2. CASE DropSuggestion
  BY <1>2 DEF DropSuggestion, Upsert, Goto
<1>3. CASE SeedAndOpen
  BY <1>3 DEF SeedAndOpen, Upsert, Goto
<1>4. CASE EndDrain
  BY <1>4 DEF EndDrain, GroupResult
<1>5. CASE ExitStream
  BY <1>5 DEF ExitStream, Finally, Leave, AbortRun
<1>6. CASE AbortSetRun
  BY <1>6 DEF AbortSetRun, SetRun, Goto
<1>7. CASE AbortClose
  BY <1>7 DEF AbortClose, CloseWriter, Finally, Leave
<1>8. CASE PreFinish
  BY <1>8 DEF PreFinish, Goto
<1>9. CASE CollectInterrupts
  BY <1>9 DEF CollectInterrupts
<1>10. CASE UpsertInterrupt
  BY <1>10 DEF UpsertInterrupt, Upsert
<1>11. CASE FinaliseSetRun
  BY <1>11 DEF FinaliseSetRun, SetRun, FinalStatus, Goto
<1>12. CASE FinaliseClose
  BY <1>12 DEF FinaliseClose, CloseWriter, Leave
<1>13. CASE LeavePrologue
  BY <1>13 DEF LeavePrologue, Spend, Leave, CutWrite, SetRun, Upsert,
     CloseWriter
<1>14. CASE RaiseAtExit
  BY <1>14 DEF RaiseAtExit, Spend, AbortRun
<1>15. CASE RaiseInAbort
  BY <1>15 DEF RaiseInAbort, Spend, Finally, Leave, CutWrite, SetRun, Upsert,
     CloseWriter
<1>16. CASE RaiseInFinalise
  BY <1>16 DEF RaiseInFinalise, Spend, Leave, CutWrite, SetRun, Upsert,
     CloseWriter, FinalStatus
<1>17. CASE GroupAbort
  BY <1>17 DEF GroupAbort, TaskStep, Aborted
<1>18. CASE CancelDrain
  BY <1>18 DEF CancelDrain, TaskStep, Aborted, Spend
<1>19. CASE \E c \in Channels : Emit(c)
  BY <1>19 DEF Emit, TaskStep, Upsert
<1>20. CASE \E c \in Channels : EndStream(c)
  BY <1>20 DEF EndStream, TaskStep
<1>21. CASE \E c \in Channels : Join(c)
  BY <1>21 DEF Join, TaskStep
<1>22. CASE \E c \in Channels : ChannelRaises(c)
  BY <1>22 DEF ChannelRaises, TaskStep, Spend, Upsert, CancelWorkersOf
<1>23. CASE \E c \in Channels : NestedAbort(c)
  BY <1>23 DEF NestedAbort, TaskStep, CancelWorkersOf
<1>24. CASE \E c \in Channels : Resolve(c)
  BY <1>24 DEF Resolve, TaskStep, Resolution, Upsert
<1>25. CASE \E w \in Workers : Spawn(w)
  BY <1>25 DEF Spawn, TaskStep, Become, DrainsOf
<1>26. CASE \E w \in Workers : DrainEmits(w)
  BY <1>26 DEF DrainEmits, TaskStep, Upsert
<1>27. CASE \E w \in Workers : LeaveOut(w)
  BY <1>27 DEF LeaveOut, TaskStep, Become
<1>28. CASE \E w \in Workers : UpsertCall(w)
  BY <1>28 DEF UpsertCall, TaskStep, Upsert, Become
<1>29. CASE \E w \in Workers : OutputEnds(w)
  BY <1>29 DEF OutputEnds, TaskStep, Become
<1>30. CASE \E w \in Workers : DrainTimeout(w)
  BY <1>30 DEF DrainTimeout, TaskStep, Become
<1>31. CASE \E w \in Workers : LandResult(w)
  BY <1>31 DEF LandResult, TaskStep, Upsert, Become
<1>32. CASE \E w \in Workers : WorkerFails(w)
  BY <1>32 DEF WorkerFails, TaskStep, Spend, Upsert, Become
<1>33. CASE \E w \in Workers : WorkerCancelsItself(w)
  BY <1>33 DEF WorkerCancelsItself, TaskStep, Spend, Become
<1>34. CASE \E w \in Workers : WorkerUnwinds(w)
  BY <1>34 DEF WorkerUnwinds, TaskStep, Spend, Upsert, Become
<1>35. CASE UNCHANGED vars
  BY <1>35 DEF vars
<1> QED
  BY <1>1, <1>2, <1>3, <1>4, <1>5, <1>6, <1>7, <1>8, <1>9, <1>10, <1>11,
     <1>12, <1>13, <1>14, <1>15, <1>16, <1>17, <1>18, <1>19, <1>20, <1>21,
     <1>22, <1>23, <1>24, <1>25, <1>26, <1>27, <1>28, <1>29, <1>30, <1>31,
     <1>32, <1>33, <1>34, <1>35 DEF Next, MainStep, MainRaises, ChannelStep, WorkerStep

-----------------------------------------------------------------------------
(* What a run reports.                                                     *)

Known == TypeOK /\ MainInv /\ TasksInv

\* The group raises nothing only if every channel was drained.
LEMMA SilentGroupDrained ==
    ASSUME Known, pc = "drain", \A c \in Channels : chan[c] \in ChanEnded,
           GroupResult = "none"
    PROVE  (\A c \in Channels : chan[c] = "ok") /\ ~aborting /\ ~propagate
<1>1. ~ChannelError /\ ~propagate
  BY DEF GroupResult
<1>2. ~aborting
  BY <1>1 DEF Known, TasksInv, AbortHasCause
<1>3. \A c \in Channels : chan[c] \notin {"error", "self_cancelled", "cancelled"}
  BY <1>1, <1>2 DEF Known, TasksInv, AbortHasCause, ChannelError
<1> QED
  BY <1>1, <1>2, <1>3 DEF ChanEnded

\* main enters _finalise, and writes a successful status, only after such a drain.
LEMMA DrainedStep ==
    Known /\ DrainedBeforeFinalise /\ [Next]_vars => DrainedBeforeFinalise'
<1> SUFFICES ASSUME Known, DrainedBeforeFinalise, [Next]_vars
             PROVE  DrainedBeforeFinalise'
  OBVIOUS
<1> USE DEF DrainedBeforeFinalise, mainVars, taskVars, streamVars, budgetVars,
       Drained, Known, MainInv, RowFollowsMain,
       ErroredFollowsMain, Prologue, Aborts, Finalise, Guarded, Raised, FinalStatus
<1>1. CASE EmitRunStarted
  BY <1>1 DEF EmitRunStarted, SetRun, Goto
<1>2. CASE DropSuggestion
  BY <1>2 DEF DropSuggestion, Upsert, Goto
<1>3. CASE SeedAndOpen
  BY <1>3 DEF SeedAndOpen, Upsert, Goto
<1>4. CASE EndDrain
  BY <1>4, SilentGroupDrained DEF EndDrain, GroupResult
<1>5. CASE ExitStream
  BY <1>5 DEF ExitStream, Finally, Leave, AbortRun, TypeOK
<1>6. CASE AbortSetRun
  BY <1>6 DEF AbortSetRun, SetRun, Goto
<1>7. CASE AbortClose
  BY <1>7 DEF AbortClose, CloseWriter, Finally, Leave
<1>8. CASE PreFinish
  BY <1>8 DEF PreFinish, Goto
<1>9. CASE CollectInterrupts
  BY <1>9 DEF CollectInterrupts
<1>10. CASE UpsertInterrupt
  BY <1>10 DEF UpsertInterrupt, Upsert
<1>11. CASE FinaliseSetRun
  BY <1>11 DEF FinaliseSetRun, SetRun, FinalStatus, Goto
<1>12. CASE FinaliseClose
  BY <1>12 DEF FinaliseClose, CloseWriter, Leave
<1>13. CASE LeavePrologue
  BY <1>13 DEF LeavePrologue, Spend, Leave, CutWrite, SetRun, Upsert,
     CloseWriter
<1>14. CASE RaiseAtExit
  BY <1>14 DEF RaiseAtExit, Spend, AbortRun
<1>15. CASE RaiseInAbort
  BY <1>15 DEF RaiseInAbort, Spend, Finally, Leave, CutWrite, SetRun, Upsert,
     CloseWriter
<1>16. CASE RaiseInFinalise
  BY <1>16 DEF RaiseInFinalise, Spend, Leave, CutWrite, SetRun, Upsert,
     CloseWriter, FinalStatus
<1>17. CASE TasksNext
  BY <1>17, TasksLeaveMain
<1>18. CASE UNCHANGED vars
  BY <1>18 DEF vars
<1> QED
  BY <1>1, <1>2, <1>3, <1>4, <1>5, <1>6, <1>7, <1>8, <1>9, <1>10, <1>11,
     <1>12, <1>13, <1>14, <1>15, <1>16, <1>17, <1>18 DEF Next, MainStep,
     MainRaises, TasksNext

\* What was raised under the guard is on the run row when run ends.
LEMMA EndsStep == Known /\ EndsAsReported /\ [Next]_vars => EndsAsReported'
<1> SUFFICES ASSUME Known, EndsAsReported, [Next]_vars PROVE EndsAsReported'
  OBVIOUS
<1> USE DEF EndsAsReported, mainVars, taskVars, streamVars, budgetVars,
       Known, MainInv, RowFollowsMain, ClosedLast,
       ErroredFollowsMain, InterruptsCounted, Prologue, Aborts, Finalise, Guarded,
       Raised, FinalStatus
<1>1. CASE EmitRunStarted
  BY <1>1 DEF EmitRunStarted, SetRun, Goto
<1>2. CASE DropSuggestion
  BY <1>2 DEF DropSuggestion, Upsert, Goto
<1>3. CASE SeedAndOpen
  BY <1>3 DEF SeedAndOpen, Upsert, Goto
<1>4. CASE EndDrain
  BY <1>4 DEF EndDrain, GroupResult
<1>5. CASE ExitStream
  BY <1>5 DEF ExitStream, Finally, Leave, AbortRun, TypeOK
<1>6. CASE AbortSetRun
  BY <1>6 DEF AbortSetRun, SetRun, Goto
<1>7. CASE AbortClose
  BY <1>7 DEF AbortClose, CloseWriter, Finally, Leave
<1>8. CASE PreFinish
  BY <1>8 DEF PreFinish, Goto
<1>9. CASE CollectInterrupts
  BY <1>9 DEF CollectInterrupts
<1>10. CASE UpsertInterrupt
  BY <1>10 DEF UpsertInterrupt, Upsert
<1>11. CASE FinaliseSetRun
  BY <1>11 DEF FinaliseSetRun, SetRun, FinalStatus, Goto
<1>12. CASE FinaliseClose
  BY <1>12 DEF FinaliseClose, CloseWriter, Leave
<1>13. CASE LeavePrologue
  BY <1>13 DEF LeavePrologue, Spend, Leave, CutWrite, SetRun, Upsert,
     CloseWriter
<1>14. CASE RaiseAtExit
  BY <1>14 DEF RaiseAtExit, Spend, AbortRun
<1>15. CASE RaiseInAbort
  BY <1>15 DEF RaiseInAbort, Spend, Finally, Leave, CutWrite, SetRun, Upsert,
     CloseWriter
<1>16. CASE RaiseInFinalise
  BY <1>16 DEF RaiseInFinalise, Spend, Leave, CutWrite, SetRun, Upsert,
     CloseWriter, FinalStatus
<1>17. CASE TasksNext
  BY <1>17, TasksLeaveMain
<1>18. CASE UNCHANGED vars
  BY <1>18 DEF vars
<1> QED
  BY <1>1, <1>2, <1>3, <1>4, <1>5, <1>6, <1>7, <1>8, <1>9, <1>10, <1>11,
     <1>12, <1>13, <1>14, <1>15, <1>16, <1>17, <1>18 DEF Next, MainStep,
     MainRaises, TasksNext

-----------------------------------------------------------------------------
(* The theorems.                                                           *)

\* The invariant holds when run is called.
LEMMA InvInit == Init => Inv
<1> SUFFICES ASSUME Init PROVE Inv
  OBVIOUS
<1>1. TypeOK
  BY TypeInit
<1>2. RowFollowsMain /\ ClosedLast /\ ErroredFollowsMain /\ InterruptsCounted
  BY DEF Init, RowFollowsMain, ClosedLast, ErroredFollowsMain, InterruptsCounted,
     Prologue, Aborts, Finalise, Guarded
<1>3. ChannelOutlivesWorkers /\ MainOutlivesChannels
  BY OwnerAssumption
     DEF Init, ChannelOutlivesWorkers, MainOutlivesChannels, ChanQuiet, WrkQuiet
<1>4. AbortHasCause
  BY DEF Init, AbortHasCause
<1>5. DrainedBeforeFinalise /\ EndsAsReported
  BY DEF Init, DrainedBeforeFinalise, EndsAsReported, Finalise
<1> QED
  BY <1>1, <1>2, <1>3, <1>4, <1>5 DEF Inv

\* Every step of run, of its tasks and of what they raise keeps the invariant.
LEMMA InvStep == Inv /\ [Next]_vars => Inv'
<1> SUFFICES ASSUME Inv, [Next]_vars PROVE Inv'
  OBVIOUS
<1>1. Known /\ MainInv /\ TasksInv
  BY DEF Inv, Known, MainInv, TasksInv
<1>2. TypeOK'
  BY TypeStep DEF Inv
<1>3. MainInv'
  BY <1>1, MainInvStep DEF Inv
<1>4. TasksInv'
  BY <1>1, TasksInvStep DEF Inv
<1>5. DrainedBeforeFinalise'
  BY <1>1, DrainedStep DEF Inv
<1>6. EndsAsReported'
  BY <1>1, EndsStep DEF Inv
<1> QED
  BY <1>2, <1>3, <1>4, <1>5, <1>6 DEF Inv, MainInv, TasksInv

\* The invariant holds in every state of every run.
THEOREM Invariance == Spec => []Inv
<1> QED
  BY InvInit, InvStep, PTL DEF Spec

\* Type correctness of run for any set of channels and workers.
THEOREM TypeCorrect == Spec => []TypeOK
<1>1. Inv => TypeOK
  BY DEF Inv
<1> QED
  BY <1>1, Invariance, PTL

\* No task of run is alive once the run row is terminal or run has ended, however
\* many channels and tools there are and whatever fails.
THEOREM NoStraggler == Spec => []QuietOnceOver
<1>1. Inv => QuietOnceOver
  <2> SUFFICES ASSUME Inv, row \in Terminal \/ pc = "done"
               PROVE  /\ \A c \in Channels : chan[c] \in ChanQuiet
                      /\ \A w \in Workers : wrk[w] \in WrkQuiet
    BY DEF QuietOnceOver
  <2>1. pc # "drain"
    BY DEF Inv, RowFollowsMain, Terminal
  <2>2. \A c \in Channels : chan[c] \in ChanQuiet
    BY <2>1 DEF Inv, MainOutlivesChannels
  <2> QED
    BY <2>2, OwnerAssumption DEF Inv, ChannelOutlivesWorkers
<1> QED
  BY <1>1, Invariance, PTL

\* A run is reported complete or interrupted only after a clean, uncancelled drain.
THEOREM SuccessIsEarned == Spec => []SuccessMeansDrained
<1>1. Inv => SuccessMeansDrained
  BY DEF Inv, DrainedBeforeFinalise, Drained, SuccessMeansDrained
<1> QED
  BY <1>1, Invariance, PTL

\* What was raised in the guarded part of run is on the run row, and the writer is
\* closed exactly once.
THEOREM OutcomeReported == Spec => []EndsAsReported
<1>1. Inv => EndsAsReported
  BY DEF Inv
<1> QED
  BY <1>1, Invariance, PTL

\* Every step of run is a step of RunContract, or leaves the stream alone.
LEMMA StepKeepsContract ==
    Inv /\ [Next]_vars => [Contract!ContractNext]_<<row, frames, closes>>
<1> SUFFICES ASSUME Inv, [Next]_vars
             PROVE  [Contract!ContractNext]_<<row, frames, closes>>
  OBVIOUS
<1> USE DEF Inv, mainVars, taskVars, streamVars, budgetVars,
       RowFollowsMain, ClosedLast, Prologue, Aborts, Finalise, FinalStatus,
       Contract!ContractNext, Contract!Open, Contract!Append, Contract!Finish,
       Contract!Close, Contract!Terminal
<1>1. CASE EmitRunStarted
  BY <1>1 DEF EmitRunStarted, SetRun, Goto
<1>2. CASE DropSuggestion
  BY <1>2 DEF DropSuggestion, Upsert, Goto
<1>3. CASE SeedAndOpen
  BY <1>3 DEF SeedAndOpen, Upsert, Goto
<1>4. CASE EndDrain
  BY <1>4 DEF EndDrain, GroupResult
<1>5. CASE ExitStream
  BY <1>5 DEF ExitStream, Finally, Leave, AbortRun
<1>6. CASE AbortSetRun
  BY <1>6 DEF AbortSetRun, SetRun, Goto
<1>7. CASE AbortClose
  BY <1>7 DEF AbortClose, CloseWriter, Finally, Leave
<1>8. CASE PreFinish
  BY <1>8 DEF PreFinish, Goto
<1>9. CASE CollectInterrupts
  BY <1>9 DEF CollectInterrupts
<1>10. CASE UpsertInterrupt
  BY <1>10 DEF UpsertInterrupt, Upsert
<1>11. CASE FinaliseSetRun
  BY <1>11 DEF FinaliseSetRun, SetRun, FinalStatus, Goto
<1>12. CASE FinaliseClose
  BY <1>12 DEF FinaliseClose, CloseWriter, Leave
<1>13. CASE LeavePrologue
  BY <1>13 DEF LeavePrologue, Spend, Leave, CutWrite, SetRun, Upsert,
     CloseWriter
<1>14. CASE RaiseAtExit
  BY <1>14 DEF RaiseAtExit, Spend, AbortRun
<1>15. CASE RaiseInAbort
  BY <1>15 DEF RaiseInAbort, Spend, Finally, Leave, CutWrite, SetRun, Upsert,
     CloseWriter
<1>16. CASE RaiseInFinalise
  BY <1>16 DEF RaiseInFinalise, Spend, Leave, CutWrite, SetRun, Upsert,
     CloseWriter, FinalStatus
<1>17. CASE GroupAbort
  BY <1>17 DEF GroupAbort, TaskStep, Aborted
<1>18. CASE CancelDrain
  BY <1>18 DEF CancelDrain, TaskStep, Aborted, Spend
<1>19. CASE \E c \in Channels : Emit(c)
  BY <1>19 DEF Emit, TaskStep, Upsert
<1>20. CASE \E c \in Channels : EndStream(c)
  BY <1>20 DEF EndStream, TaskStep
<1>21. CASE \E c \in Channels : Join(c)
  BY <1>21 DEF Join, TaskStep
<1>22. CASE \E c \in Channels : ChannelRaises(c)
  BY <1>22 DEF ChannelRaises, TaskStep, Spend, Upsert, CancelWorkersOf
<1>23. CASE \E c \in Channels : NestedAbort(c)
  BY <1>23 DEF NestedAbort, TaskStep, CancelWorkersOf
<1>24. CASE \E c \in Channels : Resolve(c)
  BY <1>24 DEF Resolve, TaskStep, Resolution, Upsert
<1>25. CASE \E w \in Workers : Spawn(w)
  BY <1>25 DEF Spawn, TaskStep, Become
<1>26. CASE \E w \in Workers : DrainEmits(w)
  BY <1>26 DEF DrainEmits, TaskStep, Upsert
<1>27. CASE \E w \in Workers : LeaveOut(w)
  BY <1>27 DEF LeaveOut, TaskStep, Become
<1>28. CASE \E w \in Workers : UpsertCall(w)
  BY <1>28 DEF UpsertCall, TaskStep, Upsert, Become
<1>29. CASE \E w \in Workers : OutputEnds(w)
  BY <1>29 DEF OutputEnds, TaskStep, Become
<1>30. CASE \E w \in Workers : DrainTimeout(w)
  BY <1>30 DEF DrainTimeout, TaskStep, Become
<1>31. CASE \E w \in Workers : LandResult(w)
  BY <1>31 DEF LandResult, TaskStep, Upsert, Become
<1>32. CASE \E w \in Workers : WorkerFails(w)
  BY <1>32 DEF WorkerFails, TaskStep, Spend, Upsert, Become
<1>33. CASE \E w \in Workers : WorkerCancelsItself(w)
  BY <1>33 DEF WorkerCancelsItself, TaskStep, Spend, Become
<1>34. CASE \E w \in Workers : WorkerUnwinds(w)
  BY <1>34 DEF WorkerUnwinds, TaskStep, Spend, Upsert, Become
<1>35. CASE UNCHANGED vars
  BY <1>35 DEF vars
<1> QED
  BY <1>1, <1>2, <1>3, <1>4, <1>5, <1>6, <1>7, <1>8, <1>9, <1>10, <1>11,
     <1>12, <1>13, <1>14, <1>15, <1>16, <1>17, <1>18, <1>19, <1>20, <1>21,
     <1>22, <1>23, <1>24, <1>25, <1>26, <1>27, <1>28, <1>29, <1>30, <1>31,
     <1>32, <1>33, <1>34, <1>35 DEF Next, MainStep, MainRaises, ChannelStep, WorkerStep

\* run implements RunContract: the reader's stream is opened once, finished once,
\* closed once, and grows only in between, for any channels, workers and bounds.
THEOREM Refinement == Spec => KeepsContract
<1>1. Init => Contract!ContractInit
  BY DEF Init, Contract!ContractInit
<1>2. Inv /\ [Next]_vars => [Contract!ContractNext]_(Contract!contractVars)
  BY StepKeepsContract DEF Contract!contractVars
<1> QED
  BY <1>1, <1>2, Invariance, PTL DEF Spec, KeepsContract, Contract!ContractSpec

=============================================================================
