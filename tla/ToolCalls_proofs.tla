-------------------------- MODULE ToolCalls_proofs --------------------------
(***************************************************************************)
(* Proofs about ToolCalls for any calls, subagents and number of resumes:  *)
(* what the rows of calls and interrupts say is true of the graph, and in  *)
(* one run a row goes from its call to its result and never back.          *)
(***************************************************************************)
EXTENDS ToolCalls, FiniteSetTheorems, FunctionTheorems, TLAPS

-----------------------------------------------------------------------------
(* The invariant.                                                          *)

\* A task is about a call the graph has run, and its await tells what it has seen:
\* the link, a row without a result, a result that is true or overtaken.
TasksKnow ==
  \A c \in Calls :
    /\ tool[c] = "idle" => exec[c] = "none"
    /\ exec[c] = "paused" => tool[c] = "paused"
    /\ c \in NestedCalls /\ exec[c] \in {"calling", "draining", "landing"}
         => Dispatch[c] \in linked
    /\ exec[c] \in {"draining", "landing"} => row[c] # None /\ row[c].result = "none"
    /\ exec[c] = "landing" =>
         \/ result[c] = "null" /\ c \in late
         \/ result[c] = tool[c] /\ tool[c] \in Settled
    /\ exec[c] = "done" => row[c] # None /\ row[c].result # "none"
    /\ phase # "run" => Quiet(c)

RowsTrue ==
  \A c \in Calls : row[c] # None =>
    /\ row[c].agent = IF c \in NestedCalls THEN Dispatch[c] ELSE NoAgent
    /\ row[c].result # "none" => c \in late \/ row[c].result = tool[c]

Completed == phase = "complete" => Open \subseteq Plain

\* A call of a subagent runs, or is paused, under the call that dispatched it.
Nesting ==
  \A n \in NestedCalls :
    /\ tool[n] = "running" => tool[Dispatch[n]] = "running"
    /\ tool[n] = "paused" => tool[Dispatch[n]] \in {"running", "paused"}

\* A call the resume left unanswered pauses again, alone of those below it.
PausesAgain ==
  \A c \in unanswered :
    IF c \in TopCalls
    THEN /\ tool[c] \in {"running", "paused"}
         /\ \A n \in NestedOf(c) : tool[n] \notin {"running", "paused"}
    ELSE \/ tool[c] \in {"running", "paused"}
         \/ tool[c] = "idle" /\ tool[Dispatch[c]] = "running"

\* Where the interrupt rows left on the stream belong.
RowsOfInterrupts ==
  /\ phase = "run" => PausesAgain /\ \A k \in DOMAIN interrupts : interrupts[k] \in unanswered
  /\ phase \in {"finalise", "interrupt", "complete"} =>
       \A k \in DOMAIN interrupts : interrupts[k] \in Open
  /\ phase = "finalise" => \A r \in todo : r.call \in Open
  /\ phase = "clear" =>
       /\ unanswered \subseteq Open
       /\ \A k \in DOMAIN interrupts :
            interrupts[k] \in unanswered \/ [key |-> k, call |-> interrupts[k]] \in todo

Inv == TypeOK /\ TasksKnow /\ RowsTrue /\ Completed /\ Nesting /\ RowsOfInterrupts

-----------------------------------------------------------------------------
(* Types.                                                                  *)

\* Calls of subagents dispatch nothing.
LEMMA CallFacts ==
  /\ TopCalls \subseteq Calls /\ NestedCalls \subseteq Calls
  /\ \A c \in Calls : c \in TopCalls <=> c \notin NestedCalls
  /\ \A n \in NestedCalls : Dispatch[n] \in TopCalls /\ NestedOf(n) = {}
  /\ \A c \in TopCalls : NestedOf(c) \subseteq NestedCalls
  /\ NoAgent \notin TopCalls
BY DispatchAssumption, CallAssumption DEF Calls, NestedOf

LEMMA TypeInit == Init => TypeOK
BY CallFacts DEF Init, TypeOK, Settled, Waiting, Ended, None

LEMMA TypeStep == TypeOK /\ TasksKnow /\ [Next]_vars => TypeOK'
<1> SUFFICES ASSUME TypeOK, TasksKnow, [Next]_vars PROVE TypeOK'
  OBVIOUS
<1> USE CallFacts DEF TypeOK, Settled, Waiting, Ended
<1>1. CASE \E c \in Calls : EndTool(c)
  BY <1>1 DEF EndTool, Running, Outcomes
<1>2. CASE \E c \in Calls : Take(c)
  BY <1>2 DEF Take, Watching, Running, graphVars
<1>3. CASE \E c \in Calls : SeeLink(c) \/ LinkTimeout(c)
  BY <1>3 DEF SeeLink, LinkTimeout, Watching, Running, graphVars
<1>4. CASE \E c \in Calls : LandCall(c)
  BY <1>4 DEF LandCall, Row, Watching, Running, graphVars
<1>5. CASE \E c \in Calls : EndDrain(c)
  BY <1>5 DEF EndDrain, AfterDrain, TasksKnow, Watching, Running, graphVars
<1>6. CASE \E c \in Calls : DrainTimeout(c)
  BY <1>6 DEF DrainTimeout, AfterDrain, TasksKnow, Watching, Running, graphVars
<1>7. CASE \E c \in Calls : LandResult(c)
  BY <1>7 DEF LandResult, Row, Watching, Running, graphVars
<1>8. CASE \E c \in Calls : SwallowCancel(c)
  BY <1>8 DEF SwallowCancel, Watching, Running, graphVars
<1>9. CASE \E n \in NestedCalls : StartNested(n)
  BY <1>9 DEF StartNested, Running
<1>10. CASE \E c \in TopCalls : Link(c)
  BY <1>10 DEF Link, Running, graphVars
<1>11. CASE EndRun
  BY <1>11 DEF EndRun, graphVars, streamVars, InterruptRows, SetToSeqs, Listed, Open
<1>12. CASE UpsertInterrupt
  BY <1>12 DEF UpsertInterrupt, graphVars
<1>13. CASE Pause
  BY <1>13 DEF Pause, graphVars, streamVars
<1>14. CASE Resume
  BY <1>14 DEF Resume, Open, streamVars
<1>15. CASE ClearInterrupt
  BY <1>15 DEF ClearInterrupt, graphVars
<1>16. CASE RunAgain
  BY <1>16 DEF RunAgain, streamVars
<1>17. CASE UNCHANGED vars
  BY <1>17 DEF vars, graphVars, streamVars
<1> QED
  BY <1>1, <1>2, <1>3, <1>4, <1>5, <1>6, <1>7, <1>8, <1>9, <1>10, <1>11, <1>12,
     <1>13, <1>14, <1>15, <1>16, <1>17 DEF Next, WatchStep

-----------------------------------------------------------------------------
(* The invariant holds.                                                    *)

LEMMA InvInit == Init => Inv
<1> SUFFICES ASSUME Init PROVE Inv
  OBVIOUS
<1>1. TasksKnow /\ RowsTrue /\ Completed
  BY DEF Init, TasksKnow, RowsTrue, Completed
<1>2. Nesting
  BY CallFacts DEF Init, Nesting
<1>3. RowsOfInterrupts
  BY DEF Init, RowsOfInterrupts, PausesAgain
<1> QED
  BY <1>1, <1>2, <1>3, TypeInit DEF Inv

LEMMA TasksStep ==
  ASSUME TypeOK, TypeOK', TasksKnow, RowsTrue, Next
  PROVE  TasksKnow' /\ RowsTrue'
<1> USE CallFacts DEF TypeOK, TasksKnow, RowsTrue, Settled, Waiting, Ended, Quiet
<1>1. CASE \E c \in Calls : EndTool(c)
  BY <1>1 DEF EndTool, Running, Outcomes
<1>2. CASE \E c \in Calls : Take(c)
  BY <1>2 DEF Take, Watching, Running, graphVars
<1>3. CASE \E c \in Calls : SeeLink(c) \/ LinkTimeout(c)
  BY <1>3 DEF SeeLink, LinkTimeout, Watching, Running, graphVars
<1>4. CASE \E c \in Calls : LandCall(c)
  <2>1. PICK c \in Calls : LandCall(c)
    BY <1>4
  <2>2. /\ row'[c] # None /\ row'[c].result = "none"
        /\ row'[c].agent = IF c \in NestedCalls THEN Dispatch[c] ELSE NoAgent
    BY <2>1 DEF LandCall, Row, None
  <2>3. \A d \in Calls : d # c => row'[d] = row[d] /\ exec'[d] = exec[d]
    BY <2>1 DEF LandCall
  <2>4. exec'[c] = "draining" /\ exec[c] = "calling" /\ late' = late \ {c} /\ phase = "run"
    BY <2>1 DEF LandCall, Watching, Running
  <2>5. UNCHANGED <<phase, tool, linked, result>>
    BY <2>1 DEF LandCall, Watching, Running, graphVars
  <2> QED
    BY <2>2, <2>3, <2>4, <2>5
<1>5. CASE \E c \in Calls : EndDrain(c)
  BY <1>5 DEF EndDrain, AfterDrain, Watching, Running, graphVars
<1>6. CASE \E c \in Calls : DrainTimeout(c)
  BY <1>6 DEF DrainTimeout, AfterDrain, Watching, Running, graphVars
<1>7. CASE \E c \in Calls : LandResult(c)
  <2>1. PICK c \in Calls : LandResult(c)
    BY <1>7
  <2>2. /\ row'[c] # None /\ row'[c].result = result[c]
        /\ row'[c].agent = IF c \in NestedCalls THEN Dispatch[c] ELSE NoAgent
    BY <2>1 DEF LandResult, Row, None
  <2>3. \A d \in Calls : d # c => /\ row'[d] = row[d] /\ exec'[d] = exec[d]
                                  /\ result'[d] = result[d]
    BY <2>1 DEF LandResult
  <2>4. exec'[c] = "done" /\ exec[c] = "landing" /\ phase = "run"
    BY <2>1 DEF LandResult, Watching, Running
  <2>5. UNCHANGED <<phase, tool, linked, late>>
    BY <2>1 DEF LandResult, Watching, Running, graphVars
  <2> QED
    BY <2>2, <2>3, <2>4, <2>5
<1>8. CASE \E c \in Calls : SwallowCancel(c)
  BY <1>8 DEF SwallowCancel, Watching, Running, graphVars
<1>9. CASE \E n \in NestedCalls : StartNested(n)
  BY <1>9 DEF StartNested, Running
<1>10. CASE \E c \in TopCalls : Link(c)
  BY <1>10 DEF Link, Running, graphVars
<1>11. CASE EndRun
  BY <1>11 DEF EndRun, graphVars, streamVars
<1>12. CASE UpsertInterrupt \/ Pause \/ Resume \/ ClearInterrupt
  BY <1>12 DEF UpsertInterrupt, Pause, Resume, ClearInterrupt, graphVars, streamVars
<1>13. CASE RunAgain
  BY <1>13 DEF RunAgain, streamVars
<1> QED
  BY <1>1, <1>2, <1>3, <1>4, <1>5, <1>6, <1>7, <1>8, <1>9, <1>10, <1>11, <1>12, <1>13
  DEF Next, WatchStep

LEMMA GraphStep ==
  ASSUME TypeOK, TypeOK', TasksKnow, Completed, Nesting, RowsOfInterrupts, Next
  PROVE  Completed' /\ Nesting' /\ RowsOfInterrupts'
<1> USE CallFacts DEF TypeOK, Completed, Nesting, RowsOfInterrupts
<1>1. CASE UNCHANGED <<phase, tool, unanswered, interrupts, todo>>
  BY <1>1 DEF Open, PausesAgain
<1>2. CASE \E c \in Calls : EndTool(c)
  <2>1. PICK c \in Calls : EndTool(c)
    BY <1>2
  <2>2. UNCHANGED <<phase, unanswered, interrupts, todo>> /\ phase = "run"
    BY <2>1 DEF EndTool, Running
  <2>3. /\ tool[c] = "running" /\ tool'[c] \in Outcomes(c)
        /\ \A d \in Calls : d # c => tool'[d] = tool[d]
        /\ \A n \in NestedOf(c) :
             tool[n] # "running" /\ (n \in unanswered => tool[n] # "idle")
    BY <2>1 DEF EndTool
  <2>4. /\ tool'[c] \in {"ok", "error", "paused"}
        /\ c \in unanswered \/ (\E n \in NestedOf(c) : tool[n] = "paused")
             => tool'[c] = "paused"
    BY <2>3 DEF Outcomes
  <2>5. Nesting'
    BY <2>3, <2>4 DEF NestedOf
  <2>6. PausesAgain'
    BY <2>2, <2>3, <2>4 DEF PausesAgain, NestedOf
  <2> QED
    BY <2>2, <2>5, <2>6
<1>3. CASE \E n \in NestedCalls : StartNested(n)
  <2>1. PICK n \in NestedCalls : StartNested(n)
    BY <1>3
  <2>2. UNCHANGED <<phase, unanswered, interrupts, todo>> /\ phase = "run"
    BY <2>1 DEF StartNested, Running
  <2>3. /\ tool[n] = "idle" /\ tool'[n] = "running" /\ tool[Dispatch[n]] = "running"
        /\ \A d \in Calls : d # n => tool'[d] = tool[d]
        /\ Dispatch[n] \notin unanswered
    BY <2>1 DEF StartNested
  <2>4. Nesting'
    BY <2>3
  <2>5. PausesAgain'
    BY <2>2, <2>3 DEF PausesAgain, NestedOf
  <2> QED
    BY <2>2, <2>4, <2>5
<1>4. CASE EndRun
  <2>1. UNCHANGED <<tool, unanswered, interrupts>> /\ Open' = Open /\ phase = "run"
    BY <1>4 DEF EndRun, graphVars, streamVars, Open
  <2>2. phase' = IF Listed = {} THEN "complete" ELSE "finalise"
    BY <1>4 DEF EndRun
  <2>3. \A c \in unanswered : c \in Open
    <3>1. \A c \in Calls : tool[c] # "running"
      BY <1>4 DEF EndRun, Quiet
    <3> QED
      BY <2>1, <3>1 DEF PausesAgain, Open
  <2>4. \A r \in todo' : r.call \in Open
    <3>1. PICK s \in SetToSeqs(Listed) : todo' = InterruptRows(s)
      BY <1>4 DEF EndRun
    <3>2. \A i \in DOMAIN s : s[i] \in Listed
      BY DEF SetToSeqs
    <3> QED
      BY <3>1, <3>2 DEF InterruptRows, Listed
  <2> QED
    BY <2>1, <2>2, <2>3, <2>4 DEF Listed
<1>5. CASE UpsertInterrupt
  <2>1. PICK r \in todo : /\ interrupts' = [k \in DOMAIN interrupts \cup {r.key} |->
                                              IF k = r.key THEN r.call ELSE interrupts[k]]
                          /\ todo' = todo \ {r}
    BY <1>5 DEF UpsertInterrupt
  <2>2. UNCHANGED <<phase, tool, unanswered>> /\ Open' = Open /\ phase = "finalise"
    BY <1>5 DEF UpsertInterrupt, graphVars, Open
  <2> QED
    BY <2>1, <2>2
<1>6. CASE Pause
  BY <1>6 DEF Pause, graphVars, streamVars, Open
<1>7. CASE Resume
  <2>1. UNCHANGED <<tool, interrupts>> /\ Open' = Open
        /\ phase = "interrupt" /\ phase' = "clear"
    BY <1>7 DEF Resume, streamVars, Open
  <2>2. PICK answered \in SUBSET Open :
          /\ unanswered' = Open \ answered
          /\ todo' = {[key |-> k, call |-> interrupts[k]] :
                        k \in {k \in DOMAIN interrupts : interrupts[k] \in answered}}
    BY <1>7 DEF Resume
  <2>3. \A k \in DOMAIN interrupts :
          interrupts[k] \in unanswered' \/ [key |-> k, call |-> interrupts[k]] \in todo'
    BY <2>1, <2>2
  <2> QED
    BY <2>1, <2>2, <2>3
<1>8. CASE ClearInterrupt
  <2>1. PICK r \in todo :
          /\ todo' = todo \ {r}
          /\ interrupts' = [k \in DOMAIN interrupts \ {r.key} |-> interrupts[k]]
    BY <1>8 DEF ClearInterrupt
  <2>2. UNCHANGED <<phase, tool, unanswered>> /\ Open' = Open /\ phase = "clear"
    BY <1>8 DEF ClearInterrupt, graphVars, Open
  <2>3. \A k \in DOMAIN interrupts' :
          interrupts'[k] \in unanswered \/ [key |-> k, call |-> interrupts'[k]] \in todo'
    BY <2>1, <2>2
  <2> QED
    BY <2>2, <2>3
<1>9. CASE RunAgain
  <2>1. UNCHANGED <<unanswered, interrupts>> /\ phase = "clear" /\ phase' = "run" /\ todo = {}
    BY <1>9 DEF RunAgain, streamVars
  <2>2. tool' = [c \in Calls |-> IF tool[c] # "paused" THEN tool[c]
                                 ELSE IF c \in TopCalls THEN "running" ELSE "idle"]
    BY <1>9 DEF RunAgain
  <2>3. \A c \in Calls : tool[c] # "running"
    BY <2>1 DEF TasksKnow, Quiet
  <2>4. Nesting'
    BY <2>2, <2>3
  <2>5. PausesAgain'
    BY <2>1, <2>2, <2>3 DEF PausesAgain, Open, NestedOf
  <2> QED
    BY <2>1, <2>4, <2>5
<1> QED
  <2>1. CASE \E c \in Calls : Take(c) \/ WatchStep(c) \/ SwallowCancel(c)
    BY <1>1, <2>1 DEF Take, WatchStep, SeeLink, LinkTimeout, LandCall, EndDrain,
       DrainTimeout, LandResult, SwallowCancel, Watching, Running, graphVars
  <2>2. CASE \E c \in TopCalls : Link(c)
    BY <1>1, <2>2 DEF Link, Running, graphVars
  <2> QED
    BY <1>2, <1>3, <1>4, <1>5, <1>6, <1>7, <1>8, <1>9, <2>1, <2>2 DEF Next

LEMMA InvStep == Inv /\ [Next]_vars => Inv'
<1> SUFFICES ASSUME Inv, [Next]_vars PROVE Inv'
  OBVIOUS
<1>1. TypeOK'
  BY TypeStep DEF Inv
<1>2. CASE Next
  BY <1>1, <1>2, TasksStep, GraphStep DEF Inv
<1>3. CASE UNCHANGED vars
  BY <1>1, <1>3 DEF Inv, vars, graphVars, streamVars, TasksKnow, RowsTrue, Completed,
     Nesting, RowsOfInterrupts, PausesAgain, Open, Quiet
<1> QED
  BY <1>2, <1>3

LEMMA Invariance == Spec => []Inv
BY InvInit, InvStep, PTL DEF Spec

\* Types, for any calls and bounds.
THEOREM TypeCorrect == Spec => []TypeOK
<1>1. Inv => TypeOK
  BY DEF Inv
<1> QED
  BY <1>1, Invariance, PTL

\* The rows of a subagent's calls carry the call that dispatched it, and no others do.
THEOREM Tagged == Spec => []NestedRowsTagged
<1>1. Inv => NestedRowsTagged
  BY DEF Inv, RowsTrue, NestedRowsTagged
<1> QED
  BY <1>1, Invariance, PTL

\* A result is what the tool came to, or the timeout overtook it, and a completed run
\* leaves a call without a result for the reasons ResultsAreTrue names.
THEOREM TrueResults == Spec => []ResultsAreTrue
<1>1. Inv => ResultsAreTrue
  <2> SUFFICES ASSUME Inv, NEW c \in Calls, row[c] # None
               PROVE  /\ row[c].result # "none" => c \in late \/ row[c].result = tool[c]
                      /\ phase = "complete" /\ row[c].result = "none" =>
                           \/ exec[c] \in {"swallowed", "skipped", "none"}
                           \/ exec[c] = "paused" /\ Open # {} /\ Open \subseteq Plain
    BY DEF ResultsAreTrue
  <2>1. row[c].result # "none" => c \in late \/ row[c].result = tool[c]
    BY DEF Inv, RowsTrue
  <2>2. ASSUME phase = "complete", row[c].result = "none"
        PROVE  \/ exec[c] \in {"swallowed", "skipped", "none"}
               \/ exec[c] = "paused" /\ Open # {} /\ Open \subseteq Plain
    <3>1. exec[c] \in {"swallowed", "skipped", "none", "paused"}
      BY <2>2 DEF Inv, TypeOK, TasksKnow, Quiet, Waiting, Ended
    <3>2. exec[c] = "paused" => tool[c] = "paused"
      BY DEF Inv, TasksKnow
    <3>3. ASSUME tool[c] = "paused" PROVE Open # {}
      <4>1. CASE \A n \in NestedOf(c) : tool[n] # "paused"
        BY <3>3, <4>1 DEF Open
      <4>2. CASE \E n \in NestedOf(c) : tool[n] = "paused"
        BY <4>2, CallFacts DEF Open, NestedOf
      <4> QED
        BY <4>1, <4>2
    <3>4. Open \subseteq Plain
      BY <2>2 DEF Inv, Completed
    <3> QED
      BY <3>1, <3>2, <3>3, <3>4
  <2> QED
    BY <2>1, <2>2
<1> QED
  BY <1>1, Invariance, PTL

\* A run that has ended leaves no interrupt row but of calls that are open.
THEOREM NothingStale == Spec => []NoStaleInterrupt
<1>1. Inv => NoStaleInterrupt
  BY DEF Inv, RowsOfInterrupts, NoStaleInterrupt
<1> QED
  BY <1>1, Invariance, PTL

-----------------------------------------------------------------------------
(* No interrupt is dropped.                                                *)

\* An ordering of finitely many interrupts has each of them.
LEMMA EachListed ==
  ASSUME IsFiniteSet(Listed), NEW s \in SetToSeqs(Listed)
  PROVE  /\ \A i \in DOMAIN s : s[i] \in Listed
         /\ \A i, j \in DOMAIN s : s[i] = s[j] => i = j
         /\ \A c \in Listed : \E i \in DOMAIN s : s[i] = c
         /\ DOMAIN s = 1..Cardinality(Listed) /\ Cardinality(Listed) \in Nat
<1> DEFINE n == Cardinality(Listed)
<1>1. n \in Nat
  BY FS_CardinalityType
<1>2. s \in [1..n -> Listed] /\ \A i, j \in 1..n : i # j => s[i] # s[j]
  BY DEF SetToSeqs
<1>3. IsFiniteSet(1..n) /\ Cardinality(1..n) = n
  BY <1>1, FS_Interval
<1>4. s \in Injection(1..n, Listed)
  BY <1>2 DEF Injection, IsInjective
<1>5. s \in Surjection(1..n, Listed)
  BY <1>3, <1>4, FS_Injection
<1> QED
  BY <1>1, <1>2, <1>5 DEF Surjection

\* Its rows have keys of their own, if no call has a count for its id.
LEMMA KeysDiffer ==
  ASSUME IsFiniteSet(Listed), Calls \cap Nat = {}, NEW s \in SetToSeqs(Listed),
         NEW i \in DOMAIN s, NEW j \in DOMAIN s, i < j
  PROVE  RowKey(s, i) # RowKey(s, j)
<1> DEFINE Before(k) == {l \in 1..(k - 1) : RawId[s[l]] = RawId[s[k]]}
<1>1. i \in Nat /\ j \in Nat /\ i \in 1..(j - 1)
  BY EachListed
<1>2. /\ IsFiniteSet(Before(i)) /\ Cardinality(Before(i)) \in Nat
      /\ IsFiniteSet(Before(j)) /\ Cardinality(Before(j)) \in Nat
  <2>1. IsFiniteSet(1..(i - 1)) /\ IsFiniteSet(1..(j - 1))
    BY <1>1, FS_Interval
  <2>2. Before(i) \in SUBSET (1..(i - 1)) /\ Before(j) \in SUBSET (1..(j - 1))
    OBVIOUS
  <2> QED
    BY <2>1, <2>2, FS_Subset, FS_CardinalityType
<1>3. /\ RowKey(s, i) = IF Cardinality(Before(i)) = 0 THEN <<RawId[s[i]]>>
           ELSE <<RawId[s[i]], IF s[i] \in Named THEN s[i] ELSE Cardinality(Before(i))>>
      /\ RowKey(s, j) = IF Cardinality(Before(j)) = 0 THEN <<RawId[s[j]]>>
           ELSE <<RawId[s[j]], IF s[j] \in Named THEN s[j] ELSE Cardinality(Before(j))>>
  BY DEF RowKey
<1>4. s[i] # s[j] /\ s[i] \notin Nat /\ s[j] \notin Nat
  <2>1. s[i] \in Calls /\ s[j] \in Calls
    BY EachListed DEF Listed, Open
  <2> QED
    BY <1>1, <2>1, EachListed
<1>5. ASSUME RawId[s[i]] = RawId[s[j]]
      PROVE  Cardinality(Before(j)) # 0 /\ Cardinality(Before(i)) # Cardinality(Before(j))
  <2>1. i \in Before(j) /\ i \notin Before(i)
    BY <1>1, <1>5
  <2>2. \A l \in Before(i) : l \in Before(j)
    BY <1>1, <1>5
  <2>3. Before(i) \in SUBSET Before(j) /\ Before(i) # Before(j) /\ Before(j) # {}
    BY <2>1, <2>2
  <2> QED
    <3> HIDE DEF Before
    <3> QED
      BY <1>2, <2>3, FS_Subset, FS_EmptySet
<1> HIDE DEF Before
<1> QED
  BY <1>2, <1>3, <1>4, <1>5

\* While a run writes its interrupts, each is on the stream or still to be written, and
\* none still to be written takes the place of another.
AllShown ==
  /\ phase = "finalise" =>
       /\ \A r1, r2 \in todo : r1.key = r2.key => r1 = r2
       /\ \A c \in Listed :
            \/ \E r \in todo : r.call = c
            \/ \E k \in DOMAIN interrupts : /\ interrupts[k] = c
                                            /\ \A r \in todo : r.key # k
  /\ OpenInterruptsShown

LEMMA ShownStep ==
  ASSUME IsFiniteSet(Calls), Calls \cap Nat = {}, Inv, AllShown, [Next]_vars
  PROVE  AllShown'
<1> USE DEF AllShown, OpenInterruptsShown
<1>1. IsFiniteSet(Listed)
  <2>1. Listed \in SUBSET Calls
    BY DEF Listed, Open
  <2> QED
    BY <2>1, FS_Subset
<1>2. CASE phase' \notin {"finalise", "interrupt"}
  BY <1>2
<1>3. CASE EndRun
  <2>1. Listed' = Listed /\ phase' # "interrupt"
    BY <1>3 DEF EndRun, graphVars, Listed, Open
  <2>2. PICK s \in SetToSeqs(Listed) : todo' = InterruptRows(s)
    BY <1>3 DEF EndRun
  <2>3. \A i, j \in DOMAIN s : RowKey(s, i) = RowKey(s, j) => i = j
    <3> SUFFICES ASSUME NEW i \in DOMAIN s, NEW j \in DOMAIN s, i # j
                 PROVE  RowKey(s, i) # RowKey(s, j)
      OBVIOUS
    <3>1. i < j \/ j < i
      BY <1>1, EachListed
    <3> QED
      BY <1>1, <3>1, KeysDiffer
  <2>4. \A r1, r2 \in todo' : r1.key = r2.key => r1 = r2
    BY <2>2, <2>3 DEF InterruptRows
  <2>5. \A c \in Listed : \E r \in todo' : r.call = c
    <3> SUFFICES ASSUME NEW c \in Listed PROVE \E r \in todo' : r.call = c
      OBVIOUS
    <3>1. PICK i \in DOMAIN s : s[i] = c
      BY <1>1, EachListed
    <3>2. [key |-> RowKey(s, i), call |-> s[i]] \in todo'
      BY <2>2 DEF InterruptRows
    <3> QED
      BY <3>1, <3>2
  <2> QED
    BY <2>1, <2>4, <2>5
<1>4. CASE UpsertInterrupt
  <2>1. PICK r \in todo : /\ interrupts' = [k \in DOMAIN interrupts \cup {r.key} |->
                                              IF k = r.key THEN r.call ELSE interrupts[k]]
                          /\ todo' = todo \ {r}
    BY <1>4 DEF UpsertInterrupt
  <2>2. Listed' = Listed /\ phase = "finalise" /\ phase' = "finalise"
    BY <1>4 DEF UpsertInterrupt, graphVars, Listed, Open
  <2>3. ASSUME NEW c \in Listed
        PROVE  \/ \E q \in todo' : q.call = c
               \/ \E k \in DOMAIN interrupts' : /\ interrupts'[k] = c
                                                /\ \A q \in todo' : q.key # k
    <3>1. CASE r.call = c
      <4>1. r.key \in DOMAIN interrupts' /\ interrupts'[r.key] = c
        BY <2>1, <3>1
      <4>2. \A q \in todo' : q.key # r.key
        BY <2>1, <2>2
      <4> QED
        BY <4>1, <4>2
    <3>2. CASE \E q \in todo : q.call = c /\ q # r
      BY <2>1, <3>2
    <3>3. CASE \E k \in DOMAIN interrupts : interrupts[k] = c /\ \A q \in todo : q.key # k
      BY <2>1, <3>3
    <3> QED
      BY <2>2, <3>1, <3>2, <3>3
  <2> QED
    BY <2>1, <2>2, <2>3
<1>5. CASE Pause
  BY <1>5 DEF Pause, graphVars, streamVars, Listed, Open
<1>6. CASE UNCHANGED <<phase, tool, interrupts, todo>>
  BY <1>6 DEF Listed, Open
<1> QED
  <2>1. CASE Resume \/ ClearInterrupt \/ RunAgain
    BY <1>2, <2>1 DEF Resume, ClearInterrupt, RunAgain
  <2>2. CASE \/ \E c \in Calls : EndTool(c) \/ Take(c) \/ WatchStep(c) \/ SwallowCancel(c)
             \/ \E n \in NestedCalls : StartNested(n)
             \/ \E c \in TopCalls : Link(c)
    <3>1. phase' = "run"
      BY <2>2 DEF EndTool, Take, WatchStep, SeeLink, LinkTimeout, LandCall, EndDrain,
         DrainTimeout, LandResult, SwallowCancel, StartNested, Link, Watching, Running
    <3> QED
      BY <1>2, <3>1
  <2>3. CASE UNCHANGED vars
    BY <1>6, <2>3 DEF vars, graphVars, streamVars
  <2> QED
    BY <1>3, <1>4, <1>5, <2>1, <2>2, <2>3 DEF Next

\* A paused run shows every open interrupt it can show, for any finite set of calls and
\* whatever ids they share, unless the id of a call reads like a count.
THEOREM NoneDropped ==
  ASSUME IsFiniteSet(Calls), Calls \cap Nat = {}
  PROVE  Spec => []OpenInterruptsShown
<1>1. Init => AllShown
  BY DEF Init, AllShown, OpenInterruptsShown
<1>2. Inv /\ AllShown /\ [Next]_vars => AllShown'
  BY ShownStep
<1>3. AllShown => OpenInterruptsShown
  BY DEF AllShown
<1> QED
  BY <1>1, <1>2, <1>3, Invariance, PTL DEF Spec

-----------------------------------------------------------------------------
(* The refinement.                                                         *)

\* What ToolRow sees of a row, and the calls the run has not shown yet.
Shown == [c \in Calls |-> CASE row[c] = None -> "absent"
                            [] row[c] # None /\ row[c].result = "none" -> "called"
                            [] OTHER -> "settled"]
Due == {c \in Calls : exec[c] \in {"none", "linking", "calling"}}

LEMMA RowStep ==
  ASSUME Inv, [Next]_vars
  PROVE  \/ UNCHANGED <<runs, Shown, Due>>
         \/ /\ runs' = runs + 1 /\ Due' \in SUBSET Calls /\ UNCHANGED Shown
         \/ \E c \in Calls :
              \/ /\ c \in Due /\ Due' = Due \ {c} /\ UNCHANGED runs
                 /\ Shown' = Shown \/ Shown' = [Shown EXCEPT ![c] = "called"]
              \/ /\ c \notin Due /\ Shown[c] = "called"
                 /\ Shown' = [Shown EXCEPT ![c] = "settled"]
                 /\ UNCHANGED <<runs, Due>>
<1> USE CallFacts DEF Inv, TypeOK
<1>1. CASE UNCHANGED <<runs, row, exec>>
  BY <1>1 DEF Shown, Due
<1>2. CASE \E c \in Calls : Take(c)
  <2>1. UNCHANGED <<runs, row>>
    BY <1>2 DEF Take, Watching, Running
  <2>2. Due' = Due
    BY <1>2 DEF Take, Due
  <2> QED
    BY <2>1, <2>2 DEF Shown
<1>3. CASE \E c \in Calls : SeeLink(c)
  <2>1. UNCHANGED <<runs, row>>
    BY <1>3 DEF SeeLink, Watching, Running
  <2>2. Due' = Due
    BY <1>3 DEF SeeLink, Due
  <2> QED
    BY <2>1, <2>2 DEF Shown
<1>4. CASE \E c \in Calls : LinkTimeout(c)
  <2>1. PICK c \in Calls : LinkTimeout(c)
    BY <1>4
  <2>2. UNCHANGED <<runs, row>>
    BY <2>1 DEF LinkTimeout, Watching, Running
  <2>3. c \in Due /\ Due' = Due \ {c}
    BY <2>1 DEF LinkTimeout, Due
  <2> QED
    BY <2>2, <2>3 DEF Shown
<1>5. CASE \E c \in Calls : LandCall(c)
  <2>1. PICK c \in Calls : LandCall(c)
    BY <1>5
  <2>2. c \in Due /\ Due' = Due \ {c} /\ UNCHANGED runs
    BY <2>1 DEF LandCall, Due, Watching, Running
  <2>3. /\ row'[c] # None /\ row'[c].result = "none"
        /\ \A d \in Calls : d # c => row'[d] = row[d]
    BY <2>1 DEF LandCall, Row, None
  <2>4. Shown' = [Shown EXCEPT ![c] = "called"]
    BY <2>3 DEF Shown
  <2> QED
    BY <2>2, <2>4
<1>6. CASE \E c \in Calls : EndDrain(c) \/ DrainTimeout(c) \/ SwallowCancel(c)
  <2>1. UNCHANGED <<runs, row>>
    BY <1>6 DEF EndDrain, DrainTimeout, SwallowCancel, Watching, Running
  <2>2. Due' = Due
    BY <1>6 DEF EndDrain, DrainTimeout, SwallowCancel, AfterDrain, Due
  <2> QED
    BY <2>1, <2>2 DEF Shown
<1>7. CASE \E c \in Calls : LandResult(c)
  <2>1. PICK c \in Calls : LandResult(c)
    BY <1>7
  <2>2. c \notin Due /\ Due' = Due /\ UNCHANGED runs
    BY <2>1 DEF LandResult, Due, Watching, Running
  <2>3. row[c] # None /\ row[c].result = "none" /\ result[c] # "none"
    BY <2>1 DEF LandResult, TasksKnow, Settled
  <2>4. /\ row'[c] # None /\ row'[c].result # "none"
        /\ \A d \in Calls : d # c => row'[d] = row[d]
    BY <2>1, <2>3 DEF LandResult, Row, None
  <2>5. Shown[c] = "called" /\ Shown' = [Shown EXCEPT ![c] = "settled"]
    BY <2>3, <2>4 DEF Shown
  <2> QED
    BY <2>2, <2>5
<1>8. CASE RunAgain
  BY <1>8 DEF RunAgain, streamVars, Shown, Due
<1> QED
  <2>1. CASE \E c \in Calls : EndTool(c)
    BY <1>1, <2>1 DEF EndTool, Running
  <2>2. CASE \/ \E n \in NestedCalls : StartNested(n)
             \/ \E c \in TopCalls : Link(c)
    BY <1>1, <2>2 DEF StartNested, Link, Running
  <2>3. CASE EndRun \/ UpsertInterrupt \/ Pause \/ Resume \/ ClearInterrupt
    BY <1>1, <2>3 DEF EndRun, UpsertInterrupt, Pause, Resume, ClearInterrupt, streamVars
  <2>4. CASE UNCHANGED vars
    BY <1>1, <2>4 DEF vars, streamVars
  <2> QED
    BY <1>2, <1>3, <1>4, <1>5, <1>6, <1>7, <1>8, <2>1, <2>2, <2>3, <2>4
    DEF Next, WatchStep

\* ToolCalls implements ToolRow: in one run a row goes from its call to its result, each
\* once, and never back; only a later run shows a call again.
THEOREM Refinement == Spec => KeepsRows
<1>1. Init => Rows!RowInit
  BY CallFacts DEF Init, Rows!RowInit
<1>2. Inv /\ [Next]_vars => [Rows!RowNext]_(Rows!rowVars)
  BY RowStep DEF Shown, Due, Rows!rowVars, Rows!RowNext, Rows!RunAgain, Rows!ShowCall,
     Rows!Omit, Rows!Settle
<1> QED
  BY <1>1, <1>2, Invariance, PTL DEF Spec, KeepsRows, Rows!RowSpec

=============================================================================
