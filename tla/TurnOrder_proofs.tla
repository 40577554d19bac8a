-------------------------- MODULE TurnOrder_proofs --------------------------
(***************************************************************************)
(* Proofs about TurnOrder for any bounds.  A caller that reads the starts  *)
(* off the stream has one sequence, whatever the history lost and however  *)
(* often a turn was resumed; where no turn is resumed no row ever moves.   *)
(***************************************************************************)
EXTENDS TurnOrder, NumberLemmas, FunctionTheorems, SequenceTheorems

-----------------------------------------------------------------------------
(* Bounds, keys and the greatest of finitely many numbers.                 *)

LEMMA BoundsAreNat ==
  /\ MaxTurns \in Nat /\ MaxMessages \in Nat /\ MaxCalls \in Nat
  /\ MaxNested \in Nat /\ MaxRestreams \in Nat /\ MaxResumes \in Nat /\ MaxForgets \in Nat
BY OrderBounds

\* Every key names the turn it belongs to.
LEMMA KeyFacts ==
  /\ \A t \in Turns : UserKey(t) \in Messages /\ UserKey(t)[1] = t
  /\ \A t \in Turns, m \in 0..MaxMessages :
        MessageKey(t, m) \in Messages /\ MessageKey(t, m)[1] = t
  /\ Messages \subseteq Keys /\ Tools \subseteq Keys /\ Nested \subseteq Keys
  /\ \A k \in Keys : k[1] \in Turns
  /\ Turns \subseteq Nat
BY BoundsAreNat DEF Turns, UserKey, MessageKey, Messages, Tools, Nested, Keys

LEMMA KeysFinite == IsFiniteSet(Keys) /\ IsFiniteSet(Messages) /\ IsFiniteSet(Tools)
<1>1. /\ IsFiniteSet(Turns) /\ IsFiniteSet(0..MaxMessages) /\ IsFiniteSet(1..MaxMessages)
      /\ IsFiniteSet(1..MaxCalls) /\ IsFiniteSet(1..MaxNested)
  BY BoundsAreNat, FS_Interval DEF Turns
<1>2. IsFiniteSet(Messages)
  <2>1. Messages = Turns \X (0..MaxMessages)
    BY DEF Messages
  <2> QED
    BY <1>1, <2>1, FS_Product
<1>3. IsFiniteSet(Tools)
  <2> DEFINE P == (Turns \X (1..MaxMessages)) \X (1..MaxCalls)
             f == [p \in P |-> <<p[1][1], p[1][2], p[2]>>]
  <2>1. IsFiniteSet(Turns \X (1..MaxMessages))
    BY <1>1, FS_Product
  <2>2. IsFiniteSet(P)
    BY <1>1, <2>1, FS_Product
  <2>3. f \in [P -> Tools]
    BY DEF Tools
  <2>4. \A k \in Tools : \E p \in P : f[p] = k
    <3> TAKE k \in Tools
    <3>1. PICK t \in Turns, m \in 1..MaxMessages, c \in 1..MaxCalls : k = <<t, m, c>>
      BY DEF Tools
    <3>2. <<<<t, m>>, c>> \in P /\ f[<<<<t, m>>, c>>] = k
      BY <3>1
    <3> QED
      BY <3>2
  <2>5. f \in Surjection(P, Tools)
    BY <2>3, <2>4 DEF Surjection
  <2> QED
    BY <2>2, <2>5, FS_Surjection
<1>4. IsFiniteSet(Nested)
  <2> DEFINE P == Turns \X (1..MaxNested)
             f == [p \in P |-> <<p[1], 0, p[2]>>]
  <2>1. IsFiniteSet(P)
    BY <1>1, FS_Product
  <2>2. f \in [P -> Nested]
    BY DEF Nested
  <2>3. \A k \in Nested : \E p \in P : f[p] = k
    <3> TAKE k \in Nested
    <3>1. PICK t \in Turns, n \in 1..MaxNested : k = <<t, 0, n>>
      BY DEF Nested
    <3>2. <<t, n>> \in P /\ f[<<t, n>>] = k
      BY <3>1
    <3> QED
      BY <3>2
  <2>4. f \in Surjection(P, Nested)
    BY <2>2, <2>3 DEF Surjection
  <2> QED
    BY <2>1, <2>4, FS_Surjection
<1>5. IsFiniteSet(Messages \cup Tools)
  BY <1>2, <1>3, FS_Union
<1> QED
  BY <1>2, <1>3, <1>4, <1>5, FS_Union DEF Keys

\* Max is the greatest of a finite set of numbers.
LEMMA MaxOfFinite ==
  ASSUME NEW S \in SUBSET Int, S # {}, IsFiniteSet(S)
  PROVE  Max(S) \in S /\ \A y \in S : Max(S) >= y
BY GreatestExists DEF Max

\* So the highest of the numbers the rows carry is a bound of them.
LEMMA MaxOfRows ==
  ASSUME NEW D, IsFiniteSet(D), D # {}, NEW f \in [D -> Nat \cup {None}]
  PROVE  /\ Max({f[k] : k \in D}) \in Nat \cup {None}
         /\ \A k \in D : f[k] <= Max({f[d] : d \in D})
<1> DEFINE S == {f[k] : k \in D}
<1>1. S \in SUBSET Int /\ S # {}
  BY DEF None
<1>2. f \in Surjection(D, S)
  BY DEF Surjection
<1>3. IsFiniteSet(S)
  BY <1>2, FS_Surjection
<1>4. Max(S) \in S /\ \A y \in S : Max(S) >= y
  BY <1>1, <1>3, MaxOfFinite
<1>5. S \subseteq Nat \cup {None}
  OBVIOUS
<1> QED
  BY <1>1, <1>4, <1>5

-----------------------------------------------------------------------------
(* Types.                                                                  *)

\* The tasks of a turn are about that turn, and there is one to be about.
OwnTurn ==
  /\ phase # "idle" => turn \in Turns
  /\ \A k \in Tools : toolTask[k] # "none" => k[1] = turn
  /\ messageQueue \in Seq({k \in Messages : k[1] = turn})
  /\ messageTask # Idle => messageTask.key[1] = turn
  /\ phase # "run" =>
       /\ messageQueue = <<>> /\ messageTask = Idle
       /\ \A k \in Tools : toolTask[k] \in {"none", "asked", "done", "paused"}
       /\ \A k \in Nested : nestedTask[k] # "calling"

TypeInv == TypeOK /\ OwnTurn

\* Wherever the starts are taken from they are numbers; off the stream, the order
\* start is past every row.
LEMMA Starts ==
  ASSUME TypeOK, Turns # {}
  PROVE  /\ OrdinalStart \in Nat /\ OrderStart \in Nat
         /\ FromStream => \A k \in Keys : rowOrder[k] < OrderStart
<1>1. Keys # {} /\ Messages # {}
  BY KeyFacts
<1>2. CASE FromStream
  <2> DEFINE top == Max({rowOrder[k] : k \in Keys})
             last == Max({rowOrdinal[k] : k \in Messages})
  <2>1. OrderStart = top + 1 /\ OrdinalStart = last + 1
    BY <1>2 DEF OrderStart, OrdinalStart
  <2>2. /\ rowOrder \in [Keys -> Nat \cup {None}]
        /\ rowOrdinal \in [Messages -> Nat \cup {None}]
    BY DEF TypeOK
  <2>3. top \in Nat \cup {None} /\ \A k \in Keys : rowOrder[k] <= top
    BY <1>1, <2>2, KeysFinite, MaxOfRows, Zenon
  <2>4. last \in Nat \cup {None}
    BY <1>1, <2>2, KeysFinite, MaxOfRows, Zenon
  <2> HIDE DEF top, last
  <2> QED
    BY <2>1, <2>2, <2>3, <2>4 DEF None
<1>3. CASE ~FromStream
  <2>1. IsFiniteSet(history.messages) /\ IsFiniteSet(history.calls)
    BY KeysFinite, FS_Subset DEF TypeOK
  <2>2. Cardinality(history.messages) \in Nat /\ Cardinality(history.calls) \in Nat
    BY <2>1, FS_CardinalityType
  <2> QED
    BY <1>3, <2>2 DEF OrderStart, OrdinalStart, NextLiveOrder, NextLiveOrdinal
<1> QED
  BY <1>2, <1>3

LEMMA StampTypes ==
  ASSUME TypeOK
  PROVE  /\ \A k \in Keys : RenderOrder(k) =>
              orders' \in [Keys -> Nat \cup {None}] /\ orderSeq' \in Nat
         /\ \A k \in Messages : NextOrdinal(k) =>
              ordinals' \in [Messages -> Nat \cup {None}] /\ ordinalSeq' \in Nat
BY DEF TypeOK, RenderOrder, NextOrdinal

LEMMA LandTypes ==
  ASSUME TypeOK, NEW k \in Keys, Land(k)
  PROVE  /\ rowOrder' \in [Keys -> Nat \cup {None}]
         /\ rowOrdinal' \in [Messages -> Nat \cup {None}]
BY DEF TypeOK, Land

LEMMA TypeInit == Init => TypeInv
<1> SUFFICES ASSUME Init PROVE TypeInv
  OBVIOUS
<1>1. turn \in 0..MaxTurns /\ resumes \in 0..MaxResumes /\ forgets \in 0..MaxForgets
      /\ started \in 0..MaxMessages /\ restreams \in 0..MaxRestreams
  BY BoundsAreNat DEF Init
<1>2. /\ history \in [messages : SUBSET Messages, calls : SUBSET Tools]
      /\ ordinals \in [Messages -> Nat \cup {None}]
      /\ orders \in [Keys -> Nat \cup {None}]
      /\ rowOrder \in [Keys -> Nat \cup {None}]
      /\ rowOrdinal \in [Messages -> Nat \cup {None}]
  BY DEF Init
<1>3. /\ toolTask \in [Tools -> ToolStates]
      /\ nestedTask \in [Nested -> {"none", "calling", "done"}]
      /\ messageQueue \in Seq(Messages)
  BY DEF Init, ToolStates
<1>4. TypeOK
  BY <1>1, <1>2, <1>3 DEF Init, TypeOK
<1>5. OwnTurn
  BY DEF Init, OwnTurn
<1> QED
  BY <1>4, <1>5 DEF TypeInv

\* An ended turn leaves its tasks idle and its counters as they were.
LEMMA EndTypes ==
  ASSUME TypeOK, EndTurn
  PROVE  /\ turn' \in 0..MaxTurns /\ phase' = "idle" /\ resumes' \in 0..MaxResumes
         /\ ordinalSeq' \in Nat /\ orderSeq' \in Nat
         /\ ordinals' \in [Messages -> Nat \cup {None}]
         /\ orders' \in [Keys -> Nat \cup {None}]
         /\ speaking' \in BOOLEAN /\ started' \in 0..MaxMessages
         /\ restreams' \in 0..MaxRestreams
         /\ messageQueue' = <<>> /\ messageQueue' \in Seq(Messages)
         /\ messageQueue' \in Seq({k \in Messages : k[1] = turn'})
         /\ messageTask' = Idle
         /\ nestedTask' \in [Nested -> {"none", "calling", "done"}]
         /\ \A k \in Nested : nestedTask'[k] # "calling"
<1>1. /\ turn' \in 0..MaxTurns /\ phase' = "idle" /\ resumes' \in 0..MaxResumes
      /\ ordinalSeq' \in Nat /\ orderSeq' \in Nat
      /\ ordinals' \in [Messages -> Nat \cup {None}]
      /\ orders' \in [Keys -> Nat \cup {None}]
  BY DEF TypeOK, EndTurn, translatorVars
<1>2. speaking' \in BOOLEAN /\ started' \in 0..MaxMessages /\ restreams' \in 0..MaxRestreams
  <2>1. speaking' = FALSE /\ restreams' = 0 /\ started' = started
    BY DEF EndTurn
  <2>2. started \in 0..MaxMessages
    BY DEF TypeOK
  <2>3. speaking' \in BOOLEAN
    BY <2>1, Zenon
  <2>4. 0 \in 0..MaxRestreams
    BY BoundsAreNat
  <2> QED
    BY <2>1, <2>2, <2>3, <2>4
<1>3. messageQueue' = <<>> /\ messageTask' = Idle
  BY DEF EndTurn
<1>4. messageQueue' \in Seq(Messages) /\ messageQueue' \in Seq({k \in Messages : k[1] = turn'})
  BY <1>3
<1>5. /\ nestedTask' \in [Nested -> {"none", "calling", "done"}]
      /\ \A k \in Nested : nestedTask'[k] # "calling"
  BY DEF EndTurn
<1> QED
  BY <1>1, <1>2, <1>3, <1>4, <1>5

LEMMA TypeStep == TypeInv /\ [Next]_vars => TypeInv'
<1> SUFFICES ASSUME TypeInv, [Next]_vars PROVE TypeOK' /\ OwnTurn'
  BY DEF TypeInv
<1> USE BoundsAreNat, KeyFacts DEF TypeInv, TypeOK, OwnTurn, ToolStates
<1>1. CASE BeginTurn
  <2>1. turn + 1 \in Turns /\ Turns # {}
    BY <1>1 DEF BeginTurn, Turns
  <2>2. OrdinalStart \in Nat /\ OrderStart \in Nat
    BY <2>1, Starts
  <2>3. TypeOK'
    BY <1>1, <2>1, <2>2 DEF BeginTurn, Turns, callerVars, streamVars
  <2>4. OwnTurn'
    BY <1>1, <2>1 DEF BeginTurn, streamVars
  <2> QED
    BY <2>3, <2>4
<1>2. CASE LandUser
  <2>1. UserKey(turn) \in Keys
    BY <1>2 DEF LandUser
  <2>2. /\ rowOrder' \in [Keys -> Nat \cup {None}]
        /\ rowOrdinal' \in [Messages -> Nat \cup {None}]
    BY <1>2, <2>1, LandTypes DEF LandUser
  <2> QED
    BY <1>2, <2>2 DEF LandUser, translatorVars, graphVars, taskVars
<1>3. CASE CompleteTurn
  <2>1. history' \in [messages : SUBSET Messages, calls : SUBSET Tools]
    BY <1>3 DEF CompleteTurn, Fold
  <2>2. EndTurn /\ UNCHANGED <<forgets, toolTask, streamVars>>
    BY <1>3 DEF CompleteTurn
  <2>3. TypeOK'
    BY <2>1, <2>2, EndTypes DEF streamVars
  <2>4. \A k \in Tools : toolTask'[k] \in {"none", "asked", "done", "paused"}
    BY <1>3 DEF CompleteTurn
  <2>5. OwnTurn'
    BY <1>3, <2>2, <2>4, EndTypes DEF CompleteTurn, EndTurn
  <2> QED
    BY <2>3, <2>5
<1>4. CASE ResumeTurn
  BY Starts, <1>4 DEF ResumeTurn, Resume, graphVars, streamVars
<1>5. CASE Compact
  BY <1>5 DEF Compact, translatorVars, graphVars, taskVars, streamVars
<1>6. CASE StartMessage
  BY <1>6 DEF StartMessage, Running, callerVars, translatorVars, streamVars
<1>7. CASE Restream
  BY <1>7 DEF Restream, Running, callerVars, translatorVars, streamVars
<1>8. CASE FinishMessage
  <2>1. UNCHANGED <<callerVars, translatorVars, streamVars, started, restreams,
                    messageQueue, messageTask, nestedTask>>
    BY <1>8 DEF FinishMessage, Running
  <2>2. PICK n \in 0..MaxCalls :
          toolTask' = [k \in Tools |-> IF \E c \in 1..n : k = <<turn, started, c>>
                                       THEN "asked" ELSE toolTask[k]]
    BY <1>8 DEF FinishMessage
  <2>3. /\ toolTask' \in [Tools -> ToolStates]
        /\ \A k \in Tools : toolTask'[k] # "none" => k[1] = turn
    BY <2>2
  <2>4. phase = "run" /\ speaking' = FALSE
    BY <1>8 DEF FinishMessage, Running
  <2> QED
    BY <2>1, <2>3, <2>4 DEF callerVars, translatorVars, streamVars
<1>9. CASE TakeMessage
  BY StampTypes, <1>9 DEF TakeMessage, Running, callerVars, graphVars, streamVars
<1>10. CASE LandAnchor
  <2>1. messageTask.key \in Messages /\ messageTask.key \in Keys
        /\ messageTask.key[1] = turn
    BY <1>10 DEF LandAnchor, Idle
  <2>2. /\ rowOrder' \in [Keys -> Nat \cup {None}]
        /\ rowOrdinal' \in [Messages -> Nat \cup {None}]
    BY <1>10, <2>1, LandTypes DEF LandAnchor
  <2>3. messageTask' \in [at : {"anchor", "text"}, key : Messages]
        /\ messageTask'.key = messageTask.key
    BY <1>10, <2>1 DEF LandAnchor, Idle
  <2> QED
    BY <1>10, <2>1, <2>2, <2>3 DEF LandAnchor, Running, callerVars, translatorVars,
       graphVars
<1>11. CASE EndText
  BY <1>11 DEF EndText, Running, callerVars, translatorVars, graphVars, streamVars
<1>12. CASE \E k \in Tools : RunTool(k)
  BY <1>12 DEF RunTool, Running, callerVars, translatorVars, graphVars, streamVars
<1>13. CASE \E k \in Tools : TakeTool(k)
  BY StampTypes, <1>13 DEF TakeTool, Running, callerVars, graphVars, streamVars
<1>14. CASE \E k \in Tools : LandCall(k)
  BY LandTypes, <1>14 DEF LandCall, Running, callerVars, translatorVars, graphVars
<1>15. CASE \E k \in Tools : EndToolDrain(k)
  <2>1. PICK k \in Tools : EndToolDrain(k)
    BY <1>15
  <2>2. /\ toolTask' \in [Tools -> ToolStates]
        /\ \A d \in Tools : toolTask'[d] # "none" => toolTask[d] # "none"
    BY <2>1 DEF EndToolDrain
  <2>3. phase = "run"
    BY <2>1 DEF EndToolDrain, Running
  <2> QED
    BY <2>1, <2>2, <2>3 DEF EndToolDrain, Running, callerVars, translatorVars, graphVars,
       streamVars
<1>16. CASE \E k \in Tools : LandResult(k)
  BY LandTypes, <1>16 DEF LandResult, Running, callerVars, translatorVars, graphVars
<1>17. CASE \E k \in Nested : TakeNested(k)
  BY StampTypes, <1>17 DEF TakeNested, Running, callerVars, graphVars, streamVars
<1>18. CASE \E k \in Nested : LandNested(k)
  BY LandTypes, <1>18 DEF LandNested, Running, callerVars, translatorVars, graphVars
<1>19. CASE CutTurn
  <2>1. PICK landed \in SUBSET InFlight :
          /\ rowOrder' = [k \in Keys |-> IF k \in landed THEN orders[k] ELSE rowOrder[k]]
          /\ rowOrdinal' = [k \in Messages |->
                              IF k \in landed THEN ordinals[k] ELSE rowOrdinal[k]]
    BY <1>19 DEF CutTurn
  <2>2. /\ rowOrder' \in [Keys -> Nat \cup {None}]
        /\ rowOrdinal' \in [Messages -> Nat \cup {None}]
    BY <2>1
  <2>3. history' \in [messages : SUBSET Messages, calls : SUBSET Tools]
        /\ forgets' \in 0..MaxForgets
    BY <1>19 DEF CutTurn, Fold, EmittedMessages, EmittedCalls
  <2>4. EndTurn /\ toolTask' = [k \in Tools |-> "none"]
    BY <1>19 DEF CutTurn
  <2>5. TypeOK'
    BY <2>2, <2>3, <2>4, EndTypes
  <2>6. OwnTurn'
    BY <2>4, EndTypes
  <2> QED
    BY <2>5, <2>6
<1>20. CASE UNCHANGED vars
  BY <1>20 DEF vars, callerVars, translatorVars, graphVars, taskVars, streamVars
<1> QED
  BY <1>1, <1>2, <1>3, <1>4, <1>5, <1>6, <1>7, <1>8, <1>9, <1>10, <1>11, <1>12, <1>13, <1>14, <1>15, <1>16, <1>17, <1>18, <1>19, <1>20 DEF Next, UncutNext

\* The state has the declared types, for any bounds and either way of seeding.
THEOREM TypeCorrect == Spec => []TypeOK
<1>1. TypeInv => TypeOK
  BY DEF TypeInv
<1> QED
  BY TypeInit, TypeStep, <1>1, PTL DEF Spec

-----------------------------------------------------------------------------
(* Stamps: what the translator of the turn has handed out.                 *)

Stamped == {k \in Keys : orders[k] # None}

Counted ==
  /\ \A k \in Stamped : k[1] = turn /\ orders[k] < orderSeq
  /\ \A a, b \in Stamped : orders[a] = orders[b] => a = b

\* Tasks write rows they have stamped.
WritesStamped ==
  /\ InFlight \subseteq Stamped
  /\ \A k \in Tools : toolTask[k] = "draining" => k \in Stamped

\* A row of this turn is on the stream as it was stamped, until a run resumes the turn.
AsStamped ==
  /\ \A k \in OnStream : k[1] <= turn
  /\ resumes = 0 => \A k \in OnStream : k[1] = turn => rowOrder[k] = orders[k]

\* A row that is not on the stream as it was stamped is older than every stamp.
OlderThanStamps ==
  \A k \in OnStream : rowOrder[k] # orders[k] =>
    rowOrder[k] < orderSeq /\ \A j \in Stamped : rowOrder[k] < orders[j]

Places == OlderThanStamps /\ OneSequence /\ LaterTurnsSortAfter

StreamInv == TypeInv /\ Counted /\ WritesStamped /\ AsStamped /\ (FromStream => Places)

\* What a step does to the stamps and the stream: some stamped rows land, or one row
\* of the turn is stamped, or a new translator starts.
LandingRows(L) ==
  /\ L \subseteq Stamped
  /\ rowOrder' = [k \in Keys |-> IF k \in L THEN orders[k] ELSE rowOrder[k]]
  /\ UNCHANGED <<turn, resumes, orders, orderSeq>>

StampingRow(k) ==
  /\ k[1] = turn
  /\ RenderOrder(k)
  /\ UNCHANGED <<turn, resumes, rowOrder>>

LEMMA StampedKeys ==
  ASSUME TypeOK
  PROVE  /\ \A k \in Stamped : k \in Keys /\ orders[k] \in Nat
         /\ \A k \in OnStream : k \in Keys /\ rowOrder[k] \in Nat
         /\ orderSeq \in Nat
BY DEF TypeOK, Stamped, OnStream

\* A key is stamped once, with the order that comes next.
LEMMA StampOnce ==
  ASSUME TypeOK, NEW k \in Keys, RenderOrder(k)
  PROVE  /\ Stamped' = Stamped \cup {k}
         /\ \A j \in Stamped : orders'[j] = orders[j]
         /\ k \notin Stamped => orders'[k] = orderSeq /\ orderSeq' = orderSeq + 1
         /\ k \in Stamped => orders' = orders /\ orderSeq' = orderSeq
<1>1. CASE orders[k] # None
  BY <1>1 DEF RenderOrder, Stamped
<1>2. CASE orders[k] = None
  <2>1. orders' = [orders EXCEPT ![k] = orderSeq] /\ orderSeq' = orderSeq + 1
    BY <1>2 DEF RenderOrder
  <2>2. orders \in [Keys -> Nat \cup {None}] /\ orderSeq \in Nat /\ orderSeq # None
    BY DEF TypeOK, None
  <2>3. orders'[k] = orderSeq /\ \A j \in Keys : j # k => orders'[j] = orders[j]
    BY <2>1, <2>2
  <2> QED
    BY <1>2, <2>1, <2>2, <2>3 DEF Stamped
<1> QED
  BY <1>1, <1>2

LEMMA LandingKeeps ==
  ASSUME TypeOK, TypeOK', Counted, AsStamped, NEW L, LandingRows(L)
  PROVE  Counted' /\ AsStamped' /\ (Places => Places')
<1>1. /\ turn' = turn /\ resumes' = resumes /\ orders' = orders /\ orderSeq' = orderSeq
      /\ Stamped' = Stamped /\ L \subseteq Stamped
  BY DEF LandingRows, Stamped
<1>2. \A k \in Keys : rowOrder'[k] = IF k \in L THEN orders[k] ELSE rowOrder[k]
  BY DEF LandingRows
<1>3. \A k \in OnStream' : k \in Keys /\ (k \in L \/ k \in OnStream)
  BY <1>2 DEF OnStream
<1>4. Counted'
  BY <1>1 DEF Counted
<1>5. turn \in Nat
  BY DEF TypeOK
<1>6. AsStamped'
  BY <1>1, <1>2, <1>3, <1>5 DEF AsStamped, Counted
<1>7. ASSUME Places PROVE Places'
  <2>1. OlderThanStamps'
    BY <1>1, <1>2, <1>3, <1>7 DEF Places, OlderThanStamps
  <2>2. \A a \in L, b \in OnStream' : b \notin L =>
          (rowOrder[b] = orders[b] /\ b \in Stamped) \/ rowOrder[b] < orders[a]
    BY <1>1, <1>2, <1>3, <1>7 DEF Places, OlderThanStamps, OnStream, Stamped
  <2>3. OneSequence'
    <3> SUFFICES ASSUME NEW a \in OnStream', NEW b \in OnStream',
                        rowOrder'[a] = rowOrder'[b]
                 PROVE  a = b
      BY DEF OneSequence
    <3> QED
      BY <1>1, <1>2, <1>3, <1>7, <2>2, StampedKeys DEF Places, OneSequence, Counted
  <2>4. LaterTurnsSortAfter'
    <3> SUFFICES ASSUME NEW a \in OnStream', NEW b \in OnStream', a[1] < b[1]
                 PROVE  rowOrder'[a] < rowOrder'[b]
      BY DEF LaterTurnsSortAfter
    <3>1. a \notin L
      <4> SUFFICES ASSUME a \in L PROVE FALSE
        OBVIOUS
      <4>1. a[1] = turn /\ b[1] <= turn
        BY <1>1, <1>6 DEF AsStamped, Counted
      <4>2. b[1] \in Nat
        BY <1>3, KeyFacts
      <4> QED
        BY <1>5, <4>1, <4>2
    <3>2. a \in OnStream /\ rowOrder'[a] = rowOrder[a]
      BY <1>2, <1>3, <3>1
    <3>3. CASE b \in L
      <4>1. b[1] = turn
        BY <1>1, <3>3 DEF Counted
      <4>2. ~ (a \in Stamped)
        BY <1>5, <4>1 DEF Counted
      <4>3. rowOrder[a] < orders[b]
        BY <2>2, <3>1, <3>3, <4>2
      <4> QED
        BY <1>2, <1>3, <3>2, <3>3, <4>3
    <3>4. CASE b \notin L
      BY <1>2, <1>3, <1>7, <3>2, <3>4 DEF Places, LaterTurnsSortAfter
    <3> QED
      BY <3>3, <3>4
  <2> QED
    BY <2>1, <2>3, <2>4 DEF Places
<1> QED
  BY <1>4, <1>6, <1>7

LEMMA StampingKeeps ==
  ASSUME TypeOK, Counted, AsStamped, NEW k \in Keys, StampingRow(k)
  PROVE  Counted' /\ AsStamped' /\ (Places => Places')
<1>1. turn' = turn /\ resumes' = resumes /\ rowOrder' = rowOrder /\ OnStream' = OnStream
  BY DEF StampingRow, OnStream
<1>2. CASE k \in Stamped
  <2>1. orders' = orders /\ orderSeq' = orderSeq /\ Stamped' = Stamped
    BY <1>2, StampOnce DEF StampingRow
  <2> QED
    BY <1>1, <2>1 DEF Counted, AsStamped, Places, OlderThanStamps, OneSequence,
       LaterTurnsSortAfter
<1>3. CASE k \notin Stamped
  <2>1. /\ Stamped' = Stamped \cup {k} /\ k[1] = turn
        /\ \A j \in Stamped : orders'[j] = orders[j]
        /\ orders'[k] = orderSeq /\ orderSeq' = orderSeq + 1
        /\ orders[k] = None
    BY <1>3, StampOnce DEF StampingRow, Stamped
  <2>2. Counted'
    BY <1>1, <2>1, StampedKeys DEF Counted
  <2>3. \A j \in OnStream : rowOrder[j] = orders[j] => j \in Stamped
    BY DEF OnStream, Stamped
  <2>4. AsStamped'
    BY <1>1, <2>1, <2>3 DEF AsStamped
  <2>5. ASSUME Places PROVE OlderThanStamps'
    <3> SUFFICES ASSUME NEW r \in OnStream, rowOrder[r] # orders'[r]
                 PROVE  /\ rowOrder[r] < orderSeq'
                        /\ \A j \in Stamped' : rowOrder[r] < orders'[j]
      BY <1>1 DEF OlderThanStamps
    <3>1. rowOrder[r] # orders[r]
      BY <2>1, <2>3
    <3>2. rowOrder[r] < orderSeq /\ \A j \in Stamped : rowOrder[r] < orders[j]
      BY <2>5, <3>1 DEF Places, OlderThanStamps
    <3> QED
      BY <2>1, <3>2, StampedKeys
  <2> QED
    BY <1>1, <2>2, <2>4, <2>5 DEF Places, OneSequence, LaterTurnsSortAfter
<1> QED
  BY <1>2, <1>3

\* A new translator has stamped nothing, or the user's message of its own turn, and
\* a caller that read its start off the stream has it start past every row.
LEMMA FreshKeeps ==
  ASSUME TypeInv, TypeOK', AsStamped, BeginTurn \/ ResumeTurn
  PROVE  Counted' /\ AsStamped' /\ (FromStream /\ Places => Places')
<1> USE DEF TypeInv
<1>1. rowOrder' = rowOrder /\ OnStream' = OnStream /\ turn \in Nat /\ resumes \in Nat
  BY BoundsAreNat DEF BeginTurn, ResumeTurn, Resume, streamVars, OnStream, TypeOK
<1>2. Turns # {}
  <2>1. CASE BeginTurn
    <3>1. turn + 1 \in Turns
      BY <1>1, <2>1, BoundsAreNat DEF BeginTurn, Turns, TypeOK
    <3> QED
      BY <3>1
  <2>2. CASE ResumeTurn
    BY <2>2, KeyFacts DEF ResumeTurn, Resume
  <2> QED
    BY <2>1, <2>2
<1>3. OrderStart \in Nat /\ (FromStream => \A k \in Keys : rowOrder[k] < OrderStart)
  BY <1>2, Starts
<1>4. CASE BeginTurn
  <2>1. /\ turn' = turn + 1 /\ resumes' = resumes /\ orderSeq' = OrderStart + 1
        /\ orders' = [k \in Keys |-> IF k = UserKey(turn + 1) THEN OrderStart ELSE None]
    BY <1>4 DEF BeginTurn
  <2>2. turn' \in Turns
    BY <1>1, <1>4, BoundsAreNat DEF BeginTurn, Turns, TypeOK
  <2>3. UserKey(turn') \in Keys /\ UserKey(turn')[1] = turn'
    BY <2>2, KeyFacts
  <2>4. Stamped' \subseteq {UserKey(turn')} /\ \A k \in Stamped' : orders'[k] = OrderStart
    BY <2>1 DEF Stamped
  <2>5. Counted'
    BY <1>3, <2>1, <2>3, <2>4 DEF Counted
  <2>6. \A k \in OnStream : k[1] <= turn /\ k[1] \in Nat
    BY KeyFacts DEF AsStamped, OnStream
  <2>7. AsStamped'
    BY <1>1, <2>1, <2>6 DEF AsStamped
  <2>8. ASSUME FromStream PROVE OlderThanStamps'
    <3>1. \A k \in OnStream : rowOrder[k] < OrderStart /\ rowOrder[k] < OrderStart + 1
      BY <1>3, <2>8, StampedKeys
    <3> QED
      BY <1>1, <2>1, <2>4, <3>1 DEF OlderThanStamps
  <2> QED
    BY <1>1, <2>5, <2>7, <2>8, <2>6, <2>1 DEF Places, OneSequence, LaterTurnsSortAfter
<1>5. CASE ResumeTurn
  <2>1. /\ turn' = turn /\ resumes' = resumes + 1 /\ orderSeq' = OrderStart
        /\ orders' = [k \in Keys |-> None]
    BY <1>5 DEF ResumeTurn, Resume
  <2>2. Stamped' = {}
    BY <2>1 DEF Stamped
  <2>3. Counted'
    BY <2>2 DEF Counted
  <2>4. AsStamped'
    BY <1>1, <2>1 DEF AsStamped
  <2>5. ASSUME FromStream PROVE OlderThanStamps'
    BY <1>1, <1>3, <2>1, <2>2, <2>5, StampedKeys DEF OlderThanStamps
  <2> QED
    BY <1>1, <2>3, <2>4, <2>5, <2>1 DEF Places, OneSequence, LaterTurnsSortAfter
<1> QED
  BY <1>4, <1>5

LEMMA NothingLands ==
  ASSUME TypeOK, UNCHANGED <<turn, resumes, orders, orderSeq, rowOrder>>
  PROVE  LandingRows({}) /\ Stamped' = Stamped
BY DEF TypeOK, LandingRows, Stamped

LEMMA OneLands ==
  ASSUME TypeOK, NEW k \in Stamped, Land(k), UNCHANGED <<turn, resumes, orders, orderSeq>>
  PROVE  LandingRows({k}) /\ Stamped' = Stamped
BY DEF TypeOK, LandingRows, Stamped, Land

\* Every step lands stamped rows, stamps a row or starts a translator, and what it
\* sets out to write is stamped by then.
LEMMA StepShape ==
  ASSUME TypeInv, Counted, WritesStamped, Next
  PROVE  /\ WritesStamped'
         /\ \/ \E L \in SUBSET Keys : LandingRows(L)
            \/ \E k \in Keys : StampingRow(k)
            \/ BeginTurn \/ ResumeTurn
<1> USE KeyFacts DEF TypeInv, WritesStamped, InFlight
<1>1. CASE BeginTurn
  <2>1. UserKey(turn') \in Stamped'
    <3>1. turn' \in Turns /\ Turns # {}
      BY <1>1, BoundsAreNat DEF BeginTurn, Turns, TypeOK
    <3>2. OrderStart \in Nat
      BY <3>1, Starts
    <3> QED
      BY <1>1, <3>1, <3>2 DEF BeginTurn, Stamped, None
  <2>2. \A k \in Tools : toolTask'[k] = "none"
    BY <1>1 DEF BeginTurn
  <2>3. messageTask' = Idle /\ \A k \in Nested : nestedTask'[k] # "calling"
    BY <1>1 DEF BeginTurn, OwnTurn
  <2> QED
    BY <1>1, <2>1, <2>2, <2>3 DEF Idle
<1>2. CASE LandUser
  <2>1. UserKey(turn) \in Stamped
    BY <1>2 DEF LandUser, OwnTurn
  <2>2. UNCHANGED <<turn, resumes, orders, orderSeq, taskVars>> /\ phase' = "run"
    BY <1>2 DEF LandUser, translatorVars
  <2>3. LandingRows({UserKey(turn)}) /\ Stamped' = Stamped
    BY <1>2, <2>1, <2>2, OneLands DEF LandUser
  <2>4. WritesStamped'
    BY <2>2, <2>3 DEF taskVars
  <2>5. UserKey(turn) \in Keys
    BY <2>1 DEF Stamped
  <2> QED
    BY <2>3, <2>4, <2>5
<1>3. CASE CompleteTurn
  <2>1. EndTurn /\ UNCHANGED <<orders, orderSeq, resumes, turn, toolTask, rowOrder>>
    BY <1>3 DEF CompleteTurn, EndTurn, translatorVars, streamVars
  <2>2. LandingRows({}) /\ Stamped' = Stamped
    BY <2>1, NothingLands
  <2>3. \A k \in Tools : toolTask'[k] \in {"none", "asked", "done", "paused"}
    BY <1>3, <2>1 DEF CompleteTurn
  <2>4. WritesStamped'
    BY <2>1, <2>2, <2>3, EndTypes DEF Idle
  <2> QED
    BY <2>2, <2>4
<1>4. CASE ResumeTurn
  <2>1. /\ phase' = "run" /\ messageTask' = Idle
        /\ \A k \in Nested : nestedTask'[k] # "calling"
    BY <1>4 DEF ResumeTurn, Resume, OwnTurn
  <2>2. \A k \in Tools : toolTask'[k] \in {"none", "asked", "done"}
    BY <1>4 DEF ResumeTurn, Resume, OwnTurn
  <2>3. WritesStamped'
    BY <2>1, <2>2 DEF Idle
  <2> QED
    BY <1>4, <2>3
<1>5. CASE Compact
  <2>1. UNCHANGED <<turn, phase, resumes, orders, orderSeq, rowOrder, taskVars>>
    BY <1>5 DEF Compact, translatorVars, streamVars
  <2>2. LandingRows({}) /\ Stamped' = Stamped
    BY <2>1, NothingLands
  <2> QED
    BY <2>1, <2>2 DEF taskVars
<1>6. CASE StartMessage
  <2>1. UNCHANGED <<turn, phase, resumes, orders, orderSeq, rowOrder, messageTask, toolTask,
                    nestedTask>>
    BY <1>6 DEF StartMessage, Running, callerVars, translatorVars, streamVars
  <2>2. LandingRows({}) /\ Stamped' = Stamped
    BY <2>1, NothingLands
  <2> QED
    BY <2>1, <2>2
<1>7. CASE Restream
  <2>1. UNCHANGED <<turn, phase, resumes, orders, orderSeq, rowOrder, messageTask, toolTask,
                    nestedTask>>
    BY <1>7 DEF Restream, Running, callerVars, translatorVars, streamVars
  <2>2. LandingRows({}) /\ Stamped' = Stamped
    BY <2>1, NothingLands
  <2> QED
    BY <2>1, <2>2
<1>8. CASE FinishMessage
  <2>1. UNCHANGED <<turn, phase, resumes, orders, orderSeq, rowOrder, messageTask,
                    nestedTask>>
    BY <1>8 DEF FinishMessage, Running, callerVars, translatorVars, streamVars
  <2>2. LandingRows({}) /\ Stamped' = Stamped
    BY <2>1, NothingLands
  <2>3. \A k \in Tools : toolTask'[k] = "asked" \/ toolTask'[k] = toolTask[k]
    BY <1>8 DEF FinishMessage
  <2> QED
    BY <2>1, <2>2, <2>3
<1>9. CASE EndText
  <2>1. UNCHANGED <<turn, phase, resumes, orders, orderSeq, rowOrder, toolTask,
                    nestedTask>> /\ messageTask' = Idle
    BY <1>9 DEF EndText, Running, callerVars, translatorVars, streamVars
  <2>2. LandingRows({}) /\ Stamped' = Stamped
    BY <2>1, NothingLands
  <2> QED
    BY <2>1, <2>2 DEF Idle
<1>10. CASE \E k \in Tools : RunTool(k) \/ EndToolDrain(k)
  <2>1. UNCHANGED <<turn, phase, resumes, orders, orderSeq, rowOrder, messageTask,
                    nestedTask>>
    BY <1>10 DEF RunTool, EndToolDrain, Running, callerVars, translatorVars, streamVars
  <2>2. LandingRows({}) /\ Stamped' = Stamped
    BY <2>1, NothingLands
  <2>3. \A d \in Tools : toolTask'[d] \in {"calling", "draining", "landing"} =>
                           toolTask[d] \in {"calling", "draining", "landing"}
    BY <1>10 DEF RunTool, EndToolDrain, TypeOK
  <2> QED
    BY <2>1, <2>2, <2>3
<1>11. CASE \E k \in Tools : LandCall(k) \/ LandResult(k)
  <2>1. PICK k \in Tools : LandCall(k) \/ LandResult(k)
    BY <1>11
  <2>2. UNCHANGED <<turn, phase, resumes, orders, orderSeq, messageTask, nestedTask>>
    BY <2>1 DEF LandCall, LandResult, Running, callerVars, translatorVars
  <2>3. k \in Stamped
    BY <2>1 DEF LandCall, LandResult
  <2>4. LandingRows({k}) /\ Stamped' = Stamped
    BY <2>1, <2>2, <2>3, OneLands DEF LandCall, LandResult
  <2>5. \A d \in Tools : toolTask'[d] \in {"calling", "draining", "landing"} =>
                           toolTask[d] \in {"calling", "draining", "landing"}
    BY <2>1 DEF LandCall, LandResult, TypeOK
  <2> QED
    BY <2>2, <2>3, <2>4, <2>5
<1>12. CASE LandAnchor
  <2>1. UNCHANGED <<turn, phase, resumes, orders, orderSeq, toolTask, nestedTask>>
    BY <1>12 DEF LandAnchor, Running, callerVars, translatorVars
  <2>2. messageTask.key \in Stamped /\ messageTask'.at = "text" /\ phase = "run"
    BY <1>12 DEF LandAnchor, Running, TypeOK, Idle
  <2>3. LandingRows({messageTask.key}) /\ Stamped' = Stamped
    BY <1>12, <2>1, <2>2, OneLands DEF LandAnchor
  <2>4. WritesStamped'
    BY <2>1, <2>2, <2>3
  <2>5. messageTask.key \in Keys
    BY <2>2 DEF Stamped
  <2> QED
    BY <2>3, <2>4, <2>5
<1>13. CASE \E k \in Nested : LandNested(k)
  <2>1. PICK k \in Nested : LandNested(k)
    BY <1>13
  <2>2. UNCHANGED <<turn, phase, resumes, orders, orderSeq, messageTask, toolTask>>
    BY <2>1 DEF LandNested, Running, callerVars, translatorVars
  <2>3. k \in Stamped
    BY <2>1 DEF LandNested
  <2>4. LandingRows({k}) /\ Stamped' = Stamped
    BY <2>1, <2>2, <2>3, OneLands DEF LandNested
  <2>5. \A d \in Nested : nestedTask'[d] = "calling" => nestedTask[d] = "calling"
    BY <2>1 DEF LandNested, TypeOK
  <2> QED
    BY <2>2, <2>3, <2>4, <2>5
<1>14. CASE TakeMessage
  <2>1. UNCHANGED <<turn, phase, resumes, rowOrder, toolTask, nestedTask>>
    BY <1>14 DEF TakeMessage, Running, callerVars, streamVars
  <2>2. Head(messageQueue) \in Messages /\ Head(messageQueue)[1] = turn
    BY <1>14 DEF TakeMessage, OwnTurn
  <2>3. RenderOrder(Head(messageQueue)) /\ messageTask'.key = Head(messageQueue)
    BY <1>14 DEF TakeMessage
  <2>4. StampingRow(Head(messageQueue)) /\ Stamped' = Stamped \cup {Head(messageQueue)}
    BY <2>1, <2>2, <2>3, StampOnce DEF StampingRow
  <2> QED
    BY <2>1, <2>2, <2>3, <2>4
<1>15. CASE \E k \in Tools : TakeTool(k)
  <2>1. PICK k \in Tools : TakeTool(k)
    BY <1>15
  <2>2. UNCHANGED <<turn, phase, resumes, rowOrder, messageTask, nestedTask>>
    BY <2>1 DEF TakeTool, Running, callerVars, streamVars
  <2>3. k[1] = turn /\ RenderOrder(k)
    BY <2>1 DEF TakeTool, OwnTurn
  <2>4. StampingRow(k) /\ Stamped' = Stamped \cup {k}
    BY <2>2, <2>3, StampOnce DEF StampingRow
  <2>5. \A d \in Tools : d # k => toolTask'[d] = toolTask[d]
    BY <2>1 DEF TakeTool, TypeOK
  <2> QED
    BY <2>2, <2>4, <2>5
<1>16. CASE \E k \in Nested : TakeNested(k)
  <2>1. PICK k \in Nested : TakeNested(k)
    BY <1>16
  <2>2. UNCHANGED <<turn, phase, resumes, rowOrder, messageTask, toolTask>>
    BY <2>1 DEF TakeNested, Running, callerVars, streamVars
  <2>3. k[1] = turn /\ RenderOrder(k)
    BY <2>1 DEF TakeNested
  <2>4. StampingRow(k) /\ Stamped' = Stamped \cup {k}
    BY <2>2, <2>3, StampOnce DEF StampingRow
  <2>5. \A d \in Nested : d # k => nestedTask'[d] = nestedTask[d]
    BY <2>1 DEF TakeNested, TypeOK
  <2> QED
    BY <2>2, <2>4, <2>5
<1>17. CASE CutTurn
  <2>1. PICK L \in SUBSET InFlight :
          rowOrder' = [k \in Keys |-> IF k \in L THEN orders[k] ELSE rowOrder[k]]
    BY <1>17 DEF CutTurn
  <2>2. EndTurn /\ \A k \in Tools : toolTask'[k] = "none"
    BY <1>17 DEF CutTurn
  <2>3. L \in SUBSET Keys /\ LandingRows(L) /\ Stamped' = Stamped
    BY <2>1, <2>2 DEF LandingRows, Stamped, EndTurn, translatorVars
  <2>4. WritesStamped'
    BY <2>2, EndTypes DEF Idle
  <2> QED
    BY <2>3, <2>4
<1> QED
  BY <1>1, <1>2, <1>3, <1>4, <1>5, <1>6, <1>7, <1>8, <1>9, <1>10, <1>11, <1>12, <1>13, <1>14, <1>15, <1>16, <1>17
  DEF Next, UncutNext

-----------------------------------------------------------------------------
(* The stream.                                                             *)

LEMMA StreamInit == Init => StreamInv
<1> SUFFICES ASSUME Init PROVE StreamInv
  OBVIOUS
<1>1. Stamped = {} /\ OnStream = {}
  BY DEF Init, Stamped, OnStream
<1>2. InFlight = {} /\ \A k \in Tools : toolTask[k] # "draining"
  BY DEF Init, InFlight, Idle
<1>3. Counted /\ WritesStamped /\ AsStamped /\ Places
  BY <1>1, <1>2 DEF Counted, WritesStamped, AsStamped, Places, OlderThanStamps, OneSequence,
     LaterTurnsSortAfter
<1> QED
  BY <1>3, TypeInit DEF StreamInv

LEMMA StreamStep == StreamInv /\ [Next]_vars => StreamInv'
<1> SUFFICES ASSUME StreamInv, [Next]_vars PROVE StreamInv'
  OBVIOUS
<1>1. TypeInv /\ TypeInv' /\ TypeOK /\ TypeOK'
  BY TypeStep DEF StreamInv, TypeInv
<1>2. Counted /\ WritesStamped /\ AsStamped
  BY DEF StreamInv
<1>3. CASE Next
  <2>1. WritesStamped'
    BY <1>1, <1>2, <1>3, StepShape
  <2>2. Counted' /\ AsStamped' /\ (FromStream /\ Places => Places')
    <3>1. ASSUME NEW L, LandingRows(L) PROVE Counted' /\ AsStamped' /\ (Places => Places')
      BY <1>1, <1>2, <3>1, LandingKeeps
    <3> QED
      BY <1>1, <1>2, <1>3, <3>1, StepShape, StampingKeeps, FreshKeeps
  <2> QED
    BY <1>1, <2>1, <2>2 DEF StreamInv
<1>4. CASE UNCHANGED vars
  <2>1. UNCHANGED <<turn, phase, resumes, orders, orderSeq, rowOrder, messageTask, toolTask,
                    nestedTask>>
    BY <1>4 DEF vars, callerVars, translatorVars, taskVars, streamVars
  <2>2. Stamped' = Stamped /\ OnStream' = OnStream /\ InFlight' = InFlight
    BY <2>1 DEF Stamped, OnStream, InFlight
  <2> QED
    BY <1>1, <2>1, <2>2 DEF StreamInv, Counted, WritesStamped, AsStamped, Places,
       OlderThanStamps, OneSequence, LaterTurnsSortAfter
<1> QED
  BY <1>3, <1>4

\* Only a stamped row moves, to its stamp, and only where a run resumed a turn.
LEMMA Moves ==
  ASSUME StreamInv, Next, NEW k \in OnStream, rowOrder'[k] # rowOrder[k]
  PROVE  k \in Stamped /\ rowOrder'[k] = orders[k] /\ resumes > 0
<1>1. TypeInv /\ TypeOK /\ Counted /\ WritesStamped /\ AsStamped
  BY DEF StreamInv, TypeInv
<1>2. PICK L \in SUBSET Keys : LandingRows(L)
  <2>1. ~ (BeginTurn \/ ResumeTurn)
    BY DEF BeginTurn, ResumeTurn, Resume, streamVars
  <2>2. \A j \in Keys : ~ StampingRow(j)
    BY DEF StampingRow
  <2> QED
    BY <1>1, <2>1, <2>2, StepShape
<1>3. k \in L /\ rowOrder'[k] = orders[k] /\ k \in Stamped
  BY <1>2 DEF LandingRows, OnStream
<1>4. resumes # 0
  BY <1>1, <1>3 DEF AsStamped, Counted
<1>5. resumes \in Nat
  BY <1>1, BoundsAreNat DEF TypeOK
<1> QED
  BY <1>3, <1>4, <1>5

LEMMA StreamInvariant == Spec => []StreamInv
BY StreamInit, StreamStep, PTL DEF Spec

\* No two rows on the stream share a place, for a caller that reads its starts off the
\* stream: whatever it forgot, wherever a turn was cut and however often one resumed.
THEOREM OneSequenceFromStream ==
  ASSUME FromStream PROVE Spec => []OneSequence
<1>1. StreamInv => OneSequence
  BY DEF StreamInv, Places
<1> QED
  BY <1>1, StreamInvariant, PTL

\* Nor does a row of a later turn sort before one of an earlier turn.
THEOREM LaterTurnsFromStream ==
  ASSUME FromStream PROVE Spec => []LaterTurnsSortAfter
<1>1. StreamInv => LaterTurnsSortAfter
  BY DEF StreamInv, Places
<1> QED
  BY <1>1, StreamInvariant, PTL

\* A row that a resumed run takes up once more lands behind all that was there.
THEOREM MovesFromStream ==
  ASSUME FromStream PROVE Spec => MovesBehindThePast
<1>1. StreamInv /\ [Next]_vars =>
        [\A k \in OnStream : rowOrder'[k] # rowOrder[k] =>
           /\ resumes > 0
           /\ \A j \in OnStream : orders[j] = None => rowOrder[j] < rowOrder'[k]]_vars
  <2> SUFFICES ASSUME StreamInv, Next, NEW k \in OnStream, rowOrder'[k] # rowOrder[k]
               PROVE  /\ resumes > 0
                      /\ \A j \in OnStream : orders[j] = None => rowOrder[j] < rowOrder'[k]
    OBVIOUS
  <2>1. k \in Stamped /\ rowOrder'[k] = orders[k] /\ resumes > 0
    BY Moves
  <2>2. OlderThanStamps
    BY DEF StreamInv, Places
  <2> QED
    BY <2>1, <2>2 DEF OlderThanStamps, OnStream
<1> QED
  BY <1>1, StreamInvariant, PTL DEF Spec, MovesBehindThePast

\* Where no turn is resumed no row moves, whichever way the counters are seeded.
THEOREM RowsStayUnlessResumed ==
  ASSUME MaxResumes = 0 PROVE Spec => RowsStay
<1>1. StreamInv /\ [Next]_vars =>
        [\A k \in OnStream : rowOrder'[k] = rowOrder[k]]_vars
  <2> SUFFICES ASSUME StreamInv, Next, NEW k \in OnStream, rowOrder'[k] # rowOrder[k]
               PROVE  FALSE
    OBVIOUS
  <2>1. resumes > 0
    BY Moves
  <2>2. resumes \in 0..MaxResumes
    BY DEF StreamInv, TypeInv, TypeOK
  <2> QED
    BY <2>1, <2>2
<1> QED
  BY <1>1, StreamInvariant, PTL DEF Spec, RowsStay

=============================================================================
