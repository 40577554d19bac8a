--------------------------- MODULE TurnSeeds_proofs ---------------------------
(***************************************************************************)
(* Proofs about TurnOrder for the default seed, computed from the folded   *)
(* history: where subagents write nothing, no turn is resumed and nothing  *)
(* is lost, the history reaches past every stamp, wherever a turn was cut, *)
(* and orders and ordinals are one sequence.                               *)
(***************************************************************************)
EXTENDS TurnOrder_proofs

\* The conversations the default seed is made for.
DefaultSeed == ~FromStream /\ MaxNested = 0 /\ MaxResumes = 0 /\ MaxForgets = 0

-----------------------------------------------------------------------------
(* The counters against the history.                                       *)

\* Messages get both stamps at once.
SameStamps == \A k \in Messages : ordinals[k] # None <=> orders[k] # None

\* The history holds earlier turns, and the last one when that is over.
HistoryBehind ==
  \A k \in history.messages \cup history.calls :
    k[1] \in Nat /\ k[1] <= turn /\ (phase # "idle" => k[1] < turn)

\* During a turn the counters are the seeds and what was stamped since; after it the
\* history has caught up.
CountersReach ==
  IF phase = "idle"
  THEN /\ ordinalSeq <= NextLiveOrdinal(history)
       /\ orderSeq <= NextLiveOrder(history)
  ELSE /\ ordinalSeq = NextLiveOrdinal(history) + Cardinality(EmittedMessages)
       /\ orderSeq = NextLiveOrder(history)
                       + Cardinality(EmittedMessages) + Cardinality(EmittedCalls)

\* The graph knows every message and call that is stamped.
GraphKnows ==
  phase # "idle" =>
    /\ \A k \in EmittedMessages : k[2] <= started
    /\ \A i \in 1..Len(messageQueue) : messageQueue[i][2] <= started
    /\ \A k \in EmittedCalls : toolTask[k] # "none"

SeedInv == SameStamps /\ HistoryBehind /\ CountersReach /\ GraphKnows

\* A message is no tool call.
LEMMA KeysApart == Messages \cap Tools = {}
<1> SUFFICES ASSUME NEW k \in Messages, k \in Tools PROVE FALSE
  OBVIOUS
<1>1. PICK t \in Turns, m \in 0..MaxMessages : k = <<t, m>>
  BY DEF Messages
<1>2. PICK d \in Turns, n \in 1..MaxMessages, c \in 1..MaxCalls : k = <<d, n, c>>
  BY DEF Tools
<1> QED
  BY <1>1, <1>2

LEMMA EmittedFinite ==
  ASSUME TypeOK
  PROVE  /\ IsFiniteSet(EmittedMessages) /\ IsFiniteSet(EmittedCalls)
         /\ Cardinality(EmittedMessages) \in Nat /\ Cardinality(EmittedCalls) \in Nat
         /\ IsFiniteSet(history.messages) /\ IsFiniteSet(history.calls)
         /\ NextLiveOrdinal(history) \in Nat
         /\ Cardinality(history.calls) \in Nat /\ NextLiveOrder(history) \in Nat
<1>1. EmittedMessages \in SUBSET Messages /\ EmittedCalls \in SUBSET Tools
  BY DEF EmittedMessages, EmittedCalls
<1>2. history.messages \in SUBSET Messages /\ history.calls \in SUBSET Tools
  BY DEF TypeOK
<1>3. /\ IsFiniteSet(EmittedMessages) /\ IsFiniteSet(EmittedCalls)
      /\ IsFiniteSet(history.messages) /\ IsFiniteSet(history.calls)
  BY <1>1, <1>2, KeysFinite, FS_Subset
<1> QED
  BY <1>3, FS_CardinalityType DEF NextLiveOrdinal, NextLiveOrder

\* Two finite sets without a common element count together.
LEMMA DisjointCount ==
  ASSUME NEW S, NEW T, IsFiniteSet(S), IsFiniteSet(T), S \cap T = {}
  PROVE  IsFiniteSet(S \cup T) /\ Cardinality(S \cup T) = Cardinality(S) + Cardinality(T)
<1>1. Cardinality(S \cap T) = 0
  BY FS_EmptySet
<1>2. /\ IsFiniteSet(S \cup T)
      /\ Cardinality(S \cup T) = Cardinality(S) + Cardinality(T) - Cardinality(S \cap T)
  BY FS_Union
<1> QED
  BY <1>1, <1>2, FS_CardinalityType

LEMMA SeedInit == Init => SeedInv
<1> SUFFICES ASSUME Init PROVE SeedInv
  OBVIOUS
<1>1. history.messages = {} /\ history.calls = {} /\ phase = "idle"
      /\ ordinalSeq = 0 /\ orderSeq = 0
  BY DEF Init
<1>2. Cardinality({}) = 0
  BY FS_EmptySet
<1>3. CountersReach
  BY <1>1, <1>2 DEF CountersReach, NextLiveOrdinal, NextLiveOrder
<1>4. SameStamps
  BY KeyFacts DEF Init, SameStamps
<1> QED
  BY <1>1, <1>3, <1>4 DEF SeedInv, HistoryBehind, GraphKnows

\* A step of a turn that stamps nothing.
LEMMA QuietSeed ==
  ASSUME SeedInv, UNCHANGED <<turn, history, translatorVars>>,
         phase = "idle" <=> phase' = "idle",
         phase # "idle" =>
           /\ \A k \in EmittedMessages : k[2] <= started'
           /\ \A i \in 1..Len(messageQueue') : messageQueue'[i][2] <= started'
           /\ \A k \in EmittedCalls : toolTask'[k] # "none"
  PROVE  SeedInv'
<1>1. EmittedMessages' = EmittedMessages /\ EmittedCalls' = EmittedCalls
  BY DEF EmittedMessages, EmittedCalls, translatorVars
<1>2. SameStamps' /\ HistoryBehind' /\ GraphKnows'
  BY <1>1 DEF SeedInv, SameStamps, HistoryBehind, GraphKnows, translatorVars
<1>3. CountersReach'
  BY <1>1 DEF SeedInv, CountersReach, translatorVars, NextLiveOrdinal, NextLiveOrder
<1> QED
  BY <1>2, <1>3 DEF SeedInv

\* A new translator has stamped the user's message, and starts past the history.
LEMMA BeginSeed ==
  ASSUME DefaultSeed, TypeInv, SeedInv, BeginTurn
  PROVE  SeedInv'
<1> DEFINE u == UserKey(turn + 1)
<1>1. TypeOK /\ turn + 1 \in Turns /\ turn \in Nat
  BY BoundsAreNat DEF TypeInv, TypeOK, BeginTurn, Turns
<1>2. u \in Messages /\ u \in Keys /\ u \notin Tools /\ u[2] = 0
  <2>1. u \in Messages /\ u = <<turn + 1, 0>>
    BY <1>1, KeyFacts DEF UserKey
  <2>2. u \notin Tools
    BY <2>1 DEF Tools
  <2> QED
    BY <2>1, <2>2, KeyFacts
<1>3. /\ OrdinalStart = NextLiveOrdinal(history) /\ OrderStart = NextLiveOrder(history)
      /\ OrdinalStart \in Nat /\ OrderStart \in Nat
  BY <1>1, EmittedFinite DEF DefaultSeed, OrdinalStart, OrderStart
<1>4. /\ turn' = turn + 1 /\ phase = "idle" /\ phase' = "user" /\ history' = history
      /\ ordinals' = [k \in Messages |-> IF k = u THEN OrdinalStart ELSE None]
      /\ ordinalSeq' = OrdinalStart + 1
      /\ orders' = [k \in Keys |-> IF k = u THEN OrderStart ELSE None]
      /\ orderSeq' = OrderStart + 1
      /\ started' = 0 /\ messageQueue' = messageQueue
  BY DEF BeginTurn
<1> HIDE DEF u
<1>5. /\ EmittedMessages' = {u} /\ EmittedCalls' = {}
  BY <1>2, <1>3, <1>4 DEF EmittedMessages, EmittedCalls, None, Keys
<1>6. Cardinality(EmittedMessages') = 1 /\ Cardinality(EmittedCalls') = 0
  BY <1>5, FS_Singleton, FS_EmptySet
<1>7. SameStamps'
  BY <1>2, <1>3, <1>4, KeyFacts DEF SameStamps, None
<1>8. HistoryBehind'
  BY <1>1, <1>4 DEF SeedInv, HistoryBehind
<1>9. CountersReach'
  <2>1. /\ NextLiveOrdinal(history)' = NextLiveOrdinal(history)
        /\ NextLiveOrder(history)' = NextLiveOrder(history)
    BY <1>4 DEF NextLiveOrdinal, NextLiveOrder
  <2> QED
    BY <1>3, <1>4, <1>6, <2>1 DEF CountersReach
<1>10. GraphKnows'
  <2>1. messageQueue = <<>>
    BY <1>4 DEF TypeInv, OwnTurn
  <2> QED
    BY <1>2, <1>4, <1>5, <2>1 DEF GraphKnows
<1> QED
  BY <1>7, <1>8, <1>9, <1>10 DEF SeedInv

\* The messages task stamps the next message, on both counters or on neither.
LEMMA MessageSeed ==
  ASSUME TypeInv, SeedInv, TakeMessage
  PROVE  SeedInv'
<1> DEFINE k == Head(messageQueue)
<1>1. /\ TypeOK /\ phase = "run" /\ messageQueue # <<>>
      /\ UNCHANGED <<turn, phase, history, started, toolTask>>
      /\ NextOrdinal(k) /\ RenderOrder(k)
      /\ messageQueue' = Tail(messageQueue)
  BY DEF TypeInv, TakeMessage, Running, callerVars, graphVars
<1>2. /\ messageQueue \in Seq(Messages) /\ Len(messageQueue) \in Nat
      /\ k = messageQueue[1] /\ Len(messageQueue) >= 1 /\ k \in Messages /\ k \in Keys
  BY <1>1, KeyFacts, ElementOfSeq DEF TypeOK
<1>3. /\ Len(messageQueue') = Len(messageQueue) - 1
      /\ \A i \in 1..Len(messageQueue') : messageQueue'[i] = messageQueue[i + 1]
  BY <1>1, <1>2, HeadTailProperties
<1>4. k[2] <= started /\ \A i \in 1..Len(messageQueue') : messageQueue'[i][2] <= started
  BY <1>1, <1>2, <1>3 DEF SeedInv, GraphKnows
<1> HIDE DEF k
<1>5. k \notin Tools
  BY <1>2, KeysApart
<1>6. CASE ordinals[k] # None
  <2>1. UNCHANGED translatorVars
    BY <1>1, <1>2, <1>6 DEF SeedInv, SameStamps, NextOrdinal, RenderOrder, translatorVars
  <2> QED
    BY <1>1, <1>4, <2>1, QuietSeed DEF SeedInv, GraphKnows
<1>7. CASE ordinals[k] = None
  <2>1. orders[k] = None
    BY <1>2, <1>7 DEF SeedInv, SameStamps
  <2>2. /\ ordinals' = [ordinals EXCEPT ![k] = ordinalSeq] /\ ordinalSeq' = ordinalSeq + 1
        /\ orders' = [orders EXCEPT ![k] = orderSeq] /\ orderSeq' = orderSeq + 1
    BY <1>1, <1>7, <2>1 DEF NextOrdinal, RenderOrder
  <2>3. /\ ordinalSeq \in Nat /\ orderSeq \in Nat
        /\ ordinals \in [Messages -> Nat \cup {None}] /\ orders \in [Keys -> Nat \cup {None}]
    BY <1>1 DEF TypeOK
  <2>4. /\ EmittedMessages' = EmittedMessages \cup {k} /\ k \notin EmittedMessages
        /\ EmittedCalls' = EmittedCalls
    BY <1>2, <1>5, <1>7, <2>2, <2>3 DEF EmittedMessages, EmittedCalls, None, Keys
  <2>5. Cardinality(EmittedMessages') = Cardinality(EmittedMessages) + 1
    BY <1>1, <2>4, EmittedFinite, FS_AddElement
  <2>6. SameStamps'
    BY <1>2, <2>2, <2>3, KeyFacts DEF SeedInv, SameStamps, None
  <2>7. HistoryBehind'
    BY <1>1 DEF SeedInv, HistoryBehind
  <2>8. CountersReach'
    <3>1. /\ NextLiveOrdinal(history)' = NextLiveOrdinal(history)
          /\ NextLiveOrder(history)' = NextLiveOrder(history)
      BY <1>1 DEF NextLiveOrdinal, NextLiveOrder
    <3>2. /\ Cardinality(EmittedMessages) \in Nat /\ Cardinality(EmittedCalls) \in Nat
          /\ NextLiveOrdinal(history) \in Nat /\ NextLiveOrder(history) \in Nat
      BY <1>1, EmittedFinite
    <3>3. phase' = "run" /\ Cardinality(EmittedCalls') = Cardinality(EmittedCalls)
      BY <1>1, <2>4
    <3>4. /\ ordinalSeq = NextLiveOrdinal(history) + Cardinality(EmittedMessages)
          /\ orderSeq = NextLiveOrder(history)
                          + Cardinality(EmittedMessages) + Cardinality(EmittedCalls)
      BY <1>1 DEF SeedInv, CountersReach
    <3>5. /\ ordinalSeq' = NextLiveOrdinal(history)' + Cardinality(EmittedMessages')
          /\ orderSeq' = NextLiveOrder(history)'
                          + Cardinality(EmittedMessages') + Cardinality(EmittedCalls')
      BY <2>2, <2>5, <3>1, <3>2, <3>3, <3>4
    <3> QED
      BY <3>3, <3>5 DEF CountersReach
  <2>9. GraphKnows'
    BY <1>1, <1>4, <2>4 DEF SeedInv, GraphKnows
  <2> QED
    BY <2>6, <2>7, <2>8, <2>9 DEF SeedInv
<1> QED
  BY <1>6, <1>7

\* A tool's row takes the next order, the first time it is seen.
LEMMA ToolSeed ==
  ASSUME TypeInv, SeedInv, NEW k \in Tools, TakeTool(k)
  PROVE  SeedInv'
<1>1. /\ TypeOK /\ phase = "run" /\ toolTask[k] = "queued" /\ RenderOrder(k)
      /\ toolTask' = [toolTask EXCEPT ![k] = "calling"]
      /\ UNCHANGED <<turn, phase, history, started, messageQueue, ordinals, ordinalSeq>>
  BY DEF TypeInv, TakeTool, Running, callerVars, graphVars
<1>2. \A d \in Tools : toolTask[d] # "none" => toolTask'[d] # "none"
  BY <1>1 DEF TypeOK
<1>3. k \in Keys /\ k \notin Messages
  BY KeyFacts, KeysApart
<1>4. CASE orders[k] # None
  <2>1. UNCHANGED translatorVars
    BY <1>1, <1>4 DEF RenderOrder, translatorVars
  <2>2. \A d \in EmittedCalls : toolTask'[d] # "none"
    BY <1>1, <1>2 DEF SeedInv, GraphKnows, EmittedCalls
  <2> QED
    BY <1>1, <2>1, <2>2, QuietSeed DEF SeedInv, GraphKnows
<1>5. CASE orders[k] = None
  <2>1. orders' = [orders EXCEPT ![k] = orderSeq] /\ orderSeq' = orderSeq + 1
    BY <1>1, <1>5 DEF RenderOrder
  <2>2. orderSeq \in Nat /\ orders \in [Keys -> Nat \cup {None}]
    BY <1>1 DEF TypeOK
  <2>3. /\ EmittedMessages' = EmittedMessages
        /\ EmittedCalls' = EmittedCalls \cup {k} /\ k \notin EmittedCalls
    BY <1>1, <1>3, <1>5, <2>1, <2>2, KeyFacts DEF EmittedMessages, EmittedCalls, None
  <2>4. Cardinality(EmittedCalls') = Cardinality(EmittedCalls) + 1
    BY <1>1, <2>3, EmittedFinite, FS_AddElement
  <2>5. SameStamps'
    BY <1>1, <1>3, <2>1, <2>2, KeyFacts DEF SeedInv, SameStamps
  <2>6. HistoryBehind'
    BY <1>1 DEF SeedInv, HistoryBehind
  <2>7. CountersReach'
    <3>1. /\ NextLiveOrdinal(history)' = NextLiveOrdinal(history)
          /\ NextLiveOrder(history)' = NextLiveOrder(history)
      BY <1>1 DEF NextLiveOrdinal, NextLiveOrder
    <3>2. /\ Cardinality(EmittedMessages) \in Nat /\ Cardinality(EmittedCalls) \in Nat
          /\ NextLiveOrdinal(history) \in Nat /\ NextLiveOrder(history) \in Nat
      BY <1>1, EmittedFinite
    <3>3. phase' = "run" /\ Cardinality(EmittedMessages') = Cardinality(EmittedMessages)
      BY <1>1, <2>3
    <3> QED
      BY <1>1, <2>1, <2>4, <3>1, <3>2, <3>3 DEF SeedInv, CountersReach
  <2>8. GraphKnows'
    BY <1>1, <1>2, <2>3 DEF SeedInv, GraphKnows, EmittedCalls
  <2> QED
    BY <2>5, <2>6, <2>7, <2>8 DEF SeedInv
<1> QED
  BY <1>4, <1>5

\* Folding at least what was stamped brings the history past the counters.
LEMMA FoldSeed ==
  ASSUME TypeInv, TypeOK', Counted, SeedInv, phase # "idle", EndTurn,
         NEW messages, NEW calls, Fold(messages, calls),
         EmittedMessages \subseteq messages, EmittedCalls \subseteq calls,
         \A k \in messages \cup calls : k[1] = turn
  PROVE  SeedInv'
<1>1. TypeOK /\ phase' = "idle" /\ turn' = turn /\ UNCHANGED translatorVars
  BY DEF TypeInv, EndTurn
<1>2. /\ history'.messages = history.messages \cup messages
      /\ history'.calls = history.calls \cup calls
  BY DEF Fold
<1>3. /\ IsFiniteSet(history'.messages) /\ IsFiniteSet(history'.calls)
      /\ Cardinality(history'.messages) \in Nat /\ Cardinality(history'.calls) \in Nat
  <2>1. history'.messages \in SUBSET Messages /\ history'.calls \in SUBSET Tools
    BY DEF TypeOK
  <2>2. IsFiniteSet(history'.messages) /\ IsFiniteSet(history'.calls)
    BY <2>1, KeysFinite, FS_Subset
  <2> QED
    BY <2>2, FS_CardinalityType
<1>4. turn \in Nat
  BY <1>1 DEF TypeOK
<1>5. /\ history.messages \cap EmittedMessages = {}
      /\ history.calls \cap EmittedCalls = {}
  <2>1. \A k \in history.messages \cup history.calls : k[1] \in Nat /\ k[1] < turn
    BY DEF SeedInv, HistoryBehind
  <2>2. \A k \in EmittedMessages \cup EmittedCalls : k[1] = turn
    OBVIOUS
  <2> QED
    BY <1>4, <2>1, <2>2
<1>6. Cardinality(history.messages) + Cardinality(EmittedMessages)
        <= Cardinality(history'.messages)
  <2> DEFINE B == history.messages \cup EmittedMessages
  <2>1. Cardinality(B) = Cardinality(history.messages) + Cardinality(EmittedMessages)
    BY <1>1, <1>5, EmittedFinite, DisjointCount
  <2>2. B \in SUBSET history'.messages
    BY <1>2
  <2>3. Cardinality(B) <= Cardinality(history'.messages)
    BY <1>3, <2>2, FS_Subset
  <2> QED
    BY <2>1, <2>3
<1>7. Cardinality(history.calls) + Cardinality(EmittedCalls) <= Cardinality(history'.calls)
  <2> DEFINE B == history.calls \cup EmittedCalls
  <2>1. Cardinality(B) = Cardinality(history.calls) + Cardinality(EmittedCalls)
    BY <1>1, <1>5, EmittedFinite, DisjointCount
  <2>2. B \in SUBSET history'.calls
    BY <1>2
  <2>3. Cardinality(B) <= Cardinality(history'.calls)
    BY <1>3, <2>2, FS_Subset
  <2> QED
    BY <2>1, <2>3
<1>8. CountersReach'
  <2>1. /\ ordinalSeq = Cardinality(history.messages) + Cardinality(EmittedMessages)
        /\ orderSeq = Cardinality(history.messages) + Cardinality(history.calls)
                        + Cardinality(EmittedMessages) + Cardinality(EmittedCalls)
    BY DEF SeedInv, CountersReach, NextLiveOrdinal, NextLiveOrder
  <2>2. /\ Cardinality(EmittedMessages) \in Nat /\ Cardinality(EmittedCalls) \in Nat
        /\ Cardinality(history.messages) \in Nat /\ Cardinality(history.calls) \in Nat
    BY <1>1, EmittedFinite DEF NextLiveOrdinal
  <2>3. /\ ordinalSeq <= Cardinality(history'.messages)
        /\ orderSeq <= Cardinality(history'.messages) + Cardinality(history'.calls)
    BY <1>3, <1>6, <1>7, <2>1, <2>2
  <2> QED
    BY <1>1, <2>3 DEF CountersReach, NextLiveOrdinal, NextLiveOrder, translatorVars
<1>9. SameStamps'
  BY <1>1 DEF SeedInv, SameStamps, translatorVars
<1>10. HistoryBehind'
  BY <1>1, <1>2, <1>4 DEF SeedInv, HistoryBehind
<1>11. GraphKnows'
  BY <1>1 DEF GraphKnows
<1> QED
  BY <1>8, <1>9, <1>10, <1>11 DEF SeedInv

\* With the bounds of the default seed some actions never happen.
LEMMA NeverHappens ==
  ASSUME DefaultSeed, TypeOK
  PROVE  ~ResumeTurn /\ ~Compact /\ Nested = {} /\ resumes = 0
<1>1. Nested = {}
  <2>1. 1..0 = {}
    OBVIOUS
  <2> QED
    BY <2>1 DEF DefaultSeed, Nested
<1>2. resumes = 0 /\ forgets = 0
  BY DEF DefaultSeed, TypeOK
<1> QED
  BY <1>1, <1>2 DEF DefaultSeed, ResumeTurn, Resume, Compact

LEMMA CompleteSeed ==
  ASSUME TypeInv, TypeOK', Counted, SeedInv, CompleteTurn
  PROVE  SeedInv'
<1> DEFINE messages == {MessageKey(turn, m) : m \in 0..started}
           calls == {k \in Tools : toolTask[k] # "none"}
<1>1. /\ phase = "run" /\ EndTurn /\ Fold(messages, calls) /\ TypeOK
      /\ turn \in Turns
  BY DEF CompleteTurn, TypeInv, OwnTurn
<1>2. EmittedMessages \subseteq messages
  <2> SUFFICES ASSUME NEW k \in EmittedMessages PROVE k \in messages
    OBVIOUS
  <2>1. k \in Messages /\ ordinals[k] # None /\ k \in Keys
    BY KeyFacts DEF EmittedMessages
  <2>2. k[1] = turn
    BY <2>1 DEF SeedInv, SameStamps, Counted, Stamped
  <2>3. k[2] <= started
    BY <1>1 DEF SeedInv, GraphKnows
  <2>4. PICK t \in Turns, m \in 0..MaxMessages : k = <<t, m>>
    BY <2>1 DEF Messages
  <2>5. started \in Nat /\ MaxMessages \in Nat
    BY <1>1, BoundsAreNat DEF TypeOK
  <2>6. t = turn /\ m \in 0..started
    BY <2>2, <2>3, <2>4, <2>5
  <2> QED
    BY <2>4, <2>6 DEF MessageKey
<1>3. EmittedCalls \subseteq calls
  BY <1>1 DEF SeedInv, GraphKnows, EmittedCalls
<1>4. \A k \in messages \cup calls : k[1] = turn
  BY DEF TypeInv, OwnTurn, MessageKey
<1> HIDE DEF messages, calls
<1> QED
  BY <1>1, <1>2, <1>3, <1>4, FoldSeed

LEMMA CutSeed ==
  ASSUME DefaultSeed, TypeInv, TypeOK', Counted, SeedInv, CutTurn
  PROVE  SeedInv'
<1>1. phase # "idle" /\ EndTurn
  BY DEF CutTurn
<1>2. Fold(EmittedMessages, EmittedCalls)
  <2>1. forgets = 0 /\ ~(forgets < MaxForgets)
    BY DEF TypeInv, TypeOK, DefaultSeed
  <2> QED
    BY <2>1 DEF CutTurn
<1>3. \A k \in EmittedMessages \cup EmittedCalls : k[1] = turn
  BY KeyFacts DEF SeedInv, SameStamps, Counted, Stamped, EmittedMessages, EmittedCalls
<1> QED
  BY <1>1, <1>2, <1>3, FoldSeed

LEMMA SeedStep ==
  ASSUME DefaultSeed, TypeInv, TypeOK', Counted, SeedInv, [Next]_vars
  PROVE  SeedInv'
<1>1. TypeOK /\ ~ResumeTurn /\ ~Compact /\ Nested = {}
  BY NeverHappens DEF TypeInv
<1>2. phase # "idle" =>
        /\ \A k \in EmittedMessages : k[2] <= started
        /\ \A i \in 1..Len(messageQueue) : messageQueue[i][2] <= started
        /\ \A k \in EmittedCalls : toolTask[k] # "none"
  BY DEF SeedInv, GraphKnows
<1>3. CASE BeginTurn
  BY <1>3, BeginSeed
<1>4. CASE CompleteTurn
  BY <1>4, CompleteSeed
<1>5. CASE CutTurn
  BY <1>5, CutSeed
<1>6. CASE TakeMessage
  BY <1>6, MessageSeed
<1>7. CASE \E k \in Tools : TakeTool(k)
  BY <1>7, ToolSeed
<1>8. CASE StartMessage
  <2>1. /\ phase = "run" /\ UNCHANGED <<turn, phase, history, translatorVars, toolTask>>
        /\ started' = started + 1
        /\ messageQueue' = Append(messageQueue, MessageKey(turn, started + 1))
    BY <1>8 DEF StartMessage, Running, callerVars
  <2>2. started \in Nat /\ messageQueue \in Seq(Messages)
    BY <1>1, BoundsAreNat DEF TypeOK
  <2>3. \A k \in EmittedMessages : k[2] <= started'
    <3>1. \A k \in Messages : k[2] \in Nat
      BY BoundsAreNat DEF Messages
    <3> QED
      BY <1>2, <2>1, <2>2, <3>1 DEF EmittedMessages
  <2>4. \A i \in 1..Len(messageQueue') : messageQueue'[i][2] <= started'
    <3> SUFFICES ASSUME NEW i \in 1..Len(messageQueue')
                 PROVE  messageQueue'[i][2] <= started + 1
      BY <2>1
    <3>1. Len(messageQueue') = Len(messageQueue) + 1 /\ Len(messageQueue) \in Nat
      BY <2>1, <2>2
    <3>2. CASE i \in 1..Len(messageQueue)
      <4>1. messageQueue'[i] = messageQueue[i] /\ messageQueue[i] \in Messages
        BY <2>1, <2>2, <3>2, ElementOfSeq
      <4>2. messageQueue[i][2] \in Nat
        BY <4>1, BoundsAreNat DEF Messages
      <4> QED
        BY <1>2, <2>1, <2>2, <3>2, <4>1, <4>2
    <3>3. CASE i = Len(messageQueue) + 1
      <4>1. messageQueue'[i] = <<turn, started + 1>>
        BY <2>1, <2>2, <3>1, <3>3 DEF MessageKey
      <4> QED
        BY <2>2, <4>1
    <3> QED
      BY <3>1, <3>2, <3>3
  <2> QED
    BY <1>2, <2>1, <2>3, <2>4, QuietSeed
<1>9. CASE Restream
  <2>1. /\ phase = "run" /\ UNCHANGED <<turn, phase, history, translatorVars, toolTask, started>>
    BY <1>9 DEF Restream, Running, callerVars
  <2>2. PICK m \in 1..started : messageQueue' = Append(messageQueue, MessageKey(turn, m))
    BY <1>9 DEF Restream
  <2>3. started \in Nat /\ messageQueue \in Seq(Messages)
    BY <1>1, BoundsAreNat DEF TypeOK
  <2>4. \A i \in 1..Len(messageQueue') : messageQueue'[i][2] <= started'
    <3> SUFFICES ASSUME NEW i \in 1..Len(messageQueue')
                 PROVE  messageQueue'[i][2] <= started
      BY <2>1
    <3>1. Len(messageQueue') = Len(messageQueue) + 1 /\ Len(messageQueue) \in Nat
      BY <2>2, <2>3
    <3>2. CASE i \in 1..Len(messageQueue)
      <4>1. messageQueue'[i] = messageQueue[i]
        BY <2>2, <2>3, <3>2
      <4> QED
        BY <1>2, <2>1, <3>2, <4>1
    <3>3. CASE i = Len(messageQueue) + 1
      <4>1. messageQueue'[i] = <<turn, m>>
        BY <2>2, <2>3, <3>1, <3>3 DEF MessageKey
      <4> QED
        BY <2>2, <2>3, <4>1
    <3> QED
      BY <3>1, <3>2, <3>3
  <2> QED
    BY <1>2, <2>1, <2>4, QuietSeed
<1>10. CASE LandUser \/ LandAnchor \/ EndText
  <2>1. /\ phase # "idle" /\ phase' # "idle"
        /\ UNCHANGED <<turn, history, translatorVars, started, messageQueue, toolTask>>
    BY <1>10 DEF LandUser, LandAnchor, EndText, Running, callerVars, graphVars, taskVars
  <2> QED
    BY <1>2, <2>1, QuietSeed
<1>11. CASE \/ FinishMessage
            \/ \E k \in Tools : RunTool(k) \/ LandCall(k) \/ EndToolDrain(k) \/ LandResult(k)
  <2>1. /\ phase = "run" /\ phase' = "run"
        /\ UNCHANGED <<turn, history, translatorVars, started, messageQueue>>
    BY <1>11 DEF FinishMessage, RunTool, LandCall, EndToolDrain, LandResult, Running,
       callerVars, graphVars
  <2>2. \A d \in Tools : toolTask[d] # "none" => toolTask'[d] # "none"
    BY <1>1, <1>11 DEF FinishMessage, RunTool, LandCall, EndToolDrain, LandResult, TypeOK
  <2>3. \A k \in EmittedCalls : toolTask'[k] # "none"
    BY <1>2, <2>1, <2>2 DEF EmittedCalls
  <2> QED
    BY <1>2, <2>1, <2>3, QuietSeed
<1>12. CASE UNCHANGED vars
  <2>1. UNCHANGED <<turn, phase, history, translatorVars, started, messageQueue, toolTask>>
    BY <1>12 DEF vars, callerVars, graphVars, taskVars
  <2> QED
    BY <1>2, <2>1, QuietSeed
<1> QED
  BY <1>1, <1>3, <1>4, <1>5, <1>6, <1>7, <1>8, <1>9, <1>10, <1>11, <1>12
  DEF Next, UncutNext

-----------------------------------------------------------------------------
(* The two sequences of the messages.                                      *)

\* A message on the stream stands as it was stamped, or is older than every stamp.
MessageAsStamped(k) == rowOrder[k] = orders[k] /\ rowOrdinal[k] = ordinals[k]

MessageOlder(k) ==
  /\ rowOrder[k] < orderSeq /\ rowOrdinal[k] < ordinalSeq
  /\ \A j \in EmittedMessages : rowOrder[k] < orders[j] /\ rowOrdinal[k] < ordinals[j]

\* The stamps of the two counters sort alike.
StampsAgree ==
  /\ \A k \in EmittedMessages : ordinals[k] < ordinalSeq
  /\ \A a, b \in EmittedMessages : ordinals[a] < ordinals[b] <=> orders[a] < orders[b]

AgreeInv ==
  /\ StampsAgree
  /\ \A k \in OnStream \cap Messages : MessageAsStamped(k) \/ MessageOlder(k)
  /\ SequencesAgree

\* What a step does to the ordinals, beside what it does to the orders.
Landing(L) ==
  /\ LandingRows(L)
  /\ rowOrdinal' = [k \in Messages |-> IF k \in L THEN ordinals[k] ELSE rowOrdinal[k]]
  /\ UNCHANGED <<ordinals, ordinalSeq>>

Stamping(k) ==
  /\ StampingRow(k)
  /\ rowOrdinal' = rowOrdinal
  /\ k \in Messages => NextOrdinal(k)
  /\ k \notin Messages => UNCHANGED <<ordinals, ordinalSeq>>

LEMMA EmittedTypes ==
  ASSUME TypeOK, SameStamps, Counted
  PROVE  /\ ordinalSeq \in Nat /\ orderSeq \in Nat
         /\ \A k \in EmittedMessages : /\ k \in Messages /\ k \in Stamped
                                      /\ ordinals[k] \in Nat /\ orders[k] \in Nat
                                      /\ orders[k] < orderSeq
         /\ \A k \in Messages : k \in Stamped => k \in EmittedMessages
         /\ \A k \in Messages : k \in Keys /\ rowOrdinal[k] \in Int /\ rowOrder[k] \in Int
BY KeyFacts DEF TypeOK, SameStamps, Counted, EmittedMessages, Stamped, None

LEMMA LandingAgrees ==
  ASSUME TypeOK, SameStamps, Counted, AgreeInv, NEW L, Landing(L)
  PROVE  AgreeInv'
<1>1. /\ orders' = orders /\ orderSeq' = orderSeq /\ ordinals' = ordinals
      /\ ordinalSeq' = ordinalSeq /\ EmittedMessages' = EmittedMessages
      /\ L \subseteq Stamped
  BY DEF Landing, LandingRows, EmittedMessages
<1>2. \A k \in Messages :
        /\ k \in L => rowOrder'[k] = orders[k] /\ rowOrdinal'[k] = ordinals[k]
                        /\ k \in EmittedMessages
        /\ k \notin L => rowOrder'[k] = rowOrder[k] /\ rowOrdinal'[k] = rowOrdinal[k]
  BY <1>1, EmittedTypes DEF Landing, LandingRows
<1>3. \A k \in OnStream' : k \in Messages /\ k \notin L => k \in OnStream
  BY <1>2 DEF OnStream
<1>4. StampsAgree'
  BY <1>1 DEF AgreeInv, StampsAgree
<1>5. ASSUME NEW k \in OnStream' \cap Messages
      PROVE  MessageAsStamped(k)' \/ MessageOlder(k)'
  <2>1. CASE k \in L
    BY <1>1, <1>2, <2>1 DEF MessageAsStamped
  <2>2. CASE k \notin L
    <3>1. MessageAsStamped(k) \/ MessageOlder(k)
      BY <1>3, <2>2 DEF AgreeInv
    <3> QED
      BY <1>1, <1>2, <2>2, <3>1 DEF MessageAsStamped, MessageOlder
  <2> QED
    BY <2>1, <2>2
<1>6. SequencesAgree'
  <2> SUFFICES ASSUME NEW p \in OnStream' \cap Messages, NEW q \in OnStream' \cap Messages
               PROVE  rowOrdinal'[p] < rowOrdinal'[q] <=> rowOrder'[p] < rowOrder'[q]
    BY DEF SequencesAgree
  <2>1. \A k \in {p, q} : k \notin L => MessageAsStamped(k) \/ MessageOlder(k)
    BY <1>3 DEF AgreeInv
  <2>2. CASE p \in L /\ q \in L
    BY <1>2, <2>2 DEF AgreeInv, StampsAgree
  <2>3. CASE p \in L /\ q \notin L
    <3>1. CASE MessageAsStamped(q)
      <4>1. q \in EmittedMessages
        BY <1>2, <1>3, <2>3, <3>1, EmittedTypes DEF MessageAsStamped, OnStream, Stamped
      <4> QED
        BY <1>2, <2>3, <3>1, <4>1 DEF AgreeInv, StampsAgree, MessageAsStamped
    <3>2. CASE MessageOlder(q)
      BY <1>2, <2>3, <3>2, EmittedTypes DEF MessageOlder
    <3> QED
      BY <2>1, <2>3, <3>1, <3>2
  <2>4. CASE p \notin L /\ q \in L
    <3>1. CASE MessageAsStamped(p)
      <4>1. p \in EmittedMessages
        BY <1>2, <1>3, <2>4, <3>1, EmittedTypes DEF MessageAsStamped, OnStream, Stamped
      <4> QED
        BY <1>2, <2>4, <3>1, <4>1 DEF AgreeInv, StampsAgree, MessageAsStamped
    <3>2. CASE MessageOlder(p)
      BY <1>2, <2>4, <3>2, EmittedTypes DEF MessageOlder
    <3> QED
      BY <2>1, <2>4, <3>1, <3>2
  <2>5. CASE p \notin L /\ q \notin L
    BY <1>2, <1>3, <2>5 DEF AgreeInv, SequencesAgree
  <2> QED
    BY <2>2, <2>3, <2>4, <2>5
<1> QED
  BY <1>4, <1>5, <1>6 DEF AgreeInv

LEMMA StampingAgrees ==
  ASSUME TypeOK, SameStamps, Counted, AgreeInv, NEW k \in Keys, Stamping(k)
  PROVE  AgreeInv'
<1>1. rowOrder' = rowOrder /\ rowOrdinal' = rowOrdinal /\ OnStream' = OnStream
  BY DEF Stamping, StampingRow, OnStream
<1>2. SequencesAgree'
  BY <1>1 DEF AgreeInv, SequencesAgree
<1>3. CASE k \in Stamped
  <2>1. orders' = orders /\ orderSeq' = orderSeq
    BY <1>3, StampOnce DEF Stamping, StampingRow
  <2>2. ordinals' = ordinals /\ ordinalSeq' = ordinalSeq
    BY <1>3 DEF Stamping, NextOrdinal, SameStamps, Stamped
  <2>3. EmittedMessages' = EmittedMessages
    BY <2>2 DEF EmittedMessages
  <2> QED
    BY <1>1, <1>2, <2>1, <2>2, <2>3 DEF AgreeInv, StampsAgree, MessageAsStamped,
       MessageOlder
<1>4. CASE k \notin Stamped /\ k \in Messages
  <2>1. /\ orders'[k] = orderSeq /\ orderSeq' = orderSeq + 1
        /\ \A j \in EmittedMessages : orders'[j] = orders[j]
    BY <1>4, StampOnce, EmittedTypes DEF Stamping, StampingRow
  <2>2. ordinals[k] = None /\ orders[k] = None
    BY <1>4 DEF SameStamps, Stamped
  <2>3. ordinals' = [ordinals EXCEPT ![k] = ordinalSeq] /\ ordinalSeq' = ordinalSeq + 1
    BY <1>4, <2>2 DEF Stamping, NextOrdinal
  <2>4. /\ ordinals'[k] = ordinalSeq /\ EmittedMessages' = EmittedMessages \cup {k}
        /\ k \notin EmittedMessages
        /\ \A j \in EmittedMessages : ordinals'[j] = ordinals[j]
    BY <1>4, <2>2, <2>3 DEF TypeOK, EmittedMessages, None
  <2>5. StampsAgree'
    BY <2>1, <2>3, <2>4, EmittedTypes DEF AgreeInv, StampsAgree
  <2>6. ASSUME NEW r \in OnStream \cap Messages
        PROVE  MessageAsStamped(r)' \/ MessageOlder(r)'
    <3>1. CASE MessageAsStamped(r)
      <4>1. r \in EmittedMessages
        BY <3>1, EmittedTypes DEF MessageAsStamped, OnStream, Stamped
      <4> QED
        BY <1>1, <2>1, <2>4, <3>1, <4>1 DEF MessageAsStamped
    <3>2. CASE MessageOlder(r)
      <4>1. rowOrder[r] \in Int /\ rowOrdinal[r] \in Int
        BY EmittedTypes
      <4> QED
        BY <1>1, <2>1, <2>3, <2>4, <3>2, <4>1, EmittedTypes DEF MessageOlder
    <3> QED
      BY <3>1, <3>2 DEF AgreeInv
  <2> QED
    BY <1>1, <1>2, <2>5, <2>6 DEF AgreeInv
<1>5. CASE k \notin Stamped /\ k \notin Messages
  <2>1. /\ orderSeq' = orderSeq + 1
        /\ \A j \in Stamped : orders'[j] = orders[j]
    BY <1>5, StampOnce DEF Stamping, StampingRow
  <2>2. ordinals' = ordinals /\ ordinalSeq' = ordinalSeq /\ EmittedMessages' = EmittedMessages
    BY <1>5 DEF Stamping, EmittedMessages
  <2>3. \A j \in EmittedMessages : orders'[j] = orders[j]
    BY <2>1, EmittedTypes
  <2>4. StampsAgree'
    BY <2>2, <2>3 DEF AgreeInv, StampsAgree
  <2>5. ASSUME NEW r \in OnStream \cap Messages
        PROVE  MessageAsStamped(r)' \/ MessageOlder(r)'
    <3>1. CASE MessageAsStamped(r)
      <4>1. r \in EmittedMessages
        BY <3>1, EmittedTypes DEF MessageAsStamped, OnStream, Stamped
      <4> QED
        BY <1>1, <2>2, <2>3, <3>1, <4>1 DEF MessageAsStamped
    <3>2. CASE MessageOlder(r)
      <4>1. rowOrder[r] \in Int
        BY EmittedTypes
      <4> QED
        BY <1>1, <2>1, <2>2, <2>3, <3>2, <4>1, EmittedTypes DEF MessageOlder
    <3> QED
      BY <3>1, <3>2 DEF AgreeInv
  <2> QED
    BY <1>1, <1>2, <2>4, <2>5 DEF AgreeInv
<1> QED
  BY <1>3, <1>4, <1>5

\* The new translator starts past every row, because the history does.
LEMMA BeginAgrees ==
  ASSUME DefaultSeed, TypeInv, Counted, SeedInv, AgreeInv, OlderThanStamps, BeginTurn
  PROVE  AgreeInv' /\ OlderThanStamps'
<1> DEFINE u == UserKey(turn + 1)
<1>1. TypeOK /\ turn + 1 \in Turns /\ SameStamps
  BY BoundsAreNat DEF TypeInv, TypeOK, BeginTurn, Turns, SeedInv
<1>2. u \in Messages /\ u \in Keys
  BY <1>1, KeyFacts
<1>3. /\ OrdinalStart \in Nat /\ OrderStart \in Nat
      /\ ordinalSeq <= OrdinalStart /\ orderSeq <= OrderStart
  <2>1. /\ OrdinalStart = NextLiveOrdinal(history) /\ OrderStart = NextLiveOrder(history)
        /\ OrdinalStart \in Nat /\ OrderStart \in Nat
    BY <1>1, EmittedFinite DEF DefaultSeed, OrdinalStart, OrderStart
  <2> QED
    BY <2>1 DEF SeedInv, CountersReach, BeginTurn
<1>4. /\ rowOrder' = rowOrder /\ rowOrdinal' = rowOrdinal /\ OnStream' = OnStream
      /\ ordinals' = [k \in Messages |-> IF k = u THEN OrdinalStart ELSE None]
      /\ ordinalSeq' = OrdinalStart + 1
      /\ orders' = [k \in Keys |-> IF k = u THEN OrderStart ELSE None]
      /\ orderSeq' = OrderStart + 1
  BY DEF BeginTurn, streamVars, OnStream
<1> HIDE DEF u
<1>5. /\ EmittedMessages' = {u} /\ Stamped' = {u}
      /\ ordinals'[u] = OrdinalStart /\ orders'[u] = OrderStart
  BY <1>2, <1>3, <1>4 DEF EmittedMessages, Stamped, None
<1>6. \A k \in OnStream : rowOrder[k] \in Nat /\ rowOrder[k] < orderSeq
  BY <1>1, StampedKeys DEF OlderThanStamps, Counted, OnStream, Stamped
<1>7. \A k \in OnStream \cap Messages : rowOrdinal[k] \in Int /\ rowOrdinal[k] < ordinalSeq
  <2> SUFFICES ASSUME NEW k \in OnStream \cap Messages
               PROVE  rowOrdinal[k] \in Int /\ rowOrdinal[k] < ordinalSeq
    OBVIOUS
  <2>1. CASE MessageAsStamped(k)
    <3>1. k \in EmittedMessages
      BY <1>1, <2>1, EmittedTypes DEF MessageAsStamped, OnStream, Stamped
    <3> QED
      BY <1>1, <2>1, <3>1, EmittedTypes DEF MessageAsStamped, AgreeInv, StampsAgree
  <2>2. CASE MessageOlder(k)
    BY <1>1, <2>2, EmittedTypes DEF MessageOlder
  <2> QED
    BY <2>1, <2>2 DEF AgreeInv
<1>8. orderSeq \in Nat /\ ordinalSeq \in Nat
  BY <1>1 DEF TypeOK
<1>9. \A k \in OnStream : rowOrder[k] < OrderStart /\ rowOrder[k] < OrderStart + 1
  BY <1>3, <1>6, <1>8
<1>10. \A k \in OnStream \cap Messages :
         rowOrdinal[k] < OrdinalStart /\ rowOrdinal[k] < OrdinalStart + 1
  BY <1>3, <1>7, <1>8
<1>11. OlderThanStamps'
  BY <1>4, <1>5, <1>9 DEF OlderThanStamps
<1>12. \A k \in OnStream \cap Messages : MessageOlder(k)'
  BY <1>4, <1>5, <1>9, <1>10 DEF MessageOlder
<1>13. StampsAgree'
  BY <1>3, <1>4, <1>5 DEF StampsAgree
<1>14. SequencesAgree'
  BY <1>4 DEF AgreeInv, SequencesAgree
<1> QED
  BY <1>4, <1>11, <1>12, <1>13, <1>14 DEF AgreeInv

-----------------------------------------------------------------------------
(* Every step.                                                             *)

LEMMA NoneLands ==
  ASSUME TypeOK, UNCHANGED <<turn, resumes, translatorVars, streamVars>>
  PROVE  Landing({})
<1>1. LandingRows({})
  BY NothingLands DEF translatorVars, streamVars
<1>2. rowOrdinal' = [k \in Messages |-> IF k \in {} THEN ordinals[k] ELSE rowOrdinal[k]]
  BY DEF TypeOK, streamVars
<1> QED
  BY <1>1, <1>2 DEF Landing, translatorVars

LEMMA RowLands ==
  ASSUME TypeOK, NEW k \in Stamped, Land(k), UNCHANGED <<turn, resumes, translatorVars>>
  PROVE  Landing({k})
<1>1. LandingRows({k})
  BY OneLands DEF translatorVars
<1>2. rowOrdinal' = [j \in Messages |-> IF j \in {k} THEN ordinals[j] ELSE rowOrdinal[j]]
  BY DEF TypeOK, Land
<1> QED
  BY <1>1, <1>2 DEF Landing, translatorVars

LEMMA BothShapes ==
  ASSUME DefaultSeed, TypeInv, WritesStamped, [Next]_vars
  PROVE  \/ \E L : Landing(L)
         \/ \E k \in Keys : Stamping(k)
         \/ BeginTurn
<1>1. TypeOK /\ ~ResumeTurn /\ ~Compact /\ Nested = {}
  BY NeverHappens DEF TypeInv
<1>2. CASE LandUser
  <2>1. UserKey(turn) \in Stamped
    BY <1>2, KeyFacts DEF LandUser, TypeInv, OwnTurn, WritesStamped, InFlight
  <2> QED
    BY <1>1, <1>2, <2>1, RowLands DEF LandUser
<1>3. CASE LandAnchor
  <2>1. messageTask.key \in Stamped
    BY <1>1, <1>3 DEF LandAnchor, TypeOK, WritesStamped, InFlight, Idle
  <2> QED
    BY <1>1, <1>3, <2>1, RowLands DEF LandAnchor, Running, callerVars
<1>4. CASE \E k \in Tools : LandCall(k) \/ LandResult(k)
  <2>1. PICK k \in Tools : LandCall(k) \/ LandResult(k)
    BY <1>4
  <2>2. k \in Stamped
    BY <2>1 DEF LandCall, LandResult, WritesStamped, InFlight
  <2> QED
    BY <1>1, <2>1, <2>2, RowLands DEF LandCall, LandResult, Running, callerVars
<1>5. CASE \/ CompleteTurn \/ StartMessage \/ Restream \/ FinishMessage \/ EndText
           \/ \E k \in Tools : RunTool(k) \/ EndToolDrain(k)
           \/ UNCHANGED vars
  <2>1. UNCHANGED <<turn, resumes, translatorVars, streamVars>>
    BY <1>5 DEF CompleteTurn, EndTurn, StartMessage, Restream, FinishMessage, EndText,
       RunTool, EndToolDrain, Running, callerVars, vars
  <2> QED
    BY <1>1, <2>1, NoneLands
<1>6. CASE CutTurn
  <2>1. PICK L \in SUBSET InFlight :
          /\ rowOrder' = [k \in Keys |-> IF k \in L THEN orders[k] ELSE rowOrder[k]]
          /\ rowOrdinal' = [k \in Messages |->
                              IF k \in L THEN ordinals[k] ELSE rowOrdinal[k]]
    BY <1>6 DEF CutTurn
  <2>2. UNCHANGED <<turn, resumes, translatorVars>>
    BY <1>6 DEF CutTurn, EndTurn
  <2>3. L \subseteq Stamped
    BY DEF WritesStamped
  <2>4. Landing(L)
    BY <2>1, <2>2, <2>3 DEF Landing, LandingRows, translatorVars
  <2> QED
    BY <2>4
<1>7. CASE TakeMessage
  <2>1. Head(messageQueue) \in Messages /\ Head(messageQueue)[1] = turn
    BY <1>7 DEF TakeMessage, TypeInv, OwnTurn
  <2>2. Stamping(Head(messageQueue))
    BY <1>7, <2>1 DEF TakeMessage, Running, callerVars, streamVars, Stamping, StampingRow
  <2> QED
    BY <2>1, <2>2, KeyFacts
<1>8. CASE \E k \in Tools : TakeTool(k)
  <2>1. PICK k \in Tools : TakeTool(k)
    BY <1>8
  <2>2. k[1] = turn /\ k \in Keys /\ k \notin Messages
    BY <2>1, KeyFacts, KeysApart DEF TakeTool, TypeInv, OwnTurn
  <2>3. Stamping(k)
    BY <2>1, <2>2 DEF TakeTool, Running, callerVars, streamVars, Stamping, StampingRow
  <2> QED
    BY <2>2, <2>3
<1> QED
  BY <1>1, <1>2, <1>3, <1>4, <1>5, <1>6, <1>7, <1>8 DEF Next, UncutNext

DefaultInv == StreamInv /\ Places /\ SeedInv /\ AgreeInv

LEMMA DefaultInit == Init => DefaultInv
<1> SUFFICES ASSUME Init PROVE DefaultInv
  OBVIOUS
<1>1. Stamped = {} /\ OnStream = {} /\ EmittedMessages = {}
  BY DEF Init, Stamped, OnStream, EmittedMessages
<1>2. Places /\ AgreeInv
  BY <1>1 DEF Places, OlderThanStamps, OneSequence, LaterTurnsSortAfter, AgreeInv,
     StampsAgree, SequencesAgree
<1> QED
  BY <1>2, StreamInit, SeedInit DEF DefaultInv

LEMMA DefaultStep ==
  ASSUME DefaultSeed
  PROVE  DefaultInv /\ [Next]_vars => DefaultInv'
<1> SUFFICES ASSUME DefaultInv, [Next]_vars PROVE DefaultInv'
  OBVIOUS
<1>1. /\ TypeInv /\ TypeOK /\ Counted /\ WritesStamped /\ AsStamped
      /\ SeedInv /\ SameStamps /\ AgreeInv /\ Places /\ OlderThanStamps
  BY DEF DefaultInv, StreamInv, TypeInv, SeedInv, Places
<1>2. StreamInv' /\ TypeOK'
  BY StreamStep DEF DefaultInv, StreamInv, TypeInv
<1>3. SeedInv'
  BY <1>1, <1>2, SeedStep
<1>4. CASE \E L : Landing(L)
  <2>1. PICK L : Landing(L)
    BY <1>4
  <2>2. Places'
    BY <1>1, <1>2, <2>1, LandingKeeps DEF Landing
  <2>3. AgreeInv'
    BY <1>1, <2>1, LandingAgrees
  <2> QED
    BY <1>2, <1>3, <2>2, <2>3 DEF DefaultInv
<1>5. CASE \E k \in Keys : Stamping(k)
  <2>1. PICK k \in Keys : Stamping(k)
    BY <1>5
  <2>2. Places'
    BY <1>1, <2>1, StampingKeeps DEF Stamping
  <2>3. AgreeInv'
    BY <1>1, <2>1, StampingAgrees
  <2> QED
    BY <1>2, <1>3, <2>2, <2>3 DEF DefaultInv
<1>6. CASE BeginTurn
  <2>1. AgreeInv' /\ OlderThanStamps'
    BY <1>1, <1>6, BeginAgrees
  <2>2. OneSequence' /\ LaterTurnsSortAfter'
    <3>1. rowOrder' = rowOrder /\ OnStream' = OnStream
      BY <1>6 DEF BeginTurn, streamVars, OnStream
    <3> QED
      BY <1>1, <3>1 DEF Places, OneSequence, LaterTurnsSortAfter
  <2> QED
    BY <1>2, <1>3, <2>1, <2>2 DEF DefaultInv, Places
<1> QED
  BY <1>1, <1>4, <1>5, <1>6, BothShapes

LEMMA DefaultInvariant ==
  ASSUME DefaultSeed PROVE Spec => []DefaultInv
BY DefaultInit, DefaultStep, PTL DEF Spec

-----------------------------------------------------------------------------
(* The theorems.                                                           *)

\* Between turns the folded history, checkpointed or salvaged from a turn cut anywhere,
\* reaches past everything the last translator stamped.
THEOREM HistoryReachesPast ==
  ASSUME DefaultSeed PROVE Spec => []SeedsReachPast
<1>1. DefaultInv => SeedsReachPast
  <2> SUFFICES ASSUME DefaultInv, phase = "idle"
               PROVE  /\ NextLiveOrder(history) >= orderSeq
                      /\ NextLiveOrdinal(history) >= ordinalSeq
    BY DEF SeedsReachPast
  <2>1. TypeOK /\ ordinalSeq \in Nat /\ orderSeq \in Nat
    BY DEF DefaultInv, StreamInv, TypeInv, TypeOK
  <2>2. NextLiveOrdinal(history) \in Nat /\ NextLiveOrder(history) \in Nat
    BY <2>1, EmittedFinite
  <2> QED
    BY <2>1, <2>2 DEF DefaultInv, SeedInv, CountersReach
<1> QED
  BY <1>1, DefaultInvariant, PTL

\* So a conversation seeded from its history is one sequence,
THEOREM OneSequenceByDefault ==
  ASSUME DefaultSeed PROVE Spec => []OneSequence
<1>1. DefaultInv => OneSequence
  BY DEF DefaultInv, Places
<1> QED
  BY <1>1, DefaultInvariant, PTL

\* in which later turns sort after earlier ones,
THEOREM LaterTurnsByDefault ==
  ASSUME DefaultSeed PROVE Spec => []LaterTurnsSortAfter
<1>1. DefaultInv => LaterTurnsSortAfter
  BY DEF DefaultInv, Places
<1> QED
  BY <1>1, DefaultInvariant, PTL

\* and its messages, over all turns, sort by ordinal as they do by order.
THEOREM OrdinalsSortAlike ==
  ASSUME DefaultSeed PROVE Spec => []SequencesAgree
<1>1. DefaultInv => SequencesAgree
  BY DEF DefaultInv, AgreeInv
<1> QED
  BY <1>1, DefaultInvariant, PTL

=============================================================================
