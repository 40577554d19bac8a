------------------------ MODULE HistoryReplay_proofs ------------------------
(***************************************************************************)
(* Proofs about HistoryReplay for any histories, windows and number of     *)
(* crashes.  The counters of the replay are what the messages passed so    *)
(* far define, so they meet, or stay below, the counters a live run is     *)
(* seeded with.  What the loop gathers for a call is the row the messages  *)
(* passed so far define, so what reaches the stream, in whatever attempt,  *)
(* is the row a complete replay gives.                                     *)
(***************************************************************************)
EXTENDS HistoryReplay, NumberLemmas, FunctionTheorems, SequenceTheorems

\* s is h without some of its first messages.
Dropped(s, h) == Len(h) - Len(s)

IsSuffix(s, h) ==
    /\ s \in Seq(Message) /\ h \in Seq(Message)
    /\ Dropped(s, h) \in Nat
    /\ \A i \in 1..Len(s) : s[i] = h[i + Dropped(s, h)]

-----------------------------------------------------------------------------
(* Counting slots and calls.                                               *)

\* The slots of a prefix are finitely many, so their count is a number.
LEMMA SlotsFinite ==
  ASSUME NEW ms, NEW n \in Nat
  PROVE  IsFiniteSet(Slots(ms, n)) /\ Cardinality(Slots(ms, n)) \in Nat
<1>1. IsFiniteSet(1..n)
  BY FS_Interval
<1>2. Slots(ms, n) \in SUBSET (1..n)
  BY DEF Slots
<1> QED
  BY <1>1, <1>2, FS_Subset, FS_CardinalityType

\* So are the keyed calls of one message.
LEMMA KeyedCallsFinite ==
  ASSUME NEW m \in Message
  PROVE  IsFiniteSet(KeyedCalls(m)) /\ Cardinality(KeyedCalls(m)) \in Nat
<1>1. CASE m.kind = "ai"
  <2>1. m \in Assistant
    BY <1>1 DEF Message, Human, ToolReply
  <2>2. m.calls \in Seq(Calls \cup {NoId})
    BY <2>1 DEF Assistant
  <2>3. DOMAIN m.calls = 1..Len(m.calls) /\ Len(m.calls) \in Nat
    BY <2>2, LenProperties
  <2>4. IsFiniteSet(DOMAIN m.calls)
    BY <2>3, FS_Interval
  <2>5. KeyedCalls(m) \in SUBSET DOMAIN m.calls
    BY <1>1 DEF KeyedCalls
  <2> QED
    BY <2>4, <2>5, FS_Subset, FS_CardinalityType
<1>2. CASE m.kind # "ai"
  BY <1>2, FS_EmptySet DEF KeyedCalls
<1> QED
  BY <1>1, <1>2

\* The calls at one message number as many as its keyed calls.
LEMMA PlacesAt ==
  ASSUME NEW i, NEW m \in Message
  PROVE  /\ IsFiniteSet({i} \X KeyedCalls(m))
         /\ Cardinality({i} \X KeyedCalls(m)) = Cardinality(KeyedCalls(m))
<1>1. IsFiniteSet({i}) /\ Cardinality({i}) = 1
  BY FS_Singleton
<1>2. IsFiniteSet(KeyedCalls(m)) /\ Cardinality(KeyedCalls(m)) \in Nat
  BY KeyedCallsFinite
<1>3. /\ IsFiniteSet({i} \X KeyedCalls(m))
      /\ Cardinality({i} \X KeyedCalls(m)) = 1 * Cardinality(KeyedCalls(m))
  BY <1>1, <1>2, FS_Product
<1> QED
  BY <1>2, <1>3

\* The calls of a prefix are finitely many: a finite union of finite sets.
LEMMA PlacesFinite ==
  ASSUME NEW ms \in Seq(Message), NEW n \in 0..Len(ms)
  PROVE  /\ IsFiniteSet(CallPlaces(ms, n)) /\ Cardinality(CallPlaces(ms, n)) \in Nat
         /\ IsFiniteSet(SeededPlaces(ms, n)) /\ Cardinality(SeededPlaces(ms, n)) \in Nat
<1> DEFINE At == {{i} \X KeyedCalls(ms[i]) : i \in 1..n}
           at == [i \in 1..n |-> {i} \X KeyedCalls(ms[i])]
<1>1. IsFiniteSet(1..n)
  BY FS_Interval
<1>2. at \in Surjection(1..n, At)
  BY Fun_IsSurj
<1>3. IsFiniteSet(At)
  BY <1>1, <1>2, FS_Surjection
<1>4. \A i \in 1..n : ms[i] \in Message
  BY ElementOfSeq
<1>5. \A T \in At : IsFiniteSet(T)
  BY <1>4, PlacesAt
<1>6. IsFiniteSet(CallPlaces(ms, n))
  BY <1>3, <1>5, FS_UNION DEF CallPlaces
<1>7. SeededPlaces(ms, n) \in SUBSET CallPlaces(ms, n)
  BY DEF SeededPlaces
<1> QED
  BY <1>6, <1>7, FS_Subset, FS_CardinalityType

\* One message further, the slots grow by the one that message may take.
LEMMA SlotsStep ==
  ASSUME NEW ms, NEW n \in Nat
  PROVE  Cardinality(Slots(ms, n + 1)) =
           Cardinality(Slots(ms, n)) + (IF CarriesOrdinal(ms[n + 1]) THEN 1 ELSE 0)
<1>1. IsFiniteSet(Slots(ms, n)) /\ Cardinality(Slots(ms, n)) \in Nat
  BY SlotsFinite
<1>2. n + 1 \notin Slots(ms, n)
  BY DEF Slots
<1>3. CASE CarriesOrdinal(ms[n + 1])
  <2>1. Slots(ms, n + 1) = Slots(ms, n) \cup {n + 1}
    BY <1>3 DEF Slots
  <2> QED
    BY <1>1, <1>2, <1>3, <2>1, FS_AddElement
<1>4. CASE ~CarriesOrdinal(ms[n + 1])
  <2>1. Slots(ms, n + 1) = Slots(ms, n)
    BY <1>4 DEF Slots
  <2> QED
    BY <1>1, <1>4, <2>1
<1> QED
  BY <1>3, <1>4

\* One message further, the calls with a row grow by those on that message.
LEMMA SeededPlacesStep ==
  ASSUME NEW ms \in Seq(Message), NEW n \in Nat, n < Len(ms)
  PROVE  Cardinality(SeededPlaces(ms, n + 1)) =
           Cardinality(SeededPlaces(ms, n))
             + (IF CarriesOrdinal(ms[n + 1]) THEN Cardinality(KeyedCalls(ms[n + 1])) ELSE 0)
<1> DEFINE Old == SeededPlaces(ms, n)
           New == {n + 1} \X KeyedCalls(ms[n + 1])
<1>1. ms[n + 1] \in Message
  BY ElementOfSeq
<1>2. IsFiniteSet(Old) /\ Cardinality(Old) \in Nat
  BY PlacesFinite
<1>3. IsFiniteSet(New) /\ Cardinality(New) = Cardinality(KeyedCalls(ms[n + 1]))
  BY <1>1, PlacesAt
<1>4. Cardinality(KeyedCalls(ms[n + 1])) \in Nat
  BY <1>1, KeyedCallsFinite
<1>5. \A p \in CallPlaces(ms, n) : p[1] \in 1..n
  BY DEF CallPlaces
<1>6. CallPlaces(ms, n + 1) = CallPlaces(ms, n) \cup New
  <2>1. 1..(n + 1) = (1..n) \cup {n + 1}
    OBVIOUS
  <2> QED
    BY <2>1 DEF CallPlaces
<1>7. \A p \in New : p[1] = n + 1
  OBVIOUS
<1>8. CASE CarriesOrdinal(ms[n + 1])
  <2>1. SeededPlaces(ms, n + 1) = Old \cup New
    BY <1>6, <1>7, <1>8 DEF SeededPlaces
  <2>2. Old \cap New = {}
    BY <1>5, <1>7 DEF SeededPlaces
  <2>3. Cardinality(Old \cap New) = 0
    BY <2>2, FS_EmptySet
  <2>4. Cardinality(Old \cup New) = Cardinality(Old) + Cardinality(New) - Cardinality(Old \cap New)
    BY <1>2, <1>3, FS_Union
  <2>5. Cardinality(SeededPlaces(ms, n + 1)) = Cardinality(Old \cup New)
    BY <2>1
  <2> HIDE DEF Old, New
  <2>6. Cardinality(Old \cup New) = Cardinality(Old) + Cardinality(KeyedCalls(ms[n + 1]))
    BY <1>2, <1>3, <1>4, <2>3, <2>4
  <2> QED
    BY <1>8, <2>5, <2>6 DEF Old
<1>9. CASE ~CarriesOrdinal(ms[n + 1])
  <2>1. SeededPlaces(ms, n + 1) = Old
    BY <1>6, <1>7, <1>9 DEF SeededPlaces
  <2> QED
    BY <1>2, <1>9, <2>1
<1> QED
  BY <1>8, <1>9

-----------------------------------------------------------------------------
(* The window.                                                             *)

\* What the window keeps of a history is a suffix of it.
LEMMA WindowIsSuffix ==
  ASSUME NEW h \in Seq(Message), NEW turns
  PROVE  IsSuffix(Window(h, turns), h)
<1> DEFINE kept == Cardinality(LastTurns(h, turns))
           m == Len(h) - kept + 1
<1>1. Len(h) \in Nat /\ DOMAIN h = 1..Len(h)
  BY LenProperties
<1>2. IsFiniteSet(1..Len(h)) /\ Cardinality(1..Len(h)) = Len(h)
  BY <1>1, FS_Interval
<1>3. LastTurns(h, turns) \in SUBSET (1..Len(h))
  BY <1>1 DEF LastTurns
<1>4. kept \in Nat /\ kept <= Len(h)
  BY <1>2, <1>3, FS_Subset, FS_CardinalityType
<1>5. CASE Window(h, turns) = h
  BY <1>1, <1>5 DEF IsSuffix, Dropped
<1>6. CASE Window(h, turns) = SubSeq(h, m, Len(h))
  <2> HIDE DEF kept
  <2>1. m \in 1..(Len(h) + 1)
    BY <1>1, <1>4
  <2>2. \A i \in m..Len(h) : h[i] \in Message
    BY <1>1, <2>1, ElementOfSeq
  <2> HIDE DEF m
  <2>3. /\ SubSeq(h, m, Len(h)) \in Seq(Message)
        /\ Len(SubSeq(h, m, Len(h))) = IF m <= Len(h) THEN Len(h) - m + 1 ELSE 0
        /\ \A i \in 1..(Len(h) - m + 1) : SubSeq(h, m, Len(h))[i] = h[m + i - 1]
    BY <1>1, <2>1, <2>2, SubSeqProperties
  <2>4. Len(SubSeq(h, m, Len(h))) = Len(h) - m + 1
    BY <1>1, <2>1, <2>3
  <2>5. Dropped(SubSeq(h, m, Len(h)), h) = m - 1
    BY <1>1, <2>1, <2>4 DEF Dropped
  <2>6. \A i \in 1..(Len(h) - m + 1) : m + i - 1 = i + (m - 1)
    BY <1>1, <2>1
  <2> QED
    BY <1>6, <2>1, <2>3, <2>4, <2>5, <2>6 DEF IsSuffix
<1> QED
  BY <1>5, <1>6 DEF Window

\* A suffix has no more slots than the whole: shifted, they are slots of the whole.
LEMMA SuffixSlots ==
  ASSUME NEW s, NEW h, IsSuffix(s, h)
  PROVE  NextLiveOrdinal(s) <= NextLiveOrdinal(h)
<1> DEFINE S == Slots(s, Len(s))
           T == Slots(h, Len(h))
           d == Dropped(s, h)
           shift == [i \in S |-> i + d]
<1>1. Len(s) \in Nat /\ Len(h) \in Nat /\ d \in Nat /\ d = Len(h) - Len(s)
  BY LenProperties DEF IsSuffix, Dropped
<1>2. \A i \in S : i \in 1..Len(s) /\ CarriesOrdinal(h[i + d])
  BY DEF Slots, IsSuffix
<1> HIDE DEF d
<1>3. \A i \in S : i + d \in T
  BY <1>1, <1>2 DEF Slots
<1>4. \A i, j \in S : i + d = j + d => i = j
  BY <1>1, <1>2
<1>5. shift \in Injection(S, T)
  BY <1>3, <1>4, Fun_IsInj
<1>6. IsFiniteSet(T)
  BY <1>1, SlotsFinite
<1> QED
  BY <1>5, <1>6, FS_Injection DEF NextLiveOrdinal

\* Nor has it more calls.
LEMMA SuffixPlaces ==
  ASSUME NEW s, NEW h, IsSuffix(s, h)
  PROVE  Cardinality(CallPlaces(s, Len(s))) <= Cardinality(CallPlaces(h, Len(h)))
<1> DEFINE S == CallPlaces(s, Len(s))
           T == CallPlaces(h, Len(h))
           d == Dropped(s, h)
           shift == [p \in S |-> <<p[1] + d, p[2]>>]
<1>1. Len(s) \in Nat /\ Len(h) \in Nat /\ d \in Nat /\ d = Len(h) - Len(s)
  BY LenProperties DEF IsSuffix, Dropped
<1>2. \A p \in S : /\ p[1] \in 1..Len(s) /\ p[2] \in KeyedCalls(s[p[1]])
                   /\ p = <<p[1], p[2]>>
  BY DEF CallPlaces
<1>3. \A i \in 1..Len(s) : s[i] = h[i + d]
  BY DEF IsSuffix
<1> HIDE DEF d
<1>4. \A p \in S : p[1] + d \in 1..Len(h) /\ p[2] \in KeyedCalls(h[p[1] + d])
  BY <1>1, <1>2, <1>3
<1>5. \A p \in S : <<p[1] + d, p[2]>> \in T
  BY <1>4 DEF CallPlaces
<1>6. \A p, q \in S : shift[p] = shift[q] => p = q
  <2> SUFFICES ASSUME NEW p \in S, NEW q \in S, shift[p] = shift[q] PROVE p = q
    OBVIOUS
  <2>1. p[1] + d = q[1] + d /\ p[2] = q[2]
    OBVIOUS
  <2>2. p[1] = q[1]
    BY <1>1, <1>2, <2>1
  <2> QED
    BY <1>2, <2>1, <2>2
<1>7. shift \in [S -> T]
  BY <1>5
<1>8. IsFiniteSet(T)
  BY <1>1, PlacesFinite DEF IsSuffix
<1> HIDE DEF S, T, shift
<1>9. shift \in Injection(S, T)
  BY <1>6, <1>7, Fun_IsInj
<1>10. Cardinality(S) <= Cardinality(T)
  BY <1>8, <1>9, FS_Injection
<1> QED
  BY <1>10 DEF S, T

\* So a live run seeded from the window starts no later than one seeded from all.
LEMMA SuffixOrder ==
  ASSUME NEW s, NEW h, IsSuffix(s, h)
  PROVE  NextLiveOrder(s) <= NextLiveOrder(h)
<1>1. Len(s) \in Nat /\ Len(h) \in Nat
  BY LenProperties DEF IsSuffix
<1>2. NextLiveOrdinal(s) \in Nat /\ NextLiveOrdinal(h) \in Nat
  BY <1>1, SlotsFinite DEF NextLiveOrdinal
<1>3. /\ Cardinality(CallPlaces(s, Len(s))) \in Nat
      /\ Cardinality(CallPlaces(h, Len(h))) \in Nat
  BY <1>1, PlacesFinite DEF IsSuffix
<1> QED
  BY <1>2, <1>3, SuffixSlots, SuffixPlaces DEF NextLiveOrder

-----------------------------------------------------------------------------
(* The invariant: the loop's position and what the counters count.         *)

Positions ==
    /\ IsSuffix(messages, history)
    /\ next \in 1..(Len(messages) + 1)
    /\ state # "scan" => next = Len(messages) + 1

Counted ==
    /\ ordinal = Cardinality(Slots(messages, next - 1))
    /\ order = ordinal + Cardinality(SeededPlaces(messages, next - 1))

Inv == Positions /\ Counted

\* Nothing is counted before the first message.
LEMMA InvInit == Init => Inv
<1> SUFFICES ASSUME Init PROVE Inv
  OBVIOUS
<1>1. history \in Seq(Message)
  BY HistoryAssumption DEF Init
<1>2. IsSuffix(messages, history)
  BY <1>1, WindowIsSuffix DEF Init
<1>3. Len(messages) \in Nat
  BY <1>2, LenProperties DEF IsSuffix
<1>4. Positions
  BY <1>2, <1>3 DEF Init, Positions
<1>5. Slots(messages, 0) = {} /\ SeededPlaces(messages, 0) = {}
  <2>1. 1..0 = {}
    OBVIOUS
  <2> QED
    BY <2>1 DEF Slots, SeededPlaces, CallPlaces
<1>6. Cardinality(Slots(messages, 0)) = 0 /\ Cardinality(SeededPlaces(messages, 0)) = 0
  BY <1>5, FS_EmptySet
<1>7. Counted
  BY <1>6 DEF Init, Counted
<1> QED
  BY <1>4, <1>7 DEF Inv

\* What a step that seeds a message does, whichever branch of the loop it takes.
SeedMessage ==
    /\ Scanning /\ CarriesOrdinal(Current)
    /\ UpsertMessage
    /\ order' = order + 1 + Cardinality(KeyedCalls(Current))
    /\ \A c \in Calls : toolRows'[c] = IF Asks(Current, c) THEN GatheredRow(LastPlace(c))
                                      ELSE toolRows[c]
    /\ DOMAIN toolRows = Calls => DOMAIN toolRows' = Calls

\* The test of each branch is _carries_ordinal's, and a human message asks for nothing.
LEMMA SeedBranches ==
  ASSUME Current \in Message, order \in Nat, SeedHuman \/ SeedAssistant
  PROVE  SeedMessage
<1>1. Current.kind \in {"human", "ai"} => Current.id \in {"plain", "none", "summary"}
  BY DEF Message, Human, Assistant, ToolReply
<1>2. CASE SeedHuman
  <2>1. CarriesOrdinal(Current)
    BY <1>1, <1>2 DEF SeedHuman, HumanSkipped, CarriesOrdinal
  <2>2. KeyedCalls(Current) = {} /\ \A c \in Calls : ~Asks(Current, c)
    BY <1>2 DEF SeedHuman, KeyedCalls, Asks
  <2>3. order' = order + 1 + Cardinality(KeyedCalls(Current))
    BY <1>2, <2>2, FS_EmptySet DEF SeedHuman
  <2> QED
    BY <1>2, <2>1, <2>2, <2>3 DEF SeedHuman, SeedMessage
<1>3. CASE SeedAssistant
  <2>1. CarriesOrdinal(Current)
    BY <1>1, <1>3 DEF SeedAssistant, AssistantSkipped, CarriesOrdinal
  <2> QED
    BY <1>3, <2>1 DEF SeedAssistant, SeedMessage
<1> QED
  BY <1>2, <1>3

LEMMA SkipBranches == SkipMessage => ~CarriesOrdinal(Current) /\ Current.kind # "tool"
BY DEF SkipMessage, HumanSkipped, AssistantSkipped, CarriesOrdinal

\* A step over the current message that leaves the messages alone.
LEMMA ScanStep ==
  ASSUME Inv, Scanning, next' = next + 1, UNCHANGED <<history, messages, state>>,
         ordinal' = ordinal + (IF CarriesOrdinal(Current) THEN 1 ELSE 0),
         order' = order + (IF CarriesOrdinal(Current)
                           THEN 1 + Cardinality(KeyedCalls(Current)) ELSE 0)
  PROVE  Inv'
<1> DEFINE n == next - 1
<1>1. messages \in Seq(Message) /\ Len(messages) \in Nat
  BY LenProperties DEF Inv, Positions, IsSuffix
<1>2. n \in Nat /\ n < Len(messages) /\ n + 1 = next /\ next' - 1 = next
  BY <1>1 DEF Inv, Positions, Scanning
<1>3. Current = messages[n + 1] /\ Current \in Message
  BY <1>1, <1>2, ElementOfSeq DEF Current
<1>4. Cardinality(KeyedCalls(Current)) \in Nat
  BY <1>3, KeyedCallsFinite
<1>5. Cardinality(Slots(messages, n)) \in Nat /\ Cardinality(SeededPlaces(messages, n)) \in Nat
  BY <1>1, <1>2, SlotsFinite, PlacesFinite
<1>6. Cardinality(Slots(messages, next)) =
        Cardinality(Slots(messages, n)) + (IF CarriesOrdinal(Current) THEN 1 ELSE 0)
  BY <1>2, <1>3, SlotsStep
<1>7. Cardinality(SeededPlaces(messages, next)) =
        Cardinality(SeededPlaces(messages, n))
          + (IF CarriesOrdinal(Current) THEN Cardinality(KeyedCalls(Current)) ELSE 0)
  BY <1>1, <1>2, <1>3, SeededPlacesStep
<1>8. /\ ordinal = Cardinality(Slots(messages, n))
      /\ order = ordinal + Cardinality(SeededPlaces(messages, n))
  BY DEF Inv, Counted
<1>9. Positions'
  BY <1>1 DEF Inv, Positions, Scanning, IsSuffix, Dropped
<1>10. /\ ordinal' = Cardinality(Slots(messages, next))
       /\ order' = ordinal' + Cardinality(SeededPlaces(messages, next))
  <2> HIDE DEF n
  <2>1. CASE CarriesOrdinal(Current)
    BY <1>4, <1>5, <1>6, <1>7, <1>8, <2>1
  <2>2. CASE ~CarriesOrdinal(Current)
    BY <1>4, <1>5, <1>6, <1>7, <1>8, <2>2
  <2> QED
    BY <2>1, <2>2
<1>11. Counted'
  <2>1. /\ Slots(messages, next)' = Slots(messages', next')
        /\ messages' = messages
    OBVIOUS
  <2> QED
    BY <1>2, <1>10, <2>1 DEF Counted, Slots, SeededPlaces, CallPlaces
<1> QED
  BY <1>9, <1>11 DEF Inv

\* A step that neither moves the loop nor counts.
LEMMA QuietStep ==
  ASSUME Inv, UNCHANGED <<history, messages, next, ordinal, order>>,
         state' = "scan" => state = "scan",
         state' # "scan" => next = Len(messages) + 1
  PROVE  Inv'
<1>1. Positions'
  BY DEF Inv, Positions, IsSuffix, Dropped
<1>2. Counted'
  BY DEF Inv, Counted, Slots, SeededPlaces, CallPlaces
<1> QED
  BY <1>1, <1>2 DEF Inv

\* Every step of the replay, its death included, keeps the counts.
LEMMA InvStep == Inv /\ [Next]_vars => Inv'
<1> SUFFICES ASSUME Inv, [Next]_vars PROVE Inv'
  OBVIOUS
<1>1. ordinal \in Nat /\ order \in Nat /\ next \in Nat /\ Len(messages) \in Nat
  <2>1. messages \in Seq(Message) /\ Len(messages) \in Nat
    BY LenProperties DEF Inv, Positions, IsSuffix
  <2>2. next - 1 \in 0..Len(messages)
    BY <2>1 DEF Inv, Positions
  <2>3. /\ Cardinality(Slots(messages, next - 1)) \in Nat
        /\ Cardinality(SeededPlaces(messages, next - 1)) \in Nat
    BY <2>1, <2>2, SlotsFinite, PlacesFinite
  <2> QED
    BY <2>1, <2>3 DEF Inv, Counted, Positions
<1>2. CASE SeedHuman \/ SeedAssistant
  <2>1. Scanning /\ Current \in Message
    BY <1>1, <1>2, ElementOfSeq
       DEF SeedHuman, SeedAssistant, Scanning, Current, Inv, Positions, IsSuffix
  <2>2. SeedMessage
    BY <1>1, <1>2, <2>1, SeedBranches
  <2>3. Cardinality(KeyedCalls(Current)) \in Nat
    BY <2>1, KeyedCallsFinite
  <2>4. order' = order + (IF CarriesOrdinal(Current)
                          THEN 1 + Cardinality(KeyedCalls(Current)) ELSE 0)
    BY <1>1, <2>2, <2>3 DEF SeedMessage
  <2> QED
    BY <1>1, <2>1, <2>2, <2>4, ScanStep DEF SeedMessage, UpsertMessage
<1>3. CASE SkipMessage
  BY <1>1, <1>3, SkipBranches, ScanStep DEF SkipMessage
<1>4. CASE AttachReply
  <2>1. ~CarriesOrdinal(Current)
    BY <1>4 DEF AttachReply, CarriesOrdinal
  <2> QED
    BY <1>1, <1>4, <2>1, ScanStep DEF AttachReply
<1>5. CASE EndScan
  <2>1. next = Len(messages) + 1
    BY <1>1, <1>5 DEF EndScan, Inv, Positions
  <2> QED
    BY <1>5, <2>1, QuietStep DEF EndScan
<1>6. CASE UpsertTool \/ Return \/ UNCHANGED vars
  <2>1. /\ UNCHANGED <<history, messages, next, ordinal, order>>
        /\ state' = state \/ (state = "tools" /\ state' = "done")
    BY <1>6 DEF UpsertTool, Return, vars, localVars
  <2>2. state # "scan" => next = Len(messages) + 1
    BY DEF Inv, Positions
  <2> QED
    BY <2>1, <2>2, QuietStep
<1>7. CASE Crash
  <2>1. /\ next' = 1 /\ ordinal' = 0 /\ order' = 0 /\ state' = "scan"
        /\ UNCHANGED <<history, messages>>
    BY <1>7 DEF Crash
  <2>2. Slots(messages, 0) = {} /\ SeededPlaces(messages, 0) = {}
    <3>1. 1..0 = {}
      OBVIOUS
    <3> QED
      BY <3>1 DEF Slots, SeededPlaces, CallPlaces
  <2>3. Cardinality(Slots(messages, 0)) = 0 /\ Cardinality(SeededPlaces(messages, 0)) = 0
    BY <2>2, FS_EmptySet
  <2>4. Positions'
    BY <1>1, <2>1 DEF Inv, Positions, IsSuffix, Dropped
  <2>5. Counted'
    BY <2>1, <2>3 DEF Counted, Slots, SeededPlaces, CallPlaces
  <2> QED
    BY <2>4, <2>5 DEF Inv
<1> QED
  BY <1>2, <1>3, <1>4, <1>5, <1>6, <1>7 DEF Next

-----------------------------------------------------------------------------
(* The theorems.                                                           *)

\* At every point of a replay, first attempt or rerun, its counters are what the
\* messages passed so far define.
THEOREM CountersFollowMessages == Spec => []Inv
  BY InvInit, InvStep, PTL DEF Spec

\* The ordinal a replay returns is the one the live run is seeded with.
THEOREM OrdinalsAgree == Spec => []OrdinalsMeet
<1>1. Inv => OrdinalsMeet
  <2> SUFFICES ASSUME Inv, state = "done" PROVE ordinal = NextLiveOrdinal(messages)
    BY DEF OrdinalsMeet
  <2>1. Len(messages) \in Nat
    BY LenProperties DEF Inv, Positions, IsSuffix
  <2>2. next - 1 = Len(messages)
    BY <2>1 DEF Inv, Positions
  <2> QED
    BY <2>2 DEF Inv, Counted, NextLiveOrdinal
<1> QED
  BY <1>1, CountersFollowMessages, PTL

\* No order a replay stamps reaches the order a live run starts at, whichever of
\* the window and the whole history that run is seeded from.
THEOREM SeedIsPastReplay == Spec => []OrderStaysBelowSeed
<1>1. Inv => OrderStaysBelowSeed
  <2> SUFFICES ASSUME Inv PROVE OrderStaysBelowSeed
    OBVIOUS
  <2> DEFINE n == next - 1
  <2>1. /\ messages \in Seq(Message) /\ Len(messages) \in Nat
        /\ history \in Seq(Message) /\ Len(history) \in Nat
    BY LenProperties DEF Inv, Positions, IsSuffix
  <2>2. n \in 0..Len(messages)
    BY <2>1 DEF Inv, Positions
  <2>3. Slots(messages, n) \in SUBSET Slots(messages, Len(messages))
    BY <2>1, <2>2 DEF Slots
  <2>4. SeededPlaces(messages, n) \in SUBSET CallPlaces(messages, Len(messages))
    BY <2>1, <2>2 DEF SeededPlaces, CallPlaces
  <2>5. Cardinality(Slots(messages, n)) <= NextLiveOrdinal(messages)
    BY <2>1, <2>3, SlotsFinite, FS_Subset DEF NextLiveOrdinal
  <2>6. IsFiniteSet(CallPlaces(messages, Len(messages)))
    BY <2>1, PlacesFinite
  <2>7. Cardinality(SeededPlaces(messages, n)) <=
          Cardinality(CallPlaces(messages, Len(messages)))
    BY <2>4, <2>6, FS_Subset
  <2>8. /\ Cardinality(Slots(messages, n)) \in Nat
        /\ NextLiveOrdinal(messages) \in Nat /\ NextLiveOrdinal(history) \in Nat
    BY <2>1, <2>2, SlotsFinite DEF NextLiveOrdinal
  <2>9. /\ Cardinality(SeededPlaces(messages, n)) \in Nat
        /\ Cardinality(CallPlaces(messages, Len(messages))) \in Nat
        /\ Cardinality(CallPlaces(history, Len(history))) \in Nat
    BY <2>1, <2>2, PlacesFinite
  <2>10. order = Cardinality(Slots(messages, n)) + Cardinality(SeededPlaces(messages, n))
    BY DEF Inv, Counted
  <2> HIDE DEF n
  <2>11. order <= NextLiveOrder(messages)
    BY <2>5, <2>7, <2>8, <2>9, <2>10 DEF NextLiveOrder
  <2>12. NextLiveOrder(messages) <= NextLiveOrder(history)
    BY SuffixOrder DEF Inv, Positions
  <2>13. /\ order \in Nat
         /\ NextLiveOrder(messages) \in Nat /\ NextLiveOrder(history) \in Nat
    BY <2>8, <2>9, <2>10 DEF NextLiveOrder
  <2> QED
    BY <2>11, <2>12, <2>13 DEF OrderStaysBelowSeed
<1> QED
  BY <1>1, CountersFollowMessages, PTL

\* The order a replay counts up to falls short of next_live_order of the same messages
\* by the calls asked for on messages without a slot and by nothing else: where every
\* assistant message can be keyed, the two counts are one number.
GapIsSkippedCalls ==
    state = "done" =>
        LET asked == CallPlaces(messages, Len(messages)) IN
        order + Cardinality(asked \ SeededPlaces(messages, Len(messages)))
            = NextLiveOrder(messages)

\* What is left of OrdersMeet: the gap is the calls on messages that the replay skips
\* (the branch tests of replay_history, against next_live_order).
THEOREM GapIsExact == Spec => []GapIsSkippedCalls
<1>1. Inv => GapIsSkippedCalls
  <2> DEFINE n == Len(messages)
             asked == CallPlaces(messages, n)
             seeded == SeededPlaces(messages, n)
  <2> SUFFICES ASSUME Inv, state = "done"
               PROVE  order + Cardinality(asked \ seeded) = NextLiveOrder(messages)
    BY DEF GapIsSkippedCalls
  <2>1. messages \in Seq(Message) /\ n \in Nat
    BY LenProperties DEF Inv, Positions, IsSuffix
  <2>2. next - 1 = n
    BY <2>1 DEF Inv, Positions
  <2>3. order = Cardinality(Slots(messages, n)) + Cardinality(seeded)
    BY <2>2 DEF Inv, Counted
  <2>4. IsFiniteSet(asked) /\ Cardinality(asked) \in Nat /\ Cardinality(seeded) \in Nat
    BY <2>1, PlacesFinite
  <2>5. asked \cap seeded = seeded
    BY DEF SeededPlaces
  <2>6. Cardinality(asked \ seeded) = Cardinality(asked) - Cardinality(seeded)
    BY <2>4, <2>5, FS_Difference
  <2>7. Cardinality(Slots(messages, n)) \in Nat
    BY <2>1, SlotsFinite
  <2>8. NextLiveOrder(messages) = Cardinality(Slots(messages, n)) + Cardinality(asked)
    BY DEF NextLiveOrder, NextLiveOrdinal
  <2> HIDE DEF n, asked, seeded
  <2> QED
    BY <2>3, <2>4, <2>6, <2>7, <2>8
<1> QED
  BY <1>1, CountersFollowMessages, PTL

-----------------------------------------------------------------------------
(* The rows a prefix of the messages defines.                              *)

PlacesTo(ms, c, n) == {p \in SeededPlaces(ms, n) : ms[p[1]].calls[p[2]] = c}

IsLast(p, S) ==
    p \in S /\ \A q \in S : q[1] < p[1] \/ (q[1] = p[1] /\ q[2] <= p[2])

OrderOf(ms, i) == Cardinality(Slots(ms, i - 1)) + Cardinality(SeededPlaces(ms, i - 1))

RowTo(ms, c, p, n) ==
    [order   |-> OrderOf(ms, p[1]) + 1 + Cardinality(KeyedBefore(ms[p[1]], p[2])),
     reply   |-> Latest(RepliesAfter(ms, c, p[1], n)),
     isError |-> \E i \in RepliesAfter(ms, c, p[1], n) : ms[i].error]

\* What the loop should hold for a call once n messages are passed.
Gathered(ms, c, n, row) ==
    IF PlacesTo(ms, c, n) = {} THEN row = None
    ELSE \E p : IsLast(p, PlacesTo(ms, c, n)) /\ row = RowTo(ms, c, p, n)

LEMMA RowIsNotNone ==
  \A ms, c, p, n : RowTo(ms, c, p, n) # None
BY DEF RowTo, None

\* A seeded call stands at a place of an assistant message of the prefix.
LEMMA PlaceFacts ==
  ASSUME NEW ms \in Seq(Message), NEW n \in 0..Len(ms), NEW p \in SeededPlaces(ms, n)
  PROVE  /\ p = <<p[1], p[2]>> /\ p[1] \in 1..n
         /\ p[2] \in KeyedCalls(ms[p[1]]) /\ p[2] \in Nat
         /\ CarriesOrdinal(ms[p[1]])
<1>1. /\ p = <<p[1], p[2]>> /\ p[1] \in 1..n
      /\ p[2] \in KeyedCalls(ms[p[1]]) /\ CarriesOrdinal(ms[p[1]])
  BY DEF SeededPlaces, CallPlaces
<1>2. ms[p[1]] \in Message
  BY <1>1, ElementOfSeq
<1>3. \A m \in Message : KeyedCalls(m) \subseteq Nat
  <2> SUFFICES ASSUME NEW m \in Message, m.kind = "ai" PROVE KeyedCalls(m) \subseteq Nat
    BY DEF KeyedCalls
  <2>1. m.calls \in Seq(Calls \cup {NoId})
    BY DEF Message, Human, ToolReply, Assistant
  <2> QED
    BY <2>1, LenProperties DEF KeyedCalls
<1> QED
  BY <1>1, <1>2, <1>3

\* The last place is one place.
LEMMA LastIsUnique ==
  ASSUME NEW ms \in Seq(Message), NEW n \in 0..Len(ms), NEW c,
         NEW p, NEW q, IsLast(p, PlacesTo(ms, c, n)), IsLast(q, PlacesTo(ms, c, n))
  PROVE  p = q
<1>1. p \in SeededPlaces(ms, n) /\ q \in SeededPlaces(ms, n)
  BY DEF IsLast, PlacesTo
<1>2. /\ p = <<p[1], p[2]>> /\ p[1] \in Nat /\ p[2] \in Nat
      /\ q = <<q[1], q[2]>> /\ q[1] \in Nat /\ q[2] \in Nat
  BY <1>1, PlaceFacts
<1>3. p[1] = q[1] /\ p[2] = q[2]
  BY <1>2 DEF IsLast
<1> QED
  BY <1>2, <1>3

\* A reply that follows all others is the latest.
LEMMA LatestIsNew ==
  ASSUME NEW S \in SUBSET Int, NEW i \in Int, \A j \in S : j < i
  PROVE  Latest(S \cup {i}) = i
<1> DEFINE T == S \cup {i}
<1>1. i \in T /\ (\A j \in T : j <= i)
  OBVIOUS
<1>2. \A x \in T : (\A j \in T : j <= x) => x = i
  OBVIOUS
<1> HIDE DEF T
<1>3. (CHOOSE x \in T : \A j \in T : j <= x) = i
  BY <1>1, <1>2
<1> QED
  BY <1>1, <1>3 DEF Latest, T

\* Once every message is passed, the row gathered for a call is its row.
LEMMA GatheredIsRow ==
  ASSUME NEW c, NEW row, messages \in Seq(Message),
         Gathered(messages, c, Len(messages), row)
  PROVE  row = ToolRowOf(c)
<1> DEFINE n == Len(messages)
           S == PlacesTo(messages, c, n)
           last == LastOf(PlacesOf(c))
<1>1. S = PlacesOf(c)
  BY DEF PlacesTo, PlacesOf
<1>2. CASE S = {}
  BY <1>1, <1>2 DEF Gathered, ToolRowOf
<1>3. CASE S # {}
  <2>1. PICK p : IsLast(p, S) /\ row = RowTo(messages, c, p, n)
    BY <1>3 DEF Gathered
  <2>2. IsLast(last, S)
    BY <1>1, <2>1 DEF IsLast, LastOf
  <2>3. n \in 0..Len(messages)
    BY LenProperties
  <2>4. p = last
    BY <2>1, <2>2, <2>3, LastIsUnique
  <2>5. last \in SeededPlaces(messages, n)
    BY <2>2 DEF IsLast, PlacesTo
  <2>6. CarriesOrdinal(messages[last[1]])
    BY <2>3, <2>5, PlaceFacts
  <2>7. MessageRowOf(last[1]).order = OrderOf(messages, last[1])
    BY <2>6 DEF MessageRowOf, OrderOf
  <2>8. PlacesOf(c) # {}
    BY <1>1, <1>3
  <2>9. ToolRowOf(c) = RowTo(messages, c, last, n)
    BY <2>7, <2>8, Zenon DEF ToolRowOf, RowTo
  <2> QED
    BY <2>1, <2>4, <2>9
<1> QED
  BY <1>2, <1>3

-----------------------------------------------------------------------------
(* What one message adds.                                                  *)

\* A message without a slot adds no place; one with a slot adds those it asks at.
LEMMA PlacesToStep ==
  ASSUME NEW ms \in Seq(Message), NEW n \in Nat, n < Len(ms), NEW c
  PROVE  /\ CarriesOrdinal(ms[n + 1]) =>
              PlacesTo(ms, c, n + 1) =
                PlacesTo(ms, c, n) \cup
                  ({n + 1} \X {k \in KeyedCalls(ms[n + 1]) : ms[n + 1].calls[k] = c})
         /\ ~CarriesOrdinal(ms[n + 1]) => PlacesTo(ms, c, n + 1) = PlacesTo(ms, c, n)
<1> DEFINE New == {n + 1} \X KeyedCalls(ms[n + 1])
<1>1. CallPlaces(ms, n + 1) = CallPlaces(ms, n) \cup New
  <2>1. 1..(n + 1) = (1..n) \cup {n + 1}
    OBVIOUS
  <2> QED
    BY <2>1 DEF CallPlaces
<1>2. \A p \in New : p = <<n + 1, p[2]>> /\ p[1] = n + 1 /\ p[2] \in KeyedCalls(ms[n + 1])
  OBVIOUS
<1> HIDE DEF New
<1>3. CASE CarriesOrdinal(ms[n + 1])
  <2>1. SeededPlaces(ms, n + 1) = SeededPlaces(ms, n) \cup New
    BY <1>1, <1>2, <1>3 DEF SeededPlaces
  <2>2. {p \in New : ms[p[1]].calls[p[2]] = c} =
          {n + 1} \X {k \in KeyedCalls(ms[n + 1]) : ms[n + 1].calls[k] = c}
    BY DEF New
  <2>3. PlacesTo(ms, c, n + 1) =
          PlacesTo(ms, c, n) \cup {p \in New : ms[p[1]].calls[p[2]] = c}
    BY <2>1 DEF PlacesTo
  <2> QED
    BY <1>3, <2>2, <2>3
<1>4. CASE ~CarriesOrdinal(ms[n + 1])
  <2>1. SeededPlaces(ms, n + 1) = SeededPlaces(ms, n)
    BY <1>1, <1>2, <1>4 DEF SeededPlaces
  <2> QED
    BY <1>4, <2>1 DEF PlacesTo
<1> QED
  BY <1>3, <1>4

\* A message that neither asks for the call nor answers it leaves its row as it is.
LEMMA GatheredStays ==
  ASSUME NEW ms \in Seq(Message), NEW n \in Nat, n < Len(ms), NEW c, NEW row,
         Gathered(ms, c, n, row),
         CarriesOrdinal(ms[n + 1]) => ~Asks(ms[n + 1], c),
         ms[n + 1].kind = "tool" => ms[n + 1].call # c
  PROVE  Gathered(ms, c, n + 1, row)
<1>1. PlacesTo(ms, c, n + 1) = PlacesTo(ms, c, n)
  <2>1. CarriesOrdinal(ms[n + 1]) =>
          {k \in KeyedCalls(ms[n + 1]) : ms[n + 1].calls[k] = c} = {}
    BY DEF Asks
  <2>2. CASE CarriesOrdinal(ms[n + 1])
    <3>1. {n + 1} \X {k \in KeyedCalls(ms[n + 1]) : ms[n + 1].calls[k] = c} = {}
      BY <2>1, <2>2
    <3> DEFINE New == {n + 1} \X {k \in KeyedCalls(ms[n + 1]) : ms[n + 1].calls[k] = c}
    <3>2. PlacesTo(ms, c, n + 1) = PlacesTo(ms, c, n) \cup New
      BY <2>2, PlacesToStep
    <3> HIDE DEF New
    <3> QED
      BY <3>1, <3>2 DEF New
  <2>3. CASE ~CarriesOrdinal(ms[n + 1])
    BY <2>3, PlacesToStep
  <2> QED
    BY <2>2, <2>3
<1>2. ASSUME NEW p \in PlacesTo(ms, c, n)
      PROVE  RowTo(ms, c, p, n + 1) = RowTo(ms, c, p, n)
  <2>1. p \in SeededPlaces(ms, n) /\ n \in 0..Len(ms)
    BY <1>2, LenProperties DEF PlacesTo
  <2>2. p[1] \in 1..n
    BY <2>1, PlaceFacts
  <2>3. (p[1] + 1)..(n + 1) = ((p[1] + 1)..n) \cup {n + 1}
    BY <2>2
  <2>4. RepliesAfter(ms, c, p[1], n + 1) = RepliesAfter(ms, c, p[1], n)
    BY <2>3 DEF RepliesAfter
  <2> QED
    BY <2>4 DEF RowTo
<1> QED
  BY <1>1, <1>2 DEF Gathered, IsLast

\* A message that asks for the call starts its row again.
LEMMA GatheredAsked ==
  ASSUME NEW ms \in Seq(Message), NEW n \in Nat, n < Len(ms), NEW c,
         CarriesOrdinal(ms[n + 1]), NEW k \in KeyedCalls(ms[n + 1]),
         ms[n + 1].calls[k] = c,
         \A j \in KeyedCalls(ms[n + 1]) : ms[n + 1].calls[j] = c => j <= k
  PROVE  Gathered(ms, c, n + 1,
           [order |-> OrderOf(ms, n + 1) + 1 + Cardinality(KeyedBefore(ms[n + 1], k)),
            reply |-> 0, isError |-> FALSE])
<1> DEFINE p == <<n + 1, k>>
           New == {n + 1} \X {j \in KeyedCalls(ms[n + 1]) : ms[n + 1].calls[j] = c}
<1>1. PlacesTo(ms, c, n + 1) = PlacesTo(ms, c, n) \cup New
  BY PlacesToStep
<1>2. p \in New
  OBVIOUS
<1>3. \A q \in PlacesTo(ms, c, n) : q[1] < n + 1
  <2> TAKE q \in PlacesTo(ms, c, n)
  <2>1. q \in SeededPlaces(ms, n) /\ n \in 0..Len(ms)
    BY LenProperties DEF PlacesTo
  <2> QED
    BY <2>1, PlaceFacts
<1>4. \A q \in New : q[1] = n + 1 /\ q[2] <= k
  OBVIOUS
<1>5. p[1] = n + 1 /\ p[2] = k
  OBVIOUS
<1>6. IsLast(p, PlacesTo(ms, c, n + 1))
  <2> HIDE DEF p, New
  <2> QED
    BY <1>1, <1>2, <1>3, <1>4, <1>5 DEF IsLast
<1>7. RepliesAfter(ms, c, n + 1, n + 1) = {}
  <2>1. (n + 1 + 1)..(n + 1) = {}
    OBVIOUS
  <2> QED
    BY <2>1 DEF RepliesAfter
<1>8. RowTo(ms, c, p, n + 1) =
        [order |-> OrderOf(ms, n + 1) + 1 + Cardinality(KeyedBefore(ms[n + 1], k)),
         reply |-> 0, isError |-> FALSE]
  BY <1>7 DEF RowTo, Latest
<1>9. PlacesTo(ms, c, n + 1) # {}
  BY <1>6 DEF IsLast
<1> QED
  BY <1>6, <1>8, <1>9 DEF Gathered

\* A reply to the call becomes the latest one of its row.
LEMMA GatheredAnswered ==
  ASSUME NEW ms \in Seq(Message), NEW n \in Nat, n < Len(ms), NEW c, NEW row,
         Gathered(ms, c, n, row), row # None,
         ms[n + 1].kind = "tool", ms[n + 1].call = c
  PROVE  Gathered(ms, c, n + 1,
           [order |-> row.order, reply |-> n + 1, isError |-> row.isError \/ ms[n + 1].error])
<1>1. PlacesTo(ms, c, n + 1) = PlacesTo(ms, c, n)
  <2>1. ~CarriesOrdinal(ms[n + 1])
    BY DEF CarriesOrdinal
  <2> QED
    BY <2>1, PlacesToStep
<1>2. PICK p : IsLast(p, PlacesTo(ms, c, n)) /\ row = RowTo(ms, c, p, n)
  BY DEF Gathered
<1>3. p \in SeededPlaces(ms, n) /\ n \in 0..Len(ms)
  BY <1>2, LenProperties DEF PlacesTo, IsLast
<1>4. p[1] \in 1..n
  BY <1>3, PlaceFacts
<1> DEFINE Old == RepliesAfter(ms, c, p[1], n)
<1>5. RepliesAfter(ms, c, p[1], n + 1) = Old \cup {n + 1}
  <2>1. (p[1] + 1)..(n + 1) = ((p[1] + 1)..n) \cup {n + 1}
    BY <1>4
  <2> QED
    BY <2>1 DEF RepliesAfter
<1>6. Old \in SUBSET Int /\ (\A j \in Old : j < n + 1) /\ n + 1 \in Int
  BY <1>4 DEF RepliesAfter
<1>7. Latest(RepliesAfter(ms, c, p[1], n + 1)) = n + 1
  <2> HIDE DEF Old
  <2>1. Latest(Old \cup {n + 1}) = n + 1
    BY <1>6, LatestIsNew
  <2> QED
    BY <1>5, <2>1
<1>8. (\E i \in RepliesAfter(ms, c, p[1], n + 1) : ms[i].error) <=>
        (\E i \in Old : ms[i].error) \/ ms[n + 1].error
  BY <1>5
<1>9. ms[n + 1].error \in BOOLEAN
  BY ElementOfSeq DEF Message, Human, Assistant, ToolReply
<1>10. RowTo(ms, c, p, n + 1) =
         [order |-> row.order, reply |-> n + 1, isError |-> row.isError \/ ms[n + 1].error]
  BY <1>2, <1>7, <1>8, <1>9 DEF RowTo
<1> QED
  BY <1>1, <1>2, <1>10 DEF Gathered, IsLast

-----------------------------------------------------------------------------
(* The invariant: what is gathered, and what is on the stream already.     *)

Shapes ==
    /\ DOMAIN toolRows = Calls /\ DOMAIN toolRow = Calls
    /\ DOMAIN messageRow = DOMAIN messages
    /\ state \in {"scan", "tools", "done"}
    /\ crashes \in 0..MaxCrashes
    /\ unwritten \subseteq {c \in Calls : toolRows[c] # None}
    /\ state # "tools" => unwritten = {}

RowsGathered ==
    \A c \in Calls : Gathered(messages, c, next - 1, toolRows[c])

MessagesWritten ==
    \A i \in DOMAIN messages :
        /\ messageRow[i] \in {None, MessageRowOf(i)}
        /\ i < next => messageRow[i] = MessageRowOf(i)

CallsWritten ==
    \A c \in Calls :
        /\ toolRow[c] \in {None, ToolRowOf(c)}
        /\ state # "scan" /\ c \notin unwritten => toolRow[c] = ToolRowOf(c)

RowsInv == Inv /\ Shapes /\ RowsGathered /\ MessagesWritten /\ CallsWritten

\* The rows a history defines do not change while it is replayed.
LEMMA RowsAreFixed ==
  ASSUME messages' = messages
  PROVE  /\ \A i : MessageRowOf(i)' = MessageRowOf(i)
         /\ \A c : ToolRowOf(c)' = ToolRowOf(c)
<1>1. \A i : MessageRowOf(i)' = MessageRowOf(i)
  BY DEF MessageRowOf, Slots, SeededPlaces, CallPlaces
<1>2. \A c : PlacesOf(c)' = PlacesOf(c)
  BY DEF PlacesOf, SeededPlaces, CallPlaces
<1> QED
  BY <1>1, <1>2 DEF ToolRowOf

LEMMA NumbersOf ==
  ASSUME Inv
  PROVE  /\ messages \in Seq(Message) /\ Len(messages) \in Nat
         /\ DOMAIN messages = 1..Len(messages)
         /\ next \in 1..(Len(messages) + 1)
         /\ ordinal = Cardinality(Slots(messages, next - 1))
         /\ order = OrderOf(messages, next)
         /\ ordinal \in Nat /\ order \in Nat
<1>1. /\ messages \in Seq(Message) /\ Len(messages) \in Nat
      /\ DOMAIN messages = 1..Len(messages) /\ next \in 1..(Len(messages) + 1)
  BY LenProperties DEF Inv, Positions, IsSuffix
<1>2. next - 1 \in 0..Len(messages)
  BY <1>1
<1>3. /\ Cardinality(Slots(messages, next - 1)) \in Nat
      /\ Cardinality(SeededPlaces(messages, next - 1)) \in Nat
  BY <1>1, <1>2, SlotsFinite, PlacesFinite
<1> QED
  BY <1>1, <1>3 DEF Inv, Counted, OrderOf

\* A call the current message asks for has a last place on it.
LEMMA LastPlaceFacts ==
  ASSUME NEW c, Current \in Message, Asks(Current, c)
  PROVE  /\ LastPlace(c) \in KeyedCalls(Current)
         /\ Current.calls[LastPlace(c)] = c
         /\ \A j \in KeyedCalls(Current) : Current.calls[j] = c => j <= LastPlace(c)
<1> DEFINE K == {k \in KeyedCalls(Current) : Current.calls[k] = c}
<1>1. K # {}
  BY DEF Asks
<1>2. K \in SUBSET KeyedCalls(Current) /\ IsFiniteSet(K)
  BY KeyedCallsFinite, FS_Subset
<1>3. KeyedCalls(Current) \subseteq Int
  <2> SUFFICES ASSUME Current.kind = "ai" PROVE KeyedCalls(Current) \subseteq Int
    BY DEF KeyedCalls
  <2>1. Current.calls \in Seq(Calls \cup {NoId})
    BY DEF Message, Human, ToolReply, Assistant
  <2> QED
    BY <2>1, LenProperties DEF KeyedCalls
<1>4. PICK k \in K : \A j \in K : k >= j
  <2> HIDE DEF K
  <2> QED
    BY <1>1, <1>2, <1>3, GreatestExists
<1>5. /\ k \in KeyedCalls(Current) /\ Current.calls[k] = c
      /\ \A j \in KeyedCalls(Current) : Current.calls[j] = c => j <= k
  BY <1>3, <1>4
<1> QED
  BY <1>5, Zenon DEF LastPlace

\* Nothing is gathered, and no row is on the stream, before the first message.
LEMMA NothingGathered ==
  ASSUME NEW ms, NEW c
  PROVE  Gathered(ms, c, 0, None)
<1>1. 1..0 = {}
  OBVIOUS
<1>2. PlacesTo(ms, c, 0) = {}
  BY <1>1 DEF PlacesTo, SeededPlaces, CallPlaces
<1> QED
  BY <1>2 DEF Gathered

LEMMA RowsInit == Init => RowsInv
<1> SUFFICES ASSUME Init PROVE RowsInv
  OBVIOUS
<1>1. Inv
  BY InvInit
<1>2. Shapes
  BY CrashAssumption DEF Init, Shapes
<1>3. RowsGathered
  BY NothingGathered DEF Init, RowsGathered
<1>4. MessagesWritten
  BY <1>1, NumbersOf DEF Init, MessagesWritten
<1>5. CallsWritten
  BY DEF Init, CallsWritten
<1> QED
  BY <1>1, <1>2, <1>3, <1>4, <1>5 DEF RowsInv

-----------------------------------------------------------------------------
(* Every step keeps it.                                                    *)

\* The message the loop stands at.
LEMMA AtCurrent ==
  ASSUME Inv, Scanning
  PROVE  /\ next - 1 \in Nat /\ next - 1 < Len(messages) /\ (next - 1) + 1 = next
         /\ Current = messages[next] /\ Current \in Message
         /\ next \in DOMAIN messages
<1>1. /\ messages \in Seq(Message) /\ Len(messages) \in Nat
      /\ DOMAIN messages = 1..Len(messages) /\ next \in 1..(Len(messages) + 1)
  BY NumbersOf
<1>2. next \in 1..Len(messages)
  BY <1>1 DEF Scanning
<1> QED
  BY <1>1, <1>2, ElementOfSeq DEF Current

\* A message that takes no row leaves what is on the stream as it is.
LEMMA PassedOver ==
  ASSUME RowsInv, Scanning, ~CarriesOrdinal(Current), next' = next + 1,
         UNCHANGED <<messages, messageRow>>
  PROVE  MessagesWritten'
<1> USE DEF MessagesWritten
<1>1. /\ next \in DOMAIN messages /\ DOMAIN messages = 1..Len(messages)
      /\ Len(messages) \in Nat
  BY AtCurrent, NumbersOf DEF RowsInv
<1>2. MessageRowOf(next) = None
  BY DEF MessageRowOf, Current
<1>3. \A i \in DOMAIN messages : i < next + 1 => i < next \/ i = next
  BY <1>1
<1>4. \A i \in DOMAIN messages :
        /\ messageRow[i] \in {None, MessageRowOf(i)}
        /\ i < next + 1 => messageRow[i] = MessageRowOf(i)
  BY <1>1, <1>2, <1>3 DEF RowsInv
<1> QED
  BY <1>4, RowsAreFixed

\* What is on the stream for the calls, and the shapes, are not the loop's business.
LEMMA ScanKeepsCalls ==
  ASSUME RowsInv, Scanning, UNCHANGED <<messages, toolRow, unwritten, state, crashes>>,
         DOMAIN toolRows' = Calls, DOMAIN messageRow' = DOMAIN messages
  PROVE  Shapes' /\ CallsWritten'
<1>1. state = "scan" /\ unwritten = {}
  BY DEF RowsInv, Shapes, Scanning
<1>2. Shapes'
  BY <1>1 DEF RowsInv, Shapes
<1>3. CallsWritten'
  BY <1>1, RowsAreFixed DEF RowsInv, CallsWritten
<1> QED
  BY <1>2, <1>3

LEMMA SeedKeepsRows ==
  ASSUME RowsInv, SeedMessage
  PROVE  Shapes' /\ RowsGathered' /\ MessagesWritten' /\ CallsWritten'
<1> DEFINE n == next - 1
<1>1. Scanning /\ CarriesOrdinal(Current) /\ next' = next + 1 /\ UNCHANGED messages
  BY DEF SeedMessage, UpsertMessage
<1>2. /\ n \in Nat /\ n < Len(messages) /\ n + 1 = next /\ next' - 1 = next
      /\ Current = messages[n + 1] /\ Current \in Message /\ next \in DOMAIN messages
      /\ messages \in Seq(Message)
  BY <1>1, AtCurrent, NumbersOf DEF RowsInv
<1>3. order = OrderOf(messages, next) /\ ordinal = Cardinality(Slots(messages, next - 1))
  BY NumbersOf DEF RowsInv
<1>4. ASSUME NEW c \in Calls
      PROVE  Gathered(messages, c, next, toolRows'[c])
  <2>1. Gathered(messages, c, n, toolRows[c])
    BY DEF RowsInv, RowsGathered
  <2>2. CASE Asks(Current, c)
    <3> DEFINE k == LastPlace(c)
    <3>1. toolRows'[c] =
            [order |-> order + 1 + Cardinality(KeyedBefore(Current, k)),
             reply |-> 0, isError |-> FALSE]
      BY <2>2 DEF SeedMessage, GatheredRow
    <3>2. /\ k \in KeyedCalls(Current) /\ Current.calls[k] = c
          /\ \A j \in KeyedCalls(Current) : Current.calls[j] = c => j <= k
      BY <1>2, <2>2, LastPlaceFacts
    <3> HIDE DEF k, n
    <3>3. Gathered(messages, c, n + 1,
            [order |-> OrderOf(messages, n + 1) + 1
                         + Cardinality(KeyedBefore(messages[n + 1], k)),
             reply |-> 0, isError |-> FALSE])
      BY <1>1, <1>2, <3>2, GatheredAsked
    <3> QED
      BY <1>2, <1>3, <3>1, <3>3
  <2>3. CASE ~Asks(Current, c)
    <3>1. toolRows'[c] = toolRows[c]
      BY <2>3 DEF SeedMessage
    <3>2. Current.kind # "tool"
      BY <1>1 DEF CarriesOrdinal
    <3> HIDE DEF n
    <3>3. Gathered(messages, c, n + 1, toolRows[c])
      BY <1>2, <2>1, <2>3, <3>2, GatheredStays
    <3> QED
      BY <1>2, <3>1, <3>3
  <2> QED
    BY <2>2, <2>3
<1>5. RowsGathered'
  BY <1>1, <1>2, <1>4 DEF RowsGathered
<1>6. MessagesWritten'
  <2> DEFINE row == [ordinal |-> ordinal, order |-> order]
  <2>1. MessageRowOf(next) = row
    BY <1>1, <1>2, <1>3 DEF MessageRowOf, OrderOf
  <2>2. /\ messageRow' = [messageRow EXCEPT ![next] = row]
        /\ DOMAIN messageRow = DOMAIN messages
    BY DEF SeedMessage, UpsertMessage, RowsInv, Shapes
  <2> HIDE DEF row
  <2>3. DOMAIN messages = 1..Len(messages) /\ Len(messages) \in Nat
    BY NumbersOf DEF RowsInv
  <2>4. ASSUME NEW i \in DOMAIN messages
        PROVE  /\ messageRow'[i] \in {None, MessageRowOf(i)}
               /\ i < next + 1 => messageRow'[i] = MessageRowOf(i)
    <3>1. CASE i = next
      BY <2>1, <2>2, <3>1
    <3>2. CASE i # next
      <4>1. messageRow'[i] = messageRow[i]
        BY <2>2, <3>2
      <4>2. i < next + 1 => i < next
        BY <1>2, <2>3, <3>2
      <4> QED
        BY <4>1, <4>2 DEF RowsInv, MessagesWritten
    <3> QED
      BY <3>1, <3>2
  <2> QED
    BY <1>1, <2>4, RowsAreFixed DEF MessagesWritten
<1>7. Shapes' /\ CallsWritten'
  <2>1. DOMAIN toolRows' = Calls /\ DOMAIN messageRow' = DOMAIN messages
    BY DEF SeedMessage, UpsertMessage, RowsInv, Shapes
  <2> QED
    BY <1>1, <2>1, ScanKeepsCalls DEF SeedMessage, UpsertMessage
<1> QED
  BY <1>5, <1>6, <1>7

LEMMA SkipKeepsRows ==
  ASSUME RowsInv, SkipMessage
  PROVE  Shapes' /\ RowsGathered' /\ MessagesWritten' /\ CallsWritten'
<1> DEFINE n == next - 1
<1>1. /\ Scanning /\ ~CarriesOrdinal(Current) /\ next' = next + 1
      /\ UNCHANGED <<messages, toolRows, toolRow, messageRow, unwritten, state, crashes>>
  BY SkipBranches DEF SkipMessage, streamVars
<1>2. /\ n \in Nat /\ n < Len(messages) /\ n + 1 = next /\ next' - 1 = next
      /\ Current = messages[n + 1] /\ messages \in Seq(Message)
  BY <1>1, AtCurrent, NumbersOf DEF RowsInv
<1>3. ASSUME NEW c \in Calls
      PROVE  Gathered(messages, c, next, toolRows[c])
  <2>1. Gathered(messages, c, n, toolRows[c])
    BY DEF RowsInv, RowsGathered
  <2>2. Current.kind # "tool"
    BY SkipBranches
  <2> HIDE DEF n
  <2>3. Gathered(messages, c, n + 1, toolRows[c])
    BY <1>1, <1>2, <2>1, <2>2, GatheredStays
  <2> QED
    BY <1>2, <2>3
<1>4. RowsGathered'
  BY <1>1, <1>2, <1>3 DEF RowsGathered
<1>5. Shapes' /\ CallsWritten'
  BY <1>1, ScanKeepsCalls DEF RowsInv, Shapes
<1> QED
  BY <1>1, <1>4, <1>5, PassedOver

LEMMA ReplyKeepsRows ==
  ASSUME RowsInv, AttachReply
  PROVE  Shapes' /\ RowsGathered' /\ MessagesWritten' /\ CallsWritten'
<1> DEFINE n == next - 1
           a == Current.call
<1>1. /\ Scanning /\ ~CarriesOrdinal(Current) /\ next' = next + 1
      /\ UNCHANGED <<messages, toolRow, messageRow, unwritten, state, crashes>>
  BY DEF AttachReply, streamVars, CarriesOrdinal
<1>2. /\ n \in Nat /\ n < Len(messages) /\ n + 1 = next /\ next' - 1 = next
      /\ Current = messages[n + 1] /\ messages \in Seq(Message) /\ Current \in Message
  BY <1>1, AtCurrent, NumbersOf DEF RowsInv
<1>3. Current.kind = "tool" /\ a \in Calls
  BY <1>2 DEF AttachReply, Message, Human, Assistant, ToolReply
<1>4. ASSUME NEW c \in Calls
      PROVE  Gathered(messages, c, next, toolRows'[c])
  <2>1. Gathered(messages, c, n, toolRows[c])
    BY DEF RowsInv, RowsGathered
  <2>2. CASE c = a /\ toolRows[c] # None
    <3>1. toolRows'[c] =
            [order |-> toolRows[c].order, reply |-> n + 1,
             isError |-> toolRows[c].isError \/ messages[n + 1].error]
      BY <1>2, <2>2 DEF AttachReply, RowsInv, Shapes
    <3> HIDE DEF n
    <3>2. Gathered(messages, c, n + 1,
            [order |-> toolRows[c].order, reply |-> n + 1,
             isError |-> toolRows[c].isError \/ messages[n + 1].error])
      BY <1>2, <1>3, <2>1, <2>2, GatheredAnswered
    <3> QED
      BY <1>2, <3>1, <3>2
  <2>3. CASE c = a /\ toolRows[c] = None
    <3>1. toolRows'[c] = None
      BY <2>3 DEF AttachReply
    <3>2. PlacesTo(messages, c, n) = {}
      BY <2>1, <2>3, RowIsNotNone DEF Gathered
    <3> HIDE DEF n
    <3>3. PlacesTo(messages, c, n + 1) = {}
      BY <1>1, <1>2, <3>2, PlacesToStep
    <3> QED
      BY <1>2, <3>1, <3>3 DEF Gathered
  <2>4. CASE c # a
    <3>1. toolRows'[c] = toolRows[c]
      BY <1>3, <2>4 DEF AttachReply, RowsInv, Shapes
    <3> HIDE DEF n
    <3>2. Gathered(messages, c, n + 1, toolRows[c])
      BY <1>1, <1>2, <2>1, <2>4, GatheredStays
    <3> QED
      BY <1>2, <3>1, <3>2
  <2> QED
    BY <2>2, <2>3, <2>4
<1>5. RowsGathered'
  BY <1>1, <1>2, <1>4 DEF RowsGathered
<1>6. Shapes' /\ CallsWritten'
  <2>1. DOMAIN toolRows' = Calls
    BY DEF AttachReply, RowsInv, Shapes
  <2>2. DOMAIN messageRow' = DOMAIN messages
    BY <1>1 DEF RowsInv, Shapes
  <2> QED
    BY <1>1, <2>1, <2>2, ScanKeepsCalls
<1> QED
  BY <1>1, <1>5, <1>6, PassedOver

\* Once the loop is over, what it gathered are the rows.
LEMMA GatheredAll ==
  ASSUME RowsInv, next > Len(messages), NEW c \in Calls
  PROVE  toolRows[c] = ToolRowOf(c)
<1>1. next - 1 = Len(messages) /\ messages \in Seq(Message)
  BY NumbersOf DEF RowsInv
<1>2. Gathered(messages, c, Len(messages), toolRows[c])
  BY <1>1 DEF RowsInv, RowsGathered
<1> QED
  BY <1>1, <1>2, GatheredIsRow

LEMMA EndScanKeepsRows ==
  ASSUME RowsInv, EndScan
  PROVE  Shapes' /\ RowsGathered' /\ MessagesWritten' /\ CallsWritten'
<1>1. /\ next > Len(messages) /\ state' = "tools"
      /\ unwritten' = {c \in Calls : toolRows[c] # None}
      /\ UNCHANGED <<messages, next, toolRows, messageRow, toolRow, crashes>>
  BY DEF EndScan, streamVars
<1>2. Shapes'
  BY <1>1 DEF RowsInv, Shapes
<1>3. RowsGathered' /\ MessagesWritten'
  BY <1>1, RowsAreFixed DEF RowsInv, RowsGathered, MessagesWritten
<1>4. ASSUME NEW c \in Calls, c \notin unwritten'
      PROVE  toolRow[c] = ToolRowOf(c)
  BY <1>1, <1>4, GatheredAll DEF RowsInv, CallsWritten
<1>5. CallsWritten'
  BY <1>1, <1>4, RowsAreFixed DEF RowsInv, CallsWritten
<1> QED
  BY <1>2, <1>3, <1>5

LEMMA UpsertKeepsRows ==
  ASSUME RowsInv, UpsertTool
  PROVE  Shapes' /\ RowsGathered' /\ MessagesWritten' /\ CallsWritten'
<1>1. PICK c \in unwritten : /\ toolRow' = [toolRow EXCEPT ![c] = toolRows[c]]
                             /\ unwritten' = unwritten \ {c}
  BY DEF UpsertTool
<1>2. /\ state = "tools" /\ UNCHANGED <<messages, next, toolRows, messageRow, state, crashes>>
      /\ c \in Calls /\ DOMAIN toolRow = Calls
  BY <1>1 DEF UpsertTool, RowsInv, Shapes
<1>3. Shapes'
  BY <1>1, <1>2 DEF RowsInv, Shapes
<1>4. RowsGathered' /\ MessagesWritten'
  BY <1>2, RowsAreFixed DEF RowsInv, RowsGathered, MessagesWritten
<1>5. next > Len(messages)
  BY <1>2, NumbersOf DEF RowsInv, Inv, Positions
<1>6. toolRow'[c] = ToolRowOf(c)
  BY <1>1, <1>2, <1>5, GatheredAll
<1>7. \A d \in Calls : d # c => toolRow'[d] = toolRow[d]
  BY <1>1, <1>2
<1>8. CallsWritten'
  BY <1>1, <1>2, <1>6, <1>7, RowsAreFixed DEF RowsInv, CallsWritten
<1> QED
  BY <1>3, <1>4, <1>8

LEMMA CrashKeepsRows ==
  ASSUME RowsInv, Crash
  PROVE  Shapes' /\ RowsGathered' /\ MessagesWritten' /\ CallsWritten'
<1>1. /\ next' = 1 /\ state' = "scan" /\ unwritten' = {}
      /\ toolRows' = [c \in Calls |-> None]
      /\ crashes < MaxCrashes /\ crashes' = crashes + 1
      /\ UNCHANGED <<messages, messageRow, toolRow>>
  BY DEF Crash, streamVars
<1>2. Shapes'
  BY <1>1, CrashAssumption DEF RowsInv, Shapes
<1>3. RowsGathered'
  BY <1>1, NothingGathered DEF RowsGathered
<1>4. MessagesWritten'
  <2>1. \A i \in DOMAIN messages : ~(i < 1)
    BY NumbersOf DEF RowsInv
  <2> QED
    BY <1>1, <2>1, RowsAreFixed DEF RowsInv, MessagesWritten
<1>5. CallsWritten'
  BY <1>1, RowsAreFixed DEF RowsInv, CallsWritten
<1> QED
  BY <1>2, <1>3, <1>4, <1>5

LEMMA RowsStep == RowsInv /\ [Next]_vars => RowsInv'
<1> SUFFICES ASSUME RowsInv, [Next]_vars
             PROVE  Inv' /\ Shapes' /\ RowsGathered' /\ MessagesWritten' /\ CallsWritten'
  BY DEF RowsInv
<1>1. Inv'
  BY InvStep DEF RowsInv
<1>2. CASE SeedHuman \/ SeedAssistant
  <2>1. Current \in Message /\ order \in Nat
    BY <1>2, AtCurrent, NumbersOf DEF SeedHuman, SeedAssistant, RowsInv
  <2> QED
    BY <1>1, <1>2, <2>1, SeedBranches, SeedKeepsRows
<1>3. CASE SkipMessage
  BY <1>1, <1>3, SkipKeepsRows
<1>4. CASE AttachReply
  BY <1>1, <1>4, ReplyKeepsRows
<1>5. CASE EndScan
  BY <1>1, <1>5, EndScanKeepsRows
<1>6. CASE UpsertTool
  BY <1>1, <1>6, UpsertKeepsRows
<1>7. CASE Crash
  BY <1>1, <1>7, CrashKeepsRows
<1>8. CASE Return \/ UNCHANGED vars
  <2>1. /\ UNCHANGED <<messages, next, toolRows, messageRow, toolRow, unwritten, crashes>>
        /\ state' = state \/ (state = "tools" /\ unwritten = {} /\ state' = "done")
    BY <1>8 DEF Return, vars, localVars, streamVars
  <2>2. Shapes'
    BY <2>1 DEF RowsInv, Shapes
  <2>3. RowsGathered' /\ MessagesWritten'
    BY <2>1, RowsAreFixed DEF RowsInv, RowsGathered, MessagesWritten
  <2>4. CallsWritten'
    BY <2>1, RowsAreFixed DEF RowsInv, CallsWritten
  <2> QED
    BY <1>1, <2>2, <2>3, <2>4
<1> QED
  BY <1>2, <1>3, <1>4, <1>5, <1>6, <1>7, <1>8 DEF Next

-----------------------------------------------------------------------------
(* The theorems.                                                           *)

THEOREM RowsFollowMessages == Spec => []RowsInv
  BY RowsInit, RowsStep, PTL DEF Spec

\* The variables of a replay keep their types, for any histories and bounds.
THEOREM ReplayTypes == Spec => []TypeOK
<1>1. RowsInv => TypeOK
  <2> SUFFICES ASSUME RowsInv PROVE TypeOK
    OBVIOUS
  <2>1. history \in Seq(Message)
    BY DEF RowsInv, Inv, Positions, IsSuffix
  <2> QED
    BY <2>1, NumbersOf DEF RowsInv, Shapes, TypeOK
<1> QED
  BY <1>1, RowsFollowMessages, PTL

\* Whatever attempt a row on the stream is from, and wherever that attempt died, it is
\* the row a complete replay gives.
THEOREM RowsAreReplayed == Spec => []OnlyReplayedRows
<1>1. RowsInv => OnlyReplayedRows
  BY DEF RowsInv, MessagesWritten, CallsWritten, OnlyReplayedRows
<1> QED
  BY <1>1, RowsFollowMessages, PTL

\* A replay that returns has written every row.
THEOREM ReplayWritesAll == Spec => []ReplayComplete
<1>1. RowsInv => ReplayComplete
  <2> SUFFICES ASSUME RowsInv, state = "done"
               PROVE  /\ \A i \in DOMAIN messages : messageRow[i] = MessageRowOf(i)
                      /\ \A c \in Calls : toolRow[c] = ToolRowOf(c)
    BY DEF ReplayComplete
  <2>1. next = Len(messages) + 1 /\ unwritten = {}
    BY DEF RowsInv, Inv, Positions, Shapes
  <2>2. \A i \in DOMAIN messages : i < next
    BY <2>1, NumbersOf DEF RowsInv
  <2> QED
    BY <2>1, <2>2 DEF RowsInv, MessagesWritten, CallsWritten
<1> QED
  BY <1>1, RowsFollowMessages, PTL

-----------------------------------------------------------------------------
(* The window and the replies in it.                                       *)

\* What the window drops ends where a turn does: it starts at a human message.
LEMMA WindowStartsATurn ==
  ASSUME NEW h \in Seq(Message), NEW turns
  PROVE  \/ Window(h, turns) = h
         \/ \E m \in 1..(Len(h) + 1) :
               /\ Window(h, turns) = SubSeq(h, m, Len(h))
               /\ m <= Len(h) => h[m].kind = "human"
<1> DEFINE L == LastTurns(h, turns)
           S == {0 - i : i \in L}
<1>1. Len(h) \in Nat /\ DOMAIN h = 1..Len(h)
  BY LenProperties
<1>2. L \in SUBSET (1..Len(h)) /\ IsFiniteSet(L)
  <2>1. L \in SUBSET (1..Len(h))
    BY <1>1 DEF LastTurns
  <2>2. IsFiniteSet(1..Len(h))
    BY <1>1, FS_Interval
  <2> QED
    BY <2>1, <2>2, FS_Subset
<1>3. SUFFICES ASSUME Window(h, turns) # h
               PROVE  \E m \in 1..(Len(h) + 1) :
                         /\ Window(h, turns) = SubSeq(h, m, Len(h))
                         /\ m <= Len(h) => h[m].kind = "human"
  OBVIOUS
<1>4. Window(h, turns) = SubSeq(h, Len(h) - Cardinality(L) + 1, Len(h))
  BY <1>3 DEF Window
<1>5. CASE L = {}
  <2>1. Cardinality(L) = 0
    BY <1>5, FS_EmptySet
  <2>2. Len(h) - Cardinality(L) + 1 = Len(h) + 1
    BY <1>1, <2>1
  <2>3. Len(h) + 1 \in 1..(Len(h) + 1) /\ ~(Len(h) + 1 <= Len(h))
    BY <1>1
  <2> HIDE DEF L
  <2> QED
    BY <1>4, <2>2, <2>3
<1>6. CASE L # {}
  <2>1. S \in SUBSET Int /\ S # {} /\ IsFiniteSet(S)
    <3> DEFINE f == [i \in L |-> 0 - i]
    <3>1. f \in Surjection(L, S)
      BY Fun_IsSurj
    <3>2. IsFiniteSet(S)
      BY <1>2, <3>1, FS_Surjection
    <3> QED
      BY <1>2, <1>6, <3>2
  <2>2. PICK x \in S : \A y \in S : x >= y
    <3> HIDE DEF S
    <3> QED
      BY <2>1, GreatestExists
  <2>3. PICK m \in L : x = 0 - m
    OBVIOUS
  <2>4. m \in 1..Len(h) /\ \A i \in L : m <= i
    <3>1. \A i \in L : x >= 0 - i
      BY <2>2
    <3> QED
      BY <1>2, <2>3, <3>1
  <2>5. PICK t \in Humans(h) : t <= m /\ Cardinality({j \in Humans(h) : j >= t}) <= turns
    BY <2>3 DEF LastTurns
  <2>6. t \in 1..Len(h) /\ h[t].kind = "human"
    BY <1>1 DEF Humans
  <2>7. \A i \in 1..Len(h) : t <= i => i \in L
    BY <1>1, <2>5 DEF LastTurns
  <2>8. t = m
    BY <2>4, <2>5, <2>6, <2>7
  <2>9. L = m..Len(h)
    <3>1. \A i \in L : i \in m..Len(h)
      BY <1>1, <1>2, <2>4
    <3>2. \A i \in m..Len(h) : i \in L
      BY <1>1, <2>4, <2>7, <2>8
    <3> HIDE DEF L
    <3> QED
      BY <3>1, <3>2
  <2>10. Cardinality(L) = Len(h) - m + 1
    BY <1>1, <2>4, <2>9, FS_Interval
  <2>11. Len(h) - Cardinality(L) + 1 = m
    BY <1>1, <2>4, <2>10
  <2> HIDE DEF L
  <2> QED
    BY <1>1, <1>4, <2>4, <2>6, <2>8, <2>11
<1> QED
  BY <1>5, <1>6

Windowed == history \in Histories /\ \E turns : messages = Window(history, turns)

LEMMA WindowedStays == Windowed /\ [Next]_vars => Windowed'
BY DEF Windowed, Next, vars, SeedHuman, SeedAssistant, UpsertMessage, SkipMessage,
       AttachReply, EndScan, UpsertTool, Return, Crash

\* Where a reply follows its request within the turn, as in every history an agent
\* leaves, the window never keeps the one without the other.
THEOREM RepliesKeepRequests ==
  ASSUME \A h \in Histories : RepliesFollow(h)
  PROVE  Spec => []WindowKeepsRequests
<1>1. Init => Windowed
  BY DEF Init, Windowed
<1>2. Windowed => WindowKeepsRequests
  <2> SUFFICES ASSUME Windowed,
                      NEW i \in DOMAIN messages, messages[i].kind = "tool",
                      \E j \in DOMAIN history : Asks(history[j], messages[i].call)
               PROVE  \E j \in 1..(i - 1) : Asks(messages[j], messages[i].call)
    BY DEF WindowKeepsRequests
  <2>1. /\ history \in Seq(Message) /\ Len(history) \in Nat
        /\ DOMAIN history = 1..Len(history) /\ RepliesFollow(history)
    BY HistoryAssumption, LenProperties DEF Windowed
  <2>2. CASE messages = history
    <3>1. PICK j \in 1..(i - 1) : Asks(history[j], history[i].call)
      BY <2>1, <2>2 DEF RepliesFollow
    <3> QED
      BY <2>2, <3>1
  <2>3. CASE messages # history
    <3>1. PICK m \in 1..(Len(history) + 1) :
             /\ messages = SubSeq(history, m, Len(history))
             /\ m <= Len(history) => history[m].kind = "human"
      BY <2>1, <2>3, WindowStartsATurn DEF Windowed
    <3>2. \A k \in m..Len(history) : history[k] \in Message
      BY <2>1, <3>1, ElementOfSeq
    <3>3. /\ messages \in Seq(Message)
          /\ Len(messages) = IF m <= Len(history) THEN Len(history) - m + 1 ELSE 0
          /\ \A k \in 1..(Len(history) - m + 1) : messages[k] = history[m + k - 1]
      BY <2>1, <3>1, <3>2, SubSeqProperties
    <3>4. /\ m <= Len(history) /\ i \in 1..(Len(history) - m + 1)
          /\ DOMAIN messages = 1..Len(messages)
      BY <2>1, <3>1, <3>3, LenProperties
    <3> DEFINE p == m + i - 1
    <3>5. messages[i] = history[p] /\ p \in 1..Len(history) /\ p \in Nat /\ p >= m
      BY <2>1, <3>1, <3>3, <3>4
    <3> HIDE DEF p
    <3>6. PICK j \in 1..(p - 1) : /\ Asks(history[j], history[p].call)
                                  /\ \A k \in j..p : history[k].kind # "human"
      BY <2>1, <3>5 DEF RepliesFollow
    <3>7. j >= m
      <4> SUFFICES ASSUME ~(j >= m) PROVE FALSE
        OBVIOUS
      <4>1. m \in j..p
        BY <3>1, <3>5, <3>6
      <4> QED
        BY <3>1, <3>4, <3>6, <4>1
    <3> DEFINE k == j - m + 1
    <3>8. /\ k \in 1..(i - 1) /\ k \in 1..(Len(history) - m + 1) /\ m + k - 1 = j
      BY <2>1, <3>1, <3>4, <3>5, <3>6, <3>7 DEF p
    <3> HIDE DEF k
    <3>9. messages[k] = history[j]
      BY <3>3, <3>8
    <3> QED
      BY <3>5, <3>6, <3>8, <3>9
  <2> QED
    BY <2>2, <2>3
<1> QED
  BY <1>1, <1>2, WindowedStays, PTL DEF Spec

=============================================================================
