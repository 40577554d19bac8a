--------------------------- MODULE IterRows_proofs ---------------------------
(***************************************************************************)
(* Proofs about IterRows for any payloads, snapshots and bound: however    *)
(* the iteration ends no run goes on behind it, a caller that reads to the *)
(* end has the run with its terminal row, and its agentState is current.   *)
(***************************************************************************)
EXTENDS IterRows, NumberLemmas, SequenceTheorems

\* A cancel is outstanding only for a task that runs, so it never wakes one that is
\* done, and the generator has a task from the moment it is open.
TaskIsHeld ==
    /\ consumer = "opening" => task = "none"
    /\ task = "none" => consumer \in {"opening", "ended"}
    /\ cancelling \in BOOLEAN
    /\ cancelling => task \notin {"none", "done"}

IInv == TaskIsHeld /\ NoOrphan

LEMMA InitInv == Init => IInv
BY DEF Init, IInv, TaskIsHeld, NoOrphan

\* The task's own steps are taken by a task that runs, and leave the generator alone.
LEMMA TaskKeepsInv ==
  ASSUME IInv,
         \/ StartRun \/ TakeSnapshot \/ TakePayload \/ GraphRaises \/ DrainEnds
         \/ Abort \/ Complete \/ CollectFails
  PROVE  IInv'
<1> USE DEF IInv, TaskIsHeld, NoOrphan, TaskStep, consumerVars
<1>1. CASE StartRun
  BY <1>1 DEF StartRun
<1>2. CASE TakeSnapshot
  BY <1>2 DEF TakeSnapshot, Draining
<1>3. CASE TakePayload
  BY <1>3 DEF TakePayload, Draining
<1>4. CASE GraphRaises
  BY <1>4 DEF GraphRaises
<1>5. CASE DrainEnds
  BY <1>5 DEF DrainEnds
<1>6. CASE Abort
  BY <1>6 DEF Abort
<1>7. CASE Complete
  BY <1>7 DEF Complete
<1>8. CASE CollectFails
  BY <1>8 DEF CollectFails
<1> QED
  BY <1>1, <1>2, <1>3, <1>4, <1>5, <1>6, <1>7, <1>8

\* The finally clause ends the generator only over a task that is done.
LEMMA FinallyKeepsInv ==
  ASSUME IInv, NEW reason, Finally(reason), task' = task,
         consumer \in {"getting", "holding"}
  PROVE  IInv'
<1> USE DEF IInv, TaskIsHeld, NoOrphan, Finally
<1>1. task # "none"
  OBVIOUS
<1>2. CASE task = "done"
  BY <1>2
<1>3. CASE task # "done"
  BY <1>1, <1>3
<1> QED
  BY <1>2, <1>3

LEMMA NextKeepsInv == IInv /\ [Next]_vars => IInv'
<1> SUFFICES ASSUME IInv, [Next]_vars
             PROVE  IInv'
  OBVIOUS
<1>1. CASE \/ StartRun \/ TakeSnapshot \/ TakePayload \/ GraphRaises \/ DrainEnds
           \/ Abort \/ Complete \/ CollectFails
  BY <1>1, TaskKeepsInv
<1>2. CASE CancelLands
  BY <1>2 DEF CancelLands, IInv, TaskIsHeld, NoOrphan, consumerVars
<1>3. CASE Open
  BY <1>3 DEF Open, IInv, TaskIsHeld, NoOrphan
<1>4. CASE OpenFails
  BY <1>4 DEF OpenFails, IInv, TaskIsHeld, NoOrphan
<1>5. CASE Get
  BY <1>5 DEF Get, IInv, TaskIsHeld, NoOrphan, channelVars
<1>6. CASE GetClosed
  BY <1>6, FinallyKeepsInv DEF GetClosed
<1>7. CASE GoOn
  BY <1>7 DEF GoOn, IInv, TaskIsHeld, NoOrphan, channelVars
<1>8. CASE Leave
  BY <1>8, FinallyKeepsInv DEF Leave
<1>9. CASE Join
  BY <1>9 DEF Join, IInv, TaskIsHeld, NoOrphan, channelVars
<1>10. CASE UNCHANGED vars
  BY <1>10 DEF IInv, TaskIsHeld, NoOrphan, vars, consumerVars
<1> QED
  BY <1>1, <1>2, <1>3, <1>4, <1>5, <1>6, <1>7, <1>8, <1>9, <1>10 DEF Next

\* iter_state_rows never orphans the run it started: when the generator is over, read to
\* its end, left, cancelled or failed, its task is done or was never created.
THEOREM NoRunIsOrphaned == Spec => []NoOrphan
<1>1. IInv => NoOrphan
  BY DEF IInv
<1> QED
  BY InitInv, NextKeepsInv, <1>1, PTL DEF Spec

-----------------------------------------------------------------------------
(* Sequences of frames.                                                    *)

IsSeq(s) == s \in Seq(ToSet(s))

LEMMA SeqIsSeq ==
  ASSUME NEW S, NEW s \in Seq(S)
  PROVE  IsSeq(s) /\ Len(s) \in Nat /\ DOMAIN s = 1..Len(s)
<1>1. Len(s) \in Nat /\ DOMAIN s = 1..Len(s) /\ s \in [1..Len(s) -> S]
  BY LenProperties
<1>2. s \in [1..Len(s) -> ToSet(s)]
  BY <1>1 DEF ToSet
<1>3. s \in Seq(ToSet(s))
  BY <1>1, <1>2, SeqDef
<1> QED
  BY <1>1, <1>3 DEF IsSeq

LEMMA Joint ==
  ASSUME NEW s, NEW t, IsSeq(s), IsSeq(t)
  PROVE  /\ IsSeq(s \o t)
         /\ Len(s) \in Nat /\ Len(t) \in Nat /\ Len(s \o t) = Len(s) + Len(t)
         /\ \A i \in 1..Len(s) : (s \o t)[i] = s[i]
         /\ \A i \in 1..Len(t) : (s \o t)[Len(s) + i] = t[i]
         /\ \A i \in 1..Len(s \o t) :
              i \in 1..Len(s) \/ \E j \in 1..Len(t) : i = Len(s) + j
<1> DEFINE S == ToSet(s) \cup ToSet(t)
<1>1. s \in Seq(S) /\ t \in Seq(S)
  BY SeqMonotonic DEF IsSeq
<1> HIDE DEF S
<1>2. Len(s) \in Nat /\ Len(t) \in Nat
  BY <1>1, LenProperties
<1>3. /\ s \o t \in Seq(S) /\ Len(s \o t) = Len(s) + Len(t)
      /\ \A i \in 1..Len(s) + Len(t) : (s \o t)[i] = IF i <= Len(s) THEN s[i] ELSE t[i - Len(s)]
  BY <1>1, ConcatProperties
<1>4. IsSeq(s \o t)
  BY <1>3, SeqIsSeq
<1>5. \A i \in 1..Len(s) : (s \o t)[i] = s[i]
  BY <1>2, <1>3
<1>6. ASSUME NEW i \in 1..Len(t) PROVE (s \o t)[Len(s) + i] = t[i]
  <2>1. Len(s) + i \in 1..Len(s) + Len(t) /\ ~(Len(s) + i <= Len(s)) /\ (Len(s) + i) - Len(s) = i
    BY <1>2
  <2> QED
    BY <1>3, <2>1
<1>7. ASSUME NEW i \in 1..Len(s \o t), i \notin 1..Len(s)
      PROVE  \E j \in 1..Len(t) : i = Len(s) + j
  <2>1. i - Len(s) \in 1..Len(t) /\ i = Len(s) + (i - Len(s))
    BY <1>2, <1>3, <1>7
  <2> QED
    BY <2>1
<1> QED
  BY <1>2, <1>3, <1>4, <1>5, <1>6, <1>7

LEMMA JointIsAssociative ==
  ASSUME NEW s, NEW t, NEW u, IsSeq(s), IsSeq(t), IsSeq(u)
  PROVE  s \o (t \o u) = (s \o t) \o u
<1> DEFINE S == ToSet(s) \cup ToSet(t) \cup ToSet(u)
<1>1. s \in Seq(S) /\ t \in Seq(S) /\ u \in Seq(S)
  BY SeqMonotonic DEF IsSeq
<1> HIDE DEF S
<1> QED
  BY <1>1, ConcatAssociative

\* The frames of a payload are those of its ops, one after another: a property that each
\* frame of each part has, each frame of the whole has.
FlatUpTo(f, seqs, k) ==
    f = [i \in 1..k |-> IF i = 1 THEN seqs[i] ELSE f[i - 1] \o seqs[i]]

LEMMA FlatExists ==
  ASSUME NEW seqs, NEW k \in Nat
  PROVE  \E f : FlatUpTo(f, seqs, k)
<1> DEFINE Defined == {n \in Nat : \E f : FlatUpTo(f, seqs, n)}
<1>1. 0 \in Defined
  <2> DEFINE f == [i \in 1..0 |-> <<>>]
  <2>1. FlatUpTo(f, seqs, 0)
    BY DEF FlatUpTo
  <2> QED
    BY <2>1
<1>2. ASSUME NEW n \in Nat, n \in Defined PROVE n + 1 \in Defined
  <2>1. PICK f : FlatUpTo(f, seqs, n)
    BY <1>2
  <2> DEFINE last == IF n + 1 = 1 THEN seqs[n + 1] ELSE f[n] \o seqs[n + 1]
             g == [i \in 1..(n + 1) |-> IF i <= n THEN f[i] ELSE last]
  <2>2. \A i \in 1..n : f[i] = IF i = 1 THEN seqs[i] ELSE f[i - 1] \o seqs[i]
    BY <2>1 DEF FlatUpTo
  <2>3. ASSUME NEW i \in 1..(n + 1)
        PROVE  g[i] = IF i = 1 THEN seqs[i] ELSE g[i - 1] \o seqs[i]
    <3>1. CASE i = n + 1
      <4>1. g[i] = last
        BY <3>1
      <4>2. i # 1 => g[i - 1] = f[n]
        BY <3>1
      <4> HIDE DEF g
      <4> QED
        BY <3>1, <4>1, <4>2
    <3>2. CASE i \in 1..n
      <4>1. g[i] = f[i] /\ (i # 1 => g[i - 1] = f[i - 1])
        BY <3>2
      <4> HIDE DEF g
      <4> QED
        BY <2>2, <3>2, <4>1
    <3> QED
      BY <3>1, <3>2
  <2>4. FlatUpTo(g, seqs, n + 1)
    BY <2>3 DEF FlatUpTo
  <2> QED
    BY <2>4
<1>3. Nat \subseteq Defined
  <2> HIDE DEF Defined
  <2> QED
    BY <1>1, <1>2, Induction
<1> QED
  BY <1>3

LEMMA FlattenSeqIsSeq ==
  ASSUME NEW S, NEW n \in Nat, NEW seqs \in [1..n -> Seq(S)]
  PROVE  FlattenSeq(seqs) \in Seq(S)
<1> DEFINE flat == FlattenSeq(seqs)
<1>1. Len(seqs) = n
  BY SeqDef, LenProperties
<1>2. CASE n = 0
  <2>1. seqs = <<>>
    BY <1>2
  <2> QED
    BY <1>1, <1>2, <2>1, EmptySeq DEF FlattenSeq
<1>3. CASE n # 0
  <2> DEFINE f == CHOOSE f : FlatUpTo(f, seqs, n)
             Within == {k \in Nat : k \in 1..n => f[k] \in Seq(S)}
  <2>1. FlatUpTo(f, seqs, n)
    BY FlatExists
  <2>2. FlattenSeq(seqs) = f[n]
    BY <1>1, <1>3 DEF FlattenSeq, FlatUpTo
  <2>3. \A i \in 1..n : f[i] = IF i = 1 THEN seqs[i] ELSE f[i - 1] \o seqs[i]
    BY <2>1 DEF FlatUpTo
  <2> HIDE DEF f
  <2>4. 0 \in Within
    OBVIOUS
  <2>5. ASSUME NEW k \in Nat, k \in Within PROVE k + 1 \in Within
    <3> SUFFICES ASSUME k + 1 \in 1..n PROVE f[k + 1] \in Seq(S)
      OBVIOUS
    <3>1. seqs[k + 1] \in Seq(S)
      OBVIOUS
    <3>2. CASE k = 0
      BY <2>3, <3>1, <3>2
    <3>3. CASE k # 0
      <4>1. f[k] \in Seq(S)
        BY <2>5, <3>3
      <4>2. f[k + 1] = f[k] \o seqs[k + 1]
        <5>1. k + 1 \in 1..n /\ k + 1 # 1 /\ (k + 1) - 1 = k
          BY <3>3
        <5> QED
          BY <2>3, <5>1
      <4> QED
        BY <3>1, <4>1, <4>2, ConcatProperties
    <3> QED
      BY <3>2, <3>3
  <2>6. Nat \subseteq Within
    <3> HIDE DEF Within
    <3> QED
      BY <2>4, <2>5, Induction
  <2> QED
    BY <1>3, <2>2, <2>6
<1> QED
  BY <1>2, <1>3

-----------------------------------------------------------------------------
(* The rows of a run, those taken and those still queued.                  *)

Rows == received \o queue

\* What a run that ended with the exception h, or with none, has written last.
Closing(h, f) ==
    IF h = "none" THEN f \in {RunRow("complete"), RunRow("interrupt")}
    ELSE f = RunRow("error")

Sentinel(i) ==
    /\ Rows[i] = CLOSED /\ i = Len(Rows) /\ i > 1
    /\ task = "done" /\ Closing(held, Rows[i - 1])

\* A run row that is not the first is terminal, and what follows it is the sentinel.
Final(i) ==
    /\ Rows[i].value \in Contract!Terminal /\ task = "done"
    /\ IF why = "end" THEN i = Len(Rows) ELSE i + 1 = Len(Rows) /\ Rows[i + 1] = CLOSED

Typed ==
    /\ consumer \in {"opening", "getting", "holding", "joining", "ended"}
    /\ why \in Outcomes \cup {"none"} /\ outcome \in Outcomes \cup {"none"}
    /\ task \in {"none", "created", "draining", "unwinding", "collecting", "done"}
    /\ held \in {"none", "failed", "cancelled"}
    /\ cancelling \in BOOLEAN
    /\ latest \in {Project(s) : s \in Snapshots} \cup {NoState}
    /\ items \in 0..MaxItems

\* An exception is in flight in a task that unwinds and in no other that runs; only a
\* caller that left its loop early has the task cancelled.
Ledger ==
    /\ why = "none" <=> consumer \in {"opening", "getting", "holding"}
    /\ consumer = "joining" => why \in {"left", "cancelled"}
    /\ cancelling => consumer = "joining"
    /\ task \in {"none", "created", "draining", "collecting"} => held = "none"
    /\ task = "unwinding" => held # "none"

\* The rows of a run begin with the run row and end, if at all, with its terminal row and
\* the sentinel, which only a generator that has read everything takes off the queue.
Whole ==
    /\ IsSeq(received) /\ IsSeq(queue)
    /\ task \in {"none", "created"} => received = <<>> /\ queue = <<>>
    /\ task \in {"draining", "unwinding", "collecting"} => Len(Rows) > 0
    /\ Len(Rows) > 0 => Rows[1] = RunRow("running")
    /\ \A i \in 1..Len(Rows) : Rows[i].type \in Types \/ Sentinel(i)
    /\ \A i \in 1..Len(received) : received[i].type \in Types
    /\ \A i \in 1..Len(Rows) : Rows[i].type = "run" => i = 1 \/ Final(i)

ReadToEnd ==
    consumer = "ended" /\ why = "end" =>
        /\ task = "done" /\ queue = <<>>
        /\ Len(received) > 0 /\ Closing(held, received[Len(received)])
        /\ outcome = IF held = "none" THEN "end" ELSE held

\* What _stream_values compares with is what the graph yielded last.
States ==
    /\ AgentStateCurrent /\ prev = latest
    /\ task \in {"none", "created"} => latest = NoState

RowsInv == Typed /\ Ledger /\ Whole /\ ReadToEnd /\ States

LEMMA RowsFacts ==
  ASSUME Whole
  PROVE  /\ IsSeq(Rows) /\ DOMAIN Rows = 1..Len(Rows)
         /\ Len(received) \in Nat /\ Len(queue) \in Nat
         /\ Len(Rows) = Len(received) + Len(queue)
         /\ DOMAIN received = 1..Len(received) /\ DOMAIN queue = 1..Len(queue)
         /\ \A i \in 1..Len(received) : Rows[i] = received[i]
         /\ \A i \in 1..Len(queue) : Rows[Len(received) + i] = queue[i]
         /\ (Len(received) = 0 <=> received = <<>>) /\ (Len(queue) = 0 <=> queue = <<>>)
         /\ Rows = <<>> <=> Len(Rows) = 0
<1>1. IsSeq(received) /\ IsSeq(queue)
  BY DEF Whole
<1>2. IsSeq(Rows)
  BY <1>1, Joint DEF Rows
<1>3. ASSUME NEW s, IsSeq(s) PROVE DOMAIN s = 1..Len(s) /\ (Len(s) = 0 <=> s = <<>>)
  <2>1. s \in Seq(ToSet(s))
    BY <1>3 DEF IsSeq
  <2>2. DOMAIN s = 1..Len(s)
    BY <2>1, LenProperties
  <2>3. s # <<>> => Len(s) # 0
    BY <2>1, EmptySeq
  <2>4. s = <<>> => Len(s) = 0
    BY EmptySeq
  <2> QED
    BY <2>2, <2>3, <2>4
<1> QED
  BY <1>1, <1>2, <1>3, Joint DEF Rows

\* The sentinel is the last frame there is, behind the terminal row.
LEMMA SentinelIsLast ==
  ASSUME Whole, queue # <<>>, Head(queue) = CLOSED
  PROVE  /\ task = "done" /\ Len(queue) = 1 /\ Tail(queue) = <<>>
         /\ Len(received) > 0 /\ Closing(held, received[Len(received)])
<1> DEFINE n == Len(received) + 1
<1>1. /\ queue \in Seq(ToSet(queue)) /\ Len(queue) \in Nat /\ Len(queue) # 0
      /\ Len(received) \in Nat /\ Len(Rows) = Len(received) + Len(queue)
      /\ \A i \in 1..Len(received) : Rows[i] = received[i]
      /\ \A i \in 1..Len(queue) : Rows[Len(received) + i] = queue[i]
  BY RowsFacts DEF Whole, IsSeq
<1>2. Head(queue) = queue[1]
  BY <1>1
<1>3. n \in 1..Len(Rows) /\ Rows[n] = CLOSED
  BY <1>1, <1>2
<1>4. CLOSED.type \notin Types
  BY DEF CLOSED, Frame, Types
<1>5. Sentinel(n)
  BY <1>3, <1>4 DEF Whole
<1>6. Len(queue) = 1
  <2>1. Len(received) + 1 = Len(received) + Len(queue)
    BY <1>1, <1>5 DEF Sentinel
  <2>2. Len(received) \in Nat /\ Len(queue) \in Nat
    BY <1>1
  <2>3. \A a, b \in Nat : a + 1 = a + b => b = 1
    OBVIOUS
  <2> QED
    BY <2>1, <2>2, <2>3
<1>7. Tail(queue) = <<>>
  <2>1. Tail(queue) \in Seq(ToSet(queue)) /\ Len(Tail(queue)) = 0
    BY <1>1, <1>6, HeadTailProperties
  <2> QED
    BY <2>1, EmptySeq
<1>8. n - 1 = Len(received) /\ Len(received) > 0
  BY <1>1, <1>5 DEF Sentinel
<1>9. Rows[n - 1] = received[Len(received)]
  BY <1>1, <1>8
<1> QED
  BY <1>5, <1>6, <1>7, <1>8, <1>9 DEF Sentinel

-----------------------------------------------------------------------------
(* The tasks, and what they know of each other.                            *)

LEMMA FinallyKeepsLedger ==
  ASSUME Typed, Ledger, NEW reason \in {"end", "left", "cancelled"}, Finally(reason),
         reason = "end" => task = "done", consumer \in {"getting", "holding"},
         UNCHANGED <<task, held, channelVars>>
  PROVE  Typed' /\ Ledger'
<1>1. outcome' \in Outcomes \cup {"none"} /\ why' \in Outcomes
  BY DEF Typed, Finally, Outcomes
<1>2. why' # "none" /\ consumer' \in {"joining", "ended"}
  BY DEF Finally
<1>3. consumer' = "joining" => task # "done" /\ why' = reason
  BY DEF Finally
<1>4. cancelling' \in BOOLEAN /\ (cancelling' => consumer' = "joining")
  BY DEF Finally, Typed, Ledger
<1> QED
  BY <1>1, <1>2, <1>3, <1>4 DEF Typed, Ledger, channelVars

LEMMA NextKeepsLedger ==
  ASSUME IInv, RowsInv, [Next]_vars
  PROVE  Typed' /\ Ledger'
<1> USE DEF Typed, Ledger, RowsInv, TaskStep, consumerVars, channelVars
<1>1. CASE StartRun
  BY <1>1 DEF StartRun
<1>2. CASE TakeSnapshot
  <2>1. items + 1 \in 0..MaxItems
    BY <1>2, ItemBound DEF TakeSnapshot, Draining
  <2> QED
    BY <1>2, <2>1 DEF TakeSnapshot, Draining
<1>3. CASE TakePayload
  <2>1. items + 1 \in 0..MaxItems
    BY <1>3, ItemBound DEF TakePayload, Draining
  <2> QED
    BY <1>3, <2>1 DEF TakePayload, Draining
<1>4. CASE GraphRaises
  BY <1>4 DEF GraphRaises
<1>5. CASE DrainEnds
  BY <1>5 DEF DrainEnds
<1>6. CASE Abort
  BY <1>6 DEF Abort
<1>7. CASE Complete
  BY <1>7 DEF Complete
<1>8. CASE CollectFails
  BY <1>8 DEF CollectFails
<1>9. CASE CancelLands
  BY <1>9 DEF CancelLands, IInv, TaskIsHeld
<1>10. CASE Open
  BY <1>10 DEF Open, IInv, TaskIsHeld
<1>11. CASE OpenFails
  BY <1>11 DEF OpenFails, Outcomes, IInv, TaskIsHeld
<1>12. CASE Get
  BY <1>12 DEF Get
<1>13. CASE GetClosed
  <2>1. task = "done"
    BY <1>13, SentinelIsLast DEF GetClosed
  <2> QED
    BY <1>13, <2>1, FinallyKeepsLedger DEF GetClosed
<1>14. CASE GoOn
  BY <1>14 DEF GoOn
<1>15. CASE Leave
  BY <1>15, FinallyKeepsLedger DEF Leave
<1>16. CASE Join
  BY <1>16 DEF Join, Outcomes, IInv, TaskIsHeld
<1>17. CASE UNCHANGED vars
  BY <1>17 DEF vars
<1> QED
  BY <1>1, <1>2, <1>3, <1>4, <1>5, <1>6, <1>7, <1>8, <1>9, <1>10, <1>11, <1>12, <1>13,
     <1>14, <1>15, <1>16, <1>17 DEF Next

-----------------------------------------------------------------------------
(* The rows.                                                               *)

\* The task is as far with its rows as it was: a step that writes none may end it, but
\* not start it, and leaves the exception of a task that is done.
SameStage ==
    /\ task = "done" => task' = "done" /\ held' = held
    /\ why' = "end" <=> why = "end"
    /\ task' \in {"none", "created"} => task \in {"none", "created"}
    /\ task' \in {"draining", "unwinding", "collecting"} =>
         task \in {"draining", "unwinding", "collecting"}

LEMMA SameRowsKeepWhole ==
  ASSUME Whole, SameStage, Rows' = Rows, IsSeq(received'), IsSeq(queue'),
         received = <<>> /\ queue = <<>> => received' = <<>> /\ queue' = <<>>,
         \A i \in 1..Len(received') : received'[i].type \in Types
  PROVE  Whole'
<1>1. ASSUME NEW i \in 1..Len(Rows), Sentinel(i) PROVE Sentinel(i)'
  BY <1>1 DEF Sentinel, SameStage
<1>2. \A i \in 1..Len(Rows') : Rows'[i].type \in Types \/ Sentinel(i)'
  BY <1>1 DEF Whole
<1>3. ASSUME NEW i \in 1..Len(Rows), Final(i) PROVE Final(i)'
  BY <1>3 DEF Final, SameStage, Contract!Terminal
<1>4. \A i \in 1..Len(Rows') : Rows'[i].type = "run" => i = 1 \/ Final(i)'
  BY <1>3 DEF Whole
<1> QED
  BY <1>2, <1>4 DEF Whole, SameStage

LEMMA SameRowsKeepStates ==
  ASSUME States, SameStage, Rows' = Rows, UNCHANGED <<latest, prev>>
  PROVE  States'
BY DEF States, SameStage, AgentStateCurrent, Rows

LEMMA QuietKeeps ==
  ASSUME Whole, States, SameStage, UNCHANGED <<received, queue, latest, prev>>
  PROVE  Whole' /\ States'
<1>1. Rows' = Rows
  BY DEF Rows
<1>2. IsSeq(received') /\ IsSeq(queue')
  BY DEF Whole
<1> QED
  BY <1>1, <1>2, SameRowsKeepWhole, SameRowsKeepStates DEF Whole

\* New frames behind those there are.
LEMMA PutKeepsWhole ==
  ASSUME Whole, task # "done", NEW fs, IsSeq(fs), queue' = queue \o fs, received' = received,
         task' \notin {"none", "created"},
         Len(Rows) = 0 => Len(fs) > 0 /\ fs[1] = RunRow("running"),
         \A i \in 1..Len(fs) : \/ fs[i].type \in Types
                               \/ /\ fs[i] = CLOSED /\ i = Len(fs) /\ i > 1
                                  /\ task' = "done" /\ Closing(held', fs[i - 1]),
         \A i \in 1..Len(fs) : fs[i].type = "run" =>
           \/ Len(Rows) = 0 /\ i = 1
           \/ /\ fs[i].value \in Contract!Terminal /\ task' = "done" /\ why' # "end"
              /\ i + 1 = Len(fs) /\ fs[i + 1] = CLOSED
  PROVE  Whole' /\ Rows' = Rows \o fs
<1>1. IsSeq(received) /\ IsSeq(queue) /\ IsSeq(Rows) /\ IsSeq(queue')
  BY Joint, RowsFacts DEF Whole
<1>2. Rows' = Rows \o fs
  BY <1>1, JointIsAssociative DEF Rows
<1> DEFINE n == Len(Rows)
           rows == Rows \o fs
<1>3. /\ n \in Nat /\ Len(fs) \in Nat /\ Len(rows) = n + Len(fs)
      /\ \A i \in 1..n : rows[i] = Rows[i]
      /\ \A i \in 1..Len(fs) : rows[n + i] = fs[i]
      /\ \A i \in 1..Len(rows) : i \in 1..n \/ \E j \in 1..Len(fs) : i = n + j
  <2>1. IsSeq(Rows) /\ IsSeq(fs)
    BY <1>1
  <2>2. /\ Len(Rows) \in Nat /\ Len(fs) \in Nat /\ Len(Rows \o fs) = Len(Rows) + Len(fs)
        /\ \A i \in 1..Len(Rows) : (Rows \o fs)[i] = Rows[i]
        /\ \A i \in 1..Len(fs) : (Rows \o fs)[Len(Rows) + i] = fs[i]
    BY <2>1, Joint
  <2>3. \A i \in 1..Len(Rows \o fs) :
          i \in 1..Len(Rows) \/ \E j \in 1..Len(fs) : i = Len(Rows) + j
    BY <2>1, Joint
  <2> QED
    BY <2>2, <2>3
<1>4. Len(rows) > 0 /\ rows[1] = RunRow("running")
  <2>1. CASE n = 0
    <3>1. Len(fs) > 0 /\ fs[1] = RunRow("running")
      BY <2>1
    <3> HIDE DEF n, rows
    <3>2. 1 \in 1..Len(fs) /\ n + 1 = 1
      BY <1>3, <2>1, <3>1
    <3>3. rows[1] = fs[1]
      BY <1>3, <3>2
    <3> QED
      BY <1>3, <2>1, <3>1, <3>3
  <2>2. CASE n > 0
    <3>1. Rows[1] = RunRow("running")
      BY <2>2 DEF Whole
    <3> HIDE DEF n, rows
    <3>2. 1 \in 1..n
      BY <1>3, <2>2
    <3> QED
      BY <1>3, <2>2, <3>1, <3>2 DEF n
  <2> QED
    BY <1>3, <2>1, <2>2
<1>5. ASSUME NEW i \in 1..Len(rows) PROVE rows[i].type \in Types \/ Sentinel(i)'
  <2>1. CASE i \in 1..n
    <3>1. ~Sentinel(i)
      BY DEF Sentinel
    <3>2. Rows[i].type \in Types
      BY <2>1, <3>1 DEF Whole
    <3> QED
      BY <1>3, <2>1, <3>2
  <2>2. CASE i \notin 1..n
    <3>1. PICK j \in 1..Len(fs) : i = n + j
      BY <1>3, <2>2
    <3>2. rows[i] = fs[j]
      BY <1>3, <3>1
    <3>3. CASE fs[j].type \in Types
      BY <3>2, <3>3
    <3>4. CASE fs[j].type \notin Types
      <4>1. fs[j] = CLOSED /\ j = Len(fs) /\ j > 1 /\ task' = "done" /\ Closing(held', fs[j - 1])
        BY <3>4
      <4> HIDE DEF n, rows
      <4>2. j - 1 \in 1..Len(fs) /\ i - 1 = n + (j - 1) /\ i > 1 /\ i = Len(rows)
        BY <1>3, <3>1, <4>1
      <4>3. rows[i - 1] = fs[j - 1]
        BY <1>3, <4>2
      <4> QED
        BY <1>2, <3>2, <4>1, <4>2, <4>3 DEF Sentinel, rows
    <3> QED
      BY <3>3, <3>4
  <2> QED
    BY <2>1, <2>2
<1>6. \A i \in 1..Len(received') : received'[i].type \in Types
  BY DEF Whole
<1>7. ASSUME NEW i \in 1..Len(rows), rows[i].type = "run" PROVE i = 1 \/ Final(i)'
  <2>1. CASE i \in 1..n
    <3>1. ~Final(i)
      BY DEF Final
    <3>2. Rows[i].type = "run"
      BY <1>3, <1>7, <2>1
    <3> QED
      BY <2>1, <3>1, <3>2 DEF Whole
  <2>2. CASE i \notin 1..n
    <3>1. PICK j \in 1..Len(fs) : i = n + j
      BY <1>3, <2>2
    <3>2. rows[i] = fs[j] /\ fs[j].type = "run"
      BY <1>3, <1>7, <3>1
    <3>3. CASE n = 0 /\ j = 1
      BY <3>1, <3>3
    <3>4. CASE ~(n = 0 /\ j = 1)
      <4>1. /\ fs[j].value \in Contract!Terminal /\ task' = "done" /\ why' # "end"
            /\ j + 1 = Len(fs) /\ fs[j + 1] = CLOSED
        BY <3>2, <3>4
      <4> HIDE DEF n, rows
      <4>2. j + 1 \in 1..Len(fs) /\ i + 1 = n + (j + 1) /\ i + 1 = Len(rows)
        <5>1. n \in Nat /\ Len(fs) \in Nat /\ Len(rows) = n + Len(fs)
          BY <1>3
        <5>2. j \in 1..Len(fs) /\ i = n + j /\ j + 1 = Len(fs)
          BY <3>1, <4>1
        <5>3. \A a, l \in Nat : \A q \in 1..l : q + 1 = l =>
                q + 1 \in 1..l /\ (a + q) + 1 = a + (q + 1) /\ (a + q) + 1 = a + l
          OBVIOUS
        <5>4. /\ j + 1 \in 1..Len(fs) /\ (n + j) + 1 = n + (j + 1)
              /\ (n + j) + 1 = n + Len(fs)
          BY <5>1, <5>2, <5>3
        <5> QED
          BY <5>1, <5>2, <5>4
      <4>3. rows[i + 1] = CLOSED
        BY <1>3, <4>1, <4>2
      <4> QED
        BY <1>2, <3>2, <4>1, <4>2, <4>3 DEF Final, rows, Contract!Terminal
    <3> QED
      BY <3>3, <3>4
  <2> QED
    BY <2>1, <2>2
<1> QED
  BY <1>1, <1>2, <1>4, <1>5, <1>6, <1>7 DEF Whole

\* ReadToEnd is about a generator that is over: a step that leaves it and its task as
\* they are keeps it, and so does one after which it did not read to the end.
LEMMA ReadToEndStays ==
  ASSUME ReadToEnd,
         \/ task # "done" /\ UNCHANGED <<consumer, why>>
         \/ UNCHANGED <<consumer, why, outcome, task, held, queue, received>>
         \/ consumer' # "ended" \/ why' # "end"
  PROVE  ReadToEnd'
BY DEF ReadToEnd

-----------------------------------------------------------------------------
(* The frames of a payload.                                                *)

PayloadTypes == {"toolSummary", "toolAction", "report", "effect"}

FromPayload(frames) ==
    /\ IsSeq(frames) /\ Len(frames) \in Nat
    /\ \A i \in 1..Len(frames) : frames[i].type \in PayloadTypes

LEMMA FramesOfPayload ==
  ASSUME NEW S, \A f \in S : f.type \in PayloadTypes, NEW s \in Seq(S)
  PROVE  FromPayload(s)
BY SeqIsSeq, ElementOfSeq DEF FromPayload

LEMMA OneOrNone ==
  ASSUME NEW f, f.type \in PayloadTypes
  PROVE  FromPayload(<<>>) /\ FromPayload(<<f>>)
<1>1. <<>> \in Seq({f}) /\ <<f>> \in Seq({f})
  OBVIOUS
<1> QED
  BY <1>1, FramesOfPayload

LEMMA OpFramesArePayload ==
  ASSUME NEW ops, ops \in Seq(ToSet(ops))
  PROVE  FromPayload(OpFrames(ops))
<1> DEFINE Effects == {Frame("effect", Fresh(i), ops[i].type) : i \in DOMAIN ops}
           Reports == {Frame("report", ops[i].file, "report") : i \in DOMAIN ops}
           S == Effects \cup Reports
           Part(i) ==
             CASE ops[i].type # "report_generated" ->
                    <<Frame("effect", Fresh(i), ops[i].type)>>
               [] ops[i].type = "report_generated" /\ ops[i].file = "" -> <<>>
               [] OTHER -> <<Frame("report", ops[i].file, "report")>>
           seqs == [i \in DOMAIN ops |-> Part(i)]
<1>1. Len(ops) \in Nat /\ DOMAIN ops = 1..Len(ops)
  BY LenProperties
<1>2. ASSUME NEW i \in DOMAIN ops PROVE Part(i) \in Seq(S)
  <2> DEFINE e == Frame("effect", Fresh(i), ops[i].type)
             r == Frame("report", ops[i].file, "report")
  <2>1. e \in S /\ r \in S
    OBVIOUS
  <2>2. CASE ops[i].type # "report_generated"
    <3>1. Part(i) = <<e>>
      BY <2>2
    <3> HIDE DEF Part, S, e, r
    <3>2. <<e>> \in Seq(S)
      BY <2>1
    <3> QED
      BY <3>1, <3>2
  <2>3. CASE ops[i].type = "report_generated" /\ ops[i].file = ""
    <3>1. Part(i) = <<>>
      BY <2>3
    <3> HIDE DEF Part, S
    <3> QED
      BY <3>1, EmptySeq
  <2>4. CASE ops[i].type = "report_generated" /\ ops[i].file # ""
    <3>1. Part(i) = <<r>>
      BY <2>4
    <3> HIDE DEF Part, S, e, r
    <3>2. <<r>> \in Seq(S)
      BY <2>1
    <3> QED
      BY <3>1, <3>2
  <2> QED
    BY <2>2, <2>3, <2>4
<1>3. \A f \in S : f.type \in PayloadTypes
  BY DEF Frame, PayloadTypes
<1>4. OpFrames(ops) = FlattenSeq(seqs)
  BY DEF OpFrames
<1> HIDE DEF Part, S
<1>5. seqs \in [1..Len(ops) -> Seq(S)]
  BY <1>1, <1>2
<1>6. FlattenSeq(seqs) \in Seq(S)
  <2> HIDE DEF seqs
  <2> QED
    BY <1>1, <1>5, FlattenSeqIsSeq
<1> QED
  BY <1>3, <1>4, <1>6, FramesOfPayload

LEMMA CustomFramesArePayload ==
  ASSUME NEW p \in Payloads
  PROVE  FromPayload(CustomFrames(p))
<1>1. CASE p.kind = "tool_summary"
  <2>1. CustomFrames(p) = <<>> \/ CustomFrames(p) = <<Frame("toolSummary", p.call, p.kind)>>
    BY <1>1 DEF CustomFrames
  <2>2. Frame("toolSummary", p.call, p.kind).type \in PayloadTypes
    BY DEF Frame, PayloadTypes
  <2> QED
    BY <2>1, <2>2, OneOrNone
<1>2. CASE p.kind = "tool_action"
  <2>1. CustomFrames(p) = <<>> \/ CustomFrames(p) = <<Frame("toolAction", p.call, p.kind)>>
    BY <1>2 DEF CustomFrames
  <2>2. Frame("toolAction", p.call, p.kind).type \in PayloadTypes
    BY DEF Frame, PayloadTypes
  <2> QED
    BY <2>1, <2>2, OneOrNone
<1>3. CASE p.kind = "tool_end"
  <2>1. CustomFrames(p) = OpFrames(p.ops)
    BY <1>3 DEF CustomFrames
  <2> QED
    BY <1>3, <2>1, PayloadAssumption, OpFramesArePayload
<1>4. CASE p.kind \notin {"tool_summary", "tool_action", "tool_end"}
  <2>1. CustomFrames(p) = <<>> \/ CustomFrames(p) = <<Frame("effect", Fresh(1), p.kind)>>
    BY <1>4 DEF CustomFrames, Effect
  <2>2. Frame("effect", Fresh(1), p.kind).type \in PayloadTypes
    BY DEF Frame, PayloadTypes
  <2> QED
    BY <2>1, <2>2, OneOrNone
<1> QED
  BY <1>1, <1>2, <1>3, <1>4

-----------------------------------------------------------------------------
(* The agentState row.                                                     *)

Current == IF latest = NoState THEN InitialState ELSE latest

StatesOf(rows) == {i \in 1..Len(rows) : rows[i].type = "agentState"}

\* The last state among the rows, if the graph or its caller has one, is v.
Shows(rows, v) ==
    IF v = NoState THEN StatesOf(rows) = {}
    ELSE \E i \in StatesOf(rows) : rows[i].value = v /\ \A j \in StatesOf(rows) : j <= i

LEMMA StatesMeans ==
  /\ IsSeq(Rows) => (AgentStateCurrent <=> (Len(Rows) > 0 => Shows(Rows, Current)))
  /\ IsSeq(Rows') => (AgentStateCurrent' <=> (Len(Rows') > 0 => Shows(Rows', Current')))
<1>1. ASSUME NEW s, IsSeq(s)
      PROVE  DOMAIN s = 1..Len(s) /\ (s = <<>> <=> Len(s) = 0) /\ Len(s) \in Nat
  BY <1>1, EmptySeq, LenProperties DEF IsSeq
<1>2. IsSeq(Rows) => (AgentStateCurrent <=> (Rows # <<>> => Shows(Rows, Current)))
  BY <1>1 DEF AgentStateCurrent, Shows, StatesOf, Current, Rows
<1>3. IsSeq(Rows') => (AgentStateCurrent' <=> (Rows' # <<>> => Shows(Rows', Current')))
  BY <1>1 DEF AgentStateCurrent, Shows, StatesOf, Current, Rows
<1>4. IsSeq(Rows) => (Rows # <<>> <=> Len(Rows) > 0)
  BY <1>1
<1>5. IsSeq(Rows') => (Rows' # <<>> <=> Len(Rows') > 0)
  BY <1>1
<1> QED
  BY <1>2, <1>3, <1>4, <1>5

\* Rows of other types show the state that was shown before, and hide none.
LEMMA OtherRowsShowTheSame ==
  ASSUME NEW rows, NEW fs, IsSeq(rows), IsSeq(fs), NEW v,
         \A i \in 1..Len(fs) : fs[i].type # "agentState"
  PROVE  Shows(rows \o fs, v) <=> Shows(rows, v)
<1> DEFINE all == rows \o fs
<1>1. /\ Len(rows) \in Nat /\ Len(fs) \in Nat /\ Len(all) = Len(rows) + Len(fs)
      /\ \A i \in 1..Len(rows) : all[i] = rows[i]
      /\ \A i \in 1..Len(fs) : all[Len(rows) + i] = fs[i]
  BY Joint
<1>2. \A i \in 1..Len(all) : i \in 1..Len(rows) \/ \E j \in 1..Len(fs) : i = Len(rows) + j
  BY Joint
<1> HIDE DEF all
<1>3. StatesOf(all) = StatesOf(rows)
  <2>1. ASSUME NEW i \in StatesOf(all) PROVE i \in StatesOf(rows)
    BY <1>1, <1>2, <2>1 DEF StatesOf
  <2>2. ASSUME NEW i \in StatesOf(rows) PROVE i \in StatesOf(all)
    BY <1>1, <2>2 DEF StatesOf
  <2> QED
    BY <2>1, <2>2
<1>4. \A i \in StatesOf(rows) : all[i] = rows[i]
  BY <1>1 DEF StatesOf
<1>5. Shows(all, v) <=> Shows(rows, v)
  BY <1>3, <1>4 DEF Shows
<1> QED
  BY <1>5 DEF all

\* A new state row is the last one.
LEMMA NewStateIsShown ==
  ASSUME NEW rows, IsSeq(rows), NEW v, v # NoState
  PROVE  Shows(rows \o <<Frame("agentState", "thread", v)>>, v)
<1> DEFINE f == Frame("agentState", "thread", v)
           all == rows \o <<f>>
           n == Len(rows) + 1
<1>1. f.type = "agentState" /\ f.value = v
  BY DEF Frame
<1> HIDE DEF f
<1>2. IsSeq(<<f>>) /\ Len(<<f>>) = 1 /\ <<f>>[1] = f
  <2>1. <<f>> \in Seq({f})
    OBVIOUS
  <2> QED
    BY <2>1, SeqIsSeq
<1>3. Len(rows) \in Nat /\ Len(all) = n /\ all[n] = f
  BY <1>2, Joint
<1> HIDE DEF all
<1>4. n \in StatesOf(all) /\ \A j \in StatesOf(all) : j <= n
  BY <1>1, <1>3 DEF StatesOf
<1>5. Shows(all, v)
  BY <1>1, <1>3, <1>4 DEF Shows
<1> QED
  BY <1>5 DEF all, f

-----------------------------------------------------------------------------
(* The steps.                                                              *)

\* Frames that carry no state leave the one that is shown.
LEMMA PutKeepsStates ==
  ASSUME Whole, States, NEW fs, IsSeq(fs), Rows' = Rows \o fs,
         \A i \in 1..Len(fs) : fs[i].type # "agentState",
         UNCHANGED <<latest, prev>>, Len(Rows) > 0, task' \notin {"none", "created"}
  PROVE  States'
<1>1. IsSeq(Rows) /\ IsSeq(Rows')
  BY RowsFacts, Joint
<1>2. Shows(Rows, Current)
  BY <1>1, StatesMeans DEF States
<1>3. Shows(Rows \o fs, Current)
  BY <1>1, <1>2, OtherRowsShowTheSame
<1>4. Shows(Rows', Current')
  <2>1. Current' = Current
    BY DEF Current
  <2> QED
    BY <1>3, <2>1
<1> QED
  BY <1>1, <1>4, StatesMeans DEF States

\* The first row the client gets is the run's, with the state the caller came with.
LEMMA StartRunKeeps ==
  ASSUME RowsInv, IInv, StartRun
  PROVE  Whole' /\ States' /\ ReadToEnd'
<1> DEFINE head == <<RunRow("running"), Frame("suggestion", "thread", "deleted")>>
           state == <<Frame("agentState", "thread", InitialState)>>
<1>1. /\ task = "created" /\ task' = "draining" /\ UNCHANGED <<held, channelVars, consumerVars>>
      /\ received = <<>> /\ queue = <<>> /\ Whole /\ States /\ ReadToEnd
  BY DEF StartRun, TaskStep, RowsInv, Whole
<1>2. PICK fs : queue' = queue \o fs /\ fs = head \o IF InitialState = NoState THEN <<>> ELSE state
  BY DEF StartRun, Put
<1>3. /\ IsSeq(head) /\ Len(head) = 2
      /\ head[1] = RunRow("running") /\ head[2] = Frame("suggestion", "thread", "deleted")
  <2>1. head \in Seq({RunRow("running"), Frame("suggestion", "thread", "deleted")})
    OBVIOUS
  <2> QED
    BY <2>1, SeqIsSeq
<1>4. RunRow("running").type = "run" /\ Frame("suggestion", "thread", "deleted").type = "suggestion"
  BY DEF RunRow, Frame
<1>5. IsSeq(fs) /\ Len(fs) \in Nat /\ Len(fs) > 0 /\ fs[1] = RunRow("running")
      /\ (\A i \in 1..Len(fs) : fs[i].type \in Types /\ (fs[i].type = "run" => i = 1))
      /\ Shows(fs, InitialState)
  <2> HIDE DEF head
  <2>1. /\ StatesOf(head) = {}
        /\ \A i \in 1..Len(head) : head[i].type \in Types /\ (head[i].type = "run" => i = 1)
    <3>1. \A i \in 1..Len(head) : i = 1 \/ i = 2
      BY <1>3
    <3> QED
      BY <1>3, <1>4, <3>1 DEF StatesOf, Types
  <2>2. CASE InitialState = NoState
    <3>1. fs = head
      BY <1>2, <1>3, <2>2, ConcatEmptySeq DEF IsSeq
    <3>2. Shows(head, InitialState)
      BY <2>1, <2>2 DEF Shows
    <3>3. Len(head) \in Nat /\ Len(head) > 0
      BY <1>3
    <3> QED
      BY <1>3, <2>1, <3>1, <3>2, <3>3
  <2>3. CASE InitialState # NoState
    <3>1. fs = head \o state
      BY <1>2, <2>3
    <3>2. Shows(fs, InitialState)
      BY <1>3, <2>3, <3>1, NewStateIsShown
    <3>3. IsSeq(state) /\ Len(state) = 1 /\ state[1].type = "agentState"
      <4>1. state \in Seq({Frame("agentState", "thread", InitialState)})
        OBVIOUS
      <4>2. Frame("agentState", "thread", InitialState).type = "agentState"
        BY DEF Frame
      <4> QED
        BY <4>1, <4>2, SeqIsSeq
    <3> HIDE DEF state
    <3>4. /\ IsSeq(fs) /\ Len(fs) = 2 + 1
          /\ \A i \in 1..2 : fs[i] = head[i]
          /\ \A i \in 1..1 : fs[2 + i] = state[i]
      <4>1. IsSeq(head) /\ IsSeq(state)
        BY <1>3, <3>3
      <4>2. /\ IsSeq(head \o state) /\ Len(head \o state) = Len(head) + Len(state)
            /\ \A i \in 1..Len(head) : (head \o state)[i] = head[i]
            /\ \A i \in 1..Len(state) : (head \o state)[Len(head) + i] = state[i]
        BY <4>1, Joint
      <4> QED
        BY <1>3, <3>1, <3>3, <4>2
    <3>5. \A i \in 1..Len(fs) : i \in 1..2 \/ i = 2 + 1
      BY <3>4
    <3> QED
      BY <1>3, <2>1, <3>2, <3>3, <3>4, <3>5 DEF Types
  <2> QED
    BY <2>2, <2>3
<1>6. Len(Rows) = 0 /\ Rows = <<>> /\ task # "done" /\ received' = received
  BY <1>1, RowsFacts DEF consumerVars
<1>7. Whole' /\ Rows' = Rows \o fs
  <2> HIDE DEF head
  <2> QED
    BY <1>1, <1>2, <1>5, <1>6, PutKeepsWhole
<1>8. Rows' = fs
  BY <1>5, <1>6, <1>7, ConcatEmptySeq DEF IsSeq
<1>9. latest = NoState /\ UNCHANGED <<latest, prev>>
  BY <1>1 DEF States, channelVars
<1>10. AgentStateCurrent'
  <2>1. Current' = InitialState
    BY <1>9 DEF Current
  <2> QED
    BY <1>5, <1>8, <2>1, StatesMeans
<1>11. States'
  BY <1>1, <1>9, <1>10 DEF States
<1>12. ReadToEnd'
  BY <1>1, <1>6, ReadToEndStays DEF consumerVars
<1> QED
  BY <1>7, <1>11, <1>12

LEMMA TakeSnapshotKeeps ==
  ASSUME RowsInv, TakeSnapshot
  PROVE  Whole' /\ States' /\ ReadToEnd'
<1>1. /\ task = "draining" /\ task' = task /\ UNCHANGED <<held, consumerVars>>
      /\ Whole /\ States /\ ReadToEnd /\ Len(Rows) > 0
  BY DEF TakeSnapshot, Draining, TaskStep, RowsInv, Whole
<1>2. PICK v, fs :
        /\ v # NoState /\ latest' = v /\ prev' = v /\ queue' = queue \o fs
        /\ fs = IF v = prev THEN <<>> ELSE <<Frame("agentState", "thread", v)>>
  BY StateAssumption DEF TakeSnapshot, Put, Project
<1>3. IsSeq(Rows) /\ IsSeq(queue) /\ received' = received
  BY <1>1, RowsFacts DEF Whole, consumerVars
<1>4. ReadToEnd'
  BY <1>1, ReadToEndStays DEF consumerVars
<1>5. Current' = v
  BY <1>2 DEF Current
<1>6. CASE v = prev
  <2>1. queue' = queue
    BY <1>2, <1>3, <1>6, ConcatEmptySeq DEF IsSeq
  <2>2. UNCHANGED <<latest, prev>>
    BY <1>1, <1>2, <1>6 DEF States
  <2> QED
    BY <1>1, <1>3, <1>4, <2>1, <2>2, QuietKeeps DEF SameStage, consumerVars
<1>7. CASE v # prev
  <2> DEFINE f == Frame("agentState", "thread", v)
  <2>1. fs = <<f>> /\ f.type = "agentState"
    BY <1>2, <1>7 DEF Frame
  <2>2. Shows(Rows \o <<f>>, v)
    BY <1>2, <1>3, NewStateIsShown
  <2> HIDE DEF f
  <2>3. IsSeq(fs) /\ Len(fs) = 1 /\ fs[1] = f
    <3>1. <<f>> \in Seq({f})
      OBVIOUS
    <3> QED
      BY <2>1, <3>1, SeqIsSeq
  <2>4. \A i \in 1..Len(fs) : fs[i].type \in Types /\ fs[i].type # "run"
    BY <2>1, <2>3 DEF Types
  <2>5. Whole' /\ Rows' = Rows \o fs
    <3>1. Whole /\ task # "done" /\ task' \notin {"none", "created"} /\ Len(Rows) # 0
      BY <1>1
    <3> QED
      BY <1>2, <1>3, <2>3, <2>4, <3>1, PutKeepsWhole
  <2>6. AgentStateCurrent'
    <3>1. IsSeq(Rows')
      BY <1>3, <2>3, <2>5, Joint
    <3>2. Shows(Rows', Current')
      BY <1>5, <2>1, <2>2, <2>5
    <3> QED
      BY <3>1, <3>2, StatesMeans
  <2> QED
    BY <1>1, <1>2, <1>4, <2>5, <2>6 DEF States
<1> QED
  BY <1>6, <1>7

\* Frames of a task that runs which carry no state: a payload's, or the last ones.
LEMMA OtherFramesKeep ==
  ASSUME RowsInv, task \in {"draining", "unwinding", "collecting"},
         task' \notin {"none", "created"}, UNCHANGED <<consumer, why, received, latest, prev>>,
         NEW fs, IsSeq(fs), queue' = queue \o fs,
         \A i \in 1..Len(fs) :
           /\ fs[i].type # "agentState"
           /\ \/ fs[i].type \in Types
              \/ /\ fs[i] = CLOSED /\ i = Len(fs) /\ i > 1
                 /\ task' = "done" /\ Closing(held', fs[i - 1])
           /\ fs[i].type = "run" => /\ fs[i].value \in Contract!Terminal /\ task' = "done"
                                    /\ i + 1 = Len(fs) /\ fs[i + 1] = CLOSED
  PROVE  Whole' /\ States' /\ ReadToEnd'
<1>1. /\ Whole /\ States /\ ReadToEnd /\ Len(Rows) > 0 /\ task # "done"
      /\ why' # "end"
  BY DEF RowsInv, Whole, Ledger, ReadToEnd, Typed
<1>2. ReadToEnd'
  BY <1>1, ReadToEndStays
<1>3. Whole' /\ Rows' = Rows \o fs
  <2>1. Len(Rows) # 0
    BY <1>1
  <2>2. \A i \in 1..Len(fs) : \/ fs[i].type \in Types
                              \/ /\ fs[i] = CLOSED /\ i = Len(fs) /\ i > 1
                                 /\ task' = "done" /\ Closing(held', fs[i - 1])
    OBVIOUS
  <2>3. \A i \in 1..Len(fs) : fs[i].type = "run" =>
          \/ Len(Rows) = 0 /\ i = 1
          \/ /\ fs[i].value \in Contract!Terminal /\ task' = "done" /\ why' # "end"
             /\ i + 1 = Len(fs) /\ fs[i + 1] = CLOSED
    BY <1>1
  <2> QED
    BY <1>1, <2>1, <2>2, <2>3, PutKeepsWhole
<1>4. States'
  BY <1>1, <1>3, PutKeepsStates
<1> QED
  BY <1>2, <1>3, <1>4

LEMMA TakePayloadKeeps ==
  ASSUME RowsInv, TakePayload
  PROVE  Whole' /\ States' /\ ReadToEnd'
<1> PICK p \in Payloads : Put(CustomFrames(p))
  BY DEF TakePayload
<1>1. PICK fs : fs = CustomFrames(p) /\ queue' = queue \o fs
  BY DEF Put
<1>2. IsSeq(fs) /\ \A i \in 1..Len(fs) : fs[i].type \in PayloadTypes
  BY <1>1, CustomFramesArePayload DEF FromPayload
<1>3. \A i \in 1..Len(fs) :
        fs[i].type # "agentState" /\ fs[i].type \in Types /\ fs[i].type # "run"
  BY <1>2 DEF PayloadTypes, Types
<1> QED
  BY <1>1, <1>2, <1>3, OtherFramesKeep DEF TakePayload, Draining, TaskStep, consumerVars

LEMMA AbortKeeps ==
  ASSUME RowsInv, Abort
  PROVE  Whole' /\ States' /\ ReadToEnd'
<1> DEFINE e == RunRow("error")
<1>1. PICK fs : fs = <<e, CLOSED>> /\ queue' = queue \o fs
  BY DEF Abort, Put
<1>2. e.type = "run" /\ CLOSED.type = "CLOSED" /\ e.value \in Contract!Terminal
  BY DEF RunRow, CLOSED, Frame, Contract!Terminal
<1>3. held' # "none" /\ Closing(held', e)
  BY DEF Abort, RowsInv, Ledger, Closing
<1> HIDE DEF e
<1>4. IsSeq(fs) /\ Len(fs) = 2 /\ fs[1] = e /\ fs[2] = CLOSED
  <2>1. <<e, CLOSED>> \in Seq({e, CLOSED})
    OBVIOUS
  <2> QED
    BY <1>1, <2>1, SeqIsSeq
<1>5. ASSUME NEW i \in 1..Len(fs)
      PROVE  /\ fs[i].type # "agentState"
             /\ \/ fs[i].type \in Types
                \/ /\ fs[i] = CLOSED /\ i = Len(fs) /\ i > 1
                   /\ task' = "done" /\ Closing(held', fs[i - 1])
             /\ fs[i].type = "run" => /\ fs[i].value \in Contract!Terminal /\ task' = "done"
                                      /\ i + 1 = Len(fs) /\ fs[i + 1] = CLOSED
  <2>1. i = 1 \/ i = 2
    BY <1>4
  <2> QED
    BY <1>2, <1>3, <1>4, <2>1 DEF Types, Abort
<1> QED
  BY <1>1, <1>4, <1>5, OtherFramesKeep DEF Abort, TaskStep, consumerVars, channelVars

LEMMA CompleteKeeps ==
  ASSUME RowsInv, Complete
  PROVE  Whole' /\ States' /\ ReadToEnd'
<1>1. task = "collecting" /\ task' = "done" /\ held' = "none"
  BY DEF Complete, RowsInv, Ledger
<1>2. CLOSED.type = "CLOSED" /\ \A status : RunRow(status).type = "run"
  BY DEF RunRow, CLOSED, Frame
<1>3. CASE Put(<<RunRow("complete"), CLOSED>>)
  <2> DEFINE e == RunRow("complete")
  <2>1. PICK fs : fs = <<e, CLOSED>> /\ queue' = queue \o fs
    BY <1>3 DEF Put
  <2>2. e.type = "run" /\ Closing(held', e) /\ e.value \in Contract!Terminal
    BY <1>1, <1>2 DEF Closing, RunRow, Frame, Contract!Terminal
  <2> HIDE DEF e
  <2>3. IsSeq(fs) /\ Len(fs) = 2 /\ fs[1] = e /\ fs[2] = CLOSED
    <3>1. <<e, CLOSED>> \in Seq({e, CLOSED})
      OBVIOUS
    <3> QED
      BY <2>1, <3>1, SeqIsSeq
  <2>4. ASSUME NEW i \in 1..Len(fs)
        PROVE  /\ fs[i].type # "agentState"
               /\ \/ fs[i].type \in Types
                  \/ /\ fs[i] = CLOSED /\ i = Len(fs) /\ i > 1
                     /\ task' = "done" /\ Closing(held', fs[i - 1])
               /\ fs[i].type = "run" => /\ fs[i].value \in Contract!Terminal /\ task' = "done"
                                        /\ i + 1 = Len(fs) /\ fs[i + 1] = CLOSED
    <3>1. i = 1 \/ i = 2
      BY <2>3
    <3> QED
      BY <1>1, <1>2, <2>2, <2>3, <3>1 DEF Types
  <2> QED
    BY <1>1, <2>1, <2>3, <2>4, OtherFramesKeep
    DEF Complete, TaskStep, consumerVars, channelVars
<1>4. CASE Put(<<Frame("interrupt", "i", "open"), RunRow("interrupt"), CLOSED>>)
  <2> DEFINE o == Frame("interrupt", "i", "open")
             e == RunRow("interrupt")
  <2>1. PICK fs : fs = <<o, e, CLOSED>> /\ queue' = queue \o fs
    BY <1>4 DEF Put
  <2>2. /\ o.type = "interrupt" /\ e.type = "run" /\ Closing(held', e)
        /\ e.value \in Contract!Terminal
    BY <1>1, <1>2 DEF Closing, RunRow, Frame, Contract!Terminal
  <2> HIDE DEF o, e
  <2>3. IsSeq(fs) /\ Len(fs) = 3 /\ fs[1] = o /\ fs[2] = e /\ fs[3] = CLOSED
    <3>1. <<o, e, CLOSED>> \in Seq({o, e, CLOSED})
      OBVIOUS
    <3> QED
      BY <2>1, <3>1, SeqIsSeq
  <2>4. ASSUME NEW i \in 1..Len(fs)
        PROVE  /\ fs[i].type # "agentState"
               /\ \/ fs[i].type \in Types
                  \/ /\ fs[i] = CLOSED /\ i = Len(fs) /\ i > 1
                     /\ task' = "done" /\ Closing(held', fs[i - 1])
               /\ fs[i].type = "run" => /\ fs[i].value \in Contract!Terminal /\ task' = "done"
                                        /\ i + 1 = Len(fs) /\ fs[i + 1] = CLOSED
    <3>1. i = 1 \/ i = 2 \/ i = 3
      BY <2>3
    <3> QED
      BY <1>1, <1>2, <2>2, <2>3, <3>1 DEF Types
  <2> QED
    BY <1>1, <2>1, <2>3, <2>4, OtherFramesKeep
    DEF Complete, TaskStep, consumerVars, channelVars
<1> QED
  BY <1>3, <1>4 DEF Complete

\* A frame that is handed to the caller keeps its place among the rows.
LEMMA GetKeeps ==
  ASSUME RowsInv, Get
  PROVE  Whole' /\ States' /\ ReadToEnd'
<1>1. /\ queue # <<>> /\ Head(queue) # CLOSED
      /\ received' = Append(received, Head(queue)) /\ queue' = Tail(queue)
      /\ consumer' = "holding" /\ UNCHANGED <<why, task, held, latest, prev>>
      /\ Whole /\ States /\ ReadToEnd
  BY DEF Get, RowsInv, channelVars
<1> DEFINE S == ToSet(received) \cup ToSet(queue)
           f == Head(queue)
           n == Len(received) + 1
<1>2. received \in Seq(S) /\ queue \in Seq(S)
  BY <1>1, SeqMonotonic DEF Whole, IsSeq
<1> HIDE DEF S
<1>3. f \in S /\ Tail(queue) \in Seq(S) /\ <<f>> \in Seq(S)
  BY <1>1, <1>2, HeadTailProperties
<1>4. received' \in Seq(S) /\ queue' \in Seq(S) /\ Len(received') = n /\ received'[n] = f
      /\ \A i \in 1..Len(received) : received'[i] = received[i]
  BY <1>1, <1>2, <1>3, AppendProperties
<1>5. Rows' = Rows
  <2>1. received' = received \o <<f>>
    BY <1>1, <1>2, <1>3, AppendIsConcat
  <2>2. queue = <<f>> \o Tail(queue)
    BY <1>1, <1>2
  <2>3. (received \o <<f>>) \o Tail(queue) = received \o (<<f>> \o Tail(queue))
    BY <1>2, <1>3, ConcatAssociative
  <2> QED
    BY <1>1, <2>1, <2>2, <2>3 DEF Rows
<1>6. f.type \in Types
  <2>1. /\ queue # <<>> /\ Len(queue) \in Nat /\ Len(queue) # 0 /\ Len(received) \in Nat
        /\ Len(Rows) = Len(received) + Len(queue)
        /\ \A i \in 1..Len(queue) : Rows[Len(received) + i] = queue[i]
    BY <1>1, RowsFacts
  <2>2. f = queue[1]
    BY <1>1, <1>2
  <2> HIDE DEF f
  <2>3. 1 \in 1..Len(queue) /\ n \in 1..Len(Rows)
    BY <2>1
  <2>4. Rows[n] = f
    BY <2>1, <2>2, <2>3
  <2>5. ~Sentinel(n)
    BY <1>1, <2>4 DEF Sentinel, f
  <2> QED
    BY <1>1, <2>3, <2>4, <2>5 DEF Whole
<1>7. \A i \in 1..Len(received') : received'[i].type \in Types
  <2>1. Len(received) \in Nat
    BY <1>2, LenProperties
  <2>2. \A i \in 1..Len(received') : i \in 1..Len(received) \/ i = n
    BY <1>4, <2>1
  <2> QED
    BY <1>1, <1>4, <1>6, <2>2 DEF Whole
<1>8. IsSeq(received') /\ IsSeq(queue')
  BY <1>4, SeqIsSeq
<1>9. SameStage
  BY <1>1 DEF SameStage
<1>10. Whole'
  BY <1>1, <1>5, <1>7, <1>8, <1>9, SameRowsKeepWhole
<1>11. States'
  BY <1>1, <1>5, <1>9, SameRowsKeepStates
<1>12. ReadToEnd'
  BY <1>1 DEF ReadToEnd
<1> QED
  BY <1>10, <1>11, <1>12

\* The sentinel was the last frame: whoever takes it has the run and its terminal row.
LEMMA GetClosedKeeps ==
  ASSUME RowsInv, GetClosed
  PROVE  Whole' /\ States' /\ ReadToEnd'
<1>1. /\ queue # <<>> /\ Head(queue) = CLOSED /\ queue' = Tail(queue)
      /\ UNCHANGED <<received, task, held, latest, prev>> /\ Finally("end")
      /\ Whole /\ States /\ ReadToEnd
  BY DEF GetClosed, RowsInv, channelVars
<1>2. /\ task = "done" /\ Len(queue) = 1 /\ queue' = <<>>
      /\ Len(received) > 0 /\ Closing(held, received[Len(received)])
  BY <1>1, SentinelIsLast
<1>3. IsSeq(received) /\ IsSeq(queue) /\ Rows' = received
  BY <1>1, <1>2, ConcatEmptySeq DEF Whole, IsSeq, Rows
<1>4. ReadToEnd'
  BY <1>1, <1>2 DEF ReadToEnd, Finally
<1>5. IsSeq(queue')
  <2>1. <<>> \in Seq({})
    OBVIOUS
  <2> QED
    BY <1>2, <2>1, SeqIsSeq
<1>6. received[1] = RunRow("running")
  <2>1. /\ Len(received) \in Nat /\ Len(queue) \in Nat
        /\ Len(Rows) = Len(received) + Len(queue)
        /\ \A i \in 1..Len(received) : Rows[i] = received[i]
    BY <1>1, RowsFacts
  <2>2. Rows[1] = received[1] /\ Len(Rows) > 0
    BY <1>2, <2>1
  <2> QED
    BY <1>1, <2>2 DEF Whole
<1>7. Whole'
  <2>1. /\ Len(received) \in Nat /\ Len(Rows) = Len(received) + 1
        /\ \A i \in 1..Len(received) : Rows[i] = received[i]
    BY <1>1, <1>2, RowsFacts
  <2>2. why' = "end" /\ why # "end"
    BY DEF GetClosed, Finally, RowsInv, Ledger
  <2>3. ASSUME NEW i \in 1..Len(received), received[i].type = "run"
        PROVE  i = 1 \/ Final(i)'
    <3>1. i \in 1..Len(Rows) /\ Rows[i] = received[i]
      BY <2>1
    <3>2. i = 1 \/ Final(i)
      BY <1>1, <2>3, <3>1 DEF Whole
    <3>3. ASSUME Final(i) PROVE i = Len(received)
      BY <2>1, <2>2, <3>3 DEF Final
    <3> QED
      BY <1>1, <1>3, <2>2, <3>1, <3>2, <3>3 DEF Final, Contract!Terminal
  <2> QED
    BY <1>1, <1>2, <1>3, <1>5, <1>6, <2>3 DEF Whole
<1>8. Shows(received, Current)
  <2>1. IsSeq(Rows) /\ Len(Rows) > 0
    <3>1. Len(received) \in Nat /\ Len(Rows) = Len(received) + Len(queue)
      BY <1>1, RowsFacts
    <3> QED
      BY <1>1, <1>2, <3>1, RowsFacts
  <2>2. Shows(received \o queue, Current)
    BY <1>1, <2>1, StatesMeans DEF States, Rows
  <2>3. \A i \in 1..Len(queue) : queue[i].type # "agentState"
    <3>1. queue[1] = CLOSED
      BY <1>1, <1>3 DEF IsSeq
    <3>2. CLOSED.type = "CLOSED"
      BY DEF CLOSED, Frame
    <3> QED
      BY <1>2, <3>1, <3>2
  <2> QED
    BY <1>3, <2>2, <2>3, OtherRowsShowTheSame
<1>9. States'
  <2>1. Current' = Current
    BY <1>1 DEF Current
  <2>2. AgentStateCurrent'
    BY <1>3, <1>8, <2>1, StatesMeans
  <2> QED
    BY <1>1, <2>2 DEF States
<1> QED
  BY <1>4, <1>7, <1>9

\* The steps that neither write a row nor take one.
LEMMA QuietStepKeeps ==
  ASSUME RowsInv, IInv,
         \/ GraphRaises \/ DrainEnds \/ CollectFails \/ CancelLands
         \/ Open \/ OpenFails \/ GoOn \/ Leave \/ Join \/ UNCHANGED vars
  PROVE  Whole' /\ States' /\ ReadToEnd'
<1>1. Whole /\ States /\ ReadToEnd /\ Typed /\ Ledger /\ TaskIsHeld
  BY DEF RowsInv, IInv
<1> USE DEF consumerVars, channelVars, TaskStep
<1>2. UNCHANGED <<received, queue, latest, prev>>
  BY DEF GraphRaises, DrainEnds, CollectFails, CancelLands, Open, OpenFails, GoOn, Leave,
         Join, vars
<1>3. SameStage
  <2> USE DEF SameStage
  <2>1. CASE GraphRaises
    BY <2>1 DEF GraphRaises
  <2>2. CASE DrainEnds \/ CollectFails
    BY <2>2 DEF DrainEnds, CollectFails
  <2>3. CASE CancelLands
    BY <1>1, <2>3 DEF CancelLands, TaskIsHeld, Typed
  <2>4. CASE Open
    BY <1>1, <2>4 DEF Open, TaskIsHeld
  <2>5. CASE OpenFails \/ Leave
    BY <1>1, <2>5 DEF OpenFails, Leave, Finally, Ledger
  <2>6. CASE GoOn \/ Join \/ UNCHANGED vars
    BY <2>6 DEF GoOn, Join, vars
  <2> QED
    BY <2>1, <2>2, <2>3, <2>4, <2>5, <2>6
<1>4. ReadToEnd'
  <2>1. CASE GraphRaises \/ DrainEnds \/ CollectFails
    BY <1>1, <2>1, ReadToEndStays DEF GraphRaises, DrainEnds, CollectFails
  <2>2. CASE CancelLands
    BY <1>1, <2>2, ReadToEndStays DEF CancelLands, TaskIsHeld
  <2>3. CASE Open \/ OpenFails \/ GoOn
    BY <1>1, <2>3, ReadToEndStays DEF Open, OpenFails, GoOn
  <2>4. CASE Leave
    BY <1>1, <2>4, ReadToEndStays DEF Leave, Finally
  <2>5. CASE Join
    BY <1>1, <2>5, ReadToEndStays DEF Join, Ledger
  <2>6. CASE UNCHANGED vars
    BY <1>1, <2>6, ReadToEndStays DEF vars
  <2> QED
    BY <2>1, <2>2, <2>3, <2>4, <2>5, <2>6
<1> QED
  BY <1>1, <1>2, <1>3, <1>4, QuietKeeps

LEMMA InitRows == Init => RowsInv
<1> SUFFICES ASSUME Init PROVE RowsInv
  OBVIOUS
<1>1. received = <<>> /\ queue = <<>>
  BY DEF Init
<1>2. IsSeq(received) /\ IsSeq(queue) /\ Len(received) = 0
  <2>1. <<>> \in Seq({})
    OBVIOUS
  <2> QED
    BY <1>1, <2>1, SeqIsSeq
<1>3. IsSeq(Rows) /\ Len(Rows) = 0
  BY <1>1, <1>2, Joint DEF Rows
<1>4. Whole
  BY <1>1, <1>2, <1>3 DEF Init, Whole
<1>5. Typed /\ Ledger /\ ReadToEnd
  <2>1. 0 \in 0..MaxItems
    BY ItemBound
  <2>2. Typed
    BY <2>1 DEF Init, Typed
  <2> QED
    BY <2>2 DEF Init, Ledger, ReadToEnd
<1>6. States
  <2>1. AgentStateCurrent
    BY <1>3, StatesMeans
  <2> QED
    BY <2>1 DEF Init, States
<1> QED
  BY <1>4, <1>5, <1>6 DEF RowsInv

LEMMA NextKeepsRows == IInv /\ RowsInv /\ [Next]_vars => RowsInv'
<1> SUFFICES ASSUME IInv, RowsInv, [Next]_vars PROVE RowsInv'
  OBVIOUS
<1>1. Typed' /\ Ledger'
  BY NextKeepsLedger
<1>2. Whole' /\ States' /\ ReadToEnd'
  BY StartRunKeeps, TakeSnapshotKeeps, TakePayloadKeeps, AbortKeeps, CompleteKeeps,
     GetKeeps, GetClosedKeeps, QuietStepKeeps DEF Next
<1> QED
  BY <1>1, <1>2 DEF RowsInv

LEMMA RowsAlways == Spec => []RowsInv
BY InitInv, NextKeepsInv, InitRows, NextKeepsRows, PTL DEF Spec

\* Every variable keeps its type, and every frame but the sentinel has one of the types
\* of the protocol, whatever the payloads and snapshots are.
THEOREM TypeCorrect == Spec => []TypeOK
<1>1. RowsInv => TypeOK
  <2> SUFFICES ASSUME RowsInv PROVE TypeOK
    OBVIOUS
  <2>1. Whole /\ Typed
    BY DEF RowsInv
  <2>2. \A i \in DOMAIN received : received[i].type \in Types
    BY <2>1, RowsFacts DEF Whole
  <2>3. ASSUME NEW i \in DOMAIN queue PROVE queue[i] = CLOSED \/ queue[i].type \in Types
    <3>1. /\ i \in 1..Len(queue) /\ Len(received) \in Nat /\ Len(queue) \in Nat
          /\ Len(Rows) = Len(received) + Len(queue) /\ Rows[Len(received) + i] = queue[i]
      BY <2>1, RowsFacts
    <3>2. Len(received) + i \in 1..Len(Rows)
      BY <3>1
    <3> QED
      BY <2>1, <3>1, <3>2 DEF Whole, Sentinel
  <2> QED
    BY <2>1, <2>2, <2>3 DEF TypeOK, Typed
<1> QED
  BY RowsAlways, <1>1, PTL

\* A caller of iter_state_rows that reads to the end has the whole run, from the run row
\* to the terminal row that tells how the run ended, and the exception if there was one.
THEOREM IterationHasTheWholeRun == Spec => []IterationIsWhole
<1>1. RowsInv => IterationIsWhole
  <2> SUFFICES ASSUME RowsInv, consumer = "ended", why = "end"
               PROVE  /\ queue = <<>>
                      /\ Head(received) = RunRow("running")
                      /\ IF outcome = "end"
                         THEN Last(received) \in {RunRow("complete"), RunRow("interrupt")}
                         ELSE Last(received) = RunRow("error") /\ outcome = held
    BY DEF IterationIsWhole
  <2>1. /\ queue = <<>> /\ Len(received) > 0 /\ Closing(held, received[Len(received)])
        /\ outcome = (IF held = "none" THEN "end" ELSE held)
        /\ Whole /\ held \in {"none", "failed", "cancelled"}
    BY DEF RowsInv, ReadToEnd, Typed
  <2>2. Rows = received /\ received \in Seq(ToSet(received))
    BY <2>1, ConcatEmptySeq DEF Rows, Whole, IsSeq
  <2>3. Head(received) = RunRow("running")
    BY <2>1, <2>2 DEF Whole
  <2>4. Last(received) = received[Len(received)]
    BY DEF Last
  <2> QED
    BY <2>1, <2>3, <2>4 DEF Closing
<1> QED
  BY RowsAlways, <1>1, PTL

\* The last agentState row a client gets is the graph's latest state: what
\* _stream_values leaves out, the client has.
THEOREM ClientHasTheState == Spec => []AgentStateCurrent
<1>1. RowsInv => AgentStateCurrent
  BY DEF RowsInv, States
<1> QED
  BY RowsAlways, <1>1, PTL

-----------------------------------------------------------------------------
(* RunContract, as the caller of the generator sees it.                    *)

LEMMA LastRunRowIs ==
  ASSUME NEW s, NEW k \in RunRowsOf(s), \A j \in RunRowsOf(s) : j <= k
  PROVE  LastRunRow(s) = s[k]
<1> DEFINE c == CHOOSE i \in RunRowsOf(s) : \A j \in RunRowsOf(s) : j <= i
<1>1. c \in RunRowsOf(s) /\ \A j \in RunRowsOf(s) : j <= c
  OBVIOUS
<1>2. c <= k /\ k <= c /\ c \in Int /\ k \in Int
  BY <1>1 DEF RunRowsOf
<1>3. c = k
  BY <1>2
<1> QED
  BY <1>3 DEF LastRunRow

\* While the generator has frames other than the sentinel before it, the run row it has
\* handed on is the first, which reads "running".
LEMMA ReadsRunning ==
  ASSUME Whole, why # "end", queue # <<>>, Head(queue) # CLOSED, received # <<>>
  PROVE  /\ received[1] = RunRow("running") /\ 1 \in 1..Len(received)
         /\ RunRowsOf(received) = {1} /\ RowOf(received) = "running"
<1>1. /\ Len(received) \in Nat /\ Len(queue) \in Nat /\ Len(received) # 0 /\ Len(queue) # 0
      /\ Len(Rows) = Len(received) + Len(queue)
      /\ \A i \in 1..Len(received) : Rows[i] = received[i]
      /\ \A i \in 1..Len(queue) : Rows[Len(received) + i] = queue[i]
  BY RowsFacts
<1>2. Head(queue) = queue[1]
  BY DEF Whole, IsSeq
<1>3. received[1] = RunRow("running") /\ 1 \in 1..Len(received)
  <2>1. Len(Rows) > 0 /\ 1 \in 1..Len(received)
    BY <1>1
  <2> QED
    BY <1>1, <2>1 DEF Whole
<1>4. ASSUME NEW i \in RunRowsOf(received) PROVE i = 1
  <2>1. i \in 1..Len(received) /\ received[i].type = "run"
    BY DEF RunRowsOf
  <2>2. i \in 1..Len(Rows) /\ Rows[i].type = "run"
    BY <1>1, <2>1
  <2>3. ASSUME Final(i) PROVE FALSE
    <3>1. i + 1 = Len(Rows) /\ Rows[i + 1] = CLOSED
      BY <2>3 DEF Final
    <3>2. i = Len(received) /\ Len(queue) = 1
      BY <1>1, <2>1, <3>1
    <3>3. Rows[Len(received) + 1] = queue[1]
      BY <1>1, <3>2
    <3> QED
      BY <1>2, <3>1, <3>2, <3>3
  <2> QED
    BY <2>2, <2>3 DEF Whole
<1>5. RunRow("running").type = "run" /\ RunRow("running").value = "running"
  BY DEF RunRow, Frame
<1>6. RunRowsOf(received) = {1}
  BY <1>3, <1>4, <1>5 DEF RunRowsOf
<1>7. RowOf(received) = "running"
  <2>1. LastRunRow(received) = received[1]
    BY <1>6, LastRunRowIs
  <2> QED
    BY <1>3, <1>5, <2>1 DEF RowOf
<1> QED
  BY <1>3, <1>6, <1>7

\* One more frame on the caller's side.
LEMMA OneMore ==
  ASSUME NEW S, NEW s \in Seq(S), NEW f \in S
  PROVE  LET t == Append(s, f)
             n == Len(s) + 1
         IN  /\ n \in Nat /\ Len(t) = n /\ t[n] = f /\ t # <<>>
             /\ \A i \in 1..Len(s) : t[i] = s[i]
             /\ \A i \in 1..Len(t) : i \in 1..Len(s) \/ i = n
             /\ RunRowsOf(t) = RunRowsOf(s) \cup (IF f.type = "run" THEN {n} ELSE {})
             /\ Cardinality(OthersOf(t)) =
                  Cardinality(OthersOf(s)) + (IF f.type = "run" THEN 0 ELSE 1)
             /\ Cardinality(OthersOf(s)) \in Nat
<1> DEFINE t == Append(s, f)
           n == Len(s) + 1
<1>1. Len(s) \in Nat
  BY LenProperties
<1>2. n \in Nat /\ Len(t) = n /\ t[n] = f /\ t # <<>> /\ \A i \in 1..Len(s) : t[i] = s[i]
  BY <1>1, AppendProperties
<1> HIDE DEF t
<1>3. \A i \in 1..Len(t) : i \in 1..Len(s) \/ i = n
  BY <1>1, <1>2
<1>4. n \notin 1..Len(s) /\ n \in 1..Len(t) /\ \A i \in 1..Len(s) : i \in 1..Len(t)
  BY <1>1, <1>2
<1> HIDE DEF n
<1>5. RunRowsOf(t) = RunRowsOf(s) \cup (IF f.type = "run" THEN {n} ELSE {})
  BY <1>2, <1>3, <1>4 DEF RunRowsOf
<1>6. OthersOf(t) = OthersOf(s) \cup (IF f.type = "run" THEN {} ELSE {n})
  BY <1>2, <1>3, <1>4 DEF OthersOf
<1>7. IsFiniteSet(OthersOf(s)) /\ n \notin OthersOf(s)
  <2>1. OthersOf(s) \subseteq 1..Len(s) /\ IsFiniteSet(1..Len(s))
    BY <1>1, FS_Interval DEF OthersOf
  <2> QED
    BY <1>4, <2>1, FS_Subset
<1>8. Cardinality(OthersOf(s)) \in Nat
  BY <1>7, FS_CardinalityType
<1>9. Cardinality(OthersOf(t)) =
        Cardinality(OthersOf(s)) + (IF f.type = "run" THEN 0 ELSE 1)
  <2>1. CASE f.type = "run"
    BY <1>6, <1>8, <2>1
  <2>2. CASE f.type # "run"
    <3>1. OthersOf(t) = OthersOf(s) \cup {n}
      BY <1>6, <2>2
    <3> QED
      BY <1>7, <2>2, <3>1, FS_AddElement
  <2> QED
    BY <2>1, <2>2
<1> QED
  BY <1>2, <1>3, <1>5, <1>8, <1>9 DEF t, n

LEMMA GetIsContractStep ==
  ASSUME RowsInv, Get
  PROVE  Contract!Open \/ Contract!Append \/ Contract!Finish
<1>1. /\ queue # <<>> /\ Head(queue) # CLOSED /\ received' = Append(received, Head(queue))
      /\ why' = why /\ why # "end" /\ Whole
  BY DEF Get, RowsInv, Ledger
<1> DEFINE S == ToSet(received) \cup ToSet(queue)
           f == Head(queue)
           n == Len(received) + 1
<1>2. received \in Seq(S) /\ queue \in Seq(S)
  BY <1>1, SeqMonotonic DEF Whole, IsSeq
<1> HIDE DEF S
<1>3. f \in S
  BY <1>1, <1>2, HeadTailProperties
<1>4. f = Rows[n] /\ n \in 1..Len(Rows) /\ (Len(received) = 0 <=> received = <<>>)
  <2>1. /\ Len(received) \in Nat /\ Len(queue) \in Nat /\ Len(queue) # 0
        /\ Len(Rows) = Len(received) + Len(queue)
        /\ \A i \in 1..Len(queue) : Rows[Len(received) + i] = queue[i]
        /\ (Len(received) = 0 <=> received = <<>>)
    BY <1>1, RowsFacts
  <2>2. f = queue[1]
    BY <1>1, <1>2
  <2>3. 1 \in 1..Len(queue) /\ n \in 1..Len(Rows)
    BY <2>1
  <2> QED
    BY <2>1, <2>2, <2>3
<1>5. /\ n \in Nat /\ received'[n] = f /\ received' # <<>> /\ Len(received') = n
      /\ \A i \in 1..Len(received) : received'[i] = received[i]
      /\ RunRowsOf(received') = RunRowsOf(received) \cup (IF f.type = "run" THEN {n} ELSE {})
      /\ Cardinality(OthersOf(received')) =
           Cardinality(OthersOf(received)) + (IF f.type = "run" THEN 0 ELSE 1)
      /\ Cardinality(OthersOf(received)) \in Nat
  BY <1>1, <1>2, <1>3, OneMore
<1> HIDE DEF f, n
<1>6. CASE received = <<>>
  <2>1. n = 1 /\ f = RunRow("running")
    <3>1. n = 1
      BY <1>4, <1>6 DEF n
    <3>2. Len(Rows) > 0
      BY <1>4, <3>1
    <3> QED
      BY <1>1, <1>4, <3>1, <3>2 DEF Whole
  <2>2. f.type = "run" /\ f.value = "running"
    BY <2>1 DEF RunRow, Frame
  <2>3. RunRowsOf(received) = {}
    BY <1>4, <1>6 DEF RunRowsOf
  <2>4. LastRunRow(received') = received'[1]
    <3>1. RunRowsOf(received') = {1}
      BY <1>5, <2>1, <2>2, <2>3
    <3> QED
      BY <3>1, LastRunRowIs
  <2>5. RowOf(received) = "prior" /\ RowOf(received') = "running"
    BY <1>5, <1>6, <2>1, <2>2, <2>4 DEF RowOf
  <2>6. Cardinality(OthersOf(received')) = Cardinality(OthersOf(received))
    BY <1>5, <2>2
  <2> QED
    BY <1>1, <2>5, <2>6 DEF Contract!Open
<1>7. CASE received # <<>>
  <2>1. /\ received[1] = RunRow("running") /\ 1 \in 1..Len(received)
        /\ RunRowsOf(received) = {1} /\ RowOf(received) = "running"
    BY <1>1, <1>7, ReadsRunning
  <2>2. CASE f.type = "run"
    <3>1. n # 1 /\ n >= 1
      BY <1>4, <1>5, <1>7, <2>1 DEF n
    <3>2. f.value \in Contract!Terminal
      BY <1>1, <1>4, <2>2, <3>1 DEF Whole, Final
    <3>3. RunRowsOf(received') = {1, n}
      BY <1>5, <2>1, <2>2
    <3>4. LastRunRow(received') = f
      BY <1>5, <3>1, <3>3, LastRunRowIs
    <3>5. RowOf(received') \in Contract!Terminal
      BY <1>5, <3>2, <3>4 DEF RowOf
    <3>6. Cardinality(OthersOf(received')) = Cardinality(OthersOf(received))
      BY <1>5, <2>2
    <3> QED
      BY <1>1, <2>1, <3>5, <3>6 DEF Contract!Finish, Contract!Terminal
  <2>3. CASE f.type # "run"
    <3>1. RunRowsOf(received') = {1}
      BY <1>5, <2>1, <2>3
    <3>2. LastRunRow(received') = RunRow("running")
      BY <1>5, <2>1, <3>1, LastRunRowIs
    <3>3. RowOf(received') = "running"
      BY <1>5, <3>2 DEF RowOf, RunRow, Frame
    <3>4. Cardinality(OthersOf(received')) = Cardinality(OthersOf(received)) + 1
      BY <1>5, <2>3
    <3> QED
      BY <1>1, <2>1, <3>3, <3>4 DEF Contract!Append
  <2> QED
    BY <2>2, <2>3
<1> QED
  BY <1>6, <1>7

LEMMA GetClosedIsContractStep ==
  ASSUME RowsInv, GetClosed
  PROVE  Contract!Close
<1>1. /\ queue # <<>> /\ Head(queue) = CLOSED /\ received' = received
      /\ why # "end" /\ why' = "end" /\ Whole
  BY DEF GetClosed, Finally, RowsInv, Ledger
<1>2. Len(received) > 0 /\ Closing(held, received[Len(received)])
  BY <1>1, SentinelIsLast
<1> DEFINE n == Len(received)
           f == received[n]
<1>3. n \in Nat /\ received # <<>> /\ n \in 1..Len(received)
  BY <1>1, <1>2, RowsFacts
<1>4. f.type = "run" /\ f.value \in Contract!Terminal
  BY <1>2 DEF Closing, RunRow, Frame, Contract!Terminal
<1>5. LastRunRow(received) = f
  <2>1. n \in RunRowsOf(received) /\ \A j \in RunRowsOf(received) : j <= n
    BY <1>3, <1>4 DEF RunRowsOf
  <2> QED
    BY <2>1, LastRunRowIs
<1>6. RowOf(received) \in Contract!Terminal
  BY <1>3, <1>4, <1>5 DEF RowOf
<1> QED
  BY <1>1, <1>6 DEF Contract!Close, Contract!Terminal

\* Every other step leaves the caller with what it has.
LEMMA OtherStepsHandNothingOn ==
  ASSUME RowsInv, IInv, [Next]_vars, ~Get, ~GetClosed
  PROVE  received' = received /\ (why' = "end" <=> why = "end")
<1>1. Typed /\ Ledger /\ TaskIsHeld
  BY DEF RowsInv, IInv
<1> USE DEF consumerVars, channelVars, TaskStep
<1>2. CASE StartRun \/ TakeSnapshot \/ TakePayload \/ DrainEnds \/ Abort \/ Complete
  BY <1>2 DEF StartRun, TakeSnapshot, TakePayload, Draining, DrainEnds, Abort, Complete
<1>3. CASE GraphRaises \/ CollectFails \/ CancelLands
  BY <1>3 DEF GraphRaises, CollectFails, CancelLands
<1>4. CASE Open \/ GoOn \/ Join \/ UNCHANGED vars
  BY <1>4 DEF Open, GoOn, Join, vars
<1>5. CASE OpenFails \/ Leave
  BY <1>1, <1>5 DEF OpenFails, Leave, Finally, Ledger
<1> QED
  BY <1>2, <1>3, <1>4, <1>5 DEF Next

LEMMA StepKeepsReadersContract ==
  IInv /\ RowsInv /\ [Next]_vars => [Contract!ContractNext]_(Contract!contractVars)
<1> SUFFICES ASSUME IInv, RowsInv, [Next]_vars
             PROVE  [Contract!ContractNext]_(Contract!contractVars)
  OBVIOUS
<1>1. CASE Get
  BY <1>1, GetIsContractStep DEF Contract!ContractNext
<1>2. CASE GetClosed
  BY <1>2, GetClosedIsContractStep DEF Contract!ContractNext
<1>3. CASE ~Get /\ ~GetClosed
  BY <1>3, OtherStepsHandNothingOn DEF Contract!contractVars
<1> QED
  BY <1>1, <1>2, <1>3

\* IterRows implements RunContract on its caller's side, for any payloads and snapshots
\* and however the iteration ends.
THEOREM ReaderHasAContract == Spec => ReaderKeepsContract
<1>1. Init => Contract!ContractInit
  <2> SUFFICES ASSUME Init PROVE Contract!ContractInit
    OBVIOUS
  <2>1. received = <<>> /\ why = "none"
    BY DEF Init
  <2>2. OthersOf(received) = {}
    <3>1. Len(received) = 0
      BY <2>1, EmptySeq
    <3> QED
      BY <3>1 DEF OthersOf
  <2>3. Cardinality(OthersOf(received)) = 0
    BY <2>2, FS_EmptySet
  <2> QED
    BY <2>1, <2>3 DEF Contract!ContractInit, RowOf
<1>2. Spec => []IInv
  BY InitInv, NextKeepsInv, PTL DEF Spec
<1> QED
  BY <1>1, <1>2, RowsAlways, StepKeepsReadersContract, PTL
  DEF Spec, ReaderKeepsContract, Contract!ContractSpec

=============================================================================
