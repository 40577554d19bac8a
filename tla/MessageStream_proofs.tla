------------------------ MODULE MessageStream_proofs ------------------------
(***************************************************************************)
(* Proofs about MessageStream for any messages, channels, thresholds and   *)
(* bounds.  Where a chunk ends depends on the deltas alone: at the first   *)
(* of them that brings the part up to the threshold.  So a second pass     *)
(* over the same deltas rewrites the chunks of the first one by one.       *)
(***************************************************************************)
EXTENDS MessageStream, NumberLemmas, FunctionTheorems, SequenceTheorems

-----------------------------------------------------------------------------
(* The sums of the deltas.                                                 *)

Chars(ds, p, n) == IF ds[n].part = p THEN ds[n].chars ELSE 0

SumUpTo(f, ds, p, k) ==
    f = [n \in 0..k |-> IF n = 0 THEN 0 ELSE f[n - 1] + Chars(ds, p, n)]

\* The recursion of Sums defines a function, by induction on how far it goes.
LEMMA SumExists ==
  ASSUME NEW ds, NEW p, NEW k \in Nat
  PROVE  \E f : SumUpTo(f, ds, p, k)
<1> DEFINE Defined == {n \in Nat : \E f : SumUpTo(f, ds, p, n)}
<1>1. 0 \in Defined
  <2> DEFINE f == [n \in 0..0 |-> 0]
  <2>1. SumUpTo(f, ds, p, 0)
    BY DEF SumUpTo
  <2> QED
    BY <2>1
<1>2. ASSUME NEW n \in Nat, n \in Defined PROVE n + 1 \in Defined
  <2>1. PICK f : SumUpTo(f, ds, p, n)
    BY <1>2
  <2> DEFINE g == [i \in 0..(n + 1) |-> IF i <= n THEN f[i] ELSE f[n] + Chars(ds, p, n + 1)]
  <2>2. \A i \in 0..n : f[i] = IF i = 0 THEN 0 ELSE f[i - 1] + Chars(ds, p, i)
    BY <2>1 DEF SumUpTo
  <2>3. ASSUME NEW i \in 0..(n + 1)
        PROVE  g[i] = IF i = 0 THEN 0 ELSE g[i - 1] + Chars(ds, p, i)
    <3>1. CASE i = n + 1
      BY <3>1
    <3>2. CASE i \in 0..n
      BY <2>2, <3>2
    <3> QED
      BY <3>1, <3>2
  <2>4. SumUpTo(g, ds, p, n + 1)
    BY <2>3 DEF SumUpTo
  <2> QED
    BY <2>4
<1>3. Nat \subseteq Defined
  <2> HIDE DEF Defined
  <2> QED
    BY <1>1, <1>2, Induction
<1> QED
  BY <1>3

LEMMA SumsUnfold ==
  ASSUME NEW ds, Len(ds) \in Nat, NEW p
  PROVE  /\ Sums(ds, p) = [n \in 0..Len(ds) |-> Sums(ds, p)[n]]
         /\ Sums(ds, p)[0] = 0
         /\ \A n \in 1..Len(ds) : Sums(ds, p)[n] = Sums(ds, p)[n - 1] + Chars(ds, p, n)
<1>1. PICK f : SumUpTo(f, ds, p, Len(ds))
  BY SumExists
<1>2. SumUpTo(Sums(ds, p), ds, p, Len(ds))
  BY <1>1 DEF Sums, SumUpTo, Chars
<1> HIDE DEF Sums
<1> QED
  BY <1>2 DEF SumUpTo

\* The facts about sums that the rest of the proof uses.
LEMMA SumsFacts ==
  ASSUME NEW ds \in Seq(Delta), NEW p
  PROVE  /\ Sums(ds, p) \in [0..Len(ds) -> Nat]
         /\ Sums(ds, p)[0] = 0
         /\ \A n \in 1..Len(ds) :
              /\ Sums(ds, p)[n] = Sums(ds, p)[n - 1] + Chars(ds, p, n)
              /\ Sums(ds, p)[n - 1] <= Sums(ds, p)[n]
              /\ Sums(ds, p)[n] <= Sums(ds, p)[n - 1] + MaxDelta
<1> DEFINE S == Sums(ds, p)
           Natural == {n \in Nat : n <= Len(ds) => S[n] \in Nat}
<1>1. Len(ds) \in Nat
  BY LenProperties
<1>2. /\ S = [n \in 0..Len(ds) |-> S[n]]
      /\ S[0] = 0
      /\ \A n \in 1..Len(ds) : S[n] = S[n - 1] + Chars(ds, p, n)
  BY <1>1, SumsUnfold
<1>3. ASSUME NEW n \in 1..Len(ds) PROVE Chars(ds, p, n) \in 0..MaxDelta
  <2>1. ds[n] \in Delta
    BY ElementOfSeq
  <2> QED
    BY <2>1, DeltaBounds DEF Chars, Delta
<1> HIDE DEF S
<1>4. Nat \subseteq Natural
  <2>1. 0 \in Natural
    BY <1>2
  <2>2. ASSUME NEW n \in Nat, n \in Natural PROVE n + 1 \in Natural
    <3> SUFFICES ASSUME n + 1 <= Len(ds) PROVE S[n + 1] \in Nat
      OBVIOUS
    <3>1. n + 1 \in 1..Len(ds) /\ (n + 1) - 1 = n
      BY <1>1
    <3>2. S[n + 1] = S[n] + Chars(ds, p, n + 1)
      BY <1>2, <3>1
    <3>3. S[n] \in Nat
      BY <1>1, <2>2
    <3>4. Chars(ds, p, n + 1) \in Nat
      BY <1>3, <3>1, DeltaBounds
    <3> QED
      BY <3>2, <3>3, <3>4
  <2> HIDE DEF Natural
  <2> QED
    BY <2>1, <2>2, Induction
<1>5. \A n \in 0..Len(ds) : S[n] \in Nat
  BY <1>1, <1>4
<1>6. ASSUME NEW n \in 1..Len(ds)
      PROVE  S[n - 1] <= S[n] /\ S[n] <= S[n - 1] + MaxDelta
  <2>1. n \in 0..Len(ds) /\ n - 1 \in 0..Len(ds)
    BY <1>1
  <2>2. S[n] = S[n - 1] + Chars(ds, p, n)
    BY <1>2
  <2>3. S[n - 1] \in Nat
    BY <1>5, <2>1
  <2> QED
    BY <1>3, <2>2, <2>3, DeltaBounds
<1>7. S \in [0..Len(ds) -> Nat]
  BY <1>2, <1>5
<1> QED
  BY <1>2, <1>6, <1>7 DEF S

LEMMA SumsGrow ==
  ASSUME NEW ds \in Seq(Delta), NEW p, NEW j \in 0..Len(ds), NEW i \in 0..j
  PROVE  Sums(ds, p)[i] <= Sums(ds, p)[j]
<1> DEFINE S == Sums(ds, p)
           Above == {n \in Nat : i + n <= Len(ds) => S[i] <= S[i + n]}
<1>1. Len(ds) \in Nat /\ i \in Nat /\ j \in Nat
  BY LenProperties
<1>2. S \in [0..Len(ds) -> Nat] /\ \A n \in 1..Len(ds) : S[n - 1] <= S[n]
  BY SumsFacts
<1> HIDE DEF S
<1>3. 0 \in Above
  <2>1. S[i] \in Nat
    BY <1>1, <1>2
  <2> QED
    BY <1>1, <2>1
<1>4. ASSUME NEW n \in Nat, n \in Above PROVE n + 1 \in Above
  <2> SUFFICES ASSUME i + (n + 1) <= Len(ds) PROVE S[i] <= S[i + (n + 1)]
    OBVIOUS
  <2>1. i + (n + 1) \in 1..Len(ds) /\ (i + (n + 1)) - 1 = i + n
    BY <1>1
  <2>2. S[i + n] <= S[i + (n + 1)]
    BY <1>2, <2>1
  <2>3. S[i] <= S[i + n]
    BY <1>1, <1>4
  <2>4. i \in 0..Len(ds) /\ i + n \in 0..Len(ds) /\ i + (n + 1) \in 0..Len(ds)
    BY <1>1
  <2>5. S[i] \in Nat /\ S[i + n] \in Nat /\ S[i + (n + 1)] \in Nat
    BY <1>2, <2>4
  <2> QED
    BY <2>2, <2>3, <2>5
<1>5. Nat \subseteq Above
  <2> HIDE DEF Above
  <2> QED
    BY <1>3, <1>4, Induction
<1>6. j - i \in Above /\ i + (j - i) = j
  BY <1>1, <1>5
<1> QED
  BY <1>1, <1>6 DEF S

\* What was said before a delta is not changed by it.
LEMMA SumsAppend ==
  ASSUME NEW ds \in Seq(Delta), NEW p, NEW d \in Delta
  PROVE  /\ \A n \in 0..Len(ds) : Sums(Append(ds, d), p)[n] = Sums(ds, p)[n]
         /\ Sums(Append(ds, d), p)[Len(ds) + 1]
              = Sums(ds, p)[Len(ds)] + (IF d.part = p THEN d.chars ELSE 0)
<1> DEFINE es == Append(ds, d)
           S == Sums(ds, p)
           T == Sums(es, p)
           Same == {n \in Nat : n <= Len(ds) => T[n] = S[n]}
<1>1. /\ Len(ds) \in Nat /\ es \in Seq(Delta) /\ Len(es) = Len(ds) + 1
      /\ \A n \in 1..Len(ds) : es[n] = ds[n]
      /\ es[Len(ds) + 1] = d
  BY LenProperties, AppendProperties
<1>2. /\ S[0] = 0 /\ T[0] = 0
      /\ \A n \in 1..Len(ds) : S[n] = S[n - 1] + Chars(ds, p, n)
      /\ \A n \in 1..Len(es) : T[n] = T[n - 1] + Chars(es, p, n)
  BY <1>1, SumsFacts
<1>3. \A n \in 1..Len(ds) : Chars(es, p, n) = Chars(ds, p, n)
  BY <1>1 DEF Chars
<1>4. Chars(es, p, Len(ds) + 1) = IF d.part = p THEN d.chars ELSE 0
  BY <1>1 DEF Chars
<1> HIDE DEF es, S, T
<1>5. 0 \in Same
  BY <1>2
<1>6. ASSUME NEW n \in Nat, n \in Same PROVE n + 1 \in Same
  <2> SUFFICES ASSUME n + 1 <= Len(ds) PROVE T[n + 1] = S[n + 1]
    OBVIOUS
  <2>1. n + 1 \in 1..Len(ds) /\ n + 1 \in 1..Len(es) /\ (n + 1) - 1 = n
    BY <1>1
  <2>2. T[n] = S[n]
    BY <1>1, <1>6
  <2> QED
    BY <1>2, <1>3, <2>1, <2>2
<1>7. Nat \subseteq Same
  <2> HIDE DEF Same
  <2> QED
    BY <1>5, <1>6, Induction
<1>8. \A n \in 0..Len(ds) : T[n] = S[n]
  BY <1>1, <1>7
<1>9. T[Len(ds) + 1] = S[Len(ds)] + (IF d.part = p THEN d.chars ELSE 0)
  <2>1. Len(ds) + 1 \in 1..Len(es) /\ (Len(ds) + 1) - 1 = Len(ds) /\ Len(ds) \in 0..Len(ds)
    BY <1>1
  <2> QED
    BY <1>2, <1>4, <1>8, <2>1
<1> QED
  BY <1>8, <1>9 DEF es, S, T

-----------------------------------------------------------------------------
(* The inductive invariant.                                                *)

Rows == UNION {[0..(n - 1) -> Chunk] : n \in Nat}
Size(row) == Cardinality(DOMAIN row)
EndOf(row) == IF DOMAIN row = {} THEN 0 ELSE row[Size(row) - 1].to

Total(ds, p) == Sums(ds, p)[Len(ds)]

\* c ends with the first delta that brings it up to the threshold,
Filled(ds, p, c) ==
    \E n \in 1..Len(ds) : /\ c.to = Sums(ds, p)[n]
                          /\ Sums(ds, p)[n - 1] < c.from + Flush[p]
                          /\ c.from + Flush[p] <= c.to

\* or is what was left when the deltas were exhausted.
Rest(ds, p, c) == c.to = Total(ds, p) /\ c.to < c.from + Flush[p]

\* No delta of m is new any more.
Ended(m) == passes[m] > 1 \/ (passes[m] = 1 /\ at[m] \in Tails \cup {"idle"})
Over(m)  == passes[m] > 1 \/ (passes[m] = 1 /\ at[m] = "idle")

\* _stream_message_text is at work on m.
Streaming(m) == at[m] \notin {"idle", "anchor"}

Types ==
    /\ at \in [Messages -> Active \cup {"idle"}]
    /\ passes \in [Messages -> 0..MaxPasses]
    /\ deltas \in [Messages -> Seq(Delta)]
    /\ next \in [Messages -> Nat]
    /\ length \in [Messages -> [Parts -> Nat]]
    /\ flushed \in [Messages -> [Parts -> Nat]]
    /\ seq \in [Messages -> [Parts -> Nat]]
    /\ chunks \in [Messages -> [Parts -> Rows]]
    /\ emitted \in [Messages -> Nat \cup {None}]
    /\ cut \in BOOLEAN

\* What was read is what the deltas consumed add up to.
Lengths(m) ==
    /\ next[m] <= Len(deltas[m]) /\ Len(deltas[m]) <= MaxDeltas[m]
    /\ \A p \in Parts : flushed[m][p] <= length[m][p]
    /\ passes[m] = 0 => at[m] = "idle"
    /\ passes[m] = 0 \/ (passes[m] = 1 /\ at[m] = "anchor") =>
         deltas[m] = <<>> /\ \A p \in Parts : DOMAIN chunks[m][p] = {}
    /\ Streaming(m) => \A p \in Parts : length[m][p] = Sums(deltas[m], p)[next[m]]
    /\ Streaming(m) /\ (passes[m] = 1 \/ at[m] \in Tails) => next[m] = Len(deltas[m])

\* The chunks of a part join up, and the deltas fix where each ends.
Fixed(m, p, row) ==
    /\ Joined(row)
    /\ \A k \in DOMAIN row :
         \/ Filled(deltas[m], p, row[k])
         \/ Rest(deltas[m], p, row[k]) /\ k + 1 \notin DOMAIN row /\ Ended(m)

RowsFixed(m) == \A p \in Parts : Fixed(m, p, chunks[m][p])

\* The offset is the end of the chunk last written in this pass; in the first pass
\* that is the last there is, until the tail of the reasoning lands.
Follows(m) ==
    ~cut /\ Streaming(m) => \A p \in Parts :
        /\ seq[m][p] <= Size(chunks[m][p])
        /\ flushed[m][p] = IF seq[m][p] = 0 THEN 0 ELSE chunks[m][p][seq[m][p] - 1].to
        /\ passes[m] = 1 /\ ~(at[m] = "text_tail" /\ p = "reasoning") =>
             seq[m][p] = Size(chunks[m][p])

\* A part is below the threshold but while its chunk is being written, and then the
\* last delta has just taken it there.
Thresholds(m) ==
    Streaming(m) => \A p \in Parts :
        IF at[m] = p
        THEN /\ next[m] > 0 /\ flushed[m][p] + Flush[p] <= length[m][p]
             /\ Sums(deltas[m], p)[next[m] - 1] < flushed[m][p] + Flush[p]
        ELSE length[m][p] < flushed[m][p] + Flush[p]

\* The reader has the whole of what is done with.
Whole(m) ==
    /\ Over(m) => \A p \in Parts : EndOf(chunks[m][p]) = Total(deltas[m], p)
    /\ at[m] = "text_tail" =>
         EndOf(chunks[m]["reasoning"]) = Total(deltas[m], "reasoning")
    /\ at[m] \in Tails => Unflushed(m, PartOf(at[m]))

\* What is saved lies between what was read in this pass and what was said, and is
\* all that was said except while the message is streamed again.
Salvage(m) ==
    /\ passes[m] = 0 => length[m]["text"] = 0
    /\ passes[m] = 0 \/ Channel[m] # TopLevel => emitted[m] = None
    /\ passes[m] > 0 /\ Channel[m] = TopLevel =>
         /\ length[m]["text"] <= emitted[m] /\ emitted[m] <= Total(deltas[m], "text")
         /\ passes[m] = 1 \/ at[m] \in Tails \cup {"idle"} =>
              emitted[m] = Total(deltas[m], "text")

Good(m) ==
    /\ Lengths(m) /\ RowsFixed(m) /\ Follows(m)
    /\ Thresholds(m) /\ Whole(m) /\ Salvage(m)

IInv == Types /\ \A m \in Messages : Good(m)

-----------------------------------------------------------------------------
(* Rows.                                                                   *)

LEMMA RowFacts ==
  ASSUME NEW row \in Rows
  PROVE  /\ Size(row) \in Nat
         /\ DOMAIN row = 0..(Size(row) - 1)
         /\ row = [k \in 0..(Size(row) - 1) |-> row[k]]
         /\ \A k \in 0..(Size(row) - 1) :
              row[k] \in Chunk /\ row[k].from \in Nat /\ row[k].to \in Nat
<1>1. PICK n \in Nat : row \in [0..(n - 1) -> Chunk]
  BY DEF Rows
<1>2. DOMAIN row = 0..(n - 1) /\ row = [k \in 0..(n - 1) |-> row[k]]
  BY <1>1
<1>3. Cardinality(0..(n - 1)) = n
  <2>1. Cardinality(0..(n - 1)) = IF 0 > n - 1 THEN 0 ELSE (n - 1) - 0 + 1
    BY FS_Interval
  <2> QED
    BY <2>1
<1>4. Size(row) = n
  BY <1>2, <1>3 DEF Size
<1>5. \A k \in 0..(n - 1) : row[k] \in Chunk
  BY <1>1
<1> QED
  BY <1>2, <1>4, <1>5 DEF Chunk

\* A chunk behind the last joins up if it begins where that ends.
LEMMA RowGrows ==
  ASSUME NEW row \in Rows, Joined(row),
         NEW c \in Chunk, c.from = EndOf(row), c.from < c.to,
         NEW new, new = Upsert(row, Size(row), c)
  PROVE  /\ new \in Rows /\ Joined(new) /\ EndOf(new) = c.to
         /\ Size(new) = Size(row) + 1
         /\ \A k \in DOMAIN row : new[k] = row[k]
         /\ new[Size(row)] = c
<1> DEFINE n == Size(row)
<1>1. n \in Nat /\ DOMAIN row = 0..(n - 1) /\ \A k \in 0..(n - 1) : row[k] \in Chunk
  BY RowFacts
<1>2. new = [k \in DOMAIN row \cup {n} |-> IF k = n THEN c ELSE row[k]]
  BY DEF Upsert
<1>3. DOMAIN row \cup {n} = 0..((n + 1) - 1) /\ n \notin DOMAIN row
  BY <1>1
<1>4. DOMAIN new = 0..((n + 1) - 1) /\ new[n] = c /\ \A k \in DOMAIN row : new[k] = row[k]
  BY <1>2, <1>3
<1> HIDE DEF n
<1>5. new \in [0..((n + 1) - 1) -> Chunk]
  BY <1>1, <1>2, <1>3
<1>6. new \in Rows
  BY <1>1, <1>5 DEF Rows
<1>7. Size(new) = n + 1
  <2>1. Size(new) \in Nat /\ 0..(Size(new) - 1) = 0..((n + 1) - 1)
    BY <1>4, <1>6, RowFacts
  <2> QED
    BY <1>1, <2>1
<1>8. EndOf(new) = c.to
  BY <1>1, <1>4, <1>7 DEF EndOf
<1>9. Joined(new)
  <2>1. DOMAIN new = 0..(Cardinality(DOMAIN new) - 1)
    BY <1>4, <1>7 DEF Size
  <2>2. ASSUME NEW k \in DOMAIN new
        PROVE  /\ new[k].from = IF k = 0 THEN 0 ELSE new[k - 1].to
               /\ new[k].from < new[k].to
    <3>1. CASE k \in DOMAIN row
      <4>1. k = 0 \/ k - 1 \in DOMAIN row
        BY <1>1, <3>1
      <4> QED
        BY <1>4, <3>1, <4>1 DEF Joined
    <3>2. CASE k = n
      <4>1. c.from = IF n = 0 THEN 0 ELSE row[n - 1].to
        BY <1>1 DEF EndOf, n
      <4>2. n = 0 \/ n - 1 \in DOMAIN row
        BY <1>1
      <4> QED
        BY <1>4, <3>2, <4>1, <4>2
    <3> QED
      BY <1>1, <1>4, <3>1, <3>2
  <2> QED
    BY <2>1, <2>2 DEF Joined
<1> QED
  BY <1>4, <1>6, <1>7, <1>8, <1>9 DEF n

LEMMA RowRewritten ==
  ASSUME NEW row \in Rows, NEW k \in DOMAIN row
  PROVE  Upsert(row, k, row[k]) = row
<1>1. Upsert(row, k, row[k]) = [j \in DOMAIN row \cup {k} |-> row[j]]
  BY DEF Upsert
<1>2. DOMAIN row \cup {k} = DOMAIN row
  OBVIOUS
<1>3. row = [j \in DOMAIN row |-> row[j]]
  BY RowFacts
<1> QED
  BY <1>1, <1>2, <1>3

-----------------------------------------------------------------------------
(* The chunk being written.                                                *)

Current(m) == [from |-> flushed[m][PartOf(at[m])], to |-> length[m][PartOf(at[m])]]

LEMMA PartFacts ==
  ASSUME NEW where \in Flushes \cup Tails
  PROVE  /\ PartOf(where) \in Parts
         /\ where \in Flushes => where = PartOf(where) /\ where \in Parts
         /\ where \in Tails => \A p \in Parts : where # p
BY DEF PartOf, Flushes, Tails, Parts

\* A delta is the first that brings a part up to a threshold, or there is none.
LEMMA FirstIsUnique ==
  ASSUME NEW ds \in Seq(Delta), NEW p, NEW t \in Nat,
         NEW i \in 1..Len(ds), NEW j \in 1..Len(ds),
         Sums(ds, p)[i - 1] < t, t <= Sums(ds, p)[i],
         Sums(ds, p)[j - 1] < t, t <= Sums(ds, p)[j]
  PROVE  Sums(ds, p)[i] = Sums(ds, p)[j]
<1> DEFINE S == Sums(ds, p)
<1>1. Len(ds) \in Nat
  BY LenProperties
<1>2. S \in [0..Len(ds) -> Nat]
  BY SumsFacts
<1>3. i < j => S[i] <= S[j - 1]
  BY <1>1, SumsGrow
<1>4. j < i => S[j] <= S[i - 1]
  BY <1>1, SumsGrow
<1>5. /\ S[i] \in Nat /\ S[j] \in Nat /\ S[i - 1] \in Nat /\ S[j - 1] \in Nat
  BY <1>1, <1>2
<1> HIDE DEF S
<1>6. S[i - 1] < t /\ t <= S[i] /\ S[j - 1] < t /\ t <= S[j]
  BY DEF S
<1>7. ~(i < j) /\ ~(j < i)
  BY <1>3, <1>4, <1>5, <1>6
<1>8. i = j
  BY <1>7
<1> QED
  BY <1>8

\* What is being written is a chunk that ends where the deltas say.
LEMMA CurrentFacts ==
  ASSUME IInv, NEW m \in Messages, at[m] \in Flushes \cup Tails
  PROVE  LET p == PartOf(at[m]) IN
         /\ p \in Parts /\ Current(m) \in Chunk
         /\ Current(m).from = flushed[m][p] /\ Current(m).to = length[m][p]
         /\ Current(m).from < Current(m).to
         /\ IF at[m] \in Flushes THEN Filled(deltas[m], p, Current(m))
                                 ELSE Rest(deltas[m], p, Current(m))
<1> DEFINE p == PartOf(at[m])
           c == Current(m)
<1>1. p \in Parts /\ (at[m] \in Flushes => at[m] = p) /\ (at[m] \in Tails => at[m] # p)
  BY PartFacts
<1>2. /\ flushed[m][p] \in Nat /\ length[m][p] \in Nat /\ next[m] \in Nat
      /\ deltas[m] \in Seq(Delta) /\ Len(deltas[m]) \in Nat
  BY <1>1, LenProperties DEF IInv, Types
<1>3. Flush[p] \in Nat /\ Flush[p] > 0
  BY <1>1, FlushAssumption
<1>4. Lengths(m) /\ Thresholds(m) /\ Whole(m) /\ Streaming(m)
  BY DEF IInv, Good, Streaming, Flushes, Tails
<1>5. c.from = flushed[m][p] /\ c.to = length[m][p] /\ c \in Chunk
  BY <1>2 DEF Current, Chunk
<1>6. length[m][p] = Sums(deltas[m], p)[next[m]] /\ next[m] <= Len(deltas[m])
  BY <1>1, <1>4 DEF Lengths
<1>7. CASE at[m] \in Flushes
  <2>1. /\ next[m] > 0 /\ flushed[m][p] + Flush[p] <= length[m][p]
        /\ Sums(deltas[m], p)[next[m] - 1] < flushed[m][p] + Flush[p]
    BY <1>1, <1>4, <1>7 DEF Thresholds
  <2>2. next[m] \in 1..Len(deltas[m])
    BY <1>2, <1>6, <2>1
  <2>3. Filled(deltas[m], p, c)
    BY <1>5, <1>6, <2>1, <2>2 DEF Filled
  <2>4. c.from < c.to
    BY <1>2, <1>3, <1>5, <2>1
  <2> QED
    BY <1>1, <1>5, <1>7, <2>3, <2>4
<1>8. CASE at[m] \in Tails
  <2>1. length[m][p] < flushed[m][p] + Flush[p]
    BY <1>1, <1>4, <1>8 DEF Thresholds
  <2>2. next[m] = Len(deltas[m]) /\ length[m][p] > flushed[m][p]
    BY <1>4, <1>8 DEF Lengths, Whole, Unflushed
  <2>3. Rest(deltas[m], p, c)
    BY <1>5, <1>6, <2>1, <2>2 DEF Rest, Total
  <2>4. c.from < c.to
    BY <1>2, <1>5, <2>2
  <2>5. at[m] \notin Flushes
    BY <1>8 DEF Tails, Flushes
  <2> QED
    BY <1>1, <1>5, <2>3, <2>4, <2>5
<1> QED
  BY <1>7, <1>8

\* In a pass over a message that was streamed before, it is there already.
LEMMA CurrentIsThere ==
  ASSUME IInv, ~cut, NEW m \in Messages, at[m] \in Flushes \cup Tails, passes[m] # 1
  PROVE  LET p == PartOf(at[m]) IN
         seq[m][p] \in DOMAIN chunks[m][p] /\ chunks[m][p][seq[m][p]] = Current(m)
<1> DEFINE p == PartOf(at[m])
           c == Current(m)
           k == seq[m][p]
           row == chunks[m][p]
           ds == deltas[m]
           S == Sums(ds, p)
<1>1. /\ p \in Parts /\ c \in Chunk /\ c.from < c.to
      /\ c.from = flushed[m][p] /\ c.to = length[m][p]
      /\ IF at[m] \in Flushes THEN Filled(ds, p, c) ELSE Rest(ds, p, c)
  BY CurrentFacts
<1>2. row \in Rows /\ k \in Nat /\ ds \in Seq(Delta) /\ Len(ds) \in Nat /\ next[m] \in Nat
  BY <1>1, LenProperties DEF IInv, Types
<1>3. Flush[p] \in Nat /\ c.from \in Nat /\ c.to \in Nat
  BY <1>1, FlushAssumption DEF Chunk
<1>4. /\ Lengths(m) /\ Follows(m) /\ Whole(m) /\ Fixed(m, p, row) /\ Streaming(m)
  BY <1>1 DEF IInv, Good, RowsFixed, Streaming, Flushes, Tails
<1>5. passes[m] > 1
  <2>1. passes[m] \in Nat /\ passes[m] # 0
    BY <1>4, DeltaBounds DEF IInv, Types, Lengths, Streaming
  <2> QED
    BY <2>1
<1>6. EndOf(row) = S[Len(ds)]
  BY <1>1, <1>4, <1>5 DEF Whole, Over, Total
<1>7. /\ k <= Size(row)
      /\ c.from = IF k = 0 THEN 0 ELSE row[k - 1].to
  BY <1>1, <1>4 DEF Follows
<1>8. /\ Size(row) \in Nat /\ DOMAIN row = 0..(Size(row) - 1)
      /\ \A i \in 0..(Size(row) - 1) : row[i] \in Chunk /\ row[i].to \in Nat
  BY <1>2, RowFacts
<1>9. S \in [0..Len(ds) -> Nat]
  BY <1>2, SumsFacts
<1>10. c.to = S[next[m]] /\ next[m] \in 0..Len(ds)
  BY <1>1, <1>2, <1>4 DEF Lengths
<1>11. c.to <= S[Len(ds)]
  BY <1>2, <1>10, SumsGrow
<1>12. S[Len(ds)] \in Nat
  BY <1>2, <1>9
<1> HIDE DEF p, c, k, row, ds, S
<1>13. k \in DOMAIN row
  <2> SUFFICES ASSUME k = Size(row) PROVE FALSE
    BY <1>2, <1>7, <1>8
  <2>1. c.from = EndOf(row)
    BY <1>7, <1>8 DEF EndOf
  <2> QED
    BY <1>1, <1>3, <1>6, <1>11, <1>12, <2>1
<1>14. row[k] \in Chunk /\ row[k].from = c.from /\ row[k].to \in Nat
  BY <1>4, <1>7, <1>8, <1>13 DEF Fixed, Joined
<1>15. Filled(ds, p, row[k]) \/ Rest(ds, p, row[k])
  BY <1>4, <1>13 DEF Fixed, ds
<1>16. row[k].to = c.to
  <2>1. CASE at[m] \in Flushes
    <3>1. PICK i \in 1..Len(ds) : /\ c.to = S[i] /\ S[i - 1] < c.from + Flush[p]
                                  /\ c.from + Flush[p] <= c.to
      BY <1>1, <2>1 DEF Filled, S
    <3>2. CASE Filled(ds, p, row[k])
      <4>1. PICK j \in 1..Len(ds) : /\ row[k].to = S[j] /\ S[j - 1] < c.from + Flush[p]
                                    /\ c.from + Flush[p] <= row[k].to
        BY <1>14, <3>2 DEF Filled, S
      <4>2. c.from + Flush[p] \in Nat
        BY <1>3
      <4>3. S[i] = S[j]
        BY <1>2, <3>1, <4>1, <4>2, FirstIsUnique DEF S
      <4> QED
        BY <3>1, <4>1, <4>3
    <3>3. ~Rest(ds, p, row[k])
      BY <1>3, <1>11, <1>12, <1>14, <3>1 DEF Rest, Total, S
    <3> QED
      BY <1>15, <3>2, <3>3
  <2>2. CASE at[m] \notin Flushes
    <3>1. c.to = S[Len(ds)] /\ c.to < c.from + Flush[p]
      BY <1>1, <2>2 DEF Rest, Total, S
    <3>2. CASE Filled(ds, p, row[k])
      <4>1. PICK j \in 1..Len(ds) : row[k].to = S[j] /\ c.from + Flush[p] <= row[k].to
        BY <1>14, <3>2 DEF Filled, S
      <4>2. S[j] <= S[Len(ds)]
        BY <1>2, SumsGrow DEF S
      <4> QED
        BY <1>3, <1>12, <1>14, <3>1, <4>1, <4>2
    <3>3. CASE Rest(ds, p, row[k])
      BY <3>1, <3>3 DEF Rest, Total, S
    <3> QED
      BY <1>15, <3>2, <3>3
  <2> QED
    BY <2>1, <2>2
<1>17. row[k] = c
  BY <1>1, <1>14, <1>16 DEF Chunk
<1> QED
  BY <1>13, <1>17 DEF p, c, k, row

\* In the first pass the reader has what was flushed,
LEMMA EndIsFlushed ==
  ASSUME IInv, ~cut, NEW m \in Messages, NEW p \in Parts, Streaming(m), passes[m] = 1,
         ~(at[m] = "text_tail" /\ p = "reasoning")
  PROVE  seq[m][p] = Size(chunks[m][p]) /\ EndOf(chunks[m][p]) = flushed[m][p]
<1>1. chunks[m][p] \in Rows
  BY DEF IInv, Types
<1>2. /\ Size(chunks[m][p]) \in Nat
      /\ DOMAIN chunks[m][p] = 0..(Size(chunks[m][p]) - 1)
  BY <1>1, RowFacts
<1>3. /\ seq[m][p] = Size(chunks[m][p])
      /\ flushed[m][p] = IF seq[m][p] = 0 THEN 0 ELSE chunks[m][p][seq[m][p] - 1].to
  BY DEF IInv, Good, Follows
<1> QED
  BY <1>2, <1>3 DEF EndOf

\* and, once nothing of a part is left, the whole of it.
LEMMA NothingLeft ==
  ASSUME IInv, ~cut, NEW m \in Messages, NEW p \in Parts,
         at[m] \in {"reading"} \cup Tails, next[m] = Len(deltas[m]), ~Unflushed(m, p)
  PROVE  EndOf(chunks[m][p]) = Total(deltas[m], p)
<1>1. Streaming(m) /\ Lengths(m) /\ Whole(m)
  BY DEF IInv, Good, Streaming, Tails
<1>2. CASE passes[m] > 1
  BY <1>1, <1>2 DEF Whole, Over
<1>3. CASE at[m] = "text_tail" /\ p = "reasoning"
  BY <1>1, <1>3 DEF Whole
<1>4. CASE ~(passes[m] > 1) /\ ~(at[m] = "text_tail" /\ p = "reasoning")
  <2>1. passes[m] = 1
    <3>1. passes[m] \in Nat /\ passes[m] # 0
      BY <1>1, DeltaBounds DEF IInv, Types, Lengths, Streaming
    <3> QED
      BY <1>4, <3>1
  <2>2. EndOf(chunks[m][p]) = flushed[m][p]
    BY <1>1, <1>4, <2>1, EndIsFlushed
  <2>3. flushed[m][p] \in Nat /\ length[m][p] \in Nat /\ flushed[m][p] <= length[m][p]
    BY <1>1 DEF IInv, Types, Lengths
  <2>4. length[m][p] = Total(deltas[m], p)
    BY <1>1 DEF Lengths, Total
  <2> QED
    BY <2>2, <2>3, <2>4 DEF Unflushed
<1> QED
  BY <1>2, <1>3, <1>4

\* What the rows are when the chunk being written has landed.
LEMMA LandedFacts ==
  ASSUME IInv, ~cut, NEW m \in Messages, at[m] \in Flushes \cup Tails
  PROVE  LET p == PartOf(at[m]) new == Written(m) IN
         /\ new \in [Parts -> Rows]
         /\ \A q \in Parts : q # p => new[q] = chunks[m][q]
         /\ Fixed(m, p, new[p])
         /\ seq[m][p] < Size(new[p]) /\ new[p][seq[m][p]].to = length[m][p]
         /\ passes[m] = 1 => /\ Size(new[p]) = seq[m][p] + 1
                             /\ EndOf(new[p]) = length[m][p]
         /\ passes[m] # 1 => new = chunks[m]
<1> DEFINE p == PartOf(at[m])
           c == Current(m)
           k == seq[m][p]
           row == chunks[m][p]
           new == Written(m)
<1>1. /\ p \in Parts /\ c \in Chunk /\ c.from < c.to
      /\ c.from = flushed[m][p] /\ c.to = length[m][p]
      /\ IF at[m] \in Flushes THEN Filled(deltas[m], p, c) ELSE Rest(deltas[m], p, c)
  BY CurrentFacts
<1>2. chunks[m] \in [Parts -> Rows] /\ row \in Rows /\ k \in Nat
  BY <1>1 DEF IInv, Types
<1>3. new = [chunks[m] EXCEPT ![p] = Upsert(row, k, c)]
  BY <1>1, <1>2 DEF Written, Current
<1>4. Fixed(m, p, row) /\ Streaming(m)
  BY <1>1 DEF IInv, Good, RowsFixed, Streaming, Flushes, Tails
<1>5. Size(row) \in Nat /\ DOMAIN row = 0..(Size(row) - 1)
  BY <1>2, RowFacts
<1>6. CASE passes[m] # 1
  <2>1. k \in DOMAIN row /\ row[k] = c
    BY <1>6, CurrentIsThere
  <2>2. Upsert(row, k, c) = row
    BY <1>2, <2>1, RowRewritten
  <2>3. new = chunks[m]
    BY <1>1, <1>2, <1>3, <2>2
  <2> QED
    BY <1>1, <1>2, <1>4, <1>5, <1>6, <2>1, <2>3
<1>7. CASE passes[m] = 1
  <2>1. ~(at[m] = "text_tail" /\ p = "reasoning")
    BY DEF PartOf
  <2>2. k = Size(row) /\ EndOf(row) = c.from
    BY <1>1, <1>4, <1>7, <2>1, EndIsFlushed
  <2> DEFINE grown == Upsert(row, k, c)
  <2>3. /\ grown \in Rows /\ Joined(grown) /\ EndOf(grown) = c.to
        /\ Size(grown) = Size(row) + 1
        /\ \A i \in DOMAIN row : grown[i] = row[i]
        /\ grown[k] = c
    BY <1>1, <1>2, <1>4, <2>2, RowGrows DEF Fixed
  <2>4. DOMAIN grown = 0..k
    BY <1>5, <2>2, <2>3, RowFacts
  <2>5. new[p] = grown /\ new \in [Parts -> Rows]
        /\ \A q \in Parts : q # p => new[q] = chunks[m][q]
    BY <1>1, <1>2, <1>3, <2>3
  <2> HIDE DEF grown
  <2>6. ASSUME NEW i \in DOMAIN row PROVE Filled(deltas[m], p, row[i])
    <3> SUFFICES ASSUME Rest(deltas[m], p, row[i]), i + 1 \notin DOMAIN row PROVE FALSE
      BY <1>4 DEF Fixed
    <3>1. i = Size(row) - 1 /\ DOMAIN row # {}
      BY <1>5
    <3>2. EndOf(row) = Total(deltas[m], p)
      BY <3>1 DEF Rest, EndOf
    <3>3. deltas[m] \in Seq(Delta) /\ Len(deltas[m]) \in Nat /\ next[m] \in Nat
      BY LenProperties DEF IInv, Types
    <3>4. next[m] \in 0..Len(deltas[m]) /\ c.to = Sums(deltas[m], p)[next[m]]
      BY <1>1, <1>4, <3>3 DEF IInv, Good, Lengths
    <3>5. c.to <= Total(deltas[m], p)
      BY <3>3, <3>4, SumsGrow DEF Total
    <3>6. Total(deltas[m], p) \in Nat
      BY <3>3, SumsFacts DEF Total
    <3> QED
      BY <1>1, <2>2, <3>2, <3>5, <3>6 DEF Chunk
  <2>7. at[m] \notin Flushes => Ended(m)
    BY <1>7 DEF Ended
  <2>8. k + 1 \notin DOMAIN grown
    BY <1>2, <2>4
  <2>9. Fixed(m, p, grown)
    <3> SUFFICES ASSUME NEW i \in DOMAIN grown
                 PROVE  \/ Filled(deltas[m], p, grown[i])
                        \/ /\ Rest(deltas[m], p, grown[i])
                           /\ i + 1 \notin DOMAIN grown /\ Ended(m)
      BY <2>3 DEF Fixed
    <3>1. CASE i \in DOMAIN row
      BY <2>3, <2>6, <3>1
    <3>2. CASE i = k
      BY <1>1, <2>3, <2>7, <2>8, <3>2
    <3> QED
      BY <1>5, <2>2, <2>4, <3>1, <3>2
  <2> QED
    BY <1>1, <1>5, <1>7, <2>2, <2>3, <2>5, <2>9
<1> QED
  BY <1>6, <1>7

-----------------------------------------------------------------------------
(* The steps.                                                              *)

Same(m) ==
    /\ at'[m] = at[m] /\ passes'[m] = passes[m] /\ deltas'[m] = deltas[m]
    /\ next'[m] = next[m] /\ length'[m] = length[m] /\ flushed'[m] = flushed[m]
    /\ seq'[m] = seq[m] /\ chunks'[m] = chunks[m] /\ emitted'[m] = emitted[m]

\* A message no step is taken for stays as it is.
LEMMA Untouched ==
  ASSUME NEW m \in Messages, Good(m), Same(m), cut' = cut
  PROVE  Good(m)'
<1>1. Lengths(m)'
  BY DEF Good, Same, Lengths, Streaming
<1>2. RowsFixed(m)'
  BY DEF Good, Same, RowsFixed, Fixed, Ended
<1>3. Follows(m)'
  BY DEF Good, Same, Follows, Streaming
<1>4. Thresholds(m)'
  BY DEF Good, Same, Thresholds, Streaming
<1>5. Whole(m)'
  BY DEF Good, Same, Whole, Over, Unflushed
<1>6. Salvage(m)'
  BY DEF Good, Same, Salvage
<1> QED
  BY <1>1, <1>2, <1>3, <1>4, <1>5, <1>6 DEF Good

LEMMA InitInv == Init => IInv
<1> SUFFICES ASSUME Init PROVE IInv
  OBVIOUS
<1>1. <<>> \in Rows /\ DOMAIN <<>> = {}
  <2>1. <<>> \in [0..(0 - 1) -> Chunk]
    OBVIOUS
  <2> QED
    BY <2>1 DEF Rows
<1>2. Types
  <2>1. chunks \in [Messages -> [Parts -> Rows]]
    BY <1>1 DEF Init
  <2>2. deltas \in [Messages -> Seq(Delta)]
    BY EmptySeq DEF Init
  <2>3. /\ length \in [Messages -> [Parts -> Nat]] /\ flushed \in [Messages -> [Parts -> Nat]]
        /\ seq \in [Messages -> [Parts -> Nat]]
    BY DEF Init, Zero
  <2>4. passes \in [Messages -> 0..MaxPasses]
    BY DeltaBounds DEF Init
  <2>5. /\ at \in [Messages -> Active \cup {"idle"}] /\ next \in [Messages -> Nat]
        /\ emitted \in [Messages -> Nat \cup {None}] /\ cut \in BOOLEAN
    BY DEF Init
  <2> QED
    BY <2>1, <2>2, <2>3, <2>4, <2>5 DEF Types
<1>3. ASSUME NEW m \in Messages PROVE Good(m)
  <2>1. /\ at[m] = "idle" /\ passes[m] = 0 /\ deltas[m] = <<>> /\ next[m] = 0
        /\ \A p \in Parts : length[m][p] = 0 /\ flushed[m][p] = 0 /\ chunks[m][p] = <<>>
        /\ emitted[m] = None
    BY <1>3 DEF Init, Zero
  <2>2. Lengths(m)
    BY <1>1, <2>1, DeltaBounds, EmptySeq DEF Lengths, Streaming
  <2>3. RowsFixed(m)
    <3>1. Cardinality({}) = 0
      BY FS_EmptySet
    <3> QED
      BY <1>1, <2>1, <3>1 DEF RowsFixed, Fixed, Joined
  <2>4. Follows(m) /\ Thresholds(m) /\ Whole(m) /\ Salvage(m)
    BY <2>1 DEF Parts, Follows, Thresholds, Whole, Salvage, Streaming, Over, Tails
  <2> QED
    BY <2>2, <2>3, <2>4 DEF Good
<1> QED
  BY <1>2, <1>3 DEF IInv

\* The other messages, in every step but Cut.
LEMMA OthersKept ==
  ASSUME IInv, NEW m \in Messages, Good(m)', cut' = cut,
         \A o \in Messages : o # m => Same(o)
  PROVE  \A o \in Messages : Good(o)'
BY Untouched DEF IInv

LEMMA TakeKeepsInv ==
  ASSUME IInv, NEW m \in Messages, Take(m)
  PROVE  IInv'
<1>1. /\ at[m] = "idle" /\ passes[m] < MaxPasses /\ passes[m] \in Nat
      /\ at' = [at EXCEPT ![m] = "anchor"]
      /\ passes' = [passes EXCEPT ![m] = @ + 1]
      /\ emitted' = IF Channel[m] = TopLevel /\ emitted[m] = None
                    THEN [emitted EXCEPT ![m] = 0] ELSE emitted
      /\ deltas' = deltas /\ next' = next /\ length' = length /\ flushed' = flushed
      /\ seq' = seq /\ chunks' = chunks /\ cut' = cut
  BY DeltaBounds DEF Take, Running, localVars, IInv, Types
<1>2. Types'
  <2>1. passes' \in [Messages -> 0..MaxPasses]
    BY <1>1, DeltaBounds DEF IInv, Types
  <2>2. at' \in [Messages -> Active \cup {"idle"}]
    BY <1>1 DEF IInv, Types, Active
  <2>3. emitted' \in [Messages -> Nat \cup {None}]
    BY <1>1 DEF IInv, Types
  <2> QED
    BY <1>1, <2>1, <2>2, <2>3 DEF IInv, Types
<1>3. at'[m] = "anchor" /\ passes'[m] = passes[m] + 1
  BY <1>1 DEF IInv, Types
<1>4. Good(m)
  BY DEF IInv
<1>5. Good(m)'
  <2>1. Lengths(m)'
    BY <1>1, <1>3, <1>4 DEF Good, Lengths, Streaming
  <2>2. RowsFixed(m)'
    <3>1. Ended(m) => Ended(m)'
      BY <1>1, <1>3 DEF Ended
    <3> QED
      BY <1>1, <1>4, <3>1 DEF Good, RowsFixed, Fixed
  <2>3. Follows(m)' /\ Thresholds(m)'
    BY <1>3 DEF Follows, Thresholds, Streaming
  <2>4. Whole(m)'
    <3>1. Over(m)' => Over(m)
      BY <1>1, <1>3 DEF Over
    <3> QED
      BY <1>1, <1>3, <1>4, <3>1 DEF Good, Whole, Tails
  <2>5. Salvage(m)'
    <3>1. CASE Channel[m] # TopLevel
      BY <1>1, <1>3, <1>4, <3>1 DEF Good, Salvage
    <3>2. CASE Channel[m] = TopLevel /\ passes[m] = 0
      <4>1. emitted'[m] = 0
        BY <1>1, <1>4, <3>2 DEF Good, Salvage, IInv, Types
      <4>2. deltas[m] = <<>>
        BY <1>4, <3>2 DEF Good, Lengths
      <4>3. <<>> \in Seq(Delta) /\ Len(<<>>) = 0
        BY EmptySeq
      <4>4. Total(deltas[m], "text") = 0
        BY <4>2, <4>3, SumsFacts DEF Total
      <4>5. length[m]["text"] = 0
        BY <1>4, <3>2 DEF Good, Salvage
      <4> QED
        BY <1>1, <1>3, <3>2, <4>1, <4>4, <4>5 DEF Salvage
    <3>3. CASE Channel[m] = TopLevel /\ passes[m] > 0
      <4>1. emitted' = emitted
        <5>1. length[m]["text"] \in Nat /\ length[m]["text"] <= emitted[m]
          BY <1>4, <3>3 DEF Good, Salvage, IInv, Types, Parts
        <5>2. emitted[m] # None
          BY <5>1 DEF None, IInv, Types
        <5> QED
          BY <1>1, <5>2
      <4> QED
        BY <1>1, <1>3, <1>4, <3>3, <4>1 DEF Good, Salvage, Tails
    <3> QED
      BY <1>1, <3>1, <3>2, <3>3
  <2> QED
    BY <2>1, <2>2, <2>3, <2>4, <2>5 DEF Good
<1>6. \A o \in Messages : o # m => Same(o)
  BY <1>1 DEF Same, IInv, Types
<1> QED
  BY <1>1, <1>2, <1>5, <1>6, OthersKept DEF IInv

LEMMA AnchorKeepsInv ==
  ASSUME IInv, NEW m \in Messages, LandAnchor(m)
  PROVE  IInv'
<1>1. /\ at[m] = "anchor"
      /\ at' = [at EXCEPT ![m] = "reading"]
      /\ next' = [next EXCEPT ![m] = 0]
      /\ length' = [length EXCEPT ![m] = Zero]
      /\ flushed' = [flushed EXCEPT ![m] = Zero]
      /\ seq' = [seq EXCEPT ![m] = Zero]
      /\ passes' = passes /\ deltas' = deltas /\ chunks' = chunks
      /\ emitted' = emitted /\ cut' = cut
  BY DEF LandAnchor, Running
<1>2. Types'
  <2>1. Zero \in [Parts -> Nat]
    BY DEF Zero
  <2>2. /\ length' \in [Messages -> [Parts -> Nat]] /\ flushed' \in [Messages -> [Parts -> Nat]]
        /\ seq' \in [Messages -> [Parts -> Nat]]
    BY <1>1, <2>1 DEF IInv, Types
  <2>3. at' \in [Messages -> Active \cup {"idle"}] /\ next' \in [Messages -> Nat]
    BY <1>1 DEF IInv, Types, Active
  <2> QED
    BY <1>1, <2>2, <2>3 DEF IInv, Types
<1>3. /\ at'[m] = "reading" /\ next'[m] = 0
      /\ \A p \in Parts : length'[m][p] = 0 /\ flushed'[m][p] = 0 /\ seq'[m][p] = 0
  BY <1>1 DEF IInv, Types, Zero
<1>4. /\ Good(m) /\ deltas[m] \in Seq(Delta) /\ Len(deltas[m]) \in Nat
      /\ passes[m] \in Nat /\ passes[m] # 0
  BY <1>1, DeltaBounds, LenProperties DEF IInv, Types, Good, Lengths
<1>5. Good(m)'
  <2>1. Lengths(m)'
    <3>1. \A p \in Parts : Sums(deltas[m], p)[0] = 0
      BY <1>4, SumsFacts
    <3>2. passes[m] = 1 => Len(deltas[m]) = 0
      BY <1>1, <1>4, EmptySeq DEF Good, Lengths
    <3> QED
      BY <1>1, <1>3, <1>4, <3>1, <3>2 DEF Good, Lengths, Streaming, Tails
  <2>2. RowsFixed(m)'
    <3>1. Ended(m) => Ended(m)'
      BY <1>1, <1>3 DEF Ended, Tails
    <3> QED
      BY <1>1, <1>4, <3>1 DEF Good, RowsFixed, Fixed
  <2>3. Follows(m)'
    <3>1. ASSUME NEW p \in Parts
          PROVE  /\ Size(chunks[m][p]) \in Nat
                 /\ passes[m] = 1 => Size(chunks[m][p]) = 0
      <4>1. chunks[m][p] \in Rows
        BY DEF IInv, Types
      <4>2. passes[m] = 1 => DOMAIN chunks[m][p] = {}
        BY <1>1, <1>4 DEF Good, Lengths
      <4>3. Size(chunks[m][p]) \in Nat
        BY <4>1, RowFacts
      <4>4. passes[m] = 1 => Size(chunks[m][p]) = 0
        BY <4>2, FS_EmptySet DEF Size
      <4> QED
        BY <4>3, <4>4
    <3> QED
      BY <1>1, <1>3, <3>1 DEF Follows
  <2>4. Thresholds(m)'
    <3>1. \A p \in Parts : p # "reading" /\ Flush[p] \in Nat /\ Flush[p] > 0
      BY FlushAssumption DEF Parts
    <3> QED
      BY <1>3, <3>1 DEF Thresholds
  <2>5. Whole(m)'
    <3>1. Over(m)' => Over(m)
      BY <1>1, <1>3 DEF Over
    <3> QED
      BY <1>1, <1>3, <1>4, <3>1 DEF Good, Whole, Tails
  <2>6. Salvage(m)'
    <3>1. length'[m]["text"] = 0 /\ length[m]["text"] \in Nat
      BY <1>3 DEF IInv, Types, Parts
    <3>2. emitted[m] \in Nat \cup {None}
      BY DEF IInv, Types
    <3> QED
      BY <1>1, <1>3, <1>4, <3>1, <3>2 DEF Good, Salvage, None, Tails
  <2> QED
    BY <2>1, <2>2, <2>3, <2>4, <2>5, <2>6 DEF Good
<1>6. \A o \in Messages : o # m => Same(o)
  BY <1>1 DEF Same, IInv, Types
<1> QED
  BY <1>1, <1>2, <1>5, <1>6, OthersKept DEF IInv

\* What a delta read adds, whether the model has just produced it or brings it again.
LEMMA DeltaFacts ==
  ASSUME IInv, NEW m \in Messages, ReadDelta(m)
  PROVE  LET es == deltas'[m]
             n  == next[m] + 1
             d  == es[n]
         IN  /\ es \in Seq(Delta) /\ deltas' \in [Messages -> Seq(Delta)]
             /\ n \in 1..Len(es) /\ Len(es) <= MaxDeltas[m] /\ d \in Delta
             /\ \A p \in Parts : Sums(es, p)[next[m]] = length[m][p]
             /\ \A p \in Parts : \A c : Filled(deltas[m], p, c) => Filled(es, p, c)
             /\ passes[m] = 1 => n = Len(es)
             /\ passes[m] > 1 => es = deltas[m]
             /\ \A o \in Messages : o # m => deltas'[o] = deltas[o]
             /\ passes[m] = 1 =>
                  Total(es, "text") = Total(deltas[m], "text")
                                        + (IF d.part = "text" THEN d.chars ELSE 0)
<1> DEFINE ds == deltas[m]
           es == deltas'[m]
           n  == next[m] + 1
<1>1. /\ deltas \in [Messages -> Seq(Delta)] /\ ds \in Seq(Delta) /\ Len(ds) \in Nat
      /\ next[m] \in Nat /\ passes[m] \in Nat
  BY DeltaBounds, LenProperties DEF IInv, Types
<1>2. at[m] = "reading" /\ Streaming(m) /\ Lengths(m) /\ Produce(m)
  BY DEF ReadDelta, IInv, Good, Streaming
<1>3. /\ next[m] <= Len(ds) /\ Len(ds) <= MaxDeltas[m] /\ passes[m] # 0
      /\ \A p \in Parts : length[m][p] = Sums(ds, p)[next[m]]
      /\ passes[m] = 1 => next[m] = Len(ds)
  BY <1>2 DEF Lengths
<1>4. CASE passes[m] > 1
  <2>1. next[m] < Len(ds) /\ deltas' = deltas
    BY <1>2, <1>4 DEF Produce
  <2>2. n \in 1..Len(es) /\ es = ds
    BY <1>1, <2>1
  <2>3. es[n] \in Delta
    BY <1>1, <2>2, ElementOfSeq
  <2> QED
    BY <1>1, <1>3, <1>4, <2>1, <2>2, <2>3
<1>5. CASE passes[m] = 1
  <2>1. next[m] < MaxDeltas[m] /\ next[m] = Len(ds)
    BY <1>2, <1>3, <1>5 DEF Produce
  <2>2. PICK d \in Delta : deltas' = [deltas EXCEPT ![m] = Append(@, d)]
    BY <1>2, <1>5 DEF Produce
  <2>3. /\ es = Append(ds, d) /\ es \in Seq(Delta) /\ Len(es) = Len(ds) + 1 /\ es[n] = d
        /\ \A i \in 1..Len(ds) : es[i] = ds[i]
    BY <1>1, <2>1, <2>2, AppendProperties
  <2>4. MaxDeltas[m] \in Nat
    BY DeltaBounds
  <2>5. n \in 1..Len(es) /\ n = Len(es) /\ Len(es) <= MaxDeltas[m]
    BY <1>1, <2>1, <2>3, <2>4
  <2>6. ASSUME NEW p
        PROVE  /\ \A i \in 0..Len(ds) : Sums(es, p)[i] = Sums(ds, p)[i]
               /\ Sums(es, p)[n] = Sums(ds, p)[Len(ds)] + (IF d.part = p THEN d.chars ELSE 0)
    BY <1>1, <2>1, <2>3, SumsAppend
  <2>7. \A p \in Parts : Sums(es, p)[next[m]] = length[m][p]
    BY <1>1, <1>3, <2>1, <2>6
  <2>8. ASSUME NEW p \in Parts, NEW c, Filled(ds, p, c) PROVE Filled(es, p, c)
    <3>1. PICK i \in 1..Len(ds) : /\ c.to = Sums(ds, p)[i]
                                  /\ Sums(ds, p)[i - 1] < c.from + Flush[p]
                                  /\ c.from + Flush[p] <= c.to
      BY <2>8 DEF Filled
    <3>2. i \in 1..Len(es) /\ i \in 0..Len(ds) /\ i - 1 \in 0..Len(ds)
      BY <1>1, <2>3
    <3> QED
      BY <2>6, <3>1, <3>2 DEF Filled
  <2>9. Total(es, "text") = Total(ds, "text") + (IF d.part = "text" THEN d.chars ELSE 0)
    BY <2>5, <2>6 DEF Total
  <2> QED
    BY <1>1, <1>5, <2>2, <2>3, <2>5, <2>7, <2>8, <2>9
<1> QED
  BY <1>1, <1>3, <1>4, <1>5

LEMMA ReadKeepsInv ==
  ASSUME IInv, NEW m \in Messages, ReadDelta(m)
  PROVE  IInv'
<1> DEFINE ds == deltas[m]
           es == deltas'[m]
           n  == next[m] + 1
           d  == es[n]
<1>1. /\ es \in Seq(Delta) /\ deltas' \in [Messages -> Seq(Delta)]
      /\ n \in 1..Len(es) /\ Len(es) <= MaxDeltas[m] /\ d \in Delta
      /\ \A p \in Parts : Sums(es, p)[next[m]] = length[m][p]
      /\ \A p \in Parts : \A c : Filled(ds, p, c) => Filled(es, p, c)
      /\ passes[m] = 1 => n = Len(es)
      /\ passes[m] > 1 => es = ds
      /\ \A o \in Messages : o # m => deltas'[o] = deltas[o]
      /\ passes[m] = 1 =>
           Total(es, "text") = Total(ds, "text") + (IF d.part = "text" THEN d.chars ELSE 0)
  BY DeltaFacts
<1>2. Types /\ Good(m) /\ passes[m] \in Nat /\ next[m] \in Nat /\ Len(es) \in Nat
  BY <1>1, DeltaBounds, LenProperties DEF IInv, Types
<1>3. /\ at[m] = "reading" /\ Streaming(m) /\ ~cut
      /\ next' = [next EXCEPT ![m] = @ + 1]
      /\ passes' = passes /\ flushed' = flushed /\ seq' = seq /\ chunks' = chunks
      /\ cut' = cut
  BY DEF ReadDelta, Running, Streaming
<1>4. next'[m] = n
  BY <1>2, <1>3 DEF Types
<1>5. /\ length' = [length EXCEPT ![m][d.part] = @ + d.chars]
      /\ emitted' = IF Channel[m] = TopLevel /\ d.part = "text"
                    THEN [emitted EXCEPT ![m] = length'[m]["text"]] ELSE emitted
      /\ at' = IF Enough(m, d.part) THEN [at EXCEPT ![m] = d.part] ELSE at
  <2> DEFINE read == deltas'[m][next'[m]]
  <2>1. /\ length' = [length EXCEPT ![m][read.part] = @ + read.chars]
        /\ emitted' = IF Channel[m] = TopLevel /\ read.part = "text"
                      THEN [emitted EXCEPT ![m] = length'[m]["text"]] ELSE emitted
        /\ at' = IF Enough(m, read.part) THEN [at EXCEPT ![m] = read.part] ELSE at
    BY DEF ReadDelta
  <2>2. read = d
    BY <1>4
  <2> HIDE DEF read, d
  <2> QED
    BY <2>1, <2>2
<1>6. d.part \in Parts /\ d.chars \in Nat
  BY <1>1, DeltaBounds DEF Delta
<1> HIDE DEF ds, es, n, d
<1>7. \A p \in Parts : length'[m][p] = length[m][p] + (IF d.part = p THEN d.chars ELSE 0)
  <2>1. \A p \in Parts : length[m][p] \in Nat
    BY <1>2 DEF Types
  <2> QED
    BY <1>2, <1>5, <1>6, <2>1 DEF Types
<1>8. \A p \in Parts : length'[m][p] \in Nat /\ length[m][p] \in Nat /\ flushed[m][p] \in Nat
                       /\ Flush[p] \in Nat
  <2>1. \A p \in Parts : length[m][p] \in Nat /\ flushed[m][p] \in Nat
    BY <1>2 DEF Types
  <2>2. \A p \in Parts : Flush[p] \in Nat
    BY FlushAssumption
  <2> QED
    BY <1>6, <1>7, <2>1, <2>2
<1>9. Types'
  <2>1. length' \in [Messages -> [Parts -> Nat]]
    BY <1>2, <1>5, <1>6 DEF Types
  <2>2. emitted' \in [Messages -> Nat \cup {None}]
    BY <1>2, <1>5, <1>8 DEF Types, Parts
  <2>3. at' \in [Messages -> Active \cup {"idle"}]
    BY <1>2, <1>5, <1>6 DEF Types, Active, Flushes, Parts
  <2>4. next' \in [Messages -> Nat]
    BY <1>2, <1>3 DEF Types
  <2> QED
    BY <1>1, <1>2, <1>3, <2>1, <2>2, <2>3, <2>4 DEF Types
<1>10. at'[m] = IF Enough(m, d.part) THEN d.part ELSE "reading"
  BY <1>2, <1>3, <1>5 DEF Types
<1>11. Streaming(m)' /\ at'[m] \notin Tails /\ at'[m] # "anchor" /\ at'[m] # "idle"
  BY <1>6, <1>10 DEF Streaming, Tails, Parts
<1>12. passes'[m] = passes[m] /\ deltas'[m] = es /\ passes[m] > 0
  BY <1>2, <1>3 DEF es, Good, Lengths, Streaming
<1>13. Good(m)'
  <2>1. Lengths(m)'
    <3>1. ASSUME NEW p \in Parts PROVE length'[m][p] = Sums(es, p)[n]
      <4>1. Sums(es, p)[n] = Sums(es, p)[n - 1] + Chars(es, p, n)
        BY <1>1, SumsFacts
      <4>2. n - 1 = next[m] /\ Chars(es, p, n) = IF d.part = p THEN d.chars ELSE 0
        BY <1>2 DEF n, d, Chars
      <4> QED
        BY <1>1, <1>7, <4>1, <4>2
    <3>2. \A p \in Parts : flushed[m][p] <= length'[m][p]
      <4>1. \A p \in Parts : flushed[m][p] <= length[m][p]
        BY <1>2 DEF Good, Lengths
      <4> QED
        BY <1>6, <1>7, <1>8, <4>1
    <3> QED
      BY <1>1, <1>2, <1>3, <1>4, <1>11, <1>12, <3>1, <3>2 DEF Lengths
  <2>2. RowsFixed(m)'
    <3>1. Ended(m)' <=> Ended(m)
      BY <1>3, <1>11, <1>12 DEF Ended, Tails
    <3>2. Ended(m) => es = ds
      BY <1>1, <1>3 DEF Ended, Tails
    <3> QED
      BY <1>1, <1>2, <1>3, <1>12, <3>1, <3>2 DEF Good, RowsFixed, Fixed, ds
  <2>3. Follows(m)'
    BY <1>2, <1>3, <1>11, <1>12 DEF Good, Follows
  <2>4. Thresholds(m)'
    <3> SUFFICES ASSUME NEW p \in Parts
                 PROVE  IF at'[m] = p
                        THEN /\ n > 0 /\ flushed[m][p] + Flush[p] <= length'[m][p]
                             /\ Sums(es, p)[n - 1] < flushed[m][p] + Flush[p]
                        ELSE length'[m][p] < flushed[m][p] + Flush[p]
      BY <1>3, <1>4, <1>12 DEF Thresholds
    <3>1. p # "reading" /\ length[m][p] < flushed[m][p] + Flush[p]
      BY <1>2, <1>3 DEF Good, Thresholds, Parts
    <3>2. n > 0 /\ n - 1 = next[m]
      BY <1>2 DEF n
    <3>3. Sums(es, p)[n - 1] < flushed[m][p] + Flush[p]
      BY <1>1, <3>1, <3>2
    <3>4. CASE p = d.part
      BY <1>8, <1>10, <3>1, <3>2, <3>3, <3>4 DEF Enough
    <3>5. CASE p # d.part
      BY <1>7, <1>8, <1>10, <3>1, <3>5
    <3> QED
      BY <3>4, <3>5
  <2>5. Whole(m)'
    <3>1. Over(m)' => passes[m] > 1
      BY <1>11, <1>12 DEF Over
    <3>2. at'[m] # "text_tail"
      BY <1>11 DEF Tails
    <3> QED
      BY <1>1, <1>2, <1>3, <1>11, <1>12, <3>1, <3>2 DEF Good, Whole, Over, ds
  <2>6. Salvage(m)'
    <3> SUFFICES ASSUME Channel[m] = TopLevel
                 PROVE  /\ length'[m]["text"] <= emitted'[m]
                        /\ emitted'[m] <= Total(es, "text")
                        /\ passes[m] = 1 => emitted'[m] = Total(es, "text")
      <4>1. Channel[m] # TopLevel => emitted'[m] = emitted[m]
        BY <1>5
      <4> QED
        BY <1>2, <1>11, <1>12, <4>1 DEF Good, Salvage
    <3>1. length'[m]["text"] = Sums(es, "text")[n]
      BY <1>4, <1>11, <1>12, <2>1 DEF Lengths, Parts
    <3>2. /\ Sums(es, "text")[n] <= Total(es, "text") /\ Total(es, "text") \in Nat
          /\ passes[m] = 1 => Sums(es, "text")[n] = Total(es, "text")
      <4>1. n \in 0..Len(es) /\ Len(es) \in 0..Len(es)
        BY <1>1, <1>2
      <4>2. n \in 0..Len(es) /\ Sums(es, "text") \in [0..Len(es) -> Nat]
        BY <1>1, <4>1, SumsFacts
      <4>3. Sums(es, "text")[n] <= Sums(es, "text")[Len(es)]
        BY <1>1, <1>2, <4>1, SumsGrow
      <4> QED
        BY <1>1, <4>1, <4>2, <4>3 DEF Total
    <3>3. length'[m]["text"] \in Nat
      BY <1>8 DEF Parts
    <3>4. CASE d.part = "text"
      <4>1. emitted'[m] = length'[m]["text"]
        BY <1>2, <1>5, <3>4 DEF Types
      <4> QED
        BY <3>1, <3>2, <3>3, <4>1
    <3>5. CASE d.part # "text"
      <4>1. emitted'[m] = emitted[m]
        BY <1>5, <3>5
      <4>2. length'[m]["text"] = length[m]["text"]
        <5>1. length'[m]["text"] = length[m]["text"] + 0
          BY <1>7, <3>5 DEF Parts
        <5> QED
          BY <1>8, <5>1 DEF Parts
      <4>3. /\ length[m]["text"] <= emitted[m] /\ emitted[m] <= Total(ds, "text")
            /\ passes[m] = 1 => emitted[m] = Total(ds, "text")
        BY <1>2, <1>12 DEF Good, Salvage, ds
      <4>4. Total(es, "text") = Total(ds, "text")
        <5>1. CASE passes[m] > 1
          BY <1>1, <5>1
        <5>2. CASE passes[m] = 1
          <6>1. Total(ds, "text") \in Nat
            <7>1. ds \in Seq(Delta) /\ Len(ds) \in Nat
              BY <1>2, LenProperties DEF Types, ds
            <7> QED
              BY <7>1, SumsFacts DEF Total
          <6> QED
            BY <1>1, <3>5, <5>2, <6>1
        <5> QED
          BY <1>2, <1>12, <5>1, <5>2
      <4> QED
        BY <4>1, <4>2, <4>3, <4>4
    <3> QED
      BY <3>4, <3>5
  <2> QED
    BY <2>1, <2>2, <2>3, <2>4, <2>5, <2>6 DEF Good
<1>14. \A o \in Messages : o # m => Same(o)
  BY <1>1, <1>2, <1>3, <1>5, <1>6 DEF Same, Types
<1> QED
  BY <1>3, <1>9, <1>13, <1>14, OthersKept DEF IInv

LEMMA LandChunkKeepsInv ==
  ASSUME IInv, NEW m \in Messages, LandChunk(m)
  PROVE  IInv'
<1> DEFINE p == at[m]
<1>1. /\ at[m] \in Flushes /\ ~cut /\ cut' = cut
      /\ chunks' = [chunks EXCEPT ![m] = Written(m)]
      /\ flushed' = [flushed EXCEPT ![m][p] = length[m][p]]
      /\ seq' = [seq EXCEPT ![m][p] = @ + 1]
      /\ at' = [at EXCEPT ![m] = "reading"]
      /\ passes' = passes /\ deltas' = deltas /\ next' = next /\ length' = length
      /\ emitted' = emitted
  BY DEF LandChunk, Running
<1>2. Types /\ Good(m) /\ Streaming(m) /\ p \in Parts /\ PartOf(at[m]) = p
  BY <1>1, PartFacts DEF IInv, Streaming, Flushes
<1>3. /\ Written(m) \in [Parts -> Rows]
      /\ \A q \in Parts : q # p => Written(m)[q] = chunks[m][q]
      /\ Fixed(m, p, Written(m)[p])
      /\ seq[m][p] < Size(Written(m)[p]) /\ Written(m)[p][seq[m][p]].to = length[m][p]
      /\ passes[m] = 1 => Size(Written(m)[p]) = seq[m][p] + 1
      /\ passes[m] # 1 => Written(m) = chunks[m]
  BY <1>1, <1>2, LandedFacts
<1>4. /\ at'[m] = "reading" /\ chunks'[m] = Written(m)
      /\ flushed'[m][p] = length[m][p] /\ seq'[m][p] = seq[m][p] + 1
      /\ \A q \in Parts : q # p => flushed'[m][q] = flushed[m][q] /\ seq'[m][q] = seq[m][q]
  BY <1>1, <1>2 DEF Types
<1>5. Streaming(m)' /\ passes[m] > 0 /\ passes[m] \in Nat
  BY <1>2, <1>4, DeltaBounds DEF Streaming, Types, Good, Lengths
<1>6. Types'
  <2>1. chunks' \in [Messages -> [Parts -> Rows]]
    BY <1>1, <1>2, <1>3 DEF Types
  <2>2. seq' \in [Messages -> [Parts -> Nat]] /\ flushed' \in [Messages -> [Parts -> Nat]]
    BY <1>1, <1>2 DEF Types
  <2>3. at' \in [Messages -> Active \cup {"idle"}]
    BY <1>1, <1>2 DEF Types, Active
  <2> QED
    BY <1>1, <1>2, <2>1, <2>2, <2>3 DEF Types
<1>7. \A q \in Parts : length[m][q] \in Nat /\ flushed[m][q] \in Nat /\ seq[m][q] \in Nat
  BY <1>2 DEF Types
<1> HIDE DEF p
<1>8. Good(m)'
  <2>1. Lengths(m)'
    <3>1. \A q \in Parts : flushed'[m][q] <= length[m][q]
      BY <1>2, <1>4, <1>7 DEF Good, Lengths
    <3> QED
      BY <1>1, <1>2, <1>4, <1>5, <3>1 DEF Good, Lengths, Tails
  <2>2. RowsFixed(m)'
    <3>1. Ended(m) => Ended(m)'
      BY <1>1 DEF Ended, Flushes, Tails
    <3>2. \A q \in Parts : Fixed(m, q, chunks'[m][q])
      BY <1>2, <1>3, <1>4 DEF Good, RowsFixed
    <3> QED
      BY <1>1, <3>1, <3>2 DEF RowsFixed, Fixed
  <2>3. Follows(m)'
    <3> SUFFICES ASSUME NEW q \in Parts
                 PROVE  /\ seq'[m][q] <= Size(chunks'[m][q])
                        /\ flushed'[m][q] = IF seq'[m][q] = 0 THEN 0
                                            ELSE chunks'[m][q][seq'[m][q] - 1].to
                        /\ passes[m] = 1 => seq'[m][q] = Size(chunks'[m][q])
      BY <1>1 DEF Follows
    <3>1. CASE q = p
      <4>1. Written(m)[p] \in Rows
        BY <1>2, <1>3
      <4>2. Size(Written(m)[p]) \in Nat
        BY <4>1, RowFacts
      <4>3. seq'[m][p] # 0 /\ seq'[m][p] - 1 = seq[m][p]
        BY <1>2, <1>4, <1>7
      <4> QED
        BY <1>2, <1>3, <1>4, <1>7, <3>1, <4>2, <4>3
    <3>2. CASE q # p
      <4>1. at[m] # "text_tail"
        BY <1>1 DEF Flushes
      <4> QED
        BY <1>1, <1>2, <1>3, <1>4, <3>2, <4>1 DEF Good, Follows
    <3> QED
      BY <3>1, <3>2
  <2>4. Thresholds(m)'
    <3>1. \A q \in Parts : q # "reading" /\ Flush[q] \in Nat /\ Flush[q] > 0
      BY FlushAssumption DEF Parts
    <3>2. \A q \in Parts : q # p => length[m][q] < flushed[m][q] + Flush[q]
      BY <1>2 DEF Good, Thresholds, p
    <3>3. \A q \in Parts : length[m][q] < flushed'[m][q] + Flush[q]
      BY <1>2, <1>4, <1>7, <3>1, <3>2
    <3> QED
      BY <1>1, <1>4, <3>1, <3>3 DEF Thresholds
  <2>5. Whole(m)'
    <3>1. Over(m)' => passes[m] > 1
      BY <1>1, <1>4 DEF Over
    <3> QED
      BY <1>1, <1>2, <1>3, <1>4, <3>1 DEF Good, Whole, Over, Tails
  <2>6. Salvage(m)'
    BY <1>1, <1>2, <1>4, <1>5 DEF Good, Salvage, Tails
  <2> QED
    BY <2>1, <2>2, <2>3, <2>4, <2>5, <2>6 DEF Good
<1>9. \A o \in Messages : o # m => Same(o)
  BY <1>1, <1>2 DEF Same, Types
<1> QED
  BY <1>1, <1>6, <1>8, <1>9, OthersKept DEF IInv

LEMMA EndDeltasKeepsInv ==
  ASSUME IInv, NEW m \in Messages, EndDeltas(m)
  PROVE  IInv'
<1>1. /\ at[m] = "reading" /\ ~cut /\ cut' = cut
      /\ passes[m] > 1 => next[m] = Len(deltas[m])
      /\ at' = [at EXCEPT ![m] =
                  IF Unflushed(m, "reasoning") THEN "reasoning_tail" ELSE TextTailOrDone(m)]
      /\ passes' = passes /\ deltas' = deltas /\ next' = next /\ length' = length
      /\ flushed' = flushed /\ seq' = seq /\ chunks' = chunks /\ emitted' = emitted
  BY DEF EndDeltas, Running, localVars
<1>2. Types /\ Good(m) /\ Streaming(m) /\ passes[m] \in Nat /\ passes[m] > 0
  BY <1>1, DeltaBounds DEF IInv, Types, Streaming, Good, Lengths
<1>3. at'[m] = IF Unflushed(m, "reasoning") THEN "reasoning_tail" ELSE TextTailOrDone(m)
  BY <1>1, <1>2 DEF Types
<1>4. at'[m] \in Tails \cup {"idle"}
  BY <1>3 DEF TextTailOrDone, Tails
<1>5. next[m] = Len(deltas[m])
  BY <1>1, <1>2 DEF Good, Lengths
<1>6. Types'
  <2>1. at' \in [Messages -> Active \cup {"idle"}]
    BY <1>1, <1>2, <1>3 DEF Types, Active, Tails, TextTailOrDone
  <2> QED
    BY <1>1, <1>2, <2>1 DEF Types
<1>7. Good(m)'
  <2>1. Lengths(m)'
    BY <1>1, <1>2, <1>4, <1>5 DEF Good, Lengths, Streaming, Tails
  <2>2. RowsFixed(m)'
    <3>1. Ended(m)'
      BY <1>1, <1>2, <1>4 DEF Ended
    <3> QED
      BY <1>1, <1>2, <3>1 DEF Good, RowsFixed, Fixed
  <2>3. Follows(m)'
    BY <1>1, <1>2 DEF Good, Follows
  <2>4. Thresholds(m)'
    <3>1. \A p \in Parts : at'[m] # p /\ at[m] # p
      BY <1>1, <1>4 DEF Parts, Tails
    <3> QED
      BY <1>1, <1>2, <3>1 DEF Good, Thresholds
  <2>5. Whole(m)'
    <3>1. ASSUME NEW p \in Parts, ~Unflushed(m, p)
          PROVE  EndOf(chunks[m][p]) = Total(deltas[m], p)
      BY <1>1, <1>5, <3>1, NothingLeft
    <3>2. CASE at'[m] = "reasoning_tail"
      <4>1. Unflushed(m, "reasoning") /\ PartOf(at'[m]) = "reasoning"
        BY <1>3, <3>2 DEF TextTailOrDone, PartOf
      <4>2. passes[m] > 1 => Over(m)
        BY DEF Over
      <4> QED
        BY <1>1, <1>2, <3>2, <4>1, <4>2 DEF Good, Whole, Over, Unflushed
    <3>3. CASE at'[m] = "text_tail"
      <4>1. /\ Unflushed(m, "text") /\ ~Unflushed(m, "reasoning")
            /\ PartOf(at'[m]) = "text"
        BY <1>3, <3>3 DEF TextTailOrDone, PartOf
      <4>2. EndOf(chunks[m]["reasoning"]) = Total(deltas[m], "reasoning")
        BY <3>1, <4>1 DEF Parts
      <4>3. passes[m] > 1 => Over(m)
        BY DEF Over
      <4> QED
        BY <1>1, <1>2, <3>3, <4>1, <4>2, <4>3 DEF Good, Whole, Over, Unflushed
    <3>4. CASE at'[m] = "idle"
      <4>1. ~Unflushed(m, "text") /\ ~Unflushed(m, "reasoning")
        BY <1>3, <3>4 DEF TextTailOrDone
      <4>2. \A p \in Parts : EndOf(chunks[m][p]) = Total(deltas[m], p)
        BY <3>1, <4>1 DEF Parts
      <4> QED
        BY <1>1, <3>4, <4>2 DEF Whole, Tails
    <3> QED
      BY <1>4, <3>2, <3>3, <3>4 DEF Tails
  <2>6. Salvage(m)'
    <3>1. length[m]["text"] = Total(deltas[m], "text")
      BY <1>2, <1>5 DEF Good, Lengths, Total, Parts
    <3>2. length[m]["text"] \in Nat /\ emitted[m] \in Nat \cup {None}
      BY <1>2 DEF Types, Parts
    <3> QED
      BY <1>1, <1>2, <3>1, <3>2 DEF Good, Salvage, None
  <2> QED
    BY <2>1, <2>2, <2>3, <2>4, <2>5, <2>6 DEF Good
<1>8. \A o \in Messages : o # m => Same(o)
  BY <1>1, <1>2 DEF Same, Types
<1> QED
  BY <1>1, <1>6, <1>7, <1>8, OthersKept DEF IInv

\* When a tail has landed the reader has the whole of its part, and of the other unless
\* that has a tail to come.
LEMMA TailFacts ==
  ASSUME IInv, NEW m \in Messages, LandTail(m)
  PROVE  LET p == PartOf(at[m]) IN
         /\ EndOf(Written(m)[p]) = Total(deltas[m], p)
         /\ \A q \in Parts :
              q # p /\ (at[m] = "reasoning_tail" => ~Unflushed(m, q))
                => EndOf(Written(m)[q]) = Total(deltas[m], q)
<1> DEFINE p == PartOf(at[m])
<1>1. at[m] \in Tails /\ ~cut
  BY DEF LandTail, Running
<1>2. /\ Good(m) /\ p \in Parts /\ Streaming(m) /\ passes[m] \in Nat /\ passes[m] > 0
  BY <1>1, PartFacts, DeltaBounds DEF IInv, Types, Streaming, Good, Lengths, Tails
<1>3. /\ \A q \in Parts : q # p => Written(m)[q] = chunks[m][q]
      /\ passes[m] = 1 => EndOf(Written(m)[p]) = length[m][p]
      /\ passes[m] # 1 => Written(m) = chunks[m]
  BY <1>1, LandedFacts
<1>4. next[m] = Len(deltas[m]) /\ length[m][p] = Total(deltas[m], p)
  BY <1>1, <1>2 DEF Good, Lengths, Total
<1>5. passes[m] # 1 => \A q \in Parts : EndOf(chunks[m][q]) = Total(deltas[m], q)
  BY <1>2 DEF Good, Whole, Over
<1>6. EndOf(Written(m)[p]) = Total(deltas[m], p)
  BY <1>2, <1>3, <1>4, <1>5
<1>7. ASSUME NEW q \in Parts, q # p, at[m] = "reasoning_tail" => ~Unflushed(m, q)
      PROVE  EndOf(Written(m)[q]) = Total(deltas[m], q)
  <2>1. Written(m)[q] = chunks[m][q]
    BY <1>3, <1>7
  <2>2. CASE at[m] = "reasoning_tail"
    BY <1>1, <1>4, <1>7, <2>1, <2>2, NothingLeft
  <2>3. CASE at[m] = "text_tail"
    <3>1. q = "reasoning"
      BY <1>7, <2>3 DEF PartOf, Parts
    <3> QED
      BY <1>2, <2>1, <2>3, <3>1 DEF Good, Whole
  <2> QED
    BY <1>1, <2>2, <2>3 DEF Tails
<1> QED
  BY <1>6, <1>7

LEMMA LandTailKeepsInv ==
  ASSUME IInv, NEW m \in Messages, LandTail(m)
  PROVE  IInv'
<1> DEFINE p == PartOf(at[m])
<1>1. /\ at[m] \in Tails /\ ~cut /\ cut' = cut
      /\ chunks' = [chunks EXCEPT ![m] = Written(m)]
      /\ at' = [at EXCEPT ![m] =
                  IF at[m] = "reasoning_tail" THEN TextTailOrDone(m) ELSE "idle"]
      /\ passes' = passes /\ deltas' = deltas /\ next' = next /\ length' = length
      /\ flushed' = flushed /\ seq' = seq /\ emitted' = emitted
  BY DEF LandTail, Running, localVars
<1>2. /\ Types /\ Good(m) /\ p \in Parts /\ Streaming(m)
      /\ passes[m] \in Nat /\ passes[m] > 0
  BY <1>1, PartFacts, DeltaBounds DEF IInv, Types, Streaming, Good, Lengths, Tails
<1>3. /\ Written(m) \in [Parts -> Rows]
      /\ \A q \in Parts : q # p => Written(m)[q] = chunks[m][q]
      /\ Fixed(m, p, Written(m)[p])
      /\ seq[m][p] < Size(Written(m)[p])
      /\ passes[m] # 1 => Written(m) = chunks[m]
  BY <1>1, LandedFacts
<1>4. /\ EndOf(Written(m)[p]) = Total(deltas[m], p)
      /\ \A q \in Parts :
           q # p /\ (at[m] = "reasoning_tail" => ~Unflushed(m, q))
             => EndOf(Written(m)[q]) = Total(deltas[m], q)
  BY TailFacts
<1>5. /\ at'[m] = IF at[m] = "reasoning_tail" THEN TextTailOrDone(m) ELSE "idle"
      /\ chunks'[m] = Written(m)
  BY <1>1, <1>2 DEF Types
<1>7. /\ at'[m] \in {"text_tail", "idle"}
      /\ at'[m] = "text_tail" => /\ at[m] = "reasoning_tail" /\ p = "reasoning"
                                 /\ Unflushed(m, "text")
      /\ at'[m] = "idle" /\ at[m] = "reasoning_tail" => ~Unflushed(m, "text")
  BY <1>5 DEF TextTailOrDone, PartOf
<1>8. Types'
  <2>1. chunks' \in [Messages -> [Parts -> Rows]]
    BY <1>1, <1>2, <1>3 DEF Types
  <2>2. at' \in [Messages -> Active \cup {"idle"}]
    BY <1>1, <1>2, <1>5, <1>7 DEF Types, Active, Tails
  <2> QED
    BY <1>1, <1>2, <2>1, <2>2 DEF Types
<1> HIDE DEF p
<1>9. Good(m)'
  <2>1. Lengths(m)'
    BY <1>1, <1>2, <1>7 DEF Good, Lengths, Streaming, Tails
  <2>2. RowsFixed(m)'
    <3>1. Ended(m)'
      BY <1>1, <1>2, <1>7 DEF Ended, Tails
    <3>2. \A q \in Parts : Fixed(m, q, chunks'[m][q])
      BY <1>2, <1>3, <1>5 DEF Good, RowsFixed
    <3> QED
      BY <1>1, <3>1, <3>2 DEF RowsFixed, Fixed
  <2>3. Follows(m)'
    <3> SUFFICES ASSUME at'[m] = "text_tail", NEW q \in Parts
                 PROVE  /\ seq[m][q] <= Size(chunks'[m][q])
                        /\ flushed[m][q] = IF seq[m][q] = 0 THEN 0
                                           ELSE chunks'[m][q][seq[m][q] - 1].to
                        /\ passes[m] = 1 /\ q # "reasoning" => seq[m][q] = Size(chunks'[m][q])
      BY <1>1, <1>7 DEF Follows, Streaming
    <3>1. /\ seq[m][q] <= Size(chunks[m][q])
          /\ flushed[m][q] = IF seq[m][q] = 0 THEN 0 ELSE chunks[m][q][seq[m][q] - 1].to
          /\ passes[m] = 1 => seq[m][q] = Size(chunks[m][q])
      BY <1>1, <1>2, <1>7 DEF Good, Follows
    <3>2. CASE q # p \/ passes[m] # 1
      BY <1>3, <1>5, <1>7, <3>1, <3>2 DEF Parts
    <3>3. CASE q = p /\ passes[m] = 1
      <4>1. chunks[m][p] \in Rows /\ Written(m)[p] \in Rows /\ seq[m][p] \in Nat
        BY <1>2, <1>3 DEF Types
      <4>2. Size(Written(m)[p]) \in Nat
        BY <4>1, RowFacts
      <4>3. seq[m][p] = Size(chunks[m][p]) /\ DOMAIN chunks[m][p] = 0..(seq[m][p] - 1)
        BY <3>1, <3>3, <4>1, RowFacts
      <4>4. \A k \in 0..(seq[m][p] - 1) : Written(m)[p][k] = chunks[m][p][k]
        <5>1. Written(m)[p] = Upsert(chunks[m][p], seq[m][p],
                                     [from |-> flushed[m][p], to |-> length[m][p]])
          BY <1>2 DEF Written, Types, p
        <5> QED
          BY <4>1, <4>3, <5>1 DEF Upsert
      <4> QED
        BY <1>3, <1>5, <1>7, <3>1, <3>3, <4>1, <4>2, <4>4
    <3> QED
      BY <3>2, <3>3
  <2>4. Thresholds(m)'
    <3>1. \A q \in Parts : at'[m] # q /\ at[m] # q
      BY <1>1, <1>7 DEF Parts, Tails
    <3> QED
      BY <1>1, <1>2, <3>1 DEF Good, Thresholds
  <2>5. Whole(m)'
    <3>1. CASE at'[m] = "text_tail"
      <4>1. PartOf(at'[m]) = "text" /\ ~(at'[m] = "idle")
        BY <3>1 DEF PartOf
      <4>2. EndOf(chunks'[m]["reasoning"]) = Total(deltas[m], "reasoning")
        BY <1>4, <1>5, <1>7, <3>1
      <4>3. Over(m)' => \A q \in Parts : EndOf(chunks'[m][q]) = Total(deltas[m], q)
        BY <1>1, <1>2, <1>3, <1>5, <4>1 DEF Good, Whole, Over
      <4> QED
        BY <1>1, <1>7, <3>1, <4>1, <4>2, <4>3 DEF Whole, Unflushed
    <3>2. CASE at'[m] = "idle"
      <4>1. \A q \in Parts : q # p /\ at[m] = "reasoning_tail" => ~Unflushed(m, q)
        BY <1>7, <3>2 DEF Parts, PartOf, p
      <4>2. \A q \in Parts : EndOf(chunks'[m][q]) = Total(deltas[m], q)
        BY <1>4, <1>5, <4>1
      <4> QED
        BY <1>1, <3>2, <4>2 DEF Whole, Tails
    <3> QED
      BY <1>7, <3>1, <3>2
  <2>6. Salvage(m)'
    BY <1>1, <1>2, <1>7 DEF Good, Salvage
  <2> QED
    BY <2>1, <2>2, <2>3, <2>4, <2>5, <2>6 DEF Good
<1>10. \A o \in Messages : o # m => Same(o)
  BY <1>1, <1>2 DEF Same, Types
<1> QED
  BY <1>1, <1>8, <1>9, <1>10, OthersKept DEF IInv

\* Whichever of the chunks being written landed before the run was cut.
LEMMA CutKeepsInv ==
  ASSUME IInv, Cut
  PROVE  IInv'
<1>1. PICK landed \in SUBSET {m \in Messages : at[m] \in Flushes \cup Tails} :
        chunks' = [m \in Messages |-> IF m \in landed THEN Written(m) ELSE chunks[m]]
  BY DEF Cut
<1>2. /\ ~cut /\ cut' = TRUE
      /\ at' = at /\ passes' = passes /\ deltas' = deltas /\ next' = next
      /\ length' = length /\ flushed' = flushed /\ seq' = seq /\ emitted' = emitted
  BY DEF Cut, localVars
<1>3. ASSUME NEW m \in Messages
      PROVE  chunks'[m] \in [Parts -> Rows] /\ Good(m)'
  <2>1. Types /\ Good(m) /\ passes[m] \in Nat
    BY DeltaBounds DEF IInv, Types
  <2>2. CASE chunks'[m] = chunks[m]
    <3>1. Lengths(m)' /\ RowsFixed(m)' /\ Thresholds(m)' /\ Whole(m)' /\ Salvage(m)'
      BY <1>2, <2>1, <2>2 DEF Good, Lengths, RowsFixed, Fixed, Ended, Thresholds, Whole,
                              Over, Unflushed, Salvage, Streaming
    <3>2. Follows(m)'
      BY <1>2 DEF Follows
    <3> QED
      BY <2>1, <2>2, <3>1, <3>2 DEF Good, Types
  <2>3. CASE m \in landed /\ chunks'[m] # chunks[m]
    <3> DEFINE p == PartOf(at[m])
    <3>1. at[m] \in Flushes \cup Tails /\ chunks'[m] = Written(m)
      BY <1>1, <2>3
    <3>2. p \in Parts /\ Streaming(m) /\ passes[m] > 0
      BY <2>1, <3>1, PartFacts DEF Streaming, Flushes, Tails, Good, Lengths
    <3>3. /\ Written(m) \in [Parts -> Rows]
          /\ \A q \in Parts : q # p => Written(m)[q] = chunks[m][q]
          /\ Fixed(m, p, Written(m)[p])
          /\ passes[m] = 1
      BY <1>2, <2>3, <3>1, LandedFacts
    <3>4. Lengths(m)'
      BY <1>2, <2>1, <3>2 DEF Good, Lengths, Streaming
    <3>5. RowsFixed(m)'
      <4>1. \A q \in Parts : Fixed(m, q, Written(m)[q])
        BY <2>1, <3>3 DEF Good, RowsFixed
      <4> QED
        BY <1>2, <3>1, <4>1 DEF RowsFixed, Fixed, Ended
    <3>6. Follows(m)'
      BY <1>2 DEF Follows
    <3>7. Thresholds(m)' /\ Salvage(m)'
      BY <1>2, <2>1 DEF Good, Thresholds, Salvage, Streaming
    <3>8. Whole(m)'
      <4>1. ~Over(m)'
        BY <1>2, <3>2, <3>3 DEF Over, Streaming
      <4>2. at[m] = "text_tail" => chunks'[m]["reasoning"] = chunks[m]["reasoning"]
        BY <3>1, <3>3 DEF PartOf, Parts
      <4> QED
        BY <1>2, <2>1, <4>1, <4>2 DEF Good, Whole, Unflushed
    <3> QED
      BY <3>1, <3>3, <3>4, <3>5, <3>6, <3>7, <3>8 DEF Good
  <2> QED
    BY <1>1, <2>2, <2>3
<1>4. chunks' \in [Messages -> [Parts -> Rows]]
  BY <1>1, <1>3
<1> QED
  BY <1>2, <1>3, <1>4 DEF IInv, Types

LEMMA NextKeepsInv == IInv /\ [Next]_vars => IInv'
<1> SUFFICES ASSUME IInv, [Next]_vars PROVE IInv'
  OBVIOUS
<1>1. CASE UNCHANGED vars
  <2>1. Types'
    BY <1>1 DEF IInv, Types, vars, localVars
  <2>2. \A m \in Messages : Same(m) /\ cut' = cut
    BY <1>1 DEF Same, vars, localVars
  <2>3. \A m \in Messages : Good(m)'
    BY <2>2, Untouched DEF IInv
  <2> QED
    BY <2>1, <2>3 DEF IInv
<1>2. CASE Cut
  BY <1>2, CutKeepsInv
<1>3. ASSUME NEW m \in Messages,
             \/ Take(m) \/ LandAnchor(m) \/ ReadDelta(m)
             \/ LandChunk(m) \/ EndDeltas(m) \/ LandTail(m)
      PROVE  IInv'
  BY <1>3, TakeKeepsInv, AnchorKeepsInv, ReadKeepsInv, LandChunkKeepsInv,
     EndDeltasKeepsInv, LandTailKeepsInv
<1> QED
  BY <1>1, <1>2, <1>3 DEF Next

\* In every reachable state the deltas alone say which chunks are on the stream.
THEOREM DeltasFixChunks == Spec => []IInv
BY InitInv, NextKeepsInv, PTL DEF Spec

-----------------------------------------------------------------------------
(* The invariants.                                                         *)

\* Type correctness, for any messages, channels, thresholds and bounds: no offset runs
\* ahead of what was read, and no message is read past its deltas.
THEOREM TypeCorrect == Spec => []TypeOK
<1>1. IInv => TypeOK
  <2> SUFFICES ASSUME IInv PROVE TypeOK
    OBVIOUS
  <2>1. ASSUME NEW m \in Messages
        PROVE  /\ next[m] <= MaxDeltas[m]
               /\ \A p \in Parts : flushed[m][p] \in 0..length[m][p]
    <3>1. /\ next[m] \in Nat /\ Len(deltas[m]) \in Nat /\ MaxDeltas[m] \in Nat
          /\ \A p \in Parts : flushed[m][p] \in Nat /\ length[m][p] \in Nat
      BY DeltaBounds, LenProperties DEF IInv, Types
    <3>2. Lengths(m)
      BY DEF IInv, Good
    <3> QED
      BY <3>1, <3>2 DEF Lengths
  <2>2. ASSUME NEW m \in Messages, NEW p \in Parts, NEW k \in DOMAIN chunks[m][p]
        PROVE  k \in Nat /\ chunks[m][p][k] \in Chunk
    <3>1. chunks[m][p] \in Rows
      BY DEF IInv, Types
    <3> QED
      BY <2>2, <3>1, RowFacts
  <2> QED
    BY <2>1, <2>2 DEF IInv, Types, TypeOK
<1> QED
  BY <1>1, DeltasFixChunks, PTL

\* Every chunk another follows is as long as the threshold, and none is longer than
\* what one delta can add to just below it.
THEOREM ChunksStayInBounds == Spec => []ChunksCoalesce
<1>1. IInv => ChunksCoalesce
  <2> SUFFICES ASSUME IInv, NEW m \in Messages, NEW p \in Parts
               PROVE  LET row == chunks[m][p] IN
                      /\ \A k \in DOMAIN row :
                           /\ row[k].to - row[k].from < Flush[p] + MaxDelta
                           /\ k + 1 \in DOMAIN row => row[k].to - row[k].from >= Flush[p]
                      /\ at[m] = "reading" => length[m][p] - flushed[m][p] < Flush[p]
    BY DEF ChunksCoalesce
  <2> DEFINE ds == deltas[m]
             row == chunks[m][p]
             S == Sums(ds, p)
  <2>1. /\ ds \in Seq(Delta) /\ Len(ds) \in Nat /\ row \in Rows /\ Good(m)
        /\ length[m][p] \in Nat /\ flushed[m][p] \in Nat
    BY LenProperties DEF IInv, Types
  <2>2. Flush[p] \in Nat /\ Flush[p] > 0 /\ MaxDelta \in Nat
    BY FlushAssumption, DeltaBounds
  <2>3. /\ S \in [0..Len(ds) -> Nat]
        /\ \A n \in 1..Len(ds) : S[n] <= S[n - 1] + MaxDelta
    BY <2>1, SumsFacts
  <2>4. ASSUME NEW k \in DOMAIN row
        PROVE  /\ row[k].to - row[k].from < Flush[p] + MaxDelta
               /\ k + 1 \in DOMAIN row => row[k].to - row[k].from >= Flush[p]
    <3>1. row[k].from \in Nat /\ row[k].to \in Nat
      BY <2>1, RowFacts
    <3>2. CASE Filled(ds, p, row[k])
      <4>1. PICK n \in 1..Len(ds) : /\ row[k].to = S[n] /\ S[n - 1] < row[k].from + Flush[p]
                                    /\ row[k].from + Flush[p] <= row[k].to
        BY <3>2 DEF Filled
      <4>2. S[n] <= S[n - 1] + MaxDelta /\ S[n] \in Nat
        BY <2>3, <3>1, <4>1
      <4>3. S[n - 1] \in Nat
        BY <2>1, <2>3
      <4> HIDE DEF S, row
      <4> QED
        BY <2>2, <3>1, <4>1, <4>2, <4>3
    <3>3. CASE Rest(ds, p, row[k]) /\ k + 1 \notin DOMAIN row
      <4>1. row[k].to < row[k].from + Flush[p]
        BY <3>3 DEF Rest
      <4> QED
        BY <2>2, <3>1, <3>3, <4>1
    <3> QED
      BY <2>1, <3>2, <3>3 DEF Good, RowsFixed, Fixed
  <2>5. ASSUME at[m] = "reading" PROVE length[m][p] - flushed[m][p] < Flush[p]
    <3>1. length[m][p] < flushed[m][p] + Flush[p]
      BY <2>1, <2>5 DEF Good, Thresholds, Streaming, Parts
    <3> QED
      BY <2>1, <2>2, <3>1
  <2> QED
    BY <2>4, <2>5
<1> QED
  BY <1>1, DeltasFixChunks, PTL

\* What a reader can be shown of a part is its last chunk's end, never more than was
\* said.
LEMMA ShownIsEnd ==
  ASSUME IInv, NEW m \in Messages, NEW p \in Parts
  PROVE  /\ Shown(m, p) = EndOf(chunks[m][p])
         /\ EndOf(chunks[m][p]) \in 0..Total(deltas[m], p)
         /\ Total(deltas[m], p) \in Nat
<1> DEFINE ds == deltas[m]
           row == chunks[m][p]
<1>1. ds \in Seq(Delta) /\ Len(ds) \in Nat /\ row \in Rows /\ Fixed(m, p, row)
  BY LenProperties DEF IInv, Types, Good, RowsFixed
<1>2. Shown(m, p) = EndOf(row)
  BY <1>1 DEF Shown, EndOf, Fixed, Size
<1>3. Total(ds, p) \in Nat
  BY <1>1, SumsFacts DEF Total
<1>4. ASSUME NEW k \in DOMAIN row PROVE row[k].to \in 0..Total(ds, p)
  <2>1. row[k].to \in Nat
    BY <1>1, RowFacts
  <2>2. row[k].to <= Total(ds, p)
    <3>1. CASE Filled(ds, p, row[k])
      <4>1. PICK n \in 1..Len(ds) : row[k].to = Sums(ds, p)[n]
        BY <3>1 DEF Filled
      <4> QED
        BY <1>1, <4>1, SumsGrow DEF Total
    <3>2. CASE Rest(ds, p, row[k])
      BY <1>3, <3>2 DEF Rest
    <3> QED
      BY <1>1, <3>1, <3>2 DEF Fixed
  <2> QED
    BY <1>3, <2>1, <2>2
<1>5. EndOf(row) \in 0..Total(ds, p)
  <2>1. DOMAIN row = 0..(Size(row) - 1) /\ Size(row) \in Nat
    BY <1>1, RowFacts
  <2>2. DOMAIN row # {} => Size(row) - 1 \in DOMAIN row
    BY <2>1
  <2> QED
    BY <1>3, <1>4, <2>2 DEF EndOf
<1> QED
  BY <1>2, <1>3, <1>5

\* The salvage of a cut turn (_emitted_texts) has all the text the stream under way has
\* read, and of a message in its first stream, or between streams, all its reader has
\* seen.
THEOREM SalvageIsEnough == Spec => []SalvageCoversShown
<1>1. IInv => SalvageCoversShown
  <2> SUFFICES ASSUME IInv, NEW m \in Messages
               PROVE  IF Channel[m] = TopLevel
                      THEN passes[m] > 0 =>
                             /\ length[m]["text"] <= emitted[m]
                             /\ passes[m] = 1 \/ at[m] = "idle" =>
                                  Shown(m, "text") <= emitted[m]
                      ELSE emitted[m] = None
    BY DEF SalvageCoversShown
  <2>1. Salvage(m)
    BY DEF IInv, Good
  <2>2. Shown(m, "text") \in 0..Total(deltas[m], "text") /\ Total(deltas[m], "text") \in Nat
    BY ShownIsEnd DEF Parts
  <2> QED
    BY <2>1, <2>2 DEF Salvage
<1> QED
  BY <1>1, DeltasFixChunks, PTL

-----------------------------------------------------------------------------
(* MessageText.                                                            *)

SaidNow  == [m \in Messages |-> [p \in Parts |-> Total(deltas[m], p)]]
ShownNow == [m \in Messages |-> [p \in Parts |-> EndOf(chunks[m][p])]]
OverNow  == {m \in Messages : Over(m)}

LEMMA Mapped ==
  ASSUME IInv
  PROVE  /\ [m \in Messages |-> [p \in Parts |-> Said(m, p)]] = SaidNow
         /\ [m \in Messages |-> [p \in Parts |-> Shown(m, p)]] = ShownNow
         /\ {m \in Messages : passes[m] > 1 \/ (passes[m] = 1 /\ at[m] = "idle")} = OverNow
<1>1. \A m \in Messages, p \in Parts : Shown(m, p) = EndOf(chunks[m][p])
  BY ShownIsEnd
<1> QED
  BY <1>1 DEF SaidNow, ShownNow, OverNow, Said, Total, Over

\* The steps of MessageText, and its stutter, in those terms.
TextSay(m, p) ==
    /\ m \notin OverNow
    /\ SaidNow'[m][p] \in Nat /\ SaidNow'[m][p] > SaidNow[m][p]
    /\ SaidNow' = [SaidNow EXCEPT ![m][p] = SaidNow'[m][p]]
    /\ ShownNow' = ShownNow /\ OverNow' = OverNow

TextShow ==
    /\ \A m \in Messages, p \in Parts : ShownNow'[m][p] \in ShownNow[m][p]..SaidNow[m][p]
    /\ SaidNow' = SaidNow /\ OverNow' = OverNow

TextEnd(m) ==
    /\ OverNow' = OverNow \cup {m}
    /\ ShownNow' = [ShownNow EXCEPT ![m] = SaidNow[m]]
    /\ SaidNow' = SaidNow

TextStutter == SaidNow' = SaidNow /\ ShownNow' = ShownNow /\ OverNow' = OverNow

TextStep ==
    \/ TextStutter \/ TextShow
    \/ \E m \in Messages : TextEnd(m) \/ \E p \in Parts : TextSay(m, p)

\* A step that takes a message through no end, and moves no row, is one of the model's
\* at most.
LEMMA TakeIsStutter ==
  ASSUME IInv, NEW m \in Messages, Take(m)
  PROVE  TextStutter
<1>1. /\ at[m] = "idle" /\ at' = [at EXCEPT ![m] = "anchor"]
      /\ passes' = [passes EXCEPT ![m] = @ + 1] /\ passes[m] \in Nat
      /\ deltas' = deltas /\ chunks' = chunks
  BY DeltaBounds DEF Take, localVars, IInv, Types
<1>2. \A o \in Messages : Over(o)' <=> Over(o)
  <2>1. Over(m)' <=> Over(m)
    BY <1>1 DEF Over, IInv, Types
  <2>2. \A o \in Messages : o # m => at'[o] = at[o] /\ passes'[o] = passes[o]
    BY <1>1 DEF IInv, Types
  <2> QED
    BY <2>1, <2>2 DEF Over
<1> QED
  BY <1>1, <1>2 DEF TextStutter, SaidNow, ShownNow, OverNow

\* Where the coroutine goes on, or m was streamed before, nothing becomes over.
LEMMA OverStays ==
  ASSUME IInv, NEW m \in Messages, NEW where, at' = [at EXCEPT ![m] = where],
         at[m] # "idle", where # "idle" \/ passes[m] # 1, passes' = passes
  PROVE  OverNow' = OverNow
<1>1. at'[m] = where /\ \A o \in Messages : o # m => at'[o] = at[o]
  BY DEF IInv, Types
<1>2. \A o \in Messages : Over(o)' <=> Over(o)
  BY <1>1 DEF Over
<1> QED
  BY <1>2 DEF OverNow

LEMMA AnchorIsStutter ==
  ASSUME IInv, NEW m \in Messages, LandAnchor(m)
  PROVE  TextStutter
<1>1. OverNow' = OverNow
  BY OverStays DEF LandAnchor
<1> QED
  BY <1>1 DEF LandAnchor, TextStutter, SaidNow, ShownNow

LEMMA ReadIsSay ==
  ASSUME IInv, NEW m \in Messages, ReadDelta(m)
  PROVE  TextStutter \/ \E p \in Parts : TextSay(m, p)
<1> DEFINE ds == deltas[m]
           es == deltas'[m]
           n == next[m] + 1
           d == es[n]
<1>1. /\ at[m] = "reading" /\ passes' = passes /\ chunks' = chunks
      /\ passes[m] \in Nat /\ passes[m] # 0
      /\ Good(m) /\ next[m] \in Nat /\ ds \in Seq(Delta) /\ Len(ds) \in Nat
      /\ deltas \in [Messages -> Seq(Delta)]
  BY DeltaBounds, LenProperties DEF ReadDelta, IInv, Types, Good, Lengths
<1>2. /\ es \in Seq(Delta) /\ deltas' \in [Messages -> Seq(Delta)]
      /\ n \in 1..Len(es) /\ d \in Delta
      /\ \A p \in Parts : Sums(es, p)[next[m]] = length[m][p]
      /\ passes[m] = 1 => n = Len(es)
      /\ passes[m] > 1 => es = ds
      /\ \A o \in Messages : o # m => deltas'[o] = deltas[o]
  BY DeltaFacts
<1>3. OverNow' = OverNow /\ ShownNow' = ShownNow
  <2>1. \A o \in Messages : Over(o)' <=> Over(o)
    <3>1. \A o \in Messages : at'[o] = "idle" <=> at[o] = "idle"
      <4>1. PICK where \in Parts \cup {"reading"} : at' = [at EXCEPT ![m] = where]
        <5>1. PICK e \in Delta : at' = IF Enough(m, e.part) THEN [at EXCEPT ![m] = e.part]
                                                          ELSE at
          <6>1. next'[m] = n
            BY DEF ReadDelta, IInv, Types
          <6>2. deltas'[m][next'[m]] \in Delta
            BY <1>2, <6>1
          <6> QED
            BY <6>2 DEF ReadDelta
        <5>2. at = [at EXCEPT ![m] = "reading"]
          BY <1>1 DEF IInv, Types
        <5> QED
          BY <5>1, <5>2 DEF Delta
      <4> QED
        BY <1>1, <4>1 DEF IInv, Types, Parts
    <3> QED
      BY <1>1, <3>1 DEF Over
  <2> QED
    BY <1>1, <2>1 DEF OverNow, ShownNow
<1> HIDE DEF ds, es, n, d
<1>4. CASE passes[m] # 1
  <2>1. passes[m] > 1
    <3>1. passes[m] \in Nat /\ passes[m] # 0 /\ passes[m] # 1
      BY <1>1, <1>4
    <3> QED
      BY ONLY <3>1
  <2>2. deltas'[m] = deltas[m]
    BY <1>2, <2>1 DEF es, ds
  <2>3. deltas' = deltas
    <3>1. \A o \in Messages : deltas'[o] = deltas[o]
      BY <1>2, <2>2
    <3> QED
      BY <1>1, <1>2, <3>1
  <2> QED
    BY <1>3, <2>3 DEF TextStutter, SaidNow
<1>5. CASE passes[m] = 1
  <2>1. d.part \in Parts /\ d.chars \in Nat /\ d.chars > 0
    BY <1>2, DeltaBounds DEF Delta
  <2>2. ASSUME NEW p \in Parts
        PROVE  /\ Total(es, p) = Total(ds, p) + (IF d.part = p THEN d.chars ELSE 0)
               /\ Total(ds, p) \in Nat /\ Total(es, p) \in Nat
    <3>1. next[m] = Len(ds) /\ length[m][p] = Sums(ds, p)[next[m]]
      BY <1>1, <1>5 DEF Good, Lengths, Streaming, ds
    <3>2. Sums(es, p)[n] = Sums(es, p)[n - 1] + Chars(es, p, n)
      BY <1>2, SumsFacts
    <3>3. n - 1 = next[m] /\ Chars(es, p, n) = IF d.part = p THEN d.chars ELSE 0
      BY <1>1 DEF n, d, Chars
    <3>4. Total(ds, p) \in Nat
      <4>1. Sums(ds, p) \in [0..Len(ds) -> Nat]
        BY <1>1, SumsFacts
      <4>2. Len(ds) \in 0..Len(ds)
        BY <1>1
      <4> QED
        BY <4>1, <4>2 DEF Total
    <3> QED
      BY <1>2, <1>5, <2>1, <3>1, <3>2, <3>3, <3>4 DEF Total
  <2>3. SaidNow' = [SaidNow EXCEPT ![m][d.part] = SaidNow'[m][d.part]]
    <3> DEFINE part == d.part
    <3>1. part \in Parts
      BY <2>1
    <3>2. \A p \in Parts : p # part => Total(deltas'[m], p) = Total(deltas[m], p)
      BY <2>2 DEF es, ds
    <3>3. \A o \in Messages : o # m => \A p \in Parts : Total(deltas'[o], p) = Total(deltas[o], p)
      BY <1>2
    <3> HIDE DEF part
    <3>4. SaidNow' = [SaidNow EXCEPT ![m][part] = SaidNow'[m][part]]
      BY <3>1, <3>2, <3>3 DEF SaidNow
    <3> QED
      BY <3>4 DEF part
  <2>4. SaidNow'[m][d.part] \in Nat /\ SaidNow'[m][d.part] > SaidNow[m][d.part]
    BY <2>1, <2>2 DEF SaidNow, es, ds
  <2>5. m \notin OverNow
    BY <1>1, <1>5 DEF OverNow, Over
  <2> QED
    BY <1>3, <2>1, <2>3, <2>4, <2>5 DEF TextSay
<1> QED
  BY <1>4, <1>5

\* A chunk that lands shows the reader more of one message, never more than was said.
LEMMA LandedIsShown ==
  ASSUME IInv, ~cut, NEW m \in Messages, at[m] \in Flushes \cup Tails, NEW q \in Parts
  PROVE  EndOf(Written(m)[q]) \in EndOf(chunks[m][q])..Total(deltas[m], q)
<1> DEFINE p == PartOf(at[m])
<1>1. /\ \A o \in Parts : o # p => Written(m)[o] = chunks[m][o]
      /\ passes[m] = 1 => EndOf(Written(m)[p]) = length[m][p]
      /\ passes[m] # 1 => Written(m) = chunks[m]
  BY LandedFacts
<1>2. EndOf(chunks[m][q]) \in 0..Total(deltas[m], q) /\ Total(deltas[m], q) \in Nat
  BY ShownIsEnd
<1>3. CASE q # p \/ passes[m] # 1
  BY <1>1, <1>2, <1>3
<1>4. CASE q = p /\ passes[m] = 1
  <2>1. Streaming(m) /\ Lengths(m)
    BY DEF Streaming, Flushes, Tails, IInv, Good
  <2>2. ~(at[m] = "text_tail" /\ p = "reasoning")
    BY DEF PartOf
  <2>3. EndOf(chunks[m][q]) = flushed[m][q]
    BY <1>4, <2>1, <2>2, EndIsFlushed
  <2>4. /\ flushed[m][q] <= length[m][q] /\ length[m][q] = Total(deltas[m], q)
    BY <1>4, <2>1 DEF Lengths, Total
  <2> QED
    BY <1>1, <1>2, <1>4, <2>3, <2>4
<1> QED
  BY <1>3, <1>4

LEMMA ChunkIsShow ==
  ASSUME IInv, NEW m \in Messages, LandChunk(m)
  PROVE  TextShow
<1>1. /\ at[m] \in Flushes /\ ~cut /\ chunks' = [chunks EXCEPT ![m] = Written(m)]
      /\ deltas' = deltas
  BY DEF LandChunk, Running
<1>2. OverNow' = OverNow
  <2>1. at[m] # "idle"
    BY <1>1 DEF Flushes
  <2> QED
    BY <2>1, OverStays DEF LandChunk
<1>3. ASSUME NEW o \in Messages, NEW q \in Parts
      PROVE  EndOf(chunks'[o][q]) \in EndOf(chunks[o][q])..Total(deltas[o], q)
  <2>1. CASE o = m
    BY <1>1, <2>1, LandedIsShown DEF IInv, Types
  <2>2. CASE o # m
    BY <1>1, <2>2, ShownIsEnd DEF IInv, Types
  <2> QED
    BY <2>1, <2>2
<1> QED
  BY <1>1, <1>2, <1>3 DEF TextShow, SaidNow, ShownNow

LEMMA CutIsShow ==
  ASSUME IInv, Cut
  PROVE  TextShow
<1>1. PICK landed \in SUBSET {m \in Messages : at[m] \in Flushes \cup Tails} :
        chunks' = [m \in Messages |-> IF m \in landed THEN Written(m) ELSE chunks[m]]
  BY DEF Cut
<1>2. ~cut /\ at' = at /\ passes' = passes /\ deltas' = deltas
  BY DEF Cut
<1>3. ASSUME NEW o \in Messages, NEW q \in Parts
      PROVE  EndOf(chunks'[o][q]) \in EndOf(chunks[o][q])..Total(deltas[o], q)
  <2>1. CASE o \in landed
    BY <1>1, <1>2, <2>1, LandedIsShown
  <2>2. CASE o \notin landed
    BY <1>1, <2>2, ShownIsEnd
  <2> QED
    BY <2>1, <2>2
<1> QED
  BY <1>2, <1>3 DEF TextShow, SaidNow, ShownNow, OverNow, Over

\* m reaches its end with all of it shown, for the first time or once more.
LEMMA DoneIsEnd ==
  ASSUME IInv, IInv', NEW m \in Messages, at[m] # "idle",
         at' = [at EXCEPT ![m] = "idle"], passes' = passes, deltas' = deltas,
         \A o \in Messages : o # m => chunks'[o] = chunks[o],
         passes[m] # 1 => chunks' = chunks
  PROVE  TextStutter \/ TextEnd(m)
<1>1. passes[m] \in Nat /\ passes[m] # 0
  BY DeltaBounds DEF IInv, Types, Good, Lengths
<1>2. at'[m] = "idle" /\ \A o \in Messages : o # m => at'[o] = at[o]
  BY DEF IInv, Types
<1>3. CASE passes[m] # 1
  <2>1. OverNow' = OverNow
    BY <1>3, OverStays
  <2> QED
    BY <1>3, <2>1 DEF TextStutter, SaidNow, ShownNow
<1>4. CASE passes[m] = 1
  <2>1. Over(m)'
    BY <1>2, <1>4 DEF Over
  <2>2. \A p \in Parts : EndOf(chunks'[m][p]) = Total(deltas[m], p)
    BY <2>1 DEF IInv, Good, Whole
  <2>3. OverNow' = OverNow \cup {m}
    <3>1. \A o \in Messages : o # m => (Over(o)' <=> Over(o))
      BY <1>2 DEF Over
    <3> QED
      BY <2>1, <3>1 DEF OverNow
  <2>4. ShownNow' = [ShownNow EXCEPT ![m] = SaidNow[m]]
    BY <2>2 DEF ShownNow, SaidNow
  <2> QED
    BY <2>3, <2>4 DEF TextEnd, SaidNow
<1> QED
  BY <1>3, <1>4

LEMMA EndDeltasIsEnd ==
  ASSUME IInv, IInv', NEW m \in Messages, EndDeltas(m)
  PROVE  TextStutter \/ TextEnd(m)
<1>1. PICK where : at' = [at EXCEPT ![m] = where]
  BY DEF EndDeltas
<1>2. /\ at[m] # "idle" /\ passes' = passes /\ deltas' = deltas /\ chunks' = chunks
  BY DEF EndDeltas
<1>3. CASE where = "idle"
  BY <1>1, <1>2, <1>3, DoneIsEnd
<1>4. CASE where # "idle"
  <2>1. OverNow' = OverNow
    BY <1>1, <1>2, <1>4, OverStays
  <2> QED
    BY <1>2, <2>1 DEF TextStutter, SaidNow, ShownNow
<1> QED
  BY <1>3, <1>4

LEMMA TailIsShowOrEnd ==
  ASSUME IInv, IInv', NEW m \in Messages, LandTail(m)
  PROVE  TextStutter \/ TextShow \/ TextEnd(m)
<1>1. PICK where : at' = [at EXCEPT ![m] = where]
  BY DEF LandTail
<1>2. /\ at[m] \in Tails /\ at[m] # "idle" /\ ~cut
      /\ chunks' = [chunks EXCEPT ![m] = Written(m)]
      /\ passes' = passes /\ deltas' = deltas
  BY DEF LandTail, Running, Tails
<1>3. CASE where = "idle"
  <2>1. \A o \in Messages : o # m => chunks'[o] = chunks[o]
    BY <1>2 DEF IInv, Types
  <2>2. passes[m] # 1 => chunks' = chunks
    <3>1. passes[m] # 1 => Written(m) = chunks[m]
      BY <1>2, LandedFacts
    <3> QED
      BY <1>2, <3>1 DEF IInv, Types
  <2> QED
    BY <1>1, <1>2, <1>3, <2>1, <2>2, DoneIsEnd
<1>4. CASE where # "idle"
  <2>1. OverNow' = OverNow
    BY <1>1, <1>2, <1>4, OverStays
  <2>2. ASSUME NEW o \in Messages, NEW q \in Parts
        PROVE  EndOf(chunks'[o][q]) \in EndOf(chunks[o][q])..Total(deltas[o], q)
    <3>1. CASE o = m
      BY <1>2, <3>1, LandedIsShown DEF IInv, Types
    <3>2. CASE o # m
      <4>1. chunks'[o] = chunks[o]
        BY <1>2, <3>2 DEF IInv, Types
      <4>2. EndOf(chunks[o][q]) \in 0..Total(deltas[o], q) /\ Total(deltas[o], q) \in Nat
        BY ShownIsEnd
      <4> QED
        BY <4>1, <4>2
    <3> QED
      BY <3>1, <3>2
  <2> QED
    BY <1>2, <2>1, <2>2 DEF TextShow, SaidNow, ShownNow
<1> QED
  BY <1>3, <1>4

LEMMA StepIsTextStep ==
  ASSUME IInv, IInv', [Next]_vars
  PROVE  TextStep
<1>1. CASE UNCHANGED vars
  BY <1>1 DEF TextStep, TextStutter, SaidNow, ShownNow, OverNow, Over, vars, localVars
<1>2. CASE Cut
  BY <1>2, CutIsShow DEF TextStep
<1>3. ASSUME NEW m \in Messages,
             \/ Take(m) \/ LandAnchor(m) \/ ReadDelta(m)
             \/ LandChunk(m) \/ EndDeltas(m) \/ LandTail(m)
      PROVE  TextStep
  BY <1>3, TakeIsStutter, AnchorIsStutter, ReadIsSay, ChunkIsShow, EndDeltasIsEnd,
     TailIsShowOrEnd DEF TextStep
<1> QED
  BY <1>1, <1>2, <1>3 DEF Next

\* MessageStream implements MessageText: every step of the coroutines maps to a step of
\* the text a reader sees, or to a stutter.  So at any moment the reader's text is a
\* prefix of what the model said, it never shrinks while a handle is streamed again, and
\* it is all of it when the handle is exhausted.
THEOREM Refinement == Spec => KeepsText
<1>1. Init => Text!TextInit
  <2> SUFFICES ASSUME Init PROVE Text!TextInit
    OBVIOUS
  <2>1. IInv
    BY InitInv
  <2>2. ASSUME NEW m \in Messages, NEW p \in Parts
        PROVE  Total(deltas[m], p) = 0 /\ EndOf(chunks[m][p]) = 0
    <3>1. deltas[m] = <<>> /\ <<>> \in Seq(Delta) /\ Len(<<>>) = 0
      BY EmptySeq DEF Init
    <3>2. Total(deltas[m], p) = 0
      BY <3>1, SumsFacts DEF Total
    <3> QED
      BY <2>1, <3>2, ShownIsEnd
  <2>3. SaidNow = [m \in Messages |-> [p \in Parts |-> 0]] /\ ShownNow = SaidNow
    BY <2>2 DEF SaidNow, ShownNow
  <2>4. OverNow = {}
    BY DEF OverNow, Over, Init
  <2> QED
    BY <2>1, <2>3, <2>4, Mapped DEF Text!TextInit
<1>2. IInv /\ IInv' /\ [Next]_vars => [Text!TextNext]_Text!textVars
  <2> SUFFICES ASSUME IInv, IInv', [Next]_vars
               PROVE  [Text!TextNext]_Text!textVars
    OBVIOUS
  <2>1. /\ [m \in Messages |-> [p \in Parts |-> Said(m, p)]] = SaidNow
        /\ [m \in Messages |-> [p \in Parts |-> Shown(m, p)]] = ShownNow
        /\ {m \in Messages : passes[m] > 1 \/ (passes[m] = 1 /\ at[m] = "idle")} = OverNow
    BY Mapped
  <2>2. /\ [m \in Messages |-> [p \in Parts |-> Said(m, p)']] = SaidNow'
        /\ [m \in Messages |-> [p \in Parts |-> Shown(m, p)']] = ShownNow'
        /\ {m \in Messages : passes'[m] > 1 \/ (passes'[m] = 1 /\ at'[m] = "idle")} = OverNow'
    <3>1. \A m \in Messages, p \in Parts : Shown(m, p)' = EndOf(chunks'[m][p])
      BY DEF IInv, Good, RowsFixed, Fixed, Shown, EndOf, Size
    <3> QED
      BY <3>1 DEF SaidNow, ShownNow, OverNow, Said, Total, Over
  <2>3. TextStep
    BY StepIsTextStep
  <2>4. CASE TextStutter
    BY <2>1, <2>2, <2>4 DEF TextStutter, Text!textVars
  <2>5. CASE TextShow
    <3>1. ShownNow' = [m \in Messages |-> [p \in Parts |-> ShownNow'[m][p]]]
      BY DEF ShownNow
    <3> QED
      BY <2>1, <2>2, <2>5, <3>1 DEF TextShow, Text!TextNext, Text!Show
  <2>6. ASSUME NEW m \in Messages, TextEnd(m) PROVE Text!TextNext
    BY <2>1, <2>2, <2>6 DEF TextEnd, Text!TextNext, Text!End
  <2>7. ASSUME NEW m \in Messages, NEW p \in Parts, TextSay(m, p) PROVE Text!TextNext
    BY <2>1, <2>2, <2>7 DEF TextSay, Text!TextNext, Text!Say
  <2> QED
    BY <2>3, <2>4, <2>5, <2>6, <2>7 DEF TextStep
<1> QED
  BY <1>1, <1>2, DeltasFixChunks, PTL DEF Spec, KeepsText, Text!TextSpec

=============================================================================
