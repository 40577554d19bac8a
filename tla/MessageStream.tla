--------------------------- MODULE MessageStream ---------------------------
(***************************************************************************)
(* The text and the reasoning of model messages become messageChunk rows:  *)
(* deltas are gathered until a part has enough unflushed characters, the   *)
(* rest is flushed when the message ends.  The offset and the sequence     *)
(* number move only after the awaited upsert.  Messages of one channel are *)
(* taken one after another, those of a subagent beside the top-level ones. *)
(* The graph may stream a message once more with the same deltas, and the  *)
(* run may be cut short at any await.                                      *)
(***************************************************************************)
EXTENDS Integers, SequencesExt

CONSTANTS
    Messages,
    Channel,        \* the messages projection each message arrives on
    TopLevel,       \* the one of them whose messages have no agent_id
    Flush,          \* _CHUNK_FLUSH_CHARS and _REASONING_FLUSH_CHARS
    MaxDelta,       \* bound: characters of one delta
    MaxDeltas,      \* bound: deltas of each message
    MaxPasses       \* bound: times a message is streamed

Parts == {"text", "reasoning"}

ASSUME FlushAssumption == Flush \in [Parts -> Nat \ {0}]
ASSUME DeltaBounds ==
    /\ {MaxDelta, MaxPasses} \subseteq Nat
    /\ MaxDeltas \in [Messages -> Nat]

VARIABLES
    at,         \* the await each message's coroutine is suspended at
    passes,     \* times its handle was taken
    deltas,     \* what the model produced: the part and length of each delta
    next,       \* deltas consumed in this pass
    length,     \* len(text) and len(reasoning)
    flushed,    \* text_flushed and reasoning_flushed
    seq,        \* seq and reasoning_seq
    chunks,     \* the stream: by sequence number, the characters a chunk carries
    emitted,    \* self._emitted_texts, None without an entry
    cut         \* the run was cancelled or has failed

localVars == <<next, length, flushed, seq>>
vars == <<at, passes, deltas, localVars, chunks, emitted, cut>>

None == -1
Zero == [p \in Parts |-> 0]
Chunk == [from : Nat, to : Nat]
Delta == [part : Parts, chars : 1..MaxDelta]

\* The upserts a coroutine can be suspended at: a part's chunk, or its tail.
Flushes == {"text", "reasoning"}
Tails   == {"text_tail", "reasoning_tail"}
Active  == {"anchor", "reading"} \cup Flushes \cup Tails
PartOf(where) == IF where \in {"text", "text_tail"} THEN "text" ELSE "reasoning"

Init ==
    /\ at = [m \in Messages |-> "idle"]
    /\ passes = [m \in Messages |-> 0]
    /\ deltas = [m \in Messages |-> <<>>]
    /\ next = [m \in Messages |-> 0]
    /\ length = [m \in Messages |-> Zero]
    /\ flushed = length /\ seq = length
    /\ chunks = [m \in Messages |-> [p \in Parts |-> <<>>]]
    /\ emitted = [m \in Messages |-> None]
    /\ cut = FALSE

Running == ~cut /\ UNCHANGED cut

-----------------------------------------------------------------------------
(* The coroutine of a message.                                             *)

\* _consume_message, or the loop of _drain_subagent_messages: a handle is taken when
\* the one before it on its channel is done with.  Messages holds those the loop does
\* not pass over (another node's, and the summaries of compaction).
Take(m) ==
    /\ Running
    /\ at[m] = "idle" /\ passes[m] < MaxPasses
    /\ \A o \in Messages : Channel[o] = Channel[m] => at[o] = "idle"
    /\ at' = [at EXCEPT ![m] = "anchor"]
    /\ passes' = [passes EXCEPT ![m] = @ + 1]
    /\ emitted' = IF Channel[m] = TopLevel /\ emitted[m] = None
                  THEN [emitted EXCEPT ![m] = 0] ELSE emitted
    /\ UNCHANGED <<deltas, localVars, chunks>>

\* Faulty variant: the offsets of an earlier handle are kept.
LandAnchorKeeping(m) ==
    /\ Running
    /\ at[m] = "anchor"
    /\ at' = [at EXCEPT ![m] = "reading"]
    /\ next' = [next EXCEPT ![m] = 0]
    /\ length' = [length EXCEPT ![m] = Zero]
    /\ UNCHANGED <<passes, deltas, flushed, seq, chunks, emitted>>

\* The anchor is written; _stream_message_text starts with nothing read or flushed.
LandAnchor(m) ==
    /\ Running
    /\ at[m] = "anchor"
    /\ at' = [at EXCEPT ![m] = "reading"]
    /\ next' = [next EXCEPT ![m] = 0]
    /\ length' = [length EXCEPT ![m] = Zero]
    /\ flushed' = [flushed EXCEPT ![m] = Zero]
    /\ seq' = [seq EXCEPT ![m] = Zero]
    /\ UNCHANGED <<passes, deltas, chunks, emitted>>

\* The model produces a delta; a message streamed before brings the same ones.
Produce(m) ==
    IF passes[m] > 1
    THEN next[m] < Len(deltas[m]) /\ UNCHANGED deltas
    ELSE /\ next[m] < MaxDeltas[m]
         /\ \E d \in Delta : deltas' = [deltas EXCEPT ![m] = Append(@, d)]

\* Faulty variant: everything read so far is held against the threshold.
EnoughOfAll(m, p) == length'[m][p] >= Flush[p]

Enough(m, p) == length'[m][p] - flushed[m][p] >= Flush[p]

\* Faulty variant: the salvage is brought up to date with each flush only.
ReadDeltaSavingLate(m) ==
    /\ Running
    /\ at[m] = "reading"
    /\ Produce(m)
    /\ next' = [next EXCEPT ![m] = @ + 1]
    /\ LET d == deltas'[m][next'[m]] IN
         /\ length' = [length EXCEPT ![m][d.part] = @ + d.chars]
         /\ at' = IF Enough(m, d.part) THEN [at EXCEPT ![m] = d.part] ELSE at
         /\ emitted' = IF Channel[m] = TopLevel /\ at'[m] = "text"
                       THEN [emitted EXCEPT ![m] = length'[m]["text"]] ELSE emitted
    /\ UNCHANGED <<passes, flushed, seq, chunks>>

\* A delta is read, and flushed with those before it if they are enough by now.
ReadDelta(m) ==
    /\ Running
    /\ at[m] = "reading"
    /\ Produce(m)
    /\ next' = [next EXCEPT ![m] = @ + 1]
    /\ LET d == deltas'[m][next'[m]] IN
         /\ length' = [length EXCEPT ![m][d.part] = @ + d.chars]
         /\ emitted' = IF Channel[m] = TopLevel /\ d.part = "text"
                       THEN [emitted EXCEPT ![m] = length'[m]["text"]] ELSE emitted
         /\ at' = IF Enough(m, d.part) THEN [at EXCEPT ![m] = d.part] ELSE at
    /\ UNCHANGED <<passes, flushed, seq, chunks>>

\* A chunk's key holds its seq: writing it again replaces it.
Upsert(row, k, chunk) ==
    [j \in DOMAIN row \cup {k} |-> IF j = k THEN chunk ELSE row[j]]

\* The chunks of m with the one it is writing: the characters from the offset on.
Written(m) ==
    LET p == PartOf(at[m]) IN
    [chunks[m] EXCEPT ![p] =
        Upsert(@, seq[m][p], [from |-> flushed[m][p], to |-> length[m][p]])]

\* Faulty variant: the offset moves by the threshold, not by what was written.
LandChunkByThreshold(m) ==
    /\ Running
    /\ at[m] \in Flushes
    /\ chunks' = [chunks EXCEPT ![m] = Written(m)]
    /\ flushed' = [flushed EXCEPT ![m][at[m]] = @ + Flush[at[m]]]
    /\ seq' = [seq EXCEPT ![m][at[m]] = @ + 1]
    /\ at' = [at EXCEPT ![m] = "reading"]
    /\ UNCHANGED <<passes, deltas, next, length, emitted>>

LandChunk(m) ==
    /\ Running
    /\ at[m] \in Flushes
    /\ chunks' = [chunks EXCEPT ![m] = Written(m)]
    /\ flushed' = [flushed EXCEPT ![m][at[m]] = length[m][at[m]]]
    /\ seq' = [seq EXCEPT ![m][at[m]] = @ + 1]
    /\ at' = [at EXCEPT ![m] = "reading"]
    /\ UNCHANGED <<passes, deltas, next, length, emitted>>

Unflushed(m, p) == length[m][p] > flushed[m][p]

TextTailOrDone(m) == IF Unflushed(m, "text") THEN "text_tail" ELSE "idle"

\* The handle is exhausted.
EndDeltas(m) ==
    /\ Running
    /\ at[m] = "reading"
    /\ passes[m] > 1 => next[m] = Len(deltas[m])
    /\ at' = [at EXCEPT ![m] =
                IF Unflushed(m, "reasoning") THEN "reasoning_tail" ELSE TextTailOrDone(m)]
    /\ UNCHANGED <<passes, deltas, localVars, chunks, emitted>>

\* The tails land, the reasoning's first.
LandTail(m) ==
    /\ Running
    /\ at[m] \in Tails
    /\ chunks' = [chunks EXCEPT ![m] = Written(m)]
    /\ at' = [at EXCEPT ![m] =
                IF at[m] = "reasoning_tail" THEN TextTailOrDone(m) ELSE "idle"]
    /\ UNCHANGED <<passes, deltas, localVars, emitted>>

\* The run is cut short.  Of the chunks being written any may have landed.
Cut ==
    /\ ~cut /\ cut' = TRUE
    /\ \E landed \in SUBSET {m \in Messages : at[m] \in Flushes \cup Tails} :
         chunks' = [m \in Messages |-> IF m \in landed THEN Written(m) ELSE chunks[m]]
    /\ UNCHANGED <<at, passes, deltas, localVars, emitted>>

Next ==
    \/ Cut
    \/ \E m \in Messages : \/ Take(m) \/ LandAnchor(m) \/ ReadDelta(m)
                           \/ LandChunk(m) \/ EndDeltas(m) \/ LandTail(m)

Spec == Init /\ [][Next]_vars

-----------------------------------------------------------------------------
(* What the client makes of the rows.                                      *)

\* It concatenates the chunks of a part by seq; they join up if each begins where
\* the one before it ended.
Joined(row) ==
    /\ DOMAIN row = 0..(Cardinality(DOMAIN row) - 1)
    /\ \A k \in DOMAIN row : /\ row[k].from = IF k = 0 THEN 0 ELSE row[k - 1].to
                             /\ row[k].from < row[k].to

Shown(m, p) ==
    LET row == chunks[m][p] IN
    IF ~Joined(row) THEN None
    ELSE IF DOMAIN row = {} THEN 0 ELSE row[Cardinality(DOMAIN row) - 1].to

\* The characters of a part in the first n deltas, for each n.
Sums(ds, p) ==
    LET sum[n \in 0..Len(ds)] ==
            IF n = 0 THEN 0
            ELSE sum[n - 1] + (IF ds[n].part = p THEN ds[n].chars ELSE 0)
    IN  sum

Said(m, p) == Sums(deltas[m], p)[Len(deltas[m])]

Text == INSTANCE MessageText WITH
    said  <- [m \in Messages |-> [p \in Parts |-> Said(m, p)]],
    shown <- [m \in Messages |-> [p \in Parts |-> Shown(m, p)]],
    over  <- {m \in Messages : passes[m] > 1 \/ (passes[m] = 1 /\ at[m] = "idle")}

-----------------------------------------------------------------------------
(* Properties.                                                             *)

TypeOK ==
    /\ at \in [Messages -> Active \cup {"idle"}]
    /\ passes \in [Messages -> 0..MaxPasses]
    /\ deltas \in [Messages -> Seq(Delta)]
    /\ next \in [Messages -> Nat] /\ \A m \in Messages : next[m] <= MaxDeltas[m]
    /\ length \in [Messages -> [Parts -> Nat]]
    /\ seq \in [Messages -> [Parts -> Nat]]
    /\ \A m \in Messages, p \in Parts : flushed[m][p] \in 0..length[m][p]
    /\ \A m \in Messages, p \in Parts : \A k \in DOMAIN chunks[m][p] :
         k \in Nat /\ chunks[m][p][k] \in Chunk
    /\ emitted \in [Messages -> Nat \cup {None}]
    /\ cut \in BOOLEAN

\* "The client concatenates a message's chunks per channel by seq" and "a resume
\* re-applies each idempotently" (_emit_message_chunk): at any moment what it joins is
\* a prefix of what the model said, which never shrinks while a handle is streamed
\* again, and is all of it when the handle is exhausted.
KeepsText == Text!TextSpec

\* "Coalescing bounds the append log": a chunk that another follows is as long as the
\* threshold, and never longer than what one delta can add to just below it; a message
\* that waits for its next delta hides less than the threshold from its reader.
ChunksCoalesce ==
    \A m \in Messages, p \in Parts :
        LET row == chunks[m][p] IN
        /\ \A k \in DOMAIN row : row[k].to - row[k].from < Flush[p] + MaxDelta
        /\ \A k \in DOMAIN row :
             k + 1 \in DOMAIN row => row[k].to - row[k].from >= Flush[p]
        /\ at[m] = "reading" => length[m][p] - flushed[m][p] < Flush[p]

\* The salvage of a cut turn freezes _emitted_texts.  Wherever the cut falls it holds
\* all the stream under way has read, and nothing of a subagent's message; and it holds
\* all a reader has seen of a message in its first stream or between streams.  Not
\* while the message is streamed again: that overwrites the text saved as it goes, and
\* a reader still sees what the first stream wrote.
SalvageCoversShown ==
    \A m \in Messages :
        IF Channel[m] = TopLevel
        THEN passes[m] > 0 =>
               /\ length[m]["text"] <= emitted[m]
               /\ passes[m] = 1 \/ at[m] = "idle" => Shown(m, "text") <= emitted[m]
        ELSE emitted[m] = None

=============================================================================
