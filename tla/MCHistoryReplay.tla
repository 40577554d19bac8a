-------------------------- MODULE MCHistoryReplay --------------------------
(***************************************************************************)
(* The histories HistoryReplay is checked on: every list of up to          *)
(* MaxLength of the messages below in which a reply follows the message    *)
(* that asked for it, with no human message in between.                    *)
(***************************************************************************)
EXTENDS HistoryReplay

CONSTANTS MaxLength, c1, c2, noId

MCCalls   == {c1, c2}

AI(id, calls) == [kind |-> "ai", id |-> id, calls |-> calls]

MCMessages ==
    Human
    \cup {AI("plain", <<>>), AI("plain", <<c1>>), AI("plain", <<c2, noId, c1>>)}
    \cup {AI("none", <<c1>>), AI("summary", <<>>), AI("summary", <<c2>>)}
    \cup {[kind |-> "tool", call |-> c1, error |-> e] : e \in BOOLEAN}
    \cup {[kind |-> "tool", call |-> c2, error |-> FALSE]}

MCHistories == {h \in UNION {[1..n -> MCMessages] : n \in 0..MaxLength} : RepliesFollow(h)}

NoLimit == -1
MCWindows == {NoLimit, 0, 1, 2}

=============================================================================
