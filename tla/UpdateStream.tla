---------------------------- MODULE UpdateStream ----------------------------
(***************************************************************************)
(* What the clients of a FiVES server may rely on: all of them follow one  *)
(* feed of updates, in which the oldest update comes first and none twice, *)
(* each from the place where it joined and without a gap.                  *)
(***************************************************************************)
EXTENDS Naturals, Sequences, SequencesExt

CONSTANT
    Client

VARIABLES
    feed,           \* the updates published so far
    start,          \* start[c]: length of the feed when c joined
    sent            \* sent[c]: what c has been sent

streamVars == <<feed, start, sent>>

StreamInit ==
    /\ feed = <<>>
    /\ start = [c \in Client |-> 0]
    /\ sent = [c \in Client |-> <<>>]

Increasing(s) == \A i, j \in DOMAIN s : i < j => s[i] < s[j]

\* Some updates become available to all who have joined.
Publish ==
    /\ IsPrefix(feed, feed')
    /\ Increasing(feed')
    /\ UNCHANGED <<start, sent>>

Join(c) ==
    /\ sent[c] = <<>>
    /\ start' = [start EXCEPT ![c] = Len(feed)]
    /\ UNCHANGED <<feed, sent>>

\* c gets the next updates of the feed.
Deliver(c) ==
    \E n \in 1 .. Len(feed) - start[c] - Len(sent[c]) :
        LET from == start[c] + Len(sent[c]) IN
        /\ sent' = [sent EXCEPT ![c] = @ \o SubSeq(feed, from + 1, from + n)]
        /\ UNCHANGED <<feed, start>>

StreamNext == Publish \/ \E c \in Client : Join(c) \/ Deliver(c)

StreamSpec == StreamInit /\ [][StreamNext]_streamVars

=============================================================================
