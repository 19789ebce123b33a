------------------------------- MODULE Sweep -------------------------------
(***************************************************************************)
(* The loop at the end of disconnectUser (Server.cpp) that deletes the     *)
(* channels without members from the vector Server::_channels.             *)
(*                                                                         *)
(* After an erase the iterator is at the next channel already, and the     *)
(* loop's ++ passes over it: of a run of adjacent empty channels the       *)
(* first, the third, ... are deleted.  (After the erase of the last one    *)
(* the loop prints a size from past the end, which changes nothing.)       *)
(***************************************************************************)
EXTENDS Channel, FiniteSets

CONSTANT Chan    \* channel names, numbered in the order of the multimap's keys

ASSUME ChanAssumption == Chan \subseteq Nat /\ IsFiniteSet(Chan)

\* Mutation: a channel with one member left counts as empty.
EmptyTooEarly(chs, p) == \E c \in Chan : chs[c].pos = p /\ Len(chs[c].members) <= 1

EmptyAt(chs, p) == \E c \in Chan : chs[c].pos = p /\ chs[c].members = << >>

\* Whether the loop erases the channel at place p: it is empty, and the iterator
\* comes to it.
ErasedAt(chs) ==
    LET erased[p \in 0 .. Cardinality(Chan)] == p > 0 /\ EmptyAt(chs, p) /\ ~ erased[p - 1]
    IN  erased

Deleted(chs, c) == Exists(chs[c]) /\ ErasedAt(chs)[chs[c].pos]

SweepChannels(chs) ==
    [ c \in Chan |->
        IF Exists(chs[c]) /\ ~ Deleted(chs, c)
        THEN [ chs[c] EXCEPT !.pos =
                 Cardinality({ d \in Chan : /\ Exists(chs[d]) /\ ~ Deleted(chs, d)
                                            /\ chs[d].pos <= chs[c].pos }) ]
        ELSE NoChannel ]
=============================================================================
