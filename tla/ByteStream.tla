----------------------------- MODULE ByteStream -----------------------------
(***************************************************************************)
(* Streams of bytes and the lines they are made of.                        *)
(***************************************************************************)
EXTENDS Integers, Sequences, SequencesExt, FiniteSets, Sorting

CONSTANTS
    Byte,    \* what the clients send
    END_MSG, \* the newline
    QUIT,    \* stands for the text of a QUIT command
    NUL      \* the byte 0

ASSUME ByteAssumption ==
    {END_MSG, QUIT, NUL} \subseteq Byte /\ Cardinality({END_MSG, QUIT, NUL}) = 3

\* The complete lines of s.
Ends(s) == Ascending({ i \in DOMAIN s : s[i] = END_MSG })
LinesOf(s) ==
    [ k \in DOMAIN Ends(s) |->
        SubSeq(s, IF k = 1 THEN 1 ELSE Ends(s)[k - 1] + 1, Ends(s)[k] - 1) ]

\* What follows the last complete line of s.
RestOf(s) == SubSeq(s, IF Ends(s) = << >> THEN 1 ELSE Last(Ends(s)) + 1, Len(s))

\* s as a C string: it ends at the first byte 0.
CString(s) ==
    IF NUL \in ToSet(s) THEN SubSeq(s, 1, SelectInSeq(s, LAMBDA b : b = NUL) - 1) ELSE s

\* Lines with which the client asks to be disconnected.
HasQuit(lines) == \E k \in DOMAIN lines : lines[k] = << QUIT >>
=============================================================================
