------------------------------- MODULE Lines -------------------------------
(***************************************************************************)
(* What the input of one client promises: every complete line he sends is  *)
(* executed once, in order, whatever the fragments it arrives in, until he *)
(* has quit.  A client who hangs up is let go after his last line.  Only a *)
(* byte 0 costs something: itself and what follows it, at most MaxLost     *)
(* bytes together.                                                         *)
(***************************************************************************)
EXTENDS ByteStream

CONSTANT MaxLost    \* the most that one byte 0 can cost

VARIABLES
    stream,      \* every byte the client has sent, without those that are lost
    delivered,   \* the lines executed so far
    over         \* the connection has been ended by the server

vars == << stream, delivered, over >>

Init == stream = << >> /\ delivered = << >> /\ over = FALSE

Send ==
    /\ \E b \in Byte : stream' = Append(stream, b)
    /\ UNCHANGED << delivered, over >>

\* A line behind a byte 0 may still be lost.
Deliver ==
    /\ ~ over
    /\ Len(delivered) < Len(LinesOf(CString(stream)))
    /\ delivered' = Append(delivered, LinesOf(stream)[Len(delivered) + 1])
    /\ UNCHANGED << stream, over >>

Lose ==
    /\ ~ over
    /\ \E i \in DOMAIN stream, n \in 1 .. MaxLost :
         /\ stream[i] = NUL /\ i + n <= Len(stream) + 1
         /\ stream' = SubSeq(stream, 1, i - 1) \o SubSeq(stream, i + n, Len(stream))
         /\ IsPrefix(delivered, LinesOf(SubSeq(stream, 1, i - 1)))
    /\ UNCHANGED << delivered, over >>

End ==
    /\ ~ over
    /\ HasQuit(delivered) \/ delivered = LinesOf(stream)
    /\ over' = TRUE
    /\ UNCHANGED << stream, delivered >>

Next == Send \/ Deliver \/ Lose \/ End

Spec == Init /\ [][Next]_vars /\ WF_vars(Deliver)
=============================================================================
