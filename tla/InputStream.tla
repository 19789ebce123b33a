---------------------------- MODULE InputStream ----------------------------
(***************************************************************************)
(* The way from the socket of one client to his commands: User::receive,   *)
(* User::split and User::invoke, which User::onUser calls one after the    *)
(* other, and the disconnect that Server::run makes of the state DELETE.   *)
(*                                                                         *)
(* The kernel keeps what the client has sent until recv() takes at most    *)
(* BUFFER_SIZE bytes of it; the client goes on sending meanwhile, so that  *)
(* any fragmentation occurs.  What he sent before he closed, or before a   *)
(* reset, can still be read.                                               *)
(***************************************************************************)
EXTENDS ByteStream

CONSTANTS
    BUFFER_SIZE,   \* the most that one recv() takes
    MaxBytes       \* bound on what the client sends

ASSUME InputAssumption == BUFFER_SIZE \in Nat \ {0} /\ MaxBytes \in Nat

VARIABLES
    kernel,          \* bytes that have arrived and have not been read
    saved,           \* history: the bytes that were appended to _buffer
    peer,            \* the other end: open, closed or reset
    _buffer,         \* User::_buffer
    _dataToSend,     \* User::_dataToSend: the lines to execute
    iter,            \* the index of the line User::invoke is at
    executed,        \* history: the lines for which a Command was constructed
    state,           \* User::_state, as far as it is DELETE
    pc               \* the place in onUser; "poll" between two calls

vars == << kernel, saved, peer, _buffer, _dataToSend, iter, executed, state, pc >>

Init ==
    /\ kernel = << >> /\ saved = << >> /\ peer = "open"
    /\ _buffer = << >> /\ _dataToSend = << >> /\ iter = 1 /\ executed = << >>
    /\ state = "ONLINE" /\ pc = "poll"

-----------------------------------------------------------------------------
(* The client.                                                             *)

ClientSends(b) ==
    /\ peer = "open" /\ pc # "gone"
    /\ Len(saved) + Len(kernel) < MaxBytes
    /\ kernel' = Append(kernel, b)
    /\ UNCHANGED << saved, peer, _buffer, _dataToSend, iter, executed, state, pc >>

ClientLeaves(how) ==
    /\ peer = "open" /\ pc # "gone"
    /\ peer' = how
    /\ UNCHANGED << kernel, saved, _buffer, _dataToSend, iter, executed, state, pc >>

-----------------------------------------------------------------------------
(* User::receive.                                                          *)

\* append(const char *) takes the bytes as a C string.
ReceiveBytes ==
    /\ pc = "poll" /\ kernel # << >>
    /\ LET n == Min({BUFFER_SIZE, Len(kernel)})
           bytes == SubSeq(kernel, 1, n)
       IN  /\ kernel' = SubSeq(kernel, n + 1, Len(kernel))
           /\ saved' = saved \o CString(bytes)
           /\ _buffer' = _buffer \o CString(bytes)
    /\ pc' = "split"
    /\ UNCHANGED << peer, _dataToSend, iter, executed, state >>

\* recv() returns -1, once, after a reset.  As a size_t it is not negative, and the
\* function goes on as if bytes had come: the terminator is written before the
\* first byte of recv_buffer, over the highest byte of a pointer, which is 0, and
\* memset has cleared the start of recv_buffer, so nothing is appended.
ReceiveError ==
    /\ pc = "poll" /\ kernel = << >> /\ peer = "reset"
    /\ peer' = "closed"
    /\ pc' = "split"
    /\ UNCHANGED << kernel, saved, _buffer, _dataToSend, iter, executed, state >>

\* Mutation: a client who has hung up is let go at once.
EofFirst ==
    /\ pc = "poll" /\ peer = "closed"
    /\ state' = "DELETE"
    /\ pc' = "return"
    /\ UNCHANGED << kernel, saved, peer, _buffer, _dataToSend, iter, executed >>

\* recv() returns 0 when everything has been read.
ReceiveEof ==
    /\ pc = "poll" /\ kernel = << >> /\ peer = "closed"
    /\ state' = "DELETE"
    /\ pc' = "return"
    /\ UNCHANGED << kernel, saved, peer, _buffer, _dataToSend, iter, executed >>

-----------------------------------------------------------------------------
(* User::split, one line at a time.                                        *)

HasLine == END_MSG \in ToSet(_buffer)
pos == SelectInSeq(_buffer, LAMBDA b : b = END_MSG)

\* Mutation: if instead of while.
SplitOnce ==
    /\ pc = "split" /\ HasLine
    /\ _dataToSend' = Append(_dataToSend, SubSeq(_buffer, 1, pos - 1))
    /\ _buffer' = SubSeq(_buffer, pos + 1, Len(_buffer))
    /\ pc' = "invoke"
    /\ UNCHANGED << kernel, saved, peer, iter, executed, state >>

SplitLine ==
    /\ pc = "split" /\ HasLine
    /\ _dataToSend' = Append(_dataToSend, SubSeq(_buffer, 1, pos - 1))
    /\ _buffer' = SubSeq(_buffer, pos + 1, Len(_buffer))
    /\ UNCHANGED << kernel, saved, peer, iter, executed, state, pc >>

EndOfSplit ==
    /\ pc = "split" /\ ~ HasLine
    /\ pc' = "invoke"
    /\ UNCHANGED << kernel, saved, peer, _buffer, _dataToSend, iter, executed, state >>

-----------------------------------------------------------------------------
(* User::invoke, and the return to Server::run.                            *)

InvokeLine ==
    /\ pc = "invoke" /\ iter \in DOMAIN _dataToSend
    /\ executed' = Append(executed, _dataToSend[iter])
    /\ state' = IF _dataToSend[iter] = << QUIT >> THEN "DELETE" ELSE state
    /\ iter' = iter + 1
    /\ UNCHANGED << kernel, saved, peer, _buffer, _dataToSend, pc >>

EndOfInvoke ==
    /\ pc = "invoke" /\ iter \notin DOMAIN _dataToSend
    /\ _dataToSend' = << >>
    /\ iter' = 1
    /\ pc' = "return"
    /\ UNCHANGED << kernel, saved, peer, _buffer, executed, state >>

Return ==
    /\ pc = "return"
    /\ pc' = IF state = "DELETE" THEN "gone" ELSE "poll"
    /\ UNCHANGED << kernel, saved, peer, _buffer, _dataToSend, iter, executed, state >>

Process ==
    \/ ReceiveBytes \/ ReceiveError \/ ReceiveEof
    \/ SplitLine \/ EndOfSplit \/ InvokeLine \/ EndOfInvoke \/ Return

Client ==
    \/ \E b \in Byte : ClientSends(b)
    \/ \E how \in {"closed", "reset"} : ClientLeaves(how)

Next == Process \/ Client

\* The process is one thread; the event loop serves every client who has sent
\* something (EventLoop.tla, DataIsServed).
Spec == Init /\ [][Next]_vars /\ WF_vars(Process)

-----------------------------------------------------------------------------
(* What the input promises.                                                *)

Abstract == INSTANCE Lines WITH
    stream <- saved \o kernel, delivered <- executed, over <- (pc = "gone"),
    MaxLost <- BUFFER_SIZE

\* However the bytes are fragmented, and whether the client stays, closes, resets or
\* quits: every complete line is executed once, in order, all of them before a
\* client who hangs up is let go; a byte 0 costs itself and the rest of the read it
\* is in, newlines included, and nothing else (User.cpp, receive, split, invoke).
ExecutesLines == Abstract!Spec

\* Between two calls of onUser nothing that was saved waits: all complete lines
\* have been executed, those behind a QUIT in the same read too, and _buffer
\* holds exactly the begun line (User.cpp, split and invoke).
NothingWaits ==
    pc = "poll" => executed = LinesOf(saved) /\ _buffer = RestOf(saved)
=============================================================================
