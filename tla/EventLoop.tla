----------------------------- MODULE EventLoop -----------------------------
(***************************************************************************)
(* main() and Server::run: which descriptor is served when, and how the    *)
(* process ends.  What a command does is left out (Command.tla); here it   *)
(* matters only that serving a client may disconnect him.                  *)
(*                                                                         *)
(* The clients, the kernel and the user who presses Ctrl-C act between any *)
(* two steps of the process.  revents is a snapshot that poll() takes.     *)
(***************************************************************************)
EXTENDS Integers, Sequences, SequencesExt, FiniteSets

CONSTANTS
    Fd,            \* descriptors the process may have for connections
    Failures,      \* which system calls may fail: a subset of {"setup", "poll"}
    MaxClients,    \* bound on the clients that are connected or want to be
    MaxConnects,   \* bound on the connections made altogether
    MaxPending     \* bound on the reads that one client's waiting bytes fill

ASSUME LoopAssumption ==
    /\ Fd \subseteq Nat
    /\ Failures \subseteq {"setup", "poll"}
    /\ {MaxClients, MaxConnects, MaxPending} \subseteq Nat

VARIABLES
    running,               \* the flag of main.cpp; TRUE says: stop
    serverRunningStatus,   \* Server::_serverRunningStatus
    pc,                    \* the place in main() and Server::run
    pollfds,               \* Server::_pollfds; the first entry is the listening socket's
    pfds_iterator,         \* the index of the entry the for loop is at
    backlog,               \* connections that wait for accept()
    connects,              \* connections made so far
    pending,               \* for every descriptor, how many reads its waiting bytes fill
    hungUp                 \* descriptors whose peer has closed

vars == << running, serverRunningStatus, pc, pollfds, pfds_iterator,
           backlog, connects, pending, hungUp >>
clients == << backlog, connects, pending, hungUp >>

Listener == -1

Open == { pollfds[i].fd : i \in DOMAIN pollfds } \ {Listener}

Readable(fd) == pending[fd] > 0 \/ fd \in hungUp

\* POLLIN for the listening socket and for a client's.  serverError closes the
\* listening socket, and nothing connects to it any more.
Ready(fd) == IF fd = Listener THEN serverRunningStatus /\ backlog > 0 ELSE Readable(fd)

\* new Server(argv).  setNewSocket goes on after an error, but serverError has
\* cleared the status that setPort has set.
Init ==
    /\ running = FALSE
    /\ serverRunningStatus \in IF "setup" \in Failures THEN BOOLEAN ELSE {TRUE}
    /\ pc = "main"
    /\ pollfds = << [ fd |-> Listener, revents |-> FALSE ] >>
    /\ pfds_iterator = 1
    /\ backlog = 0 /\ connects = 0
    /\ pending = [ fd \in Fd |-> 0 ]
    /\ hungUp = {}

-----------------------------------------------------------------------------
(* The process.                                                            *)

\* Mutation: while (true) server->run();
MainLoopForever ==
    /\ pc = "main"
    /\ pc' = "run"
    /\ UNCHANGED << running, serverRunningStatus, pollfds, pfds_iterator, clients >>

\* while (!running) server->run();
MainLoop ==
    /\ pc = "main"
    /\ pc' = IF running THEN "exit" ELSE "run"
    /\ UNCHANGED << running, serverRunningStatus, pollfds, pfds_iterator, clients >>

\* while (getServerStatus() == true)
RunLoop ==
    /\ pc = "run"
    /\ pc' = IF serverRunningStatus THEN "poll" ELSE "main"
    /\ UNCHANGED << running, serverRunningStatus, pollfds, pfds_iterator, clients >>

\* Mutation: a client's event found earlier is kept.
PollKeepsEvents ==
    /\ pc = "poll"
    /\ pollfds' = [ i \in DOMAIN pollfds |->
                     [ pollfds[i] EXCEPT !.revents = (@ /\ i > 1) \/ Ready(pollfds[i].fd) ] ]
    /\ pfds_iterator' = 1
    /\ pc' = "scan"
    /\ UNCHANGED << running, serverRunningStatus, clients >>

\* Mutation: the for loop leaves out the entry of the listening socket.
ScanFromSecond ==
    /\ pc = "poll"
    /\ pollfds' = [ i \in DOMAIN pollfds |-> [ pollfds[i] EXCEPT !.revents = Ready(pollfds[i].fd) ] ]
    /\ pfds_iterator' = 2
    /\ pc' = "scan"
    /\ UNCHANGED << running, serverRunningStatus, clients >>

\* poll() returns at once if something is ready, else with the timeout.
Poll ==
    /\ pc = "poll"
    /\ pollfds' = [ i \in DOMAIN pollfds |-> [ pollfds[i] EXCEPT !.revents = Ready(pollfds[i].fd) ] ]
    /\ pfds_iterator' = 1
    /\ pc' = "scan"
    /\ UNCHANGED << running, serverRunningStatus, clients >>

\* poll() < 0: serverError(2) closes the listening socket and clears the status,
\* and the for loop goes on with whatever the entries hold.
PollFails ==
    /\ serverRunningStatus' = FALSE
    /\ pfds_iterator' = 1
    /\ pc' = "scan"
    /\ UNCHANGED clients

\* The for loop, one entry at a time.
Scanning == pc = "scan" /\ pfds_iterator <= Len(pollfds)
Entry == pollfds[pfds_iterator]

EndOfScan ==
    /\ pc = "scan" /\ ~ Scanning
    /\ pc' = "run"
    /\ UNCHANGED << running, serverRunningStatus, pollfds, pfds_iterator, clients >>

\* Mutation: continue after an increment of its own.
SkipsNext ==
    /\ Scanning /\ ~ Entry.revents
    /\ pfds_iterator' = pfds_iterator + 2
    /\ UNCHANGED << running, serverRunningStatus, pc, pollfds, clients >>

NoEvent ==
    /\ Scanning /\ ~ Entry.revents
    /\ pfds_iterator' = pfds_iterator + 1
    /\ UNCHANGED << running, serverRunningStatus, pc, pollfds, clients >>

\* Mutation: any event leads to accept().
AcceptOnAnyEvent ==
    /\ Scanning /\ Entry.revents
    /\ pc' = "run"
    /\ IF Fd \subseteq Open \/ ~ serverRunningStatus THEN UNCHANGED << pollfds, backlog >>
       ELSE /\ pollfds' = Append(pollfds, [ fd |-> Min(Fd \ Open), revents |-> TRUE ])
            /\ backlog' = backlog - 1
    /\ UNCHANGED << running, serverRunningStatus, pfds_iterator, connects, pending, hungUp >>

\* Any event, if the listening socket has one too, leads to connectNewUser and to
\* the break.  accept() fails if the process has no descriptor left, or if serverError
\* has closed the listening socket.
AcceptFirst ==
    /\ Scanning /\ Entry.revents /\ pollfds[1].revents
    /\ pc' = "run"
    /\ IF Fd \subseteq Open \/ ~ serverRunningStatus THEN UNCHANGED << pollfds, backlog >>
       ELSE /\ pollfds' = Append(pollfds, [ fd |-> Min(Fd \ Open), revents |-> TRUE ])
            /\ backlog' = backlog - 1
    /\ UNCHANGED << running, serverRunningStatus, pfds_iterator, connects, pending, hungUp >>

\* onUser() reads once, and stays in recv() as long as there is nothing to read:
\* the sockets are blocking, and a signal does not end recv().  A client who has quit, or of whom nothing is left to read,
\* is disconnected: his entry goes, the next one moves to its place, and ++ passes
\* over it.
Serving(fd) == Scanning /\ Entry.revents /\ ~ pollfds[1].revents /\ Entry.fd = fd

\* Mutation: a read that returns 0 does not disconnect.
KeepsClosed(fd) ==
    /\ Serving(fd)
    /\ pfds_iterator' = pfds_iterator + 1
    /\ pending' = [ pending EXCEPT ![fd] = IF @ > 0 THEN @ - 1 ELSE 0 ]
    /\ UNCHANGED << running, serverRunningStatus, pc, pollfds, backlog, connects, hungUp >>

ServeClient(fd) ==
    /\ Serving(fd)
    /\ pfds_iterator' = pfds_iterator + 1
    /\ \/ /\ pending[fd] > 0
          /\ pending' = [ pending EXCEPT ![fd] = @ - 1 ]
          /\ UNCHANGED << pollfds, hungUp >>
       \/ /\ Readable(fd)
          /\ pollfds' = RemoveAt(pollfds, pfds_iterator)
          /\ pending' = [ pending EXCEPT ![fd] = 0 ]
          /\ hungUp' = hungUp \ {fd}
    /\ UNCHANGED << running, serverRunningStatus, pc, backlog, connects >>

Process ==
    \/ MainLoop \/ RunLoop \/ Poll
    \/ EndOfScan \/ NoEvent \/ AcceptFirst \/ \E fd \in Fd : ServeClient(fd)

-----------------------------------------------------------------------------
(* The environment.                                                        *)

\* poll() has found nothing yet, and waits.
Waiting == pc = "poll" /\ \A i \in DOMAIN pollfds : ~ Ready(pollfds[i].fd)

\* handler() of main.cpp.  The flag alone does not stop Server::run; a poll() that
\* waits returns with EINTR and has written every revents, 0 as nothing is ready.
Interrupt ==
    /\ pc # "exit"
    /\ running' = TRUE
    /\ IF Waiting
       THEN /\ PollFails
            /\ pollfds' = [ i \in DOMAIN pollfds |-> [ pollfds[i] EXCEPT !.revents = FALSE ] ]
       ELSE UNCHANGED << serverRunningStatus, pc, pollfds, pfds_iterator, clients >>

\* Any other failure, ENOMEM, leaves the revents of the poll() before, and the -1
\* that connectNewUser gives a new entry.
PollError ==
    /\ "poll" \in Failures
    /\ pc = "poll"
    /\ PollFails
    /\ UNCHANGED << running, pollfds >>

Process_ == << running, serverRunningStatus, pc, pollfds, pfds_iterator >>

Connect ==
    /\ serverRunningStatus /\ pc # "exit"
    /\ connects < MaxConnects /\ backlog + Cardinality(Open) < MaxClients
    /\ backlog' = backlog + 1
    /\ connects' = connects + 1
    /\ UNCHANGED << Process_, pending, hungUp >>

Send(fd) ==
    /\ fd \in Open \ hungUp /\ pending[fd] < MaxPending /\ pc # "exit"
    /\ pending' = [ pending EXCEPT ![fd] = @ + 1 ]
    /\ UNCHANGED << Process_, backlog, connects, hungUp >>

HangUp(fd) ==
    /\ fd \in Open \ hungUp /\ pc # "exit"
    /\ hungUp' = hungUp \cup {fd}
    /\ UNCHANGED << Process_, backlog, connects, pending >>

Environment ==
    \/ Interrupt \/ PollError \/ Connect
    \/ \E fd \in Fd : Send(fd) \/ HangUp(fd)

Next == Process \/ Environment

\* The process is one thread that the operating system keeps running; clients and
\* signals may come or not.
Spec == Init /\ [][Next]_vars /\ WF_vars(Process)

-----------------------------------------------------------------------------
\* Every variable holds a value of its type.
TypeOK ==
    /\ running \in BOOLEAN /\ serverRunningStatus \in BOOLEAN
    /\ pc \in {"main", "run", "poll", "scan", "exit"}
    /\ pollfds \in Seq([ fd : Fd \cup {Listener}, revents : BOOLEAN ])
    /\ pfds_iterator \in Nat
    /\ backlog \in 0 .. MaxClients /\ connects \in 0 .. MaxConnects
    /\ pending \in [ Fd -> 0 .. MaxPending ]
    /\ hungUp \subseteq Fd

\* As long as poll() has not failed, onUser is called only for a client with
\* something to read, although the events are a snapshot and entries are erased
\* while the loop runs: recv() would stop the whole server (Server.cpp, run;
\* User.cpp, receive).  After a poll() that failed without a signal it does: the for
\* loop then runs over the events of an earlier one.
NeverBlocksInRecv ==
    serverRunningStatus => \A fd \in Fd : Serving(fd) => Readable(fd)

\* The whole server waits for a client to send something or to hang up.
BlockedInRecv == \E fd \in Fd : Serving(fd) /\ ~ Readable(fd)

\* serverError has been called, or the process has ended.
Down == pc = "exit" \/ ~ serverRunningStatus

\* User.cpp, onUser: "Function gets called when there is data to receive for the
\* user."  Whoever has sent something, or has hung up, is served at last.
DataIsServed ==
    \A fd \in Fd : Readable(fd) ~> Serving(fd) \/ Down

\* The descriptor of a client who has hung up is given back: nothing that the
\* others do, and no entry the loop passes over, keeps it open for ever.
HangUpReleases ==
    \A fd \in Fd : fd \in hungUp ~> fd \notin hungUp \/ Down

\* A waiting connection is accepted at last.
ConnectionsAccepted == backlog > 0 ~> backlog = 0 \/ Down

\* Server.cpp, run, and main(): once the flag is set and the status cleared, in
\* either order and from any place, the process ends, whatever clients, events and
\* entries are left then; only a recv() that finds nothing for ever keeps it.
\* Neither of the two ends it alone: main() does not look at the status, and
\* Server::run does not look at the flag.
InterruptStops ==
    running /\ ~ serverRunningStatus ~> pc = "exit" \/ []BlockedInRecv
=============================================================================
