------------------------------ MODULE Delivery ------------------------------
(***************************************************************************)
(* How what the server says reaches the clients: the send() calls of the   *)
(* command handlers and of User::write, and the sockets behind them.       *)
(*                                                                         *)
(* There are two ways.  A broadcast, to the entries of _channel_users, is  *)
(* sent while the Command is constructed (User::invoke); a reply to the    *)
(* client himself, and a message to one user, is kept in the Command and   *)
(* sent by User::write, after all lines of the read have been executed.    *)
(* Every send() blocks while the receiver's socket is full.                *)
(*                                                                         *)
(* Clients are their descriptors.  All of them are registered and have     *)
(* different nicknames (IrcServer.tla, NicknamesUnique), so that comparing *)
(* nicknames is comparing clients; who is an operator is left open.  The   *)
(* event loop appears as the choice of a client to serve (EventLoop.tla).  *)
(***************************************************************************)
EXTENDS Integers, Sequences, SequencesExt, FiniteSets, Sorting

CONSTANTS
    Client,        \* the connected clients, by descriptor
    Chan,          \* channel names, numbered in the order of the multimap's keys
    Kind,          \* the commands the clients use
    Capacity,      \* how many messages wait in the socket of a client who does not read
    InCapacity,    \* how many commands wait in the socket of the server
    MaxCommands,   \* bound on the commands of one client
    MaxTotal,      \* bound on the commands of all clients
    Readers,       \* clients who read what they are sent
    SendsFirst,    \* those of them who read only when all their commands have gone out
    Leaving        \* clients who may close their connection

ASSUME DeliveryAssumption ==
    /\ Client \cup Chan \subseteq Nat \ {0} /\ IsFiniteSet(Client) /\ IsFiniteSet(Chan)
    /\ {Capacity, InCapacity, MaxCommands, MaxTotal} \subseteq Nat
    /\ Readers \cup Leaving \subseteq Client /\ SendsFirst \subseteq Readers

VARIABLES
    connected,           \* the keys of Server::_users
    lists,               \* Server::_channel_users: for every channel its entries
    waiting,             \* the commands that wait in the server's socket of a client
    issued,              \* how many commands a client has sent
    current,             \* the client whose User::onUser runs, or Nobody
    first,               \* the number of the first command of his batch
    _dataToSend,         \* his commands that are not constructed yet
    sends,               \* the direct send() calls the running constructor still makes
    command_function,    \* User::command_function: the messages kept for User::write
    written,             \* how many of them User::write has passed
    quit,                \* his state is DELETE
    unread,              \* how many messages wait in the socket of a client
    peer,                \* the client's end: "open", "closed", or "broken" by a reset
    status,              \* "up", "killed" by SIGPIPE, or "dangling": see Disconnect
    sent,                \* history: the messages a client got
    view,                \* history: who is on which channel, as a client was told
    stale                \* history: the channels whose names came late to a client

server == << connected, lists, current, first, _dataToSend, sends, command_function, written, quit >>
sockets == << waiting, issued, unread, peer >>
histories == << sent, view, stale >>
vars == << server, sockets, histories, status >>

Nobody == 0
NoChan == 0

\* The commands by what they send.  PING stands for every command that is only
\* answered, errors included, TOPIC also for MODE, which sends to the same entries.
Commands ==
    [ kind : Kind \cap {"PING", "NICK", "QUIT"}, chan : {NoChan}, target : {Nobody} ]
    \cup [ kind : Kind \cap {"JOIN", "PART", "MSG", "TOPIC"}, chan : Chan, target : {Nobody} ]
    \cup [ kind : Kind \cap {"PRIVMSG", "DCC"}, chan : {NoChan}, target : Client ]
    \cup [ kind : Kind \cap {"KICK"}, chan : Chan, target : Client ]

\* Some clients are on some channels, in the order of their descriptors, and
\* everybody knows who is where.
Init ==
    /\ connected = Client
    /\ \E on \in [ Chan -> SUBSET Client ] :
         /\ lists = [ ch \in Chan |-> Ascending(on[ch]) ]
         /\ view = [ c \in Client |-> on ]
    /\ waiting = [ c \in Client |-> << >> ] /\ issued = [ c \in Client |-> 0 ]
    /\ current = Nobody /\ first = 0 /\ _dataToSend = << >>
    /\ sends = << >> /\ command_function = << >> /\ written = 0 /\ quit = FALSE
    /\ unread = [ c \in Client |-> 0 ] /\ peer = [ c \in Client |-> "open" ]
    /\ status = "up"
    /\ sent = [ c \in Client |-> << >> ] /\ stale = [ c \in Client |-> {} ]

-----------------------------------------------------------------------------
(* The clients.                                                            *)

TotalIssued == FoldFunction(+, 0, issued)

Issue(c) ==
    /\ c \in connected /\ peer[c] = "open" /\ status = "up"
    /\ issued[c] < MaxCommands /\ TotalIssued < MaxTotal
    /\ Len(waiting[c]) < InCapacity
    /\ \E cmd \in Commands :
         waiting' = [ waiting EXCEPT ![c] =
                        Append(@, [ from |-> c, no |-> issued[c] + 1, cmd |-> cmd ]) ]
    /\ issued' = [ issued EXCEPT ![c] = @ + 1 ]
    /\ UNCHANGED << server, unread, peer, histories, status >>

Read(c) ==
    /\ c \in Readers /\ peer[c] = "open" /\ unread[c] > 0 /\ status = "up"
    /\ c \in SendsFirst => issued[c] = MaxCommands
    /\ unread' = [ unread EXCEPT ![c] = @ - 1 ]
    /\ UNCHANGED << server, waiting, issued, peer, histories, status >>

Close(c) ==
    /\ c \in Leaving \cap connected /\ peer[c] = "open" /\ status = "up"
    /\ peer' = [ peer EXCEPT ![c] = "closed" ]
    /\ UNCHANGED << server, waiting, issued, unread, histories, status >>

-----------------------------------------------------------------------------
(* What a command sends, and to whom.                                      *)

On(c, ch) == c \in ToSet(lists[ch])
Everyone(ch) == lists[ch]
\* Nobody has two entries for one channel (IrcServer.tla, EntriesAreUnique).
Others(c, ch) == RemoveFirst(lists[ch], c)
OwnChannels(c) == Ascending({ ch \in Chan : On(c, ch) })

\* To the others on each of his channels: once for every channel they share.
OnOwnChannels(c) == FlattenSeq([ i \in DOMAIN OwnChannels(c) |-> Others(c, OwnChannels(c)[i]) ])

\* A JOIN of who is there already, and a KICK of who is not, are not told.
ToldOfJoin(c, ch) == IF On(c, ch) THEN << >> ELSE lists[ch]
ToldOfKick(target, ch) == IF On(target, ch) THEN Everyone(ch) ELSE << >>

\* DCC: once for every entry of the target.
OncePerEntry(target) == [ i \in 1 .. Len(OwnChannels(target)) |-> target ]

\* Mutation: who leaves is erased before the message goes out.
ErasedFirst(c, cmd) ==
    IF cmd.kind = "PART" THEN Others(c, cmd.chan)
    ELSE IF cmd.kind = "KICK" THEN Others(cmd.target, cmd.chan)
    ELSE IF cmd.kind = "JOIN" /\ ~ On(c, cmd.chan) THEN lists[cmd.chan]
    ELSE << >>

\* The receivers of the direct sends of command cmd of client c.  (The line of a
\* QUIT for the i-th channel repeats the lines for the channels before.)
Direct(c, cmd) ==
    CASE cmd.kind = "MSG" -> Others(c, cmd.chan)
      [] cmd.kind = "JOIN" -> ToldOfJoin(c, cmd.chan)
      [] cmd.kind \in {"PART", "TOPIC"} -> Everyone(cmd.chan)
      [] cmd.kind = "KICK" -> ToldOfKick(cmd.target, cmd.chan)
      [] cmd.kind \in {"NICK", "QUIT"} -> OnOwnChannels(c)
      [] cmd.kind = "DCC" -> OncePerEntry(cmd.target)
      [] OTHER -> << >>

\* The receivers of what is kept for User::write.
Deferred(c, cmd) ==
    CASE cmd.kind \in {"PING", "NICK"} -> << c >>
      [] cmd.kind = "JOIN" /\ ~ On(c, cmd.chan) -> << c >>
      [] cmd.kind = "PRIVMSG" /\ cmd.target \in connected -> << cmd.target >>
      [] OTHER -> << >>

ListsAfter(c, cmd) ==
    CASE cmd.kind = "JOIN" /\ ~ On(c, cmd.chan) -> [ lists EXCEPT ![cmd.chan] = Append(@, c) ]
      [] cmd.kind = "PART" -> [ lists EXCEPT ![cmd.chan] = RemoveFirst(@, c) ]
      [] cmd.kind = "KICK" -> [ lists EXCEPT ![cmd.chan] = RemoveFirst(@, cmd.target) ]
      [] OTHER -> lists

-----------------------------------------------------------------------------
(* User::onUser.                                                           *)

Running == status = "up" /\ current # Nobody
Message(item, names, deferred) ==
    [ from |-> item.from, no |-> item.no, first |-> first, cmd |-> item.cmd,
      names |-> names, deferred |-> deferred ]
Addressed(receivers, msg) == [ i \in DOMAIN receivers |-> [ to |-> receivers[i], msg |-> msg ] ]

\* Mutation: the event loop never comes to the client with the highest descriptor.
ServeNotLast(c) ==
    /\ status = "up" /\ current = Nobody /\ c \in connected
    /\ \E d \in connected : c < d
    /\ waiting[c] # << >>
    /\ current' = c
    /\ first' = waiting[c][1].no
    /\ _dataToSend' = waiting[c]
    /\ waiting' = [ waiting EXCEPT ![c] = << >> ]
    /\ UNCHANGED << connected, lists, sends, command_function, written, quit,
                    issued, unread, peer, histories, status >>

\* receive() and split(): all lines that wait.
Serve(c) ==
    /\ status = "up" /\ current = Nobody /\ c \in connected
    /\ waiting[c] # << >>
    /\ current' = c
    /\ first' = waiting[c][1].no
    /\ _dataToSend' = waiting[c]
    /\ waiting' = [ waiting EXCEPT ![c] = << >> ]
    /\ UNCHANGED << connected, lists, sends, command_function, written, quit,
                    issued, unread, peer, histories, status >>

\* User::invoke and the constructor of Command for one line.  The
\* names a JOIN is answered with are those of this moment.
Invoke ==
    /\ Running /\ sends = << >> /\ _dataToSend # << >>
    /\ LET item == Head(_dataToSend)
           cmd == item.cmd
           names == IF cmd.kind = "JOIN" THEN ToSet(ListsAfter(current, cmd)[cmd.chan]) ELSE {}
       IN  /\ sends' = Addressed(Direct(current, cmd), Message(item, {}, FALSE))
           /\ command_function' = command_function
                \o Addressed(Deferred(current, cmd), Message(item, names, TRUE))
           /\ lists' = ListsAfter(current, cmd)
           /\ quit' = (quit \/ cmd.kind = "QUIT")
           /\ stale' = [ stale EXCEPT ![current] =
                { ch \in Chan :
                    IF ch = cmd.chan /\ cmd.kind = "JOIN" THEN ch \in @ /\ On(current, ch)
                    ELSE \/ ch \in @
                         \/ /\ lists'[ch] # lists[ch]
                            /\ \E i \in DOMAIN command_function :
                                 LET joined == command_function[i].msg.cmd
                                 IN  joined.kind = "JOIN" /\ joined.chan = ch } ]
    /\ _dataToSend' = Tail(_dataToSend)
    /\ UNCHANGED << connected, current, first, written, sockets, sent, view, status >>

-----------------------------------------------------------------------------
(***************************************************************************)
(* send().  It blocks while the receiver's socket is full.  To a client    *)
(* who has closed it succeeds, and the message is lost; his machine        *)
(* answers with a reset, and the next send() after that raises SIGPIPE.    *)
(***************************************************************************)
Told(r, msg) ==
    LET from == msg.from
        ch == msg.cmd.chan
    IN  CASE msg.cmd.kind = "JOIN" /\ msg.deferred -> [ view[r] EXCEPT ![ch] = msg.names ]
          [] msg.cmd.kind = "JOIN" /\ ~ msg.deferred -> [ view[r] EXCEPT ![ch] = @ \cup {from} ]
          [] msg.cmd.kind = "PART" -> [ view[r] EXCEPT ![ch] = @ \ {from} ]
          [] msg.cmd.kind = "KICK" -> [ view[r] EXCEPT ![ch] = @ \ {msg.cmd.target} ]
          [] msg.cmd.kind = "QUIT" -> [ d \in Chan |-> view[r][d] \ {from} ]
          [] OTHER -> view[r]

Arrives(r, msg) ==
    /\ peer[r] = "open" /\ unread[r] < Capacity
    /\ unread' = [ unread EXCEPT ![r] = @ + 1 ]
    /\ sent' = [ sent EXCEPT ![r] = Append(@, msg) ]
    /\ view' = [ view EXCEPT ![r] = Told(r, msg) ]
    /\ UNCHANGED << peer, status >>

IsLost(r) ==
    /\ peer[r] = "closed"
    /\ \E now \in {"closed", "broken"} : peer' = [ peer EXCEPT ![r] = now ]
    /\ UNCHANGED << unread, sent, view, status >>

Kills(r) ==
    /\ peer[r] = "broken"
    /\ status' = "killed"
    /\ UNCHANGED << unread, peer, sent, view >>

\* Mutation: what is not taken is sent again, until it is.
SendUntilTaken(r, msg) == Arrives(r, msg)

Send(r, msg) == Arrives(r, msg) \/ IsLost(r) \/ Kills(r)

\* A send() of the running constructor.
SendDirect ==
    /\ Running /\ sends # << >>
    /\ Send(Head(sends).to, Head(sends).msg)
    /\ sends' = Tail(sends)
    /\ UNCHANGED << connected, lists, current, first, _dataToSend, command_function, written, quit,
                    waiting, issued, stale >>

Constructed == Running /\ sends = << >> /\ _dataToSend = << >>

\* A send() of User::write.
Write ==
    /\ Constructed /\ written < Len(command_function)
    /\ Send(command_function[written + 1].to, command_function[written + 1].msg)
    /\ written' = written + 1
    /\ UNCHANGED << connected, lists, current, first, _dataToSend, sends, command_function, quit,
                    waiting, issued, stale >>

-----------------------------------------------------------------------------
(* The end of onUser, and disconnectUser.                                  *)

\* Mutation: the multimap is forgotten.
KeepsEntries(c) ==
    /\ connected' = connected \ {c}
    /\ UNCHANGED << lists, status >>

\* The first entry of the client goes; if he has another one, it is left behind with
\* a dangling pointer.  IrcServer.tla follows that; here the history ends.
Disconnect(c) ==
    /\ connected' = connected \ {c}
    /\ lists' = IF OwnChannels(c) = << >> THEN lists
                ELSE [ lists EXCEPT ![OwnChannels(c)[1]] = RemoveFirst(@, c) ]
    /\ status' = IF Len(OwnChannels(c)) > 1 THEN "dangling" ELSE "up"

\* Mutation: without clearCommandFunction().
KeepsCommands ==
    /\ Constructed /\ written = Len(command_function)
    /\ current' = Nobody /\ quit' = FALSE
    /\ written' = 0
    /\ IF quit THEN Disconnect(current) ELSE UNCHANGED << connected, lists, status >>
    /\ UNCHANGED << first, _dataToSend, sends, command_function, sockets, histories >>

EndOnUser ==
    /\ Constructed /\ written = Len(command_function)
    /\ current' = Nobody /\ quit' = FALSE
    /\ command_function' = << >> /\ written' = 0
    /\ IF quit THEN Disconnect(current) ELSE UNCHANGED << connected, lists, status >>
    /\ UNCHANGED << first, _dataToSend, sends, sockets, histories >>

\* receive() returns 0.  Nobody is told.
ReceiveEof(c) ==
    /\ status = "up" /\ current = Nobody /\ c \in connected
    /\ waiting[c] = << >> /\ peer[c] # "open"
    /\ Disconnect(c)
    /\ UNCHANGED << current, first, _dataToSend, sends, command_function, written, quit,
                    sockets, histories >>

Process == Invoke \/ SendDirect \/ Write \/ EndOnUser

Next ==
    \/ Process
    \/ \E c \in Client : Issue(c) \/ Read(c) \/ Close(c) \/ Serve(c) \/ ReceiveEof(c)

Spec == Init /\ [][Next]_vars

(***************************************************************************)
(* The process goes on unless it is blocked in a send(), every client with *)
(* data is served again and again (EventLoop.tla, DataIsServed), and every *)
(* reader takes what has come, though one in SendsFirst only after he has  *)
(* got rid of his own commands, which he tries to.                         *)
(***************************************************************************)
FairSpec ==
    /\ Spec
    /\ WF_vars(Process)
    /\ \A c \in Client : SF_vars(Serve(c)) /\ WF_vars(Read(c))
    /\ \A c \in SendsFirst : WF_vars(Issue(c))

-----------------------------------------------------------------------------
\* Every variable holds a value of its type.
TypeOK ==
    /\ connected \subseteq Client
    /\ lists \in [ Chan -> Seq(connected) ] \/ status = "dangling"
    /\ current \in connected \cup {Nobody}
    /\ written \in 0 .. Len(command_function)
    /\ unread \in [ Client -> 0 .. Capacity ] /\ issued \in [ Client -> 0 .. MaxCommands ]
    /\ peer \in [ Client -> {"open", "closed", "broken"} ]
    /\ status \in {"up", "killed", "dangling"}

Quiet == status = "up" /\ current = Nobody

\* Of two messages of the same sender a client gets the later one first only if both
\* belong to one read of the server and the earlier one was kept for User::write
\* while the later one was a broadcast; and none but those that are sent once per
\* shared channel he gets twice (User.cpp, invoke and write).
OrderKept ==
    \A r \in Client : \A i, j \in DOMAIN sent[r] :
      LET a == sent[r][i]
          b == sent[r][j]
      IN  i < j /\ a.from = b.from /\ a.no >= b.no =>
            IF a.no = b.no
            THEN a.cmd.kind \in {"NICK", "DCC", "QUIT"}
            ELSE a.first = b.first /\ ~ a.deferred /\ b.deferred

\* What a client has been told of the members of a channel is true whenever nothing
\* is under way, except that he does not know who has hung up without a QUIT, and
\* that the names he got late may be out of date: those of a JOIN which his own
\* PART or KICK followed in the same read (Command.cpp, sendJoin, sendPart,
\* sendKick, sendQuit).
ViewsAgree ==
    Quiet =>
      \A r \in connected : \A ch \in Chan \ stale[r] :
        peer[r] = "open" =>
          /\ r \in view[r][ch] <=> On(r, ch)
          /\ On(r, ch) => view[r][ch] \cap connected = ToSet(lists[ch])

\* The send() that comes next, and whom it is for.
AtSend == Running /\ (sends # << >> \/ (Constructed /\ written < Len(command_function)))
Receiver == IF sends # << >> THEN Head(sends).to ELSE command_function[written + 1].to

\* The process waits in send() until a client reads, and he wants to get rid of
\* another command first, which waits until the process comes to read.
WaitForEachOther ==
    /\ AtSend
    /\ peer[Receiver] = "open" /\ unread[Receiver] = Capacity
    /\ Receiver \in SendsFirst /\ issued[Receiver] < MaxCommands
    /\ Len(waiting[Receiver]) = InCapacity

\* If everybody reads what he is sent, the event loop gets the process back from
\* every client it serves, however full the sockets are and whoever closes his,
\* unless the process and a client wait for each other for ever
\* (User.cpp, onUser, and the blocking sockets of Server.cpp, connectNewUser).
OnUserReturns ==
    current # Nobody ~> current = Nobody \/ status # "up" \/ []WaitForEachOther

Addressee(c, cmd) == IF cmd.kind = "PING" THEN c ELSE cmd.target

\* A PRIVMSG that has reached the server gets to its addressee, and the answer to a
\* PING to its sender, unless one of the two closes, and with the same exception: a
\* client and the process wait for each other for ever, and then all the others
\* wait with them (User.cpp, write).
DeferredArrives ==
    \A c, r \in Client :
      \A n \in 1 .. MaxCommands :
        (\E i \in DOMAIN waiting[c] :
           LET cmd == waiting[c][i].cmd
           IN  /\ waiting[c][i].no = n
               /\ cmd.kind \in {"PING", "PRIVMSG"} /\ r = Addressee(c, cmd))
          ~> \/ \E i \in DOMAIN sent[r] : sent[r][i].from = c /\ sent[r][i].no = n
             \/ peer[c] # "open" \/ peer[r] # "open" \/ status # "up" \/ []WaitForEachOther

\* Command.cpp, send_replies_to_channel: "Sends a specified string to all members of
\* all channels to which the current user belongs."
BroadcastsComplete ==
    status = "killed" =>
      \A i \in DOMAIN sends : sends[i].msg.cmd.kind = "NICK" => peer[sends[i].to] # "open"
=============================================================================
