------------------------------ MODULE Command ------------------------------
(***************************************************************************)
(* User::onUser and the command handlers of Command.cpp.                   *)
(*                                                                         *)
(* The server has one thread.  User::onUser of one client runs to its end  *)
(* before anything else happens, but it executes as many commands as       *)
(* complete lines were received: `current` is set by ReceiveLines, any     *)
(* number of commands of that client follow, and EndOnUser returns to the  *)
(* event loop.  The constructor of Command executes the command.           *)
(*                                                                         *)
(* An early return that at most queues a reply changes none of this state; *)
(* it is a stuttering step, and its condition is a guard here.             *)
(***************************************************************************)
EXTENDS Server

CONSTANTS
    NickArg,     \* the nicknames clients give to NICK
    TargetArg,   \* the nicknames clients name in KICK and MODE
    MaxListed    \* bound on the length of a channel's list of members

ASSUME ArgAssumption == NickArg \cup TargetArg \subseteq AnyNick
ASSUME MaxListedAssumption == MaxListed \in Nat

self == users[current]
me == heap[self].nickname

Executing == status = "up" /\ current # NoFd
Registered == Executing /\ isRegistered(heap[self])
Unregistered == Executing /\ ~ isRegistered(heap[self])

\* Mutation: the state of USER_STATE that nothing assigns.
WelcomedAsRegistered(user) ==
    IF isRegistered(user) THEN [ user EXCEPT !.state = "REGISTERED" ] ELSE user

\* The end of the constructor: a user who has just become registered is
\* welcomed.  (The handlers that do not call it run only once that is done.)
Welcomed(user) ==
    IF isRegistered(user) /\ user.state = "CONNECTED"
    THEN [ user EXCEPT !.state = "ONLINE" ] ELSE user

-----------------------------------------------------------------------------
(* User::onUser and the part of Server::run that calls it.                 *)

ReceiveLines(fd) ==
    /\ status = "up" /\ current = NoFd
    /\ current' = fd
    /\ UNCHANGED << pollfds, users, live, heap, channel_users, channels, status, clean >>

\* recv() returns 0: the state becomes DELETE and Server::run disconnects.
ReceiveEof(fd) ==
    /\ status = "up" /\ current = NoFd
    /\ disconnectUser(fd)

\* Mutation: the state DELETE is not looked at.
KeepsQuitters ==
    /\ Executing
    /\ current' = NoFd
    /\ UNCHANGED << pollfds, users, live, heap, channel_users, channels, status, clean >>

EndOnUser ==
    /\ Executing
    /\ IF heap[self].state = "DELETE"
       THEN disconnectUser(current)
       ELSE /\ current' = NoFd
            /\ UNCHANGED << pollfds, users, live, heap, channel_users, channels, status, clean >>

-----------------------------------------------------------------------------
(* Registration.                                                           *)

OnlySelfChanges(user) ==
    /\ heap' = [ heap EXCEPT ![self] = user ]
    /\ UNCHANGED << pollfds, users, live, channel_users, channels, current, status, clean >>

\* Mutation: NICK and USER without the check of the password.
NoPasswordNeeded == TRUE

HasPassword == heap[self].password = ServerPassword

register_pass(pw) ==
    /\ Unregistered
    /\ heap[self].password # pw
    /\ pw = ServerPassword
    /\ OnlySelfChanges(Welcomed([ heap[self] EXCEPT !.password = pw ]))

\* Mutation: only the nicknames of registered users count as taken.
FreeAmongRegistered(n) ==
    \A fd \in DOMAIN users : isRegistered(heap[users[fd]]) => heap[users[fd]].nickname # n

check_free_nickname(n) == \A fd \in DOMAIN users : heap[users[fd]].nickname # n

\* send_replies_to_channel walks over the whole multimap.
register_nickname(n) ==
    /\ Executing
    /\ HasPassword
    /\ me # n
    /\ check_free_nickname(n)
    /\ \/ OnlySelfChanges(Welcomed([ heap[self] EXCEPT !.nickname = n ]))
       \/ Segfault(MultimapPointers)

register_username(nonEmpty) ==
    /\ Unregistered
    /\ HasPassword
    /\ OnlySelfChanges(Welcomed([ heap[self] EXCEPT !.username = nonEmpty ]))

-----------------------------------------------------------------------------
(* Channels.                                                               *)

OnlyChannelsChange ==
    UNCHANGED << pollfds, users, live, current, status, clean >>

\* Mutation: nobody counts as joined already.
NeverDouble(c) == FALSE

handleDoubleUserError(c) == Named(channel_users[c], name, me)

\* sendJoin, with new_channel_to_create.
sendJoin(c) ==
    LET ch == IF Exists(channels[c]) THEN channels[c]
              ELSE [ NoChannel EXCEPT !.pos = Cardinality({ d \in Chan : Exists(channels[d]) }) + 1 ]
    IN  /\ Registered
        /\ Len(ch.members) < MaxListed
        /\ \/ /\ ~ handleDoubleUserError(c)
              /\ channel_users' = [ channel_users EXCEPT ![c] = Append(@, self) ]
              /\ channels' = [ channels EXCEPT ![c] = AddUser(ch, self) ]
              /\ heap' = IF BecomesOperator(ch) THEN [ heap EXCEPT ![self].nickOP = TRUE ] ELSE heap
              /\ OnlyChannelsChange
           \/ Segfault(Searched(channel_users[c], name, me))

valid_channel(c) == channel_users[c] # << >>

sendPart(c) ==
    /\ Registered
    /\ valid_channel(c)
    /\ \/ /\ channel_users' = [ channel_users EXCEPT ![c] = EraseNamed(@, name, me) ]
          /\ channels' = [ channels EXCEPT ![c] = DeleteUser(@, name, me) ]
          /\ UNCHANGED heap
          /\ OnlyChannelsChange
       \/ Segfault(ToSet(channel_users[c]) \cup Searched(channels[c].operators, name, me)
                                           \cup Searched(channels[c].members, name, me))

find_user_in_channel(c, n) == Named(channel_users[c], name, n)

\* Mutation: the operator mark of the User, as the comment in sendKick suggests.
UserHasMark(c) == heap[self].nickOP

\* The check before KICK, MODE and TOPIC, passed also when no such channel exists.
UserIsOp(c) == Exists(channels[c]) => Named(channels[c].operators, name, me)

\* The pointers dereferenced by the check of the operator and, if he passes, by
\* the broadcast that KICK, MODE and TOPIC end with.
OperatorReads(c) ==
    Searched(channels[c].operators, name, me)
      \cup IF UserIsOp(c) THEN ToSet(channel_users[c]) ELSE {}

\* KICK and MODE search for their target first.
TargetReads(c, n) ==
    Searched(channel_users[c], name, n)
      \cup IF find_user_in_channel(c, n) THEN OperatorReads(c) ELSE {}

\* Only the entry of the multimap goes; the Channel keeps its pointers.
sendKick(c, n) ==
    /\ Registered
    /\ \/ /\ find_user_in_channel(c, n)
          /\ UserIsOp(c)
          /\ channel_users' = [ channel_users EXCEPT ![c] = EraseNamed(@, name, n) ]
          /\ UNCHANGED << heap, channels >>
          /\ OnlyChannelsChange
       \/ Segfault(TargetReads(c, n))

(***************************************************************************)
(* sendMode, setMode and giveTakeOpPrivileges.  return_channel gives NULL  *)
(* for a channel that does not exist, return_user_in_multimap gives NULL   *)
(* for an operator who has been kicked: both are dereferenced, the second  *)
(* one unless giveTakeOpPrivileges returns early; otherwise it ends with a *)
(* walk over all operators.                                                *)
(***************************************************************************)
AlreadyOp(c, n) == Named(channels[c].operators, name, n)
ReturnsEarly(c, mode, n) == mode = "+o" /\ AlreadyOp(c, n)

NullDereferenced(c, mode, n) ==
    \/ ~ Exists(channels[c])
    \/ ~ Named(channel_users[c], name, me) /\ ~ ReturnsEarly(c, mode, n)

PrivilegeReads(c, mode, n) ==
    IF ~ (find_user_in_channel(c, n) /\ UserIsOp(c)) THEN {}
    ELSE IF ReturnsEarly(c, mode, n) THEN Searched(channels[c].operators, name, n)
    ELSE ToSet(channels[c].operators)

sendMode(c, mode, n) ==
    /\ Registered
    /\ \/ /\ find_user_in_channel(c, n)
          /\ UserIsOp(c)
          /\ LET target == FirstNamed(channel_users[c], name, n)
             IN  IF NullDereferenced(c, mode, n) THEN Terminate("pointer")
                 ELSE /\ channels' = [ channels EXCEPT ![c] =
                                         IF mode = "+o" THEN GiveOp(@, name, target)
                                                        ELSE TakeOp(@, name, target) ]
                      /\ heap' = IF (mode = "+o") = AlreadyOp(c, n) THEN heap
                                 ELSE [ heap EXCEPT ![target].nickOP = (mode = "+o") ]
                      /\ UNCHANGED channel_users
                      /\ OnlyChannelsChange
       \/ Segfault(TargetReads(c, n) \cup PrivilegeReads(c, mode, n))

-----------------------------------------------------------------------------
(* Commands that only send: sendChannelMsg and sendTopic walk over one     *)
(* channel's entries, sendFile over all of them.                           *)

sendChannelMsg(c) == Registered /\ Segfault(ToSet(channel_users[c]))

sendTopic(c) == Registered /\ Segfault(OperatorReads(c))

sendFile == Registered /\ Segfault(MultimapPointers)

sendQuit ==
    /\ Registered
    /\ \/ OnlySelfChanges([ heap[self] EXCEPT !.state = "DELETE" ])
       \/ Segfault(MultimapPointers)

(***************************************************************************)
(* A line without the parameter its handler reads.  For JOIN, PART, MODE,  *)
(* KICK and TOPIC a substr() starts past the end of the line and throws,   *)
(* and nothing catches it; for USER the vector of arguments is read past   *)
(* its allocation.  (PASS, NICK and QUIT then find their own name in the   *)
(* slot of the erased argument: that is the same command with an argument.) *)
(***************************************************************************)
MissingParameter ==
    /\ Executing
    /\ HasPassword
    /\ Terminate("line")
=============================================================================
