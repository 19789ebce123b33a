----------------------------- MODULE IrcServer -----------------------------
(***************************************************************************)
(* The whole server: the next-state relation, the specification and what   *)
(* the program is expected to maintain.                                    *)
(***************************************************************************)
EXTENDS Command

Next ==
    \/ connectNewUser
    \/ \E fd \in DOMAIN users : ReceiveLines(fd) \/ ReceiveEof(fd)
    \/ EndOnUser
    \/ \E pw \in Password : register_pass(pw)
    \/ \E n \in NickArg : register_nickname(n)
    \/ \E nonEmpty \in BOOLEAN : register_username(nonEmpty)
    \/ \E c \in Chan : sendJoin(c) \/ sendPart(c) \/ sendChannelMsg(c) \/ sendTopic(c)
    \/ \E c \in Chan, n \in TargetArg : sendKick(c, n)
    \/ \E c \in Chan, n \in TargetArg, mode \in {"+o", "-o"} : sendMode(c, mode, n)
    \/ sendFile
    \/ sendQuit
    \/ MissingParameter

Spec == Init /\ [][Next]_vars

-----------------------------------------------------------------------------
(***************************************************************************)
(* Invariants.                                                             *)
(***************************************************************************)

\* Every variable holds a value of its type.
TypeOK ==
    /\ pollfds \in Seq(Fd)
    /\ DOMAIN users \subseteq Fd /\ users \in [ DOMAIN users -> Addr ]
    /\ live \subseteq Addr
    /\ heap \in [ Addr -> User ]
    /\ channel_users \in [ Chan -> Seq(Addr) ]
    /\ channels \in [ Chan -> ChannelType(Addr) ]
    /\ current \in DOMAIN users \cup {NoFd}
    /\ status \in Cause \cup {"up"}
    /\ clean \in BOOLEAN

\* The four records of who is connected agree at every moment: the polled
\* descriptors, without repetition, are the keys of _users, each User knows its
\* own descriptor, and a User is allocated exactly if _users leads to it.  The
\* event loop relies on it: _users[fd] of an unknown fd would insert a null
\* pointer and call a method of it (Server.cpp, run).
FdTablesAgree ==
    /\ ToSet(pollfds) = DOMAIN users /\ IsInjective(pollfds)
    /\ \A fd \in DOMAIN users : heap[users[fd]].fd = fd
    /\ live = { users[fd] : fd \in DOMAIN users }

\* Two connections never hold the same non-empty nickname, whatever the
\* interleaving of NICK commands, re-used memory and disconnects (Command.cpp,
\* register_nickname and check_free_nickname).
NicknamesUnique ==
    \A f, g \in DOMAIN users :
        f # g /\ heap[users[f]].nickname # NoNick
          => heap[users[f]].nickname # heap[users[g]].nickname

\* No client gets a nickname, a user name, the welcome or the right to quit
\* before the server's password, and a registered client has been welcomed
\* whenever no constructor of Command is running.
NothingBeforePassword ==
    \A a \in live :
        LET user == heap[a] IN
        /\ user.nickname # NoNick \/ user.username \/ user.state # "CONNECTED"
             => user.password = ServerPassword
        /\ isRegistered(user) => user.state # "CONNECTED"

\* No pointer occurs twice under one key of _channel_users, so a broadcast
\* reaches nobody twice (Command.cpp, handleDoubleUserError), also when the
\* pointer is a dangling one or leads to the User that re-used its memory.
EntriesUnique == \A c \in Chan : IsInjective(channel_users[c])

\* As long as every user who left was taken off all lists, the multimap and the
\* Channel objects tell the same story: pointers lead to existing Users, who is
\* registered in the multimap is a member of an existing Channel, operators are
\* members and are listed once.  MODE relies on it (return_channel is not NULL),
\* and so do the operator checks, which are skipped for a missing Channel.
ListsAgree ==
    clean =>
      \A c \in Chan :
        /\ ToSet(channels[c].members) \subseteq live
        /\ ToSet(channel_users[c]) \subseteq ToSet(channels[c].members)
        /\ ToSet(channels[c].operators) \subseteq ToSet(channels[c].members)
        /\ IsInjective(channels[c].operators)
        /\ ~ Exists(channels[c]) => channels[c] = NoChannel

-----------------------------------------------------------------------------
(***************************************************************************)
(* Action properties.                                                      *)
(***************************************************************************)
Commanding(a) == current # NoFd /\ a = self
Operates(a, c) == a \in ToSet(channels[c].operators)

\* A registered member disappears from a channel only by his own PART, by the
\* KICK of one of the channel's operators, or with his connection.
MembersLeaveOnlyBy ==
    [][ clean' /\ status' = "up" =>
          \A c \in Chan : \A a \in ToSet(channel_users[c]) \ ToSet(channel_users'[c]) :
             \/ Commanding(a)
             \/ current # NoFd /\ Operates(self, c)
             \/ a \notin live' ]_vars

\* A user becomes an operator only by joining a channel that has no operator, or
\* because an operator of that channel raises one who is registered in it.
OperatorsAppointed ==
    [][ clean' /\ status' = "up" =>
          \A c \in Chan : \A a \in ToSet(channels'[c].operators) \ ToSet(channels[c].operators) :
             \/ /\ Commanding(a) /\ channels[c].operators = << >>
                /\ a \in ToSet(channel_users'[c]) \ ToSet(channel_users[c])
             \/ current # NoFd /\ Operates(self, c) /\ a \in ToSet(channel_users[c]) ]_vars

\* While the lists are clean, the only command that can bring the server down by
\* a pointer is the MODE of an operator who has been kicked out of the channel.
PointerFaultOnlyBy ==
    [][ clean /\ status' = "pointer" =>
          status = "pointer" \/ \E c \in Chan : /\ current # NoFd /\ Operates(self, c)
                                                /\ self \notin ToSet(channel_users[c]) ]_vars

\* A disconnect fails to take its user, and nobody else, off all lists for exactly
\* three kinds of users: one registered in several channels, one listed twice as
\* a member (kicked and back), and one without a nickname while another user
\* without one is still on a list.
Occurrences(list, a) == Cardinality({ i \in DOMAIN list : list[i] = a })

SeveralChannels(a) ==
    \E c, d \in Chan : c # d /\ a \in ToSet(channel_users[c]) \cap ToSet(channel_users[d])

TwiceMember(a) == \E c \in Chan : Occurrences(channels[c].members, a) > 1

SharesNoNick(a) ==
    /\ heap[a].nickname = NoNick
    /\ \E c \in Chan :
       \E list \in { channel_users[c], channels[c].members, channels[c].operators } :
       \E b \in ToSet(list) \ {a} : heap[b].nickname = NoNick /\ Occurrences(list, b) = 1

CleanLeaveIff ==
    [][ clean /\ status' = "up" =>
          \A a \in live \ live' :
             clean' <=> ~ (SeveralChannels(a) \/ TwiceMember(a) \/ SharesNoNick(a)) ]_vars

-----------------------------------------------------------------------------
(***************************************************************************)
(* The server seen without its pointers and channels.                      *)
(***************************************************************************)
SessionOf(user) == [ password |-> user.password = ServerPassword,
                     nickname |-> user.nickname, username |-> user.username,
                     state |-> user.state ]

SessionTable == [ fd \in DOMAIN users |-> SessionOf(heap[users[fd]]) ]

Registry == INSTANCE Sessions WITH
    session <- SessionTable,
    serving <- current,
    up <- (status = "up"),
    PasswordFree <- (NoPassword = ServerPassword)

\* Every step of the server, with all its lists and its memory, is a step of the
\* registry of sessions or changes no session: no channel command, no sweep, no
\* re-used address and no dangling pointer touches who is connected, under which
\* nickname and how far registered (Command.cpp, Server.cpp).
ImplementsSessions == Registry!Spec

-----------------------------------------------------------------------------
(***************************************************************************)
(* What comments of the source say of the program, and it does not do.     *)
(***************************************************************************)

\* Server.cpp, disconnectUser: "Makes user leave all channels and erases the user
\* and its file descriptor from server."
EntriesAreLive == MultimapPointers \subseteq live
=============================================================================
