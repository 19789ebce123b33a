------------------------------- MODULE Server -------------------------------
(***************************************************************************)
(* The state of the IRC server (Server.hpp, User.hpp, Channel.hpp) and the *)
(* two operations of Server.cpp that change it: connectNewUser and         *)
(* disconnectUser.                                                         *)
(*                                                                         *)
(* The program refers to a client in two ways that can come apart: by file *)
(* descriptor, through the map _users, and by raw User pointer, from       *)
(* _channel_users and from every Channel.  Pointers are addresses here:    *)
(* deleting a User frees its address, and a later `new User` may return it *)
(* again.                                                                  *)
(***************************************************************************)
EXTENDS Sweep

CONSTANTS
    Addr,            \* addresses `new User` can return
    Fd,              \* descriptors the kernel can give to a connection
    Nick,            \* the non-empty nicknames
    NoNick,          \* the empty nickname
    Garbage,         \* what a freed nickname may read as: equal to no nickname
    Password,        \* the passwords that occur, sent or stored
    NoPassword,      \* the empty password
    ServerPassword   \* argv[2]

ASSUME FdAssumption == Fd \subseteq Nat
ASSUME NickAssumption == NoNick \notin Nick /\ Garbage \notin Nick \cup {NoNick}
ASSUME PasswordAssumption == {NoPassword, ServerPassword} \subseteq Password

VARIABLES
    pollfds,         \* Server::_pollfds after the entry of the listening socket
    users,           \* Server::_users, from descriptors to addresses
    live,            \* the addresses that hold an allocated User
    heap,            \* the contents of every address, freed ones included
    channel_users,   \* Server::_channel_users: for every key its entries in order
    channels,        \* Server::_channels, by name
    current,         \* the descriptor whose User::onUser is running, or NoFd
    status,          \* whether the process runs, or what has terminated it
    clean            \* history: so far every user who left was taken off all lists

vars == << pollfds, users, live, heap, channel_users, channels, current, status, clean >>

NoFd == -1
AnyNick == Nick \cup {NoNick}

\* enum USER_STATE, without REGISTERED, which is never assigned.
UserState == { "CONNECTED", "ONLINE", "DELETE" }

\* The fields of a User that outlive a call.  Of username and nickOP only
\* whether they are non-empty matters.
User == [ fd : Fd \cup {NoFd}, state : UserState, username : BOOLEAN,
          nickname : AnyNick \cup {Garbage}, nickOP : BOOLEAN,
          password : Password ]

NewUser(fd) == [ fd |-> fd, state |-> "CONNECTED", username |-> FALSE,
                 nickname |-> NoNick, nickOP |-> FALSE, password |-> NoPassword ]

\* Memory nobody points to.
Blank == [ NewUser(NoFd) EXCEPT !.nickname = Garbage ]

name == [ a \in Addr |-> heap[a].nickname ]

isRegistered(user) ==
    /\ user.nickname # NoNick
    /\ user.username
    /\ user.password = ServerPassword

\* Every pointer kept outside _users.
MultimapPointers == UNION { ToSet(channel_users[c]) : c \in Chan }
ChannelPointers(chs) ==
    UNION { ToSet(chs[c].members) \cup ToSet(chs[c].operators) : c \in Chan }

-----------------------------------------------------------------------------
NoUsers == [ fd \in {} |-> Blank ]
NoEntries == [ c \in Chan |-> << >> ]
NoChannels == [ c \in Chan |-> NoChannel ]

Init ==
    /\ pollfds = << >>
    /\ users = NoUsers
    /\ live = {}
    /\ heap = [ a \in Addr |-> Blank ]
    /\ channel_users = NoEntries
    /\ channels = NoChannels
    /\ current = NoFd
    /\ status = "up"
    /\ clean = TRUE

(***************************************************************************)
(* The process ends and its memory with it, because of a line that lacks a *)
(* parameter or because of a pointer.  A null pointer ends it for certain. *)
(* If a pointer in S is dereferenced after its User was deleted, it may    *)
(* end; otherwise the read returns what the freed memory holds.            *)
(***************************************************************************)
Cause == {"line", "pointer"}

Terminate(cause) ==
    /\ status' = cause
    /\ pollfds' = << >> /\ users' = NoUsers /\ live' = {}
    /\ heap' = [ a \in Addr |-> Blank ]
    /\ channel_users' = NoEntries /\ channels' = NoChannels
    /\ current' = NoFd /\ clean' = TRUE

Segfault(S) == S \ live # {} /\ Terminate("pointer")

-----------------------------------------------------------------------------
(***************************************************************************)
(* connectNewUser.  accept() returns the lowest descriptor that is not     *)
(* open; `new User` returns any address that is not in use.                *)
(***************************************************************************)
connectNewUser ==
    /\ status = "up" /\ current = NoFd
    /\ \E fd \in Fd \ DOMAIN users, a \in Addr \ live :
         /\ \A f \in Fd \ DOMAIN users : fd <= f
         /\ pollfds' = Append(pollfds, fd)
         /\ users' = [ f \in DOMAIN users \cup {fd} |-> IF f = fd THEN a ELSE users[f] ]
         /\ live' = live \cup {a}
         /\ heap' = [ heap EXCEPT ![a] = NewUser(fd) ]
    /\ UNCHANGED << channel_users, channels, current, status, clean >>

-----------------------------------------------------------------------------
\* Mutation: the multimap is forgotten.
NoKey(n) == {}

\* The first entry of the multimap under nickname n: its key, if there is one.
FirstKey(n) ==
    { c \in Chan : /\ Named(channel_users[c], name, n)
                   /\ \A d \in Chan : Named(channel_users[d], name, n) => c <= d }

\* The pointers disconnectUser dereferences while it searches for nickname n.
DisconnectReads(n) ==
    (UNION { Searched(channels[c].operators, name, n)
               \cup Searched(channels[c].members, name, n) : c \in Chan })
      \cup (UNION { Searched(channel_users[c], name, n) :
                      c \in { d \in Chan : \A e \in FirstKey(n) : d <= e } })

\* Mutation: the descriptor stays polled.
KeepsPollfd(fd) == pollfds

WithoutPollfd(fd) == RemoveFirst(pollfds, fd)

\* What "leaves all channels" asks of a step that deletes the user at a.
LeavesAllLists(a) ==
    \A c \in Chan :
      /\ ToSet(channel_users'[c]) = ToSet(channel_users[c]) \ {a}
      /\ ToSet(channels'[c].members) = ToSet(channels[c].members) \ {a}
      /\ ToSet(channels'[c].operators) = ToSet(channels[c].operators) \ {a}

(***************************************************************************)
(* disconnectUser(fd, false): one entry with the user's nickname leaves    *)
(* every channel's two lists, one leaves the multimap, the empty channels  *)
(* are swept, then the descriptor, the map entry and the User go.  Freed   *)
(* memory keeps its nickname or is scribbled over.                         *)
(***************************************************************************)
Disconnected(fd) ==
    LET a == users[fd]
        n == heap[a].nickname
    IN  /\ channels' = SweepChannels([ c \in Chan |-> DeleteUser(channels[c], name, n) ])
        /\ channel_users' = [ c \in Chan |-> IF c \in FirstKey(n)
                                             THEN EraseNamed(channel_users[c], name, n)
                                             ELSE channel_users[c] ]
        /\ pollfds' = WithoutPollfd(fd)
        /\ users' = [ f \in DOMAIN users \ {fd} |-> users[f] ]
        /\ live' = live \ {a}
        /\ \E left \in {n, Garbage} :
             heap' = [ heap EXCEPT ![a] = IF a \in MultimapPointers' \cup ChannelPointers(channels')
                                          THEN [ @ EXCEPT !.nickname = left ]
                                          ELSE Blank ]
        /\ current' = NoFd
        /\ clean' = (clean /\ LeavesAllLists(a))
        /\ UNCHANGED status

disconnectUser(fd) ==
    \/ Disconnected(fd)
    \/ Segfault(DisconnectReads(heap[users[fd]].nickname))
=============================================================================
