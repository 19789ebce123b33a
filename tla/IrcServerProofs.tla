-------------------------- MODULE IrcServerProofs --------------------------
(***************************************************************************)
(* Proofs of the invariants of IrcServer that do not depend on the history *)
(* variable `clean`, for any number of addresses, descriptors, nicknames   *)
(* and channels.                                                           *)
(***************************************************************************)
EXTENDS IrcServer, SequenceLemmas

-----------------------------------------------------------------------------
(* What erasing the first entry with a nickname leaves of a list.          *)

\* Of the list an erased nickname leaves, every pointer was there before, and
\* none occurs twice if none did.
LEMMA EraseNamedProperties ==
    ASSUME NEW S, NEW list \in Seq(S), NEW nm, NEW n
    PROVE  /\ EraseNamed(list, nm, n) \in Seq(S)
           /\ ToSet(EraseNamed(list, nm, n)) \subseteq ToSet(list)
           /\ IsInjective(list) => IsInjective(EraseNamed(list, nm, n))
<1> DEFINE I == { i \in 1 .. Len(list) : nm[list[i]] = n }
<1>1. CASE I = {}
  <2>1. EraseNamed(list, nm, n) = list
    BY <1>1 DEF EraseNamed, RemoveFirstMatch
  <2>2. QED
    BY <2>1
<1>2. CASE I # {}
  <2>1. EraseNamed(list, nm, n) = RemoveAt(list, Min(I))
    BY <1>2 DEF EraseNamed, RemoveFirstMatch, SelectInSeq
  <2>2. Min(I) \in 1 .. Len(list)
    <3>1. I \in SUBSET Nat
      OBVIOUS
    <3>2. Min(I) \in I
      BY <1>2, <3>1, MinOfNaturals
    <3>3. QED
      BY <3>2
  <2> HIDE DEF I
  <2>3. QED
    BY <2>1, <2>2, RemoveAtProperties, RemoveAtElements
<1>3. QED
  BY <1>1, <1>2

\* The erased pointer is the first one with the nickname.
LEMMA ErasedPosition ==
    ASSUME NEW S, NEW list \in Seq(S), NEW nm, NEW n
    PROVE  /\ ~ Named(list, nm, n) => EraseNamed(list, nm, n) = list
           /\ Named(list, nm, n) =>
                \E i \in 1 .. Len(list) : /\ EraseNamed(list, nm, n) = RemoveAt(list, i)
                                          /\ nm[list[i]] = n
<1> DEFINE I == { i \in 1 .. Len(list) : nm[list[i]] = n }
<1>1. Named(list, nm, n) <=> I # {}
  BY DEF Named
<1>2. CASE I = {}
  BY <1>1, <1>2 DEF EraseNamed, RemoveFirstMatch
<1>3. CASE I # {}
  <2>1. EraseNamed(list, nm, n) = RemoveAt(list, Min(I))
    BY <1>3 DEF EraseNamed, RemoveFirstMatch, SelectInSeq
  <2>2. I \in SUBSET Nat
    OBVIOUS
  <2>3. Min(I) \in I
    BY <1>3, <2>2, MinOfNaturals
  <2>4. Min(I) \in 1 .. Len(list) /\ nm[list[Min(I)]] = n
    BY <2>3
  <2> HIDE DEF I
  <2>5. QED
    BY <1>1, <1>3, <2>1, <2>4
<1>4. QED
  BY <1>2, <1>3

\* The element x is in the list at two places.
Twice(list, x) == \E j, k \in DOMAIN list : j # k /\ list[j] = x /\ list[k] = x

\* At most x has the nickname of those in the list.
OnlyNamed(list, nm, n, x) == \A y \in ToSet(list) : nm[y] = n => y = x

\* If at most the pointer e has the nickname, at most e goes, and it goes from the
\* set exactly if it is listed once.
LEMMA EraseOnlyOne ==
    ASSUME NEW S, NEW list \in Seq(S), NEW nm, NEW n, NEW e, OnlyNamed(list, nm, n, e)
    PROVE  /\ ToSet(list) \ {e} \subseteq ToSet(EraseNamed(list, nm, n))
           /\ ~ Named(list, nm, n) => EraseNamed(list, nm, n) = list
           /\ Named(list, nm, n) =>
                /\ e \in ToSet(list) /\ nm[e] = n
                /\ e \in ToSet(EraseNamed(list, nm, n)) <=> Twice(list, e)
                /\ IsInjective(list) => ToSet(EraseNamed(list, nm, n)) = ToSet(list) \ {e}
<1>1. CASE ~ Named(list, nm, n)
  BY <1>1, ErasedPosition
<1>2. CASE Named(list, nm, n)
  <2>1. PICK i \in 1 .. Len(list) : EraseNamed(list, nm, n) = RemoveAt(list, i) /\ nm[list[i]] = n
    BY <1>2, ErasedPosition
  <2>2. list[i] \in ToSet(list) /\ list[i] = e /\ i \in DOMAIN list
    BY <2>1 DEF ToSet, OnlyNamed
  <2>3. /\ ToSet(list) \ {e} \subseteq ToSet(RemoveAt(list, i))
        /\ e \in ToSet(RemoveAt(list, i)) <=> \E j \in DOMAIN list : j # i /\ list[j] = e
        /\ IsInjective(list) => ToSet(RemoveAt(list, i)) = ToSet(list) \ {e}
    BY <2>2, RemoveAtElements
  <2>4. (\E j \in DOMAIN list : j # i /\ list[j] = e) <=> Twice(list, e)
    BY <2>2 DEF Twice
  <2>5. QED
    BY <1>2, <2>1, <2>2, <2>3, <2>4
<1>3. QED
  BY <1>1, <1>2

-----------------------------------------------------------------------------
(* What the operators of Channel.tla and Server.tla return.                *)

\* A freed address and a new User are Users.
LEMMA BlankType == Blank \in User /\ \A fd \in Fd : NewUser(fd) \in User
BY PasswordAssumption DEF Blank, NewUser, User, UserState, AnyNick

\* The absent channel is a Channel.
LEMMA NoChannelType == NoChannel \in ChannelType(Addr)
<1>1. << >> \in Seq(Addr)
  BY EmptySeq
<1>2. QED
  BY <1>1 DEF NoChannel, ChannelType

\* addUser returns a Channel.
LEMMA AddUserType ==
    ASSUME NEW ch \in ChannelType(Addr), NEW u \in Addr
    PROVE  AddUser(ch, u) \in ChannelType(Addr)
<1>1. Append(ch.members, u) \in Seq(Addr) /\ Append(ch.operators, u) \in Seq(Addr)
  BY AppendProperties DEF ChannelType
<1>2. QED
  BY <1>1 DEF AddUser, ChannelType

\* deleteUser returns a Channel.
LEMMA DeleteUserType ==
    ASSUME NEW ch \in ChannelType(Addr), NEW nm, NEW n
    PROVE  DeleteUser(ch, nm, n) \in ChannelType(Addr)
<1>1. /\ EraseNamed(ch.members, nm, n) \in Seq(Addr)
      /\ EraseNamed(ch.operators, nm, n) \in Seq(Addr)
  BY EraseNamedProperties DEF ChannelType
<1>2. QED
  BY <1>1 DEF DeleteUser, ChannelType

\* Both operator modes return a Channel.
LEMMA OpModesType ==
    ASSUME NEW ch \in ChannelType(Addr), NEW nm, NEW u \in Addr
    PROVE  GiveOp(ch, nm, u) \in ChannelType(Addr) /\ TakeOp(ch, nm, u) \in ChannelType(Addr)
<1>1. /\ Append(ch.operators, u) \in Seq(Addr)
      /\ EraseNamed(ch.operators, nm, nm[u]) \in Seq(Addr)
  BY AppendProperties, EraseNamedProperties DEF ChannelType
<1>2. QED
  BY <1>1 DEF GiveOp, TakeOp, ChannelType

\* Any set of channels can be counted.
LEMMA CardinalityOfChannels ==
    ASSUME NEW D \in SUBSET Chan
    PROVE  Cardinality(D) \in Nat
BY ChanAssumption, FS_Subset, FS_CardinalityType

\* The sweep returns Channels.
LEMMA SweepChannelsType ==
    ASSUME NEW chs \in [ Chan -> ChannelType(Addr) ]
    PROVE  SweepChannels(chs) \in [ Chan -> ChannelType(Addr) ]
<1> DEFINE kept(c) == { d \in Chan : /\ Exists(chs[d]) /\ ~ Deleted(chs, d)
                                     /\ chs[d].pos <= chs[c].pos }
<1>1. ASSUME NEW c \in Chan
      PROVE  [ chs[c] EXCEPT !.pos = Cardinality(kept(c)) ] \in ChannelType(Addr)
  <2>1. Cardinality(kept(c)) \in Nat
    BY CardinalityOfChannels
  <2>2. QED
    BY <2>1 DEF ChannelType
<1>2. QED
  BY <1>1, NoChannelType DEF SweepChannels

\* The pointer a successful search returns is in the list and has the nickname.
LEMMA FirstNamedProperties ==
    ASSUME NEW S, NEW list \in Seq(S), NEW nm, NEW n, Named(list, nm, n)
    PROVE  /\ FirstNamed(list, nm, n) \in S
           /\ FirstNamed(list, nm, n) \in ToSet(list)
           /\ nm[FirstNamed(list, nm, n)] = n
<1> DEFINE I == { i \in 1 .. Len(list) : nm[list[i]] = n }
<1>1. I # {} /\ I \in SUBSET Nat
  BY DEF Named
<1>2. Min(I) \in I
  BY <1>1, MinOfNaturals
<1>3. FirstNamed(list, nm, n) = list[Min(I)]
  BY <1>1 DEF FirstNamed, SelectInSeq
<1> HIDE DEF I
<1>4. Min(I) \in 1 .. Len(list) /\ nm[list[Min(I)]] = n
  BY <1>2 DEF I
<1>5. QED
  BY <1>3, <1>4, ElementOfSeq DEF ToSet

-----------------------------------------------------------------------------
(***************************************************************************)
(* Type correctness.                                                       *)
(***************************************************************************)

\* The end of the process leaves every variable within its type.
LEMMA TerminateType == \A cause \in Cause : Terminate(cause) => TypeOK'
BY BlankType, NoChannelType, EmptySeq
   DEF Terminate, TypeOK, NoUsers, NoEntries, NoChannels, Cause

\* So does a dereferenced dangling pointer.
LEMMA SegfaultType == \A S : Segfault(S) => TypeOK'
BY TerminateType DEF Segfault, Cause

\* The initial state is well typed.
LEMMA InitType == Init => TypeOK
BY BlankType, NoChannelType, EmptySeq
   DEF Init, TypeOK, NoUsers, NoEntries, NoChannels

\* The user whose command is running is in both tables.
LEMMA SelfType ==
    ASSUME TypeOK, Executing
    PROVE  /\ current \in DOMAIN users /\ current \in Fd
           /\ self \in Addr /\ heap[self] \in User
           /\ me \in AnyNick \cup {Garbage}
<1>1. current \in DOMAIN users /\ DOMAIN users \subseteq Fd
  BY DEF TypeOK, Executing
<1>2. self \in Addr
  BY <1>1 DEF TypeOK, self
<1>3. QED
  BY <1>1, <1>2 DEF TypeOK, me, User

\* A step that gives the current client another User record is well typed.
LEMMA OnlySelfChangesType ==
    ASSUME TypeOK, Executing, NEW user \in User, OnlySelfChanges(user)
    PROVE  TypeOK'
BY DEF TypeOK, OnlySelfChanges

\* The welcome returns a User.
LEMMA WelcomedType ==
    ASSUME NEW user \in User
    PROVE  Welcomed(user) \in User
BY DEF Welcomed, User, UserState

\* connectNewUser preserves the types.
LEMMA ConnectType ==
    ASSUME TypeOK, connectNewUser
    PROVE  TypeOK'
<1>1. PICK fd \in Fd \ DOMAIN users, a \in Addr \ live :
        /\ pollfds' = Append(pollfds, fd)
        /\ users' = [ f \in DOMAIN users \cup {fd} |-> IF f = fd THEN a ELSE users[f] ]
        /\ live' = live \cup {a}
        /\ heap' = [ heap EXCEPT ![a] = NewUser(fd) ]
  BY DEF connectNewUser
<1>2. UNCHANGED << channel_users, channels, current, status, clean >>
  BY DEF connectNewUser
<1>3. pollfds' \in Seq(Fd)
  BY <1>1, AppendProperties DEF TypeOK
<1>4. /\ DOMAIN users' = DOMAIN users \cup {fd}
      /\ users' \in [ DOMAIN users' -> Addr ]
  BY <1>1 DEF TypeOK
<1>5. heap' \in [ Addr -> User ]
  BY <1>1, BlankType DEF TypeOK
<1>6. QED
  BY <1>1, <1>2, <1>3, <1>4, <1>5 DEF TypeOK

\* A completed disconnectUser preserves the types.
LEMMA DisconnectedType ==
    ASSUME TypeOK, NEW fd \in DOMAIN users, Disconnected(fd)
    PROVE  TypeOK'
<1> DEFINE a == users[fd]
           n == heap[a].nickname
<1>1. a \in Addr /\ heap[a] \in User /\ n \in AnyNick \cup {Garbage}
  BY DEF TypeOK, User
<1>2. channels' \in [ Chan -> ChannelType(Addr) ]
  <2>1. [ c \in Chan |-> DeleteUser(channels[c], name, n) ] \in [ Chan -> ChannelType(Addr) ]
    BY DeleteUserType DEF TypeOK
  <2>2. channels' = SweepChannels([ c \in Chan |-> DeleteUser(channels[c], name, n) ])
    BY DEF Disconnected
  <2>3. QED
    BY <2>1, <2>2, SweepChannelsType
<1>3. channel_users' \in [ Chan -> Seq(Addr) ]
  <2>1. \A c \in Chan : EraseNamed(channel_users[c], name, n) \in Seq(Addr)
    BY EraseNamedProperties DEF TypeOK
  <2>2. channel_users' = [ c \in Chan |-> IF c \in FirstKey(n)
                                         THEN EraseNamed(channel_users[c], name, n)
                                         ELSE channel_users[c] ]
    BY DEF Disconnected
  <2>3. QED
    BY <2>1, <2>2 DEF TypeOK
<1>4. pollfds' \in Seq(Fd)
  BY RemoveFirstProperties DEF Disconnected, WithoutPollfd, TypeOK
<1>5. /\ DOMAIN users' = DOMAIN users \ {fd}
      /\ users' \in [ DOMAIN users' -> Addr ]
  BY DEF Disconnected, TypeOK
<1>6. heap' \in [ Addr -> User ]
  <2>1. PICK left \in {n, Garbage} :
          heap' = [ heap EXCEPT ![a] = IF a \in MultimapPointers' \cup ChannelPointers(channels')
                                       THEN [ @ EXCEPT !.nickname = left ]
                                       ELSE Blank ]
    BY DEF Disconnected
  <2>2. [ heap[a] EXCEPT !.nickname = left ] \in User
    BY <1>1 DEF User
  <2>3. QED
    BY <1>1, <2>1, <2>2, BlankType DEF TypeOK
<1>7. live' \subseteq Addr /\ current' = NoFd /\ status' = status /\ clean' \in BOOLEAN
  <2>1. LeavesAllLists(a) \in BOOLEAN
    BY DEF LeavesAllLists
  <2>2. QED
    BY <2>1 DEF Disconnected, TypeOK
<1>8. QED
  BY <1>2, <1>3, <1>4, <1>5, <1>6, <1>7 DEF TypeOK

\* disconnectUser preserves the types, completed or not.
LEMMA DisconnectUserType ==
    ASSUME TypeOK, NEW fd \in DOMAIN users, disconnectUser(fd)
    PROVE  TypeOK'
BY DisconnectedType, SegfaultType DEF disconnectUser

\* PASS, NICK, USER and QUIT preserve the types.
LEMMA RegistrationType ==
    ASSUME TypeOK,
           \/ \E pw \in Password : register_pass(pw)
           \/ \E n \in NickArg : register_nickname(n)
           \/ \E nonEmpty \in BOOLEAN : register_username(nonEmpty)
           \/ sendQuit
    PROVE  TypeOK'
<1>1. ASSUME NEW pw \in Password, register_pass(pw)
      PROVE  TypeOK'
  <2>1. Executing /\ OnlySelfChanges(Welcomed([ heap[self] EXCEPT !.password = pw ]))
    BY <1>1 DEF register_pass, Unregistered
  <2>2. [ heap[self] EXCEPT !.password = pw ] \in User
    BY <2>1, SelfType DEF User
  <2>3. QED
    BY <2>1, <2>2, WelcomedType, OnlySelfChangesType
<1>2. ASSUME NEW n \in NickArg, register_nickname(n)
      PROVE  TypeOK'
  <2>1. /\ Executing
        /\ \/ OnlySelfChanges(Welcomed([ heap[self] EXCEPT !.nickname = n ]))
           \/ Segfault(MultimapPointers)
    BY <1>2 DEF register_nickname
  <2>2. [ heap[self] EXCEPT !.nickname = n ] \in User
    BY <2>1, SelfType, ArgAssumption DEF User
  <2>3. QED
    BY <2>1, <2>2, WelcomedType, OnlySelfChangesType, SegfaultType
<1>3. ASSUME NEW nonEmpty \in BOOLEAN, register_username(nonEmpty)
      PROVE  TypeOK'
  <2>1. Executing /\ OnlySelfChanges(Welcomed([ heap[self] EXCEPT !.username = nonEmpty ]))
    BY <1>3 DEF register_username, Unregistered
  <2>2. [ heap[self] EXCEPT !.username = nonEmpty ] \in User
    BY <2>1, SelfType DEF User
  <2>3. QED
    BY <2>1, <2>2, WelcomedType, OnlySelfChangesType
<1>4. ASSUME sendQuit
      PROVE  TypeOK'
  <2>1. /\ Executing
        /\ \/ OnlySelfChanges([ heap[self] EXCEPT !.state = "DELETE" ])
           \/ Segfault(MultimapPointers)
    BY <1>4 DEF sendQuit, Registered
  <2>2. [ heap[self] EXCEPT !.state = "DELETE" ] \in User
    BY <2>1, SelfType DEF User, UserState
  <2>3. QED
    BY <2>1, <2>2, OnlySelfChangesType, SegfaultType
<1>5. QED
  BY <1>1, <1>2, <1>3, <1>4

\* JOIN preserves the types.
LEMMA JoinType ==
    ASSUME TypeOK, NEW c \in Chan, sendJoin(c)
    PROVE  TypeOK'
<1> DEFINE new == [ NoChannel EXCEPT !.pos = Cardinality({ d \in Chan : Exists(channels[d]) }) + 1 ]
           ch == IF Exists(channels[c]) THEN channels[c] ELSE new
<1>1. Executing
  BY DEF sendJoin, Registered
<1>2. ch \in ChannelType(Addr)
  <2>1. Cardinality({ d \in Chan : Exists(channels[d]) }) \in Nat
    BY CardinalityOfChannels
  <2>2. new \in ChannelType(Addr)
    BY <2>1, NoChannelType DEF ChannelType
  <2>3. QED
    BY <2>2 DEF TypeOK
<1> HIDE DEF ch
<1>3. CASE Segfault(Searched(channel_users[c], name, me))
  BY <1>3, SegfaultType
<1>4. CASE /\ channel_users' = [ channel_users EXCEPT ![c] = Append(@, self) ]
           /\ channels' = [ channels EXCEPT ![c] = AddUser(ch, self) ]
           /\ heap' = IF BecomesOperator(ch) THEN [ heap EXCEPT ![self].nickOP = TRUE ] ELSE heap
           /\ OnlyChannelsChange
  <2>1. self \in Addr /\ heap[self] \in User
    BY <1>1, SelfType
  <2>2. Append(channel_users[c], self) \in Seq(Addr)
    BY <2>1, AppendProperties DEF TypeOK
  <2>3. AddUser(ch, self) \in ChannelType(Addr)
    BY <1>2, <2>1, AddUserType
  <2>4. [ heap[self] EXCEPT !.nickOP = TRUE ] \in User
    BY <2>1 DEF User
  <2>5. heap' \in [ Addr -> User ]
    BY <1>4, <2>1, <2>4 DEF TypeOK
  <2>6. channels' \in [ Chan -> ChannelType(Addr) ]
    BY <1>4, <2>3 DEF TypeOK
  <2>7. channel_users' \in [ Chan -> Seq(Addr) ]
    BY <1>4, <2>2 DEF TypeOK
  <2>8. QED
    BY <1>4, <2>5, <2>6, <2>7 DEF TypeOK, OnlyChannelsChange
<1>5. QED
  BY <1>3, <1>4 DEF sendJoin, ch

\* PART preserves the types.
LEMMA PartType ==
    ASSUME TypeOK, NEW c \in Chan, sendPart(c)
    PROVE  TypeOK'
<1>1. CASE /\ channel_users' = [ channel_users EXCEPT ![c] = EraseNamed(@, name, me) ]
           /\ channels' = [ channels EXCEPT ![c] = DeleteUser(@, name, me) ]
           /\ UNCHANGED heap
           /\ OnlyChannelsChange
  <2>1. EraseNamed(channel_users[c], name, me) \in Seq(Addr)
    BY EraseNamedProperties DEF TypeOK
  <2>2. DeleteUser(channels[c], name, me) \in ChannelType(Addr)
    BY DeleteUserType DEF TypeOK
  <2>3. QED
    BY <1>1, <2>1, <2>2 DEF TypeOK, OnlyChannelsChange
<1>2. QED
  BY <1>1, SegfaultType DEF sendPart

\* KICK preserves the types.
LEMMA KickType ==
    ASSUME TypeOK, NEW c \in Chan, NEW n \in TargetArg, sendKick(c, n)
    PROVE  TypeOK'
<1>1. CASE /\ channel_users' = [ channel_users EXCEPT ![c] = EraseNamed(@, name, n) ]
           /\ UNCHANGED << heap, channels >>
           /\ OnlyChannelsChange
  <2>1. EraseNamed(channel_users[c], name, n) \in Seq(Addr)
    BY EraseNamedProperties DEF TypeOK
  <2>2. QED
    BY <1>1, <2>1 DEF TypeOK, OnlyChannelsChange
<1>2. QED
  BY <1>1, SegfaultType DEF sendKick

\* MODE preserves the types.
LEMMA ModeType ==
    ASSUME TypeOK, NEW c \in Chan, NEW n \in TargetArg, NEW mode \in {"+o", "-o"},
           sendMode(c, mode, n)
    PROVE  TypeOK'
<1> DEFINE target == FirstNamed(channel_users[c], name, n)
<1>1. find_user_in_channel(c, n) => target \in Addr
  BY FirstNamedProperties DEF TypeOK, find_user_in_channel
<1> HIDE DEF target
<1>2. CASE Terminate("pointer") \/ \E S : Segfault(S)
  BY <1>2, SegfaultType, TerminateType DEF Cause
<1>3. CASE /\ find_user_in_channel(c, n)
           /\ channels' = [ channels EXCEPT ![c] =
                             IF mode = "+o" THEN GiveOp(@, name, target)
                                            ELSE TakeOp(@, name, target) ]
           /\ heap' = IF (mode = "+o") = AlreadyOp(c, n) THEN heap
                      ELSE [ heap EXCEPT ![target].nickOP = (mode = "+o") ]
           /\ UNCHANGED channel_users
           /\ OnlyChannelsChange
  <2>1. channels' \in [ Chan -> ChannelType(Addr) ]
    BY <1>1, <1>3, OpModesType DEF TypeOK
  <2>2. [ heap[target] EXCEPT !.nickOP = (mode = "+o") ] \in User
    BY <1>1, <1>3 DEF TypeOK, User
  <2>3. heap' \in [ Addr -> User ]
    BY <1>1, <1>3, <2>2 DEF TypeOK
  <2>4. QED
    BY <1>3, <2>1, <2>3 DEF TypeOK, OnlyChannelsChange
<1>4. QED
  BY <1>2, <1>3 DEF sendMode, target

\* Every step of the server keeps every variable within its type.
LEMMA NextType ==
    ASSUME TypeOK, [Next]_vars
    PROVE  TypeOK'
<1>1. CASE UNCHANGED vars
  BY <1>1 DEF TypeOK, vars
<1>2. CASE connectNewUser
  BY <1>2, ConnectType
<1>3. ASSUME NEW fd \in DOMAIN users, ReceiveLines(fd)
      PROVE  TypeOK'
  BY <1>3 DEF TypeOK, ReceiveLines
<1>4. ASSUME NEW fd \in DOMAIN users, ReceiveEof(fd)
      PROVE  TypeOK'
  BY <1>4, DisconnectUserType DEF ReceiveEof
<1>5. CASE EndOnUser
  <2>1. CASE disconnectUser(current)
    BY <1>5, <2>1, SelfType, DisconnectUserType DEF EndOnUser
  <2>2. CASE /\ current' = NoFd
             /\ UNCHANGED << pollfds, users, live, heap, channel_users, channels, status, clean >>
    BY <2>2 DEF TypeOK
  <2>3. QED
    BY <1>5, <2>1, <2>2 DEF EndOnUser
<1>6. CASE \E c \in Chan : sendJoin(c) \/ sendPart(c) \/ sendChannelMsg(c) \/ sendTopic(c)
  BY <1>6, JoinType, PartType, SegfaultType DEF sendChannelMsg, sendTopic
<1>7. CASE \E c \in Chan, n \in TargetArg : sendKick(c, n)
  BY <1>7, KickType
<1>8. CASE \E c \in Chan, n \in TargetArg, mode \in {"+o", "-o"} : sendMode(c, mode, n)
  BY <1>8, ModeType
<1>9. CASE sendFile
  BY <1>9, SegfaultType DEF sendFile
<1>10. CASE MissingParameter
  BY <1>10, TerminateType DEF MissingParameter, Cause
<1>11. QED
  BY <1>1, <1>2, <1>3, <1>4, <1>5, <1>6, <1>7, <1>8, <1>9, <1>10, RegistrationType DEF Next

\* The server never leaves its types: every stored pointer is an address that
\* `new User` has returned, every nickname one of those the handlers accept, and
\* the client whose commands are executed is always one that _users knows.
THEOREM TypeCorrect == Spec => []TypeOK
<1>1. TypeOK /\ [Next]_vars => TypeOK'
  BY NextType
<1>2. QED
  BY InitType, <1>1, PTL DEF Spec

-----------------------------------------------------------------------------
(***************************************************************************)
(* What a step does to the tables, whichever handler takes it.             *)
(***************************************************************************)

\* The client whose commands run changes his own User and nothing else: he takes
\* a nickname only if it is free, and everything else that he gets only when he
\* has given the password.
Registers(user) ==
    /\ Executing
    /\ OnlySelfChanges(user)
    /\ user \in User
    /\ user.fd = heap[self].fd
    /\ user.nickname # me => check_free_nickname(user.nickname)
    /\ \/ user.password = ServerPassword /\ (isRegistered(user) => user.state # "CONNECTED")
       \/ user = [ heap[self] EXCEPT !.state = "DELETE" ] /\ Registered

\* Nobody connects, leaves or registers; only the operator marks of Users and the
\* lists change.
OnlyListsChange ==
    /\ UNCHANGED << pollfds, users, live >>
    /\ \A a \in Addr : heap'[a] = heap[a] \/ \E b \in BOOLEAN : heap'[a] = [ heap[a] EXCEPT !.nickOP = b ]
    /\ \A c \in Chan :
         \/ channel_users'[c] = channel_users[c]
         \/ \E n : channel_users'[c] = EraseNamed(channel_users[c], name, n)
         \/ /\ Executing
            /\ ~ Named(channel_users[c], name, me)
            /\ channel_users'[c] = Append(channel_users[c], self)

\* PASS, NICK, USER and QUIT end the process or change the client's own record.
LEMMA RegistrationSteps ==
    ASSUME TypeOK,
           \/ \E pw \in Password : register_pass(pw)
           \/ \E n \in NickArg : register_nickname(n)
           \/ \E nonEmpty \in BOOLEAN : register_username(nonEmpty)
           \/ sendQuit
    PROVE  (\E user : Registers(user)) \/ (\E S : Segfault(S))
<1>1. ASSUME NEW pw \in Password, register_pass(pw)
      PROVE  \E user : Registers(user)
  <2> DEFINE u == [ heap[self] EXCEPT !.password = pw ]
  <2>1. Executing /\ OnlySelfChanges(Welcomed(u)) /\ pw = ServerPassword
    BY <1>1 DEF register_pass, Unregistered
  <2>2. heap[self] \in User /\ u \in User
    BY <2>1, SelfType DEF User
  <2>3. Registers(Welcomed(u))
    BY <2>1, <2>2 DEF Registers, Welcomed, isRegistered, User, UserState, me
  <2>4. QED
    BY <2>3
<1>2. ASSUME NEW n \in NickArg, register_nickname(n)
      PROVE  (\E user : Registers(user)) \/ (\E S : Segfault(S))
  <2> DEFINE u == [ heap[self] EXCEPT !.nickname = n ]
  <2>1. /\ Executing
        /\ heap[self].password = ServerPassword
        /\ check_free_nickname(n)
        /\ OnlySelfChanges(Welcomed(u)) \/ Segfault(MultimapPointers)
    BY <1>2 DEF register_nickname, HasPassword
  <2>2. heap[self] \in User /\ u \in User
    BY <2>1, SelfType, ArgAssumption DEF User
  <2>3. CASE OnlySelfChanges(Welcomed(u))
    <3>1. Registers(Welcomed(u))
      BY <2>1, <2>2, <2>3 DEF Registers, Welcomed, isRegistered, User, UserState, me
    <3>2. QED
      BY <3>1
  <2>4. QED
    BY <2>1, <2>3
<1>3. ASSUME NEW nonEmpty \in BOOLEAN, register_username(nonEmpty)
      PROVE  \E user : Registers(user)
  <2> DEFINE u == [ heap[self] EXCEPT !.username = nonEmpty ]
  <2>1. /\ Executing
        /\ OnlySelfChanges(Welcomed(u))
        /\ heap[self].password = ServerPassword
    BY <1>3 DEF register_username, Unregistered, HasPassword
  <2>2. heap[self] \in User /\ u \in User
    BY <2>1, SelfType DEF User
  <2>3. Registers(Welcomed(u))
    BY <2>1, <2>2 DEF Registers, Welcomed, isRegistered, User, UserState, me
  <2>4. QED
    BY <2>3
<1>4. ASSUME sendQuit
      PROVE  (\E user : Registers(user)) \/ (\E S : Segfault(S))
  <2> DEFINE u == [ heap[self] EXCEPT !.state = "DELETE" ]
  <2>1. /\ Executing /\ Registered
        /\ OnlySelfChanges(u) \/ Segfault(MultimapPointers)
    BY <1>4 DEF sendQuit, Registered
  <2>2. heap[self] \in User /\ u \in User
    BY <2>1, SelfType DEF User, UserState
  <2>3. CASE OnlySelfChanges(u)
    <3>1. Registers(u)
      BY <2>1, <2>2, <2>3 DEF Registers, User, me
    <3>2. QED
      BY <3>1
  <2>4. QED
    BY <2>1, <2>3
<1>5. QED
  BY <1>1, <1>2, <1>3, <1>4

\* JOIN, PART, KICK and MODE end the process or change lists and operator marks.
LEMMA ListSteps ==
    ASSUME TypeOK, NEW c \in Chan,
           \/ sendJoin(c) \/ sendPart(c) \/ sendChannelMsg(c) \/ sendTopic(c)
           \/ \E n \in TargetArg : sendKick(c, n)
           \/ \E n \in TargetArg, mode \in {"+o", "-o"} : sendMode(c, mode, n)
    PROVE  OnlyListsChange \/ (\E S : Segfault(S)) \/ Terminate("pointer")
<1>1. ASSUME sendJoin(c)
      PROVE  OnlyListsChange \/ \E S : Segfault(S)
  <2>1. Executing /\ self \in Addr
    BY <1>1, SelfType DEF sendJoin, Registered
  <2>2. CASE /\ ~ Named(channel_users[c], name, me)
             /\ channel_users' = [ channel_users EXCEPT ![c] = Append(@, self) ]
             /\ heap' = heap \/ heap' = [ heap EXCEPT ![self].nickOP = TRUE ]
             /\ OnlyChannelsChange
    <3>1. \A a \in Addr : heap'[a] = heap[a] \/ heap'[a] = [ heap[a] EXCEPT !.nickOP = TRUE ]
      BY <2>1, <2>2 DEF TypeOK
    <3>2. QED
      BY <2>1, <2>2, <3>1 DEF TypeOK, OnlyListsChange, OnlyChannelsChange
  <2>3. QED
    BY <1>1, <2>2 DEF sendJoin, handleDoubleUserError
<1>2. ASSUME sendPart(c)
      PROVE  OnlyListsChange \/ \E S : Segfault(S)
  BY <1>2 DEF TypeOK, sendPart, OnlyListsChange, OnlyChannelsChange
<1>3. ASSUME NEW n \in TargetArg, sendKick(c, n)
      PROVE  OnlyListsChange \/ \E S : Segfault(S)
  BY <1>3 DEF TypeOK, sendKick, OnlyListsChange, OnlyChannelsChange
<1>4. ASSUME NEW n \in TargetArg, NEW mode \in {"+o", "-o"}, sendMode(c, mode, n)
      PROVE  OnlyListsChange \/ (\E S : Segfault(S)) \/ Terminate("pointer")
  <2> DEFINE target == FirstNamed(channel_users[c], name, n)
             b == (mode = "+o")
  <2>1. CASE /\ heap' = heap \/ heap' = [ heap EXCEPT ![target].nickOP = b ]
             /\ UNCHANGED channel_users
             /\ OnlyChannelsChange
    <3> HIDE DEF target
    <3>1. \A a \in Addr : heap'[a] = heap[a] \/ heap'[a] = [ heap[a] EXCEPT !.nickOP = b ]
      BY <2>1 DEF TypeOK
    <3>2. b \in BOOLEAN
      OBVIOUS
    <3> HIDE DEF b
    <3>3. QED
      BY <2>1, <3>1, <3>2 DEF OnlyListsChange, OnlyChannelsChange
  <2>2. QED
    BY <1>4, <2>1 DEF sendMode
<1>5. QED
  BY <1>1, <1>2, <1>3, <1>4 DEF sendChannelMsg, sendTopic

\* Every step is of one of five kinds.
LEMMA StepKinds ==
    ASSUME TypeOK, [Next]_vars
    PROVE  \/ \E cause \in Cause : Terminate(cause)
           \/ connectNewUser
           \/ \E fd \in DOMAIN users : Disconnected(fd)
           \/ \E user : Registers(user)
           \/ OnlyListsChange
<1>1. \A S : Segfault(S) => \E cause \in Cause : Terminate(cause)
  BY DEF Segfault, Cause
<1>2. \A fd : disconnectUser(fd) => Disconnected(fd) \/ \E cause \in Cause : Terminate(cause)
  BY <1>1 DEF disconnectUser
<1>3. ASSUME UNCHANGED vars \/ \E fd \in DOMAIN users : ReceiveLines(fd)
      PROVE  OnlyListsChange
  BY <1>3 DEF vars, ReceiveLines, OnlyListsChange
<1>4. ASSUME EndOnUser
      PROVE  \/ \E cause \in Cause : Terminate(cause)
             \/ \E fd \in DOMAIN users : Disconnected(fd)
             \/ OnlyListsChange
  <2>1. CASE disconnectUser(current)
    BY <1>2, <1>4, <2>1, SelfType DEF EndOnUser
  <2>2. CASE UNCHANGED << pollfds, users, live, heap, channel_users, channels, status, clean >>
    BY <2>2 DEF OnlyListsChange
  <2>3. QED
    BY <1>4, <2>1, <2>2 DEF EndOnUser
<1>5. ASSUME NEW c \in Chan,
             \/ sendJoin(c) \/ sendPart(c) \/ sendChannelMsg(c) \/ sendTopic(c)
             \/ \E n \in TargetArg : sendKick(c, n)
             \/ \E n \in TargetArg, mode \in {"+o", "-o"} : sendMode(c, mode, n)
      PROVE  OnlyListsChange \/ \E cause \in Cause : Terminate(cause)
  BY <1>1, <1>5, ListSteps DEF Cause
<1>6. ASSUME sendFile \/ MissingParameter
      PROVE  \E cause \in Cause : Terminate(cause)
  BY <1>1, <1>6 DEF sendFile, MissingParameter, Cause
<1>7. QED
  BY <1>1, <1>2, <1>3, <1>4, <1>5, <1>6, RegistrationSteps DEF Next, ReceiveEof

-----------------------------------------------------------------------------
(***************************************************************************)
(* The tables of connections.                                              *)
(***************************************************************************)

\* Two descriptors never lead to the same User: he knows only one of them.
LEMMA UsersInjective ==
    ASSUME FdTablesAgree, NEW f \in DOMAIN users, NEW g \in DOMAIN users, f # g
    PROVE  users[f] # users[g]
BY DEF FdTablesAgree

\* With the process all connections end together.
LEMMA TerminateTables == \A cause : Terminate(cause) => FdTablesAgree'
<1>1. ToSet(<< >>) = {} /\ IsInjective(<< >>)
  BY DEF ToSet, IsInjective
<1>2. DOMAIN NoUsers = {}
  BY DEF NoUsers
<1>3. QED
  BY <1>1, <1>2 DEF Terminate, FdTablesAgree

\* connectNewUser enters the connection in all four tables.
LEMMA ConnectTables ==
    ASSUME TypeOK, FdTablesAgree, connectNewUser
    PROVE  FdTablesAgree'
<1>1. PICK fd \in Fd \ DOMAIN users, a \in Addr \ live :
        /\ pollfds' = Append(pollfds, fd)
        /\ users' = [ f \in DOMAIN users \cup {fd} |-> IF f = fd THEN a ELSE users[f] ]
        /\ live' = live \cup {a}
        /\ heap' = [ heap EXCEPT ![a] = NewUser(fd) ]
  BY DEF connectNewUser
<1>2. DOMAIN users' = DOMAIN users \cup {fd}
  BY <1>1
<1>3. ToSet(pollfds') = DOMAIN users' /\ IsInjective(pollfds')
  BY <1>1, <1>2, AppendElements DEF TypeOK, FdTablesAgree
<1>4. ASSUME NEW f \in DOMAIN users'
      PROVE  heap'[users'[f]].fd = f
  <2>1. CASE f = fd
    BY <1>1, <1>2, <2>1 DEF TypeOK, NewUser
  <2>2. CASE f # fd
    <3>1. f \in DOMAIN users /\ users'[f] = users[f] /\ users[f] \in live
      BY <1>1, <1>2, <1>4, <2>2 DEF FdTablesAgree
    <3>2. heap'[users[f]] = heap[users[f]]
      BY <1>1, <3>1 DEF TypeOK
    <3>3. QED
      BY <3>1, <3>2 DEF FdTablesAgree
  <2>3. QED
    BY <2>1, <2>2
<1>5. live' = { users'[f] : f \in DOMAIN users' }
  <2>1. \A f \in DOMAIN users : users'[f] = users[f]
    BY <1>1
  <2>2. users'[fd] = a
    BY <1>1
  <2>3. live = { users[f] : f \in DOMAIN users }
    BY DEF FdTablesAgree
  <2>4. \A x : x \in live' <=> \E f \in DOMAIN users' : x = users'[f]
    BY <1>1, <1>2, <2>1, <2>2, <2>3
  <2>5. QED
    BY <2>4
<1>6. QED
  BY <1>3, <1>4, <1>5 DEF FdTablesAgree

\* A disconnect leaves the Users of the others as they are.
LEMMA DisconnectedFrame ==
    ASSUME TypeOK, FdTablesAgree, NEW fd \in DOMAIN users, Disconnected(fd)
    PROVE  /\ DOMAIN users' = DOMAIN users \ {fd}
           /\ \A f \in DOMAIN users' : /\ users'[f] = users[f]
                                      /\ users[f] # users[fd]
                                      /\ heap'[users[f]] = heap[users[f]]
<1>1. /\ DOMAIN users' = DOMAIN users \ {fd}
      /\ \A f \in DOMAIN users' : users'[f] = users[f]
  BY DEF Disconnected
<1>2. \A f \in DOMAIN users' : users[f] # users[fd] /\ users[f] \in Addr
  BY <1>1, UsersInjective DEF TypeOK
<1>3. \A x \in Addr \ {users[fd]} : heap'[x] = heap[x]
  BY DEF Disconnected, TypeOK
<1>4. QED
  BY <1>1, <1>2, <1>3

\* disconnectUser takes the connection out of all four tables.
LEMMA DisconnectedTables ==
    ASSUME TypeOK, FdTablesAgree, NEW fd \in DOMAIN users, Disconnected(fd)
    PROVE  FdTablesAgree'
<1>1. ToSet(pollfds') = DOMAIN users' /\ IsInjective(pollfds')
  BY RemoveFirstProperties, DisconnectedFrame DEF TypeOK, FdTablesAgree, Disconnected, WithoutPollfd
<1>2. ASSUME NEW f \in DOMAIN users'
      PROVE  heap'[users'[f]].fd = f
  <2>1. f \in DOMAIN users /\ heap[users[f]].fd = f
    BY DisconnectedFrame DEF FdTablesAgree
  <2>2. heap'[users'[f]] = heap[users[f]]
    BY DisconnectedFrame
  <2>3. QED
    BY <2>1, <2>2
<1>3. live' = { users'[f] : f \in DOMAIN users' }
  <2>1. live' = { users[f] : f \in DOMAIN users } \ {users[fd]}
    BY DEF Disconnected, FdTablesAgree
  <2>2. ASSUME NEW x \in live'
        PROVE  \E f \in DOMAIN users' : x = users'[f]
    <3>1. PICK f \in DOMAIN users : x = users[f] /\ x # users[fd]
      BY <2>1, <2>2
    <3>2. f \in DOMAIN users'
      BY <3>1, DisconnectedFrame
    <3>3. QED
      BY <3>1, <3>2, DisconnectedFrame
  <2>3. ASSUME NEW f \in DOMAIN users'
        PROVE  users'[f] \in live'
    <3>1. f \in DOMAIN users /\ users'[f] = users[f] /\ users[f] # users[fd]
      BY DisconnectedFrame
    <3>2. QED
      BY <2>1, <3>1
  <2>4. QED
    BY <2>2, <2>3
<1>4. QED
  BY <1>1, <1>2, <1>3 DEF FdTablesAgree

\* A client who registers changes nobody else's User.
LEMMA RegistersFrame ==
    ASSUME TypeOK, FdTablesAgree, NEW user, Registers(user)
    PROVE  /\ users' = users /\ live' = live /\ pollfds' = pollfds
           /\ current \in DOMAIN users /\ self = users[current]
           /\ heap'[self] = user
           /\ \A f \in DOMAIN users \ {current} : heap'[users[f]] = heap[users[f]]
           /\ \A a \in Addr \ {self} : heap'[a] = heap[a]
<1>1. current \in DOMAIN users /\ self = users[current] /\ self \in Addr
  BY SelfType DEF Registers, self
<1>2. heap' = [ heap EXCEPT ![self] = user ] /\ UNCHANGED << pollfds, users, live >>
  BY DEF Registers, OnlySelfChanges
<1>3. \A f \in DOMAIN users \ {current} : users[f] # self /\ users[f] \in Addr
  BY <1>1, UsersInjective DEF TypeOK
<1>4. QED
  BY <1>1, <1>2, <1>3 DEF TypeOK

\* A client who registers keeps his descriptor.
LEMMA RegistersTables ==
    ASSUME TypeOK, FdTablesAgree, NEW user, Registers(user)
    PROVE  FdTablesAgree'
<1>1. user.fd = heap[self].fd
  BY DEF Registers
<1>2. QED
  BY <1>1, RegistersFrame DEF FdTablesAgree

\* A step that changes only lists leaves every User as he is, operator mark aside.
LEMMA ListsFrame ==
    ASSUME TypeOK, OnlyListsChange
    PROVE  \A a \in Addr : /\ heap'[a].fd = heap[a].fd
                          /\ heap'[a].nickname = heap[a].nickname
                          /\ heap'[a].username = heap[a].username
                          /\ heap'[a].state = heap[a].state
                          /\ heap'[a].password = heap[a].password
<1>1. ASSUME NEW a \in Addr
      PROVE  heap[a] \in User /\ (heap'[a] = heap[a] \/ \E b \in BOOLEAN : heap'[a] = [ heap[a] EXCEPT !.nickOP = b ])
  BY DEF TypeOK, OnlyListsChange
<1>2. QED
  BY <1>1 DEF User

\* A change of lists leaves the tables of connections alone.
LEMMA ListsTables ==
    ASSUME TypeOK, FdTablesAgree, OnlyListsChange
    PROVE  FdTablesAgree'
<1>1. users' = users /\ live' = live /\ pollfds' = pollfds
  BY DEF OnlyListsChange
<1>2. \A f \in DOMAIN users : users[f] \in Addr
  BY DEF TypeOK
<1>3. QED
  BY <1>1, <1>2, ListsFrame DEF FdTablesAgree

\* FdTablesAgree is inductive.
LEMMA NextTables ==
    ASSUME TypeOK, FdTablesAgree, [Next]_vars
    PROVE  FdTablesAgree'
BY StepKinds, TerminateTables, ConnectTables, DisconnectedTables, RegistersTables, ListsTables

\* Without connections the tables agree.
LEMMA InitTables == Init => FdTablesAgree
<1>1. ToSet(<< >>) = {} /\ IsInjective(<< >>)
  BY DEF ToSet, IsInjective
<1>2. DOMAIN NoUsers = {}
  BY DEF NoUsers
<1>3. QED
  BY <1>1, <1>2 DEF Init, FdTablesAgree

\* The polled descriptors, the map of users and the allocated Users describe the
\* same connections at every moment, so Server::run never looks up a descriptor
\* that _users lacks and never calls a method of a deleted User through _users.
THEOREM TablesAgree == Spec => []FdTablesAgree
<1>1. TypeOK /\ FdTablesAgree /\ [Next]_vars => FdTablesAgree'
  BY NextTables
<1>2. QED
  BY InitTables, TypeCorrect, <1>1, PTL DEF Spec

-----------------------------------------------------------------------------
(***************************************************************************)
(* Nicknames.                                                              *)
(***************************************************************************)

\* A new connection has no nickname yet.
LEMMA ConnectNicknames ==
    ASSUME TypeOK, FdTablesAgree, NicknamesUnique, connectNewUser
    PROVE  NicknamesUnique'
<1>1. PICK fd \in Fd \ DOMAIN users, a \in Addr \ live :
        /\ users' = [ f \in DOMAIN users \cup {fd} |-> IF f = fd THEN a ELSE users[f] ]
        /\ heap' = [ heap EXCEPT ![a] = NewUser(fd) ]
  BY DEF connectNewUser
<1>2. DOMAIN users' = DOMAIN users \cup {fd}
  BY <1>1
<1>3. heap'[users'[fd]].nickname = NoNick
  BY <1>1 DEF TypeOK, NewUser
<1>4. ASSUME NEW f \in DOMAIN users
      PROVE  heap'[users'[f]] = heap[users[f]]
  <2>1. users'[f] = users[f] /\ users[f] \in live /\ users[f] \in Addr
    BY <1>1 DEF FdTablesAgree, TypeOK
  <2>2. QED
    BY <1>1, <2>1 DEF TypeOK
<1>5. QED
  BY <1>2, <1>3, <1>4 DEF NicknamesUnique

\* A disconnect gives nobody a nickname.
LEMMA DisconnectedNicknames ==
    ASSUME TypeOK, FdTablesAgree, NicknamesUnique, NEW fd \in DOMAIN users, Disconnected(fd)
    PROVE  NicknamesUnique'
<1>1. SUFFICES ASSUME NEW f \in DOMAIN users', NEW g \in DOMAIN users', f # g,
                      heap'[users'[f]].nickname # NoNick
               PROVE  heap'[users'[f]].nickname # heap'[users'[g]].nickname
  BY DEF NicknamesUnique
<1>2. /\ f \in DOMAIN users /\ heap'[users'[f]] = heap[users[f]]
      /\ g \in DOMAIN users /\ heap'[users'[g]] = heap[users[g]]
  BY DisconnectedFrame
<1>3. QED
  BY <1>1, <1>2 DEF NicknamesUnique

\* The free-nickname check covers every connection, so the one client who changes
\* his nickname differs from all others afterwards.
LEMMA RegistersNicknames ==
    ASSUME TypeOK, FdTablesAgree, NicknamesUnique, NEW user, Registers(user)
    PROVE  NicknamesUnique'
<1>1. SUFFICES ASSUME NEW f \in DOMAIN users, NEW g \in DOMAIN users, f # g,
                      heap'[users[f]].nickname # NoNick
               PROVE  heap'[users[f]].nickname # heap'[users[g]].nickname
  BY RegistersFrame DEF NicknamesUnique
<1>2. \A h \in DOMAIN users \ {current} : heap'[users[h]] = heap[users[h]]
  BY RegistersFrame
<1>3. heap'[users[current]] = user /\ current \in DOMAIN users /\ me = heap[users[current]].nickname
  BY RegistersFrame DEF me
<1>4. user.nickname = me \/ \A h \in DOMAIN users : heap[users[h]].nickname # user.nickname
  BY DEF Registers, check_free_nickname
<1>5. CASE f # current /\ g # current
  BY <1>1, <1>2, <1>5 DEF NicknamesUnique
<1>6. CASE f = current
  BY <1>1, <1>2, <1>3, <1>4, <1>6 DEF NicknamesUnique
<1>7. CASE g = current
  BY <1>1, <1>2, <1>3, <1>4, <1>7 DEF NicknamesUnique
<1>8. QED
  BY <1>5, <1>6, <1>7

\* NicknamesUnique is inductive, given the types and FdTablesAgree.
LEMMA NextNicknames ==
    ASSUME TypeOK, FdTablesAgree, NicknamesUnique, [Next]_vars
    PROVE  NicknamesUnique'
<1>1. ASSUME NEW cause, Terminate(cause)
      PROVE  NicknamesUnique'
  BY <1>1 DEF Terminate, NoUsers, NicknamesUnique
<1>2. ASSUME OnlyListsChange
      PROVE  NicknamesUnique'
  <2>1. users' = users /\ \A f \in DOMAIN users : users[f] \in Addr
    BY <1>2 DEF OnlyListsChange, TypeOK
  <2>2. \A f \in DOMAIN users : heap'[users[f]].nickname = heap[users[f]].nickname
    BY <1>2, <2>1, ListsFrame
  <2>3. QED
    BY <2>1, <2>2 DEF NicknamesUnique
<1>3. QED
  BY <1>1, <1>2, StepKinds, ConnectNicknames, DisconnectedNicknames, RegistersNicknames

\* Two connected clients never hold the same non-empty nickname.
THEOREM NicknamesAreUnique == Spec => []NicknamesUnique
<1>1. Init => NicknamesUnique
  BY DEF Init, NoUsers, NicknamesUnique
<1>2. TypeOK /\ FdTablesAgree /\ NicknamesUnique /\ [Next]_vars => NicknamesUnique'
  BY NextNicknames
<1>3. QED
  BY TypeCorrect, TablesAgree, <1>1, <1>2, PTL DEF Spec

-----------------------------------------------------------------------------
(***************************************************************************)
(* The password.                                                           *)
(***************************************************************************)

\* What NothingBeforePassword says of one User.
Entitled(user) ==
    /\ user.nickname # NoNick \/ user.username \/ user.state # "CONNECTED"
         => user.password = ServerPassword
    /\ isRegistered(user) => user.state # "CONNECTED"

\* NothingBeforePassword is inductive, given the types and FdTablesAgree.
LEMMA NextEntitled ==
    ASSUME TypeOK, FdTablesAgree, NothingBeforePassword, [Next]_vars
    PROVE  NothingBeforePassword'
<1>1. \A a \in live : a \in Addr /\ heap[a] \in User /\ Entitled(heap[a])
  BY DEF NothingBeforePassword, Entitled, TypeOK
<1>2. SUFFICES ASSUME NEW a \in live'
               PROVE  Entitled(heap'[a])
  BY DEF NothingBeforePassword, Entitled
<1>3. ASSUME NEW cause, Terminate(cause)
      PROVE  FALSE
  BY <1>3 DEF Terminate
<1>4. CASE connectNewUser
  <2>1. PICK fd \in Fd, b \in Addr \ live :
          live' = live \cup {b} /\ heap' = [ heap EXCEPT ![b] = NewUser(fd) ]
    BY <1>4 DEF connectNewUser
  <2>2. Entitled(NewUser(fd))
    BY DEF Entitled, NewUser, isRegistered
  <2>3. QED
    BY <1>1, <2>1, <2>2 DEF TypeOK
<1>5. ASSUME NEW fd \in DOMAIN users, Disconnected(fd)
      PROVE  Entitled(heap'[a])
  <2>1. a \in live /\ a # users[fd]
    BY <1>5 DEF Disconnected
  <2>2. heap'[a] = heap[a]
    BY <1>1, <1>5, <2>1 DEF Disconnected, TypeOK
  <2>3. QED
    BY <1>1, <2>1, <2>2
<1>6. ASSUME NEW user, Registers(user)
      PROVE  Entitled(heap'[a])
  <2>1. a \in live
    BY <1>6, RegistersFrame
  <2>2. CASE a # self
    BY <1>1, <1>6, <2>1, <2>2, RegistersFrame
  <2>3. CASE a = self
    <3>1. heap'[a] = user
      BY <1>6, <2>3, RegistersFrame
    <3>2. CASE user.password = ServerPassword /\ (isRegistered(user) => user.state # "CONNECTED")
      BY <3>1, <3>2 DEF Entitled
    <3>3. CASE user = [ heap[self] EXCEPT !.state = "DELETE" ] /\ Registered
      BY <1>1, <2>1, <2>3, <3>1, <3>3 DEF Entitled, Registered, isRegistered, User
    <3>4. QED
      BY <1>6, <3>2, <3>3 DEF Registers
  <2>4. QED
    BY <2>2, <2>3
<1>7. CASE OnlyListsChange
  <2>1. a \in live /\ a \in Addr
    BY <1>1, <1>7 DEF OnlyListsChange
  <2>2. QED
    BY <1>1, <1>7, <2>1, ListsFrame DEF Entitled, isRegistered
<1>8. QED
  BY <1>3, <1>4, <1>5, <1>6, <1>7, StepKinds

\* Without the server's password a client gets no nickname, no user name, no
\* welcome and no QUIT, and who is registered has been welcomed.
THEOREM PasswordFirst == Spec => []NothingBeforePassword
<1>1. Init => NothingBeforePassword
  BY DEF Init, NothingBeforePassword
<1>2. TypeOK /\ FdTablesAgree /\ NothingBeforePassword /\ [Next]_vars => NothingBeforePassword'
  BY NextEntitled
<1>3. QED
  BY TypeCorrect, TablesAgree, <1>1, <1>2, PTL DEF Spec

-----------------------------------------------------------------------------
(***************************************************************************)
(* The entries of the multimap.                                            *)
(***************************************************************************)

\* EntriesUnique is inductive, given the types.
LEMMA NextEntries ==
    ASSUME TypeOK, EntriesUnique, [Next]_vars
    PROVE  EntriesUnique'
<1>1. \A c \in Chan : channel_users[c] \in Seq(Addr) /\ IsInjective(channel_users[c])
  BY DEF TypeOK, EntriesUnique
<1>2. \A c \in Chan : \A n : IsInjective(EraseNamed(channel_users[c], name, n))
  BY <1>1, EraseNamedProperties
<1>3. ASSUME NEW cause, Terminate(cause)
      PROVE  EntriesUnique'
  BY <1>3 DEF Terminate, NoEntries, EntriesUnique, IsInjective
<1>4. ASSUME connectNewUser \/ \E user : Registers(user)
      PROVE  EntriesUnique'
  BY <1>4 DEF connectNewUser, Registers, OnlySelfChanges, EntriesUnique
<1>5. ASSUME NEW fd \in DOMAIN users, Disconnected(fd)
      PROVE  EntriesUnique'
  BY <1>1, <1>2, <1>5 DEF Disconnected, EntriesUnique
<1>6. ASSUME OnlyListsChange, NEW c \in Chan
      PROVE  IsInjective(channel_users'[c])
  <2>1. CASE channel_users'[c] = channel_users[c] \/ \E n : channel_users'[c] = EraseNamed(channel_users[c], name, n)
    BY <1>1, <1>2, <2>1
  <2>2. CASE /\ Executing
             /\ ~ Named(channel_users[c], name, me)
             /\ channel_users'[c] = Append(channel_users[c], self)
    <3>1. self \in Addr /\ name[self] = me
      BY <2>2, SelfType DEF name, me
    <3>2. self \notin ToSet(channel_users[c])
      BY <2>2, <3>1 DEF Named, ToSet
    <3>3. QED
      BY <1>1, <2>2, <3>1, <3>2, AppendElements
  <2>3. QED
    BY <1>6, <2>1, <2>2 DEF OnlyListsChange
<1>7. QED
  BY <1>3, <1>4, <1>5, <1>6, StepKinds DEF EntriesUnique

\* No pointer is listed twice under a channel's key, dangling or not.
THEOREM EntriesAreUnique == Spec => []EntriesUnique
<1>1. Init => EntriesUnique
  BY DEF Init, NoEntries, EntriesUnique, IsInjective
<1>2. TypeOK /\ EntriesUnique /\ [Next]_vars => EntriesUnique'
  BY NextEntries
<1>3. QED
  BY TypeCorrect, <1>1, <1>2, PTL DEF Spec
=============================================================================
