--------------------------- MODULE SessionsProofs ---------------------------
(***************************************************************************)
(* The server implements the registry of sessions (Sessions.tla), for any  *)
(* number of addresses, descriptors, nicknames and channels.               *)
(***************************************************************************)
EXTENDS IrcServerProofs

-----------------------------------------------------------------------------
(* The table of sessions, read off _users and the heap.                    *)

\* The sessions are those of the connected descriptors.
LEMMA TableEntries ==
    /\ DOMAIN SessionTable = DOMAIN users
    /\ \A fd \in DOMAIN users : SessionTable[fd] = SessionOf(heap[users[fd]])
BY DEF SessionTable

\* The welcome of a User is the welcome of his session.
LEMMA SessionOfWelcomed ==
    ASSUME NEW user \in User
    PROVE  /\ SessionOf(Welcomed(user)) = Registry!Welcomed(SessionOf(user))
           /\ isRegistered(user) <=> Registry!IsRegistered(SessionOf(user))
<1>1. isRegistered(user) <=> Registry!IsRegistered(SessionOf(user))
  BY DEF isRegistered, Registry!IsRegistered, SessionOf
<1>2. SessionOf([ user EXCEPT !.state = "ONLINE" ]) = [ SessionOf(user) EXCEPT !.state = "ONLINE" ]
  BY DEF SessionOf, User
<1>3. QED
  BY <1>1, <1>2 DEF Welcomed, Registry!Welcomed, SessionOf

\* The end of the process, which only a connected client brings about, ends all
\* sessions.
LEMMA TerminateIsCrash ==
    ASSUME status = "up", DOMAIN users # {}, NEW cause \in Cause, Terminate(cause)
    PROVE  Registry!Crash
<1>1. users' = NoUsers /\ current' = NoFd /\ status' # "up"
  BY DEF Terminate, Cause
<1>2. SessionTable' = [ fd \in {} |-> Registry!NewSession ]
  BY <1>1 DEF SessionTable, NoUsers
<1>3. QED
  BY <1>1, <1>2, TableEntries DEF Registry!Crash, Registry!NoFd, NoFd

\* A new connection is a new session.
LEMMA ConnectIsOpen ==
    ASSUME TypeOK, FdTablesAgree, connectNewUser
    PROVE  Registry!Open
<1>1. PICK fd \in Fd \ DOMAIN users, a \in Addr \ live :
        /\ \A f \in Fd \ DOMAIN users : fd <= f
        /\ users' = [ f \in DOMAIN users \cup {fd} |-> IF f = fd THEN a ELSE users[f] ]
        /\ heap' = [ heap EXCEPT ![a] = NewUser(fd) ]
  BY DEF connectNewUser
<1>2. status = "up" /\ current = NoFd /\ UNCHANGED << current, status >>
  BY DEF connectNewUser
<1>3. heap'[a] = NewUser(fd) /\ \A f \in DOMAIN users : heap'[users[f]] = heap[users[f]]
  BY <1>1 DEF TypeOK, FdTablesAgree
<1>4. SessionOf(NewUser(fd)) = Registry!NewSession
  BY DEF SessionOf, NewUser, Registry!NewSession
<1>5. SessionTable' = [ f \in DOMAIN SessionTable \cup {fd} |->
                          IF f = fd THEN Registry!NewSession ELSE SessionTable[f] ]
  BY <1>1, <1>3, <1>4 DEF SessionTable
<1>6. QED
  BY <1>1, <1>2, <1>5, TableEntries DEF Registry!Open, Registry!NoFd, NoFd

\* A disconnect ends this session and leaves the others.
LEMMA DisconnectedIsWithout ==
    ASSUME TypeOK, FdTablesAgree, NEW fd \in DOMAIN users, Disconnected(fd)
    PROVE  /\ SessionTable' = Registry!Without(fd)
           /\ current' = NoFd /\ status' = status
<1>1. SessionTable' = [ f \in DOMAIN SessionTable \ {fd} |-> SessionTable[f] ]
  BY DisconnectedFrame DEF SessionTable
<1>2. QED
  BY <1>1 DEF Registry!Without, Disconnected

\* A client who changes his own record changes his own session.
LEMMA OnlySelfIsBecomes ==
    ASSUME TypeOK, FdTablesAgree, Executing, NEW user \in User, OnlySelfChanges(user)
    PROVE  Registry!Becomes(SessionOf(user))
<1>1. current \in DOMAIN users /\ self = users[current] /\ self \in Addr
  BY SelfType DEF self
<1>2. heap' = [ heap EXCEPT ![self] = user ] /\ UNCHANGED << users, current, status >>
  BY DEF OnlySelfChanges
<1>3. \A f \in DOMAIN users \ {current} : users[f] # self /\ users[f] \in Addr
  BY <1>1, UsersInjective DEF TypeOK
<1>4. \A f \in DOMAIN users : heap'[users[f]] = IF f = current THEN user ELSE heap[users[f]]
  BY <1>1, <1>2, <1>3 DEF TypeOK
<1>5. SessionTable' = [ SessionTable EXCEPT ![current] = SessionOf(user) ]
  <2>1. \A f \in DOMAIN users : SessionOf(heap'[users[f]]) =
          IF f = current THEN SessionOf(user) ELSE SessionOf(heap[users[f]])
    BY <1>4
  <2>2. SessionTable' = [ f \in DOMAIN users |-> SessionOf(heap'[users[f]]) ]
    BY <1>2 DEF SessionTable
  <2>3. SessionTable' = [ f \in DOMAIN users |->
          IF f = current THEN SessionOf(user) ELSE SessionOf(heap[users[f]]) ]
    BY <2>1, <2>2
  <2>4. QED
    BY <1>1, <2>3 DEF SessionTable
<1>6. QED
  BY <1>2, <1>5 DEF Registry!Becomes

\* Lists and operator marks are no part of a session.
LEMMA ListsKeepSessions ==
    ASSUME TypeOK, OnlyListsChange
    PROVE  SessionTable' = SessionTable
<1>1. \A fd \in DOMAIN users : users[fd] \in Addr
  BY DEF TypeOK
<1>2. ASSUME NEW a \in Addr
      PROVE  SessionOf(heap'[a]) = SessionOf(heap[a])
  <2>1. heap[a] \in User
    BY DEF TypeOK
  <2>2. \A b : SessionOf([ heap[a] EXCEPT !.nickOP = b ]) = SessionOf(heap[a])
    BY <2>1 DEF SessionOf, User
  <2>3. QED
    BY <2>2 DEF OnlyListsChange
<1>3. users' = users
  BY DEF OnlyListsChange
<1>4. QED
  BY <1>1, <1>2, <1>3 DEF SessionTable

-----------------------------------------------------------------------------
(* The steps.                                                              *)

\* The client's session, as the registry sees it.
LEMMA MineIsSelf ==
    ASSUME TypeOK, Executing
    PROVE  /\ Registry!Serving /\ Registry!Mine = SessionOf(heap[self])
           /\ heap[self] \in User
           /\ Registry!Mine.password <=> heap[self].password = ServerPassword
<1>1. current \in DOMAIN users /\ heap[self] \in User
  BY SelfType
<1>2. Registry!Serving /\ Registry!Mine = SessionOf(heap[self])
  BY <1>1, TableEntries DEF Registry!Serving, Registry!Mine, Registry!NoFd, NoFd, Executing, self
<1>3. SessionOf(heap[self]).password = (heap[self].password = ServerPassword)
  BY Zenon DEF SessionOf
<1>4. Registry!Mine.password <=> heap[self].password = ServerPassword
  BY <1>2, <1>3, Zenon
<1>5. QED
  BY <1>1, <1>2, <1>4

\* PASS, NICK, USER and QUIT are steps of the registry.
LEMMA RegistrationRefines ==
    ASSUME TypeOK, FdTablesAgree,
           \/ \E pw \in Password : register_pass(pw)
           \/ \E n \in NickArg : register_nickname(n)
           \/ \E nonEmpty \in BOOLEAN : register_username(nonEmpty)
           \/ sendQuit
    PROVE  Registry!Next
<1>1. ASSUME NEW pw \in Password, register_pass(pw)
      PROVE  Registry!Authenticate
  <2> DEFINE u == [ heap[self] EXCEPT !.password = pw ]
  <2>1. /\ Executing /\ OnlySelfChanges(Welcomed(u))
        /\ pw = ServerPassword /\ heap[self].password # ServerPassword
    BY <1>1 DEF register_pass, Unregistered
  <2>2. heap[self] \in User /\ u \in User /\ Welcomed(u) \in User
    BY <2>1, SelfType, WelcomedType DEF User
  <2>3. SessionOf(u) = [ SessionOf(heap[self]) EXCEPT !.password = TRUE ]
    <3>1. /\ u.password = ServerPassword
          /\ u.nickname = heap[self].nickname
          /\ u.username = heap[self].username
          /\ u.state = heap[self].state
      BY <2>1, <2>2 DEF User
    <3>2. (u.password = ServerPassword) = TRUE
      BY <3>1
    <3>3. SessionOf(u) = [ password |-> TRUE, nickname |-> heap[self].nickname,
                           username |-> heap[self].username, state |-> heap[self].state ]
      <4> HIDE DEF u
      <4> QED
        BY <3>1, <3>2, Zenon DEF SessionOf
    <3>4. [ SessionOf(heap[self]) EXCEPT !.password = TRUE ] =
            [ password |-> TRUE, nickname |-> heap[self].nickname,
              username |-> heap[self].username, state |-> heap[self].state ]
      <4> DEFINE p == heap[self].password = ServerPassword
      <4>1. SessionOf(heap[self]) =
              [ password |-> p, nickname |-> heap[self].nickname,
                username |-> heap[self].username, state |-> heap[self].state ]
        BY Zenon DEF SessionOf
      <4> HIDE DEF p
      <4>2. \A q : [ SessionOf(heap[self]) EXCEPT !.password = q ] =
              [ password |-> q, nickname |-> heap[self].nickname,
                username |-> heap[self].username, state |-> heap[self].state ]
        BY <4>1
      <4>3. QED
        BY <4>2, Zenon
    <3>5. QED
      BY <3>3, <3>4
  <2>4. Registry!Becomes(Registry!Welcomed([ Registry!Mine EXCEPT !.password = TRUE ]))
    BY <2>1, <2>2, <2>3, OnlySelfIsBecomes, SessionOfWelcomed, MineIsSelf
  <2>5. ~ Registry!Mine.password
    BY <2>1, MineIsSelf
  <2>6. QED
    BY <2>1, <2>4, <2>5, MineIsSelf DEF Registry!Authenticate
<1>2. ASSUME NEW n \in NickArg, register_nickname(n)
      PROVE  Registry!TakeNick(n) \/ Registry!Crash
  <2> DEFINE u == [ heap[self] EXCEPT !.nickname = n ]
  <2>1. /\ Executing
        /\ heap[self].password = ServerPassword
        /\ check_free_nickname(n)
        /\ OnlySelfChanges(Welcomed(u)) \/ Segfault(MultimapPointers)
    BY <1>2 DEF register_nickname, HasPassword
  <2>2. heap[self] \in User /\ u \in User /\ Welcomed(u) \in User
    BY <2>1, SelfType, ArgAssumption, WelcomedType DEF User
  <2>3. CASE OnlySelfChanges(Welcomed(u))
    <3>1. SessionOf(u) = [ SessionOf(heap[self]) EXCEPT !.nickname = n ]
      BY <2>2 DEF SessionOf, User
    <3>2. Registry!Becomes(Registry!Welcomed([ Registry!Mine EXCEPT !.nickname = n ]))
      BY <2>1, <2>2, <2>3, <3>1, OnlySelfIsBecomes, SessionOfWelcomed, MineIsSelf
    <3>3. Registry!Mine.password
      BY <2>1, MineIsSelf
    <3>4. \A fd \in DOMAIN SessionTable : SessionTable[fd].nickname # n
      BY <2>1, TableEntries DEF check_free_nickname, SessionOf
    <3>5. QED
      BY <2>1, <3>2, <3>3, <3>4, MineIsSelf DEF Registry!TakeNick
  <2>4. CASE Segfault(MultimapPointers)
    BY <2>1, <2>4, SelfType, TerminateIsCrash DEF Segfault, Cause, Executing
  <2>5. QED
    BY <2>1, <2>3, <2>4
<1>3. ASSUME NEW nonEmpty \in BOOLEAN, register_username(nonEmpty)
      PROVE  Registry!TakeUsername(nonEmpty)
  <2> DEFINE u == [ heap[self] EXCEPT !.username = nonEmpty ]
  <2>1. /\ Executing /\ ~ isRegistered(heap[self])
        /\ OnlySelfChanges(Welcomed(u))
        /\ heap[self].password = ServerPassword
    BY <1>3 DEF register_username, Unregistered, HasPassword
  <2>2. heap[self] \in User /\ u \in User /\ Welcomed(u) \in User
    BY <2>1, SelfType, WelcomedType DEF User
  <2>3. SessionOf(u) = [ SessionOf(heap[self]) EXCEPT !.username = nonEmpty ]
    BY <2>2 DEF SessionOf, User
  <2>4. Registry!Becomes(Registry!Welcomed([ Registry!Mine EXCEPT !.username = nonEmpty ]))
    BY <2>1, <2>2, <2>3, OnlySelfIsBecomes, SessionOfWelcomed, MineIsSelf
  <2>5. Registry!Mine.password
    BY <2>1, MineIsSelf
  <2>6. ~ Registry!IsRegistered(Registry!Mine)
    BY <2>1, <2>2, MineIsSelf, SessionOfWelcomed
  <2>7. QED
    BY <2>1, <2>4, <2>5, <2>6, MineIsSelf DEF Registry!TakeUsername
<1>4. ASSUME sendQuit
      PROVE  Registry!Quit \/ Registry!Crash
  <2> DEFINE u == [ heap[self] EXCEPT !.state = "DELETE" ]
  <2>1. /\ Executing /\ isRegistered(heap[self])
        /\ OnlySelfChanges(u) \/ Segfault(MultimapPointers)
    BY <1>4 DEF sendQuit, Registered
  <2>2. heap[self] \in User /\ u \in User
    BY <2>1, SelfType DEF User, UserState
  <2>3. CASE OnlySelfChanges(u)
    <3>1. SessionOf(u) = [ SessionOf(heap[self]) EXCEPT !.state = "DELETE" ]
      BY <2>2 DEF SessionOf, User
    <3>2. Registry!Becomes([ Registry!Mine EXCEPT !.state = "DELETE" ])
      BY <2>1, <2>2, <2>3, <3>1, OnlySelfIsBecomes, MineIsSelf
    <3>3. Registry!IsRegistered(Registry!Mine)
      BY <2>1, <2>2, MineIsSelf, SessionOfWelcomed
    <3>4. QED
      BY <2>1, <3>2, <3>3, MineIsSelf DEF Registry!Quit
  <2>4. CASE Segfault(MultimapPointers)
    BY <2>1, <2>4, SelfType, TerminateIsCrash DEF Segfault, Cause, Executing
  <2>5. QED
    BY <2>1, <2>3, <2>4
<1>5. QED
  <2>1. \A n \in NickArg : n \in Nick \cup {NoNick}
    BY ArgAssumption DEF AnyNick
  <2>2. QED
    BY <1>1, <1>2, <1>3, <1>4, <2>1 DEF Registry!Next

\* JOIN, PART, KICK, MODE and the commands that only send change no session, or end
\* the process.
LEMMA ListStepsRefine ==
    ASSUME TypeOK, FdTablesAgree, NEW c \in Chan,
           \/ sendJoin(c) \/ sendPart(c) \/ sendChannelMsg(c) \/ sendTopic(c)
           \/ \E n \in TargetArg : sendKick(c, n)
           \/ \E n \in TargetArg, mode \in {"+o", "-o"} : sendMode(c, mode, n)
    PROVE  Registry!Crash \/ UNCHANGED << SessionTable, current, status >>
<1>1. Executing
  BY DEF sendJoin, sendPart, sendChannelMsg, sendTopic, sendKick, sendMode, Registered
<1>2. \/ UNCHANGED << current, status >>
      \/ \E S : Segfault(S)
      \/ Terminate("pointer")
  <2>1. CASE sendJoin(c)
    BY <2>1 DEF sendJoin, OnlyChannelsChange
  <2>2. CASE sendPart(c) \/ sendChannelMsg(c) \/ sendTopic(c)
    BY <2>2 DEF sendPart, sendChannelMsg, sendTopic, OnlyChannelsChange
  <2>3. CASE \E n \in TargetArg : sendKick(c, n)
    BY <2>3 DEF sendKick, OnlyChannelsChange
  <2>4. CASE \E n \in TargetArg, mode \in {"+o", "-o"} : sendMode(c, mode, n)
    BY <2>4 DEF sendMode, OnlyChannelsChange
  <2>5. QED
    BY <2>1, <2>2, <2>3, <2>4
<1>3. CASE status' = "up"
  <2>1. UNCHANGED << current, status >> /\ OnlyListsChange
    BY <1>2, <1>3, ListSteps DEF Segfault, Terminate
  <2>2. QED
    BY <2>1, ListsKeepSessions
<1>4. CASE status' # "up"
  <2>1. Terminate("pointer")
    BY <1>1, <1>2, <1>4 DEF Segfault, Executing
  <2>2. QED
    BY <1>1, <2>1, SelfType, TerminateIsCrash DEF Cause, Executing
<1>5. QED
  BY <1>3, <1>4

\* The end of onUser, and a client who hangs up.
LEMMA EndRefines ==
    ASSUME TypeOK, FdTablesAgree, EndOnUser
    PROVE  Registry!Next
<1>1. Executing /\ current \in DOMAIN users /\ heap[self] \in User
  BY SelfType DEF EndOnUser
<1>2. Registry!Serving /\ Registry!Mine.state = heap[self].state
  BY <1>1, MineIsSelf DEF SessionOf
<1>3. CASE heap[self].state = "DELETE" /\ Disconnected(current)
  BY <1>1, <1>2, <1>3, DisconnectedIsWithout
     DEF Registry!Next, Registry!End, Registry!NoFd, NoFd
<1>4. CASE heap[self].state = "DELETE" /\ Segfault(DisconnectReads(heap[users[current]].nickname))
  BY <1>1, <1>4, TerminateIsCrash DEF Registry!Next, Segfault, Cause, Executing
<1>5. CASE /\ heap[self].state # "DELETE"
           /\ current' = NoFd
           /\ UNCHANGED << pollfds, users, live, heap, channel_users, channels, status, clean >>
  <2>1. SessionTable' = SessionTable
    BY <1>5 DEF SessionTable
  <2>2. QED
    BY <1>2, <1>5, <2>1 DEF Registry!Next, Registry!End, Registry!NoFd, NoFd
<1>6. QED
  BY <1>3, <1>4, <1>5 DEF EndOnUser, disconnectUser

\* Every step of the server is a step of the registry or leaves it alone.
LEMMA NextRefines ==
    ASSUME TypeOK, FdTablesAgree, [Next]_vars
    PROVE  [Registry!Next]_(Registry!vars)
<1>1. CASE UNCHANGED vars
  BY <1>1 DEF vars, Registry!vars, SessionTable
<1>2. CASE connectNewUser
  BY <1>2, ConnectIsOpen DEF Registry!Next
<1>3. ASSUME NEW fd \in DOMAIN users, ReceiveLines(fd)
      PROVE  Registry!Next
  <2>1. SessionTable' = SessionTable
    BY <1>3 DEF ReceiveLines, SessionTable
  <2>2. Registry!Begin(fd)
    BY <1>3, <2>1 DEF ReceiveLines, Registry!Begin, Registry!NoFd, NoFd
  <2>3. QED
    BY <2>2, TableEntries DEF Registry!Next
<1>4. ASSUME NEW fd \in DOMAIN users, ReceiveEof(fd)
      PROVE  Registry!Next
  <2>1. status = "up" /\ current = NoFd
    BY <1>4 DEF ReceiveEof
  <2>2. CASE Disconnected(fd)
    <3>1. Registry!HangUp(fd)
      BY <2>1, <2>2, DisconnectedIsWithout DEF Registry!HangUp, Registry!NoFd, NoFd
    <3>2. QED
      BY <3>1, TableEntries DEF Registry!Next
  <2>3. CASE Segfault(DisconnectReads(heap[users[fd]].nickname))
    BY <2>1, <2>3, TerminateIsCrash DEF Registry!Next, Segfault, Cause
  <2>4. QED
    BY <1>4, <2>2, <2>3 DEF ReceiveEof, disconnectUser
<1>5. CASE EndOnUser
  BY <1>5, EndRefines
<1>6. ASSUME NEW c \in Chan,
             \/ sendJoin(c) \/ sendPart(c) \/ sendChannelMsg(c) \/ sendTopic(c)
             \/ \E n \in TargetArg : sendKick(c, n)
             \/ \E n \in TargetArg, mode \in {"+o", "-o"} : sendMode(c, mode, n)
      PROVE  [Registry!Next]_(Registry!vars)
  BY <1>6, ListStepsRefine DEF Registry!Next, Registry!vars
<1>7. CASE sendFile \/ MissingParameter
  <2>1. Executing /\ (Terminate("pointer") \/ Terminate("line"))
    BY <1>7 DEF sendFile, MissingParameter, Segfault, Registered
  <2>2. QED
    BY <2>1, SelfType, TerminateIsCrash DEF Registry!Next, Cause, Executing
<1>8. QED
  BY <1>1, <1>2, <1>3, <1>4, <1>5, <1>6, <1>7, RegistrationRefines DEF Next

\* The empty server has no sessions.
LEMMA InitRefines == Init => Registry!Init
<1>1. Init => SessionTable = [ fd \in {} |-> Registry!NewSession ]
  BY DEF Init, NoUsers, SessionTable
<1>2. QED
  BY <1>1 DEF Init, Registry!Init, Registry!NoFd, NoFd

\* The server implements the registry of sessions: whatever its lists, its memory and
\* its dangling pointers do, who is connected, under which nickname and how far
\* registered changes only as the registry allows.
THEOREM SessionsImplemented == Spec => ImplementsSessions
<1>1. TypeOK /\ FdTablesAgree /\ [Next]_vars => [Registry!Next]_(Registry!vars)
  BY NextRefines
<1>2. QED
  BY InitRefines, <1>1, TypeCorrect, TablesAgree, PTL DEF Spec, ImplementsSessions, Registry!Spec
=============================================================================
