---------------------------- MODULE ListsProofs ----------------------------
(***************************************************************************)
(* Proofs about the lists of pointers as long as they are clean, for any   *)
(* number of addresses, descriptors, nicknames and channels: the multimap  *)
(* and the Channel objects agree, who may change them, which command can   *)
(* fail by a pointer, and exactly who leaves without being taken off them. *)
(***************************************************************************)
EXTENDS IrcServerProofs

-----------------------------------------------------------------------------
(***************************************************************************)
(* What a step does to the lists, whichever handler takes it.              *)
(***************************************************************************)
ListsKept == UNCHANGED << live, channel_users, channels, status, clean >>

\* The channel a JOIN finds or creates.
ChannelToJoin(c) ==
    IF Exists(channels[c]) THEN channels[c]
    ELSE [ NoChannel EXCEPT !.pos = Cardinality({ d \in Chan : Exists(channels[d]) }) + 1 ]

Joined(c) ==
    /\ Registered /\ ~ Named(channel_users[c], name, me)
    /\ channel_users' = [ channel_users EXCEPT ![c] = Append(@, self) ]
    /\ channels' = [ channels EXCEPT ![c] = AddUser(ChannelToJoin(c), self) ]

Parted(c) ==
    /\ Registered
    /\ channel_users' = [ channel_users EXCEPT ![c] = EraseNamed(@, name, me) ]
    /\ channels' = [ channels EXCEPT ![c] = DeleteUser(@, name, me) ]

Kicked(c, n) ==
    /\ Registered /\ UserIsOp(c)
    /\ channel_users' = [ channel_users EXCEPT ![c] = EraseNamed(@, name, n) ]
    /\ channels' = channels

\* MODE +o or -o for the user at `target`.
Moded(c, target) ==
    /\ Registered /\ UserIsOp(c) /\ Exists(channels[c])
    /\ target \in ToSet(channel_users[c])
    /\ channel_users' = channel_users
    /\ \/ channels' = [ channels EXCEPT ![c] = GiveOp(@, name, target) ]
       \/ channels' = [ channels EXCEPT ![c] = TakeOp(@, name, target) ]

\* A command that changes the lists of channel c.
ListsEdited(c) ==
    /\ OnlyListsChange
    /\ UNCHANGED << current, status, clean >>
    /\ Joined(c) \/ Parted(c) \/ (\E n : Kicked(c, n)) \/ (\E target : Moded(c, target))

\* MODE changes the operators of an existing channel, or ends the process.
LEMMA ModeEffect ==
    ASSUME TypeOK, NEW c \in Chan, NEW n \in TargetArg, NEW mode \in {"+o", "-o"},
           sendMode(c, mode, n)
    PROVE  ListsEdited(c) \/ \E cause \in Cause : Terminate(cause)
<1> DEFINE target == FirstNamed(channel_users[c], name, n)
<1>1. find_user_in_channel(c, n) => target \in ToSet(channel_users[c])
  BY FirstNamedProperties DEF TypeOK, find_user_in_channel
<1> HIDE DEF target
<1>2. CASE Terminate("pointer") \/ \E S : Segfault(S)
  BY <1>2 DEF Segfault, Cause
<1>3. CASE /\ find_user_in_channel(c, n)
           /\ UserIsOp(c)
           /\ ~ NullDereferenced(c, mode, n)
           /\ channels' = [ channels EXCEPT ![c] =
                             IF mode = "+o" THEN GiveOp(@, name, target)
                                            ELSE TakeOp(@, name, target) ]
           /\ UNCHANGED channel_users
           /\ OnlyChannelsChange
  <2>1. Registered
    BY DEF sendMode
  <2>2. Moded(c, target)
    BY <1>1, <1>3, <2>1 DEF Moded, NullDereferenced
  <2>3. OnlyListsChange \/ \E cause \in Cause : Terminate(cause)
    <3>1. OnlyListsChange \/ (\E S : Segfault(S)) \/ Terminate("pointer")
      BY ListSteps
    <3>2. QED
      BY <3>1 DEF Segfault, Cause
  <2>4. QED
    BY <1>3, <2>2, <2>3 DEF ListsEdited, OnlyChannelsChange
<1>4. QED
  BY <1>2, <1>3 DEF sendMode, target

\* JOIN, PART and KICK change one channel, or end the process.
LEMMA ListEffects ==
    ASSUME TypeOK, NEW c \in Chan,
           \/ sendJoin(c) \/ sendPart(c) \/ sendChannelMsg(c) \/ sendTopic(c)
           \/ \E n \in TargetArg : sendKick(c, n)
    PROVE  ListsEdited(c) \/ \E cause \in Cause : Terminate(cause)
<1>1. OnlyListsChange \/ \E cause \in Cause : Terminate(cause)
  <2>1. OnlyListsChange \/ (\E S : Segfault(S)) \/ Terminate("pointer")
    BY ListSteps
  <2>2. QED
    BY <2>1 DEF Segfault, Cause
<1>2. \A S : Segfault(S) => \E cause \in Cause : Terminate(cause)
  BY DEF Segfault, Cause
<1>3. ASSUME sendJoin(c)
      PROVE  (Joined(c) /\ UNCHANGED << current, status, clean >>) \/ (\E S : Segfault(S))
  BY <1>3 DEF sendJoin, Joined, ChannelToJoin, OnlyChannelsChange, handleDoubleUserError
<1>4. ASSUME sendPart(c)
      PROVE  (Parted(c) /\ UNCHANGED << current, status, clean >>) \/ (\E S : Segfault(S))
  BY <1>4 DEF sendPart, Parted, OnlyChannelsChange
<1>5. ASSUME NEW n \in TargetArg, sendKick(c, n)
      PROVE  (Kicked(c, n) /\ UNCHANGED << current, status, clean >>) \/ (\E S : Segfault(S))
  BY <1>5 DEF sendKick, Kicked, OnlyChannelsChange
<1>6. QED
  BY <1>1, <1>2, <1>3, <1>4, <1>5 DEF ListsEdited, sendChannelMsg, sendTopic

\* Every step is of one of five kinds, as far as the lists are concerned.
LEMMA ListKinds ==
    ASSUME TypeOK, [Next]_vars
    PROVE  \/ \E cause \in Cause : Terminate(cause)
           \/ connectNewUser
           \/ \E fd \in DOMAIN users : Disconnected(fd)
           \/ ListsKept /\ (OnlyListsChange \/ \E user : Registers(user))
           \/ \E c \in Chan : ListsEdited(c)
<1>1. \A S : Segfault(S) => \E cause \in Cause : Terminate(cause)
  BY DEF Segfault, Cause
<1>2. \A fd : disconnectUser(fd) => Disconnected(fd) \/ \E cause \in Cause : Terminate(cause)
  BY <1>1 DEF disconnectUser
<1>3. ASSUME UNCHANGED vars \/ \E fd \in DOMAIN users : ReceiveLines(fd)
      PROVE  ListsKept /\ OnlyListsChange
  BY <1>3 DEF vars, ReceiveLines, ListsKept, OnlyListsChange
<1>4. ASSUME EndOnUser
      PROVE  \/ \E cause \in Cause : Terminate(cause)
             \/ \E fd \in DOMAIN users : Disconnected(fd)
             \/ ListsKept /\ OnlyListsChange
  <2>1. CASE disconnectUser(current)
    BY <1>2, <1>4, <2>1, SelfType DEF EndOnUser
  <2>2. CASE UNCHANGED << pollfds, users, live, heap, channel_users, channels, status, clean >>
    BY <2>2 DEF ListsKept, OnlyListsChange
  <2>3. QED
    BY <1>4, <2>1, <2>2 DEF EndOnUser
<1>5. ASSUME \/ \E pw \in Password : register_pass(pw)
             \/ \E n \in NickArg : register_nickname(n)
             \/ \E nonEmpty \in BOOLEAN : register_username(nonEmpty)
             \/ sendQuit
      PROVE  \/ \E cause \in Cause : Terminate(cause)
             \/ ListsKept /\ \E user : Registers(user)
  <2>1. (\E user : Registers(user)) \/ (\E S : Segfault(S))
    BY <1>5, RegistrationSteps
  <2>2. \A user : Registers(user) => ListsKept
    BY DEF Registers, OnlySelfChanges, ListsKept
  <2>3. QED
    BY <1>1, <2>1, <2>2
<1>6. ASSUME sendFile \/ MissingParameter
      PROVE  \E cause \in Cause : Terminate(cause)
  BY <1>1, <1>6 DEF sendFile, MissingParameter, Cause
<1>7. QED
  BY <1>2, <1>3, <1>4, <1>5, <1>6, ListEffects, ModeEffect DEF Next, ReceiveEof

-----------------------------------------------------------------------------
(***************************************************************************)
(* The sweep of the empty channels.                                        *)
(***************************************************************************)

\* The recursion of the loop is well founded: whether it erases the channel at a
\* place depends on the place before.
LEMMA ErasedAtUnfolds ==
    ASSUME NEW chs
    PROVE  \A p \in 0 .. Cardinality(Chan) :
             ErasedAt(chs)[p] = (p > 0 /\ EmptyAt(chs, p) /\ ~ ErasedAt(chs)[p - 1])
<1> DEFINE Solves(f, n) == f = [ p \in 0 .. n |-> p > 0 /\ EmptyAt(chs, p) /\ ~ f[p - 1] ]
           I == { n \in Nat : \E f : Solves(f, n) }
<1>1. 0 \in I
  <2> DEFINE g == [ p \in 0 .. 0 |-> FALSE ]
  <2>1. ASSUME NEW p \in 0 .. 0
        PROVE  g[p] = (p > 0 /\ EmptyAt(chs, p) /\ ~ g[p - 1])
    <3>1. ~ (p > 0) /\ g[p] = FALSE
      OBVIOUS
    <3> HIDE DEF g
    <3>2. QED
      BY <3>1
  <2>2. g = [ p \in 0 .. 0 |-> g[p] ]
    OBVIOUS
  <2> HIDE DEF g
  <2>3. Solves(g, 0)
    BY <2>1, <2>2
  <2>4. QED
    BY <2>3
<1>2. ASSUME NEW n \in I
      PROVE  n + 1 \in I
  <2>1. PICK f : Solves(f, n)
    BY <1>2
  <2> DEFINE g == [ p \in 0 .. (n + 1) |->
                      IF p <= n THEN f[p] ELSE EmptyAt(chs, p) /\ ~ f[n] ]
  <2>2. ASSUME NEW p \in 0 .. (n + 1)
        PROVE  g[p] = (p > 0 /\ EmptyAt(chs, p) /\ ~ g[p - 1])
    <3>1. CASE p = 0
      BY <1>2, <2>1, <3>1
    <3>2. CASE p \in 1 .. n
      <4>1. g[p] = f[p] /\ g[p - 1] = f[p - 1] /\ p \in 0 .. n
        BY <1>2, <3>2
      <4>2. f[p] = (p > 0 /\ EmptyAt(chs, p) /\ ~ f[p - 1])
        BY <2>1, <4>1
      <4>3. QED
        BY <4>1, <4>2
    <3>3. CASE p = n + 1
      <4>1. g[p] = (EmptyAt(chs, p) /\ ~ f[n]) /\ g[p - 1] = f[n] /\ p > 0
        BY <1>2, <3>3
      <4>2. QED
        BY <4>1
    <3>4. QED
      BY <1>2, <3>1, <3>2, <3>3
  <2>3. g = [ p \in 0 .. (n + 1) |-> g[p] ]
    OBVIOUS
  <2> HIDE DEF g
  <2>4. Solves(g, n + 1)
    BY <2>2, <2>3
  <2>5. QED
    BY <1>2, <2>4
<1>3. Cardinality(Chan) \in Nat
  BY CardinalityOfChannels
<1> HIDE DEF Solves
<1>4. I \in SUBSET Nat
  OBVIOUS
<1> HIDE DEF I
<1>5. Cardinality(Chan) \in I
  BY <1>1, <1>2, <1>3, <1>4, SetInduction
<1>6. \E f : Solves(f, Cardinality(Chan))
  BY <1>5 DEF I
<1>7. ErasedAt(chs) = CHOOSE f : Solves(f, Cardinality(Chan))
  BY DEF ErasedAt, Solves
<1>8. Solves(ErasedAt(chs), Cardinality(Chan))
  BY <1>6, <1>7
<1>9. QED
  BY <1>8 DEF Solves

\* The loop erases empty channels only.
LEMMA ErasedAreEmpty ==
    ASSUME NEW chs, NEW p \in 0 .. Cardinality(Chan), ErasedAt(chs)[p]
    PROVE  EmptyAt(chs, p)
BY ErasedAtUnfolds

Existing(chs) == { d \in Chan : Exists(chs[d]) }

\* The existing channels are numbered within their count, each place taken once.
PlacesDistinct(chs) ==
    \A c, d \in Chan :
        Exists(chs[c]) => /\ chs[c].pos <= Cardinality(Existing(chs))
                          /\ chs[c].pos = chs[d].pos => c = d

\* What is deleted had no members.
LEMMA DeletedAreEmpty ==
    ASSUME NEW chs \in [ Chan -> ChannelType(Addr) ], PlacesDistinct(chs),
           NEW c \in Chan, Deleted(chs, c)
    PROVE  chs[c].members = << >>
<1>1. Exists(chs[c]) /\ ErasedAt(chs)[chs[c].pos] /\ chs[c].pos \in Nat
  BY DEF Deleted, ChannelType
<1>2. Cardinality(Existing(chs)) <= Cardinality(Chan)
  BY ChanAssumption, FS_Subset DEF Existing
<1>3. /\ Existing(chs) \in SUBSET Chan /\ Cardinality(Existing(chs)) \in Nat
      /\ Cardinality(Chan) \in Nat
  BY CardinalityOfChannels DEF Existing
<1>4. chs[c].pos \in 0 .. Cardinality(Chan)
  BY <1>1, <1>2, <1>3 DEF PlacesDistinct
<1>5. PICK d \in Chan : chs[d].pos = chs[c].pos /\ chs[d].members = << >>
  BY <1>1, <1>4, ErasedAreEmpty DEF EmptyAt
<1>6. QED
  BY <1>1, <1>5 DEF PlacesDistinct

\* The places the sweep gives to the channels it keeps: in the old order, from 1.
LEMMA SweptPlaces ==
    ASSUME NEW chs \in [ Chan -> ChannelType(Addr) ], PlacesDistinct(chs)
    PROVE  /\ PlacesDistinct(SweepChannels(chs))
           /\ \A c \in Chan :
                IF Exists(chs[c]) /\ ~ Deleted(chs, c)
                THEN /\ Exists(SweepChannels(chs)[c])
                     /\ SweepChannels(chs)[c].members = chs[c].members
                     /\ SweepChannels(chs)[c].operators = chs[c].operators
                ELSE SweepChannels(chs)[c] = NoChannel
<1> DEFINE new == SweepChannels(chs)
           Kept == { d \in Chan : Exists(chs[d]) /\ ~ Deleted(chs, d) }
           UpTo(c) == { d \in Chan : /\ Exists(chs[d]) /\ ~ Deleted(chs, d)
                                     /\ chs[d].pos <= chs[c].pos }
<1>1. \A c \in Chan : chs[c].pos \in Nat
  BY DEF ChannelType
<1>2. \A c \in Chan : new[c] = IF c \in Kept THEN [ chs[c] EXCEPT !.pos = Cardinality(UpTo(c)) ]
                                             ELSE NoChannel
  BY DEF SweepChannels
<1> HIDE DEF new
<1>3. Kept \subseteq Chan /\ IsFiniteSet(Kept)
  BY ChanAssumption, FS_Subset
<1>4. \A c \in Chan : UpTo(c) \subseteq Kept
  OBVIOUS
<1>5. \A c \in Kept : c \in UpTo(c)
  BY <1>1
<1>6. ASSUME NEW c \in Kept, NEW d \in Kept, chs[c].pos <= chs[d].pos
      PROVE  UpTo(c) \subseteq UpTo(d)
  BY <1>1, <1>6
<1>7. ASSUME NEW c \in Kept, NEW d \in UpTo(c)
      PROVE  chs[d].pos <= chs[c].pos
  BY <1>7
<1> HIDE DEF UpTo
<1>8. ASSUME NEW c \in Chan
      PROVE  IsFiniteSet(UpTo(c)) /\ Cardinality(UpTo(c)) \in Nat /\ Cardinality(UpTo(c)) <= Cardinality(Kept)
  <2>1. UpTo(c) \in SUBSET Kept
    BY <1>4
  <2>2. QED
    BY <1>3, <2>1, FS_Subset, FS_CardinalityType
<1>9. ASSUME NEW c \in Kept
      PROVE  Cardinality(UpTo(c)) > 0
  BY <1>3, <1>5, <1>8, FS_EmptySet
<1>10. \A c \in Kept : /\ Exists(new[c]) /\ new[c].pos = Cardinality(UpTo(c))
                       /\ new[c].members = chs[c].members
                       /\ new[c].operators = chs[c].operators
  BY <1>2, <1>3, <1>9 DEF Exists, ChannelType
<1>11. \A c \in Chan \ Kept : new[c] = NoChannel /\ ~ Exists(new[c])
  <2>1. ~ Exists(NoChannel)
    BY DEF Exists, NoChannel
  <2>2. QED
    BY <1>2, <2>1
<1>12. Existing(new) = Kept
  BY <1>3, <1>10, <1>11 DEF Existing
<1>13. ASSUME NEW c \in Kept, NEW d \in Kept, chs[c].pos <= chs[d].pos,
              Cardinality(UpTo(c)) = Cardinality(UpTo(d))
       PROVE  c = d
  <2>1. UpTo(c) \in SUBSET UpTo(d)
    BY <1>6, <1>13
  <2>2. c \in Chan /\ d \in Chan /\ IsFiniteSet(UpTo(d))
    BY <1>3, <1>8
  <2>3. UpTo(c) = UpTo(d)
    BY <1>13, <2>1, <2>2, FS_Subset
  <2>4. chs[d].pos <= chs[c].pos
    BY <1>5, <1>7, <2>3
  <2>5. chs[c].pos = chs[d].pos
    BY <1>1, <1>13, <2>2, <2>4
  <2>6. QED
    BY <2>2, <2>5 DEF PlacesDistinct
<1>14. ASSUME NEW c \in Chan, NEW d \in Chan, Exists(new[c])
       PROVE  /\ new[c].pos <= Cardinality(Existing(new))
              /\ new[c].pos = new[d].pos => c = d
  <2>1. c \in Kept
    BY <1>11, <1>14
  <2>2. CASE d \in Kept
    <3>1. chs[c].pos <= chs[d].pos \/ chs[d].pos <= chs[c].pos
      BY <1>1
    <3>2. QED
      BY <1>8, <1>10, <1>12, <1>13, <2>1, <2>2, <3>1
  <2>3. CASE d \notin Kept
    BY <1>8, <1>10, <1>11, <1>12, <2>1, <2>3 DEF Exists
  <2>4. QED
    BY <2>2, <2>3
<1>15. QED
  BY <1>10, <1>11, <1>14 DEF PlacesDistinct, new

\* Who keeps his place keeps it distinct.
LEMMA SamePlaces ==
    ASSUME NEW chs, NEW new, PlacesDistinct(chs), \A c \in Chan : new[c].pos = chs[c].pos
    PROVE  PlacesDistinct(new)
<1>1. Existing(new) = Existing(chs)
  BY DEF Existing, Exists
<1>2. QED
  BY <1>1 DEF PlacesDistinct, Exists

\* Every step keeps the places of the channels distinct and within their count.
LEMMA NextPlaces ==
    ASSUME TypeOK, PlacesDistinct(channels), [Next]_vars
    PROVE  PlacesDistinct(channels')
<1>1. \A c \in Chan : channels[c] \in ChannelType(Addr) /\ channels[c].pos \in Nat
  BY DEF TypeOK, ChannelType
<1>2. ASSUME NEW cause, Terminate(cause)
      PROVE  PlacesDistinct(channels')
  BY <1>2 DEF Terminate, PlacesDistinct, NoChannels, NoChannel, Exists
<1>3. ASSUME connectNewUser \/ ListsKept
      PROVE  PlacesDistinct(channels')
  BY <1>3 DEF connectNewUser, ListsKept
<1>4. ASSUME NEW fd \in DOMAIN users, Disconnected(fd)
      PROVE  PlacesDistinct(channels')
  <2> DEFINE left == [ c \in Chan |-> DeleteUser(channels[c], name, heap[users[fd]].nickname) ]
  <2>1. \A c \in Chan : left[c].pos = channels[c].pos
    BY <1>1 DEF DeleteUser, ChannelType
  <2>2. left \in [ Chan -> ChannelType(Addr) ]
    BY <1>1, DeleteUserType
  <2>3. channels' = SweepChannels(left)
    BY <1>4 DEF Disconnected
  <2> HIDE DEF left
  <2>4. QED
    BY <2>1, <2>2, <2>3, SamePlaces, SweptPlaces
<1>5. ASSUME NEW c \in Chan, ListsEdited(c)
      PROVE  PlacesDistinct(channels')
  <2>1. CASE Joined(c) /\ ~ Exists(channels[c])
    <3> DEFINE n == Cardinality(Existing(channels))
    <3>1. n \in Nat
      BY CardinalityOfChannels DEF Existing
    <3>2. /\ channels'[c].pos = n + 1
          /\ \A d \in Chan \ {c} : channels'[d] = channels[d]
      BY <2>1, <3>1 DEF Joined, ChannelToJoin, AddUser, NoChannel, TypeOK, Existing
    <3> HIDE DEF n
    <3>3. Existing(channels') = Existing(channels) \cup {c} /\ c \notin Existing(channels)
      BY <2>1, <3>1, <3>2 DEF Existing, Exists
    <3>4. IsFiniteSet(Existing(channels))
      BY ChanAssumption, FS_Subset DEF Existing
    <3>5. Cardinality(Existing(channels')) = n + 1
      BY <3>3, <3>4, FS_AddElement DEF n
    <3>6. \A d \in Chan \ {c} : Exists(channels[d]) => channels[d].pos <= n
      BY DEF PlacesDistinct, n
    <3>7. \A d \in Chan \ {c} : channels'[d].pos # n + 1
      BY <1>1, <3>1, <3>2, <3>6 DEF Exists
    <3>8. ASSUME NEW d \in Chan, NEW e \in Chan, Exists(channels'[d])
          PROVE  /\ channels'[d].pos <= Cardinality(Existing(channels'))
                 /\ channels'[d].pos = channels'[e].pos => d = e
      <4>1. channels'[d].pos <= n + 1
        BY <1>1, <3>1, <3>2, <3>6, <3>8 DEF Exists
      <4>2. channels'[d].pos = channels'[e].pos => d = e
        BY <3>2, <3>7, <3>8 DEF PlacesDistinct
      <4>3. QED
        BY <3>5, <4>1, <4>2
    <3>9. QED
      BY <3>8 DEF PlacesDistinct
  <2>2. CASE ~ (Joined(c) /\ ~ Exists(channels[c]))
    <3>1. channels'[c].pos = channels[c].pos /\ \A d \in Chan \ {c} : channels'[d] = channels[d]
      BY <1>1, <1>5, <2>2
      DEF ListsEdited, Joined, ChannelToJoin, Parted, Kicked, Moded, AddUser, DeleteUser, GiveOp,
          TakeOp, TypeOK, ChannelType
    <3>2. QED
      BY <3>1, SamePlaces
  <2>3. QED
    BY <2>1, <2>2
<1>6. QED
  BY <1>2, <1>3, <1>4, <1>5, ListKinds

-----------------------------------------------------------------------------
(***************************************************************************)
(* ListsAgree.                                                             *)
(***************************************************************************)

\* What ListsAgree says of one channel and its entries, if L is what is live.
Agree(ch, entries, L) ==
    /\ ToSet(ch.members) \subseteq L
    /\ ToSet(entries) \subseteq ToSet(ch.members)
    /\ ToSet(ch.operators) \subseteq ToSet(ch.members)
    /\ IsInjective(ch.operators)
    /\ ~ Exists(ch) => ch = NoChannel

\* The empty lists agree.
LEMMA EmptyAgree == \A L : Agree(NoChannel, << >>, L)
<1>1. ToSet(<< >>) = {} /\ IsInjective(<< >>)
  BY DEF ToSet, IsInjective
<1>2. QED
  BY <1>1 DEF Agree, NoChannel

\* addUser for a user who is not registered in the channel.
LEMMA AddUserAgrees ==
    ASSUME NEW L, NEW ch \in ChannelType(Addr), NEW entries \in Seq(Addr), NEW u \in Addr,
           u \in L, Agree(ch, entries, L), Exists(ch)
    PROVE  Agree(AddUser(ch, u), Append(entries, u), L)
<1> DEFINE new == AddUser(ch, u)
<1>1. ch.members \in Seq(Addr) /\ ch.operators \in Seq(Addr)
  BY DEF ChannelType
<1>2. /\ new.members = Append(ch.members, u) /\ new.pos = ch.pos
      /\ new.operators = IF ch.operators = << >> THEN Append(ch.operators, u) ELSE ch.operators
  BY DEF AddUser, BecomesOperator, ChannelType
<1> HIDE DEF new
<1>3. /\ ToSet(new.members) = ToSet(ch.members) \cup {u}
      /\ ToSet(Append(entries, u)) = ToSet(entries) \cup {u}
  BY <1>1, <1>2, AppendElements
<1>4. ToSet(new.operators) \subseteq ToSet(ch.operators) \cup {u} /\ IsInjective(new.operators)
  <2>1. CASE ch.operators = << >>
    <3>1. u \notin ToSet(ch.operators) /\ IsInjective(ch.operators)
      BY <2>1 DEF ToSet, IsInjective
    <3>2. new.operators = Append(ch.operators, u)
      BY <1>2, <2>1
    <3>3. /\ ToSet(Append(ch.operators, u)) = ToSet(ch.operators) \cup {u}
          /\ IsInjective(Append(ch.operators, u))
      BY <1>1, <3>1, AppendElements
    <3>4. QED
      BY <3>2, <3>3
  <2>2. CASE ch.operators # << >>
    BY <1>2, <2>2 DEF Agree
  <2>3. QED
    BY <2>1, <2>2
<1>5. Exists(new)
  BY <1>2 DEF Exists
<1>6. QED
  BY <1>3, <1>4, <1>5 DEF Agree, new

\* Taking off one entry of the multimap.
LEMMA KickAgrees ==
    ASSUME NEW L, NEW ch, NEW entries \in Seq(Addr), NEW nm, NEW n, Agree(ch, entries, L)
    PROVE  Agree(ch, EraseNamed(entries, nm, n), L)
BY EraseNamedProperties DEF Agree

\* Taking the user e, whose nickname nobody else on the lists has, off all three.
LEMMA PartAgrees ==
    ASSUME NEW L, NEW ch \in ChannelType(Addr), NEW entries \in Seq(Addr), NEW nm, NEW n, NEW e,
           Agree(ch, entries, L), IsInjective(entries), OnlyNamed(ch.members, nm, n, e)
    PROVE  Agree(DeleteUser(ch, nm, n), EraseNamed(entries, nm, n), L)
<1> DEFINE new == DeleteUser(ch, nm, n)
<1>1. ch.members \in Seq(Addr) /\ ch.operators \in Seq(Addr)
  BY DEF ChannelType
<1>2. new = [ pos |-> ch.pos, members |-> EraseNamed(ch.members, nm, n),
              operators |-> EraseNamed(ch.operators, nm, n) ]
  <2>1. /\ new.members = EraseNamed(ch.members, nm, n) /\ new.pos = ch.pos
        /\ new.operators = EraseNamed(ch.operators, nm, n)
    BY DEF DeleteUser, ChannelType
  <2>2. new \in ChannelType(Addr)
    BY DeleteUserType
  <2> HIDE DEF new
  <2>3. QED
    BY <2>1, <2>2 DEF ChannelType
<1> HIDE DEF new
<1>3. ~ Exists(ch) => new = NoChannel
  <2>1. SUFFICES ASSUME ~ Exists(ch)
                 PROVE  new = NoChannel
    OBVIOUS
  <2>2. ch = NoChannel
    BY <2>1 DEF Agree
  <2>3. ~ Named(<< >>, nm, n) /\ << >> \in Seq(Addr)
    BY DEF Named
  <2>4. EraseNamed(<< >>, nm, n) = << >>
    BY <2>3, ErasedPosition
  <2>5. QED
    BY <1>2, <2>2, <2>4 DEF NoChannel
<1>4. ToSet(new.members) \subseteq ToSet(ch.members) /\ ToSet(ch.members) \ {e} \subseteq ToSet(new.members)
  BY <1>1, <1>2, EraseNamedProperties, EraseOnlyOne
<1>5. ASSUME NEW list \in Seq(Addr), IsInjective(list), ToSet(list) \subseteq ToSet(ch.members)
      PROVE  ToSet(EraseNamed(list, nm, n)) \subseteq ToSet(new.members)
  <2>1. OnlyNamed(list, nm, n, e)
    BY <1>5 DEF OnlyNamed
  <2>2. CASE ~ Named(ch.members, nm, n)
    <3>1. new.members = ch.members
      BY <1>1, <1>2, <2>2, ErasedPosition
    <3>2. QED
      BY <1>5, <3>1, EraseNamedProperties
  <2>3. CASE Named(ch.members, nm, n)
    <3>1. nm[e] = n
      BY <2>3 DEF Named, ToSet, OnlyNamed
    <3>2. CASE Named(list, nm, n)
      <4>1. ToSet(EraseNamed(list, nm, n)) = ToSet(list) \ {e}
        BY <1>5, <2>1, <3>2, EraseOnlyOne
      <4>2. QED
        BY <1>4, <1>5, <4>1
    <3>3. CASE ~ Named(list, nm, n)
      <4>1. EraseNamed(list, nm, n) = list
        BY <1>5, <3>3, ErasedPosition
      <4>2. e \notin ToSet(list)
        BY <3>1, <3>3 DEF Named, ToSet
      <4>3. QED
        BY <1>4, <1>5, <4>1, <4>2
    <3>4. QED
      BY <3>2, <3>3
  <2>4. QED
    BY <2>2, <2>3
<1>6. /\ ToSet(EraseNamed(entries, nm, n)) \subseteq ToSet(new.members)
      /\ ToSet(new.operators) \subseteq ToSet(new.members)
  BY <1>1, <1>2, <1>5 DEF Agree
<1>7. IsInjective(new.operators)
  BY <1>1, <1>2, EraseNamedProperties DEF Agree
<1>8. Exists(new) <=> Exists(ch)
  BY <1>2 DEF Exists
<1>9. QED
  BY <1>3, <1>4, <1>6, <1>7, <1>8 DEF Agree, new

\* MODE for a registered user of an existing channel.
LEMMA ModeAgrees ==
    ASSUME NEW L, NEW ch \in ChannelType(Addr), NEW entries \in Seq(Addr), NEW nm,
           NEW u \in ToSet(entries), u \in Addr, Agree(ch, entries, L), Exists(ch)
    PROVE  Agree(GiveOp(ch, nm, u), entries, L) /\ Agree(TakeOp(ch, nm, u), entries, L)
<1>1. ch.operators \in Seq(Addr)
  BY DEF ChannelType
<1>2. Agree(TakeOp(ch, nm, u), entries, L)
  <2> DEFINE new == TakeOp(ch, nm, u)
  <2>1. /\ new.members = ch.members /\ new.pos = ch.pos
        /\ new.operators = EraseNamed(ch.operators, nm, nm[u])
    BY DEF TakeOp, ChannelType
  <2> HIDE DEF new
  <2>2. ToSet(new.operators) \subseteq ToSet(ch.operators) /\ IsInjective(new.operators)
    BY <1>1, <2>1, EraseNamedProperties DEF Agree
  <2>3. QED
    BY <2>1, <2>2 DEF Agree, Exists, new
<1>3. CASE Named(ch.operators, nm, nm[u])
  BY <1>2, <1>3 DEF GiveOp
<1>4. CASE ~ Named(ch.operators, nm, nm[u])
  <2> DEFINE new == GiveOp(ch, nm, u)
  <2>1. /\ new.members = ch.members /\ new.pos = ch.pos
        /\ new.operators = Append(ch.operators, u)
    BY <1>4 DEF GiveOp, ChannelType
  <2> HIDE DEF new
  <2>2. u \notin ToSet(ch.operators)
    BY <1>4 DEF Named, ToSet
  <2>3. ToSet(new.operators) = ToSet(ch.operators) \cup {u} /\ IsInjective(new.operators)
    BY <1>1, <2>1, <2>2, AppendElements DEF Agree
  <2>4. QED
    BY <1>2, <2>1, <2>3 DEF Agree, Exists, new
<1>5. QED
  BY <1>2, <1>3, <1>4

\* The client whose command runs is connected, and nobody else who is connected
\* has his nickname.
LEMMA SelfAlone ==
    ASSUME TypeOK, FdTablesAgree, NicknamesUnique, Registered
    PROVE  /\ self \in live /\ self \in Addr
           /\ me # NoNick /\ name[self] = me
           /\ \A x \in live : name[x] = me => x = self
<1>1. Executing /\ me # NoNick
  BY DEF Registered, isRegistered, me
<1>2. current \in DOMAIN users /\ self = users[current] /\ self \in Addr /\ self \in live
  BY <1>1, SelfType DEF self, FdTablesAgree
<1>3. name[self] = me
  BY <1>2 DEF name, me
<1>4. ASSUME NEW x \in live, name[x] = me
      PROVE  x = self
  <2>1. PICK f \in DOMAIN users : x = users[f]
    BY DEF FdTablesAgree
  <2>2. x \in Addr /\ heap[users[f]].nickname = heap[users[current]].nickname
    BY <1>2, <1>4, <2>1 DEF TypeOK, name, me
  <2>3. QED
    BY <1>1, <1>2, <2>1, <2>2 DEF NicknamesUnique, me
<1>5. QED
  BY <1>1, <1>2, <1>3, <1>4

\* ListsAgree, channel by channel.
LEMMA ListsAgreeByChannel ==
    ListsAgree <=> (clean => \A c \in Chan : Agree(channels[c], channel_users[c], live))
BY DEF ListsAgree, Agree

\* What the invariants say of one channel while the lists are clean.
LEMMA CleanChannel ==
    ASSUME TypeOK, EntriesUnique, ListsAgree, clean, NEW c \in Chan
    PROVE  /\ channels[c] \in ChannelType(Addr)
           /\ channels[c].members \in Seq(Addr) /\ channels[c].operators \in Seq(Addr)
           /\ channel_users[c] \in Seq(Addr) /\ IsInjective(channel_users[c])
           /\ Agree(channels[c], channel_users[c], live)
           /\ ToSet(channel_users[c]) \subseteq live
           /\ ToSet(channels[c].operators) \subseteq live
BY ListsAgreeByChannel DEF TypeOK, ChannelType, EntriesUnique, Agree

\* The channel a JOIN creates agrees with the multimap, which has no entry for it.
LEMMA ChannelToJoinAgrees ==
    ASSUME TypeOK, NEW c \in Chan, Agree(channels[c], channel_users[c], live)
    PROVE  /\ ChannelToJoin(c) \in ChannelType(Addr)
           /\ Exists(ChannelToJoin(c))
           /\ Agree(ChannelToJoin(c), channel_users[c], live)
<1>1. CASE Exists(channels[c])
  BY <1>1 DEF ChannelToJoin, TypeOK
<1>2. CASE ~ Exists(channels[c])
  <2> DEFINE n == Cardinality({ d \in Chan : Exists(channels[d]) }) + 1
  <2>1. n \in Nat /\ n > 0
    BY CardinalityOfChannels
  <2> HIDE DEF n
  <2>2. ChannelToJoin(c) = [ NoChannel EXCEPT !.pos = n ]
    BY <1>2 DEF ChannelToJoin, n
  <2>3. /\ ChannelToJoin(c).pos = n /\ ChannelToJoin(c).members = NoChannel.members
        /\ ChannelToJoin(c).operators = NoChannel.operators
        /\ ChannelToJoin(c) \in ChannelType(Addr)
    BY <2>1, <2>2, NoChannelType DEF ChannelType
  <2>4. channels[c] = NoChannel
    BY <1>2 DEF Agree
  <2>5. QED
    BY <2>1, <2>3, <2>4 DEF Agree, Exists
<1>3. QED
  BY <1>1, <1>2

\* A command that edits a clean channel leaves it agreeing.
LEMMA EditedAgrees ==
    ASSUME TypeOK, FdTablesAgree, NicknamesUnique, EntriesUnique, ListsAgree, clean,
           NEW c \in Chan, ListsEdited(c)
    PROVE  Agree(channels'[c], channel_users'[c], live')
<1> DEFINE ch == channels[c]
           entries == channel_users[c]
<1>1. /\ ch \in ChannelType(Addr) /\ entries \in Seq(Addr) /\ IsInjective(entries)
      /\ Agree(ch, entries, live) /\ ToSet(entries) \subseteq live /\ ToSet(ch.members) \subseteq live
  BY CleanChannel DEF Agree
<1>2. live' = live /\ Registered
  BY DEF ListsEdited, OnlyListsChange, Joined, Parted, Kicked, Moded
<1>3. /\ self \in live /\ self \in Addr
      /\ \A x \in live : name[x] = me => x = self
  BY <1>2, SelfAlone
<1>4. \A chs, x : chs = [ channels EXCEPT ![c] = x ] => chs[c] = x
  BY DEF TypeOK
<1>5. \A us, x : us = [ channel_users EXCEPT ![c] = x ] => us[c] = x
  BY DEF TypeOK
<1>6. CASE Joined(c)
  <2>1. /\ channels'[c] = AddUser(ChannelToJoin(c), self)
        /\ channel_users'[c] = Append(entries, self)
    BY <1>4, <1>5, <1>6 DEF Joined
  <2>2. QED
    BY <1>1, <1>2, <1>3, <2>1, ChannelToJoinAgrees, AddUserAgrees
<1>7. CASE Parted(c)
  <2>1. /\ channels'[c] = DeleteUser(ch, name, me)
        /\ channel_users'[c] = EraseNamed(entries, name, me)
    BY <1>4, <1>5, <1>7 DEF Parted
  <2>2. OnlyNamed(ch.members, name, me, self)
    BY <1>1, <1>3 DEF OnlyNamed
  <2>3. QED
    BY <1>1, <1>2, <2>1, <2>2, PartAgrees
<1>8. ASSUME NEW n, Kicked(c, n)
      PROVE  Agree(channels'[c], channel_users'[c], live')
  <2>1. channels' = channels /\ channel_users'[c] = EraseNamed(entries, name, n)
    BY <1>5, <1>8 DEF Kicked
  <2>2. QED
    BY <1>1, <1>2, <2>1, KickAgrees
<1>9. ASSUME NEW target, Moded(c, target)
      PROVE  Agree(channels'[c], channel_users'[c], live')
  <2>1. /\ channels'[c] \in { GiveOp(ch, name, target), TakeOp(ch, name, target) }
        /\ channel_users' = channel_users
    BY <1>4, <1>9 DEF Moded
  <2>2. target \in ToSet(entries) /\ Exists(ch)
    BY <1>9 DEF Moded
  <2>3. target \in Addr
    BY <1>1, <2>2 DEF ToSet
  <2>4. Agree(GiveOp(ch, name, target), entries, live) /\ Agree(TakeOp(ch, name, target), entries, live)
    BY <1>1, <2>2, <2>3, ModeAgrees
  <2>5. QED
    BY <1>2, <2>1, <2>4
<1>10. QED
  BY <1>6, <1>7, <1>8, <1>9 DEF ListsEdited

\* So does a disconnect that takes its user off all lists.
LEMMA DisconnectedAgrees ==
    ASSUME TypeOK, EntriesUnique, PlacesDistinct(channels), ListsAgree, clean,
           NEW fd \in DOMAIN users, Disconnected(fd), LeavesAllLists(users[fd]), NEW c \in Chan
    PROVE  Agree(channels'[c], channel_users'[c], live')
<1> DEFINE a == users[fd]
           left == [ d \in Chan |-> DeleteUser(channels[d], name, heap[a].nickname) ]
<1>1. /\ channels[c] \in ChannelType(Addr) /\ channels[c].operators \in Seq(Addr)
      /\ Agree(channels[c], channel_users[c], live)
  BY CleanChannel
<1>2. left \in [ Chan -> ChannelType(Addr) ] /\ \A d \in Chan : left[d].pos = channels[d].pos
  BY DeleteUserType DEF TypeOK, DeleteUser, ChannelType
<1>3. left[c].operators = EraseNamed(channels[c].operators, name, heap[a].nickname)
  BY <1>1 DEF DeleteUser, ChannelType
<1>4. channels' = SweepChannels(left) /\ live' = live \ {a}
  BY DEF Disconnected
<1> HIDE DEF left
<1>5. IF Exists(left[c]) /\ ~ Deleted(left, c)
      THEN Exists(channels'[c]) /\ channels'[c].operators = left[c].operators
      ELSE channels'[c] = NoChannel
  BY <1>2, <1>4, SamePlaces, SweptPlaces
<1>6. IsInjective(channels'[c].operators)
  <2>1. IsInjective(left[c].operators)
    BY <1>1, <1>3, EraseNamedProperties DEF Agree
  <2>2. IsInjective(NoChannel.operators)
    BY EmptyAgree DEF Agree
  <2>3. QED
    BY <1>5, <2>1, <2>2
<1>7. /\ ToSet(channel_users'[c]) = ToSet(channel_users[c]) \ {a}
      /\ ToSet(channels'[c].members) = ToSet(channels[c].members) \ {a}
      /\ ToSet(channels'[c].operators) = ToSet(channels[c].operators) \ {a}
  BY DEF LeavesAllLists
<1>8. QED
  BY <1>1, <1>4, <1>5, <1>6, <1>7 DEF Agree

\* ListsAgree is inductive, given the other invariants.
LEMMA NextListsAgree ==
    ASSUME TypeOK, FdTablesAgree, NicknamesUnique, EntriesUnique, PlacesDistinct(channels),
           ListsAgree, [Next]_vars
    PROVE  ListsAgree'
<1>1. SUFFICES ASSUME clean', NEW c \in Chan
               PROVE  Agree(channels'[c], channel_users'[c], live')
  BY DEF ListsAgree, Agree
<1>2. ASSUME NEW cause, Terminate(cause)
      PROVE  Agree(channels'[c], channel_users'[c], live')
  BY <1>2, EmptyAgree DEF Terminate, NoChannels, NoEntries
<1>3. clean => Agree(channels[c], channel_users[c], live)
  BY ListsAgreeByChannel
<1>4. ASSUME connectNewUser
      PROVE  Agree(channels'[c], channel_users'[c], live')
  <2>1. /\ clean /\ channels' = channels /\ channel_users' = channel_users
        /\ live \subseteq live'
    BY <1>1, <1>4 DEF connectNewUser
  <2>2. QED
    BY <1>3, <2>1 DEF Agree
<1>5. ASSUME NEW fd \in DOMAIN users, Disconnected(fd)
      PROVE  Agree(channels'[c], channel_users'[c], live')
  <2>1. clean /\ LeavesAllLists(users[fd])
    BY <1>1, <1>5 DEF Disconnected
  <2>2. QED
    BY <1>5, <2>1, DisconnectedAgrees
<1>6. ASSUME ListsKept
      PROVE  Agree(channels'[c], channel_users'[c], live')
  BY <1>1, <1>3, <1>6 DEF ListsKept
<1>7. ASSUME NEW d \in Chan, ListsEdited(d)
      PROVE  Agree(channels'[c], channel_users'[c], live')
  <2>1. clean /\ live' = live
    BY <1>1, <1>7 DEF ListsEdited, OnlyListsChange
  <2>2. CASE c = d
    BY <1>7, <2>1, <2>2, EditedAgrees
  <2>3. CASE c # d
    <3>1. channels'[c] = channels[c] /\ channel_users'[c] = channel_users[c]
      BY <1>7, <2>3 DEF ListsEdited, Joined, Parted, Kicked, Moded, TypeOK
    <3>2. QED
      BY <1>3, <2>1, <3>1
  <2>4. QED
    BY <2>2, <2>3
<1>8. QED
  BY <1>2, <1>4, <1>5, <1>6, <1>7, ListKinds

\* The invariants the proofs about the lists rest on.
ListsInv ==
    /\ TypeOK
    /\ FdTablesAgree
    /\ NicknamesUnique
    /\ EntriesUnique
    /\ PlacesDistinct(channels)
    /\ ListsAgree

\* In every state they all hold.
LEMMA ListsInvariant == Spec => []ListsInv
<1>1. Init => PlacesDistinct(channels)
  BY DEF Init, PlacesDistinct, NoChannels, NoChannel, Exists
<1>2. Init => ListsAgree
  BY EmptyAgree, ListsAgreeByChannel DEF Init, NoChannels, NoEntries
<1>3. /\ TypeOK /\ FdTablesAgree /\ NicknamesUnique /\ EntriesUnique
      /\ PlacesDistinct(channels) /\ ListsAgree /\ [Next]_vars
      => PlacesDistinct(channels)' /\ ListsAgree'
  BY NextPlaces, NextListsAgree
<1>4. QED
  BY <1>1, <1>2, <1>3, TypeCorrect, TablesAgree, NicknamesAreUnique, EntriesAreUnique, PTL
  DEF Spec, ListsInv

\* As long as every user who left was taken off all lists, the multimap and the
\* Channel objects agree: pointers lead to connected users, who is registered is a
\* member, operators are members, and what is left of a deleted Channel is nothing.
THEOREM ListsAlwaysAgree == Spec => []ListsAgree
BY ListsInvariant, PTL DEF ListsInv

-----------------------------------------------------------------------------
(***************************************************************************)
(* Who changes the lists.                                                  *)
(***************************************************************************)

\* Whom an erase takes off a list had the erased nickname.
LEMMA ErasedHadName ==
    ASSUME NEW S, NEW list \in Seq(S), NEW nm, NEW n,
           NEW x \in ToSet(list) \ ToSet(EraseNamed(list, nm, n))
    PROVE  nm[x] = n
<1>1. CASE Named(list, nm, n)
  <2>1. PICK i \in 1 .. Len(list) : EraseNamed(list, nm, n) = RemoveAt(list, i) /\ nm[list[i]] = n
    BY <1>1, ErasedPosition
  <2>2. ToSet(list) \ {list[i]} \subseteq ToSet(EraseNamed(list, nm, n))
    BY <2>1, RemoveAtElements
  <2>3. QED
    BY <2>1, <2>2
<1>2. CASE ~ Named(list, nm, n)
  BY <1>2, ErasedPosition
<1>3. QED
  BY <1>1, <1>2

\* A channel with an entry in the multimap exists.
LEMMA EntriesExist ==
    ASSUME ListsInv, clean, NEW c \in Chan, ToSet(channel_users[c]) # {}
    PROVE  Exists(channels[c])
<1>1. Agree(channels[c], channel_users[c], live)
  BY CleanChannel DEF ListsInv
<1>2. ToSet(NoChannel.members) = {}
  BY DEF NoChannel, ToSet
<1>3. QED
  BY <1>1, <1>2 DEF Agree

\* Who passes the operator check of an existing channel is one of its operators.
LEMMA OperatorCheck ==
    ASSUME ListsInv, clean, Registered, NEW c \in Chan, Exists(channels[c]), UserIsOp(c)
    PROVE  current # NoFd /\ Operates(self, c)
<1>1. PICK i \in DOMAIN channels[c].operators : name[channels[c].operators[i]] = me
  BY DEF UserIsOp, Named
<1>2. channels[c].operators[i] \in ToSet(channels[c].operators)
  BY DEF ToSet
<1>3. channels[c].operators[i] = self
  BY <1>1, <1>2, CleanChannel, SelfAlone DEF ListsInv
<1>4. QED
  BY <1>2, <1>3 DEF Operates, Registered, Executing

\* While the server is up, its lists are clean after a step only if they were before.
LEMMA CleanBefore ==
    ASSUME TypeOK, [Next]_vars, clean', status' = "up"
    PROVE  /\ clean
           /\ \/ connectNewUser
              \/ \E fd \in DOMAIN users : Disconnected(fd) /\ LeavesAllLists(users[fd])
              \/ ListsKept
              \/ \E c \in Chan : ListsEdited(c)
<1>1. \A cause \in Cause : ~ Terminate(cause)
  BY DEF Terminate, Cause
<1>2. \A fd \in DOMAIN users : Disconnected(fd) => clean /\ LeavesAllLists(users[fd])
  BY DEF Disconnected
<1>3. connectNewUser \/ ListsKept \/ (\E c \in Chan : ListsEdited(c)) => clean
  BY DEF connectNewUser, ListsKept, ListsEdited
<1>4. QED
  BY <1>1, <1>2, <1>3, ListKinds

\* What one step may do to the entries of a channel.
LEMMA MembersLeaveStep ==
    ASSUME ListsInv, [Next]_vars, clean', status' = "up", NEW c \in Chan,
           NEW a \in ToSet(channel_users[c]) \ ToSet(channel_users'[c])
    PROVE  \/ Commanding(a)
           \/ current # NoFd /\ Operates(self, c)
           \/ a \notin live'
<1>1. TypeOK /\ clean
  BY CleanBefore DEF ListsInv
<1>2. ~ connectNewUser /\ ~ ListsKept
  BY DEF connectNewUser, ListsKept
<1>3. ASSUME NEW fd \in DOMAIN users, Disconnected(fd), LeavesAllLists(users[fd])
      PROVE  a \notin live'
  BY <1>3 DEF LeavesAllLists, Disconnected
<1>4. ASSUME NEW d \in Chan, ListsEdited(d)
      PROVE  Commanding(a) \/ (current # NoFd /\ Operates(self, c))
  <2>1. Registered /\ current # NoFd /\ channel_users[c] \in Seq(Addr)
    BY <1>1, <1>4 DEF ListsEdited, Joined, Parted, Kicked, Moded, Registered, Executing, TypeOK
  <2>2. CASE channel_users'[c] = channel_users[c]
    BY <2>2
  <2>3. CASE channel_users'[c] = Append(channel_users[c], self)
    BY <1>1, <2>1, <2>3, SelfAlone, AppendElements DEF ListsInv
  <2>4. CASE channel_users'[c] = EraseNamed(channel_users[c], name, me)
    <3>1. name[a] = me /\ a \in live
      BY <1>1, <2>1, <2>4, ErasedHadName, CleanChannel DEF ListsInv
    <3>2. QED
      BY <2>1, <3>1, SelfAlone DEF ListsInv, Commanding
  <2>5. CASE d = c /\ \E n : Kicked(c, n)
    BY <1>1, <2>1, <2>5, EntriesExist, OperatorCheck DEF Kicked
  <2>6. QED
    BY <1>1, <1>4, <2>2, <2>3, <2>4, <2>5
    DEF ListsEdited, Joined, Parted, Kicked, Moded, TypeOK
<1>5. QED
  BY <1>1, <1>2, <1>3, <1>4, CleanBefore

\* A registered member leaves a channel by his own command, by the KICK of one of
\* its operators or with his connection, and in no other way.
THEOREM MembersLeave == Spec => MembersLeaveOnlyBy
<1>1. ListsInv /\ [Next]_vars =>
        (clean' /\ status' = "up" =>
          \A c \in Chan : \A a \in ToSet(channel_users[c]) \ ToSet(channel_users'[c]) :
             \/ Commanding(a)
             \/ current # NoFd /\ Operates(self, c)
             \/ a \notin live')
  BY MembersLeaveStep
<1>2. QED
  BY <1>1, ListsInvariant, PTL DEF Spec, MembersLeaveOnlyBy

\* What one step may do to the operators of a channel.
LEMMA OperatorsStep ==
    ASSUME ListsInv, [Next]_vars, clean', status' = "up", NEW c \in Chan,
           NEW a \in ToSet(channels'[c].operators) \ ToSet(channels[c].operators)
    PROVE  \/ /\ Commanding(a) /\ channels[c].operators = << >>
              /\ a \in ToSet(channel_users'[c]) \ ToSet(channel_users[c])
           \/ current # NoFd /\ Operates(self, c) /\ a \in ToSet(channel_users[c])
<1>1. TypeOK /\ clean
  BY CleanBefore DEF ListsInv
<1>2. ~ connectNewUser /\ ~ ListsKept
  BY DEF connectNewUser, ListsKept
<1>3. ASSUME NEW fd \in DOMAIN users, Disconnected(fd), LeavesAllLists(users[fd])
      PROVE  FALSE
  BY <1>3 DEF LeavesAllLists
<1>4. /\ channels[c] \in ChannelType(Addr) /\ channels[c].operators \in Seq(Addr)
      /\ channel_users[c] \in Seq(Addr)
      /\ Agree(channels[c], channel_users[c], live)
  BY <1>1, CleanChannel DEF ListsInv
<1>5. ASSUME NEW d \in Chan, ListsEdited(d)
      PROVE  \/ /\ Commanding(a) /\ channels[c].operators = << >>
                /\ a \in ToSet(channel_users'[c]) \ ToSet(channel_users[c])
             \/ current # NoFd /\ Operates(self, c) /\ a \in ToSet(channel_users[c])
  <2>1. Registered /\ current # NoFd /\ self \in Addr /\ name[self] = me
    BY <1>1, <1>5, SelfAlone
    DEF ListsInv, ListsEdited, Joined, Parted, Kicked, Moded, Registered, Executing
  <2>2. c = d
    BY <1>1, <1>5 DEF ListsEdited, Joined, Parted, Kicked, Moded, TypeOK
  <2>3. CASE Joined(c)
    <3>1. /\ channels'[c] = AddUser(ChannelToJoin(c), self)
          /\ channel_users'[c] = Append(channel_users[c], self)
          /\ ~ Named(channel_users[c], name, me)
      BY <1>1, <2>3 DEF Joined, TypeOK
    <3>2. ChannelToJoin(c).operators = channels[c].operators
      <4>1. CASE Exists(channels[c])
        BY <4>1 DEF ChannelToJoin
      <4>2. CASE ~ Exists(channels[c])
        BY <1>4, <4>2 DEF ChannelToJoin, Agree, NoChannel
      <4>3. QED
        BY <4>1, <4>2
    <3>3. channels'[c].operators = IF channels[c].operators = << >>
                                   THEN Append(channels[c].operators, self)
                                   ELSE channels[c].operators
      BY <1>1, <1>4, <3>1, <3>2, ChannelToJoinAgrees DEF AddUser, BecomesOperator, ChannelType
    <3>4. channels[c].operators = << >> /\ a = self
      BY <1>4, <2>1, <3>3, AppendElements
    <3>5. self \notin ToSet(channel_users[c])
      BY <2>1, <3>1 DEF Named, ToSet
    <3>6. self \in ToSet(channel_users'[c])
      BY <1>4, <2>1, <3>1, AppendElements
    <3>7. QED
      BY <2>1, <3>4, <3>5, <3>6 DEF Commanding
  <2>4. CASE Parted(c) \/ \E n : Kicked(c, n)
    <3>1. channels'[c] = channels[c] \/ channels'[c] = DeleteUser(channels[c], name, me)
      BY <1>1, <2>4 DEF Parted, Kicked, TypeOK
    <3>2. DeleteUser(channels[c], name, me).operators = EraseNamed(channels[c].operators, name, me)
      BY <1>4 DEF DeleteUser, ChannelType
    <3>3. QED
      BY <1>4, <3>1, <3>2, EraseNamedProperties
  <2>5. ASSUME NEW target, Moded(c, target)
        PROVE  current # NoFd /\ Operates(self, c) /\ a \in ToSet(channel_users[c])
    <3>1. /\ channels'[c] \in { GiveOp(channels[c], name, target), TakeOp(channels[c], name, target) }
          /\ target \in ToSet(channel_users[c]) /\ Exists(channels[c]) /\ UserIsOp(c)
      BY <1>1, <2>5 DEF Moded, TypeOK
    <3>2. target \in Addr
      BY <1>4, <3>1 DEF ToSet
    <3>3. channels'[c].operators \in { channels[c].operators, Append(channels[c].operators, target),
                                       EraseNamed(channels[c].operators, name, name[target]) }
      BY <1>4, <3>1 DEF GiveOp, TakeOp, ChannelType
    <3>4. /\ ToSet(Append(channels[c].operators, target)) = ToSet(channels[c].operators) \cup {target}
          /\ ToSet(EraseNamed(channels[c].operators, name, name[target]))
               \subseteq ToSet(channels[c].operators)
      BY <1>4, <3>2, AppendElements, EraseNamedProperties
    <3>5. a = target
      BY <3>3, <3>4
    <3>6. QED
      BY <1>1, <2>1, <3>1, <3>5, OperatorCheck
  <2>6. QED
    BY <1>5, <2>2, <2>3, <2>4, <2>5 DEF ListsEdited
<1>6. QED
  BY <1>1, <1>2, <1>3, <1>5, CleanBefore

\* A user becomes an operator by entering a channel without operators, or because
\* an operator of the channel raises one of its registered users.
THEOREM OperatorsAreAppointed == Spec => OperatorsAppointed
<1>1. ListsInv /\ [Next]_vars =>
        (clean' /\ status' = "up" =>
          \A c \in Chan : \A a \in ToSet(channels'[c].operators) \ ToSet(channels[c].operators) :
             \/ /\ Commanding(a) /\ channels[c].operators = << >>
                /\ a \in ToSet(channel_users'[c]) \ ToSet(channel_users[c])
             \/ current # NoFd /\ Operates(self, c) /\ a \in ToSet(channel_users[c]))
  BY OperatorsStep
<1>2. QED
  BY <1>1, ListsInvariant, PTL DEF Spec, OperatorsAppointed

-----------------------------------------------------------------------------
(***************************************************************************)
(* Which command can fail by a pointer.                                    *)
(***************************************************************************)

\* A search reads pointers of the list it searches.
LEMMA SearchedInList == \A list, nm, n : Searched(list, nm, n) \subseteq ToSet(list)
BY DEF Searched, ToSet

\* While the lists are clean, everything they hold leads to a connected user.
LEMMA ListedAreLive ==
    ASSUME ListsInv, clean
    PROVE  /\ MultimapPointers \subseteq live
           /\ ChannelPointers(channels) \subseteq live
           /\ \A c \in Chan : \A nm, n :
                /\ ToSet(channel_users[c]) \subseteq live
                /\ ToSet(channels[c].operators) \subseteq live
                /\ Searched(channel_users[c], nm, n) \subseteq live
                /\ Searched(channels[c].operators, nm, n) \subseteq live
                /\ Searched(channels[c].members, nm, n) \subseteq live
<1>1. \A c \in Chan : /\ ToSet(channel_users[c]) \subseteq live
                      /\ ToSet(channels[c].operators) \subseteq live
                      /\ ToSet(channels[c].members) \subseteq live
  BY CleanChannel DEF ListsInv, Agree
<1>2. MultimapPointers \subseteq live /\ ChannelPointers(channels) \subseteq live
  BY <1>1 DEF MultimapPointers, ChannelPointers
<1>3. QED
  BY <1>1, <1>2, SearchedInList

\* So no handler reads freed memory.
LEMMA NoSegfault ==
    ASSUME ListsInv, clean
    PROVE  /\ ~ Segfault(MultimapPointers)
           /\ \A n : ~ Segfault(DisconnectReads(n))
           /\ \A c \in Chan :
                /\ ~ Segfault(ToSet(channel_users[c]))
                /\ \A n : ~ Segfault(Searched(channel_users[c], name, n))
                /\ ~ Segfault(ToSet(channel_users[c]) \cup Searched(channels[c].operators, name, me)
                                                      \cup Searched(channels[c].members, name, me))
                /\ ~ Segfault(OperatorReads(c))
                /\ \A n : /\ ~ Segfault(TargetReads(c, n))
                          /\ \A mode : ~ Segfault(TargetReads(c, n) \cup PrivilegeReads(c, mode, n))
<1>1. \A S : S \subseteq live => ~ Segfault(S)
  BY DEF Segfault
<1>2. ASSUME NEW n
      PROVE  DisconnectReads(n) \subseteq live
  <2> DEFINE Keys == { d \in Chan : \A e \in FirstKey(n) : d <= e }
             InChannel(c) == Searched(channels[c].operators, name, n)
                               \cup Searched(channels[c].members, name, n)
             InMultimap(c) == Searched(channel_users[c], name, n)
             ReadInChannels == UNION { InChannel(c) : c \in Chan }
             ReadInMultimap == UNION { InMultimap(c) : c \in Keys }
  <2>1. \A c \in Chan : InChannel(c) \subseteq live /\ InMultimap(c) \subseteq live
    BY ListedAreLive
  <2>2. Keys \subseteq Chan
    OBVIOUS
  <2>3. DisconnectReads(n) = ReadInChannels \cup ReadInMultimap
    BY DEF DisconnectReads
  <2> HIDE DEF InChannel, InMultimap, Keys
  <2>4. ReadInChannels \subseteq live
    BY <2>1
  <2>5. ReadInMultimap \subseteq live
    BY <2>1, <2>2
  <2> HIDE DEF ReadInChannels, ReadInMultimap
  <2>6. QED
    BY <2>3, <2>4, <2>5
<1>3. ASSUME NEW c \in Chan
      PROVE  /\ OperatorReads(c) \subseteq live
             /\ \A n : /\ TargetReads(c, n) \subseteq live
                       /\ \A mode : PrivilegeReads(c, mode, n) \subseteq live
  <2>1. OperatorReads(c) \subseteq live
    BY ListedAreLive DEF OperatorReads
  <2>2. ASSUME NEW n
        PROVE  TargetReads(c, n) \subseteq live
    BY <2>1, ListedAreLive DEF TargetReads
  <2>3. ASSUME NEW n, NEW mode
        PROVE  PrivilegeReads(c, mode, n) \subseteq live
    BY ListedAreLive DEF PrivilegeReads
  <2>4. QED
    BY <2>1, <2>2, <2>3
<1>4. ASSUME NEW c \in Chan
      PROVE  /\ ToSet(channel_users[c]) \subseteq live
             /\ \A n : Searched(channel_users[c], name, n) \subseteq live
             /\ ToSet(channel_users[c]) \cup Searched(channels[c].operators, name, me)
                                        \cup Searched(channels[c].members, name, me) \subseteq live
  BY ListedAreLive
<1>5. ASSUME NEW c \in Chan, NEW n, NEW mode
      PROVE  TargetReads(c, n) \cup PrivilegeReads(c, mode, n) \subseteq live
  BY <1>3
<1>6. QED
  BY <1>1, <1>2, <1>3, <1>4, <1>5, ListedAreLive

\* MODE is the one command that is left, and what it dereferences is the pointer
\* to an operator who has no entry in the multimap.
LEMMA PointerStep ==
    ASSUME ListsInv, [Next]_vars, clean, status' = "pointer"
    PROVE  \/ status = "pointer"
           \/ \E c \in Chan : /\ current # NoFd /\ Operates(self, c)
                              /\ self \notin ToSet(channel_users[c])
<1>1. SUFFICES ASSUME status # "pointer"
               PROVE  \E c \in Chan : /\ current # NoFd /\ Operates(self, c)
                                      /\ self \notin ToSet(channel_users[c])
  OBVIOUS
<1>2. status' # status
  BY <1>1
<1>3. \A fd : ~ disconnectUser(fd)
  BY <1>2, NoSegfault DEF disconnectUser, Disconnected
<1>4. ~ UNCHANGED vars /\ ~ connectNewUser /\ ~ EndOnUser
  BY <1>2, <1>3 DEF vars, connectNewUser, EndOnUser
<1>5. \A fd : ~ ReceiveLines(fd) /\ ~ ReceiveEof(fd)
  BY <1>2, <1>3 DEF ReceiveLines, ReceiveEof
<1>6. /\ \A pw : ~ register_pass(pw)
      /\ \A n : ~ register_nickname(n)
      /\ \A nonEmpty : ~ register_username(nonEmpty)
      /\ ~ sendQuit /\ ~ sendFile
  BY <1>2, NoSegfault
  DEF register_pass, register_nickname, register_username, sendQuit, sendFile, OnlySelfChanges
<1>7. ASSUME NEW c \in Chan
      PROVE  /\ ~ sendJoin(c) /\ ~ sendPart(c) /\ ~ sendChannelMsg(c) /\ ~ sendTopic(c)
             /\ \A n : ~ sendKick(c, n)
  BY <1>2, NoSegfault
  DEF sendJoin, sendPart, sendChannelMsg, sendTopic, sendKick, OnlyChannelsChange
<1>8. ~ MissingParameter
  BY DEF MissingParameter, Terminate
<1>9. ASSUME NEW c \in Chan, NEW n \in TargetArg, NEW mode \in {"+o", "-o"}, sendMode(c, mode, n)
      PROVE  current # NoFd /\ Operates(self, c) /\ self \notin ToSet(channel_users[c])
  <2>1. /\ Registered /\ find_user_in_channel(c, n) /\ UserIsOp(c) /\ NullDereferenced(c, mode, n)
    BY <1>2, <1>9, NoSegfault DEF sendMode, OnlyChannelsChange
  <2>2. ToSet(channel_users[c]) # {}
    BY <2>1 DEF find_user_in_channel, Named, ToSet
  <2>3. Exists(channels[c])
    BY <2>2, EntriesExist
  <2>4. ~ Named(channel_users[c], name, me)
    BY <2>1, <2>3 DEF NullDereferenced
  <2>5. name[self] = me
    BY <2>1, SelfAlone DEF ListsInv
  <2>6. self \notin ToSet(channel_users[c])
    BY <2>4, <2>5 DEF Named, ToSet
  <2>7. QED
    BY <2>1, <2>3, <2>6, OperatorCheck
<1>10. QED
  BY <1>4, <1>5, <1>6, <1>7, <1>8, <1>9 DEF Next

\* As long as nobody left without being taken off the lists, no command but MODE
\* can end the server by a pointer, and MODE only for an operator who is not
\* registered in his channel any more, because he has been kicked.
THEOREM OnlyModeFails == Spec => PointerFaultOnlyBy
<1>1. ListsInv /\ [Next]_vars =>
        (clean /\ status' = "pointer" =>
          status = "pointer" \/ \E c \in Chan : /\ current # NoFd /\ Operates(self, c)
                                                /\ self \notin ToSet(channel_users[c]))
  BY PointerStep
<1>2. QED
  BY <1>1, ListsInvariant, PTL DEF Spec, PointerFaultOnlyBy

-----------------------------------------------------------------------------
(***************************************************************************)
(* Who leaves without being taken off all lists.                           *)
(***************************************************************************)
MemberOf(a, c) == a \in ToSet(channels[c].members)

\* While the lists are clean, two users on them have different nicknames, the
\* empty one included: of the users without a nickname at most one is on a list.
ListedNamesDiffer ==
    clean => \A a, b \in live : \A c, d \in Chan :
               MemberOf(a, c) /\ MemberOf(b, d) /\ a # b => heap[a].nickname # heap[b].nickname

\* Members come from a JOIN only.
LEMMA EditedMembers ==
    ASSUME ListsInv, clean, NEW c \in Chan, ListsEdited(c), NEW d \in Chan,
           NEW a \in ToSet(channels'[d].members)
    PROVE  MemberOf(a, d) \/ (a = self /\ Registered)
<1>1. /\ TypeOK /\ Agree(channels[d], channel_users[d], live)
      /\ channels[d] \in ChannelType(Addr) /\ channels[d].members \in Seq(Addr)
  BY CleanChannel DEF ListsInv
<1>2. CASE channels'[d] = channels[d]
  BY <1>2 DEF MemberOf
<1>3. CASE channels'[d] = AddUser(ChannelToJoin(d), self) /\ Registered
  <2>1. /\ ChannelToJoin(d) \in ChannelType(Addr)
        /\ ChannelToJoin(d).members \in Seq(Addr)
    BY <1>1, ChannelToJoinAgrees DEF ChannelType
  <2>2. ToSet(ChannelToJoin(d).members) = ToSet(channels[d].members)
    BY <1>1 DEF ChannelToJoin, Agree, NoChannel
  <2>3. channels'[d].members = Append(ChannelToJoin(d).members, self)
    BY <1>3, <2>1 DEF AddUser, ChannelType
  <2>4. self \in Addr
    BY <1>1, <1>3, SelfType DEF Registered
  <2>5. QED
    BY <1>3, <2>1, <2>2, <2>3, <2>4, AppendElements DEF MemberOf
<1>4. CASE channels'[d] = DeleteUser(channels[d], name, me)
  <2>1. channels'[d].members = EraseNamed(channels[d].members, name, me)
    BY <1>1, <1>4 DEF DeleteUser, ChannelType
  <2>2. QED
    BY <1>1, <2>1, EraseNamedProperties DEF MemberOf
<1>5. ASSUME NEW target,
             channels'[d] \in { GiveOp(channels[d], name, target), TakeOp(channels[d], name, target) }
      PROVE  MemberOf(a, d)
  <2>1. channels'[d].members = channels[d].members
    BY <1>1, <1>5 DEF GiveOp, TakeOp, ChannelType
  <2>2. QED
    BY <2>1 DEF MemberOf
<1>6. QED
  BY <1>1, <1>2, <1>3, <1>4, <1>5 DEF ListsEdited, Joined, Parted, Kicked, Moded, TypeOK

\* ListedNamesDiffer is inductive, given the other invariants.
LEMMA NextListedNames ==
    ASSUME ListsInv, ListedNamesDiffer, [Next]_vars
    PROVE  ListedNamesDiffer'
<1> USE DEF ListsInv
<1>1. SUFFICES ASSUME clean', NEW a \in live', NEW b \in live', NEW c \in Chan, NEW d \in Chan,
                      a \in ToSet(channels'[c].members), b \in ToSet(channels'[d].members), a # b
               PROVE  heap'[a].nickname # heap'[b].nickname
  BY DEF ListedNamesDiffer, MemberOf
<1>2. \A cause : ~ Terminate(cause)
  BY <1>1 DEF Terminate
<1>3. clean
  BY <1>1, <1>2, ListKinds DEF connectNewUser, Disconnected, ListsKept, ListsEdited
<1>4. \A x \in live : x \in Addr
  BY DEF TypeOK
<1>5. \A x : \A e \in Chan : MemberOf(x, e) => x \in live
  BY <1>3, CleanChannel DEF MemberOf, Agree
<1>6. ASSUME MemberOf(a, c), MemberOf(b, d),
             heap'[a].nickname = heap[a].nickname, heap'[b].nickname = heap[b].nickname
      PROVE  heap'[a].nickname # heap'[b].nickname
  BY <1>1, <1>3, <1>5, <1>6 DEF ListedNamesDiffer
<1>7. CASE connectNewUser
  <2>1. PICK x \in Addr \ live : \E fd : heap' = [ heap EXCEPT ![x] = NewUser(fd) ]
    BY <1>7 DEF connectNewUser
  <2>2. MemberOf(a, c) /\ MemberOf(b, d)
    BY <1>1, <1>7 DEF connectNewUser, MemberOf
  <2>3. heap'[a] = heap[a] /\ heap'[b] = heap[b]
    BY <1>4, <1>5, <2>1, <2>2 DEF TypeOK
  <2>4. QED
    BY <1>6, <2>2, <2>3
<1>8. ASSUME NEW fd \in DOMAIN users, Disconnected(fd)
      PROVE  heap'[a].nickname # heap'[b].nickname
  <2>1. LeavesAllLists(users[fd])
    BY <1>1, <1>8 DEF Disconnected
  <2>2. MemberOf(a, c) /\ MemberOf(b, d) /\ a # users[fd] /\ b # users[fd]
    BY <1>1, <2>1 DEF LeavesAllLists, MemberOf
  <2>3. heap'[a] = heap[a] /\ heap'[b] = heap[b]
    BY <1>4, <1>5, <1>8, <2>2 DEF Disconnected, TypeOK
  <2>4. QED
    BY <1>6, <2>2, <2>3
<1>9. ASSUME OnlyListsChange
      PROVE  heap'[a].nickname = heap[a].nickname /\ heap'[b].nickname = heap[b].nickname
  BY <1>1, <1>4, <1>9, ListsFrame DEF OnlyListsChange
<1>10. CASE ListsKept /\ OnlyListsChange
  BY <1>1, <1>6, <1>9, <1>10 DEF ListsKept, MemberOf
<1>11. ASSUME ListsKept, NEW user, Registers(user)
       PROVE  heap'[a].nickname # heap'[b].nickname
  <2>1. MemberOf(a, c) /\ MemberOf(b, d) /\ a \in live /\ b \in live
    BY <1>1, <1>11 DEF ListsKept, MemberOf
  <2>2. heap'[self] = user /\ \A x \in Addr \ {self} : heap'[x] = heap[x]
    BY <1>11, RegistersFrame
  <2>3. me = heap[self].nickname
    BY DEF me
  <2>4. user.nickname = me \/ \A x \in live : heap[x].nickname # user.nickname
    BY <1>11 DEF Registers, check_free_nickname, FdTablesAgree
  <2>5. QED
    BY <1>1, <1>4, <1>6, <2>1, <2>2, <2>3, <2>4
<1>12. ASSUME NEW e \in Chan, ListsEdited(e)
       PROVE  heap'[a].nickname # heap'[b].nickname
  <2>1. /\ heap'[a].nickname = heap[a].nickname /\ heap'[b].nickname = heap[b].nickname
        /\ a \in live /\ b \in live
    BY <1>1, <1>9, <1>12 DEF ListsEdited, OnlyListsChange
  <2>2. /\ MemberOf(a, c) \/ (a = self /\ Registered)
        /\ MemberOf(b, d) \/ (b = self /\ Registered)
    BY <1>1, <1>3, <1>12, EditedMembers
  <2>3. Registered => \A x \in live : heap[x].nickname = heap[self].nickname => x = self
    BY <1>4, SelfAlone DEF name, me
  <2>4. QED
    BY <1>1, <1>6, <2>1, <2>2, <2>3
<1>13. QED
  BY <1>2, <1>7, <1>8, <1>10, <1>11, <1>12, ListKinds

\* In every state the nicknames on clean lists differ.
LEMMA ListedNamesInvariant == Spec => []ListedNamesDiffer
<1>1. Init => ListedNamesDiffer
  BY DEF Init, ListedNamesDiffer
<1>2. ListsInv /\ ListedNamesDiffer /\ [Next]_vars => ListedNamesDiffer'
  BY NextListedNames
<1>3. QED
  BY <1>1, <1>2, ListsInvariant, PTL DEF Spec

\* How often a pointer is in a list.
LEMMA OccurrencesProperties ==
    ASSUME NEW S, NEW list \in Seq(S), NEW x
    PROVE  /\ Occurrences(list, x) \in Nat
           /\ x \in ToSet(list) <=> Occurrences(list, x) # 0
           /\ Occurrences(list, x) > 1 <=> Twice(list, x)
           /\ IsInjective(list) => Occurrences(list, x) <= 1
<1> DEFINE I == { i \in DOMAIN list : list[i] = x }
<1>1. IsFiniteSet(I) /\ Cardinality(I) \in Nat
  <2>1. IsFiniteSet(DOMAIN list)
    BY FS_Interval
  <2>2. QED
    BY <2>1, FS_Subset, FS_CardinalityType
<1>2. Occurrences(list, x) = Cardinality(I)
  BY DEF Occurrences
<1>3. x \in ToSet(list) <=> Cardinality(I) # 0
  <2>1. Cardinality(I) = 0 <=> I = {}
    BY <1>1, FS_EmptySet
  <2>2. QED
    BY <2>1 DEF ToSet
<1>4. Cardinality(I) > 1 <=> \E j, k \in I : j # k
  <2>1. ASSUME NEW j \in I, NEW k \in I, j # k
        PROVE  Cardinality(I) > 1
    <3>1. Cardinality(I) # 0
      BY <1>1, FS_EmptySet
    <3>2. Cardinality(I) # 1
      <4>1. Cardinality(I) = 1 <=> \E y : I = {y}
        BY <1>1, FS_Singleton
      <4>2. QED
        BY <2>1, <4>1
    <3>3. QED
      BY <1>1, <3>1, <3>2
  <2>2. ASSUME ~ \E j, k \in I : j # k
        PROVE  ~ (Cardinality(I) > 1)
    <3> HIDE DEF I
    <3>1. CASE I = {}
      BY <1>1, <3>1, FS_EmptySet
    <3>2. CASE I # {}
      <4>1. PICK j : j \in I
        BY <3>2
      <4>2. I = {j}
        BY <2>2, <4>1
      <4>3. Cardinality(I) = 1
        BY <4>2, FS_Singleton
      <4>4. QED
        BY <4>3
    <3>3. QED
      BY <3>1, <3>2
  <2>3. QED
    BY <2>1, <2>2
<1>5. IsInjective(list) => ~ \E j, k \in I : j # k
  BY DEF IsInjective
<1>6. Cardinality(I) > 1 <=> Twice(list, x)
  BY <1>4 DEF Twice
<1> HIDE DEF I
<1>7. QED
  BY <1>1, <1>2, <1>3, <1>4, <1>5, <1>6

\* If the user e is the only one on a list with the erased nickname, the erase takes
\* him off exactly if he is on it once.
LEMMA ErasedOnce ==
    ASSUME NEW S, NEW list \in Seq(S), NEW nm, NEW n, NEW e, nm[e] = n,
           OnlyNamed(list, nm, n, e)
    PROVE  /\ Named(list, nm, n) <=> e \in ToSet(list)
           /\ ToSet(EraseNamed(list, nm, n)) =
                IF Occurrences(list, e) = 1 THEN ToSet(list) \ {e} ELSE ToSet(list)
<1> DEFINE old == ToSet(list)
           new == ToSet(EraseNamed(list, nm, n))
<1>1. Named(list, nm, n) <=> e \in old
  BY DEF Named, ToSet, OnlyNamed
<1>2. /\ old \ {e} \subseteq new
      /\ ~ Named(list, nm, n) => new = old
      /\ Named(list, nm, n) => (e \in new <=> Twice(list, e))
  BY EraseOnlyOne
<1>3. new \subseteq old
  BY EraseNamedProperties
<1>4. /\ Occurrences(list, e) \in Nat
      /\ e \in old <=> Occurrences(list, e) # 0
      /\ Occurrences(list, e) > 1 <=> Twice(list, e)
  BY OccurrencesProperties
<1> HIDE DEF old, new
<1>5. CASE Occurrences(list, e) = 1
  <2>1. e \in old /\ e \notin new
    BY <1>1, <1>2, <1>4, <1>5
  <2>2. new = old \ {e}
    BY <1>2, <1>3, <2>1
  <2>3. QED
    BY <1>1, <1>5, <2>2 DEF old, new
<1>6. CASE Occurrences(list, e) # 1
  <2>1. e \in old => e \in new
    BY <1>1, <1>2, <1>4, <1>6
  <2>2. new = old
    BY <1>2, <1>3, <2>1
  <2>3. QED
    BY <1>1, <1>6, <2>2 DEF old, new
<1>7. QED
  BY <1>5, <1>6

\* The least key under which a nickname is registered.
LEMMA FirstKeyProperties ==
    ASSUME NEW n
    PROVE  /\ \A c \in FirstKey(n) : c \in Chan /\ Named(channel_users[c], name, n)
           /\ \A c, d \in FirstKey(n) : c = d
           /\ (\E c \in Chan : Named(channel_users[c], name, n)) => FirstKey(n) # {}
<1> DEFINE Keys == { c \in Chan : Named(channel_users[c], name, n) }
<1>1. Keys \in SUBSET Nat
  BY ChanAssumption
<1>2. Keys # {} => Min(Keys) \in Keys /\ \A d \in Keys : Min(Keys) <= d
  BY <1>1, MinOfNaturals
<1>3. \A c : c \in FirstKey(n) <=> c \in Keys /\ \A d \in Keys : c <= d
  BY DEF FirstKey
<1>4. \A c, d \in FirstKey(n) : c = d
  BY <1>1, <1>3
<1> DEFINE least == Min(Keys)
<1> HIDE DEF least
<1>5. Keys # {} => least \in FirstKey(n)
  BY <1>2, <1>3 DEF least
<1>6. QED
  BY <1>3, <1>4, <1>5

\* What a disconnect leaves on the lists, if one user e at most has the nickname.
LEMMA DisconnectedLists ==
    ASSUME ListsInv, clean, NEW fd \in DOMAIN users, Disconnected(fd),
           NEW n, n = heap[users[fd]].nickname, NEW e,
           \A x : \A c \in Chan : MemberOf(x, c) /\ name[x] = n => x = e,
           NEW c \in Chan
    PROVE  /\ channel_users'[c] = IF c \in FirstKey(n) THEN EraseNamed(channel_users[c], name, n)
                                                       ELSE channel_users[c]
           /\ ToSet(channels'[c].members) = ToSet(EraseNamed(channels[c].members, name, n))
           /\ ToSet(channels'[c].operators) = ToSet(EraseNamed(channels[c].operators, name, n))
<1> DEFINE left == [ d \in Chan |-> DeleteUser(channels[d], name, n) ]
<1>1. /\ TypeOK /\ PlacesDistinct(channels)
      /\ channels[c] \in ChannelType(Addr)
      /\ channels[c].members \in Seq(Addr) /\ channels[c].operators \in Seq(Addr)
      /\ channel_users[c] \in Seq(Addr) /\ IsInjective(channel_users[c])
      /\ Agree(channels[c], channel_users[c], live)
  BY CleanChannel DEF ListsInv
<1>2. left \in [ Chan -> ChannelType(Addr) ] /\ \A d \in Chan : left[d].pos = channels[d].pos
  BY <1>1, DeleteUserType DEF TypeOK, DeleteUser, ChannelType
<1>3. /\ left[c] = DeleteUser(channels[c], name, n)
      /\ left[c].members = EraseNamed(channels[c].members, name, n)
      /\ left[c].operators = EraseNamed(channels[c].operators, name, n)
  BY <1>1 DEF DeleteUser, ChannelType
<1>4. channels' = SweepChannels(left)
  BY DEF Disconnected
<1>5. channel_users'[c] = IF c \in FirstKey(n) THEN EraseNamed(channel_users[c], name, n)
                                               ELSE channel_users[c]
  BY DEF Disconnected
<1> HIDE DEF left
<1>6. PlacesDistinct(left)
  BY <1>1, <1>2, SamePlaces
<1>7. OnlyNamed(channels[c].members, name, n, e)
  BY DEF OnlyNamed, MemberOf
<1>8. Agree(left[c], EraseNamed(channel_users[c], name, n), live)
  BY <1>1, <1>3, <1>7, PartAgrees
<1>9. CASE Exists(left[c]) /\ ~ Deleted(left, c)
  BY <1>2, <1>3, <1>4, <1>5, <1>6, <1>9, SweptPlaces
<1>10. CASE ~ (Exists(left[c]) /\ ~ Deleted(left, c))
  <2>1. channels'[c] = NoChannel
    BY <1>2, <1>4, <1>6, <1>10, SweptPlaces
  <2>2. ToSet(NoChannel.members) = {} /\ ToSet(NoChannel.operators) = {}
    BY DEF NoChannel, ToSet
  <2>3. ToSet(left[c].members) = {}
    <3>1. CASE Deleted(left, c)
      BY <1>2, <1>6, <3>1, DeletedAreEmpty DEF ToSet
    <3>2. CASE ~ Exists(left[c])
      BY <1>8, <2>2, <3>2 DEF Agree
    <3>3. QED
      BY <1>10, <3>1, <3>2
  <2>4. ToSet(left[c].operators) = {}
    BY <1>8, <2>3 DEF Agree
  <2>5. QED
    BY <1>3, <1>5, <2>1, <2>2, <2>3, <2>4
<1>11. QED
  BY <1>9, <1>10

\* If nobody else on the lists has the nickname of the user who leaves, he stays on
\* one exactly if he is registered in several channels or listed as a member twice.
LEMMA LeaveAlone ==
    ASSUME ListsInv, clean, NEW fd \in DOMAIN users, Disconnected(fd), NEW a, a = users[fd],
           \A x : \A c \in Chan : MemberOf(x, c) /\ name[x] = heap[a].nickname => x = a
    PROVE  LeavesAllLists(a) <=> ~ (SeveralChannels(a) \/ TwiceMember(a))
<1> DEFINE n == heap[a].nickname
<1>1. name[a] = n
  BY DEF ListsInv, TypeOK, name
<1> HIDE DEF n
<1>2. ASSUME NEW c \in Chan
      PROVE  /\ channel_users[c] \in Seq(Addr) /\ IsInjective(channel_users[c])
             /\ channels[c].members \in Seq(Addr)
             /\ channels[c].operators \in Seq(Addr) /\ IsInjective(channels[c].operators)
             /\ OnlyNamed(channel_users[c], name, n, a)
             /\ OnlyNamed(channels[c].members, name, n, a)
             /\ OnlyNamed(channels[c].operators, name, n, a)
  BY CleanChannel DEF ListsInv, Agree, OnlyNamed, MemberOf, n
<1>3. ASSUME NEW c \in Chan
      PROVE  /\ channel_users'[c] = IF c \in FirstKey(n) THEN EraseNamed(channel_users[c], name, n)
                                                         ELSE channel_users[c]
             /\ ToSet(channels'[c].members) = ToSet(EraseNamed(channels[c].members, name, n))
             /\ ToSet(channels'[c].operators) = ToSet(EraseNamed(channels[c].operators, name, n))
  BY DisconnectedLists DEF n
<1>4. ASSUME NEW c \in Chan
      PROVE  /\ ToSet(channels'[c].operators) = ToSet(channels[c].operators) \ {a}
             /\ ToSet(channels'[c].members) = ToSet(channels[c].members) \ {a}
                  <=> ~ (Occurrences(channels[c].members, a) > 1)
  <2>1. ASSUME NEW list \in Seq(Addr), OnlyNamed(list, name, n, a)
        PROVE  ToSet(EraseNamed(list, name, n)) = ToSet(list) \ {a} <=> ~ (Occurrences(list, a) > 1)
    BY <1>1, <2>1, ErasedOnce, OccurrencesProperties
  <2>2. ~ (Occurrences(channels[c].operators, a) > 1)
    BY <1>2, OccurrencesProperties
  <2>3. QED
    BY <1>2, <1>3, <2>1, <2>2
<1>5. ASSUME NEW c \in Chan
      PROVE  ToSet(channel_users'[c]) = ToSet(channel_users[c]) \ {a}
               <=> (a \in ToSet(channel_users[c]) => c \in FirstKey(n))
  <2>1. ToSet(EraseNamed(channel_users[c], name, n)) = ToSet(channel_users[c]) \ {a}
    BY <1>1, <1>2, ErasedOnce, OccurrencesProperties
  <2>2. QED
    BY <1>3, <2>1
<1>6. (\A c \in Chan : a \in ToSet(channel_users[c]) => c \in FirstKey(n)) <=> ~ SeveralChannels(a)
  <2>1. \A c \in Chan : Named(channel_users[c], name, n) <=> a \in ToSet(channel_users[c])
    BY <1>1, <1>2, ErasedOnce
  <2>2. /\ \A c \in FirstKey(n) : c \in Chan /\ a \in ToSet(channel_users[c])
        /\ \A c, d \in FirstKey(n) : c = d
        /\ (\E c \in Chan : a \in ToSet(channel_users[c])) => FirstKey(n) # {}
    BY <2>1, FirstKeyProperties
  <2>3. QED
    BY <2>2 DEF SeveralChannels
<1>7. LeavesAllLists(a) <=> \A c \in Chan : /\ a \in ToSet(channel_users[c]) => c \in FirstKey(n)
                                            /\ ~ (Occurrences(channels[c].members, a) > 1)
  BY <1>4, <1>5 DEF LeavesAllLists
<1>8. QED
  BY <1>6, <1>7 DEF TwiceMember

\* If another user on the lists has his nickname, which then is the empty one, the
\* other is taken off in his place wherever he is listed once.
LEMMA LeaveForAnother ==
    ASSUME ListsInv, clean, NEW fd \in DOMAIN users, Disconnected(fd), NEW a, a = users[fd],
           NEW e, name[e] = heap[a].nickname,
           \A x : \A c \in Chan : MemberOf(x, c) /\ name[x] = heap[a].nickname => x = e,
           \A c \in Chan : ~ MemberOf(a, c)
    PROVE  LeavesAllLists(a) <=>
             \A c \in Chan :
               \A list \in { channel_users[c], channels[c].members, channels[c].operators } :
                 Occurrences(list, e) # 1
<1> DEFINE n == heap[a].nickname
<1>1. name[e] = n
  OBVIOUS
<1> HIDE DEF n
<1>2. ASSUME NEW c \in Chan
      PROVE  /\ channel_users[c] \in Seq(Addr) /\ IsInjective(channel_users[c])
             /\ channels[c].members \in Seq(Addr) /\ channels[c].operators \in Seq(Addr)
             /\ OnlyNamed(channel_users[c], name, n, e)
             /\ OnlyNamed(channels[c].members, name, n, e)
             /\ OnlyNamed(channels[c].operators, name, n, e)
             /\ a \notin ToSet(channel_users[c]) /\ a \notin ToSet(channels[c].members)
             /\ a \notin ToSet(channels[c].operators)
  BY CleanChannel DEF ListsInv, Agree, OnlyNamed, MemberOf, n
<1>3. ASSUME NEW c \in Chan
      PROVE  /\ channel_users'[c] = IF c \in FirstKey(n) THEN EraseNamed(channel_users[c], name, n)
                                                         ELSE channel_users[c]
             /\ ToSet(channels'[c].members) = ToSet(EraseNamed(channels[c].members, name, n))
             /\ ToSet(channels'[c].operators) = ToSet(EraseNamed(channels[c].operators, name, n))
  BY DisconnectedLists DEF n
<1>4. ASSUME NEW list \in Seq(Addr), OnlyNamed(list, name, n, e), a \notin ToSet(list)
      PROVE  ToSet(EraseNamed(list, name, n)) = ToSet(list) \ {a} <=> Occurrences(list, e) # 1
  BY <1>1, <1>4, ErasedOnce, OccurrencesProperties
<1>5. ASSUME NEW c \in Chan
      PROVE  /\ ToSet(channels'[c].operators) = ToSet(channels[c].operators) \ {a}
                  <=> Occurrences(channels[c].operators, e) # 1
             /\ ToSet(channels'[c].members) = ToSet(channels[c].members) \ {a}
                  <=> Occurrences(channels[c].members, e) # 1
             /\ ToSet(channel_users'[c]) = ToSet(channel_users[c]) \ {a}
                  <=> (c \in FirstKey(n) => Occurrences(channel_users[c], e) # 1)
  BY <1>2, <1>3, <1>4
<1>6. (\A c \in Chan : c \in FirstKey(n) => Occurrences(channel_users[c], e) # 1)
        <=> \A c \in Chan : Occurrences(channel_users[c], e) # 1
  <2>1. \A c \in Chan : Named(channel_users[c], name, n) <=> Occurrences(channel_users[c], e) = 1
    <3>1. ASSUME NEW c \in Chan
          PROVE  e \in ToSet(channel_users[c]) <=> Occurrences(channel_users[c], e) = 1
      BY <1>2, OccurrencesProperties
    <3>2. QED
      BY <1>1, <1>2, <3>1, ErasedOnce
  <2>2. QED
    BY <2>1, FirstKeyProperties
<1>7. QED
  BY <1>5, <1>6 DEF LeavesAllLists

\* Whether a disconnect leaves the lists clean.
LEMMA CleanLeaveStep ==
    ASSUME ListsInv, ListedNamesDiffer, [Next]_vars, clean, status' = "up", NEW a \in live \ live'
    PROVE  clean' <=> ~ (SeveralChannels(a) \/ TwiceMember(a) \/ SharesNoNick(a))
<1>1. TypeOK
  BY DEF ListsInv
<1>2. PICK fd \in DOMAIN users : Disconnected(fd)
  <2>1. \A cause \in Cause : ~ Terminate(cause)
    BY DEF Terminate, Cause
  <2>2. ~ connectNewUser /\ ~ ListsKept /\ \A c : ~ ListsEdited(c)
    BY DEF connectNewUser, ListsKept, ListsEdited, OnlyListsChange
  <2>3. QED
    BY <1>1, <2>1, <2>2, ListKinds
<1>3. a = users[fd] /\ clean' = LeavesAllLists(a)
  BY <1>2 DEF Disconnected, LeavesAllLists
<1>4. \A x \in live : x \in Addr /\ name[x] = heap[x].nickname
  BY <1>1 DEF TypeOK, name
<1>5. ASSUME NEW c \in Chan
      PROVE  /\ ToSet(channel_users[c]) \subseteq ToSet(channels[c].members)
             /\ ToSet(channels[c].operators) \subseteq ToSet(channels[c].members)
             /\ ToSet(channels[c].members) \subseteq live
             /\ channels[c].members \in Seq(Addr)
  BY CleanChannel DEF ListsInv, Agree
<1>6. \A x, c : c \in Chan /\ MemberOf(x, c) => x \in live
  BY <1>5 DEF MemberOf
<1>7. CASE \A x : \A c \in Chan : MemberOf(x, c) /\ name[x] = heap[a].nickname => x = a
  <2>1. LeavesAllLists(a) <=> ~ (SeveralChannels(a) \/ TwiceMember(a))
    BY <1>2, <1>3, <1>7, LeaveAlone
  <2>2. ~ SharesNoNick(a)
    <3>1. SUFFICES ASSUME NEW c \in Chan, NEW b \in ToSet(channels[c].members) \ {a},
                          heap[a].nickname = NoNick, heap[b].nickname = NoNick
                   PROVE  FALSE
      BY <1>5 DEF SharesNoNick
    <3>2. MemberOf(b, c) /\ name[b] = heap[a].nickname
      BY <1>4, <1>5, <3>1 DEF MemberOf
    <3>3. QED
      BY <1>7, <3>1, <3>2
  <2>3. QED
    BY <1>3, <2>1, <2>2
<1>8. ASSUME NEW e, NEW d \in Chan, MemberOf(e, d), name[e] = heap[a].nickname, e # a
      PROVE  clean' <=> ~ (SeveralChannels(a) \/ TwiceMember(a) \/ SharesNoNick(a))
  <2>1. \A x : \A c \in Chan : MemberOf(x, c) /\ name[x] = heap[a].nickname => x = e
    BY <1>4, <1>6, <1>8 DEF ListedNamesDiffer
  <2>2. \A c \in Chan : ~ MemberOf(a, c)
    BY <1>4, <1>8, <2>1
  <2>3. heap[a].nickname = NoNick
    <3>1. PICK f \in DOMAIN users : e = users[f]
      BY <1>6, <1>8 DEF ListsInv, FdTablesAgree
    <3>2. heap[users[f]].nickname = heap[users[fd]].nickname /\ f # fd
      BY <1>3, <1>4, <1>6, <1>8, <3>1
    <3>3. QED
      BY <1>3, <3>1, <3>2 DEF ListsInv, NicknamesUnique
  <2>4. ~ SeveralChannels(a)
    BY <1>5, <2>2 DEF SeveralChannels, MemberOf
  <2>5. ~ TwiceMember(a)
    <3>1. \A c \in Chan : Occurrences(channels[c].members, a) = 0
      BY <1>5, <2>2, OccurrencesProperties DEF MemberOf
    <3>2. QED
      BY <3>1 DEF TwiceMember
  <2>6. \A c \in Chan : \A b \in ToSet(channels[c].members) \ {a} :
          heap[b].nickname = NoNick <=> b = e
    BY <1>4, <1>5, <1>6, <1>8, <2>1, <2>3 DEF MemberOf
  <2> DEFINE ListsOf(c) == { channel_users[c], channels[c].members, channels[c].operators }
  <2>7. ASSUME NEW c \in Chan, NEW list \in ListsOf(c)
        PROVE  /\ Occurrences(list, e) = 1 => e \in ToSet(list)
               /\ ToSet(list) \subseteq ToSet(channels[c].members)
    <3>1. list \in Seq(Addr)
      BY <1>1, <1>5 DEF TypeOK, ChannelType
    <3>2. Occurrences(list, e) = 1 => e \in ToSet(list)
      BY <3>1, OccurrencesProperties
    <3>3. ToSet(list) \subseteq ToSet(channels[c].members)
      BY <1>5
    <3>4. QED
      BY <3>2, <3>3
  <2>8. SharesNoNick(a) <=> \E c \in Chan : \E list \in ListsOf(c) : Occurrences(list, e) = 1
    <3>1. SharesNoNick(a) <=>
            /\ heap[a].nickname = NoNick
            /\ \E c \in Chan : \E list \in ListsOf(c) : \E b \in ToSet(list) \ {a} :
                 heap[b].nickname = NoNick /\ Occurrences(list, b) = 1
      BY DEF SharesNoNick
    <3> HIDE DEF ListsOf
    <3>2. ASSUME NEW c \in Chan, NEW list \in ListsOf(c)
          PROVE  (\E b \in ToSet(list) \ {a} : heap[b].nickname = NoNick /\ Occurrences(list, b) = 1)
                   <=> Occurrences(list, e) = 1
      BY <1>8, <2>6, <2>7
    <3>3. QED
      BY <2>3, <3>1, <3>2
  <2>9. LeavesAllLists(a) <=> ~ SharesNoNick(a)
    BY <1>2, <1>3, <1>8, <2>1, <2>2, <2>8, LeaveForAnother
  <2>10. QED
    BY <1>3, <2>4, <2>5, <2>9
<1>9. QED
  BY <1>7, <1>8

\* A disconnect leaves pointers to the deleted User behind, or takes somebody else
\* off a list, exactly for a user registered in several channels, one listed twice
\* as a member, and one without a nickname while another such user is on a list.
THEOREM WhoLeavesCleanly == Spec => CleanLeaveIff
<1>1. ListsInv /\ ListedNamesDiffer /\ [Next]_vars =>
        (clean /\ status' = "up" =>
          \A a \in live \ live' :
             clean' <=> ~ (SeveralChannels(a) \/ TwiceMember(a) \/ SharesNoNick(a)))
  BY CleanLeaveStep
<1>2. QED
  BY <1>1, ListsInvariant, ListedNamesInvariant, PTL DEF Spec, CleanLeaveIff
=============================================================================
