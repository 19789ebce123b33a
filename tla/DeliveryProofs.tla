--------------------------- MODULE DeliveryProofs ---------------------------
(***************************************************************************)
(* Proofs about Delivery.tla, for every set of clients and channels and    *)
(* every capacity of the sockets: the types of the variables, the order in *)
(* which a client gets the messages of another one, and that what he has   *)
(* been told of the members of a channel is true.                          *)
(***************************************************************************)
EXTENDS Delivery, SequenceLemmas

-----------------------------------------------------------------------------
(* Types.                                                                  *)

Items == [ from : Client, no : Nat, cmd : Commands ]
Messages == [ from : Client, no : Nat, first : Nat, cmd : Commands,
              names : SUBSET Client, deferred : BOOLEAN ]
Sendings == [ to : Client, msg : Messages ]

\* The types of all variables.
Typed ==
    /\ connected \in SUBSET Client /\ lists \in [ Chan -> Seq(Client) ]
    /\ waiting \in [ Client -> Seq(Items) ] /\ issued \in [ Client -> 0 .. MaxCommands ]
    /\ current \in connected \cup {Nobody} /\ first \in Nat
    /\ _dataToSend \in Seq(Items)
    /\ sends \in Seq(Sendings) /\ command_function \in Seq(Sendings)
    /\ written \in 0 .. Len(command_function) /\ quit \in BOOLEAN
    /\ unread \in [ Client -> 0 .. Capacity ]
    /\ peer \in [ Client -> {"open", "closed", "broken"} ]
    /\ status \in {"up", "killed", "dangling"}
    /\ sent \in [ Client -> Seq(Messages) ]
    /\ view \in [ Client -> [ Chan -> SUBSET Client ] ]
    /\ stale \in [ Client -> SUBSET Chan ]

\* The entries of a channel are different and connected.
EntriesAlive ==
    status # "dangling" =>
      \A ch \in Chan : IsInjective(lists[ch]) /\ ToSet(lists[ch]) \subseteq connected

-----------------------------------------------------------------------------
(* The order.                                                              *)

Repeated == {"NICK", "DCC", "QUIT"}

\* Message b may reach a client who has got message a before.
MayFollow(a, b) ==
    a.from = b.from /\ a.no >= b.no =>
      IF a.no = b.no THEN a.cmd.kind \in Repeated
      ELSE a.first = b.first /\ ~ a.deferred /\ b.deferred

\* The commands that wait have numbers above that of message a, and a message of the
\* batch in work has its first number.
Older(a) ==
    /\ a.no <= issued[a.from]
    /\ \A k \in DOMAIN waiting[a.from] : a.no < waiting[a.from][k].no
    /\ a.from = current =>
         /\ \A k \in DOMAIN _dataToSend : a.no < _dataToSend[k].no
         /\ a.no >= first => a.first = first

\* The commands of a client who waits are his, with ascending numbers.
Ordered(items, c) ==
    /\ \A i \in DOMAIN items : items[i].from = c /\ items[i].no <= issued[c]
    /\ \A i, j \in DOMAIN items : i < j => items[i].no < items[j].no

CommandsOrdered ==
    /\ \A c \in Client : Ordered(waiting[c], c)
    /\ Ordered(_dataToSend, current)
    /\ current # Nobody =>
         \A i \in DOMAIN _dataToSend, k \in DOMAIN waiting[current] :
           _dataToSend[i].no < waiting[current][k].no

\* What is under way is the current client's.
PhaseOK ==
    /\ current = Nobody =>
         /\ _dataToSend = << >> /\ sends = << >> /\ command_function = << >> /\ ~ quit
    /\ written > 0 => _dataToSend = << >> /\ sends = << >>
    /\ \A i \in DOMAIN sends :
         LET msg == sends[i].msg
         IN  msg.from = current /\ msg.first = first /\ ~ msg.deferred
    /\ \A i \in DOMAIN command_function :
         LET msg == command_function[i].msg
         IN  msg.from = current /\ msg.first = first /\ msg.deferred

MessagesOlder ==
    /\ \A r \in Client : \A i \in DOMAIN sent[r] : Older(sent[r][i])
    /\ \A i \in DOMAIN sends : Older(sends[i].msg)
    /\ \A i \in DOMAIN command_function : Older(command_function[i].msg)

Pending == (written + 1) .. Len(command_function)

SentThenDirect ==
    \A r \in Client : \A i \in DOMAIN sent[r], j \in DOMAIN sends :
      sends[j].to = r => MayFollow(sent[r][i], sends[j].msg)
SentThenDeferred ==
    \A r \in Client : \A i \in DOMAIN sent[r], j \in Pending :
      command_function[j].to = r => MayFollow(sent[r][i], command_function[j].msg)
DirectInOrder ==
    \A i, j \in DOMAIN sends :
      i < j /\ sends[i].to = sends[j].to => MayFollow(sends[i].msg, sends[j].msg)
DeferredInOrder ==
    \A i, j \in Pending :
      i < j /\ command_function[i].to = command_function[j].to
        => MayFollow(command_function[i].msg, command_function[j].msg)
DirectThenDeferred ==
    \A i \in DOMAIN sends, j \in Pending :
      sends[i].to = command_function[j].to
        => MayFollow(sends[i].msg, command_function[j].msg)

-----------------------------------------------------------------------------
(* The views.                                                              *)

\* The entries that will be gone when the current client has quit.
Going == IF quit THEN {current} ELSE {}

\* The answers to a JOIN of channel ch that are still to be written.
Joins(ch) ==
    { j \in Pending : command_function[j].msg.cmd.kind = "JOIN" /\ command_function[j].msg.cmd.chan = ch }

\* Client r knows the members of a channel, if v are the names he has: whether he is
\* there himself, and if so who of those alive is, the ones that are going apart.
Knows(r, v, members, alive, going) ==
    /\ r \in v <=> r \in members
    /\ r \in members => (v \cap alive) \ going = members \ going
Right(r, ch, v) == Knows(r, v, ToSet(lists[ch]), connected, Going)

\* Client r is promised a true view of channel ch.
Owed(r, ch) ==
    /\ r \in connected /\ peer[r] = "open" /\ ch \notin stale[r]
    /\ r = current => ~ quit

\* A direct message to client r is under way.
IsTold(r) == \E i \in DOMAIN sends : sends[i].to = r

OneDirectMessage == \A i, j \in DOMAIN sends : sends[i].msg = sends[j].msg
AnswersAreOwn ==
    \A j \in DOMAIN command_function :
      LET cmd == command_function[j].msg.cmd
      IN  /\ cmd.kind \in {"PING", "NICK", "JOIN", "PRIVMSG"}
          /\ cmd.kind = "JOIN" => command_function[j].to = current

\* The last answer to a JOIN, a direct message under way, or what he has been told.
NamesRight ==
    status = "up" =>
      \A ch \in Chan : \A j \in Joins(ch) :
        Owed(current, ch) /\ (\A k \in Joins(ch) : k <= j)
          => Right(current, ch, command_function[j].msg.names)
DirectRight ==
    status = "up" =>
      \A ch \in Chan : \A i \in DOMAIN sends :
        LET r == sends[i].to
        IN  Owed(r, ch) /\ (r = current => Joins(ch) = {})
              => Right(r, ch, Told(r, sends[i].msg)[ch])
ViewRight ==
    status = "up" =>
      \A r \in Client, ch \in Chan :
        Owed(r, ch) /\ (r = current => Joins(ch) = {}) /\ ~ IsTold(r)
          => Right(r, ch, view[r][ch])

Views == OneDirectMessage /\ AnswersAreOwn /\ NamesRight /\ DirectRight /\ ViewRight

-----------------------------------------------------------------------------
(* Sequences.                                                              *)

\* Appending after and taking from the front of a sequence, element by element.
LEMMA TailElements ==
    ASSUME NEW S, NEW s \in Seq(S), s # << >>
    PROVE  /\ Tail(s) \in Seq(S) /\ Head(s) = s[1] /\ Head(s) \in S
           /\ Len(s) \in Nat \ {0} /\ Len(Tail(s)) = Len(s) - 1
           /\ 1 \in DOMAIN s
           /\ \A i \in DOMAIN Tail(s) : i + 1 \in DOMAIN s /\ i \in Nat /\ Tail(s)[i] = s[i + 1]
<1>1. /\ Len(s) \in Nat \ {0} /\ DOMAIN s = 1 .. Len(s) /\ Head(s) = s[1]
  BY EmptySeq, LenProperties
<1>2. /\ Head(s) \in S /\ Tail(s) \in Seq(S) /\ Len(Tail(s)) = Len(s) - 1
      /\ \A i \in 1 .. Len(Tail(s)) : Tail(s)[i] = s[i + 1]
  BY HeadTailProperties
<1>3. DOMAIN Tail(s) = 1 .. (Len(s) - 1)
  BY <1>2, LenProperties
<1>4. QED
  BY <1>1, <1>2, <1>3

-----------------------------------------------------------------------------
(* Types of what a command sends.                                          *)

LEMMA CommandFields ==
    ASSUME NEW cmd \in Commands
    PROVE  /\ cmd.kind \in {"PING", "NICK", "QUIT", "JOIN", "PART", "MSG", "TOPIC",
                            "PRIVMSG", "DCC", "KICK"}
           /\ cmd.kind \in {"JOIN", "PART", "MSG", "TOPIC", "KICK"} => cmd.chan \in Chan
           /\ cmd.kind \in {"PRIVMSG", "DCC", "KICK"} => cmd.target \in Client
BY DEF Commands

\* The channels of a client, each once.
LEMMA OwnChannelsProperties ==
    ASSUME NEW c
    PROVE  /\ OwnChannels(c) \in Seq(Chan)
           /\ ToSet(OwnChannels(c)) = { ch \in Chan : On(c, ch) }
           /\ IsInjective(OwnChannels(c))
<1> DEFINE S == { ch \in Chan : On(c, ch) }
<1>1. S \in SUBSET Int /\ IsFiniteSet(S)
  <2>1. S \in SUBSET Chan
    OBVIOUS
  <2> HIDE DEF S
  <2>2. QED
    BY <2>1, DeliveryAssumption, FS_Subset DEF DeliveryAssumption
<1>2. OwnChannels(c) = Ascending(S)
  BY DEF OwnChannels
<1>3. S \subseteq Chan
  OBVIOUS
<1> HIDE DEF S
<1>4. Ascending(S) \in Seq(S) /\ ToSet(Ascending(S)) = S
  BY <1>1, AscendingProperties
<1>5. Ascending(S) \in Seq(Chan)
  BY <1>3, <1>4, SeqMonotonic
<1>6. IsInjective(Ascending(S))
  BY <1>1, AscendingIsInjective
<1>7. QED
  BY <1>2, <1>4, <1>5, <1>6 DEF S

LEMMA ReceiversType ==
    ASSUME lists \in [ Chan -> Seq(Client) ], NEW c \in Client, NEW cmd \in Commands
    PROVE  /\ Direct(c, cmd) \in Seq(Client)
           /\ Deferred(c, cmd) \in Seq(Client)
           /\ ListsAfter(c, cmd) \in [ Chan -> Seq(Client) ]
<1>1. \A ch \in Chan : lists[ch] \in Seq(Client)
  OBVIOUS
<1>2. \A d \in Client, ch \in Chan : Others(d, ch) \in Seq(Client)
  BY <1>1, RemoveFirstProperties DEF Others
<1>3. << >> \in Seq(Client)
  OBVIOUS
<1>4. OnOwnChannels(c) \in Seq(Client)
  <2> DEFINE ss == [ i \in DOMAIN OwnChannels(c) |-> Others(c, OwnChannels(c)[i]) ]
  <2>1. OwnChannels(c) \in Seq(Chan) /\ Len(OwnChannels(c)) \in Nat
        /\ DOMAIN OwnChannels(c) = 1 .. Len(OwnChannels(c))
    BY OwnChannelsProperties, LenProperties
  <2>2. \A i \in DOMAIN OwnChannels(c) : Others(c, OwnChannels(c)[i]) \in Seq(Client)
    BY <1>2, <2>1, ElementOfSeq
  <2>3. ss \in Seq(Seq(Client))
    BY <2>1, <2>2
  <2> HIDE DEF ss
  <2>4. FlattenSeq(ss) \in Seq(Client)
    BY <2>3, FlattenSeqType
  <2>5. QED
    BY <2>4 DEF OnOwnChannels, ss
<1>5. ASSUME NEW d \in Client
      PROVE  OncePerEntry(d) \in Seq(Client)
  <2>1. Len(OwnChannels(d)) \in Nat
    BY OwnChannelsProperties, LenProperties
  <2>2. QED
    BY <2>1 DEF OncePerEntry
<1>6. Direct(c, cmd) \in Seq(Client)
  <2>1. CASE cmd.kind = "MSG"
    BY <1>2, <2>1, CommandFields DEF Direct
  <2>2. CASE cmd.kind = "JOIN"
    BY <1>1, <1>3, <2>2, CommandFields DEF Direct, ToldOfJoin
  <2>3. CASE cmd.kind \in {"PART", "TOPIC"}
    BY <1>1, <2>3, CommandFields DEF Direct, Everyone
  <2>4. CASE cmd.kind = "KICK"
    BY <1>1, <1>3, <2>4, CommandFields DEF Direct, ToldOfKick, Everyone
  <2>5. CASE cmd.kind \in {"NICK", "QUIT"}
    BY <1>4, <2>5 DEF Direct
  <2>6. CASE cmd.kind = "DCC"
    BY <1>5, <2>6, CommandFields DEF Direct
  <2>7. CASE cmd.kind \in {"PING", "PRIVMSG"}
    BY <1>3, <2>7 DEF Direct
  <2>8. QED
    BY <2>1, <2>2, <2>3, <2>4, <2>5, <2>6, <2>7, CommandFields
<1>7. Deferred(c, cmd) \in Seq(Client)
  <2>1. CASE cmd.kind = "PRIVMSG"
    BY <1>3, <2>1, CommandFields DEF Deferred
  <2>2. CASE cmd.kind # "PRIVMSG"
    BY <1>3, <2>2 DEF Deferred
  <2>3. QED
    BY <2>1, <2>2
<1>8. ListsAfter(c, cmd) \in [ Chan -> Seq(Client) ]
  <2>1. CASE cmd.kind = "JOIN"
    <3>1. Append(lists[cmd.chan], c) \in Seq(Client) /\ cmd.chan \in Chan
      BY <1>1, <2>1, CommandFields, AppendProperties
    <3>2. QED
      BY <2>1, <3>1 DEF ListsAfter
  <2>2. CASE cmd.kind = "PART"
    <3>1. RemoveFirst(lists[cmd.chan], c) \in Seq(Client) /\ cmd.chan \in Chan
      BY <1>1, <2>2, CommandFields, RemoveFirstProperties
    <3>2. QED
      BY <2>2, <3>1 DEF ListsAfter
  <2>3. CASE cmd.kind = "KICK"
    <3>1. RemoveFirst(lists[cmd.chan], cmd.target) \in Seq(Client) /\ cmd.chan \in Chan
      BY <1>1, <2>3, CommandFields, RemoveFirstProperties
    <3>2. QED
      BY <2>3, <3>1 DEF ListsAfter
  <2>4. QED
    BY <2>1, <2>2, <2>3 DEF ListsAfter
<1>9. QED
  BY <1>6, <1>7, <1>8

LEMMA AddressedProperties ==
    ASSUME NEW receivers \in Seq(Client), NEW msg \in Messages
    PROVE  /\ Addressed(receivers, msg) \in Seq(Sendings)
           /\ DOMAIN Addressed(receivers, msg) = DOMAIN receivers
           /\ Len(Addressed(receivers, msg)) = Len(receivers)
           /\ \A i \in DOMAIN receivers :
                Addressed(receivers, msg)[i].to = receivers[i]
                /\ Addressed(receivers, msg)[i].msg = msg
<1>1. Len(receivers) \in Nat /\ DOMAIN receivers = 1 .. Len(receivers)
  BY LenProperties
<1>2. \A i \in DOMAIN receivers : receivers[i] \in Client
  BY <1>1, ElementOfSeq
<1>3. \A i \in DOMAIN receivers : [ to |-> receivers[i], msg |-> msg ] \in Sendings
  BY <1>2 DEF Sendings
<1>4. Addressed(receivers, msg) \in Seq(Sendings)
  BY <1>1, <1>3 DEF Addressed
<1>5. Len(Addressed(receivers, msg)) = Len(receivers)
  BY <1>1 DEF Addressed
<1>6. QED
  BY <1>4, <1>5 DEF Addressed

LEMMA MessageType ==
    ASSUME NEW item \in Items, NEW names \in SUBSET Client, NEW deferred \in BOOLEAN,
           first \in Nat
    PROVE  Message(item, names, deferred) \in Messages
BY DEF Message, Messages, Items

-----------------------------------------------------------------------------
(* All variables keep their types.                                         *)

LEMMA ToldType ==
    ASSUME Typed, NEW r \in Client, NEW msg \in Messages
    PROVE  Told(r, msg) \in [ Chan -> SUBSET Client ]
<1>1. /\ view[r] \in [ Chan -> SUBSET Client ] /\ msg.from \in Client
      /\ msg.names \in SUBSET Client /\ msg.deferred \in BOOLEAN /\ msg.cmd \in Commands
  BY DEF Typed, Messages
<1>2. /\ [ view[r] EXCEPT ![msg.cmd.chan] = msg.names ] \in [ Chan -> SUBSET Client ]
      /\ [ view[r] EXCEPT ![msg.cmd.chan] = @ \cup {msg.from} ] \in [ Chan -> SUBSET Client ]
      /\ [ view[r] EXCEPT ![msg.cmd.chan] = @ \ {msg.from} ] \in [ Chan -> SUBSET Client ]
      /\ [ view[r] EXCEPT ![msg.cmd.chan] = @ \ {msg.cmd.target} ] \in [ Chan -> SUBSET Client ]
      /\ [ d \in Chan |-> view[r][d] \ {msg.from} ] \in [ Chan -> SUBSET Client ]
  BY <1>1
<1>3. QED
  <2>1. CASE msg.cmd.kind = "JOIN"
    BY <1>1, <1>2, <2>1 DEF Told
  <2>2. CASE msg.cmd.kind = "PART"
    BY <1>2, <2>2 DEF Told
  <2>3. CASE msg.cmd.kind = "KICK"
    BY <1>2, <2>3 DEF Told
  <2>4. CASE msg.cmd.kind = "QUIT"
    BY <1>2, <2>4 DEF Told
  <2>5. CASE msg.cmd.kind \notin {"JOIN", "PART", "KICK", "QUIT"}
    BY <1>1, <2>5 DEF Told
  <2>6. QED
    BY <2>1, <2>2, <2>3, <2>4, <2>5

LEMMA SendType ==
    ASSUME Typed, NEW r \in Client, NEW msg \in Messages, Send(r, msg)
    PROVE  /\ unread' \in [ Client -> 0 .. Capacity ]
           /\ peer' \in [ Client -> {"open", "closed", "broken"} ]
           /\ status' \in {"up", "killed", "dangling"}
           /\ sent' \in [ Client -> Seq(Messages) ]
           /\ view' \in [ Client -> [ Chan -> SUBSET Client ] ]
<1>1. CASE Arrives(r, msg)
  <2>1. Capacity \in Nat
    BY DeliveryAssumption DEF DeliveryAssumption
  <2>2. unread[r] + 1 \in 0 .. Capacity
    BY <1>1, <2>1 DEF Arrives, Typed
  <2>3. unread' \in [ Client -> 0 .. Capacity ]
    BY <1>1, <2>2 DEF Arrives, Typed
  <2>4. Append(sent[r], msg) \in Seq(Messages)
    <3>1. sent[r] \in Seq(Messages)
      BY DEF Typed
    <3>2. QED
      BY <3>1, AppendProperties
  <2>5. sent' \in [ Client -> Seq(Messages) ]
    BY <1>1, <2>4 DEF Arrives, Typed
  <2>6. view' \in [ Client -> [ Chan -> SUBSET Client ] ]
    <3>1. Told(r, msg) \in [ Chan -> SUBSET Client ]
      BY ToldType
    <3>2. QED
      BY <1>1, <3>1 DEF Arrives, Typed
  <2>7. QED
    BY <1>1, <2>3, <2>5, <2>6 DEF Arrives, Typed
<1>2. CASE IsLost(r)
  BY <1>2 DEF IsLost, Typed
<1>3. CASE Kills(r)
  BY <1>3 DEF Kills, Typed
<1>4. QED
  BY <1>1, <1>2, <1>3 DEF Send

LEMMA DisconnectType ==
    ASSUME Typed, NEW c \in Client, Disconnect(c)
    PROVE  /\ connected' = connected \ {c}
           /\ lists' \in [ Chan -> Seq(Client) ]
           /\ status' \in {"up", "killed", "dangling"}
<1>1. CASE OwnChannels(c) = << >>
  BY <1>1 DEF Disconnect, Typed
<1>2. CASE OwnChannels(c) # << >>
  <2>1. OwnChannels(c)[1] \in Chan
    BY <1>2, OwnChannelsProperties, EmptySeq, ElementOfSeq
  <2>2. RemoveFirst(lists[OwnChannels(c)[1]], c) \in Seq(Client)
    <3>1. lists[OwnChannels(c)[1]] \in Seq(Client)
      BY <2>1 DEF Typed
    <3>2. QED
      BY <3>1, RemoveFirstProperties
  <2>3. QED
    BY <1>2, <2>1, <2>2 DEF Disconnect, Typed
<1>3. QED
  BY <1>1, <1>2

\* What the running client's next line and next message are.
LEMMA RunningTypes ==
    ASSUME Typed
    PROVE  /\ Running => current \in Client /\ current \in connected
           /\ _dataToSend # << >> =>
                Head(_dataToSend) \in Items /\ Tail(_dataToSend) \in Seq(Items)
           /\ sends # << >> =>
                /\ Head(sends) \in Sendings /\ Tail(sends) \in Seq(Sendings)
                /\ Head(sends).to \in Client /\ Head(sends).msg \in Messages
           /\ written < Len(command_function) =>
                /\ written + 1 \in 1 .. Len(command_function)
                /\ command_function[written + 1].to \in Client
                /\ command_function[written + 1].msg \in Messages
<1>1. Running => current \in Client /\ current \in connected
  BY DEF Typed, Running
<1>2. _dataToSend # << >> =>
        Head(_dataToSend) \in Items /\ Tail(_dataToSend) \in Seq(Items)
  BY HeadTailProperties DEF Typed
<1>3. sends # << >> => Head(sends) \in Sendings /\ Tail(sends) \in Seq(Sendings)
  BY HeadTailProperties DEF Typed
<1>4. written < Len(command_function) => written + 1 \in 1 .. Len(command_function)
  BY LenProperties DEF Typed
<1>5. written < Len(command_function) => command_function[written + 1] \in Sendings
  BY <1>4, ElementOfSeq DEF Typed
<1>6. QED
  BY <1>1, <1>2, <1>3, <1>4, <1>5 DEF Sendings

\* The elements of the sequences.
LEMMA ElementTypes ==
    ASSUME Typed
    PROVE  /\ \A c \in Client : \A i \in DOMAIN waiting[c] :
                waiting[c][i] \in Items /\ waiting[c][i].no \in Nat
           /\ \A i \in DOMAIN _dataToSend : _dataToSend[i] \in Items /\ _dataToSend[i].no \in Nat
           /\ \A i \in DOMAIN sends :
                sends[i] \in Sendings /\ sends[i].to \in Client /\ sends[i].msg \in Messages
           /\ \A i \in DOMAIN command_function :
                /\ command_function[i] \in Sendings
                /\ command_function[i].to \in Client /\ command_function[i].msg \in Messages
           /\ \A r \in Client : \A i \in DOMAIN sent[r] : sent[r][i] \in Messages
<1>1. ASSUME NEW S, NEW s \in Seq(S), NEW i \in DOMAIN s
      PROVE  s[i] \in S
  BY ElementOfSeq, LenProperties
<1>2. /\ \A c \in Client : waiting[c] \in Seq(Items)
      /\ _dataToSend \in Seq(Items) /\ sends \in Seq(Sendings)
      /\ command_function \in Seq(Sendings)
      /\ \A r \in Client : sent[r] \in Seq(Messages)
  BY DEF Typed
<1>3. /\ \A x \in Items : x.no \in Nat
      /\ \A x \in Sendings : x.to \in Client /\ x.msg \in Messages
  BY DEF Items, Sendings
<1>4. QED
  BY <1>1, <1>2, <1>3

\* What Invoke adds is well typed.
LEMMA InvokeTypes ==
    ASSUME Typed, Running, _dataToSend # << >>,
           NEW names \in SUBSET Client
    PROVE  LET item == Head(_dataToSend)
               direct == Message(item, {}, FALSE)
               answer == Message(item, names, TRUE)
           IN  /\ item \in Items /\ item.cmd \in Commands
               /\ direct \in Messages /\ answer \in Messages
               /\ Addressed(Direct(current, item.cmd), direct) \in Seq(Sendings)
               /\ Addressed(Deferred(current, item.cmd), answer) \in Seq(Sendings)
<1> DEFINE item == Head(_dataToSend)
<1>1. item \in Items /\ current \in Client
  BY RunningTypes
<1>2. item.cmd \in Commands
  BY <1>1 DEF Items
<1>3. Message(item, {}, FALSE) \in Messages /\ Message(item, names, TRUE) \in Messages
  BY <1>1, MessageType DEF Typed
<1>4. Direct(current, item.cmd) \in Seq(Client) /\ Deferred(current, item.cmd) \in Seq(Client)
  BY <1>1, <1>2, ReceiversType DEF Typed
<1>5. QED
  BY <1>1, <1>2, <1>3, <1>4, AddressedProperties

\* The names a JOIN is answered with are clients.
LEMMA NamesType ==
    ASSUME Typed, Running, _dataToSend # << >>
    PROVE  LET cmd == Head(_dataToSend).cmd
               names == IF cmd.kind = "JOIN" THEN ToSet(ListsAfter(current, cmd)[cmd.chan]) ELSE {}
           IN  names \in SUBSET Client
<1> DEFINE cmd == Head(_dataToSend).cmd
<1>1. cmd \in Commands /\ current \in Client
  BY RunningTypes DEF Items
<1>2. ListsAfter(current, cmd) \in [ Chan -> Seq(Client) ]
  BY <1>1, ReceiversType DEF Typed
<1>3. CASE cmd.kind = "JOIN"
  <2>1. ListsAfter(current, cmd)[cmd.chan] \in Seq(Client)
    BY <1>1, <1>2, <1>3, CommandFields
  <2>2. ToSet(ListsAfter(current, cmd)[cmd.chan]) \subseteq Client
    BY <2>1, ElementOfSeq, LenProperties DEF ToSet
  <2>3. QED
    BY <2>2
<1>4. QED
  BY <1>3

LEMMA TypedInit == Init => Typed
<1>1. SUFFICES ASSUME Init
               PROVE  Typed
  OBVIOUS
<1>2. PICK on \in [ Chan -> SUBSET Client ] :
        /\ lists = [ ch \in Chan |-> Ascending(on[ch]) ]
        /\ view = [ c \in Client |-> on ]
  BY <1>1 DEF Init
<1>3. ASSUME NEW ch \in Chan
      PROVE  Ascending(on[ch]) \in Seq(Client)
  <2>1. on[ch] \in SUBSET Client
    OBVIOUS
  <2>2. on[ch] \in SUBSET Int /\ IsFiniteSet(on[ch])
    BY <2>1, DeliveryAssumption, FS_Subset DEF DeliveryAssumption
  <2>3. Ascending(on[ch]) \in Seq(on[ch])
    BY <2>2, AscendingProperties
  <2>4. QED
    BY <2>1, <2>3, SeqMonotonic
<1>4. lists \in [ Chan -> Seq(Client) ] /\ view \in [ Client -> [ Chan -> SUBSET Client ] ]
  BY <1>2, <1>3
<1>5. Capacity \in Nat /\ MaxCommands \in Nat
  BY DeliveryAssumption DEF DeliveryAssumption
<1>6. << >> \in Seq(Items) /\ << >> \in Seq(Sendings) /\ << >> \in Seq(Messages) /\ Len(<< >>) = 0
  BY EmptySeq
<1>7. /\ waiting \in [ Client -> Seq(Items) ] /\ issued \in [ Client -> 0 .. MaxCommands ]
      /\ unread \in [ Client -> 0 .. Capacity ] /\ sent \in [ Client -> Seq(Messages) ]
      /\ peer \in [ Client -> {"open", "closed", "broken"} ]
      /\ stale \in [ Client -> SUBSET Chan ]
  BY <1>1, <1>5, <1>6 DEF Init
<1>8. /\ connected \in SUBSET Client /\ current \in connected \cup {Nobody} /\ first \in Nat
      /\ _dataToSend \in Seq(Items) /\ sends \in Seq(Sendings)
      /\ command_function \in Seq(Sendings) /\ written \in 0 .. Len(command_function)
      /\ quit \in BOOLEAN /\ status \in {"up", "killed", "dangling"}
  <2>1. /\ connected = Client /\ current = Nobody /\ first = 0 /\ _dataToSend = << >>
        /\ sends = << >> /\ command_function = << >> /\ written = 0 /\ quit = FALSE
        /\ status = "up"
    BY <1>1 DEF Init
  <2>2. Len(command_function) = 0 /\ written \in 0 .. Len(command_function)
    BY <1>6, <2>1
  <2>3. QED
    BY <1>6, <2>1, <2>2
<1>9. QED
  BY <1>4, <1>7, <1>8 DEF Typed

LEMMA TypedStep ==
    ASSUME Typed, [Next]_vars
    PROVE  Typed'
<1>1. ASSUME NEW c \in Client, Issue(c)
      PROVE  Typed'
  <2>1. PICK cmd \in Commands :
          waiting' = [ waiting EXCEPT ![c] =
                         Append(@, [ from |-> c, no |-> issued[c] + 1, cmd |-> cmd ]) ]
    BY <1>1 DEF Issue
  <2>2. MaxCommands \in Nat /\ issued[c] \in Nat /\ issued[c] + 1 \in 0 .. MaxCommands
    <3>1. MaxCommands \in Nat
      BY DeliveryAssumption DEF DeliveryAssumption
    <3>2. issued[c] \in 0 .. MaxCommands
      BY DEF Typed
    <3>3. issued[c] < MaxCommands
      BY <1>1 DEF Issue
    <3>4. QED
      BY <3>1, <3>2, <3>3
  <2>3. [ from |-> c, no |-> issued[c] + 1, cmd |-> cmd ] \in Items
    BY <2>2 DEF Items
  <2>4. waiting' \in [ Client -> Seq(Items) ]
    <3>1. waiting[c] \in Seq(Items)
      BY DEF Typed
    <3>2. Append(waiting[c], [ from |-> c, no |-> issued[c] + 1, cmd |-> cmd ]) \in Seq(Items)
      BY <2>3, <3>1, AppendProperties
    <3>3. QED
      BY <2>1, <3>2 DEF Typed
  <2>5. issued' \in [ Client -> 0 .. MaxCommands ]
    BY <1>1, <2>2 DEF Issue, Typed
  <2>6. QED
    BY <1>1, <2>4, <2>5 DEF Issue, Typed, server, histories
<1>2. ASSUME NEW c \in Client, Read(c)
      PROVE  Typed'
  <2>1. unread[c] - 1 \in 0 .. Capacity
    BY <1>2, DeliveryAssumption DEF DeliveryAssumption, Read, Typed
  <2>2. QED
    BY <1>2, <2>1 DEF Read, Typed, server, histories
<1>3. ASSUME NEW c \in Client, Close(c)
      PROVE  Typed'
  BY <1>3 DEF Close, Typed, server, histories
<1>4. ASSUME NEW c \in Client, Serve(c)
      PROVE  Typed'
  <2>1. waiting[c] \in Seq(Items) /\ waiting[c] # << >>
    BY <1>4 DEF Serve, Typed
  <2>2. waiting[c][1] \in Items
    BY <2>1, TailElements
  <2>3. first' \in Nat /\ _dataToSend' \in Seq(Items)
    BY <1>4, <2>1, <2>2 DEF Serve, Items
  <2>4. waiting' \in [ Client -> Seq(Items) ]
    BY <1>4, EmptySeq DEF Serve, Typed
  <2>5. QED
    BY <1>4, <2>3, <2>4 DEF Serve, Typed, histories
<1>5. ASSUME NEW c \in Client, ReceiveEof(c)
      PROVE  Typed'
  <2>1. /\ connected' = connected \ {c} /\ lists' \in [ Chan -> Seq(Client) ]
        /\ status' \in {"up", "killed", "dangling"} /\ current = Nobody
    BY <1>5, DisconnectType DEF ReceiveEof
  <2>2. current' \in connected' \cup {Nobody}
    BY <1>5, <2>1 DEF ReceiveEof
  <2>3. QED
    BY <1>5, <2>1, <2>2 DEF ReceiveEof, Typed, sockets, histories
<1>6. CASE Invoke
  <2> DEFINE item == Head(_dataToSend)
             cmd == item.cmd
             names == IF cmd.kind = "JOIN" THEN ToSet(ListsAfter(current, cmd)[cmd.chan]) ELSE {}
             direct == Addressed(Direct(current, cmd), Message(item, {}, FALSE))
             answer == Addressed(Deferred(current, cmd), Message(item, names, TRUE))
  <2>1. Running /\ _dataToSend # << >> /\ current \in Client /\ current \in connected
    BY <1>6, RunningTypes DEF Invoke
  <2>2. names \in SUBSET Client
    BY <2>1, NamesType
  <2>3. /\ cmd \in Commands /\ direct \in Seq(Sendings) /\ answer \in Seq(Sendings)
        /\ Tail(_dataToSend) \in Seq(Items)
    <3> HIDE DEF names
    <3>1. QED
      BY <2>1, <2>2, InvokeTypes, RunningTypes
  <2>4. /\ sends' = direct /\ command_function' = command_function \o answer
        /\ lists' = ListsAfter(current, cmd) /\ quit' = (quit \/ cmd.kind = "QUIT")
        /\ _dataToSend' = Tail(_dataToSend)
    BY <1>6 DEF Invoke
  <2>5. stale' \in [ Client -> SUBSET Chan ]
    <3>1. \E T \in SUBSET Chan : stale' = [ stale EXCEPT ![current] = T ]
      BY <1>6 DEF Invoke
    <3>2. QED
      BY <3>1 DEF Typed
  <2> HIDE DEF item, direct, answer
  <2>6. /\ command_function \o answer \in Seq(Sendings)
        /\ Len(command_function \o answer) = Len(command_function) + Len(answer)
        /\ Len(answer) \in Nat /\ Len(command_function) \in Nat
    BY <2>3, ConcatProperties, LenProperties DEF Typed
  <2>7. ListsAfter(current, cmd) \in [ Chan -> Seq(Client) ]
    BY <2>1, <2>3, ReceiversType DEF Typed
  <2>8. written \in 0 .. Len(command_function')
    BY <2>4, <2>6 DEF Typed
  <2>9. /\ connected' = connected /\ current' = current /\ first' = first /\ written' = written
        /\ waiting' = waiting /\ issued' = issued /\ unread' = unread /\ peer' = peer
        /\ sent' = sent /\ view' = view /\ status' = status
    BY <1>6 DEF Invoke, sockets
  <2>10. sends' \in Seq(Sendings) /\ command_function' \in Seq(Sendings) /\ quit' \in BOOLEAN
    BY <2>3, <2>4, <2>6 DEF Typed
  <2>11. QED
    BY <2>3, <2>4, <2>5, <2>7, <2>8, <2>9, <2>10 DEF Typed
<1>7. CASE SendDirect
  <2>1. /\ Head(sends).to \in Client /\ Head(sends).msg \in Messages
        /\ Tail(sends) \in Seq(Sendings)
        /\ Send(Head(sends).to, Head(sends).msg)
    BY <1>7, RunningTypes DEF SendDirect
  <2>2. /\ unread' \in [ Client -> 0 .. Capacity ]
        /\ peer' \in [ Client -> {"open", "closed", "broken"} ]
        /\ status' \in {"up", "killed", "dangling"}
        /\ sent' \in [ Client -> Seq(Messages) ]
        /\ view' \in [ Client -> [ Chan -> SUBSET Client ] ]
    BY <2>1, SendType
  <2>3. QED
    BY <1>7, <2>1, <2>2 DEF SendDirect, Typed
<1>8. CASE Write
  <2> DEFINE e == command_function[written + 1]
  <2>1. /\ written + 1 \in 1 .. Len(command_function)
        /\ e.to \in Client /\ e.msg \in Messages /\ Send(e.to, e.msg)
    BY <1>8, RunningTypes DEF Write
  <2>2. /\ unread' \in [ Client -> 0 .. Capacity ]
        /\ peer' \in [ Client -> {"open", "closed", "broken"} ]
        /\ status' \in {"up", "killed", "dangling"}
        /\ sent' \in [ Client -> Seq(Messages) ]
        /\ view' \in [ Client -> [ Chan -> SUBSET Client ] ]
    BY <2>1, SendType
  <2>3. written' \in 0 .. Len(command_function') /\ command_function' = command_function
    BY <1>8, <2>1 DEF Write
  <2>4. QED
    BY <1>8, <2>2, <2>3 DEF Write, Typed
<1>9. CASE EndOnUser
  <2>1. /\ current \in Client
        /\ current' = Nobody /\ quit' = FALSE /\ command_function' = << >> /\ written' = 0
    BY <1>9, RunningTypes DEF EndOnUser, Constructed
  <2>2. /\ connected' \in SUBSET Client /\ lists' \in [ Chan -> Seq(Client) ]
        /\ status' \in {"up", "killed", "dangling"}
    <3>1. CASE quit
      BY <1>9, <2>1, <3>1, DisconnectType DEF EndOnUser, Typed
    <3>2. CASE ~ quit
      BY <1>9, <3>2 DEF EndOnUser, Typed
    <3>3. QED
      BY <3>1, <3>2
  <2>3. command_function' \in Seq(Sendings) /\ written' \in 0 .. Len(command_function')
    BY <2>1, EmptySeq
  <2>4. QED
    BY <1>9, <2>1, <2>2, <2>3 DEF EndOnUser, Typed, sockets, histories
<1>10. CASE UNCHANGED vars
  BY <1>10 DEF vars, server, sockets, histories, Typed
<1>11. QED
  BY <1>1, <1>2, <1>3, <1>4, <1>5, <1>6, <1>7, <1>8, <1>9, <1>10 DEF Next, Process

-----------------------------------------------------------------------------
(* The entries of the channels.                                            *)

\* How a command changes who is on a channel.
LEMMA ListsAfterEntries ==
    ASSUME Typed, \A ch \in Chan : IsInjective(lists[ch]),
           NEW c \in Client, NEW cmd \in Commands, NEW ch \in Chan
    PROVE  /\ IsInjective(ListsAfter(c, cmd)[ch])
           /\ ToSet(ListsAfter(c, cmd)[ch]) =
                IF ch = cmd.chan /\ cmd.kind = "JOIN" THEN ToSet(lists[ch]) \cup {c}
                ELSE IF ch = cmd.chan /\ cmd.kind = "PART" THEN ToSet(lists[ch]) \ {c}
                ELSE IF ch = cmd.chan /\ cmd.kind = "KICK" THEN ToSet(lists[ch]) \ {cmd.target}
                ELSE ToSet(lists[ch])
<1>1. lists[ch] \in Seq(Client) /\ IsInjective(lists[ch]) /\ lists \in [ Chan -> Seq(Client) ]
  BY DEF Typed
<1>2. CASE cmd.kind = "JOIN" /\ ch = cmd.chan
  <2>1. CASE On(c, ch)
    <3>1. ListsAfter(c, cmd) = lists /\ c \in ToSet(lists[ch])
      BY <1>2, <2>1 DEF ListsAfter, On
    <3>2. QED
      BY <1>1, <1>2, <3>1
  <2>2. CASE ~ On(c, ch)
    <3>1. ListsAfter(c, cmd)[ch] = Append(lists[ch], c) /\ c \notin ToSet(lists[ch])
      BY <1>1, <1>2, <2>2 DEF ListsAfter, On
    <3>2. QED
      BY <1>1, <1>2, <3>1, AppendElements
  <2>3. QED
    BY <2>1, <2>2
<1>3. CASE cmd.kind = "PART" /\ ch = cmd.chan
  <2>1. ListsAfter(c, cmd)[ch] = RemoveFirst(lists[ch], c)
    BY <1>1, <1>3 DEF ListsAfter
  <2>2. QED
    BY <1>1, <1>3, <2>1, RemoveFirstProperties
<1>4. CASE cmd.kind = "KICK" /\ ch = cmd.chan
  <2>1. ListsAfter(c, cmd)[ch] = RemoveFirst(lists[ch], cmd.target)
    BY <1>1, <1>4 DEF ListsAfter
  <2>2. QED
    BY <1>1, <1>4, <2>1, RemoveFirstProperties
<1>5. CASE ~ (cmd.kind \in {"JOIN", "PART", "KICK"} /\ ch = cmd.chan)
  <2>1. ListsAfter(c, cmd)[ch] = lists[ch]
    BY <1>1, <1>5 DEF ListsAfter
  <2>2. QED
    BY <1>1, <1>5, <2>1
<1>6. QED
  BY <1>2, <1>3, <1>4, <1>5

\* The disconnect of a client with at most one entry takes this entry and no other.
LEMMA DisconnectEntries ==
    ASSUME Typed, \A ch \in Chan : IsInjective(lists[ch]),
           NEW c \in Client, Disconnect(c), status' # "dangling", NEW ch \in Chan
    PROVE  IsInjective(lists'[ch]) /\ ToSet(lists'[ch]) = ToSet(lists[ch]) \ {c}
<1> DEFINE own == OwnChannels(c)
<1>1. /\ own \in Seq(Chan) /\ ToSet(own) = { d \in Chan : On(c, d) } /\ Len(own) \in Nat
      /\ DOMAIN own = 1 .. Len(own) /\ (own = << >> <=> Len(own) = 0)
  BY OwnChannelsProperties, LenProperties, EmptySeq
<1>2. Len(own) <= 1
  <2>1. ~ (Len(own) > 1)
    BY DEF Disconnect
  <2>2. QED
    BY <1>1, <2>1
<1>3. lists' = IF own = << >> THEN lists ELSE [ lists EXCEPT ![own[1]] = RemoveFirst(@, c) ]
  BY DEF Disconnect
<1>4. lists[ch] \in Seq(Client) /\ IsInjective(lists[ch]) /\ lists \in [ Chan -> Seq(Client) ]
  BY DEF Typed
<1> HIDE DEF own
<1>5. CASE own = << >>
  <2>1. ~ On(c, ch)
    BY <1>1, <1>5 DEF ToSet
  <2>2. QED
    BY <1>3, <1>4, <1>5, <2>1 DEF On
<1>6. CASE own # << >>
  <2>1. ToSet(own) = {own[1]} /\ own[1] \in Chan
    <3>1. Len(own) = 1 /\ DOMAIN own = {1}
      BY <1>1, <1>2, <1>6
    <3>2. QED
      BY <1>1, <3>1 DEF ToSet
  <2>2. CASE ch = own[1]
    <3>1. lists'[ch] = RemoveFirst(lists[ch], c)
      BY <1>3, <1>4, <1>6, <2>2
    <3>2. QED
      BY <1>4, <3>1, RemoveFirstProperties
  <2>3. CASE ch # own[1]
    <3>1. lists'[ch] = lists[ch] /\ ~ On(c, ch)
      BY <1>1, <1>3, <1>4, <1>6, <2>1, <2>3
    <3>2. QED
      BY <1>4, <3>1 DEF On
  <2>4. QED
    BY <2>2, <2>3
<1>7. QED
  BY <1>5, <1>6

LEMMA EntriesAliveStep ==
    ASSUME Typed, EntriesAlive, [Next]_vars
    PROVE  EntriesAlive'
<1>1. ASSUME status = "up", NEW c \in Client, Disconnect(c)
      PROVE  EntriesAlive'
  <2>1. SUFFICES ASSUME status' # "dangling", NEW ch \in Chan
                 PROVE  IsInjective(lists'[ch]) /\ ToSet(lists'[ch]) \subseteq connected'
    BY DEF EntriesAlive
  <2>2. \A d \in Chan : IsInjective(lists[d]) /\ ToSet(lists[d]) \subseteq connected
    BY <1>1 DEF EntriesAlive
  <2>3. IsInjective(lists'[ch]) /\ ToSet(lists'[ch]) = ToSet(lists[ch]) \ {c}
    BY <1>1, <2>1, <2>2, DisconnectEntries
  <2>4. connected' = connected \ {c}
    BY <1>1 DEF Disconnect
  <2>5. QED
    BY <2>2, <2>3, <2>4
<1>2. ASSUME UNCHANGED << lists, connected, status >>
      PROVE  EntriesAlive'
  BY <1>2 DEF EntriesAlive
<1>3. ASSUME Running, UNCHANGED << lists, connected >>
      PROVE  EntriesAlive'
  BY <1>3 DEF EntriesAlive, Running
<1>4. ASSUME NEW c \in Client, Issue(c) \/ Read(c) \/ Close(c) \/ Serve(c)
      PROVE  EntriesAlive'
  BY <1>2, <1>4 DEF Issue, Read, Close, Serve, server
<1>5. ASSUME NEW c \in Client, ReceiveEof(c)
      PROVE  EntriesAlive'
  BY <1>1, <1>5 DEF ReceiveEof
<1>6. CASE Invoke
  <2> DEFINE cmd == Head(_dataToSend).cmd
  <2>1. /\ cmd \in Commands /\ current \in Client /\ current \in connected
        /\ \A ch \in Chan : IsInjective(lists[ch]) /\ ToSet(lists[ch]) \subseteq connected
    BY <1>6, RunningTypes DEF Invoke, Running, Items, EntriesAlive
  <2>2. lists' = ListsAfter(current, cmd) /\ connected' = connected
    BY <1>6 DEF Invoke
  <2> HIDE DEF cmd
  <2>3. ASSUME NEW ch \in Chan
        PROVE  IsInjective(lists'[ch]) /\ ToSet(lists'[ch]) \subseteq connected'
    BY <2>1, <2>2, ListsAfterEntries
  <2>4. QED
    BY <2>3 DEF EntriesAlive
<1>7. CASE SendDirect \/ Write
  BY <1>3, <1>7 DEF SendDirect, Write, Constructed
<1>8. CASE EndOnUser
  <2>1. Running /\ current \in Client
    BY <1>8, RunningTypes DEF EndOnUser, Constructed
  <2>2. QED
    BY <1>1, <1>2, <1>8, <2>1 DEF EndOnUser, Running
<1>9. CASE UNCHANGED vars
  BY <1>2, <1>9 DEF vars, server
<1>10. QED
  BY <1>4, <1>5, <1>6, <1>7, <1>8, <1>9 DEF Next, Process

LEMMA EntriesAliveInit == Init => EntriesAlive
<1>1. SUFFICES ASSUME Init, NEW ch \in Chan
               PROVE  IsInjective(lists[ch]) /\ ToSet(lists[ch]) \subseteq connected
  BY DEF EntriesAlive
<1>2. PICK on \in [ Chan -> SUBSET Client ] : lists = [ d \in Chan |-> Ascending(on[d]) ]
  BY <1>1 DEF Init
<1>3. on[ch] \in SUBSET Int /\ IsFiniteSet(on[ch]) /\ on[ch] \subseteq Client
  <2>1. on[ch] \in SUBSET Client
    OBVIOUS
  <2>2. QED
    BY <2>1, DeliveryAssumption, FS_Subset DEF DeliveryAssumption
<1>4. IsInjective(lists[ch]) /\ ToSet(lists[ch]) = on[ch]
  BY <1>2, <1>3, AscendingProperties, AscendingIsInjective
<1>5. QED
  BY <1>1, <1>3, <1>4 DEF Init

-----------------------------------------------------------------------------
(* What Invoke and the sends do, element by element.                       *)

NextItem == Head(_dataToSend)
NextNames ==
    IF NextItem.cmd.kind = "JOIN"
    THEN ToSet(ListsAfter(current, NextItem.cmd)[NextItem.cmd.chan]) ELSE {}
NextMessage == Message(NextItem, {}, FALSE)
NextAnswer == Message(NextItem, NextNames, TRUE)

\* At most one message of a command is kept for User::write.
LEMMA DeferredCases ==
    ASSUME NEW c, NEW cmd \in Commands
    PROVE  \/ Deferred(c, cmd) = << >>
           \/ /\ \E r : Deferred(c, cmd) = << r >>
              /\ cmd.kind \in {"PING", "NICK", "JOIN", "PRIVMSG"}
              /\ cmd.kind = "JOIN" => Deferred(c, cmd) = << c >> /\ ~ On(c, cmd.chan)
<1>1. CASE cmd.kind = "PRIVMSG"
  <2>1. Deferred(c, cmd) = << >> \/ Deferred(c, cmd) = << cmd.target >>
    BY <1>1 DEF Deferred
  <2>2. QED
    BY <1>1, <2>1
<1>2. CASE cmd.kind \in {"PING", "NICK"}
  BY <1>2 DEF Deferred
<1>3. CASE cmd.kind = "JOIN"
  BY <1>3 DEF Deferred
<1>4. CASE cmd.kind \notin {"PING", "NICK", "JOIN", "PRIVMSG"}
  BY <1>4 DEF Deferred
<1>5. QED
  BY <1>1, <1>2, <1>3, <1>4

LEMMA InvokeEffects ==
    ASSUME Typed, Invoke
    PROVE  /\ current \in Client /\ current \in connected /\ status = "up"
           /\ NextItem \in Items /\ NextItem.cmd \in Commands
           /\ NextItem = _dataToSend[1] /\ 1 \in DOMAIN _dataToSend
           /\ NextMessage \in Messages /\ NextAnswer \in Messages
           /\ sends = << >> /\ _dataToSend # << >> /\ _dataToSend' = Tail(_dataToSend)
           /\ lists' = ListsAfter(current, NextItem.cmd)
           /\ quit' = (quit \/ NextItem.cmd.kind = "QUIT")
           /\ DOMAIN sends' = DOMAIN Direct(current, NextItem.cmd)
           /\ \A i \in DOMAIN sends' :
                /\ sends'[i].to = Direct(current, NextItem.cmd)[i]
                /\ sends'[i].msg = NextMessage
           /\ DOMAIN command_function \subseteq DOMAIN command_function'
           /\ \A i \in DOMAIN command_function : command_function'[i] = command_function[i]
           /\ \A i \in DOMAIN command_function' \ DOMAIN command_function :
                /\ i = Len(command_function) + 1
                /\ Deferred(current, NextItem.cmd) # << >>
                /\ command_function'[i].to = Deferred(current, NextItem.cmd)[1]
                /\ command_function'[i].msg = NextAnswer
           /\ Deferred(current, NextItem.cmd) # << >> =>
                Len(command_function) + 1 \in DOMAIN command_function' \ DOMAIN command_function
           /\ connected' = connected /\ current' = current /\ first' = first
           /\ written' = written /\ waiting' = waiting /\ issued' = issued /\ peer' = peer
           /\ sent' = sent /\ view' = view /\ status' = status
<1>1. /\ Running /\ sends = << >> /\ _dataToSend # << >>
      /\ sends' = Addressed(Direct(current, NextItem.cmd), NextMessage)
      /\ command_function' =
           command_function \o Addressed(Deferred(current, NextItem.cmd), NextAnswer)
      /\ lists' = ListsAfter(current, NextItem.cmd)
      /\ quit' = (quit \/ NextItem.cmd.kind = "QUIT")
      /\ _dataToSend' = Tail(_dataToSend)
  BY DEF Invoke, NextItem, NextNames, NextMessage, NextAnswer
<1>2. /\ connected' = connected /\ current' = current /\ first' = first
      /\ written' = written /\ waiting' = waiting /\ issued' = issued /\ peer' = peer
      /\ sent' = sent /\ view' = view /\ status' = status
  BY DEF Invoke, sockets
<1>3. current \in Client /\ current \in connected /\ status = "up"
  BY <1>1, RunningTypes DEF Running
<1>4. NextItem \in Items /\ NextItem.cmd \in Commands
  BY <1>1, RunningTypes DEF NextItem, Items
<1>5. NextItem = _dataToSend[1] /\ 1 \in DOMAIN _dataToSend
  BY <1>1, TailElements DEF NextItem, Typed
<1>6. NextNames \in SUBSET Client
  BY <1>1, NamesType DEF NextNames, NextItem
<1>7. NextMessage \in Messages /\ NextAnswer \in Messages
  BY <1>4, <1>6, MessageType DEF NextMessage, NextAnswer, Typed
<1>8. /\ Direct(current, NextItem.cmd) \in Seq(Client)
      /\ Deferred(current, NextItem.cmd) \in Seq(Client)
  BY <1>3, <1>4, ReceiversType DEF Typed
<1>9. /\ DOMAIN sends' = DOMAIN Direct(current, NextItem.cmd)
      /\ \A i \in DOMAIN sends' :
           /\ sends'[i].to = Direct(current, NextItem.cmd)[i]
           /\ sends'[i].msg = NextMessage
  BY <1>1, <1>7, <1>8, AddressedProperties
<1> DEFINE deferred == Deferred(current, NextItem.cmd)
           answers == Addressed(deferred, NextAnswer)
<1>10. /\ answers \in Seq(Sendings) /\ DOMAIN answers = DOMAIN deferred
       /\ Len(answers) = Len(deferred)
       /\ \A i \in DOMAIN deferred : answers[i].to = deferred[i] /\ answers[i].msg = NextAnswer
  BY <1>7, <1>8, AddressedProperties
<1>11. deferred = << >> \/ \E r : deferred = << r >>
  BY <1>4, DeferredCases
<1> HIDE DEF answers, deferred
<1>12. /\ DOMAIN answers = IF deferred = << >> THEN {} ELSE {1}
       /\ Len(answers) = IF deferred = << >> THEN 0 ELSE 1
  <2>1. DOMAIN answers = 1 .. Len(answers)
    BY <1>10, LenProperties
  <2>2. Len(deferred) = IF deferred = << >> THEN 0 ELSE 1
    BY <1>11
  <2>3. QED
    BY <1>10, <2>1, <2>2
<1>13. /\ command_function' \in Seq(Sendings) /\ command_function \in Seq(Sendings)
       /\ Len(command_function') = Len(command_function) + Len(answers)
       /\ \A i \in 1 .. Len(command_function) + Len(answers) :
            command_function'[i] = IF i <= Len(command_function) THEN command_function[i]
                                   ELSE answers[i - Len(command_function)]
  <2>1. command_function' = command_function \o answers
    BY <1>1 DEF answers, deferred
  <2>2. command_function \in Seq(Sendings) /\ answers \in Seq(Sendings)
    BY <1>10 DEF Typed
  <2>3. /\ command_function \o answers \in Seq(Sendings)
        /\ Len(command_function \o answers) = Len(command_function) + Len(answers)
        /\ \A i \in 1 .. Len(command_function) + Len(answers) :
             (command_function \o answers)[i] =
               IF i <= Len(command_function) THEN command_function[i]
               ELSE answers[i - Len(command_function)]
    BY <2>2, ConcatProperties
  <2>4. QED
    BY <2>1, <2>2, <2>3, Zenon
<1>14. /\ DOMAIN command_function = 1 .. Len(command_function) /\ Len(command_function) \in Nat
       /\ DOMAIN command_function' = 1 .. (Len(command_function) + Len(answers))
  BY <1>13, LenProperties
<1>15. /\ DOMAIN command_function \subseteq DOMAIN command_function'
       /\ \A i \in DOMAIN command_function : command_function'[i] = command_function[i]
  BY <1>12, <1>13, <1>14
<1>16. ASSUME NEW i \in DOMAIN command_function' \ DOMAIN command_function
       PROVE  /\ i = Len(command_function) + 1 /\ deferred # << >>
              /\ command_function'[i].to = deferred[1]
              /\ command_function'[i].msg = NextAnswer
  <2>1. i = Len(command_function) + 1 /\ deferred # << >>
    BY <1>12, <1>14
  <2>2. command_function'[i] = answers[1] /\ 1 \in DOMAIN deferred
    BY <1>10, <1>12, <1>13, <1>14, <2>1
  <2>3. QED
    BY <1>10, <2>1, <2>2
<1>17. deferred # << >> =>
         Len(command_function) + 1 \in DOMAIN command_function' \ DOMAIN command_function
  BY <1>12, <1>14
<1>18. QED
  BY <1>1, <1>2, <1>3, <1>4, <1>5, <1>7, <1>9, <1>15, <1>16, <1>17 DEF deferred

\* A send() adds at most its message, behind what its receiver has got.
LEMMA SentAfter ==
    ASSUME Typed, NEW r \in Client, NEW msg \in Messages, Send(r, msg),
           NEW q \in Client
    PROVE  /\ \A i \in DOMAIN sent'[q] :
                \/ i \in DOMAIN sent[q] /\ sent'[q][i] = sent[q][i]
                \/ q = r /\ sent'[q][i] = msg
           /\ \A i, j \in DOMAIN sent'[q] :
                i < j => i \in DOMAIN sent[q] /\ sent'[q][i] = sent[q][i]
<1>1. sent[q] \in Seq(Messages)
  BY DEF Typed
<1>2. DOMAIN sent[q] = 1 .. Len(sent[q]) /\ Len(sent[q]) \in Nat
  BY <1>1, LenProperties
<1>3. CASE sent'[q] = sent[q]
  <2>1. ASSUME NEW i \in DOMAIN sent'[q]
        PROVE  i \in DOMAIN sent[q] /\ sent'[q][i] = sent[q][i]
    BY <1>3, <2>1
  <2>2. QED
    BY <2>1
<1>4. CASE sent'[q] # sent[q]
  <2>1. Arrives(r, msg)
    BY <1>4 DEF Send, IsLost, Kills
  <2>2. q = r /\ sent'[q] = Append(sent[q], msg)
    BY <1>4, <2>1 DEF Arrives, Typed
  <2>3. /\ sent'[q] \in Seq(Messages) /\ Len(sent'[q]) = Len(sent[q]) + 1
        /\ \A j \in 1 .. Len(sent[q]) : sent'[q][j] = sent[q][j]
        /\ sent'[q][Len(sent[q]) + 1] = msg
    BY <1>1, <2>2, AppendProperties
  <2>4. DOMAIN sent'[q] = 1 .. (Len(sent[q]) + 1)
    BY <2>3, LenProperties
  <2>5. QED
    BY <1>2, <2>2, <2>3, <2>4
<1>5. QED
  BY <1>3, <1>4

-----------------------------------------------------------------------------
(* What is under way belongs to the current client.                        *)

LEMMA PhaseStep ==
    ASSUME Typed, PhaseOK, CommandsOrdered, [Next]_vars
    PROVE  PhaseOK'
<1>1. ASSUME UNCHANGED << current, first, _dataToSend, sends, command_function, written, quit >>
      PROVE  PhaseOK'
  BY <1>1 DEF PhaseOK
<1>2. ASSUME NEW c \in Client, Issue(c) \/ Read(c) \/ Close(c) \/ ReceiveEof(c)
      PROVE  PhaseOK'
  BY <1>1, <1>2 DEF Issue, Read, Close, ReceiveEof, server
<1>3. ASSUME NEW c \in Client, Serve(c)
      PROVE  PhaseOK'
  <2>1. /\ sends = << >> /\ command_function = << >> /\ written = 0
    <3>1. sends = << >> /\ command_function = << >>
      BY <1>3 DEF PhaseOK, Serve
    <3>2. written \in 0 .. Len(command_function) /\ Len(<< >>) = 0
      BY EmptySeq DEF Typed
    <3>3. QED
      BY <3>1, <3>2
  <2>2. current' # Nobody
    BY <1>3, DeliveryAssumption DEF DeliveryAssumption, Serve, Nobody
  <2>3. sends' = << >> /\ command_function' = << >> /\ written' = 0
    BY <1>3, <2>1 DEF Serve
  <2>4. QED
    BY <2>2, <2>3 DEF PhaseOK
<1>4. CASE Invoke
  <2>1. current' # Nobody
    BY <1>4, InvokeEffects DEF Invoke, Running
  <2>2. written' = 0 /\ written = 0
    <3>1. written \in Nat /\ _dataToSend # << >> /\ written' = written
      BY <1>4, InvokeEffects DEF Typed
    <3>2. QED
      BY <3>1 DEF PhaseOK
  <2>3. NextItem.from = current
    <3>1. NextItem = _dataToSend[1] /\ 1 \in DOMAIN _dataToSend
      BY <1>4, InvokeEffects
    <3>2. QED
      BY <3>1 DEF CommandsOrdered, Ordered
  <2>4. ASSUME NEW i \in DOMAIN sends'
        PROVE  LET msg == sends'[i].msg
               IN  msg.from = current' /\ msg.first = first' /\ ~ msg.deferred
    <3>1. /\ sends'[i].msg = NextMessage /\ current' = current /\ first' = first
          /\ NextItem = _dataToSend[1] /\ 1 \in DOMAIN _dataToSend
      BY <1>4, <2>4, InvokeEffects
    <3>2. QED
      BY <3>1, <2>3 DEF NextMessage, Message
  <2>5. ASSUME NEW i \in DOMAIN command_function'
        PROVE  LET msg == command_function'[i].msg
               IN  msg.from = current' /\ msg.first = first' /\ msg.deferred
    <3>1. current' = current /\ first' = first
      BY <1>4, InvokeEffects
    <3>2. CASE i \in DOMAIN command_function
      <4>1. command_function'[i] = command_function[i]
        BY <1>4, <3>2, InvokeEffects
      <4>2. QED
        BY <3>1, <3>2, <4>1 DEF PhaseOK
    <3>3. CASE i \notin DOMAIN command_function
      <4>1. command_function'[i].msg = NextAnswer
        BY <1>4, <2>5, <3>3, InvokeEffects
      <4>2. QED
        BY <3>1, <4>1, <2>3 DEF NextAnswer, Message
    <3>4. QED
      BY <3>2, <3>3
  <2>6. QED
    BY <2>1, <2>2, <2>4, <2>5 DEF PhaseOK
<1>5. CASE SendDirect
  <2>1. sends # << >> /\ sends \in Seq(Sendings) /\ sends' = Tail(sends)
    BY <1>5 DEF SendDirect, Typed
  <2>2. /\ current' = current /\ first' = first /\ _dataToSend' = _dataToSend
        /\ command_function' = command_function /\ written' = written /\ quit' = quit
        /\ current # Nobody
    BY <1>5 DEF SendDirect, Running
  <2>3. written = 0
    <3>1. written \in Nat
      BY DEF Typed
    <3>2. QED
      BY <2>1, <3>1 DEF PhaseOK
  <2>4. ASSUME NEW i \in DOMAIN sends'
        PROVE  i + 1 \in DOMAIN sends /\ sends'[i] = sends[i + 1]
    BY <2>1, TailElements
  <2>5. QED
    BY <2>2, <2>3, <2>4 DEF PhaseOK
<1>6. CASE Write
  BY <1>6 DEF Write, Constructed, Running, PhaseOK
<1>7. CASE EndOnUser
  BY <1>7 DEF EndOnUser, Constructed, PhaseOK
<1>8. CASE UNCHANGED vars
  BY <1>1, <1>8 DEF vars, server
<1>9. QED
  BY <1>2, <1>3, <1>4, <1>5, <1>6, <1>7, <1>8 DEF Next, Process

-----------------------------------------------------------------------------
(* The numbers of the commands ascend.                                     *)

LEMMA CommandsOrderedStep ==
    ASSUME Typed, PhaseOK, CommandsOrdered, [Next]_vars
    PROVE  CommandsOrdered'
<1>1. ASSUME UNCHANGED << waiting, issued, current, _dataToSend >>
      PROVE  CommandsOrdered'
  BY <1>1 DEF CommandsOrdered, Ordered
<1>2. ASSUME NEW c \in Client, Issue(c)
      PROVE  CommandsOrdered'
  <2>1. PICK cmd \in Commands :
          waiting' = [ waiting EXCEPT ![c] =
                         Append(@, [ from |-> c, no |-> issued[c] + 1, cmd |-> cmd ]) ]
    BY <1>2 DEF Issue
  <2> DEFINE item == [ from |-> c, no |-> issued[c] + 1, cmd |-> cmd ]
  <2>2. /\ \A d \in Client : issued[d] \in Nat
        /\ \A d \in Client : issued'[d] = IF d = c THEN issued[c] + 1 ELSE issued[d]
        /\ \A d \in Client : d # c => waiting'[d] = waiting[d]
        /\ current' = current /\ _dataToSend' = _dataToSend
        /\ waiting'[c] = Append(waiting[c], item)
    BY <1>2, <2>1 DEF Issue, server, Typed
  <2>3. item \in Items
    BY <2>2 DEF Items
  <2> HIDE DEF item
  <2>4. /\ waiting[c] \in Seq(Items) /\ Len(waiting[c]) \in Nat
        /\ DOMAIN waiting[c] = 1 .. Len(waiting[c])
        /\ DOMAIN waiting'[c] = 1 .. (Len(waiting[c]) + 1)
        /\ \A i \in 1 .. Len(waiting[c]) : waiting'[c][i] = waiting[c][i]
        /\ waiting'[c][Len(waiting[c]) + 1] = item
    <3>1. waiting[c] \in Seq(Items)
      BY DEF Typed
    <3>2. QED
      BY <2>2, <2>3, <3>1, AppendProperties, LenProperties
  <2>5. item.from = c /\ item.no = issued[c] + 1
    BY DEF item
  <2>6. \A i \in DOMAIN waiting[c] : waiting[c][i].no \in Nat /\ waiting[c][i].no <= issued[c]
    <3>1. Ordered(waiting[c], c)
      BY DEF CommandsOrdered
    <3>2. QED
      BY <3>1, ElementTypes DEF Ordered
  <2>7. Ordered(waiting[c], c)
    BY DEF CommandsOrdered
  <2>8. ASSUME NEW d \in Client
        PROVE  Ordered(waiting[d], d)'
    <3>1. CASE d # c
      BY <2>2, <3>1 DEF CommandsOrdered, Ordered
    <3>2. CASE d = c
      <4>1. ASSUME NEW i \in DOMAIN waiting'[c]
            PROVE  waiting'[c][i].from = c /\ waiting'[c][i].no <= issued'[c]
        <5>1. CASE i \in DOMAIN waiting[c]
          BY <2>2, <2>4, <2>6, <2>7, <5>1 DEF Ordered
        <5>2. CASE i = Len(waiting[c]) + 1
          BY <2>2, <2>4, <2>5, <5>2
        <5>3. QED
          BY <2>4, <5>1, <5>2
      <4>2. ASSUME NEW i \in DOMAIN waiting'[c], NEW j \in DOMAIN waiting'[c], i < j
            PROVE  waiting'[c][i].no < waiting'[c][j].no
        <5>1. i \in DOMAIN waiting[c] /\ waiting'[c][i] = waiting[c][i]
          BY <2>4, <4>2
        <5>2. CASE j \in DOMAIN waiting[c]
          BY <2>4, <2>7, <4>2, <5>1, <5>2 DEF Ordered
        <5>3. CASE j = Len(waiting[c]) + 1
          BY <2>2, <2>4, <2>5, <2>6, <5>1, <5>3
        <5>4. QED
          BY <2>4, <5>2, <5>3
      <4>3. QED
        BY <3>2, <4>1, <4>2 DEF Ordered
    <3>3. QED
      BY <3>1, <3>2
  <2>9. Ordered(_dataToSend, current)'
    <3>1. CASE _dataToSend = << >>
      BY <2>2, <3>1 DEF Ordered
    <3>2. CASE _dataToSend # << >>
      <4>1. current \in Client
        BY <3>2 DEF PhaseOK, Typed
      <4>2. \A i \in DOMAIN _dataToSend : _dataToSend[i].no \in Nat
        BY ElementTypes
      <4>3. Ordered(_dataToSend, current)
        BY DEF CommandsOrdered
      <4>4. issued[current] <= issued'[current] /\ issued[current] \in Nat /\ issued'[current] \in Nat
        BY <2>2, <4>1
      <4>5. QED
        BY <2>2, <4>2, <4>3, <4>4 DEF Ordered
    <3>3. QED
      BY <3>1, <3>2
  <2>10. ASSUME current # Nobody, NEW i \in DOMAIN _dataToSend, NEW k \in DOMAIN waiting'[current]
         PROVE  _dataToSend[i].no < waiting'[current][k].no
    <3>1. current \in Client
      BY <2>10 DEF Typed
    <3>2. CASE current # c \/ k \in DOMAIN waiting[current]
      BY <2>2, <2>4, <2>10, <3>1, <3>2 DEF CommandsOrdered
    <3>3. CASE current = c /\ k \notin DOMAIN waiting[c]
      <4>1. waiting'[c][k].no = issued[c] + 1
        BY <2>4, <2>5, <2>10, <3>3
      <4>2. _dataToSend[i].no <= issued[c] /\ _dataToSend[i].no \in Nat
        <5>1. Ordered(_dataToSend, c)
          BY <3>3 DEF CommandsOrdered
        <5>2. QED
          BY <5>1, ElementTypes DEF Ordered
      <4>3. QED
        BY <2>2, <3>3, <4>1, <4>2
    <3>4. QED
      BY <3>2, <3>3
  <2>11. QED
    BY <2>2, <2>8, <2>9, <2>10 DEF CommandsOrdered
<1>3. ASSUME NEW c \in Client, Serve(c)
      PROVE  CommandsOrdered'
  <2>1. /\ current' = c /\ _dataToSend' = waiting[c] /\ issued' = issued
        /\ \A d \in Client : waiting'[d] = IF d = c THEN << >> ELSE waiting[d]
    BY <1>3 DEF Serve, Typed
  <2>2. \A d \in Client : Ordered(waiting[d], d)
    BY DEF CommandsOrdered
  <2>3. QED
    BY <2>1, <2>2 DEF CommandsOrdered, Ordered
<1>4. CASE Invoke
  <2>1. /\ _dataToSend \in Seq(Items) /\ _dataToSend # << >> /\ _dataToSend' = Tail(_dataToSend)
        /\ current' = current /\ waiting' = waiting /\ issued' = issued
    BY <1>4, InvokeEffects DEF Typed
  <2>2. \A i \in DOMAIN _dataToSend' :
          i \in Nat /\ i + 1 \in DOMAIN _dataToSend /\ _dataToSend'[i] = _dataToSend[i + 1]
    BY <2>1, TailElements
  <2>3. Ordered(_dataToSend, current)'
    <3>1. Ordered(_dataToSend, current)
      BY DEF CommandsOrdered
    <3>2. QED
      BY <2>1, <2>2, <3>1 DEF Ordered
  <2>4. current # Nobody =>
          \A i \in DOMAIN _dataToSend', k \in DOMAIN waiting[current] :
            _dataToSend'[i].no < waiting[current][k].no
    BY <2>2 DEF CommandsOrdered
  <2>5. \A c \in Client : Ordered(waiting[c], c)'
    BY <2>1 DEF CommandsOrdered, Ordered
  <2>6. QED
    BY <2>1, <2>3, <2>4, <2>5 DEF CommandsOrdered
<1>5. ASSUME NEW c \in Client, Read(c) \/ Close(c) \/ ReceiveEof(c)
      PROVE  CommandsOrdered'
  BY <1>1, <1>5 DEF Read, Close, ReceiveEof, server, sockets
<1>6. CASE SendDirect \/ Write
  BY <1>1, <1>6 DEF SendDirect, Write
<1>7. CASE EndOnUser
  <2>1. _dataToSend' = << >> /\ current' = Nobody /\ waiting' = waiting /\ issued' = issued
    BY <1>7 DEF EndOnUser, Constructed, sockets
  <2>2. \A c \in Client : Ordered(waiting[c], c)'
    BY <2>1 DEF CommandsOrdered, Ordered
  <2>3. QED
    BY <2>1, <2>2 DEF CommandsOrdered, Ordered
<1>8. CASE UNCHANGED vars
  BY <1>1, <1>8 DEF vars, server, sockets
<1>9. QED
  BY <1>2, <1>3, <1>4, <1>5, <1>6, <1>7, <1>8 DEF Next, Process

\* A message stays older than the commands that wait.
LEMMA OlderStep ==
    ASSUME Typed, PhaseOK, CommandsOrdered, [Next]_vars, NEW a \in Messages, Older(a)
    PROVE  Older(a)'
<1>1. /\ a.from \in Client /\ a.no \in Nat /\ a.no <= issued[a.from]
      /\ \A k \in DOMAIN waiting[a.from] : a.no < waiting[a.from][k].no
      /\ a.from = current =>
           /\ \A k \in DOMAIN _dataToSend : a.no < _dataToSend[k].no
           /\ a.no >= first => a.first = first
  BY DEF Older, Messages
<1>2. ASSUME UNCHANGED << waiting, issued, current, first, _dataToSend >>
      PROVE  Older(a)'
  BY <1>2 DEF Older
<1>3. ASSUME NEW c \in Client, Issue(c)
      PROVE  Older(a)'
  <2>1. PICK cmd \in Commands :
          waiting' = [ waiting EXCEPT ![c] =
                         Append(@, [ from |-> c, no |-> issued[c] + 1, cmd |-> cmd ]) ]
    BY <1>3 DEF Issue
  <2>2. /\ issued[a.from] \in Nat /\ issued[c] \in Nat
        /\ issued'[a.from] = IF a.from = c THEN issued[c] + 1 ELSE issued[a.from]
        /\ current' = current /\ first' = first /\ _dataToSend' = _dataToSend
    BY <1>1, <1>3 DEF Issue, server, Typed
  <2>3. a.no <= issued'[a.from]
    BY <1>1, <2>2
  <2>4. ASSUME NEW k \in DOMAIN waiting'[a.from]
        PROVE  a.no < waiting'[a.from][k].no
    <3>1. CASE a.from # c
      <4>1. waiting'[a.from] = waiting[a.from]
        BY <2>1, <3>1, <1>1 DEF Typed
      <4>2. QED
        BY <1>1, <2>4, <4>1
    <3>2. CASE a.from = c
      <4> DEFINE item == [ from |-> c, no |-> issued[c] + 1, cmd |-> cmd ]
      <4>1. waiting'[c] = Append(waiting[c], item) /\ waiting[c] \in Seq(Items)
        BY <2>1 DEF Typed
      <4>2. item \in Items /\ item.no = issued[c] + 1
        BY <2>2 DEF Items
      <4> HIDE DEF item
      <4>3. /\ DOMAIN waiting[c] = 1 .. Len(waiting[c])
            /\ DOMAIN waiting'[c] = 1 .. (Len(waiting[c]) + 1) /\ Len(waiting[c]) \in Nat
            /\ \A i \in 1 .. Len(waiting[c]) : waiting'[c][i] = waiting[c][i]
            /\ waiting'[c][Len(waiting[c]) + 1] = item
        BY <4>1, <4>2, AppendProperties, LenProperties
      <4>4. CASE k \in DOMAIN waiting[c]
        BY <1>1, <3>2, <4>3, <4>4
      <4>5. CASE k = Len(waiting[c]) + 1
        BY <1>1, <2>2, <3>2, <4>2, <4>3, <4>5
      <4>6. QED
        BY <2>4, <3>2, <4>3, <4>4, <4>5
    <3>3. QED
      BY <3>1, <3>2
  <2>5. QED
    BY <1>1, <2>2, <2>3, <2>4 DEF Older
<1>4. ASSUME NEW c \in Client, Serve(c)
      PROVE  Older(a)'
  <2>1. /\ current' = c /\ first' = waiting[c][1].no /\ _dataToSend' = waiting[c]
        /\ issued' = issued
        /\ waiting'[a.from] = IF a.from = c THEN << >> ELSE waiting[a.from]
    BY <1>1, <1>4 DEF Serve, Typed
  <2>2. 1 \in DOMAIN waiting[c]
    BY <1>4, TailElements DEF Serve, Typed
  <2>3. waiting[c][1].no \in Nat
    BY <2>2, ElementTypes
  <2>4. a.from = c => ~ (a.no >= waiting[c][1].no)
    BY <1>1, <2>2, <2>3
  <2>5. \A k \in DOMAIN waiting'[a.from] : a.no < waiting'[a.from][k].no
    BY <1>1, <2>1
  <2>6. a.from = c => \A k \in DOMAIN waiting[c] : a.no < waiting[c][k].no
    BY <1>1
  <2>7. QED
    BY <1>1, <2>1, <2>4, <2>5, <2>6 DEF Older
<1>5. CASE Invoke
  <2>1. /\ _dataToSend \in Seq(Items) /\ _dataToSend # << >> /\ _dataToSend' = Tail(_dataToSend)
        /\ current' = current /\ first' = first /\ waiting' = waiting /\ issued' = issued
    BY <1>5, InvokeEffects DEF Typed
  <2>2. \A i \in DOMAIN _dataToSend' :
          i + 1 \in DOMAIN _dataToSend /\ _dataToSend'[i] = _dataToSend[i + 1]
    BY <2>1, TailElements
  <2>3. QED
    BY <1>1, <2>1, <2>2 DEF Older
<1>6. ASSUME NEW c \in Client, Read(c) \/ Close(c) \/ ReceiveEof(c)
      PROVE  Older(a)'
  BY <1>2, <1>6 DEF Read, Close, ReceiveEof, server, sockets
<1>7. CASE SendDirect \/ Write
  BY <1>2, <1>7 DEF SendDirect, Write
<1>8. CASE EndOnUser
  <2>1. current' = Nobody /\ waiting' = waiting /\ issued' = issued
    BY <1>8 DEF EndOnUser, sockets
  <2>2. a.from # Nobody
    BY <1>1, DeliveryAssumption DEF DeliveryAssumption, Nobody
  <2>3. QED
    BY <1>1, <2>1, <2>2 DEF Older
<1>9. CASE UNCHANGED vars
  BY <1>2, <1>9 DEF vars, server, sockets
<1>10. QED
  BY <1>3, <1>4, <1>5, <1>6, <1>7, <1>8, <1>9 DEF Next, Process

\* Which messages there are after a step: those that were, and what Invoke makes.
LEMMA WhereMessagesComeFrom ==
    ASSUME Typed, [Next]_vars
    PROVE  /\ \A r \in Client : \A i \in DOMAIN sent'[r] :
                \/ i \in DOMAIN sent[r] /\ sent'[r][i] = sent[r][i]
                \/ \E j \in DOMAIN sends : sent'[r][i] = sends[j].msg
                \/ \E j \in DOMAIN command_function : sent'[r][i] = command_function[j].msg
           /\ \A i \in DOMAIN sends' :
                \/ \E j \in DOMAIN sends : sends'[i] = sends[j]
                \/ Invoke /\ sends'[i].msg = NextMessage
           /\ \A i \in DOMAIN command_function' :
                \/ i \in DOMAIN command_function /\ command_function'[i] = command_function[i]
                \/ Invoke /\ command_function'[i].msg = NextAnswer
<1>1. ASSUME UNCHANGED << sent, sends, command_function >>
      PROVE  /\ \A r \in Client : \A i \in DOMAIN sent'[r] :
                  i \in DOMAIN sent[r] /\ sent'[r][i] = sent[r][i]
             /\ \A i \in DOMAIN sends' : \E j \in DOMAIN sends : sends'[i] = sends[j]
             /\ \A i \in DOMAIN command_function' :
                  i \in DOMAIN command_function /\ command_function'[i] = command_function[i]
  BY <1>1
<1>2. ASSUME NEW c \in Client,
             Issue(c) \/ Read(c) \/ Close(c) \/ Serve(c) \/ ReceiveEof(c)
      PROVE  UNCHANGED << sent, sends, command_function >>
  BY <1>2 DEF Issue, Read, Close, Serve, ReceiveEof, server, histories
<1>3. CASE Invoke
  BY <1>3, InvokeEffects
<1>4. CASE SendDirect
  <2>1. /\ sends # << >> /\ sends \in Seq(Sendings) /\ sends' = Tail(sends)
        /\ Send(Head(sends).to, Head(sends).msg) /\ command_function' = command_function
    BY <1>4 DEF SendDirect, Typed
  <2>2. /\ \A i \in DOMAIN sends' : i + 1 \in DOMAIN sends /\ sends'[i] = sends[i + 1]
        /\ 1 \in DOMAIN sends /\ Head(sends) = sends[1]
    BY <2>1, TailElements
  <2>3. Head(sends).to \in Client /\ Head(sends).msg \in Messages
    BY <2>1, RunningTypes
  <2>4. \A r \in Client : \A i \in DOMAIN sent'[r] :
          \/ i \in DOMAIN sent[r] /\ sent'[r][i] = sent[r][i]
          \/ sent'[r][i] = sends[1].msg
    BY <2>1, <2>2, <2>3, SentAfter
  <2>5. QED
    BY <2>1, <2>2, <2>4
<1>5. CASE Write
  <2> DEFINE e == command_function[written + 1]
  <2>1. /\ written < Len(command_function) /\ Send(e.to, e.msg)
        /\ command_function' = command_function /\ sends' = sends
    BY <1>5 DEF Write
  <2>2. /\ written + 1 \in DOMAIN command_function /\ e.to \in Client /\ e.msg \in Messages
    BY <2>1, RunningTypes, LenProperties DEF Typed
  <2>3. \A r \in Client : \A i \in DOMAIN sent'[r] :
          \/ i \in DOMAIN sent[r] /\ sent'[r][i] = sent[r][i]
          \/ sent'[r][i] = e.msg
    BY <2>1, <2>2, SentAfter
  <2>4. QED
    BY <2>1, <2>2, <2>3
<1>6. CASE EndOnUser
  BY <1>6 DEF EndOnUser, histories
<1>7. CASE UNCHANGED vars
  BY <1>1, <1>7 DEF vars, server, histories
<1>8. QED
  BY <1>1, <1>2, <1>3, <1>4, <1>5, <1>6, <1>7 DEF Next, Process

LEMMA MessagesOlderStep ==
    ASSUME Typed, PhaseOK, CommandsOrdered, MessagesOlder, [Next]_vars
    PROVE  MessagesOlder'
<1> DEFINE Old == { a \in Messages : Older(a) }
<1>1. Old \subseteq Old'
  BY OlderStep
<1>2. ASSUME Invoke, NEW a \in Messages,
             a.from = current, a.no = NextItem.no, a.first = first
      PROVE  Older(a)'
  <2>1. /\ current \in Client /\ NextItem = _dataToSend[1] /\ 1 \in DOMAIN _dataToSend
        /\ _dataToSend \in Seq(Items) /\ _dataToSend # << >> /\ _dataToSend' = Tail(_dataToSend)
        /\ current' = current /\ first' = first /\ waiting' = waiting /\ issued' = issued
    BY <1>2, InvokeEffects DEF Typed
  <2>2. \A i \in DOMAIN _dataToSend' :
          i \in Nat /\ i + 1 \in DOMAIN _dataToSend /\ _dataToSend'[i] = _dataToSend[i + 1]
    BY <2>1, TailElements
  <2>3. current # Nobody /\ Ordered(_dataToSend, current)
    BY <2>1, DeliveryAssumption DEF DeliveryAssumption, Nobody, CommandsOrdered
  <2>4. a.no <= issued[current]
    BY <1>2, <2>1, <2>3 DEF Ordered
  <2>5. \A k \in DOMAIN waiting[current] : a.no < waiting[current][k].no
    BY <1>2, <2>1, <2>3 DEF CommandsOrdered
  <2>6. ASSUME NEW k \in DOMAIN _dataToSend'
        PROVE  a.no < _dataToSend'[k].no
    <3>1. k \in DOMAIN Tail(_dataToSend)
      BY <2>1, <2>6
    <3>2. k + 1 \in DOMAIN _dataToSend /\ 1 < k + 1 /\ _dataToSend'[k] = _dataToSend[k + 1]
      <4>1. Tail(_dataToSend) \in Seq(Items)
        BY <2>1, TailElements
      <4>2. k \in 1 .. Len(Tail(_dataToSend))
        BY <3>1, <4>1, LenProperties
      <4>3. QED
        BY <2>2, <2>6, <4>2
    <3>3. QED
      BY <1>2, <2>1, <2>3, <3>2 DEF Ordered
  <2>7. QED
    BY <1>2, <2>1, <2>4, <2>5, <2>6 DEF Older
<1>3. ASSUME Invoke
      PROVE  NextMessage \in Old' /\ NextAnswer \in Old'
  <2>1. /\ NextItem = _dataToSend[1] /\ 1 \in DOMAIN _dataToSend
        /\ NextMessage \in Messages /\ NextAnswer \in Messages
    BY <1>3, InvokeEffects
  <2>2. NextItem.from = current
    BY <2>1 DEF CommandsOrdered, Ordered
  <2>3. /\ NextMessage.from = current /\ NextMessage.no = NextItem.no /\ NextMessage.first = first
        /\ NextAnswer.from = current /\ NextAnswer.no = NextItem.no /\ NextAnswer.first = first
    BY <2>2 DEF NextMessage, NextAnswer, Message
  <2>4. QED
    BY <1>2, <1>3, <2>1, <2>3
<1>4. /\ \A j \in DOMAIN sends : sends[j].msg \in Old
      /\ \A j \in DOMAIN command_function : command_function[j].msg \in Old
      /\ \A r \in Client : \A j \in DOMAIN sent[r] : sent[r][j] \in Old
  BY ElementTypes DEF MessagesOlder
<1> HIDE DEF Old
<1>5. /\ \A r \in Client : \A j \in DOMAIN sent'[r] : sent'[r][j] \in Old'
      /\ \A j \in DOMAIN sends' : sends'[j].msg \in Old'
      /\ \A j \in DOMAIN command_function' : command_function'[j].msg \in Old'
  BY <1>1, <1>3, <1>4, WhereMessagesComeFrom
<1>6. QED
  BY <1>5 DEF MessagesOlder, Old

-----------------------------------------------------------------------------
(* The order of the messages.                                              *)

SentInOrder ==
    \A r \in Client : \A i, j \in DOMAIN sent[r] :
      i < j => MayFollow(sent[r][i], sent[r][j])

Order ==
    /\ SentInOrder /\ SentThenDirect /\ SentThenDeferred
    /\ DirectInOrder /\ DeferredInOrder /\ DirectThenDeferred

\* The direct sends of a command go to different clients, except those that are made
\* once for every entry.
LEMMA DirectDistinct ==
    ASSUME Typed, \A ch \in Chan : IsInjective(lists[ch]),
           NEW c \in Client, NEW cmd \in Commands, cmd.kind \notin Repeated
    PROVE  IsInjective(Direct(c, cmd))
<1>1. \A ch \in Chan : lists[ch] \in Seq(Client) /\ IsInjective(lists[ch])
  BY DEF Typed
<1>2. \A d, ch : d \in Client /\ ch \in Chan => IsInjective(Others(d, ch))
  BY <1>1, RemoveFirstProperties DEF Others
<1>3. IsInjective(<< >>)
  BY DEF IsInjective
<1>4. CASE cmd.kind = "MSG"
  BY <1>2, <1>4, CommandFields DEF Direct
<1>5. CASE cmd.kind = "JOIN"
  BY <1>1, <1>3, <1>5, CommandFields DEF Direct, ToldOfJoin
<1>6. CASE cmd.kind \in {"PART", "TOPIC"}
  BY <1>1, <1>6, CommandFields DEF Direct, Everyone
<1>7. CASE cmd.kind = "KICK"
  BY <1>1, <1>3, <1>7, CommandFields DEF Direct, ToldOfKick, Everyone
<1>8. CASE cmd.kind \in {"PING", "PRIVMSG"}
  BY <1>3, <1>8 DEF Direct
<1>9. QED
  BY <1>4, <1>5, <1>6, <1>7, <1>8, CommandFields DEF Repeated

\* Nobody gets the same command directly and through User::write.
LEMMA DirectOrDeferred ==
    ASSUME Typed, NEW c \in Client, NEW cmd \in Commands, cmd.kind \notin Repeated,
           NEW i \in DOMAIN Direct(c, cmd), Deferred(c, cmd) # << >>
    PROVE  Direct(c, cmd)[i] # Deferred(c, cmd)[1]
<1>1. cmd.kind \in {"PING", "JOIN", "PRIVMSG"}
  BY DeferredCases DEF Repeated
<1>2. CASE cmd.kind \in {"PING", "PRIVMSG"}
  <2>1. Direct(c, cmd) = << >>
    BY <1>2 DEF Direct
  <2>2. QED
    BY <2>1
<1>3. CASE cmd.kind = "JOIN"
  <2>1. Deferred(c, cmd)[1] = c /\ ~ On(c, cmd.chan)
    BY <1>3, DeferredCases
  <2>2. Direct(c, cmd) = lists[cmd.chan]
    BY <1>3, <2>1 DEF Direct, ToldOfJoin
  <2>3. QED
    BY <2>1, <2>2 DEF On, ToSet
<1>4. QED
  BY <1>1, <1>2, <1>3

\* Which messages wait for User::write.
LEMMA PendingProperties ==
    ASSUME Typed
    PROVE  /\ Pending \subseteq DOMAIN command_function
           /\ Pending = { j \in DOMAIN command_function : j > written }
           /\ written \in Nat /\ Len(command_function) \in Nat
           /\ DOMAIN command_function = 1 .. Len(command_function)
<1>1. written \in Nat /\ DOMAIN command_function = 1 .. Len(command_function)
      /\ Len(command_function) \in Nat
  BY LenProperties DEF Typed
<1>2. QED
  BY <1>1 DEF Pending

LEMMA OrderAtInvoke ==
    ASSUME Typed, Typed', EntriesAlive, PhaseOK, CommandsOrdered, MessagesOlder, Order, Invoke
    PROVE  Order'
<1>1. /\ current \in Client /\ status = "up" /\ NextItem.cmd \in Commands
      /\ NextItem = _dataToSend[1] /\ 1 \in DOMAIN _dataToSend /\ NextItem \in Items
      /\ NextMessage \in Messages /\ NextAnswer \in Messages
      /\ sends = << >> /\ sent' = sent /\ written' = written
  BY InvokeEffects
<1>2. /\ NextItem.from = current /\ NextItem.no \in Nat
  BY <1>1 DEF CommandsOrdered, Ordered, Items
<1>3. /\ NextMessage.from = current /\ NextMessage.no = NextItem.no
      /\ NextMessage.first = first /\ ~ NextMessage.deferred
      /\ NextMessage.cmd = NextItem.cmd
      /\ NextAnswer.from = current /\ NextAnswer.no = NextItem.no
  BY <1>2 DEF NextMessage, NextAnswer, Message
<1>4. \A a \in Messages :
        /\ a.no \in Nat
        /\ Older(a) /\ a.from = current => a.no < NextItem.no
        /\ Older(a) => MayFollow(a, NextMessage) /\ MayFollow(a, NextAnswer)
  BY <1>1, <1>2, <1>3 DEF Older, MayFollow, Messages
<1>5. /\ DOMAIN sends' = DOMAIN Direct(current, NextItem.cmd)
      /\ \A i \in DOMAIN sends' :
           /\ sends'[i].to = Direct(current, NextItem.cmd)[i]
           /\ sends'[i].msg = NextMessage
  BY InvokeEffects
<1>6. ASSUME NEW j \in Pending'
      PROVE  \/ /\ j \in Pending /\ j \in DOMAIN command_function
                /\ command_function'[j] = command_function[j]
             \/ /\ j = Len(command_function) + 1 /\ j \notin Pending
                /\ Deferred(current, NextItem.cmd) # << >>
                /\ command_function'[j].to = Deferred(current, NextItem.cmd)[1]
                /\ command_function'[j].msg = NextAnswer
  <2>1. j \in DOMAIN command_function' /\ j > written
    <3>1. Pending' = { k \in DOMAIN command_function' : k > written' }
      <4>1. command_function' \in Seq(Sendings) /\ written' \in 0 .. Len(command_function')
        BY DEF Typed
      <4>2. /\ DOMAIN command_function' = 1 .. Len(command_function')
            /\ Len(command_function') \in Nat /\ written' \in Nat
        BY <4>1, LenProperties
      <4>3. QED
        BY <4>2 DEF Pending
    <3>2. QED
      BY <1>1, <3>1
  <2>2. CASE j \in DOMAIN command_function
    <3>1. j \in Pending /\ command_function'[j] = command_function[j]
      BY <2>1, <2>2, PendingProperties, InvokeEffects
    <3>2. QED
      BY <2>2, <3>1
  <2>3. CASE j \notin DOMAIN command_function
    <3>1. j \notin Pending
      BY <2>3, PendingProperties
    <3>2. QED
      BY <2>1, <2>3, <3>1, InvokeEffects
  <2>4. QED
    BY <2>2, <2>3
<1>7. /\ \A r \in Client : \A i \in DOMAIN sent[r] : sent[r][i] \in Messages /\ Older(sent[r][i])
      /\ \A j \in Pending :
           command_function[j].msg \in Messages /\ Older(command_function[j].msg)
  BY ElementTypes, PendingProperties DEF MessagesOlder
<1>8. SentInOrder'
  BY <1>1 DEF Order, SentInOrder
<1>9. SentThenDirect'
  BY <1>1, <1>4, <1>5, <1>7 DEF SentThenDirect
<1>10. SentThenDeferred'
  <2>1. ASSUME NEW r \in Client, NEW i \in DOMAIN sent[r], NEW j \in Pending',
               command_function'[j].to = r
        PROVE  MayFollow(sent[r][i], command_function'[j].msg)
    <3>1. CASE j \in Pending
      BY <1>6, <2>1, <3>1 DEF Order, SentThenDeferred
    <3>2. CASE j \notin Pending
      BY <1>4, <1>6, <1>7, <2>1, <3>2
    <3>3. QED
      BY <3>1, <3>2
  <2>2. QED
    BY <1>1, <2>1 DEF SentThenDeferred
<1>11. DirectInOrder'
  <2>1. SUFFICES ASSUME NEW i \in DOMAIN sends', NEW j \in DOMAIN sends',
                        i < j, sends'[i].to = sends'[j].to
                 PROVE  MayFollow(sends'[i].msg, sends'[j].msg)
    BY DEF DirectInOrder
  <2>2. i # j
    <3>1. i \in Nat /\ j \in Nat
      <4>1. sends' \in Seq(Sendings)
        BY DEF Typed
      <4>2. QED
        BY <2>1, <4>1, LenProperties
    <3>2. QED
      BY <2>1, <3>1
  <2>3. Direct(current, NextItem.cmd)[i] = Direct(current, NextItem.cmd)[j]
    BY <1>5, <2>1
  <2>4. NextItem.cmd.kind \in Repeated
    <3>1. \A ch \in Chan : IsInjective(lists[ch])
      BY <1>1 DEF EntriesAlive
    <3>2. SUFFICES ASSUME NextItem.cmd.kind \notin Repeated
                   PROVE  FALSE
      OBVIOUS
    <3>3. IsInjective(Direct(current, NextItem.cmd))
      BY <1>1, <3>1, <3>2, DirectDistinct
    <3>4. QED
      BY <1>5, <2>2, <2>3, <3>3 DEF IsInjective
  <2>5. QED
    BY <1>2, <1>3, <1>5, <2>4 DEF MayFollow
<1>12. DeferredInOrder'
  <2>1. SUFFICES ASSUME NEW i \in Pending', NEW j \in Pending', i < j,
                        command_function'[i].to = command_function'[j].to
                 PROVE  MayFollow(command_function'[i].msg, command_function'[j].msg)
    BY DEF DeferredInOrder
  <2>2. i \in Pending
    <3>1. Pending \subseteq 1 .. Len(command_function) /\ Len(command_function) \in Nat
      BY PendingProperties
    <3>2. QED
      BY <1>6, <2>1, <3>1
  <2>3. CASE j \in Pending
    BY <1>6, <2>1, <2>2, <2>3 DEF Order, DeferredInOrder
  <2>4. CASE j \notin Pending
    BY <1>4, <1>6, <1>7, <2>2, <2>4
  <2>5. QED
    BY <2>3, <2>4
<1>13. DirectThenDeferred'
  <2>1. SUFFICES ASSUME NEW i \in DOMAIN sends', NEW j \in Pending',
                        sends'[i].to = command_function'[j].to
                 PROVE  MayFollow(sends'[i].msg, command_function'[j].msg)
    BY DEF DirectThenDeferred
  <2>2. sends'[i].msg = NextMessage
    BY <1>5
  <2>3. CASE j \in Pending
    <3> DEFINE b == command_function[j].msg
    <3>1. command_function'[j].msg = b /\ b \in Messages /\ Older(b)
      BY <1>6, <1>7, <2>3
    <3>2. b.from = current /\ b.first = first /\ b.deferred
      BY <2>3, PendingProperties DEF PhaseOK
    <3> HIDE DEF b
    <3>3. b.no \in Nat /\ b.no < NextItem.no
      BY <1>4, <3>1, <3>2
    <3>4. QED
      BY <1>2, <1>3, <2>2, <3>1, <3>2, <3>3 DEF MayFollow
  <2>4. CASE j \notin Pending
    <3>1. NextItem.cmd.kind \in Repeated
      BY <1>1, <1>5, <1>6, <2>1, <2>4, DirectOrDeferred
    <3>2. QED
      BY <1>2, <1>3, <1>6, <2>2, <2>4, <3>1 DEF MayFollow
  <2>5. QED
    BY <2>3, <2>4
<1>14. QED
  BY <1>8, <1>9, <1>10, <1>11, <1>12, <1>13 DEF Order

LEMMA OrderAtSendDirect ==
    ASSUME Typed, Order, SendDirect
    PROVE  Order'
<1> DEFINE m == sends[1].msg
           to == sends[1].to
<1>1. /\ sends # << >> /\ sends \in Seq(Sendings) /\ sends' = Tail(sends)
      /\ command_function' = command_function /\ written' = written
  BY DEF SendDirect, Typed
<1>2. /\ \A i \in DOMAIN sends' :
           i + 1 \in DOMAIN sends /\ i \in Nat /\ sends'[i] = sends[i + 1]
      /\ 1 \in DOMAIN sends /\ Head(sends) = sends[1]
  BY <1>1, TailElements
<1>3. to \in Client /\ m \in Messages /\ Send(to, m)
  BY <1>1, <1>2, RunningTypes DEF SendDirect
<1>4. \A q \in Client : \A i \in DOMAIN sent'[q] :
        \/ i \in DOMAIN sent[q] /\ sent'[q][i] = sent[q][i]
        \/ q = to /\ sent'[q][i] = m
  BY <1>3, SentAfter
<1>5. \A q \in Client : \A i, j \in DOMAIN sent'[q] :
        i < j => i \in DOMAIN sent[q] /\ sent'[q][i] = sent[q][i]
  BY <1>3, SentAfter
<1>6. Pending' = Pending
  BY <1>1 DEF Pending
<1>7. \A i \in DOMAIN sends' : 1 < i + 1
  <2>1. sends' \in Seq(Sendings)
    BY <1>1, HeadTailProperties
  <2>2. \A i \in DOMAIN sends' : i \in 1 .. Len(sends') /\ Len(sends') \in Nat
    BY <2>1, LenProperties
  <2>3. QED
    BY <2>2
<1>8. \A i \in DOMAIN sent[to] : MayFollow(sent[to][i], m)
  BY <1>2, <1>3 DEF Order, SentThenDirect
<1>9. \A i \in DOMAIN sends' : sends'[i].to = to => MayFollow(m, sends'[i].msg)
  BY <1>2, <1>7 DEF Order, DirectInOrder
<1>10. \A j \in Pending : command_function[j].to = to => MayFollow(m, command_function[j].msg)
  BY <1>2 DEF Order, DirectThenDeferred
<1> HIDE DEF m, to
<1>11. SentInOrder'
  <2>1. SUFFICES ASSUME NEW q \in Client, NEW i \in DOMAIN sent'[q], NEW j \in DOMAIN sent'[q],
                        i < j
                 PROVE  MayFollow(sent'[q][i], sent'[q][j])
    BY DEF SentInOrder
  <2>2. i \in DOMAIN sent[q] /\ sent'[q][i] = sent[q][i]
    BY <1>5, <2>1
  <2>3. CASE j \in DOMAIN sent[q] /\ sent'[q][j] = sent[q][j]
    BY <2>1, <2>2, <2>3 DEF Order, SentInOrder
  <2>4. CASE q = to /\ sent'[q][j] = m
    BY <1>8, <2>2, <2>4
  <2>5. QED
    BY <1>4, <2>3, <2>4
<1>12. SentThenDirect'
  <2>1. SUFFICES ASSUME NEW q \in Client, NEW i \in DOMAIN sent'[q], NEW j \in DOMAIN sends',
                        sends'[j].to = q
                 PROVE  MayFollow(sent'[q][i], sends'[j].msg)
    BY DEF SentThenDirect
  <2>2. CASE i \in DOMAIN sent[q] /\ sent'[q][i] = sent[q][i]
    BY <1>2, <2>1, <2>2 DEF Order, SentThenDirect
  <2>3. CASE q = to /\ sent'[q][i] = m
    BY <1>9, <2>1, <2>3
  <2>4. QED
    BY <1>4, <2>2, <2>3
<1>13. SentThenDeferred'
  <2>1. SUFFICES ASSUME NEW q \in Client, NEW i \in DOMAIN sent'[q], NEW j \in Pending,
                        command_function[j].to = q
                 PROVE  MayFollow(sent'[q][i], command_function[j].msg)
    BY <1>1, <1>6 DEF SentThenDeferred
  <2>2. CASE i \in DOMAIN sent[q] /\ sent'[q][i] = sent[q][i]
    BY <2>1, <2>2 DEF Order, SentThenDeferred
  <2>3. CASE q = to /\ sent'[q][i] = m
    BY <1>10, <2>1, <2>3
  <2>4. QED
    BY <1>4, <2>2, <2>3
<1>14. DirectInOrder'
  <2>1. SUFFICES ASSUME NEW i \in DOMAIN sends', NEW j \in DOMAIN sends',
                        i < j, sends'[i].to = sends'[j].to
                 PROVE  MayFollow(sends'[i].msg, sends'[j].msg)
    BY DEF DirectInOrder
  <2>2. i + 1 < j + 1 /\ i + 1 \in DOMAIN sends /\ j + 1 \in DOMAIN sends
    BY <1>2, <2>1
  <2>3. QED
    BY <1>2, <2>1, <2>2 DEF Order, DirectInOrder
<1>15. DeferredInOrder'
  BY <1>1, <1>6 DEF Order, DeferredInOrder
<1>16. DirectThenDeferred'
  BY <1>1, <1>2, <1>6 DEF Order, DirectThenDeferred
<1>17. QED
  BY <1>11, <1>12, <1>13, <1>14, <1>15, <1>16 DEF Order

LEMMA OrderAtWrite ==
    ASSUME Typed, Order, Write
    PROVE  Order'
<1> DEFINE m == command_function[written + 1].msg
           to == command_function[written + 1].to
<1>1. /\ sends = << >> /\ sends' = sends /\ written < Len(command_function)
      /\ command_function' = command_function /\ written' = written + 1
      /\ Send(to, m)
  BY DEF Write, Constructed
<1>2. to \in Client /\ m \in Messages
  BY <1>1, RunningTypes
<1>3. \A q \in Client : \A i \in DOMAIN sent'[q] :
        \/ i \in DOMAIN sent[q] /\ sent'[q][i] = sent[q][i]
        \/ q = to /\ sent'[q][i] = m
  BY <1>1, <1>2, SentAfter
<1>4. \A q \in Client : \A i, j \in DOMAIN sent'[q] :
        i < j => i \in DOMAIN sent[q] /\ sent'[q][i] = sent[q][i]
  BY <1>1, <1>2, SentAfter
<1>5. /\ written + 1 \in Pending /\ written \in Nat
      /\ \A j \in Pending' : j \in Pending /\ written + 1 < j
  <2>1. written \in Nat /\ Len(command_function) \in Nat
    BY PendingProperties
  <2>2. QED
    BY <1>1, <2>1 DEF Pending
<1>6. \A i \in DOMAIN sent[to] : MayFollow(sent[to][i], m)
  BY <1>2, <1>5 DEF Order, SentThenDeferred
<1>7. \A j \in Pending' : command_function[j].to = to => MayFollow(m, command_function[j].msg)
  BY <1>5 DEF Order, DeferredInOrder
<1> HIDE DEF m, to
<1>8. SentInOrder'
  <2>1. SUFFICES ASSUME NEW q \in Client, NEW i \in DOMAIN sent'[q], NEW j \in DOMAIN sent'[q],
                        i < j
                 PROVE  MayFollow(sent'[q][i], sent'[q][j])
    BY DEF SentInOrder
  <2>2. i \in DOMAIN sent[q] /\ sent'[q][i] = sent[q][i]
    BY <1>4, <2>1
  <2>3. CASE j \in DOMAIN sent[q] /\ sent'[q][j] = sent[q][j]
    BY <2>1, <2>2, <2>3 DEF Order, SentInOrder
  <2>4. CASE q = to /\ sent'[q][j] = m
    BY <1>6, <2>2, <2>4
  <2>5. QED
    BY <1>3, <2>3, <2>4
<1>9. SentThenDeferred'
  <2>1. SUFFICES ASSUME NEW q \in Client, NEW i \in DOMAIN sent'[q], NEW j \in Pending',
                        command_function[j].to = q
                 PROVE  MayFollow(sent'[q][i], command_function[j].msg)
    BY <1>1 DEF SentThenDeferred
  <2>2. CASE i \in DOMAIN sent[q] /\ sent'[q][i] = sent[q][i]
    BY <1>5, <2>1, <2>2 DEF Order, SentThenDeferred
  <2>3. CASE q = to /\ sent'[q][i] = m
    BY <1>7, <2>1, <2>3
  <2>4. QED
    BY <1>3, <2>2, <2>3
<1>10. DeferredInOrder'
  BY <1>1, <1>5 DEF Order, DeferredInOrder
<1>11. SentThenDirect' /\ DirectInOrder' /\ DirectThenDeferred'
  BY <1>1 DEF SentThenDirect, DirectInOrder, DirectThenDeferred
<1>12. QED
  BY <1>8, <1>9, <1>10, <1>11 DEF Order

LEMMA OrderStep ==
    ASSUME Typed, EntriesAlive, PhaseOK, CommandsOrdered, MessagesOlder, Order, [Next]_vars
    PROVE  Order'
<1>1. ASSUME UNCHANGED << sent, sends, command_function, written >>
      PROVE  Order'
  <2>1. Pending' = Pending
    BY <1>1 DEF Pending
  <2>2. QED
    BY <1>1, <2>1 DEF Order, SentInOrder, SentThenDirect, SentThenDeferred,
                      DirectInOrder, DeferredInOrder, DirectThenDeferred
<1>2. ASSUME NEW c \in Client,
             Issue(c) \/ Read(c) \/ Close(c) \/ Serve(c) \/ ReceiveEof(c)
      PROVE  Order'
  BY <1>1, <1>2 DEF Issue, Read, Close, Serve, ReceiveEof, server, histories
<1>3. CASE Invoke
  BY <1>3, TypedStep, OrderAtInvoke
<1>4. CASE SendDirect
  BY <1>4, OrderAtSendDirect
<1>5. CASE Write
  BY <1>5, OrderAtWrite
<1>6. CASE EndOnUser
  <2>1. sends = << >> /\ sends' = << >> /\ sent' = sent
    BY <1>6 DEF EndOnUser, Constructed, histories
  <2>2. Pending' = {}
    <3>1. command_function' = << >> /\ written' = 0 /\ Len(<< >>) = 0
      BY <1>6, EmptySeq DEF EndOnUser
    <3>2. QED
      BY <3>1 DEF Pending
  <2>3. QED
    BY <2>1, <2>2 DEF Order, SentInOrder, SentThenDirect, SentThenDeferred,
                      DirectInOrder, DeferredInOrder, DirectThenDeferred
<1>7. CASE UNCHANGED vars
  BY <1>1, <1>7 DEF vars, server, histories
<1>8. QED
  BY <1>2, <1>3, <1>4, <1>5, <1>6, <1>7 DEF Next, Process

\* The strengthening of OrderKept that every step preserves.
OrderInv ==
    /\ Typed /\ EntriesAlive
    /\ PhaseOK /\ CommandsOrdered /\ MessagesOlder
    /\ Order

LEMMA OrderInvInit == Init => OrderInv
<1>1. SUFFICES ASSUME Init
               PROVE  OrderInv
  OBVIOUS
<1>2. /\ \A c \in Client : waiting[c] = << >> /\ sent[c] = << >>
      /\ current = Nobody /\ _dataToSend = << >> /\ sends = << >> /\ command_function = << >>
      /\ written = 0 /\ quit = FALSE
  BY <1>1 DEF Init
<1>3. PhaseOK /\ CommandsOrdered /\ MessagesOlder
  BY <1>2 DEF PhaseOK, CommandsOrdered, Ordered, MessagesOlder
<1>4. Pending = {}
  <2>1. Len(command_function) = 0
    BY <1>2, EmptySeq
  <2>2. QED
    BY <1>2, <2>1 DEF Pending
<1>5. Order
  BY <1>2, <1>4 DEF Order, SentInOrder, SentThenDirect, SentThenDeferred,
                    DirectInOrder, DeferredInOrder, DirectThenDeferred
<1>6. QED
  BY <1>1, <1>3, <1>5, TypedInit, EntriesAliveInit DEF OrderInv

LEMMA OrderInvariant == Spec => []OrderInv
<1>1. Init => OrderInv
  BY OrderInvInit
<1>2. OrderInv /\ [Next]_vars => OrderInv'
  BY TypedStep, EntriesAliveStep, PhaseStep, CommandsOrderedStep, MessagesOlderStep, OrderStep
  DEF OrderInv
<1>3. QED
  BY <1>1, <1>2, PTL DEF Spec

\* Every variable holds a value of its type; in particular the entries of a channel
\* are connected clients (Delivery.tla, TypeOK).
THEOREM DeliveryTypeCorrect == Spec => []TypeOK
<1>1. Typed /\ EntriesAlive => TypeOK
  <2>1. SUFFICES ASSUME Typed, EntriesAlive
                 PROVE  TypeOK
    OBVIOUS
  <2>2. ASSUME status # "dangling", NEW ch \in Chan
        PROVE  lists[ch] \in Seq(connected)
    <3>1. lists[ch] \in Seq(Client) /\ ToSet(lists[ch]) \subseteq connected
      BY <2>1, <2>2 DEF Typed, EntriesAlive
    <3>2. \A i \in DOMAIN lists[ch] : lists[ch][i] \in connected
      BY <3>1 DEF ToSet
    <3>3. QED
      BY <3>1, <3>2, LenProperties
  <2>3. lists \in [ Chan -> Seq(connected) ] \/ status = "dangling"
    BY <2>1, <2>2 DEF Typed
  <2>4. QED
    BY <2>1, <2>3 DEF Typed, TypeOK
<1>2. QED
  BY <1>1, OrderInvariant, PTL DEF OrderInv

\* Whatever the clients send and read, of two messages of the same sender a client gets
\* the later one first only within one read of the server, and none twice but those
\* that are sent once per shared channel (User.cpp, invoke and write).
THEOREM OrderIsKept == Spec => []OrderKept
<1>1. OrderInv => OrderKept
  BY DEF OrderInv, Order, SentInOrder, MayFollow, Repeated, OrderKept
<1>2. QED
  BY <1>1, OrderInvariant, PTL

-----------------------------------------------------------------------------
(* What the clients know.                                                  *)

LEMMA ViewsUnchanged ==
    ASSUME Typed, Views,
           UNCHANGED << connected, lists, current, sends, command_function, written, quit,
                        view, stale >>,
           \A r \in Client : peer'[r] = "open" => peer[r] = "open",
           status' = status
    PROVE  Views'
<1>1. \A ch : Joins(ch)' = Joins(ch)
  BY DEF Joins, Pending
<1>2. \A r, ch : Owed(r, ch)' => Owed(r, ch)
  <2>1. connected \in SUBSET Client
    BY DEF Typed
  <2>2. QED
    BY <2>1 DEF Owed
<1>3. \A r, ch, v : Right(r, ch, v)' <=> Right(r, ch, v)
  BY DEF Right, Going
<1>4. \A r, msg : Told(r, msg)' = Told(r, msg)
  BY DEF Told
<1>5. OneDirectMessage' /\ AnswersAreOwn'
  BY DEF Views, OneDirectMessage, AnswersAreOwn
<1>6. NamesRight'
  <2>1. SUFFICES ASSUME status' = "up", NEW ch \in Chan, NEW j \in Joins(ch)',
                        Owed(current, ch)', \A k \in Joins(ch)' : k <= j
                 PROVE  Right(current, ch, command_function[j].msg.names)'
    BY DEF NamesRight
  <2>2. QED
    BY <1>1, <1>2, <1>3, <2>1 DEF Views, NamesRight
<1>7. DirectRight'
  BY <1>1, <1>2, <1>3, <1>4 DEF Views, DirectRight
<1>8. ViewRight'
  BY <1>1, <1>2, <1>3 DEF Views, ViewRight, IsTold
<1>9. QED
  BY <1>5, <1>6, <1>7, <1>8 DEF Views

\* What a message makes of the names v of channel ch.
NamesAfter(v, msg, ch) ==
    IF msg.cmd.kind = "JOIN" /\ msg.cmd.chan = ch
    THEN IF msg.deferred THEN msg.names ELSE v \cup {msg.from}
    ELSE IF msg.cmd.kind = "PART" /\ msg.cmd.chan = ch THEN v \ {msg.from}
    ELSE IF msg.cmd.kind = "KICK" /\ msg.cmd.chan = ch THEN v \ {msg.cmd.target}
    ELSE IF msg.cmd.kind = "QUIT" THEN v \ {msg.from}
    ELSE v

LEMMA ToldNames ==
    ASSUME view \in [ Client -> [ Chan -> SUBSET Client ] ],
           NEW r \in Client, NEW msg \in Messages, NEW ch \in Chan
    PROVE  Told(r, msg)[ch] = NamesAfter(view[r][ch], msg, ch)
<1>1. view[r] \in [ Chan -> SUBSET Client ] /\ msg.deferred \in BOOLEAN
  BY DEF Messages
<1>2. CASE msg.cmd.kind = "JOIN"
  BY <1>1, <1>2 DEF Told, NamesAfter
<1>3. CASE msg.cmd.kind = "PART"
  BY <1>1, <1>3 DEF Told, NamesAfter
<1>4. CASE msg.cmd.kind = "KICK"
  BY <1>1, <1>4 DEF Told, NamesAfter
<1>5. CASE msg.cmd.kind = "QUIT"
  BY <1>1, <1>5 DEF Told, NamesAfter
<1>6. CASE msg.cmd.kind \notin {"JOIN", "PART", "KICK", "QUIT"}
  BY <1>1, <1>6 DEF Told, NamesAfter
<1>7. QED
  BY <1>2, <1>3, <1>4, <1>5, <1>6

\* Getting the same direct message again changes nothing.
LEMMA ToldTwice ==
    ASSUME Typed, NEW r \in Client, NEW msg \in Messages, Arrives(r, msg), NEW ch \in Chan
    PROVE  /\ view'[r][ch] = Told(r, msg)[ch]
           /\ Told(r, msg)'[ch] = Told(r, msg)[ch]
<1>1. view' = [ view EXCEPT ![r] = Told(r, msg) ]
  BY DEF Arrives
<1>2. view'[r] = Told(r, msg)
  BY <1>1 DEF Typed
<1>3. view' \in [ Client -> [ Chan -> SUBSET Client ] ]
  BY SendType DEF Send
<1>4. Told(r, msg)'[ch] = NamesAfter(view'[r][ch], msg, ch)
  <2>1. view'[r] \in [ Chan -> SUBSET Client ] /\ msg.deferred \in BOOLEAN
    BY <1>3 DEF Messages
  <2>2. CASE msg.cmd.kind = "JOIN"
    BY <2>1, <2>2 DEF Told, NamesAfter
  <2>3. CASE msg.cmd.kind = "PART"
    BY <2>1, <2>3 DEF Told, NamesAfter
  <2>4. CASE msg.cmd.kind = "KICK"
    BY <2>1, <2>4 DEF Told, NamesAfter
  <2>5. CASE msg.cmd.kind = "QUIT"
    BY <2>1, <2>5 DEF Told, NamesAfter
  <2>6. CASE msg.cmd.kind \notin {"JOIN", "PART", "KICK", "QUIT"}
    BY <2>1, <2>6 DEF Told, NamesAfter
  <2>7. QED
    BY <2>2, <2>3, <2>4, <2>5, <2>6
<1>5. Told(r, msg)[ch] = NamesAfter(view[r][ch], msg, ch)
  BY ToldNames DEF Typed
<1>6. NamesAfter(NamesAfter(view[r][ch], msg, ch), msg, ch) = NamesAfter(view[r][ch], msg, ch)
  BY DEF NamesAfter
<1>7. QED
  BY <1>2, <1>4, <1>5, <1>6

LEMMA NamesWhenArrived ==
    ASSUME Typed, NEW r \in Client, NEW msg \in Messages, Arrives(r, msg), NEW ch \in Chan
    PROVE  view'[r][ch] = NamesAfter(view[r][ch], msg, ch)
<1>1. view \in [ Client -> [ Chan -> SUBSET Client ] ]
  BY DEF Typed
<1>2. view'[r][ch] = Told(r, msg)[ch]
  BY ToldTwice
<1>3. Told(r, msg)[ch] = NamesAfter(view[r][ch], msg, ch)
  BY <1>1, ToldNames
<1>4. QED
  BY <1>2, <1>3

LEMMA ViewsAtServe ==
    ASSUME Typed, PhaseOK, Views, NEW c \in Client, Serve(c)
    PROVE  Views'
<1>1. /\ current = Nobody /\ current' = c /\ sends = << >> /\ sends' = << >>
      /\ command_function = << >> /\ command_function' = << >> /\ quit = FALSE /\ quit' = FALSE
      /\ connected' = connected /\ lists' = lists /\ view' = view /\ stale' = stale
      /\ peer' = peer /\ status' = status
  BY DEF Serve, PhaseOK, histories, Typed
<1>2. \A ch : Joins(ch) = {} /\ Joins(ch)' = {}
  <2>1. Pending \subseteq DOMAIN << >>
    BY <1>1, PendingProperties
  <2>2. Pending' \subseteq DOMAIN << >>
    <3>1. written' = written /\ command_function' = command_function
      BY DEF Serve
    <3>2. QED
      BY <2>1, <3>1 DEF Pending
  <2>3. QED
    BY <2>1, <2>2 DEF Joins
<1>3. \A r, ch : Owed(r, ch)' => Owed(r, ch)
  BY <1>1 DEF Owed
<1>4. \A r, ch, v : Right(r, ch, v)' <=> Right(r, ch, v)
  BY <1>1 DEF Right, Going
<1>5. ViewRight'
  BY <1>1, <1>2, <1>3, <1>4 DEF Views, ViewRight, IsTold
<1>6. OneDirectMessage' /\ AnswersAreOwn' /\ NamesRight' /\ DirectRight'
  BY <1>1, <1>2 DEF OneDirectMessage, AnswersAreOwn, NamesRight, DirectRight
<1>7. QED
  BY <1>5, <1>6 DEF Views

\* Whoever knew a channel knows it when client c is gone.
LEMMA KnowsAfterDisconnect ==
    ASSUME Typed, \A ch \in Chan : IsInjective(lists[ch]),
           NEW c \in Client, Disconnect(c), status' # "dangling", Going \subseteq {c},
           NEW r \in connected \ {c}, NEW ch \in Chan, NEW v, Right(r, ch, v)
    PROVE  Knows(r, v, ToSet(lists'[ch]), connected', {})
<1>1. ToSet(lists'[ch]) = ToSet(lists[ch]) \ {c}
  BY DisconnectEntries
<1>2. connected' = connected \ {c}
  BY DEF Disconnect
<1>3. Knows(r, v, ToSet(lists[ch]), connected, Going)
  BY DEF Right
<1>4. QED
  BY <1>1, <1>2, <1>3 DEF Knows

\* The end of onUser and a disconnect, when nothing is under way.
LEMMA ViewsAtEnd ==
    ASSUME Typed, EntriesAlive, PhaseOK, Views, status = "up", sends = << >>, Pending = {},
           sends' = << >>, command_function' = << >>, current' = Nobody, quit' = FALSE,
           UNCHANGED << peer, view, stale >>,
           written' = 0,
           \/ ~ quit /\ UNCHANGED << connected, lists >>
           \/ \E c \in Client : Disconnect(c) /\ Going \subseteq {c} /\ current \in {Nobody, c}
    PROVE  Views'
<1>1. OneDirectMessage' /\ AnswersAreOwn' /\ DirectRight'
  BY DEF OneDirectMessage, AnswersAreOwn, DirectRight
<1>2. \A ch : Joins(ch) = {} /\ Joins(ch)' = {}
  <2>1. Pending' = {}
    <3>1. Len(<< >>) = 0
      BY EmptySeq
    <3>2. QED
      BY <3>1 DEF Pending
  <2>2. QED
    BY <2>1 DEF Joins
<1>3. NamesRight'
  BY <1>2 DEF NamesRight
<1>4. ASSUME status' = "up", NEW r \in Client, NEW ch \in Chan, Owed(r, ch)',
             NEW v, v = view[r][ch]
      PROVE  Right(r, ch, v)'
  <2>1. r \in connected' /\ peer[r] = "open" /\ ch \notin stale[r] /\ r # Nobody
    BY <1>4, DeliveryAssumption DEF Owed, DeliveryAssumption, Nobody
  <2>2. Going' = {}
    BY DEF Going
  <2>3. CASE ~ quit /\ UNCHANGED << connected, lists >>
    <3>1. Owed(r, ch) /\ Going = {}
      BY <2>1, <2>3 DEF Owed, Going
    <3>2. Right(r, ch, v)
      BY <1>2, <1>4, <3>1 DEF Views, ViewRight, IsTold
    <3>3. QED
      BY <2>2, <2>3, <3>1, <3>2 DEF Right
  <2>4. CASE \E c \in Client : Disconnect(c) /\ Going \subseteq {c} /\ current \in {Nobody, c}
    <3>1. PICK c \in Client : Disconnect(c) /\ Going \subseteq {c} /\ current \in {Nobody, c}
      BY <2>4
    <3>2. r \in connected \ {c}
      BY <2>1, <3>1 DEF Disconnect
    <3>3. Owed(r, ch)
      BY <2>1, <3>1, <3>2 DEF Owed
    <3>4. Right(r, ch, v)
      BY <1>2, <1>4, <3>3 DEF Views, ViewRight, IsTold
    <3>5. Knows(r, v, ToSet(lists'[ch]), connected', {})
      BY <1>4, <3>1, <3>2, <3>4, KnowsAfterDisconnect DEF EntriesAlive
    <3>6. QED
      BY <2>2, <3>5 DEF Right
  <2>5. QED
    BY <2>3, <2>4
<1>6. ViewRight'
  BY <1>4 DEF ViewRight
<1>7. QED
  BY <1>1, <1>3, <1>6 DEF Views

\* A send() of the constructor: who is told nothing more has seen the truth.
LEMMA ViewsAtSendDirect ==
    ASSUME Typed, Views, SendDirect
    PROVE  Views'
<1>0. PICK r0 \in Client, m \in Messages : r0 = Head(sends).to /\ m = Head(sends).msg
  BY RunningTypes DEF SendDirect
<1>1. /\ sends # << >> /\ status = "up" /\ current \in Client /\ sends' = Tail(sends)
      /\ Send(r0, m)
      /\ UNCHANGED << connected, lists, current, command_function, written, quit, stale >>
  BY <1>0, RunningTypes DEF SendDirect, Running
<1>2. /\ 1 \in DOMAIN sends /\ sends[1] = Head(sends)
      /\ \A i \in DOMAIN sends' : i + 1 \in DOMAIN sends /\ sends'[i] = sends[i + 1]
      /\ \A i \in DOMAIN sends : i # 1 => i - 1 \in DOMAIN sends' /\ sends'[i - 1] = sends[i]
  <2>1. sends \in Seq(Sendings)
    BY DEF Typed
  <2>2. /\ Len(sends) \in Nat \ {0} /\ Len(Tail(sends)) = Len(sends) - 1 /\ 1 \in DOMAIN sends
        /\ Head(sends) = sends[1] /\ Tail(sends) \in Seq(Sendings)
        /\ \A i \in DOMAIN Tail(sends) : i + 1 \in DOMAIN sends /\ Tail(sends)[i] = sends[i + 1]
    BY <1>1, <2>1, TailElements
  <2>3. DOMAIN sends = 1 .. Len(sends) /\ DOMAIN Tail(sends) = 1 .. (Len(sends) - 1)
    BY <2>1, <2>2, LenProperties
  <2>4. \A i \in DOMAIN sends : i # 1 => i - 1 \in DOMAIN Tail(sends) /\ (i - 1) + 1 = i
    BY <2>2, <2>3
  <2>5. QED
    BY <1>1, <2>2, <2>4
<1>3. /\ \A i \in DOMAIN sends : sends[i].msg = m
      /\ \A i \in DOMAIN sends' : sends'[i].msg = m
  BY <1>0, <1>2 DEF Views, OneDirectMessage
<1>4. \A r \in Client : r # r0 => view'[r] = view[r]
  BY <1>1 DEF Send, Arrives, IsLost, Kills, Typed
<1>5. status' = "up" /\ peer'[r0] = "open" => Arrives(r0, m)
  BY <1>1 DEF Send, IsLost, Kills, Typed
<1>6. \A r \in Client : peer'[r] = "open" => peer[r] = "open"
  BY <1>1 DEF Send, Arrives, IsLost, Kills, Typed
<1>7. \A ch : Joins(ch)' = Joins(ch)
  BY <1>1 DEF Joins, Pending
<1>8. \A r, ch : Owed(r, ch)' => Owed(r, ch) /\ r \in Client /\ peer'[r] = "open"
  <2>1. connected \in SUBSET Client
    BY DEF Typed
  <2>2. QED
    BY <1>1, <1>6, <2>1 DEF Owed
<1>9. \A r, ch, v : Right(r, ch, v)' <=> Right(r, ch, v)
  BY <1>1 DEF Right, Going
<1>10. OneDirectMessage' /\ AnswersAreOwn'
  BY <1>1, <1>3 DEF Views, OneDirectMessage, AnswersAreOwn
<1>11. NamesRight'
  <2>1. SUFFICES ASSUME NEW ch \in Chan, NEW j \in Joins(ch)',
                        Owed(current, ch)', \A k \in Joins(ch)' : k <= j
                 PROVE  Right(current, ch, command_function[j].msg.names)'
    BY DEF NamesRight
  <2>2. Owed(current, ch) /\ j \in Joins(ch) /\ \A k \in Joins(ch) : k <= j
    BY <1>1, <1>7, <1>8, <2>1
  <2>3. Right(current, ch, command_function[j].msg.names)
    BY <1>1, <2>2 DEF Views, NamesRight
  <2>4. QED
    BY <1>1, <1>9, <2>3
<1>12. ASSUME status' = "up", NEW r \in Client, NEW ch \in Chan
       PROVE  r # r0 \/ peer'[r] = "open" => Told(r, m)'[ch] = Told(r, m)[ch]
  <2>1. CASE r = r0 /\ peer'[r] = "open"
    BY <1>1, <1>5, <1>12, <2>1, ToldTwice
  <2>2. CASE r # r0
    <3>1. view'[r] = view[r]
      BY <1>4, <2>2
    <3>2. QED
      BY <3>1 DEF Told
  <2>3. QED
    BY <2>1, <2>2
<1>13. DirectRight'
  <2>1. SUFFICES ASSUME status' = "up", NEW ch \in Chan, NEW i \in DOMAIN sends', NEW r,
                        r = sends'[i].to, Owed(r, ch)', r = current => Joins(ch) = {}
                 PROVE  Right(r, ch, Told(r, m)[ch])'
    BY <1>1, <1>3, <1>7 DEF DirectRight
  <2>2. sends'[i] = sends[i + 1] /\ i + 1 \in DOMAIN sends /\ Owed(r, ch)
    BY <1>2, <1>8, <2>1
  <2>3. Right(r, ch, Told(r, m)[ch])
    BY <1>1, <1>3, <2>1, <2>2 DEF Views, DirectRight
  <2>4. Told(r, m)'[ch] = Told(r, m)[ch]
    BY <1>8, <1>12, <2>1
  <2>5. QED
    BY <1>9, <2>3, <2>4
<1>14. ViewRight'
  <2>1. SUFFICES ASSUME status' = "up", NEW r \in Client, NEW ch \in Chan,
                        Owed(r, ch)', r = current => Joins(ch) = {}, ~ IsTold(r)'
                 PROVE  Right(r, ch, view'[r][ch])
    BY <1>1, <1>7, <1>9 DEF ViewRight
  <2>2. Owed(r, ch) /\ peer'[r] = "open"
    BY <1>8, <2>1
  <2>3. CASE r = r0
    <3>1. view'[r][ch] = Told(r, m)[ch]
      BY <1>1, <1>5, <2>1, <2>2, <2>3, ToldTwice
    <3>2. sends[1].to = r
      BY <1>0, <1>2, <2>3
    <3>3. Right(r, ch, Told(r, m)[ch])
      BY <1>1, <1>2, <1>3, <2>1, <2>2, <3>2 DEF Views, DirectRight
    <3>4. QED
      BY <3>1, <3>3
  <2>4. CASE r # r0
    <3>1. ~ IsTold(r)
      <4>1. SUFFICES ASSUME NEW i \in DOMAIN sends, sends[i].to = r
                     PROVE  FALSE
        BY DEF IsTold
      <4>2. i # 1
        BY <1>0, <1>2, <2>4, <4>1
      <4>3. QED
        BY <1>2, <2>1, <4>1, <4>2 DEF IsTold
    <3>2. QED
      BY <1>1, <1>4, <2>1, <2>2, <2>4, <3>1 DEF Views, ViewRight
  <2>5. QED
    BY <2>3, <2>4
<1>15. QED
  BY <1>10, <1>11, <1>13, <1>14 DEF Views

\* A send() of User::write: after the last answer to a JOIN the client knows the channel.
LEMMA ViewsAtWrite ==
    ASSUME Typed, PhaseOK, Views, Write
    PROVE  Views'
<1> DEFINE w == written + 1
<1>1. /\ sends = << >> /\ sends' = << >> /\ status = "up" /\ w \in Pending /\ w \in DOMAIN command_function
      /\ UNCHANGED << connected, lists, current, command_function, quit, stale >>
  <2>1. /\ sends = << >> /\ sends' = sends /\ status = "up" /\ written < Len(command_function)
        /\ UNCHANGED << connected, lists, current, command_function, quit, stale >>
    BY DEF Write, Constructed, Running
  <2>2. Len(command_function) \in Nat /\ written \in Nat /\ DOMAIN command_function = 1 .. Len(command_function)
    BY PendingProperties, LenProperties DEF Typed
  <2>3. QED
    BY <2>1, <2>2 DEF Pending
<1>2. PICK r0 \in Client, m \in Messages : r0 = command_function[w].to /\ m = command_function[w].msg
  BY <1>1, ElementTypes
<1>3. Send(r0, m)
  BY <1>2 DEF Write
<1>4. /\ m.deferred /\ m.cmd.kind \in {"PING", "NICK", "JOIN", "PRIVMSG"}
      /\ m.cmd.kind = "JOIN" => r0 = current
  BY <1>1, <1>2 DEF PhaseOK, Views, AnswersAreOwn
<1>5. \A j \in Pending : j \in Pending' \/ j = w
  <2>1. written' = written + 1 /\ command_function' = command_function
    BY DEF Write
  <2>2. Len(command_function) \in Nat /\ written \in Nat
    BY PendingProperties
  <2>3. QED
    BY <2>1, <2>2 DEF Pending
<1>6. \A j \in Pending' : j \in Pending /\ w < j
  <2>1. written' = written + 1 /\ command_function' = command_function
    BY DEF Write
  <2>2. Len(command_function) \in Nat /\ written \in Nat
    BY PendingProperties
  <2>3. QED
    BY <2>1, <2>2 DEF Pending
<1> HIDE DEF w
<1>7. \A ch : /\ \A j \in Joins(ch)' : j \in Joins(ch) /\ w < j
              /\ \A j \in Joins(ch) : j \in Joins(ch)' \/ j = w
              /\ w \in Joins(ch) <=> m.cmd.kind = "JOIN" /\ m.cmd.chan = ch
  BY <1>1, <1>2, <1>5, <1>6 DEF Joins
<1>8. \A r \in Client : r # r0 => view'[r] = view[r]
  BY <1>3 DEF Send, Arrives, IsLost, Kills, Typed
<1>9. status' = "up" /\ peer'[r0] = "open" => Arrives(r0, m)
  BY <1>3 DEF Send, IsLost, Kills, Typed
<1>10. \A r, ch : Owed(r, ch)' => Owed(r, ch) /\ r \in Client /\ peer'[r] = "open"
  <2>1. \A r \in Client : peer'[r] = "open" => peer[r] = "open"
    BY <1>3 DEF Send, Arrives, IsLost, Kills, Typed
  <2>2. connected \in SUBSET Client
    BY DEF Typed
  <2>3. QED
    BY <1>1, <2>1, <2>2 DEF Owed
<1>11. \A r, ch, v : Right(r, ch, v)' <=> Right(r, ch, v)
  BY <1>1 DEF Right, Going
<1>12. OneDirectMessage' /\ AnswersAreOwn' /\ DirectRight'
  BY <1>1 DEF Views, OneDirectMessage, AnswersAreOwn, DirectRight
<1>13. NamesRight'
  <2>1. SUFFICES ASSUME NEW ch \in Chan, NEW j \in Joins(ch)',
                        Owed(current, ch)', \A k \in Joins(ch)' : k <= j
                 PROVE  Right(current, ch, command_function[j].msg.names)'
    BY DEF NamesRight
  <2>2. Owed(current, ch) /\ j \in Joins(ch) /\ w < j
    BY <1>1, <1>7, <1>10, <2>1
  <2>3. \A k \in Joins(ch) : k <= j
    <3>1. w \in Int /\ j \in Int
      BY <1>1, <2>2, PendingProperties DEF Joins, Pending
    <3>2. w <= j
      BY <2>2, <3>1
    <3>3. QED
      BY <1>7, <2>1, <3>2
  <2>4. Right(current, ch, command_function[j].msg.names)
    BY <1>1, <2>2, <2>3 DEF Views, NamesRight
  <2>5. QED
    BY <1>1, <1>11, <2>4
<1>14. ViewRight'
  <2>1. SUFFICES ASSUME status' = "up", NEW r \in Client, NEW ch \in Chan,
                        Owed(r, ch)', r = current => Joins(ch)' = {}
                 PROVE  Right(r, ch, view'[r][ch])
    BY <1>1, <1>11 DEF ViewRight
  <2>2. Owed(r, ch) /\ peer'[r] = "open"
    BY <1>10, <2>1
  <2>3. CASE r = r0 /\ m.cmd.kind = "JOIN" /\ m.cmd.chan = ch
    <3>1. view'[r][ch] = m.names
      <4>1. view'[r][ch] = NamesAfter(view[r][ch], m, ch)
        BY <1>9, <2>1, <2>2, <2>3, NamesWhenArrived
      <4>2. QED
        BY <1>4, <2>3, <4>1 DEF NamesAfter
    <3>2. w \in Joins(ch) /\ r = current
      BY <1>4, <1>7, <2>3
    <3>3. \A k \in Joins(ch) : k <= w
      <4>1. w \in Int
        BY <1>1, PendingProperties DEF Pending
      <4>2. \A k \in Joins(ch) : k = w
        BY <1>7, <2>1, <3>2
      <4>3. QED
        BY <4>1, <4>2
    <3>4. Right(r, ch, command_function[w].msg.names)
      BY <1>1, <2>2, <3>2, <3>3 DEF Views, NamesRight
    <3>5. QED
      BY <1>2, <3>1, <3>4
  <2>4. CASE ~ (r = r0 /\ m.cmd.kind = "JOIN" /\ m.cmd.chan = ch)
    <3>1. view'[r][ch] = view[r][ch]
      <4>1. CASE r = r0
        <5>1. view'[r][ch] = NamesAfter(view[r][ch], m, ch)
          BY <1>9, <2>1, <2>2, <4>1, NamesWhenArrived
        <5>2. QED
          BY <1>4, <2>4, <4>1, <5>1 DEF NamesAfter
      <4>2. CASE r # r0
        BY <1>8, <4>2
      <4>3. QED
        BY <4>1, <4>2
    <3>2. r = current => Joins(ch) = {}
      BY <1>4, <1>7, <2>1, <2>4
    <3>3. Right(r, ch, view[r][ch])
      BY <1>1, <2>2, <3>2 DEF Views, ViewRight, IsTold
    <3>4. QED
      BY <3>1, <3>3
  <2>5. QED
    BY <2>3, <2>4
<1>15. QED
  BY <1>12, <1>13, <1>14 DEF Views

\* Who is told of a command that changes who is on a channel.
LEMMA DirectReceivers ==
    ASSUME NEW c, NEW cmd, NEW r
    PROVE  /\ cmd.kind = "JOIN" =>
                (r \in ToSet(Direct(c, cmd)) <=> ~ On(c, cmd.chan) /\ On(r, cmd.chan))
           /\ cmd.kind = "PART" => (r \in ToSet(Direct(c, cmd)) <=> On(r, cmd.chan))
           /\ cmd.kind = "KICK" =>
                (r \in ToSet(Direct(c, cmd)) <=> On(cmd.target, cmd.chan) /\ On(r, cmd.chan))
<1>1. ToSet(<< >>) = {}
  BY DEF ToSet
<1>2. CASE cmd.kind = "JOIN"
  BY <1>1, <1>2 DEF Direct, ToldOfJoin, On
<1>3. CASE cmd.kind = "PART"
  BY <1>3 DEF Direct, Everyone, On
<1>4. CASE cmd.kind = "KICK"
  BY <1>1, <1>4 DEF Direct, ToldOfKick, Everyone, On
<1>5. QED
  BY <1>2, <1>3, <1>4

\* Whoever knew a channel knows it after command cmd of client c, when he has got the
\* direct message msg if it goes to him.
LEMMA KnowsAfterCommand ==
    ASSUME Typed, EntriesAlive, status # "dangling",
           NEW c \in connected, NEW cmd \in Commands, NEW msg,
           msg.cmd = cmd, msg.from = c, ~ msg.deferred,
           NEW r \in Client, NEW ch \in Chan, NEW v, NEW going, going \subseteq {c},
           Knows(r, v, ToSet(lists[ch]), connected, going),
           cmd.kind = "QUIT" => r # c,
           cmd.kind = "JOIN" /\ cmd.chan = ch /\ ~ On(c, ch) => r # c
    PROVE  Knows(r, IF r \in ToSet(Direct(c, cmd)) THEN NamesAfter(v, msg, ch) ELSE v,
                 ToSet(ListsAfter(c, cmd)[ch]), connected,
                 IF cmd.kind = "QUIT" THEN {c} ELSE going)
<1> DEFINE L == ToSet(lists[ch])
           told == r \in ToSet(Direct(c, cmd))
<1>1. ToSet(ListsAfter(c, cmd)[ch]) =
        IF ch = cmd.chan /\ cmd.kind = "JOIN" THEN L \cup {c}
        ELSE IF ch = cmd.chan /\ cmd.kind = "PART" THEN L \ {c}
        ELSE IF ch = cmd.chan /\ cmd.kind = "KICK" THEN L \ {cmd.target}
        ELSE L
  <2>1. c \in Client
    BY DEF Typed
  <2>2. \A d \in Chan : IsInjective(lists[d])
    BY DEF EntriesAlive
  <2>3. QED
    BY <2>1, <2>2, ListsAfterEntries
<1>2. /\ r \in v <=> r \in L
      /\ r \in L => (v \cap connected) \ going = L \ going
  BY DEF Knows
<1>3. /\ c \in L <=> On(c, ch)
      /\ r \in L <=> On(r, ch)
      /\ cmd.target \in L <=> On(cmd.target, ch)
  BY DEF On
<1>4. /\ cmd.kind = "JOIN" => (told <=> ~ On(c, cmd.chan) /\ On(r, cmd.chan))
      /\ cmd.kind = "PART" => (told <=> On(r, cmd.chan))
      /\ cmd.kind = "KICK" => (told <=> On(cmd.target, cmd.chan) /\ On(r, cmd.chan))
  BY DirectReceivers
<1> HIDE DEF L, told
<1>5. CASE cmd.kind = "JOIN" /\ ch = cmd.chan
  <2>1. CASE On(c, ch)
    <3>1. L \cup {c} = L /\ ~ told
      BY <1>3, <1>4, <1>5, <2>1
    <3>2. QED
      BY <1>1, <1>2, <1>5, <3>1 DEF Knows, told
  <2>2. CASE ~ On(c, ch)
    <3>1. r # c /\ NamesAfter(v, msg, ch) = v \cup {c} /\ (told <=> r \in L)
      BY <1>3, <1>4, <1>5, <2>2 DEF NamesAfter
    <3>2. CASE r \in L
      BY <1>1, <1>2, <1>5, <3>1, <3>2 DEF Knows, told
    <3>3. CASE r \notin L
      BY <1>1, <1>2, <1>5, <3>1, <3>3 DEF Knows, told
    <3>4. QED
      BY <3>2, <3>3
  <2>3. QED
    BY <2>1, <2>2
<1>6. CASE cmd.kind = "PART" /\ ch = cmd.chan
  <2>1. NamesAfter(v, msg, ch) = v \ {c} /\ (told <=> r \in L)
    BY <1>3, <1>4, <1>6 DEF NamesAfter
  <2>2. CASE r \in L
    BY <1>1, <1>2, <1>6, <2>1, <2>2 DEF Knows, told
  <2>3. CASE r \notin L
    BY <1>1, <1>2, <1>6, <2>1, <2>3 DEF Knows, told
  <2>4. QED
    BY <2>2, <2>3
<1>7. CASE cmd.kind = "KICK" /\ ch = cmd.chan
  <2>1. NamesAfter(v, msg, ch) = v \ {cmd.target} /\ (told <=> cmd.target \in L /\ r \in L)
    BY <1>3, <1>4, <1>7 DEF NamesAfter
  <2>2. CASE r \in L /\ cmd.target \in L
    BY <1>1, <1>2, <1>7, <2>1, <2>2 DEF Knows, told
  <2>3. CASE r \in L /\ cmd.target \notin L
    BY <1>1, <1>2, <1>7, <2>1, <2>3 DEF Knows, told
  <2>4. CASE r \notin L
    BY <1>1, <1>2, <1>7, <2>1, <2>4 DEF Knows, told
  <2>5. QED
    BY <2>2, <2>3, <2>4
<1>8. CASE cmd.kind = "QUIT"
  <2>1. NamesAfter(v, msg, ch) = v \ {c} /\ r # c
    BY <1>8 DEF NamesAfter
  <2>2. ToSet(ListsAfter(c, cmd)[ch]) = L
    BY <1>1, <1>8
  <2>3. \A w : w = v \/ w = v \ {c} => Knows(r, w, L, connected, {c})
    BY <1>2, <2>1 DEF Knows
  <2>4. QED
    BY <1>8, <2>1, <2>2, <2>3
<1>9. CASE cmd.kind # "QUIT" /\ ~ (cmd.kind \in {"JOIN", "PART", "KICK"} /\ ch = cmd.chan)
  <2>1. NamesAfter(v, msg, ch) = v
    BY <1>9 DEF NamesAfter
  <2>2. ToSet(ListsAfter(c, cmd)[ch]) = L
    BY <1>1, <1>9
  <2>3. QED
    BY <1>9, <2>1, <2>2 DEF L
<1>10. QED
  BY <1>5, <1>6, <1>7, <1>8, <1>9

\* Which channels' names come late after a command.
LEMMA StaleAfter ==
    ASSUME Typed, PhaseOK, Invoke
    PROVE  /\ \A r \in Client : r # current => stale'[r] = stale[r]
           /\ \A ch \in Chan :
                ch \in stale'[current] <=>
                  IF ch = NextItem.cmd.chan /\ NextItem.cmd.kind = "JOIN"
                  THEN ch \in stale[current] /\ On(current, ch)
                  ELSE ch \in stale[current] \/ (lists'[ch] # lists[ch] /\ Joins(ch) # {})
<1> DEFINE T == { ch \in Chan :
                    IF ch = NextItem.cmd.chan /\ NextItem.cmd.kind = "JOIN"
                    THEN ch \in stale[current] /\ On(current, ch)
                    ELSE \/ ch \in stale[current]
                         \/ /\ lists'[ch] # lists[ch]
                            /\ \E i \in DOMAIN command_function :
                                 LET joined == command_function[i].msg.cmd
                                 IN  joined.kind = "JOIN" /\ joined.chan = ch }
<1>1. stale' = [ stale EXCEPT ![current] = T ]
  BY DEF Invoke, NextItem
<1>2. Pending = DOMAIN command_function
  <2>1. written = 0
    <3>1. _dataToSend # << >> /\ written \in Nat
      BY PendingProperties DEF Invoke
    <3>2. QED
      BY <3>1 DEF PhaseOK
  <2>2. QED
    BY <2>1, PendingProperties DEF Pending
<1>3. current \in Client
  BY InvokeEffects
<1>4. \A ch \in Chan :
        (\E i \in DOMAIN command_function :
           LET joined == command_function[i].msg.cmd
           IN  joined.kind = "JOIN" /\ joined.chan = ch) <=> Joins(ch) # {}
  BY <1>2 DEF Joins
<1>5. \A ch \in Chan :
        ch \in T <=>
          IF ch = NextItem.cmd.chan /\ NextItem.cmd.kind = "JOIN"
          THEN ch \in stale[current] /\ On(current, ch)
          ELSE ch \in stale[current] \/ (lists'[ch] # lists[ch] /\ Joins(ch) # {})
  BY <1>4
<1> HIDE DEF T
<1>6. /\ stale'[current] = T
      /\ \A r \in Client : r # current => stale'[r] = stale[r]
  BY <1>1, <1>3 DEF Typed
<1>7. QED
  BY <1>5, <1>6

\* While lines are executed nothing has been written yet.
LEMMA PendingAtInvoke ==
    ASSUME Typed, Typed', PhaseOK, Invoke
    PROVE  Pending = DOMAIN command_function /\ Pending' = DOMAIN command_function'
<1>1. written = 0 /\ written' = 0
  <2>1. _dataToSend # << >> /\ written \in Nat /\ written' = written
    BY PendingProperties, InvokeEffects
  <2>2. QED
    BY <2>1 DEF PhaseOK
<1>2. DOMAIN command_function' = 1 .. Len(command_function') /\ Len(command_function') \in Nat
  BY LenProperties DEF Typed
<1>3. QED
  BY <1>1, <1>2, PendingProperties DEF Pending

\* A command: whoever is told of it will know its channel when he has been told, and
\* whoever joins will when he has got the names.
LEMMA ViewsAtInvoke ==
    ASSUME Typed, EntriesAlive, PhaseOK, CommandsOrdered, Views, Invoke, Typed', EntriesAlive'
    PROVE  Views'
<1>1. PICK c \in Client, cmd \in Commands, msg \in Messages, answer \in Messages, names \in {NextNames} :
        /\ c = current /\ cmd = NextItem.cmd /\ msg = NextMessage /\ answer = NextAnswer
        /\ names = NextNames
  BY InvokeEffects
<1>2. /\ c \in connected /\ status = "up" /\ status' = "up" /\ current' = c
      /\ sends = << >> /\ lists' = ListsAfter(c, cmd)
      /\ quit' = (quit \/ cmd.kind = "QUIT")
      /\ connected' = connected /\ peer' = peer /\ view' = view /\ written' = written
  BY <1>1, InvokeEffects
<1>3. \A i \in DOMAIN sends' :
        i \in DOMAIN Direct(c, cmd) /\ sends'[i].to = Direct(c, cmd)[i] /\ sends'[i].msg = msg
  BY <1>1, InvokeEffects
<1>4. DOMAIN sends' = DOMAIN Direct(c, cmd)
  BY <1>1, InvokeEffects
<1>5. \A i \in DOMAIN command_function : command_function'[i] = command_function[i]
  BY InvokeEffects
<1>6. ASSUME NEW i \in DOMAIN command_function' \ DOMAIN command_function
      PROVE  /\ i = Len(command_function) + 1 /\ command_function'[i].msg = answer
             /\ Deferred(c, cmd) # << >> /\ command_function'[i].to = Deferred(c, cmd)[1]
  BY <1>1, InvokeEffects
<1>7. Deferred(c, cmd) # << >> =>
        Len(command_function) + 1 \in DOMAIN command_function' \ DOMAIN command_function
  BY <1>1, InvokeEffects
<1>8. /\ msg.from = c /\ msg.cmd = cmd /\ ~ msg.deferred
      /\ answer.cmd = cmd /\ answer.names = names
      /\ cmd.kind = "JOIN" => names = ToSet(ListsAfter(c, cmd)[cmd.chan])
  <2>1. NextItem.from = c
    BY <1>1, InvokeEffects DEF CommandsOrdered, Ordered
  <2>2. QED
    BY <1>1, <2>1 DEF NextMessage, NextAnswer, NextNames, Message
<1>9. /\ \A r \in Client : r # c => stale'[r] = stale[r]
      /\ \A ch \in Chan :
           ch \in stale'[c] <=>
             IF ch = cmd.chan /\ cmd.kind = "JOIN" THEN ch \in stale[c] /\ On(c, ch)
             ELSE ch \in stale[c] \/ (lists'[ch] # lists[ch] /\ Joins(ch) # {})
  BY <1>1, StaleAfter
<1>10. Going' = IF cmd.kind = "QUIT" THEN {c} ELSE Going
  BY <1>1, <1>2 DEF Going
<1>11. ASSUME NEW ch \in Chan
       PROVE  /\ Joins(ch) \subseteq Joins(ch)'
              /\ \A j \in Joins(ch)' \ Joins(ch) :
                   /\ cmd.kind = "JOIN" /\ cmd.chan = ch /\ ~ On(c, ch)
                   /\ j = Len(command_function) + 1
              /\ cmd.kind = "JOIN" /\ cmd.chan = ch /\ ~ On(c, ch) =>
                   Len(command_function) + 1 \in Joins(ch)'
  <2>1. Pending = DOMAIN command_function /\ Pending' = DOMAIN command_function'
    BY PendingAtInvoke
  <2>2. Joins(ch) \subseteq Joins(ch)'
    BY <1>5, <2>1, InvokeEffects DEF Joins
  <2>3. ASSUME NEW j \in Joins(ch)' \ Joins(ch)
        PROVE  /\ cmd.kind = "JOIN" /\ cmd.chan = ch /\ ~ On(c, ch)
               /\ j = Len(command_function) + 1
    <3>1. /\ j \in DOMAIN command_function'
          /\ command_function'[j].msg.cmd.kind = "JOIN" /\ command_function'[j].msg.cmd.chan = ch
      BY <2>1, <2>3 DEF Joins
    <3>2. j \notin DOMAIN command_function
      BY <1>5, <2>1, <2>3, <3>1 DEF Joins
    <3>3. /\ j = Len(command_function) + 1 /\ command_function'[j].msg = answer
          /\ Deferred(c, cmd) # << >>
      BY <1>6, <3>1, <3>2
    <3>4. cmd.kind = "JOIN" /\ cmd.chan = ch
      BY <1>8, <3>1, <3>3
    <3>5. QED
      BY <3>3, <3>4, DeferredCases
  <2>4. ASSUME cmd.kind = "JOIN", cmd.chan = ch, ~ On(c, ch)
        PROVE  Len(command_function) + 1 \in Joins(ch)'
    <3>1. Deferred(c, cmd) # << >>
      BY <2>4 DEF Deferred
    <3>2. Len(command_function) + 1 \in DOMAIN command_function' \ DOMAIN command_function
      BY <1>7, <3>1
    <3>3. command_function'[Len(command_function) + 1].msg = answer
      BY <1>6, <3>2
    <3>4. QED
      BY <1>8, <2>1, <2>4, <3>2, <3>3 DEF Joins
  <2>5. QED
    BY <2>2, <2>3, <2>4
<1>12. OneDirectMessage'
  BY <1>3 DEF OneDirectMessage
<1>13. AnswersAreOwn'
  <2>1. ASSUME NEW j \in DOMAIN command_function'
        PROVE  /\ command_function'[j].msg.cmd.kind \in {"PING", "NICK", "JOIN", "PRIVMSG"}
               /\ command_function'[j].msg.cmd.kind = "JOIN" => command_function'[j].to = current'
    <3>1. CASE j \in DOMAIN command_function
      BY <1>1, <1>2, <1>5, <3>1 DEF Views, AnswersAreOwn
    <3>2. CASE j \notin DOMAIN command_function
      <4>1. /\ command_function'[j].msg.cmd = cmd /\ Deferred(c, cmd) # << >>
            /\ command_function'[j].to = Deferred(c, cmd)[1]
        BY <1>6, <1>8, <2>1, <3>2
      <4>2. cmd.kind \in {"PING", "NICK", "JOIN", "PRIVMSG"}
            /\ (cmd.kind = "JOIN" => Deferred(c, cmd)[1] = c)
        BY <4>1, DeferredCases
      <4>3. QED
        BY <1>2, <4>1, <4>2
    <3>3. QED
      BY <3>1, <3>2
  <2>2. QED
    BY <2>1 DEF AnswersAreOwn
\* What is owed afterwards was owed before, except by a JOIN.
<1>14. ASSUME NEW r \in Client, NEW ch \in Chan, Owed(r, ch)',
              r = c => ~ (cmd.kind = "JOIN" /\ cmd.chan = ch /\ ~ On(c, ch))
       PROVE  Owed(r, ch) /\ (cmd.kind = "QUIT" => r # c)
  <2>1. /\ r \in connected /\ peer[r] = "open" /\ ch \notin stale'[r]
        /\ r = c => ~ quit /\ cmd.kind # "QUIT"
    BY <1>2, <1>14 DEF Owed
  <2>2. ch \notin stale[r]
    BY <1>9, <1>14, <2>1
  <2>3. QED
    BY <1>1, <2>1, <2>2 DEF Owed
<1>15. NamesRight'
  <2>1. SUFFICES ASSUME NEW ch \in Chan, NEW j \in Joins(ch)', Owed(c, ch)',
                        \A k \in Joins(ch)' : k <= j, NEW w, w = command_function'[j].msg.names
                 PROVE  Right(c, ch, w)'
    BY <1>2 DEF NamesRight
  <2>2. CASE cmd.kind = "JOIN" /\ cmd.chan = ch /\ ~ On(c, ch)
    <3>1. j = Len(command_function) + 1
      <4>1. Len(command_function) + 1 <= j
        BY <1>11, <2>1, <2>2
      <4>2. j \in Joins(ch) => j <= Len(command_function) /\ j \in Int
        BY PendingProperties DEF Joins
      <4>3. Len(command_function) \in Nat
        BY PendingProperties
      <4>4. j \notin Joins(ch)
        BY <4>1, <4>2, <4>3
      <4>5. QED
        BY <1>11, <2>1, <4>4
    <3>2. w = ToSet(lists'[ch])
      <4>1. j \in DOMAIN command_function' \ DOMAIN command_function
        BY <1>7, <2>2, <3>1 DEF Deferred
      <4>2. QED
        BY <1>2, <1>6, <1>8, <2>1, <2>2, <4>1
    <3>3. ToSet(lists'[ch]) \subseteq connected'
      BY <1>2 DEF EntriesAlive
    <3>4. QED
      BY <3>2, <3>3 DEF Right, Knows
  <2>3. CASE ~ (cmd.kind = "JOIN" /\ cmd.chan = ch /\ ~ On(c, ch))
    <3>1. Owed(c, ch) /\ cmd.kind # "QUIT"
      BY <1>14, <2>1, <2>3
    <3>2. Joins(ch)' = Joins(ch) /\ j \in Joins(ch)
      BY <1>11, <2>1, <2>3
    <3>3. lists'[ch] = lists[ch]
      <4>1. ch \notin stale'[c]
        BY <2>1 DEF Owed
      <4>2. CASE cmd.kind = "JOIN" /\ cmd.chan = ch
        BY <1>2, <2>3, <4>2 DEF ListsAfter
      <4>3. CASE ~ (cmd.kind = "JOIN" /\ cmd.chan = ch)
        BY <1>9, <3>2, <4>1, <4>3
      <4>4. QED
        BY <4>2, <4>3
    <3>4. Right(c, ch, w)
      <4>1. w = command_function[j].msg.names
        BY <1>5, <2>1, <3>2, PendingProperties DEF Joins
      <4>2. QED
        BY <1>1, <1>2, <2>1, <3>1, <3>2, <4>1 DEF Views, NamesRight
    <3>5. QED
      BY <1>2, <1>10, <3>1, <3>3, <3>4 DEF Right
  <2>4. QED
    BY <2>2, <2>3
\* Whoever is not about to get the names of the channel.
<1>16. ASSUME NEW r \in Client, NEW ch \in Chan, Owed(r, ch)', r = c => Joins(ch)' = {},
              NEW w, w = IF r \in ToSet(Direct(c, cmd)) THEN NamesAfter(view[r][ch], msg, ch)
                         ELSE view[r][ch]
       PROVE  Right(r, ch, w)'
  <2>1. r = c => ~ (cmd.kind = "JOIN" /\ cmd.chan = ch /\ ~ On(c, ch)) /\ Joins(ch) = {}
    BY <1>11, <1>16
  <2>2. Owed(r, ch) /\ (cmd.kind = "QUIT" => r # c)
    BY <1>14, <1>16, <2>1
  <2>3. Right(r, ch, view[r][ch])
    BY <1>1, <1>2, <2>1, <2>2 DEF Views, ViewRight, IsTold
  <2>4. Knows(r, view[r][ch], ToSet(lists[ch]), connected, Going) /\ Going \subseteq {c}
    BY <1>1, <2>3 DEF Right, Going
  <2>5. Knows(r, w, ToSet(ListsAfter(c, cmd)[ch]), connected,
              IF cmd.kind = "QUIT" THEN {c} ELSE Going)
    BY <1>2, <1>8, <1>16, <2>1, <2>2, <2>4, KnowsAfterCommand
  <2>6. QED
    BY <1>2, <1>10, <2>5 DEF Right
<1>17. DirectRight'
  <2>1. SUFFICES ASSUME NEW ch \in Chan, NEW i \in DOMAIN sends', NEW r \in Client,
                        r = sends'[i].to, Owed(r, ch)', r = c => Joins(ch)' = {},
                        NEW w, w = Told(r, msg)'[ch]
                 PROVE  Right(r, ch, w)'
    <3>1. sends' \in Seq(Sendings)
      BY DEF Typed
    <3>2. \A i \in DOMAIN sends' : sends'[i] \in Sendings
      BY <3>1, ElementOfSeq, LenProperties
    <3>3. \A i \in DOMAIN sends' : sends'[i].to \in Client /\ sends'[i].msg = msg
      BY <1>3, <3>2 DEF Sendings
    <3>4. QED
      BY <1>2, <3>3 DEF DirectRight
  <2>2. r \in ToSet(Direct(c, cmd))
    BY <1>3, <2>1 DEF ToSet
  <2>3. Told(r, msg)'[ch] = Told(r, msg)[ch]
    BY <1>2 DEF Told
  <2>4. Told(r, msg)[ch] = NamesAfter(view[r][ch], msg, ch)
    <3>1. view \in [ Client -> [ Chan -> SUBSET Client ] ]
      BY DEF Typed
    <3>2. QED
      BY <3>1, ToldNames
  <2>5. QED
    BY <1>16, <2>1, <2>2, <2>3, <2>4
<1>18. ViewRight'
  <2>1. SUFFICES ASSUME NEW r \in Client, NEW ch \in Chan, Owed(r, ch)',
                        r = c => Joins(ch)' = {}, ~ IsTold(r)', NEW w, w = view[r][ch]
                 PROVE  Right(r, ch, w)'
    BY <1>2 DEF ViewRight
  <2>2. r \notin ToSet(Direct(c, cmd))
    BY <1>3, <1>4, <2>1 DEF IsTold, ToSet
  <2>3. QED
    BY <1>16, <2>1, <2>2
<1>19. QED
  BY <1>12, <1>13, <1>15, <1>17, <1>18 DEF Views

LEMMA ViewsStep ==
    ASSUME OrderInv, OrderInv', Views, [Next]_vars
    PROVE  Views'
<1>1. Typed /\ EntriesAlive /\ PhaseOK /\ CommandsOrdered /\ Typed' /\ EntriesAlive'
  BY DEF OrderInv
<1>2. ASSUME NEW c \in Client, Issue(c)
      PROVE  Views'
  BY <1>1, <1>2, ViewsUnchanged DEF Issue, server, histories
<1>3. ASSUME NEW c \in Client, Read(c)
      PROVE  Views'
  BY <1>1, <1>3, ViewsUnchanged DEF Read, server, histories
<1>4. ASSUME NEW c \in Client, Close(c)
      PROVE  Views'
  <2>1. \A r \in Client : peer'[r] = "open" => peer[r] = "open"
    BY <1>1, <1>4 DEF Close, Typed
  <2>2. QED
    BY <1>1, <1>4, <2>1, ViewsUnchanged DEF Close, server, histories
<1>5. ASSUME NEW c \in Client, Serve(c)
      PROVE  Views'
  BY <1>1, <1>5, ViewsAtServe
<1>6. ASSUME NEW c \in Client, ReceiveEof(c)
      PROVE  Views'
  <2>1. /\ status = "up" /\ current = Nobody /\ Disconnect(c) /\ current' = Nobody
        /\ sends = << >> /\ command_function = << >> /\ quit = FALSE
        /\ sends' = << >> /\ command_function' = << >> /\ quit' = FALSE
        /\ UNCHANGED << written, peer, view, stale >>
    BY <1>1, <1>6 DEF ReceiveEof, PhaseOK, sockets, histories, Typed
  <2>2. written = 0
    <3>1. Len(<< >>) = 0
      BY EmptySeq
    <3>2. written \in 0 .. 0
      BY <1>1, <2>1, <3>1 DEF Typed
    <3>3. QED
      BY <3>2
  <2>3. Pending = {}
    BY <1>1, <2>1, PendingProperties
  <2>4. Going = {}
    BY <2>1 DEF Going
  <2>5. QED
    BY <1>1, <2>1, <2>2, <2>3, <2>4, ViewsAtEnd
<1>7. CASE Invoke
  BY <1>1, <1>7, ViewsAtInvoke
<1>8. CASE SendDirect
  BY <1>1, <1>8, ViewsAtSendDirect
<1>9. CASE Write
  BY <1>1, <1>9, ViewsAtWrite
<1>10. CASE EndOnUser
  <2>1. /\ status = "up" /\ current # Nobody /\ sends = << >> /\ sends' = << >>
        /\ written = Len(command_function)
        /\ current' = Nobody /\ quit' = FALSE /\ command_function' = << >> /\ written' = 0
        /\ IF quit THEN Disconnect(current) ELSE UNCHANGED << connected, lists, status >>
        /\ UNCHANGED << peer, view, stale >>
    BY <1>10 DEF EndOnUser, Constructed, Running, sockets, histories
  <2>2. Pending = {}
    BY <1>1, <2>1, PendingProperties DEF Pending
  <2>3. current \in Client /\ Going \subseteq {current}
    BY <1>1, <2>1 DEF Going, Typed
  <2>4. \/ ~ quit /\ UNCHANGED << connected, lists >>
        \/ \E c \in Client : Disconnect(c) /\ Going \subseteq {c} /\ current \in {Nobody, c}
    BY <2>1, <2>3
  <2>5. QED
    BY <1>1, <2>1, <2>2, <2>4, ViewsAtEnd
<1>11. CASE UNCHANGED vars
  BY <1>1, <1>11, ViewsUnchanged DEF vars, server, sockets, histories
<1>12. QED
  BY <1>2, <1>3, <1>4, <1>5, <1>6, <1>7, <1>8, <1>9, <1>10, <1>11 DEF Next, Process

LEMMA ViewsInit == Init => Views
<1>1. SUFFICES ASSUME Init
               PROVE  Views
  OBVIOUS
<1>2. Typed /\ EntriesAlive
  BY <1>1, TypedInit, EntriesAliveInit
<1>3. PICK on \in [ Chan -> SUBSET Client ] :
        /\ lists = [ ch \in Chan |-> Ascending(on[ch]) ]
        /\ view = [ c \in Client |-> on ]
  BY <1>1 DEF Init
<1>4. sends = << >> /\ command_function = << >> /\ connected = Client /\ quit = FALSE
  BY <1>1 DEF Init
<1>5. \A ch : Joins(ch) = {}
  BY <1>2, <1>4, PendingProperties DEF Joins
<1>6. ASSUME NEW r \in Client, NEW ch \in Chan
      PROVE  Right(r, ch, view[r][ch])
  <2>1. on[ch] \in SUBSET Client
    OBVIOUS
  <2>2. on[ch] \in SUBSET Int /\ IsFiniteSet(on[ch])
    BY <2>1, DeliveryAssumption, FS_Subset DEF DeliveryAssumption
  <2>3. ToSet(lists[ch]) = on[ch] /\ view[r][ch] = on[ch]
    BY <1>3, <2>2, AscendingProperties
  <2>4. QED
    BY <1>4, <2>1, <2>3 DEF Right, Knows, Going
<1>7. QED
  BY <1>4, <1>5, <1>6
  DEF Views, OneDirectMessage, AnswersAreOwn, NamesRight, DirectRight, ViewRight

\* Whenever nothing is under way, every client who still reads has been told the truth
\* about the members of every channel, except for the names that came late and for who
\* has hung up without a QUIT (Command.cpp, sendJoin, sendPart, sendKick, sendQuit).
THEOREM ViewsAreTrue == Spec => []ViewsAgree
<1>1. Init => OrderInv /\ Views
  BY OrderInvInit, ViewsInit
<1>2. OrderInv /\ Views /\ [Next]_vars => (OrderInv /\ Views)'
  <2>1. OrderInv /\ [Next]_vars => OrderInv'
    BY TypedStep, EntriesAliveStep, PhaseStep, CommandsOrderedStep, MessagesOlderStep, OrderStep
    DEF OrderInv
  <2>2. QED
    BY <2>1, ViewsStep
<1>3. OrderInv /\ Views => ViewsAgree
  <2>1. SUFFICES ASSUME OrderInv, Views, Quiet, NEW r \in connected,
                        NEW ch \in Chan \ stale[r], peer[r] = "open"
                 PROVE  /\ r \in view[r][ch] <=> On(r, ch)
                        /\ On(r, ch) => view[r][ch] \cap connected = ToSet(lists[ch])
    BY DEF ViewsAgree
  <2>2. /\ Typed /\ current = Nobody /\ status = "up"
        /\ sends = << >> /\ command_function = << >> /\ quit = FALSE
    BY <2>1 DEF OrderInv, PhaseOK, Quiet, Typed
  <2>3. r \in Client
    BY <2>2 DEF Typed
  <2>4. Joins(ch) = {} /\ ~ IsTold(r) /\ Owed(r, ch) /\ Going = {}
    BY <2>1, <2>2, PendingProperties DEF Joins, IsTold, Owed, Going
  <2>5. Knows(r, view[r][ch], ToSet(lists[ch]), connected, {})
    BY <2>1, <2>2, <2>3, <2>4 DEF Views, ViewRight, Right
  <2>6. QED
    BY <2>5 DEF Knows, On
<1>4. QED
  BY <1>1, <1>2, <1>3, PTL DEF Spec

=============================================================================
