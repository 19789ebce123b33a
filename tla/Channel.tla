------------------------------ MODULE Channel ------------------------------
(***************************************************************************)
(* Channel.cpp and the list searches of Command.cpp.                       *)
(*                                                                         *)
(* The program keeps lists of User pointers (the members and operators of  *)
(* a Channel, the entries of Server::_channel_users under one key) and     *)
(* searches all of them in the same way: front to back, dereferencing each *)
(* pointer and comparing nicknames, stopping at the first match.  `name`   *)
(* is the function from addresses to the nickname stored there now.        *)
(***************************************************************************)
EXTENDS Integers, Sequences, SequencesExt

\* Some pointer of `list` leads to nickname n.
Named(list, name, n) == \E i \in DOMAIN list : name[list[i]] = n

\* The first pointer of `list` that leads to nickname n.
FirstNamed(list, name, n) ==
    list[SelectInSeq(list, LAMBDA u : name[u] = n)]

\* `list` after its first pointer that leads to nickname n is erased.
EraseNamed(list, name, n) ==
    RemoveFirstMatch(list, LAMBDA u : name[u] = n)

\* The pointers a search for nickname n dereferences.
Searched(list, name, n) ==
    { list[i] : i \in { j \in DOMAIN list :
                          \A k \in 1 .. (j - 1) : name[list[k]] # n } }

-----------------------------------------------------------------------------
(***************************************************************************)
(* A Channel object.  pos is its place in the vector Server::_channels,    *)
(* counted from 1; 0 says that no channel of this name exists.             *)
(***************************************************************************)
ChannelType(Addr) ==
    [ pos : Nat, members : Seq(Addr), operators : Seq(Addr) ]

NoChannel == [ pos |-> 0, members |-> << >>, operators |-> << >> ]

Exists(ch) == ch.pos > 0

\* Mutation: whoever joins becomes an operator.
BecomesOperatorAlways(ch) == TRUE

\* The user becomes the operator of a channel that has none.
BecomesOperator(ch) == ch.operators = << >>

AddUser(ch, u) ==
    [ ch EXCEPT !.operators = IF BecomesOperator(ch) THEN Append(@, u) ELSE @,
                !.members = Append(@, u) ]

\* Mutation: the operators are forgotten.
DeleteMemberOnly(ch, name, n) ==
    [ ch EXCEPT !.members = EraseNamed(@, name, n) ]

DeleteUser(ch, name, n) ==
    [ ch EXCEPT !.operators = EraseNamed(@, name, n),
                !.members = EraseNamed(@, name, n) ]

\* giveTakeOpPrivileges, the two modes that change the channel.
GiveOp(ch, name, target) ==
    IF Named(ch.operators, name, name[target]) THEN ch
    ELSE [ ch EXCEPT !.operators = Append(@, target) ]

TakeOp(ch, name, target) ==
    [ ch EXCEPT !.operators = EraseNamed(@, name, name[target]) ]
=============================================================================
