# TLA+ models of the 42-Queenz IRC server

The program is a small IRC server in C++98 (`src/main.cpp`, `src/src/*.cpp`,
`src/includes/*.hpp`). It has one process, one thread and one `poll()` loop. Everything
a client says is executed at once, in the order of the loop; there is no disk
and no second server. The hard part of this code is its bookkeeping. The same user is
known to the server in five ways at once, through descriptors and through raw pointers, and
different commands change different subsets of them. The models follow that.

## 1. Inventory

| Component | State it keeps | Operations | Correct if |
|---|---|---|---|
| Connection table: `Server::_pollfds`, `Server::_users` (Server.cpp) | the polled descriptors; a map from descriptors to `User*` | `connectNewUser`, `disconnectUser` | all records of who is connected agree at every moment |
| User (User.cpp) | password, nickname, user name, state, operator mark `_nickOP`; receive buffer, queue of replies | `onUser` = `receive`, `split`, one `Command` per line, `write` | nothing is granted before the password; nicknames are unique |
| Channels: `Server::_channels` and `Server::_channel_users` (Channel.cpp) | a vector of Channels, each with members and operators; beside it a multimap from channel names to `User*` | `addUser`, `deleteUser`, operator changes | the two records of who is in a channel agree |
| Commands (Command.cpp) | none that outlives the call | PASS NICK USER JOIN PART KICK MODE TOPIC PRIVMSG NOTICE SENDFILE QUIT PING | each changes the lists only with the right to, and leads to no dead pointer |
| Event loop: `main`, `Server::run`, `serverError`, SIGINT handler | the flag of main.cpp, `_serverRunningStatus`, the snapshot of events, the loop index | one round of `poll()` and the loop over its result | never blocks, serves everybody, gives descriptors back, ends when told to |
| Input pipeline: `User::receive`, `User::split`, `Utils::split` | the partial line of every client | one `recv()` | the lines do not depend on how the stream is cut |
| Delivery: `User::invoke`, `User::write`, the direct `send()` calls of Command.cpp | the replies queued in this batch | queue, flush, send to a channel | the right clients get the right messages in order |
| Argument parsing: Utils.cpp and the `substr()` sequences of the handlers | none | pure functions | what the comments and the protocol say |
| Socket set-up: `setPort`, `setNewSocket`, `parse` | the listening socket | once | failure ends the program |
| `Log`; `src/resources/` | none | prints; a tutorial program and drafts the Makefile does not build | outside the models |

How they interact: `Server::run` calls `User::onUser(server)`, which builds one `Command` per
complete line. Its constructor executes the command and reaches back into the server's maps and
into other clients' Users. When `onUser` is back, `run` looks at the state and
calls `disconnectUser`, which walks over all channels. All sharing is through pointers.
There are no messages between components, and the only asynchronous actor inside the process is
the SIGINT handler. Concurrency is that of clients: which client is served
next, how many lines one batch holds, when somebody hangs up, and what address `new` returns.

What is hard here, and listed line by line under `hazards` in `PROJECT.json`:

* several records of one fact that are changed separately (multimap, Channel, users, pollfds);
* pointers that outlive their User, and freed memory that becomes another client;
* searches by the nickname a pointer leads to *now*;
* erasing from a vector while a loop is at it (in the sweep of channels, and in the event loop);
* a whole batch executed before a QUIT takes effect;
* events that are a snapshot, sockets that block, no descriptor left, a flag nobody reads;
* replies that wait for the end of a batch while broadcasts go out at once, peers who do not read or
  have gone;
* a stream cut anywhere, and arithmetic on positions that may be -1.

## 2. Modules

```
Channel <- Sweep <- Server <- Command <- IrcServer <- MCIrcServer      (TLC)
                                            ^   :
                                            |   Sessions
                  SessionsProofs -> IrcServerProofs <- ListsProofs     (TLAPS)

EventLoop <- EventLoopProofs                                           (TLC; TLAPS)

ByteStream <- InputStream <- InputStreamProofs                         (TLC; TLAPS)
     ^            :
     +---------- Lines

Delivery <- DeliveryProofs                                             (TLC; TLAPS)
Parsing <- ParsingProofs                                               (TLC; TLAPS)
```

`A <- B` reads: B extends A; `B : A` (also vertically) reads: B is shown to implement A, with INSTANCE A
WITH. All modules of proofs but SessionsProofs and ListsProofs, which get it from IrcServerProofs, extend
SequenceLemmas; ByteStream, Delivery, Parsing and SequenceLemmas extend Sorting.

* **Channel** - `Channel.cpp` and the search loop that `Command.cpp`, `Channel.cpp` and
  `Server.cpp` repeat: front to back, follow each pointer, compare nicknames, stop at the first
  match. `Searched` is the set of pointers such a loop dereferences.
* **Sweep** - the loop in `disconnectUser` that erases empty channels under its own iterator.
* **Server** - the state, `connectNewUser` and `disconnectUser`.
* **Command** - `User::onUser` and the handlers of `Command.cpp`, one action each.
* **IrcServer** - the next-state relation, the invariants, the action properties, the refinement
  mapping to Sessions, and a statement that a comment of the source makes.
* **Sessions** - the abstract server: who is connected, under which nickname and how far
  registered. No lists, no pointers, no memory.
* **MCIrcServer** - symmetry, the constraint and the sets of arguments for TLC.
* **EventLoop** - `main` and `Server::run` with clients, kernel and signals around them. What a
  command does is left out; serving a client may disconnect him.
* **ByteStream**, **Lines**, **InputStream** - streams of bytes; what the input of one client promises;
  `receive`, `split` and `invoke` step by step.
* **Delivery** - every `send()`: who is sent what, when, and what becomes of it.
* **Parsing** - how `Command.cpp` and `Utils.cpp` cut a line.
* **Sorting** - numbers in ascending order, which is how a `std::map` is walked through: the places of a
  byte in a string, the Commands of a batch.
* **SequenceLemmas** - facts about arbitrary sequences: injective ones, appending, removing the first match,
  filtering, elements in ascending order, parts of a concatenation.
* **IrcServerProofs** (types, tables, nicknames, passwords, entries), **ListsProofs** (the lists and who
  changes them), **SessionsProofs** (the refinement), **EventLoopProofs**, **InputStreamProofs**,
  **DeliveryProofs**, **ParsingProofs** - the theorems.

The five models look at the same program from five sides and rest on one another. Delivery and
InputStream assume of the event loop what `DataIsServed` says; Delivery compares
clients where the code compares nicknames, which is `NicknamesUnique`; Command takes a command with its
parameters, which is what Parsing shows of a line; EventLoop assumes that serving a
client ends, which is what `delivery_fair` says (`OnUserReturns`, with the exception it names) and
`delivery_killed` limits.

### The server: how the state corresponds

| Model | Code |
|---|---|
| `pollfds` (Server) | `_pollfds` without its first entry, the listening socket |
| `users` | `_users`: descriptor to address |
| `live`, `heap` | the allocated Users; the contents of every address, freed ones included |
| `channel_users[c]` | the entries of the multimap under key `c`, in order |
| `channels[c]` | the Channel named `c`; `pos` is its place in the vector, 0 if there is none |
| `current` | the client whose `onUser` is running |
| `status` | `"up"`, or what ended the process: a bad `"line"` or a bad `"pointer"` |
| `clean` | history variable: every user who left was taken off all lists |

Pointers are members of `Addr`. `new User` returns any address that is not live, so
re-use of memory is explored. Freed memory that some list still leads to keeps its nickname or is
overwritten (`Garbage`); a dereference of it either ends the process (`Segfault`) or reads what
is there. Freed memory nobody leads to is `Blank`, which merges states that cannot be told apart.

`User::username` and `_nickOP` are kept as "empty or not", because that is all the code tests.
`REGISTERED` of the enum is missing from `UserState` because no line assigns it.

The loop of `disconnectUser` that erases empty channels skips the channel after each erased one.
`ErasedAt` goes over the places as the iterator does: a place is erased if its channel is empty and
the iterator comes to it. The read past the end, after the last channel was erased, only feeds
a print and has no effect in the model.

An early return that at most queues a reply changes none of this state. It is a stutter, and its
condition is a guard. `EndOnUser` is the end of a batch: `DELETE` leads to `disconnectUser`.
Any number of commands comes between `ReceiveLines` and `EndOnUser`, also after a QUIT.

`Sessions` keeps one record per connection (the password given or not, nickname, user name, state),
who is served, and whether the process is up. Its actions are Open, Begin, Authenticate, TakeNick,
TakeUsername, Quit, End, HangUp and Crash, with their rules: a nickname nobody else has, nothing before the
password, the welcome exactly when registration is complete, an end only after all lines of a batch. `SessionTable` in
IrcServer maps the one to the other through `users` and `heap`.

### The event loop

`pollfds` is a sequence of descriptors with their `revents`; the first entry is the listening
socket. `AcceptFirst` is what the code does as soon as *any* entry has an event while the
listening socket has one: accept, and break. `ServeClient` reads once; a disconnect erases the
entry, and the `++` of the loop passes over the one that moved into its place.

After a `poll()` that fails, `serverError(2)` closes the listening socket and clears the status, and the for
loop is run all the same (`PollFails`). What it finds depends on the failure. `Interrupt` is the
signal handler; a `poll()` that waits returns with EINTR, and Linux has then written every `revents`,
as 0, because nothing was ready: the loop does nothing. If something is ready, `poll()`
returns that, and the signal only sets the flag. `PollError` is any other failure (ENOMEM): no `revents` is written,
and the loop goes over those of an earlier `poll()`, and over the -1 which `connectNewUser` gives a
new entry. `accept()` on the closed socket fails; `onUser` for a client with nothing to read waits in `recv()`, in the model
a `ServeClient` that is not enabled until he sends something or hangs up.

The platform is Linux: an accepted socket does not inherit O_NONBLOCK from the listening one, `accept()`
fails with EMFILE at the limit of descriptors, and `signal()` makes a `recv()` go on after the handler.

### The input of one client

`kernel` holds the bytes that wait in the socket, `_buffer` and `_dataToSend` are the fields of
User, `saved` is everything that was ever appended to `_buffer`. `ReceiveBytes`, `ReceiveError` and
`ReceiveEof` are the three outcomes of `recv()`. The middle one is -1 in a `size_t`:
neither test of the code holds, the terminator is written one byte before the array, where it
overwrites a byte that is 0 already, and the function goes on with no new bytes. `append(recv_buffer)` takes
a C string: `CString` cuts a read at its first byte 0. `Lines` is the promise: lines are
executed once and in order, nobody is let go before his last line unless he has quit, and only a byte 0
may make the stream lose something, no more than one read.

### Delivery

| Model | Code |
|---|---|
| `lists` | `_channel_users`, by client instead of by pointer |
| `sends` | the `send()` calls the running constructor of Command still has to make |
| `command_function`, `written` | the Commands of the batch with a message to write, and the iterator of `User::write` |
| `unread` | the messages in a client's socket; at `Capacity`, `send()` to him blocks |
| `peer` | `open`, `closed`, or `broken`: a send after the close has been answered by a reset |
| `sent`, `view`, `stale` | history: what each client was sent, what he knows of each channel, and of which channels he was told too late |

`Invoke` is the constructor of a Command: it makes the list of direct receivers, keeps the deferred
messages, and changes the lists at once. That the `send()` calls come before the erase in
`sendPart` and `sendKick`, and after the insert in `sendJoin`, is in who is on the list of
receivers; nobody can see the lists between the two. `SendDirect` and `Write` make one
`send()` each. To a peer who has closed, the first succeeds and is lost, the second raises SIGPIPE, which
nothing ignores. A user of several channels who leaves keeps an entry with a dangling pointer; from
there IrcServer carries on, and Delivery ends with the status `"dangling"`.

### Parsing

Operators over strings of characters, one per handler, that do what the handler does with
`find`, `substr` and lengths, including `substr` past the end (it throws) and lengths that are negative
(as `size_t`: everything). A line is one of `Throws`, `Ignored`, or cut into its parameters. The
reference, `Pieces`, knows nothing of that arithmetic: it cuts a string at the places of its
spaces. The state machine only enumerates the lines.

## 3. Runs

The runs of the server all use two connections. The nicknames are model values, and three passwords
(the right one, the empty one, a wrong one) are enough: the code only ever compares with `argv[2]`
and with the stored one.

| Run | Instance | Shows |
|---|---|---|
| `channel_lists` | 2 addresses, 2 descriptors, 2 nicknames and the empty one, 2 channels, lists up to 3 (279,333 distinct states) | `ListsAgree`, `MembersLeaveOnlyBy`, `OperatorsAppointed`, `PointerFaultOnlyBy`, `CleanLeaveIff`, and the refinement `ImplementsSessions` |
| `freed_memory` | 2 addresses, 2 descriptors, 2 nicknames, 2 channels, lists up to 2; nothing is cut off (1,157,529) | `TypeOK`, `FdTablesAgree`, `NicknamesUnique`, `NothingBeforePassword`, `EntriesUnique` with dangling pointers in Channels and in the multimap (which needs two channels), and with re-used memory |
| `event_loop` | 3 descriptors, 3 clients at a time, 4 connections altogether, 1 waiting read each, set-up and `poll()` may fail (116,860) | `TypeOK`, `NeverBlocksInRecv`, `DataIsServed`, `HangUpReleases`, `ConnectionsAccepted`, `InterruptStops` |
| `input_stream` | bytes of four kinds, reads of up to 2, up to 5 bytes saved or waiting (70,768) | `NothingWaits`, and the refinement `ExecutesLines` with its liveness |
| `delivery_views` | 3 clients, 1 channel with any of them on it, 3 commands of six kinds in any batches, one client may close (7,781,362) | `TypeOK`, `OrderKept`, `ViewsAgree` |
| `delivery_fair` | 2 clients, 2 commands each, PRIVMSG or a message to the channel, sockets that hold one message in either direction, one client reads only after his last command and may close (147,575) | `OrderKept`, `OnUserReturns`, `DeferredArrives` |
| `parsing` | every line of a command's letter and up to 7 characters of 6 kinds; names cut at 2, nicknames at 4 (335,923) | `ThrowsExactlyWhen`, `CutsAtSpaces`, `JoinedChannelCanBeNamed`, `SplitsIntoPieces`, `NicknameCanBeNamed` |
| `dangling` | violation | `EntriesAreLive`: a user of two channels leaves |
| `no_descriptor_left` | violation | `DataIsServed`: one connection more than descriptors |
| `delivery_killed` | violation | `BroadcastsComplete`: the second `send()` to a member who has closed ends the process in the middle of a broadcast |
| `kick_reason` | violation | `KickReasonIsOptional`: a KICK without a reason does nothing |
| `nick_characters` | violation | `NicknameAsCommented`: a nickname of other characters than letters and digits is taken |

What the properties say:

* `ListsAgree`: as long as nobody has left uncleanly, all pointers lead to existing Users,
  whoever is in the multimap is a member of an existing Channel, and operators are members.
  The opposite inclusion is false, and that is no slip of the model: KICK erases only the
  multimap's entry.
* `CleanLeaveIff`: *exactly* which users leave uncleanly - one registered in several channels, one
  who is twice in a member list (kicked and back again), and one with the empty nickname while
  another user with the empty nickname is on a list. It tells a maintainer what has to be
  repaired in `disconnectUser`, and that nothing else has to be.
* `PointerFaultOnlyBy`: before that happens, the only command that ends the server by a bad pointer
  is MODE, from an operator who has been kicked. (An unclean leave makes many more possible.)
* `MembersLeaveOnlyBy`, `OperatorsAppointed`: who may take a member out or raise an operator.
  They depend on `ListsAgree`, because the operator check is skipped when no Channel exists.
* `FdTablesAgree`, `NicknamesUnique`, `NothingBeforePassword`, `EntriesUnique`: these do not depend on the
  lists being clean, and are checked (and proved) with dangling pointers around.
* `ImplementsSessions`: whatever happens to lists and memory, who is connected, under which
  nickname and how far registered changes only by the rules of Sessions. (TLC looks up to the first unclean
  leave, the proof also at what dangling pointers do afterwards.)
* `DataIsServed`, `HangUpReleases`, `ConnectionsAccepted`: as long as `serverError` has not been called
  and there is a descriptor for everybody, each client is served, released and accepted at last,
  although `++` passes over entries and an accept ends the round.
* `NeverBlocksInRecv`: until `poll()` has failed, `onUser` is called only for clients with something to read. After
  that it is not so: with `Failures` = {"poll"} and without the premise `serverRunningStatus` TLC finds it violated.
* `InterruptStops`: flag and cleared status together end the process, in either order and from any place. The
  only thing that keeps it is a `recv()` that waits for ever, which takes a failed `poll()`. A SIGINT that
  comes while `poll()` has something to report, or outside of it, leaves the status set; the property does not
  speak of that case, and the server goes on until a second one.
* `ExecutesLines`, `NothingWaits`: fragments, a reset with its `recv()` of -1, and a QUIT in the middle
  of a read cost no line; a byte 0 costs the rest of its read.
* `OrderKept`: the one exception. Within one batch a broadcast overtakes a reply or PRIVMSG
  that came before it. Nothing else is out of order, and only what is sent once per shared channel comes twice.
* `ViewsAgree`: a client who follows what he is told knows who is on his channels, with two
  exceptions: nobody is told of a hang-up, and the names of a JOIN are out of date if the
  client's PART or KICK was in the same batch.
* `ThrowsExactlyWhen`: a registered client ends the server by a JOIN, PART, MODE, KICK or TOPIC that
  ends with its first space, and by a TOPIC that ends with the space after its channel; and by no other line.
* `CutsAtSpaces`: the arithmetic on positions that may be -1 is right wherever it does not throw. MODE
  wants a third parameter, which may be empty. What becomes of a KICK without one is left to `KickReasonIsOptional`.
* `JoinedChannelCanBeNamed`: JOIN cuts a long name, the others do not, so such a channel cannot be named as
  the client named it.
* `NicknameCanBeNamed`: NICK takes the word as it stands or not at all, and takes it if it is a short one of letters
  and digits; a PRIVMSG finds its receiver by every nickname but one that begins with #. Which other
  words are taken is left to `NicknameAsCommented`.
* `OnUserReturns`, `DeferredArrives`: each batch ends and each PRIVMSG (and each answer to a PING) arrives, with one exception that is part of the
  statement: the process waits in `send()` for a client who waits for the process to read, and it stays
  so for ever (`[]WaitForEachOther`). That happens in `delivery_fair` itself; without the exception TLC
  finds `OnUserReturns` violated there. Nobody else is served then, which is the real meaning of the exception.

Bounds. `MaxListed` bounds a list; a kicked user who rejoins is listed twice, so 3 lets a list
hold one user twice and another one beside him, or one user three times. Two channels are the least with an
adjacent empty channel and with two keys to search. Before the first unclean leave every pointer is live, so
that a third address would add nothing to `channel_lists`. Its constraint, `ListsBound`, stops at the first
unclean leave (all its properties but `ImplementsSessions` speak of steps up to that one, and TLC
checks the step that leaves uncleanly as well; the proofs of section 4 have no such bound), and takes the second channel only together with shorter lists of users with names.
In `input_stream`, five bytes hold two lines, a QUIT between them and a begun one, and three reads;
what a byte 0 has cost does not count. In `delivery_views`, three commands are two of one client in one batch
or two, and one of another between them; three clients are a sender, a target and a bystander. In
`parsing`, eight characters are enough for a command, two spaces in a row, three parameters, and names beyond
their limits. In `delivery_fair`, a batch of two commands is the least that fills a socket of one and blocks; one
message may wait in the server's socket and one in his own hands, so that he, too, blocks. The limits are 50 and 63 in the code; nothing but a comparison with the length
depends on them. CHECK_DEADLOCK is FALSE in all runs, because the process really ends.

TOPIC and MODE send to the same entries as PART and leave the list alone; no run of three commands has
them (a seventh kind doubles the states of `delivery_views`). With `MaxCommands = MaxTotal = 2` and
"TOPIC" added to `Kind` its three invariants hold as well (239,913 states, 5 seconds).

Fairness. `EventLoop` and `InputStream` assume `WF_vars(Process)`: the process is one thread which the
operating system goes on scheduling. Clients and signals have none; they may stop at any time.
`MaxConnects` bounds the connections made: the code accepts before it serves, so clients who
keep connecting for ever do keep the others waiting for ever, and `DataIsServed` holds only as
long as the stream of connections ends. In `event_loop` there are enough descriptors
(`MaxClients` = the number of `Fd`); `no_descriptor_left` is the case where there are not.
`Delivery`'s `FairSpec` adds what it leaves to the event loop and to the clients: `SF` on
`Serve(c)`, because a client with data is served again and again whatever the others do (`DataIsServed`);
`WF` on `Read(c)`, for clients who read; and `WF` on `Issue(c)` for the client who reads only
when he has sent everything. `OnUserReturns` needs no `SF`: nobody is served while a batch is under way. The `WF` on
`Issue(c)` does not make that client send everything, because the server's socket may be full; that is the
deadlock which the two properties except. With "PING" alone as `Kind`, `MaxCommands` = 4 and `MaxTotal` = 8 it
happens as well: four PINGs sent before anything is read are enough. The client who may close (`Leaving`) is the one the
process may be waiting for; with "PING" beside the other two kinds, or with both clients leaving, the properties hold as
well, in three to four minutes.

Every property of a passing run has a mutant, an operator beside the original under a comment
"Mutation:", whose substitution makes TLC find the property violated.

## 4. Proofs

For every set of addresses, descriptors, nicknames, passwords and clients, every finite set of
channels, every size of reads, sockets, batches and limits, and every set of characters. Dangling pointers
are included where the statement does not exclude them:

| Module | Theorem | Statement |
|---|---|---|
| IrcServerProofs | `TypeCorrect` | `Spec => []TypeOK` |
| | `TablesAgree` | `Spec => []FdTablesAgree` |
| | `NicknamesAreUnique` | `Spec => []NicknamesUnique` |
| | `PasswordFirst` | `Spec => []NothingBeforePassword` |
| | `EntriesAreUnique` | `Spec => []EntriesUnique` |
| SessionsProofs | `SessionsImplemented` | `Spec => ImplementsSessions` |
| ListsProofs | `ListsAlwaysAgree` | `Spec => []ListsAgree` |
| | `MembersLeave` | `Spec => MembersLeaveOnlyBy` |
| | `OperatorsAreAppointed` | `Spec => OperatorsAppointed` |
| | `OnlyModeFails` | `Spec => PointerFaultOnlyBy` |
| | `WhoLeavesCleanly` | `Spec => CleanLeaveIff` |
| EventLoopProofs | `LoopTypeCorrect` | `Spec => []TypeOK` |
| | `RecvNeverBlocks` | `Spec => []NeverBlocksInRecv` |
| InputStreamProofs | `NoLineWaits` | `Spec => []NothingWaits` |
| | `InputAsPromised` | the safety part of `ExecutesLines`: `Spec => Abstract!Init /\ [][Abstract!Next]_(Abstract!vars)` |
| DeliveryProofs | `DeliveryTypeCorrect` | `Spec => []TypeOK` |
| | `OrderIsKept` | `Spec => []OrderKept` |
| | `ViewsAreTrue` | `Spec => []ViewsAgree` |
| ParsingProofs | `ThrowsAsStated` | `Spec => []ThrowsExactlyWhen` |
| | `CutAsStated` | `Spec => []CutsAtSpaces` |
| | `JoinedChannelAsStated` | `Spec => []JoinedChannelCanBeNamed` |
| | `SplitAsStated` | `Spec => []SplitsIntoPieces` |
| | `NicknameAsStated` | `Spec => []NicknameCanBeNamed` |

Assumptions: those the modules name (`FdAssumption`, `ChanAssumption`, `NickAssumption`,
`PasswordAssumption`, `ArgAssumption`, `MaxListedAssumption`, `LoopAssumption`, `ByteAssumption`,
`InputAssumption`, `DeliveryAssumption`, `ParsingAssumption`); TLC evaluates them in every run of their module.
They say that constants which stand for different things are different (a letter is no digit, no client is
`NoClient`), that the set of channels is finite, and that limits are natural numbers.

The server. `SequenceLemmas` says what erasing the first match of a list does; its facts are
about arbitrary sequences. `TypeOK` is inductive by itself, one lemma per handler. Then
`StepKinds` shows that every step of the server is of one of five kinds: the process ends, a client
connects, a client is disconnected, the current client changes his own record (under conditions), or only
lists and operator marks change. The other invariants need one case per kind rather than one per
handler. `FdTablesAgree` is inductive given the types; that each User knows
his own descriptor is the part that makes it so, because it makes `users` injective. Injectivity is what
`NicknamesUnique` needs: the client who renames himself is the only connection at his address, and
`check_free_nickname` covers all others, registered or not. `NothingBeforePassword` is inductive with the same help.
`EntriesUnique` rests on `handleDoubleUserError`: a search by nickname that finds nobody
with the client's nickname cannot have passed the client's own pointer.

The refinement. `SessionsProofs` maps the initial state and then each kind of step to a step of Sessions
or to a stutter. That a step changes one address of `heap` becomes a change of
one session because `users` is injective (`FdTablesAgree`); that a new nickname is free among sessions
is `check_free_nickname` read through the mapping.

The event loop. `NeverBlocksInRecv` speaks of the time until `poll()` fails, and is not inductive. The invariant `IInv` adds to `TypeOK` that the
first entry, and only that one, is the listening socket's and descriptors are not repeated (`Table`), and that
during a scan with the status still set an event of the listening socket means a waiting connection, and every
client's entry at or behind the iterator that shows an event is readable (`Snapshot`). An erase moves entries forward by one place, and the iterator
moves on by one as well, so that none of the entries before it comes back.

The lists. `ListsAgree` is inductive only together with what keeps searches right (`NicknamesUnique`,
`EntriesUnique`, the tables) and with `PlacesDistinct`: the existing channels have different places, numbered
within their count. That last part is what the sweep of `disconnectUser` needs. Although it passes over the channel
behind each one it erases, what it erases had no members (`DeletedAreEmpty`), and the channels it keeps
are moved up to distinct places again with their members and operators (`SweptPlaces`). A step that
leaves the lists clean is then one of few kinds (`CleanBefore`): it leaves them alone, edits one
channel, connects a client, or takes one off all lists. `MembersLeaveOnlyBy` and `OperatorsAppointed` follow kind by
kind. `PointerFaultOnlyBy` holds because while all pointers are live only the MODE of an operator
without an entry in the multimap dereferences a NULL. `CleanLeaveIff` needs one more invariant, `ListedNamesDiffer`: two users on
lists have different nicknames, so that of those with none at most one is on a list. Both directions then ask of
one searched list at a time what the first match is.

The input. `InputInv` says where the lines are: those executed and those waiting in `_dataToSend` are, in order, the
first lines of `saved`, and `_buffer` is what follows them; `saved` has no byte 0; and a client is marked
`DELETE` only by a QUIT he has executed or at the end of his stream. `NothingWaits` is the case in which
`split` has just ended. The refinement maps a read to a stutter, or to `Lose` if it held a byte 0;
`InvokeLine` to `Deliver`; `Return` to `End` or a stutter; the other steps stutter. It rests on what the lines of
a concatenation are (`LinesOf` of a stream does not change when more arrives), which follows from the order
of the places of newlines and not from a recursion.

Delivery. `OrderKept` looks at two messages in one client's socket. `OrderInv` extends the relation behind it,
`MayFollow`, to all messages on their way: sent, waiting to be sent directly, and deferred, each pair in the order in
which they will be sent. Beside it stand what numbers commands carry: messages belong to commands already executed, and
the commands that wait are later ones in ascending order. `ViewsAgree` speaks of the moments between two
batches. During a batch a client's view of a channel is either right or will be made right by what
is on its way: the last pending answer to his JOIN, or the one direct message that is just going round
(`Views`); and the entries of a client who has executed QUIT (`Going`) count as gone for those who have been told.

Parsing. The only fact about the state is that the line is a string. `find` gives the first place of a
character, so each handler reduces to what stands before and behind a first space; `Pieces`, which is defined by the
set of all places of spaces, is shown to obey the same decomposition (`PiecesCut`). The loop of `Utils::split` is a
recursive function, and a definition by recursion on sequences cannot be unfolded before it is known that
such a function exists. `SplitRound` gets that from a closed form (`AllPieces`), and `SplitIsAllPieces` compares the
two by induction on the length of the string. The induction theorems of the library take an operator, which the
provers cannot instantiate; `SetInduction`, whose parameter is the set of numbers for which a statement
holds, takes their place.

Only model-checked:

* liveness, because it needs ENABLED and fairness: `DataIsServed`, `HangUpReleases`,
  `ConnectionsAccepted`, `InterruptStops`, `OnUserReturns`, `DeferredArrives`, and the fairness of `Lines` inside
  `ExecutesLines`;
* the five statements that are violated, which only a run can show.

Every invariant and every action property of the passing runs is proved.

## 5. What disagrees with the code's own comments

With a run that shows it:

1. "Makes user leave all channels" (Server.cpp:105): only one entry of the multimap goes (`dangling`).
2. "Function gets called when there is data to receive" (User.cpp:53): not while a connection
   waits that cannot be accepted (`no_descriptor_left`).
3. "Sends a specified string to all members" (Command.cpp:199): a member who has closed may end the
   process before the others get it (`delivery_killed`).
4. "/kick #channel  nickname [reason]" (Command.cpp:758): without the space before a reason nothing
   happens (`kick_reason`).
5. "Checks for characters a-z and digits 0-9 + size <= 63 characters" (Utils.cpp:23): no character is
   refused, and 63 characters are (`nick_characters`).

Without a run of its own; the properties of the passing runs say openly what the code does instead:

6. User.cpp:53 again: no data of anybody is received while `send()` waits for a client who does not
   read (the exception of `OnUserReturns` and `DeferredArrives`), and after a failed `poll()` the function
   is called where there is nothing to receive (the premise of `NeverBlocksInRecv`).
7. "sets server status to false which shuts down the server" (Server.cpp:252): `main` does not
   look at that status and calls `run` again for ever, unless a SIGINT comes as well (`InterruptStops`).
8. "valid channel and return _channel are same" (Command.cpp:570): they search different
   containers. When the last member parts, his Channel stays and the multimap has no entry of it
   (`ListsAgree` is an inclusion).
9. "can just check getNickOP==true" (Command.cpp:792): the mark is per user and outlives the right. The mutant
   `UserHasMark` does just that, and violates `MembersLeaveOnlyBy` and `PointerFaultOnlyBy`.
10. "saves the read bytes within buffer string" (User.cpp:67): not those behind a byte 0 (`ExecutesLines`).

## 6. Not modelled

* `Log`, all wording and formatting of replies: output only. The QUIT line that is repeated inside the
  message to the user's second channel is wording in this sense. `src/resources/`: not built.
* Socket set-up beyond success or failure, and the arguments of `main`.
* A `send()` that a signal cuts short when a part of the message is in the socket already: SIGINT is the only
  signal the program handles, and a call that has moved nothing yet goes on after it.
* The growth of `_buffer` of a client who never sends a newline: the code has no limit to state.
* In Delivery, what happens after a user of several channels has left: IrcServer has that.
* The destructor of Server, which the program never runs, and getters.

## 7. Plan

Done, in this order: Channel, Server, Command, IrcServer with its runs; SequenceLemmas and
IrcServerProofs; EventLoop; Sessions and its refinement with its proof; InputStream, Delivery,
Parsing; the proofs about EventLoop, the lists, the input of a client, delivery and parsing. Next:

1. Proofs: shorten what repeats between DeliveryProofs and ListsProofs; state as theorems what the proofs
   found on the way and no run asks yet (`ListedNamesDiffer`, `PlacesDistinct`).
2. Possibly **Membership**, the abstract specification of one channel, and EventLoop's open descriptors as an
   implementation of the Open and Close of Sessions.
