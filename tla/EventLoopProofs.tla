-------------------------- MODULE EventLoopProofs --------------------------
(***************************************************************************)
(* The event loop is well typed and, until poll() has failed, never calls  *)
(* onUser for a client with nothing to read, for any descriptors, clients, *)
(* failures and signals.                                                   *)
(*                                                                         *)
(* The second needs to be strengthened: the listening socket keeps the     *)
(* first place of _pollfds, no descriptor is polled twice, and of every    *)
(* entry the for loop has not reached yet the snapshot is still true.      *)
(***************************************************************************)
EXTENDS EventLoop, SequenceLemmas

Table ==
    /\ Len(pollfds) >= 1 /\ pollfds[1].fd = Listener
    /\ \A i \in 2 .. Len(pollfds) : pollfds[i].fd \in Fd
    /\ \A i, j \in 2 .. Len(pollfds) : pollfds[i].fd = pollfds[j].fd => i = j

Snapshot ==
    pc = "scan" =>
      /\ pfds_iterator >= 1
      /\ serverRunningStatus =>
           /\ pollfds[1].revents => backlog > 0
           /\ \A i \in 2 .. Len(pollfds) :
                i >= pfds_iterator /\ pollfds[i].revents => Readable(pollfds[i].fd)

IInv == TypeOK /\ Table /\ Snapshot

-----------------------------------------------------------------------------
\* Descriptors are naturals, and the mark of the listening socket is none.
LEMMA ListenerIsNone == Listener \notin Fd /\ Fd \subseteq Nat
BY LoopAssumption DEF Listener

\* accept() returns a descriptor that was not open.
LEMMA AcceptedIsNew ==
    ASSUME ~ (Fd \subseteq Open)
    PROVE  Min(Fd \ Open) \in Fd \ Open
BY MinOfNaturals, ListenerIsNone

\* The open descriptors are as many as entries at most.
LEMMA OpenIsFinite ==
    ASSUME TypeOK
    PROVE  Cardinality(Open) \in Nat
<1> DEFINE I == 1 .. Len(pollfds)
           all == { pollfds[i].fd : i \in I }
           f == [ i \in I |-> pollfds[i].fd ]
<1>1. pollfds \in Seq([ fd : Fd \cup {Listener}, revents : BOOLEAN ]) /\ Len(pollfds) \in Nat
  BY DEF TypeOK
<1>2. IsFiniteSet(I)
  BY <1>1, FS_Interval
<1>3. f \in Surjection(I, all)
  BY DEF Surjection
<1>4. IsFiniteSet(all)
  <2> HIDE DEF f, all, I
  <2> QED
    BY <1>2, <1>3, FS_Surjection
<1>5. Open \subseteq all
  BY <1>1 DEF Open
<1>6. QED
  <2> HIDE DEF all
  <2> QED
    BY <1>4, <1>5, FS_Subset, FS_CardinalityType

-----------------------------------------------------------------------------
(* The steps of the process.                                               *)

\* The loops outside the scan, and its end.
LEMMA ControlKeeps ==
    ASSUME IInv, MainLoop \/ RunLoop \/ EndOfScan
    PROVE  IInv'
<1>1. /\ UNCHANGED << running, serverRunningStatus, pollfds, pfds_iterator, clients >>
      /\ pc' \in {"main", "run", "poll", "exit"}
  BY DEF MainLoop, RunLoop, EndOfScan
<1>2. TypeOK'
  BY <1>1 DEF IInv, TypeOK, clients
<1>3. Table' /\ Snapshot'
  BY <1>1 DEF IInv, Table, Snapshot
<1>4. QED
  BY <1>2, <1>3 DEF IInv

\* The entries with the revents r.
Written(r) == [ i \in DOMAIN pollfds |-> [ pollfds[i] EXCEPT !.revents = r[i] ] ]

\* poll() writes the revents of the entries and leaves the descriptors.
LEMMA ReventsWritten ==
    ASSUME TypeOK, NEW r \in [ DOMAIN pollfds -> BOOLEAN ]
    PROVE  /\ Written(r) \in Seq([ fd : Fd \cup {Listener}, revents : BOOLEAN ])
           /\ Len(Written(r)) = Len(pollfds)
           /\ \A i \in 1 .. Len(pollfds) :
                Written(r)[i].fd = pollfds[i].fd /\ Written(r)[i].revents = r[i]
<1> DEFINE Entries == [ fd : Fd \cup {Listener}, revents : BOOLEAN ]
           p == Written(r)
<1>1. pollfds \in Seq(Entries) /\ DOMAIN pollfds = 1 .. Len(pollfds) /\ Len(pollfds) \in Nat
  BY DEF TypeOK
<1>2. ASSUME NEW i \in 1 .. Len(pollfds)
      PROVE  p[i] \in Entries /\ p[i].fd = pollfds[i].fd /\ p[i].revents = r[i]
  <2>1. pollfds[i] \in Entries
    BY <1>1, ElementOfSeq
  <2>2. p[i] = [ pollfds[i] EXCEPT !.revents = r[i] ] /\ r[i] \in BOOLEAN
    BY <1>1 DEF Written
  <2>3. p[i] = [ fd |-> pollfds[i].fd, revents |-> r[i] ]
    BY <2>1, <2>2
  <2>4. QED
    BY <2>1, <2>2, <2>3
<1>3. p \in [ 1 .. Len(pollfds) -> Entries ]
  <2> HIDE DEF Entries
  <2> QED
    BY <1>1, <1>2 DEF Written
<1>4. p \in Seq(Entries) /\ Len(p) = Len(pollfds)
  <2> HIDE DEF Entries, p
  <2> QED
    BY <1>1, <1>3
<1>5. QED
  BY <1>2, <1>4

\* poll() takes the snapshot.
LEMMA PollTakes ==
    ASSUME IInv, Poll
    PROVE  IInv'
<1> DEFINE r == [ i \in DOMAIN pollfds |-> Ready(pollfds[i].fd) ]
<1>1. /\ pollfds' = Written(r)
      /\ pfds_iterator' = 1 /\ pc' = "scan"
      /\ UNCHANGED << running, serverRunningStatus, backlog, connects, pending, hungUp >>
  BY DEF Poll, Written, clients
<1>2. DOMAIN pollfds = 1 .. Len(pollfds) /\ Len(pollfds) \in Nat
  BY DEF IInv, TypeOK
<1>3. \A fd : Ready(fd) \in BOOLEAN
  BY DEF IInv, TypeOK, Ready, Readable
<1>4. r \in [ DOMAIN pollfds -> BOOLEAN ]
  BY <1>3
<1>5. /\ pollfds' \in Seq([ fd : Fd \cup {Listener}, revents : BOOLEAN ])
      /\ Len(pollfds') = Len(pollfds)
      /\ \A i \in 1 .. Len(pollfds) : pollfds'[i].fd = pollfds[i].fd /\ pollfds'[i].revents = r[i]
  <2> HIDE DEF r
  <2> QED
    BY <1>1, <1>4, ReventsWritten, Zenon DEF IInv
<1>6. TypeOK'
  BY <1>1, <1>5 DEF IInv, TypeOK
<1>7. \A i \in 1 .. Len(pollfds) :
        pollfds'[i].fd = pollfds[i].fd /\ (pollfds'[i].revents => Ready(pollfds[i].fd))
  <2> SUFFICES ASSUME NEW i \in 1 .. Len(pollfds)
               PROVE  /\ pollfds'[i].fd = pollfds[i].fd
                      /\ pollfds'[i].revents => Ready(pollfds[i].fd)
    OBVIOUS
  <2>1. pollfds'[i].fd = pollfds[i].fd /\ pollfds'[i].revents = r[i]
    BY <1>5
  <2>2. r[i] = Ready(pollfds[i].fd)
    BY <1>2
  <2> HIDE DEF r
  <2>3. QED
    BY <2>1, <2>2, Zenon
<1>8. Table'
  <2> HIDE DEF r
  <2> QED
    BY <1>2, <1>5, <1>7 DEF IInv, Table
<1>9. Snapshot'
  <2>1. Len(pollfds) >= 1 /\ pollfds[1].fd = Listener
    BY DEF IInv, Table
  <2>2. serverRunningStatus' /\ pollfds'[1].revents => backlog' > 0
    <3>1. pollfds'[1].revents => Ready(Listener)
      BY <1>2, <1>7, <2>1
    <3>2. QED
      BY <1>1, <3>1 DEF Ready
  <2>3. ASSUME NEW i \in 2 .. Len(pollfds'), pollfds'[i].revents
        PROVE  pending'[pollfds'[i].fd] > 0 \/ pollfds'[i].fd \in hungUp'
    <3>1. i \in 2 .. Len(pollfds) /\ i \in 1 .. Len(pollfds)
      BY <1>2, <1>5
    <3>2. pollfds[i].fd \in Fd
      BY <3>1 DEF IInv, Table
    <3>3. pollfds'[i].fd = pollfds[i].fd /\ Ready(pollfds[i].fd)
      BY <1>7, <2>3, <3>1
    <3>4. QED
      BY <1>1, <3>2, <3>3, ListenerIsNone DEF Ready, Readable
  <2>4. QED
    BY <1>1, <2>2, <2>3 DEF Snapshot, Readable
<1>10. QED
  BY <1>6, <1>8, <1>9 DEF IInv

\* An entry without an event is passed over.
LEMMA NoEventKeeps ==
    ASSUME IInv, NoEvent
    PROVE  IInv'
<1>1. /\ Scanning /\ pfds_iterator' = pfds_iterator + 1
      /\ UNCHANGED << running, serverRunningStatus, pc, pollfds, clients >>
  BY DEF NoEvent
<1>2. TypeOK' /\ Table'
  BY <1>1 DEF IInv, TypeOK, Table, clients
<1>3. Snapshot'
  BY <1>1 DEF IInv, TypeOK, Snapshot, Readable, clients
<1>4. QED
  BY <1>2, <1>3 DEF IInv

\* A connection is accepted, behind all others.
LEMMA AcceptKeeps ==
    ASSUME IInv, AcceptFirst
    PROVE  IInv'
<1> DEFINE Entries == [ fd : Fd \cup {Listener}, revents : BOOLEAN ]
<1>1. /\ pc = "scan" /\ pollfds[1].revents /\ pc' = "run"
      /\ UNCHANGED << running, serverRunningStatus, pfds_iterator, connects, pending, hungUp >>
  BY DEF AcceptFirst, Scanning
<1>2. serverRunningStatus => backlog \in 1 .. MaxClients
  BY <1>1, LoopAssumption DEF IInv, TypeOK, Snapshot
<1>3. Snapshot'
  BY <1>1 DEF Snapshot
<1>4. CASE UNCHANGED << pollfds, backlog >>
  BY <1>1, <1>3, <1>4 DEF IInv, TypeOK, Table
<1>5. CASE ~ (Fd \subseteq Open) /\ serverRunningStatus
  <2> DEFINE new == Min(Fd \ Open)
             entry == [ fd |-> new, revents |-> TRUE ]
  <2>1. pollfds' = Append(pollfds, entry) /\ backlog' = backlog - 1
    BY <1>5 DEF AcceptFirst
  <2>2. new \in Fd \ Open
    BY <1>5, AcceptedIsNew
  <2> HIDE DEF new
  <2>3. entry \in Entries /\ entry.fd = new
    BY <2>2
  <2> HIDE DEF entry
  <2>4. pollfds \in Seq(Entries) /\ Len(pollfds) \in Nat
    BY DEF IInv, TypeOK
  <2>5. /\ pollfds' \in Seq(Entries) /\ Len(pollfds') = Len(pollfds) + 1
        /\ \A i \in 1 .. Len(pollfds) : pollfds'[i] = pollfds[i]
        /\ pollfds'[Len(pollfds) + 1] = entry
    BY <2>1, <2>3, <2>4
  <2>6. \A i \in 2 .. Len(pollfds) : pollfds[i].fd # new
    <3>1. \A i \in 2 .. Len(pollfds) : pollfds[i].fd \in Open
      BY <2>4, ListenerIsNone DEF IInv, Table, Open
    <3>2. QED
      BY <2>2, <3>1
  <2>7. TypeOK'
    BY <1>1, <1>2, <1>5, <2>1, <2>5, LoopAssumption DEF IInv, TypeOK
  <2>8. Table'
    <3>1. Len(pollfds') >= 1 /\ pollfds'[1].fd = Listener
      BY <2>4, <2>5 DEF IInv, Table
    <3>2. \A i \in 2 .. Len(pollfds') :
            \/ i \in 2 .. Len(pollfds) /\ pollfds'[i].fd = pollfds[i].fd
            \/ i = Len(pollfds) + 1 /\ pollfds'[i].fd = new
      BY <2>3, <2>4, <2>5
    <3>3. \A i \in 2 .. Len(pollfds') : pollfds'[i].fd \in Fd
      BY <2>2, <3>2 DEF IInv, Table
    <3>4. \A i, j \in 2 .. Len(pollfds') : pollfds'[i].fd = pollfds'[j].fd => i = j
      BY <2>6, <3>2 DEF IInv, Table
    <3>5. QED
      BY <3>1, <3>3, <3>4 DEF Table
  <2>9. QED
    BY <1>3, <2>7, <2>8 DEF IInv
<1>6. QED
  BY <1>4, <1>5 DEF AcceptFirst

\* A client is served.  What the others have to read stays, and if he is
\* disconnected, the entries behind his move up by one, as the iterator does not.
LEMMA ServeKeeps ==
    ASSUME IInv, NEW fd \in Fd, ServeClient(fd)
    PROVE  IInv'
<1> DEFINE Entries == [ fd : Fd \cup {Listener}, revents : BOOLEAN ]
           n == pfds_iterator
<1>1. /\ pc = "scan" /\ n <= Len(pollfds) /\ pollfds[n].fd = fd /\ ~ pollfds[1].revents
      /\ pfds_iterator' = n + 1
      /\ UNCHANGED << running, serverRunningStatus, pc, backlog, connects >>
  BY DEF ServeClient, Serving, Scanning, Entry
<1>2. pollfds \in Seq(Entries) /\ Len(pollfds) \in Nat /\ n \in 2 .. Len(pollfds)
  BY <1>1, ListenerIsNone DEF IInv, TypeOK, Table, Snapshot
<1>3. \A i \in 2 .. Len(pollfds) : i # n => pollfds[i].fd # fd
  BY <1>1, <1>2 DEF IInv, Table
<1>4. /\ pending' \in [ Fd -> 0 .. MaxPending ] /\ hungUp' \subseteq Fd
      /\ \A g \in Fd \ {fd} : Readable(g) => Readable(g)'
  <2>1. pending \in [ Fd -> 0 .. MaxPending ] /\ hungUp \subseteq Fd /\ MaxPending \in Nat
    BY LoopAssumption DEF IInv, TypeOK
  <2>2. CASE /\ pending[fd] > 0 /\ pending' = [ pending EXCEPT ![fd] = @ - 1 ]
             /\ hungUp' = hungUp
    BY <2>1, <2>2 DEF Readable
  <2>3. CASE pending' = [ pending EXCEPT ![fd] = 0 ] /\ hungUp' = hungUp \ {fd}
    BY <2>1, <2>3 DEF Readable
  <2>4. QED
    BY <2>2, <2>3 DEF ServeClient
<1>5. \/ pollfds' = pollfds
      \/ /\ pollfds' \in Seq(Entries) /\ Len(pollfds') = Len(pollfds) - 1
         /\ \A k \in 1 .. (Len(pollfds) - 1) :
              pollfds'[k] = IF k < n THEN pollfds[k] ELSE pollfds[k + 1]
  <2> HIDE DEF Entries
  <2>1. n \in 1 .. Len(pollfds)
    BY <1>2
  <2>2. pollfds' = pollfds \/ pollfds' = RemoveAt(pollfds, n)
    BY DEF ServeClient
  <2>3. QED
    BY <1>2, <2>1, <2>2, RemoveAtProperties
<1>6. \E shift \in [ 1 .. Len(pollfds') -> 1 .. Len(pollfds) ] :
        /\ \A k \in 1 .. Len(pollfds') : pollfds'[k] = pollfds[shift[k]]
        /\ \A k, m \in 1 .. Len(pollfds') : k < m => shift[k] < shift[m]
        /\ \A k \in 1 .. Len(pollfds') : k <= shift[k] /\ (k < n => shift[k] = k)
  <2>1. CASE pollfds' = pollfds
    <3> DEFINE shift == [ k \in 1 .. Len(pollfds') |-> k ]
    <3>1. shift \in [ 1 .. Len(pollfds') -> 1 .. Len(pollfds) ]
      BY <2>1
    <3>2. /\ \A k \in 1 .. Len(pollfds') : pollfds'[k] = pollfds[shift[k]]
          /\ \A k, m \in 1 .. Len(pollfds') : k < m => shift[k] < shift[m]
          /\ \A k \in 1 .. Len(pollfds') : k <= shift[k] /\ (k < n => shift[k] = k)
      BY <1>2, <2>1
    <3> HIDE DEF shift
    <3>3. QED
      BY <3>1, <3>2
  <2>2. CASE /\ pollfds' \in Seq(Entries) /\ Len(pollfds') = Len(pollfds) - 1
             /\ \A k \in 1 .. (Len(pollfds) - 1) :
                  pollfds'[k] = IF k < n THEN pollfds[k] ELSE pollfds[k + 1]
    <3> DEFINE shift == [ k \in 1 .. Len(pollfds') |-> IF k < n THEN k ELSE k + 1 ]
    <3>1. shift \in [ 1 .. Len(pollfds') -> 1 .. Len(pollfds) ]
      BY <1>2, <2>2
    <3>2. /\ \A k \in 1 .. Len(pollfds') : pollfds'[k] = pollfds[shift[k]]
          /\ \A k, m \in 1 .. Len(pollfds') : k < m => shift[k] < shift[m]
          /\ \A k \in 1 .. Len(pollfds') : k <= shift[k] /\ (k < n => shift[k] = k)
      BY <1>2, <2>2
    <3> HIDE DEF shift
    <3>3. QED
      BY <3>1, <3>2
  <2>3. QED
    BY <1>5, <2>1, <2>2
<1>7. PICK shift \in [ 1 .. Len(pollfds') -> 1 .. Len(pollfds) ] :
        /\ \A k \in 1 .. Len(pollfds') : pollfds'[k] = pollfds[shift[k]]
        /\ \A k, m \in 1 .. Len(pollfds') : k < m => shift[k] < shift[m]
        /\ \A k \in 1 .. Len(pollfds') : k <= shift[k] /\ (k < n => shift[k] = k)
  BY <1>6
<1>8. pollfds' \in Seq(Entries) /\ Len(pollfds') \in Nat \ {0} /\ pollfds'[1] = pollfds[1]
  BY <1>2, <1>5
<1>9. TypeOK'
  BY <1>1, <1>2, <1>4, <1>8 DEF IInv, TypeOK
<1>10. \A k \in 2 .. Len(pollfds') : shift[k] \in 2 .. Len(pollfds) /\ shift[k] \in Nat
  BY <1>2, <1>7, <1>8
<1>11. Table'
  <2>1. \A k \in 2 .. Len(pollfds') : pollfds'[k].fd = pollfds[shift[k]].fd
    BY <1>7, <1>8
  <2>2. \A k, m \in 2 .. Len(pollfds') : shift[k] = shift[m] => k = m
    BY <1>7, <1>8, <1>10
  <2>3. Len(pollfds') >= 1 /\ pollfds'[1].fd = Listener
    BY <1>8 DEF IInv, Table
  <2>4. \A k \in 2 .. Len(pollfds') : pollfds'[k].fd \in Fd
    BY <1>10, <2>1 DEF IInv, Table
  <2>5. ASSUME NEW k \in 2 .. Len(pollfds'), NEW m \in 2 .. Len(pollfds'),
               pollfds'[k].fd = pollfds'[m].fd
        PROVE  k = m
    <3>1. pollfds[shift[k]].fd = pollfds[shift[m]].fd
      BY <2>1, <2>5
    <3>2. shift[k] = shift[m]
      BY <1>10, <3>1 DEF IInv, Table
    <3>3. QED
      BY <2>2, <3>2
  <2>6. QED
    BY <2>3, <2>4, <2>5 DEF Table
<1>12. Snapshot'
  <2>1. ASSUME serverRunningStatus,
               NEW k \in 2 .. Len(pollfds'), k >= n + 1, pollfds'[k].revents
        PROVE  pending'[pollfds'[k].fd] > 0 \/ pollfds'[k].fd \in hungUp'
    <3>1. shift[k] \in 2 .. Len(pollfds) /\ shift[k] > n /\ pollfds'[k] = pollfds[shift[k]]
      BY <1>2, <1>7, <1>8, <1>10, <2>1
    <3>2. pollfds[shift[k]].fd \in Fd \ {fd} /\ Readable(pollfds[shift[k]].fd)
      <4>1. shift[k] # n /\ shift[k] >= n
        BY <1>2, <3>1
      <4>2. QED
        BY <1>1, <1>3, <2>1, <3>1, <4>1 DEF IInv, Table, Snapshot
    <3>3. \A g \in Fd \ {fd} : Readable(g) => pending'[g] > 0 \/ g \in hungUp'
      BY <1>4 DEF Readable
    <3>4. QED
      BY <3>1, <3>2, <3>3
  <2>2. QED
    BY <1>1, <1>2, <1>8, <2>1 DEF Snapshot, Readable
<1>13. QED
  BY <1>9, <1>11, <1>12 DEF IInv

-----------------------------------------------------------------------------
(* The steps of the environment.                                           *)

\* A signal, which ends a poll() that waits, and a poll() that fails otherwise.
LEMMA InterruptKeeps ==
    ASSUME IInv, Interrupt \/ PollError
    PROVE  IInv'
<1>1. UNCHANGED clients /\ running' \in BOOLEAN /\ serverRunningStatus' \in BOOLEAN
  BY DEF IInv, TypeOK, Interrupt, PollError, PollFails
<1>2. CASE UNCHANGED << serverRunningStatus, pc, pollfds, pfds_iterator >>
  BY <1>1, <1>2 DEF IInv, TypeOK, Table, Snapshot, Readable, clients
<1>3. CASE PollFails /\ pollfds' = pollfds
  BY <1>1, <1>3 DEF IInv, TypeOK, Table, Snapshot, PollFails, clients
<1>4. CASE /\ PollFails
           /\ pollfds' = [ i \in DOMAIN pollfds |-> [ pollfds[i] EXCEPT !.revents = FALSE ] ]
  <2> DEFINE r == [ i \in DOMAIN pollfds |-> FALSE ]
  <2>1. /\ pollfds' \in Seq([ fd : Fd \cup {Listener}, revents : BOOLEAN ])
        /\ Len(pollfds') = Len(pollfds)
        /\ \A i \in 1 .. Len(pollfds) : pollfds'[i].fd = pollfds[i].fd
    <3>1. r \in [ DOMAIN pollfds -> BOOLEAN ]
      OBVIOUS
    <3>2. pollfds' = Written(r)
      BY <1>4 DEF Written
    <3> HIDE DEF r
    <3>3. QED
      BY <3>1, <3>2, ReventsWritten, Zenon DEF IInv
  <2>2. TypeOK'
    BY <1>1, <1>4, <2>1 DEF IInv, TypeOK, PollFails, clients
  <2>3. Table'
    <3>1. Len(pollfds) \in Nat
      BY DEF IInv, TypeOK
    <3>2. QED
      BY <2>1, <3>1 DEF IInv, Table
  <2>4. Snapshot'
    BY <1>4 DEF Snapshot, PollFails
  <2>5. QED
    BY <2>2, <2>3, <2>4 DEF IInv
<1>5. QED
  BY <1>2, <1>3, <1>4 DEF Interrupt, PollError

\* Clients only add to what can be read.
LEMMA ClientsKeep ==
    ASSUME IInv, Connect \/ \E fd \in Fd : Send(fd) \/ HangUp(fd)
    PROVE  IInv'
<1>1. UNCHANGED Process_
  BY DEF Connect, Send, HangUp
<1> DEFINE Grows ==
      /\ backlog' \in 0 .. MaxClients /\ backlog' >= backlog
      /\ connects' \in 0 .. MaxConnects
      /\ pending' \in [ Fd -> 0 .. MaxPending ] /\ hungUp' \subseteq Fd
      /\ \A g \in Fd : Readable(g) => Readable(g)'
<1>2. Grows
  <2>1. CASE Connect
    <3>1. Cardinality(Open) \in Nat
      BY OpenIsFinite DEF IInv
    <3>2. QED
      BY <2>1, <3>1, LoopAssumption DEF IInv, TypeOK, Connect, Readable
  <2>2. ASSUME NEW fd \in Fd, Send(fd)
        PROVE  Grows
    BY <2>2, LoopAssumption DEF IInv, TypeOK, Send, Readable
  <2>3. ASSUME NEW fd \in Fd, HangUp(fd)
        PROVE  Grows
    BY <2>3, LoopAssumption DEF IInv, TypeOK, HangUp, Readable
  <2>4. QED
    BY <2>1, <2>2, <2>3
<1>3. TypeOK' /\ Table'
  BY <1>1, <1>2 DEF IInv, TypeOK, Table, Process_
<1>4. Snapshot'
  BY <1>1, <1>2 DEF IInv, TypeOK, Table, Snapshot, Process_
<1>5. QED
  BY <1>3, <1>4 DEF IInv

-----------------------------------------------------------------------------
\* The strengthened invariant.
LEMMA Invariance == Spec => []IInv
<1>1. Init => IInv
  <2> SUFFICES ASSUME Init PROVE IInv
    OBVIOUS
  <2>1. pollfds = << [ fd |-> Listener, revents |-> FALSE ] >>
    BY DEF Init
  <2>2. TypeOK
    <3>1. [ fd |-> Listener, revents |-> FALSE ] \in [ fd : Fd \cup {Listener}, revents : BOOLEAN ]
      OBVIOUS
    <3>2. pollfds \in Seq([ fd : Fd \cup {Listener}, revents : BOOLEAN ])
      BY <2>1, <3>1
    <3>3. serverRunningStatus \in BOOLEAN
      BY DEF Init
    <3>4. pending \in [ Fd -> 0 .. MaxPending ]
      BY LoopAssumption DEF Init
    <3>5. backlog \in 0 .. MaxClients /\ connects \in 0 .. MaxConnects
      BY LoopAssumption DEF Init
    <3>6. QED
      BY <3>2, <3>3, <3>4, <3>5 DEF Init, TypeOK
  <2>3. Table /\ Snapshot
    BY <2>1 DEF Init, Table, Snapshot
  <2>4. QED
    BY <2>2, <2>3 DEF IInv
<1>2. IInv /\ [Next]_vars => IInv'
  <2> SUFFICES ASSUME IInv, [Next]_vars PROVE IInv'
    OBVIOUS
  <2>1. CASE UNCHANGED vars
    BY <2>1 DEF vars, IInv, TypeOK, Table, Snapshot, Readable
  <2>2. CASE Process
    BY <2>2, ControlKeeps, PollTakes, NoEventKeeps, AcceptKeeps, ServeKeeps DEF Process
  <2>3. CASE Environment
    BY <2>3, InterruptKeeps, ClientsKeep DEF Environment
  <2>4. QED
    BY <2>1, <2>2, <2>3 DEF Next
<1>3. QED
  BY <1>1, <1>2, PTL DEF Spec

\* The event loop is well typed (Server.cpp, run; main.cpp).
THEOREM LoopTypeCorrect == Spec => []TypeOK
<1>1. IInv => TypeOK
  BY DEF IInv
<1>2. QED
  BY <1>1, Invariance, PTL

\* Until poll() has failed, recv() never blocks: onUser is called only for clients
\* with something to read, whatever is erased from _pollfds while the loop runs over
\* it (Server.cpp, run).
THEOREM RecvNeverBlocks == Spec => []NeverBlocksInRecv
<1>1. IInv => NeverBlocksInRecv
  <2> SUFFICES ASSUME IInv, serverRunningStatus, NEW fd \in Fd, Serving(fd)
               PROVE  Readable(fd)
    BY DEF NeverBlocksInRecv
  <2>1. /\ pc = "scan" /\ pfds_iterator \in 1 .. Len(pollfds) /\ Len(pollfds) \in Nat
        /\ pollfds[pfds_iterator].fd = fd /\ pollfds[pfds_iterator].revents
    BY DEF Serving, Scanning, Entry, IInv, TypeOK, Snapshot
  <2>2. pfds_iterator \in 2 .. Len(pollfds)
    BY <2>1, ListenerIsNone DEF IInv, Table
  <2>3. QED
    BY <2>1, <2>2 DEF IInv, Snapshot
<1>2. QED
  BY <1>1, Invariance, PTL
=============================================================================
