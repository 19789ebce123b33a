------------------------------ MODULE Sessions ------------------------------
(***************************************************************************)
(* What the server promises about connections and registration, without    *)
(* pointers, lists and memory: a session per descriptor, a password before *)
(* everything else, a nickname nobody else has, one client served at a     *)
(* time, and the end of the session when he has quit or hung up.           *)
(***************************************************************************)
EXTENDS Integers

CONSTANTS
    Fd,            \* descriptors for connections
    Nick,          \* the non-empty nicknames
    NoNick,        \* the empty nickname
    PasswordFree   \* the server's password is empty

VARIABLES
    session,       \* the open sessions, by descriptor
    serving,       \* the descriptor whose lines are executed, or NoFd
    up             \* the server runs

vars == << session, serving, up >>

NoFd == -1

NewSession == [ password |-> PasswordFree, nickname |-> NoNick,
                username |-> FALSE, state |-> "CONNECTED" ]

IsRegistered(s) == s.password /\ s.nickname # NoNick /\ s.username

\* Who has just become registered is welcomed.
Welcomed(s) ==
    IF IsRegistered(s) /\ s.state = "CONNECTED" THEN [ s EXCEPT !.state = "ONLINE" ] ELSE s

Init ==
    /\ session = [ fd \in {} |-> NewSession ]
    /\ serving = NoFd
    /\ up = TRUE

Without(fd) == [ f \in DOMAIN session \ {fd} |-> session[f] ]

\* A connection gets the lowest free descriptor.
Open ==
    /\ up /\ serving = NoFd
    /\ \E fd \in Fd \ DOMAIN session :
         /\ \A f \in Fd \ DOMAIN session : fd <= f
         /\ session' = [ f \in DOMAIN session \cup {fd} |->
                           IF f = fd THEN NewSession ELSE session[f] ]
    /\ UNCHANGED << serving, up >>

Begin(fd) ==
    /\ up /\ serving = NoFd
    /\ serving' = fd
    /\ UNCHANGED << session, up >>

Mine == session[serving]
Serving == up /\ serving # NoFd

Becomes(s) ==
    /\ session' = [ session EXCEPT ![serving] = s ]
    /\ UNCHANGED << serving, up >>

Authenticate ==
    /\ Serving /\ ~ Mine.password
    /\ Becomes(Welcomed([ Mine EXCEPT !.password = TRUE ]))

TakeNick(n) ==
    /\ Serving /\ Mine.password
    /\ \A fd \in DOMAIN session : session[fd].nickname # n
    /\ Becomes(Welcomed([ Mine EXCEPT !.nickname = n ]))

TakeUsername(nonEmpty) ==
    /\ Serving /\ Mine.password /\ ~ IsRegistered(Mine)
    /\ Becomes(Welcomed([ Mine EXCEPT !.username = nonEmpty ]))

Quit ==
    /\ Serving /\ IsRegistered(Mine)
    /\ Becomes([ Mine EXCEPT !.state = "DELETE" ])

\* All his lines have been executed.
End ==
    /\ Serving
    /\ serving' = NoFd
    /\ session' = IF Mine.state = "DELETE" THEN Without(serving) ELSE session
    /\ UNCHANGED up

HangUp(fd) ==
    /\ up /\ serving = NoFd
    /\ session' = Without(fd)
    /\ UNCHANGED << serving, up >>

\* The process ends, and all sessions with it; only a client's line or his leaving
\* can bring that about.
Crash ==
    /\ up /\ DOMAIN session # {}
    /\ session' = [ fd \in {} |-> NewSession ]
    /\ serving' = NoFd
    /\ up' = FALSE

Next ==
    \/ Open \/ End \/ Authenticate \/ Quit \/ Crash
    \/ \E fd \in DOMAIN session : Begin(fd) \/ HangUp(fd)
    \/ \E n \in Nick \cup {NoNick} : TakeNick(n)
    \/ \E nonEmpty \in BOOLEAN : TakeUsername(nonEmpty)

Spec == Init /\ [][Next]_vars
=============================================================================
