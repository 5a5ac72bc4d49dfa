-------------------------------- MODULE Tunnel --------------------------------
(***************************************************************************)
(* A database behind a jump host: database.Open, the port forward of       *)
(* tunnel.Dial that the driver's connections go through, and               *)
(* sqlDB.Close.                                                            *)
(*                                                                         *)
(* Every connection c of the driver's pool has four ends:                  *)
(*   app    the driver's socket          local  the socket Accept returned *)
(*   remote the SSH channel of c         (and, external, the database)     *)
(* and two goroutines: up copies local to remote, down copies remote to    *)
(* local.  req, wire and buf say whether data waits on its way: in local,  *)
(* in the SSH channel, and in the driver's socket, which holds one chunk.  *)
(***************************************************************************)
EXTENDS Naturals, FiniteSets

CONSTANT Conns        \* the connections the driver may make

VARIABLES phase,      \* where Open and Close are
          client,     \* the SSH connection
          listener,   \* the local listening socket
          acceptor,   \* the goroutine that accepts
          conn        \* the connections

vars == <<phase, client, listener, acceptor, conn>>

Phases == {"auth", "sshDial", "listen", "ping", "undo", "ready", "closing",
           "failed", "closed"}

Sockets == {"none", "open", "closed"}
Goroutines == {"none", "dialing", "run", "done"}

TypeOK ==
    /\ phase \in Phases
    /\ client \in Sockets
    /\ listener \in Sockets
    /\ acceptor \in {"none", "run", "done"}
    /\ conn \in [Conns -> [app : Sockets, local : Sockets \cup {"queued"},
                           remote : Sockets \cup {"ended"},
                           up : Goroutines, down : Goroutines,
                           req : BOOLEAN, wire : BOOLEAN, buf : BOOLEAN]]

Fresh == [app |-> "none", local |-> "none", remote |-> "none",
          up |-> "none", down |-> "none",
          req |-> FALSE, wire |-> FALSE, buf |-> FALSE]

Init == /\ phase = "auth"
        /\ client = "none"
        /\ listener = "none"
        /\ acceptor = "none"
        /\ conn = [c \in Conns |-> Fresh]

---------------------------------------------------------------------------
(* What closing an end does to a connection.                               *)

\* Mutant: the accepted sockets see the end of the channels themselves.
SocketsEnd(cs) ==
    [c \in Conns |-> [cs[c] EXCEPT
        !.local = IF @ = "open" THEN "ended" ELSE @]]

\* The SSH connection is gone: reads of its channels give EOF.
ChannelsEnd(cs) ==
    [c \in Conns |-> [cs[c] EXCEPT
        !.remote = IF @ = "open" THEN "ended" ELSE @]]

\* The listener is gone: the kernel resets what Accept has not returned.
BacklogReset(cs) ==
    [c \in Conns |-> [cs[c] EXCEPT
        !.local = IF @ = "queued" THEN "closed" ELSE @]]

DriverCloses(cs) ==
    [c \in Conns |-> [cs[c] EXCEPT
        !.app = IF @ = "open" THEN "closed" ELSE @, !.buf = FALSE]]

---------------------------------------------------------------------------
(* Open.                                                                   *)

\* authMethods: a key that cannot be read or parsed.
AuthMethods ==
    /\ phase = "auth"
    /\ phase' \in {"sshDial", "failed"}
    /\ UNCHANGED <<client, listener, acceptor, conn>>

SSHDial ==
    /\ phase = "sshDial"
    /\ \/ client' = "open" /\ phase' = "listen"
       \/ client' = "none" /\ phase' = "failed"
    /\ UNCHANGED <<listener, acceptor, conn>>

\* Mutant: Dial forgets client.Close() when Listen fails.
ListenLeaks ==
    /\ phase = "listen"
    /\ UNCHANGED <<client, conn>>
    /\ \/ listener' = "open" /\ acceptor' = "run" /\ phase' = "ping"
       \/ phase' = "failed" /\ UNCHANGED <<listener, acceptor>>

\* A Listen that fails closes the client.  The goroutine that accepts starts
\* with the listener.
Listen ==
    /\ phase = "listen"
    /\ UNCHANGED conn
    /\ \/ /\ listener' = "open" /\ acceptor' = "run" /\ phase' = "ping"
          /\ UNCHANGED client
       \/ /\ client' = "closed" /\ phase' = "failed"
          /\ UNCHANGED <<listener, acceptor>>

\* The first connection of the pool answers.
PingSucceeds ==
    /\ phase = "ping"
    /\ \E c \in Conns : conn[c].app = "open" /\ conn[c].remote = "open"
    /\ phase' = "ready"
    /\ UNCHANGED <<client, listener, acceptor, conn>>

\* sql.Open or Ping fails: db.Close() first, ...
PingFails ==
    /\ phase = "ping"
    /\ phase' = "undo"
    /\ conn' = DriverCloses(conn)
    /\ UNCHANGED <<client, listener, acceptor>>

\* ... then the tunnel's close function: local.Close(), client.Close().
CloseTunnel(from, to) ==
    /\ phase = from
    /\ phase' = to
    /\ listener' = "closed"
    /\ client' = "closed"
    /\ conn' = ChannelsEnd(BacklogReset(conn))
    /\ UNCHANGED acceptor

\* Close goes the other way round: the tunnel first, then the pool.
ClosePool ==
    /\ phase = "closing"
    /\ phase' = "closed"
    /\ conn' = DriverCloses(conn)
    /\ UNCHANGED <<client, listener, acceptor>>

\* The jump host, or the network to it, goes away.
SSHDrops ==
    /\ client = "open"
    /\ client' = "closed"
    /\ conn' = ChannelsEnd(conn)
    /\ UNCHANGED <<phase, listener, acceptor>>

---------------------------------------------------------------------------
(* The driver's end of a connection (external).                            *)

Step(c, new) ==
    /\ conn' = [conn EXCEPT ![c] = new]
    /\ UNCHANGED <<phase, client, listener, acceptor>>

Connect(c) ==
    LET k == conn[c]
    IN  /\ phase \in {"ping", "ready"}
        /\ k.app = "none"
        /\ listener = "open"
        /\ Step(c, [k EXCEPT !.app = "open", !.local = "queued"])

AppSends(c) ==
    LET k == conn[c]
    IN  /\ k.app = "open" /\ k.local # "closed" /\ ~k.req
        /\ Step(c, [k EXCEPT !.req = TRUE])

AppReads(c) == conn[c].buf /\ Step(c, [conn[c] EXCEPT !.buf = FALSE])

\* The driver reads EOF and drops the connection.
AppSeesEnd(c) ==
    LET k == conn[c]
    IN  /\ k.app = "open" /\ k.local = "closed" /\ ~k.buf
        /\ Step(c, [k EXCEPT !.app = "closed"])

\* The pool drops a connection whenever it likes.
AppCloses(c) ==
    /\ conn[c].app = "open"
    /\ Step(c, [conn[c] EXCEPT !.app = "closed", !.buf = FALSE])

(* The database's end (external). *)
ServerSends(c) ==
    LET k == conn[c]
    IN  /\ k.remote = "open" /\ ~k.wire
        /\ Step(c, [k EXCEPT !.wire = TRUE])

ServerEnds(c) ==
    /\ conn[c].remote = "open"
    /\ Step(c, [conn[c] EXCEPT !.remote = "ended"])

---------------------------------------------------------------------------
(* The tunnel's goroutines.                                                *)

Accept(c) ==
    /\ acceptor = "run" /\ listener = "open"
    /\ conn[c].local = "queued"
    /\ Step(c, [conn[c] EXCEPT !.local = "open",
                               !.up = "dialing", !.down = "dialing"])

\* Any error of Accept ends the goroutine.  The process, say, has no file
\* descriptor left: connections stay in the backlog, and nobody is told.
AcceptFails ==
    /\ acceptor = "run" /\ listener = "open"
    /\ acceptor' = "done"
    /\ UNCHANGED <<phase, client, listener, conn>>

\* The listener is closed.
AcceptorReturns ==
    /\ acceptor = "run" /\ listener = "closed"
    /\ acceptor' = "done"
    /\ UNCHANGED <<phase, client, listener, conn>>

\* client.Dial opens a channel to the database; the two copiers start.
RemoteDial(c) ==
    /\ conn[c].up = "dialing"
    /\ client = "open"
    /\ Step(c, [conn[c] EXCEPT !.remote = "open", !.up = "run", !.down = "run"])

\* Mutant: a Dial to the database that fails leaves the accepted connection open.
RemoteDialLeaks(c) ==
    /\ conn[c].up = "dialing"
    /\ Step(c, [conn[c] EXCEPT !.up = "done", !.down = "done"])

\* Mutant: a Dial that fails without a client is tried again.
RemoteDialRefused(c) ==
    /\ conn[c].up = "dialing" /\ client = "open"
    /\ Step(c, [conn[c] EXCEPT !.local = "closed", !.up = "done", !.down = "done"])

\* It fails, always so once the client is closed: the connection is dropped.
RemoteDialFails(c) ==
    /\ conn[c].up = "dialing"
    /\ Step(c, [conn[c] EXCEPT !.local = "closed", !.up = "done", !.down = "done"])

\* io.Copy(localConn, remoteConn) moves a chunk, when the driver's socket has
\* room.
DownCopies(c) ==
    LET k == conn[c]
    IN  /\ k.down = "run" /\ k.wire /\ k.remote # "closed"
        /\ k.app = "open" /\ k.local = "open" /\ ~k.buf
        /\ Step(c, [k EXCEPT !.wire = FALSE, !.buf = TRUE])

\* It returns when a write fails or a read gives EOF, and closes localConn.
DownReturns(c) ==
    LET k == conn[c]
    IN  /\ k.down = "run"
        /\ \/ k.wire /\ k.app = "closed"
           \/ ~k.wire /\ k.remote = "ended"
           \/ k.remote = "closed"
        /\ Step(c, [k EXCEPT !.down = "done", !.local = "closed", !.wire = FALSE])

UpCopies(c) ==
    LET k == conn[c]
    IN  /\ k.up = "run" /\ k.local = "open" /\ k.req /\ k.remote = "open"
        /\ Step(c, [k EXCEPT !.req = FALSE])

\* io.Copy(remoteConn, localConn) returns likewise, and closes remoteConn.
UpReturns(c) ==
    LET k == conn[c]
    IN  /\ k.up = "run"
        /\ \/ k.req /\ k.remote # "open"
           \/ ~k.req /\ k.app = "closed"
           \/ k.local = "closed"
        /\ Step(c, [k EXCEPT !.up = "done", !.remote = "closed", !.req = FALSE])

---------------------------------------------------------------------------
Undo == CloseTunnel("undo", "failed")
Close == CloseTunnel("ready", "closing")

Opening == AuthMethods \/ SSHDial \/ Listen \/ PingFails \/ Undo

Relay(c) == \/ Accept(c) \/ RemoteDial(c) \/ RemoteDialFails(c)
            \/ DownCopies(c) \/ DownReturns(c)
            \/ UpCopies(c) \/ UpReturns(c)

Driver(c) == Connect(c) \/ AppSends(c) \/ AppReads(c) \/ AppSeesEnd(c)
             \/ AppCloses(c)

Server(c) == ServerSends(c) \/ ServerEnds(c)

Next == \/ Opening \/ PingSucceeds \/ Close \/ ClosePool
        \/ SSHDrops \/ AcceptFails \/ AcceptorReturns
        \/ \E c \in Conns : Relay(c) \/ Driver(c) \/ Server(c)

\* The goroutines run; a Dial through an SSH connection, or a write to it, may
\* hang until it is closed.  Nothing makes Accept return a connection, the driver
\* read what is there or close its end, the database send, the caller call Close,
\* or a Ping (it has no timeout) return.
Fairness ==
    /\ WF_vars(AcceptorReturns)
    /\ \A c \in Conns :
        /\ WF_vars(client = "closed" /\ RemoteDialFails(c))
        /\ WF_vars(DownCopies(c) \/ DownReturns(c))
        /\ WF_vars(client = "closed" /\ UpReturns(c))

Spec == Init /\ [][Next]_vars /\ Fairness

---------------------------------------------------------------------------
\* Every error path of Open and Dial, and Close, gives back what was opened: no
\* SSH connection, no listening port and no driver connection is left.
TunnelGivenBack ==
    phase \in {"failed", "closed"} =>
        /\ client # "open"
        /\ listener # "open"
        /\ \A c \in Conns : conn[c].app # "open"

\* When the two copiers of a connection have returned, both of its ends are
\* closed: each closes only the end it writes to, so neither may be missed.
Returned(c) == conn[c].up = "done" /\ conn[c].down = "done"

EndedIsClosed ==
    \A c \in Conns : Returned(c) =>
        /\ conn[c].local = "closed"
        /\ conn[c].remote \in {"none", "closed"}

Quiet(c) == /\ conn[c].up \in {"none", "done"}
            /\ conn[c].down \in {"none", "done"}
            /\ conn[c].local \in {"none", "closed"}
            /\ conn[c].app \in {"none", "closed"}

\* Data waits that a driver's socket has no room for.
Unread(c) == conn[c].wire /\ conn[c].buf

\* Once the database is closed or its Open has failed, no goroutine stays behind
\* and no accepted socket stays open, although the close function touches no
\* accepted connection and the acceptor may have ended long before.  Where the
\* SSH connection is gone by itself, an accepted connection ends too, unless
\* what it still has for the driver is never read; one in the backlog may wait
\* for Close, since nobody may be there to accept it.
CloseReleases ==
    /\ phase \in {"closed", "failed"} ~> \A c \in Conns : Quiet(c)
    /\ listener = "closed" ~> acceptor = "done"
    /\ \A c \in Conns :
          client = "closed" /\ conn[c].up # "none" /\ ~Unread(c) ~> Returned(c)

===============================================================================
