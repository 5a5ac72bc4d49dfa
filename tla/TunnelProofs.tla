----------------------------- MODULE TunnelProofs -----------------------------
(***************************************************************************)
(* For any set of connections: the tunnel is given back on every path, and *)
(* a connection whose two copiers have returned is closed at both ends.    *)
(***************************************************************************)
EXTENDS Tunnel, TLAPS

\* What Open has made so far, and what Close has still to close.
PhaseInv ==
    /\ phase \in {"auth", "sshDial", "listen"} =>
          listener = "none" /\ \A c \in Conns : conn[c].app = "none"
    /\ phase \in {"auth", "sshDial"} => client = "none"
    /\ phase = "undo" => \A c \in Conns : conn[c].app # "open"
    /\ phase = "closing" => client # "open" /\ listener # "open"

\* How far a connection is: not made, in the backlog, dialling, copying.  A
\* copier that has returned has closed the end it wrote to.
EndsInv(k) ==
    /\ k.local \in {"none", "queued"} => k.up = "none" /\ k.down = "none"
    /\ k.app = "none" => k.local = "none"
    /\ k.up \in {"none", "dialing"} => k.remote = "none"
    /\ k.down = "done" => k.local = "closed"
    /\ k.up = "done" => k.remote \in {"none", "closed"}

IInv == /\ TypeOK
        /\ PhaseInv
        /\ TunnelGivenBack
        /\ \A c \in Conns : EndsInv(conn[c])

---------------------------------------------------------------------------
(* Connections.                                                            *)

Connection == [app : Sockets, local : Sockets \cup {"queued"},
               remote : Sockets \cup {"ended"},
               up : Goroutines, down : Goroutines,
               req : BOOLEAN, wire : BOOLEAN, buf : BOOLEAN]

\* A connection of the right type that is as far as EndsInv says.
Sound(k) == k \in Connection /\ EndsInv(k)

\* Closing an end from outside leaves a connection sound, and opens nothing.
LEMMA ChannelsEndSound ==
  ASSUME NEW cs, cs \in [Conns -> Connection], \A c \in Conns : EndsInv(cs[c])
  PROVE  /\ ChannelsEnd(cs) \in [Conns -> Connection]
         /\ \A c \in Conns : EndsInv(ChannelsEnd(cs)[c]) /\ ChannelsEnd(cs)[c].app = cs[c].app
<1>1. ASSUME NEW c \in Conns
      PROVE  LET k == [cs[c] EXCEPT !.remote = IF @ = "open" THEN "ended" ELSE @]
             IN  k \in Connection /\ EndsInv(k) /\ k.app = cs[c].app
  BY DEF Connection, EndsInv, Sockets, Goroutines
<1> QED BY <1>1 DEF ChannelsEnd

LEMMA BacklogResetSound ==
  ASSUME NEW cs, cs \in [Conns -> Connection], \A c \in Conns : EndsInv(cs[c])
  PROVE  /\ BacklogReset(cs) \in [Conns -> Connection]
         /\ \A c \in Conns : EndsInv(BacklogReset(cs)[c]) /\ BacklogReset(cs)[c].app = cs[c].app
<1>1. ASSUME NEW c \in Conns
      PROVE  LET k == [cs[c] EXCEPT !.local = IF @ = "queued" THEN "closed" ELSE @]
             IN  k \in Connection /\ EndsInv(k) /\ k.app = cs[c].app
  BY DEF Connection, EndsInv, Sockets, Goroutines
<1> QED BY <1>1 DEF BacklogReset

LEMMA DriverClosesSound ==
  ASSUME NEW cs, cs \in [Conns -> Connection], \A c \in Conns : EndsInv(cs[c])
  PROVE  /\ DriverCloses(cs) \in [Conns -> Connection]
         /\ \A c \in Conns : EndsInv(DriverCloses(cs)[c]) /\ DriverCloses(cs)[c].app # "open"
<1> DEFINE k(c) == [cs[c] EXCEPT !.app = IF @ = "open" THEN "closed" ELSE @, !.buf = FALSE]
<1>1. ASSUME NEW c \in Conns
      PROVE  k(c) \in Connection /\ EndsInv(k(c)) /\ k(c).app # "open"
  <2>1. k(c) \in Connection
    <3>1. cs[c] \in Connection
      OBVIOUS
    <3>2. (IF cs[c].app = "open" THEN "closed" ELSE cs[c].app) \in Sockets
      BY <3>1 DEF Connection, Sockets
    <3> QED BY <3>1, <3>2 DEF Connection
  <2>2. k(c).app # "open" /\ (k(c).app = "none" => cs[c].app = "none")
    BY DEF Connection
  <2>3. /\ k(c).local = cs[c].local /\ k(c).remote = cs[c].remote
        /\ k(c).up = cs[c].up /\ k(c).down = cs[c].down
    BY DEF Connection
  <2> HIDE DEF k
  <2> QED BY <2>1, <2>2, <2>3 DEF EndsInv
<1>2. DriverCloses(cs) = [c \in Conns |-> k(c)]
  BY DEF DriverCloses
<1> HIDE DEF k
<1>3. DriverCloses(cs) \in [Conns -> Connection]
  BY <1>1, <1>2
<1>4. \A c \in Conns : DriverCloses(cs)[c] = k(c)
  BY <1>2
<1> QED BY <1>1, <1>3, <1>4

---------------------------------------------------------------------------
(* The steps of one connection.                                            *)

\* A step to a sound connection keeps the invariant, where no driver's socket
\* is opened but by Connect.
LEMMA StepSound ==
  ASSUME IInv, NEW c \in Conns, NEW new, Sound(new), Step(c, new),
         conn[c].app = "none" => new.app = "none" \/ phase \in {"ping", "ready"},
         new.app = "open" => conn[c].app = "open" \/ phase \in {"ping", "ready"}
  PROVE  IInv'
<1> USE DEF IInv, Step, Sound
<1>1. TypeOK'
  BY DEF TypeOK, Connection
<1>2. \A d \in Conns : EndsInv(conn'[d])
  BY DEF TypeOK
<1>3. PhaseInv' /\ TunnelGivenBack'
  BY DEF TypeOK, PhaseInv, TunnelGivenBack
<1> QED BY <1>1, <1>2, <1>3

LEMMA RelaySound ==
  ASSUME IInv, NEW c \in Conns, Relay(c)
  PROVE  IInv'
<1> DEFINE k == conn[c]
<1>0. k \in Connection /\ EndsInv(k)
  BY DEF IInv, TypeOK, Connection
<1>1. CASE Accept(c)
  <2> DEFINE new == [k EXCEPT !.local = "open", !.up = "dialing", !.down = "dialing"]
  <2>1. Sound(new) /\ new.app = k.app
    BY <1>0, <1>1 DEF Accept, Sound, Connection, EndsInv, Sockets, Goroutines
  <2> QED BY <1>1, <2>1, StepSound DEF Accept
<1>2. CASE RemoteDial(c)
  <2> DEFINE new == [k EXCEPT !.remote = "open", !.up = "run", !.down = "run"]
  <2>1. Sound(new) /\ new.app = k.app
    BY <1>0, <1>2 DEF RemoteDial, Sound, Connection, EndsInv, Sockets, Goroutines
  <2> QED BY <1>2, <2>1, StepSound DEF RemoteDial
<1>3. CASE RemoteDialFails(c)
  <2> DEFINE new == [k EXCEPT !.local = "closed", !.up = "done", !.down = "done"]
  <2>1. Sound(new) /\ new.app = k.app
    BY <1>0, <1>3 DEF RemoteDialFails, Sound, Connection, EndsInv, Sockets, Goroutines
  <2> QED BY <1>3, <2>1, StepSound DEF RemoteDialFails
<1>4. CASE DownCopies(c)
  <2> DEFINE new == [k EXCEPT !.wire = FALSE, !.buf = TRUE]
  <2>1. Sound(new) /\ new.app = k.app
    BY <1>0, <1>4 DEF DownCopies, Sound, Connection, EndsInv, Sockets, Goroutines
  <2> QED BY <1>4, <2>1, StepSound DEF DownCopies
<1>5. CASE DownReturns(c)
  <2> DEFINE new == [k EXCEPT !.down = "done", !.local = "closed", !.wire = FALSE]
  <2>1. Sound(new) /\ new.app = k.app
    BY <1>0, <1>5 DEF DownReturns, Sound, Connection, EndsInv, Sockets, Goroutines
  <2> QED BY <1>5, <2>1, StepSound DEF DownReturns
<1>6. CASE UpCopies(c)
  <2> DEFINE new == [k EXCEPT !.req = FALSE]
  <2>1. Sound(new) /\ new.app = k.app
    BY <1>0, <1>6 DEF UpCopies, Sound, Connection, EndsInv, Sockets, Goroutines
  <2> QED BY <1>6, <2>1, StepSound DEF UpCopies
<1>7. CASE UpReturns(c)
  <2> DEFINE new == [k EXCEPT !.up = "done", !.remote = "closed", !.req = FALSE]
  <2>1. Sound(new) /\ new.app = k.app
    BY <1>0, <1>7 DEF UpReturns, Sound, Connection, EndsInv, Sockets, Goroutines
  <2> QED BY <1>7, <2>1, StepSound DEF UpReturns
<1> QED BY <1>1, <1>2, <1>3, <1>4, <1>5, <1>6, <1>7 DEF Relay

LEMMA EndpointSound ==
  ASSUME IInv, NEW c \in Conns, Driver(c) \/ Server(c)
  PROVE  IInv'
<1> DEFINE k == conn[c]
<1>0. k \in Connection /\ EndsInv(k)
  BY DEF IInv, TypeOK, Connection
<1>1. CASE Connect(c)
  <2> DEFINE new == [k EXCEPT !.app = "open", !.local = "queued"]
  <2>1. Sound(new)
    BY <1>0, <1>1 DEF Connect, Sound, Connection, EndsInv, Sockets, Goroutines
  <2> QED BY <1>1, <2>1, StepSound DEF Connect
<1>2. CASE AppSends(c)
  <2> DEFINE new == [k EXCEPT !.req = TRUE]
  <2>1. Sound(new) /\ new.app = k.app
    BY <1>0 DEF Sound, Connection, EndsInv, Sockets, Goroutines
  <2> QED BY <1>2, <2>1, StepSound DEF AppSends
<1>3. CASE AppReads(c)
  <2> DEFINE new == [k EXCEPT !.buf = FALSE]
  <2>1. Sound(new) /\ new.app = k.app
    BY <1>0 DEF Sound, Connection, EndsInv, Sockets, Goroutines
  <2> QED BY <1>3, <2>1, StepSound DEF AppReads
<1>4. CASE AppSeesEnd(c)
  <2> DEFINE new == [k EXCEPT !.app = "closed"]
  <2>1. Sound(new) /\ new.app = "closed" /\ k.app # "none"
    BY <1>0, <1>4 DEF AppSeesEnd, Sound, Connection, EndsInv, Sockets, Goroutines
  <2> QED BY <1>4, <2>1, StepSound DEF AppSeesEnd
<1>5. CASE AppCloses(c)
  <2> DEFINE new == [k EXCEPT !.app = "closed", !.buf = FALSE]
  <2>1. Sound(new) /\ new.app = "closed" /\ k.app # "none"
    BY <1>0, <1>5 DEF AppCloses, Sound, Connection, EndsInv, Sockets, Goroutines
  <2> QED BY <1>5, <2>1, StepSound DEF AppCloses
<1>6. CASE ServerSends(c)
  <2> DEFINE new == [k EXCEPT !.wire = TRUE]
  <2>1. Sound(new) /\ new.app = k.app
    BY <1>0 DEF Sound, Connection, EndsInv, Sockets, Goroutines
  <2> QED BY <1>6, <2>1, StepSound DEF ServerSends
<1>7. CASE ServerEnds(c)
  <2> DEFINE new == [k EXCEPT !.remote = "ended"]
  <2>1. Sound(new) /\ new.app = k.app
    BY <1>0, <1>7 DEF ServerEnds, Sound, Connection, EndsInv, Sockets, Goroutines
  <2> QED BY <1>7, <2>1, StepSound DEF ServerEnds
<1> QED BY <1>1, <1>2, <1>3, <1>4, <1>5, <1>6, <1>7 DEF Driver, Server

---------------------------------------------------------------------------
(* The steps of Open and Close.                                            *)

LEMMA OpeningSound ==
  ASSUME IInv, Opening \/ PingSucceeds
  PROVE  IInv'
<1> USE DEF IInv
<1>1. CASE AuthMethods
  BY <1>1 DEF AuthMethods, TypeOK, PhaseInv, TunnelGivenBack, Phases, Sockets, Goroutines
<1>2. CASE SSHDial
  BY <1>2 DEF SSHDial, TypeOK, PhaseInv, TunnelGivenBack, Phases, Sockets, Goroutines
<1>3. CASE Listen
  BY <1>3 DEF Listen, TypeOK, PhaseInv, TunnelGivenBack, Phases, Sockets, Goroutines
<1>4. CASE PingSucceeds
  BY <1>4 DEF PingSucceeds, TypeOK, PhaseInv, TunnelGivenBack, Phases, Sockets, Goroutines
<1>5. CASE PingFails
  BY <1>5, DriverClosesSound
     DEF PingFails, TypeOK, PhaseInv, TunnelGivenBack, Phases, Connection
<1>6. CASE Undo
  <2>1. conn' \in [Conns -> Connection] /\ \A c \in Conns : EndsInv(conn'[c]) /\ conn'[c].app = conn[c].app
    BY <1>6, ChannelsEndSound, BacklogResetSound DEF Undo, CloseTunnel, TypeOK, Connection
  <2> QED BY <1>6, <2>1
          DEF Undo, CloseTunnel, TypeOK, PhaseInv, TunnelGivenBack, Phases, Sockets, Connection
<1> QED BY <1>1, <1>2, <1>3, <1>4, <1>5, <1>6 DEF Opening

LEMMA ClosingSound ==
  ASSUME IInv, Close \/ ClosePool \/ SSHDrops \/ AcceptFails \/ AcceptorReturns
  PROVE  IInv'
<1> USE DEF IInv
<1>1. CASE Close
  <2>1. conn' \in [Conns -> Connection] /\ \A c \in Conns : EndsInv(conn'[c])
    BY <1>1, ChannelsEndSound, BacklogResetSound DEF Close, CloseTunnel, TypeOK, Connection
  <2> QED BY <1>1, <2>1
          DEF Close, CloseTunnel, TypeOK, PhaseInv, TunnelGivenBack, Phases, Sockets, Connection
<1>2. CASE ClosePool
  BY <1>2, DriverClosesSound
     DEF ClosePool, TypeOK, PhaseInv, TunnelGivenBack, Phases, Connection
<1>3. CASE SSHDrops
  <2>1. conn' \in [Conns -> Connection] /\ \A c \in Conns : EndsInv(conn'[c]) /\ conn'[c].app = conn[c].app
    BY <1>3, ChannelsEndSound DEF SSHDrops, TypeOK, Connection
  <2> QED BY <1>3, <2>1
          DEF SSHDrops, TypeOK, PhaseInv, TunnelGivenBack, Phases, Sockets, Connection
<1>4. CASE AcceptorReturns
  BY <1>4 DEF AcceptorReturns, TypeOK, PhaseInv, TunnelGivenBack
<1>5. CASE AcceptFails
  BY <1>5 DEF AcceptFails, TypeOK, PhaseInv, TunnelGivenBack
<1> QED BY <1>1, <1>2, <1>3, <1>4, <1>5

---------------------------------------------------------------------------
LEMMA InitSound == Init => IInv
  BY DEF Init, IInv, TypeOK, PhaseInv, TunnelGivenBack, EndsInv, Fresh, Phases, Sockets,
         Goroutines

LEMMA NextSound == IInv /\ [Next]_vars => IInv'
<1> SUFFICES ASSUME IInv, [Next]_vars PROVE IInv'
  OBVIOUS
<1>1. CASE UNCHANGED vars
  BY <1>1 DEF vars, IInv, TypeOK, PhaseInv, TunnelGivenBack
<1>2. CASE Next
  BY <1>2, OpeningSound, ClosingSound, RelaySound, EndpointSound DEF Next
<1> QED BY <1>1, <1>2

LEMMA Soundness == Spec => []IInv
  BY InitSound, NextSound, PTL DEF Spec

\* The state of Open, of the tunnel and of every connection keeps its type.
THEOREM TypeCorrect == Spec => []TypeOK
<1>1. IInv => TypeOK
  BY DEF IInv
<1> QED BY <1>1, Soundness, PTL

\* However Open fails and whenever Close is called, the SSH connection, the
\* listening port and the driver's connections are given back.
THEOREM TunnelIsGivenBack == Spec => []TunnelGivenBack
<1>1. IInv => TunnelGivenBack
  BY DEF IInv
<1> QED BY <1>1, Soundness, PTL

\* Of a connection whose copiers have returned both ends are closed.
THEOREM EndedConnectionsAreClosed == Spec => []EndedIsClosed
<1>1. IInv => EndedIsClosed
  BY DEF IInv, EndedIsClosed, Returned, EndsInv
<1> QED BY <1>1, Soundness, PTL
===============================================================================
