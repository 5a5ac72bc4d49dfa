------------------------------- MODULE MCTunnel -------------------------------
(* An instance of Tunnel for TLC. *)
EXTENDS Tunnel, TLC

CONSTANTS c1, c2

\* Two connections: the goroutines of one know nothing of the other's, and the
\* listener, the acceptor and the client are what they share.
TwoConns == {c1, c2}
===============================================================================
