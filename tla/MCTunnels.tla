----------------------------- MODULE MCTunnels -----------------------------
(***************************************************************************)
(* Tunnels for three clients that ask for one port: two of them for the    *)
(* same destination, so that they share a listener, the third for another. *)
(***************************************************************************)
EXTENDS Tunnels

CONSTANTS a, b, c

MCConnNum == [x \in Clients |-> IF x = a THEN 2 ELSE 1]
MCPort == [x \in Clients |-> "port"]
MCDst == [x \in Clients |-> IF x = c THEN "other" ELSE "dst"]
=============================================================================
