----------------------------- MODULE DirectRelay -----------------------------
(***************************************************************************)
(* A connection that is not proxied: relay_direct runs do_relay between    *)
(* the application's socket (local) and a socket connected to the target   *)
(* (remote), with one socket-to-socket transfer per direction and the IO   *)
(* timer.  The peers are the application and the target.                   *)
(***************************************************************************)
EXTENDS Naturals

CONSTANTS Chunks,     \* chunks either peer may send
          MayReset    \* whether a peer may reset its connection

ASSUME ChunksAssumption == Chunks \in Nat
ASSUME ResetAssumption == MayReset \in BOOLEAN

Sides == {"local", "remote"}
Other(s) == IF s = "local" THEN "remote" ELSE "local"

VARIABLES
    main,      \* do_relay: "connect", "first", "run", "done"
    xfer,      \* xfer[s]: the transfer that reads from s
    timer,     \* the IO timer: "armed", "fired", "off"
    sock,      \* our socket of this side is open
    peer,      \* the peer of this side: "open", "eof", "reset"
    sent,      \* chunks read from this side
    got        \* chunks written to this side

relayVars == <<main, xfer, timer, sock, peer, sent, got>>

RelayInit ==
    /\ main = "connect"
    /\ xfer = [s \in Sides |-> "off"]
    /\ timer = "armed"
    /\ sock = [s \in Sides |-> s = "local"]
    /\ peer = [s \in Sides |-> "open"]
    /\ sent = [s \in Sides |-> 0]
    /\ got = [s \in Sides |-> 0]

-----------------------------------------------------------------------------
\* get_connected_socket returns a socket: write the bytes the handshake read
\* (readed_data), if any, else start the transfers.
Connected ==
    /\ main = "connect"
    /\ sock' = [sock EXCEPT !["remote"] = TRUE]
    /\ \/ /\ Chunks > 0
          /\ main' = "first"
          /\ sent' = [sent EXCEPT !["local"] = 1]
          /\ UNCHANGED xfer
       \/ /\ main' = "run"
          /\ xfer' = [s \in Sides |-> "read"]
          /\ UNCHANGED sent
    /\ UNCHANGED <<timer, peer, got>>

\* It returns none: do_relay returns; the timer is cancelled and the socket
\* of the application destroyed.
ConnectFails ==
    /\ main = "connect"
    /\ main' = "done"
    /\ timer' = "off"
    /\ sock' = [s \in Sides |-> FALSE]
    /\ UNCHANGED <<xfer, peer, sent, got>>

Writable(s) == sock[s] /\ peer[s] # "reset"

\* The write of readed_data completes; its error is not looked at.
FirstWritten ==
    /\ main = "first"
    /\ main' = "run"
    /\ got' = [got EXCEPT !["remote"] = IF Writable("remote") THEN 1 ELSE 0]
    /\ xfer' = [s \in Sides |-> "read"]
    /\ UNCHANGED <<timer, sock, peer, sent>>

-----------------------------------------------------------------------------
(***************************************************************************)
(* transfer, socket to socket, from side s.                                *)
(***************************************************************************)
ReadChunk(s) ==
    /\ xfer[s] = "read"
    /\ sock[s] /\ peer[s] # "reset" /\ sent[s] < Chunks
    /\ sent' = [sent EXCEPT ![s] = @ + 1]
    /\ xfer' = [xfer EXCEPT ![s] = "write"]
    /\ UNCHANGED <<main, timer, sock, peer, got>>

WriteChunk(s) ==
    /\ xfer[s] = "write"
    /\ Writable(Other(s))
    /\ got' = [got EXCEPT ![Other(s)] = @ + 1]
    /\ xfer' = [xfer EXCEPT ![s] = "read"]
    /\ UNCHANGED <<main, timer, sock, peer, sent>>

\* Fault: a transfer that ends closes the socket it wrote to.
TransferEndsCloses(s) ==
    /\ \/ xfer[s] = "read" /\ (~sock[s] \/ peer[s] = "reset")
       \/ xfer[s] = "read" /\ peer[s] = "eof" /\ sent[s] = Chunks
       \/ xfer[s] = "write" /\ ~Writable(Other(s))
    /\ xfer' = [xfer EXCEPT ![s] = "done"]
    /\ sock' = [sock EXCEPT ![Other(s)] = FALSE]
    /\ UNCHANGED <<main, timer, peer, sent, got>>

\* Fault: end of file is not taken for an error, the transfer reads again.
TransferEndsSpins(s) ==
    /\ \/ xfer[s] = "read" /\ (~sock[s] \/ peer[s] = "reset")
          /\ xfer' = [xfer EXCEPT ![s] = "done"]
       \/ xfer[s] = "read" /\ peer[s] = "eof" /\ sent[s] = Chunks
          /\ UNCHANGED xfer
       \/ xfer[s] = "write" /\ ~Writable(Other(s))
          /\ xfer' = [xfer EXCEPT ![s] = "done"]
    /\ UNCHANGED <<main, timer, sock, peer, sent, got>>

\* The read or the write fails: the transfer returns and closes nothing.
TransferEnds(s) ==
    /\ \/ xfer[s] = "read" /\ (~sock[s] \/ peer[s] = "reset")
       \/ xfer[s] = "read" /\ peer[s] = "eof" /\ sent[s] = Chunks
       \/ xfer[s] = "write" /\ ~Writable(Other(s))
    /\ xfer' = [xfer EXCEPT ![s] = "done"]
    /\ UNCHANGED <<main, timer, sock, peer, sent, got>>

\* Both transfers returned: the timer is cancelled, both sockets destroyed.
Join ==
    /\ main = "run"
    /\ \A s \in Sides : xfer[s] = "done"
    /\ main' = "done"
    /\ timer' = "off"
    /\ sock' = [s \in Sides |-> FALSE]
    /\ UNCHANGED <<xfer, peer, sent, got>>

\* The callback of the timer, once: close_local closes the local socket.
RelayTimeout ==
    /\ timer = "armed"
    /\ timer' = "fired"
    /\ sock' = [sock EXCEPT !["local"] = FALSE]
    /\ UNCHANGED <<main, xfer, peer, sent, got>>

-----------------------------------------------------------------------------
\* A peer stops sending, or resets its connection.
PeerEnds(s) ==
    /\ peer[s] = "open"
    /\ \E p \in {"eof"} \cup (IF MayReset THEN {"reset"} ELSE {}) :
           peer' = [peer EXCEPT ![s] = p]
    /\ UNCHANGED <<main, xfer, timer, sock, sent, got>>

Finished == main = "done" /\ \A s \in Sides : peer[s] # "open"
            /\ timer # "armed" /\ UNCHANGED relayVars

Transfer(s) == ReadChunk(s) \/ WriteChunk(s) \/ TransferEnds(s)
Main == Connected \/ ConnectFails \/ FirstWritten \/ Join
RelayNext == Main \/ RelayTimeout \/ Finished \/ \E s \in Sides : Transfer(s) \/ PeerEnds(s)

RelaySpec == RelayInit /\ [][RelayNext]_relayVars

(***************************************************************************)
(* The io_context resumes what is ready, sockets accept what is written to *)
(* them, and the timer of a relay without traffic fires.  The peers owe    *)
(* nothing.                                                                *)
(***************************************************************************)
Fairness ==
    /\ WF_relayVars(Main) /\ WF_relayVars(RelayTimeout)
    /\ \A s \in Sides : WF_relayVars(Transfer(s))
FairRelaySpec == RelaySpec /\ Fairness

-----------------------------------------------------------------------------
(***************************************************************************)
(* Properties.                                                             *)
(***************************************************************************)

\* Half-close: a peer that stops sending still receives everything the other
\* one sends, for as long as nobody resets and the timer does not fire.
HalfCloseDelivers ==
    \A s \in Sides :
        /\ main = "run" /\ xfer[s] = "done" /\ timer = "armed"
        /\ \A p \in Sides : peer[p] # "reset"
        => got[Other(s)] = Chunks

\* Once both peers have ended, by end of file or reset, do_relay returns, and
\* its timer, whose callback refers to its variables, is off for good.
RelayEnds == (\A s \in Sides : peer[s] # "open") ~> [](main = "done" /\ timer = "off")
=============================================================================
