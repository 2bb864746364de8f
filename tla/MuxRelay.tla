------------------------------ MODULE MuxRelay ------------------------------
(***************************************************************************)
(* One proxied TCP stream over one mux connection, both ends.              *)
(*                                                                         *)
(* The entry node runs relay: do_relay between the application's socket    *)
(* and a new MuxStream.  The exit node's read loop receives STREAM_OPEN    *)
(* and spawns relay_handler: do_relay between a MuxStream and a connected  *)
(* socket.  At each end the coroutines are the relay itself (main), the    *)
(* two transfers (up: socket to stream, down: stream to socket), the read  *)
(* loop of the connection, and the callback of the IO timer.               *)
(*                                                                         *)
(* MuxConnection::Write is used through the specification it implements,   *)
(* FrameLog: a write appends one event to the connection or fails.         *)
(***************************************************************************)
EXTENDS Naturals, Sequences

CONSTANTS
    Chunks,    \* Chunks[e]: how many chunks the application of end e sends
    WireCap,   \* events one direction of the connection holds
    Faults     \* what may go wrong: "conn", "timer", "reset", "connect"

Ends == {"entry", "exit"}
Peer(e) == IF e = "entry" THEN "exit" ELSE "entry"

ASSUME ChunksAssumption == Chunks \in [Ends -> Nat]
ASSUME CapAssumption == WireCap \in Nat \ {0}
ASSUME FaultsAssumption == Faults \subseteq {"conn", "timer", "reset", "connect"}

VARIABLES
    main,        \* the relay coroutine of each end
    up, down,    \* its two transfers
    loop,        \* the read loop of the connection: "read", "offer", "reply"
    tclose,      \* the timer callback is writing the STREAM_CLOSE
    timer,       \* the timer of do_relay: "off", "armed", "fired"
    registered,  \* the stream is in g_streams
    closed,      \* MuxStream::closed_
    buf,         \* the chunk in data_channel_ (capacity 1), 0 when empty
    pend,        \* the chunk of a blocked Offer
    upchunk,     \* the chunk up is writing to the stream
    downchunk,   \* the chunk down is writing to the socket
    unmatched,   \* last_unmatch_stream_id_ is the id of this stream
    sock,        \* the socket is open
    app,         \* the application's end: "open", "eof" or "reset"
    supplied,    \* chunks read from the application so far
    rcvd,        \* chunks written to the application's socket
    wire,        \* wire[e]: events sent by e and not yet read by its peer
    conn,        \* the connection is up
    faults       \* what may go wrong in this behaviour: nothing, or all of Faults

streamVars == <<registered, closed, buf, pend, unmatched>>
appVars    == <<app, supplied, rcvd>>
vars == <<main, up, down, loop, tclose, timer, registered, closed, buf, pend,
          upchunk, downchunk, unmatched, sock, app, supplied, rcvd, wire, conn,
          faults>>

Open == [type |-> "open", chunk |-> 0]
Chunk(c) == [type |-> "chunk", chunk |-> c]
CloseEv == [type |-> "close", chunk |-> 0]

Init ==
    /\ main = [e \in Ends |-> IF e = "entry" THEN "open" ELSE "none"]
    /\ up = [e \in Ends |-> "off"]
    /\ down = [e \in Ends |-> "off"]
    /\ loop = [e \in Ends |-> "read"]
    /\ tclose = [e \in Ends |-> FALSE]
    /\ timer = [e \in Ends |-> IF e = "entry" THEN "armed" ELSE "off"]
    /\ registered = [e \in Ends |-> e = "entry"]
    /\ closed = [e \in Ends |-> FALSE]
    /\ buf = [e \in Ends |-> 0]
    /\ pend = [e \in Ends |-> 0]
    /\ upchunk = [e \in Ends |-> 0]
    /\ downchunk = [e \in Ends |-> 0]
    /\ unmatched = [e \in Ends |-> FALSE]
    /\ sock = [e \in Ends |-> e = "entry"]
    /\ app = [e \in Ends |-> "open"]
    /\ supplied = [e \in Ends |-> 0]
    /\ rcvd = [e \in Ends |-> <<>>]
    /\ wire = [e \in Ends |-> <<>>]
    /\ conn = TRUE
    /\ faults \in {{}, Faults}

-----------------------------------------------------------------------------
(***************************************************************************)
(* Writing events.  WriteEvent suspends until the event is on the wire; on *)
(* a dead connection all three attempts fail.                              *)
(***************************************************************************)
Sent(e, ev) ==
    /\ conn
    /\ Len(wire[e]) < WireCap
    /\ wire' = [wire EXCEPT ![e] = Append(@, ev)]

SendFails == ~conn

\* Fault: Close leaves the stream in the table.
CloseStreamNoRemove(e, dn) ==
    /\ closed' = [closed EXCEPT ![e] = TRUE]
    /\ buf' = [buf EXCEPT ![e] = 0]
    /\ pend' = [pend EXCEPT ![e] = 0]
    /\ loop' = [loop EXCEPT ![e] = IF @ = "offer" THEN "read" ELSE @]
    /\ down' = [down EXCEPT ![e] = IF dn = "recv" THEN "err" ELSE dn]
    /\ UNCHANGED <<registered, unmatched>>

(***************************************************************************)
(* MuxStream::Close up to its WriteEvent: out of the table, closed_, and   *)
(* the channel cancelled.  A blocked Offer returns, a blocked Read returns *)
(* an error; what the channel buffers is never read, for Read tests        *)
(* closed_ first.  dn is the state of down at this moment.                 *)
(***************************************************************************)
CloseStream(e, dn) ==
    /\ registered' = [registered EXCEPT ![e] = FALSE]
    /\ closed' = [closed EXCEPT ![e] = TRUE]
    /\ buf' = [buf EXCEPT ![e] = 0]
    /\ pend' = [pend EXCEPT ![e] = 0]
    /\ loop' = [loop EXCEPT ![e] = IF @ = "offer" THEN "read" ELSE @]
    /\ down' = [down EXCEPT ![e] = IF dn = "recv" THEN "err" ELSE dn]
    /\ UNCHANGED unmatched

\* WriteEvent failed three times and closed the stream.  Its STREAM_CLOSE
\* fails as well.
CloseAfterFailure(e, dn) ==
    IF closed[e] THEN /\ down' = [down EXCEPT ![e] = dn]
                      /\ UNCHANGED <<streamVars, loop>>
                 ELSE CloseStream(e, dn)

\* MuxStream::Read called by down, and the start of the next socket write.
Read(e) ==
    /\ down' = [down EXCEPT ![e] = IF closed[e] THEN "err"
                                   ELSE IF buf[e] # 0 THEN "write" ELSE "recv"]
    /\ downchunk' = [downchunk EXCEPT ![e] = IF closed[e] THEN 0 ELSE buf[e]]
    /\ buf' = [buf EXCEPT ![e] = pend[e]]
    /\ pend' = [pend EXCEPT ![e] = 0]
    /\ loop' = [loop EXCEPT ![e] = IF @ = "offer" THEN "read" ELSE @]
    /\ UNCHANGED <<registered, closed, unmatched>>

-----------------------------------------------------------------------------
(***************************************************************************)
(* The relay coroutine: do_relay with relay (entry) or relay_handler.      *)
(***************************************************************************)

\* Open returned, its result not looked at: write what the handshake already
\* read from the application (readed_data), if anything, else start the
\* transfers.
RelayOpen ==
    /\ main["entry"] = "open"
    /\ \/ Sent("entry", Open) /\ UNCHANGED closed
       \/ /\ SendFails
          /\ closed' = [closed EXCEPT !["entry"] = TRUE]
          /\ UNCHANGED wire
    /\ registered' = [registered EXCEPT !["entry"] = ~closed'["entry"]]
    /\ \/ /\ Chunks["entry"] > 0
          /\ main' = [main EXCEPT !["entry"] = "first"]
          /\ supplied' = [supplied EXCEPT !["entry"] = 1]
          /\ upchunk' = [upchunk EXCEPT !["entry"] = 1]
          /\ UNCHANGED <<up, down>>
       \/ /\ main' = [main EXCEPT !["entry"] = "run"]
          /\ up' = [up EXCEPT !["entry"] = "read"]
          /\ down' = [down EXCEPT !["entry"] = IF closed'["entry"] THEN "err" ELSE "recv"]
          /\ UNCHANGED <<supplied, upchunk>>
    /\ UNCHANGED <<loop, tclose, timer, buf, pend, downchunk, unmatched, sock, app, rcvd,
                   conn, faults>>

\* The write of readed_data returns; the transfers start.
RelayFirst ==
    /\ main["entry"] = "first"
    /\ main' = [main EXCEPT !["entry"] = "run"]
    /\ up' = [up EXCEPT !["entry"] = "read"]
    /\ upchunk' = [upchunk EXCEPT !["entry"] = 0]
    /\ \/ /\ Sent("entry", Chunk(1))
          /\ Read("entry")
       \/ /\ SendFails
          /\ CloseAfterFailure("entry", "err")
          /\ UNCHANGED <<wire, downchunk>>
    /\ UNCHANGED <<tclose, timer, sock, appVars, conn, faults>>

\* get_connected_socket returns a socket: the transfers start.
RelayConnected ==
    /\ main["exit"] = "connect"
    /\ main' = [main EXCEPT !["exit"] = "run"]
    /\ sock' = [sock EXCEPT !["exit"] = TRUE]
    /\ up' = [up EXCEPT !["exit"] = "read"]
    /\ Read("exit")
    /\ UNCHANGED <<tclose, timer, upchunk, appVars, wire, conn, faults>>

\* It returns none: relay_handler closes the stream.
RelayConnectFails ==
    /\ "connect" \in faults
    /\ main["exit"] = "connect"
    /\ timer' = [timer EXCEPT !["exit"] = "off"]
    /\ main' = [main EXCEPT !["exit"] = IF closed["exit"] THEN "done" ELSE "close"]
    /\ IF closed["exit"] THEN UNCHANGED <<streamVars, loop, down>>
                         ELSE CloseStream("exit", down["exit"])
    /\ UNCHANGED <<up, tclose, upchunk, downchunk, sock, appVars, wire, conn, faults>>

\* Both transfers are over: the timer is cancelled, the stream closed and the
\* socket destroyed.  Each transfer closed the stream before it ended.
RelayJoin(e) ==
    /\ main[e] = "run"
    /\ up[e] = "done" /\ down[e] = "done"
    /\ main' = [main EXCEPT ![e] = IF closed[e] THEN "done" ELSE "close"]
    /\ timer' = [timer EXCEPT ![e] = "off"]
    /\ sock' = [sock EXCEPT ![e] = FALSE]
    /\ IF closed[e] THEN UNCHANGED <<streamVars, loop, down>>
                    ELSE CloseStream(e, down[e])
    /\ UNCHANGED <<up, tclose, upchunk, downchunk, appVars, wire, conn, faults>>

\* The STREAM_CLOSE of the relay itself is written, or cannot be.
RelayClosed(e) ==
    /\ main[e] = "close"
    /\ Sent(e, CloseEv) \/ (SendFails /\ UNCHANGED wire)
    /\ main' = [main EXCEPT ![e] = "done"]
    /\ UNCHANGED <<up, down, loop, tclose, timer, streamVars, upchunk, downchunk,
                   sock, appVars, conn, faults>>

-----------------------------------------------------------------------------
(***************************************************************************)
(* transfer, socket to stream.                                             *)
(***************************************************************************)

\* A chunk is read from the socket; Write does not test closed_.
UpRead(e) ==
    /\ up[e] = "read"
    /\ sock[e] /\ app[e] # "reset" /\ supplied[e] < Chunks[e]
    /\ supplied' = [supplied EXCEPT ![e] = @ + 1]
    /\ upchunk' = [upchunk EXCEPT ![e] = supplied'[e]]
    /\ up' = [up EXCEPT ![e] = "write"]
    /\ UNCHANGED <<main, down, loop, tclose, timer, streamVars, downchunk, sock,
                   app, rcvd, wire, conn, faults>>

UpWrite(e) ==
    /\ up[e] = "write"
    /\ upchunk' = [upchunk EXCEPT ![e] = 0]
    /\ \/ /\ Sent(e, Chunk(upchunk[e]))
          /\ up' = [up EXCEPT ![e] = "read"]
          /\ UNCHANGED <<streamVars, loop, down>>
       \/ /\ SendFails
          /\ up' = [up EXCEPT ![e] = "done"]
          /\ CloseAfterFailure(e, down[e])
          /\ UNCHANGED wire
    /\ UNCHANGED <<main, tclose, timer, downchunk, sock, appVars, conn, faults>>

\* End of file, reset, or the socket was closed: close the stream.
UpEnd(e) ==
    /\ up[e] = "read"
    /\ \/ ~sock[e]
       \/ app[e] = "reset"
       \/ app[e] = "eof" /\ supplied[e] = Chunks[e]
    /\ IF closed[e]
       THEN /\ up' = [up EXCEPT ![e] = "done"]
            /\ UNCHANGED <<streamVars, loop, down>>
       ELSE /\ up' = [up EXCEPT ![e] = "close"]
            /\ CloseStream(e, down[e])
    /\ UNCHANGED <<main, tclose, timer, upchunk, downchunk, sock, appVars, wire, conn, faults>>

UpClosed(e) ==
    /\ up[e] = "close"
    /\ Sent(e, CloseEv) \/ (SendFails /\ UNCHANGED wire)
    /\ up' = [up EXCEPT ![e] = "done"]
    /\ UNCHANGED <<main, down, loop, tclose, timer, streamVars, upchunk, downchunk,
                   sock, appVars, conn, faults>>

(***************************************************************************)
(* transfer, stream to socket.                                             *)
(***************************************************************************)

\* The socket write completes; the next chunk is read from the stream.
DownWrite(e) ==
    /\ down[e] = "write"
    /\ sock[e] /\ app[e] # "reset"
    /\ rcvd' = [rcvd EXCEPT ![e] = Append(@, downchunk[e])]
    /\ Read(e)
    /\ UNCHANGED <<main, up, tclose, timer, upchunk, sock, app, supplied, wire, conn, faults>>

\* Fault: the transfer from the stream ends without closing the socket.
DownEndKeepsSocket(e) ==
    /\ \/ down[e] = "err"
       \/ down[e] = "write" /\ (~sock[e] \/ app[e] = "reset")
    /\ downchunk' = [downchunk EXCEPT ![e] = 0]
    /\ IF closed[e]
       THEN /\ down' = [down EXCEPT ![e] = "done"]
            /\ UNCHANGED <<streamVars, loop>>
       ELSE CloseStream(e, "close")
    /\ UNCHANGED <<main, up, tclose, timer, upchunk, sock, appVars, wire, conn, faults>>

\* The socket write or the read from the stream failed: close the stream,
\* then the socket.
DownEnd(e) ==
    /\ \/ down[e] = "err"
       \/ down[e] = "write" /\ (~sock[e] \/ app[e] = "reset")
    /\ downchunk' = [downchunk EXCEPT ![e] = 0]
    /\ IF closed[e]
       THEN /\ down' = [down EXCEPT ![e] = "done"]
            /\ sock' = [sock EXCEPT ![e] = FALSE]
            /\ UNCHANGED <<streamVars, loop>>
       ELSE /\ CloseStream(e, "close")
            /\ UNCHANGED sock
    /\ UNCHANGED <<main, up, tclose, timer, upchunk, appVars, wire, conn, faults>>

DownClosed(e) ==
    /\ down[e] = "close"
    /\ Sent(e, CloseEv) \/ (SendFails /\ UNCHANGED wire)
    /\ down' = [down EXCEPT ![e] = "done"]
    /\ sock' = [sock EXCEPT ![e] = FALSE]
    /\ UNCHANGED <<main, up, loop, tclose, timer, streamVars, upchunk, downchunk,
                   appVars, conn, faults>>

-----------------------------------------------------------------------------
(***************************************************************************)
(* The read loop: ProcessReadEvent, one event of the peer at a time.       *)
(***************************************************************************)
Receive(e, type) ==
    /\ loop[e] = "read"
    /\ conn
    /\ wire[Peer(e)] # <<>>
    /\ Head(wire[Peer(e)]).type = type
    /\ wire' = [wire EXCEPT ![Peer(e)] = Tail(@)]

\* STREAM_OPEN: relay_handler is spawned and runs up to get_connected_socket.
LoopOpen(e) ==
    /\ Receive(e, "open")
    /\ main' = [main EXCEPT ![e] = "connect"]
    /\ registered' = [registered EXCEPT ![e] = TRUE]
    /\ timer' = [timer EXCEPT ![e] = "armed"]
    /\ UNCHANGED <<up, down, loop, tclose, closed, buf, pend, upchunk, downchunk,
                   unmatched, sock, appVars, conn, faults>>

\* Fault: a chunk that finds the channel full takes the place of the older one.
LoopOfferReplaces(e) ==
    /\ registered[e]
    /\ Receive(e, "chunk")
    /\ LET c == Head(wire[Peer(e)]).chunk IN
       IF down[e] = "recv"
       THEN /\ down' = [down EXCEPT ![e] = "write"]
            /\ downchunk' = [downchunk EXCEPT ![e] = c]
            /\ UNCHANGED buf
       ELSE /\ buf' = [buf EXCEPT ![e] = c]
            /\ UNCHANGED <<down, downchunk>>
    /\ UNCHANGED <<main, up, loop, tclose, timer, registered, closed, pend, upchunk,
                   unmatched, sock, appVars, conn, faults>>

\* Fault: the loop does not wait for Offer.
LoopOfferDetached(e) ==
    /\ registered[e]
    /\ pend[e] = 0
    /\ Receive(e, "chunk")
    /\ LET c == Head(wire[Peer(e)]).chunk IN
       IF down[e] = "recv"
       THEN /\ down' = [down EXCEPT ![e] = "write"]
            /\ downchunk' = [downchunk EXCEPT ![e] = c]
            /\ UNCHANGED <<buf, pend>>
       ELSE /\ buf' = [buf EXCEPT ![e] = IF @ = 0 THEN c ELSE @]
            /\ pend' = [pend EXCEPT ![e] = IF buf[e] = 0 THEN @ ELSE c]
            /\ UNCHANGED <<down, downchunk>>
    /\ UNCHANGED <<main, up, loop, tclose, timer, registered, closed, upchunk, unmatched,
                   sock, appVars, conn, faults>>

\* STREAM_CHUNK of a known stream: Offer, to a waiting Read, to the buffer, or
\* blocking the loop.
LoopOffer(e) ==
    /\ registered[e]
    /\ Receive(e, "chunk")
    /\ LET c == Head(wire[Peer(e)]).chunk IN
       \/ /\ down[e] = "recv"
          /\ down' = [down EXCEPT ![e] = "write"]
          /\ downchunk' = [downchunk EXCEPT ![e] = c]
          /\ UNCHANGED <<buf, pend, loop>>
       \/ /\ down[e] # "recv" /\ buf[e] = 0
          /\ buf' = [buf EXCEPT ![e] = c]
          /\ UNCHANGED <<down, downchunk, pend, loop>>
       \/ /\ down[e] # "recv" /\ buf[e] # 0
          /\ pend' = [pend EXCEPT ![e] = c]
          /\ loop' = [loop EXCEPT ![e] = "offer"]
          /\ UNCHANGED <<down, downchunk, buf>>
    /\ UNCHANGED <<main, up, tclose, timer, registered, closed, upchunk, unmatched,
                   sock, appVars, conn, faults>>

\* STREAM_CHUNK of an unknown stream: the first one is answered by a forced
\* STREAM_CLOSE, which the loop itself writes; later ones are dropped.
LoopUnmatched(e) ==
    /\ ~registered[e]
    /\ Receive(e, "chunk")
    /\ unmatched' = [unmatched EXCEPT ![e] = TRUE]
    /\ loop' = [loop EXCEPT ![e] = IF unmatched[e] THEN "read" ELSE "reply"]
    /\ UNCHANGED <<main, up, down, tclose, timer, registered, closed, buf, pend,
                   upchunk, downchunk, sock, appVars, conn, faults>>

LoopReply(e) ==
    /\ loop[e] = "reply"
    /\ Sent(e, CloseEv) \/ (SendFails /\ UNCHANGED wire)
    /\ loop' = [loop EXCEPT ![e] = "read"]
    /\ UNCHANGED <<main, up, down, tclose, timer, streamVars, upchunk, downchunk,
                   sock, appVars, conn, faults>>

\* STREAM_CLOSE: Close(true), which writes nothing.
LoopClose(e) ==
    /\ Receive(e, "close")
    /\ IF registered[e] THEN CloseStream(e, down[e])
                        ELSE UNCHANGED <<streamVars, loop, down>>
    /\ UNCHANGED <<main, up, tclose, timer, upchunk, downchunk, sock, appVars, conn, faults>>

-----------------------------------------------------------------------------
(***************************************************************************)
(* The IO timer of do_relay.  close_local closes the application's socket  *)
(* at the entry, and the stream at the exit.  It fires at most once.       *)
(***************************************************************************)
TimeoutEntry ==
    /\ "timer" \in faults
    /\ timer["entry"] = "armed" /\ main["entry"] \in {"open", "first", "run"}
    /\ timer' = [timer EXCEPT !["entry"] = "fired"]
    /\ sock' = [sock EXCEPT !["entry"] = FALSE]
    /\ UNCHANGED <<main, up, down, loop, tclose, streamVars, upchunk, downchunk,
                   appVars, wire, conn, faults>>

TimeoutExit ==
    /\ "timer" \in faults
    /\ timer["exit"] = "armed" /\ main["exit"] \in {"connect", "run"}
    /\ timer' = [timer EXCEPT !["exit"] = "fired"]
    /\ IF closed["exit"]
       THEN UNCHANGED <<streamVars, loop, down, tclose>>
       ELSE /\ CloseStream("exit", down["exit"])
            /\ tclose' = [tclose EXCEPT !["exit"] = TRUE]
    /\ UNCHANGED <<main, up, upchunk, downchunk, sock, appVars, wire, conn, faults>>

TimeoutClosed ==
    /\ tclose["exit"]
    /\ Sent("exit", CloseEv) \/ (SendFails /\ UNCHANGED wire)
    /\ tclose' = [tclose EXCEPT !["exit"] = FALSE]
    /\ UNCHANGED <<main, up, down, loop, timer, streamVars, upchunk, downchunk,
                   sock, appVars, conn, faults>>

(***************************************************************************)
(* The environment: the applications and the connection.                   *)
(***************************************************************************)
AppEnds(e) ==
    /\ sock[e] /\ app[e] = "open"
    /\ \E a \in {"eof"} \cup (faults \cap {"reset"}) : app' = [app EXCEPT ![e] = a]
    /\ UNCHANGED <<main, up, down, loop, tclose, timer, streamVars, upchunk,
                   downchunk, sock, supplied, rcvd, wire, conn, faults>>

\* What is on the way is lost.
Disconnect ==
    /\ conn' = FALSE
    /\ wire' = [e \in Ends |-> <<>>]
    /\ UNCHANGED <<main, up, down, loop, tclose, timer, streamVars, upchunk,
                   downchunk, sock, appVars, faults>>

\* The connection is lost with everything in flight.
ConnectionLost ==
    /\ "conn" \in faults
    /\ conn
    /\ Disconnect

\* Both read loops write a forced STREAM_CLOSE to a connection that is full in
\* its direction, so that neither reads what the other waits to write.
LoopsWaitForEachOther ==
    conn /\ \A e \in Ends : loop[e] = "reply" /\ Len(wire[e]) = WireCap

\* MuxSession::ReportStatInfo closes a connection that has not moved for
\* conn_max_inactive_secs; the peer is reset, since what it sent is not read.
\* (A connection that is merely idle is closed as well: ConnectionLost.)
ReportStatInfo == LoopsWaitForEachOther /\ Disconnect

Ended(e) == main[e] \in {"none", "done"}
Finished ==
    /\ \A e \in Ends : Ended(e) /\ loop[e] = "read" /\ wire[e] = <<>>
    /\ ~tclose["exit"]
    /\ UNCHANGED vars

-----------------------------------------------------------------------------
Relay(e) == (RelayJoin(e) \/ RelayClosed(e))
            \/ (e = "entry" /\ (RelayOpen \/ RelayFirst))
            \/ (e = "exit" /\ (RelayConnected \/ RelayConnectFails))
Up(e) == UpRead(e) \/ UpWrite(e) \/ UpEnd(e) \/ UpClosed(e)
Down(e) == DownWrite(e) \/ DownEnd(e) \/ DownClosed(e)
Loop(e) == LoopOpen(e) \/ LoopOffer(e) \/ LoopUnmatched(e) \/ LoopReply(e) \/ LoopClose(e)
Timer == TimeoutEntry \/ TimeoutExit \/ TimeoutClosed

Next ==
    \/ \E e \in Ends : Relay(e) \/ Up(e) \/ Down(e) \/ Loop(e) \/ AppEnds(e)
    \/ Timer
    \/ ConnectionLost \/ ReportStatInfo
    \/ Finished

Spec == Init /\ [][Next]_vars

(***************************************************************************)
(* The io_context resumes what is ready, sockets accept what is written to *)
(* them, the timer of a relay that lives on fires and the report is made.  *)
(* The applications, and the loss of the connection, owe nothing.          *)
(***************************************************************************)
Fairness ==
    /\ \A e \in Ends : /\ WF_vars(Relay(e)) /\ WF_vars(Up(e))
                       /\ WF_vars(Down(e)) /\ WF_vars(Loop(e))
    /\ WF_vars(TimeoutEntry) /\ WF_vars(TimeoutExit) /\ WF_vars(TimeoutClosed)
    /\ WF_vars(ReportStatInfo)
FairSpec == Spec /\ Fairness

-----------------------------------------------------------------------------
(***************************************************************************)
(* Properties.                                                             *)
(***************************************************************************)

\* What an application receives is what the other one sent: in order, without
\* a gap, a duplicate or an invention, however the stream ends.
InOrder ==
    \A e \in Ends :
        /\ \A i \in 1 .. Len(rcvd[e]) : rcvd[e][i] = i
        /\ Len(rcvd[e]) <= supplied[Peer(e)]

\* A stream is in g_streams exactly while its relay runs and it is not closed;
\* a relay that has returned leaves neither a table entry nor an open socket.
TableExact ==
    \A e \in Ends :
        /\ registered[e] <=> main[e] \in {"open", "first", "connect", "run"} /\ ~closed[e]
        /\ main[e] = "done" => ~sock[e] /\ timer[e] = "off"

\* When one application sends everything and closes, and nothing fails, the
\* other one receives everything but at most the last chunk: the one that was
\* still in data_channel_ when STREAM_CLOSE closed it.
LosesAtMostLast ==
    \A e \in Ends :
        faults = {} /\ main[e] = "done" /\ app[e] = "open"
            => Len(rcvd[e]) + 1 >= supplied[Peer(e)]

\* Once an application closes, or the connection is lost, both relays return:
\* no coroutine, socket or table entry survives the stream, even if the two
\* read loops have come to wait for each other.
StreamEnds == (\E e \in Ends : app[e] # "open") \/ ~conn ~> \A e \in Ends : Ended(e)
=============================================================================
