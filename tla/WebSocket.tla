----------------------------- MODULE WebSocket -----------------------------
(***************************************************************************)
(* A mux connection over WebSocket: the mux server that listens for it,    *)
(* the handshake, and the messages both ends then exchange, over a TCP     *)
(* stream that is cut anywhere and may break at any time.                  *)
(*                                                                         *)
(* At each end WebSocket reads through read_exact from a BufferedIO over a *)
(* TcpSocket.  Of the mux connection above, this module keeps what matters *)
(* here: an end reads all the time, and the server writes nothing before   *)
(* it has read a first message, the authentication request.                *)
(*                                                                         *)
(* Bytes of messages and of mask keys are bits; a header line of the       *)
(* handshake is a cell per word.                                           *)
(***************************************************************************)
EXTENDS HttpHelper

CONSTANTS
    Messages,   \* Messages[e]: what end e writes, in this order
    MaskKeys,   \* mask_key is not initialized: any of these
    SmallMax,   \* the longest message with a length of one byte (125)
    MediumMax,  \* the longest with a length of two bytes (65535)
    ReadCap,    \* kMaxChunkSize, what one read of a socket returns at most
    Room        \* the buffer the reader of messages offers

Ends == {"client", "server"}
Peer(e) == IF e = "client" THEN "server" ELSE "client"

TwoBytes == 256 * 256 - 1   \* the most a length of two bytes can say

ASSUME LengthAssumption == SmallMax \in 1 .. 125 /\ MediumMax \in SmallMax .. TwoBytes
ASSUME RoomAssumption == Room \in 1 .. TwoBytes /\ ReadCap \in Nat \ {0}
ASSUME MaskAssumption == MaskKeys \subseteq [1 .. 4 -> {0, 1}]
ASSUME MessagesAssumption ==
    \A e \in Ends : /\ Messages[e] \in Seq(Seq({0, 1}))
                    /\ \A i \in 1 .. Len(Messages[e]) : Len(Messages[e][i]) \in 1 .. Room

VARIABLES
    listening,  \* the mux server: "no", "yes", "failed"
    pc,         \* each end: "idle", "open", "wait", "up", "failed"
    up,         \* the TCP connection is up
    wire,       \* wire[e]: bytes sent by e and not yet read by its peer
    rb,         \* recv_buffer_ of BufferedIO from offset_ to length_
    rd,         \* the AsyncRead under way: its stage and what it has so far
    written,    \* how many messages each end has written
    returned,   \* the messages AsyncRead has returned
    taken       \* how many bytes the read of the handshake took

vars == <<listening, pc, up, wire, rb, rd, written, returned, taken>>

Reading == [stage |-> "head", need |-> 2, got |-> <<>>, mask |-> FALSE, len |-> 0, key |-> <<>>]
None == [e \in Ends |-> <<>>]

Init ==
    /\ listening = "no" /\ up = FALSE
    /\ pc = [e \in Ends |-> "idle"]
    /\ wire = None /\ rb = None /\ returned = None
    /\ rd = [e \in Ends |-> Reading]
    /\ written = [e \in Ends |-> 0] /\ taken = [e \in Ends |-> 0]

-----------------------------------------------------------------------------
(***************************************************************************)
(* The mux server and the connection of the client.                        *)
(***************************************************************************)

\* start_mux_server: the address does not resolve, or bind or listen fails.
StartMuxServer ==
    /\ listening = "no"
    /\ listening' \in {"yes", "failed"}
    /\ UNCHANGED <<pc, up, wire, rb, rd, written, returned, taken>>

\* server_loop ends for good at the first error of accept; what it has already
\* accepted goes on.
AcceptFails ==
    /\ listening = "yes" /\ pc["client"] = "idle"
    /\ listening' = "failed"
    /\ UNCHANGED <<pc, up, wire, rb, rd, written, returned, taken>>

\* NewConnection connects, server_loop accepts and handle_conn starts.
NewConnection ==
    /\ pc["client"] = "idle"
    /\ listening = "yes"
    /\ up' = TRUE
    /\ pc' = [pc EXCEPT !["client"] = "open", !["server"] = "wait"]
    /\ UNCHANGED <<listening, wire, rb, rd, written, returned, taken>>

\* An end gives up and destroys its socket.  The peer may still read what was
\* sent before.
Fail(e) == pc' = [pc EXCEPT ![e] = "failed"] /\ up' = FALSE

\* The connection breaks, and what has not been read is lost.
Break ==
    /\ up
    /\ up' = FALSE /\ wire' = None
    /\ UNCHANGED <<listening, pc, rb, rd, written, returned, taken>>

-----------------------------------------------------------------------------
(***************************************************************************)
(* The handshake.  Each side reads once and looks for its header in that.  *)
(***************************************************************************)
SecKey == 75
SecAccept == 65
Request == <<71, SecKey, 7, Crlf, 86, Crlf, Crlf>>
Response == <<72, SecAccept, 8, Crlf, Crlf>>
ErrorPage == <<72, Crlf, Crlf, 60>>
Sends(e, bytes) == wire' = [wire EXCEPT ![e] = @ \o bytes]

\* AsyncConnect writes its request.
ConnectWrite ==
    /\ pc["client"] = "open" /\ up
    /\ Sends("client", Request)
    /\ pc' = [pc EXCEPT !["client"] = "wait"]
    /\ UNCHANGED <<listening, up, rb, rd, written, returned, taken>>

\* A read of the handshake: through BufferedIO, whose buffer is as large, so
\* that nothing stays in it.  h is the header that is looked for, yes and no are
\* the answers to one that is found or not.
HandshakeRead(e, h, yes, no) ==
    /\ pc[e] = "wait"
    /\ \E k \in 1 .. Len(wire[Peer(e)]) :
           /\ k <= ReadCap
           /\ taken' = [taken EXCEPT ![e] = k]
           /\ LET rest == [wire EXCEPT ![Peer(e)] = SubSeq(@, k + 1, Len(@))]
              IN  IF HttpGetHeader(SubSeq(wire[Peer(e)], 1, k), h) = NotFound
                  THEN Fail(e) /\ wire' = [rest EXCEPT ![e] = @ \o no]
                  ELSE /\ pc' = [pc EXCEPT ![e] = "up"]
                       /\ wire' = [rest EXCEPT ![e] = @ \o yes]
                       /\ UNCHANGED up
    /\ UNCHANGED <<listening, rb, rd, written, returned>>

\* AsyncAccept answers, with an error page if it finds no key.
AsyncAccept == HandshakeRead("server", SecKey, Response, ErrorPage)

\* AsyncConnect does not look at the value of the header.
ConnectRead == HandshakeRead("client", SecAccept, <<>>, <<>>)

-----------------------------------------------------------------------------
(***************************************************************************)
(* Messages.                                                               *)
(***************************************************************************)
Binary == 130
Big(n, w) == [i \in 1 .. w |-> IF i = w THEN n % 256 ELSE IF i = w - 1 THEN n \div 256 ELSE 0]

\* The value of a length; one of more than two bytes is beyond any Room.
FromBig(s) ==
    LET w == Len(s)
    IN  IF \E i \in 1 .. w - 2 : s[i] # 0 THEN Room + 1 ELSE 256 * s[w - 1] + s[w]

\* A key applied to bits, by which masking undoes itself.
Masked(p, key) == [i \in 1 .. Len(p) |-> (p[i] + key[1 + ((i - 1) % 4)]) % 2]

\* Fault: the limit of the short form is off by one.
FrameHeadOffByOne(n, masked) ==
    LET code == IF n <= SmallMax + 1 THEN n ELSE IF n > MediumMax THEN 127 ELSE 126
    IN  <<Binary, code + (IF masked THEN 128 ELSE 0)>>
        \o (IF n <= SmallMax THEN <<>> ELSE IF n > MediumMax THEN Big(n, 8) ELSE Big(n, 2))

\* The head of a frame.
FrameHead(n, masked) ==
    LET code == IF n <= SmallMax THEN n ELSE IF n > MediumMax THEN 127 ELSE 126
    IN  <<Binary, code + (IF masked THEN 128 ELSE 0)>>
        \o (IF n <= SmallMax THEN <<>> ELSE IF n > MediumMax THEN Big(n, 8) ELSE Big(n, 2))

\* The message an end writes next, framed; a client masks what it sends.
NextFrame(e, key) ==
    LET p == Messages[e][written[e] + 1]
    IN  IF e = "server" THEN FrameHead(Len(p), FALSE) \o p
        ELSE FrameHead(Len(p), TRUE) \o key \o Masked(p, key)

\* Fault: the server writes as soon as it has accepted.
MayWriteAtOnce(e) == pc[e] = "up"

\* The server has nothing to say before the authentication request.
MayWrite(e) == pc[e] = "up" /\ (e = "server" => returned[e] # <<>>)

\* AsyncWrite.
AsyncWrite(e) ==
    /\ MayWrite(e) /\ up
    /\ written[e] < Len(Messages[e])
    /\ \E key \in MaskKeys : Sends(e, NextFrame(e, key))
    /\ written' = [written EXCEPT ![e] = @ + 1]
    /\ UNCHANGED <<listening, pc, up, rb, rd, returned, taken>>

\* Fault: what a read of the socket returns beyond the need of the moment is lost.
FillShort(e) ==
    /\ pc[e] = "up" /\ rb[e] = <<>>
    /\ \E k \in 1 .. Len(wire[Peer(e)]) :
           /\ k <= ReadCap
           /\ rb' = [rb EXCEPT ![e] = SubSeq(wire[Peer(e)], 1, IF k > rd[e].need THEN rd[e].need ELSE k)]
           /\ wire' = [wire EXCEPT ![Peer(e)] = SubSeq(@, k + 1, Len(@))]
    /\ UNCHANGED <<listening, pc, up, rd, written, returned, taken>>

\* BufferedIO::AsyncRead with nothing left reads from the socket.
Fill(e) ==
    /\ pc[e] = "up" /\ rb[e] = <<>>
    /\ \E k \in 1 .. Len(wire[Peer(e)]) :
           /\ k <= ReadCap
           /\ rb' = [rb EXCEPT ![e] = SubSeq(wire[Peer(e)], 1, k)]
           /\ wire' = [wire EXCEPT ![Peer(e)] = SubSeq(@, k + 1, Len(@))]
    /\ UNCHANGED <<listening, pc, up, rd, written, returned, taken>>

\* What a read that has completed a stage goes on with.
Stage(r) ==
    LET sized(n, m) == [r EXCEPT !.stage = IF m THEN "key" ELSE "body", !.need = IF m THEN 4 ELSE n,
                                 !.len = n, !.mask = m, !.got = <<>>]
        code == r.got[2] % 128
        m == r.got[2] >= 128
    IN  CASE r.stage = "head" /\ code \in {126, 127} ->
                 [r EXCEPT !.stage = "len", !.need = IF code = 126 THEN 2 ELSE 8, !.mask = m, !.got = <<>>]
          [] r.stage = "head" /\ code < 126 -> sized(code, m)
          [] r.stage = "len" -> sized(FromBig(r.got), r.mask)
          [] r.stage = "key" -> [r EXCEPT !.stage = "body", !.need = r.len, !.key = r.got, !.got = <<>>]

\* read_exact takes from the buffer until a stage has all it needs.  A message
\* that does not fit is an error, and an empty one is the end of the stream for
\* the reader above.
Take(e) ==
    /\ pc[e] = "up" /\ rb[e] # <<>>
    /\ LET r == rd[e]
           n == IF Len(rb[e]) < r.need - Len(r.got) THEN Len(rb[e]) ELSE r.need - Len(r.got)
           s == [r EXCEPT !.got = @ \o SubSeq(rb[e], 1, n)]
           t == IF Len(s.got) = s.need /\ s.stage # "body" THEN Stage(s) ELSE s
           done == t.stage = "body" /\ Len(t.got) = t.need
       IN  /\ rb' = [rb EXCEPT ![e] = SubSeq(@, n + 1, Len(@))]
           /\ IF t.len > Room \/ (done /\ t.len = 0)
              THEN Fail(e) /\ UNCHANGED <<rd, returned>>
              ELSE /\ rd' = [rd EXCEPT ![e] = IF done THEN Reading ELSE t]
                   /\ returned' = [returned EXCEPT ![e] =
                          IF done THEN Append(@, IF t.mask THEN Masked(t.got, t.key) ELSE t.got)
                          ELSE @]
                   /\ UNCHANGED <<pc, up>>
    /\ UNCHANGED <<listening, wire, written, taken>>

\* A read or a write fails on a connection that is gone, or whose peer is.
IoFails(e) ==
    /\ pc[e] \in {"open", "wait", "up"} /\ ~up
    /\ pc[e] # "open" => rb[e] = <<>> /\ wire[Peer(e)] = <<>>
    /\ Fail(e)
    /\ UNCHANGED <<listening, wire, rb, rd, written, returned, taken>>

AsyncRead(e) == Fill(e) \/ Take(e)

Quiet ==
    /\ \A e \in Ends : pc[e] \in {"idle", "failed", "up"}
    /\ UNCHANGED vars

Next ==
    \/ StartMuxServer \/ AcceptFails \/ NewConnection \/ Break \/ Quiet
    \/ ConnectWrite \/ AsyncAccept \/ ConnectRead
    \/ \E e \in Ends : AsyncWrite(e) \/ AsyncRead(e) \/ IoFails(e)

\* The io_context delivers what has arrived to the read that waits for it.
Spec == Init /\ [][Next]_vars /\ \A e \in Ends : WF_vars(AsyncRead(e))

-----------------------------------------------------------------------------
(***************************************************************************)
(* Properties.                                                             *)
(***************************************************************************)
Handshake(e) == IF e = "client" THEN Request ELSE Response

\* The read of the handshake took all of it: no byte is left to be taken for
\* a frame.
Whole(e) == taken[e] = Len(Handshake(Peer(e)))

\* However TCP cuts the stream, every AsyncRead returns one message of the
\* peer, whole, unmasked and in order, also while the connection breaks -
\* provided that the one read of the handshake took all of the handshake.
MessagesExact ==
    \A e \in Ends : Whole(e) =>
        returned[e] = SubSeq(Messages[Peer(e)], 1, Len(returned[e]))

\* The read of the handshake takes as much as there is and throws it away; it
\* never takes a byte of a message with it, since neither end writes one
\* before the other has finished its handshake.
SwallowsNothing == \A e \in Ends : taken[e] <= Len(Handshake(Peer(e)))

\* Messages that were written are returned by AsyncReads of the peer, unless
\* the connection breaks or the handshake was cut.
MessagesArrive ==
    \A e \in Ends :
        written[Peer(e)] > 0 ~> Len(returned[e]) = written[Peer(e)] \/ ~up \/ ~Whole(e)
=============================================================================
