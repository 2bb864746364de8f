----------------------------- MODULE MuxFraming -----------------------------
(***************************************************************************)
(* One mux connection from its first byte: the authentication that gives   *)
(* both ends a new nonce, and the events that follow, cut into frames on a *)
(* byte stream that delivers them in arbitrary pieces.                     *)
(*                                                                         *)
(* A header is one cell, a body MaxLen cells at most and a tag of the      *)
(* cipher one cell.  A nonce is the value it was last set to, "default" or *)
(* the "iv" of the server, and the number of frames since.  A write is the *)
(* atomic append that MuxConnectionWrite implements.                       *)
(***************************************************************************)
EXTENDS Naturals, Sequences

CONSTANTS
    MaxLen,     \* cells of a body, at most
    BufCap,     \* cells of read_buffer_
    Events,     \* events either end sends after the authentication
    Encrypted   \* FALSE for the cipher method "none"

ASSUME CipherAssumption == Encrypted \in BOOLEAN
ASSUME SizesAssumption == {MaxLen, BufCap, Events} \subseteq Nat
ASSUME BufferAssumption == BufCap >= MaxLen + 3

Ends == {"client", "server"}
Peer(e) == IF e = "client" THEN "server" ELSE "client"
Default == [base |-> "default", n |-> 0]
NewIv == [base |-> "iv", n |-> 0]
Tag == IF Encrypted THEN 1 ELSE 0
HeadCells == 1 + Tag

VARIABLES
    role,      \* whether the role of the client suits the server
    samekey,   \* whether both are configured with the same cipher key
    phase,     \* where ClientAuth, ServerAuth and the read loop are
    enc,       \* encrypt_iv_
    dec,       \* decrypt_iv_
    out,       \* cells written and not yet read by the other end
    buf,       \* readable_data_
    rd,        \* ReadEvent: "try" the buffer, or "read"
    sent,      \* events sent
    got        \* events handled, in order

vars == <<role, samekey, phase, enc, dec, out, buf, rd, sent, got>>

Init ==
    /\ role \in {"good", "bad"}
    /\ samekey \in BOOLEAN
    /\ phase = [e \in Ends |-> IF e = "client" THEN "start" ELSE "wait"]
    /\ enc = [e \in Ends |-> Default]
    /\ dec = [e \in Ends |-> Default]
    /\ out = [e \in Ends |-> <<>>]
    /\ buf = [e \in Ends |-> <<>>]
    /\ rd = [e \in Ends |-> "try"]
    /\ sent = [e \in Ends |-> 0]
    /\ got = [e \in Ends |-> <<>>]

-----------------------------------------------------------------------------
Next1(nonce) == [nonce EXCEPT !.n = @ + 1]

\* Cells of a body: a body that is sealed has a tag, an empty one is not.
BodyCells(len, plain) == IF len > 0 /\ ~plain THEN len + Tag ELSE len

\* Encrypt.  plain is the flag body_no_encrypt.  Without a cipher the header
\* is encoded before the body is, with the length it has by default, 0.
Frame(e, type, len, plain, v) ==
    [type |-> type, v |-> v, nonce |-> enc[e], plain |-> plain,
     cells |-> HeadCells + BodyCells(len, plain),
     len |-> IF Encrypted THEN len ELSE 0]

Cells(f) == [i \in 1 .. f.cells |-> [f |-> f, i |-> i]]

Send(e, f) == out' = [out EXCEPT ![e] = @ \o Cells(f)]

\* The header at the front of the buffer opens with the nonce of this end.
Opens(e) ==
    LET f == buf[e][1].f
    IN  /\ \A i \in 1 .. HeadCells : buf[e][i] = [f |-> f, i |-> i]
        /\ Encrypted => f.nonce = dec[e] /\ samekey

\* Fault: the tag of a body is not counted.
DecryptLenNoTag(e) == HeadCells + buf[e][1].f.len

\* expected_len, and decrypt_len once the event is complete.
DecryptLen(e) == HeadCells + BodyCells(buf[e][1].f.len, buf[e][1].f.plain)

\* Decrypt: more input is needed, the frame does not open, or an event.
Decrypt(e) ==
    IF Len(buf[e]) < HeadCells THEN "more"
    ELSE IF ~Opens(e) THEN "bad"
    ELSE IF Len(buf[e]) < DecryptLen(e) THEN "more"
    ELSE "event"

Reading(e) == phase[e] \in {"authwait", "wait", "up"}

\* The buffer holds no complete event: read on.
NeedMore(e) ==
    /\ Reading(e) /\ rd[e] = "try" /\ Decrypt(e) = "more"
    /\ rd' = [rd EXCEPT ![e] = "read"]
    /\ UNCHANGED <<role, samekey, phase, enc, dec, out, buf, sent, got>>

\* AsyncRead returns some cells of what has arrived, as many as fit.
Fill(e) ==
    /\ Reading(e) /\ rd[e] = "read"
    /\ \E k \in 1 .. Len(out[Peer(e)]) :
           /\ Len(buf[e]) + k <= BufCap
           /\ buf' = [buf EXCEPT ![e] = @ \o SubSeq(out[Peer(e)], 1, k)]
           /\ out' = [out EXCEPT ![Peer(e)] = SubSeq(@, k + 1, Len(@))]
    /\ rd' = [rd EXCEPT ![e] = "try"]
    /\ UNCHANGED <<role, samekey, phase, enc, dec, sent, got>>

\* Decrypt fails: ReadEvent returns its error and the connection is closed.
DecryptFails(e) ==
    /\ Reading(e) /\ rd[e] = "try" /\ Decrypt(e) = "bad"
    /\ phase' = [phase EXCEPT ![e] = "error"]
    /\ UNCHANGED <<role, samekey, enc, dec, out, buf, rd, sent, got>>

\* Fault: what follows the event in the buffer is lost.
TakeDropsRest(e) ==
    /\ Reading(e) /\ rd[e] = "try" /\ Decrypt(e) = "event"
    /\ buf' = [buf EXCEPT ![e] = <<>>]
    /\ UNCHANGED rd

\* Fault: the connection is read before the rest of the buffer is tried.
TakeReadsFirst(e) ==
    /\ Reading(e) /\ rd[e] = "try" /\ Decrypt(e) = "event"
    /\ buf' = [buf EXCEPT ![e] = SubSeq(@, DecryptLen(e) + 1, Len(@))]
    /\ rd' = [rd EXCEPT ![e] = "read"]

\* An event is taken from the buffer; the rest is kept for the next call.
Take(e) ==
    /\ Reading(e) /\ rd[e] = "try" /\ Decrypt(e) = "event"
    /\ buf' = [buf EXCEPT ![e] = SubSeq(@, DecryptLen(e) + 1, Len(@))]
    /\ UNCHANGED rd

\* The read fails because the other end, or the network, has closed.
ReadFails(e) ==
    /\ Reading(e) /\ rd[e] = "read"
    /\ phase' = [phase EXCEPT ![e] = "closed"]
    /\ UNCHANGED <<role, samekey, enc, dec, out, buf, rd, sent, got>>

-----------------------------------------------------------------------------
\* ClientAuth sends its request and waits for the answer.
ClientAuth ==
    /\ phase["client"] = "start"
    /\ Send("client", Frame("client", "req", 1, FALSE, 0))
    /\ enc' = [enc EXCEPT !["client"] = Next1(@)]
    /\ phase' = [phase EXCEPT !["client"] = "authwait"]
    /\ UNCHANGED <<role, samekey, dec, buf, rd, sent, got>>

\* The end has read a complete first event: it answers, or refuses.
Answer(accept, nonce) ==
    /\ phase["server"] = "wait"
    /\ Take("server")
    /\ IF accept
       THEN /\ Send("server", [Frame("server", "res", 1, FALSE, 0) EXCEPT !.nonce = nonce])
            /\ enc' = [enc EXCEPT !["server"] = Next1(nonce)]
            /\ phase' = [phase EXCEPT !["server"] = "answer"]
       ELSE phase' = [phase EXCEPT !["server"] = "refused"] /\ UNCHANGED <<out, enc>>
    /\ dec' = [dec EXCEPT !["server"] = Next1(@)]
    /\ UNCHANGED <<role, samekey, sent, got>>

\* Fault: the nonce is changed before the answer is written.
ServerAuthUpdatesFirst ==
    Answer(buf["server"][1].f.type = "req" /\ role = "good", NewIv)

\* ServerAuth reads a request: a role that does not suit is refused, else the
\* iv is chosen and sent under the default nonce.
ServerAuth ==
    Answer(buf["server"][1].f.type = "req" /\ role = "good", enc["server"])

\* The write of the answer has completed: UpdateNonce, then the read loop.
ServerUpdate ==
    /\ phase["server"] = "answer"
    /\ phase' = [phase EXCEPT !["server"] = "up"]
    /\ enc' = [enc EXCEPT !["server"] = NewIv]
    /\ dec' = [dec EXCEPT !["server"] = NewIv]
    /\ UNCHANGED <<role, samekey, out, buf, rd, sent, got>>

\* The write of the request or of the answer fails: the connection is given
\* up without a new nonce.
AuthWriteFails(e) ==
    /\ phase[e] \in {"start", "answer"}
    /\ phase' = [phase EXCEPT ![e] = "closed"]
    /\ UNCHANGED <<role, samekey, enc, dec, out, buf, rd, sent, got>>

\* The client reads the answer: UpdateNonce, then the read loop.
ClientUpdate ==
    /\ phase["client"] = "authwait"
    /\ Take("client")
    /\ buf["client"][1].f.type = "res"
    /\ phase' = [phase EXCEPT !["client"] = "up"]
    /\ enc' = [enc EXCEPT !["client"] = NewIv]
    /\ dec' = [dec EXCEPT !["client"] = NewIv]
    /\ UNCHANGED <<role, samekey, out, sent, got>>

-----------------------------------------------------------------------------
\* An end that is authenticated sends its next event.
SendEvent(e) ==
    /\ phase[e] = "up" /\ sent[e] < Events
    /\ \E len \in 0 .. MaxLen, plain \in BOOLEAN :
           Send(e, Frame(e, "event", len, plain, sent[e] + 1))
    /\ enc' = [enc EXCEPT ![e] = Next1(@)]
    /\ sent' = [sent EXCEPT ![e] = @ + 1]
    /\ UNCHANGED <<role, samekey, phase, dec, buf, rd, got>>

\* Its read loop handles an event.
HandleEvent(e) ==
    /\ phase[e] = "up"
    /\ Take(e)
    /\ got' = [got EXCEPT ![e] = Append(@, buf[e][1].f.v)]
    /\ dec' = [dec EXCEPT ![e] = Next1(@)]
    /\ UNCHANGED <<role, samekey, phase, enc, out, sent>>

Closed(e) == phase[e] \in {"closed", "refused", "error"}
Done == (\A e \in Ends : Closed(e)) /\ UNCHANGED vars

Read(e) == NeedMore(e) \/ Fill(e) \/ DecryptFails(e) \/ HandleEvent(e)
Auth == ClientAuth \/ ServerAuth \/ ServerUpdate \/ ClientUpdate
Next == \/ Auth \/ Done
        \/ \E e \in Ends : Read(e) \/ ReadFails(e) \/ SendEvent(e) \/ AuthWriteFails(e)

Spec == Init /\ [][Next]_vars

(***************************************************************************)
(* The io_context resumes what is ready and the stream delivers what was   *)
(* written.                                                                *)
(***************************************************************************)
FairSpec == Spec /\ WF_vars(Auth) /\ \A e \in Ends : WF_vars(Read(e))

-----------------------------------------------------------------------------
(***************************************************************************)
(* Properties.                                                             *)
(***************************************************************************)

\* The buffer begins with the first byte of a frame whenever ReadEvent looks
\* at it: Decrypt consumes exactly what Encrypt produced, however the stream
\* is cut.
WholeFrames == \A e \in Ends : buf[e] # <<>> => buf[e][1].i = 1

\* Ends with the same key never fail to open a frame, although they change
\* their nonces at different moments of the authentication.
NoDecryptError == samekey => \A e \in Ends : phase[e] # "error"

\* Where the frames of events begin in a sequence of cells.
Heads(cells) == {k \in 1 .. Len(cells) : cells[k].i = 1 /\ cells[k].f.type = "event"}

\* What one end has sent is what the other has handled, followed by what is
\* in its buffer and on the way: nothing lost, repeated or out of order.
AllAccounted ==
    \A e \in Ends :
        LET cells == buf[e] \o out[Peer(e)]
            n == Len(got[e])
        IN  /\ \A k \in 1 .. n : got[e][k] = k
            /\ n <= sent[Peer(e)]
            /\ {cells[k].f.v : k \in Heads(cells)} = (n + 1) .. sent[Peer(e)]
            /\ \A j, k \in Heads(cells) : j < k => cells[j].f.v < cells[k].f.v

\* Every event that was sent is handled, unless the reader is closed.
EventsArrive ==
    \A e \in Ends : \A n \in 1 .. Events :
        sent[Peer(e)] = n ~> (Len(got[e]) >= n \/ Closed(e))
=============================================================================
