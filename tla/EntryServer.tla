---------------------------- MODULE EntryServer ----------------------------
(***************************************************************************)
(* The entry server: it accepts local clients, tells SOCKS5, TLS and HTTP  *)
(* apart by the first bytes, shakes hands and starts a relay, on a node    *)
(* that may also be a redirect target or an exit.                          *)
(*                                                                         *)
(* TCP may cut what a client sends anywhere.  Clients are conforming: one  *)
(* sends its next flight only after the answer to the last.  The buffers   *)
(* come from the pool of the process, so a byte in memory is the           *)
(* connection and the position it came from, and a view of a buffer that   *)
(* was given back shows what the next owner reads into it.  Transfers are  *)
(* the matter of DirectRelay and MuxRelay: a relay is followed up to the   *)
(* moment it has written the bytes it was handed.                          *)
(***************************************************************************)
EXTENDS Sni, HttpHelper, FiniteSets

CONSTANTS
    Conns,      \* connections of clients
    Kinds,      \* the kinds of client a connection may be
    PoolMax     \* g_iobuf_max_pool_size

ASSUME PoolAssumption == PoolMax \in Nat
ASSUME ConnsAssumption == IsFiniteSet(Conns) /\ DOMAIN Kinds = Conns

-----------------------------------------------------------------------------
(***************************************************************************)
(* What clients send.  Name stands for a domain name, Addr for a byte of   *)
(* an address, the words GET and CON for themselves and the other methods. *)
(***************************************************************************)
Name == 101
Apple == 102        \* courier.push.apple.com, which is never relayed by name
Addr == 103
Host == 72          \* the word "Host:"
Colon == 58
NotANumber == 120
Get == <<71, 69, 84>>
Con == <<67, 79, 78>>

Ext(type, body) == <<0, type, 0, Len(body)>> \o body
ServerName(name) == Ext(0, <<0, 8, 1, 0, 1, 9, 0, 0, 1, name>>)
Hello(exts) ==
    LET body == <<ClientHello>> \o [i \in 1 .. FixedLen - 1 |-> 9] \o <<1, 9>>
                \o <<0, 2, 9, 9>> \o <<1, 0>> \o <<0, Len(exts)>> \o exts
    IN  <<HandshakeType, 3, 1, 0, Len(body)>> \o body

Request(target, port) == <<5, 1, 0>> \o target \o <<0, port>>
ByName == <<3, 1, Name>>
ByAddr == <<1>> \o [i \in 1 .. 4 |-> Addr]
ByAddr6 == <<4>> \o [i \in 1 .. 16 |-> Addr]
Greeting == <<5, 2, 1, 0>>
TheHello == Hello(Ext(7, <<9>>) \o ServerName(Name))
HttpHead(word, host, rest) == word \o <<Space, 47, Crlf, Host, Space>> \o host \o rest

\* Per kind of client: its flights, and the target it asks for.
Script ==
    [socks_name |-> [f |-> <<Greeting, Request(ByName, 90), <<65, 66>>>>, host |-> <<Name>>, port |-> 90],
     socks_tls  |-> [f |-> <<Greeting, Request(ByName, 90), TheHello>>, host |-> <<Name>>, port |-> 90],
     socks_ip   |-> [f |-> <<Greeting, Request(ByAddr, 90), TheHello>>, host |-> <<Name>>, port |-> 90],
     socks_ip6  |-> [f |-> <<Greeting, Request(ByAddr6, 90), <<65, 66>>>>, host |-> [i \in 1 .. 16 |-> Addr], port |-> 90],
     tls        |-> [f |-> <<TheHello>>, host |-> <<Name>>, port |-> 443],
     tls_nosni  |-> [f |-> <<Hello(Ext(7, <<9>>))>>, host |-> NoName, port |-> 443],
     tls_apple  |-> [f |-> <<Hello(ServerName(Apple))>>, host |-> <<Apple>>, port |-> 443],
     get        |-> [f |-> <<HttpHead(Get, <<Name>>, <<Crlf, 88, Crlf, Crlf, 66>>)>>, host |-> <<Name>>, port |-> 80],
     connect    |-> [f |-> <<HttpHead(Con, <<Name, Colon, 90>>, <<Crlf, 88, Crlf, Crlf>>), <<65, 66>>>>, host |-> <<Name>>, port |-> 90],
     badport    |-> [f |-> <<HttpHead(Con, <<Name, Colon, NotANumber>>, <<Crlf, 88, Crlf, Crlf>>)>>, host |-> <<Name>>, port |-> 0],
     hostlast   |-> [f |-> <<HttpHead(Get, <<Name>>, <<Crlf, Crlf>>)>>, host |-> <<Name>>, port |-> 80],
     socks4     |-> [f |-> <<<<4, 1, 0, 90, Addr>>>>, host |-> <<Addr>>, port |-> 90],
     ssl2       |-> [f |-> <<<<HandshakeType, 2, 1, 0>>>>, host |-> NoName, port |-> 443],
     other      |-> [f |-> <<<<83, 83, 72, 45>>>>, host |-> NoName, port |-> 0]]

ASSUME KindsAssumption == \A c \in Conns : Kinds[c] \subseteq DOMAIN Script

-----------------------------------------------------------------------------
VARIABLES
    node,       \* the flags redirect and exit of the node, whether a session is up
    listening,  \* of start_entry_server and server_loop
    kind,       \* the kind of each client
    st,         \* the handler of each connection
    mem,        \* the bytes in each buffer
    pool,       \* g_io_bufs
    fwd         \* what each relay has written of the bytes it was handed

vars == <<node, listening, kind, st, mem, pool, fwd>>

DstPort == 99   \* the port of the original destination of a redirected client
Buffers == 1 .. Cardinality(Conns)
NotYet == <<"not yet">>
Idle == [pc |-> "idle", dst |-> FALSE, buf |-> 0, own |-> FALSE, n |-> 0,
         at |-> 0, sent |-> 1, open |-> TRUE, moved |-> FALSE, trouble |-> FALSE,
         host |-> NoName, port |-> 0, ep |-> 0, direct |-> FALSE, user |-> FALSE]

Init ==
    /\ node \in [redirect : BOOLEAN, exit : BOOLEAN, session : BOOLEAN]
    /\ listening = "no"
    /\ kind \in {k \in [Conns -> DOMAIN Script] : \A c \in Conns : k[c] \in Kinds[c]}
    /\ st = [c \in Conns |-> Idle]
    /\ mem = [b \in Buffers |-> <<>>]
    /\ pool = <<>>
    /\ fwd = [c \in Conns |-> NotYet]

\* start_entry_server: bind or listen may fail.
Start ==
    /\ listening = "no"
    /\ listening' \in {"yes", "failed"}
    /\ UNCHANGED <<node, kind, st, mem, pool, fwd>>

\* server_loop: an error of accept ends the loop for good.
AcceptFails ==
    /\ listening = "yes"
    /\ listening' = "failed"
    /\ UNCHANGED <<node, kind, st, mem, pool, fwd>>

Over(s) == [s EXCEPT !.pc = "done", !.open = FALSE, !.own = FALSE]
Goes(c, s) == st' = [st EXCEPT ![c] = s]

-----------------------------------------------------------------------------
(***************************************************************************)
(* The pool.                                                               *)
(***************************************************************************)
Held == {st[c].buf : c \in {d \in Conns : st[d].own}}

\* get_iobuf: the top of the stack, or a new buffer.
GetIobuf ==
    IF pool # <<>> THEN pool[Len(pool)]
    ELSE CHOOSE b \in Buffers : b \notin Held

\* IOBufDeleter: back to the stack, or deleted when the stack is full.
GiveBack(b) == IF Len(pool) < PoolMax THEN Append(pool, b) ELSE pool

\* Fault: the buffer of a handler goes back even when it was moved away.
ReturnsMoved(c) == pool' = IF st[c].buf # 0 THEN GiveBack(st[c].buf) ELSE pool

\* The frame of a handler is destroyed: a buffer it owns goes back.
Returns(c) == pool' = IF st[c].own THEN GiveBack(st[c].buf) ELSE pool

-----------------------------------------------------------------------------
\* server_loop accepts: handle_conn takes a buffer and waits for bytes.  On a
\* redirect node there is a destination, unless it is unknown or private.
Accept(c) ==
    /\ listening = "yes" /\ st[c].pc = "idle"
    /\ \E dst \in {FALSE, node.redirect} :
           Goes(c, [Idle EXCEPT !.pc = "first", !.dst = dst, !.buf = GetIobuf, !.own = TRUE])
    /\ mem' = IF pool = <<>> THEN [mem EXCEPT ![GetIobuf] = <<>>] ELSE mem
    /\ pool' = IF pool = <<>> THEN pool ELSE SubSeq(pool, 1, Len(pool) - 1)
    /\ UNCHANGED <<node, listening, kind, fwd>>

-----------------------------------------------------------------------------
(***************************************************************************)
(* Reads.                                                                  *)
(***************************************************************************)
\* The bytes of flights; a client has at most three.
Joined(fs) ==
    LET flight(i) == IF i <= Len(fs) THEN fs[i] ELSE <<>>
    IN  flight(1) \o flight(2) \o flight(3)

Stream(c) == Joined(Script[kind[c]].f)
Arrived(c) == Len(Joined(SubSeq(Script[kind[c]].f, 1, st[c].sent)))

\* The buffer of c after k bytes were read to its front; the rest stays.
Filled(c, k) ==
    LET old == mem[st[c].buf]
    IN  [i \in 1 .. (IF Len(old) > k THEN Len(old) ELSE k) |->
             IF i <= k THEN <<c, st[c].at + i>> ELSE old[i]]

\* The values of bytes in memory, and of memory that was never written.
Value(m, i) == IF i <= Len(m) THEN Stream(m[i][1])[m[i][2]] ELSE 0
Values(m, k) == [i \in 1 .. k |-> Value(m, i)]

\* Any read may fail, the client having closed or reset its connection.
ReadFails(c) ==
    /\ st[c].pc \in {"first", "request", "hello"}
    /\ Returns(c)
    /\ Goes(c, [Over(st[c]) EXCEPT !.trouble = TRUE])
    /\ UNCHANGED <<node, listening, kind, mem, fwd>>

-----------------------------------------------------------------------------
(***************************************************************************)
(* The handlers, as functions from the state s of a connection, the memory *)
(* m behind its buffer and the values v just read to its next state.       *)
(***************************************************************************)
\* Fault: the buffer goes back to the pool before the relay has used it.
RelaysReleased(s, host, port) ==
    [s EXCEPT !.pc = "relay", !.host = host, !.port = port, !.own = FALSE]

\* A relay is started with what is read; the handler's frame keeps the buffer.
Relays(s, host, port) == [s EXCEPT !.pc = "relay", !.host = host, !.port = port]
ForUser(s) == [s EXCEPT !.user = TRUE]

\* handle_tls_connection relays by server name.  When it refuses, its frame
\* has taken the socket and the buffer with it, and the caller falls back.
Refused(s) == [s EXCEPT !.own = FALSE, !.open = FALSE, !.moved = TRUE]
HandleTls(s, v, port, fallback) ==
    IF ParseSni(v) \in {NoName, <<Apple>>} THEN fallback
    ELSE ForUser(Relays(s, ParseSni(v), IF port # 0 THEN port ELSE 443))

\* read_until: where the empty line after the head of a message is; 0 if it has
\* not been read.
HeadEnd(v) ==
    LET at == {i \in 1 .. Len(v) - 1 : v[i] = Crlf /\ v[i + 1] = Crlf}
    IN  IF at = {} THEN 0 ELSE CHOOSE i \in at : \A j \in at : i <= j

\* handle_http_connection.  A head that is not complete is read on from the
\* socket that was moved away, which fails.  A CONNECT is answered and
\* nothing that was read is handed on.
HandleHttp(s, v) ==
    LET end == HeadEnd(v)
        head == SubSeq(v, 1, end - 1)
        value == HttpGetHeader(head, Host)
        colon == Find(value, Colon, 1)
        host == IF colon = 0 THEN value ELSE SubSeq(value, 1, colon - 1)
        port == IF colon = 0 THEN 0 ELSE value[colon + 1]
        connect == SubSeq(v, 1, Find(v, Space, 1) - 1) = Con
    IN  IF end = 0 \/ value = NotFound \/ port = NotANumber THEN Over(s)
        ELSE IF connect
        THEN [Relays(s, host, IF port = 0 THEN 443 ELSE port) EXCEPT !.n = 0, !.sent = 2]
        ELSE Relays(s, host, IF port = 0 THEN 80 ELSE port)

\* handle_socks5_connection looks for NoAuth in as many bytes as the client
\* announced, in memory, whether they were read or not.
HandleGreeting(s, m, v) ==
    IF \E i \in 3 .. 2 + v[2] : Value(m, i) = 0
    THEN [s EXCEPT !.pc = "request", !.sent = 2]
    ELSE Over(s)

\* handle_conn tells the protocols apart by the first read.
Dispatch(s, m, v) ==
    LET direct(r) == [Relays(r, <<Addr>>, DstPort) EXCEPT !.direct = TRUE]
    IN  IF s.n < 3 THEN Over(s)
        ELSE CASE v[1] = 5 /\ ~s.dst -> HandleGreeting(s, m, v)
               [] v[1] = 4 /\ ~s.dst -> Over(s)
               [] v[1] = HandshakeType ->
                      IF v[2] < 3 THEN Over(s)
                      ELSE HandleTls(s, v, IF s.dst THEN DstPort ELSE 0,
                                     IF s.dst THEN direct(Refused(s)) ELSE Over(Refused(s)))
               [] SubSeq(v, 1, 3) \in {Get, Con} -> HandleHttp(s, v)
               [] OTHER -> IF s.dst THEN direct(s) ELSE Over(s)

\* Fault: the length of the request is not looked at.
RequestLenAny(s, m) == s.n

\* The length a SOCKS5 request must have; 0 for an unknown type of address.
RequestLen(s, m) ==
    CASE Value(m, 4) = 1 -> 10
      [] Value(m, 4) = 4 -> 22
      [] Value(m, 4) = 3 -> 7 + Value(m, 5)
      [] OTHER -> 0

\* The request names the target; it is answered and the first data awaited.
HandleRequest(s, m, v) ==
    IF s.n < 4 \/ Value(m, 1) # 5 \/ Value(m, 2) # 1 \/ s.n # RequestLen(s, m) THEN Over(s)
    ELSE [s EXCEPT !.pc = "hello", !.sent = 3,
                   !.host = SubSeq(v, IF v[4] = 3 THEN 6 ELSE 5, s.n - 2),
                   !.port = 256 * v[s.n - 1] + v[s.n],
                   !.ep = IF v[4] = 3 THEN 0 ELSE 256 * v[s.n - 1] + v[s.n]]

\* The first data: TLS is relayed by server name, the rest to the target.
HandleFirstData(s, m, v) ==
    LET asked(r) == ForUser(Relays(r, s.host, s.port))
    IN  IF s.n <= 3 \/ v[1] # HandshakeType THEN asked(s)
        ELSE IF v[2] < 3 THEN Over(s)
        ELSE HandleTls(s, v, s.ep, asked(Refused(s)))

Handle(s, m, v) ==
    CASE s.pc = "first" -> Dispatch(s, m, v)
      [] s.pc = "request" -> HandleRequest(s, m, v)
      [] s.pc = "hello" -> HandleFirstData(s, m, v)

\* A read returns k bytes: the handler goes on with m in its buffer.  It goes
\* on owning the buffer, or is over, or keeps a view of it only.
Reads(c) ==
    /\ \E k \in 1 .. Arrived(c) - st[c].at :
           LET m == Filled(c, k)
               s == [st[c] EXCEPT !.at = @ + k, !.n = k,
                                  !.trouble = @ \/ st[c].at + k < Arrived(c)]
               t == Handle(s, m, Values(m, k))
           IN  /\ Goes(c, t)
               /\ mem' = [mem EXCEPT ![s.buf] = m]
               /\ pool' = IF t.own THEN pool ELSE GiveBack(s.buf)
    /\ UNCHANGED <<node, listening, kind, fwd>>

FirstRead(c) == st[c].pc = "first" /\ Reads(c)
RequestRead(c) == st[c].pc = "request" /\ Reads(c)
DataRead(c) == st[c].pc = "hello" /\ Reads(c)

-----------------------------------------------------------------------------
(***************************************************************************)
(* The relay, do_relay, to the point where the first bytes are written.    *)
(***************************************************************************)
Direct(c) == node.exit \/ st[c].direct

\* GetRelayEventWriterFactory finds a session of the user of the context.
HasFactory(c) == st[c].user /\ node.session

\* The relay returns without writing: no session, or no connection.
RelayFails(c) ==
    /\ st[c].pc = "relay"
    /\ Direct(c) \/ ~HasFactory(c)
    /\ Returns(c)
    /\ Goes(c, [Over(st[c]) EXCEPT !.trouble = @ \/ Direct(c) \/ ~node.session])
    /\ UNCHANGED <<node, listening, kind, mem, fwd>>

\* The connect, or the write of STREAM_OPEN, has completed: the bytes handed
\* over are written as they are in memory now.
Forward(c) ==
    /\ st[c].pc = "relay"
    /\ Direct(c) \/ HasFactory(c)
    /\ fwd' = [fwd EXCEPT ![c] = SubSeq(mem[st[c].buf], 1, st[c].n)]
    /\ Goes(c, [st[c] EXCEPT !.pc = "pump"])
    /\ UNCHANGED <<node, listening, kind, mem, pool>>

\* The transfers end and the frames of the handlers go.
RelayEnds(c) ==
    /\ st[c].pc = "pump"
    /\ Returns(c)
    /\ Goes(c, Over(st[c]))
    /\ UNCHANGED <<node, listening, kind, mem, fwd>>

Done ==
    /\ \A c \in Conns : st[c].pc = "done" \/ (st[c].pc = "idle" /\ listening = "failed")
    /\ UNCHANGED vars

Next ==
    \/ Start \/ AcceptFails \/ Done
    \/ \E c \in Conns : \/ Accept(c) \/ FirstRead(c) \/ RequestRead(c) \/ DataRead(c)
                        \/ ReadFails(c) \/ RelayFails(c) \/ Forward(c) \/ RelayEnds(c)

Spec == Init /\ [][Next]_vars

-----------------------------------------------------------------------------
(***************************************************************************)
(* Properties.                                                             *)
(***************************************************************************)

\* Bytes of the handshake, which the proxy answers and does not relay.
Handshake(c) ==
    CASE kind[c] \in {"socks_name", "socks_tls", "socks_ip", "socks_ip6"} /\ ~st[c].dst ->
             Len(Joined(SubSeq(Script[kind[c]].f, 1, 2)))
      [] kind[c] = "connect" -> Len(Script[kind[c]].f[1])
      [] OTHER -> 0

\* However TCP cuts the stream of a client, its relay writes exactly the
\* client's own bytes that follow the handshake and were read, none lost,
\* none twice and none of another connection - unless the relay is the
\* fallback after a refused ClientHello, which has only a view of a buffer
\* that is back in the pool.
RelaysOwnBytes ==
    \A c \in Conns : fwd[c] # NotYet /\ ~st[c].moved =>
        fwd[c] = [i \in 1 .. st[c].at - Handshake(c) |-> <<c, Handshake(c) + i>>]

\* A relay goes to the host and port the client asked for: of the SOCKS5
\* request, of the Host header, or the server name at the port of the
\* redirected destination.  One exception is the code's: TLS to a domain
\* name over SOCKS5 goes to port 443 whatever port the request named.
TargetRequested ==
    \A c \in Conns : st[c].pc \in {"relay", "pump"} =>
        LET want == Script[kind[c]]
            got == <<st[c].host, st[c].port>>
        IN  CASE st[c].direct -> st[c].dst /\ got = <<<<Addr>>, DstPort>>
              [] kind[c] = "tls" /\ st[c].dst -> got = <<want.host, DstPort>>
              [] kind[c] = "socks_tls" -> got \in {<<want.host, 90>>, <<want.host, 443>>}
              [] kind[c] = "socks_ip" -> got \in {<<want.host, 90>>, <<[i \in 1 .. 4 |-> Addr], 90>>}
              [] OTHER -> got = <<want.host, want.port>>

\* Clients this node serves: HTTP only where it relays directly, since the
\* HTTP handler names no user to find a session by; a Host header only when
\* another header follows it.
Supported(c) ==
    \/ kind[c] \in {"socks_name", "socks_tls", "socks_ip", "socks_ip6"} /\ ~st[c].dst
    \/ kind[c] \in {"get", "connect"} /\ node.exit
    \/ kind[c] = "tls"
    \/ kind[c] = "other" /\ st[c].dst

\* A supported client whose flights are each read whole, while the network
\* and the session are up, is never turned away.
WholeIsServed ==
    \A c \in Conns : st[c].pc = "done" /\ ~st[c].trouble /\ Supported(c) => fwd[c] # NotYet

\* A buffer of the pool has one owner: a handler, or the pool, and the pool
\* keeps to its limit.  A buffer moved into a handler is not given back a
\* second time by the handler it was moved from.
BuffersExact ==
    /\ \A c, d \in Conns : st[c].own /\ st[d].own /\ st[c].buf = st[d].buf => c = d
    /\ \A i, j \in 1 .. Len(pool) : pool[i] = pool[j] => i = j
    /\ \A i \in 1 .. Len(pool) : pool[i] \notin Held
    /\ Len(pool) <= PoolMax
=============================================================================
