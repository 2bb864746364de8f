------------------------- MODULE EntryServerProofs -------------------------
(***************************************************************************)
(* Theorems about the entry server: a buffer of the pool has one owner,    *)
(* and a relay writes the bytes of its own client that follow the          *)
(* handshake, for any number of connections and any cut of their bytes.    *)
(***************************************************************************)
EXTENDS EntryServer, TLAPS, FiniteSetTheorems, SequenceTheorems

Fields == {"pc", "dst", "buf", "own", "n", "at", "sent", "open", "moved",
           "trouble", "host", "port", "ep", "direct", "user"}
Reading == {"first", "request", "hello"}
Relaying == {"relay", "pump"}
Pcs == {"idle", "done"} \cup Reading \cup Relaying

-----------------------------------------------------------------------------
(***************************************************************************)
(* What the steps of a handler leave as it was.                            *)
(***************************************************************************)

\* The buffer, the position in the stream and the destination stay.
Stays(s, t) ==
    /\ DOMAIN t = Fields
    /\ t.buf = s.buf
    /\ t.at = s.at
    /\ t.dst = s.dst

\* The handler is over and has given the buffer up.
Ended(s, t) ==
    /\ Stays(s, t)
    /\ t.pc = "done"
    /\ t.own = FALSE
    /\ t.moved = s.moved

\* A relay is started that has the buffer of the handler, or only a view.
Relayed(s, t) ==
    /\ Stays(s, t)
    /\ t.pc = "relay"
    /\ t.n = s.n
    /\ t.own = s.own
    /\ t.moved = s.moved

\* The handler of the server name took the socket and the buffer with it.
Lost(s, t) ==
    /\ Stays(s, t)
    /\ t.pc = s.pc
    /\ t.n = s.n
    /\ t.own = FALSE
    /\ t.moved = TRUE

\* An ended handler keeps its place in the stream.
LEMMA OverEnds ==
    ASSUME NEW s, DOMAIN s = Fields
    PROVE  Ended(s, Over(s))
BY DEF Over, Ended, Stays, Fields

LEMMA RelaysRelayed ==
    ASSUME NEW s, NEW host, NEW port, DOMAIN s = Fields
    PROVE  Relayed(s, Relays(s, host, port))
BY DEF Relays, Relayed, Stays, Fields

LEMMA ForUserRelayed ==
    ASSUME NEW s, NEW t, Relayed(s, t)
    PROVE  Relayed(s, ForUser(t))
BY DEF ForUser, Relayed, Stays, Fields

LEMMA RefusedLost ==
    ASSUME NEW s, DOMAIN s = Fields
    PROVE  Lost(s, Refused(s))
BY DEF Refused, Lost, Stays, Fields

\* The relay has only a view of the buffer, which is back in the pool.
Viewing(s, t) ==
    /\ Stays(s, t)
    /\ t.pc = "relay"
    /\ t.own = FALSE
    /\ t.moved = TRUE

\* The handler is over; it may have lost the buffer before.
Gone(s, t) ==
    /\ Stays(s, t)
    /\ t.pc = "done"
    /\ t.own = FALSE
    /\ t.moved \in {TRUE, s.moved}

\* A CONNECT was answered: the relay is handed nothing.
Answered(s, t) ==
    /\ Stays(s, t)
    /\ t.pc = "relay"
    /\ t.n = 0
    /\ t.own = s.own
    /\ t.moved = s.moved

\* The parts of HandleHttp.
HostValue(v) == HttpGetHeader(SubSeq(v, 1, HeadEnd(v) - 1), Host)
HostPort(v) ==
    LET colon == Find(HostValue(v), Colon, 1)
    IN  IF colon = 0 THEN 0 ELSE HostValue(v)[colon + 1]
Connects(v) == SubSeq(v, 1, Find(v, Space, 1) - 1) = Con

LEMMA EndedGone ==
    ASSUME NEW s, NEW t, Ended(s, t)
    PROVE  Gone(s, t)
BY DEF Ended, Gone

LEMMA LostGone ==
    ASSUME NEW s, NEW t, Lost(s, t)
    PROVE  Gone(s, Over(t))
BY DEF Lost, Gone, Over, Stays, Fields

LEMMA LostViewing ==
    ASSUME NEW s, NEW t, NEW u, Lost(s, t), Relayed(t, u)
    PROVE  Viewing(s, u)
BY DEF Lost, Relayed, Viewing, Stays

\* handle_http_connection: over, or answered, or a relay of what was read.
LEMMA HttpOutcome ==
    ASSUME NEW s, NEW v, DOMAIN s = Fields
    PROVE  \/ Gone(s, HandleHttp(s, v))
           \/ /\ Answered(s, HandleHttp(s, v))
              /\ HeadEnd(v) # 0 /\ HostPort(v) # NotANumber /\ Connects(v)
           \/ /\ Relayed(s, HandleHttp(s, v))
              /\ HeadEnd(v) # 0 /\ ~Connects(v)
<1> DEFINE end == HeadEnd(v)
           head == SubSeq(v, 1, end - 1)
           value == HttpGetHeader(head, Host)
           colon == Find(value, Colon, 1)
           host == IF colon = 0 THEN value ELSE SubSeq(value, 1, colon - 1)
           port == IF colon = 0 THEN 0 ELSE value[colon + 1]
           connect == SubSeq(v, 1, Find(v, Space, 1) - 1) = Con
           h443 == IF port = 0 THEN 443 ELSE port
           h80 == IF port = 0 THEN 80 ELSE port
<1>1. HandleHttp(s, v) =
          IF end = 0 \/ value = NotFound \/ port = NotANumber THEN Over(s)
          ELSE IF connect
          THEN [Relays(s, host, h443) EXCEPT !.n = 0, !.sent = 2]
          ELSE Relays(s, host, h80)
  BY Zenon DEF HandleHttp
<1>2. port = HostPort(v) /\ connect = Connects(v)
  BY Zenon DEF HostPort, HostValue, Connects
<1> HIDE DEF end, head, value, colon, host, port, connect, h443, h80
<1>3. CASE end = 0 \/ value = NotFound \/ port = NotANumber
  BY <1>1, <1>3, OverEnds, EndedGone, Zenon
<1>4. CASE ~(end = 0 \/ value = NotFound \/ port = NotANumber) /\ connect
  <2>1. HandleHttp(s, v) = [Relays(s, host, h443) EXCEPT !.n = 0, !.sent = 2]
    BY <1>1, <1>4, Zenon
  <2>2. Relayed(s, Relays(s, host, h443))
    BY RelaysRelayed
  <2>3. Answered(s, HandleHttp(s, v))
    BY <2>1, <2>2 DEF Answered, Relayed, Stays, Fields
  <2> QED
    BY <2>3, <1>2, <1>4, Zenon DEF end
<1>5. CASE ~(end = 0 \/ value = NotFound \/ port = NotANumber) /\ ~connect
  <2>1. HandleHttp(s, v) = Relays(s, host, h80)
    BY <1>1, <1>5, Zenon
  <2>2. Relayed(s, HandleHttp(s, v))
    BY <2>1, RelaysRelayed
  <2> QED
    BY <2>2, <1>2, <1>5, Zenon DEF end
<1> QED
  BY <1>3, <1>4, <1>5, Zenon

\* handle_tls_connection: a relay of what was read, or the fallback.
LEMMA TlsOutcome ==
    ASSUME NEW s, NEW v, NEW port, NEW fallback, DOMAIN s = Fields
    PROVE  \/ HandleTls(s, v, port, fallback) = fallback
           \/ Relayed(s, HandleTls(s, v, port, fallback))
<1>1. CASE ParseSni(v) \in {NoName, <<Apple>>}
  BY <1>1, Zenon DEF HandleTls
<1>2. CASE ~(ParseSni(v) \in {NoName, <<Apple>>})
  <2> DEFINE p == IF port # 0 THEN port ELSE 443
  <2>1. HandleTls(s, v, port, fallback) = ForUser(Relays(s, ParseSni(v), p))
    BY <1>2, Zenon DEF HandleTls
  <2> HIDE DEF p
  <2> QED
    BY <2>1, RelaysRelayed, ForUserRelayed, Zenon
<1> QED
  BY <1>1, <1>2, Zenon

\* A SOCKS5 greeting was answered.
Greeted(s, t) ==
    /\ Stays(s, t)
    /\ t.pc = "request"
    /\ t.sent = 2
    /\ t.own = s.own
    /\ t.moved = s.moved

\* A SOCKS5 request was answered.
Admitted(s, t) ==
    /\ Stays(s, t)
    /\ t.pc = "hello"
    /\ t.sent = 3
    /\ t.own = s.own
    /\ t.moved = s.moved

\* handle_conn after its first read.  A client that greets is not relayed on
\* the spot, and neither are the bytes of a CONNECT.
DispatchedAs(s, v, t) ==
    \/ Gone(s, t)
    \/ Viewing(s, t)
    \/ Greeted(s, t) /\ s.n >= 3 /\ v[1] = 5 /\ ~s.dst
    \/ /\ Answered(s, t) /\ s.n >= 3 /\ SubSeq(v, 1, 3) \in {Get, Con}
       /\ HeadEnd(v) # 0 /\ HostPort(v) # NotANumber /\ Connects(v)
    \/ /\ Relayed(s, t) /\ s.n >= 3
       /\ v[1] # 5 \/ s.dst
       /\ \/ SubSeq(v, 1, 3) \notin {Get, Con}
          \/ v[1] = HandshakeType
          \/ HeadEnd(v) # 0 /\ ~Connects(v)

LEMMA GreetingOutcome ==
    ASSUME NEW s, NEW m, NEW v, DOMAIN s = Fields
    PROVE  Gone(s, HandleGreeting(s, m, v)) \/ Greeted(s, HandleGreeting(s, m, v))
<1>1. CASE \E i \in 3 .. 2 + v[2] : Value(m, i) = 0
  <2>1. HandleGreeting(s, m, v) = [s EXCEPT !.pc = "request", !.sent = 2]
    BY <1>1, Zenon DEF HandleGreeting
  <2> QED
    BY <2>1 DEF Greeted, Stays, Fields
<1>2. CASE ~(\E i \in 3 .. 2 + v[2] : Value(m, i) = 0)
  <2>1. HandleGreeting(s, m, v) = Over(s)
    BY <1>2, Zenon DEF HandleGreeting
  <2> QED
    BY <2>1, OverEnds, EndedGone, Zenon
<1> QED
  BY <1>1, <1>2, Zenon

\* Three bytes at the front of what was read.
LEMMA FrontBytes ==
    ASSUME NEW v \in Seq(Nat), Len(v) >= 3
    PROVE  /\ SubSeq(v, 1, 3) = Get => v[1] = 71
           /\ SubSeq(v, 1, 3) = Con => v[1] = 67
<1>1. SubSeq(v, 1, 3)[1] = v[1]
  OBVIOUS
<1>2. Get[1] = 71 /\ Con[1] = 67
  BY DEF Get, Con
<1> QED
  BY <1>1, <1>2

LEMMA DispatchOutcome ==
    ASSUME NEW s, NEW m, NEW v \in Seq(Nat), DOMAIN s = Fields, Len(v) = s.n
    PROVE  DispatchedAs(s, v, Dispatch(s, m, v))
<1> DEFINE direct(r) == [Relays(r, <<Addr>>, DstPort) EXCEPT !.direct = TRUE]
           port == IF s.dst THEN DstPort ELSE 0
           fall == IF s.dst THEN direct(Refused(s)) ELSE Over(Refused(s))
           greet == v[1] = 5 /\ ~s.dst
           four == v[1] = 4 /\ ~s.dst
           tls == v[1] = HandshakeType
           http == SubSeq(v, 1, 3) \in {Get, Con}
           t == Dispatch(s, m, v)
<1>1. t = IF s.n < 3 THEN Over(s)
          ELSE CASE greet -> HandleGreeting(s, m, v)
                 [] four -> Over(s)
                 [] tls -> IF v[2] < 3 THEN Over(s) ELSE HandleTls(s, v, port, fall)
                 [] http -> HandleHttp(s, v)
                 [] OTHER -> IF s.dst THEN direct(s) ELSE Over(s)
  BY Zenon DEF Dispatch
<1>2. Gone(s, Over(s))
  BY OverEnds, EndedGone
<1>3. \A r : DOMAIN r = Fields => Relayed(r, direct(r))
  <2> SUFFICES ASSUME NEW r, DOMAIN r = Fields PROVE Relayed(r, direct(r))
    OBVIOUS
  <2>1. Relayed(r, Relays(r, <<Addr>>, DstPort))
    BY RelaysRelayed
  <2> QED
    BY <2>1 DEF Relayed, Stays, Fields
<1>4. Gone(s, fall) \/ Viewing(s, fall)
  <2>1. Lost(s, Refused(s)) /\ DOMAIN Refused(s) = Fields
    BY RefusedLost, Zenon DEF Lost, Stays
  <2>2. Gone(s, Over(Refused(s)))
    BY <2>1, LostGone, Zenon
  <2>3. Viewing(s, direct(Refused(s)))
    <3> HIDE DEF direct
    <3> QED BY <2>1, <1>3, LostViewing, Zenon
  <2> HIDE DEF direct
  <2> QED
    BY <2>2, <2>3, Zenon
<1>5. Relayed(s, direct(s))
  <2> HIDE DEF direct
  <2> QED BY <1>3, Zenon
<1> HIDE DEF direct, port, fall, greet, four, tls, http, t
<1>6. CASE s.n < 3
  <2>1. t = Over(s)
    BY <1>1, <1>6, Zenon
  <2> QED
    BY <1>2, <2>1, Zenon DEF DispatchedAs, t
<1>7. CASE ~(s.n < 3)
  <2>1. s.n >= 3
    BY <1>7
  <2>2. \/ greet /\ t = HandleGreeting(s, m, v)
        \/ four /\ t = Over(s)
        \/ tls /\ t = IF v[2] < 3 THEN Over(s) ELSE HandleTls(s, v, port, fall)
        \/ http /\ t = HandleHttp(s, v)
        \/ ~greet /\ ~four /\ ~tls /\ ~http /\ t = IF s.dst THEN direct(s) ELSE Over(s)
    BY <1>1, <1>7
  <2>3. CASE greet /\ t = HandleGreeting(s, m, v)
    <3>1. Gone(s, t) \/ Greeted(s, t)
      BY <2>3, GreetingOutcome, Zenon
    <3> QED
      BY <2>1, <2>3, <3>1, Zenon DEF DispatchedAs, greet, t
  <2>4. CASE four /\ t = Over(s)
    BY <1>2, <2>4, Zenon DEF DispatchedAs, t
  <2>5. CASE tls /\ t = IF v[2] < 3 THEN Over(s) ELSE HandleTls(s, v, port, fall)
    <3>1. t = Over(s) \/ t = HandleTls(s, v, port, fall)
      BY <2>5, Zenon
    <3>2. Gone(s, t) \/ Viewing(s, t) \/ Relayed(s, t)
      BY <3>1, <1>2, <1>4, TlsOutcome, Zenon
    <3>3. v[1] = HandshakeType /\ v[1] # 5
      BY <2>5 DEF tls, HandshakeType
    <3> QED
      BY <2>1, <3>2, <3>3, Zenon DEF DispatchedAs, t
  <2>6. CASE http /\ t = HandleHttp(s, v)
    <3>1. v[1] # 5
      BY <2>1, <2>6, FrontBytes DEF http
    <3>2. \/ Gone(s, t)
          \/ Answered(s, t) /\ HeadEnd(v) # 0 /\ HostPort(v) # NotANumber /\ Connects(v)
          \/ Relayed(s, t) /\ HeadEnd(v) # 0 /\ ~Connects(v)
      BY <2>6, HttpOutcome, Zenon
    <3> QED
      BY <2>1, <2>6, <3>1, <3>2, Zenon DEF DispatchedAs, t, http
  <2>7. CASE ~greet /\ ~four /\ ~tls /\ ~http /\ t = IF s.dst THEN direct(s) ELSE Over(s)
    <3>1. Gone(s, t) \/ Relayed(s, t)
      BY <2>7, <1>2, <1>5, Zenon
    <3> QED
      BY <2>1, <2>7, <3>1, Zenon DEF DispatchedAs, t, greet, http
  <2> QED
    BY <2>2, <2>3, <2>4, <2>5, <2>6, <2>7, Zenon
<1> QED
  BY <1>6, <1>7, Zenon

\* The SOCKS5 request is accepted only at its whole length.
LEMMA RequestOutcome ==
    ASSUME NEW s, NEW m, NEW v, DOMAIN s = Fields
    PROVE  \/ Gone(s, HandleRequest(s, m, v))
           \/ /\ Admitted(s, HandleRequest(s, m, v))
              /\ ~(s.n < 4) /\ Value(m, 1) = 5 /\ s.n = RequestLen(s, m)
<1> DEFINE bad == s.n < 4 \/ Value(m, 1) # 5 \/ Value(m, 2) # 1 \/ s.n # RequestLen(s, m)
           host == SubSeq(v, IF v[4] = 3 THEN 6 ELSE 5, s.n - 2)
           port == 256 * v[s.n - 1] + v[s.n]
           ep == IF v[4] = 3 THEN 0 ELSE 256 * v[s.n - 1] + v[s.n]
<1>1. HandleRequest(s, m, v) =
          IF bad THEN Over(s)
          ELSE [s EXCEPT !.pc = "hello", !.sent = 3, !.host = host, !.port = port, !.ep = ep]
  BY Zenon DEF HandleRequest
<1> HIDE DEF bad, host, port, ep
<1>2. CASE bad
  BY <1>1, <1>2, OverEnds, EndedGone, Zenon
<1>3. CASE ~bad
  <2>1. HandleRequest(s, m, v) =
            [s EXCEPT !.pc = "hello", !.sent = 3, !.host = host, !.port = port, !.ep = ep]
    BY <1>1, <1>3, Zenon
  <2>2. Admitted(s, HandleRequest(s, m, v))
    BY <2>1 DEF Admitted, Stays, Fields
  <2> QED
    BY <1>3, <2>2, Zenon DEF bad
<1> QED
  BY <1>2, <1>3, Zenon

\* The first data after a SOCKS5 handshake.
LEMMA FirstDataOutcome ==
    ASSUME NEW s, NEW m, NEW v, DOMAIN s = Fields
    PROVE  LET t == HandleFirstData(s, m, v)
           IN  Gone(s, t) \/ Viewing(s, t) \/ Relayed(s, t)
<1> DEFINE asked(r) == ForUser(Relays(r, s.host, s.port))
           t == HandleFirstData(s, m, v)
<1>1. \/ t = asked(s) \/ t = Over(s)
      \/ t = HandleTls(s, v, s.ep, asked(Refused(s)))
  BY Zenon DEF HandleFirstData
<1>2. \A r : DOMAIN r = Fields => Relayed(r, asked(r))
  BY RelaysRelayed, ForUserRelayed, Zenon
<1> HIDE DEF asked, t
<1>3. Lost(s, Refused(s)) /\ DOMAIN Refused(s) = Fields
  BY RefusedLost, Zenon DEF Lost, Stays
<1>4. Viewing(s, asked(Refused(s)))
  BY <1>2, <1>3, LostViewing, Zenon
<1>5. Gone(s, Over(s))
  BY OverEnds, EndedGone, Zenon
<1>6. Gone(s, t) \/ Viewing(s, t) \/ Relayed(s, t)
  BY <1>1, <1>2, <1>4, <1>5, TlsOutcome, Zenon
<1> QED
  BY <1>6, Zenon DEF t

-----------------------------------------------------------------------------
(***************************************************************************)
(* The scripts of the clients: what they send, and which bytes tell one    *)
(* protocol from another.                                                  *)
(***************************************************************************)
Socks == {"socks_name", "socks_tls", "socks_ip", "socks_ip6"}
Others == {"tls", "tls_nosni", "tls_apple", "get", "hostlast", "socks4", "ssl2", "other"}

LEMMA AllKinds == DOMAIN Script = Socks \cup Others \cup {"connect", "badport"}
BY DEF Script, Socks, Others

LEMMA SocksScripts ==
    /\ Script["socks_name"].f = <<Greeting, Request(ByName, 90), <<65, 66>>>>
    /\ Script["socks_tls"].f = <<Greeting, Request(ByName, 90), TheHello>>
    /\ Script["socks_ip"].f = <<Greeting, Request(ByAddr, 90), TheHello>>
    /\ Script["socks_ip6"].f = <<Greeting, Request(ByAddr6, 90), <<65, 66>>>>
BY DEF Script

LEMMA TlsScripts ==
    /\ Script["tls"].f = <<TheHello>>
    /\ Script["tls_nosni"].f = <<Hello(Ext(7, <<9>>))>>
    /\ Script["tls_apple"].f = <<Hello(ServerName(Apple))>>
BY DEF Script

LEMMA HttpScripts ==
    /\ Script["get"].f = <<HttpHead(Get, <<Name>>, <<Crlf, 88, Crlf, Crlf, 66>>)>>
    /\ Script["connect"].f =
           <<HttpHead(Con, <<Name, Colon, 90>>, <<Crlf, 88, Crlf, Crlf>>), <<65, 66>>>>
    /\ Script["badport"].f =
           <<HttpHead(Con, <<Name, Colon, NotANumber>>, <<Crlf, 88, Crlf, Crlf>>)>>
    /\ Script["hostlast"].f = <<HttpHead(Get, <<Name>>, <<Crlf, Crlf>>)>>
BY DEF Script

LEMMA ShortScripts ==
    /\ Script["socks4"].f = <<<<4, 1, 0, 90, Addr>>>>
    /\ Script["ssl2"].f = <<<<HandshakeType, 2, 1, 0>>>>
    /\ Script["other"].f = <<<<83, 83, 72, 45>>>>
BY DEF Script

\* One, two and three flights.
LEMMA JoinedFlights ==
    ASSUME NEW a \in Seq(Nat), NEW b \in Seq(Nat), NEW c \in Seq(Nat)
    PROVE  /\ Joined(<<a>>) = a
           /\ Joined(<<a, b>>) = a \o b
           /\ Joined(<<a, b, c>>) = (a \o b) \o c
<1>1. Joined(<<a>>) = (a \o <<>>) \o <<>>
  BY DEF Joined
<1>2. Joined(<<a, b>>) = (a \o b) \o <<>>
  BY DEF Joined
<1>3. Joined(<<a, b, c>>) = (a \o b) \o c
  BY DEF Joined
<1>4. a \o b \in Seq(Nat) /\ a \o <<>> = a /\ (a \o b) \o <<>> = a \o b
  OBVIOUS
<1> QED
  BY <1>1, <1>2, <1>3, <1>4, Zenon

\* The front of a sequence.
LEMMA Prefix ==
    ASSUME NEW S, NEW x \in Seq(S), NEW n \in Nat, n <= Len(x)
    PROVE  /\ SubSeq(x, 1, n) \in Seq(S)
           /\ Len(SubSeq(x, 1, n)) = n
           /\ \A i \in 1 .. n : SubSeq(x, 1, n)[i] = x[i]
<1>1. \A i \in 1 .. n : x[i] \in S
  OBVIOUS
<1>2. /\ SubSeq(x, 1, n) \in Seq(S)
      /\ Len(SubSeq(x, 1, n)) = IF 1 <= n THEN n - 1 + 1 ELSE 0
      /\ \A i \in 1 .. n - 1 + 1 : SubSeq(x, 1, n)[i] = x[1 + i - 1]
  BY <1>1, SubSeqProperties
<1>3. Len(SubSeq(x, 1, n)) = n
  BY <1>2
<1>4. \A i \in 1 .. n : SubSeq(x, 1, n)[i] = x[i]
  <2> SUFFICES ASSUME NEW i \in 1 .. n PROVE SubSeq(x, 1, n)[i] = x[i]
    OBVIOUS
  <2>1. i \in 1 .. n - 1 + 1 /\ 1 + i - 1 = i
    OBVIOUS
  <2> QED BY <1>2, <2>1
<1> QED
  BY <1>2, <1>3, <1>4

LEMMA PrefixIs ==
    ASSUME NEW S, NEW x \in Seq(S), NEW p \in Seq(S), Len(p) <= Len(x),
           \A i \in 1 .. Len(p) : x[i] = p[i]
    PROVE  SubSeq(x, 1, Len(p)) = p
<1>1. PICK n \in Nat : n = Len(p)
  OBVIOUS
<1>2. /\ SubSeq(x, 1, n) \in Seq(S)
      /\ Len(SubSeq(x, 1, n)) = n
      /\ \A i \in 1 .. n : SubSeq(x, 1, n)[i] = x[i]
  BY <1>1, Prefix
<1>3. SubSeq(x, 1, n) = p
  <2>1. \A i \in 1 .. Len(SubSeq(x, 1, n)) : SubSeq(x, 1, n)[i] = p[i]
    BY <1>1, <1>2
  <2> QED BY <1>1, <1>2, <2>1, SeqEqual
<1> QED
  BY <1>1, <1>3

\* A concatenation, position by position.
LEMMA Concat ==
    ASSUME NEW s \in Seq(Nat), NEW t \in Seq(Nat)
    PROVE  /\ s \o t \in Seq(Nat) /\ Len(s \o t) = Len(s) + Len(t)
           /\ Len(s) \in Nat /\ Len(t) \in Nat
           /\ \A i \in 1 .. Len(s) : (s \o t)[i] = s[i]
           /\ \A i \in 1 .. Len(t) : (s \o t)[Len(s) + i] = t[i]
<1>1. /\ s \o t \in Seq(Nat) /\ Len(s \o t) = Len(s) + Len(t)
      /\ \A i \in 1 .. Len(s) + Len(t) :
             (s \o t)[i] = IF i <= Len(s) THEN s[i] ELSE t[i - Len(s)]
  BY ConcatProperties
<1>2. Len(s) \in Nat /\ Len(t) \in Nat
  OBVIOUS
<1>3. PICK m \in Nat, n \in Nat : m = Len(s) /\ n = Len(t)
  BY <1>2
<1>4. ASSUME NEW i \in 1 .. m PROVE (s \o t)[i] = s[i]
  <2>1. i \in 1 .. m + n /\ i <= m
    OBVIOUS
  <2> QED BY <1>1, <1>3, <2>1
<1>5. ASSUME NEW i \in 1 .. n PROVE (s \o t)[m + i] = t[i]
  <2>1. m + i \in 1 .. m + n /\ ~(m + i <= m) /\ (m + i) - m = i
    OBVIOUS
  <2> QED BY <1>1, <1>3, <2>1
<1> QED
  BY <1>1, <1>2, <1>3, <1>4, <1>5

\* u is s, of length m, followed by t, of length n.
Cat(u, s, t, m, n) ==
    /\ u \in Seq(Nat)
    /\ Len(u) = m + n
    /\ \A i \in 1 .. m : u[i] = s[i]
    /\ \A i \in 1 .. n : u[m + i] = t[i]

LEMMA ConcatLens ==
    ASSUME NEW s \in Seq(Nat), NEW t \in Seq(Nat), NEW m, NEW n, Len(s) = m, Len(t) = n
    PROVE  Cat(s \o t, s, t, m, n)
<1>1. Cat(s \o t, s, t, Len(s), Len(t))
  BY Concat, Zenon DEF Cat
<1> QED
  BY <1>1, Zenon

LEMMA FirstFlights ==
    ASSUME NEW a, NEW b, NEW c
    PROVE  /\ SubSeq(<<a>>, 1, 1) = <<a>>
           /\ SubSeq(<<a, b>>, 1, 1) = <<a>>
           /\ SubSeq(<<a, b, c>>, 1, 1) = <<a>>
           /\ SubSeq(<<a, b, c>>, 1, 2) = <<a, b>>
           /\ SubSeq(<<a, b, c>>, 1, 3) = <<a, b, c>>
<1>1. \A x, p \in Seq({a, b, c}) :
          Len(p) <= Len(x) /\ (\A i \in 1 .. Len(p) : x[i] = p[i])
              => SubSeq(x, 1, Len(p)) = p
  BY PrefixIs
<1>2. <<a>> \in Seq({a, b, c}) /\ <<a, b>> \in Seq({a, b, c}) /\ <<a, b, c>> \in Seq({a, b, c})
  OBVIOUS
<1>3. Len(<<a>>) = 1 /\ Len(<<a, b>>) = 2 /\ Len(<<a, b, c>>) = 3
  OBVIOUS
<1>4. SubSeq(<<a>>, 1, 1) = <<a>>
  <2>1. Len(<<a>>) <= Len(<<a>>) /\ \A i \in 1 .. Len(<<a>>) : <<a>>[i] = <<a>>[i]
    BY <1>3
  <2>2. SubSeq(<<a>>, 1, Len(<<a>>)) = <<a>>
    BY <1>1, <1>2, <2>1, Zenon
  <2> QED BY <1>3, <2>2, Zenon
<1>5. SubSeq(<<a, b>>, 1, 1) = <<a>>
  <2>1. Len(<<a>>) <= Len(<<a, b>>) /\ \A i \in 1 .. Len(<<a>>) : <<a, b>>[i] = <<a>>[i]
    BY <1>3
  <2>2. SubSeq(<<a, b>>, 1, Len(<<a>>)) = <<a>>
    BY <1>1, <1>2, <2>1, Zenon
  <2> QED BY <1>3, <2>2, Zenon
<1>6. SubSeq(<<a, b, c>>, 1, 1) = <<a>>
  <2>1. Len(<<a>>) <= Len(<<a, b, c>>) /\ \A i \in 1 .. Len(<<a>>) : <<a, b, c>>[i] = <<a>>[i]
    BY <1>3
  <2>2. SubSeq(<<a, b, c>>, 1, Len(<<a>>)) = <<a>>
    BY <1>1, <1>2, <2>1, Zenon
  <2> QED BY <1>3, <2>2, Zenon
<1>7. SubSeq(<<a, b, c>>, 1, 2) = <<a, b>>
  <2>1. Len(<<a, b>>) <= Len(<<a, b, c>>) /\ \A i \in 1 .. Len(<<a, b>>) : <<a, b, c>>[i] = <<a, b>>[i]
    BY <1>3
  <2>2. SubSeq(<<a, b, c>>, 1, Len(<<a, b>>)) = <<a, b>>
    BY <1>1, <1>2, <2>1, Zenon
  <2> QED BY <1>3, <2>2, Zenon
<1>8. SubSeq(<<a, b, c>>, 1, 3) = <<a, b, c>>
  <2>1. Len(<<a, b, c>>) <= Len(<<a, b, c>>) /\ \A i \in 1 .. Len(<<a, b, c>>) : <<a, b, c>>[i] = <<a, b, c>>[i]
    BY <1>3
  <2>2. SubSeq(<<a, b, c>>, 1, Len(<<a, b, c>>)) = <<a, b, c>>
    BY <1>1, <1>2, <2>1, Zenon
  <2> QED BY <1>3, <2>2, Zenon
<1> QED
  BY <1>4, <1>5, <1>6, <1>7, <1>8, Zenon

LEMMA Extension ==
    ASSUME NEW type \in Nat, NEW body \in Seq(Nat)
    PROVE  Ext(type, body) \in Seq(Nat)
BY DEF Ext

LEMMA HelloBytes ==
    ASSUME NEW exts \in Seq(Nat)
    PROVE  Hello(exts) \in Seq(Nat) /\ Len(Hello(exts)) >= 1 /\ Hello(exts)[1] = 22
<1> DEFINE fixed == [i \in 1 .. FixedLen - 1 |-> 9]
           body == <<ClientHello>> \o fixed \o <<1, 9>>
                   \o <<0, 2, 9, 9>> \o <<1, 0>> \o <<0, Len(exts)>> \o exts
           head == <<HandshakeType, 3, 1, 0, Len(body)>>
<1>1. fixed \in Seq(Nat)
  BY FixedLenAssumption
<1>2. <<ClientHello>> \in Seq(Nat)
  BY DEF ClientHello
<1>3. <<0, Len(exts)>> \in Seq(Nat)
  OBVIOUS
<1>4. body \in Seq(Nat)
  <2> HIDE DEF fixed
  <2> QED BY <1>1, <1>2, <1>3
<1>5. Hello(exts) = head \o body
  BY DEF Hello
<1> HIDE DEF body, fixed
<1>6. head \in Seq(Nat) /\ Len(head) = 5 /\ head[1] = 22
  BY <1>4 DEF HandshakeType
<1> HIDE DEF head
<1>7. head \o body \in Seq(Nat) /\ Len(head \o body) >= 1 /\ (head \o body)[1] = head[1]
  <2>1. /\ head \o body \in Seq(Nat) /\ Len(head \o body) = Len(head) + Len(body)
        /\ Len(body) \in Nat
        /\ \A i \in 1 .. Len(head) : (head \o body)[i] = head[i]
    BY <1>4, <1>6, Concat, Zenon
  <2>2. PICK l \in Nat : l = Len(body)
    BY <2>1
  <2>3. 1 \in 1 .. Len(head) /\ Len(head) + Len(body) >= 1
    BY <1>6, <2>2
  <2> QED BY <2>1, <2>3, Zenon
<1> QED
  BY <1>5, <1>6, <1>7, Zenon

LEMMA Hellos ==
    /\ TheHello \in Seq(Nat) /\ Len(TheHello) >= 1 /\ TheHello[1] = 22
    /\ Hello(Ext(7, <<9>>)) \in Seq(Nat) /\ Len(Hello(Ext(7, <<9>>))) >= 1
    /\ Hello(Ext(7, <<9>>))[1] = 22
    /\ Hello(ServerName(Apple)) \in Seq(Nat) /\ Len(Hello(ServerName(Apple))) >= 1
    /\ Hello(ServerName(Apple))[1] = 22
<1>1. Ext(7, <<9>>) \in Seq(Nat)
  <2>1. 7 \in Nat /\ <<9>> \in Seq(Nat)
    OBVIOUS
  <2> QED BY <2>1, Extension, Zenon
<1>2. \A name \in Nat : ServerName(name) \in Seq(Nat)
  <2> SUFFICES ASSUME NEW name \in Nat PROVE ServerName(name) \in Seq(Nat)
    OBVIOUS
  <2>1. <<0, 8, 1, 0, 1, 9, 0, 0, 1, name>> \in Seq(Nat)
    OBVIOUS
  <2> QED BY <2>1, Extension DEF ServerName
<1>3. Name \in Nat /\ Apple \in Nat
  BY DEF Name, Apple
<1>4. ServerName(Name) \in Seq(Nat) /\ ServerName(Apple) \in Seq(Nat)
  BY <1>2, <1>3, Zenon
<1>5. Ext(7, <<9>>) \o ServerName(Name) \in Seq(Nat)
  BY <1>1, <1>4
<1> QED
  BY <1>1, <1>4, <1>5, HelloBytes, Zenon DEF TheHello

\* The stream x of a SOCKS5 client whose request has length r.
SocksStream(x, r) ==
    /\ x \in Seq(Nat)
    /\ r \in {8, 10, 22}
    /\ Len(x) >= 4 + r
    /\ x[1] = 5 /\ x[4] = 0
    /\ \/ x[8] = 1 /\ r = 10
       \/ x[8] = 4 /\ r = 22
       \/ x[8] = 3 /\ x[9] = 1 /\ r = 8

\* A request by name, by address or by an address of IPv6.
IsRequest(q, r) ==
    /\ q \in Seq(Nat)
    /\ Len(q) = r
    /\ r \in {8, 10, 22}
    /\ \/ q[4] = 1 /\ r = 10
       \/ q[4] = 4 /\ r = 22
       \/ q[4] = 3 /\ q[5] = 1 /\ r = 8

\* u is the request for the target q.
Around(u, q, l) ==
    /\ u \in Seq(Nat)
    /\ Len(u) = 5 + l
    /\ \A i \in 1 .. l : u[3 + i] = q[i]

LEMMA RequestAround ==
    ASSUME NEW q \in Seq(Nat), NEW l \in Nat, Len(q) = l
    PROVE  Around(Request(q, 90), q, l)
<1> DEFINE front == <<5, 1, 0>>
           back == <<0, 90>>
           fq == front \o q
           u == fq \o back
<1>1. front \in Seq(Nat) /\ Len(front) = 3 /\ back \in Seq(Nat) /\ Len(back) = 2
  OBVIOUS
<1>2. Request(q, 90) = u
  BY DEF Request
<1> HIDE DEF front, back
<1>3. Cat(fq, front, q, 3, l)
  BY <1>1, ConcatLens
<1> HIDE DEF fq
<1>4. Cat(u, fq, back, 3 + l, 2)
  <2>1. fq \in Seq(Nat) /\ Len(fq) = 3 + l
    BY <1>3, Zenon DEF Cat
  <2> QED BY <1>1, <2>1, ConcatLens
<1> HIDE DEF u
<1>5. u \in Seq(Nat) /\ Len(u) = 5 + l
  BY <1>4 DEF Cat
<1>6. ASSUME NEW i \in 1 .. l PROVE u[3 + i] = q[i]
  <2>1. 3 + i \in 1 .. 3 + l
    OBVIOUS
  <2>2. u[3 + i] = fq[3 + i]
    BY <1>4, <2>1, Zenon DEF Cat
  <2>3. fq[3 + i] = q[i]
    BY <1>3, Zenon DEF Cat
  <2> QED BY <2>2, <2>3, Zenon
<1> QED
  BY <1>2, <1>5, <1>6, Zenon DEF Around

LEMMA Requests ==
    /\ IsRequest(Request(ByName, 90), 8)
    /\ IsRequest(Request(ByAddr, 90), 10)
    /\ IsRequest(Request(ByAddr6, 90), 22)
<1>1. IsRequest(Request(ByName, 90), 8)
  <2>1. ByName \in Seq(Nat) /\ Len(ByName) = 3 /\ ByName[1] = 3 /\ ByName[2] = 1
    BY DEF ByName, Name
  <2>2. Around(Request(ByName, 90), ByName, 3)
    BY <2>1, RequestAround
  <2> QED
    BY <2>1, <2>2 DEF IsRequest, Around
<1>2. IsRequest(Request(ByAddr, 90), 10)
  <2> DEFINE one == <<1>>
             four == [i \in 1 .. 4 |-> Addr]
  <2>1. one \in Seq(Nat) /\ Len(one) = 1 /\ one[1] = 1
    OBVIOUS
  <2>2. four \in Seq(Nat) /\ Len(four) = 4
    BY DEF Addr
  <2>3. ByAddr = one \o four
    BY DEF ByAddr
  <2> HIDE DEF one, four
  <2>4. ByAddr \in Seq(Nat) /\ Len(ByAddr) = 5 /\ ByAddr[1] = 1
    <3>1. Cat(ByAddr, one, four, 1, 4)
      BY <2>1, <2>2, <2>3, ConcatLens
    <3> QED BY <2>1, <3>1 DEF Cat
  <2>5. Around(Request(ByAddr, 90), ByAddr, 5)
    BY <2>4, RequestAround
  <2> QED
    BY <2>4, <2>5 DEF IsRequest, Around
<1>3. IsRequest(Request(ByAddr6, 90), 22)
  <2> DEFINE one == <<4>>
             many == [i \in 1 .. 16 |-> Addr]
  <2>1. one \in Seq(Nat) /\ Len(one) = 1 /\ one[1] = 4
    OBVIOUS
  <2>2. many \in Seq(Nat) /\ Len(many) = 16
    BY DEF Addr
  <2>3. ByAddr6 = one \o many
    BY DEF ByAddr6
  <2> HIDE DEF one, many
  <2>4. ByAddr6 \in Seq(Nat) /\ Len(ByAddr6) = 17 /\ ByAddr6[1] = 4
    <3>1. Cat(ByAddr6, one, many, 1, 16)
      BY <2>1, <2>2, <2>3, ConcatLens
    <3> QED BY <2>1, <3>1 DEF Cat
  <2>5. Around(Request(ByAddr6, 90), ByAddr6, 17)
    BY <2>4, RequestAround
  <2> QED
    BY <2>4, <2>5 DEF IsRequest, Around
<1> QED
  BY <1>1, <1>2, <1>3, Zenon

\* What a SOCKS5 client sends, and how much of it with each flight.
LEMMA SocksFlights ==
    ASSUME NEW q, NEW r, NEW d \in Seq(Nat), IsRequest(q, r)
    PROVE  LET f == <<Greeting, q, d>>
           IN  /\ SocksStream(Joined(f), r)
               /\ Len(Joined(SubSeq(f, 1, 1))) = 4
               /\ Len(Joined(SubSeq(f, 1, 2))) = 4 + r
               /\ Len(Joined(SubSeq(f, 1, 3))) = Len(Joined(f))
<1> DEFINE f == <<Greeting, q, d>>
           gq == Greeting \o q
           x == gq \o d
<1>1. /\ Greeting \in Seq(Nat) /\ Len(Greeting) = 4
      /\ Greeting[1] = 5 /\ Greeting[4] = 0
  BY DEF Greeting
<1>2. q \in Seq(Nat) /\ Len(q) = r /\ r \in Nat /\ r >= 8
  BY DEF IsRequest
<1>3. Joined(f) = x /\ Joined(<<Greeting, q>>) = gq /\ Joined(<<Greeting>>) = Greeting
  BY <1>1, <1>2, JoinedFlights
<1>4. /\ SubSeq(f, 1, 1) = <<Greeting>> /\ SubSeq(f, 1, 2) = <<Greeting, q>>
      /\ SubSeq(f, 1, 3) = f
  BY FirstFlights
<1>5. /\ gq \in Seq(Nat) /\ Len(gq) = 4 + r
      /\ \A i \in 1 .. 4 : gq[i] = Greeting[i]
      /\ \A i \in 1 .. r : gq[4 + i] = q[i]
  <2>1. Cat(gq, Greeting, q, 4, r)
    BY <1>1, <1>2, ConcatLens
  <2> HIDE DEF gq
  <2> QED BY <2>1, Zenon DEF Cat
<1> HIDE DEF gq
<1>6. /\ x \in Seq(Nat) /\ Len(x) = (4 + r) + Len(d)
      /\ \A i \in 1 .. 4 + r : x[i] = gq[i]
  <2>1. Cat(x, gq, d, 4 + r, Len(d))
    BY <1>5, ConcatLens
  <2> HIDE DEF x
  <2> QED BY <2>1, Zenon DEF Cat
<1> HIDE DEF x
<1>7. PICK l \in Nat : l = Len(d)
  OBVIOUS
<1>8. Len(x) >= 4 + r
  BY <1>2, <1>6, <1>7
<1>9. x[1] = 5 /\ x[4] = 0 /\ x[4 + 4] = q[4] /\ x[4 + 5] = q[5]
  <2>1. /\ 1 \in 1 .. 4 + r /\ 4 \in 1 .. 4 + r /\ 4 + 4 \in 1 .. 4 + r /\ 4 + 5 \in 1 .. 4 + r
        /\ 1 \in 1 .. 4 /\ 4 \in 1 .. 4 /\ 4 \in 1 .. r /\ 5 \in 1 .. r
    BY <1>2
  <2> QED BY <1>1, <1>5, <1>6, <2>1, Zenon
<1>10. SocksStream(x, r)
  BY <1>6, <1>8, <1>9, SMTT(30) DEF SocksStream, IsRequest
<1> HIDE DEF f
<1>11. /\ SocksStream(Joined(f), r)
       /\ Len(Joined(SubSeq(f, 1, 1))) = 4
       /\ Len(Joined(SubSeq(f, 1, 2))) = 4 + r
       /\ Len(Joined(SubSeq(f, 1, 3))) = Len(Joined(f))
  BY <1>1, <1>3, <1>4, <1>5, <1>10, Zenon
<1> QED
  BY <1>11 DEF f

\* The head of a CONNECT to a port, which is a number or not.
IsConnect(x, port) ==
    /\ x \in Seq(Nat)
    /\ Len(x) = 15
    /\ x[1] = 67 /\ x[2] = 79 /\ x[3] = 78
    /\ x[4] = 32 /\ x[5] = 47 /\ x[6] = 13 /\ x[7] = 72 /\ x[8] = 32
    /\ x[9] = 101 /\ x[10] = 58 /\ x[11] = port
    /\ x[12] = 13 /\ x[13] = 88 /\ x[14] = 13 /\ x[15] = 13

LEMMA ConnectHeads ==
    ASSUME NEW port \in Nat
    PROVE  IsConnect(HttpHead(Con, <<Name, Colon, port>>, <<Crlf, 88, Crlf, Crlf>>), port)
<1> DEFINE a == Con
           b == <<Space, 47, Crlf, Host, Space>>
           c == <<Name, Colon, port>>
           d == <<Crlf, 88, Crlf, Crlf>>
           ab == a \o b
           abc == ab \o c
           x == abc \o d
<1>1. a \in Seq(Nat) /\ Len(a) = 3 /\ a[1] = 67 /\ a[2] = 79 /\ a[3] = 78
  BY DEF Con
<1>2. /\ b \in Seq(Nat) /\ Len(b) = 5
      /\ b[1] = 32 /\ b[2] = 47 /\ b[3] = 13 /\ b[4] = 72 /\ b[5] = 32
  BY DEF Space, Crlf, Host
<1>3. c \in Seq(Nat) /\ Len(c) = 3 /\ c[1] = 101 /\ c[2] = 58 /\ c[3] = port
  BY DEF Name, Colon
<1>4. /\ d \in Seq(Nat) /\ Len(d) = 4
      /\ d[1] = 13 /\ d[2] = 88 /\ d[3] = 13 /\ d[4] = 13
  BY DEF Crlf
<1>5. HttpHead(Con, <<Name, Colon, port>>, <<Crlf, 88, Crlf, Crlf>>) = x
  BY DEF HttpHead
<1> HIDE DEF a, b, c, d
<1>6. Cat(ab, a, b, 3, 5)
  BY <1>1, <1>2, ConcatLens, ZenonT(30)
<1> HIDE DEF ab
<1>7. ab \in Seq(Nat) /\ Len(ab) = 8
  BY <1>6 DEF Cat
<1>8. Cat(abc, ab, c, 8, 3)
  <2>1. c \in Seq(Nat) /\ Len(c) = 3
    BY <1>3, Zenon
  <2> QED BY <1>7, <2>1, ConcatLens
<1> HIDE DEF abc
<1>9. abc \in Seq(Nat) /\ Len(abc) = 11
  BY <1>8 DEF Cat
<1>10. Cat(x, abc, d, 11, 4)
  BY <1>4, <1>9, ConcatLens
<1> HIDE DEF x
<1>11. /\ ab[1] = 67 /\ ab[2] = 79 /\ ab[3] = 78
       /\ ab[3 + 1] = 32 /\ ab[3 + 2] = 47 /\ ab[3 + 3] = 13 /\ ab[3 + 4] = 72 /\ ab[3 + 5] = 32
  BY <1>1, <1>2, <1>6 DEF Cat
<1>12. \A i \in 1 .. 8 : abc[i] = ab[i]
  BY <1>8 DEF Cat
<1>13. abc[8 + 1] = 101 /\ abc[8 + 2] = 58 /\ abc[8 + 3] = port
  BY <1>3, <1>8 DEF Cat
<1>14. \A i \in 1 .. 11 : x[i] = abc[i]
  BY <1>10 DEF Cat
<1>15. x[11 + 1] = 13 /\ x[11 + 2] = 88 /\ x[11 + 3] = 13 /\ x[11 + 4] = 13
  BY <1>4, <1>10 DEF Cat
<1>16. x \in Seq(Nat) /\ Len(x) = 15
  BY <1>10 DEF Cat
<1>17. /\ abc[1] = 67 /\ abc[2] = 79 /\ abc[3] = 78
       /\ abc[4] = 32 /\ abc[5] = 47 /\ abc[6] = 13 /\ abc[7] = 72 /\ abc[8] = 32
       /\ abc[9] = 101 /\ abc[10] = 58 /\ abc[11] = port
  <2>1. /\ abc[1] = ab[1] /\ abc[2] = ab[2] /\ abc[3] = ab[3] /\ abc[4] = ab[4]
        /\ abc[5] = ab[5] /\ abc[6] = ab[6] /\ abc[7] = ab[7] /\ abc[8] = ab[8]
    BY <1>12
  <2> QED BY <1>11, <1>13, <2>1
<1>18. /\ x[1] = abc[1] /\ x[2] = abc[2] /\ x[3] = abc[3] /\ x[4] = abc[4]
       /\ x[5] = abc[5] /\ x[6] = abc[6] /\ x[7] = abc[7] /\ x[8] = abc[8]
       /\ x[9] = abc[9] /\ x[10] = abc[10] /\ x[11] = abc[11]
  BY <1>14
<1>19. x[12] = 13 /\ x[13] = 88 /\ x[14] = 13 /\ x[15] = 13
  BY <1>15
<1>20. IsConnect(x, port)
  BY <1>16, <1>17, <1>18, <1>19 DEF IsConnect
<1> QED
  BY <1>5, <1>20, Zenon

\* The other clients do not start like SOCKS5 or like a CONNECT.
IsOther(x) == x \in Seq(Nat) /\ Len(x) >= 1 /\ x[1] \in {4, 22, 71, 83}

LEMMA GetHeads ==
    ASSUME NEW host \in Seq(Nat), NEW rest \in Seq(Nat)
    PROVE  IsOther(HttpHead(Get, host, rest))
<1> DEFINE b == <<Space, 47, Crlf, Host, Space>>
           ab == Get \o b
           abc == ab \o host
           x == abc \o rest
<1>1. Get \in Seq(Nat) /\ Len(Get) = 3 /\ Get[1] = 71
  BY DEF Get
<1>2. b \in Seq(Nat) /\ Len(b) = 5
  BY DEF Space, Crlf, Host
<1>3. HttpHead(Get, host, rest) = x
  BY DEF HttpHead
<1>4. PICK m \in Nat, n \in Nat : m = Len(host) /\ n = Len(rest)
  OBVIOUS
<1> HIDE DEF b
<1>5. Cat(ab, Get, b, 3, 5)
  BY <1>1, <1>2, ConcatLens
<1> HIDE DEF ab
<1>6. ab \in Seq(Nat) /\ Len(ab) = 8 /\ ab[1] = 71
  BY <1>1, <1>5 DEF Cat
<1>7. Cat(abc, ab, host, 8, m)
  BY <1>4, <1>6, ConcatLens, ZenonT(30)
<1> HIDE DEF abc
<1>8. abc \in Seq(Nat) /\ Len(abc) = 8 + m /\ abc[1] = 71
  BY <1>6, <1>7 DEF Cat
<1>9. Cat(x, abc, rest, 8 + m, n)
  BY <1>4, <1>8, ConcatLens
<1> HIDE DEF x
<1>10. x \in Seq(Nat) /\ Len(x) = 8 + m + n /\ x[1] = 71
  BY <1>8, <1>9 DEF Cat
<1> QED
  BY <1>3, <1>10 DEF IsOther

\* The kinds of client by what they send.
LEMMA SocksKinds ==
    ASSUME NEW k \in Socks
    PROVE  LET f == Script[k].f
           IN  \E r \in {8, 10, 22} :
                   /\ SocksStream(Joined(f), r)
                   /\ Len(Joined(SubSeq(f, 1, 1))) = 4
                   /\ Len(Joined(SubSeq(f, 1, 2))) = 4 + r
                   /\ Len(Joined(SubSeq(f, 1, 3))) = Len(Joined(f))
<1> DEFINE f == Script[k].f
<1>1. \E q, d, r : d \in Seq(Nat) /\ IsRequest(q, r) /\ f = <<Greeting, q, d>>
  <2>1. <<65, 66>> \in Seq(Nat) /\ TheHello \in Seq(Nat)
    BY Hellos
  <2>2. k = "socks_name" \/ k = "socks_tls" \/ k = "socks_ip" \/ k = "socks_ip6"
    BY DEF Socks
  <2>3. CASE k = "socks_name"
    BY <2>1, <2>3, SocksScripts, Requests, Zenon
  <2>4. CASE k = "socks_tls"
    BY <2>1, <2>4, SocksScripts, Requests, Zenon
  <2>5. CASE k = "socks_ip"
    BY <2>1, <2>5, SocksScripts, Requests, Zenon
  <2>6. CASE k = "socks_ip6"
    BY <2>1, <2>6, SocksScripts, Requests, Zenon
  <2> QED
    BY <2>2, <2>3, <2>4, <2>5, <2>6, Zenon
<1>2. PICK q, d, r : d \in Seq(Nat) /\ IsRequest(q, r) /\ f = <<Greeting, q, d>>
  BY <1>1, Zenon
<1> HIDE DEF f
<1>3. /\ SocksStream(Joined(f), r)
      /\ Len(Joined(SubSeq(f, 1, 1))) = 4
      /\ Len(Joined(SubSeq(f, 1, 2))) = 4 + r
      /\ Len(Joined(SubSeq(f, 1, 3))) = Len(Joined(f))
  BY <1>2, SocksFlights, Zenon
<1>4. r \in {8, 10, 22}
  BY <1>3, Zenon DEF SocksStream
<1> QED
  BY <1>3, <1>4, Zenon DEF f

LEMMA ConnectKind ==
    LET f == Script["connect"].f
        x == Joined(f)
    IN  /\ x \in Seq(Nat) /\ Len(x) = 17 /\ IsConnect(f[1], 90)
        /\ \A i \in 1 .. 15 : x[i] = f[1][i]
        /\ Joined(SubSeq(f, 1, 1)) = f[1]
<1> DEFINE a == HttpHead(Con, <<Name, Colon, 90>>, <<Crlf, 88, Crlf, Crlf>>)
           b == <<65, 66>>
           f == Script["connect"].f
<1>1. b \in Seq(Nat) /\ Len(b) = 2
  OBVIOUS
<1>2. IsConnect(a, 90)
  BY ConnectHeads
<1>3. f = <<a, b>>
  BY HttpScripts, Zenon
<1> HIDE DEF a, b, f
<1>4. a \in Seq(Nat) /\ Len(a) = 15
  BY <1>2, Zenon DEF IsConnect
<1>5. Joined(f) = a \o b /\ Joined(<<a>>) = a
  BY <1>1, <1>3, <1>4, JoinedFlights, Zenon
<1>6. SubSeq(f, 1, 1) = <<a>>
  BY <1>3, FirstFlights, Zenon
<1>7. f[1] = a
  BY <1>3
<1>8. Cat(a \o b, a, b, 15, 2)
  BY <1>1, <1>4, ConcatLens
<1>9. a \o b \in Seq(Nat) /\ Len(a \o b) = 17
  BY <1>8 DEF Cat
<1>10. \A i \in 1 .. 15 : (a \o b)[i] = a[i]
  BY <1>8, Zenon DEF Cat
<1>11. /\ Joined(f) \in Seq(Nat) /\ Len(Joined(f)) = 17 /\ IsConnect(f[1], 90)
       /\ \A i \in 1 .. 15 : Joined(f)[i] = f[1][i]
       /\ Joined(SubSeq(f, 1, 1)) = f[1]
  BY <1>2, <1>5, <1>6, <1>7, <1>9, <1>10, Zenon
<1> QED
  BY <1>11, Zenon DEF f

LEMMA SingleFlight ==
    ASSUME NEW a \in Seq(Nat)
    PROVE  Joined(<<a>>) = a /\ Joined(SubSeq(<<a>>, 1, 1)) = a
BY JoinedFlights, FirstFlights, Zenon

LEMMA BadportKind ==
    LET f == Script["badport"].f
    IN  IsConnect(Joined(f), NotANumber) /\ Joined(SubSeq(f, 1, 1)) = Joined(f)
<1> DEFINE a == HttpHead(Con, <<Name, Colon, NotANumber>>, <<Crlf, 88, Crlf, Crlf>>)
<1>1. IsConnect(a, NotANumber)
  BY ConnectHeads DEF NotANumber
<1>2. Script["badport"].f = <<a>>
  BY HttpScripts, Zenon
<1> HIDE DEF a
<1>3. a \in Seq(Nat)
  BY <1>1, Zenon DEF IsConnect
<1> QED
  BY <1>1, <1>2, <1>3, SingleFlight, Zenon

LEMMA OtherKinds ==
    ASSUME NEW k \in Others
    PROVE  LET f == Script[k].f
           IN  IsOther(Joined(f)) /\ Joined(SubSeq(f, 1, 1)) = Joined(f)
<1>1. \E a : IsOther(a) /\ Script[k].f = <<a>>
  <2>1. IsOther(TheHello) /\ IsOther(Hello(Ext(7, <<9>>))) /\ IsOther(Hello(ServerName(Apple)))
    BY Hellos DEF IsOther
  <2>2. /\ <<Name>> \in Seq(Nat) /\ <<Crlf, 88, Crlf, Crlf, 66>> \in Seq(Nat)
        /\ <<Crlf, Crlf>> \in Seq(Nat)
    BY DEF Name, Crlf
  <2>3. /\ IsOther(HttpHead(Get, <<Name>>, <<Crlf, 88, Crlf, Crlf, 66>>))
        /\ IsOther(HttpHead(Get, <<Name>>, <<Crlf, Crlf>>))
    BY <2>2, GetHeads, Zenon
  <2>4. IsOther(<<4, 1, 0, 90, Addr>>)
    BY DEF IsOther, Addr
  <2>5. IsOther(<<HandshakeType, 2, 1, 0>>)
    BY DEF IsOther, HandshakeType
  <2>6. IsOther(<<83, 83, 72, 45>>)
    BY DEF IsOther
  <2>7. \/ k = "tls" \/ k = "tls_nosni" \/ k = "tls_apple" \/ k = "get"
        \/ k = "hostlast" \/ k = "socks4" \/ k = "ssl2" \/ k = "other"
    BY DEF Others
  <2>8. CASE k = "tls"
    BY <2>1, <2>8, TlsScripts, Zenon
  <2>9. CASE k = "tls_nosni"
    BY <2>1, <2>9, TlsScripts, Zenon
  <2>10. CASE k = "tls_apple"
    BY <2>1, <2>10, TlsScripts, Zenon
  <2>11. CASE k = "get"
    BY <2>3, <2>11, HttpScripts, Zenon
  <2>12. CASE k = "hostlast"
    BY <2>3, <2>12, HttpScripts, Zenon
  <2>13. CASE k = "socks4"
    BY <2>4, <2>13, ShortScripts, Zenon
  <2>14. CASE k = "ssl2"
    BY <2>5, <2>14, ShortScripts, Zenon
  <2>15. CASE k = "other"
    BY <2>6, <2>15, ShortScripts, Zenon
  <2> QED
    BY <2>7, <2>8, <2>9, <2>10, <2>11, <2>12, <2>13, <2>14, <2>15, Zenon
<1>2. PICK a : IsOther(a) /\ Script[k].f = <<a>>
  BY <1>1, Zenon
<1>3. a \in Seq(Nat)
  BY <1>2, Zenon DEF IsOther
<1> QED
  BY <1>2, <1>3, SingleFlight, Zenon

-----------------------------------------------------------------------------
(***************************************************************************)
(* The head of a CONNECT, as handle_http_connection reads it.              *)
(***************************************************************************)

\* The least and the greatest element of a set of numbers.
LEMMA MinIs ==
    ASSUME NEW S \in SUBSET Nat, NEW a \in S, \A j \in S : a <= j
    PROVE  Min(S) = a
<1>1. Min(S) \in S /\ \A y \in S : Min(S) <= y
  BY Zenon DEF Min
<1>2. PICK m \in S : m = Min(S)
  BY <1>1, Zenon
<1>3. m \in Nat /\ a \in Nat /\ m <= a /\ a <= m
  BY <1>1, <1>2
<1> QED
  BY <1>2, <1>3

LEMMA MaxIs ==
    ASSUME NEW S \in SUBSET Nat, NEW a \in S, \A j \in S : j <= a
    PROVE  Max(S) = a
<1>1. Max(S) \in S /\ \A y \in S : Max(S) >= y
  <2>1. \A y \in S : a >= y
    OBVIOUS
  <2> QED BY <2>1, Zenon DEF Max
<1>2. PICK m \in S : m = Max(S)
  BY <1>1, Zenon
<1>3. m \in Nat /\ a \in Nat /\ m >= a /\ m <= a
  BY <1>1, <1>2
<1> QED
  BY <1>2, <1>3

\* Where a cell first occurs.
FirstAt(s, v, p, a) ==
    /\ s \in Seq(Nat) /\ p \in Nat /\ a \in Nat
    /\ p <= a /\ a <= Len(s)
    /\ s[a] = v
    /\ \A j \in p .. a - 1 : s[j] # v

LEMMA FindIs ==
    ASSUME NEW s, NEW v, NEW p, NEW a, FirstAt(s, v, p, a)
    PROVE  Find(s, v, p) = a
<1> USE DEF FirstAt
<1> DEFINE at == {i \in p .. Len(s) : s[i] = v}
<1>0. PICK l \in Nat : l = Len(s)
  OBVIOUS
<1>1. a \in at
  BY <1>0
<1>2. \A j \in at : a <= j
  BY <1>0
<1>3. at \in SUBSET Nat
  BY <1>0
<1>4. Find(s, v, p) = IF at = {} THEN 0 ELSE Min(at)
  BY Zenon DEF Find
<1> HIDE DEF at
<1>5. Min(at) = a
  BY <1>1, <1>2, <1>3, MinIs
<1> QED
  BY <1>1, <1>4, <1>5, Zenon

\* What was read of the head x.
FrontOf(v, k, x) ==
    /\ v \in Seq(Nat)
    /\ Len(v) = k
    /\ \A i \in 1 .. k : v[i] = x[i]

\* A head with its end is a whole head.
LEMMA HeadIsWhole ==
    ASSUME NEW v, NEW k \in 1 .. 15, NEW x, NEW port \in Nat, port # 13,
           IsConnect(x, port), FrontOf(v, k, x), HeadEnd(v) # 0
    PROVE  k = 15 /\ HeadEnd(v) = 14
<1> DEFINE at == {i \in 1 .. Len(v) - 1 : v[i] = Crlf /\ v[i + 1] = Crlf}
<1>1. HeadEnd(v) = IF at = {} THEN 0 ELSE CHOOSE i \in at : \A j \in at : i <= j
  BY Zenon DEF HeadEnd
<1>2. \A i \in at : i = 14 /\ k = 15
  <2> SUFFICES ASSUME NEW i \in at PROVE i = 14 /\ k = 15
    OBVIOUS
  <2>1. i \in 1 .. k /\ i + 1 \in 1 .. k /\ v[i] = 13 /\ v[i + 1] = 13
    BY DEF FrontOf, Crlf
  <2>2. x[i] = 13 /\ x[i + 1] = 13
    BY <2>1, Zenon DEF FrontOf
  <2>3. i \in 1 .. 14
    BY <2>1
  <2> HIDE DEF at
  <2>4. i = 14
    <3>1. \/ i = 1 \/ i = 2 \/ i = 3 \/ i = 4 \/ i = 5 \/ i = 6 \/ i = 7
          \/ i = 8 \/ i = 9 \/ i = 10 \/ i = 11 \/ i = 12 \/ i = 13 \/ i = 14
      BY <2>3
    <3>2. /\ x[1] # 13 /\ x[2] # 13 /\ x[3] # 13 /\ x[4] # 13 /\ x[5] # 13 /\ x[7] # 13
          /\ x[8] # 13 /\ x[9] # 13 /\ x[10] # 13 /\ x[11] # 13 /\ x[13] # 13
      BY DEF IsConnect
    <3>3. i # 6 /\ i # 12
      BY <2>2, <3>2
    <3> QED BY <2>2, <3>1, <3>2, <3>3, Zenon
  <2> QED
    BY <2>1, <2>4
<1> HIDE DEF at
<1>3. at # {}
  BY <1>1, Zenon
<1>4. 14 \in at
  BY <1>2, <1>3, Zenon
<1>5. at = {14} /\ k = 15
  BY <1>2, <1>4
<1>6. (CHOOSE i \in at : \A j \in at : i <= j) = 14
  BY <1>5
<1> QED
  BY <1>1, <1>3, <1>5, <1>6, Zenon

LEMMA HeadConnects ==
    ASSUME NEW v, NEW x, NEW port, IsConnect(x, port), FrontOf(v, 15, x)
    PROVE  Connects(v)
<1>1. v \in Seq(Nat) /\ Len(v) = 15 /\ v[1] = 67 /\ v[2] = 79 /\ v[3] = 78 /\ v[4] = 32
  BY DEF FrontOf, IsConnect
<1>2. Find(v, Space, 1) = 4
  <2>1. \A j \in 1 .. 4 - 1 : v[j] # Space
    BY <1>1 DEF Space
  <2>2. v[4] = Space
    BY <1>1 DEF Space
  <2>3. FirstAt(v, Space, 1, 4)
    BY <1>1, <2>1, <2>2 DEF FirstAt
  <2> QED BY <2>3, FindIs, Zenon
<1>3. SubSeq(v, 1, 3) = Con
  <2>1. Con \in Seq(Nat) /\ Len(Con) = 3
    BY DEF Con
  <2>2. \A i \in 1 .. 3 : v[i] = Con[i]
    BY <1>1 DEF Con
  <2>3. SubSeq(v, 1, Len(Con)) = Con
    BY <1>1, <2>1, <2>2, PrefixIs
  <2> QED BY <2>1, <2>3
<1> QED
  BY <1>2, <1>3 DEF Connects

\* Cells a to b of a sequence.
LEMMA Middle ==
    ASSUME NEW s \in Seq(Nat), NEW a \in Nat, NEW b \in Nat, 1 <= a, a <= b, b <= Len(s)
    PROVE  /\ SubSeq(s, a, b) \in Seq(Nat)
           /\ Len(SubSeq(s, a, b)) = b - a + 1
           /\ \A i \in 1 .. b - a + 1 : SubSeq(s, a, b)[i] = s[a + i - 1]
<1>1. \A i \in a .. b : s[i] \in Nat
  <2> SUFFICES ASSUME NEW i \in a .. b PROVE s[i] \in Nat
    OBVIOUS
  <2>1. PICK l \in Nat : l = Len(s)
    OBVIOUS
  <2>2. i \in 1 .. Len(s)
    BY <2>1
  <2> QED BY <2>2
<1>2. a \in Int /\ b \in Int
  OBVIOUS
<1>3. /\ SubSeq(s, a, b) \in Seq(Nat)
      /\ Len(SubSeq(s, a, b)) = IF a <= b THEN b - a + 1 ELSE 0
      /\ \A i \in 1 .. b - a + 1 : SubSeq(s, a, b)[i] = s[a + i - 1]
  BY <1>1, <1>2, SubSeqProperties
<1> QED
  BY <1>3

\* A port that is no number is found to be none.
LEMMA HeadPort ==
    ASSUME NEW v, NEW x, NEW port \in Nat, IsConnect(x, port), FrontOf(v, 15, x),
           HeadEnd(v) = 14, port # 13, port # 32, port # 72
    PROVE  HostPort(v) = port
<1> DEFINE head == SubSeq(v, 1, 13)
           line == SubSeq(head, 8, 11)
           value == SubSeq(line, 2, 4)
<1>1. /\ v \in Seq(Nat) /\ Len(v) = 15
      /\ v[1] = 67 /\ v[2] = 79 /\ v[3] = 78 /\ v[4] = 32 /\ v[5] = 47 /\ v[6] = 13
      /\ v[7] = 72 /\ v[8] = 32 /\ v[9] = 101 /\ v[10] = 58 /\ v[11] = port /\ v[12] = 13
  BY DEF FrontOf, IsConnect
<1>2. /\ head \in Seq(Nat) /\ Len(head) = 13
      /\ \A i \in 1 .. 13 : head[i] = v[i]
  <2>1. \A n \in Nat : n <= Len(v) =>
            /\ SubSeq(v, 1, n) \in Seq(Nat)
            /\ Len(SubSeq(v, 1, n)) = n
            /\ \A i \in 1 .. n : SubSeq(v, 1, n)[i] = v[i]
    <3>1. v \in Seq(Nat)
      BY <1>1
    <3> QED BY <3>1, Prefix
  <2>2. 13 \in Nat /\ 13 <= Len(v)
    BY <1>1
  <2> QED BY <2>1, <2>2, Zenon
<1>3. /\ head[1] = 67 /\ head[2] = 79 /\ head[3] = 78 /\ head[4] = 32 /\ head[5] = 47
      /\ head[6] = 13 /\ head[7] = 72 /\ head[8] = 32 /\ head[9] = 101 /\ head[10] = 58
      /\ head[11] = port /\ head[12] = 13
  <2> HIDE DEF head
  <2> QED BY <1>1, <1>2
<1>4. HostValue(v) = HttpGetHeader(head, Host)
  BY DEF HostValue
<1> HIDE DEF head
<1>5. Find(head, Host, 1) = 7
  <2>1. FirstAt(head, Host, 1, 7)
    BY <1>2, <1>3, SMTT(30) DEF FirstAt, Host
  <2> QED BY <2>1, FindIs, Zenon
<1>6. Find(head, Crlf, 7) = 12
  <2>1. FirstAt(head, Crlf, 7, 12)
    BY <1>2, <1>3, SMTT(30) DEF FirstAt, Crlf
  <2> QED BY <2>1, FindIs, Zenon
<1>7. HttpGetHeader(head, Host) = Strip(line)
  BY <1>5, <1>6 DEF HttpGetHeader
<1>8. /\ line \in Seq(Nat) /\ Len(line) = 4
      /\ line[1] = 32 /\ line[2] = 101 /\ line[3] = 58 /\ line[4] = port
  <2>1. /\ line \in Seq(Nat) /\ Len(line) = 11 - 8 + 1
        /\ \A i \in 1 .. 11 - 8 + 1 : line[i] = head[8 + i - 1]
    <3>1. /\ head \in Seq(Nat) /\ 8 \in Nat /\ 11 \in Nat
          /\ 1 <= 8 /\ 8 <= 11 /\ 11 <= Len(head)
      BY <1>2
    <3> QED BY <3>1, Middle
  <2> HIDE DEF line
  <2> QED BY <1>3, <2>1
<1> HIDE DEF line
<1>9. Strip(line) = value
  <2> DEFINE at == {i \in 1 .. Len(line) : line[i] # Space}
  <2>1. at = {2, 3, 4}
    BY <1>8 DEF Space
  <2>2. Strip(line) = IF at = {} THEN <<>> ELSE SubSeq(line, Min(at), Max(at))
    BY Zenon DEF Strip
  <2> HIDE DEF at
  <2>3. Min(at) = 2
    BY <2>1, MinIs
  <2>4. Max(at) = 4
    BY <2>1, MaxIs
  <2> QED BY <2>1, <2>2, <2>3, <2>4
<1>10. /\ value \in Seq(Nat) /\ Len(value) = 3
       /\ value[1] = 101 /\ value[2] = 58 /\ value[3] = port
  <2>1. /\ value \in Seq(Nat) /\ Len(value) = 4 - 2 + 1
        /\ \A i \in 1 .. 4 - 2 + 1 : value[i] = line[2 + i - 1]
    BY <1>8, Middle
  <2> HIDE DEF value
  <2> QED BY <1>8, <2>1
<1>11. HostValue(v) = value
  BY <1>4, <1>7, <1>9, Zenon
<1> HIDE DEF value
<1>12. Find(value, Colon, 1) = 2
  <2>1. FirstAt(value, Colon, 1, 2)
    BY <1>10 DEF FirstAt, Colon
  <2> QED BY <2>1, FindIs, Zenon
<1> QED
  BY <1>10, <1>11, <1>12 DEF HostPort

LessThan == {p \in Nat \X Nat : p[1] < p[2]}

\* A set of naturals that is not empty has a least member.
LEMMA LeastNatural ==
    ASSUME NEW T, T \subseteq Nat, T # {}
    PROVE  \E n \in T : \A m \in T : n <= m
<1>1. IsWellFoundedOn(LessThan, Nat)
  BY NatLessThanWellFounded DEF OpToRel, LessThan
<1>2. PICK n \in T : \A m \in T : <<m, n>> \notin LessThan
  BY <1>1, WFMin
<1>3. \A m \in T : ~(m < n)
  BY <1>2 DEF LessThan
<1> QED BY <1>3

\* A CONNECT starts with the word.
LEMMA ConnectsByte ==
    ASSUME NEW v \in Seq(Nat), Connects(v)
    PROVE  v[1] = 67
<1> DEFINE at == {i \in 1 .. Len(v) : v[i] = Space}
           j == Find(v, Space, 1) - 1
<1>1. Find(v, Space, 1) \in Nat
  <2>1. Find(v, Space, 1) = IF at = {} THEN 0 ELSE Min(at)
    BY Zenon DEF Find
  <2>2. at \subseteq Nat
    OBVIOUS
  <2> HIDE DEF at
  <2>3. at # {} => \E a \in at : \A i \in at : a <= i
    BY <2>2, LeastNatural
  <2>4. at # {} => Min(at) \in at
    BY <2>3, Zenon DEF Min
  <2>5. 0 \in Nat
    OBVIOUS
  <2>6. CASE at = {}
    BY <2>1, <2>5, <2>6, Zenon
  <2>7. CASE at # {}
    BY <2>1, <2>2, <2>4, <2>7, Zenon
  <2> QED BY <2>6, <2>7, Zenon
<1>2. SubSeq(v, 1, j) = Con
  BY Zenon DEF Connects
<1>3. j \in Int
  BY <1>1
<1> HIDE DEF j
<1>4. Con # << >> /\ Con[1] = 67
  BY DEF Con
<1>5. 1 <= j
  <2>1. j < 1 => SubSeq(v, 1, j) = << >>
    BY <1>3, SubSeqEmpty
  <2> QED BY <1>2, <1>3, <1>4, <2>1
<1> DEFINE S == {v[i] : i \in 1 .. j}
<1>6. \A i \in 1 .. j : v[i] \in S
  BY Zenon
<1> HIDE DEF S
<1>7. \A i \in 1 .. j - 1 + 1 : SubSeq(v, 1, j)[i] = v[1 + i - 1]
  BY <1>3, <1>6, SubSeqProperties
<1>8. SubSeq(v, 1, j)[1] = v[1]
  <2>1. 1 \in 1 .. j - 1 + 1 /\ 1 + 1 - 1 = 1
    BY <1>3, <1>5
  <2>2. SubSeq(v, 1, j)[1] = v[1 + 1 - 1]
    BY <1>7, <2>1, Zenon
  <2> QED BY <2>1, <2>2, Zenon
<1> QED
  BY <1>2, <1>4, <1>8, Zenon

-----------------------------------------------------------------------------
(***************************************************************************)
(* The invariant.                                                          *)
(***************************************************************************)

\* What the owner of a buffer must be able to rely on: a handler that reads
\* owns its buffer, a relay owns it or has only a view of it.
Handler(s) ==
    /\ DOMAIN s = Fields
    /\ s.pc \in Pcs
    /\ s.own \in BOOLEAN /\ s.moved \in BOOLEAN /\ s.dst \in BOOLEAN
    /\ s.at \in Nat
    /\ s.own = TRUE => s.buf \in Buffers /\ s.pc \in Reading \cup Relaying
    /\ s.pc \in Reading => s.own = TRUE /\ s.moved = FALSE
    /\ s.pc \in Relaying => s.own = TRUE \/ s.moved = TRUE

\* BuffersExact, buffer by buffer.
Exact(hs, p) ==
    /\ \A c, d \in Conns : hs[c].own = TRUE /\ hs[d].own = TRUE /\ hs[c].buf = hs[d].buf => c = d
    /\ \A i, j \in 1 .. Len(p) : p[i] = p[j] => i = j
    /\ \A i \in 1 .. Len(p) : \A d \in Conns : hs[d].own = TRUE => hs[d].buf # p[i]
    /\ Len(p) <= PoolMax

\* Memory holds bytes of the clients.
Bytes(k) == Joined(Script[k].f)
Valid(m, K) ==
    /\ m \in Seq(Conns \X Nat)
    /\ \A i \in 1 .. Len(m) : m[i][2] \in 1 .. Len(Bytes(K[m[i][1]]))

\* The length of the handshake of a client of kind k.
HandshakeOf(k, dst) ==
    CASE k \in Socks /\ dst = FALSE -> Len(Joined(SubSeq(Script[k].f, 1, 2)))
      [] k = "connect" -> Len(Script[k].f[1])
      [] OTHER -> 0

\* The stretch of the stream of c that a relay is to write.
Payload(c, h, n) == [i \in 1 .. n |-> <<c, h + i>>]

\* How far the handshake of a client of kind k is.
Stage(k, s) ==
    /\ s.pc = "first" => s.at = 0 /\ s.sent = 1
    /\ s.pc = "request" => k \in Socks /\ s.dst = FALSE /\ s.sent = 2 /\ s.at \in {3, 4}
    /\ s.pc = "hello" =>
           k \in Socks /\ s.dst = FALSE /\ s.sent = 3 /\ s.at = HandshakeOf(k, s.dst)

\* A relay that owns its buffer m has in it what it is to write.
Carries(c, k, s, m) ==
    s.pc \in Relaying /\ s.moved = FALSE =>
        /\ s.n \in Nat
        /\ s.at = HandshakeOf(k, s.dst) + s.n
        /\ s.n <= Len(m)
        /\ \A i \in 1 .. s.n : m[i] = <<c, HandshakeOf(k, s.dst) + i>>

\* What a relay has written.
Wrote(c, k, s, f) ==
    f # NotYet =>
        /\ s.pc \in {"pump", "done"}
        /\ s.moved = FALSE =>
               f = Payload(c, HandshakeOf(k, s.dst), s.at - HandshakeOf(k, s.dst))

\* The parts of the invariant.
Types ==
    /\ node.redirect \in BOOLEAN
    /\ kind \in [Conns -> DOMAIN Script]
    /\ DOMAIN st = Conns
    /\ DOMAIN fwd = Conns
    /\ DOMAIN mem = Buffers
    /\ pool \in Seq(Buffers)
Handlers == \A c \in Conns : Handler(st[c])
Memory == \A b \in Buffers : Valid(mem[b], kind)
Bytewise ==
    \A c \in Conns : /\ Stage(kind[c], st[c])
                     /\ Carries(c, kind[c], st[c], mem[st[c].buf])
                     /\ Wrote(c, kind[c], st[c], fwd[c])

EntryInv == Types /\ Handlers /\ Exact(st, pool) /\ Memory /\ Bytewise

-----------------------------------------------------------------------------
(***************************************************************************)
(* The pool.                                                               *)
(***************************************************************************)

LEMMA ExactKeeps ==
    ASSUME NEW hs, NEW p, NEW c \in Conns, NEW t, DOMAIN hs = Conns, Exact(hs, p),
           t.own = hs[c].own, t.buf = hs[c].buf
    PROVE  Exact([hs EXCEPT ![c] = t], p)
<1> DEFINE gs == [hs EXCEPT ![c] = t]
<1>1. \A d \in Conns : gs[d].own = hs[d].own /\ gs[d].buf = hs[d].buf
  BY Zenon
<1> HIDE DEF gs
<1>2. \A d, e \in Conns : gs[d].own = TRUE /\ gs[e].own = TRUE /\ gs[d].buf = gs[e].buf => d = e
  BY <1>1 DEF Exact
<1>3. \A i \in 1 .. Len(p) : \A d \in Conns : gs[d].own = TRUE => gs[d].buf # p[i]
  <2> SUFFICES ASSUME NEW i \in 1 .. Len(p), NEW d \in Conns, gs[d].own = TRUE
               PROVE  gs[d].buf # p[i]
    OBVIOUS
  <2> QED BY <1>1 DEF Exact
<1>4. Exact(gs, p)
  BY <1>2, <1>3, Zenon DEF Exact
<1> QED
  BY <1>4 DEF gs

\* An owner that gives its buffer up does not own one.
LEMMA ExactLess ==
    ASSUME NEW hs, NEW p, NEW c \in Conns, NEW t, DOMAIN hs = Conns, Exact(hs, p),
           t.own = FALSE
    PROVE  Exact([hs EXCEPT ![c] = t], p)
<1> DEFINE gs == [hs EXCEPT ![c] = t]
<1>1. \A d \in Conns : gs[d].own = TRUE => hs[d].own = TRUE /\ gs[d].buf = hs[d].buf
  <2>1. gs[c].own = FALSE
    BY Zenon
  <2>2. \A d \in Conns : d # c => gs[d] = hs[d]
    BY Zenon
  <2> HIDE DEF gs
  <2> QED BY <2>1, <2>2
<1> HIDE DEF gs
<1>2. \A d, e \in Conns : gs[d].own = TRUE /\ gs[e].own = TRUE /\ gs[d].buf = gs[e].buf => d = e
  BY <1>1 DEF Exact
<1>3. \A i \in 1 .. Len(p) : \A d \in Conns : gs[d].own = TRUE => gs[d].buf # p[i]
  <2> SUFFICES ASSUME NEW i \in 1 .. Len(p), NEW d \in Conns, gs[d].own = TRUE
               PROVE  gs[d].buf # p[i]
    OBVIOUS
  <2> QED BY <1>1 DEF Exact
<1>4. Exact(gs, p)
  BY <1>2, <1>3, Zenon DEF Exact
<1> QED
  BY <1>4 DEF gs

LEMMA ExactReleases ==
    ASSUME NEW hs, NEW p \in Seq(Buffers), NEW c \in Conns, NEW t, DOMAIN hs = Conns,
           Exact(hs, p), hs[c].own = TRUE, hs[c].buf \in Buffers, t.own = FALSE,
           Len(p) < PoolMax
    PROVE  /\ Exact([hs EXCEPT ![c] = t], Append(p, hs[c].buf))
           /\ Append(p, hs[c].buf) \in Seq(Buffers)
<1> DEFINE gs == [hs EXCEPT ![c] = t]
           b == hs[c].buf
           q == Append(p, b)
<1>1. \A d \in Conns : gs[d].own = TRUE => hs[d].own = TRUE /\ gs[d].buf = hs[d].buf /\ d # c
  <2>1. gs[c].own = FALSE
    BY Zenon
  <2>2. \A d \in Conns : d # c => gs[d] = hs[d]
    BY Zenon
  <2> HIDE DEF gs
  <2> QED BY <2>1, <2>2
<1> HIDE DEF gs
<1>2. PICK l \in Nat : l = Len(p)
  OBVIOUS
<1>3. /\ q \in Seq(Buffers) /\ Len(q) = l + 1
      /\ \A i \in 1 .. l : q[i] = p[i]
      /\ q[l + 1] = b
  BY <1>2
<1> HIDE DEF q
<1>4. \A i \in 1 .. l : b # p[i]
  BY <1>2, Zenon DEF Exact
<1>5. \A d, e \in Conns : gs[d].own = TRUE /\ gs[e].own = TRUE /\ gs[d].buf = gs[e].buf => d = e
  BY <1>1, ZenonT(30) DEF Exact
<1>6. \A i, j \in 1 .. l + 1 : q[i] = q[j] => i = j
  <2>1. \A i, j \in 1 .. l : p[i] = p[j] => i = j
    BY <1>2, Zenon DEF Exact
  <2> SUFFICES ASSUME NEW i \in 1 .. l + 1, NEW j \in 1 .. l + 1, q[i] = q[j] PROVE i = j
    OBVIOUS
  <2>2. (i \in 1 .. l \/ i = l + 1) /\ (j \in 1 .. l \/ j = l + 1)
    OBVIOUS
  <2> QED BY <1>3, <1>4, <2>1, <2>2, Zenon
<1>7. \A i \in 1 .. l + 1 : \A d \in Conns : gs[d].own = TRUE => gs[d].buf # q[i]
  <2> SUFFICES ASSUME NEW i \in 1 .. l + 1, NEW d \in Conns, gs[d].own = TRUE
               PROVE  gs[d].buf # q[i]
    OBVIOUS
  <2>1. hs[d].own = TRUE /\ gs[d].buf = hs[d].buf /\ d # c
    BY <1>1, Zenon
  <2>2. CASE i = l + 1
    BY <2>1, <2>2, <1>3, Zenon DEF Exact
  <2>3. CASE i \in 1 .. l
    <3>1. hs[d].buf # p[i]
      BY <2>1, <2>3, <1>2, Zenon DEF Exact
    <3> QED BY <3>1, <2>1, <2>3, <1>3, Zenon
  <2>4. i = l + 1 \/ i \in 1 .. l
    OBVIOUS
  <2> QED BY <2>2, <2>3, <2>4, Zenon
<1>8. l + 1 <= PoolMax
  BY <1>2, PoolAssumption
<1>9. Exact(gs, q)
  BY <1>3, <1>5, <1>6, <1>7, <1>8, Zenon DEF Exact
<1> QED
  BY <1>3, <1>9, Zenon DEF gs, q

\* Buffer b is free once the pool p has become q.
Frees(hs, p, q, b) ==
    /\ p \in Seq(Buffers) /\ q \in Seq(Buffers)
    /\ Len(q) <= Len(p)
    /\ \A i \in 1 .. Len(q) : q[i] = p[i] /\ p[i] # b
    /\ \A d \in Conns : hs[d].own = TRUE => hs[d].buf # b

LEMMA ExactTakes ==
    ASSUME NEW hs, NEW p, NEW q, NEW c \in Conns, NEW t, DOMAIN hs = Conns, Exact(hs, p),
           Frees(hs, p, q, t.buf)
    PROVE  Exact([hs EXCEPT ![c] = t], q)
<1> USE DEF Frees
<1> DEFINE gs == [hs EXCEPT ![c] = t]
<1>1. gs[c] = t /\ \A d \in Conns : d # c => gs[d] = hs[d]
  BY Zenon
<1> HIDE DEF gs
<1>2. PICK l \in Nat, m \in Nat : l = Len(p) /\ m = Len(q)
  OBVIOUS
<1>3. \A i \in 1 .. m : i \in 1 .. l
  BY <1>2
<1>4. \A d, e \in Conns : gs[d].own = TRUE /\ gs[e].own = TRUE /\ gs[d].buf = gs[e].buf => d = e
  <2> SUFFICES ASSUME NEW d \in Conns, NEW e \in Conns, gs[d].own = TRUE, gs[e].own = TRUE,
                      gs[d].buf = gs[e].buf, d # e
               PROVE  FALSE
    OBVIOUS
  <2>1. CASE d = c
    BY <1>1, <2>1, Zenon
  <2>2. CASE e = c
    BY <1>1, <2>2, Zenon
  <2>3. CASE d # c /\ e # c
    BY <1>1, <2>3, Zenon DEF Exact
  <2> QED BY <2>1, <2>2, <2>3, Zenon
<1>5. \A i, j \in 1 .. m : q[i] = q[j] => i = j
  <2> SUFFICES ASSUME NEW i \in 1 .. m, NEW j \in 1 .. m, q[i] = q[j] PROVE i = j
    OBVIOUS
  <2>1. i \in 1 .. l /\ j \in 1 .. l /\ p[i] = p[j]
    BY <1>2, <1>3, Zenon
  <2> QED BY <1>2, <2>1, Zenon DEF Exact
<1>6. \A i \in 1 .. m : \A d \in Conns : gs[d].own = TRUE => gs[d].buf # q[i]
  <2> SUFFICES ASSUME NEW i \in 1 .. m, NEW d \in Conns, gs[d].own = TRUE
               PROVE  gs[d].buf # q[i]
    OBVIOUS
  <2>1. i \in 1 .. l /\ q[i] = p[i] /\ p[i] # t.buf
    BY <1>2, <1>3, Zenon
  <2>2. CASE d = c
    BY <1>1, <2>1, <2>2, Zenon
  <2>3. CASE d # c
    <3>1. gs[d] = hs[d]
      BY <1>1, <2>3, Zenon
    <3>2. hs[d].buf # p[i]
      BY <1>2, <2>1, <3>1, Zenon DEF Exact
    <3> QED BY <2>1, <3>1, <3>2, Zenon
  <2> QED BY <2>2, <2>3, Zenon
<1>7. m <= PoolMax
  <2>1. l <= PoolMax
    BY <1>2, Zenon DEF Exact
  <2> QED BY <1>2, <2>1, PoolAssumption
<1>8. Exact(gs, q)
  BY <1>2, <1>4, <1>5, <1>6, <1>7, Zenon DEF Exact
<1> QED
  BY <1>8 DEF gs

\* There is a buffer that nobody holds as long as somebody holds none.
LEMMA FreeBuffer ==
    ASSUME Handlers, NEW c \in Conns, st[c].own = FALSE
    PROVE  \E b \in Buffers : b \notin Held
<1> DEFINE O == {d \in Conns : st[d].own}
           f == [d \in O |-> st[d].buf]
           n == Cardinality(Conns)
<1>1. IsFiniteSet(Conns) /\ n \in Nat
  BY ConnsAssumption, FS_CardinalityType
<1>2. O \subseteq Conns \ {c}
  OBVIOUS
<1>3. IsFiniteSet(Conns \ {c}) /\ Cardinality(Conns \ {c}) = n - 1
  BY <1>1, FS_RemoveElement
<1>4. IsFiniteSet(O) /\ Cardinality(O) \in Nat /\ Cardinality(O) <= n - 1
  <2> HIDE DEF O
  <2>1. IsFiniteSet(O) /\ Cardinality(O) <= Cardinality(Conns \ {c})
    BY <1>2, <1>3, FS_Subset
  <2> QED BY <1>3, <2>1, FS_CardinalityType
<1>5. f \in Surjection(O, Held)
  <2>1. Held = {st[d].buf : d \in O}
    BY DEF Held
  <2> HIDE DEF O
  <2> QED BY <2>1 DEF Surjection
<1> HIDE DEF O, f
<1>6. IsFiniteSet(Held) /\ Cardinality(Held) <= Cardinality(O)
  BY <1>4, <1>5, FS_Surjection
<1>7. Cardinality(Held) \in Nat
  BY <1>6, FS_CardinalityType
<1>8. IsFiniteSet(1 .. n) /\ Cardinality(1 .. n) = n
  <2>1. Cardinality(1 .. n) = IF 1 > n THEN 0 ELSE n - 1 + 1
    BY <1>1, FS_Interval
  <2>2. IsFiniteSet(1 .. n)
    BY <1>1, FS_Interval
  <2> HIDE DEF n
  <2> QED BY <1>1, <2>1, <2>2
<1>9. Buffers = 1 .. n
  BY DEF Buffers
<1> HIDE DEF n
<1>10. ASSUME Buffers \subseteq Held PROVE FALSE
  <2>1. Cardinality(1 .. n) <= Cardinality(Held)
    BY <1>6, <1>9, <1>10, FS_Subset
  <2> QED BY <1>1, <1>4, <1>6, <1>7, <1>8, <2>1
<1> QED
  BY <1>10

\* get_iobuf hands out a buffer that nobody holds.
LEMMA Taken ==
    ASSUME EntryInv, NEW c \in Conns, st[c].own = FALSE, NEW t, t.buf = GetIobuf,
           pool' = IF pool = <<>> THEN pool ELSE SubSeq(pool, 1, Len(pool) - 1)
    PROVE  /\ GetIobuf \in Buffers
           /\ \A d \in Conns : st[d].own = TRUE => st[d].buf # GetIobuf
           /\ pool' \in Seq(Buffers)
           /\ Exact([st EXCEPT ![c] = t], pool')
<1>0. /\ pool \in Seq(Buffers) /\ DOMAIN st = Conns /\ Handlers /\ Exact(st, pool)
      /\ \A d \in Conns : st[d].own \in BOOLEAN
  BY Zenon DEF EntryInv, Types, Handlers, Handler
<1>1. \A d \in Conns : st[d].own = TRUE => st[d].buf \in Held
  BY DEF Held
<1>2. CASE pool = <<>>
  <2>1. GetIobuf = CHOOSE b \in Buffers : b \notin Held
    BY <1>2, Zenon DEF GetIobuf
  <2>2. GetIobuf \in Buffers /\ GetIobuf \notin Held
    BY <1>0, <2>1, FreeBuffer, Zenon
  <2>3. \A d \in Conns : st[d].own = TRUE => st[d].buf # GetIobuf
    BY <1>1, <2>2, Zenon
  <2>4. pool' = <<>> /\ Len(pool') = 0 /\ pool' \in Seq(Buffers)
    BY <1>2
  <2>5. Exact([st EXCEPT ![c] = t], pool')
    <3>1. Len(pool') <= Len(pool) /\ \A i \in 1 .. Len(pool') : pool'[i] = pool[i] /\ pool[i] # t.buf
      BY <1>2, <2>4
    <3>2. Frees(st, pool, pool', t.buf)
      BY <1>0, <2>3, <2>4, <3>1, Zenon DEF Frees
    <3> QED BY <1>0, <3>2, ExactTakes, Zenon
  <2> QED BY <2>2, <2>3, <2>4, <2>5, Zenon
<1>3. CASE pool # <<>>
  <2>0. PICK l \in Nat : l = Len(pool) /\ l >= 1
    BY <1>0, <1>3
  <2>1. GetIobuf = pool[l]
    BY <1>3, <2>0, Zenon DEF GetIobuf
  <2>2. pool' = SubSeq(pool, 1, l - 1)
    BY <1>3, <2>0, Zenon
  <2>3. l \in 1 .. l /\ l - 1 \in Nat /\ l - 1 <= l
    BY <2>0
  <2>4. GetIobuf \in Buffers
    BY <1>0, <2>0, <2>1, <2>3
  <2>5. \A d \in Conns : st[d].own = TRUE => st[d].buf # GetIobuf
    BY <1>0, <2>0, <2>1, <2>3, Zenon DEF Exact
  <2>6. /\ pool' \in Seq(Buffers) /\ Len(pool') = l - 1
        /\ \A i \in 1 .. l - 1 : pool'[i] = pool[i]
    <3>1. \A n \in Nat : n <= Len(pool) =>
              /\ SubSeq(pool, 1, n) \in Seq(Buffers)
              /\ Len(SubSeq(pool, 1, n)) = n
              /\ \A i \in 1 .. n : SubSeq(pool, 1, n)[i] = pool[i]
      BY <1>0, Prefix
    <3>2. l - 1 \in Nat /\ l - 1 <= Len(pool)
      BY <2>0
    <3> QED BY <2>2, <3>1, <3>2, Zenon
  <2>7. \A i \in 1 .. l - 1 : pool[i] # pool[l]
    <3> SUFFICES ASSUME NEW i \in 1 .. l - 1, pool[i] = pool[l] PROVE FALSE
      OBVIOUS
    <3>1. i \in 1 .. l /\ l \in 1 .. l /\ i # l
      BY <2>0
    <3> QED BY <1>0, <2>0, <3>1, Zenon DEF Exact
  <2>8. Exact([st EXCEPT ![c] = t], pool')
    <3>1. Len(pool') <= Len(pool)
      BY <2>0, <2>6
    <3>2. \A i \in 1 .. Len(pool') : pool'[i] = pool[i] /\ pool[i] # t.buf
      BY <2>1, <2>6, <2>7, Zenon
    <3>3. Frees(st, pool, pool', t.buf)
      BY <1>0, <2>5, <2>6, <3>1, <3>2, Zenon DEF Frees
    <3> QED BY <1>0, <3>3, ExactTakes, Zenon
  <2> QED BY <2>4, <2>5, <2>6, <2>8, Zenon
<1> QED
  BY <1>2, <1>3, Zenon

-----------------------------------------------------------------------------
(***************************************************************************)
(* The steps.                                                              *)
(***************************************************************************)

\* The handler of a connection is in order, with what is in its buffer.
Good(c, k, s, m, f) ==
    /\ Handler(s)
    /\ Stage(k, s)
    /\ Carries(c, k, s, m)
    /\ Wrote(c, k, s, f)

LEMMA GoodOfInv ==
    ASSUME EntryInv, NEW c \in Conns
    PROVE  Good(c, kind[c], st[c], mem[st[c].buf], fwd[c])
BY Zenon DEF EntryInv, Handlers, Bytewise, Good

\* The memory of an owner is not touched by the others.
LEMMA GoodElsewhere ==
    ASSUME NEW c, NEW k, NEW s, NEW m, NEW n, NEW f, Good(c, k, s, m, f),
           s.own = TRUE => n = m
    PROVE  Good(c, k, s, n, f)
<1>1. s.pc \in Relaying /\ s.moved = FALSE => s.own = TRUE
  BY Zenon DEF Good, Handler
<1>2. Carries(c, k, s, m)
  BY Zenon DEF Good
<1>3. Carries(c, k, s, n)
  BY <1>1, <1>2, Zenon DEF Carries
<1> QED
  BY <1>3, Zenon DEF Good

\* One handler has moved on.
LEMMA Step ==
    ASSUME EntryInv, NEW c \in Conns, NEW t,
           node' = node, kind' = kind, st' = [st EXCEPT ![c] = t],
           DOMAIN mem' = Buffers, \A b \in Buffers : Valid(mem'[b], kind),
           \A d \in Conns : d # c /\ st[d].own = TRUE => mem'[st[d].buf] = mem[st[d].buf],
           DOMAIN fwd' = Conns, \A d \in Conns : d # c => fwd'[d] = fwd[d],
           pool' \in Seq(Buffers), Exact([st EXCEPT ![c] = t], pool'),
           Good(c, kind[c], t, mem'[t.buf], fwd'[c])
    PROVE  EntryInv'
<1>1. DOMAIN st = Conns /\ Types
  BY Zenon DEF EntryInv, Types
<1>2. DOMAIN st' = Conns /\ st'[c] = t /\ \A d \in Conns : d # c => st'[d] = st[d]
  BY <1>1, Zenon
<1>3. \A d \in Conns : Good(d, kind[d], st'[d], mem'[st'[d].buf], fwd'[d])
  <2> SUFFICES ASSUME NEW d \in Conns
               PROVE  Good(d, kind[d], st'[d], mem'[st'[d].buf], fwd'[d])
    OBVIOUS
  <2>1. CASE d = c
    BY <1>2, <2>1, Zenon
  <2>2. CASE d # c
    <3>1. Good(d, kind[d], st[d], mem[st[d].buf], fwd[d])
      BY GoodOfInv, Zenon
    <3>2. Good(d, kind[d], st[d], mem'[st[d].buf], fwd[d])
      BY <2>2, <3>1, GoodElsewhere, Zenon
    <3> QED BY <1>2, <2>2, <3>2, Zenon
  <2> QED BY <2>1, <2>2, Zenon
<1>4. Types'
  BY <1>1, <1>2, Zenon DEF Types
<1>5. Handlers'
  BY <1>3, Zenon DEF Handlers, Good
<1>6. Exact(st, pool)'
  BY Zenon
<1>7. Memory'
  BY Zenon DEF Memory
<1>8. Bytewise'
  BY <1>3, Zenon DEF Bytewise, Good
<1> QED
  BY <1>4, <1>5, <1>6, <1>7, <1>8, Zenon DEF EntryInv

\* A handler ends and gives back what it owns.
LEMMA Released ==
    ASSUME EntryInv, NEW c \in Conns, NEW t, t.own = FALSE,
           pool' = IF st[c].own THEN GiveBack(st[c].buf) ELSE pool
    PROVE  pool' \in Seq(Buffers) /\ Exact([st EXCEPT ![c] = t], pool')
<1>1. /\ pool \in Seq(Buffers) /\ DOMAIN st = Conns /\ Exact(st, pool)
      /\ st[c].own \in BOOLEAN /\ (st[c].own = TRUE => st[c].buf \in Buffers)
  BY Zenon DEF EntryInv, Types, Handlers, Handler
<1>2. CASE st[c].own = FALSE
  BY <1>1, <1>2, ExactLess, Zenon
<1>3. CASE st[c].own = TRUE
  <2>1. pool' = IF Len(pool) < PoolMax THEN Append(pool, st[c].buf) ELSE pool
    BY <1>3, Zenon DEF GiveBack
  <2>2. CASE Len(pool) < PoolMax
    <3>1. pool' = Append(pool, st[c].buf)
      BY <2>1, <2>2, Zenon
    <3> QED BY <1>1, <1>3, <2>2, <3>1, ExactReleases, Zenon
  <2>3. CASE ~(Len(pool) < PoolMax)
    <3>1. pool' = pool
      BY <2>1, <2>3, Zenon
    <3> QED BY <1>1, <3>1, ExactLess, Zenon
  <2> QED BY <2>2, <2>3, Zenon
<1> QED
  BY <1>1, <1>2, <1>3

\* An ended handler is in order.
LEMMA GoodEnd ==
    ASSUME NEW c, NEW k, NEW s, NEW t, NEW m, NEW n, NEW f, Good(c, k, s, m, f), Ended(s, t)
    PROVE  Good(c, k, t, n, f)
<1>1. Handler(t)
  BY DEF Good, Handler, Ended, Stays, Pcs, Reading, Relaying
<1>2. Stage(k, t)
  BY DEF Stage, Ended
<1>3. Carries(c, k, t, n)
  BY DEF Carries, Ended, Relaying
<1>4. Wrote(c, k, t, f)
  BY Zenon DEF Good, Wrote, Ended, Stays
<1> QED
  BY <1>1, <1>2, <1>3, <1>4, Zenon DEF Good

LEMMA EndStep ==
    ASSUME EntryInv, NEW c \in Conns, NEW t, Ended(st[c], t), Returns(c), Goes(c, t),
           UNCHANGED <<node, listening, kind, mem, fwd>>
    PROVE  EntryInv'
<1>1. node' = node /\ kind' = kind /\ mem' = mem /\ fwd' = fwd /\ st' = [st EXCEPT ![c] = t]
  BY Zenon DEF Goes
<1>2. pool' \in Seq(Buffers) /\ Exact([st EXCEPT ![c] = t], pool')
  BY Released, Zenon DEF Returns, Ended
<1>3. Good(c, kind[c], t, mem[t.buf], fwd[c])
  BY GoodOfInv, GoodEnd, Zenon
<1>4. DOMAIN mem = Buffers /\ DOMAIN fwd = Conns /\ \A b \in Buffers : Valid(mem[b], kind)
  BY Zenon DEF EntryInv, Types, Memory
<1> QED
  BY <1>1, <1>2, <1>3, <1>4, Step, Zenon

LEMMA EndedWith ==
    ASSUME NEW s, DOMAIN s = Fields, NEW x
    PROVE  Ended(s, [Over(s) EXCEPT !.trouble = x])
<1>1. Ended(s, Over(s))
  BY OverEnds
<1> QED
  BY <1>1 DEF Ended, Stays, Fields

LEMMA EndSteps ==
    ASSUME EntryInv, NEW c \in Conns, ReadFails(c) \/ RelayFails(c) \/ RelayEnds(c)
    PROVE  EntryInv'
<1>1. DOMAIN st[c] = Fields
  BY Zenon DEF EntryInv, Handlers, Handler
<1>2. CASE ReadFails(c)
  <2>1. Ended(st[c], [Over(st[c]) EXCEPT !.trouble = TRUE])
    BY <1>1, EndedWith
  <2> QED BY <1>2, <2>1, EndStep, Zenon DEF ReadFails
<1>3. CASE RelayFails(c)
  <2>1. \A x : Ended(st[c], [Over(st[c]) EXCEPT !.trouble = x])
    BY <1>1, EndedWith
  <2>2. PICK t : Ended(st[c], t) /\ Goes(c, t)
    <3>1. Goes(c, [Over(st[c]) EXCEPT !.trouble =
                       Over(st[c]).trouble \/ Direct(c) \/ ~node.session])
      BY <1>3, Zenon DEF RelayFails
    <3> QED BY <2>1, <3>1, Zenon
  <2> QED BY <1>3, <2>2, EndStep, Zenon DEF RelayFails
<1>4. CASE RelayEnds(c)
  BY <1>1, <1>4, OverEnds, EndStep, Zenon DEF RelayEnds
<1> QED
  BY <1>2, <1>3, <1>4, Zenon

\* The length of a handshake.
LEMMA Handshakes ==
    ASSUME NEW k \in DOMAIN Script, NEW dst \in BOOLEAN
    PROVE  /\ HandshakeOf(k, dst) \in Nat
           /\ k \in Socks /\ dst = FALSE =>
                  HandshakeOf(k, dst) = Len(Joined(SubSeq(Script[k].f, 1, 2)))
           /\ k = "connect" => HandshakeOf(k, dst) = 15
           /\ (k \notin Socks \/ dst = TRUE) /\ k # "connect" => HandshakeOf(k, dst) = 0
<1>1. ~(k \in Socks /\ k = "connect")
  BY DEF Socks
<1>2. CASE k \in Socks /\ dst = FALSE
  <2>1. HandshakeOf(k, dst) = Len(Joined(SubSeq(Script[k].f, 1, 2)))
    BY <1>1, <1>2 DEF HandshakeOf
  <2>2. \E r \in {8, 10, 22} : Len(Joined(SubSeq(Script[k].f, 1, 2))) = 4 + r
    BY <1>2, SocksKinds, Zenon
  <2>3. HandshakeOf(k, dst) \in Nat
    BY <2>1, <2>2
  <2> QED BY <1>1, <1>2, <2>1, <2>3
<1>3. CASE k = "connect"
  <2>1. HandshakeOf(k, dst) = Len(Script[k].f[1])
    BY <1>1, <1>3 DEF HandshakeOf
  <2>2. Len(Script["connect"].f[1]) = 15
    BY ConnectKind, Zenon DEF IsConnect
  <2>3. HandshakeOf(k, dst) = 15
    BY <1>3, <2>1, <2>2, Zenon
  <2> QED BY <1>1, <1>3, <2>3
<1>4. CASE (k \notin Socks \/ dst = TRUE) /\ k # "connect"
  <2>1. HandshakeOf(k, dst) = 0
    BY <1>4 DEF HandshakeOf
  <2> QED BY <1>4, <2>1
<1> QED
  BY <1>2, <1>3, <1>4

\* The relay writes what is in the buffer.
LEMMA ForwardStep ==
    ASSUME EntryInv, NEW c \in Conns, Forward(c)
    PROVE  EntryInv'
<1> DEFINE s == st[c]
           t == [s EXCEPT !.pc = "pump"]
           m == mem[s.buf]
           h == HandshakeOf(kind[c], s.dst)
           f == SubSeq(m, 1, s.n)
<1>1. /\ node' = node /\ kind' = kind /\ mem' = mem /\ pool' = pool
      /\ st' = [st EXCEPT ![c] = t] /\ fwd' = [fwd EXCEPT ![c] = f] /\ s.pc = "relay"
  BY Zenon DEF Forward, Goes
<1>2. Good(c, kind[c], s, m, fwd[c])
  BY GoodOfInv
<1>3. /\ DOMAIN mem = Buffers /\ DOMAIN fwd = Conns /\ \A b \in Buffers : Valid(mem[b], kind)
      /\ DOMAIN st = Conns /\ pool \in Seq(Buffers) /\ Exact(st, pool)
  BY Zenon DEF EntryInv, Types, Memory
<1>4. /\ DOMAIN t = Fields /\ t.pc = "pump" /\ t.own = s.own /\ t.moved = s.moved /\ t.dst = s.dst
      /\ t.at = s.at /\ t.buf = s.buf /\ t.n = s.n
  <2>1. DOMAIN s = Fields
    BY <1>2, Zenon DEF Good, Handler
  <2> HIDE DEF s
  <2> QED BY <2>1 DEF Fields
<1> HIDE DEF t
<1>5. Handler(t)
  <2> HIDE DEF s
  <2> QED BY <1>1, <1>2, <1>4 DEF Good, Handler, Pcs, Reading, Relaying
<1>6. Stage(kind[c], t)
  BY <1>4 DEF Stage
<1>7. Carries(c, kind[c], s, m)
  BY <1>2, Zenon DEF Good
<1>8. Carries(c, kind[c], t, m)
  BY <1>1, <1>4, <1>7 DEF Carries, Relaying
<1>9. s.moved = FALSE => f = Payload(c, h, s.at - h)
  <2> SUFFICES ASSUME s.moved = FALSE PROVE f = Payload(c, h, s.at - h)
    OBVIOUS
  <2>1. /\ s.n \in Nat /\ s.at = h + s.n /\ s.n <= Len(m)
        /\ \A i \in 1 .. s.n : m[i] = <<c, h + i>>
    BY <1>1, <1>7, Zenon DEF Carries, Relaying
  <2>2. s.own = TRUE /\ s.buf \in Buffers
    BY <1>1, <1>2, Zenon DEF Good, Handler, Relaying
  <2>3. m \in Seq(Conns \X Nat)
    BY <1>3, <2>2, Zenon DEF Valid
  <2>4. h \in Nat
    <3>1. kind[c] \in DOMAIN Script
      BY DEF EntryInv, Types
    <3>2. s.dst \in BOOLEAN
      BY <1>2, Zenon DEF Good, Handler
    <3> HIDE DEF s
    <3> QED BY <3>1, <3>2, Handshakes, Zenon
  <2>5. PICK n \in Nat : n = s.n
    BY <2>1, Zenon
  <2>6. s.at - h = n
    BY <2>1, <2>4, <2>5
  <2> HIDE DEF s, m, h
  <2>7. /\ SubSeq(m, 1, n) \in Seq(Conns \X Nat)
        /\ Len(SubSeq(m, 1, n)) = n
        /\ \A i \in 1 .. n : SubSeq(m, 1, n)[i] = m[i]
    BY <2>1, <2>3, <2>5, Prefix, Zenon
  <2>8. /\ Payload(c, h, n) \in Seq(Conns \X Nat)
        /\ Len(Payload(c, h, n)) = n
        /\ \A i \in 1 .. n : Payload(c, h, n)[i] = <<c, h + i>>
    BY <2>4 DEF Payload
  <2>9. SubSeq(m, 1, n) = Payload(c, h, n)
    <3>1. \A i \in 1 .. n : SubSeq(m, 1, n)[i] = Payload(c, h, n)[i]
      BY <2>1, <2>5, <2>7, <2>8, Zenon
    <3> HIDE DEF f
    <3> QED BY <2>7, <2>8, <3>1, SeqEqual, Zenon
  <2> QED BY <2>5, <2>6, <2>9, Zenon DEF f
<1>10. Wrote(c, kind[c], t, f)
  BY <1>4, <1>9, Zenon DEF Wrote, h
<1>11. Good(c, kind[c], t, mem'[t.buf], fwd'[c])
  <2>1. fwd'[c] = f /\ mem'[t.buf] = m
    BY <1>1, <1>3, <1>4, Zenon
  <2> HIDE DEF m, f
  <2> QED BY <1>5, <1>6, <1>8, <1>10, <2>1, Zenon DEF Good
<1>12. Exact([st EXCEPT ![c] = t], pool')
  BY <1>1, <1>3, <1>4, ExactKeeps, Zenon
<1>13. DOMAIN fwd' = Conns /\ \A d \in Conns : d # c => fwd'[d] = fwd[d]
  BY <1>1, <1>3, Zenon
<1> HIDE DEF f, s
<1> QED
  BY <1>1, <1>3, <1>11, <1>12, <1>13, Step, Zenon

\* A handler that starts.
Fresh(t, b) ==
    /\ DOMAIN t = Fields
    /\ t.pc = "first" /\ t.dst \in BOOLEAN /\ t.buf = b /\ t.own = TRUE
    /\ t.at = 0 /\ t.sent = 1 /\ t.moved = FALSE

LEMMA IdleRecord ==
    /\ DOMAIN Idle = Fields
    /\ Idle.at = 0 /\ Idle.sent = 1 /\ Idle.moved = FALSE /\ Idle.pc = "idle"
    /\ Idle.own = FALSE /\ Idle.dst = FALSE
BY DEF Idle, Fields

LEMMA FreshRecord ==
    ASSUME NEW dst \in BOOLEAN, NEW b
    PROVE  Fresh([Idle EXCEPT !.pc = "first", !.dst = dst, !.buf = b, !.own = TRUE], b)
<1>1. PICK r : r = Idle
  OBVIOUS
<1>2. DOMAIN r = Fields /\ r.at = 0 /\ r.sent = 1 /\ r.moved = FALSE
  BY <1>1, IdleRecord
<1>3. Fresh([r EXCEPT !.pc = "first", !.dst = dst, !.buf = b, !.own = TRUE], b)
  BY <1>2 DEF Fresh, Fields
<1> QED
  BY <1>1, <1>3, Zenon

LEMMA GoodFresh ==
    ASSUME NEW c, NEW k, NEW t, NEW m, NEW b \in Buffers, Fresh(t, b)
    PROVE  Good(c, k, t, m, NotYet)
<1>1. Handler(t)
  <2>1. /\ "first" \in Pcs /\ "first" \in Reading /\ "first" \notin Relaying
        /\ "first" \in Reading \cup Relaying /\ 0 \in Nat
    BY DEF Pcs, Reading, Relaying
  <2> QED BY <2>1, Zenon DEF Handler, Fresh
<1>2. Stage(k, t)
  BY DEF Stage, Fresh
<1>3. Carries(c, k, t, m)
  BY DEF Carries, Fresh, Relaying
<1>4. Wrote(c, k, t, NotYet)
  BY Zenon DEF Wrote
<1> QED
  BY <1>1, <1>2, <1>3, <1>4, Zenon DEF Good

LEMMA AcceptStep ==
    ASSUME EntryInv, NEW c \in Conns, Accept(c)
    PROVE  EntryInv'
<1>1. /\ node' = node /\ kind' = kind /\ fwd' = fwd /\ st[c].pc = "idle"
      /\ mem' = IF pool = <<>> THEN [mem EXCEPT ![GetIobuf] = <<>>] ELSE mem
      /\ pool' = IF pool = <<>> THEN pool ELSE SubSeq(pool, 1, Len(pool) - 1)
  BY Zenon DEF Accept
<1>2. /\ DOMAIN mem = Buffers /\ DOMAIN fwd = Conns /\ \A b \in Buffers : Valid(mem[b], kind)
      /\ node.redirect \in BOOLEAN
  BY Zenon DEF EntryInv, Types, Memory
<1>3. PICK t : Fresh(t, GetIobuf) /\ st' = [st EXCEPT ![c] = t]
  <2>1. PICK dst \in {FALSE, node.redirect} :
            Goes(c, [Idle EXCEPT !.pc = "first", !.dst = dst, !.buf = GetIobuf, !.own = TRUE])
    BY Zenon DEF Accept
  <2>2. dst \in BOOLEAN
    BY <1>2, <2>1, Zenon
  <2> QED BY <2>1, <2>2, FreshRecord, Zenon DEF Goes
<1>4. Good(c, kind[c], st[c], mem[st[c].buf], fwd[c])
  BY GoodOfInv
<1>5. st[c].own = FALSE
  BY <1>1, <1>4 DEF Good, Handler, Reading, Relaying
<1>6. fwd[c] = NotYet
  BY <1>1, <1>4 DEF Good, Wrote
<1>7. /\ GetIobuf \in Buffers
      /\ \A d \in Conns : st[d].own = TRUE => st[d].buf # GetIobuf
      /\ pool' \in Seq(Buffers)
      /\ Exact([st EXCEPT ![c] = t], pool')
  BY <1>1, <1>3, <1>5, Taken, Zenon DEF Fresh
<1>8. Good(c, kind[c], t, mem'[t.buf], fwd'[c])
  BY <1>1, <1>3, <1>6, <1>7, GoodFresh, Zenon
<1>9. Valid(<<>>, kind)
  BY DEF Valid
<1>10. DOMAIN mem' = Buffers /\ \A b \in Buffers : mem'[b] = mem[b] \/ mem'[b] = <<>>
  BY <1>1, <1>2, <1>7, Zenon
<1>11. \A b \in Buffers : Valid(mem'[b], kind)
  BY <1>2, <1>9, <1>10, Zenon
<1>12. \A d \in Conns : d # c /\ st[d].own = TRUE => mem'[st[d].buf] = mem[st[d].buf]
  <2> SUFFICES ASSUME NEW d \in Conns, st[d].own = TRUE PROVE mem'[st[d].buf] = mem[st[d].buf]
    OBVIOUS
  <2>1. st[d].buf # GetIobuf
    BY <1>7, Zenon
  <2>2. st[d].buf \in Buffers
    BY Zenon DEF EntryInv, Handlers, Handler
  <2>3. CASE pool = <<>>
    BY <1>1, <1>2, <2>1, <2>2, <2>3, Zenon
  <2>4. CASE pool # <<>>
    BY <1>1, <2>4, Zenon
  <2> QED BY <2>3, <2>4, Zenon
<1>13. DOMAIN fwd' = Conns /\ \A d \in Conns : d # c => fwd'[d] = fwd[d]
  BY <1>1, <1>2, Zenon
<1> QED
  BY <1>1, <1>3, <1>7, <1>8, <1>10, <1>11, <1>12, <1>13, Step, Zenon

-----------------------------------------------------------------------------
(***************************************************************************)
(* Reads.                                                                  *)
(***************************************************************************)
ArrivedOf(k, sent) == Len(Joined(SubSeq(Script[k].f, 1, sent)))

\* What clients send are bytes.
LEMMA AllBytes ==
    ASSUME NEW k \in DOMAIN Script
    PROVE  /\ Bytes(k) \in Seq(Nat)
           /\ ArrivedOf(k, 1) \in Nat /\ ArrivedOf(k, 1) <= Len(Bytes(k))
<1>1. CASE k \in Socks
  <2>1. PICK r \in {8, 10, 22} : SocksStream(Bytes(k), r) /\ ArrivedOf(k, 1) = 4
    BY <1>1, SocksKinds, Zenon DEF Bytes, ArrivedOf
  <2> QED BY <2>1 DEF SocksStream
<1>2. CASE k = "connect"
  <2>1. Bytes(k) \in Seq(Nat) /\ Len(Bytes(k)) = 17
    BY <1>2, ConnectKind, Zenon DEF Bytes
  <2>2. ArrivedOf(k, 1) = 15
    BY <1>2, ConnectKind, Zenon DEF ArrivedOf, IsConnect
  <2> QED BY <2>1, <2>2
<1>3. CASE k = "badport"
  <2>1. Bytes(k) \in Seq(Nat) /\ Len(Bytes(k)) = 15 /\ ArrivedOf(k, 1) = 15
    BY <1>3, BadportKind, Zenon DEF Bytes, ArrivedOf, IsConnect
  <2> QED BY <2>1
<1>4. CASE k \in Others
  <2>1. Bytes(k) \in Seq(Nat) /\ ArrivedOf(k, 1) = Len(Bytes(k))
    BY <1>4, OtherKinds, Zenon DEF Bytes, ArrivedOf, IsOther
  <2> QED BY <2>1
<1>5. k \in Socks \/ k \in Others \/ k = "connect" \/ k = "badport"
  BY AllKinds
<1> QED
  BY <1>1, <1>2, <1>3, <1>4, <1>5, Zenon

\* No more arrives than there is.
LEMMA ArrivedBound ==
    ASSUME NEW k \in DOMAIN Script, NEW s, Stage(k, s), s.pc \in Reading
    PROVE  ArrivedOf(k, s.sent) \in Nat /\ ArrivedOf(k, s.sent) <= Len(Bytes(k))
<1>1. CASE s.pc = "first"
  BY <1>1, AllBytes, Zenon DEF Stage
<1>2. CASE s.pc = "request"
  <2>1. k \in Socks /\ s.sent = 2
    BY <1>2, Zenon DEF Stage
  <2>2. PICK r \in {8, 10, 22} : SocksStream(Bytes(k), r) /\ ArrivedOf(k, 2) = 4 + r
    BY <2>1, SocksKinds, Zenon DEF Bytes, ArrivedOf
  <2>3. ArrivedOf(k, 2) \in Nat /\ ArrivedOf(k, 2) <= Len(Bytes(k))
    BY <2>2 DEF SocksStream
  <2> QED BY <2>1, <2>3, Zenon
<1>3. CASE s.pc = "hello"
  <2>1. k \in Socks /\ s.sent = 3
    BY <1>3, Zenon DEF Stage
  <2>2. ArrivedOf(k, 3) = Len(Bytes(k))
    BY <2>1, SocksKinds, Zenon DEF Bytes, ArrivedOf
  <2>3. Bytes(k) \in Seq(Nat)
    BY AllBytes
  <2>4. Len(Bytes(k)) \in Nat /\ Len(Bytes(k)) <= Len(Bytes(k))
    BY <2>3
  <2> QED BY <2>1, <2>2, <2>4, Zenon
<1> QED
  BY <1>1, <1>2, <1>3 DEF Reading

\* The buffer m holds the k bytes of the stream x of c from position at on.
Fetched(c, x, at, k, m) ==
    /\ x \in Seq(Nat) /\ at \in Nat /\ k \in Nat /\ k >= 1
    /\ at + k <= Len(x)
    /\ Valid(m, kind)
    /\ k <= Len(m)
    /\ \A i \in 1 .. k : m[i] = <<c, at + i>>

LEMMA FilledFetched ==
    ASSUME EntryInv, NEW c \in Conns, st[c].pc \in Reading,
           NEW k \in 1 .. Arrived(c) - st[c].at
    PROVE  /\ Fetched(c, Bytes(kind[c]), st[c].at, k, Filled(c, k))
           /\ st[c].at + k <= ArrivedOf(kind[c], st[c].sent)
<1> DEFINE x == Bytes(kind[c])
           at == st[c].at
           m == Filled(c, k)
           old == mem[st[c].buf]
           a == ArrivedOf(kind[c], st[c].sent)
           len == IF Len(old) > k THEN Len(old) ELSE k
<1>1. Good(c, kind[c], st[c], mem[st[c].buf], fwd[c])
  BY GoodOfInv
<1>2. /\ at \in Nat /\ st[c].own = TRUE /\ st[c].buf \in Buffers /\ Stage(kind[c], st[c])
  BY <1>1, Zenon DEF Good, Handler
<1>3. kind[c] \in DOMAIN Script /\ \A d \in Conns : kind[d] \in DOMAIN Script
  BY DEF EntryInv, Types
<1>4. a \in Nat /\ a <= Len(x) /\ x \in Seq(Nat)
  BY <1>2, <1>3, ArrivedBound, AllBytes, Zenon
<1>5. Arrived(c) = a
  BY DEF Arrived, ArrivedOf
<1>6. Valid(old, kind)
  BY <1>2, Zenon DEF EntryInv, Memory
<1>7. m = [i \in 1 .. len |-> IF i <= k THEN <<c, at + i>> ELSE old[i]]
  BY Zenon DEF Filled
<1> HIDE DEF x, m, old, a
<1>8. k \in Nat /\ k >= 1 /\ at + k <= a
  <2>1. k \in 1 .. a - at
    BY <1>5, Zenon
  <2> HIDE DEF at
  <2> QED BY <1>2, <1>4, <2>1
<1> HIDE DEF at
<1>9. at + k <= Len(x)
  <2>1. Len(x) \in Nat
    BY <1>4
  <2> QED BY <1>2, <1>4, <1>8, <2>1
<1>10. old \in Seq(Conns \X Nat) /\ Len(old) \in Nat
  BY <1>6 DEF Valid
<1>11. len \in Nat /\ k <= len /\ Len(old) <= len /\ (len > k => len = Len(old))
  BY <1>8, <1>10
<1> HIDE DEF len
<1>12. \A i \in 1 .. len : m[i] = IF i <= k THEN <<c, at + i>> ELSE old[i]
  BY <1>7, Zenon
<1>13. \A i \in 1 .. k : i \in 1 .. len /\ i <= k
  BY <1>8, <1>11
<1>14. \A i \in 1 .. k : m[i] = <<c, at + i>>
  BY <1>12, <1>13, Zenon
<1>15. \A i \in 1 .. len : ~(i <= k) => i \in 1 .. Len(old) /\ m[i] = old[i]
  <2> SUFFICES ASSUME NEW i \in 1 .. len, ~(i <= k)
               PROVE  i \in 1 .. Len(old) /\ m[i] = old[i]
    OBVIOUS
  <2>1. PICK l \in Nat : l = Len(old)
    BY <1>10
  <2>2. i \in 1 .. l
    BY <1>8, <1>11, <2>1
  <2> QED BY <1>12, <2>1, <2>2, Zenon
<1>16. \A i \in 1 .. len : m[i] \in Conns \X Nat
  <2> SUFFICES ASSUME NEW i \in 1 .. len PROVE m[i] \in Conns \X Nat
    OBVIOUS
  <2>1. CASE i <= k
    <3>1. m[i] = <<c, at + i>>
      BY <1>12, <2>1, Zenon
    <3> QED BY <1>2, <3>1
  <2>2. CASE ~(i <= k)
    <3>1. i \in 1 .. Len(old) /\ m[i] = old[i]
      BY <1>15, <2>2, Zenon
    <3> QED BY <1>10, <3>1
  <2> QED BY <2>1, <2>2, Zenon
<1>17. m \in Seq(Conns \X Nat) /\ Len(m) = len
  <2>1. m \in [1 .. len -> Conns \X Nat]
    BY <1>7, <1>16, Zenon
  <2> QED BY <1>11, <2>1
<1>18. \A i \in 1 .. len : m[i][2] \in 1 .. Len(Bytes(kind[m[i][1]]))
  <2> SUFFICES ASSUME NEW i \in 1 .. len PROVE m[i][2] \in 1 .. Len(Bytes(kind[m[i][1]]))
    OBVIOUS
  <2>1. CASE i <= k
    <3>1. m[i] = <<c, at + i>>
      BY <1>12, <2>1, Zenon
    <3>2. m[i][1] = c /\ m[i][2] = at + i
      BY <3>1
    <3>3. at + i \in 1 .. Len(x)
      <4>1. PICK l \in Nat : l = Len(x)
        BY <1>4
      <4> QED BY <1>2, <1>8, <1>9, <2>1, <4>1
    <3> QED BY <3>2, <3>3, Zenon DEF x
  <2>2. CASE ~(i <= k)
    BY <1>6, <1>15, <2>2, Zenon DEF Valid
  <2> QED BY <2>1, <2>2, Zenon
<1>19. Valid(m, kind)
  BY <1>17, <1>18, Zenon DEF Valid
<1>20. Fetched(c, x, at, k, m)
  BY <1>2, <1>4, <1>8, <1>9, <1>11, <1>14, <1>17, <1>19, Zenon DEF Fetched
<1> QED
  BY <1>8, <1>20, Zenon DEF x, at, m, a

\* The values v of the k bytes that were read.
Shows(x, at, k, m, v) ==
    /\ v \in Seq(Nat) /\ Len(v) = k
    /\ \A i \in 1 .. k : v[i] = x[at + i]
    /\ \A i \in 1 .. k : Value(m, i) = x[at + i]
    /\ \A i \in Nat \ {0} : Value(m, i) \in Nat

\* A function on 1 .. n is a sequence of length n.
LEMMA FunctionIsSeq ==
    ASSUME NEW S, NEW n \in Nat, NEW f \in [1 .. n -> S]
    PROVE  f \in Seq(S) /\ Len(f) = n
<1>1. f \in Seq(S)
  BY SeqDef
<1>2. DOMAIN f = 1 .. n
  OBVIOUS
<1>3. Len(f) \in Nat /\ DOMAIN f = 1 .. Len(f)
  BY <1>1, LenProperties
<1>4. \A m \in Nat : 1 .. m = 1 .. n => m = n
  <2> SUFFICES ASSUME NEW m \in Nat, 1 .. m = 1 .. n PROVE m = n
    OBVIOUS
  <2>1. CASE m < n
    <3>1. n \in 1 .. n /\ n \notin 1 .. m
      BY <2>1
    <3> QED BY <3>1
  <2>2. CASE n < m
    <3>1. m \in 1 .. m /\ m \notin 1 .. n
      BY <2>2
    <3> QED BY <3>1
  <2> QED BY <2>1, <2>2
<1> QED
  BY <1>1, <1>2, <1>3, <1>4

LEMMA ValuesShow ==
    ASSUME EntryInv, NEW c \in Conns, NEW at, NEW k, NEW m,
           Fetched(c, Bytes(kind[c]), at, k, m)
    PROVE  Shows(Bytes(kind[c]), at, k, m, Values(m, k))
<1> DEFINE x == Bytes(kind[c])
<1>1. \A d \in Conns : kind[d] \in DOMAIN Script
  BY DEF EntryInv, Types
<1>2. \A d \in Conns : Stream(d) = Bytes(kind[d]) /\ Bytes(kind[d]) \in Seq(Nat)
  BY <1>1, AllBytes, Zenon DEF Stream, Bytes
<1>3. /\ x \in Seq(Nat) /\ at \in Nat /\ k \in Nat /\ k >= 1 /\ at + k <= Len(x)
      /\ k <= Len(m) /\ \A i \in 1 .. k : m[i] = <<c, at + i>>
  BY Zenon DEF Fetched
<1>4. /\ m \in Seq(Conns \X Nat)
      /\ \A i \in 1 .. Len(m) : m[i][2] \in 1 .. Len(Bytes(kind[m[i][1]]))
  BY Zenon DEF Fetched, Valid
<1> HIDE DEF x
<1>5. PICK l \in Nat : l = Len(m)
  BY <1>4
<1>6. \A i \in Nat \ {0} : Value(m, i) \in Nat
  <2> SUFFICES ASSUME NEW i \in Nat \ {0} PROVE Value(m, i) \in Nat
    OBVIOUS
  <2>1. CASE i <= Len(m)
    <3>1. i \in 1 .. Len(m)
      BY <1>5, <2>1
    <3>2. m[i] \in Conns \X Nat
      BY <1>4, <3>1
    <3>3. m[i][1] \in Conns
      BY <3>2
    <3>4. PICK y \in Seq(Nat) : y = Stream(m[i][1]) /\ m[i][2] \in 1 .. Len(y)
      BY <1>2, <1>4, <3>1, <3>3, Zenon
    <3>5. y[m[i][2]] \in Nat
      BY <3>4
    <3> QED BY <2>1, <3>4, <3>5, Zenon DEF Value
  <2>2. CASE ~(i <= Len(m))
    <3>1. Value(m, i) = 0
      BY <2>2, Zenon DEF Value
    <3> QED BY <3>1
  <2> QED BY <2>1, <2>2, Zenon
<1>7. ASSUME NEW i \in 1 .. k PROVE Value(m, i) = x[at + i]
  <2>1. i <= Len(m)
    BY <1>3, <1>5
  <2>2. m[i][1] = c /\ m[i][2] = at + i
    BY <1>3
  <2>3. Stream(c) = x
    BY <1>2, Zenon DEF x
  <2> QED BY <2>1, <2>2, <2>3, Zenon DEF Value
<1>8. ASSUME NEW i \in 1 .. k PROVE Value(m, i) \in Nat
  <2>1. i \in Nat \ {0}
    BY <1>3
  <2> QED BY <1>6, <2>1, Zenon
<1> DEFINE v == Values(m, k)
<1>9. v = [i \in 1 .. k |-> Value(m, i)]
  BY Zenon DEF Values
<1> HIDE DEF v
<1>10. v \in [1 .. k -> Nat]
  BY <1>8, <1>9, Zenon
<1>11. v \in Seq(Nat) /\ Len(v) = k
  BY <1>3, <1>10, FunctionIsSeq, Zenon
<1>12. \A i \in 1 .. k : v[i] = x[at + i]
  BY <1>7, <1>9, Zenon
<1>13. Shows(x, at, k, m, v)
  BY <1>6, <1>7, <1>11, <1>12, Zenon DEF Shows
<1> QED
  BY <1>13, Zenon DEF x, v

\* The handler s after a read: it owns its buffer.
Holds(s) ==
    /\ DOMAIN s = Fields
    /\ s.own = TRUE /\ s.moved = FALSE /\ s.dst \in BOOLEAN
    /\ s.at \in Nat /\ s.n \in Nat /\ s.buf \in Buffers

LEMMA GoodGone ==
    ASSUME NEW c, NEW k, NEW s, NEW t, NEW m, Holds(s), Gone(s, t) \/ Viewing(s, t)
    PROVE  Good(c, k, t, m, NotYet)
<1>0. /\ "done" \in Pcs /\ "relay" \in Pcs /\ "done" \notin Reading /\ "relay" \notin Reading
      /\ "done" \notin Relaying
  BY DEF Pcs, Reading, Relaying
<1>1. Handler(t)
  BY <1>0, Zenon DEF Handler, Holds, Gone, Viewing, Stays
<1>2. Stage(k, t)
  BY DEF Stage, Gone, Viewing
<1>3. Carries(c, k, t, m)
  <2>1. t.pc \notin Relaying \/ t.moved = TRUE
    BY <1>0, Zenon DEF Gone, Viewing
  <2> QED BY <2>1 DEF Carries
<1> QED
  BY <1>1, <1>2, <1>3, Zenon DEF Good, Wrote

LEMMA GoodReading ==
    ASSUME NEW c, NEW k, NEW s, NEW t, NEW m, Holds(s), Greeted(s, t) \/ Admitted(s, t),
           Stage(k, t)
    PROVE  Good(c, k, t, m, NotYet)
<1>0. /\ "request" \in Pcs /\ "hello" \in Pcs /\ "request" \in Reading /\ "hello" \in Reading
      /\ "request" \notin Relaying /\ "hello" \notin Relaying
  BY DEF Pcs, Reading, Relaying
<1>1. \/ t.pc = "request" \/ t.pc = "hello"
  BY Zenon DEF Greeted, Admitted
<1>2. Stays(s, t) /\ t.own = TRUE /\ t.moved = FALSE
  BY Zenon DEF Greeted, Admitted, Holds
<1>3. Handler(t)
  BY <1>0, <1>1, <1>2, Zenon DEF Handler, Holds, Stays
<1>4. Carries(c, k, t, m)
  BY <1>0, <1>1, Zenon DEF Carries
<1> QED
  BY <1>3, <1>4, Zenon DEF Good, Wrote

LEMMA GoodRelay ==
    ASSUME NEW c, NEW k, NEW s, NEW t, NEW m, Holds(s), Relayed(s, t) \/ Answered(s, t),
           t.n \in Nat, s.at = HandshakeOf(k, s.dst) + t.n, t.n <= Len(m),
           \A i \in 1 .. t.n : m[i] = <<c, HandshakeOf(k, s.dst) + i>>
    PROVE  Good(c, k, t, m, NotYet)
<1>0. "relay" \in Pcs /\ "relay" \notin Reading /\ "relay" \in Relaying
  BY DEF Pcs, Reading, Relaying
<1>1. Stays(s, t) /\ t.pc = "relay" /\ t.own = TRUE /\ t.moved = FALSE
  BY Zenon DEF Relayed, Answered, Holds
<1>2. Handler(t)
  BY <1>0, <1>1, Zenon DEF Handler, Holds, Stays
<1>3. Stage(k, t)
  BY <1>1 DEF Stage
<1>4. t.dst = s.dst /\ t.at = s.at
  BY <1>1, Zenon DEF Stays
<1>5. Carries(c, k, t, m)
  BY <1>4, Zenon DEF Carries
<1> QED
  BY <1>2, <1>3, <1>5, Zenon DEF Good, Wrote

\* The first byte tells a client of SOCKS5 and a CONNECT apart.
LEMMA FirstByte ==
    ASSUME NEW k \in DOMAIN Script
    PROVE  /\ k \in Socks <=> Bytes(k)[1] = 5
           /\ k \in {"connect", "badport"} <=> Bytes(k)[1] = 67
<1>1. /\ \A j \in Socks : j # "connect" /\ j # "badport"
      /\ \A j \in Others : j \notin Socks /\ j # "connect" /\ j # "badport"
      /\ "connect" \notin Socks /\ "badport" \notin Socks
  BY DEF Socks, Others
<1>2. CASE k \in Socks
  <2>1. Bytes(k)[1] = 5
    BY <1>2, SocksKinds, Zenon DEF Bytes, SocksStream
  <2>2. k # "connect" /\ k # "badport"
    BY <1>1, <1>2, Zenon
  <2> QED BY <1>2, <2>1, <2>2
<1>3. CASE k = "connect"
  <2>1. 1 \in 1 .. 15
    OBVIOUS
  <2>2. Bytes(k)[1] = 67
    BY <1>3, <2>1, ConnectKind, ZenonT(30) DEF Bytes, IsConnect
  <2>3. k \notin Socks
    BY <1>1, <1>3, Zenon
  <2> QED BY <1>3, <2>2, <2>3
<1>4. CASE k = "badport"
  <2>2. Bytes(k)[1] = 67
    BY <1>4, BadportKind, Zenon DEF Bytes, IsConnect
  <2>3. k \notin Socks
    BY <1>1, <1>4, Zenon
  <2> QED BY <1>4, <2>2, <2>3
<1>5. CASE k \in Others
  <2>1. Bytes(k)[1] \in {4, 22, 71, 83}
    BY <1>5, OtherKinds, Zenon DEF Bytes, IsOther
  <2>2. k \notin Socks /\ k # "connect" /\ k # "badport"
    BY <1>1, <1>5, Zenon
  <2> QED BY <2>1, <2>2
<1>6. k \in Socks \/ k \in Others \/ k = "connect" \/ k = "badport"
  BY AllKinds
<1> QED
  BY <1>2, <1>3, <1>4, <1>5, <1>6

\* A client that sends a CONNECT sends the whole head y in its first flight.
Heads(k, y, port) ==
    /\ IsConnect(y, port) /\ port \in Nat
    /\ \/ k = "connect" /\ port = 90
       \/ k = "badport" /\ port = 120
    /\ ArrivedOf(k, 1) = 15
    /\ \A i \in 1 .. 15 : Bytes(k)[i] = y[i]

LEMMA ConnectFront ==
    ASSUME NEW k \in {"connect", "badport"}
    PROVE  \E y, port : Heads(k, y, port)
<1>0. 90 \in Nat /\ 120 \in Nat /\ NotANumber = 120
  BY DEF NotANumber
<1>1. CASE k = "connect"
  <2> DEFINE y == Script["connect"].f[1]
  <2>1. ArrivedOf(k, 1) = 15
    BY <1>1, ConnectKind, Zenon DEF ArrivedOf, IsConnect
  <2>2. IsConnect(y, 90) /\ \A i \in 1 .. 15 : Bytes(k)[i] = y[i]
    BY <1>1, ConnectKind, Zenon DEF Bytes
  <2> HIDE DEF y
  <2>3. Heads(k, y, 90)
    BY <1>0, <1>1, <2>1, <2>2, Zenon DEF Heads
  <2> QED BY <2>3, Zenon
<1>2. CASE k = "badport"
  <2> DEFINE y == Bytes("badport")
  <2>1. ArrivedOf(k, 1) = 15
    BY <1>2, BadportKind, Zenon DEF ArrivedOf, IsConnect
  <2>2. IsConnect(y, NotANumber)
    BY BadportKind, Zenon DEF Bytes
  <2>3. Heads(k, y, 120)
    BY <1>0, <1>2, <2>1, <2>2, Zenon DEF Heads
  <2> QED BY <2>3, Zenon
<1> QED
  BY <1>1, <1>2, Zenon

\* What is read of such a head: the front of it.
LEMMA ReadsHead ==
    ASSUME NEW k, NEW y, NEW port, Heads(k, y, port),
           NEW n \in Nat, n >= 1, n <= ArrivedOf(k, 1), NEW m, NEW v, Shows(Bytes(k), 0, n, m, v)
    PROVE  n \in 1 .. 15 /\ FrontOf(v, n, y)
<1>1. n \in 1 .. 15
  BY DEF Heads
<1>2. ASSUME NEW i \in 1 .. n PROVE i \in 1 .. 15 /\ 0 + i = i
  BY <1>1
<1>3. \A i \in 1 .. n : v[i] = y[i]
  <2> SUFFICES ASSUME NEW i \in 1 .. n PROVE v[i] = y[i]
    OBVIOUS
  <2>1. v[i] = Bytes(k)[0 + i]
    BY Zenon DEF Shows
  <2>2. i \in 1 .. 15 /\ 0 + i = i
    BY <1>2, Zenon
  <2>3. Bytes(k)[i] = y[i]
    BY <2>2, Zenon DEF Heads
  <2> QED BY <2>1, <2>2, <2>3, Zenon
<1> QED
  BY <1>1, <1>3, Zenon DEF FrontOf, Shows

\* A CONNECT that is answered was read whole.
LEMMA AnsweredWhole ==
    ASSUME NEW k \in DOMAIN Script, NEW n \in Nat, n >= 1, n <= ArrivedOf(k, 1), NEW m, NEW v,
           Shows(Bytes(k), 0, n, m, v), HeadEnd(v) # 0, HostPort(v) # NotANumber, Connects(v)
    PROVE  k = "connect" /\ n = 15
<1>1. v \in Seq(Nat) /\ v[1] = Bytes(k)[1]
  <2>1. 1 \in 1 .. n /\ 0 + 1 = 1
    OBVIOUS
  <2>2. v \in Seq(Nat) /\ \A i \in 1 .. n : v[i] = Bytes(k)[0 + i]
    BY Zenon DEF Shows
  <2>3. v[1] = Bytes(k)[0 + 1]
    BY <2>1, <2>2, Zenon
  <2> QED BY <2>1, <2>2, <2>3, Zenon
<1>2. v[1] = 67
  BY <1>1, ConnectsByte
<1>3. k \in {"connect", "badport"}
  BY <1>1, <1>2, FirstByte, Zenon
<1>4. PICK y, port : Heads(k, y, port)
  BY <1>3, ConnectFront
<1>5. n \in 1 .. 15 /\ FrontOf(v, n, y)
  BY <1>4, ReadsHead
<1>6. IsConnect(y, port) /\ port \in Nat /\ port # 13 /\ port # 32 /\ port # 72
  <2>1. IsConnect(y, port) /\ port \in Nat /\ (port = 90 \/ port = 120)
    BY <1>4, Zenon DEF Heads
  <2> QED BY <2>1
<1>7. n = 15 /\ HeadEnd(v) = 14
  BY <1>5, <1>6, HeadIsWhole, Zenon
<1>8. HostPort(v) = port
  BY <1>5, <1>6, <1>7, HeadPort, Zenon
<1>9. port # 120
  BY <1>8 DEF NotANumber
<1> QED
  BY <1>4, <1>7, <1>9, Zenon DEF Heads

\* The bytes of a CONNECT are not relayed.
LEMMA NotRelayed ==
    ASSUME NEW k \in DOMAIN Script, NEW n \in Nat, n >= 3, n <= ArrivedOf(k, 1), NEW m, NEW v,
           Shows(Bytes(k), 0, n, m, v),
           \/ SubSeq(v, 1, 3) \notin {Get, Con}
           \/ v[1] = HandshakeType
           \/ HeadEnd(v) # 0 /\ ~Connects(v)
    PROVE  k # "connect"
<1> SUFFICES ASSUME k = "connect" PROVE FALSE
  OBVIOUS
<1>1. PICK y, port : Heads(k, y, port)
  BY ConnectFront
<1>2. n \in 1 .. 15 /\ FrontOf(v, n, y)
  BY <1>1, ReadsHead
<1>3. IsConnect(y, port) /\ port \in Nat /\ port # 13
  <2>1. IsConnect(y, port) /\ port \in Nat /\ (port = 90 \/ port = 120)
    BY <1>1, Zenon DEF Heads
  <2> QED BY <2>1
<1>4. v \in Seq(Nat) /\ v[1] = 67 /\ v[2] = 79 /\ v[3] = 78 /\ Len(v) = n
  <2>1. 1 \in 1 .. n /\ 2 \in 1 .. n /\ 3 \in 1 .. n
    OBVIOUS
  <2> QED BY <1>2, <1>3, <2>1, ZenonT(30) DEF FrontOf, IsConnect
<1>5. SubSeq(v, 1, 3) = Con
  <2>1. Con \in Seq(Nat) /\ Len(Con) = 3 /\ Con[1] = 67 /\ Con[2] = 79 /\ Con[3] = 78
    BY DEF Con
  <2>2. \A i \in 1 .. 3 : v[i] = Con[i]
    <3> SUFFICES ASSUME NEW i \in 1 .. 3 PROVE v[i] = Con[i]
      OBVIOUS
    <3>1. i = 1 \/ i = 2 \/ i = 3
      OBVIOUS
    <3> QED BY <1>4, <2>1, <3>1, ZenonT(30)
  <2>3. Len(Con) <= Len(v)
    BY <1>4, <2>1
  <2>4. \A i \in 1 .. Len(Con) : v[i] = Con[i]
    BY <2>1, <2>2, Zenon
  <2>5. SubSeq(v, 1, Len(Con)) = Con
    BY <1>4, <2>1, <2>3, <2>4, PrefixIs, Zenon
  <2> QED BY <2>1, <2>5, Zenon
<1>6. v[1] # HandshakeType
  BY <1>4 DEF HandshakeType
<1>7. HeadEnd(v) # 0 /\ ~Connects(v)
  BY <1>5, <1>6, Zenon
<1>8. n = 15
  BY <1>2, <1>3, <1>7, HeadIsWhole, Zenon
<1>9. Connects(v)
  BY <1>2, <1>3, <1>8, HeadConnects, Zenon
<1> QED
  BY <1>7, <1>9, Zenon

\* handle_conn after its first read.
LEMMA FirstStage ==
    ASSUME NEW c, NEW k \in DOMAIN Script, NEW s, NEW m, NEW v, Holds(s), s.at = s.n,
           s.n <= ArrivedOf(k, 1), Fetched(c, Bytes(k), 0, s.n, m),
           Shows(Bytes(k), 0, s.n, m, v)
    PROVE  Good(c, k, Dispatch(s, m, v), m, NotYet)
<1> DEFINE t == Dispatch(s, m, v)
<1>1. /\ DOMAIN s = Fields /\ s.dst \in BOOLEAN /\ s.n \in Nat /\ s.n >= 1
      /\ v \in Seq(Nat) /\ Len(v) = s.n
  BY Zenon DEF Holds, Fetched, Shows
<1>2. DispatchedAs(s, v, t)
  BY <1>1, DispatchOutcome
<1> HIDE DEF t
<1>3. v[1] = Bytes(k)[1]
  <2>1. PICK n \in Nat : n = s.n /\ n >= 1
    BY <1>1, Zenon
  <2>2. 1 \in 1 .. n /\ 0 + 1 = 1
    BY <2>1
  <2>3. \A i \in 1 .. n : v[i] = Bytes(k)[0 + i]
    BY <2>1, Zenon DEF Shows
  <2>4. v[1] = Bytes(k)[0 + 1]
    BY <2>2, <2>3, Zenon
  <2> QED BY <2>2, <2>4, Zenon
<1>4. CASE Gone(s, t) \/ Viewing(s, t)
  BY <1>4, GoodGone, Zenon DEF t
<1>5. CASE Greeted(s, t) /\ s.n >= 3 /\ v[1] = 5 /\ ~s.dst
  <2>1. k \in Socks
    BY <1>3, <1>5, FirstByte, Zenon
  <2>2. ArrivedOf(k, 1) = 4
    BY <2>1, SocksKinds, Zenon DEF ArrivedOf
  <2>3. s.at \in {3, 4}
    <3>1. PICK n \in Nat : n = s.n /\ n >= 3 /\ n <= 4
      BY <1>1, <1>5, <2>2, Zenon
    <3>2. n \in {3, 4}
      BY <3>1
    <3> QED BY <3>1, <3>2, Zenon
  <2>4. t.pc = "request" /\ t.sent = 2 /\ t.at = s.at /\ t.dst = s.dst
    BY <1>5, Zenon DEF Greeted, Stays
  <2>5. t.dst = FALSE
    BY <1>1, <1>5, <2>4, Zenon
  <2>6. Stage(k, t)
    BY <2>1, <2>3, <2>4, <2>5 DEF Stage
  <2> QED BY <1>5, <2>6, GoodReading, Zenon DEF t
<1>6. CASE /\ Answered(s, t) /\ s.n >= 3
           /\ HeadEnd(v) # 0 /\ HostPort(v) # NotANumber /\ Connects(v)
  <2>1. k = "connect" /\ s.n = 15
    BY <1>1, <1>6, AnsweredWhole, Zenon
  <2>2. HandshakeOf(k, s.dst) = 15
    BY <1>1, <2>1, Handshakes, Zenon
  <2>3. t.n = 0
    BY <1>6, Zenon DEF Answered
  <2>4. t.n \in Nat /\ s.at = HandshakeOf(k, s.dst) + t.n
    BY <2>1, <2>2, <2>3
  <2>5. t.n <= Len(m)
    <3>1. m \in Seq(Conns \X Nat)
      BY Zenon DEF Fetched, Valid
    <3>2. 0 <= Len(m)
      BY <3>1
    <3> QED BY <2>3, <3>2, Zenon
  <2>6. \A i \in 1 .. t.n : m[i] = <<c, HandshakeOf(k, s.dst) + i>>
    BY <2>3
  <2> QED BY <1>6, <2>4, <2>5, <2>6, GoodRelay, Zenon DEF t
<1>7. CASE /\ Relayed(s, t) /\ s.n >= 3
           /\ v[1] # 5 \/ s.dst
           /\ \/ SubSeq(v, 1, 3) \notin {Get, Con}
              \/ v[1] = HandshakeType
              \/ HeadEnd(v) # 0 /\ ~Connects(v)
  <2>1. k # "connect"
    BY <1>1, <1>7, NotRelayed, Zenon
  <2>2. k \notin Socks \/ s.dst = TRUE
    BY <1>1, <1>3, <1>7, FirstByte, Zenon
  <2>3. HandshakeOf(k, s.dst) = 0
    BY <1>1, <2>1, <2>2, Handshakes, Zenon
  <2>4. t.n = s.n
    BY <1>7, Zenon DEF Relayed
  <2>5. t.n \in Nat /\ s.at = HandshakeOf(k, s.dst) + t.n
    BY <1>1, <2>3, <2>4
  <2>6. t.n <= Len(m) /\ \A i \in 1 .. t.n : m[i] = <<c, HandshakeOf(k, s.dst) + i>>
    BY <2>3, <2>4, Zenon DEF Fetched
  <2> QED BY <1>7, <2>5, <2>6, GoodRelay, Zenon DEF t
<1> QED
  BY <1>2, <1>4, <1>5, <1>6, <1>7, Zenon DEF DispatchedAs, t

\* The request of SOCKS5.  What was left of the greeting does not pass for it,
\* and a request that passes was read whole.
LEMMA RequestStage ==
    ASSUME NEW c, NEW k \in Socks, NEW s, NEW m, NEW v, Holds(s), s.dst = FALSE,
           NEW at \in {3, 4}, s.at = at + s.n,
           Fetched(c, Bytes(k), at, s.n, m), Shows(Bytes(k), at, s.n, m, v)
    PROVE  Good(c, k, HandleRequest(s, m, v), m, NotYet)
<1> DEFINE t == HandleRequest(s, m, v)
<1>1. DOMAIN s = Fields /\ s.n \in Nat /\ s.n >= 1 /\ at \in Nat
  <2>1. at \in Nat
    OBVIOUS
  <2> QED BY <2>1, Zenon DEF Holds, Fetched
<1>2. \/ Gone(s, t)
      \/ /\ Admitted(s, t)
         /\ ~(s.n < 4) /\ Value(m, 1) = 5 /\ s.n = RequestLen(s, m)
  BY <1>1, RequestOutcome, Zenon
<1> HIDE DEF t
<1>3. CASE Gone(s, t)
  BY <1>3, GoodGone, Zenon DEF t
<1>4. CASE /\ Admitted(s, t)
           /\ ~(s.n < 4) /\ Value(m, 1) = 5 /\ s.n = RequestLen(s, m)
  <2>1. PICK n \in Nat : n = s.n /\ n >= 4
    <3>1. s.n >= 4
      BY <1>1, <1>4
    <3> QED BY <1>1, <3>1, Zenon
  <2>2. PICK x, r : /\ x = Bytes(k) /\ SocksStream(x, r)
                    /\ Len(Joined(SubSeq(Script[k].f, 1, 2))) = 4 + r
    BY SocksKinds, Zenon DEF Bytes
  <2>3. \A i \in 1 .. n : Value(m, i) = x[at + i]
    BY <2>1, <2>2, Zenon DEF Shows
  <2>4. Value(m, 1) = x[at + 1] /\ Value(m, 4) = x[at + 4]
    <3>1. 1 \in 1 .. n /\ 4 \in 1 .. n
      BY <2>1
    <3> QED BY <2>3, <3>1, Zenon
  <2>5. at = 4
    <3>1. x[4] = 0
      BY <2>2, Zenon DEF SocksStream
    <3>2. ASSUME at = 3 PROVE FALSE
      <4>1. Value(m, 1) = x[3 + 1] /\ 3 + 1 = 4
        BY <2>4, <3>2
      <4>2. Value(m, 1) = 0
        BY <3>1, <4>1, Zenon
      <4> QED BY <1>4, <4>2
    <3> QED BY <3>2
  <2>6. Value(m, 4) = x[8]
    <3>1. at + 4 = 8
      BY <2>5
    <3> QED BY <2>4, <3>1, Zenon
  <2>7. n = r
    <3>1. n = CASE Value(m, 4) = 1 -> 10
                [] Value(m, 4) = 4 -> 22
                [] Value(m, 4) = 3 -> 7 + Value(m, 5)
                [] OTHER -> 0
      BY <1>4, <2>1, Zenon DEF RequestLen
    <3>2. CASE x[8] = 1 /\ r = 10
      <4>1. Value(m, 4) = 1
        BY <2>6, <3>2, Zenon
      <4> QED BY <3>1, <3>2, <4>1
    <3>3. CASE x[8] = 4 /\ r = 22
      <4>1. Value(m, 4) = 4
        BY <2>6, <3>3, Zenon
      <4> QED BY <3>1, <3>3, <4>1
    <3>4. CASE x[8] = 3 /\ x[9] = 1 /\ r = 8
      <4>1. Value(m, 4) = 3
        BY <2>6, <3>4, Zenon
      <4>2. n = 7 + Value(m, 5)
        BY <3>1, <4>1
      <4>3. PICK w \in Nat : w = Value(m, 5)
        <5>1. 5 \in Nat \ {0}
          OBVIOUS
        <5> QED BY <5>1, Zenon DEF Shows
      <4>4. 5 \in 1 .. n /\ at + 5 = 9
        BY <2>5, <4>2, <4>3
      <4>5. Value(m, 5) = x[9]
        BY <2>3, <4>4, Zenon
      <4>6. w = 1
        BY <3>4, <4>3, <4>5, Zenon
      <4> QED BY <3>4, <4>2, <4>3, <4>6
    <3> QED BY <2>2, <3>2, <3>3, <3>4, Zenon DEF SocksStream
  <2>8. t.pc = "hello" /\ t.sent = 3 /\ t.dst = FALSE /\ t.at = at + n
    BY <1>4, <2>1, Zenon DEF Admitted, Stays
  <2>9. HandshakeOf(k, FALSE) = 4 + r
    <3>1. k \in DOMAIN Script
      BY AllKinds
    <3> QED BY <2>2, <3>1, Handshakes, Zenon
  <2>10. Stage(k, t)
    <3>1. t.at = HandshakeOf(k, t.dst)
      BY <2>5, <2>7, <2>8, <2>9
    <3> QED BY <2>8, <3>1 DEF Stage
  <2> QED BY <1>4, <2>10, GoodReading, Zenon DEF t
<1> QED
  BY <1>2, <1>3, <1>4, Zenon DEF t

\* The first data after the handshake.
LEMMA DataStage ==
    ASSUME NEW c, NEW k \in Socks, NEW s, NEW m, NEW v, Holds(s),
           s.at = HandshakeOf(k, s.dst) + s.n,
           Fetched(c, Bytes(k), HandshakeOf(k, s.dst), s.n, m)
    PROVE  Good(c, k, HandleFirstData(s, m, v), m, NotYet)
<1> DEFINE t == HandleFirstData(s, m, v)
<1>1. DOMAIN s = Fields /\ s.n \in Nat
  BY Zenon DEF Holds
<1>2. Gone(s, t) \/ Viewing(s, t) \/ Relayed(s, t)
  BY <1>1, FirstDataOutcome, Zenon
<1> HIDE DEF t
<1>3. CASE Gone(s, t) \/ Viewing(s, t)
  BY <1>3, GoodGone, Zenon DEF t
<1>4. CASE Relayed(s, t)
  <2>1. t.n = s.n
    BY <1>4, Zenon DEF Relayed
  <2>2. s.n <= Len(m) /\ \A i \in 1 .. s.n : m[i] = <<c, HandshakeOf(k, s.dst) + i>>
    BY Zenon DEF Fetched
  <2> QED BY <1>1, <1>4, <2>1, <2>2, GoodRelay, Zenon DEF t
<1> QED
  BY <1>2, <1>3, <1>4, Zenon DEF t

\* The handler t is s after k bytes were read.
After(s, t, k) ==
    /\ DOMAIN t = Fields
    /\ t.at = s.at + k /\ t.n = k
    /\ t.pc = s.pc /\ t.own = s.own /\ t.moved = s.moved
    /\ t.dst = s.dst /\ t.buf = s.buf /\ t.sent = s.sent

LEMMA ReadRecord ==
    ASSUME NEW s, DOMAIN s = Fields, NEW a, NEW k, NEW y, a = s.at + k
    PROVE  After(s, [s EXCEPT !.at = a, !.n = k, !.trouble = y], k)
BY DEF After, Fields

\* Whatever was read, the handler goes on in order.
LEMMA HandleGood ==
    ASSUME EntryInv, NEW c \in Conns, st[c].pc \in Reading,
           NEW k \in 1 .. Arrived(c) - st[c].at, NEW s, After(st[c], s, k)
    PROVE  LET m == Filled(c, k)
           IN  /\ Good(c, kind[c], Handle(s, m, Values(m, k)), m, NotYet)
               /\ Valid(m, kind)
<1> DEFINE m == Filled(c, k)
           v == Values(m, k)
           at == st[c].at
           x == Bytes(kind[c])
           t == Handle(s, m, v)
<1>1. Good(c, kind[c], st[c], mem[st[c].buf], fwd[c]) /\ kind[c] \in DOMAIN Script
  BY GoodOfInv, Zenon DEF EntryInv, Types
<1>2. Fetched(c, x, at, k, m) /\ at + k <= ArrivedOf(kind[c], st[c].sent)
  BY FilledFetched
<1>3. Shows(x, at, k, m, v)
  BY <1>2, ValuesShow, Zenon
<1>4. /\ at \in Nat /\ st[c].own = TRUE /\ st[c].moved = FALSE /\ st[c].dst \in BOOLEAN
      /\ st[c].buf \in Buffers /\ Stage(kind[c], st[c])
  BY <1>1, Zenon DEF Good, Handler
<1>5. k \in Nat
  BY <1>2, Zenon DEF Fetched
<1>6. s.n = k /\ s.at = at + k /\ s.pc = st[c].pc /\ s.dst = st[c].dst
  BY Zenon DEF After
<1>7. Holds(s)
  <2>1. at + k \in Nat
    BY <1>4, <1>5
  <2> QED BY <1>4, <1>5, <1>6, <2>1, Zenon DEF Holds, After
<1> HIDE DEF m, v, at, x
<1>8. ASSUME s.pc = "first" PROVE Good(c, kind[c], t, m, NotYet)
  <2>1. at = 0 /\ st[c].sent = 1
    BY <1>4, <1>6, <1>8, Zenon DEF Stage, at
  <2>2. s.at = s.n /\ s.n <= ArrivedOf(kind[c], 1)
    <3>1. 0 + k = k
      BY <1>5
    <3>2. s.at = k
      BY <1>6, <2>1, <3>1, Zenon
    <3>3. k <= ArrivedOf(kind[c], 1)
      BY <1>2, <2>1, <3>1, Zenon
    <3> QED BY <1>6, <3>2, <3>3, Zenon
  <2>3. Fetched(c, Bytes(kind[c]), 0, s.n, m) /\ Shows(Bytes(kind[c]), 0, s.n, m, v)
    BY <1>2, <1>3, <1>6, <2>1, Zenon DEF x
  <2>4. Good(c, kind[c], Dispatch(s, m, v), m, NotYet)
    BY <1>1, <1>7, <2>2, <2>3, FirstStage, Zenon
  <2>5. t = Dispatch(s, m, v)
    BY <1>8 DEF Handle
  <2> QED BY <2>4, <2>5, Zenon
<1>9. ASSUME s.pc = "request" PROVE Good(c, kind[c], t, m, NotYet)
  <2>1. kind[c] \in Socks /\ s.dst = FALSE /\ at \in {3, 4}
    BY <1>4, <1>6, <1>9, Zenon DEF Stage, at
  <2>2. /\ Fetched(c, Bytes(kind[c]), at, s.n, m) /\ Shows(Bytes(kind[c]), at, s.n, m, v)
        /\ s.at = at + s.n
    BY <1>2, <1>3, <1>6, Zenon DEF x
  <2>3. Good(c, kind[c], HandleRequest(s, m, v), m, NotYet)
    BY <1>7, <2>1, <2>2, RequestStage, Zenon
  <2>4. t = HandleRequest(s, m, v)
    BY <1>9 DEF Handle
  <2> QED BY <2>3, <2>4, Zenon
<1>10. ASSUME s.pc = "hello" PROVE Good(c, kind[c], t, m, NotYet)
  <2>1. kind[c] \in Socks /\ at = HandshakeOf(kind[c], s.dst)
    BY <1>4, <1>6, <1>10, Zenon DEF Stage, at
  <2>2. /\ Fetched(c, Bytes(kind[c]), HandshakeOf(kind[c], s.dst), s.n, m)
        /\ s.at = HandshakeOf(kind[c], s.dst) + s.n
    BY <1>2, <1>6, <2>1, Zenon DEF x
  <2>3. Good(c, kind[c], HandleFirstData(s, m, v), m, NotYet)
    BY <1>7, <2>1, <2>2, DataStage, Zenon
  <2>4. t = HandleFirstData(s, m, v)
    BY <1>10 DEF Handle
  <2> QED BY <2>3, <2>4, Zenon
<1>11. Good(c, kind[c], t, m, NotYet)
  <2>1. s.pc = "first" \/ s.pc = "request" \/ s.pc = "hello"
    BY <1>6, Zenon DEF Reading
  <2> QED BY <1>8, <1>9, <1>10, <2>1, Zenon
<1>12. Valid(m, kind)
  BY <1>2, Zenon DEF Fetched
<1> QED
  BY <1>11, <1>12, Zenon DEF m, v

\* After a read the handler has the buffer it had.
LEMMA HandleKeeps ==
    ASSUME NEW s, NEW m, NEW v \in Seq(Nat), DOMAIN s = Fields, Len(v) = s.n, s.pc \in Reading,
           s.own = TRUE
    PROVE  /\ Handle(s, m, v).buf = s.buf
           /\ Handle(s, m, v).own \in BOOLEAN
<1> DEFINE t == Handle(s, m, v)
<1>1. \/ Gone(s, t) \/ Viewing(s, t) \/ Greeted(s, t) \/ Admitted(s, t)
      \/ Answered(s, t) \/ Relayed(s, t)
  <2>1. CASE s.pc = "first"
    <3>1. t = Dispatch(s, m, v)
      BY <2>1 DEF Handle
    <3>2. DispatchedAs(s, v, Dispatch(s, m, v))
      BY DispatchOutcome
    <3> QED BY <3>1, <3>2, Zenon DEF DispatchedAs
  <2>2. CASE s.pc = "request"
    <3>1. t = HandleRequest(s, m, v)
      BY <2>2 DEF Handle
    <3>2. Gone(s, HandleRequest(s, m, v)) \/ Admitted(s, HandleRequest(s, m, v))
      BY RequestOutcome, Zenon
    <3> QED BY <3>1, <3>2, Zenon
  <2>3. CASE s.pc = "hello"
    <3>1. t = HandleFirstData(s, m, v)
      BY <2>3 DEF Handle
    <3>2. \/ Gone(s, HandleFirstData(s, m, v)) \/ Viewing(s, HandleFirstData(s, m, v))
          \/ Relayed(s, HandleFirstData(s, m, v))
      BY FirstDataOutcome, Zenon
    <3> QED BY <3>1, <3>2, Zenon
  <2> QED BY <2>1, <2>2, <2>3, Zenon DEF Reading
<1> HIDE DEF t
<1>2. t.buf = s.buf
  BY <1>1, Zenon DEF Gone, Viewing, Greeted, Admitted, Answered, Relayed, Stays
<1>3. t.own \in BOOLEAN
  BY <1>1, Zenon DEF Gone, Viewing, Greeted, Admitted, Answered, Relayed
<1> QED
  BY <1>2, <1>3, Zenon DEF t

LEMMA ReadStep ==
    ASSUME EntryInv, NEW c \in Conns, FirstRead(c) \/ RequestRead(c) \/ DataRead(c)
    PROVE  EntryInv'
<1>1. st[c].pc \in Reading /\ Reads(c)
  BY DEF FirstRead, RequestRead, DataRead, Reading
<1>2. node' = node /\ kind' = kind /\ fwd' = fwd
  BY <1>1, Zenon DEF Reads
<1>3. PICK k \in 1 .. Arrived(c) - st[c].at :
          LET m == Filled(c, k)
              s == [st[c] EXCEPT !.at = @ + k, !.n = k,
                                 !.trouble = @ \/ st[c].at + k < Arrived(c)]
              t == Handle(s, m, Values(m, k))
          IN  /\ Goes(c, t)
              /\ mem' = [mem EXCEPT ![s.buf] = m]
              /\ pool' = IF t.own THEN pool ELSE GiveBack(s.buf)
  BY <1>1, Zenon DEF Reads
<1>4. Good(c, kind[c], st[c], mem[st[c].buf], fwd[c])
  BY GoodOfInv
<1>5. DOMAIN st[c] = Fields /\ st[c].own = TRUE /\ st[c].buf \in Buffers
  BY <1>1, <1>4, Zenon DEF Good, Handler
<1>6. fwd[c] = NotYet
  <2>1. st[c].pc \notin {"pump", "done"}
    BY <1>1 DEF Reading
  <2> QED BY <1>4, <2>1, Zenon DEF Good, Wrote
<1> DEFINE m == Filled(c, k)
           s == [st[c] EXCEPT !.at = @ + k, !.n = k,
                              !.trouble = @ \/ st[c].at + k < Arrived(c)]
           v == Values(m, k)
           t == Handle(s, m, v)
<1>7. After(st[c], s, k)
  <2>1. PICK a, y : a = st[c].at + k /\ s = [st[c] EXCEPT !.at = a, !.n = k, !.trouble = y]
    BY Zenon
  <2> HIDE DEF s
  <2> QED BY <1>5, <2>1, ReadRecord, Zenon
<1>8. /\ st' = [st EXCEPT ![c] = t]
      /\ mem' = [mem EXCEPT ![s.buf] = m]
      /\ pool' = IF t.own THEN pool ELSE GiveBack(s.buf)
  BY <1>3, Zenon DEF Goes
<1> HIDE DEF s
<1>9. Good(c, kind[c], t, m, NotYet) /\ Valid(m, kind)
  BY <1>1, <1>7, HandleGood, Zenon
<1>10. t.buf = s.buf /\ t.own \in BOOLEAN
  <2>1. Fetched(c, Bytes(kind[c]), st[c].at, k, m)
    BY <1>1, FilledFetched, Zenon
  <2>2. Shows(Bytes(kind[c]), st[c].at, k, m, v)
    BY <2>1, ValuesShow, Zenon
  <2>3. v \in Seq(Nat) /\ Len(v) = k
    BY <2>2, Zenon DEF Shows
  <2>4. DOMAIN s = Fields /\ s.n = k /\ s.pc \in Reading /\ s.own = TRUE
    BY <1>1, <1>5, <1>7, Zenon DEF After
  <2> HIDE DEF m, v
  <2> QED BY <2>3, <2>4, HandleKeeps, Zenon
<1>11. s.buf = st[c].buf
  BY <1>7, Zenon DEF After
<1> HIDE DEF m, v, t
<1>12. /\ DOMAIN mem = Buffers /\ DOMAIN fwd = Conns /\ \A b \in Buffers : Valid(mem[b], kind)
       /\ DOMAIN st = Conns /\ pool \in Seq(Buffers) /\ Exact(st, pool)
  BY Zenon DEF EntryInv, Types, Memory
<1>13. /\ DOMAIN mem' = Buffers /\ mem'[st[c].buf] = m
       /\ \A b \in Buffers : b # st[c].buf => mem'[b] = mem[b]
  BY <1>5, <1>8, <1>11, <1>12, Zenon
<1>14. \A b \in Buffers : Valid(mem'[b], kind)
  BY <1>9, <1>12, <1>13, Zenon
<1>15. \A d \in Conns : d # c /\ st[d].own = TRUE => mem'[st[d].buf] = mem[st[d].buf]
  <2> SUFFICES ASSUME NEW d \in Conns, d # c, st[d].own = TRUE
               PROVE  mem'[st[d].buf] = mem[st[d].buf]
    BY Zenon
  <2>1. st[d].buf # st[c].buf
    BY <1>5, <1>12, Zenon DEF Exact
  <2>2. st[d].buf \in Buffers
    BY Zenon DEF EntryInv, Handlers, Handler
  <2> QED BY <1>13, <2>1, <2>2, Zenon
<1>16. pool' \in Seq(Buffers) /\ Exact([st EXCEPT ![c] = t], pool')
  <2>1. CASE t.own = TRUE
    <3>1. pool' = pool
      BY <1>8, <2>1, Zenon
    <3> QED BY <1>5, <1>10, <1>11, <1>12, <2>1, <3>1, ExactKeeps, Zenon
  <2>2. CASE t.own = FALSE
    <3>1. pool' = IF st[c].own THEN GiveBack(st[c].buf) ELSE pool
      BY <1>5, <1>8, <1>11, <2>2, Zenon
    <3> QED BY <2>2, <3>1, Released, Zenon
  <2> QED BY <1>10, <2>1, <2>2, Zenon
<1>17. Good(c, kind[c], t, mem'[t.buf], fwd'[c])
  BY <1>2, <1>6, <1>9, <1>10, <1>11, <1>13, Zenon
<1>18. DOMAIN fwd' = Conns /\ \A d \in Conns : d # c => fwd'[d] = fwd[d]
  BY <1>2, <1>12, Zenon
<1> QED
  BY <1>2, <1>8, <1>13, <1>14, <1>15, <1>16, <1>17, <1>18, Step, Zenon

-----------------------------------------------------------------------------
(***************************************************************************)
(* The theorems.                                                           *)
(***************************************************************************)

LEMMA InitInv == Init => EntryInv
<1> SUFFICES ASSUME Init PROVE EntryInv
  OBVIOUS
<1>1. /\ st = [c \in Conns |-> Idle] /\ mem = [b \in Buffers |-> <<>>] /\ pool = <<>>
      /\ fwd = [c \in Conns |-> NotYet]
      /\ kind \in [Conns -> DOMAIN Script] /\ node.redirect \in BOOLEAN
  BY DEF Init
<1>2. \A c \in Conns : st[c] = Idle /\ fwd[c] = NotYet
  BY <1>1, Zenon
<1>3. \A b \in Buffers : mem[b] = <<>>
  BY <1>1, Zenon
<1>4. DOMAIN st = Conns /\ DOMAIN fwd = Conns /\ DOMAIN mem = Buffers
  BY <1>1, Zenon
<1>5. pool \in Seq(Buffers) /\ Len(pool) = 0
  BY <1>1
<1>6. Types
  BY <1>1, <1>4, <1>5, Zenon DEF Types
<1>7. "idle" \in Pcs /\ "idle" \notin Reading /\ "idle" \notin Relaying /\ 0 \in Nat
  BY DEF Pcs, Reading, Relaying
<1>8. Handler(Idle)
  BY <1>7, IdleRecord, Zenon DEF Handler
<1>9. Handlers
  BY <1>2, <1>8, Zenon DEF Handlers
<1>10. Exact(st, pool)
  <2>1. \A c \in Conns : st[c].own = FALSE
    BY <1>2, IdleRecord, Zenon
  <2>2. \A i \in 1 .. Len(pool) : FALSE
    BY <1>5
  <2>3. Len(pool) <= PoolMax
    BY <1>5, PoolAssumption
  <2> QED BY <2>1, <2>2, <2>3, Zenon DEF Exact
<1>11. Memory
  <2>1. Valid(<<>>, kind)
    BY DEF Valid
  <2> QED BY <1>3, <2>1, Zenon DEF Memory
<1>12. Bytewise
  <2> SUFFICES ASSUME NEW c \in Conns
               PROVE  /\ Stage(kind[c], st[c])
                      /\ Carries(c, kind[c], st[c], mem[st[c].buf])
                      /\ Wrote(c, kind[c], st[c], fwd[c])
    BY Zenon DEF Bytewise
  <2>1. st[c].pc = "idle"
    BY <1>2, IdleRecord, Zenon
  <2>2. Stage(kind[c], st[c])
    BY <2>1 DEF Stage
  <2>3. Carries(c, kind[c], st[c], mem[st[c].buf])
    BY <1>7, <2>1, Zenon DEF Carries
  <2>4. Wrote(c, kind[c], st[c], fwd[c])
    BY <1>2, Zenon DEF Wrote
  <2> QED BY <2>2, <2>3, <2>4, Zenon
<1> QED
  BY <1>6, <1>9, <1>10, <1>11, <1>12, Zenon DEF EntryInv

\* Steps that touch no handler.
LEMMA IdleStep ==
    ASSUME EntryInv, node' = node, kind' = kind, st' = st, mem' = mem, pool' = pool, fwd' = fwd
    PROVE  EntryInv'
<1>1. Types'
  BY Zenon DEF EntryInv, Types
<1>2. Handlers' /\ Exact(st, pool)' /\ Memory'
  BY Zenon DEF EntryInv, Handlers, Memory
<1>3. Bytewise'
  BY Zenon DEF EntryInv, Bytewise
<1> QED
  BY <1>1, <1>2, <1>3, Zenon DEF EntryInv

LEMMA NextInv == EntryInv /\ [Next]_vars => EntryInv'
<1> SUFFICES ASSUME EntryInv, [Next]_vars PROVE EntryInv'
  OBVIOUS
<1>1. CASE Start \/ AcceptFails \/ Done \/ UNCHANGED vars
  <2>1. node' = node /\ kind' = kind /\ st' = st /\ mem' = mem /\ pool' = pool /\ fwd' = fwd
    BY <1>1 DEF Start, AcceptFails, Done, vars
  <2> QED BY <2>1, IdleStep, Zenon
<1>2. CASE \E c \in Conns : Accept(c)
  BY <1>2, AcceptStep, Zenon
<1>3. CASE \E c \in Conns : FirstRead(c) \/ RequestRead(c) \/ DataRead(c)
  BY <1>3, ReadStep, Zenon
<1>4. CASE \E c \in Conns : ReadFails(c) \/ RelayFails(c) \/ RelayEnds(c)
  BY <1>4, EndSteps, Zenon
<1>5. CASE \E c \in Conns : Forward(c)
  BY <1>5, ForwardStep, Zenon
<1> QED
  BY <1>1, <1>2, <1>3, <1>4, <1>5, Zenon DEF Next

LEMMA InvBuffers == EntryInv => BuffersExact
<1> SUFFICES ASSUME EntryInv PROVE BuffersExact
  OBVIOUS
<1>1. Exact(st, pool) /\ \A c \in Conns : st[c].own \in BOOLEAN
  BY Zenon DEF EntryInv, Handlers, Handler
<1>2. \A c, d \in Conns : st[c].own /\ st[d].own /\ st[c].buf = st[d].buf => c = d
  BY <1>1, Zenon DEF Exact
<1>3. \A i \in 1 .. Len(pool) : pool[i] \notin Held
  <2> SUFFICES ASSUME NEW i \in 1 .. Len(pool), pool[i] \in Held PROVE FALSE
    BY Zenon
  <2>1. PICK c \in Conns : st[c].own /\ pool[i] = st[c].buf
    BY Zenon DEF Held
  <2>2. st[c].own = TRUE
    BY <1>1, <2>1, Zenon
  <2> QED BY <1>1, <2>1, <2>2, Zenon DEF Exact
<1> QED
  BY <1>1, <1>2, <1>3, Zenon DEF BuffersExact, Exact

LEMMA InvBytes == EntryInv => RelaysOwnBytes
<1> SUFFICES ASSUME EntryInv, NEW c \in Conns, fwd[c] # NotYet, ~st[c].moved
             PROVE  fwd[c] = [i \in 1 .. st[c].at - Handshake(c) |-> <<c, Handshake(c) + i>>]
  BY Zenon DEF RelaysOwnBytes
<1>1. Handler(st[c]) /\ Wrote(c, kind[c], st[c], fwd[c])
  BY Zenon DEF EntryInv, Handlers, Bytewise
<1>2. st[c].moved = FALSE /\ st[c].dst \in BOOLEAN
  BY <1>1, Zenon DEF Handler
<1>3. ~st[c].dst <=> st[c].dst = FALSE
  BY <1>2, Zenon
<1>4. Handshake(c) = HandshakeOf(kind[c], st[c].dst)
  BY <1>3 DEF Handshake, HandshakeOf, Socks
<1>5. fwd[c] = Payload(c, Handshake(c), st[c].at - Handshake(c))
  BY <1>1, <1>2, <1>4, Zenon DEF Wrote
<1> QED
  BY <1>5, Zenon DEF Payload

LEMMA Inductive == Spec => []EntryInv
BY InitInv, NextInv, PTL DEF Spec

\* However clients come and go and wherever TCP cuts what they send, a buffer
\* of get_iobuf has one owner - a handler of handle_conn or, once IOBufDeleter
\* has taken it back, the pool, in which it is once - and g_io_bufs keeps to
\* g_iobuf_max_pool_size.
THEOREM BuffersAreExact == Spec => []BuffersExact
BY Inductive, InvBuffers, PTL

\* What do_relay writes of the bytes it was handed by the handlers of SOCKS5,
\* TLS and HTTP is exactly what was read of the client after its handshake -
\* nothing lost, doubled or of another client - unless the ClientHello was
\* refused and the relay is left with a view of a buffer given back.
THEOREM RelaysOnlyOwnBytes == Spec => []RelaysOwnBytes
BY Inductive, InvBytes, PTL
=============================================================================
