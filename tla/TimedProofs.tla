---------------------------- MODULE TimedProofs ----------------------------
(***************************************************************************)
(* Proofs about the parts that live by timers: the DNS proxy, whose        *)
(* queries time out; the direct relay, which a timer ends when it is idle; *)
(* and the time wheel on which those timers hang.                          *)
(***************************************************************************)
EXTENDS DnsProxy, DirectRelay, TimeWheel, SequenceTheorems, TLAPS

(***************************************************************************)
(* The DNS proxy: any number of queries, transaction ids and answers, and  *)
(* clients that share transaction ids or do not.                           *)
(***************************************************************************)
Reply == [about : Query, src : {"default", "trusted"}, ok : BOOLEAN]

\* Types of the table, of the queries and of the two loops.
TypeOK ==
    /\ txid \in [Query -> Txid \cup {None}]
    /\ domain \in [Query -> BOOLEAN]
    /\ table \in [Txid -> Query \cup {None}]
    /\ timers \subseteq Query
    /\ default \in [Query -> Nat]
    /\ dloop \in {"recv", "forward", "reply"}
    /\ trusted \in BOOLEAN
    /\ asked \in [Query -> Nat]
    /\ wire \in Seq(Query)
    /\ pos \in Nat
    /\ tloop \in {"read", "rest", "reply", "connect", "wait"}
    /\ replies \in [Query -> Seq(Reply)]

\* trusted_ns_loop holds the head of an answer in its buffer when it reads the
\* rest, and the whole of it while it is sent.
BufferHoldsAnswer ==
    /\ tloop \in {"rest", "reply"} => wire # <<>>
    /\ tloop = "reply" => pos >= Parts

\* What is asked, answered or timed is a query that was received, and the
\* default nameserver is asked only for names that are not trusted_ns_domains.
OnlyReceived ==
    /\ \A q \in timers : txid[q] # None
    /\ \A q \in Query : default[q] > 0 => txid[q] # None /\ ~domain[q]
    /\ \A q \in Query : asked[q] > 0 => txid[q] # None
    /\ \A i \in 1 .. Len(wire) : txid[wire[i]] # None
    /\ \A q \in Query : replies[q] # <<>> => txid[q] # None

\* The client of a query in the table has not been answered.
Unanswered == \A t \in Txid : table[t] # None => replies[table[t]] = <<>>

\* The part of the invariant about the table and the clients.
TableInv == /\ EntryHasTimer /\ Unanswered /\ AnsweredOnce /\ NoStaleTimer
            /\ OwnAnswer /\ Unpolluted

DnsInv == TypeOK /\ BufferHoldsAnswer /\ OnlyReceived /\ TableInv

-----------------------------------------------------------------------------
\* Zero is neither a query nor an id.
LEMMA NoneIsNothing == None \notin Query /\ None \notin Txid
BY QueriesAssumption, TxidsAssumption DEF None, Query, Txid

\* The first of the answers on the TLS connection, and those after it.
LEMMA HeadOfWire ==
    ASSUME TypeOK, OnlyReceived, wire # <<>>
    PROVE  /\ Head(wire) \in Query /\ txid[Head(wire)] # None
           /\ Tail(wire) \in Seq(Query)
           /\ \A i \in 1 .. Len(Tail(wire)) : txid[Tail(wire)[i]] # None
<1>1. wire \in Seq(Query) /\ Len(wire) \in Nat /\ 1 \in 1 .. Len(wire) /\ Head(wire) = wire[1]
  BY DEF TypeOK
<1>2. /\ Tail(wire) \in Seq(Query) /\ Len(Tail(wire)) = Len(wire) - 1
      /\ \A i \in 1 .. Len(Tail(wire)) : Tail(wire)[i] = wire[i + 1] /\ i + 1 \in 1 .. Len(wire)
  BY <1>1
<1> QED BY <1>1, <1>2 DEF OnlyReceived

\* A step that leaves the table and the clients alone.
LEMMA TableFrame ==
    ASSUME TableInv, UNCHANGED <<txid, domain, table, timers, replies>>
    PROVE  TableInv'
BY DEF TableInv, EntryHasTimer, Unanswered, AnsweredOnce, NoStaleTimer, OwnAnswer,
       Unpolluted, Alone

-----------------------------------------------------------------------------
(***************************************************************************)
(* dns_response.                                                           *)
(***************************************************************************)

\* dns_response sends the first and only answer to the client whose state it
\* finds.  An answer for a query q that nobody shares the id of finds the
\* state of q; from the default nameserver only if Retry was passed.
LEMMA ResponseKeeps ==
    ASSUME TypeOK, OnlyReceived, TableInv, UNCHANGED <<txid, domain>>,
           NEW q \in Query, txid[q] # None, NEW r \in Reply, r.about = q,
           DnsResponse(txid[q], r),
           r.src = "default" => ~domain[q] /\ (r.ok \/ domain[table[txid[q]]])
    PROVE  /\ TableInv'
           /\ table' \in [Txid -> Query \cup {None}] /\ timers' \subseteq timers
           /\ replies' \in [Query -> Seq(Reply)]
           /\ \A p \in Query : replies'[p] # <<>> => txid[p] # None
<1> DEFINE t == txid[q]
           p == table[t]
<1>1. t \in Txid /\ p \in Query
  BY NoneIsNothing DEF TypeOK, DnsResponse
<1>2. /\ table' = [table EXCEPT ![t] = None] /\ timers' = timers \ {p}
      /\ replies' = [replies EXCEPT ![p] = Append(@, r)]
  BY DEF DnsResponse
<1>3. p \in timers /\ txid[p] = t /\ replies[p] = <<>> /\ p # None
  BY <1>1, NoneIsNothing DEF TableInv, EntryHasTimer, Unanswered
<1>a. Alone(p) => p = q
  BY <1>3 DEF Alone
<1> HIDE DEF t, p
<1>4. /\ replies'[p] = <<r>> /\ \A u \in Query \ {p} : replies'[u] = replies[u]
      /\ replies' \in [Query -> Seq(Reply)]
  BY <1>1, <1>2, <1>3 DEF TypeOK
<1>5. /\ \A u \in Txid : table'[u] = IF u = t THEN None ELSE table[u]
      /\ table' \in [Txid -> Query \cup {None}]
  BY <1>1, <1>2 DEF TypeOK
<1>6. EntryHasTimer'
  BY <1>2, <1>3, <1>5 DEF TableInv, EntryHasTimer
<1>7. Unanswered'
  <2> SUFFICES ASSUME NEW u \in Txid, table'[u] # None PROVE replies'[table'[u]] = <<>>
    BY DEF Unanswered
  <2>1. u # t /\ table'[u] = table[u] /\ table[u] # None
    BY <1>5
  <2>2. table[u] \in Query /\ table[u] # p
    BY <1>3, <2>1 DEF TypeOK, TableInv, EntryHasTimer
  <2> QED BY <1>4, <2>1, <2>2 DEF TableInv, Unanswered
<1>8. AnsweredOnce'
  <2> SUFFICES ASSUME NEW u \in Query PROVE Len(replies'[u]) <= 1
    BY DEF AnsweredOnce
  <2>1. CASE u = p
    <3>1. Len(replies'[u]) = 1
      BY <1>4, <2>1
    <3> QED BY <3>1
  <2>2. CASE u # p
    BY <1>4, <2>2 DEF TableInv, AnsweredOnce
  <2> QED BY <2>1, <2>2
<1>9. NoStaleTimer'
  <2> SUFFICES ASSUME NEW u \in timers', Alone(u) PROVE table'[txid[u]] = u
    BY DEF NoStaleTimer, Alone
  <2>1. u \in timers /\ u # p /\ u \in Query
    BY <1>2 DEF TypeOK
  <2>2. table[txid[u]] = u /\ txid[u] \in Txid
    BY <2>1 DEF TableInv, NoStaleTimer, OnlyReceived, TypeOK
  <2>3. txid[u] # t
    BY <2>1, <2>2 DEF p
  <2> QED BY <1>5, <2>2, <2>3
<1>10. OwnAnswer'
  <2> SUFFICES ASSUME NEW u \in Query, Alone(u), NEW i \in DOMAIN replies'[u]
               PROVE  replies'[u][i].about = u
    BY DEF OwnAnswer, Alone
  <2>1. CASE u = p
    BY <1>4, <1>a, <2>1
  <2>2. CASE u # p
    BY <1>4, <2>2 DEF TableInv, OwnAnswer
  <2> QED BY <2>1, <2>2
<1>11. Unpolluted'
  <2> SUFFICES ASSUME NEW u \in Query, Alone(u), NEW i \in DOMAIN replies'[u],
                      replies'[u][i].src = "default"
               PROVE  replies'[u][i].ok /\ ~domain[u]
    BY DEF Unpolluted, Alone
  <2>1. CASE u = p
    <3>1. p = q /\ replies'[u][i] = r
      BY <1>4, <1>a, <2>1
    <3> QED BY <2>1, <3>1 DEF p, t
  <2>2. CASE u # p
    BY <1>4, <2>2 DEF TableInv, Unpolluted
  <2> QED BY <2>1, <2>2
<1>12. \A u \in Query : replies'[u] # <<>> => txid[u] # None
  BY <1>1, <1>3, <1>4, NoneIsNothing DEF OnlyReceived
<1> QED BY <1>2, <1>4, <1>5, <1>6, <1>7, <1>8, <1>9, <1>10, <1>11, <1>12 DEF TableInv

-----------------------------------------------------------------------------
(***************************************************************************)
(* The steps.                                                              *)
(***************************************************************************)

\* A query is added: its state only if its id is free.
LEMMA HandleQueryKeeps ==
    ASSUME DnsInv, NEW q \in Query, HandleQuery(q)
    PROVE  DnsInv'
<1> USE DEF DnsInv
<1>1. PICK t \in Txid, d \in BOOLEAN, n \in 0 .. MaxAnswers :
           /\ txid' = [txid EXCEPT ![q] = t]
           /\ domain' = [domain EXCEPT ![q] = d]
           /\ table' = [table EXCEPT ![t] = IF @ = None THEN q ELSE @]
           /\ default' = [default EXCEPT ![q] = IF d THEN 0 ELSE n]
           /\ IF d THEN OverTrusted(q) ELSE UNCHANGED asked
  BY DEF HandleQuery
<1>2. /\ txid[q] = None /\ timers' = timers \cup {q}
      /\ UNCHANGED <<dloop, trusted, wire, pos, tloop, replies>>
  BY DEF HandleQuery
<1>3. /\ \A p \in Query : txid'[p] = IF p = q THEN t ELSE txid[p]
      /\ \A u \in Txid : table'[u] = IF u = t /\ table[t] = None THEN q ELSE table[u]
      /\ \A p \in Query : default'[p] = IF p = q THEN (IF d THEN 0 ELSE n) ELSE default[p]
      /\ txid' \in [Query -> Txid \cup {None}] /\ table' \in [Txid -> Query \cup {None}]
      /\ default' \in [Query -> Nat]
  BY <1>1, AnswersAssumption DEF TypeOK
<1>4. domain' \in [Query -> BOOLEAN]
  BY <1>1, Zenon DEF TypeOK
<1>5. /\ domain'[q] = d /\ \A p \in Query \ {q} : domain'[p] = domain[p]
  BY <1>1, Zenon DEF TypeOK
<1>6. asked' \in [Query -> Nat] /\ \A p \in Query \ {q} : asked'[p] = asked[p]
  <2>1. asked' = asked \/ asked' = [asked EXCEPT ![q] = @ + 1]
    BY <1>1, Zenon DEF OverTrusted
  <2>2. CASE asked' = asked
    BY <2>2 DEF TypeOK
  <2>3. CASE asked' = [asked EXCEPT ![q] = @ + 1]
    BY <2>3 DEF TypeOK
  <2> QED BY <2>1, <2>2, <2>3
<1>n. t # None
  BY NoneIsNothing
<1>7. TypeOK'
  BY <1>2, <1>3, <1>4, <1>6 DEF TypeOK
<1>8. BufferHoldsAnswer'
  BY <1>2 DEF BufferHoldsAnswer
<1>9. OnlyReceived'
  <2>0. \A i \in 1 .. Len(wire) : wire[i] \in Query
    BY DEF TypeOK
  <2>1. \A p \in timers' : txid'[p] # None
    BY <1>2, <1>3, <1>n DEF OnlyReceived, TypeOK
  <2>2. \A p \in Query : default'[p] > 0 => txid'[p] # None /\ ~domain'[p]
    <3>1. default'[q] > 0 => ~domain'[q]
      BY <1>3, <1>5
    <3> QED BY <1>3, <1>5, <1>n, <3>1 DEF OnlyReceived
  <2>3. \A p \in Query : asked'[p] > 0 => txid'[p] # None
    BY <1>3, <1>6, <1>n DEF OnlyReceived
  <2>4. \A i \in 1 .. Len(wire') : txid'[wire'[i]] # None
    BY <1>2, <1>3, <1>n, <2>0 DEF OnlyReceived
  <2>5. \A p \in Query : replies'[p] # <<>> => txid'[p] # None
    BY <1>2, <1>3, <1>n DEF OnlyReceived
  <2> QED BY <2>1, <2>2, <2>3, <2>4, <2>5 DEF OnlyReceived
<1>10. /\ q \notin timers /\ replies[q] = <<>>
       /\ \A u \in Txid : table[u] # q
  <2>1. q \notin timers /\ replies[q] = <<>>
    BY <1>2 DEF OnlyReceived
  <2> QED BY <1>2, <2>1, NoneIsNothing DEF TableInv, EntryHasTimer
<1>11. ASSUME NEW p \in Query, p # q, txid[p] # None, Alone(p)' PROVE Alone(p)
  BY <1>2, <1>3, <1>11 DEF Alone
<1>12. EntryHasTimer'
  <2> SUFFICES ASSUME NEW u \in Txid, table'[u] # None
               PROVE  table'[u] \in timers' /\ txid'[table'[u]] = u
    BY DEF EntryHasTimer
  <2>1. CASE table'[u] = q
    BY <1>2, <1>3, <1>10, <2>1
  <2>2. CASE table'[u] # q
    <3>1. table'[u] = table[u] /\ table[u] \in Query
      BY <1>3, <2>2 DEF TypeOK
    <3> QED BY <1>2, <1>3, <2>2, <3>1 DEF TableInv, EntryHasTimer
  <2> QED BY <2>1, <2>2
<1>13. Unanswered'
  BY <1>2, <1>3, <1>10 DEF TableInv, Unanswered
<1>14. AnsweredOnce'
  BY <1>2 DEF TableInv, AnsweredOnce
<1>15. NoStaleTimer'
  <2> SUFFICES ASSUME NEW p \in timers', Alone(p)' PROVE table'[txid'[p]] = p
    BY DEF NoStaleTimer
  <2>1. CASE p = q
    <3>1. ASSUME table[t] # None PROVE FALSE
      <4>1. table[t] \in Query /\ table[t] # q /\ txid[table[t]] = t
        BY <1>10, <3>1 DEF TypeOK, TableInv, EntryHasTimer
      <4> QED BY <1>3, <2>1, <4>1 DEF Alone
    <3> QED BY <1>3, <2>1, <3>1
  <2>2. CASE p # q
    <3>1. p \in timers /\ p \in Query /\ txid[p] # None /\ txid[p] \in Txid
      BY <1>2, <2>2 DEF OnlyReceived, TypeOK
    <3>2. table[txid[p]] = p /\ p # None
      BY <1>11, <2>2, <3>1, NoneIsNothing DEF TableInv, NoStaleTimer
    <3> QED BY <1>3, <2>2, <3>1, <3>2
  <2> QED BY <2>1, <2>2
<1>16. ASSUME NEW p \in Query, Alone(p)', NEW i \in DOMAIN replies'[p]
       PROVE  Alone(p) /\ domain'[p] = domain[p] /\ replies'[p] = replies[p]
  <2>1. replies[p] # <<>> /\ replies'[p] = replies[p]
    BY <1>2, <1>16
  <2>2. txid[p] # None /\ p # q
    BY <1>10, <2>1 DEF OnlyReceived
  <2> QED BY <1>5, <1>11, <1>16, <2>1, <2>2
<1>17. OwnAnswer' /\ Unpolluted'
  BY <1>16 DEF TableInv, OwnAnswer, Unpolluted
<1> QED BY <1>7, <1>8, <1>9, <1>12, <1>13, <1>14, <1>15, <1>17 DEF TableInv

\* A timer erases the state of its query, or that of another one with its id.
LEMMA TimeoutKeeps ==
    ASSUME DnsInv, NEW q \in Query, Timeout(q)
    PROVE  DnsInv'
<1> USE DEF DnsInv
<1>1. /\ q \in timers /\ timers' = timers \ {q}
      /\ table' = [table EXCEPT ![txid[q]] = None]
      /\ UNCHANGED <<txid, domain, default, dloop, trusted, asked, wire, pos, tloop, replies>>
  BY DEF Timeout
<1>2. \A u \in Txid : table'[u] = IF u = txid[q] THEN None ELSE table[u]
  BY <1>1 DEF TypeOK
<1>3. TypeOK'
  BY <1>1 DEF TypeOK
<1>4. BufferHoldsAnswer' /\ OnlyReceived'
  BY <1>1 DEF BufferHoldsAnswer, OnlyReceived
<1>5. EntryHasTimer' /\ Unanswered'
  BY <1>1, <1>2 DEF TableInv, EntryHasTimer, Unanswered
<1>6. AnsweredOnce' /\ OwnAnswer' /\ Unpolluted'
  BY <1>1 DEF TableInv, AnsweredOnce, OwnAnswer, Unpolluted, Alone
<1>7. NoStaleTimer'
  <2> SUFFICES ASSUME NEW p \in timers', Alone(p) PROVE table'[txid[p]] = p
    BY <1>1 DEF NoStaleTimer, Alone
  <2>1. p \in timers /\ p # q /\ p \in Query /\ txid[p] \in Txid
    BY <1>1 DEF TypeOK, OnlyReceived
  <2>2. txid[p] # txid[q]
    BY <2>1 DEF Alone
  <2> QED BY <1>2, <2>1, <2>2 DEF TableInv, NoStaleTimer
<1> QED BY <1>3, <1>4, <1>5, <1>6, <1>7 DEF TableInv

\* The loop of the default nameserver.
LEMMA DefaultKeeps ==
    ASSUME DnsInv, DefaultLoop
    PROVE  DnsInv'
<1> USE DEF DnsInv
<1>1. CASE DefaultWritten
  <2>1. TypeOK' /\ BufferHoldsAnswer' /\ OnlyReceived'
    BY <1>1 DEF DefaultWritten, TypeOK, BufferHoldsAnswer, OnlyReceived
  <2> QED BY <1>1, <2>1, TableFrame DEF DefaultWritten
<1>2. ASSUME NEW q \in Query, DefaultForward(q) PROVE DnsInv'
  <2> DEFINE p == table[txid[q]]
  <2>1. /\ default[q] > 0 /\ p # None
        /\ default' = [default EXCEPT ![q] = @ - 1]
        /\ asked' = IF trusted THEN [asked EXCEPT ![p] = @ + 1] ELSE asked
        /\ dloop' = IF trusted THEN "forward" ELSE "recv"
        /\ UNCHANGED <<txid, domain, table, timers, trusted, wire, pos, tloop, replies>>
    BY <1>2 DEF DefaultForward, Retry, OverTrusted
  <2>2. txid[q] \in Txid
    BY <2>1 DEF OnlyReceived, TypeOK
  <2>3. p \in Query /\ txid[p] = txid[q]
    BY <2>1, <2>2 DEF TypeOK, TableInv, EntryHasTimer
  <2> HIDE DEF p
  <2>4. /\ default' \in [Query -> Nat] /\ asked' \in [Query -> Nat]
        /\ \A u \in Query : default'[u] > 0 => default[u] > 0
        /\ \A u \in Query : asked'[u] > 0 => asked[u] > 0 \/ u = p
    <3>1. default \in [Query -> Nat] /\ asked \in [Query -> Nat] BY DEF TypeOK
    <3>2. default' \in [Query -> Nat] /\ \A u \in Query : default'[u] > 0 => default[u] > 0
      BY <2>1, <3>1
    <3>3. CASE trusted
      <4>1. asked' = [asked EXCEPT ![p] = @ + 1] BY <2>1, <3>3
      <4>2. asked' \in [Query -> Nat] BY <2>3, <3>1, <4>1
      <4>3. \A u \in Query : u # p => asked'[u] = asked[u] BY <3>1, <4>1
      <4> QED BY <3>2, <4>2, <4>3
    <3>4. CASE ~trusted
      <4>1. asked' = asked BY <2>1, <3>4
      <4> QED BY <3>1, <3>2, <4>1
    <3> QED BY <3>3, <3>4
  <2>5. TypeOK' /\ BufferHoldsAnswer'
    BY <2>1, <2>4 DEF TypeOK, BufferHoldsAnswer
  <2>6. OnlyReceived'
    BY <2>1, <2>2, <2>3, <2>4, NoneIsNothing DEF OnlyReceived
  <2> QED BY <2>1, <2>5, <2>6, TableFrame
<1>3. ASSUME NEW q \in Query, NEW ok \in BOOLEAN, DefaultReply(q, ok) PROVE DnsInv'
  <2> DEFINE r == [about |-> q, src |-> "default", ok |-> ok]
  <2>1. /\ default[q] > 0 /\ ~Retry(txid[q], ok)
        /\ default' = [default EXCEPT ![q] = @ - 1]
        /\ \/ DnsResponse(txid[q], r) /\ dloop' = "reply"
           \/ NotFound(txid[q]) /\ UNCHANGED dloop
        /\ UNCHANGED <<txid, domain, trusted, asked, wire, pos, tloop>>
    BY <1>3 DEF DefaultReply
  <2>2. txid[q] # None /\ ~domain[q]
    BY <2>1 DEF OnlyReceived
  <2>3. r \in Reply /\ r.about = q /\ r.src = "default" /\ (r.ok <=> ok)
    BY DEF Reply
  <2> HIDE DEF r
  <2>4. /\ TableInv'
        /\ table' \in [Txid -> Query \cup {None}] /\ timers' \subseteq timers
        /\ replies' \in [Query -> Seq(Reply)]
        /\ \A p \in Query : replies'[p] # <<>> => txid[p] # None
    <3>1. CASE DnsResponse(txid[q], r)
      <4>1. r.ok \/ domain[table[txid[q]]]
        BY <2>1, <2>3, <3>1 DEF Retry, DnsResponse
      <4> QED BY <2>1, <2>2, <2>3, <3>1, <4>1, ResponseKeeps
    <3>2. CASE NotFound(txid[q])
      BY <2>1, <3>2, TableFrame DEF NotFound, TypeOK, OnlyReceived
    <3> QED BY <2>1, <3>1, <3>2
  <2>5. default' \in [Query -> Nat] /\ \A u \in Query : default'[u] > 0 => default[u] > 0
    BY <2>1 DEF TypeOK
  <2>6. TypeOK' /\ BufferHoldsAnswer'
    BY <2>1, <2>4, <2>5 DEF TypeOK, BufferHoldsAnswer
  <2>7. OnlyReceived'
    BY <2>1, <2>4, <2>5 DEF OnlyReceived
  <2> QED BY <2>4, <2>6, <2>7
<1> QED BY <1>1, <1>2, <1>3 DEF DefaultLoop

\* An answer of the trusted nameserver is sent to the client found for it.
LEMMA TrustedReplyKeeps ==
    ASSUME DnsInv, wire # <<>>, TrustedReply, NEW n \in Nat, n >= Parts, Consumed(n),
           UNCHANGED <<txid, domain, default, dloop, trusted, asked>>
    PROVE  DnsInv'
<1> USE DEF DnsInv
<1> DEFINE q == Head(wire)
           r == [about |-> q, src |-> "trusted", ok |-> TRUE]
<1>1. /\ q \in Query /\ txid[q] # None /\ Tail(wire) \in Seq(Query)
      /\ \A i \in 1 .. Len(Tail(wire)) : txid[Tail(wire)[i]] # None
  BY HeadOfWire
<1>2. \/ DnsResponse(txid[q], r) /\ tloop' = "reply" /\ UNCHANGED wire
      \/ NotFound(txid[q]) /\ tloop' = "read" /\ wire' = Tail(wire)
  BY DEF TrustedReply
<1>3. r \in Reply /\ r.about = q /\ r.src # "default"
  BY <1>1 DEF Reply
<1> HIDE DEF q, r
<1>4. /\ TableInv'
      /\ table' \in [Txid -> Query \cup {None}] /\ timers' \subseteq timers
      /\ replies' \in [Query -> Seq(Reply)]
      /\ \A p \in Query : replies'[p] # <<>> => txid[p] # None
  <2>1. CASE DnsResponse(txid[q], r)
    BY <1>1, <1>3, <2>1, ResponseKeeps
  <2>2. CASE NotFound(txid[q])
    BY <2>2, TableFrame DEF NotFound, TypeOK, OnlyReceived
  <2> QED BY <1>2, <2>1, <2>2
<1>5. /\ wire' \in Seq(Query) /\ \A i \in 1 .. Len(wire') : txid[wire'[i]] # None
      /\ tloop' \in {"reply", "read"}
      /\ tloop' = "reply" => wire' # <<>>
  BY <1>1, <1>2 DEF TypeOK, OnlyReceived
<1>6. pos' \in Nat /\ (tloop' = "reply" => pos' >= Parts)
  BY DEF Consumed, Parts
<1>7. TypeOK'
  BY <1>4, <1>5, <1>6 DEF TypeOK
<1>b. BufferHoldsAnswer'
  BY <1>5, <1>6 DEF BufferHoldsAnswer
<1>8. OnlyReceived'
  BY <1>4, <1>5 DEF OnlyReceived
<1> QED BY <1>4, <1>7, <1>8, <1>b

\* The loop of the trusted nameserver, and its connection.
LEMMA TrustedKeeps ==
    ASSUME DnsInv, TrustedLoop \/ TrustedFails \/ Reconnect
    PROVE  DnsInv'
<1> USE DEF DnsInv
<1>1. CASE TrustedRead
  <2>1. PICK n \in pos + 1 .. Parts * Len(wire) :
           \/ /\ n < HeadParts
              /\ pos' = n
              /\ UNCHANGED <<table, timers, replies, wire, tloop>>
           \/ /\ HeadParts <= n /\ n < Parts
              /\ pos' = n
              /\ tloop' = "rest"
              /\ UNCHANGED <<table, timers, replies, wire>>
           \/ /\ Parts <= n
              /\ TrustedReply
              /\ Consumed(n)
    BY <1>1 DEF TrustedRead
  <2>2. tloop = "read" /\ UNCHANGED <<txid, domain, default, dloop, trusted, asked>>
    BY <1>1 DEF TrustedRead
  <2>3. n \in Nat /\ n > 0 /\ wire # <<>>
    BY <2>1 DEF TypeOK, Parts
  <2>4. CASE UNCHANGED <<table, timers, replies, wire>> /\ pos' = n /\ tloop' \in {"read", "rest"}
    <3>1. TypeOK' /\ BufferHoldsAnswer' /\ OnlyReceived'
      BY <2>2, <2>3, <2>4 DEF TypeOK, BufferHoldsAnswer, OnlyReceived
    <3> QED BY <2>2, <2>4, <3>1, TableFrame
  <2>5. CASE Parts <= n /\ TrustedReply /\ Consumed(n)
    BY <2>2, <2>3, <2>5, TrustedReplyKeeps DEF Parts
  <2> QED BY <2>1, <2>2, <2>4, <2>5
<1>2. CASE TrustedRest
  <2>1. wire # <<>> /\ Parts \in Nat /\ Parts >= Parts
    BY <1>2 DEF TrustedRest, BufferHoldsAnswer, Parts
  <2> QED BY <1>2, <2>1, TrustedReplyKeeps DEF TrustedRest
<1>3. CASE TrustedReplied
  <2>1. /\ tloop = "reply" /\ tloop' = "read" /\ wire' = Tail(wire) /\ pos' = pos - Parts
        /\ UNCHANGED <<txid, domain, table, timers, default, dloop, trusted, asked, replies>>
    BY <1>3 DEF TrustedReplied
  <2>2. pos' \in Nat /\ wire # <<>>
    BY <2>1 DEF BufferHoldsAnswer, TypeOK, Parts
  <2>3. TypeOK' /\ BufferHoldsAnswer'
    BY <2>1, <2>2, HeadOfWire DEF TypeOK, BufferHoldsAnswer
  <2>4. OnlyReceived'
    BY <2>1, <2>2, HeadOfWire DEF OnlyReceived
  <2> QED BY <2>1, <2>3, <2>4, TableFrame
<1>4. CASE TrustedFails
  <2>0. TypeOK'
    <3>0. trusted' \in BOOLEAN
      BY <1>4, Zenon DEF TrustedFails
    <3>1. asked' \in [Query -> Nat] /\ wire' \in Seq(Query)
      BY <1>4 DEF TrustedFails
    <3> QED BY <1>4, <3>0, <3>1 DEF TrustedFails, TypeOK
  <2>1. BufferHoldsAnswer' /\ OnlyReceived'
    BY <1>4 DEF TrustedFails, BufferHoldsAnswer, OnlyReceived
  <2> QED BY <1>4, <2>0, <2>1, TableFrame DEF TrustedFails
<1>5. CASE Reconnect
  <2>0. TypeOK'
    <3>0. trusted' = TRUE \/ trusted' = trusted
      BY <1>5 DEF Reconnect, TrustedConnect, TrustedWaited
    <3>1. trusted' \in BOOLEAN
      BY <3>0, Zenon DEF TypeOK
    <3>2. pos' \in Nat
      BY <1>5 DEF Reconnect, TrustedConnect, TrustedWaited, TypeOK
    <3> QED BY <1>5, <3>1, <3>2 DEF Reconnect, TrustedConnect, TrustedWaited, TypeOK
  <2>1. BufferHoldsAnswer' /\ OnlyReceived'
    BY <1>5 DEF Reconnect, TrustedConnect, TrustedWaited, BufferHoldsAnswer, OnlyReceived
  <2> QED BY <1>5, <2>0, <2>1, TableFrame DEF Reconnect, TrustedConnect, TrustedWaited
<1> QED BY <1>1, <1>2, <1>3, <1>4, <1>5 DEF TrustedLoop

\* The trusted nameserver answers a query it was asked.
LEMMA AnswersKeep ==
    ASSUME DnsInv, NEW q \in Query, TrustedAnswers(q)
    PROVE  DnsInv'
<1> USE DEF DnsInv
<1>1. /\ asked[q] > 0 /\ asked' = [asked EXCEPT ![q] = @ - 1] /\ wire' = Append(wire, q)
      /\ UNCHANGED <<txid, domain, table, timers, default, dloop, trusted, pos, tloop, replies>>
  BY DEF TrustedAnswers
<1>2. asked' \in [Query -> Nat] /\ \A p \in Query : asked'[p] > 0 => asked[p] > 0
  BY <1>1 DEF TypeOK
<1>3. /\ wire' \in Seq(Query) /\ wire' # <<>>
      /\ \A i \in 1 .. Len(wire') : txid[wire'[i]] # None
  <2>1. wire \in Seq(Query) /\ txid[q] # None
    BY <1>1 DEF TypeOK, OnlyReceived
  <2>2. /\ Append(wire, q) \in Seq(Query) /\ Len(Append(wire, q)) = Len(wire) + 1
        /\ \A i \in 1 .. Len(wire) + 1 : Append(wire, q)[i] = IF i = Len(wire) + 1 THEN q ELSE wire[i]
        /\ \A i \in 1 .. Len(wire) + 1 : i # Len(wire) + 1 => i \in 1 .. Len(wire)
    BY <2>1
  <2> QED BY <1>1, <2>1, <2>2 DEF OnlyReceived
<1>4. TypeOK' /\ BufferHoldsAnswer'
  BY <1>1, <1>2, <1>3 DEF TypeOK, BufferHoldsAnswer
<1>5. OnlyReceived'
  BY <1>1, <1>2, <1>3 DEF OnlyReceived
<1> QED BY <1>1, <1>4, <1>5, TableFrame

-----------------------------------------------------------------------------
(***************************************************************************)
(* The theorems.                                                           *)
(***************************************************************************)

\* DnsInv is an inductive invariant of the DNS proxy: of handle_dns_query, the
\* two loops and the timers.
THEOREM DnsInvariant == Spec => []DnsInv
<1>1. Init => DnsInv
  <2> SUFFICES ASSUME Init PROVE DnsInv
    OBVIOUS
  <2>1. TypeOK
    <3>1. domain \in [Query -> BOOLEAN] /\ trusted \in BOOLEAN
      BY Zenon DEF Init
    <3> QED BY <3>1 DEF Init, TypeOK
  <2>2. BufferHoldsAnswer /\ OnlyReceived
    BY DEF Init, BufferHoldsAnswer, OnlyReceived
  <2>3. EntryHasTimer /\ Unanswered /\ NoStaleTimer
    BY DEF Init, EntryHasTimer, Unanswered, NoStaleTimer
  <2>4. AnsweredOnce /\ OwnAnswer /\ Unpolluted
    BY DEF Init, AnsweredOnce, OwnAnswer, Unpolluted
  <2> QED BY <2>1, <2>2, <2>3, <2>4 DEF DnsInv, TableInv
<1>2. DnsInv /\ [Next]_vars => DnsInv'
  <2> SUFFICES ASSUME DnsInv, [Next]_vars PROVE DnsInv'
    OBVIOUS
  <2>1. CASE UNCHANGED vars
    <3>1. UNCHANGED <<txid, domain, table, timers, default, dloop, trusted, asked, wire, pos, tloop, replies>>
      BY <2>1 DEF vars
    <3>2. TypeOK' /\ BufferHoldsAnswer' /\ OnlyReceived'
      BY <3>1 DEF DnsInv, TypeOK, BufferHoldsAnswer, OnlyReceived
    <3> QED BY <3>1, <3>2, TableFrame DEF DnsInv
  <2> QED BY <2>1, HandleQueryKeeps, TimeoutKeeps, DefaultKeeps, TrustedKeeps, AnswersKeep
          DEF Next, Idle
<1> QED BY <1>1, <1>2, PTL DEF Spec

\* Every state in g_dns_states has a timer of its own.
THEOREM EntriesTimed == Spec => []EntryHasTimer
<1>1. DnsInv => EntryHasTimer
  BY DEF DnsInv, TableInv
<1> QED BY <1>1, DnsInvariant, PTL

\* No client is answered twice.
THEOREM OneAnswer == Spec => []AnsweredOnce
<1>1. DnsInv => AnsweredOnce
  BY DEF DnsInv, TableInv
<1> QED BY <1>1, DnsInvariant, PTL

\* A client that shares its id with nobody is sent the answer to its question.
THEOREM RightAnswer == Spec => []OwnAnswer
<1>1. DnsInv => OwnAnswer
  BY DEF DnsInv, TableInv
<1> QED BY <1>1, DnsInvariant, PTL

\* Such a client gets from the default nameserver only answers inside the ip
\* ranges, and none for the names of trusted_ns_domains.
THEOREM NoPollution == Spec => []Unpolluted
<1>1. DnsInv => Unpolluted
  BY DEF DnsInv, TableInv
<1> QED BY <1>1, DnsInvariant, PTL

\* The running timer of a query that shares its id with none is that of a
\* state in the table.
THEOREM TimersOfEntries == Spec => []NoStaleTimer
<1>1. DnsInv => NoStaleTimer
  BY DEF DnsInv, TableInv
<1> QED BY <1>1, DnsInvariant, PTL

-----------------------------------------------------------------------------
(***************************************************************************)
(* The direct relay, for any number of chunks, and whether or not a peer   *)
(* may reset its connection.                                               *)
(***************************************************************************)
\* Types of the state of do_relay and of its two transfers.
RelayTypes ==
    /\ main \in {"connect", "first", "run", "done"}
    /\ xfer \in [Sides -> {"off", "read", "write", "done"}]
    /\ timer \in {"armed", "fired", "off"}
    /\ sock \in [Sides -> BOOLEAN]
    /\ peer \in [Sides -> {"open", "eof", "reset"}]
    /\ sent \in [Sides -> 0 .. Chunks]
    /\ got \in [Sides -> Nat]

\* Nobody has reset and the timer has not fired.
Calm == timer = "armed" /\ \A s \in Sides : peer[s] # "reset"

\* While the timer is armed no socket of a running relay is closed: the
\* transfers close nothing.
SocketsOpen ==
    timer = "armed" => /\ main # "done" => sock["local"]
                       /\ main \in {"first", "run"} => sock["remote"]

\* Before the transfers start at most the bytes of the handshake were read.
BeforeRun ==
    /\ main \in {"connect", "first"} => \A s \in Sides : xfer[s] = "off"
    /\ main = "connect" => \A s \in Sides : sent[s] = 0 /\ got[s] = 0
    /\ main = "first" => /\ sent["local"] = 1 /\ sent["remote"] = 0
                         /\ \A s \in Sides : got[s] = 0

\* What a transfer has read is written, but for the chunk it is writing; it
\* ends only when its side has sent everything.
Forwarded ==
    main = "run" /\ Calm => \A s \in Sides :
        /\ xfer[s] # "off"
        /\ xfer[s] = "read" => got[Other(s)] = sent[s]
        /\ xfer[s] = "write" => got[Other(s)] + 1 = sent[s]
        /\ xfer[s] = "done" => got[Other(s)] = Chunks

RelayInv == RelayTypes /\ SocketsOpen /\ BeforeRun /\ Forwarded

-----------------------------------------------------------------------------
\* The peer of the peer of a side is the side.
LEMMA OtherSide == /\ \A s \in Sides : Other(s) \in Sides /\ Other(s) # s
                   /\ \A s, t \in Sides : s # t => t = Other(s)
                   /\ "local" \in Sides /\ "remote" \in Sides
                   /\ Other("local") = "remote" /\ Other("remote") = "local"
BY DEF Sides, Other

\* Every step of do_relay, the transfers, the timer and the peers keeps the
\* types.
LEMMA RelayTypesStep ==
    ASSUME RelayTypes, [RelayNext]_relayVars
    PROVE  RelayTypes'
<1> USE OtherSide, ChunksAssumption DEF RelayTypes
<1>1. CASE Connected
  BY <1>1 DEF Connected
<1>2. CASE ConnectFails
  BY <1>2 DEF ConnectFails
<1>3. CASE FirstWritten
  BY <1>3 DEF FirstWritten
<1>4. CASE Join
  BY <1>4 DEF Join
<1>5. CASE RelayTimeout
  BY <1>5 DEF RelayTimeout
<1>6. ASSUME NEW s \in Sides, Transfer(s) PROVE RelayTypes'
  BY <1>6 DEF Transfer, ReadChunk, WriteChunk, TransferEnds
<1>7. ASSUME NEW s \in Sides, PeerEnds(s) PROVE RelayTypes'
  BY <1>7 DEF PeerEnds
<1>8. CASE UNCHANGED relayVars
  BY <1>8 DEF relayVars
<1> QED BY <1>1, <1>2, <1>3, <1>4, <1>5, <1>6, <1>7, <1>8 DEF RelayNext, Main, Finished

\* No step of a running relay closes a socket before the timer fires.
LEMMA SocketsStep == RelayTypes /\ SocketsOpen /\ [RelayNext]_relayVars => SocketsOpen'
<1> SUFFICES ASSUME RelayTypes, SocketsOpen, [RelayNext]_relayVars PROVE SocketsOpen'
  OBVIOUS
<1> USE OtherSide DEF RelayTypes, SocketsOpen
<1>1. CASE Main
  BY <1>1 DEF Main, Connected, ConnectFails, FirstWritten, Join
<1>2. CASE RelayTimeout
  BY <1>2 DEF RelayTimeout
<1>3. ASSUME NEW s \in Sides, Transfer(s) \/ PeerEnds(s) PROVE SocketsOpen'
  BY <1>3 DEF Transfer, ReadChunk, WriteChunk, TransferEnds, PeerEnds
<1>4. CASE UNCHANGED relayVars
  BY <1>4 DEF relayVars
<1> QED BY <1>1, <1>2, <1>3, <1>4 DEF RelayNext, Finished

\* The chunks read before the transfers start are those of the handshake.
LEMMA BeforeStep == RelayTypes /\ BeforeRun /\ [RelayNext]_relayVars => BeforeRun'
<1> SUFFICES ASSUME RelayTypes, BeforeRun, [RelayNext]_relayVars PROVE BeforeRun'
  OBVIOUS
<1> USE OtherSide DEF RelayTypes, BeforeRun
<1>1. CASE Main
  BY <1>1 DEF Main, Connected, ConnectFails, FirstWritten, Join
<1>2. CASE RelayTimeout
  BY <1>2 DEF RelayTimeout
<1>3. ASSUME NEW s \in Sides, Transfer(s) PROVE BeforeRun'
  BY <1>3 DEF Transfer, ReadChunk, WriteChunk, TransferEnds
<1>4. ASSUME NEW s \in Sides, PeerEnds(s) PROVE BeforeRun'
  BY <1>4 DEF PeerEnds
<1>5. CASE UNCHANGED relayVars
  BY <1>5 DEF relayVars
<1> QED BY <1>1, <1>2, <1>3, <1>4, <1>5 DEF RelayNext, Finished

\* Resets stay, and a timer that is not armed stays so.
LEMMA CalmBefore == RelayTypes /\ [RelayNext]_relayVars /\ Calm' => Calm
<1> SUFFICES ASSUME RelayTypes, [RelayNext]_relayVars, Calm' PROVE Calm
  OBVIOUS
<1> USE OtherSide DEF RelayTypes, Calm
<1>1. CASE Main
  BY <1>1 DEF Main, Connected, ConnectFails, FirstWritten, Join
<1>2. CASE RelayTimeout
  BY <1>2 DEF RelayTimeout
<1>3. ASSUME NEW s \in Sides, Transfer(s) PROVE Calm
  BY <1>3 DEF Transfer, ReadChunk, WriteChunk, TransferEnds
<1>4. ASSUME NEW s \in Sides, PeerEnds(s) PROVE Calm
  BY <1>4 DEF PeerEnds
<1>5. CASE UNCHANGED relayVars
  BY <1>5 DEF relayVars
<1> QED BY <1>1, <1>2, <1>3, <1>4, <1>5 DEF RelayNext, Finished

\* While nothing goes wrong a transfer forwards all it reads.
LEMMA ForwardedStep ==
    ASSUME RelayInv, [RelayNext]_relayVars
    PROVE  Forwarded'
<1> SUFFICES ASSUME main' = "run", Calm'
             PROVE  Forwarded'
  BY DEF Forwarded
<1>0. Calm /\ Calm'
  BY CalmBefore DEF RelayInv
<1> USE OtherSide, ChunksAssumption DEF RelayTypes, RelayInv
<1>1. CASE Connected
  BY <1>1 DEF Connected, Forwarded, BeforeRun
<1>2. CASE FirstWritten
  <2>1. Writable("remote")
    BY <1>0, <1>2 DEF FirstWritten, Writable, SocketsOpen, Calm
  <2> QED BY <1>2, <2>1 DEF FirstWritten, Forwarded, BeforeRun, Sides
<1>3. CASE ConnectFails \/ Join \/ RelayTimeout
  BY <1>0, <1>3 DEF ConnectFails, Join, RelayTimeout, Calm
<1>4. ASSUME NEW s \in Sides, ReadChunk(s) PROVE Forwarded'
  BY <1>0, <1>4 DEF ReadChunk, Forwarded
<1>5. ASSUME NEW s \in Sides, WriteChunk(s) PROVE Forwarded'
  BY <1>0, <1>5 DEF WriteChunk, Forwarded
<1>6. ASSUME NEW s \in Sides, TransferEnds(s) PROVE Forwarded'
  <2>1. main = "run" /\ \A t \in Sides : sock[t] /\ peer[t] # "reset"
    BY <1>0, <1>6 DEF TransferEnds, SocketsOpen, Calm, Sides
  <2>2. xfer[s] = "read" /\ sent[s] = Chunks
    BY <1>6, <2>1 DEF TransferEnds, Writable
  <2> QED BY <1>0, <1>6, <2>1, <2>2 DEF TransferEnds, Forwarded
<1>7. ASSUME NEW s \in Sides, PeerEnds(s) PROVE Forwarded'
  BY <1>0, <1>7 DEF PeerEnds, Forwarded
<1>8. CASE UNCHANGED relayVars
  BY <1>8, <1>0 DEF relayVars, Forwarded
<1> QED BY <1>1, <1>2, <1>3, <1>4, <1>5, <1>6, <1>7, <1>8
        DEF RelayNext, Main, Transfer, Finished

-----------------------------------------------------------------------------
\* RelayInv is an inductive invariant of do_relay with its transfers.
THEOREM RelayInvariant == RelaySpec => []RelayInv
<1>1. RelayInit => RelayInv
  <2> SUFFICES ASSUME RelayInit PROVE RelayInv
    OBVIOUS
  <2>1. sock = [s \in Sides |-> s = "local"] /\ \A s \in Sides : (s = "local") \in BOOLEAN
    BY DEF RelayInit
  <2>2. sock \in [Sides -> BOOLEAN] /\ sock["local"]
    BY <2>1, OtherSide, Zenon
  <2>3. RelayTypes
    BY <2>2, ChunksAssumption DEF RelayInit, RelayTypes
  <2> QED BY <2>2, <2>3, OtherSide
          DEF RelayInit, RelayInv, SocketsOpen, BeforeRun, Forwarded
<1>2. RelayInv /\ [RelayNext]_relayVars => RelayInv'
  BY RelayTypesStep, SocketsStep, BeforeStep, ForwardedStep DEF RelayInv
<1> QED BY <1>1, <1>2, PTL DEF RelaySpec

\* Half-close: while nobody resets and the timer does not fire, a transfer of
\* a direct relay returns only after it has delivered everything.
THEOREM HalfClose == RelaySpec => []HalfCloseDelivers
<1>1. RelayInv => HalfCloseDelivers
  BY DEF RelayInv, Forwarded, Calm, HalfCloseDelivers
<1> QED BY <1>1, RelayInvariant, PTL

-----------------------------------------------------------------------------
(***************************************************************************)
(* The time wheel, for any tasks, timeouts, slots, lateness of the scans   *)
(* and suspension of the callbacks.                                        *)
(***************************************************************************)
\* Types of the clock, of Run and of the tasks it examines.
WheelTypes ==
    /\ now \in Nat /\ left \in Nat /\ stall \in Nat
    /\ run \in {"wait", "scan", "call"}
    /\ place \in [Tasks -> {"idle", "wheel", "queue", "call"}]
    /\ slot \in [Tasks -> Nat]
    /\ canceled \subseteq Tasks
    /\ age \in [Tasks -> Nat]

\* Run awaits one callback at a time, and holds tasks of a slot only while it
\* scans.
OneCallback ==
    /\ run = "wait" => \A k \in Tasks : place[k] \notin {"queue", "call"}
    /\ run = "scan" => \A k \in Tasks : place[k] # "call"
    /\ \A j, k \in Tasks : place[j] = "call" /\ place[k] = "call" => j = k

WheelInv == WheelTypes /\ OneCallback

-----------------------------------------------------------------------------
\* The clock and the slots stay natural numbers.
LEMMA SlotType ==
    /\ \A m \in Nat : GetIdxByMillsecs(m) \in Nat
    /\ \A m \in Nat : m % Clock \in Nat /\ m % Second \in Nat
<1>1. SlotMs \in Nat \ {0} /\ Slots \in Nat \ {0} /\ Clock \in Nat \ {0} /\ Second \in Nat \ {0}
  BY WheelAssumption
<1>2. \A m, n \in Nat : n # 0 => m % n \in Nat /\ m \div n \in Nat
  OBVIOUS
<1> QED BY <1>1, <1>2 DEF GetIdxByMillsecs

\* Every step of the wheel keeps the types.
LEMMA WheelTypesStep ==
    ASSUME WheelTypes, [WheelNext]_wheelVars
    PROVE  WheelTypes'
<1>0. /\ Period \in Nat /\ TimeoutMs \in Nat /\ Clock \in Nat /\ Cap \in Nat /\ Extra \in Nat
      /\ Late \subseteq Nat /\ Steps \subseteq Nat
  BY WheelAssumption
<1>1. ASSUME NEW k \in Tasks, Add(k) PROVE WheelTypes'
  <2>1. GetIdxByMillsecs((now + TimeoutMs) % Clock) \in Nat /\ now % Second \in Nat
    <3>1. now + TimeoutMs \in Nat /\ now \in Nat
      BY <1>0 DEF WheelTypes
    <3> QED BY <3>1, SlotType
  <2> QED BY <1>1, <2>1 DEF WheelTypes, Add
<1>2. ASSUME NEW k \in Tasks, Touch(k) PROVE WheelTypes'
  BY <1>2, SlotType DEF WheelTypes, Touch
<1>3. ASSUME NEW k \in Tasks, Cancel(k) PROVE WheelTypes'
  BY <1>3 DEF WheelTypes, Cancel
<1>4. CASE Elapse
  <2>1. ASSUME NEW d \in Nat PROVE Older(d) \in [Tasks -> Nat] /\ (now + d) % Clock \in Nat
    <3>1. now + d \in Nat
      BY DEF WheelTypes
    <3>2. Older(d) \in [Tasks -> Nat]
      BY <1>0 DEF WheelTypes, Older
    <3> QED BY <3>1, <3>2, SlotType
  <2> QED BY <1>0, <1>4, <2>1 DEF WheelTypes, Elapse
<1>5. CASE Tick
  BY <1>0, <1>5 DEF WheelTypes, Tick, Rearm, Wait
<1>6. ASSUME NEW k \in Tasks, SkipCanceled(k) \/ Call(k) PROVE WheelTypes'
  BY <1>6 DEF WheelTypes, SkipCanceled, Call
<1>7. ASSUME NEW k \in Tasks, PutBack(k) PROVE WheelTypes'
  <2> DEFINE s == GetIdxByMillsecs((now + Clock * Cap - age[k] + TimeoutMs + Extra) % Clock)
  <2>1. s \in Nat
    <3>1. now + Clock * Cap - age[k] + TimeoutMs + Extra \in Int
      BY <1>0 DEF WheelTypes
    <3>2. \A m \in Int : m % Clock \in Nat
      BY WheelAssumption
    <3> QED BY <3>1, <3>2, SlotType
  <2> HIDE DEF s
  <2>2. slot' = [slot EXCEPT ![k] = s]
    BY <1>7 DEF PutBack, s
  <2> QED BY <1>7, <2>1, <2>2 DEF WheelTypes, PutBack
<1>8. CASE CallbackReturns
  BY <1>8 DEF WheelTypes, CallbackReturns
<1>9. CASE ScanEnds
  BY <1>0, <1>9 DEF WheelTypes, ScanEnds, Rearm, Wait
<1>10. CASE UNCHANGED wheelVars
  BY <1>10 DEF WheelTypes, wheelVars
<1> QED BY <1>1, <1>2, <1>3, <1>4, <1>5, <1>6, <1>7, <1>8, <1>9, <1>10 DEF WheelNext, Run

\* A callback is awaited inside the scan, so no other starts meanwhile.
LEMMA CallbackStep == WheelInv /\ [WheelNext]_wheelVars => OneCallback'
<1> SUFFICES ASSUME WheelInv, [WheelNext]_wheelVars PROVE OneCallback'
  OBVIOUS
<1> USE DEF WheelInv, WheelTypes, OneCallback
<1>1. ASSUME NEW k \in Tasks, Add(k) \/ Touch(k) \/ Cancel(k) PROVE OneCallback'
  BY <1>1 DEF Add, Touch, Cancel
<1>2. CASE Elapse
  BY <1>2 DEF Elapse
<1>3. CASE Tick
  BY <1>3 DEF Tick
<1>4. ASSUME NEW k \in Tasks, Run(k) PROVE OneCallback'
  BY <1>4 DEF Run, SkipCanceled, Call, PutBack
<1>5. CASE CallbackReturns
  BY <1>5 DEF CallbackReturns
<1>6. CASE ScanEnds
  BY <1>6 DEF ScanEnds
<1>7. CASE UNCHANGED wheelVars
  BY <1>7 DEF wheelVars
<1> QED BY <1>1, <1>2, <1>3, <1>4, <1>5, <1>6, <1>7 DEF WheelNext

\* WheelInv is an inductive invariant of the time wheel: of the tasks at most
\* one is being called back.
THEOREM WheelInvariant == WheelSpec => []WheelInv
<1>1. WheelInit => WheelInv
  BY WheelAssumption DEF WheelInit, WheelInv, WheelTypes, OneCallback
<1>2. WheelInv /\ [WheelNext]_wheelVars => WheelInv'
  BY WheelTypesStep, CallbackStep DEF WheelInv
<1> QED BY <1>1, <1>2, PTL DEF WheelSpec

-----------------------------------------------------------------------------
\* The tasks whose active time cannot move on while a scan is suspended: those
\* without a get_active_time function, and all when no callback is suspended.
Unmoved == {k \in Tasks : k \notin Active \/ MaxStall = 0}

\* A task of the slot being scanned was there when the scan took its time, and
\* one that is called back has been idle for longer than its timeout.
IdleInv ==
    /\ stall <= MaxStall
    /\ \A k \in Unmoved : place[k] = "queue" => age[k] >= stall
    /\ \A k \in Unmoved : place[k] = "call" => age[k] > TimeoutMs

\* No step of the wheel spoils that.
LEMMA IdleStep ==
    ASSUME WheelInv, IdleInv, [WheelNext]_wheelVars
    PROVE  IdleInv'
<1> USE DEF WheelInv, WheelTypes, IdleInv
<1>0. /\ TimeoutMs \in Nat /\ Steps \subseteq Nat \ {0} /\ MaxStall \in Nat /\ Cap \in Nat
      /\ Cap > TimeoutMs + MaxStall
  BY WheelAssumption, ClockAssumption
<1>u. Unmoved \subseteq Tasks
  BY DEF Unmoved
<1>1. ASSUME NEW k \in Tasks, Add(k) PROVE IdleInv'
  BY <1>u, <1>1 DEF Add
<1>2. ASSUME NEW k \in Tasks, Touch(k) PROVE IdleInv'
  <2>1. /\ \A j \in Tasks \ {k} : age'[j] = age[j]
        /\ k \in Active /\ place' = place /\ stall' = stall /\ ~Busy /\ place[k] # "call"
    BY <1>2 DEF Touch
  <2>2. CASE MaxStall = 0
    <3>1. \A j \in Tasks : place[j] \notin {"queue", "call"}
      BY <2>1, <2>2 DEF Busy, OneCallback
    <3> QED BY <1>u, <2>1, <3>1
  <2>3. CASE MaxStall # 0
    BY <1>u, <2>1, <2>3 DEF Unmoved
  <2> QED BY <2>2, <2>3
<1>3. CASE Elapse
  <2>1. CASE run = "wait"
    <3>1. stall' = stall /\ place' = place
      BY <1>3, <2>1 DEF Elapse
    <3>2. \A k \in Tasks : place[k] \notin {"queue", "call"}
      BY <2>1 DEF OneCallback
    <3> QED BY <1>u, <3>1, <3>2
  <2>2. CASE run # "wait"
    <3>1. PICK d \in Steps : /\ stall + d <= MaxStall /\ age' = Older(d)
                             /\ stall' = stall + d /\ place' = place
      BY <1>3, <2>2 DEF Elapse
    <3>2. \A k \in Tasks : place[k] # "idle" =>
              age'[k] = IF age[k] + d > Cap THEN Cap ELSE age[k] + d
      BY <3>1 DEF Older
    <3>3. d \in Nat
      BY <1>0
    <3> QED BY <1>0, <1>u, <3>1, <3>2, <3>3
  <2> QED BY <2>1, <2>2
<1>4. CASE Tick
  <2>1. stall' = 0 /\ age' = age /\ \A k \in Tasks : place'[k] = "call" => place[k] = "call"
    BY <1>4 DEF Tick
  <2> QED BY <1>0, <1>u, <2>1
<1>5. ASSUME NEW k \in Tasks, Call(k) PROVE IdleInv'
  <2>1. k \in Unmoved => age[k] > TimeoutMs
    BY <1>0, <1>5 DEF Call, Expired
  <2> QED BY <1>u, <1>5, <2>1 DEF Call
<1>6. ASSUME NEW k \in Tasks, SkipCanceled(k) \/ PutBack(k) \/ Cancel(k) PROVE IdleInv'
  BY <1>u, <1>6 DEF SkipCanceled, PutBack, Cancel
<1>7. CASE CallbackReturns
  BY <1>u, <1>7 DEF CallbackReturns
<1>8. CASE ScanEnds \/ UNCHANGED wheelVars
  BY <1>8 DEF ScanEnds, wheelVars
<1> QED BY <1>1, <1>2, <1>3, <1>4, <1>5, <1>6, <1>7, <1>8 DEF WheelNext, Run

\* IdleInv holds at first, and with WheelInv for ever.
LEMMA IdleInvariant == WheelSpec => []IdleInv
<1>1. WheelInit => IdleInv
  BY WheelAssumption DEF WheelInit, IdleInv, Unmoved
<1>2. WheelInv /\ IdleInv /\ [WheelNext]_wheelVars => IdleInv'
  BY IdleStep
<1> QED BY <1>1, <1>2, WheelInvariant, PTL DEF WheelSpec

\* However late Run is and however long its callbacks are suspended, a task
\* without a get_active_time function is called back only after its timeout.
THEOREM IdleTasks == WheelSpec => []OnlyIdleFires
<1>1. IdleInv => OnlyIdleFires
  BY DEF IdleInv, Unmoved, OnlyIdleFires
<1> QED BY <1>1, IdleInvariant, PTL

\* As long as no callback of Run is suspended, that is so for every task: the
\* early callback of an active stream needs a suspension.
THEOREM PromptTasks ==
    MaxStall = 0 /\ WheelSpec => []\A k \in Tasks : place[k] = "call" => age[k] > TimeoutMs
<1> SUFFICES ASSUME MaxStall = 0
             PROVE  WheelSpec => []\A k \in Tasks : place[k] = "call" => age[k] > TimeoutMs
  OBVIOUS
<1>1. IdleInv => \A k \in Tasks : place[k] = "call" => age[k] > TimeoutMs
  BY DEF IdleInv, Unmoved
<1> QED BY <1>1, IdleInvariant, PTL
=============================================================================
