------------------------------ MODULE DnsProxy ------------------------------
(***************************************************************************)
(* The DNS proxy: handle_dns_query, one coroutine per query; the loop that *)
(* reads the default nameserver's datagrams; the loop that reads the TLS   *)
(* connection to the trusted nameserver; and the timers of the queries.    *)
(* All of them meet in g_dns_states, a table keyed by the 16 bit           *)
(* transaction id that the client chose.                                   *)
(*                                                                         *)
(* An answer of the trusted nameserver arrives in Parts parts: with fewer  *)
(* than HeadParts of them its length is not known yet (fewer than 12 bytes *)
(* over DoT, no end of the HTTP header over DoH).                          *)
(***************************************************************************)
EXTENDS Naturals, Sequences

CONSTANTS Queries,      \* number of queries the clients send
          Txids,        \* number of transaction ids
          SharedTxids,  \* whether two clients may choose the same one
          MaxAnswers    \* answers (duplicates included) to one datagram

ASSUME QueriesAssumption == Queries \in Nat \ {0}
ASSUME TxidsAssumption == Txids \in Nat \ {0}
ASSUME SharedAssumption == SharedTxids \in BOOLEAN
ASSUME AnswersAssumption == MaxAnswers \in Nat

Query == 1 .. Queries
Txid == 1 .. Txids
None == 0
Parts == 3
HeadParts == 2

VARIABLES
    txid,      \* txid[q]: the id of query q, None before it is received
    domain,    \* domain[q]: its name matches trusted_ns_domains
    table,     \* table[t]: the query whose state g_dns_states holds for t
    timers,    \* the queries whose timer is neither cancelled nor fired
    default,   \* default[q]: answers to q the default nameserver will send
    dloop,     \* default_ns_loop: "recv", "forward", "reply"
    trusted,   \* server->trusted_ns is not null
    asked,     \* asked[q]: requests for q the trusted nameserver has
    wire,      \* its answers on the TLS connection, not yet consumed
    pos,       \* parts of them in the buffer of trusted_ns_loop
    tloop,     \* trusted_ns_loop: "read", "rest", "reply", "connect", "wait"
    replies    \* replies[q]: what the client of q was sent

vars == <<txid, domain, table, timers, default, dloop, trusted, asked, wire,
          pos, tloop, replies>>

Init ==
    /\ txid = [q \in Query |-> None]
    /\ domain = [q \in Query |-> FALSE]
    /\ table = [t \in Txid |-> None]
    /\ timers = {}
    /\ default = [q \in Query |-> 0]
    /\ dloop = "recv"
    /\ trusted = TRUE
    /\ asked = [q \in Query |-> 0]
    /\ wire = <<>>
    /\ pos = 0
    /\ tloop = "read"
    /\ replies = [q \in Query |-> <<>>]

-----------------------------------------------------------------------------
\* dns_over_trusted: without a connection the request is dropped, and the
\* caller is told of a success all the same.
OverTrusted(q) == asked' = IF trusted THEN [asked EXCEPT ![q] = @ + 1] ELSE asked

\* Fault: the state is erased and its timer forgotten.
DnsResponseForgetsTimer(t, r) ==
    LET q == table[t]
    IN  /\ q # None
        /\ table' = [table EXCEPT ![t] = None]
        /\ replies' = [replies EXCEPT ![q] = Append(@, r)]
        /\ UNCHANGED timers

\* Fault: the state is not erased when its answer is sent.
DnsResponseKeepsState(t, r) ==
    LET q == table[t]
    IN  /\ q # None
        /\ timers' = timers
        /\ replies' = [replies EXCEPT ![q] = Append(@, r)]
        /\ UNCHANGED table

\* dns_response for an id in the table: cancel the timer, erase the state,
\* send the answer to the client of that state.
DnsResponse(t, r) ==
    LET q == table[t]
    IN  /\ q # None
        /\ table' = [table EXCEPT ![t] = None]
        /\ timers' = timers \ {q}
        /\ replies' = [replies EXCEPT ![q] = Append(@, r)]

\* dns_response for an id that is not.
NotFound(t) == table[t] = None /\ UNCHANGED <<table, timers, replies>>

-----------------------------------------------------------------------------
\* A query is received and handled: its timer is added; its state is put
\* into the table unless the id is there (emplace), and the query goes to
\* one of the two nameservers.  A datagram may be lost (n = 0).
HandleQuery(q) ==
    /\ txid[q] = None
    /\ \A p \in Query : p < q => txid[p] # None
    /\ \E t \in Txid, d \in BOOLEAN, n \in 0 .. MaxAnswers :
           /\ SharedTxids \/ \A p \in Query : txid[p] # t
           /\ txid' = [txid EXCEPT ![q] = t]
           /\ domain' = [domain EXCEPT ![q] = d]
           /\ table' = [table EXCEPT ![t] = IF @ = None THEN q ELSE @]
           /\ default' = [default EXCEPT ![q] = IF d THEN 0 ELSE n]
           /\ IF d THEN OverTrusted(q) ELSE UNCHANGED asked
    /\ timers' = timers \cup {q}
    /\ UNCHANGED <<dloop, trusted, wire, pos, tloop, replies>>

\* Fault: the timer only logs.
TimeoutKeepsState(q) ==
    /\ q \in timers
    /\ timers' = timers \ {q}
    /\ UNCHANGED <<txid, domain, table, default, dloop, trusted, asked, wire, pos,
                   tloop, replies>>

\* The timer of q fires: it erases what the table holds for q's id.
Timeout(q) ==
    /\ q \in timers
    /\ timers' = timers \ {q}
    /\ table' = [table EXCEPT ![txid[q]] = None]
    /\ UNCHANGED <<txid, domain, default, dloop, trusted, asked, wire, pos, tloop, replies>>

-----------------------------------------------------------------------------
(***************************************************************************)
(* default_ns_loop.  ok: the answer cannot be parsed, or holds an address  *)
(* of the ip range file.                                                   *)
(***************************************************************************)

\* Fault: the answer is not compared with the ip ranges.
RetryNever(t, ok) == FALSE

\* The state found asks for a second opinion: its original query, kept only
\* for domains that are not trusted_ns_domains, goes to the trusted server.
Retry(t, ok) == ~ok /\ table[t] # None /\ ~domain[table[t]]

DefaultForward(q) ==
    /\ dloop = "recv"
    /\ default[q] > 0
    /\ Retry(txid[q], FALSE)
    /\ default' = [default EXCEPT ![q] = @ - 1]
    /\ OverTrusted(table[txid[q]])
    /\ dloop' = IF trusted THEN "forward" ELSE "recv"
    /\ UNCHANGED <<txid, domain, table, timers, trusted, wire, pos, tloop, replies>>

DefaultReply(q, ok) ==
    /\ dloop = "recv"
    /\ default[q] > 0
    /\ ~Retry(txid[q], ok)
    /\ default' = [default EXCEPT ![q] = @ - 1]
    /\ \/ /\ DnsResponse(txid[q], [about |-> q, src |-> "default", ok |-> ok])
          /\ dloop' = "reply"
       \/ NotFound(txid[q]) /\ UNCHANGED dloop
    /\ UNCHANGED <<txid, domain, trusted, asked, wire, pos, tloop>>

\* The write the loop is suspended in completes, with or without an error.
DefaultWritten ==
    /\ dloop \in {"forward", "reply"}
    /\ dloop' = "recv"
    /\ UNCHANGED <<txid, domain, table, timers, default, trusted, asked, wire, pos,
                   tloop, replies>>

-----------------------------------------------------------------------------
(***************************************************************************)
(* trusted_ns_loop.                                                        *)
(***************************************************************************)

\* Fault: the id is read where the newest answer begins.
TrustedReplyNewest ==
    LET q == wire[Len(wire)]
    IN  \/ /\ DnsResponse(txid[q], [about |-> Head(wire), src |-> "trusted", ok |-> TRUE])
           /\ tloop' = "reply"
           /\ UNCHANGED wire
        \/ NotFound(txid[q]) /\ tloop' = "read" /\ wire' = Tail(wire)

\* The head of the buffer is a whole answer: it is sent, then consumed.
TrustedReply ==
    LET q == Head(wire)
    IN  \/ /\ DnsResponse(txid[q], [about |-> q, src |-> "trusted", ok |-> TRUE])
           /\ tloop' = "reply"
           /\ UNCHANGED wire
        \/ NotFound(txid[q]) /\ tloop' = "read" /\ wire' = Tail(wire)

Consumed(n) == pos' = IF tloop' = "reply" THEN n ELSE n - Parts

\* AsyncRead returns some of what has arrived, of one answer or of several.
TrustedRead ==
    /\ tloop = "read"
    /\ \E n \in pos + 1 .. Parts * Len(wire) :
           \/ /\ n < HeadParts
              /\ pos' = n
              /\ UNCHANGED <<table, timers, replies, wire, tloop>>
           \/ /\ HeadParts <= n /\ n < Parts
              /\ pos' = n
              /\ tloop' = "rest"
              /\ UNCHANGED <<table, timers, replies, wire>>
           \/ /\ Parts <= n
              /\ TrustedReply
              /\ Consumed(n)
    /\ UNCHANGED <<txid, domain, default, dloop, trusted, asked>>

\* read_exact returns the rest of the first answer.
TrustedRest ==
    /\ tloop = "rest"
    /\ TrustedReply
    /\ Consumed(Parts)
    /\ UNCHANGED <<txid, domain, default, dloop, trusted, asked>>

\* The datagram to the client is sent; what follows the answer is kept in
\* the buffer, and the loop reads again before it looks at it.
TrustedReplied ==
    /\ tloop = "reply"
    /\ tloop' = "read"
    /\ wire' = Tail(wire)
    /\ pos' = pos - Parts
    /\ UNCHANGED <<txid, domain, table, timers, default, dloop, trusted, asked, replies>>

\* The read fails, or the answer is not valid HTTP: the connection is
\* destroyed, and with it the requests and answers it carried.
TrustedFails ==
    /\ tloop \in {"read", "rest"}
    /\ trusted' = FALSE
    /\ tloop' = "connect"
    /\ asked' = [q \in Query |-> 0]
    /\ wire' = <<>>
    /\ UNCHANGED <<txid, domain, table, timers, default, dloop, pos, replies>>

\* AsyncConnect ends: read from an empty buffer, or wait 500 ms.
TrustedConnect ==
    /\ tloop = "connect"
    /\ \/ trusted' = TRUE /\ pos' = 0 /\ tloop' = "read"
       \/ tloop' = "wait" /\ UNCHANGED <<trusted, pos>>
    /\ UNCHANGED <<txid, domain, table, timers, default, dloop, asked, wire, replies>>

TrustedWaited ==
    /\ tloop = "wait"
    /\ tloop' = "connect"
    /\ UNCHANGED <<txid, domain, table, timers, default, dloop, trusted, asked, wire, pos,
                   replies>>

\* The trusted nameserver answers what it was asked, in any order.
TrustedAnswers(q) ==
    /\ trusted /\ asked[q] > 0
    /\ asked' = [asked EXCEPT ![q] = @ - 1]
    /\ wire' = Append(wire, q)
    /\ UNCHANGED <<txid, domain, table, timers, default, dloop, trusted, pos, tloop, replies>>

Idle == (\A q \in Query : txid[q] # None) /\ timers = {} /\ UNCHANGED vars

-----------------------------------------------------------------------------
DefaultLoop == DefaultWritten \/ \E q \in Query :
                   DefaultForward(q) \/ \E ok \in BOOLEAN : DefaultReply(q, ok)
TrustedLoop == TrustedRead \/ TrustedRest \/ TrustedReplied
Reconnect == TrustedConnect \/ TrustedWaited

Next == \/ \E q \in Query : HandleQuery(q) \/ Timeout(q) \/ TrustedAnswers(q)
        \/ DefaultLoop \/ TrustedLoop \/ TrustedFails \/ Reconnect \/ Idle

Spec == Init /\ [][Next]_vars

(***************************************************************************)
(* The io_context resumes the loops, and the time wheel fires the timers.  *)
(* The clients and the nameservers owe nothing.                            *)
(***************************************************************************)
FairSpec == /\ Spec
            /\ WF_vars(DefaultLoop) /\ WF_vars(TrustedLoop) /\ WF_vars(Reconnect)
            /\ \A q \in Query : WF_vars(Timeout(q))

-----------------------------------------------------------------------------
(***************************************************************************)
(* Properties.                                                             *)
(***************************************************************************)

\* No state stays in the table for ever: the state of a query has a timer of
\* its own that will erase it, whatever other queries with its id did.
EntryHasTimer ==
    \A t \in Txid : table[t] # None => table[t] \in timers /\ txid[table[t]] = t

\* A client is answered at most once, although the default and the trusted
\* nameserver may both answer its query, each more than once.
AnsweredOnce == \A q \in Query : Len(replies[q]) <= 1

\* No other query has used the id of q.
Alone(q) == \A p \in Query \ {q} : txid[p] # txid[q]

\* A client whose transaction id nobody else used is sent the answer to the
\* question it asked, whatever other queries share an id.
OwnAnswer ==
    \A q \in Query : Alone(q) => \A i \in DOMAIN replies[q] : replies[q][i].about = q

\* An answer of the default nameserver reaches such a client only if it holds
\* an address of the ip ranges (or cannot be parsed), and never for a name of
\* trusted_ns_domains.
Unpolluted ==
    \A q \in Query : Alone(q) => \A i \in DOMAIN replies[q] :
        replies[q][i].src = "default" => replies[q][i].ok /\ ~domain[q]

\* A timer that is still running belongs to a state in the table, when no
\* other query has its id: the answer cancels it, and it cannot erase the
\* state of a later query before its time.
NoStaleTimer == \A q \in timers : Alone(q) => table[txid[q]] = q

\* A query leaves the table, answered or timed out.
QueryEnds == \A q \in Query : (\E t \in Txid : table[t] = q) ~> (\A t \in Txid : table[t] # q)
=============================================================================
