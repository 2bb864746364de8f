------------------------------ MODULE Tunnels ------------------------------
(***************************************************************************)
(* Remote tunnels (-R): on every connection an exit node opens to the      *)
(* entry node, it asks for a listener on the entry node's port.  The entry *)
(* node keeps its listeners in two tables; the session (MuxSession) of the *)
(* client notes the ids of the listeners it was given, and its destructor  *)
(* closes them.  A session is shared by the manager, which drops it with   *)
(* its last connection, and by the streams that write to it.               *)
(***************************************************************************)
EXTENDS Naturals, FiniteSets

CONSTANTS
    Clients,     \* exit nodes, all of the user of the entry node
    ConnNum,     \* ConnNum[c]: connections of client c (conn_num_per_server)
    Port,        \* Port[c]: the port of the entry node c asks for
    Dst,         \* Dst[c]: the destination c asks it to be forwarded to
    MaxSessions, \* sessions alive at a time
    MaxStreams,  \* streams of a session
    MaxIds       \* listeners ever started

ASSUME ClientsAssumption ==
    /\ ConnNum \in [Clients -> Nat]
    /\ DOMAIN Port = Clients /\ DOMAIN Dst = Clients
ASSUME BoundsAssumption == {MaxSessions, MaxStreams, MaxIds} \subseteq Nat

None == "none"
Conns == UNION {{c} \X (1 .. ConnNum[c]) : c \in Clients}
Sessions == 1 .. MaxSessions
Ports == {Port[c] : c \in Clients}

VARIABLES
    st,        \* st[k]: "off", "req", "resolve", "up", "fail"
    of,        \* of[k]: the session whose conns hold k, or 0
    sess,      \* sess[s]: a MuxSession, with owner None when it is destroyed
    servers,   \* g_tunnel_servers: records of id, port and dst
    addr2id,   \* g_tunnel_server_addr2ids, 0 for a port that is not there
    loops,     \* the ids of the listeners whose server_loop runs
    seed       \* g_tunnel_server_id_seed

tables == <<servers, addr2id, loops>>
vars == <<st, of, sess, tables, seed>>

Gone == [owner |-> None, listed |-> FALSE, streams |-> 0, tunnels |-> {}]

Init ==
    /\ st = [k \in Conns |-> "off"]
    /\ of = [k \in Conns |-> 0]
    /\ sess = [s \in Sessions |-> Gone]
    /\ servers = {}
    /\ addr2id = [p \in Ports |-> 0]
    /\ loops = {}
    /\ seed = 1

-----------------------------------------------------------------------------
\* Fault: the id stays in the table of addresses.
CloseTunnelServersKeepsAddr(ids) ==
    LET closed == {v \in servers : v.id \in ids}
    IN  /\ servers' = servers \ closed
        /\ loops' = loops \ ids
        /\ UNCHANGED addr2id

\* Fault: the destructor closes nothing.
CloseTunnelServersNone(ids) == UNCHANGED tables

\* close_tunnel_server, for each id: the listener leaves both tables, and its
\* loop, whose accept is canceled, returns.
CloseTunnelServers(ids) ==
    LET closed == {v \in servers : v.id \in ids}
    IN  /\ servers' = servers \ closed
        /\ addr2id' = [p \in Ports |-> IF \E v \in closed : v.port = p THEN 0 ELSE addr2id[p]]
        /\ loops' = loops \ ids

\* Session s becomes v: its destructor runs if nobody refers to it.
Release(s, v) ==
    IF v.listed \/ v.streams > 0
    THEN /\ sess' = [sess EXCEPT ![s] = v]
         /\ UNCHANGED tables
    ELSE /\ sess' = [sess EXCEPT ![s] = Gone]
         /\ CloseTunnelServers(v.tunnels)

-----------------------------------------------------------------------------
\* A client connects, one connection at a time, and is added to its session
\* in the manager's table, or to a new one.
Connect(k) ==
    /\ st[k] = "off"
    /\ \A j \in Conns : j[1] = k[1] => st[j] \notin {"req", "resolve"}
    /\ \E s \in Sessions :
           /\ \/ sess[s].listed /\ sess[s].owner = k[1] /\ UNCHANGED sess
              \/ /\ \A r \in Sessions : ~(sess[r].listed /\ sess[r].owner = k[1])
                 /\ sess[s] = Gone
                 /\ \A r \in Sessions : r < s => sess[r] # Gone
                 /\ sess' = [sess EXCEPT ![s] = [Gone EXCEPT !.owner = k[1], !.listed = TRUE]]
           /\ of' = [of EXCEPT ![k] = s]
    /\ st' = [st EXCEPT ![k] = "req"]
    /\ UNCHANGED <<tables, seed>>

Listening(p) == {v \in servers : v.id = addr2id[p]}

\* The session takes note of the id; the client is told of the success.
Given(k, id) ==
    /\ sess' = [sess EXCEPT ![of[k]].tunnels = @ \cup {id}]
    /\ st' = [st EXCEPT ![k] = "up"]

\* Fault: the destination is not compared.
RequestKnownAnyDst(k) ==
    /\ st[k] = "req"
    /\ \E v \in Listening(Port[k[1]]) : Given(k, v.id)
    /\ UNCHANGED <<of, tables, seed>>

\* start_tunnel_server for an address in the tables: the id is shared when
\* the destination is the same, otherwise the address is in use.
RequestKnown(k) ==
    /\ st[k] = "req"
    /\ \E v \in Listening(Port[k[1]]) :
           IF v.dst = Dst[k[1]]
           THEN Given(k, v.id)
           ELSE st' = [st EXCEPT ![k] = "fail"] /\ UNCHANGED sess
    /\ UNCHANGED <<of, tables, seed>>

\* For another address it is resolved first.
RequestNew(k) ==
    /\ st[k] = "req" /\ Listening(Port[k[1]]) = {}
    /\ st' = [st EXCEPT ![k] = "resolve"]
    /\ UNCHANGED <<of, sess, tables, seed>>

\* Then bound, which fails if another request for the port was faster (or
\* another program has it).
Bind(k) ==
    /\ st[k] = "resolve"
    /\ \/ /\ seed <= MaxIds
          /\ \A v \in servers : v.port # Port[k[1]]
          /\ servers' = servers \cup {[id |-> seed, port |-> Port[k[1]], dst |-> Dst[k[1]]]}
          /\ addr2id' = [addr2id EXCEPT ![Port[k[1]]] = seed]
          /\ loops' = loops \cup {seed}
          /\ seed' = seed + 1
          /\ Given(k, seed)
       \/ /\ st' = [st EXCEPT ![k] = "fail"]
          /\ UNCHANGED <<sess, tables, seed>>
    /\ UNCHANGED of

\* The manager removes a connection, and its session when it was the last.
Remove(k) ==
    LET s == of[k]
    IN  /\ st' = [st EXCEPT ![k] = "off"]
        /\ of' = [of EXCEPT ![k] = 0]
        /\ Release(s, [sess[s] EXCEPT !.listed = \E j \in Conns \ {k} : of[j] = s])
        /\ UNCHANGED seed

\* The connection is lost or retired: its read loop at the entry node ends.
ConnectionEnds(k) == st[k] \in {"req", "up"} /\ Remove(k)

\* OpenTunnel reads the refusal, and NewConnection drops the connection.
OpenTunnelFails(k) == st[k] = "fail" /\ Remove(k)

-----------------------------------------------------------------------------
\* A proxied connection that does not come from a tunnel opens a stream on
\* the first exit session of the table, whose order is arbitrary.
OpenStream(s) ==
    /\ sess[s].listed /\ sess[s].streams < MaxStreams
    /\ sess' = [sess EXCEPT ![s].streams = @ + 1]
    /\ UNCHANGED <<st, of, tables, seed>>

\* So does a connection that the listener of a tunnel accepts.
Accept(v, s) ==
    /\ v.id \in loops
    /\ sess[s].listed /\ sess[s].streams < MaxStreams
    /\ sess' = [sess EXCEPT ![s].streams = @ + 1]
    /\ UNCHANGED <<st, of, tables, seed>>

\* An accept fails, as when no descriptor is left: server_loop returns for good,
\* and the listener stays in both tables.
AcceptFails(v) ==
    /\ v.id \in loops
    /\ loops' = loops \ {v.id}
    /\ UNCHANGED <<st, of, sess, servers, addr2id, seed>>

\* A stream ends and lets go of its session.
StreamEnds(s) ==
    /\ sess[s].streams > 0
    /\ Release(s, [sess[s] EXCEPT !.streams = @ - 1])
    /\ UNCHANGED <<st, of, seed>>

Next == \/ \E k \in Conns : Connect(k) \/ RequestKnown(k) \/ RequestNew(k) \/ Bind(k)
                            \/ ConnectionEnds(k) \/ OpenTunnelFails(k)
        \/ \E s \in Sessions : OpenStream(s) \/ StreamEnds(s)
                               \/ \E v \in servers : Accept(v, s)
        \/ \E v \in servers : AcceptFails(v)

Spec == Init /\ [][Next]_vars

-----------------------------------------------------------------------------
(***************************************************************************)
(* Properties.                                                             *)
(***************************************************************************)

\* The two tables describe the same listeners, one for a port.
TablesAgree ==
    /\ \A p \in Ports : addr2id[p] # 0 <=> \E v \in servers : v.port = p
    /\ \A v \in servers : addr2id[v.port] = v.id

\* Every listener is on the list of a session whose destructor will close it.
NoLeakedListener ==
    \A v \in servers : \E s \in Sessions : v.id \in sess[s].tunnels

\* The session of a connection has a listener that accepts.
Served(k) == \E v \in servers : v.id \in sess[of[k]].tunnels /\ v.id \in loops

SameTunnel(c, d) == Port[c] = Port[d] /\ Dst[c] = Dst[d]

\* A step destroys a session of a client that asks for the tunnel of k: of its
\* own client or of another one, with which it shares the listener.
SharerEnds(k) ==
    \E s \in Sessions : /\ sess[s].owner \in Clients /\ SameTunnel(sess[s].owner, k[1])
                        /\ sess'[s].owner = None

\* A step makes the listener of k fail without closing it.
ListenerDies(k) ==
    \E v \in servers \cap servers' : v.id \in sess[of[k]].tunnels /\ v.id \in loops \ loops'

\* An established connection loses its tunnel only when a session that shares
\* the listener ends (the listener is closed with the first of them) or the
\* listener fails, never because of a client that wanted the port for another
\* destination, however their requests, reconnections and streams interleave.
TunnelKept ==
    [][\A k \in Conns :
          st[k] = "up" /\ st'[k] = "up" /\ Served(k) /\ ~Served(k)'
              => SharerEnds(k) \/ ListenerDies(k)]_vars
=============================================================================
