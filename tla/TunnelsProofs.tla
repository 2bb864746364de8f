---------------------------- MODULE TunnelsProofs ----------------------------
(***************************************************************************)
(* Proofs about Tunnels, for any clients, connections, sessions, streams   *)
(* and listeners, whichever of the clients' ports and destinations         *)
(* coincide.                                                               *)
(***************************************************************************)
EXTENDS Tunnels, TLAPS

Dsts == {Dst[c] : c \in Clients}
Session == [owner : Clients \cup {None}, listed : BOOLEAN, streams : Nat, tunnels : SUBSET Nat]
Listener == [id : Nat \ {0}, port : Ports, dst : Dsts]

\* Types of the connections, the sessions and the two tables.
TypeOK ==
    /\ st \in [Conns -> {"off", "req", "resolve", "up", "fail"}]
    /\ of \in [Conns -> Sessions \cup {0}]
    /\ sess \in [Sessions -> Session]
    /\ servers \subseteq Listener
    /\ addr2id \in [Ports -> Nat]
    /\ loops \subseteq Nat
    /\ seed \in Nat \ {0}

\* A connection is in a session of the manager's table, that of its client.
OwnSession ==
    \A k \in Conns : st[k] # "off" =>
        of[k] \in Sessions /\ sess[of[k]].listed /\ sess[of[k]].owner = k[1]

\* The ids handed out are below the seed, and a listener has its id and its
\* port for itself.
IdsUnique ==
    /\ \A v \in servers : v.id < seed
    /\ \A s \in Sessions : \A i \in sess[s].tunnels : i < seed
    /\ \A v, w \in servers : v.id = w.id \/ v.port = w.port => v = w

\* Listener v is what client c asks for.
AskedBy(v, c) == c \in Clients /\ v.port = Port[c] /\ v.dst = Dst[c]

\* A session holds only listeners that its client asks for.
OwnDestination ==
    \A v \in servers : \A s \in Sessions :
        v.id \in sess[s].tunnels => AskedBy(v, sess[s].owner)

TunnelInv ==
    TypeOK /\ OwnSession /\ IdsUnique /\ TablesAgree /\ NoLeakedListener /\ OwnDestination

-----------------------------------------------------------------------------
\* A connection's client has a port and a destination.
LEMMA ClientOf ==
    ASSUME NEW k \in Conns
    PROVE  k[1] \in Clients /\ Port[k[1]] \in Ports /\ Dst[k[1]] \in Dsts
BY DEF Conns, Ports, Dsts

\* Zero is no session.
LEMMA ZeroIsNoSession == 0 \notin Sessions
BY BoundsAssumption DEF Sessions

\* A destroyed session is one with no owner and no tunnels.
LEMMA GoneType == Gone \in Session /\ Gone.tunnels = {} /\ Gone.owner = None /\ ~Gone.listed
BY DEF Gone, Session

-----------------------------------------------------------------------------
(***************************************************************************)
(* The destructor of MuxSession and what keeps it from running.            *)
(***************************************************************************)

\* A session is released: the tables lose together the listeners on its list,
\* and every other listener is on the list of another session.
LEMMA ReleaseKeeps ==
    ASSUME TunnelInv, NEW s \in Sessions, NEW v \in Session,
           v.tunnels = sess[s].tunnels, v.owner = sess[s].owner,
           Release(s, v), seed' = seed
    PROVE  /\ sess' \in [Sessions -> Session] /\ servers' \subseteq Listener
           /\ addr2id' \in [Ports -> Nat] /\ loops' \subseteq Nat
           /\ IdsUnique' /\ TablesAgree' /\ NoLeakedListener' /\ OwnDestination'
<1> USE DEF TunnelInv, TypeOK
<1>1. CASE v.listed \/ v.streams > 0
  <2>1. sess' = [sess EXCEPT ![s] = v] /\ UNCHANGED <<servers, addr2id, loops>>
    BY <1>1 DEF Release, tables
  <2>2. \A r \in Sessions : sess'[r].tunnels = sess[r].tunnels /\ sess'[r].owner = sess[r].owner
    BY <2>1
  <2>3. sess' \in [Sessions -> Session]
    BY <2>1
  <2>4. IdsUnique'
    BY <2>1, <2>2 DEF IdsUnique
  <2>5. TablesAgree' /\ NoLeakedListener' /\ OwnDestination'
    BY <2>1, <2>2 DEF TablesAgree, NoLeakedListener, OwnDestination
  <2> QED BY <2>1, <2>3, <2>4, <2>5
<1>2. CASE ~(v.listed \/ v.streams > 0)
  <2> DEFINE closed == {u \in servers : u.id \in v.tunnels}
  <2>1. /\ sess' = [sess EXCEPT ![s] = Gone]
        /\ servers' = servers \ closed
        /\ addr2id' = [p \in Ports |-> IF \E u \in closed : u.port = p THEN 0 ELSE addr2id[p]]
        /\ loops' = loops \ v.tunnels
    BY <1>2 DEF Release, CloseTunnelServers
  <2> HIDE DEF closed
  <2>2. /\ sess' \in [Sessions -> Session] /\ servers' \subseteq Listener
        /\ addr2id' \in [Ports -> Nat] /\ loops' \subseteq Nat
    BY <2>1, GoneType
  <2>3. /\ sess'[s] = Gone /\ \A r \in Sessions \ {s} : sess'[r] = sess[r]
        /\ \A r \in Sessions : sess'[r].tunnels \subseteq sess[r].tunnels
    BY <2>1, GoneType
  <2>4. IdsUnique'
    BY <2>1, <2>3 DEF IdsUnique
  <2>5. TablesAgree'
    <3>1. ASSUME NEW u \in servers' PROVE ~ \E w \in closed : w.port = u.port
      BY <2>1 DEF IdsUnique, closed
    <3>2. ASSUME NEW u \in servers' PROVE addr2id'[u.port] = u.id
      <4>1. u \in Listener /\ u.port \in Ports /\ u \in servers
        BY <2>1, <2>2 DEF Listener
      <4> QED BY <2>1, <3>1, <4>1 DEF TablesAgree
    <3>3. ASSUME NEW p \in Ports, addr2id'[p] # 0 PROVE \E u \in servers' : u.port = p
      <4>1. addr2id[p] # 0 /\ ~ \E w \in closed : w.port = p
        BY <2>1, <3>3
      <4>2. PICK u \in servers : u.port = p
        BY <4>1 DEF TablesAgree
      <4> QED BY <2>1, <4>1, <4>2
    <3>4. ASSUME NEW p \in Ports, NEW u \in servers', u.port = p PROVE addr2id'[p] # 0
      BY <2>2, <3>2, <3>4 DEF Listener
    <3> QED BY <3>2, <3>3, <3>4 DEF TablesAgree
  <2>6. NoLeakedListener'
    <3> SUFFICES ASSUME NEW u \in servers' PROVE \E r \in Sessions : u.id \in sess'[r].tunnels
      BY DEF NoLeakedListener
    <3>1. u \in servers /\ u.id \notin sess[s].tunnels
      BY <2>1 DEF closed
    <3>2. PICK r \in Sessions : u.id \in sess[r].tunnels
      BY <3>1 DEF NoLeakedListener
    <3> QED BY <2>3, <3>1, <3>2
  <2>7. OwnDestination'
    <3> SUFFICES ASSUME NEW u \in servers', NEW r \in Sessions, u.id \in sess'[r].tunnels
                 PROVE  AskedBy(u, sess'[r].owner)
      BY DEF OwnDestination
    <3>1. r # s /\ u \in servers
      BY <2>1, <2>3, GoneType
    <3> QED BY <2>3, <3>1 DEF OwnDestination
  <2> QED BY <2>2, <2>4, <2>5, <2>6, <2>7
<1> QED BY <1>1, <1>2

-----------------------------------------------------------------------------
(***************************************************************************)
(* The steps.                                                              *)
(***************************************************************************)

\* A new connection joins the session of its client, or starts one.
LEMMA ConnectKeeps ==
    ASSUME TunnelInv, NEW k \in Conns, Connect(k)
    PROVE  TunnelInv'
<1> USE DEF TunnelInv, TypeOK
<1>1. PICK s \in Sessions :
           /\ \/ sess[s].listed /\ sess[s].owner = k[1] /\ UNCHANGED sess
              \/ /\ sess[s] = Gone
                 /\ sess' = [sess EXCEPT ![s] = [Gone EXCEPT !.owner = k[1], !.listed = TRUE]]
           /\ of' = [of EXCEPT ![k] = s]
  BY DEF Connect
<1>2. st' = [st EXCEPT ![k] = "req"] /\ UNCHANGED <<servers, addr2id, loops, seed>>
  BY DEF Connect, tables
<1>n. /\ [Gone EXCEPT !.owner = k[1], !.listed = TRUE] \in Session
      /\ [Gone EXCEPT !.owner = k[1], !.listed = TRUE].owner = k[1]
      /\ [Gone EXCEPT !.owner = k[1], !.listed = TRUE].listed
      /\ [Gone EXCEPT !.owner = k[1], !.listed = TRUE].tunnels = {}
  BY ClientOf DEF Gone, Session
<1>3. /\ sess' \in [Sessions -> Session]
      /\ \A r \in Sessions : sess'[r].tunnels = sess[r].tunnels
      /\ \A r \in Sessions : sess'[r] = sess[r] \/ (r = s /\ sess[r] = Gone)
      /\ sess'[s].listed /\ sess'[s].owner = k[1]
  BY <1>1, <1>n, GoneType
<1>4. TypeOK'
  BY <1>1, <1>2, <1>3
<1>5. OwnSession'
  <2> SUFFICES ASSUME NEW j \in Conns, st'[j] # "off"
               PROVE  of'[j] \in Sessions /\ sess'[of'[j]].listed /\ sess'[of'[j]].owner = j[1]
    BY DEF OwnSession
  <2>1. CASE j = k
    BY <1>1, <1>3, <2>1
  <2>2. CASE j # k
    <3>1. st[j] # "off" /\ of'[j] = of[j]
      BY <1>1, <1>2, <2>2
    <3>2. of[j] \in Sessions /\ sess[of[j]].listed /\ sess[of[j]].owner = j[1]
      BY <3>1 DEF OwnSession
    <3>3. sess'[of[j]] = sess[of[j]]
      BY <1>3, <3>2, GoneType
    <3> QED BY <3>1, <3>2, <3>3
  <2> QED BY <2>1, <2>2
<1>6. IdsUnique'
  BY <1>2, <1>3 DEF IdsUnique
<1>7. TablesAgree' /\ NoLeakedListener'
  BY <1>2, <1>3 DEF TablesAgree, NoLeakedListener
<1>8. OwnDestination'
  BY <1>2, <1>3, GoneType DEF OwnDestination
<1> QED BY <1>4, <1>5, <1>6, <1>7, <1>8

\* A listener the tables hold is shared, or refused.
LEMMA RequestKeeps ==
    ASSUME TunnelInv, NEW k \in Conns, RequestKnown(k) \/ RequestNew(k)
    PROVE  TunnelInv'
<1> USE DEF TunnelInv, TypeOK
<1>1. UNCHANGED <<of, servers, addr2id, loops, seed>> /\ st[k] = "req"
  BY DEF RequestKnown, RequestNew, tables
<1>2. ASSUME NEW x \in {"fail", "resolve"}, st' = [st EXCEPT ![k] = x], UNCHANGED sess
      PROVE  TunnelInv'
  BY <1>1, <1>2 DEF OwnSession, IdsUnique, TablesAgree, NoLeakedListener, OwnDestination
<1>3. ASSUME NEW v \in Listening(Port[k[1]]), v.dst = Dst[k[1]], Given(k, v.id)
      PROVE  TunnelInv'
  <2>1. /\ sess' = [sess EXCEPT ![of[k]].tunnels = @ \cup {v.id}]
        /\ st' = [st EXCEPT ![k] = "up"] /\ v \in servers /\ v \in Listener
    BY <1>3 DEF Given, Listening
  <2>2. of[k] \in Sessions /\ sess[of[k]].owner = k[1]
    BY <1>1 DEF OwnSession
  <2>3. v.id \in Nat
    BY <2>1 DEF Listener
  <2>4. /\ \A r \in Sessions : /\ sess'[r].owner = sess[r].owner
                               /\ sess'[r].listed = sess[r].listed
                               /\ sess'[r].streams = sess[r].streams
                               /\ sess[r].tunnels \subseteq sess'[r].tunnels
                               /\ sess'[r].tunnels \subseteq sess[r].tunnels \cup {v.id}
        /\ \A r \in Sessions \ {of[k]} : sess'[r] = sess[r]
    BY <2>1, <2>2 DEF Session
  <2>5. TypeOK'
    <3>1. sess' \in [Sessions -> Session]
      BY <2>1, <2>2, <2>3 DEF Session
    <3> QED BY <1>1, <2>1, <3>1
  <2>6. OwnSession'
    BY <1>1, <2>1, <2>4 DEF OwnSession
  <2>7. IdsUnique'
    BY <1>1, <2>1, <2>4 DEF IdsUnique
  <2>8. TablesAgree' /\ NoLeakedListener'
    BY <1>1, <2>4 DEF TablesAgree, NoLeakedListener
  <2>9. OwnDestination'
    <3> SUFFICES ASSUME NEW u \in servers, NEW r \in Sessions, u.id \in sess'[r].tunnels
                 PROVE  AskedBy(u, sess[r].owner)
      BY <1>1, <2>4 DEF OwnDestination
    <3>1. CASE u.id \in sess[r].tunnels
      BY <3>1 DEF OwnDestination
    <3>2. CASE u.id \notin sess[r].tunnels
      <4>1. u.id = v.id /\ r = of[k]
        BY <2>4, <3>2
      <4>2. u = v
        BY <2>1, <4>1 DEF IdsUnique
      <4>3. v.port = Port[k[1]]
        <5>1. Port[k[1]] \in Ports /\ addr2id[Port[k[1]]] = v.id /\ v.id # 0
          BY <1>3, <2>1, ClientOf DEF Listening, Listener
        <5>2. PICK w \in servers : w.port = Port[k[1]] /\ w.id = v.id
          BY <5>1 DEF TablesAgree
        <5> QED BY <2>1, <5>2 DEF IdsUnique
      <4> QED BY <1>3, <2>2, <4>1, <4>2, <4>3, ClientOf DEF AskedBy
    <3> QED BY <3>1, <3>2
  <2> QED BY <2>5, <2>6, <2>7, <2>8, <2>9
<1> QED BY <1>2, <1>3 DEF RequestKnown, RequestNew

\* A listener is started: its id is new to every session.
LEMMA BindKeeps ==
    ASSUME TunnelInv, NEW k \in Conns, Bind(k)
    PROVE  TunnelInv'
<1> USE DEF TunnelInv, TypeOK
<1>1. CASE st' = [st EXCEPT ![k] = "fail"] /\ UNCHANGED <<sess, servers, addr2id, loops, seed, of>>
  <2>1. st[k] = "resolve"
    BY DEF Bind
  <2> QED BY <1>1, <2>1 DEF OwnSession, IdsUnique, TablesAgree, NoLeakedListener, OwnDestination
<1>2. CASE ~(st' = [st EXCEPT ![k] = "fail"] /\ UNCHANGED <<sess, servers, addr2id, loops, seed, of>>)
  <2> DEFINE v == [id |-> seed, port |-> Port[k[1]], dst |-> Dst[k[1]]]
  <2>1. /\ \A u \in servers : u.port # Port[k[1]]
        /\ servers' = servers \cup {v}
        /\ addr2id' = [addr2id EXCEPT ![Port[k[1]]] = seed]
        /\ seed' = seed + 1 /\ loops' = loops \cup {seed}
        /\ sess' = [sess EXCEPT ![of[k]].tunnels = @ \cup {seed}]
        /\ st' = [st EXCEPT ![k] = "up"] /\ of' = of /\ st[k] = "resolve"
    BY <1>2 DEF Bind, Given, tables
  <2>2. v \in Listener /\ v.id = seed /\ v.port = Port[k[1]] /\ v.dst = Dst[k[1]]
    BY ClientOf DEF Listener
  <2> HIDE DEF v
  <2>3. of[k] \in Sessions /\ sess[of[k]].owner = k[1] /\ sess[of[k]].listed
    BY <2>1 DEF OwnSession
  <2>4. /\ \A r \in Sessions : /\ sess'[r].owner = sess[r].owner
                               /\ sess'[r].listed = sess[r].listed
                               /\ sess[r].tunnels \subseteq sess'[r].tunnels
                               /\ sess'[r].tunnels \subseteq sess[r].tunnels \cup {seed}
        /\ \A r \in Sessions \ {of[k]} : sess'[r] = sess[r]
        /\ seed \in sess'[of[k]].tunnels
    BY <2>1, <2>3 DEF Session
  <2>5. TypeOK'
    <3>1. sess' \in [Sessions -> Session]
      BY <2>1, <2>3 DEF Session
    <3>2. addr2id' \in [Ports -> Nat] /\ seed' \in Nat \ {0}
      <4>1. seed \in Nat /\ seed + 1 \in Nat \ {0} /\ Port[k[1]] \in Ports
        BY ClientOf
      <4> QED BY <2>1, <4>1
    <3> QED BY <2>1, <2>2, <3>1, <3>2
  <2>6. OwnSession'
    BY <2>1, <2>4 DEF OwnSession
  <2>7. IdsUnique'
    <3>1. \A u \in servers' : u \in Listener /\ u.id < seed'
      BY <2>1, <2>2 DEF IdsUnique, Listener
    <3>2. ASSUME NEW r \in Sessions, NEW i \in sess'[r].tunnels PROVE i < seed'
      <4>1. sess[r].tunnels \subseteq Nat
        BY DEF Session
      <4>2. CASE i \in sess[r].tunnels
        BY <2>1, <4>1, <4>2 DEF IdsUnique
      <4>3. CASE i = seed
        BY <2>1, <4>3
      <4> QED BY <2>4, <4>2, <4>3
    <3>3. \A u \in servers : u.id # seed /\ u.port # Port[k[1]]
      BY <2>1 DEF IdsUnique
    <3> QED BY <2>1, <2>2, <3>1, <3>2, <3>3 DEF IdsUnique
  <2>8. TablesAgree'
    <3>1. \A p \in Ports : addr2id'[p] = IF p = Port[k[1]] THEN seed ELSE addr2id[p]
      BY <2>1
    <3>2. \A u \in servers : u.port \in Ports
      BY DEF Listener
    <3> QED BY <2>1, <2>2, <3>1, <3>2, ClientOf DEF TablesAgree
  <2>9. NoLeakedListener'
    BY <2>1, <2>2, <2>3, <2>4 DEF NoLeakedListener
  <2>10. OwnDestination'
    <3> SUFFICES ASSUME NEW u \in servers', NEW r \in Sessions, u.id \in sess'[r].tunnels
                 PROVE  AskedBy(u, sess[r].owner)
      BY <2>4 DEF OwnDestination
    <3>1. CASE u = v
      <4>1. seed \notin sess[r].tunnels
        BY DEF IdsUnique
      <4>2. r = of[k]
        BY <2>2, <2>4, <3>1, <4>1
      <4> QED BY <2>2, <2>3, <3>1, <4>2, ClientOf DEF AskedBy
    <3>2. CASE u # v
      <4>1. u \in servers /\ u.id # seed
        BY <2>1, <3>2 DEF IdsUnique
      <4> QED BY <2>4, <4>1 DEF OwnDestination
    <3> QED BY <3>1, <3>2
  <2> QED BY <2>5, <2>6, <2>7, <2>8, <2>9, <2>10
<1> QED BY <1>1, <1>2

\* A connection is removed; its session stays listed while it has another.
LEMMA RemoveKeeps ==
    ASSUME TunnelInv, NEW k \in Conns, st[k] # "off", Remove(k)
    PROVE  TunnelInv'
<1> USE DEF TunnelInv, TypeOK
<1> DEFINE s == of[k]
           more == \E j \in Conns \ {k} : of[j] = s
           v == [sess[s] EXCEPT !.listed = more]
<1>1. /\ st' = [st EXCEPT ![k] = "off"] /\ of' = [of EXCEPT ![k] = 0]
      /\ Release(s, v) /\ seed' = seed
  BY DEF Remove
<1>2. s \in Sessions
  BY DEF OwnSession
<1>3. v \in Session /\ v.tunnels = sess[s].tunnels /\ v.owner = sess[s].owner /\ v.listed = more
  BY <1>2 DEF Session
<1>4. /\ sess' \in [Sessions -> Session] /\ servers' \subseteq Listener
      /\ addr2id' \in [Ports -> Nat] /\ loops' \subseteq Nat
      /\ IdsUnique' /\ TablesAgree' /\ NoLeakedListener' /\ OwnDestination'
  BY <1>1, <1>2, <1>3, ReleaseKeeps
<1>5. TypeOK'
  BY <1>1, <1>4
<1>6. OwnSession'
  <2> SUFFICES ASSUME NEW j \in Conns, st'[j] # "off"
               PROVE  of'[j] \in Sessions /\ sess'[of'[j]].listed /\ sess'[of'[j]].owner = j[1]
    BY DEF OwnSession
  <2>1. j # k /\ st[j] # "off" /\ of'[j] = of[j]
    BY <1>1
  <2>2. of[j] \in Sessions /\ sess[of[j]].listed /\ sess[of[j]].owner = j[1]
    BY <2>1 DEF OwnSession
  <2>3. CASE of[j] # s
    BY <1>1, <1>2, <2>1, <2>2, <2>3 DEF Release
  <2>4. CASE of[j] = s
    <3>1. v.listed
      BY <1>3, <2>1, <2>4
    <3>2. sess' = [sess EXCEPT ![s] = v]
      BY <1>1, <3>1 DEF Release
    <3> QED BY <1>2, <1>3, <2>1, <2>2, <2>4, <3>1, <3>2
  <2> QED BY <2>3, <2>4
<1> QED BY <1>4, <1>5, <1>6

\* A stream is opened on a session of the table.
LEMMA OpenKeeps ==
    ASSUME TunnelInv, NEW s \in Sessions,
           sess' = [sess EXCEPT ![s].streams = @ + 1],
           UNCHANGED <<st, of, servers, addr2id, loops, seed>>
    PROVE  TunnelInv'
<1> USE DEF TunnelInv, TypeOK
<1>1. sess' \in [Sessions -> Session]
  BY DEF Session
<1>2. \A r \in Sessions : /\ sess'[r].owner = sess[r].owner
                          /\ sess'[r].listed = sess[r].listed
                          /\ sess'[r].tunnels = sess[r].tunnels
  BY DEF Session
<1>3. OwnSession' /\ IdsUnique'
  BY <1>2 DEF OwnSession, IdsUnique
<1>4. TablesAgree' /\ NoLeakedListener' /\ OwnDestination'
  BY <1>2 DEF TablesAgree, NoLeakedListener, OwnDestination
<1> QED BY <1>1, <1>3, <1>4

\* A stream ends; a session still in the table stays.
LEMMA StreamEndsKeeps ==
    ASSUME TunnelInv, NEW s \in Sessions, StreamEnds(s)
    PROVE  TunnelInv'
<1> USE DEF TunnelInv, TypeOK
<1> DEFINE v == [sess[s] EXCEPT !.streams = @ - 1]
<1>1. sess[s].streams > 0 /\ Release(s, v) /\ UNCHANGED <<st, of, seed>>
  BY DEF StreamEnds
<1>2. /\ v \in Session /\ v.tunnels = sess[s].tunnels /\ v.owner = sess[s].owner
      /\ v.listed = sess[s].listed
  BY <1>1 DEF Session
<1>3. /\ sess' \in [Sessions -> Session] /\ servers' \subseteq Listener
      /\ addr2id' \in [Ports -> Nat] /\ loops' \subseteq Nat
      /\ IdsUnique' /\ TablesAgree' /\ NoLeakedListener' /\ OwnDestination'
  BY <1>1, <1>2, ReleaseKeeps
<1>4. OwnSession'
  <2> SUFFICES ASSUME NEW j \in Conns, st[j] # "off"
               PROVE  of[j] \in Sessions /\ sess'[of[j]].listed /\ sess'[of[j]].owner = j[1]
    BY <1>1 DEF OwnSession
  <2>2. of[j] \in Sessions /\ sess[of[j]].listed /\ sess[of[j]].owner = j[1]
    BY DEF OwnSession
  <2>3. CASE of[j] # s
    BY <1>1, <2>2, <2>3 DEF Release
  <2>4. CASE of[j] = s
    <3>1. sess' = [sess EXCEPT ![s] = v]
      BY <1>1, <1>2, <2>2, <2>4 DEF Release
    <3> QED BY <1>2, <2>2, <2>4, <3>1
  <2> QED BY <2>3, <2>4
<1> QED BY <1>1, <1>3, <1>4

-----------------------------------------------------------------------------
(***************************************************************************)
(* The theorems.                                                           *)
(***************************************************************************)

\* TunnelInv is an inductive invariant of the tunnel servers of an entry node
\* and the sessions of its clients.
THEOREM TunnelInvariant == Spec => []TunnelInv
<1>1. Init => TunnelInv
  <2> SUFFICES ASSUME Init PROVE TunnelInv
    OBVIOUS
  <2>1. TypeOK
    BY GoneType DEF Init, TypeOK
  <2>2. OwnSession /\ TablesAgree /\ NoLeakedListener /\ OwnDestination
    BY DEF Init, OwnSession, TablesAgree, NoLeakedListener, OwnDestination
  <2>3. IdsUnique
    BY GoneType DEF Init, IdsUnique
  <2> QED BY <2>1, <2>2, <2>3 DEF TunnelInv
<1>2. TunnelInv /\ [Next]_vars => TunnelInv'
  <2> SUFFICES ASSUME TunnelInv, [Next]_vars PROVE TunnelInv'
    OBVIOUS
  <2>1. ASSUME NEW k \in Conns, ConnectionEnds(k) \/ OpenTunnelFails(k) PROVE TunnelInv'
    BY <2>1, RemoveKeeps DEF ConnectionEnds, OpenTunnelFails
  <2>2. ASSUME NEW s \in Sessions, OpenStream(s) \/ \E v \in servers : Accept(v, s)
        PROVE  TunnelInv'
    BY <2>2, OpenKeeps DEF OpenStream, Accept, tables
  <2>3. CASE UNCHANGED vars
    BY <2>3 DEF vars, tables, TunnelInv, TypeOK, OwnSession, IdsUnique, TablesAgree,
                NoLeakedListener, OwnDestination
  <2>4. ASSUME NEW v \in servers, AcceptFails(v) PROVE TunnelInv'
    BY <2>4 DEF AcceptFails, TunnelInv, TypeOK, OwnSession, IdsUnique, TablesAgree,
                NoLeakedListener, OwnDestination
  <2> QED BY <2>1, <2>2, <2>3, <2>4, ConnectKeeps, RequestKeeps, BindKeeps, StreamEndsKeeps DEF Next
<1> QED BY <1>1, <1>2, PTL DEF Spec

\* g_tunnel_servers and g_tunnel_server_addr2ids describe the same listeners.
THEOREM TunnelTables == Spec => []TablesAgree
<1>1. TunnelInv => TablesAgree
  BY DEF TunnelInv
<1> QED BY <1>1, TunnelInvariant, PTL

\* Every listener will be closed by the destructor of some session.
THEOREM TunnelListeners == Spec => []NoLeakedListener
<1>1. TunnelInv => NoLeakedListener
  BY DEF TunnelInv
<1> QED BY <1>1, TunnelInvariant, PTL

\* A listener that goes is on the list of a session that ends with the step.
LEMMA ClosedByOwner ==
    ASSUME TunnelInv, [Next]_vars, NEW v \in servers, v \notin servers'
    PROVE  \E s \in Sessions : v.id \in sess[s].tunnels /\ sess'[s] = Gone
<1> USE DEF TunnelInv, TypeOK
<1>1. ASSUME NEW s \in Sessions, NEW w, w.tunnels = sess[s].tunnels, Release(s, w)
      PROVE  v.id \in sess[s].tunnels /\ sess'[s] = Gone
  BY <1>1 DEF Release, CloseTunnelServers, tables
<1>2. ASSUME NEW k \in Conns, st[k] # "off", Remove(k)
      PROVE  \E s \in Sessions : v.id \in sess[s].tunnels /\ sess'[s] = Gone
  <2> DEFINE w == [sess[of[k]] EXCEPT !.listed = \E j \in Conns \ {k} : of[j] = of[k]]
  <2>1. of[k] \in Sessions /\ Release(of[k], w)
    BY <1>2 DEF OwnSession, Remove
  <2>2. w.tunnels = sess[of[k]].tunnels
    BY <2>1 DEF Session
  <2> HIDE DEF w
  <2> QED BY <1>1, <2>1, <2>2
<1>3. ASSUME NEW s \in Sessions, StreamEnds(s)
      PROVE  v.id \in sess[s].tunnels /\ sess'[s] = Gone
  <2> DEFINE w == [sess[s] EXCEPT !.streams = @ - 1]
  <2>1. Release(s, w)
    BY <1>3 DEF StreamEnds
  <2>2. w.tunnels = sess[s].tunnels
    BY DEF Session
  <2> HIDE DEF w
  <2> QED BY <1>1, <2>1, <2>2
<1>4. ASSUME NEW k \in Conns, Connect(k) \/ RequestKnown(k) \/ RequestNew(k) \/ Bind(k)
      PROVE  FALSE
  BY <1>4 DEF Connect, RequestKnown, RequestNew, Bind, tables
<1>5. ASSUME NEW s \in Sessions, OpenStream(s) \/ \E u \in servers : Accept(u, s)
      PROVE  FALSE
  BY <1>5 DEF OpenStream, Accept, tables
<1>6. ~UNCHANGED vars /\ ~ \E u \in servers : AcceptFails(u)
  BY DEF vars, tables, AcceptFails
<1> QED BY <1>2, <1>3, <1>4, <1>5, <1>6 DEF Next, ConnectionEnds, OpenTunnelFails

\* A session whose list loses an id ends with the step.
LEMMA ListsGrow ==
    ASSUME TunnelInv, [Next]_vars, NEW s \in Sessions
    PROVE  sess[s].tunnels \subseteq sess'[s].tunnels \/ sess'[s] = Gone
<1> USE DEF TunnelInv, TypeOK
<1>1. ASSUME NEW r \in Sessions, NEW w, w.tunnels = sess[r].tunnels, Release(r, w)
      PROVE  sess[s].tunnels \subseteq sess'[s].tunnels \/ sess'[s] = Gone
  BY <1>1 DEF Release
<1>2. ASSUME NEW k \in Conns, st[k] # "off", Remove(k)
      PROVE  sess[s].tunnels \subseteq sess'[s].tunnels \/ sess'[s] = Gone
  <2> DEFINE w == [sess[of[k]] EXCEPT !.listed = \E j \in Conns \ {k} : of[j] = of[k]]
  <2>1. of[k] \in Sessions /\ Release(of[k], w)
    BY <1>2 DEF OwnSession, Remove
  <2>2. w.tunnels = sess[of[k]].tunnels
    BY <2>1 DEF Session
  <2> HIDE DEF w
  <2> QED BY <1>1, <2>1, <2>2
<1>3. ASSUME NEW r \in Sessions, StreamEnds(r)
      PROVE  sess[s].tunnels \subseteq sess'[s].tunnels \/ sess'[s] = Gone
  <2> DEFINE w == [sess[r] EXCEPT !.streams = @ - 1]
  <2>1. Release(r, w)
    BY <1>3 DEF StreamEnds
  <2>2. w.tunnels = sess[r].tunnels
    BY DEF Session
  <2> HIDE DEF w
  <2> QED BY <1>1, <2>1, <2>2
<1>4. ASSUME NEW k \in Conns, Connect(k) PROVE sess[s].tunnels \subseteq sess'[s].tunnels
  <2>1. sess' = sess \/ \E r \in Sessions : sess[r] = Gone /\ \E x : sess' = [sess EXCEPT ![r] = x]
    BY <1>4 DEF Connect
  <2> QED BY <2>1, GoneType
<1>5. ASSUME NEW k \in Conns, RequestKnown(k) \/ RequestNew(k) \/ Bind(k)
      PROVE  sess[s].tunnels \subseteq sess'[s].tunnels
  <2>1. st[k] # "off"
    BY <1>5 DEF RequestKnown, RequestNew, Bind
  <2>2. of[k] \in Sessions
    BY <2>1 DEF OwnSession
  <2>3. sess' = sess \/ \E i : sess' = [sess EXCEPT ![of[k]].tunnels = @ \cup {i}]
    BY <1>5 DEF RequestKnown, RequestNew, Bind, Given
  <2> QED BY <2>2, <2>3 DEF Session
<1>6. ASSUME NEW r \in Sessions, OpenStream(r) \/ \E u \in servers : Accept(u, r)
      PROVE  sess[s].tunnels \subseteq sess'[s].tunnels
  BY <1>6 DEF OpenStream, Accept, Session
<1>7. CASE UNCHANGED vars \/ \E u \in servers : AcceptFails(u)
  BY <1>7 DEF vars, AcceptFails
<1> QED BY <1>2, <1>3, <1>4, <1>5, <1>6, <1>7 DEF Next, ConnectionEnds, OpenTunnelFails

\* A connection that stays established stays in its session.
LEMMA SessionKept ==
    ASSUME TunnelInv, [Next]_vars, NEW k \in Conns, st[k] = "up", st'[k] = "up"
    PROVE  of'[k] = of[k]
<1> USE DEF TunnelInv, TypeOK
<1>1. ASSUME NEW j \in Conns, Connect(j) \/ Remove(j) PROVE of'[k] = of[k]
  BY <1>1 DEF Connect, Remove
<1>2. ASSUME NEW j \in Conns, RequestKnown(j) \/ RequestNew(j) \/ Bind(j) PROVE of'[k] = of[k]
  BY <1>2 DEF RequestKnown, RequestNew, Bind
<1>3. ASSUME NEW s \in Sessions,
             OpenStream(s) \/ StreamEnds(s) \/ \E u \in servers : Accept(u, s)
      PROVE  of'[k] = of[k]
  BY <1>3 DEF OpenStream, StreamEnds, Accept
<1>4. CASE UNCHANGED vars \/ \E u \in servers : AcceptFails(u)
  BY <1>4 DEF vars, AcceptFails
<1> QED BY <1>1, <1>2, <1>3, <1>4 DEF Next, ConnectionEnds, OpenTunnelFails

\* Whoever the clients are, an established connection loses its tunnel only with
\* a session that shares its listener, or with the listener itself: a client
\* that asked for the port with another destination never takes it away, also
\* when both requests found the port free.
THEOREM TunnelsKept == Spec => TunnelKept
<1>1. ASSUME TunnelInv, [Next]_vars, NEW k \in Conns,
             st[k] = "up", st'[k] = "up", Served(k), ~Served(k)'
      PROVE  SharerEnds(k) \/ ListenerDies(k)
  <2>1. PICK v \in servers : v.id \in sess[of[k]].tunnels /\ v.id \in loops
    BY <1>1 DEF Served
  <2>2. of[k] \in Sessions /\ sess[of[k]].owner = k[1] /\ of'[k] = of[k]
    BY <1>1, SessionKept DEF TunnelInv, OwnSession
  <2>3. CASE v \notin servers'
    <3>1. PICK s \in Sessions : v.id \in sess[s].tunnels /\ sess'[s] = Gone
      BY <1>1, <2>3, ClosedByOwner
    <3>2. AskedBy(v, sess[s].owner) /\ AskedBy(v, k[1])
      BY <1>1, <2>1, <2>2, <3>1 DEF TunnelInv, OwnDestination
    <3>3. SharerEnds(k)
      BY <3>1, <3>2, GoneType DEF AskedBy, SameTunnel, SharerEnds
    <3> QED BY <3>3
  <2>4. CASE v \in servers' /\ v.id \notin loops'
    BY <2>1, <2>4 DEF ListenerDies
  <2>5. CASE v \in servers' /\ v.id \in loops'
    <3>1. v.id \notin sess'[of[k]].tunnels
      BY <1>1, <2>2, <2>5 DEF Served
    <3>2. sess'[of[k]] = Gone
      BY <1>1, <2>1, <2>2, <3>1, ListsGrow
    <3>3. SharerEnds(k)
      BY <2>2, <3>2, GoneType, ClientOf DEF SameTunnel, SharerEnds
    <3> QED BY <3>3
  <2> QED BY <2>3, <2>4, <2>5
<1>2. TunnelInv /\ [Next]_vars
         => [\A k \in Conns :
                st[k] = "up" /\ st'[k] = "up" /\ Served(k) /\ ~Served(k)'
                    => SharerEnds(k) \/ ListenerDies(k)]_vars
  BY <1>1
<1> QED BY <1>2, TunnelInvariant, PTL DEF Spec, TunnelKept
=============================================================================
