---------------------------- MODULE MuxPoolProofs ----------------------------
(***************************************************************************)
(* Proofs about MuxPool, for any number of slots, connections, expiries    *)
(* and failures, and any length of the stream.                             *)
(***************************************************************************)
EXTENDS MuxPool, SequenceTheorems, WellFoundedInduction, TLAPS

\* Types of the client's connections, of the server's and of the stream.
ClientTypes ==
    /\ slot \in [Slots -> Conns \cup {Null}]
    /\ chk \in [at : {"scan", "connect", "retire", "exit"}, i : Slots, c : Conns \cup {Null}]
    /\ next \in 1 .. MaxConns + 1
    /\ cloop \in [Conns -> {"none", "connecting", "running", "exited"}]
    /\ idx \in [Conns -> Slots \cup {Null}]
    /\ cretired \in [Conns -> BOOLEAN]
    /\ ctimer \in [Conns -> BOOLEAN]
    /\ alive \in [Conns -> BOOLEAN]

ServerTypes ==
    /\ sloop \in [Conns -> {"none", "running", "exited"}]
    /\ sretired \in [Conns -> BOOLEAN]
    /\ session \in Nat
    /\ sessions \in Nat
    /\ conns \in Seq(Conns \cup {Null})

\* A connection is made once: what NewConnection has not made yet has no state
\* at either end.
NotMadeYet ==
    \A c \in Conns : c >= next =>
        cloop[c] = "none" /\ ~cretired[c] /\ ~alive[c] /\ sloop[c] = "none"

\* What has been made belongs to a slot.
MadeForSlot == \A c \in Conns : cloop[c] # "none" => idx[c] \in Slots

\* While NewConnection is suspended the slot it was called for stays empty.
SlotAwaits ==
    chk.at = "connect" =>
        /\ next > 1 /\ slot[chk.i] = Null
        /\ idx[next - 1] = chk.i /\ cloop[next - 1] = "connecting"

\* A connection is retired once it ran, and the one whose retire event is being
\* written was retired.
RetiredRan ==
    /\ \A c \in Conns : cretired[c] => cloop[c] \in {"running", "exited"}
    /\ chk.at = "retire" => chk.c \in Conns /\ cretired[chk.c]

\* A retired connection cannot stay open: it is closed, or its timer is armed,
\* or CheckConnections is about to arm it.
RetiredTimed ==
    \A c \in Conns :
        cretired[c] => \/ ~alive[c]
                       \/ ctimer[c]
                       \/ chk.at = "retire" /\ chk.c = c

\* The server retires only what it has accepted.
RetiredServed == \A c \in Conns : sretired[c] => sloop[c] # "none"

ClientInv == ClientTypes /\ NotMadeYet /\ MadeForSlot /\ SlotAwaits /\ RetiredRan
             /\ RetiredTimed /\ SlotsExact
ServerInv == ServerTypes /\ RetiredServed /\ SessionExact

PoolInv == ClientInv /\ ServerInv

-----------------------------------------------------------------------------
\* The scan of CheckConnections stays within the slots.
LEMMA NextSlotScans ==
    ASSUME ClientTypes
    PROVE  /\ NextSlot \in [at : {"scan", "connect", "retire", "exit"}, i : Slots, c : Conns \cup {Null}]
           /\ NextSlot.at = "scan"
<1>1. chk.i \in Nat /\ chk.i >= 1 /\ chk.i <= N /\ N \in Nat /\ N >= 1
  BY NAssumption DEF ClientTypes, Slots
<1>2. chk.i % N \in 0 .. N - 1
  BY <1>1
<1>3. (chk.i % N) + 1 \in Slots
  BY <1>1, <1>2 DEF Slots
<1> QED BY <1>3 DEF NextSlot

\* Zero is not a connection.
LEMMA NullIsNone == Null \notin Conns /\ Null \notin Slots
BY BoundsAssumption, NAssumption DEF Null, Conns, Slots

(***************************************************************************)
(* MuxClient.                                                              *)
(***************************************************************************)

\* A step that leaves the client's state, the connections and the server's
\* loops alone.
LEMMA ClientFrame ==
    ASSUME ClientInv, UNCHANGED <<clientVars, alive, sloop>>
    PROVE  ClientInv'
BY DEF ClientInv, ClientTypes, NotMadeYet, MadeForSlot, SlotAwaits, RetiredRan, RetiredTimed,
       SlotsExact, clientVars

\* CheckConnections calls NewConnection for an empty slot: the connection it
\* makes is a new one, so that no slot holds it.
LEMMA CheckEmptyStep ==
    ASSUME ClientInv, CheckEmpty
    PROVE  ClientInv'
<1> USE DEF ClientInv
<1>1. /\ next \in Conns /\ chk.i \in Slots /\ slot[chk.i] = Null /\ next' = next + 1
      /\ cloop[next] = "none" /\ ~cretired[next] /\ ~alive[next]
      /\ cloop' = [cloop EXCEPT ![next] = "connecting"]
      /\ idx' = [idx EXCEPT ![next] = chk.i]
      /\ alive' = [alive EXCEPT ![next] = TRUE]
      /\ chk' = [chk EXCEPT !.at = "connect"]
      /\ UNCHANGED <<slot, cretired, ctimer, sloop>>
      /\ next \in Nat /\ MaxConns \in Nat
  BY BoundsAssumption DEF CheckEmpty, NotMadeYet, ClientTypes, Conns, serverVars
<1>2. ClientTypes'
  <2>1. alive' \in [Conns -> BOOLEAN] /\ cretired' \in [Conns -> BOOLEAN] /\ ctimer' \in [Conns -> BOOLEAN]
    BY <1>1, Zenon DEF ClientTypes
  <2>2. next' \in 1 .. MaxConns + 1
    BY <1>1 DEF ClientTypes, Conns
  <2> QED BY <1>1, <2>1, <2>2 DEF ClientTypes
<1>3. NotMadeYet' BY <1>1 DEF NotMadeYet, ClientTypes, Conns
<1>4. MadeForSlot' BY <1>1 DEF MadeForSlot, ClientTypes
<1>5. SlotAwaits' BY <1>1 DEF SlotAwaits, ClientTypes, Conns
<1>6. RetiredRan' BY <1>1 DEF RetiredRan, ClientTypes
<1>7. RetiredTimed' BY <1>1 DEF RetiredTimed, ClientTypes, CheckEmpty
<1>8. SlotsExact' BY <1>1 DEF SlotsExact, ClientTypes
<1> QED BY <1>2, <1>3, <1>4, <1>5, <1>6, <1>7, <1>8

\* CheckConnections goes on to the next slot.
LEMMA CheckSkipStep ==
    ASSUME ClientInv, CheckSkip
    PROVE  ClientInv'
<1> USE DEF ClientInv
<1>1. /\ chk.at = "scan" /\ chk' = NextSlot
      /\ UNCHANGED <<slot, next, cloop, idx, cretired, ctimer, alive, sloop>>
  BY DEF CheckSkip, serverVars
<1> QED BY <1>1, NextSlotScans DEF ClientTypes, NotMadeYet, MadeForSlot, SlotAwaits,
          RetiredRan, RetiredTimed, SlotsExact

\* NewConnection returns: the slot it fills is still empty, although other
\* connections ended while it was suspended.
LEMMA ConnectedStep ==
    ASSUME ClientInv, Connected
    PROVE  ClientInv'
<1> USE DEF ClientInv
<1> DEFINE c == next - 1
<1>1. /\ c \in Conns /\ chk.i \in Slots /\ slot[chk.i] = Null /\ idx[c] = chk.i
      /\ cloop[c] = "connecting" /\ ~cretired[c] /\ c < next
      /\ chk.at = "connect" /\ chk' = NextSlot
      /\ cloop' = [cloop EXCEPT ![c] = "running"]
      /\ slot' = [slot EXCEPT ![chk.i] = c]
      /\ UNCHANGED <<next, idx, cretired, ctimer, alive, sloop>>
  BY BoundsAssumption DEF Connected, SlotAwaits, RetiredRan, ClientTypes, Conns, serverVars
<1> HIDE DEF c
<1>2. ClientTypes' BY <1>1, NextSlotScans DEF ClientTypes
<1>3. NotMadeYet' BY <1>1 DEF NotMadeYet, ClientTypes, Conns
<1>4. MadeForSlot' BY <1>1 DEF MadeForSlot, ClientTypes
<1>5. SlotAwaits' BY <1>1, NextSlotScans DEF SlotAwaits
<1>6. RetiredRan' BY <1>1, NextSlotScans DEF RetiredRan, ClientTypes
<1>7. RetiredTimed' BY <1>1 DEF RetiredTimed
<1>8. SlotsExact'
  <2> SUFFICES ASSUME NEW d \in Conns, NEW i \in Slots
               PROVE  slot'[i] = d <=> idx'[d] = i /\ cloop'[d] = "running" /\ ~cretired'[d]
    BY DEF SlotsExact
  <2>1. slot[i] = d <=> idx[d] = i /\ cloop[d] = "running" /\ ~cretired[d]
    BY DEF SlotsExact
  <2>2. CASE i = chk.i /\ d = c BY <2>2, <1>1 DEF ClientTypes
  <2>3. CASE i = chk.i /\ d # c
    <3>1. slot[i] # d BY <2>3, <1>1, NullIsNone
    <3> QED BY <2>1, <2>3, <3>1, <1>1 DEF ClientTypes
  <2>4. CASE i # chk.i BY <2>1, <2>4, <1>1 DEF ClientTypes
  <2> QED BY <2>2, <2>3, <2>4
<1> QED BY <1>2, <1>3, <1>4, <1>5, <1>6, <1>7, <1>8

\* NewConnection fails: the slot stays empty, and the scan goes on or, after
\* the first call of all, the process exits.
LEMMA ConnectFailsStep ==
    ASSUME ClientInv, ConnectFails \/ InitFails
    PROVE  ClientInv'
<1> USE DEF ClientInv
<1> DEFINE c == next - 1
<1>1. /\ c \in Conns /\ chk.i \in Slots /\ slot[chk.i] = Null /\ idx[c] = chk.i
      /\ cloop[c] = "connecting" /\ ~cretired[c] /\ c < next /\ chk.at = "connect"
      /\ cloop' = [cloop EXCEPT ![c] = "exited"]
      /\ UNCHANGED <<slot, next, idx, cretired, ctimer, alive, sloop>>
  <2>1. CASE ConnectFails
    BY <2>1, BoundsAssumption DEF ConnectFails, SlotAwaits, RetiredRan, ClientTypes, Conns,
       serverVars
  <2>2. CASE InitFails
    <3>1. /\ c = 1 /\ chk.at = "connect" /\ cloop' = [cloop EXCEPT ![1] = "exited"]
          /\ UNCHANGED <<slot, next, idx, cretired, ctimer, alive, sloop>>
      BY <2>2 DEF InitFails, serverVars
    <3> QED BY <3>1, BoundsAssumption DEF SlotAwaits, RetiredRan, ClientTypes, Conns
  <2> QED BY <2>1, <2>2
<1>a. /\ chk' \in [at : {"scan", "connect", "retire", "exit"}, i : Slots, c : Conns \cup {Null}]
      /\ chk'.at \in {"scan", "exit"}
  <2>1. CASE ConnectFails
    BY <2>1, NextSlotScans DEF ConnectFails
  <2>2. CASE InitFails
    BY <2>2 DEF InitFails, ClientTypes
  <2> QED BY <2>1, <2>2
<1> HIDE DEF c
<1>2. ClientTypes' BY <1>1, <1>a DEF ClientTypes
<1>3. NotMadeYet' BY <1>1 DEF NotMadeYet, ClientTypes, Conns
<1>4. MadeForSlot' BY <1>1 DEF MadeForSlot, ClientTypes
<1>5. SlotAwaits' BY <1>1, <1>a DEF SlotAwaits
<1>6. RetiredRan' BY <1>1, <1>a DEF RetiredRan, ClientTypes
<1>7. RetiredTimed' BY <1>1, <1>a DEF RetiredTimed
<1>8. SlotsExact' BY <1>1 DEF SlotsExact, ClientTypes
<1> QED BY <1>2, <1>3, <1>4, <1>5, <1>6, <1>7, <1>8

\* CheckConnections retires an expired connection and empties its slot before
\* it writes the retire event.
LEMMA CheckRetireStep ==
    ASSUME ClientInv, CheckRetire
    PROVE  ClientInv'
<1> USE DEF ClientInv
<1> DEFINE c == slot[chk.i]
<1>1. /\ c \in Conns /\ chk.i \in Slots /\ idx[c] = chk.i /\ cloop[c] = "running"
      /\ ~cretired[c]
      /\ cretired' = [cretired EXCEPT ![c] = TRUE]
      /\ slot' = [slot EXCEPT ![chk.i] = Null]
      /\ chk' = [at |-> "retire", i |-> chk.i, c |-> c]
      /\ UNCHANGED <<next, cloop, idx, ctimer, alive, sloop>>
  BY DEF CheckRetire, SlotsExact, ClientTypes, serverVars
<1>0. chk.at = "scan" BY DEF CheckRetire
<1> HIDE DEF c
<1>2. ClientTypes'
  <2>1. cretired' \in [Conns -> BOOLEAN] /\ alive' \in [Conns -> BOOLEAN] /\ ctimer' \in [Conns -> BOOLEAN]
    BY <1>1, Zenon DEF ClientTypes
  <2> QED BY <1>1, <2>1 DEF ClientTypes
<1>3. NotMadeYet' BY <1>1 DEF NotMadeYet, ClientTypes
<1>4. MadeForSlot' BY <1>1 DEF MadeForSlot
<1>5. SlotAwaits' BY <1>1 DEF SlotAwaits
<1>6. RetiredRan' BY <1>1 DEF RetiredRan, ClientTypes
<1>7. RetiredTimed' BY <1>0, <1>1 DEF RetiredTimed, ClientTypes
<1>8. SlotsExact'
  <2> SUFFICES ASSUME NEW d \in Conns, NEW i \in Slots
               PROVE  slot'[i] = d <=> idx'[d] = i /\ cloop'[d] = "running" /\ ~cretired'[d]
    BY DEF SlotsExact
  <2>1. slot[i] = d <=> idx[d] = i /\ cloop[d] = "running" /\ ~cretired[d]
    BY DEF SlotsExact
  <2>2. CASE d = c BY <2>1, <2>2, <1>1, NullIsNone DEF ClientTypes
  <2>3. CASE d # c
    <3>1. CASE i = chk.i
      <4>1. slot[i] = c BY <3>1 DEF c
      <4> QED BY <2>1, <2>3, <3>1, <4>1, <1>1, NullIsNone DEF ClientTypes
    <3>2. CASE i # chk.i BY <2>1, <2>3, <3>2, <1>1 DEF ClientTypes
    <3> QED BY <3>1, <3>2
  <2> QED BY <2>2, <2>3
<1> QED BY <1>2, <1>3, <1>4, <1>5, <1>6, <1>7, <1>8

\* The write of the retire event returns and the timer is armed.
LEMMA RetireWrittenStep ==
    ASSUME ClientInv, RetireWritten
    PROVE  ClientInv'
<1> USE DEF ClientInv
<1>1. /\ chk.at = "retire" /\ chk.c \in Conns /\ chk' = NextSlot
      /\ ctimer' = [ctimer EXCEPT ![chk.c] = TRUE]
      /\ UNCHANGED <<slot, next, cloop, idx, cretired, alive, sloop>>
  BY DEF RetireWritten, RetiredRan, serverVars
<1>2. ClientTypes'
  <2>1. cretired' \in [Conns -> BOOLEAN] /\ alive' \in [Conns -> BOOLEAN] /\ ctimer' \in [Conns -> BOOLEAN]
    BY <1>1, Zenon DEF ClientTypes
  <2> QED BY <1>1, <2>1, NextSlotScans DEF ClientTypes
<1>3. NotMadeYet' BY <1>1 DEF NotMadeYet
<1>4. MadeForSlot' BY <1>1 DEF MadeForSlot
<1>5. SlotAwaits' BY <1>1, NextSlotScans DEF SlotAwaits
<1>6. RetiredRan' BY <1>1, NextSlotScans DEF RetiredRan
<1>7. RetiredTimed' BY <1>1 DEF RetiredTimed, ClientTypes
<1>8. SlotsExact' BY <1>1 DEF SlotsExact
<1> QED BY <1>2, <1>3, <1>4, <1>5, <1>6, <1>7, <1>8

\* A connection is closed, by a timer of either end or by the network.
LEMMA CloseStep ==
    ASSUME ClientInv, NEW c \in Conns, alive' = [alive EXCEPT ![c] = FALSE],
           ctimer' = ctimer \/ ctimer' = [ctimer EXCEPT ![c] = FALSE],
           UNCHANGED <<slot, chk, next, cloop, idx, cretired, sloop>>
    PROVE  ClientInv'
<1> USE DEF ClientInv
<1>1. ClientTypes'
  <2>1. alive' \in [Conns -> BOOLEAN] /\ ctimer' \in [Conns -> BOOLEAN] /\ cretired' \in [Conns -> BOOLEAN]
    BY Zenon DEF ClientTypes
  <2> QED BY <2>1 DEF ClientTypes
<1>2. NotMadeYet' BY DEF NotMadeYet, ClientTypes
<1>3. RetiredTimed'
  <2> SUFFICES ASSUME NEW d \in Conns, cretired[d]
               PROVE  ~alive'[d] \/ ctimer'[d] \/ (chk.at = "retire" /\ chk.c = d)
    BY DEF RetiredTimed
  <2>1. CASE d = c BY <2>1 DEF ClientTypes
  <2>2. CASE d # c
    <3>1. alive'[d] = alive[d] BY <2>2 DEF ClientTypes
    <3>2. CASE ctimer' = ctimer BY <3>1, <3>2 DEF RetiredTimed
    <3>3. CASE ctimer' = [ctimer EXCEPT ![c] = FALSE]
      <4>1. ctimer'[d] = ctimer[d] BY <2>2, <3>3 DEF ClientTypes
      <4> QED BY <3>1, <4>1 DEF RetiredTimed
    <3> QED BY <3>2, <3>3
  <2> QED BY <2>1, <2>2
<1>4. MadeForSlot' /\ SlotAwaits' /\ RetiredRan' /\ SlotsExact'
  BY DEF MadeForSlot, SlotAwaits, RetiredRan, SlotsExact
<1> QED BY <1>1, <1>2, <1>3, <1>4

\* The read loop of a connection ends: it empties its slot unless the
\* connection was retired, when another may already be in it.
LEMMA ClientLoopExitStep ==
    ASSUME ClientInv, NEW c \in Conns, ClientLoopExit(c)
    PROVE  ClientInv'
<1> USE DEF ClientInv
<1>1. /\ cloop[c] = "running" /\ idx[c] \in Slots
      /\ cloop' = [cloop EXCEPT ![c] = "exited"]
      /\ cretired[c] => slot' = slot
      /\ ~cretired[c] => slot' = [slot EXCEPT ![idx[c]] = Null]
      /\ UNCHANGED <<chk, next, idx, cretired, ctimer, alive, sloop>>
  BY DEF ClientLoopExit, MadeForSlot, serverVars
<1>2. ClientTypes'
  <2>1. slot' \in [Slots -> Conns \cup {Null}]
    <3>1. CASE cretired[c] BY <1>1, <3>1 DEF ClientTypes
    <3>2. CASE ~cretired[c] BY <1>1, <3>2 DEF ClientTypes
    <3> QED BY <3>1, <3>2
  <2> QED BY <1>1, <2>1 DEF ClientTypes
<1>3. NotMadeYet' BY <1>1 DEF NotMadeYet, ClientTypes
<1>4. MadeForSlot' BY <1>1 DEF MadeForSlot, ClientTypes
<1>5. SlotAwaits'
  <2> SUFFICES ASSUME chk.at = "connect" PROVE SlotAwaits'
    BY <1>1 DEF SlotAwaits
  <2>1. /\ next > 1 /\ slot[chk.i] = Null /\ chk.i \in Slots /\ next - 1 \in Conns
        /\ idx[next - 1] = chk.i /\ cloop[next - 1] = "connecting"
    BY BoundsAssumption DEF SlotAwaits, ClientTypes, Conns
  <2>2. slot'[chk.i] = Null
    <3>1. CASE cretired[c] BY <1>1, <2>1, <3>1
    <3>2. CASE ~cretired[c] BY <1>1, <2>1, <3>2 DEF ClientTypes
    <3> QED BY <3>1, <3>2
  <2>3. cloop'[next - 1] = "connecting" BY <1>1, <2>1 DEF ClientTypes
  <2> QED BY <1>1, <2>1, <2>2, <2>3 DEF SlotAwaits
<1>6. RetiredRan' BY <1>1 DEF RetiredRan, ClientTypes
<1>7. RetiredTimed' BY <1>1 DEF RetiredTimed
<1>8. SlotsExact'
  <2> SUFFICES ASSUME NEW d \in Conns, NEW i \in Slots
               PROVE  slot'[i] = d <=> idx'[d] = i /\ cloop'[d] = "running" /\ ~cretired'[d]
    BY DEF SlotsExact
  <2>1. slot[i] = d <=> idx[d] = i /\ cloop[d] = "running" /\ ~cretired[d]
    BY DEF SlotsExact
  <2>2. CASE cretired[c] BY <1>1, <2>1, <2>2 DEF ClientTypes
  <2>3. CASE ~cretired[c]
    <3>0. slot[idx[c]] = c BY <1>1, <2>3 DEF SlotsExact
    <3>1. slot'[i] = IF i = idx[c] THEN Null ELSE slot[i]
      BY <1>1, <2>3 DEF ClientTypes
    <3>2. CASE d = c BY <1>1, <2>1, <3>1, <3>2, NullIsNone DEF ClientTypes
    <3>3. CASE d # c
      <4>1. cloop'[d] = cloop[d] BY <1>1, <3>3 DEF ClientTypes
      <4>2. CASE i = idx[c] BY <1>1, <2>1, <3>0, <3>1, <3>3, <4>1, <4>2, NullIsNone
      <4>3. CASE i # idx[c] BY <1>1, <2>1, <3>1, <4>1, <4>3
      <4> QED BY <4>2, <4>3
    <3> QED BY <3>2, <3>3
  <2> QED BY <2>2, <2>3
<1> QED BY <1>2, <1>3, <1>4, <1>5, <1>6, <1>7, <1>8

\* The server accepts a connection that was made.
LEMMA AcceptClient ==
    ASSUME ClientInv, ServerTypes, NEW c \in Conns, Accept(c)
    PROVE  ClientInv'
<1>1. /\ UNCHANGED <<slot, chk, next, cloop, idx, cretired, ctimer, alive>>
      /\ alive[c] /\ sloop' = [sloop EXCEPT ![c] = "running"]
  BY DEF Accept, clientVars
<1>2. NotMadeYet' BY <1>1 DEF ClientInv, NotMadeYet, ServerTypes
<1> QED BY <1>1, <1>2 DEF ClientInv, ClientTypes, MadeForSlot, SlotAwaits, RetiredRan,
          RetiredTimed, SlotsExact

-----------------------------------------------------------------------------
(***************************************************************************)
(* MuxConnManager.                                                         *)
(***************************************************************************)

\* The connections an array of the session holds, and that it holds each once.
Held(s) == {s[k] : k \in 1 .. Len(s)} \ {Null}
Distinct(s) == \A j, k \in 1 .. Len(s) : s[j] = s[k] /\ s[j] # Null => j = k

LessThan == {p \in Nat \X Nat : p[1] < p[2]}

\* A set of naturals that is not empty has a least member.
LEMMA LeastNatural ==
    ASSUME NEW T, T \subseteq Nat, T # {}
    PROVE  \E n \in T : \A m \in T : n <= m
<1>1. IsWellFoundedOn(LessThan, Nat)
  BY NatLessThanWellFounded DEF OpToRel, LessThan
<1>2. PICK n \in T : \A m \in T : <<m, n>> \notin LessThan
  BY <1>1, WFMin
<1>3. \A m \in T : ~(m < n)
  BY <1>2 DEF LessThan
<1> QED BY <1>3

\* MuxConnManager::Add puts a connection the session does not hold into it,
\* and disturbs none it holds: it takes a null entry or appends one.
LEMMA AddConnAdds ==
    ASSUME NEW s \in Seq(Conns \cup {Null}), NEW c \in Conns, Distinct(s), c \notin Held(s)
    PROVE  /\ AddConn(s, c) \in Seq(Conns \cup {Null})
           /\ Held(AddConn(s, c)) = Held(s) \cup {c}
           /\ Distinct(AddConn(s, c))
<1>0. Len(s) \in Nat /\ \A k \in 1 .. Len(s) : s[k] \in Conns \cup {Null} /\ s[k] # c
  BY NullIsNone DEF Held
<1>1. CASE \E k \in 1 .. Len(s) : s[k] = Null
  <2> DEFINE T == {k \in 1 .. Len(s) : s[k] = Null}
             First(k) == s[k] = Null /\ \A j \in 1 .. k - 1 : s[j] # Null
             f == CHOOSE k \in 1 .. Len(s) : First(k)
             r == [s EXCEPT ![f] = c]
  <2>1. T \subseteq Nat /\ T # {} BY <1>0, <1>1
  <2>2. PICK n \in T : \A m \in T : n <= m BY <2>1, LeastNatural
  <2>3. n \in 1 .. Len(s) /\ First(n) BY <1>0, <2>2
  <2>4. f \in 1 .. Len(s) /\ First(f)
    <3> HIDE DEF First
    <3> QED BY <2>3
  <2>5. AddConn(s, c) = r BY <1>1 DEF AddConn
  <2> HIDE DEF T, f
  <2>6. /\ r \in Seq(Conns \cup {Null}) /\ Len(r) = Len(s)
        /\ \A k \in 1 .. Len(s) : r[k] = IF k = f THEN c ELSE s[k]
    BY <2>4, <1>0
  <2> HIDE DEF r
  <2>7. Held(r) = Held(s) \cup {c}
    <3>1. c \in Held(r) BY <2>4, <2>6, NullIsNone DEF Held
    <3>2. ASSUME NEW d \in Held(s) PROVE d \in Held(r)
      <4>1. PICK k \in 1 .. Len(s) : d = s[k] /\ s[k] # Null BY <3>2 DEF Held
      <4> QED BY <4>1, <2>4, <2>6 DEF Held
    <3>3. ASSUME NEW d \in Held(r) PROVE d \in Held(s) \cup {c}
      <4>1. PICK k \in 1 .. Len(s) : d = r[k] /\ r[k] # Null BY <3>3, <2>6 DEF Held
      <4> QED BY <4>1, <2>6 DEF Held
    <3> QED BY <3>1, <3>2, <3>3
  <2>8. Distinct(r)
    <3> SUFFICES ASSUME NEW j \in 1 .. Len(s), NEW k \in 1 .. Len(s), r[j] = r[k], r[j] # Null
                 PROVE  j = k
      BY <2>6 DEF Distinct
    <3>1. CASE j = f /\ k # f BY <3>1, <2>6, <1>0
    <3>2. CASE j # f /\ k = f BY <3>2, <2>6, <1>0
    <3>3. CASE j # f /\ k # f BY <3>3, <2>6 DEF Distinct
    <3> QED BY <3>1, <3>2, <3>3
  <2> QED BY <2>5, <2>6, <2>7, <2>8
<1>2. CASE ~\E k \in 1 .. Len(s) : s[k] = Null
  <2> DEFINE r == Append(s, c)
  <2>1. AddConn(s, c) = r BY <1>2 DEF AddConn
  <2>2. /\ r \in Seq(Conns \cup {Null}) /\ Len(r) = Len(s) + 1
        /\ \A k \in 1 .. Len(s) : r[k] = s[k]
        /\ r[Len(s) + 1] = c
    BY <1>0
  <2> HIDE DEF r
  <2>3. Held(r) = Held(s) \cup {c}
    <3>1. c \in Held(r) BY <1>0, <2>2, NullIsNone DEF Held
    <3>2. ASSUME NEW d \in Held(s) PROVE d \in Held(r)
      <4>1. PICK k \in 1 .. Len(s) : d = s[k] /\ s[k] # Null BY <3>2 DEF Held
      <4>2. k \in 1 .. Len(r) /\ r[k] = d BY <1>0, <4>1, <2>2
      <4> QED BY <4>1, <4>2 DEF Held
    <3>3. ASSUME NEW d \in Held(r) PROVE d \in Held(s) \cup {c}
      <4>1. PICK k \in 1 .. Len(s) + 1 : d = r[k] /\ r[k] # Null BY <3>3, <2>2 DEF Held
      <4>2. CASE k = Len(s) + 1 BY <4>1, <4>2, <2>2
      <4>3. CASE k \in 1 .. Len(s) BY <4>1, <4>3, <2>2 DEF Held
      <4> QED BY <4>2, <4>3, <1>0
    <3> QED BY <3>1, <3>2, <3>3
  <2>4. Distinct(r) BY <1>0, <2>2 DEF Distinct
  <2> QED BY <2>1, <2>2, <2>3, <2>4
<1> QED BY <1>1, <1>2

\* MuxConnManager::Remove takes the connection out, whether it is there or not
\* (the retire callback may have removed it before), and erases the session
\* exactly when nothing is left.
LEMMA RemoveRemoves ==
    ASSUME conns \in Seq(Conns \cup {Null}), session \in Nat, NEW c \in Conns, Distinct(conns),
           Remove(c), session = 0 <=> Held(conns) = {}
    PROVE  /\ conns' \in Seq(Conns \cup {Null}) /\ session' \in Nat
           /\ Held(conns') = Held(conns) \ {c}
           /\ Distinct(conns')
           /\ session' = 0 <=> Held(conns') = {}
<1> DEFINE left == [k \in 1 .. Len(conns) |-> IF conns[k] = c THEN Null ELSE conns[k]]
<1>0. Len(conns) \in Nat /\ \A k \in 1 .. Len(conns) : conns[k] \in Conns \cup {Null}
  OBVIOUS
<1>1. /\ left \in Seq(Conns \cup {Null}) /\ Len(left) = Len(conns)
      /\ \A k \in 1 .. Len(conns) : left[k] = IF conns[k] = c THEN Null ELSE conns[k]
  BY <1>0
<1>2. \/ (\A k \in 1 .. Len(conns) : left[k] = Null) /\ session' = 0 /\ conns' = <<>>
      \/ ~(\A k \in 1 .. Len(conns) : left[k] = Null) /\ session' = session /\ conns' = left
  BY DEF Remove
<1> HIDE DEF left
<1>3. Held(left) = Held(conns) \ {c}
  <2>1. ASSUME NEW d \in Held(left) PROVE d \in Held(conns) \ {c}
    <3>1. PICK k \in 1 .. Len(conns) : d = left[k] /\ left[k] # Null BY <2>1, <1>1 DEF Held
    <3> QED BY <3>1, <1>1 DEF Held
  <2>2. ASSUME NEW d \in Held(conns), d # c PROVE d \in Held(left)
    <3>1. PICK k \in 1 .. Len(conns) : d = conns[k] /\ conns[k] # Null BY <2>2 DEF Held
    <3>2. left[k] = d BY <2>2, <3>1, <1>1
    <3> QED BY <3>1, <3>2, <1>1 DEF Held
  <2> QED BY <2>1, <2>2
<1>4. Distinct(left) BY <1>1 DEF Distinct
<1>5. CASE (\A k \in 1 .. Len(conns) : left[k] = Null) /\ session' = 0 /\ conns' = <<>>
  <2>1. Held(left) = {} BY <1>1, <1>5 DEF Held
  <2>2. Held(conns') = {} /\ Distinct(conns') /\ conns' \in Seq(Conns \cup {Null})
    BY <1>5 DEF Held, Distinct
  <2> QED BY <1>3, <1>5, <2>1, <2>2
<1>6. CASE ~(\A k \in 1 .. Len(conns) : left[k] = Null) /\ session' = session /\ conns' = left
  <2>1. PICK k \in 1 .. Len(conns) : left[k] # Null BY <1>6
  <2>2. left[k] \in Held(left) BY <1>1, <2>1 DEF Held
  <2>3. Held(left) # {} /\ Held(conns) # {} BY <2>2, <1>3
  <2> QED BY <1>1, <1>3, <1>4, <1>6, <2>3
<1> QED BY <1>2, <1>5, <1>6

\* SessionExact in terms of what the session holds.
LEMMA SessionHolds ==
    SessionExact <=> Held(conns) = Serving /\ Distinct(conns) /\ (session = 0 <=> Serving = {})
BY DEF SessionExact, Held, Distinct

(***************************************************************************)
(* The server.                                                             *)
(***************************************************************************)

\* handle_conn adds a connection it has never served.
LEMMA AcceptServer ==
    ASSUME ServerInv, NEW c \in Conns, Accept(c)
    PROVE  ServerInv'
<1> USE DEF ServerInv
<1>1. /\ sloop[c] = "none" /\ sloop' = [sloop EXCEPT ![c] = "running"] /\ sretired' = sretired
      /\ session' = IF session = 0 THEN sessions + 1 ELSE session
      /\ sessions' = IF session = 0 THEN sessions + 1 ELSE sessions
      /\ conns' = AddConn(conns, c)
  BY DEF Accept, Add
<1>2. ~sretired[c] /\ c \notin Serving
  BY <1>1 DEF RetiredServed, Serving
<1>3. /\ conns' \in Seq(Conns \cup {Null}) /\ Held(conns') = Held(conns) \cup {c}
      /\ Distinct(conns')
  BY <1>1, <1>2, AddConnAdds, SessionHolds DEF ServerTypes
<1>4. Serving' = Serving \cup {c}
  BY <1>1, <1>2 DEF Serving, ServerTypes
<1>5. session' # 0 /\ session' \in Nat /\ sessions' \in Nat
  BY <1>1 DEF ServerTypes
<1>6. ServerTypes' BY <1>1, <1>3, <1>5 DEF ServerTypes
<1>7. RetiredServed' BY <1>1 DEF RetiredServed, ServerTypes
<1>8. SessionExact'
  <2>1. Held(conns') = Serving' BY <1>3, <1>4, SessionHolds
  <2>2. Serving' # {} BY <1>4
  <2> QED BY <1>3, <1>5, <2>1, <2>2 DEF SessionExact, Held, Distinct
<1> QED BY <1>6, <1>7, <1>8

\* The server takes a connection out of the session once it is retired or
\* its loop has ended.
LEMMA RemoveServer ==
    ASSUME ServerInv, NEW c \in Conns, Remove(c), sessions' = sessions, sloop[c] = "running",
           \/ sretired' = [sretired EXCEPT ![c] = TRUE] /\ sloop' = sloop
           \/ sloop' = [sloop EXCEPT ![c] = "exited"] /\ sretired' = sretired
    PROVE  ServerInv'
<1> USE DEF ServerInv
<1>1. /\ conns' \in Seq(Conns \cup {Null}) /\ session' \in Nat
      /\ Held(conns') = Held(conns) \ {c} /\ Distinct(conns')
      /\ session' = 0 <=> Held(conns') = {}
  BY RemoveRemoves, SessionHolds DEF ServerTypes
<1>2. Serving' = Serving \ {c}
  <2>1. CASE sretired' = [sretired EXCEPT ![c] = TRUE] /\ sloop' = sloop
    BY <2>1 DEF Serving, ServerTypes
  <2>2. CASE sloop' = [sloop EXCEPT ![c] = "exited"] /\ sretired' = sretired
    BY <2>2 DEF Serving, ServerTypes
  <2> QED BY <2>1, <2>2
<1>3. ServerTypes'
  <2>1. sretired' \in [Conns -> BOOLEAN] BY Zenon DEF ServerTypes
  <2>2. sloop' \in [Conns -> {"none", "running", "exited"}] BY DEF ServerTypes
  <2> QED BY <1>1, <2>1, <2>2 DEF ServerTypes
<1>4. RetiredServed'
  <2>1. CASE sretired' = [sretired EXCEPT ![c] = TRUE] /\ sloop' = sloop
    BY <2>1 DEF RetiredServed, ServerTypes
  <2>2. CASE sloop' = [sloop EXCEPT ![c] = "exited"] /\ sretired' = sretired
    BY <2>2 DEF RetiredServed, ServerTypes
  <2> QED BY <2>1, <2>2
<1>5. SessionExact'
  <2>1. Held(conns') = Serving' BY <1>1, <1>2, SessionHolds
  <2> QED BY <1>1, <2>1 DEF SessionExact, Held, Distinct
<1> QED BY <1>3, <1>4, <1>5

\* A step that leaves the server's state alone.
LEMMA ServerFrame ==
    ASSUME ServerInv, UNCHANGED serverVars
    PROVE  ServerInv'
<1>1. sloop' = sloop /\ sretired' = sretired /\ conns' = conns /\ session' = session
  BY DEF serverVars
<1>2. ServerTypes' BY <1>1 DEF ServerInv, ServerTypes, serverVars
<1>3. RetiredServed' BY <1>1 DEF ServerInv, RetiredServed
<1>4. SessionExact'
  <2>1. Serving' = Serving BY <1>1 DEF Serving
  <2> QED BY <1>1, <2>1 DEF ServerInv, SessionExact
<1> QED BY <1>2, <1>3, <1>4 DEF ServerInv

-----------------------------------------------------------------------------
\* No client, server, timer or stream step breaks the invariant of the pool.
LEMMA PoolStep ==
    ASSUME PoolInv, [Next]_vars
    PROVE  PoolInv'
<1> USE DEF PoolInv
<1>1. CASE CheckEmpty BY <1>1, CheckEmptyStep, ServerFrame DEF CheckEmpty
<1>2. CASE CheckSkip BY <1>2, CheckSkipStep, ServerFrame DEF CheckSkip
<1>3. CASE Connected BY <1>3, ConnectedStep, ServerFrame DEF Connected
<1>4. CASE ConnectFails \/ InitFails
  BY <1>4, ConnectFailsStep, ServerFrame DEF ConnectFails, InitFails
<1>5. CASE CheckRetire BY <1>5, CheckRetireStep, ServerFrame DEF CheckRetire
<1>6. CASE RetireWritten BY <1>6, RetireWrittenStep, ServerFrame DEF RetireWritten
<1>7. ASSUME NEW c \in Conns, ClientTimeout(c) PROVE PoolInv'
  BY <1>7, CloseStep, ServerFrame DEF ClientTimeout, serverVars
<1>8. ASSUME NEW c \in Conns, ClientLoopExit(c) PROVE PoolInv'
  BY <1>8, ClientLoopExitStep, ServerFrame DEF ClientLoopExit
<1>9. ASSUME NEW c \in Conns, Accept(c) PROVE PoolInv'
  BY <1>9, AcceptClient, AcceptServer DEF ServerInv
<1>10. ASSUME NEW c \in Conns, ReceiveRetire(c) PROVE PoolInv'
  <2>1. ClientInv' BY <1>10, ClientFrame DEF ReceiveRetire, Receive
  <2>2. ServerInv' BY <1>10, RemoveServer DEF ReceiveRetire, Receive
  <2> QED BY <2>1, <2>2
<1>11. ASSUME NEW c \in Conns, ReceiveEvent(c) PROVE PoolInv'
  BY <1>11, ClientFrame, ServerFrame DEF ReceiveEvent, serverVars
<1>12. ASSUME NEW c \in Conns, ServerLoopExit(c) PROVE PoolInv'
  <2>1. /\ sloop[c] = "running" /\ sloop' = [sloop EXCEPT ![c] = "exited"] /\ Remove(c)
        /\ UNCHANGED <<slot, chk, next, cloop, idx, cretired, ctimer, alive, sretired, sessions>>
    BY <1>12 DEF ServerLoopExit, clientVars
  <2>2. NotMadeYet' BY <2>1 DEF ClientInv, ServerInv, NotMadeYet, ServerTypes
  <2>3. ClientInv'
    BY <2>1, <2>2 DEF ClientInv, ClientTypes, MadeForSlot, SlotAwaits, RetiredRan,
       RetiredTimed, SlotsExact
  <2>4. ServerInv' BY <2>1, RemoveServer
  <2> QED BY <2>3, <2>4
<1>13. ASSUME NEW c \in Conns, ServerTimeout(c) PROVE PoolInv'
  BY <1>13, CloseStep, ServerFrame DEF ServerTimeout, clientVars, serverVars
<1>14. ASSUME NEW c \in Conns, Break(c) PROVE PoolInv'
  BY <1>14, CloseStep, ServerFrame DEF Break, clientVars, serverVars
<1>15. CASE Stream
  BY <1>15, ClientFrame, ServerFrame DEF Stream, StreamWrite, StreamNoConn, StreamWritten,
     StreamRetry, serverVars
<1>16. CASE UNCHANGED vars
  BY <1>16, ClientFrame, ServerFrame DEF vars, serverVars
<1> QED BY <1>1, <1>2, <1>3, <1>4, <1>5, <1>6, <1>7, <1>8, <1>9, <1>10, <1>11, <1>12, <1>13,
          <1>14, <1>15, <1>16 DEF Next, Client, Server, Exited

\* Nothing is connected at first.
LEMMA PoolInit ==
    ASSUME Init
    PROVE  PoolInv
<1> USE DEF Init
<1>1. ClientTypes
  <2>1. /\ cretired \in [Conns -> BOOLEAN] /\ ctimer \in [Conns -> BOOLEAN]
        /\ alive \in [Conns -> BOOLEAN]
    BY Zenon
  <2> QED BY <2>1, NAssumption, BoundsAssumption DEF ClientTypes, Slots
<1>2. ServerTypes
  <2>1. sretired \in [Conns -> BOOLEAN] BY Zenon
  <2> QED BY <2>1 DEF ServerTypes
<1>3. NotMadeYet /\ MadeForSlot /\ SlotAwaits /\ RetiredRan /\ RetiredTimed /\ RetiredServed
  BY DEF NotMadeYet, MadeForSlot, SlotAwaits, RetiredRan, RetiredTimed, RetiredServed
<1>4. SlotsExact BY NullIsNone DEF SlotsExact
<1>5. SessionExact BY DEF SessionExact, Serving
<1> QED BY <1>1, <1>2, <1>3, <1>4, <1>5 DEF PoolInv, ClientInv, ServerInv

\* The invariant holds in every behaviour of the pool.
THEOREM PoolInvariant == Spec => []PoolInv
<1>1. Init => PoolInv BY PoolInit
<1>2. PoolInv /\ [Next]_vars => PoolInv' BY PoolStep
<1> QED BY <1>1, <1>2, PTL DEF Spec

\* MuxClient's slots hold exactly the running connections that are not retired,
\* whatever ends, is retired or connects while CheckConnections is suspended.
THEOREM PoolSlots == Spec => []SlotsExact
<1>1. PoolInv => SlotsExact BY DEF PoolInv, ClientInv
<1> QED BY <1>1, PoolInvariant, PTL

\* The MuxSession of the server holds exactly the connections it serves, each
\* once, and is in the table of MuxConnManager exactly while it holds one.
THEOREM PoolSession == Spec => []SessionExact
<1>1. PoolInv => SessionExact BY DEF PoolInv, ServerInv
<1> QED BY <1>1, PoolInvariant, PTL

\* A connection CheckConnections retired is closed or has a timer that will
\* close it, or its retire event is still being written.
THEOREM PoolRetired == Spec => []RetiredTimed
<1>1. PoolInv => RetiredTimed BY DEF PoolInv, ClientInv
<1> QED BY <1>1, PoolInvariant, PTL

-----------------------------------------------------------------------------
(***************************************************************************)
(* The stream, while no connection expires or breaks.                      *)
(***************************************************************************)

\* Every connection that was made is open at both ends and stays.
AllOpen ==
    /\ retires \in Nat /\ fails \in Nat
    /\ chk.at # "retire"
    /\ \A c \in Conns : /\ cretired[c] = FALSE /\ sretired[c] = FALSE /\ ctimer[c] = FALSE
                        /\ alive[c] = TRUE <=> cloop[c] # "none"
                        /\ cloop[c] = "none" => sloop[c] = "none"
                        /\ cloop[c] # "exited"

\* event_writer_ keeps the slot it was made for, and so its connection.
WriterKept ==
    \/ /\ writer = Null /\ wconn = Null /\ wpc # "writing" /\ sent = 0
    \/ /\ writer \in Slots /\ wconn \in Conns /\ slot[writer] = wconn

\* What was written and is not yet handled is on that connection, in order.
OnOneConnection ==
    /\ sent \in Nat
    /\ rcvd \in Seq(Int) /\ Len(rcvd) <= sent
    /\ wire \in [Conns -> Seq(Int)]
    /\ \A i \in 1 .. Len(rcvd) : rcvd[i] = i
    /\ \A c \in Conns : c # wconn => wire[c] = <<>>
    /\ wconn \in Conns =>
           /\ Len(wire[wconn]) = sent - Len(rcvd)
           /\ \A j \in 1 .. Len(wire[wconn]) : wire[wconn][j] = Len(rcvd) + j

SteadyInv == AllOpen /\ WriterKept /\ OnOneConnection

\* A step that leaves the stream, its connections and the slots in use alone.
LEMMA StreamFrame ==
    ASSUME SteadyInv, AllOpen', UNCHANGED <<writer, wpc, wconn, sent, wire, rcvd>>,
           \A i \in Slots : slot[i] # Null => slot'[i] = slot[i]
    PROVE  SteadyInv'
<1>1. WriterKept'
  BY NullIsNone DEF SteadyInv, WriterKept
<1>2. OnOneConnection'
  BY DEF SteadyInv, OnOneConnection
<1> QED BY <1>1, <1>2 DEF SteadyInv

\* MuxClient only adds connections.
LEMMA SteadyClient ==
    ASSUME PoolInv, SteadyInv, MaxRetires = 0, Client
    PROVE  SteadyInv'
<1> USE DEF PoolInv, ClientInv
<1>0. /\ retires \in Nat /\ fails \in Nat /\ chk.at # "retire" /\ chk.i \in Slots
      /\ \A c \in Conns : /\ cretired[c] = FALSE /\ sretired[c] = FALSE /\ ctimer[c] = FALSE
                          /\ alive[c] = TRUE <=> cloop[c] # "none"
                          /\ cloop[c] = "none" => sloop[c] = "none"
                          /\ cloop[c] # "exited"
  BY DEF SteadyInv, AllOpen, ClientTypes
<1>1. CASE CheckEmpty
  <2>1. /\ next \in Conns /\ slot' = slot /\ sloop' = sloop /\ cretired' = cretired
        /\ sretired' = sretired /\ ctimer' = ctimer /\ retires' = retires /\ fails' = fails
        /\ cloop' = [cloop EXCEPT ![next] = "connecting"]
        /\ alive' = [alive EXCEPT ![next] = TRUE]
        /\ chk' = [chk EXCEPT !.at = "connect"]
        /\ UNCHANGED <<writer, wpc, wconn, sent, wire, rcvd>>
    BY <1>1 DEF CheckEmpty, serverVars, streamVars
  <2>2. \A c \in Conns : /\ cloop'[c] = (IF c = next THEN "connecting" ELSE cloop[c])
                         /\ alive'[c] = (IF c = next THEN TRUE ELSE alive[c])
    BY <2>1, Zenon DEF ClientTypes
  <2>3. chk'.at = "connect"
    BY <2>1 DEF ClientTypes
  <2>4. "connecting" # "none" /\ "connecting" # "exited" /\ "connect" # "retire"
    OBVIOUS
  <2>5. \A c \in Conns : /\ alive'[c] = TRUE <=> cloop'[c] # "none"
                         /\ cloop'[c] = "none" => sloop'[c] = "none"
                         /\ cloop'[c] # "exited"
    <3> SUFFICES ASSUME NEW c \in Conns
                 PROVE  /\ alive'[c] = TRUE <=> cloop'[c] # "none"
                        /\ cloop'[c] = "none" => sloop'[c] = "none"
                        /\ cloop'[c] # "exited"
      OBVIOUS
    <3>1. CASE c = next
      BY <2>2, <2>4, <3>1, Zenon
    <3>2. CASE c # next
      <4>1. cloop'[c] = cloop[c] /\ alive'[c] = alive[c] /\ sloop'[c] = sloop[c]
        BY <2>1, <2>2, <3>2, Zenon
      <4>2. /\ alive[c] = TRUE <=> cloop[c] # "none"
            /\ cloop[c] = "none" => sloop[c] = "none"
            /\ cloop[c] # "exited"
        BY <1>0, Zenon
      <4> QED BY <4>1, <4>2, Zenon
    <3> QED BY <3>1, <3>2
  <2>6. AllOpen'
    BY <1>0, <2>1, <2>3, <2>4, <2>5, Zenon DEF AllOpen
  <2> QED BY <2>1, <2>6, StreamFrame
<1>2. CASE CheckSkip
  <2>1. chk'.at = "scan" /\ UNCHANGED <<slot, cloop, cretired, ctimer, sloop, sretired, alive, retires, fails>>
    BY <1>2, NextSlotScans DEF CheckSkip, serverVars
  <2>2. AllOpen'
    BY <1>0, <2>1 DEF AllOpen
  <2> QED BY <1>2, <2>1, <2>2, StreamFrame DEF CheckSkip, streamVars
<1>3. CASE Connected
  <2> DEFINE c == next - 1
  <2>1. /\ cloop' = [cloop EXCEPT ![c] = "running"]
        /\ slot' = [slot EXCEPT ![chk.i] = c] /\ slot[chk.i] = Null
        /\ UNCHANGED <<cretired, ctimer, sloop, sretired, alive, retires, fails>>
        /\ UNCHANGED <<writer, wpc, wconn, sent, wire, rcvd>>
        /\ cloop[c] = "connecting" /\ chk' = NextSlot
    BY <1>3 DEF Connected, SlotAwaits, serverVars, streamVars
  <2>2. chk'.at = "scan"
    BY <2>1, NextSlotScans
  <2>3. \A d \in Conns : cloop'[d] = (IF d = c THEN "running" ELSE cloop[d])
    BY <2>1, Zenon DEF ClientTypes
  <2>4. AllOpen'
    BY <1>0, <2>1, <2>2, <2>3 DEF AllOpen
  <2>5. \A i \in Slots : slot[i] # Null => slot'[i] = slot[i]
    BY <2>1 DEF ClientTypes
  <2> QED BY <2>1, <2>4, <2>5, StreamFrame
<1>4. CASE ConnectFails \/ InitFails
  <2>1. next - 1 \in Conns /\ chk.at = "connect" /\ ~alive[next - 1]
    BY <1>4, BoundsAssumption DEF ConnectFails, InitFails, SlotAwaits, ClientTypes, Conns
  <2>2. alive[next - 1] = TRUE
    BY <1>0, <2>1 DEF SlotAwaits
  <2> QED BY <2>1, <2>2
<1>5. CASE CheckRetire
  BY <1>0, <1>5 DEF CheckRetire
<1>6. CASE RetireWritten
  BY <1>0, <1>6 DEF RetireWritten
<1> QED BY <1>1, <1>2, <1>3, <1>4, <1>5, <1>6 DEF Client

\* Nothing closes a connection, and no retire event is on one.
LEMMA SteadyConns ==
    ASSUME PoolInv, SteadyInv, MaxFails = 0, NEW c \in Conns,
           ClientTimeout(c) \/ ClientLoopExit(c) \/ Accept(c) \/ Server(c)
               \/ ServerTimeout(c) \/ Break(c)
    PROVE  SteadyInv'
<1> USE DEF PoolInv, ClientInv
<1>0. /\ retires \in Nat /\ fails \in Nat /\ chk.at # "retire"
      /\ \A d \in Conns : /\ cretired[d] = FALSE /\ sretired[d] = FALSE /\ ctimer[d] = FALSE
                          /\ alive[d] = TRUE <=> cloop[d] # "none"
                          /\ cloop[d] = "none" => sloop[d] = "none"
                          /\ cloop[d] # "exited"
  BY DEF SteadyInv, AllOpen
<1>1. CASE ClientTimeout(c)
  BY <1>0, <1>1, Zenon DEF ClientTimeout
<1>2. CASE ClientLoopExit(c)
  <2>1. cloop[c] = "running" /\ ~alive[c]
    BY <1>2, Zenon DEF ClientLoopExit
  <2>2. cloop[c] # "none"
    BY <2>1
  <2> QED BY <1>0, <2>1, <2>2, Zenon
<1>3. CASE Accept(c)
  <2>1. /\ alive[c] /\ sloop' = [sloop EXCEPT ![c] = "running"]
        /\ UNCHANGED <<slot, chk, cloop, cretired, ctimer, sretired, alive, retires, fails>>
        /\ UNCHANGED <<writer, wpc, wconn, sent, wire, rcvd>>
    BY <1>3 DEF Accept, clientVars, streamVars
  <2>2. cloop[c] # "none"
    <3>1. alive[c] = TRUE
      BY <2>1, Zenon DEF ClientTypes
    <3> QED BY <1>0, <3>1, Zenon
  <2>3. \A d \in Conns : sloop'[d] = (IF d = c THEN "running" ELSE sloop[d])
    BY <2>1, Zenon DEF ServerInv, ServerTypes
  <2>4. AllOpen'
    BY <1>0, <2>1, <2>2, <2>3 DEF AllOpen
  <2> QED BY <2>1, <2>4, StreamFrame
<1>4. CASE ReceiveRetire(c) \/ ReceiveEvent(c)
  <2>0. /\ sent \in Nat /\ rcvd \in Seq(Int) /\ Len(rcvd) <= sent
        /\ wire \in [Conns -> Seq(Int)]
        /\ \A i \in 1 .. Len(rcvd) : rcvd[i] = i
        /\ \A d \in Conns : d # wconn => wire[d] = <<>>
    BY DEF SteadyInv, OnOneConnection
  <2>1. wire[c] # <<>> /\ wire' = [wire EXCEPT ![c] = Tail(@)]
    BY <1>4 DEF ReceiveRetire, ReceiveEvent, Receive
  <2>2. c = wconn
    BY <2>0, <2>1
  <2> DEFINE w == wire[c]
             r == Len(rcvd)
  <2>3. Len(w) = sent - r /\ \A j \in 1 .. Len(w) : w[j] = r + j
    BY <2>2 DEF SteadyInv, OnOneConnection
  <2>4. w \in Seq(Int) /\ r \in Nat
    BY <2>0
  <2> HIDE DEF w, r
  <2>5. PICK l \in Nat : l = Len(w) /\ l >= 1
    BY <2>1, <2>4 DEF w
  <2>6. Head(w) = r + 1
    <3>1. Head(w) = w[1]
      BY <2>1, <2>4 DEF w
    <3>2. 1 \in 1 .. l
      BY <2>5
    <3> QED BY <2>3, <2>5, <3>1, <3>2, Zenon
  <2>7. /\ Tail(w) \in Seq(Int) /\ Len(Tail(w)) = l - 1
        /\ \A j \in 1 .. l - 1 : Tail(w)[j] = w[j + 1]
    BY <2>1, <2>4, <2>5 DEF w
  <2>8. /\ rcvd' = Append(rcvd, r + 1)
        /\ UNCHANGED <<slot, chk, cloop, cretired, ctimer, sloop, sretired, alive, retires, fails>>
        /\ UNCHANGED <<writer, wpc, wconn, sent>>
    <3>1. Head(wire[c]) # Retire
      BY <2>4, <2>6 DEF Retire, w
    <3>2. ReceiveEvent(c)
      BY <1>4, <3>1, Zenon DEF ReceiveRetire
    <3> QED BY <2>6, <3>2 DEF ReceiveEvent, clientVars, serverVars, streamVars, w
  <2>9. AllOpen'
    BY <1>0, <2>8 DEF AllOpen
  <2>10. WriterKept'
    BY <2>8 DEF SteadyInv, WriterKept
  <2>11. /\ rcvd' \in Seq(Int) /\ Len(rcvd') = r + 1
         /\ \A i \in 1 .. r : rcvd'[i] = rcvd[i]
         /\ rcvd'[r + 1] = r + 1
    BY <2>0, <2>4, <2>8 DEF r
  <2>12. \A i \in 1 .. Len(rcvd') : rcvd'[i] = i
    <3> SUFFICES ASSUME NEW i \in 1 .. r + 1 PROVE rcvd'[i] = i
      BY <2>11
    <3>1. i \in 1 .. r \/ i = r + 1
      BY <2>4
    <3> QED BY <2>0, <2>11, <3>1, Zenon DEF r
  <2>13. /\ wire' \in [Conns -> Seq(Int)] /\ wire'[c] = Tail(w)
         /\ \A d \in Conns : d # c => wire'[d] = wire[d]
    BY <2>0, <2>1, <2>7, Zenon DEF w
  <2>14. /\ Len(wire'[c]) = sent - Len(rcvd')
         /\ \A j \in 1 .. Len(wire'[c]) : wire'[c][j] = Len(rcvd') + j
    <3>1. Len(wire'[c]) = l - 1 /\ l - 1 = sent - (r + 1) /\ r + 1 <= sent
      BY <2>0, <2>3, <2>4, <2>5, <2>7, <2>13
    <3>2. ASSUME NEW j \in 1 .. l - 1 PROVE wire'[c][j] = (r + 1) + j
      <4>1. j + 1 \in 1 .. l /\ r + (j + 1) = (r + 1) + j
        BY <2>4, <2>5
      <4>2. w[j + 1] = r + (j + 1)
        BY <2>3, <2>5, <4>1, Zenon
      <4>3. wire'[c][j] = w[j + 1]
        BY <2>7, <2>13, Zenon
      <4> QED BY <4>1, <4>2, <4>3, Zenon
    <3> QED BY <2>11, <3>1, <3>2
  <2>15. Len(rcvd') <= sent
    BY <2>0, <2>3, <2>4, <2>5, <2>11
  <2>16. OnOneConnection'
    <3>1. \A d \in Conns : d # wconn' => wire'[d] = <<>>
      BY <2>0, <2>2, <2>8, <2>13, Zenon
    <3>2. /\ Len(wire'[wconn']) = sent' - Len(rcvd')
          /\ \A j \in 1 .. Len(wire'[wconn']) : wire'[wconn'][j] = Len(rcvd') + j
      BY <2>2, <2>8, <2>14, Zenon
    <3>3. sent' \in Nat /\ Len(rcvd') <= sent'
      BY <2>0, <2>8, <2>15, Zenon
    <3> QED BY <2>11, <2>12, <2>13, <3>1, <3>2, <3>3, Zenon DEF OnOneConnection
  <2> QED BY <2>9, <2>10, <2>16 DEF SteadyInv
<1>5. CASE ServerLoopExit(c)
  <2>1. sloop[c] = "running" /\ ~alive[c]
    BY <1>5, Zenon DEF ServerLoopExit
  <2>2. sloop[c] # "none"
    BY <2>1
  <2> QED BY <1>0, <2>1, <2>2, Zenon
<1>6. CASE ServerTimeout(c)
  BY <1>0, <1>6, Zenon DEF ServerTimeout
<1>7. CASE Break(c)
  BY <1>0, <1>7 DEF Break
<1> QED BY <1>1, <1>2, <1>3, <1>4, <1>5, <1>6, <1>7, Zenon DEF Server

\* An event goes to the connection of event_writer_, behind the others.
LEMMA SteadyStream ==
    ASSUME PoolInv, SteadyInv, Stream
    PROVE  SteadyInv'
<1> USE DEF PoolInv, ClientInv
<1>0. /\ sent \in Nat /\ rcvd \in Seq(Int) /\ Len(rcvd) <= sent
      /\ wire \in [Conns -> Seq(Int)]
      /\ \A i \in 1 .. Len(rcvd) : rcvd[i] = i
      /\ \A c \in Conns : c # wconn => wire[c] = <<>>
      /\ wconn \in Conns =>
             /\ Len(wire[wconn]) = sent - Len(rcvd)
             /\ \A j \in 1 .. Len(wire[wconn]) : wire[wconn][j] = Len(rcvd) + j
  BY DEF SteadyInv, OnOneConnection
<1>1. AllOpen'
  <2>1. UNCHANGED <<chk, cloop, cretired, ctimer, sloop, sretired, alive, retires, fails>>
    BY DEF Stream, StreamWrite, StreamNoConn, StreamWritten, StreamRetry, clientVars, serverVars
  <2> QED BY <2>1 DEF SteadyInv, AllOpen
<1>2. slot' = slot
  BY DEF Stream, StreamWrite, StreamNoConn, StreamWritten, StreamRetry, clientVars
<1>3. CASE StreamWrite
  <2>1. /\ wconn' = slot[writer'] /\ wpc' = "writing" /\ UNCHANGED <<wire, sent, rcvd>>
        /\ \/ writer \in Selectable /\ writer' = writer
           \/ writer \notin Selectable /\ writer' \in Selectable
    BY <1>3 DEF StreamWrite
  <2>2. writer' \in Slots /\ slot[writer'] # Null
    BY <2>1 DEF Selectable
  <2>3. wconn' \in Conns
    BY <2>1, <2>2 DEF ClientTypes
  <2>4. WriterKept'
    BY <1>2, <2>1, <2>2, <2>3 DEF WriterKept
  <2>5. CASE writer = Null
    <3>1. wconn = Null /\ sent = 0
      BY <2>5, NullIsNone DEF SteadyInv, WriterKept
    <3>2. \A c \in Conns : wire[c] = <<>>
      BY <1>0, <3>1, NullIsNone, Zenon
    <3>3. wire'[wconn'] = <<>> /\ Len(rcvd) = 0
      BY <1>0, <2>1, <2>3, <3>1, <3>2
    <3>4. OnOneConnection'
      BY <1>0, <2>1, <3>1, <3>2, <3>3 DEF OnOneConnection
    <3> QED BY <1>1, <2>4, <3>4 DEF SteadyInv
  <2>6. CASE writer # Null
    <3>1. writer \in Slots /\ wconn \in Conns /\ slot[writer] = wconn
      BY <2>6 DEF SteadyInv, WriterKept
    <3>2. writer \in Selectable
      BY <3>1, NullIsNone DEF Selectable
    <3>3. wconn' = wconn
      BY <2>1, <3>1, <3>2
    <3>4. OnOneConnection'
      BY <1>0, <2>1, <3>3 DEF OnOneConnection
    <3> QED BY <1>1, <2>4, <3>4 DEF SteadyInv
  <2> QED BY <2>5, <2>6
<1>4. CASE StreamNoConn
  <2>1. wpc' = "closed" /\ UNCHANGED <<wire, sent, rcvd, writer, wconn>>
    BY <1>4 DEF StreamNoConn
  <2>2. WriterKept'
    BY <1>2, <2>1 DEF SteadyInv, WriterKept
  <2>3. OnOneConnection'
    BY <1>0, <2>1 DEF OnOneConnection
  <2> QED BY <1>1, <2>2, <2>3 DEF SteadyInv
<1>5. CASE StreamWritten
  <2>1. /\ wpc = "writing" /\ wire' = [wire EXCEPT ![wconn] = Append(@, sent + 1)]
        /\ sent' = sent + 1 /\ UNCHANGED <<rcvd, writer, wconn>>
    BY <1>5 DEF StreamWritten
  <2>2. writer \in Slots /\ wconn \in Conns /\ slot[writer] = wconn
    BY <2>1 DEF SteadyInv, WriterKept
  <2>3. WriterKept'
    BY <1>2, <2>1, <2>2 DEF WriterKept
  <2> DEFINE w == wire[wconn]
             x == Append(w, sent + 1)
  <2>4. w \in Seq(Int) /\ Len(w) = sent - Len(rcvd) /\ \A j \in 1 .. Len(w) : w[j] = Len(rcvd) + j
    BY <1>0, <2>2
  <2>5. PICK r \in Nat, l \in Nat : r = Len(rcvd) /\ l = Len(w) /\ l = sent - r
    BY <1>0, <2>4
  <2> HIDE DEF w
  <2>6. /\ x \in Seq(Int) /\ Len(x) = l + 1
        /\ \A j \in 1 .. l : x[j] = w[j]
        /\ x[l + 1] = sent + 1
    BY <1>0, <2>4, <2>5
  <2>7. wire' \in [Conns -> Seq(Int)] /\ wire'[wconn] = x /\ \A d \in Conns : d # wconn => wire'[d] = wire[d]
    BY <1>0, <2>1, <2>2, <2>6, Zenon DEF w
  <2> HIDE DEF x
  <2>8. \A j \in 1 .. l + 1 : x[j] = r + j
    <3> SUFFICES ASSUME NEW j \in 1 .. l + 1 PROVE x[j] = r + j
      OBVIOUS
    <3>1. CASE j = l + 1
      BY <1>0, <2>5, <2>6, <3>1
    <3>2. CASE j \in 1 .. l
      BY <2>4, <2>5, <2>6, <3>2, Zenon
    <3> QED BY <3>1, <3>2
  <2>9. l + 1 = (sent + 1) - r /\ r <= sent + 1 /\ sent + 1 \in Nat
    BY <1>0, <2>5
  <2>10. OnOneConnection'
    <3>1. \A c \in Conns : c # wconn => wire'[c] = <<>>
      BY <1>0, <2>7, Zenon
    <3>2. Len(wire'[wconn]) = l + 1
      BY <2>6, <2>7, Zenon
    <3> QED BY <1>0, <2>1, <2>5, <2>7, <2>8, <2>9, <3>1, <3>2, Zenon DEF OnOneConnection
  <2> QED BY <1>1, <2>3, <2>10 DEF SteadyInv
<1>6. CASE StreamRetry
  <2>1. wpc = "writing" /\ ~alive[wconn]
    BY <1>6, Zenon DEF StreamRetry
  <2>2. writer \in Slots /\ wconn \in Conns /\ slot[writer] = wconn
    BY <2>1 DEF SteadyInv, WriterKept
  <2>3. cloop[wconn] = "running"
    BY <2>2 DEF SlotsExact
  <2>4. alive[wconn] = TRUE
    BY <2>2, <2>3 DEF SteadyInv, AllOpen
  <2> QED BY <2>1, <2>4, Zenon
<1> QED BY <1>3, <1>4, <1>5, <1>6 DEF Stream

LEMMA SteadyInit ==
    ASSUME Init
    PROVE  SteadyInv
<1> USE DEF Init
<1>1. AllOpen BY DEF AllOpen
<1>2. WriterKept BY DEF WriterKept
<1>3. OnOneConnection BY NullIsNone DEF OnOneConnection
<1> QED BY <1>1, <1>2, <1>3 DEF SteadyInv

LEMMA SteadyStep ==
    ASSUME PoolInv, SteadyInv, MaxRetires = 0, MaxFails = 0, [Next]_vars
    PROVE  SteadyInv'
<1>1. CASE UNCHANGED vars
  <2>1. AllOpen'
    BY <1>1 DEF SteadyInv, AllOpen, vars, clientVars, serverVars
  <2> QED BY <1>1, <2>1, StreamFrame DEF vars, clientVars, streamVars
<1>2. CASE Client BY <1>2, SteadyClient
<1>3. CASE Stream BY <1>3, SteadyStream
<1>4. CASE \E c \in Conns : ClientTimeout(c) \/ ClientLoopExit(c) \/ Accept(c) \/ Server(c)
                             \/ ServerTimeout(c) \/ Break(c)
  BY <1>4, SteadyConns
<1> QED BY <1>1, <1>2, <1>3, <1>4 DEF Next, Exited

\* As long as CheckConnections retires no connection and none breaks, the events
\* that WriteEvent sends for a stream are handled by the server in order: the
\* retirement that MuxPool_reorder needs to violate StreamInOrder is necessary.
THEOREM PoolInOrder == MaxRetires = 0 /\ MaxFails = 0 /\ Spec => []StreamInOrder
<1> SUFFICES ASSUME MaxRetires = 0, MaxFails = 0 PROVE Spec => []StreamInOrder
  OBVIOUS
<1>1. Init => SteadyInv BY SteadyInit
<1>2. PoolInv /\ SteadyInv /\ [Next]_vars => SteadyInv' BY SteadyStep
<1>3. SteadyInv => StreamInOrder BY DEF SteadyInv, OnOneConnection, StreamInOrder
<1> QED BY <1>1, <1>2, <1>3, PoolInvariant, PTL DEF Spec
=============================================================================
