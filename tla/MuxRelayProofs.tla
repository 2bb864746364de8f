--------------------------- MODULE MuxRelayProofs ---------------------------
(***************************************************************************)
(* Proofs about MuxRelay, for any number of chunks in each direction, any  *)
(* capacity of the connection and any set of faults.                       *)
(***************************************************************************)
EXTENDS MuxRelay, SequenceTheorems, TLAPS

EventOf == [type : {"open", "chunk", "close"}, chunk : Nat]

MainStates == {"none", "open", "first", "connect", "run", "close", "done"}
UpStates == {"off", "read", "write", "close", "done"}
DownStates == {"off", "recv", "write", "err", "close", "done"}

\* Types of the coroutines, of the flags and of the chunks.
StateTypes ==
    /\ main \in [Ends -> MainStates]
    /\ up \in [Ends -> UpStates]
    /\ down \in [Ends -> DownStates]
    /\ loop \in [Ends -> {"read", "offer", "reply"}]
    /\ timer \in [Ends -> {"off", "armed", "fired"}]
    /\ app \in [Ends -> {"open", "eof", "reset"}]
    /\ faults \in {{}, Faults}

FlagTypes ==
    /\ tclose \in [Ends -> BOOLEAN]
    /\ registered \in [Ends -> BOOLEAN]
    /\ closed \in [Ends -> BOOLEAN]
    /\ unmatched \in [Ends -> BOOLEAN]
    /\ sock \in [Ends -> BOOLEAN]
    /\ conn \in BOOLEAN

ChunkTypes ==
    /\ buf \in [Ends -> Nat]
    /\ pend \in [Ends -> Nat]
    /\ upchunk \in [Ends -> Nat]
    /\ downchunk \in [Ends -> Nat]
    /\ supplied \in [Ends -> Nat]
    /\ rcvd \in [Ends -> Seq(Nat)]
    /\ wire \in [Ends -> Seq(EventOf)]

TypeOK == StateTypes /\ FlagTypes /\ ChunkTypes

(***************************************************************************)
(* Where the coroutines of an end can be.                                  *)
(***************************************************************************)

\* The transfers run while the relay waits for them, and each of them, like
\* everything that writes a STREAM_CLOSE, has closed the stream first.
Coroutines(e) ==
    /\ main[e] \in {"none", "open", "first", "connect"} => up[e] = "off" /\ down[e] = "off"
    /\ main[e] \in {"none", "connect"} => ~sock[e]
    /\ main[e] \in {"close", "done"} => /\ up[e] \in {"off", "done"} /\ down[e] \in {"off", "done"}
                                        /\ closed[e] /\ ~sock[e] /\ timer[e] = "off"
    /\ up[e] \in {"close", "done"} => closed[e]
    /\ down[e] \in {"err", "close", "done"} => closed[e]
    /\ tclose[e] => closed[e]
    /\ loop[e] = "reply" => closed[e]

\* What the stream buffers: a closed stream nothing, a Read waits only when it
\* is empty, and an Offer blocks only when it is full.
Buffers(e) ==
    /\ closed[e] => buf[e] = 0 /\ pend[e] = 0 /\ down[e] # "recv"
    /\ down[e] = "recv" => buf[e] = 0
    /\ pend[e] # 0 <=> loop[e] = "offer"
    /\ pend[e] # 0 => buf[e] # 0
    /\ downchunk[e] # 0 <=> down[e] = "write"
    /\ upchunk[e] # 0 <=> up[e] = "write" \/ main[e] = "first"
    /\ upchunk[e] # 0 => upchunk[e] = supplied[e]
    /\ main[e] = "first" => supplied[e] = 1

(***************************************************************************)
(* Where the STREAM_OPEN is.                                               *)
(***************************************************************************)

\* Before the entry has written it nothing has happened.
NotOpened ==
    main["entry"] = "open" =>
        /\ main["exit"] = "none" /\ wire["entry"] = <<>>
        /\ ~closed["entry"] /\ loop["entry"] = "read" /\ supplied["entry"] = 0
        /\ buf["entry"] = 0

\* Until the exit has read it the exit has no stream, and it is the first
\* event of the connection.
NotAccepted ==
    main["exit"] = "none" =>
        /\ ~closed["exit"] /\ ~registered["exit"] /\ loop["exit"] = "read" /\ buf["exit"] = 0
        /\ timer["exit"] = "off" /\ wire["exit"] = <<>>
        /\ supplied["exit"] = 0
        /\ conn /\ main["entry"] # "open" =>
               wire["entry"] # <<>> /\ wire["entry"][1].type = "open"

\* There is one, and it goes from the entry to the exit.
OneOpen ==
    /\ main["entry"] \notin {"none", "connect"} /\ main["exit"] \notin {"open", "first"}
    /\ \A i \in 1 .. Len(wire["exit"]) : wire["exit"][i].type # "open"
    /\ \A i \in 1 .. Len(wire["entry"]) :
           wire["entry"][i].type = "open" => i = 1 /\ main["exit"] = "none"
    /\ ~conn => \A e \in Ends : wire[e] = <<>>

(***************************************************************************)
(* Where the chunks are.                                                   *)
(***************************************************************************)
One(x) == IF x = 0 THEN 0 ELSE 1

\* Chunks that the read loop of e has taken, while its stream is not closed;
\* chunks that its transfer has written to the connection, while that is up.
Taken(e) == Len(rcvd[e]) + One(downchunk[e]) + One(buf[e]) + One(pend[e])
Handed(e) == supplied[e] - One(upchunk[e])

\* The chunks on a direction of the connection are those after t up to h, in
\* order, whatever other events are between them.
Carries(w, t, h) ==
    /\ \A i \in 1 .. Len(w) : w[i].type = "chunk" => t < w[i].chunk /\ w[i].chunk <= h
    /\ \A i, j \in 1 .. Len(w) :
           i < j /\ w[i].type = "chunk" /\ w[j].type = "chunk" => w[i].chunk < w[j].chunk
    /\ \A k \in (t + 1) .. h : \E i \in 1 .. Len(w) : w[i].type = "chunk" /\ w[i].chunk = k

\* The chunks of one direction, from the application's socket backwards.
Delivered(e) ==
    /\ \A i \in 1 .. Len(rcvd[e]) : rcvd[e][i] = i
    /\ downchunk[e] # 0 => downchunk[e] = Len(rcvd[e]) + 1
    /\ buf[e] # 0 => buf[e] = Len(rcvd[e]) + One(downchunk[e]) + 1
    /\ pend[e] # 0 => pend[e] = buf[e] + 1
    /\ Taken(e) <= Handed(Peer(e))

InFlight(e) == conn /\ ~closed[e] => Carries(wire[Peer(e)], Taken(e), Handed(Peer(e)))

\* The part of TableExact about g_streams.
Registered(e) ==
    registered[e] <=> main[e] \in {"open", "first", "connect", "run"} /\ ~closed[e]

End(e) == Coroutines(e) /\ Buffers(e) /\ Registered(e)
ControlInv == /\ TypeOK
              /\ \A e \in Ends : End(e)
              /\ NotOpened /\ NotAccepted /\ OneOpen
FlowInv == \A e \in Ends : Delivered(e) /\ InFlight(e)
RelayInv == ControlInv /\ FlowInv

(***************************************************************************)
(* What is lost when nothing fails.                                        *)
(***************************************************************************)

\* Without faults no application is reset and the socket of a running relay is
\* closed only by its transfer to it, at the end.
FaultFree(e) ==
    faults = {} => /\ app[e] # "reset" /\ ~tclose[e]
                   /\ main[e] \in {"open", "first", "run"} /\ ~sock[e] => down[e] = "done"

\* If the application of e has not closed, its end never starts to close the
\* stream: it follows the other end, which has then sent all it had.
Follows(e) ==
    LET p == Peer(e) IN
    faults = {} /\ app[e] = "open" =>
        /\ conn
        /\ main[e] # "close" /\ up[e] # "close" /\ down[e] # "close" /\ loop[e] # "reply"
        /\ \A i \in 1 .. Len(wire[e]) : wire[e][i].type # "close"
        /\ closed[e] => closed[p]
        /\ closed[p] => supplied[p] = Chunks[p] /\ upchunk[p] = 0 /\ main[p] # "open"
        /\ \A i \in 1 .. Len(wire[p]) : wire[p][i].type = "close" =>
               closed[p] /\ \A j \in i .. Len(wire[p]) : wire[p][j].type # "chunk"
        /\ closed[e] => \A i \in 1 .. Len(wire[p]) : wire[p][i].type # "chunk"
        /\ closed[e] => Len(rcvd[e]) + One(downchunk[e]) + 1 >= supplied[p]

LossInv == \A e \in Ends : FaultFree(e) /\ Follows(e)

Inv == RelayInv /\ LossInv

-----------------------------------------------------------------------------
(***************************************************************************)
(* Chunks on one direction of the connection.                              *)
(***************************************************************************)

\* An event that is not a STREAM_CHUNK is written behind the chunks.
LEMMA CarriesOther ==
    ASSUME NEW w \in Seq(EventOf), NEW t \in Nat, NEW h \in Nat, Carries(w, t, h),
           NEW ev \in EventOf, ev.type # "chunk"
    PROVE  Carries(Append(w, ev), t, h)
<1>1. /\ Len(w) \in Nat /\ Len(Append(w, ev)) = Len(w) + 1
      /\ \A i \in 1 .. Len(w) : Append(w, ev)[i] = w[i]
      /\ Append(w, ev)[Len(w) + 1] = ev
  OBVIOUS
<1> DEFINE v == Append(w, ev)
<1> HIDE DEF v
<1>2. \A i \in 1 .. Len(v) : v[i].type = "chunk" => i \in 1 .. Len(w) /\ v[i] = w[i]
  BY <1>1 DEF v
<1>3. \A i \in 1 .. Len(w) : i \in 1 .. Len(v) /\ v[i] = w[i]
  BY <1>1 DEF v
<1>4. Carries(v, t, h)
  <2>1. ASSUME NEW k \in (t + 1) .. h
        PROVE  \E i \in 1 .. Len(v) : v[i].type = "chunk" /\ v[i].chunk = k
    <3>1. PICK i \in 1 .. Len(w) : w[i].type = "chunk" /\ w[i].chunk = k BY DEF Carries
    <3> QED BY <3>1, <1>3
  <2>2. \A i \in 1 .. Len(v) : v[i].type = "chunk" => t < v[i].chunk /\ v[i].chunk <= h
    BY <1>2 DEF Carries
  <2>3. \A i, j \in 1 .. Len(v) :
            i < j /\ v[i].type = "chunk" /\ v[j].type = "chunk" => v[i].chunk < v[j].chunk
    BY <1>2 DEF Carries
  <2> QED BY <2>1, <2>2, <2>3 DEF Carries
<1> QED BY <1>4 DEF v

\* The next chunk is written behind the others.
LEMMA CarriesChunk ==
    ASSUME NEW w \in Seq(EventOf), NEW t \in Nat, NEW h \in Nat, t <= h, Carries(w, t, h)
    PROVE  Carries(Append(w, Chunk(h + 1)), t, h + 1)
<1> DEFINE v == Append(w, Chunk(h + 1))
<1>1. /\ Len(w) \in Nat /\ Len(v) = Len(w) + 1
      /\ \A i \in 1 .. Len(w) : v[i] = w[i]
      /\ v[Len(w) + 1].type = "chunk" /\ v[Len(w) + 1].chunk = h + 1
      /\ \A i \in 1 .. Len(w) : w[i].chunk \in Nat
  <2>1. /\ Chunk(h + 1) \in EventOf /\ Chunk(h + 1).type = "chunk"
        /\ Chunk(h + 1).chunk = h + 1
    BY DEF Chunk, EventOf
  <2>2. /\ Len(w) \in Nat /\ Len(v) = Len(w) + 1
        /\ \A i \in 1 .. Len(w) : v[i] = w[i] /\ w[i] \in EventOf
        /\ v[Len(w) + 1] = Chunk(h + 1)
    BY <2>1
  <2> QED BY <2>1, <2>2 DEF EventOf
<1> HIDE DEF v
<1>2. ASSUME NEW i \in 1 .. Len(v), v[i].type = "chunk"
      PROVE  t < v[i].chunk /\ v[i].chunk <= h + 1
  BY <1>1, <1>2 DEF Carries
<1>3. ASSUME NEW i \in 1 .. Len(v), NEW j \in 1 .. Len(v), i < j,
             v[i].type = "chunk", v[j].type = "chunk"
      PROVE  v[i].chunk < v[j].chunk
  <2>1. i \in 1 .. Len(w) /\ v[i] = w[i] /\ w[i].chunk <= h
    BY <1>1, <1>3 DEF Carries
  <2>2. CASE j = Len(w) + 1 BY <1>1, <2>1, <2>2
  <2>3. CASE j \in 1 .. Len(w) BY <1>1, <1>3, <2>1, <2>3 DEF Carries
  <2> QED BY <1>1, <2>2, <2>3
<1>4. ASSUME NEW k \in (t + 1) .. (h + 1)
      PROVE  \E i \in 1 .. Len(v) : v[i].type = "chunk" /\ v[i].chunk = k
  <2>1. CASE k = h + 1 BY <1>1, <2>1
  <2>2. CASE k # h + 1
    <3>1. PICK i \in 1 .. Len(w) : w[i].type = "chunk" /\ w[i].chunk = k
      BY <2>2 DEF Carries
    <3> QED BY <1>1, <3>1
  <2> QED BY <2>1, <2>2
<1>5. Carries(v, t, h + 1)
  BY <1>2, <1>3, <1>4 DEF Carries
<1> QED BY <1>5 DEF v

\* The events behind the first one.
LEMMA TailOfWire ==
    ASSUME NEW w \in Seq(EventOf), w # <<>>
    PROVE  /\ Len(w) \in Nat /\ Len(w) >= 1 /\ Head(w) = w[1] /\ w[1] \in EventOf
           /\ Tail(w) \in Seq(EventOf) /\ Len(Tail(w)) = Len(w) - 1
           /\ \A i \in 1 .. Len(Tail(w)) : i + 1 \in 1 .. Len(w) /\ Tail(w)[i] = w[i + 1]
           /\ \A i \in 2 .. Len(w) : i - 1 \in 1 .. Len(Tail(w)) /\ w[i] = Tail(w)[i - 1]
<1>1. Len(w) \in Nat /\ Len(w) >= 1 /\ Head(w) = w[1] /\ w[1] \in EventOf
  BY EmptySeq, HeadTailProperties
<1>2. /\ Tail(w) \in Seq(EventOf) /\ Len(Tail(w)) = Len(w) - 1
      /\ \A i \in 1 .. Len(Tail(w)) : Tail(w)[i] = w[i + 1]
  BY <1>1
<1>3. ASSUME NEW i \in 2 .. Len(w)
      PROVE  i - 1 \in 1 .. Len(Tail(w)) /\ w[i] = Tail(w)[i - 1]
  <2>1. i - 1 \in 1 .. Len(Tail(w)) BY <1>1, <1>2
  <2>2. Tail(w)[i - 1] = w[(i - 1) + 1] BY <1>2, <2>1
  <2>3. (i - 1) + 1 = i OBVIOUS
  <2> QED BY <2>1, <2>2, <2>3
<1> QED BY <1>1, <1>2, <1>3

\* An event that is not a STREAM_CHUNK is read.
LEMMA CarriesTailOther ==
    ASSUME NEW w \in Seq(EventOf), NEW t \in Nat, NEW h \in Nat, Carries(w, t, h),
           w # <<>>, w[1].type # "chunk"
    PROVE  Carries(Tail(w), t, h)
<1> DEFINE v == Tail(w)
<1>1. /\ Len(w) \in Nat /\ Len(v) = Len(w) - 1 /\ Len(w) >= 1
      /\ \A i \in 1 .. Len(v) : i + 1 \in 1 .. Len(w) /\ v[i] = w[i + 1]
      /\ \A i \in 2 .. Len(w) : i - 1 \in 1 .. Len(v) /\ w[i] = v[i - 1]
  BY TailOfWire
<1> HIDE DEF v
<1>2. \A i \in 1 .. Len(v) : v[i].type = "chunk" => t < v[i].chunk /\ v[i].chunk <= h
  BY <1>1 DEF Carries
<1>3. ASSUME NEW i \in 1 .. Len(v), NEW j \in 1 .. Len(v), i < j,
             v[i].type = "chunk", v[j].type = "chunk"
      PROVE  v[i].chunk < v[j].chunk
  <2>1. i + 1 \in 1 .. Len(w) /\ j + 1 \in 1 .. Len(w) /\ i + 1 < j + 1 BY <1>1, <1>3
  <2>2. v[i] = w[i + 1] /\ v[j] = w[j + 1] BY <1>1
  <2>3. w[i + 1].chunk < w[j + 1].chunk BY <1>3, <2>1, <2>2 DEF Carries
  <2> QED BY <2>2, <2>3
<1>4. ASSUME NEW k \in (t + 1) .. h
      PROVE  \E i \in 1 .. Len(v) : v[i].type = "chunk" /\ v[i].chunk = k
  <2>1. PICK i \in 1 .. Len(w) : w[i].type = "chunk" /\ w[i].chunk = k BY DEF Carries
  <2>2. i \in 2 .. Len(w) BY <2>1
  <2> QED BY <1>1, <2>1, <2>2
<1>5. Carries(v, t, h) BY <1>2, <1>3, <1>4 DEF Carries
<1> QED BY <1>5 DEF v

\* A STREAM_CHUNK is read: it is the next one.
LEMMA CarriesTailChunk ==
    ASSUME NEW w \in Seq(EventOf), NEW t \in Nat, NEW h \in Nat, Carries(w, t, h),
           w # <<>>, w[1].type = "chunk"
    PROVE  w[1].chunk = t + 1 /\ t + 1 <= h /\ Carries(Tail(w), t + 1, h)
<1> DEFINE v == Tail(w)
<1>1. /\ Len(w) \in Nat /\ Len(v) = Len(w) - 1 /\ Len(w) >= 1 /\ w[1].chunk \in Nat
      /\ \A i \in 1 .. Len(v) : i + 1 \in 1 .. Len(w) /\ v[i] = w[i + 1]
      /\ \A i \in 2 .. Len(w) : i - 1 \in 1 .. Len(v) /\ w[i] = v[i - 1]
      /\ \A i \in 1 .. Len(w) : w[i].chunk \in Nat
  <2>1. \A i \in 1 .. Len(w) : w[i] \in EventOf OBVIOUS
  <2>2. \A i \in 1 .. Len(w) : w[i].chunk \in Nat BY <2>1 DEF EventOf
  <2> QED BY <2>1, <2>2, TailOfWire
<1> HIDE DEF v
<1>2. w[1].chunk = t + 1 /\ t + 1 <= h
  <2>1. t < w[1].chunk /\ w[1].chunk <= h BY <1>1 DEF Carries
  <2>2. PICK i \in 1 .. Len(w) : w[i].type = "chunk" /\ w[i].chunk = t + 1
    BY <1>1, <2>1 DEF Carries
  <2>3. i > 1 => w[1].chunk < w[i].chunk BY <1>1, <2>2 DEF Carries
  <2> QED BY <1>1, <2>1, <2>2, <2>3
<1>3. ASSUME NEW i \in 1 .. Len(v), v[i].type = "chunk"
      PROVE  t + 1 < v[i].chunk /\ v[i].chunk <= h
  <2>1. i + 1 \in 1 .. Len(w) /\ 1 < i + 1 /\ 1 \in 1 .. Len(w) BY <1>1, <1>3
  <2> QED BY <1>1, <1>2, <1>3, <2>1 DEF Carries
<1>4. ASSUME NEW i \in 1 .. Len(v), NEW j \in 1 .. Len(v), i < j,
             v[i].type = "chunk", v[j].type = "chunk"
      PROVE  v[i].chunk < v[j].chunk
  <2>1. i + 1 \in 1 .. Len(w) /\ j + 1 \in 1 .. Len(w) /\ i + 1 < j + 1 BY <1>1, <1>4
  <2>2. v[i] = w[i + 1] /\ v[j] = w[j + 1] BY <1>1
  <2>3. w[i + 1].type = "chunk" /\ w[j + 1].type = "chunk" BY <1>4, <2>2
  <2>4. w[i + 1].chunk < w[j + 1].chunk BY <2>1, <2>3 DEF Carries
  <2> QED BY <2>2, <2>4
<1>5. ASSUME NEW k \in (t + 1 + 1) .. h
      PROVE  \E i \in 1 .. Len(v) : v[i].type = "chunk" /\ v[i].chunk = k
  <2>1. PICK i \in 1 .. Len(w) : w[i].type = "chunk" /\ w[i].chunk = k BY <1>2 DEF Carries
  <2>2. i \in 2 .. Len(w) BY <1>2, <2>1
  <2> QED BY <1>1, <2>1, <2>2
<1>6. Carries(v, t + 1, h) BY <1>3, <1>4, <1>5 DEF Carries
<1> QED BY <1>2, <1>6 DEF v

-----------------------------------------------------------------------------
(***************************************************************************)
(* What the operations of an end do to it.                                 *)
(***************************************************************************)

\* The three events of a stream: STREAM_OPEN, STREAM_CHUNK, STREAM_CLOSE.
LEMMA EventsTyped ==
    /\ Open \in EventOf /\ Open.type = "open"
    /\ CloseEv \in EventOf /\ CloseEv.type = "close"
    /\ \A c \in Nat : Chunk(c) \in EventOf /\ Chunk(c).type = "chunk" /\ Chunk(c).chunk = c
BY DEF Open, CloseEv, Chunk, EventOf

\* The entry and the exit are each other's peer.
LEMMA TwoEnds ==
    /\ "entry" \in Ends /\ "exit" \in Ends /\ Peer("entry") = "exit" /\ Peer("exit") = "entry"
    /\ \A e \in Ends : Peer(e) \in Ends /\ Peer(e) # e /\ Peer(Peer(e)) = e
    /\ \A e, y \in Ends : y # e => y = Peer(e)
BY DEF Ends, Peer

\* The stream of end e is closed, whatever closed it; dn is the state its
\* transfer to the socket was in.
ClosedBy(e, dn) ==
    /\ registered' \in [Ends -> BOOLEAN] /\ closed' \in [Ends -> BOOLEAN]
    /\ unmatched' \in [Ends -> BOOLEAN]
    /\ buf' \in [Ends -> Nat] /\ pend' \in [Ends -> Nat]
    /\ loop' \in [Ends -> {"read", "offer", "reply"}] /\ down' \in [Ends -> DownStates]
    /\ ~registered'[e] /\ closed'[e] /\ buf'[e] = 0 /\ pend'[e] = 0
    /\ loop'[e] = IF loop[e] = "offer" THEN "read" ELSE loop[e]
    /\ down'[e] = IF dn = "recv" THEN "err" ELSE dn
    /\ \A y \in Ends : y # e =>
           /\ registered'[y] = registered[y] /\ closed'[y] = closed[y] /\ buf'[y] = buf[y]
           /\ pend'[y] = pend[y] /\ loop'[y] = loop[y] /\ down'[y] = down[y]

\* MuxStream::Close.
LEMMA CloseStreamCloses ==
    ASSUME TypeOK, NEW e \in Ends, NEW dn \in DownStates, CloseStream(e, dn)
    PROVE  ClosedBy(e, dn)
<1>1. /\ registered' \in [Ends -> BOOLEAN] /\ closed' \in [Ends -> BOOLEAN]
      /\ unmatched' \in [Ends -> BOOLEAN]
  BY Zenon DEF CloseStream, TypeOK, FlagTypes
<1>2. /\ ~registered'[e] /\ closed'[e]
      /\ \A y \in Ends : y # e => registered'[y] = registered[y] /\ closed'[y] = closed[y]
  BY DEF CloseStream, TypeOK, FlagTypes
<1>3. /\ buf' \in [Ends -> Nat] /\ pend' \in [Ends -> Nat] /\ buf'[e] = 0 /\ pend'[e] = 0
      /\ \A y \in Ends : y # e => buf'[y] = buf[y] /\ pend'[y] = pend[y]
  BY DEF CloseStream, TypeOK, ChunkTypes
<1>4. /\ loop' \in [Ends -> {"read", "offer", "reply"}] /\ down' \in [Ends -> DownStates]
      /\ loop'[e] = IF loop[e] = "offer" THEN "read" ELSE loop[e]
      /\ down'[e] = IF dn = "recv" THEN "err" ELSE dn
      /\ \A y \in Ends : y # e => loop'[y] = loop[y] /\ down'[y] = down[y]
  BY DEF CloseStream, TypeOK, StateTypes, DownStates
<1> QED BY <1>1, <1>2, <1>3, <1>4 DEF ClosedBy

\* A stream that is closed already stays as it is.
LEMMA ClosedStays ==
    ASSUME TypeOK, NEW e \in Ends, NEW dn \in DownStates, Buffers(e), Registered(e), closed[e],
           dn # "recv", UNCHANGED <<registered, closed, buf, pend, unmatched, loop>>,
           down' = [down EXCEPT ![e] = dn]
    PROVE  ClosedBy(e, dn)
BY DEF ClosedBy, TypeOK, FlagTypes, ChunkTypes, StateTypes, Buffers, Registered

\* WriteEvent closes the stream it could not write to.
LEMMA FailureCloses ==
    ASSUME TypeOK, NEW e \in Ends, NEW dn \in DownStates, Buffers(e), Registered(e),
           closed[e] => dn # "recv", CloseAfterFailure(e, dn)
    PROVE  ClosedBy(e, dn)
<1>1. CASE closed[e]
  BY <1>1, ClosedStays DEF CloseAfterFailure, streamVars
<1>2. CASE ~closed[e]
  BY <1>2, CloseStreamCloses DEF CloseAfterFailure
<1> QED BY <1>1, <1>2

\* Close called on a stream that may be closed.
LEMMA MaybeCloses ==
    ASSUME TypeOK, NEW e \in Ends, Buffers(e), Registered(e),
           IF closed[e] THEN UNCHANGED <<streamVars, loop, down>> ELSE CloseStream(e, down[e])
    PROVE  ClosedBy(e, down[e])
<1>0. down[e] \in DownStates /\ down = [down EXCEPT ![e] = down[e]]
  BY DEF TypeOK, StateTypes
<1>1. CASE closed[e]
  <2>1. down[e] # "recv" BY <1>1 DEF Buffers
  <2> QED BY <1>0, <1>1, <2>1, ClosedStays DEF streamVars
<1>2. CASE ~closed[e]
  BY <1>0, <1>2, CloseStreamCloses
<1> QED BY <1>1, <1>2

\* An event is written to the connection.
Wrote(e, ev) ==
    /\ conn /\ wire' \in [Ends -> Seq(EventOf)]
    /\ wire'[e] = Append(wire[e], ev) /\ wire'[Peer(e)] = wire[Peer(e)]

\* MuxConnection::Write puts one event behind those on the connection.
LEMMA SentWrites ==
    ASSUME TypeOK, NEW e \in Ends, NEW ev \in EventOf, Sent(e, ev)
    PROVE  Wrote(e, ev)
<1>1. Append(wire[e], ev) \in Seq(EventOf) BY DEF TypeOK, ChunkTypes
<1> QED BY <1>1, TwoEnds DEF Sent, Wrote, TypeOK, ChunkTypes

\* The read loop takes the first event of the peer.
Took(e, type) ==
    LET p == Peer(e) IN
    /\ conn /\ loop[e] = "read" /\ wire' \in [Ends -> Seq(EventOf)]
    /\ wire[p] # <<>> /\ wire[p] \in Seq(EventOf) /\ wire[p][1] \in EventOf
    /\ Head(wire[p]) = wire[p][1] /\ wire[p][1].type = type
    /\ wire'[p] = Tail(wire[p]) /\ wire'[e] = wire[e]

\* ProcessReadEvent takes the first event of the peer.
LEMMA ReceiveTakes ==
    ASSUME TypeOK, NEW e \in Ends, NEW type, Receive(e, type)
    PROVE  Took(e, type)
<1>1. Peer(e) \in Ends /\ Peer(e) # e /\ wire[Peer(e)] \in Seq(EventOf) /\ wire[Peer(e)] # <<>>
  BY TwoEnds DEF Receive, TypeOK, ChunkTypes
<1>2. /\ Tail(wire[Peer(e)]) \in Seq(EventOf) /\ Head(wire[Peer(e)]) = wire[Peer(e)][1]
      /\ wire[Peer(e)][1] \in EventOf
  BY <1>1, TailOfWire
<1> QED BY <1>1, <1>2 DEF Receive, Took, TypeOK, ChunkTypes

\* Nothing happens at an end.
Same(y) ==
    /\ main'[y] = main[y] /\ up'[y] = up[y] /\ down'[y] = down[y] /\ loop'[y] = loop[y]
    /\ tclose'[y] = tclose[y] /\ timer'[y] = timer[y] /\ registered'[y] = registered[y]
    /\ closed'[y] = closed[y] /\ buf'[y] = buf[y] /\ pend'[y] = pend[y]
    /\ upchunk'[y] = upchunk[y] /\ downchunk'[y] = downchunk[y] /\ sock'[y] = sock[y]
    /\ supplied'[y] = supplied[y] /\ rcvd'[y] = rcvd[y]

\* A step that leaves an end alone keeps what is known of it.
LEMMA SameEnd ==
    ASSUME NEW y \in Ends, End(y), Same(y)
    PROVE  End(y)'
BY DEF End, Coroutines, Buffers, Registered, Same

\* Only an end that has a stream reads a chunk or a STREAM_CLOSE.
LEMMA TookByStream ==
    ASSUME ControlInv, NEW e \in Ends, NEW type, Took(e, type), type # "open"
    PROVE  main[e] \notin {"none", "open"}
<1>1. CASE e = "entry"
  BY <1>1, TwoEnds DEF ControlInv, Took, NotOpened, NotAccepted, OneOpen
<1>2. CASE e = "exit"
  BY <1>2, TwoEnds DEF ControlInv, Took, NotOpened, NotAccepted, OneOpen
<1> QED BY <1>1, <1>2 DEF Ends

\* Only an end that has a stream closes it.
LEMMA ClosedHasStream ==
    ASSUME ControlInv, NEW e \in Ends, closed[e]
    PROVE  main[e] \notin {"none", "open"}
<1>1. CASE e = "entry" BY <1>1 DEF ControlInv, NotOpened, OneOpen
<1>2. CASE e = "exit" BY <1>2 DEF ControlInv, NotAccepted, OneOpen
<1> QED BY <1>1, <1>2 DEF Ends

\* What an end does with the connection when it has a stream.
WireStep(e) ==
    /\ conn' = conn
    /\ \/ wire' = wire
       \/ \E ev \in EventOf : ev.type # "open" /\ Wrote(e, ev)
       \/ \E type \in {"chunk", "close"} : Took(e, type)

\* The first and last elements of a direction something is written to.
LEMMA AppendToWire ==
    ASSUME NEW w \in Seq(EventOf), NEW ev \in EventOf
    PROVE  /\ Append(w, ev) \in Seq(EventOf) /\ Append(w, ev) # <<>>
           /\ Len(w) \in Nat /\ Len(Append(w, ev)) = Len(w) + 1
           /\ \A i \in 1 .. Len(w) : Append(w, ev)[i] = w[i]
           /\ Append(w, ev)[Len(w) + 1] = ev
           /\ w # <<>> => Append(w, ev)[1] = w[1]
<1>1. Len(w) \in Nat OBVIOUS
<1>2. /\ Append(w, ev) \in Seq(EventOf) /\ Append(w, ev) # <<>>
      /\ Len(Append(w, ev)) = Len(w) + 1
      /\ \A i \in 1 .. Len(w) : Append(w, ev)[i] = w[i]
      /\ Append(w, ev)[Len(w) + 1] = ev
  OBVIOUS
<1>3. w # <<>> => 1 \in 1 .. Len(w) OBVIOUS
<1> QED BY <1>1, <1>2, <1>3

\* Once the stream is open at an end, what that end does leaves the place of
\* the STREAM_OPEN alone.
LEMMA OpenKept ==
    ASSUME ControlInv, TypeOK', NEW e \in Ends, Same(Peer(e)), WireStep(e),
           main[e] \notin {"none", "open"}, main'[e] \in {main[e], "run", "close", "done"}
    PROVE  NotOpened' /\ NotAccepted' /\ OneOpen'
<1> DEFINE p == Peer(e)
<1>0. /\ p \in Ends /\ p # e /\ wire[e] \in Seq(EventOf) /\ wire[p] \in Seq(EventOf)
      /\ \/ e = "entry" /\ p = "exit"
         \/ e = "exit" /\ p = "entry"
  <2>1. p \in Ends /\ p # e BY TwoEnds
  <2>2. wire[e] \in Seq(EventOf) /\ wire[p] \in Seq(EventOf)
    BY <2>1 DEF ControlInv, TypeOK, ChunkTypes
  <2> QED BY <2>1, <2>2 DEF Ends
<1>1. NotOpened'
  BY <1>0 DEF ControlInv, NotOpened, Same
<1>2. ASSUME main'["exit"] = "none" PROVE NotAccepted'
  <2>1. e = "entry" /\ p = "exit" /\ main["exit"] = "none" /\ main["entry"] # "open"
        /\ wire["exit"] = <<>>
    BY <1>0, <1>2 DEF Same, ControlInv, NotAccepted
  <2>2. wire'["exit"] = <<>>
    BY <2>1 DEF WireStep, Wrote, Took
  <2>3. conn' => wire'["entry"] # <<>> /\ wire'["entry"][1].type = "open"
    <3> SUFFICES ASSUME conn' PROVE wire'["entry"] # <<>> /\ wire'["entry"][1].type = "open"
      OBVIOUS
    <3>1. wire["entry"] # <<>> /\ wire["entry"][1].type = "open"
      BY <2>1 DEF ControlInv, NotAccepted, WireStep
    <3>2. CASE wire' = wire BY <3>1, <3>2
    <3>3. ASSUME NEW ev \in EventOf, Wrote(e, ev)
          PROVE  wire'["entry"] # <<>> /\ wire'["entry"][1].type = "open"
      <4>1. /\ Len(wire'["entry"]) = Len(wire["entry"]) + 1 /\ Len(wire["entry"]) \in Nat
            /\ \A i \in 1 .. Len(wire["entry"]) : wire'["entry"][i] = wire["entry"][i]
        BY <1>0, <2>1, <3>3, AppendToWire DEF Wrote
      <4>2. Len(wire["entry"]) >= 1 BY <1>0, <2>1, <3>1
      <4>3. wire'["entry"][1] = wire["entry"][1] BY <4>1, <4>2
      <4>4. wire'["entry"] # <<>> BY <4>1
      <4> QED BY <3>1, <4>3, <4>4
    <3>4. ASSUME NEW type, Took(e, type) PROVE FALSE
      BY <2>1, <3>4 DEF Took
    <3> QED BY <3>2, <3>3, <3>4 DEF WireStep
  <2> QED BY <2>1, <2>2, <2>3 DEF NotAccepted, ControlInv, Same
<1>3. OneOpen'
  <2>1. main'["entry"] \notin {"none", "connect"} /\ main'["exit"] \notin {"open", "first"}
    BY <1>0 DEF ControlInv, OneOpen, Same
  <2>2. CASE wire' = wire
    <3>1. main'["exit"] = "none" <=> main["exit"] = "none" BY <1>0 DEF Same
    <3> QED BY <2>1, <2>2, <3>1 DEF ControlInv, OneOpen, WireStep
  <2>3. ASSUME NEW ev \in EventOf, ev.type # "open", Wrote(e, ev) PROVE OneOpen'
    <3>1. main'["exit"] = "none" <=> main["exit"] = "none" BY <1>0 DEF Same
    <3>2. /\ Len(wire'[e]) = Len(wire[e]) + 1 /\ Len(wire[e]) \in Nat /\ wire'[p] = wire[p]
          /\ \A i \in 1 .. Len(wire[e]) : wire'[e][i] = wire[e][i]
          /\ wire'[e][Len(wire[e]) + 1] = ev
      BY <1>0, <2>3, AppendToWire DEF Wrote
    <3>3. \A i \in 1 .. Len(wire'[e]) : wire'[e][i].type = "open" =>
              i \in 1 .. Len(wire[e]) /\ wire'[e][i] = wire[e][i]
      BY <2>3, <3>2
    <3>4. conn' BY <2>3 DEF Wrote, WireStep
    <3>5. CASE e = "entry"
      <4>1. p = "exit" BY <1>0, <3>5
      <4>2. \A i \in 1 .. Len(wire'["exit"]) : wire'["exit"][i].type # "open"
        BY <3>2, <4>1 DEF ControlInv, OneOpen
      <4>3. \A i \in 1 .. Len(wire'["entry"]) :
                wire'["entry"][i].type = "open" => i = 1 /\ main'["exit"] = "none"
        BY <3>1, <3>3, <3>5 DEF ControlInv, OneOpen
      <4> QED BY <2>1, <3>4, <4>2, <4>3 DEF OneOpen
    <3>6. CASE e = "exit"
      <4>1. p = "entry" BY <1>0, <3>6
      <4>2. \A i \in 1 .. Len(wire'["exit"]) : wire'["exit"][i].type # "open"
        BY <3>3, <3>6 DEF ControlInv, OneOpen
      <4>3. \A i \in 1 .. Len(wire'["entry"]) :
                wire'["entry"][i].type = "open" => i = 1 /\ main'["exit"] = "none"
        BY <3>1, <3>2, <4>1 DEF ControlInv, OneOpen
      <4> QED BY <2>1, <3>4, <4>2, <4>3 DEF OneOpen
    <3> QED BY <3>5, <3>6 DEF Ends
  <2>4. ASSUME NEW type \in {"chunk", "close"}, Took(e, type) PROVE OneOpen'
    <3>1. main'["exit"] = "none" <=> main["exit"] = "none" BY <1>0 DEF Same
    <3>2. /\ wire'[p] = Tail(wire[p]) /\ wire'[e] = wire[e] /\ wire[p] # <<>> /\ conn'
          /\ wire[p][1].type # "open" /\ Len(wire[p]) \in Nat
          /\ \A i \in 1 .. Len(wire'[p]) : i + 1 \in 1 .. Len(wire[p]) /\ wire'[p][i] = wire[p][i + 1]
      BY <1>0, <2>4, TailOfWire DEF Took, WireStep
    <3>3. \A i \in 1 .. Len(wire'[p]) : wire'[p][i].type # "open"
      <4> SUFFICES ASSUME NEW i \in 1 .. Len(wire'[p]), wire[p][i + 1].type = "open" PROVE FALSE
        BY <3>2
      <4>1. i + 1 \in 1 .. Len(wire[p]) /\ i + 1 # 1 BY <3>2
      <4> QED BY <1>0, <4>1 DEF ControlInv, OneOpen
    <3> QED BY <1>0, <2>1, <3>1, <3>2, <3>3 DEF ControlInv, OneOpen
  <2> QED BY <2>2, <2>3, <2>4 DEF WireStep
<1> QED BY <1>1, <1>2, <1>3 DEF NotAccepted

-----------------------------------------------------------------------------
(***************************************************************************)
(* What the operations of an end do to the chunks of either direction.     *)
(***************************************************************************)

\* The counts of chunks of a direction, and their types.
LEMMA CountsTyped ==
    ASSUME TypeOK, NEW e \in Ends
    PROVE  /\ Taken(e) \in Nat /\ Handed(e) \in Int /\ Handed(e) <= supplied[e]
           /\ Len(rcvd[e]) \in Nat /\ wire[e] \in Seq(EventOf)
           /\ One(upchunk[e]) \in {0, 1} /\ One(downchunk[e]) \in {0, 1}
           /\ One(buf[e]) \in {0, 1} /\ One(pend[e]) \in {0, 1}
<1>1. /\ upchunk[e] \in Nat /\ downchunk[e] \in Nat /\ buf[e] \in Nat /\ pend[e] \in Nat
      /\ supplied[e] \in Nat /\ rcvd[e] \in Seq(Nat) /\ wire[e] \in Seq(EventOf)
  BY DEF TypeOK, ChunkTypes
<1>2. Len(rcvd[e]) \in Nat BY <1>1
<1>3. /\ One(upchunk[e]) \in {0, 1} /\ One(downchunk[e]) \in {0, 1}
      /\ One(buf[e]) \in {0, 1} /\ One(pend[e]) \in {0, 1}
  BY <1>1 DEF One
<1>4. Taken(e) \in Nat BY <1>2, <1>3 DEF Taken
<1>5. Handed(e) \in Int /\ Handed(e) <= supplied[e] BY <1>1, <1>3 DEF Handed
<1> QED BY <1>1, <1>2, <1>3, <1>4, <1>5

\* Towards the other end: nothing is written, or another event, or the next
\* chunk; or the connection is gone.
SendStep(e) ==
    \/ /\ Handed(e)' = Handed(e)
       /\ \/ wire'[e] = wire[e]
          \/ \E ev \in EventOf : ev.type # "chunk" /\ wire'[e] = Append(wire[e], ev)
    \/ Handed(e)' = Handed(e) + 1 /\ wire'[e] = Append(wire[e], Chunk(Handed(e) + 1))
    \/ ~conn' /\ Handed(e)' >= Handed(e)

\* An end writes its next chunk, another event or nothing: its direction
\* still carries the chunks in order.
LEMMA SendFlow ==
    ASSUME TypeOK, TypeOK', NEW e \in Ends, Delivered(Peer(e)), InFlight(Peer(e)), Same(Peer(e)),
           conn' => conn, SendStep(e)
    PROVE  Delivered(Peer(e))' /\ InFlight(Peer(e))'
<1> DEFINE p == Peer(e)
<1>0. p \in Ends /\ Peer(p) = e BY TwoEnds
<1>1. Taken(p)' = Taken(p) /\ closed'[p] = closed[p]
  BY DEF Same, Taken
<1>2. /\ Taken(p) \in Nat /\ Handed(e) \in Int /\ Handed(e)' \in Int /\ wire[e] \in Seq(EventOf)
      /\ Taken(p) <= Handed(e) /\ Handed(e) \in Nat
  <2>1. Taken(p) \in Nat BY <1>0, CountsTyped
  <2>2. Handed(e) \in Int /\ wire[e] \in Seq(EventOf) BY CountsTyped
  <2>3. Handed(e)' \in Int
    <3>1. upchunk'[e] \in Nat /\ supplied'[e] \in Nat BY DEF TypeOK, ChunkTypes
    <3> QED BY <3>1 DEF Handed, One
  <2>4. Taken(p) <= Handed(e) BY <1>0 DEF Delivered
  <2> QED BY <2>1, <2>2, <2>3, <2>4
<1>3. Handed(e)' >= Handed(e) BY <1>2 DEF SendStep
<1>4. Delivered(p)'
  <2>1. Taken(p)' <= Handed(e)' BY <1>1, <1>2, <1>3
  <2> QED BY <1>0, <2>1 DEF Delivered, Same
<1>5. ASSUME conn', ~closed'[p] PROVE Carries(wire'[e], Taken(p)', Handed(e)')
  <2>1. Carries(wire[e], Taken(p), Handed(e)) BY <1>0, <1>1, <1>5 DEF InFlight
  <2>2. CASE Handed(e)' = Handed(e) /\ wire'[e] = wire[e] BY <1>1, <2>1, <2>2
  <2>3. ASSUME Handed(e)' = Handed(e), NEW ev \in EventOf, ev.type # "chunk",
               wire'[e] = Append(wire[e], ev)
        PROVE  Carries(wire'[e], Taken(p)', Handed(e)')
    BY <1>1, <1>2, <2>1, <2>3, CarriesOther
  <2>4. CASE Handed(e)' = Handed(e) + 1 /\ wire'[e] = Append(wire[e], Chunk(Handed(e) + 1))
    BY <1>1, <1>2, <2>1, <2>4, CarriesChunk
  <2> QED BY <1>5, <2>2, <2>3, <2>4 DEF SendStep
<1>6. InFlight(p)' BY <1>0, <1>5 DEF InFlight
<1> QED BY <1>4, <1>6

\* From the other end: the stream is closed, or nothing of it moves, or an
\* event is read that is no chunk.
ReceiveStep(e) ==
    /\ rcvd'[e] = rcvd[e]
    /\ \/ /\ closed'[e] /\ buf'[e] = 0 /\ pend'[e] = 0 /\ downchunk'[e] \in {downchunk[e], 0}
       \/ /\ closed'[e] = closed[e] /\ buf'[e] = buf[e] /\ pend'[e] = pend[e]
          /\ downchunk'[e] = downchunk[e]
          /\ wire'[Peer(e)] = wire[Peer(e)] \/ \E type \in {"open", "close"} : Took(e, type)

\* An end that takes no chunk, or drops what it has when its stream closes:
\* what it delivered is still a prefix.
LEMMA ReceiveFlow ==
    ASSUME TypeOK, TypeOK', NEW e \in Ends, Delivered(e), InFlight(e), Same(Peer(e)),
           conn' => conn, ReceiveStep(e)
    PROVE  Delivered(e)' /\ InFlight(e)'
<1> DEFINE p == Peer(e)
<1>0. p \in Ends /\ Handed(p)' = Handed(p) BY TwoEnds DEF Same, Handed
<1>1. /\ Taken(e) \in Nat /\ Handed(p) \in Nat /\ wire[p] \in Seq(EventOf) /\ Len(rcvd[e]) \in Nat
      /\ Taken(e) <= Handed(p)
  <2>1. Taken(e) \in Nat /\ Len(rcvd[e]) \in Nat BY CountsTyped
  <2>2. Handed(p) \in Int /\ wire[p] \in Seq(EventOf) BY <1>0, CountsTyped
  <2>3. Taken(e) <= Handed(p) BY DEF Delivered
  <2> QED BY <2>1, <2>2, <2>3
<1>2. CASE /\ closed'[e] /\ buf'[e] = 0 /\ pend'[e] = 0 /\ downchunk'[e] \in {downchunk[e], 0}
  <2>1. Taken(e)' <= Taken(e) /\ Taken(e)' \in Nat
    <3>1. /\ downchunk[e] \in Nat /\ buf[e] \in Nat /\ pend[e] \in Nat /\ downchunk'[e] \in Nat
      BY DEF TypeOK, ChunkTypes
    <3>2. /\ One(downchunk'[e]) \in {0, One(downchunk[e])} /\ One(downchunk[e]) \in {0, 1}
          /\ One(buf[e]) \in {0, 1} /\ One(pend[e]) \in {0, 1}
          /\ One(buf'[e]) = 0 /\ One(pend'[e]) = 0
      BY <1>2, <3>1 DEF One
    <3>3. /\ Taken(e) = Len(rcvd[e]) + One(downchunk[e]) + One(buf[e]) + One(pend[e])
          /\ Taken(e)' = Len(rcvd[e]) + One(downchunk'[e]) + One(buf'[e]) + One(pend'[e])
      BY DEF Taken, ReceiveStep
    <3> QED BY <1>1, <3>2, <3>3
  <2>2. Taken(e)' <= Handed(p)' BY <1>0, <1>1, <2>1
  <2>3. Delivered(e)' BY <1>2, <2>2 DEF Delivered, ReceiveStep
  <2> QED BY <1>2, <2>3 DEF InFlight
<1>3. CASE /\ closed'[e] = closed[e] /\ buf'[e] = buf[e] /\ pend'[e] = pend[e]
           /\ downchunk'[e] = downchunk[e]
           /\ wire'[p] = wire[p] \/ \E type \in {"open", "close"} : Took(e, type)
  <2>1. Taken(e)' = Taken(e) BY <1>3 DEF Taken, ReceiveStep
  <2>2. Delivered(e)' BY <1>0, <1>3, <2>1 DEF Delivered, ReceiveStep
  <2>3. ASSUME conn', ~closed'[e] PROVE Carries(wire'[p], Taken(e)', Handed(p)')
    <3>1. Carries(wire[p], Taken(e), Handed(p)) BY <1>3, <2>3 DEF InFlight
    <3>2. CASE wire'[p] = wire[p] BY <1>0, <2>1, <3>1, <3>2
    <3>3. ASSUME NEW type \in {"open", "close"}, Took(e, type)
          PROVE  Carries(wire'[p], Taken(e)', Handed(p)')
      <4>1. wire[p] # <<>> /\ wire[p][1].type # "chunk" /\ wire'[p] = Tail(wire[p])
        BY <3>3 DEF Took
      <4> QED BY <1>0, <1>1, <2>1, <3>1, <4>1, CarriesTailOther
    <3> QED BY <1>3, <3>2, <3>3
  <2> QED BY <2>2, <2>3 DEF InFlight
<1> QED BY <1>2, <1>3 DEF ReceiveStep

\* Offer of the next chunk, to a waiting Read, to the buffer or blocked.
OfferStep(e) ==
    LET c == wire[Peer(e)][1].chunk IN
    /\ rcvd'[e] = rcvd[e] /\ closed'[e] = closed[e]
    /\ \/ /\ down[e] = "recv" /\ downchunk'[e] = c /\ buf'[e] = buf[e] /\ pend'[e] = pend[e]
       \/ /\ down[e] # "recv" /\ buf[e] = 0
          /\ downchunk'[e] = downchunk[e] /\ buf'[e] = c /\ pend'[e] = pend[e]
       \/ /\ down[e] # "recv" /\ buf[e] # 0
          /\ downchunk'[e] = downchunk[e] /\ buf'[e] = buf[e] /\ pend'[e] = c

\* MuxStream::Offer hands the chunk to the waiting Read, to the channel, or
\* blocks with it: it is the next chunk.
LEMMA OfferFlow ==
    ASSUME TypeOK, TypeOK', NEW e \in Ends, Delivered(e), InFlight(e), Buffers(e), Same(Peer(e)),
           Took(e, "chunk"), ~closed[e], OfferStep(e)
    PROVE  Delivered(e)' /\ InFlight(e)' /\ Taken(e)' = Taken(e) + 1
           /\ wire[Peer(e)][1].chunk = Taken(e) + 1
<1> DEFINE p == Peer(e)
           c == wire[p][1].chunk
<1>0. p \in Ends /\ Handed(p)' = Handed(p) BY TwoEnds DEF Same, Handed
<1>1. /\ Taken(e) \in Nat /\ Handed(p) \in Nat /\ wire[p] \in Seq(EventOf) /\ Len(rcvd[e]) \in Nat
      /\ Taken(e) <= Handed(p)
  <2>1. Taken(e) \in Nat /\ Len(rcvd[e]) \in Nat BY CountsTyped
  <2>2. Handed(p) \in Int /\ wire[p] \in Seq(EventOf) BY <1>0, CountsTyped
  <2>3. Taken(e) <= Handed(p) BY DEF Delivered
  <2> QED BY <2>1, <2>2, <2>3
<1>2. /\ c = Taken(e) + 1 /\ Taken(e) + 1 <= Handed(p) /\ wire'[p] = Tail(wire[p])
      /\ Carries(Tail(wire[p]), Taken(e) + 1, Handed(p))
  BY <1>1, CarriesTailChunk DEF InFlight, Took
<1>3. /\ downchunk[e] \in Nat /\ buf[e] \in Nat /\ pend[e] = 0
      /\ One(downchunk[e]) \in {0, 1} /\ One(buf[e]) \in {0, 1} /\ One(pend[e]) = 0
      /\ One(c) = 1 /\ c # 0
      /\ Taken(e) = Len(rcvd[e]) + One(downchunk[e]) + One(buf[e])
  <2>1. downchunk[e] \in Nat /\ buf[e] \in Nat BY DEF TypeOK, ChunkTypes
  <2>2. pend[e] = 0 BY DEF Took, Buffers
  <2>3. c # 0 BY <1>1, <1>2
  <2>4. One(downchunk[e]) \in {0, 1} /\ One(buf[e]) \in {0, 1} /\ One(pend[e]) = 0 /\ One(c) = 1
    BY <2>1, <2>2, <2>3 DEF One
  <2> QED BY <1>1, <2>1, <2>2, <2>3, <2>4 DEF Taken
<1>4. Taken(e)' = Len(rcvd[e]) + One(downchunk'[e]) + One(buf'[e]) + One(pend'[e])
  BY DEF Taken, OfferStep
<1> HIDE DEF c
<1>5. Taken(e)' = Taken(e) + 1 /\ Delivered(e)'
  <2>1. CASE down[e] = "recv" /\ downchunk'[e] = c /\ buf'[e] = buf[e] /\ pend'[e] = pend[e]
    <3>1. downchunk[e] = 0 /\ buf[e] = 0 BY <2>1 DEF Buffers
    <3>2. One(downchunk[e]) = 0 /\ One(buf[e]) = 0 BY <3>1 DEF One
    <3>3. c = Len(rcvd[e]) + 1 BY <1>1, <1>2, <1>3, <3>2
    <3>4. Taken(e)' = Taken(e) + 1 BY <1>1, <1>3, <1>4, <2>1, <3>2
    <3> QED BY <1>0, <1>1, <1>2, <1>3, <2>1, <3>1, <3>3, <3>4 DEF Delivered, OfferStep
  <2>2. CASE /\ down[e] # "recv" /\ buf[e] = 0
             /\ downchunk'[e] = downchunk[e] /\ buf'[e] = c /\ pend'[e] = pend[e]
    <3>1. One(buf[e]) = 0 BY <2>2 DEF One
    <3>2. c = Len(rcvd[e]) + One(downchunk[e]) + 1 BY <1>1, <1>2, <1>3, <3>1
    <3>3. Taken(e)' = Taken(e) + 1 BY <1>1, <1>3, <1>4, <2>2, <3>1
    <3> QED BY <1>0, <1>1, <1>2, <1>3, <2>2, <3>2, <3>3 DEF Delivered, OfferStep
  <2>3. CASE /\ down[e] # "recv" /\ buf[e] # 0
             /\ downchunk'[e] = downchunk[e] /\ buf'[e] = buf[e] /\ pend'[e] = c
    <3>1. One(buf[e]) = 1 BY <2>3 DEF One
    <3>2. buf[e] = Len(rcvd[e]) + One(downchunk[e]) + 1 BY <2>3 DEF Delivered
    <3>3. c = buf[e] + 1 BY <1>1, <1>2, <1>3, <3>1, <3>2
    <3>4. Taken(e)' = Taken(e) + 1 BY <1>1, <1>3, <1>4, <2>3, <3>1
    <3> QED BY <1>0, <1>1, <1>2, <1>3, <2>3, <3>2, <3>3, <3>4 DEF Delivered, OfferStep
  <2> QED BY <2>1, <2>2, <2>3 DEF OfferStep, c
<1>6. InFlight(e)' BY <1>0, <1>2, <1>5 DEF InFlight
<1> QED BY <1>2, <1>5, <1>6 DEF c

\* Read, after the chunk the transfer held was written to the socket, if it
\* held one: the chunks move up.
ReadStep(e) ==
    /\ rcvd'[e] = IF downchunk[e] = 0 THEN rcvd[e] ELSE Append(rcvd[e], downchunk[e])
    /\ downchunk'[e] = IF closed[e] THEN 0 ELSE buf[e]
    /\ buf'[e] = pend[e] /\ pend'[e] = 0 /\ closed'[e] = closed[e]
    /\ wire'[Peer(e)] = wire[Peer(e)]

\* MuxStream::Read takes the chunk of the channel, and a blocked Offer moves
\* up: the order stays.
LEMMA ReadFlow ==
    ASSUME TypeOK, TypeOK', NEW e \in Ends, Delivered(e), InFlight(e), Buffers(e), Same(Peer(e)),
           conn' = conn, ReadStep(e)
    PROVE  /\ Delivered(e)' /\ InFlight(e)'
           /\ Len(rcvd'[e]) = Len(rcvd[e]) + One(downchunk[e])
<1> DEFINE p == Peer(e)
           n == Len(rcvd[e])
<1>0. p \in Ends /\ Handed(p)' = Handed(p) BY TwoEnds DEF Same, Handed
<1>1. /\ downchunk[e] \in Nat /\ buf[e] \in Nat /\ pend[e] \in Nat /\ n \in Nat
      /\ rcvd[e] \in Seq(Nat)
      /\ closed[e] => buf[e] = 0 /\ pend[e] = 0
      /\ pend[e] # 0 => buf[e] # 0
  BY DEF TypeOK, ChunkTypes, Buffers
<1>2. Len(rcvd'[e]) = n + One(downchunk[e]) /\ \A i \in 1 .. Len(rcvd'[e]) : rcvd'[e][i] = i
  <2>1. CASE downchunk[e] = 0 BY <1>1, <2>1 DEF ReadStep, One, Delivered
  <2>2. CASE downchunk[e] # 0
    <3>1. rcvd'[e] = Append(rcvd[e], downchunk[e]) /\ downchunk[e] = n + 1
      BY <2>2 DEF ReadStep, Delivered
    <3>2. /\ Len(rcvd'[e]) = n + 1 /\ rcvd'[e][n + 1] = n + 1
          /\ \A i \in 1 .. n : rcvd'[e][i] = rcvd[e][i]
      BY <1>1, <3>1
    <3>3. \A i \in 1 .. n : rcvd[e][i] = i BY DEF Delivered
    <3>4. Len(rcvd'[e]) = n + One(downchunk[e]) BY <2>2, <3>2 DEF One
    <3>5. ASSUME NEW i \in 1 .. (n + 1) PROVE rcvd'[e][i] = i
      <4>1. i \in 1 .. n \/ i = n + 1 BY <1>1
      <4> QED BY <3>2, <3>3, <4>1
    <3> QED BY <3>2, <3>4, <3>5
  <2> QED BY <2>1, <2>2
<1> HIDE DEF n
<1>3. downchunk'[e] = buf[e] BY <1>1 DEF ReadStep
<1>4. Taken(e)' = Taken(e)
  <2>1. /\ Taken(e)' = Len(rcvd'[e]) + One(downchunk'[e]) + One(buf'[e]) + One(pend'[e])
        /\ Taken(e) = n + One(downchunk[e]) + One(buf[e]) + One(pend[e])
    BY DEF Taken, n
  <2>2. One(pend'[e]) = 0 /\ One(buf'[e]) = One(pend[e]) BY DEF ReadStep, One
  <2>3. One(downchunk[e]) \in Nat /\ One(buf[e]) \in Nat /\ One(pend[e]) \in Nat BY DEF One
  <2> QED BY <1>1, <1>2, <1>3, <2>1, <2>2, <2>3
<1>5. Delivered(e)'
  <2>1. downchunk'[e] # 0 => downchunk'[e] = Len(rcvd'[e]) + 1
    BY <1>2, <1>3 DEF Delivered, n
  <2>2. buf'[e] # 0 => buf'[e] = Len(rcvd'[e]) + One(downchunk'[e]) + 1
    <3> SUFFICES ASSUME pend[e] # 0
                 PROVE  pend[e] = Len(rcvd'[e]) + One(downchunk'[e]) + 1
      BY DEF ReadStep
    <3>1. buf[e] # 0 /\ pend[e] = buf[e] + 1 /\ buf[e] = n + One(downchunk[e]) + 1
      BY <1>1 DEF Delivered, n
    <3>2. One(downchunk'[e]) = 1 BY <1>3, <3>1 DEF One
    <3>3. One(downchunk[e]) \in Nat BY DEF One
    <3> QED BY <1>1, <1>2, <3>1, <3>2, <3>3
  <2>3. pend'[e] = 0 BY DEF ReadStep
  <2>4. Taken(e)' <= Handed(p)' BY <1>0, <1>4 DEF Delivered
  <2> QED BY <1>2, <2>1, <2>2, <2>3, <2>4 DEF Delivered
<1>6. InFlight(e)' BY <1>0, <1>4 DEF InFlight, ReadStep
<1> QED BY <1>2, <1>5, <1>6 DEF n

-----------------------------------------------------------------------------
(***************************************************************************)
(* What the operations of an end do to the loss of chunks.                 *)
(***************************************************************************)

\* The end follows the other one: it does not start to close the stream, and
\* what it holds for its application is not taken away.
FollowStep(e) ==
    /\ conn' = conn /\ faults' = faults /\ (app'[e] = "open" => app[e] = "open")
    /\ faults = {} /\ app[e] = "open" =>
        /\ main'[e] # "close" /\ up'[e] # "close" /\ down'[e] # "close" /\ loop'[e] # "reply"
        /\ \/ wire'[e] = wire[e]
           \/ \E ev \in EventOf : ev.type # "close" /\ wire'[e] = Append(wire[e], ev)
        /\ wire'[Peer(e)] = wire[Peer(e)] \/ \E type : Took(e, type)
        /\ closed'[e] => closed[e]
        /\ closed[e] => Len(rcvd'[e]) + One(downchunk'[e]) >= Len(rcvd[e]) + One(downchunk[e])

\* Steps of the reader of a direction in which nothing has failed.
LEMMA FollowerKeeps ==
    ASSUME TypeOK, TypeOK', NEW e \in Ends, Follows(e), Same(Peer(e)), FollowStep(e)
    PROVE  Follows(e)'
<1> DEFINE p == Peer(e)
<1> SUFFICES ASSUME faults' = {}, app'[e] = "open"
             PROVE  Follows(e)'
  BY DEF Follows
<1>0. /\ faults = {} /\ app[e] = "open" /\ p \in Ends /\ wire[e] \in Seq(EventOf)
      /\ wire[p] \in Seq(EventOf)
  BY TwoEnds DEF FollowStep, TypeOK, ChunkTypes
<1>1. /\ conn' /\ main'[e] # "close" /\ up'[e] # "close" /\ down'[e] # "close"
      /\ loop'[e] # "reply"
  BY <1>0 DEF FollowStep, Follows
<1>2. \A i \in 1 .. Len(wire'[e]) : wire'[e][i].type # "close"
  <2>1. \A i \in 1 .. Len(wire[e]) : wire[e][i].type # "close" BY <1>0 DEF Follows
  <2>2. CASE wire'[e] = wire[e] BY <2>1, <2>2
  <2>3. ASSUME NEW ev \in EventOf, ev.type # "close", wire'[e] = Append(wire[e], ev)
        PROVE  \A i \in 1 .. Len(wire'[e]) : wire'[e][i].type # "close"
    BY <1>0, <2>1, <2>3, AppendToWire
  <2> QED BY <1>0, <2>2, <2>3 DEF FollowStep
<1>3. /\ closed'[e] => closed'[p]
      /\ closed'[p] => supplied'[p] = Chunks[p] /\ upchunk'[p] = 0 /\ main'[p] # "open"
  BY <1>0 DEF FollowStep, Follows, Same
<1>4. /\ \A i \in 1 .. Len(wire'[p]) : wire'[p][i].type = "close" =>
             closed'[p] /\ \A j \in i .. Len(wire'[p]) : wire'[p][j].type # "chunk"
      /\ closed'[e] => \A i \in 1 .. Len(wire'[p]) : wire'[p][i].type # "chunk"
  <2>0. /\ \A i \in 1 .. Len(wire[p]) : wire[p][i].type = "close" =>
               closed'[p] /\ \A j \in i .. Len(wire[p]) : wire[p][j].type # "chunk"
        /\ closed'[e] => \A i \in 1 .. Len(wire[p]) : wire[p][i].type # "chunk"
    BY <1>0 DEF Follows, FollowStep, Same
  <2>1. CASE wire'[p] = wire[p] BY <2>0, <2>1
  <2>2. ASSUME NEW type, Took(e, type) PROVE <1>4!1 /\ <1>4!2
    <3>1. /\ Len(wire[p]) \in Nat /\ Len(wire'[p]) = Len(wire[p]) - 1 /\ Len(wire[p]) >= 1
          /\ \A i \in 1 .. Len(wire'[p]) : i + 1 \in 1 .. Len(wire[p]) /\ wire'[p][i] = wire[p][i + 1]
      BY <1>0, <2>2, TailOfWire DEF Took
    <3>2. ASSUME NEW i \in 1 .. Len(wire'[p]), wire'[p][i].type = "close"
          PROVE  closed'[p] /\ \A j \in i .. Len(wire'[p]) : wire'[p][j].type # "chunk"
      <4>1. /\ i + 1 \in 1 .. Len(wire[p]) /\ closed'[p]
            /\ \A j \in (i + 1) .. Len(wire[p]) : wire[p][j].type # "chunk"
        BY <2>0, <3>1, <3>2
      <4>2. ASSUME NEW j \in i .. Len(wire'[p]) PROVE wire'[p][j].type # "chunk"
        <5>1. j \in 1 .. Len(wire'[p]) /\ j + 1 \in (i + 1) .. Len(wire[p]) BY <3>1
        <5> QED BY <3>1, <4>1, <5>1
      <4> QED BY <4>1, <4>2
    <3>3. closed'[e] => \A i \in 1 .. Len(wire'[p]) : wire'[p][i].type # "chunk"
      BY <2>0, <3>1
    <3> QED BY <3>2, <3>3
  <2> QED BY <1>0, <2>1, <2>2 DEF FollowStep
<1>5. ASSUME closed'[e] PROVE Len(rcvd'[e]) + One(downchunk'[e]) + 1 >= supplied'[p]
  <2>1. /\ closed[e] /\ supplied'[p] = supplied[p]
        /\ Len(rcvd[e]) + One(downchunk[e]) + 1 >= supplied[p]
        /\ Len(rcvd'[e]) + One(downchunk'[e]) >= Len(rcvd[e]) + One(downchunk[e])
    BY <1>0, <1>5 DEF FollowStep, Follows, Same
  <2>2. /\ Len(rcvd[e]) \in Nat /\ One(downchunk[e]) \in Nat /\ supplied[p] \in Nat
        /\ Len(rcvd'[e]) \in Nat /\ One(downchunk'[e]) \in Nat
    <3>1. rcvd[e] \in Seq(Nat) /\ rcvd'[e] \in Seq(Nat) /\ supplied[p] \in Nat
      BY <1>0 DEF TypeOK, ChunkTypes
    <3> QED BY <3>1 DEF One
  <2> QED BY <2>1, <2>2
<1> QED BY <1>1, <1>2, <1>3, <1>4, <1>5 DEF Follows

\* The end leads the other one: it closes the stream only when all its chunks
\* are on the way, and writes the STREAM_CLOSE behind them.
LeadStep(e) ==
    LET p == Peer(e) IN
    /\ conn' = conn /\ faults' = faults /\ app'[p] = app[p]
    /\ faults = {} /\ app[p] = "open" =>
        /\ wire'[p] = wire[p] \/ \E type : Took(e, type)
        /\ closed[e] => closed'[e]
        /\ closed'[e] => supplied'[e] = Chunks[e] /\ upchunk'[e] = 0 /\ main'[e] # "open"
        /\ \/ wire'[e] = wire[e]
           \/ \E ev \in EventOf : /\ wire'[e] = Append(wire[e], ev)
                                  /\ ev.type = "close" => closed'[e]
                                  /\ ev.type = "chunk" => ~closed[e]

\* Steps of the writer of a direction in which nothing has failed.
LEMMA LeaderKeeps ==
    ASSUME TypeOK, TypeOK', NEW e \in Ends, Follows(Peer(e)), Same(Peer(e)), LeadStep(e)
    PROVE  Follows(Peer(e))'
<1> DEFINE p == Peer(e)
<1> SUFFICES ASSUME faults' = {}, app'[p] = "open"
             PROVE  Follows(p)'
  BY DEF Follows
<1>0. /\ faults = {} /\ app[p] = "open" /\ p \in Ends /\ Peer(p) = e /\ wire[e] \in Seq(EventOf)
      /\ wire[p] \in Seq(EventOf)
  BY TwoEnds DEF LeadStep, TypeOK, ChunkTypes
<1>1. /\ conn' /\ main'[p] # "close" /\ up'[p] # "close" /\ down'[p] # "close"
      /\ loop'[p] # "reply"
  BY <1>0 DEF LeadStep, Follows, Same
<1>2. \A i \in 1 .. Len(wire'[p]) : wire'[p][i].type # "close"
  <2>1. \A i \in 1 .. Len(wire[p]) : wire[p][i].type # "close" BY <1>0 DEF Follows
  <2>2. CASE wire'[p] = wire[p] BY <2>1, <2>2
  <2>3. ASSUME NEW type, Took(e, type)
        PROVE  \A i \in 1 .. Len(wire'[p]) : wire'[p][i].type # "close"
    BY <1>0, <2>1, <2>3, TailOfWire DEF Took
  <2> QED BY <1>0, <2>2, <2>3 DEF LeadStep
<1>3. /\ closed'[p] => closed'[e]
      /\ closed'[e] => supplied'[e] = Chunks[e] /\ upchunk'[e] = 0 /\ main'[e] # "open"
  BY <1>0 DEF LeadStep, Follows, Same
<1>4. /\ \A i \in 1 .. Len(wire'[e]) : wire'[e][i].type = "close" =>
             closed'[e] /\ \A j \in i .. Len(wire'[e]) : wire'[e][j].type # "chunk"
      /\ closed'[p] => \A i \in 1 .. Len(wire'[e]) : wire'[e][i].type # "chunk"
  <2>0. /\ \A i \in 1 .. Len(wire[e]) : wire[e][i].type = "close" =>
               closed[e] /\ closed'[e] /\ \A j \in i .. Len(wire[e]) : wire[e][j].type # "chunk"
        /\ closed'[p] => closed[e] /\ \A i \in 1 .. Len(wire[e]) : wire[e][i].type # "chunk"
    BY <1>0 DEF Follows, LeadStep, Same
  <2>1. CASE wire'[e] = wire[e] BY <2>0, <2>1
  <2>2. ASSUME NEW ev \in EventOf, wire'[e] = Append(wire[e], ev), ev.type = "close" => closed'[e],
               ev.type = "chunk" => ~closed[e]
        PROVE  <1>4!1 /\ <1>4!2
    <3>1. /\ Len(wire[e]) \in Nat /\ Len(wire'[e]) = Len(wire[e]) + 1
          /\ \A i \in 1 .. Len(wire[e]) : wire'[e][i] = wire[e][i]
          /\ wire'[e][Len(wire[e]) + 1] = ev
      BY <1>0, <2>2, AppendToWire
    <3>2. ASSUME NEW i \in 1 .. Len(wire'[e]), wire'[e][i].type = "close"
          PROVE  closed'[e] /\ \A j \in i .. Len(wire'[e]) : wire'[e][j].type # "chunk"
      <4>1. CASE i = Len(wire[e]) + 1 BY <2>2, <3>1, <3>2, <4>1
      <4>2. CASE i \in 1 .. Len(wire[e])
        <5>1. /\ closed[e] /\ closed'[e]
              /\ \A j \in i .. Len(wire[e]) : wire[e][j].type # "chunk"
          BY <2>0, <3>1, <3>2, <4>2
        <5>2. ASSUME NEW j \in i .. Len(wire'[e]) PROVE wire'[e][j].type # "chunk"
          <6>1. j \in i .. Len(wire[e]) \/ j = Len(wire[e]) + 1 BY <3>1, <4>2
          <6> QED BY <2>2, <3>1, <4>2, <5>1, <6>1
        <5> QED BY <5>1, <5>2
      <4> QED BY <3>1, <4>1, <4>2
    <3>3. ASSUME closed'[p], NEW i \in 1 .. Len(wire'[e]) PROVE wire'[e][i].type # "chunk"
      <4>1. i \in 1 .. Len(wire[e]) \/ i = Len(wire[e]) + 1 BY <3>1
      <4> QED BY <2>0, <2>2, <3>1, <3>3, <4>1
    <3> QED BY <3>2, <3>3
  <2> QED BY <1>0, <2>1, <2>2 DEF LeadStep
<1>5. ASSUME closed'[p] PROVE Len(rcvd'[p]) + One(downchunk'[p]) + 1 >= supplied'[e]
  BY <1>0, <1>5 DEF LeadStep, Follows, Same
<1> QED BY <1>0, <1>1, <1>2, <1>3, <1>4, <1>5 DEF Follows

-----------------------------------------------------------------------------
(***************************************************************************)
(* One end takes a step.                                                   *)
(***************************************************************************)

\* What is left to show of a step of e, apart from what it does to the
\* STREAM_OPEN and to the chunks e receives.
LEMMA StepOfEnd ==
    ASSUME Inv, NEW e \in Ends, TypeOK', Same(Peer(e)), End(e)',
           NotOpened' /\ NotAccepted' /\ OneOpen',
           SendStep(e), Delivered(e)' /\ InFlight(e)', FaultFree(e)', Follows(e)', LeadStep(e)
    PROVE  Inv'
<1> DEFINE p == Peer(e)
<1>0. p \in Ends /\ \A y \in Ends : y = e \/ y = p
  BY TwoEnds
<1>1. End(p)' BY <1>0, SameEnd DEF Inv, RelayInv, ControlInv
<1>2. Delivered(p)' /\ InFlight(p)'
  BY <1>0, SendFlow DEF Inv, RelayInv, ControlInv, FlowInv, LeadStep
<1>3. FaultFree(p)'
  BY <1>0 DEF Inv, LossInv, FaultFree, Same, LeadStep
<1>4. Follows(p)'
  BY <1>0, LeaderKeeps DEF Inv, RelayInv, ControlInv, LossInv
<1> QED BY <1>0, <1>1, <1>2, <1>3, <1>4 DEF Inv, RelayInv, ControlInv, FlowInv, LossInv

\* A step that reads no chunk and does not close the stream because the other
\* end did.
LEMMA PlainStep ==
    ASSUME Inv, NEW e \in Ends, TypeOK', Same(Peer(e)), End(e)', WireStep(e),
           main[e] \notin {"none", "open"}, main'[e] \in {main[e], "run", "close", "done"},
           SendStep(e), ReceiveStep(e) \/ (Delivered(e)' /\ InFlight(e)'),
           FaultFree(e)', FollowStep(e), LeadStep(e)
    PROVE  Inv'
<1>1. NotOpened' /\ NotAccepted' /\ OneOpen'
  BY OpenKept DEF Inv, RelayInv
<1>2. Delivered(e)' /\ InFlight(e)'
  BY ReceiveFlow DEF Inv, RelayInv, ControlInv, FlowInv, LeadStep
<1>3. Follows(e)'
  BY FollowerKeeps DEF Inv, RelayInv, ControlInv, LossInv
<1> QED BY <1>1, <1>2, <1>3, StepOfEnd

\* The state of an end, from the invariant.
LEMMA InvAt ==
    ASSUME Inv, NEW e \in Ends
    PROVE  /\ TypeOK /\ ControlInv
           /\ Coroutines(e) /\ Buffers(e) /\ Registered(e) /\ Delivered(e) /\ InFlight(e)
           /\ FaultFree(e) /\ Follows(e)
           /\ Peer(e) \in Ends /\ Peer(e) # e /\ Peer(Peer(e)) = e
           /\ Coroutines(Peer(e)) /\ Buffers(Peer(e)) /\ Registered(Peer(e))
           /\ FaultFree(Peer(e)) /\ Follows(Peer(e))
BY TwoEnds DEF Inv, RelayInv, ControlInv, FlowInv, LossInv, End

\* What a chunk on its way from the socket to the connection counts for.
LEMMA HandedIs ==
    ASSUME TypeOK, NEW e \in Ends
    PROVE  /\ upchunk[e] = 0 => Handed(e) = supplied[e]
           /\ upchunk[e] # 0 => Handed(e) = supplied[e] - 1
           /\ upchunk'[e] = 0 /\ supplied'[e] \in Nat => Handed(e)' = supplied'[e]
           /\ upchunk'[e] # 0 => Handed(e)' = supplied'[e] - 1
           /\ upchunk'[e] = upchunk[e] /\ supplied'[e] = supplied[e] => Handed(e)' = Handed(e)
BY DEF TypeOK, ChunkTypes, Handed, One

\* A transfer that is neither off nor done is that of a running relay.
LEMMA Running ==
    ASSUME TypeOK, NEW e \in Ends, Coroutines(e),
           up[e] \notin {"off", "done"} \/ down[e] \notin {"off", "done"}
    PROVE  main[e] = "run"
BY DEF TypeOK, StateTypes, MainStates, Coroutines

\* An application gets nothing less by a step that leaves it alone.
LEMMA NothingLess ==
    ASSUME TypeOK, NEW e \in Ends, rcvd'[e] = rcvd[e], downchunk'[e] = downchunk[e]
    PROVE  Len(rcvd'[e]) + One(downchunk'[e]) >= Len(rcvd[e]) + One(downchunk[e])
BY CountsTyped

(***************************************************************************)
(* transfer, socket to stream.                                             *)
(***************************************************************************)

\* The transfer reads a chunk from the socket.
LEMMA UpReadStep ==
    ASSUME Inv, NEW e \in Ends, UpRead(e)
    PROVE  Inv'
<1>1. TypeOK /\ Coroutines(e) /\ Buffers(e) /\ Registered(e) /\ FaultFree(e) /\ Follows(Peer(e))
      /\ Peer(e) \in Ends /\ Peer(e) # e /\ Peer(Peer(e)) = e
  BY InvAt
<1>2. /\ up[e] = "read" /\ main[e] = "run" /\ supplied[e] < Chunks[e] /\ upchunk[e] = 0
      /\ supplied[e] \in Nat
      /\ supplied' = [supplied EXCEPT ![e] = @ + 1]
      /\ upchunk' = [upchunk EXCEPT ![e] = supplied[e] + 1]
      /\ up' = [up EXCEPT ![e] = "write"]
      /\ UNCHANGED <<main, down, loop, tclose, timer, registered, closed, buf, pend, unmatched,
                     downchunk, sock, app, rcvd, wire, conn, faults>>
  BY <1>1 DEF UpRead, Coroutines, Buffers, streamVars, TypeOK, StateTypes, ChunkTypes, MainStates
<1>3. TypeOK'
  <2>1. FlagTypes' BY <1>1, <1>2, Zenon DEF TypeOK, FlagTypes
  <2>2. StateTypes' BY <1>1, <1>2 DEF TypeOK, StateTypes, UpStates
  <2>3. ChunkTypes'
    <3>1. supplied' \in [Ends -> Nat] /\ upchunk' \in [Ends -> Nat]
      BY <1>1, <1>2 DEF TypeOK, ChunkTypes
    <3> QED BY <1>1, <1>2, <3>1 DEF TypeOK, ChunkTypes
  <2> QED BY <2>1, <2>2, <2>3 DEF TypeOK
<1>4. Same(Peer(e)) BY <1>1, <1>2 DEF Same, TypeOK, StateTypes, ChunkTypes
<1>5. /\ up'[e] = "write" /\ supplied'[e] = supplied[e] + 1 /\ upchunk'[e] = supplied[e] + 1
  BY <1>1, <1>2 DEF TypeOK, StateTypes, ChunkTypes
<1>6. End(e)'
  BY <1>1, <1>2, <1>5 DEF End, Coroutines, Buffers, Registered
<1>7. SendStep(e)
  <2>1. Handed(e)' = Handed(e) BY <1>1, <1>2, <1>5, HandedIs
  <2> QED BY <1>2, <2>1 DEF SendStep
<1>8. ReceiveStep(e) /\ WireStep(e) BY <1>2 DEF ReceiveStep, WireStep
<1>9. FaultFree(e)' BY <1>1, <1>2 DEF FaultFree
<1>10. FollowStep(e)
  <2>1. Len(rcvd[e]) + One(downchunk[e]) >= Len(rcvd[e]) + One(downchunk[e])
    BY <1>1, CountsTyped
  <2> QED BY <1>1, <1>2, <1>5, <2>1, InvAt DEF FollowStep, Follows
<1>11. LeadStep(e)
  BY <1>1, <1>2, <1>5 DEF LeadStep, Follows
<1> QED BY <1>2, <1>3, <1>4, <1>6, <1>7, <1>8, <1>9, <1>10, <1>11, PlainStep

\* The chunk is written to the connection, or the stream closed because it
\* cannot be.
LEMMA UpWriteStep ==
    ASSUME Inv, NEW e \in Ends, UpWrite(e)
    PROVE  Inv'
<1>1. TypeOK /\ Coroutines(e) /\ Buffers(e) /\ Registered(e) /\ FaultFree(e) /\ Follows(e)
      /\ Follows(Peer(e)) /\ Peer(e) \in Ends /\ Peer(e) # e /\ Peer(Peer(e)) = e
  BY InvAt
<1>2. /\ up[e] = "write" /\ main[e] = "run" /\ upchunk[e] # 0 /\ upchunk[e] = supplied[e]
      /\ supplied[e] \in Nat /\ upchunk' = [upchunk EXCEPT ![e] = 0]
      /\ UNCHANGED <<main, tclose, timer, downchunk, sock, app, supplied, rcvd, conn, faults>>
  BY <1>1, Running DEF UpWrite, Buffers, appVars, TypeOK, ChunkTypes
<1>3. upchunk'[e] = 0 /\ Handed(e) = supplied[e] - 1 /\ Handed(e)' = supplied[e]
  <2>1. upchunk'[e] = 0 BY <1>1, <1>2 DEF TypeOK, ChunkTypes
  <2> QED BY <1>1, <1>2, <2>1, HandedIs
<1>4. Len(rcvd'[e]) + One(downchunk'[e]) >= Len(rcvd[e]) + One(downchunk[e])
  BY <1>1, <1>2, NothingLess
<1>6. CASE /\ Sent(e, Chunk(upchunk[e])) /\ up' = [up EXCEPT ![e] = "read"]
           /\ UNCHANGED <<streamVars, loop, down>>
  <2>1. /\ Wrote(e, Chunk(upchunk[e])) /\ Chunk(upchunk[e]) \in EventOf
        /\ Chunk(upchunk[e]).type = "chunk" /\ up'[e] = "read"
        /\ UNCHANGED <<registered, closed, buf, pend, unmatched, loop, down>>
    BY <1>1, <1>2, <1>6, SentWrites, EventsTyped DEF streamVars, TypeOK, StateTypes
  <2>2. TypeOK'
    <3>1. FlagTypes' BY <1>1, <1>2, <2>1, Zenon DEF TypeOK, FlagTypes
    <3>2. StateTypes' BY <1>1, <1>2, <1>6, <2>1 DEF TypeOK, StateTypes, UpStates
    <3>3. upchunk' \in [Ends -> Nat] BY <1>1, <1>2 DEF TypeOK, ChunkTypes
    <3>4. ChunkTypes' BY <1>1, <1>2, <2>1, <3>3 DEF TypeOK, ChunkTypes, Wrote
    <3> QED BY <3>1, <3>2, <3>4 DEF TypeOK
  <2>3. Same(Peer(e)) BY <1>1, <1>2, <1>6, <2>1 DEF Same, TypeOK, StateTypes, ChunkTypes
  <2>4. End(e)'
    BY <1>1, <1>2, <1>3, <2>1 DEF End, Coroutines, Buffers, Registered
  <2>5. SendStep(e)
    <3>1. upchunk[e] = Handed(e) + 1 BY <1>2, <1>3
    <3> QED BY <1>2, <1>3, <2>1, <3>1 DEF SendStep, Wrote
  <2>6. ReceiveStep(e) BY <1>2, <2>1 DEF ReceiveStep, Wrote
  <2>7. WireStep(e) BY <1>2, <2>1 DEF WireStep
  <2>8. FollowStep(e) BY <1>1, <1>2, <1>4, <2>1 DEF FollowStep, Follows, Wrote
  <2>9. LeadStep(e) BY <1>1, <1>2, <2>1 DEF LeadStep, Follows, Wrote
  <2>10. FaultFree(e)' BY <1>1, <1>2, <2>1 DEF FaultFree
  <2> QED BY <1>2, <2>2, <2>3, <2>4, <2>5, <2>6, <2>7, <2>8, <2>9, <2>10, PlainStep
<1>7. CASE /\ SendFails /\ up' = [up EXCEPT ![e] = "done"]
           /\ CloseAfterFailure(e, down[e]) /\ UNCHANGED wire
  <2>1. /\ ClosedBy(e, down[e]) /\ ~conn /\ wire' = wire /\ up'[e] = "done"
    BY <1>1, <1>7, FailureCloses DEF SendFails, TypeOK, StateTypes, Buffers
  <2>2. TypeOK'
    <3>1. FlagTypes' BY <1>1, <1>2, <2>1, Zenon DEF TypeOK, FlagTypes, ClosedBy
    <3>2. StateTypes' BY <1>1, <1>2, <1>7, <2>1 DEF TypeOK, StateTypes, UpStates, ClosedBy
    <3>3. upchunk' \in [Ends -> Nat] BY <1>1, <1>2 DEF TypeOK, ChunkTypes
    <3>4. ChunkTypes' BY <1>1, <1>2, <2>1, <3>3 DEF TypeOK, ChunkTypes, ClosedBy
    <3> QED BY <3>1, <3>2, <3>4 DEF TypeOK
  <2>3. Same(Peer(e)) BY <1>1, <1>2, <1>7, <2>1 DEF Same, TypeOK, StateTypes, ChunkTypes, ClosedBy
  <2>4. End(e)'
    BY <1>1, <1>2, <1>3, <2>1 DEF End, Coroutines, Buffers, Registered, ClosedBy
  <2>5. SendStep(e) BY <1>2, <1>3, <2>1 DEF SendStep
  <2>6. ReceiveStep(e) BY <1>2, <2>1 DEF ReceiveStep, ClosedBy
  <2>7. WireStep(e) BY <1>2, <2>1 DEF WireStep
  <2>8. FollowStep(e) BY <1>1, <1>2, <2>1 DEF FollowStep, Follows
  <2>9. LeadStep(e) BY <1>1, <1>2, <2>1 DEF LeadStep, Follows
  <2>10. FaultFree(e)' BY <1>1, <1>2, <2>1 DEF FaultFree, ClosedBy
  <2> QED BY <1>2, <2>2, <2>3, <2>4, <2>5, <2>6, <2>7, <2>8, <2>9, <2>10, PlainStep
<1> QED BY <1>6, <1>7 DEF UpWrite

\* End of file, a reset or a closed socket: the stream is closed.  With nothing
\* failing it is the end of the file, after all chunks were written.
LEMMA UpEndStep ==
    ASSUME Inv, NEW e \in Ends, UpEnd(e)
    PROVE  Inv'
<1>1. TypeOK /\ Coroutines(e) /\ Buffers(e) /\ Registered(e) /\ FaultFree(e) /\ Follows(e)
      /\ Follows(Peer(e)) /\ Peer(e) \in Ends /\ Peer(e) # e /\ Peer(Peer(e)) = e
  BY InvAt
<1>2. /\ up[e] = "read" /\ main[e] = "run" /\ upchunk[e] = 0
      /\ UNCHANGED <<main, tclose, timer, upchunk, downchunk, sock, app, supplied, rcvd, wire,
                     conn, faults>>
  BY <1>1, Running DEF UpEnd, Buffers, appVars
<1>3. ClosedBy(e, down[e])
  BY <1>1, MaybeCloses DEF UpEnd
<1>4. /\ up' = [up EXCEPT ![e] = IF closed[e] THEN "done" ELSE "close"]
      /\ up'[e] = IF closed[e] THEN "done" ELSE "close"
  BY <1>1 DEF UpEnd, TypeOK, StateTypes
<1>5. TypeOK'
  <2>1. FlagTypes' BY <1>1, <1>2, <1>3, Zenon DEF TypeOK, FlagTypes, ClosedBy
  <2>2. StateTypes' BY <1>1, <1>2, <1>3, <1>4 DEF TypeOK, StateTypes, UpStates, ClosedBy
  <2>3. ChunkTypes' BY <1>1, <1>2, <1>3 DEF TypeOK, ChunkTypes, ClosedBy
  <2> QED BY <2>1, <2>2, <2>3 DEF TypeOK
<1>6. Same(Peer(e)) BY <1>1, <1>2, <1>3, <1>4 DEF Same, TypeOK, StateTypes, ClosedBy
<1>7. End(e)'
  BY <1>1, <1>2, <1>3, <1>4 DEF End, Coroutines, Buffers, Registered, ClosedBy
<1>8. SendStep(e)
  <2>1. Handed(e)' = Handed(e) BY <1>2 DEF Handed
  <2> QED BY <1>2, <2>1 DEF SendStep
<1>9. ReceiveStep(e) BY <1>2, <1>3 DEF ReceiveStep, ClosedBy
<1>10. WireStep(e) BY <1>2 DEF WireStep
<1>11. FaultFree(e)' BY <1>1, <1>2, <1>3 DEF FaultFree, ClosedBy
<1>12. faults = {} /\ ~closed[e] => app[e] = "eof" /\ supplied[e] = Chunks[e]
  BY <1>1, <1>2 DEF UpEnd, FaultFree, Coroutines
<1>13. FollowStep(e)
  <2>1. Len(rcvd'[e]) + One(downchunk'[e]) >= Len(rcvd[e]) + One(downchunk[e])
    BY <1>1, <1>2, NothingLess
  <2> QED BY <1>1, <1>2, <1>3, <1>4, <1>12, <2>1 DEF FollowStep, Follows, ClosedBy
<1>14. LeadStep(e)
  BY <1>1, <1>2, <1>3, <1>12 DEF LeadStep, Follows, ClosedBy
<1> QED BY <1>2, <1>5, <1>6, <1>7, <1>8, <1>9, <1>10, <1>11, <1>13, <1>14, PlainStep

\* The STREAM_CLOSE of a closed stream is written, or cannot be.
LEMMA WritesClose ==
    ASSUME TypeOK, NEW e \in Ends, Sent(e, CloseEv) \/ (SendFails /\ UNCHANGED wire),
           UNCHANGED <<upchunk, supplied, conn>>
    PROVE  /\ wire' \in [Ends -> Seq(EventOf)] /\ WireStep(e) /\ SendStep(e)
           /\ wire'[Peer(e)] = wire[Peer(e)]
           /\ \/ wire'[e] = wire[e]
              \/ \E ev \in EventOf : ev.type = "close" /\ wire'[e] = Append(wire[e], ev)
<1>1. Handed(e)' = Handed(e) BY DEF Handed
<1>2. CASE Sent(e, CloseEv)
  <2>1. CloseEv \in EventOf /\ CloseEv.type = "close" /\ Wrote(e, CloseEv)
    BY <1>2, EventsTyped, SentWrites
  <2> QED BY <1>1, <2>1 DEF WireStep, SendStep, Wrote
<1>3. CASE SendFails /\ UNCHANGED wire
  BY <1>1, <1>3 DEF WireStep, SendStep, TypeOK, ChunkTypes
<1> QED BY <1>2, <1>3

\* Whoever writes it, the step changes nothing else of the stream.
LEMMA CloseWritten ==
    ASSUME Inv, NEW e \in Ends, closed[e], ~(faults = {} /\ app[e] = "open"),
           Sent(e, CloseEv) \/ (SendFails /\ UNCHANGED wire),
           UNCHANGED <<registered, closed, buf, pend, unmatched, upchunk, downchunk, app,
                       supplied, rcvd, conn, faults>>,
           main'[e] \in {main[e], "done"}, StateTypes', FlagTypes', Same(Peer(e)), End(e)',
           FaultFree(e)'
    PROVE  Inv'
<1>1. TypeOK /\ Follows(e) /\ Follows(Peer(e)) /\ Buffers(e) /\ ControlInv
      /\ Peer(e) \in Ends /\ Peer(e) # e /\ Peer(Peer(e)) = e
  BY InvAt
<1>2. main[e] \notin {"none", "open"} BY <1>1, ClosedHasStream
<1>3. /\ wire' \in [Ends -> Seq(EventOf)] /\ WireStep(e) /\ SendStep(e)
      /\ wire'[Peer(e)] = wire[Peer(e)]
      /\ \/ wire'[e] = wire[e]
         \/ \E ev \in EventOf : ev.type = "close" /\ wire'[e] = Append(wire[e], ev)
  BY <1>1, WritesClose
<1>4. TypeOK' BY <1>1, <1>3 DEF TypeOK, ChunkTypes
<1>5. ReceiveStep(e) BY <1>1, <1>3 DEF ReceiveStep
<1>6. FollowStep(e) BY DEF FollowStep
<1>7. LeadStep(e)
  <2>1. ASSUME faults = {}, app[Peer(e)] = "open"
        PROVE  supplied[e] = Chunks[e] /\ upchunk[e] = 0 /\ main[e] # "open"
    BY <1>1, <2>1 DEF Follows
  <2>2. main'[e] # "open" BY <1>2
  <2>3. \/ wire'[e] = wire[e]
        \/ \E ev \in EventOf : /\ wire'[e] = Append(wire[e], ev)
                               /\ ev.type = "close" => closed'[e]
                               /\ ev.type = "chunk" => ~closed[e]
    BY <1>3
  <2> QED BY <1>3, <2>1, <2>2, <2>3 DEF LeadStep
<1> QED BY <1>2, <1>3, <1>4, <1>5, <1>6, <1>7, PlainStep

\* The transfer from the socket has written its STREAM_CLOSE.
LEMMA UpClosedStep ==
    ASSUME Inv, NEW e \in Ends, UpClosed(e)
    PROVE  Inv'
<1>1. TypeOK /\ Coroutines(e) /\ Buffers(e) /\ Registered(e) /\ FaultFree(e) /\ Follows(e)
      /\ Peer(e) \in Ends /\ Peer(e) # e
  BY InvAt
<1>2. /\ up[e] = "close" /\ main[e] = "run" /\ closed[e] /\ up' = [up EXCEPT ![e] = "done"]
      /\ up'[e] = "done" /\ ~(faults = {} /\ app[e] = "open")
      /\ Sent(e, CloseEv) \/ (SendFails /\ UNCHANGED wire)
      /\ UNCHANGED <<main, down, loop, tclose, timer, registered, closed, buf, pend, unmatched,
                     upchunk, downchunk, sock, app, supplied, rcvd, conn, faults>>
  BY <1>1, Running DEF UpClosed, streamVars, appVars, Coroutines, Follows, TypeOK, StateTypes
<1>3. FlagTypes' BY <1>1, <1>2, Zenon DEF TypeOK, FlagTypes
<1>4. StateTypes' BY <1>1, <1>2 DEF TypeOK, StateTypes, UpStates
<1>5. Same(Peer(e)) BY <1>1, <1>2 DEF Same, TypeOK, StateTypes
<1>6. End(e)' BY <1>1, <1>2 DEF End, Coroutines, Buffers, Registered
<1>7. FaultFree(e)' BY <1>1, <1>2 DEF FaultFree
<1> QED BY <1>2, <1>3, <1>4, <1>5, <1>6, <1>7, CloseWritten

(***************************************************************************)
(* transfer, stream to socket.                                             *)
(***************************************************************************)

\* MuxStream::Read takes what is buffered, and lets a blocked Offer in.
ReadBy(e) ==
    /\ down' \in [Ends -> DownStates] /\ loop' \in [Ends -> {"read", "offer", "reply"}]
    /\ downchunk' \in [Ends -> Nat] /\ buf' \in [Ends -> Nat] /\ pend' \in [Ends -> Nat]
    /\ down'[e] = IF closed[e] THEN "err" ELSE IF buf[e] # 0 THEN "write" ELSE "recv"
    /\ downchunk'[e] = IF closed[e] THEN 0 ELSE buf[e]
    /\ buf'[e] = pend[e] /\ pend'[e] = 0
    /\ loop'[e] = IF loop[e] = "offer" THEN "read" ELSE loop[e]
    /\ \A y \in Ends : y # e =>
           /\ down'[y] = down[y] /\ loop'[y] = loop[y] /\ downchunk'[y] = downchunk[y]
           /\ buf'[y] = buf[y] /\ pend'[y] = pend[y]
    /\ UNCHANGED <<registered, closed, unmatched>>

\* What MuxStream::Read does to the channel and to a blocked Offer.
LEMMA ReadReads ==
    ASSUME TypeOK, NEW e \in Ends, Read(e)
    PROVE  ReadBy(e)
<1>1. /\ buf[e] \in Nat /\ pend[e] \in Nat /\ DOMAIN downchunk = Ends /\ DOMAIN buf = Ends
      /\ DOMAIN pend = Ends /\ DOMAIN loop = Ends /\ DOMAIN down = Ends
  BY DEF TypeOK, StateTypes, ChunkTypes
<1>2. /\ downchunk' \in [Ends -> Nat] /\ buf' \in [Ends -> Nat] /\ pend' \in [Ends -> Nat]
  BY <1>1 DEF Read, TypeOK, ChunkTypes
<1>3. down' \in [Ends -> DownStates] /\ loop' \in [Ends -> {"read", "offer", "reply"}]
  BY DEF Read, TypeOK, StateTypes, DownStates
<1>4. UNCHANGED <<registered, closed, unmatched>> BY DEF Read
<1> QED BY <1>1, <1>2, <1>3, <1>4 DEF Read, ReadBy

\* A chunk is written to the application's socket and the next one read.
LEMMA DownWriteStep ==
    ASSUME Inv, NEW e \in Ends, DownWrite(e)
    PROVE  Inv'
<1>1. TypeOK /\ Coroutines(e) /\ Buffers(e) /\ Registered(e) /\ FaultFree(e) /\ Follows(e)
      /\ Follows(Peer(e)) /\ Peer(e) \in Ends /\ Peer(e) # e /\ Peer(Peer(e)) = e
      /\ Delivered(e) /\ InFlight(e)
  BY InvAt
<1>2. /\ down[e] = "write" /\ main[e] = "run" /\ downchunk[e] # 0 /\ downchunk[e] \in Nat
      /\ rcvd' = [rcvd EXCEPT ![e] = Append(@, downchunk[e])] /\ sock[e]
      /\ UNCHANGED <<main, up, tclose, timer, upchunk, sock, app, supplied, wire, conn, faults>>
  BY <1>1, Running DEF DownWrite, Buffers, TypeOK, ChunkTypes
<1>3. ReadBy(e) BY <1>1, ReadReads DEF DownWrite
<1>4. rcvd' \in [Ends -> Seq(Nat)] /\ rcvd'[e] = Append(rcvd[e], downchunk[e])
      /\ rcvd'[Peer(e)] = rcvd[Peer(e)]
  <2>1. rcvd[e] \in Seq(Nat) BY DEF TypeOK, ChunkTypes, Inv, RelayInv, ControlInv
  <2>2. Append(rcvd[e], downchunk[e]) \in Seq(Nat) BY <1>2, <2>1
  <2> QED BY <1>1, <1>2, <2>2 DEF TypeOK, ChunkTypes
<1>5. TypeOK'
  <2>1. FlagTypes' BY <1>1, <1>2, <1>3, Zenon DEF TypeOK, FlagTypes, ReadBy
  <2>2. StateTypes' BY <1>1, <1>2, <1>3 DEF TypeOK, StateTypes, ReadBy
  <2>3. ChunkTypes' BY <1>1, <1>2, <1>3, <1>4 DEF TypeOK, ChunkTypes, ReadBy
  <2> QED BY <2>1, <2>2, <2>3 DEF TypeOK
<1>6. Same(Peer(e)) BY <1>1, <1>2, <1>3, <1>4 DEF Same, ReadBy
<1>7. End(e)'
  <2>1. Coroutines(e)' BY <1>1, <1>2, <1>3 DEF Coroutines, ReadBy
  <2>2. Buffers(e)' BY <1>1, <1>2, <1>3 DEF Buffers, ReadBy
  <2>3. Registered(e)' BY <1>1, <1>2, <1>3 DEF Registered, ReadBy
  <2> QED BY <2>1, <2>2, <2>3 DEF End
<1>8. SendStep(e)
  <2>1. Handed(e)' = Handed(e) BY <1>2 DEF Handed
  <2> QED BY <1>2, <2>1 DEF SendStep
<1>9. ReadStep(e) BY <1>2, <1>3, <1>4 DEF ReadStep, ReadBy
<1>10. Delivered(e)' /\ InFlight(e)' /\ Len(rcvd'[e]) = Len(rcvd[e]) + One(downchunk[e])
  BY <1>1, <1>2, <1>5, <1>6, <1>9, ReadFlow
<1>11. WireStep(e) BY <1>2 DEF WireStep
<1>12. FaultFree(e)' BY <1>1, <1>2 DEF FaultFree
<1>13. FollowStep(e)
  <2>1. Len(rcvd'[e]) + One(downchunk'[e]) >= Len(rcvd[e]) + One(downchunk[e])
    <3>1. Len(rcvd[e]) \in Nat /\ One(downchunk[e]) \in {0, 1} BY <1>1, CountsTyped
    <3>2. One(downchunk'[e]) \in {0, 1} BY DEF One
    <3> QED BY <1>10, <3>1, <3>2
  <2> QED BY <1>1, <1>2, <1>3, <2>1 DEF FollowStep, Follows, ReadBy
<1>14. LeadStep(e)
  BY <1>1, <1>2, <1>3 DEF LeadStep, Follows, ReadBy
<1> QED BY <1>2, <1>5, <1>6, <1>7, <1>8, <1>10, <1>11, <1>12, <1>13, <1>14, PlainStep

\* The transfer to the socket ends.  With nothing failing it had nothing in
\* hand, for only the end of the stream ends it.
LEMMA DownEndStep ==
    ASSUME Inv, NEW e \in Ends, DownEnd(e)
    PROVE  Inv'
<1>1. TypeOK /\ Coroutines(e) /\ Buffers(e) /\ Registered(e) /\ FaultFree(e) /\ Follows(e)
      /\ Follows(Peer(e)) /\ Peer(e) \in Ends /\ Peer(e) # e /\ Peer(Peer(e)) = e
  BY InvAt
<1> DEFINE dn == IF closed[e] THEN "done" ELSE "close"
<1>2. /\ down[e] \in {"err", "write"} /\ main[e] = "run"
      /\ downchunk' = [downchunk EXCEPT ![e] = 0]
      /\ UNCHANGED <<main, up, tclose, timer, upchunk, app, supplied, rcvd, wire, conn, faults>>
      /\ downchunk'[e] = 0
  BY <1>1, Running DEF DownEnd, appVars, TypeOK, ChunkTypes
<1>3. ClosedBy(e, dn)
  <2>1. CASE closed[e]
    BY <1>1, <2>1, ClosedStays DEF DownEnd, streamVars, DownStates
  <2>2. CASE ~closed[e]
    BY <1>1, <2>2, CloseStreamCloses DEF DownEnd, DownStates
  <2> QED BY <2>1, <2>2
<1>4. /\ closed[e] => sock' = [sock EXCEPT ![e] = FALSE]
      /\ ~closed[e] => sock' = sock
  BY DEF DownEnd
<1>5. TypeOK'
  <2>0. sock' \in [Ends -> BOOLEAN]
    BY <1>1, <1>4, Zenon DEF TypeOK, FlagTypes
  <2>1. FlagTypes' BY <1>1, <1>2, <1>3, <2>0, Zenon DEF TypeOK, FlagTypes, ClosedBy
  <2>2. StateTypes' BY <1>1, <1>2, <1>3 DEF TypeOK, StateTypes, ClosedBy
  <2>3. downchunk' \in [Ends -> Nat] BY <1>1, <1>2 DEF TypeOK, ChunkTypes
  <2>4. ChunkTypes' BY <1>1, <1>2, <1>3, <2>3 DEF TypeOK, ChunkTypes, ClosedBy
  <2> QED BY <2>1, <2>2, <2>4 DEF TypeOK
<1>6. Same(Peer(e))
  <2>1. sock'[Peer(e)] = sock[Peer(e)] BY <1>1, <1>4 DEF TypeOK, FlagTypes
  <2> QED BY <1>1, <1>2, <1>3, <2>1 DEF Same, TypeOK, ChunkTypes, ClosedBy
<1>7. /\ down'[e] = dn
      /\ closed[e] => ~sock'[e]
      /\ ~closed[e] => sock'[e] = sock[e]
  BY <1>1, <1>3, <1>4 DEF ClosedBy, TypeOK, FlagTypes
<1>8. End(e)'
  <2>1. Coroutines(e)' BY <1>1, <1>2, <1>3, <1>7 DEF Coroutines, ClosedBy
  <2>2. Buffers(e)' BY <1>1, <1>2, <1>3, <1>7 DEF Buffers, ClosedBy
  <2>3. Registered(e)' BY <1>1, <1>2, <1>3 DEF Registered, ClosedBy
  <2> QED BY <2>1, <2>2, <2>3 DEF End
<1>9. SendStep(e)
  <2>1. Handed(e)' = Handed(e) BY <1>2 DEF Handed
  <2> QED BY <1>2, <2>1 DEF SendStep
<1>10. ReceiveStep(e) BY <1>2, <1>3 DEF ReceiveStep, ClosedBy
<1>11. WireStep(e) BY <1>2 DEF WireStep
<1>12. faults = {} => closed[e] /\ down[e] = "err"
  BY <1>1, <1>2 DEF DownEnd, FaultFree, Coroutines
<1>13. FaultFree(e)' BY <1>1, <1>2, <1>7, <1>12 DEF FaultFree
<1>14. FollowStep(e)
  <2>1. faults = {} => Len(rcvd'[e]) + One(downchunk'[e]) >= Len(rcvd[e]) + One(downchunk[e])
    <3>1. faults = {} => downchunk'[e] = downchunk[e] BY <1>1, <1>2, <1>12 DEF Buffers
    <3> QED BY <1>1, <1>2, <3>1, NothingLess
  <2> QED BY <1>1, <1>2, <1>3, <1>7, <1>12, <2>1 DEF FollowStep, Follows, ClosedBy
<1>15. LeadStep(e)
  BY <1>1, <1>2, <1>3, <1>12 DEF LeadStep, Follows, ClosedBy
<1> QED BY <1>2, <1>5, <1>6, <1>8, <1>9, <1>10, <1>11, <1>13, <1>14, <1>15, PlainStep

\* The transfer to the socket has written its STREAM_CLOSE.
LEMMA DownClosedStep ==
    ASSUME Inv, NEW e \in Ends, DownClosed(e)
    PROVE  Inv'
<1>1. TypeOK /\ Coroutines(e) /\ Buffers(e) /\ Registered(e) /\ FaultFree(e) /\ Follows(e)
      /\ Peer(e) \in Ends /\ Peer(e) # e
  BY InvAt
<1>2. /\ down[e] = "close" /\ main[e] = "run" /\ closed[e] /\ down' = [down EXCEPT ![e] = "done"]
      /\ down'[e] = "done" /\ ~(faults = {} /\ app[e] = "open")
      /\ Sent(e, CloseEv) \/ (SendFails /\ UNCHANGED wire)
      /\ sock' = [sock EXCEPT ![e] = FALSE]
      /\ UNCHANGED <<main, up, loop, tclose, timer, registered, closed, buf, pend, unmatched,
                     upchunk, downchunk, app, supplied, rcvd, conn, faults>>
  BY <1>1, Running DEF DownClosed, streamVars, appVars, Coroutines, Follows, TypeOK, StateTypes
<1>3. FlagTypes' BY <1>1, <1>2, Zenon DEF TypeOK, FlagTypes
<1>4. StateTypes' BY <1>1, <1>2 DEF TypeOK, StateTypes, DownStates
<1>5. Same(Peer(e)) BY <1>1, <1>2 DEF Same, TypeOK, StateTypes, FlagTypes
<1>6. End(e)' BY <1>1, <1>2 DEF End, Coroutines, Buffers, Registered
<1>7. FaultFree(e)' BY <1>1, <1>2 DEF FaultFree
<1> QED BY <1>2, <1>3, <1>4, <1>5, <1>6, <1>7, CloseWritten

(***************************************************************************)
(* do_relay, relay and relay_handler.                                      *)
(***************************************************************************)

\* Both transfers are over.
LEMMA RelayJoinStep ==
    ASSUME Inv, NEW e \in Ends, RelayJoin(e)
    PROVE  Inv'
<1>1. TypeOK /\ Coroutines(e) /\ Buffers(e) /\ Registered(e) /\ FaultFree(e) /\ Follows(e)
      /\ Follows(Peer(e)) /\ Peer(e) \in Ends /\ Peer(e) # e /\ Peer(Peer(e)) = e
  BY InvAt
<1>2. /\ main[e] = "run" /\ up[e] = "done" /\ down[e] = "done" /\ closed[e]
      /\ main' = [main EXCEPT ![e] = "done"] /\ main'[e] = "done"
      /\ timer' = [timer EXCEPT ![e] = "off"] /\ timer'[e] = "off"
      /\ sock' = [sock EXCEPT ![e] = FALSE] /\ ~sock'[e]
      /\ UNCHANGED <<registered, closed, buf, pend, unmatched, loop, down, up, tclose, upchunk,
                     downchunk, app, supplied, rcvd, wire, conn, faults>>
  BY <1>1 DEF RelayJoin, Coroutines, streamVars, appVars, TypeOK, StateTypes, FlagTypes
<1>3. TypeOK'
  <2>1. FlagTypes' BY <1>1, <1>2, Zenon DEF TypeOK, FlagTypes
  <2>2. StateTypes' BY <1>1, <1>2 DEF TypeOK, StateTypes, MainStates
  <2>3. ChunkTypes' BY <1>1, <1>2 DEF TypeOK, ChunkTypes
  <2> QED BY <2>1, <2>2, <2>3 DEF TypeOK
<1>4. Same(Peer(e)) BY <1>1, <1>2 DEF Same, TypeOK, StateTypes, FlagTypes
<1>5. End(e)' BY <1>1, <1>2 DEF End, Coroutines, Buffers, Registered
<1>6. SendStep(e)
  <2>1. Handed(e)' = Handed(e) BY <1>2 DEF Handed
  <2> QED BY <1>2, <2>1 DEF SendStep
<1>7. ReceiveStep(e) BY <1>2 DEF ReceiveStep
<1>8. WireStep(e) BY <1>2 DEF WireStep
<1>9. FaultFree(e)' BY <1>1, <1>2 DEF FaultFree
<1>10. FollowStep(e)
  <2>1. Len(rcvd'[e]) + One(downchunk'[e]) >= Len(rcvd[e]) + One(downchunk[e])
    BY <1>1, <1>2, NothingLess
  <2> QED BY <1>1, <1>2, <2>1 DEF FollowStep, Follows
<1>11. LeadStep(e) BY <1>1, <1>2 DEF LeadStep, Follows
<1> QED BY <1>2, <1>3, <1>4, <1>5, <1>6, <1>7, <1>8, <1>9, <1>10, <1>11, PlainStep

\* The relay has written its STREAM_CLOSE.
LEMMA RelayClosedStep ==
    ASSUME Inv, NEW e \in Ends, RelayClosed(e)
    PROVE  Inv'
<1>1. TypeOK /\ Coroutines(e) /\ Buffers(e) /\ Registered(e) /\ FaultFree(e) /\ Follows(e)
      /\ Peer(e) \in Ends /\ Peer(e) # e
  BY InvAt
<1>2. /\ main[e] = "close" /\ closed[e] /\ main' = [main EXCEPT ![e] = "done"]
      /\ main'[e] = "done" /\ ~(faults = {} /\ app[e] = "open")
      /\ Sent(e, CloseEv) \/ (SendFails /\ UNCHANGED wire)
      /\ UNCHANGED <<up, down, loop, tclose, timer, registered, closed, buf, pend, unmatched,
                     upchunk, downchunk, sock, app, supplied, rcvd, conn, faults>>
  BY <1>1 DEF RelayClosed, streamVars, appVars, Coroutines, Follows, TypeOK, StateTypes
<1>3. FlagTypes' BY <1>1, <1>2, Zenon DEF TypeOK, FlagTypes
<1>4. StateTypes' BY <1>1, <1>2 DEF TypeOK, StateTypes, MainStates
<1>5. Same(Peer(e)) BY <1>1, <1>2 DEF Same, TypeOK, StateTypes
<1>6. End(e)' BY <1>1, <1>2 DEF End, Coroutines, Buffers, Registered
<1>7. FaultFree(e)' BY <1>1, <1>2 DEF FaultFree
<1> QED BY <1>2, <1>3, <1>4, <1>5, <1>6, <1>7, CloseWritten

\* relay_handler gives up without a socket.
LEMMA RelayConnectFailsStep ==
    ASSUME Inv, RelayConnectFails
    PROVE  Inv'
<1> DEFINE e == "exit"
<1>0. e \in Ends BY TwoEnds
<1>1. TypeOK /\ Coroutines(e) /\ Buffers(e) /\ Registered(e) /\ FaultFree(e) /\ Follows(e)
      /\ Follows(Peer(e)) /\ Peer(e) \in Ends /\ Peer(e) # e /\ Peer(Peer(e)) = e
  BY <1>0, InvAt
<1> HIDE DEF e
<1>2. /\ main[e] = "connect" /\ faults # {}
      /\ main' = [main EXCEPT ![e] = IF closed[e] THEN "done" ELSE "close"]
      /\ timer' = [timer EXCEPT ![e] = "off"]
      /\ main'[e] \in {"done", "close"} /\ timer'[e] = "off"
      /\ UNCHANGED <<up, tclose, upchunk, downchunk, sock, app, supplied, rcvd, wire, conn, faults>>
  BY <1>0, <1>1 DEF e, RelayConnectFails, appVars, TypeOK, StateTypes
<1>3. ClosedBy(e, down[e]) BY <1>0, <1>1, MaybeCloses DEF e, RelayConnectFails
<1>4. TypeOK'
  <2>1. FlagTypes' BY <1>1, <1>2, <1>3, Zenon DEF TypeOK, FlagTypes, ClosedBy
  <2>2. StateTypes' BY <1>1, <1>2, <1>3 DEF TypeOK, StateTypes, MainStates, ClosedBy
  <2>3. ChunkTypes' BY <1>1, <1>2, <1>3 DEF TypeOK, ChunkTypes, ClosedBy
  <2> QED BY <2>1, <2>2, <2>3 DEF TypeOK
<1>5. Same(Peer(e)) BY <1>1, <1>2, <1>3 DEF Same, TypeOK, StateTypes, ClosedBy
<1>6. End(e)' BY <1>1, <1>2, <1>3 DEF End, Coroutines, Buffers, Registered, ClosedBy
<1>7. SendStep(e)
  <2>1. Handed(e)' = Handed(e) BY <1>2 DEF Handed
  <2> QED BY <1>2, <2>1 DEF SendStep
<1>8. ReceiveStep(e) BY <1>2, <1>3 DEF ReceiveStep, ClosedBy
<1>9. WireStep(e) BY <1>2 DEF WireStep
<1>10. FaultFree(e)' /\ FollowStep(e) /\ LeadStep(e)
  BY <1>2 DEF FaultFree, FollowStep, LeadStep
<1> QED BY <1>0, <1>2, <1>4, <1>5, <1>6, <1>7, <1>8, <1>9, <1>10, PlainStep

\* relay_handler has a socket: the transfers start, with what has arrived.
LEMMA RelayConnectedStep ==
    ASSUME Inv, RelayConnected
    PROVE  Inv'
<1> DEFINE e == "exit"
<1>0. e \in Ends BY TwoEnds
<1>1. TypeOK /\ Coroutines(e) /\ Buffers(e) /\ Registered(e) /\ FaultFree(e) /\ Follows(e)
      /\ Follows(Peer(e)) /\ Peer(e) \in Ends /\ Peer(e) # e /\ Peer(Peer(e)) = e
      /\ Delivered(e) /\ InFlight(e)
  BY <1>0, InvAt
<1> HIDE DEF e
<1>2. /\ main[e] = "connect" /\ down[e] = "off" /\ downchunk[e] = 0 /\ upchunk[e] = 0
      /\ main' = [main EXCEPT ![e] = "run"] /\ main'[e] = "run"
      /\ sock' = [sock EXCEPT ![e] = TRUE] /\ sock'[e]
      /\ up' = [up EXCEPT ![e] = "read"] /\ up'[e] = "read"
      /\ UNCHANGED <<tclose, timer, upchunk, app, supplied, rcvd, wire, conn, faults>>
  BY <1>0, <1>1 DEF e, RelayConnected, Coroutines, Buffers, appVars, TypeOK, StateTypes, FlagTypes
<1>3. ReadBy(e) BY <1>0, <1>1, ReadReads DEF e, RelayConnected
<1>4. TypeOK'
  <2>1. FlagTypes' BY <1>1, <1>2, <1>3, Zenon DEF TypeOK, FlagTypes, ReadBy
  <2>2. StateTypes' BY <1>1, <1>2, <1>3 DEF TypeOK, StateTypes, MainStates, UpStates, ReadBy
  <2>3. ChunkTypes' BY <1>1, <1>2, <1>3 DEF TypeOK, ChunkTypes, ReadBy
  <2> QED BY <2>1, <2>2, <2>3 DEF TypeOK
<1>5. Same(Peer(e)) BY <1>1, <1>2, <1>3 DEF Same, TypeOK, StateTypes, FlagTypes, ReadBy
<1>6. End(e)'
  <2>1. Coroutines(e)' BY <1>1, <1>2, <1>3 DEF Coroutines, ReadBy
  <2>2. Buffers(e)' BY <1>1, <1>2, <1>3 DEF Buffers, ReadBy
  <2>3. Registered(e)' BY <1>1, <1>2, <1>3 DEF Registered, ReadBy
  <2> QED BY <2>1, <2>2, <2>3 DEF End
<1>7. SendStep(e)
  <2>1. Handed(e)' = Handed(e) BY <1>2 DEF Handed
  <2> QED BY <1>2, <2>1 DEF SendStep
<1>8. ReadStep(e) BY <1>2, <1>3 DEF ReadStep, ReadBy
<1>9. Delivered(e)' /\ InFlight(e)' BY <1>0, <1>1, <1>2, <1>4, <1>5, <1>8, ReadFlow
<1>10. WireStep(e) BY <1>2 DEF WireStep
<1>11. FaultFree(e)' BY <1>1, <1>2 DEF FaultFree
<1>12. FollowStep(e)
  <2>1. Len(rcvd'[e]) + One(downchunk'[e]) >= Len(rcvd[e]) + One(downchunk[e])
    <3>1. Len(rcvd[e]) \in Nat BY <1>0, <1>1, CountsTyped
    <3>2. One(downchunk[e]) = 0 /\ One(downchunk'[e]) \in {0, 1} BY <1>2 DEF One
    <3> QED BY <1>2, <3>1, <3>2
  <2> QED BY <1>1, <1>2, <1>3, <2>1 DEF FollowStep, Follows, ReadBy
<1>13. LeadStep(e) BY <1>1, <1>2, <1>3 DEF LeadStep, Follows, ReadBy
<1> QED BY <1>0, <1>2, <1>4, <1>5, <1>6, <1>7, <1>9, <1>10, <1>11, <1>12, <1>13, PlainStep

\* What the handshake had read is written, or cannot be, and the transfers
\* start.
LEMMA RelayFirstStep ==
    ASSUME Inv, RelayFirst
    PROVE  Inv'
<1> DEFINE e == "entry"
<1>0. e \in Ends BY TwoEnds
<1>1. TypeOK /\ Coroutines(e) /\ Buffers(e) /\ Registered(e) /\ FaultFree(e) /\ Follows(e)
      /\ Follows(Peer(e)) /\ Peer(e) \in Ends /\ Peer(e) # e /\ Peer(Peer(e)) = e
      /\ Delivered(e) /\ InFlight(e)
  BY <1>0, InvAt
<1> HIDE DEF e
<1>2. /\ main[e] = "first" /\ down[e] = "off" /\ downchunk[e] = 0 /\ upchunk[e] = 1
      /\ supplied[e] = 1
      /\ main' = [main EXCEPT ![e] = "run"] /\ main'[e] = "run"
      /\ up' = [up EXCEPT ![e] = "read"] /\ up'[e] = "read"
      /\ upchunk' = [upchunk EXCEPT ![e] = 0] /\ upchunk'[e] = 0
      /\ UNCHANGED <<tclose, timer, sock, app, supplied, rcvd, conn, faults>>
  BY <1>0, <1>1 DEF e, RelayFirst, Coroutines, Buffers, appVars, TypeOK, StateTypes, ChunkTypes
<1>3. Handed(e) = 0 /\ Handed(e)' = 1
  BY <1>2 DEF Handed, One
<1>4. upchunk' \in [Ends -> Nat] BY <1>1, <1>2 DEF TypeOK, ChunkTypes
<1>5. CASE Sent(e, Chunk(1)) /\ Read(e)
  <2>1. /\ Wrote(e, Chunk(1)) /\ Chunk(1) \in EventOf /\ Chunk(1).type = "chunk"
    BY <1>0, <1>1, <1>5, SentWrites, EventsTyped
  <2>2. ReadBy(e) BY <1>0, <1>1, <1>5, ReadReads
  <2>3. TypeOK'
    <3>1. FlagTypes' BY <1>1, <1>2, <2>2, Zenon DEF TypeOK, FlagTypes, ReadBy
    <3>2. StateTypes' BY <1>1, <1>2, <2>2 DEF TypeOK, StateTypes, MainStates, UpStates, ReadBy
    <3>3. ChunkTypes' BY <1>1, <1>2, <1>4, <2>1, <2>2 DEF TypeOK, ChunkTypes, ReadBy, Wrote
    <3> QED BY <3>1, <3>2, <3>3 DEF TypeOK
  <2>4. Same(Peer(e)) BY <1>1, <1>2, <2>2 DEF Same, TypeOK, StateTypes, ChunkTypes, ReadBy
  <2>5. End(e)'
    <3>1. Coroutines(e)' BY <1>1, <1>2, <2>2 DEF Coroutines, ReadBy
    <3>2. Buffers(e)' BY <1>1, <1>2, <2>2 DEF Buffers, ReadBy
    <3>3. Registered(e)' BY <1>1, <1>2, <2>2 DEF Registered, ReadBy
    <3> QED BY <3>1, <3>2, <3>3 DEF End
  <2>6. SendStep(e)
    <3>1. Handed(e) + 1 = 1 BY <1>3
    <3> QED BY <1>3, <2>1, <3>1 DEF SendStep, Wrote
  <2>7. ReadStep(e) BY <1>2, <2>1, <2>2 DEF ReadStep, ReadBy, Wrote
  <2>8. Delivered(e)' /\ InFlight(e)' BY <1>0, <1>1, <1>2, <2>3, <2>4, <2>7, ReadFlow
  <2>9. WireStep(e) BY <1>2, <2>1 DEF WireStep
  <2>10. FaultFree(e)' BY <1>1, <1>2 DEF FaultFree
  <2>11. FollowStep(e)
    <3>1. Len(rcvd'[e]) + One(downchunk'[e]) >= Len(rcvd[e]) + One(downchunk[e])
      <4>1. Len(rcvd[e]) \in Nat BY <1>0, <1>1, CountsTyped
      <4>2. One(downchunk[e]) = 0 /\ One(downchunk'[e]) \in {0, 1} BY <1>2 DEF One
      <4> QED BY <1>2, <4>1, <4>2
    <3> QED BY <1>1, <1>2, <2>1, <2>2, <3>1 DEF FollowStep, Follows, ReadBy, Wrote
  <2>12. LeadStep(e) BY <1>1, <1>2, <2>1, <2>2 DEF LeadStep, Follows, ReadBy, Wrote
  <2> QED BY <1>0, <1>2, <2>3, <2>4, <2>5, <2>6, <2>8, <2>9, <2>10, <2>11, <2>12, PlainStep
<1>6. CASE SendFails /\ CloseAfterFailure(e, "err") /\ UNCHANGED <<wire, downchunk>>
  <2>1. ClosedBy(e, "err") /\ ~conn /\ wire' = wire /\ downchunk' = downchunk
    BY <1>0, <1>1, <1>6, FailureCloses DEF SendFails, DownStates
  <2>2. TypeOK'
    <3>1. FlagTypes' BY <1>1, <1>2, <2>1, Zenon DEF TypeOK, FlagTypes, ClosedBy
    <3>2. StateTypes' BY <1>1, <1>2, <2>1 DEF TypeOK, StateTypes, MainStates, UpStates, ClosedBy
    <3>3. ChunkTypes' BY <1>1, <1>2, <1>4, <2>1 DEF TypeOK, ChunkTypes, ClosedBy
    <3> QED BY <3>1, <3>2, <3>3 DEF TypeOK
  <2>3. Same(Peer(e)) BY <1>1, <1>2, <2>1 DEF Same, TypeOK, StateTypes, ChunkTypes, ClosedBy
  <2>4. End(e)' BY <1>1, <1>2, <2>1 DEF End, Coroutines, Buffers, Registered, ClosedBy
  <2>5. SendStep(e) BY <1>2, <1>3, <2>1 DEF SendStep
  <2>6. ReceiveStep(e) BY <1>2, <2>1 DEF ReceiveStep, ClosedBy
  <2>7. WireStep(e) BY <1>2, <2>1 DEF WireStep
  <2>8. FollowStep(e) BY <1>1, <1>2, <2>1 DEF FollowStep, Follows
  <2>9. LeadStep(e) BY <1>1, <1>2, <2>1 DEF LeadStep, Follows
  <2>10. FaultFree(e)' BY <1>1, <1>2, <2>1 DEF FaultFree, ClosedBy
  <2> QED BY <1>0, <1>2, <2>2, <2>3, <2>4, <2>5, <2>6, <2>7, <2>8, <2>9, <2>10, PlainStep
<1> QED BY <1>5, <1>6 DEF RelayFirst, e

\* Open returns: the STREAM_OPEN is the first event on the connection, or the
\* stream is closed.
LEMMA RelayOpenStep ==
    ASSUME Inv, RelayOpen
    PROVE  Inv'
<1> DEFINE e == "entry"
           p == "exit"
<1>0. e \in Ends /\ p \in Ends /\ Peer(e) = p /\ Peer(p) = e /\ e # p BY TwoEnds
<1>1. TypeOK /\ Coroutines(e) /\ Buffers(e) /\ Registered(e) /\ FaultFree(e) /\ Follows(e)
      /\ Follows(p) /\ Delivered(e) /\ InFlight(e)
  BY <1>0, InvAt
<1>2. /\ main[e] = "open" /\ main[p] = "none" /\ wire[e] = <<>> /\ ~closed[e] /\ loop[e] = "read"
      /\ supplied[e] = 0 /\ buf[e] = 0 /\ pend[e] = 0 /\ up[e] = "off" /\ down[e] = "off"
      /\ upchunk[e] = 0 /\ downchunk[e] = 0 /\ wire[p] = <<>> /\ ~tclose[e]
      /\ UNCHANGED <<loop, tclose, timer, buf, pend, downchunk, unmatched, sock, app, rcvd, conn,
                     faults>>
  BY <1>1 DEF RelayOpen, Inv, RelayInv, ControlInv, NotOpened, NotAccepted, Coroutines, Buffers
<1>3. /\ \/ Wrote(e, Open) /\ closed' = closed
         \/ ~conn /\ wire' = wire /\ closed' = [closed EXCEPT ![e] = TRUE]
      /\ registered' = [registered EXCEPT ![e] = ~closed'[e]]
  BY <1>0, <1>1, SentWrites, EventsTyped DEF RelayOpen, SendFails
<1>4. \/ /\ Chunks[e] > 0 /\ main' = [main EXCEPT ![e] = "first"]
         /\ supplied' = [supplied EXCEPT ![e] = 1] /\ upchunk' = [upchunk EXCEPT ![e] = 1]
         /\ UNCHANGED <<up, down>>
      \/ /\ main' = [main EXCEPT ![e] = "run"] /\ up' = [up EXCEPT ![e] = "read"]
         /\ down' = [down EXCEPT ![e] = IF closed'[e] THEN "err" ELSE "recv"]
         /\ UNCHANGED <<supplied, upchunk>>
  BY DEF RelayOpen
<1> HIDE DEF e, p
<1>5. /\ closed' \in [Ends -> BOOLEAN]
      /\ registered' \in [Ends -> BOOLEAN]
  <2>1. closed' \in [Ends -> BOOLEAN] BY <1>1, <1>3, Zenon DEF TypeOK, FlagTypes
  <2>2. (~closed'[e]) \in BOOLEAN OBVIOUS
  <2>3. registered' \in [Ends -> BOOLEAN] BY <1>1, <1>3, <2>2, Zenon DEF TypeOK, FlagTypes
  <2> QED BY <2>1, <2>3
<1>6. /\ wire' \in [Ends -> Seq(EventOf)] /\ wire'[p] = wire[p] /\ closed'[p] = closed[p]
      /\ registered'[p] = registered[p] /\ (registered'[e] <=> ~closed'[e])
      /\ \/ conn /\ wire'[e] = Append(wire[e], Open) /\ ~closed'[e]
         \/ ~conn /\ wire'[e] = wire[e] /\ closed'[e]
  <2>1. /\ registered'[p] = registered[p] /\ (registered'[e] <=> ~closed'[e])
    <3>1. registered'[p] = registered[p] BY <1>0, <1>1, <1>3, Zenon DEF TypeOK, FlagTypes
    <3>2. registered'[e] = ~closed'[e] BY <1>0, <1>1, <1>3, Zenon DEF TypeOK, FlagTypes
    <3> QED BY <3>1, <3>2
  <2>2. CASE Wrote(e, Open) /\ closed' = closed
    <3>1. /\ wire' \in [Ends -> Seq(EventOf)] /\ wire'[p] = wire[p] /\ conn
          /\ wire'[e] = Append(wire[e], Open)
      BY <1>0, <2>2 DEF Wrote
    <3> QED BY <1>2, <2>1, <2>2, <3>1
  <2>3. CASE ~conn /\ wire' = wire /\ closed' = [closed EXCEPT ![e] = TRUE]
    <3>1. closed'[e] /\ closed'[p] = closed[p]
      BY <1>0, <1>1, <2>3 DEF TypeOK, FlagTypes
    <3>2. wire' \in [Ends -> Seq(EventOf)] BY <1>1, <2>3 DEF TypeOK, ChunkTypes
    <3> QED BY <2>1, <2>3, <3>1, <3>2
  <2> QED BY <1>3, <2>2, <2>3
<1>7. TypeOK'
  <2>1. FlagTypes' BY <1>1, <1>2, <1>5, Zenon DEF TypeOK, FlagTypes
  <2>2. StateTypes'
    BY <1>1, <1>2, <1>4 DEF TypeOK, StateTypes, MainStates, UpStates, DownStates
  <2>3. supplied' \in [Ends -> Nat] /\ upchunk' \in [Ends -> Nat]
    <3>1. CASE <1>4!1
      <4>1. supplied' \in [Ends -> Nat] BY <1>1, <3>1 DEF TypeOK, ChunkTypes
      <4>2. upchunk' \in [Ends -> Nat] BY <1>1, <3>1 DEF TypeOK, ChunkTypes
      <4> QED BY <4>1, <4>2
    <3>2. CASE <1>4!2 BY <1>1, <3>2 DEF TypeOK, ChunkTypes
    <3> QED BY <1>4, <3>1, <3>2
  <2>4. ChunkTypes' BY <1>1, <1>2, <1>6, <2>3 DEF TypeOK, ChunkTypes
  <2> QED BY <2>1, <2>2, <2>4 DEF TypeOK
<1>8. Same(p)
  <2>1. /\ main'[p] = main[p] /\ up'[p] = up[p] /\ down'[p] = down[p]
        /\ supplied'[p] = supplied[p] /\ upchunk'[p] = upchunk[p]
    BY <1>0, <1>1, <1>4 DEF TypeOK, StateTypes, ChunkTypes
  <2> QED BY <1>2, <1>6, <2>1 DEF Same
<1>9. \/ main'[e] = "first" /\ supplied'[e] = 1 /\ upchunk'[e] = 1 /\ up'[e] = "off" /\ down'[e] = "off"
      \/ /\ main'[e] = "run" /\ supplied'[e] = 0 /\ upchunk'[e] = 0 /\ up'[e] = "read"
         /\ down'[e] = IF closed'[e] THEN "err" ELSE "recv"
  BY <1>0, <1>1, <1>2, <1>4 DEF TypeOK, StateTypes, ChunkTypes
<1>10. End(e)'
  <2>1. Coroutines(e)' BY <1>1, <1>2, <1>9 DEF Coroutines
  <2>2. Buffers(e)' BY <1>1, <1>2, <1>9 DEF Buffers
  <2>3. Registered(e)' BY <1>6, <1>9 DEF Registered
  <2> QED BY <2>1, <2>2, <2>3 DEF End
<1>11. NotOpened' /\ NotAccepted' /\ OneOpen'
  <2>1. NotOpened' BY <1>9 DEF NotOpened, e
  <2>2. conn' => wire'[e] # <<>> /\ wire'[e][1].type = "open" /\ Len(wire'[e]) = 1
    <3>1. wire[e] \in Seq(EventOf) /\ Len(wire[e]) = 0 /\ Len(wire[e]) + 1 = 1
      BY <1>0, <1>1, <1>2 DEF TypeOK, ChunkTypes
    <3>2. Append(wire[e], Open) # <<>> /\ Append(wire[e], Open)[1] = Open
          /\ Len(Append(wire[e], Open)) = 1
      BY <3>1, EventsTyped, AppendToWire
    <3> QED BY <1>2, <1>6, <3>2, EventsTyped
  <2>3. NotAccepted'
    <3>1. /\ ~closed[p] /\ ~registered[p] /\ loop[p] = "read" /\ buf[p] = 0
          /\ timer[p] = "off" /\ supplied[p] = 0
      BY <1>2 DEF Inv, RelayInv, ControlInv, NotAccepted, p
    <3> QED BY <1>2, <1>6, <1>8, <2>2, <3>1 DEF NotAccepted, Same, e, p
  <2>4. OneOpen'
    <3>1. main'[e] \notin {"none", "connect"} /\ main'[p] = "none" BY <1>2, <1>8, <1>9 DEF Same
    <3>2. \A i \in 1 .. Len(wire'[p]) : FALSE
      <4>1. Len(wire'[p]) = 0 BY <1>2, <1>6
      <4> QED BY <4>1
    <3>3. \A i \in 1 .. Len(wire'[e]) : i = 1
      <4>1. CASE conn'
        <5>1. Len(wire'[e]) = 1 BY <2>2, <4>1
        <5> QED BY <5>1
      <4>2. CASE ~conn'
        <5>1. Len(wire'[e]) = 0 BY <1>2, <1>6, <4>2
        <5> QED BY <5>1
      <4> QED BY <4>1, <4>2
    <3>4. ~conn' => wire'[e] = <<>> /\ wire'[p] = <<>> BY <1>2, <1>6
    <3>5. \A y \in Ends : y = e \/ y = p BY DEF Ends, e, p
    <3> QED BY <3>1, <3>2, <3>3, <3>4, <3>5 DEF OneOpen, e, p
  <2> QED BY <2>1, <2>3, <2>4
<1>12. SendStep(e)
  <2>1. Handed(e) = 0 /\ Handed(e)' = 0 BY <1>2, <1>9 DEF Handed, One
  <2> QED BY <1>2, <1>6, <2>1, EventsTyped DEF SendStep
<1>13. ReceiveStep(e)
  <2>1. ~closed'[e] => closed'[e] = closed[e]
    BY <1>0, <1>1, <1>2, <1>5 DEF TypeOK, FlagTypes
  <2> QED BY <1>0, <1>2, <1>6, <2>1 DEF ReceiveStep
<1>14. Delivered(e)' /\ InFlight(e)'
  BY <1>0, <1>1, <1>2, <1>7, <1>8, <1>13, ReceiveFlow
<1>15. FaultFree(e)' BY <1>1, <1>2, <1>9 DEF FaultFree
<1>16. FollowStep(e)
  <2>1. Len(rcvd'[e]) + One(downchunk'[e]) >= Len(rcvd[e]) + One(downchunk[e])
    BY <1>0, <1>1, <1>2, NothingLess
  <2>2. down'[e] # "close" /\ up'[e] # "close" /\ main'[e] # "close" BY <1>9
  <2> QED BY <1>0, <1>1, <1>2, <1>6, <2>1, <2>2, EventsTyped DEF FollowStep, Follows
<1>17. LeadStep(e) BY <1>0, <1>1, <1>2, <1>6, EventsTyped DEF LeadStep, Follows
<1>18. Follows(e)' BY <1>0, <1>1, <1>7, <1>8, <1>16, FollowerKeeps
<1> QED BY <1>0, <1>7, <1>8, <1>10, <1>11, <1>12, <1>14, <1>15, <1>17, <1>18, StepOfEnd

(***************************************************************************)
(* The read loop.                                                          *)
(***************************************************************************)

\* A chunk of a known stream is offered.
LEMMA LoopOfferStep ==
    ASSUME Inv, NEW e \in Ends, LoopOffer(e)
    PROVE  Inv'
<1> DEFINE p == Peer(e)
           c == wire[p][1].chunk
<1>1. TypeOK /\ ControlInv /\ Coroutines(e) /\ Buffers(e) /\ Registered(e) /\ FaultFree(e)
      /\ Follows(e) /\ Follows(p) /\ Delivered(e) /\ InFlight(e) /\ p \in Ends /\ p # e /\ Peer(p) = e
  BY InvAt
<1>2. Took(e, "chunk") BY <1>1, ReceiveTakes DEF LoopOffer
<1>3. /\ registered[e] /\ ~closed[e] /\ loop[e] = "read" /\ pend[e] = 0 /\ c \in Nat
      /\ UNCHANGED <<main, up, tclose, timer, registered, closed, upchunk, unmatched, sock, app,
                     supplied, rcvd, conn, faults>>
  <2>1. c \in Nat BY <1>2 DEF Took, EventOf
  <2>2. registered[e] /\ loop[e] = "read"
        /\ UNCHANGED <<main, up, tclose, timer, registered, closed, upchunk, unmatched, sock, app,
                       supplied, rcvd, conn, faults>>
    BY <1>2 DEF LoopOffer, appVars, Took
  <2> QED BY <1>1, <2>1, <2>2 DEF Registered, Buffers
<1>4. \/ /\ down[e] = "recv" /\ down' = [down EXCEPT ![e] = "write"]
         /\ downchunk' = [downchunk EXCEPT ![e] = c] /\ UNCHANGED <<buf, pend, loop>>
      \/ /\ down[e] # "recv" /\ buf[e] = 0 /\ buf' = [buf EXCEPT ![e] = c]
         /\ UNCHANGED <<down, downchunk, pend, loop>>
      \/ /\ down[e] # "recv" /\ buf[e] # 0 /\ pend' = [pend EXCEPT ![e] = c]
         /\ loop' = [loop EXCEPT ![e] = "offer"] /\ UNCHANGED <<down, downchunk, buf>>
  <2>1. Head(wire[p]) = wire[p][1] BY <1>2 DEF Took
  <2> QED BY <2>1 DEF LoopOffer
<1> HIDE DEF c
<1>5. TypeOK'
  <2>1. FlagTypes' BY <1>1, <1>3, Zenon DEF TypeOK, FlagTypes
  <2>2. down' \in [Ends -> DownStates] /\ loop' \in [Ends -> {"read", "offer", "reply"}]
    BY <1>1, <1>4 DEF TypeOK, StateTypes, DownStates
  <2>3. StateTypes' BY <1>1, <1>3, <2>2 DEF TypeOK, StateTypes
  <2>4. downchunk' \in [Ends -> Nat] /\ buf' \in [Ends -> Nat] /\ pend' \in [Ends -> Nat]
    <3>1. CASE <1>4!1 BY <1>1, <1>3, <3>1 DEF TypeOK, ChunkTypes
    <3>2. CASE <1>4!2 BY <1>1, <1>3, <3>2 DEF TypeOK, ChunkTypes
    <3>3. CASE <1>4!3 BY <1>1, <1>3, <3>3 DEF TypeOK, ChunkTypes
    <3> QED BY <1>4, <3>1, <3>2, <3>3
  <2>5. ChunkTypes' BY <1>1, <1>2, <1>3, <2>4 DEF TypeOK, ChunkTypes, Took
  <2> QED BY <2>1, <2>3, <2>5 DEF TypeOK
<1>6. Same(p)
  <2>1. /\ down'[p] = down[p] /\ downchunk'[p] = downchunk[p] /\ buf'[p] = buf[p]
        /\ pend'[p] = pend[p] /\ loop'[p] = loop[p]
    <3>1. CASE <1>4!1 BY <1>1, <3>1 DEF TypeOK, ChunkTypes, StateTypes
    <3>2. CASE <1>4!2 BY <1>1, <3>2 DEF TypeOK, ChunkTypes, StateTypes
    <3>3. CASE <1>4!3 BY <1>1, <3>3 DEF TypeOK, ChunkTypes, StateTypes
    <3> QED BY <1>4, <3>1, <3>2, <3>3
  <2> QED BY <1>3, <2>1 DEF Same
<1>7. /\ OfferStep(e)
      /\ \/ /\ down[e] = "recv" /\ down'[e] = "write" /\ downchunk'[e] = c
            /\ buf'[e] = buf[e] /\ pend'[e] = pend[e] /\ loop'[e] = loop[e]
         \/ /\ down[e] # "recv" /\ buf[e] = 0 /\ buf'[e] = c /\ down'[e] = down[e]
            /\ downchunk'[e] = downchunk[e] /\ pend'[e] = pend[e] /\ loop'[e] = loop[e]
         \/ /\ down[e] # "recv" /\ buf[e] # 0 /\ pend'[e] = c /\ loop'[e] = "offer"
            /\ down'[e] = down[e] /\ downchunk'[e] = downchunk[e] /\ buf'[e] = buf[e]
  <2>1. CASE <1>4!1
    <3>1. down'[e] = "write" /\ downchunk'[e] = c BY <1>1, <2>1 DEF TypeOK, ChunkTypes, StateTypes
    <3> QED BY <1>3, <2>1, <3>1 DEF OfferStep, c
  <2>2. CASE <1>4!2
    <3>1. buf'[e] = c BY <1>1, <2>2 DEF TypeOK, ChunkTypes
    <3> QED BY <1>3, <2>2, <3>1 DEF OfferStep, c
  <2>3. CASE <1>4!3
    <3>1. pend'[e] = c /\ loop'[e] = "offer" BY <1>1, <2>3 DEF TypeOK, ChunkTypes, StateTypes
    <3> QED BY <1>3, <2>3, <3>1 DEF OfferStep, c
  <2> QED BY <1>4, <2>1, <2>2, <2>3
<1>8. /\ Delivered(e)' /\ InFlight(e)' /\ Taken(e)' = Taken(e) + 1 /\ c = Taken(e) + 1
  BY <1>1, <1>2, <1>3, <1>5, <1>6, <1>7, OfferFlow DEF c
<1>9. c # 0 BY <1>1, <1>8, CountsTyped
<1>10. End(e)'
  <2>1. Coroutines(e)' BY <1>1, <1>3, <1>7 DEF Coroutines
  <2>2. Buffers(e)' BY <1>1, <1>3, <1>7, <1>9 DEF Buffers
  <2>3. Registered(e)' BY <1>1, <1>3 DEF Registered
  <2> QED BY <2>1, <2>2, <2>3 DEF End
<1>11. main[e] \notin {"none", "open"} BY <1>1, <1>2, TookByStream
<1>12. SendStep(e)
  <2>1. Handed(e)' = Handed(e) BY <1>3 DEF Handed
  <2> QED BY <1>2, <2>1 DEF SendStep, Took
<1>13. WireStep(e) BY <1>2, <1>3 DEF WireStep
<1>14. FaultFree(e)'
  <2>1. down'[e] = down[e] \/ down[e] = "recv" BY <1>7
  <2> QED BY <1>1, <1>3, <2>1 DEF FaultFree
<1>15. FollowStep(e)
  <2>1. main'[e] = main[e] /\ up'[e] = up[e] /\ (down[e] # "close" => down'[e] # "close")
        /\ loop'[e] # "reply"
    BY <1>3, <1>7
  <2> QED BY <1>1, <1>2, <1>3, <2>1 DEF FollowStep, Follows, Took
<1>16. LeadStep(e) BY <1>1, <1>2, <1>3 DEF LeadStep, Follows, Took
<1> QED BY <1>3, <1>5, <1>6, <1>8, <1>10, <1>11, <1>12, <1>13, <1>14, <1>15, <1>16, PlainStep

\* A chunk of an unknown stream: the stream was closed here.
LEMMA LoopUnmatchedStep ==
    ASSUME Inv, NEW e \in Ends, LoopUnmatched(e)
    PROVE  Inv'
<1> DEFINE p == Peer(e)
<1>1. TypeOK /\ ControlInv /\ Coroutines(e) /\ Buffers(e) /\ Registered(e) /\ FaultFree(e)
      /\ Follows(e) /\ Follows(p) /\ p \in Ends /\ p # e /\ Peer(p) = e
  BY InvAt
<1>2. Took(e, "chunk") BY <1>1, ReceiveTakes DEF LoopUnmatched
<1>3. main[e] \notin {"none", "open"} BY <1>1, <1>2, TookByStream
<1>4. /\ closed[e] /\ ~registered[e] /\ loop[e] = "read" /\ pend[e] = 0 /\ buf[e] = 0
      /\ unmatched' = [unmatched EXCEPT ![e] = TRUE]
      /\ loop' = [loop EXCEPT ![e] = IF unmatched[e] THEN "read" ELSE "reply"]
      /\ UNCHANGED <<main, up, down, tclose, timer, registered, closed, buf, pend, upchunk,
                     downchunk, sock, app, supplied, rcvd, conn, faults>>
  <2>1. /\ ~registered[e] /\ loop[e] = "read"
        /\ unmatched' = [unmatched EXCEPT ![e] = TRUE]
        /\ loop' = [loop EXCEPT ![e] = IF unmatched[e] THEN "read" ELSE "reply"]
        /\ UNCHANGED <<main, up, down, tclose, timer, registered, closed, buf, pend, upchunk,
                       downchunk, sock, app, supplied, rcvd, conn, faults>>
    BY <1>2 DEF LoopUnmatched, appVars, Took
  <2>2. main[e] \in MainStates BY <1>1 DEF TypeOK, StateTypes
  <2>3. closed[e] BY <1>1, <1>3, <2>1, <2>2 DEF Registered, Coroutines, MainStates
  <2> QED BY <1>1, <2>1, <2>3 DEF Buffers
<1>5. loop'[e] \in {"read", "reply"} /\ loop'[p] = loop[p]
  BY <1>1, <1>4 DEF TypeOK, StateTypes
<1>6. TypeOK'
  <2>1. FlagTypes' BY <1>1, <1>4, Zenon DEF TypeOK, FlagTypes
  <2>2. StateTypes' BY <1>1, <1>4 DEF TypeOK, StateTypes
  <2>3. ChunkTypes' BY <1>1, <1>2, <1>4 DEF TypeOK, ChunkTypes, Took
  <2> QED BY <2>1, <2>2, <2>3 DEF TypeOK
<1>7. Same(p) BY <1>4, <1>5 DEF Same
<1>8. End(e)' BY <1>1, <1>4, <1>5 DEF End, Coroutines, Buffers, Registered
<1>9. SendStep(e)
  <2>1. Handed(e)' = Handed(e) BY <1>4 DEF Handed
  <2> QED BY <1>2, <2>1 DEF SendStep, Took
<1>10. ReceiveStep(e) BY <1>4 DEF ReceiveStep
<1>11. WireStep(e) BY <1>2, <1>4 DEF WireStep
<1>12. FaultFree(e)' BY <1>1, <1>4 DEF FaultFree
<1>13. ~(faults = {} /\ app[e] = "open")
  <2>1. 1 \in 1 .. Len(wire[p]) /\ wire[p][1].type = "chunk" BY <1>2, TailOfWire DEF Took
  <2> QED BY <1>1, <1>4, <2>1 DEF Follows
<1>14. FollowStep(e) BY <1>4, <1>13 DEF FollowStep
<1>15. LeadStep(e) BY <1>1, <1>2, <1>4 DEF LeadStep, Follows, Took
<1> QED BY <1>3, <1>4, <1>6, <1>7, <1>8, <1>9, <1>10, <1>11, <1>12, <1>14, <1>15, PlainStep

\* The read loop has written its forced STREAM_CLOSE.
LEMMA LoopReplyStep ==
    ASSUME Inv, NEW e \in Ends, LoopReply(e)
    PROVE  Inv'
<1>1. TypeOK /\ Coroutines(e) /\ Buffers(e) /\ Registered(e) /\ FaultFree(e) /\ Follows(e)
      /\ Peer(e) \in Ends /\ Peer(e) # e
  BY InvAt
<1>2. /\ loop[e] = "reply" /\ closed[e] /\ loop' = [loop EXCEPT ![e] = "read"]
      /\ loop'[e] = "read" /\ ~(faults = {} /\ app[e] = "open")
      /\ Sent(e, CloseEv) \/ (SendFails /\ UNCHANGED wire)
      /\ UNCHANGED <<main, up, down, tclose, timer, registered, closed, buf, pend, unmatched,
                     upchunk, downchunk, sock, app, supplied, rcvd, conn, faults>>
  BY <1>1 DEF LoopReply, streamVars, appVars, Coroutines, Follows, TypeOK, StateTypes
<1>3. FlagTypes' BY <1>1, <1>2, Zenon DEF TypeOK, FlagTypes
<1>4. StateTypes' BY <1>1, <1>2 DEF TypeOK, StateTypes
<1>5. Same(Peer(e)) BY <1>1, <1>2 DEF Same, TypeOK, StateTypes
<1>6. End(e)' BY <1>1, <1>2 DEF End, Coroutines, Buffers, Registered
<1>7. FaultFree(e)' BY <1>1, <1>2 DEF FaultFree
<1> QED BY <1>2, <1>3, <1>4, <1>5, <1>6, <1>7, CloseWritten

\* A STREAM_CLOSE arrives: if nothing fails, every chunk sent before it has
\* been taken by the read loop, and only one can still be buffered.
LEMMA LoopCloseStep ==
    ASSUME Inv, NEW e \in Ends, LoopClose(e)
    PROVE  Inv'
<1> DEFINE p == Peer(e)
<1>1. TypeOK /\ ControlInv /\ Coroutines(e) /\ Buffers(e) /\ Registered(e) /\ FaultFree(e)
      /\ Follows(e) /\ Follows(p) /\ Delivered(e) /\ InFlight(e) /\ p \in Ends /\ p # e /\ Peer(p) = e
  BY InvAt
<1>2. Took(e, "close") BY <1>1, ReceiveTakes DEF LoopClose
<1>3. main[e] \notin {"none", "open"} BY <1>1, <1>2, TookByStream
<1>4. UNCHANGED <<main, up, tclose, timer, upchunk, downchunk, sock, app, supplied, rcvd, conn,
                  faults>>
  BY DEF LoopClose, appVars
<1>5. ClosedBy(e, down[e])
  <2>1. registered[e] <=> ~closed[e]
    <3>1. main[e] \in MainStates BY <1>1 DEF TypeOK, StateTypes
    <3> QED BY <1>1, <1>3, <3>1 DEF Registered, Coroutines, MainStates
  <2> QED BY <1>1, <2>1, MaybeCloses DEF LoopClose
<1>6. TypeOK'
  <2>1. FlagTypes' BY <1>1, <1>4, <1>5, Zenon DEF TypeOK, FlagTypes, ClosedBy
  <2>2. StateTypes' BY <1>1, <1>4, <1>5 DEF TypeOK, StateTypes, ClosedBy
  <2>3. ChunkTypes' BY <1>1, <1>2, <1>4, <1>5 DEF TypeOK, ChunkTypes, ClosedBy, Took
  <2> QED BY <2>1, <2>2, <2>3 DEF TypeOK
<1>7. Same(p) BY <1>1, <1>4, <1>5 DEF Same, ClosedBy
<1>8. End(e)'
  <2>1. Coroutines(e)' BY <1>1, <1>4, <1>5 DEF Coroutines, ClosedBy
  <2>2. Buffers(e)' BY <1>1, <1>4, <1>5 DEF Buffers, ClosedBy
  <2>3. Registered(e)' BY <1>5 DEF Registered, ClosedBy
  <2> QED BY <2>1, <2>2, <2>3 DEF End
<1>9. SendStep(e)
  <2>1. Handed(e)' = Handed(e) BY <1>4 DEF Handed
  <2> QED BY <1>2, <2>1 DEF SendStep, Took
<1>10. Delivered(e)' /\ InFlight(e)'
  <2>1. ReceiveStep(e) BY <1>4, <1>5 DEF ReceiveStep, ClosedBy
  <2> QED BY <1>1, <1>4, <1>6, <1>7, <2>1, ReceiveFlow
<1>11. NotOpened' /\ NotAccepted' /\ OneOpen'
  <2>1. WireStep(e) BY <1>2, <1>4 DEF WireStep
  <2> QED BY <1>1, <1>3, <1>4, <1>6, <1>7, <2>1, OpenKept
<1>12. FaultFree(e)' BY <1>1, <1>4, <1>5 DEF FaultFree, ClosedBy
<1>13. 1 \in 1 .. Len(wire[p]) /\ wire[p][1].type = "close" BY <1>2, TailOfWire DEF Took
<1>14. LeadStep(e)
  <2>1. ~(faults = {} /\ app[p] = "open") BY <1>1, <1>13 DEF Follows
  <2> QED BY <1>4, <2>1 DEF LeadStep
<1>15. Follows(e)'
  <2>1. CASE closed[e] \/ ~(faults = {} /\ app[e] = "open")
    <3>1. Len(rcvd'[e]) + One(downchunk'[e]) >= Len(rcvd[e]) + One(downchunk[e])
      BY <1>1, <1>4, NothingLess
    <3>2. FollowStep(e)
      BY <1>1, <1>2, <1>4, <1>5, <2>1, <3>1 DEF FollowStep, Follows, ClosedBy, Took
    <3> QED BY <1>1, <1>6, <1>7, <3>2, FollowerKeeps
  <2>2. CASE ~closed[e] /\ faults = {} /\ app[e] = "open"
    <3>1. /\ conn /\ main[e] # "close" /\ up[e] # "close" /\ down[e] # "close" /\ loop[e] # "reply"
          /\ \A i \in 1 .. Len(wire[e]) : wire[e][i].type # "close"
          /\ closed[p] /\ supplied[p] = Chunks[p] /\ upchunk[p] = 0 /\ main[p] # "open"
          /\ \A j \in 1 .. Len(wire[p]) : wire[p][j].type # "chunk"
      BY <1>1, <1>13, <2>2 DEF Follows
    <3>2. Len(rcvd[e]) + One(downchunk[e]) + 1 >= supplied[p]
      <4>1. Taken(e) \in Nat /\ Handed(p) = supplied[p] /\ supplied[p] \in Nat
        <5>1. supplied[p] \in Nat BY <1>1 DEF TypeOK, ChunkTypes
        <5>2. Handed(p) = supplied[p] BY <1>1, <3>1, HandedIs
        <5> QED BY <1>1, <5>1, <5>2, CountsTyped
      <4>2. ~ Taken(e) + 1 <= Handed(p)
        BY <1>1, <2>2, <3>1, <4>1 DEF InFlight, Carries
      <4>3. One(pend[e]) = 0 BY <1>1, <1>2 DEF Took, Buffers, One
      <4>4. /\ Len(rcvd[e]) \in Nat /\ One(downchunk[e]) \in {0, 1} /\ One(buf[e]) \in {0, 1}
        BY <1>1, CountsTyped
      <4>5. Taken(e) = Len(rcvd[e]) + One(downchunk[e]) + One(buf[e]) BY <4>3, <4>4 DEF Taken
      <4> QED BY <4>1, <4>2, <4>4, <4>5
    <3>3. \A i \in 1 .. Len(wire'[p]) : wire'[p][i].type # "chunk"
      <4>1. /\ wire'[p] = Tail(wire[p])
            /\ \A i \in 1 .. Len(Tail(wire[p])) :
                   i + 1 \in 1 .. Len(wire[p]) /\ Tail(wire[p])[i] = wire[p][i + 1]
        BY <1>2, TailOfWire DEF Took
      <4> QED BY <3>1, <4>1
    <3>4. \A i \in 1 .. Len(wire'[p]) : \A j \in i .. Len(wire'[p]) : wire'[p][j].type # "chunk"
      <4>1. Len(wire'[p]) \in Nat BY <1>1, <1>6 DEF TypeOK, ChunkTypes
      <4>2. \A i \in 1 .. Len(wire'[p]) : \A j \in i .. Len(wire'[p]) : j \in 1 .. Len(wire'[p])
        BY <4>1
      <4> QED BY <3>3, <4>2
    <3>5. /\ main'[e] # "close" /\ up'[e] # "close" /\ down'[e] # "close" /\ loop'[e] # "reply"
          /\ conn' /\ wire'[e] = wire[e] /\ rcvd'[e] = rcvd[e] /\ downchunk'[e] = downchunk[e]
          /\ closed'[p] /\ supplied'[p] = Chunks[p] /\ upchunk'[p] = 0 /\ main'[p] # "open"
          /\ supplied'[p] = supplied[p]
      BY <1>1, <1>2, <1>4, <1>5, <3>1 DEF ClosedBy, Took
    <3> QED BY <3>1, <3>2, <3>3, <3>4, <3>5 DEF Follows
  <2> QED BY <2>1, <2>2
<1> QED BY <1>6, <1>7, <1>8, <1>9, <1>10, <1>11, <1>12, <1>14, <1>15, StepOfEnd

\* The STREAM_OPEN arrives: relay_handler starts.
LEMMA LoopOpenStep ==
    ASSUME Inv, NEW e \in Ends, LoopOpen(e)
    PROVE  Inv'
<1> DEFINE p == Peer(e)
<1>1. TypeOK /\ ControlInv /\ Coroutines(e) /\ Buffers(e) /\ Registered(e) /\ FaultFree(e)
      /\ Follows(e) /\ Follows(p) /\ Delivered(e) /\ InFlight(e) /\ p \in Ends /\ p # e /\ Peer(p) = e
  BY InvAt
<1>2. Took(e, "open") BY <1>1, ReceiveTakes DEF LoopOpen
<1>3. 1 \in 1 .. Len(wire[p]) /\ wire[p][1].type = "open" BY <1>2, TailOfWire DEF Took
<1>4. e = "exit" /\ p = "entry"
  <2>1. e # "entry" BY <1>1, <1>3, TwoEnds DEF ControlInv, OneOpen
  <2> QED BY <2>1, TwoEnds DEF Ends
<1>5. main[e] = "none" /\ main[p] # "open"
  <2>1. main[e] = "none" BY <1>1, <1>3, <1>4 DEF ControlInv, OneOpen
  <2> QED BY <1>1, <1>2, <1>4, <2>1 DEF ControlInv, NotOpened, Took
<1>6. /\ ~closed[e] /\ main' = [main EXCEPT ![e] = "connect"] /\ main'[e] = "connect"
      /\ registered' = [registered EXCEPT ![e] = TRUE] /\ registered'[e]
      /\ timer' = [timer EXCEPT ![e] = "armed"]
      /\ UNCHANGED <<up, down, loop, tclose, closed, buf, pend, upchunk, downchunk, unmatched,
                     sock, app, supplied, rcvd, conn, faults>>
  BY <1>1, <1>4, <1>5 DEF LoopOpen, appVars, TypeOK, StateTypes, FlagTypes, ControlInv, NotAccepted
<1>7. TypeOK'
  <2>1. FlagTypes' BY <1>1, <1>6, Zenon DEF TypeOK, FlagTypes
  <2>2. StateTypes' BY <1>1, <1>6 DEF TypeOK, StateTypes, MainStates
  <2>3. ChunkTypes' BY <1>1, <1>2, <1>6 DEF TypeOK, ChunkTypes, Took
  <2> QED BY <2>1, <2>2, <2>3 DEF TypeOK
<1>8. Same(p) BY <1>1, <1>6 DEF Same, TypeOK, StateTypes, FlagTypes
<1>9. End(e)' BY <1>1, <1>5, <1>6 DEF End, Coroutines, Buffers, Registered
<1>10. NotOpened' /\ NotAccepted' /\ OneOpen'
  <2>1. NotOpened' BY <1>4, <1>5, <1>8 DEF NotOpened, Same
  <2>2. NotAccepted' BY <1>4, <1>6 DEF NotAccepted
  <2>3. \A i \in 1 .. Len(wire'[p]) : wire'[p][i].type # "open"
    <3>1. /\ wire'[p] = Tail(wire[p]) /\ Len(Tail(wire[p])) \in Nat
          /\ \A i \in 1 .. Len(Tail(wire[p])) :
                 i + 1 \in 1 .. Len(wire[p]) /\ Tail(wire[p])[i] = wire[p][i + 1]
      BY <1>2, TailOfWire DEF Took
    <3>2. \A i \in 1 .. Len(wire[p]) : wire[p][i].type = "open" => i = 1
      BY <1>1, <1>4 DEF ControlInv, OneOpen
    <3> QED BY <3>1, <3>2
  <2>4. /\ wire'[e] = wire[e] /\ conn' /\ main'[p] = main[p]
    BY <1>2, <1>6, <1>8 DEF Took, Same
  <2>5. OneOpen' BY <1>1, <1>4, <1>6, <2>3, <2>4 DEF OneOpen, ControlInv
  <2> QED BY <2>1, <2>2, <2>5
<1>11. SendStep(e)
  <2>1. Handed(e)' = Handed(e) BY <1>6 DEF Handed
  <2> QED BY <1>2, <2>1 DEF SendStep, Took
<1>12. Delivered(e)' /\ InFlight(e)'
  <2>1. ReceiveStep(e) BY <1>2, <1>6 DEF ReceiveStep
  <2> QED BY <1>1, <1>6, <1>7, <1>8, <2>1, ReceiveFlow
<1>13. FaultFree(e)' BY <1>1, <1>6 DEF FaultFree
<1>14. Follows(e)'
  <2>1. FollowStep(e) BY <1>1, <1>2, <1>6 DEF FollowStep, Follows, Took
  <2> QED BY <1>1, <1>7, <1>8, <2>1, FollowerKeeps
<1>15. LeadStep(e) BY <1>1, <1>2, <1>6 DEF LeadStep, Follows, Took
<1> QED BY <1>7, <1>8, <1>9, <1>10, <1>11, <1>12, <1>13, <1>14, <1>15, StepOfEnd

(***************************************************************************)
(* The timer, the applications and the connection.                         *)
(***************************************************************************)

\* A step that touches the socket, the timer or the application only.
LEMMA OutsideStep ==
    ASSUME Inv, NEW e \in Ends,
           UNCHANGED <<main, up, down, loop, tclose, registered, closed, buf, pend, unmatched,
                       upchunk, downchunk, supplied, rcvd, wire, conn, faults>>,
           TypeOK', Same(Peer(e)), End(e)', FaultFree(e)', timer'["exit"] = timer["exit"],
           app'[Peer(e)] = app[Peer(e)], app'[e] = "open" => app[e] = "open"
    PROVE  Inv'
<1>1. TypeOK /\ ControlInv /\ Follows(e) /\ Follows(Peer(e)) /\ Delivered(e) /\ InFlight(e)
      /\ Peer(e) \in Ends /\ Peer(Peer(e)) = e
  BY InvAt
<1>2. NotOpened' /\ NotAccepted' /\ OneOpen'
  BY <1>1 DEF ControlInv, NotOpened, NotAccepted, OneOpen
<1>3. SendStep(e)
  <2>1. Handed(e)' = Handed(e) BY DEF Handed
  <2> QED BY <2>1 DEF SendStep
<1>4. Delivered(e)' /\ InFlight(e)'
  BY <1>1, ReceiveFlow DEF ReceiveStep
<1>5. Follows(e)'
  <2>1. Len(rcvd'[e]) + One(downchunk'[e]) >= Len(rcvd[e]) + One(downchunk[e])
    BY <1>1, NothingLess
  <2>2. FollowStep(e) BY <1>1, <2>1 DEF FollowStep, Follows
  <2> QED BY <1>1, <2>2, FollowerKeeps
<1>6. LeadStep(e) BY <1>1 DEF LeadStep, Follows
<1> QED BY <1>2, <1>3, <1>4, <1>5, <1>6, StepOfEnd

\* The timer of the entry closes the application's socket.
LEMMA TimeoutEntryStep ==
    ASSUME Inv, TimeoutEntry
    PROVE  Inv'
<1> DEFINE e == "entry"
<1>0. e \in Ends /\ "exit" \in Ends /\ e # "exit" BY TwoEnds
<1>1. TypeOK /\ Coroutines(e) /\ Buffers(e) /\ Registered(e) /\ Peer(e) \in Ends /\ Peer(e) # e
  BY <1>0, InvAt
<1> HIDE DEF e
<1>2. /\ faults # {} /\ main[e] \in {"open", "first", "run"}
      /\ timer' = [timer EXCEPT ![e] = "fired"] /\ sock' = [sock EXCEPT ![e] = FALSE]
      /\ UNCHANGED <<main, up, down, loop, tclose, registered, closed, buf, pend, unmatched,
                     upchunk, downchunk, app, supplied, rcvd, wire, conn, faults>>
  BY DEF e, TimeoutEntry, streamVars, appVars
<1>3. TypeOK'
  <2>1. FlagTypes' BY <1>1, <1>2, Zenon DEF TypeOK, FlagTypes
  <2>2. StateTypes' BY <1>1, <1>2 DEF TypeOK, StateTypes
  <2>3. ChunkTypes' BY <1>1, <1>2 DEF TypeOK, ChunkTypes
  <2> QED BY <2>1, <2>2, <2>3 DEF TypeOK
<1>4. Same(Peer(e)) BY <1>1, <1>2 DEF Same, TypeOK, StateTypes, FlagTypes
<1>5. ~sock'[e] /\ timer'["exit"] = timer["exit"]
  BY <1>0, <1>1, <1>2 DEF TypeOK, StateTypes, FlagTypes
<1>6. End(e)' BY <1>1, <1>2, <1>5 DEF End, Coroutines, Buffers, Registered
<1>7. FaultFree(e)' BY <1>2 DEF FaultFree
<1> QED BY <1>0, <1>2, <1>3, <1>4, <1>5, <1>6, <1>7, OutsideStep

\* An application closes or resets its socket.
LEMMA AppEndsStep ==
    ASSUME Inv, NEW e \in Ends, AppEnds(e)
    PROVE  Inv'
<1>1. TypeOK /\ Coroutines(e) /\ Buffers(e) /\ Registered(e) /\ FaultFree(e)
      /\ Peer(e) \in Ends /\ Peer(e) # e
  BY InvAt
<1>2. PICK a \in {"eof"} \cup (faults \cap {"reset"}) : app' = [app EXCEPT ![e] = a]
  BY DEF AppEnds
<1>3. /\ a \in {"eof", "reset"} /\ (faults = {} => a # "reset")
      /\ UNCHANGED <<main, up, down, loop, tclose, timer, registered, closed, buf, pend, unmatched,
                     upchunk, downchunk, sock, supplied, rcvd, wire, conn, faults>>
  BY DEF AppEnds, streamVars
<1>4. TypeOK'
  <2>1. FlagTypes' BY <1>1, <1>3, Zenon DEF TypeOK, FlagTypes
  <2>2. StateTypes' BY <1>1, <1>2, <1>3 DEF TypeOK, StateTypes
  <2>3. ChunkTypes' BY <1>1, <1>3 DEF TypeOK, ChunkTypes
  <2> QED BY <2>1, <2>2, <2>3 DEF TypeOK
<1>5. Same(Peer(e)) BY <1>3 DEF Same
<1>6. app'[e] = a /\ app'[Peer(e)] = app[Peer(e)] BY <1>1, <1>2 DEF TypeOK, StateTypes
<1>7. End(e)' BY <1>1, <1>3 DEF End, Coroutines, Buffers, Registered
<1>8. FaultFree(e)' BY <1>1, <1>3, <1>6 DEF FaultFree
<1> QED BY <1>3, <1>4, <1>5, <1>6, <1>7, <1>8, OutsideStep

\* The timer of the exit closes the stream.
LEMMA TimeoutExitStep ==
    ASSUME Inv, TimeoutExit
    PROVE  Inv'
<1> DEFINE e == "exit"
<1>0. e \in Ends BY TwoEnds
<1>1. TypeOK /\ Coroutines(e) /\ Buffers(e) /\ Registered(e) /\ Peer(e) \in Ends /\ Peer(e) # e
  BY <1>0, InvAt
<1> HIDE DEF e
<1>2. /\ faults # {} /\ main[e] \in {"connect", "run"}
      /\ timer' = [timer EXCEPT ![e] = "fired"]
      /\ UNCHANGED <<main, up, upchunk, downchunk, sock, app, supplied, rcvd, wire, conn, faults>>
  BY DEF e, TimeoutExit, appVars
<1>3. ClosedBy(e, down[e])
  BY <1>0, <1>1, MaybeCloses DEF e, TimeoutExit
<1>4. tclose' = tclose \/ tclose' = [tclose EXCEPT ![e] = TRUE] BY DEF e, TimeoutExit
<1>5. TypeOK'
  <2>1. tclose' \in [Ends -> BOOLEAN] BY <1>1, <1>4, Zenon DEF TypeOK, FlagTypes
  <2>2. FlagTypes' BY <1>1, <1>2, <1>3, <2>1, Zenon DEF TypeOK, FlagTypes, ClosedBy
  <2>3. StateTypes' BY <1>1, <1>2, <1>3 DEF TypeOK, StateTypes, ClosedBy
  <2>4. ChunkTypes' BY <1>1, <1>2, <1>3 DEF TypeOK, ChunkTypes, ClosedBy
  <2> QED BY <2>2, <2>3, <2>4 DEF TypeOK
<1>6. Same(Peer(e))
  <2>1. tclose'[Peer(e)] = tclose[Peer(e)] BY <1>1, <1>4 DEF TypeOK, FlagTypes
  <2> QED BY <1>1, <1>2, <1>3, <2>1 DEF Same, TypeOK, StateTypes, ClosedBy
<1>7. End(e)' BY <1>1, <1>2, <1>3 DEF End, Coroutines, Buffers, Registered, ClosedBy
<1>8. SendStep(e)
  <2>1. Handed(e)' = Handed(e) BY <1>2 DEF Handed
  <2> QED BY <1>2, <2>1 DEF SendStep
<1>9. ReceiveStep(e) BY <1>2, <1>3 DEF ReceiveStep, ClosedBy
<1>10. WireStep(e) BY <1>2 DEF WireStep
<1>11. FaultFree(e)' /\ FollowStep(e) /\ LeadStep(e)
  BY <1>2 DEF FaultFree, FollowStep, LeadStep
<1> QED BY <1>0, <1>2, <1>5, <1>6, <1>7, <1>8, <1>9, <1>10, <1>11, PlainStep

\* The callback of the timer has written its STREAM_CLOSE.
LEMMA TimeoutClosedStep ==
    ASSUME Inv, TimeoutClosed
    PROVE  Inv'
<1> DEFINE e == "exit"
<1>0. e \in Ends BY TwoEnds
<1>1. TypeOK /\ Coroutines(e) /\ Buffers(e) /\ Registered(e) /\ FaultFree(e) /\ Follows(e)
      /\ Peer(e) \in Ends /\ Peer(e) # e
  BY <1>0, InvAt
<1> HIDE DEF e
<1>2. /\ tclose[e] /\ tclose' = [tclose EXCEPT ![e] = FALSE]
      /\ Sent(e, CloseEv) \/ (SendFails /\ UNCHANGED wire)
      /\ UNCHANGED <<main, up, down, loop, timer, registered, closed, buf, pend, unmatched,
                     upchunk, downchunk, sock, app, supplied, rcvd, conn, faults>>
  BY DEF e, TimeoutClosed, streamVars, appVars
<1>3. closed[e] /\ faults # {} BY <1>1, <1>2 DEF Coroutines, FaultFree
<1>4. FlagTypes' BY <1>1, <1>2, Zenon DEF TypeOK, FlagTypes
<1>5. StateTypes' BY <1>1, <1>2 DEF TypeOK, StateTypes
<1>6. Same(Peer(e)) BY <1>1, <1>2 DEF Same, TypeOK, FlagTypes
<1>7. End(e)' BY <1>1, <1>2, <1>3 DEF End, Coroutines, Buffers, Registered
<1>8. FaultFree(e)' BY <1>2, <1>3 DEF FaultFree
<1> QED BY <1>0, <1>2, <1>3, <1>4, <1>5, <1>6, <1>7, <1>8, CloseWritten

\* The connection goes, with what was on it, while something fails or both
\* applications have closed.
LEMMA DisconnectStep ==
    ASSUME Inv, Disconnect, \A e \in Ends : ~(faults = {} /\ app[e] = "open")
    PROVE  Inv'
<1>1. /\ ~conn' /\ wire' = [e \in Ends |-> <<>>]
      /\ UNCHANGED <<main, up, down, loop, tclose, timer, registered, closed, buf, pend, unmatched,
                     upchunk, downchunk, sock, app, supplied, rcvd, faults>>
      /\ conn' = FALSE
  BY DEF Disconnect, streamVars, appVars
<1>2. TypeOK
  BY DEF Inv, RelayInv, ControlInv
<1>3. TypeOK'
  <2>1. FlagTypes' BY <1>1, <1>2, Zenon DEF TypeOK, FlagTypes
  <2>2. StateTypes' BY <1>1, <1>2 DEF TypeOK, StateTypes
  <2>3. wire' \in [Ends -> Seq(EventOf)] BY <1>1
  <2>4. ChunkTypes' BY <1>1, <1>2, <2>3 DEF TypeOK, ChunkTypes
  <2> QED BY <2>1, <2>2, <2>4 DEF TypeOK
<1>4. wire'["entry"] = <<>> /\ wire'["exit"] = <<>> /\ \A e \in Ends : wire'[e] = <<>>
  BY <1>1, TwoEnds
<1>5. NotOpened' BY <1>1, <1>4 DEF Inv, RelayInv, ControlInv, NotOpened
<1>6. NotAccepted' BY <1>1, <1>4 DEF Inv, RelayInv, ControlInv, NotAccepted
<1>7. OneOpen'
  <2>1. Len(wire'["entry"]) = 0 /\ Len(wire'["exit"]) = 0 BY <1>4
  <2>2. \A i \in 1 .. Len(wire'["entry"]) : FALSE BY <2>1
  <2>3. \A i \in 1 .. Len(wire'["exit"]) : FALSE BY <2>1
  <2> QED BY <1>1, <1>4, <2>2, <2>3 DEF Inv, RelayInv, ControlInv, OneOpen
<1>8. ASSUME NEW e \in Ends
      PROVE  End(e)' /\ Delivered(e)' /\ InFlight(e)' /\ FaultFree(e)' /\ Follows(e)'
  <2>1. End(e)'
    BY <1>1 DEF Inv, RelayInv, ControlInv, End, Coroutines, Buffers, Registered
  <2>2. Taken(e)' = Taken(e) /\ Handed(Peer(e))' = Handed(Peer(e)) BY <1>1 DEF Taken, Handed
  <2>3. Delivered(e)' BY <1>1, <2>2 DEF Inv, RelayInv, FlowInv, Delivered
  <2>4. InFlight(e)' BY <1>1 DEF InFlight
  <2>5. FaultFree(e)' BY <1>1 DEF Inv, LossInv, FaultFree
  <2>6. Follows(e)' BY <1>1 DEF Follows
  <2> QED BY <2>1, <2>3, <2>4, <2>5, <2>6
<1> QED BY <1>3, <1>5, <1>6, <1>7, <1>8 DEF Inv, RelayInv, ControlInv, FlowInv, LossInv

\* The connection is lost.
LEMMA ConnectionLostStep ==
    ASSUME Inv, ConnectionLost
    PROVE  Inv'
BY DisconnectStep DEF ConnectionLost

\* A connection whose read loops wait for each other is given up: each of them
\* is answering a chunk, which it does only if its own application has closed.
LEMMA ReportStatInfoStep ==
    ASSUME Inv, ReportStatInfo
    PROVE  Inv'
<1>1. \A e \in Ends : ~(faults = {} /\ app[e] = "open")
  BY InvAt DEF ReportStatInfo, LoopsWaitForEachOther, Follows
<1> QED BY <1>1, DisconnectStep DEF ReportStatInfo

-----------------------------------------------------------------------------
(***************************************************************************)
(* The specification.                                                      *)
(***************************************************************************)

\* The relay of the entry is about to open the stream; the exit has none.
LEMMA RelayInit ==
    ASSUME Init
    PROVE  Inv
<1>1. /\ main["entry"] = "open" /\ main["exit"] = "none" /\ timer["entry"] = "armed"
      /\ timer["exit"] = "off" /\ registered["entry"] /\ ~registered["exit"]
      /\ sock["entry"] /\ ~sock["exit"] /\ conn /\ faults \in {{}, Faults}
      /\ \A e \in Ends : /\ main[e] \in {"open", "none"} /\ up[e] = "off" /\ down[e] = "off"
                         /\ loop[e] = "read" /\ ~tclose[e] /\ ~closed[e] /\ buf[e] = 0
                         /\ pend[e] = 0 /\ upchunk[e] = 0 /\ downchunk[e] = 0 /\ app[e] = "open"
                         /\ supplied[e] = 0 /\ rcvd[e] = <<>> /\ wire[e] = <<>>
                         /\ (main[e] = "open" <=> registered[e]) /\ (main[e] = "open" <=> sock[e])
  BY DEF Init, Ends
<1>2. TypeOK
  <2>1. FlagTypes BY Zenon DEF Init, FlagTypes
  <2>2. StateTypes BY DEF Init, StateTypes, MainStates, UpStates, DownStates
  <2>3. ChunkTypes BY DEF Init, ChunkTypes
  <2> QED BY <2>1, <2>2, <2>3 DEF TypeOK
<1>3. \A e \in Ends : Len(wire[e]) = 0 /\ Len(rcvd[e]) = 0 /\ Taken(e) = 0 /\ Handed(e) = 0
  <2> SUFFICES ASSUME NEW e \in Ends
               PROVE  Len(wire[e]) = 0 /\ Len(rcvd[e]) = 0 /\ Taken(e) = 0 /\ Handed(e) = 0
    OBVIOUS
  <2>1. Len(wire[e]) = 0 /\ Len(rcvd[e]) = 0 BY <1>1
  <2>2. One(downchunk[e]) = 0 /\ One(buf[e]) = 0 /\ One(pend[e]) = 0 /\ One(upchunk[e]) = 0
    BY <1>1 DEF One
  <2> QED BY <1>1, <2>1, <2>2 DEF Taken, Handed
<1>4. \A e \in Ends : \A i \in 1 .. Len(wire[e]) : FALSE BY <1>3
<1>5. ASSUME NEW e \in Ends
      PROVE  End(e) /\ Delivered(e) /\ InFlight(e) /\ FaultFree(e) /\ Follows(e)
  <2>0. Peer(e) \in Ends BY TwoEnds
  <2>1. End(e) BY <1>1 DEF End, Coroutines, Buffers, Registered
  <2>2. Delivered(e)
    <3>1. \A i \in 1 .. Len(rcvd[e]) : FALSE BY <1>3
    <3> QED BY <1>1, <1>3, <2>0, <3>1 DEF Delivered
  <2>3. InFlight(e)
    <3>1. \A k \in (Taken(e) + 1) .. Handed(Peer(e)) : FALSE BY <1>3, <2>0
    <3> QED BY <1>4, <2>0, <3>1 DEF InFlight, Carries
  <2>4. FaultFree(e) BY <1>1 DEF FaultFree
  <2>5. Follows(e) BY <1>1, <1>4, <2>0 DEF Follows
  <2> QED BY <2>1, <2>2, <2>3, <2>4, <2>5
<1>6. NotOpened /\ NotAccepted BY <1>1, TwoEnds DEF NotOpened, NotAccepted
<1>7. OneOpen BY <1>1, <1>4, TwoEnds DEF OneOpen
<1> QED BY <1>2, <1>5, <1>6, <1>7 DEF Inv, RelayInv, ControlInv, FlowInv, LossInv

\* Every step of the two ends, of the timers and of the connection keeps the
\* invariant.
LEMMA RelayNext ==
    ASSUME Inv, [Next]_vars
    PROVE  Inv'
<1>1. ASSUME NEW e \in Ends, Relay(e) PROVE Inv'
  BY <1>1, RelayJoinStep, RelayClosedStep, RelayOpenStep, RelayFirstStep, RelayConnectedStep,
     RelayConnectFailsStep DEF Relay
<1>2. ASSUME NEW e \in Ends, Up(e) PROVE Inv'
  BY <1>2, UpReadStep, UpWriteStep, UpEndStep, UpClosedStep DEF Up
<1>3. ASSUME NEW e \in Ends, Down(e) PROVE Inv'
  BY <1>3, DownWriteStep, DownEndStep, DownClosedStep DEF Down
<1>4. ASSUME NEW e \in Ends, Loop(e) PROVE Inv'
  BY <1>4, LoopOpenStep, LoopOfferStep, LoopUnmatchedStep, LoopReplyStep, LoopCloseStep DEF Loop
<1>5. ASSUME NEW e \in Ends, AppEnds(e) PROVE Inv'
  BY <1>5, AppEndsStep
<1>6. CASE Timer BY <1>6, TimeoutEntryStep, TimeoutExitStep, TimeoutClosedStep DEF Timer
<1>7. CASE ConnectionLost \/ ReportStatInfo BY <1>7, ConnectionLostStep, ReportStatInfoStep
<1>8. CASE UNCHANGED vars
  <2>1. UNCHANGED <<main, up, down, loop, tclose, timer, registered, closed, buf, pend, upchunk,
                    downchunk, unmatched, sock, app, supplied, rcvd, wire, conn, faults>>
    BY <1>8 DEF vars
  <2>2. TypeOK'
    <3>1. TypeOK BY DEF Inv, RelayInv, ControlInv
    <3>2. FlagTypes' BY <2>1, <3>1, Zenon DEF TypeOK, FlagTypes
    <3>3. StateTypes' BY <2>1, <3>1 DEF TypeOK, StateTypes
    <3>4. ChunkTypes' BY <2>1, <3>1 DEF TypeOK, ChunkTypes
    <3> QED BY <3>2, <3>3, <3>4 DEF TypeOK
  <2>3. "entry" \in Ends /\ TypeOK /\ Coroutines("entry") /\ Buffers("entry")
        /\ Registered("entry") /\ FaultFree("entry")
    BY TwoEnds, InvAt
  <2>4. Same(Peer("entry")) BY <2>1 DEF Same
  <2>5. End("entry")' /\ FaultFree("entry")'
    BY <2>1, <2>3 DEF End, Coroutines, Buffers, Registered, FaultFree
  <2> QED BY <2>1, <2>2, <2>3, <2>4, <2>5, OutsideStep
<1> QED BY <1>1, <1>2, <1>3, <1>4, <1>5, <1>6, <1>7, <1>8 DEF Next, Finished

\* The invariant of one proxied stream: where the coroutines of each end, the
\* STREAM_OPEN and every chunk of either direction are.
THEOREM StreamInvariant == Spec => []Inv
<1>1. Init => Inv BY RelayInit
<1>2. Inv /\ [Next]_vars => Inv' BY RelayNext
<1> QED BY <1>1, <1>2, PTL DEF Spec

\* What an application receives is what the other one sent, in order, without
\* a gap, a duplicate or an invention, however the stream ends: through the
\* blocked Offer of the read loop, the buffer of one chunk, the transfer that
\* holds one, and any failure (MuxStream::Offer, MuxStream::Read, transfer).
THEOREM StreamOrdered == Spec => []InOrder
<1>1. Inv => InOrder
  <2> SUFFICES ASSUME Inv, NEW e \in Ends
               PROVE  /\ \A i \in 1 .. Len(rcvd[e]) : rcvd[e][i] = i
                      /\ Len(rcvd[e]) <= supplied[Peer(e)]
    BY DEF InOrder
  <2>1. TypeOK /\ Delivered(e) /\ Peer(e) \in Ends BY InvAt
  <2>2. /\ Len(rcvd[e]) \in Nat /\ Handed(Peer(e)) \in Int /\ Handed(Peer(e)) <= supplied[Peer(e)]
        /\ One(downchunk[e]) \in {0, 1} /\ One(buf[e]) \in {0, 1} /\ One(pend[e]) \in {0, 1}
    BY <2>1, CountsTyped
  <2>3. supplied[Peer(e)] \in Nat BY <2>1 DEF TypeOK, ChunkTypes
  <2>4. Len(rcvd[e]) + One(downchunk[e]) + One(buf[e]) + One(pend[e]) <= Handed(Peer(e))
    BY <2>1 DEF Delivered, Taken
  <2>5. Len(rcvd[e]) <= supplied[Peer(e)] BY <2>2, <2>3, <2>4
  <2> QED BY <2>1, <2>5 DEF Delivered
<1> QED BY <1>1, StreamInvariant, PTL

\* A stream is in g_streams exactly while its relay runs and it is not closed,
\* and a relay that has returned leaves no table entry, open socket or timer,
\* whichever of the transfers, the read loop, the timer or a failed write
\* closed it first (MuxStream::Close, do_relay).
THEOREM StreamTable == Spec => []TableExact
<1>1. Inv => TableExact
  BY InvAt DEF TableExact, Registered, Coroutines
<1> QED BY <1>1, StreamInvariant, PTL

\* When one application sends everything and closes, and nothing fails, the
\* other one misses at most the chunk that was in data_channel_ when the
\* STREAM_CLOSE arrived (MuxStream::Close drops it, ProcessReadEvent).
THEOREM StreamLoss == Spec => []LosesAtMostLast
<1>1. Inv => LosesAtMostLast
  <2> SUFFICES ASSUME Inv, NEW e \in Ends, faults = {}, main[e] = "done", app[e] = "open"
               PROVE  Len(rcvd[e]) + 1 >= supplied[Peer(e)]
    BY DEF LosesAtMostLast
  <2>1. TypeOK /\ Coroutines(e) /\ Buffers(e) /\ Follows(e) BY InvAt
  <2>2. closed[e] /\ down[e] # "write" BY <2>1 DEF Coroutines
  <2>3. One(downchunk[e]) = 0 BY <2>1, <2>2 DEF Buffers, One
  <2>4. Len(rcvd[e]) \in Nat BY <2>1, CountsTyped
  <2>5. Len(rcvd[e]) + One(downchunk[e]) + 1 >= supplied[Peer(e)] BY <2>1, <2>2 DEF Follows
  <2> QED BY <2>3, <2>4, <2>5
<1> QED BY <1>1, StreamInvariant, PTL
=============================================================================
