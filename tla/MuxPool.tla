------------------------------- MODULE MuxPool -------------------------------
(***************************************************************************)
(* The connections between one mux client and its server: MuxClient keeps  *)
(* a slot per connection, refills empty slots and retires expired          *)
(* connections (CheckConnections); the server's handle_conn keeps them in  *)
(* the MuxSession of the client (MuxConnManager::Add and Remove).  One     *)
(* stream writes its open event and its chunks through the client's        *)
(* session, as MuxStream::WriteEvent does; the server's read loops deliver *)
(* them.                                                                   *)
(***************************************************************************)
EXTENDS Integers, Sequences, FiniteSets

CONSTANTS
    N,            \* g_conn_num_per_server
    MaxConns,     \* bound on the connections ever made
    MaxRetires,   \* bound on the connections that expire
    MaxFails,     \* bound on the connections that break
    Chunks        \* chunks the stream writes after its open event

ASSUME NAssumption == N \in Nat \ {0}
ASSUME BoundsAssumption ==
    MaxConns \in Nat /\ MaxRetires \in Nat /\ MaxFails \in Nat /\ Chunks \in Nat

Slots == 1 .. N
Conns == 1 .. MaxConns
Null == 0
Tries == 3              \* attempts of WriteEvent

VARIABLES
    slot,       \* MuxClient: remote_session_->conns
    chk,        \* Init, then CheckConnections: where it is, and at which slot;
                \* "exit": the process has exited
    next,       \* the connection NewConnection makes next
    cloop,      \* client's read loop: "none", "connecting", "running", "exited"
    idx,        \* the slot a connection was made for
    cretired,   \* MuxConnection::retired_ of the client
    ctimer,     \* the client's timer of a retired connection is armed
    sloop,      \* server's handle_conn: "none", "running", "exited"
    sretired,   \* MuxConnection::retired_ of the server
    session,    \* which MuxSession is in the table, 0 for none
    conns,      \* MuxSession::conns of that session
    sessions,   \* sessions made so far
    alive,      \* the TCP connection works
    wire,       \* events from client to server, per connection
    writer,     \* the stream's event_writer_: a slot, Null for none
    wpc,        \* the stream's WriteEvent: "idle", "writing", "closed"
    wconn,      \* the connection it writes to
    tries,      \* attempts made
    closing,    \* the event being written is the STREAM_CLOSE
    sent,       \* events written so far, the open event included
    rcvd,       \* events of the stream in the order the server handled them
    retires, fails

clientVars == <<slot, chk, next, cloop, idx, cretired, ctimer>>
serverVars == <<sloop, sretired, session, conns, sessions>>
streamVars == <<writer, wpc, wconn, tries, closing, sent>>
vars == <<clientVars, serverVars, alive, wire, streamVars, rcvd, retires, fails>>

Retire == -1            \* the RETIRE_CONN_REQ event; others are stream events

Init ==
    /\ slot = [i \in Slots |-> Null]
    /\ chk = [at |-> "scan", i |-> 1, c |-> Null]
    /\ next = 1
    /\ cloop = [c \in Conns |-> "none"]
    /\ idx = [c \in Conns |-> Null]
    /\ cretired = [c \in Conns |-> FALSE]
    /\ ctimer = [c \in Conns |-> FALSE]
    /\ sloop = [c \in Conns |-> "none"]
    /\ sretired = [c \in Conns |-> FALSE]
    /\ session = 0
    /\ conns = <<>>
    /\ sessions = 0
    /\ alive = [c \in Conns |-> FALSE]
    /\ wire = [c \in Conns |-> <<>>]
    /\ writer = Null
    /\ wpc = "idle"
    /\ wconn = Null
    /\ tries = 0
    /\ closing = FALSE
    /\ sent = 0
    /\ rcvd = <<>>
    /\ retires = 0
    /\ fails = 0

-----------------------------------------------------------------------------
(***************************************************************************)
(* MuxClient.                                                              *)
(***************************************************************************)
\* Fault: the scan leaves out the last slot.
NextSlotShort == [at |-> "scan", i |-> (chk.i % (N - 1)) + 1, c |-> Null]

\* The scan goes on with the next slot, after the last one (and the period of
\* the timer) with the first.  The calls of NewConnection by Init are its first
\* pass, in which only a failure of the first call is different (InitFails).
NextSlot == [at |-> "scan", i |-> (chk.i % N) + 1, c |-> Null]

\* CheckConnections finds an empty slot: NewConnection connects.
CheckEmpty ==
    /\ chk.at = "scan" /\ slot[chk.i] = Null
    /\ next \in Conns
    /\ next' = next + 1
    /\ cloop' = [cloop EXCEPT ![next] = "connecting"]
    /\ idx' = [idx EXCEPT ![next] = chk.i]
    /\ alive' = [alive EXCEPT ![next] = TRUE]
    /\ chk' = [chk EXCEPT !.at = "connect"]
    /\ UNCHANGED <<slot, cretired, ctimer, serverVars, wire, streamVars, rcvd,
                   retires, fails>>

\* It finds a connection that is not expired, or has none left to make.
CheckSkip ==
    /\ chk.at = "scan"
    /\ slot[chk.i] # Null \/ next \notin Conns
    /\ chk' = NextSlot
    /\ UNCHANGED <<slot, next, cloop, idx, cretired, ctimer, serverVars, alive, wire,
                   streamVars, rcvd, retires, fails>>

\* NewConnection returns: authenticated, the loop spawned, the slot filled.
\* By then the server has sent its answer, and it handles the completion of
\* that write, which adds the connection, before anything the client sends next.
Connected ==
    /\ chk.at = "connect"
    /\ LET c == next - 1 IN
       /\ alive[c] /\ sloop[c] # "none"
       /\ cloop' = [cloop EXCEPT ![c] = "running"]
       /\ slot' = [slot EXCEPT ![chk.i] = c]
    /\ chk' = NextSlot
    /\ UNCHANGED <<next, idx, cretired, ctimer, serverVars, alive, wire, streamVars,
                   rcvd, retires, fails>>

\* Connecting or authenticating fails: the slot is left empty.
ConnectFails ==
    /\ chk.at = "connect"
    /\ LET c == next - 1 IN
       /\ c # 1 /\ ~alive[c]
       /\ cloop' = [cloop EXCEPT ![c] = "exited"]
    /\ chk' = NextSlot
    /\ UNCHANGED <<slot, next, idx, cretired, ctimer, serverVars, alive, wire, streamVars,
                   rcvd, retires, fails>>

\* The very first connection fails: Init returns the error before it spawns
\* CheckConnections, and the process exits.
InitFails ==
    /\ chk.at = "connect" /\ next - 1 = 1
    /\ ~alive[1]
    /\ cloop' = [cloop EXCEPT ![1] = "exited"]
    /\ chk' = [chk EXCEPT !.at = "exit"]
    /\ UNCHANGED <<slot, next, idx, cretired, ctimer, serverVars, alive, wire, streamVars,
                   rcvd, retires, fails>>

\* The process is gone for good.
Exited == chk.at = "exit" /\ UNCHANGED vars

\* It finds an expired connection: retired_, out of its slot, then the write
\* of the retire event.
CheckRetire ==
    /\ chk.at = "scan" /\ slot[chk.i] # Null
    /\ retires < MaxRetires
    /\ retires' = retires + 1
    /\ cretired' = [cretired EXCEPT ![slot[chk.i]] = TRUE]
    /\ slot' = [slot EXCEPT ![chk.i] = Null]
    /\ chk' = [at |-> "retire", i |-> chk.i, c |-> slot[chk.i]]
    /\ UNCHANGED <<next, cloop, idx, ctimer, serverVars, alive, wire, streamVars, rcvd,
                   fails>>

\* Fault: no timer is added for the retired connection.
RetireWrittenNoTimer ==
    /\ chk.at = "retire"
    /\ wire' = [wire EXCEPT ![chk.c] = IF alive[chk.c] THEN Append(@, Retire) ELSE @]
    /\ chk' = NextSlot
    /\ UNCHANGED <<slot, next, cloop, idx, cretired, ctimer, serverVars, alive, streamVars,
                   rcvd, retires, fails>>

\* The write returns, whatever its result, and the timer is armed.
RetireWritten ==
    /\ chk.at = "retire"
    /\ wire' = [wire EXCEPT ![chk.c] = IF alive[chk.c] THEN Append(@, Retire) ELSE @]
    /\ ctimer' = [ctimer EXCEPT ![chk.c] = TRUE]
    /\ chk' = NextSlot
    /\ UNCHANGED <<slot, next, cloop, idx, cretired, serverVars, alive, streamVars, rcvd,
                   retires, fails>>

\* The timer of a retired connection fires: Close.
ClientTimeout(c) ==
    /\ ctimer[c]
    /\ ctimer' = [ctimer EXCEPT ![c] = FALSE]
    /\ alive' = [alive EXCEPT ![c] = FALSE]
    /\ UNCHANGED <<slot, chk, next, cloop, idx, cretired, serverVars, wire, streamVars,
                   rcvd, retires, fails>>

\* Fault: the end of the loop clears the slot without looking at retired_.
ClientLoopExitAlwaysClears(c) ==
    /\ cloop[c] = "running" /\ ~alive[c]
    /\ cloop' = [cloop EXCEPT ![c] = "exited"]
    /\ slot' = [slot EXCEPT ![idx[c]] = Null]
    /\ UNCHANGED <<chk, next, idx, cretired, ctimer, serverVars, alive, wire, streamVars,
                   rcvd, retires, fails>>

\* The read loop of the client ends; only a connection that is not retired
\* still has its slot.
ClientLoopExit(c) ==
    /\ cloop[c] = "running" /\ ~alive[c]
    /\ cloop' = [cloop EXCEPT ![c] = "exited"]
    /\ slot' = IF cretired[c] THEN slot ELSE [slot EXCEPT ![idx[c]] = Null]
    /\ UNCHANGED <<chk, next, idx, cretired, ctimer, serverVars, alive, wire, streamVars,
                   rcvd, retires, fails>>

-----------------------------------------------------------------------------
(***************************************************************************)
(* MuxConnManager::Add and Remove, for the one client there is.            *)
(***************************************************************************)

\* The first null entry of the session, else a new one.
AddConn(s, c) ==
    IF \E k \in 1 .. Len(s) : s[k] = Null
    THEN LET k == CHOOSE k \in 1 .. Len(s) :
                      s[k] = Null /\ \A j \in 1 .. k - 1 : s[j] # Null
         IN  [s EXCEPT ![k] = c]
    ELSE Append(s, c)

Add(c) ==
    /\ session' = IF session = 0 THEN sessions + 1 ELSE session
    /\ sessions' = IF session = 0 THEN sessions + 1 ELSE sessions
    /\ conns' = AddConn(conns, c)

\* Fault: the scan stops at the entry of c and takes the rest for empty.
RemoveStopsAtMatch(c) ==
    LET left == [k \in 1 .. Len(conns) |-> IF conns[k] = c THEN Null ELSE conns[k]]
    IN  IF \A k \in 1 .. Len(conns) : left[k] = Null \/ \E j \in 1 .. k : conns[j] = c
        THEN session' = 0 /\ conns' = <<>>
        ELSE session' = session /\ conns' = left

\* The entry of c is cleared; the session is erased once all are null.
Remove(c) ==
    LET left == [k \in 1 .. Len(conns) |-> IF conns[k] = c THEN Null ELSE conns[k]]
    IN  IF \A k \in 1 .. Len(conns) : left[k] = Null
        THEN session' = 0 /\ conns' = <<>>
        ELSE session' = session /\ conns' = left

(***************************************************************************)
(* The server.                                                             *)
(***************************************************************************)

\* handle_conn after ServerAuth.
Accept(c) ==
    /\ sloop[c] = "none" /\ alive[c]
    /\ sloop' = [sloop EXCEPT ![c] = "running"]
    /\ Add(c)
    /\ UNCHANGED <<clientVars, sretired, alive, wire, streamVars, rcvd, retires, fails>>

Receive(c) ==
    /\ sloop[c] = "running"
    /\ wire[c] # <<>>
    /\ wire' = [wire EXCEPT ![c] = Tail(@)]

\* RETIRE_CONN_REQ: retired_ and the retire callback.
ReceiveRetire(c) ==
    /\ Receive(c) /\ Head(wire[c]) = Retire
    /\ sretired' = [sretired EXCEPT ![c] = TRUE]
    /\ Remove(c)
    /\ UNCHANGED <<clientVars, sloop, sessions, alive, streamVars, rcvd, retires, fails>>

\* An event of the stream is handled.
ReceiveEvent(c) ==
    /\ Receive(c) /\ Head(wire[c]) # Retire
    /\ rcvd' = Append(rcvd, Head(wire[c]))
    /\ UNCHANGED <<clientVars, serverVars, alive, streamVars, retires, fails>>

\* The read loop of the server ends, after all events or cut off by a reset.
ServerLoopExit(c) ==
    /\ sloop[c] = "running" /\ ~alive[c]
    /\ sloop' = [sloop EXCEPT ![c] = "exited"]
    /\ wire' = [wire EXCEPT ![c] = <<>>]
    /\ Remove(c)
    /\ UNCHANGED <<clientVars, sretired, sessions, alive, streamVars, rcvd, retires, fails>>

\* The timer the retire callback added fires: Close.
ServerTimeout(c) ==
    /\ sretired[c] /\ alive[c]
    /\ alive' = [alive EXCEPT ![c] = FALSE]
    /\ UNCHANGED <<clientVars, serverVars, wire, streamVars, rcvd, retires, fails>>

-----------------------------------------------------------------------------
(***************************************************************************)
(* The stream: WriteEvent through the client's session.                    *)
(***************************************************************************)

\* The slots the factory may select: ComparePriority ranks the connections by
\* load, which may favour any of them.
Selectable == {i \in Slots : slot[i] # Null}

\* Call of WriteEvent.  event_writer_ names a slot, chosen when it was made
\* (first by the constructor, right before the open event); an empty slot
\* fails at once and the next attempt selects another one.
StreamWrite ==
    /\ wpc = "idle" /\ sent < Chunks + 1
    /\ \/ writer \in Selectable /\ writer' = writer /\ tries' = 1
       \/ /\ writer \notin Selectable
          /\ \E i \in Selectable : writer' = i
          /\ tries' = IF writer = Null THEN 1 ELSE 2
    /\ wconn' = slot[writer']
    /\ wpc' = "writing"
    /\ UNCHANGED <<clientVars, serverVars, alive, wire, closing, sent, rcvd, retires, fails>>

\* No connection at all: three attempts fail, and so do those of Close.
StreamNoConn ==
    /\ wpc = "idle" /\ sent < Chunks + 1
    /\ Selectable = {}
    /\ wpc' = "closed"
    /\ UNCHANGED <<clientVars, serverVars, alive, wire, writer, wconn, tries, closing,
                   sent, rcvd, retires, fails>>

\* MuxConnection::Write returns true: the event is on the wire.
StreamWritten ==
    /\ wpc = "writing" /\ alive[wconn]
    /\ wire' = [wire EXCEPT ![wconn] = Append(@, sent + 1)]
    /\ sent' = sent + 1
    /\ wpc' = IF closing THEN "closed" ELSE "idle"
    /\ UNCHANGED <<clientVars, serverVars, alive, writer, wconn, tries, closing, rcvd,
                   retires, fails>>

\* It returns false: another attempt, on a slot selected now.  After the third
\* one Close writes a STREAM_CLOSE in the same way; when that fails as well, or
\* no connection is left, the stream is closed without it.
StreamRetry ==
    /\ wpc = "writing" /\ ~alive[wconn]
    /\ \/ /\ Selectable # {} /\ (tries < Tries \/ ~closing)
          /\ \E i \in Selectable : writer' = i /\ wconn' = slot[i]
          /\ tries' = IF tries < Tries THEN tries + 1 ELSE 1
          /\ closing' = (closing \/ tries = Tries)
          /\ wpc' = "writing"
       \/ /\ Selectable = {} \/ (tries = Tries /\ closing)
          /\ wpc' = "closed"
          /\ UNCHANGED <<writer, wconn, tries, closing>>
    /\ UNCHANGED <<clientVars, serverVars, alive, wire, sent, rcvd, retires, fails>>

\* A connection breaks.
Break(c) ==
    /\ alive[c] /\ fails < MaxFails
    /\ fails' = fails + 1
    /\ alive' = [alive EXCEPT ![c] = FALSE]
    /\ UNCHANGED <<clientVars, serverVars, wire, streamVars, rcvd, retires>>

-----------------------------------------------------------------------------
Client == \/ CheckEmpty \/ CheckSkip \/ Connected \/ ConnectFails \/ InitFails
          \/ CheckRetire \/ RetireWritten
Server(c) == ReceiveRetire(c) \/ ReceiveEvent(c) \/ ServerLoopExit(c)
Stream == chk.at # "exit" /\ (StreamWrite \/ StreamNoConn \/ StreamWritten \/ StreamRetry)

Next ==
    \/ Client
    \/ \E c \in Conns : ClientTimeout(c) \/ ClientLoopExit(c) \/ Accept(c) \/ Server(c)
                       \/ ServerTimeout(c) \/ Break(c)
    \/ Stream
    \/ Exited

Spec == Init /\ [][Next]_vars

(***************************************************************************)
(* The io_context resumes what is ready, the timers run, a server accepts. *)
(* Nothing makes a connection expire or break.                             *)
(***************************************************************************)
Fairness ==
    /\ WF_vars(Client) /\ WF_vars(Connected \/ ConnectFails \/ InitFails) /\ WF_vars(RetireWritten)
    /\ \A c \in Conns : /\ WF_vars(ClientTimeout(c)) /\ WF_vars(ClientLoopExit(c))
                        /\ WF_vars(Accept(c)) /\ WF_vars(Server(c))
    /\ WF_vars(Stream)
FairSpec == Spec /\ Fairness

-----------------------------------------------------------------------------
(***************************************************************************)
(* Properties.                                                             *)
(***************************************************************************)

\* The client's slots hold exactly the connections whose read loop runs and
\* that are not retired: the end of an old loop never empties the slot of its
\* replacement, no connection is forgotten, no dead one kept.
SlotsExact ==
    \A c \in Conns : \A i \in Slots :
        slot[i] = c <=> idx[c] = i /\ cloop[c] = "running" /\ ~cretired[c]

\* The server's session holds exactly the connections it serves and that are
\* not retired, each once, however often Remove is called for one of them; it
\* is in the table exactly while it holds one.
Serving == {c \in Conns : sloop[c] = "running" /\ ~sretired[c]}
SessionExact ==
    /\ {conns[k] : k \in 1 .. Len(conns)} \ {Null} = Serving
    /\ \A j, k \in 1 .. Len(conns) : conns[j] = conns[k] /\ conns[j] # Null => j = k
    /\ session = 0 <=> Serving = {}

\* A connection that is retired is closed at both ends in the end.
RetiredCloses ==
    \A c \in Conns : cretired[c] ~> cloop[c] = "exited" /\ sloop[c] \in {"none", "exited"}

\* An empty slot is filled, and filled again, as long as connections can be
\* made, unless the process has exited because its first connection failed.
SlotsRefill ==
    \A i \in Slots : slot[i] = Null ~> slot[i] # Null \/ next > MaxConns \/ chk.at = "exit"

\* The events of a stream are handled by the server in the order they were
\* written.
StreamInOrder == \A i \in 1 .. Len(rcvd) : rcvd[i] = i
=============================================================================
