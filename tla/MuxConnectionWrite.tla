------------------------- MODULE MuxConnectionWrite -------------------------
(***************************************************************************)
(* The write side of one MuxConnection: Write, the AsyncChannelMutex that  *)
(* serialises it, the asio channel of capacity one the mutex is built on,  *)
(* and Close.                                                              *)
(*                                                                         *)
(* The process is one io_context(1): a coroutine runs alone until it       *)
(* suspends at a co_await, so one action is the code from one suspension   *)
(* to the next.  Completed operations are queued in `ready' and resumed in *)
(* that order.  A Write may be called at any moment by any coroutine.      *)
(***************************************************************************)
EXTENDS Naturals, Sequences, FiniteSets

CONSTANTS Writers,          \* the coroutines that call Write (streams, read loop)
          MaxCalls,         \* bound on the number of calls of Write
          EncryptMayFail    \* whether CipherContext::Encrypt may return an error

ASSUME WritersAssumption == IsFiniteSet(Writers)
ASSUME CallsAssumption == MaxCalls \in Nat
ASSUME EncryptAssumption == EncryptMayFail \in BOOLEAN

VARIABLES
    pc,            \* where each coroutine is suspended, "idle" outside Write
    ready,         \* completed operations, in the order they will be resumed
    open,          \* neither io_conn_ nor the channel of write_mutex_ is closed
    broken,        \* the peer's end is gone: every further AsyncWrite fails
    locked,        \* AsyncChannelMutex::locked_
    wait_count,    \* AsyncChannelMutex::wait_count_
    tokens,        \* messages buffered in channel_ (capacity 1)
    rwait,         \* coroutines blocked in async_receive, FIFO
    swait,         \* coroutines blocked in async_send, FIFO
    recv_ec,       \* the receive of this coroutine completed with an error
    encrypt_iv,    \* CipherContext::encrypt_iv_
    write_buffer,  \* MuxConnection::write_buffer_: the frame it holds
    wrote,         \* the AsyncWrite of the current call completed without error
    wire,          \* frames the peer can read, in order
    calls          \* calls of Write so far

chanVars == <<tokens, rwait, swait, recv_ec>>
ioVars   == <<broken, wire>>
vars == <<pc, ready, open, broken, locked, wait_count, tokens, rwait, swait,
          recv_ec, encrypt_iv, write_buffer, wrote, wire, calls>>

NoWriter == "none"
Frame == [from : Writers \cup {NoWriter}, iv : Nat]

Init ==
    /\ pc = [w \in Writers |-> "idle"]
    /\ ready = <<>>
    /\ open = TRUE
    /\ broken = FALSE
    /\ locked = FALSE
    /\ wait_count = 0
    /\ tokens = 0
    /\ rwait = <<>>
    /\ swait = <<>>
    /\ recv_ec = [w \in Writers |-> FALSE]
    /\ encrypt_iv = 0
    /\ write_buffer = [from |-> NoWriter, iv |-> 0]
    /\ wrote = [w \in Writers |-> FALSE]
    /\ wire = <<>>
    /\ calls = 0

-----------------------------------------------------------------------------
(***************************************************************************)
(* The channel.  async_send and async_receive as performed by coroutine w, *)
(* q being the queue of ready coroutines it leaves behind.                 *)
(***************************************************************************)

\* async_send(ec, true): to the first receiver, else to the buffer, else block.
AsyncSend(w, q) ==
    \/ /\ rwait # <<>>
       /\ rwait' = Tail(rwait)
       /\ recv_ec' = [recv_ec EXCEPT ![Head(rwait)] = FALSE]
       /\ pc' = [pc EXCEPT ![Head(rwait)] = "received", ![w] = "sent"]
       /\ ready' = Append(Append(q, Head(rwait)), w)
       /\ UNCHANGED <<tokens, swait>>
    \/ /\ rwait = <<>> /\ tokens = 0
       /\ tokens' = 1
       /\ pc' = [pc EXCEPT ![w] = "sent"]
       /\ ready' = Append(q, w)
       /\ UNCHANGED <<rwait, swait, recv_ec>>
    \/ /\ rwait = <<>> /\ tokens = 1
       /\ swait' = Append(swait, w)
       /\ pc' = [pc EXCEPT ![w] = "sending"]
       /\ ready' = q
       /\ UNCHANGED <<tokens, rwait, recv_ec>>

\* async_receive: from the buffer, refilled by the first blocked sender;
\* with an error from a closed channel; else block.
AsyncReceive(w, q) ==
    \/ /\ tokens = 1 /\ swait = <<>>
       /\ tokens' = 0
       /\ recv_ec' = [recv_ec EXCEPT ![w] = FALSE]
       /\ pc' = [pc EXCEPT ![w] = "received"]
       /\ ready' = Append(q, w)
       /\ UNCHANGED <<rwait, swait>>
    \/ /\ tokens = 1 /\ swait # <<>>
       /\ swait' = Tail(swait)
       /\ recv_ec' = [recv_ec EXCEPT ![w] = FALSE]
       /\ pc' = [pc EXCEPT ![Head(swait)] = "sent", ![w] = "received"]
       /\ ready' = Append(Append(q, Head(swait)), w)
       /\ UNCHANGED <<tokens, rwait>>
    \/ /\ tokens = 0 /\ ~open
       /\ recv_ec' = [recv_ec EXCEPT ![w] = TRUE]
       /\ pc' = [pc EXCEPT ![w] = "received"]
       /\ ready' = Append(q, w)
       /\ UNCHANGED <<tokens, rwait, swait>>
    \/ /\ tokens = 0 /\ open
       /\ rwait' = Append(rwait, w)
       /\ pc' = [pc EXCEPT ![w] = "receiving"]
       /\ ready' = q
       /\ UNCHANGED <<tokens, swait, recv_ec>>

-----------------------------------------------------------------------------
\* Fault: Unlock notifies only when more than one coroutine waits.
UnlockOffByOne(w, q, wc, lk) ==
    /\ wait_count' = wc
    /\ IF ~open \/ wc <= 1
       THEN /\ locked' = (lk /\ ~open)
            /\ pc' = [pc EXCEPT ![w] = "idle"]
            /\ ready' = q
            /\ UNCHANGED chanVars
       ELSE /\ locked' = FALSE
            /\ AsyncSend(w, q)

(***************************************************************************)
(* Unlock, with wc and lk the values of wait_count_ and locked_ when it is *)
(* called.  Returning from Unlock returns from Write.                      *)
(***************************************************************************)
Unlock(w, q, wc, lk) ==
    /\ wait_count' = wc
    /\ IF ~open \/ wc = 0
       THEN /\ locked' = (lk /\ ~open)
            /\ pc' = [pc EXCEPT ![w] = "idle"]
            /\ ready' = q
            /\ UNCHANGED chanVars
       ELSE /\ locked' = FALSE
            /\ AsyncSend(w, q)

\* Encrypt succeeds: the frame takes the next nonce and fills write_buffer_.
EncryptOk(w) ==
    /\ write_buffer' = [from |-> w, iv |-> encrypt_iv]
    /\ encrypt_iv' = encrypt_iv + 1

\* Fault: the nonce is advanced before the encryption is known to succeed.
AfterLockTakesNonce(w, q, wc, lk) ==
    \/ /\ EncryptOk(w)
       /\ locked' = lk
       /\ wait_count' = wc
       /\ pc' = [pc EXCEPT ![w] = "writing"]
       /\ ready' = q
       /\ UNCHANGED chanVars
    \/ /\ EncryptMayFail
       /\ Unlock(w, q, wc, lk)
       /\ encrypt_iv' = encrypt_iv + 1
       /\ UNCHANGED write_buffer

\* Write after Lock returned, whatever Lock returned: encrypt, then start the
\* AsyncWrite; an encryption error unlocks at once and consumes no nonce.
AfterLock(w, q, wc, lk) ==
    \/ /\ EncryptOk(w)
       /\ locked' = lk
       /\ wait_count' = wc
       /\ pc' = [pc EXCEPT ![w] = "writing"]
       /\ ready' = q
       /\ UNCHANGED chanVars
    \/ /\ EncryptMayFail
       /\ Unlock(w, q, wc, lk)
       /\ UNCHANGED <<encrypt_iv, write_buffer>>

\* Fault: Lock polls locked_ instead of waiting for a token.
LockLoopSpins(w, q, wc) ==
    \/ /\ locked
       /\ wait_count' = wc + 1
       /\ pc' = [pc EXCEPT ![w] = "received"]
       /\ ready' = Append(q, w)
       /\ UNCHANGED <<locked, chanVars, encrypt_iv, write_buffer>>
    \/ /\ ~locked
       /\ AfterLock(w, q, wc, TRUE)

\* The loop of Lock: wait for a token while locked_, else take the lock.
LockLoop(w, q, wc) ==
    \/ /\ locked
       /\ wait_count' = wc + 1
       /\ AsyncReceive(w, q)
       /\ UNCHANGED <<locked, encrypt_iv, write_buffer>>
    \/ /\ ~locked
       /\ AfterLock(w, q, wc, TRUE)

-----------------------------------------------------------------------------
(***************************************************************************)
(* The steps of a coroutine.                                               *)
(***************************************************************************)

\* Fault: Write does not take the lock.
WriteUnlocked(w) ==
    /\ pc[w] = "idle"
    /\ calls < MaxCalls
    /\ calls' = calls + 1
    /\ wrote' = [wrote EXCEPT ![w] = FALSE]
    /\ AfterLock(w, ready, wait_count, locked)
    /\ UNCHANGED <<open, ioVars>>

\* Write is called; on a closed channel Lock returns at once, without locking.
Write(w) ==
    /\ pc[w] = "idle"
    /\ calls < MaxCalls
    /\ calls' = calls + 1
    /\ wrote' = [wrote EXCEPT ![w] = FALSE]
    /\ IF open
       THEN LockLoop(w, ready, wait_count)
       ELSE AfterLock(w, ready, wait_count, locked)
    /\ UNCHANGED <<open, ioVars>>

\* Fault: Lock tests locked_ once (if, not while).
ResumeLockNoRecheck(w) ==
    /\ ready # <<>> /\ Head(ready) = w
    /\ pc[w] = "received"
    /\ AfterLock(w, Tail(ready), wait_count - 1, TRUE)
    /\ UNCHANGED <<open, ioVars, wrote, calls>>

\* Fault: the error return of Lock skips wait_count_--.
ResumeLockErrorUncounted(w) ==
    /\ ready # <<>> /\ Head(ready) = w
    /\ pc[w] = "received"
    /\ IF recv_ec[w]
       THEN AfterLock(w, Tail(ready), wait_count, locked)
       ELSE LockLoop(w, Tail(ready), wait_count - 1)
    /\ UNCHANGED <<open, ioVars, wrote, calls>>

\* Fault: wait_count_-- is missing altogether.
ResumeLockUncounted(w) ==
    /\ ready # <<>> /\ Head(ready) = w
    /\ pc[w] = "received"
    /\ IF recv_ec[w]
       THEN AfterLock(w, Tail(ready), wait_count, locked)
       ELSE LockLoop(w, Tail(ready), wait_count)
    /\ UNCHANGED <<open, ioVars, wrote, calls>>

\* The receive of Lock resumes; its error makes Lock return, which Write ignores.
ResumeLock(w) ==
    /\ ready # <<>> /\ Head(ready) = w
    /\ pc[w] = "received"
    /\ IF recv_ec[w]
       THEN AfterLock(w, Tail(ready), wait_count - 1, locked)
       ELSE LockLoop(w, Tail(ready), wait_count - 1)
    /\ UNCHANGED <<open, ioVars, wrote, calls>>

\* The AsyncWrite resumes: unlock.
ResumeWrite(w) ==
    /\ ready # <<>> /\ Head(ready) = w
    /\ pc[w] = "written"
    /\ Unlock(w, Tail(ready), wait_count, locked)
    /\ UNCHANGED <<open, ioVars, encrypt_iv, write_buffer, wrote, calls>>

\* The send of Unlock resumes: Write returns.
ResumeUnlock(w) ==
    /\ ready # <<>> /\ Head(ready) = w
    /\ pc[w] = "sent"
    /\ pc' = [pc EXCEPT ![w] = "idle"]
    /\ ready' = Tail(ready)
    /\ UNCHANGED <<open, ioVars, locked, wait_count, chanVars, encrypt_iv,
                   write_buffer, wrote, calls>>

(***************************************************************************)
(* The socket.  A write that succeeds transmits what write_buffer_ holds   *)
(* at that moment; none succeeds after Close or after an earlier failure.  *)
(***************************************************************************)
WriteOk(w) ==
    /\ pc[w] = "writing"
    /\ open /\ ~broken
    /\ wire' = Append(wire, write_buffer)
    /\ wrote' = [wrote EXCEPT ![w] = TRUE]
    /\ pc' = [pc EXCEPT ![w] = "written"]
    /\ ready' = Append(ready, w)
    /\ UNCHANGED <<open, broken, locked, wait_count, chanVars, encrypt_iv,
                   write_buffer, calls>>

\* Fault: the error of the AsyncWrite is not looked at.
WriteFailsUnnoticed(w) ==
    /\ pc[w] = "writing"
    /\ broken' = TRUE
    /\ wrote' = [wrote EXCEPT ![w] = TRUE]
    /\ pc' = [pc EXCEPT ![w] = "written"]
    /\ ready' = Append(ready, w)
    /\ UNCHANGED <<open, locked, wait_count, chanVars, encrypt_iv,
                   write_buffer, wire, calls>>

WriteFails(w) ==
    /\ pc[w] = "writing"
    /\ broken' = TRUE
    /\ pc' = [pc EXCEPT ![w] = "written"]
    /\ ready' = Append(ready, w)
    /\ UNCHANGED <<open, locked, wait_count, chanVars, encrypt_iv,
                   write_buffer, wrote, wire, calls>>

\* MuxConnection::Close, from the read loop, a retirement timer or the
\* inactivity check: the blocked operations complete with an error.
Close ==
    /\ open
    /\ open' = FALSE
    /\ ready' = ready \o rwait \o swait
    /\ pc' = [w \in Writers |-> CASE pc[w] = "receiving" -> "received"
                                  [] pc[w] = "sending" -> "sent"
                                  [] OTHER -> pc[w]]
    /\ recv_ec' = [w \in Writers |-> recv_ec[w] \/ pc[w] = "receiving"]
    /\ rwait' = <<>>
    /\ swait' = <<>>
    /\ UNCHANGED <<ioVars, locked, wait_count, tokens, encrypt_iv,
                   write_buffer, wrote, calls>>

\* Nothing is left to do within the bound on calls.
Finished ==
    /\ calls = MaxCalls
    /\ \A w \in Writers : pc[w] = "idle"
    /\ ~open
    /\ UNCHANGED vars

Step(w) == ResumeLock(w) \/ ResumeWrite(w) \/ ResumeUnlock(w)
Socket(w) == WriteOk(w) \/ WriteFails(w)

Next ==
    \/ \E w \in Writers : Write(w) \/ Step(w) \/ Socket(w)
    \/ Close
    \/ Finished

Spec == Init /\ [][Next]_vars

(***************************************************************************)
(* A completed operation is resumed (io_context::run never stops), and an  *)
(* AsyncWrite completes, with or without an error.                         *)
(***************************************************************************)
Fairness == \A w \in Writers : WF_vars(Step(w)) /\ WF_vars(Socket(w))
FairSpec == Spec /\ Fairness

-----------------------------------------------------------------------------
(***************************************************************************)
(* Properties.                                                             *)
(***************************************************************************)

\* Types of the variables of AsyncChannelMutex, of the channel and of Write.
TypeOK ==
    /\ pc \in [Writers -> {"idle", "receiving", "received", "writing",
                           "written", "sending", "sent"}]
    /\ ready \in Seq(Writers)
    /\ open \in BOOLEAN
    /\ broken \in BOOLEAN
    /\ locked \in BOOLEAN
    /\ wait_count \in Nat
    /\ tokens \in {0, 1}
    /\ rwait \in Seq(Writers)
    /\ swait \in Seq(Writers)
    /\ recv_ec \in [Writers -> BOOLEAN]
    /\ encrypt_iv \in Nat
    /\ write_buffer \in Frame
    /\ wrote \in [Writers -> BOOLEAN]
    /\ wire \in Seq(Frame)
    /\ calls \in 0 .. MaxCalls

\* The coroutines between Lock and Unlock.
InWrite(w) == pc[w] \in {"writing", "written"}

\* The frames reach the peer with consecutive nonces: the n-th frame carries
\* the nonce with which Decrypt of the peer opens its n-th frame, whatever
\* writers wait, barge in, fail to encrypt or are cut off by Close.
WireInOrder == \A i \in DOMAIN wire : wire[i].iv = i - 1

\* While the connection is open, locked_ says exactly whether a coroutine is
\* between Lock and Unlock, there is only one, and write_buffer_ keeps its
\* frame for as long as the AsyncWrite is under way.  (After Close the waiters
\* proceed without the lock: Write ignores the error Lock returns.)
WriteExclusive ==
    open => /\ locked <=> \E w \in Writers : InWrite(w)
            /\ \A v, w \in Writers : InWrite(v) /\ InWrite(w) => v = w
            /\ \A w \in Writers : pc[w] = "writing" => write_buffer.from = w

\* No wakeup is lost: when a coroutine is blocked in Lock, the lock is held or
\* a notified coroutine is about to look at it.
NoLostWakeup ==
    open /\ rwait # <<>> =>
        locked \/ \E i \in DOMAIN ready : pc[ready[i]] = "received"

\* The coroutines suspended in Lock.
InLock == {w \in Writers : pc[w] \in {"receiving", "received"}}

\* wait_count_, by which ComparePriority ranks connections, is the number of
\* coroutines suspended in Lock, notified or not.
WaitCountExact == wait_count = Cardinality(InLock)

\* The blocked operations of the channel: each queue names every coroutine it
\* holds once, and that coroutine is suspended in that operation.
QueuesMatch ==
    /\ \A i \in 1 .. Len(rwait) : pc[rwait[i]] = "receiving"
    /\ \A i \in 1 .. Len(swait) : pc[swait[i]] = "sending"
    /\ \A i, j \in 1 .. Len(rwait) : rwait[i] = rwait[j] => i = j
    /\ \A i, j \in 1 .. Len(swait) : swait[i] = swait[j] => i = j

\* How far encrypt_iv_ is ahead of the wire while a frame can still be sent.
NonceMatches ==
    open /\ ~broken =>
        IF \E w \in Writers : pc[w] = "writing"
        THEN encrypt_iv = Len(wire) + 1 /\ write_buffer.iv = Len(wire)
        ELSE encrypt_iv = Len(wire)

\* A receive completes with an error only because of Close.
RecvErrorMeansClosed == open => \A w \in Writers : ~recv_ec[w]

\* The inductive invariant behind WireInOrder and WriteExclusive: what Write,
\* Lock, Unlock and Close preserve together at every suspension point.
WriteInv == /\ TypeOK /\ QueuesMatch /\ WaitCountExact /\ RecvErrorMeansClosed
            /\ WriteExclusive /\ NonceMatches /\ WireInOrder

\* Unless encryption fails, Unlock sends a token only to a coroutine blocked
\* in Lock: no token is left in the channel and no Unlock ever blocks on it.
NoStaleToken == ~EncryptMayFail => tokens = 0 /\ swait = <<>>

\* Every call of Write returns, to whichever end.
EveryWriteReturns == \A w \in Writers : pc[w] # "idle" ~> pc[w] = "idle"

\* Write implements the atomic log of frames.
Log == INSTANCE FrameLog WITH
    phase <- [w \in Writers |-> IF pc[w] = "idle" THEN "idle"
                                ELSE IF wrote[w] THEN "appended" ELSE "called"],
    log   <- wire,
    down  <- broken \/ ~open
LogSpec == Log!Spec
=============================================================================
