---------------------- MODULE MuxConnectionWriteProofs ----------------------
(***************************************************************************)
(* Proofs about MuxConnectionWrite, for every finite set of writers, every *)
(* number of calls and whether or not encryption may fail.                 *)
(***************************************************************************)
EXTENDS MuxConnectionWrite, TLAPS, SequenceTheorems, FiniteSetTheorems

\* The values pc takes.
PC == {"idle", "receiving", "received", "writing", "written", "sending", "sent"}

-----------------------------------------------------------------------------
\* A coroutine about to resume inside Lock is counted in wait_count_.
LEMMA ResumedIsCounted ==
    ASSUME TypeOK, WaitCountExact, NEW w \in Writers, pc[w] = "received"
    PROVE  wait_count - 1 \in Nat
<1>1. w \in InLock /\ IsFiniteSet(InLock)
  BY WritersAssumption, FS_Subset DEF InLock
<1>2. Cardinality(InLock) # 0
  BY <1>1, FS_EmptySet
<1> QED BY <1>2 DEF WaitCountExact, TypeOK

-----------------------------------------------------------------------------
(***************************************************************************)
(* Types.  One lemma per fragment of Lock and Unlock, then the invariant.  *)
(***************************************************************************)

\* What the fragments of Lock and Unlock assign has its type.
FragmentType ==
    /\ pc' \in [Writers -> PC]
    /\ ready' \in Seq(Writers)
    /\ tokens' \in {0, 1}
    /\ rwait' \in Seq(Writers)
    /\ swait' \in Seq(Writers)
    /\ recv_ec' \in [Writers -> BOOLEAN]

\* An entry of recv_ec may be set to either value.
LEMMA RecvEcType ==
    ASSUME recv_ec \in [Writers -> BOOLEAN], NEW w \in Writers, NEW b \in BOOLEAN
    PROVE  [recv_ec EXCEPT ![w] = b] \in [Writers -> BOOLEAN]
BY Zenon

\* async_send of Unlock keeps the channel well typed.
LEMMA AsyncSendType ==
    ASSUME TypeOK, NEW w \in Writers, NEW q \in Seq(Writers), AsyncSend(w, q)
    PROVE  FragmentType
<1>t. /\ pc \in [Writers -> PC] /\ rwait \in Seq(Writers) /\ swait \in Seq(Writers)
      /\ recv_ec \in [Writers -> BOOLEAN] /\ tokens \in {0, 1}
  BY DEF TypeOK, PC
<1>1. CASE rwait # <<>>
  <2>1. Head(rwait) \in Writers /\ Tail(rwait) \in Seq(Writers)
    BY <1>1, <1>t
  <2>2. Append(Append(q, Head(rwait)), w) \in Seq(Writers)
    BY <2>1
  <2>3. [pc EXCEPT ![Head(rwait)] = "received", ![w] = "sent"] \in [Writers -> PC]
    BY <2>1, <1>t DEF PC
  <2>4. [recv_ec EXCEPT ![Head(rwait)] = FALSE] \in [Writers -> BOOLEAN]
    BY <2>1, <1>t, RecvEcType
  <2> QED BY <1>1, <1>t, <2>1, <2>2, <2>3, <2>4 DEF FragmentType, AsyncSend
<1>2. CASE rwait = <<>>
  <2>1. Append(q, w) \in Seq(Writers) /\ Append(swait, w) \in Seq(Writers)
    BY <1>t
  <2>2. /\ [pc EXCEPT ![w] = "sent"] \in [Writers -> PC]
        /\ [pc EXCEPT ![w] = "sending"] \in [Writers -> PC]
    BY <1>t DEF PC
  <2> QED BY <1>2, <1>t, <2>1, <2>2 DEF FragmentType, AsyncSend
<1> QED BY <1>1, <1>2

\* async_receive of Lock keeps the channel well typed.
LEMMA AsyncReceiveType ==
    ASSUME TypeOK, NEW w \in Writers, NEW q \in Seq(Writers), AsyncReceive(w, q)
    PROVE  FragmentType
<1>t. /\ pc \in [Writers -> PC] /\ rwait \in Seq(Writers) /\ swait \in Seq(Writers)
      /\ recv_ec \in [Writers -> BOOLEAN] /\ tokens \in {0, 1}
  BY DEF TypeOK, PC
<1>b. /\ [recv_ec EXCEPT ![w] = FALSE] \in [Writers -> BOOLEAN]
      /\ [recv_ec EXCEPT ![w] = TRUE] \in [Writers -> BOOLEAN]
  BY <1>t, RecvEcType
<1>p. /\ [pc EXCEPT ![w] = "received"] \in [Writers -> PC]
      /\ [pc EXCEPT ![w] = "receiving"] \in [Writers -> PC]
  BY <1>t DEF PC
<1>q. Append(q, w) \in Seq(Writers) /\ Append(rwait, w) \in Seq(Writers)
  BY <1>t
<1>1. CASE tokens = 1 /\ swait # <<>>
  <2>1. Head(swait) \in Writers /\ Tail(swait) \in Seq(Writers)
    BY <1>1, <1>t
  <2>2. Append(Append(q, Head(swait)), w) \in Seq(Writers)
    BY <2>1
  <2>3. [pc EXCEPT ![Head(swait)] = "sent", ![w] = "received"] \in [Writers -> PC]
    BY <2>1, <1>t DEF PC
  <2>4. /\ pc' = [pc EXCEPT ![Head(swait)] = "sent", ![w] = "received"]
        /\ ready' = Append(Append(q, Head(swait)), w)
        /\ recv_ec' = [recv_ec EXCEPT ![w] = FALSE]
        /\ swait' = Tail(swait) /\ rwait' = rwait /\ tokens' = tokens
    BY <1>1 DEF AsyncReceive
  <2> QED BY <1>t, <1>b, <2>1, <2>2, <2>3, <2>4 DEF FragmentType
<1>2. CASE ~(tokens = 1 /\ swait # <<>>)
  BY <1>2, <1>t, <1>b, <1>p, <1>q DEF FragmentType, AsyncReceive
<1> QED BY <1>1, <1>2

\* Unlock keeps the mutex and the channel well typed.
LEMMA UnlockType ==
    ASSUME TypeOK, NEW w \in Writers, NEW q \in Seq(Writers), NEW wc \in Nat,
           NEW lk \in BOOLEAN, Unlock(w, q, wc, lk)
    PROVE  FragmentType /\ wait_count' \in Nat /\ locked' \in BOOLEAN
<1>1. CASE ~open \/ wc = 0
  BY <1>1 DEF TypeOK, FragmentType, Unlock, PC, chanVars
<1>2. CASE ~(~open \/ wc = 0)
  BY <1>2, AsyncSendType DEF Unlock
<1> QED BY <1>1, <1>2

\* So does Write from the return of Lock to its next suspension.
LEMMA AfterLockType ==
    ASSUME TypeOK, NEW w \in Writers, NEW q \in Seq(Writers), NEW wc \in Nat,
           NEW lk \in BOOLEAN, AfterLock(w, q, wc, lk)
    PROVE  /\ FragmentType /\ wait_count' \in Nat /\ locked' \in BOOLEAN
           /\ encrypt_iv' \in Nat /\ write_buffer' \in Frame
<1>1. CASE EncryptOk(w) /\ pc' = [pc EXCEPT ![w] = "writing"]
  BY <1>1 DEF TypeOK, FragmentType, AfterLock, EncryptOk, PC, chanVars, Frame
<1>2. CASE Unlock(w, q, wc, lk) /\ UNCHANGED <<encrypt_iv, write_buffer>>
  BY <1>2, UnlockType DEF TypeOK
<1> QED BY <1>1, <1>2 DEF AfterLock

\* And one turn of the loop of Lock.
LEMMA LockLoopType ==
    ASSUME TypeOK, NEW w \in Writers, NEW q \in Seq(Writers), NEW wc \in Nat,
           LockLoop(w, q, wc)
    PROVE  /\ FragmentType /\ wait_count' \in Nat /\ locked' \in BOOLEAN
           /\ encrypt_iv' \in Nat /\ write_buffer' \in Frame
<1>1. CASE locked
  BY <1>1, AsyncReceiveType DEF LockLoop, TypeOK
<1>2. CASE ~locked
  BY <1>2, AfterLockType DEF LockLoop, TypeOK
<1> QED BY <1>1, <1>2

\* Close wakes every blocked operation and keeps the types.
LEMMA CloseType ==
    ASSUME TypeOK, Close
    PROVE  FragmentType
<1>1. ready \o rwait \o swait \in Seq(Writers)
  BY ConcatProperties DEF TypeOK
<1>2. pc' \in [Writers -> PC]
  BY DEF TypeOK, Close, PC
<1>3. recv_ec' \in [Writers -> BOOLEAN]
  BY DEF TypeOK, Close
<1> QED BY <1>1, <1>2, <1>3 DEF TypeOK, Close, FragmentType

\* Every step of Write, Lock, Unlock, the socket and Close keeps the types;
\* wait_count_ is not decremented below zero because the resumed coroutine
\* is counted in it.
LEMMA TypeStep ==
    ASSUME TypeOK, WaitCountExact, [Next]_vars
    PROVE  TypeOK'
<1>q. ready # <<>> => Tail(ready) \in Seq(Writers)
  BY DEF TypeOK
<1>1. ASSUME NEW w \in Writers, Write(w) PROVE TypeOK'
  <2>1. /\ FragmentType /\ wait_count' \in Nat /\ locked' \in BOOLEAN
        /\ encrypt_iv' \in Nat /\ write_buffer' \in Frame
    <3>1. CASE open
      BY <1>1, <3>1, LockLoopType DEF Write, TypeOK
    <3>2. CASE ~open
      BY <1>1, <3>2, AfterLockType DEF Write, TypeOK
    <3> QED BY <3>1, <3>2
  <2>2. wrote' \in [Writers -> BOOLEAN]
    BY <1>1, Zenon DEF Write, TypeOK
  <2>3. calls' \in 0 .. MaxCalls
    BY <1>1, CallsAssumption DEF Write, TypeOK
  <2> QED BY <1>1, <2>1, <2>2, <2>3 DEF Write, TypeOK, FragmentType, PC, ioVars
<1>2. ASSUME NEW w \in Writers, ResumeLock(w) PROVE TypeOK'
  <2>1. wait_count - 1 \in Nat
    BY <1>2, ResumedIsCounted DEF ResumeLock
  <2>2. /\ FragmentType /\ wait_count' \in Nat /\ locked' \in BOOLEAN
        /\ encrypt_iv' \in Nat /\ write_buffer' \in Frame
    <3>1. CASE recv_ec[w]
      BY <1>q, <1>2, <2>1, <3>1, AfterLockType DEF ResumeLock, TypeOK
    <3>2. CASE ~recv_ec[w]
      BY <1>q, <1>2, <2>1, <3>2, LockLoopType DEF ResumeLock, TypeOK
    <3> QED BY <3>1, <3>2
  <2> QED BY <1>2, <2>2 DEF ResumeLock, TypeOK, FragmentType, PC, ioVars
<1>3. ASSUME NEW w \in Writers, ResumeWrite(w) PROVE TypeOK'
  <2>1. FragmentType /\ wait_count' \in Nat /\ locked' \in BOOLEAN
    BY <1>q, <1>3, UnlockType DEF ResumeWrite, TypeOK
  <2> QED BY <1>3, <2>1 DEF ResumeWrite, TypeOK, FragmentType, PC, ioVars
<1>4. ASSUME NEW w \in Writers, ResumeUnlock(w) PROVE TypeOK'
  BY <1>q, <1>4 DEF ResumeUnlock, TypeOK, ioVars, chanVars
<1>5. ASSUME NEW w \in Writers, WriteOk(w) PROVE TypeOK'
  <2>1. wrote' \in [Writers -> BOOLEAN]
    BY <1>5, Zenon DEF WriteOk, TypeOK
  <2> QED BY <1>5, <2>1 DEF WriteOk, TypeOK, chanVars
<1>6. ASSUME NEW w \in Writers, WriteFails(w) PROVE TypeOK'
  BY <1>6 DEF WriteFails, TypeOK, chanVars
<1>7. ASSUME Close PROVE TypeOK'
  BY <1>7, CloseType DEF Close, TypeOK, FragmentType, PC, ioVars
<1>8. CASE UNCHANGED vars
  BY <1>8 DEF vars, TypeOK
<1> QED
  BY <1>1, <1>2, <1>3, <1>4, <1>5, <1>6, <1>7, <1>8
  DEF Next, Step, Socket, Finished

-----------------------------------------------------------------------------
(***************************************************************************)
(* What the fragments do to the other coroutines: a hand-over moves them   *)
(* between the two states inside Lock, or out of a blocked send, and never *)
(* in or out of the part of Write that holds the lock.                     *)
(***************************************************************************)
OthersKeep(w) ==
    \A v \in Writers \ {w} :
        /\ pc'[v] = "writing" <=> pc[v] = "writing"
        /\ pc'[v] = "written" <=> pc[v] = "written"
        /\ pc'[v] \in {"receiving", "received"} <=> pc[v] \in {"receiving", "received"}

\* A coroutine that runs is in no queue of the channel.
LEMMA RunningNotQueued ==
    ASSUME TypeOK, QueuesMatch, NEW w \in Writers, pc[w] \notin {"receiving", "sending"}
    PROVE  /\ \A i \in 1 .. Len(rwait) : rwait[i] # w
           /\ \A i \in 1 .. Len(swait) : swait[i] # w
BY DEF QueuesMatch

\* The queue without its first element still names each coroutine once, and
\* not the first one.
LEMMA TailOfQueue ==
    ASSUME NEW s \in Seq(Writers), s # <<>>,
           \A i, j \in 1 .. Len(s) : s[i] = s[j] => i = j
    PROVE  /\ Len(Tail(s)) = Len(s) - 1
           /\ \A i \in 1 .. Len(Tail(s)) :
                 /\ i + 1 \in 1 .. Len(s)
                 /\ Tail(s)[i] = s[i + 1]
                 /\ Tail(s)[i] # Head(s)
           /\ \A i, j \in 1 .. Len(Tail(s)) : Tail(s)[i] = Tail(s)[j] => i = j
<1>1. Len(s) \in Nat /\ Len(s) > 0 /\ Head(s) = s[1]
  OBVIOUS
<1>2. Len(Tail(s)) = Len(s) - 1
  BY <1>1
<1>3. \A i \in 1 .. Len(Tail(s)) : i + 1 \in 1 .. Len(s) /\ Tail(s)[i] = s[i + 1]
  BY <1>1, <1>2
<1> QED BY <1>1, <1>2, <1>3

\* async_send: the notified receiver stays inside Lock.
LEMMA AsyncSendEffect ==
    ASSUME TypeOK, QueuesMatch, NEW w \in Writers, NEW q \in Seq(Writers),
           pc[w] \notin {"receiving", "sending"}, AsyncSend(w, q)
    PROVE  QueuesMatch' /\ OthersKeep(w) /\ pc'[w] \in {"sent", "sending"}
<1>t. /\ pc \in [Writers -> PC] /\ rwait \in Seq(Writers) /\ swait \in Seq(Writers)
      /\ tokens \in {0, 1}
  BY DEF TypeOK, PC
<1>n. /\ \A i \in 1 .. Len(rwait) : rwait[i] # w
      /\ \A i \in 1 .. Len(swait) : swait[i] # w
  BY RunningNotQueued
<1>1. CASE rwait # <<>>
  <2>1. /\ pc' = [pc EXCEPT ![Head(rwait)] = "received", ![w] = "sent"]
        /\ rwait' = Tail(rwait) /\ swait' = swait
    BY <1>1 DEF AsyncSend
  <2>2. /\ 1 \in 1 .. Len(rwait) /\ Head(rwait) = rwait[1]
        /\ Head(rwait) \in Writers /\ Head(rwait) # w /\ pc[Head(rwait)] = "receiving"
    BY <1>1, <1>t, <1>n DEF QueuesMatch
  <2>3. \A v \in Writers : pc'[v] = IF v = w THEN "sent"
                                    ELSE IF v = Head(rwait) THEN "received" ELSE pc[v]
    BY <2>1, <2>2, <1>t
  <2>4. OthersKeep(w) /\ pc'[w] = "sent"
    BY <2>2, <2>3 DEF OthersKeep
  <2>5. /\ \A i \in 1 .. Len(rwait') : pc'[rwait'[i]] = "receiving"
        /\ \A i, j \in 1 .. Len(rwait') : rwait'[i] = rwait'[j] => i = j
    <3>1. /\ \A i \in 1 .. Len(Tail(rwait)) :
                 /\ i + 1 \in 1 .. Len(rwait)
                 /\ Tail(rwait)[i] = rwait[i + 1]
                 /\ Tail(rwait)[i] # Head(rwait)
          /\ \A i, j \in 1 .. Len(Tail(rwait)) : Tail(rwait)[i] = Tail(rwait)[j] => i = j
      BY <1>1, <1>t, TailOfQueue DEF QueuesMatch
    <3>2. \A i \in 1 .. Len(rwait) : rwait[i] \in Writers
      BY <1>t
    <3>3. ASSUME NEW i \in 1 .. Len(Tail(rwait))
          PROVE  pc'[Tail(rwait)[i]] = "receiving"
      <4>1. /\ i + 1 \in 1 .. Len(rwait) /\ Tail(rwait)[i] = rwait[i + 1]
            /\ rwait[i + 1] # Head(rwait)
        BY <3>1
      <4>2. /\ rwait[i + 1] \in Writers /\ rwait[i + 1] # w
            /\ pc[rwait[i + 1]] = "receiving"
        BY <4>1, <3>2, <1>n DEF QueuesMatch
      <4> QED BY <4>1, <4>2, <2>3
    <3> QED BY <2>1, <3>1, <3>3
  <2>6. /\ \A i \in 1 .. Len(swait') : pc'[swait'[i]] = "sending"
        /\ \A i, j \in 1 .. Len(swait') : swait'[i] = swait'[j] => i = j
    <3>2. \A i \in 1 .. Len(swait) : swait[i] \in Writers
      BY <1>t
    <3>3. ASSUME NEW i \in 1 .. Len(swait) PROVE pc'[swait[i]] = "sending"
      <4>1. swait[i] \in Writers /\ swait[i] # w /\ pc[swait[i]] = "sending"
        BY <3>2, <1>n DEF QueuesMatch
      <4> QED BY <4>1, <2>2, <2>3
    <3> QED BY <2>1, <3>3 DEF QueuesMatch
  <2> QED BY <2>4, <2>5, <2>6 DEF QueuesMatch
<1>2. CASE rwait = <<>> /\ tokens = 0
  <2>1. pc' = [pc EXCEPT ![w] = "sent"] /\ rwait' = rwait /\ swait' = swait
    BY <1>2 DEF AsyncSend
  <2>2. \A v \in Writers : pc'[v] = IF v = w THEN "sent" ELSE pc[v]
    BY <2>1, <1>t
  <2>3. /\ \A i \in 1 .. Len(rwait) : rwait[i] \in Writers
        /\ \A i \in 1 .. Len(swait) : swait[i] \in Writers
    BY <1>t
  <2> QED BY <2>1, <2>2, <2>3, <1>n DEF QueuesMatch, OthersKeep
<1>3. CASE rwait = <<>> /\ tokens = 1
  <2>1. /\ pc' = [pc EXCEPT ![w] = "sending"]
        /\ rwait' = rwait /\ swait' = Append(swait, w)
    BY <1>3 DEF AsyncSend
  <2>2. \A v \in Writers : pc'[v] = IF v = w THEN "sending" ELSE pc[v]
    BY <2>1, <1>t
  <2>3. /\ Len(swait') = Len(swait) + 1 /\ swait'[Len(swait) + 1] = w
        /\ \A i \in 1 .. Len(swait) : swait'[i] = swait[i] /\ swait[i] \in Writers
        /\ \A i \in 1 .. Len(rwait) : rwait[i] \in Writers
        /\ Len(swait) \in Nat
    BY <1>t, <2>1
  <2>4. \A i \in 1 .. Len(swait') : i \in 1 .. Len(swait) \/ i = Len(swait) + 1
    BY <2>3
  <2>5. /\ \A i \in 1 .. Len(swait') : pc'[swait'[i]] = "sending"
        /\ \A i, j \in 1 .. Len(swait') : swait'[i] = swait'[j] => i = j
    BY <2>2, <2>3, <2>4, <1>n DEF QueuesMatch
  <2> QED BY <2>1, <2>2, <2>3, <2>5, <1>n DEF QueuesMatch, OthersKeep
<1> QED BY <1>1, <1>2, <1>3, <1>t

\* async_receive: the sender it releases leaves Unlock, w stays inside Lock.
LEMMA AsyncReceiveEffect ==
    ASSUME TypeOK, QueuesMatch, NEW w \in Writers, NEW q \in Seq(Writers),
           pc[w] \notin {"receiving", "sending"}, AsyncReceive(w, q)
    PROVE  QueuesMatch' /\ OthersKeep(w) /\ pc'[w] \in {"receiving", "received"}
<1>t. /\ pc \in [Writers -> PC] /\ rwait \in Seq(Writers) /\ swait \in Seq(Writers)
      /\ tokens \in {0, 1} /\ open \in BOOLEAN
  BY DEF TypeOK, PC
<1>n. /\ \A i \in 1 .. Len(rwait) : rwait[i] # w
      /\ \A i \in 1 .. Len(swait) : swait[i] # w
  BY RunningNotQueued
<1>e. /\ \A i \in 1 .. Len(rwait) : rwait[i] \in Writers
      /\ \A i \in 1 .. Len(swait) : swait[i] \in Writers
  BY <1>t
<1>1. CASE tokens = 1 /\ swait # <<>>
  <2>1. /\ pc' = [pc EXCEPT ![Head(swait)] = "sent", ![w] = "received"]
        /\ swait' = Tail(swait) /\ rwait' = rwait
    BY <1>1 DEF AsyncReceive
  <2>2. /\ 1 \in 1 .. Len(swait) /\ Head(swait) = swait[1]
        /\ Head(swait) \in Writers /\ Head(swait) # w /\ pc[Head(swait)] = "sending"
    BY <1>1, <1>t, <1>n DEF QueuesMatch
  <2>3. \A v \in Writers : pc'[v] = IF v = w THEN "received"
                                    ELSE IF v = Head(swait) THEN "sent" ELSE pc[v]
    BY <2>1, <2>2, <1>t
  <2>4. OthersKeep(w) /\ pc'[w] = "received"
    BY <2>2, <2>3 DEF OthersKeep
  <2>5. /\ \A i \in 1 .. Len(swait') : pc'[swait'[i]] = "sending"
        /\ \A i, j \in 1 .. Len(swait') : swait'[i] = swait'[j] => i = j
    <3>1. /\ \A i \in 1 .. Len(Tail(swait)) :
                 /\ i + 1 \in 1 .. Len(swait)
                 /\ Tail(swait)[i] = swait[i + 1]
                 /\ Tail(swait)[i] # Head(swait)
          /\ \A i, j \in 1 .. Len(Tail(swait)) : Tail(swait)[i] = Tail(swait)[j] => i = j
      BY <1>1, <1>t, TailOfQueue DEF QueuesMatch
    <3>3. ASSUME NEW i \in 1 .. Len(Tail(swait))
          PROVE  pc'[Tail(swait)[i]] = "sending"
      <4>1. /\ i + 1 \in 1 .. Len(swait) /\ Tail(swait)[i] = swait[i + 1]
            /\ swait[i + 1] # Head(swait)
        BY <3>1
      <4>2. /\ swait[i + 1] \in Writers /\ swait[i + 1] # w
            /\ pc[swait[i + 1]] = "sending"
        BY <4>1, <1>e, <1>n DEF QueuesMatch
      <4> QED BY <4>1, <4>2, <2>3
    <3> QED BY <2>1, <3>1, <3>3
  <2>6. /\ \A i \in 1 .. Len(rwait') : pc'[rwait'[i]] = "receiving"
        /\ \A i, j \in 1 .. Len(rwait') : rwait'[i] = rwait'[j] => i = j
    <3>3. ASSUME NEW i \in 1 .. Len(rwait) PROVE pc'[rwait[i]] = "receiving"
      <4>1. rwait[i] \in Writers /\ rwait[i] # w /\ pc[rwait[i]] = "receiving"
        BY <1>e, <1>n DEF QueuesMatch
      <4> QED BY <4>1, <2>2, <2>3
    <3> QED BY <2>1, <3>3 DEF QueuesMatch
  <2> QED BY <2>4, <2>5, <2>6 DEF QueuesMatch
<1>2. CASE (tokens = 1 /\ swait = <<>>) \/ (tokens = 0 /\ ~open)
  <2>1. pc' = [pc EXCEPT ![w] = "received"] /\ rwait' = rwait /\ swait' = swait
    BY <1>2 DEF AsyncReceive
  <2>2. \A v \in Writers : pc'[v] = IF v = w THEN "received" ELSE pc[v]
    BY <2>1, <1>t
  <2> QED BY <2>1, <2>2, <1>e, <1>n DEF QueuesMatch, OthersKeep
<1>3. CASE tokens = 0 /\ open
  <2>1. /\ pc' = [pc EXCEPT ![w] = "receiving"]
        /\ swait' = swait /\ rwait' = Append(rwait, w)
    BY <1>3 DEF AsyncReceive
  <2>2. \A v \in Writers : pc'[v] = IF v = w THEN "receiving" ELSE pc[v]
    BY <2>1, <1>t
  <2>3. /\ Len(rwait') = Len(rwait) + 1 /\ rwait'[Len(rwait) + 1] = w
        /\ \A i \in 1 .. Len(rwait) : rwait'[i] = rwait[i]
        /\ Len(rwait) \in Nat
    BY <1>t, <2>1
  <2>4. \A i \in 1 .. Len(rwait') : i \in 1 .. Len(rwait) \/ i = Len(rwait) + 1
    BY <2>3
  <2>5. /\ \A i \in 1 .. Len(rwait') : pc'[rwait'[i]] = "receiving"
        /\ \A i, j \in 1 .. Len(rwait') : rwait'[i] = rwait'[j] => i = j
    BY <2>2, <2>3, <2>4, <1>e, <1>n DEF QueuesMatch
  <2> QED BY <2>1, <2>2, <2>5, <1>e, <1>n DEF QueuesMatch, OthersKeep
<1> QED BY <1>1, <1>2, <1>3, <1>t

\* Unlock: w leaves the part of Write that holds the lock.
LEMMA UnlockEffect ==
    ASSUME TypeOK, QueuesMatch, NEW w \in Writers, NEW q \in Seq(Writers),
           NEW wc \in Nat, NEW lk \in BOOLEAN,
           pc[w] \notin {"receiving", "sending"}, Unlock(w, q, wc, lk)
    PROVE  /\ QueuesMatch' /\ OthersKeep(w)
           /\ pc'[w] \in {"idle", "sent", "sending"}
           /\ wait_count' = wc
           /\ open => ~locked'
<1>1. CASE ~open \/ wc = 0
  <2>1. /\ pc' = [pc EXCEPT ![w] = "idle"] /\ rwait' = rwait /\ swait' = swait
        /\ wait_count' = wc
        /\ open => ~locked'
    BY <1>1 DEF Unlock, chanVars
  <2>2. \A v \in Writers : pc'[v] = IF v = w THEN "idle" ELSE pc[v]
    BY <2>1 DEF TypeOK
  <2>3. /\ \A i \in 1 .. Len(rwait) : rwait[i] \in Writers /\ rwait[i] # w
        /\ \A i \in 1 .. Len(swait) : swait[i] \in Writers /\ swait[i] # w
    BY RunningNotQueued DEF TypeOK
  <2>4. QueuesMatch' /\ OthersKeep(w) /\ pc'[w] = "idle"
    BY <2>1, <2>2, <2>3 DEF QueuesMatch, OthersKeep
  <2> QED BY <2>1, <2>4
<1>2. CASE ~(~open \/ wc = 0)
  BY <1>2, AsyncSendEffect DEF Unlock
<1> QED BY <1>1, <1>2

\* Write after Lock: w starts its AsyncWrite with the next nonce, or unlocks.
LEMMA AfterLockEffect ==
    ASSUME TypeOK, QueuesMatch, NEW w \in Writers, NEW q \in Seq(Writers),
           NEW wc \in Nat, NEW lk \in BOOLEAN,
           pc[w] \notin {"receiving", "sending"}, AfterLock(w, q, wc, lk)
    PROVE  /\ QueuesMatch' /\ OthersKeep(w) /\ wait_count' = wc
           /\ \/ EncryptOk(w) /\ pc'[w] = "writing" /\ locked' = lk
              \/ /\ UNCHANGED <<encrypt_iv, write_buffer>>
                 /\ pc'[w] \in {"idle", "sent", "sending"}
                 /\ open => ~locked'
<1>1. CASE EncryptOk(w) /\ pc' = [pc EXCEPT ![w] = "writing"] /\ locked' = lk
           /\ wait_count' = wc /\ UNCHANGED chanVars
  <2>1. rwait' = rwait /\ swait' = swait
    BY <1>1 DEF chanVars
  <2>2. \A v \in Writers : pc'[v] = IF v = w THEN "writing" ELSE pc[v]
    BY <1>1 DEF TypeOK
  <2>3. /\ \A i \in 1 .. Len(rwait) : rwait[i] \in Writers /\ rwait[i] # w
        /\ \A i \in 1 .. Len(swait) : swait[i] \in Writers /\ swait[i] # w
    BY RunningNotQueued DEF TypeOK
  <2>4. QueuesMatch' /\ OthersKeep(w) /\ pc'[w] = "writing"
    BY <2>1, <2>2, <2>3 DEF QueuesMatch, OthersKeep
  <2> QED BY <1>1, <2>4
<1>2. CASE Unlock(w, q, wc, lk) /\ UNCHANGED <<encrypt_iv, write_buffer>>
  BY <1>2, UnlockEffect
<1> QED BY <1>1, <1>2 DEF AfterLock

\* One turn of Lock: w waits while locked_, or goes on holding the lock.
LEMMA LockLoopEffect ==
    ASSUME TypeOK, QueuesMatch, NEW w \in Writers, NEW q \in Seq(Writers),
           NEW wc \in Nat, pc[w] \notin {"receiving", "sending"}, LockLoop(w, q, wc)
    PROVE  /\ QueuesMatch' /\ OthersKeep(w)
           /\ \/ /\ locked /\ locked' /\ UNCHANGED <<encrypt_iv, write_buffer>>
                 /\ pc'[w] \in {"receiving", "received"}
                 /\ wait_count' = wc + 1
              \/ /\ ~locked /\ wait_count' = wc
                 /\ \/ EncryptOk(w) /\ pc'[w] = "writing" /\ locked'
                    \/ /\ UNCHANGED <<encrypt_iv, write_buffer>>
                       /\ pc'[w] \in {"idle", "sent", "sending"}
                       /\ open => ~locked'
<1>1. CASE locked
  BY <1>1, AsyncReceiveEffect DEF LockLoop
<1>2. CASE ~locked
  BY <1>2, AfterLockEffect DEF LockLoop
<1> QED BY <1>1, <1>2

-----------------------------------------------------------------------------
(***************************************************************************)
(* wait_count_.                                                            *)
(***************************************************************************)

\* The set of coroutines inside Lock when w leaves it or stays out of it.
LEMMA InLockLeaves ==
    ASSUME NEW w \in Writers, OthersKeep(w), pc'[w] \notin {"receiving", "received"}
    PROVE  InLock' = InLock \ {w}
BY DEF InLock, OthersKeep

\* The set of coroutines inside Lock when w enters it or stays in it.
LEMMA InLockEnters ==
    ASSUME NEW w \in Writers, OthersKeep(w), pc'[w] \in {"receiving", "received"}
    PROVE  InLock' = InLock \cup {w}
BY DEF InLock, OthersKeep

\* Cardinalities of the two.
LEMMA InLockCounts ==
    ASSUME NEW w \in Writers
    PROVE  /\ w \in InLock => /\ InLock \cup {w} = InLock
                              /\ Cardinality(InLock \ {w}) = Cardinality(InLock) - 1
           /\ w \notin InLock => /\ InLock \ {w} = InLock
                                 /\ Cardinality(InLock \cup {w}) = Cardinality(InLock) + 1
           /\ Cardinality(InLock) \in Nat
<1>1. IsFiniteSet(InLock)
  BY WritersAssumption, FS_Subset DEF InLock
<1>2. Cardinality(InLock) \in Nat
  BY <1>1, FS_CardinalityType
<1>3. w \in InLock => Cardinality(InLock \ {w}) = Cardinality(InLock) - 1
  BY <1>1, FS_RemoveElement
<1>4. w \notin InLock => Cardinality(InLock \cup {w}) = Cardinality(InLock) + 1
  BY <1>1, FS_AddElement
<1>5. /\ w \in InLock => InLock \cup {w} = InLock
      /\ w \notin InLock => InLock \ {w} = InLock
  OBVIOUS
<1> QED BY <1>2, <1>3, <1>4, <1>5

\* Lock counts a coroutine in when it suspends and out when it resumes.
LEMMA WaitCountStep ==
    ASSUME TypeOK, QueuesMatch, WaitCountExact, [Next]_vars
    PROVE  WaitCountExact'
<1>q. ready # <<>> => Tail(ready) \in Seq(Writers)
  BY DEF TypeOK
<1>1. ASSUME NEW w \in Writers, Write(w) PROVE WaitCountExact'
  <2>1. w \notin InLock /\ pc[w] = "idle" /\ ready \in Seq(Writers) /\ wait_count \in Nat
    BY <1>1 DEF Write, InLock, TypeOK
  <2>2. /\ OthersKeep(w)
        /\ \/ pc'[w] \in {"receiving", "received"} /\ wait_count' = wait_count + 1
           \/ pc'[w] \notin {"receiving", "received"} /\ wait_count' = wait_count
    <3>1. CASE open
      BY <1>1, <2>1, <3>1, LockLoopEffect DEF Write
    <3>2. CASE ~open
      <4>1. AfterLock(w, ready, wait_count, locked) /\ locked \in BOOLEAN
        BY <1>1, <3>2 DEF Write, TypeOK
      <4> QED BY <4>1, <2>1, AfterLockEffect
    <3> QED BY <3>1, <3>2
  <2> QED BY <2>1, <2>2, InLockLeaves, InLockEnters, InLockCounts DEF WaitCountExact
<1>2. ASSUME NEW w \in Writers, ResumeLock(w) PROVE WaitCountExact'
  <2>1. /\ w \in InLock /\ pc[w] = "received" /\ Tail(ready) \in Seq(Writers)
        /\ wait_count - 1 \in Nat
    BY <1>2, <1>q, ResumedIsCounted DEF ResumeLock, InLock
  <2>2. /\ OthersKeep(w)
        /\ \/ pc'[w] \in {"receiving", "received"} /\ wait_count' = wait_count - 1 + 1
           \/ pc'[w] \notin {"receiving", "received"} /\ wait_count' = wait_count - 1
    <3>1. CASE recv_ec[w]
      <4>1. AfterLock(w, Tail(ready), wait_count - 1, locked)
        BY <1>2, <3>1 DEF ResumeLock
      <4>2. locked \in BOOLEAN
        BY DEF TypeOK
      <4> QED BY <2>1, <4>1, <4>2, AfterLockEffect
    <3>2. CASE ~recv_ec[w]
      BY <1>2, <2>1, <3>2, LockLoopEffect DEF ResumeLock
    <3> QED BY <3>1, <3>2
  <2>3. wait_count \in Nat
    BY DEF TypeOK
  <2>4. CASE pc'[w] \in {"receiving", "received"}
    <3>1. InLock' = InLock
      BY <2>1, <2>2, <2>4, InLockEnters, InLockCounts
    <3>2. wait_count' = wait_count
      BY <2>2, <2>3, <2>4
    <3> QED BY <3>1, <3>2 DEF WaitCountExact
  <2>5. CASE pc'[w] \notin {"receiving", "received"}
    <3>1. InLock' = InLock \ {w}
      BY <2>2, <2>5, InLockLeaves
    <3>2. wait_count' = wait_count - 1
      BY <2>2, <2>5
    <3>3. Cardinality(InLock \ {w}) = Cardinality(InLock) - 1
      BY <2>1, InLockCounts
    <3> QED BY <3>1, <3>2, <3>3 DEF WaitCountExact
  <2> QED BY <2>4, <2>5
<1>3. ASSUME NEW w \in Writers, ResumeWrite(w) PROVE WaitCountExact'
  <2>1. w \notin InLock /\ pc[w] = "written" /\ Tail(ready) \in Seq(Writers)
    BY <1>3, <1>q DEF ResumeWrite, InLock
  <2>2. /\ OthersKeep(w) /\ wait_count' = wait_count
        /\ pc'[w] \notin {"receiving", "received"}
    <3>1. Unlock(w, Tail(ready), wait_count, locked)
      BY <1>3 DEF ResumeWrite
    <3>2. wait_count \in Nat /\ locked \in BOOLEAN
      BY DEF TypeOK
    <3> QED BY <2>1, <3>1, <3>2, UnlockEffect
  <2> QED BY <2>1, <2>2, InLockLeaves, InLockCounts DEF WaitCountExact
<1>4. ASSUME NEW w \in Writers, ResumeUnlock(w) \/ WriteOk(w) \/ WriteFails(w)
      PROVE  WaitCountExact'
  <2>1. InLock' = InLock /\ wait_count' = wait_count
    BY <1>4 DEF InLock, ResumeUnlock, WriteOk, WriteFails, TypeOK
  <2> QED BY <2>1 DEF WaitCountExact
<1>5. ASSUME Close PROVE WaitCountExact'
  <2>1. InLock' = InLock /\ wait_count' = wait_count
    BY <1>5 DEF InLock, Close, TypeOK
  <2> QED BY <2>1 DEF WaitCountExact
<1>6. CASE UNCHANGED vars
  BY <1>6 DEF vars, WaitCountExact, InLock
<1> QED
  BY <1>1, <1>2, <1>3, <1>4, <1>5, <1>6 DEF Next, Step, Socket, Finished

-----------------------------------------------------------------------------
(***************************************************************************)
(* Mutual exclusion and the order of the nonces.                           *)
(***************************************************************************)

\* The part of the invariant about the holder of the lock and its frame.
HolderInv == WriteExclusive /\ NonceMatches /\ WireInOrder

\* A coroutine that neither holds nor takes the lock leaves the holder alone.
LEMMA BystanderKeeps ==
    ASSUME HolderInv, NEW w \in Writers, OthersKeep(w),
           ~InWrite(w), pc'[w] \notin {"writing", "written"},
           open' = open, broken' = broken, wire' = wire, locked' = locked,
           encrypt_iv' = encrypt_iv, write_buffer' = write_buffer
    PROVE  HolderInv'
<1>1. \A v \in Writers : /\ pc'[v] = "writing" <=> pc[v] = "writing"
                         /\ pc'[v] = "written" <=> pc[v] = "written"
  BY DEF OthersKeep, InWrite
<1> QED BY <1>1 DEF HolderInv, WriteExclusive, NonceMatches, WireInOrder, InWrite

\* The free lock is taken: the frame gets the next nonce on the wire.
LEMMA HolderEnters ==
    ASSUME HolderInv, TypeOK, NEW w \in Writers, OthersKeep(w), ~locked,
           EncryptOk(w), pc'[w] = "writing", locked',
           open' = open, broken' = broken, wire' = wire
    PROVE  HolderInv'
<1>1. CASE open
  <2>1. \A v \in Writers : ~InWrite(v)
    BY <1>1 DEF HolderInv, WriteExclusive
  <2>2. \A v \in Writers : InWrite(v)' <=> v = w
    BY <2>1 DEF OthersKeep, InWrite
  <2>3. write_buffer'.from = w /\ write_buffer'.iv = encrypt_iv
    BY DEF EncryptOk
  <2>4. WriteExclusive'
    BY <2>2, <2>3 DEF WriteExclusive, InWrite
  <2>5. ~broken => encrypt_iv = Len(wire)
    BY <1>1, <2>1 DEF HolderInv, NonceMatches, InWrite
  <2> QED BY <2>3, <2>4, <2>5 DEF HolderInv, NonceMatches, WireInOrder, EncryptOk
<1>2. CASE ~open
  BY <1>2 DEF HolderInv, WriteExclusive, NonceMatches, WireInOrder
<1> QED BY <1>1, <1>2

\* The lock is released, or taken and released at once: nobody holds it.
LEMMA HolderLeaves ==
    ASSUME HolderInv, NEW w \in Writers, OthersKeep(w),
           pc[w] # "writing", InWrite(w) \/ ~locked,
           pc'[w] \notin {"writing", "written"}, open => ~locked',
           open' = open, broken' = broken, wire' = wire,
           encrypt_iv' = encrypt_iv, write_buffer' = write_buffer
    PROVE  HolderInv'
<1>1. CASE open
  <2>1. \A v \in Writers : InWrite(v) => v = w
    BY <1>1 DEF HolderInv, WriteExclusive
  <2>2. \A v \in Writers : ~InWrite(v)' /\ pc[v] # "writing"
    BY <2>1 DEF OthersKeep, InWrite
  <2> QED BY <1>1, <2>2 DEF HolderInv, WriteExclusive, NonceMatches, WireInOrder, InWrite
<1>2. CASE ~open
  BY <1>2 DEF HolderInv, WriteExclusive, NonceMatches, WireInOrder
<1> QED BY <1>1, <1>2

\* The three together: one turn of Lock, run by a coroutine outside the lock.
LEMMA HolderLockLoop ==
    ASSUME HolderInv, TypeOK, QueuesMatch, NEW w \in Writers, NEW q \in Seq(Writers),
           NEW wc \in Nat, pc[w] \in {"idle", "received"}, LockLoop(w, q, wc),
           open' = open, broken' = broken, wire' = wire
    PROVE  HolderInv'
<1>1. locked \in BOOLEAN
  BY DEF TypeOK
<1>2. /\ OthersKeep(w)
      /\ \/ /\ locked /\ locked' /\ UNCHANGED <<encrypt_iv, write_buffer>>
            /\ pc'[w] \in {"receiving", "received"}
         \/ /\ ~locked
            /\ \/ EncryptOk(w) /\ pc'[w] = "writing" /\ locked'
               \/ /\ UNCHANGED <<encrypt_iv, write_buffer>>
                  /\ pc'[w] \in {"idle", "sent", "sending"}
                  /\ open => ~locked'
  BY LockLoopEffect
<1>3. ~InWrite(w) /\ pc[w] # "writing"
  BY DEF InWrite
<1>4. CASE locked
  <2>1. locked' = locked
    BY <1>2, <1>4 DEF LockLoop
  <2> QED BY <1>2, <1>3, <1>4, <2>1, BystanderKeeps
<1>5. CASE ~locked /\ EncryptOk(w) /\ pc'[w] = "writing" /\ locked'
  BY <1>2, <1>5, HolderEnters
<1>6. CASE ~locked /\ ~(EncryptOk(w) /\ pc'[w] = "writing" /\ locked')
  BY <1>2, <1>3, <1>6, HolderLeaves
<1> QED BY <1>4, <1>5, <1>6

\* Every step keeps the holder of the lock and its frame right.
LEMMA HolderStep ==
    ASSUME WriteInv, [Next]_vars
    PROVE  HolderInv'
<1>i. /\ HolderInv /\ TypeOK /\ QueuesMatch /\ WaitCountExact /\ RecvErrorMeansClosed
  BY DEF WriteInv, HolderInv
<1>t. /\ ready \in Seq(Writers) /\ wait_count \in Nat /\ locked \in BOOLEAN
      /\ open \in BOOLEAN /\ broken \in BOOLEAN
      /\ ready # <<>> => Tail(ready) \in Seq(Writers)
  BY <1>i DEF TypeOK
<1>1. ASSUME NEW w \in Writers, Write(w) PROVE HolderInv'
  <2>1. /\ pc[w] = "idle" /\ open' = open /\ broken' = broken /\ wire' = wire
    BY <1>1 DEF Write, ioVars
  <2>2. CASE open
    BY <1>1, <1>i, <1>t, <2>1, <2>2, HolderLockLoop DEF Write
  <2>3. CASE ~open
    BY <1>i, <2>1, <2>3 DEF HolderInv, WriteExclusive, NonceMatches, WireInOrder
  <2> QED BY <2>2, <2>3
<1>2. ASSUME NEW w \in Writers, ResumeLock(w) PROVE HolderInv'
  <2>1. /\ pc[w] = "received" /\ open' = open /\ broken' = broken /\ wire' = wire
        /\ Tail(ready) \in Seq(Writers) /\ wait_count - 1 \in Nat
    BY <1>2, <1>i, <1>t, ResumedIsCounted DEF ResumeLock, ioVars
  <2>2. CASE open
    <3>1. LockLoop(w, Tail(ready), wait_count - 1)
      BY <1>2, <1>i, <2>2 DEF ResumeLock, RecvErrorMeansClosed
    <3> QED BY <1>i, <2>1, <3>1, HolderLockLoop
  <2>3. CASE ~open
    BY <1>i, <2>1, <2>3 DEF HolderInv, WriteExclusive, NonceMatches, WireInOrder
  <2> QED BY <2>2, <2>3
<1>3. ASSUME NEW w \in Writers, ResumeWrite(w) PROVE HolderInv'
  <2>1. /\ pc[w] = "written" /\ open' = open /\ broken' = broken /\ wire' = wire
        /\ encrypt_iv' = encrypt_iv /\ write_buffer' = write_buffer
        /\ Unlock(w, Tail(ready), wait_count, locked) /\ Tail(ready) \in Seq(Writers)
    BY <1>3, <1>t DEF ResumeWrite, ioVars
  <2>2. /\ OthersKeep(w) /\ pc'[w] \in {"idle", "sent", "sending"}
        /\ open => ~locked'
    BY <1>i, <1>t, <2>1, UnlockEffect
  <2> QED BY <1>i, <2>1, <2>2, HolderLeaves DEF InWrite
<1>4. ASSUME NEW w \in Writers, ResumeUnlock(w) PROVE HolderInv'
  <2>1. /\ pc[w] = "sent" /\ open' = open /\ broken' = broken /\ wire' = wire
        /\ encrypt_iv' = encrypt_iv /\ write_buffer' = write_buffer
        /\ locked' = locked /\ pc' = [pc EXCEPT ![w] = "idle"]
    BY <1>4 DEF ResumeUnlock, ioVars
  <2>2. OthersKeep(w) /\ pc'[w] = "idle"
    BY <1>i, <2>1 DEF OthersKeep, TypeOK
  <2> QED BY <1>i, <2>1, <2>2, BystanderKeeps DEF InWrite
<1>5. ASSUME NEW w \in Writers, WriteOk(w) PROVE HolderInv'
  <2>1. /\ pc[w] = "writing" /\ open /\ ~broken /\ open' = open /\ broken' = broken
        /\ encrypt_iv' = encrypt_iv /\ write_buffer' = write_buffer
        /\ locked' = locked /\ pc' = [pc EXCEPT ![w] = "written"]
        /\ wire' = Append(wire, write_buffer)
    BY <1>5 DEF WriteOk
  <2>2. \A v \in Writers : InWrite(v) => v = w
    BY <1>i, <2>1 DEF HolderInv, WriteExclusive, InWrite
  <2>3. \A v \in Writers : pc'[v] # "writing" /\ (InWrite(v)' <=> InWrite(v))
    BY <1>i, <2>1, <2>2 DEF InWrite, TypeOK
  <2>4. WriteExclusive'
    BY <1>i, <2>1, <2>3 DEF HolderInv, WriteExclusive
  <2>5. encrypt_iv = Len(wire) + 1 /\ write_buffer.iv = Len(wire)
    BY <1>i, <2>1 DEF HolderInv, NonceMatches
  <2>6. /\ wire \in Seq(Frame) /\ write_buffer \in Frame
        /\ Len(wire') = Len(wire) + 1 /\ wire'[Len(wire) + 1] = write_buffer
        /\ \A i \in 1 .. Len(wire) : wire'[i] = wire[i]
        /\ DOMAIN wire = 1 .. Len(wire) /\ DOMAIN wire' = 1 .. Len(wire) + 1
        /\ Len(wire) \in Nat
    BY <1>i, <2>1 DEF TypeOK
  <2>7. NonceMatches'
    BY <2>1, <2>3, <2>5, <2>6 DEF NonceMatches
  <2>8. WireInOrder'
    BY <1>i, <2>5, <2>6 DEF HolderInv, WireInOrder
  <2> QED BY <2>4, <2>7, <2>8 DEF HolderInv
<1>6. ASSUME NEW w \in Writers, WriteFails(w) PROVE HolderInv'
  <2>1. /\ pc[w] = "writing" /\ open' = open /\ broken' /\ wire' = wire
        /\ encrypt_iv' = encrypt_iv /\ write_buffer' = write_buffer
        /\ locked' = locked /\ pc' = [pc EXCEPT ![w] = "written"]
    BY <1>6 DEF WriteFails
  <2>2. \A v \in Writers : /\ InWrite(v)' <=> InWrite(v)
                           /\ pc'[v] = "writing" => pc[v] = "writing"
    BY <1>i, <2>1 DEF InWrite, TypeOK
  <2> QED BY <1>i, <2>1, <2>2 DEF HolderInv, WriteExclusive, NonceMatches, WireInOrder
<1>7. ASSUME Close PROVE HolderInv'
  BY <1>7, <1>i DEF Close, ioVars, HolderInv, WriteExclusive, NonceMatches, WireInOrder
<1>8. CASE UNCHANGED vars
  BY <1>8, <1>i DEF vars, HolderInv, WriteExclusive, NonceMatches, WireInOrder, InWrite
<1> QED
  BY <1>1, <1>2, <1>3, <1>4, <1>5, <1>6, <1>7, <1>8 DEF Next, Step, Socket, Finished

\* A receive gets its error from a closed channel or from Close.
LEMMA RecvErrorStep ==
    ASSUME TypeOK, QueuesMatch, RecvErrorMeansClosed, [Next]_vars
    PROVE  RecvErrorMeansClosed'
<1>s. ASSUME NEW w \in Writers, NEW q, AsyncSend(w, q) \/ AsyncReceive(w, q),
             open, \A v \in Writers : ~recv_ec[v]
      PROVE  \A v \in Writers : ~recv_ec'[v]
  BY <1>s DEF AsyncSend, AsyncReceive, TypeOK
<1>u. ASSUME NEW w \in Writers, NEW q, NEW wc, NEW lk, Unlock(w, q, wc, lk),
             open, \A v \in Writers : ~recv_ec[v]
      PROVE  \A v \in Writers : ~recv_ec'[v]
  BY <1>u, <1>s DEF Unlock, chanVars
<1>a. ASSUME NEW w \in Writers, NEW q, NEW wc, NEW lk, AfterLock(w, q, wc, lk),
             open, \A v \in Writers : ~recv_ec[v]
      PROVE  \A v \in Writers : ~recv_ec'[v]
  BY <1>a, <1>u DEF AfterLock, chanVars
<1>l. ASSUME NEW w \in Writers, NEW q, NEW wc, LockLoop(w, q, wc),
             open, \A v \in Writers : ~recv_ec[v]
      PROVE  \A v \in Writers : ~recv_ec'[v]
  BY <1>l, <1>s, <1>a DEF LockLoop
<1>1. ASSUME NEW w \in Writers, Write(w), open PROVE RecvErrorMeansClosed'
  BY <1>1, <1>l DEF Write, RecvErrorMeansClosed
<1>2. ASSUME NEW w \in Writers, ResumeLock(w), open PROVE RecvErrorMeansClosed'
  BY <1>2, <1>l DEF ResumeLock, RecvErrorMeansClosed
<1>3. ASSUME NEW w \in Writers, ResumeWrite(w), open PROVE RecvErrorMeansClosed'
  BY <1>3, <1>u DEF ResumeWrite, RecvErrorMeansClosed
<1>4. ASSUME NEW w \in Writers, ResumeUnlock(w) \/ WriteOk(w) \/ WriteFails(w)
      PROVE  RecvErrorMeansClosed'
  BY <1>4 DEF ResumeUnlock, WriteOk, WriteFails, chanVars, RecvErrorMeansClosed
<1>5. CASE Close
  BY <1>5 DEF Close, RecvErrorMeansClosed
<1>6. CASE ~open /\ ~Close /\ Next
  BY <1>6 DEF Next, Step, Socket, Finished, Write, ResumeLock, ResumeWrite,
              ResumeUnlock, WriteOk, WriteFails, vars, RecvErrorMeansClosed
<1>7. CASE UNCHANGED vars
  BY <1>7 DEF vars, RecvErrorMeansClosed
<1> QED
  BY <1>1, <1>2, <1>3, <1>4, <1>5, <1>6, <1>7 DEF Next, Step, Socket, Finished

\* The queues of the channel name the coroutines suspended on it.
LEMMA QueuesStep ==
    ASSUME TypeOK, QueuesMatch, WaitCountExact, [Next]_vars
    PROVE  QueuesMatch'
<1>t. /\ ready \in Seq(Writers) /\ wait_count \in Nat /\ locked \in BOOLEAN
      /\ ready # <<>> => Tail(ready) \in Seq(Writers)
  BY DEF TypeOK
<1>1. ASSUME NEW w \in Writers, Write(w) PROVE QueuesMatch'
  <2>1. CASE open
    BY <1>1, <1>t, <2>1, LockLoopEffect DEF Write
  <2>2. CASE ~open
    BY <1>1, <1>t, <2>2, AfterLockEffect DEF Write
  <2> QED BY <2>1, <2>2
<1>2. ASSUME NEW w \in Writers, ResumeLock(w) PROVE QueuesMatch'
  <2>1. wait_count - 1 \in Nat /\ Tail(ready) \in Seq(Writers) /\ pc[w] = "received"
    BY <1>2, <1>t, ResumedIsCounted DEF ResumeLock
  <2>2. CASE recv_ec[w]
    BY <1>2, <1>t, <2>1, <2>2, AfterLockEffect DEF ResumeLock
  <2>3. CASE ~recv_ec[w]
    BY <1>2, <1>t, <2>1, <2>3, LockLoopEffect DEF ResumeLock
  <2> QED BY <2>2, <2>3
<1>3. ASSUME NEW w \in Writers, ResumeWrite(w) PROVE QueuesMatch'
  BY <1>3, <1>t, UnlockEffect DEF ResumeWrite
<1>4. ASSUME NEW w \in Writers, ResumeUnlock(w) \/ WriteOk(w) \/ WriteFails(w)
      PROVE  QueuesMatch'
  <2>1. /\ rwait' = rwait /\ swait' = swait
        /\ \A v \in Writers \ {w} : pc'[v] = pc[v]
        /\ pc[w] \notin {"receiving", "sending"}
    BY <1>4 DEF ResumeUnlock, WriteOk, WriteFails, chanVars, TypeOK
  <2>2. /\ \A i \in 1 .. Len(rwait) : rwait[i] \in Writers /\ rwait[i] # w
        /\ \A i \in 1 .. Len(swait) : swait[i] \in Writers /\ swait[i] # w
    <3>1. /\ \A i \in 1 .. Len(rwait) : rwait[i] \in Writers
          /\ \A i \in 1 .. Len(swait) : swait[i] \in Writers
      BY DEF TypeOK
    <3>2. /\ \A i \in 1 .. Len(rwait) : rwait[i] # w
          /\ \A i \in 1 .. Len(swait) : swait[i] # w
      BY <2>1, RunningNotQueued
    <3> QED BY <3>1, <3>2
  <2> QED BY <2>1, <2>2 DEF QueuesMatch
<1>5. CASE Close
  BY <1>5 DEF Close, QueuesMatch
<1>6. CASE UNCHANGED vars
  BY <1>6 DEF vars, QueuesMatch
<1> QED
  BY <1>1, <1>2, <1>3, <1>4, <1>5, <1>6 DEF Next, Step, Socket, Finished

-----------------------------------------------------------------------------
(***************************************************************************)
(* The theorems.                                                           *)
(***************************************************************************)

\* WriteInv is an inductive invariant of MuxConnection::Write, Lock, Unlock
\* and Close.
THEOREM WriteInvariant == Spec => []WriteInv
<1>1. Init => WriteInv
  <2> SUFFICES ASSUME Init PROVE WriteInv
    OBVIOUS
  <2>1. TypeOK
    <3>1. recv_ec \in [Writers -> BOOLEAN] /\ wrote \in [Writers -> BOOLEAN]
      BY Zenon DEF Init
    <3>2. write_buffer \in Frame
      BY DEF Init, Frame
    <3>3. calls \in 0 .. MaxCalls /\ wait_count \in Nat /\ encrypt_iv \in Nat
      BY CallsAssumption DEF Init
    <3>4. /\ ready \in Seq(Writers) /\ rwait \in Seq(Writers) /\ swait \in Seq(Writers)
          /\ wire \in Seq(Frame)
      BY DEF Init
    <3>5. /\ pc \in [Writers -> {"idle", "receiving", "received", "writing",
                                "written", "sending", "sent"}]
          /\ tokens \in {0, 1}
      BY DEF Init
    <3>6. open \in BOOLEAN /\ broken \in BOOLEAN /\ locked \in BOOLEAN
      BY DEF Init
    <3> QED BY <3>1, <3>2, <3>3, <3>4, <3>5, <3>6, Zenon DEF TypeOK
  <2>2. QueuesMatch /\ RecvErrorMeansClosed /\ WriteExclusive
    <3>1. QueuesMatch
      BY DEF Init, QueuesMatch
    <3>2. RecvErrorMeansClosed
      BY Zenon DEF Init, RecvErrorMeansClosed
    <3>3. WriteExclusive
      BY DEF Init, WriteExclusive, InWrite
    <3> QED BY <3>1, <3>2, <3>3
  <2>3. NonceMatches /\ WireInOrder
    BY DEF Init, NonceMatches, WireInOrder
  <2>4. WaitCountExact
    <3>1. InLock = {}
      BY DEF Init, InLock
    <3> QED BY <3>1, FS_EmptySet DEF Init, WaitCountExact
  <2> QED BY <2>1, <2>2, <2>3, <2>4 DEF WriteInv
<1>2. WriteInv /\ [Next]_vars => WriteInv'
  <2> SUFFICES ASSUME WriteInv, [Next]_vars PROVE WriteInv'
    OBVIOUS
  <2>1. TypeOK /\ QueuesMatch /\ WaitCountExact /\ RecvErrorMeansClosed
    BY DEF WriteInv
  <2>2. TypeOK' /\ QueuesMatch' /\ WaitCountExact' /\ RecvErrorMeansClosed'
    BY <2>1, TypeStep, QueuesStep, WaitCountStep, RecvErrorStep
  <2>3. HolderInv'
    BY HolderStep
  <2> QED BY <2>2, <2>3 DEF WriteInv, HolderInv
<1> QED BY <1>1, <1>2, PTL DEF Spec

\* The variables of Write and of the mutex keep their types.
THEOREM WriteTypes == Spec => []TypeOK
<1>1. WriteInv => TypeOK
  BY DEF WriteInv
<1> QED BY <1>1, WriteInvariant, PTL

\* The peer receives frames with consecutive nonces.
THEOREM WriteOrder == Spec => []WireInOrder
<1>1. WriteInv => WireInOrder
  BY DEF WriteInv
<1> QED BY <1>1, WriteInvariant, PTL

\* On an open connection at most one coroutine is between Lock and Unlock, and
\* write_buffer_ is its own.
THEOREM WriteMutex == Spec => []WriteExclusive
<1>1. WriteInv => WriteExclusive
  BY DEF WriteInv
<1> QED BY <1>1, WriteInvariant, PTL

\* wait_count_ is the number of coroutines suspended in Lock.
THEOREM WaitersCounted == Spec => []WaitCountExact
<1>1. WriteInv => WaitCountExact
  BY DEF WriteInv
<1> QED BY <1>1, WriteInvariant, PTL

-----------------------------------------------------------------------------
(***************************************************************************)
(* No lost wakeup.                                                         *)
(***************************************************************************)

\* When Unlock reads zero from wait_count_ nobody is blocked in Lock.
LEMMA NobodyBlocked ==
    ASSUME TypeOK', QueuesMatch', WaitCountExact', wait_count' = 0
    PROVE  rwait' = <<>>
<1>1. IsFiniteSet(InLock')
  BY WritersAssumption, FS_Subset DEF InLock
<1>2. InLock' = {}
  BY <1>1, FS_EmptySet DEF WaitCountExact
<1>3. rwait' \in Seq(Writers)
  BY DEF TypeOK
<1>4. ASSUME rwait' # <<>> PROVE FALSE
  <2>1. 1 \in 1 .. Len(rwait') /\ rwait'[1] \in Writers
    BY <1>3, <1>4
  <2>2. rwait'[1] \in InLock'
    BY <2>1 DEF QueuesMatch, InLock
  <2> QED BY <1>2, <2>2
<1> QED BY <1>4

\* Unlock notifies a coroutine blocked in Lock, if there is one.
LEMMA UnlockWakes ==
    ASSUME TypeOK, TypeOK', QueuesMatch, QueuesMatch', WaitCountExact',
           NEW w \in Writers, NEW q \in Seq(Writers), NEW wc \in Nat, NEW lk \in BOOLEAN,
           pc[w] \notin {"receiving", "sending"}, Unlock(w, q, wc, lk), open' = open
    PROVE  NoLostWakeup'
<1>1. CASE ~open
  BY <1>1 DEF NoLostWakeup
<1>2. CASE open /\ wc = 0
  <2>1. wait_count' = 0
    BY <1>2 DEF Unlock
  <2> QED BY <2>1, NobodyBlocked DEF NoLostWakeup
<1>3. CASE open /\ wc # 0 /\ rwait = <<>>
  <2>1. rwait' = <<>>
    <3>1. AsyncSend(w, q)
      BY <1>3 DEF Unlock
    <3> QED BY <1>3, <3>1 DEF AsyncSend
  <2> QED BY <2>1 DEF NoLostWakeup
<1>4. CASE open /\ wc # 0 /\ rwait # <<>>
  <2>1. /\ pc' = [pc EXCEPT ![Head(rwait)] = "received", ![w] = "sent"]
        /\ ready' = Append(Append(q, Head(rwait)), w)
    <3>1. AsyncSend(w, q)
      BY <1>4 DEF Unlock
    <3> QED BY <1>4, <3>1 DEF AsyncSend
  <2>2. rwait \in Seq(Writers) /\ pc \in [Writers -> PC]
    BY DEF TypeOK, PC
  <2>3. /\ Head(rwait) = rwait[1] /\ 1 \in 1 .. Len(rwait) /\ Head(rwait) \in Writers
    BY <1>4, <2>2
  <2>4. Head(rwait) # w
    BY <2>3, RunningNotQueued
  <2>5. pc'[Head(rwait)] = "received"
    BY <2>1, <2>2, <2>3, <2>4
  <2>6. /\ Len(q) + 1 \in DOMAIN ready' /\ ready'[Len(q) + 1] = Head(rwait)
    BY <2>1, <2>3
  <2> QED BY <2>5, <2>6 DEF NoLostWakeup
<1> QED BY <1>1, <1>2, <1>3, <1>4

\* So do the fragments of Lock that end in Unlock or take the lock.
LEMMA LockLoopWakes ==
    ASSUME TypeOK, TypeOK', QueuesMatch, QueuesMatch', WaitCountExact',
           NEW w \in Writers, NEW q \in Seq(Writers), NEW wc \in Nat,
           pc[w] \notin {"receiving", "sending"}, LockLoop(w, q, wc), open' = open
    PROVE  NoLostWakeup'
<1>1. CASE locked'
  BY <1>1 DEF NoLostWakeup
<1>2. CASE ~locked'
  <2>0. locked => locked'
    BY DEF LockLoop, TypeOK
  <2>1. AfterLock(w, q, wc, TRUE)
    BY <1>2, <2>0, Zenon DEF LockLoop
  <2>2. Unlock(w, q, wc, TRUE)
    BY <1>2, <2>1, Zenon DEF AfterLock
  <2> QED BY <2>2, UnlockWakes
<1> QED BY <1>1, <1>2

\* Every step of Write, Lock, Unlock, the socket and Close keeps a waiter
\* from being forgotten.
LEMMA WakeupStep ==
    ASSUME WriteInv, WriteInv', NoLostWakeup, [Next]_vars
    PROVE  NoLostWakeup'
<1>i. /\ TypeOK /\ QueuesMatch /\ WaitCountExact /\ RecvErrorMeansClosed
      /\ TypeOK' /\ QueuesMatch' /\ WaitCountExact'
  BY DEF WriteInv
<1>t. /\ ready \in Seq(Writers) /\ wait_count \in Nat /\ locked \in BOOLEAN
      /\ ready # <<>> => Tail(ready) \in Seq(Writers)
      /\ pc \in [Writers -> PC]
  BY <1>i DEF TypeOK, PC
<1>c. CASE ~open'
  BY <1>c DEF NoLostWakeup
<1>1. ASSUME NEW w \in Writers, Write(w), open' PROVE NoLostWakeup'
  BY <1>1, <1>i, <1>t, LockLoopWakes DEF Write
<1>2. ASSUME NEW w \in Writers, ResumeLock(w), open' PROVE NoLostWakeup'
  <2>1. /\ open' = open /\ LockLoop(w, Tail(ready), wait_count - 1)
        /\ wait_count - 1 \in Nat /\ pc[w] = "received" /\ Tail(ready) \in Seq(Writers)
    BY <1>2, <1>i, <1>t, ResumedIsCounted DEF ResumeLock, RecvErrorMeansClosed
  <2> QED BY <1>i, <2>1, LockLoopWakes
<1>3. ASSUME NEW w \in Writers, ResumeWrite(w) PROVE NoLostWakeup'
  BY <1>3, <1>i, <1>t, UnlockWakes DEF ResumeWrite
<1>4. ASSUME NEW w \in Writers, ResumeUnlock(w), open' PROVE NoLostWakeup'
  <2>1. /\ ready # <<>> /\ Head(ready) = w /\ pc[w] = "sent" /\ ready' = Tail(ready)
        /\ pc' = [pc EXCEPT ![w] = "idle"] /\ rwait' = rwait /\ locked' = locked /\ open
    BY <1>4 DEF ResumeUnlock, chanVars
  <2>2. CASE locked \/ rwait = <<>>
    BY <2>1, <2>2 DEF NoLostWakeup
  <2>3. CASE ~locked /\ rwait # <<>>
    <3>1. PICK i \in DOMAIN ready : pc[ready[i]] = "received"
      BY <2>1, <2>3 DEF NoLostWakeup
    <3>2. ready[i] \in Writers /\ i # 1
      BY <1>t, <2>1, <3>1
    <3>3. i - 1 \in DOMAIN Tail(ready) /\ Tail(ready)[i - 1] = ready[i]
      BY <1>t, <2>1, <3>2
    <3>4. pc'[ready[i]] = "received"
      BY <1>t, <2>1, <3>1, <3>2
    <3> QED BY <2>1, <3>3, <3>4 DEF NoLostWakeup
  <2> QED BY <2>2, <2>3
<1>5. ASSUME NEW w \in Writers, Socket(w), open' PROVE NoLostWakeup'
  <2>1. /\ pc[w] = "writing" /\ ready' = Append(ready, w)
        /\ pc' = [pc EXCEPT ![w] = "written"] /\ rwait' = rwait /\ locked' = locked /\ open
    BY <1>5 DEF Socket, WriteOk, WriteFails, chanVars
  <2>2. CASE locked \/ rwait = <<>>
    BY <2>1, <2>2 DEF NoLostWakeup
  <2>3. CASE ~locked /\ rwait # <<>>
    <3>1. PICK i \in DOMAIN ready : pc[ready[i]] = "received"
      BY <2>1, <2>3 DEF NoLostWakeup
    <3>2. /\ ready[i] \in Writers /\ i \in DOMAIN Append(ready, w)
          /\ Append(ready, w)[i] = ready[i]
      BY <1>t, <3>1
    <3>3. pc'[ready[i]] = "received"
      BY <1>t, <2>1, <3>1, <3>2
    <3> QED BY <2>1, <3>2, <3>3 DEF NoLostWakeup
  <2> QED BY <2>2, <2>3
<1>6. CASE Close
  BY <1>6 DEF Close, NoLostWakeup
<1>7. CASE UNCHANGED vars
  BY <1>7 DEF vars, NoLostWakeup
<1> QED BY <1>c, <1>1, <1>2, <1>3, <1>4, <1>5, <1>6, <1>7 DEF Next, Step, Finished

\* A coroutine blocked in Lock will be notified: the lock is held, or one that
\* was notified is about to run.
THEOREM WakeupKept == Spec => []NoLostWakeup
<1>1. Init => NoLostWakeup
  BY DEF Init, NoLostWakeup
<1>2. WriteInv /\ WriteInv' /\ NoLostWakeup /\ [Next]_vars => NoLostWakeup'
  BY WakeupStep
<1> QED BY <1>1, <1>2, WriteInvariant, PTL DEF Spec

-----------------------------------------------------------------------------
(***************************************************************************)
(* No stale token, when encryption does not fail.                          *)
(***************************************************************************)

\* The states of a coroutine whose operation has completed.
Resumable == {"received", "written", "sent"}

\* A queue r of completed operations, the coroutines being in the states p,
\* holds each coroutine whose operation has completed once.
ReadyMatch(r, p) ==
    /\ \A i \in 1 .. Len(r) : p[r[i]] \in Resumable
    /\ \A i, j \in 1 .. Len(r) : r[i] = r[j] => i = j
    /\ \A w \in Writers : p[w] \in Resumable => \E i \in 1 .. Len(r) : r[i] = w

\* The holder of the lock resumes after every coroutine that was notified
\* before: when it unlocks, none is about to look at the lock.
ReadyOrder(r, p) ==
    \A i, j \in 1 .. Len(r) : i < j /\ p[r[i]] = "written" => p[r[j]] # "received"

ReadyInv(r, p) == ReadyMatch(r, p) /\ ReadyOrder(r, p)

\* A coroutine blocked in Lock is in the queue b of receivers.
BlockedQueued(p, b) ==
    \A w \in Writers : p[w] = "receiving" => \E i \in 1 .. Len(b) : b[i] = w

\* The inductive invariant behind NoStaleToken.
TokenInv ==
    ~EncryptMayFail => /\ tokens = 0 /\ swait = <<>>
                       /\ open => ReadyInv(ready, pc) /\ BlockedQueued(pc, rwait)

\* The positions of a queue after a coroutine is appended to it.
LEMMA AppendToQueue ==
    ASSUME NEW s \in Seq(Writers), NEW w \in Writers
    PROVE  /\ Append(s, w) \in Seq(Writers)
           /\ Len(s) \in Nat /\ Len(Append(s, w)) = Len(s) + 1
           /\ \A i \in 1 .. Len(s) : Append(s, w)[i] = s[i] /\ s[i] \in Writers
           /\ Append(s, w)[Len(s) + 1] = w
           /\ \A i \in 1 .. Len(Append(s, w)) : i \in 1 .. Len(s) \/ i = Len(s) + 1
OBVIOUS

\* A coroutine that is not in ready suspends on something not yet completed.
LEMMA ReadyStays ==
    ASSUME NEW r \in Seq(Writers), NEW p \in [Writers -> PC], ReadyInv(r, p),
           NEW w \in Writers, NEW x \in PC \ Resumable, p[w] \notin Resumable
    PROVE  ReadyInv(r, [p EXCEPT ![w] = x])
<1> DEFINE p2 == [p EXCEPT ![w] = x]
<1>1. \A v \in Writers : p2[v] = IF v = w THEN x ELSE p[v]
  OBVIOUS
<1>2. \A i \in 1 .. Len(r) : r[i] \in Writers /\ r[i] # w /\ p2[r[i]] = p[r[i]]
  BY DEF ReadyInv, ReadyMatch
<1> HIDE DEF p2
<1>3. ReadyInv(r, p2)
  BY <1>1, <1>2 DEF ReadyInv, ReadyMatch, ReadyOrder
<1> QED BY <1>3 DEF p2

\* The first coroutine of ready is resumed and suspends on something not yet
\* completed, or returns.
LEMMA ReadyLeaves ==
    ASSUME NEW r \in Seq(Writers), NEW p \in [Writers -> PC], ReadyInv(r, p),
           r # <<>>, NEW x \in PC \ Resumable
    PROVE  ReadyInv(Tail(r), [p EXCEPT ![Head(r)] = x])
<1> DEFINE w == Head(r)
           q == Tail(r)
           p2 == [p EXCEPT ![w] = x]
<1>0. w \in Writers /\ w = r[1] /\ q \in Seq(Writers)
  OBVIOUS
<1>1. \A v \in Writers : p2[v] = IF v = w THEN x ELSE p[v]
  OBVIOUS
<1>2. /\ Len(q) = Len(r) - 1 /\ Len(r) \in Nat
      /\ \A i \in 1 .. Len(q) : i + 1 \in 1 .. Len(r) /\ q[i] = r[i + 1] /\ q[i] # w
      /\ \A i, j \in 1 .. Len(q) : q[i] = q[j] => i = j
  BY TailOfQueue DEF ReadyInv, ReadyMatch
<1>3. \A i \in 2 .. Len(r) : i - 1 \in 1 .. Len(q) /\ q[i - 1] = r[i]
  BY <1>2
<1>e. \A i \in 1 .. Len(q) : q[i] \in Writers
  BY <1>0
<1> HIDE DEF w, q, p2
<1>4. \A i \in 1 .. Len(q) : p2[q[i]] = p[r[i + 1]]
  BY <1>1, <1>2, <1>e
<1>5. \A i \in 1 .. Len(q) : p2[q[i]] \in Resumable
  BY <1>2, <1>4 DEF ReadyInv, ReadyMatch
<1>6. ASSUME NEW v \in Writers, p2[v] \in Resumable
      PROVE  \E i \in 1 .. Len(q) : q[i] = v
  <2>1. v # w /\ p[v] \in Resumable
    BY <1>1, <1>6
  <2>2. PICK i \in 1 .. Len(r) : r[i] = v
    BY <2>1 DEF ReadyInv, ReadyMatch
  <2>3. i \in 2 .. Len(r)
    BY <1>0, <1>2, <2>1, <2>2
  <2> QED BY <1>3, <2>2, <2>3
<1>7. ReadyOrder(q, p2)
  <2> SUFFICES ASSUME NEW i \in 1 .. Len(q), NEW j \in 1 .. Len(q), i < j,
                      p2[q[i]] = "written"
               PROVE  p2[q[j]] # "received"
    BY DEF ReadyOrder
  <2>1. /\ i + 1 \in 1 .. Len(r) /\ j + 1 \in 1 .. Len(r) /\ i + 1 < j + 1
    BY <1>2
  <2>2. p[r[i + 1]] = "written" /\ p2[q[j]] = p[r[j + 1]]
    BY <1>4
  <2> QED BY <2>1, <2>2 DEF ReadyInv, ReadyOrder
<1>8. ReadyInv(q, p2)
  BY <1>2, <1>5, <1>6, <1>7 DEF ReadyInv, ReadyMatch
<1> QED BY <1>8 DEF w, q, p2

\* An operation of w completes; a notification only behind no "written".
LEMMA ReadyEnters ==
    ASSUME NEW r \in Seq(Writers), NEW p \in [Writers -> PC], ReadyInv(r, p),
           NEW w \in Writers, NEW x \in Resumable, p[w] \notin Resumable,
           x = "received" => \A i \in 1 .. Len(r) : p[r[i]] # "written"
    PROVE  ReadyInv(Append(r, w), [p EXCEPT ![w] = x])
<1> DEFINE q == Append(r, w)
           p2 == [p EXCEPT ![w] = x]
<1>1. \A v \in Writers : p2[v] = IF v = w THEN x ELSE p[v]
  OBVIOUS
<1>2. /\ Len(r) \in Nat /\ Len(q) = Len(r) + 1
      /\ \A i \in 1 .. Len(r) : q[i] = r[i] /\ r[i] \in Writers
      /\ q[Len(r) + 1] = w
      /\ \A i \in 1 .. Len(q) : i \in 1 .. Len(r) \/ i = Len(r) + 1
  BY AppendToQueue
<1> HIDE DEF q, p2
<1>3. \A i \in 1 .. Len(r) : r[i] # w /\ p2[q[i]] = p[r[i]]
  BY <1>1, <1>2 DEF ReadyInv, ReadyMatch
<1>4. \A i \in 1 .. Len(q) : p2[q[i]] \in Resumable
  BY <1>1, <1>2, <1>3 DEF ReadyInv, ReadyMatch
<1>5. \A i, j \in 1 .. Len(q) : q[i] = q[j] => i = j
  BY <1>2, <1>3 DEF ReadyInv, ReadyMatch
<1>6. ASSUME NEW v \in Writers, p2[v] \in Resumable
      PROVE  \E i \in 1 .. Len(q) : q[i] = v
  <2>1. CASE v = w
    <3>1. Len(r) + 1 \in 1 .. Len(q)
      BY <1>2
    <3> QED BY <1>2, <2>1, <3>1
  <2>2. CASE v # w
    <3>1. PICK i \in 1 .. Len(r) : r[i] = v
      BY <1>1, <1>6, <2>2 DEF ReadyInv, ReadyMatch
    <3>2. i \in 1 .. Len(q) /\ q[i] = v
      BY <1>2, <3>1
    <3> QED BY <3>2
  <2> QED BY <2>1, <2>2
<1>7. ReadyOrder(q, p2)
  <2> SUFFICES ASSUME NEW i \in 1 .. Len(q), NEW j \in 1 .. Len(q), i < j,
                      p2[q[i]] = "written"
               PROVE  p2[q[j]] # "received"
    BY DEF ReadyOrder
  <2>1. i \in 1 .. Len(r) /\ p[r[i]] = "written"
    BY <1>2, <1>3
  <2>2. CASE j \in 1 .. Len(r)
    BY <1>3, <2>1, <2>2 DEF ReadyInv, ReadyOrder
  <2>3. CASE j = Len(r) + 1
    BY <1>1, <1>2, <2>1, <2>3
  <2> QED BY <1>2, <2>2, <2>3
<1>8. ReadyInv(q, p2)
  BY <1>4, <1>5, <1>6, <1>7 DEF ReadyInv, ReadyMatch
<1> QED BY <1>8 DEF q, p2

\* A coroutine that goes into a state other than blocked in Lock.
LEMMA BlockedStays ==
    ASSUME NEW p \in [Writers -> PC], NEW b, BlockedQueued(p, b),
           NEW w \in Writers, NEW x \in PC \ {"receiving"}
    PROVE  BlockedQueued([p EXCEPT ![w] = x], b)
BY DEF BlockedQueued

\* A coroutine blocks in Lock.
LEMMA BlockedEnters ==
    ASSUME NEW p \in [Writers -> PC], NEW b \in Seq(Writers), BlockedQueued(p, b),
           NEW w \in Writers
    PROVE  BlockedQueued([p EXCEPT ![w] = "receiving"], Append(b, w))
<1> SUFFICES ASSUME NEW v \in Writers, [p EXCEPT ![w] = "receiving"][v] = "receiving"
             PROVE  \E i \in 1 .. Len(Append(b, w)) : Append(b, w)[i] = v
  BY DEF BlockedQueued
<1>1. CASE v = w
  <2>1. Len(b) + 1 \in 1 .. Len(Append(b, w)) /\ Append(b, w)[Len(b) + 1] = w
    BY AppendToQueue
  <2> QED BY <1>1, <2>1
<1>2. CASE v # w
  <2>1. PICK i \in 1 .. Len(b) : b[i] = v
    BY <1>2 DEF BlockedQueued
  <2>2. i \in 1 .. Len(Append(b, w)) /\ Append(b, w)[i] = v
    BY <2>1, AppendToQueue
  <2> QED BY <2>2
<1> QED BY <1>1, <1>2

\* The first coroutine blocked in Lock is notified.
LEMMA BlockedLeaves ==
    ASSUME NEW p \in [Writers -> PC], NEW b \in Seq(Writers), BlockedQueued(p, b), b # <<>>
    PROVE  BlockedQueued([p EXCEPT ![Head(b)] = "received"], Tail(b))
<1> SUFFICES ASSUME NEW v \in Writers, [p EXCEPT ![Head(b)] = "received"][v] = "receiving"
             PROVE  \E i \in 1 .. Len(Tail(b)) : Tail(b)[i] = v
  BY DEF BlockedQueued
<1>1. Head(b) \in Writers /\ Head(b) = b[1] /\ Len(b) \in Nat
  OBVIOUS
<1>2. v # Head(b) /\ p[v] = "receiving"
  BY <1>1
<1>3. PICK i \in 1 .. Len(b) : b[i] = v
  BY <1>2 DEF BlockedQueued
<1>4. i \in 2 .. Len(b)
  BY <1>1, <1>2, <1>3
<1>5. i - 1 \in 1 .. Len(Tail(b)) /\ Tail(b)[i - 1] = b[i]
  BY <1>4
<1> QED BY <1>3, <1>5

\* The notification of Unlock: the first coroutine blocked in Lock is resumed
\* next among those that look at the lock, and w after it.
LEMMA HandOver ==
    ASSUME NEW r \in Seq(Writers), NEW p \in [Writers -> PC], NEW b \in Seq(Writers),
           ReadyInv(r, p), BlockedQueued(p, b), r # <<>>, b # <<>>,
           p[Head(r)] = "written", p[Head(b)] = "receiving",
           \A v \in Writers : p[v] = "written" => v = Head(r)
    PROVE  LET p2 == [p EXCEPT ![Head(b)] = "received", ![Head(r)] = "sent"]
           IN  /\ ReadyInv(Append(Append(Tail(r), Head(b)), Head(r)), p2)
               /\ BlockedQueued(p2, Tail(b))
<1> DEFINE w == Head(r)
           h == Head(b)
           pa == [p EXCEPT ![w] = "idle"]
           pb == [pa EXCEPT ![h] = "received"]
           pc2 == [pb EXCEPT ![w] = "sent"]
<1>1. w \in Writers /\ h \in Writers /\ h # w /\ Tail(r) \in Seq(Writers)
  OBVIOUS
<1>2. [p EXCEPT ![h] = "received", ![w] = "sent"] = pc2
  BY <1>1
<1>3. /\ pa \in [Writers -> PC] /\ pb \in [Writers -> PC]
      /\ Append(Tail(r), h) \in Seq(Writers) /\ Tail(b) \in Seq(Writers)
  BY <1>1 DEF PC
<1>4. ReadyInv(Tail(r), pa)
  BY ReadyLeaves DEF PC, Resumable
<1>5. \A v \in Writers : pa[v] # "written"
  BY <1>1
<1>6. /\ pa[h] = "receiving" /\ pb[w] = "idle"
  BY <1>1
<1> HIDE DEF w, h, pa, pb
<1>7. ReadyInv(Append(Tail(r), h), pb)
  <2>1. \A i \in 1 .. Len(Tail(r)) : pa[Tail(r)[i]] # "written"
    BY <1>1, <1>5
  <2> QED BY <1>1, <1>3, <1>4, <1>6, <2>1, ReadyEnters DEF Resumable, pb
<1>8. ReadyInv(Append(Append(Tail(r), h), w), pc2)
  BY <1>1, <1>3, <1>6, <1>7, ReadyEnters DEF Resumable
<1>9. BlockedQueued(pa, b)
  BY <1>1, BlockedStays DEF pa, PC
<1>10. BlockedQueued(pb, Tail(b))
  BY <1>3, <1>9, BlockedLeaves DEF pb, h
<1>11. BlockedQueued(pc2, Tail(b))
  BY <1>1, <1>3, <1>10, BlockedStays DEF PC
<1> QED BY <1>2, <1>8, <1>11 DEF w, h

\* When the holder of the lock resumes to unlock, whoever is counted by
\* wait_count_ is blocked in Lock.
LEMMA CountedAreBlocked ==
    ASSUME WriteInv, NEW w \in Writers, pc[w] = "written", ready # <<>>, Head(ready) = w,
           ReadyInv(ready, pc), BlockedQueued(pc, rwait), wait_count # 0
    PROVE  rwait # <<>>
<1>t. ready \in Seq(Writers) /\ rwait \in Seq(Writers)
  BY DEF WriteInv, TypeOK
<1>1. InLock # {}
  BY FS_EmptySet DEF WriteInv, WaitCountExact
<1>2. PICK v \in Writers : pc[v] \in {"receiving", "received"}
  BY <1>1 DEF InLock
<1>3. pc[v] # "received"
  <2> SUFFICES ASSUME pc[v] = "received" PROVE FALSE
    OBVIOUS
  <2>1. PICK i \in 1 .. Len(ready) : ready[i] = v
    BY DEF ReadyInv, ReadyMatch, Resumable
  <2>2. 1 \in 1 .. Len(ready) /\ ready[1] = w /\ 1 < i
    BY <1>t, <2>1
  <2> QED BY <2>1, <2>2 DEF ReadyInv, ReadyOrder
<1>4. PICK i \in 1 .. Len(rwait) : rwait[i] = v
  BY <1>2, <1>3 DEF BlockedQueued
<1> QED BY <1>t, <1>4

\* Every step keeps the order in which coroutines resume, and with it the
\* channel empty.
LEMMA TokenStep ==
    ASSUME WriteInv, TokenInv, [Next]_vars
    PROVE  TokenInv'
<1> SUFFICES ASSUME ~EncryptMayFail
             PROVE  /\ tokens' = 0 /\ swait' = <<>>
                    /\ open' => ReadyInv(ready', pc') /\ BlockedQueued(pc', rwait')
  BY DEF TokenInv
<1>t. /\ ready \in Seq(Writers) /\ rwait \in Seq(Writers) /\ pc \in [Writers -> PC]
      /\ locked \in BOOLEAN /\ open \in BOOLEAN
  BY DEF WriteInv, TypeOK, PC
<1>i. /\ tokens = 0 /\ swait = <<>>
      /\ open => ReadyInv(ready, pc) /\ BlockedQueued(pc, rwait)
      /\ open => \A w \in Writers : ~recv_ec[w]
  BY DEF TokenInv, WriteInv, RecvErrorMeansClosed
<1>a. ASSUME NEW w, NEW q, NEW wc, NEW lk, AfterLock(w, q, wc, lk)
      PROVE  /\ pc' = [pc EXCEPT ![w] = "writing"] /\ ready' = q
             /\ tokens' = tokens /\ swait' = swait /\ rwait' = rwait
  BY <1>a DEF AfterLock, chanVars
<1>l. ASSUME NEW w, NEW q, NEW wc, LockLoop(w, q, wc)
      PROVE  /\ tokens' = 0 /\ swait' = <<>>
             /\ open => /\ ready' = q
                        /\ \/ pc' = [pc EXCEPT ![w] = "writing"] /\ rwait' = rwait
                           \/ /\ pc' = [pc EXCEPT ![w] = "receiving"]
                              /\ rwait' = Append(rwait, w)
  <2>1. CASE locked
    <3>1. AsyncReceive(w, q)
      BY <1>l, <2>1 DEF LockLoop
    <3> QED BY <1>i, <1>t, <3>1 DEF AsyncReceive
  <2>2. CASE ~locked
    <3>1. AfterLock(w, q, wc, TRUE)
      BY <1>l, <2>2 DEF LockLoop
    <3> QED BY <1>i, <1>a, <3>1
  <2> QED BY <2>1, <2>2
<1>v. {"idle", "receiving", "writing"} \subseteq PC \ Resumable /\ Resumable \subseteq PC
  BY DEF PC, Resumable
<1>1. ASSUME NEW w \in Writers, Write(w)
      PROVE  /\ tokens' = 0 /\ swait' = <<>>
             /\ open' => ReadyInv(ready', pc') /\ BlockedQueued(pc', rwait')
  <2>1. CASE ~open
    BY <1>1, <1>a, <1>i, <2>1 DEF Write
  <2>2. CASE open
    <3>1. LockLoop(w, ready, wait_count) /\ pc[w] = "idle"
      BY <1>1, <2>2 DEF Write
    <3>2. pc[w] \notin Resumable
      BY <3>1 DEF Resumable
    <3>3. ReadyInv(ready', pc')
      BY <1>i, <1>l, <1>t, <1>v, <2>2, <3>1, <3>2, ReadyStays
    <3>4. BlockedQueued(pc', rwait')
      <4>1. CASE pc' = [pc EXCEPT ![w] = "writing"] /\ rwait' = rwait
        BY <1>i, <1>t, <1>v, <2>2, <4>1, BlockedStays
      <4>2. CASE pc' = [pc EXCEPT ![w] = "receiving"] /\ rwait' = Append(rwait, w)
        BY <1>i, <1>t, <2>2, <4>2, BlockedEnters
      <4> QED BY <1>l, <2>2, <3>1, <4>1, <4>2
    <3> QED BY <1>l, <3>1, <3>3, <3>4
  <2> QED BY <1>t, <2>1, <2>2
<1>2. ASSUME NEW w \in Writers, ResumeLock(w)
      PROVE  /\ tokens' = 0 /\ swait' = <<>>
             /\ open' => ReadyInv(ready', pc') /\ BlockedQueued(pc', rwait')
  <2>0. open' = open /\ ready # <<>> /\ Head(ready) = w /\ pc[w] = "received"
    BY <1>2 DEF ResumeLock
  <2>1. CASE recv_ec[w]
    BY <1>2, <1>a, <1>i, <2>0, <2>1 DEF ResumeLock
  <2>2. CASE ~recv_ec[w]
    <3>1. LockLoop(w, Tail(ready), wait_count - 1)
      BY <1>2, <2>2 DEF ResumeLock
    <3>3. open => ReadyInv(ready', pc')
      BY <1>i, <1>l, <1>t, <1>v, <2>0, <3>1, ReadyLeaves
    <3>4. open => BlockedQueued(pc', rwait')
      <4>1. ASSUME open, pc' = [pc EXCEPT ![w] = "writing"], rwait' = rwait
            PROVE  BlockedQueued(pc', rwait')
        BY <1>i, <1>t, <1>v, <4>1, BlockedStays
      <4>2. ASSUME open, pc' = [pc EXCEPT ![w] = "receiving"], rwait' = Append(rwait, w)
            PROVE  BlockedQueued(pc', rwait')
        BY <1>i, <1>t, <4>2, BlockedEnters
      <4> QED BY <1>l, <3>1, <4>1, <4>2
    <3> QED BY <1>l, <2>0, <3>1, <3>3, <3>4
  <2> QED BY <2>1, <2>2
<1>3. ASSUME NEW w \in Writers, ResumeWrite(w)
      PROVE  /\ tokens' = 0 /\ swait' = <<>>
             /\ open' => ReadyInv(ready', pc') /\ BlockedQueued(pc', rwait')
  <2>0. /\ open' = open /\ ready # <<>> /\ Head(ready) = w /\ pc[w] = "written"
        /\ Unlock(w, Tail(ready), wait_count, locked)
    BY <1>3 DEF ResumeWrite
  <2>1. CASE ~open \/ wait_count = 0
    <3>1. /\ pc' = [pc EXCEPT ![w] = "idle"] /\ ready' = Tail(ready)
          /\ tokens' = tokens /\ swait' = swait /\ rwait' = rwait
      BY <2>0, <2>1 DEF Unlock, chanVars
    <3>2. open => ReadyInv(ready', pc')
      BY <1>i, <1>t, <1>v, <2>0, <3>1, ReadyLeaves
    <3>3. open => BlockedQueued(pc', rwait')
      BY <1>i, <1>t, <3>1, BlockedStays DEF PC
    <3> QED BY <1>i, <2>0, <3>1, <3>2, <3>3
  <2>2. CASE open /\ wait_count # 0
    <3>1. rwait # <<>>
      BY <1>i, <2>0, <2>2, CountedAreBlocked
    <3>2. AsyncSend(w, Tail(ready))
      BY <2>0, <2>2 DEF Unlock
    <3>3. /\ pc' = [pc EXCEPT ![Head(rwait)] = "received", ![w] = "sent"]
          /\ ready' = Append(Append(Tail(ready), Head(rwait)), w)
          /\ tokens' = tokens /\ swait' = swait /\ rwait' = Tail(rwait)
      BY <3>1, <3>2 DEF AsyncSend
    <3>4. \A v \in Writers : pc[v] = "written" => v = w
      BY <2>0, <2>2 DEF WriteInv, WriteExclusive, InWrite
    <3>5. pc[Head(rwait)] = "receiving"
      BY <1>t, <3>1 DEF WriteInv, QueuesMatch
    <3>6. ReadyInv(ready', pc') /\ BlockedQueued(pc', rwait')
      BY <1>i, <1>t, <2>0, <2>2, <3>1, <3>3, <3>4, <3>5, HandOver
    <3> QED BY <1>i, <3>3, <3>6
  <2> QED BY <2>1, <2>2
<1>4. ASSUME NEW w \in Writers, ResumeUnlock(w)
      PROVE  /\ tokens' = 0 /\ swait' = <<>>
             /\ open' => ReadyInv(ready', pc') /\ BlockedQueued(pc', rwait')
  <2>1. /\ open' = open /\ ready # <<>> /\ Head(ready) = w
        /\ pc' = [pc EXCEPT ![w] = "idle"] /\ ready' = Tail(ready)
        /\ tokens' = tokens /\ swait' = swait /\ rwait' = rwait
    BY <1>4 DEF ResumeUnlock, chanVars
  <2>2. open => ReadyInv(ready', pc')
    BY <1>i, <1>t, <1>v, <2>1, ReadyLeaves
  <2>3. open => BlockedQueued(pc', rwait')
    BY <1>i, <1>t, <2>1, BlockedStays DEF PC
  <2> QED BY <1>i, <2>1, <2>2, <2>3
<1>5. ASSUME NEW w \in Writers, Socket(w)
      PROVE  /\ tokens' = 0 /\ swait' = <<>>
             /\ open' => ReadyInv(ready', pc') /\ BlockedQueued(pc', rwait')
  <2>1. /\ open' = open /\ pc[w] = "writing"
        /\ pc' = [pc EXCEPT ![w] = "written"] /\ ready' = Append(ready, w)
        /\ tokens' = tokens /\ swait' = swait /\ rwait' = rwait
    BY <1>5 DEF Socket, WriteOk, WriteFails, chanVars
  <2>2. open => ReadyInv(ready', pc')
    BY <1>i, <1>t, <2>1, ReadyEnters DEF Resumable
  <2>3. open => BlockedQueued(pc', rwait')
    BY <1>i, <1>t, <2>1, BlockedStays DEF PC
  <2> QED BY <1>i, <2>1, <2>2, <2>3
<1>6. CASE Close
  BY <1>6, <1>i DEF Close
<1>7. CASE UNCHANGED vars
  BY <1>7, <1>i DEF vars
<1> QED BY <1>1, <1>2, <1>3, <1>4, <1>5, <1>6, <1>7 DEF Next, Step, Finished

\* Unless encryption fails, every token Unlock sends goes straight to a
\* coroutine blocked in Lock: none stays in the channel.
THEOREM TokensConsumed == Spec => []NoStaleToken
<1>1. Init => TokenInv
  <2> SUFFICES ASSUME Init PROVE TokenInv
    OBVIOUS
  <2>1. /\ tokens = 0 /\ swait = <<>> /\ ready = <<>> /\ rwait = <<>>
        /\ \A w \in Writers : pc[w] = "idle"
    BY DEF Init
  <2>2. ReadyInv(ready, pc) /\ BlockedQueued(pc, rwait)
    BY <2>1 DEF ReadyInv, ReadyMatch, ReadyOrder, BlockedQueued, Resumable
  <2> QED BY <2>1, <2>2 DEF TokenInv
<1>2. WriteInv /\ TokenInv /\ [Next]_vars => TokenInv'
  BY TokenStep
<1>3. TokenInv => NoStaleToken
  BY DEF TokenInv, NoStaleToken
<1> QED BY <1>1, <1>2, <1>3, WriteInvariant, PTL DEF Spec

-----------------------------------------------------------------------------
(***************************************************************************)
(* Write implements the log of frames.                                     *)
(***************************************************************************)

\* A call whose AsyncWrite succeeded has only Unlock left to do.
WroteThenUnlocks ==
    \A w \in Writers : wrote[w] => pc[w] \in {"idle", "written", "sending", "sent"}

\* The refinement mapping of the calls.
Phase == [w \in Writers |-> IF pc[w] = "idle" THEN "idle"
                            ELSE IF wrote[w] THEN "appended" ELSE "called"]

\* What a step of w may do to another coroutine: complete its receive or send.
OthersMove(w) ==
    \A v \in Writers \ {w} : \/ pc'[v] = pc[v]
                             \/ pc[v] = "receiving" /\ pc'[v] = "received"
                             \/ pc[v] = "sending" /\ pc'[v] = "sent"

\* The fragments of Lock and Unlock complete operations of others.
LEMMA FragmentsMove ==
    ASSUME TypeOK, QueuesMatch, NEW w \in Writers, NEW q, NEW wc, NEW lk,
           AfterLock(w, q, wc, lk) \/ LockLoop(w, q, wc) \/ Unlock(w, q, wc, lk)
    PROVE  OthersMove(w)
<1>t. /\ pc \in [Writers -> PC] /\ rwait \in Seq(Writers) /\ swait \in Seq(Writers)
      /\ rwait # <<>> => Head(rwait) \in Writers /\ pc[Head(rwait)] = "receiving"
      /\ swait # <<>> => Head(swait) \in Writers /\ pc[Head(swait)] = "sending"
  BY DEF TypeOK, PC, QueuesMatch
<1>1. ASSUME AsyncSend(w, q) PROVE OthersMove(w)
  BY <1>1, <1>t DEF AsyncSend, OthersMove
<1>2. ASSUME AsyncReceive(w, q) PROVE OthersMove(w)
  BY <1>2, <1>t DEF AsyncReceive, OthersMove
<1>3. ASSUME NEW k, Unlock(w, q, wc, k) PROVE OthersMove(w)
  <2>1. CASE ~open \/ wc = 0
    BY <1>3, <1>t, <2>1 DEF Unlock, OthersMove
  <2>2. CASE ~(~open \/ wc = 0)
    BY <1>1, <1>3, <2>2 DEF Unlock
  <2> QED BY <2>1, <2>2
<1>4. ASSUME NEW k, AfterLock(w, q, wc, k) PROVE OthersMove(w)
  <2>1. CASE pc' = [pc EXCEPT ![w] = "writing"]
    BY <1>t, <2>1 DEF OthersMove
  <2>2. CASE Unlock(w, q, wc, k)
    BY <1>3, <2>2
  <2> QED BY <1>4, <2>1, <2>2 DEF AfterLock
<1>5. ASSUME LockLoop(w, q, wc) PROVE OthersMove(w)
  BY <1>2, <1>4, <1>5 DEF LockLoop
<1> QED BY <1>3, <1>4, <1>5

\* A step of w that leaves the results of the others alone changes only the
\* phase of w.
LEMMA OnePhase ==
    ASSUME TypeOK, TypeOK', NEW w \in Writers, OthersMove(w),
           \A v \in Writers \ {w} : wrote'[v] = wrote[v]
    PROVE  Phase' = [Phase EXCEPT ![w] = Phase'[w]]
<1>1. ASSUME NEW v \in Writers \ {w} PROVE Phase'[v] = Phase[v]
  BY DEF Phase, OthersMove
<1> QED BY <1>1 DEF Phase

\* How each step of a coroutine changes its own pc, wrote, and the others.
LEMMA StepShape ==
    ASSUME WriteInv, NEW w \in Writers, Write(w) \/ Step(w) \/ Socket(w)
    PROVE  /\ OthersMove(w)
           /\ \A v \in Writers \ {w} : wrote'[v] = wrote[v]
           /\ \/ Write(w) /\ ~wrote'[w]
              \/ Step(w) /\ wrote' = wrote
                 /\ (pc[w] = "received" \/ pc'[w] \in {"idle", "sending", "sent"})
              \/ WriteOk(w) /\ wrote'[w] /\ pc'[w] = "written"
              \/ WriteFails(w) /\ wrote' = wrote /\ pc'[w] = "written"
<1>i. TypeOK /\ QueuesMatch /\ WaitCountExact
  BY DEF WriteInv
<1>t. /\ pc \in [Writers -> PC] /\ wrote \in [Writers -> BOOLEAN] /\ locked \in BOOLEAN
      /\ wait_count \in Nat /\ ready \in Seq(Writers)
      /\ ready # <<>> => Tail(ready) \in Seq(Writers)
  BY <1>i DEF TypeOK, PC
<1>1. CASE Write(w)
  <2>1. wrote' = [wrote EXCEPT ![w] = FALSE]
    BY <1>1 DEF Write
  <2>2. ~wrote'[w] /\ \A v \in Writers \ {w} : wrote'[v] = wrote[v]
    BY <1>t, <2>1, Zenon
  <2> QED BY <1>1, <1>i, <2>2, FragmentsMove DEF Write
<1>2. CASE ResumeLock(w)
  BY <1>2, <1>i, FragmentsMove DEF ResumeLock, Step
<1>3. CASE ResumeWrite(w)
  <2>1. pc'[w] \in {"idle", "sending", "sent"}
    BY <1>3, <1>i, <1>t, UnlockEffect DEF ResumeWrite
  <2> QED BY <1>3, <1>i, <2>1, FragmentsMove DEF ResumeWrite, Step
<1>4. CASE ResumeUnlock(w)
  BY <1>4, <1>t DEF ResumeUnlock, Step, OthersMove
<1>5. CASE WriteOk(w)
  <2>1. wrote' = [wrote EXCEPT ![w] = TRUE] /\ pc' = [pc EXCEPT ![w] = "written"]
    BY <1>5 DEF WriteOk
  <2>2. wrote'[w] /\ \A v \in Writers \ {w} : wrote'[v] = wrote[v]
    BY <1>t, <2>1, Zenon
  <2>3. OthersMove(w) /\ pc'[w] = "written"
    BY <1>t, <2>1 DEF OthersMove
  <2> QED BY <1>5, <2>2, <2>3
<1>6. CASE WriteFails(w)
  BY <1>6, <1>t DEF WriteFails, OthersMove
<1> QED BY <1>1, <1>2, <1>3, <1>4, <1>5, <1>6 DEF Step, Socket

\* No step takes a call that has written back into Lock.
LEMMA WroteStep ==
    ASSUME WriteInv, WroteThenUnlocks, [Next]_vars
    PROVE  WroteThenUnlocks'
<1>1. ASSUME NEW w \in Writers, Write(w) \/ Step(w) \/ Socket(w)
      PROVE  WroteThenUnlocks'
  <2>1. \A v \in Writers \ {w} : wrote'[v] => pc'[v] \in {"idle", "written", "sending", "sent"}
    BY <1>1, StepShape DEF OthersMove, WroteThenUnlocks
  <2>2. wrote'[w] => pc'[w] \in {"idle", "written", "sending", "sent"}
    BY <1>1, StepShape DEF WroteThenUnlocks
  <2> QED BY <2>1, <2>2 DEF WroteThenUnlocks
<1>2. CASE Close
  BY <1>2 DEF Close, WroteThenUnlocks
<1>3. CASE UNCHANGED vars
  BY <1>3 DEF vars, WroteThenUnlocks
<1> QED BY <1>1, <1>2, <1>3 DEF Next, Finished

\* Every step of Write, Lock, Unlock, the socket and Close is a step of the
\* log of frames, or leaves it alone.
LEMMA LogStep ==
    ASSUME WriteInv, WriteInv', WroteThenUnlocks, [Next]_vars
    PROVE  [Log!Next]_(Log!vars)
<1>i. TypeOK /\ TypeOK'
  BY DEF WriteInv
<1>t. /\ pc \in [Writers -> PC] /\ wrote \in [Writers -> BOOLEAN]
  BY <1>i DEF TypeOK, PC
<1>1. ASSUME NEW w \in Writers, Write(w) \/ Step(w)
      PROVE  \/ Log!Call(w) \/ Log!ReturnFalse(w) \/ Log!ReturnTrue(w)
             \/ UNCHANGED Log!vars
  <2>1. UNCHANGED <<wire, broken, open>>
    BY <1>1 DEF Write, Step, ResumeLock, ResumeWrite, ResumeUnlock, ioVars
  <2>2. Phase' = [Phase EXCEPT ![w] = Phase'[w]]
    BY <1>1, <1>i, StepShape, OnePhase
  <2>3. CASE Write(w)
    <3>1. Phase[w] = "idle" /\ Phase'[w] \in {"idle", "called"}
      BY <1>1, <2>3, StepShape DEF Write, Step, ResumeLock, ResumeWrite, ResumeUnlock, Socket, WriteOk, WriteFails, Phase
    <3>2. CASE Phase'[w] = "called"
      BY <2>1, <2>2, <3>1, <3>2 DEF Log!Call, Phase
    <3>3. CASE Phase'[w] = "idle"
      <4>1. Phase' = Phase
        BY <2>2, <3>1, <3>3 DEF Phase
      <4> QED BY <2>1, <4>1 DEF Log!vars, Phase
    <3> QED BY <3>1, <3>2, <3>3
  <2>4. CASE Step(w)
    <3>1. pc[w] # "idle" /\ wrote' = wrote
      BY <2>4 DEF Step, ResumeLock, ResumeWrite, ResumeUnlock
    <3>2. CASE pc'[w] # "idle"
      <4>1. Phase'[w] = Phase[w]
        BY <3>1, <3>2 DEF Phase
      <4>2. Phase' = Phase
        BY <2>2, <4>1 DEF Phase
      <4> QED BY <2>1, <4>2 DEF Log!vars, Phase
    <3>3. CASE pc'[w] = "idle"
      <4>1. Phase'[w] = "idle" /\ Phase[w] = IF wrote[w] THEN "appended" ELSE "called"
        BY <3>1, <3>3 DEF Phase
      <4> QED BY <2>1, <2>2, <4>1 DEF Log!ReturnFalse, Log!ReturnTrue, Phase
    <3> QED BY <3>2, <3>3
  <2> QED BY <1>1, <2>3, <2>4
<1>2. ASSUME NEW w \in Writers, WriteOk(w) PROVE Log!AppendFrame(w)
  <2>1. /\ pc[w] = "writing" /\ open /\ ~broken /\ UNCHANGED <<open, broken>>
        /\ wire' = Append(wire, write_buffer)
    BY <1>2 DEF WriteOk
  <2>2. write_buffer = [from |-> w, iv |-> Len(wire)]
    <3>1. write_buffer.from = w /\ write_buffer.iv = Len(wire) /\ write_buffer \in Frame
      BY <2>1 DEF WriteInv, WriteExclusive, NonceMatches, TypeOK
    <3> QED BY <3>1 DEF Frame
  <2>3. Phase' = [Phase EXCEPT ![w] = Phase'[w]]
    BY <1>2, <1>i, StepShape, OnePhase DEF Socket
  <2>4. ~wrote[w]
    BY <2>1 DEF WroteThenUnlocks
  <2>5. wrote'[w] /\ pc'[w] = "written"
    <3>1. wrote' = [wrote EXCEPT ![w] = TRUE] /\ pc' = [pc EXCEPT ![w] = "written"]
      BY <1>2 DEF WriteOk
    <3>2. wrote'[w]
      BY <1>t, <3>1, Zenon
    <3> QED BY <1>t, <3>1, <3>2
  <2>6. Phase[w] = "called" /\ Phase'[w] = "appended"
    BY <2>1, <2>4, <2>5 DEF Phase
  <2> QED BY <2>1, <2>2, <2>3, <2>6 DEF Log!AppendFrame, Phase
<1>3. ASSUME NEW w \in Writers, WriteFails(w) PROVE Log!GoDown
  <2>1. /\ broken' /\ UNCHANGED <<open, wire, wrote>> /\ pc[w] = "writing"
        /\ pc' = [pc EXCEPT ![w] = "written"]
    BY <1>3 DEF WriteFails
  <2>2. Phase' = Phase
    BY <1>t, <2>1 DEF Phase
  <2> QED BY <2>1, <2>2 DEF Log!GoDown, Phase
<1>4. CASE Close
  <2>1. /\ ~open' /\ UNCHANGED <<wire, broken, wrote>>
        /\ \A w \in Writers : pc'[w] = "idle" <=> pc[w] = "idle"
    BY <1>4 DEF Close, ioVars
  <2>2. Phase' = Phase
    BY <2>1 DEF Phase
  <2>3. (broken \/ ~open)' = TRUE
    BY <2>1
  <2>4. Log!GoDown
    BY <2>1, <2>2, <2>3 DEF Log!GoDown, Phase
  <2> QED BY <2>4 DEF Log!Next
<1>5. CASE UNCHANGED vars
  BY <1>5 DEF vars, Log!vars
<1> QED BY <1>1, <1>2, <1>3, <1>4, <1>5 DEF Next, Socket, Finished, Log!Next

\* MuxConnection::Write implements the log of frames: each call appends its
\* own frame at most once, numbered without a gap, returns true exactly when
\* it did, and nothing is appended to a connection that is down.
THEOREM WriteImplementsLog == Spec => LogSpec
<1>1. Init => Log!Init /\ WroteThenUnlocks
  <2> SUFFICES ASSUME Init PROVE Log!Init /\ WroteThenUnlocks
    OBVIOUS
  <2>1. WroteThenUnlocks
    BY DEF Init, WroteThenUnlocks
  <2>2. Phase = [w \in Writers |-> "idle"]
    BY DEF Init, Phase
  <2>3. (broken \/ ~open) = FALSE /\ wire = <<>>
    BY DEF Init
  <2> QED BY <2>1, <2>2, <2>3 DEF Log!Init, Phase
<1>2. WriteInv /\ WroteThenUnlocks /\ [Next]_vars => WroteThenUnlocks'
  BY WroteStep
<1>3. WriteInv /\ WriteInv' /\ WroteThenUnlocks /\ [Next]_vars => [Log!Next]_(Log!vars)
  BY LogStep
<1> QED BY <1>1, <1>2, <1>3, WriteInvariant, PTL DEF Spec, LogSpec, Log!Spec
=============================================================================
