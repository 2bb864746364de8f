------------------------------ MODULE FrameLog ------------------------------
(***************************************************************************)
(* What MuxConnection::Write promises its callers: a connection is a log   *)
(* of frames, numbered without a gap.  A call appends its own frame, once  *)
(* and as a whole, and returns true; or appends nothing and returns false. *)
(* Once the connection is down nothing is appended any more.               *)
(***************************************************************************)
EXTENDS Naturals, Sequences

CONSTANT Writers

VARIABLES phase,   \* "idle", "called" (nothing appended) or "appended"
          log,     \* the frames, each with its writer and its nonce
          down     \* closed, or broken by the peer

vars == <<phase, log, down>>

Init ==
    /\ phase = [w \in Writers |-> "idle"]
    /\ log = <<>>
    /\ down = FALSE

Call(w) ==
    /\ phase[w] = "idle"
    /\ phase' = [phase EXCEPT ![w] = "called"]
    /\ UNCHANGED <<log, down>>

AppendFrame(w) ==
    /\ phase[w] = "called"
    /\ ~down
    /\ phase' = [phase EXCEPT ![w] = "appended"]
    /\ log' = Append(log, [from |-> w, iv |-> Len(log)])
    /\ UNCHANGED down

ReturnFalse(w) ==
    /\ phase[w] = "called"
    /\ phase' = [phase EXCEPT ![w] = "idle"]
    /\ UNCHANGED <<log, down>>

ReturnTrue(w) ==
    /\ phase[w] = "appended"
    /\ phase' = [phase EXCEPT ![w] = "idle"]
    /\ UNCHANGED <<log, down>>

GoDown ==
    /\ down' = TRUE
    /\ UNCHANGED <<phase, log>>

Next ==
    \/ \E w \in Writers :
          Call(w) \/ AppendFrame(w) \/ ReturnFalse(w) \/ ReturnTrue(w)
    \/ GoDown

Spec == Init /\ [][Next]_vars
=============================================================================
