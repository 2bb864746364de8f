----------------------------- MODULE TimeWheel -----------------------------
(***************************************************************************)
(* The time wheel: tasks hang in the slot of the millisecond at which they *)
(* expire, and Run looks at ONE slot, that of the present millisecond,     *)
(* each time its timer expires.  The callbacks are awaited inside the      *)
(* scan.                                                                   *)
(*                                                                         *)
(* Time is kept modulo Clock, and for each task the time since it was      *)
(* active, up to Cap.  A task's place in the vector of its slot is left    *)
(* out: a scan examines its tasks in any order.                            *)
(***************************************************************************)
EXTENDS Integers

CONSTANTS
    Tasks,     \* tasks that may be registered (again, once called back)
    Active,    \* those of them with a get_active_time function
    SlotMs,    \* milliseconds of a slot (10)
    Slots,     \* number of slots (128)
    Period,    \* milliseconds between two scans (99)
    Late,      \* milliseconds the timer of Run may be late, a set
    TimeoutMs, \* timeout_msecs of the tasks
    Extra,     \* added to the deadline when a task is put back (100)
    Second,    \* milliseconds in the unit of the active times (1000)
    Steps,     \* milliseconds that may pass between two events, a set
    MaxStall,  \* milliseconds a callback may be suspended
    Clock,     \* modulus of the clock
    Cap        \* ages are told apart up to this one

ASSUME ActiveAssumption == Active \subseteq Tasks
ASSUME WheelAssumption ==
    /\ {SlotMs, Slots, Period, TimeoutMs, Second, Clock} \subseteq Nat \ {0}
    /\ {Extra, MaxStall, Cap} \subseteq Nat
    /\ Late \subseteq Nat /\ Late # {} /\ Steps \subseteq Nat \ {0}
ASSUME ClockAssumption ==
    /\ Clock % (SlotMs * Slots) = 0 /\ Clock % Second = 0
    /\ Cap > TimeoutMs + MaxStall

VARIABLES
    now,       \* the clock
    left,      \* milliseconds until the timer of Run expires
    run,       \* Run: "wait", "scan", "call"
    stall,     \* milliseconds since the scan took its time
    place,     \* place[k]: "idle", "wheel", "queue" (being scanned), "call"
    slot,      \* slot[k]: the slot of a task in the wheel
    canceled,  \* the tasks whose cancel function was called
    age        \* age[k]: milliseconds since the active time of k

wheelVars == <<now, left, run, stall, place, slot, canceled, age>>

GetIdxByMillsecs(ms) == (ms \div SlotMs) % Slots

\* Run is between two suspensions: nothing else happens meanwhile.
Busy == run = "scan" \/ (run = "call" /\ MaxStall = 0)


\* The timer of Run is set, and will be late by l milliseconds.
Wait(l) == Period + l
Rearm == \E l \in Late : left' = Wait(l)

WheelInit ==
    /\ now = 0
    /\ left = Period
    /\ run = "wait"
    /\ stall = 0
    /\ place = [k \in Tasks |-> "idle"]
    /\ slot = [k \in Tasks |-> 0]
    /\ canceled = {}
    /\ age = [k \in Tasks |-> 0]

-----------------------------------------------------------------------------
\* Fault: the scan goes over the slot itself, not over what was moved out of
\* it, and meets a task that is registered in it meanwhile.
AddInPlace(k) ==
    /\ ~Busy
    /\ place[k] = "idle"
    /\ LET s == GetIdxByMillsecs((now + TimeoutMs) % Clock)
           scanned == run = "call" /\ s = GetIdxByMillsecs((now + Clock - stall) % Clock)
       IN  /\ place' = [place EXCEPT ![k] = IF scanned THEN "queue" ELSE "wheel"]
           /\ slot' = [slot EXCEPT ![k] = s]
    /\ age' = [age EXCEPT ![k] = IF k \in Active THEN now % Second ELSE 0]
    /\ canceled' = canceled \ {k}
    /\ UNCHANGED <<now, left, run, stall>>

\* Add and DoRegister.  The active time of a stream or a connection is its
\* last second with traffic, the present one when it is registered.
Add(k) ==
    /\ ~Busy
    /\ place[k] = "idle"
    /\ place' = [place EXCEPT ![k] = "wheel"]
    /\ slot' = [slot EXCEPT ![k] = GetIdxByMillsecs((now + TimeoutMs) % Clock)]
    /\ age' = [age EXCEPT ![k] = IF k \in Active THEN now % Second ELSE 0]
    /\ canceled' = canceled \ {k}
    /\ UNCHANGED <<now, left, run, stall>>

\* Traffic: the active time of k becomes the present second.
Touch(k) ==
    /\ ~Busy
    /\ k \in Active /\ place[k] \in {"wheel", "queue"}
    /\ age' = [age EXCEPT ![k] = now % Second]
    /\ UNCHANGED <<now, left, run, stall, place, slot, canceled>>

\* The function Add returned: the task stays where it is.
Cancel(k) ==
    /\ ~Busy
    /\ place[k] \in {"wheel", "queue", "call"} /\ k \notin canceled
    /\ canceled' = canceled \cup {k}
    /\ UNCHANGED <<now, left, run, stall, place, slot, age>>

Older(d) == [k \in Tasks |-> IF place[k] = "idle" THEN 0
                             ELSE IF age[k] + d > Cap THEN Cap ELSE age[k] + d]

\* Time passes, up to the next expiry or while a callback is suspended.
Elapse ==
    \/ \E d \in Steps \cup {left} :
           /\ run = "wait"
           /\ 0 < d /\ d <= left
           /\ now' = (now + d) % Clock
           /\ age' = Older(d)
           /\ left' = left - d
           /\ UNCHANGED <<run, stall, place, slot, canceled>>
    \/ \E d \in Steps :
           /\ run = "call"
           /\ stall + d <= MaxStall
           /\ now' = (now + d) % Clock
           /\ age' = Older(d)
           /\ stall' = stall + d
           /\ UNCHANGED <<left, run, place, slot, canceled>>

-----------------------------------------------------------------------------
Due == {k \in Tasks : place[k] = "wheel" /\ slot[k] = GetIdxByMillsecs(now)}

\* The timer expires: take the tasks of the slot of this millisecond.
Tick ==
    /\ run = "wait" /\ left = 0
    /\ IF Due = {}
       THEN Rearm /\ UNCHANGED <<run, place>>
       ELSE /\ run' = "scan"
            /\ place' = [k \in Tasks |-> IF k \in Due THEN "queue" ELSE place[k]]
            /\ UNCHANGED left
    /\ stall' = 0
    /\ UNCHANGED <<now, slot, canceled, age>>

SkipCanceled(k) ==
    /\ run = "scan" /\ place[k] = "queue" /\ k \in canceled
    /\ place' = [place EXCEPT ![k] = "idle"]
    /\ UNCHANGED <<now, left, run, stall, slot, canceled, age>>

\* now - active_time > timeout_msecs, in unsigned 64 bit arithmetic: now is
\* the time of the tick, and a task that was active after it is taken for one
\* that has been idle for 2^64 milliseconds.
Expired(k) == LET d == age[k] - stall IN d < 0 \/ d > TimeoutMs

\* The task has expired: its callback is awaited.
Call(k) ==
    /\ run = "scan" /\ place[k] = "queue" /\ k \notin canceled
    /\ Expired(k)
    /\ place' = [place EXCEPT ![k] = "call"]
    /\ run' = "call"
    /\ UNCHANGED <<now, left, stall, slot, canceled, age>>

\* The task was active in the meantime: put it back for its new deadline.
PutBack(k) ==
    /\ run = "scan" /\ place[k] = "queue" /\ k \notin canceled
    /\ ~Expired(k)
    /\ place' = [place EXCEPT ![k] = "wheel"]
    /\ slot' = [slot EXCEPT ![k] =
                   GetIdxByMillsecs((now + Clock * Cap - age[k] + TimeoutMs + Extra) % Clock)]
    /\ UNCHANGED <<now, left, run, stall, canceled, age>>

\* The callback returns; its task is released.
CallbackReturns ==
    /\ run = "call"
    /\ run' = "scan"
    /\ place' = [k \in Tasks |-> IF place[k] = "call" THEN "idle" ELSE place[k]]
    /\ UNCHANGED <<now, left, stall, slot, canceled, age>>

ScanEnds ==
    /\ run = "scan"
    /\ \A k \in Tasks : place[k] # "queue"
    /\ run' = "wait"
    /\ Rearm
    /\ UNCHANGED <<now, stall, place, slot, canceled, age>>

Run(k) == SkipCanceled(k) \/ Call(k) \/ PutBack(k)
WheelNext ==
    \/ Elapse \/ Tick \/ CallbackReturns \/ ScanEnds
    \/ \E k \in Tasks : Add(k) \/ Touch(k) \/ Cancel(k) \/ Run(k)

WheelSpec == WheelInit /\ [][WheelNext]_wheelVars

(***************************************************************************)
(* Time goes on, the io_context resumes Run and a callback returns.  From  *)
(* some moment on the timer is not late and no callback is suspended: when *)
(* it may be late for ever, every scan may pass a slot by.                 *)
(***************************************************************************)
Progress == Elapse \/ Tick \/ CallbackReturns \/ ScanEnds \/ \E k \in Tasks : Run(k)
Punctual == (left' > left => left' = Wait(0)) /\ stall' <= stall
FairWheelSpec == WheelSpec /\ WF_wheelVars(Progress) /\ <>[][Punctual]_wheelVars

-----------------------------------------------------------------------------
(***************************************************************************)
(* Properties.                                                             *)
(***************************************************************************)

\* A task that has been idle for longer than its timeout does not wait for
\* ever: it is called back, unless it is canceled or becomes active again.  The
\* scans, each of one slot, must meet every slot in the end, whatever delays
\* there were before and in which slot a task was put back.
Overdue(k) == place[k] \in {"wheel", "queue"} /\ k \notin canceled /\ age[k] > TimeoutMs

\* A timer without a get_active_time function, as of a DNS query, is called back
\* only after its timeout: neither a scan whose time is old after a suspension,
\* nor one that was suspended while the timer was registered, takes the unsigned
\* difference of the times for an age it does not have.
OnlyIdleFires == \A k \in Tasks \ Active : place[k] = "call" => age[k] > TimeoutMs
=============================================================================
