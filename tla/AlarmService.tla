---------------------------- MODULE AlarmService ----------------------------
(***************************************************************************)
(* What ALMGR promises to the state machines that arm timers: requests are *)
(* served in the order they were made; a timer that is armed again, or     *)
(* cancelled, does not go off with its old message; one that is armed goes *)
(* off once, not before its time.  The heap, the inactive alarms it still  *)
(* holds, the threads and the mutex do not appear.                         *)
(***************************************************************************)
EXTENDS Naturals, Sequences

CONSTANTS
    Keys,       \* Call-ID, branch and name of a timer
    Ids,        \* the messages
    Times       \* 0 and the fire times

VARIABLES
    now,
    requests,       \* not yet served: [id, cid, time], time 0 to cancel
    armed,          \* the request that armed a timer, for each armed timer
    sent            \* the requests whose message was handed to SL_CC

vars == <<now, requests, armed, sent>>

Without(f, x) == [y \in DOMAIN f \ {x} |-> f[y]]
With(f, x, value) == [y \in DOMAIN f \cup {x} |-> IF y = x THEN value ELSE f[y]]

Init ==
    /\ now = 1
    /\ requests = <<>>
    /\ armed = [cid \in {} |-> 0]
    /\ sent = {}

Tick == now' = now + 1 /\ UNCHANGED <<requests, armed, sent>>

Request ==
    /\ \E r \in [id : Ids, cid : Keys, time : Times] : requests' = Append(requests, r)
    /\ UNCHANGED <<now, armed, sent>>

Cancel ==
    /\ requests # <<>> /\ Head(requests).time = 0
    /\ armed' = Without(armed, Head(requests).cid)
    /\ requests' = Tail(requests)
    /\ UNCHANGED <<now, sent>>

Arm ==
    /\ requests # <<>> /\ Head(requests).time # 0
    /\ armed' = With(armed, Head(requests).cid, Head(requests))
    /\ requests' = Tail(requests)
    /\ UNCHANGED <<now, sent>>

GoOff(cid) ==
    /\ cid \in DOMAIN armed /\ armed[cid].time <= now
    /\ sent' = sent \cup {armed[cid]}
    /\ armed' = Without(armed, cid)
    /\ UNCHANGED <<now, requests>>

Next == Tick \/ Request \/ Cancel \/ Arm \/ \E cid \in Keys : GoOff(cid)

Spec == Init /\ [][Next]_vars
=============================================================================
