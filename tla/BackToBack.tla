----------------------------- MODULE BackToBack -----------------------------
(***************************************************************************)
(* What SL_CO promises to the two user agents of a call: it has a leg to A *)
(* and a leg to B; A is told what B said, B gets the ACK once A sent it,   *)
(* whoever hangs up is answered and the other is told.  A call ends by a   *)
(* BYE, or before its ACK when somebody gives up.  The eight state         *)
(* machines, their alarms and resends, and repeated messages do not appear. *)
(***************************************************************************)

CONSTANTS
    ByesOfA, ByesOfB    \* the BYEs of each side

VARIABLES
    legA, legB,     \* "none", "early", "answered", "confirmed", "over"
    hungUp,         \* the BYEs accepted
    toA, toB,       \* the messages sent to A, to B
    call            \* "none", "active", "requested" (its deletion), "deleted"

vars == <<legA, legB, hungUp, toA, toB, call>>

Msg(kind, branch) == [kind |-> kind, branch |-> branch]

Live == call \in {"active", "requested"}

Init ==
    /\ legA = "none" /\ legB = "none"
    /\ hungUp = {} /\ toA = {} /\ toB = {}
    /\ call = "none"

Invite ==
    /\ call = "none" /\ call' = "active"
    /\ legA' = "early" /\ legB' = "early"
    /\ toA' = toA \cup {Msg("100", "INVITE_A")}
    /\ toB' = toB \cup {Msg("INVITE", "INVITE_B")}
    /\ UNCHANGED hungUp

Ring ==
    /\ Live
    /\ legA = "early" /\ legB = "early"
    /\ toA' = toA \cup {Msg("180", "INVITE_A")}
    /\ UNCHANGED <<legA, legB, hungUp, toB, call>>

Answer ==
    /\ Live
    /\ legA = "early" /\ legA' = "answered"
    /\ legB = "early" /\ legB' = "answered"
    /\ toA' = toA \cup {Msg("200", "INVITE_A")}
    /\ UNCHANGED <<hungUp, toB, call>>

\* B answers a call that is over for A: nobody is told.
LateAnswer ==
    /\ Live
    /\ legA = "over"
    /\ legB = "early" /\ legB' = "answered"
    /\ UNCHANGED <<legA, hungUp, toA, toB, call>>

Confirm ==
    /\ Live
    /\ legA = "answered" /\ legA' = "confirmed"
    /\ legB = "answered" /\ legB' = "confirmed"
    /\ toB' = toB \cup {Msg("ACK", "INVITE_B")}
    /\ UNCHANGED <<hungUp, toA, call>>

\* A repeats its INVITE before it was answered.
Reject ==
    /\ Live
    /\ legA = "early" /\ legA' = "over"
    /\ toA' = toA \cup {Msg("503", "INVITE_A")}
    /\ call' = "requested"
    /\ UNCHANGED <<legB, hungUp, toB>>

\* A timeout of either side; none ends a confirmed call nobody hung up.
GiveUpA ==
    /\ Live
    /\ legA \in {"early", "answered"} \/ hungUp # {}
    /\ legA' = "over"
    /\ call' = "requested"
    /\ UNCHANGED <<legB, hungUp, toA, toB>>

GiveUpB ==
    /\ Live
    /\ legB = "early" /\ legB' = "over"
    /\ call' = "requested"
    /\ UNCHANGED <<legA, hungUp, toA, toB>>

\* The side that hangs up is answered, the other gets the BYE; the leg to A
\* is over whichever side it was.
HangUpA(b) ==
    /\ legA = "confirmed"
    /\ toA' = toA \cup {Msg("200", b)} /\ toB' = toB \cup {Msg("BYE", b)}

HangUpB(b) ==
    /\ legB = "confirmed"
    /\ toB' = toB \cup {Msg("200", b)} /\ toA' = toA \cup {Msg("BYE", b)}

HangUp(b) ==
    /\ Live
    /\ b \notin hungUp
    /\ \/ b \in ByesOfA /\ HangUpA(b)
       \/ b \in ByesOfB /\ HangUpB(b)
    /\ hungUp' = hungUp \cup {b}
    /\ legA' = "over"
    /\ UNCHANGED <<legB, call>>

\* The other side answered the BYE, or its resends are used up.
Release ==
    /\ Live
    /\ hungUp # {}
    /\ legB' = "over"
    /\ call' = "requested"
    /\ UNCHANGED <<legA, hungUp, toA, toB>>

Delete ==
    /\ call = "requested" /\ call' = "deleted"
    /\ UNCHANGED <<legA, legB, hungUp, toA, toB>>

Next ==
    \/ Invite \/ Ring \/ Answer \/ LateAnswer \/ Confirm
    \/ Reject \/ GiveUpA \/ GiveUpB
    \/ \E b \in ByesOfA \cup ByesOfB : HangUp(b)
    \/ Release \/ Delete

Spec == Init /\ [][Next]_vars
=============================================================================
