-------------------------------- MODULE SlCo --------------------------------
(***************************************************************************)
(* SL_CO (CALL_OSET.cpp, TRNSCT_SM.cpp, VALO.cpp): the logic of one call.  *)
(* SL_CO::call takes one message at a time (CALL_OSET::mutex is held), finds *)
(* or creates the transaction state machine it is for, and executes the    *)
(* actions its event returns.  With NONESTEDPW an action for the ALO or    *)
(* for another state machine is a nested SL_CO::call: one message from the *)
(* network moves the A side (_SV) and the B side (_CL) machines together,  *)
(* in one step here.                                                       *)
(*                                                                         *)
(* The user agents A and B and the network between are the environment: a  *)
(* message that could have been sent may arrive at any time, any number of *)
(* times, in any order, or never.                                          *)
(***************************************************************************)
EXTENDS Integers

CONSTANTS
    MaxResend,      \* MAX_INVITE_RESEND
    AckBranches,    \* Via branches A may put on its ACKs
    ByesOfA,        \* Via branches A may put on its BYEs
    ByesOfB         \* the same of B

Byes == ByesOfA \cup ByesOfB

ASSUME ConstantsAssumption ==
    /\ MaxResend \in Nat \ {0}
    /\ ByesOfA \cap ByesOfB = {}
    /\ {"INVITE_A", "INVITE_B"} \cap Byes = {}

VARIABLES
    inhibitAlarm,           \* the build has INHIBITALARM: no alarm is armed.
                            \* A step never changes it
    OverallState_SV, OverallState_CL,
    inviteSV, inviteCL,     \* State of TRNSCT_SM_INVITE_SV / _CL, 0: none yet
    ackSV,                  \* State of the TRNSCT_SM_ACK_SV of each branch
    ackCL,                  \* State of lastTRNSCT_SM_ACK_CL
    byeSV, byeCL,           \* State of the TRNSCT_SM_BYE_SV of each BYE, and
                            \* of the TRNSCT_SM_BYE_CL that relays it
    resend_200ok, resend_invite, resend_bye,
    STOREMESS_1_3,          \* the 200 OK for A is stored
    alarms,                 \* alarms armed in ALMGR
    fired,                  \* alarm messages in the queue of SL_CC
    toA, toB,               \* messages given to TRNSPRT for A, for B
    call,                   \* whether the CALL_OSET exists, and its DOA state
    assertion               \* a DEBASSERT was hit: the process is gone

inviteVars == <<inviteSV, inviteCL, resend_200ok, resend_invite, STOREMESS_1_3>>
ackVars == <<ackSV, ackCL>>
byeVars == <<byeSV, byeCL, resend_bye>>
overallVars == <<OverallState_SV, OverallState_CL>>
alarmVars == <<alarms, fired>>
netVars == <<toA, toB>>
vars == <<inhibitAlarm, overallVars, inviteVars, ackVars, byeVars, alarmVars, netVars, call, assertion>>

OverallStates == {"INIT", "CALLING", "PROCEEDING", "COMPLETED", "CONFIRMED", "TERMINATED"}
Msg(kind, branch) == [kind |-> kind, branch |-> branch]
Alarm(order, branch) == [order |-> order, branch |-> branch]

TimerS == Alarm("TIMER_S", "INVITE_A")
TimerG == Alarm("TIMER_G", "INVITE_A")
TimerA == Alarm("TIMER_A", "INVITE_B")
ByeTimer(b) == Alarm("TIMER_A", b)
Alarms == {TimerS, TimerG, TimerA} \cup {ByeTimer(b) : b \in Byes}

Init ==
    /\ inhibitAlarm \in BOOLEAN
    /\ OverallState_SV = "INIT" /\ OverallState_CL = "INIT"
    /\ inviteSV = 0 /\ inviteCL = 0
    /\ ackSV = [k \in AckBranches |-> 0] /\ ackCL = 0
    /\ byeSV = [b \in Byes |-> 0] /\ byeCL = [b \in Byes |-> 0]
    /\ resend_200ok = 0 /\ resend_invite = 1
    /\ resend_bye = [b \in Byes |-> 1]
    /\ STOREMESS_1_3 = FALSE
    /\ alarms = {} /\ fired = {}
    /\ toA = {} /\ toB = {}
    /\ call = "none" /\ assertion = FALSE

\* COMAP finds the call: it is there until the purge has deleted it.
Found == call \in {"active", "requested"} /\ ~assertion

\* An action directed to SODE_KILLDOA: COMAP::setDoaRequested.
KillDoa == call' = "requested"

\* What TIMER_ON arms: with INHIBITALARM the message is purged instead.
Armed(on) == IF inhibitAlarm THEN {} ELSE on

\* TIMER_OFF for the alarms off, TIMER_ON for the alarms on.
SetAlarms(off, on) ==
    /\ alarms' = (alarms \ off) \cup Armed(on)
    /\ UNCHANGED fired

----------------------------------------------------------------------------
(* INVITE from A.                                                          *)

\* INVITE_CL, the last of the chain: TIMER_A is armed with it.
act_invite_to_b ==
    /\ inviteCL' = 1 /\ OverallState_CL' = "CALLING"
    /\ resend_invite' = resend_invite + 1
    /\ toB' = toB \cup {Msg("INVITE", "INVITE_B")}

\* The call is created, and the INVITE goes down to B: INVITE_SV, VALO,
\* INVITE_CL.  SL_CC has sent the 100 itself (QUICKTRY).
act_invite_to_alo ==
    /\ call = "none"
    /\ call' = "active"
    /\ inviteSV' = 1 /\ OverallState_SV' = "PROCEEDING"
    /\ toA' = toA \cup {Msg("100", "INVITE_A")}
    /\ act_invite_to_b
    /\ SetAlarms({}, {TimerS, TimerA})
    /\ UNCHANGED <<resend_200ok, STOREMESS_1_3, ackVars, byeVars, assertion>>

\* Variant with a bug: the A side is closed, and nobody asks for the deletion.
act_send_servunav_to_a_Keeps ==
    /\ Found
    /\ inviteSV \in {1, 2}
    /\ inviteSV' = 5 /\ OverallState_SV' = "TERMINATED"
    /\ toA' = toA \cup {Msg("503", "INVITE_A")}
    /\ UNCHANGED <<OverallState_CL, inviteCL, resend_200ok, resend_invite,
                   STOREMESS_1_3,
                   ackVars, byeVars, alarmVars, toB, call, assertion>>

\* A repeats the INVITE before it was answered: 503, and the call is over.
act_send_servunav_to_a ==
    /\ Found
    /\ inviteSV \in {1, 2}
    /\ inviteSV' = 5 /\ OverallState_SV' = "TERMINATED"
    /\ toA' = toA \cup {Msg("503", "INVITE_A")}
    /\ KillDoa
    /\ UNCHANGED <<OverallState_CL, inviteCL, resend_200ok, resend_invite,
                   STOREMESS_1_3,
                   ackVars, byeVars, alarmVars, toB, assertion>>

\* A repeats the INVITE after the 200 OK: it is sent once more and TIMER_G
\* starts over.
act_200ok_resendto_a ==
    /\ Found
    /\ inviteSV = 3
    /\ toA' = toA \cup {Msg("200", "INVITE_A")}
    /\ SetAlarms({TimerS}, {TimerG})
    /\ UNCHANGED <<overallVars, inviteVars, ackVars, byeVars, toB, call, assertion>>

InviteFromA == act_invite_to_alo \/ act_send_servunav_to_a \/ act_200ok_resendto_a

----------------------------------------------------------------------------
(* Replies of B to the INVITE.                                             *)

act_clear_invite_alarm ==
    /\ Found
    /\ inviteCL = 1
    /\ inviteCL' = 2 /\ OverallState_CL' = "PROCEEDING"
    /\ SetAlarms({TimerA}, {})
    /\ UNCHANGED <<OverallState_SV, inviteSV, resend_200ok, resend_invite,
                   STOREMESS_1_3,
                   ackVars, byeVars, netVars, call, assertion>>

\* INVITE_SV sends the provisional reply on, only the first time.
act_provreply_to_a ==
    IF inviteSV = 1
    THEN /\ inviteSV' = 2 /\ OverallState_SV' = "PROCEEDING"
         /\ toA' = toA \cup {Msg("180", "INVITE_A")}
    ELSE UNCHANGED <<inviteSV, OverallState_SV, toA>>

\* 101 or 180: INVITE_CL, then INVITE_SV.
act_provrep_to_sv ==
    /\ Found
    /\ inviteCL \in {1, 2}
    /\ inviteCL' = 3 /\ OverallState_CL' = "PROCEEDING"
    /\ act_provreply_to_a
    /\ SetAlarms({TimerA} \cup (IF inviteSV \in {1, 2, 3} THEN {TimerS} ELSE {}), {})
    /\ UNCHANGED <<resend_200ok, resend_invite, STOREMESS_1_3, ackVars, byeVars, toB,
                   call, assertion>>

\* The 200 OK reaches INVITE_SV from the ALO.
act_200ok_fwdto_a ==
    IF inviteSV \in {1, 2}
    THEN /\ assertion' = STOREMESS_1_3
         /\ STOREMESS_1_3' = TRUE
         /\ inviteSV' = 3 /\ OverallState_SV' = "COMPLETED"
         /\ toA' = toA \cup {Msg("200", "INVITE_A")}
         /\ SetAlarms({TimerA, TimerS}, {TimerG})
    ELSE /\ SetAlarms({TimerA}, {})
         /\ UNCHANGED <<assertion, STOREMESS_1_3, inviteSV, OverallState_SV, toA>>

\* Variant with a bug: the B side counts as completed before the ACK.
act_200ok_inv_to_alo_Completed ==
    /\ Found
    /\ inviteCL \in {1, 2, 3}
    /\ inviteCL' = 4 /\ OverallState_CL' = "COMPLETED"
    /\ act_200ok_fwdto_a
    /\ UNCHANGED <<resend_200ok, resend_invite, ackVars, byeVars, toB, call>>

\* The first 200 OK: INVITE_CL, VALO::on200Ok, INVITE_SV.
act_200ok_inv_to_alo ==
    /\ Found
    /\ inviteCL \in {1, 2, 3}
    /\ inviteCL' = 4 /\ OverallState_CL' = "PROCEEDING"
    /\ act_200ok_fwdto_a
    /\ UNCHANGED <<resend_200ok, resend_invite, ackVars, byeVars, toB, call>>

\* A repeated 200 OK: ACKTOB is sent again, if there is one.
act_resend_ack ==
    /\ Found
    /\ inviteCL = 4 /\ OverallState_CL = "COMPLETED"
    /\ toB' = IF ackCL = 0 THEN toB ELSE toB \cup {Msg("ACK", "INVITE_B")}
    /\ UNCHANGED <<overallVars, inviteVars, ackVars, byeVars, alarmVars, toA, call,
                   assertion>>

ReplyFromB ==
    /\ Msg("INVITE", "INVITE_B") \in toB
    /\ \/ act_clear_invite_alarm
       \/ act_provrep_to_sv
       \/ act_200ok_inv_to_alo
       \/ act_resend_ack

----------------------------------------------------------------------------
(* ACK from A.                                                             *)

\* ACK_CL is created: SL_CO::call asserts that there was none, and the ACK
\* goes to B.
act_ack_to_b ==
    /\ assertion' = (ackCL # 0)
    /\ ackCL' = 1 /\ OverallState_CL' = "COMPLETED"
    /\ toB' = toB \cup {Msg("ACK", "INVITE_B")}

\* Variant with a bug: any ACK gets a state machine.
act_ack_to_alo_Any(k) ==
    /\ Found
    /\ ackSV[k] = 0
    /\ ackSV' = [ackSV EXCEPT ![k] = 1] /\ OverallState_SV' = "CONFIRMED"
    /\ act_ack_to_b
    /\ UNCHANGED <<inviteVars, byeVars, alarmVars, toA, call>>

\* A new branch: ACK_SV, VALO::onAck, ACK_CL.
act_ack_to_alo(k) ==
    /\ Found
    /\ ackSV[k] = 0 /\ OverallState_SV = "COMPLETED"
    /\ ackSV' = [ackSV EXCEPT ![k] = 1] /\ OverallState_SV' = "CONFIRMED"
    /\ act_ack_to_b
    /\ UNCHANGED <<inviteVars, byeVars, alarmVars, toA, call>>

AckFromA ==
    /\ Msg("200", "INVITE_A") \in toA
    /\ \E k \in AckBranches : act_ack_to_alo(k)

----------------------------------------------------------------------------
(* BYE from either side, and the reply of the other.                       *)

\* BYE_CL relays the BYE, and arms TIMER_A for the reply.
act_bye_to_b(b) ==
    /\ byeCL' = [byeCL EXCEPT ![b] = 1]
    /\ resend_bye' = [resend_bye EXCEPT ![b] = @ + 1]
    /\ SetAlarms({}, {ByeTimer(b)})

\* VALO::onBye: the BYE goes to the side that did not send it; BYE_SV answers
\* the one that did.
onBye(b) ==
    IF b \in ByesOfA
    THEN toA' = toA \cup {Msg("200", b)} /\ toB' = toB \cup {Msg("BYE", b)}
    ELSE toB' = toB \cup {Msg("200", b)} /\ toA' = toA \cup {Msg("BYE", b)}

\* Whether SL_CO::call creates a BYE_SV for a new BYE, and variants with a bug.
ByeAcceptedUnacked(b) ==
    \/ b \in ByesOfA /\ OverallState_SV \in {"COMPLETED", "CONFIRMED"}
    \/ b \in ByesOfB /\ OverallState_CL = "COMPLETED"

ByeAccepted(b) ==
    \/ b \in ByesOfA /\ OverallState_SV = "CONFIRMED"
    \/ b \in ByesOfB /\ OverallState_CL = "COMPLETED"

\* BYE_SV answers 200 at once and passes the BYE on: VALO::onBye, BYE_CL.
act_bye_to_alo(b) ==
    /\ Found
    /\ byeSV[b] = 0 /\ ByeAccepted(b)
    /\ byeSV' = [byeSV EXCEPT ![b] = 2] /\ OverallState_SV' = "TERMINATED"
    /\ act_bye_to_b(b)
    /\ onBye(b)
    /\ UNCHANGED <<OverallState_CL, inviteVars, ackVars, call, assertion>>

\* The 200 OK to a BYE.
act_200ok_bye_to_alo(b) ==
    /\ Found
    /\ byeCL[b] \in {1, 2}
    /\ byeCL' = [byeCL EXCEPT ![b] = 2] /\ OverallState_CL' = "TERMINATED"
    /\ SetAlarms({ByeTimer(b)}, {})
    /\ KillDoa
    /\ UNCHANGED <<OverallState_SV, inviteVars, ackVars, byeSV, resend_bye, netVars,
                   assertion>>

ByeFromA == Msg("200", "INVITE_A") \in toA /\ \E b \in ByesOfA : act_bye_to_alo(b)
ByeFromB == Msg("INVITE", "INVITE_B") \in toB /\ \E b \in ByesOfB : act_bye_to_alo(b)
ByeReply ==
    \E b \in Byes : Msg("BYE", b) \in toA \cup toB /\ act_200ok_bye_to_alo(b)

----------------------------------------------------------------------------
(* Alarms.  ALMGR puts the message of an expired alarm into SL_CC's queue; *)
(* it may be handled after the alarm was cancelled, or the call deleted.   *)
(* Bound: one message of an alarm is in the queue at a time.               *)

Fire(a) ==
    /\ ~assertion
    /\ a \in alarms \ fired
    /\ alarms' = alarms \ {a} /\ fired' = fired \cup {a}
    /\ UNCHANGED <<overallVars, inviteVars, ackVars, byeVars, netVars, call, assertion>>

\* The alarm message is taken; what it was armed for is over, or no
\* transition of the machine asks for it.
IgnoreAlarm(a) ==
    /\ fired' = fired \ {a}
    /\ UNCHANGED <<overallVars, inviteVars, ackVars, byeVars, alarms, netVars, call,
                   assertion>>

\* KILLDOA from a timeout, with the State and the overall state it leaves.
act_timer_s_sv ==
    /\ inviteSV' = 99 /\ OverallState_SV' = "TERMINATED"
    /\ KillDoa
    /\ fired' = fired \ {TimerS}
    /\ UNCHANGED <<OverallState_CL, inviteCL, resend_200ok, resend_invite,
                   STOREMESS_1_3,
                   ackVars, byeVars, alarms, netVars, assertion>>

\* Variant with a bug: TIMER_S ends a confirmed call.
HandleTimerS_Confirmed ==
    IF Found /\ inviteSV \in {1, 2, 3} THEN act_timer_s_sv ELSE IgnoreAlarm(TimerS)

HandleTimerS ==
    IF Found /\ inviteSV \in {1, 2, 3} /\ OverallState_SV # "CONFIRMED"
    THEN act_timer_s_sv
    ELSE IgnoreAlarm(TimerS)

\* The 200 OK to A again, and the next TIMER_G.
act_200ok_refwdto_a ==
    /\ assertion' = ~STOREMESS_1_3
    /\ resend_200ok' = resend_200ok + 1
    /\ toA' = toA \cup {Msg("200", "INVITE_A")}
    /\ alarms' = (alarms \ {TimerS}) \cup Armed({TimerG})
    /\ fired' = fired \ {TimerG}
    /\ UNCHANGED <<overallVars, inviteSV, inviteCL, resend_invite, STOREMESS_1_3,
                   ackVars, byeVars, toB, call>>

act_terminate_sv ==
    /\ inviteSV' = 5 /\ OverallState_SV' = "TERMINATED"
    /\ KillDoa
    /\ fired' = fired \ {TimerG}
    /\ UNCHANGED <<OverallState_CL, inviteCL, resend_200ok, resend_invite,
                   STOREMESS_1_3,
                   ackVars, byeVars, alarms, netVars, assertion>>

\* act_null_sv, when the ACK has come.
act_null_sv ==
    /\ alarms' = alarms \ {TimerS}
    /\ fired' = fired \ {TimerG}
    /\ UNCHANGED <<overallVars, inviteVars, ackVars, byeVars, netVars, call, assertion>>

\* Variant with a bug: one resend too many.
HandleTimerG_TooMany ==
    IF ~Found \/ inviteSV # 3 THEN IgnoreAlarm(TimerG)
    ELSE IF OverallState_SV = "CONFIRMED" THEN act_null_sv
    ELSE IF resend_200ok <= MaxResend THEN act_200ok_refwdto_a
    ELSE act_terminate_sv

HandleTimerG ==
    IF ~Found \/ inviteSV # 3 THEN IgnoreAlarm(TimerG)
    ELSE IF OverallState_SV = "CONFIRMED" THEN act_null_sv
    ELSE IF resend_200ok < MaxResend THEN act_200ok_refwdto_a
    ELSE act_terminate_sv

\* TIMER_A of the INVITE to B.  The State 1 transition tests the message with
\* pre_invite_from_sv, which no alarm satisfies: there is only the last one.
HandleTimerA ==
    IF Found /\ inviteCL = 1 /\ resend_invite >= MaxResend
    THEN /\ inviteCL' = 99 /\ OverallState_CL' = "TERMINATED"
         /\ KillDoa
         /\ fired' = fired \ {TimerA}
         /\ UNCHANGED <<OverallState_SV, inviteSV, resend_200ok, resend_invite,
                        STOREMESS_1_3,
                        ackVars, byeVars, alarms, netVars, assertion>>
    ELSE IgnoreAlarm(TimerA)

\* The BYE is sent again, with a new TIMER_A.
act_bye_resend(b) ==
    /\ resend_bye' = [resend_bye EXCEPT ![b] = @ + 1]
    /\ alarms' = alarms \cup Armed({ByeTimer(b)})
    /\ fired' = fired \ {ByeTimer(b)}
    /\ UNCHANGED <<overallVars, inviteVars, ackVars, byeSV, byeCL, netVars, call,
                   assertion>>

act_terminate_cl(b) ==
    /\ byeCL' = [byeCL EXCEPT ![b] = 99] /\ OverallState_CL' = "TERMINATED"
    /\ KillDoa
    /\ fired' = fired \ {ByeTimer(b)}
    /\ UNCHANGED <<OverallState_SV, inviteVars, ackVars, byeSV, resend_bye, alarms,
                   netVars,
                   assertion>>

\* Variant with a bug: off by one, and the last resend is never followed up.
HandleByeTimer_Forgets(b) ==
    IF Found /\ byeCL[b] = 1 /\ resend_bye[b] < MaxResend
    THEN act_bye_resend(b)
    ELSE IgnoreAlarm(ByeTimer(b))

HandleByeTimer(b) ==
    IF ~Found \/ byeCL[b] # 1 THEN IgnoreAlarm(ByeTimer(b))
    ELSE IF resend_bye[b] < MaxResend THEN act_bye_resend(b)
    ELSE act_terminate_cl(b)

HandleAlarm(a) ==
    /\ ~assertion
    /\ a \in fired
    /\ \/ a = TimerS /\ HandleTimerS
       \/ a = TimerG /\ HandleTimerG
       \/ a = TimerA /\ HandleTimerA
       \/ \E b \in Byes : a = ByeTimer(b) /\ HandleByeTimer(b)

----------------------------------------------------------------------------

\* COMAP::purgeDOA deletes the call (module Comap).
Purge ==
    /\ ~assertion
    /\ call = "requested"
    /\ call' = "deleted"
    /\ UNCHANGED <<overallVars, inviteVars, ackVars, byeVars, alarmVars, netVars,
                   assertion>>

Step ==
    \/ InviteFromA \/ ReplyFromB \/ AckFromA
    \/ ByeFromA \/ ByeFromB \/ ByeReply
    \/ \E a \in Alarms : Fire(a) \/ HandleAlarm(a)
    \/ Purge

Next == Step /\ UNCHANGED inhibitAlarm

Spec == Init /\ [][Next]_vars

----------------------------------------------------------------------------
(* Properties.                                                             *)

\* Every variable stays in its range; the resend counters stay within
\* MAX_INVITE_RESEND.
TypeOK ==
    /\ inhibitAlarm \in BOOLEAN
    /\ OverallState_SV \in OverallStates /\ OverallState_CL \in OverallStates
    /\ inviteSV \in {0, 1, 2, 3, 5, 99} /\ inviteCL \in {0, 1, 2, 3, 4, 99}
    /\ ackSV \in [AckBranches -> 0 .. 1] /\ ackCL \in 0 .. 1
    /\ byeSV \in [Byes -> {0, 2}] /\ byeCL \in [Byes -> {0, 1, 2, 99}]
    /\ resend_200ok \in 0 .. MaxResend
    /\ resend_invite \in 1 .. 2
    /\ resend_bye \in [Byes -> 1 .. MaxResend + 1]
    /\ STOREMESS_1_3 \in BOOLEAN
    /\ alarms \subseteq Alarms /\ fired \subseteq Alarms
    /\ call \in {"none", "active", "requested", "deleted"}
    /\ assertion \in BOOLEAN

\* No order of messages and alarms reaches a DEBASSERT of the machines: a
\* second ACK_CL (CALL_OSET.cpp:738), a second 200 OK to store
\* (TRNSCT_SM.cpp:549), TIMER_G without a stored 200 OK (TRNSCT_SM.cpp:611).
NothingAsserts == ~assertion

Rank(s) ==
    CASE s = "INIT" -> 0 [] s = "CALLING" -> 1 [] s = "PROCEEDING" -> 2
      [] s = "COMPLETED" -> 3 [] s = "CONFIRMED" -> 4 [] s = "TERMINATED" -> 5

\* The overall state of neither side ever goes back, although eight machines
\* assign it: SL_CO::call decides by it which machines may be created.
StatesNeverGoBack ==
    [][/\ Rank(OverallState_SV') >= Rank(OverallState_SV)
       /\ Rank(OverallState_CL') >= Rank(OverallState_CL)]_overallVars

\* A call whose ACK went through to B is deleted only after a BYE: no late
\* timeout, repeated INVITE or used-up resend ends it.
AnsweredCallEndsByBye ==
    ackCL = 1 /\ call \in {"requested", "deleted"} => \E b \in Byes : byeSV[b] # 0

\* The two sides move together: A is told 200 only after B said so, B waits
\* for its ACK exactly while A owes it, and B has the ACK once A's came.
SidesInStep ==
    /\ Msg("200", "INVITE_A") \in toA => inviteCL = 4
    /\ OverallState_SV = "COMPLETED" => OverallState_CL = "PROCEEDING"
    /\ OverallState_SV = "CONFIRMED" => OverallState_CL = "COMPLETED"
    /\ OverallState_CL = "COMPLETED" => /\ Msg("ACK", "INVITE_B") \in toB
                                        /\ OverallState_SV \in {"CONFIRMED", "TERMINATED"}

\* B is not sent a BYE for a dialog it has had no ACK for, nor A one before
\* its ACK arrived, whichever side hangs up and whatever overtakes what.
ByeAfterAck ==
    \A b \in Byes : Msg("BYE", b) \in toA \cup toB => Msg("ACK", "INVITE_B") \in toB

\* The legs of the call, as the overall states and INVITE_CL show them.
LegA(overall) ==
    CASE overall = "INIT" -> "none"
      [] overall = "PROCEEDING" -> "early"
      [] overall = "COMPLETED" -> "answered"
      [] overall = "CONFIRMED" -> "confirmed"
      [] overall = "TERMINATED" -> "over"

LegB(overall, invite) ==
    CASE overall = "INIT" -> "none"
      [] overall = "CALLING" -> "early"
      [] overall = "PROCEEDING" -> (IF invite = 4 THEN "answered" ELSE "early")
      [] overall = "COMPLETED" -> "confirmed"
      [] overall = "TERMINATED" -> "over"

HungUp == {b \in Byes : byeSV[b] # 0}

Relay == INSTANCE BackToBack WITH
    legA <- LegA(OverallState_SV), legB <- LegB(OverallState_CL, inviteCL),
    hungUp <- HungUp

\* The eight machines and their alarms together are a relay of two legs: no
\* repeated or late message, no alarm that fires after its time and no resend
\* does anything BackToBack does not allow.
ImplementsBackToBack == Relay!Spec

\* In a build with alarms no wait of a live call is left without its timer,
\* whatever cancels, repeats or overtakes it: TIMER_S for the first answer of
\* B, TIMER_G for the ACK, TIMER_A for the reply to a BYE is armed, or its
\* message is on its way.
WaitsAreGuarded ==
    ~inhibitAlarm /\ call = "active" =>
        /\ inviteSV = 1 => TimerS \in alarms \cup fired
        /\ OverallState_SV = "COMPLETED" => TimerG \in alarms \cup fired
        /\ \A b \in Byes : byeCL[b] = 1 => ByeTimer(b) \in alarms \cup fired

\* In both builds a call that is not over can still be ended by a message: the
\* INVITE again, an ACK (any) and then a BYE of A (any), or the reply to a BYE
\* that was relayed.  Without alarms nothing else ends it.
AlwaysEndable ==
    call = "active" =>
        \/ inviteSV \in {1, 2}
        \/ OverallState_SV = "COMPLETED" /\ \A k \in AckBranches : ackSV[k] = 0
        \/ OverallState_SV = "CONFIRMED" /\ \A b \in ByesOfA : byeSV[b] = 0
        \/ \E b \in Byes : byeCL[b] = 1 /\ Msg("BYE", b) \in toA \cup toB

\* "INVITE_B retransmission is setup using ALARM", and the alarm is armed
\* again until the resends are used up (TRNSPRT.cpp:149-152).
AlarmResendsInvite ==
    [][(/\ TimerA \in fired \ fired'
        /\ Found /\ inviteCL = 1 /\ resend_invite < MaxResend)
       => resend_invite' = 1 + resend_invite]_vars
=============================================================================
