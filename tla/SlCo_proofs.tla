---------------------------- MODULE SlCo_proofs ----------------------------
(***************************************************************************)
(* Proofs about SlCo, for any number of branches and any MAX_INVITE_RESEND, *)
(* with and without alarms.                                                *)
(***************************************************************************)
EXTENDS SlCo, TLAPS

ByeSeen == \E b \in Byes : byeSV[b] = 2

\* The machines of the INVITE and the overall states agree.
ServerStates ==
    /\ inviteSV = 0 <=> OverallState_SV = "INIT"
    /\ inviteSV \in {1, 2} => OverallState_SV = "PROCEEDING"
    /\ inviteSV = 3 => OverallState_SV \in {"COMPLETED", "CONFIRMED", "TERMINATED"}
    /\ inviteSV \in {5, 99} => OverallState_SV = "TERMINATED"
    /\ OverallState_SV = "TERMINATED" /\ inviteSV = 3 => ByeSeen

ClientStates ==
    /\ inviteCL = 0 => OverallState_CL = "INIT" /\ resend_invite = 1
    /\ inviteCL = 1 => OverallState_CL = "CALLING"
    /\ inviteCL \in {2, 3} => OverallState_CL = "PROCEEDING"
    /\ inviteCL = 4 => OverallState_CL \in {"PROCEEDING", "COMPLETED", "TERMINATED"}
    /\ inviteCL = 99 => OverallState_CL = "TERMINATED"
    /\ OverallState_CL = "TERMINATED" /\ inviteCL = 4 => ByeSeen

\* The call is there from the first INVITE on, and only a side that is
\* terminated asks for its deletion.
CallStates ==
    /\ call = "none" <=> inviteSV = 0
    /\ call = "none" <=> inviteCL = 0
    /\ call \in {"requested", "deleted"} =>
         "TERMINATED" \in {OverallState_SV, OverallState_CL}

\* The 200 OK of B comes before that for A.
AnswerStates ==
    /\ Msg("200", "INVITE_A") \in toA <=> STOREMESS_1_3
    /\ STOREMESS_1_3 => inviteCL = 4 /\ inviteSV \notin {0, 1, 2}
    /\ inviteSV = 3 => STOREMESS_1_3

\* The ACK goes through both sides at once.
AckStates ==
    /\ Msg("ACK", "INVITE_B") \in toB <=> ackCL = 1
    /\ ackCL = 1 => /\ inviteCL = 4 /\ inviteSV \notin {0, 1, 2}
                    /\ OverallState_SV \in {"CONFIRMED", "TERMINATED"}
                    /\ OverallState_CL \in {"COMPLETED", "TERMINATED"}
    /\ ackCL = 0 => OverallState_SV # "CONFIRMED" /\ OverallState_CL # "COMPLETED"
    /\ ackCL = 1 /\ call \in {"requested", "deleted"} => ByeSeen

\* A BYE is relayed only for an acknowledged call, and ends it for A.
ByeStates ==
    \A b \in Byes :
        /\ byeSV[b] = 2 => ackCL = 1 /\ OverallState_SV = "TERMINATED"
        /\ byeSV[b] = 0 => /\ byeCL[b] = 0 /\ resend_bye[b] = 1
                           /\ Msg("BYE", b) \notin toA \cup toB

\* What every reachable state satisfies, strong enough to be inductive.
IInv ==
    /\ TypeOK
    /\ NothingAsserts
    /\ ServerStates
    /\ ClientStates
    /\ CallStates
    /\ AnswerStates
    /\ AckStates
    /\ ByeStates

LEMMA Constants ==
    /\ MaxResend \in Nat /\ MaxResend >= 1
    /\ \A b \in Byes : b # "INVITE_A" /\ b # "INVITE_B"
    /\ \A b \in Byes : b \in ByesOfA \/ b \in ByesOfB
    /\ \A b \in Byes : ~(b \in ByesOfA /\ b \in ByesOfB)
  BY ConstantsAssumption DEF Byes

LEMMA Messages ==
    \A k1, b1, k2, b2 : Msg(k1, b1) = Msg(k2, b2) <=> k1 = k2 /\ b1 = b2
  BY DEF Msg

LEMMA AlarmsAre ==
    /\ TimerS \in Alarms /\ TimerG \in Alarms /\ TimerA \in Alarms
    /\ \A b \in Byes : ByeTimer(b) \in Alarms
  BY DEF Alarms

LEMMA InitInv == Init => IInv
<1> SUFFICES ASSUME Init PROVE IInv
  OBVIOUS
<1>1. TypeOK /\ NothingAsserts
  <2>1. 1 \in 1 .. MaxResend + 1 /\ 0 \in 0 .. MaxResend
    BY Constants
  <2>2. [b \in Byes |-> 1] \in [Byes -> 1 .. MaxResend + 1]
    BY <2>1
  <2>3. resend_bye \in [Byes -> 1 .. MaxResend + 1] /\ resend_200ok \in 0 .. MaxResend
    BY <2>1, <2>2 DEF Init
  <2>4. /\ ackSV \in [AckBranches -> 0 .. 1]
        /\ byeSV \in [Byes -> {0, 2}] /\ byeCL \in [Byes -> {0, 1, 2, 99}]
    BY DEF Init
  <2>5. STOREMESS_1_3 \in BOOLEAN /\ assertion \in BOOLEAN /\ NothingAsserts
    BY DEF Init, NothingAsserts
  <2>6. alarms \subseteq Alarms /\ fired \subseteq Alarms
    BY DEF Init
  <2>7. /\ inhibitAlarm \in BOOLEAN
        /\ OverallState_SV \in OverallStates /\ OverallState_CL \in OverallStates
        /\ inviteSV \in {0, 1, 2, 3, 5, 99} /\ inviteCL \in {0, 1, 2, 3, 4, 99}
        /\ ackCL \in 0 .. 1 /\ resend_invite \in 1 .. 2
        /\ call \in {"none", "active", "requested", "deleted"}
    BY DEF Init, OverallStates
  <2> QED BY <2>3, <2>4, <2>5, <2>6, <2>7 DEF TypeOK
<1>2. ServerStates /\ ClientStates /\ CallStates
  BY DEF Init, ServerStates, ClientStates, CallStates
<1>3. AnswerStates /\ AckStates /\ ByeStates
  BY DEF Init, AnswerStates, AckStates, ByeStates
<1> QED BY <1>1, <1>2, <1>3 DEF IInv

-----------------------------------------------------------------------------
(* One lemma per chain of actions: each part of the invariant is kept.     *)

LEMMA InviteInv ==
    ASSUME IInv, act_invite_to_alo, UNCHANGED inhibitAlarm
    PROVE  IInv'
<1> USE DEF IInv, TypeOK, NothingAsserts, OverallStates, act_invite_to_alo,
    act_invite_to_b, SetAlarms, Armed,
    ackVars, byeVars
<1>1. TypeOK' /\ NothingAsserts'
  BY AlarmsAre DEF ClientStates, CallStates
<1>2. ServerStates'
  BY DEF ServerStates
<1>3. ClientStates'
  BY DEF ClientStates
<1>4. CallStates'
  BY DEF CallStates
<1>5. AnswerStates'
  BY Messages DEF CallStates, AnswerStates
<1>6. AckStates'
  BY Messages DEF CallStates, AckStates
<1>7. ByeStates'
  BY Messages DEF CallStates, AckStates, ByeStates
<1> QED BY <1>1, <1>2, <1>3, <1>4, <1>5, <1>6, <1>7

LEMMA ServUnavInv ==
    ASSUME IInv, act_send_servunav_to_a, UNCHANGED inhibitAlarm
    PROVE  IInv'
<1> USE DEF IInv, TypeOK, NothingAsserts, OverallStates, act_send_servunav_to_a, Found,
    KillDoa, ackVars, byeVars, alarmVars
<1>1. TypeOK' /\ NothingAsserts'
  OBVIOUS
<1>2. ServerStates'
  BY DEF ServerStates
<1>3. ClientStates'
  BY DEF ByeSeen, ClientStates
<1>4. CallStates'
  BY DEF CallStates
<1>5. AnswerStates'
  BY Messages DEF AnswerStates
<1>6. AckStates'
  BY DEF AckStates
<1>7. ByeStates'
  BY Messages DEF ByeStates
<1> QED BY <1>1, <1>2, <1>3, <1>4, <1>5, <1>6, <1>7

LEMMA ResendOkInv ==
    ASSUME IInv, act_200ok_resendto_a, UNCHANGED inhibitAlarm
    PROVE  IInv'
<1> USE DEF IInv, TypeOK, NothingAsserts, OverallStates, act_200ok_resendto_a, Found,
    SetAlarms, Armed, inviteVars, ackVars, byeVars, overallVars
<1>1. TypeOK' /\ NothingAsserts'
  BY AlarmsAre
<1>2. ServerStates'
  BY DEF ByeSeen, ServerStates
<1>3. ClientStates'
  BY DEF ByeSeen, ClientStates
<1>4. CallStates'
  BY DEF CallStates
<1>5. AnswerStates'
  BY DEF AnswerStates
<1>6. AckStates'
  BY DEF ByeSeen, AckStates
<1>7. ByeStates'
  BY Messages DEF ByeStates
<1> QED BY <1>1, <1>2, <1>3, <1>4, <1>5, <1>6, <1>7

LEMMA TryInv ==
    ASSUME IInv, act_clear_invite_alarm, UNCHANGED inhibitAlarm
    PROVE  IInv'
<1> USE DEF IInv, TypeOK, NothingAsserts, OverallStates, act_clear_invite_alarm, Found,
    SetAlarms, Armed, ackVars, byeVars, netVars
<1>1. TypeOK' /\ NothingAsserts'
  OBVIOUS
<1>2. ServerStates'
  BY DEF ServerStates, AnswerStates
<1>3. ClientStates'
  BY DEF ClientStates
<1>4. CallStates'
  BY DEF ClientStates, CallStates
<1>5. AnswerStates'
  BY DEF AnswerStates
<1>6. AckStates'
  BY DEF AckStates
<1>7. ByeStates'
  BY DEF ByeStates
<1> QED BY <1>1, <1>2, <1>3, <1>4, <1>5, <1>6, <1>7

LEMMA ProvisionalInv ==
    ASSUME IInv, act_provrep_to_sv, UNCHANGED inhibitAlarm
    PROVE  IInv'
<1> USE DEF IInv, TypeOK, NothingAsserts, OverallStates, act_provrep_to_sv,
    act_provreply_to_a, Found,
    SetAlarms, Armed, ackVars, byeVars
<1>1. TypeOK' /\ NothingAsserts'
  OBVIOUS
<1>2. ServerStates'
  BY DEF ServerStates, AnswerStates
<1>3. ClientStates'
  BY DEF ClientStates
<1>4. CallStates'
  BY DEF ServerStates, ClientStates, CallStates
<1>5. AnswerStates'
  BY Messages DEF AnswerStates
<1>6. AckStates'
  BY DEF AckStates
<1>7. ByeStates'
  BY Messages DEF AckStates, ByeStates
<1> QED BY <1>1, <1>2, <1>3, <1>4, <1>5, <1>6, <1>7

LEMMA OkInv ==
    ASSUME IInv, act_200ok_inv_to_alo, UNCHANGED inhibitAlarm
    PROVE  IInv'
<1> USE DEF IInv, TypeOK, NothingAsserts, OverallStates, act_200ok_inv_to_alo,
    act_200ok_fwdto_a, Found, SetAlarms, Armed, ackVars, byeVars
<1>1. TypeOK' /\ NothingAsserts'
  <2>1. CASE inviteSV \in {1, 2}
    BY <2>1, AlarmsAre DEF AnswerStates
  <2>2. CASE inviteSV \notin {1, 2}
    BY <2>2
  <2> QED BY <2>1, <2>2
<1>2. ServerStates'
  BY DEF ServerStates, AnswerStates
<1>3. ClientStates'
  BY DEF ClientStates
<1>4. CallStates'
  BY DEF ServerStates, ClientStates, CallStates
<1>5. AnswerStates'
  BY DEF AnswerStates
<1>6. AckStates'
  BY DEF AckStates
<1>7. ByeStates'
  BY Messages DEF AckStates, ByeStates
<1> QED BY <1>1, <1>2, <1>3, <1>4, <1>5, <1>6, <1>7

LEMMA ResendAckInv ==
    ASSUME IInv, act_resend_ack, UNCHANGED inhibitAlarm
    PROVE  IInv'
<1> USE DEF IInv, TypeOK, NothingAsserts, OverallStates, act_resend_ack, Found,
    inviteVars, ackVars, byeVars, overallVars, alarmVars
<1>1. TypeOK' /\ NothingAsserts'
  OBVIOUS
<1>2. ServerStates'
  BY DEF ByeSeen, ServerStates
<1>3. ClientStates'
  BY DEF ClientStates
<1>4. CallStates'
  BY DEF CallStates
<1>5. AnswerStates'
  BY DEF AnswerStates
<1>6. AckStates'
  BY DEF ByeSeen, AckStates
<1>7. ByeStates'
  BY DEF AckStates, ByeStates
<1> QED BY <1>1, <1>2, <1>3, <1>4, <1>5, <1>6, <1>7

LEMMA AckInv ==
    ASSUME IInv, NEW k \in AckBranches, act_ack_to_alo(k), UNCHANGED inhibitAlarm
    PROVE  IInv'
<1> USE DEF IInv, TypeOK, NothingAsserts, OverallStates, act_ack_to_alo, act_ack_to_b,
    Found, inviteVars, byeVars, alarmVars
<1>1. TypeOK' /\ NothingAsserts'
  BY DEF AckStates
<1>2. ServerStates'
  BY DEF ServerStates
<1>3. ClientStates'
  BY DEF ServerStates, ClientStates, AnswerStates
<1>4. CallStates'
  BY DEF ByeSeen, ServerStates, ClientStates, CallStates, AnswerStates, ByeStates
<1>5. AnswerStates'
  BY DEF AnswerStates
<1>6. AckStates'
  BY DEF ByeSeen, ServerStates, ClientStates, CallStates, AnswerStates, AckStates
<1>7. ByeStates'
  BY Messages DEF ByeStates
<1> QED BY <1>1, <1>2, <1>3, <1>4, <1>5, <1>6, <1>7

LEMMA ByeInv ==
    ASSUME IInv, NEW b \in Byes, act_bye_to_alo(b), UNCHANGED inhibitAlarm
    PROVE  IInv'
<1> USE DEF IInv, TypeOK, NothingAsserts, OverallStates, act_bye_to_alo, onBye,
    act_bye_to_b,
    ByeAccepted, Found, SetAlarms, Armed, inviteVars, ackVars
<1>1. TypeOK' /\ NothingAsserts'
  BY Constants, AlarmsAre DEF ByeStates
<1>2. ServerStates'
  BY DEF ByeSeen, ServerStates, AckStates
<1>3. ClientStates'
  BY DEF ByeSeen, ClientStates
<1>4. CallStates'
  BY DEF CallStates
<1>5. AnswerStates'
  BY Constants, Messages DEF AnswerStates
<1>6. AckStates'
  BY DEF ByeSeen, AckStates
<1>7. ByeStates'
  BY Messages DEF AckStates, ByeStates
<1> QED BY <1>1, <1>2, <1>3, <1>4, <1>5, <1>6, <1>7

LEMMA ByeOkInv ==
    ASSUME IInv, NEW b \in Byes, act_200ok_bye_to_alo(b), UNCHANGED inhibitAlarm
    PROVE  IInv'
<1> USE DEF IInv, TypeOK, NothingAsserts, OverallStates, act_200ok_bye_to_alo, Found,
    KillDoa, SetAlarms, Armed, inviteVars, ackVars, netVars
<1>1. TypeOK' /\ NothingAsserts'
  OBVIOUS
<1>2. ServerStates'
  BY DEF ByeSeen, ServerStates
<1>3. ClientStates'
  BY DEF ByeSeen, ClientStates, AckStates, ByeStates
<1>4. CallStates'
  BY DEF CallStates
<1>5. AnswerStates'
  BY DEF AnswerStates
<1>6. AckStates'
  BY DEF ByeSeen, AckStates, ByeStates
<1>7. ByeStates'
  BY DEF ByeStates
<1> QED BY <1>1, <1>2, <1>3, <1>4, <1>5, <1>6, <1>7

LEMMA FireInv ==
    ASSUME IInv, NEW a \in Alarms, Fire(a), UNCHANGED inhibitAlarm
    PROVE  IInv'
<1> USE DEF IInv, TypeOK, NothingAsserts, OverallStates, Fire, inviteVars, ackVars,
    byeVars, overallVars, netVars
<1>1. TypeOK' /\ NothingAsserts'
  OBVIOUS
<1>2. ServerStates'
  BY DEF ByeSeen, ServerStates
<1>3. ClientStates'
  BY DEF ByeSeen, ClientStates
<1>4. CallStates'
  BY DEF CallStates
<1>5. AnswerStates'
  BY DEF AnswerStates
<1>6. AckStates'
  BY DEF ByeSeen, AckStates
<1>7. ByeStates'
  BY DEF ByeStates
<1> QED BY <1>1, <1>2, <1>3, <1>4, <1>5, <1>6, <1>7

LEMMA IgnoreInv ==
    ASSUME IInv, NEW a \in Alarms, IgnoreAlarm(a), UNCHANGED inhibitAlarm
    PROVE  IInv'
<1> USE DEF IInv, TypeOK, NothingAsserts, OverallStates, IgnoreAlarm, inviteVars, ackVars,
    byeVars, overallVars, netVars
<1>1. TypeOK' /\ NothingAsserts'
  OBVIOUS
<1>2. ServerStates'
  BY DEF ByeSeen, ServerStates
<1>3. ClientStates'
  BY DEF ByeSeen, ClientStates
<1>4. CallStates'
  BY DEF CallStates
<1>5. AnswerStates'
  BY DEF AnswerStates
<1>6. AckStates'
  BY DEF ByeSeen, AckStates
<1>7. ByeStates'
  BY DEF ByeStates
<1> QED BY <1>1, <1>2, <1>3, <1>4, <1>5, <1>6, <1>7

LEMMA TimerSInv ==
    ASSUME IInv, inviteSV \in {1, 2, 3}, OverallState_SV # "CONFIRMED", Found,
           act_timer_s_sv, UNCHANGED inhibitAlarm
    PROVE  IInv'
<1> USE DEF IInv, TypeOK, NothingAsserts, OverallStates, act_timer_s_sv, KillDoa, ackVars,
    byeVars, netVars
<1>1. TypeOK' /\ NothingAsserts'
  OBVIOUS
<1>2. ServerStates'
  BY DEF ServerStates
<1>3. ClientStates'
  BY DEF ByeSeen, ClientStates
<1>4. CallStates'
  BY DEF CallStates
<1>5. AnswerStates'
  BY DEF AnswerStates
<1>6. AckStates'
  BY DEF ByeSeen, ServerStates, AckStates
<1>7. ByeStates'
  BY DEF ByeStates
<1> QED BY <1>1, <1>2, <1>3, <1>4, <1>5, <1>6, <1>7

LEMMA RefwdOkInv ==
    ASSUME IInv, Found, inviteSV = 3, OverallState_SV # "CONFIRMED", resend_200ok <
           MaxResend, act_200ok_refwdto_a, UNCHANGED inhibitAlarm
    PROVE  IInv'
<1> USE DEF IInv, TypeOK, NothingAsserts, OverallStates, act_200ok_refwdto_a, Armed,
    ackVars, byeVars, overallVars
<1>1. TypeOK' /\ NothingAsserts'
  BY Constants, AlarmsAre DEF AnswerStates
<1>2. ServerStates'
  BY DEF ByeSeen, ServerStates
<1>3. ClientStates'
  BY DEF ByeSeen, ClientStates
<1>4. CallStates'
  BY DEF CallStates
<1>5. AnswerStates'
  BY DEF AnswerStates
<1>6. AckStates'
  BY DEF ByeSeen, AckStates
<1>7. ByeStates'
  BY Messages DEF ByeStates
<1> QED BY <1>1, <1>2, <1>3, <1>4, <1>5, <1>6, <1>7

LEMMA TerminateSvInv ==
    ASSUME IInv, Found, inviteSV = 3, OverallState_SV # "CONFIRMED", act_terminate_sv, UNCHANGED inhibitAlarm
    PROVE  IInv'
<1> USE DEF IInv, TypeOK, NothingAsserts, OverallStates, act_terminate_sv, KillDoa,
    ackVars, byeVars, netVars
<1>1. TypeOK' /\ NothingAsserts'
  OBVIOUS
<1>2. ServerStates'
  BY DEF ServerStates
<1>3. ClientStates'
  BY DEF ByeSeen, ClientStates
<1>4. CallStates'
  BY DEF CallStates
<1>5. AnswerStates'
  BY DEF AnswerStates
<1>6. AckStates'
  BY DEF ByeSeen, ServerStates, AckStates
<1>7. ByeStates'
  BY DEF ByeStates
<1> QED BY <1>1, <1>2, <1>3, <1>4, <1>5, <1>6, <1>7

LEMMA NullSvInv ==
    ASSUME IInv, act_null_sv, UNCHANGED inhibitAlarm
    PROVE  IInv'
<1> USE DEF IInv, TypeOK, NothingAsserts, OverallStates, act_null_sv, inviteVars, ackVars,
    byeVars, overallVars, netVars
<1>1. TypeOK' /\ NothingAsserts'
  OBVIOUS
<1>2. ServerStates'
  BY DEF ByeSeen, ServerStates
<1>3. ClientStates'
  BY DEF ByeSeen, ClientStates
<1>4. CallStates'
  BY DEF CallStates
<1>5. AnswerStates'
  BY DEF AnswerStates
<1>6. AckStates'
  BY DEF ByeSeen, AckStates
<1>7. ByeStates'
  BY DEF ByeStates
<1> QED BY <1>1, <1>2, <1>3, <1>4, <1>5, <1>6, <1>7

LEMMA TimerAInv ==
    ASSUME IInv, NEW a \in fired, a = TimerA, HandleTimerA, UNCHANGED inhibitAlarm
    PROVE  IInv'
<1> USE DEF IInv, TypeOK, NothingAsserts, OverallStates, HandleTimerA, IgnoreAlarm, Found,
    KillDoa, inviteVars, ackVars, byeVars, overallVars, netVars
<1>1. TypeOK' /\ NothingAsserts'
  OBVIOUS
<1>2. ServerStates'
  BY DEF ByeSeen, ServerStates
<1>3. ClientStates'
  BY DEF ByeSeen, ClientStates
<1>4. CallStates'
  BY DEF CallStates
<1>5. AnswerStates'
  BY DEF AnswerStates
<1>6. AckStates'
  BY DEF ByeSeen, AckStates
<1>7. ByeStates'
  BY DEF ByeStates
<1> QED BY <1>1, <1>2, <1>3, <1>4, <1>5, <1>6, <1>7

LEMMA ByeResendInv ==
    ASSUME IInv, NEW b \in Byes, Found, byeCL[b] = 1, resend_bye[b] < MaxResend,
           act_bye_resend(b), UNCHANGED inhibitAlarm
    PROVE  IInv'
<1> USE DEF IInv, TypeOK, NothingAsserts, OverallStates, act_bye_resend, Armed,
    inviteVars, ackVars, overallVars, netVars
<1>1. TypeOK' /\ NothingAsserts'
  BY Constants, AlarmsAre
<1>2. ServerStates'
  BY DEF ByeSeen, ServerStates
<1>3. ClientStates'
  BY DEF ByeSeen, ClientStates
<1>4. CallStates'
  BY DEF CallStates
<1>5. AnswerStates'
  BY DEF AnswerStates
<1>6. AckStates'
  BY DEF ByeSeen, AckStates
<1>7. ByeStates'
  BY DEF ByeStates
<1> QED BY <1>1, <1>2, <1>3, <1>4, <1>5, <1>6, <1>7

LEMMA TerminateClInv ==
    ASSUME IInv, NEW b \in Byes, Found, byeCL[b] = 1, act_terminate_cl(b), UNCHANGED inhibitAlarm
    PROVE  IInv'
<1> USE DEF IInv, TypeOK, NothingAsserts, OverallStates, act_terminate_cl, Found, KillDoa,
    inviteVars, ackVars, netVars
<1>1. TypeOK' /\ NothingAsserts'
  OBVIOUS
<1>2. ServerStates'
  BY DEF ByeSeen, ServerStates
<1>3. ClientStates'
  BY DEF ByeSeen, ClientStates, AckStates, ByeStates
<1>4. CallStates'
  BY DEF CallStates
<1>5. AnswerStates'
  BY DEF AnswerStates
<1>6. AckStates'
  BY DEF ByeSeen, AckStates, ByeStates
<1>7. ByeStates'
  BY DEF ByeStates
<1> QED BY <1>1, <1>2, <1>3, <1>4, <1>5, <1>6, <1>7

LEMMA PurgeInv ==
    ASSUME IInv, Purge, UNCHANGED inhibitAlarm
    PROVE  IInv'
<1> USE DEF IInv, TypeOK, NothingAsserts, OverallStates, Purge, inviteVars, ackVars,
    byeVars, overallVars, alarmVars, netVars
<1>1. TypeOK' /\ NothingAsserts'
  OBVIOUS
<1>2. ServerStates'
  BY DEF ByeSeen, ServerStates
<1>3. ClientStates'
  BY DEF ByeSeen, ClientStates
<1>4. CallStates'
  BY DEF CallStates
<1>5. AnswerStates'
  BY DEF AnswerStates
<1>6. AckStates'
  BY DEF ByeSeen, AckStates
<1>7. ByeStates'
  BY DEF ByeStates
<1> QED BY <1>1, <1>2, <1>3, <1>4, <1>5, <1>6, <1>7

-----------------------------------------------------------------------------
(* A step is one of these chains, or leaves everything as it is.           *)

LEMMA HandleAlarmInv ==
    ASSUME IInv, NEW a \in Alarms, HandleAlarm(a), UNCHANGED inhibitAlarm
    PROVE  IInv'
<1>1. CASE a = TimerS /\ HandleTimerS
  BY <1>1, TimerSInv, IgnoreInv DEF HandleTimerS
<1>2. CASE a = TimerG /\ HandleTimerG
  <2>1. CASE ~Found \/ inviteSV # 3
    BY <1>2, <2>1, IgnoreInv DEF HandleTimerG
  <2>2. CASE Found /\ inviteSV = 3 /\ OverallState_SV = "CONFIRMED"
    BY <1>2, <2>2, NullSvInv DEF HandleTimerG
  <2>3. CASE Found /\ inviteSV = 3 /\ OverallState_SV # "CONFIRMED"
    BY <1>2, <2>3, RefwdOkInv, TerminateSvInv DEF HandleTimerG
  <2> QED BY <2>1, <2>2, <2>3
<1>3. CASE a = TimerA /\ HandleTimerA
  BY <1>3, TimerAInv DEF HandleAlarm
<1>4. ASSUME NEW b \in Byes, a = ByeTimer(b), HandleByeTimer(b) PROVE IInv'
  <2>1. CASE ~Found \/ byeCL[b] # 1
    BY <1>4, <2>1, IgnoreInv DEF HandleByeTimer
  <2>2. CASE Found /\ byeCL[b] = 1
    BY <1>4, <2>2, ByeResendInv, TerminateClInv DEF HandleByeTimer
  <2> QED BY <2>1, <2>2
<1> QED BY <1>1, <1>2, <1>3, <1>4 DEF HandleAlarm

LEMMA StutterInv == IInv /\ UNCHANGED vars => IInv'
  BY DEF vars, overallVars, inviteVars, ackVars, byeVars, alarmVars, netVars, IInv, TypeOK,
      NothingAsserts, ServerStates, ClientStates, CallStates, AnswerStates, AckStates,
          ByeStates,
      ByeSeen

LEMMA NextInv == IInv /\ [Next]_vars => IInv'
<1> SUFFICES ASSUME IInv, [Next]_vars PROVE IInv'
  OBVIOUS
<1>0. UNCHANGED inhibitAlarm
  BY DEF Next, vars
<1>1. CASE InviteFromA
  BY <1>0, <1>1, InviteInv, ServUnavInv, ResendOkInv DEF InviteFromA
<1>2. CASE ReplyFromB
  BY <1>0, <1>2, TryInv, ProvisionalInv, OkInv, ResendAckInv DEF ReplyFromB
<1>3. CASE AckFromA
  BY <1>0, <1>3, AckInv DEF AckFromA
<1>4. CASE ByeFromA \/ ByeFromB
  BY <1>0, <1>4, ByeInv DEF ByeFromA, ByeFromB, Byes
<1>5. CASE ByeReply
  BY <1>0, <1>5, ByeOkInv DEF ByeReply
<1>6. CASE \E a \in Alarms : Fire(a) \/ HandleAlarm(a)
  BY <1>0, <1>6, FireInv, HandleAlarmInv
<1>7. CASE Purge
  BY <1>0, <1>7, PurgeInv
<1>8. CASE UNCHANGED vars
  BY <1>8, StutterInv
<1> QED BY <1>1, <1>2, <1>3, <1>4, <1>5, <1>6, <1>7, <1>8 DEF Next, Step

\* Every reachable state satisfies the invariant.
THEOREM Invariant == Spec => []IInv
<1> QED BY InitInv, NextInv, PTL DEF Spec

-----------------------------------------------------------------------------

\* Every variable of a call stays in its range, the resend counters within
\* MAX_INVITE_RESEND, for any number of branches.
THEOREM TypeCorrect == Spec => []TypeOK
<1>1. IInv => TypeOK
  BY DEF IInv
<1> QED BY <1>1, Invariant, PTL

\* No order of messages and alarms reaches a DEBASSERT of the machines.
THEOREM NoAssertion == Spec => []NothingAsserts
<1>1. IInv => NothingAsserts
  BY DEF IInv
<1> QED BY <1>1, Invariant, PTL

\* The A side and the B side of a call move together.
THEOREM SidesMoveTogether == Spec => []SidesInStep
<1>1. IInv => SidesInStep
  BY DEF IInv, TypeOK, SidesInStep, ServerStates, ClientStates, AnswerStates, AckStates,
      ByeStates, ByeSeen
<1> QED BY <1>1, Invariant, PTL

\* A BYE is relayed only after the ACK was.
THEOREM ByeFollowsAck == Spec => []ByeAfterAck
<1>1. IInv => ByeAfterAck
  BY DEF IInv, TypeOK, ByeAfterAck, AckStates, ByeStates
<1> QED BY <1>1, Invariant, PTL

\* An acknowledged call is deleted only after a BYE.
THEOREM OnlyByeEndsAnsweredCall == Spec => []AnsweredCallEndsByBye
<1>1. IInv => AnsweredCallEndsByBye
  BY DEF IInv, AnsweredCallEndsByBye, AckStates, ByeSeen
<1> QED BY <1>1, Invariant, PTL

-----------------------------------------------------------------------------
(* The waits of a live call and their timers.                              *)

LEMMA AlarmsDiffer ==
    /\ TimerS # TimerG /\ TimerS # TimerA /\ TimerG # TimerA
    /\ \A b \in Byes : ByeTimer(b) \notin {TimerS, TimerG, TimerA}
    /\ \A b, c : ByeTimer(b) = ByeTimer(c) <=> b = c
<1>1. \A o1, b1, o2, b2 : Alarm(o1, b1) = Alarm(o2, b2) <=> o1 = o2 /\ b1 = b2
  BY DEF Alarm
<1> QED BY <1>1, Constants DEF TimerS, TimerG, TimerA, ByeTimer

\* A step that drops no alarm and begins no wait.
LEMMA GuardsStay ==
    ASSUME WaitsAreGuarded, call' = call,
           alarms \cup fired \subseteq alarms' \cup fired',
           UNCHANGED <<inhibitAlarm, inviteSV, OverallState_SV, byeCL>>
    PROVE  WaitsAreGuarded'
  BY DEF WaitsAreGuarded

LEMMA InviteGuarded ==
    ASSUME IInv, WaitsAreGuarded, InviteFromA, UNCHANGED inhibitAlarm
    PROVE  WaitsAreGuarded'
<1>1. CASE act_invite_to_alo
  <2>1. \A b \in Byes : byeCL'[b] = 0
    BY <1>1 DEF act_invite_to_alo, byeVars, IInv, TypeOK, CallStates, ServerStates,
                AckStates, ByeStates
  <2> QED BY <1>1, <2>1 DEF act_invite_to_alo, SetAlarms, Armed, WaitsAreGuarded
<1>2. CASE act_send_servunav_to_a
  BY <1>2 DEF act_send_servunav_to_a, KillDoa, WaitsAreGuarded
<1>3. CASE act_200ok_resendto_a
  BY <1>3, AlarmsDiffer DEF act_200ok_resendto_a, SetAlarms, Armed, WaitsAreGuarded,
                            overallVars, inviteVars, byeVars
<1> QED BY <1>1, <1>2, <1>3 DEF InviteFromA

LEMMA ReplyGuarded ==
    ASSUME IInv, WaitsAreGuarded, ReplyFromB, UNCHANGED inhibitAlarm
    PROVE  WaitsAreGuarded'
<1> USE AlarmsDiffer DEF WaitsAreGuarded, SetAlarms, Armed
<1>1. CASE act_clear_invite_alarm
  BY <1>1 DEF act_clear_invite_alarm, byeVars
<1>2. CASE act_provrep_to_sv
  <2>1. OverallState_SV' = "COMPLETED" => OverallState_SV = "COMPLETED"
    BY <1>2 DEF act_provrep_to_sv, act_provreply_to_a
  <2>2. inviteSV' = 1 => FALSE
    BY <1>2 DEF act_provrep_to_sv, act_provreply_to_a
  <2> QED BY <1>2, <2>1, <2>2 DEF act_provrep_to_sv, byeVars
<1>3. CASE act_200ok_inv_to_alo
  BY <1>3 DEF act_200ok_inv_to_alo, act_200ok_fwdto_a, byeVars
<1>4. CASE act_resend_ack
  BY <1>4 DEF act_resend_ack, overallVars, inviteVars, byeVars, alarmVars
<1> QED BY <1>1, <1>2, <1>3, <1>4 DEF ReplyFromB

LEMMA ByeGuarded ==
    ASSUME IInv, WaitsAreGuarded, NEW b \in Byes, act_bye_to_alo(b), UNCHANGED inhibitAlarm
    PROVE  WaitsAreGuarded'
<1>1. byeCL' = [byeCL EXCEPT ![b] = 1] /\ call' = call /\ inviteSV' = inviteSV
  BY DEF act_bye_to_alo, act_bye_to_b, inviteVars
<1>2. \A c \in Byes : byeCL'[c] = 1 => c = b \/ byeCL[c] = 1
  BY <1>1 DEF IInv, TypeOK
<1>3. OverallState_SV' # "COMPLETED"
  BY DEF act_bye_to_alo
<1>4. alarms' = alarms \cup Armed({ByeTimer(b)}) /\ fired' = fired
  BY DEF act_bye_to_alo, act_bye_to_b, SetAlarms
<1> QED BY <1>1, <1>2, <1>3, <1>4 DEF WaitsAreGuarded, Armed

LEMMA HandleGuarded ==
    ASSUME IInv, WaitsAreGuarded, NEW a \in Alarms, HandleAlarm(a), UNCHANGED inhibitAlarm
    PROVE  WaitsAreGuarded'
<1> USE AlarmsDiffer DEF WaitsAreGuarded, IInv, NothingAsserts, Found, IgnoreAlarm, KillDoa,
    Armed, overallVars, inviteVars, byeVars
<1>1. CASE HandleTimerS
  BY <1>1 DEF HandleTimerS, act_timer_s_sv, ServerStates
<1>2. CASE HandleTimerG
  BY <1>2 DEF HandleTimerG, act_null_sv, act_200ok_refwdto_a, act_terminate_sv,
              ServerStates, TypeOK
<1>3. CASE HandleTimerA
  BY <1>3 DEF HandleTimerA
<1>4. ASSUME NEW b \in Byes, HandleByeTimer(b) PROVE WaitsAreGuarded'
  BY <1>4 DEF HandleByeTimer, act_bye_resend, act_terminate_cl
<1> QED BY <1>1, <1>2, <1>3, <1>4 DEF HandleAlarm

LEMMA NextGuarded == IInv /\ WaitsAreGuarded /\ [Next]_vars => WaitsAreGuarded'
<1> SUFFICES ASSUME IInv, WaitsAreGuarded, [Next]_vars PROVE WaitsAreGuarded'
  OBVIOUS
<1>0. UNCHANGED inhibitAlarm
  BY DEF Next, vars
<1>1. CASE InviteFromA
  BY <1>0, <1>1, InviteGuarded
<1>2. CASE ReplyFromB
  BY <1>0, <1>2, ReplyGuarded
<1>3. CASE AckFromA
  BY <1>0, <1>3 DEF AckFromA, act_ack_to_alo, WaitsAreGuarded, inviteVars, byeVars,
                    alarmVars
<1>4. CASE ByeFromA \/ ByeFromB
  BY <1>0, <1>4, ByeGuarded DEF ByeFromA, ByeFromB, Byes
<1>5. CASE ByeReply
  BY <1>5 DEF ByeReply, act_200ok_bye_to_alo, KillDoa, WaitsAreGuarded
<1>6. CASE \E a \in Alarms : Fire(a) \/ HandleAlarm(a)
  <2>1. ASSUME NEW a \in Alarms, Fire(a) PROVE WaitsAreGuarded'
    BY <1>0, <2>1, GuardsStay DEF Fire, overallVars, inviteVars, byeVars
  <2> QED BY <1>0, <1>6, <2>1, HandleGuarded
<1>7. CASE Purge
  BY <1>7 DEF Purge, WaitsAreGuarded
<1>8. CASE UNCHANGED vars
  BY <1>8 DEF vars, overallVars, inviteVars, byeVars, alarmVars, WaitsAreGuarded
<1> QED BY <1>1, <1>2, <1>3, <1>4, <1>5, <1>6, <1>7, <1>8 DEF Next, Step

\* In a build with alarms no wait of a live call is ever left without its timer.
THEOREM EveryWaitGuarded == Spec => []WaitsAreGuarded
<1>1. Init => WaitsAreGuarded
  BY DEF Init, WaitsAreGuarded
<1> QED BY <1>1, NextGuarded, Invariant, PTL DEF Spec

-----------------------------------------------------------------------------
(* What can still end a call.                                              *)

\* An ACK that was taken went to B; a closed A side that did not ask for the
\* deletion has a BYE behind it, which B, or A, can still answer.
EndStates ==
    /\ \A k \in AckBranches : ackSV[k] # 0 => ackCL = 1
    /\ call = "active" =>
         /\ OverallState_SV = "TERMINATED" => ByeSeen
         /\ \A b \in Byes : byeSV[b] = 2 =>
              byeCL[b] = 1 /\ Msg("BYE", b) \in toA \cup toB

LEMMA NextEnd == IInv /\ EndStates /\ [Next]_vars => EndStates'
<1> SUFFICES ASSUME IInv, EndStates, [Next]_vars PROVE EndStates'
  OBVIOUS
<1> USE DEF EndStates, ByeSeen
<1>1. CASE act_invite_to_alo
  <2>1. ackCL = 0 /\ \A b \in Byes : byeSV[b] # 2
    BY <1>1 DEF act_invite_to_alo, IInv, TypeOK, CallStates, AckStates, ByeStates
  <2> QED BY <1>1, <2>1 DEF act_invite_to_alo, ackVars, byeVars
<1>2. CASE act_send_servunav_to_a
  BY <1>2 DEF act_send_servunav_to_a, KillDoa, ackVars
<1>3. CASE act_200ok_resendto_a
  BY <1>3 DEF act_200ok_resendto_a, overallVars, ackVars, byeVars
<1>4. CASE ReplyFromB
  BY <1>4 DEF ReplyFromB, act_clear_invite_alarm, act_provrep_to_sv, act_provreply_to_a,
      act_200ok_inv_to_alo, act_200ok_fwdto_a, act_resend_ack, overallVars, ackVars, byeVars,
      netVars
<1>5. CASE AckFromA
  <2>1. PICK k \in AckBranches : act_ack_to_alo(k)
    BY <1>5 DEF AckFromA
  <2> QED BY <2>1 DEF act_ack_to_alo, act_ack_to_b, byeVars
<1>6. CASE ByeFromA \/ ByeFromB
  <2>1. PICK b \in Byes : act_bye_to_alo(b)
    BY <1>6 DEF ByeFromA, ByeFromB, Byes
  <2>2. /\ byeSV' = [byeSV EXCEPT ![b] = 2] /\ byeCL' = [byeCL EXCEPT ![b] = 1]
        /\ Msg("BYE", b) \in toA' \cup toB'
        /\ toA \cup toB \subseteq toA' \cup toB'
        /\ UNCHANGED <<ackSV, ackCL, call>>
    BY <2>1 DEF act_bye_to_alo, act_bye_to_b, onBye, ackVars
  <2>3. byeSV'[b] = 2 /\ byeCL'[b] = 1
    BY <2>2 DEF IInv, TypeOK
  <2>4. \A c \in Byes \ {b} : byeSV'[c] = byeSV[c] /\ byeCL'[c] = byeCL[c]
    BY <2>2 DEF IInv, TypeOK
  <2> QED BY <2>2, <2>3, <2>4
<1>7. CASE ByeReply
  BY <1>7 DEF ByeReply, act_200ok_bye_to_alo, KillDoa, ackVars
<1>8. CASE \E a \in Alarms : Fire(a) \/ HandleAlarm(a)
  <2>1. ASSUME NEW a \in Alarms, Fire(a) PROVE EndStates'
    BY <2>1 DEF Fire, overallVars, ackVars, byeVars, netVars
  <2>2. ASSUME NEW a \in Alarms, HandleAlarm(a) PROVE EndStates'
    <3> USE DEF IgnoreAlarm, KillDoa, overallVars, ackVars, byeVars, netVars
    <3>1. CASE HandleTimerS
      BY <3>1 DEF HandleTimerS, act_timer_s_sv
    <3>2. CASE HandleTimerG
      BY <3>2 DEF HandleTimerG, act_null_sv, act_200ok_refwdto_a, act_terminate_sv
    <3>3. CASE HandleTimerA
      BY <3>3 DEF HandleTimerA
    <3>4. ASSUME NEW b \in Byes, HandleByeTimer(b) PROVE EndStates'
      BY <3>4 DEF HandleByeTimer, act_bye_resend, act_terminate_cl
    <3> QED BY <2>2, <3>1, <3>2, <3>3, <3>4 DEF HandleAlarm
  <2> QED BY <1>8, <2>1, <2>2
<1>9. CASE Purge
  BY <1>9 DEF Purge, ackVars
<1>10. CASE UNCHANGED vars
  BY <1>10 DEF vars, overallVars, ackVars, byeVars, netVars
<1> QED BY <1>1, <1>2, <1>3, <1>4, <1>5, <1>6, <1>7, <1>8, <1>9, <1>10
        DEF Next, Step, InviteFromA

\* With and without alarms, a call that is not over can be ended by a message:
\* no order of messages leaves one that nothing would end.
THEOREM NoCallIsStuck == Spec => []AlwaysEndable
<1>1. Init => EndStates
  BY DEF Init, EndStates
<1>2. IInv /\ EndStates => AlwaysEndable
  <2> SUFFICES ASSUME IInv, EndStates, call = "active" PROVE AlwaysEndable
    BY DEF AlwaysEndable
  <2>1. CASE OverallState_SV = "COMPLETED"
    BY <2>1 DEF EndStates, IInv, TypeOK, AckStates, AlwaysEndable
  <2>2. CASE OverallState_SV = "CONFIRMED"
    BY <2>2 DEF IInv, TypeOK, ByeStates, AlwaysEndable, Byes
  <2>3. CASE OverallState_SV = "TERMINATED"
    BY <2>3 DEF EndStates, ByeSeen, AlwaysEndable
  <2>4. CASE OverallState_SV \notin {"COMPLETED", "CONFIRMED", "TERMINATED"}
    BY <2>4 DEF IInv, TypeOK, ServerStates, CallStates, AlwaysEndable
  <2> QED BY <2>1, <2>2, <2>3, <2>4
<1> QED BY <1>1, <1>2, NextEnd, Invariant, PTL DEF Spec

-----------------------------------------------------------------------------
(* The overall states only go forward.                                     *)

LEMMA Ranks ==
    /\ Rank("INIT") = 0 /\ Rank("CALLING") = 1 /\ Rank("PROCEEDING") = 2
    /\ Rank("COMPLETED") = 3 /\ Rank("CONFIRMED") = 4 /\ Rank("TERMINATED") = 5
  BY DEF Rank

Forward ==
    /\ Rank(OverallState_SV') >= Rank(OverallState_SV)
    /\ Rank(OverallState_CL') >= Rank(OverallState_CL)

\* What an alarm may do to them.
LEMMA AlarmForward ==
    ASSUME IInv, NEW a \in Alarms, HandleAlarm(a) PROVE Forward
<1>1. OverallState_SV \in OverallStates /\ OverallState_CL \in OverallStates
  BY DEF IInv, TypeOK
<1>2. /\ OverallState_SV' \in {OverallState_SV, "TERMINATED"}
      /\ OverallState_CL' \in {OverallState_CL, "TERMINATED"}
  <2>1. CASE HandleTimerS
    BY <2>1 DEF HandleTimerS, act_timer_s_sv, IgnoreAlarm, overallVars
  <2>2. CASE HandleTimerG
    BY <2>2 DEF HandleTimerG, act_null_sv, act_200ok_refwdto_a, act_terminate_sv,
        IgnoreAlarm,
        overallVars
  <2>3. CASE HandleTimerA
    BY <2>3 DEF HandleTimerA, IgnoreAlarm, overallVars
  <2>4. ASSUME NEW b \in Byes, HandleByeTimer(b)
        PROVE  /\ OverallState_SV' \in {OverallState_SV, "TERMINATED"}
               /\ OverallState_CL' \in {OverallState_CL, "TERMINATED"}
    BY <2>4 DEF HandleByeTimer, act_bye_resend, act_terminate_cl, IgnoreAlarm, overallVars
  <2> QED BY <2>1, <2>2, <2>3, <2>4 DEF HandleAlarm
<1> QED BY <1>1, <1>2, Ranks DEF Forward, OverallStates

LEMMA NextForward == IInv /\ [Next]_vars => Forward
<1> SUFFICES ASSUME IInv, [Next]_vars PROVE Forward
  OBVIOUS
<1>0. OverallState_SV \in OverallStates /\ OverallState_CL \in OverallStates
  BY DEF IInv, TypeOK
<1> USE Ranks DEF Forward, OverallStates
<1>1. CASE InviteFromA
  BY <1>0, <1>1 DEF InviteFromA, act_invite_to_alo, act_invite_to_b, act_send_servunav_to_a,
      act_200ok_resendto_a, overallVars, IInv, CallStates, ServerStates, ClientStates
<1>2. CASE ReplyFromB
  BY <1>0, <1>2 DEF ReplyFromB, act_clear_invite_alarm, act_provrep_to_sv,
      act_provreply_to_a,
      act_200ok_inv_to_alo, act_200ok_fwdto_a, act_resend_ack, overallVars, IInv,
      ServerStates, ClientStates
<1>3. CASE AckFromA
  <2>1. PICK k \in AckBranches : act_ack_to_alo(k)
    BY <1>3 DEF AckFromA
  <2>2. OverallState_SV = "COMPLETED" => OverallState_CL = "PROCEEDING"
    BY DEF IInv, TypeOK, ServerStates, ClientStates, CallStates, AnswerStates, AckStates,
        ByeStates, ByeSeen
  <2> QED BY <2>1, <2>2 DEF act_ack_to_alo, act_ack_to_b
<1>4. CASE ByeFromA \/ ByeFromB
  BY <1>0, <1>4 DEF ByeFromA, ByeFromB, act_bye_to_alo, onBye
<1>5. CASE ByeReply
  BY <1>0, <1>5 DEF ByeReply, act_200ok_bye_to_alo
<1>6. CASE \E a \in Alarms : Fire(a) \/ HandleAlarm(a)
  <2>1. ASSUME NEW a \in Alarms, Fire(a) PROVE Forward
    BY <1>0, <2>1 DEF Fire, overallVars
  <2> QED BY <1>6, <2>1, AlarmForward
<1>7. CASE Purge
  BY <1>0, <1>7 DEF Purge, overallVars
<1>8. CASE UNCHANGED vars
  BY <1>0, <1>8 DEF vars, overallVars
<1> QED BY <1>1, <1>2, <1>3, <1>4, <1>5, <1>6, <1>7, <1>8 DEF Next, Step

\* The overall state of neither side ever goes back.
THEOREM OnlyForward == Spec => StatesNeverGoBack
<1>1. IInv /\ [Next]_vars => [Forward]_overallVars
  BY NextForward
<1> QED BY <1>1, Invariant, PTL DEF Spec, StatesNeverGoBack, Forward

-----------------------------------------------------------------------------
(* The refinement of BackToBack.                                           *)

LEMMA LegsAre ==
    /\ LegA("INIT") = "none" /\ LegA("PROCEEDING") = "early"
    /\ LegA("COMPLETED") = "answered" /\ LegA("CONFIRMED") = "confirmed"
    /\ LegA("TERMINATED") = "over"
    /\ \A invite : /\ LegB("INIT", invite) = "none" /\ LegB("CALLING", invite) = "early"
                   /\ LegB("COMPLETED", invite) = "confirmed"
                   /\ LegB("TERMINATED", invite) = "over"
    /\ LegB("PROCEEDING", 4) = "answered"
    /\ \A invite : invite # 4 => LegB("PROCEEDING", invite) = "early"
  BY DEF LegA, LegB

\* What the invariant says of the legs, by the states of the machines.
LEMMA LegsByState ==
    ASSUME IInv
    PROVE  /\ inviteSV = 0 => OverallState_SV = "INIT" /\ OverallState_CL = "INIT"
           /\ inviteSV \in {1, 2} => LegA(OverallState_SV) = "early"
           /\ inviteCL \in {1, 2, 3} => LegB(OverallState_CL, inviteCL) = "early"
           /\ inviteCL \in {1, 2, 3} /\ call # "none" /\ inviteSV \notin {1, 2} =>
                LegA(OverallState_SV) = "over"
<1> USE DEF IInv, TypeOK
<1>1. inviteSV = 0 => OverallState_SV = "INIT" /\ OverallState_CL = "INIT"
  BY DEF ServerStates, ClientStates, CallStates
<1>2. inviteSV \in {1, 2} => LegA(OverallState_SV) = "early"
  BY LegsAre DEF ServerStates
<1>3. inviteCL \in {1, 2, 3} => LegB(OverallState_CL, inviteCL) = "early"
  BY LegsAre DEF ClientStates
<1>4. inviteCL \in {1, 2, 3} /\ call # "none" /\ inviteSV \notin {1, 2} =>
        OverallState_SV = "TERMINATED"
  BY DEF ServerStates, AnswerStates, CallStates
<1> QED BY <1>1, <1>2, <1>3, <1>4, LegsAre

LEMMA LiveIsFound == Found => Relay!Live
  BY DEF Found, Relay!Live

\* A step that leaves these alone is a stutter of the relay.
LEMMA Stutter ==
    ASSUME UNCHANGED <<OverallState_SV, OverallState_CL, inviteCL, byeSV, toA, toB, call>>
    PROVE  UNCHANGED Relay!vars
  BY DEF Relay!vars, HungUp

LEMMA SeenIsHungUp == ASSUME IInv PROVE ByeSeen <=> HungUp # {}
  BY DEF IInv, TypeOK, ByeSeen, HungUp

(* The INVITE.                                                             *)

LEMMA InviteIsInvite ==
    ASSUME IInv, act_invite_to_alo PROVE Relay!Invite
<1>1. /\ call = "none" /\ call' = "active"
      /\ OverallState_SV' = "PROCEEDING" /\ OverallState_CL' = "CALLING"
      /\ toA' = toA \cup {Msg("100", "INVITE_A")}
      /\ toB' = toB \cup {Msg("INVITE", "INVITE_B")}
      /\ byeSV' = byeSV
  BY DEF act_invite_to_alo, act_invite_to_b, byeVars
<1>2. LegA(OverallState_SV') = "early" /\ LegB(OverallState_CL', inviteCL') = "early"
  BY <1>1, LegsAre
<1>3. HungUp' = HungUp
  BY <1>1 DEF HungUp
<1> QED BY <1>1, <1>2, <1>3 DEF Relay!Invite, Relay!Msg, Msg

LEMMA ServUnavIsReject ==
    ASSUME IInv, act_send_servunav_to_a PROVE Relay!Reject
<1>1. /\ Found /\ inviteSV \in {1, 2} /\ call' = "requested"
      /\ OverallState_SV' = "TERMINATED"
      /\ toA' = toA \cup {Msg("503", "INVITE_A")}
      /\ UNCHANGED <<OverallState_CL, inviteCL, byeSV, toB>>
  BY DEF act_send_servunav_to_a, KillDoa, byeVars
<1>2. LegA(OverallState_SV) = "early" /\ LegA(OverallState_SV') = "over"
  BY <1>1, LegsAre, LegsByState
<1>3. HungUp' = HungUp
  BY <1>1 DEF HungUp
<1> QED BY <1>1, <1>2, <1>3, LiveIsFound DEF Relay!Reject, Relay!Msg, Msg

\* Every repeated 200 OK was sent to A before.
LEMMA ResendIsStutter ==
    ASSUME IInv, act_200ok_resendto_a PROVE UNCHANGED Relay!vars
<1>1. /\ inviteSV = 3 /\ toA' = toA \cup {Msg("200", "INVITE_A")}
      /\ UNCHANGED <<OverallState_SV, OverallState_CL, inviteCL, byeSV, toB, call>>
  BY DEF act_200ok_resendto_a, overallVars, inviteVars, byeVars
<1>2. Msg("200", "INVITE_A") \in toA
  BY <1>1 DEF IInv, AnswerStates
<1> QED BY <1>1, <1>2, Stutter

(* The replies to it.                                                      *)

LEMMA TryIsStutter ==
    ASSUME IInv, act_clear_invite_alarm PROVE UNCHANGED Relay!vars
<1>1. /\ inviteCL = 1 /\ inviteCL' = 2 /\ OverallState_CL' = "PROCEEDING"
      /\ UNCHANGED <<OverallState_SV, byeSV, toA, toB, call>>
  BY DEF act_clear_invite_alarm, byeVars, netVars
<1>2. LegB(OverallState_CL', inviteCL') = LegB(OverallState_CL, inviteCL)
  BY <1>1, LegsAre, LegsByState
<1>3. HungUp' = HungUp
  BY <1>1 DEF HungUp
<1> QED BY <1>1, <1>2, <1>3 DEF Relay!vars

LEMMA ProvisionalIsRing ==
    ASSUME IInv, act_provrep_to_sv PROVE Relay!Ring \/ UNCHANGED Relay!vars
<1>1. /\ Found /\ inviteCL \in {1, 2} /\ inviteCL' = 3 /\ OverallState_CL' = "PROCEEDING"
      /\ act_provreply_to_a
      /\ UNCHANGED <<byeSV, toB, call>>
  BY DEF act_provrep_to_sv, byeVars
<1>2. LegB(OverallState_CL, inviteCL) = "early" /\ LegB(OverallState_CL', inviteCL') = "early"
  BY <1>1, LegsAre, LegsByState
<1>3. HungUp' = HungUp
  BY <1>1 DEF HungUp
<1>4. CASE inviteSV = 1
  <2>1. OverallState_SV' = "PROCEEDING" /\ toA' = toA \cup {Msg("180", "INVITE_A")}
    BY <1>1, <1>4 DEF act_provreply_to_a
  <2>2. LegA(OverallState_SV) = "early" /\ LegA(OverallState_SV') = "early"
    BY <1>4, <2>1, LegsAre, LegsByState
  <2> QED BY <1>1, <1>2, <1>3, <2>1, <2>2, LiveIsFound DEF Relay!Ring, Relay!Msg, Msg
<1>5. CASE inviteSV # 1
  <2>1. UNCHANGED <<OverallState_SV, toA>>
    BY <1>1, <1>5 DEF act_provreply_to_a
  <2> QED BY <1>1, <1>2, <1>3, <2>1 DEF Relay!vars
<1> QED BY <1>4, <1>5

LEMMA OkIsAnswer ==
    ASSUME IInv, act_200ok_inv_to_alo PROVE Relay!Answer \/ Relay!LateAnswer
<1>1. /\ Found /\ inviteCL \in {1, 2, 3} /\ inviteCL' = 4 /\ OverallState_CL' = "PROCEEDING"
      /\ act_200ok_fwdto_a
      /\ UNCHANGED <<byeSV, toB, call>>
  BY DEF act_200ok_inv_to_alo, byeVars
<1>2. LegB(OverallState_CL, inviteCL) = "early"
  BY <1>1, LegsByState
<1>3. LegB(OverallState_CL', inviteCL') = "answered"
  BY <1>1, LegsAre
<1>4. HungUp' = HungUp
  BY <1>1 DEF HungUp
<1>5. CASE inviteSV \in {1, 2}
  <2>1. OverallState_SV' = "COMPLETED" /\ toA' = toA \cup {Msg("200", "INVITE_A")}
    BY <1>1, <1>5 DEF act_200ok_fwdto_a
  <2>2. LegA(OverallState_SV) = "early" /\ LegA(OverallState_SV') = "answered"
    BY <1>5, <2>1, LegsAre, LegsByState
  <2> QED BY <1>1, <1>2, <1>3, <1>4, <2>1, <2>2, LiveIsFound
          DEF Relay!Answer, Relay!Msg, Msg
<1>6. CASE inviteSV \notin {1, 2}
  <2>1. UNCHANGED <<OverallState_SV, toA>>
    BY <1>1, <1>6 DEF act_200ok_fwdto_a
  <2>2. LegA(OverallState_SV) = "over"
    BY <1>1, <1>6, LegsByState DEF Found
  <2> QED BY <1>1, <1>2, <1>3, <1>4, <2>1, <2>2, LiveIsFound DEF Relay!LateAnswer
<1> QED BY <1>5, <1>6

LEMMA ResendAckIsStutter ==
    ASSUME IInv, act_resend_ack PROVE UNCHANGED Relay!vars
<1>1. /\ toB' = IF ackCL = 0 THEN toB ELSE toB \cup {Msg("ACK", "INVITE_B")}
      /\ UNCHANGED <<OverallState_SV, OverallState_CL, inviteCL, byeSV, toA, call>>
  BY DEF act_resend_ack, overallVars, inviteVars, byeVars
<1>2. ackCL # 0 => Msg("ACK", "INVITE_B") \in toB
  BY DEF IInv, TypeOK, AckStates
<1> QED BY <1>1, <1>2, Stutter

(* The ACK and the BYEs.                                                   *)

LEMMA AckIsConfirm ==
    ASSUME IInv, NEW k \in AckBranches, act_ack_to_alo(k) PROVE Relay!Confirm
<1>1. /\ Found /\ OverallState_SV = "COMPLETED" /\ OverallState_SV' = "CONFIRMED"
      /\ OverallState_CL' = "COMPLETED"
      /\ toB' = toB \cup {Msg("ACK", "INVITE_B")}
      /\ UNCHANGED <<byeSV, toA, call>>
  BY DEF act_ack_to_alo, act_ack_to_b, byeVars
<1>2. OverallState_CL = "PROCEEDING" /\ inviteCL = 4
  BY <1>1 DEF IInv, TypeOK, ServerStates, ClientStates, AnswerStates, AckStates, ByeStates,
              ByeSeen
<1>3. /\ LegA(OverallState_SV) = "answered" /\ LegA(OverallState_SV') = "confirmed"
      /\ LegB(OverallState_CL, inviteCL) = "answered"
      /\ LegB(OverallState_CL', inviteCL') = "confirmed"
  BY <1>1, <1>2, LegsAre
<1>4. HungUp' = HungUp
  BY <1>1 DEF HungUp
<1> QED BY <1>1, <1>3, <1>4, LiveIsFound DEF Relay!Confirm, Relay!Msg, Msg

LEMMA ByeIsHangUp ==
    ASSUME IInv, NEW b \in Byes, act_bye_to_alo(b) PROVE Relay!HangUp(b)
<1>1. /\ Found /\ byeSV[b] = 0 /\ ByeAccepted(b)
      /\ byeSV' = [byeSV EXCEPT ![b] = 2] /\ OverallState_SV' = "TERMINATED"
      /\ onBye(b)
      /\ UNCHANGED <<OverallState_CL, inviteCL, call>>
  BY DEF act_bye_to_alo, inviteVars
<1>2. b \notin HungUp
  BY <1>1 DEF HungUp
<1>3. HungUp' = HungUp \cup {b}
  BY <1>1 DEF IInv, TypeOK, HungUp
<1>4. LegA(OverallState_SV') = "over"
  BY <1>1, LegsAre
<1>5. CASE b \in ByesOfA
  <2>1. OverallState_SV = "CONFIRMED"
    BY <1>1, <1>5, Constants DEF ByeAccepted
  <2>2. toA' = toA \cup {Msg("200", b)} /\ toB' = toB \cup {Msg("BYE", b)}
    BY <1>1, <1>5 DEF onBye
  <2>3. Relay!HangUpA(b)
    BY <2>1, <2>2, LegsAre DEF Relay!HangUpA, Relay!Msg, Msg
  <2> QED BY <1>1, <1>2, <1>3, <1>4, <1>5, <2>3, LiveIsFound DEF Relay!HangUp
<1>6. CASE b \in ByesOfB
  <2>1. OverallState_CL = "COMPLETED"
    BY <1>1, <1>6, Constants DEF ByeAccepted
  <2>2. toB' = toB \cup {Msg("200", b)} /\ toA' = toA \cup {Msg("BYE", b)}
    BY <1>1, <1>6, Constants DEF onBye
  <2>3. Relay!HangUpB(b)
    BY <2>1, <2>2, LegsAre DEF Relay!HangUpB, Relay!Msg, Msg
  <2> QED BY <1>1, <1>2, <1>3, <1>4, <1>6, <2>3, LiveIsFound DEF Relay!HangUp
<1> QED BY <1>5, <1>6, Constants

\* The two ways a relayed BYE ends, and what they change of the relay.
LEMMA EndOfByeIsRelease ==
    ASSUME IInv, NEW b \in Byes, Found, byeCL[b] # 0,
           OverallState_CL' = "TERMINATED", call' = "requested",
           UNCHANGED <<OverallState_SV, byeSV, toA, toB>>
    PROVE  Relay!Release
<1>1. byeSV[b] # 0
  BY DEF IInv, ByeStates
<1>2. HungUp # {} /\ HungUp' = HungUp
  BY <1>1 DEF HungUp
<1>3. LegB(OverallState_CL', inviteCL') = "over"
  BY LegsAre
<1> QED BY <1>2, <1>3, LiveIsFound DEF Relay!Release

LEMMA ByeOkIsRelease ==
    ASSUME IInv, NEW b \in Byes, act_200ok_bye_to_alo(b) PROVE Relay!Release
<1>1. /\ Found /\ byeCL[b] # 0
      /\ OverallState_CL' = "TERMINATED" /\ call' = "requested"
      /\ UNCHANGED <<OverallState_SV, byeSV, toA, toB>>
  BY DEF act_200ok_bye_to_alo, KillDoa, netVars
<1> QED BY <1>1, EndOfByeIsRelease

(* The alarms.                                                             *)

LEMMA IgnoreIsStutter ==
    ASSUME NEW a, IgnoreAlarm(a) PROVE UNCHANGED Relay!vars
<1>1. UNCHANGED <<OverallState_SV, OverallState_CL, inviteCL, byeSV, toA, toB, call>>
  BY DEF IgnoreAlarm, overallVars, inviteVars, byeVars, netVars
<1> QED BY <1>1, Stutter

\* TIMER_S, and TIMER_G when the resends are used up.
LEMMA TimeoutIsGiveUpA ==
    ASSUME IInv, Found, inviteSV \in {1, 2, 3}, OverallState_SV # "CONFIRMED",
           OverallState_SV' = "TERMINATED", call' = "requested",
           UNCHANGED <<OverallState_CL, inviteCL, byeSV, toA, toB>>
    PROVE  Relay!GiveUpA
<1>1. OverallState_SV \in {"PROCEEDING", "COMPLETED"} \/ HungUp # {}
  BY SeenIsHungUp DEF IInv, ServerStates
<1>2. LegA(OverallState_SV) \in {"early", "answered"} \/ HungUp # {}
  BY <1>1, LegsAre
<1>3. LegA(OverallState_SV') = "over" /\ HungUp' = HungUp
  BY LegsAre DEF HungUp
<1> QED BY <1>2, <1>3, LiveIsFound DEF Relay!GiveUpA

LEMMA TimerSRefines ==
    ASSUME IInv, HandleTimerS PROVE Relay!GiveUpA \/ UNCHANGED Relay!vars
<1>1. CASE Found /\ inviteSV \in {1, 2, 3} /\ OverallState_SV # "CONFIRMED"
  <2>1. /\ OverallState_SV' = "TERMINATED" /\ call' = "requested"
        /\ UNCHANGED <<OverallState_CL, inviteCL, byeSV, toA, toB>>
    BY <1>1 DEF HandleTimerS, act_timer_s_sv, KillDoa, byeVars, netVars
  <2> QED BY <1>1, <2>1, TimeoutIsGiveUpA
<1>2. CASE ~(Found /\ inviteSV \in {1, 2, 3} /\ OverallState_SV # "CONFIRMED")
  BY <1>2, IgnoreIsStutter DEF HandleTimerS
<1> QED BY <1>1, <1>2

LEMMA TimerGRefines ==
    ASSUME IInv, HandleTimerG PROVE Relay!GiveUpA \/ UNCHANGED Relay!vars
<1>1. CASE ~Found \/ inviteSV # 3
  BY <1>1, IgnoreIsStutter DEF HandleTimerG
<1>2. CASE Found /\ inviteSV = 3
  <2>1. CASE act_null_sv
    <3>1. UNCHANGED <<OverallState_SV, OverallState_CL, inviteCL, byeSV, toA, toB, call>>
      BY <2>1 DEF act_null_sv, overallVars, inviteVars, byeVars, netVars
    <3> QED BY <3>1, Stutter
  <2>2. CASE act_200ok_refwdto_a
    <3>1. /\ toA' = toA \cup {Msg("200", "INVITE_A")}
          /\ UNCHANGED <<OverallState_SV, OverallState_CL, inviteCL, byeSV, toB, call>>
      BY <2>2 DEF act_200ok_refwdto_a, overallVars, byeVars
    <3>2. Msg("200", "INVITE_A") \in toA
      BY <1>2 DEF IInv, AnswerStates
    <3> QED BY <3>1, <3>2, Stutter
  <2>3. CASE OverallState_SV # "CONFIRMED" /\ act_terminate_sv
    <3>1. /\ OverallState_SV' = "TERMINATED" /\ call' = "requested"
          /\ UNCHANGED <<OverallState_CL, inviteCL, byeSV, toA, toB>>
      BY <2>3 DEF act_terminate_sv, KillDoa, byeVars, netVars
    <3> QED BY <1>2, <2>3, <3>1, TimeoutIsGiveUpA
  <2> QED BY <1>2, <2>1, <2>2, <2>3 DEF HandleTimerG
<1> QED BY <1>1, <1>2

LEMMA TimerARefines ==
    ASSUME IInv, HandleTimerA PROVE Relay!GiveUpB \/ UNCHANGED Relay!vars
<1>1. CASE Found /\ inviteCL = 1 /\ resend_invite >= MaxResend
  <2>1. /\ OverallState_CL' = "TERMINATED" /\ call' = "requested"
        /\ UNCHANGED <<OverallState_SV, byeSV, toA, toB>>
    BY <1>1 DEF HandleTimerA, KillDoa, byeVars, netVars
  <2>2. LegB(OverallState_CL, inviteCL) = "early"
    BY <1>1, LegsByState
  <2>3. LegB(OverallState_CL', inviteCL') = "over" /\ HungUp' = HungUp
    BY <2>1, LegsAre DEF HungUp
  <2> QED BY <1>1, <2>1, <2>2, <2>3, LiveIsFound DEF Relay!GiveUpB
<1>2. CASE ~(Found /\ inviteCL = 1 /\ resend_invite >= MaxResend)
  BY <1>2, IgnoreIsStutter DEF HandleTimerA
<1> QED BY <1>1, <1>2

LEMMA ByeTimerRefines ==
    ASSUME IInv, NEW b \in Byes, HandleByeTimer(b)
    PROVE  Relay!Release \/ UNCHANGED Relay!vars
<1>1. CASE IgnoreAlarm(ByeTimer(b))
  BY <1>1, IgnoreIsStutter
<1>2. CASE act_bye_resend(b)
  <2>1. UNCHANGED <<OverallState_SV, OverallState_CL, inviteCL, byeSV, toA, toB, call>>
    BY <1>2 DEF act_bye_resend, overallVars, inviteVars, netVars
  <2> QED BY <2>1, Stutter
<1>3. CASE Found /\ byeCL[b] = 1 /\ act_terminate_cl(b)
  <2>1. /\ OverallState_CL' = "TERMINATED" /\ call' = "requested"
        /\ UNCHANGED <<OverallState_SV, byeSV, toA, toB>>
    BY <1>3 DEF act_terminate_cl, KillDoa, netVars
  <2> QED BY <1>3, <2>1, EndOfByeIsRelease
<1> QED BY <1>1, <1>2, <1>3 DEF HandleByeTimer

\* The eight state machines, the alarms that fire early or late, the resends and
\* the messages that come twice or in another order are, together, the relay of
\* two legs of BackToBack.
THEOREM Refinement == Spec => ImplementsBackToBack
<1>1. Init => Relay!Init
  <2> SUFFICES ASSUME Init PROVE Relay!Init
    OBVIOUS
  <2>1. HungUp = {}
    BY DEF Init, HungUp
  <2> QED BY <2>1, LegsAre DEF Init, Relay!Init
<1>2. IInv /\ [Next]_vars => [Relay!Next]_Relay!vars
  <2> SUFFICES ASSUME IInv, [Next]_vars PROVE Relay!Next \/ UNCHANGED Relay!vars
    OBVIOUS
  <2>1. CASE InviteFromA
    BY <2>1, InviteIsInvite, ServUnavIsReject, ResendIsStutter DEF InviteFromA, Relay!Next
  <2>2. CASE ReplyFromB
    BY <2>2, TryIsStutter, ProvisionalIsRing, OkIsAnswer, ResendAckIsStutter
       DEF ReplyFromB, Relay!Next
  <2>3. CASE AckFromA
    BY <2>3, AckIsConfirm DEF AckFromA, Relay!Next
  <2>4. CASE ByeFromA \/ ByeFromB
    <3>1. PICK b \in Byes : act_bye_to_alo(b)
      BY <2>4 DEF ByeFromA, ByeFromB, Byes
    <3> QED BY <3>1, ByeIsHangUp DEF Relay!Next, Byes
  <2>5. CASE ByeReply
    BY <2>5, ByeOkIsRelease DEF ByeReply, Relay!Next
  <2>6. ASSUME NEW a \in Alarms, Fire(a) PROVE UNCHANGED Relay!vars
    <3>1. UNCHANGED <<OverallState_SV, OverallState_CL, inviteCL, byeSV, toA, toB, call>>
      BY <2>6 DEF Fire, overallVars, inviteVars, byeVars, netVars
    <3> QED BY <3>1, Stutter
  <2>7. ASSUME NEW a \in Alarms, HandleAlarm(a)
        PROVE  Relay!Next \/ UNCHANGED Relay!vars
    <3>1. HandleTimerS \/ HandleTimerG \/ HandleTimerA \/ \E b \in Byes : HandleByeTimer(b)
      BY <2>7 DEF HandleAlarm
    <3> QED BY <3>1, TimerSRefines, TimerGRefines, TimerARefines, ByeTimerRefines
            DEF Relay!Next
  <2>8. CASE Purge
    <3>1. /\ call = "requested" /\ call' = "deleted"
          /\ UNCHANGED <<OverallState_SV, OverallState_CL, inviteCL, byeSV, toA, toB>>
      BY <2>8 DEF Purge, overallVars, inviteVars, byeVars, netVars
    <3>2. HungUp' = HungUp
      BY <3>1 DEF HungUp
    <3> QED BY <3>1, <3>2 DEF Relay!Delete, Relay!Next
  <2>9. CASE UNCHANGED vars
    <3>1. UNCHANGED <<OverallState_SV, OverallState_CL, inviteCL, byeSV, toA, toB, call>>
      BY <2>9 DEF vars, overallVars, inviteVars, byeVars, netVars
    <3> QED BY <3>1, Stutter
  <2> QED BY <2>1, <2>2, <2>3, <2>4, <2>5, <2>6, <2>7, <2>8, <2>9 DEF Next, Step
<1> QED BY <1>1, <1>2, Invariant, PTL DEF Spec, ImplementsBackToBack, Relay!Spec
=============================================================================
