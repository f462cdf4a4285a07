------------------------------- MODULE Server -------------------------------
(***************************************************************************)
(* The life of the MESSAGE objects: who may still use one, and who deletes *)
(* it (MESSAGE.cpp, CALL_OSET.cpp, SIPENGINE.cpp, SL_CC.cpp, TRNSPRT.cpp,  *)
(* SUDP.cpp, DAO.cpp).  SUDP::listen makes a message for what the network  *)
(* sends; it goes through the queues of SIPENGINE and SL_CC to the state   *)
(* machines of its call.  What they keep they lock: it is in the table     *)
(* lockedMessages of the call and is purged with the call.  What they send *)
(* goes through the queue of TRNSPRT, locked or not; SUDP purges it after  *)
(* sendto when it is not locked.                                           *)
(*                                                                         *)
(* A message is its number, in the order of creation.  A copy that a       *)
(* handler makes and purges itself (the copy for VALO, a KILLDOA) has      *)
(* none; alarms and their messages are in Almgr.  The states of the        *)
(* machines appear as far as they decide what is kept and sent; SlCo has   *)
(* them all.  One queue per stage: that of the bucket of these calls.      *)
(***************************************************************************)
EXTENDS Naturals, Sequences, FiniteSets

CONSTANTS
    Calls,          \* Call-IDs
    TIMER_DOA,      \* in ticks
    MaxIncoming,    \* bound: messages of the network and of ALMGR
    MaxBacklog,     \* bound: those that wait for SIPENGINE, SL_CC and DAO
    MaxOther        \* bound: messages of no call are among the first MaxOther

ASSUME ServerAssumption ==
    /\ TIMER_DOA \in Nat \ {0}
    /\ {MaxIncoming, MaxBacklog, MaxOther} \subseteq Nat

VARIABLES
    mess,           \* the messages made so far: [kind, call, side, of]
    queue,          \* the queues of the engines
    hand,           \* what the thread of TRNSPRT is sending, 0: nothing
    slow,           \* sends that were due already when the clock last ticked
    todo,           \* what the thread of SL_CC has still to do with its message
    object,         \* the CALL_OSET of a Call-ID, and its DOA state
    idle,           \* ticks since the deletion was requested
    role,           \* the pointers to messages a call keeps
    closed,         \* INVITE_SV has given up: State 5 or 99
    over,           \* OverallState_CL is OS_TERMINATED
    lockedMessages, \* per call
    purged,         \* the messages that were deleted
    incoming        \* messages of the network and of ALMGR so far

calls == <<object, idle, role, closed, over>>
transport == <<hand, slow>>
vars == <<mess, queue, transport, todo, calls, lockedMessages, purged, incoming>>

Stages == {"SIPENGINE", "SL_CC", "DAO", "TRNSPRT"}
Sides == {"A", "B"}

\* Pointers: Matrix of a state machine, STOREMESS_1_x, ACKTOB, STORED_MESSAGE.
BYE_SV == [A |-> "BYE_SV_A", B |-> "BYE_SV_B"]
BYE_CL == [A |-> "BYE_CL_A", B |-> "BYE_CL_B"]
STORED_MESSAGE == [A |-> "STORED_MESSAGE_A", B |-> "STORED_MESSAGE_B"]
Roles == {"INVITE_SV", "STOREMESS_1_1", "STOREMESS_1_2", "STOREMESS_1_3", "INVITE_CL",
          "ACK_SV", "ACK_CL", "ACKTOB"}
         \cup {BYE_SV[s] : s \in Sides} \cup {BYE_CL[s] : s \in Sides}
         \cup {STORED_MESSAGE[s] : s \in Sides}
Nothing == [r \in {} |-> 0]
Has(c, r) == r \in DOMAIN role[c]

Init ==
    /\ mess = <<>> /\ queue = [st \in Stages |-> <<>>]
    /\ hand = 0 /\ slow = 0 /\ todo = <<>>
    /\ object = [c \in Calls |-> "none"] /\ idle = [c \in Calls |-> 0]
    /\ role = [c \in Calls |-> Nothing]
    /\ closed = [c \in Calls |-> FALSE] /\ over = [c \in Calls |-> FALSE]
    /\ lockedMessages = [c \in Calls |-> {}]
    /\ purged = {} /\ incoming = 0

Put(m, st) == [queue EXCEPT ![st] = Append(@, m)]
Move(m, from, to) == [queue EXCEPT ![from] = Tail(@), ![to] = Append(@, m)]
IsLocked(m) == \E c \in Calls : m \in lockedMessages[c]

---------------------------------------------------------------------------
(* The network and ALMGR.  A user agent repeats what it likes; it answers, *)
(* acknowledges and hangs up only what the server has sent it.             *)

Backlog == Len(queue["SIPENGINE"]) + Len(queue["SL_CC"]) + Len(queue["DAO"])

Arrive(kind, c, s, of, st) ==
    /\ incoming < MaxIncoming /\ Backlog < MaxBacklog
    /\ incoming' = incoming + 1
    /\ mess' = Append(mess, [kind |-> kind, call |-> c, side |-> s, of |-> of])
    /\ queue' = Put(Len(mess) + 1, st)
    /\ UNCHANGED <<transport, todo, calls, lockedMessages, purged>>

\* Messages of this kind that went out and were not locked.
Out(kind, c) == {m \in purged : mess[m].kind = kind /\ mess[m].call = c}

Others == {"REGISTER", "PD-SIPSL", "OPTIONS"}

listen(c) ==
    \/ Arrive("INVITE", c, "A", 0, "SIPENGINE")
    \/ /\ incoming < MaxOther
       /\ \E kind \in Others : Arrive(kind, c, "A", 0, "SIPENGINE")
    \/ \E kind \in {"180", "200"}, m \in Out("INVITE to B", c) :
           Arrive(kind, c, "B", mess[m].of, "SIPENGINE")
    \/ \E kind \in {"ACK", "BYE"} :
           Out("200 to A", c) # {} /\ Arrive(kind, c, "A", 0, "SIPENGINE")
    \/ Out("INVITE to B", c) # {} /\ Arrive("BYE", c, "B", 0, "SIPENGINE")
    \/ \E m \in Out("BYE relayed", c) :
           Arrive("200 to BYE", c, mess[m].side, mess[m].of, "SIPENGINE")

\* ALMGR hands the message of an alarm to SL_CC, perhaps late.
alarm(c) ==
    \/ Has(c, "INVITE_SV") /\ Arrive("TIMER_S", c, "A", 0, "SL_CC")
    \/ Has(c, "STOREMESS_1_3") /\ Arrive("TIMER_G", c, "A", 0, "SL_CC")
    \/ \E s \in Sides : Has(c, BYE_CL[s]) /\ Arrive("TIMER_A", c, s, 0, "SL_CC")

---------------------------------------------------------------------------
(* SIPENGINE::parse and DAO::parse                                         *)

ParseSipengine ==
    /\ queue["SIPENGINE"] # <<>>
    /\ LET m == Head(queue["SIPENGINE"]) IN
           CASE mess[m].kind = "OPTIONS" ->
                    /\ purged' = purged \cup {m}
                    /\ queue' = [queue EXCEPT !["SIPENGINE"] = Tail(@)]
             [] mess[m].kind = "PD-SIPSL" ->
                    queue' = Move(m, "SIPENGINE", "DAO") /\ UNCHANGED purged
             [] OTHER ->
                    queue' = Move(m, "SIPENGINE", "SL_CC") /\ UNCHANGED purged
    /\ UNCHANGED <<mess, transport, todo, calls, lockedMessages, incoming>>

ParseDao ==
    /\ queue["DAO"] # <<>>
    /\ purged' = purged \cup {Head(queue["DAO"])}
    /\ queue' = [queue EXCEPT !["DAO"] = Tail(@)]
    /\ UNCHANGED <<mess, transport, todo, calls, lockedMessages, incoming>>

---------------------------------------------------------------------------
(* The thread of SL_CC does one thing after another, while the threads of  *)
(* TRNSPRT and DOA run; it has the mutex of the call meanwhile.            *)

Lock(m) == [op |-> "lock", on |-> m]
Send(m) == [op |-> "send", on |-> m]
End(m) == [op |-> "end", on |-> m]          \* PURGEMESSAGE, if not locked
Request(m) == [op |-> "request", on |-> m]  \* for the call of m, m is not used

Purge(m) == purged' = IF IsLocked(m) THEN purged ELSE purged \cup {m}

\* Mutant of setDoaRequested: the call is marked as deleted already.
setDoaRequested_Deleted(c) ==
    /\ object' = [object EXCEPT ![c] = "deleted"]
    /\ idle' = [idle EXCEPT ![c] = 0]

setDoaRequested(c) ==
    /\ object' = [object EXCEPT ![c] = "requested"]
    /\ idle' = [idle EXCEPT ![c] = 0]

Work ==
    /\ todo # <<>>
    /\ todo' = Tail(todo)
    /\ LET m == Head(todo).on
           c == mess[m].call IN
           CASE Head(todo).op = "lock" ->
                    /\ lockedMessages' = [lockedMessages EXCEPT ![c] = @ \cup {m}]
                    /\ UNCHANGED <<queue, purged, object, idle>>
             [] Head(todo).op = "send" ->
                    /\ queue' = Put(m, "TRNSPRT")
                    /\ UNCHANGED <<lockedMessages, purged, object, idle>>
             [] Head(todo).op = "end" ->
                    /\ Purge(m)
                    /\ UNCHANGED <<queue, lockedMessages, object, idle>>
             [] Head(todo).op = "request" ->
                    /\ setDoaRequested(c)
                    /\ UNCHANGED <<queue, lockedMessages, purged>>
    /\ UNCHANGED <<mess, transport, role, closed, over, incoming>>

\* SL_CC takes m: the handler makes the messages news, keeps the pointers
\* kept, and has ops to do.
Take(m, news, kept, ops) ==
    LET c == mess[m].call IN
    /\ queue' = [queue EXCEPT !["SL_CC"] = Tail(@)]
    /\ mess' = mess \o news
    /\ role' = [role EXCEPT ![c] = [r \in DOMAIN kept \cup DOMAIN @ |->
                                        IF r \in DOMAIN kept THEN kept[r] ELSE @[r]]]
    /\ todo' = ops
    /\ UNCHANGED <<transport, lockedMessages, purged, incoming>>

New(i) == Len(mess) + i
Made(kind, m, s, of) == [kind |-> kind, call |-> mess[m].call, side |-> s, of |-> of]
Copy(m) == Made("copy", m, mess[m].side, 0)
Keeping(r, m) == [x \in {r} |-> m]

Ignore(m) == Take(m, <<>>, Nothing, <<End(m)>>) /\ UNCHANGED <<closed, over>>
SendOnly(m, x) == Take(m, <<>>, Nothing, <<Send(x), End(m)>>) /\ UNCHANGED <<closed, over>>
SendNew(m, x) == Take(m, <<x>>, Nothing, <<Send(New(1)), End(m)>>) /\ UNCHANGED <<closed, over>>

---------------------------------------------------------------------------
(* SL_CC::parse when no call has this Call-ID                              *)

\* The quick 100 goes out before the call exists; the 100 that INVITE_SV
\* makes is kept and not sent.
NewCall(m, c) ==
    /\ object' = [object EXCEPT ![c] = "live"]
    /\ Take(m, <<Copy(m), Copy(m), Copy(m), Made("INVITE to B", m, "A", New(3))>>,
            [r \in {"INVITE_SV", "STOREMESS_1_1", "INVITE_CL"} |->
                 CASE r = "INVITE_SV" -> m
                   [] r = "STOREMESS_1_1" -> New(2)
                   [] r = "INVITE_CL" -> New(3)],
            <<Send(New(1)), Lock(m), Lock(New(2)), Lock(New(3)), Send(New(4)), End(m)>>)
    /\ UNCHANGED <<idle, closed, over>>

\* OKregister is sent; nothing purges the REGISTER.
Register(m, c) ==
    /\ Take(m, <<Copy(m)>>, Nothing, <<Send(New(1))>>)
    /\ UNCHANGED calls

NoCall(m, c) ==
    /\ object[c] = "none"
    /\ IF mess[m].kind = "INVITE" THEN NewCall(m, c)
       ELSE Ignore(m) /\ UNCHANGED <<object, idle>>

---------------------------------------------------------------------------
(* SL_CO::call                                                             *)

Confirmed(c) == Has(c, "ACK_SV") /\ ~closed[c] /\ \A s \in Sides : ~Has(c, BYE_SV[s])
Completed(c) == Has(c, "STOREMESS_1_3") /\ ~Has(c, "ACK_SV") /\ ~closed[c]

\* KILLDOA of an INVITE_SV that gives up.
Close(m, c, news, ops) ==
    /\ closed' = [closed EXCEPT ![c] = TRUE]
    /\ Take(m, news, Nothing, ops \o <<End(m), Request(m)>>)
    /\ UNCHANGED over

\* A repeated INVITE: 503 and the end, the 200 OK again, or nothing.
InviteAgain(m, c) ==
    IF closed[c] THEN Ignore(m)
    ELSE IF Has(c, "STOREMESS_1_3")
         THEN SendNew(m, Made("200 to A", m, "A", 0))
         ELSE Close(m, c, <<Copy(m)>>, <<Send(New(1))>>)

\* The first 180 is kept, and the same message is sent.
act_provreply_to_a(m, c) ==
    IF ~closed[c] /\ ~Has(c, "STOREMESS_1_2") /\ ~Has(c, "STOREMESS_1_3")
    THEN /\ Take(m, <<Copy(m)>>, Keeping("STOREMESS_1_2", New(1)),
                 <<Lock(New(1)), Send(New(1)), End(m)>>)
         /\ UNCHANGED <<closed, over>>
    ELSE Ignore(m)

\* VALO's 200 OK for A is kept, a copy of it is sent.
act_200ok_fwdto_a(m, c) ==
    /\ Take(m, <<Copy(m), Made("200 to A", m, "A", 0)>>, Keeping("STOREMESS_1_3", New(1)),
            <<Lock(New(1)), Send(New(2)), End(m)>>)
    /\ UNCHANGED <<closed, over>>

\* A repeated 200 OK has the kept ACK itself sent again.
OkOfB(m, c) ==
    IF ~closed[c] /\ ~Has(c, "STOREMESS_1_3") THEN act_200ok_fwdto_a(m, c)
    ELSE IF Has(c, "ACKTOB") /\ ~over[c] THEN SendOnly(m, role[c]["ACKTOB"])
    ELSE Ignore(m)

act_ack_to_b(ack) == <<Lock(ack), Send(ack)>>

AckOfA(m, c) ==
    IF Completed(c)
    THEN /\ Take(m, <<Copy(m), Copy(m)>>,
                 [r \in {"ACK_SV", "ACK_CL", "ACKTOB"} |->
                      CASE r = "ACK_SV" -> m
                        [] r = "ACK_CL" -> New(1)
                        [] r = "ACKTOB" -> New(2)],
                 <<Lock(m), Lock(New(1))>> \o act_ack_to_b(New(2)) \o <<End(m)>>)
         /\ UNCHANGED <<closed, over>>
    ELSE Ignore(m)

\* The 200 OK to a BYE is kept and sent; a repeated BYE has it sent again.
ByeOf(m, c, s) ==
    IF Has(c, BYE_SV[s]) THEN SendOnly(m, role[c][STORED_MESSAGE[s]])
    ELSE IF (s = "A" /\ Confirmed(c)) \/ (s = "B" /\ Has(c, "ACKTOB") /\ ~over[c])
    THEN /\ Take(m, <<Copy(m), Copy(m), Made("BYE relayed", m, s, New(2))>>,
                 [r \in {BYE_SV[s], STORED_MESSAGE[s], BYE_CL[s]} |->
                      CASE r = BYE_SV[s] -> m
                        [] r = STORED_MESSAGE[s] -> New(1)
                        [] r = BYE_CL[s] -> New(2)],
                 <<Lock(m), Lock(New(1)), Send(New(1)), Lock(New(2)), Send(New(3)), End(m)>>)
         /\ UNCHANGED <<closed, over>>
    ELSE Ignore(m)

act_200ok_bye_to_alo(m, c) ==
    /\ Take(m, <<>>, Nothing, <<End(m), Request(m)>>)
    /\ over' = [over EXCEPT ![c] = TRUE]
    /\ UNCHANGED closed

\* The resends of the alarms are counted in SlCo.
AlarmOf(m, c) ==
    CASE mess[m].kind = "TIMER_S" ->
             IF closed[c] \/ Confirmed(c) THEN Ignore(m) ELSE Close(m, c, <<>>, <<>>)
      [] mess[m].kind = "TIMER_G" ->
             IF closed[c] \/ Confirmed(c) \/ ~Has(c, "STOREMESS_1_3") THEN Ignore(m)
             ELSE \/ SendNew(m, Made("200 to A", m, "A", 0))
                  \/ Close(m, c, <<>>, <<>>)
      [] mess[m].kind = "TIMER_A" ->
             \/ Ignore(m)
             \/ /\ Has(c, BYE_CL[mess[m].side])
                /\ \/ SendNew(m, Made("BYE relayed", m, mess[m].side,
                                      role[c][BYE_CL[mess[m].side]]))
                   \/ act_200ok_bye_to_alo(m, c)

\* A reply whose branch no client machine of the call has aborts the process:
\* there is no step.
Known(m, c) ==
    CASE mess[m].kind \in {"180", "200"} -> role[c]["INVITE_CL"] = mess[m].of
      [] mess[m].kind = "200 to BYE" ->
             /\ Has(c, BYE_CL[mess[m].side])
             /\ role[c][BYE_CL[mess[m].side]] = mess[m].of
      [] OTHER -> TRUE

SlCoCall(m, c) ==
    CASE mess[m].kind = "INVITE" -> InviteAgain(m, c)
      [] mess[m].kind = "180" -> act_provreply_to_a(m, c)
      [] mess[m].kind = "200" -> OkOfB(m, c)
      [] mess[m].kind = "ACK" -> AckOfA(m, c)
      [] mess[m].kind = "BYE" -> ByeOf(m, c, mess[m].side)
      [] mess[m].kind = "200 to BYE" -> act_200ok_bye_to_alo(m, c)
      [] OTHER -> AlarmOf(m, c)

\* Mutant of use_CALL_OSET_SL_CO_call: the timer of a requested call runs on.
use_CALL_OSET_SL_CO_call_NoReset(m, c) ==
    /\ Known(m, c) /\ SlCoCall(m, c)
    /\ UNCHANGED <<idle, object>>

use_CALL_OSET_SL_CO_call(m, c) ==
    /\ Known(m, c) /\ SlCoCall(m, c)
    /\ idle' = [idle EXCEPT ![c] = 0]
    /\ UNCHANGED object

\* The Call-ID of a REGISTER is never that of a call.
ParseSlcc ==
    /\ todo = <<>> /\ queue["SL_CC"] # <<>>
    /\ LET m == Head(queue["SL_CC"])
           c == mess[m].call IN
           \/ mess[m].kind = "REGISTER" /\ Register(m, c)
           \/ mess[m].kind # "REGISTER" /\ NoCall(m, c)
           \/ /\ mess[m].kind # "REGISTER" /\ object[c] # "none"
              /\ use_CALL_OSET_SL_CO_call(m, c)

---------------------------------------------------------------------------
(* TRNSPRT::parse, SUDP::sendRequest and SUDP::sendReply                   *)

ParseTransport ==
    /\ hand = 0 /\ queue["TRNSPRT"] # <<>>
    /\ hand' = Head(queue["TRNSPRT"])
    /\ queue' = [queue EXCEPT !["TRNSPRT"] = Tail(@)]
    /\ UNCHANGED <<mess, slow, todo, calls, lockedMessages, purged, incoming>>

\* After sendto.
Sent ==
    /\ hand # 0
    /\ Purge(hand)
    /\ hand' = 0
    /\ slow' = IF slow = 0 THEN 0 ELSE slow - 1
    /\ UNCHANGED <<mess, queue, todo, calls, lockedMessages, incoming>>

---------------------------------------------------------------------------
(* COMAP::purgeDOA and CALL_OSET::~CALL_OSET                               *)

\* What is still to be sent, the oldest first: by TRNSPRT, then by SL_CC.
Unsent == (IF hand = 0 THEN 0 ELSE 1) + Len(queue["TRNSPRT"])
          + Cardinality({i \in DOMAIN todo : todo[i].op = "send"})

\* Time counts while a call waits for its deletion.  Assumed: a message that
\* SL_CC has taken is handled, and what the handler sends is sent, within
\* TIMER_DOA.
Tick ==
    /\ \E c \in Calls : object[c] = "requested" /\ idle[c] <= TIMER_DOA
    /\ slow = 0
    /\ slow' = Unsent
    /\ idle' = [c \in Calls |-> IF object[c] = "requested" /\ idle[c] <= TIMER_DOA
                                THEN idle[c] + 1 ELSE idle[c]]
    /\ UNCHANGED <<mess, queue, hand, todo, object, role, closed, over, lockedMessages,
                   purged, incoming>>

Machines == {"INVITE_SV", "INVITE_CL", "ACK_SV", "ACK_CL"}
            \cup {BYE_SV[s] : s \in Sides} \cup {BYE_CL[s] : s \in Sides}

\* Mutant of Released: only the messages of the state machines are purged.
ReleasedMachines(c) == {role[c][r] : r \in Machines \cap DOMAIN role[c]}

\* ~TRNSCT_SM purges the Matrix of each machine, the loop what is still locked.
Released(c) == lockedMessages[c]

FreeCall(c) ==
    /\ purged' = purged \cup Released(c)
    /\ lockedMessages' = [lockedMessages EXCEPT ![c] = {}]
    /\ role' = [role EXCEPT ![c] = Nothing]
    /\ object' = [object EXCEPT ![c] = "none"]
    /\ idle' = [idle EXCEPT ![c] = 0]
    /\ closed' = [closed EXCEPT ![c] = FALSE] /\ over' = [over EXCEPT ![c] = FALSE]

InCall(c) == todo # <<>> /\ mess[Head(todo).on].call = c

\* A call is not freed while a thread of SL_CC is in it (Comap).
purgeDOA(c) ==
    /\ object[c] = "requested" /\ idle[c] > TIMER_DOA
    /\ ~InCall(c)
    /\ FreeCall(c)
    /\ UNCHANGED <<mess, queue, transport, todo, incoming>>

Next ==
    \/ \E c \in Calls : listen(c) \/ alarm(c) \/ purgeDOA(c)
    \/ ParseSipengine \/ ParseDao \/ ParseSlcc \/ Work
    \/ ParseTransport \/ Sent
    \/ Tick

Spec == Init /\ [][Next]_vars

---------------------------------------------------------------------------
Ids == 1 .. Len(mess)
InQueue == UNION {{queue[st][i] : i \in DOMAIN queue[st]} : st \in Stages}
InTodo == {todo[i].on : i \in {j \in DOMAIN todo : todo[j].op # "request"}}
Locked == UNION {lockedMessages[c] : c \in Calls}

(* Types of the variables.                                                 *)
TypeOK ==
    /\ \A m \in Ids : mess[m].call \in Calls /\ mess[m].side \in Sides /\ mess[m].of \in 0 .. m
    /\ DOMAIN queue = Stages /\ InQueue \subseteq Ids
    /\ hand \in Ids \cup {0} /\ slow \in Nat /\ purged \subseteq Ids
    /\ \A i \in DOMAIN todo : todo[i].on \in Ids
    /\ object \in [Calls -> {"none", "live", "requested"}]
    /\ idle \in [Calls -> 0 .. TIMER_DOA + 1]
    /\ DOMAIN role = Calls /\ DOMAIN lockedMessages = Calls
    /\ \A c \in Calls :
           /\ DOMAIN role[c] \subseteq Roles
           /\ \A r \in DOMAIN role[c] : role[c][r] \in Ids
           /\ lockedMessages[c] \subseteq Ids
    /\ closed \in [Calls -> BOOLEAN] /\ over \in [Calls -> BOOLEAN]
    /\ incoming \in 0 .. MaxIncoming

(* "Messages could be anywhere" (CALL_OSET.cpp): the destructor purges the *)
(* messages of its call, of which TRNSPRT may have one, and TRNSPRT purges *)
(* what is not locked, which a call may want to keep.  No message that was *)
(* purged is in a queue, in the hands of a thread, or kept by a call, and  *)
(* no two state machines keep one message, which both would purge.         *)
NoDanglingPointer ==
    /\ purged \cap (InQueue \cup {hand} \cup InTodo \cup Locked) = {}
    /\ \A c \in Calls, r \in Roles :
           Has(c, r) => /\ role[c][r] \notin purged
                        /\ \A r2 \in DOMAIN role[c] \ {r} : role[c][r2] # role[c][r]

(* Whoever takes a message passes it on, locks it or purges it, also when  *)
(* it is ignored, when its call is gone or when the call ends: a message   *)
(* is purged, or somebody still has it, or it was a REGISTER.              *)
NothingLost ==
    \A m \in Ids : \/ m \in purged \cup InQueue \cup {hand} \cup InTodo \cup Locked
                   \/ mess[m].kind = "REGISTER"
=============================================================================
