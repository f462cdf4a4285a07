------------------------------- MODULE Almgr -------------------------------
(***************************************************************************)
(* ALMGR (ALARM.cpp): the timers of the calls.  A state machine arms a     *)
(* timer with a message that carries its fire time, or cancels one with a  *)
(* message whose fire time is 0; both go through the queue of ALMGR's own  *)
(* engine (one queue, one thread) to ALMGR::parse.  The thread alarmer     *)
(* wakes every 10 ms, takes what is due from the heap pq, hands the        *)
(* message of an active alarm to SL_CC and drops an inactive one.          *)
(* A timer that is armed again, or cancelled, leaves its old alarm in the  *)
(* heap, inactive; cidmap has the latest alarm of each timer.              *)
(*                                                                         *)
(* An ALARM object, its entry of the heap and the message it holds are one *)
(* record [id, cid, time]; id is the message.                              *)
(***************************************************************************)
EXTENDS Naturals, Sequences

CONSTANTS
    Keys,               \* Call-ID, branch and name of a timer
    MaxArms,            \* how often a timer is armed (MAX_INVITE_RESEND bounds it)
    Duration(_, _),     \* time to fire of a timer armed for the k-th time
    MaxTime,            \* bound: the last tick of the clock
    MaxMessages         \* bound: messages given to ALMGR

(* TIMER_G and TIMER_S have one duration, TIMER_A doubles it each time.    *)
ASSUME AlmgrAssumption ==
    /\ MaxArms \in Nat /\ MaxTime \in Nat /\ MaxMessages \in Nat
    /\ \A key \in Keys, k \in 0 .. MaxArms :
           /\ Duration(key, k) \in Nat \ {0}
           /\ \A j \in 0 .. k : Duration(key, j) <= Duration(key, k)

VARIABLES
    inhibitAlarm,   \* the build has INHIBITALARM; a step never changes it
    now,            \* what gettimeofday returns
    sb,             \* queue of the engine: [id, cid, time], time 0 to cancel
    pq,             \* the heap
    cidmap,         \* per timer, an alarm
    active,         \* the alarms that are not cancelled
    sent,           \* alarms whose message was handed to SL_CC
    purged,         \* ids of the messages that ALMGR purged
    alarmer,        \* "sleep", "wants" the mutex, "pass" through the heap
    curr,           \* the time of the pass, read before the mutex is taken
    made,           \* messages given to ALMGR so far
    arms,           \* per timer, how often it was armed
    lastArm         \* per timer, when it was armed last

vars == <<inhibitAlarm, now, sb, pq, cidmap, active, sent, purged, alarmer, curr, made, arms, lastArm>>
callers == <<made, arms, lastArm>>
pass == <<alarmer, curr>>

Service == INSTANCE AlarmService WITH
    Ids <- 1 .. MaxMessages,
    Times <- 0 .. MaxTime,
    requests <- sb,
    armed <- [cid \in {c \in DOMAIN cidmap : cidmap[c] \in active} |-> cidmap[cid]]

Init ==
    /\ inhibitAlarm \in BOOLEAN
    /\ now = 1
    /\ sb = <<>>
    /\ pq = {} /\ cidmap = [cid \in {} |-> 0] /\ active = {}
    /\ sent = {} /\ purged = {}
    /\ alarmer = "sleep" /\ curr = 0
    /\ made = 0 /\ arms = [key \in Keys |-> 0] /\ lastArm = [key \in Keys |-> 0]

---------------------------------------------------------------------------
\* Mutant of FireTime: the timer is armed again for a shorter time.
FireTimeShrinks(key, created) == created + Duration(key, MaxArms - 1 - arms[key])

FireTime(key, created) == created + Duration(key, arms[key])

\* With INHIBITALARM the message of a request is purged where it is made, and
\* nothing is armed or cancelled.
PurgeRequest ==
    /\ purged' = purged \cup {made + 1}
    /\ made' = made + 1
    /\ UNCHANGED <<now, sb, pq, cidmap, active, sent, pass, arms, lastArm>>

\* The fire time is computed when the message is made, before it is given to
\* the engine; the mutex of the call keeps the order of its messages.  The
\* clock counts microseconds, no timer is armed twice in the same one.
QueueInsert(key) ==
    /\ \E created \in lastArm[key] + 1 .. now :
           /\ FireTime(key, created) <= MaxTime
           /\ sb' = Append(sb, [id |-> made + 1, cid |-> key,
                                time |-> FireTime(key, created)])
           /\ lastArm' = [lastArm EXCEPT ![key] = created]
    /\ made' = made + 1
    /\ arms' = [arms EXCEPT ![key] = @ + 1]
    /\ UNCHANGED <<now, pq, cidmap, active, sent, purged, pass>>

insertAlarm(key) ==
    /\ made < MaxMessages /\ arms[key] < MaxArms
    /\ IF inhibitAlarm THEN PurgeRequest ELSE QueueInsert(key)

\* cancelAlarm is insertAlarm with fire time 0.
QueueCancel(key) ==
    /\ sb' = Append(sb, [id |-> made + 1, cid |-> key, time |-> 0])
    /\ made' = made + 1
    /\ UNCHANGED <<now, pq, cidmap, active, sent, purged, pass, arms, lastArm>>

cancelAlarm(key) ==
    /\ made < MaxMessages
    /\ IF inhibitAlarm THEN PurgeRequest ELSE QueueCancel(key)

---------------------------------------------------------------------------
(* ALMGR::parse, in the one thread of the engine; it waits for the mutex.  *)

\* Mutant of internalCancelAlarm: the message is purged with the alarm.
internalCancelAlarm_Purges(m) ==
    /\ active' = active \ {cidmap[c] : c \in DOMAIN cidmap \cap {m.cid}}
    /\ purged' = purged \cup {m.id}
                        \cup {cidmap[c].id : c \in DOMAIN cidmap \cap {m.cid}}

\* The alarm becomes inactive and stays in the heap and in cidmap.
internalCancelAlarm(m) ==
    /\ active' = active \ {cidmap[c] : c \in DOMAIN cidmap \cap {m.cid}}
    /\ purged' = purged \cup {m.id}

ParseCancel ==
    /\ alarmer # "pass"
    /\ sb # <<>> /\ Head(sb).time = 0
    /\ internalCancelAlarm(Head(sb))
    /\ sb' = Tail(sb)
    /\ UNCHANGED <<now, pq, cidmap, sent, pass, callers>>

\* Mutant of insertAlarmPrivate: the alarm that is replaced stays active.
insertAlarmPrivate_NoCancel(m) ==
    /\ pq' = pq \cup {m}
    /\ active' = active \cup {m}
    /\ cidmap' = [c \in DOMAIN cidmap \cup {m.cid} |->
                      IF c = m.cid THEN m ELSE cidmap[c]]

insertAlarmPrivate(m) ==
    /\ pq' = pq \cup {m}
    /\ active' = (active \ {cidmap[c] : c \in DOMAIN cidmap \cap {m.cid}}) \cup {m}
    /\ cidmap' = [c \in DOMAIN cidmap \cup {m.cid} |->
                      IF c = m.cid THEN m ELSE cidmap[c]]

ParseInsert ==
    /\ alarmer # "pass"
    /\ sb # <<>> /\ Head(sb).time # 0
    /\ insertAlarmPrivate(Head(sb))
    /\ sb' = Tail(sb)
    /\ UNCHANGED <<now, sent, purged, pass, callers>>

---------------------------------------------------------------------------
(* ALMGR::alarmer                                                          *)

\* nanosleep, gettimeofday.  With INHIBITALARM the thread returned at once.
Wake ==
    /\ ~inhibitAlarm
    /\ alarmer = "sleep"
    /\ alarmer' = "wants" /\ curr' = now
    /\ UNCHANGED <<now, sb, pq, cidmap, active, sent, purged, callers>>

Lock ==
    /\ alarmer = "wants"
    /\ alarmer' = "pass"
    /\ UNCHANGED <<now, sb, pq, cidmap, active, sent, purged, curr, callers>>

\* pq.top(): CompareTriple leaves the order of equal times open.
Top(a) == a \in pq /\ \A b \in pq : a.time <= b.time
Due(a) == Top(a) /\ a.time <= curr

\* Mutant of Erase: the entry of the alarm that fired stays.
EraseNot(cid) == cidmap

Erase(cid) == [c \in DOMAIN cidmap \ {cid} |-> cidmap[c]]

\* The heap entry is read, handed over and popped under the mutex.
Fire(a) ==
    /\ alarmer = "pass" /\ Due(a) /\ a \in active
    /\ sent' = sent \cup {a}
    /\ cidmap' = Erase(a.cid)
    /\ active' = active \ {a}
    /\ pq' = pq \ {a}
    /\ UNCHANGED <<now, sb, purged, pass, callers>>

\* The result of find is used without a test (EntryOfEachAlarm).
Drop(a) ==
    /\ alarmer = "pass" /\ Due(a) /\ a \notin active
    /\ a.cid \in DOMAIN cidmap
    /\ cidmap' = IF cidmap[a.cid] = a THEN Erase(a.cid) ELSE cidmap
    /\ purged' = purged \cup {a.id}
    /\ pq' = pq \ {a}
    /\ UNCHANGED <<now, sb, active, sent, pass, callers>>

\* Mutant of Unlock: the thread leaves only when the heap is empty.
UnlockEmpty ==
    /\ alarmer = "pass" /\ pq = {}
    /\ alarmer' = "sleep"
    /\ UNCHANGED <<now, sb, pq, cidmap, active, sent, purged, curr, callers>>

Unlock ==
    /\ alarmer = "pass" /\ ~ \E a \in pq : Due(a)
    /\ alarmer' = "sleep"
    /\ UNCHANGED <<now, sb, pq, cidmap, active, sent, purged, curr, callers>>

Tick ==
    /\ now < MaxTime
    /\ now' = now + 1
    /\ UNCHANGED <<sb, pq, cidmap, active, sent, purged, pass, callers>>

Parse == ParseCancel \/ ParseInsert
Alarmer == Wake \/ Lock \/ Unlock \/ \E a \in pq : Fire(a) \/ Drop(a)

Step ==
    \/ \E key \in Keys : insertAlarm(key) \/ cancelAlarm(key)
    \/ Parse
    \/ Alarmer
    \/ Tick

Next == Step /\ UNCHANGED inhibitAlarm

Spec == Init /\ [][Next]_vars

(* Time passes, the thread of the engine serves its queue whenever it can  *)
(* get the mutex again and again (alarmer sleeps 10 ms without it), and    *)
(* alarmer is never stopped, where it runs at all.                         *)
Fairness ==
    /\ WF_vars(Tick /\ UNCHANGED inhibitAlarm)
    /\ SF_vars(Parse /\ UNCHANGED inhibitAlarm)
    /\ WF_vars(Alarmer /\ UNCHANGED inhibitAlarm)
FairSpec == Spec /\ Fairness

---------------------------------------------------------------------------
Requests == [id : Nat \ {0}, cid : Keys, time : Nat]
AlarmObjects == [id : Nat \ {0}, cid : Keys, time : Nat \ {0}]

(* Types of the variables.                                                 *)
TypeOK ==
    /\ inhibitAlarm \in BOOLEAN
    /\ now \in Nat /\ curr \in Nat
    /\ sb \in Seq(Requests)
    /\ pq \subseteq AlarmObjects /\ active \subseteq pq /\ sent \subseteq AlarmObjects
    /\ DOMAIN cidmap \subseteq Keys /\ \A c \in DOMAIN cidmap : cidmap[c] \in pq
    /\ purged \subseteq Nat \ {0}
    /\ alarmer \in {"sleep", "wants", "pass"}
    /\ made \in Nat /\ arms \in [Keys -> Nat] /\ lastArm \in [Keys -> Nat]

(* alarmer uses what it finds in cidmap without a test, although an alarm  *)
(* that was replaced stays in the heap when the entry of its timer is of   *)
(* another alarm: every alarm in the heap has an entry, of an alarm of its *)
(* timer that fires later or is the same; an active alarm is the entry.    *)
EntryOfEachAlarm ==
    \A a \in pq :
        /\ a.cid \in DOMAIN cidmap
        /\ a.time <= cidmap[a.cid].time /\ cidmap[a.cid].cid = a.cid
        /\ a \in active => cidmap[a.cid] = a

(* A message given to ALMGR is in one place: in the queue, in the heap,    *)
(* handed to SL_CC, or purged; it is not lost and has not two owners.      *)
InQueue == {sb[i].id : i \in DOMAIN sb}
InHeap == {a.id : a \in pq}
Sent == {a.id : a \in sent}
OneOwner ==
    /\ InQueue \cup InHeap \cup Sent \cup purged = 1 .. made
    /\ InQueue \cap (InHeap \cup Sent \cup purged) = {}
    /\ InHeap \cap (Sent \cup purged) = {}
    /\ Sent \cap purged = {}

(* ALMGR keeps the promise of AlarmService.                                *)
ImplementsService == Service!Spec

(* Every message given to ALMGR is handed to SL_CC or purged in the end,   *)
(* also that of an alarm that was cancelled or replaced.                   *)
EveryMessageReleased ==
    \A id \in 1 .. MaxMessages : id <= made ~> id \in Sent \cup purged
=============================================================================
