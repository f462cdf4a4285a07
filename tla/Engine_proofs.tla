--------------------------- MODULE Engine_proofs ---------------------------
(***************************************************************************)
(* Theorems about Engine, for any number of producers, parser threads,     *)
(* queues, messages and tuning commands.                                   *)
(***************************************************************************)
EXTENDS Engine, TLAPS

(***************************************************************************)
(* The inductive invariant.  A thread that is between taking condvarmutex  *)
(* and giving it back is its owner, so that only one thread at a time is   *)
(* there; a parser that saw a message in its queue still finds it.         *)
(***************************************************************************)
ProducerOwns ==
    \A p \in Producers : ppc[p] \in {"put", "signal", "unlock"} =>
        pmap[p] \in Queues /\ owner[pmap[p]] = p
ProducerHasMessage ==
    \A p \in Producers : ppc[p] \in {"lock", "put", "signal", "unlock"} =>
        pmsg[p] \in Msgs /\ pmap[p] \in Queues
ParserOwns ==
    \A c \in Parsers : cpc[c] \in {"check", "get", "unlock"} => owner[ServedBy[c]] = c
WaitersAreOutside == \A c \in waiting : cpc[c] = "lock"

IInv ==
    /\ TypeOK
    /\ ProducerOwns
    /\ ProducerHasMessage
    /\ ParserOwns
    /\ WaitersAreOutside
    /\ GetFindsMessage
    /\ NoLostWakeup

LEMMA InitInv == Init => IInv
<1> SUFFICES ASSUME Init PROVE IInv
  OBVIOUS
<1>1. TypeOK
  <2>1. retuned \in BOOLEAN /\ engineMaps \in Tunings \cup {Configured}
    BY DEF Init
  <2>2. \A S : <<>> \in Seq(S)
    OBVIOUS
  <2>3. queue \in [Queues -> Seq(Msgs)] /\ log \in Seq(Msgs) /\ started \in Seq(Msgs)
    BY <2>2 DEF Init
  <2>4. /\ ppc \in [Producers -> {"idle", "lock", "put", "signal", "unlock", "fault"}]
        /\ pmsg \in [Producers -> Msgs \cup {None}]
        /\ pmap \in [Producers -> Nat \cup {None}]
    BY DEF Init
  <2>5. /\ cpc \in [Parsers -> {"lock", "check", "get", "unlock", "parse"}]
        /\ cmsg \in [Parsers -> Msgs \cup {None}]
        /\ owner \in [Queues -> Producers \cup Parsers \cup {None}]
        /\ waiting \in SUBSET Parsers
    BY DEF Init
  <2> QED BY <2>1, <2>3, <2>4, <2>5 DEF TypeOK
<1>2. ProducerOwns /\ ProducerHasMessage /\ ParserOwns /\ WaitersAreOutside
  BY DEF Init, ProducerOwns, ProducerHasMessage, ParserOwns, WaitersAreOutside
<1>3. GetFindsMessage /\ NoLostWakeup
  BY DEF Init, GetFindsMessage, NoLostWakeup
<1> QED BY <1>1, <1>2, <1>3 DEF IInv

\* The constants as the provers need them.
LEMMA Constants ==
    /\ NQueues \in Nat /\ NQueues > 0
    /\ Tunings \subseteq Int
    /\ Configured \in 1 .. NQueues
    /\ \A c \in Parsers : ServedBy[c] \in Queues
    /\ \A q \in Queues : \E c \in Parsers : ServedBy[c] = q
    /\ \A m \in Msgs : Modulus[m] \in Nat
    /\ \A p \in Producers : p \notin Parsers
    /\ None \notin Msgs /\ None \notin Producers /\ None \notin Parsers /\ None \notin Nat
    /\ Queues \subseteq Nat
  BY ConstantsAssumption DEF Queues

LEMMA AppendNotEmpty ==
    ASSUME NEW s \in Seq(Msgs), NEW m \in Msgs PROVE Append(s, m) # <<>>
<1>1. Len(Append(s, m)) = Len(s) + 1 /\ Len(s) \in Nat
  OBVIOUS
<1>2. Len(<<>>) = 0
  OBVIOUS
<1> QED BY <1>1, <1>2

-----------------------------------------------------------------------------
(* Producers.                                                              *)

LEMMA CallPwInv ==
    ASSUME IInv, NEW p \in Producers, CallPw(p) PROVE IInv'
<1> USE Constants DEF IInv, TypeOK, CallPw, parserVars, tuningVars
<1>0. PICK m \in Msgs :
         /\ pmsg' = [pmsg EXCEPT ![p] = m]
         /\ pmap' = [pmap EXCEPT ![p] = modEngineMap(m)]
         /\ ppc' = [ppc EXCEPT ![p] = IF modEngineMap(m) \in Queues THEN "lock" ELSE "fault"]
  OBVIOUS
<1>1. modEngineMap(m) \in Nat \cup {None}
  <2>1. engineMaps \in Int /\ Modulus[m] \in Nat
    OBVIOUS
  <2> QED BY <2>1 DEF modEngineMap
<1>2. TypeOK'
  BY <1>0, <1>1
<1>3. ProducerOwns' /\ ProducerHasMessage'
  BY <1>0, <1>1 DEF ProducerOwns, ProducerHasMessage
<1>4. ParserOwns' /\ WaitersAreOutside' /\ GetFindsMessage'
  BY DEF ParserOwns, WaitersAreOutside, GetFindsMessage
<1>5. NoLostWakeup'
  BY <1>0 DEF NoLostWakeup
<1> QED BY <1>2, <1>3, <1>4, <1>5

LEMMA PwLockInv ==
    ASSUME IInv, NEW p \in Producers, PwLock(p) PROVE IInv'
<1> USE Constants DEF IInv, TypeOK, PwLock, parserVars, tuningVars
<1>2. TypeOK'
  OBVIOUS
<1>3. ProducerOwns' /\ ProducerHasMessage'
  BY DEF ProducerOwns, ProducerHasMessage
<1>4. ParserOwns' /\ WaitersAreOutside' /\ GetFindsMessage'
  BY DEF ParserOwns, WaitersAreOutside, GetFindsMessage
<1>5. NoLostWakeup'
  BY DEF NoLostWakeup
<1> QED BY <1>2, <1>3, <1>4, <1>5

LEMMA PwPutInv ==
    ASSUME IInv, NEW p \in Producers, PwPut(p) PROVE IInv'
<1> USE Constants DEF IInv, TypeOK, PwPut, parserVars, tuningVars
<1>1. pmap[p] \in Queues /\ pmsg[p] \in Msgs
  BY DEF ProducerOwns, ProducerHasMessage
<1>2. TypeOK'
  <2>1. Append(queue[pmap[p]], pmsg[p]) \in Seq(Msgs) /\ Append(log, pmsg[p]) \in Seq(Msgs)
    <3> HIDE DEF IInv, TypeOK, PwPut
    <3>1. queue[pmap[p]] \in Seq(Msgs) /\ log \in Seq(Msgs)
      BY <1>1 DEF IInv, TypeOK
    <3>2. \A s \in Seq(Msgs), m \in Msgs : Append(s, m) \in Seq(Msgs)
      OBVIOUS
    <3> QED BY <1>1, <3>1, <3>2
  <2>2. queue' \in [Queues -> Seq(Msgs)] /\ log' \in Seq(Msgs)
    BY <2>1
  <2> QED BY <2>2
<1>3. ProducerOwns' /\ ProducerHasMessage'
  BY DEF ProducerOwns, ProducerHasMessage
<1>4. ParserOwns' /\ WaitersAreOutside'
  BY DEF ParserOwns, WaitersAreOutside
<1>5. \A q \in Queues : queue[q] # <<>> => queue'[q] # <<>>
  <2>1. \A s \in Seq(Msgs), m \in Msgs : Append(s, m) # <<>>
    BY AppendNotEmpty
  <2>2. queue'[pmap[p]] # <<>> /\ \A q \in Queues : q # pmap[p] => queue'[q] = queue[q]
    BY <1>1, <2>1
  <2> QED BY <2>2
<1>6. GetFindsMessage'
  BY <1>5 DEF GetFindsMessage
<1>7. ASSUME NEW q \in Queues, queue'[q] # <<>>, \A c \in Parsers : ServedBy[c] = q => c
    \in waiting'
      PROVE  \E r \in Producers : ppc'[r] = "signal" /\ pmap'[r] = q
  <2>1. CASE q = pmap[p]
    BY <2>1, <1>1
  <2>2. CASE q # pmap[p]
    <3>1. queue[q] # <<>>
      BY <2>2, <1>1, <1>7
    <3>2. PICK r \in Producers : ppc[r] = "signal" /\ pmap[r] = q
      BY <3>1, <1>7 DEF NoLostWakeup
    <3> QED BY <3>2
  <2> QED BY <2>1, <2>2
<1>8. NoLostWakeup'
  BY <1>7 DEF NoLostWakeup
<1> QED BY <1>2, <1>3, <1>4, <1>6, <1>8

\* The signal wakes a parser of the producer's own queue, or finds one awake:
\* the constructor gives every queue a parser.
LEMMA PwSignalInv ==
    ASSUME IInv, NEW p \in Producers, PwSignal(p) PROVE IInv'
<1> USE Constants DEF IInv, TypeOK, PwSignal, parserVars, tuningVars
<1>1. pmap[p] \in Queues
  BY DEF ProducerOwns
<1>0. waiting' \subseteq waiting
  OBVIOUS
<1>2. TypeOK'
  BY <1>0
<1>3. ProducerOwns' /\ ProducerHasMessage'
  BY DEF ProducerOwns, ProducerHasMessage
<1>4. ParserOwns' /\ WaitersAreOutside' /\ GetFindsMessage'
  BY <1>0 DEF ParserOwns, WaitersAreOutside, GetFindsMessage
<1>5. \E c \in Parsers : ServedBy[c] = pmap[p] /\ c \notin waiting'
  <2>1. CASE Sleepers(pmap[p]) = {} /\ UNCHANGED waiting
    <3>1. PICK c \in Parsers : ServedBy[c] = pmap[p]
      BY <1>1
    <3>2. c \notin waiting
      BY <2>1, <3>1 DEF Sleepers
    <3> QED BY <2>1, <3>1, <3>2
  <2>2. CASE \E c \in Sleepers(pmap[p]) : waiting' = waiting \ {c}
    <3>1. PICK c \in Sleepers(pmap[p]) : waiting' = waiting \ {c}
      BY <2>2
    <3>2. c \in Parsers /\ ServedBy[c] = pmap[p]
      BY <3>1 DEF Sleepers
    <3> QED BY <3>1, <3>2
  <2> QED BY <2>1, <2>2
<1>6. ASSUME NEW q \in Queues, queue'[q] # <<>>, \A c \in Parsers : ServedBy[c] = q => c
    \in waiting'
      PROVE  \E r \in Producers : ppc'[r] = "signal" /\ pmap'[r] = q
  <2>1. q # pmap[p]
    BY <1>5, <1>6
  <2>2. PICK r \in Producers : ppc[r] = "signal" /\ pmap[r] = q
    BY <1>0, <1>6 DEF NoLostWakeup
  <2> QED BY <2>1, <2>2
<1>7. NoLostWakeup'
  BY <1>6 DEF NoLostWakeup
<1> QED BY <1>2, <1>3, <1>4, <1>7

LEMMA PwUnlockInv ==
    ASSUME IInv, NEW p \in Producers, PwUnlock(p) PROVE IInv'
<1> USE Constants DEF IInv, TypeOK, PwUnlock, parserVars, tuningVars
<1>1. pmap[p] \in Queues /\ owner[pmap[p]] = p
  BY DEF ProducerOwns
<1>2. TypeOK'
  BY <1>1
<1>3. ProducerOwns' /\ ProducerHasMessage'
  BY <1>1 DEF ProducerOwns, ProducerHasMessage
<1>4. ParserOwns' /\ WaitersAreOutside' /\ GetFindsMessage'
  BY <1>1 DEF ParserOwns, WaitersAreOutside, GetFindsMessage
<1>5. NoLostWakeup'
  BY DEF NoLostWakeup
<1> QED BY <1>2, <1>3, <1>4, <1>5

LEMMA ChangeEngineMapsInv ==
    ASSUME IInv, ChangeEngineMaps PROVE IInv'
  BY Constants
  DEF IInv, TypeOK, ChangeEngineMaps, producerVars, parserVars, ProducerOwns,
      ProducerHasMessage, ParserOwns, WaitersAreOutside, GetFindsMessage, NoLostWakeup

-----------------------------------------------------------------------------
(* Parsers.                                                                *)

LEMMA LockInv ==
    ASSUME IInv, NEW c \in Parsers, Lock(c) PROVE IInv'
<1> USE Constants DEF IInv, TypeOK, Lock, producerVars, tuningVars
<1>2. TypeOK'
  OBVIOUS
<1>3. ProducerOwns' /\ ProducerHasMessage'
  BY DEF ProducerOwns, ProducerHasMessage
<1>4. ParserOwns' /\ WaitersAreOutside' /\ GetFindsMessage'
  BY DEF ParserOwns, WaitersAreOutside, GetFindsMessage
<1>5. NoLostWakeup'
  BY DEF NoLostWakeup
<1> QED BY <1>2, <1>3, <1>4, <1>5

\* A parser waits with its queue empty and condvarmutex in its hands.
LEMMA WaitInv ==
    ASSUME IInv, NEW c \in Parsers, Wait(c) PROVE IInv'
<1> USE Constants DEF IInv, TypeOK, Wait, producerVars, tuningVars
<1>1. owner[ServedBy[c]] = c
  BY DEF ParserOwns
<1>2. TypeOK'
  OBVIOUS
<1>3. ProducerOwns' /\ ProducerHasMessage'
  BY <1>1 DEF ProducerOwns, ProducerHasMessage
<1>4. ParserOwns' /\ WaitersAreOutside' /\ GetFindsMessage'
  BY <1>1 DEF ParserOwns, WaitersAreOutside, GetFindsMessage
<1>5. ASSUME NEW q \in Queues, queue'[q] # <<>>, \A d \in Parsers : ServedBy[d] = q => d
    \in waiting'
      PROVE  \E r \in Producers : ppc'[r] = "signal" /\ pmap'[r] = q
  <2>1. ServedBy[c] # q
    BY <1>5
  <2>2. \A d \in Parsers : ServedBy[d] = q => d \in waiting
    BY <1>5, <2>1
  <2> QED BY <1>5, <2>2 DEF NoLostWakeup
<1>6. NoLostWakeup'
  BY <1>5 DEF NoLostWakeup
<1> QED BY <1>2, <1>3, <1>4, <1>6

LEMMA SpuriousWakeupInv ==
    ASSUME IInv, NEW c \in Parsers, SpuriousWakeup(c) PROVE IInv'
<1> USE Constants DEF IInv, TypeOK, SpuriousWakeup, producerVars, parserVars, tuningVars
<1>2. TypeOK'
  OBVIOUS
<1>3. ProducerOwns' /\ ProducerHasMessage'
  BY DEF ProducerOwns, ProducerHasMessage
<1>4. ParserOwns' /\ WaitersAreOutside' /\ GetFindsMessage'
  BY DEF ParserOwns, WaitersAreOutside, GetFindsMessage
<1>5. NoLostWakeup'
  BY DEF NoLostWakeup
<1> QED BY <1>2, <1>3, <1>4, <1>5

LEMMA LeaveLoopInv ==
    ASSUME IInv, NEW c \in Parsers, LeaveLoop(c) PROVE IInv'
<1> USE Constants DEF IInv, TypeOK, LeaveLoop, producerVars, tuningVars
<1>2. TypeOK'
  OBVIOUS
<1>3. ProducerOwns' /\ ProducerHasMessage'
  BY DEF ProducerOwns, ProducerHasMessage
<1>4. ParserOwns' /\ WaitersAreOutside' /\ GetFindsMessage'
  BY DEF ParserOwns, WaitersAreOutside, GetFindsMessage
<1>5. NoLostWakeup'
  BY DEF NoLostWakeup
<1> QED BY <1>2, <1>3, <1>4, <1>5

\* No other parser of the queue is at "get": the two would both own its mutex.
LEMMA GetInv ==
    ASSUME IInv, NEW c \in Parsers, Get(c) PROVE IInv'
<1> USE Constants DEF IInv, TypeOK, Get, producerVars, tuningVars
<1> DEFINE q == ServedBy[c]
<1>1. q \in Queues /\ owner[q] = c /\ queue[q] # <<>> /\ queue[q] \in Seq(Msgs)
  BY DEF ParserOwns, GetFindsMessage
<1>2. Head(queue[q]) \in Msgs /\ Tail(queue[q]) \in Seq(Msgs)
  BY <1>1
<1>3. TypeOK'
  BY <1>1, <1>2
<1>4. ProducerOwns' /\ ProducerHasMessage' /\ ParserOwns' /\ WaitersAreOutside'
  BY DEF ProducerOwns, ProducerHasMessage, ParserOwns, WaitersAreOutside
<1>5. ASSUME NEW d \in Parsers, cpc'[d] = "get" PROVE queue'[ServedBy[d]] # <<>>
  <2>1. d # c /\ cpc[d] = "get"
    BY <1>5
  <2>2. ServedBy[d] # q
    BY <1>1, <2>1 DEF ParserOwns
  <2> QED BY <2>1, <2>2 DEF GetFindsMessage
<1>6. GetFindsMessage'
  BY <1>5 DEF GetFindsMessage
<1>7. c \notin waiting
  BY DEF WaitersAreOutside
<1>8. \A r \in Queues : r # q => queue'[r] = queue[r]
  OBVIOUS
<1>9. ASSUME NEW r \in Queues, queue'[r] # <<>>, \A d \in Parsers : ServedBy[d] = r => d
    \in waiting'
      PROVE  \E p \in Producers : ppc'[p] = "signal" /\ pmap'[p] = r
  <2>1. r # q
    BY <1>7, <1>9
  <2> QED BY <1>8, <1>9, <2>1 DEF NoLostWakeup
<1>10. NoLostWakeup'
  BY <1>9 DEF NoLostWakeup
<1> QED BY <1>3, <1>4, <1>6, <1>10

LEMMA ParseUnlockInv ==
    ASSUME IInv, NEW c \in Parsers, ParseUnlock(c) PROVE IInv'
<1> USE Constants DEF IInv, TypeOK, ParseUnlock, producerVars, tuningVars
<1>1. owner[ServedBy[c]] = c
  BY DEF ParserOwns
<1>2. TypeOK'
  OBVIOUS
<1>3. ProducerOwns' /\ ProducerHasMessage'
  BY <1>1 DEF ProducerOwns, ProducerHasMessage
<1>4. ParserOwns' /\ WaitersAreOutside' /\ GetFindsMessage'
  BY <1>1 DEF ParserOwns, WaitersAreOutside, GetFindsMessage
<1>5. NoLostWakeup'
  BY DEF NoLostWakeup
<1> QED BY <1>2, <1>3, <1>4, <1>5

LEMMA ParseReturnInv ==
    ASSUME IInv, NEW c \in Parsers, ParseReturn(c) PROVE IInv'
<1> USE Constants DEF IInv, TypeOK, ParseReturn, producerVars, tuningVars
<1>2. TypeOK'
  OBVIOUS
<1>3. ProducerOwns' /\ ProducerHasMessage'
  BY DEF ProducerOwns, ProducerHasMessage
<1>4. ParserOwns' /\ WaitersAreOutside' /\ GetFindsMessage'
  BY DEF ParserOwns, WaitersAreOutside, GetFindsMessage
<1>5. NoLostWakeup'
  BY DEF NoLostWakeup
<1> QED BY <1>2, <1>3, <1>4, <1>5

-----------------------------------------------------------------------------
LEMMA NextInv == IInv /\ [Next]_vars => IInv'
<1> SUFFICES ASSUME IInv, [Next]_vars PROVE IInv'
  OBVIOUS
<1>1. ASSUME NEW p \in Producers, Producer(p) PROVE IInv'
  BY <1>1, CallPwInv, PwLockInv, PwPutInv, PwSignalInv, PwUnlockInv DEF Producer
<1>2. ASSUME NEW c \in Parsers, Parser(c) PROVE IInv'
  BY <1>2, LockInv, WaitInv, SpuriousWakeupInv, LeaveLoopInv, GetInv, ParseUnlockInv,
     ParseReturnInv DEF Parser
<1>3. CASE ChangeEngineMaps
  BY <1>3, ChangeEngineMapsInv
<1>4. CASE UNCHANGED vars
  BY <1>4 DEF IInv, TypeOK, ProducerOwns, ProducerHasMessage, ParserOwns, WaitersAreOutside,
      GetFindsMessage, NoLostWakeup, vars, tuningVars, producerVars, parserVars
<1> QED BY <1>1, <1>2, <1>3, <1>4 DEF Next

LEMMA Invariance == Spec => []IInv
  BY InitInv, NextInv, PTL DEF Spec

\* The variables keep their types whatever numbers the commands carry, 0 and
\* negative ones included: no queue or thread ever holds anything but a message.
THEOREM TypeCorrect == Spec => []TypeOK
<1>1. IInv => TypeOK
  BY DEF IInv
<1> QED BY <1>1, Invariance, PTL

\* SPINC::get never pops an empty queue, whatever the number of parsers that
\* compete for it and however many wakeups are spurious.
THEOREM GetIsSafe == Spec => []GetFindsMessage
<1>1. IInv => GetFindsMessage
  BY DEF IInv
<1> QED BY <1>1, Invariance, PTL

\* A message never sits in a queue whose parsers all sleep with no signal on
\* its way.
THEOREM WakeupsAreNotLost == Spec => []NoLostWakeup
<1>1. IInv => NoLostWakeup
  BY DEF IInv
<1> QED BY <1>1, Invariance, PTL

\* A queue exists for every remainder by a number that is not 0 and, up to its
\* sign, not above the number of queues the constructor made.
SafeCommands == \A k \in Tunings : k # 0 /\ -NQueues <= k /\ k <= NQueues

LEMMA QueueFound ==
    ASSUME SafeCommands, IInv, NEW m \in Msgs PROVE modEngineMap(m) \in Queues
<1>1. /\ engineMaps \in Int /\ engineMaps # 0
      /\ -NQueues <= engineMaps /\ engineMaps <= NQueues
      /\ NQueues \in Nat /\ Modulus[m] \in Nat
  BY Constants DEF SafeCommands, IInv, TypeOK
<1>2. CASE engineMaps > 0
  <2>1. Modulus[m] % engineMaps \in 0 .. engineMaps - 1
    BY <1>1, <1>2
  <2> QED BY <1>1, <1>2, <2>1 DEF modEngineMap, Queues
<1>3. CASE engineMaps < 0
  <2> DEFINE k == -engineMaps
  <2>1. k \in Nat /\ k > 0 /\ k <= NQueues
    BY <1>1, <1>3
  <2>2. Modulus[m] % k \in 0 .. k - 1
    BY <1>1, <2>1
  <2>3. modEngineMap(m) = Modulus[m] % k
    BY <1>1, <1>3 DEF modEngineMap
  <2> QED BY <1>1, <2>1, <2>2, <2>3 DEF Queues
<1> QED BY <1>1, <1>2, <1>3

\* p_w finds a queue for every message, whenever and however often the number
\* of queues is changed, as long as no command carries 0 or, up to its sign, a
\* number above that of the queues.  changeEngineMaps tests neither.
THEOREM QueueIsFound == ASSUME SafeCommands PROVE Spec => []PwFindsQueue
<1>1. Init => PwFindsQueue
  BY DEF Init, PwFindsQueue
<1>2. IInv /\ PwFindsQueue /\ [Next]_vars => PwFindsQueue'
  <2> SUFFICES ASSUME IInv, PwFindsQueue, [Next]_vars PROVE PwFindsQueue'
    OBVIOUS
  <2> USE DEF PwFindsQueue
  <2>0. ppc \in [Producers -> {"idle", "lock", "put", "signal", "unlock", "fault"}]
    BY DEF IInv, TypeOK
  <2>1. ASSUME NEW p \in Producers, CallPw(p) PROVE PwFindsQueue'
    <3>1. ppc' = [ppc EXCEPT ![p] = "lock"]
      BY <2>1, QueueFound DEF CallPw
    <3> QED BY <2>0, <3>1
  <2>2. ASSUME NEW p \in Producers, PwLock(p) \/ PwPut(p) \/ PwSignal(p) \/ PwUnlock(p)
        PROVE PwFindsQueue'
    BY <2>0, <2>2 DEF PwLock, PwPut, PwSignal, PwUnlock
  <2>3. ASSUME NEW c \in Parsers, Parser(c) PROVE PwFindsQueue'
    BY <2>3 DEF Parser, Lock, Wait, SpuriousWakeup, LeaveLoop, Get, ParseUnlock, ParseReturn,
        producerVars
  <2>4. CASE ChangeEngineMaps \/ UNCHANGED vars
    BY <2>4 DEF ChangeEngineMaps, vars, producerVars
  <2> QED BY <2>1, <2>2, <2>3, <2>4 DEF Next, Producer
<1> QED BY <1>1, <1>2, Invariance, PTL DEF Spec

-----------------------------------------------------------------------------
(***************************************************************************)
(* Refinement.  Beyond IInv it takes the life of a message: two producers  *)
(* never hand over the same one, a message that is being handed over is    *)
(* not in the queues yet, and a parser that is looking for a message has   *)
(* none.                                                                   *)
(***************************************************************************)
HandedOverOnce ==
    /\ \A p, r \in Producers : pmsg[p] = pmsg[r] /\ pmsg[p] # None => p = r
    /\ \A p \in Producers : ppc[p] \in {"lock", "put"} => pmsg[p] \notin QueuedMsgs
LookingHasNone ==
    \A c \in Parsers : cmsg[c] = None <=> cpc[c] \in {"lock", "check", "get"}
MessageInv == HandedOverOnce /\ LookingHasNone

LEMMA QueuedAppend ==
    ASSUME NEW s \in Seq(Msgs), NEW m \in Msgs
    PROVE  {Append(s, m)[i] : i \in DOMAIN Append(s, m)} = {s[i] : i \in DOMAIN s} \cup {m}
<1>1. DOMAIN Append(s, m) = DOMAIN s \cup {Len(s) + 1}
  OBVIOUS
<1>2. \A i \in DOMAIN s : Append(s, m)[i] = s[i]
  OBVIOUS
<1>3. Append(s, m)[Len(s) + 1] = m
  OBVIOUS
<1> QED BY <1>1, <1>2, <1>3

LEMMA PutQueues ==
    ASSUME IInv, NEW p \in Producers, PwPut(p)
    PROVE  QueuedMsgs' = QueuedMsgs \cup {pmsg[p]}
<1>1. log \in Seq(Msgs) /\ pmsg[p] \in Msgs /\ log' = Append(log, pmsg[p])
  BY DEF IInv, TypeOK, ProducerHasMessage, PwPut
<1> QED BY <1>1, QueuedAppend DEF QueuedMsgs

LEMMA MessageInit == Init => MessageInv
  BY DEF Init, MessageInv, HandedOverOnce, LookingHasNone, QueuedMsgs

LEMMA MessageNext == IInv /\ MessageInv /\ [Next]_vars => MessageInv'
<1> SUFFICES ASSUME IInv, MessageInv, [Next]_vars PROVE MessageInv'
  OBVIOUS
<1> USE Constants DEF IInv, TypeOK, MessageInv
<1>0. UNCHANGED log => QueuedMsgs' = QueuedMsgs
  BY DEF QueuedMsgs
<1>1. ASSUME NEW p \in Producers, CallPw(p) PROVE MessageInv'
  <2>1. PICK m \in Msgs : Fresh(m) /\ pmsg' = [pmsg EXCEPT ![p] = m]
    BY <1>1 DEF CallPw
  <2>2. m \notin QueuedMsgs /\ \A r \in Producers : pmsg[r] # m
    BY <2>1 DEF Fresh, InSeq, QueuedMsgs
  <2>3. HandedOverOnce'
    BY <1>0, <1>1, <2>1, <2>2 DEF CallPw, HandedOverOnce
  <2>4. LookingHasNone'
    BY <1>1 DEF CallPw, LookingHasNone, parserVars
  <2> QED BY <2>3, <2>4
<1>2. ASSUME NEW p \in Producers, PwPut(p) PROVE MessageInv'
  <2>1. QueuedMsgs' = QueuedMsgs \cup {pmsg[p]}
    BY <1>2, PutQueues
  <2>0. pmsg[p] # None
    BY <1>2 DEF PwPut, ProducerHasMessage
  <2>2. HandedOverOnce'
    BY <1>2, <2>0, <2>1 DEF PwPut, HandedOverOnce
  <2>3. LookingHasNone'
    BY <1>2 DEF PwPut, LookingHasNone, parserVars
  <2> QED BY <2>2, <2>3
<1>3. ASSUME NEW p \in Producers, PwLock(p) \/ PwSignal(p) \/ PwUnlock(p) PROVE MessageInv'
  <2>1. UNCHANGED <<log, parserVars>>
    BY <1>3 DEF PwLock, PwSignal, PwUnlock
  <2>0. QueuedMsgs' = QueuedMsgs
    BY <1>0, <2>1
  <2>2. HandedOverOnce'
    <3>1. CASE PwLock(p)
      BY <2>0, <3>1 DEF PwLock, HandedOverOnce
    <3>2. CASE PwSignal(p)
      BY <2>0, <3>2 DEF PwSignal, HandedOverOnce
    <3>3. CASE PwUnlock(p)
      <4>1. pmsg' = [pmsg EXCEPT ![p] = None] /\ ppc' = [ppc EXCEPT ![p] = "idle"]
        BY <3>3 DEF PwUnlock
      <4> QED BY <2>0, <4>1 DEF HandedOverOnce
    <3> QED BY <1>3, <3>1, <3>2, <3>3
  <2>3. LookingHasNone'
    BY <2>1 DEF LookingHasNone, parserVars
  <2> QED BY <2>2, <2>3
<1>4. ASSUME NEW c \in Parsers, Get(c) PROVE MessageInv'
  <2>1. queue[ServedBy[c]] # <<>> /\ queue[ServedBy[c]] \in Seq(Msgs)
    BY <1>4 DEF Get, GetFindsMessage
  <2>2. Head(queue[ServedBy[c]]) \in Msgs
    BY <2>1
  <2>3. HandedOverOnce'
    BY <1>0, <1>4 DEF Get, HandedOverOnce, producerVars
  <2>4. LookingHasNone'
    BY <1>4, <2>2 DEF Get, LookingHasNone
  <2> QED BY <2>3, <2>4
<1>5. ASSUME NEW c \in Parsers,
             Lock(c) \/ Wait(c) \/ SpuriousWakeup(c) \/ LeaveLoop(c) \/ ParseUnlock(c) \/
                 ParseReturn(c)
      PROVE  MessageInv'
  <2>1. UNCHANGED <<log, producerVars>>
    BY <1>5 DEF Lock, Wait, SpuriousWakeup, LeaveLoop, ParseUnlock, ParseReturn
  <2>2. HandedOverOnce'
    BY <1>0, <2>1 DEF HandedOverOnce, producerVars
  <2>3. LookingHasNone'
    BY <1>5 DEF Lock, Wait, SpuriousWakeup, LeaveLoop, ParseUnlock, ParseReturn,
        LookingHasNone, parserVars
  <2> QED BY <2>2, <2>3
<1>6. CASE ChangeEngineMaps \/ UNCHANGED vars
  BY <1>0, <1>6 DEF ChangeEngineMaps, vars, producerVars, parserVars, HandedOverOnce,
      LookingHasNone
<1> QED BY <1>1, <1>2, <1>3, <1>4, <1>5, <1>6 DEF Next, Producer, Parser

\* With one parser per queue, ParserOf is the inverse of ServedBy.
LEMMA ParserOfQueue ==
    ASSUME OneParserPerQueue
    PROVE  /\ \A q \in Queues : ParserOf(q) \in Parsers /\ ServedBy[ParserOf(q)] = q
           /\ \A c \in Parsers : ParserOf(ServedBy[c]) = c
  BY Constants DEF OneParserPerQueue, ParserOf

LEMMA RefinedInit == Init => D!Init
  BY Constants, ConstantsAssumption DEF Init, D!Init, QueuedMsgs, ParserOf

\* Putting is Submit, getting is Start, returning from parse is Finish; every
\* other step of a thread is invisible.
LEMMA RefinedNext ==
    ASSUME OneParserPerQueue, IInv, MessageInv, [Next]_vars
    PROVE  [D!Next]_(D!vars)
<1> USE Constants, ParserOfQueue DEF IInv, TypeOK, MessageInv
<1> DEFINE Current == [q \in Queues |-> cmsg[ParserOf(q)]]
<1>0. UNCHANGED log => QueuedMsgs' = QueuedMsgs
  BY DEF QueuedMsgs
<1>1. UNCHANGED cmsg => Current' = Current
  BY DEF ParserOf
<1>2. ASSUME NEW p \in Producers, PwPut(p) PROVE D!Next
  <2>1. pmap[p] \in Queues /\ pmsg[p] \in Msgs
    BY <1>2 DEF PwPut, ProducerOwns, ProducerHasMessage
  <2>2. pmsg[p] \notin QueuedMsgs
    BY <1>2 DEF PwPut, HandedOverOnce
  <2>3. QueuedMsgs' = QueuedMsgs \cup {pmsg[p]}
    BY <1>2, PutQueues
  <2>4. D!Submit(pmsg[p], pmap[p])
    BY <1>1, <1>2, <2>2, <2>3 DEF D!Submit, PwPut, parserVars
  <2> QED BY <2>1, <2>4 DEF D!Next
<1>3. ASSUME NEW c \in Parsers, Get(c) PROVE D!Next
  <2> DEFINE q == ServedBy[c]
  <2>1. q \in Queues /\ ParserOf(q) = c /\ queue[q] # <<>>
    BY <1>3 DEF Get, GetFindsMessage
  <2>2. Current[q] = None
    BY <1>3, <2>1 DEF Get, LookingHasNone
  <2>3. Current' = [Current EXCEPT ![q] = Head(queue[q])]
    <3>1. \A r \in Queues : Current'[r] = IF r = q THEN Head(queue[q]) ELSE Current[r]
      BY <1>3, <2>1 DEF Get, ParserOf
    <3> QED BY <2>1, <3>1
  <2>4. D!Start(q)
    BY <1>0, <1>3, <2>1, <2>2, <2>3 DEF D!Start, Get
  <2> QED BY <2>1, <2>4 DEF D!Next
<1>4. ASSUME NEW c \in Parsers, ParseReturn(c) PROVE D!Next
  <2> DEFINE q == ServedBy[c]
  <2>1. q \in Queues /\ ParserOf(q) = c
    OBVIOUS
  <2>2. Current[q] # None
    BY <1>4, <2>1 DEF ParseReturn, LookingHasNone
  <2>3. Current' = [Current EXCEPT ![q] = None]
    <3>1. \A r \in Queues : Current'[r] = IF r = q THEN None ELSE Current[r]
      BY <1>4, <2>1 DEF ParseReturn, ParserOf
    <3> QED BY <2>1, <3>1
  <2>4. D!Finish(q)
    BY <1>0, <1>4, <2>1, <2>2, <2>3 DEF D!Finish, ParseReturn
  <2> QED BY <2>1, <2>4 DEF D!Next
<1>5. ASSUME NEW p \in Producers, CallPw(p) \/ PwLock(p) \/ PwSignal(p) \/ PwUnlock(p)
      PROVE  UNCHANGED D!vars
  BY <1>0, <1>1, <1>5 DEF D!vars, CallPw, PwLock, PwSignal, PwUnlock, parserVars
<1>6. ASSUME NEW c \in Parsers,
             Lock(c) \/ Wait(c) \/ SpuriousWakeup(c) \/ LeaveLoop(c) \/ ParseUnlock(c)
      PROVE  UNCHANGED D!vars
  BY <1>0, <1>1, <1>6 DEF D!vars, Lock, Wait, SpuriousWakeup, LeaveLoop, ParseUnlock,
      parserVars
<1>7. CASE ChangeEngineMaps \/ UNCHANGED vars
  BY <1>0, <1>1, <1>7 DEF D!vars, ChangeEngineMaps, vars, parserVars
<1> QED BY <1>2, <1>3, <1>4, <1>5, <1>6, <1>7 DEF Next, Producer, Parser

\* An engine with one parser per queue implements the abstract queues of
\* Dispatch: each message is queued once and a queue is served first in first
\* out, one message at a time, for any number of threads.
THEOREM Refinement == ASSUME OneParserPerQueue PROVE Spec => D!Spec
<1>1. Spec => []MessageInv
  BY MessageInit, MessageNext, Invariance, PTL DEF Spec
<1>2. IInv /\ MessageInv /\ [Next]_vars => [D!Next]_(D!vars)
  BY RefinedNext
<1> QED BY <1>1, <1>2, RefinedInit, Invariance, PTL DEF Spec, D!Spec

-----------------------------------------------------------------------------
(***************************************************************************)
(* Order.  The queue of a message is chosen from its modulus and the       *)
(* number of queues, so order within a call is a promise only while the    *)
(* number stays the one the engine was configured with: a tuning command   *)
(* that changes it sends the later messages of a call to another queue.    *)
(*                                                                         *)
(* PlaceInv and OrderInv relate the three sequences a message goes         *)
(* through: the log of p_w, its queue, and the parses that began.  At any  *)
(* time a queue holds messages that were logged and not parsed yet, each   *)
(* once; while the number is the configured one, a queue holds the         *)
(* messages of its own bucket, in the order of the log, and nothing of the *)
(* log is missing.                                                         *)
(***************************************************************************)
QueuesHold ==
    \A q \in Queues : \A k \in DOMAIN queue[q] :
        InSeq(queue[q][k], log) /\ ~InSeq(queue[q][k], started)
HeldOnce ==
    \A q, r \in Queues : \A k \in DOMAIN queue[q], l \in DOMAIN queue[r] :
        queue[q][k] = queue[r][l] => q = r /\ k = l
StartedOnce == \A a, b \in DOMAIN started : started[a] = started[b] => a = b
StartedLogged == \A a \in DOMAIN started : InSeq(started[a], log)

PlaceInv == QueuesHold /\ HeldOnce /\ StartedOnce /\ StartedLogged

Bucket(m) == Modulus[m] % Configured

Routed ==
    /\ engineMaps = Configured
    /\ \A p \in Producers : ppc[p] \in {"lock", "put", "signal", "unlock"} =>
          pmap[p] = Bucket(pmsg[p])
QueuesRouted == \A q \in Queues : \A k \in DOMAIN queue[q] : Bucket(queue[q][k]) = q
LogOnce == \A i, j \in DOMAIN log : log[i] = log[j] => i = j
QueuesOrdered ==
    \A q \in Queues : \A k, l \in DOMAIN queue[q] : \A i, j \in DOMAIN log :
        k < l /\ log[i] = queue[q][k] /\ log[j] = queue[q][l] => i < j
NoneLost ==
    \A i \in DOMAIN log : InSeq(log[i], started) \/ InSeq(log[i], queue[Bucket(log[i])])
StartedOrder ==
    \A i, j \in DOMAIN log, b \in DOMAIN started :
        i < j /\ Bucket(log[i]) = Bucket(log[j]) /\ log[j] = started[b] =>
            \E a \in DOMAIN started : a < b /\ started[a] = log[i]

SeqInv ==
    /\ QueuesRouted
    /\ LogOnce
    /\ QueuesOrdered
    /\ NoneLost
    /\ StartedOrder
OrderInv == ~retuned => Routed /\ SeqInv

\* The positions of a sequence and of the same with an element at its end.
LEMMA AppendAt ==
    ASSUME NEW s \in Seq(Msgs), NEW m \in Msgs
    PROVE  /\ Append(s, m) \in Seq(Msgs)
           /\ DOMAIN s = 1 .. Len(s) /\ Len(s) \in Nat
           /\ DOMAIN Append(s, m) = 1 .. Len(s) + 1
           /\ \A i \in 1 .. Len(s) : Append(s, m)[i] = s[i]
           /\ Append(s, m)[Len(s) + 1] = m
  OBVIOUS

\* The positions of a sequence and of the same without its first element.
LEMMA TailAt ==
    ASSUME NEW s \in Seq(Msgs), s # <<>>
    PROVE  /\ Tail(s) \in Seq(Msgs)
           /\ DOMAIN s = 1 .. Len(s) /\ Len(s) \in Nat /\ Len(s) >= 1
           /\ DOMAIN Tail(s) = 1 .. Len(s) - 1
           /\ \A i \in 1 .. Len(s) - 1 : Tail(s)[i] = s[i + 1]
           /\ Head(s) = s[1] /\ Head(s) \in Msgs
  OBVIOUS

LEMMA OrderInit == Init => PlaceInv /\ OrderInv
  BY DEF Init, OrderInv, Routed, SeqInv, PlaceInv, QueuesHold, HeldOnce, QueuesRouted,
      LogOnce, QueuesOrdered, NoneLost, StartedOnce, StartedLogged, StartedOrder

\* While the number of queues stays, a message goes to the queue of its bucket.
LEMMA RoutedNext ==
    ASSUME IInv, ~retuned => Routed, [Next]_vars, ~retuned' PROVE Routed'
<1> USE DEF IInv, TypeOK
<1>0. ~retuned /\ engineMaps' = engineMaps
  BY DEF Next, Producer, Parser, CallPw, PwLock, PwPut, PwSignal, PwUnlock, ChangeEngineMaps,
      Lock, Wait, SpuriousWakeup, LeaveLoop, Get, ParseUnlock, ParseReturn, tuningVars, vars
<1>1. ASSUME NEW p \in Producers, CallPw(p) PROVE Routed'
  <2>1. PICK m \in Msgs : /\ pmsg' = [pmsg EXCEPT ![p] = m]
                          /\ pmap' = [pmap EXCEPT ![p] = modEngineMap(m)]
    BY <1>1 DEF CallPw
  <2>2. modEngineMap(m) = Bucket(m)
    BY <1>0, Constants DEF Routed, modEngineMap, Bucket
  <2>3. \A r \in Producers : r # p => ppc'[r] = ppc[r]
    BY <1>1 DEF CallPw
  <2> QED BY <1>0, <2>1, <2>2, <2>3 DEF Routed, Bucket
<1>2. ASSUME NEW p \in Producers, PwLock(p) \/ PwPut(p) \/ PwSignal(p) \/ PwUnlock(p)
      PROVE Routed'
  <2>1. CASE PwLock(p)
    BY <1>0, <2>1 DEF PwLock, Routed, Bucket
  <2>2. CASE PwPut(p)
    BY <1>0, <2>2 DEF PwPut, Routed, Bucket
  <2>3. CASE PwSignal(p)
    BY <1>0, <2>3 DEF PwSignal, Routed, Bucket
  <2>4. CASE PwUnlock(p)
    BY <1>0, <2>4 DEF PwUnlock, Routed, Bucket
  <2> QED BY <1>2, <2>1, <2>2, <2>3, <2>4
<1>3. ASSUME NEW c \in Parsers, Parser(c) PROVE Routed'
  BY <1>0, <1>3 DEF Parser, Lock, Wait, SpuriousWakeup, LeaveLoop, Get, ParseUnlock,
      ParseReturn, Routed, Bucket, producerVars
<1>4. CASE ChangeEngineMaps \/ UNCHANGED vars
  BY <1>0, <1>4 DEF ChangeEngineMaps, vars, producerVars, Routed, Bucket
<1> QED BY <1>1, <1>2, <1>3, <1>4 DEF Next, Producer

\* What is put is nowhere yet.
LEMMA PutPlace ==
    ASSUME IInv, MessageInv, PlaceInv, NEW p \in Producers, PwPut(p) PROVE PlaceInv'
<1> DEFINE m == pmsg[p]
           q == pmap[p]
           s == queue[q]
           n == Len(log)
           k0 == Len(s)
<1>1. /\ q \in Queues /\ m \in Msgs
      /\ log \in Seq(Msgs) /\ started \in Seq(Msgs) /\ queue \in [Queues -> Seq(Msgs)]
  BY DEF PwPut, IInv, TypeOK, ProducerOwns, ProducerHasMessage
<1>2. /\ log' = Append(log, m) /\ UNCHANGED started
      /\ queue' = [queue EXCEPT ![q] = Append(@, m)]
  BY DEF PwPut
<1>3. ~InSeq(m, log)
  BY DEF PwPut, MessageInv, HandedOverOnce, QueuedMsgs, InSeq
<1>4. /\ n \in Nat /\ DOMAIN log = 1 .. n /\ DOMAIN log' = 1 .. n + 1
      /\ \A i \in 1 .. n : log'[i] = log[i]
      /\ log'[n + 1] = m
  BY <1>1, <1>2, AppendAt
<1>5. \A x : InSeq(x, log') <=> InSeq(x, log) \/ x = m
  BY <1>4 DEF InSeq
<1>6. ~InSeq(m, started)
  BY <1>3 DEF InSeq, PlaceInv, StartedLogged
<1>7. \A r \in Queues : r # q => queue'[r] = queue[r]
  BY <1>1, <1>2
<1>8. /\ k0 \in Nat /\ DOMAIN s = 1 .. k0 /\ DOMAIN queue'[q] = 1 .. k0 + 1
      /\ \A k \in 1 .. k0 : queue'[q][k] = s[k]
      /\ queue'[q][k0 + 1] = m
  BY <1>1, <1>2, AppendAt
<1>9. \A r \in Queues : \A k \in DOMAIN queue[r] : queue[r][k] # m
  BY <1>3 DEF PlaceInv, QueuesHold
\* A place of a queue is an old one with its message, or the new one.
<1>10. ASSUME NEW r \in Queues, NEW k \in DOMAIN queue'[r]
       PROVE  \/ k \in DOMAIN queue[r] /\ queue'[r][k] = queue[r][k]
              \/ r = q /\ k = k0 + 1 /\ queue'[r][k] = m
  <2>1. CASE r # q
    BY <1>7, <2>1
  <2>2. CASE r = q
    <3>1. k \in 1 .. k0 \/ k = k0 + 1
      BY <1>8, <2>2
    <3> QED BY <1>8, <2>2, <3>1
  <2> QED BY <2>1, <2>2
<1> HIDE DEF m, q, n, s, k0
<1>11. QueuesHold'
  BY <1>2, <1>5, <1>6, <1>10 DEF PlaceInv, QueuesHold
<1>12. HeldOnce'
  <2> SUFFICES ASSUME NEW r \in Queues, NEW t \in Queues, NEW k \in DOMAIN queue'[r],
                      NEW l \in DOMAIN queue'[t], queue'[r][k] = queue'[t][l]
               PROVE  r = t /\ k = l
    BY DEF HeldOnce
  <2>1. CASE queue'[r][k] = m
    <3>1. r = q /\ k = k0 + 1
      BY <1>9, <1>10, <2>1
    <3>2. queue'[t][l] = m
      BY <2>1
    <3>3. t = q /\ l = k0 + 1
      BY <1>9, <1>10, <3>2
    <3> QED BY <3>1, <3>3
  <2>2. CASE queue'[r][k] # m
    <3>1. /\ k \in DOMAIN queue[r] /\ queue'[r][k] = queue[r][k]
          /\ l \in DOMAIN queue[t] /\ queue'[t][l] = queue[t][l]
      BY <1>10, <2>2
    <3>2. queue[r][k] = queue[t][l]
      BY <3>1
    <3> QED BY <3>1, <3>2 DEF PlaceInv, HeldOnce
  <2> QED BY <2>1, <2>2
<1>13. StartedOnce' /\ StartedLogged'
  BY <1>2, <1>5 DEF PlaceInv, StartedOnce, StartedLogged
<1> QED BY <1>11, <1>12, <1>13 DEF PlaceInv

\* What is taken leaves its only place.
LEMMA GetPlace ==
    ASSUME IInv, PlaceInv, NEW c \in Parsers, Get(c) PROVE PlaceInv'
<1> DEFINE q == ServedBy[c]
           s == queue[q]
           h == Head(s)
           n == Len(started)
<1>1. /\ q \in Queues /\ s # <<>> /\ s \in Seq(Msgs)
      /\ log \in Seq(Msgs) /\ started \in Seq(Msgs) /\ queue \in [Queues -> Seq(Msgs)]
  BY Constants DEF Get, IInv, TypeOK, GetFindsMessage
<1>2. /\ UNCHANGED log
      /\ started' = Append(started, h)
      /\ queue' = [queue EXCEPT ![q] = Tail(@)]
  BY DEF Get
<1>3. /\ Len(s) \in Nat /\ Len(s) >= 1 /\ DOMAIN s = 1 .. Len(s)
      /\ DOMAIN queue'[q] = 1 .. Len(s) - 1
      /\ \A k \in 1 .. Len(s) - 1 : queue'[q][k] = s[k + 1]
      /\ h = s[1] /\ h \in Msgs
  BY <1>1, <1>2, TailAt
<1>4. \A r \in Queues : r # q => queue'[r] = queue[r]
  BY <1>1, <1>2
<1>5. /\ n \in Nat /\ DOMAIN started = 1 .. n /\ DOMAIN started' = 1 .. n + 1
      /\ \A a \in 1 .. n : started'[a] = started[a]
      /\ started'[n + 1] = h
  BY <1>1, <1>2, <1>3, AppendAt
<1>6. \A x : InSeq(x, started') <=> InSeq(x, started) \/ x = h
  BY <1>5 DEF InSeq
<1>7. InSeq(h, log) /\ ~InSeq(h, started)
  BY <1>1, <1>3 DEF PlaceInv, QueuesHold
\* A place of a queue was there before, one further back in the thread's own.
<1>8. ASSUME NEW r \in Queues, NEW k \in DOMAIN queue'[r]
      PROVE  LET o == IF r = q THEN k + 1 ELSE k IN
             /\ o \in DOMAIN queue[r] /\ queue'[r][k] = queue[r][o]
             /\ queue[r][o] # h
  <2>1. CASE r = q
    <3>1. k + 1 \in 2 .. Len(s) /\ queue'[q][k] = s[k + 1]
      BY <1>3, <2>1
    <3>2. s[k + 1] # s[1]
      BY <1>1, <1>3, <3>1 DEF PlaceInv, HeldOnce
    <3> QED BY <1>3, <2>1, <3>1, <3>2
  <2>2. CASE r # q
    <3>1. queue'[r] = queue[r]
      BY <1>4, <2>2
    <3>2. queue[r][k] # s[1]
      BY <1>1, <1>3, <2>2, <3>1 DEF PlaceInv, HeldOnce
    <3> QED BY <1>3, <2>2, <3>1, <3>2
  <2> QED BY <2>1, <2>2
<1> HIDE DEF q, s, h, n
<1>9. QueuesHold'
  BY <1>2, <1>6, <1>8 DEF PlaceInv, QueuesHold
<1>10. HeldOnce'
  <2> SUFFICES ASSUME NEW r \in Queues, NEW t \in Queues, NEW k \in DOMAIN queue'[r],
                      NEW l \in DOMAIN queue'[t], queue'[r][k] = queue'[t][l]
               PROVE  r = t /\ k = l
    BY DEF HeldOnce
  <2> DEFINE o == IF r = q THEN k + 1 ELSE k
             u == IF t = q THEN l + 1 ELSE l
  <2>1. o \in DOMAIN queue[r] /\ u \in DOMAIN queue[t] /\ queue[r][o] = queue[t][u]
    BY <1>8
  <2>2. r = t /\ o = u
    BY <2>1 DEF PlaceInv, HeldOnce
  <2>3. k \in Nat /\ l \in Nat
    <3>1. \A x \in Queues : DOMAIN queue[x] \subseteq Nat
      BY <1>1
    <3>2. \A x \in Queues : x # q => DOMAIN queue'[x] \subseteq Nat
      BY <1>4, <3>1
    <3> QED BY <1>3, <3>2
  <2>4. CASE r = q
    BY <2>2, <2>3, <2>4
  <2>5. CASE r # q
    BY <2>2, <2>3, <2>5
  <2> QED BY <2>4, <2>5
<1>11. StartedOnce'
  <2> SUFFICES ASSUME NEW a \in 1 .. n + 1, NEW b \in 1 .. n + 1, started'[a] = started'[b]
               PROVE  a = b
    BY <1>5 DEF StartedOnce
  <2>1. \A x \in 1 .. n : started[x] # h
    BY <1>5, <1>7 DEF InSeq
  <2> QED BY <1>5, <2>1 DEF PlaceInv, StartedOnce
<1>12. StartedLogged'
  <2> SUFFICES ASSUME NEW a \in 1 .. n + 1 PROVE InSeq(started'[a], log)
    BY <1>2, <1>5 DEF StartedLogged
  <2>1. CASE a = n + 1
    BY <1>5, <1>7, <2>1
  <2>2. CASE a \in 1 .. n
    BY <1>5, <2>2 DEF PlaceInv, StartedLogged
  <2> QED BY <1>5, <2>1, <2>2
<1> QED BY <1>9, <1>10, <1>11, <1>12 DEF PlaceInv

\* What is put comes after everything in its queue, and after all of the log.
LEMMA PutOrder ==
    ASSUME IInv, MessageInv, PlaceInv, Routed, SeqInv, NEW p \in Producers, PwPut(p)
    PROVE  SeqInv'
<1> DEFINE m == pmsg[p]
           q == pmap[p]
           n == Len(log)
<1>1. /\ q \in Queues /\ m \in Msgs /\ q = Bucket(m)
      /\ log \in Seq(Msgs) /\ started \in Seq(Msgs) /\ queue \in [Queues -> Seq(Msgs)]
  BY DEF PwPut, IInv, TypeOK, ProducerOwns, ProducerHasMessage, Routed
<1>2. /\ log' = Append(log, m) /\ UNCHANGED started
      /\ queue' = [queue EXCEPT ![q] = Append(@, m)]
  BY DEF PwPut
<1>3. ~InSeq(m, log)
  BY DEF PwPut, MessageInv, HandedOverOnce, QueuedMsgs, InSeq
<1>4. /\ n \in Nat /\ DOMAIN log = 1 .. n /\ DOMAIN log' = 1 .. n + 1
      /\ \A i \in 1 .. n : log'[i] = log[i]
      /\ log'[n + 1] = m
  BY <1>1, <1>2, AppendAt
<1>5. \A x : InSeq(x, log') <=> InSeq(x, log) \/ x = m
  BY <1>4 DEF InSeq
<1>6. ~InSeq(m, started)
  BY <1>3 DEF InSeq, PlaceInv, StartedLogged
<1>7. \A r \in Queues : r # q => queue'[r] = queue[r]
  BY <1>1, <1>2
<1> DEFINE s == queue[q]
           k0 == Len(s)
<1>8. /\ k0 \in Nat /\ DOMAIN s = 1 .. k0 /\ DOMAIN queue'[q] = 1 .. k0 + 1
      /\ \A k \in 1 .. k0 : queue'[q][k] = s[k]
      /\ queue'[q][k0 + 1] = m
  BY <1>1, <1>2, AppendAt
<1>9. \A k \in DOMAIN s : s[k] # m
  BY <1>1, <1>3 DEF PlaceInv, QueuesHold
<1> HIDE DEF m, q, n, s, k0
<1>10. QueuesRouted'
  <2> SUFFICES ASSUME NEW r \in Queues, NEW k \in DOMAIN queue'[r]
               PROVE  Bucket(queue'[r][k]) = r
    BY DEF QueuesRouted, Bucket
  <2>1. CASE r # q
    BY <1>7, <2>1 DEF SeqInv, QueuesRouted
  <2>2. CASE r = q /\ k \in 1 .. k0
    BY <1>8, <2>2 DEF SeqInv, QueuesRouted, s
  <2>3. CASE r = q /\ k = k0 + 1
    BY <1>1, <1>8, <2>3
  <2> QED BY <1>8, <2>1, <2>2, <2>3
<1>11. LogOnce'
  <2> SUFFICES ASSUME NEW i \in 1 .. n + 1, NEW j \in 1 .. n + 1, log'[i] = log'[j]
               PROVE  i = j
    BY <1>4 DEF LogOnce
  <2>1. \A l \in 1 .. n : log[l] # m
    BY <1>3, <1>4 DEF InSeq
  <2> QED BY <1>4, <2>1 DEF SeqInv, LogOnce
<1>12. QueuesOrdered'
  <2> SUFFICES ASSUME NEW r \in Queues, NEW k \in DOMAIN queue'[r],
                      NEW l \in DOMAIN queue'[r],
                      NEW i \in DOMAIN log', NEW j \in DOMAIN log',
                      k < l, log'[i] = queue'[r][k], log'[j] = queue'[r][l]
               PROVE  i < j
    BY DEF QueuesOrdered
  <2>0. \A x \in 1 .. n : log[x] # m
    BY <1>3, <1>4 DEF InSeq
  <2>1. CASE r # q
    <3>1. queue'[r] = queue[r]
      BY <1>7, <2>1
    <3>2. queue[r][k] # m /\ queue[r][l] # m
      BY <1>3, <3>1 DEF PlaceInv, QueuesHold
    <3>3. i \in 1 .. n /\ j \in 1 .. n
      BY <1>4, <3>1, <3>2
    <3> QED BY <1>4, <3>1, <3>3 DEF SeqInv, QueuesOrdered
  <2>2. CASE r = q
    <3>1. k \in 1 .. k0 /\ queue'[r][k] = s[k] /\ s[k] # m
      BY <1>8, <1>9, <2>2
    <3>2. i \in 1 .. n
      BY <1>4, <3>1
    <3>3. CASE l = k0 + 1
      <4>1. j = n + 1
        BY <1>4, <1>8, <2>0, <2>2, <3>3
      <4> QED BY <1>4, <3>2, <4>1
    <3>4. CASE l \in 1 .. k0
      <4>1. queue'[r][l] = s[l] /\ s[l] # m
        BY <1>8, <1>9, <2>2, <3>4
      <4>2. j \in 1 .. n
        BY <1>4, <4>1
      <4>3. log[i] = queue[r][k] /\ log[j] = queue[r][l] /\ k \in DOMAIN queue[r] /\
            l \in DOMAIN queue[r]
        BY <1>4, <1>8, <2>2, <3>1, <3>2, <3>4, <4>1, <4>2 DEF s
      <4> QED BY <1>4, <3>2, <4>2, <4>3 DEF SeqInv, QueuesOrdered
    <3> QED BY <1>8, <2>2, <3>3, <3>4
  <2> QED BY <2>1, <2>2
<1>13. NoneLost'
  <2> SUFFICES ASSUME NEW i \in 1 .. n + 1
               PROVE  InSeq(log'[i], started') \/ InSeq(log'[i], queue'[Bucket(log'[i])])
    BY <1>4 DEF NoneLost, Bucket
  <2>1. CASE i = n + 1
    <3>1. InSeq(m, queue'[q])
      BY <1>8 DEF InSeq
    <3> QED BY <1>1, <1>4, <2>1, <3>1
  <2>2. CASE i \in 1 .. n
    <3>1. log'[i] = log[i] /\ i \in DOMAIN log
      BY <1>4, <2>2
    <3>2. InSeq(log[i], started) \/ InSeq(log[i], queue[Bucket(log[i])])
      BY <3>1 DEF SeqInv, NoneLost
    <3>3. Bucket(log[i]) = q /\ InSeq(log[i], s) => InSeq(log[i], queue'[q])
      BY <1>8 DEF InSeq
    <3>4. Bucket(log[i]) # q /\ Bucket(log[i]) \in Queues =>
              queue'[Bucket(log[i])] = queue[Bucket(log[i])]
      BY <1>7
    <3>5. log[i] \in Msgs
      BY <1>1, <3>1
    <3>6. Bucket(log[i]) \in Queues
      BY <3>5, Constants DEF Bucket, Queues
    <3>7. CASE Bucket(log[i]) = q
      <4>1. InSeq(log[i], started) \/ InSeq(log[i], queue'[Bucket(log[i])])
        BY <3>2, <3>3, <3>7 DEF s
      <4> QED BY <1>2, <3>1, <4>1
    <3>8. CASE Bucket(log[i]) # q
      <4>1. InSeq(log[i], started) \/ InSeq(log[i], queue'[Bucket(log[i])])
        BY <3>2, <3>4, <3>6, <3>8
      <4> QED BY <1>2, <3>1, <4>1
    <3> QED BY <3>7, <3>8
  <2> QED BY <1>4, <2>1, <2>2
<1>14. StartedOrder'
  <2> SUFFICES ASSUME NEW i \in 1 .. n + 1, NEW j \in 1 .. n + 1, NEW b \in DOMAIN started,
                      i < j, Bucket(log'[i]) = Bucket(log'[j]), log'[j] = started[b]
               PROVE  \E a \in DOMAIN started : a < b /\ started[a] = log'[i]
    BY <1>2, <1>4 DEF StartedOrder, Bucket
  <2>1. j \in 1 .. n
    BY <1>4, <1>6 DEF InSeq
  <2>2. i \in 1 .. n /\ log'[i] = log[i] /\ log'[j] = log[j]
    BY <1>4, <2>1
  <2>3. i \in DOMAIN log /\ j \in DOMAIN log
    BY <1>4, <2>1, <2>2
  <2>4. Bucket(log[i]) = Bucket(log[j]) /\ log[j] = started[b]
    BY <2>2
  <2>5. StartedOrder
    BY DEF SeqInv
  <2>6. \E a \in DOMAIN started : a < b /\ started[a] = log[i]
    BY <2>3, <2>4, <2>5 DEF StartedOrder
  <2> QED BY <2>2, <2>6
<1> QED BY <1>10, <1>11, <1>12, <1>13, <1>14 DEF SeqInv

\* What is taken is the oldest of its bucket that was not parsed yet.
LEMMA GetOrder ==
    ASSUME IInv, PlaceInv, SeqInv, NEW c \in Parsers, Get(c) PROVE SeqInv'
<1> DEFINE q == ServedBy[c]
           s == queue[q]
           h == Head(s)
           n == Len(started)
<1>1. /\ q \in Queues /\ s # <<>> /\ s \in Seq(Msgs)
      /\ log \in Seq(Msgs) /\ started \in Seq(Msgs) /\ queue \in [Queues -> Seq(Msgs)]
  BY Constants DEF Get, IInv, TypeOK, GetFindsMessage
<1>2. /\ UNCHANGED log
      /\ started' = Append(started, h)
      /\ queue' = [queue EXCEPT ![q] = Tail(@)]
  BY DEF Get
<1>3. /\ Len(s) \in Nat /\ Len(s) >= 1 /\ DOMAIN s = 1 .. Len(s)
      /\ DOMAIN queue'[q] = 1 .. Len(s) - 1
      /\ \A k \in 1 .. Len(s) - 1 : queue'[q][k] = s[k + 1]
      /\ h = s[1] /\ h \in Msgs
  BY <1>1, <1>2, TailAt
<1>4. \A r \in Queues : r # q => queue'[r] = queue[r]
  BY <1>1, <1>2
<1>5. /\ n \in Nat /\ DOMAIN started = 1 .. n /\ DOMAIN started' = 1 .. n + 1
      /\ \A a \in 1 .. n : started'[a] = started[a]
      /\ started'[n + 1] = h
  BY <1>1, <1>2, <1>3, AppendAt
<1>6. \A x : InSeq(x, started') <=> InSeq(x, started) \/ x = h
  BY <1>5 DEF InSeq
<1>7. Bucket(h) = q /\ InSeq(h, log) /\ ~InSeq(h, started)
  BY <1>1, <1>3 DEF PlaceInv, QueuesHold, SeqInv, QueuesRouted
<1>8. DOMAIN log = 1 .. Len(log) /\ Len(log) \in Nat
  BY <1>1
<1> HIDE DEF q, s, h, n
<1>10. QueuesRouted'
  <2> SUFFICES ASSUME NEW r \in Queues, NEW k \in DOMAIN queue'[r]
               PROVE  Bucket(queue'[r][k]) = r
    BY DEF QueuesRouted, Bucket
  <2>1. CASE r = q
    <3>1. k + 1 \in 2 .. Len(s) /\ queue'[r][k] = s[k + 1]
      BY <1>3, <2>1
    <3>2. k + 1 \in DOMAIN queue[q]
      BY <1>3, <3>1 DEF s
    <3> QED BY <1>1, <2>1, <3>1, <3>2 DEF SeqInv, QueuesRouted, s
  <2>2. CASE r # q
    BY <1>4, <2>2 DEF SeqInv, QueuesRouted
  <2> QED BY <2>1, <2>2
<1>11. LogOnce'
  BY <1>2 DEF SeqInv, LogOnce
<1>12. QueuesOrdered'
  <2> SUFFICES ASSUME NEW r \in Queues, NEW k \in DOMAIN queue'[r],
                      NEW l \in DOMAIN queue'[r],
                      NEW i \in DOMAIN log, NEW j \in DOMAIN log,
                      k < l, log[i] = queue'[r][k], log[j] = queue'[r][l]
               PROVE  i < j
    BY <1>2 DEF QueuesOrdered
  <2>1. CASE r = q
    <3>1. k \in 1 .. Len(s) - 1 /\ l \in 1 .. Len(s) - 1
      BY <1>3, <2>1
    <3>2. k + 1 \in DOMAIN s /\ l + 1 \in DOMAIN s /\ k + 1 < l + 1
      BY <1>3, <3>1
    <3>3. log[i] = s[k + 1] /\ log[j] = s[l + 1]
      BY <1>3, <2>1, <3>1
    <3> QED BY <1>1, <3>2, <3>3 DEF SeqInv, QueuesOrdered, s
  <2>2. CASE r # q
    <3>1. queue'[r] = queue[r]
      BY <1>4, <2>2
    <3> QED BY <3>1 DEF SeqInv, QueuesOrdered
  <2> QED BY <2>1, <2>2
<1>13. NoneLost'
  <2> SUFFICES ASSUME NEW i \in DOMAIN log
               PROVE  InSeq(log[i], started') \/ InSeq(log[i], queue'[Bucket(log[i])])
    BY <1>2 DEF NoneLost, Bucket
  <2>1. InSeq(log[i], started) \/ InSeq(log[i], queue[Bucket(log[i])])
    BY DEF SeqInv, NoneLost
  <2>2. log[i] \in Msgs
    BY <1>1
  <2>3. Bucket(log[i]) \in Queues
    BY <2>2, Constants DEF Bucket, Queues
  <2>4. CASE InSeq(log[i], s) /\ log[i] # h
    <3>1. PICK k \in 1 .. Len(s) : s[k] = log[i]
      BY <1>3, <2>4 DEF InSeq
    <3>2. k # 1
      BY <1>3, <2>4, <3>1
    <3>3. k - 1 \in DOMAIN queue'[q] /\ queue'[q][k - 1] = log[i]
      <4>1. k - 1 \in 1 .. Len(s) - 1 /\ (k - 1) + 1 = k
        BY <1>3, <3>2
      <4> QED BY <1>3, <3>1, <4>1
    <3>4. InSeq(log[i], queue'[q])
      BY <3>3 DEF InSeq
    <3>5. Bucket(log[i]) = q
      BY <1>1, <1>3, <3>1 DEF SeqInv, QueuesRouted, s
    <3> QED BY <3>4, <3>5
  <2>5. CASE Bucket(log[i]) # q
    BY <1>4, <1>6, <2>1, <2>3, <2>5
  <2> QED BY <1>6, <2>1, <2>4, <2>5 DEF s
<1>14. StartedOrder'
  <2> SUFFICES ASSUME NEW i \in DOMAIN log, NEW j \in DOMAIN log, NEW b \in 1 .. n + 1,
                      i < j, Bucket(log[i]) = Bucket(log[j]), log[j] = started'[b]
               PROVE  \E a \in 1 .. n + 1 : a < b /\ started'[a] = log[i]
    BY <1>2, <1>5 DEF StartedOrder, Bucket
  <2>1. CASE b \in 1 .. n
    <3>1. log[j] = started[b] /\ b \in DOMAIN started
      BY <1>5, <2>1
    <3>2. PICK a \in DOMAIN started : a < b /\ started[a] = log[i]
      BY <3>1 DEF SeqInv, StartedOrder
    <3> QED BY <1>5, <3>2
  <2>2. CASE b = n + 1
    <3>1. log[j] = h /\ Bucket(log[i]) = q
      BY <1>5, <1>7, <2>2
    <3>2. InSeq(log[i], started) \/ InSeq(log[i], s)
      BY <3>1 DEF SeqInv, NoneLost, s
    <3>3. ~InSeq(log[i], s)
      <4> SUFFICES ASSUME NEW k \in 1 .. Len(s), s[k] = log[i] PROVE FALSE
        BY <1>3 DEF InSeq
      <4>1. CASE k = 1
        BY <1>3, <1>8, <3>1, <4>1 DEF SeqInv, LogOnce
      <4>2. CASE 1 < k
        <5>1. 1 \in DOMAIN queue[q] /\ k \in DOMAIN queue[q] /\ log[j] = queue[q][1] /\
              log[i] = queue[q][k]
          BY <1>3, <3>1 DEF s
        <5>2. j < i
          BY <1>1, <4>2, <5>1 DEF SeqInv, QueuesOrdered
        <5> QED BY <1>8, <5>2
      <4> QED BY <1>3, <4>1, <4>2
    <3>4. PICK a \in 1 .. n : started[a] = log[i]
      BY <1>5, <3>2, <3>3 DEF InSeq
    <3>5. a \in 1 .. n + 1 /\ a < b /\ started'[a] = log[i]
      BY <1>5, <2>2, <3>4
    <3> QED BY <3>5
  <2> QED BY <1>5, <2>1, <2>2
<1> QED BY <1>10, <1>11, <1>12, <1>13, <1>14 DEF SeqInv

LEMMA SeqUnchanged ==
    ASSUME UNCHANGED <<queue, log, started>>
    PROVE  (PlaceInv => PlaceInv') /\ (SeqInv => SeqInv')
<1>1. PlaceInv => PlaceInv'
  BY DEF PlaceInv, QueuesHold, HeldOnce, StartedOnce, StartedLogged, InSeq
<1>2. SeqInv => SeqInv'
  BY DEF SeqInv, QueuesRouted, LogOnce, QueuesOrdered, NoneLost, StartedOrder, InSeq, Bucket
<1> QED BY <1>1, <1>2

LEMMA OrderNext ==
    ASSUME IInv, MessageInv, PlaceInv, OrderInv, [Next]_vars PROVE PlaceInv' /\ OrderInv'
<1>1. ASSUME NEW p \in Producers, Producer(p)
      PROVE  PlaceInv' /\ (Routed /\ SeqInv => SeqInv')
  <2>1. CASE PwPut(p)
    BY <2>1, PutPlace, PutOrder
  <2>2. CASE CallPw(p) \/ PwLock(p) \/ PwSignal(p) \/ PwUnlock(p)
    BY <2>2, SeqUnchanged DEF CallPw, PwLock, PwSignal, PwUnlock
  <2> QED BY <1>1, <2>1, <2>2 DEF Producer
<1>2. ASSUME NEW c \in Parsers, Parser(c)
      PROVE  PlaceInv' /\ (Routed /\ SeqInv => SeqInv')
  <2>1. CASE Get(c)
    BY <2>1, GetPlace, GetOrder
  <2>2. CASE Lock(c) \/ Wait(c) \/ SpuriousWakeup(c) \/ LeaveLoop(c) \/ ParseUnlock(c) \/
             ParseReturn(c)
    BY <2>2, SeqUnchanged DEF Lock, Wait, SpuriousWakeup, LeaveLoop, ParseUnlock, ParseReturn
  <2> QED BY <1>2, <2>1, <2>2 DEF Parser
<1>3. ASSUME ChangeEngineMaps \/ UNCHANGED vars
      PROVE  PlaceInv' /\ (Routed /\ SeqInv => SeqInv')
  BY <1>3, SeqUnchanged DEF ChangeEngineMaps, vars
<1>4. PlaceInv' /\ (Routed /\ SeqInv => SeqInv')
  BY <1>1, <1>2, <1>3 DEF Next
<1>5. retuned => retuned'
  BY DEF IInv, TypeOK, Next, Producer, Parser, CallPw, PwLock, PwPut, PwSignal, PwUnlock,
      ChangeEngineMaps, Lock, Wait, SpuriousWakeup, LeaveLoop, Get, ParseUnlock, ParseReturn,
      tuningVars, vars
<1>6. ~retuned' => Routed'
  BY RoutedNext DEF OrderInv
<1> QED BY <1>4, <1>5, <1>6 DEF OrderInv

LEMMA OrderImplies == PlaceInv /\ OrderInv => SameCallInOrder
<1> SUFFICES ASSUME PlaceInv, OrderInv PROVE SameCallInOrder
  OBVIOUS
<1>1. \A i, j \in DOMAIN log : Modulus[log[i]] = Modulus[log[j]] => Bucket(log[i]) =
      Bucket(log[j])
  BY DEF Bucket
<1> QED BY <1>1 DEF PlaceInv, OrderInv, SeqInv, StartedOnce, StartedLogged, StartedOrder,
            SameCallInOrder

\* Every message is parsed once, after it was queued, whatever numbers the
\* commands carry; and until one changes the number of queues, the messages of
\* one call are parsed in the order p_w queued them, for any number of
\* producers, queues and parsers per queue.
THEOREM CallsInOrder == Spec => []SameCallInOrder
<1>1. Spec => []MessageInv
  BY MessageInit, MessageNext, Invariance, PTL DEF Spec
<1>2. IInv /\ MessageInv /\ PlaceInv /\ OrderInv /\ [Next]_vars => PlaceInv' /\ OrderInv'
  BY OrderNext
<1> QED BY <1>1, <1>2, OrderInit, OrderImplies, Invariance, PTL DEF Spec
=============================================================================
