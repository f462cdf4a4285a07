------------------------------- MODULE Engine -------------------------------
(***************************************************************************)
(* ENGINE (ENGINE.cpp, SPIN.cpp): the work queues between the stages of    *)
(* SIPSL.  SIPENGINE, SL_CC, TRNSPRT, DAO and ALMGR are all ENGINEs.  Any  *)
(* thread hands a message over with p_w; the queue is chosen by the        *)
(* message's modulus, so that the messages of one call share a queue; each *)
(* queue is a std::queue behind condvarmutex, with a condition variable    *)
(* its parser threads wait on.  A DAO command can change the number of     *)
(* queues in use at any time.                                              *)
(***************************************************************************)
EXTENDS Integers, Sequences

CONSTANTS
    Producers,      \* threads that call p_w
    Parsers,        \* threads running threadparser
    ServedBy,       \* Parsers -> Queues: the queue of each parser thread
    NQueues,        \* queues allocated by the constructor
    Configured,     \* queues in use at the start (fewer with TUNEPERF)
    Tunings,        \* the values changeEngineMaps is called with, unchecked
    Msgs,           \* messages, each handed over once
    Modulus,        \* Msgs -> Nat: MESSAGE::getModulus
    None

Queues == 0 .. NQueues - 1

ASSUME ConstantsAssumption ==
    /\ NQueues \in Nat \ {0}
    /\ Configured \in 1 .. NQueues
    /\ Tunings \subseteq Int
    /\ ServedBy \in [Parsers -> Queues]
    /\ \A q \in Queues : \E c \in Parsers : ServedBy[c] = q
    /\ Modulus \in [Msgs -> Nat]
    /\ Producers \cap Parsers = {}
    /\ None \notin Msgs \cup Producers \cup Parsers \cup Nat

VARIABLES
    engineMaps,     \* ENGINE::EngineMaps
    retuned,        \* history: a command changed that number
    queue,          \* the std::queue of each SPINC
    owner,          \* condvarmutex of each SPINC
    waiting,        \* parsers inside pthread_cond_wait
    ppc, pmsg, pmap,    \* producers: where in p_w, with which message, mmod
    cpc, cmsg,      \* parsers: where in threadparser, with which message
    log,            \* history: messages in the order they were queued
    started         \* history: messages in the order their parse began

tuningVars == <<engineMaps, retuned>>
producerVars == <<ppc, pmsg, pmap>>
parserVars == <<cpc, cmsg>>
vars == <<tuningVars, queue, owner, waiting, producerVars, parserVars, log, started>>

\* Variant with a bug: the constructor forgets EngineMaps.
InitNoEngineMaps ==
    /\ engineMaps = 0
    /\ retuned = FALSE
    /\ queue = [q \in Queues |-> <<>>]
    /\ owner = [q \in Queues |-> None]
    /\ waiting = {}
    /\ ppc = [p \in Producers |-> "idle"]
    /\ pmsg = [p \in Producers |-> None]
    /\ pmap = [p \in Producers |-> None]
    /\ cpc = [c \in Parsers |-> "lock"]
    /\ cmsg = [c \in Parsers |-> None]
    /\ log = <<>>
    /\ started = <<>>

Init ==
    /\ engineMaps = Configured
    /\ retuned = FALSE
    /\ queue = [q \in Queues |-> <<>>]
    /\ owner = [q \in Queues |-> None]
    /\ waiting = {}
    /\ ppc = [p \in Producers |-> "idle"]
    /\ pmsg = [p \in Producers |-> None]
    /\ pmap = [p \in Producers |-> None]
    /\ cpc = [c \in Parsers |-> "lock"]
    /\ cmsg = [c \in Parsers |-> None]
    /\ log = <<>>
    /\ started = <<>>

InSeq(m, s) == \E i \in DOMAIN s : s[i] = m
Fresh(m) == ~InSeq(m, log) /\ \A p \in Producers : pmsg[p] # m

----------------------------------------------------------------------------
(* Producers: ENGINE::p_w.                                                 *)

\* Variant with a bug: the bucket itself is taken for the queue.
modEngineMapBucket(m) == Modulus[m]

\* modEngineMap: the queue is chosen before the mutex is taken.  The remainder
\* takes its sign from the modulus; dividing by 0 gives no index.
modEngineMap(m) ==
    CASE engineMaps > 0 -> Modulus[m] % engineMaps
      [] engineMaps < 0 -> Modulus[m] % (-engineMaps)
      [] OTHER -> None

\* Without an index, or with one that is not a queue's, the thread divides by
\* 0 or follows a wild pointer: the process ends, or nothing is known of it.
\* The model leaves that thread there.
CallPw(p) ==
    /\ ppc[p] = "idle"
    /\ \E m \in Msgs :
          /\ Fresh(m)
          /\ pmsg' = [pmsg EXCEPT ![p] = m]
          /\ pmap' = [pmap EXCEPT ![p] = modEngineMap(m)]
          /\ ppc' = [ppc EXCEPT ![p] = IF modEngineMap(m) \in Queues THEN "lock" ELSE "fault"]
    /\ UNCHANGED <<tuningVars, queue, owner, waiting, parserVars, log, started>>

PwLock(p) ==
    /\ ppc[p] = "lock"
    /\ owner[pmap[p]] = None
    /\ owner' = [owner EXCEPT ![pmap[p]] = p]
    /\ ppc' = [ppc EXCEPT ![p] = "put"]
    /\ UNCHANGED <<tuningVars, queue, waiting, pmsg, pmap, parserVars, log, started>>

PwPut(p) ==
    /\ ppc[p] = "put"
    /\ queue' = [queue EXCEPT ![pmap[p]] = Append(@, pmsg[p])]
    /\ log' = Append(log, pmsg[p])
    /\ ppc' = [ppc EXCEPT ![p] = "signal"]
    /\ UNCHANGED <<tuningVars, owner, waiting, pmsg, pmap, parserVars, started>>

\* Variant with a bug: the signal is forgotten.
PwSignalNobody(p) ==
    /\ ppc[p] = "signal"
    /\ ppc' = [ppc EXCEPT ![p] = "unlock"]
    /\ UNCHANGED <<tuningVars, queue, owner, waiting, pmsg, pmap, parserVars, log,
                   started>>

\* Variant with a bug: one condition variable for all the queues.
PwSignalAnyQueue(p) ==
    /\ ppc[p] = "signal"
    /\ IF waiting = {} THEN UNCHANGED waiting ELSE \E c \in waiting : waiting' = waiting \ {c}
    /\ ppc' = [ppc EXCEPT ![p] = "unlock"]
    /\ UNCHANGED <<tuningVars, queue, owner, pmsg, pmap, parserVars, log, started>>

\* pthread_cond_signal wakes one of the waiting parsers, if there is one.
Sleepers(q) == {c \in waiting : ServedBy[c] = q}

PwSignal(p) ==
    /\ ppc[p] = "signal"
    /\ \/ /\ Sleepers(pmap[p]) = {}
          /\ UNCHANGED waiting
       \/ \E c \in Sleepers(pmap[p]) : waiting' = waiting \ {c}
    /\ ppc' = [ppc EXCEPT ![p] = "unlock"]
    /\ UNCHANGED <<tuningVars, queue, owner, pmsg, pmap, parserVars, log, started>>

PwUnlock(p) ==
    /\ ppc[p] = "unlock"
    /\ owner' = [owner EXCEPT ![pmap[p]] = None]
    /\ ppc' = [ppc EXCEPT ![p] = "idle"]
    /\ pmsg' = [pmsg EXCEPT ![p] = None]
    /\ pmap' = [pmap EXCEPT ![p] = None]
    /\ UNCHANGED <<tuningVars, queue, waiting, parserVars, log, started>>

\* DAO::parse, command 20: the number changes under the producers' feet, to
\* whatever atoi reads from the command.
ChangeEngineMaps ==
    /\ \E k \in Tunings :
          /\ engineMaps' = k
          /\ retuned' = (retuned \/ k # engineMaps)
    /\ UNCHANGED <<queue, owner, waiting, producerVars, parserVars, log, started>>

----------------------------------------------------------------------------
(* Parsers: threadparser.                                                  *)

\* GETLOCK, and the mutex taken again on the way out of pthread_cond_wait.
Lock(c) ==
    /\ cpc[c] = "lock"
    /\ c \notin waiting
    /\ owner[ServedBy[c]] = None
    /\ owner' = [owner EXCEPT ![ServedBy[c]] = c]
    /\ cpc' = [cpc EXCEPT ![c] = "check"]
    /\ UNCHANGED <<tuningVars, queue, waiting, producerVars, cmsg, log, started>>

\* Empty: wait, which releases the mutex in the same step.
Wait(c) ==
    /\ cpc[c] = "check"
    /\ queue[ServedBy[c]] = <<>>
    /\ waiting' = waiting \cup {c}
    /\ owner' = [owner EXCEPT ![ServedBy[c]] = None]
    /\ cpc' = [cpc EXCEPT ![c] = "lock"]
    /\ UNCHANGED <<tuningVars, queue, producerVars, cmsg, log, started>>

\* pthread_cond_wait may return with no signal; the loop checks again.
SpuriousWakeup(c) ==
    /\ c \in waiting
    /\ waiting' = waiting \ {c}
    /\ UNCHANGED <<tuningVars, queue, owner, producerVars, parserVars, log, started>>

\* Variant with a bug: the queue is not checked again after the wait.
LeaveLoopUnchecked(c) ==
    /\ cpc[c] = "check"
    /\ cpc' = [cpc EXCEPT ![c] = "get"]
    /\ UNCHANGED <<tuningVars, queue, owner, waiting, producerVars, cmsg, log, started>>

LeaveLoop(c) ==
    /\ cpc[c] = "check"
    /\ queue[ServedBy[c]] # <<>>
    /\ cpc' = [cpc EXCEPT ![c] = "get"]
    /\ UNCHANGED <<tuningVars, queue, owner, waiting, producerVars, cmsg, log, started>>

\* Variant with a bug: the last message is taken first.
GetLast(c) ==
    LET q == ServedBy[c]
        n == Len(queue[q])
    IN
    /\ cpc[c] = "get"
    /\ cmsg' = [cmsg EXCEPT ![c] = queue[q][n]]
    /\ queue' = [queue EXCEPT ![q] = SubSeq(@, 1, n - 1)]
    /\ started' = Append(started, queue[q][n])
    /\ cpc' = [cpc EXCEPT ![c] = "unlock"]
    /\ UNCHANGED <<tuningVars, owner, waiting, producerVars, log>>

\* Variant with a bug: front without pop.
GetWithoutPop(c) ==
    LET q == ServedBy[c] IN
    /\ cpc[c] = "get"
    /\ cmsg' = [cmsg EXCEPT ![c] = Head(queue[q])]
    /\ started' = Append(started, Head(queue[q]))
    /\ cpc' = [cpc EXCEPT ![c] = "unlock"]
    /\ UNCHANGED <<tuningVars, queue, owner, waiting, producerVars, log>>

Get(c) ==
    LET q == ServedBy[c] IN
    /\ cpc[c] = "get"
    /\ cmsg' = [cmsg EXCEPT ![c] = Head(queue[q])]
    /\ queue' = [queue EXCEPT ![q] = Tail(@)]
    /\ started' = Append(started, Head(queue[q]))
    /\ cpc' = [cpc EXCEPT ![c] = "unlock"]
    /\ UNCHANGED <<tuningVars, owner, waiting, producerVars, log>>

\* The first statement of every parse releases the queue.
ParseUnlock(c) ==
    /\ cpc[c] = "unlock"
    /\ owner' = [owner EXCEPT ![ServedBy[c]] = None]
    /\ cpc' = [cpc EXCEPT ![c] = "parse"]
    /\ UNCHANGED <<tuningVars, queue, waiting, producerVars, cmsg, log, started>>

ParseReturn(c) ==
    /\ cpc[c] = "parse"
    /\ cmsg' = [cmsg EXCEPT ![c] = None]
    /\ cpc' = [cpc EXCEPT ![c] = "lock"]
    /\ UNCHANGED <<tuningVars, queue, owner, waiting, producerVars, log, started>>

Producer(p) == CallPw(p) \/ PwLock(p) \/ PwPut(p) \/ PwSignal(p) \/ PwUnlock(p)
Parser(c) ==
    \/ Lock(c) \/ Wait(c) \/ SpuriousWakeup(c) \/ LeaveLoop(c)
    \/ Get(c) \/ ParseUnlock(c) \/ ParseReturn(c)

Next ==
    \/ \E p \in Producers : Producer(p)
    \/ \E c \in Parsers : Parser(c)
    \/ ChangeEngineMaps

Spec == Init /\ [][Next]_vars

(***************************************************************************)
(* Every thread is scheduled, and one that waits for condvarmutex gets it  *)
(* if it is free again and again (it is held for a few statements only).   *)
(* No message has to arrive, no wakeup has to be spurious.                 *)
(***************************************************************************)
FairSpec ==
    /\ Spec
    /\ \A p \in Producers :
          /\ SF_vars(PwLock(p))
          /\ WF_vars(PwPut(p) \/ PwSignal(p) \/ PwUnlock(p))
    /\ \A c \in Parsers :
          /\ SF_vars(Lock(c))
          /\ WF_vars(Wait(c) \/ LeaveLoop(c) \/ Get(c) \/ ParseUnlock(c) \/ ParseReturn(c))

----------------------------------------------------------------------------
(***************************************************************************)
(* Properties.                                                             *)
(***************************************************************************)

\* Type invariant; the number of queues is the one of the constructor or of a
\* command.
TypeOK ==
    /\ engineMaps \in Tunings \cup {Configured}
    /\ retuned \in BOOLEAN
    /\ queue \in [Queues -> Seq(Msgs)]
    /\ owner \in [Queues -> Producers \cup Parsers \cup {None}]
    /\ waiting \in SUBSET Parsers
    /\ ppc \in [Producers -> {"idle", "lock", "put", "signal", "unlock", "fault"}]
    /\ pmsg \in [Producers -> Msgs \cup {None}]
    /\ pmap \in [Producers -> Nat \cup {None}]
    /\ cpc \in [Parsers -> {"lock", "check", "get", "unlock", "parse"}]
    /\ cmsg \in [Parsers -> Msgs \cup {None}]
    /\ log \in Seq(Msgs)
    /\ started \in Seq(Msgs)

\* However the number of queues was changed before, p_w finds a queue for its
\* message: it neither divides by 0 nor leaves the array sb.
PwFindsQueue == \A p \in Producers : ppc[p] # "fault"

\* No wakeup is lost: when a queue holds a message and all its parsers wait,
\* the producer that put it is about to signal.
NoLostWakeup ==
    \A q \in Queues :
        queue[q] # <<>> /\ (\A c \in Parsers : ServedBy[c] = q => c \in waiting) =>
            \E p \in Producers : ppc[p] = "signal" /\ pmap[p] = q

\* SPINC::get pops without looking: it is never called on an empty queue,
\* spurious wakeups and competing parsers included.
GetFindsMessage == \A c \in Parsers : cpc[c] = "get" => queue[ServedBy[c]] # <<>>

\* Every message is parsed once, after it was queued; and those of one call,
\* which have the same modulus, are parsed in the order they were queued: when
\* a message is parsed, the parse of each one queued before it has begun.  The
\* order is promised as long as no command changed the number of queues.
SameCallInOrder ==
    /\ \A a, b \in DOMAIN started : started[a] = started[b] => a = b
    /\ \A a \in DOMAIN started : InSeq(started[a], log)
    /\ ~retuned => \A i, j \in DOMAIN log, b \in DOMAIN started :
           i < j /\ Modulus[log[i]] = Modulus[log[j]] /\ log[j] = started[b] =>
               \E a \in DOMAIN started : a < b /\ started[a] = log[i]

\* Every message handed to p_w is parsed in the end.
EveryMessageParsed == \A m \in Msgs : (\E p \in Producers : pmsg[p] = m) ~> InSeq(m, started)

(***************************************************************************)
(* An engine with one parser per queue implements Dispatch.                *)
(***************************************************************************)
OneParserPerQueue == \A c1, c2 \in Parsers : ServedBy[c1] = ServedBy[c2] => c1 = c2
ParserOf(q) == CHOOSE c \in Parsers : ServedBy[c] = q
QueuedMsgs == {log[i] : i \in DOMAIN log}

D == INSTANCE Dispatch WITH
        given <- QueuedMsgs,
        pending <- queue,
        current <- [q \in Queues |-> cmsg[ParserOf(q)]]

ImplementsDispatch == D!FairSpec
=============================================================================
