------------------------------ MODULE Dispatch ------------------------------
(***************************************************************************)
(* What an ENGINE promises to the code that uses it: a message given to    *)
(* p_w is queued once, each queue is served first in first out, and one    *)
(* message of a queue is parsed at a time.  Threads, mutexes, condition    *)
(* variables and wakeups do not appear: they are how Engine does it.       *)
(***************************************************************************)
EXTENDS Sequences

CONSTANTS Queues, Msgs, None

VARIABLES
    given,      \* messages handed over so far
    pending,    \* per queue, the messages not yet taken
    current     \* per queue, the message being parsed

vars == <<given, pending, current>>

Init ==
    /\ given = {}
    /\ pending = [q \in Queues |-> <<>>]
    /\ current = [q \in Queues |-> None]

Submit(m, q) ==
    /\ m \notin given
    /\ given' = given \cup {m}
    /\ pending' = [pending EXCEPT ![q] = Append(@, m)]
    /\ UNCHANGED current

Start(q) ==
    /\ current[q] = None
    /\ pending[q] # <<>>
    /\ current' = [current EXCEPT ![q] = Head(pending[q])]
    /\ pending' = [pending EXCEPT ![q] = Tail(@)]
    /\ UNCHANGED given

Finish(q) ==
    /\ current[q] # None
    /\ current' = [current EXCEPT ![q] = None]
    /\ UNCHANGED <<given, pending>>

Next ==
    \/ \E m \in Msgs, q \in Queues : Submit(m, q)
    \/ \E q \in Queues : Start(q) \/ Finish(q)

Spec == Init /\ [][Next]_vars

\* The engine keeps serving: what is pending is taken, what is taken ends.
FairSpec == Spec /\ \A q \in Queues : WF_vars(Start(q)) /\ WF_vars(Finish(q))
=============================================================================
