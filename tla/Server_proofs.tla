---------------------------- MODULE Server_proofs ----------------------------
(***************************************************************************)
(* Proofs about Server: no message is used after it was purged, none is    *)
(* forgotten, for any number of calls and messages, any backlog and any    *)
(* TIMER_DOA of a tick or more.                                            *)
(***************************************************************************)
EXTENDS Server, Integers, FiniteSetTheorems, TLAPS

FromNetwork == {"INVITE", "180", "200", "ACK", "BYE", "200 to BYE"} \cup Others
ToCalls == {"INVITE", "180", "200", "ACK", "BYE", "200 to BYE", "REGISTER",
            "TIMER_S", "TIMER_G", "TIMER_A"}
Ops == {"lock", "send", "end", "request"}
Kinds == FromNetwork \cup ToCalls
         \cup {"copy", "INVITE to B", "200 to A", "BYE relayed"}
Arrivals == {"SIPENGINE", "SL_CC", "DAO"}
MessRecords == [kind : Kinds, call : Calls, side : Sides, of : Nat]
TodoRecords == [op : Ops, on : Nat]

\* Where a message is: in a queue on its way in, on its way out, or in the
\* hands of the thread of SL_CC.
Waits(m) == \E st \in Arrivals : \E i \in DOMAIN queue[st] : queue[st][i] = m
OnWay(m) == m = hand \/ \E i \in DOMAIN queue["TRNSPRT"] : queue["TRNSPRT"][i] = m
InHands(m) == \E i \in DOMAIN todo : todo[i].op # "request" /\ todo[i].on = m

\* The call keeps the message, or is about to.
Keeps(c, m) ==
    \/ m \in lockedMessages[c]
    \/ \E i \in DOMAIN todo : todo[i].op = "lock" /\ todo[i].on = m /\ mess[m].call = c

InHand == IF hand = 0 THEN 0 ELSE 1
Sends == {i \in DOMAIN todo : todo[i].op = "send"}

MessType ==
    /\ mess \in Seq(MessRecords)
    /\ \A m \in Ids : mess[m].of <= m
QueueType ==
    /\ queue \in [Stages -> Seq(Nat)]
    /\ \A st \in Stages : \A i \in DOMAIN queue[st] : queue[st][i] \in Ids
TodoType ==
    /\ todo \in Seq(TodoRecords)
    /\ \A i \in DOMAIN todo : todo[i].on \in Ids
SetsType ==
    /\ hand \in Ids \cup {0} /\ slow \in Nat /\ purged \subseteq Ids
    /\ lockedMessages \in [Calls -> SUBSET Ids]
    /\ incoming \in 0 .. MaxIncoming
CallType ==
    /\ object \in [Calls -> {"none", "live", "requested"}]
    /\ idle \in [Calls -> 0 .. TIMER_DOA + 1]
    /\ closed \in [Calls -> BOOLEAN] /\ over \in [Calls -> BOOLEAN]
    /\ DOMAIN role = Calls
    /\ \A c \in Calls : DOMAIN role[c] \subseteq Roles
    /\ \A c \in Calls : \A r \in DOMAIN role[c] : role[c][r] \in Ids
Typed == MessType /\ QueueType /\ TodoType /\ SetsType /\ CallType

\* Only what the engines know how to handle reaches them.
KindsInv ==
    /\ \A i \in DOMAIN queue["SIPENGINE"] :
          mess[queue["SIPENGINE"][i]].kind \in FromNetwork
    /\ \A i \in DOMAIN queue["SL_CC"] : mess[queue["SL_CC"][i]].kind \in ToCalls

\* A message is purged, or somewhere, and never both.
LifeInv ==
    \A m \in Ids :
        /\ m \in purged => ~Waits(m) /\ ~OnWay(m) /\ ~InHands(m) /\ ~IsLocked(m)
        /\ \/ m \in purged \/ Waits(m) \/ OnWay(m) \/ InHands(m) \/ IsLocked(m)
           \/ mess[m].kind = "REGISTER"

\* A message on its way in is there once, and nowhere else.
WaitInv ==
    /\ \A st1, st2 \in Arrivals : \A i \in DOMAIN queue[st1], j \in DOMAIN queue[st2] :
          queue[st1][i] = queue[st2][j] => st1 = st2 /\ i = j
    /\ \A m \in Ids : Waits(m) =>
          ~OnWay(m) /\ ~IsLocked(m) /\ \A i \in DOMAIN todo : todo[i].on # m

\* A message that is on its way out twice, or that SL_CC still works on, is
\* locked: the first to be done with it does not purge it.
ShareInv ==
    /\ \A i, j \in DOMAIN queue["TRNSPRT"] :
          i < j /\ queue["TRNSPRT"][i] = queue["TRNSPRT"][j] =>
             IsLocked(queue["TRNSPRT"][i])
    /\ \A i \in DOMAIN queue["TRNSPRT"] : queue["TRNSPRT"][i] = hand => IsLocked(hand)
    /\ \A m \in Ids : OnWay(m) /\ InHands(m) => IsLocked(m)

\* SL_CC works on the messages of one call; what it uses twice it locks first.
TodoInv ==
    \A i, j \in DOMAIN todo :
        /\ mess[todo[i].on].call = mess[todo[j].on].call
        /\ i < j /\ todo[i].on = todo[j].on =>
              todo[i].op = "lock" \/ todo[j].op = "request" \/ IsLocked(todo[i].on)

\* A call keeps its own messages, each pointer another one.
OwnInv ==
    \A c \in Calls :
        /\ \A m \in lockedMessages[c] : mess[m].call = c
        /\ \A r \in DOMAIN role[c] : Keeps(c, role[c][r])
        /\ \A r, q \in DOMAIN role[c] : role[c][r] = role[c][q] => r = q
        /\ \A s \in Sides : Has(c, BYE_SV[s]) => Has(c, STORED_MESSAGE[s])

\* What a requested call keeps and has sent was due at the last tick, if one
\* passed since, and is out, if two did.
TimeInv ==
    \A c \in Calls :
        /\ object[c] # "requested" => idle[c] = 0
        /\ idle[c] >= 1 =>
              /\ Keeps(c, hand) => slow >= 1
              /\ \A i \in DOMAIN queue["TRNSPRT"] :
                    Keeps(c, queue["TRNSPRT"][i]) => slow >= InHand + i
              /\ \A i \in DOMAIN todo :
                    todo[i].op = "send" /\ Keeps(c, todo[i].on) => slow >= Unsent
        /\ idle[c] >= 2 =>
              /\ \A m \in Ids : OnWay(m) => ~Keeps(c, m)
              /\ \A i \in DOMAIN todo : todo[i].op = "send" => ~Keeps(c, todo[i].on)

SInv ==
    /\ Typed
    /\ KindsInv
    /\ LifeInv
    /\ WaitInv
    /\ ShareInv
    /\ TodoInv
    /\ OwnInv
    /\ TimeInv

-----------------------------------------------------------------------------
(* Sequences.                                                              *)

LEMMA AppendAt ==
    ASSUME NEW S, NEW s \in Seq(S), NEW x \in S
    PROVE  /\ Append(s, x) \in Seq(S)
           /\ Len(Append(s, x)) = Len(s) + 1
           /\ DOMAIN Append(s, x) = 1 .. Len(s) + 1
           /\ \A i \in 1 .. Len(s) : Append(s, x)[i] = s[i]
           /\ Append(s, x)[Len(s) + 1] = x
  OBVIOUS

LEMMA TailAt ==
    ASSUME NEW S, NEW s \in Seq(S), s # <<>>
    PROVE  /\ Tail(s) \in Seq(S)
           /\ Len(s) \in Nat /\ Len(s) >= 1 /\ Head(s) = s[1] /\ Head(s) \in S
           /\ 1 \in DOMAIN s
           /\ Len(Tail(s)) = Len(s) - 1
           /\ DOMAIN Tail(s) = 1 .. Len(s) - 1
           /\ \A i \in 1 .. Len(s) - 1 : Tail(s)[i] = s[i + 1]
  OBVIOUS

LEMMA ConcatAt ==
    ASSUME NEW S, NEW s \in Seq(S), NEW t \in Seq(S)
    PROVE  /\ s \o t \in Seq(S)
           /\ Len(s \o t) = Len(s) + Len(t)
           /\ \A i \in 1 .. Len(s) : (s \o t)[i] = s[i]
           /\ \A i \in 1 .. Len(t) : (s \o t)[Len(s) + i] = t[i]
  OBVIOUS

LEMMA SeqDomain ==
    ASSUME NEW S, NEW s \in Seq(S)
    PROVE  /\ Len(s) \in Nat /\ DOMAIN s = 1 .. Len(s)
           /\ \A i \in DOMAIN s : s[i] \in S
  OBVIOUS

-----------------------------------------------------------------------------
(* What is still to be sent.                                               *)

LEMMA SendsFinite ==
    ASSUME TodoType
    PROVE  IsFiniteSet(Sends) /\ Cardinality(Sends) \in Nat
<1>1. Len(todo) \in Nat /\ DOMAIN todo = 1 .. Len(todo)
  BY SeqDomain DEF TodoType
<1>2. IsFiniteSet(1 .. Len(todo))
  BY <1>1, FS_Interval
<1>3. Sends \in SUBSET (1 .. Len(todo))
  BY <1>1 DEF Sends
<1>4. IsFiniteSet(Sends)
  BY <1>2, <1>3, FS_Subset
<1> QED BY <1>4, FS_CardinalityType

LEMMA UnsentIs ==
    ASSUME Typed
    PROVE  /\ Unsent = InHand + Len(queue["TRNSPRT"]) + Cardinality(Sends)
           /\ Len(queue["TRNSPRT"]) \in Nat /\ Cardinality(Sends) \in Nat
           /\ InHand \in {0, 1} /\ Unsent \in Nat
           /\ \A i \in DOMAIN todo : todo[i].op = "send" => Cardinality(Sends) >= 1
<1>1. IsFiniteSet(Sends) /\ Cardinality(Sends) \in Nat
  BY SendsFinite DEF Typed
<1>2. Len(queue["TRNSPRT"]) \in Nat
  <2>1. queue["TRNSPRT"] \in Seq(Nat)
    BY DEF Typed, QueueType, Stages
  <2> QED BY <2>1, SeqDomain
<1>3. ASSUME NEW i \in DOMAIN todo, todo[i].op = "send"
      PROVE  Cardinality(Sends) >= 1
  <2>1. i \in Sends
    BY <1>3 DEF Sends
  <2>2. Cardinality(Sends \ {i}) \in Nat /\ Cardinality(Sends \ {i}) = Cardinality(Sends) - 1
    BY <1>1, <2>1, FS_RemoveElement, FS_CardinalityType
  <2> QED BY <1>1, <2>2
<1>4. Unsent = InHand + Len(queue["TRNSPRT"]) + Cardinality(Sends)
  BY DEF Unsent, InHand, Sends
<1>5. InHand \in {0, 1}
  BY DEF InHand
<1> QED BY <1>1, <1>2, <1>3, <1>4, <1>5

\* Work takes the first thing off the list.
LEMMA SendsTail ==
    ASSUME TodoType, todo # <<>>, todo' = Tail(todo)
    PROVE  Cardinality(Sends') =
              IF Head(todo).op = "send" THEN Cardinality(Sends) - 1 ELSE Cardinality(Sends)
<1>1. /\ Len(todo) \in Nat /\ Len(todo) >= 1 /\ Head(todo) = todo[1]
      /\ DOMAIN todo = 1 .. Len(todo) /\ DOMAIN todo' = 1 .. Len(todo) - 1
      /\ \A i \in 1 .. Len(todo) - 1 : todo'[i] = todo[i + 1]
  <2>1. todo \in Seq(TodoRecords)
    BY DEF TodoType
  <2> QED BY <2>1, TailAt, SeqDomain
<1>2. IsFiniteSet(Sends)
  BY SendsFinite
<1> DEFINE Later == Sends \ {1}
<1>3. /\ IsFiniteSet(Later)
      /\ Cardinality(Later) = IF 1 \in Sends THEN Cardinality(Sends) - 1 ELSE Cardinality(Sends)
  BY <1>2, FS_RemoveElement
<1>4. 1 \in Sends <=> Head(todo).op = "send"
  BY <1>1 DEF Sends
<1>5. ExistsBijection(Later, Sends')
  <2> DEFINE f == [i \in Later |-> i - 1]
  <2>1. \A i \in Later : i \in 2 .. Len(todo) /\ todo[i].op = "send"
    BY <1>1 DEF Sends
  <2>2. \A j \in Sends' : j \in 1 .. Len(todo) - 1 /\ todo[j + 1].op = "send"
    BY <1>1 DEF Sends
  <2>3. \A i \in Later : i - 1 \in Sends'
    BY <1>1, <2>1 DEF Sends
  <2>4. \A j \in Sends' : j + 1 \in Later /\ f[j + 1] = j
    BY <1>1, <2>2 DEF Sends
  <2>5. f \in [Later -> Sends']
    BY <2>3
  <2>6. \A a, b \in Later : f[a] = f[b] => a = b
    BY <2>1
  <2>7. f \in Bijection(Later, Sends')
    BY <2>4, <2>5, <2>6 DEF Bijection, Injection, IsInjective, Surjection
  <2> QED BY <2>7 DEF ExistsBijection
<1>6. Cardinality(Sends') = Cardinality(Later)
  BY <1>3, <1>5, FS_Bijection
<1> QED BY <1>3, <1>4, <1>6

-----------------------------------------------------------------------------
(* What the types say of single elements.                                  *)

LEMMA MessFacts ==
    ASSUME MessType
    PROVE  /\ Len(mess) \in Nat /\ DOMAIN mess = 1 .. Len(mess)
           /\ \A m \in Ids : /\ mess[m].kind \in Kinds /\ mess[m].call \in Calls
                             /\ mess[m].side \in Sides /\ mess[m].of \in Nat
           /\ Ids \subseteq Nat /\ 0 \notin Ids
<1>1. Len(mess) \in Nat /\ DOMAIN mess = 1 .. Len(mess)
  BY SeqDomain DEF MessType
<1>2. \A m \in Ids : mess[m] \in MessRecords
  BY <1>1, SeqDomain DEF MessType, Ids
<1> QED BY <1>1, <1>2 DEF MessRecords, Ids

LEMMA QueueFacts ==
    ASSUME QueueType, NEW st \in Stages
    PROVE  /\ queue[st] \in Seq(Nat) /\ Len(queue[st]) \in Nat
           /\ DOMAIN queue[st] = 1 .. Len(queue[st])
           /\ \A i \in DOMAIN queue[st] : queue[st][i] \in Ids
<1>1. queue[st] \in Seq(Nat)
  BY DEF QueueType
<1> QED BY <1>1, SeqDomain DEF QueueType

LEMMA TodoFacts ==
    ASSUME TodoType
    PROVE  /\ Len(todo) \in Nat /\ DOMAIN todo = 1 .. Len(todo)
           /\ \A i \in DOMAIN todo : todo[i].op \in Ops /\ todo[i].on \in Ids
<1>1. todo \in Seq(TodoRecords)
  BY DEF TodoType
<1>2. \A i \in DOMAIN todo : todo[i] \in TodoRecords
  BY <1>1, SeqDomain
<1> QED BY <1>1, <1>2, SeqDomain DEF TodoType, TodoRecords

LEMMA StageNames ==
    /\ Arrivals \subseteq Stages /\ "TRNSPRT" \in Stages /\ "TRNSPRT" \notin Arrivals
    /\ "SIPENGINE" \in Arrivals /\ "SL_CC" \in Arrivals /\ "DAO" \in Arrivals
    /\ Stages = Arrivals \cup {"TRNSPRT"}
  BY DEF Arrivals, Stages

LEMMA PlacesAreIds ==
    ASSUME Typed
    PROVE  /\ \A m : Waits(m) => m \in Ids
           /\ \A m : OnWay(m) /\ m # 0 => m \in Ids
           /\ \A m : InHands(m) => m \in Ids
           /\ \A m : IsLocked(m) => m \in Ids
           /\ \A c \in Calls : \A m : Keeps(c, m) => m \in Ids
<1>1. \A m : Waits(m) => m \in Ids
  BY StageNames, QueueFacts DEF Typed, Waits
<1>2. \A m : OnWay(m) /\ m # 0 => m \in Ids
  BY StageNames, QueueFacts DEF Typed, SetsType, OnWay
<1>3. \A m : InHands(m) => m \in Ids
  BY TodoFacts DEF Typed, InHands
<1>4. \A m : IsLocked(m) => m \in Ids
  BY DEF Typed, SetsType, IsLocked
<1>5. \A c \in Calls : \A m : Keeps(c, m) => m \in Ids
  BY TodoFacts DEF Typed, SetsType, Keeps
<1> QED BY <1>1, <1>2, <1>3, <1>4, <1>5

\* A kept message is locked or is about to be.
LEMMA KeptIsSomewhere ==
    ASSUME NEW c \in Calls, NEW m, Keeps(c, m)
    PROVE  IsLocked(m) \/ InHands(m)
  BY DEF Keeps, IsLocked, InHands

-----------------------------------------------------------------------------
(* The network and ALMGR.                                                  *)

LEMMA ArriveKeeps ==
    ASSUME SInv, NEW kind \in Kinds, NEW c \in Calls, NEW s \in Sides, NEW of \in Nat,
           NEW st \in {"SIPENGINE", "SL_CC"}, of <= Len(mess) + 1,
           kind \in IF st = "SIPENGINE" THEN FromNetwork ELSE ToCalls,
           Arrive(kind, c, s, of, st)
    PROVE  SInv'
<1> DEFINE n == Len(mess) + 1
           new == [kind |-> kind, call |-> c, side |-> s, of |-> of]
<1>1. /\ incoming < MaxIncoming /\ incoming' = incoming + 1
      /\ mess' = Append(mess, new)
      /\ queue' = [queue EXCEPT ![st] = Append(@, n)]
      /\ UNCHANGED <<hand, slow, todo, object, idle, role, closed, over, lockedMessages,
                     purged>>
  BY DEF Arrive, Put, transport, calls
<1>2. Typed /\ MessType /\ QueueType /\ TodoType /\ st \in Arrivals /\ st \in Stages
  BY DEF SInv, Typed, Arrivals, Stages
<1>3. /\ mess' \in Seq(MessRecords) /\ Len(mess') = n
      /\ \A m \in Ids : mess'[m] = mess[m]
      /\ mess'[n] = new /\ new.call = c /\ new.of = of /\ new.kind = kind
  <2>1. new \in MessRecords /\ mess \in Seq(MessRecords)
    BY <1>2 DEF MessRecords, MessType
  <2> QED BY <1>1, <2>1, AppendAt DEF Ids
<1>4. Ids' = Ids \cup {n} /\ n \notin Ids /\ n \in Nat
  BY <1>2, <1>3, MessFacts DEF Ids
<1>5. /\ queue' \in [Stages -> Seq(Nat)] /\ queue'["TRNSPRT"] = queue["TRNSPRT"]
  <2>1. queue \in [Stages -> Seq(Nat)] /\ queue[st] \in Seq(Nat)
    BY <1>2 DEF QueueType
  <2>2. Append(queue[st], n) \in Seq(Nat)
    BY <1>4, <2>1, AppendAt
  <2> HIDE DEF n
  <2> QED BY <1>1, <1>2, <2>1, <2>2, StageNames
<1> DEFINE e == Len(queue[st]) + 1
<1>6. \A t \in Stages : \A i :
         /\ i \in DOMAIN queue'[t] <=> i \in DOMAIN queue[t] \/ (t = st /\ i = e)
         /\ t = st /\ i = e => i \notin DOMAIN queue[t] /\ queue'[t][i] = n
         /\ i \in DOMAIN queue[t] => queue'[t][i] = queue[t][i] /\ queue[t][i] \in Ids
  <2>1. queue \in [Stages -> Seq(Nat)] /\ queue[st] \in Seq(Nat)
    BY <1>2 DEF QueueType
  <2>2. queue'[st] = Append(queue[st], n) /\ \A t \in Stages \ {st} : queue'[t] = queue[t]
    <3> HIDE DEF n
    <3> QED BY <1>1, <1>2, <2>1
  <2>3. /\ DOMAIN Append(queue[st], n) = 1 .. e
        /\ \A i \in 1 .. Len(queue[st]) : Append(queue[st], n)[i] = queue[st][i]
        /\ Append(queue[st], n)[e] = n
    BY <1>4, <2>1, AppendAt
  <2>4. Len(queue[st]) \in Nat /\ DOMAIN queue[st] = 1 .. Len(queue[st])
    BY <1>2, QueueFacts
  <2>5. DOMAIN queue'[st] = DOMAIN queue[st] \cup {e} /\ e \notin DOMAIN queue[st]
    BY <2>2, <2>3, <2>4
  <2>6. \A i \in DOMAIN queue[st] : queue'[st][i] = queue[st][i]
    BY <2>2, <2>3, <2>4
  <2>7. \A t \in Stages : \A i \in DOMAIN queue[t] : queue[t][i] \in Ids
    BY <1>2 DEF QueueType
  <2> HIDE DEF e, n
  <2> QED BY <2>2, <2>3, <2>5, <2>6, <2>7
<1>7. \A i \in DOMAIN todo : mess'[todo[i].on].call = mess[todo[i].on].call
  BY <1>2, <1>3, TodoFacts
<1> HIDE DEF n, new, e
\* Where things are.
<1>8. \A m : Waits(m)' <=> Waits(m) \/ m = n
  <2>1. \A m : Waits(m)' => Waits(m) \/ m = n
    BY <1>6, StageNames DEF Waits
  <2>2. \A m : Waits(m) => Waits(m)'
    BY <1>6, StageNames DEF Waits
  <2>3. \A m : m = n => Waits(m)'
    <3>1. e \in DOMAIN queue'[st] /\ queue'[st][e] = n
      BY <1>2, <1>6
    <3> QED BY <1>2, <3>1 DEF Waits
  <2> QED BY <2>1, <2>2, <2>3
<1>9. /\ \A m : OnWay(m)' <=> OnWay(m)
      /\ \A m : InHands(m)' <=> InHands(m)
      /\ \A m : IsLocked(m)' <=> IsLocked(m)
  BY <1>1, <1>5 DEF OnWay, InHands, IsLocked
<1>10. \A d \in Calls : \A m : Keeps(d, m)' <=> Keeps(d, m)
  BY <1>1, <1>7 DEF Keeps
<1>11. ~Waits(n) /\ (n # hand => ~OnWay(n)) /\ ~InHands(n) /\ ~IsLocked(n) /\ n # hand
  BY <1>2, <1>4, PlacesAreIds, MessFacts DEF Typed, SetsType, n
\* The parts.
<1>12. Typed'
  <2>1. MessType'
    BY <1>2, <1>3, <1>4 DEF MessType, n
  <2>2. QueueType'
    BY <1>4, <1>5, <1>6 DEF QueueType
  <2>3. TodoType'
    BY <1>1, <1>2, <1>4 DEF TodoType
  <2>4. SetsType'
    <3>1. incoming' \in 0 .. MaxIncoming
      BY <1>1, <1>2, ServerAssumption DEF Typed, SetsType
    <3>2. lockedMessages' \in [Calls -> SUBSET Ids']
      BY <1>1, <1>2, <1>4 DEF Typed, SetsType
    <3> QED BY <1>1, <1>2, <1>4, <3>1, <3>2 DEF Typed, SetsType
  <2>5. CallType'
    BY <1>1, <1>2, <1>4 DEF Typed, CallType
  <2> QED BY <2>1, <2>2, <2>3, <2>4, <2>5 DEF Typed
<1>13. KindsInv'
  <2>1. ASSUME NEW t \in {"SIPENGINE", "SL_CC"}, NEW i \in DOMAIN queue'[t]
        PROVE  mess'[queue'[t][i]].kind \in IF t = "SIPENGINE" THEN FromNetwork ELSE ToCalls
    <3>0. t \in Stages
      BY DEF Stages
    <3>1. CASE t = st /\ i = e
      BY <1>3, <1>6, <3>1, <3>0
    <3>2. CASE ~(t = st /\ i = e)
      <4>1. i \in DOMAIN queue[t] /\ queue'[t][i] = queue[t][i] /\ queue[t][i] \in Ids
        BY <1>6, <3>0, <3>2
      <4>2. mess[queue[t][i]].kind \in IF t = "SIPENGINE" THEN FromNetwork ELSE ToCalls
        BY <4>1 DEF SInv, KindsInv
      <4> QED BY <1>3, <4>1, <4>2
    <3> QED BY <3>1, <3>2
  <2> QED BY <2>1 DEF KindsInv
<1>14. LifeInv'
  BY <1>1, <1>2, <1>3, <1>4, <1>8, <1>9, <1>11 DEF SInv, LifeInv, Typed, SetsType
<1>15. WaitInv'
  <2>1. ASSUME NEW t1 \in Arrivals, NEW t2 \in Arrivals, NEW i \in DOMAIN queue'[t1],
               NEW j \in DOMAIN queue'[t2], queue'[t1][i] = queue'[t2][j]
        PROVE  t1 = t2 /\ i = j
    <3>1. \A t \in Arrivals : \A k \in DOMAIN queue'[t] :
             \/ t = st /\ k = e /\ queue'[t][k] = n
             \/ k \in DOMAIN queue[t] /\ queue'[t][k] = queue[t][k] /\ queue[t][k] \in Ids
      BY <1>6, StageNames
    <3> QED BY <1>4, <2>1, <3>1 DEF SInv, WaitInv
  <2>2. ASSUME NEW m \in Ids', Waits(m)'
        PROVE  ~OnWay(m)' /\ ~IsLocked(m)' /\ \A i \in DOMAIN todo' : todo'[i].on # m
    <3>1. CASE m = n
      BY <1>1, <1>2, <1>4, <1>9, <1>11, <3>1, TodoFacts
    <3>2. CASE m # n
      BY <1>1, <1>4, <1>8, <1>9, <2>2, <3>2 DEF SInv, WaitInv
    <3> QED BY <3>1, <3>2
  <2> QED BY <2>1, <2>2 DEF WaitInv
<1>16. ShareInv'
  BY <1>1, <1>4, <1>5, <1>9, <1>11 DEF SInv, ShareInv
<1>17. TodoInv'
  <2>1. todo' = todo
    BY <1>1
  <2> QED BY <1>7, <1>9, <2>1 DEF SInv, TodoInv
<1>18. OwnInv'
  <2>1. \A d \in Calls : \A m \in lockedMessages[d] : m \in Ids
    BY <1>2 DEF Typed, SetsType
  <2>2. \A d \in Calls : \A m \in lockedMessages'[d] : mess'[m].call = d
    BY <1>1, <1>3, <2>1 DEF SInv, OwnInv
  <2>3. \A d \in Calls : \A r \in DOMAIN role'[d] : Keeps(d, role[d][r])'
    <3>1. \A d \in Calls : \A r \in DOMAIN role[d] : Keeps(d, role[d][r])
      BY DEF SInv, OwnInv
    <3>2. \A d \in Calls : \A r \in DOMAIN role[d] : \A m :
             m = role[d][r] /\ Keeps(d, m) => Keeps(d, m)'
      BY <1>10, PlacesAreIds DEF SInv
    <3>3. \A d \in Calls : \A r \in DOMAIN role[d] : \A m :
             m = role[d][r] /\ Keeps(d, m)' => Keeps(d, role[d][r])'
      BY <1>1 DEF Keeps
    <3> QED BY <1>1, <3>1, <3>2, <3>3
  <2> QED BY <1>1, <2>2, <2>3 DEF SInv, OwnInv, Has
<1>19. TimeInv'
  <2>1. Unsent' = Unsent /\ InHand' = InHand
    BY <1>1, <1>5 DEF Unsent, InHand
  <2>2. \A m \in Ids' : OnWay(m) => m \in Ids
    BY <1>4, <1>11
  <2> QED BY <1>1, <1>5, <1>9, <1>10, <2>1, <2>2 DEF SInv, TimeInv
<1> QED BY <1>12, <1>13, <1>14, <1>15, <1>16, <1>17, <1>18, <1>19 DEF SInv

LEMMA OutFacts ==
    ASSUME SInv, NEW kind, NEW c \in Calls, NEW m \in Out(kind, c)
    PROVE  mess[m].side \in Sides /\ mess[m].of \in Nat /\ mess[m].of <= Len(mess) + 1
<1>1. m \in Ids
  BY DEF SInv, Typed, SetsType, Out
<1>2. mess[m].of <= m /\ Len(mess) \in Nat
  BY <1>1, MessFacts DEF SInv, Typed, MessType
<1> QED BY <1>1, <1>2, MessFacts DEF SInv, Typed, Ids

LEMMA ListenKeeps ==
    ASSUME SInv, NEW c \in Calls, listen(c)
    PROVE  SInv'
<1>1. Len(mess) \in Nat
  BY MessFacts DEF SInv, Typed
<1>2. ASSUME NEW kind \in FromNetwork, NEW s \in Sides, NEW of \in Nat, of <= Len(mess) + 1,
             Arrive(kind, c, s, of, "SIPENGINE")
      PROVE  SInv'
  <2>1. kind \in Kinds
    BY DEF Kinds
  <2> QED BY <1>2, <2>1, ArriveKeeps
<1>3. ASSUME NEW kind \in FromNetwork, NEW s \in Sides, Arrive(kind, c, s, 0, "SIPENGINE")
      PROVE  SInv'
  BY <1>1, <1>2, <1>3
<1>4. /\ {"INVITE", "180", "200", "ACK", "BYE", "200 to BYE"} \subseteq FromNetwork
      /\ Others \subseteq FromNetwork /\ "A" \in Sides /\ "B" \in Sides
  BY DEF FromNetwork, Sides
<1>5. CASE Arrive("INVITE", c, "A", 0, "SIPENGINE")
  BY <1>3, <1>4, <1>5
<1>6. CASE \E kind \in Others : Arrive(kind, c, "A", 0, "SIPENGINE")
  BY <1>3, <1>4, <1>6
<1>7. CASE \E kind \in {"180", "200"}, m \in Out("INVITE to B", c) :
              Arrive(kind, c, "B", mess[m].of, "SIPENGINE")
  BY <1>1, <1>2, <1>4, <1>7, OutFacts
<1>8. CASE \E kind \in {"ACK", "BYE"} : Arrive(kind, c, "A", 0, "SIPENGINE")
  BY <1>3, <1>4, <1>8
<1>9. CASE Arrive("BYE", c, "B", 0, "SIPENGINE")
  BY <1>3, <1>4, <1>9
<1>10. CASE \E m \in Out("BYE relayed", c) :
               Arrive("200 to BYE", c, mess[m].side, mess[m].of, "SIPENGINE")
  BY <1>1, <1>2, <1>4, <1>10, OutFacts
<1> QED BY <1>5, <1>6, <1>7, <1>8, <1>9, <1>10 DEF listen

LEMMA AlarmKeeps ==
    ASSUME SInv, NEW c \in Calls, alarm(c)
    PROVE  SInv'
<1>1. Len(mess) \in Nat
  BY MessFacts DEF SInv, Typed
<1>2. ASSUME NEW kind \in {"TIMER_S", "TIMER_G", "TIMER_A"}, NEW s \in Sides,
             Arrive(kind, c, s, 0, "SL_CC")
      PROVE  SInv'
  <2>1. kind \in ToCalls /\ kind \in Kinds
    BY DEF ToCalls, Kinds
  <2> QED BY <1>1, <1>2, <2>1, ArriveKeeps
<1> QED BY <1>2 DEF alarm, Sides

-----------------------------------------------------------------------------
(* SIPENGINE and DAO.                                                      *)

\* What TRNSPRT, SL_CC and the calls have is left alone.
LEMMA QuietFrame ==
    ASSUME SInv,
           UNCHANGED <<mess, hand, slow, todo, object, idle, role, closed, over,
                       lockedMessages, incoming>>,
           queue'["TRNSPRT"] = queue["TRNSPRT"]
    PROVE  /\ \A m : OnWay(m)' <=> OnWay(m)
           /\ \A m : InHands(m)' <=> InHands(m)
           /\ \A m : IsLocked(m)' <=> IsLocked(m)
           /\ MessType' /\ TodoType' /\ CallType'
           /\ ShareInv' /\ TodoInv' /\ OwnInv' /\ TimeInv'
<1>1. /\ \A m : OnWay(m)' <=> OnWay(m)
      /\ \A m : InHands(m)' <=> InHands(m)
      /\ \A m : IsLocked(m)' <=> IsLocked(m)
      /\ \A c, m : Keeps(c, m)' <=> Keeps(c, m)
      /\ Ids' = Ids
  BY DEF OnWay, InHands, IsLocked, Keeps, Ids
<1>2. MessType' /\ TodoType' /\ CallType'
  BY <1>1 DEF SInv, Typed, MessType, TodoType, CallType
<1>3. ShareInv' /\ TodoInv'
  BY <1>1 DEF SInv, ShareInv, TodoInv
<1>4. OwnInv'
  BY <1>1 DEF SInv, OwnInv, Has
<1>5. TimeInv'
  <2>1. Unsent' = Unsent /\ InHand' = InHand
    BY DEF Unsent, InHand
  <2> QED BY <1>1, <2>1 DEF SInv, TimeInv
<1> QED BY <1>1, <1>2, <1>3, <1>4, <1>5

\* The head of a queue on the way in is in no other place there.
LEMMA HeadWaits ==
    ASSUME SInv, NEW st \in Arrivals, queue[st] # <<>>
    PROVE  /\ Head(queue[st]) \in Ids /\ Waits(Head(queue[st]))
           /\ Head(queue[st]) # 0
           /\ 1 \in DOMAIN queue[st] /\ Head(queue[st]) = queue[st][1]
<1>1. queue[st] \in Seq(Nat) /\ \A i \in DOMAIN queue[st] : queue[st][i] \in Ids
  BY StageNames, QueueFacts DEF SInv, Typed
<1>2. 1 \in DOMAIN queue[st] /\ Head(queue[st]) = queue[st][1]
  BY <1>1, TailAt
<1> QED BY <1>1, <1>2, MessFacts DEF Waits, SInv, Typed

LEMMA HeadLeaves ==
    ASSUME SInv, NEW st \in Arrivals, queue[st] # <<>>,
           queue' = [queue EXCEPT ![st] = Tail(@)]
    PROVE  /\ queue' \in [Stages -> Seq(Nat)] /\ queue'["TRNSPRT"] = queue["TRNSPRT"]
           /\ \A t \in Stages : \A i \in DOMAIN queue'[t] :
                 \E j \in DOMAIN queue[t] : queue'[t][i] = queue[t][j]
           /\ \A m : Waits(m)' <=> Waits(m) /\ m # Head(queue[st])
           /\ \A t1, t2 \in Arrivals : \A i \in DOMAIN queue'[t1], j \in DOMAIN queue'[t2] :
                 queue'[t1][i] = queue'[t2][j] => t1 = t2 /\ i = j
<1>1. st \in Stages /\ queue[st] \in Seq(Nat) /\ queue \in [Stages -> Seq(Nat)]
  BY StageNames DEF SInv, Typed, QueueType
<1>2. queue' \in [Stages -> Seq(Nat)] /\ queue'["TRNSPRT"] = queue["TRNSPRT"]
  <2>1. Tail(queue[st]) \in Seq(Nat)
    BY <1>1, TailAt
  <2> QED BY <1>1, <2>1, StageNames
<1> DEFINE was(t, i) == IF t = st THEN i + 1 ELSE i
<1>3. \A t \in Stages : \A i \in DOMAIN queue'[t] :
         /\ i \in Nat /\ was(t, i) \in DOMAIN queue[t] /\ queue'[t][i] = queue[t][was(t, i)]
         /\ t = st => was(t, i) # 1
  <2>1. CASE TRUE
    <3>1. queue'[st] = Tail(queue[st]) /\ \A t \in Stages \ {st} : queue'[t] = queue[t]
      BY <1>1
    <3>2. /\ Len(queue[st]) \in Nat /\ DOMAIN queue[st] = 1 .. Len(queue[st])
          /\ DOMAIN Tail(queue[st]) = 1 .. Len(queue[st]) - 1
          /\ \A i \in 1 .. Len(queue[st]) - 1 : Tail(queue[st])[i] = queue[st][i + 1]
      BY <1>1, TailAt, SeqDomain
    <3>3. \A t \in Stages : DOMAIN queue[t] \subseteq Nat
      BY QueueFacts DEF SInv, Typed
    <3>4. ASSUME NEW i \in DOMAIN queue'[st]
          PROVE  /\ i \in Nat /\ i + 1 \in DOMAIN queue[st] /\ i + 1 # 1
                 /\ queue'[st][i] = queue[st][i + 1]
      <4>1. i \in 1 .. Len(queue[st]) - 1
        BY <3>1, <3>2, <3>4
      <4>2. i \in Nat /\ i + 1 \in 1 .. Len(queue[st]) /\ i + 1 # 1
        BY <3>2, <4>1
      <4>3. queue'[st][i] = queue[st][i + 1]
        BY <3>1, <3>2, <4>1
      <4> QED BY <3>2, <4>2, <4>3
    <3>5. ASSUME NEW t \in Stages, NEW i \in DOMAIN queue'[t]
          PROVE  /\ i \in Nat /\ was(t, i) \in DOMAIN queue[t]
                 /\ queue'[t][i] = queue[t][was(t, i)]
                 /\ t = st => was(t, i) # 1
      <4>1. CASE t = st
        BY <3>4, <3>5, <4>1
      <4>2. CASE t # st
        BY <3>1, <3>3, <3>5, <4>2
      <4> QED BY <4>1, <4>2
    <3> QED BY <3>5
  <2> QED BY <2>1
<1>4. \A t \in Stages : \A k \in DOMAIN queue[t] :
         \/ t = st /\ k = 1
         \/ \E i \in DOMAIN queue'[t] : was(t, i) = k
  <2>1. queue'[st] = Tail(queue[st]) /\ \A t \in Stages \ {st} : queue'[t] = queue[t]
    BY <1>1
  <2>2. /\ Len(queue[st]) \in Nat /\ DOMAIN queue[st] = 1 .. Len(queue[st])
        /\ DOMAIN Tail(queue[st]) = 1 .. Len(queue[st]) - 1
    BY <1>1, TailAt, SeqDomain
  <2>3. \A k \in DOMAIN queue[st] : k = 1 \/ (k - 1 \in DOMAIN queue'[st] /\ was(st, k - 1) = k)
    BY <2>1, <2>2
  <2> QED BY <2>1, <2>3
<1>5. \A t1, t2 \in Arrivals : \A i \in DOMAIN queue'[t1], j \in DOMAIN queue'[t2] :
         queue'[t1][i] = queue'[t2][j] => t1 = t2 /\ i = j
  <2> SUFFICES ASSUME NEW t1 \in Arrivals, NEW t2 \in Arrivals, NEW i \in DOMAIN queue'[t1],
                      NEW j \in DOMAIN queue'[t2], queue'[t1][i] = queue'[t2][j]
               PROVE  t1 = t2 /\ i = j
    OBVIOUS
  <2>1. t1 = t2 /\ was(t1, i) = was(t2, j)
    <3> HIDE DEF was
    <3> QED BY <1>3, StageNames DEF SInv, WaitInv
  <2> QED BY <1>3, <2>1, StageNames
<1>6. \A m : Waits(m)' <=> Waits(m) /\ m # Head(queue[st])
  <2>1. 1 \in DOMAIN queue[st] /\ Head(queue[st]) = queue[st][1]
    BY HeadWaits
  <2> HIDE DEF was
  <2>2. \A m : Waits(m)' => Waits(m)
    BY <1>3, StageNames DEF Waits
  <2>3. \A m : m = queue[st][1] => ~Waits(m)'
    <3> SUFFICES ASSUME NEW t \in Arrivals, NEW i \in DOMAIN queue'[t],
                        queue'[t][i] = queue[st][1]
                 PROVE  FALSE
      BY DEF Waits
    <3>1. t = st /\ was(t, i) = 1
      BY <1>3, <2>1, StageNames DEF SInv, WaitInv
    <3> QED BY <1>3, <3>1, StageNames
  <2>4. \A m : Waits(m) /\ m # queue[st][1] => Waits(m)'
    BY <1>3, <1>4, StageNames DEF Waits
  <2> QED BY <2>1, <2>2, <2>3, <2>4
<1>7. \A t \in Stages : \A i \in DOMAIN queue'[t] :
         \E j \in DOMAIN queue[t] : queue'[t][i] = queue[t][j]
  <2> HIDE DEF was
  <2> QED BY <1>3
<1> QED BY <1>2, <1>5, <1>6, <1>7

LEMMA HeadPurged ==
    ASSUME SInv, NEW st \in Arrivals, queue[st] # <<>>,
           queue' = [queue EXCEPT ![st] = Tail(@)],
           purged' = purged \cup {Head(queue[st])},
           UNCHANGED <<mess, hand, slow, todo, object, idle, role, closed, over,
                       lockedMessages, incoming>>
    PROVE  SInv'
<1> DEFINE m == Head(queue[st])
<1>1. m \in Ids /\ Waits(m)
  BY HeadWaits
<1>2. /\ queue' \in [Stages -> Seq(Nat)] /\ queue'["TRNSPRT"] = queue["TRNSPRT"]
      /\ \A t \in Stages : \A i \in DOMAIN queue'[t] :
            \E j \in DOMAIN queue[t] : queue'[t][i] = queue[t][j]
      /\ \A x : Waits(x)' <=> Waits(x) /\ x # m
      /\ \A t1, t2 \in Arrivals : \A i \in DOMAIN queue'[t1], j \in DOMAIN queue'[t2] :
            queue'[t1][i] = queue'[t2][j] => t1 = t2 /\ i = j
  BY HeadLeaves
<1>3. /\ \A x : OnWay(x)' <=> OnWay(x)
      /\ \A x : InHands(x)' <=> InHands(x)
      /\ \A x : IsLocked(x)' <=> IsLocked(x)
      /\ MessType' /\ TodoType' /\ CallType'
      /\ ShareInv' /\ TodoInv' /\ OwnInv' /\ TimeInv'
  BY <1>2, QuietFrame
<1>4. Ids' = Ids /\ purged' = purged \cup {m}
  BY DEF Ids
<1>5. ~OnWay(m) /\ ~InHands(m) /\ ~IsLocked(m)
  BY <1>1 DEF SInv, WaitInv, InHands
<1> HIDE DEF m
<1>6. QueueType' /\ SetsType'
  <2>1. QueueType'
    BY <1>2, <1>4 DEF SInv, Typed, QueueType
  <2>2. SetsType'
    BY <1>1, <1>4 DEF SInv, Typed, SetsType
  <2> QED BY <2>1, <2>2
<1>7. KindsInv'
  <2>1. ASSUME NEW i \in DOMAIN queue'["SIPENGINE"]
        PROVE  mess'[queue'["SIPENGINE"][i]].kind \in FromNetwork
    <3>1. PICK j \in DOMAIN queue["SIPENGINE"] :
             queue'["SIPENGINE"][i] = queue["SIPENGINE"][j]
      BY <1>2, StageNames
    <3> QED BY <3>1 DEF SInv, KindsInv
  <2>2. ASSUME NEW i \in DOMAIN queue'["SL_CC"]
        PROVE  mess'[queue'["SL_CC"][i]].kind \in ToCalls
    <3>1. PICK j \in DOMAIN queue["SL_CC"] : queue'["SL_CC"][i] = queue["SL_CC"][j]
      BY <1>2, StageNames
    <3> QED BY <3>1 DEF SInv, KindsInv
  <2> QED BY <2>1, <2>2 DEF KindsInv
<1>8. LifeInv'
  BY <1>1, <1>2, <1>3, <1>4, <1>5 DEF SInv, LifeInv
<1>9. WaitInv'
  BY <1>2, <1>3, <1>4 DEF SInv, WaitInv
<1> QED BY <1>3, <1>6, <1>7, <1>8, <1>9 DEF SInv, Typed

LEMMA HeadMoves ==
    ASSUME SInv, NEW to \in {"SL_CC", "DAO"}, queue["SIPENGINE"] # <<>>,
           to = "SL_CC" => mess[Head(queue["SIPENGINE"])].kind \in ToCalls,
           queue' = Move(Head(queue["SIPENGINE"]), "SIPENGINE", to),
           UNCHANGED <<mess, hand, slow, todo, object, idle, role, closed, over,
                       lockedMessages, purged, incoming>>
    PROVE  SInv'
<1> DEFINE st == "SIPENGINE"
           m == Head(queue[st])
           e == Len(queue[to]) + 1
           was(t, i) == IF t = st THEN i + 1 ELSE i
<1>0. st \in Arrivals /\ st \in Stages /\ to \in Arrivals /\ to \in Stages /\ st # to
      /\ "TRNSPRT" \notin {st, to}
  BY DEF Arrivals, Stages
<1>1. m \in Ids /\ Waits(m) /\ 1 \in DOMAIN queue[st] /\ m = queue[st][1]
  BY <1>0, HeadWaits
<1>2. /\ queue[st] \in Seq(Nat) /\ queue[to] \in Seq(Nat) /\ queue \in [Stages -> Seq(Nat)]
      /\ m \in Nat
  BY <1>0, <1>1, MessFacts DEF SInv, Typed, QueueType
<1>3. /\ queue'[st] = Tail(queue[st]) /\ queue'[to] = Append(queue[to], m)
      /\ \A t \in Stages \ {st, to} : queue'[t] = queue[t]
      /\ queue' \in [Stages -> Seq(Nat)] /\ queue'["TRNSPRT"] = queue["TRNSPRT"]
  <2>1. queue' = [queue EXCEPT ![st] = Tail(queue[st]), ![to] = Append(queue[to], m)]
    BY <1>0, <1>2 DEF Move
  <2>2. Tail(queue[st]) \in Seq(Nat) /\ Append(queue[to], m) \in Seq(Nat)
    BY <1>2, TailAt, AppendAt
  <2> HIDE DEF m, st
  <2> QED BY <1>0, <1>2, <2>1, <2>2, StageNames
<1>4. /\ Len(queue[st]) \in Nat /\ DOMAIN queue[st] = 1 .. Len(queue[st])
      /\ DOMAIN queue'[st] = 1 .. Len(queue[st]) - 1
      /\ \A i \in 1 .. Len(queue[st]) - 1 : queue'[st][i] = queue[st][i + 1]
  <2>1. queue[st] # <<>>
    OBVIOUS
  <2>2. /\ DOMAIN Tail(queue[st]) = 1 .. Len(queue[st]) - 1
        /\ \A i \in 1 .. Len(queue[st]) - 1 : Tail(queue[st])[i] = queue[st][i + 1]
    BY <1>2, <2>1, TailAt
  <2>3. Len(queue[st]) \in Nat /\ DOMAIN queue[st] = 1 .. Len(queue[st])
    BY <1>2, SeqDomain
  <2> HIDE DEF st
  <2> QED BY <1>3, <2>2, <2>3
<1>5. /\ DOMAIN queue'[to] = DOMAIN queue[to] \cup {e} /\ e \notin DOMAIN queue[to]
      /\ \A i \in DOMAIN queue[to] : queue'[to][i] = queue[to][i]
      /\ queue'[to][e] = m /\ e \in Nat
  <2>1. Len(queue[to]) \in Nat /\ DOMAIN queue[to] = 1 .. Len(queue[to])
    BY <1>2, SeqDomain
  <2>2. /\ DOMAIN Append(queue[to], m) = 1 .. Len(queue[to]) + 1
        /\ \A i \in 1 .. Len(queue[to]) : Append(queue[to], m)[i] = queue[to][i]
        /\ Append(queue[to], m)[Len(queue[to]) + 1] = m
    BY <1>2, AppendAt
  <2> HIDE DEF m
  <2> QED BY <1>3, <2>1, <2>2
<1>6. \A t \in Stages : \A i \in DOMAIN queue'[t] :
         \/ t = to /\ i = e /\ queue'[t][i] = m
         \/ /\ i \in Nat /\ was(t, i) \in DOMAIN queue[t] /\ queue'[t][i] = queue[t][was(t, i)]
            /\ t = st => was(t, i) # 1
  <2> SUFFICES ASSUME NEW t \in Stages, NEW i \in DOMAIN queue'[t]
               PROVE  \/ t = to /\ i = e /\ queue'[t][i] = m
                      \/ /\ i \in Nat /\ was(t, i) \in DOMAIN queue[t]
                         /\ queue'[t][i] = queue[t][was(t, i)]
                         /\ t = st => was(t, i) # 1
    OBVIOUS
  <2>1. DOMAIN queue[t] \subseteq Nat
    BY QueueFacts DEF SInv, Typed
  <2>2. CASE t = st
    <3>1. i \in 1 .. Len(queue[st]) - 1
      BY <1>4, <2>2
    <3>2. i \in Nat /\ i + 1 \in 1 .. Len(queue[st]) /\ i + 1 # 1
      BY <1>4, <3>1
    <3> QED BY <1>4, <2>2, <3>1, <3>2
  <2>3. CASE t = to
    BY <1>0, <1>5, <2>1, <2>3
  <2>4. CASE t \notin {st, to}
    BY <1>3, <2>1, <2>4
  <2> QED BY <2>2, <2>3, <2>4
<1>7. \A t \in Stages : \A k \in DOMAIN queue[t] :
         \/ t = st /\ k = 1
         \/ \E i \in DOMAIN queue'[t] : queue'[t][i] = queue[t][k]
  <2> SUFFICES ASSUME NEW t \in Stages, NEW k \in DOMAIN queue[t], ~(t = st /\ k = 1)
               PROVE  \E i \in DOMAIN queue'[t] : queue'[t][i] = queue[t][k]
    OBVIOUS
  <2>1. CASE t = st
    <3>1. k - 1 \in 1 .. Len(queue[st]) - 1 /\ (k - 1) + 1 = k
      BY <1>4, <2>1
    <3> QED BY <1>4, <2>1, <3>1
  <2>2. CASE t = to
    BY <1>5, <2>2
  <2>3. CASE t \notin {st, to}
    BY <1>3, <2>3
  <2> QED BY <2>1, <2>2, <2>3
<1>8. /\ \A x : OnWay(x)' <=> OnWay(x)
      /\ \A x : InHands(x)' <=> InHands(x)
      /\ \A x : IsLocked(x)' <=> IsLocked(x)
      /\ MessType' /\ TodoType' /\ CallType'
      /\ ShareInv' /\ TodoInv' /\ OwnInv' /\ TimeInv'
  BY <1>3, QuietFrame
<1>9. Ids' = Ids /\ purged' = purged
  BY DEF Ids
<1> HIDE DEF m, e
<1>10. QueueType' /\ SetsType'
  <2>1. QueueType'
    <3> HIDE DEF was, st
    <3> QED BY <1>1, <1>3, <1>6, <1>9 DEF SInv, Typed, QueueType
  <2>2. SetsType'
    BY <1>9 DEF SInv, Typed, SetsType
  <2> QED BY <2>1, <2>2
<1>11. KindsInv'
  <2>1. \A t \in Stages : \A i \in DOMAIN queue'[t] :
           \/ t = to /\ queue'[t][i] = m
           \/ \E j \in DOMAIN queue[t] : queue'[t][i] = queue[t][j]
    <3> HIDE DEF was, st
    <3> QED BY <1>6
  <2>2. to = "SL_CC" => mess[m].kind \in ToCalls
    BY DEF m
  <2> QED BY <1>0, <2>1, <2>2, StageNames DEF SInv, KindsInv
<1>12. \A x : Waits(x)' <=> Waits(x)
  <2>1. \A x : Waits(x)' => Waits(x)
    <3> HIDE DEF was, st
    <3> QED BY <1>1, <1>6, StageNames DEF Waits
  <2>2. \A x : x = m => Waits(x)'
    BY <1>0, <1>5 DEF Waits
  <2>3. \A x : Waits(x) /\ x # m => Waits(x)'
    <3> HIDE DEF st
    <3> QED BY <1>1, <1>7, StageNames DEF Waits
  <2> QED BY <2>1, <2>2, <2>3
<1>13. LifeInv'
  BY <1>8, <1>9, <1>12 DEF SInv, LifeInv
<1>14. WaitInv'
  <2>1. ASSUME NEW t1 \in Arrivals, NEW t2 \in Arrivals, NEW i \in DOMAIN queue'[t1],
               NEW j \in DOMAIN queue'[t2], queue'[t1][i] = queue'[t2][j]
        PROVE  t1 = t2 /\ i = j
    <3>1. t1 \in Stages /\ t2 \in Stages
      BY StageNames
    <3>2. \A t \in Arrivals : \A k : k \in DOMAIN queue[t] /\ queue[t][k] = m => t = st /\ k = 1
      BY <1>0, <1>1 DEF SInv, WaitInv
    <3>3. CASE (t1 = to /\ i = e) \/ (t2 = to /\ j = e)
      <4> HIDE DEF st
      <4>1. (t1 = to /\ i = e) /\ (t2 = to /\ j = e)
        <5> HIDE DEF was
        <5> QED BY <1>5, <1>6, <2>1, <3>1, <3>2, <3>3
      <4> QED BY <4>1
    <3>4. CASE ~(t1 = to /\ i = e) /\ ~(t2 = to /\ j = e)
      <4>1. t1 = t2 /\ was(t1, i) = was(t2, j) /\ i \in Nat /\ j \in Nat
        <5> HIDE DEF was, st
        <5> QED BY <1>6, <2>1, <3>1, <3>4 DEF SInv, WaitInv
      <4> QED BY <4>1
    <3> QED BY <3>3, <3>4
  <2>2. \A x \in Ids : Waits(x)' =>
           ~OnWay(x)' /\ ~IsLocked(x)' /\ \A i \in DOMAIN todo : todo[i].on # x
    BY <1>8, <1>12 DEF SInv, WaitInv
  <2> QED BY <1>9, <2>1, <2>2 DEF WaitInv
<1> QED BY <1>8, <1>10, <1>11, <1>13, <1>14 DEF SInv, Typed

LEMMA ParseSipengineKeeps ==
    ASSUME SInv, ParseSipengine
    PROVE  SInv'
<1> DEFINE m == Head(queue["SIPENGINE"])
<1>1. queue["SIPENGINE"] # <<>> /\ "SIPENGINE" \in Arrivals
  BY DEF ParseSipengine, Arrivals
<1>2. mess[m].kind \in FromNetwork
  BY <1>1, HeadWaits DEF SInv, KindsInv
<1>3. UNCHANGED <<mess, hand, slow, todo, object, idle, role, closed, over, lockedMessages,
                  incoming>>
  BY DEF ParseSipengine, transport, calls
<1>4. CASE mess[m].kind = "OPTIONS"
  BY <1>1, <1>3, <1>4, HeadPurged DEF ParseSipengine
<1>5. CASE mess[m].kind = "PD-SIPSL"
  BY <1>1, <1>3, <1>5, HeadMoves DEF ParseSipengine
<1>6. CASE mess[m].kind \notin {"OPTIONS", "PD-SIPSL"}
  <2>1. mess[m].kind \in ToCalls
    BY <1>2, <1>6 DEF FromNetwork, ToCalls, Others
  <2> QED BY <1>1, <1>3, <1>6, <2>1, HeadMoves DEF ParseSipengine
<1> QED BY <1>4, <1>5, <1>6

LEMMA ParseDaoKeeps ==
    ASSUME SInv, ParseDao
    PROVE  SInv'
<1>1. queue["DAO"] # <<>> /\ "DAO" \in Arrivals
  BY DEF ParseDao, Arrivals
<1> QED BY <1>1, HeadPurged DEF ParseDao, transport, calls

-----------------------------------------------------------------------------
(* SL_CC takes a message: what is asked of a handler.                      *)

Fresh(news) == Len(mess) + 1 .. Len(mess) + Len(news)

GoodNews(c, news) ==
    /\ news \in Seq(MessRecords)
    /\ \A i \in DOMAIN news : news[i].call = c /\ news[i].of <= Len(mess) + i

\* Each pointer is to another message, which the handler locks.
GoodKept(m, news, kept, ops) ==
    /\ DOMAIN kept \subseteq Roles
    /\ \A r \in DOMAIN kept :
          /\ kept[r] \in {m} \cup Fresh(news)
          /\ \E i \in DOMAIN ops : ops[i].op = "lock" /\ ops[i].on = kept[r]
    /\ \A r, q \in DOMAIN kept : kept[r] = kept[q] => r = q
    /\ \A s \in Sides : BYE_SV[s] \in DOMAIN kept => STORED_MESSAGE[s] \in DOMAIN kept

\* The handler uses what it took, what it made and what its call has locked;
\* it locks first what it uses twice, and forgets none of them.
GoodOps(m, c, news, ops) ==
    /\ ops \in Seq(TodoRecords)
    /\ \A i \in DOMAIN ops : ops[i].on \in {m} \cup Fresh(news) \cup lockedMessages[c]
    /\ \A i, j \in DOMAIN ops :
          i < j /\ ops[i].on = ops[j].on =>
             ops[i].op = "lock" \/ ops[j].op = "request" \/ ops[i].on \in lockedMessages[c]
    /\ \A x \in {m} \cup Fresh(news) :
          \/ \E i \in DOMAIN ops : ops[i].op # "request" /\ ops[i].on = x
          \/ x = m /\ mess[m].kind = "REGISTER"

\* The step starts the time of its call anew, unless it locks nothing and
\* only sends what it made.
GoodCalls(c, news, ops) ==
    /\ object' \in [Calls -> {"none", "live", "requested"}]
    /\ idle' \in [Calls -> 0 .. TIMER_DOA + 1]
    /\ closed' \in [Calls -> BOOLEAN] /\ over' \in [Calls -> BOOLEAN]
    /\ \A d \in Calls : /\ idle'[d] \in {0, idle[d]}
                        /\ object'[d] # "requested" => idle'[d] = 0
    /\ \/ idle'[c] = 0
       \/ \A i \in DOMAIN ops : ops[i].op # "lock" /\ ops[i].on \in Fresh(news)

LEMMA TakeKeeps ==
    ASSUME SInv, todo = <<>>, queue["SL_CC"] # <<>>,
           NEW m, NEW c, m = Head(queue["SL_CC"]), c = mess[m].call,
           NEW news, NEW kept, NEW ops,
           GoodNews(c, news), GoodKept(m, news, kept, ops), GoodOps(m, c, news, ops),
           GoodCalls(c, news, ops), Take(m, news, kept, ops)
    PROVE  SInv'
<1>1. /\ m \in Ids /\ Waits(m) /\ m # 0 /\ c \in Calls
      /\ ~OnWay(m) /\ ~IsLocked(m) /\ m \notin purged
      /\ \A x : ~InHands(x)
      /\ \A d, x : Keeps(d, x) <=> x \in lockedMessages[d]
  <2>1. m \in Ids /\ Waits(m) /\ m # 0
    BY HeadWaits, StageNames
  <2>2. c \in Calls
    BY <2>1, MessFacts DEF SInv, Typed
  <2>3. ~OnWay(m) /\ ~IsLocked(m) /\ m \notin purged
    BY <2>1 DEF SInv, WaitInv, LifeInv
  <2>4. DOMAIN todo = {}
    OBVIOUS
  <2> QED BY <2>1, <2>2, <2>3, <2>4 DEF InHands, Keeps
<1>2. /\ queue' = [queue EXCEPT !["SL_CC"] = Tail(@)] /\ mess' = mess \o news
      /\ todo' = ops /\ UNCHANGED <<hand, slow, lockedMessages, purged, incoming>>
  BY DEF Take, transport
<1>3. /\ mess' \in Seq(MessRecords) /\ Ids' = Ids \cup Fresh(news)
      /\ \A x \in Ids : mess'[x] = mess[x] /\ x \notin Fresh(news)
      /\ \A x \in Fresh(news) : mess'[x].call = c /\ mess'[x].of <= x
      /\ 0 \notin Fresh(news) /\ Fresh(news) \subseteq Nat
  <2>1. mess \in Seq(MessRecords) /\ news \in Seq(MessRecords)
    BY DEF SInv, Typed, MessType, GoodNews
  <2>2. /\ Len(mess) \in Nat /\ Len(news) \in Nat /\ DOMAIN news = 1 .. Len(news)
    BY <2>1, SeqDomain
  <2>3. /\ mess \o news \in Seq(MessRecords)
        /\ Len(mess \o news) = Len(mess) + Len(news)
        /\ \A i \in 1 .. Len(mess) : (mess \o news)[i] = mess[i]
        /\ \A i \in 1 .. Len(news) : (mess \o news)[Len(mess) + i] = news[i]
    BY <2>1, ConcatAt
  <2>4. Ids' = Ids \cup Fresh(news) /\ 0 \notin Fresh(news) /\ Fresh(news) \subseteq Nat
    BY <1>2, <2>2, <2>3 DEF Ids, Fresh
  <2>5. \A x \in Ids : mess'[x] = mess[x] /\ x \notin Fresh(news)
    BY <1>2, <2>2, <2>3 DEF Ids, Fresh
  <2>6. ASSUME NEW x \in Fresh(news)
        PROVE  mess'[x].call = c /\ mess'[x].of <= x
    <3> DEFINE i == x - Len(mess)
    <3>1. i \in DOMAIN news /\ i \in 1 .. Len(news) /\ Len(mess) + i = x
      BY <2>2 DEF Fresh
    <3>2. mess'[x] = news[i]
      BY <1>2, <2>3, <3>1
    <3>3. news[i].call = c /\ news[i].of <= Len(mess) + i
      BY <3>1 DEF GoodNews
    <3> QED BY <3>1, <3>2, <3>3
  <2> QED BY <1>2, <2>3, <2>4, <2>5, <2>6
<1>4. /\ queue' \in [Stages -> Seq(Nat)] /\ queue'["TRNSPRT"] = queue["TRNSPRT"]
      /\ \A t \in Stages : \A i \in DOMAIN queue'[t] :
            \E j \in DOMAIN queue[t] : queue'[t][i] = queue[t][j]
      /\ \A x : Waits(x)' <=> Waits(x) /\ x # m
      /\ \A t1, t2 \in Arrivals : \A i \in DOMAIN queue'[t1], j \in DOMAIN queue'[t2] :
            queue'[t1][i] = queue'[t2][j] => t1 = t2 /\ i = j
  <2>1. "SL_CC" \in Arrivals
    BY StageNames
  <2> QED BY <1>2, <2>1, HeadLeaves
<1>5. /\ \A x : OnWay(x)' <=> OnWay(x)
      /\ \A x : IsLocked(x)' <=> IsLocked(x)
  BY <1>2, <1>4 DEF OnWay, IsLocked
<1>6. /\ \A x : IsLocked(x) => x \in Ids
      /\ \A x \in lockedMessages[c] : x \in Ids /\ IsLocked(x) /\ mess[x].call = c
      /\ \A x : OnWay(x) => x = 0 \/ x \in Ids
      /\ \A x : Waits(x) => x \in Ids
  BY <1>1, PlacesAreIds DEF SInv, OwnInv, IsLocked
<1>7. \A i \in DOMAIN todo' : /\ todo'[i].on \in {m} \cup Fresh(news) \cup lockedMessages[c]
                              /\ todo'[i].on \in Ids' /\ mess'[todo'[i].on].call = c
  <2>1. \A x \in {m} \cup Fresh(news) \cup lockedMessages[c] :
           x \in Ids' /\ mess'[x].call = c
    BY <1>1, <1>3, <1>6
  <2>2. \A i \in DOMAIN todo' : todo'[i].on \in {m} \cup Fresh(news) \cup lockedMessages[c]
    BY <1>2 DEF GoodOps
  <2> QED BY <2>1, <2>2
<1>8. \A x : InHands(x)' => x = m \/ x \in Fresh(news) \/ x \in lockedMessages[c]
  BY <1>7 DEF InHands
<1>9. /\ DOMAIN role' = Calls
      /\ \A d \in Calls \ {c} : role'[d] = role[d]
      /\ DOMAIN role'[c] = DOMAIN kept \cup DOMAIN role[c]
      /\ \A r \in DOMAIN kept : role'[c][r] = kept[r]
      /\ \A r \in DOMAIN role[c] \ DOMAIN kept : role'[c][r] = role[c][r]
  BY <1>1 DEF Take, SInv, Typed, CallType
<1>10. Typed'
  <2>1. MessType'
    BY <1>3 DEF SInv, Typed, MessType
  <2>2. QueueType'
    BY <1>3, <1>4 DEF SInv, Typed, QueueType
  <2>3. TodoType'
    BY <1>2, <1>7 DEF TodoType, GoodOps
  <2>4. SetsType'
    BY <1>2, <1>3 DEF SInv, Typed, SetsType
  <2>5. CallType'
    <3>1. \A d \in Calls : DOMAIN role'[d] \subseteq Roles
      <4>1. \A d \in Calls : DOMAIN role[d] \subseteq Roles
        BY DEF SInv, Typed, CallType
      <4>2. DOMAIN kept \subseteq Roles
        BY DEF GoodKept
      <4>3. DOMAIN role'[c] \subseteq Roles
        BY <1>1, <1>9, <4>1, <4>2
      <4>4. \A d \in Calls \ {c} : DOMAIN role'[d] \subseteq Roles
        BY <1>9, <4>1
      <4> QED BY <4>3, <4>4
    <3>2. \A d \in Calls : \A r \in DOMAIN role'[d] : role'[d][r] \in Ids'
      <4>1. \A d \in Calls : \A r \in DOMAIN role[d] : role[d][r] \in Ids'
        BY <1>3 DEF SInv, Typed, CallType
      <4>2. \A r \in DOMAIN kept : kept[r] \in Ids'
        BY <1>1, <1>3 DEF GoodKept
      <4>3. \A r \in DOMAIN role'[c] : role'[c][r] \in Ids'
        BY <1>1, <1>9, <4>1, <4>2
      <4>4. \A d \in Calls \ {c} : \A r \in DOMAIN role'[d] : role'[d][r] \in Ids'
        BY <1>9, <4>1
      <4> QED BY <4>3, <4>4
    <3> QED BY <1>9, <3>1, <3>2 DEF CallType, GoodCalls
  <2> QED BY <2>1, <2>2, <2>3, <2>4, <2>5 DEF Typed
<1>11. KindsInv'
  <2>1. \A t \in Stages : \A i \in DOMAIN queue'[t] :
           \E j \in DOMAIN queue[t] : /\ queue'[t][i] = queue[t][j]
                                      /\ mess'[queue[t][j]] = mess[queue[t][j]]
    <3>1. \A t \in Stages : \A j \in DOMAIN queue[t] : mess'[queue[t][j]] = mess[queue[t][j]]
      BY <1>3 DEF SInv, Typed, QueueType
    <3> QED BY <1>4, <3>1
  <2>2. ASSUME NEW i \in DOMAIN queue'["SIPENGINE"]
        PROVE  mess'[queue'["SIPENGINE"][i]].kind \in FromNetwork
    <3>1. PICK j \in DOMAIN queue["SIPENGINE"] :
             /\ queue'["SIPENGINE"][i] = queue["SIPENGINE"][j]
             /\ mess'[queue["SIPENGINE"][j]] = mess[queue["SIPENGINE"][j]]
      BY <2>1, StageNames
    <3> QED BY <3>1 DEF SInv, KindsInv
  <2>3. ASSUME NEW i \in DOMAIN queue'["SL_CC"]
        PROVE  mess'[queue'["SL_CC"][i]].kind \in ToCalls
    <3>1. PICK j \in DOMAIN queue["SL_CC"] :
             /\ queue'["SL_CC"][i] = queue["SL_CC"][j]
             /\ mess'[queue["SL_CC"][j]] = mess[queue["SL_CC"][j]]
      BY <2>1, StageNames
    <3> QED BY <3>1 DEF SInv, KindsInv
  <2> QED BY <2>2, <2>3 DEF KindsInv
<1>12. LifeInv'
  <2>1. ASSUME NEW x \in Ids', x \in purged'
        PROVE  ~Waits(x)' /\ ~OnWay(x)' /\ ~InHands(x)' /\ ~IsLocked(x)'
    <3>1. x \in Ids /\ x \in purged /\ x \notin Fresh(news)
      BY <1>2, <1>3, <2>1 DEF SInv, Typed, SetsType
    <3>2. ~Waits(x) /\ ~OnWay(x) /\ ~IsLocked(x)
      BY <3>1 DEF SInv, LifeInv
    <3> QED BY <1>1, <1>4, <1>5, <1>6, <1>8, <3>1, <3>2
  <2>2. ASSUME NEW x \in Ids'
        PROVE  \/ x \in purged' \/ Waits(x)' \/ OnWay(x)' \/ InHands(x)' \/ IsLocked(x)'
               \/ mess'[x].kind = "REGISTER"
    <3>1. CASE x \in {m} \cup Fresh(news)
      <4>1. x = m => mess'[x].kind = mess[x].kind
        BY <1>1, <1>3
      <4>2. CASE \E i \in DOMAIN ops : ops[i].op # "request" /\ ops[i].on = x
        BY <1>2, <4>2 DEF InHands
      <4> QED BY <3>1, <4>1, <4>2 DEF GoodOps
    <3>2. CASE x \notin {m} \cup Fresh(news)
      <4>1. x \in Ids /\ mess'[x] = mess[x]
        BY <1>3, <2>2, <3>2
      <4> QED BY <1>1, <1>2, <1>4, <1>5, <3>2, <4>1 DEF SInv, LifeInv
    <3> QED BY <3>1, <3>2
  <2> QED BY <2>1, <2>2 DEF LifeInv
<1>13. WaitInv'
  <2>1. ASSUME NEW x \in Ids', Waits(x)'
        PROVE  ~OnWay(x)' /\ ~IsLocked(x)' /\ \A i \in DOMAIN todo' : todo'[i].on # x
    <3>1. Waits(x) /\ x # m /\ x \in Ids
      BY <1>4, <1>6, <2>1
    <3>2. ~OnWay(x) /\ ~IsLocked(x)
      BY <3>1 DEF SInv, WaitInv
    <3> QED BY <1>3, <1>5, <1>6, <1>7, <3>1, <3>2
  <2> QED BY <1>4, <2>1 DEF WaitInv
<1>14. ShareInv'
  <2>1. ASSUME NEW x \in Ids', OnWay(x)', InHands(x)'
        PROVE  IsLocked(x)'
    <3>1. OnWay(x) /\ x # 0
      BY <1>1, <1>3, <1>5, <2>1, MessFacts DEF SInv, Typed
    <3>2. x \in Ids /\ x # m
      BY <1>1, <1>6, <3>1
    <3> QED BY <1>3, <1>5, <1>6, <1>8, <2>1, <3>2
  <2>2. /\ \A i, j \in DOMAIN queue'["TRNSPRT"] :
              i < j /\ queue'["TRNSPRT"][i] = queue'["TRNSPRT"][j] =>
                 IsLocked(queue["TRNSPRT"][i])'
        /\ \A i \in DOMAIN queue'["TRNSPRT"] :
              queue'["TRNSPRT"][i] = hand' => IsLocked(hand)'
    BY <1>2, <1>4 DEF SInv, ShareInv, IsLocked
  <2> QED BY <2>1, <2>2 DEF ShareInv
<1>15. TodoInv'
  <2>1. \A x \in lockedMessages[c] : IsLocked(x)'
    BY <1>5, <1>6
  <2>2. ASSUME NEW i \in DOMAIN todo', NEW j \in DOMAIN todo'
        PROVE  /\ mess'[todo'[i].on].call = mess'[todo'[j].on].call
               /\ i < j /\ todo'[i].on = todo'[j].on =>
                     todo'[i].op = "lock" \/ todo'[j].op = "request" \/ IsLocked(todo[i].on)'
    <3>1. mess'[todo'[i].on].call = mess'[todo'[j].on].call
      BY <1>7
    <3>2. ASSUME i < j, todo'[i].on = todo'[j].on, todo'[i].op # "lock",
                 todo'[j].op # "request"
          PROVE  IsLocked(todo[i].on)'
      <4>1. todo'[i].on \in lockedMessages[c]
        BY <1>2, <3>2 DEF GoodOps
      <4> QED BY <1>1, <1>2, <4>1 DEF IsLocked
    <3> QED BY <3>1, <3>2
  <2> QED BY <2>2 DEF TodoInv
<1>16. OwnInv'
  <2>1. ASSUME NEW d \in Calls, NEW x \in lockedMessages'[d]
        PROVE  mess'[x].call = d
    <3>1. x \in lockedMessages[d] /\ x \in Ids
      BY <1>1, <1>2, <1>6, <2>1 DEF IsLocked
    <3> QED BY <1>3, <3>1 DEF SInv, OwnInv
  <2>2. ASSUME NEW d \in Calls, NEW r \in DOMAIN role[d]
        PROVE  role[d][r] \in lockedMessages[d]
    BY <1>1 DEF SInv, OwnInv
  <2>3. ASSUME NEW d \in Calls, NEW r \in DOMAIN role'[d]
        PROVE  Keeps(d, role[d][r])'
    <3>1. CASE d = c /\ r \in DOMAIN kept
      <4>1. PICK i \in DOMAIN ops : ops[i].op = "lock" /\ ops[i].on = kept[r]
        BY <3>1 DEF GoodKept
      <4>2. i \in DOMAIN todo' /\ todo'[i].op = "lock" /\ todo'[i].on = kept[r]
        BY <1>2, <4>1
      <4>3. role'[d][r] = kept[r] /\ mess'[kept[r]].call = d
        BY <1>7, <1>9, <3>1, <4>2
      <4> QED BY <4>2, <4>3 DEF Keeps
    <3>2. CASE ~(d = c /\ r \in DOMAIN kept)
      <4>1. r \in DOMAIN role[d] /\ role'[d][r] = role[d][r]
        BY <1>9, <2>3, <3>2
      <4> QED BY <1>2, <2>2, <4>1 DEF Keeps
    <3> QED BY <3>1, <3>2
  <2>4. ASSUME NEW d \in Calls, NEW r \in DOMAIN role'[d], NEW q \in DOMAIN role'[d],
               role'[d][r] = role'[d][q]
        PROVE  r = q
    <3>1. \A a, b \in DOMAIN role[d] : role[d][a] = role[d][b] => a = b
      BY DEF SInv, OwnInv
    <3>2. CASE d # c
      BY <1>9, <2>4, <3>1, <3>2
    <3>3. CASE d = c
      <4>1. \A a \in DOMAIN kept : kept[a] \notin lockedMessages[c]
        BY <1>1, <1>3, <1>6 DEF GoodKept
      <4>2. \A a \in DOMAIN role[c] : role[c][a] \in lockedMessages[c]
        BY <1>1, <2>2
      <4>3. \A a, b \in DOMAIN kept : kept[a] = kept[b] => a = b
        BY DEF GoodKept
      <4>4. \A a \in DOMAIN role'[c] :
               \/ a \in DOMAIN kept /\ role'[c][a] = kept[a]
               \/ a \in DOMAIN role[c] /\ role'[c][a] = role[c][a]
        BY <1>9
      <4>5. /\ r \in DOMAIN role'[c] /\ q \in DOMAIN role'[c]
            /\ role'[c][r] = role'[c][q]
        BY <2>4, <3>3
      <4>6. \A a, b \in DOMAIN role[c] : role[c][a] = role[c][b] => a = b
        BY <3>1, <3>3
      <4>7. CASE r \in DOMAIN kept /\ role'[c][r] = kept[r]
        <5>1. role'[c][q] \notin lockedMessages[c]
          BY <4>1, <4>5, <4>7
        <5>2. q \in DOMAIN kept /\ role'[c][q] = kept[q]
          BY <4>2, <4>4, <4>5, <5>1
        <5> QED BY <4>3, <4>5, <4>7, <5>2
      <4>8. CASE r \in DOMAIN role[c] /\ role'[c][r] = role[c][r]
        <5>1. role'[c][q] \in lockedMessages[c]
          BY <4>2, <4>5, <4>8
        <5>2. q \in DOMAIN role[c] /\ role'[c][q] = role[c][q]
          BY <4>1, <4>4, <4>5, <5>1
        <5> QED BY <4>5, <4>6, <4>8, <5>2
      <4> QED BY <4>4, <4>5, <4>7, <4>8
    <3> QED BY <3>2, <3>3
  <2>5. ASSUME NEW d \in Calls, NEW s \in Sides, BYE_SV[s] \in DOMAIN role'[d]
        PROVE  STORED_MESSAGE[s] \in DOMAIN role'[d]
    <3>1. BYE_SV[s] \in DOMAIN role[d] => STORED_MESSAGE[s] \in DOMAIN role[d]
      BY DEF SInv, OwnInv, Has
    <3>2. BYE_SV[s] \in DOMAIN kept => STORED_MESSAGE[s] \in DOMAIN kept
      BY DEF GoodKept
    <3> HIDE DEF BYE_SV, STORED_MESSAGE
    <3> QED BY <1>9, <2>5, <3>1, <3>2
  <2> QED BY <2>1, <2>3, <2>4, <2>5 DEF OwnInv, Has
<1>17. TimeInv'
  <2> SUFFICES ASSUME NEW d \in Calls
               PROVE  /\ object'[d] # "requested" => idle'[d] = 0
                      /\ idle'[d] >= 1 =>
                            /\ Keeps(d, hand)' => slow' >= 1
                            /\ \A i \in DOMAIN queue'["TRNSPRT"] :
                                  Keeps(d, queue["TRNSPRT"][i])' => slow' >= InHand' + i
                            /\ \A i \in DOMAIN todo' :
                                  todo'[i].op = "send" /\ Keeps(d, todo[i].on)' =>
                                     slow' >= Unsent'
                      /\ idle'[d] >= 2 =>
                            /\ \A x \in Ids' : OnWay(x)' => ~Keeps(d, x)'
                            /\ \A i \in DOMAIN todo' :
                                  todo'[i].op = "send" => ~Keeps(d, todo[i].on)'
    BY DEF TimeInv
  <2>1. object'[d] # "requested" => idle'[d] = 0
    BY DEF GoodCalls
  <2>2. CASE idle'[d] = 0
    BY <2>1, <2>2
  <2>3. CASE idle'[d] # 0
    <3>1. idle'[d] = idle[d]
      BY <2>3 DEF GoodCalls
    <3>2. d # c \/ \A i \in DOMAIN ops : ops[i].op # "lock" /\ ops[i].on \in Fresh(news)
      BY <2>3 DEF GoodCalls
    <3>3. \A x : Keeps(d, x)' <=> x \in lockedMessages[d]
      BY <1>2, <1>7, <3>2 DEF Keeps
    <3>4. \A x \in lockedMessages[d] : x \in Ids /\ mess[x].call = d
      BY <1>6 DEF SInv, OwnInv, IsLocked
    <3>5. \A i \in DOMAIN todo' : todo'[i].on \notin lockedMessages[d]
      <4>1. \A x \in lockedMessages[d] : x # m
        BY <1>1 DEF IsLocked
      <4>2. \A x \in lockedMessages[d] : x \notin Fresh(news)
        BY <1>3, <3>4
      <4>3. CASE d # c
        BY <1>6, <1>7, <3>4, <4>1, <4>2, <4>3
      <4>4. CASE \A i \in DOMAIN ops : ops[i].op # "lock" /\ ops[i].on \in Fresh(news)
        BY <1>2, <4>2, <4>4
      <4> QED BY <3>2, <4>3, <4>4
    <3>6. \A x : Keeps(d, x)' <=> Keeps(d, x)
      BY <1>1, <3>3
    <3>7. Keeps(d, hand)' <=> Keeps(d, hand)
      BY <1>2, <3>6 DEF Keeps
    <3>8. \A i \in DOMAIN queue'["TRNSPRT"] :
             Keeps(d, queue["TRNSPRT"][i])' <=> Keeps(d, queue["TRNSPRT"][i])
      <4>1. \A i : queue'["TRNSPRT"][i] = queue["TRNSPRT"][i]
        BY <1>4
      <4>2. \A i \in DOMAIN queue'["TRNSPRT"] :
               Keeps(d, queue["TRNSPRT"][i])' <=> queue["TRNSPRT"][i] \in lockedMessages[d]
        BY <1>2, <1>7, <3>2, <4>1 DEF Keeps
      <4> QED BY <1>1, <4>2
    <3>9. \A i \in DOMAIN todo' : ~Keeps(d, todo[i].on)'
      BY <1>2, <3>3, <3>5 DEF Keeps
    <3>10. InHand' = InHand
      BY <1>2 DEF InHand
    <3>11. \A x \in Ids' : OnWay(x)' => x = 0 \/ x \in Ids
      BY <1>5, <1>6
    <3>12. \A x : Keeps(d, x)' => x \in Ids
      BY <3>3, <3>4
    <3> QED BY <1>2, <1>4, <1>5, <2>1, <3>1, <3>6, <3>7, <3>8, <3>9, <3>10, <3>12
            DEF SInv, TimeInv
  <2> QED BY <2>2, <2>3
<1> QED BY <1>10, <1>11, <1>12, <1>13, <1>14, <1>15, <1>16, <1>17 DEF SInv

-----------------------------------------------------------------------------
(* The handlers of SL_CC and SL_CO do what is asked of them.               *)

Taken(m, c) ==
    /\ todo = <<>> /\ queue["SL_CC"] # <<>>
    /\ m = Head(queue["SL_CC"]) /\ c = mess[m].call

\* The step starts the time of its call anew.
DoaKept(c) ==
    /\ object' \in [Calls -> {"none", "live", "requested"}]
    /\ idle' \in [Calls -> 0 .. TIMER_DOA + 1]
    /\ \A d \in Calls : /\ idle'[d] \in {0, idle[d]}
                        /\ object'[d] # "requested" => idle'[d] = 0
    /\ idle'[c] = 0

LEMMA TakenFacts ==
    ASSUME SInv, NEW m, NEW c, Taken(m, c)
    PROVE  /\ m \in Ids /\ m \in Nat /\ m # 0 /\ m <= Len(mess)
           /\ c \in Calls /\ Len(mess) \in Nat
           /\ mess[m].kind \in ToCalls /\ mess[m].side \in Sides
           /\ \A x \in lockedMessages[c] : x # m /\ x \in Nat
           /\ \A kind \in Kinds : \A s \in Sides : \A of \in Nat :
                 /\ Made(kind, m, s, of) \in MessRecords
                 /\ Made(kind, m, s, of).call = c /\ Made(kind, m, s, of).of = of
<1>1. m \in Ids /\ Waits(m)
  BY HeadWaits, StageNames DEF Taken
<1>2. /\ m \in Nat /\ m # 0 /\ m <= Len(mess) /\ c \in Calls /\ Len(mess) \in Nat
      /\ mess[m].side \in Sides
  BY <1>1, MessFacts DEF Taken, SInv, Typed, Ids
<1>3. mess[m].kind \in ToCalls
  BY HeadWaits, StageNames DEF Taken, SInv, KindsInv
<1>4. ~IsLocked(m)
  BY <1>1 DEF SInv, WaitInv
<1>5. \A x \in lockedMessages[c] : x # m /\ x \in Nat
  BY <1>2, <1>4, PlacesAreIds, MessFacts DEF IsLocked, SInv, Typed
<1>6. ASSUME NEW kind \in Kinds, NEW s \in Sides, NEW of \in Nat
      PROVE  /\ Made(kind, m, s, of) \in MessRecords
             /\ Made(kind, m, s, of).call = c /\ Made(kind, m, s, of).of = of
  BY <1>2 DEF Made, MessRecords, Taken
<1> QED BY <1>1, <1>2, <1>3, <1>5, <1>6

LEMMA HandlerKeeps ==
    ASSUME SInv, NEW m, NEW c, Taken(m, c), DoaKept(c), NEW news, NEW kept, NEW ops,
           GoodNews(c, news), GoodKept(m, news, kept, ops), GoodOps(m, c, news, ops),
           Take(m, news, kept, ops),
           closed' \in [Calls -> BOOLEAN], over' \in [Calls -> BOOLEAN]
    PROVE  SInv'
<1>1. GoodCalls(c, news, ops)
  BY DEF GoodCalls, DoaKept
<1> QED BY <1>1, TakeKeeps DEF Taken

LEMMA SendCopy ==
    /\ Nothing = [r \in {} |-> 0] /\ DOMAIN Nothing = {}
    /\ {"copy", "INVITE to B", "200 to A", "BYE relayed"} \subseteq Kinds
    /\ {"lock", "send", "end", "request"} \subseteq Ops
    /\ \A x \in Nat : /\ Lock(x) \in TodoRecords
                      /\ Lock(x).op = "lock" /\ Lock(x).on = x
    /\ \A x \in Nat : /\ Send(x) \in TodoRecords
                      /\ Send(x).op = "send" /\ Send(x).on = x
    /\ \A x \in Nat : /\ End(x) \in TodoRecords
                      /\ End(x).op = "end" /\ End(x).on = x
    /\ \A x \in Nat : /\ Request(x) \in TodoRecords
                      /\ Request(x).op = "request" /\ Request(x).on = x
  BY DEF Nothing, Kinds, Ops, TodoRecords, Lock, Send, End, Request

LEMMA NothingKept ==
    ASSUME NEW m, NEW news, NEW ops
    PROVE  GoodKept(m, news, Nothing, ops)
  BY SendCopy DEF GoodKept

LEMMA NoNews ==
    ASSUME SInv, NEW c
    PROVE  GoodNews(c, <<>>) /\ Fresh(<<>>) = {}
  BY MessFacts DEF GoodNews, Fresh, SInv, Typed

LEMMA OneNew ==
    ASSUME SInv, NEW c, NEW x \in MessRecords, x.call = c, x.of <= Len(mess) + 1
    PROVE  GoodNews(c, <<x>>) /\ Fresh(<<x>>) = {Len(mess) + 1}
<1>1. Len(mess) \in Nat
  BY MessFacts DEF SInv, Typed
<1> QED BY <1>1 DEF GoodNews, Fresh

LEMMA TwoNew ==
    ASSUME SInv, NEW c, NEW x \in MessRecords, NEW y \in MessRecords,
           x.call = c, x.of <= Len(mess) + 1, y.call = c, y.of <= Len(mess) + 2
    PROVE  /\ GoodNews(c, <<x, y>>)
           /\ Fresh(<<x, y>>) = {Len(mess) + 1, Len(mess) + 2}
<1>1. Len(mess) \in Nat
  BY MessFacts DEF SInv, Typed
<1> QED BY <1>1 DEF GoodNews, Fresh

LEMMA ThreeNew ==
    ASSUME SInv, NEW c, NEW x \in MessRecords, NEW y \in MessRecords, NEW z \in MessRecords,
           x.call = c, x.of <= Len(mess) + 1, y.call = c, y.of <= Len(mess) + 2,
           z.call = c, z.of <= Len(mess) + 3
    PROVE  /\ GoodNews(c, <<x, y, z>>)
           /\ Fresh(<<x, y, z>>) = {Len(mess) + 1, Len(mess) + 2, Len(mess) + 3}
<1>1. Len(mess) \in Nat
  BY MessFacts DEF SInv, Typed
<1> QED BY <1>1 DEF GoodNews, Fresh

LEMMA FourNew ==
    ASSUME SInv, NEW c, NEW w \in MessRecords, NEW x \in MessRecords, NEW y \in MessRecords,
           NEW z \in MessRecords, w.call = c, w.of <= Len(mess) + 1,
           x.call = c, x.of <= Len(mess) + 2, y.call = c, y.of <= Len(mess) + 3,
           z.call = c, z.of <= Len(mess) + 4
    PROVE  /\ GoodNews(c, <<w, x, y, z>>)
           /\ Fresh(<<w, x, y, z>>) = {Len(mess) + 1, Len(mess) + 2, Len(mess) + 3,
                                       Len(mess) + 4}
<1>1. Len(mess) \in Nat
  BY MessFacts DEF SInv, Typed
<1> QED BY <1>1 DEF GoodNews, Fresh

LEMMA OneItem ==
    ASSUME NEW S, NEW a \in S
    PROVE  /\ <<a>> \in Seq(S) /\ DOMAIN <<a>> = {1}
           /\ <<a>>[1] = a
  OBVIOUS

LEMMA TwoItems ==
    ASSUME NEW S, NEW a \in S, NEW b \in S
    PROVE  /\ <<a, b>> \in Seq(S) /\ DOMAIN <<a, b>> = {1, 2}
           /\ <<a, b>>[1] = a /\ <<a, b>>[2] = b
  OBVIOUS

LEMMA ThreeItems ==
    ASSUME NEW S, NEW a \in S, NEW b \in S, NEW c \in S
    PROVE  /\ <<a, b, c>> \in Seq(S) /\ DOMAIN <<a, b, c>> = {1, 2, 3}
           /\ <<a, b, c>>[1] = a /\ <<a, b, c>>[2] = b
           /\ <<a, b, c>>[3] = c
  OBVIOUS

LEMMA FiveItems ==
    ASSUME NEW S, NEW a \in S, NEW b \in S, NEW c \in S, NEW d \in S, NEW e \in S
    PROVE  /\ <<a, b, c, d, e>> \in Seq(S) /\ DOMAIN <<a, b, c, d, e>> = {1, 2, 3, 4, 5}
           /\ <<a, b, c, d, e>>[1] = a /\ <<a, b, c, d, e>>[2] = b
           /\ <<a, b, c, d, e>>[3] = c /\ <<a, b, c, d, e>>[4] = d
           /\ <<a, b, c, d, e>>[5] = e
  OBVIOUS

LEMMA SixItems ==
    ASSUME NEW S, NEW a \in S, NEW b \in S, NEW c \in S, NEW d \in S, NEW e \in S, NEW f \in S
    PROVE  /\ <<a, b, c, d, e, f>> \in Seq(S) /\ DOMAIN <<a, b, c, d, e, f>> = {1, 2, 3, 4, 5, 6}
           /\ <<a, b, c, d, e, f>>[1] = a /\ <<a, b, c, d, e, f>>[2] = b
           /\ <<a, b, c, d, e, f>>[3] = c /\ <<a, b, c, d, e, f>>[4] = d
           /\ <<a, b, c, d, e, f>>[5] = e /\ <<a, b, c, d, e, f>>[6] = f
  OBVIOUS

\* What SL_CC ignores it purges.
LEMMA IgnoreKeeps ==
    ASSUME SInv, NEW m, NEW c, Taken(m, c), DoaKept(c), Ignore(m)
    PROVE  SInv'
<1>1. m \in Nat
  BY TakenFacts
<1>2. GoodOps(m, c, <<>>, <<End(m)>>)
  <2> DEFINE ops == <<End(m)>>
  <2>1. /\ ops \in Seq(TodoRecords) /\ DOMAIN ops = {1}
        /\ ops[1].op = "end" /\ ops[1].on = m
    BY <1>1, SendCopy, OneItem
  <2> HIDE DEF ops
  <2>2. GoodOps(m, c, <<>>, ops)
    BY <2>1, NoNews DEF GoodOps
  <2> QED BY <2>2 DEF ops
<1>3. closed' \in [Calls -> BOOLEAN] /\ over' \in [Calls -> BOOLEAN]
  BY DEF Ignore, SInv, Typed, CallType
<1> QED BY <1>2, <1>3, NoNews, NothingKept, HandlerKeeps DEF Ignore

\* A message that is sent again is one the call has locked.
LEMMA SendOnlyKeeps ==
    ASSUME SInv, NEW m, NEW c, Taken(m, c), DoaKept(c), NEW x \in lockedMessages[c],
           SendOnly(m, x)
    PROVE  SInv'
<1>1. m \in Nat /\ x \in Nat /\ x # m
  BY TakenFacts
<1>2. GoodOps(m, c, <<>>, <<Send(x), End(m)>>)
  <2> DEFINE ops == <<Send(x), End(m)>>
  <2>1. /\ ops \in Seq(TodoRecords) /\ DOMAIN ops = {1, 2}
        /\ ops[1] = Send(x) /\ ops[2] = End(m)
    <3>1. Send(x) \in TodoRecords /\ End(m) \in TodoRecords
      BY <1>1, SendCopy
    <3> QED BY <3>1, TwoItems
  <2> HIDE DEF ops
  <2>2. GoodOps(m, c, <<>>, ops)
    <3>1. /\ ops[1].op = "send" /\ ops[1].on = x
          /\ ops[2].op = "end" /\ ops[2].on = m
      BY <2>1 DEF Send, End
    <3> QED BY <1>1, <2>1, <3>1, NoNews DEF GoodOps
  <2> QED BY <2>2 DEF ops
<1>3. closed' \in [Calls -> BOOLEAN] /\ over' \in [Calls -> BOOLEAN]
  BY DEF SendOnly, SInv, Typed, CallType
<1> QED BY <1>2, <1>3, NoNews, NothingKept, HandlerKeeps DEF SendOnly

LEMMA SendNewKeeps ==
    ASSUME SInv, NEW m, NEW c, Taken(m, c), DoaKept(c), NEW x \in MessRecords,
           x.call = c, x.of <= Len(mess) + 1, SendNew(m, x)
    PROVE  SInv'
<1>1. m \in Nat /\ m <= Len(mess) /\ Len(mess) \in Nat
  BY TakenFacts
<1>2. GoodNews(c, <<x>>) /\ Fresh(<<x>>) = {Len(mess) + 1}
  BY OneNew
<1>3. GoodOps(m, c, <<x>>, <<Send(New(1)), End(m)>>)
  <2> DEFINE ops == <<Send(New(1)), End(m)>>
  <2>1. /\ ops \in Seq(TodoRecords) /\ DOMAIN ops = {1, 2}
        /\ ops[1] = Send(New(1)) /\ ops[2] = End(m)
    <3>1. Send(New(1)) \in TodoRecords /\ End(m) \in TodoRecords
      <4>1. New(1) \in Nat
        BY <1>1 DEF New
      <4> QED BY <1>1, <4>1, SendCopy
    <3> QED BY <3>1, TwoItems
  <2> HIDE DEF ops
  <2>2. GoodOps(m, c, <<x>>, ops)
    <3>1. /\ ops[1].op = "send" /\ ops[1].on = Len(mess) + 1
          /\ ops[2].op = "end" /\ ops[2].on = m
      BY <2>1 DEF Send, End, New
    <3> QED BY <1>1, <1>2, <2>1, <3>1 DEF GoodOps
  <2> QED BY <2>2 DEF ops
<1>4. closed' \in [Calls -> BOOLEAN] /\ over' \in [Calls -> BOOLEAN]
  BY DEF SendNew, SInv, Typed, CallType
<1> QED BY <1>2, <1>3, <1>4, NothingKept, HandlerKeeps DEF SendNew

LEMMA Joined ==
    ASSUME NEW S, NEW s \in Seq(S), NEW t \in Seq(S)
    PROVE  /\ s \o t \in Seq(S)
           /\ DOMAIN (s \o t) = 1 .. Len(s) + Len(t)
           /\ \A i \in 1 .. Len(s) + Len(t) :
                 (s \o t)[i] = IF i <= Len(s) THEN s[i] ELSE t[i - Len(s)]
  OBVIOUS

LEMMA OneAndTwo ==
    ASSUME NEW S, NEW s \in Seq(S), NEW t \in Seq(S)
    PROVE  Len(s) = 1 /\ Len(t) = 2 =>
              /\ s \o t \in Seq(S) /\ DOMAIN (s \o t) = {1, 2, 3}
              /\ (s \o t)[1] = s[1] /\ (s \o t)[2] = t[1] /\ (s \o t)[3] = t[2]
<1> DEFINE r == s \o t
<1> HIDE DEF r
<1>1. /\ r \in Seq(S) /\ DOMAIN r = 1 .. Len(s) + Len(t)
      /\ \A i \in 1 .. Len(s) + Len(t) : r[i] = IF i <= Len(s) THEN s[i] ELSE t[i - Len(s)]
  BY Joined DEF r
<1>2. Len(s) = 1 /\ Len(t) = 2 =>
         /\ r \in Seq(S) /\ DOMAIN r = {1, 2, 3}
         /\ r[1] = s[1] /\ r[2] = t[1] /\ r[3] = t[2]
  BY <1>1
<1> QED BY <1>2 DEF r

LEMMA TwoAndTwoAndOne ==
    ASSUME NEW S, NEW s \in Seq(S), NEW t \in Seq(S), NEW u \in Seq(S)
    PROVE  Len(s) = 2 /\ Len(t) = 2 /\ Len(u) = 1 =>
              /\ s \o t \o u \in Seq(S) /\ DOMAIN (s \o t \o u) = {1, 2, 3, 4, 5}
              /\ (s \o t \o u)[1] = s[1] /\ (s \o t \o u)[2] = s[2]
              /\ (s \o t \o u)[3] = t[1] /\ (s \o t \o u)[4] = t[2]
              /\ (s \o t \o u)[5] = u[1]
<1> DEFINE q == s \o t
           r == q \o u
<1> HIDE DEF q, r
<1>1. /\ q \in Seq(S)
      /\ DOMAIN q = 1 .. Len(s) + Len(t) /\ Len(q) = Len(s) + Len(t)
      /\ \A i \in 1 .. Len(s) + Len(t) : q[i] = IF i <= Len(s) THEN s[i] ELSE t[i - Len(s)]
  BY Joined DEF q
<1>2. /\ r \in Seq(S)
      /\ DOMAIN r = 1 .. Len(q) + Len(u)
      /\ \A i \in 1 .. Len(q) + Len(u) : r[i] = IF i <= Len(q) THEN q[i] ELSE u[i - Len(q)]
  BY <1>1, Joined DEF r
<1>3. Len(s) = 2 /\ Len(t) = 2 /\ Len(u) = 1 =>
         Len(q) = 4 /\ q[1] = s[1] /\ q[2] = s[2] /\ q[3] = t[1] /\ q[4] = t[2]
  BY <1>1
<1>4. Len(q) = 4 /\ Len(u) = 1 =>
         /\ r \in Seq(S) /\ DOMAIN r = {1, 2, 3, 4, 5}
         /\ r[1] = q[1] /\ r[2] = q[2] /\ r[3] = q[3] /\ r[4] = q[4] /\ r[5] = u[1]
  BY <1>2
<1> QED BY <1>3, <1>4 DEF r, q

LEMMA MadeFacts ==
    ASSUME SInv, NEW m, NEW c, Taken(m, c), NEW kind \in Kinds, NEW s \in Sides, NEW of \in Nat
    PROVE  /\ Made(kind, m, s, of) \in MessRecords
           /\ Made(kind, m, s, of).call = c /\ Made(kind, m, s, of).of = of
  BY TakenFacts

LEMMA CopyFacts ==
    ASSUME SInv, NEW m, NEW c, Taken(m, c)
    PROVE  /\ Copy(m) \in MessRecords /\ Copy(m).call = c /\ Copy(m).of = 0
           /\ New(1) \in Nat /\ New(2) \in Nat /\ New(3) \in Nat /\ New(4) \in Nat
           /\ m \in Nat /\ m <= Len(mess) /\ Len(mess) \in Nat
           /\ New(1) = Len(mess) + 1 /\ New(2) = Len(mess) + 2
           /\ New(3) = Len(mess) + 3 /\ New(4) = Len(mess) + 4
<1>1. m \in Nat /\ m <= Len(mess) /\ Len(mess) \in Nat /\ mess[m].side \in Sides
  BY TakenFacts
<1>2. Copy(m) \in MessRecords /\ Copy(m).call = c /\ Copy(m).of = 0
  <2>1. "copy" \in Kinds /\ 0 \in Nat
    BY SendCopy
  <2> QED BY <1>1, <2>1, MadeFacts DEF Copy
<1> QED BY <1>1, <1>2 DEF New

\* OKregister is sent, which no call keeps.
LEMMA RegisterKeeps ==
    ASSUME SInv, NEW m, NEW c, Taken(m, c), mess[m].kind = "REGISTER", Register(m, c)
    PROVE  SInv'
<1>1. Len(mess) \in Nat /\ m \in Nat /\ m <= Len(mess) /\ c \in Calls
  BY TakenFacts
<1>2. GoodNews(c, <<Copy(m)>>) /\ Fresh(<<Copy(m)>>) = {Len(mess) + 1}
  BY <1>1, CopyFacts, OneNew
<1> DEFINE ops == <<Send(New(1))>>
<1>3. ops \in Seq(TodoRecords) /\ DOMAIN ops = {1} /\ ops[1] = Send(New(1))
  BY CopyFacts, SendCopy, OneItem
<1>4. ops[1].op = "send" /\ ops[1].on = Len(mess) + 1
  BY <1>3 DEF Send, New
<1> HIDE DEF ops
<1>5. GoodOps(m, c, <<Copy(m)>>, ops)
  BY <1>1, <1>2, <1>3, <1>4 DEF GoodOps
<1>6. GoodCalls(c, <<Copy(m)>>, ops)
  <2>1. \A d \in Calls : idle'[d] = idle[d] /\ object'[d] = object[d]
    BY DEF Register, calls
  <2>2. /\ object' \in [Calls -> {"none", "live", "requested"}]
        /\ idle' \in [Calls -> 0 .. TIMER_DOA + 1]
        /\ closed' \in [Calls -> BOOLEAN] /\ over' \in [Calls -> BOOLEAN]
    BY DEF Register, calls, SInv, Typed, CallType
  <2>3. \A d \in Calls : object'[d] # "requested" => idle'[d] = 0
    BY <2>1 DEF SInv, TimeInv
  <2> QED BY <1>2, <1>3, <1>4, <2>1, <2>2, <2>3 DEF GoodCalls
<1>7. Take(m, <<Copy(m)>>, Nothing, ops)
  BY DEF Register, ops
<1> QED BY <1>2, <1>5, <1>6, <1>7, NothingKept, TakeKeeps DEF Taken

LEMMA NewCallKeeps ==
    ASSUME SInv, NEW m, NEW c, Taken(m, c), DoaKept(c), NewCall(m, c)
    PROVE  SInv'
<1>1. Len(mess) \in Nat /\ m \in Nat /\ m <= Len(mess) /\ m # 0 /\ c \in Calls
  BY TakenFacts
<1> DEFINE news == <<Copy(m), Copy(m), Copy(m), Made("INVITE to B", m, "A", New(3))>>
           kept == [r \in {"INVITE_SV", "STOREMESS_1_1", "INVITE_CL"} |->
                        CASE r = "INVITE_SV" -> m
                          [] r = "STOREMESS_1_1" -> New(2)
                          [] r = "INVITE_CL" -> New(3)]
           ops == <<Send(New(1)), Lock(m), Lock(New(2)), Lock(New(3)), Send(New(4)), End(m)>>
<1>2. /\ GoodNews(c, news)
      /\ Fresh(news) = {Len(mess) + 1, Len(mess) + 2, Len(mess) + 3, Len(mess) + 4}
  <2> DEFINE z == Made("INVITE to B", m, "A", New(3))
  <2>1. z \in MessRecords /\ z.call = c /\ z.of = New(3)
    <3>1. "INVITE to B" \in Kinds /\ "A" \in Sides /\ New(3) \in Nat
      BY CopyFacts, SendCopy DEF Sides
    <3>2. mess[m].call \in Calls /\ mess[m].call = c
      BY <1>1 DEF Taken
    <3> HIDE DEF news, kept, ops
    <3> QED BY <3>1, <3>2 DEF Made, MessRecords
  <2> HIDE DEF z
  <2>2. /\ GoodNews(c, <<Copy(m), Copy(m), Copy(m), z>>)
        /\ Fresh(<<Copy(m), Copy(m), Copy(m), z>>) =
              {Len(mess) + 1, Len(mess) + 2, Len(mess) + 3, Len(mess) + 4}
    BY <2>1, CopyFacts, FourNew, SMTT(20)
  <2>3. news = <<Copy(m), Copy(m), Copy(m), z>>
    BY DEF z
  <2> HIDE DEF news
  <2> QED BY <2>2, <2>3
<1>3. /\ ops \in Seq(TodoRecords) /\ DOMAIN ops = {1, 2, 3, 4, 5, 6}
      /\ ops[1] = Send(New(1)) /\ ops[2] = Lock(m) /\ ops[3] = Lock(New(2))
      /\ ops[4] = Lock(New(3)) /\ ops[5] = Send(New(4)) /\ ops[6] = End(m)
  <2>1. /\ Send(New(1)) \in TodoRecords /\ Lock(m) \in TodoRecords
        /\ Lock(New(2)) \in TodoRecords /\ Lock(New(3)) \in TodoRecords
        /\ Send(New(4)) \in TodoRecords /\ End(m) \in TodoRecords
    BY CopyFacts, SendCopy
  <2> QED BY <2>1, SixItems
<1>4. /\ DOMAIN kept = {"INVITE_SV", "STOREMESS_1_1", "INVITE_CL"}
      /\ kept["INVITE_SV"] = m /\ kept["STOREMESS_1_1"] = New(2) /\ kept["INVITE_CL"] = New(3)
  OBVIOUS
<1>5. Take(m, news, kept, ops) /\ UNCHANGED <<closed, over>>
  BY DEF NewCall
<1> HIDE DEF news, kept, ops
<1>6. /\ ops[1].op = "send" /\ ops[1].on = Len(mess) + 1
      /\ ops[2].op = "lock" /\ ops[2].on = m
      /\ ops[3].op = "lock" /\ ops[3].on = Len(mess) + 2
      /\ ops[4].op = "lock" /\ ops[4].on = Len(mess) + 3
      /\ ops[5].op = "send" /\ ops[5].on = Len(mess) + 4
      /\ ops[6].op = "end" /\ ops[6].on = m
  BY <1>3 DEF Send, Lock, End, New
<1>7. GoodOps(m, c, news, ops)
  BY <1>1, <1>2, <1>3, <1>6 DEF GoodOps
<1>8. GoodKept(m, news, kept, ops)
  <2>1. kept["STOREMESS_1_1"] = Len(mess) + 2 /\ kept["INVITE_CL"] = Len(mess) + 3
    BY <1>4 DEF New
  <2> QED BY <1>1, <1>2, <1>3, <1>4, <1>6, <2>1 DEF GoodKept, Roles, Sides, BYE_SV
<1>9. closed' \in [Calls -> BOOLEAN] /\ over' \in [Calls -> BOOLEAN]
  BY <1>5 DEF SInv, Typed, CallType
<1> QED BY <1>2, <1>5, <1>7, <1>8, <1>9, HandlerKeeps

LEMMA TwoHundredMade ==
    ASSUME SInv, NEW m, NEW c, Taken(m, c)
    PROVE  /\ Made("200 to A", m, "A", 0) \in MessRecords
           /\ Made("200 to A", m, "A", 0).call = c /\ Made("200 to A", m, "A", 0).of = 0
<1>1. "200 to A" \in Kinds /\ "A" \in Sides /\ c \in Calls /\ mess[m].call = c
  BY SendCopy, TakenFacts DEF Sides, Taken
<1> QED BY <1>1 DEF Made, MessRecords

\* An INVITE_SV that gives up, with a 503 or without one.
LEMMA CloseKeeps ==
    ASSUME SInv, NEW m, NEW c, Taken(m, c), DoaKept(c),
           \/ Close(m, c, <<>>, <<>>)
           \/ Close(m, c, <<Copy(m)>>, <<Send(New(1))>>)
    PROVE  SInv'
<1>1. Len(mess) \in Nat /\ m \in Nat /\ m <= Len(mess) /\ c \in Calls
  BY TakenFacts
<1>2. End(m) \in TodoRecords /\ Request(m) \in TodoRecords /\ Send(New(1)) \in TodoRecords
  BY CopyFacts, SendCopy
<1>3. closed' \in [Calls -> BOOLEAN] /\ over' \in [Calls -> BOOLEAN]
  BY <1>1 DEF Close, SInv, Typed, CallType
<1>4. CASE Close(m, c, <<>>, <<>>)
  <2> DEFINE ops == <<>> \o <<End(m), Request(m)>>
  <2>1. /\ ops \in Seq(TodoRecords) /\ DOMAIN ops = {1, 2}
        /\ ops[1] = End(m) /\ ops[2] = Request(m)
    <3>1. <<>> \o <<End(m), Request(m)>> = <<End(m), Request(m)>>
      OBVIOUS
    <3>2. /\ <<End(m), Request(m)>> \in Seq(TodoRecords)
          /\ DOMAIN <<End(m), Request(m)>> = {1, 2}
          /\ <<End(m), Request(m)>>[1] = End(m) /\ <<End(m), Request(m)>>[2] = Request(m)
      BY <1>2, TwoItems
    <3> QED BY <3>1, <3>2
  <2>2. Take(m, <<>>, Nothing, ops)
    BY <1>4 DEF Close
  <2> HIDE DEF ops
  <2>3. ops[1].op = "end" /\ ops[1].on = m /\ ops[2].op = "request" /\ ops[2].on = m
    BY <2>1 DEF End, Request
  <2>4. GoodOps(m, c, <<>>, ops)
    BY <1>1, <2>1, <2>3, NoNews DEF GoodOps
  <2> QED BY <1>3, <2>2, <2>4, NoNews, NothingKept, HandlerKeeps
<1>5. CASE Close(m, c, <<Copy(m)>>, <<Send(New(1))>>)
  <2> DEFINE ops == <<Send(New(1))>> \o <<End(m), Request(m)>>
  <2>1. /\ ops \in Seq(TodoRecords) /\ DOMAIN ops = {1, 2, 3}
        /\ ops[1] = Send(New(1)) /\ ops[2] = End(m) /\ ops[3] = Request(m)
    <3> DEFINE s == <<Send(New(1))>>
               t == <<End(m), Request(m)>>
    <3>1. s \in Seq(TodoRecords) /\ Len(s) = 1 /\ s[1] = Send(New(1))
      BY <1>2
    <3>2. t \in Seq(TodoRecords) /\ Len(t) = 2 /\ t[1] = End(m) /\ t[2] = Request(m)
      BY <1>2
    <3> HIDE DEF s, t
    <3>3. /\ s \o t \in Seq(TodoRecords) /\ DOMAIN (s \o t) = {1, 2, 3}
          /\ (s \o t)[1] = s[1] /\ (s \o t)[2] = t[1] /\ (s \o t)[3] = t[2]
      BY <3>1, <3>2, OneAndTwo
    <3> QED BY <3>1, <3>2, <3>3 DEF s, t
  <2>2. Take(m, <<Copy(m)>>, Nothing, ops)
    BY <1>5 DEF Close
  <2> HIDE DEF ops
  <2>3. /\ ops[1].op = "send" /\ ops[1].on = Len(mess) + 1
        /\ ops[2].op = "end" /\ ops[2].on = m /\ ops[3].op = "request" /\ ops[3].on = m
    BY <2>1 DEF Send, End, Request, New
  <2>4. GoodNews(c, <<Copy(m)>>) /\ Fresh(<<Copy(m)>>) = {Len(mess) + 1}
    BY <1>1, CopyFacts, OneNew
  <2>5. GoodOps(m, c, <<Copy(m)>>, ops)
    BY <1>1, <2>1, <2>3, <2>4 DEF GoodOps
  <2> QED BY <1>3, <2>2, <2>4, <2>5, NothingKept, HandlerKeeps
<1> QED BY <1>4, <1>5

LEMMA ByeAnsweredKeeps ==
    ASSUME SInv, NEW m, NEW c, Taken(m, c), DoaKept(c), act_200ok_bye_to_alo(m, c)
    PROVE  SInv'
<1>1. Len(mess) \in Nat /\ m \in Nat /\ m <= Len(mess) /\ c \in Calls
  BY TakenFacts
<1>2. closed' \in [Calls -> BOOLEAN] /\ over' \in [Calls -> BOOLEAN]
  BY <1>1 DEF act_200ok_bye_to_alo, SInv, Typed, CallType
<1> DEFINE ops == <<End(m), Request(m)>>
<1>3. /\ ops \in Seq(TodoRecords) /\ DOMAIN ops = {1, 2}
      /\ ops[1] = End(m) /\ ops[2] = Request(m)
  <2>1. End(m) \in TodoRecords /\ Request(m) \in TodoRecords
    BY <1>1, SendCopy
  <2> QED BY <2>1, TwoItems
<1>4. Take(m, <<>>, Nothing, ops)
  BY DEF act_200ok_bye_to_alo
<1> HIDE DEF ops
<1>5. ops[1].op = "end" /\ ops[1].on = m /\ ops[2].op = "request" /\ ops[2].on = m
  BY <1>3 DEF End, Request
<1>6. GoodOps(m, c, <<>>, ops)
  BY <1>1, <1>3, <1>5, NoNews DEF GoodOps
<1> QED BY <1>2, <1>4, <1>6, NoNews, NothingKept, HandlerKeeps

LEMMA InviteAgainKeeps ==
    ASSUME SInv, NEW m, NEW c, Taken(m, c), DoaKept(c), InviteAgain(m, c)
    PROVE  SInv'
<1>1. CASE closed[c]
  BY <1>1, IgnoreKeeps DEF InviteAgain
<1>2. CASE ~closed[c] /\ Has(c, "STOREMESS_1_3")
  <2> DEFINE x == Made("200 to A", m, "A", 0)
  <2>1. x \in MessRecords /\ x.call = c /\ x.of = 0
    BY TwoHundredMade
  <2>2. SendNew(m, x)
    BY <1>2 DEF InviteAgain
  <2> HIDE DEF x
  <2>3. x.of <= Len(mess) + 1
    BY <2>1, TakenFacts
  <2> QED BY <2>1, <2>2, <2>3, SendNewKeeps
<1>3. CASE ~closed[c] /\ ~Has(c, "STOREMESS_1_3")
  BY <1>3, CloseKeeps DEF InviteAgain
<1> QED BY <1>1, <1>2, <1>3

LEMMA ProvisionalKeeps ==
    ASSUME SInv, NEW m, NEW c, Taken(m, c), DoaKept(c), act_provreply_to_a(m, c)
    PROVE  SInv'
<1>1. Len(mess) \in Nat /\ m \in Nat /\ m <= Len(mess) /\ c \in Calls
  BY TakenFacts
<1> DEFINE ops == <<Lock(New(1)), Send(New(1)), End(m)>>
           kept == Keeping("STOREMESS_1_2", New(1))
<1>2. /\ ops \in Seq(TodoRecords) /\ DOMAIN ops = {1, 2, 3}
      /\ ops[1] = Lock(New(1)) /\ ops[2] = Send(New(1)) /\ ops[3] = End(m)
  <2>1. /\ Lock(New(1)) \in TodoRecords /\ Send(New(1)) \in TodoRecords
        /\ End(m) \in TodoRecords
    BY CopyFacts, SendCopy
  <2> QED BY <2>1, ThreeItems
<1>3. DOMAIN kept = {"STOREMESS_1_2"} /\ kept["STOREMESS_1_2"] = Len(mess) + 1
  BY DEF Keeping, New
<1>4. \/ Ignore(m)
      \/ Take(m, <<Copy(m)>>, kept, ops) /\ UNCHANGED <<closed, over>>
  BY DEF act_provreply_to_a
<1> HIDE DEF ops, kept
<1>5. /\ ops[1].op = "lock" /\ ops[1].on = Len(mess) + 1
      /\ ops[2].op = "send" /\ ops[2].on = Len(mess) + 1
      /\ ops[3].op = "end" /\ ops[3].on = m
  BY <1>2 DEF Lock, Send, End, New
<1>6. GoodNews(c, <<Copy(m)>>) /\ Fresh(<<Copy(m)>>) = {Len(mess) + 1}
  BY <1>1, CopyFacts, OneNew
<1>7. GoodOps(m, c, <<Copy(m)>>, ops)
  BY <1>1, <1>2, <1>5, <1>6 DEF GoodOps
<1>8. GoodKept(m, <<Copy(m)>>, kept, ops)
  BY <1>2, <1>3, <1>5, <1>6 DEF GoodKept, Roles, Sides, BYE_SV
<1>9. CASE Take(m, <<Copy(m)>>, kept, ops) /\ UNCHANGED <<closed, over>>
  <2>1. closed' \in [Calls -> BOOLEAN] /\ over' \in [Calls -> BOOLEAN]
    BY <1>9 DEF SInv, Typed, CallType
  <2> QED BY <1>6, <1>7, <1>8, <1>9, <2>1, HandlerKeeps
<1> QED BY <1>4, <1>9, IgnoreKeeps

LEMMA AnswerKeeps ==
    ASSUME SInv, NEW m, NEW c, Taken(m, c), DoaKept(c), act_200ok_fwdto_a(m, c)
    PROVE  SInv'
<1>1. Len(mess) \in Nat /\ m \in Nat /\ m <= Len(mess) /\ c \in Calls
  BY TakenFacts
<1>2. /\ GoodNews(c, <<Copy(m), Made("200 to A", m, "A", 0)>>)
      /\ Fresh(<<Copy(m), Made("200 to A", m, "A", 0)>>) = {Len(mess) + 1, Len(mess) + 2}
  <2> DEFINE x == Copy(m)
             y == Made("200 to A", m, "A", 0)
  <2>1. /\ x \in MessRecords /\ x.call = c /\ x.of = 0
        /\ y \in MessRecords /\ y.call = c /\ y.of = 0
    BY CopyFacts, TwoHundredMade
  <2> HIDE DEF x, y
  <2>2. x.of <= Len(mess) + 1 /\ y.of <= Len(mess) + 2
    BY <1>1, <2>1
  <2>3. GoodNews(c, <<x, y>>) /\ Fresh(<<x, y>>) = {Len(mess) + 1, Len(mess) + 2}
    BY <2>1, <2>2, TwoNew
  <2> QED BY <2>3 DEF x, y
<1> DEFINE ops == <<Lock(New(1)), Send(New(2)), End(m)>>
           news == <<Copy(m), Made("200 to A", m, "A", 0)>>
           kept == Keeping("STOREMESS_1_3", New(1))
<1>4. /\ ops \in Seq(TodoRecords) /\ DOMAIN ops = {1, 2, 3}
      /\ ops[1] = Lock(New(1)) /\ ops[2] = Send(New(2)) /\ ops[3] = End(m)
  <2>1. /\ Lock(New(1)) \in TodoRecords /\ Send(New(2)) \in TodoRecords
        /\ End(m) \in TodoRecords
    BY CopyFacts, SendCopy
  <2> QED BY <2>1, ThreeItems
<1>5. DOMAIN kept = {"STOREMESS_1_3"} /\ kept["STOREMESS_1_3"] = Len(mess) + 1
  BY DEF Keeping, New
<1>6. Take(m, news, kept, ops) /\ UNCHANGED <<closed, over>>
  BY DEF act_200ok_fwdto_a
<1> HIDE DEF ops, news, kept
<1>7. /\ ops[1].op = "lock" /\ ops[1].on = Len(mess) + 1
      /\ ops[2].op = "send" /\ ops[2].on = Len(mess) + 2
      /\ ops[3].op = "end" /\ ops[3].on = m
  BY <1>4 DEF Lock, Send, End, New
<1>8. GoodNews(c, news) /\ Fresh(news) = {Len(mess) + 1, Len(mess) + 2}
  BY <1>2 DEF news
<1>9. GoodOps(m, c, news, ops)
  BY <1>1, <1>4, <1>7, <1>8 DEF GoodOps
<1>10. GoodKept(m, news, kept, ops)
  BY <1>4, <1>5, <1>7, <1>8 DEF GoodKept, Roles, Sides, BYE_SV
<1>11. closed' \in [Calls -> BOOLEAN] /\ over' \in [Calls -> BOOLEAN]
  BY <1>6 DEF SInv, Typed, CallType
<1> QED BY <1>6, <1>8, <1>9, <1>10, <1>11, HandlerKeeps

\* A pointer of a call between two steps of SL_CC is to a message it locked.
LEMMA RoleLocked ==
    ASSUME SInv, NEW m, NEW c, Taken(m, c), NEW r, Has(c, r)
    PROVE  role[c][r] \in lockedMessages[c]
<1>1. c \in Calls /\ DOMAIN todo = {}
  BY TakenFacts DEF Taken
<1> QED BY <1>1 DEF SInv, OwnInv, Keeps, Has

LEMMA OkOfBKeeps ==
    ASSUME SInv, NEW m, NEW c, Taken(m, c), DoaKept(c), OkOfB(m, c)
    PROVE  SInv'
<1>1. CASE act_200ok_fwdto_a(m, c)
  BY <1>1, AnswerKeeps
<1>2. CASE Has(c, "ACKTOB") /\ SendOnly(m, role[c]["ACKTOB"])
  BY <1>2, RoleLocked, SendOnlyKeeps
<1>3. CASE Ignore(m)
  BY <1>3, IgnoreKeeps
<1> QED BY <1>1, <1>2, <1>3 DEF OkOfB

LEMMA AckOfAKeeps ==
    ASSUME SInv, NEW m, NEW c, Taken(m, c), DoaKept(c), AckOfA(m, c)
    PROVE  SInv'
<1>1. Len(mess) \in Nat /\ m \in Nat /\ m <= Len(mess) /\ m # 0 /\ c \in Calls
  BY TakenFacts
<1> DEFINE news == <<Copy(m), Copy(m)>>
           kept == [r \in {"ACK_SV", "ACK_CL", "ACKTOB"} |->
                        CASE r = "ACK_SV" -> m
                          [] r = "ACK_CL" -> New(1)
                          [] r = "ACKTOB" -> New(2)]
           s == <<Lock(m), Lock(New(1))>>
           t == <<Lock(New(2)), Send(New(2))>>
           u == <<End(m)>>
           ops == s \o t \o u
<1>2. \/ Ignore(m)
      \/ Take(m, news, kept, ops) /\ UNCHANGED <<closed, over>>
  BY DEF AckOfA, act_ack_to_b
<1>3. /\ DOMAIN kept = {"ACK_SV", "ACK_CL", "ACKTOB"}
      /\ kept["ACK_SV"] = m /\ kept["ACK_CL"] = New(1) /\ kept["ACKTOB"] = New(2)
  OBVIOUS
<1>4. /\ s \in Seq(TodoRecords) /\ Len(s) = 2 /\ s[1] = Lock(m) /\ s[2] = Lock(New(1))
      /\ t \in Seq(TodoRecords) /\ Len(t) = 2 /\ t[1] = Lock(New(2)) /\ t[2] = Send(New(2))
      /\ u \in Seq(TodoRecords) /\ Len(u) = 1 /\ u[1] = End(m)
  <2>1. /\ Lock(m) \in TodoRecords /\ Lock(New(1)) \in TodoRecords
        /\ Lock(New(2)) \in TodoRecords /\ Send(New(2)) \in TodoRecords
        /\ End(m) \in TodoRecords
    BY CopyFacts, SendCopy
  <2> QED BY <2>1
<1> HIDE DEF kept, s, t, u
<1>5. /\ ops \in Seq(TodoRecords) /\ DOMAIN ops = {1, 2, 3, 4, 5}
      /\ ops[1] = s[1] /\ ops[2] = s[2] /\ ops[3] = t[1] /\ ops[4] = t[2] /\ ops[5] = u[1]
  <2>1. /\ s \o t \o u \in Seq(TodoRecords) /\ DOMAIN (s \o t \o u) = {1, 2, 3, 4, 5}
        /\ (s \o t \o u)[1] = s[1] /\ (s \o t \o u)[2] = s[2]
        /\ (s \o t \o u)[3] = t[1] /\ (s \o t \o u)[4] = t[2] /\ (s \o t \o u)[5] = u[1]
    <3>1. /\ s \in Seq(TodoRecords) /\ t \in Seq(TodoRecords) /\ u \in Seq(TodoRecords)
          /\ Len(s) = 2 /\ Len(t) = 2 /\ Len(u) = 1
      BY <1>4
    <3> HIDE DEF news, ops
    <3> QED BY <3>1, TwoAndTwoAndOne, SMTT(20)
  <2> QED BY <2>1
<1> HIDE DEF ops
<1>6. /\ ops[1].op = "lock" /\ ops[1].on = m
      /\ ops[2].op = "lock" /\ ops[2].on = Len(mess) + 1
      /\ ops[3].op = "lock" /\ ops[3].on = Len(mess) + 2
      /\ ops[4].op = "send" /\ ops[4].on = Len(mess) + 2
      /\ ops[5].op = "end" /\ ops[5].on = m
  BY <1>4, <1>5 DEF Lock, Send, End, New
<1>7. GoodNews(c, news) /\ Fresh(news) = {Len(mess) + 1, Len(mess) + 2}
  <2> DEFINE x == Copy(m)
  <2>1. x \in MessRecords /\ x.call = c /\ x.of = 0
    BY CopyFacts
  <2> HIDE DEF x
  <2>2. x.of <= Len(mess) + 1 /\ x.of <= Len(mess) + 2
    BY <1>1, <2>1
  <2>3. GoodNews(c, <<x, x>>) /\ Fresh(<<x, x>>) = {Len(mess) + 1, Len(mess) + 2}
    BY <2>1, <2>2, TwoNew
  <2>4. news = <<x, x>>
    BY DEF x
  <2> HIDE DEF news
  <2> QED BY <2>3, <2>4
<1> HIDE DEF news
<1>8. GoodOps(m, c, news, ops)
  <2>1. \A i \in DOMAIN ops : ops[i].on \in {m} \cup Fresh(news)
    BY <1>5, <1>6, <1>7
  <2>2. \A i, j \in DOMAIN ops :
           i < j /\ ops[i].on = ops[j].on => ops[i].op = "lock"
    BY <1>1, <1>5, <1>6
  <2>3. \A x \in {m} \cup Fresh(news) :
           \E i \in DOMAIN ops : ops[i].op # "request" /\ ops[i].on = x
    BY <1>5, <1>6, <1>7
  <2> QED BY <1>5, <2>1, <2>2, <2>3 DEF GoodOps
<1>9. GoodKept(m, news, kept, ops)
  <2>1. kept["ACK_CL"] = Len(mess) + 1 /\ kept["ACKTOB"] = Len(mess) + 2
    BY <1>3 DEF New
  <2> QED BY <1>1, <1>3, <1>5, <1>6, <1>7, <2>1 DEF GoodKept, Roles, Sides, BYE_SV
<1>10. CASE Take(m, news, kept, ops) /\ UNCHANGED <<closed, over>>
  <2>1. closed' \in [Calls -> BOOLEAN] /\ over' \in [Calls -> BOOLEAN]
    BY <1>10 DEF SInv, Typed, CallType
  <2> QED BY <1>7, <1>8, <1>9, <1>10, <2>1, HandlerKeeps
<1> QED BY <1>2, <1>10, IgnoreKeeps

LEMMA RoleNames ==
    ASSUME NEW s \in Sides
    PROVE  /\ {BYE_SV[s], STORED_MESSAGE[s], BYE_CL[s]} \subseteq Roles
           /\ BYE_SV[s] # STORED_MESSAGE[s] /\ BYE_SV[s] # BYE_CL[s]
           /\ STORED_MESSAGE[s] # BYE_CL[s]
           /\ \A r \in Sides : BYE_SV[r] \in {BYE_SV[s], STORED_MESSAGE[s], BYE_CL[s]} => r = s
  BY DEF Roles, Sides, BYE_SV, STORED_MESSAGE, BYE_CL

ByeNews(m, s) == <<Copy(m), Copy(m), Made("BYE relayed", m, s, New(2))>>
ByeKept(m, s) == [r \in {BYE_SV[s], STORED_MESSAGE[s], BYE_CL[s]} |->
                      CASE r = BYE_SV[s] -> m
                        [] r = STORED_MESSAGE[s] -> New(1)
                        [] r = BYE_CL[s] -> New(2)]
ByeOps(m) ==
    <<Lock(m), Lock(New(1)), Send(New(1)), Lock(New(2)), Send(New(3)), End(m)>>

\* A first BYE: the 200 OK is kept and sent, the BYE is kept and relayed.
LEMMA ByeTakenKeeps ==
    ASSUME SInv, NEW m, NEW c, Taken(m, c), DoaKept(c), NEW s \in Sides,
           Take(m, ByeNews(m, s), ByeKept(m, s), ByeOps(m)), UNCHANGED <<closed, over>>
    PROVE  SInv'
<1>1. Len(mess) \in Nat /\ m \in Nat /\ m <= Len(mess) /\ m # 0 /\ c \in Calls
  BY TakenFacts
<1> DEFINE z == Made("BYE relayed", m, s, New(2))
           news == ByeNews(m, s)
           kept == ByeKept(m, s)
           ops == ByeOps(m)
<1>2. Take(m, news, kept, ops)
  OBVIOUS
<1>3. /\ DOMAIN kept = {BYE_SV[s], STORED_MESSAGE[s], BYE_CL[s]}
      /\ kept[BYE_SV[s]] = m /\ kept[STORED_MESSAGE[s]] = New(1) /\ kept[BYE_CL[s]] = New(2)
  BY RoleNames DEF ByeKept
<1> HIDE DEF kept, news
<1>4. /\ ops \in Seq(TodoRecords) /\ DOMAIN ops = {1, 2, 3, 4, 5, 6}
      /\ ops[1] = Lock(m) /\ ops[2] = Lock(New(1)) /\ ops[3] = Send(New(1))
      /\ ops[4] = Lock(New(2)) /\ ops[5] = Send(New(3)) /\ ops[6] = End(m)
  <2>1. /\ Lock(m) \in TodoRecords /\ Lock(New(1)) \in TodoRecords
        /\ Send(New(1)) \in TodoRecords /\ Lock(New(2)) \in TodoRecords
        /\ Send(New(3)) \in TodoRecords /\ End(m) \in TodoRecords
    BY CopyFacts, SendCopy
  <2> QED BY <2>1, SixItems DEF ByeOps
<1> HIDE DEF ops
<1>5. z \in MessRecords /\ z.call = c /\ z.of = Len(mess) + 2
  <2>1. "BYE relayed" \in Kinds /\ New(2) \in Nat /\ c \in Calls /\ mess[m].call = c
    BY <1>1, SendCopy, CopyFacts DEF Taken
  <2> QED BY <2>1 DEF Made, MessRecords, New
<1> HIDE DEF z
<1>6. /\ GoodNews(c, news)
      /\ Fresh(news) = {Len(mess) + 1, Len(mess) + 2, Len(mess) + 3}
  <2> DEFINE x == Copy(m)
  <2>1. x \in MessRecords /\ x.call = c /\ x.of = 0
    BY CopyFacts
  <2> HIDE DEF x
  <2>2. x.of <= Len(mess) + 1 /\ x.of <= Len(mess) + 2 /\ z.of <= Len(mess) + 3
    BY <1>1, <1>5, <2>1
  <2>3. /\ GoodNews(c, <<x, x, z>>)
        /\ Fresh(<<x, x, z>>) = {Len(mess) + 1, Len(mess) + 2, Len(mess) + 3}
    BY <1>5, <2>1, <2>2, ThreeNew, SMTT(20)
  <2>4. news = <<x, x, z>>
    BY DEF x, z, news, ByeNews
  <2> QED BY <2>3, <2>4
<1>7. /\ ops[1].op = "lock" /\ ops[1].on = m
      /\ ops[2].op = "lock" /\ ops[2].on = Len(mess) + 1
      /\ ops[3].op = "send" /\ ops[3].on = Len(mess) + 1
      /\ ops[4].op = "lock" /\ ops[4].on = Len(mess) + 2
      /\ ops[5].op = "send" /\ ops[5].on = Len(mess) + 3
      /\ ops[6].op = "end" /\ ops[6].on = m
  BY <1>4 DEF Lock, Send, End, New
<1>8. GoodOps(m, c, news, ops)
  BY <1>1, <1>4, <1>6, <1>7 DEF GoodOps
<1>9. GoodKept(m, news, kept, ops)
  <2>1. kept[STORED_MESSAGE[s]] = Len(mess) + 1 /\ kept[BYE_CL[s]] = Len(mess) + 2
    BY <1>3 DEF New
  <2> QED BY <1>1, <1>3, <1>4, <1>6, <1>7, <2>1, RoleNames DEF GoodKept
<1>10. closed' \in [Calls -> BOOLEAN] /\ over' \in [Calls -> BOOLEAN]
  BY DEF SInv, Typed, CallType
<1> QED BY <1>2, <1>6, <1>8, <1>9, <1>10, HandlerKeeps

LEMMA ByeOfKeeps ==
    ASSUME SInv, NEW m, NEW c, Taken(m, c), DoaKept(c), NEW s \in Sides, ByeOf(m, c, s)
    PROVE  SInv'
<1>1. CASE Has(c, BYE_SV[s])
  <2>1. c \in Calls
    BY TakenFacts
  <2>2. Has(c, STORED_MESSAGE[s])
    BY <1>1, <2>1 DEF SInv, OwnInv
  <2>3. role[c][STORED_MESSAGE[s]] \in lockedMessages[c]
    BY <2>2, RoleLocked
  <2> QED BY <1>1, <2>3, SendOnlyKeeps DEF ByeOf
<1>2. CASE ~Has(c, BYE_SV[s])
  <2>1. \/ Ignore(m)
        \/ /\ Take(m, ByeNews(m, s), ByeKept(m, s), ByeOps(m))
           /\ UNCHANGED <<closed, over>>
    BY <1>2 DEF ByeOf, ByeNews, ByeKept, ByeOps
  <2> QED BY <2>1, ByeTakenKeeps, IgnoreKeeps
<1> QED BY <1>1, <1>2

LEMMA AlarmOfKeeps ==
    ASSUME SInv, NEW m, NEW c, Taken(m, c), DoaKept(c),
           mess[m].kind \in {"TIMER_S", "TIMER_G", "TIMER_A"}, AlarmOf(m, c)
    PROVE  SInv'
<1>1. CASE Ignore(m)
  BY <1>1, IgnoreKeeps
<1>2. CASE Close(m, c, <<>>, <<>>)
  BY <1>2, CloseKeeps
<1>3. CASE SendNew(m, Made("200 to A", m, "A", 0))
  <2> DEFINE x == Made("200 to A", m, "A", 0)
  <2>1. x \in MessRecords /\ x.call = c /\ x.of = 0
    BY TwoHundredMade
  <2>2. SendNew(m, x)
    BY <1>3
  <2> HIDE DEF x
  <2>3. x.of <= Len(mess) + 1
    BY <2>1, TakenFacts
  <2> QED BY <2>1, <2>2, <2>3, SendNewKeeps
<1> DEFINE s == mess[m].side
           y == Made("BYE relayed", m, s, role[c][BYE_CL[s]])
<1>4. CASE Has(c, BYE_CL[s]) /\ SendNew(m, y)
  <2>1. "BYE relayed" \in Kinds /\ c \in Calls /\ mess[m].call = c /\ s \in Sides
    BY TakenFacts, SendCopy DEF Taken
  <2>2. role[c][BYE_CL[s]] \in Ids
    BY <1>4, <2>1 DEF Has, SInv, Typed, CallType
  <2>3. role[c][BYE_CL[s]] \in Nat /\ role[c][BYE_CL[s]] <= Len(mess) + 1
    BY <2>2, MessFacts DEF SInv, Typed, Ids
  <2>4. y \in MessRecords /\ y.call = c /\ y.of = role[c][BYE_CL[s]]
    BY <2>1, <2>3 DEF Made, MessRecords
  <2> HIDE DEF y
  <2> QED BY <1>4, <2>3, <2>4, SendNewKeeps
<1>5. CASE act_200ok_bye_to_alo(m, c)
  BY <1>5, ByeAnsweredKeeps
<1>6. CASE mess[m].kind = "TIMER_S"
  BY <1>1, <1>2, <1>6 DEF AlarmOf
<1>7. CASE mess[m].kind = "TIMER_G"
  BY <1>1, <1>2, <1>3, <1>7 DEF AlarmOf
<1>8. CASE mess[m].kind = "TIMER_A"
  BY <1>1, <1>4, <1>5, <1>8 DEF AlarmOf
<1> QED BY <1>6, <1>7, <1>8

LEMMA SlCoCallKeeps ==
    ASSUME SInv, NEW m, NEW c, Taken(m, c), DoaKept(c), mess[m].kind # "REGISTER",
           SlCoCall(m, c)
    PROVE  SInv'
<1>1. mess[m].kind \in ToCalls /\ mess[m].side \in Sides
  BY TakenFacts
<1>2. CASE mess[m].kind = "INVITE"
  BY <1>2, InviteAgainKeeps DEF SlCoCall
<1>3. CASE mess[m].kind = "180"
  BY <1>3, ProvisionalKeeps DEF SlCoCall
<1>4. CASE mess[m].kind = "200"
  BY <1>4, OkOfBKeeps DEF SlCoCall
<1>5. CASE mess[m].kind = "ACK"
  BY <1>5, AckOfAKeeps DEF SlCoCall
<1>6. CASE mess[m].kind = "BYE"
  BY <1>1, <1>6, ByeOfKeeps DEF SlCoCall
<1>7. CASE mess[m].kind = "200 to BYE"
  BY <1>7, ByeAnsweredKeeps DEF SlCoCall
<1>8. CASE mess[m].kind \in {"TIMER_S", "TIMER_G", "TIMER_A"}
  BY <1>8, AlarmOfKeeps DEF SlCoCall
<1> QED BY <1>1, <1>2, <1>3, <1>4, <1>5, <1>6, <1>7, <1>8 DEF ToCalls

LEMMA ParseSlccKeeps ==
    ASSUME SInv, ParseSlcc
    PROVE  SInv'
<1> DEFINE m == Head(queue["SL_CC"])
           c == mess[m].call
<1>1. Taken(m, c)
  BY DEF ParseSlcc, Taken
<1>2. c \in Calls
  BY <1>1, TakenFacts
<1>3. CASE mess[m].kind = "REGISTER" /\ Register(m, c)
  BY <1>1, <1>3, RegisterKeeps
<1>4. CASE mess[m].kind # "REGISTER" /\ NoCall(m, c)
  <2>1. object[c] = "none" /\ idle[c] = 0
    BY <1>2, <1>4 DEF NoCall, SInv, TimeInv
  <2>2. /\ idle' = idle
        /\ object' = object \/ object' = [object EXCEPT ![c] = "live"]
    BY <1>4 DEF NoCall, NewCall
  <2>3. DoaKept(c)
    <3>1. object' \in [Calls -> {"none", "live", "requested"}]
      BY <1>2, <2>2 DEF SInv, Typed, CallType
    <3>2. idle' \in [Calls -> 0 .. TIMER_DOA + 1]
      BY <2>2 DEF SInv, Typed, CallType
    <3>3. \A d \in Calls : object'[d] # "requested" => object[d] # "requested"
      BY <1>2, <2>1, <2>2 DEF SInv, Typed, CallType
    <3> QED BY <2>1, <2>2, <3>1, <3>2, <3>3 DEF DoaKept, SInv, TimeInv
  <2> HIDE DEF m, c
  <2> QED BY <1>1, <1>4, <2>3, NewCallKeeps, IgnoreKeeps DEF NoCall
<1>5. CASE mess[m].kind # "REGISTER" /\ use_CALL_OSET_SL_CO_call(m, c)
  <2>1. idle' = [idle EXCEPT ![c] = 0] /\ object' = object
    BY <1>5 DEF use_CALL_OSET_SL_CO_call
  <2>2. DoaKept(c)
    <3>1. TIMER_DOA + 1 \in Nat
      BY ServerAssumption
    <3>2. idle \in [Calls -> 0 .. TIMER_DOA + 1] /\ 0 \in 0 .. TIMER_DOA + 1
      BY <3>1 DEF SInv, Typed, CallType
    <3>3. /\ idle' \in [Calls -> 0 .. TIMER_DOA + 1] /\ idle'[c] = 0
          /\ \A d \in Calls : idle'[d] \in {0, idle[d]}
      <4> HIDE DEF c
      <4> QED BY <1>2, <2>1, <3>2
    <3>4. \A d \in Calls : object'[d] # "requested" => idle'[d] = 0
      <4>1. \A d \in Calls : object[d] # "requested" => idle[d] = 0
        BY DEF SInv, TimeInv
      <4> HIDE DEF c
      <4> QED BY <2>1, <3>3, <4>1
    <3>5. object' \in [Calls -> {"none", "live", "requested"}]
      BY <2>1 DEF SInv, Typed, CallType
    <3> HIDE DEF c
    <3> QED BY <3>3, <3>4, <3>5 DEF DoaKept
  <2> HIDE DEF m, c
  <2> QED BY <1>1, <1>5, <2>2, SlCoCallKeeps DEF use_CALL_OSET_SL_CO_call
<1> QED BY <1>3, <1>4, <1>5 DEF ParseSlcc

-----------------------------------------------------------------------------
(* The thread of SL_CC does the next thing.                                *)

LEMMA NextThing ==
    ASSUME SInv, todo # <<>>, todo' = Tail(todo), mess' = mess
    PROVE  /\ 1 \in DOMAIN todo /\ Head(todo) = todo[1]
           /\ Head(todo).on \in Ids /\ Head(todo).op \in Ops
           /\ mess[Head(todo).on].call \in Calls
           /\ \A i \in DOMAIN todo : mess[todo[i].on].call = mess[Head(todo).on].call
           /\ \A i \in DOMAIN todo' : \E j \in DOMAIN todo : j # 1 /\ todo'[i] = todo[j]
           /\ \A j \in DOMAIN todo : j = 1 \/ \E i \in DOMAIN todo' : todo'[i] = todo[j]
           /\ \A j \in DOMAIN todo : j # 1 => 1 < j
           /\ TodoType'
           /\ (\A x : IsLocked(x) => IsLocked(x)') => TodoInv'
<1>1. /\ todo \in Seq(TodoRecords) /\ Len(todo) \in Nat /\ DOMAIN todo = 1 .. Len(todo)
      /\ \A i \in DOMAIN todo : todo[i].op \in Ops /\ todo[i].on \in Ids
  BY TodoFacts DEF SInv, Typed, TodoType
<1>2. /\ Tail(todo) \in Seq(TodoRecords) /\ Len(todo) >= 1 /\ Head(todo) = todo[1]
      /\ 1 \in DOMAIN todo /\ DOMAIN Tail(todo) = 1 .. Len(todo) - 1
      /\ \A i \in 1 .. Len(todo) - 1 : Tail(todo)[i] = todo[i + 1]
  BY <1>1, TailAt
<1>3. /\ todo' \in Seq(TodoRecords) /\ DOMAIN todo' = 1 .. Len(todo) - 1
      /\ \A i \in 1 .. Len(todo) - 1 : todo'[i] = todo[i + 1]
  BY <1>2
<1>4. \A i \in DOMAIN todo' : i + 1 \in DOMAIN todo /\ i + 1 # 1 /\ todo'[i] = todo[i + 1]
  BY <1>1, <1>3
<1>5. \A j \in DOMAIN todo : j = 1 \/ (j - 1 \in DOMAIN todo' /\ todo'[j - 1] = todo[j])
  <2>1. \A j \in DOMAIN todo : j = 1 \/ (j - 1 \in 1 .. Len(todo) - 1 /\ (j - 1) + 1 = j)
    BY <1>1
  <2> QED BY <1>3, <2>1
<1>6. \A i, j \in DOMAIN todo :
         /\ mess[todo[i].on].call = mess[todo[j].on].call
         /\ i < j /\ todo[i].on = todo[j].on =>
               todo[i].op = "lock" \/ todo[j].op = "request" \/ IsLocked(todo[i].on)
  BY DEF SInv, TodoInv
<1>7. TodoType'
  <2>1. Ids' = Ids
    BY DEF Ids
  <2> QED BY <1>1, <1>3, <1>4, <2>1 DEF TodoType
<1>8. ASSUME \A x : IsLocked(x) => IsLocked(x)'
      PROVE  TodoInv'
  <2> SUFFICES ASSUME NEW i \in DOMAIN todo', NEW j \in DOMAIN todo'
               PROVE  /\ mess'[todo'[i].on].call = mess'[todo'[j].on].call
                      /\ i < j /\ todo'[i].on = todo'[j].on =>
                            \/ todo'[i].op = "lock" \/ todo'[j].op = "request"
                            \/ IsLocked(todo[i].on)'
    BY DEF TodoInv
  <2>1. /\ i + 1 \in DOMAIN todo /\ todo'[i] = todo[i + 1]
        /\ j + 1 \in DOMAIN todo /\ todo'[j] = todo[j + 1]
        /\ i < j => i + 1 < j + 1
    BY <1>3, <1>4
  <2>2. /\ mess[todo'[i].on].call = mess[todo'[j].on].call
        /\ i < j /\ todo'[i].on = todo'[j].on =>
              todo'[i].op = "lock" \/ todo'[j].op = "request" \/ IsLocked(todo'[i].on)
    BY <1>6, <2>1
  <2>3. \A x : x = todo'[i].on /\ IsLocked(x) => IsLocked(todo[i].on)'
    BY <1>8 DEF IsLocked
  <2> QED BY <2>2, <2>3
<1>9. /\ Head(todo).on \in Ids /\ Head(todo).op \in Ops
      /\ mess[Head(todo).on].call \in Calls
  BY <1>1, <1>2, MessFacts DEF SInv, Typed
<1>10. \A j \in DOMAIN todo : j # 1 => 1 < j
  BY <1>1
<1>11. (\A x : IsLocked(x) => IsLocked(x)') => TodoInv'
  BY <1>8
<1>12. \A i \in DOMAIN todo' : \E j \in DOMAIN todo : j # 1 /\ todo'[i] = todo[j]
  BY <1>4
<1>13. \A j \in DOMAIN todo : j = 1 \/ \E i \in DOMAIN todo' : todo'[i] = todo[j]
  BY <1>5
<1>14. \A i \in DOMAIN todo : mess[todo[i].on].call = mess[Head(todo).on].call
  BY <1>2, <1>6
<1> QED BY <1>2, <1>7, <1>9, <1>10, <1>11, <1>12, <1>13, <1>14

LEMMA HandsAfter ==
    ASSUME SInv, todo # <<>>, todo' = Tail(todo), mess' = mess
    PROVE  /\ \A x : InHands(x)' => InHands(x)
           /\ \A x : InHands(x) => InHands(x)' \/ x = Head(todo).on
           /\ Head(todo).op = "request" => \A x : InHands(x) => InHands(x)'
           /\ \A x \in Ids : Waits(x) => x # Head(todo).on
           /\ \A x \in Ids : Waits(x) => \A i \in DOMAIN todo' : todo'[i].on # x
           /\ Head(todo).op # "request" => InHands(Head(todo).on)
           /\ \/ Head(todo).op \in {"lock", "request"}
              \/ IsLocked(Head(todo).on)
              \/ \A x : x = Head(todo).on => ~InHands(x)'
<1>1. /\ 1 \in DOMAIN todo /\ Head(todo) = todo[1]
      /\ \A i \in DOMAIN todo' : \E j \in DOMAIN todo : j # 1 /\ todo'[i] = todo[j]
      /\ \A j \in DOMAIN todo : j = 1 \/ \E i \in DOMAIN todo' : todo'[i] = todo[j]
      /\ \A j \in DOMAIN todo : j # 1 => 1 < j
  BY NextThing
<1>2. \A x \in Ids : Waits(x) => \A i \in DOMAIN todo : todo[i].on # x
  BY DEF SInv, WaitInv
<1>3. /\ \A x : InHands(x)' => InHands(x)
      /\ \A x : InHands(x) => InHands(x)' \/ x = Head(todo).on
      /\ Head(todo).op = "request" => \A x : InHands(x) => InHands(x)'
      /\ Head(todo).op # "request" => InHands(Head(todo).on)
  <2>1. \A x : InHands(x)' => InHands(x)
    BY <1>1 DEF InHands
  <2>2. \A x : InHands(x) => InHands(x)' \/ x = Head(todo).on
    BY <1>1 DEF InHands
  <2>3. Head(todo).op = "request" => \A x : InHands(x) => InHands(x)'
    BY <1>1 DEF InHands
  <2>4. Head(todo).op # "request" => InHands(Head(todo).on)
    BY <1>1 DEF InHands
  <2> QED BY <2>1, <2>2, <2>3, <2>4
<1>4. /\ \A x \in Ids : Waits(x) => x # Head(todo).on
      /\ \A x \in Ids : Waits(x) => \A i \in DOMAIN todo' : todo'[i].on # x
  BY <1>1, <1>2
<1>5. ASSUME Head(todo).op \notin {"lock", "request"}, ~IsLocked(Head(todo).on),
             NEW x, x = Head(todo).on, InHands(x)'
      PROVE  FALSE
  <2>1. PICK j \in DOMAIN todo : j # 1 /\ todo[j].on = x /\ todo[j].op # "request"
    BY <1>1, <1>5 DEF InHands
  <2>2. 1 < j /\ todo[1].on = todo[j].on
    BY <1>1, <1>5, <2>1
  <2>3. todo[1].op = "lock" \/ todo[j].op = "request" \/ IsLocked(todo[1].on)
    BY <1>1, <2>2 DEF SInv, TodoInv
  <2> QED BY <1>1, <1>5, <2>1, <2>3
<1> QED BY <1>3, <1>4, <1>5

\* When SL_CC did what no send is, the times of the calls are right as before.
LEMMA TimeGoesOn ==
    ASSUME SInv, todo # <<>>, todo' = Tail(todo), Head(todo).op # "send",
           UNCHANGED <<mess, queue, hand, slow>>,
           \A d \in Calls : \A x : Keeps(d, x)' => Keeps(d, x),
           \A d \in Calls : /\ idle'[d] \in {0, idle[d]}
                            /\ object'[d] # "requested" => idle'[d] = 0
    PROVE  TimeInv'
<1>1. \A i \in DOMAIN todo' : \E j \in DOMAIN todo : j # 1 /\ todo'[i] = todo[j]
  BY NextThing
<1>2. Unsent' = Unsent /\ InHand' = InHand
  <2>1. Cardinality(Sends') = Cardinality(Sends)
    BY SendsTail DEF SInv, Typed
  <2> QED BY <2>1 DEF Unsent, InHand, Sends
<1>3. \A x : OnWay(x)' <=> OnWay(x)
  BY DEF OnWay
<1> SUFFICES ASSUME NEW d \in Calls, idle'[d] # 0
             PROVE  /\ idle'[d] >= 1 =>
                          /\ Keeps(d, hand)' => slow >= 1
                          /\ \A i \in DOMAIN queue["TRNSPRT"] :
                                Keeps(d, queue["TRNSPRT"][i])' => slow >= InHand + i
                          /\ \A i \in DOMAIN todo' :
                                todo'[i].op = "send" /\ Keeps(d, todo[i].on)' => slow >= Unsent
                    /\ idle'[d] >= 2 =>
                          /\ \A x \in Ids : OnWay(x) => ~Keeps(d, x)'
                          /\ \A i \in DOMAIN todo' :
                                todo'[i].op = "send" => ~Keeps(d, todo[i].on)'
  BY <1>2, <1>3 DEF TimeInv, Ids
<1>4. idle'[d] = idle[d]
  OBVIOUS
<1>5. Keeps(d, hand)' => Keeps(d, hand)
  <2>1. \A x : x = hand => (Keeps(d, hand)' => Keeps(d, x)')
    BY DEF Keeps
  <2> QED BY <2>1
<1>6. \A i : Keeps(d, queue["TRNSPRT"][i])' => Keeps(d, queue["TRNSPRT"][i])
  <2>1. \A i : \A x : x = queue["TRNSPRT"][i] => (Keeps(d, queue["TRNSPRT"][i])' => Keeps(d, x)')
    BY DEF Keeps
  <2> QED BY <2>1
<1>7. \A i : Keeps(d, todo[i].on)' => Keeps(d, todo'[i].on)
  <2>1. \A i : \A x : x = todo'[i].on => (Keeps(d, todo[i].on)' => Keeps(d, x)')
    BY DEF Keeps
  <2> QED BY <2>1
<1>8. /\ idle[d] >= 1 =>
            /\ Keeps(d, hand) => slow >= 1
            /\ \A i \in DOMAIN queue["TRNSPRT"] :
                  Keeps(d, queue["TRNSPRT"][i]) => slow >= InHand + i
            /\ \A i \in DOMAIN todo :
                  todo[i].op = "send" /\ Keeps(d, todo[i].on) => slow >= Unsent
      /\ idle[d] >= 2 =>
            /\ \A x \in Ids : OnWay(x) => ~Keeps(d, x)
            /\ \A i \in DOMAIN todo : todo[i].op = "send" => ~Keeps(d, todo[i].on)
  BY DEF SInv, TimeInv
<1> QED BY <1>1, <1>4, <1>5, <1>6, <1>7, <1>8

LEMMA LockKeeps ==
    ASSUME SInv, todo # <<>>, todo' = Tail(todo), Head(todo).op = "lock",
           NEW m, NEW c, m = Head(todo).on, c = mess[m].call,
           lockedMessages' = [lockedMessages EXCEPT ![c] = @ \cup {m}],
           UNCHANGED <<mess, queue, hand, slow, object, idle, role, closed, over, purged,
                       incoming>>
    PROVE  SInv'
<1>1. /\ m \in Ids /\ c \in Calls /\ m = todo[1].on /\ Ids' = Ids /\ TodoType'
      /\ (\A x : IsLocked(x) => IsLocked(x)') => TodoInv'
  BY NextThing DEF Ids
<1>2. /\ \A d \in Calls \ {c} : lockedMessages'[d] = lockedMessages[d]
      /\ lockedMessages'[c] = lockedMessages[c] \cup {m}
      /\ lockedMessages' \in [Calls -> SUBSET Ids]
  BY <1>1 DEF SInv, Typed, SetsType
<1>3. /\ \A x : IsLocked(x)' <=> IsLocked(x) \/ x = m
      /\ \A x : Waits(x)' <=> Waits(x)
      /\ \A x : OnWay(x)' <=> OnWay(x)
  BY <1>1, <1>2 DEF IsLocked, Waits, OnWay
<1>4. /\ \A x : InHands(x)' => InHands(x)
      /\ \A x : InHands(x) => InHands(x)' \/ x = m
      /\ \A x \in Ids : Waits(x) => x # m
      /\ \A x \in Ids : Waits(x) => \A i \in DOMAIN todo' : todo'[i].on # x
      /\ InHands(m)
  BY HandsAfter
<1>5. \A d \in Calls : \A x : Keeps(d, x)' <=> Keeps(d, x)
  <2>1. /\ 1 \in DOMAIN todo /\ todo[1].op = "lock"
        /\ \A i \in DOMAIN todo' : \E j \in DOMAIN todo : j # 1 /\ todo'[i] = todo[j]
        /\ \A j \in DOMAIN todo : j = 1 \/ \E i \in DOMAIN todo' : todo'[i] = todo[j]
    BY NextThing
  <2>2. ASSUME NEW d \in Calls, NEW x, Keeps(d, x)
        PROVE  Keeps(d, x)'
    <3>1. CASE x \in lockedMessages[d]
      BY <1>2, <3>1 DEF Keeps
    <3>2. CASE \E i \in DOMAIN todo : todo[i].op = "lock" /\ todo[i].on = x /\ mess[x].call = d
      <4>1. PICK i \in DOMAIN todo : todo[i].op = "lock" /\ todo[i].on = x /\ mess[x].call = d
        BY <3>2
      <4>2. CASE i = 1
        BY <1>1, <1>2, <4>1, <4>2 DEF Keeps
      <4>3. CASE i # 1
        BY <2>1, <4>1, <4>3 DEF Keeps
      <4> QED BY <4>2, <4>3
    <3> QED BY <2>2, <3>1, <3>2 DEF Keeps
  <2>3. ASSUME NEW d \in Calls, NEW x, Keeps(d, x)'
        PROVE  Keeps(d, x)
    <3>1. CASE x \in lockedMessages'[d]
      <4>1. x \in lockedMessages[d] \/ (d = c /\ x = m)
        BY <1>2, <3>1
      <4> QED BY <1>1, <2>1, <4>1 DEF Keeps
    <3>2. CASE \E i \in DOMAIN todo' :
                  todo'[i].op = "lock" /\ todo'[i].on = x /\ mess'[x].call = d
      BY <2>1, <3>2 DEF Keeps
    <3> QED BY <2>3, <3>1, <3>2 DEF Keeps
  <2> QED BY <2>2, <2>3
<1>6. Typed'
  BY <1>1, <1>2 DEF SInv, Typed, MessType, QueueType, SetsType, CallType
<1>7. KindsInv'
  BY DEF SInv, KindsInv
<1>8. LifeInv'
  <2>1. m \notin purged
    BY <1>1, <1>4 DEF SInv, LifeInv
  <2> QED BY <1>1, <1>3, <1>4, <2>1 DEF SInv, LifeInv
<1>9. WaitInv'
  BY <1>1, <1>3, <1>4 DEF SInv, WaitInv
<1>10. ShareInv'
  <2>1. \A x : IsLocked(x) => IsLocked(x)'
    BY <1>3
  <2>2. \A x \in Ids' : OnWay(x)' /\ InHands(x)' => IsLocked(x)'
    BY <1>1, <1>3, <1>4 DEF SInv, ShareInv
  <2>3. \A i, j \in DOMAIN queue["TRNSPRT"] :
           i < j /\ queue["TRNSPRT"][i] = queue["TRNSPRT"][j] =>
              IsLocked(queue["TRNSPRT"][i])'
    <3>1. \A i : \A x : x = queue["TRNSPRT"][i] /\ IsLocked(x) => IsLocked(queue["TRNSPRT"][i])'
      BY <2>1 DEF IsLocked
    <3> QED BY <3>1 DEF SInv, ShareInv
  <2>4. \A i \in DOMAIN queue["TRNSPRT"] : queue["TRNSPRT"][i] = hand => IsLocked(hand)'
    <3>1. \A x : x = hand /\ IsLocked(x) => IsLocked(hand)'
      BY <2>1 DEF IsLocked
    <3> QED BY <3>1 DEF SInv, ShareInv
  <2> QED BY <2>2, <2>3, <2>4 DEF ShareInv
<1>11. TodoInv'
  BY <1>1, <1>3
<1>12. OwnInv'
  <2>1. \A d \in Calls : \A x \in lockedMessages'[d] : mess[x].call = d
    BY <1>1, <1>2 DEF SInv, OwnInv
  <2>2. ASSUME NEW d \in Calls, NEW r \in DOMAIN role[d]
        PROVE  Keeps(d, role[d][r])'
    <3>1. \A x : x = role[d][r] /\ Keeps(d, x) => Keeps(d, role[d][r])'
      BY <1>5 DEF Keeps
    <3> QED BY <3>1 DEF SInv, OwnInv
  <2> QED BY <2>1, <2>2 DEF SInv, OwnInv, Has
<1>13. TimeInv'
  <2>1. \A d \in Calls : idle'[d] \in {0, idle[d]} /\ (object'[d] # "requested" => idle'[d] = 0)
    BY DEF SInv, TimeInv
  <2> QED BY <1>5, <2>1, TimeGoesOn
<1> QED BY <1>6, <1>7, <1>8, <1>9, <1>10, <1>11, <1>12, <1>13 DEF SInv

\* What SL_CC does, other than to lock and to send, moves no message.
LEMMA NoMessageMoves ==
    ASSUME SInv, todo # <<>>, todo' = Tail(todo), Head(todo).op \in {"end", "request"},
           UNCHANGED <<mess, queue, hand, role, lockedMessages>>
    PROVE  /\ \A x : Waits(x)' <=> Waits(x)
           /\ \A x : OnWay(x)' <=> OnWay(x)
           /\ \A x : IsLocked(x)' <=> IsLocked(x)
           /\ \A d, x : Keeps(d, x)' <=> Keeps(d, x)
           /\ KindsInv' /\ WaitInv' /\ ShareInv' /\ TodoInv' /\ OwnInv'
<1>1. /\ \A x : Waits(x)' <=> Waits(x)
      /\ \A x : OnWay(x)' <=> OnWay(x)
      /\ \A x : IsLocked(x)' <=> IsLocked(x)
      /\ Ids' = Ids
  BY DEF Waits, OnWay, IsLocked, Ids
<1>2. /\ 1 \in DOMAIN todo /\ todo[1].op # "lock"
      /\ \A i \in DOMAIN todo' : \E j \in DOMAIN todo : j # 1 /\ todo'[i] = todo[j]
      /\ \A j \in DOMAIN todo : j = 1 \/ \E i \in DOMAIN todo' : todo'[i] = todo[j]
      /\ (\A x : IsLocked(x) => IsLocked(x)') => TodoInv'
  BY NextThing
<1>3. \A d, x : Keeps(d, x)' <=> Keeps(d, x)
  BY <1>2 DEF Keeps
<1>4. KindsInv'
  BY DEF SInv, KindsInv
<1>5. WaitInv'
  BY <1>1, HandsAfter DEF SInv, WaitInv
<1>6. ShareInv'
  <2>1. \A x \in Ids' : OnWay(x)' /\ InHands(x)' => IsLocked(x)'
    BY <1>1, HandsAfter DEF SInv, ShareInv
  <2>2. /\ \A i, j \in DOMAIN queue["TRNSPRT"] :
              i < j /\ queue["TRNSPRT"][i] = queue["TRNSPRT"][j] =>
                 IsLocked(queue["TRNSPRT"][i])'
        /\ \A i \in DOMAIN queue["TRNSPRT"] : queue["TRNSPRT"][i] = hand => IsLocked(hand)'
    BY DEF SInv, ShareInv, IsLocked
  <2> QED BY <2>1, <2>2 DEF ShareInv
<1>7. TodoInv'
  BY <1>1, <1>2
<1>8. OwnInv'
  <2>1. ASSUME NEW d \in Calls, NEW r \in DOMAIN role[d]
        PROVE  Keeps(d, role[d][r])'
    <3>1. \A x : x = role[d][r] /\ Keeps(d, x) => Keeps(d, role[d][r])'
      BY <1>3 DEF Keeps
    <3> QED BY <3>1 DEF SInv, OwnInv
  <2> QED BY <2>1 DEF SInv, OwnInv, Has
<1> QED BY <1>1, <1>3, <1>4, <1>5, <1>6, <1>7, <1>8

LEMMA EndKeeps ==
    ASSUME SInv, todo # <<>>, todo' = Tail(todo), Head(todo).op = "end",
           Purge(Head(todo).on),
           UNCHANGED <<mess, queue, hand, slow, object, idle, role, closed, over,
                       lockedMessages, incoming>>
    PROVE  SInv'
<1> DEFINE m == Head(todo).on
<1>1. /\ m \in Ids /\ Ids' = Ids /\ TodoType' /\ purged' \subseteq purged \cup {m}
      /\ purged \subseteq purged' /\ (m \in purged' \/ IsLocked(m))
      /\ m \in purged' => m \in purged \/ ~IsLocked(m)
  BY NextThing DEF Ids, Purge
<1>2. /\ \A x : InHands(x)' => InHands(x)
      /\ \A x : InHands(x) => InHands(x)' \/ x = m
      /\ InHands(m) /\ (Waits(m) => FALSE)
      /\ IsLocked(m) \/ \A x : x = m => ~InHands(x)'
  BY <1>1, HandsAfter
<1>3. /\ \A x : Waits(x)' <=> Waits(x)
      /\ \A x : OnWay(x)' <=> OnWay(x)
      /\ \A x : IsLocked(x)' <=> IsLocked(x)
      /\ \A d, x : Keeps(d, x)' <=> Keeps(d, x)
      /\ KindsInv' /\ WaitInv' /\ ShareInv' /\ TodoInv' /\ OwnInv'
  BY NoMessageMoves
<1> HIDE DEF m
<1>4. Typed'
  BY <1>1 DEF SInv, Typed, MessType, QueueType, SetsType, CallType
<1>5. LifeInv'
  <2>1. m \notin purged
    BY <1>1, <1>2 DEF SInv, LifeInv
  <2>2. OnWay(m) => IsLocked(m)
    BY <1>1, <1>2 DEF SInv, ShareInv
  <2>3. ASSUME NEW x \in Ids
        PROVE  /\ x \in purged' => ~Waits(x)' /\ ~OnWay(x)' /\ ~InHands(x)' /\ ~IsLocked(x)'
               /\ \/ x \in purged' \/ Waits(x)' \/ OnWay(x)' \/ InHands(x)' \/ IsLocked(x)'
                  \/ mess[x].kind = "REGISTER"
    <3>1. CASE x = m
      BY <1>1, <1>2, <1>3, <2>1, <2>2, <3>1
    <3>2. CASE x # m
      <4>1. /\ x \in purged => ~Waits(x) /\ ~OnWay(x) /\ ~InHands(x) /\ ~IsLocked(x)
            /\ \/ x \in purged \/ Waits(x) \/ OnWay(x) \/ InHands(x) \/ IsLocked(x)
               \/ mess[x].kind = "REGISTER"
        BY DEF SInv, LifeInv
      <4> QED BY <1>1, <1>2, <1>3, <3>2, <4>1
    <3> QED BY <3>1, <3>2
  <2> QED BY <1>1, <2>3 DEF LifeInv
<1>6. TimeInv'
  <2>1. \A d \in Calls : idle'[d] \in {0, idle[d]} /\ (object'[d] # "requested" => idle'[d] = 0)
    BY DEF SInv, TimeInv
  <2> QED BY <1>3, <2>1, TimeGoesOn
<1> QED BY <1>3, <1>4, <1>5, <1>6 DEF SInv

LEMMA RequestKeeps ==
    ASSUME SInv, todo # <<>>, todo' = Tail(todo), Head(todo).op = "request",
           NEW c \in Calls, setDoaRequested(c),
           UNCHANGED <<mess, queue, hand, slow, role, closed, over, purged,
                       lockedMessages, incoming>>
    PROVE  SInv'
<1>1. TodoType' /\ Ids' = Ids
  BY NextThing DEF Ids
<1>2. \A x : InHands(x)' <=> InHands(x)
  BY HandsAfter
<1>3. /\ \A x : Waits(x)' <=> Waits(x)
      /\ \A x : OnWay(x)' <=> OnWay(x)
      /\ \A x : IsLocked(x)' <=> IsLocked(x)
      /\ \A d, x : Keeps(d, x)' <=> Keeps(d, x)
      /\ KindsInv' /\ WaitInv' /\ ShareInv' /\ TodoInv' /\ OwnInv'
  BY NoMessageMoves
<1>4. /\ object' \in [Calls -> {"none", "live", "requested"}]
      /\ idle' \in [Calls -> 0 .. TIMER_DOA + 1]
      /\ idle'[c] = 0 /\ object'[c] = "requested"
      /\ \A d \in Calls \ {c} : idle'[d] = idle[d] /\ object'[d] = object[d]
  <2>1. 0 \in 0 .. TIMER_DOA + 1
    BY ServerAssumption
  <2> QED BY <2>1 DEF setDoaRequested, SInv, Typed, CallType
<1>5. Typed'
  BY <1>1, <1>4 DEF SInv, Typed, MessType, QueueType, SetsType, CallType
<1>6. LifeInv'
  BY <1>1, <1>2, <1>3 DEF SInv, LifeInv
<1>7. TimeInv'
  <2>1. \A d \in Calls : idle'[d] \in {0, idle[d]} /\ (object'[d] # "requested" => idle'[d] = 0)
    BY <1>4 DEF SInv, TimeInv
  <2> QED BY <1>3, <2>1, TimeGoesOn
<1> QED BY <1>3, <1>5, <1>6, <1>7 DEF SInv

\* A message that goes into the queue of TRNSPRT a second time is locked, and so
\* is one that SL_CC goes on to use.
LEMMA SendKeeps ==
    ASSUME SInv, todo # <<>>, todo' = Tail(todo), Head(todo).op = "send",
           NEW m, m = Head(todo).on, queue' = Put(m, "TRNSPRT"),
           UNCHANGED <<mess, hand, slow, object, idle, role, closed, over, purged,
                       lockedMessages, incoming>>
    PROVE  SInv'
<1> DEFINE q == queue["TRNSPRT"]
           e == Len(q) + 1
<1>1. /\ m \in Ids /\ m \in Nat /\ m # 0 /\ Ids' = Ids /\ TodoType'
      /\ (\A x : IsLocked(x) => IsLocked(x)') => TodoInv'
      /\ 1 \in DOMAIN todo /\ todo[1].op = "send" /\ todo[1].on = m
      /\ \A i \in DOMAIN todo' : \E j \in DOMAIN todo : j # 1 /\ todo'[i] = todo[j]
      /\ \A j \in DOMAIN todo : j = 1 \/ \E i \in DOMAIN todo' : todo'[i] = todo[j]
  BY NextThing, MessFacts DEF Ids, SInv, Typed
<1>2. /\ queue \in [Stages -> Seq(Nat)] /\ q \in Seq(Nat)
      /\ Len(q) \in Nat /\ DOMAIN q = 1 .. Len(q)
  BY QueueFacts, StageNames DEF SInv, Typed, QueueType
<1>3. /\ queue' \in [Stages -> Seq(Nat)]
      /\ \A t \in Arrivals : queue'[t] = queue[t]
      /\ queue'["TRNSPRT"] = Append(q, m)
  <2>1. Append(q, m) \in Seq(Nat)
    BY <1>1, <1>2, AppendAt
  <2>2. queue' = [queue EXCEPT !["TRNSPRT"] = Append(q, m)]
    BY DEF Put
  <2> HIDE DEF q, e
  <2>3. queue' \in [Stages -> Seq(Nat)]
    BY <1>2, <2>1, <2>2
  <2>4. queue'["TRNSPRT"] = Append(q, m)
    BY <1>2, <2>2, StageNames
  <2>5. \A t \in Arrivals : queue'[t] = queue[t]
    BY <1>2, <2>2, StageNames
  <2> QED BY <2>3, <2>4, <2>5
<1>4. /\ DOMAIN queue'["TRNSPRT"] = DOMAIN q \cup {e} /\ e \notin DOMAIN q
      /\ \A i \in DOMAIN q : queue'["TRNSPRT"][i] = q[i] /\ i < e
      /\ queue'["TRNSPRT"][e] = m
  <2>1. /\ DOMAIN Append(q, m) = 1 .. Len(q) + 1
        /\ \A i \in 1 .. Len(q) : Append(q, m)[i] = q[i]
        /\ Append(q, m)[Len(q) + 1] = m
    BY <1>1, <1>2, AppendAt
  <2> HIDE DEF q
  <2>2. DOMAIN queue'["TRNSPRT"] = DOMAIN q \cup {e} /\ e \notin DOMAIN q
    BY <1>2, <1>3, <2>1
  <2>3. \A i \in DOMAIN q : queue'["TRNSPRT"][i] = q[i] /\ i < e
    BY <1>2, <1>3, <2>1
  <2> QED BY <1>3, <2>1, <2>2, <2>3
<1>5. /\ \A x : Waits(x)' <=> Waits(x)
      /\ \A x : OnWay(x)' <=> OnWay(x) \/ x = m
      /\ \A x : IsLocked(x)' <=> IsLocked(x)
      /\ \A d, x : Keeps(d, x)' <=> Keeps(d, x)
  <2>1. \A x : Waits(x)' <=> Waits(x)
    BY <1>3 DEF Waits
  <2>2. \A x : OnWay(x)' <=> OnWay(x) \/ x = m
    <3> HIDE DEF e
    <3> QED BY <1>4 DEF OnWay
  <2>3. \A x : IsLocked(x)' <=> IsLocked(x)
    BY DEF IsLocked
  <2>4. \A d, x : Keeps(d, x)' <=> Keeps(d, x)
    BY <1>1 DEF Keeps
  <2> QED BY <2>1, <2>2, <2>3, <2>4
<1>6. /\ \A x : InHands(x)' => InHands(x)
      /\ \A x : InHands(x) => InHands(x)' \/ x = m
      /\ \A x \in Ids : Waits(x) => x # m
      /\ \A x \in Ids : Waits(x) => \A i \in DOMAIN todo' : todo'[i].on # x
      /\ InHands(m)
      /\ IsLocked(m) \/ \A x : x = m => ~InHands(x)'
  BY HandsAfter
<1>7. Typed'
  <2>1. \A t \in Stages : \A i \in DOMAIN queue'[t] : queue'[t][i] \in Ids
    <3>1. \A t \in Arrivals : \A i \in DOMAIN queue'[t] : queue'[t][i] \in Ids
      BY <1>3, StageNames DEF SInv, Typed, QueueType
    <3>2. \A i \in DOMAIN q : q[i] \in Ids
      BY StageNames DEF SInv, Typed, QueueType
    <3>3. \A i \in DOMAIN queue'["TRNSPRT"] : queue'["TRNSPRT"][i] \in Ids
      <4> HIDE DEF q, e
      <4> QED BY <1>1, <1>4, <3>2
    <3> QED BY <3>1, <3>3, StageNames
  <2> QED BY <1>1, <1>3, <2>1 DEF SInv, Typed, MessType, QueueType, SetsType, CallType
<1>8. KindsInv'
  BY <1>3, StageNames DEF SInv, KindsInv
<1>9. LifeInv'
  <2>1. m \notin purged
    BY <1>1, <1>6 DEF SInv, LifeInv
  <2> QED BY <1>1, <1>5, <1>6, <2>1 DEF SInv, LifeInv
<1>10. WaitInv'
  <2>1. \A t1, t2 \in Arrivals : \A i \in DOMAIN queue'[t1], j \in DOMAIN queue'[t2] :
           queue'[t1][i] = queue'[t2][j] => t1 = t2 /\ i = j
    <3> SUFFICES ASSUME NEW t1 \in Arrivals, NEW t2 \in Arrivals,
                        NEW i \in DOMAIN queue'[t1], NEW j \in DOMAIN queue'[t2],
                        queue'[t1][i] = queue'[t2][j]
                 PROVE  t1 = t2 /\ i = j
      OBVIOUS
    <3>1. queue'[t1] = queue[t1] /\ queue'[t2] = queue[t2]
      BY <1>3
    <3>2. i \in DOMAIN queue[t1] /\ j \in DOMAIN queue[t2] /\ queue[t1][i] = queue[t2][j]
      BY <3>1
    <3> HIDE DEF q, e
    <3> QED BY <3>2 DEF SInv, WaitInv
  <2>2. \A x \in Ids : Waits(x)' =>
           ~OnWay(x)' /\ ~IsLocked(x)' /\ \A i \in DOMAIN todo' : todo'[i].on # x
    BY <1>5, <1>6 DEF SInv, WaitInv
  <2> QED BY <1>1, <2>1, <2>2 DEF WaitInv
<1>11. ShareInv'
  <2>1. OnWay(m) => IsLocked(m)
    BY <1>1, <1>6 DEF SInv, ShareInv
  <2>2. \A x \in Ids' : OnWay(x)' /\ InHands(x)' => IsLocked(x)'
    BY <1>1, <1>5, <1>6 DEF SInv, ShareInv
  <2>3. ASSUME NEW i \in DOMAIN queue'["TRNSPRT"], NEW j \in DOMAIN queue'["TRNSPRT"],
               i < j, queue'["TRNSPRT"][i] = queue'["TRNSPRT"][j]
        PROVE  IsLocked(queue'["TRNSPRT"][i])
    <3>1. i \in DOMAIN q
      BY <1>2, <1>4, <2>3
    <3>2. CASE j \in DOMAIN q
      <4> HIDE DEF q
      <4>1. q[i] = q[j] /\ queue'["TRNSPRT"][i] = q[i]
        BY <1>4, <2>3, <3>1, <3>2
      <4> QED BY <2>3, <3>1, <3>2, <4>1 DEF SInv, ShareInv, q
    <3>3. CASE j = e
      <4>1. q[i] = m /\ queue'["TRNSPRT"][i] = m
        BY <1>4, <2>3, <3>1, <3>3
      <4>2. OnWay(m)
        BY <3>1, <4>1 DEF OnWay
      <4> QED BY <2>1, <4>1, <4>2
    <3> QED BY <1>4, <2>3, <3>2, <3>3
  <2>4. ASSUME NEW i \in DOMAIN queue'["TRNSPRT"], queue'["TRNSPRT"][i] = hand
        PROVE  IsLocked(hand)
    <3>1. CASE i \in DOMAIN q
      BY <1>4, <2>4, <3>1 DEF SInv, ShareInv
    <3>2. CASE i = e
      BY <1>4, <2>1, <2>4, <3>2 DEF OnWay
    <3> QED BY <1>4, <2>4, <3>1, <3>2
  <2>5. /\ \A i, j \in DOMAIN queue'["TRNSPRT"] :
              i < j /\ queue'["TRNSPRT"][i] = queue'["TRNSPRT"][j] =>
                 IsLocked(queue["TRNSPRT"][i])'
        /\ \A i \in DOMAIN queue'["TRNSPRT"] :
              queue'["TRNSPRT"][i] = hand' => IsLocked(hand)'
    BY <2>3, <2>4 DEF IsLocked
  <2> QED BY <2>2, <2>5 DEF ShareInv
<1>12. TodoInv'
  BY <1>1, <1>5
<1>13. OwnInv'
  <2>1. ASSUME NEW d \in Calls, NEW r \in DOMAIN role[d]
        PROVE  Keeps(d, role[d][r])'
    <3>1. \A x : x = role[d][r] /\ Keeps(d, x) => Keeps(d, role[d][r])'
      BY <1>5 DEF Keeps
    <3> QED BY <3>1 DEF SInv, OwnInv
  <2> QED BY <2>1 DEF SInv, OwnInv, Has
<1>14. TimeInv'
  <2>1. /\ Unsent = InHand + Len(q) + Cardinality(Sends)
        /\ Cardinality(Sends) \in Nat /\ InHand \in {0, 1} /\ Unsent \in Nat
        /\ Cardinality(Sends) >= 1
    BY <1>1, UnsentIs DEF SInv, Typed
  <2>2. Unsent' = Unsent /\ InHand' = InHand /\ InHand + e <= Unsent
    <3>1. Cardinality(Sends') = Cardinality(Sends) - 1
      BY SendsTail DEF SInv, Typed
    <3>2. Len(queue'["TRNSPRT"]) = Len(q) + 1
      BY <1>1, <1>2, <1>3, AppendAt
    <3>3. InHand' = InHand
      BY DEF InHand
    <3>4. Unsent' = InHand' + Len(queue'["TRNSPRT"]) + Cardinality(Sends')
      BY DEF Unsent, InHand, Sends
    <3> HIDE DEF q
    <3> QED BY <1>2, <2>1, <3>1, <3>2, <3>3, <3>4
  <2> SUFFICES ASSUME NEW d \in Calls
               PROVE  /\ object'[d] # "requested" => idle'[d] = 0
                      /\ idle[d] >= 1 =>
                            /\ Keeps(d, hand)' => slow >= 1
                            /\ \A i \in DOMAIN queue'["TRNSPRT"] :
                                  Keeps(d, queue["TRNSPRT"][i])' => slow >= InHand + i
                            /\ \A i \in DOMAIN todo' :
                                  todo'[i].op = "send" /\ Keeps(d, todo[i].on)' =>
                                     slow >= Unsent
                      /\ idle[d] >= 2 =>
                            /\ \A x \in Ids : OnWay(x)' => ~Keeps(d, x)'
                            /\ \A i \in DOMAIN todo' :
                                  todo'[i].op = "send" => ~Keeps(d, todo[i].on)'
    BY <1>1, <2>2 DEF TimeInv
  <2>3. /\ object[d] # "requested" => idle[d] = 0
        /\ idle[d] >= 1 =>
              /\ Keeps(d, hand) => slow >= 1
              /\ \A i \in DOMAIN q : Keeps(d, q[i]) => slow >= InHand + i
              /\ \A i \in DOMAIN todo :
                    todo[i].op = "send" /\ Keeps(d, todo[i].on) => slow >= Unsent
        /\ idle[d] >= 2 =>
              /\ \A x \in Ids : OnWay(x) => ~Keeps(d, x)
              /\ \A i \in DOMAIN todo : todo[i].op = "send" => ~Keeps(d, todo[i].on)
    BY DEF SInv, TimeInv
  <2>4. Keeps(d, hand)' => Keeps(d, hand)
    <3>1. \A x : x = hand => (Keeps(d, hand)' => Keeps(d, x)')
      BY DEF Keeps
    <3> QED BY <1>5, <3>1
  <2>5. \A i : Keeps(d, queue["TRNSPRT"][i])' => Keeps(d, queue'["TRNSPRT"][i])
    <3>1. \A i : \A x : x = queue'["TRNSPRT"][i] =>
                           (Keeps(d, queue["TRNSPRT"][i])' => Keeps(d, x)')
      BY DEF Keeps
    <3> QED BY <1>5, <3>1
  <2>6. \A i : Keeps(d, todo[i].on)' => Keeps(d, todo'[i].on)
    <3>1. \A i : \A x : x = todo'[i].on => (Keeps(d, todo[i].on)' => Keeps(d, x)')
      BY DEF Keeps
    <3> QED BY <1>5, <3>1
  <2>7. \A i \in DOMAIN queue'["TRNSPRT"] :
           idle[d] >= 1 /\ Keeps(d, queue'["TRNSPRT"][i]) => slow >= InHand + i
    <3>1. idle[d] >= 1 /\ Keeps(d, m) => slow >= Unsent
      BY <1>1, <2>3
    <3>2. slow \in Nat
      BY DEF SInv, Typed, SetsType
    <3>3. idle[d] >= 1 /\ Keeps(d, m) => slow >= InHand + e
      BY <1>2, <2>1, <2>2, <3>1, <3>2
    <3> HIDE DEF q, e
    <3> QED BY <1>4, <2>3, <3>3
  <2>8. \A i \in DOMAIN todo' : idle[d] >= 1 /\ todo'[i].op = "send" /\ Keeps(d, todo'[i].on) =>
                                   slow >= Unsent
    BY <1>1, <2>3
  <2>9. idle[d] >= 2 => /\ \A x \in Ids : OnWay(x)' => ~Keeps(d, x)'
                        /\ \A i \in DOMAIN todo' :
                              todo'[i].op = "send" => ~Keeps(d, todo'[i].on)
    BY <1>1, <1>5, <2>3
  <2> HIDE DEF q, e
  <2> QED BY <2>3, <2>4, <2>5, <2>6, <2>7, <2>8, <2>9
<1> QED BY <1>7, <1>8, <1>9, <1>10, <1>11, <1>12, <1>13, <1>14 DEF SInv

LEMMA WorkKeeps ==
    ASSUME SInv, Work
    PROVE  SInv'
<1> DEFINE m == Head(todo).on
           c == mess[m].call
<1>1. /\ todo # <<>> /\ todo' = Tail(todo)
      /\ UNCHANGED <<mess, hand, slow, role, closed, over, incoming>>
  BY DEF Work, transport
<1>2. Head(todo).op \in Ops /\ c \in Calls
  BY <1>1, NextThing
<1>3. CASE Head(todo).op = "lock"
  BY <1>1, <1>3, LockKeeps DEF Work
<1>4. CASE Head(todo).op = "send"
  BY <1>1, <1>4, SendKeeps DEF Work
<1>5. CASE Head(todo).op = "end"
  BY <1>1, <1>5, EndKeeps DEF Work
<1>6. CASE Head(todo).op = "request"
  BY <1>1, <1>2, <1>6, RequestKeeps DEF Work
<1> QED BY <1>2, <1>3, <1>4, <1>5, <1>6 DEF Ops

-----------------------------------------------------------------------------
(* TRNSPRT and SUDP.                                                       *)

LEMMA ParseTransportKeeps ==
    ASSUME SInv, ParseTransport
    PROVE  SInv'
<1> DEFINE q == queue["TRNSPRT"]
<1>1. /\ hand = 0 /\ q # <<>> /\ hand' = Head(q)
      /\ queue' = [queue EXCEPT !["TRNSPRT"] = Tail(@)]
      /\ UNCHANGED <<mess, slow, todo, object, idle, role, closed, over, lockedMessages,
                     purged, incoming>>
      /\ Ids' = Ids
  BY DEF ParseTransport, calls, Ids
<1>2. /\ queue \in [Stages -> Seq(Nat)] /\ q \in Seq(Nat)
      /\ Len(q) \in Nat /\ DOMAIN q = 1 .. Len(q) /\ \A i \in DOMAIN q : q[i] \in Ids
      /\ 0 \notin Ids
  BY QueueFacts, MessFacts, StageNames DEF SInv, Typed, QueueType
<1> HIDE DEF q
<1>3. /\ Tail(q) \in Seq(Nat) /\ Head(q) = q[1] /\ 1 \in DOMAIN q /\ Len(q) >= 1
      /\ Len(Tail(q)) = Len(q) - 1 /\ DOMAIN Tail(q) = 1 .. Len(q) - 1
      /\ \A i \in 1 .. Len(q) - 1 : Tail(q)[i] = q[i + 1]
  BY <1>1, <1>2, TailAt
<1>4. /\ queue' \in [Stages -> Seq(Nat)] /\ queue'["TRNSPRT"] = Tail(q)
      /\ \A t \in Arrivals : queue'[t] = queue[t]
  BY <1>1, <1>2, <1>3, StageNames DEF q
<1>5. /\ Len(queue'["TRNSPRT"]) = Len(q) - 1
      /\ \A i \in DOMAIN queue'["TRNSPRT"] :
            i \in Nat /\ i + 1 \in DOMAIN q /\ i + 1 # 1 /\ queue'["TRNSPRT"][i] = q[i + 1]
      /\ \A k \in DOMAIN q : k = 1 \/ \E i \in DOMAIN queue'["TRNSPRT"] :
                                         queue'["TRNSPRT"][i] = q[k]
  <2>1. \A k \in DOMAIN q : k = 1 \/ (k - 1 \in 1 .. Len(q) - 1 /\ (k - 1) + 1 = k)
    BY <1>2
  <2>2. \A i \in DOMAIN queue'["TRNSPRT"] :
           i \in Nat /\ i + 1 \in DOMAIN q /\ i + 1 # 1 /\ queue'["TRNSPRT"][i] = q[i + 1]
    BY <1>2, <1>3, <1>4
  <2>3. \A k \in DOMAIN q : k = 1 \/ \E i \in DOMAIN queue'["TRNSPRT"] :
                                         queue'["TRNSPRT"][i] = q[k]
    BY <1>3, <1>4, <2>1
  <2> QED BY <1>3, <1>4, <2>2, <2>3
<1>6. /\ \A x : Waits(x)' <=> Waits(x)
      /\ \A x \in Ids : OnWay(x)' <=> OnWay(x)
      /\ \A x : IsLocked(x)' <=> IsLocked(x)
      /\ \A x : InHands(x)' <=> InHands(x)
      /\ \A d, x : Keeps(d, x)' <=> Keeps(d, x)
  <2>1. \A x : Waits(x)' <=> Waits(x)
    BY <1>4 DEF Waits
  <2>2. \A x \in Ids : OnWay(x)' => OnWay(x)
    BY <1>1, <1>3, <1>5 DEF OnWay, q
  <2>3. ASSUME NEW x \in Ids, OnWay(x)
        PROVE  OnWay(x)'
    <3>1. x # hand
      BY <1>1, <1>2
    <3>2. PICK k \in DOMAIN q : q[k] = x
      BY <2>3, <3>1 DEF OnWay, q
    <3>3. ASSUME k = 1
          PROVE  x = hand'
      BY <1>1, <1>3, <3>2, <3>3
    <3>4. ASSUME k # 1
          PROVE  \E i \in DOMAIN queue'["TRNSPRT"] : queue'["TRNSPRT"][i] = x
      BY <1>5, <3>2, <3>4
    <3> QED BY <3>3, <3>4 DEF OnWay
  <2>4. /\ \A x : IsLocked(x)' <=> IsLocked(x)
        /\ \A x : InHands(x)' <=> InHands(x)
        /\ \A d, x : Keeps(d, x)' <=> Keeps(d, x)
    BY <1>1 DEF IsLocked, InHands, Keeps
  <2> QED BY <2>1, <2>2, <2>3, <2>4
<1>7. Typed'
  <2>1. \A t \in Stages : \A i \in DOMAIN queue'[t] : queue'[t][i] \in Ids
    <3>1. \A t \in Arrivals : \A i \in DOMAIN queue'[t] : queue'[t][i] \in Ids
      BY <1>4, StageNames DEF SInv, Typed, QueueType
    <3>2. \A i \in DOMAIN queue'["TRNSPRT"] : queue'["TRNSPRT"][i] \in Ids
      BY <1>2, <1>5
    <3> QED BY <3>1, <3>2, StageNames
  <2>2. hand' \in Ids
    BY <1>1, <1>2, <1>3
  <2> QED BY <1>1, <1>4, <2>1, <2>2
          DEF SInv, Typed, MessType, QueueType, TodoType, SetsType, CallType
<1>8. KindsInv'
  BY <1>1, <1>4, StageNames DEF SInv, KindsInv
<1>9. LifeInv'
  BY <1>1, <1>6 DEF SInv, LifeInv
<1>10. WaitInv'
  <2>1. ASSUME NEW t1 \in Arrivals, NEW t2 \in Arrivals,
               NEW i \in DOMAIN queue'[t1], NEW j \in DOMAIN queue'[t2],
               queue'[t1][i] = queue'[t2][j]
        PROVE  t1 = t2 /\ i = j
    <3>1. queue'[t1] = queue[t1] /\ queue'[t2] = queue[t2]
      BY <1>4
    <3>2. i \in DOMAIN queue[t1] /\ j \in DOMAIN queue[t2] /\ queue[t1][i] = queue[t2][j]
      BY <2>1, <3>1
    <3> QED BY <3>2 DEF SInv, WaitInv
  <2>2. \A x \in Ids : Waits(x)' =>
           ~OnWay(x)' /\ ~IsLocked(x)' /\ \A i \in DOMAIN todo' : todo'[i].on # x
    BY <1>1, <1>6 DEF SInv, WaitInv
  <2> QED BY <1>1, <2>1, <2>2 DEF WaitInv
<1>11. ShareInv'
  <2>0. \A i, j \in DOMAIN q : i < j /\ q[i] = q[j] => IsLocked(q[i])
    BY DEF SInv, ShareInv, q
  <2>1. ASSUME NEW i \in DOMAIN queue'["TRNSPRT"], NEW j \in DOMAIN queue'["TRNSPRT"],
               i < j, queue'["TRNSPRT"][i] = queue'["TRNSPRT"][j]
        PROVE  IsLocked(queue'["TRNSPRT"][i])
    <3>1. /\ i + 1 \in DOMAIN q /\ j + 1 \in DOMAIN q /\ i + 1 < j + 1
          /\ q[i + 1] = q[j + 1] /\ queue'["TRNSPRT"][i] = q[i + 1]
      BY <1>5, <2>1
    <3> QED BY <2>0, <3>1
  <2>2. ASSUME NEW i \in DOMAIN queue'["TRNSPRT"], queue'["TRNSPRT"][i] = hand'
        PROVE  IsLocked(hand')
    <3>1. i \in Nat /\ i + 1 \in DOMAIN q /\ i + 1 # 1 /\ q[i + 1] = hand'
      BY <1>5, <2>2
    <3>2. hand' = q[1] /\ 1 \in DOMAIN q
      BY <1>1, <1>3
    <3>3. 1 < i + 1
      BY <1>2, <3>1
    <3>4. IsLocked(q[1])
      BY <2>0, <3>1, <3>2, <3>3
    <3> QED BY <3>2, <3>4
  <2>3. /\ \A i, j \in DOMAIN queue'["TRNSPRT"] :
              i < j /\ queue'["TRNSPRT"][i] = queue'["TRNSPRT"][j] =>
                 IsLocked(queue["TRNSPRT"][i])'
        /\ \A i \in DOMAIN queue'["TRNSPRT"] :
              queue'["TRNSPRT"][i] = hand' => IsLocked(hand)'
    BY <1>1, <2>1, <2>2 DEF IsLocked
  <2>4. \A x \in Ids' : OnWay(x)' /\ InHands(x)' => IsLocked(x)'
    BY <1>1, <1>6 DEF SInv, ShareInv
  <2> QED BY <2>3, <2>4 DEF ShareInv
<1>12. TodoInv'
  BY <1>1 DEF SInv, TodoInv, IsLocked
<1>13. OwnInv'
  BY <1>1 DEF SInv, OwnInv, Has, Keeps
<1>14. TimeInv'
  <2>1. /\ Unsent = InHand + Len(q) + Cardinality(Sends) /\ Cardinality(Sends) \in Nat
    BY UnsentIs DEF SInv, Typed, q
  <2>2. InHand = 0 /\ InHand' = 1
    BY <1>1, <1>2, <1>3 DEF InHand
  <2>3. Unsent' = Unsent
    <3>1. Unsent' = InHand' + Len(queue'["TRNSPRT"]) + Cardinality(Sends)
      BY <1>1 DEF Unsent, InHand, Sends
    <3>2. Len(queue'["TRNSPRT"]) = Len(q) - 1
      BY <1>5
    <3>3. Unsent' = 1 + (Len(q) - 1) + Cardinality(Sends)
      BY <2>2, <3>1, <3>2
    <3>4. Unsent = 0 + Len(q) + Cardinality(Sends)
      BY <2>1, <2>2
    <3> HIDE DEF Sends, InHand, Unsent
    <3> QED BY <1>2, <2>1, <3>3, <3>4
  <2> SUFFICES ASSUME NEW d \in Calls
               PROVE  /\ object'[d] # "requested" => idle'[d] = 0
                      /\ idle[d] >= 1 =>
                            /\ Keeps(d, hand)' => slow >= 1
                            /\ \A i \in DOMAIN queue'["TRNSPRT"] :
                                  Keeps(d, queue["TRNSPRT"][i])' => slow >= 1 + i
                            /\ \A i \in DOMAIN todo :
                                  todo[i].op = "send" /\ Keeps(d, todo[i].on)' =>
                                     slow >= Unsent
                      /\ idle[d] >= 2 =>
                            /\ \A x \in Ids : OnWay(x)' => ~Keeps(d, x)'
                            /\ \A i \in DOMAIN todo :
                                  todo[i].op = "send" => ~Keeps(d, todo[i].on)'
    BY <1>1, <2>2, <2>3 DEF TimeInv
  <2>4. /\ object[d] # "requested" => idle[d] = 0
        /\ idle[d] >= 1 =>
              /\ \A i \in DOMAIN q : Keeps(d, q[i]) => slow >= 0 + i
              /\ \A i \in DOMAIN todo :
                    todo[i].op = "send" /\ Keeps(d, todo[i].on) => slow >= Unsent
        /\ idle[d] >= 2 =>
              /\ \A x \in Ids : OnWay(x) => ~Keeps(d, x)
              /\ \A i \in DOMAIN todo : todo[i].op = "send" => ~Keeps(d, todo[i].on)
    BY <2>2 DEF SInv, TimeInv, q
  <2>5. Keeps(d, hand)' => Keeps(d, q[1])
    BY <1>1, <1>3 DEF Keeps
  <2>6. \A i : Keeps(d, queue["TRNSPRT"][i])' => Keeps(d, queue'["TRNSPRT"][i])
    BY <1>1 DEF Keeps
  <2>7. \A i : Keeps(d, todo[i].on)' => Keeps(d, todo[i].on)
    BY <1>1 DEF Keeps
  <2>8. \A i \in DOMAIN queue'["TRNSPRT"] :
           idle[d] >= 1 /\ Keeps(d, queue'["TRNSPRT"][i]) => slow >= 1 + i
    <3> SUFFICES ASSUME NEW i \in DOMAIN queue'["TRNSPRT"], idle[d] >= 1,
                        Keeps(d, queue'["TRNSPRT"][i])
                 PROVE  slow >= 1 + i
      OBVIOUS
    <3>1. i \in Nat /\ i + 1 \in DOMAIN q /\ queue'["TRNSPRT"][i] = q[i + 1]
      BY <1>5
    <3>2. slow >= 0 + (i + 1) /\ slow \in Nat
      BY <2>4, <3>1 DEF SInv, Typed, SetsType
    <3> QED BY <3>1, <3>2
  <2>9. idle[d] >= 1 /\ Keeps(d, q[1]) => slow >= 1
    <3>1. idle[d] >= 1 /\ Keeps(d, q[1]) => slow >= 0 + 1
      BY <1>3, <2>4
    <3> QED BY <3>1
  <2> QED BY <1>1, <1>6, <2>4, <2>5, <2>6, <2>7, <2>8, <2>9
<1> QED BY <1>7, <1>8, <1>9, <1>10, <1>11, <1>12, <1>13, <1>14 DEF SInv

LEMMA SentKeeps ==
    ASSUME SInv, Sent
    PROVE  SInv'
<1> DEFINE q == queue["TRNSPRT"]
<1>1. /\ hand # 0 /\ hand' = 0 /\ slow' = IF slow = 0 THEN 0 ELSE slow - 1
      /\ UNCHANGED <<mess, queue, todo, object, idle, role, closed, over, lockedMessages,
                     incoming>>
      /\ Ids' = Ids
  BY DEF Sent, calls, Ids
<1>2. /\ hand \in Ids /\ 0 \notin Ids /\ \A i \in DOMAIN q : q[i] \in Ids
      /\ Len(q) \in Nat /\ DOMAIN q = 1 .. Len(q)
  BY <1>1, QueueFacts, MessFacts, StageNames DEF SInv, Typed, SetsType
<1>3. /\ purged' \subseteq purged \cup {hand} /\ purged \subseteq purged'
      /\ hand \in purged' \/ IsLocked(hand)
      /\ hand \in purged' => hand \in purged \/ ~IsLocked(hand)
  BY DEF Sent, Purge
<1>4. /\ \A x : Waits(x)' <=> Waits(x)
      /\ \A x \in Ids : OnWay(x) <=> OnWay(x)' \/ x = hand
      /\ \A x : IsLocked(x)' <=> IsLocked(x)
      /\ \A x : InHands(x)' <=> InHands(x)
      /\ \A d, x : Keeps(d, x)' <=> Keeps(d, x)
  <2>1. \A x \in Ids : OnWay(x) <=> OnWay(x)' \/ x = hand
    BY <1>1, <1>2 DEF OnWay
  <2> QED BY <1>1, <2>1 DEF Waits, IsLocked, InHands, Keeps
<1>5. Typed'
  <2>1. slow' \in Nat
    BY <1>1 DEF SInv, Typed, SetsType
  <2> QED BY <1>1, <1>2, <1>3, <2>1
          DEF SInv, Typed, MessType, QueueType, TodoType, SetsType, CallType
<1>6. KindsInv'
  BY <1>1 DEF SInv, KindsInv
<1>7. LifeInv'
  <2>1. OnWay(hand) /\ hand \notin purged /\ ~Waits(hand)
    BY <1>2 DEF OnWay, SInv, LifeInv, WaitInv
  <2>2. InHands(hand) => IsLocked(hand)
    BY <1>2, <2>1 DEF SInv, ShareInv
  <2>3. \A x : x = hand /\ OnWay(x)' => IsLocked(x)
    BY <1>1 DEF OnWay, SInv, ShareInv
  <2>4. ASSUME NEW x \in Ids
        PROVE  /\ x \in purged' => ~Waits(x)' /\ ~OnWay(x)' /\ ~InHands(x)' /\ ~IsLocked(x)'
               /\ \/ x \in purged' \/ Waits(x)' \/ OnWay(x)' \/ InHands(x)' \/ IsLocked(x)'
                  \/ mess[x].kind = "REGISTER"
    <3>1. CASE x = hand
      BY <1>3, <1>4, <2>1, <2>2, <2>3, <3>1
    <3>2. CASE x # hand
      <4>1. /\ x \in purged => ~Waits(x) /\ ~OnWay(x) /\ ~InHands(x) /\ ~IsLocked(x)
            /\ \/ x \in purged \/ Waits(x) \/ OnWay(x) \/ InHands(x) \/ IsLocked(x)
               \/ mess[x].kind = "REGISTER"
        BY DEF SInv, LifeInv
      <4> QED BY <1>3, <1>4, <3>2, <4>1
    <3> QED BY <3>1, <3>2
  <2> QED BY <1>1, <2>4 DEF LifeInv
<1>8. WaitInv'
  <2>1. \A x \in Ids : Waits(x)' =>
           ~OnWay(x)' /\ ~IsLocked(x)' /\ \A i \in DOMAIN todo' : todo'[i].on # x
    BY <1>1, <1>4 DEF SInv, WaitInv
  <2> QED BY <1>1, <2>1 DEF SInv, WaitInv
<1>9. ShareInv'
  <2>1. \A x \in Ids' : OnWay(x)' /\ InHands(x)' => IsLocked(x)'
    BY <1>1, <1>4 DEF SInv, ShareInv
  <2>2. \A i \in DOMAIN queue'["TRNSPRT"] : queue'["TRNSPRT"][i] # hand'
    BY <1>1, <1>2
  <2>3. \A i, j \in DOMAIN queue'["TRNSPRT"] :
           i < j /\ queue'["TRNSPRT"][i] = queue'["TRNSPRT"][j] =>
              IsLocked(queue["TRNSPRT"][i])'
    BY <1>1 DEF SInv, ShareInv, IsLocked
  <2> QED BY <2>1, <2>2, <2>3 DEF ShareInv
<1>10. TodoInv'
  BY <1>1 DEF SInv, TodoInv, IsLocked
<1>11. OwnInv'
  BY <1>1 DEF SInv, OwnInv, Has, Keeps
<1>12. TimeInv'
  <2>1. /\ Unsent = InHand + Len(q) + Cardinality(Sends) /\ Cardinality(Sends) \in Nat
        /\ Unsent \in Nat /\ slow \in Nat
    BY UnsentIs DEF SInv, Typed, SetsType
  <2>2. InHand = 1 /\ InHand' = 0
    BY <1>1 DEF InHand
  <2>3. Unsent' = Unsent - 1 /\ Unsent >= 1
    <3>1. Unsent' = InHand' + Len(q) + Cardinality(Sends)
      BY <1>1 DEF Unsent, InHand, Sends
    <3> HIDE DEF q
    <3> QED BY <1>2, <2>1, <2>2, <3>1
  <2> SUFFICES ASSUME NEW d \in Calls
               PROVE  /\ object[d] # "requested" => idle[d] = 0
                      /\ idle[d] >= 1 =>
                            /\ Keeps(d, hand)' => slow' >= 1
                            /\ \A i \in DOMAIN q :
                                  Keeps(d, queue["TRNSPRT"][i])' => slow' >= 0 + i
                            /\ \A i \in DOMAIN todo :
                                  todo[i].op = "send" /\ Keeps(d, todo[i].on)' =>
                                     slow' >= Unsent - 1
                      /\ idle[d] >= 2 =>
                            /\ \A x \in Ids : OnWay(x)' => ~Keeps(d, x)'
                            /\ \A i \in DOMAIN todo :
                                  todo[i].op = "send" => ~Keeps(d, todo[i].on)'
    BY <1>1, <2>2, <2>3 DEF TimeInv
  <2>4. /\ object[d] # "requested" => idle[d] = 0
        /\ idle[d] >= 1 =>
              /\ \A i \in DOMAIN q : Keeps(d, q[i]) => slow >= 1 + i
              /\ \A i \in DOMAIN todo :
                    todo[i].op = "send" /\ Keeps(d, todo[i].on) => slow >= Unsent
        /\ idle[d] >= 2 =>
              /\ \A x \in Ids : OnWay(x) => ~Keeps(d, x)
              /\ \A i \in DOMAIN todo : todo[i].op = "send" => ~Keeps(d, todo[i].on)
    BY <2>2 DEF SInv, TimeInv
  <2>5. ~Keeps(d, hand)'
    <3>1. \A x : Keeps(d, x) => x # 0
      BY <1>2, PlacesAreIds DEF SInv
    <3>2. \A x : x = 0 => (Keeps(d, hand)' => Keeps(d, x))
      BY <1>1 DEF Keeps
    <3> QED BY <3>1, <3>2
  <2>6. \A i : Keeps(d, queue["TRNSPRT"][i])' => Keeps(d, q[i])
    BY <1>1 DEF Keeps
  <2>7. \A i : Keeps(d, todo[i].on)' => Keeps(d, todo[i].on)
    BY <1>1 DEF Keeps
  <2>8. \A i \in DOMAIN q : slow >= 1 + i => slow' >= 0 + i
    BY <1>1, <1>2, <2>1
  <2>9. slow >= Unsent => slow' >= Unsent - 1
    BY <1>1, <2>1, <2>3
  <2> HIDE DEF q
  <2> QED BY <1>4, <2>4, <2>5, <2>6, <2>7, <2>8, <2>9
<1> QED BY <1>5, <1>6, <1>7, <1>8, <1>9, <1>10, <1>11, <1>12 DEF SInv

-----------------------------------------------------------------------------
(* Time, and the deletion of a call.                                       *)

\* Every place among what is to be sent is within Unsent.
LEMMA WithinUnsent ==
    ASSUME Typed
    PROVE  /\ hand # 0 => Unsent >= 1
           /\ \A i \in DOMAIN queue["TRNSPRT"] : Unsent >= InHand + i
  <1>1. /\ Unsent = InHand + Len(queue["TRNSPRT"]) + Cardinality(Sends)
        /\ Len(queue["TRNSPRT"]) \in Nat /\ Cardinality(Sends) \in Nat
        /\ InHand \in {0, 1} /\ Unsent \in Nat
    BY UnsentIs
  <1>2. DOMAIN queue["TRNSPRT"] = 1 .. Len(queue["TRNSPRT"])
    BY QueueFacts, StageNames DEF Typed
  <1>3. hand # 0 => InHand = 1
    BY DEF InHand
  <1>4. \A i \in DOMAIN queue["TRNSPRT"] : i \in Nat /\ i <= Len(queue["TRNSPRT"])
    BY <1>1, <1>2
  <1> HIDE DEF InHand, Sends, Unsent
  <1> QED BY <1>1, <1>3, <1>4

LEMMA TickKeeps ==
    ASSUME SInv, Tick
    PROVE  SInv'
<1>1. /\ slow = 0 /\ slow' = Unsent
      /\ idle' = [c \in Calls |-> IF object[c] = "requested" /\ idle[c] <= TIMER_DOA
                                  THEN idle[c] + 1 ELSE idle[c]]
      /\ UNCHANGED <<mess, queue, hand, todo, object, role, closed, over, lockedMessages,
                     purged, incoming>>
      /\ Ids' = Ids
  BY DEF Tick, Ids
<1>2. /\ \A x : Waits(x)' <=> Waits(x)
      /\ \A x : OnWay(x)' <=> OnWay(x)
      /\ \A x : IsLocked(x)' <=> IsLocked(x)
      /\ \A x : InHands(x)' <=> InHands(x)
      /\ \A d, x : Keeps(d, x)' <=> Keeps(d, x)
      /\ InHand' = InHand /\ Unsent' = Unsent
  BY <1>1 DEF Waits, OnWay, IsLocked, InHands, Keeps, InHand, Unsent
<1>3. /\ \A d \in Calls : idle[d] \in 0 .. TIMER_DOA + 1
      /\ TIMER_DOA \in Nat /\ Unsent \in Nat
  BY UnsentIs, ServerAssumption DEF SInv, Typed, CallType
<1>4. \A d \in Calls : /\ idle'[d] \in 0 .. TIMER_DOA + 1
                       /\ object[d] # "requested" => idle'[d] = idle[d]
                       /\ idle'[d] = idle[d] \/ idle'[d] = idle[d] + 1
  BY <1>1, <1>3
<1>5. Typed'
  <2>1. idle' \in [Calls -> 0 .. TIMER_DOA + 1]
    BY <1>1, <1>4
  <2> QED BY <1>1, <1>3, <2>1
          DEF SInv, Typed, MessType, QueueType, TodoType, SetsType, CallType
<1>6. KindsInv' /\ TodoInv'
  BY <1>1, <1>2 DEF SInv, KindsInv, TodoInv
<1>7. LifeInv'
  BY <1>1, <1>2 DEF SInv, LifeInv
<1>8. WaitInv'
  <2>1. \A x \in Ids : Waits(x)' =>
           ~OnWay(x)' /\ ~IsLocked(x)' /\ \A i \in DOMAIN todo' : todo'[i].on # x
    BY <1>1, <1>2 DEF SInv, WaitInv
  <2> QED BY <1>1, <2>1 DEF SInv, WaitInv
<1>9. ShareInv'
  BY <1>1 DEF SInv, ShareInv, IsLocked, OnWay, InHands
<1>10. OwnInv'
  BY <1>1 DEF SInv, OwnInv, Has, Keeps
<1>11. TimeInv'
  <2>1. /\ hand # 0 => Unsent >= 1
        /\ \A i \in DOMAIN queue["TRNSPRT"] : Unsent >= InHand + i
    BY WithinUnsent DEF SInv
  <2>2. hand \in Ids \cup {0} /\ 0 \notin Ids
    BY MessFacts DEF SInv, Typed, SetsType
  <2> SUFFICES ASSUME NEW d \in Calls
               PROVE  /\ object[d] # "requested" => idle'[d] = 0
                      /\ idle'[d] >= 1 =>
                            /\ Keeps(d, hand)' => Unsent >= 1
                            /\ \A i \in DOMAIN queue["TRNSPRT"] :
                                  Keeps(d, queue["TRNSPRT"][i])' => Unsent >= InHand + i
                            /\ \A i \in DOMAIN todo :
                                  todo[i].op = "send" /\ Keeps(d, todo[i].on)' =>
                                     Unsent >= Unsent
                      /\ idle'[d] >= 2 =>
                            /\ \A x \in Ids : OnWay(x)' => ~Keeps(d, x)'
                            /\ \A i \in DOMAIN todo :
                                  todo[i].op = "send" => ~Keeps(d, todo[i].on)'
    BY <1>1, <1>2 DEF TimeInv
  <2>3. object[d] # "requested" => idle'[d] = 0
    BY <1>4 DEF SInv, TimeInv
  <2>4. Keeps(d, hand)' => Unsent >= 1
    <3>1. \A x : Keeps(d, x) => x # 0
      BY <2>2, PlacesAreIds DEF SInv
    <3>2. \A x : x = hand => (Keeps(d, hand)' => Keeps(d, x))
      BY <1>1 DEF Keeps
    <3> QED BY <2>1, <3>1, <3>2
  <2>5. ASSUME idle'[d] >= 2
        PROVE  /\ \A x \in Ids : OnWay(x)' => ~Keeps(d, x)'
               /\ \A i \in DOMAIN todo : todo[i].op = "send" => ~Keeps(d, todo[i].on)'
    <3>1. idle[d] >= 1
      BY <1>3, <1>4, <2>5
    <3>2. /\ Keeps(d, hand) => slow >= 1
          /\ \A i \in DOMAIN queue["TRNSPRT"] :
                Keeps(d, queue["TRNSPRT"][i]) => slow >= InHand + i
          /\ \A i \in DOMAIN todo :
                todo[i].op = "send" /\ Keeps(d, todo[i].on) => slow >= Unsent
      BY <3>1 DEF SInv, TimeInv
    <3>3. ~Keeps(d, hand)
      BY <1>1, <3>2
    <3>4. \A i \in DOMAIN queue["TRNSPRT"] : ~Keeps(d, queue["TRNSPRT"][i])
      <4>1. \A i \in DOMAIN queue["TRNSPRT"] : i \in Nat /\ i >= 1
        BY QueueFacts, StageNames DEF SInv, Typed
      <4>2. InHand \in {0, 1}
        BY DEF InHand
      <4>3. \A i \in DOMAIN queue["TRNSPRT"] : ~(slow >= InHand + i)
        BY <1>1, <4>1, <4>2
      <4> QED BY <3>2, <4>3
    <3>5. \A i \in DOMAIN todo : todo[i].op = "send" => ~Keeps(d, todo[i].on)
      <4>1. \A i \in DOMAIN todo : todo[i].op = "send" => ~(slow >= Unsent)
        <5>1. /\ Unsent = InHand + Len(queue["TRNSPRT"]) + Cardinality(Sends)
              /\ Len(queue["TRNSPRT"]) \in Nat /\ Cardinality(Sends) \in Nat
              /\ InHand \in {0, 1}
              /\ \A i \in DOMAIN todo : todo[i].op = "send" => Cardinality(Sends) >= 1
          BY UnsentIs DEF SInv
        <5>2. Cardinality(Sends) >= 1 => Unsent >= 1
          BY <5>1
        <5> QED BY <1>1, <1>3, <5>1, <5>2
      <4> QED BY <3>2, <4>1
    <3>6. \A x \in Ids : OnWay(x) => ~Keeps(d, x)
      BY <3>3, <3>4 DEF OnWay
    <3>7. \A i : Keeps(d, todo[i].on)' => Keeps(d, todo[i].on)
      BY <1>1 DEF Keeps
    <3> QED BY <1>2, <3>5, <3>6, <3>7
  <2> QED BY <1>3, <2>1, <2>3, <2>4, <2>5
<1> QED BY <1>5, <1>6, <1>7, <1>8, <1>9, <1>10, <1>11 DEF SInv

LEMMA PurgeDoaKeeps ==
    ASSUME SInv, NEW c \in Calls, purgeDOA(c)
    PROVE  SInv'
<1> DEFINE L == lockedMessages[c]
<1>1. /\ object[c] = "requested" /\ idle[c] > TIMER_DOA /\ ~InCall(c)
      /\ purged' = purged \cup L
      /\ lockedMessages' = [lockedMessages EXCEPT ![c] = {}]
      /\ role' = [role EXCEPT ![c] = Nothing]
      /\ object' = [object EXCEPT ![c] = "none"]
      /\ idle' = [idle EXCEPT ![c] = 0]
      /\ closed' = [closed EXCEPT ![c] = FALSE] /\ over' = [over EXCEPT ![c] = FALSE]
      /\ UNCHANGED <<mess, queue, hand, slow, todo, incoming>>
      /\ Ids' = Ids
  BY DEF purgeDOA, FreeCall, Released, transport, Ids
<1>2. /\ lockedMessages \in [Calls -> SUBSET Ids] /\ L \subseteq Ids /\ purged \subseteq Ids
      /\ \A d \in Calls : \A x \in lockedMessages[d] : mess[x].call = d
      /\ 0 \notin Ids
  BY MessFacts DEF SInv, Typed, SetsType, OwnInv
<1> HIDE DEF L
<1>3. \A i \in DOMAIN todo : mess[todo[i].on].call # c
  <2> SUFFICES ASSUME NEW i \in DOMAIN todo
               PROVE  mess[todo[i].on].call # c
    OBVIOUS
  <2>1. todo \in Seq(TodoRecords) /\ todo # <<>>
    BY DEF SInv, Typed, TodoType
  <2>2. Head(todo) = todo[1] /\ 1 \in DOMAIN todo
    BY <2>1, TailAt
  <2>3. mess[todo[1].on].call = mess[todo[i].on].call
    BY <2>2 DEF SInv, TodoInv
  <2> QED BY <1>1, <2>1, <2>2, <2>3 DEF InCall
<1>4. \A x \in L : /\ ~Waits(x) /\ ~InHands(x) /\ IsLocked(x) /\ Keeps(c, x)
                   /\ \A i \in DOMAIN todo : todo[i].on # x
  <2> SUFFICES ASSUME NEW x \in L
               PROVE  /\ ~Waits(x) /\ ~InHands(x) /\ IsLocked(x) /\ Keeps(c, x)
                      /\ \A i \in DOMAIN todo : todo[i].on # x
    OBVIOUS
  <2>1. IsLocked(x) /\ Keeps(c, x)
    BY DEF L, IsLocked, Keeps
  <2>2. \A i \in DOMAIN todo : todo[i].on # x
    BY <1>2, <1>3 DEF L
  <2>3. ~InHands(x)
    BY <2>2 DEF InHands
  <2>4. ~Waits(x)
    BY <1>2, <2>1 DEF SInv, WaitInv
  <2> QED BY <2>1, <2>2, <2>3, <2>4
<1>5. \A x \in L : ~OnWay(x)
  <2>1. idle[c] >= 2
    <3>1. TIMER_DOA \in Nat \ {0} /\ idle[c] \in 0 .. TIMER_DOA + 1
      BY ServerAssumption DEF SInv, Typed, CallType
    <3> QED BY <1>1, <3>1
  <2>2. \A x \in Ids : OnWay(x) => ~Keeps(c, x)
    BY <2>1 DEF SInv, TimeInv
  <2> QED BY <1>2, <1>4, <2>2
<1>6. /\ \A x : Waits(x)' <=> Waits(x)
      /\ \A x : OnWay(x)' <=> OnWay(x)
      /\ \A x : InHands(x)' <=> InHands(x)
      /\ \A x : IsLocked(x)' <=> IsLocked(x) /\ x \notin L
      /\ \A x : ~Keeps(c, x)'
      /\ \A d \in Calls \ {c} : \A x : Keeps(d, x)' <=> Keeps(d, x)
  <2>1. /\ lockedMessages'[c] = {}
        /\ \A d \in Calls \ {c} : lockedMessages'[d] = lockedMessages[d]
    BY <1>1, <1>2
  <2>2. \A x : ~Keeps(c, x)'
    BY <1>1, <1>3, <2>1 DEF Keeps
  <2>3. \A d \in Calls \ {c} : \A x : Keeps(d, x)' <=> Keeps(d, x)
    BY <1>1, <2>1 DEF Keeps
  <2>4. \A x : IsLocked(x)' <=> IsLocked(x) /\ x \notin L
    <3>1. \A d \in Calls \ {c} : \A x \in lockedMessages[d] : x \notin L
      BY <1>2 DEF L
    <3> QED BY <2>1, <3>1 DEF IsLocked, L
  <2> QED BY <1>1, <2>2, <2>3, <2>4 DEF Waits, OnWay, InHands
<1>7. Typed'
  <2>1. purged' \subseteq Ids /\ lockedMessages' \in [Calls -> SUBSET Ids]
    BY <1>1, <1>2
  <2>2. CallType'
    <3>1. DOMAIN Nothing = {}
      BY DEF Nothing
    <3>2. DOMAIN role' = Calls
      BY <1>1 DEF SInv, Typed, CallType
    <3>3. \A d \in Calls : role'[d] = IF d = c THEN Nothing ELSE role[d]
      BY <1>1 DEF SInv, Typed, CallType
    <3>4. /\ \A d \in Calls : DOMAIN role'[d] \subseteq Roles
          /\ \A d \in Calls : \A r \in DOMAIN role'[d] : role'[d][r] \in Ids
      BY <3>1, <3>3 DEF SInv, Typed, CallType
    <3>5. idle' \in [Calls -> 0 .. TIMER_DOA + 1]
      BY <1>1, ServerAssumption DEF SInv, Typed, CallType
    <3>6. /\ object' \in [Calls -> {"none", "live", "requested"}]
          /\ closed' \in [Calls -> BOOLEAN] /\ over' \in [Calls -> BOOLEAN]
      BY <1>1 DEF SInv, Typed, CallType
    <3> QED BY <1>1, <3>2, <3>4, <3>5, <3>6 DEF CallType
  <2> QED BY <1>1, <2>1, <2>2 DEF SInv, Typed, MessType, QueueType, TodoType, SetsType
<1>8. KindsInv'
  BY <1>1 DEF SInv, KindsInv
<1>9. LifeInv'
  <2> SUFFICES ASSUME NEW x \in Ids
               PROVE  /\ x \in purged' => ~Waits(x)' /\ ~OnWay(x)' /\ ~InHands(x)' /\ ~IsLocked(x)'
                      /\ \/ x \in purged' \/ Waits(x)' \/ OnWay(x)' \/ InHands(x)'
                         \/ IsLocked(x)' \/ mess[x].kind = "REGISTER"
    BY <1>1 DEF LifeInv
  <2>1. /\ x \in purged => ~Waits(x) /\ ~OnWay(x) /\ ~InHands(x) /\ ~IsLocked(x)
        /\ \/ x \in purged \/ Waits(x) \/ OnWay(x) \/ InHands(x) \/ IsLocked(x)
           \/ mess[x].kind = "REGISTER"
    BY DEF SInv, LifeInv
  <2> QED BY <1>1, <1>4, <1>5, <1>6, <2>1
<1>10. WaitInv'
  <2>1. \A x \in Ids : Waits(x)' =>
           ~OnWay(x)' /\ ~IsLocked(x)' /\ \A i \in DOMAIN todo' : todo'[i].on # x
    BY <1>1, <1>6 DEF SInv, WaitInv
  <2> QED BY <1>1, <2>1 DEF SInv, WaitInv
<1>11. ShareInv'
  <2>1. \A i \in DOMAIN queue["TRNSPRT"] : queue["TRNSPRT"][i] \notin L
    BY <1>5 DEF OnWay
  <2>2. \A i, j \in DOMAIN queue["TRNSPRT"] :
           i < j /\ queue["TRNSPRT"][i] = queue["TRNSPRT"][j] => IsLocked(queue["TRNSPRT"][i])'
    <3>1. \A i, j \in DOMAIN queue["TRNSPRT"] :
             i < j /\ queue["TRNSPRT"][i] = queue["TRNSPRT"][j] =>
                IsLocked(queue["TRNSPRT"][i])
      BY DEF SInv, ShareInv
    <3>2. \A i \in DOMAIN queue["TRNSPRT"] :
             IsLocked(queue["TRNSPRT"][i]) => IsLocked(queue["TRNSPRT"][i])'
      <4>1. \A i \in DOMAIN queue["TRNSPRT"] : \A x :
               x = queue'["TRNSPRT"][i] => (IsLocked(x)' => IsLocked(queue["TRNSPRT"][i])')
        BY DEF IsLocked
      <4>2. \A i \in DOMAIN queue["TRNSPRT"] : \A x :
               x = queue["TRNSPRT"][i] /\ IsLocked(x) => IsLocked(x)'
        BY <1>6, <2>1
      <4> QED BY <1>1, <4>1, <4>2
    <3> QED BY <1>1, <3>1, <3>2
  <2>3. \A i \in DOMAIN queue["TRNSPRT"] : queue["TRNSPRT"][i] = hand => IsLocked(hand)'
    BY <1>1, <1>6, <2>1 DEF SInv, ShareInv, IsLocked
  <2>4. \A x \in Ids' : OnWay(x)' /\ InHands(x)' => IsLocked(x)'
    BY <1>1, <1>4, <1>6 DEF SInv, ShareInv
  <2> QED BY <1>1, <2>2, <2>3, <2>4 DEF ShareInv
<1>12. TodoInv'
  <2>1. \A i \in DOMAIN todo : IsLocked(todo[i].on) => IsLocked(todo[i].on)'
    <3>1. \A i \in DOMAIN todo : todo[i].on \notin L
      BY <1>4
    <3>2. \A i \in DOMAIN todo : \A x :
             x = todo'[i].on => (IsLocked(x)' => IsLocked(todo[i].on)')
      BY DEF IsLocked
    <3>3. \A i \in DOMAIN todo : \A x : x = todo[i].on /\ IsLocked(x) => IsLocked(x)'
      BY <1>6, <3>1
    <3> QED BY <1>1, <3>2, <3>3
  <2>2. \A i, j \in DOMAIN todo :
           /\ mess[todo[i].on].call = mess[todo[j].on].call
           /\ i < j /\ todo[i].on = todo[j].on =>
                 todo[i].op = "lock" \/ todo[j].op = "request" \/ IsLocked(todo[i].on)
    BY DEF SInv, TodoInv
  <2> QED BY <1>1, <2>1, <2>2 DEF TodoInv
<1>13. OwnInv'
  <2>1. DOMAIN Nothing = {}
    BY DEF Nothing
  <2>2. /\ role'[c] = Nothing /\ lockedMessages'[c] = {}
        /\ \A d \in Calls \ {c} : role'[d] = role[d] /\ lockedMessages'[d] = lockedMessages[d]
    BY <1>1, <1>2 DEF SInv, Typed, CallType
  <2> SUFFICES ASSUME NEW d \in Calls
               PROVE  /\ \A x \in lockedMessages'[d] : mess[x].call = d
                      /\ \A r \in DOMAIN role'[d] : Keeps(d, role[d][r])'
                      /\ \A r, q \in DOMAIN role'[d] : role'[d][r] = role'[d][q] => r = q
                      /\ \A s \in Sides : Has(d, BYE_SV[s])' => Has(d, STORED_MESSAGE[s])'
    BY <1>1 DEF OwnInv
  <2>3. CASE d = c
    BY <2>1, <2>2, <2>3 DEF Has
  <2>4. CASE d # c
    <3>1. /\ \A x \in lockedMessages[d] : mess[x].call = d
          /\ \A r \in DOMAIN role[d] : Keeps(d, role[d][r])
          /\ \A r, q \in DOMAIN role[d] : role[d][r] = role[d][q] => r = q
          /\ \A s \in Sides : Has(d, BYE_SV[s]) => Has(d, STORED_MESSAGE[s])
      BY DEF SInv, OwnInv
    <3>2. role'[d] = role[d] /\ lockedMessages'[d] = lockedMessages[d]
      BY <2>2, <2>4
    <3>3. \A s \in Sides : Has(d, BYE_SV[s])' => Has(d, STORED_MESSAGE[s])'
      BY <3>1, <3>2 DEF Has
    <3>4. \A r \in DOMAIN role'[d] : Keeps(d, role[d][r])'
      BY <1>1, <3>1, <3>2 DEF Keeps
    <3> QED BY <3>1, <3>2, <3>3, <3>4
  <2> QED BY <2>3, <2>4
<1>14. TimeInv'
  <2>1. InHand' = InHand /\ Unsent' = Unsent
    BY <1>1 DEF InHand, Unsent
  <2> SUFFICES ASSUME NEW d \in Calls
               PROVE  /\ object'[d] # "requested" => idle'[d] = 0
                      /\ idle'[d] >= 1 =>
                            /\ Keeps(d, hand)' => slow >= 1
                            /\ \A i \in DOMAIN queue["TRNSPRT"] :
                                  Keeps(d, queue["TRNSPRT"][i])' => slow >= InHand + i
                            /\ \A i \in DOMAIN todo :
                                  todo[i].op = "send" /\ Keeps(d, todo[i].on)' =>
                                     slow >= Unsent
                      /\ idle'[d] >= 2 =>
                            /\ \A x \in Ids : OnWay(x)' => ~Keeps(d, x)'
                            /\ \A i \in DOMAIN todo :
                                  todo[i].op = "send" => ~Keeps(d, todo[i].on)'
    BY <1>1, <2>1 DEF TimeInv
  <2>2. idle \in [Calls -> 0 .. TIMER_DOA + 1] /\ object \in [Calls -> {"none", "live", "requested"}]
    BY DEF SInv, Typed, CallType
  <2>3. CASE d = c
    <3>1. idle'[d] = 0
      BY <1>1, <2>2, <2>3
    <3> QED BY <3>1
  <2>4. CASE d # c
    <3>1. idle'[d] = idle[d] /\ object'[d] = object[d] /\ lockedMessages'[d] = lockedMessages[d]
      BY <1>1, <1>2, <2>2, <2>4
    <3>2. /\ Keeps(d, hand)' => Keeps(d, hand)
          /\ \A i : Keeps(d, queue["TRNSPRT"][i])' => Keeps(d, queue["TRNSPRT"][i])
          /\ \A i : Keeps(d, todo[i].on)' => Keeps(d, todo[i].on)
      BY <1>1, <3>1 DEF Keeps
    <3>3. /\ object[d] # "requested" => idle[d] = 0
          /\ idle[d] >= 1 =>
                /\ Keeps(d, hand) => slow >= 1
                /\ \A i \in DOMAIN queue["TRNSPRT"] :
                      Keeps(d, queue["TRNSPRT"][i]) => slow >= InHand + i
                /\ \A i \in DOMAIN todo :
                      todo[i].op = "send" /\ Keeps(d, todo[i].on) => slow >= Unsent
          /\ idle[d] >= 2 =>
                /\ \A x \in Ids : OnWay(x) => ~Keeps(d, x)
                /\ \A i \in DOMAIN todo : todo[i].op = "send" => ~Keeps(d, todo[i].on)
      BY DEF SInv, TimeInv
    <3> QED BY <1>6, <2>4, <3>1, <3>2, <3>3
  <2> QED BY <2>3, <2>4
<1> QED BY <1>7, <1>8, <1>9, <1>10, <1>11, <1>12, <1>13, <1>14 DEF SInv

-----------------------------------------------------------------------------
(* The theorems.                                                           *)

LEMMA InitKeeps ==
    ASSUME Init
    PROVE  SInv
<1>1. /\ mess = <<>> /\ queue = [st \in Stages |-> <<>>] /\ todo = <<>>
      /\ hand = 0 /\ slow = 0 /\ purged = {} /\ incoming = 0
      /\ object = [c \in Calls |-> "none"] /\ idle = [c \in Calls |-> 0]
      /\ role = [c \in Calls |-> Nothing] /\ lockedMessages = [c \in Calls |-> {}]
      /\ closed = [c \in Calls |-> FALSE] /\ over = [c \in Calls |-> FALSE]
  BY DEF Init
<1>2. Ids = {} /\ DOMAIN todo = {} /\ DOMAIN Nothing = {}
  BY <1>1 DEF Ids, Nothing
<1>3. \A st \in Stages : queue[st] = <<>> /\ DOMAIN queue[st] = {}
  BY <1>1
<1>4. Typed
  <2>1. MessType /\ TodoType
    BY <1>1, <1>2 DEF MessType, TodoType
  <2>2. QueueType
    BY <1>1, <1>3 DEF QueueType
  <2>3. SetsType
    BY <1>1, ServerAssumption DEF SetsType
  <2>4. CallType
    BY <1>1, <1>2, ServerAssumption DEF CallType
  <2> QED BY <2>1, <2>2, <2>3, <2>4 DEF Typed
<1>5. KindsInv /\ WaitInv /\ ShareInv
  BY <1>2, <1>3, StageNames DEF KindsInv, WaitInv, ShareInv
<1>6. LifeInv /\ TodoInv
  BY <1>2 DEF LifeInv, TodoInv
<1>7. OwnInv
  BY <1>1, <1>2 DEF OwnInv, Has
<1>8. TimeInv
  BY <1>1 DEF TimeInv
<1> QED BY <1>4, <1>5, <1>6, <1>7, <1>8 DEF SInv

LEMMA StutterKeeps ==
    ASSUME SInv, UNCHANGED vars
    PROVE  SInv'
<1>1. /\ UNCHANGED <<mess, queue, hand, slow, todo, object, idle, role, closed, over,
                    lockedMessages, purged, incoming>>
      /\ Ids' = Ids
  BY DEF vars, transport, calls, Ids
<1>2. Typed'
  BY <1>1 DEF SInv, Typed, MessType, QueueType, TodoType, SetsType, CallType
<1>3. KindsInv' /\ WaitInv' /\ TodoInv'
  BY <1>1 DEF SInv, KindsInv, WaitInv, TodoInv, Waits, OnWay, IsLocked
<1>4. LifeInv' /\ ShareInv'
  BY <1>1 DEF SInv, LifeInv, ShareInv, Waits, OnWay, InHands, IsLocked
<1>5. OwnInv'
  BY <1>1 DEF SInv, OwnInv, Has, Keeps
<1>6. TimeInv'
  <2>1. InHand' = InHand /\ Unsent' = Unsent
    BY <1>1 DEF InHand, Unsent
  <2>2. \A x : OnWay(x)' <=> OnWay(x)
    BY <1>1 DEF OnWay
  <2>3. \A d, x : Keeps(d, x)' <=> Keeps(d, x)
    BY <1>1 DEF Keeps
  <2>4. \A d : /\ Keeps(d, hand)' => Keeps(d, hand)
               /\ \A i : Keeps(d, queue["TRNSPRT"][i])' => Keeps(d, queue["TRNSPRT"][i])
               /\ \A i : Keeps(d, todo[i].on)' => Keeps(d, todo[i].on)
    BY <1>1 DEF Keeps
  <2> QED BY <1>1, <2>1, <2>2, <2>3, <2>4 DEF SInv, TimeInv
<1> QED BY <1>2, <1>3, <1>4, <1>5, <1>6 DEF SInv

LEMMA NextKeeps ==
    ASSUME SInv, [Next]_vars
    PROVE  SInv'
<1>1. CASE \E c \in Calls : listen(c)
  BY <1>1, ListenKeeps
<1>2. CASE \E c \in Calls : alarm(c)
  BY <1>2, AlarmKeeps
<1>3. CASE \E c \in Calls : purgeDOA(c)
  BY <1>3, PurgeDoaKeeps
<1>4. CASE ParseSipengine
  BY <1>4, ParseSipengineKeeps
<1>5. CASE ParseDao
  BY <1>5, ParseDaoKeeps
<1>6. CASE ParseSlcc
  BY <1>6, ParseSlccKeeps
<1>7. CASE Work
  BY <1>7, WorkKeeps
<1>8. CASE ParseTransport
  BY <1>8, ParseTransportKeeps
<1>9. CASE Sent
  BY <1>9, SentKeeps
<1>10. CASE Tick
  BY <1>10, TickKeeps
<1>11. CASE UNCHANGED vars
  BY <1>11, StutterKeeps
<1> QED BY <1>1, <1>2, <1>3, <1>4, <1>5, <1>6, <1>7, <1>8, <1>9, <1>10, <1>11 DEF Next

(* Every message is in exactly one part of its life: it waits in the queue *)
(* of a stage, is on its way out, is used by SL_CC, is locked by its call, *)
(* or is purged; and a call whose deletion is due has nothing on its way   *)
(* out any more (SIPENGINE, SL_CC, CALL_OSET, TRNSPRT, COMAP::purgeDOA).   *)
THEOREM Invariant == Spec => []SInv
<1>1. Init => SInv
  BY InitKeeps
<1>2. SInv /\ [Next]_vars => SInv'
  BY NextKeeps
<1> QED BY <1>1, <1>2, PTL DEF Spec

(* The variables keep their types: queues, pointers and lists of locked    *)
(* messages hold messages that were made, whatever the handlers keep.      *)
THEOREM TypeCorrect == Spec => []TypeOK
<1>1. SInv => TypeOK
  <2> SUFFICES ASSUME SInv
               PROVE  TypeOK
    OBVIOUS
  <2>1. Typed /\ MessType /\ QueueType /\ TodoType /\ SetsType /\ CallType
    BY DEF SInv, Typed
  <2>2. \A m \in Ids :
           mess[m].call \in Calls /\ mess[m].side \in Sides /\ mess[m].of \in 0 .. m
    <3>1. \A m \in Ids : /\ mess[m].call \in Calls /\ mess[m].side \in Sides
                         /\ mess[m].of \in Nat /\ mess[m].of <= m /\ m \in Nat
      BY <2>1, MessFacts DEF MessType
    <3> QED BY <3>1
  <2>3. DOMAIN queue = Stages /\ InQueue \subseteq Ids
    BY <2>1 DEF QueueType, InQueue
  <2> QED BY <2>1, <2>2, <2>3 DEF TypeOK, TodoType, SetsType, CallType
<1> QED BY <1>1, Invariant, PTL

(* Nothing is forgotten: every message the server makes or receives is     *)
(* purged, or a queue, a thread or a call still has it, except a REGISTER, *)
(* which SL_CC::parse leaves behind.                                       *)
THEOREM NothingIsLost == Spec => []NothingLost
<1>1. SInv => NothingLost
  <2> SUFFICES ASSUME SInv, NEW m \in Ids
               PROVE  \/ m \in purged \cup InQueue \cup {hand} \cup InTodo \cup Locked
                      \/ mess[m].kind = "REGISTER"
    BY DEF NothingLost
  <2>1. \/ m \in purged \/ Waits(m) \/ OnWay(m) \/ InHands(m) \/ IsLocked(m)
        \/ mess[m].kind = "REGISTER"
    BY DEF SInv, LifeInv
  <2>2. Waits(m) => m \in InQueue
    BY StageNames DEF Waits, InQueue
  <2>3. OnWay(m) => m \in InQueue \cup {hand}
    BY StageNames DEF OnWay, InQueue
  <2>4. InHands(m) => m \in InTodo
    BY DEF InHands, InTodo
  <2>5. IsLocked(m) => m \in Locked
    BY DEF IsLocked, Locked
  <2> QED BY <2>1, <2>2, <2>3, <2>4, <2>5
<1> QED BY <1>1, Invariant, PTL

(* Nobody has a message that was deleted, although TRNSPRT, SL_CC and the  *)
(* destructor of the call all delete messages: not a queue, not a thread,  *)
(* not the table of locked messages and not a pointer of a state machine,  *)
(* and no two pointers of a call lead to one message.                      *)
THEOREM NoMessageDangles == Spec => []NoDanglingPointer
<1>1. SInv => NoDanglingPointer
  <2> SUFFICES ASSUME SInv
               PROVE  NoDanglingPointer
    OBVIOUS
  <2>1. /\ purged \subseteq Ids /\ 0 \notin Ids
        /\ \A m \in purged : ~Waits(m) /\ ~OnWay(m) /\ ~InHands(m) /\ ~IsLocked(m)
    BY MessFacts DEF SInv, Typed, SetsType, LifeInv
  <2>2. \A m : m \in InQueue => Waits(m) \/ OnWay(m)
    BY StageNames DEF Waits, OnWay, InQueue
  <2>3. \A m : m \in InTodo => InHands(m)
    BY DEF InHands, InTodo
  <2>4. \A m : m \in Locked => IsLocked(m)
    BY DEF IsLocked, Locked
  <2>5. purged \cap (InQueue \cup {hand} \cup InTodo \cup Locked) = {}
    BY <2>1, <2>2, <2>3, <2>4 DEF OnWay
  <2>6. ASSUME NEW c \in Calls, NEW r \in Roles, Has(c, r)
        PROVE  /\ role[c][r] \notin purged
               /\ \A r2 \in DOMAIN role[c] \ {r} : role[c][r2] # role[c][r]
    <3>1. Keeps(c, role[c][r])
      BY <2>6 DEF SInv, OwnInv, Has
    <3>2. IsLocked(role[c][r]) \/ InHands(role[c][r])
      BY <3>1, KeptIsSomewhere
    <3>3. \A r2 \in DOMAIN role[c] \ {r} : role[c][r2] # role[c][r]
      BY <2>6 DEF SInv, OwnInv, Has
    <3> QED BY <2>1, <3>2, <3>3
  <2> QED BY <2>5, <2>6 DEF NoDanglingPointer
<1> QED BY <1>1, Invariant, PTL

=============================================================================
