---------------------------- MODULE Almgr_proofs ----------------------------
(***************************************************************************)
(* Theorems about Almgr, for any set of timers, any durations that do not  *)
(* shrink, and any bounds.                                                 *)
(***************************************************************************)
EXTENDS Almgr, TLAPS

\* The entry of a timer is an alarm of that timer.
EntryOfTimer == \A c \in DOMAIN cidmap : cidmap[c].cid = c

\* alarmer works with a time that has passed.
TimeHasPassed == curr <= now

(***************************************************************************)
(* The alarms of one timer have different fire times, and a later request  *)
(* has a later one: this is why the entry, which is the latest, is popped  *)
(* last.                                                                   *)
(***************************************************************************)
Sequenced ==
    /\ \A i, j \in 1 .. Len(sb) :
           /\ i < j
           /\ sb[i].cid = sb[j].cid
           /\ sb[i].time # 0
           /\ sb[j].time # 0
           => sb[i].time < sb[j].time
    /\ \A a \in pq, i \in 1 .. Len(sb) :
           a.cid = sb[i].cid /\ sb[i].time # 0 => a.time < sb[i].time
    /\ \A a, b \in pq : a.cid = b.cid /\ a.time = b.time => a = b

\* No request and no alarm is later than the last time its timer was armed.
Within(r) ==
    /\ arms[r.cid] > 0
    /\ r.time <= lastArm[r.cid] + Duration(r.cid, arms[r.cid] - 1)
NotLater ==
    /\ \A key \in Keys : arms[key] <= MaxArms
    /\ \A i \in 1 .. Len(sb) : sb[i].time # 0 => Within(sb[i])
    /\ \A a \in pq : Within(a)

\* A message is in one place once.
UniqueIds ==
    /\ \A i, j \in 1 .. Len(sb) : sb[i].id = sb[j].id => i = j
    /\ \A a, b \in pq : a.id = b.id => a = b

IInv ==
    /\ TypeOK
    /\ EntryOfEachAlarm
    /\ EntryOfTimer
    /\ TimeHasPassed
    /\ Sequenced
    /\ NotLater
    /\ UniqueIds
    /\ OneOwner

-----------------------------------------------------------------------------
(* Facts about queues.                                                     *)

LEMMA AppendFacts ==
    ASSUME NEW S, NEW s \in Seq(S), NEW e \in S
    PROVE  /\ Append(s, e) \in Seq(S)
           /\ Len(Append(s, e)) = Len(s) + 1
           /\ \A i \in 1 .. Len(s) : Append(s, e)[i] = s[i] /\ s[i] \in S
           /\ Append(s, e)[Len(s) + 1] = e
  OBVIOUS

LEMMA TailFacts ==
    ASSUME NEW S, NEW s \in Seq(S), s # <<>>
    PROVE  /\ Tail(s) \in Seq(S)
           /\ Len(s) \in Nat /\ Len(s) > 0 /\ Len(Tail(s)) = Len(s) - 1
           /\ \A i \in 1 .. Len(s) - 1 : Tail(s)[i] = s[i + 1] /\ s[i + 1] \in S
           /\ Head(s) = s[1] /\ s[1] \in S
  OBVIOUS

LEMMA DurationGrows ==
    ASSUME NEW key \in Keys, NEW k \in Nat, k > 0, k <= MaxArms
    PROVE  /\ Duration(key, k) \in Nat \ {0} /\ Duration(key, k - 1) \in Nat
           /\ Duration(key, k - 1) <= Duration(key, k)
<1>1. k \in 0 .. MaxArms /\ k - 1 \in 0 .. MaxArms /\ k - 1 \in 0 .. k
  BY AlmgrAssumption
<1> QED BY <1>1, AlmgrAssumption

LEMMA InitInv == Init => IInv
<1> SUFFICES ASSUME Init PROVE IInv
  OBVIOUS
<1> USE DEF Init
<1>1. sb \in Seq(Requests) /\ Len(sb) = 0 /\ DOMAIN cidmap = {} /\ DOMAIN sb = {}
  OBVIOUS
<1>2. TypeOK /\ EntryOfEachAlarm /\ EntryOfTimer /\ TimeHasPassed
  BY <1>1 DEF TypeOK, EntryOfEachAlarm, EntryOfTimer, TimeHasPassed
<1>3. Sequenced /\ NotLater /\ UniqueIds
  BY <1>1, AlmgrAssumption DEF Sequenced, NotLater, UniqueIds
<1>4. OneOwner
  BY <1>1 DEF OneOwner, InQueue, InHeap, Sent
<1> QED BY <1>2, <1>3, <1>4 DEF IInv

\* What is added to a queue, or taken from it, is added to its messages.
LEMMA QueueAdds ==
    ASSUME NEW r \in Requests, sb \in Seq(Requests), sb' = Append(sb, r)
    PROVE  InQueue' = InQueue \cup {r.id}
<1>1. DOMAIN sb = 1 .. Len(sb) /\ DOMAIN sb' = 1 .. Len(sb) + 1
  BY AppendFacts
<1>2. \A i \in 1 .. Len(sb) : sb'[i] = sb[i]
  BY AppendFacts
<1>3. sb'[Len(sb) + 1] = r /\ Len(sb) \in Nat
  BY AppendFacts
<1> QED BY <1>1, <1>2, <1>3 DEF InQueue

LEMMA QueueTakes ==
    ASSUME sb \in Seq(Requests), sb # <<>>, sb' = Tail(sb), UniqueIds
    PROVE  InQueue = InQueue' \cup {Head(sb).id} /\ Head(sb).id \notin InQueue'
<1>1. /\ DOMAIN sb = 1 .. Len(sb) /\ DOMAIN sb' = 1 .. Len(sb) - 1
      /\ Len(sb) \in Nat /\ Len(sb) > 0 /\ Head(sb) = sb[1]
  BY TailFacts
<1>2. \A i \in 1 .. Len(sb) - 1 : sb'[i] = sb[i + 1]
  BY TailFacts
<1>3. \A i \in 2 .. Len(sb) : i - 1 \in DOMAIN sb' /\ sb'[i - 1] = sb[i]
  BY <1>1, <1>2
<1>4. \A i \in DOMAIN sb : i = 1 \/ i \in 2 .. Len(sb)
  BY <1>1
<1>5. \A i \in DOMAIN sb' : i + 1 \in 1 .. Len(sb) /\ i + 1 # 1 /\ 1 \in 1 .. Len(sb)
  BY <1>1
<1>6. InQueue \subseteq InQueue' \cup {Head(sb).id}
  <2>1. \A i \in DOMAIN sb : i = 1 \/ sb[i].id \in InQueue'
    BY <1>3, <1>4 DEF InQueue
  <2> QED BY <1>1, <2>1 DEF InQueue
<1>7. InQueue' \cup {Head(sb).id} \subseteq InQueue
  <2>1. \A i \in DOMAIN sb' : i + 1 \in DOMAIN sb /\ sb'[i] = sb[i + 1]
    BY <1>1, <1>2, <1>5
  <2>2. 1 \in DOMAIN sb
    BY <1>1
  <2> QED BY <1>1, <2>1, <2>2 DEF InQueue
<1>8. \A i \in DOMAIN sb' : sb'[i].id # sb[1].id
  BY <1>1, <1>2, <1>5 DEF UniqueIds
<1>9. Head(sb).id \notin InQueue'
  BY <1>1, <1>8 DEF InQueue
<1> QED BY <1>6, <1>7, <1>9

-----------------------------------------------------------------------------
(* Each action preserves the invariant.                                    *)

\* A request for a timer is later than all the earlier ones.
LEMMA insertAlarmLater ==
    ASSUME IInv, NEW key \in Keys, arms[key] < MaxArms,
           NEW created \in lastArm[key] + 1 .. now,
           NEW r, Within(r), r.cid = key, r.time \in Nat
    PROVE  r.time < FireTime(key, created)
<1>1. /\ arms[key] \in Nat /\ arms[key] > 0 /\ lastArm[key] \in Nat /\ now \in Nat
      /\ MaxArms \in Nat /\ arms[key] <= MaxArms
  BY AlmgrAssumption DEF IInv, TypeOK, Within
<1>2. /\ Duration(key, arms[key]) \in Nat /\ Duration(key, arms[key] - 1) \in Nat
      /\ Duration(key, arms[key] - 1) <= Duration(key, arms[key])
  BY <1>1, DurationGrows
<1>3. r.time <= lastArm[key] + Duration(key, arms[key] - 1) /\ created > lastArm[key]
  BY <1>1 DEF Within
<1> QED BY <1>1, <1>2, <1>3 DEF FireTime

LEMMA insertAlarmInv ==
    ASSUME IInv, NEW key \in Keys, insertAlarm(key), ~inhibitAlarm, UNCHANGED inhibitAlarm
    PROVE  IInv'
<1> USE DEF IInv
<1>1. PICK created \in lastArm[key] + 1 .. now :
          /\ FireTime(key, created) <= MaxTime
          /\ sb' = Append(sb, [id |-> made + 1, cid |-> key,
                               time |-> FireTime(key, created)])
          /\ lastArm' = [lastArm EXCEPT ![key] = created]
  BY DEF insertAlarm, QueueInsert
<1> DEFINE r == [id |-> made + 1, cid |-> key, time |-> FireTime(key, created)]
<1>2. /\ made < MaxMessages /\ arms[key] < MaxArms
      /\ made' = made + 1
      /\ arms' = [arms EXCEPT ![key] = @ + 1]
      /\ UNCHANGED <<now, pq, cidmap, active, sent, purged, alarmer, curr>>
  BY DEF insertAlarm, QueueInsert, pass
<1>3. /\ arms[key] \in Nat /\ lastArm[key] \in Nat /\ now \in Nat /\ MaxArms \in Nat
      /\ created \in Nat /\ made \in Nat /\ MaxMessages \in Nat
  BY AlmgrAssumption DEF TypeOK
<1>4. Duration(key, arms[key]) \in Nat \ {0}
  BY <1>2, <1>3, AlmgrAssumption
<1>5. FireTime(key, created) \in Nat \ {0}
  BY <1>3, <1>4 DEF FireTime
<1>6. r \in Requests /\ sb \in Seq(Requests)
  BY <1>3, <1>5 DEF Requests, TypeOK
<1>7. /\ sb' \in Seq(Requests) /\ Len(sb') = Len(sb) + 1 /\ Len(sb) \in Nat
      /\ \A i \in 1 .. Len(sb) : sb'[i] = sb[i] /\ sb[i] \in Requests
      /\ sb'[Len(sb) + 1] = r
  BY <1>1, <1>6, AppendFacts
<1>8. TypeOK'
  BY <1>1, <1>2, <1>3, <1>7 DEF TypeOK
<1>9. EntryOfEachAlarm' /\ EntryOfTimer' /\ TimeHasPassed'
  BY <1>2 DEF EntryOfEachAlarm, EntryOfTimer, TimeHasPassed
<1>10. /\ arms'[key] = arms[key] + 1 /\ lastArm'[key] = created
       /\ \A k \in Keys \ {key} : arms'[k] = arms[k] /\ lastArm'[k] = lastArm[k]
  BY <1>1, <1>2 DEF TypeOK
<1>11. \A i \in 1 .. Len(sb) :
           sb[i].cid = key /\ sb[i].time # 0 => sb[i].time < r.time
  BY <1>2, <1>7, insertAlarmLater DEF NotLater, Requests
<1>12. \A a \in pq : a.cid = key => a.time < r.time
  BY <1>2, insertAlarmLater DEF NotLater, TypeOK, AlarmObjects
<1>13. \A i \in 1 .. Len(sb') : i \in 1 .. Len(sb) \/ i = Len(sb) + 1
  BY <1>7
<1>14. Sequenced'
  <2>1. \A i, j \in 1 .. Len(sb') :
            i < j /\ sb'[i].cid = sb'[j].cid /\ sb'[i].time # 0 /\ sb'[j].time # 0
            => sb'[i].time < sb'[j].time
    <3> SUFFICES ASSUME NEW i \in 1 .. Len(sb'), NEW j \in 1 .. Len(sb'), i < j,
                        sb'[i].cid = sb'[j].cid, sb'[i].time # 0, sb'[j].time # 0
                 PROVE  sb'[i].time < sb'[j].time
      OBVIOUS
    <3>1. i \in 1 .. Len(sb) /\ sb'[i] = sb[i]
      BY <1>7
    <3>2. CASE j \in 1 .. Len(sb)
      BY <3>1, <3>2, <1>7 DEF Sequenced
    <3>3. CASE j = Len(sb) + 1
      BY <3>1, <3>3, <1>7, <1>11
    <3> QED BY <1>13, <3>2, <3>3
  <2>2. \A a \in pq, i \in 1 .. Len(sb') :
            a.cid = sb'[i].cid /\ sb'[i].time # 0 => a.time < sb'[i].time
    BY <1>7, <1>12, <1>13 DEF Sequenced
  <2> QED BY <2>1, <2>2, <1>2 DEF Sequenced
<1>15. NotLater'
  <2>1. \A x : Within(x) /\ x.cid \in Keys \ {key} => Within(x)'
    BY <1>10 DEF Within
  <2>2. \A x : x.cid = key /\ x.time \in Nat /\ x.time <= r.time => Within(x)'
    BY <1>3, <1>4, <1>10 DEF Within, FireTime
  <2>3. \A k \in Keys : arms'[k] <= MaxArms
    BY <1>2, <1>3, <1>10 DEF NotLater
  <2>4. \A i \in 1 .. Len(sb) : \A x : x = sb[i] /\ x.time # 0 => Within(x)'
    <3> SUFFICES ASSUME NEW i \in 1 .. Len(sb), NEW x, x = sb[i], x.time # 0
                 PROVE  Within(x)'
      OBVIOUS
    <3>1. x.cid \in Keys /\ x.time \in Nat
      BY <1>7 DEF Requests
    <3>2. CASE x.cid = key
      <4>1. x.time <= r.time
        BY <1>5, <1>11, <3>1, <3>2
      <4> HIDE DEF r
      <4> QED BY <2>2, <3>1, <3>2, <4>1
    <3>3. CASE x.cid # key
      <4>1. Within(x)
        BY DEF NotLater
      <4> QED BY <2>1, <3>1, <3>3, <4>1
    <3> QED BY <3>2, <3>3
  <2>5. \A a \in pq : Within(a)'
    BY <1>5, <1>12, <2>1, <2>2 DEF NotLater, TypeOK, AlarmObjects
  <2>6. \A x : x = r => Within(x)'
    BY <1>5, <2>2
  <2> QED BY <1>2, <1>7, <1>13, <2>3, <2>4, <2>5, <2>6 DEF NotLater
<1>16. made + 1 \notin 1 .. made
  BY <1>3
<1>17. InQueue' = InQueue \cup {made + 1}
  BY <1>1, <1>6, QueueAdds
<1>18. UniqueIds'
  <2>1. \A i \in 1 .. Len(sb) : sb[i].id \in InQueue
    BY <1>6, <1>7 DEF InQueue
  <2>2. \A i \in 1 .. Len(sb) : sb[i].id # made + 1
    BY <1>16, <2>1 DEF OneOwner
  <2> QED BY <1>2, <1>7, <1>13, <2>2 DEF UniqueIds
<1>19. OneOwner'
  <2>1. 1 .. made + 1 = (1 .. made) \cup {made + 1}
    BY <1>3
  <2>2. InHeap' = InHeap /\ Sent' = Sent /\ purged' = purged
    BY <1>2 DEF InHeap, Sent
  <2> QED BY <1>2, <1>16, <1>17, <2>1, <2>2 DEF OneOwner
<1> QED BY <1>8, <1>9, <1>14, <1>15, <1>18, <1>19

LEMMA cancelAlarmInv ==
    ASSUME IInv, NEW key \in Keys, cancelAlarm(key), ~inhibitAlarm, UNCHANGED inhibitAlarm
    PROVE  IInv'
<1> USE DEF IInv
<1> DEFINE r == [id |-> made + 1, cid |-> key, time |-> 0]
<1>1. /\ made < MaxMessages /\ made \in Nat /\ MaxMessages \in Nat
      /\ sb' = Append(sb, r)
      /\ made' = made + 1
      /\ UNCHANGED <<now, pq, cidmap, active, sent, purged, alarmer, curr, arms, lastArm>>
  BY AlmgrAssumption DEF cancelAlarm, QueueCancel, pass, TypeOK
<1>2. r \in Requests /\ sb \in Seq(Requests)
  BY <1>1 DEF Requests, TypeOK
<1>3. /\ sb' \in Seq(Requests) /\ Len(sb') = Len(sb) + 1 /\ Len(sb) \in Nat
      /\ \A i \in 1 .. Len(sb) : sb'[i] = sb[i] /\ sb[i] \in Requests
      /\ sb'[Len(sb) + 1] = r
  BY <1>1, <1>2, AppendFacts
<1>4. TypeOK'
  BY <1>1, <1>3 DEF TypeOK
<1>5. EntryOfEachAlarm' /\ EntryOfTimer' /\ TimeHasPassed'
  BY <1>1 DEF EntryOfEachAlarm, EntryOfTimer, TimeHasPassed
<1>6. \A i \in 1 .. Len(sb') :
          \/ i \in 1 .. Len(sb) /\ sb'[i] = sb[i]
          \/ i = Len(sb) + 1 /\ sb'[i] = r
  <2>1. \A i \in 1 .. Len(sb') : i \in 1 .. Len(sb) \/ i = Len(sb) + 1
    BY <1>3
  <2> QED BY <1>3, <2>1
<1>7. \A i \in 1 .. Len(sb') : sb'[i].time # 0 => i \in 1 .. Len(sb) /\ sb'[i] = sb[i]
  BY <1>6
<1>8. Sequenced'
  <2>1. \A i, j \in 1 .. Len(sb') :
            i < j /\ sb'[i].cid = sb'[j].cid /\ sb'[i].time # 0 /\ sb'[j].time # 0
            => sb'[i].time < sb'[j].time
    BY <1>7 DEF Sequenced
  <2>2. \A a \in pq, i \in 1 .. Len(sb') :
            a.cid = sb'[i].cid /\ sb'[i].time # 0 => a.time < sb'[i].time
    BY <1>7 DEF Sequenced
  <2> QED BY <1>1, <2>1, <2>2 DEF Sequenced
<1>9. NotLater'
  <2>1. \A x : Within(x) => Within(x)'
    BY <1>1 DEF Within
  <2> QED BY <1>1, <1>7, <2>1 DEF NotLater
<1>10. made + 1 \notin 1 .. made
  BY <1>1
<1>11. InQueue' = InQueue \cup {made + 1}
  BY <1>1, <1>2, QueueAdds
<1>12. UniqueIds'
  <2>1. \A i \in 1 .. Len(sb) : sb[i].id \in InQueue
    BY <1>2, <1>3 DEF InQueue
  <2>2. \A i \in 1 .. Len(sb) : sb[i].id # made + 1
    BY <1>10, <2>1 DEF OneOwner
  <2> QED BY <1>1, <1>3, <1>6, <2>2 DEF UniqueIds
<1>13. OneOwner'
  <2>1. 1 .. made + 1 = (1 .. made) \cup {made + 1}
    BY <1>1
  <2>2. InHeap' = InHeap /\ Sent' = Sent /\ purged' = purged
    BY <1>1 DEF InHeap, Sent
  <2> QED BY <1>1, <1>10, <1>11, <2>1, <2>2 DEF OneOwner
<1> QED BY <1>4, <1>5, <1>8, <1>9, <1>12, <1>13

\* Without alarms the message of a request is purged where it is made.
LEMMA PurgeRequestInv ==
    ASSUME IInv, PurgeRequest, UNCHANGED inhibitAlarm
    PROVE  IInv'
<1> USE DEF IInv
<1>1. /\ made \in Nat /\ made' = made + 1 /\ purged' = purged \cup {made + 1}
      /\ UNCHANGED <<now, sb, pq, cidmap, active, sent, alarmer, curr, arms, lastArm>>
  BY DEF PurgeRequest, pass, TypeOK
<1>2. TypeOK'
  BY <1>1 DEF TypeOK
<1>3. EntryOfEachAlarm' /\ EntryOfTimer' /\ TimeHasPassed'
  BY <1>1 DEF EntryOfEachAlarm, EntryOfTimer, TimeHasPassed
<1>4. Sequenced' /\ UniqueIds'
  BY <1>1 DEF Sequenced, UniqueIds
<1>5. NotLater'
  BY <1>1 DEF NotLater, Within
<1>6. OneOwner'
  <2>1. 1 .. made + 1 = (1 .. made) \cup {made + 1} /\ made + 1 \notin 1 .. made
    BY <1>1
  <2>2. InQueue' = InQueue /\ InHeap' = InHeap /\ Sent' = Sent
    BY <1>1 DEF InQueue, InHeap, Sent
  <2> QED BY <1>1, <2>1, <2>2 DEF OneOwner
<1> QED BY <1>2, <1>3, <1>4, <1>5, <1>6

\* What is left when the first request is taken.
LEMMA QueueAfterTail ==
    ASSUME IInv, sb # <<>>, sb' = Tail(sb),
           UNCHANGED <<arms, lastArm>>
    PROVE  /\ sb' \in Seq(Requests) /\ Head(sb) = sb[1] /\ Head(sb) \in Requests
           /\ 1 \in 1 .. Len(sb)
           /\ \A i \in 1 .. Len(sb') : i + 1 \in 1 .. Len(sb) /\ 1 < i + 1
                                      /\ sb'[i] = sb[i + 1]
           /\ \A i, j \in 1 .. Len(sb') : i < j => i + 1 < j + 1
           /\ \A i, j \in 1 .. Len(sb') : i + 1 = j + 1 => i = j
           /\ \A x : Within(x) => Within(x)'
           /\ InQueue = InQueue' \cup {Head(sb).id} /\ Head(sb).id \notin InQueue'
<1>1. sb \in Seq(Requests)
  BY DEF IInv, TypeOK
<1>2. /\ sb' \in Seq(Requests) /\ Len(sb) \in Nat /\ Len(sb) > 0 /\ Len(sb') = Len(sb) - 1
      /\ \A i \in 1 .. Len(sb) - 1 : sb'[i] = sb[i + 1]
      /\ Head(sb) = sb[1] /\ sb[1] \in Requests
  BY <1>1, TailFacts
<1>3. \A x : Within(x) => Within(x)'
  BY DEF Within
<1>4. InQueue = InQueue' \cup {Head(sb).id} /\ Head(sb).id \notin InQueue'
  BY <1>1, QueueTakes DEF IInv
<1> QED BY <1>2, <1>3, <1>4

LEMMA ParseCancelInv ==
    ASSUME IInv, ParseCancel, UNCHANGED inhibitAlarm
    PROVE  IInv'
<1> USE DEF IInv
<1> DEFINE m == Head(sb)
<1>1. /\ sb # <<>> /\ sb' = Tail(sb) /\ m.time = 0
      /\ active' = active \ {cidmap[c] : c \in DOMAIN cidmap \cap {m.cid}}
      /\ purged' = purged \cup {m.id}
      /\ UNCHANGED <<now, pq, cidmap, sent, alarmer, curr, made, arms, lastArm>>
  BY DEF ParseCancel, internalCancelAlarm, pass, callers
<1>2. /\ sb' \in Seq(Requests) /\ m = sb[1] /\ m \in Requests
      /\ 1 \in 1 .. Len(sb)
      /\ \A i \in 1 .. Len(sb') : i + 1 \in 1 .. Len(sb) /\ 1 < i + 1
                                 /\ sb'[i] = sb[i + 1]
      /\ \A i, j \in 1 .. Len(sb') : i < j => i + 1 < j + 1
      /\ \A i, j \in 1 .. Len(sb') : i + 1 = j + 1 => i = j
      /\ \A x : Within(x) => Within(x)'
      /\ InQueue = InQueue' \cup {m.id} /\ m.id \notin InQueue'
  BY <1>1, QueueAfterTail
<1>3. TypeOK'
  BY <1>1, <1>2 DEF TypeOK, Requests
<1>4. EntryOfEachAlarm' /\ EntryOfTimer' /\ TimeHasPassed'
  BY <1>1 DEF EntryOfEachAlarm, EntryOfTimer, TimeHasPassed
<1>5. Sequenced'
  BY <1>1, <1>2 DEF Sequenced
<1>6. NotLater'
  BY <1>1, <1>2 DEF NotLater
<1>7. UniqueIds'
  BY <1>1, <1>2 DEF UniqueIds
<1>8. OneOwner'
  <2>1. InHeap' = InHeap /\ Sent' = Sent /\ made' = made
    BY <1>1 DEF InHeap, Sent
  <2> QED BY <1>1, <1>2, <2>1 DEF OneOwner
<1> QED BY <1>3, <1>4, <1>5, <1>6, <1>7, <1>8

LEMMA ParseInsertInv ==
    ASSUME IInv, ParseInsert, UNCHANGED inhibitAlarm
    PROVE  IInv'
<1> USE DEF IInv
<1> DEFINE m == Head(sb)
<1>1. /\ sb # <<>> /\ sb' = Tail(sb) /\ m.time # 0
      /\ pq' = pq \cup {m}
      /\ active' = (active \ {cidmap[c] : c \in DOMAIN cidmap \cap {m.cid}}) \cup {m}
      /\ cidmap' = [c \in DOMAIN cidmap \cup {m.cid} |->
                        IF c = m.cid THEN m ELSE cidmap[c]]
      /\ UNCHANGED <<now, sent, purged, alarmer, curr, made, arms, lastArm>>
  BY DEF ParseInsert, insertAlarmPrivate, pass, callers
<1>2. /\ sb' \in Seq(Requests) /\ m = sb[1] /\ m \in Requests
      /\ 1 \in 1 .. Len(sb)
      /\ \A i \in 1 .. Len(sb') : i + 1 \in 1 .. Len(sb) /\ 1 < i + 1
                                 /\ sb'[i] = sb[i + 1]
      /\ \A i, j \in 1 .. Len(sb') : i < j => i + 1 < j + 1
      /\ \A i, j \in 1 .. Len(sb') : i + 1 = j + 1 => i = j
      /\ \A x : Within(x) => Within(x)'
      /\ InQueue = InQueue' \cup {m.id} /\ m.id \notin InQueue'
  BY <1>1, QueueAfterTail
<1>3. m \in AlarmObjects /\ m.cid \in Keys /\ m.time \in Nat
  BY <1>1, <1>2 DEF Requests, AlarmObjects
<1>4. /\ DOMAIN cidmap' = DOMAIN cidmap \cup {m.cid}
      /\ cidmap'[m.cid] = m
      /\ \A c \in DOMAIN cidmap \ {m.cid} : cidmap'[c] = cidmap[c]
  BY <1>1
<1>5. \A a \in pq : a.cid = m.cid => a.time < m.time
  BY <1>1, <1>2 DEF Sequenced
<1>6. TypeOK'
  BY <1>1, <1>2, <1>3, <1>4 DEF TypeOK
<1>7. EntryOfTimer' /\ TimeHasPassed'
  BY <1>1, <1>4 DEF EntryOfTimer, TimeHasPassed
<1>8. EntryOfEachAlarm'
  <2> SUFFICES ASSUME NEW a \in pq'
               PROVE  /\ a.cid \in DOMAIN cidmap'
                      /\ a.time <= cidmap'[a.cid].time /\ cidmap'[a.cid].cid = a.cid
                      /\ a \in active' => cidmap'[a.cid] = a
    BY DEF EntryOfEachAlarm
  <2>1. CASE a = m
    BY <2>1, <1>3, <1>4
  <2>2. CASE a \in pq /\ a.cid # m.cid
    <3>1. a # m
      BY <2>2
    <3> QED BY <3>1, <2>2, <1>1, <1>4 DEF EntryOfEachAlarm
  <2>3. CASE a \in pq /\ a.cid = m.cid
    <3>1. a.time < m.time /\ a.time \in Nat
      BY <1>5, <2>3 DEF TypeOK, AlarmObjects
    <3>2. a # m
      BY <3>1, <1>3
    <3>3. a \in active => cidmap[m.cid] = a /\ m.cid \in DOMAIN cidmap
      BY <2>3 DEF EntryOfEachAlarm
    <3>4. a \notin active'
      BY <1>1, <3>2, <3>3
    <3> QED BY <3>1, <3>4, <2>3, <1>3, <1>4
  <2> QED BY <2>1, <2>2, <2>3, <1>1
<1>9. Sequenced'
  <2>1. \A i, j \in 1 .. Len(sb') :
            i < j /\ sb'[i].cid = sb'[j].cid /\ sb'[i].time # 0 /\ sb'[j].time # 0
            => sb'[i].time < sb'[j].time
    <3> SUFFICES ASSUME NEW i \in 1 .. Len(sb'), NEW j \in 1 .. Len(sb'), i < j,
                        sb'[i].cid = sb'[j].cid, sb'[i].time # 0, sb'[j].time # 0
                 PROVE  sb'[i].time < sb'[j].time
      OBVIOUS
    <3>1. /\ sb'[i] = sb[i + 1] /\ sb'[j] = sb[j + 1] /\ i + 1 < j + 1
          /\ i + 1 \in 1 .. Len(sb) /\ j + 1 \in 1 .. Len(sb)
      BY <1>2
    <3> QED BY <3>1 DEF Sequenced
  <2>2. \A a \in pq, i \in 1 .. Len(sb') :
            a.cid = sb'[i].cid /\ sb'[i].time # 0 => a.time < sb'[i].time
    BY <1>2 DEF Sequenced
  <2>3. \A i \in 1 .. Len(sb') :
            m.cid = sb'[i].cid /\ sb'[i].time # 0 => m.time < sb'[i].time
    BY <1>1, <1>2 DEF Sequenced
  <2>4. \A a \in pq : a.cid = m.cid => a.time # m.time
    BY <1>3, <1>5 DEF TypeOK, AlarmObjects
  <2>5. \A a, b \in pq' : a.cid = b.cid /\ a.time = b.time => a = b
    BY <1>1, <2>4 DEF Sequenced
  <2> QED BY <1>1, <2>1, <2>2, <2>3, <2>5 DEF Sequenced
<1>10. NotLater'
  BY <1>1, <1>2 DEF NotLater
<1>11. m.id \notin InHeap
  <2>1. m.id \in InQueue
    BY <1>2
  <2> QED BY <2>1 DEF OneOwner
<1>12. UniqueIds'
  <2>1. \A a \in pq : a.id # m.id
    BY <1>11 DEF InHeap
  <2> QED BY <1>1, <1>2, <2>1 DEF UniqueIds
<1>13. OneOwner'
  <2>1. InHeap' = InHeap \cup {m.id} /\ Sent' = Sent /\ made' = made /\ purged' = purged
    BY <1>1 DEF InHeap, Sent
  <2> QED BY <1>2, <1>11, <2>1 DEF OneOwner
<1> QED BY <1>6, <1>7, <1>8, <1>9, <1>10, <1>12, <1>13

\* The alarm on top whose timer has it as entry is the last one of its timer.
LEMMA LastOfTimer ==
    ASSUME IInv, NEW a, Top(a), cidmap[a.cid] = a
    PROVE  \A b \in pq : b.cid = a.cid => b = a
<1> SUFFICES ASSUME NEW b \in pq, b.cid = a.cid PROVE b = a
  OBVIOUS
<1>1. a \in pq /\ a.time <= b.time
  BY DEF Top
<1>2. b.time <= a.time
  BY DEF IInv, EntryOfEachAlarm
<1>3. a.time \in Nat /\ b.time \in Nat
  BY <1>1 DEF IInv, TypeOK, AlarmObjects
<1> QED BY <1>1, <1>2, <1>3 DEF IInv, Sequenced

\* What both branches of alarmer leave in order when they pop an alarm.
LEMMA PopInv ==
    ASSUME IInv, NEW a, Top(a),
           pq' = pq \ {a}, active' = active \ {a},
           cidmap' = IF cidmap[a.cid] = a THEN Erase(a.cid) ELSE cidmap,
           UNCHANGED <<now, sb, alarmer, curr, made, arms, lastArm>>
    PROVE  /\ EntryOfEachAlarm' /\ EntryOfTimer' /\ TimeHasPassed'
           /\ Sequenced' /\ NotLater' /\ UniqueIds'
           /\ a \in AlarmObjects /\ active' \subseteq pq' /\ pq' \subseteq AlarmObjects
           /\ DOMAIN cidmap' \subseteq Keys /\ \A c \in DOMAIN cidmap' : cidmap'[c] \in pq'
           /\ InQueue' = InQueue /\ InHeap = InHeap' \cup {a.id} /\ a.id \notin InHeap'
<1> USE DEF IInv
<1>1. a \in pq /\ a \in AlarmObjects
  BY DEF Top, TypeOK
<1>2. /\ DOMAIN cidmap' \subseteq DOMAIN cidmap
      /\ \A c \in DOMAIN cidmap' : cidmap'[c] = cidmap[c] /\ cidmap[c] # a
      /\ \A b \in pq' : b.cid \in DOMAIN cidmap => b.cid \in DOMAIN cidmap'
  <2>1. CASE cidmap[a.cid] = a
    <3>1. cidmap' = [c \in DOMAIN cidmap \ {a.cid} |-> cidmap[c]]
      BY <2>1 DEF Erase
    <3>2. \A c \in DOMAIN cidmap \ {a.cid} : cidmap[c] # a
      BY DEF EntryOfTimer
    <3>3. \A b \in pq' : b.cid # a.cid
      BY <2>1, LastOfTimer
    <3> QED BY <3>1, <3>2, <3>3
  <2>2. CASE cidmap[a.cid] # a
    <3>1. cidmap' = cidmap
      BY <2>2
    <3>2. \A c \in DOMAIN cidmap : cidmap[c] # a
      BY <2>2 DEF EntryOfTimer
    <3> QED BY <3>1, <3>2
  <2> QED BY <2>1, <2>2
<1>3. EntryOfTimer' /\ TimeHasPassed'
  BY <1>2 DEF EntryOfTimer, TimeHasPassed
<1>4. EntryOfEachAlarm'
  BY <1>2 DEF EntryOfEachAlarm
<1>5. Sequenced'
  BY DEF Sequenced
<1>6. NotLater'
  <2>1. \A x : Within(x) => Within(x)'
    BY DEF Within
  <2> QED BY <2>1 DEF NotLater
<1>7. UniqueIds'
  BY DEF UniqueIds
<1>8. InQueue' = InQueue
  BY DEF InQueue
<1>9. InHeap = InHeap' \cup {a.id} /\ a.id \notin InHeap'
  BY <1>1 DEF InHeap, UniqueIds
<1>10. /\ active' \subseteq pq' /\ pq' \subseteq AlarmObjects
       /\ DOMAIN cidmap' \subseteq Keys /\ \A c \in DOMAIN cidmap' : cidmap'[c] \in pq'
  BY <1>2 DEF TypeOK
<1> QED BY <1>1, <1>3, <1>4, <1>5, <1>6, <1>7, <1>8, <1>9, <1>10

LEMMA FireInv ==
    ASSUME IInv, NEW a \in pq, Fire(a), UNCHANGED inhibitAlarm
    PROVE  IInv'
<1> USE DEF IInv
<1>1. /\ Top(a) /\ a \in active /\ cidmap[a.cid] = a
      /\ sent' = sent \cup {a}
      /\ cidmap' = Erase(a.cid) /\ active' = active \ {a} /\ pq' = pq \ {a}
      /\ UNCHANGED <<now, sb, purged, alarmer, curr, made, arms, lastArm>>
  BY DEF Fire, Due, EntryOfEachAlarm, pass, callers
<1>2. /\ EntryOfEachAlarm' /\ EntryOfTimer' /\ TimeHasPassed'
      /\ Sequenced' /\ NotLater' /\ UniqueIds'
      /\ a \in AlarmObjects /\ active' \subseteq pq' /\ pq' \subseteq AlarmObjects
      /\ DOMAIN cidmap' \subseteq Keys /\ \A c \in DOMAIN cidmap' : cidmap'[c] \in pq'
      /\ InQueue' = InQueue /\ InHeap = InHeap' \cup {a.id} /\ a.id \notin InHeap'
  BY <1>1, PopInv
<1>3. TypeOK'
  BY <1>1, <1>2 DEF TypeOK
<1>4. Sent' = Sent \cup {a.id} /\ purged' = purged /\ made' = made
  BY <1>1 DEF Sent
<1>5. OneOwner'
  BY <1>2, <1>4 DEF OneOwner
<1> QED BY <1>2, <1>3, <1>5

LEMMA DropInv ==
    ASSUME IInv, NEW a \in pq, Drop(a), UNCHANGED inhibitAlarm
    PROVE  IInv'
<1> USE DEF IInv
<1>1. /\ Top(a) /\ a \notin active
      /\ cidmap' = IF cidmap[a.cid] = a THEN Erase(a.cid) ELSE cidmap
      /\ purged' = purged \cup {a.id}
      /\ active' = active \ {a} /\ pq' = pq \ {a}
      /\ UNCHANGED <<now, sb, sent, alarmer, curr, made, arms, lastArm>>
  BY DEF Drop, Due, pass, callers
<1>2. /\ EntryOfEachAlarm' /\ EntryOfTimer' /\ TimeHasPassed'
      /\ Sequenced' /\ NotLater' /\ UniqueIds'
      /\ a \in AlarmObjects /\ active' \subseteq pq' /\ pq' \subseteq AlarmObjects
      /\ DOMAIN cidmap' \subseteq Keys /\ \A c \in DOMAIN cidmap' : cidmap'[c] \in pq'
      /\ InQueue' = InQueue /\ InHeap = InHeap' \cup {a.id} /\ a.id \notin InHeap'
  BY <1>1, PopInv
<1>3. TypeOK'
  BY <1>1, <1>2 DEF TypeOK, AlarmObjects
<1>4. Sent' = Sent /\ purged' = purged \cup {a.id} /\ made' = made
  BY <1>1 DEF Sent
<1>5. OneOwner'
  BY <1>2, <1>4 DEF OneOwner
<1> QED BY <1>2, <1>3, <1>5

\* Wake, Lock, Unlock, Tick and stuttering leave the queue, the heap and the
\* messages alone.
LEMMA ClockInv ==
    ASSUME IInv,
           UNCHANGED <<inhibitAlarm, sb, pq, cidmap, active, sent, purged>>,
           UNCHANGED <<made, arms, lastArm>>,
           now' \in Nat, curr' \in Nat, curr' <= now',
           alarmer' \in {"sleep", "wants", "pass"}
    PROVE  IInv'
<1> USE DEF IInv
<1>1. TypeOK'
  BY DEF TypeOK
<1>2. EntryOfEachAlarm' /\ EntryOfTimer' /\ TimeHasPassed'
  BY DEF EntryOfEachAlarm, EntryOfTimer, TimeHasPassed
<1>3. Sequenced' /\ UniqueIds'
  BY DEF Sequenced, UniqueIds
<1>4. NotLater'
  BY DEF NotLater, Within
<1>5. OneOwner'
  BY DEF OneOwner, InQueue, InHeap, Sent
<1> QED BY <1>1, <1>2, <1>3, <1>4, <1>5

LEMMA NextInv == IInv /\ [Next]_vars => IInv'
<1> SUFFICES ASSUME IInv, [Next]_vars PROVE IInv'
  OBVIOUS
<1>0. /\ now \in Nat /\ curr \in Nat /\ curr <= now
      /\ alarmer \in {"sleep", "wants", "pass"}
  BY DEF IInv, TypeOK, TimeHasPassed
<1> SUFFICES ASSUME UNCHANGED inhibitAlarm PROVE IInv'
  BY DEF Next, vars
<1>1. ASSUME NEW key \in Keys, insertAlarm(key) PROVE IInv'
  BY <1>1, insertAlarmInv, PurgeRequestInv DEF insertAlarm
<1>2. ASSUME NEW key \in Keys, cancelAlarm(key) PROVE IInv'
  BY <1>2, cancelAlarmInv, PurgeRequestInv DEF cancelAlarm
<1>3. CASE ParseCancel
  BY <1>3, ParseCancelInv
<1>4. CASE ParseInsert
  BY <1>4, ParseInsertInv
<1>5. CASE Wake
  BY <1>5, <1>0, ClockInv DEF Wake, callers
<1>6. CASE Lock
  BY <1>6, <1>0, ClockInv DEF Lock, callers
<1>7. CASE Unlock
  BY <1>7, <1>0, ClockInv DEF Unlock, callers
<1>8. ASSUME NEW a \in pq, Fire(a) PROVE IInv'
  BY <1>8, FireInv
<1>9. ASSUME NEW a \in pq, Drop(a) PROVE IInv'
  BY <1>9, DropInv
<1>10. CASE Tick
  <2>1. now' = now + 1 /\ curr' = curr /\ alarmer' = alarmer
    BY <1>10 DEF Tick, pass
  <2>2. now' \in Nat /\ curr' \in Nat /\ curr' <= now'
    BY <1>0, <2>1
  <2> QED BY <1>10, <1>0, <2>1, <2>2, ClockInv DEF Tick, callers
<1>11. CASE UNCHANGED vars
  BY <1>11, <1>0, ClockInv DEF vars
<1> QED BY <1>1, <1>2, <1>3, <1>4, <1>5, <1>6, <1>7, <1>8, <1>9, <1>10, <1>11
        DEF Next, Step, Parse, Alarmer

-----------------------------------------------------------------------------
(* The theorems.                                                           *)

THEOREM InductiveInvariant == Spec => []IInv
<1>1. Init => IInv
  BY InitInv
<1>2. IInv /\ [Next]_vars => IInv'
  BY NextInv
<1> QED BY <1>1, <1>2, PTL DEF Spec

\* The variables have their types.
THEOREM TypeCorrect == Spec => []TypeOK
<1>1. IInv => TypeOK
  BY DEF IInv
<1> QED BY <1>1, InductiveInvariant, PTL

\* What alarmer looks up in cidmap without a test is there, however often a
\* timer is armed again or cancelled (ALARM.cpp, the else branch of alarmer).
THEOREM EntryIsFound == Spec => []EntryOfEachAlarm
<1>1. IInv => EntryOfEachAlarm
  BY DEF IInv
<1> QED BY <1>1, InductiveInvariant, PTL

\* ALMGR neither loses a message nor releases it twice.
THEOREM MessageHasOneOwner == Spec => []OneOwner
<1>1. IInv => OneOwner
  BY DEF IInv
<1> QED BY <1>1, InductiveInvariant, PTL

-----------------------------------------------------------------------------
(* The refinement of AlarmService.                                         *)

\* What the bounds of Almgr's actions add: the requests are of Ids and Times.
Inv == IInv /\ made <= MaxMessages

armedOf == [cid \in {c \in DOMAIN cidmap : cidmap[c] \in active} |-> cidmap[cid]]

LEMMA InvHolds == Spec => []Inv
<1>1. Init => made <= MaxMessages
  BY AlmgrAssumption DEF Init
<1>2. IInv /\ made <= MaxMessages /\ [Next]_vars => (made <= MaxMessages)'
  <2> SUFFICES ASSUME IInv, made <= MaxMessages, [Next]_vars PROVE made' <= MaxMessages
    OBVIOUS
  <2>1. made \in Nat /\ MaxMessages \in Nat
    BY AlmgrAssumption DEF IInv, TypeOK
  <2>2. made' = made \/ (made < MaxMessages /\ made' = made + 1)
    BY DEF Next, Step, vars, Parse, Alarmer, insertAlarm, cancelAlarm, QueueInsert,
           QueueCancel, PurgeRequest, ParseCancel, ParseInsert, Wake, Lock, Unlock, Fire, Drop, Tick, callers
  <2> QED BY <2>1, <2>2
<1> QED BY <1>1, <1>2, InitInv, NextInv, PTL DEF Spec, Inv

\* A step that leaves these alone is a stutter of the service.
LEMMA Stutter ==
    ASSUME UNCHANGED <<now, sb, sent>>, armedOf' = armedOf
    PROVE  UNCHANGED Service!vars
  BY DEF Service!vars, armedOf

LEMMA InsertIsRequest ==
    ASSUME Inv, NEW key \in Keys, insertAlarm(key), ~inhibitAlarm
    PROVE  Service!Request
<1>1. PICK created \in lastArm[key] + 1 .. now :
          /\ FireTime(key, created) <= MaxTime
          /\ sb' = Append(sb, [id |-> made + 1, cid |-> key,
                               time |-> FireTime(key, created)])
  BY DEF insertAlarm, QueueInsert
<1> DEFINE r == [id |-> made + 1, cid |-> key, time |-> FireTime(key, created)]
<1>2. /\ arms[key] \in Nat /\ arms[key] < MaxArms /\ lastArm[key] \in Nat /\ now \in Nat
      /\ made \in Nat /\ made < MaxMessages /\ MaxMessages \in Nat /\ MaxTime \in Nat
      /\ MaxArms \in Nat /\ created \in Nat
  BY AlmgrAssumption DEF Inv, IInv, TypeOK, insertAlarm
<1>3. Duration(key, arms[key]) \in Nat
  BY <1>2, AlmgrAssumption
<1>4. FireTime(key, created) \in 0 .. MaxTime /\ made + 1 \in 1 .. MaxMessages
  BY <1>1, <1>2, <1>3 DEF FireTime
<1>5. r \in [id : 1 .. MaxMessages, cid : Keys, time : 0 .. MaxTime]
  BY <1>4
<1>6. UNCHANGED <<now, sent>> /\ cidmap' = cidmap /\ active' = active
  BY DEF insertAlarm, QueueInsert
<1> QED BY <1>1, <1>5, <1>6 DEF Service!Request

LEMMA CancelIsRequest ==
    ASSUME Inv, NEW key \in Keys, cancelAlarm(key), ~inhibitAlarm
    PROVE  Service!Request
<1> DEFINE r == [id |-> made + 1, cid |-> key, time |-> 0]
<1>1. /\ made \in Nat /\ made < MaxMessages /\ MaxMessages \in Nat /\ MaxTime \in Nat
      /\ sb' = Append(sb, r)
      /\ UNCHANGED <<now, sent>> /\ cidmap' = cidmap /\ active' = active
  BY AlmgrAssumption DEF Inv, IInv, TypeOK, cancelAlarm, QueueCancel
<1>2. r \in [id : 1 .. MaxMessages, cid : Keys, time : 0 .. MaxTime]
  BY <1>1
<1> QED BY <1>1, <1>2 DEF Service!Request

LEMMA ParseCancelIsCancel ==
    ASSUME Inv, ParseCancel
    PROVE  Service!Cancel
<1> DEFINE m == Head(sb)
<1>1. /\ sb # <<>> /\ m.time = 0 /\ sb' = Tail(sb)
      /\ active' = active \ {cidmap[c] : c \in DOMAIN cidmap \cap {m.cid}}
      /\ UNCHANGED <<now, cidmap, sent>>
  BY DEF ParseCancel, internalCancelAlarm
<1>2. {c \in DOMAIN cidmap : cidmap[c] \in active'}
          = {c \in DOMAIN cidmap : cidmap[c] \in active} \ {m.cid}
  BY <1>1 DEF Inv, IInv, EntryOfTimer
<1>3. armedOf' = Service!Without(armedOf, m.cid)
  BY <1>1, <1>2 DEF armedOf, Service!Without
<1> QED BY <1>1, <1>3 DEF Service!Cancel, armedOf

LEMMA ParseInsertIsArm ==
    ASSUME Inv, ParseInsert
    PROVE  Service!Arm
<1> DEFINE m == Head(sb)
<1>1. /\ sb # <<>> /\ m.time # 0 /\ sb' = Tail(sb)
      /\ active' = (active \ {cidmap[c] : c \in DOMAIN cidmap \cap {m.cid}}) \cup {m}
      /\ cidmap' = [c \in DOMAIN cidmap \cup {m.cid} |->
                        IF c = m.cid THEN m ELSE cidmap[c]]
      /\ UNCHANGED <<now, sent>>
  BY DEF ParseInsert, insertAlarmPrivate
<1>2. \A c \in DOMAIN cidmap : cidmap[c].cid = c
  BY DEF Inv, IInv, EntryOfTimer
<1>3. DOMAIN armedOf = {c \in DOMAIN cidmap : cidmap[c] \in active}
  BY DEF armedOf
<1>4. {c \in DOMAIN cidmap' : cidmap'[c] \in active'} = DOMAIN armedOf \cup {m.cid}
  BY <1>1, <1>2, <1>3
<1>5. armedOf' = [c \in DOMAIN armedOf \cup {m.cid} |-> cidmap'[c]]
  BY <1>4 DEF armedOf
<1>6. \A c \in DOMAIN armedOf \cup {m.cid} :
          cidmap'[c] = IF c = m.cid THEN m ELSE armedOf[c]
  BY <1>1, <1>3 DEF armedOf
<1>7. armedOf' = Service!With(armedOf, m.cid, m)
  BY <1>5, <1>6 DEF Service!With
<1> QED BY <1>1, <1>7 DEF Service!Arm, armedOf

LEMMA FireIsGoOff ==
    ASSUME Inv, NEW a \in pq, Fire(a)
    PROVE  Service!GoOff(a.cid)
<1>1. /\ a \in active /\ a.cid \in DOMAIN cidmap /\ cidmap[a.cid] = a
      /\ a.time <= curr
      /\ sent' = sent \cup {a} /\ active' = active \ {a}
      /\ cidmap' = [c \in DOMAIN cidmap \ {a.cid} |-> cidmap[c]]
      /\ UNCHANGED <<now, sb>>
  BY DEF Fire, Due, Inv, IInv, EntryOfEachAlarm, Erase
<1>2. a.time <= now
  <2>1. a.time \in Nat /\ curr \in Nat /\ now \in Nat /\ curr <= now
    BY DEF Inv, IInv, TypeOK, TimeHasPassed, AlarmObjects
  <2> QED BY <1>1, <2>1
<1>3. \A c \in DOMAIN cidmap \ {a.cid} : cidmap[c] # a
  BY <1>1 DEF Inv, IInv, EntryOfTimer
<1>4. {c \in DOMAIN cidmap' : cidmap'[c] \in active'}
          = {c \in DOMAIN cidmap : cidmap[c] \in active} \ {a.cid}
  BY <1>1, <1>3
<1>5. armedOf' = Service!Without(armedOf, a.cid)
  BY <1>1, <1>4 DEF armedOf, Service!Without
<1>6. a.cid \in DOMAIN armedOf /\ armedOf[a.cid] = a
  BY <1>1 DEF armedOf
<1> QED BY <1>1, <1>2, <1>5, <1>6 DEF Service!GoOff, armedOf

LEMMA DropIsStutter ==
    ASSUME Inv, NEW a \in pq, Drop(a)
    PROVE  UNCHANGED Service!vars
<1>1. /\ a \notin active
      /\ cidmap' = IF cidmap[a.cid] = a THEN Erase(a.cid) ELSE cidmap
      /\ active' = active
      /\ UNCHANGED <<now, sb, sent>>
  BY DEF Drop
<1>2. CASE cidmap[a.cid] = a
  <2>1. cidmap' = [c \in DOMAIN cidmap \ {a.cid} |-> cidmap[c]]
    BY <1>1, <1>2 DEF Erase
  <2>2. {c \in DOMAIN cidmap' : cidmap'[c] \in active'}
            = {c \in DOMAIN cidmap : cidmap[c] \in active}
    BY <1>1, <1>2, <2>1
  <2>3. armedOf' = armedOf
    BY <2>1, <2>2 DEF armedOf
  <2> QED BY <1>1, <2>3, Stutter
<1>3. CASE cidmap[a.cid] # a
  <2>1. armedOf' = armedOf
    BY <1>1, <1>3 DEF armedOf
  <2> QED BY <1>1, <2>1, Stutter
<1> QED BY <1>2, <1>3

\* The heap, with the inactive alarms it still holds, and the two threads keep
\* the promise of AlarmService: a timer goes off once, with the message it was
\* armed with last, not before its time, and not after it was cancelled.
THEOREM KeepsThePromise == Spec => ImplementsService
<1>1. Init => Service!Init
  <2> SUFFICES ASSUME Init PROVE Service!Init
    OBVIOUS
  <2>1. DOMAIN cidmap = {}
    BY DEF Init
  <2>2. [cid \in {c \in DOMAIN cidmap : cidmap[c] \in active} |-> cidmap[cid]]
            = [cid \in {} |-> 0]
    BY <2>1
  <2> QED BY <2>2 DEF Init, Service!Init
<1>2. Inv /\ [Next]_vars => [Service!Next]_Service!vars
  <2> SUFFICES ASSUME Inv, [Next]_vars PROVE Service!Next \/ UNCHANGED Service!vars
    OBVIOUS
  <2>0. ASSUME PurgeRequest PROVE UNCHANGED Service!vars
    <3>1. UNCHANGED <<now, sb, sent, cidmap, active>>
      BY <2>0 DEF PurgeRequest
    <3> QED BY <3>1, Stutter DEF armedOf
  <2>1. ASSUME NEW key \in Keys, insertAlarm(key)
        PROVE  Service!Next \/ UNCHANGED Service!vars
    <3>1. CASE inhibitAlarm
      BY <2>0, <2>1, <3>1 DEF insertAlarm
    <3>2. CASE ~inhibitAlarm
      BY <2>1, <3>2, InsertIsRequest DEF Service!Next
    <3> QED BY <3>1, <3>2
  <2>2. ASSUME NEW key \in Keys, cancelAlarm(key)
        PROVE  Service!Next \/ UNCHANGED Service!vars
    <3>1. CASE inhibitAlarm
      BY <2>0, <2>2, <3>1 DEF cancelAlarm
    <3>2. CASE ~inhibitAlarm
      BY <2>2, <3>2, CancelIsRequest DEF Service!Next
    <3> QED BY <3>1, <3>2
  <2>3. CASE ParseCancel
    BY <2>3, ParseCancelIsCancel DEF Service!Next
  <2>4. CASE ParseInsert
    BY <2>4, ParseInsertIsArm DEF Service!Next
  <2>5. ASSUME NEW a \in pq, Fire(a) PROVE Service!Next
    <3>1. a.cid \in Keys
      BY DEF Inv, IInv, TypeOK, AlarmObjects
    <3> QED BY <2>5, <3>1, FireIsGoOff DEF Service!Next
  <2>6. ASSUME NEW a \in pq, Drop(a) PROVE UNCHANGED Service!vars
    BY <2>6, DropIsStutter
  <2>7. CASE Wake \/ Lock \/ Unlock \/ UNCHANGED vars
    <3>1. UNCHANGED <<now, sb, sent, cidmap, active>>
      BY <2>7 DEF Wake, Lock, Unlock, vars
    <3> QED BY <3>1, Stutter DEF armedOf
  <2>8. CASE Tick
    <3>1. now' = now + 1 /\ UNCHANGED <<sb, sent, cidmap, active>>
      BY <2>8 DEF Tick
    <3> QED BY <3>1 DEF Service!Next, Service!Tick
  <2> QED BY <2>1, <2>2, <2>3, <2>4, <2>5, <2>6, <2>7, <2>8 DEF Next, Step, Parse, Alarmer
<1> QED BY <1>1, <1>2, InvHolds, PTL DEF Spec, ImplementsService, Service!Spec
=============================================================================
