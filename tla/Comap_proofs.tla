---------------------------- MODULE Comap_proofs ----------------------------
(***************************************************************************)
(* Proofs about Comap, for any number of calls, workers, buckets and DOA   *)
(* threads, and any TIMER_DOA.                                             *)
(***************************************************************************)
EXTENDS Comap, TLAPS

\* The DOA thread holds the mutex of its bucket.
Purging(d) == dpc[d] \in {"scan", "mark", "delete", "free"}

\* What the local variables are set to, by where the thread is.
Locals ==
    /\ \A w \in Workers :
          /\ pc[w] # "idle" => /\ msg[w] \in Messages /\ mod[w] \in Buckets
                               /\ msg[w].invite => msg[w].id \in CallIds
          /\ pc[w] \in {"use", "mutex", "incall", "ask", "request", "insert"} =>
             obj[w] \in Addr
          /\ pc[w] \in {"ask", "request", "insert"} => rmod[w] \in Buckets
    /\ \A d \in DoaThreads :
          /\ dpc[d] # "sleep" => dmod[d] \in FirstBucket(d) .. EndBucket(d) - 1
          /\ dpc[d] \in {"mark", "delete", "free"} => cur[d] \in Addr

\* Who holds the mutex of a bucket, and of a call.
Locks ==
    /\ \A w \in Workers :
          /\ pc[w] \in {"lookup", "use", "mutex"} => uniqueExx[mod[w]] = w
          /\ pc[w] = "insert" => uniqueExx[rmod[w]] = w
          /\ pc[w] = "incall" => mutex[obj[w]] = w
    /\ \A d \in DoaThreads : Purging(d) => uniqueExx[dmod[d]] = d

\* The call a worker is about to enter belongs to the bucket it holds.
InUse ==
    /\ CallInUseIsAllocated
    /\ \A w \in Workers : pc[w] \in {"use", "mutex"} => heap[obj[w]].y[1] = mod[w]

\* What a DOA thread knows of the entries it has visited, and has yet to.
Visits ==
    \A d \in DoaThreads :
        /\ ~Purging(d) => todel[d] = {}
        /\ Purging(d) => /\ todo[d] \cap todel[d] = {}
                         /\ \A x \in todo[d] : comap[dmod[d]][x] # None
        /\ dpc[d] \in {"mark", "delete", "free"} =>
              /\ heap[cur[d]] # None
              /\ heap[cur[d]].y[1] = dmod[d]
              /\ heap[cur[d]].x \notin todo[d]
        /\ dpc[d] \in {"mark", "delete"} => ttlDelete[dmod[d]][cur[d]] = -1
        /\ dpc[d] = "free" => heap[cur[d]].x \in todel[d]

\* The entry x of bucket m goes when the thread that purges it is done.
Leaving(m, x) == \E d \in DoaThreads : Purging(d) /\ dmod[d] = m /\ x \in todel[d]

\* The state of a in bucket m is being changed.
Changing(m, a) ==
    \/ \E d \in DoaThreads : dpc[d] \in {"mark", "delete"} /\ dmod[d] = m /\ cur[d] = a
    \/ \E w \in Workers : pc[w] = "insert" /\ rmod[w] = m /\ obj[w] = a

\* An entry that stays is the call of that Call-ID, in that bucket.
Listed ==
    \A m \in Buckets, x \in CallIds :
        comap[m][x] = None \/ Leaving(m, x)
        \/ /\ heap[comap[m][x]] # None
           /\ heap[comap[m][x]].x = x
           /\ heap[comap[m][x]].y[1] = m
           /\ ttlDelete[m][comap[m][x]] = -1
           /\ \/ doa[m][comap[m][x]] \in {"NOT_DOA", "DOA_REQUESTED"}
              \/ Changing(m, comap[m][x])

\* A call whose entry goes is freed already, or is the next to be.
Gone ==
    \A d \in DoaThreads, a \in Addr :
        /\ Purging(d) /\ heap[a] # None
        /\ heap[a].y[1] = dmod[d] /\ heap[a].x \in todel[d]
        => dpc[d] = "free" /\ cur[d] = a

\* What every reachable state satisfies, strong enough to be inductive.
IInv ==
    /\ TypeOK
    /\ Locals
    /\ Locks
    /\ InUse
    /\ Visits
    /\ Listed
    /\ Gone
    /\ NoCallLost
    /\ DeletedNeverFound

-----------------------------------------------------------------------------
(* Facts about the constants.                                              *)

LEMMA DivBound ==
    ASSUME NEW n \in Nat, NEW k \in Nat \ {0}
    PROVE  n \div k \in Nat /\ k * (n \div k) <= n
  OBVIOUS

LEMMA ModBound ==
    ASSUME NEW n \in Nat, NEW k \in Nat \ {0}
    PROVE  n % k \in 0 .. k - 1
  OBVIOUS

LEMMA MulCancel ==
    ASSUME NEW n \in Int, NEW c \in Int, NEW k \in Nat \ {0}, k * n <= k * c
    PROVE  n <= c
<1>1. ASSUME n >= c + 1 PROVE FALSE
  <2>1. k * n >= k * (c + 1)
    BY <1>1
  <2>2. k * (c + 1) = k * c + k
    OBVIOUS
  <2> QED BY <2>1, <2>2
<1> QED BY <1>1

LEMMA PurgedAreBuckets ==
    ASSUME NEW d \in DoaThreads
    PROVE  FirstBucket(d) \in Nat /\ EndBucket(d) \in Int /\ EndBucket(d) < COMAPS
<1> DEFINE q1 == (d * COMAPS) \div DOATH
           q2 == COMAPS \div DOATH
<1>1. COMAPS \in Nat /\ DOATH \in Nat \ {0} /\ d \in Nat /\ d + 1 <= DOATH
  BY ConstantsAssumption DEF DoaThreads
<1>2. d * COMAPS \in Nat
  BY <1>1
<1>3. q1 \in Nat /\ q2 \in Nat /\ DOATH * q1 <= d * COMAPS /\ DOATH * q2 <= COMAPS
  BY <1>1, <1>2, DivBound
<1>4. DOATH * (q1 + q2) <= (d + 1) * COMAPS
  <2>1. DOATH * (q1 + q2) = DOATH * q1 + DOATH * q2
    BY <1>1, <1>3
  <2>2. (d + 1) * COMAPS = d * COMAPS + COMAPS
    BY <1>1
  <2> HIDE DEF q1, q2
  <2>3. DOATH * q1 \in Int /\ DOATH * q2 \in Int /\ d * COMAPS \in Int
    BY <1>1, <1>3
  <2> QED BY <1>1, <1>3, <2>1, <2>2, <2>3
<1>5. (d + 1) * COMAPS <= DOATH * COMAPS
  BY <1>1
<1>6. q1 + q2 <= COMAPS
  <2> HIDE DEF q1, q2
  <2>1. DOATH * (q1 + q2) \in Int /\ (d + 1) * COMAPS \in Int /\ DOATH * COMAPS \in Int
    BY <1>1, <1>3
  <2>2. DOATH * (q1 + q2) <= DOATH * COMAPS
    BY <1>4, <1>5, <2>1
  <2> QED BY <1>1, <1>3, <2>2, MulCancel
<1> QED BY <1>1, <1>3, <1>6 DEF FirstBucket, EndBucket

LEMMA Constants ==
    /\ TIMER_DOA \in Nat /\ GRACE \in Nat /\ GRACE <= TIMER_DOA
    /\ COMAPS \in Nat /\ COMAPS > 0
    /\ QuietCap \in Nat /\ AgeCap \in Nat /\ QuietCap > 0 /\ AgeCap > 0
    /\ Buckets \subseteq Nat /\ 0 \in Buckets
    /\ \A d \in DoaThreads : FirstBucket(d) .. EndBucket(d) - 1 \subseteq Buckets
<1>1. COMAPS \in Nat /\ COMAPS > 0 /\ TIMER_DOA \in Nat
  BY ConstantsAssumption
<1>2. GRACE \in Nat /\ GRACE <= TIMER_DOA
  BY <1>1 DEF GRACE
<1>3. \A d \in DoaThreads : FirstBucket(d) .. EndBucket(d) - 1 \subseteq Buckets
  BY <1>1, PurgedAreBuckets DEF Buckets
<1> QED BY <1>1, <1>2, <1>3 DEF QuietCap, AgeCap, Buckets

LEMMA Bounds ==
    /\ 0 \in 0 .. AgeCap /\ 0 \in 0 .. QuietCap
    /\ -1 \in (-1 .. TIMER_DOA) \cup {None} /\ -1 \in (-1 .. GRACE) \cup {None}
    /\ GRACE \in (-1 .. GRACE) \cup {None}
  BY Constants

LEMMA Disjoint ==
    /\ \A w \in Workers : w \notin DoaThreads /\ w # None
    /\ \A d \in DoaThreads : d # None
    /\ \A a \in Addr : a # None
    /\ \A x \in CallIds : x # None /\ x \notin YIds
    /\ \A n \in Int : n # None
    /\ \A c \in Calls : c # None
    /\ \A y \in YIds : y # None
    /\ None # "NOT_DOA" /\ None # "DOA_REQUESTED" /\ None # "DOA_DELETED"
  BY ConstantsAssumption DEF DoaThreads, DoaStates

LEMMA Records ==
    /\ \A c \in Calls : c.x \in CallIds /\ c.y \in YIds
    /\ \A y \in YIds : y[1] \in Buckets /\ y[2] \in Keys
    /\ \A x \in CallIds, y \in YIds : [x |-> x, y |-> y] \in Calls
    /\ \A m \in Buckets, k \in Keys : <<m, k>> \in YIds
    /\ \A m \in Messages : m.id \in CallIds \cup YIds /\ m.invite \in BOOLEAN
  BY DEF Calls, YIds, Messages

-----------------------------------------------------------------------------
(* What the small functions keep.                                          *)

LEMMA ResetType ==
    ASSUME TypeOK, NEW a \in Addr, NEW m \in Buckets
    PROVE  /\ resetTimer(ttl, a, m) \in [Buckets -> [Addr -> (-1 .. TIMER_DOA) \cup {None}]]
           /\ resetIfRequested(a, m) \in [Buckets -> [Addr -> (-1 .. TIMER_DOA) \cup {None}]]
<1>1. TIMER_DOA \in -1 .. TIMER_DOA
  BY Constants
<1>2. resetTimer(ttl, a, m) \in [Buckets -> [Addr -> (-1 .. TIMER_DOA) \cup {None}]]
  BY <1>1 DEF TypeOK, resetTimer
<1>3. ttl \in [Buckets -> [Addr -> (-1 .. TIMER_DOA) \cup {None}]]
  BY DEF TypeOK
<1> QED BY <1>2, <1>3 DEF resetIfRequested

LEMMA EntryType ==
    TypeOK => \A m \in Buckets, x \in CallIds : comap[m][x] = None \/ comap[m][x] \in Addr
<1> SUFFICES ASSUME comap \in [Buckets -> [CallIds -> Addr \cup {None}]]
             PROVE  \A m \in Buckets, x \in CallIds :
                       comap[m][x] = None \/ comap[m][x] \in Addr
  BY DEF TypeOK
<1> QED OBVIOUS

LEMMA ModulusType ==
    ASSUME TypeOK, NEW id \in CallIds \cup YIds
    PROVE  /\ getModulus(id) \in Buckets
           /\ assignModulus(id) => /\ modulusMap' \in [CallIds -> Buckets \cup {None}]
                                   /\ modulusIter' \in Buckets
<1>1. getModulus(id) \in Buckets
  <2>1. CASE id \in YIds
    <3>1. id[1] \in Buckets
      BY <2>1, Records
    <3> QED BY <2>1, <3>1, Disjoint DEF getModulus
  <2>2. CASE id \in CallIds
    <3>1. modulusMap[id] \in Buckets \cup {None} /\ modulusIter \in Buckets
      BY <2>2 DEF TypeOK
    <3>2. id \notin YIds
      BY <2>2, Disjoint
    <3> QED BY <2>2, <3>1, <3>2 DEF getModulus
  <2> QED BY <2>1, <2>2
<1>2. (modulusIter + 1) % COMAPS \in Buckets
  <2>1. modulusIter \in Nat
    BY Constants DEF TypeOK
  <2> QED BY <2>1, Constants, ModBound DEF Buckets
<1>3. ASSUME assignModulus(id)
      PROVE  modulusMap' \in [CallIds -> Buckets \cup {None}] /\ modulusIter' \in Buckets
  BY <1>2, <1>3 DEF TypeOK, assignModulus, modulusVars
<1> QED BY <1>1, <1>3

LEMMA TimeType ==
    /\ \A n \in Nat : \A t \in (-1 .. n) \cup {None} : Elapse(t) \in (-1 .. n) \cup {None}
    /\ \A n \in Nat : \A t \in 0 .. n : Older(t, n) \in 0 .. n
<1>1. ASSUME NEW n \in Nat, NEW t \in (-1 .. n) \cup {None}
      PROVE  Elapse(t) \in (-1 .. n) \cup {None}
  BY <1>1, Disjoint DEF Elapse
<1>2. ASSUME NEW n \in Nat, NEW t \in 0 .. n PROVE Older(t, n) \in 0 .. n
  BY <1>2 DEF Older
<1> QED BY <1>1, <1>2

\* XMain and YDerived only find what the bucket lists.
LEMMA CallOfListed ==
    ASSUME TypeOK, NEW m \in Buckets, NEW id \in CallIds \cup YIds, CallOf(id, m) # None
    PROVE  \E x \in CallIds : CallOf(id, m) = comap[m][x]
<1>1. CASE XMain(id, m) # None
  BY <1>1 DEF CallOf, XMain
<1>2. CASE XMain(id, m) = None
  <2>1. id \notin CallIds /\ y2x[m][id[2]] # None /\ CallOf(id, m) = comap[m][y2x[m][id[2]]]
    BY <1>2 DEF CallOf, YDerived
  <2>2. id[2] \in Keys
    BY <2>1, Records
  <2>3. y2x[m][id[2]] \in CallIds
    <3>1. \A k \in Keys : y2x[m][k] \in CallIds \cup {None}
      <4>1. y2x \in [Buckets -> [Keys -> CallIds \cup {None}]]
        BY DEF TypeOK
      <4> QED BY <4>1
    <3> QED BY <2>1, <2>2, <3>1
  <2> QED BY <2>1, <2>3
<1> QED BY <1>1, <1>2

LEMMA NextBucketIs ==
    ASSUME TypeOK, NEW d \in DoaThreads, NextBucket(d),
           dmod[d] \in FirstBucket(d) .. EndBucket(d) - 1
    PROVE  /\ dpc' \in [DoaThreads -> DoaPcs]
           /\ dmod' \in [DoaThreads -> Buckets \cup {None}]
           /\ dpc'[d] \in {"try", "sleep"}
           /\ dpc'[d] = "try" => dmod'[d] \in FirstBucket(d) .. EndBucket(d) - 1
           /\ \A e \in DoaThreads \ {d} : dpc'[e] = dpc[e] /\ dmod'[e] = dmod[e]
<1>1. FirstBucket(d) \in Nat /\ EndBucket(d) \in Int /\ EndBucket(d) < COMAPS
  BY PurgedAreBuckets
<1>2. CASE dmod[d] + 1 < EndBucket(d)
  <2>1. dmod[d] + 1 \in FirstBucket(d) .. EndBucket(d) - 1
    BY <1>1, <1>2
  <2>2. dmod[d] + 1 \in Buckets
    BY <2>1, Constants
  <2> QED BY <1>2, <2>1, <2>2 DEF TypeOK, NextBucket, DoaPcs
<1>3. CASE ~(dmod[d] + 1 < EndBucket(d))
  BY <1>3 DEF TypeOK, NextBucket, DoaPcs
<1> QED BY <1>2, <1>3

-----------------------------------------------------------------------------
(* One lemma per action: each part of the invariant is kept.               *)

LEMMA ReceiveInv ==
    ASSUME IInv, NEW w \in Workers, Receive(w) PROVE IInv'
<1> USE DEF IInv, Receive, At, Running, Goto, modulusVars, tables, memory, historyVars,
        workerVars, doaVars
<1>1. TypeOK'
  <2>1. PICK m \in Messages : /\ msg' = [msg EXCEPT ![w] = m]
                              /\ mod' = [mod EXCEPT ![w] = getModulus(m.id)]
                              /\ assignModulus(m.id)
    OBVIOUS
  <2>2. getModulus(m.id) \in Buckets /\ modulusMap' \in [CallIds -> Buckets \cup {None}]
        /\ modulusIter' \in Buckets
    BY <2>1, ModulusType, Records
  <2> QED BY <2>1, <2>2 DEF TypeOK, WorkerPcs
<1>2. Locals'
  <2>1. PICK m \in Messages : /\ m.id \in CallIds \/ ~m.invite
                              /\ msg' = [msg EXCEPT ![w] = m]
                              /\ mod' = [mod EXCEPT ![w] = getModulus(m.id)]
    OBVIOUS
  <2>2. getModulus(m.id) \in Buckets
    BY ModulusType, Records
  <2> QED BY <2>1, <2>2 DEF TypeOK, Locals
<1>3. Locks'
  BY DEF Locks, Purging
<1>4. InUse'
  BY DEF InUse, CallInUseIsAllocated
<1>5. Visits'
  BY DEF Visits, Purging
<1>6. Listed'
  <2>1. \A m \in Buckets, x \in CallIds : Leaving(m, x) => Leaving(m, x)'
    BY Disjoint DEF TypeOK, Leaving, Purging
  <2>2. \A m \in Buckets, a \in Addr : Changing(m, a) => Changing(m, a)'
    BY Disjoint DEF TypeOK, Changing
  <2> QED BY <2>1, <2>2 DEF Listed, TypeOK
<1>7. Gone'
  BY DEF Gone, Purging
<1>8. NoCallLost'
  BY DEF NoCallLost
<1>9. DeletedNeverFound'
  BY DEF DeletedNeverFound
<1> QED BY <1>1, <1>2, <1>3, <1>4, <1>5, <1>6, <1>7, <1>8, <1>9 DEF IInv

LEMMA LockBucketInv ==
    ASSUME IInv, NEW w \in Workers, LockBucket(w) PROVE IInv'
<1> USE DEF IInv, LockBucket, Lock, At, Running, Goto, modulusVars, tables, memory,
        historyVars, workerVars, doaVars
<1>1. TypeOK'
  BY DEF TypeOK, WorkerPcs
<1>2. Locals'
  BY DEF Locals
<1>3. Locks'
  BY Disjoint DEF TypeOK, Locals, Locks, Purging
<1>4. InUse'
  BY DEF InUse, CallInUseIsAllocated
<1>5. Visits'
  BY DEF Visits, Purging
<1>6. Listed'
  <2>1. \A m \in Buckets, x \in CallIds : Leaving(m, x) => Leaving(m, x)'
    BY Disjoint DEF TypeOK, Leaving, Purging
  <2>2. \A m \in Buckets, a \in Addr : Changing(m, a) => Changing(m, a)'
    BY Disjoint DEF TypeOK, Changing
  <2> QED BY <2>1, <2>2 DEF Listed, TypeOK
<1>7. Gone'
  BY DEF Gone, Purging
<1>8. NoCallLost'
  BY DEF NoCallLost
<1>9. DeletedNeverFound'
  BY DEF DeletedNeverFound
<1> QED BY <1>1, <1>2, <1>3, <1>4, <1>5, <1>6, <1>7, <1>8, <1>9 DEF IInv

\* The lookup finds a call of the bucket that is neither deleted nor going.
FindsCall(w, a) ==
    /\ pc[w] = "lookup" /\ mod[w] \in Buckets /\ uniqueExx[mod[w]] = w
    /\ heap[a] \in Calls /\ heap[a].y[1] = mod[w]
    /\ doa[mod[w]][a] \in {"NOT_DOA", "DOA_REQUESTED"}
    /\ \E x \in CallIds : a = comap[mod[w]][x] /\ ~Leaving(mod[w], x)
    /\ ttl' = resetIfRequested(a, mod[w])
    /\ obj' = [obj EXCEPT ![w] = a] /\ holds' = [holds EXCEPT ![w] = heap[a].y]
    /\ age' = [age EXCEPT ![w] = 0] /\ quiet' = [quiet EXCEPT ![a] = 0]
    /\ pc' = [pc EXCEPT ![w] = "use"]
    /\ UNCHANGED <<modulusMap, modulusIter, comap, y2x, doa, ttlDelete, uniqueExx, heap,
                   mutex, created, msg, mod, rmod, dpc, dmod, todo, cur, todel, failed>>

LEMMA FindCallDoes ==
    ASSUME IInv, NEW w \in Workers, FindCall(w)
    PROVE  \E a \in Addr : FindsCall(w, a)
<1> USE DEF IInv
<1> DEFINE a == CallOf(msg[w].id, mod[w])
<1>1. /\ pc[w] = "lookup" /\ mod[w] \in Buckets /\ uniqueExx[mod[w]] = w
      /\ msg[w].id \in CallIds \cup YIds /\ a # None
  BY Records DEF FindCall, At, Locals, Locks
<1>2. \E x \in CallIds : a = comap[mod[w]][x] /\ ~Leaving(mod[w], x) /\ ~Changing(mod[w], a)
  <2>1. PICK x \in CallIds : a = comap[mod[w]][x]
    BY <1>1, CallOfListed
  <2>2. ~Leaving(mod[w], x) /\ ~Changing(mod[w], a)
    BY <1>1, Disjoint DEF Leaving, Changing, Locks, Purging
  <2> QED BY <2>1, <2>2
<1> HIDE DEF a
<1>3. /\ a \in Addr /\ heap[a] \in Calls /\ heap[a].y[1] = mod[w]
      /\ doa[mod[w]][a] \in {"NOT_DOA", "DOA_REQUESTED"}
  <2>1. PICK x \in CallIds :
           a = comap[mod[w]][x] /\ ~Leaving(mod[w], x) /\ ~Changing(mod[w], a)
    BY <1>2
  <2>2. a \in Addr /\ heap[a] # None /\ heap[a].y[1] = mod[w]
        /\ doa[mod[w]][a] \in {"NOT_DOA", "DOA_REQUESTED"}
    BY <1>1, <2>1, EntryType DEF Listed
  <2> QED BY <2>2 DEF TypeOK
<1>4. failed' = failed
  BY <1>1, <1>3, Disjoint DEF a, FindCall, getDoa
<1> QED BY <1>1, <1>2, <1>3, <1>4 DEF a, FindCall, FindsCall, Goto, modulusVars, memory,
        doaVars

LEMMA FindCallInv ==
    ASSUME IInv, NEW w \in Workers, FindCall(w) PROVE IInv'
<1> USE DEF IInv
<1>0. PICK a \in Addr : FindsCall(w, a)
  BY FindCallDoes
<1>1. /\ pc[w] = "lookup" /\ mod[w] \in Buckets /\ uniqueExx[mod[w]] = w
      /\ heap[a] \in Calls /\ heap[a].y[1] = mod[w]
      /\ ttl' = resetIfRequested(a, mod[w])
      /\ obj' = [obj EXCEPT ![w] = a] /\ holds' = [holds EXCEPT ![w] = heap[a].y]
      /\ age' = [age EXCEPT ![w] = 0] /\ quiet' = [quiet EXCEPT ![a] = 0]
      /\ pc' = [pc EXCEPT ![w] = "use"]
      /\ UNCHANGED <<modulusMap, modulusIter, comap, y2x, doa, ttlDelete, uniqueExx, heap,
                     mutex, created, msg, mod, rmod, dpc, dmod, todo, cur, todel, failed>>
  BY <1>0 DEF FindsCall
<1>3. ttl' \in [Buckets -> [Addr -> (-1 .. TIMER_DOA) \cup {None}]]
  BY <1>1, ResetType
<1>5. TypeOK'
  <2>1. heap[a].y \in YIds
    BY <1>1, Records
  <2>2. age' \in [Workers -> 0 .. AgeCap] /\ quiet' \in [Addr -> 0 .. QuietCap]
    BY <1>1, Bounds DEF TypeOK
  <2>3. /\ obj' \in [Workers -> Addr \cup {None}]
        /\ holds' \in [Workers -> YIds \cup {None}]
        /\ pc' \in [Workers -> WorkerPcs]
    BY <1>1, <2>1 DEF TypeOK, WorkerPcs
  <2> QED BY <1>1, <1>3, <2>2, <2>3 DEF TypeOK
<1>6. Locals'
  BY <1>1 DEF TypeOK, Locals
<1>7. Locks'
  BY <1>1 DEF TypeOK, Locks, Purging
<1>8. InUse'
  BY <1>1, Disjoint DEF TypeOK, InUse, CallInUseIsAllocated
<1>9. Visits'
  BY <1>1 DEF Visits, Purging
<1>10. Listed'
  <2>1. \A m \in Buckets, x \in CallIds : Leaving(m, x) => Leaving(m, x)'
    BY <1>1 DEF Leaving, Purging
  <2>2. \A m \in Buckets, b \in Addr : Changing(m, b) => Changing(m, b)'
    BY <1>1 DEF TypeOK, Changing
  <2> QED BY <1>1, <2>1, <2>2, EntryType DEF Listed
<1>11. Gone'
  BY <1>1 DEF Gone, Purging
<1>12. NoCallLost'
  BY <1>1 DEF NoCallLost
<1>13. DeletedNeverFound'
  BY <1>1 DEF DeletedNeverFound
<1> QED BY <1>5, <1>6, <1>7, <1>8, <1>9, <1>10, <1>11, <1>12, <1>13 DEF IInv

\* The lookup found nothing: a call is allocated and listed in the bucket.
CreatesCall(w, a, k) ==
    LET x == msg[w].id
        m == mod[w]
    IN
    /\ pc[w] = "lookup" /\ m \in Buckets /\ uniqueExx[m] = w
    /\ x \in CallIds /\ comap[m][x] = None
    /\ k \in UnusedKeys /\ heap[a] = None
    /\ heap' = [heap EXCEPT ![a] = [x |-> x, y |-> <<m, k>>]]
    /\ comap' = [comap EXCEPT ![m][x] = a]
    /\ doa' = [doa EXCEPT ![m][a] = "NOT_DOA"]
    /\ ttl' = [ttl EXCEPT ![m][a] = -1]
    /\ ttlDelete' = [ttlDelete EXCEPT ![m][a] = -1]
    /\ obj' = [obj EXCEPT ![w] = a]
    /\ quiet' = [quiet EXCEPT ![a] = 0]
    /\ y2x' = [y2x EXCEPT ![m][k] = x]
    /\ created' = created \cup {<<m, k>>}
    /\ holds' = [holds EXCEPT ![w] = <<m, k>>]
    /\ age' = [age EXCEPT ![w] = 0] /\ pc' = [pc EXCEPT ![w] = "use"]
    /\ UNCHANGED <<modulusMap, modulusIter, uniqueExx, mutex, msg, mod, rmod, dpc, dmod,
                   todo, cur, todel, failed>>

LEMMA CreateCallDoes ==
    ASSUME IInv, NEW w \in Workers, CreateCall(w)
    PROVE  \E a \in Addr, k \in Keys : CreatesCall(w, a, k)
<1>1. /\ pc[w] = "lookup" /\ mod[w] \in Buckets /\ uniqueExx[mod[w]] = w
      /\ msg[w].id \in CallIds /\ comap[mod[w]][msg[w].id] = None
  BY DEF IInv, CreateCall, At, Locals, Locks, CallOf, XMain
<1>2. UnusedKeys \subseteq Keys
  BY DEF UnusedKeys
<1> QED BY <1>1, <1>2 DEF CreateCall, CreatesCall, Goto, modulusVars, doaVars

LEMMA CreateCallInv ==
    ASSUME IInv, NEW w \in Workers, CreateCall(w) PROVE IInv'
<1> USE DEF IInv
<1> DEFINE x == msg[w].id
           m0 == mod[w]
<1>0. PICK a \in Addr, k \in Keys : CreatesCall(w, a, k)
  BY CreateCallDoes
<1>1. /\ pc[w] = "lookup" /\ m0 \in Buckets /\ uniqueExx[m0] = w
      /\ x \in CallIds /\ comap[m0][x] = None
  BY <1>0 DEF CreatesCall
<1>2. /\ k \in UnusedKeys /\ heap[a] = None
      /\ heap' = [heap EXCEPT ![a] = [x |-> x, y |-> <<m0, k>>]]
      /\ comap' = [comap EXCEPT ![m0][x] = a]
      /\ doa' = [doa EXCEPT ![m0][a] = "NOT_DOA"]
      /\ ttl' = [ttl EXCEPT ![m0][a] = -1]
      /\ ttlDelete' = [ttlDelete EXCEPT ![m0][a] = -1]
      /\ obj' = [obj EXCEPT ![w] = a]
      /\ quiet' = [quiet EXCEPT ![a] = 0]
      /\ y2x' = [y2x EXCEPT ![m0][k] = x]
      /\ created' = created \cup {<<m0, k>>}
      /\ holds' = [holds EXCEPT ![w] = <<m0, k>>]
  BY <1>0 DEF CreatesCall
<1>3. /\ age' = [age EXCEPT ![w] = 0] /\ pc' = [pc EXCEPT ![w] = "use"]
      /\ UNCHANGED <<modulusMap, modulusIter, uniqueExx, mutex, msg, mod, rmod, dpc, dmod,
                     todo, cur, todel, failed>>
  BY <1>0 DEF CreatesCall
<1>4. k \in Keys /\ <<m0, k>> \in YIds /\ heap'[a] \in Calls
      /\ heap'[a].x = x /\ heap'[a].y = <<m0, k>> /\ <<m0, k>>[1] = m0
  BY <1>1, <1>2, Records DEF UnusedKeys, TypeOK
<1>5. \A b \in Addr : heap'[b] = IF b = a THEN [x |-> x, y |-> <<m0, k>>] ELSE heap[b]
  BY <1>2 DEF TypeOK
<1>6. \A m \in Buckets, z \in CallIds :
         comap'[m][z] = IF m = m0 /\ z = x THEN a ELSE comap[m][z]
  BY <1>1, <1>2 DEF TypeOK
<1>7. \A e \in DoaThreads : Purging(e) => dmod[e] # m0
  BY <1>1, Disjoint DEF Locks, Purging
<1> HIDE DEF x, m0
<1>8. TypeOK'
  <2>1. heap' \in [Addr -> Calls \cup {None}]
    BY <1>2, <1>4 DEF TypeOK
  <2>2. comap' \in [Buckets -> [CallIds -> Addr \cup {None}]]
    BY <1>1, <1>2 DEF TypeOK
  <2>3. doa' \in [Buckets -> [Addr -> DoaStates \cup {None}]]
    BY <1>2 DEF TypeOK, DoaStates
  <2>4. ttl' \in [Buckets -> [Addr -> (-1 .. TIMER_DOA) \cup {None}]]
        /\ ttlDelete' \in [Buckets -> [Addr -> (-1 .. GRACE) \cup {None}]]
    BY <1>2, Bounds DEF TypeOK
  <2>5. y2x' \in [Buckets -> [Keys -> CallIds \cup {None}]] /\ created' \in SUBSET YIds
    BY <1>1, <1>2, <1>4 DEF TypeOK
  <2>6. obj' \in [Workers -> Addr \cup {None}] /\ holds' \in [Workers -> YIds \cup {None}]
    BY <1>2, <1>4 DEF TypeOK
  <2>7. age' \in [Workers -> 0 .. AgeCap] /\ quiet' \in [Addr -> 0 .. QuietCap]
    BY <1>2, <1>3, Bounds DEF TypeOK
  <2>8. pc' \in [Workers -> WorkerPcs]
    <3>1. pc \in [Workers -> WorkerPcs] /\ "use" \in WorkerPcs
      BY DEF TypeOK, WorkerPcs
    <3> QED BY <1>3, <3>1
  <2> QED BY <1>3, <2>1, <2>2, <2>3, <2>4, <2>5, <2>6, <2>7, <2>8 DEF TypeOK
<1>9. Locals'
  BY <1>1, <1>2, <1>3 DEF TypeOK, Locals
<1>10. Locks'
  BY <1>1, <1>2, <1>3 DEF TypeOK, Locks, Purging
<1>11. InUse'
  <2>1. ASSUME NEW v \in Workers, v # w, pc[v] \in {"use", "mutex", "incall"}
        PROVE  obj'[v] = obj[v] /\ heap'[obj[v]] = heap[obj[v]] /\ holds'[v] = holds[v]
    <3>1. obj'[v] = obj[v] /\ holds'[v] = holds[v]
      <4>1. obj \in [Workers -> Addr \cup {None}] /\ holds \in [Workers -> YIds \cup {None}]
        BY DEF TypeOK
      <4> QED BY <1>2, <2>1, <4>1
    <3>2. obj[v] \in Addr
      BY <2>1 DEF Locals
    <3>3. heap[obj[v]] # None
      BY <2>1 DEF InUse, CallInUseIsAllocated
    <3>4. obj[v] # a
      BY <1>2, <3>3
    <3> QED BY <1>5, <3>1, <3>2, <3>4
  <2>2. obj'[w] = a /\ heap'[a] # None /\ holds'[w] = <<m0, k>> /\ pc'[w] = "use"
    <3>1. heap'[a] # None
      BY <1>4, Disjoint
    <3> QED BY <1>2, <1>3, <3>1 DEF TypeOK
  <2>3. \A v \in Workers \ {w} : pc'[v] = pc[v]
    BY <1>3 DEF TypeOK
  <2> QED BY <1>3, <1>4, <2>1, <2>2, <2>3 DEF InUse, CallInUseIsAllocated, m0
<1>12. Visits'
  <2>1. \A e \in DoaThreads : Purging(e) => dmod[e] \in Buckets
    BY Constants DEF Locals, Purging
  <2>2. ASSUME NEW e \in DoaThreads, dpc[e] \in {"mark", "delete", "free"}
        PROVE  /\ cur[e] \in Addr /\ cur[e] # a
               /\ ttlDelete'[dmod[e]][cur[e]] = ttlDelete[dmod[e]][cur[e]]
    BY <1>1, <1>2, <1>7, <2>1, <2>2 DEF TypeOK, Locals, Visits, Purging
  <2>3. ASSUME NEW e \in DoaThreads, Purging(e), NEW z \in todo[e]
        PROVE  comap'[dmod[e]][z] = comap[dmod[e]][z]
    <3>1. z \in CallIds
      BY <2>3 DEF TypeOK
    <3> QED BY <1>6, <1>7, <2>1, <2>3, <3>1
  <2> QED BY <1>3, <1>5, <2>2, <2>3 DEF Visits, Purging
<1>13. Listed'
  <2>1. \A m \in Buckets, z \in CallIds : Leaving(m, z) => Leaving(m, z)'
    BY <1>3 DEF Leaving, Purging
  <2>2. \A m \in Buckets, b \in Addr : Changing(m, b) => Changing(m, b)'
    BY <1>1, <1>2, <1>3 DEF TypeOK, Changing
  <2>3. \A m \in Buckets, b \in Addr : b # a =>
           ttlDelete'[m][b] = ttlDelete[m][b] /\ doa'[m][b] = doa[m][b]
    BY <1>1, <1>2 DEF TypeOK
  <2>4. ttlDelete'[m0][a] = -1 /\ doa'[m0][a] = "NOT_DOA"
    BY <1>1, <1>2 DEF TypeOK
  <2>5. ASSUME NEW m \in Buckets, NEW z \in CallIds, comap[m][z] = a PROVE Leaving(m, z)
    BY <1>2, <2>5, Disjoint DEF Listed
  <2> QED BY <1>1, <1>4, <1>5, <1>6, <2>1, <2>2, <2>3, <2>4, <2>5, Disjoint, EntryType DEF
          Listed
<1>14. Gone'
  BY <1>1, <1>3, <1>4, <1>5, <1>7 DEF Gone, Purging
<1>15. NoCallLost'
  <2>1. ASSUME NEW b \in Addr, b # a, heap[b] # None
        PROVE  comap'[heap[b].y[1]][heap[b].x] = b
    <3>1. heap[b].y[1] \in Buckets /\ heap[b].x \in CallIds
      BY <2>1, Records DEF TypeOK
    <3>2. comap[heap[b].y[1]][heap[b].x] = b
      BY <2>1 DEF NoCallLost
    <3> QED BY <1>1, <1>6, <2>1, <3>1, <3>2, Disjoint
  <2>2. comap'[m0][x] = a
    BY <1>1, <1>6
  <2> QED BY <1>4, <1>5, <2>1, <2>2 DEF NoCallLost
<1>16. DeletedNeverFound'
  BY <1>3 DEF DeletedNeverFound
<1> QED BY <1>8, <1>9, <1>10, <1>11, <1>12, <1>13, <1>14, <1>15, <1>16 DEF IInv

LEMMA IgnoreMessageInv ==
    ASSUME IInv, NEW w \in Workers, IgnoreMessage(w) PROVE IInv'
<1> USE DEF IInv, IgnoreMessage, Unlock, Done, At, Running, Goto, modulusVars, tables,
        memory, historyVars, workerVars, doaVars
<1>1. TypeOK'
  BY Constants DEF TypeOK, Locals, WorkerPcs
<1>2. Locals'
  BY DEF TypeOK, Locals
<1>3. Locks'
  BY Disjoint DEF TypeOK, Locks, Purging
<1>4. InUse'
  BY DEF InUse, CallInUseIsAllocated
<1>5. Visits'
  BY DEF Visits, Purging
<1>6. Listed'
  <2>1. \A m \in Buckets, x \in CallIds : Leaving(m, x) => Leaving(m, x)'
    BY Disjoint DEF TypeOK, Leaving, Purging
  <2>2. \A m \in Buckets, a \in Addr : Changing(m, a) => Changing(m, a)'
    BY Disjoint DEF TypeOK, Changing
  <2> QED BY <2>1, <2>2 DEF Listed, TypeOK
<1>7. Gone'
  BY DEF Gone, Purging
<1>8. NoCallLost'
  BY DEF NoCallLost
<1>9. DeletedNeverFound'
  BY DEF DeletedNeverFound
<1> QED BY <1>1, <1>2, <1>3, <1>4, <1>5, <1>6, <1>7, <1>8, <1>9 DEF IInv

LEMMA UseCallInv ==
    ASSUME IInv, NEW w \in Workers, UseCall(w) PROVE IInv'
<1> USE DEF IInv
<1>1. /\ pc[w] = "use"
      /\ UNCHANGED <<modulusMap, modulusIter, comap, y2x, doa, ttlDelete, heap, mutex,
                     created, dpc, dmod, todo, cur, todel, quiet, failed>>
  BY DEF UseCall, At, modulusVars, memory, doaVars
<1>2. \/ /\ pc' = [pc EXCEPT ![w] = "idle"]
         /\ uniqueExx' = [uniqueExx EXCEPT ![mod[w]] = None]
         /\ msg' = [msg EXCEPT ![w] = None] /\ mod' = [mod EXCEPT ![w] = None]
         /\ rmod' = [rmod EXCEPT ![w] = None] /\ obj' = [obj EXCEPT ![w] = None]
         /\ holds' = [holds EXCEPT ![w] = None] /\ age' = [age EXCEPT ![w] = 0]
      \/ /\ pc' = [pc EXCEPT ![w] = "mutex"]
         /\ UNCHANGED <<uniqueExx, msg, mod, rmod, obj, holds, age>>
  BY DEF UseCall, Unlock, Done, Goto, historyVars
<1>3. ttl' \in [Buckets -> [Addr -> (-1 .. TIMER_DOA) \cup {None}]]
  BY <1>1, ResetType DEF UseCall, Locals
<1>4. /\ pc'[w] \in {"idle", "mutex"}
      /\ pc'[w] = "mutex" =>
            /\ uniqueExx' = uniqueExx /\ msg'[w] = msg[w] /\ mod'[w] = mod[w]
            /\ obj'[w] = obj[w] /\ holds'[w] = holds[w]
      /\ \A m \in Buckets : uniqueExx'[m] = uniqueExx[m] \/ m = mod[w]
      /\ \A v \in Workers \ {w} :
            /\ pc'[v] = pc[v] /\ msg'[v] = msg[v] /\ mod'[v] = mod[v] /\ rmod'[v] = rmod[v]
            /\ obj'[v] = obj[v] /\ holds'[v] = holds[v]
  <2>1. /\ pc \in [Workers -> WorkerPcs] /\ msg \in [Workers -> Messages \cup {None}]
        /\ mod \in [Workers -> Buckets \cup {None}] /\ rmod \in [Workers -> Buckets \cup {None}]
        /\ obj \in [Workers -> Addr \cup {None}] /\ holds \in [Workers -> YIds \cup {None}]
        /\ uniqueExx \in [Buckets -> Workers \cup DoaThreads \cup {None}]
    BY DEF TypeOK
  <2>2. /\ pc'[w] \in {"idle", "mutex"}
        /\ pc'[w] = "mutex" =>
              /\ uniqueExx' = uniqueExx /\ msg'[w] = msg[w] /\ mod'[w] = mod[w]
              /\ obj'[w] = obj[w] /\ holds'[w] = holds[w]
    BY <1>2, <2>1
  <2>3. \A m \in Buckets : uniqueExx'[m] = uniqueExx[m] \/ m = mod[w]
    BY <1>2, <2>1
  <2>4. \A v \in Workers \ {w} :
           /\ pc'[v] = pc[v] /\ msg'[v] = msg[v] /\ mod'[v] = mod[v] /\ rmod'[v] = rmod[v]
           /\ obj'[v] = obj[v] /\ holds'[v] = holds[v]
    BY <1>2, <2>1
  <2> QED BY <2>2, <2>3, <2>4
<1>5. TypeOK'
  <2>1. pc' \in [Workers -> WorkerPcs]
    <3>1. "mutex" \in WorkerPcs /\ "idle" \in WorkerPcs
      BY DEF WorkerPcs
    <3>2. pc \in [Workers -> WorkerPcs]
      BY DEF TypeOK
    <3>3. pc' = [pc EXCEPT ![w] = "idle"] \/ pc' = [pc EXCEPT ![w] = "mutex"]
      BY <1>2
    <3> QED BY <3>1, <3>2, <3>3
  <2>2. uniqueExx' \in [Buckets -> Workers \cup DoaThreads \cup {None}]
    BY <1>2 DEF TypeOK
  <2>3. msg' \in [Workers -> Messages \cup {None}]
    BY <1>2 DEF TypeOK
  <2>4. /\ mod' \in [Workers -> Buckets \cup {None}]
        /\ rmod' \in [Workers -> Buckets \cup {None}]
    BY <1>2 DEF TypeOK
  <2>5. obj' \in [Workers -> Addr \cup {None}]
    BY <1>2 DEF TypeOK
  <2>6. holds' \in [Workers -> YIds \cup {None}]
    <3>1. holds \in [Workers -> YIds \cup {None}]
      BY DEF TypeOK
    <3>2. holds' = [holds EXCEPT ![w] = None] \/ holds' = holds
      BY <1>2
    <3> QED BY <3>1, <3>2
  <2>7. age' \in [Workers -> 0 .. AgeCap]
    <3>1. age \in [Workers -> 0 .. AgeCap] /\ 0 \in 0 .. AgeCap
      BY Bounds DEF TypeOK
    <3>2. age' = [age EXCEPT ![w] = 0] \/ age' = age
      BY <1>2
    <3> QED BY <3>1, <3>2
  <2> QED BY <1>1, <1>3, <2>1, <2>2, <2>3, <2>4, <2>5, <2>6, <2>7 DEF TypeOK
<1>6. Locals'
  BY <1>1, <1>4 DEF Locals
<1>7. Locks'
  <2>1. mod[w] \in Buckets /\ uniqueExx[mod[w]] = w
    BY <1>1 DEF Locals, Locks
  <2>2. \A v \in Workers \ {w} :
           /\ pc[v] \in {"lookup", "use", "mutex"} => mod[v] \in Buckets /\ mod[v] # mod[w]
           /\ pc[v] = "insert" => rmod[v] \in Buckets /\ rmod[v] # mod[w]
    BY <2>1 DEF Locals, Locks
  <2>3. \A d \in DoaThreads : Purging(d) => dmod[d] \in Buckets /\ dmod[d] # mod[w]
    BY <2>1, Constants, Disjoint DEF Locals, Locks, Purging
  <2> QED BY <1>1, <1>4, <2>2, <2>3 DEF Locks, Purging
<1>8. InUse'
  BY <1>1, <1>4 DEF InUse, CallInUseIsAllocated
<1>9. Visits'
  BY <1>1 DEF Visits, Purging
<1>10. Listed'
  <2>1. \A m \in Buckets, x \in CallIds : Leaving(m, x) => Leaving(m, x)'
    BY <1>1 DEF Leaving, Purging
  <2>2. \A m \in Buckets, a \in Addr : Changing(m, a) => Changing(m, a)'
    BY <1>1, <1>4 DEF Changing
  <2> QED BY <1>1, <2>1, <2>2, EntryType DEF Listed
<1>11. Gone'
  BY <1>1 DEF Gone, Purging
<1>12. NoCallLost'
  BY <1>1 DEF NoCallLost
<1>13. DeletedNeverFound'
  BY <1>1 DEF DeletedNeverFound
<1> QED BY <1>5, <1>6, <1>7, <1>8, <1>9, <1>10, <1>11, <1>12, <1>13 DEF IInv

LEMMA GetCallLockInv ==
    ASSUME IInv, NEW w \in Workers, GetCallLock(w) PROVE IInv'
<1> USE DEF IInv, GetCallLock, Unlock, At, Running, Goto, modulusVars, tables, memory,
        historyVars, workerVars, doaVars
<1>1. TypeOK'
  BY DEF TypeOK, WorkerPcs
<1>2. Locals'
  BY DEF Locals
<1>3. Locks'
  BY Disjoint DEF TypeOK, Locals, Locks, Purging
<1>4. InUse'
  BY DEF InUse, CallInUseIsAllocated
<1>5. Visits'
  BY DEF Visits, Purging
<1>6. Listed'
  <2>1. \A m \in Buckets, x \in CallIds : Leaving(m, x) => Leaving(m, x)'
    BY Disjoint DEF TypeOK, Leaving, Purging
  <2>2. \A m \in Buckets, a \in Addr : Changing(m, a) => Changing(m, a)'
    BY Disjoint DEF TypeOK, Changing
  <2> QED BY <2>1, <2>2 DEF Listed, TypeOK
<1>7. Gone'
  BY DEF Gone, Purging
<1>8. NoCallLost'
  BY DEF NoCallLost
<1>9. DeletedNeverFound'
  BY DEF DeletedNeverFound
<1> QED BY <1>1, <1>2, <1>3, <1>4, <1>5, <1>6, <1>7, <1>8, <1>9 DEF IInv

LEMMA CheckDoaInv ==
    ASSUME IInv, NEW w \in Workers, CheckDoa(w) PROVE IInv'
<1> USE DEF IInv, CheckDoa, At, Running, modulusVars, tables, memory, historyVars,
        workerVars, doaVars
<1>1. TypeOK'
  <2>1. modulusMap' \in [CallIds -> Buckets \cup {None}] /\ modulusIter' \in Buckets
    BY ModulusType, Records DEF Locals
  <2> QED BY <2>1 DEF TypeOK
<1>2. Locals'
  BY DEF Locals
<1>3. Locks'
  BY DEF Locks, Purging
<1>4. InUse'
  BY DEF InUse, CallInUseIsAllocated
<1>5. Visits'
  BY DEF Visits, Purging
<1>6. Listed'
  <2>1. \A m \in Buckets, x \in CallIds : Leaving(m, x) => Leaving(m, x)'
    BY Disjoint DEF TypeOK, Leaving, Purging
  <2>2. \A m \in Buckets, a \in Addr : Changing(m, a) => Changing(m, a)'
    BY Disjoint DEF TypeOK, Changing
  <2> QED BY <2>1, <2>2 DEF Listed, TypeOK
<1>7. Gone'
  BY DEF Gone, Purging
<1>8. NoCallLost'
  BY DEF NoCallLost
<1>9. DeletedNeverFound'
  BY DEF DeletedNeverFound
<1> QED BY <1>1, <1>2, <1>3, <1>4, <1>5, <1>6, <1>7, <1>8, <1>9 DEF IInv

LEMMA EndCallInv ==
    ASSUME IInv, NEW w \in Workers, EndCall(w) PROVE IInv'
<1> USE DEF IInv, EndCall, Done, At, Running, Goto, modulusVars, tables, memory,
        historyVars, workerVars, doaVars
<1>1. TypeOK'
  BY Constants DEF TypeOK, Locals, WorkerPcs
<1>2. Locals'
  BY DEF TypeOK, Locals
<1>3. Locks'
  BY DEF TypeOK, Locks, Purging
<1>4. InUse'
  BY DEF TypeOK, InUse, CallInUseIsAllocated
<1>5. Visits'
  BY DEF Visits, Purging
<1>6. Listed'
  <2>1. \A m \in Buckets, x \in CallIds : Leaving(m, x) => Leaving(m, x)'
    BY Disjoint DEF TypeOK, Leaving, Purging
  <2>2. \A m \in Buckets, a \in Addr : Changing(m, a) => Changing(m, a)'
    BY Disjoint DEF TypeOK, Changing
  <2> QED BY <2>1, <2>2 DEF Listed, TypeOK
<1>7. Gone'
  BY DEF Gone, Purging
<1>8. NoCallLost'
  BY DEF NoCallLost
<1>9. DeletedNeverFound'
  BY DEF DeletedNeverFound
<1> QED BY <1>1, <1>2, <1>3, <1>4, <1>5, <1>6, <1>7, <1>8, <1>9 DEF IInv

LEMMA EndCallRequestInv ==
    ASSUME IInv, NEW w \in Workers, EndCallRequest(w) PROVE IInv'
<1> USE DEF IInv, EndCallRequest, At, Running, Goto, modulusVars, tables, memory,
        historyVars, workerVars, doaVars
<1>1. TypeOK'
  <2>1. PICK id \in {heap[obj[w]].x, heap[obj[w]].y} :
          rmod' = [rmod EXCEPT ![w] = getModulus(id)] /\ assignModulus(id)
    OBVIOUS
  <2>2. id \in CallIds \cup YIds
    BY Records DEF TypeOK, Locals, InUse, CallInUseIsAllocated
  <2>3. getModulus(id) \in Buckets /\ modulusMap' \in [CallIds -> Buckets \cup {None}]
        /\ modulusIter' \in Buckets
    BY <2>1, <2>2, ModulusType
  <2> QED BY <2>1, <2>3 DEF TypeOK, Locals, WorkerPcs
<1>2. Locals'
  <2>1. PICK id \in {heap[obj[w]].x, heap[obj[w]].y} :
          rmod' = [rmod EXCEPT ![w] = getModulus(id)] /\ assignModulus(id)
    OBVIOUS
  <2>2. id \in CallIds \cup YIds
    BY Records DEF TypeOK, Locals, InUse, CallInUseIsAllocated
  <2>3. getModulus(id) \in Buckets
    BY <2>2, ModulusType
  <2> QED BY <2>1, <2>3 DEF TypeOK, Locals
<1>3. Locks'
  BY DEF TypeOK, Locks, Purging
<1>4. InUse'
  BY DEF InUse, CallInUseIsAllocated
<1>5. Visits'
  BY DEF Visits, Purging
<1>6. Listed'
  <2>1. \A m \in Buckets, x \in CallIds : Leaving(m, x) => Leaving(m, x)'
    BY Disjoint DEF TypeOK, Leaving, Purging
  <2>2. \A m \in Buckets, a \in Addr : Changing(m, a) => Changing(m, a)'
    BY Disjoint DEF TypeOK, Changing
  <2> QED BY <2>1, <2>2 DEF Listed, TypeOK
<1>7. Gone'
  BY DEF Gone, Purging
<1>8. NoCallLost'
  BY DEF NoCallLost
<1>9. DeletedNeverFound'
  BY DEF DeletedNeverFound
<1> QED BY <1>1, <1>2, <1>3, <1>4, <1>5, <1>6, <1>7, <1>8, <1>9 DEF IInv

LEMMA AskDoaInv ==
    ASSUME IInv, NEW w \in Workers, AskDoa(w) PROVE IInv'
<1> USE DEF IInv, AskDoa, At, Running, Goto, modulusVars, tables, memory, historyVars,
        workerVars, doaVars
<1>1. TypeOK'
  BY DEF TypeOK, WorkerPcs
<1>2. Locals'
  BY DEF Locals
<1>3. Locks'
  BY DEF Locks, Purging
<1>4. InUse'
  BY DEF InUse, CallInUseIsAllocated
<1>5. Visits'
  BY DEF Visits, Purging
<1>6. Listed'
  <2>1. \A m \in Buckets, x \in CallIds : Leaving(m, x) => Leaving(m, x)'
    BY Disjoint DEF TypeOK, Leaving, Purging
  <2>2. \A m \in Buckets, a \in Addr : Changing(m, a) => Changing(m, a)'
    BY Disjoint DEF TypeOK, Changing
  <2> QED BY <2>1, <2>2 DEF Listed, TypeOK
<1>7. Gone'
  BY DEF Gone, Purging
<1>8. NoCallLost'
  BY DEF NoCallLost
<1>9. DeletedNeverFound'
  BY DEF DeletedNeverFound
<1> QED BY <1>1, <1>2, <1>3, <1>4, <1>5, <1>6, <1>7, <1>8, <1>9 DEF IInv

LEMMA RequestAgainInv ==
    ASSUME IInv, NEW w \in Workers, RequestAgain(w) PROVE IInv'
<1> USE DEF IInv, RequestAgain, Done, At, Running, Goto, modulusVars, tables, memory,
        historyVars, workerVars, doaVars
<1>1. TypeOK'
  <2>1. ttl' \in [Buckets -> [Addr -> (-1 .. TIMER_DOA) \cup {None}]]
    BY ResetType DEF Locals
  <2> QED BY <2>1, Constants DEF TypeOK, Locals, WorkerPcs, DoaStates
<1>2. Locals'
  BY DEF TypeOK, Locals
<1>3. Locks'
  BY DEF Locks, Purging
<1>4. InUse'
  BY DEF InUse, CallInUseIsAllocated
<1>5. Visits'
  BY DEF Visits, Purging
<1>6. Listed'
  <2>1. \A m \in Buckets, x \in CallIds : Leaving(m, x) => Leaving(m, x)'
    BY Disjoint DEF TypeOK, Leaving, Purging
  <2>2. \A m \in Buckets, a \in Addr : Changing(m, a) => Changing(m, a)'
    BY Disjoint DEF TypeOK, Changing
  <2> QED BY <2>1, <2>2 DEF Listed, TypeOK
<1>7. Gone'
  BY DEF Gone, Purging
<1>8. NoCallLost'
  BY DEF NoCallLost
<1>9. DeletedNeverFound'
  BY DEF DeletedNeverFound
<1> QED BY <1>1, <1>2, <1>3, <1>4, <1>5, <1>6, <1>7, <1>8, <1>9 DEF IInv

LEMMA RequestFirstInv ==
    ASSUME IInv, NEW w \in Workers, RequestFirst(w) PROVE IInv'
<1> USE DEF IInv, RequestFirst, Lock, At, Running, Goto, modulusVars, tables, memory,
        historyVars, workerVars, doaVars
<1>1. TypeOK'
  <2>1. ttl' \in [Buckets -> [Addr -> (-1 .. TIMER_DOA) \cup {None}]]
    BY ResetType DEF Locals
  <2> QED BY <2>1, Constants DEF TypeOK, Locals, WorkerPcs, DoaStates
<1>2. Locals'
  BY DEF Locals
<1>3. Locks'
  BY Disjoint DEF TypeOK, Locals, Locks, Purging
<1>4. InUse'
  BY DEF InUse, CallInUseIsAllocated
<1>5. Visits'
  BY DEF Visits, Purging
<1>6. Listed'
  <2>1. \A m \in Buckets, x \in CallIds : Leaving(m, x) => Leaving(m, x)'
    BY Disjoint DEF TypeOK, Leaving, Purging
  <2>2. \A m \in Buckets, a \in Addr : Changing(m, a) => Changing(m, a)'
    BY Disjoint DEF TypeOK, Changing
  <2>3. Changing(rmod[w], obj[w])'
    BY DEF TypeOK, Changing
  <2> QED BY <2>1, <2>2, <2>3 DEF Listed, TypeOK, Locals
<1>7. Gone'
  BY DEF Gone, Purging
<1>8. NoCallLost'
  BY DEF NoCallLost
<1>9. DeletedNeverFound'
  BY DEF DeletedNeverFound
<1> QED BY <1>1, <1>2, <1>3, <1>4, <1>5, <1>6, <1>7, <1>8, <1>9 DEF IInv

LEMMA InsertRequestedInv ==
    ASSUME IInv, NEW w \in Workers, InsertRequested(w) PROVE IInv'
<1> USE DEF IInv, InsertRequested, Unlock, Done, At, Running, Goto, modulusVars, tables,
        memory, historyVars, workerVars, doaVars
<1>1. TypeOK'
  <2>1. ttl' \in [Buckets -> [Addr -> (-1 .. TIMER_DOA) \cup {None}]]
    BY ResetType DEF Locals
  <2>2. age' \in [Workers -> 0 .. AgeCap] /\ quiet' \in [Addr -> 0 .. QuietCap]
    BY Bounds DEF TypeOK
  <2>3. doa' \in [Buckets -> [Addr -> DoaStates \cup {None}]]
    BY DEF TypeOK, Locals, DoaStates
  <2> QED BY <2>1, <2>2, <2>3 DEF TypeOK, WorkerPcs
<1>2. Locals'
  BY DEF TypeOK, Locals
<1>3. Locks'
  BY Disjoint DEF TypeOK, Locks, Purging
<1>4. InUse'
  BY DEF InUse, CallInUseIsAllocated
<1>5. Visits'
  BY DEF Visits, Purging
<1>6. Listed'
  <2>1. \A m \in Buckets, x \in CallIds : Leaving(m, x) => Leaving(m, x)'
    BY Disjoint DEF TypeOK, Leaving, Purging
  <2>2. \A m \in Buckets, a \in Addr :
           Changing(m, a) => Changing(m, a)' \/ (m = rmod[w] /\ a = obj[w])
    BY Disjoint DEF TypeOK, Changing
  <2> QED BY <2>1, <2>2 DEF Listed, TypeOK, Locals
<1>7. Gone'
  BY DEF Gone, Purging
<1>8. NoCallLost'
  BY DEF NoCallLost
<1>9. DeletedNeverFound'
  BY DEF DeletedNeverFound
<1> QED BY <1>1, <1>2, <1>3, <1>4, <1>5, <1>6, <1>7, <1>8, <1>9 DEF IInv

LEMMA StartPurgeInv ==
    ASSUME IInv, NEW d \in DoaThreads, StartPurge(d) PROVE IInv'
<1> USE DEF IInv, StartPurge, DoaAt, Running, modulusVars, tables, memory, historyVars,
        workerVars, doaVars
<1>1. TypeOK'
  <2>1. FirstBucket(d) \in FirstBucket(d) .. EndBucket(d) - 1
    BY PurgedAreBuckets
  <2>2. FirstBucket(d) \in Buckets
    BY <2>1, Constants
  <2> QED BY <2>1, <2>2 DEF TypeOK, DoaPcs
<1>2. Locals'
  <2>1. FirstBucket(d) \in FirstBucket(d) .. EndBucket(d) - 1
    BY PurgedAreBuckets
  <2>2. FirstBucket(d) \in Buckets
    BY <2>1, Constants
  <2> QED BY <2>1, <2>2 DEF TypeOK, Locals
<1>3. Locks'
  BY DEF Locks, Purging
<1>4. InUse'
  BY DEF InUse, CallInUseIsAllocated
<1>5. Visits'
  BY DEF Visits, Purging
<1>6. Listed'
  <2>1. \A m \in Buckets, x \in CallIds : Leaving(m, x) => Leaving(m, x)'
    BY Disjoint DEF TypeOK, Leaving, Purging
  <2>2. \A m \in Buckets, a \in Addr : Changing(m, a) => Changing(m, a)'
    BY Disjoint DEF TypeOK, Changing
  <2> QED BY <2>1, <2>2 DEF Listed, TypeOK
<1>7. Gone'
  BY DEF Gone, Purging
<1>8. NoCallLost'
  BY DEF NoCallLost
<1>9. DeletedNeverFound'
  BY DEF DeletedNeverFound
<1> QED BY <1>1, <1>2, <1>3, <1>4, <1>5, <1>6, <1>7, <1>8, <1>9 DEF IInv

LEMMA SkipBucketInv ==
    ASSUME IInv, NEW d \in DoaThreads, SkipBucket(d) PROVE IInv'
<1> USE DEF IInv
<1>1. /\ dpc[d] = "try"
      /\ UNCHANGED <<modulusMap, modulusIter, comap, y2x, doa, ttl, ttlDelete, uniqueExx, heap,
                     mutex, created, pc, msg, mod, rmod, obj, holds, age, todo, cur, todel,
                     quiet, failed>>
  BY DEF SkipBucket, DoaAt, modulusVars, tables, memory, workerVars, historyVars
<1>2. /\ dpc' \in [DoaThreads -> DoaPcs] /\ dmod' \in [DoaThreads -> Buckets \cup {None}]
      /\ dpc'[d] \in {"try", "sleep"}
      /\ dpc'[d] = "try" => dmod'[d] \in FirstBucket(d) .. EndBucket(d) - 1
      /\ \A e \in DoaThreads \ {d} : dpc'[e] = dpc[e] /\ dmod'[e] = dmod[e]
  BY <1>1, NextBucketIs DEF SkipBucket, Locals
<1>3. TypeOK'
  BY <1>1, <1>2 DEF TypeOK
<1>4. Locals'
  BY <1>1, <1>2 DEF Locals
<1>5. Locks'
  BY <1>1, <1>2 DEF Locks, Purging
<1>6. InUse'
  BY <1>1 DEF InUse, CallInUseIsAllocated
<1>7. Visits'
  BY <1>1, <1>2 DEF Visits, Purging
<1>8. Listed'
  <2>1. \A m \in Buckets, x \in CallIds : Leaving(m, x) => Leaving(m, x)'
    BY <1>1, <1>2 DEF TypeOK, Leaving, Purging
  <2>2. \A m \in Buckets, a \in Addr : Changing(m, a) => Changing(m, a)'
    BY <1>1, <1>2 DEF TypeOK, Changing
  <2> QED BY <1>1, <2>1, <2>2, EntryType DEF Listed
<1>9. Gone'
  BY <1>1, <1>2 DEF Gone, Purging
<1>10. NoCallLost'
  BY <1>1 DEF NoCallLost
<1>11. DeletedNeverFound'
  BY <1>1 DEF DeletedNeverFound
<1> QED BY <1>3, <1>4, <1>5, <1>6, <1>7, <1>8, <1>9, <1>10, <1>11 DEF IInv

LEMMA TryBucketInv ==
    ASSUME IInv, NEW d \in DoaThreads, TryBucket(d) PROVE IInv'
<1> USE DEF IInv, TryBucket, Lock, DoaAt, Running, modulusVars, tables, memory,
        historyVars, workerVars, doaVars
<1>1. TypeOK'
  BY DEF TypeOK, DoaPcs
<1>2. Locals'
  BY DEF Locals
<1>3. Locks'
  BY Disjoint DEF TypeOK, Locals, Locks, Purging
<1>4. InUse'
  BY DEF InUse, CallInUseIsAllocated
<1>5. Visits'
  BY DEF TypeOK, Visits, Purging
<1>6. Listed'
  <2>1. \A m \in Buckets, x \in CallIds : Leaving(m, x) => Leaving(m, x)'
    BY Disjoint DEF TypeOK, Leaving, Purging
  <2>2. \A m \in Buckets, a \in Addr : Changing(m, a) => Changing(m, a)'
    BY Disjoint DEF TypeOK, Changing
  <2> QED BY <2>1, <2>2 DEF Listed, TypeOK
<1>7. Gone'
  BY DEF Visits, Gone
<1>8. NoCallLost'
  BY DEF NoCallLost
<1>9. DeletedNeverFound'
  BY DEF DeletedNeverFound
<1> QED BY <1>1, <1>2, <1>3, <1>4, <1>5, <1>6, <1>7, <1>8, <1>9 DEF IInv

LEMMA KeepEntryInv ==
    ASSUME IInv, NEW d \in DoaThreads, KeepEntry(d) PROVE IInv'
<1> USE DEF IInv, KeepEntry, DoaAt, Running, modulusVars, tables, memory, historyVars,
        workerVars, doaVars
<1>1. TypeOK'
  BY DEF TypeOK
<1>2. Locals'
  BY DEF Locals
<1>3. Locks'
  BY DEF Locks, Purging
<1>4. InUse'
  BY DEF InUse, CallInUseIsAllocated
<1>5. Visits'
  BY DEF Visits, Purging
<1>6. Listed'
  <2>1. \A m \in Buckets, x \in CallIds : Leaving(m, x) => Leaving(m, x)'
    BY Disjoint DEF TypeOK, Leaving, Purging
  <2>2. \A m \in Buckets, a \in Addr : Changing(m, a) => Changing(m, a)'
    BY Disjoint DEF TypeOK, Changing
  <2> QED BY <2>1, <2>2 DEF Listed, TypeOK
<1>7. Gone'
  BY DEF Gone, Purging
<1>8. NoCallLost'
  BY DEF NoCallLost
<1>9. DeletedNeverFound'
  BY DEF DeletedNeverFound
<1> QED BY <1>1, <1>2, <1>3, <1>4, <1>5, <1>6, <1>7, <1>8, <1>9 DEF IInv

\* The entry visited is a call of the bucket that is requested and expired.
ExpiresEntry(d, x, a) ==
    /\ dpc[d] = "scan" /\ dmod[d] \in Buckets /\ uniqueExx[dmod[d]] = d
    /\ x \in todo[d] /\ a = comap[dmod[d]][x] /\ ~Leaving(dmod[d], x)
    /\ heap[a] # None /\ heap[a].x = x /\ heap[a].y[1] = dmod[d]
    /\ ttlDelete[dmod[d]][a] = -1
    /\ doa[dmod[d]][a] = "DOA_REQUESTED" /\ ttl[dmod[d]][a] = -1
    /\ doa' = [doa EXCEPT ![dmod[d]][a] = None]
    /\ dpc' = [dpc EXCEPT ![d] = "mark"]
    /\ cur' = [cur EXCEPT ![d] = a]
    /\ todo' = [todo EXCEPT ![d] = @ \ {x}]
    /\ UNCHANGED <<modulusMap, modulusIter, comap, y2x, ttl, ttlDelete, uniqueExx, heap,
                   mutex, created, pc, msg, mod, rmod, obj, holds, age, dmod, todel, quiet,
                   failed>>

LEMMA ExpireEntryDoes ==
    ASSUME IInv, NEW d \in DoaThreads, ExpireEntry(d)
    PROVE  \E x \in CallIds, a \in Addr : ExpiresEntry(d, x, a)
<1> USE DEF IInv
<1>1. dpc[d] = "scan" /\ dmod[d] \in Buckets /\ uniqueExx[dmod[d]] = d
  BY Constants DEF ExpireEntry, DoaAt, Locals, Locks, Purging
<1>2. PICK x \in todo[d] :
          LET a == comap[dmod[d]][x]
              s == getDoa(a, dmod[d])
          IN
          /\ s = "DOA_DELETED" \/ (s = "DOA_REQUESTED" /\ ttl[dmod[d]][a] = -1)
          /\ doa' = IF s = "DOA_DELETED" THEN doa ELSE [doa EXCEPT ![dmod[d]][a] = None]
          /\ dpc' = [dpc EXCEPT ![d] = IF s = "DOA_DELETED" THEN "delete" ELSE "mark"]
          /\ cur' = [cur EXCEPT ![d] = a]
          /\ todo' = [todo EXCEPT ![d] = @ \ {x}]
  BY DEF ExpireEntry
<1> DEFINE a == comap[dmod[d]][x]
<1>3. x \in CallIds /\ a # None /\ ~Leaving(dmod[d], x)
  <2>1. Purging(d) /\ x \in CallIds
    BY <1>1 DEF TypeOK, Purging
  <2>2. a # None /\ x \notin todel[d]
    BY <2>1 DEF Visits
  <2>3. \A e \in DoaThreads : Purging(e) /\ dmod[e] = dmod[d] => e = d
    BY <1>1 DEF Locks
  <2> QED BY <2>1, <2>2, <2>3 DEF Leaving
<1>4. ~Changing(dmod[d], a)
  BY <1>1, Disjoint DEF Changing, Locks, Purging
<1>5. /\ a \in Addr /\ heap[a] # None /\ heap[a].x = x /\ heap[a].y[1] = dmod[d]
      /\ ttlDelete[dmod[d]][a] = -1
      /\ doa[dmod[d]][a] \in {"NOT_DOA", "DOA_REQUESTED"}
  BY <1>1, <1>3, <1>4, EntryType DEF Listed
<1>6. getDoa(a, dmod[d]) = doa[dmod[d]][a]
  BY <1>5, Disjoint DEF getDoa
<1>7. /\ doa[dmod[d]][a] = "DOA_REQUESTED" /\ ttl[dmod[d]][a] = -1
      /\ doa' = [doa EXCEPT ![dmod[d]][a] = None]
      /\ dpc' = [dpc EXCEPT ![d] = "mark"]
      /\ cur' = [cur EXCEPT ![d] = a]
      /\ todo' = [todo EXCEPT ![d] = @ \ {x}]
  BY <1>2, <1>5, <1>6
<1> HIDE DEF a
<1>8. UNCHANGED <<modulusMap, modulusIter, comap, y2x, ttl, ttlDelete, uniqueExx, heap,
                  mutex, created, pc, msg, mod, rmod, obj, holds, age, dmod, todel, quiet,
                  failed>>
  BY DEF ExpireEntry, modulusVars, memory, workerVars, historyVars
<1>9. ExpiresEntry(d, x, a)
  BY <1>1, <1>2, <1>3, <1>5, <1>7, <1>8 DEF ExpiresEntry, a
<1> QED BY <1>3, <1>5, <1>9

LEMMA ExpireEntryInv ==
    ASSUME IInv, NEW d \in DoaThreads, ExpireEntry(d) PROVE IInv'
<1> USE DEF IInv
<1>0. PICK x \in CallIds, a \in Addr : ExpiresEntry(d, x, a)
  BY ExpireEntryDoes
<1>1. dpc[d] = "scan" /\ dmod[d] \in Buckets /\ uniqueExx[dmod[d]] = d
  BY <1>0 DEF ExpiresEntry
<1>3. UNCHANGED <<modulusMap, modulusIter, comap, y2x, ttl, ttlDelete, uniqueExx, heap,
                  mutex, created, pc, msg, mod, rmod, obj, holds, age, dmod, todel, quiet,
                  failed>>
  BY <1>0 DEF ExpiresEntry
<1>4. x \in todo[d] /\ a = comap[dmod[d]][x] /\ a # None /\ ~Leaving(dmod[d], x)
  BY <1>0, Disjoint DEF ExpiresEntry
<1>5. /\ heap[a] # None /\ heap[a].x = x /\ heap[a].y[1] = dmod[d]
      /\ ttlDelete[dmod[d]][a] = -1
  BY <1>0 DEF ExpiresEntry
<1>6. /\ doa' = [doa EXCEPT ![dmod[d]][a] = None] /\ dpc' = [dpc EXCEPT ![d] = "mark"]
      /\ cur' = [cur EXCEPT ![d] = a]
      /\ todo' = [todo EXCEPT ![d] = @ \ {x}]
  BY <1>0 DEF ExpiresEntry
<1>7. /\ dpc'[d] \in {"mark", "delete"} /\ cur'[d] = a /\ todo'[d] = todo[d] \ {x}
      /\ \A e \in DoaThreads \ {d} : dpc'[e] = dpc[e] /\ cur'[e] = cur[e] /\ todo'[e] = todo[e]
  BY <1>6 DEF TypeOK
<1>8. TypeOK'
  <2>1. doa' \in [Buckets -> [Addr -> DoaStates \cup {None}]]
    BY <1>1, <1>6 DEF TypeOK
  <2>2. /\ dpc' \in [DoaThreads -> DoaPcs] /\ cur' \in [DoaThreads -> Addr \cup {None}]
        /\ todo' \in [DoaThreads -> SUBSET CallIds]
    BY <1>5, <1>6 DEF TypeOK, DoaPcs
  <2> QED BY <1>3, <2>1, <2>2 DEF TypeOK
<1>9. Locals'
  BY <1>1, <1>3, <1>5, <1>7 DEF Locals
<1>10. Locks'
  BY <1>1, <1>3, <1>7 DEF Locks, Purging
<1>11. InUse'
  BY <1>3 DEF InUse, CallInUseIsAllocated
<1>12. Visits'
  BY <1>1, <1>3, <1>4, <1>5, <1>7 DEF Visits, Purging
<1>13. Listed'
  <2>1. \A m \in Buckets, z \in CallIds : Leaving(m, z) => Leaving(m, z)'
    BY <1>1, <1>3, <1>7 DEF Leaving, Purging
  <2>2. \A m \in Buckets, b \in Addr : Changing(m, b) => Changing(m, b)'
    BY <1>1, <1>3, <1>7 DEF Changing
  <2>3. \A m \in Buckets, b \in Addr : m = dmod[d] /\ b = a => Changing(m, b)'
    BY <1>3, <1>7 DEF Changing
  <2>4. \A m \in Buckets, b \in Addr : m # dmod[d] \/ b # a => doa'[m][b] = doa[m][b]
    BY <1>1, <1>6 DEF TypeOK
  <2> QED BY <1>1, <1>3, <1>5, <2>1, <2>2, <2>3, <2>4, EntryType DEF Listed
<1>14. Gone'
  BY <1>1, <1>3, <1>7 DEF Gone, Purging
<1>15. NoCallLost'
  BY <1>3 DEF NoCallLost
<1>16. DeletedNeverFound'
  BY <1>3 DEF DeletedNeverFound
<1> QED BY <1>8, <1>9, <1>10, <1>11, <1>12, <1>13, <1>14, <1>15, <1>16 DEF IInv

LEMMA MarkDeletedInv ==
    ASSUME IInv, NEW d \in DoaThreads, MarkDeleted(d) PROVE IInv'
<1> USE DEF IInv, MarkDeleted, DoaAt, Running, modulusVars, tables, memory, historyVars,
        workerVars, doaVars
<1>1. TypeOK'
  <2>1. dmod[d] \in Buckets /\ cur[d] \in Addr
    BY Constants DEF Locals
  <2>2. doa' \in [Buckets -> [Addr -> DoaStates \cup {None}]]
    BY <2>1 DEF TypeOK, DoaStates
  <2>3. ttl' \in [Buckets -> [Addr -> (-1 .. TIMER_DOA) \cup {None}]]
    BY <2>1 DEF TypeOK
  <2>4. ttlDelete' \in [Buckets -> [Addr -> (-1 .. GRACE) \cup {None}]]
    BY <2>1, Bounds DEF TypeOK
  <2>5. dpc' \in [DoaThreads -> DoaPcs]
    BY DEF TypeOK, DoaPcs
  <2> QED BY <2>2, <2>3, <2>4, <2>5 DEF TypeOK
<1>2. Locals'
  BY DEF Locals
<1>3. Locks'
  BY DEF Locks, Purging
<1>4. InUse'
  BY DEF InUse, CallInUseIsAllocated
<1>5. Visits'
  BY Disjoint DEF Visits, Purging
<1>6. Listed'
  <2>1. \A m \in Buckets, x \in CallIds : Leaving(m, x) => Leaving(m, x)'
    BY Disjoint DEF TypeOK, Leaving, Purging
  <2>2. \A m \in Buckets, a \in Addr : Changing(m, a) => Changing(m, a)'
    BY Disjoint DEF TypeOK, Changing
  <2>3. Changing(dmod[d], cur[d])'
    BY DEF TypeOK, Changing
  <2>4. \A m \in Buckets, a \in Addr : ttlDelete'[m][a] = ttlDelete[m][a]
    BY Constants, Disjoint DEF TypeOK, Locals, Visits
  <2>5. dmod[d] \in Buckets /\ cur[d] \in Addr
    BY Constants DEF Locals
  <2> QED BY <2>1, <2>2, <2>3, <2>4, <2>5 DEF Listed, TypeOK
<1>7. Gone'
  BY DEF Gone, Purging
<1>8. NoCallLost'
  BY DEF NoCallLost
<1>9. DeletedNeverFound'
  BY DEF DeletedNeverFound
<1> QED BY <1>1, <1>2, <1>3, <1>4, <1>5, <1>6, <1>7, <1>8, <1>9 DEF IInv

LEMMA ReapEntryInv ==
    ASSUME IInv, NEW d \in DoaThreads, ReapEntry(d) PROVE IInv'
<1> USE DEF IInv
<1>1. /\ dpc[d] = "delete" /\ dmod[d] \in Buckets /\ cur[d] \in Addr
      /\ ttlDelete[dmod[d]][cur[d]] = -1
      /\ heap[cur[d]] \in Calls /\ heap[cur[d]].y[1] = dmod[d]
  <2>1. dpc[d] = "delete" /\ dmod[d] \in Buckets /\ cur[d] \in Addr
    BY Constants DEF ReapEntry, DoaAt, Locals
  <2>2. /\ ttlDelete[dmod[d]][cur[d]] = -1 /\ heap[cur[d]] # None
        /\ heap[cur[d]].y[1] = dmod[d]
    BY <2>1 DEF Visits
  <2> QED BY <2>1, <2>2 DEF TypeOK
<1> DEFINE x0 == heap[cur[d]].x
           k0 == heap[cur[d]].y[2]
<1>2. /\ doa' = [doa EXCEPT ![dmod[d]][cur[d]] = None]
      /\ ttl' = [ttl EXCEPT ![dmod[d]][cur[d]] = None]
      /\ ttlDelete' = [ttlDelete EXCEPT ![dmod[d]][cur[d]] = None]
      /\ y2x' = [y2x EXCEPT ![dmod[d]][k0] = None]
      /\ todel' = [todel EXCEPT ![d] = @ \cup {x0}]
      /\ dpc' = [dpc EXCEPT ![d] = "free"]
      /\ UNCHANGED <<modulusMap, modulusIter, comap, uniqueExx, heap, mutex, created, pc, msg,
                     mod, rmod, obj, holds, age, dmod, todo, cur, quiet, failed>>
  BY <1>1 DEF ReapEntry, Unlist, modulusVars, memory, workerVars, historyVars
<1>3. x0 \in CallIds /\ k0 \in Keys
  BY <1>1, Records
<1>4. /\ dpc'[d] = "free" /\ todel'[d] = todel[d] \cup {x0}
      /\ \A e \in DoaThreads \ {d} : dpc'[e] = dpc[e] /\ todel'[e] = todel[e]
  BY <1>2 DEF TypeOK
<1>5. uniqueExx[dmod[d]] = d
  BY <1>1 DEF Locks, Purging
<1> HIDE DEF x0, k0
<1>6. TypeOK'
  <2>1. doa' \in [Buckets -> [Addr -> DoaStates \cup {None}]]
    BY <1>1, <1>2 DEF TypeOK
  <2>2. /\ ttl' \in [Buckets -> [Addr -> (-1 .. TIMER_DOA) \cup {None}]]
        /\ ttlDelete' \in [Buckets -> [Addr -> (-1 .. GRACE) \cup {None}]]
    BY <1>1, <1>2 DEF TypeOK
  <2>3. y2x' \in [Buckets -> [Keys -> CallIds \cup {None}]]
    BY <1>1, <1>2, <1>3 DEF TypeOK
  <2>4. dpc' \in [DoaThreads -> DoaPcs] /\ todel' \in [DoaThreads -> SUBSET CallIds]
    BY <1>2, <1>3 DEF TypeOK, DoaPcs
  <2> QED BY <1>2, <2>1, <2>2, <2>3, <2>4 DEF TypeOK
<1>7. Locals'
  BY <1>1, <1>2, <1>4 DEF Locals
<1>8. Locks'
  BY <1>1, <1>2, <1>4 DEF Locks, Purging
<1>9. InUse'
  BY <1>2 DEF InUse, CallInUseIsAllocated
<1>10. Visits'
  <2>1. x0 \notin todo[d]
    BY <1>1 DEF Visits, x0
  <2>2. \A e \in DoaThreads \ {d} : dpc[e] \in {"mark", "delete"} =>
           ttlDelete'[dmod[e]][cur[e]] = ttlDelete[dmod[e]][cur[e]]
    <3>1. \A e \in DoaThreads \ {d} : dpc[e] \in {"mark", "delete"} =>
             dmod[e] \in Buckets /\ cur[e] \in Addr /\ dmod[e] # dmod[d]
      BY <1>5, Constants DEF Locals, Locks, Purging
    <3> QED BY <1>1, <1>2, <3>1 DEF TypeOK
  <2> QED BY <1>1, <1>2, <1>4, <2>1, <2>2 DEF Visits, Purging, x0
<1>11. Listed'
  <2>1. \A m \in Buckets, x \in CallIds : Leaving(m, x) => Leaving(m, x)'
    BY <1>1, <1>2, <1>4 DEF Leaving, Purging
  <2>2. \A m \in Buckets, a \in Addr :
           Changing(m, a) => Changing(m, a)' \/ (m = dmod[d] /\ a = cur[d])
    BY <1>2, <1>4 DEF Changing
  <2>3. \A m \in Buckets, x \in CallIds : m = dmod[d] /\ x = x0 => Leaving(m, x)'
    BY <1>2, <1>4 DEF Leaving, Purging
  <2>4. \A x \in CallIds : comap[dmod[d]][x] = cur[d] => Leaving(dmod[d], x) \/ x = x0
    BY <1>1, Disjoint DEF Listed, x0
  <2>5. \A m \in Buckets, a \in Addr : m # dmod[d] \/ a # cur[d] =>
           ttlDelete'[m][a] = ttlDelete[m][a] /\ doa'[m][a] = doa[m][a]
    BY <1>1, <1>2 DEF TypeOK
  <2> QED BY <1>1, <1>2, <2>1, <2>2, <2>3, <2>4, <2>5, EntryType DEF Listed
<1>12. Gone'
  <2>1. ASSUME NEW a \in Addr, heap[a] # None, heap[a].y[1] = dmod[d], heap[a].x = x0
        PROVE  a = cur[d]
    BY <1>1, <2>1, Disjoint DEF NoCallLost, x0
  <2>2. \A a \in Addr :
           heap[a] # None /\ heap[a].y[1] = dmod[d] => heap[a].x \notin todel[d]
    BY <1>1 DEF Gone, Purging
  <2> QED BY <1>1, <1>2, <1>4, <2>1, <2>2 DEF Gone, Purging
<1>13. NoCallLost'
  BY <1>2 DEF NoCallLost
<1>14. DeletedNeverFound'
  BY <1>2 DEF DeletedNeverFound
<1> QED BY <1>6, <1>7, <1>8, <1>9, <1>10, <1>11, <1>12, <1>13, <1>14 DEF IInv

LEMMA FreeCallInv ==
    ASSUME IInv, NEW d \in DoaThreads, FreeCall(d) PROVE IInv'
<1> USE DEF IInv, FreeCall, DoaAt, Running, modulusVars, tables, memory, historyVars,
        workerVars, doaVars
<1>1. TypeOK'
  <2>1. heap' \in [Addr -> Calls \cup {None}]
    BY DEF TypeOK
  <2>2. modulusMap' \in [CallIds -> Buckets \cup {None}]
    BY DEF TypeOK
  <2>3. quiet' \in [Addr -> 0 .. QuietCap]
    BY Bounds DEF TypeOK
  <2>4. cur' \in [DoaThreads -> Addr \cup {None}] /\ dpc' \in [DoaThreads -> DoaPcs]
    BY DEF TypeOK, DoaPcs
  <2> QED BY <2>1, <2>2, <2>3, <2>4 DEF TypeOK
<1>2. Locals'
  BY DEF TypeOK, Locals
<1>3. Locks'
  BY DEF Locks, Purging
<1>4. InUse'
  <2>1. ASSUME NEW w \in Workers, pc[w] \in {"use", "mutex", "incall"} PROVE obj[w] # cur[d]
    <3>1. CASE pc[w] = "incall"
      BY <3>1, Disjoint DEF Locks
    <3>2. CASE pc[w] \in {"use", "mutex"}
      <4>1. uniqueExx[mod[w]] = w /\ uniqueExx[dmod[d]] = d /\ w # d
        BY <3>2, Disjoint DEF Locks, Purging
      <4> QED BY <3>2, <4>1 DEF InUse, Visits
    <3> QED BY <2>1, <3>1, <3>2
  <2> QED BY <2>1 DEF TypeOK, Locals, InUse, CallInUseIsAllocated
<1>5. Visits'
  BY DEF TypeOK, Locks, Visits, Purging
<1>6. Listed'
  <2>1. \A m \in Buckets, x \in CallIds : Leaving(m, x) => Leaving(m, x)'
    BY Disjoint DEF TypeOK, Leaving, Purging
  <2>2. \A m \in Buckets, a \in Addr : Changing(m, a) => Changing(m, a)'
    BY Disjoint DEF TypeOK, Changing
  <2>3. cur[d] \in Addr /\ dmod[d] \in Buckets
    BY Constants DEF Locals
  <2>4. ASSUME NEW m \in Buckets, NEW x \in CallIds, comap[m][x] = cur[d], ~Leaving(m, x)
        PROVE  FALSE
    <3>1. heap[cur[d]].x = x /\ heap[cur[d]].y[1] = m
      BY <2>3, <2>4, Disjoint DEF Listed
    <3>2. x \in todel[d] /\ m = dmod[d] /\ Purging(d)
      BY <3>1 DEF Visits, Purging
    <3> QED BY <2>4, <3>2 DEF Leaving
  <2> QED BY <2>1, <2>2, <2>3, <2>4 DEF Listed, TypeOK
<1>7. Gone'
  BY DEF TypeOK, Gone, Purging
<1>8. NoCallLost'
  BY DEF NoCallLost
<1>9. DeletedNeverFound'
  BY DEF DeletedNeverFound
<1> QED BY <1>1, <1>2, <1>3, <1>4, <1>5, <1>6, <1>7, <1>8, <1>9 DEF IInv

LEMMA EndPurgeInv ==
    ASSUME IInv, NEW d \in DoaThreads, EndPurge(d) PROVE IInv'
<1> USE DEF IInv
<1>1. /\ dpc[d] = "scan" /\ todo[d] = {} /\ dmod[d] \in Buckets
      /\ comap' = [comap EXCEPT ![dmod[d]] =
                      [x \in CallIds |-> IF x \in todel[d] THEN None ELSE comap[dmod[d]][x]]]
      /\ todel' = [todel EXCEPT ![d] = {}]
      /\ uniqueExx' = [uniqueExx EXCEPT ![dmod[d]] = None]
      /\ UNCHANGED <<modulusMap, modulusIter, y2x, doa, ttl, ttlDelete, heap, mutex, created,
                     pc, msg, mod, rmod, obj, holds, age, todo, cur, quiet, failed>>
  BY Constants DEF EndPurge, DoaAt, Unlock, Locals, modulusVars, memory, workerVars,
      historyVars
<1>2. /\ dpc' \in [DoaThreads -> DoaPcs] /\ dmod' \in [DoaThreads -> Buckets \cup {None}]
      /\ dpc'[d] \in {"try", "sleep"}
      /\ dpc'[d] = "try" => dmod'[d] \in FirstBucket(d) .. EndBucket(d) - 1
      /\ \A e \in DoaThreads \ {d} : dpc'[e] = dpc[e] /\ dmod'[e] = dmod[e]
  BY <1>1, NextBucketIs DEF EndPurge, Locals
<1>3. \A m \in Buckets, x \in CallIds :
         comap'[m][x] = IF m = dmod[d] /\ x \in todel[d] THEN None ELSE comap[m][x]
  BY <1>1 DEF TypeOK
<1>4. \A m \in Buckets : uniqueExx'[m] = IF m = dmod[d] THEN None ELSE uniqueExx[m]
  BY <1>1 DEF TypeOK
<1>5. \A e \in DoaThreads : todel'[e] = IF e = d THEN {} ELSE todel[e]
  BY <1>1 DEF TypeOK
<1>6. uniqueExx[dmod[d]] = d
  BY <1>1 DEF Locks, Purging
<1>7. TypeOK'
  <2>1. comap \in [Buckets -> [CallIds -> Addr \cup {None}]]
    BY DEF TypeOK
  <2>2. comap' \in [Buckets -> [CallIds -> Addr \cup {None}]]
    BY <1>1, <2>1, EntryType
  <2>3. uniqueExx' \in [Buckets -> Workers \cup DoaThreads \cup {None}]
        /\ todel' \in [DoaThreads -> SUBSET CallIds]
    BY <1>1 DEF TypeOK
  <2> QED BY <1>1, <1>2, <2>2, <2>3 DEF TypeOK
<1>8. Locals'
  BY <1>1, <1>2 DEF Locals
<1>9. Locks'
  <2>1. \A w \in Workers : w # d /\ (pc[w] # "idle" => mod[w] \in Buckets)
                         /\ (pc[w] = "insert" => rmod[w] \in Buckets)
    BY Disjoint DEF Locals
  <2>2. \A e \in DoaThreads : Purging(e) => dmod[e] \in Buckets
    BY Constants DEF Locals, Purging
  <2> QED BY <1>1, <1>2, <1>4, <1>6, <2>1, <2>2 DEF Locks, Purging
<1>10. InUse'
  BY <1>1 DEF InUse, CallInUseIsAllocated
<1>11. Visits'
  <2>1. \A e \in DoaThreads \ {d} : Purging(e) => dmod[e] \in Buckets /\ dmod[e] # dmod[d]
    BY <1>6, Constants DEF Locals, Locks, Purging
  <2>2. ASSUME NEW e \in DoaThreads \ {d}, Purging(e), NEW x \in todo[e]
        PROVE  comap'[dmod[e]][x] # None
    <3>1. x \in CallIds
      BY <2>2 DEF TypeOK
    <3> QED BY <1>3, <2>1, <2>2, <3>1 DEF Visits
  <2> QED BY <1>1, <1>2, <1>5, <2>2 DEF Visits, Purging
<1>12. Listed'
  <2>1. \A m \in Buckets, x \in CallIds :
           Leaving(m, x) => Leaving(m, x)' \/ (m = dmod[d] /\ x \in todel[d])
    BY <1>2, <1>5 DEF Leaving, Purging
  <2>2. \A m \in Buckets, a \in Addr : Changing(m, a) => Changing(m, a)'
    BY <1>1, <1>2 DEF Changing
  <2> QED BY <1>1, <1>3, <2>1, <2>2, EntryType DEF Listed
<1>13. Gone'
  BY <1>1, <1>2, <1>5 DEF Gone, Purging
<1>14. NoCallLost'
  <2>1. ASSUME NEW a \in Addr, heap[a] # None
        PROVE  comap'[heap[a].y[1]][heap[a].x] = a
    <3>1. heap[a].y[1] \in Buckets /\ heap[a].x \in CallIds
      BY <2>1, Records DEF TypeOK
    <3>2. ~(heap[a].y[1] = dmod[d] /\ heap[a].x \in todel[d])
      BY <1>1, <2>1 DEF Gone, Purging
    <3> QED BY <1>3, <2>1, <3>1, <3>2 DEF NoCallLost
  <2> QED BY <1>1, <2>1 DEF NoCallLost
<1>15. DeletedNeverFound'
  BY <1>1 DEF DeletedNeverFound
<1> QED BY <1>7, <1>8, <1>9, <1>10, <1>11, <1>12, <1>13, <1>14, <1>15 DEF IInv

LEMMA TickInv ==
    ASSUME IInv, Tick PROVE IInv'
<1> USE DEF IInv, Tick, Running, modulusVars, tables, memory, historyVars, workerVars,
        doaVars
<1>1. TypeOK'
  <2>1. ttl' \in [Buckets -> [Addr -> (-1 .. TIMER_DOA) \cup {None}]]
    BY Constants, TimeType DEF TypeOK
  <2>2. ttlDelete' \in [Buckets -> [Addr -> (-1 .. GRACE) \cup {None}]]
    BY Constants, TimeType DEF TypeOK
  <2>3. age' \in [Workers -> 0 .. AgeCap] /\ quiet' \in [Addr -> 0 .. QuietCap]
    BY Constants, TimeType DEF TypeOK
  <2> QED BY <2>1, <2>2, <2>3 DEF TypeOK
<1>2. Locals'
  BY DEF Locals
<1>3. Locks'
  BY DEF Locks, Purging
<1>4. InUse'
  BY DEF InUse, CallInUseIsAllocated
<1>5. Visits'
  <2>1. \A m \in Buckets, a \in Addr : ttlDelete[m][a] = -1 => ttlDelete'[m][a] = -1
    BY DEF TypeOK, Elapse
  <2>2. \A d \in DoaThreads :
           dpc[d] \in {"mark", "delete"} => dmod[d] \in Buckets /\ cur[d] \in Addr
    BY Constants DEF Locals
  <2> QED BY <2>1, <2>2 DEF Visits, Purging
<1>6. Listed'
  <2>1. \A m \in Buckets, x \in CallIds : Leaving(m, x) => Leaving(m, x)'
    BY Disjoint DEF TypeOK, Leaving, Purging
  <2>2. \A m \in Buckets, a \in Addr : Changing(m, a) => Changing(m, a)'
    BY Disjoint DEF TypeOK, Changing
  <2>3. \A m \in Buckets, a \in Addr : ttlDelete[m][a] = -1 => ttlDelete'[m][a] = -1
    BY DEF TypeOK, Elapse
  <2> QED BY <2>1, <2>2, <2>3 DEF Listed, TypeOK
<1>7. Gone'
  BY DEF Gone, Purging
<1>8. NoCallLost'
  BY DEF NoCallLost
<1>9. DeletedNeverFound'
  BY DEF DeletedNeverFound
<1> QED BY <1>1, <1>2, <1>3, <1>4, <1>5, <1>6, <1>7, <1>8, <1>9 DEF IInv

-----------------------------------------------------------------------------
(* The invariant holds of every reachable state.                           *)

LEMMA InitInv == Init => IInv
<1> SUFFICES ASSUME Init PROVE IInv
  OBVIOUS
<1>1. TypeOK
  BY Constants, Bounds DEF Init, TypeOK, WorkerPcs, DoaPcs
<1>2. Locals /\ Locks
  BY DEF Init, Locals, Locks, Purging
<1>3. InUse /\ Visits
  BY DEF Init, InUse, CallInUseIsAllocated, Visits, Purging
<1>4. Listed /\ Gone
  BY DEF Init, Listed, Gone, Purging
<1>5. NoCallLost /\ DeletedNeverFound
  BY DEF Init, NoCallLost, DeletedNeverFound
<1> QED BY <1>1, <1>2, <1>3, <1>4, <1>5 DEF IInv

LEMMA StutterInv == IInv /\ UNCHANGED vars => IInv'
<1> SUFFICES ASSUME IInv, UNCHANGED vars PROVE IInv'
  OBVIOUS
<1> USE DEF vars, modulusVars, tables, memory, historyVars, workerVars, doaVars
<1>1. TypeOK' /\ Locals' /\ Locks'
  BY DEF IInv, TypeOK, Locals, Locks, Purging
<1>2. InUse' /\ Visits'
  BY DEF IInv, InUse, CallInUseIsAllocated, Visits, Purging
<1>3. Listed' /\ Gone'
  BY DEF IInv, Listed, Leaving, Changing, Gone, Purging
<1>4. NoCallLost' /\ DeletedNeverFound'
  BY DEF IInv, NoCallLost, DeletedNeverFound
<1> QED BY <1>1, <1>2, <1>3, <1>4 DEF IInv

LEMMA NextInv == IInv /\ [Next]_vars => IInv'
<1> SUFFICES ASSUME IInv, [Next]_vars PROVE IInv'
  OBVIOUS
<1>1. ASSUME NEW w \in Workers, Worker(w) PROVE IInv'
  <2>1. CASE Receive(w)
    BY <2>1, ReceiveInv
  <2>2. CASE LockBucket(w)
    BY <2>2, LockBucketInv
  <2>3. CASE FindCall(w)
    BY <2>3, FindCallInv
  <2>4. CASE CreateCall(w)
    BY <2>4, CreateCallInv
  <2>5. CASE IgnoreMessage(w)
    BY <2>5, IgnoreMessageInv
  <2>6. CASE UseCall(w)
    BY <2>6, UseCallInv
  <2>7. CASE GetCallLock(w)
    BY <2>7, GetCallLockInv
  <2>8. CASE CheckDoa(w)
    BY <2>8, CheckDoaInv
  <2>9. CASE EndCall(w)
    BY <2>9, EndCallInv
  <2>10. CASE EndCallRequest(w)
    BY <2>10, EndCallRequestInv
  <2>11. CASE AskDoa(w)
    BY <2>11, AskDoaInv
  <2>12. CASE RequestAgain(w)
    BY <2>12, RequestAgainInv
  <2>13. CASE RequestFirst(w)
    BY <2>13, RequestFirstInv
  <2>14. CASE InsertRequested(w)
    BY <2>14, InsertRequestedInv
  <2> QED BY <1>1, <2>1, <2>2, <2>3, <2>4, <2>5, <2>6, <2>7, <2>8, <2>9, <2>10, <2>11,
          <2>12, <2>13, <2>14 DEF Worker
<1>2. ASSUME NEW d \in DoaThreads, DoaThread(d) PROVE IInv'
  <2>1. CASE StartPurge(d)
    BY <2>1, StartPurgeInv
  <2>2. CASE SkipBucket(d)
    BY <2>2, SkipBucketInv
  <2>3. CASE TryBucket(d)
    BY <2>3, TryBucketInv
  <2>4. CASE KeepEntry(d)
    BY <2>4, KeepEntryInv
  <2>5. CASE ExpireEntry(d)
    BY <2>5, ExpireEntryInv
  <2>6. CASE MarkDeleted(d)
    BY <2>6, MarkDeletedInv
  <2>7. CASE ReapEntry(d)
    BY <2>7, ReapEntryInv
  <2>8. CASE FreeCall(d)
    BY <2>8, FreeCallInv
  <2>9. CASE EndPurge(d)
    BY <2>9, EndPurgeInv
  <2> QED BY <1>2, <2>1, <2>2, <2>3, <2>4, <2>5, <2>6, <2>7, <2>8, <2>9 DEF DoaThread
<1>3. CASE Tick
  BY <1>3, TickInv
<1>4. CASE UNCHANGED vars
  BY <1>4, StutterInv
<1> QED BY <1>1, <1>2, <1>3, <1>4 DEF Next

\* The inductive invariant holds in every state: whatever the workers and the
\* DOA threads interleave, IInv describes the table of COMAP.cpp.
THEOREM Invariant == Spec => []IInv
  BY InitInv, NextInv, PTL DEF Spec

\* Type correctness: the buckets, timers and states of COMAP.cpp keep their
\* types, and MESSAGE::getModulus never leaves the buckets there are.
THEOREM TypeCorrect == Spec => []TypeOK
<1>1. IInv => TypeOK
  BY DEF IInv
<1> QED BY <1>1, Invariant, PTL

\* The lock coupling of use_CALL_OSET_SL_CO_call: from the lookup until
\* SL_CO::call returns, the call a worker works on is neither freed nor
\* replaced by another, for any number of workers and DOA threads.
THEOREM CallInUseIsSafe == Spec => []CallInUseIsAllocated
<1>1. IInv => CallInUseIsAllocated
  BY DEF IInv, InUse
<1> QED BY <1>1, Invariant, PTL

\* The assertions "fix this" of the lookups (COMAP.cpp) never fire: purgeDOA
\* marks a call deleted and unlists it while it holds the bucket.
THEOREM DeletedIsNeverFound == Spec => []DeletedNeverFound
<1>1. IInv => DeletedNeverFound
  BY DEF IInv
<1> QED BY <1>1, Invariant, PTL

\* Every allocated call is listed where purgeDOA can reach it: no CALL_OSET
\* leaks, for any order of INVITEs, lookups and purges.
THEOREM NoCallIsLost == Spec => []NoCallLost
<1>1. IInv => NoCallLost
  BY DEF IInv
<1> QED BY <1>1, Invariant, PTL

=============================================================================

