------------------------- MODULE ComapTables_proofs -------------------------
(***************************************************************************)
(* What the tables of a bucket say of each other, and what the timers of a *)
(* call say of its past: the maps of a free bucket agree, a call is freed  *)
(* only after TIMER_DOA of silence, and a worker that asks for a deletion  *)
(* in time still has its call.                                             *)
(***************************************************************************)
EXTENDS Comap_proofs

\* The DOA thread d is deleting the call at a.
Visiting(d, a) == dpc[d] \in {"mark", "delete", "free"} /\ cur[d] = a

\* Keys are never used twice.
KeysCreated == \A a \in Addr : heap[a] # None => heap[a].y \in created

\* The entry of a call that stays has its Y Call-ID in call_id_y2x ...
YOfListed ==
    \A m \in Buckets, x \in CallIds :
        \/ comap[m][x] = None
        \/ Leaving(m, x)
        \/ y2x[m][heap[comap[m][x]].y[2]] = x

\* ... and nothing else is there.
ListedOfY ==
    \A m \in Buckets, k \in Keys : y2x[m][k] # None =>
        /\ comap[m][y2x[m][k]] # None
        /\ ~Leaving(m, y2x[m][k])
        /\ heap[comap[m][y2x[m][k]]].y = <<m, k>>

\* States and timers are kept for the calls of the bucket that stay, only.
HomeOf ==
    \A m \in Buckets, a \in Addr : doa[m][a] # None \/ ttl[m][a] # None =>
        heap[a] # None /\ heap[a].y[1] = m /\ ~Leaving(m, heap[a].x)

\* Every call that stays has a timer, until purgeDOA erases it.
Timed ==
    \A m \in Buckets, x \in CallIds :
        \/ comap[m][x] = None
        \/ Leaving(m, x)
        \/ ttl[m][comap[m][x]] # None
        \/ \E d \in DoaThreads :
              dpc[d] = "delete" /\ dmod[d] = m /\ cur[d] = comap[m][x]

\* The call whose deletion is being requested is there, in that bucket.
Inserts ==
    \A w \in Workers : pc[w] = "insert" =>
        heap[obj[w]] # None /\ heap[obj[w]].y[1] = rmod[w] /\ ttl[rmod[w]][obj[w]] # None

TablesInv ==
    /\ KeysCreated
    /\ YOfListed
    /\ ListedOfY
    /\ HomeOf
    /\ Timed
    /\ Inserts

\* The worker has a call; it looked it up TIMER_DOA ago at most.
HasCall(w) == pc[w] \in {"use", "mutex", "incall", "ask", "request", "insert"}
Recent(w) == HasCall(w) /\ age[w] <= TIMER_DOA
HoldsCall == \A w \in Workers : HasCall(w) => obj[w] \in Addr /\ holds[w] \in YIds

\* The lookup restarted the timer, so that it runs at least as long as the
\* worker's call is recent; nobody is deleting the call.
RecentCall(w, a) ==
    /\ heap[a] # None
    /\ heap[a].y = holds[w]
    /\ doa[holds[w][1]][a] = "DOA_REQUESTED" =>
          ttl[holds[w][1]][a] # None /\ ttl[holds[w][1]][a] >= TIMER_DOA - age[w]
    /\ \A d \in DoaThreads : ~Visiting(d, a)
RecentIsSafe == \A w \in Workers : Recent(w) => RecentCall(w, obj[w])

\* The timer of a requested call says how long it has been quiet.
QuietEnough ==
    /\ \A m \in Buckets, a \in Addr : doa[m][a] = "DOA_REQUESTED" =>
          ttl[m][a] # None /\ quiet[a] >= TIMER_DOA - ttl[m][a]
    /\ \A d \in DoaThreads, a \in Addr : Visiting(d, a) => quiet[a] > TIMER_DOA

TimesInv == HoldsCall /\ RecentIsSafe /\ QuietEnough

-----------------------------------------------------------------------------
(* Facts about the tables.                                                 *)

LEMMA EntryFacts ==
    ASSUME IInv
    PROVE  /\ \A m \in Buckets, a \in Addr :
                 /\ ttl[m][a] = None \/ ttl[m][a] \in -1 .. TIMER_DOA
                 /\ doa[m][a] \in DoaStates \cup {None}
           /\ \A a \in Addr : heap[a] = None \/ heap[a] \in Calls
           /\ \A a \in Addr : quiet[a] \in 0 .. QuietCap
           /\ \A w \in Workers : age[w] \in 0 .. AgeCap
           /\ \A m \in Buckets, k \in Keys : y2x[m][k] = None \/ y2x[m][k] \in CallIds
<1>1. TypeOK
  BY DEF IInv
<1>2. \A m \in Buckets, a \in Addr :
         /\ ttl[m][a] = None \/ ttl[m][a] \in -1 .. TIMER_DOA
         /\ doa[m][a] \in DoaStates \cup {None}
  <2>1. /\ ttl \in [Buckets -> [Addr -> (-1 .. TIMER_DOA) \cup {None}]]
        /\ doa \in [Buckets -> [Addr -> DoaStates \cup {None}]]
    BY <1>1 DEF TypeOK
  <2> QED BY <2>1
<1>3. /\ \A a \in Addr : heap[a] = None \/ heap[a] \in Calls
      /\ \A a \in Addr : quiet[a] \in 0 .. QuietCap
      /\ \A w \in Workers : age[w] \in 0 .. AgeCap
  BY <1>1 DEF TypeOK
<1>4. \A m \in Buckets, k \in Keys : y2x[m][k] = None \/ y2x[m][k] \in CallIds
  <2>1. y2x \in [Buckets -> [Keys -> CallIds \cup {None}]]
    BY <1>1 DEF TypeOK
  <2> QED BY <2>1
<1> QED BY <1>2, <1>3, <1>4

\* A DOA thread deletes calls of the bucket it holds.
LEMMA VisitFacts ==
    ASSUME IInv, NEW d \in DoaThreads, NEW a \in Addr, Visiting(d, a)
    PROVE  /\ dmod[d] \in Buckets /\ uniqueExx[dmod[d]] = d
           /\ heap[a] \in Calls /\ heap[a].y[1] = dmod[d]
<1>1. dmod[d] \in Buckets /\ uniqueExx[dmod[d]] = d
  BY Constants DEF IInv, Visiting, Locals, Locks, Purging
<1>2. heap[a] # None /\ heap[a].y[1] = dmod[d]
  BY DEF IInv, Visits, Visiting
<1> QED BY <1>1, <1>2, EntryFacts

LEMMA OneVisitor ==
    ASSUME IInv, NEW d \in DoaThreads, NEW e \in DoaThreads, NEW a \in Addr,
           Visiting(d, a), Visiting(e, a)
    PROVE  e = d
<1>1. uniqueExx[dmod[d]] = d /\ heap[a].y[1] = dmod[d]
  BY VisitFacts
<1>2. uniqueExx[dmod[e]] = e /\ heap[a].y[1] = dmod[e]
  BY VisitFacts
<1> QED BY <1>1, <1>2

\* A bucket that is free, or held by a worker, is not being purged.
LEMMA NotPurged ==
    ASSUME IInv, NEW m \in Buckets, uniqueExx[m] \notin DoaThreads
    PROVE  /\ \A x \in CallIds : ~Leaving(m, x)
           /\ \A d \in DoaThreads : Purging(d) => dmod[d] # m
           /\ \A d \in DoaThreads, a \in Addr :
                 Visiting(d, a) => heap[a] # None /\ heap[a].y[1] # m
<1>1. \A d \in DoaThreads : Purging(d) => dmod[d] # m
  BY DEF IInv, Locks
<1>2. \A d \in DoaThreads, a \in Addr :
         Visiting(d, a) => heap[a] # None /\ heap[a].y[1] # m
  BY <1>1, Disjoint, VisitFacts DEF Visiting, Purging
<1> QED BY <1>1, <1>2 DEF Leaving

LEMMA NoneIsFree == None \notin DoaThreads /\ Workers \cap DoaThreads = {}
  BY Disjoint

\* A call that is not going is listed under its Call-ID, where its state and
\* its timer are.
LEMMA StaysListed ==
    ASSUME IInv, NEW a \in Addr, heap[a] # None
    PROVE  /\ heap[a] \in Calls /\ heap[a].x \in CallIds /\ heap[a].y \in YIds
           /\ heap[a].y[1] \in Buckets /\ heap[a].y[2] \in Keys
           /\ comap[heap[a].y[1]][heap[a].x] = a
           /\ Leaving(heap[a].y[1], heap[a].x) =>
                 \E d \in DoaThreads : dpc[d] = "free" /\ Visiting(d, a)
<1>1. heap[a] \in Calls
  BY EntryFacts
<1>2. comap[heap[a].y[1]][heap[a].x] = a
  BY DEF IInv, NoCallLost
<1>3. ASSUME Leaving(heap[a].y[1], heap[a].x)
      PROVE  \E d \in DoaThreads : dpc[d] = "free" /\ Visiting(d, a)
  BY <1>3 DEF IInv, Gone, Leaving, Visiting
<1> QED BY <1>1, <1>2, <1>3, Records

\* The restart of a timer changes no other, and only makes it run longer.
LEMMA ResetFacts ==
    ASSUME IInv, NEW a \in Addr, NEW m \in Buckets, NEW t,
           t = resetTimer(ttl, a, m) \/ t = resetIfRequested(a, m)
    PROVE  /\ \A n \in Buckets, b \in Addr : n # m \/ b # a => t[n][b] = ttl[n][b]
           /\ t[m][a] = ttl[m][a] \/ (ttl[m][a] # None /\ t[m][a] = TIMER_DOA)
           /\ t = resetTimer(ttl, a, m) /\ ttl[m][a] # None => t[m][a] = TIMER_DOA
           /\ t = resetIfRequested(a, m) /\ ttl[m][a] # None /\ doa[m][a] = "DOA_REQUESTED" =>
                 t[m][a] = TIMER_DOA
<1>1. ttl \in [Buckets -> [Addr -> (-1 .. TIMER_DOA) \cup {None}]]
  BY DEF IInv, TypeOK
<1>2. LET u == resetTimer(ttl, a, m) IN
      /\ \A n \in Buckets, b \in Addr : n # m \/ b # a => u[n][b] = ttl[n][b]
      /\ ttl[m][a] = None => u = ttl
      /\ ttl[m][a] # None => u[m][a] = TIMER_DOA
  BY <1>1 DEF resetTimer
<1>3. getDoa(a, m) = "DOA_REQUESTED" <=> doa[m][a] = "DOA_REQUESTED"
  BY Disjoint DEF getDoa
<1> QED BY <1>2, <1>3 DEF resetIfRequested

-----------------------------------------------------------------------------
(* Steps that leave the tables alone.                                      *)

\* A worker that moves on without touching the tables.
LEMMA WorkerFrame ==
    ASSUME IInv, TablesInv, TimesInv,
           UNCHANGED <<comap, y2x, doa, ttl, heap, created, quiet, doaVars>>,
           \A w \in Workers : pc'[w] = "insert" =>
               pc[w] = "insert" /\ obj'[w] = obj[w] /\ rmod'[w] = rmod[w],
           \A w \in Workers : HasCall(w)' =>
               HasCall(w) /\ obj'[w] = obj[w] /\ holds'[w] = holds[w] /\ age'[w] = age[w]
    PROVE  TablesInv' /\ TimesInv'
<1> USE DEF doaVars
<1>1. \A m, x : Leaving(m, x)' <=> Leaving(m, x)
  BY DEF Leaving, Purging
<1>2. \A d, a : Visiting(d, a)' <=> Visiting(d, a)
  BY DEF Visiting
<1>3. TablesInv'
  <2>1. KeysCreated' /\ YOfListed' /\ ListedOfY'
    BY <1>1 DEF TablesInv, KeysCreated, YOfListed, ListedOfY
  <2>2. HomeOf' /\ Timed' /\ Inserts'
    BY <1>1 DEF TablesInv, HomeOf, Timed, Inserts
  <2> QED BY <2>1, <2>2 DEF TablesInv
<1>4. RecentIsSafe'
  BY <1>2 DEF TimesInv, RecentIsSafe, RecentCall, Recent
<1>5. QuietEnough'
  BY <1>2 DEF TimesInv, QuietEnough
<1>6. HoldsCall'
  BY DEF TimesInv, HoldsCall, HasCall
<1> QED BY <1>3, <1>4, <1>5, <1>6 DEF TimesInv

\* A DOA thread that moves on without touching the tables.
LEMMA DoaFrame ==
    ASSUME IInv, TablesInv, TimesInv,
           UNCHANGED <<comap, y2x, doa, ttl, heap, created, quiet, workerVars>>,
           \A m \in Buckets, x \in CallIds : Leaving(m, x)' <=> Leaving(m, x),
           \A d \in DoaThreads, a \in Addr : Visiting(d, a)' => Visiting(d, a),
           \A d \in DoaThreads : dpc[d] = "delete" =>
               dpc'[d] = "delete" /\ dmod'[d] = dmod[d] /\ cur'[d] = cur[d]
    PROVE  TablesInv' /\ TimesInv'
<1> USE DEF workerVars, historyVars
<1>3. TablesInv'
  <2>1. KeysCreated' /\ YOfListed'
    BY DEF TablesInv, KeysCreated, YOfListed
  <2>2. ListedOfY'
    BY EntryFacts DEF TablesInv, ListedOfY
  <2>3. HomeOf'
    BY StaysListed DEF TablesInv, HomeOf
  <2>4. Timed' /\ Inserts'
    BY DEF TablesInv, Timed, Inserts
  <2> QED BY <2>1, <2>2, <2>3, <2>4 DEF TablesInv
<1>4. RecentIsSafe'
  <2> SUFFICES ASSUME NEW w \in Workers, Recent(w)' PROVE RecentCall(w, obj[w])'
    BY DEF RecentIsSafe
  <2>1. RecentCall(w, obj[w])
    BY DEF TimesInv, RecentIsSafe, Recent, HasCall
  <2>2. obj[w] \in Addr
    BY DEF TimesInv, HoldsCall, Recent, HasCall
  <2> QED BY <2>1, <2>2 DEF RecentCall
<1>5. QuietEnough'
  BY DEF TimesInv, QuietEnough
<1>6. HoldsCall'
  BY DEF TimesInv, HoldsCall, HasCall
<1> QED BY <1>3, <1>4, <1>5, <1>6 DEF TimesInv

\* A recent call stays so when its timer is left alone or restarted.
LEMMA RecentKept ==
    ASSUME IInv, TimesInv, NEW v \in Workers, Recent(v),
           obj'[v] = obj[v], holds'[v] = holds[v], age'[v] = age[v],
           heap'[obj[v]] = heap[obj[v]],
           doa'[holds[v][1]][obj[v]] = "DOA_REQUESTED" =>
              \/ /\ doa[holds[v][1]][obj[v]] = "DOA_REQUESTED"
                 /\ ttl'[holds[v][1]][obj[v]] = ttl[holds[v][1]][obj[v]]
              \/ ttl'[holds[v][1]][obj[v]] = TIMER_DOA,
           \A d \in DoaThreads : ~Visiting(d, obj[v])'
    PROVE  RecentCall(v, obj[v])'
<1>1. RecentCall(v, obj[v]) /\ age[v] \in Nat
  BY EntryFacts DEF TimesInv, RecentIsSafe
<1> DEFINE n == holds[v][1]
           a == obj[v]
<1>2. doa'[n][a] = "DOA_REQUESTED" => ttl'[n][a] # None /\ ttl'[n][a] >= TIMER_DOA - age[v]
  BY <1>1, Constants, Disjoint DEF RecentCall
<1> HIDE DEF n, a
<1>3. \A d \in DoaThreads : ~Visiting(d, a)'
  BY DEF a
<1> QED BY <1>1, <1>2, <1>3 DEF RecentCall, n, a

-----------------------------------------------------------------------------
(* Workers.                                                                *)

LEMMA QuietWorkerSteps ==
    ASSUME IInv, TablesInv, TimesInv, NEW w \in Workers,
           \/ Receive(w) \/ LockBucket(w) \/ IgnoreMessage(w) \/ GetCallLock(w)
           \/ CheckDoa(w) \/ EndCall(w) \/ EndCallRequest(w) \/ AskDoa(w)
    PROVE  TablesInv' /\ TimesInv'
<1>1. /\ UNCHANGED <<comap, y2x, doa, ttl, heap, created, quiet, doaVars>>
      /\ \A v \in Workers : pc'[v] = "insert" =>
            pc[v] = "insert" /\ obj'[v] = obj[v] /\ rmod'[v] = rmod[v]
      /\ \A v \in Workers : HasCall(v)' =>
            HasCall(v) /\ obj'[v] = obj[v] /\ holds'[v] = holds[v] /\ age'[v] = age[v]
  <2> USE DEF IInv, TypeOK, At, Goto, Done, tables, memory, workerVars, historyVars, HasCall
  <2>1. CASE Receive(w) \/ LockBucket(w)
    BY <2>1 DEF Receive, LockBucket
  <2>2. CASE IgnoreMessage(w)
    BY <2>2 DEF IgnoreMessage
  <2>5. CASE EndCall(w)
    BY <2>5 DEF EndCall
  <2>3. CASE GetCallLock(w) \/ CheckDoa(w) \/ AskDoa(w)
    BY <2>3 DEF GetCallLock, CheckDoa, AskDoa
  <2>4. CASE EndCallRequest(w)
    <3>1. pc[w] = "incall" /\ pc' = [pc EXCEPT ![w] = "ask"]
          /\ UNCHANGED <<tables, heap, created, obj, historyVars, doaVars, quiet>>
          /\ \E r : rmod' = [rmod EXCEPT ![w] = r]
      BY <2>4 DEF EndCallRequest
    <3> QED BY <3>1
  <2> QED BY <2>1, <2>2, <2>3, <2>4, <2>5
<1> HIDE DEF HasCall
<1> QED BY <1>1, WorkerFrame

\* FindCall and UseCall restart the timer of a requested call; the lookup also
\* starts the worker's time with it.
LEMMA FindCallTables ==
    ASSUME IInv, TablesInv, TimesInv, NEW w \in Workers, FindCall(w)
    PROVE  TablesInv' /\ TimesInv'
<1>0. PICK a \in Addr : FindsCall(w, a)
  BY FindCallDoes
<1> DEFINE m == mod[w]
<1>1. /\ pc[w] = "lookup" /\ m \in Buckets /\ uniqueExx[m] = w
      /\ heap[a] \in Calls /\ heap[a].y[1] = m
      /\ ttl' = resetIfRequested(a, m)
      /\ obj' = [obj EXCEPT ![w] = a] /\ holds' = [holds EXCEPT ![w] = heap[a].y]
      /\ age' = [age EXCEPT ![w] = 0] /\ quiet' = [quiet EXCEPT ![a] = 0]
      /\ pc' = [pc EXCEPT ![w] = "use"]
      /\ UNCHANGED <<comap, y2x, doa, heap, created, rmod, dpc, dmod, cur, todel>>
  BY <1>0 DEF FindsCall
<1>2. /\ \A x \in CallIds : ~Leaving(m, x)
      /\ \A d \in DoaThreads : Purging(d) => dmod[d] # m
      /\ \A d \in DoaThreads : ~Visiting(d, a)
  BY <1>1, NoneIsFree, NotPurged
<1>3. ttl[m][a] # None
  <2>1. PICK x \in CallIds : a = comap[m][x]
    BY <1>0 DEF FindsCall
  <2> QED BY <1>1, <1>2, <2>1, Disjoint DEF TablesInv, Timed, Purging
<1>4. /\ \A n \in Buckets, b \in Addr : n # m \/ b # a => ttl'[n][b] = ttl[n][b]
      /\ ttl'[m][a] = ttl[m][a] \/ ttl'[m][a] = TIMER_DOA
      /\ doa[m][a] = "DOA_REQUESTED" => ttl'[m][a] = TIMER_DOA
  BY <1>1, <1>3, ResetFacts
<1>5. \A n \in Buckets, b \in Addr : ttl'[n][b] = None <=> ttl[n][b] = None
  BY <1>1, <1>3, <1>4, Constants, Disjoint
<1>6. \A n \in Buckets : doa[n][a] = "DOA_REQUESTED" => n = m
  BY <1>1, Disjoint DEF TablesInv, HomeOf
<1>7. /\ pc'[w] = "use" /\ obj'[w] = a /\ holds'[w] = heap[a].y /\ age'[w] = 0
      /\ \A v \in Workers \ {w} : /\ pc'[v] = pc[v] /\ obj'[v] = obj[v]
                                  /\ holds'[v] = holds[v] /\ age'[v] = age[v]
      /\ quiet'[a] = 0 /\ \A b \in Addr \ {a} : quiet'[b] = quiet[b]
  BY <1>1 DEF IInv, TypeOK
<1>8. \A n, x : Leaving(n, x)' <=> Leaving(n, x)
  BY <1>1 DEF Leaving, Purging
<1>9. \A d, b : Visiting(d, b)' <=> Visiting(d, b)
  BY <1>1 DEF Visiting
<1> HIDE DEF m
<1>10. TablesInv'
  <2>1. KeysCreated' /\ YOfListed' /\ ListedOfY'
    BY <1>1, <1>8 DEF TablesInv, KeysCreated, YOfListed, ListedOfY
  <2>2. HomeOf'
    BY <1>1, <1>5, <1>8 DEF TablesInv, HomeOf
  <2>3. Timed'
    BY <1>1, <1>5, <1>8, EntryType DEF IInv, TablesInv, Timed
  <2>4. Inserts'
    BY <1>1, <1>5, <1>7 DEF IInv, Locals, TablesInv, Inserts
  <2> QED BY <2>1, <2>2, <2>3, <2>4 DEF TablesInv
<1>11. HoldsCall'
  BY <1>1, <1>7, Records DEF TimesInv, HoldsCall, HasCall
<1>12. RecentIsSafe'
  <2> SUFFICES ASSUME NEW v \in Workers, Recent(v)' PROVE RecentCall(v, obj[v])'
    BY DEF RecentIsSafe
  <2>1. CASE v = w
    BY <1>1, <1>2, <1>4, <1>7, <1>9, <2>1, Disjoint, Constants DEF RecentCall
  <2>2. CASE v # w
    <3>1. Recent(v) /\ obj[v] \in Addr /\ holds[v][1] \in Buckets
      BY <1>7, <2>2, Records DEF TimesInv, HoldsCall, Recent, HasCall
    <3>2. \A d \in DoaThreads : ~Visiting(d, obj[v])'
      BY <1>1, <1>7, <2>2, <3>1 DEF TimesInv, RecentIsSafe, RecentCall, Visiting
    <3> QED BY <1>1, <1>4, <1>7, <2>2, <3>1, <3>2, RecentKept
  <2> QED BY <2>1, <2>2
<1>13. QuietEnough'
  <2>1. ASSUME NEW n \in Buckets, NEW b \in Addr, doa[n][b] = "DOA_REQUESTED"
        PROVE  ttl'[n][b] # None /\ quiet'[b] >= TIMER_DOA - ttl'[n][b]
    <3>1. ttl'[n][b] # None
      BY <1>5, <2>1 DEF TimesInv, QuietEnough
    <3>2. CASE b = a
      BY <1>4, <1>6, <1>7, <2>1, <3>1, <3>2, Constants
    <3>3. CASE b # a
      BY <1>4, <1>7, <2>1, <3>1, <3>3 DEF TimesInv, QuietEnough
    <3> QED BY <3>2, <3>3
  <2>2. \A d \in DoaThreads, b \in Addr : Visiting(d, b) => quiet'[b] > TIMER_DOA
    BY <1>2, <1>7 DEF TimesInv, QuietEnough
  <2> QED BY <1>1, <1>9, <2>1, <2>2 DEF QuietEnough
<1> QED BY <1>10, <1>11, <1>12, <1>13 DEF TimesInv


LEMMA CreateCallTables ==
    ASSUME IInv, TablesInv, TimesInv, NEW w \in Workers, CreateCall(w)
    PROVE  TablesInv' /\ TimesInv'
<1>0. PICK a \in Addr, k \in Keys : CreatesCall(w, a, k)
  BY CreateCallDoes
<1> DEFINE x == msg[w].id
           m == mod[w]
<1>1. /\ pc[w] = "lookup" /\ m \in Buckets /\ uniqueExx[m] = w
      /\ x \in CallIds /\ comap[m][x] = None
      /\ k \in UnusedKeys /\ heap[a] = None
      /\ UNCHANGED <<rmod, dpc, dmod, cur, todel>>
  BY <1>0 DEF CreatesCall
<1>2. /\ \A z \in CallIds : ~Leaving(m, z)
      /\ \A d \in DoaThreads : Purging(d) => dmod[d] # m
  BY <1>1, NoneIsFree, NotPurged
<1>3. \A d \in DoaThreads : ~Visiting(d, a)
  BY <1>1, Disjoint, VisitFacts
<1>4. /\ heap'[a] = [x |-> x, y |-> <<m, k>>]
      /\ \A b \in Addr \ {a} : heap'[b] = heap[b]
      /\ quiet'[a] = 0 /\ \A b \in Addr \ {a} : quiet'[b] = quiet[b]
  BY <1>0 DEF CreatesCall, IInv, TypeOK
<1>5. /\ heap'[a] # None /\ heap'[a].x = x /\ heap'[a].y = <<m, k>> /\ <<m, k>> \in YIds
      /\ heap'[a].y[1] = m /\ heap'[a].y[2] = k
  BY <1>1, <1>4, Records, Disjoint
<1>6. \A n \in Buckets, z \in CallIds :
         comap'[n][z] = IF n = m /\ z = x THEN a ELSE comap[n][z]
  BY <1>0 DEF CreatesCall, IInv, TypeOK
<1>7. \A n \in Buckets, j \in Keys : y2x'[n][j] = IF n = m /\ j = k THEN x ELSE y2x[n][j]
  BY <1>0 DEF CreatesCall, IInv, TypeOK
<1>8. \A n \in Buckets, b \in Addr :
         /\ doa'[n][b] = IF n = m /\ b = a THEN "NOT_DOA" ELSE doa[n][b]
         /\ ttl'[n][b] = IF n = m /\ b = a THEN -1 ELSE ttl[n][b]
  BY <1>0 DEF CreatesCall, IInv, TypeOK
<1>9. /\ pc'[w] = "use" /\ obj'[w] = a /\ holds'[w] = <<m, k>> /\ age'[w] = 0
      /\ \A v \in Workers \ {w} : /\ pc'[v] = pc[v] /\ obj'[v] = obj[v]
                                  /\ holds'[v] = holds[v] /\ age'[v] = age[v]
  BY <1>0 DEF CreatesCall, IInv, TypeOK
<1>10. created' = created \cup {<<m, k>>} /\ \A y \in created : y[2] # k
  BY <1>0 DEF CreatesCall, UnusedKeys
<1>11. \A n, z : Leaving(n, z)' <=> Leaving(n, z)
  BY <1>1 DEF Leaving, Purging
<1>12. \A d, b : Visiting(d, b)' <=> Visiting(d, b)
  BY <1>1 DEF Visiting
\* Nothing is listed at the address of the new call.
<1>13. /\ \A n \in Buckets, z \in CallIds : comap[n][z] = a => Leaving(n, z)
       /\ \A n \in Buckets : doa[n][a] = None /\ ttl[n][a] = None
  BY <1>1, Disjoint DEF IInv, Listed, TablesInv, HomeOf
<1> HIDE DEF x, m
<1>14. KeysCreated'
  BY <1>4, <1>5, <1>10 DEF TablesInv, KeysCreated
<1>15. YOfListed'
  <2> SUFFICES ASSUME NEW n \in Buckets, NEW z \in CallIds, comap'[n][z] # None,
                      ~Leaving(n, z)
               PROVE  y2x'[n][heap'[comap'[n][z]].y[2]] = z
    BY <1>11 DEF YOfListed
  <2>1. CASE n = m /\ z = x
    BY <1>1, <1>5, <1>6, <1>7, <2>1
  <2>2. CASE ~(n = m /\ z = x)
    <3> DEFINE b == comap[n][z]
    <3>1. b = comap'[n][z] /\ b # a /\ b \in Addr /\ b # None
      BY <1>6, <1>13, <2>2, EntryType DEF IInv
    <3>2. heap[b] # None
      BY <3>1 DEF IInv, Listed
    <3>3. heap[b].y \in created /\ heap[b].y[2] \in Keys /\ heap[b].y[2] # k
      BY <1>10, <3>1, <3>2, StaysListed DEF TablesInv, KeysCreated
    <3>4. y2x[n][heap[b].y[2]] = z
      BY <3>1 DEF TablesInv, YOfListed
    <3> HIDE DEF b
    <3> QED BY <1>4, <1>7, <3>1, <3>3, <3>4
  <2> QED BY <2>1, <2>2
<1>16. ListedOfY'
  <2> SUFFICES ASSUME NEW n \in Buckets, NEW j \in Keys, y2x'[n][j] # None
               PROVE  /\ comap'[n][y2x'[n][j]] # None
                      /\ ~Leaving(n, y2x'[n][j])
                      /\ heap'[comap'[n][y2x'[n][j]]].y = <<n, j>>
    BY <1>11 DEF ListedOfY
  <2>1. CASE n = m /\ j = k
    BY <1>1, <1>2, <1>5, <1>6, <1>7, <2>1, Disjoint
  <2>2. CASE ~(n = m /\ j = k)
    <3> DEFINE z == y2x[n][j]
               b == comap[n][z]
    <3>1. z = y2x'[n][j] /\ z \in CallIds
      BY <1>7, <2>2, EntryFacts
    <3>2. b # None /\ ~Leaving(n, z) /\ heap[b].y = <<n, j>>
      BY <1>7, <2>2 DEF TablesInv, ListedOfY
    <3>3. b = comap'[n][z] /\ b \in Addr /\ b # a
      BY <1>1, <1>6, <1>13, <3>1, <3>2, EntryType DEF IInv
    <3> HIDE DEF z, b
    <3> QED BY <1>4, <3>1, <3>2, <3>3
  <2> QED BY <2>1, <2>2
<1>17. HomeOf'
  <2> SUFFICES ASSUME NEW n \in Buckets, NEW b \in Addr, doa'[n][b] # None \/ ttl'[n][b] # None
               PROVE  heap'[b] # None /\ heap'[b].y[1] = n /\ ~Leaving(n, heap'[b].x)
    BY <1>11 DEF HomeOf
  <2>1. CASE n = m /\ b = a
    BY <1>1, <1>2, <1>5, <2>1
  <2>2. CASE ~(n = m /\ b = a)
    <3>1. b # a /\ (doa[n][b] # None \/ ttl[n][b] # None)
      BY <1>8, <1>13, <2>2
    <3> QED BY <1>4, <3>1 DEF TablesInv, HomeOf
  <2> QED BY <2>1, <2>2
<1>18. Timed'
  <2> SUFFICES ASSUME NEW n \in Buckets, NEW z \in CallIds, comap'[n][z] # None,
                      ~Leaving(n, z)
               PROVE  \/ ttl'[n][comap'[n][z]] # None
                      \/ \E d \in DoaThreads :
                            dpc[d] = "delete" /\ dmod[d] = n /\ cur[d] = comap'[n][z]
    BY <1>1, <1>11 DEF Timed
  <2>1. CASE n = m /\ z = x
    BY <1>1, <1>6, <1>8, <2>1, Disjoint
  <2>2. CASE ~(n = m /\ z = x)
    <3>1. comap'[n][z] = comap[n][z] /\ comap[n][z] \in Addr /\ comap[n][z] # a
      BY <1>6, <1>13, <2>2, EntryType DEF IInv
    <3> QED BY <1>8, <3>1 DEF TablesInv, Timed
  <2> QED BY <2>1, <2>2
<1>19. Inserts'
  <2> SUFFICES ASSUME NEW v \in Workers, pc'[v] = "insert"
               PROVE  /\ heap'[obj'[v]] # None /\ heap'[obj'[v]].y[1] = rmod[v]
                      /\ ttl'[rmod[v]][obj'[v]] # None
    BY <1>1 DEF Inserts
  <2>1. v # w /\ pc[v] = "insert" /\ obj'[v] = obj[v]
    BY <1>9
  <2>2. obj[v] \in Addr /\ rmod[v] \in Buckets /\ heap[obj[v]] # None
    BY <2>1 DEF IInv, Locals, TablesInv, Inserts
  <2>3. obj[v] # a
    BY <1>1, <2>2
  <2> QED BY <1>4, <1>8, <2>1, <2>2, <2>3 DEF TablesInv, Inserts
<1>20. HoldsCall'
  BY <1>5, <1>9 DEF TimesInv, HoldsCall, HasCall
<1>21. RecentIsSafe'
  <2> SUFFICES ASSUME NEW v \in Workers, Recent(v)' PROVE RecentCall(v, obj[v])'
    BY DEF RecentIsSafe
  <2>1. CASE v = w
    <3>1. doa'[m][a] = "NOT_DOA" /\ holds'[w][1] = m
      BY <1>1, <1>5, <1>8, <1>9
    <3>2. \A d \in DoaThreads : ~Visiting(d, obj[v])'
      BY <1>1, <1>3, <1>9, <2>1 DEF Visiting
    <3> QED BY <1>5, <1>9, <2>1, <3>1, <3>2 DEF RecentCall
  <2>2. CASE v # w
    <3>1. Recent(v) /\ obj[v] \in Addr /\ holds[v][1] \in Buckets
      BY <1>9, <2>2, Records DEF TimesInv, HoldsCall, Recent, HasCall
    <3>2. \A d \in DoaThreads : ~Visiting(d, obj[v])'
      BY <1>1, <1>9, <2>2, <3>1 DEF TimesInv, RecentIsSafe, RecentCall, Visiting
    <3>3. obj[v] # a
      BY <1>1, <3>1 DEF TimesInv, RecentIsSafe, RecentCall
    <3> QED BY <1>4, <1>8, <1>9, <2>2, <3>1, <3>2, <3>3, RecentKept
  <2> QED BY <2>1, <2>2
<1>22. QuietEnough'
  <2>1. ASSUME NEW n \in Buckets, NEW b \in Addr, doa'[n][b] = "DOA_REQUESTED"
        PROVE  ttl'[n][b] # None /\ quiet'[b] >= TIMER_DOA - ttl'[n][b]
    <3>1. b # a /\ doa[n][b] = "DOA_REQUESTED"
      BY <1>8, <1>13, <2>1, Disjoint
    <3> QED BY <1>4, <1>8, <3>1 DEF TimesInv, QuietEnough
  <2>2. \A d \in DoaThreads, b \in Addr : Visiting(d, b) => quiet'[b] > TIMER_DOA
    BY <1>3, <1>4 DEF TimesInv, QuietEnough
  <2> QED BY <1>12, <2>1, <2>2 DEF QuietEnough
<1>23. TablesInv'
  BY <1>14, <1>15, <1>16, <1>17, <1>18, <1>19 DEF TablesInv
<1> QED BY <1>20, <1>21, <1>22, <1>23 DEF TimesInv

\* A worker that restarts a timer, gives its call a state, or both.  The call
\* is in its bucket, which nobody purges, and stays there.
LEMMA RestartFrame ==
    ASSUME IInv, TablesInv, TimesInv, NEW w \in Workers, NEW m \in Buckets, NEW a \in Addr,
           uniqueExx[m] \notin DoaThreads,
           UNCHANGED <<comap, y2x, heap, created, doaVars>>,
           \A n \in Buckets, b \in Addr : n # m \/ b # a =>
               doa'[n][b] = doa[n][b] /\ ttl'[n][b] = ttl[n][b],
           \A b \in Addr \ {a} : quiet'[b] = quiet[b],
           ttl[m][a] = None => ttl'[m][a] = None,
           \/ ttl'[m][a] = TIMER_DOA
           \/ /\ ttl'[m][a] = ttl[m][a]
              /\ doa'[m][a] = "DOA_REQUESTED" => doa[m][a] = "DOA_REQUESTED"
              /\ quiet'[a] = quiet[a],
           ttl[m][a] = None /\ doa[m][a] = None => doa'[m][a] = None /\ quiet'[a] = quiet[a],
           ttl[m][a] # None => ttl'[m][a] # None,
           quiet'[a] \in Nat,
           \A v \in Workers \ {w} : pc'[v] = pc[v] /\ obj'[v] = obj[v] /\ rmod'[v] = rmod[v],
           \A v \in Workers : HasCall(v)' =>
               HasCall(v) /\ obj'[v] = obj[v] /\ holds'[v] = holds[v] /\ age'[v] = age[v],
           pc'[w] = "insert" => obj'[w] = a /\ rmod'[w] = m /\ doa[m][a] # None
    PROVE  TablesInv' /\ TimesInv'
<1> USE DEF doaVars
<1>1. /\ \A n, z : Leaving(n, z)' <=> Leaving(n, z)
      /\ \A d, b : Visiting(d, b)' <=> Visiting(d, b)
  BY DEF Leaving, Purging, Visiting
<1>2. /\ \A x \in CallIds : ~Leaving(m, x)
      /\ \A d \in DoaThreads : Purging(d) => dmod[d] # m
      /\ \A d \in DoaThreads, b \in Addr :
            Visiting(d, b) => heap[b] # None /\ heap[b].y[1] # m
  BY NotPurged
<1>3. \A n \in Buckets, b \in Addr : ttl'[n][b] = None <=> ttl[n][b] = None
  OBVIOUS
<1>4. doa[m][a] # None \/ ttl[m][a] # None =>
         /\ heap[a] # None /\ heap[a].y[1] = m
         /\ ttl[m][a] # None
         /\ \A d \in DoaThreads : ~Visiting(d, a)
  <2> SUFFICES ASSUME doa[m][a] # None \/ ttl[m][a] # None
               PROVE  /\ heap[a] # None /\ heap[a].y[1] = m
                      /\ ttl[m][a] # None
                      /\ \A d \in DoaThreads : ~Visiting(d, a)
    OBVIOUS
  <2>1. heap[a] # None /\ heap[a].y[1] = m
    BY DEF TablesInv, HomeOf
  <2>2. comap[m][heap[a].x] = a /\ heap[a].x \in CallIds
    BY <2>1, StaysListed
  <2>3. ttl[m][a] # None
    BY <1>2, <2>2, Disjoint DEF TablesInv, Timed, Purging
  <2> QED BY <1>2, <2>1, <2>3
<1>5. TablesInv'
  <2>1. KeysCreated' /\ YOfListed' /\ ListedOfY'
    BY <1>1 DEF TablesInv, KeysCreated, YOfListed, ListedOfY
  <2>2. HomeOf'
    <3> SUFFICES ASSUME NEW n \in Buckets, NEW b \in Addr,
                        doa'[n][b] # None \/ ttl'[n][b] # None
                 PROVE  heap[b] # None /\ heap[b].y[1] = n /\ ~Leaving(n, heap[b].x)
      BY <1>1 DEF HomeOf
    <3>1. doa[n][b] # None \/ ttl[n][b] # None
      <4>1. CASE n = m /\ b = a
        BY <1>3, <4>1
      <4>2. CASE n # m \/ b # a
        BY <4>2
      <4> QED BY <4>1, <4>2
    <3> QED BY <3>1 DEF TablesInv, HomeOf
  <2>3. Timed'
    BY <1>1, <1>3, EntryType DEF IInv, TablesInv, Timed
  <2>4. Inserts'
    <3> SUFFICES ASSUME NEW v \in Workers, pc'[v] = "insert"
                 PROVE  /\ heap[obj'[v]] # None /\ heap[obj'[v]].y[1] = rmod'[v]
                        /\ ttl'[rmod'[v]][obj'[v]] # None
      BY DEF Inserts
    <3>1. CASE v = w
      BY <1>3, <1>4, <3>1
    <3>2. CASE v # w
      <4>1. pc[v] = "insert" /\ obj'[v] = obj[v] /\ rmod'[v] = rmod[v]
        BY <3>2
      <4>2. obj[v] \in Addr /\ rmod[v] \in Buckets
        BY <4>1 DEF IInv, Locals
      <4> QED BY <1>3, <4>1, <4>2 DEF TablesInv, Inserts
    <3> QED BY <3>1, <3>2
  <2> QED BY <2>1, <2>2, <2>3, <2>4 DEF TablesInv
<1>6. HoldsCall'
  BY DEF TimesInv, HoldsCall, HasCall
<1>7. RecentIsSafe'
  <2> SUFFICES ASSUME NEW v \in Workers, Recent(v)' PROVE RecentCall(v, obj[v])'
    BY DEF RecentIsSafe
  <2>1. /\ Recent(v) /\ obj'[v] = obj[v] /\ holds'[v] = holds[v] /\ age'[v] = age[v]
        /\ obj[v] \in Addr /\ holds[v][1] \in Buckets
    BY Records DEF TimesInv, HoldsCall, Recent, HasCall
  <2>2. \A d \in DoaThreads : ~Visiting(d, obj[v])'
    BY <2>1 DEF TimesInv, RecentIsSafe, RecentCall, Visiting
  <2>3. doa'[holds[v][1]][obj[v]] = "DOA_REQUESTED" =>
           \/ /\ doa[holds[v][1]][obj[v]] = "DOA_REQUESTED"
              /\ ttl'[holds[v][1]][obj[v]] = ttl[holds[v][1]][obj[v]]
           \/ ttl'[holds[v][1]][obj[v]] = TIMER_DOA
    BY <2>1
  <2> QED BY <2>1, <2>2, <2>3, RecentKept
<1>8. QuietEnough'
  <2>1. ASSUME NEW n \in Buckets, NEW b \in Addr, doa'[n][b] = "DOA_REQUESTED"
        PROVE  ttl'[n][b] # None /\ quiet'[b] >= TIMER_DOA - ttl'[n][b]
    <3>1. CASE b # a
      BY <2>1, <3>1 DEF TimesInv, QuietEnough
    <3>2. CASE b = a /\ n # m
      <4>1. doa[n][a] = "DOA_REQUESTED" /\ ttl'[n][a] = ttl[n][a]
        BY <2>1, <3>2
      <4>2. heap[a] # None /\ heap[a].y[1] = n
        BY <4>1, Disjoint DEF TablesInv, HomeOf
      <4>3. doa[m][a] = None /\ ttl[m][a] = None
        BY <3>2, <4>2 DEF TablesInv, HomeOf
      <4> QED BY <3>2, <4>1, <4>3 DEF TimesInv, QuietEnough
    <3>3. CASE b = a /\ n = m
      <4>1. ttl'[m][a] # None
        BY <1>3, <1>4, <2>1, <3>3, Disjoint
      <4>2. CASE ttl'[m][a] = TIMER_DOA
        BY <3>3, <4>2, Constants, Disjoint
      <4>3. CASE /\ ttl'[m][a] = ttl[m][a] /\ quiet'[a] = quiet[a]
                 /\ doa[m][a] = "DOA_REQUESTED"
        BY <3>3, <4>3 DEF TimesInv, QuietEnough
      <4> QED BY <2>1, <3>3, <4>2, <4>3
    <3> QED BY <3>1, <3>2, <3>3
  <2>2. ASSUME NEW d \in DoaThreads, NEW b \in Addr, Visiting(d, b)
        PROVE  quiet'[b] > TIMER_DOA
    <3>1. CASE b # a
      BY <2>2, <3>1 DEF TimesInv, QuietEnough
    <3>2. CASE b = a
      BY <1>4, <2>2, <3>2 DEF TimesInv, QuietEnough
    <3> QED BY <3>1, <3>2
  <2> QED BY <1>1, <2>1, <2>2 DEF QuietEnough
<1> QED BY <1>5, <1>6, <1>7, <1>8 DEF TimesInv


LEMMA UseCallTables ==
    ASSUME IInv, TablesInv, TimesInv, NEW w \in Workers, UseCall(w)
    PROVE  TablesInv' /\ TimesInv'
<1> DEFINE m == mod[w]
           a == obj[w]
<1>1. pc[w] = "use" /\ m \in Buckets /\ a \in Addr /\ uniqueExx[m] = w
  BY DEF UseCall, At, IInv, Locals, Locks
<1>2. /\ UNCHANGED <<comap, y2x, heap, created, doaVars, doa, quiet>>
      /\ ttl' = resetIfRequested(a, m)
  BY DEF UseCall, memory
<1>3. /\ \A v \in Workers \ {w} : pc'[v] = pc[v] /\ obj'[v] = obj[v] /\ rmod'[v] = rmod[v]
      /\ \A v \in Workers : HasCall(v)' =>
            HasCall(v) /\ obj'[v] = obj[v] /\ holds'[v] = holds[v] /\ age'[v] = age[v]
      /\ pc'[w] # "insert"
  <2>1. CASE Done(w)
    BY <1>1, <2>1 DEF IInv, TypeOK, Done, Goto, HasCall
  <2>2. CASE Goto(w, "mutex") /\ UNCHANGED <<msg, mod, rmod, obj, historyVars>>
    BY <1>1, <2>2 DEF IInv, TypeOK, Goto, historyVars, HasCall
  <2> QED BY <2>1, <2>2 DEF UseCall
<1>4. /\ \A n \in Buckets, b \in Addr : n # m \/ b # a => ttl'[n][b] = ttl[n][b]
      /\ ttl'[m][a] = ttl[m][a] \/ (ttl[m][a] # None /\ ttl'[m][a] = TIMER_DOA)
  BY <1>1, <1>2, ResetFacts
<1>5. quiet'[a] \in Nat /\ uniqueExx[m] \notin DoaThreads
  BY <1>1, <1>2, EntryFacts, NoneIsFree
<1> HIDE DEF m, a
<1> QED BY <1>1, <1>2, <1>3, <1>4, <1>5, RestartFrame, Constants, Disjoint

\* setDoaRequested may run on a call that is gone: it then finds no timer.
LEMMA RequestAgainTables ==
    ASSUME IInv, TablesInv, TimesInv, NEW w \in Workers, RequestAgain(w)
    PROVE  TablesInv' /\ TimesInv'
<1> DEFINE m == rmod[w]
           a == obj[w]
<1>1. pc[w] = "request" /\ m \in Buckets /\ a \in Addr /\ uniqueExx[m] = None
  BY DEF RequestAgain, At, IInv, Locals
<1>2. /\ UNCHANGED <<comap, y2x, heap, created, doaVars, doa>>
      /\ ttl' = resetTimer(ttl, a, m)
      /\ quiet' = [quiet EXCEPT ![a] = IF ttl[m][a] = None THEN @ ELSE 0]
      /\ Done(w)
  BY DEF RequestAgain, memory
<1>3. /\ \A v \in Workers \ {w} : pc'[v] = pc[v] /\ obj'[v] = obj[v] /\ rmod'[v] = rmod[v]
      /\ \A v \in Workers : HasCall(v)' =>
            HasCall(v) /\ obj'[v] = obj[v] /\ holds'[v] = holds[v] /\ age'[v] = age[v]
      /\ pc'[w] # "insert"
  BY <1>1, <1>2 DEF IInv, TypeOK, Done, Goto, HasCall
<1>4. /\ \A n \in Buckets, b \in Addr : n # m \/ b # a => ttl'[n][b] = ttl[n][b]
      /\ ttl'[m][a] = ttl[m][a] \/ (ttl[m][a] # None /\ ttl'[m][a] = TIMER_DOA)
      /\ ttl[m][a] # None => ttl'[m][a] = TIMER_DOA
  BY <1>1, <1>2, ResetFacts
<1>5. /\ \A b \in Addr \ {a} : quiet'[b] = quiet[b]
      /\ quiet'[a] = IF ttl[m][a] = None THEN quiet[a] ELSE 0
  BY <1>1, <1>2 DEF IInv, TypeOK
<1>6. quiet'[a] \in Nat /\ uniqueExx[m] \notin DoaThreads
  BY <1>1, <1>5, EntryFacts, NoneIsFree
<1> HIDE DEF m, a
<1> QED BY <1>1, <1>2, <1>3, <1>4, <1>5, <1>6, RestartFrame, Constants, Disjoint

\* The first request finds the state of the call, hence the call.
LEMMA RequestFirstTables ==
    ASSUME IInv, TablesInv, TimesInv, NEW w \in Workers, RequestFirst(w)
    PROVE  TablesInv' /\ TimesInv'
<1> DEFINE m == rmod[w]
           a == obj[w]
<1>1. /\ pc[w] = "request" /\ m \in Buckets /\ a \in Addr /\ uniqueExx[m] = None
      /\ doa[m][a] = "NOT_DOA"
  BY DEF RequestFirst, At, Lock, getDoa, IInv, Locals
<1>2. /\ UNCHANGED <<comap, y2x, heap, created, doaVars, quiet, obj, rmod, holds, age>>
      /\ ttl' = resetTimer(ttl, a, m)
      /\ doa' = [doa EXCEPT ![m][a] = None]
      /\ pc' = [pc EXCEPT ![w] = "insert"]
  BY DEF RequestFirst, memory, Goto, historyVars
<1>3. /\ \A v \in Workers \ {w} : pc'[v] = pc[v] /\ obj'[v] = obj[v] /\ rmod'[v] = rmod[v]
      /\ \A v \in Workers : HasCall(v)' =>
            HasCall(v) /\ obj'[v] = obj[v] /\ holds'[v] = holds[v] /\ age'[v] = age[v]
      /\ obj'[w] = a /\ rmod'[w] = m /\ doa[m][a] # None
  <2>1. pc \in [Workers -> WorkerPcs]
    BY DEF IInv, TypeOK
  <2>2. \A v \in Workers \ {w} : pc'[v] = pc[v] /\ obj'[v] = obj[v] /\ rmod'[v] = rmod[v]
    BY <1>2, <2>1
  <2>3. pc'[w] = "insert"
    BY <1>2, <2>1
  <2>4. \A v \in Workers : HasCall(v)' =>
           HasCall(v) /\ obj'[v] = obj[v] /\ holds'[v] = holds[v] /\ age'[v] = age[v]
    BY <1>1, <1>2, <2>2 DEF HasCall
  <2>5. obj'[w] = a /\ rmod'[w] = m /\ doa[m][a] # None
    BY <1>1, <1>2, Disjoint
  <2> QED BY <2>2, <2>4, <2>5
<1>4. /\ \A n \in Buckets, b \in Addr : n # m \/ b # a =>
            doa'[n][b] = doa[n][b] /\ ttl'[n][b] = ttl[n][b]
      /\ ttl'[m][a] = ttl[m][a] \/ (ttl[m][a] # None /\ ttl'[m][a] = TIMER_DOA)
      /\ doa'[m][a] = None
  <2>1. /\ \A n \in Buckets, b \in Addr : n # m \/ b # a => ttl'[n][b] = ttl[n][b]
        /\ ttl'[m][a] = ttl[m][a] \/ (ttl[m][a] # None /\ ttl'[m][a] = TIMER_DOA)
    BY <1>1, <1>2, ResetFacts
  <2>2. /\ \A n \in Buckets, b \in Addr : n # m \/ b # a => doa'[n][b] = doa[n][b]
        /\ doa'[m][a] = None
    BY <1>1, <1>2 DEF IInv, TypeOK
  <2> QED BY <2>1, <2>2
<1>5. quiet'[a] \in Nat /\ uniqueExx[m] \notin DoaThreads
  BY <1>1, <1>2, EntryFacts, NoneIsFree
<1> HIDE DEF m, a
<1> QED BY <1>1, <1>2, <1>3, <1>4, <1>5, RestartFrame, Constants, Disjoint

LEMMA InsertRequestedTables ==
    ASSUME IInv, TablesInv, TimesInv, NEW w \in Workers, InsertRequested(w)
    PROVE  TablesInv' /\ TimesInv'
<1> DEFINE m == rmod[w]
           a == obj[w]
<1>1. /\ pc[w] = "insert" /\ m \in Buckets /\ a \in Addr /\ uniqueExx[m] = w
      /\ ttl[m][a] # None
  BY DEF InsertRequested, At, IInv, Locals, Locks, TablesInv, Inserts
<1>2. /\ UNCHANGED <<comap, y2x, heap, created, doaVars>>
      /\ ttl' = resetTimer(ttl, a, m)
      /\ doa' = [doa EXCEPT ![m][a] = "DOA_REQUESTED"]
      /\ quiet' = [quiet EXCEPT ![a] = 0]
      /\ Done(w)
  BY DEF InsertRequested, memory
<1>3. /\ \A v \in Workers \ {w} : pc'[v] = pc[v] /\ obj'[v] = obj[v] /\ rmod'[v] = rmod[v]
      /\ \A v \in Workers : HasCall(v)' =>
            HasCall(v) /\ obj'[v] = obj[v] /\ holds'[v] = holds[v] /\ age'[v] = age[v]
      /\ pc'[w] # "insert"
  BY <1>1, <1>2 DEF IInv, TypeOK, Done, Goto, HasCall
<1>4. /\ \A n \in Buckets, b \in Addr : n # m \/ b # a =>
            doa'[n][b] = doa[n][b] /\ ttl'[n][b] = ttl[n][b]
      /\ ttl'[m][a] = TIMER_DOA
  <2>1. /\ \A n \in Buckets, b \in Addr : n # m \/ b # a => ttl'[n][b] = ttl[n][b]
        /\ ttl'[m][a] = TIMER_DOA
    BY <1>1, <1>2, ResetFacts
  <2>2. \A n \in Buckets, b \in Addr : n # m \/ b # a => doa'[n][b] = doa[n][b]
    BY <1>1, <1>2 DEF IInv, TypeOK
  <2> QED BY <2>1, <2>2
<1>5. quiet'[a] = 0 /\ \A b \in Addr \ {a} : quiet'[b] = quiet[b]
  BY <1>1, <1>2 DEF IInv, TypeOK
<1>6. uniqueExx[m] \notin DoaThreads
  BY <1>1, NoneIsFree
<1> HIDE DEF m, a
<1> QED BY <1>1, <1>2, <1>3, <1>4, <1>5, <1>6, RestartFrame, Constants, Disjoint

-----------------------------------------------------------------------------
(* DOA threads.                                                            *)

LEMMA QuietDoaSteps ==
    ASSUME IInv, TablesInv, TimesInv, NEW d \in DoaThreads,
           StartPurge(d) \/ SkipBucket(d) \/ TryBucket(d) \/ KeepEntry(d)
    PROVE  TablesInv' /\ TimesInv'
<1>1. /\ UNCHANGED <<comap, y2x, doa, ttl, heap, created, quiet, workerVars, cur, todel>>
      /\ dpc[d] \notin {"mark", "delete", "free"} /\ dpc'[d] \notin {"mark", "delete", "free"}
      /\ \A e \in DoaThreads \ {d} : dpc'[e] = dpc[e] /\ dmod'[e] = dmod[e]
      /\ Purging(d) \/ Purging(d)' => todel[d] = {} \/ (Purging(d) /\ Purging(d)')
      /\ Purging(d) => dmod'[d] = dmod[d]
  <2> USE DEF IInv, DoaAt, tables, memory, Purging
  <2>1. CASE StartPurge(d)
    BY <2>1 DEF StartPurge, TypeOK
  <2>2. CASE SkipBucket(d)
    <3>1. /\ dpc'[d] \in {"try", "sleep"}
          /\ \A e \in DoaThreads \ {d} : dpc'[e] = dpc[e] /\ dmod'[e] = dmod[e]
      BY <2>2, NextBucketIs DEF SkipBucket, Locals
    <3> QED BY <2>2, <3>1 DEF SkipBucket
  <2>3. CASE TryBucket(d)
    <3>1. /\ dpc[d] = "try" /\ dpc' = [dpc EXCEPT ![d] = "scan"]
          /\ UNCHANGED <<comap, y2x, doa, ttl, heap, created, quiet, workerVars, dmod,
                         cur, todel>>
      BY <2>3 DEF TryBucket
    <3>2. dpc'[d] = "scan" /\ \A e \in DoaThreads \ {d} : dpc'[e] = dpc[e]
      <4>1. dpc \in [DoaThreads -> DoaPcs]
        BY DEF TypeOK
      <4> QED BY <3>1, <4>1
    <3>3. todel[d] = {}
      BY <3>1 DEF Visits
    <3> QED BY <3>1, <3>2, <3>3
  <2>4. CASE KeepEntry(d)
    BY <2>4 DEF KeepEntry
  <2> QED BY <2>1, <2>2, <2>3, <2>4
<1>2. \A m \in Buckets, x \in CallIds : Leaving(m, x)' <=> Leaving(m, x)
  BY <1>1 DEF Leaving, Purging
<1>3. \A e \in DoaThreads, a \in Addr : Visiting(e, a)' => Visiting(e, a)
  BY <1>1 DEF Visiting
<1> QED BY <1>1, <1>2, <1>3, DoaFrame

LEMMA ExpireEntryTables ==
    ASSUME IInv, TablesInv, TimesInv, NEW d \in DoaThreads, ExpireEntry(d)
    PROVE  TablesInv' /\ TimesInv'
<1>0. PICK x \in CallIds, a \in Addr : ExpiresEntry(d, x, a)
  BY ExpireEntryDoes
<1> DEFINE m == dmod[d]
<1>1. /\ dpc[d] = "scan" /\ m \in Buckets
      /\ heap[a] # None /\ heap[a].y[1] = m
      /\ doa[m][a] = "DOA_REQUESTED" /\ ttl[m][a] = -1
      /\ UNCHANGED <<comap, y2x, ttl, heap, created, pc, rmod, obj, holds, age, dmod, todel,
                     quiet>>
  BY <1>0 DEF ExpiresEntry
<1>2. \A n \in Buckets, b \in Addr :
         doa'[n][b] = IF n = m /\ b = a THEN None ELSE doa[n][b]
  BY <1>0 DEF ExpiresEntry, IInv, TypeOK
<1>3. /\ dpc'[d] = "mark" /\ cur'[d] = a
      /\ \A e \in DoaThreads \ {d} : dpc'[e] = dpc[e] /\ cur'[e] = cur[e]
  BY <1>0 DEF ExpiresEntry, IInv, TypeOK
<1>4. \A n \in Buckets, z \in CallIds : Leaving(n, z)' <=> Leaving(n, z)
  BY <1>1, <1>3 DEF Leaving, Purging
<1>5. \A e \in DoaThreads, b \in Addr : Visiting(e, b)' <=> Visiting(e, b) \/ (e = d /\ b = a)
  BY <1>1, <1>3 DEF Visiting
<1> HIDE DEF m
<1>6. TablesInv'
  <2>1. KeysCreated' /\ YOfListed'
    BY <1>1, <1>4 DEF TablesInv, KeysCreated, YOfListed
  <2>2. ListedOfY'
    BY <1>1, <1>4, EntryFacts DEF TablesInv, ListedOfY
  <2>3. HomeOf'
    BY <1>1, <1>2, <1>4, StaysListed DEF TablesInv, HomeOf
  <2>4. Timed' /\ Inserts'
    BY <1>1, <1>3, <1>4 DEF TablesInv, Timed, Inserts
  <2> QED BY <2>1, <2>2, <2>3, <2>4 DEF TablesInv
<1>7. HoldsCall'
  BY <1>1 DEF TimesInv, HoldsCall, HasCall
\* The timer of a recent call has not expired.
<1>8. RecentIsSafe'
  <2> SUFFICES ASSUME NEW v \in Workers, Recent(v)' PROVE RecentCall(v, obj[v])'
    BY DEF RecentIsSafe
  <2>1. Recent(v) /\ obj[v] \in Addr /\ holds[v][1] \in Buckets /\ age[v] \in Nat
    BY <1>1, Records, EntryFacts DEF TimesInv, HoldsCall, Recent, HasCall
  <2>2. RecentCall(v, obj[v])
    BY <2>1 DEF TimesInv, RecentIsSafe
  <2>3. obj[v] # a
    <3> SUFFICES ASSUME obj[v] = a PROVE FALSE
      OBVIOUS
    <3>1. -1 >= TIMER_DOA - age[v]
      BY <1>1, <2>2 DEF RecentCall
    <3> QED BY <2>1, <3>1, Constants DEF Recent
  <2>4. \A e \in DoaThreads : ~Visiting(e, obj[v])'
    <3>1. \A e \in DoaThreads : ~Visiting(e, obj[v])
      BY <2>2 DEF RecentCall
    <3> QED BY <1>1, <1>3, <2>3, <3>1 DEF Visiting
  <2> QED BY <1>1, <1>2, <2>1, <2>3, <2>4, RecentKept
<1>9. QuietEnough'
  <2>1. \A n \in Buckets, b \in Addr : doa'[n][b] = "DOA_REQUESTED" =>
           ttl'[n][b] # None /\ quiet'[b] >= TIMER_DOA - ttl'[n][b]
    BY <1>1, <1>2, Disjoint DEF TimesInv, QuietEnough
  <2>2. quiet[a] > TIMER_DOA
    <3>1. quiet[a] >= TIMER_DOA - (-1)
      BY <1>1 DEF TimesInv, QuietEnough
    <3> QED BY <3>1, Constants, EntryFacts
  <2> QED BY <1>1, <1>5, <2>1, <2>2 DEF TimesInv, QuietEnough
<1> QED BY <1>6, <1>7, <1>8, <1>9 DEF TimesInv

LEMMA MarkDeletedTables ==
    ASSUME IInv, TablesInv, TimesInv, NEW d \in DoaThreads, MarkDeleted(d)
    PROVE  TablesInv' /\ TimesInv'
<1> DEFINE m == dmod[d]
           a == cur[d]
<1>1. /\ dpc[d] = "mark" /\ a \in Addr /\ Visiting(d, a)
      /\ UNCHANGED <<comap, y2x, heap, created, workerVars, dmod, cur, todel, quiet>>
  BY DEF MarkDeleted, DoaAt, IInv, Locals, memory, Visiting
<1>2. m \in Buckets /\ uniqueExx[m] = d /\ heap[a] \in Calls /\ heap[a].y[1] = m
  BY <1>1, VisitFacts
<1>3. \A n \in Buckets, b \in Addr :
         /\ doa'[n][b] = IF n = m /\ b = a THEN "DOA_DELETED" ELSE doa[n][b]
         /\ ttl'[n][b] = IF n = m /\ b = a THEN None ELSE ttl[n][b]
  BY <1>1, <1>2 DEF MarkDeleted, IInv, TypeOK
<1>4. dpc'[d] = "delete" /\ \A e \in DoaThreads \ {d} : dpc'[e] = dpc[e]
  BY DEF MarkDeleted, IInv, TypeOK
<1>5. \A n \in Buckets, z \in CallIds : Leaving(n, z)' <=> Leaving(n, z)
  BY <1>1, <1>4 DEF Leaving, Purging
<1>6. \A e \in DoaThreads, b \in Addr : Visiting(e, b)' <=> Visiting(e, b)
  BY <1>1, <1>4 DEF Visiting
<1>7. /\ heap[a] # None /\ heap[a].x \in CallIds /\ ~Leaving(m, heap[a].x)
  <2>1. heap[a] # None
    BY <1>2, Disjoint
  <2>2. \A e \in DoaThreads : Visiting(e, a) => e = d
    BY <1>1, OneVisitor
  <2> QED BY <1>1, <1>2, <2>1, <2>2, StaysListed
<1> HIDE DEF m, a
<1>8. TablesInv'
  <2>1. KeysCreated' /\ YOfListed'
    BY <1>1, <1>5 DEF TablesInv, KeysCreated, YOfListed
  <2>2. ListedOfY'
    BY <1>1, <1>5, EntryFacts DEF TablesInv, ListedOfY
  <2>3. HomeOf'
    BY <1>1, <1>2, <1>3, <1>5, <1>7, StaysListed DEF TablesInv, HomeOf
  <2>4. Timed'
    <3> SUFFICES ASSUME NEW n \in Buckets, NEW z \in CallIds, comap[n][z] # None,
                        ~Leaving(n, z)
                 PROVE  \/ ttl'[n][comap[n][z]] # None
                        \/ \E e \in DoaThreads :
                              dpc'[e] = "delete" /\ dmod[e] = n /\ cur[e] = comap[n][z]
      BY <1>1, <1>5 DEF Timed
    <3>1. comap[n][z] \in Addr
      BY EntryType DEF IInv
    <3>2. CASE n = m /\ comap[n][z] = a
      BY <1>4, <3>2 DEF m, a
    <3>3. CASE ~(n = m /\ comap[n][z] = a)
      BY <1>1, <1>3, <1>4, <3>1, <3>3 DEF TablesInv, Timed
    <3> QED BY <3>2, <3>3
  <2>5. Inserts'
    <3> SUFFICES ASSUME NEW v \in Workers, pc[v] = "insert"
                 PROVE  /\ heap[obj[v]] # None /\ heap[obj[v]].y[1] = rmod[v]
                        /\ ttl'[rmod[v]][obj[v]] # None
      BY <1>1 DEF Inserts, workerVars
    <3>1. obj[v] \in Addr /\ rmod[v] \in Buckets /\ uniqueExx[rmod[v]] = v
      BY DEF IInv, Locals, Locks
    <3>2. rmod[v] # m
      BY <1>2, <3>1, NoneIsFree
    <3> QED BY <1>3, <3>1, <3>2 DEF TablesInv, Inserts
  <2> QED BY <2>1, <2>2, <2>3, <2>4, <2>5 DEF TablesInv
<1>9. HoldsCall'
  BY <1>1 DEF TimesInv, HoldsCall, HasCall, workerVars, historyVars
<1>10. RecentIsSafe'
  <2> SUFFICES ASSUME NEW v \in Workers, Recent(v)' PROVE RecentCall(v, obj[v])'
    BY DEF RecentIsSafe
  <2>1. Recent(v) /\ obj[v] \in Addr /\ holds[v][1] \in Buckets
    BY <1>1, Records DEF TimesInv, HoldsCall, Recent, HasCall, workerVars, historyVars
  <2>2. \A e \in DoaThreads : ~Visiting(e, obj[v])
    BY <2>1 DEF TimesInv, RecentIsSafe, RecentCall
  <2>3. obj[v] # a
    BY <1>1, <2>2
  <2>4. \A e \in DoaThreads : ~Visiting(e, obj[v])'
    BY <1>1, <1>4, <2>2 DEF Visiting, workerVars
  <2> QED BY <1>1, <1>3, <2>1, <2>3, <2>4, RecentKept DEF workerVars, historyVars
<1>11. QuietEnough'
  BY <1>1, <1>3, <1>6, Disjoint DEF TimesInv, QuietEnough
<1> QED BY <1>8, <1>9, <1>10, <1>11 DEF TimesInv


LEMMA ReapEntryTables ==
    ASSUME IInv, TablesInv, TimesInv, NEW d \in DoaThreads, ReapEntry(d)
    PROVE  TablesInv' /\ TimesInv'
<1> DEFINE m == dmod[d]
           a == cur[d]
           x0 == heap[a].x
           k0 == heap[a].y[2]
<1>1. /\ dpc[d] = "delete" /\ a \in Addr /\ Visiting(d, a)
      /\ UNCHANGED <<comap, heap, created, workerVars, dmod, cur, quiet>>
  <2>1. dpc[d] = "delete" /\ a \in Addr
    BY DEF ReapEntry, DoaAt, IInv, Locals
  <2>2. ttlDelete[m][a] = -1
    BY <2>1 DEF IInv, Visits
  <2> QED BY <2>1, <2>2 DEF ReapEntry, memory, Visiting
<1>2. m \in Buckets /\ uniqueExx[m] = d /\ heap[a] \in Calls /\ heap[a].y[1] = m
  BY <1>1, VisitFacts
<1>3. heap[a] # None /\ x0 \in CallIds /\ k0 \in Keys /\ comap[m][x0] = a
  <2>1. heap[a] # None
    BY <1>2, Disjoint
  <2> QED BY <1>1, <1>2, <2>1, StaysListed
<1>4. ttlDelete[m][a] = -1
  BY <1>1 DEF IInv, Visits
<1>5. /\ \A n \in Buckets, b \in Addr :
            /\ doa'[n][b] = IF n = m /\ b = a THEN None ELSE doa[n][b]
            /\ ttl'[n][b] = IF n = m /\ b = a THEN None ELSE ttl[n][b]
      /\ \A n \in Buckets, k \in Keys :
            y2x'[n][k] = IF n = m /\ k = k0 THEN None ELSE y2x[n][k]
  <2>1. /\ doa' = [doa EXCEPT ![m][a] = None]
        /\ ttl' = [ttl EXCEPT ![m][a] = None]
        /\ y2x' = [y2x EXCEPT ![m][k0] = None]
    BY <1>4 DEF ReapEntry, Unlist
  <2>2. /\ doa \in [Buckets -> [Addr -> DoaStates \cup {None}]]
        /\ ttl \in [Buckets -> [Addr -> (-1 .. TIMER_DOA) \cup {None}]]
        /\ y2x \in [Buckets -> [Keys -> CallIds \cup {None}]]
    BY DEF IInv, TypeOK
  <2> HIDE DEF m, a, k0
  <2> QED BY <1>1, <1>2, <2>1, <2>2
<1>6. /\ dpc'[d] = "free" /\ todel'[d] = todel[d] \cup {x0}
      /\ \A e \in DoaThreads \ {d} : dpc'[e] = dpc[e] /\ todel'[e] = todel[e]
  BY <1>4 DEF ReapEntry, IInv, TypeOK
<1>7. \A n \in Buckets, z \in CallIds :
         Leaving(n, z)' <=> Leaving(n, z) \/ (n = m /\ z = x0)
  BY <1>1, <1>6 DEF Leaving, Purging
<1>8. \A e \in DoaThreads, b \in Addr : Visiting(e, b)' <=> Visiting(e, b)
  BY <1>1, <1>6 DEF Visiting
<1>9. ~Leaving(m, x0)
  <2>1. \A e \in DoaThreads : Visiting(e, a) => e = d
    BY <1>1, OneVisitor
  <2> QED BY <1>1, <1>2, <1>3, <2>1, StaysListed
\* The call at a is listed under x0 only.
<1>10. \A n \in Buckets, z \in CallIds :
          comap[n][z] = a /\ ~Leaving(n, z) => n = m /\ z = x0
  BY <1>1, <1>2, <1>3, Disjoint DEF IInv, Listed
<1> HIDE DEF m, a, x0, k0
<1>11. KeysCreated'
  BY <1>1 DEF TablesInv, KeysCreated
<1>12. YOfListed'
  <2> SUFFICES ASSUME NEW n \in Buckets, NEW z \in CallIds, comap[n][z] # None,
                      ~Leaving(n, z), ~(n = m /\ z = x0)
               PROVE  y2x'[n][heap[comap[n][z]].y[2]] = z
    BY <1>1, <1>7 DEF YOfListed
  <2> DEFINE b == comap[n][z]
  <2>1. b \in Addr /\ heap[b] # None
    BY EntryType DEF IInv, Listed
  <2>2. heap[b].y[2] \in Keys /\ y2x[n][heap[b].y[2]] = z
    BY <2>1, StaysListed DEF TablesInv, YOfListed
  <2>3. y2x[m][k0] = x0
    BY <1>2, <1>3, <1>9, Disjoint, <1>1 DEF TablesInv, YOfListed, k0
  <2> HIDE DEF b
  <2>4. ~(n = m /\ heap[b].y[2] = k0)
    BY <2>2, <2>3
  <2>5. y2x'[n][heap[b].y[2]] = z
    BY <1>5, <2>2, <2>4
  <2> QED BY <2>5 DEF b
<1>13. ListedOfY'
  <2>1. ASSUME NEW n \in Buckets, NEW k \in Keys, y2x'[n][k] # None
        PROVE  /\ y2x'[n][k] \in CallIds /\ comap[n][y2x'[n][k]] # None
               /\ ~(Leaving(n, y2x'[n][k]) \/ (n = m /\ y2x'[n][k] = x0))
               /\ heap[comap[n][y2x'[n][k]]].y = <<n, k>>
    <3>1. ~(n = m /\ k = k0) /\ y2x'[n][k] = y2x[n][k] /\ y2x[n][k] \in CallIds
      BY <1>5, <2>1, EntryFacts
    <3>2. /\ comap[n][y2x[n][k]] # None /\ ~Leaving(n, y2x[n][k])
          /\ heap[comap[n][y2x[n][k]]].y = <<n, k>>
      BY <2>1, <3>1 DEF TablesInv, ListedOfY
    <3>3. ~(n = m /\ y2x[n][k] = x0)
      BY <1>3, <3>1, <3>2 DEF k0
    <3> QED BY <3>1, <3>2, <3>3
  <2>2. comap' = comap /\ heap' = heap
    BY <1>1
  <2> QED BY <1>7, <2>1, <2>2 DEF ListedOfY
<1>14. HomeOf'
  <2> SUFFICES ASSUME NEW n \in Buckets, NEW b \in Addr, doa'[n][b] # None \/ ttl'[n][b] # None
               PROVE  heap[b] # None /\ heap[b].y[1] = n /\ ~Leaving(n, heap[b].x) /\
                      ~(n = m /\ heap[b].x = x0)
    BY <1>1, <1>7, StaysListed DEF HomeOf
  <2>1. ~(n = m /\ b = a) /\ (doa[n][b] # None \/ ttl[n][b] # None)
    BY <1>5
  <2>2. heap[b] # None /\ heap[b].y[1] = n /\ ~Leaving(n, heap[b].x)
    BY <2>1 DEF TablesInv, HomeOf
  <2>3. comap[n][heap[b].x] = b
    BY <2>2, StaysListed
  <2> QED BY <1>3, <2>1, <2>2, <2>3
<1>15. Timed'
  <2> SUFFICES ASSUME NEW n \in Buckets, NEW z \in CallIds, comap[n][z] # None,
                      ~Leaving(n, z), ~(n = m /\ z = x0)
               PROVE  \/ ttl'[n][comap[n][z]] # None
                      \/ \E e \in DoaThreads :
                            dpc'[e] = "delete" /\ dmod[e] = n /\ cur[e] = comap[n][z]
    BY <1>1, <1>7 DEF Timed
  <2>1. comap[n][z] \in Addr /\ comap[n][z] # a
    BY <1>10, EntryType DEF IInv
  <2> QED BY <1>1, <1>5, <1>6, <2>1 DEF TablesInv, Timed, a
<1>16. Inserts'
  <2> SUFFICES ASSUME NEW v \in Workers, pc[v] = "insert"
               PROVE  /\ heap[obj[v]] # None /\ heap[obj[v]].y[1] = rmod[v]
                      /\ ttl'[rmod[v]][obj[v]] # None
    BY <1>1 DEF Inserts, workerVars
  <2>1. obj[v] \in Addr /\ rmod[v] \in Buckets /\ uniqueExx[rmod[v]] = v
    BY DEF IInv, Locals, Locks
  <2>2. rmod[v] # m
    BY <1>2, <2>1, NoneIsFree
  <2> QED BY <1>5, <2>1, <2>2 DEF TablesInv, Inserts
<1>17. HoldsCall'
  BY <1>1 DEF TimesInv, HoldsCall, HasCall, workerVars, historyVars
<1>18. RecentIsSafe'
  <2> SUFFICES ASSUME NEW v \in Workers, Recent(v)' PROVE RecentCall(v, obj[v])'
    BY DEF RecentIsSafe
  <2>1. Recent(v) /\ obj[v] \in Addr /\ holds[v][1] \in Buckets
    BY <1>1, Records DEF TimesInv, HoldsCall, Recent, HasCall, workerVars, historyVars
  <2>2. \A e \in DoaThreads : ~Visiting(e, obj[v])
    BY <2>1 DEF TimesInv, RecentIsSafe, RecentCall
  <2>3. obj[v] # a
    BY <1>1, <2>2
  <2>4. \A e \in DoaThreads : ~Visiting(e, obj[v])'
    BY <1>1, <1>6, <2>2 DEF Visiting, workerVars
  <2> QED BY <1>1, <1>5, <2>1, <2>3, <2>4, RecentKept DEF workerVars, historyVars
<1>19. QuietEnough'
  BY <1>1, <1>5, <1>8, Disjoint DEF TimesInv, QuietEnough
<1>20. TablesInv'
  BY <1>11, <1>12, <1>13, <1>14, <1>15, <1>16 DEF TablesInv
<1> QED BY <1>17, <1>18, <1>19, <1>20 DEF TimesInv

LEMMA FreeCallTables ==
    ASSUME IInv, TablesInv, TimesInv, NEW d \in DoaThreads, FreeCall(d)
    PROVE  TablesInv' /\ TimesInv'
<1> DEFINE a == cur[d]
           m == dmod[d]
<1>1. /\ dpc[d] = "free" /\ a \in Addr /\ Visiting(d, a)
      /\ UNCHANGED <<comap, y2x, doa, ttl, created, workerVars, dmod, todel>>
  BY DEF FreeCall, DoaAt, IInv, Locals, tables, Visiting
<1>2. m \in Buckets /\ uniqueExx[m] = d /\ heap[a] \in Calls /\ heap[a].y[1] = m
  BY <1>1, VisitFacts
<1>3. heap[a] # None /\ Leaving(m, heap[a].x)
  BY <1>1, <1>2, Disjoint DEF IInv, Visits, Leaving, Purging
<1>4. /\ \A b \in Addr \ {a} : heap'[b] = heap[b] /\ quiet'[b] = quiet[b]
      /\ heap'[a] = None
  BY <1>1 DEF FreeCall, IInv, TypeOK
<1>5. /\ dpc'[d] = "scan"
      /\ \A e \in DoaThreads \ {d} : dpc'[e] = dpc[e] /\ cur'[e] = cur[e]
  BY DEF FreeCall, IInv, TypeOK
<1>6. \A n, z : Leaving(n, z)' <=> Leaving(n, z)
  BY <1>1, <1>5 DEF Leaving, Purging
<1>7. \A e \in DoaThreads, b \in Addr : Visiting(e, b)' => Visiting(e, b) /\ b # a
  <2>1. \A e \in DoaThreads : Visiting(e, a) => e = d
    BY <1>1, OneVisitor
  <2>2. \A e \in DoaThreads, b \in Addr : Visiting(e, b)' => Visiting(e, b) /\ e # d
    BY <1>5 DEF Visiting
  <2> QED BY <2>1, <2>2
<1>8. /\ \A n \in Buckets, z \in CallIds : comap[n][z] = a => Leaving(n, z)
      /\ \A n \in Buckets : doa[n][a] = None /\ ttl[n][a] = None
  <2>1. \A n \in Buckets, z \in CallIds : comap[n][z] = a => Leaving(n, z)
    BY <1>1, <1>2, <1>3, Disjoint DEF IInv, Listed
  <2>2. \A n \in Buckets : doa[n][a] = None /\ ttl[n][a] = None
    BY <1>1, <1>2, <1>3 DEF TablesInv, HomeOf
  <2> QED BY <2>1, <2>2
<1> HIDE DEF a, m
<1>9. KeysCreated'
  BY <1>1, <1>4 DEF TablesInv, KeysCreated
<1>10. YOfListed'
  <2> SUFFICES ASSUME NEW n \in Buckets, NEW z \in CallIds, comap[n][z] # None,
                      ~Leaving(n, z)
               PROVE  y2x[n][heap'[comap[n][z]].y[2]] = z
    BY <1>1, <1>6 DEF YOfListed
  <2>1. comap[n][z] \in Addr /\ comap[n][z] # a
    BY <1>8, EntryType DEF IInv
  <2> QED BY <1>4, <2>1 DEF TablesInv, YOfListed
<1>11. ListedOfY'
  <2> SUFFICES ASSUME NEW n \in Buckets, NEW k \in Keys, y2x[n][k] # None
               PROVE  /\ comap[n][y2x[n][k]] # None
                      /\ ~Leaving(n, y2x[n][k])
                      /\ heap'[comap[n][y2x[n][k]]].y = <<n, k>>
    BY <1>1, <1>6 DEF ListedOfY
  <2>1. comap[n][y2x[n][k]] \in Addr /\ comap[n][y2x[n][k]] # a
    BY <1>8, EntryType, EntryFacts DEF IInv, TablesInv, ListedOfY
  <2> QED BY <1>4, <2>1 DEF TablesInv, ListedOfY
<1>12. HomeOf'
  BY <1>1, <1>4, <1>6, <1>8 DEF TablesInv, HomeOf
<1>13. Timed'
  <2>1. \A e \in DoaThreads : dpc[e] = "delete" => dpc'[e] = "delete" /\ cur'[e] = cur[e]
    BY <1>1, <1>5
  <2> QED BY <1>1, <1>6, <2>1 DEF TablesInv, Timed
<1>14. Inserts'
  <2> SUFFICES ASSUME NEW v \in Workers, pc[v] = "insert"
               PROVE  /\ heap'[obj[v]] # None /\ heap'[obj[v]].y[1] = rmod[v]
                      /\ ttl[rmod[v]][obj[v]] # None
    BY <1>1 DEF Inserts, workerVars
  <2>1. obj[v] \in Addr /\ rmod[v] \in Buckets
    BY DEF IInv, Locals
  <2>2. ttl[rmod[v]][obj[v]] # None
    BY DEF TablesInv, Inserts
  <2>3. obj[v] # a
    BY <1>8, <2>1, <2>2
  <2> QED BY <1>4, <2>1, <2>2, <2>3 DEF TablesInv, Inserts
<1>15. HoldsCall'
  BY <1>1 DEF TimesInv, HoldsCall, HasCall, workerVars, historyVars
<1>16. RecentIsSafe'
  <2> SUFFICES ASSUME NEW v \in Workers, Recent(v)' PROVE RecentCall(v, obj[v])'
    BY DEF RecentIsSafe
  <2>1. Recent(v) /\ obj[v] \in Addr /\ holds[v][1] \in Buckets
    BY <1>1, Records DEF TimesInv, HoldsCall, Recent, HasCall, workerVars, historyVars
  <2>2. \A e \in DoaThreads : ~Visiting(e, obj[v])
    BY <2>1 DEF TimesInv, RecentIsSafe, RecentCall
  <2>3. obj[v] # a
    BY <1>1, <2>2
  <2>4. \A e \in DoaThreads : ~Visiting(e, obj[v])'
    BY <1>1, <1>5, <2>2 DEF Visiting, workerVars
  <2> QED BY <1>1, <1>4, <2>1, <2>3, <2>4, RecentKept DEF workerVars, historyVars
<1>17. QuietEnough'
  <2>1. \A n \in Buckets, b \in Addr : doa[n][b] = "DOA_REQUESTED" => b # a
    BY <1>8, Disjoint
  <2> QED BY <1>1, <1>4, <1>7, <2>1 DEF TimesInv, QuietEnough
<1>18. TablesInv'
  BY <1>9, <1>10, <1>11, <1>12, <1>13, <1>14 DEF TablesInv
<1> QED BY <1>15, <1>16, <1>17, <1>18 DEF TimesInv

LEMMA EndPurgeTables ==
    ASSUME IInv, TablesInv, TimesInv, NEW d \in DoaThreads, EndPurge(d)
    PROVE  TablesInv' /\ TimesInv'
<1> DEFINE m == dmod[d]
<1>1. /\ dpc[d] = "scan" /\ m \in Buckets
      /\ UNCHANGED <<y2x, doa, ttl, heap, created, workerVars, cur, quiet>>
  BY Constants DEF EndPurge, DoaAt, IInv, Locals, memory
<1>2. /\ dpc'[d] \in {"try", "sleep"}
      /\ \A e \in DoaThreads \ {d} : dpc'[e] = dpc[e] /\ dmod'[e] = dmod[e]
  BY <1>1, NextBucketIs DEF EndPurge, IInv, Locals
<1>3. \A n \in Buckets, z \in CallIds :
         comap'[n][z] = IF n = m /\ z \in todel[d] THEN None ELSE comap[n][z]
  BY <1>1 DEF EndPurge, IInv, TypeOK
<1>4. todel'[d] = {} /\ \A e \in DoaThreads \ {d} : todel'[e] = todel[e]
  BY DEF EndPurge, IInv, TypeOK
<1>5. \A n, z : /\ Leaving(n, z)' => Leaving(n, z)
                /\ Leaving(n, z) => Leaving(n, z)' \/ (n = m /\ z \in todel[d])
  BY <1>1, <1>2, <1>4 DEF Leaving, Purging
<1>6. \A z : z \in todel[d] => Leaving(m, z)
  BY <1>1 DEF Leaving, Purging
<1>7. \A e \in DoaThreads, b \in Addr : Visiting(e, b)' <=> Visiting(e, b)
  BY <1>1, <1>2 DEF Visiting
<1>8. \A e \in DoaThreads : dpc[e] = "delete" => dpc'[e] = "delete" /\ dmod'[e] = dmod[e]
  BY <1>1, <1>2
<1> HIDE DEF m
<1>9. KeysCreated' /\ YOfListed'
  BY <1>1, <1>3, <1>5 DEF TablesInv, KeysCreated, YOfListed
<1>10. ListedOfY'
  <2> SUFFICES ASSUME NEW n \in Buckets, NEW k \in Keys, y2x[n][k] # None
               PROVE  /\ comap'[n][y2x[n][k]] # None
                      /\ ~(Leaving(n, y2x[n][k])')
                      /\ heap[comap'[n][y2x[n][k]]].y = <<n, k>>
    BY <1>1 DEF ListedOfY, Leaving
  <2>1. y2x[n][k] \in CallIds /\ ~Leaving(n, y2x[n][k])
    BY EntryFacts DEF TablesInv, ListedOfY
  <2>2. comap'[n][y2x[n][k]] = comap[n][y2x[n][k]]
    BY <1>3, <1>6, <2>1
  <2>3. ~(Leaving(n, y2x[n][k])')
    <3>1. y2x' = y2x
      BY <1>1
    <3> QED BY <1>5, <2>1, <3>1
  <2> QED BY <2>1, <2>2, <2>3 DEF TablesInv, ListedOfY
<1>11. HomeOf'
  <2>1. heap' = heap /\ doa' = doa /\ ttl' = ttl
    BY <1>1
  <2> QED BY <1>5, <2>1 DEF TablesInv, HomeOf
<1>12. Timed' /\ Inserts'
  BY <1>1, <1>3, <1>5, <1>8 DEF TablesInv, Timed, Inserts, workerVars
<1>13. HoldsCall'
  BY <1>1 DEF TimesInv, HoldsCall, HasCall, workerVars, historyVars
<1>14. RecentIsSafe'
  <2> SUFFICES ASSUME NEW v \in Workers, Recent(v)' PROVE RecentCall(v, obj[v])'
    BY DEF RecentIsSafe
  <2>1. Recent(v) /\ obj[v] \in Addr
    BY <1>1 DEF TimesInv, HoldsCall, Recent, HasCall, workerVars, historyVars
  <2>2. \A e \in DoaThreads : ~Visiting(e, obj[v])'
    BY <1>1, <1>2, <2>1 DEF TimesInv, RecentIsSafe, RecentCall, Visiting, workerVars
  <2> QED BY <1>1, <2>1, <2>2, RecentKept DEF workerVars, historyVars, TimesInv,
          RecentIsSafe, RecentCall
<1>15. QuietEnough'
  BY <1>1, <1>7 DEF TimesInv, QuietEnough
<1> QED BY <1>9, <1>10, <1>11, <1>12, <1>13, <1>14, <1>15 DEF TablesInv, TimesInv

-----------------------------------------------------------------------------
(* Time, and all steps together.                                           *)

\* A timer and the time it measures move together.
LEMMA TickTables ==
    ASSUME IInv, TablesInv, TimesInv, Tick
    PROVE  TablesInv' /\ TimesInv'
<1>1. /\ \A m \in Buckets, a \in Addr : ttl'[m][a] = Elapse(ttl[m][a])
      /\ \A a \in Addr :
            quiet'[a] = IF heap[a] = None THEN 0 ELSE Older(quiet[a], QuietCap)
      /\ \A w \in Workers :
            age'[w] = IF holds[w] = None THEN 0 ELSE Older(age[w], AgeCap)
      /\ UNCHANGED <<comap, y2x, doa, heap, created, pc, rmod, obj, holds, dpc, dmod, cur,
                     todel>>
  BY DEF Tick, memory, doaVars
<1>2. \A m \in Buckets, a \in Addr : ttl'[m][a] = None <=> ttl[m][a] = None
  BY <1>1, EntryFacts, Disjoint DEF Elapse
<1>3. \A m, x : Leaving(m, x)' <=> Leaving(m, x)
  BY <1>1 DEF Leaving, Purging
<1>4. \A d, a : Visiting(d, a)' <=> Visiting(d, a)
  BY <1>1 DEF Visiting
<1>5. KeysCreated' /\ YOfListed' /\ ListedOfY'
  <2>1. ListedOfY'
    <3>1. y2x' = y2x /\ comap' = comap /\ heap' = heap
      BY <1>1
    <3> QED BY <1>3, <3>1 DEF TablesInv, ListedOfY
  <2> QED BY <1>1, <1>3, <2>1 DEF TablesInv, KeysCreated, YOfListed
<1>6. HomeOf'
  <2>1. heap' = heap /\ doa' = doa
    BY <1>1
  <2> QED BY <1>2, <1>3, <2>1 DEF TablesInv, HomeOf
<1>7. Timed' /\ Inserts'
  <2>1. Timed'
    <3> SUFFICES ASSUME NEW m \in Buckets, NEW x \in CallIds, comap[m][x] # None,
                        ~Leaving(m, x)
                 PROVE  \/ ttl'[m][comap[m][x]] # None
                        \/ \E d \in DoaThreads :
                              dpc[d] = "delete" /\ dmod[d] = m /\ cur[d] = comap[m][x]
      BY <1>1, <1>3 DEF Timed
    <3>1. comap[m][x] \in Addr
      BY EntryType DEF IInv
    <3> QED BY <1>2, <3>1 DEF TablesInv, Timed
  <2>2. \A w \in Workers : pc[w] = "insert" => obj[w] \in Addr /\ rmod[w] \in Buckets
    BY DEF IInv, Locals
  <2> QED BY <1>1, <1>2, <2>1, <2>2 DEF TablesInv, Inserts
<1>8. HoldsCall'
  BY <1>1 DEF TimesInv, HoldsCall, HasCall
<1>9. RecentIsSafe'
  <2> SUFFICES ASSUME NEW w \in Workers, Recent(w)' PROVE RecentCall(w, obj[w])'
    BY DEF RecentIsSafe
  <2> DEFINE a == obj[w]
             n == holds[w][1]
  <2>1. HasCall(w) /\ a \in Addr /\ holds[w] # None /\ n \in Buckets
    BY <1>1, Records, Disjoint DEF TimesInv, HoldsCall, Recent, HasCall
  <2>2. age[w] \in Nat /\ age'[w] = age[w] + 1 /\ age'[w] <= TIMER_DOA
    <3>1. age[w] \in 0 .. AgeCap /\ age'[w] = Older(age[w], AgeCap) /\ age'[w] <= TIMER_DOA
      BY <1>1, <2>1, EntryFacts DEF Recent
    <3> QED BY <3>1, Constants DEF Older, AgeCap
  <2>3. RecentCall(w, a)
    BY <2>1, <2>2, Constants DEF TimesInv, RecentIsSafe, Recent
  <2> HIDE DEF a, n
  <2>4. ASSUME doa[n][a] = "DOA_REQUESTED"
        PROVE  ttl'[n][a] # None /\ ttl'[n][a] >= TIMER_DOA - age'[w]
    <3>1. ttl[n][a] # None /\ ttl[n][a] >= TIMER_DOA - age[w]
      BY <2>3, <2>4 DEF RecentCall, n
    <3>2. ttl[n][a] \in -1 .. TIMER_DOA /\ ttl'[n][a] = Elapse(ttl[n][a])
      BY <1>1, <2>1, <3>1, EntryFacts
    <3>3. ttl[n][a] >= 1 /\ ttl'[n][a] = ttl[n][a] - 1
      BY <2>2, <3>1, <3>2, Constants DEF Elapse
    <3> QED BY <2>2, <3>1, <3>2, <3>3, Constants, Disjoint
  <2>5. heap[a] # None /\ heap[a].y = holds[w] /\ \A d \in DoaThreads : ~Visiting(d, a)
    BY <2>3 DEF RecentCall
  <2> QED BY <1>1, <1>4, <2>4, <2>5 DEF RecentCall, a, n
<1>10. QuietEnough'
  <2>1. \A a \in Addr : heap[a] # None => /\ quiet'[a] >= quiet[a]
                                          /\ quiet'[a] > TIMER_DOA \/ quiet'[a] = quiet[a] + 1
    BY <1>1, EntryFacts, Constants DEF Older, QuietCap
  <2>2. ASSUME NEW m \in Buckets, NEW a \in Addr, doa[m][a] = "DOA_REQUESTED"
        PROVE  ttl'[m][a] # None /\ quiet'[a] >= TIMER_DOA - ttl'[m][a]
    <3>1. heap[a] # None
      BY <2>2, Disjoint DEF TablesInv, HomeOf
    <3>2. ttl[m][a] # None /\ quiet[a] >= TIMER_DOA - ttl[m][a]
      BY <2>2 DEF TimesInv, QuietEnough
    <3>3. ttl[m][a] \in -1 .. TIMER_DOA /\ ttl'[m][a] = Elapse(ttl[m][a])
      BY <1>1, <3>2, EntryFacts
    <3>4. quiet[a] \in Nat /\ quiet'[a] >= quiet[a]
          /\ (quiet'[a] > TIMER_DOA \/ quiet'[a] = quiet[a] + 1)
      BY <2>1, <3>1, EntryFacts
    <3>5. quiet'[a] \in Int
      BY <1>1, <3>1, <3>4, EntryFacts, Constants DEF Older
    <3>6. CASE ttl[m][a] = -1
      BY <3>2, <3>3, <3>4, <3>5, <3>6, Constants, Disjoint DEF Elapse
    <3>7. CASE ttl[m][a] # -1
      <4>1. ttl'[m][a] = ttl[m][a] - 1 /\ ttl'[m][a] \in -1 .. TIMER_DOA
        BY <3>2, <3>3, <3>7, Constants DEF Elapse
      <4> QED BY <3>2, <3>3, <3>4, <3>5, <4>1, Constants, Disjoint
    <3> QED BY <3>6, <3>7
  <2>3. ASSUME NEW d \in DoaThreads, NEW a \in Addr, Visiting(d, a)
        PROVE  quiet'[a] > TIMER_DOA
    <3>1. heap[a] # None
      BY <2>3, VisitFacts, Disjoint
    <3>2. quiet[a] \in Nat /\ quiet[a] > TIMER_DOA
      BY <2>3, EntryFacts DEF TimesInv, QuietEnough
    <3> QED BY <1>1, <3>1, <3>2, Constants DEF Older, QuietCap
  <2> QED BY <1>1, <1>4, <2>2, <2>3 DEF QuietEnough
<1>11. TablesInv'
  BY <1>5, <1>6, <1>7 DEF TablesInv
<1> QED BY <1>8, <1>9, <1>10, <1>11 DEF TimesInv

LEMMA TablesInit == Init => TablesInv /\ TimesInv
<1> SUFFICES ASSUME Init PROVE TablesInv /\ TimesInv
  OBVIOUS
<1>1. TablesInv
  BY DEF Init, TablesInv, KeysCreated, YOfListed, ListedOfY, HomeOf, Timed, Inserts
<1>2. HoldsCall /\ RecentIsSafe
  BY DEF Init, HoldsCall, RecentIsSafe, Recent, HasCall
<1>3. QuietEnough
  BY Disjoint DEF Init, QuietEnough, Visiting
<1> QED BY <1>1, <1>2, <1>3 DEF TimesInv

LEMMA TablesNext == IInv /\ TablesInv /\ TimesInv /\ [Next]_vars => TablesInv' /\ TimesInv'
<1> SUFFICES ASSUME IInv, TablesInv, TimesInv, [Next]_vars PROVE TablesInv' /\ TimesInv'
  OBVIOUS
<1>1. ASSUME NEW w \in Workers, Worker(w) PROVE TablesInv' /\ TimesInv'
  <2>1. CASE \/ Receive(w) \/ LockBucket(w) \/ IgnoreMessage(w) \/ GetCallLock(w)
             \/ CheckDoa(w) \/ EndCall(w) \/ EndCallRequest(w) \/ AskDoa(w)
    BY <2>1, QuietWorkerSteps
  <2>2. CASE FindCall(w)
    BY <2>2, FindCallTables
  <2>3. CASE CreateCall(w)
    BY <2>3, CreateCallTables
  <2>4. CASE UseCall(w)
    BY <2>4, UseCallTables
  <2>5. CASE RequestAgain(w)
    BY <2>5, RequestAgainTables
  <2>6. CASE RequestFirst(w)
    BY <2>6, RequestFirstTables
  <2>7. CASE InsertRequested(w)
    BY <2>7, InsertRequestedTables
  <2> QED BY <1>1, <2>1, <2>2, <2>3, <2>4, <2>5, <2>6, <2>7 DEF Worker
<1>2. ASSUME NEW d \in DoaThreads, DoaThread(d) PROVE TablesInv' /\ TimesInv'
  <2>1. CASE StartPurge(d) \/ SkipBucket(d) \/ TryBucket(d) \/ KeepEntry(d)
    BY <2>1, QuietDoaSteps
  <2>2. CASE ExpireEntry(d)
    BY <2>2, ExpireEntryTables
  <2>3. CASE MarkDeleted(d)
    BY <2>3, MarkDeletedTables
  <2>4. CASE ReapEntry(d)
    BY <2>4, ReapEntryTables
  <2>5. CASE FreeCall(d)
    BY <2>5, FreeCallTables
  <2>6. CASE EndPurge(d)
    BY <2>6, EndPurgeTables
  <2> QED BY <1>2, <2>1, <2>2, <2>3, <2>4, <2>5, <2>6 DEF DoaThread
<1>3. CASE Tick
  BY <1>3, TickTables
<1>4. CASE UNCHANGED vars
  BY <1>4, WorkerFrame DEF vars, tables, memory, workerVars, historyVars, HasCall
<1> QED BY <1>1, <1>2, <1>3, <1>4 DEF Next

\* The tables of every bucket and the timers of every call stay in step:
\* TablesInv and TimesInv hold in every state, next to IInv.
THEOREM TablesInvariant == Spec => [](IInv /\ TablesInv /\ TimesInv)
<1>1. Init => IInv /\ TablesInv /\ TimesInv
  BY InitInv, TablesInit
<1>2. IInv /\ TablesInv /\ TimesInv /\ [Next]_vars => (IInv /\ TablesInv /\ TimesInv)'
  BY NextInv, TablesNext
<1> QED BY <1>1, <1>2, PTL DEF Spec

\* A bucket whose mutex is free is consistent.
LEMMA FreeBucketAgrees ==
    ASSUME IInv, TablesInv, NEW m \in Buckets, uniqueExx[m] = None
    PROVE  (\A x \in CallIds : ListedRight(m, x)) /\ NothingElseListed(m)
<1>1. /\ \A x \in CallIds : ~Leaving(m, x)
      /\ \A d \in DoaThreads : Purging(d) => dmod[d] # m
  BY NoneIsFree, NotPurged
<1>2. \A a \in Addr : ~Changing(m, a)
  BY <1>1, Disjoint DEF Changing, Purging, IInv, Locks
<1>3. ASSUME NEW x \in CallIds, comap[m][x] # None
      PROVE  /\ heap[comap[m][x]] # None
             /\ heap[comap[m][x]].x = x
             /\ heap[comap[m][x]].y[1] = m
             /\ y2x[m][heap[comap[m][x]].y[2]] = x
             /\ doa[m][comap[m][x]] \in {"NOT_DOA", "DOA_REQUESTED"}
             /\ ttl[m][comap[m][x]] # None
             /\ ttlDelete[m][comap[m][x]] # None
  <2>1. comap[m][x] \in Addr
    BY <1>3, EntryType DEF IInv
  <2>2. /\ heap[comap[m][x]] # None /\ heap[comap[m][x]].x = x
        /\ heap[comap[m][x]].y[1] = m
        /\ ttlDelete[m][comap[m][x]] = -1
        /\ doa[m][comap[m][x]] \in {"NOT_DOA", "DOA_REQUESTED"}
    BY <1>1, <1>2, <1>3, <2>1 DEF IInv, Listed
  <2>3. y2x[m][heap[comap[m][x]].y[2]] = x
    BY <1>1, <1>3 DEF TablesInv, YOfListed
  <2>4. ttl[m][comap[m][x]] # None
    BY <1>1, <1>3 DEF TablesInv, Timed, Purging
  <2> QED BY <2>2, <2>3, <2>4, Disjoint
<1>4. \A x \in CallIds : ListedRight(m, x)
  BY <1>3 DEF ListedRight
<1>5. \A k \in Keys : y2x[m][k] # None =>
         comap[m][y2x[m][k]] # None /\ heap[comap[m][y2x[m][k]]].y = <<m, k>>
  BY DEF TablesInv, ListedOfY
<1>6. ASSUME NEW a \in Addr, doa[m][a] # None PROVE \E x \in CallIds : comap[m][x] = a
  <2>1. heap[a] # None /\ heap[a].y[1] = m
    BY <1>6 DEF TablesInv, HomeOf
  <2> QED BY <2>1, StaysListed
<1> QED BY <1>4, <1>5, <1>6 DEF NothingElseListed

\* Whenever unique_exx of a bucket is free, comap_mm, call_id_y2x, the states
\* and the timers of the bucket describe the same calls, all allocated.
THEOREM MapsOfABucketAgree == Spec => []MapsAgree
<1>1. IInv /\ TablesInv => MapsAgree
  BY FreeBucketAgrees DEF MapsAgree
<1> QED BY <1>1, TablesInvariant, PTL

\* CALL_OSET::call may touch its object after it released the mutex: as long
\* as no more than TIMER_DOA passed since the lookup, the object is that call.
THEOREM LateRequestSafe == Spec => []LateRequestIsSafe
<1>1. TimesInv => LateRequestIsSafe
  BY DEF TimesInv, RecentIsSafe, Recent, HasCall, RecentCall, LateRequestIsSafe
<1> QED BY <1>1, TablesInvariant, PTL

\* purgeDOA frees a call only after TIMER_DOA without a lookup or a request.
THEOREM FreedWhenQuiet == Spec => FreedOnlyWhenQuiet
<1>1. ASSUME IInv, TablesInv, TimesInv, [Next]_vars,
             NEW a \in Addr, heap[a] # None, heap'[a] # heap[a]
      PROVE  quiet[a] > TIMER_DOA
  <2>1. ASSUME NEW w \in Workers, Worker(w) PROVE FALSE
    <3>1. CASE CreateCall(w)
      <4>1. PICK b \in Addr, k \in Keys : CreatesCall(w, b, k)
        BY <1>1, <3>1, CreateCallDoes
      <4>2. heap[b] = None /\ \A c \in Addr \ {b} : heap'[c] = heap[c]
        BY <1>1, <4>1 DEF CreatesCall, IInv, TypeOK
      <4> QED BY <1>1, <4>2
    <3>2. CASE ~CreateCall(w)
      <4>1. heap' = heap
        BY <2>1, <3>2 DEF Worker, Receive, LockBucket, FindCall, IgnoreMessage, UseCall,
            GetCallLock, CheckDoa, EndCall, EndCallRequest, AskDoa, RequestAgain,
            RequestFirst, InsertRequested, memory
      <4> QED BY <1>1, <4>1
    <3> QED BY <3>1, <3>2
  <2>2. ASSUME NEW d \in DoaThreads, DoaThread(d) PROVE quiet[a] > TIMER_DOA
    <3>1. FreeCall(d)
      BY <1>1, <2>2 DEF DoaThread, StartPurge, SkipBucket, TryBucket, KeepEntry,
          ExpireEntry, MarkDeleted, ReapEntry, EndPurge, memory
    <3>2. dpc[d] = "free" /\ cur[d] = a
      BY <1>1, <3>1 DEF FreeCall, DoaAt, IInv, TypeOK
    <3> QED BY <1>1, <3>2 DEF TimesInv, QuietEnough, Visiting
  <2>3. ~Tick /\ ~UNCHANGED vars
    BY <1>1 DEF Tick, vars, memory
  <2> QED BY <1>1, <2>1, <2>2, <2>3 DEF Next
<1>2. IInv /\ TablesInv /\ TimesInv /\ [Next]_vars =>
         [\A a \in Addr : heap[a] # None /\ heap'[a] # heap[a] => quiet[a] > TIMER_DOA]_vars
  BY <1>1
<1> QED BY <1>2, TablesInvariant, PTL DEF Spec, FreedOnlyWhenQuiet

=============================================================================
