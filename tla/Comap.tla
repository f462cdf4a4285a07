------------------------------- MODULE Comap -------------------------------
(***************************************************************************)
(* The call table of SIPSL (COMAP.cpp) and everything that reaches it:     *)
(* the SL_CC worker threads, which look a call object up by Call-ID, use   *)
(* it and ask for its deletion (SL_CC::parse, CALL_OSET::call), and the    *)
(* DOA threads, which delete call objects whose deletion was requested and *)
(* whose timer has expired (DOA::doa, COMAP::purgeDOA).                    *)
(*                                                                         *)
(* The table is split in COMAPS buckets, each behind its mutex unique_exx; *)
(* each call object has a mutex of its own.  Incoming Call-IDs of the A    *)
(* side are assigned to buckets round robin by MESSAGE::getModulus; the    *)
(* Call-ID of the B side is generated and carries its bucket in its text.  *)
(*                                                                         *)
(* Times are relative to now: a timer holds the ticks left, and -1 once it *)
(* has expired, so that the clock itself needs no variable.                *)
(***************************************************************************)
EXTENDS Integers, FiniteSets

CONSTANTS
    CallIds,    \* Call-IDs chosen by callers (the X side of a call)
    Addr,       \* addresses a CALL_OSET can be allocated at
    Workers,    \* threads of the SL_CC engine
    COMAPS,     \* number of buckets (UTIL.h)
    DOATH,      \* number of DOA threads (UTIL.h)
    TIMER_DOA,  \* ticks a requested call survives without being looked up
    Keys,       \* message keys: one for each call object ever created (a bound)
    None        \* "no such entry" and "free mutex"

Buckets == 0 .. COMAPS - 1
DoaThreads == 0 .. DOATH - 1
YIds == Buckets \X Keys         \* "CoMap" + bucket + key of the INVITE
GRACE == TIMER_DOA \div 2

\* The values of call_oset_doa_state; None is the absent entry.
DoaStates == {"NOT_DOA", "DOA_REQUESTED", "DOA_DELETED"}

Calls == [x : CallIds, y : YIds]        \* the fields of a CALL_OSET used here

ASSUME ConstantsAssumption ==
    /\ COMAPS \in Nat \ {0}
    /\ DOATH \in Nat \ {0}
    /\ TIMER_DOA \in Nat
    /\ CallIds \cap YIds = {}
    /\ Workers \cap DoaThreads = {}
    /\ None \notin CallIds \cup Addr \cup Workers \cup YIds
                   \cup Int \cup DoaStates \cup Calls

VARIABLES
    modulusMap,     \* MESSAGE.cpp: Call-ID -> bucket
    modulusIter,    \* MESSAGE.cpp: the next bucket, round robin
    comap,          \* comap_mm: bucket -> Call-ID -> CALL_OSET*
    y2x,            \* call_id_y2x: bucket -> key of the Y Call-ID -> Call-ID
    doa,            \* call_oset_doa_state: bucket -> CALL_OSET* -> state
    ttl,            \* call_oset_ttl
    ttlDelete,      \* call_oset_ttl_delete
    uniqueExx,      \* owner of each bucket's mutex
    heap,           \* the CALL_OSET at each address, None when freed
    mutex,          \* owner of each CALL_OSET's mutex
    created,        \* Y Call-IDs generated so far; the B side knows them
    pc,             \* what each worker is doing
    msg,            \* the Call-ID and kind of the message it is working on
    mod,            \* the local variable modulus of SL_CC::parse
    rmod,           \* the local variable modulus of CALL_OSET::call
    obj,            \* the local variable call_oset
    dpc,            \* what each DOA thread is doing
    dmod,           \* the bucket it is at
    todo,           \* entries of that bucket it has not visited yet
    cur,            \* the entry it visits
    todel,          \* Call-IDs whose entry goes at the end (todel_cx)
    holds,          \* history: the Y Call-ID of the call a worker looked up
    age,            \* history: ticks since the worker looked it up
    quiet,          \* history: ticks since a call was looked up or requested
    failed          \* the assertion that ended the process, if one did

tables == <<comap, y2x, doa, ttl, ttlDelete>>
memory == <<heap, mutex, created>>
modulusVars == <<modulusMap, modulusIter>>
historyVars == <<holds, age>>
workerVars == <<pc, msg, mod, rmod, obj, historyVars>>
doaVars == <<dpc, dmod, todo, cur, todel>>
vars == <<modulusVars, tables, uniqueExx, memory, workerVars, doaVars, quiet, failed>>

WorkerPcs == {"idle", "lock", "lookup", "use", "mutex", "incall", "ask",
              "request", "insert"}
DoaPcs == {"sleep", "try", "scan", "mark", "delete", "free"}
Messages == [id : CallIds \cup YIds, invite : BOOLEAN]

----------------------------------------------------------------------------
(***************************************************************************)
(* The small functions of COMAP.                                           *)
(***************************************************************************)

\* getDoa and getDoaState: an object without an entry counts as deleted.
getDoa(a, m) == IF doa[m][a] = None THEN "DOA_DELETED" ELSE doa[m][a]

\* resetDoaRequestTimer: does nothing when the object has no timer.
resetTimer(t, a, m) == IF t[m][a] = None THEN t ELSE [t EXCEPT ![m][a] = TIMER_DOA]

\* Variant with a bug: looking a requested call up leaves its timer alone.
noReset(a, m) == ttl

\* The reset made by each lookup and use of a call that is requested.
resetIfRequested(a, m) ==
    IF getDoa(a, m) = "DOA_REQUESTED" THEN resetTimer(ttl, a, m) ELSE ttl

\* getCALL_OSET_XMain
XMain(id, m) == IF id \in CallIds THEN comap[m][id] ELSE None

\* getCALL_OSET_YDerived: Y Call-ID to X Call-ID to object.
YDerived(id, m) ==
    IF id \in CallIds \/ y2x[m][id[2]] = None THEN None ELSE comap[m][y2x[m][id[2]]]

\* SL_CC::parse tries the X side first, then the Y side.
CallOf(id, m) == IF XMain(id, m) # None THEN XMain(id, m) ELSE YDerived(id, m)

\* MESSAGE::getModulus: the bucket in a generated Call-ID, the one already
\* assigned to a caller's Call-ID, or the next one round robin.
getModulus(id) ==
    CASE id \in YIds -> id[1]
      [] id \in CallIds /\ modulusMap[id] # None -> modulusMap[id]
      [] OTHER -> modulusIter

\* Variant with a bug: the round robin does not wrap around.
assignModulusNoWrap(id) ==
    IF id \in CallIds /\ modulusMap[id] = None
    THEN /\ modulusMap' = [modulusMap EXCEPT ![id] = modulusIter]
         /\ modulusIter' = modulusIter + 1
    ELSE UNCHANGED modulusVars

assignModulus(id) ==
    IF id \in CallIds /\ modulusMap[id] = None
    THEN /\ modulusMap' = [modulusMap EXCEPT ![id] = modulusIter]
         /\ modulusIter' = (modulusIter + 1) % COMAPS
    ELSE UNCHANGED modulusVars

\* The buckets purgeDOA(d) visits: mod = ex1; mod < ex2.
FirstBucket(d) == (d * COMAPS) \div DOATH
EndBucket(d) == FirstBucket(d) + (COMAPS \div DOATH) - 1
PurgedBuckets == UNION {FirstBucket(d) .. EndBucket(d) - 1 : d \in DoaThreads}

----------------------------------------------------------------------------
Init ==
    /\ modulusMap = [x \in CallIds |-> None]
    /\ modulusIter = 0
    /\ comap = [m \in Buckets |-> [x \in CallIds |-> None]]
    /\ y2x = [m \in Buckets |-> [k \in Keys |-> None]]
    /\ doa = [m \in Buckets |-> [a \in Addr |-> None]]
    /\ ttl = [m \in Buckets |-> [a \in Addr |-> None]]
    /\ ttlDelete = [m \in Buckets |-> [a \in Addr |-> None]]
    /\ uniqueExx = [m \in Buckets |-> None]
    /\ heap = [a \in Addr |-> None]
    /\ mutex = [a \in Addr |-> None]
    /\ created = {}
    /\ pc = [w \in Workers |-> "idle"]
    /\ msg = [w \in Workers |-> None]
    /\ mod = [w \in Workers |-> None]
    /\ rmod = [w \in Workers |-> None]
    /\ obj = [w \in Workers |-> None]
    /\ dpc = [d \in DoaThreads |-> "sleep"]
    /\ dmod = [d \in DoaThreads |-> None]
    /\ todo = [d \in DoaThreads |-> {}]
    /\ cur = [d \in DoaThreads |-> None]
    /\ todel = [d \in DoaThreads |-> {}]
    /\ holds = [w \in Workers |-> None]
    /\ age = [w \in Workers |-> 0]
    /\ quiet = [a \in Addr |-> 0]
    /\ failed = "none"

\* A failed assertion aborts the process: no thread makes a step any more.
Running == failed = "none"
At(w, label) == Running /\ pc[w] = label
DoaAt(d, label) == Running /\ dpc[d] = label

Goto(w, label) == pc' = [pc EXCEPT ![w] = label]

\* The worker is done with its message; its locals go out of scope.
Done(w) ==
    /\ Goto(w, "idle")
    /\ msg' = [msg EXCEPT ![w] = None]
    /\ mod' = [mod EXCEPT ![w] = None]
    /\ rmod' = [rmod EXCEPT ![w] = None]
    /\ obj' = [obj EXCEPT ![w] = None]
    /\ holds' = [holds EXCEPT ![w] = None]
    /\ age' = [age EXCEPT ![w] = 0]

Lock(m, t) == uniqueExx[m] = None /\ uniqueExx' = [uniqueExx EXCEPT ![m] = t]
Unlock(m) == uniqueExx' = [uniqueExx EXCEPT ![m] = None]

----------------------------------------------------------------------------
(***************************************************************************)
(* Workers: SL_CC::parse, COMAP::use_CALL_OSET_SL_CO_call, CALL_OSET::call *)
(* and COMAP::setDoaRequested.  Any worker takes a message of any bucket.  *)
(* As long as the number of queues is the one ENGINE started with, the     *)
(* messages of a bucket have one worker; once DAO's tuning command changed *)
(* it, what waited before has another.  All of these are behaviours here.  *)
(***************************************************************************)

UnusedKeys == {k \in Keys : \A y \in created : y[2] # k}
PendingInvites == {w \in Workers : pc[w] \in {"lock", "lookup"} /\ msg[w].invite}

\* A message from the network or from an internal source: a caller may use
\* any Call-ID of its own, the other side one that was generated for it.
\* Its bucket is computed before the bucket is locked.  No more INVITEs arrive
\* than there are keys for the calls they may create.
Receive(w) ==
    /\ At(w, "idle")
    /\ \E m \in Messages :
          /\ m.id \in CallIds \/ (m.id \in created /\ ~m.invite)
          /\ m.invite => Cardinality(PendingInvites) < Cardinality(UnusedKeys)
          /\ msg' = [msg EXCEPT ![w] = m]
          /\ mod' = [mod EXCEPT ![w] = getModulus(m.id)]
          /\ assignModulus(m.id)
    /\ Goto(w, "lock")
    /\ UNCHANGED <<tables, uniqueExx, memory, rmod, obj, historyVars, doaVars, quiet,
                   failed>>

LockBucket(w) ==
    /\ At(w, "lock")
    /\ Lock(mod[w], w)
    /\ Goto(w, "lookup")
    /\ UNCHANGED <<modulusVars, tables, memory, msg, mod, rmod, obj, historyVars,
                   doaVars, quiet, failed>>

\* The call exists: its timer restarts if its deletion was requested.  The
\* DEBASSERT "fix this" fires when the table still holds a deleted call.
FindCall(w) ==
    LET a == CallOf(msg[w].id, mod[w]) IN
    /\ At(w, "lookup")
    /\ a # None
    /\ failed' = IF getDoa(a, mod[w]) = "DOA_DELETED" THEN "fix this" ELSE failed
    /\ ttl' = resetIfRequested(a, mod[w])
    /\ obj' = [obj EXCEPT ![w] = a]
    /\ holds' = [holds EXCEPT ![w] = heap[a].y]
    /\ age' = [age EXCEPT ![w] = 0]
    /\ quiet' = [quiet EXCEPT ![a] = 0]
    /\ Goto(w, "use")
    /\ UNCHANGED <<modulusVars, comap, y2x, doa, ttlDelete, uniqueExx, memory, msg,
                   mod, rmod, doaVars>>

\* An INVITE for no known call creates one (COMAP::setCALL_OSET); ttl and
\* ttl_delete start at time 0, long expired.
CreateCall(w) ==
    LET x == msg[w].id
        m == mod[w]
    IN
    /\ At(w, "lookup")
    /\ CallOf(x, m) = None
    /\ msg[w].invite
    /\ \E a \in Addr, k \in UnusedKeys :
          /\ heap[a] = None
          /\ heap' = [heap EXCEPT ![a] = [x |-> x, y |-> <<m, k>>]]
          /\ comap' = [comap EXCEPT ![m][x] = a]
          /\ doa' = [doa EXCEPT ![m][a] = "NOT_DOA"]
          /\ ttl' = [ttl EXCEPT ![m][a] = -1]
          /\ ttlDelete' = [ttlDelete EXCEPT ![m][a] = -1]
          /\ obj' = [obj EXCEPT ![w] = a]
          /\ quiet' = [quiet EXCEPT ![a] = 0]
          /\ y2x' = [y2x EXCEPT ![m][k] = x]
          /\ created' = created \cup {<<m, k>>}
          /\ holds' = [holds EXCEPT ![w] = <<m, k>>]
    /\ age' = [age EXCEPT ![w] = 0]
    /\ Goto(w, "use")
    /\ UNCHANGED <<modulusVars, uniqueExx, mutex, msg, mod, rmod, doaVars, failed>>

\* Any other message for no known call is ignored.
IgnoreMessage(w) ==
    /\ At(w, "lookup")
    /\ CallOf(msg[w].id, mod[w]) = None
    /\ ~msg[w].invite
    /\ Unlock(mod[w])
    /\ Done(w)
    /\ UNCHANGED <<modulusVars, tables, memory, doaVars, quiet, failed>>

\* Variant with a bug (WRONGLOCKMGMT): the bucket is released before the
\* call's mutex is taken.
UseCallUncoupled(w) ==
    /\ At(w, "use")
    /\ ttl' = resetIfRequested(obj[w], mod[w])
    /\ Unlock(mod[w])
    /\ IF getDoa(obj[w], mod[w]) = "DOA_DELETED"
       THEN Done(w)
       ELSE Goto(w, "mutex") /\ UNCHANGED <<msg, mod, rmod, obj, historyVars>>
    /\ UNCHANGED <<modulusVars, comap, y2x, doa, ttlDelete, memory, doaVars, quiet,
                   failed>>

\* use_CALL_OSET_SL_CO_call checks the state again, still under the bucket,
\* and rejects the message of a deleted call.
UseCall(w) ==
    /\ At(w, "use")
    /\ ttl' = resetIfRequested(obj[w], mod[w])
    /\ IF getDoa(obj[w], mod[w]) = "DOA_DELETED"
       THEN Unlock(mod[w]) /\ Done(w)
       ELSE Goto(w, "mutex") /\ UNCHANGED <<uniqueExx, msg, mod, rmod, obj, historyVars>>
    /\ UNCHANGED <<modulusVars, comap, y2x, doa, ttlDelete, memory, doaVars, quiet,
                   failed>>

\* Lock coupling: the call's mutex is taken before the bucket is released.
GetCallLock(w) ==
    /\ At(w, "mutex")
    /\ mutex[obj[w]] = None
    /\ mutex' = [mutex EXCEPT ![obj[w]] = w]
    /\ Unlock(mod[w])
    /\ Goto(w, "incall")
    /\ UNCHANGED <<modulusVars, tables, heap, created, msg, mod, rmod, obj,
                   historyVars, doaVars, quiet, failed>>

\* CHECKDOA: a state machine action reads the state of its call without the
\* bucket's mutex, in the bucket getModulus gives for its message by now (only
\* the message that got the bucket assigned keeps it), and aborts when it
\* reads "deleted".
CheckDoa(w) ==
    /\ At(w, "incall")
    /\ assignModulus(msg[w].id)
    /\ failed' = IF getDoa(obj[w], getModulus(msg[w].id)) = "DOA_DELETED"
                 THEN "CHECKDOA" ELSE failed
    /\ UNCHANGED <<tables, uniqueExx, memory, workerVars, doaVars, quiet>>

\* SL_CO::call returns 0: nothing more to do for this message.
EndCall(w) ==
    /\ At(w, "incall")
    /\ mutex' = [mutex EXCEPT ![obj[w]] = None]
    /\ Done(w)
    /\ UNCHANGED <<modulusVars, tables, uniqueExx, heap, created, doaVars, quiet,
                   failed>>

\* Variant with a bug: the mutex is kept while the deletion is requested.
EndCallKeepsMutex(w) ==
    /\ At(w, "incall")
    /\ \E id \in {heap[obj[w]].x, heap[obj[w]].y} :
          /\ rmod' = [rmod EXCEPT ![w] = getModulus(id)]
          /\ assignModulus(id)
    /\ Goto(w, "ask")
    /\ UNCHANGED <<tables, uniqueExx, memory, msg, mod, obj, historyVars, doaVars,
                   quiet, failed>>

\* SL_CO::call returns 1 and the bucket of the message that asked for the
\* deletion, which belongs to the X or to the Y side of the call.
EndCallRequest(w) ==
    /\ At(w, "incall")
    /\ mutex' = [mutex EXCEPT ![obj[w]] = None]
    /\ \E id \in {heap[obj[w]].x, heap[obj[w]].y} :
          /\ rmod' = [rmod EXCEPT ![w] = getModulus(id)]
          /\ assignModulus(id)
    /\ Goto(w, "ask")
    /\ UNCHANGED <<tables, uniqueExx, heap, created, msg, mod, obj, historyVars,
                   doaVars, quiet, failed>>

\* "The call oset may have been deleted here": getENGINE() reads the object.
AskDoa(w) ==
    /\ At(w, "ask")
    /\ Goto(w, "request")
    /\ UNCHANGED <<modulusVars, tables, uniqueExx, memory, msg, mod, rmod, obj,
                   historyVars, doaVars, quiet, failed>>

\* setDoaRequested, already requested or gone: only the timer restarts.
RequestAgain(w) ==
    /\ At(w, "request")
    /\ uniqueExx[rmod[w]] = None
    /\ getDoa(obj[w], rmod[w]) # "NOT_DOA"
    /\ ttl' = resetTimer(ttl, obj[w], rmod[w])
    /\ quiet' = [quiet EXCEPT ![obj[w]] = IF ttl[rmod[w]][obj[w]] = None THEN @ ELSE 0]
    /\ Done(w)
    /\ UNCHANGED <<modulusVars, comap, y2x, doa, ttlDelete, uniqueExx, memory,
                   doaVars, failed>>

\* setDoaRequested, first request: setDoa erases the entry of the object ...
RequestFirst(w) ==
    /\ At(w, "request")
    /\ getDoa(obj[w], rmod[w]) = "NOT_DOA"
    /\ Lock(rmod[w], w)
    /\ ttl' = resetTimer(ttl, obj[w], rmod[w])
    /\ doa' = [doa EXCEPT ![rmod[w]][obj[w]] = None]
    /\ Goto(w, "insert")
    /\ UNCHANGED <<modulusVars, comap, y2x, ttlDelete, memory, msg, mod, rmod, obj,
                   historyVars, doaVars, quiet, failed>>

\* ... and inserts it again with the new state.
InsertRequested(w) ==
    /\ At(w, "insert")
    /\ doa' = [doa EXCEPT ![rmod[w]][obj[w]] = "DOA_REQUESTED"]
    /\ ttl' = resetTimer(ttl, obj[w], rmod[w])
    /\ quiet' = [quiet EXCEPT ![obj[w]] = 0]
    /\ Unlock(rmod[w])
    /\ Done(w)
    /\ UNCHANGED <<modulusVars, comap, y2x, ttlDelete, memory, doaVars, failed>>

----------------------------------------------------------------------------
(***************************************************************************)
(* DOA threads: purgeDOA.                                                  *)
(***************************************************************************)

\* The sleep of DOA::doa is over.
StartPurge(d) ==
    /\ DoaAt(d, "sleep")
    /\ FirstBucket(d) < EndBucket(d)
    /\ dmod' = [dmod EXCEPT ![d] = FirstBucket(d)]
    /\ dpc' = [dpc EXCEPT ![d] = "try"]
    /\ UNCHANGED <<modulusVars, tables, uniqueExx, memory, workerVars, todo, cur,
                   todel, quiet, failed>>

NextBucket(d) ==
    IF dmod[d] + 1 < EndBucket(d)
    THEN /\ dmod' = [dmod EXCEPT ![d] = @ + 1]
         /\ dpc' = [dpc EXCEPT ![d] = "try"]
    ELSE /\ dmod' = [dmod EXCEPT ![d] = None]
         /\ dpc' = [dpc EXCEPT ![d] = "sleep"]

\* The bucket is busy: this pass skips it.
SkipBucket(d) ==
    /\ DoaAt(d, "try")
    /\ uniqueExx[dmod[d]] # None
    /\ NextBucket(d)
    /\ UNCHANGED <<modulusVars, tables, uniqueExx, memory, workerVars, todo, cur,
                   todel, quiet, failed>>

TryBucket(d) ==
    /\ DoaAt(d, "try")
    /\ Lock(dmod[d], d)
    /\ todo' = [todo EXCEPT ![d] = {x \in CallIds : comap[dmod[d]][x] # None}]
    /\ dpc' = [dpc EXCEPT ![d] = "scan"]
    /\ UNCHANGED <<modulusVars, tables, memory, workerVars, dmod, cur, todel, quiet,
                   failed>>

\* Variant with a bug: visiting a requested call restarts its timer.
KeepEntryResets(d) ==
    /\ DoaAt(d, "scan")
    /\ \E x \in todo[d] :
          LET a == comap[dmod[d]][x] IN
          /\ \/ getDoa(a, dmod[d]) = "NOT_DOA"
             \/ getDoa(a, dmod[d]) = "DOA_REQUESTED" /\ ttl[dmod[d]][a] # -1
          /\ todo' = [todo EXCEPT ![d] = @ \ {x}]
          /\ ttl' = resetIfRequested(a, dmod[d])
    /\ UNCHANGED <<modulusVars, comap, y2x, doa, ttlDelete, uniqueExx, memory,
                   workerVars, dpc, dmod, cur, todel, quiet, failed>>

\* The next entry is not requested, or its timer still runs: it stays.
KeepEntry(d) ==
    /\ DoaAt(d, "scan")
    /\ \E x \in todo[d] :
          LET a == comap[dmod[d]][x] IN
          /\ \/ getDoa(a, dmod[d]) = "NOT_DOA"
             \/ getDoa(a, dmod[d]) = "DOA_REQUESTED" /\ ttl[dmod[d]][a] # -1
          /\ todo' = [todo EXCEPT ![d] = @ \ {x}]
    /\ UNCHANGED <<modulusVars, tables, uniqueExx, memory, workerVars, dpc, dmod, cur,
                   todel, quiet, failed>>

\* Variant with a bug: a requested call expires whatever its timer says.
ExpireEntryEarly(d) ==
    /\ DoaAt(d, "scan")
    /\ \E x \in todo[d] :
          LET a == comap[dmod[d]][x] IN
          /\ getDoa(a, dmod[d]) = "DOA_REQUESTED"
          /\ doa' = [doa EXCEPT ![dmod[d]][a] = None]
          /\ cur' = [cur EXCEPT ![d] = a]
          /\ todo' = [todo EXCEPT ![d] = @ \ {x}]
    /\ dpc' = [dpc EXCEPT ![d] = "mark"]
    /\ UNCHANGED <<modulusVars, comap, y2x, ttl, ttlDelete, uniqueExx, memory,
                   workerVars, dmod, todel, quiet, failed>>

\* Requested and ttl < now: setDoa(DOA_DELETED) erases the state; an entry
\* that an earlier pass marked deleted goes straight to the second check.
ExpireEntry(d) ==
    /\ DoaAt(d, "scan")
    /\ \E x \in todo[d] :
          LET a == comap[dmod[d]][x]
              s == getDoa(a, dmod[d])
          IN
          /\ s = "DOA_DELETED" \/ (s = "DOA_REQUESTED" /\ ttl[dmod[d]][a] = -1)
          /\ doa' = IF s = "DOA_DELETED" THEN doa ELSE [doa EXCEPT ![dmod[d]][a] = None]
          /\ dpc' = [dpc EXCEPT ![d] = IF s = "DOA_DELETED" THEN "delete" ELSE "mark"]
          /\ cur' = [cur EXCEPT ![d] = a]
          /\ todo' = [todo EXCEPT ![d] = @ \ {x}]
    /\ UNCHANGED <<modulusVars, comap, y2x, ttl, ttlDelete, uniqueExx, memory,
                   workerVars, dmod, todel, quiet, failed>>

\* Variant with a bug: the grace period is applied, but lookups still assert
\* that they never meet a deleted call.
MarkDeletedWithGrace(d) ==
    LET m == dmod[d]
        a == cur[d]
    IN
    /\ DoaAt(d, "mark")
    /\ doa' = [doa EXCEPT ![m][a] = "DOA_DELETED"]
    /\ ttl' = [ttl EXCEPT ![m][a] = None]
    /\ ttlDelete' = [ttlDelete EXCEPT ![m][a] = GRACE]
    /\ dpc' = [dpc EXCEPT ![d] = "delete"]
    /\ UNCHANGED <<modulusVars, comap, y2x, uniqueExx, memory, workerVars, dmod, todo,
                   cur, todel, quiet, failed>>

\* ... and inserts the new one.  The grace period goes into ttl_delete with
\* insert, which keeps the value setCALL_OSET put there.
MarkDeleted(d) ==
    LET m == dmod[d]
        a == cur[d]
    IN
    /\ DoaAt(d, "mark")
    /\ doa' = [doa EXCEPT ![m][a] = "DOA_DELETED"]
    /\ ttl' = [ttl EXCEPT ![m][a] = None]
    /\ ttlDelete' = [ttlDelete EXCEPT ![m][a] = IF @ = None THEN GRACE ELSE @]
    /\ dpc' = [dpc EXCEPT ![d] = "delete"]
    /\ UNCHANGED <<modulusVars, comap, y2x, uniqueExx, memory, workerVars, dmod, todo,
                   cur, todel, quiet, failed>>

\* Variant with a bug: the Y Call-ID of a purged call stays.
UnlistKeepsY(m, a) ==
    /\ doa' = [doa EXCEPT ![m][a] = None]
    /\ ttl' = [ttl EXCEPT ![m][a] = None]
    /\ ttlDelete' = [ttlDelete EXCEPT ![m][a] = None]
    /\ UNCHANGED y2x

\* ttl_delete < now: the call leaves every table but comap_mm.
Unlist(m, a) ==
    /\ doa' = [doa EXCEPT ![m][a] = None]
    /\ ttl' = [ttl EXCEPT ![m][a] = None]
    /\ ttlDelete' = [ttlDelete EXCEPT ![m][a] = None]
    /\ y2x' = [y2x EXCEPT ![m][heap[a].y[2]] = None]

\* The second check: a deleted call whose grace period is over goes, any
\* other waits for a later pass.
ReapEntry(d) ==
    LET m == dmod[d]
        a == cur[d]
    IN
    /\ DoaAt(d, "delete")
    /\ IF ttlDelete[m][a] = -1
       THEN /\ Unlist(m, a)
            /\ todel' = [todel EXCEPT ![d] = @ \cup {heap[a].x}]
            /\ dpc' = [dpc EXCEPT ![d] = "free"]
            /\ UNCHANGED cur
       ELSE /\ dpc' = [dpc EXCEPT ![d] = "scan"]
            /\ cur' = [cur EXCEPT ![d] = None]
            /\ UNCHANGED <<y2x, doa, ttl, ttlDelete, todel>>
    /\ UNCHANGED <<modulusVars, comap, uniqueExx, memory, workerVars, dmod, todo,
                   quiet, failed>>

\* ~CALL_OSET waits for the call's mutex, and forgets the bucket of its
\* Call-ID, whichever bucket that is by now.
FreeCall(d) ==
    LET a == cur[d] IN
    /\ DoaAt(d, "free")
    /\ mutex[a] = None
    /\ heap' = [heap EXCEPT ![a] = None]
    /\ modulusMap' = [modulusMap EXCEPT ![heap[a].x] = None]
    /\ quiet' = [quiet EXCEPT ![a] = 0]
    /\ cur' = [cur EXCEPT ![d] = None]
    /\ dpc' = [dpc EXCEPT ![d] = "scan"]
    /\ UNCHANGED <<modulusIter, tables, uniqueExx, mutex, created, workerVars, dmod,
                   todo, todel, failed>>

\* Variant with a bug: the list of entries to delete survives the pass.
EndPurgeKeepsList(d) ==
    LET m == dmod[d] IN
    /\ DoaAt(d, "scan")
    /\ todo[d] = {}
    /\ comap' = [comap EXCEPT ![m] =
                    [x \in CallIds |-> IF x \in todel[d] THEN None ELSE comap[m][x]]]
    /\ Unlock(m)
    /\ NextBucket(d)
    /\ UNCHANGED <<modulusVars, y2x, doa, ttl, ttlDelete, memory, workerVars, todo,
                   cur, todel, quiet, failed>>

\* The end of the bucket: the entries of comap_mm go, the bucket is released.
EndPurge(d) ==
    LET m == dmod[d] IN
    /\ DoaAt(d, "scan")
    /\ todo[d] = {}
    /\ comap' = [comap EXCEPT ![m] =
                    [x \in CallIds |-> IF x \in todel[d] THEN None ELSE comap[m][x]]]
    /\ todel' = [todel EXCEPT ![d] = {}]
    /\ Unlock(m)
    /\ NextBucket(d)
    /\ UNCHANGED <<modulusVars, y2x, doa, ttl, ttlDelete, memory, workerVars, todo,
                   cur, quiet, failed>>

----------------------------------------------------------------------------
\* Time passes for every timer.
Elapse(t) == IF t = None \/ t = -1 THEN t ELSE t - 1

\* The history counters stop where the properties no longer tell them apart.
QuietCap == TIMER_DOA + GRACE + 1
AgeCap == TIMER_DOA + 1
Older(n, cap) == IF n = cap THEN n ELSE n + 1

Tick ==
    /\ Running
    /\ ttl' = [m \in Buckets |-> [a \in Addr |-> Elapse(ttl[m][a])]]
    /\ ttlDelete' = [m \in Buckets |-> [a \in Addr |-> Elapse(ttlDelete[m][a])]]
    /\ quiet' = [a \in Addr |-> IF heap[a] = None THEN 0 ELSE Older(quiet[a], QuietCap)]
    /\ age' = [w \in Workers |-> IF holds[w] = None THEN 0 ELSE Older(age[w], AgeCap)]
    /\ UNCHANGED <<modulusVars, comap, y2x, doa, uniqueExx, memory, pc, msg, mod,
                   rmod, obj, holds, doaVars, failed>>

Worker(w) ==
    \/ Receive(w) \/ LockBucket(w) \/ FindCall(w) \/ CreateCall(w)
    \/ IgnoreMessage(w) \/ UseCall(w) \/ GetCallLock(w)
    \/ CheckDoa(w) \/ EndCall(w) \/ EndCallRequest(w) \/ AskDoa(w)
    \/ RequestAgain(w) \/ RequestFirst(w) \/ InsertRequested(w)

DoaThread(d) ==
    \/ StartPurge(d) \/ SkipBucket(d) \/ TryBucket(d) \/ KeepEntry(d)
    \/ ExpireEntry(d) \/ MarkDeleted(d) \/ ReapEntry(d) \/ FreeCall(d)
    \/ EndPurge(d)

Next ==
    \/ \E w \in Workers : Worker(w)
    \/ \E d \in DoaThreads : DoaThread(d)
    \/ Tick
    \/ ~Running /\ UNCHANGED vars

Spec == Init /\ [][Next]_vars

(***************************************************************************)
(* Every thread is scheduled.  A thread that waits for a mutex gets it if  *)
(* the mutex is free again and again: the DOA threads sleep ten seconds    *)
(* between passes and the workers hold a bucket for a lookup only.  Nobody *)
(* has to send a message, and TRYLOCK is not a wait.                       *)
(***************************************************************************)
WorkerFairness(w) ==
    /\ WF_vars(Worker(w) /\ pc[w] # "idle")
    /\ SF_vars(LockBucket(w))
    /\ SF_vars(GetCallLock(w))
    /\ SF_vars((RequestFirst(w) \/ RequestAgain(w)))
DoaFairness(d) ==
    /\ WF_vars(DoaThread(d))
    /\ SF_vars(FreeCall(d))
FairSpec ==
    /\ Spec
    /\ WF_vars(Tick)
    /\ \A w \in Workers : WorkerFairness(w)
    /\ \A d \in DoaThreads : DoaFairness(d)

----------------------------------------------------------------------------
(***************************************************************************)
(* Properties.                                                             *)
(***************************************************************************)

\* Type invariant.
TypeOK ==
    /\ modulusMap \in [CallIds -> Buckets \cup {None}]
    /\ modulusIter \in Buckets
    /\ comap \in [Buckets -> [CallIds -> Addr \cup {None}]]
    /\ y2x \in [Buckets -> [Keys -> CallIds \cup {None}]]
    /\ doa \in [Buckets -> [Addr -> DoaStates \cup {None}]]
    /\ ttl \in [Buckets -> [Addr -> (-1 .. TIMER_DOA) \cup {None}]]
    /\ ttlDelete \in [Buckets -> [Addr -> (-1 .. GRACE) \cup {None}]]
    /\ uniqueExx \in [Buckets -> Workers \cup DoaThreads \cup {None}]
    /\ heap \in [Addr -> Calls \cup {None}]
    /\ mutex \in [Addr -> Workers \cup {None}]
    /\ created \in SUBSET YIds
    /\ pc \in [Workers -> WorkerPcs]
    /\ msg \in [Workers -> Messages \cup {None}]
    /\ mod \in [Workers -> Buckets \cup {None}]
    /\ rmod \in [Workers -> Buckets \cup {None}]
    /\ obj \in [Workers -> Addr \cup {None}]
    /\ dpc \in [DoaThreads -> DoaPcs]
    /\ dmod \in [DoaThreads -> Buckets \cup {None}]
    /\ todo \in [DoaThreads -> SUBSET CallIds]
    /\ cur \in [DoaThreads -> Addr \cup {None}]
    /\ todel \in [DoaThreads -> SUBSET CallIds]
    /\ holds \in [Workers -> YIds \cup {None}]
    /\ age \in [Workers -> 0 .. AgeCap]
    /\ quiet \in [Addr -> 0 .. QuietCap]
    /\ failed \in {"none", "fix this", "CHECKDOA"}

\* From the lookup until SL_CO::call returns, the pointer a worker holds is
\* the call it looked up: neither freed nor reused for another call, however
\* long the worker waits for the call's mutex while DOA threads purge.
CallInUseIsAllocated ==
    \A w \in Workers : pc[w] \in {"use", "mutex", "incall"} =>
        heap[obj[w]] # None /\ heap[obj[w]].y = holds[w]

\* CALL_OSET::call touches its object after releasing its mutex, to request
\* its deletion.  The pointer is still that call as long as no more than
\* TIMER_DOA passed since the lookup; nothing protects it after that.
LateRequestIsSafe ==
    \A w \in Workers : pc[w] \in {"ask", "request", "insert"} /\ age[w] <= TIMER_DOA =>
        heap[obj[w]] # None /\ heap[obj[w]].y = holds[w]

\* The assertions "fix this" of the two lookups never fire: no thread that
\* takes a bucket finds a call marked deleted in it.
DeletedNeverFound == failed # "fix this"

\* The maps of a bucket agree with each other whenever its mutex is free.
ListedRight(m, x) ==
    LET a == comap[m][x] IN
    a # None =>
        /\ heap[a] # None
        /\ heap[a].x = x
        /\ heap[a].y[1] = m
        /\ y2x[m][heap[a].y[2]] = x
        /\ doa[m][a] \in {"NOT_DOA", "DOA_REQUESTED"}
        /\ ttl[m][a] # None
        /\ ttlDelete[m][a] # None
NothingElseListed(m) ==
    /\ \A k \in Keys : y2x[m][k] # None =>
          /\ comap[m][y2x[m][k]] # None
          /\ heap[comap[m][y2x[m][k]]].y = <<m, k>>
    /\ \A a \in Addr : doa[m][a] # None => \E x \in CallIds : comap[m][x] = a
MapsAgree ==
    \A m \in Buckets : uniqueExx[m] = None =>
        (\A x \in CallIds : ListedRight(m, x)) /\ NothingElseListed(m)

\* No call object is lost: every allocated one is in the table, where its
\* deletion can still reach it.
NoCallLost ==
    \A a \in Addr : heap[a] # None => comap[heap[a].y[1]][heap[a].x] = a

\* A call is freed only after its deletion was requested and no message
\* looked it up for more than TIMER_DOA: until then it answers
\* retransmissions.
FreedOnlyWhenQuiet ==
    [][\A a \in Addr : heap[a] # None /\ heap'[a] # heap[a] => quiet[a] > TIMER_DOA]_vars

\* UTIL.h: "TIMER_DOA / 2 : milliseconds before a DELETED call_oset if
\* purged": the call is freed a grace period after it expired.
GraceIsApplied ==
    [][\A a \in Addr : heap[a] # None /\ heap'[a] # heap[a] => quiet[a] > TIMER_DOA + GRACE]_vars

\* SL_CC::parse before it creates a call: "Call does not exists on any side".
CallDoesNotExistOnAnySide ==
    [][\A a \in Addr : heap[a] = None /\ heap'[a] # None =>
          \A b \in Addr : heap[b] # None => heap[b].x # heap'[a].x]_vars

\* No more messages arrive.
TrafficStops == <>[][\A w \in Workers : pc[w] = "idle" => pc'[w] = "idle"]_pc

\* Once the traffic stops, a call whose deletion was requested is freed, in
\* the buckets the DOA threads visit (or an assertion ends the process).
RequestedIsPurged ==
    TrafficStops =>
        \A m \in PurgedBuckets, a \in Addr :
            [](doa[m][a] = "DOA_REQUESTED" => <>(heap[a] = None \/ failed # "none"))

\* deletion_logic.tex: the same for every bucket.
EveryRequestedIsPurged ==
    TrafficStops =>
        \A m \in Buckets, a \in Addr :
            [](doa[m][a] = "DOA_REQUESTED" => <>(heap[a] = None \/ failed # "none"))

\* A worker that took a message gets done with it, whatever the other threads
\* hold: buckets and call mutexes are never waited for in a circle.
MessageIsFinished ==
    \A w \in Workers : pc[w] # "idle" ~> (pc[w] = "idle" \/ failed # "none")
=============================================================================
