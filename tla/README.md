# TLA+ models of SIPSL

SIPSL is a multi-threaded SIP back-to-back user agent in C++. A caller (side A) sends an
INVITE; the server creates a call object, sends an INVITE of its own to the called side
(B), and relays replies, ACKs and BYEs between the two dialogs. This directory models
the parts of it whose correctness depends on the order in which threads, timers and
messages act, checks them with TLC on small instances, and proves the most important
properties with TLAPS for all instances.

All paths below are relative to `src/sipsl-code/src` unless they say otherwise; `UTIL.h`
and the class headers are in `src/sipsl-code/hdr`.

## 1. The system

    socket -> SUDP -> SIPENGINE -> SL_CC -> COMAP -> CALL_OSET/SL_CO -> TRNSPRT -> socket
                          |          ^                  |
                          v          |                  v
                         DAO         +---- alarms --- ALMGR

Every box but COMAP and CALL_OSET has threads of its own; the ones between two arrows
are `ENGINE`s, that is pools of parser threads behind queues. A message is handed over
by `p_w` and never comes back; the sender does not wait.

| component | state it keeps | operations | what makes it correct |
|---|---|---|---|
| ENGINE, SPIN (`ENGINE.cpp`, `SPIN.cpp`) | per queue a `std::queue`, a mutex `condvarmutex`, a condition variable; `EngineMaps`, the number of queues in use | `p_w`, `threadparser`, `changeEngineMaps` | no message lost or parsed twice, no lost wakeup, messages of a call in order and one at a time |
| COMAP, DOA (`COMAP.cpp`, `DOA.cpp`) | per bucket: `comap_mm`, `call_id_y2x`, `call_oset_doa_state`, `call_oset_ttl`, `call_oset_ttl_delete` and the mutex `unique_exx` | lookup from the A and from the B side, creation, use, `setDoaRequested`, `purgeDOA` | a worker's pointer stays good; every call is found until it is purged; a requested call is purged, but not before it is quiet; the maps agree |
| MESSAGE (`MESSAGE.cpp`, `CS_HEADERS.cpp`) | the text, its lines (cut from a buffer or allocated by a setter), one cache per parsed field, the counters of fills and compiles; static: `modulusMap` and the round-robin counter; a lock flag | `fillIn`, `compileMessage`, getters, setters, the copy, `getModulus`, `PURGEMESSAGE` | a getter returns what the lines say; a line is deleted once; a Call-ID keeps its bucket; a message is freed once, after its last use |
| CALL_OSET, SL_CO (`CALL_OSET.cpp`) | the state machines of one call, the two overall states, the messages stored for resending, a mutex | `CALL_OSET::call`, `SL_CO::call` | each message reaches the right machine; creation of machines respects the overall states |
| TRNSCT_SM (`TRNSCT_SM.cpp`, `ACTION.cpp`) | a `State`, resend counters, stored messages, for INVITE, ACK, BYE, on the server (SV) and client (CL) side | one transition per event | no assertion is reached; the two sides stay in step; whatever is begun ends |
| VALO, ALO (`VALO.cpp`, `ALO.cpp`) | values kept between two messages of a call | `onInvite`, `on200Ok`, `onAck`, `onBye`, … | each side sees one dialog, with the other side's payload |
| SL_CC (`SL_CC.cpp`) | its engine's queues | `parse`: find or create the call, reject, run | a call object per call |
| ALMGR (`ALARM.cpp`) | `pq` (a heap by time), `cidmap` (by Call-ID and timer name) and a mutex | insert, cancel (both through an engine), the loop `alarmer` | an armed alarm fires once unless cancelled; a cancelled one does no harm |
| SIPENGINE (`SIPENGINE.cpp`) | its queues | `parse`: parse the message, pass it to SL_CC or TRNSPRT | order of the messages of a call |
| TRNSPRT, SUDP (`TRNSPRT.cpp`, `SUDP.cpp`) | its queues; sockets | send, receive; arming the alarms of a message that was sent | every message to be sent is sent |
| DAO (`DAO.cpp`) | tables of registrations and routes | `getData`, `putData`, text commands | readers and writers do not disturb each other |
| SIPUTIL (`SIPUTIL.cpp`) | none | construction of replies and requests | well-formed messages |
| SEAMFAIL (`SEAMFAIL.cpp`) | a socket | heartbeat | – |

The behaviours that are hard here:

- *Two locks and two kinds of threads on one object.* A worker finds a call under the
  bucket's mutex, then works under the call's own mutex; a DOA thread frees calls under
  the bucket's mutex and takes the call's in the destructor. The order of the four
  operations is all that keeps the worker's pointer valid.
- *Deletion in three steps separated by time*: requested, deleted, freed; each step
  reads timers that lookups restart, and touches up to five maps.
- *Late and repeated messages*: the network repeats, reorders, loses; alarms are
  messages too, and arrive after what they guard is over.
- *Messages without an owner*: a message that is sent is purged by the transport, unless
  the call has locked it, in which case the call purges it; both may hold it at once.
- *Headers rewritten in place, lazily*: text, lines and caches are three copies of a
  message, brought into line only when a getter or a setter needs it.
- *Eight state machines that share two variables* (`OverallState_SV`, `_CL`).
- *Condition variables*, with spurious wakeups and several consumers.
- *Numbers that can be changed at run time* (`changeEngineMaps`) while others divide by
  them.

`PROJECT.json` lists each such hazard at its line with the properties that guard it.

### The modelled build

`UTIL.h` is read as configured there: `SPINSTL` (queues are `std::queue`s, not the ring
buffer), `CALL_REALM`, `VODAFONEBB`, `NONESTEDPW`, `USEFASTSEND`, `QUICKTRY`,
`USEMAPMODUL` with `MAPMODULHYBRID`, `CHECKDOA`, `ALARMENGINE`; without `USETRYLOCK`,
`WRONGLOCKMGMT`, `SV_CL_MUTEX`, `TUNEPERF`, `CONSICHECK`. `COMAPS` 300, `DOATH` 2,
`TIMER_DOA` 5 s, a DOA pass each 10 s, `MAXTHREADS` and `MAXMAPS` 5 with one thread per
queue, `MAX_INVITE_RESEND` 5, `TIMER_1` 0.5 s, `TIMER_S` 5 s. These are the values of the
`SPARC` branch (UTIL.h:48); the other branch has 600 `COMAPS`, `MAXMAPS` 8 and
`TUNEPERF`, where an engine starts with fewer queues in use than it has (`Configured` in
`Engine`). Sizes are constants of the models.

`INHIBITALARM` is defined in both branches (UTIL.h:179, 334); only a third one, itself a
comment, leaves it out (464). With it `insertAlarm` purges its message and `alarmer`
returns at once (ALARM.cpp:157-159, 304-307): **the server as configured has no timers**,
and a call that nobody answers, acknowledges or hangs up on stays for ever. The
code of the timers is there, and `SlCo` and `Almgr` model both builds: the variable
`inhibitAlarm` has either value at the start and keeps it, so that every run and every
theorem of the two is about both, and what is said of timers is said of the build that
has them.

## 2. The modules

| module | models | run through |
|---|---|---|
| `Comap` | COMAP, DOA, the part of SL_CC and CALL_OSET that uses them, `MESSAGE::getModulus` | `MCComap` |
| `Comap_proofs` | theorems about `Comap`: locks, pointers, deletion | |
| `ComapTables_proofs` | theorems about `Comap`: the maps of a bucket and the timers | |
| `Engine` | ENGINE and SPIN | `MCEngine` |
| `Dispatch` | abstract: what an engine promises its users | as a property of `Engine` |
| `Engine_proofs` | theorems about `Engine`, among them that it refines `Dispatch` | |
| `SlCo` | one call: SL_CO, the transaction machines, its alarms | `MCSlCo` |
| `BackToBack` | abstract: what a call promises its two user agents | as a property of `SlCo` |
| `SlCo_proofs` | theorems about `SlCo`, among them that it refines `BackToBack` | |
| `Message` | MESSAGE: one message and the operations on it | through `Valo` |
| `Message_proofs` | theorems about `Message`: what every operation does to what a message says | |
| `Valo` | VALO, SIPUTIL, the actions of TRNSCT_SM that make messages: all messages of one call | `MCValo` |
| `Valo_proofs` | theorems about `Valo`: what every message of a call says | |
| `Almgr` | ALMGR: queue, heap, map, `alarmer` | `MCAlmgr` |
| `AlarmService` | abstract: what a user of timers is promised | as a property of `Almgr` |
| `Almgr_proofs` | theorems about `Almgr`, among them that it refines `AlarmService` | |
| `Server` | who owns a MESSAGE, from `SUDP::listen` to the purge, through SIPENGINE, SL_CC, the call, TRNSPRT, DAO and the destructors | `MCServer` |
| `Server_proofs` | theorems about `Server` | |

Each model takes one difficulty and leaves the others out; they meet at narrow places,
modelled on both sides. `Engine` delivers the messages of one bucket one after the other
to what `Comap` calls a worker, and is each of the queues of `Server`. `Comap` treats
the body of `SL_CO::call` as a step that may or may not ask for the call's deletion;
`SlCo` shows when it does (`KillDoa`), and treats the purge as one step (`Purge`), which
`Comap` takes apart. `SlCo` decides which message is accepted in which state and lets
its content open; `Valo` computes the content of those messages and lets the states
open; `Server` keeps neither, but which object holds which message. An alarm of `SlCo`
that "may fire late, and its message may wait while it is cancelled" is what
`AlarmService` allows and `Almgr` does.

Definitions introduced as "Mutant of" or "Variant with a bug" are not part of a
specification: they are altered forms of a handler, each the kind of slip the property
next to it in `PROJECT.json` ("mutants") must notice.

### Comap

| variables | code |
|---|---|
| `comap`, `y2x`, `doa`, `ttl`, `ttlDelete` | the arrays of maps `comap_mm`, `call_id_y2x`, `call_oset_doa_state`, `call_oset_ttl`, `call_oset_ttl_delete`; `None` is an absent entry, and as in `getDoa` an object without a state reads as deleted |
| `uniqueExx` | the owner of `unique_exx[m]` |
| `heap`, `mutex` | the `CALL_OSET` at each address and the owner of its mutex; an address can be used again after `delete` |
| `modulusMap`, `modulusIter` | the statics of MESSAGE.cpp |
| `pc`, `msg`, `mod`, `rmod`, `obj` | a worker's place in `SL_CC::parse` / `CALL_OSET::call` and its locals |
| `dpc`, `dmod`, `todo`, `cur`, `todel` | a DOA thread's place in `purgeDOA`, its bucket and iterator, and `todel_cx` |
| `created`, `holds`, `age`, `quiet`, `failed` | Call-IDs the B side knows; history for the properties; the assertion that aborted the process |

A worker goes `Receive`, `LockBucket`, then `FindCall`, `CreateCall` or `IgnoreMessage`;
`UseCall` (the second check), `GetCallLock`, any number of `CheckDoa` while inside the
call, `EndCall` or `EndCallRequest`; a request goes on with `AskDoa`, `RequestFirst` and
`InsertRequested` (the erase and the insert of `setDoa`, which an unlocked reader can
tell apart) or `RequestAgain`. A DOA thread goes `StartPurge`, `TryBucket` or
`SkipBucket`, per entry `KeepEntry` or `ExpireEntry`, `MarkDeleted`, `ReapEntry`,
`FreeCall`, and `EndPurge`. Each is one step because it is done under a mutex or touches
one shared object; where the code works without the mutex that would make it atomic, the
step is split.

Times are counted in ticks left, so the clock is not a variable and the state space is
finite; a timer that was 0 in the code ("long ago") is -1 here.

Any worker may take any message. As the engine is configured one thread serves a queue
and a bucket has one queue, so before a tuning command of DAO no two workers are in the
same bucket; what `Comap` promises it promises without counting on that, and each of the
violated properties of section 3 has a trace with one worker. `CheckDoa`, the read
without the bucket's mutex that the assertion CHECKDOA makes, looks in the bucket
`getModulus` gives by then; no property is claimed of it.

Simplifications: REGISTER and the MESSAGE realm of `SL_CC::parse` are left out.
Messages that wait in the queue are not in the model, since `Receive` can produce them
at any time.

### Engine and Dispatch

`CallPw` to `PwUnlock` are the statements of `p_w` (the queue is chosen, the mutex
taken, the message put, the condition signalled, the mutex released); `Lock`, `Wait`,
`LeaveLoop`, `Get`, `ParseUnlock`, `ParseReturn` those of `threadparser`, whose mutex is
released by the first statement of every `parse`. `SpuriousWakeup` is the freedom POSIX
gives `pthread_cond_wait`. `ChangeEngineMaps` is DAO's tuning command: what `atoi` makes
of its text is stored without a test, so `Tunings` is any set of integers. A producer
that then divides by 0, or takes an index that is not a queue's, stays at `fault`: what
the process does from there is not defined. `retuned` records that a command changed the
number. `Dispatch` has neither threads nor locks: messages are submitted to a queue,
started in order, finished.

### SlCo and BackToBack

`SL_CO::call` runs under the call's mutex and, with `NONESTEDPW`, executes the actions
for the ALO and for the other side's machines as nested calls. So one message from the
network is one step, which moves the server-side and the client-side machine together:
`act_invite_to_alo` contains `act_invite_to_b`, and so on. Actions keep the names of the
functions in TRNSCT_SM.cpp; states keep their numbers.

The environment is as unhelpful as SIP over UDP allows: `toA` and `toB` are the sets of
messages ever sent; a reply can arrive as soon as what it answers was sent, and any
message can arrive at any later time, any number of times, or never. A can repeat its
INVITE at any time. An alarm may fire at once or late, and its message may wait in
SL_CC's queue (`fired`) while the alarm is cancelled, restarted, or the call deleted.

Bounds: one call per pair of Call-IDs (an INVITE that comes after the deletion starts a
new call, which is again this model from its start); one queued message per alarm at a
time; arming and cancelling happen with the handler (`Almgr` has the engine between
them). The branch of `SL_CO::call` for a request it ignores
(CALL_OSET.cpp:634-654) returns without an effect on the state and appears as the
disabled action. B replies with 101, 180 and 200: the machines have no transition for a
refusal.

`BackToBack` is the call as the two user agents see it: a leg to A and a leg to B, each
`none`, `early`, `answered`, `confirmed` or `over`, the BYEs accepted, and what was sent
to each side. It has no machines, no alarms and no resends. The refinement mapping reads
the legs off the overall states (`LegA`, `LegB`; on B's side INVITE_CL tells "answered"
from "early", since both are `PROCEEDING`) and the BYEs off the states of BYE_SV. A
repeated 200 OK or ACK, a 100 from B, a provisional reply after the first, an alarm that
fires and one that is ignored must be stutters. The abstract actions show what the code
allows where one might expect less: a call that is over for A may still be answered by B
(`LateAnswer`), `Reject` and `GiveUpA` tell B nothing, and once a BYE was accepted a
late TIMER_S or TIMER_G may end the call before the reply to the BYE (`GiveUpA` with
`hungUp # {}`).

With `inhibitAlarm` (section 1) no alarm is ever armed (`Armed`), and what TIMER_ON or
TIMER_OFF asks for leaves nothing behind. No fairness is assumed of `Fire`, in either
build. In its place `WaitsAreGuarded` says that a build with alarms has a timer for each
wait, and `AlwaysEndable`, for both builds, that a call which is not over can still be
ended by some message: the INVITE again, an ACK and a BYE, or the reply to a BYE that was
relayed. Whether that message comes is up to the user agents.

### Message and Valo

A message of `Message` is a record: `text` is `original_message`, `status` the state of
`filled` (0 text only, 1 lines and text agree, 2 lines changed), `message_line`,
`via_line` and `sdp_line` the three vectors, `own` of a line whether it points into
`message_char` ("buffer"), was allocated ("heap") or was deleted and stays in the vector
("freed"); `cache` has the fields that were parsed since `_clearStatus`, `contact` and
`modulus` the two that nothing clears; `fills` and `compiles` the counters the code
asserts on. A setter is a function from a message to a message; a failed assertion, a
double deletion, a lost line or a read of an empty vector is recorded in `errors`. The
characters of a header are abstracted to a record of its properties; which header a
search finds (the first, the last, not the first line) is kept, as is the marker
`xxdxxdxx` for a property that is not there. `Cut` is the loop over the tokens of
`fillIn`, `FillIn` the method with its early return and its call of `compileMessage`.
What the code does by running through a vector is written with positions (`LinesAt`: the
lines at these positions, in their order), not with recursion, so that it can be proved
about.

`Valo` has a call's stored messages (`msg`), `VALO::ctxt_store`, `sequenceMap`, and what
went out and came in (`wire`, `heard`). Each action is one `SL_CO::call` with all the
messages it makes, in the order of the setters in VALO.cpp and SIPUTIL.cpp, so that the
fills, compiles and deletions of the code happen. Messages that are sent again are the
stored ones: the 200 OK to A (`act_200ok_refwdto_a`) and the ACK to B (`act_resend_ack`),
for which `act_ack_to_b` keeps the very object it sent. (`act_resend_ack_to_b` has the
same condition as the transition before it, TRNSCT_SM.cpp:1879, and is never reached.)
The environment answers what it was sent, with any of the configured
payloads, from behind a proxy or not, with a route for B or without. `TextsAssumption`
says what a request is: it has a Via, the Via on top does not say yet where it was
received from (who receives it writes that down), and payloads are sequences of payload
lines; `RegisteredAssumption` that only A and B register.

The BYE for A is the one message of which the code itself says that it is wrong:
VALO.cpp:664 notes that it has to go to the NAT address, and VALO.cpp:665-668 that its
request line should have the Contact of A's INVITE ("sbagliato....."). So `DialogWithA`
is about its Call-ID, From and To, and about the replies to A; where the BYE goes is the
violated `ByeToNatAddress`; and the models promise nothing of its request line.

### Almgr and AlarmService

`insertAlarm` and `cancelAlarm` are the calls of a state machine, `sb` the queue of
ALMGR's engine, `ParseInsert` and `ParseCancel` its `parse` under `mutex`; `Wake`,
`Lock`, `Fire`, `Drop`, `Unlock` the loop of `alarmer`. A fire time is computed when the
message is made, by the caller's clock, and the time of a pass is read before the mutex
is taken (`curr`): both gaps are in the model. With `INHIBITALARM` both calls purge their
message (`PurgeRequest`) and `alarmer` never wakes. An alarm that is cancelled or replaced
stays in the heap, inactive, until its time. The heap is a set: `CompareTriple` orders
by time and any alarm of the least time may be on top. Assumed: the clock does not go
back and counts finely enough that a timer is not armed twice at one instant; one queue
and one thread (`ALARMTH`, `ALARMMAPS` 1).

`AlarmService` has no heap: requests are served in order, a timer has at most one armed
request, it goes off once, not before its time, and not after a later request for the
same timer was served.

### Server

`mess` lists the `MESSAGE` objects made so far, a message being its place in it; `queue`
has those that wait for a stage, `hand` the one TRNSPRT is sending, `todo` what the
thread of SL_CC has still to do with its message and those it made (lock, send, purge,
ask for deletion, in the order of the code), `lockedMessages` and `role` what a call
holds: the table, and every pointer of the call and of its machines. `Work` does one of
these things at a time, so that the threads of TRNSPRT and the purge interleave.
`purgeDOA` frees a call with all its messages, which `SL_CC` may have handed to TRNSPRT
just before: that nothing is used after that rests on `TIMER_DOA` alone, so the model
measures it. `idle` counts ticks since the call was requested and is reset by each
message of the call, as in `use_CALL_OSET_SL_CO_call`; `slow` counts the sends that were
due at the last tick. The guard `slow = 0` of `Tick` states the assumption the code
makes without saying so: what a handler sends is on the wire within `TIMER_DOA`. Without
it `NoDanglingPointer` is violated, and so it is in the program.

One queue per stage, since the messages of a call use one (`Engine`); DAO's commands,
REGISTER and OPTIONS are the messages of no call. Alarm messages enter SL_CC's queue
when ALMGR hands them over; before that `Almgr` owns them.

## 3. The runs

| run | instance | shows |
|---|---|---|
| `comap` | 2 Call-IDs, 2 addresses, 2 workers, 2 buckets, 1 DOA thread, 2 call objects ever, `TIMER_DOA` 1; symmetry | `CallInUseIsAllocated`, `LateRequestIsSafe`, `DeletedNeverFound`, `MapsAgree`, `NoCallLost`, `FreedOnlyWhenQuiet`, `TypeOK` (about 450,000 states) |
| `comap_live` | 1 Call-ID, 1 address, 2 workers, fair | `RequestedIsPurged`, `MessageIsFinished` |
| `engine` | 2 producers, 2 queues with a parser each, 3 messages, two of them of one call; tuning commands with -2, 1 and 2 | `PwFindsQueue`, `NoLostWakeup`, `GetFindsMessage`, `SameCallInOrder`, `ImplementsDispatch`, `EveryMessageParsed`, `TypeOK` (about 34,000 states) |
| `slco` | 2 ACK branches, a BYE on each side, 3 resends, with alarms and without | `NothingAsserts`, `AnsweredCallEndsByBye`, `SidesInStep`, `WaitsAreGuarded`, `AlwaysEndable`, `ImplementsBackToBack`, `StatesNeverGoBack`, `TypeOK` (about 93,000 states) |
| `message` | payloads of 0, 1 and 2 lines, A direct or behind a proxy, B with or without a route | `NoCounterAsserts`, `LinesDeletedOnce`, `CachesCoherent`, `TextsWellFormed`, `DialogWithB`, `DialogWithA`, `PayloadRelayed`, `TypeOK` (961 states, of big messages) |
| `alarms` | 2 timers, one of which doubles its time, each armed up to twice, 4 requests, clock to 4, fair, with alarms and without | `EntryOfEachAlarm`, `OneOwner`, `ImplementsService`, `EveryMessageReleased`, `TypeOK` (about 190,000 states) |
| `server` | 1 Call-ID with any number of successive calls, 6 messages from the network and ALMGR, of which the first two may be of no call, `TIMER_DOA` 1 | `NoDanglingPointer`, `NothingLost`, `TypeOK` (about 1,056,000 states) |
| `comap_grace` | 1 Call-ID, 1 worker, `TIMER_DOA` 2 | violates `GraceIsApplied` |
| `comap_twice` | 1 Call-ID, 1 worker, 2 addresses, 3 call objects | violates `CallDoesNotExistOnAnySide` |
| `comap_purged` | 1 Call-ID, 1 worker, fair | violates `EveryRequestedIsPurged` |
| `slco_resend` | as `slco` | violates `AlarmResendsInvite` |
| `message_nat` | as `message` | violates `ByeToNatAddress` |

Why the bounds are enough. Two workers and one DOA thread give every pair of threads
that meets at a bucket or a call: worker and worker, worker and purge. Two DOA threads
never share a bucket (their shares are disjoint), so a second one adds no interleaving
on shared state; `DOATH` stays a parameter for the proofs. With two buckets of which one
is purged and one is not, both sorts exist; two Call-IDs and two keys let a bucket hold
two calls, a call be created while another is purged, and an address be reused. One tick
of `TIMER_DOA` already separates "just requested" from "expired"; `GraceIsApplied` needs
two for a grace of one. In `engine`, one call with two messages and a second call show
order within and independence across queues, and two producers race for one mutex; the
commands carry a fewer, an equal and a negative number of queues. The numbers that do
harm, 0 and those above the number of queues, are left out there, since `PwFindsQueue` is
false with them as the code says it must be; the proofs of the other properties have any
numbers. In
`slco` three resends are the least with a first, a middle and a last; two ACK branches
give A's ACK and a second one for a repeated 200; a BYE on each side gives the glare.

In `message` a payload of two lines tells "replaced" from "appended" and from "the first
line only", two Vias tell "the first" from "all", and every stored message is copied and
sent at least twice. In `alarms` four requests are two for each timer or four for one:
armed, cancelled, armed again, with the heap holding an inactive alarm of a timer that
has a younger one; the clock ends where the longest fire time is. In `server` six
messages are a whole call (INVITE, 200, ACK, BYE, its 200) and a late one that finds the
call ended or gone, or a call, its end and the beginning of the next with the same
Call-ID; as the bound is on what arrives and not on what is made, all copies the
handlers make are there.

`CHECK_DEADLOCK FALSE` is set where a run ends: `SlCo` and `Valo` when the call is over,
with no message left that matters to it; `Almgr` and `Server` when the bounded clock and
the bounded number of messages are used up.

### Fairness

- *Comap*: the operating system schedules every thread (weak fairness of a worker that
  has a message, and of each DOA thread), time passes, and a thread that waits for a
  mutex that becomes free again and again gets it (strong fairness of the lock steps): a
  bucket is held for a lookup, and DOA threads sleep ten seconds between two passes. No
  message is assumed to arrive. `RequestedIsPurged` is stated for traffic that stops: a
  message that keeps coming restarts the timer on purpose, and the try-lock of
  `purgeDOA` gives no promise under endless load.
- *Engine*: the same for its threads; nobody has to call `p_w`, no wakeup has to be
  spurious.
- *Almgr*: time passes; the engine's thread gets the mutex again and again, since
  `alarmer` sleeps 10 ms without it (strong fairness); `alarmer` runs for ever in a build
  that has alarms, and not at all in one with `INHIBITALARM`, where `EveryMessageReleased`
  rests on the purge in `insertAlarm`.
- *SlCo*: none. The builds that `UTIL.h` configures have no alarm that could fire, and
  nothing is assumed of A, B and the network; its properties are safety properties.

### Where the code departs from what it says

Each run marked "violates" checks one sentence of a comment, an assertion or a document.

1. `GraceIsApplied`: the grace time of UTIL.h:94 is stored with `insert` over an entry
   that exists, so it is dropped; an expired call is marked and freed in the same pass
   (COMAP.cpp:597). It matters little as the code stands: with the grace applied, a
   lookup would meet a deleted call and hit "fix this".
2. `CallDoesNotExistOnAnySide`: the destructor forgets the bucket of a Call-ID that a
   new call may use already; the next INVITE goes to another bucket and makes a second
   call (CALL_OSET.cpp:303, SL_CC.cpp:228). One worker is enough.
3. `EveryRequestedIsPurged`: the purge loop stops one bucket early, so the last bucket
   of each DOA thread's share is never visited (COMAP.cpp:526, deletion_logic.tex:77).
4. `AlarmResendsInvite`: the alarm of the INVITE to B is tested with the precondition of
   another machine and ignored; the INVITE is never retransmitted (TRNSCT_SM.cpp:1570,
   TRNSPRT.cpp:149-152). The alarm exists only in a build without `INHIBITALARM`; with
   it nothing retransmits the INVITE either.
5. `ByeToNatAddress`: `onBye` sets the address A's INVITE came from ("need to send to NAT
   address....", VALO.cpp:664), `act_bye_to_b` sends a copy (TRNSCT_SM.cpp:2184), and the
   copy has no such address (MESSAGE.cpp:231); the BYE goes to the registration of A
   (SUDP.cpp:403-423).

Read from the code while modelling it, without a run of their own:

- DAO.cpp:187 documents a tuning command with 10 queues; the engine of SL_CC has
  5, or in the other configuration 8 of which 6 are in use at the start, and
  `changeEngineMaps` tests nothing (ENGINE.cpp:192): an index beyond the queues there
  are, which `PwFindsQueue` excludes. 0 is a division
  by zero. Which commands are safe is the hypothesis of `QueueIsFound`.
- The assertion CHECKDOA (TRNSCT_SM.cpp:132-133) reads the state of a call without the
  bucket's mutex, and `setDoa` changes it by erase and insert (COMAP.cpp:341): a thread
  that reads in between sees "deleted" and aborts. As configured no second thread is in
  the bucket; after a tuning command there may be one.
- A repeated INVITE is answered 503 and ends the call without telling B, which goes on
  ringing (TRNSCT_SM.cpp:395-397).
- `getToTag` of a message without a tag returns the marker `xxdxxdxx`, which is not the
  empty string SIPUTIL.cpp:110-111 tests for; so the To of a reply to A always gets a
  tag, and it is the marker (MESSAGE.cpp:1261). `DialogWithA` holds since both the 180
  and the 200 get the same one.
- `setRoute` is lost in a copy (MESSAGE.cpp:275-277), as the address of `setNatTraversal`
  is: the INVITE that goes to B does not follow the route `VALO::onInvite` gave it
  (VALO.cpp:240, SUDP.cpp:403). What is sent to B goes where B has registered, and
  `DialogWithB` says nothing of that address.
- A REGISTER is never purged (SL_CC.cpp:258-309), although MessageLifeCycle.tex:75 has
  SL_CC delete what is not locked; `NothingLost` names this exception.
- Locked messages are sent, though MessageLifeCycle.tex:43 forbids it: a kept ACK, 180
  and 200 to a BYE are in the queue of TRNSPRT while the call holds them. That is why
  `Server` needs its assumption on `TIMER_DOA`.
- ACK_CL's `A_Matrix` keeps the address of a copy that is purged when the handler
  returns (MESSAGE.cpp:202); nothing dereferences it.
- `buildCommand` (MESSAGE.cpp:2457) reads four fields whatever the command has; the
  documented `0%q%all%` has fewer. "d", delete, is documented and not in `DAO::parse`.

Three more things the models show, which no document contradicts. The order that
`SameCallInOrder` promises ends with the first command that changes the number of queues
(`retuned`): the next message of a call may be in another queue than one that still
waits. In a build with alarms, `TIMER_G` is not cancelled by the ACK (a TODO at
TRNSCT_SM.cpp:1716-1717): a BYE that follows the ACK within `TIMER_1` finds it armed,
and the 200 OK of a call that is already terminated is sent again. When both sides hang
up and B's BYE is handled first, A's BYE is never answered.

## 4. The proofs

All theorems are for every value of the constants, under each module's
`ConstantsAssumption`: the numbers are positive, the sets of threads, identifiers and
`None` are disjoint, and, for `Engine`, every queue has a parser and the engine starts
with no more queues in use than it has; nothing is assumed of the numbers in tuning
commands. `AlmgrAssumption` asks
that the durations of a timer are positive and do not shrink; `Valo` rests on its
`TextsAssumption` and `RegisteredAssumption`. `SlCo` and `Almgr` are proved for builds
with and without `INHIBITALARM` at once.

**Comap_proofs.** `Invariant` proves `Spec => []IInv`, one lemma per action. `TypeOK`
and the safety properties are not inductive: that a pointer is good follows only from
who holds which mutex, and from what a DOA thread may have marked so far. The
strengthening is
- `Locals`: a thread's locals are set where it uses them, and a DOA thread stays within
  its share;
- `Locks`: who is between a lock and an unlock is the owner of that mutex;
- `InUse`: the call a worker is about to enter is the one it looked up, and lives in the
  bucket it holds;
- `Visits`: what a DOA thread knows of the entries it has visited and has yet to visit;
- `Listed`: an entry of `comap_mm` is the allocated call of that Call-ID in a live
  state, unless the owner of the bucket is changing it or has it in `todel_cx`;
- `Gone`: a call whose entry is in `todel_cx` is freed already or is the one being
  freed;
- with `NoCallLost` and `DeletedNeverFound` themselves.

The crucial step is `FreeCall`. The thread holds the bucket of the call (`Locks`,
`Visits`) and the call's mutex is free; a worker at `use` or `mutex` would hold the same
bucket (`InUse`) and one at `incall` the mutex. So no worker uses the object that is
freed. That a lookup meets no deleted call needs `ttlDelete = -1` for listed calls: the
very defect of item 1 in section 3 is what makes `MarkDeleted` and `ReapEntry` follow
each other within one visit, and "fix this" unreachable. From `Invariant`: `TypeCorrect`,
`CallInUseIsSafe`, `DeletedIsNeverFound`, `NoCallIsLost`.

**ComapTables_proofs.** The rest of what `Comap` promises relates the tables of a bucket
to each other and the timers to the past; `TablesInvariant` proves `Spec => []` of
`IInv`, `TablesInv` and `TimesInv` together.
- `TablesInv`: a key is never used twice (`KeysCreated`), so an entry of `call_id_y2x`
  belongs to one call; each call that stays has its entry there, and each entry such a
  call (`YOfListed`, `ListedOfY`); states and timers belong to calls of the bucket that
  stay (`HomeOf`), and each of these has a timer (`Timed`). "That stays" excludes the
  calls in `todel_cx`, whose entries go before they do. `Inserts` is about the gap
  between the erase and the insert of `setDoa`, where a DOA thread may look.
- `TimesInv`: the lookup restarted the timer, so a worker whose lookup is `age` ticks
  ago has a call that is not requested or whose timer has `TIMER_DOA - age` ticks left,
  and that nobody is deleting (`RecentIsSafe`); the timer of a requested call has lost
  no more than the call has been quiet (`QuietEnough`).

From these `MapsOfABucketAgree`, `LateRequestSafe` and, as an action property,
`FreedWhenQuiet`. `LateRequestIsSafe` is the one the code leaves to time:
`setDoaRequested` is called on a pointer that the worker found before it released the
bucket, and only `age[w] <= TIMER_DOA` keeps it good.

**Engine_proofs.** The invariant adds to `TypeOK`, `NoLostWakeup` and `GetFindsMessage`
that a producer or a parser inside the critical section owns the mutex (`ProducerOwns`,
`ParserOwns`), that a producer has a message (`ProducerHasMessage`), and that a waiting
parser is outside (`WaitersAreOutside`). Hence `TypeCorrect`, `GetIsSafe`,
`WakeupsAreNotLost`. `Refinement` shows, from `OneParserPerQueue`, that initial states
map to initial states of `Dispatch` and each step to a step or a stutter: `PwPut` is
`Submit`, `Get` is `Start`, `ParseReturn` is `Finish`. All of these hold for commands
with any numbers, 0 and negative ones included. `QueueIsFound` says which numbers leave
`PwFindsQueue` true: `SafeCommands`, the test that `changeEngineMaps` does not make.
`CallsInOrder` proves `SameCallInOrder` for any number of parsers per queue. Its
invariant `OrderInv` relates the three sequences a message passes through: the log of
`p_w`, the queue of its bucket, and the parses that began. A queue holds what is logged
and not parsed, in the order of the log (`QueuesHold`, `QueuesOrdered`, `NoneLost`), and
what was parsed comes before what still waits (`StartedOrder`). The order is stated up
to the first command that changes the number (`retuned`), and is false after it (see the
end of section 3).

**SlCo_proofs.** The invariant says which combinations of states exist: `ServerStates`,
`ClientStates` (each machine with its overall state), `CallStates` (what has happened
before a call may be requested), `AnswerStates`, `AckStates`, `ByeStates` (what was sent
implies how far both sides are). Hence `TypeCorrect`, `NoAssertion`,
`SidesMoveTogether`, `ByeFollowsAck`, `OnlyByeEndsAnsweredCall`, and the action property
`OnlyForward`. `Refinement` shows that every step is a step of `BackToBack` or a
stutter, one lemma per chain of actions: the INVITE is `Invite`, a 200 OK `Answer` or
`LateAnswer`, the ACK `Confirm`, a BYE `HangUp`, the end of a relayed BYE, by its reply
or by its last timeout, `Release` (`EndOfByeIsRelease`), TIMER_S and the last TIMER_G
`GiveUpA`, TIMER_A `GiveUpB`. What the invariant adds for it is that whatever is sent
again was sent before: a 200 OK is stored exactly when A was sent one, an ACK_CL exists
exactly when B was sent an ACK. `ByeFollowsAck` (`ByeAfterAck`: nobody gets a BYE before
B has its ACK) is proved only; no run names it, since `ImplementsBackToBack`, which the
run has, implies it. `EveryWaitGuarded` needs no more than the invariant: each transition
that leaves a wait takes the timer with it, and each that enters or keeps one arms it.
`NoCallIsStuck` needs `EndStates`: an ACK that was taken went to B, and a closed A side
whose call is still active has a relayed BYE behind it that waits for its reply.

**Almgr_proofs.** `alarmer` uses what it finds in `cidmap` without a test
(ALARM.cpp:273), although an alarm that was replaced is still in the heap. That it finds
something is `EntryOfEachAlarm`, and depends on the times: of the alarms of one timer
the one in `cidmap` is the last to be popped, so that no older one is left when its
entry goes. `InductiveInvariant` adds `Sequenced` (the requests for one timer in the
queue have growing fire times, all later than those of its alarms in the heap, which
follows from `AlmgrAssumption` and the order of creation), `NotLater` (no fire time is
beyond what the next arming will get), `EntryOfTimer`, `UniqueIds` and `TimeHasPassed`.
Hence `TypeCorrect`, `EntryIsFound`, `MessageHasOneOwner`, and `KeepsThePromise`: every
step is a step of `AlarmService` or a stutter, `ParseInsert` being `Arm`, `ParseCancel`
`Cancel`, `Fire` `GoOff`, `Drop` and the purge of a message with `INHIBITALARM` a
stutter. A timer that is armed again for a shorter
time breaks `EntryOfEachAlarm` (the mutant `FireTimeShrinks`): the assumption on the
durations is what the code rests on.

**Server_proofs.** `Invariant` proves `Spec => []SInv`, with a lemma for every action and
for every handler of `SL_CO::call` that `ParseSlcc` may run; the handlers share the lemma
`TakeKeeps`, whose hypotheses say what is true of the messages a handler makes, of those
it keeps and of the list of things it leaves to do. `NothingLost` and
`NoDanglingPointer` are far from inductive: that TRNSPRT may purge what it has sent
depends on who else has it, and that the destructor may purge what is locked depends on
time. The conjuncts, besides the types:
- `KindsInv`: only kinds of messages reach an engine that it handles;
- `LifeInv`: a message is purged or somewhere, and never both;
- `WaitInv`: a message on its way in is there once and nowhere else;
- `ShareInv`: a message that is on its way out twice, or on its way out and still in the
  hands of SL_CC, is locked, so that the first to be done with it does not purge it;
- `TodoInv`: SL_CC works on one call, and of what it uses twice the first use is the
  lock, or the message is locked already. `act_ack_to_b` (lock, then send) is right and
  the opposite order would be wrong;
- `OwnInv`: a call locks only its own messages, and everything a pointer of it leads to
  is locked or about to be, one message per pointer;
- `TimeInv`: of what a requested call keeps and has sent, everything was due at the last
  tick if one has passed since the last message of the call, and is out if two have.

`purgeDOA` is the crucial step. It finds `idle > TIMER_DOA`, hence two ticks at least;
`TimeInv` says that nothing the call keeps is on its way out any more, `TodoInv` with
`~InCall` that SL_CC has nothing of it, and `OwnInv` that no other call does. `TimeInv`
survives `Tick` because a tick waits for `slow = 0`: that is the assumption about
`TIMER_DOA` of section 2, and the only place it is used. Hence `TypeCorrect`,
`NothingIsLost` and `NoMessageDangles`, for any number of calls and messages, any
backlog and any `TIMER_DOA` of a tick or more.

**Message_proofs.** Properties of `Valo` are about what a long chain of setters, copies,
fills and compiles leaves in the lines of a message. The proofs calculate with *letters*:
a letter is what a text says to its reader, that is the start line, From, To, Call-ID,
CSeq, the Vias and the payload. `TextSays(t, w)` relates a text to a letter and implies
that the text is well-formed; `Stored(m, w)` says that a message at rest has such a text,
that its lines and all it has cached agree with it, and that nothing went wrong in it so
far; `Draft` and `Written` say the same of a copy that is being changed, whose lines may
be in the buffer or on the heap while its text is out of date. There is one lemma per
operation: a copy of a stored message is a draft of the same letter, each setter makes of
a draft of `w` a draft of `w` with one value changed and adds no error, getters return
the values of the letter and keep it, and `compileMessage` makes of a draft a stored
message of the same letter. The counters of fills and compiles are bounded along the way,
since a draft has been filled once and not been compiled. All of this holds for texts of
any length, any number of Vias, and any payload. Beneath are lemmas about sequences: the
lines at a set of positions, with and without some headers, of a concatenation, and where
the payload of a text begins; "the k-th of a set of positions" is found by counting, with
the library's facts about finite sets, and the first and the last position of a header
exist because the order of `Nat` is well-founded.

**Valo_proofs.** For each function of VALO and SIPUTIL (`genASideReplyFromBReply`,
`genBInvitefromAInvite`, `onInvite`, `on200Ok`, `onAck`, `onByeFwd`, `onByeBkwd`, …) a
lemma says which letter comes out, whatever letter goes in; further ones say what the
texts of A and B say. `Invariance` proves `Spec => []Inv`, one lemma per action. The
eight invariants of the run are not inductive one by one: that the BYE to B fits B's
dialog depends on what was remembered of the 200, on the copy of the INVITE that was
kept, and on the counter. `Inv` is: no message had an error, and either nothing has
happened yet or there are Vias `V`, an offer `O` and an answer `N` such that
- `MessagesSay`: every message the call keeps is `Stored` with the letter `Said` gives to
  its role in the call of `V`, `O` and `N`, and the later roles exist only after the 200;
- `WireSays`: everything sent says the letter of a role and went to its side, a reply to
  the first of its Vias; the 503 is the one message that is sent and not kept;
- `HeardSays`: an INVITE that was heard is A's; if the 200 was sent on, it was heard from
  B with the payload `N`;
- `StoreSays`: `ctxt_store` has what `on200Ok` remembers once the 200 was sent on, and
  nothing of it before;
- `NumbersSay`: `sequenceMap` has grown exactly when A's BYE was sent on.

Until B's 200 arrives no letter that was sent has `N` in it, so `N` can be chosen when it
does (`OkFromB`); a second 200 is refused by the state. The caches nothing clears are
the subtle part of `Stored`: `modulus` is right since a copy starts without one, and none
is read before the last setter is done; the Contact is read of one message only, the copy
of B's 200 that is passed to `on200Ok`, which no setter changes and nobody keeps. The tag
of a message without one is the marker `xxdxxdxx`, which is why the To of the 180, the 200
and all that follows is `ToSipsl`. TLC checked `Inv` on the instance of `MCValo`
before it was proved. From it `TypeCorrect`, `CountersHold`, `LinesHold`, `CachesHold`,
`TextsHold`, `DialogOfB`, `DialogOfA` and `PayloadPasses`, for all Via stacks and
payloads, whoever is registered. The two dialogs are about what a message says; the only
address they speak of is that of a reply, its first Via.

**Model-checked only.** All liveness (`RequestedIsPurged`, `MessageIsFinished`,
`EveryMessageParsed`, `EveryMessageReleased`, the fairness of `Dispatch`), which is out
of the prover's reach, as it speaks of fairness and ENABLED. Every invariant and every
action property that a passing run checks is proved, `PwFindsQueue` for the commands it
holds for.

## 5. What is not modelled

- The characters of messages. `Message` has lines, headers and properties; how a line is
  cut out of a text is not there, nor are the parser classes of `CS_HEADERS`, which the
  server never instantiates (only a unit test does).
- DAO's tables and the text of its commands. `getData` uses an iterator after it has
  released the mutex, which `putData` may have erased: a race without a promise that
  could be checked.
- The ring-buffer queue and the try-lock `p_w_s`: not in the configured build.
- The MESSAGE realm (`SL_MO::call` is empty here). `Server` has alarm messages reach
  SL_CC whatever the build: with `INHIBITALARM` they do not, which leaves out some of its
  behaviours.
- A clock that jumps; a process restart (nothing is persisted).
- Sockets and configuration (`SUDP`, `test.cpp`), `SEAMFAIL` (a heartbeat whose failover
  is not written), the older copy under `src/branches`, the TCP stub, Java tools, test
  scripts and logs.

What is left of the server's own sources is for the greater part not executed:
`MESSAGE.cpp` from line 2520 and long parts of `TRNSCT_SM.cpp` and `VALO.cpp` (439-545,
820-952) are commented out, `ALO.cpp` chooses the handler of VALO by the method and
`ACTION.cpp` holds the messages an action produced, which the actions of the models have
in them; other parts are traces, accessors of a field, or code of builds that are not
configured. About half of the C++ lines of the repository are the older copies under
`src/branches`.

## 6. Plan

In this order; the first two parts come first because every message passes them.

1. *Done*: `Comap`, `Engine` with `Dispatch`, `SlCo` with `BackToBack`, `Almgr` with
   `AlarmService`, `Message` and `Valo`, `Server`; their runs, and the proofs of the
   three refinements and of all invariants and action properties that are checked.
2. `SlCo` over `Comap`: requests come from `SlCo`'s `KillDoa`, so that a call is freed
   only after its end.
3. `Dao`: the tables, `getData` against `putData`.

## 7. Running it

    tlc -workers 2 -config MCComap.cfg MCComap
    tlapm Comap_proofs.tla

Each `MC*.cfg` is run with the module its name starts with (`MCComapLive.cfg` with
`MCComap`).
