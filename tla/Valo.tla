-------------------------------- MODULE Valo --------------------------------
(***************************************************************************)
(* What SIPSL writes (VALO.cpp, SIPUTIL.cpp, and the actions of            *)
(* TRNSCT_SM.cpp that create messages): the messages of one call, from the *)
(* INVITE of A to the BYE, made from one another with the operations of    *)
(* module Message.  SIPSL stands between A and B with a dialog on either   *)
(* side: Call-ID X with A, Call-ID Y with B, its own tags, branches and    *)
(* sequence numbers; what one side said and the other side needs later is  *)
(* kept in VALO::ctxt_store.                                               *)
(*                                                                         *)
(* Which message is accepted in which state is the subject of module SlCo; *)
(* here a message arrives when SlCo lets it through, and its content       *)
(* varies.  A and B are the environment: they answer what they were sent.  *)
(***************************************************************************)
EXTENDS Message

CONSTANTS
    Registered,     \* the names that are in TBL_REGISTER
    AVias,          \* Via stacks of A's INVITE: direct, or behind a proxy
    Offers,         \* payloads of A's INVITE
    Answers         \* payloads of B's replies

ASSUME RegisteredAssumption == Registered \subseteq {"a", "b"}

\* A request has a Via; whoever receives it writes down where it came from, so
\* the Via on top does not say it yet.
ASSUME TextsAssumption ==
    /\ \A vias \in AVias :
           LinesOf("Via", vias) /\ vias # <<>> /\ "received" \notin DOMAIN vias[1].v
    /\ \A body \in Offers \cup Answers : LinesOf("sdp", body)

VARIABLES
    msg,            \* the messages the call keeps, by the name of the pointer
    ctxt_store,     \* VALO::ctxt_store
    sequence,       \* CALL_OSET::sequenceMap
    heard,          \* the texts that were received from either side
    wire,           \* what was sent to either side
    errors          \* errors of all messages handled so far

vars == <<msg, ctxt_store, sequence, heard, wire, errors>>

\* The names and values of one call; A's INVITE gives X, SIPSL makes Y.
callId_X == [id |-> "X"]
callId_Y == [id |-> "Y"]
SipslContact == [uri |-> "sipsl"]

\* Mutant of SipslVia: one branch for all requests.
SipslViaSameBranch(key) == [host |-> "sipsl", branch |-> "invite"]

SipslVia(key) == [host |-> "sipsl", branch |-> key]

CSeq(number, method) == [number |-> number, method |-> method]

\* A map with one entry more; VALO never replaces one.
Insert(store, key, value) ==
    IF key \in DOMAIN store THEN store
    ELSE [k \in DOMAIN store \cup {key} |-> IF k = key THEN value ELSE store[k]]
Keep(store, key, value) ==
    [k \in DOMAIN store \cup {key} |-> IF k = key THEN value ELSE store[k]]

Init ==
    /\ msg = [k \in {} |-> <<>>]
    /\ ctxt_store = [k \in {} |-> Other]
    /\ sequence = [k \in {"INVITE_B"} |-> 0]
    /\ heard = {}
    /\ wire = {}
    /\ errors = {}

---------------------------------------------------------------------------
(* Handling and sending.                                                   *)

\* SUDP, SIPENGINE, SL_CC and SL_CO look at a message before it is acted on.
Handled(m) == Read(ReadModulus(m), {"reqRep", "callId", "cSeq", "branch"})

Registration(name) == IF name \in Registered THEN name ELSE "nowhere"

\* SUDP::sendRequest: the route, else the NAT address, else the registration.
RequestGoesTo(m) ==
    IF m.route # Absent THEN m.route
    ELSE IF m.nat # Absent THEN m.nat
    ELSE Registration(GetHeadTo(m).uri)

\* SUDP::sendReply: the address the first Via was received from, if it says
\* so, else its host.
ReplyGoesTo(m) ==
    LET received == GetProperty(m, "Via", "received")
    IN  IF received # Absent THEN received ELSE GetViaLine(m).host

\* TRNSPRT::p_w to either side.  TRNSPRT asks for the modulus and the type, and
\* SUDP::sendRequest for the name of To.
Ready(m) ==
    LET typed == Read(ReadModulus(m), {"reqRep"})
    IN  IF "reply" \in DOMAIN GetHeadSipReply(typed) THEN typed ELSE Read(typed, {"headTo"})
Send(m, side) ==
    LET Datagram(r) ==
            [side |-> side, text |-> r.text,
             to |-> IF "reply" \in DOMAIN GetHeadSipReply(r) THEN ReplyGoesTo(r)
                    ELSE RequestGoesTo(r)]
    IN  Datagram(Ready(m))

\* The errors of the messages an action made, and of those it used.
Errors(messages) == errors' = errors \cup UNION {Destroy(m).errors : m \in messages}
Hear(text) == heard' = heard \cup {text}

---------------------------------------------------------------------------
(* SIPUTIL.cpp                                                             *)

genASideReplyFromBReply(reply, invite, m) ==
    LET Tagged(totag) == IF totag = Absent THEN m ELSE SetProperty(m, "To", "tag", totag)
        contact == SetGenericHeader(Tagged(GetToTag(FillIn(invite))), "Contact",
                                    SipslContact)
        coded == SetHeadSipReply(contact, GetHeadSipReply(reply).reply)
        own == DropHeader(DropHeader(DropHeader(coded, "User-Agent"), "Max-Forwards"),
                          "Allow")
    IN  DropHeader(DropHeader(own, "Route"), "Date")

genASideReplyFromRequest(m) ==
    LET own == DropHeader(DropHeader(PurgeSDP(m), "User-Agent"), "Max-Forwards")
        content == DropHeader(DropHeader(own, "Content-Type"), "Allow")
        dropped == DropHeader(DropHeader(content, "Route"), "Date")
    IN  SetGenericHeader(dropped, "Content-Length", [length |-> 0])

\* Mutant of genBInvitefromAInvite: all Vias of A are taken off.
genBInvitefromAInvite_PopsTwo(invite, m) ==
    SetGenericHeader(PushNewVia(PopVia(PopVia(m)), SipslVia("invite")),
                     "Call-ID", callId_Y)

genBInvitefromAInvite(invite, m) ==
    LET via == PushNewVia(PopVia(m), SipslVia("invite"))
        called == SetGenericHeader(SetGenericHeader(via, "Call-ID", callId_Y),
                                   "Contact", SipslContact)
        Offered(tagged) ==
            IF HasSDP(invite) THEN SetSDP(PurgeSDP(tagged), GetSDP(invite)) ELSE tagged
    IN  Offered(SetProperty(called, "From", "tag", "tagOfSipsl"))

\* Mutant of genTryFromInvite: it is not compiled.
genTryFromInvite_NotCompiled(m) ==
    genASideReplyFromRequest(DropHeader(SetHeadSipReply(m, "100"), "Contact"))

genTryFromInvite(m) ==
    LET dropped == DropHeader(SetHeadSipReply(m, "100"), "Contact")
    IN  CompileMessage(ForceHeadSipReply(genASideReplyFromRequest(dropped), "100"))

genQuickReplyFromInvite(m, reply) ==
    CompileMessage(genASideReplyFromRequest(
        DropHeader(SetHeadSipReply(m, reply), "Contact")))

---------------------------------------------------------------------------
(* VALO.cpp: the message for the other side, from the copy that SIPSL made *)
(* of the one it received.                                                 *)

onInvite(m2alo, invite_a, number) ==
    LET message == DropHeader(Copy(m2alo), "Route")
        numbered == SetGenericHeader(message, "CSeq", CSeq(number, "INVITE"))
    IN  CompileMessage(genBInvitefromAInvite(invite_a, numbered))

Routed(m) ==
    IF "RouteIp" \in DOMAIN ctxt_store THEN SetRoute(m, ctxt_store["RouteIp"]) ELSE m

\* The store is read without a test whether the entry is there.
onAck(ack) ==
    LET routed == Routed(DropHeader(Copy(ack), "Route"))
        target == PurgeSDP(SetHeadSipRequest(routed, "ACK", ctxt_store["ContactB"].uri))
        to == SetGenericHeader(target, "To", ctxt_store["tohead_200ok_b"])
        from == SetGenericHeader(to, "From", ctxt_store["fromhead_200ok_b"])
        called == SetGenericHeader(from, "Call-ID", callId_Y)
        numbered == SetGenericHeader(called, "CSeq",
                        CSeq(ctxt_store["CSeqB2BINVITE"].number, GetHeadCSeq(ack).method))
    IN  CompileMessage(PushNewVia(PopVia(numbered), SipslVia("ack")))

onByeFwd(by, number) ==
    LET target == SetHeadSipRequest(Routed(Copy(by)), "BYE", ctxt_store["ContactB"].uri)
        via == PushNewVia(PopVia(target), SipslVia("byeFwd"))
        numbered == SetGenericHeader(via, "CSeq", CSeq(number, "BYE"))
        to == SetGenericHeader(numbered, "To", ctxt_store["tohead_200ok_b"])
        from == SetGenericHeader(to, "From", ctxt_store["fromhead_200ok_b"])
    IN  CompileMessage(SetGenericHeader(from, "Call-ID", callId_Y))

\* Mutant of onByeBkwd: From and To stay as they were in the 200 OK.
onByeBkwd_NotInverted(by, invite_a) ==
    LET via == PushNewVia(PopVia(SetHeadSipRequest(Copy(by), "BYE", "a")),
                          SipslVia("byeBkwd"))
        to == SetGenericHeader(via, "To", ctxt_store["tohead_200ok_a"])
        from == SetGenericHeader(to, "From", ctxt_store["fromhead_200ok_a"])
    IN  CompileMessage(SetGenericHeader(from, "Call-ID", callId_X))

\* From and To of the 200 OK to A change places.
onByeBkwd(by, invite_a) ==
    LET nat == SetNatTraversal(Copy(by), invite_a.echo)
        target == SetHeadSipRequest(nat, "BYE", GetViaLine(FillIn(invite_a)).host)
        via == PushNewVia(PopVia(target), SipslVia("byeBkwd"))
        numbered == SetGenericHeader(via, "CSeq", CSeq(sequence["INVITE_A"], "BYE"))
        to == SetGenericHeader(numbered, "To", ctxt_store["fromhead_200ok_a"])
        from == SetGenericHeader(to, "From", ctxt_store["tohead_200ok_a"])
    IN  CompileMessage(SetGenericHeader(from, "Call-ID", callId_X))

\* Mutant of on200Ok: the payload of A's INVITE stays.
on200Ok_KeepsOffer(reply, invite_a) ==
    FillIn(CompileMessage(genASideReplyFromBReply(reply, invite_a, Copy(invite_a))))

\* The reply to A is made from A's INVITE, with the payload B sent.
on200Ok(reply, invite_a) ==
    LET Answered(ok_x) ==
            IF HasSDP(ok_x) THEN SetSDP(PurgeSDP(ok_x), GetSDP(reply)) ELSE ok_x
        contact == SetGenericHeader(Answered(Copy(invite_a)), "Contact", SipslContact)
    IN  FillIn(CompileMessage(genASideReplyFromBReply(reply, invite_a, contact)))

\* What VALO remembers of the 200 OK of B, and of the one for A.
Remembered(reply, ok_x) ==
    LET s1 == Insert(ctxt_store, "tohead_200ok_b", GetGenericHeader(reply, "To"))
        s2 == Insert(s1, "fromhead_200ok_b", GetGenericHeader(reply, "From"))
        s3 == Insert(s2, "ContactB", GetContact(reply))
        s4 == Insert(s3, "tohead_200ok_a", GetGenericHeader(ok_x, "To"))
    IN  Insert(s4, "fromhead_200ok_a", GetGenericHeader(ok_x, "From"))

---------------------------------------------------------------------------
(* What A and B send: requests, and replies to the requests they were sent.*)

HeaderOf(text, header) == text[CHOOSE i \in DOMAIN text : text[i].h = header].v
ViasOf(text) == With(text, {"Via"})
WithPayload(body) ==
    IF body = <<>> THEN <<Line("Content-Length", [length |-> 0]), Blank>>
    ELSE <<Line("Content-Type", [type |-> "application/sdp"]),
           Line("Content-Length", [length |-> Len(body)]), Blank>> \o body

Request(method, uri, vias, from, to, id, number, contact, route, body) ==
    <<Line("start", [request |-> method, uri |-> uri])>> \o vias
    \o (IF route THEN <<Line("Route", Other)>> ELSE <<>>)
    \o <<Line("From", from), Line("To", to), Line("Call-ID", id),
         Line("CSeq", CSeq(number, method)), Line("Contact", contact),
         Line("Max-Forwards", Other)>>
    \o WithPayload(body)

\* A reply copies Via, From, To, Call-ID and CSeq, and adds a tag to To.
ReplyTo(request, reply, tag, contact, body) ==
    <<Line("start", [reply |-> reply])>> \o ViasOf(request)
    \o <<Line("From", HeaderOf(request, "From")),
         Line("To", [HeaderOf(request, "To") EXCEPT !.tag = tag]),
         Line("Call-ID", HeaderOf(request, "Call-ID")),
         Line("CSeq", HeaderOf(request, "CSeq")), Line("Contact", contact)>>
    \o WithPayload(body)

OfA == [uri |-> "a", tag |-> "tagOfA"]
ToB == [uri |-> "b", tag |-> Absent]
InviteOfA(vias, route, body) ==
    Request("INVITE", "b", vias, OfA, ToB, callId_X, 7, [uri |-> "contactA"], route, body)

IsReply(text) == "reply" \in DOMAIN text[1].v
IsRequest(text, method) == ~IsReply(text) /\ text[1].v.request = method
IsReplyTo(text, reply, method) ==
    IsReply(text) /\ text[1].v.reply = reply /\ HeaderOf(text, "CSeq").method = method
SentTo(side) == {w.text : w \in {x \in wire : x.side = side}}

\* Answers to what SIPSL sent.
AckOfA(ok, body) ==
    Request("ACK", "b", <<Line("Via", [host |-> "a", branch |-> "a2"])>>,
            HeaderOf(ok, "From"), HeaderOf(ok, "To"), callId_X, 7,
            [uri |-> "contactA"], FALSE, body)
ByeOfA(ok) ==
    Request("BYE", "b", <<Line("Via", [host |-> "a", branch |-> "a3"])>>,
            HeaderOf(ok, "From"), HeaderOf(ok, "To"), callId_X, 8,
            [uri |-> "contactA"], FALSE, <<>>)
ByeOfB(invite) ==
    Request("BYE", "sipsl", <<Line("Via", [host |-> "b", branch |-> "b1"])>>,
            [HeaderOf(invite, "To") EXCEPT !.tag = "tagOfB"], HeaderOf(invite, "From"),
            callId_Y, 1, [uri |-> "contactB"], FALSE, <<>>)

---------------------------------------------------------------------------
(* Actions: one SL_CO::call each.  The messages an action makes are bound  *)
(* one after the other, each the only member of its set.                   *)

Kept(role) == role \in DOMAIN msg

\* SL_CC sends the 100 (QUICKTRY); act_invite_to_alo makes another and stores
\* it; VALO::onInvite, act_invite_to_b.
InviteFromA(text) ==
    /\ ~Kept("invite_a")
    /\ \E route \in {Absent, "proxyB"}, number \in {sequence["INVITE_B"] + 1},
          invite_a \in {Handled(NewMessage(text, ViasOf(text)[1].v.host))} :
       \E etry \in {genTryFromInvite(Copy(invite_a))}, m2alo \in {Handled(Copy(invite_a))} :
       \E invite_b \in {Handled(SetRoute(onInvite(m2alo, invite_a, number), route))} :
       LET m2netw == Copy(invite_b)
           store == Insert(ctxt_store, "CSeqB2BINVITE", CSeq(number, "INVITE"))
       IN  /\ msg' = Keep(Keep(Keep(msg, "invite_a", invite_a), "STOREMESS_1_1", etry),
                          "invite_b", invite_b)
           /\ sequence' = Keep(Keep(sequence, "INVITE_B", number),
                               "INVITE_A", GetHeadCSeq(invite_a).number)
           /\ ctxt_store' = IF route = Absent THEN store
                            ELSE Insert(store, "RouteIp", route)
           /\ wire' = wire \cup {Send(etry, "A"), Send(m2netw, "B")}
           /\ Errors({invite_a, Ready(etry), m2alo, invite_b, Ready(m2netw)})
    /\ Hear(text)

\* A repeats the INVITE: the 503 is made from the stored 100.
act_send_servunav_to_a ==
    /\ Kept("STOREMESS_1_1") /\ ~Kept("STOREMESS_1_3")
    /\ \E stored \in {Source(msg["STOREMESS_1_1"])} :
       \E servunav \in {CompileMessage(SetHeadSipReply(Copy(stored), "503"))} :
           /\ msg' = [msg EXCEPT !["STOREMESS_1_1"] = stored]
           /\ wire' = wire \cup {Send(servunav, "A")}
           /\ Errors({Ready(servunav), stored})
    /\ UNCHANGED <<ctxt_store, sequence, heard>>

\* INVITE_SV takes no reply any more once it has sent the 503.
Refused == \E t \in SentTo("A") : IsReplyTo(t, "503", "INVITE")
RepliesOfB(reply, body) ==
    {ReplyTo(t, reply, "tagOfB", [uri |-> "contactB"], body) :
        t \in {x \in SentTo("B") : IsRequest(x, "INVITE")}}

\* 180: act_provrep_to_sv makes the reply, act_provreply_to_a stores and sends
\* a copy of it, the first time.
ProvReplyFromB(body) ==
    /\ ~Kept("STOREMESS_1_2") /\ ~Kept("STOREMESS_1_3") /\ ~Refused
    /\ \E text \in RepliesOfB("180", body) :
       \E reply \in {Handled(NewMessage(text, "b"))},
          invite_a \in {Read(msg["invite_a"], {"toTag"})} :
       \E reply_x \in {Handled(CompileMessage(PurgeSDP(
                          genASideReplyFromBReply(reply, invite_a, Copy(invite_a)))))} :
       LET m2netw == Copy(reply_x)
       IN  /\ msg' = Keep(Keep(msg, "invite_a", invite_a), "STOREMESS_1_2", m2netw)
           /\ wire' = wire \cup {Send(m2netw, "A")}
           /\ Errors({reply, invite_a, reply_x, Ready(m2netw)})
           /\ Hear(text)
    /\ UNCHANGED <<ctxt_store, sequence>>

\* 200: act_200ok_inv_to_alo, VALO::on200Ok, act_200ok_fwdto_a.
OkFromB(body) ==
    /\ ~Kept("STOREMESS_1_3") /\ ~Refused
    /\ \E text \in RepliesOfB("200", body) :
       \E reply \in {Handled(NewMessage(text, "b"))},
          invite_a \in {Read(msg["invite_a"], {"toTag"})} :
       \E toalo \in {ReadContact(Read(Handled(Copy(reply)), {"toTag"}))} :
       \E ok_x \in {Handled(on200Ok(toalo, invite_a))} :
       LET m2netw == Copy(ok_x)
       IN  /\ msg' = Keep(Keep(msg, "invite_a", invite_a), "STOREMESS_1_3", ok_x)
           /\ ctxt_store' = Remembered(toalo, ok_x)
           /\ wire' = wire \cup {Send(m2netw, "A")}
           /\ Errors({reply, toalo, invite_a, ok_x, Ready(m2netw)})
           /\ Hear(text)
    /\ UNCHANGED sequence

\* TIMER_G, or the INVITE again: act_200ok_refwdto_a, act_200ok_resendto_a.
\* The stored 200 is copied and sent once more.
act_200ok_refwdto_a ==
    /\ Kept("STOREMESS_1_3")
    /\ LET stored == msg["STOREMESS_1_3"]
       IN  /\ msg' = [msg EXCEPT !["STOREMESS_1_3"] = Source(stored)]
           /\ wire' = wire \cup {Send(Copy(stored), "A")}
           /\ Errors({Ready(Copy(stored)), Source(stored)})
    /\ UNCHANGED <<ctxt_store, sequence, heard>>

\* act_ack_to_alo, VALO::onAck, act_ack_to_b.  The copy that is sent is the
\* one that stays: ACKTOB.
AckFromA(body) ==
    /\ ~Kept("ack_b")
    /\ \E ok \in {t \in SentTo("A") : IsReplyTo(t, "200", "INVITE")} :
       \E received \in {Handled(NewMessage(AckOfA(ok, body), "a"))} :
       \E ack \in {Handled(Copy(received))} :
       \E ack_b \in {Handled(onAck(ack))} :
       LET ACKTOB == Copy(ack_b)
       IN  /\ msg' = Keep(msg, "ack_b", Ready(ACKTOB))
           /\ wire' = wire \cup {Send(ACKTOB, "B")}
           /\ Errors({received, ack, ack_b, Ready(ACKTOB)})
           /\ Hear(AckOfA(ok, body))
    /\ UNCHANGED <<ctxt_store, sequence>>

\* B repeats the 200: ACKTOB itself is sent once more.
act_resend_ack ==
    /\ Kept("ack_b")
    /\ LET ACKTOB == msg["ack_b"]
       IN  /\ msg' = [msg EXCEPT !["ack_b"] = Ready(ACKTOB)]
           /\ wire' = wire \cup {Send(ACKTOB, "B")}
           /\ Errors({Ready(ACKTOB)})
    /\ UNCHANGED <<ctxt_store, sequence, heard>>

\* act_bye_to_alo answers the side the BYE came from at once; VALO::onBye,
\* act_bye_to_b.
OtherSide(side) == IF side = "A" THEN "B" ELSE "A"
ByeTo(side) == IF side = "A" THEN "byeA" ELSE "byeB"
STORED_MESSAGE(side) == IF side = "A" THEN "STORED_MESSAGEA" ELSE "STORED_MESSAGEB"
Bye(received, bye, side) ==
    \E a200ok \in {Ready(genQuickReplyFromInvite(Copy(received), "200"))} :
    LET sent == Copy(bye)
    IN  /\ msg' = Keep(Keep(msg, ByeTo(OtherSide(side)), bye), STORED_MESSAGE(side), a200ok)
        /\ wire' = wire \cup {Send(a200ok, side), Send(sent, OtherSide(side))}
        /\ Errors({received, bye, a200ok, Ready(sent)})
        /\ Hear(received.text)

ByeFromA ==
    /\ Kept("ack_b") /\ ~Kept("byeA") /\ ~Kept("byeB")
    /\ \E ok \in {t \in SentTo("A") : IsReplyTo(t, "200", "INVITE")} :
       \E received \in {Handled(NewMessage(ByeOfA(ok), "a"))},
          number \in {sequence["INVITE_B"] + 1} :
           /\ Bye(received, Handled(onByeFwd(Handled(Copy(received)), number)), "A")
           /\ sequence' = [sequence EXCEPT !["INVITE_B"] = number]
    /\ UNCHANGED ctxt_store

\* Also after A has sent one: the two BYEs cross.
ByeFromB ==
    /\ Kept("ack_b") /\ ~Kept("byeA")
    /\ \E invite \in {t \in SentTo("B") : IsRequest(t, "INVITE")} :
       \E received \in {Handled(NewMessage(ByeOfB(invite), "b"))} :
           Bye(received, Handled(onByeBkwd(Handled(Copy(received)), msg["invite_a"])), "B")
    /\ UNCHANGED <<ctxt_store, sequence>>

Next ==
    \/ \E vias \in AVias, route \in BOOLEAN, body \in Offers :
           InviteFromA(InviteOfA(vias, route, body))
    \/ act_send_servunav_to_a
    \/ \E body \in Answers : ProvReplyFromB(body) \/ OkFromB(body)
    \/ act_200ok_refwdto_a
    \/ \E body \in Offers : AckFromA(body)
    \/ act_resend_ack
    \/ ByeFromA
    \/ ByeFromB

Spec == Init /\ [][Next]_vars

---------------------------------------------------------------------------
Roles == {"invite_a", "invite_b", "STOREMESS_1_1", "STOREMESS_1_2", "STOREMESS_1_3",
          "ack_b", "byeA", "byeB", "STORED_MESSAGEA", "STORED_MESSAGEB"}
StoreKeys == {"CSeqB2BINVITE", "RouteIp", "tohead_200ok_b", "fromhead_200ok_b", "ContactB",
              "tohead_200ok_a", "fromhead_200ok_a"}

(* Types of the variables.  A stored message has been read or compiled: no *)
(* change waits for compileMessage.                                        *)
TypeOK ==
    /\ DOMAIN msg \subseteq Roles
    /\ \A k \in DOMAIN msg : msg[k].status \in {0, 1} /\ msg[k].fills <= MaxFills
    /\ DOMAIN ctxt_store \subseteq StoreKeys
    /\ DOMAIN sequence \subseteq {"INVITE_A", "INVITE_B"}
    /\ \A w \in wire : w.side \in {"A", "B"}

(* No message is filled or compiled more than twice (the assertions of     *)
(* fillIn and compileMessage): along every path a message takes, from its  *)
(* copy to the socket, setters and getters alternate at most once.         *)
NoCounterAsserts == errors \cap {"fillCounter", "compileCounter"} = {}

(* Lines are deleted once, none is lost, and no empty vector is read: the  *)
(* flag of a line that was purged stays set, and hasvialines is never      *)
(* reset, so this depends on the order in which VALO and SIPUTIL call.     *)
LinesDeletedOnce ==
    errors \cap {"double deletion", "use of a freed line", "leaked line",
                 "front of an empty vector"} = {}

(* What a getter of a stored message returns is what its lines say, also   *)
(* the Contact and the modulus, whose caches nothing resets.               *)
CachesCoherent == \A k \in DOMAIN msg : Coherent(msg[k])

(* Every text that leaves has one start line, one of each header that a    *)
(* dialog needs, and a Content-Length that is the length of its payload.   *)
TextsWellFormed == \A w \in wire : WellFormed(w.text)

RequestsTo(side) == {t \in SentTo(side) : ~IsReply(t)}

(* The requests that B sees form one dialog: Call-ID Y, the From of the    *)
(* INVITE, and once B has answered its To and its Contact; the Via on top  *)
(* is SIPSL's, another one for every request; the ACK has the number of    *)
(* the INVITE and the BYE a higher one.                                    *)
DialogWithB ==
    \A t, i \in RequestsTo("B") :
           IsRequest(i, "INVITE") =>
               /\ HeaderOf(t, "Call-ID") = callId_Y
               /\ HeaderOf(t, "From") = HeaderOf(i, "From")
               /\ HeaderOf(t, "From").tag # OfA.tag
               /\ ViasOf(t)[1].v.host = "sipsl"
               /\ t # i => ViasOf(t)[1] # ViasOf(i)[1]
               /\ t # i => \E ok \in heard : /\ IsReplyTo(ok, "200", "INVITE")
                                            /\ HeaderOf(t, "To") = HeaderOf(ok, "To")
                                            /\ t[1].v.uri = HeaderOf(ok, "Contact").uri
               /\ LET number == HeaderOf(t, "CSeq").number
                      first == HeaderOf(i, "CSeq").number
                  IN  /\ IsRequest(t, "ACK") => number = first
                      /\ IsRequest(t, "BYE") => number > first

(* By its Call-ID and its tags A tells what belongs to its call: every     *)
(* reply to the INVITE carries A's Vias, From, Call-ID and CSeq and goes   *)
(* to the first of these Vias; the 180 and the 200 carry the same To; and  *)
(* a BYE of SIPSL has that Call-ID, and the From and the To of the 200 the *)
(* other way round.  The request line of this BYE and its way to A are not *)
(* part of it (VALO.cpp calls the line wrong; the way is ByeToNatAddress). *)
DialogWithA ==
    /\ \A w \in wire :
           w.side = "A" /\ IsReply(w.text) => w.to = ViasOf(w.text)[1].v.host
    /\ \A t \in SentTo("A"), i \in heard :
           /\ IsReply(t) /\ HeaderOf(t, "CSeq").method = "INVITE"
              /\ IsRequest(i, "INVITE") =>
                  /\ ViasOf(t) = ViasOf(i)
                  /\ \A h \in {"From", "Call-ID", "CSeq"} : HeaderOf(t, h) = HeaderOf(i, h)
                  /\ HeaderOf(t, "To").uri = HeaderOf(i, "To").uri
           /\ \A ok \in SentTo("A") : IsReplyTo(ok, "200", "INVITE") =>
                  /\ IsReplyTo(t, "180", "INVITE") => HeaderOf(t, "To") = HeaderOf(ok, "To")
                  /\ IsRequest(t, "BYE") => /\ HeaderOf(t, "From") = HeaderOf(ok, "To")
                                           /\ HeaderOf(t, "To") = HeaderOf(ok, "From")
                                           /\ HeaderOf(t, "Call-ID") = HeaderOf(ok, "Call-ID")

(* VALO.cpp:664, "need to send to NAT address": the BYE for A goes to the  *)
(* address from which A's INVITE came.                                     *)
ByeToNatAddress ==
    \A w \in wire : w.side = "A" /\ IsRequest(w.text, "BYE") => w.to = msg["invite_a"].echo

(* The payload passes: B gets the offer of A's INVITE, and A the answer in *)
(* the 200 of B, not its own offer back.                                   *)
PayloadRelayed ==
    /\ \A t \in RequestsTo("B"), i \in heard :
           IsRequest(t, "INVITE") /\ IsRequest(i, "INVITE") => Payload(t) = Payload(i)
    /\ \A t \in SentTo("A") : IsReplyTo(t, "200", "INVITE") =>
           \E ok \in heard : /\ IsReplyTo(ok, "200", "INVITE")
                             /\ HeaderOf(ok, "Call-ID") = callId_Y
                             /\ Payload(t) = Payload(ok)
=============================================================================
