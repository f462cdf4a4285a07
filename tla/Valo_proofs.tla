---------------------------- MODULE Valo_proofs ----------------------------
(***************************************************************************)
(* Proofs about Valo, for any Via stacks, offers, answers and registered   *)
(* names.                                                                  *)
(*                                                                         *)
(* First what every operator of VALO and SIPUTIL makes of a message, for   *)
(* whatever letter it says; then what A and B send; then the invariant:    *)
(* there is one INVITE, with Vias V and offer O, and every message that is *)
(* kept, sent or heard says the letter of its role in that call (Said).    *)
(* The properties follow from what the letters of the roles have in        *)
(* common.                                                                 *)
(***************************************************************************)
EXTENDS Valo, Message_proofs

---------------------------------------------------------------------------
(* Letters. *)

\* The letter with these seven values.
Letter(start, from, to, id, cseq, vias, sdp) ==
    [f \in LetterFields |->
        IF f = "start" THEN start
        ELSE IF f = "From" THEN from
        ELSE IF f = "To" THEN to
        ELSE IF f = "Call-ID" THEN id
        ELSE IF f = "CSeq" THEN cseq
        ELSE IF f = "Via" THEN vias
        ELSE sdp]

\* The seven values of a letter.
LEMMA LetterFacts ==
    ASSUME NEW s, NEW f, NEW t, NEW i, NEW c, NEW v, NEW b
    PROVE  LET w == Letter(s, f, t, i, c, v, b)
           IN  /\ DOMAIN w = LetterFields
               /\ w["start"] = s /\ w["From"] = f /\ w["To"] = t /\ w["Call-ID"] = i
               /\ w["CSeq"] = c /\ w["Via"] = v /\ w["sdp"] = b
               /\ LinesOf("Via", v) /\ v # <<>> /\ LinesOf("sdp", b) => IsLetter(w)
<1> DEFINE w == Letter(s, f, t, i, c, v, b)
<1>1. DOMAIN w = LetterFields
    BY DEF Letter
<1>2. /\ w["start"] = s /\ w["From"] = f /\ w["To"] = t /\ w["Call-ID"] = i
      /\ w["CSeq"] = c /\ w["Via"] = v /\ w["sdp"] = b
    BY DEF Letter, LetterFields, Named
<1> HIDE DEF w
<1>3. LinesOf("Via", v) /\ v # <<>> /\ LinesOf("sdp", b) => IsLetter(w)
    BY <1>1, <1>2 DEF IsLetter
<1> QED
    BY <1>1, <1>2, <1>3 DEF w

\* A letter with one value changed.
LEMMA Amendments ==
    ASSUME NEW s, NEW f, NEW t, NEW i, NEW c, NEW v, NEW b, NEW x
    PROVE  LET w == Letter(s, f, t, i, c, v, b)
           IN  /\ Amended(w, "start", x) = Letter(x, f, t, i, c, v, b)
               /\ Amended(w, "From", x) = Letter(s, x, t, i, c, v, b)
               /\ Amended(w, "To", x) = Letter(s, f, x, i, c, v, b)
               /\ Amended(w, "Call-ID", x) = Letter(s, f, t, x, c, v, b)
               /\ Amended(w, "CSeq", x) = Letter(s, f, t, i, x, v, b)
               /\ Amended(w, "Via", x) = Letter(s, f, t, i, c, x, b)
               /\ Amended(w, "sdp", x) = Letter(s, f, t, i, c, v, x)
<1>1. Amended(Letter(s, f, t, i, c, v, b), "start", x) = Letter(x, f, t, i, c, v, b)
    BY DEF Amended, Letter, LetterFields, Named
<1>2. Amended(Letter(s, f, t, i, c, v, b), "From", x) = Letter(s, x, t, i, c, v, b)
    BY DEF Amended, Letter, LetterFields, Named
<1>3. Amended(Letter(s, f, t, i, c, v, b), "To", x) = Letter(s, f, x, i, c, v, b)
    BY DEF Amended, Letter, LetterFields, Named
<1>4. Amended(Letter(s, f, t, i, c, v, b), "Call-ID", x) = Letter(s, f, t, x, c, v, b)
    BY DEF Amended, Letter, LetterFields, Named
<1>5. Amended(Letter(s, f, t, i, c, v, b), "CSeq", x) = Letter(s, f, t, i, x, v, b)
    BY DEF Amended, Letter, LetterFields, Named
<1>6. Amended(Letter(s, f, t, i, c, v, b), "Via", x) = Letter(s, f, t, i, c, x, b)
    BY DEF Amended, Letter, LetterFields, Named
<1>7. Amended(Letter(s, f, t, i, c, v, b), "sdp", x) = Letter(s, f, t, i, c, v, x)
    BY DEF Amended, Letter, LetterFields, Named
<1> QED
    BY <1>1, <1>2, <1>3, <1>4, <1>5, <1>6, <1>7

\* The headers a letter does not say that SIPSL changes or takes out.
OtherHeaders == {"User-Agent", "Max-Forwards", "Allow", "Route", "Date", "Content-Type",
                 "Contact", "Content-Length"}

\* The headers that SIPUTIL drops or sets, beside those of a letter.
LEMMA OtherHeadersFacts ==
    \A h \in OtherHeaders : h \notin Named \cup {"start", "Via", NoHeader}
<1>1. NoHeader \notin OtherHeaders
    BY Zenon DEF NoHeader, Absent, OtherHeaders
<1>2. \A h \in OtherHeaders : h \notin Named \cup {"start", "Via"}
    BY DEF OtherHeaders, Named
<1> QED
    BY <1>1, <1>2

---------------------------------------------------------------------------
(* The setters, by what the message says before and afterwards. *)

\* setGenericHeader, for the headers of a dialog.
LEMMA SettingHeader ==
    ASSUME NEW m, NEW s, NEW f, NEW t, NEW i, NEW c, NEW v, NEW b, NEW start, NEW sdp,
           Draft(m, Letter(s, f, t, i, c, v, b), start, sdp), NEW x
    PROVE  /\ Written(SetGenericHeader(m, "From", x), Letter(s, x, t, i, c, v, b), start, sdp)
           /\ Written(SetGenericHeader(m, "To", x), Letter(s, f, x, i, c, v, b), start, sdp)
           /\ Written(SetGenericHeader(m, "Call-ID", x), Letter(s, f, t, x, c, v, b),
                      start, sdp)
           /\ Written(SetGenericHeader(m, "CSeq", x), Letter(s, f, t, i, x, v, b), start, sdp)
<1> DEFINE w == Letter(s, f, t, i, c, v, b)
<1>1. ASSUME NEW h \in Named
      PROVE  Written(SetGenericHeader(m, h, x), Amended(w, h, x), start, sdp)
    <2> HIDE DEF w
    <2>1. Draft(m, w, start, sdp)
        BY DEF w
    <2> QED
        BY <2>1, SetNamedDraft
<1> QED
    BY <1>1, Amendments DEF Named

\* For other headers it changes nothing that a letter says,
LEMMA SettingOther ==
    ASSUME NEW m, NEW w, NEW start, NEW sdp, Draft(m, w, start, sdp),
           NEW h \in OtherHeaders, NEW x
    PROVE  Written(SetGenericHeader(m, h, x), w, start, sdp)
    BY OtherHeadersFacts, SetUnnamedDraft

\* and neither does dropHeader.
LEMMA Dropping ==
    ASSUME NEW m, NEW w, NEW start, NEW sdp, NEW h \in OtherHeaders
    PROVE  /\ Draft(m, w, start, sdp) => Draft(DropHeader(m, h), w, start, sdp)
           /\ Written(m, w, start, sdp) => Written(DropHeader(m, h), w, start, sdp)
<1>1. h \notin Named \cup {"start", "Via", NoHeader}
    BY OtherHeadersFacts
<1>2. Draft(m, w, start, sdp) => /\ Draft(DropHeader(m, h), w, start, sdp)
                                 /\ m.status = 2 => DropHeader(m, h).status = 2
    BY <1>1, DropHeaderDraft
<1> QED
    BY <1>2 DEF Written

\* setProperty, for the tags.
LEMMA SettingTag ==
    ASSUME NEW m, NEW s, NEW f, NEW t, NEW i, NEW c, NEW v, NEW b, NEW start, NEW sdp,
           Draft(m, Letter(s, f, t, i, c, v, b), start, sdp), NEW x
    PROVE  /\ Written(SetProperty(m, "From", "tag", x),
                      Letter(s, [f EXCEPT !["tag"] = x], t, i, c, v, b), start, sdp)
           /\ Written(SetProperty(m, "To", "tag", x),
                      Letter(s, f, [t EXCEPT !["tag"] = x], i, c, v, b), start, sdp)
<1> DEFINE w == Letter(s, f, t, i, c, v, b)
<1>1. ASSUME NEW h \in Named
      PROVE  Written(SetProperty(m, h, "tag", x),
                     Amended(w, h, [w[h] EXCEPT !["tag"] = x]), start, sdp)
    <2> HIDE DEF w
    <2>1. Draft(m, w, start, sdp)
        BY DEF w
    <2> QED
        BY <2>1, SetPropertyDraft
<1>2. w["From"] = f /\ w["To"] = t
    BY LetterFacts
<1>3. /\ Amended(w, "From", [f EXCEPT !["tag"] = x])
             = Letter(s, [f EXCEPT !["tag"] = x], t, i, c, v, b)
      /\ Amended(w, "To", [t EXCEPT !["tag"] = x])
             = Letter(s, f, [t EXCEPT !["tag"] = x], i, c, v, b)
    BY Amendments
<1> HIDE DEF w
<1>4. "From" \in Named /\ "To" \in Named
    BY DEF Named
<1> QED
    BY <1>1, <1>2, <1>3, <1>4

\* SIPSL's Via in the place of the one on top.
LEMMA SettingVia ==
    ASSUME NEW m, NEW s, NEW f, NEW t, NEW i, NEW c, NEW v, NEW b, NEW start, NEW sdp,
           Draft(m, Letter(s, f, t, i, c, v, b), start, sdp), NEW x
    PROVE  Written(PushNewVia(PopVia(m), x), Letter(s, f, t, i, c, OnTop(x, v), b),
                   start, sdp)
<1> DEFINE w == Letter(s, f, t, i, c, v, b)
<1>1. w["Via"] = v
    BY LetterFacts
<1>2. Amended(w, "Via", OnTop(x, v)) = Letter(s, f, t, i, c, OnTop(x, v), b)
    BY Amendments
<1>3. Draft(m, w, start, sdp)
    OBVIOUS
<1> HIDE DEF w
<1>4. Written(PushedVia(m, x), Amended(w, "Via", OnTop(x, v)), start, sdp)
    BY <1>1, <1>3, ViaDraft
<1> QED
    BY <1>2, <1>4 DEF PushedVia

\* Another start line.
LEMMA SettingStart ==
    ASSUME NEW m, NEW s, NEW f, NEW t, NEW i, NEW c, NEW v, NEW b, NEW sdp,
           Draft(m, Letter(s, f, t, i, c, v, b), "buffer", sdp), NEW x
    PROVE  Written(SetFirstLine(m, x), Letter(x, f, t, i, c, v, b), "heap", sdp)
<1> DEFINE w == Letter(s, f, t, i, c, v, b)
<1>1. Amended(w, "start", x) = Letter(x, f, t, i, c, v, b)
    BY Amendments
<1>2. Draft(m, w, "buffer", sdp)
    OBVIOUS
<1> HIDE DEF w
<1>3. Written(SetFirstLine(m, x), Amended(w, "start", x), "heap", sdp)
    BY <1>2, SetFirstLineDraft
<1> QED
    BY <1>1, <1>3

\* Another payload, or none.
LEMMA SettingPayload ==
    ASSUME NEW m, NEW s, NEW f, NEW t, NEW i, NEW c, NEW v, NEW b, NEW start, NEW sdp,
           Draft(m, Letter(s, f, t, i, c, v, b), start, sdp)
    PROVE  /\ \A x : LinesOf("sdp", x) =>
                  Written(SetSDP(m, PayloadOf(x)), Letter(s, f, t, i, c, v, x), start, "heap")
           /\ sdp = "buffer" =>
                  Written(PurgeSDP(m), Letter(s, f, t, i, c, v, <<>>), start, "purged")
<1> DEFINE w == Letter(s, f, t, i, c, v, b)
<1>1. \A x : Amended(w, "sdp", x) = Letter(s, f, t, i, c, v, x)
    BY Amendments
<1>2. Draft(m, w, start, sdp)
    OBVIOUS
<1> HIDE DEF w
<1>3. ASSUME NEW x, LinesOf("sdp", x)
      PROVE  Written(SetSDP(m, PayloadOf(x)), Amended(w, "sdp", x), start, "heap")
    BY <1>2, <1>3, SetSDPDraft
<1>4. ASSUME sdp = "buffer"
      PROVE  Written(PurgeSDP(m), Amended(w, "sdp", <<>>), start, "purged")
    <2>1. Draft(m, w, start, "buffer")
        BY <1>2, <1>4
    <2>2. ASSUME NEW x, x = Amended(w, "sdp", <<>>)
          PROVE  Written(PurgeSDP(m), x, start, "purged")
        BY <2>1, <2>2, PurgeDraft
    <2> QED
        BY <2>2
<1> QED
    BY <1>1, <1>3, <1>4

---------------------------------------------------------------------------
(* SIPUTIL and VALO: what the message says that is made from another one. *)

\* SIPUTIL::genASideReplyFromRequest keeps From, To, Call-ID, CSeq and Vias, and takes
\* the payload away.
LEMMA ReplyFromRequest ==
    ASSUME NEW m, NEW s, NEW f, NEW t, NEW i, NEW c, NEW v, NEW b, NEW start,
           Draft(m, Letter(s, f, t, i, c, v, b), start, "buffer")
    PROVE  Written(genASideReplyFromRequest(m), Letter(s, f, t, i, c, v, <<>>),
                   start, "purged")
<1> DEFINE w == Letter(s, f, t, i, c, v, <<>>)
           m1 == PurgeSDP(m)
           m2 == DropHeader(DropHeader(m1, "User-Agent"), "Max-Forwards")
           m3 == DropHeader(DropHeader(m2, "Content-Type"), "Allow")
           m4 == DropHeader(DropHeader(m3, "Route"), "Date")
<1>1. Written(m1, w, start, "purged")
    BY SettingPayload
<1>2. genASideReplyFromRequest(m) = SetGenericHeader(m4, "Content-Length", [length |-> 0])
    BY DEF genASideReplyFromRequest
<1> HIDE DEF w, m1
<1>3. \A h \in OtherHeaders : \A r : Written(r, w, start, "purged")
                                     => Written(DropHeader(r, h), w, start, "purged")
    BY Dropping
<1>4. Written(m2, w, start, "purged")
    BY <1>1, <1>3 DEF OtherHeaders
<1> HIDE DEF m2
<1>5. Written(m3, w, start, "purged")
    BY <1>3, <1>4 DEF OtherHeaders
<1> HIDE DEF m3
<1>6. Written(m4, w, start, "purged")
    BY <1>3, <1>5 DEF OtherHeaders
<1> HIDE DEF m4
<1>7. "Content-Length" \in OtherHeaders /\ Draft(m4, w, start, "purged")
    BY <1>6 DEF OtherHeaders, Written
<1>8. Written(SetGenericHeader(m4, "Content-Length", [length |-> 0]), w, start, "purged")
    BY <1>7, SettingOther
<1> QED
    BY <1>2, <1>8 DEF w

\* What a compiled draft is.
LEMMA Compiled ==
    ASSUME NEW m, NEW w, NEW start, NEW sdp, Written(m, w, start, sdp)
    PROVE  LET r == CompileMessage(m)
           IN  Stored(r, w) /\ r.status = 0 /\ r.fills = 1 /\ r.modulus = {}
    BY CompileDraft DEF Written

\* SIPUTIL::genTryFromInvite: the 100.
LEMMA TryFromInvite ==
    ASSUME NEW m, NEW s, NEW f, NEW t, NEW i, NEW c, NEW v, NEW b,
           Draft(m, Letter(s, f, t, i, c, v, b), "buffer", "buffer")
    PROVE  LET r == genTryFromInvite(m)
           IN  Stored(r, Letter([reply |-> "100"], f, t, i, c, v, <<>>))
<1> DEFINE m1 == SetFirstLine(m, [reply |-> "100"])
           m2 == DropHeader(m1, "Contact")
           m3 == genASideReplyFromRequest(m2)
           m4 == ForceHeadSipReply(m3, "100")
           w1 == Letter([reply |-> "100"], f, t, i, c, v, b)
           w2 == Letter([reply |-> "100"], f, t, i, c, v, <<>>)
<1>1. Written(m1, w1, "heap", "buffer")
    BY SettingStart
<1>2. genTryFromInvite(m) = CompileMessage(m4)
    BY DEF genTryFromInvite, SetHeadSipReply
<1> HIDE DEF m1
<1>3. Draft(m2, w1, "heap", "buffer")
    <2> HIDE DEF w1
    <2>1. "Contact" \in OtherHeaders /\ Draft(m1, w1, "heap", "buffer")
        BY <1>1 DEF OtherHeaders, Written
    <2> QED
        BY <2>1, Dropping
<1> HIDE DEF m2
<1>4. Written(m3, w2, "heap", "purged")
    BY <1>3, ReplyFromRequest
<1> HIDE DEF m3, w2
<1>5. Written(m4, w2, "heap", "purged")
    <2>1. Draft(m3, w2, "heap", "purged") /\ m3.status = 2
        BY <1>4 DEF Written
    <2>2. Draft(m4, w2, "heap", "purged") /\ m4.status = m3.status
        BY <2>1, AddressDraft
    <2> QED
        BY <2>1, <2>2 DEF Written
<1> HIDE DEF m4
<1>6. Stored(CompileMessage(m4), w2)
    BY <1>5, Compiled
<1> QED
    BY <1>2, <1>6 DEF w2

\* SIPUTIL::genQuickReplyFromInvite: the 200 to a BYE.
LEMMA QuickReplyFromInvite ==
    ASSUME NEW m, NEW s, NEW f, NEW t, NEW i, NEW c, NEW v, NEW b,
           Draft(m, Letter(s, f, t, i, c, v, b), "buffer", "buffer"), NEW code
    PROVE  Stored(genQuickReplyFromInvite(m, code),
                  Letter([reply |-> code], f, t, i, c, v, <<>>))
<1> DEFINE m1 == SetFirstLine(m, [reply |-> code])
           m2 == DropHeader(m1, "Contact")
           m3 == genASideReplyFromRequest(m2)
           w1 == Letter([reply |-> code], f, t, i, c, v, b)
           w2 == Letter([reply |-> code], f, t, i, c, v, <<>>)
<1>1. Written(m1, w1, "heap", "buffer")
    BY SettingStart
<1>2. genQuickReplyFromInvite(m, code) = CompileMessage(m3)
    BY DEF genQuickReplyFromInvite, SetHeadSipReply
<1> HIDE DEF m1
<1>3. Draft(m2, w1, "heap", "buffer")
    <2> HIDE DEF w1
    <2>1. "Contact" \in OtherHeaders /\ Draft(m1, w1, "heap", "buffer")
        BY <1>1 DEF OtherHeaders, Written
    <2> QED
        BY <2>1, Dropping
<1> HIDE DEF m2
<1>4. Written(m3, w2, "heap", "purged")
    BY <1>3, ReplyFromRequest
<1> HIDE DEF m3, w2
<1>5. Stored(CompileMessage(m3), w2)
    BY <1>4, Compiled
<1> QED
    BY <1>2, <1>5 DEF w2

\* A's INVITE has a tag for To, the text that stands for "no such property".
LEMMA ReplyFromBReply ==
    ASSUME NEW m, NEW s, NEW f, NEW t, NEW i, NEW c, NEW v, NEW b, NEW sdp,
           Draft(m, Letter(s, f, t, i, c, v, b), "buffer", sdp),
           NEW reply, NEW invite, NEW code, GetHeadSipReply(reply) = [reply |-> code],
           GetToTag(FillIn(invite)) # Absent
    PROVE  Written(genASideReplyFromBReply(reply, invite, m),
                   Letter([reply |-> code], f,
                          [t EXCEPT !["tag"] = GetToTag(FillIn(invite))], i, c, v, b),
                   "heap", sdp)
<1> DEFINE tag == GetToTag(FillIn(invite))
           to == [t EXCEPT !["tag"] = tag]
           m1 == SetProperty(m, "To", "tag", tag)
           m2 == SetGenericHeader(m1, "Contact", SipslContact)
           m3 == SetFirstLine(m2, [reply |-> code])
           m4 == DropHeader(DropHeader(DropHeader(m3, "User-Agent"), "Max-Forwards"), "Allow")
           m5 == DropHeader(DropHeader(m4, "Route"), "Date")
           w1 == Letter(s, f, to, i, c, v, b)
           w2 == Letter([reply |-> code], f, to, i, c, v, b)
<1>1. genASideReplyFromBReply(reply, invite, m) = m5
    <2>1. GetHeadSipReply(reply).reply = code
        OBVIOUS
    <2> QED
        BY <2>1 DEF genASideReplyFromBReply, SetHeadSipReply
<1> HIDE DEF tag
<1>2. Written(m1, w1, "buffer", sdp)
    BY SettingTag
<1> HIDE DEF m1
<1>3. Written(m2, w1, "buffer", sdp)
    <2> HIDE DEF w1
    <2>1. "Contact" \in OtherHeaders /\ Draft(m1, w1, "buffer", sdp)
        BY <1>2 DEF OtherHeaders, Written
    <2> QED
        BY <2>1, SettingOther
<1> HIDE DEF m2
<1>4. Written(m3, w2, "heap", sdp)
    <2>1. Draft(m2, w1, "buffer", sdp)
        BY <1>3 DEF Written
    <2> QED
        BY <2>1, SettingStart
<1> HIDE DEF m3, w2
<1>5. \A h \in OtherHeaders : \A r : Written(r, w2, "heap", sdp)
                                     => Written(DropHeader(r, h), w2, "heap", sdp)
    BY Dropping
<1>6. Written(m4, w2, "heap", sdp)
    BY <1>4, <1>5 DEF OtherHeaders
<1> HIDE DEF m4
<1>7. Written(m5, w2, "heap", sdp)
    BY <1>5, <1>6 DEF OtherHeaders
<1> QED
    BY <1>1, <1>7 DEF w2, to, tag

\* SIPUTIL::genBInvitefromAInvite: tag, Call-ID and Via of SIPSL, the offer of A.
LEMMA BInviteFromAInvite ==
    ASSUME NEW m, NEW s, NEW f, NEW t, NEW i, NEW c, NEW v, NEW b, NEW start,
           Draft(m, Letter(s, f, t, i, c, v, b), start, "buffer"),
           NEW invite, NEW body, HasSDP(invite), GetSDP(invite) = PayloadOf(body),
           LinesOf("sdp", body)
    PROVE  Written(genBInvitefromAInvite(invite, m),
                   Letter(s, [f EXCEPT !["tag"] = "tagOfSipsl"], t, callId_Y, c,
                          OnTop(SipslVia("invite"), v), body), start, "heap")
<1> DEFINE stack == OnTop(SipslVia("invite"), v)
           from == [f EXCEPT !["tag"] = "tagOfSipsl"]
           m1 == PushNewVia(PopVia(m), SipslVia("invite"))
           m2 == SetGenericHeader(m1, "Call-ID", callId_Y)
           m3 == SetGenericHeader(m2, "Contact", SipslContact)
           m4 == SetProperty(m3, "From", "tag", "tagOfSipsl")
           m5 == PurgeSDP(m4)
           m6 == SetSDP(m5, PayloadOf(body))
           w3 == Letter(s, f, t, callId_Y, c, stack, b)
<1>1. genBInvitefromAInvite(invite, m) = m6
    BY DEF genBInvitefromAInvite
<1>2. Written(m1, Letter(s, f, t, i, c, stack, b), start, "buffer")
    BY SettingVia
<1> HIDE DEF m1
<1>3. Written(m2, w3, start, "buffer")
    <2>1. Draft(m1, Letter(s, f, t, i, c, stack, b), start, "buffer")
        BY <1>2 DEF Written
    <2> HIDE DEF stack
    <2> QED
        BY <2>1, SettingHeader
<1> HIDE DEF m2, stack
<1>4. Written(m3, w3, start, "buffer")
    <2> HIDE DEF w3
    <2>1. "Contact" \in OtherHeaders /\ Draft(m2, w3, start, "buffer")
        BY <1>3 DEF OtherHeaders, Written
    <2> QED
        BY <2>1, SettingOther
<1> HIDE DEF m3
<1>5. Written(m4, Letter(s, from, t, callId_Y, c, stack, b), start, "buffer")
    <2>1. Draft(m3, w3, start, "buffer")
        BY <1>4 DEF Written
    <2> QED
        BY <2>1, SettingTag
<1> HIDE DEF m4, from
<1>6. Written(m5, Letter(s, from, t, callId_Y, c, stack, <<>>), start, "purged")
    <2>1. Draft(m4, Letter(s, from, t, callId_Y, c, stack, b), start, "buffer")
        BY <1>5 DEF Written
    <2> QED
        BY <2>1, SettingPayload
<1> HIDE DEF m5
<1>7. Written(m6, Letter(s, from, t, callId_Y, c, stack, body), start, "heap")
    <2>1. ASSUME NEW e, Draft(m5, Letter(s, from, t, callId_Y, c, stack, e), start, "purged")
          PROVE  Written(m6, Letter(s, from, t, callId_Y, c, stack, body), start, "heap")
        BY <2>1, SettingPayload
    <2>2. Draft(m5, Letter(s, from, t, callId_Y, c, stack, <<>>), start, "purged")
        BY <1>6 DEF Written
    <2> QED
        BY <2>1, <2>2
<1> QED
    BY <1>1, <1>7 DEF from, stack

\* VALO::onInvite, for whatever the INVITE of A says.
LEMMA OnInvite ==
    ASSUME NEW m2alo, NEW s, NEW f, NEW t, NEW i, NEW c, NEW v, NEW b,
           TextSays(m2alo.text, Letter(s, f, t, i, c, v, b)),
           NEW invite_a, HasSDP(invite_a), GetSDP(invite_a) = PayloadOf(b),
           LinesOf("sdp", b), NEW number
    PROVE  Stored(onInvite(m2alo, invite_a, number),
                  Letter(s, [f EXCEPT !["tag"] = "tagOfSipsl"], t, callId_Y,
                         CSeq(number, "INVITE"), OnTop(SipslVia("invite"), v), b))
<1> DEFINE m1 == Copy(m2alo)
           m2 == DropHeader(m1, "Route")
           m3 == SetGenericHeader(m2, "CSeq", CSeq(number, "INVITE"))
           m4 == genBInvitefromAInvite(invite_a, m3)
           w == Letter(s, f, t, i, c, v, b)
           x == Letter(s, [f EXCEPT !["tag"] = "tagOfSipsl"], t, callId_Y,
                       CSeq(number, "INVITE"), OnTop(SipslVia("invite"), v), b)
<1>1. onInvite(m2alo, invite_a, number) = CompileMessage(m4)
    BY DEF onInvite
<1>2. Draft(m2, w, "buffer", "buffer")
    <2> HIDE DEF w
    <2>1. TextSays(m2alo.text, w)
        BY DEF w
    <2>2. Draft(m1, w, "buffer", "buffer")
        BY <2>1, CopyFacts
    <2> HIDE DEF m1
    <2>3. "Route" \in OtherHeaders
        BY DEF OtherHeaders
    <2> QED
        BY <2>2, <2>3, Dropping
<1> HIDE DEF m2
<1>3. Draft(m3, Letter(s, f, t, i, CSeq(number, "INVITE"), v, b), "buffer", "buffer")
    BY <1>2, SettingHeader DEF Written
<1> HIDE DEF m3
<1>4. Written(m4, x, "buffer", "heap")
    BY <1>3, BInviteFromAInvite
<1> HIDE DEF m4, x
<1>5. Stored(CompileMessage(m4), x)
    BY <1>4, Compiled
<1> QED
    BY <1>1, <1>5 DEF x

\* The request on the side of B: what is remembered of the 200 OK tells its target,
\* To and From.
LEMMA OnAck ==
    ASSUME NEW ack, NEW s, NEW f, NEW t, NEW i, NEW c, NEW v, NEW b,
           TextSays(ack.text, Letter(s, f, t, i, c, v, b)), GetHeadCSeq(ack).method = "ACK",
           NEW uri, ctxt_store["ContactB"].uri = uri,
           NEW to, ctxt_store["tohead_200ok_b"] = to,
           NEW from, ctxt_store["fromhead_200ok_b"] = from,
           NEW number, ctxt_store["CSeqB2BINVITE"].number = number
    PROVE  Stored(onAck(ack),
                  Letter([request |-> "ACK", uri |-> uri], from, to, callId_Y,
                         CSeq(number, "ACK"), OnTop(SipslVia("ack"), v), <<>>))
<1> DEFINE m0 == DropHeader(Copy(ack), "Route")
           m1 == Routed(m0)
           m2 == SetFirstLine(m1, [request |-> "ACK", uri |-> uri])
           m3 == PurgeSDP(m2)
           m4 == SetGenericHeader(m3, "To", to)
           m5 == SetGenericHeader(m4, "From", from)
           m6 == SetGenericHeader(m5, "Call-ID", callId_Y)
           m7 == SetGenericHeader(m6, "CSeq", CSeq(number, "ACK"))
           m8 == PushNewVia(PopVia(m7), SipslVia("ack"))
           w == Letter(s, f, t, i, c, v, b)
           line == [request |-> "ACK", uri |-> uri]
           cs == CSeq(number, "ACK")
           x == Letter(line, from, to, callId_Y, cs, OnTop(SipslVia("ack"), v), <<>>)
<1>1. onAck(ack) = CompileMessage(m8)
    BY DEF onAck, SetHeadSipRequest
<1>2. Draft(m0, w, "buffer", "buffer")
    <2> HIDE DEF w
    <2>1. TextSays(ack.text, w)
        BY DEF w
    <2>2. Draft(Copy(ack), w, "buffer", "buffer")
        BY <2>1, CopyFacts
    <2>3. "Route" \in OtherHeaders
        BY DEF OtherHeaders
    <2> QED
        BY <2>2, <2>3, Dropping
<1> HIDE DEF m0
<1>3. Draft(m1, w, "buffer", "buffer")
    <2> HIDE DEF w
    <2> QED
        BY <1>2, AddressDraft DEF Routed
<1> HIDE DEF m1, line, cs
<1>4. Draft(m2, Letter(line, f, t, i, c, v, b), "heap", "buffer")
    BY <1>3, SettingStart DEF Written, line
<1> HIDE DEF m2
<1>5. Draft(m3, Letter(line, f, t, i, c, v, <<>>), "heap", "purged")
    BY <1>4, SettingPayload DEF Written
<1> HIDE DEF m3
<1>6. ASSUME NEW e, Draft(m3, Letter(line, f, t, i, c, v, e), "heap", "purged")
      PROVE  Written(m8, Letter(line, from, to, callId_Y, cs, OnTop(SipslVia("ack"), v), e),
                     "heap", "purged")
    <2>1. Draft(m4, Letter(line, f, to, i, c, v, e), "heap", "purged")
        BY <1>6, SettingHeader DEF Written
    <2> HIDE DEF m4
    <2>2. Draft(m5, Letter(line, from, to, i, c, v, e), "heap", "purged")
        BY <2>1, SettingHeader DEF Written
    <2> HIDE DEF m5
    <2>3. Draft(m6, Letter(line, from, to, callId_Y, c, v, e), "heap", "purged")
        BY <2>2, SettingHeader DEF Written
    <2> HIDE DEF m6
    <2>4. Draft(m7, Letter(line, from, to, callId_Y, cs, v, e), "heap", "purged")
        BY <2>3, SettingHeader DEF Written, cs
    <2> HIDE DEF m7
    <2> QED
        BY <2>4, SettingVia
<1> HIDE DEF m8
<1>7. Written(m8, x, "heap", "purged")
    BY <1>5, <1>6
<1> HIDE DEF x
<1>8. Stored(CompileMessage(m8), x)
    BY <1>7, Compiled
<1> QED
    BY <1>1, <1>8 DEF x, line, cs

\* VALO::onBye, from A to B: with what is remembered of the 200 of B.
LEMMA OnByeFwd ==
    ASSUME NEW by, NEW s, NEW f, NEW t, NEW i, NEW c, NEW v, NEW b,
           TextSays(by.text, Letter(s, f, t, i, c, v, b)),
           NEW uri, ctxt_store["ContactB"].uri = uri,
           NEW to, ctxt_store["tohead_200ok_b"] = to,
           NEW from, ctxt_store["fromhead_200ok_b"] = from,
           NEW number
    PROVE  Stored(onByeFwd(by, number),
                  Letter([request |-> "BYE", uri |-> uri], from, to, callId_Y,
                         CSeq(number, "BYE"), OnTop(SipslVia("byeFwd"), v), b))
<1> DEFINE m0 == Copy(by)
           m1 == Routed(m0)
           m2 == SetFirstLine(m1, [request |-> "BYE", uri |-> uri])
           m3 == PushNewVia(PopVia(m2), SipslVia("byeFwd"))
           m4 == SetGenericHeader(m3, "CSeq", CSeq(number, "BYE"))
           m5 == SetGenericHeader(m4, "To", to)
           m6 == SetGenericHeader(m5, "From", from)
           m7 == SetGenericHeader(m6, "Call-ID", callId_Y)
           w == Letter(s, f, t, i, c, v, b)
           line == [request |-> "BYE", uri |-> uri]
           cs == CSeq(number, "BYE")
           stack == OnTop(SipslVia("byeFwd"), v)
           x == Letter(line, from, to, callId_Y, cs, stack, b)
<1>1. onByeFwd(by, number) = CompileMessage(m7)
    BY DEF onByeFwd, SetHeadSipRequest
<1>2. Draft(m0, w, "buffer", "buffer")
    <2> HIDE DEF w
    <2>1. TextSays(by.text, w)
        BY DEF w
    <2> QED
        BY <2>1, CopyFacts
<1> HIDE DEF m0
<1>3. Draft(m1, w, "buffer", "buffer")
    <2> HIDE DEF w
    <2> QED
        BY <1>2, AddressDraft DEF Routed
<1> HIDE DEF m1, line, cs
<1>4. Draft(m2, Letter(line, f, t, i, c, v, b), "heap", "buffer")
    BY <1>3, SettingStart DEF Written, line
<1> HIDE DEF m2
<1>5. Draft(m3, Letter(line, f, t, i, c, stack, b), "heap", "buffer")
    BY <1>4, SettingVia DEF Written
<1> HIDE DEF m3, stack
<1>6. Draft(m4, Letter(line, f, t, i, cs, stack, b), "heap", "buffer")
    BY <1>5, SettingHeader DEF Written, cs
<1> HIDE DEF m4
<1>7. Draft(m5, Letter(line, f, to, i, cs, stack, b), "heap", "buffer")
    BY <1>6, SettingHeader DEF Written
<1> HIDE DEF m5
<1>8. Draft(m6, Letter(line, from, to, i, cs, stack, b), "heap", "buffer")
    BY <1>7, SettingHeader DEF Written
<1> HIDE DEF m6
<1>9. Written(m7, x, "heap", "buffer")
    BY <1>8, SettingHeader
<1> HIDE DEF m7, x
<1>10. Stored(CompileMessage(m7), x)
    BY <1>9, Compiled
<1> QED
    BY <1>1, <1>10 DEF x, line, cs, stack

\* The request on the side of A.
LEMMA OnByeBkwd ==
    ASSUME NEW by, NEW s, NEW f, NEW t, NEW i, NEW c, NEW v, NEW b,
           TextSays(by.text, Letter(s, f, t, i, c, v, b)),
           NEW invite_a, NEW uri, GetViaLine(FillIn(invite_a)).host = uri,
           NEW to, ctxt_store["fromhead_200ok_a"] = to,
           NEW from, ctxt_store["tohead_200ok_a"] = from,
           NEW number, sequence["INVITE_A"] = number
    PROVE  Stored(onByeBkwd(by, invite_a),
                  Letter([request |-> "BYE", uri |-> uri], from, to, callId_X,
                         CSeq(number, "BYE"), OnTop(SipslVia("byeBkwd"), v), b))
<1> DEFINE m0 == Copy(by)
           m1 == SetNatTraversal(m0, invite_a.echo)
           m2 == SetFirstLine(m1, [request |-> "BYE", uri |-> uri])
           m3 == PushNewVia(PopVia(m2), SipslVia("byeBkwd"))
           m4 == SetGenericHeader(m3, "CSeq", CSeq(number, "BYE"))
           m5 == SetGenericHeader(m4, "To", to)
           m6 == SetGenericHeader(m5, "From", from)
           m7 == SetGenericHeader(m6, "Call-ID", callId_X)
           w == Letter(s, f, t, i, c, v, b)
           line == [request |-> "BYE", uri |-> uri]
           cs == CSeq(number, "BYE")
           stack == OnTop(SipslVia("byeBkwd"), v)
           x == Letter(line, from, to, callId_X, cs, stack, b)
<1>1. onByeBkwd(by, invite_a) = CompileMessage(m7)
    BY DEF onByeBkwd, SetHeadSipRequest
<1>2. Draft(m0, w, "buffer", "buffer")
    <2> HIDE DEF w
    <2>1. TextSays(by.text, w)
        BY DEF w
    <2> QED
        BY <2>1, CopyFacts
<1> HIDE DEF m0
<1>3. Draft(m1, w, "buffer", "buffer")
    <2> HIDE DEF w
    <2> QED
        BY <1>2, AddressDraft
<1> HIDE DEF m1, line, cs
<1>4. Draft(m2, Letter(line, f, t, i, c, v, b), "heap", "buffer")
    BY <1>3, SettingStart DEF Written, line
<1> HIDE DEF m2
<1>5. Draft(m3, Letter(line, f, t, i, c, stack, b), "heap", "buffer")
    BY <1>4, SettingVia DEF Written
<1> HIDE DEF m3, stack
<1>6. Draft(m4, Letter(line, f, t, i, cs, stack, b), "heap", "buffer")
    BY <1>5, SettingHeader DEF Written, cs
<1> HIDE DEF m4
<1>7. Draft(m5, Letter(line, f, to, i, cs, stack, b), "heap", "buffer")
    BY <1>6, SettingHeader DEF Written
<1> HIDE DEF m5
<1>8. Draft(m6, Letter(line, from, to, i, cs, stack, b), "heap", "buffer")
    BY <1>7, SettingHeader DEF Written
<1> HIDE DEF m6
<1>9. Written(m7, x, "heap", "buffer")
    BY <1>8, SettingHeader
<1> HIDE DEF m7, x
<1>10. Stored(CompileMessage(m7), x)
    BY <1>9, Compiled
<1> QED
    BY <1>1, <1>10 DEF x, line, cs, stack

\* VALO::on200Ok: A's INVITE turned into the reply, with the payload of B.
LEMMA On200Ok ==
    ASSUME NEW invite_a, NEW s, NEW f, NEW t, NEW i, NEW c, NEW v, NEW b,
           Stored(invite_a, Letter(s, f, t, i, c, v, b)),
           NEW reply, NEW code, GetHeadSipReply(reply) = [reply |-> code],
           NEW body, LinesOf("sdp", body), GetSDP(reply) = PayloadOf(body),
           GetToTag(FillIn(invite_a)) # Absent
    PROVE  LET r == on200Ok(reply, invite_a)
           IN  Open(r, Letter([reply |-> code], f,
                              [t EXCEPT !["tag"] = GetToTag(FillIn(invite_a))], i, c, v, body))
<1> DEFINE m0 == Copy(invite_a)
           m1 == PurgeSDP(m0)
           m2 == SetSDP(m1, PayloadOf(body))
           m3 == SetGenericHeader(m2, "Contact", SipslContact)
           m4 == genASideReplyFromBReply(reply, invite_a, m3)
           w == Letter(s, f, t, i, c, v, b)
           w1 == Letter(s, f, t, i, c, v, body)
           x == Letter([reply |-> code], f,
                       [t EXCEPT !["tag"] = GetToTag(FillIn(invite_a))], i, c, v, body)
<1>1. Draft(m0, w, "buffer", "buffer")
    <2> HIDE DEF w
    <2>1. Stored(invite_a, w)
        BY DEF w
    <2> QED
        BY <2>1, StoredFacts, CopyFacts
<1>2. HasSDP(m0)
    BY <1>1 DEF Draft, HasSDP
<1>3. on200Ok(reply, invite_a) = FillIn(CompileMessage(m4))
    BY <1>2 DEF on200Ok
<1> HIDE DEF m0
<1>4. Draft(m1, Letter(s, f, t, i, c, v, <<>>), "buffer", "purged")
    BY <1>1, SettingPayload DEF Written
<1> HIDE DEF m1
<1>5. Draft(m2, w1, "buffer", "heap")
    <2>1. ASSUME NEW e, Draft(m1, Letter(s, f, t, i, c, v, e), "buffer", "purged")
          PROVE  Draft(m2, w1, "buffer", "heap")
        BY <2>1, SettingPayload DEF Written
    <2> QED
        BY <1>4, <2>1
<1> HIDE DEF m2
<1>6. Draft(m3, w1, "buffer", "heap")
    <2> HIDE DEF w1
    <2>1. "Contact" \in OtherHeaders
        BY DEF OtherHeaders
    <2> QED
        BY <1>5, <2>1, SettingOther DEF Written
<1> HIDE DEF m3
<1>7. Written(m4, x, "heap", "heap")
    BY <1>6, ReplyFromBReply
<1> HIDE DEF m4, x
<1>8. Stored(CompileMessage(m4), x)
    BY <1>7, Compiled
<1>9. Open(FillIn(CompileMessage(m4)), x)
    BY <1>8, FillInStored
<1> QED
    BY <1>3, <1>9 DEF x

\* act_provrep_to_sv: the reply without a payload.
LEMMA OnProvReply ==
    ASSUME NEW invite_a, NEW s, NEW f, NEW t, NEW i, NEW c, NEW v, NEW b,
           Stored(invite_a, Letter(s, f, t, i, c, v, b)),
           NEW reply, NEW code, GetHeadSipReply(reply) = [reply |-> code],
           GetToTag(FillIn(invite_a)) # Absent
    PROVE  LET r == CompileMessage(PurgeSDP(genASideReplyFromBReply(reply, invite_a,
                                                                    Copy(invite_a))))
           IN  Stored(r, Letter([reply |-> code], f,
                                [t EXCEPT !["tag"] = GetToTag(FillIn(invite_a))],
                                i, c, v, <<>>))
<1> DEFINE m0 == Copy(invite_a)
           m1 == genASideReplyFromBReply(reply, invite_a, m0)
           m2 == PurgeSDP(m1)
           w == Letter(s, f, t, i, c, v, b)
           to == [t EXCEPT !["tag"] = GetToTag(FillIn(invite_a))]
           x == Letter([reply |-> code], f, to, i, c, v, <<>>)
<1>1. Draft(m0, w, "buffer", "buffer")
    <2> HIDE DEF w
    <2>1. Stored(invite_a, w)
        BY DEF w
    <2> QED
        BY <2>1, StoredFacts, CopyFacts
<1> HIDE DEF m0
<1>2. Draft(m1, Letter([reply |-> code], f, to, i, c, v, b), "heap", "buffer")
    BY <1>1, ReplyFromBReply DEF Written
<1> HIDE DEF m1, to
<1>3. Written(m2, x, "heap", "purged")
    BY <1>2, SettingPayload
<1> HIDE DEF m2, x
<1>4. Stored(CompileMessage(m2), x)
    BY <1>3, Compiled
<1> QED
    BY <1>4 DEF m0, m1, m2, x, to

\* act_send_servunav_to_a: the code of a stored reply is changed.
LEMMA OnRepeatedInvite ==
    ASSUME NEW stored, NEW s, NEW f, NEW t, NEW i, NEW c, NEW v, NEW b,
           Stored(stored, Letter(s, f, t, i, c, v, b)), NEW code
    PROVE  LET r == CompileMessage(SetHeadSipReply(Copy(stored), code))
           IN  Stored(r, Letter([reply |-> code], f, t, i, c, v, b))
<1> DEFINE m0 == Copy(stored)
           m1 == SetFirstLine(m0, [reply |-> code])
           w == Letter(s, f, t, i, c, v, b)
           x == Letter([reply |-> code], f, t, i, c, v, b)
<1>1. Draft(m0, w, "buffer", "buffer")
    <2> HIDE DEF w
    <2>1. Stored(stored, w)
        BY DEF w
    <2> QED
        BY <2>1, StoredFacts, CopyFacts
<1> HIDE DEF m0
<1>2. Written(m1, x, "heap", "buffer")
    BY <1>1, SettingStart
<1> HIDE DEF m1, x
<1>3. Stored(CompileMessage(m1), x)
    BY <1>2, Compiled
<1> QED
    BY <1>3 DEF m0, m1, x, SetHeadSipReply

---------------------------------------------------------------------------
(* Handling and sending. *)

\* SUDP, SIPENGINE, SL_CC and SL_CO look at a message and change nothing,
LEMMA HandledFacts ==
    ASSUME NEW m, NEW w, Stored(m, w)
    PROVE  LET r == Handled(m)
           IN  Open(r, w) /\ SameMessage(r, m)
<1> DEFINE r == ReadModulus(m)
           fields == {"reqRep", "callId", "cSeq", "branch"}
<1>1. Open(r, w) /\ SameMessage(r, m)
    BY ReadModulusStored
<1> HIDE DEF r
<1>2. fields \subseteq Parsed
    BY DEF Parsed
<1> HIDE DEF fields
<1>3. Open(Read(r, fields), w) /\ SameMessage(Read(r, fields), r)
    BY <1>1, <1>2, ReadStored DEF Open
<1> QED
    BY <1>1, <1>3 DEF Handled, r, fields, SameMessage

\* and neither does TRNSPRT.
LEMMA ReadyFacts ==
    ASSUME NEW m, NEW w, Stored(m, w)
    PROVE  LET r == Ready(m)
           IN  Open(r, w) /\ SameMessage(r, m)
<1> DEFINE r == ReadModulus(m)
           typed == Read(r, {"reqRep"})
<1>1. Open(r, w) /\ SameMessage(r, m)
    BY ReadModulusStored
<1>2. Ready(m) = typed \/ Ready(m) = Read(typed, {"headTo"})
    BY DEF Ready
<1> HIDE DEF r
<1>3. {"reqRep"} \subseteq Parsed /\ {"headTo"} \subseteq Parsed
    BY DEF Parsed
<1>4. Open(typed, w) /\ SameMessage(typed, r)
    BY <1>1, <1>3, ReadStored DEF Open
<1> HIDE DEF typed
<1>5. Open(Read(typed, {"headTo"}), w) /\ SameMessage(Read(typed, {"headTo"}), typed)
    BY <1>3, <1>4, ReadStored DEF Open
<1> QED
    BY <1>1, <1>2, <1>4, <1>5 DEF SameMessage, r

\* The text that stands for a missing property is not the empty one.
LEMMA AbsentFacts == NotFound # Absent
    BY Zenon DEF NotFound, Absent

\* What is sent, and to whom a reply is.
LEMMA SendFacts ==
    ASSUME NEW m, NEW w, Stored(m, w), NEW side
    PROVE  LET d == Send(m, side)
           IN  /\ d = [side |-> side, text |-> m.text, to |-> d.to]
               /\ TextSays(d.text, w)
               /\ "reply" \in DOMAIN w["start"] /\ "received" \notin DOMAIN w["Via"][1].v
                      => d.to = w["Via"][1].v.host
<1> DEFINE r == Ready(m)
           to == IF "reply" \in DOMAIN GetHeadSipReply(r) THEN ReplyGoesTo(r)
                 ELSE RequestGoesTo(r)
<1>1. Open(r, w) /\ SameMessage(r, m)
    BY ReadyFacts
<1>2. Send(m, side) = [side |-> side, text |-> r.text, to |-> to]
    BY DEF Send
<1> HIDE DEF r
<1>3. GetHeadSipReply(r) = w["start"] /\ GetViaLine(r) = w["Via"][1].v
    BY <1>1, OpenGetters
<1>4. GetProperty(r, "Via", "received") =
          (IF PropertyIn(w["Via"][1].v, "received") # NotFound
           THEN PropertyIn(w["Via"][1].v, "received") ELSE Absent)
    BY <1>1, OpenGetters
<1>5. r.text = m.text
    BY <1>1 DEF SameMessage
<1>6. TextSays(m.text, w)
    BY StoredFacts
<1>7. ASSUME "received" \notin DOMAIN w["Via"][1].v
      PROVE  ReplyGoesTo(r) = w["Via"][1].v.host
    <2>1. GetProperty(r, "Via", "received") = Absent
        BY <1>4, <1>7 DEF PropertyIn
    <2> QED
        BY <1>3, <2>1 DEF ReplyGoesTo
<1> QED
    BY <1>2, <1>3, <1>5, <1>6, <1>7

---------------------------------------------------------------------------
(* What A and B send. *)

\* Which headers the letter does not have.
LEMMA OtherNames ==
    /\ NoHeader \notin Named \cup {"Contact", "Max-Forwards", "Route", "Content-Type"}
    /\ \A h \in {"start", "Via", "Content-Length"} :
           h \notin Named \cup {"Contact", "Max-Forwards", "Route", "Content-Type"}
    /\ "Contact" \notin Named
<1>1. NoHeader \notin {"Contact", "Max-Forwards", "Route", "Content-Type"}
    BY Zenon DEF NoHeader, Absent
<1> QED
    BY <1>1, NoHeaderFacts DEF Named

\* The lines of a dialog, in a text of A or B.
DialogLines(from, to, id, cseq, contact) ==
    <<Line("From", from), Line("To", to), Line("Call-ID", id), Line("CSeq", cseq),
      Line("Contact", contact)>>

\* What lines say beside the start line, the Vias and the payload.
LinesTell(lines, from, to, id, cseq, contact) ==
    /\ IsSeq(lines)
    /\ One(lines, "From", from) /\ One(lines, "To", to)
    /\ One(lines, "Call-ID", id) /\ One(lines, "CSeq", cseq)
    /\ One(lines, "Contact", contact)
    /\ None(lines, "start") /\ None(lines, "Via") /\ None(lines, NoHeader)
    /\ None(lines, "Content-Length")

\* The lines of a dialog say their values, and nothing else.
LEMMA DialogLinesTell ==
    ASSUME NEW from, NEW to, NEW id, NEW cseq, NEW contact
    PROVE  LinesTell(DialogLines(from, to, id, cseq, contact), from, to, id, cseq, contact)
<1> DEFINE x == DialogLines(from, to, id, cseq, contact)
<1>1. x = [k \in 1..5 |-> x[k]]
    BY DEF DialogLines
<1>2. /\ x[1].h = "From" /\ x[1].v = from /\ x[2].h = "To" /\ x[2].v = to
      /\ x[3].h = "Call-ID" /\ x[3].v = id /\ x[4].h = "CSeq" /\ x[4].v = cseq
      /\ x[5].h = "Contact" /\ x[5].v = contact
    BY DEF DialogLines, Line
<1> HIDE DEF x
<1>3. IsSeq(x) /\ DOMAIN x = {1, 2, 3, 4, 5}
    <2>1. IsSeq(x) /\ DOMAIN x = 1..5
        BY <1>1, SeqIntro
    <2> QED
        BY <2>1
<1>4. /\ Positions(x, "From") = {1} /\ Positions(x, "To") = {2}
      /\ Positions(x, "Call-ID") = {3} /\ Positions(x, "CSeq") = {4}
      /\ Positions(x, "Contact") = {5}
    BY <1>2, <1>3 DEF Positions
<1>5. /\ One(x, "From", from) /\ One(x, "To", to) /\ One(x, "Call-ID", id)
      /\ One(x, "CSeq", cseq) /\ One(x, "Contact", contact)
    BY <1>2, <1>3, <1>4 DEF One
<1>6. \A h \in {"start", "Via", "Content-Length", NoHeader} : None(x, h)
    <2>1. \A h \in {"start", "Via", "Content-Length", NoHeader} : h \notin Named \cup {"Contact"}
        BY OtherNames
    <2>2. \A h : h \notin Named \cup {"Contact"} => None(x, h)
        BY <1>2, <1>3 DEF None, Positions, Named
    <2> QED
        BY <2>1, <2>2
<1> QED
    BY <1>3, <1>5, <1>6 DEF LinesTell, x

\* A line of another header, before or after, changes nothing.
LEMMA MoreLines ==
    ASSUME NEW lines, NEW from, NEW to, NEW id, NEW cseq, NEW contact,
           LinesTell(lines, from, to, id, cseq, contact),
           NEW h \in {"Max-Forwards", "Route"}, NEW v
    PROVE  /\ LinesTell(lines \o <<Line(h, v)>>, from, to, id, cseq, contact)
           /\ LinesTell(<<Line(h, v)>> \o lines, from, to, id, cseq, contact)
<1> DEFINE l == <<Line(h, v)>>
<1>1. IsSeq(l) /\ \A x : x # h => None(l, x)
    <2>1. Line(h, v).h = h
        BY DEF Line
    <2> QED
        BY <2>1, OneLine
<1>2. \A x \in Named \cup {"Contact", "start", "Via", NoHeader, "Content-Length"} : None(l, x)
    <2>1. h \notin Named \cup {"Contact"}
        BY DEF Named
    <2>2. h \notin {"start", "Via", NoHeader, "Content-Length"}
        BY OtherNames
    <2> QED
        BY <1>1, <2>1, <2>2
<1> HIDE DEF l
<1>3. IsSeq(lines) /\ IsSeq(lines \o l) /\ IsSeq(l \o lines)
    BY <1>1, ConcatFacts DEF LinesTell
<1>4. ASSUME NEW x \in Named \cup {"Contact", "start", "Via", NoHeader, "Content-Length"}
      PROVE  /\ \A y : One(lines, x, y) => One(lines \o l, x, y) /\ One(l \o lines, x, y)
             /\ None(lines, x) => None(lines \o l, x) /\ None(l \o lines, x)
    <2>1. None(l, x)
        BY <1>2
    <2> QED
        BY <1>1, <1>3, <2>1, ConcatOne
<1>5. LinesTell(lines \o l, from, to, id, cseq, contact)
    BY <1>3, <1>4 DEF LinesTell, Named
<1>6. LinesTell(l \o lines, from, to, id, cseq, contact)
    BY <1>3, <1>4 DEF LinesTell, Named
<1> QED
    BY <1>5, <1>6 DEF l

\* The payload with the headers that describe it.
LEMMA WithPayloadFacts ==
    ASSUME NEW body, LinesOf("sdp", body)
    PROVE  \E c : /\ IsSeq(c) /\ One(c, "Content-Length", Measured(body))
                  /\ \A h : h \notin {"Content-Length", "Content-Type"} => None(c, h)
                  /\ WithPayload(body) = c \o PayloadOf(body)
<1> DEFINE c == IF body = <<>> THEN <<LengthLine(body)>> ELSE <<TypeLine, LengthLine(body)>>
<1>1. /\ IsSeq(c) /\ One(c, "Content-Length", Measured(body))
      /\ \A h : h \notin {"Content-Length", "Content-Type"} => None(c, h)
    BY MeasureFacts
<1>2. CASE body = <<>>
    <2>1. Len(body) = 0
        BY <1>2, EmptyFacts
    <2>2. PayloadOf(body) = <<Blank>>
        BY <1>2 DEF PayloadOf
    <2>3. WithPayload(body) = <<LengthLine(body), Blank>> /\ c = <<LengthLine(body)>>
        BY <1>2, <2>1 DEF LengthLine, Measured, WithPayload
    <2>4. \A x : <<x, Blank>> = <<x>> \o <<Blank>>
        OBVIOUS
    <2>5. WithPayload(body) = c \o PayloadOf(body)
        BY <2>2, <2>3, <2>4
    <2> HIDE DEF c
    <2> QED
        BY <1>1, <2>5
<1>3. CASE body # <<>>
    <2> DEFINE b == <<Blank>>
               S == (Range(c) \cup Range(b)) \cup Range(body)
    <2>1. WithPayload(body) = <<TypeLine, LengthLine(body), Blank>> \o body
          /\ c = <<TypeLine, LengthLine(body)>>
        BY <1>3 DEF LengthLine, Measured, TypeLine, WithPayload
    <2>2. \A x, y : <<x, y, Blank>> = <<x, y>> \o <<Blank>>
        OBVIOUS
    <2>3. WithPayload(body) = (c \o b) \o body
        BY <2>1, <2>2
    <2>4. IsSeq(b) /\ IsSeq(body)
        BY OneLine, LinesOfFacts
    <2> HIDE DEF b, c
    <2>5. c \in Seq(S) /\ b \in Seq(S) /\ body \in Seq(S)
        BY <1>1, <2>4, SeqMonotonic DEF IsSeq
    <2> HIDE DEF S
    <2>6. (c \o b) \o body = c \o (b \o body)
        BY <2>5, ConcatAssociative
    <2>7. WithPayload(body) = c \o PayloadOf(body)
        BY <2>3, <2>6 DEF PayloadOf, b
    <2> QED
        BY <1>1, <2>7
<1> QED
    BY <1>2, <1>3

\* A text of A or B: start line, Vias, lines of the dialog, payload.
LEMMA SentText ==
    ASSUME NEW s, NEW f, NEW t, NEW i, NEW c, NEW v, NEW b, NEW contact,
           LinesOf("Via", v), v # <<>>, LinesOf("sdp", b),
           NEW lines, LinesTell(lines, f, t, i, c, contact)
    PROVE  LET text == ((<<Line("start", s)>> \o v) \o lines) \o WithPayload(b)
           IN  /\ TextSays(text, Letter(s, f, t, i, c, v, b))
               /\ One(HeadOf(text), "Contact", contact)
<1> DEFINE w == Letter(s, f, t, i, c, v, b)
           a == <<Line("start", s)>>
           av == a \o v
           P == PayloadOf(b)
           text == (av \o lines) \o WithPayload(b)
<1>1. /\ w["start"] = s /\ w["From"] = f /\ w["To"] = t /\ w["Call-ID"] = i
      /\ w["CSeq"] = c /\ w["Via"] = v /\ w["sdp"] = b /\ IsLetter(w)
    BY LetterFacts
<1> HIDE DEF w
<1>2. PICK m : /\ IsSeq(m) /\ One(m, "Content-Length", Measured(b))
               /\ \A h : h \notin {"Content-Length", "Content-Type"} => None(m, h)
               /\ WithPayload(b) = m \o P
    BY WithPayloadFacts
<1>3. /\ IsSeq(a) /\ Begins(a, s) /\ \A h : h # "start" => None(a, h)
    <2>1. /\ IsSeq(a) /\ DOMAIN a = {1} /\ a[1] = Line("start", s)
          /\ \A h : h # Line("start", s).h => None(a, h)
        BY OneLine
    <2> HIDE DEF a
    <2>2. Line("start", s).h = "start" /\ Line("start", s).v = s
        BY DEF Line
    <2> QED
        BY <2>1, <2>2 DEF Begins, Positions
<1> HIDE DEF a
<1>4. IsSeq(v) /\ IsSeq(P) /\ \A h : h # "Via" => None(v, h)
    <2>1. IsSeq(v) /\ \A k \in DOMAIN v : v[k].h = "Via"
        BY LinesOfFacts
    <2> QED
        BY <2>1, PayloadFacts DEF None, Positions
<1>5. IsSeq(av) /\ IsSeq(lines)
    BY <1>3, <1>4, ConcatFacts DEF LinesTell
<1> DEFINE d == lines \o m
           head == av \o d
<1>6. IsSeq(d) /\ IsSeq(head)
    <2>1. IsSeq(d)
        BY <1>2, <1>5, ConcatFacts
    <2> HIDE DEF d, av
    <2> QED
        BY <1>5, <2>1, ConcatFacts
<1>7. text = (av \o d) \o P
    <2> DEFINE S == ((Range(av) \cup Range(lines)) \cup Range(m)) \cup Range(P)
    <2> HIDE DEF av, P
    <2>1. av \in Seq(S) /\ lines \in Seq(S) /\ m \in Seq(S) /\ P \in Seq(S)
        BY <1>2, <1>4, <1>5, SeqMonotonic DEF IsSeq
    <2> HIDE DEF S
    <2>2. /\ ((av \o lines) \o m) \o P = (av \o lines) \o (m \o P)
          /\ (av \o lines) \o m = av \o (lines \o m)
        <3>1. av \o lines \in Seq(S)
            BY <2>1, ConcatProperties
        <3>2. ASSUME NEW x \in Seq(S)
              PROVE  (x \o m) \o P = x \o (m \o P)
            BY <2>1, ConcatAssociative, SMTT(40)
        <3>3. (av \o lines) \o m = av \o (lines \o m)
            BY <2>1, ConcatAssociative, SMTT(40)
        <3> QED
            BY <3>1, <3>2, <3>3
    <2> QED
        BY <1>2, <2>2
<1>8. \A h \in Named \cup {"Contact", "start", "Via", NoHeader} : None(m, h)
    <2>1. \A h \in Named \cup {"Contact", "start", "Via", NoHeader} :
              h \notin {"Content-Length", "Content-Type"}
        BY NoHeaderFacts DEF Named
    <2> QED
        BY <1>2, <2>1
<1>9. /\ \A h \in Named : One(lines, h, w[h])
      /\ One(lines, "Contact", contact)
      /\ None(lines, "start") /\ None(lines, "Via") /\ None(lines, NoHeader)
      /\ None(lines, "Content-Length")
    BY <1>1 DEF LinesTell, Named
<1>10. /\ \A h \in Named : One(d, h, w[h])
       /\ One(d, "Contact", contact)
       /\ None(d, "start") /\ None(d, "Via") /\ None(d, NoHeader)
    BY <1>2, <1>5, <1>8, <1>9, ConcatOne
<1>11. One(d, "Content-Length", Measured(b))
    BY <1>2, <1>5, <1>9, ConcatOne
<1> HIDE DEF d
<1>12. \A h \in Named \cup {"Contact", NoHeader, "Via", "Content-Length"} : None(a, h)
    <2>1. \A h \in Named \cup {"Contact", NoHeader, "Via", "Content-Length"} : h # "start"
        BY OtherNames, NoHeaderFacts DEF Named
    <2> QED
        BY <1>3, <2>1
<1>13. TextSays(text, w)
    <2> HIDE DEF text
    <2>1. text = ((a \o v) \o d) \o PayloadOf(w["sdp"])
        BY <1>1, <1>7
    <2>2. \A h \in Named : \/ One(a, h, w[h]) /\ None(d, h)
                           \/ None(a, h) /\ One(d, h, w[h])
        BY <1>10, <1>12
    <2>3. One(d, "Content-Length", [length |-> Len(w["sdp"])])
        BY <1>1, <1>11 DEF Measured
    <2>4. v = w["Via"] /\ Begins(a, w["start"])
        BY <1>1, <1>3
    <2>5. None(a, NoHeader) /\ None(a, "Via") /\ None(a, "Content-Length")
        BY <1>12
    <2> QED
        BY <1>1, <1>3, <1>6, <1>10, <2>1, <2>2, <2>3, <2>4, <2>5, ComposedText
<1>14. HeadOf(text) = head /\ One(head, "Contact", contact)
    <2>1. None(v, NoHeader) /\ None(v, "Contact")
        BY <1>4, NoHeaderFacts
    <2>2. None(av, NoHeader) /\ None(av, "Contact")
        BY <1>3, <1>4, <1>12, <2>1, ConcatOne
    <2> HIDE DEF av
    <2>3. None(head, NoHeader) /\ One(head, "Contact", contact)
        BY <1>5, <1>6, <1>10, <2>2, ConcatOne
    <2> HIDE DEF head
    <2>4. text = head \o PayloadOf(b)
        BY <1>7 DEF head
    <2> HIDE DEF text
    <2> QED
        BY <1>6, <2>3, <2>4, SplitText
<1> QED
    BY <1>13, <1>14 DEF w, a

\* A request of A or B says what it was made of.
LEMMA RequestText ==
    ASSUME NEW method, NEW uri, NEW vias, LinesOf("Via", vias), vias # <<>>,
           NEW from, NEW to, NEW id, NEW number, NEW contact, NEW route \in BOOLEAN,
           NEW body, LinesOf("sdp", body)
    PROVE  LET t == Request(method, uri, vias, from, to, id, number, contact, route, body)
           IN  /\ TextSays(t, Letter([request |-> method, uri |-> uri], from, to, id,
                                     CSeq(number, method), vias, body))
               /\ One(HeadOf(t), "Contact", contact)
<1> DEFINE s == [request |-> method, uri |-> uri]
           start == <<Line("start", s)>>
           sv == start \o vias
           r == IF route THEN <<Line("Route", Other)>> ELSE <<>>
           cs == CSeq(number, method)
           five == DialogLines(from, to, id, cs, contact)
           last == <<Line("Max-Forwards", Other)>>
           six == five \o last
           t == Request(method, uri, vias, from, to, id, number, contact, route, body)
<1>1. t = ((sv \o r) \o six) \o WithPayload(body)
    <2>1. ASSUME NEW x1, NEW x2, NEW x3, NEW x4, NEW x5, NEW x6
          PROVE  <<x1, x2, x3, x4, x5>> \o <<x6>> = <<x1, x2, x3, x4, x5, x6>>
        <3>1. <<x1, x2, x3, x4, x5, x6>> = <<x1, x2, x3, x4, x5>> \o <<x6>>
            OBVIOUS
        <3> QED
            BY <3>1
    <2>2. six = <<Line("From", from), Line("To", to), Line("Call-ID", id), Line("CSeq", cs),
                  Line("Contact", contact), Line("Max-Forwards", Other)>>
        BY <2>1, Zenon DEF DialogLines
    <2> HIDE DEF six
    <2> QED
        BY <2>2 DEF Request
<1> HIDE DEF cs, t, s
<1>2. LinesTell(five, from, to, id, cs, contact)
    BY DialogLinesTell
<1> HIDE DEF five
<1>3. LinesTell(six, from, to, id, cs, contact)
    BY <1>2, MoreLines
<1> HIDE DEF six
<1>4. \E lines : /\ LinesTell(lines, from, to, id, cs, contact)
                 /\ (sv \o r) \o six = sv \o lines
    <2>1. IsSeq(sv) /\ IsSeq(six) /\ IsSeq(vias)
        <3>1. IsSeq(start) /\ IsSeq(vias)
            BY OneLine, LinesOfFacts
        <3> HIDE DEF start
        <3> QED
            BY <1>3, <3>1, ConcatFacts DEF LinesTell
    <2> HIDE DEF sv
    <2>2. CASE route
        <3> DEFINE l == <<Line("Route", Other)>>
                   S == (Range(sv) \cup Range(l)) \cup Range(six)
        <3>1. LinesTell(l \o six, from, to, id, cs, contact)
            BY <1>3, MoreLines
        <3>2. r = l
            BY <2>2
        <3>3. IsSeq(l)
            BY OneLine
        <3> HIDE DEF r, l
        <3>4. sv \in Seq(S) /\ l \in Seq(S) /\ six \in Seq(S)
            BY <2>1, <3>3, SeqMonotonic DEF IsSeq
        <3> HIDE DEF S
        <3>5. (sv \o l) \o six = sv \o (l \o six)
            BY <3>4, ConcatAssociative
        <3> QED
            BY <3>1, <3>2, <3>5
    <2>3. CASE ~route
        <3>1. r = <<>>
            BY <2>3
        <3>2. sv \o <<>> = sv
            BY <2>1, ConcatEmptySeq DEF IsSeq
        <3> HIDE DEF r
        <3>3. (sv \o r) \o six = sv \o six
            BY <3>1, <3>2
        <3> QED
            BY <1>3, <3>3
    <2> QED
        BY <2>2, <2>3
<1>5. PICK lines : /\ LinesTell(lines, from, to, id, cs, contact)
                   /\ (sv \o r) \o six = sv \o lines
    BY <1>4
<1>6. t = ((<<Line("start", s)>> \o vias) \o lines) \o WithPayload(body)
    BY <1>1, <1>5
<1> HIDE DEF sv, r, start
<1>7. TextSays(t, Letter(s, from, to, id, cs, vias, body)) /\ One(HeadOf(t), "Contact", contact)
    BY <1>5, <1>6, SentText
<1> QED
    BY <1>7 DEF t, s, cs

\* What a text that says a letter gives to those who read it.
LEMMA TextOf ==
    ASSUME NEW text, NEW w, TextSays(text, w)
    PROVE  /\ text[1].v = w["start"] /\ ViasOf(text) = w["Via"] /\ Payload(text) = w["sdp"]
           /\ \A h \in Named : HeaderOf(text, h) = w[h]
           /\ \A contact : One(HeadOf(text), "Contact", contact)
                               => HeaderOf(text, "Contact") = contact
<1>1. /\ Payload(text) = w["sdp"] /\ Begins(text, w["start"])
      /\ \A h \in Named : One(text, h, w[h])
      /\ With(text, {"Via"}) = w["Via"]
    BY TextFacts
<1>2. ASSUME NEW h, NEW x, One(text, h, x)
      PROVE  HeaderOf(text, h) = x
    <2>1. PICK k \in DOMAIN text : Positions(text, h) = {k} /\ text[k].v = x
        BY <1>2 DEF One
    <2>2. \A j \in DOMAIN text : text[j].h = h <=> j = k
        BY <2>1 DEF Positions
    <2>3. (CHOOSE j \in DOMAIN text : text[j].h = h) = k
        BY <2>2
    <2> QED
        BY <2>1, <2>3 DEF HeaderOf
<1>3. ASSUME NEW contact, One(HeadOf(text), "Contact", contact)
      PROVE  One(text, "Contact", contact)
    <2> DEFINE head == HeadOf(text)
               p == PayloadOf(w["sdp"])
    <2>1. text = head \o p /\ IsSeq(head) /\ LinesOf("sdp", w["sdp"])
        BY DEF TextSays, LinesSay, IsLetter
    <2>2. IsSeq(p) /\ None(p, "Contact")
        <3>1. "Contact" \notin {NoHeader, "sdp"}
            BY OtherNames
        <3> QED
            BY <2>1, <3>1, PayloadFacts
    <2> HIDE DEF head, p
    <2> QED
        BY <1>3, <2>1, <2>2, ConcatOne DEF head
<1> QED
    BY <1>1, <1>2, <1>3 DEF Begins, ViasOf

\* What is read from a text, for the seven values of its letter.
LEMMA TextGives ==
    ASSUME NEW text, NEW s, NEW f, NEW t, NEW i, NEW c, NEW v, NEW b,
           TextSays(text, Letter(s, f, t, i, c, v, b))
    PROVE  /\ text[1].v = s /\ HeaderOf(text, "From") = f /\ HeaderOf(text, "To") = t
           /\ HeaderOf(text, "Call-ID") = i /\ HeaderOf(text, "CSeq") = c
           /\ ViasOf(text) = v /\ Payload(text) = b
<1> DEFINE w == Letter(s, f, t, i, c, v, b)
<1>1. /\ w["start"] = s /\ w["From"] = f /\ w["To"] = t /\ w["Call-ID"] = i
      /\ w["CSeq"] = c /\ w["Via"] = v /\ w["sdp"] = b
    BY LetterFacts
<1>2. TextSays(text, w)
    OBVIOUS
<1> HIDE DEF w
<1> QED
    BY <1>1, <1>2, TextOf DEF Named

\* A reply of A or B says what the request said, with a tag and a payload of its own.
LEMMA ReplyText ==
    ASSUME NEW request, NEW s, NEW f, NEW t, NEW i, NEW c, NEW v, NEW b,
           TextSays(request, Letter(s, f, t, i, c, v, b)),
           NEW reply, NEW tag, NEW contact, NEW body, LinesOf("sdp", body)
    PROVE  LET x == ReplyTo(request, reply, tag, contact, body)
           IN  /\ TextSays(x, Letter([reply |-> reply], f, [t EXCEPT !["tag"] = tag], i, c, v,
                                     body))
               /\ One(HeadOf(x), "Contact", contact)
<1> DEFINE to == [t EXCEPT !["tag"] = tag]
           lines == DialogLines(f, to, i, c, contact)
           x == ReplyTo(request, reply, tag, contact, body)
           line == [reply |-> reply]
<1>1. /\ HeaderOf(request, "From") = f /\ HeaderOf(request, "To") = t
      /\ HeaderOf(request, "Call-ID") = i /\ HeaderOf(request, "CSeq") = c
      /\ ViasOf(request) = v
    BY TextGives
<1>2. x = ((<<Line("start", line)>> \o v) \o lines) \o WithPayload(body)
    BY <1>1 DEF ReplyTo, DialogLines
<1>3. LinesOf("Via", v) /\ v # <<>>
    <2>1. Letter(s, f, t, i, c, v, b)["Via"] = v
        BY LetterFacts
    <2> QED
        BY <2>1 DEF TextSays, IsLetter
<1> HIDE DEF to, x
<1>4. LinesTell(lines, f, to, i, c, contact)
    BY DialogLinesTell
<1> HIDE DEF lines, line
<1>5. TextSays(x, Letter(line, f, to, i, c, v, body)) /\ One(HeadOf(x), "Contact", contact)
    BY <1>2, <1>3, <1>4, SentText
<1> QED
    BY <1>5 DEF x, to, line

---------------------------------------------------------------------------
(* The call: what every message says that is kept, sent or heard. *)

\* The To of the replies to A's INVITE, which has no tag: SIPSL takes the text that
\* stands for "no such property" as the tag.
ToSipsl == [ToB EXCEPT !["tag"] = NotFound]
\* From and To on the side of B.
FromSipsl == [OfA EXCEPT !["tag"] = "tagOfSipsl"]
ToOfB == [ToB EXCEPT !["tag"] = "tagOfB"]

ViaOf(host, branch) == <<Line("Via", [host |-> host, branch |-> branch])>>
OfSipsl(key, vias) == OnTop(SipslVia(key), vias)
ContactOfB == [uri |-> "contactB"]

\* What A's INVITE and the replies to it say.
InviteSays(V, O) ==
    Letter([request |-> "INVITE", uri |-> "b"], OfA, ToB, callId_X, CSeq(7, "INVITE"), V, O)
ReplySays(code, to, V, body) ==
    Letter([reply |-> code], OfA, to, callId_X, CSeq(7, "INVITE"), V, body)

\* What B's replies say to the INVITE of SIPSL.
ReplyOfBSays(code, V, body) ==
    Letter([reply |-> code], FromSipsl, ToOfB, callId_Y, CSeq(1, "INVITE"),
           OfSipsl("invite", V), body)

\* What the message of each role says, and the 503, which is not kept.  V are the Vias
\* and O is the payload of A's INVITE, N is the payload of the 200 of B.
Said(k, V, O, N) ==
    IF k = "invite_a" THEN InviteSays(V, O)
    ELSE IF k = "STOREMESS_1_1" THEN ReplySays("100", ToB, V, <<>>)
    ELSE IF k = "503" THEN ReplySays("503", ToB, V, <<>>)
    ELSE IF k = "STOREMESS_1_2" THEN ReplySays("180", ToSipsl, V, <<>>)
    ELSE IF k = "STOREMESS_1_3" THEN ReplySays("200", ToSipsl, V, N)
    ELSE IF k = "invite_b"
         THEN Letter([request |-> "INVITE", uri |-> "b"], FromSipsl, ToB, callId_Y,
                     CSeq(1, "INVITE"), OfSipsl("invite", V), O)
    ELSE IF k = "ack_b"
         THEN Letter([request |-> "ACK", uri |-> "contactB"], FromSipsl, ToOfB, callId_Y,
                     CSeq(1, "ACK"), OfSipsl("ack", ViaOf("a", "a2")), <<>>)
    ELSE IF k = "byeB"
         THEN Letter([request |-> "BYE", uri |-> "contactB"], FromSipsl, ToOfB, callId_Y,
                     CSeq(2, "BYE"), OfSipsl("byeFwd", ViaOf("a", "a3")), <<>>)
    ELSE IF k = "byeA"
         THEN Letter([request |-> "BYE", uri |-> V[1].v.host], ToSipsl, OfA, callId_X,
                     CSeq(7, "BYE"), OfSipsl("byeBkwd", ViaOf("b", "b1")), <<>>)
    ELSE IF k = "STORED_MESSAGEA"
         THEN Letter([reply |-> "200"], OfA, ToSipsl, callId_X, CSeq(8, "BYE"),
                     ViaOf("a", "a3"), <<>>)
    ELSE Letter([reply |-> "200"], ToOfB, FromSipsl, callId_Y, CSeq(1, "BYE"),
                ViaOf("b", "b1"), <<>>)

\* To which side the message of a role goes, and to which address a reply does.
ToA == {"STOREMESS_1_1", "503", "STOREMESS_1_2", "STOREMESS_1_3", "byeA", "STORED_MESSAGEA"}
ToBSide == {"invite_b", "ack_b", "byeB", "STORED_MESSAGEB"}
SideOf(k) == IF k \in ToA THEN "A" ELSE "B"
SentAs(d, k, V, O, N) ==
    /\ d.side = SideOf(k)
    /\ TextSays(d.text, Said(k, V, O, N))
    /\ LET w == Said(k, V, O, N)
       IN  "reply" \in DOMAIN w["start"] => d.to = w["Via"][1].v.host

MessagesSay(messages, V, O, N) ==
    /\ DOMAIN messages \subseteq Roles
    /\ {"invite_a", "invite_b", "STOREMESS_1_1"} \subseteq DOMAIN messages
    /\ \A k \in DOMAIN messages : Stored(messages[k], Said(k, V, O, N))
    /\ \A k \in {"ack_b", "byeA", "byeB"} :
           k \in DOMAIN messages => "STOREMESS_1_3" \in DOMAIN messages
WireSays(sent, messages, V, O, N) ==
    \A d \in sent : \E k \in DOMAIN messages \cup {"503"} :
        /\ k # "invite_a" /\ SentAs(d, k, V, O, N)
        /\ k = "invite_b" => d.text = messages["invite_b"].text
HeardSays(texts, messages, V, O, N) ==
    /\ \A t \in texts : IsRequest(t, "INVITE") => TextSays(t, InviteSays(V, O))
    /\ "STOREMESS_1_3" \in DOMAIN messages =>
           \E ok \in texts : /\ TextSays(ok, ReplyOfBSays("200", V, N))
                             /\ One(HeadOf(ok), "Contact", ContactOfB)

\* VALO::ctxt_store: what is remembered of the 200 is there once it has been sent on.
OkKeys == {"tohead_200ok_b", "fromhead_200ok_b", "ContactB", "tohead_200ok_a",
           "fromhead_200ok_a"}
OkEntries(store) ==
    /\ OkKeys \subseteq DOMAIN store
    /\ store["tohead_200ok_b"] = ToOfB /\ store["fromhead_200ok_b"] = FromSipsl
    /\ store["ContactB"] = ContactOfB
    /\ store["tohead_200ok_a"] = ToSipsl /\ store["fromhead_200ok_a"] = OfA
StoreSays(store, messages) ==
    /\ DOMAIN store \subseteq StoreKeys
    /\ "CSeqB2BINVITE" \in DOMAIN store /\ store["CSeqB2BINVITE"] = CSeq(1, "INVITE")
    /\ IF "STOREMESS_1_3" \in DOMAIN messages THEN OkEntries(store)
       ELSE OkKeys \cap DOMAIN store = {}
NumbersSay(numbers, messages) ==
    /\ DOMAIN numbers = {"INVITE_A", "INVITE_B"}
    /\ numbers["INVITE_A"] = 7
    /\ numbers["INVITE_B"] = IF "byeB" \in DOMAIN messages THEN 2 ELSE 1

Idle ==
    /\ DOMAIN msg = {} /\ DOMAIN ctxt_store = {}
    /\ DOMAIN sequence = {"INVITE_B"} /\ sequence["INVITE_B"] = 0
    /\ heard = {} /\ wire = {}
Call(V, O, N) ==
    /\ MessagesSay(msg, V, O, N)
    /\ WireSays(wire, msg, V, O, N)
    /\ HeardSays(heard, msg, V, O, N)
    /\ StoreSays(ctxt_store, msg)
    /\ NumbersSay(sequence, msg)

\* The inductive invariant.
Inv ==
    /\ errors = {}
    /\ Idle \/ \E V \in AVias, O \in Offers, N \in Answers \cup {<<>>} : Call(V, O, N)

\* The start line and the first Via of what is sent.
LEMMA SaidStart ==
    ASSUME NEW V \in AVias, NEW O, NEW N, NEW k \in ToA \cup ToBSide
    PROVE  LET w == Said(k, V, O, N)
           IN  /\ "reply" \in DOMAIN w["start"] <=> k \notin {"byeA", "invite_b", "ack_b", "byeB"}
               /\ "reply" \in DOMAIN w["start"] => "received" \notin DOMAIN w["Via"][1].v
<1> DEFINE w == Said(k, V, O, N)
<1>1. "received" \notin DOMAIN V[1].v
    BY TextsAssumption
<1>2. \A h, x : "received" \notin DOMAIN ViaOf(h, x)[1].v
    BY DEF ViaOf, Line
<1>3. CASE k \in {"STOREMESS_1_1", "503", "STOREMESS_1_2", "STOREMESS_1_3"}
    <2>1. "reply" \in DOMAIN w["start"] /\ w["Via"] = V
        BY <1>3 DEF Said, ReplySays, Letter, LetterFields, Named
    <2> QED
        BY <1>1, <1>3, <2>1
<1>4. CASE k \in {"STORED_MESSAGEA", "STORED_MESSAGEB"}
    <2>1. "reply" \in DOMAIN w["start"]
        BY <1>4 DEF Said, ReplySays, Letter, LetterFields, Named
    <2>2. w["Via"] = ViaOf("a", "a3") \/ w["Via"] = ViaOf("b", "b1")
        BY <1>4 DEF Said, ReplySays, Letter, LetterFields, Named
    <2> HIDE DEF w
    <2>3. "received" \notin DOMAIN w["Via"][1].v
        BY <1>2, <2>2
    <2> QED
        BY <1>4, <2>1, <2>3 DEF w
<1>5. CASE k \in {"byeA", "invite_b", "ack_b", "byeB"}
    <2>1. "reply" \notin DOMAIN w["start"]
        BY <1>5 DEF Said, ReplySays, Letter, LetterFields, Named
    <2> QED
        BY <1>5, <2>1
<1> QED
    BY <1>3, <1>4, <1>5 DEF ToA, ToBSide

\* A stored message is sent as what it says, a reply to the first of its Vias.
LEMMA Sending ==
    ASSUME NEW V \in AVias, NEW O, NEW N, NEW k \in ToA \cup ToBSide,
           NEW m, Stored(m, Said(k, V, O, N)),
           NEW side, side = SideOf(k)
    PROVE  SentAs(Send(m, side), k, V, O, N) /\ Send(m, side).text = m.text
<1> DEFINE w == Said(k, V, O, N)
           d == Send(m, side)
<1>1. /\ d = [side |-> side, text |-> m.text, to |-> d.to]
      /\ TextSays(d.text, w)
      /\ "reply" \in DOMAIN w["start"] /\ "received" \notin DOMAIN w["Via"][1].v
             => d.to = w["Via"][1].v.host
    BY SendFacts
<1>2. /\ "reply" \in DOMAIN w["start"] <=> k \notin {"byeA", "invite_b", "ack_b", "byeB"}
      /\ "reply" \in DOMAIN w["start"] => "received" \notin DOMAIN w["Via"][1].v
    BY SaidStart
<1> HIDE DEF w, d
<1>3. "reply" \in DOMAIN w["start"] => d.to = w["Via"][1].v.host
    BY <1>1, <1>2
<1>4. d.side = side /\ d.text = m.text
    BY <1>1
<1> QED
    BY <1>1, <1>3, <1>4 DEF SentAs, w, d

---------------------------------------------------------------------------
(* The steps of a call. *)

\* No message of a step has an error, so no step has one.
LEMMA NoErrors ==
    ASSUME errors = {}, NEW S, Errors(S), \A m \in S : Destroy(m).errors = {}
    PROVE  errors' = {}
    BY DEF Errors

\* The 100 and the INVITE for B, from the INVITE of A.
LEMMA FirstInvite ==
    ASSUME Idle, errors = {},
           NEW V \in AVias, NEW given \in BOOLEAN, NEW O \in Offers,
           InviteFromA(InviteOfA(V, given, O))
    PROVE  errors' = {} /\ Call(V, O, <<>>)'
<1> DEFINE text == InviteOfA(V, given, O)
           fresh == NewMessage(text, ViasOf(text)[1].v.host)
<1>1. TextSays(text, InviteSays(V, O))
    <2>1. LinesOf("Via", V) /\ V # <<>> /\ LinesOf("sdp", O)
        BY TextsAssumption
    <2> QED
        BY <2>1, RequestText DEF InviteOfA, InviteSays
<1> DEFINE Sent(route, number, invite_a, etry, invite_b, m2alo) ==
               /\ msg' = Keep(Keep(Keep(msg, "invite_a", invite_a), "STOREMESS_1_1", etry),
                              "invite_b", invite_b)
               /\ sequence' = Keep(Keep(sequence, "INVITE_B", number),
                                   "INVITE_A", GetHeadCSeq(invite_a).number)
               /\ LET store == Insert(ctxt_store, "CSeqB2BINVITE", CSeq(number, "INVITE"))
                  IN  ctxt_store' = IF route = Absent THEN store
                                    ELSE Insert(store, "RouteIp", route)
               /\ wire' = wire \cup {Send(etry, "A"), Send(Copy(invite_b), "B")}
               /\ Errors({invite_a, Ready(etry), m2alo, invite_b, Ready(Copy(invite_b))})
<1>2a. /\ heard' = heard \cup {text}
       /\ \E route \in {Absent, "proxyB"}, number \in {sequence["INVITE_B"] + 1},
             invite_a \in {Handled(fresh)} :
          \E etry \in {genTryFromInvite(Copy(invite_a))}, m2alo \in {Handled(Copy(invite_a))} :
          \E invite_b \in {Handled(SetRoute(onInvite(m2alo, invite_a, number), route))} :
             Sent(route, number, invite_a, etry, invite_b, m2alo)
    BY Zenon DEF InviteFromA, Hear
<1> HIDE DEF Sent
<1>2b. PICK route, number, invite_a :
           /\ number = sequence["INVITE_B"] + 1
           /\ invite_a = Handled(fresh)
           /\ \E etry \in {genTryFromInvite(Copy(invite_a))},
                 m2alo \in {Handled(Copy(invite_a))} :
              \E invite_b \in {Handled(SetRoute(onInvite(m2alo, invite_a, number), route))} :
                 Sent(route, number, invite_a, etry, invite_b, m2alo)
    BY <1>2a
<1>2c. PICK etry, m2alo, invite_b :
           /\ etry = genTryFromInvite(Copy(invite_a))
           /\ m2alo = Handled(Copy(invite_a))
           /\ invite_b = Handled(SetRoute(onInvite(m2alo, invite_a, number), route))
           /\ Sent(route, number, invite_a, etry, invite_b, m2alo)
    BY <1>2b
<1>2. /\ number = sequence["INVITE_B"] + 1
      /\ invite_a = Handled(fresh)
      /\ etry = genTryFromInvite(Copy(invite_a))
      /\ m2alo = Handled(Copy(invite_a))
      /\ invite_b = Handled(SetRoute(onInvite(m2alo, invite_a, number), route))
      /\ msg' = Keep(Keep(Keep(msg, "invite_a", invite_a), "STOREMESS_1_1", etry),
                     "invite_b", invite_b)
      /\ sequence' = Keep(Keep(sequence, "INVITE_B", number),
                          "INVITE_A", GetHeadCSeq(invite_a).number)
      /\ LET store == Insert(ctxt_store, "CSeqB2BINVITE", CSeq(number, "INVITE"))
         IN  ctxt_store' = IF route = Absent THEN store ELSE Insert(store, "RouteIp", route)
      /\ wire' = wire \cup {Send(etry, "A"), Send(Copy(invite_b), "B")}
      /\ Errors({invite_a, Ready(etry), m2alo, invite_b, Ready(Copy(invite_b))})
      /\ heard' = heard \cup {text}
    BY <1>2a, <1>2b, <1>2c, Zenon DEF Sent
<1> HIDE DEF text, fresh
<1>3. Open(invite_a, InviteSays(V, O))
    <2>1. Stored(fresh, InviteSays(V, O))
        BY <1>1, NewStored DEF fresh
    <2> QED
        BY <1>2, <2>1, HandledFacts
<1>4. TextSays(invite_a.text, InviteSays(V, O))
    BY <1>3, OpenFacts
<1>5. Stored(etry, Said("STOREMESS_1_1", V, O, <<>>))
    <2>1. Draft(Copy(invite_a), InviteSays(V, O), "buffer", "buffer")
        BY <1>4, CopyFacts
    <2>2. Stored(genTryFromInvite(Copy(invite_a)), ReplySays("100", ToB, V, <<>>))
        BY <2>1, TryFromInvite DEF InviteSays, ReplySays
    <2> QED
        BY <1>2, <2>2 DEF Said
<1>6. Open(m2alo, InviteSays(V, O))
    <2>1. Open(Copy(invite_a), InviteSays(V, O))
        BY <1>4, CopyFacts
    <2> QED
        BY <1>2, <2>1, HandledFacts DEF Open
<1>7. number = 1
    BY <1>2 DEF Idle
<1>8. Open(invite_b, Said("invite_b", V, O, <<>>))
    <2>1. HasSDP(invite_a) /\ GetSDP(invite_a) = PayloadOf(O)
        <3>1. InviteSays(V, O)["sdp"] = O
            BY LetterFacts DEF InviteSays
        <3> QED
            BY <1>3, <3>1, OpenGetters
    <2>2. LinesOf("sdp", O)
        BY TextsAssumption
    <2>3. TextSays(m2alo.text, InviteSays(V, O))
        BY <1>6, OpenFacts
    <2>4. Stored(onInvite(m2alo, invite_a, 1), Said("invite_b", V, O, <<>>))
        BY <2>1, <2>2, <2>3, OnInvite DEF InviteSays, Said, FromSipsl, OfSipsl
    <2>5. Stored(SetRoute(onInvite(m2alo, invite_a, 1), route), Said("invite_b", V, O, <<>>))
        BY <2>4, RouteStored
    <2> QED
        BY <1>2, <1>7, <2>5, HandledFacts
<1>9. /\ Open(Copy(invite_b), Said("invite_b", V, O, <<>>))
      /\ Copy(invite_b).text = invite_b.text
    BY <1>8, OpenFacts, CopyFacts
<1>10. errors' = {}
    <2>1. /\ Destroy(invite_a).errors = {} /\ Destroy(m2alo).errors = {}
          /\ Destroy(invite_b).errors = {}
        BY <1>3, <1>6, <1>8, StoredFacts DEF Open
    <2>2. Destroy(Ready(etry)).errors = {} /\ Destroy(Ready(Copy(invite_b))).errors = {}
        BY <1>5, <1>9, ReadyFacts, StoredFacts DEF Open
    <2> QED
        BY <1>2, <2>1, <2>2, NoErrors
<1>11. /\ DOMAIN msg' = {"invite_a", "STOREMESS_1_1", "invite_b"}
       /\ msg'["invite_a"] = invite_a /\ msg'["STOREMESS_1_1"] = etry
       /\ msg'["invite_b"] = invite_b
    <2> DEFINE m1 == Keep(msg, "invite_a", invite_a)
               m2 == Keep(m1, "STOREMESS_1_1", etry)
    <2>1. DOMAIN m1 = {"invite_a"} /\ m1["invite_a"] = invite_a
        BY DEF Keep, Idle
    <2> HIDE DEF m1
    <2>2. /\ DOMAIN m2 = {"invite_a", "STOREMESS_1_1"}
          /\ m2["invite_a"] = invite_a /\ m2["STOREMESS_1_1"] = etry
        BY <2>1 DEF Keep
    <2>3. msg' = Keep(m2, "invite_b", invite_b)
        BY <1>2 DEF m1
    <2> HIDE DEF m2
    <2> QED
        BY <2>2, <2>3 DEF Keep
<1>12. MessagesSay(msg', V, O, <<>>)
    <2>1. Stored(invite_a, Said("invite_a", V, O, <<>>))
        BY <1>3 DEF Open, Said
    <2> QED
        BY <1>5, <1>8, <1>11, <2>1 DEF MessagesSay, Open, Roles
<1>13. WireSays(wire', msg', V, O, <<>>)
    <2>1. SentAs(Send(etry, "A"), "STOREMESS_1_1", V, O, <<>>)
        BY <1>5, Sending DEF ToA, SideOf
    <2>2. /\ SentAs(Send(Copy(invite_b), "B"), "invite_b", V, O, <<>>)
          /\ Send(Copy(invite_b), "B").text = invite_b.text
        BY <1>9, Sending DEF ToA, ToBSide, SideOf, Open
    <2>3. wire' = {Send(etry, "A"), Send(Copy(invite_b), "B")}
        BY <1>2 DEF Idle
    <2> QED
        BY <1>11, <2>1, <2>2, <2>3 DEF WireSays
<1>14. HeardSays(heard', msg', V, O, <<>>)
    BY <1>1, <1>2, <1>11 DEF HeardSays, Idle
<1>15. StoreSays(ctxt_store', msg')
    <2>1. ctxt_store'["CSeqB2BINVITE"] = CSeq(1, "INVITE")
          /\ "CSeqB2BINVITE" \in DOMAIN ctxt_store'
          /\ DOMAIN ctxt_store' \subseteq {"CSeqB2BINVITE", "RouteIp"}
        <3> DEFINE store == Insert(ctxt_store, "CSeqB2BINVITE", CSeq(number, "INVITE"))
        <3>1. DOMAIN store = {"CSeqB2BINVITE"} /\ store["CSeqB2BINVITE"] = CSeq(1, "INVITE")
            BY <1>7 DEF Insert, Idle
        <3>2. ctxt_store' = store \/ ctxt_store' = Insert(store, "RouteIp", route)
            BY <1>2
        <3> HIDE DEF store
        <3> QED
            BY <3>1, <3>2 DEF Insert
    <2> QED
        BY <1>11, <2>1 DEF StoreSays, OkKeys, StoreKeys
<1>16. NumbersSay(sequence', msg')
    <2>1. GetHeadCSeq(invite_a).number = 7
        <3>1. InviteSays(V, O)["CSeq"] = CSeq(7, "INVITE")
            BY LetterFacts DEF InviteSays
        <3> QED
            BY <1>3, <3>1, OpenGetters DEF CSeq
    <2> DEFINE s1 == Keep(sequence, "INVITE_B", number)
    <2>2. DOMAIN s1 = {"INVITE_B"} /\ s1["INVITE_B"] = 1
        BY <1>7 DEF Keep, Idle
    <2>3. sequence' = Keep(s1, "INVITE_A", 7)
        BY <1>2, <2>1
    <2> HIDE DEF s1
    <2>4. /\ DOMAIN sequence' = {"INVITE_A", "INVITE_B"}
          /\ sequence'["INVITE_A"] = 7 /\ sequence'["INVITE_B"] = 1
        BY <2>2, <2>3 DEF Keep
    <2> QED
        BY <1>11, <2>4 DEF NumbersSay
<1> QED
    BY <1>10, <1>12, <1>13, <1>14, <1>15, <1>16 DEF Call

\* What was sent still comes from messages that are kept, and so does what is sent now.
LEMMA WireGrows ==
    ASSUME NEW V, NEW O, NEW N, NEW M, NEW sent, NEW old, NEW new,
           WireSays(sent, old, V, O, N), DOMAIN old \subseteq DOMAIN new,
           new["invite_b"].text = old["invite_b"].text,
           N = M \/ "STOREMESS_1_3" \notin DOMAIN old,
           NEW more,
           \A d \in more : \E k \in DOMAIN new \cup {"503"} :
               k \notin {"invite_a", "invite_b"} /\ SentAs(d, k, V, O, M)
    PROVE  WireSays(sent \cup more, new, V, O, M)
<1>1. ASSUME NEW d \in sent
      PROVE  \E k \in DOMAIN new \cup {"503"} :
                 /\ k # "invite_a" /\ SentAs(d, k, V, O, M)
                 /\ k = "invite_b" => d.text = new["invite_b"].text
    <2>1. PICK k \in DOMAIN old \cup {"503"} :
              /\ k # "invite_a" /\ SentAs(d, k, V, O, N)
              /\ k = "invite_b" => d.text = old["invite_b"].text
        BY DEF WireSays
    <2>2. Said(k, V, O, N) = Said(k, V, O, M)
        <3>1. N = M \/ k # "STOREMESS_1_3"
            BY <2>1
        <3> QED
            BY <3>1 DEF Said
    <2> QED
        BY <2>1, <2>2 DEF SentAs
<1> QED
    BY <1>1 DEF WireSays

\* A message is sent again, or with another code.
LEMMA SameCall ==
    ASSUME NEW V, NEW O, NEW N, Call(V, O, N),
           NEW k \in DOMAIN msg, k # "invite_b", NEW m, Stored(m, Said(k, V, O, N)),
           msg' = [msg EXCEPT ![k] = m],
           NEW d, NEW j \in (DOMAIN msg \cup {"503"}) \ {"invite_a", "invite_b"},
           SentAs(d, j, V, O, N), wire' = wire \cup {d},
           UNCHANGED <<ctxt_store, sequence, heard>>
    PROVE  Call(V, O, N)'
<1>1. /\ MessagesSay(msg, V, O, N) /\ WireSays(wire, msg, V, O, N)
      /\ HeardSays(heard, msg, V, O, N) /\ StoreSays(ctxt_store, msg)
      /\ NumbersSay(sequence, msg)
    BY DEF Call
<1>2. DOMAIN msg' = DOMAIN msg /\ \A x \in DOMAIN msg : x # k => msg'[x] = msg[x]
    OBVIOUS
<1>3. msg'[k] = m
    OBVIOUS
<1>4. MessagesSay(msg', V, O, N)
    BY <1>1, <1>2, <1>3 DEF MessagesSay
<1>5. WireSays(wire', msg', V, O, N)
    <2>1. DOMAIN msg \subseteq DOMAIN msg' /\ msg'["invite_b"].text = msg["invite_b"].text
        BY <1>1, <1>2 DEF MessagesSay
    <2> DEFINE more == {d}
    <2>2. \A x \in more : \E y \in DOMAIN msg' \cup {"503"} :
              y \notin {"invite_a", "invite_b"} /\ SentAs(x, y, V, O, N)
        BY <1>2
    <2>3. wire' = wire \cup more
        OBVIOUS
    <2> HIDE DEF more
    <2>4. WireSays(wire \cup more, msg', V, O, N)
        BY <1>1, <2>1, <2>2, WireGrows
    <2> QED
        BY <2>3, <2>4
<1>6. HeardSays(heard', msg', V, O, N)
    BY <1>1, <1>2 DEF HeardSays
<1>7. StoreSays(ctxt_store', msg') /\ NumbersSay(sequence', msg')
    BY <1>1, <1>2 DEF StoreSays, NumbersSay
<1> QED
    BY <1>4, <1>5, <1>6, <1>7 DEF Call

\* A stored message that is copied stays what it was.
LEMMA SourceStored ==
    ASSUME NEW m, NEW w, Stored(m, w)
    PROVE  Stored(Source(m), w) /\ Destroy(Source(m)).errors = {}
    BY ReadModulusStored, StoredFacts DEF Source, Open

\* TIMER_G, or the INVITE again: the stored 200 is sent once more.
LEMMA OkAgain ==
    ASSUME NEW V \in AVias, NEW O, NEW N, Call(V, O, N), errors = {},
           act_200ok_refwdto_a
    PROVE  errors' = {} /\ Call(V, O, N)'
<1> DEFINE stored == msg["STOREMESS_1_3"]
           copy == Copy(stored)
           m == Source(stored)
           w == Said("STOREMESS_1_3", V, O, N)
<1>1. /\ "STOREMESS_1_3" \in DOMAIN msg
      /\ msg' = [msg EXCEPT !["STOREMESS_1_3"] = m]
      /\ wire' = wire \cup {Send(copy, "A")}
      /\ Errors({Ready(copy), m})
      /\ UNCHANGED <<ctxt_store, sequence, heard>>
    BY DEF act_200ok_refwdto_a, Kept
<1>2. Stored(stored, w)
    BY <1>1 DEF Call, MessagesSay
<1>3. Open(copy, w)
    BY <1>2, StoredFacts, CopyFacts
<1>4. Stored(m, w) /\ Destroy(m).errors = {}
    BY <1>2, SourceStored
<1> HIDE DEF copy, m, stored
<1>5. Destroy(Ready(copy)).errors = {}
    BY <1>3, ReadyFacts, StoredFacts DEF Open
<1>6. SentAs(Send(copy, "A"), "STOREMESS_1_3", V, O, N)
    BY <1>3, Sending DEF ToA, SideOf, Open
<1>7. errors' = {}
    BY <1>1, <1>4, <1>5, NoErrors
<1>8. Call(V, O, N)'
    BY <1>1, <1>4, <1>6, SameCall
<1> QED
    BY <1>7, <1>8

\* act_resend_ack: ACKTOB is sent once more, and TRNSPRT has read it once more.
LEMMA AckAgain ==
    ASSUME NEW V \in AVias, NEW O, NEW N, Call(V, O, N), errors = {},
           act_resend_ack
    PROVE  errors' = {} /\ Call(V, O, N)'
<1> DEFINE ACKTOB == msg["ack_b"]
           m == Ready(ACKTOB)
           w == Said("ack_b", V, O, N)
<1>1. /\ "ack_b" \in DOMAIN msg
      /\ msg' = [msg EXCEPT !["ack_b"] = m]
      /\ wire' = wire \cup {Send(ACKTOB, "B")}
      /\ Errors({m})
      /\ UNCHANGED <<ctxt_store, sequence, heard>>
    BY DEF act_resend_ack, Kept
<1>2. Stored(ACKTOB, w)
    BY <1>1 DEF Call, MessagesSay
<1>3. Stored(m, w)
    BY <1>2, ReadyFacts DEF Open
<1> HIDE DEF ACKTOB, m
<1>4. Destroy(m).errors = {}
    BY <1>3, StoredFacts
<1>5. SentAs(Send(ACKTOB, "B"), "ack_b", V, O, N)
    BY <1>2, Sending DEF ToA, ToBSide, SideOf
<1>6. errors' = {}
    BY <1>1, <1>4, NoErrors
<1>7. Call(V, O, N)'
    BY <1>1, <1>3, <1>5, SameCall
<1> QED
    BY <1>6, <1>7

\* act_send_servunav_to_a: the 503 from the stored 100.
LEMMA InviteAgain ==
    ASSUME NEW V \in AVias, NEW O, NEW N, Call(V, O, N), errors = {},
           act_send_servunav_to_a
    PROVE  errors' = {} /\ Call(V, O, N)'
<1> DEFINE m == Source(msg["STOREMESS_1_1"])
           servunav == CompileMessage(SetHeadSipReply(Copy(m), "503"))
           w == Said("STOREMESS_1_1", V, O, N)
<1>1. /\ "STOREMESS_1_1" \in DOMAIN msg
      /\ msg' = [msg EXCEPT !["STOREMESS_1_1"] = m]
      /\ wire' = wire \cup {Send(servunav, "A")}
      /\ Errors({Ready(servunav), m})
      /\ UNCHANGED <<ctxt_store, sequence, heard>>
    BY DEF act_send_servunav_to_a, Kept
<1>2. Stored(msg["STOREMESS_1_1"], w)
    BY <1>1 DEF Call, MessagesSay
<1>3. Stored(m, w) /\ Destroy(m).errors = {}
    BY <1>2, SourceStored
<1> HIDE DEF m
<1>4. Stored(servunav, Said("503", V, O, N))
    BY <1>3, OnRepeatedInvite DEF Said, ReplySays
<1> HIDE DEF servunav
<1>5. Destroy(Ready(servunav)).errors = {}
    BY <1>4, ReadyFacts, StoredFacts DEF Open
<1>6. SentAs(Send(servunav, "A"), "503", V, O, N)
    BY <1>4, Sending DEF ToA, SideOf
<1>7. errors' = {}
    BY <1>1, <1>3, <1>5, NoErrors
<1>8. Call(V, O, N)'
    BY <1>1, <1>3, <1>6, SameCall
<1> QED
    BY <1>7, <1>8

---------------------------------------------------------------------------
(* What was sent is found again in what is kept. *)

\* Whatever a side was sent is the message of some role, with what it says.
LEMMA SentBefore ==
    ASSUME NEW V, NEW O, NEW N, Call(V, O, N), NEW side, NEW t \in SentTo(side)
    PROVE  \E k \in ToA \cup ToBSide :
               /\ k \in DOMAIN msg \cup {"503"} /\ SideOf(k) = side
               /\ TextSays(t, Said(k, V, O, N)) /\ t[1].v = Said(k, V, O, N)["start"]
               /\ HeaderOf(t, "CSeq") = Said(k, V, O, N)["CSeq"]
               /\ k = "invite_b" => t = msg["invite_b"].text
<1>1. PICK d \in wire : d.side = side /\ t = d.text
    BY DEF SentTo
<1>2. PICK k \in DOMAIN msg \cup {"503"} :
          /\ k # "invite_a" /\ SentAs(d, k, V, O, N)
          /\ k = "invite_b" => d.text = msg["invite_b"].text
    BY DEF Call, WireSays
<1>3. k \in ToA \cup ToBSide
    BY <1>2 DEF Call, MessagesSay, Roles, ToA, ToBSide
<1>4. TextSays(t, Said(k, V, O, N)) /\ SideOf(k) = side
    BY <1>1, <1>2 DEF SentAs
<1>5. /\ t[1].v = Said(k, V, O, N)["start"]
      /\ HeaderOf(t, "CSeq") = Said(k, V, O, N)["CSeq"]
    BY <1>4, TextOf DEF Named
<1> QED
    BY <1>1, <1>2, <1>3, <1>4, <1>5

\* The only INVITE that B is sent, and the only 200 to an INVITE that A is sent.
LEMMA InviteToB ==
    ASSUME NEW V, NEW O, NEW N, Call(V, O, N), NEW t \in SentTo("B"), IsRequest(t, "INVITE")
    PROVE  TextSays(t, Said("invite_b", V, O, N)) /\ t = msg["invite_b"].text
<1>1. PICK k \in ToA \cup ToBSide :
          /\ SideOf(k) = "B"
          /\ TextSays(t, Said(k, V, O, N)) /\ t[1].v = Said(k, V, O, N)["start"]
          /\ k = "invite_b" => t = msg["invite_b"].text
    BY SentBefore
<1>2. k \in ToBSide
    BY <1>1 DEF SideOf
<1>3. k # "ack_b" /\ k # "byeB"
    <2>1. t[1].v.request = "INVITE"
        BY DEF IsRequest
    <2>2. Said("ack_b", V, O, N)["start"].request = "ACK"
        BY DEF Said, Letter, LetterFields, Named
    <2>3. Said("byeB", V, O, N)["start"].request = "BYE"
        BY DEF Said, Letter, LetterFields, Named
    <2> QED
        BY <1>1, <2>1, <2>2, <2>3
<1>4. k # "STORED_MESSAGEB"
    <2>1. "reply" \in DOMAIN Said("STORED_MESSAGEB", V, O, N)["start"]
        BY DEF Said, Letter, LetterFields, Named
    <2> QED
        BY <1>1, <2>1 DEF IsRequest, IsReply
<1> QED
    BY <1>1, <1>2, <1>3, <1>4 DEF ToBSide

\* The only 200 to an INVITE that A is sent is the one that is stored.
LEMMA OkToA ==
    ASSUME NEW V \in AVias, NEW O, NEW N, Call(V, O, N),
           NEW t \in SentTo("A"), IsReplyTo(t, "200", "INVITE")
    PROVE  /\ TextSays(t, Said("STOREMESS_1_3", V, O, N))
           /\ "STOREMESS_1_3" \in DOMAIN msg
<1>1. PICK k \in ToA \cup ToBSide :
          /\ k \in DOMAIN msg \cup {"503"} /\ SideOf(k) = "A"
          /\ TextSays(t, Said(k, V, O, N)) /\ t[1].v = Said(k, V, O, N)["start"]
          /\ HeaderOf(t, "CSeq") = Said(k, V, O, N)["CSeq"]
    BY SentBefore
<1>2. k \in ToA
    BY <1>1 DEF SideOf
<1>3. t[1].v.reply = "200" /\ HeaderOf(t, "CSeq").method = "INVITE"
      /\ "reply" \in DOMAIN t[1].v
    BY DEF IsReplyTo, IsReply
<1>4. k # "STORED_MESSAGEA"
    <2>1. Said("STORED_MESSAGEA", V, O, N)["CSeq"].method = "BYE"
        BY DEF Said, Letter, LetterFields, Named, CSeq
    <2> QED
        BY <1>1, <1>3, <2>1
<1>5. k # "byeA"
    BY <1>1, <1>3, SaidStart
<1>6. k \notin {"STOREMESS_1_1", "503", "STOREMESS_1_2"}
    <2>1. /\ Said("STOREMESS_1_1", V, O, N)["start"].reply = "100"
          /\ Said("503", V, O, N)["start"].reply = "503"
          /\ Said("STOREMESS_1_2", V, O, N)["start"].reply = "180"
        BY DEF Said, ReplySays, Letter, LetterFields, Named
    <2> QED
        BY <1>1, <1>3, <2>1
<1> QED
    BY <1>1, <1>2, <1>4, <1>5, <1>6 DEF ToA

---------------------------------------------------------------------------
(* Messages that are added. *)

\* Messages are added, and the payload of the 200 is settled when it comes.
LEMMA MessagesGrow ==
    ASSUME NEW V, NEW O, NEW N, NEW M, NEW old, NEW new, MessagesSay(old, V, O, N),
           DOMAIN old \subseteq DOMAIN new, DOMAIN new \subseteq Roles,
           N = M \/ "STOREMESS_1_3" \notin DOMAIN old,
           \A k \in DOMAIN new : \/ k \in DOMAIN old /\ new[k] = old[k]
                                 \/ Stored(new[k], Said(k, V, O, M)),
           \A k \in {"ack_b", "byeA", "byeB"} :
               k \in DOMAIN new => "STOREMESS_1_3" \in DOMAIN new
    PROVE  MessagesSay(new, V, O, M)
<1>1. ASSUME NEW k \in DOMAIN new
      PROVE  Stored(new[k], Said(k, V, O, M))
    <2>1. CASE k \in DOMAIN old /\ new[k] = old[k]
        <3>1. Stored(new[k], Said(k, V, O, N))
            BY <2>1 DEF MessagesSay
        <3>2. N = M \/ k # "STOREMESS_1_3"
            BY <2>1
        <3>3. Said(k, V, O, N) = Said(k, V, O, M)
            BY <3>2 DEF Said
        <3> QED
            BY <3>1, <3>3
    <2>2. CASE Stored(new[k], Said(k, V, O, M))
        BY <2>2
    <2> QED
        BY <2>1, <2>2
<1> QED
    BY <1>1 DEF MessagesSay

\* Another text is heard, which is no INVITE.
LEMMA HeardGrows ==
    ASSUME NEW V, NEW O, NEW N, NEW old, NEW new, NEW texts, HeardSays(texts, old, V, O, N),
           NEW t, ~IsRequest(t, "INVITE"),
           "STOREMESS_1_3" \in DOMAIN new => "STOREMESS_1_3" \in DOMAIN old
    PROVE  HeardSays(texts \cup {t}, new, V, O, N)
<1>1. \A x \in texts \cup {t} : IsRequest(x, "INVITE") => TextSays(x, InviteSays(V, O))
    BY DEF HeardSays
<1>2. ASSUME "STOREMESS_1_3" \in DOMAIN new
      PROVE  \E ok \in texts \cup {t} : /\ TextSays(ok, ReplyOfBSays("200", V, N))
                                        /\ One(HeadOf(ok), "Contact", ContactOfB)
    BY <1>2 DEF HeardSays
<1> QED
    BY <1>1, <1>2 DEF HeardSays

\* A's INVITE as it is kept: its tag for To is missing, and is taken for one.
LEMMA InviteKept ==
    ASSUME NEW V, NEW O, NEW N, Call(V, O, N)
    PROVE  LET a == Read(msg["invite_a"], {"toTag"})
           IN  /\ Open(a, InviteSays(V, O)) /\ Destroy(a).errors = {}
               /\ GetToTag(FillIn(a)) = NotFound /\ NotFound # Absent
               /\ Stored(a, Said("invite_a", V, O, N))
<1> DEFINE a == Read(msg["invite_a"], {"toTag"})
<1>1. Said("invite_a", V, O, N) = InviteSays(V, O)
    BY DEF Said
<1>2. Stored(msg["invite_a"], InviteSays(V, O))
    BY <1>1 DEF Call, MessagesSay
<1>3. Open(a, InviteSays(V, O))
    BY <1>2, ReadStored DEF Parsed
<1> HIDE DEF a
<1>4. FillIn(a) = a
    BY <1>3, FillInStored DEF Open
<1>5. GetToTag(a) = PropertyIn(ToB, "tag")
    <2>1. InviteSays(V, O)["To"] = ToB
        BY LetterFacts DEF InviteSays
    <2> QED
        BY <1>3, <2>1, OpenGetters
<1>6. PropertyIn(ToB, "tag") = NotFound
    BY DEF PropertyIn, ToB
<1> QED
    BY <1>1, <1>3, <1>4, <1>5, <1>6, AbsentFacts, StoredFacts DEF Open, a

\* What B replies to the INVITE it was sent.
LEMMA ReplyOfB ==
    ASSUME NEW V, NEW O, NEW N, Call(V, O, N), NEW code, NEW body \in Answers,
           NEW text \in RepliesOfB(code, body)
    PROVE  /\ TextSays(text, ReplyOfBSays(code, V, body))
           /\ One(HeadOf(text), "Contact", ContactOfB)
           /\ ~IsRequest(text, "INVITE")
<1>1. PICK t \in SentTo("B") :
          IsRequest(t, "INVITE") /\ text = ReplyTo(t, code, "tagOfB", ContactOfB, body)
    BY DEF RepliesOfB, ContactOfB
<1>2. TextSays(t, Said("invite_b", V, O, N))
    BY <1>1, InviteToB
<1>3. LinesOf("sdp", body)
    BY TextsAssumption
<1>4. /\ TextSays(text, ReplyOfBSays(code, V, body))
      /\ One(HeadOf(text), "Contact", ContactOfB)
    BY <1>1, <1>2, <1>3, ReplyText DEF Said, ReplyOfBSays, ToOfB
<1>5. text[1].v = [reply |-> code]
    BY <1>4, TextGives DEF ReplyOfBSays
<1> QED
    BY <1>4, <1>5 DEF IsRequest, IsReply

\* The 180 for A, made from A's INVITE.
LEMMA FirstRinging ==
    ASSUME NEW V \in AVias, NEW O, NEW N, Call(V, O, N), errors = {},
           NEW body \in Answers, ProvReplyFromB(body)
    PROVE  errors' = {} /\ Call(V, O, N)'
<1>1. PICK text, reply, invite_a, reply_x :
          /\ text \in RepliesOfB("180", body)
          /\ reply = Handled(NewMessage(text, "b"))
          /\ invite_a = Read(msg["invite_a"], {"toTag"})
          /\ reply_x = Handled(CompileMessage(PurgeSDP(
                           genASideReplyFromBReply(reply, invite_a, Copy(invite_a)))))
          /\ msg' = Keep(Keep(msg, "invite_a", invite_a), "STOREMESS_1_2", Copy(reply_x))
          /\ wire' = wire \cup {Send(Copy(reply_x), "A")}
          /\ Errors({reply, invite_a, reply_x, Ready(Copy(reply_x))})
          /\ heard' = heard \cup {text}
    BY DEF ProvReplyFromB, Hear
<1>2. ctxt_store' = ctxt_store /\ sequence' = sequence
    BY DEF ProvReplyFromB
<1>3. /\ TextSays(text, ReplyOfBSays("180", V, body)) /\ ~IsRequest(text, "INVITE")
    BY <1>1, ReplyOfB
<1>4. Open(reply, ReplyOfBSays("180", V, body))
    BY <1>1, <1>3, NewStored, HandledFacts
<1>5. /\ Open(invite_a, InviteSays(V, O)) /\ Destroy(invite_a).errors = {}
      /\ GetToTag(FillIn(invite_a)) = NotFound /\ NotFound # Absent
      /\ Stored(invite_a, Said("invite_a", V, O, N))
    BY <1>1, InviteKept
<1>6. GetHeadSipReply(reply) = [reply |-> "180"]
    <2>1. ReplyOfBSays("180", V, body)["start"] = [reply |-> "180"]
        BY LetterFacts DEF ReplyOfBSays
    <2> QED
        BY <1>4, <2>1, OpenGetters
<1>7. Open(reply_x, Said("STOREMESS_1_2", V, O, N))
    <2> DEFINE r == CompileMessage(PurgeSDP(genASideReplyFromBReply(reply, invite_a,
                                                                    Copy(invite_a))))
    <2>1. Stored(r, Letter([reply |-> "180"], OfA,
                           [ToB EXCEPT !["tag"] = GetToTag(FillIn(invite_a))],
                           callId_X, CSeq(7, "INVITE"), V, <<>>))
        BY <1>5, <1>6, OnProvReply DEF InviteSays, Open
    <2>2. Stored(r, Said("STOREMESS_1_2", V, O, N))
        BY <1>5, <2>1 DEF Said, ReplySays, ToSipsl
    <2> HIDE DEF r
    <2> QED
        BY <1>1, <2>2, HandledFacts DEF r
<1>8. Open(Copy(reply_x), Said("STOREMESS_1_2", V, O, N))
    BY <1>7, OpenFacts, CopyFacts
<1>9. errors' = {}
    <2>1. Destroy(reply).errors = {} /\ Destroy(reply_x).errors = {}
        BY <1>4, <1>7, StoredFacts DEF Open
    <2>2. Destroy(Ready(Copy(reply_x))).errors = {}
        BY <1>8, ReadyFacts, StoredFacts DEF Open
    <2> QED
        BY <1>1, <1>5, <2>1, <2>2, NoErrors
<1>10. /\ DOMAIN msg' = DOMAIN msg \cup {"invite_a", "STOREMESS_1_2"}
       /\ msg'["invite_a"] = invite_a /\ msg'["STOREMESS_1_2"] = Copy(reply_x)
       /\ \A k \in DOMAIN msg : k \notin {"invite_a", "STOREMESS_1_2"} => msg'[k] = msg[k]
    BY <1>1 DEF Keep
<1>11. /\ MessagesSay(msg, V, O, N) /\ WireSays(wire, msg, V, O, N)
       /\ HeardSays(heard, msg, V, O, N) /\ StoreSays(ctxt_store, msg)
       /\ NumbersSay(sequence, msg)
    BY DEF Call
<1>12. MessagesSay(msg', V, O, N)
    <2>1. \A k \in DOMAIN msg' : \/ k \in DOMAIN msg /\ msg'[k] = msg[k]
                                 \/ Stored(msg'[k], Said(k, V, O, N))
        BY <1>5, <1>8, <1>10 DEF Open
    <2>2. /\ DOMAIN msg \subseteq DOMAIN msg' /\ DOMAIN msg' \subseteq Roles
          /\ \A k \in {"ack_b", "byeA", "byeB"} :
                 k \in DOMAIN msg' => "STOREMESS_1_3" \in DOMAIN msg'
        BY <1>10, <1>11 DEF MessagesSay, Roles
    <2> QED
        BY <1>11, <2>1, <2>2, MessagesGrow
<1>13. WireSays(wire', msg', V, O, N)
    <2> DEFINE more == {Send(Copy(reply_x), "A")}
    <2>1. SentAs(Send(Copy(reply_x), "A"), "STOREMESS_1_2", V, O, N)
        BY <1>8, Sending DEF ToA, SideOf, Open
    <2>2. \A x \in more : \E y \in DOMAIN msg' \cup {"503"} :
              y \notin {"invite_a", "invite_b"} /\ SentAs(x, y, V, O, N)
        BY <1>10, <2>1
    <2>3. DOMAIN msg \subseteq DOMAIN msg' /\ msg'["invite_b"].text = msg["invite_b"].text
        BY <1>10, <1>11 DEF MessagesSay
    <2>4. wire' = wire \cup more
        BY <1>1
    <2> HIDE DEF more
    <2>5. WireSays(wire \cup more, msg', V, O, N)
        BY <1>11, <2>2, <2>3, WireGrows
    <2> QED
        BY <2>4, <2>5
<1>14. HeardSays(heard', msg', V, O, N)
    BY <1>1, <1>3, <1>10, <1>11, HeardGrows
<1>15. StoreSays(ctxt_store', msg') /\ NumbersSay(sequence', msg')
    BY <1>2, <1>10, <1>11 DEF StoreSays, NumbersSay
<1> QED
    BY <1>9, <1>12, <1>13, <1>14, <1>15 DEF Call

\* What is remembered of the 200 is what it says.
LEMMA RememberedFacts ==
    ASSUME NEW V, NEW O, NEW N, Call(V, O, N), "STOREMESS_1_3" \notin DOMAIN msg,
           NEW toalo, NEW ok_x, NEW s,
           s = Remembered(toalo, ok_x),
           GetGenericHeader(toalo, "To") = ToOfB, GetGenericHeader(toalo, "From") = FromSipsl,
           GetContact(toalo) = ContactOfB,
           GetGenericHeader(ok_x, "To") = ToSipsl, GetGenericHeader(ok_x, "From") = OfA
    PROVE  /\ OkEntries(s) /\ DOMAIN s = DOMAIN ctxt_store \cup OkKeys
           /\ \A k \in DOMAIN ctxt_store : s[k] = ctxt_store[k]
<1> DEFINE s1 == Insert(ctxt_store, "tohead_200ok_b", ToOfB)
           s2 == Insert(s1, "fromhead_200ok_b", FromSipsl)
           s3 == Insert(s2, "ContactB", ContactOfB)
           s4 == Insert(s3, "tohead_200ok_a", ToSipsl)
           s5 == Insert(s4, "fromhead_200ok_a", OfA)
<1>1. s = s5
    BY DEF Remembered
<1>2. OkKeys \cap DOMAIN ctxt_store = {}
    BY DEF Call, StoreSays
<1>3. /\ "tohead_200ok_b" \notin DOMAIN ctxt_store /\ "fromhead_200ok_b" \notin DOMAIN ctxt_store
      /\ "ContactB" \notin DOMAIN ctxt_store /\ "tohead_200ok_a" \notin DOMAIN ctxt_store
      /\ "fromhead_200ok_a" \notin DOMAIN ctxt_store
    BY <1>2 DEF OkKeys
<1>4. /\ DOMAIN s1 = DOMAIN ctxt_store \cup {"tohead_200ok_b"} /\ s1["tohead_200ok_b"] = ToOfB
      /\ \A k \in DOMAIN ctxt_store : s1[k] = ctxt_store[k]
    BY <1>3 DEF Insert
<1> HIDE DEF s1
<1>5. /\ DOMAIN s2 = DOMAIN s1 \cup {"fromhead_200ok_b"} /\ s2["fromhead_200ok_b"] = FromSipsl
      /\ \A k \in DOMAIN s1 : s2[k] = s1[k]
    BY <1>3, <1>4 DEF Insert
<1> HIDE DEF s2
<1>6. /\ DOMAIN s3 = DOMAIN s2 \cup {"ContactB"} /\ s3["ContactB"] = ContactOfB
      /\ \A k \in DOMAIN s2 : s3[k] = s2[k]
    BY <1>3, <1>4, <1>5 DEF Insert
<1> HIDE DEF s3
<1>7. /\ DOMAIN s4 = DOMAIN s3 \cup {"tohead_200ok_a"} /\ s4["tohead_200ok_a"] = ToSipsl
      /\ \A k \in DOMAIN s3 : s4[k] = s3[k]
    BY <1>3, <1>4, <1>5, <1>6 DEF Insert
<1> HIDE DEF s4
<1>8. /\ DOMAIN s5 = DOMAIN s4 \cup {"fromhead_200ok_a"} /\ s5["fromhead_200ok_a"] = OfA
      /\ \A k \in DOMAIN s4 : s5[k] = s4[k]
    BY <1>3, <1>4, <1>5, <1>6, <1>7 DEF Insert
<1> HIDE DEF s5
<1>9. DOMAIN s5 = DOMAIN ctxt_store \cup OkKeys
    BY <1>4, <1>5, <1>6, <1>7, <1>8 DEF OkKeys
<1>10. \A k \in DOMAIN ctxt_store : s5[k] = ctxt_store[k]
    BY <1>4, <1>5, <1>6, <1>7, <1>8
<1>11. /\ s5["tohead_200ok_b"] = ToOfB /\ s5["fromhead_200ok_b"] = FromSipsl
       /\ s5["ContactB"] = ContactOfB
       /\ s5["tohead_200ok_a"] = ToSipsl /\ s5["fromhead_200ok_a"] = OfA
    BY <1>4, <1>5, <1>6, <1>7, <1>8
<1> QED
    BY <1>1, <1>9, <1>10, <1>11 DEF OkEntries

\* The 200 for A, made from A's INVITE with B's payload; what B said is remembered.
LEMMA FirstOk ==
    ASSUME NEW V \in AVias, NEW O, NEW N, Call(V, O, N), errors = {},
           NEW body \in Answers, OkFromB(body)
    PROVE  errors' = {} /\ Call(V, O, body)'
<1>1. PICK text, reply, invite_a, toalo, ok_x :
          /\ text \in RepliesOfB("200", body)
          /\ reply = Handled(NewMessage(text, "b"))
          /\ invite_a = Read(msg["invite_a"], {"toTag"})
          /\ toalo = ReadContact(Read(Handled(Copy(reply)), {"toTag"}))
          /\ ok_x = Handled(on200Ok(toalo, invite_a))
          /\ msg' = Keep(Keep(msg, "invite_a", invite_a), "STOREMESS_1_3", ok_x)
          /\ ctxt_store' = Remembered(toalo, ok_x)
          /\ wire' = wire \cup {Send(Copy(ok_x), "A")}
          /\ Errors({reply, toalo, invite_a, ok_x, Ready(Copy(ok_x))})
          /\ heard' = heard \cup {text}
    BY DEF OkFromB, Hear
<1>2. "STOREMESS_1_3" \notin DOMAIN msg /\ sequence' = sequence
    BY DEF OkFromB, Kept
<1>3. /\ TextSays(text, ReplyOfBSays("200", V, body)) /\ ~IsRequest(text, "INVITE")
      /\ One(HeadOf(text), "Contact", ContactOfB)
    BY <1>1, ReplyOfB
<1>4. Open(reply, ReplyOfBSays("200", V, body)) /\ reply.text = text
    BY <1>1, <1>3, NewStored, HandledFacts DEF SameMessage
<1>5. /\ Open(invite_a, InviteSays(V, O)) /\ Destroy(invite_a).errors = {}
      /\ GetToTag(FillIn(invite_a)) = NotFound /\ NotFound # Absent
      /\ Stored(invite_a, Said("invite_a", V, O, N))
    BY <1>1, InviteKept
<1>6. /\ GetContact(toalo) = ContactOfB
      /\ GetGenericHeader(toalo, "To") = ToOfB /\ GetGenericHeader(toalo, "From") = FromSipsl
      /\ GetHeadSipReply(toalo) = [reply |-> "200"]
      /\ GetSDP(toalo) = PayloadOf(body)
      /\ Destroy(toalo).errors = {}
    <2> DEFINE w == ReplyOfBSays("200", V, body)
               copy == Copy(reply)
               handled == Handled(copy)
               m == Read(handled, {"toTag"})
    <2>1. /\ w["start"] = [reply |-> "200"] /\ w["From"] = FromSipsl /\ w["To"] = ToOfB
          /\ w["sdp"] = body
        BY LetterFacts DEF ReplyOfBSays
    <2>2. Open(reply, w)
        BY <1>4
    <2> HIDE DEF w
    <2>3. Open(copy, w) /\ copy.text = text
        BY <1>4, <2>2, OpenFacts, CopyFacts
    <2> HIDE DEF copy
    <2>4. Open(handled, w) /\ handled.text = text
        BY <2>3, HandledFacts DEF Open, SameMessage
    <2> HIDE DEF handled
    <2>5. Open(m, w) /\ m.text = text
        BY <2>4, ReadStored DEF Open, SameMessage, Parsed
    <2> HIDE DEF m
    <2>6. GetGenericHeader(m, "Contact") = ContactOfB
        BY <1>3, <2>5, ContactFound
    <2>7. toalo = ReadContact(m)
        BY <1>1 DEF copy, handled, m
    <2> QED
        BY <2>1, <2>5, <2>6, <2>7, ReadContactFacts DEF Named
<1>7. LinesOf("sdp", body)
    BY TextsAssumption
<1>8. Open(ok_x, Said("STOREMESS_1_3", V, O, body))
    <2> DEFINE r == on200Ok(toalo, invite_a)
    <2>1. Open(r, Letter([reply |-> "200"], OfA,
                         [ToB EXCEPT !["tag"] = GetToTag(FillIn(invite_a))],
                         callId_X, CSeq(7, "INVITE"), V, body))
        BY <1>5, <1>6, <1>7, On200Ok DEF InviteSays, Open
    <2>2. Open(r, Said("STOREMESS_1_3", V, O, body))
        BY <1>5, <2>1 DEF Said, ReplySays, ToSipsl
    <2> HIDE DEF r
    <2> QED
        BY <1>1, <2>2, HandledFacts DEF r, Open
<1>9. Open(Copy(ok_x), Said("STOREMESS_1_3", V, O, body))
    BY <1>8, OpenFacts, CopyFacts
<1>10. errors' = {}
    <2>1. Destroy(reply).errors = {} /\ Destroy(ok_x).errors = {}
        BY <1>4, <1>8, StoredFacts DEF Open
    <2>2. Destroy(Ready(Copy(ok_x))).errors = {}
        BY <1>9, ReadyFacts, StoredFacts DEF Open
    <2> QED
        BY <1>1, <1>5, <1>6, <2>1, <2>2, NoErrors
<1>11. /\ DOMAIN msg' = DOMAIN msg \cup {"invite_a", "STOREMESS_1_3"}
       /\ msg'["invite_a"] = invite_a /\ msg'["STOREMESS_1_3"] = ok_x
       /\ \A k \in DOMAIN msg : k \notin {"invite_a", "STOREMESS_1_3"} => msg'[k] = msg[k]
    BY <1>1 DEF Keep
<1>12. /\ MessagesSay(msg, V, O, N) /\ WireSays(wire, msg, V, O, N)
       /\ HeardSays(heard, msg, V, O, N) /\ StoreSays(ctxt_store, msg)
       /\ NumbersSay(sequence, msg)
    BY DEF Call
<1>13. MessagesSay(msg', V, O, body)
    <2>1. Stored(invite_a, Said("invite_a", V, O, body))
        BY <1>5 DEF Said
    <2>2. \A k \in DOMAIN msg' : \/ k \in DOMAIN msg /\ msg'[k] = msg[k]
                                 \/ Stored(msg'[k], Said(k, V, O, body))
        BY <1>8, <1>11, <2>1 DEF Open
    <2>3. /\ DOMAIN msg \subseteq DOMAIN msg' /\ DOMAIN msg' \subseteq Roles
          /\ "STOREMESS_1_3" \in DOMAIN msg'
        BY <1>11, <1>12 DEF MessagesSay, Roles
    <2> QED
        BY <1>2, <1>12, <2>2, <2>3, MessagesGrow
<1>14. WireSays(wire', msg', V, O, body)
    <2> DEFINE more == {Send(Copy(ok_x), "A")}
    <2>1. SentAs(Send(Copy(ok_x), "A"), "STOREMESS_1_3", V, O, body)
        BY <1>9, Sending DEF ToA, SideOf, Open
    <2>2. \A x \in more : \E y \in DOMAIN msg' \cup {"503"} :
              y \notin {"invite_a", "invite_b"} /\ SentAs(x, y, V, O, body)
        BY <1>11, <2>1
    <2>3. DOMAIN msg \subseteq DOMAIN msg' /\ msg'["invite_b"].text = msg["invite_b"].text
        BY <1>11, <1>12 DEF MessagesSay
    <2>4. wire' = wire \cup more
        BY <1>1
    <2> HIDE DEF more
    <2>5. WireSays(wire \cup more, msg', V, O, body)
        BY <1>2, <1>12, <2>2, <2>3, WireGrows
    <2> QED
        BY <2>4, <2>5
<1>15. HeardSays(heard', msg', V, O, body)
    BY <1>1, <1>3, <1>12 DEF HeardSays
<1>16. StoreSays(ctxt_store', msg')
    <2>1. /\ GetGenericHeader(ok_x, "To") = ToSipsl /\ GetGenericHeader(ok_x, "From") = OfA
        <3>1. /\ Said("STOREMESS_1_3", V, O, body)["To"] = ToSipsl
              /\ Said("STOREMESS_1_3", V, O, body)["From"] = OfA
            BY DEF Said, ReplySays, Letter, LetterFields, Named
        <3> QED
            BY <1>8, <3>1, OpenGetters DEF Named
    <2>2. /\ OkEntries(ctxt_store') /\ DOMAIN ctxt_store' = DOMAIN ctxt_store \cup OkKeys
          /\ \A k \in DOMAIN ctxt_store : ctxt_store'[k] = ctxt_store[k]
        BY <1>1, <1>2, <1>6, <2>1, RememberedFacts
    <2> QED
        BY <1>11, <1>12, <2>2 DEF StoreSays, OkKeys, StoreKeys
<1>17. NumbersSay(sequence', msg')
    BY <1>2, <1>11, <1>12 DEF NumbersSay
<1> QED
    BY <1>10, <1>13, <1>14, <1>15, <1>16, <1>17 DEF Call

\* A request of A or B in the dialog has one Via.
LEMMA ViaOfFacts ==
    ASSUME NEW host, NEW branch
    PROVE  LinesOf("Via", ViaOf(host, branch)) /\ ViaOf(host, branch) # <<>>
<1> DEFINE l == Line("Via", [host |-> host, branch |-> branch])
<1>1. l = Line("Via", l.v)
    BY DEF Line
<1>2. ViaOf(host, branch) = <<l>>
    BY DEF ViaOf
<1> HIDE DEF l
<1>3. IsSeq(<<l>>) /\ DOMAIN <<l>> = {1} /\ <<l>>[1] = l
    BY OneLine
<1>4. \A i \in DOMAIN <<l>> : <<l>>[i] = Line("Via", <<l>>[i].v)
    BY <1>1, <1>3
<1>5. <<l>> # <<>>
    OBVIOUS
<1> DEFINE ll == <<l>>
<1>6. LinesOf("Via", ll)
    <2>1. IsSeq(ll) /\ \A i \in DOMAIN ll : ll[i] = Line("Via", ll[i].v)
        BY <1>3, <1>4
    <2> HIDE DEF ll
    <2> QED
        BY <2>1, LinesOfIntro
<1> QED
    BY <1>2, <1>5, <1>6

\* The ACK that A sends for the 200.
LEMMA AckText ==
    ASSUME NEW V \in AVias, NEW O, NEW N, Call(V, O, N), NEW body \in Offers,
           NEW ok \in SentTo("A"), IsReplyTo(ok, "200", "INVITE")
    PROVE  /\ TextSays(AckOfA(ok, body),
                       Letter([request |-> "ACK", uri |-> "b"], OfA, ToSipsl, callId_X,
                              CSeq(7, "ACK"), ViaOf("a", "a2"), body))
           /\ ~IsRequest(AckOfA(ok, body), "INVITE")
<1>1. HeaderOf(ok, "From") = OfA /\ HeaderOf(ok, "To") = ToSipsl
    BY OkToA, TextGives DEF Said, ReplySays
<1>2. LinesOf("sdp", body)
    BY TextsAssumption
<1>3. AckOfA(ok, body) = Request("ACK", "b", ViaOf("a", "a2"), OfA, ToSipsl, callId_X, 7,
                                 [uri |-> "contactA"], FALSE, body)
    BY <1>1 DEF AckOfA, ViaOf
<1>4. TextSays(AckOfA(ok, body),
               Letter([request |-> "ACK", uri |-> "b"], OfA, ToSipsl, callId_X,
                      CSeq(7, "ACK"), ViaOf("a", "a2"), body))
    BY <1>2, <1>3, ViaOfFacts, RequestText
<1>5. AckOfA(ok, body)[1].v = [request |-> "ACK", uri |-> "b"]
    BY <1>4, TextGives
<1> QED
    BY <1>4, <1>5 DEF IsRequest

\* The ACK for B, with what is remembered of the 200.
LEMMA FirstAck ==
    ASSUME NEW V \in AVias, NEW O, NEW N, Call(V, O, N), errors = {},
           NEW body \in Offers, AckFromA(body)
    PROVE  errors' = {} /\ Call(V, O, N)'
<1> DEFINE said == Letter([request |-> "ACK", uri |-> "b"], OfA, ToSipsl, callId_X,
                          CSeq(7, "ACK"), ViaOf("a", "a2"), body)
<1>1. PICK ok, received, ack, ack_b :
          /\ ok \in SentTo("A") /\ IsReplyTo(ok, "200", "INVITE")
          /\ received = Handled(NewMessage(AckOfA(ok, body), "a"))
          /\ ack = Handled(Copy(received))
          /\ ack_b = Handled(onAck(ack))
          /\ msg' = Keep(msg, "ack_b", Ready(Copy(ack_b)))
          /\ wire' = wire \cup {Send(Copy(ack_b), "B")}
          /\ Errors({received, ack, ack_b, Ready(Copy(ack_b))})
          /\ heard' = heard \cup {AckOfA(ok, body)}
    BY DEF AckFromA, Hear
<1>2. ctxt_store' = ctxt_store /\ sequence' = sequence /\ "ack_b" \notin DOMAIN msg
    BY DEF AckFromA, Kept
<1>3. "STOREMESS_1_3" \in DOMAIN msg
    BY <1>1, OkToA
<1>4. TextSays(AckOfA(ok, body), said) /\ ~IsRequest(AckOfA(ok, body), "INVITE")
    BY <1>1, AckText
<1>5. said["CSeq"] = CSeq(7, "ACK")
    BY LetterFacts
<1> HIDE DEF said
<1>6. Open(received, said)
    BY <1>1, <1>4, NewStored, HandledFacts
<1>7. Open(ack, said)
    <2>1. Open(Copy(received), said)
        BY <1>6, OpenFacts, CopyFacts
    <2> QED
        BY <1>1, <2>1, HandledFacts DEF Open
<1>8. /\ MessagesSay(msg, V, O, N) /\ WireSays(wire, msg, V, O, N)
      /\ HeardSays(heard, msg, V, O, N) /\ StoreSays(ctxt_store, msg)
      /\ NumbersSay(sequence, msg)
    BY DEF Call
<1>9. Open(ack_b, Said("ack_b", V, O, N))
    <2>1. GetHeadCSeq(ack).method = "ACK"
        BY <1>5, <1>7, OpenGetters DEF CSeq
    <2>2. /\ ctxt_store["ContactB"].uri = "contactB" /\ ctxt_store["tohead_200ok_b"] = ToOfB
          /\ ctxt_store["fromhead_200ok_b"] = FromSipsl
          /\ ctxt_store["CSeqB2BINVITE"].number = 1
        BY <1>3, <1>8 DEF StoreSays, OkEntries, ContactOfB, CSeq
    <2>3. TextSays(ack.text, said)
        BY <1>7, OpenFacts
    <2>4. Stored(onAck(ack), Letter([request |-> "ACK", uri |-> "contactB"], FromSipsl, ToOfB,
                                    callId_Y, CSeq(1, "ACK"),
                                    OnTop(SipslVia("ack"), ViaOf("a", "a2")), <<>>))
        BY <2>1, <2>2, <2>3, OnAck DEF said
    <2>5. Stored(onAck(ack), Said("ack_b", V, O, N))
        BY <2>4 DEF Said, OfSipsl
    <2> QED
        BY <1>1, <2>5, HandledFacts
<1>10. /\ Stored(Copy(ack_b), Said("ack_b", V, O, N))
       /\ Stored(Ready(Copy(ack_b)), Said("ack_b", V, O, N))
    <2>1. Open(Copy(ack_b), Said("ack_b", V, O, N))
        BY <1>9, OpenFacts, CopyFacts
    <2> QED
        BY <2>1, ReadyFacts DEF Open
<1>11. errors' = {}
    <2>1. /\ Destroy(received).errors = {} /\ Destroy(ack).errors = {}
          /\ Destroy(ack_b).errors = {}
        BY <1>6, <1>7, <1>9, StoredFacts DEF Open
    <2>2. Destroy(Ready(Copy(ack_b))).errors = {}
        BY <1>10, StoredFacts
    <2> QED
        BY <1>1, <2>1, <2>2, NoErrors
<1>12. /\ DOMAIN msg' = DOMAIN msg \cup {"ack_b"} /\ msg'["ack_b"] = Ready(Copy(ack_b))
       /\ \A k \in DOMAIN msg : k # "ack_b" => msg'[k] = msg[k]
    BY <1>1 DEF Keep
<1>13. MessagesSay(msg', V, O, N)
    <2>1. \A k \in DOMAIN msg' : \/ k \in DOMAIN msg /\ msg'[k] = msg[k]
                                 \/ Stored(msg'[k], Said(k, V, O, N))
        BY <1>10, <1>12
    <2>2. /\ DOMAIN msg \subseteq DOMAIN msg' /\ DOMAIN msg' \subseteq Roles
          /\ "STOREMESS_1_3" \in DOMAIN msg'
        BY <1>3, <1>8, <1>12 DEF MessagesSay, Roles
    <2> QED
        BY <1>8, <2>1, <2>2, MessagesGrow
<1>14. WireSays(wire', msg', V, O, N)
    <2> DEFINE more == {Send(Copy(ack_b), "B")}
    <2>1. SentAs(Send(Copy(ack_b), "B"), "ack_b", V, O, N)
        BY <1>10, Sending DEF ToA, ToBSide, SideOf
    <2>2. \A x \in more : \E y \in DOMAIN msg' \cup {"503"} :
              y \notin {"invite_a", "invite_b"} /\ SentAs(x, y, V, O, N)
        BY <1>12, <2>1
    <2>3. DOMAIN msg \subseteq DOMAIN msg' /\ msg'["invite_b"].text = msg["invite_b"].text
        BY <1>8, <1>12 DEF MessagesSay
    <2>4. wire' = wire \cup more
        BY <1>1
    <2> HIDE DEF more
    <2>5. WireSays(wire \cup more, msg', V, O, N)
        BY <1>8, <2>2, <2>3, WireGrows
    <2> QED
        BY <2>4, <2>5
<1>15. HeardSays(heard', msg', V, O, N)
    <2> DEFINE t == AckOfA(ok, body)
    <2>1. ~IsRequest(t, "INVITE") /\ heard' = heard \cup {t}
        BY <1>1, <1>4
    <2> HIDE DEF t
    <2> QED
        BY <1>3, <1>8, <2>1, HeardGrows
<1>16. StoreSays(ctxt_store', msg') /\ NumbersSay(sequence', msg')
    BY <1>2, <1>12, <1>8 DEF StoreSays, NumbersSay
<1> QED
    BY <1>11, <1>13, <1>14, <1>15, <1>16 DEF Call

\* The BYE of A, and the BYE of B.
LEMMA ByeTextOfA ==
    ASSUME NEW V \in AVias, NEW O, NEW N, Call(V, O, N),
           NEW ok \in SentTo("A"), IsReplyTo(ok, "200", "INVITE")
    PROVE  /\ TextSays(ByeOfA(ok),
                       Letter([request |-> "BYE", uri |-> "b"], OfA, ToSipsl, callId_X,
                              CSeq(8, "BYE"), ViaOf("a", "a3"), <<>>))
           /\ ~IsRequest(ByeOfA(ok), "INVITE")
<1>1. HeaderOf(ok, "From") = OfA /\ HeaderOf(ok, "To") = ToSipsl
    BY OkToA, TextGives DEF Said, ReplySays
<1>2. ASSUME NEW e, e = <<>>
      PROVE  TextSays(ByeOfA(ok), Letter([request |-> "BYE", uri |-> "b"], OfA, ToSipsl, callId_X,
                                         CSeq(8, "BYE"), ViaOf("a", "a3"), e))
    <2>1. ByeOfA(ok) = Request("BYE", "b", ViaOf("a", "a3"), OfA, ToSipsl, callId_X, 8,
                               [uri |-> "contactA"], FALSE, e)
        BY <1>1, <1>2 DEF ByeOfA, ViaOf
    <2>2. LinesOf("sdp", e)
        BY <1>2, EmptyFacts
    <2> QED
        BY <2>1, <2>2, ViaOfFacts, RequestText
<1>3. ByeOfA(ok)[1].v = [request |-> "BYE", uri |-> "b"]
    BY <1>2, TextGives
<1> QED
    BY <1>2, <1>3 DEF IsRequest

\* The BYE of B, in the dialog with SIPSL.
LEMMA ByeTextOfB ==
    ASSUME NEW V \in AVias, NEW O, NEW N, Call(V, O, N),
           NEW invite \in SentTo("B"), IsRequest(invite, "INVITE")
    PROVE  /\ TextSays(ByeOfB(invite),
                       Letter([request |-> "BYE", uri |-> "sipsl"], ToOfB, FromSipsl, callId_Y,
                              CSeq(1, "BYE"), ViaOf("b", "b1"), <<>>))
           /\ ~IsRequest(ByeOfB(invite), "INVITE")
<1>1. HeaderOf(invite, "From") = FromSipsl /\ HeaderOf(invite, "To") = ToB
    BY InviteToB, TextGives DEF Said
<1>2. ASSUME NEW e, e = <<>>
      PROVE  TextSays(ByeOfB(invite),
                      Letter([request |-> "BYE", uri |-> "sipsl"], ToOfB, FromSipsl, callId_Y,
                             CSeq(1, "BYE"), ViaOf("b", "b1"), e))
    <2>1. ByeOfB(invite) = Request("BYE", "sipsl", ViaOf("b", "b1"), ToOfB, FromSipsl, callId_Y,
                                   1, [uri |-> "contactB"], FALSE, e)
        BY <1>1, <1>2 DEF ByeOfB, ViaOf, ToOfB
    <2>2. LinesOf("sdp", e)
        BY <1>2, EmptyFacts
    <2> QED
        BY <2>1, <2>2, ViaOfFacts, RequestText
<1>3. ByeOfB(invite)[1].v = [request |-> "BYE", uri |-> "sipsl"]
    BY <1>2, TextGives
<1> QED
    BY <1>2, <1>3 DEF IsRequest

\* The side the BYE came from is answered, the other one gets a BYE of SIPSL.
LEMMA HungUp ==
    ASSUME NEW V \in AVias, NEW O, NEW N, Call(V, O, N), errors = {},
           "STOREMESS_1_3" \in DOMAIN msg, NEW side \in {"A", "B"},
           NEW text, ~IsRequest(text, "INVITE"),
           NEW received, Destroy(received).errors = {}, received.text = text,
           NEW bye, Open(bye, Said(ByeTo(OtherSide(side)), V, O, N)),
           Stored(genQuickReplyFromInvite(Copy(received), "200"),
                  Said(STORED_MESSAGE(side), V, O, N)),
           Bye(received, bye, side), ctxt_store' = ctxt_store
    PROVE  /\ errors' = {} /\ MessagesSay(msg', V, O, N) /\ WireSays(wire', msg', V, O, N)
           /\ HeardSays(heard', msg', V, O, N) /\ StoreSays(ctxt_store', msg')
           /\ DOMAIN msg' = DOMAIN msg \cup {ByeTo(OtherSide(side)), STORED_MESSAGE(side)}
<1> DEFINE a200ok == Ready(genQuickReplyFromInvite(Copy(received), "200"))
           sent == Copy(bye)
           other == OtherSide(side)
           k1 == ByeTo(OtherSide(side))
           k2 == STORED_MESSAGE(side)
           d1 == Send(a200ok, side)
           d2 == Send(sent, other)
<1>1. /\ msg' = Keep(Keep(msg, k1, bye), k2, a200ok)
      /\ wire' = wire \cup {d1, d2}
      /\ Errors({received, bye, a200ok, Ready(sent)})
      /\ heard' = heard \cup {text}
    BY DEF Bye, Hear
<1>2. /\ k1 \in {"byeA", "byeB"} /\ k2 \in {"STORED_MESSAGEA", "STORED_MESSAGEB"} /\ k1 # k2
      /\ SideOf(k1) = other /\ SideOf(k2) = side
      /\ {k1, k2} \subseteq ToA \cup ToBSide
    BY DEF ByeTo, OtherSide, STORED_MESSAGE, SideOf, ToA, ToBSide
<1>3. Open(a200ok, Said(k2, V, O, N))
    BY ReadyFacts
<1>4. Open(bye, Said(k1, V, O, N))
    OBVIOUS
<1> HIDE DEF a200ok, k1, k2, other
<1>5. Open(sent, Said(k1, V, O, N))
    BY <1>4, OpenFacts, CopyFacts
<1> HIDE DEF sent
<1>6. SentAs(d1, k2, V, O, N)
    BY <1>2, <1>3, Sending DEF Open
<1>7. SentAs(d2, k1, V, O, N)
    BY <1>2, <1>5, Sending DEF Open
<1> HIDE DEF d1, d2
<1>8. errors' = {}
    <2>1. Destroy(bye).errors = {} /\ Destroy(a200ok).errors = {}
        BY <1>3, <1>4, StoredFacts DEF Open
    <2>2. Destroy(Ready(sent)).errors = {}
        BY <1>5, ReadyFacts, StoredFacts DEF Open
    <2> QED
        BY <1>1, <2>1, <2>2, NoErrors
<1>9. /\ DOMAIN msg' = DOMAIN msg \cup {k1, k2} /\ msg'[k1] = bye /\ msg'[k2] = a200ok
      /\ \A k \in DOMAIN msg : k \notin {k1, k2} => msg'[k] = msg[k]
    <2> DEFINE m1 == Keep(msg, k1, bye)
    <2>1. /\ DOMAIN m1 = DOMAIN msg \cup {k1} /\ m1[k1] = bye
          /\ \A k \in DOMAIN msg : k # k1 => m1[k] = msg[k]
        BY DEF Keep
    <2> HIDE DEF m1
    <2>2. msg' = Keep(m1, k2, a200ok)
        BY <1>1 DEF m1
    <2> QED
        BY <1>2, <2>1, <2>2 DEF Keep
<1>10. /\ MessagesSay(msg, V, O, N) /\ WireSays(wire, msg, V, O, N)
       /\ HeardSays(heard, msg, V, O, N) /\ StoreSays(ctxt_store, msg)
    BY DEF Call
<1>11. MessagesSay(msg', V, O, N)
    <2>1. \A k \in DOMAIN msg' : \/ k \in DOMAIN msg /\ msg'[k] = msg[k]
                                 \/ Stored(msg'[k], Said(k, V, O, N))
        BY <1>3, <1>4, <1>9 DEF Open
    <2>2. /\ DOMAIN msg \subseteq DOMAIN msg' /\ DOMAIN msg' \subseteq Roles
          /\ "STOREMESS_1_3" \in DOMAIN msg'
        BY <1>2, <1>9, <1>10 DEF MessagesSay, Roles
    <2> QED
        BY <1>10, <2>1, <2>2, MessagesGrow
<1>12. WireSays(wire', msg', V, O, N)
    <2> DEFINE more == {d1, d2}
    <2>1. \A x \in more : \E y \in DOMAIN msg' \cup {"503"} :
              y \notin {"invite_a", "invite_b"} /\ SentAs(x, y, V, O, N)
        BY <1>2, <1>6, <1>7, <1>9
    <2>2. DOMAIN msg \subseteq DOMAIN msg' /\ msg'["invite_b"].text = msg["invite_b"].text
        BY <1>2, <1>9, <1>10 DEF MessagesSay
    <2>3. wire' = wire \cup more
        BY <1>1
    <2> HIDE DEF more
    <2>4. WireSays(wire \cup more, msg', V, O, N)
        BY <1>10, <2>1, <2>2, WireGrows
    <2> QED
        BY <2>3, <2>4
<1>13. HeardSays(heard', msg', V, O, N)
    BY <1>1, <1>10, HeardGrows
<1>14. StoreSays(ctxt_store', msg')
    BY <1>2, <1>9, <1>10 DEF StoreSays
<1> QED
    BY <1>8, <1>9, <1>11, <1>12, <1>13, <1>14 DEF k1, k2

\* A hangs up.
LEMMA FirstByeOfA ==
    ASSUME NEW V \in AVias, NEW O, NEW N, Call(V, O, N), errors = {}, ByeFromA
    PROVE  errors' = {} /\ Call(V, O, N)'
<1> DEFINE said == Letter([request |-> "BYE", uri |-> "b"], OfA, ToSipsl, callId_X,
                          CSeq(8, "BYE"), ViaOf("a", "a3"), <<>>)
<1>1. PICK ok, received, number :
          /\ ok \in SentTo("A") /\ IsReplyTo(ok, "200", "INVITE")
          /\ received = Handled(NewMessage(ByeOfA(ok), "a"))
          /\ number = sequence["INVITE_B"] + 1
          /\ Bye(received, Handled(onByeFwd(Handled(Copy(received)), number)), "A")
          /\ sequence' = [sequence EXCEPT !["INVITE_B"] = number]
    BY DEF ByeFromA
<1>2. ctxt_store' = ctxt_store /\ "byeA" \notin DOMAIN msg /\ "byeB" \notin DOMAIN msg
    BY DEF ByeFromA, Kept
<1>3. "STOREMESS_1_3" \in DOMAIN msg
    BY <1>1, OkToA
<1> DEFINE text == ByeOfA(ok)
           by == Handled(Copy(received))
           bye == Handled(onByeFwd(by, number))
<1>4. TextSays(text, said) /\ ~IsRequest(text, "INVITE")
    BY <1>1, ByeTextOfA
<1>5. Open(received, said) /\ received.text = text
    <2> HIDE DEF said, text
    <2>1. Stored(NewMessage(text, "a"), said) /\ NewMessage(text, "a").text = text
        BY <1>4, NewStored
    <2>2. received = Handled(NewMessage(text, "a"))
        BY <1>1 DEF text
    <2> QED
        BY <2>1, <2>2, HandledFacts DEF SameMessage
<1>6. TextSays(by.text, said) /\ TextSays(Copy(received).text, said)
    <2> HIDE DEF said
    <2>1. Open(Copy(received), said)
        BY <1>5, OpenFacts, CopyFacts
    <2> QED
        BY <2>1, OpenFacts, HandledFacts DEF Open
<1>7. /\ StoreSays(ctxt_store, msg) /\ NumbersSay(sequence, msg)
    BY DEF Call
<1>8. number = 2
    BY <1>1, <1>2, <1>7 DEF NumbersSay
<1>9. Stored(genQuickReplyFromInvite(Copy(received), "200"), Said("STORED_MESSAGEA", V, O, N))
    <2>1. Draft(Copy(received), said, "buffer", "buffer")
        <3> HIDE DEF said
        <3> QED
            BY <1>5, OpenFacts, CopyFacts
    <2> QED
        BY <2>1, QuickReplyFromInvite DEF Said
<1>10. Open(bye, Said("byeB", V, O, N))
    <2> HIDE DEF by
    <2>1. /\ ctxt_store["ContactB"].uri = "contactB" /\ ctxt_store["tohead_200ok_b"] = ToOfB
          /\ ctxt_store["fromhead_200ok_b"] = FromSipsl
        BY <1>3, <1>7 DEF StoreSays, OkEntries, ContactOfB
    <2>2. Stored(onByeFwd(by, number),
                 Letter([request |-> "BYE", uri |-> "contactB"], FromSipsl, ToOfB, callId_Y,
                        CSeq(number, "BYE"), OnTop(SipslVia("byeFwd"), ViaOf("a", "a3")), <<>>))
        BY <1>6, <2>1, OnByeFwd
    <2>3. Stored(onByeFwd(by, number), Said("byeB", V, O, N))
        BY <1>8, <2>2 DEF Said, OfSipsl
    <2> QED
        BY <2>3, HandledFacts
<1> HIDE DEF said, text
<1>11. /\ ByeTo(OtherSide("A")) = "byeB" /\ STORED_MESSAGE("A") = "STORED_MESSAGEA"
    BY DEF ByeTo, OtherSide, STORED_MESSAGE
<1>12. Destroy(received).errors = {} /\ Bye(received, bye, "A")
    BY <1>1, <1>5, StoredFacts DEF Open
<1> HIDE DEF bye
<1>13. /\ errors' = {} /\ MessagesSay(msg', V, O, N) /\ WireSays(wire', msg', V, O, N)
       /\ HeardSays(heard', msg', V, O, N) /\ StoreSays(ctxt_store', msg')
       /\ DOMAIN msg' = DOMAIN msg \cup {"byeB", "STORED_MESSAGEA"}
    BY <1>2, <1>3, <1>4, <1>5, <1>9, <1>10, <1>11, <1>12, HungUp
<1>14. NumbersSay(sequence', msg')
    BY <1>1, <1>7, <1>8, <1>13 DEF NumbersSay
<1> QED
    BY <1>13, <1>14 DEF Call

\* B hangs up.
LEMMA FirstByeOfB ==
    ASSUME NEW V \in AVias, NEW O, NEW N, Call(V, O, N), errors = {}, ByeFromB
    PROVE  errors' = {} /\ Call(V, O, N)'
<1> DEFINE said == Letter([request |-> "BYE", uri |-> "sipsl"], ToOfB, FromSipsl, callId_Y,
                          CSeq(1, "BYE"), ViaOf("b", "b1"), <<>>)
           invite_a == msg["invite_a"]
<1>1. PICK invite, received :
          /\ invite \in SentTo("B") /\ IsRequest(invite, "INVITE")
          /\ received = Handled(NewMessage(ByeOfB(invite), "b"))
          /\ Bye(received, Handled(onByeBkwd(Handled(Copy(received)), invite_a)), "B")
    BY DEF ByeFromB
<1>2. ctxt_store' = ctxt_store /\ sequence' = sequence /\ "ack_b" \in DOMAIN msg
    BY DEF ByeFromB, Kept
<1>3. "STOREMESS_1_3" \in DOMAIN msg
    BY <1>2 DEF Call, MessagesSay
<1> DEFINE text == ByeOfB(invite)
           by == Handled(Copy(received))
           bye == Handled(onByeBkwd(by, invite_a))
<1>4. TextSays(text, said) /\ ~IsRequest(text, "INVITE")
    BY <1>1, ByeTextOfB
<1>5. Open(received, said) /\ received.text = text
    <2> HIDE DEF said, text
    <2>1. Stored(NewMessage(text, "b"), said) /\ NewMessage(text, "b").text = text
        BY <1>4, NewStored
    <2>2. received = Handled(NewMessage(text, "b"))
        BY <1>1 DEF text
    <2> QED
        BY <2>1, <2>2, HandledFacts DEF SameMessage
<1>6. TextSays(by.text, said) /\ TextSays(Copy(received).text, said)
    <2> HIDE DEF said
    <2>1. Open(Copy(received), said)
        BY <1>5, OpenFacts, CopyFacts
    <2> QED
        BY <2>1, OpenFacts, HandledFacts DEF Open
<1>7. /\ StoreSays(ctxt_store, msg) /\ NumbersSay(sequence, msg) /\ MessagesSay(msg, V, O, N)
    BY DEF Call
<1>8. GetViaLine(FillIn(invite_a)).host = V[1].v.host
    <2>1. Stored(invite_a, InviteSays(V, O))
        BY <1>7 DEF MessagesSay, Said
    <2>2. InviteSays(V, O)["Via"] = V
        BY LetterFacts DEF InviteSays
    <2> HIDE DEF invite_a
    <2> QED
        BY <2>1, <2>2, FillInStored, OpenGetters
<1>9. Stored(genQuickReplyFromInvite(Copy(received), "200"), Said("STORED_MESSAGEB", V, O, N))
    <2>1. Draft(Copy(received), said, "buffer", "buffer")
        <3> HIDE DEF said
        <3> QED
            BY <1>5, OpenFacts, CopyFacts
    <2> QED
        BY <2>1, QuickReplyFromInvite DEF Said
<1>10. Open(bye, Said("byeA", V, O, N))
    <2> HIDE DEF by, invite_a
    <2>1. /\ ctxt_store["fromhead_200ok_a"] = OfA /\ ctxt_store["tohead_200ok_a"] = ToSipsl
          /\ sequence["INVITE_A"] = 7
        BY <1>3, <1>7 DEF StoreSays, OkEntries, NumbersSay
    <2> DEFINE host == V[1].v.host
    <2>2. GetViaLine(FillIn(invite_a)).host = host
        BY <1>8
    <2> HIDE DEF host
    <2>3. Stored(onByeBkwd(by, invite_a),
                 Letter([request |-> "BYE", uri |-> host], ToSipsl, OfA, callId_X,
                        CSeq(7, "BYE"), OnTop(SipslVia("byeBkwd"), ViaOf("b", "b1")), <<>>))
        BY <1>6, <2>1, <2>2, OnByeBkwd
    <2>4. Stored(onByeBkwd(by, invite_a), Said("byeA", V, O, N))
        BY <2>3 DEF Said, OfSipsl, host
    <2> QED
        BY <2>4, HandledFacts
<1> HIDE DEF said, text
<1>11. /\ ByeTo(OtherSide("B")) = "byeA" /\ STORED_MESSAGE("B") = "STORED_MESSAGEB"
    BY DEF ByeTo, OtherSide, STORED_MESSAGE
<1>12. Destroy(received).errors = {} /\ Bye(received, bye, "B")
    BY <1>1, <1>5, StoredFacts DEF Open
<1> HIDE DEF bye, invite_a
<1>13. /\ errors' = {} /\ MessagesSay(msg', V, O, N) /\ WireSays(wire', msg', V, O, N)
       /\ HeardSays(heard', msg', V, O, N) /\ StoreSays(ctxt_store', msg')
       /\ DOMAIN msg' = DOMAIN msg \cup {"byeA", "STORED_MESSAGEB"}
    BY <1>2, <1>3, <1>4, <1>5, <1>9, <1>10, <1>11, <1>12, HungUp
<1>14. NumbersSay(sequence', msg')
    BY <1>2, <1>7, <1>13 DEF NumbersSay
<1> QED
    BY <1>13, <1>14 DEF Call

---------------------------------------------------------------------------
(* The invariant is inductive. *)

\* Nothing is known at the beginning.
LEMMA InitInv == Init => Inv
<1> SUFFICES ASSUME Init
             PROVE  Inv
    OBVIOUS
<1>1. errors = {} /\ Idle
    BY DEF Init, Idle
<1> QED
    BY <1>1 DEF Inv

\* Before the first INVITE nothing else can happen.
LEMMA FirstStep ==
    ASSUME Idle, errors = {}, Next
    PROVE  Inv'
<1>1. ~act_send_servunav_to_a /\ ~act_200ok_refwdto_a /\ ~act_resend_ack
    BY DEF act_send_servunav_to_a, act_200ok_refwdto_a, act_resend_ack, Kept, Idle
<1>2. ~ByeFromA /\ ~ByeFromB
    BY DEF ByeFromA, ByeFromB, Kept, Idle
<1>3. SentTo("A") = {} /\ SentTo("B") = {}
    BY DEF SentTo, Idle
<1>4. \A body : ~AckFromA(body)
    BY <1>3 DEF AckFromA
<1>5. \A body : ~ProvReplyFromB(body) /\ ~OkFromB(body)
    BY <1>3 DEF ProvReplyFromB, OkFromB, RepliesOfB
<1>6. PICK V \in AVias, given \in BOOLEAN, O \in Offers : InviteFromA(InviteOfA(V, given, O))
    BY <1>1, <1>2, <1>4, <1>5 DEF Next
<1>7. errors' = {} /\ Call(V, O, <<>>)'
    BY <1>6, FirstInvite
<1> QED
    BY <1>7 DEF Inv

\* Every step of a call keeps what is said in it.
LEMMA CallStep ==
    ASSUME NEW V \in AVias, NEW O \in Offers, NEW N \in Answers \cup {<<>>},
           Call(V, O, N), errors = {}, Next
    PROVE  Inv'
<1> DEFINE Good == errors' = {} /\ \E M \in Answers \cup {<<>>} : Call(V, O, M)'
<1> SUFFICES Good
    BY DEF Inv
<1>1. ASSUME NEW text
      PROVE  ~InviteFromA(text)
    BY DEF InviteFromA, Kept, Call, MessagesSay
<1>2. CASE act_send_servunav_to_a
    BY <1>2, InviteAgain
<1>3. ASSUME NEW body \in Answers, ProvReplyFromB(body)
      PROVE  Good
    BY <1>3, FirstRinging
<1>4. ASSUME NEW body \in Answers, OkFromB(body)
      PROVE  Good
    BY <1>4, FirstOk
<1>5. CASE act_200ok_refwdto_a
    BY <1>5, OkAgain
<1>6. ASSUME NEW body \in Offers, AckFromA(body)
      PROVE  Good
    BY <1>6, FirstAck
<1>7. CASE act_resend_ack
    BY <1>7, AckAgain
<1>8. CASE ByeFromA
    BY <1>8, FirstByeOfA
<1>9. CASE ByeFromB
    BY <1>9, FirstByeOfB
<1> HIDE DEF Good
<1> QED
    BY <1>1, <1>2, <1>3, <1>4, <1>5, <1>6, <1>7, <1>8, <1>9 DEF Next

\* A step that changes nothing keeps what is said.
LEMMA Stutter ==
    ASSUME Inv, UNCHANGED vars
    PROVE  Inv'
<1>1. /\ msg' = msg /\ ctxt_store' = ctxt_store /\ sequence' = sequence
      /\ heard' = heard /\ wire' = wire /\ errors' = errors
    BY DEF vars
<1> QED
    BY <1>1 DEF Inv, Idle, Call

\* The invariant holds in every reachable state, for every Via stack, offer, answer and
\* set of registered names.
THEOREM Invariance == Spec => []Inv
<1>1. Init => Inv
    BY InitInv
<1>2. Inv /\ [Next]_vars => Inv'
    <2> SUFFICES ASSUME Inv, [Next]_vars
                 PROVE  Inv'
        OBVIOUS
    <2>1. CASE UNCHANGED vars
        BY <2>1, Stutter
    <2>2. CASE Next
        BY <2>2, FirstStep, CallStep DEF Inv
    <2> QED
        BY <2>1, <2>2
<1> QED
    BY <1>1, <1>2, PTL DEF Spec

---------------------------------------------------------------------------
(* What follows from the invariant. *)

\* A step at which nothing was sent yet shows nothing; else there is a call.
LEMMA InCall ==
    ASSUME Inv, NEW d \in wire
    PROVE  \E V \in AVias, O \in Offers, N \in Answers \cup {<<>>} :
               /\ Call(V, O, N)
               /\ \E k \in ToA \cup ToBSide :
                      k \in DOMAIN msg \cup {"503"} /\ SentAs(d, k, V, O, N)
<1>1. PICK V \in AVias, O \in Offers, N \in Answers \cup {<<>>} : Call(V, O, N)
    BY DEF Inv, Idle
<1>2. PICK k \in DOMAIN msg \cup {"503"} : k # "invite_a" /\ SentAs(d, k, V, O, N)
    BY <1>1 DEF Call, WireSays
<1>3. k \in ToA \cup ToBSide
    BY <1>1, <1>2 DEF Call, MessagesSay, Roles, ToA, ToBSide
<1> QED
    BY <1>1, <1>2, <1>3

\* Messages that are kept have been read or compiled.
LEMMA InvTypeOK == Inv => TypeOK
<1> SUFFICES ASSUME Inv
             PROVE  TypeOK
    OBVIOUS
<1>1. \A w \in wire : w.side \in {"A", "B"}
    <2> SUFFICES ASSUME NEW w \in wire
                 PROVE  w.side \in {"A", "B"}
        OBVIOUS
    <2>1. \E V, O, N, k : SentAs(w, k, V, O, N)
        BY InCall
    <2> QED
        BY <2>1 DEF SentAs, SideOf
<1>2. CASE Idle
    BY <1>1, <1>2 DEF Idle, TypeOK
<1>3. CASE ~Idle
    <2>1. PICK V \in AVias, O \in Offers, N \in Answers \cup {<<>>} : Call(V, O, N)
        BY <1>3 DEF Inv
    <2>2. \A k \in DOMAIN msg : msg[k].status \in {0, 1} /\ msg[k].fills <= MaxFills
        BY <2>1, StoredFacts DEF Call, MessagesSay
    <2> QED
        BY <1>1, <2>1, <2>2 DEF Call, MessagesSay, StoreSays, NumbersSay, TypeOK
<1> QED
    BY <1>2, <1>3

\* What is cached of a stored message is what its lines say.
LEMMA InvCachesCoherent == Inv => CachesCoherent
<1> SUFFICES ASSUME Inv, NEW k \in DOMAIN msg
             PROVE  Coherent(msg[k])
    BY DEF CachesCoherent
<1>1. PICK V \in AVias, O \in Offers, N \in Answers \cup {<<>>} : Call(V, O, N)
    BY DEF Inv, Idle
<1>2. Stored(msg[k], Said(k, V, O, N))
    BY <1>1 DEF Call, MessagesSay
<1> QED
    BY <1>2, StoredFacts

\* What is sent says a letter, so its text is well formed.
LEMMA InvTextsWellFormed == Inv => TextsWellFormed
<1> SUFFICES ASSUME Inv, NEW w \in wire
             PROVE  WellFormed(w.text)
    BY DEF TextsWellFormed
<1>1. \E V, O, N, k : SentAs(w, k, V, O, N)
    BY InCall
<1> QED
    BY <1>1, TextWellFormed DEF SentAs

\* The first Via of what SIPSL asks for is its own.
LEMMA OfSipslFacts ==
    ASSUME NEW key, NEW vias, LinesOf("Via", vias), vias # <<>>
    PROVE  OfSipsl(key, vias)[1] = Line("Via", SipslVia(key))
    BY OnTopFacts DEF OfSipsl

\* The requests that B is sent.
RequestSays(t, method, uri, to, number, key) ==
    /\ t[1].v = [request |-> method, uri |-> uri]
    /\ HeaderOf(t, "From") = FromSipsl /\ HeaderOf(t, "To") = to
    /\ HeaderOf(t, "Call-ID") = callId_Y /\ HeaderOf(t, "CSeq") = CSeq(number, method)
    /\ ViasOf(t)[1] = Line("Via", SipslVia(key))

\* It is the INVITE, or it came after the 200 of B and goes by it.
LEMMA RequestToB ==
    ASSUME NEW V \in AVias, NEW O, NEW N, Call(V, O, N), NEW t \in RequestsTo("B")
    PROVE  \/ /\ RequestSays(t, "INVITE", "b", ToB, 1, "invite")
              /\ t = msg["invite_b"].text
           \/ /\ RequestSays(t, "ACK", "contactB", ToOfB, 1, "ack")
              /\ "STOREMESS_1_3" \in DOMAIN msg
           \/ /\ RequestSays(t, "BYE", "contactB", ToOfB, 2, "byeFwd")
              /\ "STOREMESS_1_3" \in DOMAIN msg
<1>1. t \in SentTo("B") /\ ~IsReply(t)
    BY DEF RequestsTo
<1>2. PICK k \in ToA \cup ToBSide :
          /\ k \in DOMAIN msg \cup {"503"} /\ SideOf(k) = "B"
          /\ TextSays(t, Said(k, V, O, N)) /\ t[1].v = Said(k, V, O, N)["start"]
          /\ k = "invite_b" => t = msg["invite_b"].text
    BY <1>1, SentBefore
<1>3. k \in {"invite_b", "ack_b", "byeB"}
    BY <1>1, <1>2, SaidStart DEF SideOf, ToBSide, IsReply
<1>4. CASE k = "invite_b"
    <2>1. LinesOf("Via", V) /\ V # <<>>
        BY TextsAssumption
    <2>2. TextSays(t, Letter([request |-> "INVITE", uri |-> "b"], FromSipsl, ToB, callId_Y,
                             CSeq(1, "INVITE"), OfSipsl("invite", V), O))
        BY <1>2, <1>4 DEF Said
    <2>3. RequestSays(t, "INVITE", "b", ToB, 1, "invite")
        BY <2>1, <2>2, TextGives, OfSipslFacts DEF RequestSays
    <2> QED
        BY <1>2, <1>4, <2>3
<1>5. CASE k = "ack_b"
    <2>1. TextSays(t, Letter([request |-> "ACK", uri |-> "contactB"], FromSipsl, ToOfB, callId_Y,
                             CSeq(1, "ACK"), OfSipsl("ack", ViaOf("a", "a2")), <<>>))
        BY <1>2, <1>5 DEF Said
    <2>2. RequestSays(t, "ACK", "contactB", ToOfB, 1, "ack")
        BY <2>1, TextGives, ViaOfFacts, OfSipslFacts DEF RequestSays
    <2> QED
        BY <1>2, <1>5, <2>2 DEF Call, MessagesSay
<1>6. CASE k = "byeB"
    <2>1. TextSays(t, Letter([request |-> "BYE", uri |-> "contactB"], FromSipsl, ToOfB, callId_Y,
                             CSeq(2, "BYE"), OfSipsl("byeFwd", ViaOf("a", "a3")), <<>>))
        BY <1>2, <1>6 DEF Said
    <2>2. RequestSays(t, "BYE", "contactB", ToOfB, 2, "byeFwd")
        BY <2>1, TextGives, ViaOfFacts, OfSipslFacts DEF RequestSays
    <2> QED
        BY <1>2, <1>6, <2>2 DEF Call, MessagesSay
<1> QED
    BY <1>3, <1>4, <1>5, <1>6

\* The 200 of B that the ACK and the BYE go by.
LEMMA OkOfB ==
    ASSUME NEW V \in AVias, NEW O, NEW N, Call(V, O, N), "STOREMESS_1_3" \in DOMAIN msg
    PROVE  \E ok \in heard :
               /\ IsReplyTo(ok, "200", "INVITE")
               /\ HeaderOf(ok, "To") = ToOfB /\ HeaderOf(ok, "Contact") = ContactOfB
               /\ HeaderOf(ok, "Call-ID") = callId_Y /\ Payload(ok) = N
<1>1. PICK ok \in heard : /\ TextSays(ok, ReplyOfBSays("200", V, N))
                          /\ One(HeadOf(ok), "Contact", ContactOfB)
    BY DEF Call, HeardSays
<1>2. HeaderOf(ok, "Contact") = ContactOfB
    BY <1>1, TextOf
<1>3. /\ ok[1].v = [reply |-> "200"] /\ HeaderOf(ok, "To") = ToOfB
      /\ HeaderOf(ok, "Call-ID") = callId_Y /\ HeaderOf(ok, "CSeq") = CSeq(1, "INVITE")
      /\ Payload(ok) = N
    BY <1>1, TextGives DEF ReplyOfBSays
<1>4. IsReplyTo(ok, "200", "INVITE")
    BY <1>3 DEF IsReplyTo, IsReply, CSeq
<1> QED
    BY <1>2, <1>3, <1>4

\* The requests to B form one dialog.
LEMMA InvDialogWithB == Inv => DialogWithB
<1> SUFFICES ASSUME Inv
             PROVE  DialogWithB
    OBVIOUS
<1>1. ASSUME NEW t \in RequestsTo("B"), NEW i \in RequestsTo("B"), IsRequest(i, "INVITE")
      PROVE  /\ HeaderOf(t, "Call-ID") = callId_Y
             /\ HeaderOf(t, "From") = HeaderOf(i, "From")
             /\ HeaderOf(t, "From").tag # OfA.tag
             /\ ViasOf(t)[1].v.host = "sipsl"
             /\ t # i => ViasOf(t)[1] # ViasOf(i)[1]
             /\ t # i => \E ok \in heard : /\ IsReplyTo(ok, "200", "INVITE")
                                          /\ HeaderOf(t, "To") = HeaderOf(ok, "To")
                                          /\ t[1].v.uri = HeaderOf(ok, "Contact").uri
             /\ LET number == HeaderOf(t, "CSeq").number
                    first == HeaderOf(i, "CSeq").number
                IN  /\ IsRequest(t, "ACK") => number = first
                    /\ IsRequest(t, "BYE") => number > first
    <2>1. PICK d \in wire : d.text = t
        BY DEF RequestsTo, SentTo
    <2>2. PICK V \in AVias, O \in Offers, N \in Answers \cup {<<>>} : Call(V, O, N)
        BY <2>1, InCall
    <2>3. /\ RequestSays(i, "INVITE", "b", ToB, 1, "invite")
          /\ i = msg["invite_b"].text
        <3>1. i \in SentTo("B")
            BY DEF RequestsTo
        <3>2. i[1].v.request = "INVITE"
            BY <1>1 DEF IsRequest
        <3>3. ~RequestSays(i, "ACK", "contactB", ToOfB, 1, "ack")
              /\ ~RequestSays(i, "BYE", "contactB", ToOfB, 2, "byeFwd")
            BY <3>2 DEF RequestSays
        <3> QED
            BY <2>2, <3>3, RequestToB
    <2>4. FromSipsl.tag # OfA.tag
        BY DEF FromSipsl, OfA
    <2>5. /\ Line("Via", SipslVia("invite")).v.host = "sipsl"
          /\ Line("Via", SipslVia("ack")).v.host = "sipsl"
          /\ Line("Via", SipslVia("byeFwd")).v.host = "sipsl"
        BY DEF Line, SipslVia
    <2>6. /\ Line("Via", SipslVia("ack")) # Line("Via", SipslVia("invite"))
          /\ Line("Via", SipslVia("byeFwd")) # Line("Via", SipslVia("invite"))
        BY DEF Line, SipslVia
    <2>7. CASE /\ RequestSays(t, "INVITE", "b", ToB, 1, "invite")
               /\ t = msg["invite_b"].text
        <3>1. t[1].v.request = "INVITE"
            BY <2>7 DEF RequestSays
        <3> QED
            BY <2>3, <2>4, <2>5, <2>7, <3>1 DEF RequestSays, IsRequest
    <2>8. ASSUME "STOREMESS_1_3" \in DOMAIN msg, t[1].v.uri = "contactB",
                 HeaderOf(t, "To") = ToOfB
          PROVE  \E ok \in heard : /\ IsReplyTo(ok, "200", "INVITE")
                                   /\ HeaderOf(t, "To") = HeaderOf(ok, "To")
                                   /\ t[1].v.uri = HeaderOf(ok, "Contact").uri
        BY <2>2, <2>8, OkOfB DEF ContactOfB
    <2>9. CASE /\ RequestSays(t, "ACK", "contactB", ToOfB, 1, "ack")
               /\ "STOREMESS_1_3" \in DOMAIN msg
        <3>1. t[1].v.request = "ACK" /\ t[1].v.uri = "contactB"
            BY <2>9 DEF RequestSays
        <3>2. HeaderOf(t, "CSeq").number = 1 /\ HeaderOf(i, "CSeq").number = 1
            BY <2>3, <2>9 DEF RequestSays, CSeq
        <3> QED
            BY <2>3, <2>4, <2>5, <2>6, <2>8, <2>9, <3>1, <3>2 DEF RequestSays, IsRequest
    <2>10. CASE /\ RequestSays(t, "BYE", "contactB", ToOfB, 2, "byeFwd")
                /\ "STOREMESS_1_3" \in DOMAIN msg
        <3>1. t[1].v.request = "BYE" /\ t[1].v.uri = "contactB"
            BY <2>10 DEF RequestSays
        <3>2. HeaderOf(t, "CSeq").number = 2 /\ HeaderOf(i, "CSeq").number = 1
            BY <2>3, <2>10 DEF RequestSays, CSeq
        <3> QED
            BY <2>3, <2>4, <2>5, <2>6, <2>8, <2>10, <3>1, <3>2 DEF RequestSays, IsRequest
    <2> QED
        BY <2>2, <2>7, <2>9, <2>10, RequestToB
<1> QED
    BY <1>1 DEF DialogWithB

\* The replies to A's INVITE.
LEMMA ReplyToA ==
    ASSUME NEW V \in AVias, NEW O, NEW N, Call(V, O, N),
           NEW t \in SentTo("A"), IsReply(t), HeaderOf(t, "CSeq").method = "INVITE"
    PROVE  \E code \in {"100", "503", "180", "200"}, to \in {ToB, ToSipsl}, body \in {<<>>, N} :
               /\ TextSays(t, ReplySays(code, to, V, body))
               /\ code \in {"180", "200"} => to = ToSipsl
               /\ code = "200" => body = N
<1>1. PICK k \in ToA \cup ToBSide :
          /\ k \in DOMAIN msg \cup {"503"} /\ SideOf(k) = "A"
          /\ TextSays(t, Said(k, V, O, N)) /\ t[1].v = Said(k, V, O, N)["start"]
          /\ HeaderOf(t, "CSeq") = Said(k, V, O, N)["CSeq"]
    BY SentBefore
<1>2. k # "byeA"
    BY <1>1, SaidStart DEF IsReply
<1>3. k # "STORED_MESSAGEA"
    <2>1. Said("STORED_MESSAGEA", V, O, N)["CSeq"].method = "BYE"
        BY DEF Said, Letter, LetterFields, Named, CSeq
    <2> QED
        BY <1>1, <2>1
<1>4. k \in {"STOREMESS_1_1", "503", "STOREMESS_1_2", "STOREMESS_1_3"}
    BY <1>1, <1>2, <1>3 DEF SideOf, ToA
<1>5. \/ TextSays(t, ReplySays("100", ToB, V, <<>>))
      \/ TextSays(t, ReplySays("503", ToB, V, <<>>))
      \/ TextSays(t, ReplySays("180", ToSipsl, V, <<>>))
      \/ TextSays(t, ReplySays("200", ToSipsl, V, N))
    BY <1>1, <1>4 DEF Said
<1> QED
    BY <1>5

\* The only request A is sent is a BYE.
LEMMA ByeToA ==
    ASSUME NEW V \in AVias, NEW O, NEW N, Call(V, O, N),
           NEW t \in SentTo("A"), ~IsReply(t)
    PROVE  /\ HeaderOf(t, "From") = ToSipsl /\ HeaderOf(t, "To") = OfA
           /\ HeaderOf(t, "Call-ID") = callId_X
<1>1. PICK k \in ToA \cup ToBSide :
          /\ k \in DOMAIN msg \cup {"503"} /\ SideOf(k) = "A"
          /\ TextSays(t, Said(k, V, O, N)) /\ t[1].v = Said(k, V, O, N)["start"]
    BY SentBefore
<1>2. k = "byeA"
    BY <1>1, SaidStart DEF SideOf, ToA, IsReply
<1>3. TextSays(t, Letter([request |-> "BYE", uri |-> V[1].v.host], ToSipsl, OfA, callId_X,
                         CSeq(7, "BYE"), OfSipsl("byeBkwd", ViaOf("b", "b1")), <<>>))
    BY <1>1, <1>2 DEF Said
<1> QED
    BY <1>3, TextGives

\* The replies and the BYE for A belong to the dialog that A opened.
LEMMA InvDialogWithA == Inv => DialogWithA
<1> SUFFICES ASSUME Inv
             PROVE  DialogWithA
    OBVIOUS
<1>1. ASSUME NEW w \in wire, w.side = "A", IsReply(w.text)
      PROVE  w.to = ViasOf(w.text)[1].v.host
    <2>1. PICK V \in AVias, O \in Offers, N \in Answers \cup {<<>>} :
              /\ Call(V, O, N)
              /\ \E k \in ToA \cup ToBSide : SentAs(w, k, V, O, N)
        BY InCall
    <2>2. PICK k \in ToA \cup ToBSide : SentAs(w, k, V, O, N)
        BY <2>1
    <2>3. /\ w.text[1].v = Said(k, V, O, N)["start"]
          /\ ViasOf(w.text) = Said(k, V, O, N)["Via"]
        BY <2>2, TextOf DEF SentAs
    <2>4. "reply" \in DOMAIN Said(k, V, O, N)["start"]
        BY <1>1, <2>3 DEF IsReply
    <2> QED
        BY <2>2, <2>3, <2>4 DEF SentAs
<1>2. ASSUME NEW t \in SentTo("A"), NEW i \in heard,
             IsReply(t), HeaderOf(t, "CSeq").method = "INVITE", IsRequest(i, "INVITE")
      PROVE  /\ ViasOf(t) = ViasOf(i)
             /\ \A h \in {"From", "Call-ID", "CSeq"} : HeaderOf(t, h) = HeaderOf(i, h)
             /\ HeaderOf(t, "To").uri = HeaderOf(i, "To").uri
    <2>1. PICK d \in wire : d.text = t
        BY DEF SentTo
    <2>2. PICK V \in AVias, O \in Offers, N \in Answers \cup {<<>>} : Call(V, O, N)
        BY <2>1, InCall
    <2>3. PICK code \in {"100", "503", "180", "200"}, to \in {ToB, ToSipsl}, body \in {<<>>, N} :
              TextSays(t, ReplySays(code, to, V, body))
        BY <1>2, <2>2, ReplyToA
    <2>4. /\ HeaderOf(t, "From") = OfA /\ HeaderOf(t, "To") = to
          /\ HeaderOf(t, "Call-ID") = callId_X /\ HeaderOf(t, "CSeq") = CSeq(7, "INVITE")
          /\ ViasOf(t) = V
        BY <2>3, TextGives DEF ReplySays
    <2>5. TextSays(i, InviteSays(V, O))
        BY <1>2, <2>2 DEF Call, HeardSays
    <2>6. /\ HeaderOf(i, "From") = OfA /\ HeaderOf(i, "To") = ToB
          /\ HeaderOf(i, "Call-ID") = callId_X /\ HeaderOf(i, "CSeq") = CSeq(7, "INVITE")
          /\ ViasOf(i) = V
        BY <2>5, TextGives DEF InviteSays
    <2>7. to.uri = ToB.uri
        BY <2>3 DEF ToB, ToSipsl
    <2> QED
        BY <2>4, <2>6, <2>7
<1>3. ASSUME NEW t \in SentTo("A"), NEW ok \in SentTo("A"), IsReplyTo(ok, "200", "INVITE")
      PROVE  /\ IsReplyTo(t, "180", "INVITE") => HeaderOf(t, "To") = HeaderOf(ok, "To")
             /\ IsRequest(t, "BYE") => /\ HeaderOf(t, "From") = HeaderOf(ok, "To")
                                      /\ HeaderOf(t, "To") = HeaderOf(ok, "From")
                                      /\ HeaderOf(t, "Call-ID") = HeaderOf(ok, "Call-ID")
    <2>1. PICK d \in wire : d.text = t
        BY DEF SentTo
    <2>2. PICK V \in AVias, O \in Offers, N \in Answers \cup {<<>>} : Call(V, O, N)
        BY <2>1, InCall
    <2>3. /\ HeaderOf(ok, "From") = OfA /\ HeaderOf(ok, "To") = ToSipsl
          /\ HeaderOf(ok, "Call-ID") = callId_X
        BY <1>3, <2>2, OkToA, TextGives DEF Said, ReplySays
    <2>4. ASSUME IsReplyTo(t, "180", "INVITE")
          PROVE  HeaderOf(t, "To") = ToSipsl
        <3>1. PICK code \in {"100", "503", "180", "200"}, to \in {ToB, ToSipsl},
                  body \in {<<>>, N} :
                  /\ TextSays(t, ReplySays(code, to, V, body))
                  /\ code \in {"180", "200"} => to = ToSipsl
            BY <2>2, <2>4, ReplyToA DEF IsReplyTo
        <3>2. t[1].v = [reply |-> code] /\ HeaderOf(t, "To") = to
            BY <3>1, TextGives DEF ReplySays
        <3>3. code = "180"
            BY <2>4, <3>2 DEF IsReplyTo
        <3> QED
            BY <3>1, <3>2, <3>3
    <2>5. ASSUME IsRequest(t, "BYE")
          PROVE  /\ HeaderOf(t, "From") = ToSipsl /\ HeaderOf(t, "To") = OfA
                 /\ HeaderOf(t, "Call-ID") = callId_X
        BY <2>2, <2>5, ByeToA DEF IsRequest
    <2> QED
        BY <2>3, <2>4, <2>5
<1> QED
    BY <1>1, <1>2, <1>3 DEF DialogWithA

\* The offer of A goes to B, and the answer of B to A.
LEMMA InvPayloadRelayed == Inv => PayloadRelayed
<1> SUFFICES ASSUME Inv
             PROVE  PayloadRelayed
    OBVIOUS
<1>1. ASSUME NEW t \in RequestsTo("B"), NEW i \in heard, IsRequest(t, "INVITE"),
             IsRequest(i, "INVITE")
      PROVE  Payload(t) = Payload(i)
    <2>1. PICK d \in wire : d.text = t
        BY DEF RequestsTo, SentTo
    <2>2. PICK V \in AVias, O \in Offers, N \in Answers \cup {<<>>} : Call(V, O, N)
        BY <2>1, InCall
    <2>3. Payload(t) = O
        <3>1. TextSays(t, Said("invite_b", V, O, N))
            BY <1>1, <2>2, InviteToB DEF RequestsTo
        <3> QED
            BY <3>1, TextGives DEF Said
    <2>4. TextSays(i, InviteSays(V, O))
        BY <1>1, <2>2 DEF Call, HeardSays
    <2>5. Payload(i) = O
        BY <2>4, TextGives DEF InviteSays
    <2> QED
        BY <2>3, <2>5
<1>2. ASSUME NEW t \in SentTo("A"), IsReplyTo(t, "200", "INVITE")
      PROVE  \E ok \in heard : /\ IsReplyTo(ok, "200", "INVITE")
                               /\ HeaderOf(ok, "Call-ID") = callId_Y
                               /\ Payload(t) = Payload(ok)
    <2>1. PICK d \in wire : d.text = t
        BY DEF SentTo
    <2>2. PICK V \in AVias, O \in Offers, N \in Answers \cup {<<>>} : Call(V, O, N)
        BY <2>1, InCall
    <2>3. /\ TextSays(t, Said("STOREMESS_1_3", V, O, N))
          /\ "STOREMESS_1_3" \in DOMAIN msg
        BY <1>2, <2>2, OkToA
    <2>4. Payload(t) = N
        BY <2>3, TextGives DEF Said, ReplySays
    <2> QED
        BY <2>2, <2>3, <2>4, OkOfB
<1> QED
    BY <1>1, <1>2 DEF PayloadRelayed

---------------------------------------------------------------------------
(* Theorems. *)

\* Types of the variables (MESSAGE, ctxt_store, sequenceMap): no message is stored while
\* a change waits for compileMessage.
THEOREM TypeCorrect == Spec => []TypeOK
    BY Invariance, InvTypeOK, PTL

\* The assertions on fillCounter and compileCounter hold along every path a message takes.
THEOREM CountersHold == Spec => []NoCounterAsserts
<1>1. Inv => NoCounterAsserts
    BY DEF Inv, NoCounterAsserts
<1> QED
    BY <1>1, Invariance, PTL

\* No line is freed twice, used after it was freed, or leaked, and no empty vector is read.
THEOREM LinesHold == Spec => []LinesDeletedOnce
<1>1. Inv => LinesDeletedOnce
    BY DEF Inv, LinesDeletedOnce
<1> QED
    BY <1>1, Invariance, PTL

\* The getters of a stored message return what its lines say, also getModulus, whose
\* cache nothing resets.
THEOREM CachesHold == Spec => []CachesCoherent
    BY Invariance, InvCachesCoherent, PTL

\* Every text that SIPSL sends has one start line, each header of a dialog once, and the
\* Content-Length of its payload.
THEOREM TextsHold == Spec => []TextsWellFormed
    BY Invariance, InvTextsWellFormed, PTL

\* B sees one dialog, with every set of registered names: Call-ID, tags, Vias, numbers and
\* target of the INVITE, ACK and BYE of VALO fit together.
THEOREM DialogOfB == Spec => []DialogWithB
    BY Invariance, InvDialogWithB, PTL

\* A finds its call in all it is sent: the replies of SIPUTIL carry its Vias, From, Call-ID
\* and CSeq and go to the first of these Vias, the 180 and the 200 carry the same To, and the
\* BYE of VALO::onBye the same Call-ID, and From and To the other way round.  The request
\* line of the BYE and the address it is sent to are not part of this.
THEOREM DialogOfA == Spec => []DialogWithA
    BY Invariance, InvDialogWithA, PTL

\* The payloads of INVITE and 200 pass from one side to the other.
THEOREM PayloadPasses == Spec => []PayloadRelayed
    BY Invariance, InvPayloadRelayed, PTL
=============================================================================
