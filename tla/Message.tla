------------------------------ MODULE Message ------------------------------
(***************************************************************************)
(* MESSAGE (MESSAGE.cpp): a SIP message as SIPSL keeps it.  The text       *)
(* (original_message) is split into lines when a getter or setter first    *)
(* needs them (fillIn); a setter changes the lines only, and the text is   *)
(* written again from the lines by compileMessage.  A line that a setter   *)
(* wrote is allocated on the heap and belongs to the message, a line that  *)
(* fillIn cut out points into the buffer message_char.                     *)
(*                                                                         *)
(* An operator named after a method that changes the message returns the   *)
(* changed message; a getter is used on a message that FillIn or Read has  *)
(* prepared and returns what the code returns, from the cache when it has  *)
(* parsed the field before.  A DEBASSERT, a double deletion or a read of   *)
(* freed or absent memory adds its name to the field "errors".             *)
(*                                                                         *)
(* A header line is [h |-> the header, v |-> a record]; only the headers   *)
(* and properties the program tells apart have a value of their own.       *)
(***************************************************************************)
EXTENDS Naturals, Sequences, SequencesExt

MaxFills == 2       \* fillCounter and compileCounter beyond it: DEBASSERT

Line(header, value) == [h |-> header, v |-> value]
Absent == ""                \* an empty string
NoHeader == Absent
Other == [other |-> Absent]
Blank == Line(NoHeader, Other)  \* the empty line, the first line of the payload
NotFound == "xxdxxdxx"      \* what _getProperty returns for "no such property"

\* A sequence of lines of one header: a Via stack, a payload.
LinesOf(header, lines) ==
    lines \in Seq({Line(header, lines[i].v) : i \in DOMAIN lines})

\* Fields that a getter parses once and remembers; _clearStatus forgets them.
Parsed == {"branch", "callId", "fromTag", "toTag", "headTo", "reqRep", "cSeq"}
Forgotten == [f \in {} |-> Absent]

\* The two constructors: a message holds a text, and nothing is parsed yet.
NewMessage(text, echo) ==
    [text |-> text, status |-> 0,
     message_line |-> <<>>, via_line |-> <<>>, sdp_line |-> <<>>,
     hasSdp |-> FALSE, hasvialines |-> FALSE,
     cache |-> Forgotten, contact |-> {}, modulus |-> {},
     fills |-> 0, compiles |-> 0,
     echo |-> echo, route |-> Absent, nat |-> Absent, errors |-> {}]

InBuffer(lines) ==
    [i \in DOMAIN lines |-> [h |-> lines[i].h, v |-> lines[i].v, own |-> "buffer"]]
OnHeap(header, value) == [h |-> header, v |-> value, own |-> "heap"]
AsText(lines) == [i \in DOMAIN lines |-> Line(lines[i].h, lines[i].v)]

Owned(lines) == {i \in DOMAIN lines : lines[i].own = "heap"}
Dangling(lines) == {i \in DOMAIN lines : lines[i].own = "freed"}
Error(m, condition, name) ==
    IF condition THEN [m EXCEPT !.errors = @ \cup {name}] ELSE m

\* An iteration that deletes every owned line.
DeleteOwned(lines) ==
    [i \in DOMAIN lines |->
        IF lines[i].own = "heap" THEN [lines[i] EXCEPT !.own = "freed"] ELSE lines[i]]

\* The lines at these positions, in their order: SelectSeq without recursion.
LinesAt(lines, positions) ==
    [k \in 1..Cardinality(positions) |->
        lines[CHOOSE i \in positions : Cardinality({j \in positions : j <= i}) = k]]
With(lines, headers) == LinesAt(lines, {i \in DOMAIN lines : lines[i].h \in headers})
Without(lines, headers) == LinesAt(lines, {i \in DOMAIN lines : lines[i].h \notin headers})

\* The position of the first line of a header, of the last one, 0 if none.
FirstAt(lines, from, header) ==
    SelectInSubSeq(lines, from, Len(lines), LAMBDA l : l.h = header)
LastAt(lines, header) == SelectLastInSeq(lines, LAMBDA l : l.h = header)

\* A text ends where the first empty line begins the payload.
BlankAt(text) == SelectInSeq(text, LAMBDA l : l = Blank)
HeadOf(text) == IF BlankAt(text) = 0 THEN text ELSE SubSeq(text, 1, BlankAt(text) - 1)
BodyOf(text) == IF BlankAt(text) = 0 THEN <<>> ELSE SubSeq(text, BlankAt(text), Len(text))

---------------------------------------------------------------------------
\* The text is written from the lines, which are deleted; only after a change.
CompileMessage(m) ==
    IF m.status # 2 THEN m
    ELSE
    LET sent == Without(m.message_line, {"Content-Length", "Content-Type", NoHeader})
        payload ==
            IF m.hasSdp
            THEN <<Line("Content-Type", [type |-> "application/sdp"]),
                   Line("Content-Length", [length |-> Len(m.sdp_line) - 1])>>
                 \o AsText(m.sdp_line)
            ELSE <<Line("Content-Length", [length |-> 0]), Blank>>
        done == [m EXCEPT !.text = AsText(sent) \o AsText(m.via_line) \o payload,
                          !.status = 0,
                          !.message_line = <<>>, !.via_line = <<>>, !.sdp_line = <<>>,
                          !.cache = Forgotten,
                          !.compiles = @ + 1]
    IN  Error(Error(Error(done, m.compiles >= MaxFills, "compileCounter"),
                    m.hasSdp /\ Dangling(m.sdp_line) # {}, "use of a freed line"),
              ~m.hasSdp /\ Owned(m.sdp_line) # {}, "leaked line")

\* The text is cut into lines; a changed message is compiled first.
Cut(m) ==
    [m EXCEPT !.message_line = InBuffer(Without(HeadOf(m.text), {"Via"})),
              !.via_line = InBuffer(With(HeadOf(m.text), {"Via"})),
              !.sdp_line = InBuffer(BodyOf(m.text)),
              !.hasSdp = @ \/ BodyOf(m.text) # <<>>,
              !.hasvialines = @ \/ \E l \in Range(HeadOf(m.text)) : l.h = "Via",
              !.cache = Forgotten,
              !.status = 1,
              !.fills = @ + 1,
              !.errors = @ \cup IF m.fills >= MaxFills THEN {"fillCounter"} ELSE {}]
FillIn(m) == IF m.status = 1 THEN m ELSE Cut(CompileMessage(m))

\* Mutant of Filled: a setter after a setter compiles and fills again.
FilledAgain(m) == IF m.status # 1 THEN FillIn(m) ELSE m

\* What every setter does first.
Filled(m) == IF m.status = 0 THEN FillIn(m) ELSE m

Changed(m) == [Filled(m) EXCEPT !.status = 2]

\* ~MESSAGE deletes the lines that belong to the message.
Destroy(m) ==
    Error(m, m.status # 0 /\ Dangling(m.sdp_line) # {}, "double deletion")

---------------------------------------------------------------------------
(* Getters, of a message that is filled.                                   *)

\* The first line of a header; of Via the last.
GetGenericHeader(m, header) ==
    IF header = "Via" /\ m.via_line # <<>> THEN Last(m.via_line).v
    ELSE LET i == FirstAt(m.message_line, 2, header)
         IN  IF i = 0 THEN Other ELSE m.message_line[i].v

\* _getProperty: a property of one line.
PropertyOf(line, property) ==
    IF property \in DOMAIN line.v /\ line.v[property] # Absent THEN line.v[property]
    ELSE NotFound

\* Only the branch for Via turns "not found" into the empty string.
GetProperty(m, header, property) ==
    IF header = "Via"
    THEN IF m.hasvialines /\ m.via_line # <<>>
            /\ PropertyOf(m.via_line[1], property) # NotFound
         THEN PropertyOf(m.via_line[1], property) ELSE Absent
    ELSE LET i == FirstAt(m.message_line, 1, header)
         IN  IF i = 0 THEN Absent ELSE PropertyOf(m.message_line[i], property)

GetViaLine(m) == m.via_line[1].v
GetReqRepType(m) == IF m.message_line = <<>> THEN Other ELSE m.message_line[1].v

\* What a getter finds in the lines.
Lookup(m, field) ==
    CASE field = "branch" -> GetProperty(m, "Via", "branch")
      [] field = "callId" -> GetGenericHeader(m, "Call-ID")
      [] field = "fromTag" -> GetProperty(m, "From", "tag")
      [] field = "toTag" -> GetProperty(m, "To", "tag")
      [] field = "headTo" -> GetGenericHeader(m, "To")
      [] field = "reqRep" -> GetReqRepType(m)
      [] field = "cSeq" -> GetGenericHeader(m, "CSeq")

\* What a getter returns: the cached value if there is one.
Value(m, field) == IF field \in DOMAIN m.cache THEN m.cache[field] ELSE Lookup(m, field)

GetViaBranch(m) == Value(m, "branch")
GetHeadCallId(m) == Value(m, "callId")
GetFromTag(m) == Value(m, "fromTag")
GetToTag(m) == Value(m, "toTag")
GetHeadTo(m) == Value(m, "headTo")
GetHeadSipReply(m) == Value(m, "reqRep")
GetHeadCSeq(m) == Value(m, "cSeq")

\* The message after these getters have been called.
Read(m, fields) ==
    LET Got(f) == [f EXCEPT !.cache = [x \in DOMAIN @ \cup fields |-> Value(f, x)]]
    IN  Got(FillIn(m))

\* getContactUri looks at its cache before it looks at the status.
GetContact(m) == IF m.contact # {} THEN CHOOSE c \in m.contact : TRUE
                 ELSE GetGenericHeader(m, "Contact")
ReadContact(m) ==
    LET Got(f) == [f EXCEPT !.contact = {GetContact(f)}]
    IN  IF m.contact # {} THEN m ELSE Got(FillIn(m))

\* The modulus is kept with the Call-ID it was computed from.
ReadModulus(m) ==
    LET Got(r) == IF r.modulus # {} THEN r ELSE [r EXCEPT !.modulus = {GetHeadCallId(r)}]
    IN  Got(Read(m, {"callId"}))

HasSDP(m) == m.hasSdp
GetSDP(m) == AsText(m.sdp_line)

\* Mutant of Copy: the modulus is copied too.
CopyWithModulus(source) ==
    [FillIn(NewMessage(source.text, source.echo)) EXCEPT !.modulus = source.modulus]

\* The copy constructor and CREATEMESSAGE: a copy of the text of the source,
\* which is filled by then; route and NAT address are not copied.
Copy(source) == FillIn(NewMessage(source.text, source.echo))

Source(m) == ReadModulus(m)

---------------------------------------------------------------------------
(* Setters.                                                                *)

\* "REPLY" and "REQUEST": the first line is replaced, an owned one is lost.
SetFirstLine(m, value) ==
    LET Set(c) == Error([c EXCEPT !.message_line[1] = OnHeap("start", value)],
                        c.message_line[1].own = "heap", "leaked line")
    IN  Set(Changed(m))

SetHeadSipReply(m, reply) == SetFirstLine(m, [reply |-> reply])
SetHeadSipRequest(m, method, target) ==
    SetFirstLine(m, [request |-> method, uri |-> target])

\* The first line of the header is replaced; nothing is added.
SetGenericHeader(m, header, value) ==
    LET SetAt(c, i) == IF i = 0 THEN c
                       ELSE [c EXCEPT !.message_line[i] = OnHeap(header, value)]
        Set(c) == SetAt(c, FirstAt(c.message_line, 2, header))
    IN  Set(Changed(m))

\* The first line of the header is removed; the rest stays.
DropHeader(m, header) ==
    LET DropAt(f, i) == IF i = 0 THEN f
                        ELSE [f EXCEPT !.message_line = LinesAt(@, DOMAIN @ \ {i}), !.status = 2]
        Drop(f) == DropAt(f, FirstAt(f.message_line, 1, header))
    IN  Drop(Filled(m))

\* The property is set in the last line of the header, in the first Via.
SetProperty(m, header, property, value) ==
    LET Set(line) == OnHeap(header, [line.v EXCEPT ![property] = value])
        SetVia(c) ==
            CASE ~c.hasvialines -> c
              [] c.hasvialines /\ c.via_line = <<>> ->
                     Error(c, TRUE, "front of an empty vector")
              [] OTHER -> [c EXCEPT !.via_line[1] = Set(@)]
        SetAt(c, i) == IF i = 0 THEN c ELSE [c EXCEPT !.message_line[i] = Set(@)]
        SetLast(c) == SetAt(c, LastAt(c.message_line, header))
    IN  IF header = "Via" THEN SetVia(Changed(m)) ELSE SetLast(Changed(m))

\* hasvialines is never reset, the vector may be empty.
PopVia(m) ==
    LET Pop(c) ==
            CASE ~c.hasvialines -> c
              [] c.hasvialines /\ c.via_line = <<>> ->
                     Error(c, TRUE, "front of an empty vector")
              [] OTHER -> [c EXCEPT !.via_line = Tail(@)]
    IN  Pop(Changed(m))

PushNewVia(m, via) == [Changed(m) EXCEPT !.via_line = <<OnHeap("Via", via)>> \o @]

\* The owned lines are deleted and stay in the vector.
PurgeSDP(m) ==
    LET Purge(c) == Error([c EXCEPT !.hasSdp = FALSE, !.sdp_line = DeleteOwned(@)],
                          Dangling(c.sdp_line) # {}, "double deletion")
    IN  Purge(Changed(m))

\* Mutant of SetSDP: the old lines stay.
SetSDP_Appends(m, lines) ==
    [Changed(m) EXCEPT !.hasSdp = TRUE,
                       !.sdp_line = @ \o [i \in DOMAIN lines |->
                                              OnHeap(lines[i].h, lines[i].v)]]

SetSDP(m, lines) ==
    LET Set(c) == Error([c EXCEPT !.hasSdp = TRUE,
                                  !.sdp_line = [i \in DOMAIN lines |->
                                                    OnHeap(lines[i].h, lines[i].v)]],
                        Dangling(c.sdp_line) # {}, "double deletion")
    IN  Set(Changed(m))

SetRoute(m, address) == [m EXCEPT !.route = address]
SetNatTraversal(m, address) == [m EXCEPT !.nat = address]
\* The reply code alone, until _clearStatus.
ForceHeadSipReply(m, reply) ==
    [m EXCEPT !.cache = [x \in DOMAIN @ \cup {"reqRep"} |->
                            IF x = "reqRep" THEN [reply |-> reply] ELSE @[x]]]

---------------------------------------------------------------------------
\* A well-formed text: one start line first, one Call-ID, one Content-Length
\* that is the length of the payload, which begins with the empty line.
Positions(text, header) == {i \in DOMAIN text : text[i].h = header}
Payload(text) == IF BodyOf(text) = <<>> THEN <<>> ELSE Tail(BodyOf(text))
WellFormed(text) ==
    /\ Positions(text, "start") = {1}
    /\ \A header \in {"Call-ID", "CSeq", "From", "To", "Content-Length", NoHeader} :
           \E i \in DOMAIN text : Positions(text, header) = {i}
    /\ \A i \in Positions(text, "Content-Length") :
           text[i].v.length = Len(Payload(text))

\* Every field a getter returns is what the lines say.
Coherent(m) ==
    /\ m.status = 1 => \A f \in DOMAIN m.cache : m.cache[f] = Lookup(m, f)
    /\ LET f == FillIn(m)
       IN  /\ m.contact \subseteq {GetGenericHeader(f, "Contact")}
           /\ m.modulus \subseteq {GetGenericHeader(f, "Call-ID")}
===========================================================================
