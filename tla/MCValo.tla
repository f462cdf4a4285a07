------------------------------- MODULE MCValo -------------------------------
(* Instances of Valo for TLC: A calls directly or from behind a proxy;     *)
(* payloads of none, one or two lines.                                     *)
EXTENDS Valo

Media(kind) == Line("sdp", [media |-> kind])
Hop(host, branch) == Line("Via", [host |-> host, branch |-> branch])

MCAVias == {<<Hop("a", "a1")>>, <<Hop("p", "p1"), Hop("a", "a1")>>}
MCOffers == {<<>>, <<Media("audioOfA")>>}
MCAnswers == {<<>>, <<Media("audioOfB"), Media("videoOfB")>>}
=============================================================================
