--------------------------- MODULE MCGateRoundTrip ---------------------------
(* Small instances of the gate's round trip.  The presses are alike, so     *)
(* safety runs may exchange them.                                           *)
EXTENDS GateRoundTrip, TLC

CONSTANTS g1, g2, p1, p2

OneGate == {g1}
TwoGates == {g1, g2}
TwoPresses == {p1, p2}

AlwaysSent == {"sent"}
SentOrRefused == {"sent", "refused"}
Always == {TRUE}

OnlyOpen == {"open"}

=============================================================================
