----------------------------- MODULE MCDtlsFlight -----------------------------
(* Sizes scaled down: a record costs one byte more than its fragment, and   *)
(* the known MTUs are 6 and 3, or 5, 4 and 3.                               *)
EXTENDS DtlsFlight

Kind(k, a, b) == [first |-> a, last |-> b, kind |-> k]

\* Every message is cut on the smaller MTU or empty.
MCMtusTwo == <<6, 3>>
MCLen == [m \in 0..2 |-> <<4, 1, 0>>[m + 1]]
MCFlights == {Kind("answered", 0, 2), Kind("dtls12", 0, 2), Kind("final", 0, 1)}

\* The messages of a final flight stay whole.
MCMtus == <<5, 4, 3>>
MCLenLive == [m \in 0..3 |-> <<3, 1, 2, 1>>[m + 1]]
MCFlightsLive == {Kind("answered", 0, 1), Kind("dtls12", 0, 1), Kind("final", 2, 3)}

\* The first message of a final flight is cut.
MCLenCut == [m \in 0..1 |-> <<5, 1>>[m + 1]]
MCFlightsCut == {Kind("final", 0, 1)}

\* A path on which only the smallest of three MTUs passes.
MCLenTwoSteps == [m \in 0..0 |-> 4]
MCFlightsTwoSteps == {Kind("answered", 0, 0), Kind("dtls12", 0, 0)}
=============================================================================
