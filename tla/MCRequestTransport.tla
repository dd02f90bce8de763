------------------------- MODULE MCRequestTransport -------------------------
(* RequestTransport with every combination of timer and signal. *)
EXTENDS RequestTransport

CONSTANTS both, timedOnly, signalledOnly

AllRequests   == {both, timedOnly, signalledOnly}
WithTimer     == {both, timedOnly}
WithSignal    == {both, signalledOnly}

=============================================================================
