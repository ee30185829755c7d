---------------------------- MODULE MCSpanGateway ---------------------------
EXTENDS SpanGateway

CONSTANTS r1, r2, s1, s2

(* Two requests, which may ask for the same span or for different ones. *)
MCReqs == {r1, r2}
MCSpans == {s1, s2}

=============================================================================
