---------------------------- MODULE MCDiscovery ----------------------------
\* The constants of the runs of Discovery: this node o, and two devices b and
\* c with one callsign, of which at most one advertises at a time.
EXTENDS Discovery

CONSTANTS o, b, c, no, nb

MCNameOf == [d \in {o, b, c} |-> IF d = o THEN no ELSE nb]
============================================================================
