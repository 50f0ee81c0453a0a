---------------------------- MODULE MCHandshake ----------------------------
(* Model-checking instances of Handshake: two nodes a and b.                *)
EXTENDS Handshake

CONSTANTS a, b, x, y

CallOf(n, p, i) == [from |-> n, to |-> p, n |-> i]

\* a connects to b twice, and b to a once.
Crossing == {CallOf(a, b, x), CallOf(a, b, y), CallOf(b, a, x)}

\* Each connects to the other once.
OneEach == {CallOf(a, b, x), CallOf(b, a, x)}
=============================================================================
