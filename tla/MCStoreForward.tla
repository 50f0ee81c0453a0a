--------------------------- MODULE MCStoreForward ---------------------------
(* Model-checking instance of StoreForward.                                  *)
EXTENDS StoreForward
CONSTANTS p, q

\* The first message to p is too large for the transport.
Large == {[to |-> p, n |-> 1]}
Messages == Large \cup {[to |-> p, n |-> 2], [to |-> p, n |-> 3], [to |-> q, n |-> 1]}
=============================================================================
