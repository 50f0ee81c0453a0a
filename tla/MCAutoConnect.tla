---------------------------- MODULE MCAutoConnect ----------------------------
(* Model-checking instances of AutoConnect.                                  *)
EXTENDS AutoConnect
CONSTANTS a, b
AtoB == {<<a, b>>}
TwoOne == [n \in Node |-> IF n = a THEN 2 ELSE 1]
=============================================================================
