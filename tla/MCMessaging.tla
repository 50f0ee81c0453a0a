---------------------------- MODULE MCMessaging ----------------------------
(* The instances of Messaging for TLC; the .cfg files give the bounds.      *)
EXTENDS Messaging

CONSTANTS p1, p2

\* Messages to p1 are cut in two or three, so that those of two lives can mix;
\* those to p2 are there to share the ids.
TwoLengths == [x \in Peer |-> IF x = p1 THEN {2, 3} ELSE {1}]
OneLength == [x \in Peer |-> {2}]
=============================================================================
