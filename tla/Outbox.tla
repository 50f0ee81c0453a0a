-------------------------------- MODULE Outbox --------------------------------
(***************************************************************************)
(* What store and forward promises about a message it has accepted: it     *)
(* waits, and then it is either given to the transport or expires.  Both   *)
(* are final: nothing that has expired is sent after all, and nothing that *)
(* was sent waits again, whatever crashes come in between.                 *)
(***************************************************************************)
CONSTANT Message

VARIABLES pending, handed, expired

vars == <<pending, handed, expired>>

Init == pending = {} /\ handed = {} /\ expired = {}

\* The message is accepted, and waits or is given to the transport at once.
Accept(m) ==
  /\ m \notin pending \cup handed \cup expired
  /\ \/ pending' = pending \cup {m} /\ UNCHANGED handed
     \/ handed' = handed \cup {m} /\ UNCHANGED pending
  /\ UNCHANGED expired

Hand(m) ==
  /\ m \in pending
  /\ pending' = pending \ {m}
  /\ handed' = handed \cup {m}
  /\ UNCHANGED expired

\* Several messages may expire at once.
Expire(late) ==
  /\ pending' = pending \ late
  /\ expired' = expired \cup late
  /\ UNCHANGED handed

Next ==
  \/ \E m \in Message : Accept(m) \/ Hand(m)
  \/ \E late \in SUBSET pending : Expire(late)

Spec == Init /\ [][Next]_vars
=============================================================================
