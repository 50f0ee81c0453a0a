-------------------------- MODULE HandshakeProofs --------------------------
(* Proofs about Handshake, for any set of nodes and of attempts.            *)
EXTENDS Handshake, TLAPS

\* A call joins two different nodes.
LEMMA CallEnds ==
  ASSUME NEW c \in Call
  PROVE  c.from \in Node /\ c.to \in Node /\ c.from # c.to
  BY CallAssumption

\* A packet the constructor makes is a packet.
LEMMA PktType ==
  ASSUME NEW t \in PacketType, NEW n \in Node, NEW p \in Node,
         NEW k \in Call \cup {None}
  PROVE  /\ Pkt(t, n, p, k) \in Packet
         /\ Pkt(t, n, p, k).type = t
         /\ Pkt(t, n, p, k).from = n
         /\ Pkt(t, n, p, k).to = p
         /\ Pkt(t, n, p, k).key = k
  BY DEF Pkt, Packet

LEMMA InitInv == Init => HandshakeInv
  <1> SUFFICES ASSUME Init PROVE HandshakeInv
    OBVIOUS
  <1>1. TypeOK
    BY DEF Init, TypeOK, Stage
  <1>2. PacketsHonest /\ ResponderFirst /\ SessionsInstalled /\ AckInstalled
    BY CallAssumption DEF Init, PacketsHonest, ResponderFirst, SessionsInstalled, AckInstalled
  <1>3. NoStaleEntry
    BY NoneAssumption DEF Init, NoStaleEntry
  <1> QED BY <1>1, <1>2, <1>3 DEF HandshakeInv

(* The steps of the coroutine connect.                                      *)
LEMMA CallSteps ==
  ASSUME HandshakeInv, NEW c \in Call,
         \/ Connect(c) \/ ResumeResp(c) \/ TimeoutResp(c)
         \/ ResumeAck(c) \/ TimeoutAck(c)
  PROVE  HandshakeInv'
  <1> USE CallEnds DEF HandshakeInv
  <1>0. UNCHANGED <<sessions, installed, ack>>
    BY DEF Connect, ResumeResp, TimeoutResp, ResumeAck, TimeoutAck
  <1>1. SessionsInstalled' /\ ResponderFirst'
    BY <1>0 DEF SessionsInstalled, ResponderFirst
  <1>2. CASE Connect(c)
    <2> DEFINE m == Pkt("HANDSHAKE", c.from, c.to, None)
    <2>1. m \in Packet /\ m.type = "HANDSHAKE"
      BY PktType DEF PacketType
    <2>2. TypeOK'
      BY <1>2, <2>1 DEF Connect, TypeOK, Stage
    <2>3. PacketsHonest'
      BY <1>2, <1>0, <2>1 DEF Connect, PacketsHonest
    <2>4. AckInstalled'
      BY <1>2, <1>0 DEF Connect, AckInstalled, TypeOK
    <2>5. NoStaleEntry'
      BY <1>2 DEF Connect, NoStaleEntry, TypeOK, Waiting
    <2> QED BY <1>1, <2>2, <2>3, <2>4, <2>5
  <1>3. CASE ResumeResp(c)
    <2> DEFINE m == Pkt("KEY_INIT", c.from, c.to, c)
    <2>1. m \in Packet /\ m.type = "KEY_INIT" /\ m.from = c.from
          /\ m.to = c.to /\ m.key = c
      BY PktType DEF PacketType
    <2>2. TypeOK'
      BY <1>3, <2>1 DEF ResumeResp, TypeOK, Stage
    <2>3. PacketsHonest'
      BY <1>3, <1>0, <2>1 DEF ResumeResp, PacketsHonest
    <2>4. AckInstalled'
      BY <1>3, <1>0 DEF ResumeResp, AckInstalled, TypeOK
    <2>5. NoStaleEntry'
      BY <1>3 DEF ResumeResp, NoStaleEntry, TypeOK, Waiting
    <2> QED BY <1>1, <2>2, <2>3, <2>4, <2>5
  <1>4. CASE TimeoutResp(c) \/ TimeoutAck(c) \/ ResumeAck(c)
    <2>1. net' = net /\ pending' = Pop(c.from, c.to) /\ resp' = resp
      BY <1>4 DEF TimeoutResp, TimeoutAck, ResumeAck
    <2>2. \/ stage' = [stage EXCEPT ![c] = "failed"]
          \/ stage' = [stage EXCEPT ![c] = "ok"] /\ ack[c]
      BY <1>4 DEF TimeoutResp, TimeoutAck, ResumeAck, Acknowledged
    <2>3. TypeOK'
      BY <1>0, <2>1, <2>2 DEF TypeOK, Stage, Pop
    <2>4. PacketsHonest'
      BY <1>0, <2>1 DEF PacketsHonest
    <2>5. AckInstalled'
      BY <1>0, <2>2 DEF AckInstalled, TypeOK
    <2>6. NoStaleEntry'
      <3> SUFFICES ASSUME NEW n \in Node, NEW p \in Node, pending'[n][p] \in Call
                   PROVE  LET d == pending'[n][p]
                          IN  d.from = n /\ d.to = p /\ stage'[d] \in Waiting
        BY DEF NoStaleEntry
      <3>1. pending'[n][p] = pending[n][p] /\ ~(n = c.from /\ p = c.to)
        BY <2>1, NoneAssumption DEF TypeOK, Pop
      <3>2. pending[n][p] # c
        BY <3>1 DEF NoStaleEntry
      <3> QED BY <2>2, <3>1, <3>2 DEF NoStaleEntry, TypeOK
    <2> QED BY <1>1, <2>3, <2>4, <2>5, <2>6
  <1> QED BY <1>2, <1>3, <1>4

(* The handlers.                                                            *)
LEMMA HandlerSteps ==
  ASSUME HandshakeInv, NEW m \in net,
         \/ HandleHandshake(m) \/ HandleHandshakeResp(m)
         \/ HandleKeyInit(m) \/ HandleKeyAck(m)
  PROVE  HandshakeInv'
  <1> USE CallEnds DEF HandshakeInv
  <1> DEFINE n == m.to
             p == m.from
  <1>0. m \in Packet /\ n \in Node /\ p \in Node
    BY DEF TypeOK, Packet
  <1>1. CASE HandleHandshake(m)
    <2> DEFINE r == Pkt("HANDSHAKE_RESP", n, p, None)
    <2>1. r \in Packet /\ r.type = "HANDSHAKE_RESP"
      BY <1>0, PktType DEF PacketType
    <2>2. TypeOK'
      BY <1>0, <1>1, <2>1 DEF HandleHandshake, TypeOK
    <2>3. PacketsHonest' /\ ResponderFirst' /\ SessionsInstalled' /\ AckInstalled'
      BY <1>1, <2>1 DEF HandleHandshake, PacketsHonest, ResponderFirst,
                        SessionsInstalled, AckInstalled
    <2>4. NoStaleEntry'
      BY <1>0, <1>1, ResponderAssumption DEF HandleHandshake, NoStaleEntry, TypeOK
    <2> QED BY <2>2, <2>3, <2>4
  <1>2. CASE HandleHandshakeResp(m)
    <2>1. TypeOK'
      BY <1>0, <1>2 DEF HandleHandshakeResp, TypeOK
    <2>2. PacketsHonest' /\ ResponderFirst' /\ SessionsInstalled' /\ AckInstalled'
          /\ NoStaleEntry'
      BY <1>2 DEF HandleHandshakeResp, PacketsHonest, ResponderFirst,
                  SessionsInstalled, AckInstalled, NoStaleEntry
    <2> QED BY <2>1, <2>2
  <1>3. CASE HandleKeyInit(m)
    <2> DEFINE k == m.key
               r == Pkt("KEY_ACK", n, p, k)
    <2>0. k \in Call /\ k.from = p /\ k.to = n
      BY <1>3 DEF HandleKeyInit, PacketsHonest
    <2>1. r \in Packet /\ r.type = "KEY_ACK" /\ r.from = n /\ r.to = p /\ r.key = k
      BY <1>0, <2>0, PktType DEF PacketType
    <2>2. /\ net' = net \cup {r}
          /\ pending' = Pop(n, p)
          /\ sessions' = [sessions EXCEPT ![n][p] = k]
          /\ installed' = [installed EXCEPT ![n][p] = @ \cup {k}]
          /\ UNCHANGED <<stage, resp, ack>>
      BY <1>3 DEF HandleKeyInit, Install
    <2>3. TypeOK'
      BY <1>0, <2>0, <2>1, <2>2 DEF TypeOK, Pop
    <2>4. \A i, j \in Node : installed[i][j] \subseteq installed'[i][j]
      BY <1>0, <2>2 DEF TypeOK
    <2>5. k \in installed'[n][p]
      BY <1>0, <2>2 DEF TypeOK
    <2>6. PacketsHonest'
      BY <2>1, <2>2, <2>4, <2>5 DEF PacketsHonest, TypeOK, Packet
    <2>7. ResponderFirst'
      BY <1>0, <2>0, <2>2, <2>4 DEF ResponderFirst, TypeOK
    <2>8. SessionsInstalled'
      BY <1>0, <2>2, <2>4, <2>5 DEF SessionsInstalled, TypeOK
    <2>9. AckInstalled'
      BY <2>2, <2>4 DEF AckInstalled
    <2>10. NoStaleEntry'
      BY <1>0, <2>2, NoneAssumption DEF NoStaleEntry, TypeOK, Pop
    <2> QED BY <2>3, <2>6, <2>7, <2>8, <2>9, <2>10
  <1>4. CASE HandleKeyAck(m)
    <2> DEFINE e == pending[n][p]
    <2>0. e \in Call /\ m.type = "KEY_ACK" /\ e = m.key
      BY <1>4 DEF HandleKeyAck, AckMatches
    <2>1. e.from = n /\ e.to = p /\ e \in installed[p][n]
      BY <1>0, <2>0 DEF NoStaleEntry, PacketsHonest
    <2>2. /\ sessions' = [sessions EXCEPT ![n][p] = e]
          /\ installed' = [installed EXCEPT ![n][p] = @ \cup {e}]
          /\ ack' = [ack EXCEPT ![e] = TRUE]
          /\ UNCHANGED <<stage, resp, pending, net>>
      BY <1>4 DEF HandleKeyAck, Install
    <2>3. TypeOK'
      BY <1>0, <2>0, <2>2 DEF TypeOK
    <2>4. \A i, j \in Node : installed[i][j] \subseteq installed'[i][j]
      BY <1>0, <2>2 DEF TypeOK
    <2>5. e \in installed'[n][p] /\ e \in installed'[p][n]
      BY <1>0, <2>1, <2>2, <2>4 DEF TypeOK
    <2>6. PacketsHonest'
      BY <2>2, <2>4 DEF PacketsHonest, TypeOK, Packet
    <2>7. ResponderFirst'
      BY <1>0, <2>1, <2>2, <2>4, <2>5 DEF ResponderFirst, TypeOK
    <2>8. SessionsInstalled'
      BY <1>0, <2>2, <2>4, <2>5 DEF SessionsInstalled, TypeOK
    <2>9. AckInstalled'
      BY <2>0, <2>1, <2>2, <2>4, <2>5 DEF AckInstalled, TypeOK
    <2>10. NoStaleEntry'
      BY <2>2 DEF NoStaleEntry
    <2> QED BY <2>3, <2>6, <2>7, <2>8, <2>9, <2>10
  <1> QED BY <1>1, <1>2, <1>3, <1>4

LEMMA RestartStep ==
  ASSUME HandshakeInv, NEW n \in Node, Restart(n)
  PROVE  HandshakeInv'
  <1> USE DEF HandshakeInv
  <1>1. TypeOK'
    BY DEF Restart, TypeOK, Stage
  <1>2. PacketsHonest' /\ ResponderFirst'
    BY DEF Restart, PacketsHonest, ResponderFirst
  <1>3. SessionsInstalled'
    BY DEF Restart, SessionsInstalled, TypeOK
  <1>4. AckInstalled'
    BY DEF Restart, AckInstalled, TypeOK
  <1>5. NoStaleEntry'
    BY NoneAssumption, CallEnds DEF Restart, NoStaleEntry, TypeOK
  <1> QED BY <1>1, <1>2, <1>3, <1>4, <1>5

LEMMA NextInv == HandshakeInv /\ [Next]_vars => HandshakeInv'
  <1> SUFFICES ASSUME HandshakeInv, [Next]_vars PROVE HandshakeInv'
    OBVIOUS
  <1>1. CASE UNCHANGED vars
    BY <1>1 DEF vars, HandshakeInv, TypeOK, PacketsHonest, ResponderFirst,
                SessionsInstalled, AckInstalled, NoStaleEntry
  <1>2. CASE Next
    BY <1>2, CallSteps, HandlerSteps, RestartStep DEF Next
  <1> QED BY <1>1, <1>2

\* The inductive invariant of the handshake.
THEOREM Invariance == Spec => []HandshakeInv
  BY InitInv, NextInv, PTL DEF Spec

\* Every initiator's session key was installed by the responder before, for
\* any number of nodes and of concurrent, repeated or crossed connects.
THEOREM KeyConfirmedThm == Spec => []KeyConfirmed
  <1>1. HandshakeInv => KeyConfirmed
    <2> SUFFICES ASSUME HandshakeInv, NEW n \in Node, NEW p \in Node,
                        sessions[n][p] # None, sessions[n][p].from = n
                 PROVE  sessions[n][p] \in installed[p][n]
      BY DEF KeyConfirmed
    <2>1. sessions[n][p] \in installed[n][p] /\ sessions[n][p] \in Call
      BY DEF HandshakeInv, SessionsInstalled, TypeOK
    <2> QED BY <2>1, CallEnds DEF HandshakeInv, ResponderFirst
  <1> QED BY <1>1, Invariance, PTL

\* A connect that returned True has its key installed at both ends.
THEOREM TrueMeansBothThm == Spec => []TrueMeansBoth
  <1>1. HandshakeInv => TrueMeansBoth
    <2> SUFFICES ASSUME HandshakeInv, NEW c \in Call, stage[c] = "ok"
                 PROVE  /\ c \in installed[c.from][c.to]
                        /\ c \in installed[c.to][c.from]
      BY DEF TrueMeansBoth
    <2>1. c \in installed[c.from][c.to]
      BY DEF HandshakeInv, AckInstalled
    <2> QED BY <2>1, CallEnds DEF HandshakeInv, ResponderFirst
  <1> QED BY <1>1, Invariance, PTL

\* No entry of _pending belongs to a connect that has ended.
THEOREM NoStaleEntryThm == Spec => []NoStaleEntry
  <1>1. HandshakeInv => NoStaleEntry
    BY DEF HandshakeInv
  <1> QED BY <1>1, Invariance, PTL

\* Pending entries, stages, keys and packets keep their shape.
THEOREM TypeOKThm == Spec => []TypeOK
  <1>1. HandshakeInv => TypeOK
    BY DEF HandshakeInv
  <1> QED BY <1>1, Invariance, PTL

----------------------------------------------------------------------------
(* Every connect ends.                                                      *)

\* What the fairness of the timers rests on: the timer of a wait that goes on
\* can fire.
CanFire(c) ==
  /\ stage[c] = "wait_resp" => ENABLED <<TimeoutResp(c)>>_vars
  /\ stage[c] = "wait_ack" => ENABLED <<TimeoutAck(c)>>_vars

TimersEnabled == \A c \in Call : CanFire(c)

\* What the steps of all calls, handlers and restarts may do to one call.
LEMMA StageStep ==
  ASSUME NEW c \in Call, TypeOK, [Next]_vars, stage[c] \in Waiting
  PROVE  \/ stage'[c] = stage[c]
         \/ stage[c] = "wait_resp" /\ stage'[c] = "wait_ack"
         \/ stage'[c] \notin Waiting
  <1>1. CASE UNCHANGED vars
    BY <1>1 DEF vars
  <1>2. ASSUME NEW d \in Call,
               \/ Connect(d) \/ ResumeResp(d) \/ TimeoutResp(d)
               \/ ResumeAck(d) \/ TimeoutAck(d)
        PROVE  \/ stage'[c] = stage[c]
               \/ stage[c] = "wait_resp" /\ stage'[c] = "wait_ack"
               \/ stage'[c] \notin Waiting
    BY <1>2 DEF Connect, ResumeResp, TimeoutResp, ResumeAck, TimeoutAck, Expires,
                TypeOK, Waiting
  <1>3. ASSUME NEW m \in net,
               \/ HandleHandshake(m) \/ HandleHandshakeResp(m)
               \/ HandleKeyInit(m) \/ HandleKeyAck(m)
        PROVE  stage'[c] = stage[c]
    BY <1>3 DEF HandleHandshake, HandleHandshakeResp, HandleKeyInit, HandleKeyAck
  <1>4. ASSUME NEW n \in Node, Restart(n)
        PROVE  stage'[c] = stage[c] \/ stage'[c] \notin Waiting
    BY <1>4 DEF Restart, Waiting
  <1> QED BY <1>1, <1>2, <1>3, <1>4 DEF Next

\* One call.
LEMMA CallReturns ==
  ASSUME NEW c \in Call
  PROVE  Spec /\ Timed(c) /\ []CanFire(c)
           => (stage[c] \in Waiting ~> stage[c] \notin Waiting)
  <1> DEFINE R == stage[c] = "wait_resp"
             A == stage[c] = "wait_ack"
             Ended == stage[c] \notin Waiting
  <1>1. Spec => []TypeOK
    BY TypeOKThm
  <1>2. TypeOK /\ R /\ [Next]_vars => R' \/ A' \/ Ended'
    BY StageStep DEF Waiting
  <1>3. TypeOK /\ A /\ [Next]_vars => A' \/ Ended'
    BY StageStep DEF Waiting
  <1>4. TypeOK /\ <<TimeoutResp(c)>>_vars => Ended'
    BY DEF TimeoutResp, TypeOK, Waiting
  <1>5. TypeOK /\ <<TimeoutAck(c)>>_vars => Ended'
    BY DEF TimeoutAck, TypeOK, Waiting
  <1>6. stage[c] \in Waiting => R \/ A
    BY DEF Waiting
  <1>7. Spec /\ Timed(c) /\ []CanFire(c) => (A ~> Ended)
    BY <1>1, <1>3, <1>5, PTL DEF Spec, Timed, CanFire
  <1>8. Spec /\ Timed(c) /\ []CanFire(c) => (R ~> (A \/ Ended))
    BY <1>1, <1>2, <1>4, PTL DEF Spec, Timed, CanFire
  <1> QED BY <1>6, <1>7, <1>8, PTL

\* Every call of connect ends, whatever the other calls, the handlers, the
\* restarts and the network do, if its two timers fire (HANDSHAKE_TIMEOUT).
THEOREM ConnectReturnsThm ==
  FairSpec /\ []TimersEnabled => ConnectReturns
  <1>1. ASSUME NEW c \in Call
        PROVE  FairSpec /\ []TimersEnabled => (stage[c] \in Waiting ~> stage[c] \notin Waiting)
    <2>1. FairSpec => Spec /\ Timed(c)
      BY DEF FairSpec
    <2>2. TimersEnabled => CanFire(c)
      BY DEF TimersEnabled
    <2>3. []TimersEnabled => []CanFire(c)
      BY <2>2, PTL
    <2> QED BY <2>1, <2>3, CallReturns
  <1> QED BY <1>1 DEF ConnectReturns
=============================================================================
