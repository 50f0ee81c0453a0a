-------------------------- MODULE MessagingProofs --------------------------
(* Proofs about Messaging, for any peers, fragment counts and bounds.       *)
EXTENDS Messaging, FiniteSetTheorems, TLAPS

LEMMA TotalIsNat == \A m \in Message : m.total \in Nat
  <1>1. \A m \in Message : m.total \in 1 .. MaxFrags
    BY DEF Message
  <1>2. 1 .. MaxFrags \subseteq Nat
    BY BoundsAssumption
  <1> QED BY <1>1, <1>2

\* If the signature over the assembled fragments verifies, they all belong
\* to the message of the fragment that completed the buffer.
LEMMA AssembledIsWhole ==
  ASSUME NEW m \in Message, NEW k \in 0 .. m.total - 1, NEW b \in [Idx -> Message \cup {None}],
         b[k] = m, SignatureOK([j \in 0 .. m.total - 1 |-> b[j]])
  PROVE  [j \in 0 .. m.total - 1 |-> b[j]] = Whole(m)
  <1> DEFINE parts == [j \in 0 .. m.total - 1 |-> b[j]]
  <1>0. m.total \in Nat
    BY TotalIsNat
  <1>1. parts = Whole(parts[0])
    BY DEF SignatureOK
  <1>2. DOMAIN Whole(parts[0]) = 0 .. m.total - 1
    BY <1>1
  <1>3. Whole(parts[0])[k] = parts[0]
    BY <1>2 DEF Whole
  <1>4. parts[k] = m
    OBVIOUS
  <1>5. parts[0] = m
    BY <1>1, <1>3, <1>4
  <1> QED BY <1>1, <1>5

LEMMA InitInv == Init => MessagingInv
  <1> SUFFICES ASSUME Init PROVE MessagingInv
    OBVIOUS
  <1>1. \A p \in Peer : FirstKey(p) \in Key /\ FirstKey(p).life = 0
    BY BoundsAssumption DEF FirstKey, Key, Life
  <1>2. TypeOK
    <2>1. life \in Life /\ nextId \in 1 .. MaxMsgs + 1
      BY BoundsAssumption DEF Init, Life
    <2> QED BY <1>1, <2>1 DEF Init, TypeOK, Empty
  <1>3. SentOnce /\ PacketsOfSent /\ Integrity /\ FreshAckSound
    BY DEF Init, SentOnce, PacketsOfSent, Integrity, FreshAckSound
  <1>4. SenderState
    BY <1>1 DEF Init, SenderState
  <1>5. BuffersOfSent
    BY DEF Init, BuffersOfSent, Empty
  <1> QED BY <1>2, <1>3, <1>4, <1>5 DEF MessagingInv

LEMMA SendStep ==
  ASSUME MessagingInv, NEW p \in Peer, NEW t \in Totals[p], Send(p, t)
  PROVE  MessagingInv'
  <1> USE DEF MessagingInv
  <1> DEFINE m == NewMessage(p, t)
             k == skey[p]
             g == [msg |-> m, idx |-> t - 1, key |-> k, attempt |-> 1]
             F == FragmentsOf(m, k)
  <1>0. t \in 1 .. MaxFrags /\ t \in Nat /\ life \in Nat /\ nextId \in Nat
    BY BoundsAssumption DEF TypeOK, Life
  <1>1. /\ m \in Message /\ m.id = nextId /\ m.life = life /\ m.total = t /\ nextId \in Id
    BY BoundsAssumption DEF Send, TypeOK, NewMessage, Message, Id
  <1>2. k \in Key /\ k.life \in Nat /\ k.life <= life
    BY DEF Send, TypeOK, SenderState, Key, Life
  <1> HIDE DEF m, k
  <1>3. g \in InFlight /\ g.msg = m /\ g.idx < m.total /\ g.key = k
    BY <1>0, <1>1, <1>2, BoundsAssumption DEF InFlight, Fragment, Idx
  <1>4. \A f \in F : f \in Fragment /\ f.msg = m /\ f.idx < m.total /\ f.key = k
    <2> SUFFICES ASSUME NEW i \in 0 .. m.total - 1
                 PROVE  LET f == [msg |-> m, idx |-> i, key |-> k, attempt |-> 1]
                        IN  f \in Fragment /\ f.msg = m /\ f.idx < m.total /\ f.key = k
      BY DEF FragmentsOf
    <2> QED BY <1>0, <1>1, <1>2, BoundsAssumption DEF Fragment, Idx
  <1>5. /\ nextId' = nextId + 1
        /\ sent' = sent \cup {m}
        /\ frags' = frags \cup F
        /\ inflight' = [inflight EXCEPT ![nextId] = g]
        /\ UNCHANGED <<life, skey, rkey, bufs, acks, delivered, acked>>
    BY <1>1 DEF Send, m, k
  <1> HIDE DEF g, F
  <1>6. TypeOK'
    <2>1. nextId' \in 1 .. MaxMsgs + 1
      BY <1>1, <1>5, BoundsAssumption DEF Id
    <2>2. inflight' \in [Id -> InFlight \cup {None}]
      BY <1>3, <1>5 DEF TypeOK
    <2>3. frags' \subseteq Fragment /\ sent' \subseteq Message
      BY <1>1, <1>4, <1>5 DEF TypeOK
    <2> QED BY <1>5, <2>1, <2>2, <2>3 DEF TypeOK
  <1>7. SentOnce'
    <2>1. \A x \in sent : x.id \in Nat /\ x.life \in Nat
      BY DEF TypeOK, Message, Id, Life
    <2>2. \A x \in sent : ~(x.life = m.life /\ x.id = m.id)
      BY <1>0, <1>1, <2>1 DEF SentOnce
    <2> QED BY <1>0, <1>1, <1>5, <2>1, <2>2 DEF SentOnce
  <1>8. PacketsOfSent'
    BY <1>1, <1>2, <1>4, <1>5 DEF PacketsOfSent
  <1>9. SenderState'
    BY <1>1, <1>2, <1>3, <1>5 DEF SenderState, TypeOK
  <1>10. BuffersOfSent' /\ Integrity' /\ FreshAckSound'
    BY <1>5 DEF BuffersOfSent, Integrity, FreshAckSound
  <1> QED BY <1>6, <1>7, <1>8, <1>9, <1>10

\* A key of the present life ties the ACK to a message of this life; within
\* it the id names one message, the one in flight.
LEMMA AckStep ==
  ASSUME MessagingInv, NEW a \in acks, _handle_ack(a)
  PROVE  MessagingInv'
  <1> USE DEF MessagingInv
  <1> DEFINE f == inflight[a.id]
             k == skey[a.from]
  <1>0. a.id \in Id /\ a.from \in Peer
    BY DEF TypeOK, Ack
  <1>1. f \in InFlight /\ f.msg \in sent /\ f.msg.id = a.id /\ f.msg.life = life
        /\ f.msg \in Message
    BY <1>0 DEF _handle_ack, SenderState, TypeOK
  <1>2. Fresh(k) => Whole(f.msg) \in delivered
    <2> SUFFICES ASSUME Fresh(k) PROVE Whole(f.msg) \in delivered
      OBVIOUS
    <2>1. k = a.key /\ a.key.life = life
      BY <1>0 DEF _handle_ack, MacOK, Fresh
    <2>2. PICK m \in sent : m.id = a.id /\ a.key.life <= m.life /\ Whole(m) \in delivered
      BY DEF PacketsOfSent
    <2>3. m.life = life
      <3>1. m.life \in Nat /\ life \in Nat /\ m.life <= life
        BY DEF TypeOK, Message, Life, SentOnce
      <3> QED BY <2>1, <2>2, <3>1
    <2>4. m = f.msg
      BY <1>1, <2>2, <2>3 DEF SentOnce
    <2> QED BY <2>2, <2>4
  <1>3. /\ inflight' = [inflight EXCEPT ![a.id] = None]
        /\ acked' = acked \cup {[msg |-> f.msg, fresh |-> Fresh(k)]}
        /\ UNCHANGED <<life, nextId, sent, skey, rkey, bufs, frags, acks, delivered>>
    BY DEF _handle_ack
  <1> HIDE DEF f
  <1>4. [msg |-> f.msg, fresh |-> Fresh(k)] \in [msg : Message, fresh : BOOLEAN]
    <2>1. Fresh(k) \in BOOLEAN
      BY Zenon DEF Fresh
    <2> QED BY <1>1, <2>1, Zenon
  <1>5. TypeOK'
    BY <1>0, <1>3, <1>4 DEF TypeOK
  <1>6. SenderState'
    BY <1>0, <1>3 DEF SenderState, TypeOK
  <1>7. FreshAckSound'
    <2> DEFINE n == [msg |-> f.msg, fresh |-> Fresh(k)]
    <2>1. n.msg = f.msg /\ (n.fresh <=> Fresh(k))
      BY Zenon
    <2> HIDE DEF n, k
    <2>2. acked' = acked \cup {n} /\ delivered' = delivered
      BY <1>3 DEF n, k
    <2>3. n.fresh => Whole(n.msg) \in delivered
      BY <1>2, <2>1
    <2> QED BY <2>2, <2>3, Zenon DEF FreshAckSound
  <1>8. SentOnce' /\ PacketsOfSent' /\ BuffersOfSent' /\ Integrity'
    BY <1>3 DEF SentOnce, PacketsOfSent, BuffersOfSent, Integrity
  <1> QED BY <1>5, <1>6, <1>7, <1>8

LEMMA RetryStep ==
  ASSUME MessagingInv, NEW i \in Id, _retry_loop(i)
  PROVE  MessagingInv'
  <1> USE DEF MessagingInv
  <1> DEFINE f == inflight[i]
             g == Retransmission(f)
  <1>0. UNCHANGED <<life, nextId, sent, skey, rkey, bufs, acks, delivered, acked>>
    BY DEF _retry_loop
  <1>1. f \in Fragment /\ f # None
    BY DEF _retry_loop, TypeOK, InFlight
  <1>2. SentOnce' /\ BuffersOfSent' /\ Integrity' /\ FreshAckSound'
    BY <1>0 DEF SentOnce, BuffersOfSent, Integrity, FreshAckSound
  <1>3. CASE Exhausted(f)
    <2>1. inflight' = [inflight EXCEPT ![i] = None] /\ frags' = frags
      BY <1>3 DEF _retry_loop
    <2>2. TypeOK'
      BY <1>0, <2>1 DEF TypeOK
    <2>3. PacketsOfSent' /\ SenderState'
      BY <1>0, <2>1 DEF PacketsOfSent, SenderState, TypeOK
    <2> QED BY <1>2, <2>2, <2>3
  <1>4. CASE ~Exhausted(f)
    <2>1. inflight' = [inflight EXCEPT ![i] = g] /\ frags' = frags \cup {g}
      BY <1>4 DEF _retry_loop
    <2>2. /\ g \in Fragment /\ g.msg = f.msg /\ g.idx = f.idx /\ g.key = f.key
      BY <1>1, <1>4, BoundsAssumption DEF Fragment, Retransmission, Exhausted
    <2>3. /\ f.msg \in sent /\ f.idx < f.msg.total /\ f.key.life <= f.msg.life
          /\ f.msg.id = i /\ f.msg.life = life
      BY <1>1 DEF SenderState
    <2> HIDE DEF f, g
    <2>4. TypeOK'
      BY <1>0, <2>1, <2>2 DEF TypeOK, InFlight
    <2>5. PacketsOfSent'
      BY <1>0, <2>1, <2>2, <2>3 DEF PacketsOfSent
    <2>6. SenderState'
      BY <1>0, <2>1, <2>2, <2>3 DEF SenderState, TypeOK
    <2> QED BY <1>2, <2>4, <2>5, <2>6
  <1> QED BY <1>3, <1>4

LEMMA MessageStep ==
  ASSUME MessagingInv, NEW f \in frags, _handle_message(f)
  PROVE  MessagingInv'
  <1> USE DEF MessagingInv
  <1> DEFINE p == f.msg.to
             i == f.msg.id
             t == f.msg.total
             b == [bufs[p][i] EXCEPT ![f.idx] = f.msg]
             complete == Cardinality(Stored(b)) >= t /\ 0 .. t - 1 \subseteq Stored(b)
             parts == [j \in 0 .. t - 1 |-> b[j]]
             ok == complete /\ SignatureOK(parts)
             a == [from |-> p, key |-> f.key, id |-> i]
  <1>0. /\ f \in Fragment /\ f.msg \in sent /\ f.msg \in Message
        /\ f.idx < t /\ f.key.life <= f.msg.life
    BY DEF PacketsOfSent, TypeOK
  <1>1. /\ p \in Peer /\ i \in Id /\ t \in Nat /\ f.idx \in Idx /\ f.idx \in 0 .. t - 1
        /\ f.key \in Key
    <2>1. p \in Peer /\ i \in Id
      BY <1>0 DEF Message
    <2>2. f.idx \in Idx /\ f.key \in Key /\ t \in Nat
      BY <1>0, TotalIsNat DEF Fragment
    <2> QED BY <1>0, <2>1, <2>2, BoundsAssumption DEF Idx
  <1>2. b \in [Idx -> Message \cup {None}] /\ b[f.idx] = f.msg
    BY <1>0, <1>1 DEF TypeOK
  <1>3. /\ bufs' = [bufs EXCEPT ![p][i] = IF complete THEN Empty ELSE b]
        /\ acks' = IF ok THEN acks \cup {a} ELSE acks
        /\ delivered' = IF ok THEN delivered \cup {parts} ELSE delivered
        /\ UNCHANGED <<life, nextId, sent, inflight, skey, rkey, frags, acked>>
    BY DEF _handle_message
  <1>4. ok => parts = Whole(f.msg)
    <2> HIDE DEF b
    <2> QED BY <1>0, <1>1, <1>2, AssembledIsWhole
  <1>5. \A j \in Idx : b[j] # None => b[j] \in sent
    BY <1>0, <1>1 DEF BuffersOfSent, TypeOK
  <1>6. a \in Ack /\ a.id = i /\ a.key = f.key
    BY <1>1 DEF Ack
  <1> HIDE DEF a, b, parts, complete
  <1>7. TypeOK'
    <2>1. Empty \in [Idx -> Message \cup {None}]
      BY DEF Empty
    <2>2. bufs' \in [Peer -> [Id -> [Idx -> Message \cup {None}]]]
      BY <1>1, <1>2, <1>3, <2>1 DEF TypeOK
    <2>3. acks' \subseteq Ack
      BY <1>3, <1>6 DEF TypeOK
    <2> QED BY <1>3, <2>2, <2>3 DEF TypeOK
  <1>8. SentOnce' /\ SenderState'
    BY <1>3 DEF SentOnce, SenderState
  <1>9. delivered \subseteq delivered'
    BY <1>3
  <1>10. PacketsOfSent'
    <2>1. \A c \in acks' : \E m \in sent :
            m.id = c.id /\ c.key.life <= m.life /\ Whole(m) \in delivered'
      <3> TAKE c \in acks'
      <3>1. CASE c \in acks
        BY <3>1, <1>9 DEF PacketsOfSent
      <3>2. CASE c \notin acks
        <4>1. ok /\ c = a
          BY <3>2, <1>3
        <4>2. Whole(f.msg) \in delivered'
          BY <4>1, <1>3, <1>4
        <4> QED BY <4>1, <4>2, <1>0, <1>6
      <3> QED BY <3>1, <3>2
    <2> QED BY <1>3, <2>1 DEF PacketsOfSent
  <1>11. BuffersOfSent'
    <2>1. \A j \in Idx : Empty[j] = None
      BY DEF Empty
    <2> QED BY <1>1, <1>3, <1>5, <2>1 DEF BuffersOfSent, TypeOK
  <1>12. Integrity'
    BY <1>0, <1>3, <1>4 DEF Integrity
  <1>13. FreshAckSound'
    BY <1>3, <1>9 DEF FreshAckSound
  <1> QED BY <1>7, <1>8, <1>10, <1>11, <1>12, <1>13

LEMMA SessionSteps ==
  ASSUME MessagingInv,
         \/ \E p \in Peer, k \in Key : InstallSender(p, k) \/ InstallReceiver(p, k)
         \/ SenderRestart
         \/ \E p \in Peer : ReceiverRestart(p)
         \/ UNCHANGED vars
  PROVE  MessagingInv'
  <1> USE DEF MessagingInv
  <1>0. UNCHANGED <<sent, frags, acks, delivered, acked>>
    BY DEF InstallSender, InstallReceiver, SenderRestart, ReceiverRestart, vars
  <1>1. PacketsOfSent' /\ Integrity' /\ FreshAckSound'
    BY <1>0 DEF PacketsOfSent, Integrity, FreshAckSound
  <1>2. CASE SenderRestart
    <2>1. life' = life + 1 /\ life' \in Life /\ life \in Nat
      BY <1>2, BoundsAssumption DEF SenderRestart, TypeOK, Life
    <2>2. TypeOK'
      BY <1>0, <1>2, <2>1, BoundsAssumption DEF SenderRestart, TypeOK
    <2>3. SentOnce'
      <3>1. \A m \in sent : m.life \in Nat /\ m.life <= life
        BY DEF TypeOK, Message, Life, SentOnce
      <3> QED BY <1>0, <2>1, <3>1 DEF SentOnce
    <2>4. SenderState' /\ BuffersOfSent'
      BY <1>2 DEF SenderRestart, SenderState, BuffersOfSent
    <2> QED BY <1>1, <2>2, <2>3, <2>4
  <1>3. ASSUME NEW p \in Peer, NEW k \in Key, InstallSender(p, k) PROVE MessagingInv'
    <2>1. TypeOK' /\ SentOnce' /\ BuffersOfSent'
      BY <1>3 DEF InstallSender, TypeOK, SentOnce, BuffersOfSent
    <2>2. SenderState'
      BY <1>3 DEF InstallSender, TypeOK, SenderState
    <2> QED BY <1>1, <2>1, <2>2
  <1>4. ASSUME NEW p \in Peer, NEW k \in Key, InstallReceiver(p, k) PROVE MessagingInv'
    <2>1. TypeOK' /\ SentOnce' /\ BuffersOfSent' /\ SenderState'
      BY <1>4 DEF InstallReceiver, TypeOK, SentOnce, BuffersOfSent, SenderState
    <2> QED BY <1>1, <2>1
  <1>5. ASSUME NEW p \in Peer, ReceiverRestart(p) PROVE MessagingInv'
    <2>0. Empty \in [Idx -> Message \cup {None}] /\ \A j \in Idx : Empty[j] = None
      BY DEF Empty
    <2>1. TypeOK'
      BY <1>5, <2>0 DEF ReceiverRestart, TypeOK
    <2>2. SentOnce' /\ SenderState'
      BY <1>5 DEF ReceiverRestart, SentOnce, SenderState
    <2>3. BuffersOfSent'
      BY <1>5, <2>0 DEF ReceiverRestart, BuffersOfSent, TypeOK
    <2> QED BY <1>1, <2>1, <2>2, <2>3
  <1>6. CASE UNCHANGED vars
    BY <1>6, <1>1 DEF vars, TypeOK, SentOnce, SenderState, BuffersOfSent
  <1> QED BY <1>2, <1>3, <1>4, <1>5, <1>6

\* The inductive invariant of messaging.
THEOREM Invariance == Spec => []MessagingInv
  <1>1. MessagingInv /\ [Next]_vars => MessagingInv'
    BY SendStep, AckStep, RetryStep, MessageStep, SessionSteps DEF Next
  <1> QED BY <1>1, InitInv, PTL DEF Spec

\* The callbacks receive whole messages that the sender signed, across
\* restarts, reused ids, mixed buffers and any delivery order.
THEOREM IntegrityThm == Spec => []Integrity
  <1>1. MessagingInv => Integrity
    BY DEF MessagingInv
  <1> QED BY <1>1, Invariance, PTL

\* What an ACK under a key of the present life takes out of flight was
\* delivered, whichever keys the sender held in between.
THEOREM FreshAckThm == Spec => []FreshAckSound
  <1>1. MessagingInv => FreshAckSound
    BY DEF MessagingInv
  <1> QED BY <1>1, Invariance, PTL

\* Buffers, packets and in-flight entries keep their shape.
THEOREM TypeOKThm == Spec => []TypeOK
  <1>1. MessagingInv => TypeOK
    BY DEF MessagingInv
  <1> QED BY <1>1, Invariance, PTL

-----------------------------------------------------------------------------
(* The reassembly buffers.                                                  *)

\* The ids a peer keeps a buffer for.
OpenBufs(p) == {j \in Id : HasBuf(p, j)}

BufsBounded == \A p \in Peer : Cardinality(OpenBufs(p)) <= MaxBufs

\* There are as many as there are ids at most.
LEMMA OpenBufsFinite ==
  ASSUME NEW p \in Peer
  PROVE  /\ IsFiniteSet(OpenBufs(p)) /\ Cardinality(OpenBufs(p)) \in Nat
         /\ IsFiniteSet(OpenBufs(p)') /\ Cardinality(OpenBufs(p)') \in Nat
  <1>1. IsFiniteSet(Id)
    BY FS_Interval, BoundsAssumption DEF Id
  <1>2. OpenBufs(p) \subseteq Id /\ OpenBufs(p)' \subseteq Id
    BY DEF OpenBufs
  <1> QED BY <1>1, <1>2, FS_Subset, FS_CardinalityType

\* A fragment opens one buffer, and only below the cap.
LEMMA MessageBuffer ==
  ASSUME TypeOK, BufsBounded, NEW f \in frags, _handle_message(f)
  PROVE  BufsBounded'
  <1> SUFFICES ASSUME NEW p \in Peer PROVE Cardinality(OpenBufs(p)') <= MaxBufs
    BY DEF BufsBounded
  <1> DEFINE i == f.msg.id
  <1>1. PICK b : bufs' = [bufs EXCEPT ![f.msg.to][i] = b]
    BY Zenon DEF _handle_message
  <1>2. Cardinality(OpenBufs(p)) <= MaxBufs
    BY DEF BufsBounded
  <1>3. CASE p = f.msg.to /\ ~HasBuf(p, i)
    <2>1. OpenBufs(p)' \subseteq OpenBufs(p) \cup {i}
      BY <1>1, <1>3 DEF OpenBufs, HasBuf, TypeOK
    <2>2. Cardinality(OpenBufs(p)) < MaxBufs
      <3>1. RoomFor(p, i)
        BY <1>3, Zenon DEF _handle_message
      <3> QED BY <1>3, <3>1 DEF RoomFor, OpenBufs
    <2> DEFINE O == OpenBufs(p)
    <2>3. IsFiniteSet(O \cup {i}) /\ Cardinality(O \cup {i}) <= MaxBufs
      <3>1. IsFiniteSet(O) /\ Cardinality(O) \in Nat
        BY OpenBufsFinite
      <3> HIDE DEF O, i
      <3>2. /\ IsFiniteSet(O \cup {i})
            /\ \/ Cardinality(O \cup {i}) = Cardinality(O)
               \/ Cardinality(O \cup {i}) = Cardinality(O) + 1
        BY <3>1, FS_AddElement
      <3> QED BY <2>2, <3>1, <3>2, BoundsAssumption DEF O
    <2>4. Cardinality(O \cup {i}) \in Nat
      BY <2>3, FS_CardinalityType
    <2>5. Cardinality(OpenBufs(p)') <= Cardinality(O \cup {i})
      BY <2>1, <2>3, FS_Subset
    <2> QED BY <2>3, <2>4, <2>5, OpenBufsFinite, BoundsAssumption
  <1>4. CASE ~(p = f.msg.to /\ ~HasBuf(p, i))
    <2>1. OpenBufs(p)' \subseteq OpenBufs(p)
      BY <1>1, <1>4 DEF OpenBufs, HasBuf, TypeOK
    <2>2. Cardinality(OpenBufs(p)') <= Cardinality(OpenBufs(p))
      BY <2>1, OpenBufsFinite, FS_Subset
    <2> QED BY <1>2, <2>2, OpenBufsFinite, BoundsAssumption
  <1> QED BY <1>3, <1>4

\* A receiver never keeps more than MAX_REASSEMBLY_BUFS buffers, though those of
\* messages that are never completed are not given up.
THEOREM BufsBoundedThm == Spec => []BufsBounded
  <1>1. Init => BufsBounded
    <2> SUFFICES ASSUME Init, NEW p \in Peer PROVE Cardinality(OpenBufs(p)) <= MaxBufs
      BY DEF BufsBounded
    <2>1. OpenBufs(p) = {}
      BY DEF Init, OpenBufs, HasBuf
    <2> QED BY <2>1, FS_EmptySet, BoundsAssumption
  <1>2. MessagingInv /\ BufsBounded /\ [Next]_vars => BufsBounded'
    <2> SUFFICES ASSUME MessagingInv, BufsBounded, [Next]_vars PROVE BufsBounded'
      OBVIOUS
    <2>1. CASE \E f \in frags : _handle_message(f)
      BY <2>1, MessageBuffer DEF MessagingInv
    <2>2. CASE \E q \in Peer : ReceiverRestart(q)
      <3> SUFFICES ASSUME NEW p \in Peer PROVE Cardinality(OpenBufs(p)') <= MaxBufs
        BY DEF BufsBounded
      <3>1. OpenBufs(p)' \subseteq OpenBufs(p)
        BY <2>2 DEF ReceiverRestart, OpenBufs, HasBuf, MessagingInv, TypeOK
      <3>2. Cardinality(OpenBufs(p)') <= Cardinality(OpenBufs(p))
        BY <3>1, OpenBufsFinite, FS_Subset
      <3> QED BY <3>2, OpenBufsFinite, BoundsAssumption DEF BufsBounded
    <2>3. CASE bufs' = bufs
      BY <2>3 DEF BufsBounded, OpenBufs, HasBuf
    <2> QED BY <2>1, <2>2, <2>3
            DEF Next, vars, Send, _handle_ack, _retry_loop, InstallSender,
                InstallReceiver, SenderRestart
  <1> QED BY <1>1, <1>2, Invariance, PTL DEF Spec

-----------------------------------------------------------------------------
(* No message stays in flight.                                              *)

\* What the fairness of _retry_loop rests on: it can take up what is in flight.
RetryEnabled(i) == inflight[i] # None => ENABLED <<_retry_loop(i)>>_vars
RetriesEnabled == \A i \in Id : RetryEnabled(i)

InFlightAt(i, k) == inflight[i] # None /\ inflight[i].attempt = k

\* A message that was sent k times.
LEMMA Attempts ==
  ASSUME MessagingInv, NEW i \in Id, inflight[i] # None
  PROVE  /\ inflight[i].attempt \in 1 .. MaxRetries
         /\ inflight[i] \in Fragment
  BY DEF MessagingInv, TypeOK, InFlight, Fragment

LEMMA Retried ==
  ASSUME MessagingInv, NEW i \in Id, _retry_loop(i)
  PROVE  \/ inflight'[i] = None
         \/ /\ inflight[i].attempt < MaxRetries
            /\ inflight'[i].attempt = inflight[i].attempt + 1
  <1>1. inflight[i] \in Fragment /\ inflight[i].attempt \in 1 .. MaxRetries
    BY Attempts DEF _retry_loop
  <1>2. inflight \in [Id -> InFlight \cup {None}]
    BY DEF MessagingInv, TypeOK
  <1>3. CASE Exhausted(inflight[i])
    BY <1>2, <1>3 DEF _retry_loop
  <1>4. CASE ~Exhausted(inflight[i])
    <2>1. inflight'[i] = Retransmission(inflight[i])
      BY <1>2, <1>4 DEF _retry_loop
    <2>2. inflight[i].attempt < MaxRetries
      BY <1>1, <1>4, BoundsAssumption DEF Exhausted
    <2>3. Retransmission(inflight[i]).attempt = inflight[i].attempt + 1
      BY <1>1 DEF Retransmission, Fragment
    <2> QED BY <2>1, <2>2, <2>3
  <1> QED BY <1>3, <1>4

\* Only _retry_loop touches the entry of a message in flight, short of its ACK
\* and a restart: an id is not used again by the same life.
LEMMA InFlightStep ==
  ASSUME MessagingInv, [Next]_vars, NEW i \in Id, inflight[i] # None
  PROVE  \/ inflight'[i] = None \/ inflight'[i] = inflight[i]
         \/ /\ inflight[i].attempt < MaxRetries
            /\ inflight'[i].attempt = inflight[i].attempt + 1
  <1>0. inflight \in [Id -> InFlight \cup {None}]
    BY DEF MessagingInv, TypeOK
  <1>1. ASSUME NEW p \in Peer, NEW t \in Totals[p], Send(p, t)
        PROVE  inflight'[i] = inflight[i]
    <2>1. inflight[i].msg.id = i /\ inflight[i].msg.life = life /\ inflight[i].msg \in sent
      BY DEF MessagingInv, SenderState
    <2>2. i < nextId
      BY <2>1 DEF MessagingInv, SentOnce
    <2>3. i # NewMessage(p, t).id
      BY <2>2 DEF NewMessage, MessagingInv, TypeOK, Id
    <2> QED BY <1>0, <1>1, <2>3 DEF Send
  <1>2. ASSUME NEW a \in acks, _handle_ack(a)
        PROVE  inflight'[i] = None \/ inflight'[i] = inflight[i]
    BY <1>0, <1>2 DEF _handle_ack
  <1>3. ASSUME NEW j \in Id, _retry_loop(j)
        PROVE  \/ inflight'[i] = None \/ inflight'[i] = inflight[i]
               \/ /\ inflight[i].attempt < MaxRetries
                  /\ inflight'[i].attempt = inflight[i].attempt + 1
    <2>1. CASE i = j
      BY <1>3, <2>1, Retried
    <2>2. CASE i # j
      BY <1>0, <1>3, <2>2 DEF _retry_loop
    <2> QED BY <2>1, <2>2
  <1>4. CASE SenderRestart
    BY <1>4 DEF SenderRestart
  <1>5. CASE UNCHANGED inflight
    BY <1>5
  <1>6. ASSUME NEW f \in frags, _handle_message(f) PROVE UNCHANGED inflight
    BY <1>6, Zenon DEF _handle_message
  <1>7. ASSUME NEW p \in Peer, NEW k \in Key, InstallSender(p, k) \/ InstallReceiver(p, k)
        PROVE  UNCHANGED inflight
    BY <1>7 DEF InstallSender, InstallReceiver
  <1>8. ASSUME NEW p \in Peer, ReceiverRestart(p) PROVE UNCHANGED inflight
    BY <1>8 DEF ReceiverRestart
  <1>9. CASE UNCHANGED vars
    BY <1>9 DEF vars
  <1> QED BY <1>1, <1>2, <1>3, <1>4, <1>5, <1>6, <1>7, <1>8, <1>9 DEF Next

\* A message that was sent k times is sent once more, or is no longer in flight.
LEMMA Progress ==
  ASSUME NEW i \in Id, NEW k \in Nat, MaxRetries <= 3
  PROVE  /\ MessagingInv /\ InFlightAt(i, k) /\ [Next]_vars
              => InFlightAt(i, k)' \/ (k < 3 /\ InFlightAt(i, k + 1)') \/ inflight'[i] = None
         /\ MessagingInv /\ InFlightAt(i, k) /\ <<_retry_loop(i)>>_vars
              => (k < 3 /\ InFlightAt(i, k + 1)') \/ inflight'[i] = None
  <1>1. MaxRetries \in Nat
    BY BoundsAssumption
  <1>2. ASSUME MessagingInv, InFlightAt(i, k), [Next]_vars
        PROVE  InFlightAt(i, k)' \/ (k < 3 /\ InFlightAt(i, k + 1)') \/ inflight'[i] = None
    BY <1>1, <1>2, InFlightStep DEF InFlightAt
  <1>3. ASSUME MessagingInv, InFlightAt(i, k), _retry_loop(i)
        PROVE  (k < 3 /\ InFlightAt(i, k + 1)') \/ inflight'[i] = None
    BY <1>1, <1>3, Retried DEF InFlightAt
  <1> QED BY <1>2, <1>3

\* One message.
LEMMA MessageResolves ==
  ASSUME NEW i \in Id, MaxRetries <= 3
  PROVE  Spec /\ Retries(i) /\ []RetryEnabled(i)
           => (inflight[i] # None ~> inflight[i] = None)
  <1> DEFINE I == MessagingInv
             A1 == InFlightAt(i, 1)
             A2 == InFlightAt(i, 2)
             A3 == InFlightAt(i, 3)
             Q == inflight[i] = None
  <1>1. Spec => []I
    BY Invariance
  <1>2. /\ I /\ A1 /\ [Next]_vars => A1' \/ A2' \/ Q'
        /\ I /\ A1 /\ <<_retry_loop(i)>>_vars => A2' \/ Q'
    BY Progress
  <1>3. /\ I /\ A2 /\ [Next]_vars => A2' \/ A3' \/ Q'
        /\ I /\ A2 /\ <<_retry_loop(i)>>_vars => A3' \/ Q'
    BY Progress
  <1>4. /\ I /\ A3 /\ [Next]_vars => A3' \/ Q'
        /\ I /\ A3 /\ <<_retry_loop(i)>>_vars => Q'
    BY Progress
  <1>5. I => A1 \/ A2 \/ A3 \/ Q
    BY Attempts, BoundsAssumption DEF InFlightAt
  <1>6. A1 \/ A2 \/ A3 => inflight[i] # None
    BY DEF InFlightAt
  <1> HIDE DEF I, A1, A2, A3
  <1>7. Spec /\ Retries(i) /\ []RetryEnabled(i) => (A3 ~> Q)
    BY <1>1, <1>4, <1>6, PTL DEF Spec, Retries, RetryEnabled
  <1>8. Spec /\ Retries(i) /\ []RetryEnabled(i) => (A2 ~> (A3 \/ Q))
    BY <1>1, <1>3, <1>6, PTL DEF Spec, Retries, RetryEnabled
  <1>9. Spec /\ Retries(i) /\ []RetryEnabled(i) => (A1 ~> (A2 \/ Q))
    BY <1>1, <1>2, <1>6, PTL DEF Spec, Retries, RetryEnabled
  <1> QED BY <1>1, <1>5, <1>7, <1>8, <1>9, PTL

\* No message stays in flight for ever, with the MAX_RETRIES of the code, 3, or
\* fewer: whatever is lost, acknowledged late or twice, and whoever restarts.
THEOREM ResolvesThm ==
  ASSUME MaxRetries <= 3
  PROVE  FairSpec /\ []RetriesEnabled => Resolves
  <1>1. ASSUME NEW i \in Id
        PROVE  FairSpec /\ []RetriesEnabled => (inflight[i] # None ~> inflight[i] = None)
    <2>1. FairSpec => Spec /\ Retries(i)
      BY DEF FairSpec
    <2>2. RetriesEnabled => RetryEnabled(i)
      BY DEF RetriesEnabled
    <2>3. []RetriesEnabled => []RetryEnabled(i)
      BY <2>2, PTL
    <2> QED BY <2>1, <2>3, MessageResolves
  <1> QED BY <1>1 DEF Resolves
=============================================================================
