----------------------------- MODULE Messaging -----------------------------
(***************************************************************************)
(* Messages over established sessions in mesh/transport.py: send, the      *)
(* receiver's reassembly in _handle_message, _handle_ack and _retry_loop,  *)
(* for one sending node and the peers it sends to.                         *)
(*                                                                         *)
(* A message is signed, cut into fragments, and each fragment encrypted    *)
(* and authenticated under the session key.  _in_flight and the message    *)
(* counter are the sender's, shared by all peers; reassembly buffers are   *)
(* the receiver's.  Either end may restart, and either may install a new   *)
(* session key at any time (see Handshake), which the other end need not   *)
(* have.  Key derivation is repeatable at the responder: a HANDSHAKE and a *)
(* KEY_INIT of the peer that outlive the sender's restart give it back a   *)
(* key of an earlier life.                                                 *)
(*                                                                         *)
(* The network keeps every packet sent: each may be delivered late, out of *)
(* order, repeatedly, or never.                                            *)
(***************************************************************************)
EXTENDS Naturals, FiniteSets

CONSTANTS Peer,
          None,
          MaxMsgs,      \* messages of one life of the sender
          MaxFrags,     \* MAX_FRAG_TOTAL
          Totals,       \* [Peer -> numbers of fragments messages to it may need]
          MaxBufs,      \* MAX_REASSEMBLY_BUFS
          MaxRetries,   \* MAX_RETRIES
          MaxRestarts,  \* restarts of the sender
          MaxKeys       \* session keys per peer, and life of the sender

ASSUME BoundsAssumption ==
  /\ MaxMsgs \in Nat /\ MaxBufs \in Nat /\ MaxRetries \in Nat \ {0}
  /\ MaxRestarts \in Nat /\ MaxKeys \in Nat \ {0}
  /\ MaxFrags \in Nat \ {0} /\ Totals \in [Peer -> SUBSET (1 .. MaxFrags)]

Id == 1 .. MaxMsgs
Life == 0 .. MaxRestarts
Idx == 0 .. MaxFrags - 1

\* A signed message; life and id tell it from every other one.
Message == [id : Id, life : Life, to : Peer, total : 1 .. MaxFrags]

\* A session key, with the life of the sender in which it was first derived.
Key == [peer : Peer, life : Life, n : 1 .. MaxKeys]

\* One transmission of a fragment: retransmissions repeat the packet's bytes,
\* attempt only tells them apart.
Fragment == [msg : Message, idx : Idx, key : Key, attempt : 1 .. MaxRetries]
Ack == [from : Peer, key : Key, id : Id]

\* _InFlight: the packet to retransmit, and how often it was sent.
InFlight == Fragment

ASSUME NoneAssumption == None \notin Message \cup Key \cup InFlight

VARIABLES
  life,       \* how often the sender has restarted
  nextId,     \* _msg_id_counter
  sent,       \* history: messages signed by send
  inflight,   \* [Id -> InFlight or None]: _in_flight
  skey,       \* [Peer -> Key or None]: the sender's session with the peer
  rkey,       \* [Peer -> Key or None]: the peer's session with the sender
  bufs,       \* [Peer -> [Id -> [Idx -> Message or None]]]: _frag_bufs
  frags,      \* MESSAGE packets sent
  acks,       \* ACK packets sent
  delivered,  \* history: what _message_cbs received, fragment by fragment
  acked       \* history: in-flight messages removed by an ACK, and whether
              \* its MAC was verified with a key of the present life

vars == <<life, nextId, sent, inflight, skey, rkey, bufs, frags, acks,
          delivered, acked>>

\* The fragments of m, in order.
Whole(m) == [i \in 0 .. m.total - 1 |-> m]
Empty == [i \in Idx |-> None]

FirstKey(p) == [peer |-> p, life |-> 0, n |-> 1]

TypeOK ==
  /\ life \in Life
  /\ nextId \in 1 .. MaxMsgs + 1
  /\ sent \subseteq Message
  /\ inflight \in [Id -> InFlight \cup {None}]
  /\ skey \in [Peer -> Key \cup {None}]
  /\ rkey \in [Peer -> Key \cup {None}]
  /\ bufs \in [Peer -> [Id -> [Idx -> Message \cup {None}]]]
  /\ frags \subseteq Fragment
  /\ acks \subseteq Ack
  /\ acked \subseteq [msg : Message, fresh : BOOLEAN]

\* A first handshake with every peer is complete.
Init ==
  /\ life = 0
  /\ nextId = 1
  /\ sent = {}
  /\ inflight = [i \in Id |-> None]
  /\ skey = [p \in Peer |-> FirstKey(p)]
  /\ rkey = [p \in Peer |-> FirstKey(p)]
  /\ bufs = [p \in Peer |-> [i \in Id |-> Empty]]
  /\ frags = {} /\ acks = {}
  /\ delivered = {} /\ acked = {}

----------------------------------------------------------------------------
(* Mutated forms of definitions below; no run of the project uses them.    *)

MutSignatureOK(parts) == TRUE
MutMacOK(k, a) == TRUE
MutRetransmission(f) == f
MutFragmentsOf(m, k) == {[msg |-> m, idx |-> i, key |-> k, attempt |-> 1] : i \in 0 .. m.total}

----------------------------------------------------------------------------
(* The sender                                                              *)

NewMessage(p, t) == [id |-> nextId, life |-> life, to |-> p, total |-> t]

FragmentsOf(m, k) == {[msg |-> m, idx |-> i, key |-> k, attempt |-> 1] : i \in 0 .. m.total - 1}

\* send: every fragment goes out, and each overwrites _in_flight[msg_id], so
\* the last one is what stays there.
Send(p, t) ==
  LET m == NewMessage(p, t)  k == skey[p] IN
  /\ k # None                          \* self._sessions[peer_id]
  /\ nextId <= MaxMsgs
  /\ nextId' = nextId + 1
  /\ sent' = sent \cup {m}
  /\ frags' = frags \cup FragmentsOf(m, k)
  /\ inflight' = [inflight EXCEPT ![m.id] =
                    [msg |-> m, idx |-> t - 1, key |-> k, attempt |-> 1]]
  /\ UNCHANGED <<life, skey, rkey, bufs, acks, delivered, acked>>

\* _dispatch verifies the MAC under the session of the ACK's address; if the
\* address has no session, nothing is verified.
MacOK(k, a) == k = None \/ k = a.key

\* A key derived since the sender's last restart.
Fresh(k) == k # None /\ k.life = life

_handle_ack(a) ==
  LET f == inflight[a.id]  k == skey[a.from] IN
  /\ MacOK(k, a)
  /\ f # None
  /\ inflight' = [inflight EXCEPT ![a.id] = None]
  /\ acked' = acked \cup {[msg |-> f.msg, fresh |-> Fresh(k)]}
  /\ UNCHANGED <<life, nextId, sent, skey, rkey, bufs, frags, acks, delivered>>

Exhausted(f) == f.attempt >= MaxRetries

Retransmission(f) == [f EXCEPT !.attempt = @ + 1]

\* One turn of _retry_loop for a message whose retry is due: its packet is
\* sent again as it was, under the key of its first transmission; after
\* MAX_RETRIES it is given up.
_retry_loop(i) ==
  LET f == inflight[i]  g == Retransmission(f) IN
  /\ f # None
  /\ IF Exhausted(f)
     THEN inflight' = [inflight EXCEPT ![i] = None] /\ frags' = frags
     ELSE inflight' = [inflight EXCEPT ![i] = g] /\ frags' = frags \cup {g}
  /\ UNCHANGED <<life, nextId, sent, skey, rkey, bufs, acks, delivered, acked>>

----------------------------------------------------------------------------
(* The receiver                                                            *)

HasBuf(p, i) == bufs[p][i] # Empty

\* A fragment for which no buffer can be opened is dropped.
RoomFor(p, i) == HasBuf(p, i) \/ Cardinality({j \in Id : HasBuf(p, j)}) < MaxBufs

Stored(b) == {i \in Idx : b[i] # None}

\* verify_signature of the assembled bytes: the signature is at the start of
\* the first fragment, and covers that message and nothing else.
SignatureOK(parts) == parts = Whole(parts[0])

\* _handle_message, after _dispatch verified the MAC under the session key.
\* The three outcomes after the fragment is stored: fewer fragments than
\* total, wait; enough, but one of them missing (indices left by a longer
\* message with the same id), a KeyError that leaves the buffer; all there,
\* and the buffer is removed whether or not the signature verifies.
_handle_message(f) ==
  LET p == f.msg.to
      i == f.msg.id
      t == f.msg.total
      b == [bufs[p][i] EXCEPT ![f.idx] = f.msg]
      complete == Cardinality(Stored(b)) >= t /\ 0 .. t - 1 \subseteq Stored(b)
      parts == [j \in 0 .. t - 1 |-> b[j]]
      ok == complete /\ SignatureOK(parts)
  IN
  /\ rkey[p] = f.key
  /\ RoomFor(p, i)
  /\ bufs' = [bufs EXCEPT ![p][i] = IF complete THEN Empty ELSE b]
  /\ acks' = IF ok THEN acks \cup {[from |-> p, key |-> f.key, id |-> i]} ELSE acks
  /\ delivered' = IF ok THEN delivered \cup {parts} ELSE delivered
  /\ UNCHANGED <<life, nextId, sent, inflight, skey, rkey, frags, acked>>

----------------------------------------------------------------------------
(* Sessions and restarts                                                   *)

\* As initiator (_handle_key_ack) the sender installs a key it has just made.
\* As responder (_handle_key_init) it installs whatever key the KEY_INIT
\* gives, one of an earlier life when the peer's packets are repeated.  Which
\* end initiated a key is not kept: one the sender initiated does what one of
\* the peer's does that is never repeated.
InstallSender(p, k) ==
  /\ k.peer = p /\ k.life <= life
  /\ skey' = [skey EXCEPT ![p] = k]
  /\ UNCHANGED <<life, nextId, sent, inflight, rkey, bufs, frags, acks, delivered, acked>>

\* The peer may install any key of the pair, an old one included.
InstallReceiver(p, k) ==
  /\ k.peer = p /\ k.life <= life
  /\ rkey' = [rkey EXCEPT ![p] = k]
  /\ UNCHANGED <<life, nextId, sent, inflight, skey, bufs, frags, acks, delivered, acked>>

SenderRestart ==
  /\ life < MaxRestarts
  /\ life' = life + 1
  /\ nextId' = 1
  /\ inflight' = [i \in Id |-> None]
  /\ skey' = [p \in Peer |-> None]
  /\ UNCHANGED <<sent, rkey, bufs, frags, acks, delivered, acked>>

ReceiverRestart(p) ==
  /\ rkey' = [rkey EXCEPT ![p] = None]
  /\ bufs' = [bufs EXCEPT ![p] = [i \in Id |-> Empty]]
  /\ UNCHANGED <<life, nextId, sent, inflight, skey, frags, acks, delivered, acked>>

Next ==
  \/ \E p \in Peer : \E t \in Totals[p] : Send(p, t)
  \/ \E a \in acks : _handle_ack(a)
  \/ \E i \in Id : _retry_loop(i)
  \/ \E f \in frags : _handle_message(f)
  \/ \E p \in Peer, k \in Key : InstallSender(p, k) \/ InstallReceiver(p, k)
  \/ SenderRestart
  \/ \E p \in Peer : ReceiverRestart(p)

Spec == Init /\ [][Next]_vars

\* _retry_loop is a task that runs as long as the process does.
Retries(i) == WF_vars(_retry_loop(i))

FairSpec == Spec /\ \A i \in Id : Retries(i)

\* A network that may lose any first transmission but delivers what is
\* retransmitted; no restarts and no new keys.
RetryNext ==
  \/ \E p \in Peer : \E t \in Totals[p] : Send(p, t)
  \/ \E a \in acks : _handle_ack(a)
  \/ \E i \in Id : _retry_loop(i)
  \/ \E f \in frags : _handle_message(f)

\* A retransmitted packet of a message not yet delivered reaches its peer.
Redeliver ==
  \E f \in frags : /\ f.attempt > 1
                    /\ Whole(f.msg) \notin delivered
                    /\ _handle_message(f)

RetrySpec == /\ Init /\ [][RetryNext]_vars
             /\ \A i \in Id : Retries(i)
             /\ WF_vars(Redeliver)

----------------------------------------------------------------------------
(* Properties                                                              *)

\* Only whole messages reach the callbacks, each with the fragments of one
\* message the sender signed, although a restarted sender reuses message ids
\* and buffers keyed by (peer, id) then mix two messages.
Integrity == \A d \in delivered : \E m \in sent : d = Whole(m)

\* An in-flight message removed by an ACK under a key of this life was
\* delivered, although an ACK names no more than a message id that every life
\* of the sender uses again, for whichever peer comes next, and although a key
\* of an earlier life may be the session's in between.
FreshAckSound ==
  \A a \in acked : a.fresh => Whole(a.msg) \in delivered

\* What the two rest on.  A life of the sender uses each id once; fragments
\* are of messages sent, under keys no younger than the message, and an ACK
\* stands for a message delivered under its key.
SentOnce ==
  /\ \A m \in sent : m.life <= life /\ (m.life = life => m.id < nextId)
  /\ \A m1, m2 \in sent : (m1.life = m2.life /\ m1.id = m2.id) => m1 = m2

PacketsOfSent ==
  /\ \A f \in frags : f.msg \in sent /\ f.idx < f.msg.total /\ f.key.life <= f.msg.life
  /\ \A a \in acks : \E m \in sent :
       m.id = a.id /\ a.key.life <= m.life /\ Whole(m) \in delivered

SenderState ==
  /\ \A p \in Peer : skey[p] # None => skey[p].life <= life
  /\ \A i \in Id : inflight[i] # None =>
       LET f == inflight[i] IN
       /\ f.msg \in sent /\ f.idx < f.msg.total /\ f.key.life <= f.msg.life
       /\ f.msg.id = i /\ f.msg.life = life

BuffersOfSent ==
  \A p \in Peer, i \in Id, j \in Idx : bufs[p][i][j] # None => bufs[p][i][j] \in sent

MessagingInv == /\ TypeOK /\ SentOnce /\ PacketsOfSent /\ SenderState
                /\ BuffersOfSent /\ Integrity /\ FreshAckSound

\* No message stays in flight for ever: it is acknowledged, given up after
\* MAX_RETRIES, or lost with the process.
Resolves == \A i \in Id : inflight[i] # None ~> inflight[i] = None

----------------------------------------------------------------------------
(* A claim of the repository that the code does not keep                   *)

\* _retry_loop: "retransmit unACKed messages".  If retransmissions arrive, a
\* message is delivered or its ACK is still outstanding.
RetriesDeliver ==
  \A i \in Id : inflight[i] # None ~> \E d \in delivered : d[0].id = i
=============================================================================
