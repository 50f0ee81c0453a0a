----------------------------- MODULE Handshake -----------------------------
(***************************************************************************)
(* The session handshake of mesh/transport.py: MeshTransport.connect and   *)
(* the four handshake handlers, run by every node in both roles.           *)
(*                                                                         *)
(*   initiator                          responder                          *)
(*     connect      --- HANDSHAKE ------>  _handle_handshake               *)
(*     _handle_handshake_resp <- HANDSHAKE_RESP -                          *)
(*     (resumes)    --- KEY_INIT ------->  _handle_key_init: session       *)
(*     _handle_key_ack: session <-- KEY_ACK ---                            *)
(*                                                                         *)
(* Both roles share one dictionary, _pending, keyed by the peer's address, *)
(* so a call's entry can be overwritten by a later call, reused by the     *)
(* responder's role, or removed by anyone.  A node has one address, so     *)
(* _sessions_by_addr is determined by _sessions and the pair of them is    *)
(* one variable.  No handler suspends between its reads and its writes, so *)
(* each is one step of the event loop; connect suspends at its two waits.  *)
(*                                                                         *)
(* The network is the set of all packets ever sent.  A packet in it may be *)
(* delivered at any time, any number of times, or never: UDP's loss,       *)
(* duplication and reordering.  Bundles are those of the two nodes (their  *)
(* signatures verify), and the key a call encapsulates is identified with  *)
(* the call: nobody else draws it.                                         *)
(***************************************************************************)
EXTENDS Naturals, FiniteSets

CONSTANTS Node,      \* devices, each with one address
          Attempt,   \* names of the connects one node makes to one peer
          Call,      \* the calls of connect made; each also names the session
                     \* key it encapsulates
          None,      \* no entry in a dictionary
          Responder  \* a _PendingHandshake made by _handle_handshake

\* Nobody connects to himself.
ASSUME CallAssumption ==
  Call \subseteq {c \in [from : Node, to : Node, n : Attempt] : c.from # c.to}
ASSUME NoneAssumption == None \notin Call /\ None # Responder
ASSUME ResponderAssumption == Responder \notin Call

VARIABLES
  stage,     \* [Call -> Stage]: where the coroutine connect is
  resp,      \* [Call -> BOOLEAN]: resp_event of the call's _PendingHandshake
  ack,       \* [Call -> BOOLEAN]: ack_event of it
  pending,   \* [Node -> [Node -> ...]]: _pending, by peer address
  sessions,  \* [Node -> [Node -> ...]]: key of _sessions[peer]
  net,       \* packets sent so far
  installed  \* history: [Node -> [Node -> SUBSET Call]], keys ever installed

vars == <<stage, resp, ack, pending, sessions, net, installed>>

\* "dead": the process was restarted while the call waited.
Stage == {"idle", "wait_resp", "wait_ack", "ok", "failed", "dead"}
Waiting == {"wait_resp", "wait_ack"}

PacketType == {"HANDSHAKE", "HANDSHAKE_RESP", "KEY_INIT", "KEY_ACK"}

Packet == [type : PacketType, from : Node, to : Node, key : Call \cup {None}]

\* KEY_INIT carries the ciphertext of key k; KEY_ACK is encrypted under k.
Pkt(t, n, p, k) == [type |-> t, from |-> n, to |-> p, key |-> k]

TypeOK ==
  /\ stage \in [Call -> Stage]
  /\ resp \in [Call -> BOOLEAN]
  /\ ack \in [Call -> BOOLEAN]
  /\ pending \in [Node -> [Node -> Call \cup {None, Responder}]]
  /\ sessions \in [Node -> [Node -> Call \cup {None}]]
  /\ net \subseteq Packet
  /\ installed \in [Node -> [Node -> SUBSET Call]]

Init ==
  /\ stage = [c \in Call |-> "idle"]
  /\ resp = [c \in Call |-> FALSE]
  /\ ack = [c \in Call |-> FALSE]
  /\ pending = [n \in Node |-> [p \in Node |-> None]]
  /\ sessions = [n \in Node |-> [p \in Node |-> None]]
  /\ net = {}
  /\ installed = [n \in Node |-> [p \in Node |-> {}]]

----------------------------------------------------------------------------
(* Mutated forms of definitions below; no run of the project uses them.    *)

MutAckMatches(c, k) == TRUE
MutAcknowledged(c) == resp[c]
MutPop(n, p) == pending
MutInstall(n, p, k) ==
  /\ sessions' = [sessions EXCEPT ![n][p] = pending[n][p]]
  /\ installed' = [installed EXCEPT ![n][p] = @ \cup {k}]
MutExpires(c, s) == stage[c] = s /\ pending[c.from][c.to] = c

----------------------------------------------------------------------------

\* self._pending.pop(addr, None): removes the entry whoever made it.
Pop(n, p) == [pending EXCEPT ![n][p] = None]

\* self._sessions[peer_id] = SessionInfo(..., session_key, ...)
Install(n, p, k) ==
  /\ sessions' = [sessions EXCEPT ![n][p] = k]
  /\ installed' = [installed EXCEPT ![n][p] = @ \cup {k}]

----------------------------------------------------------------------------
(* connect                                                                 *)

\* connect up to its first wait.  A waiting call's entry is overwritten.
Connect(c) ==
  /\ stage[c] = "idle"
  /\ stage' = [stage EXCEPT ![c] = "wait_resp"]
  /\ pending' = [pending EXCEPT ![c.from][c.to] = c]
  /\ net' = net \cup {Pkt("HANDSHAKE", c.from, c.to, None)}
  /\ UNCHANGED <<resp, ack, sessions, installed>>

\* resp_event was set: encapsulate a key and send KEY_INIT.
ResumeResp(c) ==
  /\ stage[c] = "wait_resp"
  /\ resp[c]
  /\ stage' = [stage EXCEPT ![c] = "wait_ack"]
  /\ net' = net \cup {Pkt("KEY_INIT", c.from, c.to, c)}
  /\ UNCHANGED <<resp, ack, pending, sessions, installed>>

\* What the second wait_for waits for: pending.ack_event.
Acknowledged(c) == ack[c]

ResumeAck(c) ==
  /\ stage[c] = "wait_ack"
  /\ Acknowledged(c)
  /\ stage' = [stage EXCEPT ![c] = "ok"]
  /\ pending' = Pop(c.from, c.to)
  /\ UNCHANGED <<resp, ack, sessions, net, installed>>

\* A wait_for may expire even when its event has just been set: the timer
\* then cancels the waiter before the event loop resumes it.
Expires(c, s) == stage[c] = s

TimeoutResp(c) ==
  /\ Expires(c, "wait_resp")
  /\ stage' = [stage EXCEPT ![c] = "failed"]
  /\ pending' = Pop(c.from, c.to)
  /\ UNCHANGED <<resp, ack, sessions, net, installed>>

TimeoutAck(c) ==
  /\ Expires(c, "wait_ack")
  /\ stage' = [stage EXCEPT ![c] = "failed"]
  /\ pending' = Pop(c.from, c.to)
  /\ UNCHANGED <<resp, ack, sessions, net, installed>>

----------------------------------------------------------------------------
(* The handlers.  Node n handles a packet m addressed to it, from p.       *)

\* Keeps whatever entry the address has, the node's own call included.
HandleHandshake(m) ==
  LET n == m.to  p == m.from IN
  /\ m.type = "HANDSHAKE"
  /\ pending' = [pending EXCEPT ![n][p] = IF @ = None THEN Responder ELSE @]
  /\ net' = net \cup {Pkt("HANDSHAKE_RESP", n, p, None)}
  /\ UNCHANGED <<stage, resp, ack, sessions, installed>>

\* The event belongs to the entry the address has now; a responder's entry
\* has nobody waiting on it.
HandleHandshakeResp(m) ==
  LET e == pending[m.to][m.from] IN
  /\ m.type = "HANDSHAKE_RESP"
  /\ e \in Call
  /\ resp' = [resp EXCEPT ![e] = TRUE]
  /\ UNCHANGED <<stage, ack, pending, sessions, net, installed>>

\* Any entry will do, the node's own call included, and it is removed.
HandleKeyInit(m) ==
  LET n == m.to  p == m.from IN
  /\ m.type = "KEY_INIT"
  /\ pending[n][p] # None
  /\ Install(n, p, m.key)
  /\ pending' = Pop(n, p)
  /\ net' = net \cup {Pkt("KEY_ACK", n, p, m.key)}
  /\ UNCHANGED <<stage, resp, ack>>

\* The payload decrypts under the entry's key.
AckMatches(c, k) == c = k

\* The entry stays until connect resumes and removes it.
HandleKeyAck(m) ==
  LET n == m.to  p == m.from  e == pending[n][p] IN
  /\ m.type = "KEY_ACK"
  /\ e \in Call
  /\ stage[e] = "wait_ack"     \* our_session_key is set
  /\ AckMatches(e, m.key)
  /\ Install(n, p, e)
  /\ ack' = [ack EXCEPT ![e] = TRUE]
  /\ UNCHANGED <<stage, resp, pending, net>>

----------------------------------------------------------------------------

\* The process of n ends and starts again: the identity is on disk, the
\* sessions, the pending handshakes and the coroutines are not.
Restart(n) ==
  /\ stage' = [c \in Call |-> IF c.from = n /\ stage[c] \in Waiting
                              THEN "dead" ELSE stage[c]]
  /\ pending' = [pending EXCEPT ![n] = [p \in Node |-> None]]
  /\ sessions' = [sessions EXCEPT ![n] = [p \in Node |-> None]]
  /\ UNCHANGED <<resp, ack, net, installed>>

Next ==
  \/ \E c \in Call : \/ Connect(c)
                     \/ ResumeResp(c)
                     \/ TimeoutResp(c)
                     \/ ResumeAck(c)
                     \/ TimeoutAck(c)
  \/ \E m \in net : \/ HandleHandshake(m)
                    \/ HandleHandshakeResp(m)
                    \/ HandleKeyInit(m)
                    \/ HandleKeyAck(m)
  \/ \E n \in Node : Restart(n)

Spec == Init /\ [][Next]_vars

\* wait_for has a timer (HANDSHAKE_TIMEOUT) and the event loop runs what is
\* due, so each of a call's two waits ends.  Nothing is assumed of the network.
Timed(c) == WF_vars(TimeoutResp(c)) /\ WF_vars(TimeoutAck(c))

FairSpec == Spec /\ \A c \in Call : Timed(c)

----------------------------------------------------------------------------
(* Properties                                                              *)

\* A key an initiator keeps a session under (_handle_key_ack) was installed
\* by the responder first: no half of a session is opened on the initiator's
\* word alone, whatever packets are lost, duplicated or left over from
\* earlier calls, and whichever node restarts.
KeyConfirmed ==
  \A n, p \in Node :
    LET k == sessions[n][p] IN
    (k # None /\ k.from = n) => k \in installed[p][n]

\* connect returns True only for a key that both ends installed.
TrueMeansBoth ==
  \A c \in Call : stage[c] = "ok" => /\ c \in installed[c.from][c.to]
                                     /\ c \in installed[c.to][c.from]

\* A coroutine that waits has its own entry in _pending, or the entry was
\* taken from it by a later step; conversely no entry of _pending belongs to
\* a call that has ended.  An entry that outlived its call would let a later
\* KEY_INIT open a session nobody asked for.
NoStaleEntry ==
  \A n, p \in Node :
    pending[n][p] \in Call =>
      LET c == pending[n][p] IN c.from = n /\ c.to = p /\ stage[c] \in Waiting

\* Every call of connect ends, although another call's steps may remove its
\* entry and its peer may never answer (HANDSHAKE_TIMEOUT).
ConnectReturns ==
  \A c \in Call : stage[c] \in Waiting ~> stage[c] \notin Waiting

----------------------------------------------------------------------------
(* What the two safety properties rest on, true of every reachable state.  *)

\* KEY_INIT goes from the caller to the callee of its key; KEY_ACK is sent
\* by a node that installed its key.
PacketsHonest ==
  \A m \in net :
    /\ m.type = "KEY_INIT" => /\ m.key \in Call
                              /\ m.key.from = m.from
                              /\ m.key.to = m.to
    /\ m.type = "KEY_ACK" => m.key \in installed[m.from][m.to]

\* A node installs a key of a call with that peer, and its own call's key
\* only after the peer.
ResponderFirst ==
  \A n, p \in Node : \A k \in installed[n][p] :
    \/ k.from = p /\ k.to = n
    \/ k.from = n /\ k.to = p /\ k \in installed[p][n]

SessionsInstalled ==
  \A n, p \in Node : sessions[n][p] # None => sessions[n][p] \in installed[n][p]

AckInstalled ==
  \A c \in Call : /\ ack[c] => c \in installed[c.from][c.to]
                  /\ stage[c] = "ok" => ack[c]

HandshakeInv == /\ TypeOK
                /\ PacketsHonest
                /\ ResponderFirst
                /\ SessionsInstalled
                /\ AckInstalled
                /\ NoStaleEntry

----------------------------------------------------------------------------

\* No call between the two nodes is under way.
Quiet(n, p) == \A c \in Call : {c.from, c.to} = {n, p} => stage[c] \notin Waiting

\* What tests/test_transport.py asserts after a connect that returned True:
\* the two ends hold the same session key.
KeysMatch ==
  \A c \in Call :
    LET n == c.from  p == c.to IN
    (/\ stage[c] = "ok"
     /\ Quiet(n, p)
     /\ sessions[n][p] # None
     /\ sessions[p][n] # None) => sessions[n][p] = sessions[p][n]
=============================================================================
