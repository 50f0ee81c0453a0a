------------------------------- MODULE Router -------------------------------
(***************************************************************************)
(* The BATMAN-style router of mesh/router.py: MeshRouter on every node.    *)
(*                                                                         *)
(* A node in Origin broadcasts numbered ORIGINATOR packets to the peers it *)
(* has a session with; a node that receives one with a number it has not   *)
(* seen learns a route through the sender and passes it on with hop_count  *)
(* increased.  Rounds of different originators use disjoint state, so a    *)
(* small Origin loses nothing.                                             *)
(*                                                                         *)
(* Packets reach the handler through MeshTransport._dispatch, which drops  *)
(* one whose MAC fails under the session its address has; the router sends *)
(* every ORIGINATOR with ZERO_MAC.  The network keeps all packets sent:    *)
(* each may be delivered late, in any order, repeatedly, or never.         *)
(***************************************************************************)
EXTENDS Integers

CONSTANTS Node,
          Origin,      \* nodes whose originator loop is modelled
          Mortal,      \* nodes whose process may restart
          None,        \* no entry in a dictionary
          MaxHops,     \* MAX_HOPS, carried in the packet
          MaxSeq,      \* largest seq_num the packet format holds
          StaleAfter,  \* STALE_ROUTE_SECONDS
          MaxTime,     \* bound on the clock
          InitSess,    \* <<n, p>>: n holds a session with p from the start
          Links,       \* <<n, p>>: n may open one later
          Bundles      \* <<n, o>>: register_bundle may give n the bundle of o

ASSUME SizesAssumption ==
  /\ MaxHops \in Nat /\ MaxSeq \in Nat /\ StaleAfter \in Nat /\ MaxTime \in Nat
ASSUME PairsAssumption ==
  /\ Origin \subseteq Node
  /\ Mortal \subseteq Node
  /\ InitSess \subseteq Node \X Node
  /\ Links \subseteq Node \X Node
  /\ Bundles \subseteq Node \X Node

VARIABLES
  seqNum,  \* [Node -> Nat]: _seq_num
  seen,    \* [Node -> [Node -> Int]]: _seen_seq, -1 for no entry
  routes,  \* [Node -> [Node -> Route or None]]: _routes
  known,   \* set of <<n, o>>: o in _known_bundles of n
  sess,    \* set of <<n, p>>: n's transport has a session with p
  net,     \* ORIGINATOR packets sent so far
  now,     \* time.time(); the nodes' clocks agree
  restarted  \* history: the nodes that have restarted

vars == <<seqNum, seen, routes, known, sess, net, now, restarted>>

\* RouteEntry: next hop, hop_count, seq_num, last_seen (the packet's time).
Route == [via : Node, hop : 1 .. MaxHops + 1, seq : 1 .. MaxSeq, ts : 0 .. MaxTime]

\* signer: whose key made the signature the packet carries.
Packet == [orig : Node, seq : 1 .. MaxSeq, hop : 0 .. MaxHops, ts : 0 .. MaxTime,
           signer : Node, from : Node, to : Node]

\* [o |-> ...] is not in Route: an entry is None or a Route.
ASSUME NoneAssumption == None \notin Route

TypeOK ==
  /\ seqNum \in [Node -> 0 .. MaxSeq]
  /\ seen \in [Node -> [Node -> -1 .. MaxSeq]]
  /\ routes \in [Node -> [Node -> Route \cup {None}]]
  /\ known \subseteq Node \X Node
  /\ sess \subseteq Node \X Node
  /\ net \subseteq Packet
  /\ now \in 0 .. MaxTime
  /\ restarted \subseteq Mortal

Init ==
  /\ seqNum = [n \in Node |-> 0]
  /\ seen = [n \in Node |-> [o \in Node |-> -1]]
  /\ routes = [n \in Node |-> [o \in Node |-> None]]
  /\ known = {}
  /\ sess = InitSess
  /\ net = {}
  /\ now = 0
  /\ restarted = {}

----------------------------------------------------------------------------
(* Mutated forms of definitions below; no run of the project uses them.    *)

MutIsNew(n, m) == m.seq >= seen[n][m.orig]
MutMayForward(m) == m.hop <= MaxHops
MutCopies(n, o, s, h, t, g, skip) ==
  {[orig |-> o, seq |-> s, hop |-> IF h = 0 THEN 0 ELSE h - 1, ts |-> t,
    signer |-> g, from |-> n, to |-> p] :
     p \in {q \in Node : <<n, q>> \in sess /\ q # skip}}
MutPurgeable(e) == e # None /\ e.ts <= now - StaleAfter

----------------------------------------------------------------------------
(* Reading the table                                                       *)

\* route_to: the entry, unless it is too old.
route_to(n, o) ==
  LET e == routes[n][o] IN
  IF e # None /\ now - e.ts <= StaleAfter THEN e ELSE None

\* update_route's rule: does the entry r replace the existing one?
Replaces(r, e) ==
  e = None \/ r.seq > e.seq \/ (r.seq = e.seq /\ r.hop < e.hop)

update_route(n, o, r) ==
  routes' = IF Replaces(r, routes[n][o])
            THEN [routes EXCEPT ![n][o] = r] ELSE routes

\* The copies of an originator packet that n sends: one to each peer it has
\* a session with, except skip.
Copies(n, o, s, h, t, g, skip) ==
  {[orig |-> o, seq |-> s, hop |-> h, ts |-> t,
    signer |-> g, from |-> n, to |-> p] :
     p \in {q \in Node : <<n, q>> \in sess /\ q # skip}}

----------------------------------------------------------------------------
(* Operations                                                              *)

\* _broadcast_originator, run by _originator_loop.
Broadcast(n) ==
  LET s == seqNum[n] + 1 IN
  /\ s <= MaxSeq
  /\ seqNum' = [seqNum EXCEPT ![n] = s]
  /\ net' = net \cup Copies(n, n, s, 0, now, n, n)
  /\ UNCHANGED <<seen, routes, known, sess, now, restarted>>

\* _dispatch: under a session, ZERO_MAC fails verify_mac and the packet is
\* dropped; without one it reaches the handler unverified.
PassesDispatch(m) == <<m.to, m.from>> \notin sess

IsOwn(n, m) == m.orig = n

\* The Ed25519 check, made only if the originator's bundle is registered.
SignatureOK(n, m) == <<n, m.orig>> \in known => m.signer = m.orig

\* Loop and duplicate prevention by _seen_seq.
IsNew(n, m) == m.seq > seen[n][m.orig]

MayForward(m) == m.hop < MaxHops

\* _repack_originator keeps the signature; without the bundle the packet is
\* packed anew and signed with the forwarder's own key.
ForwardSigner(n, m) == IF <<n, m.orig>> \in known THEN m.signer ELSE n

_handle_originator(m) ==
  LET n == m.to  o == m.orig IN
  /\ PassesDispatch(m)
  /\ ~IsOwn(n, m)
  /\ SignatureOK(n, m)
  /\ IsNew(n, m)
  /\ seen' = [seen EXCEPT ![n][o] = m.seq]
  /\ update_route(n, o, [via |-> m.from, hop |-> m.hop + 1, seq |-> m.seq, ts |-> m.ts])
  /\ net' = IF MayForward(m)
            THEN net \cup Copies(n, o, m.seq, m.hop + 1, m.ts, ForwardSigner(n, m), m.from)
            ELSE net
  /\ UNCHANGED <<seqNum, known, sess, now, restarted>>

Purgeable(e) == e # None /\ e.ts < now - StaleAfter

purge_stale(n) ==
  /\ \E o \in Node : Purgeable(routes[n][o])
  /\ routes' = [routes EXCEPT ![n] =
                  [o \in Node |-> IF Purgeable(routes[n][o]) THEN None ELSE routes[n][o]]]
  /\ UNCHANGED <<seqNum, seen, known, sess, net, now, restarted>>

register_bundle(n, o) ==
  /\ known' = known \cup {<<n, o>>}
  /\ UNCHANGED <<seqNum, seen, routes, sess, net, now, restarted>>

\* The transport opens a session (see Handshake: the two ends do so apart).
Establish(n, p) ==
  /\ sess' = sess \cup {<<n, p>>}
  /\ UNCHANGED <<seqNum, seen, routes, known, net, now, restarted>>

Tick ==
  /\ now < MaxTime
  /\ now' = now + 1
  /\ UNCHANGED <<seqNum, seen, routes, known, sess, net, restarted>>

\* MeshRouter.__init__ after a restart of the process: nothing is on disk.
Restart(n) ==
  /\ seqNum' = [seqNum EXCEPT ![n] = 0]
  /\ seen' = [seen EXCEPT ![n] = [o \in Node |-> -1]]
  /\ routes' = [routes EXCEPT ![n] = [o \in Node |-> None]]
  /\ known' = {k \in known : k[1] # n}
  /\ sess' = {k \in sess : k[1] # n}
  /\ restarted' = restarted \cup {n}
  /\ UNCHANGED <<net, now>>

Next ==
  \/ \E n \in Origin : Broadcast(n)
  \/ \E m \in net : _handle_originator(m)
  \/ \E n \in Node : purge_stale(n)
  \/ \E b \in Bundles : register_bundle(b[1], b[2])
  \/ \E l \in Links : Establish(l[1], l[2])
  \/ Tick
  \/ \E n \in Mortal : Restart(n)

Spec == Init /\ [][Next]_vars

\* The originator loop runs for ever and every packet is delivered: more than
\* UDP promises, so that what still never happens is the program's doing.
FairSpec == /\ Spec
            /\ \A n \in Origin : WF_vars(Broadcast(n))
            /\ WF_vars(\E m \in net : _handle_originator(m))

----------------------------------------------------------------------------
(* Properties                                                              *)

\* Following next hops never runs in a circle of nodes that kept their
\* _seen_seq: a routing loop always passes through a node that restarted.
\* In every other non-empty set some member has no route or leaves the set.
LoopFree ==
  \A o \in Node : \A S \in SUBSET (Node \ restarted) :
    S # {} => \E n \in S : routes[n][o] = None \/ routes[n][o].via \notin S

\* Why: the next hop is the originator itself, or restarted, or has heard a
\* newer round, or got this round over fewer hops (or purged the entry).
NextHopCloser ==
  \A n, o \in Node :
    LET r == routes[n][o]  e == routes[r.via][o] IN
    r # None =>
      /\ n # o
      /\ r.seq = seen[n][o]
      /\ r.via \notin restarted \cup {o} =>
            /\ seen[r.via][o] >= r.seq
            /\ (e # None /\ e.seq = r.seq) => e.hop < r.hop

\* A node that did not restart sends a given round on at most once: all the
\* copies it sent carry the same hop count, signature and time.
OneForwardPerRound ==
  \A m1, m2 \in net :
    (m1.from = m2.from /\ m1.orig = m2.orig /\ m1.seq = m2.seq
       /\ m1.from \notin restarted) =>
      (m1.hop = m2.hop /\ m1.signer = m2.signer /\ m1.ts = m2.ts)

\* RouteEntry.hop_count is 1 exactly for a neighbour, restarts or not.
OneHopIsNeighbour ==
  \A n, o \in Node : routes[n][o] # None => (routes[n][o].hop = 1 <=> routes[n][o].via = o)

\* purge_stale only removes what route_to no longer returns: no answer of
\* route_to changes when it runs.
PurgeKeepsAnswers ==
  [][(\E n \in Node : purge_stale(n)) =>
       \A n, o \in Node : route_to(n, o)' = route_to(n, o)]_vars

\* What a packet says of its sender: hop 0 means the originator.  Unless it
\* restarted, the originator sent rounds up to its counter; a forwarder has
\* seen the round, and an entry it holds for it has the packet's hop count.
PacketsSeen ==
  \A m \in net :
    LET e == routes[m.from][m.orig] IN
    /\ m.hop = 0 <=> m.from = m.orig
    /\ (m.from = m.orig /\ m.from \notin restarted) => m.seq <= seqNum[m.orig]
    /\ (m.from # m.orig /\ m.from \notin restarted) =>
          /\ seen[m.from][m.orig] >= m.seq
          /\ (e # None /\ e.seq = m.seq) => e.hop = m.hop

RouterInv == TypeOK /\ NextHopCloser /\ PacketsSeen /\ OneForwardPerRound
             /\ OneHopIsNeighbour

----------------------------------------------------------------------------
(* A claim of the repository that the code does not keep                   *)

\* router.py: every ORIGINATOR goes to all connected peers, and whoever
\* receives one updates its route table.  So two nodes that hold sessions
\* with each other learn a route, if packets are delivered.
NeighboursLearned ==
  \A n \in Node, o \in Origin :
    (n # o /\ <<n, o>> \in InitSess /\ <<o, n>> \in InitSess) => <>(routes[n][o] # None)
=============================================================================
