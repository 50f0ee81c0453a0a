---------------------------- MODULE RouterProofs ----------------------------
(* Proofs about Router, for any nodes, sessions and bounds.                  *)
EXTENDS Router, WellFoundedInduction, TLAPS

\* A non-empty set of natural numbers has a least member.
LEMMA LeastNat ==
  ASSUME NEW T, T \subseteq Nat, T # {}
  PROVE  \E x \in T : \A y \in T : x <= y
  <1> DEFINE R == OpToRel(<, Nat)
  <1>1. IsWellFoundedOn(R, Nat)
    BY NatLessThanWellFounded
  <1> HIDE DEF R
  <1>2. PICK x \in T : \A y \in T : ~ (<<y, x>> \in R)
    BY <1>1, WFMin
  <1>3. \A y \in T : ~(y < x)
    BY <1>2 DEF R, OpToRel
  <1> QED BY <1>3

\* Hop counts and rounds explain it: among the nodes of a set that all route
\* into the set, take those with the newest round, and of them the one with
\* the fewest hops; its next hop would have a newer round or fewer hops.
LEMMA CloserIsLoopFree == TypeOK /\ NextHopCloser => LoopFree
  <1> SUFFICES ASSUME TypeOK, NextHopCloser,
                      NEW o \in Node, NEW S \in SUBSET (Node \ restarted), S # {},
                      \A n \in S : routes[n][o] # None /\ routes[n][o].via \in S
               PROVE  FALSE
    BY DEF LoopFree
  <1> DEFINE rt(n) == routes[n][o]
  <1>1. \A n \in S : rt(n) \in Route
    BY DEF TypeOK
  <1>2. \A n \in S : /\ rt(n).seq \in 1 .. MaxSeq
                     /\ rt(n).hop \in 1 .. MaxHops + 1
                     /\ rt(n).via \in Node
    BY <1>1 DEF Route
  <1>3. \A n \in S : n # o /\ rt(n).seq = seen[n][o]
    BY DEF NextHopCloser
  <1>4. \A n \in S : /\ rt(rt(n).via).seq >= rt(n).seq
                     /\ rt(rt(n).via).seq = rt(n).seq => rt(rt(n).via).hop < rt(n).hop
    <2> TAKE n \in S
    <2>1. rt(n).via \in S /\ rt(n).via \notin restarted \cup {o}
      BY <1>3
    <2> QED BY <1>3, <2>1 DEF NextHopCloser
  <1> DEFINE Lag == {MaxSeq - rt(n).seq : n \in S}
  <1>5. Lag \subseteq Nat /\ Lag # {}
    BY <1>2, SizesAssumption
  <1>6. PICK x \in Lag : \A y \in Lag : x <= y
    BY <1>5, LeastNat
  <1>7. PICK a \in S : \A n \in S : rt(n).seq <= rt(a).seq
    <2>1. PICK a \in S : x = MaxSeq - rt(a).seq
      BY <1>6
    <2>2. \A n \in S : MaxSeq - rt(a).seq <= MaxSeq - rt(n).seq
      BY <1>6, <2>1
    <2> QED BY <1>2, <2>2, SizesAssumption
  <1> DEFINE Newest == {n \in S : rt(n).seq = rt(a).seq}
             Hops == {rt(n).hop : n \in Newest}
  <1>8. Hops \subseteq Nat /\ Hops # {}
    BY <1>2, <1>7, SizesAssumption
  <1>9. PICK h \in Hops : \A y \in Hops : h <= y
    BY <1>8, LeastNat
  <1>10. PICK b \in Newest : h = rt(b).hop
    BY <1>9
  <1>11. rt(b).via \in S
    BY <1>10
  <1>12. rt(rt(b).via).seq = rt(a).seq
    <2>1. b \in S /\ rt(b).seq = rt(a).seq
      BY <1>10
    <2>2. rt(rt(b).via).seq >= rt(a).seq
      BY <1>4, <2>1
    <2>3. rt(rt(b).via).seq <= rt(a).seq
      BY <1>7, <1>11
    <2>4. rt(rt(b).via).seq \in Int /\ rt(a).seq \in Int
      BY <1>2, <1>7, <1>11, SizesAssumption
    <2> QED BY <2>2, <2>3, <2>4
  <1>13. rt(b).via \in Newest /\ rt(rt(b).via).hop < rt(b).hop
    BY <1>4, <1>10, <1>11, <1>12
  <1>14. rt(b).hop <= rt(rt(b).via).hop
    BY <1>9, <1>10, <1>13
  <1> QED BY <1>2, <1>10, <1>11, <1>13, <1>14, SizesAssumption

----------------------------------------------------------------------------

LEMMA InitInv == Init => RouterInv
  <1> SUFFICES ASSUME Init PROVE RouterInv
    OBVIOUS
  <1>1. TypeOK
    BY SizesAssumption, PairsAssumption DEF Init, TypeOK
  <1>2. NextHopCloser /\ OneHopIsNeighbour
    BY DEF Init, NextHopCloser, OneHopIsNeighbour
  <1>3. PacketsSeen /\ OneForwardPerRound
    BY DEF Init, PacketsSeen, OneForwardPerRound
  <1> QED BY <1>1, <1>2, <1>3 DEF RouterInv

\* The packets Copies makes, field by field.
LEMMA CopiesFields ==
  ASSUME NEW n \in Node, NEW x \in Node, NEW sq \in 1 .. MaxSeq,
         NEW h \in 0 .. MaxHops, NEW tm \in 0 .. MaxTime, NEW g \in Node,
         NEW skip, NEW m \in Copies(n, x, sq, h, tm, g, skip)
  PROVE  /\ m \in Packet
         /\ m.from = n /\ m.orig = x /\ m.seq = sq /\ m.hop = h
         /\ m.signer = g /\ m.ts = tm
  <1>1. PICK p \in Node :
          m = [orig |-> x, seq |-> sq, hop |-> h, ts |-> tm,
               signer |-> g, from |-> n, to |-> p]
    BY DEF Copies
  <1> QED BY <1>1 DEF Packet

LEMMA BroadcastStep ==
  ASSUME RouterInv, NEW n \in Node, Broadcast(n)
  PROVE  RouterInv'
  <1> USE DEF RouterInv
  <1> DEFINE sq == seqNum[n] + 1
             C == Copies(n, n, sq, 0, now, n, n)
  <1>0. sq \in 1 .. MaxSeq /\ now \in 0 .. MaxTime /\ 0 \in 0 .. MaxHops
    BY SizesAssumption DEF Broadcast, TypeOK
  <1>1. \A m \in C : /\ m \in Packet
                    /\ m.from = n /\ m.orig = n /\ m.seq = sq /\ m.hop = 0
                    /\ m.signer = n /\ m.ts = now
    BY <1>0, CopiesFields
  <1>2. /\ net' = net \cup C
        /\ seqNum' = [seqNum EXCEPT ![n] = sq]
        /\ UNCHANGED <<seen, routes, known, sess, now, restarted>>
    BY DEF Broadcast
  <1> HIDE DEF C, sq
  <1>3. TypeOK'
    <2>1. seqNum' \in [Node -> 0 .. MaxSeq]
      BY <1>0, <1>2, SizesAssumption DEF TypeOK
    <2>2. net' \subseteq Packet
      BY <1>1, <1>2 DEF TypeOK
    <2> QED BY <1>2, <2>1, <2>2 DEF TypeOK
  <1>4. NextHopCloser' /\ OneHopIsNeighbour'
    BY <1>2 DEF NextHopCloser, OneHopIsNeighbour
  <1>5. \A x \in Node : seqNum[x] <= seqNum'[x] /\ seqNum'[n] = sq
    BY <1>0, <1>2, SizesAssumption DEF TypeOK, sq
  <1>6. PacketsSeen'
    <2> SUFFICES ASSUME NEW m \in net'
                 PROVE LET e == routes[m.from][m.orig] IN
                       /\ m.hop = 0 <=> m.from = m.orig
                       /\ (m.from = m.orig /\ m.from \notin restarted)
                             => m.seq <= seqNum'[m.orig]
                       /\ (m.from # m.orig /\ m.from \notin restarted) =>
                             /\ seen[m.from][m.orig] >= m.seq
                             /\ (e # None /\ e.seq = m.seq) => e.hop = m.hop
      BY <1>2 DEF PacketsSeen
    <2>1. CASE m \in C
      BY <2>1, <1>0, <1>1, <1>5
    <2>2. CASE m \in net
      <3>1. m.orig \in Node /\ m.seq \in Int /\ seqNum[m.orig] \in Int
            /\ seqNum'[m.orig] \in Int
        BY <2>2, <1>3, SizesAssumption DEF TypeOK, Packet
      <3> QED BY <2>2, <3>1, <1>5 DEF PacketsSeen
    <2> QED BY <1>2, <2>1, <2>2
  <1>7. OneForwardPerRound'
    <2>1. \A m \in net : (m.from = n /\ m.orig = n /\ n \notin restarted) => m.seq # sq
      BY <1>0 DEF PacketsSeen, TypeOK, sq, Packet
    <2> QED BY <1>1, <1>2, <2>1 DEF OneForwardPerRound
  <1> QED BY <1>3, <1>4, <1>6, <1>7

\* The update always takes effect: the entry is that of the last round seen,
\* and the packet's round is newer.
LEMMA HandleStep ==
  ASSUME RouterInv, NEW m \in net, _handle_originator(m)
  PROVE  RouterInv'
  <1> USE DEF RouterInv
  <1> DEFINE n == m.to
             x == m.orig
             v == m.from
             r == [via |-> v, hop |-> m.hop + 1, seq |-> m.seq, ts |-> m.ts]
             C == Copies(n, x, m.seq, m.hop + 1, m.ts, ForwardSigner(n, m), v)
  <1>0. /\ m \in Packet /\ n \in Node /\ x \in Node /\ v \in Node
        /\ m.seq \in 1 .. MaxSeq /\ m.hop \in 0 .. MaxHops /\ m.ts \in 0 .. MaxTime
        /\ ForwardSigner(n, m) \in Node
    BY DEF TypeOK, Packet, ForwardSigner
  <1>1. n # x /\ m.seq > seen[n][x] /\ seen[n][x] \in Int
    BY <1>0, SizesAssumption DEF _handle_originator, IsOwn, IsNew, TypeOK
  <1>2. r \in Route
    BY <1>0, SizesAssumption DEF Route
  <1>3. Replaces(r, routes[n][x])
    BY <1>0, <1>1 DEF Replaces, NextHopCloser
  <1>4. /\ seen' = [seen EXCEPT ![n][x] = m.seq]
        /\ routes' = [routes EXCEPT ![n][x] = r]
        /\ UNCHANGED <<seqNum, known, sess, now, restarted>>
    BY <1>3 DEF _handle_originator, update_route
  <1>5. \A c \in net' \ net :
          /\ c \in Packet
          /\ c.from = n /\ c.orig = x /\ c.seq = m.seq /\ c.hop = m.hop + 1
          /\ c.signer = ForwardSigner(n, m) /\ c.ts = m.ts
    <2>1. CASE MayForward(m)
      <3>1. net' = net \cup C /\ m.hop + 1 \in 0 .. MaxHops
        BY <1>0, <2>1, SizesAssumption DEF _handle_originator, MayForward
      <3> QED BY <1>0, <3>1, CopiesFields
    <2>2. CASE ~MayForward(m)
      BY <2>2 DEF _handle_originator
    <2> QED BY <2>1, <2>2
  <1>6. net \subseteq net'
    BY DEF _handle_originator
  <1> HIDE DEF C, r
  <1>7. /\ r.via = v /\ r.hop = m.hop + 1 /\ r.seq = m.seq /\ r # None
    BY <1>2, NoneAssumption DEF r
  <1>8. TypeOK'
    BY <1>0, <1>2, <1>4, <1>5, SizesAssumption DEF TypeOK
  <1>9. \A i, j \in Node :
          /\ (i = n /\ j = x) => routes'[i][j] = r /\ seen'[i][j] = m.seq
          /\ ~(i = n /\ j = x) => routes'[i][j] = routes[i][j] /\ seen'[i][j] = seen[i][j]
    BY <1>0, <1>4 DEF TypeOK
  <1>10. \A i, j \in Node : seen'[i][j] \in Int /\ seen[i][j] \in Int
    BY <1>8, SizesAssumption DEF TypeOK
  <1>11. v \notin restarted \cup {x} =>
           /\ v # n
           /\ seen[v][x] >= m.seq
           /\ (routes[v][x] # None /\ routes[v][x].seq = m.seq)
                 => routes[v][x].hop = m.hop
    BY <1>0, <1>1 DEF PacketsSeen
  <1>12. m.hop = 0 <=> v = x
    BY DEF PacketsSeen
  <1>13. NextHopCloser'
    <2> SUFFICES ASSUME NEW i \in Node, NEW j \in Node, routes'[i][j] # None
                 PROVE  LET q == routes'[i][j]  e == routes'[q.via][j] IN
                        /\ i # j
                        /\ q.seq = seen'[i][j]
                        /\ q.via \notin restarted \cup {j} =>
                              /\ seen'[q.via][j] >= q.seq
                              /\ (e # None /\ e.seq = q.seq) => e.hop < q.hop
      BY <1>4 DEF NextHopCloser
    <2>1. CASE i = n /\ j = x
      <3>1. routes'[i][j] = r
        BY <2>1, <1>9
      <3>2. v \notin restarted \cup {x} => routes'[v][x] = routes[v][x] /\ seen'[v][x] = seen[v][x]
        BY <1>0, <1>9, <1>11
      <3> QED BY <2>1, <1>0, <1>1, <1>7, <1>9, <1>11, <3>1, <3>2
    <2>2. CASE ~(i = n /\ j = x)
      <3> DEFINE q == routes[i][j]
      <3>1. routes'[i][j] = q /\ seen'[i][j] = seen[i][j] /\ q \in Route
        BY <2>2, <1>9, NoneAssumption DEF TypeOK
      <3>2. q.via \in Node /\ q.seq \in Int
        BY <3>1, SizesAssumption DEF Route
      <3>3. CASE q.via = n /\ j = x
        <4>1. routes'[q.via][j] = r /\ seen'[q.via][j] = m.seq
          BY <3>2, <3>3, <1>9
        <4>2. /\ i # j /\ q.seq = seen[i][j]
              /\ n \notin restarted => q.seq <= seen[n][x]
          BY <3>1, <3>3, <1>1 DEF NextHopCloser
        <4>3. n \notin restarted => m.seq > q.seq
          BY <4>2, <3>2, <1>0, <1>1
        <4> QED BY <4>1, <4>2, <4>3, <3>1, <3>2, <3>3, <1>0, <1>7
      <3>4. CASE ~(q.via = n /\ j = x)
        BY <3>1, <3>2, <3>4, <1>9 DEF NextHopCloser
      <3> QED BY <3>3, <3>4
    <2> QED BY <2>1, <2>2
  <1>14. PacketsSeen'
    <2> SUFFICES ASSUME NEW c \in net'
                 PROVE LET e == routes'[c.from][c.orig] IN
                       /\ c.hop = 0 <=> c.from = c.orig
                       /\ (c.from = c.orig /\ c.from \notin restarted)
                             => c.seq <= seqNum'[c.orig]
                       /\ (c.from # c.orig /\ c.from \notin restarted) =>
                             /\ seen'[c.from][c.orig] >= c.seq
                             /\ (e # None /\ e.seq = c.seq) => e.hop = c.hop
      BY <1>4 DEF PacketsSeen
    <2>1. CASE c \notin net
      BY <2>1, <1>0, <1>1, <1>5, <1>7, <1>9
    <2>2. CASE c \in net
      <3>1. c.from \in Node /\ c.orig \in Node /\ c.seq \in Int
        BY <2>2, SizesAssumption DEF TypeOK, Packet
      <3>2. CASE c.from = n /\ c.orig = x
        <4>1. (n \notin restarted => seen[n][x] >= c.seq) /\ c.hop # 0
          BY <2>2, <3>2, <1>1 DEF PacketsSeen
        <4>2. n \notin restarted => m.seq > c.seq
          BY <4>1, <3>1, <1>0, <1>1
        <4> QED BY <4>1, <4>2, <3>1, <3>2, <1>0, <1>1, <1>7, <1>9
      <3>3. CASE ~(c.from = n /\ c.orig = x)
        BY <2>2, <3>1, <3>3, <1>4, <1>9 DEF PacketsSeen
      <3> QED BY <3>2, <3>3
    <2> QED BY <2>1, <2>2
  <1>15. OneForwardPerRound'
    <2>1. \A c \in net : (c.from = n /\ c.orig = x /\ n \notin restarted) => c.seq # m.seq
      <3> SUFFICES ASSUME NEW c \in net, c.from = n, c.orig = x, n \notin restarted
                   PROVE  c.seq # m.seq
        OBVIOUS
      <3>1. c.seq \in Int /\ seen[n][x] >= c.seq
        BY <1>1, SizesAssumption DEF PacketsSeen, TypeOK, Packet
      <3> QED BY <3>1, <1>0, <1>1
    <2> QED BY <1>4, <1>5, <2>1 DEF OneForwardPerRound
  <1>16. OneHopIsNeighbour'
    <2> SUFFICES ASSUME NEW i \in Node, NEW j \in Node, routes'[i][j] # None
                 PROVE  routes'[i][j].hop = 1 <=> routes'[i][j].via = j
      BY DEF OneHopIsNeighbour
    <2>1. CASE i = n /\ j = x
      BY <2>1, <1>0, <1>7, <1>9, <1>12
    <2>2. CASE ~(i = n /\ j = x)
      BY <2>2, <1>9 DEF OneHopIsNeighbour
    <2> QED BY <2>1, <2>2
  <1> QED BY <1>8, <1>13, <1>14, <1>15, <1>16

LEMMA PurgeStep ==
  ASSUME RouterInv, NEW n \in Node, purge_stale(n)
  PROVE  RouterInv'
  <1> USE DEF RouterInv
  <1>1. UNCHANGED <<seqNum, seen, known, sess, net, now, restarted>>
    BY DEF purge_stale
  <1>2. \A i, j \in Node : routes'[i][j] = None \/ routes'[i][j] = routes[i][j]
    BY DEF purge_stale, TypeOK
  <1>3. TypeOK'
    BY DEF purge_stale, TypeOK
  <1>4. NextHopCloser'
    <2> SUFFICES ASSUME NEW i \in Node, NEW j \in Node, routes'[i][j] # None
                 PROVE  LET q == routes'[i][j]  e == routes'[q.via][j] IN
                        /\ i # j
                        /\ q.seq = seen[i][j]
                        /\ q.via \notin restarted \cup {j} =>
                              /\ seen[q.via][j] >= q.seq
                              /\ (e # None /\ e.seq = q.seq) => e.hop < q.hop
      BY <1>1 DEF NextHopCloser
    <2>1. routes'[i][j] = routes[i][j] /\ routes[i][j].via \in Node
      BY <1>2 DEF TypeOK, Route
    <2> QED BY <1>2, <2>1 DEF NextHopCloser
  <1>5. PacketsSeen'
    <2> SUFFICES ASSUME NEW c \in net
                 PROVE LET e == routes'[c.from][c.orig] IN
                       /\ c.hop = 0 <=> c.from = c.orig
                       /\ (c.from = c.orig /\ c.from \notin restarted)
                             => c.seq <= seqNum[c.orig]
                       /\ (c.from # c.orig /\ c.from \notin restarted) =>
                             /\ seen[c.from][c.orig] >= c.seq
                             /\ (e # None /\ e.seq = c.seq) => e.hop = c.hop
      BY <1>1 DEF PacketsSeen
    <2>1. c.from \in Node /\ c.orig \in Node
      BY DEF TypeOK, Packet
    <2> QED BY <1>2, <2>1 DEF PacketsSeen
  <1>6. OneForwardPerRound' /\ OneHopIsNeighbour'
    BY <1>1, <1>2 DEF OneForwardPerRound, OneHopIsNeighbour
  <1> QED BY <1>3, <1>4, <1>5, <1>6

\* Restarting forgets what the invariant says of the node and voids what it
\* says of its packets.
LEMMA RestartStep ==
  ASSUME RouterInv, NEW n \in Mortal, Restart(n)
  PROVE  RouterInv'
  <1> USE DEF RouterInv
  <1>0. n \in Node
    BY PairsAssumption
  <1>1. net' = net /\ restarted' = restarted \cup {n}
    BY DEF Restart
  <1>2. \A i, j \in Node :
          /\ i = n => routes'[i][j] = None
          /\ i # n => routes'[i][j] = routes[i][j] /\ seen'[i][j] = seen[i][j]
                      /\ seqNum'[i] = seqNum[i]
    BY <1>0 DEF Restart, TypeOK
  <1>3. TypeOK'
    <2>1. seqNum' \in [Node -> 0 .. MaxSeq] /\ seen' \in [Node -> [Node -> -1 .. MaxSeq]]
      BY <1>0, SizesAssumption DEF Restart, TypeOK
    <2>2. routes' \in [Node -> [Node -> Route \cup {None}]]
      BY <1>0 DEF Restart, TypeOK
    <2> QED BY <2>1, <2>2 DEF Restart, TypeOK
  <1>4. NextHopCloser'
    <2> SUFFICES ASSUME NEW i \in Node, NEW j \in Node, routes'[i][j] # None
                 PROVE  LET q == routes'[i][j]  e == routes'[q.via][j] IN
                        /\ i # j
                        /\ q.seq = seen'[i][j]
                        /\ q.via \notin restarted' \cup {j} =>
                              /\ seen'[q.via][j] >= q.seq
                              /\ (e # None /\ e.seq = q.seq) => e.hop < q.hop
      BY DEF NextHopCloser
    <2>1. /\ i # n /\ routes'[i][j] = routes[i][j] /\ seen'[i][j] = seen[i][j]
          /\ routes[i][j].via \in Node
      BY <1>2 DEF TypeOK, Route
    <2> QED BY <1>1, <1>2, <2>1 DEF NextHopCloser
  <1>5. PacketsSeen'
    <2> SUFFICES ASSUME NEW c \in net
                 PROVE LET e == routes'[c.from][c.orig] IN
                       /\ c.hop = 0 <=> c.from = c.orig
                       /\ (c.from = c.orig /\ c.from \notin restarted')
                             => c.seq <= seqNum'[c.orig]
                       /\ (c.from # c.orig /\ c.from \notin restarted') =>
                             /\ seen'[c.from][c.orig] >= c.seq
                             /\ (e # None /\ e.seq = c.seq) => e.hop = c.hop
      BY <1>1 DEF PacketsSeen
    <2>1. c.from \in Node /\ c.orig \in Node
      BY DEF TypeOK, Packet
    <2> QED BY <1>1, <1>2, <2>1 DEF PacketsSeen
  <1>6. OneForwardPerRound' /\ OneHopIsNeighbour'
    BY <1>1, <1>2 DEF OneForwardPerRound, OneHopIsNeighbour
  <1> QED BY <1>3, <1>4, <1>5, <1>6

LEMMA OtherSteps ==
  ASSUME RouterInv,
         \/ \E b \in Bundles : register_bundle(b[1], b[2])
         \/ \E l \in Links : Establish(l[1], l[2])
         \/ Tick
         \/ UNCHANGED vars
  PROVE  RouterInv'
  <1> USE DEF RouterInv
  <1>1. UNCHANGED <<seqNum, seen, routes, net, restarted>>
    BY DEF register_bundle, Establish, Tick, vars
  <1>2. TypeOK'
    BY PairsAssumption, SizesAssumption
    DEF TypeOK, register_bundle, Establish, Tick, vars
  <1>3. NextHopCloser' /\ PacketsSeen' /\ OneForwardPerRound' /\ OneHopIsNeighbour'
    BY <1>1 DEF NextHopCloser, PacketsSeen, OneForwardPerRound, OneHopIsNeighbour
  <1> QED BY <1>2, <1>3

\* The inductive invariant of the router.
THEOREM Invariance == Spec => []RouterInv
  <1>1. RouterInv /\ [Next]_vars => RouterInv'
    BY BroadcastStep, HandleStep, PurgeStep, RestartStep, OtherSteps, PairsAssumption DEF Next
  <1> QED BY <1>1, InitInv, PTL DEF Spec

\* Every routing loop passes through a node that restarted and so lost its
\* _seen_seq, whatever the topology, the order of delivery and the rounds.
THEOREM LoopFreeThm == Spec => []LoopFree
  <1>1. RouterInv => LoopFree
    BY CloserIsLoopFree DEF RouterInv
  <1> QED BY <1>1, Invariance, PTL

\* A node that did not restart sends each round on at most once.
THEOREM OneForwardThm == Spec => []OneForwardPerRound
  <1>1. RouterInv => OneForwardPerRound
    BY DEF RouterInv
  <1> QED BY <1>1, Invariance, PTL

\* A route of one hop is a route to a neighbour and the other way round, even
\* after restarts.
THEOREM OneHopThm == Spec => []OneHopIsNeighbour
  <1>1. RouterInv => OneHopIsNeighbour
    BY DEF RouterInv
  <1> QED BY <1>1, Invariance, PTL

\* purge_stale changes no answer of route_to.
THEOREM PurgeThm == Spec => PurgeKeepsAnswers
  <1>1. RouterInv /\ [Next]_vars =>
          [(\E n \in Node : purge_stale(n)) =>
             \A n, o \in Node : route_to(n, o)' = route_to(n, o)]_vars
    <2> SUFFICES ASSUME RouterInv, NEW p \in Node, purge_stale(p),
                        NEW n \in Node, NEW o \in Node
                 PROVE  route_to(n, o)' = route_to(n, o)
      OBVIOUS
    <2>1. now' = now /\ now \in Int
      BY SizesAssumption DEF purge_stale, RouterInv, TypeOK
    <2>2. routes'[n][o] = IF n = p /\ Purgeable(routes[n][o]) THEN None ELSE routes[n][o]
      BY DEF purge_stale, RouterInv, TypeOK
    <2>3. routes[n][o] # None => routes[n][o].ts \in Int
      BY SizesAssumption DEF RouterInv, TypeOK, Route
    <2> QED BY <2>1, <2>2, <2>3, SizesAssumption DEF route_to, Purgeable
  <1> QED BY <1>1, Invariance, PTL DEF Spec, PurgeKeepsAnswers

\* The next hop of a route is closer to its originator, or knows a newer round.
THEOREM NextHopCloserThm == Spec => []NextHopCloser
  <1>1. RouterInv => NextHopCloser
    BY DEF RouterInv
  <1> QED BY <1>1, Invariance, PTL

\* Routes, rounds and packets keep their shape.
THEOREM TypeOKThm == Spec => []TypeOK
  <1>1. RouterInv => TypeOK
    BY DEF RouterInv
  <1> QED BY <1>1, Invariance, PTL
=============================================================================
