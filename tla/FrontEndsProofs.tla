--------------------------- MODULE FrontEndsProofs ---------------------------
(* Proofs about FrontEnds, for any peers, clients, spellings and bounds.     *)
EXTENDS FrontEnds, FiniteSetTheorems, SequenceTheorems, WellFoundedInduction, TLAPS

USE DEF node, disk, limiter, told

-----------------------------------------------------------------------------
(* Names                                                                     *)

\* A canonical id and its digits without hyphens name the same, one, peer.
LEMMA Ids ==
  ASSUME NEW p \in Peer
  PROVE  /\ Id(p) \in Name /\ Id(p).of = {p} /\ normalize_peer_id(Id(p)) = Id(p)
         /\ normalize_peer_id(Hex(p)) = Id(p)
         /\ \A q \in Peer : Id(q) = Id(p) => q = p
  <1>1. Id(p).of = {p} /\ Id(p).form = "id" /\ Id(p) \in Name
    BY DEF Id, Name
  <1>2. normalize_peer_id(Id(p)) = Id(p)
    BY <1>1 DEF normalize_peer_id
  <1>3. normalize_peer_id(Hex(p)) = Id(p)
    BY DEF normalize_peer_id, Hex, Id
  <1>4. ASSUME NEW q \in Peer, Id(q) = Id(p) PROVE q = p
    <2>1. {q} = {p}
      BY <1>4 DEF Id
    <2> QED BY <2>1
  <1> QED BY <1>1, <1>2, <1>3, <1>4

\* normalize_peer_id keeps whom a name stands for, and normalizes once for all.
LEMMA Normal ==
  ASSUME NEW x \in Name
  PROVE  /\ normalize_peer_id(x) \in Name /\ normalize_peer_id(x).of = x.of
         /\ normalize_peer_id(normalize_peer_id(x)) = normalize_peer_id(x)
  BY DEF normalize_peer_id, Name

\* A name selects one session at most, that of a peer it stands for.
LEMMA Targets ==
  ASSUME NEW x \in Name, sessions \subseteq Peer
  PROVE  /\ \A p \in Target(x) : p \in Peer /\ p \in x.of /\ normalize_peer_id(x) = Id(p)
         /\ \A p, q \in Target(x) : p = q
  <1>1. \A p \in Target(x) : p \in Peer /\ normalize_peer_id(x) = Id(p)
    BY DEF Target
  <1>2. \A p \in Target(x) : p \in x.of
    <2> SUFFICES ASSUME NEW p \in Target(x) PROVE p \in x.of
      OBVIOUS
    <2>1. x.of = Id(p).of /\ Id(p).of = {p}
      BY <1>1, Normal, Ids
    <2> QED BY <2>1
  <1>3. \A p, q \in Target(x) : p = q
    BY <1>1, Ids
  <1> QED BY <1>1, <1>2, <1>3

\* What the console makes of a typed name: the name, or the id of a session.
LEMMA Resolves ==
  ASSUME NEW x \in Typed, sessions \subseteq Peer
  PROVE  /\ Resolved(x) \in Name
         /\ \/ Resolved(x) = x
            \/ Target(Resolved(x)) # {} /\ \A p \in Target(Resolved(x)) : p \in x.of
  <1>1. x \in Name
    BY TypedAssumption
  <1>2. CASE Matches(x) = {}
    BY <1>1, <1>2 DEF Resolved
  <1>3. CASE Matches(x) # {}
    <2> PICK p : p = CHOOSE q \in Matches(x) : TRUE
      OBVIOUS
    <2>1. p \in sessions /\ p \in Peer /\ p \in x.of /\ Resolved(x) = Id(p)
      BY <1>3 DEF Matches, Resolved
    <2>2. p \in Target(Id(p)) /\ \A q \in Target(Id(p)) : q = p
      BY <2>1, Ids DEF Target
    <2> QED BY <2>1, <2>2, Ids
  <1> QED BY <1>2, <1>3

-----------------------------------------------------------------------------
(* The type invariant and the prompt                                         *)

\* The assumptions on the constants, and points of time, as numbers.
LEMMA Bounds ==
  /\ Limit \in Nat \ {0} /\ Window \in Nat /\ LockAfter \in Nat /\ MaxMsg \in Nat
  /\ MaxTime \in Nat /\ Time \subseteq Nat /\ Msg \subseteq Nat
  BY FrontBoundsAssumption DEF Time, Msg

\* A non-empty set of natural numbers has a least member.
LEMMA LeastNat ==
  ASSUME NEW T, T \subseteq Nat, T # {}
  PROVE  \E x \in T : \A y \in T : x <= y
  <1> DEFINE R == OpToRel(<, Nat)
  <1>1. IsWellFoundedOn(R, Nat)
    BY NatLessThanWellFounded
  <1> HIDE DEF R
  <1>2. PICK x \in T : \A y \in T : ~ (<<y, x>> \in R)
    BY <1>1, WFMin
  <1>3. \A y \in T : ~(y < x)
    BY <1>2 DEF R, OpToRel
  <1> QED BY <1>3

\* What Evict leaves: all but the timestamps in front that have left the window.
LEMMA Evicted ==
  ASSUME NEW b \in Seq(Time), now \in Time
  PROVE  \E m \in 0 .. Len(b) :
           /\ Evict(b) = SubSeq(b, m + 1, Len(b))
           /\ \A i \in 1 .. m : b[i] + Window < now
           /\ m < Len(b) => ~(b[m + 1] + Window < now)
  <1> DEFINE T == {i \in 1 .. Len(b) + 1 : i = Len(b) + 1 \/ ~(b[i] + Window < now)}
  <1>1. Len(b) \in Nat /\ DOMAIN b = 1 .. Len(b) /\ \A i \in 1 .. Len(b) : b[i] \in Time
    BY ElementOfSeq
  <1>2. T \subseteq Nat /\ Len(b) + 1 \in T
    BY <1>1
  <1>3. PICK n \in T : \A i \in T : n <= i
    BY <1>2, LeastNat
  <1> PICK m : m = n - 1
    OBVIOUS
  <1>4. m \in 0 .. Len(b) /\ n = m + 1
    BY <1>1, <1>3
  <1>5. \A i \in 1 .. m : b[i] + Window < now
    BY <1>1, <1>3, <1>4
  <1>6. m < Len(b) => ~(b[m + 1] + Window < now)
    BY <1>1, <1>3, <1>4
  <1> DEFINE old == {i \in DOMAIN b : \A j \in 1 .. i : b[j] + Window < now}
  <1>7. old = 1 .. m
    BY <1>1, <1>4, <1>5, <1>6
  <1>8. Cardinality(old) = m
    <2>1. m \in Nat /\ 1 \in Int /\ m \in Int
      BY <1>1, <1>4
    <2>2. Cardinality(1 .. m) = IF 1 > m THEN 0 ELSE m - 1 + 1
      BY <2>1, FS_Interval
    <2> HIDE DEF old
    <2> QED BY <1>7, <2>1, <2>2
  <1>9. Evict(b) = SubSeq(b, m + 1, Len(b))
    BY <1>8 DEF Evict
  <1> QED BY <1>4, <1>5, <1>6, <1>9

\* What Evict leaves is timestamps.
LEMMA EvictType ==
  ASSUME NEW b \in Seq(Time), now \in Time
  PROVE  Evict(b) \in Seq(Time)
  <1>1. PICK m \in 0 .. Len(b) : Evict(b) = SubSeq(b, m + 1, Len(b))
    BY Evicted
  <1>2. Len(b) \in Nat /\ \A i \in 1 .. Len(b) : b[i] \in Time
    BY ElementOfSeq
  <1>3. \A i \in m + 1 .. Len(b) : b[i] \in Time
    BY <1>1, <1>2
  <1> QED BY <1>1, <1>2, <1>3, SubSeqProperties

\* The rounds of the console and the end of the process keep their shape.
LEMMA RoundType ==
  ASSUME TypeOK, NEW last \in Time, Round(last)
  PROVE  repl' \in Console
  <1>1. now \in Time /\ repl.shown \in Time
    BY DEF TypeOK, Console
  <1> QED BY <1>1 DEF Round, Console

\* What the end of the process leaves.
LEMMA GoneType ==
  ASSUME TypeOK, NEW more, more \subseteq Msg, Gone(more)
  PROVE  /\ repl' \in Console /\ sessions' = {} /\ calls' = {} /\ inbox' = <<>>
         /\ inbox' \in Seq([msg : Msg, from : Peer])
         /\ bucket' \in [Client -> Seq(Time)] /\ log' \in [Client -> Seq(Time)]
         /\ refused' \in [Client -> Time \cup {None}]
         /\ lost' \subseteq Msg
  <1>1. repl' \in Console
    BY Bounds DEF Gone, Console, Time
  <1>2. <<>> \in Seq(Time) /\ <<>> \in Seq([msg : Msg, from : Peer])
    BY EmptySeq
  <1>3. {inbox[i].msg : i \in DOMAIN inbox} \subseteq Msg
    <2>1. inbox \in Seq([msg : Msg, from : Peer])
      BY DEF TypeOK
    <2>2. \A i \in 1 .. Len(inbox) : inbox[i] \in [msg : Msg, from : Peer]
      BY <2>1, ElementOfSeq
    <2>3. DOMAIN inbox = 1 .. Len(inbox)
      BY <2>1
    <2> QED BY <2>2, <2>3
  <1>4. lost' \subseteq Msg
    BY <1>3 DEF Gone, TypeOK
  <1> QED BY <1>1, <1>2, <1>4 DEF Gone

\* What send_or_queue gives the transport and the queue.
LEMMA SendType ==
  ASSUME TypeOK, NEW m \in Msg, NEW x \in Name, send_or_queue(m, x)
  PROVE  wire' \subseteq [msg : Msg, to : Peer] /\ queue' \subseteq [msg : Msg, key : Name]
  <1>1. \A p \in Target(x) : p \in Peer
    BY Targets DEF TypeOK
  <1>2. [msg |-> m, key |-> normalize_peer_id(x)] \in [msg : Msg, key : Name]
    BY Normal
  <1> QED BY <1>1, <1>2 DEF send_or_queue, TypeOK

\* What save_message appends.
LEMMA SaveType ==
  ASSUME TypeOK, NEW m \in Msg, NEW k \in Name, NEW d \in {"sent", "recv"}, save_message(m, k, d)
  PROVE  history' \in Seq([msg : Msg, key : Name, dir : {"sent", "recv"}])
  BY AppendProperties DEF save_message, TypeOK

\* Every step keeps the types.
LEMMA TypeStep == TypeOK /\ [Next]_vars => TypeOK'
  <1> SUFFICES ASSUME TypeOK, [Next]_vars PROVE TypeOK'
    OBVIOUS
  <1>0. /\ now \in Time /\ now \in Nat /\ repl \in Console /\ repl.last \in Time
        /\ repl.shown \in Time /\ 0 \in Time /\ msgs \in 0 .. MaxMsg
        /\ sessions \subseteq Peer /\ {} \subseteq Msg
    BY Bounds DEF TypeOK, Console, Time
  <1>1. \A at \in {"down", "read", "unlock", "ended"}, l \in Time, s \in Time :
          [at |-> at, last |-> l, shown |-> s] \in Console
    BY DEF Console
  <1>2. msgs < MaxMsg => msgs + 1 \in Msg /\ msgs + 1 \in 0 .. MaxMsg
    BY <1>0, Bounds DEF Msg
  <1>3. CASE Start
    BY <1>0, <1>1, <1>3 DEF Start, TypeOK
  <1>4. CASE End
    <2>1. Gone({}) /\ UNCHANGED <<disk, now, msgs, typed, wire, acked>>
      BY <1>4 DEF End
    <2> QED BY <1>0, <2>1, GoneType DEF TypeOK
  <1>5. CASE Tick
    BY <1>0, <1>5, Bounds DEF Tick, TypeOK, Time
  <1>6. CASE _on_message_received
    <2>1. inbox # <<>> /\ inbox' = Tail(inbox) /\ inbox \in Seq([msg : Msg, from : Peer])
      BY <1>6 DEF _on_message_received, TypeOK
    <2>2. /\ inbox' \in Seq([msg : Msg, from : Peer])
          /\ Head(inbox) \in [msg : Msg, from : Peer]
      BY <2>1, HeadTailProperties
    <2>3. Id(Head(inbox).from) \in Name
      BY <2>2, Ids
    <2>4. history' \in Seq([msg : Msg, key : Name, dir : {"sent", "recv"}]) /\ lost' \subseteq Msg
      BY <1>6, <2>2, <2>3, SaveType DEF _on_message_received, TypeOK
    <2> QED BY <1>6, <2>2, <2>4 DEF _on_message_received, TypeOK
  <1>7. CASE Unlock
    BY <1>0, <1>1, <1>7 DEF Unlock, TypeOK
  <1>8. CASE Line
    <2>1. repl' \in Console
      <3>1. CASE repl' = [repl EXCEPT !.at = "ended"]
        BY <1>0, <3>1 DEF Console
      <3> QED BY <1>0, <1>8, <3>1, RoundType DEF Line
    <2> QED BY <1>8, <2>1 DEF Line, TypeOK
  <1>9. ASSUME NEW p \in Peer, Connect(p) PROVE TypeOK'
    BY <1>9 DEF Connect, TypeOK
  <1>10. ASSUME NEW p \in Peer, flush_peer(p) PROVE TypeOK'
    BY <1>10 DEF flush_peer, Waiting, TypeOK
  <1>11. ASSUME NEW p \in Peer, Receive(p) PROVE TypeOK'
    <2>1. [msg |-> msgs + 1, from |-> p] \in [msg : Msg, from : Peer]
      BY <1>2, <1>11 DEF Receive
    <2>2. inbox' \in Seq([msg : Msg, from : Peer])
      BY <1>11, <2>1, AppendProperties DEF Receive, TypeOK
    <2> QED BY <1>2, <1>11, <2>1, <2>2 DEF Receive, TypeOK
  <1>12. ASSUME NEW c \in Client, NEW x \in Typed \cup {None}, _rate_limit(c, x) PROVE TypeOK'
    <2> PICK b : b = Evict(bucket[c])
      OBVIOUS
    <2>1. b \in Seq(Time) /\ Append(b, now) \in Seq(Time) /\ Append(log[c], now) \in Seq(Time)
      BY <1>0, EvictType, AppendProperties DEF TypeOK
    <2>2. \/ /\ bucket' = [bucket EXCEPT ![c] = b]
             /\ refused' = [refused EXCEPT ![c] = now]
             /\ UNCHANGED <<log, calls, msgs, typed>>
          \/ /\ bucket' = [bucket EXCEPT ![c] = Append(b, now)]
             /\ log' = [log EXCEPT ![c] = Append(log[c], now)]
             /\ UNCHANGED refused
             /\ \/ UNCHANGED <<calls, msgs, typed>>
                \/ /\ x # None /\ msgs < MaxMsg /\ msgs' = msgs + 1
                   /\ calls' = calls \cup {[msg |-> msgs + 1, name |-> x]}
                   /\ typed' = typed \cup {[msg |-> msgs + 1, name |-> x]}
      BY <1>12 DEF _rate_limit
    <2>3. UNCHANGED <<sessions, inbox, repl, disk, now, wire, acked, lost>>
      BY <1>12 DEF _rate_limit
    <2>4. /\ bucket' \in [Client -> Seq(Time)] /\ log' \in [Client -> Seq(Time)]
          /\ refused' \in [Client -> Time \cup {None}]
      <3>1. /\ bucket \in [Client -> Seq(Time)] /\ log \in [Client -> Seq(Time)]
            /\ refused \in [Client -> Time \cup {None}] /\ now \in Time
        BY <1>0 DEF TypeOK
      <3>2. bucket' \in [Client -> Seq(Time)]
        BY <2>1, <2>2, <3>1
      <3>3. log' \in [Client -> Seq(Time)]
        BY <2>1, <2>2, <3>1
      <3>4. refused' \in [Client -> Time \cup {None}]
        BY <2>2, <3>1
      <3> QED BY <3>2, <3>3, <3>4
    <2>5. /\ calls' \subseteq [msg : Msg, name : Typed] /\ typed' \subseteq [msg : Msg, name : Typed]
          /\ msgs' \in 0 .. MaxMsg
      BY <1>0, <1>2, <2>2 DEF TypeOK
    <2> QED BY <2>3, <2>4, <2>5 DEF TypeOK
  <1>13. ASSUME NEW r \in calls, send_message(r) PROVE TypeOK'
    <2>1. r.msg \in Msg /\ r.name \in Name /\ {r.msg} \subseteq Msg /\ ApiKey(r.name) \in Name
      BY TypedAssumption, Normal DEF TypeOK, ApiKey
    <2>2. wire' \subseteq [msg : Msg, to : Peer] /\ queue' \subseteq [msg : Msg, key : Name]
      BY <1>13, <2>1, SendType DEF send_message, TypeOK
    <2>3. history' \in Seq([msg : Msg, key : Name, dir : {"sent", "recv"}])
      BY <1>13, <2>1, SaveType DEF send_message, TypeOK
    <2>4. UNCHANGED <<now, msgs, typed, acked>> /\ calls' \subseteq calls
      <3>1. \A more : Gone(more) => calls' = {}
        BY DEF Gone
      <3> QED BY <1>13, <3>1 DEF send_message
    <2>5. CASE UNCHANGED <<sessions, inbox, repl, limiter>> /\ lost' \subseteq lost \cup {r.msg}
      BY <2>1, <2>2, <2>3, <2>4, <2>5 DEF TypeOK
    <2>6. CASE Gone({r.msg})
      BY <2>1, <2>2, <2>3, <2>4, <2>6, GoneType DEF TypeOK
    <2> QED BY <1>13, <2>5, <2>6 DEF send_message
  <1>14. ASSUME NEW x \in Typed, _cmd_send(x) PROVE TypeOK'
    <2>1. msgs + 1 \in Msg /\ msgs + 1 \in 0 .. MaxMsg /\ Resolved(x) \in Name
          /\ CliKey(x) \in Name /\ {msgs + 1} \subseteq Msg
      BY <1>0, <1>2, <1>14, Resolves DEF _cmd_send, CliKey
    <2>2. wire' \subseteq [msg : Msg, to : Peer] /\ queue' \subseteq [msg : Msg, key : Name]
      BY <1>14, <2>1, SendType DEF _cmd_send
    <2>3. history' \in Seq([msg : Msg, key : Name, dir : {"sent", "recv"}])
      BY <1>14, <2>1, SaveType DEF _cmd_send, TypeOK
    <2>4. /\ UNCHANGED <<now, acked>> /\ msgs' = msgs + 1
          /\ typed' \subseteq [msg : Msg, name : Typed]
      BY <1>14, <2>1 DEF _cmd_send, TypeOK
    <2>5. CASE /\ Round(now) \/ repl' = [repl EXCEPT !.at = "ended"]
               /\ UNCHANGED <<sessions, calls, inbox, limiter>> /\ lost' \subseteq lost \cup {msgs + 1}
      <3>1. repl' \in Console
        <4>1. CASE repl' = [repl EXCEPT !.at = "ended"]
          BY <1>0, <4>1 DEF Console
        <4> QED BY <1>0, <2>5, <4>1, RoundType
      <3> QED BY <2>1, <2>2, <2>3, <2>4, <2>5, <3>1 DEF TypeOK
    <2>6. CASE Gone({msgs + 1})
      BY <2>1, <2>2, <2>3, <2>4, <2>6, GoneType DEF TypeOK
    <2> QED BY <1>14, <2>5, <2>6 DEF _cmd_send
  <1>15. CASE UNCHANGED vars
    BY <1>15 DEF vars, TypeOK
  <1> QED BY <1>3, <1>4, <1>5, <1>6, <1>7, <1>8, <1>9, <1>10, <1>11, <1>12, <1>13, <1>14, <1>15
          DEF Next

\* The initial state has them.
LEMMA TypeInit == Init => TypeOK
  <1> SUFFICES ASSUME Init PROVE TypeOK
    OBVIOUS
  <1>1. 0 \in Time /\ 0 \in 0 .. MaxMsg
    BY Bounds DEF Time
  <1>2. <<>> \in Seq(Time) /\ <<>> \in Seq([msg : Msg, from : Peer])
        /\ <<>> \in Seq([msg : Msg, key : Name, dir : {"sent", "recv"}])
    BY EmptySeq
  <1>3. repl \in Console
    BY <1>1 DEF Init, Console
  <1> QED BY <1>1, <1>2, <1>3 DEF Init, NoCalls, TypeOK

\* The state of the front ends keeps its shape.
THEOREM TypeOKThm == Spec => []TypeOK
  BY TypeInit, TypeStep, PTL DEF Spec

\* A prompt that takes commands was shown to a user who had been active within
\* the timeout, or had just given the passphrase.
THEOREM PromptFreshThm == Spec => []PromptFresh
  <1>1. Init => PromptFresh
    BY DEF Init, PromptFresh
  <1>2. ASSUME TypeOK, PromptFresh, [Next]_vars PROVE PromptFresh'
    <2>1. now \in Nat /\ LockAfter \in Nat /\ repl.last \in Nat
      BY <1>2, Bounds DEF TypeOK, Console
    <2>2. ASSUME NEW last \in Nat, Round(last) PROVE PromptFresh'
      BY <2>1, <2>2 DEF Round, Locked, PromptFresh
    <2>3. CASE repl'.at # "read"
      BY <2>3 DEF PromptFresh
    <2>4. CASE repl' = [at |-> "read", last |-> now, shown |-> now]
      BY <2>1, <2>4 DEF PromptFresh
    <2>5. CASE UNCHANGED repl
      BY <1>2, <2>5 DEF PromptFresh
    <2>6. \A more : Gone(more) => repl'.at # "read"
      BY DEF Gone
    <2>7. CASE UNCHANGED vars
      BY <2>5, <2>7 DEF vars
    <2>8. CASE Next
      <3>1. CASE Start \/ Unlock
        BY <2>4, <3>1 DEF Start, Unlock
      <3>2. CASE End
        BY <2>3, <2>6, <3>2 DEF End
      <3>3. CASE Line
        BY <1>2, <2>1, <2>2, <2>3, <3>3 DEF Line, TypeOK, Console
      <3>4. CASE Tick \/ _on_message_received
        BY <2>5, <3>4 DEF Tick, _on_message_received
      <3>5. CASE \E p \in Peer : Connect(p) \/ flush_peer(p) \/ Receive(p)
        BY <2>5, <3>5 DEF Connect, flush_peer, Receive
      <3>6. CASE \E c \in Client, x \in Typed \cup {None} : _rate_limit(c, x)
        BY <2>5, <3>6 DEF _rate_limit
      <3>7. CASE \E r \in calls : send_message(r)
        BY <2>3, <2>5, <2>6, <3>7 DEF send_message
      <3>8. ASSUME NEW x \in Typed, _cmd_send(x) PROVE PromptFresh'
        <4>1. \/ Round(now) \/ repl' = [repl EXCEPT !.at = "ended"]
              \/ Gone({msgs + 1})
          BY <3>8 DEF _cmd_send
        <4> QED BY <1>2, <2>1, <2>2, <2>3, <2>6, <4>1 DEF TypeOK, Console
      <3> QED BY <2>8, <3>1, <3>2, <3>3, <3>4, <3>5, <3>6, <3>7, <3>8 DEF Next
    <2> QED BY <1>2, <2>7, <2>8
  <1> QED BY <1>1, <1>2, TypeOKThm, PTL DEF Spec

-----------------------------------------------------------------------------
(* Messages and their records                                                *)

\* A message has one meaning: it was typed once, or it came from one peer.
OneMeaning ==
  /\ \A t \in typed : t.msg <= msgs /\ \A u \in typed : u.msg = t.msg => u = t
  /\ \A a \in acked : a.msg <= msgs /\ \A b \in acked : b.msg = a.msg => b = a
  /\ \A t \in typed, a \in acked : t.msg # a.msg

\* m was neither sent nor queued, or not recorded.
Unsent(m) == (\A w \in wire : w.msg # m) /\ (\A r \in queue : r.msg # m)
Unrecorded(m) == \A i \in DOMAIN history : history[i].msg # m

\* What waits in memory has been neither sent nor recorded.
Pending ==
  /\ \A r \in calls : r \in typed /\ Unsent(r.msg) /\ Unrecorded(r.msg)
  /\ \A i \in DOMAIN inbox : /\ inbox[i] \in acked /\ Unrecorded(inbox[i].msg)
                             /\ \A j \in DOMAIN inbox : inbox[j].msg = inbox[i].msg => j = i

\* A message is in one place: queued under its name in the canonical spelling, or
\* with the peer that name stands for.
OnePlace ==
  /\ \A r \in queue : /\ \E t \in typed : t.msg = r.msg /\ r.key = normalize_peer_id(t.name)
                      /\ \A s \in queue : s.msg = r.msg => s = r
                      /\ \A w \in wire : w.msg # r.msg
  /\ \A w \in wire : /\ \E t \in typed : t.msg = w.msg /\ w.to \in t.name.of
                     /\ \A v \in wire : v.msg = w.msg => v = w

\* A row is that of a message of this node, and the only one.
RowsOf ==
  \A i \in DOMAIN history :
    LET h == history[i] IN
    /\ \A j \in DOMAIN history : history[j].msg = h.msg => j = i
    /\ h.dir = "sent" =>
         \/ \E r \in queue : r.msg = h.msg /\ r.key = normalize_peer_id(h.key)
         \/ \E w \in wire : w.msg = h.msg /\ normalize_peer_id(h.key) = Id(w.to)
    /\ h.dir = "recv" => \E a \in acked : a.msg = h.msg /\ h.key = Id(a.from)

\* What has left memory is recorded or lost.
NoneForgotten ==
  /\ \A t \in typed : Unsent(t.msg) \/ ~Unrecorded(t.msg) \/ t.msg \in lost
  /\ \A a \in acked : \/ ~Unrecorded(a.msg) \/ a.msg \in lost
                      \/ \E i \in DOMAIN inbox : inbox[i].msg = a.msg

MessageInv == TypeOK /\ OneMeaning /\ Pending /\ OnePlace /\ RowsOf /\ NoneForgotten

\* A recorded message adds one row, at the end.
LEMMA Recording ==
  ASSUME TypeOK, NEW m, NEW k, NEW d, save_message(m, k, d)
  PROVE  \E n \in DOMAIN history' :
           /\ n \notin DOMAIN history /\ history'[n] = [msg |-> m, key |-> k, dir |-> d]
           /\ \A i \in DOMAIN history : i \in DOMAIN history' /\ history'[i] = history[i]
           /\ \A i \in DOMAIN history' : i \in DOMAIN history \/ i = n
  <1> DEFINE row == [msg |-> m, key |-> k, dir |-> d]
             n == Len(history) + 1
  <1>1. Len(history) \in Nat /\ DOMAIN history = 1 .. Len(history) /\ \E S : history \in Seq(S)
    BY DEF TypeOK
  <1> HIDE DEF row
  <1>2. history' = Append(history, row)
    BY DEF save_message, row
  <1>3. /\ DOMAIN history' = 1 .. n /\ history'[n] = row
        /\ \A i \in 1 .. Len(history) : history'[i] = history[i]
    BY <1>1, <1>2
  <1>4. /\ n \in DOMAIN history' /\ n \notin DOMAIN history
        /\ \A i \in DOMAIN history : i \in DOMAIN history'
        /\ \A i \in DOMAIN history' : i \in DOMAIN history \/ i = n
    BY <1>1, <1>3
  <1> QED BY <1>1, <1>3, <1>4 DEF row

\* With the stores as they are, and no fewer messages known, all stays in place.
LEMMA StoresKept ==
  ASSUME MessageInv, typed \subseteq typed', acked \subseteq acked',
         UNCHANGED <<queue, wire, history>>
  PROVE  /\ OnePlace' /\ RowsOf'
         /\ \A m : Unsent(m)' = Unsent(m) /\ Unrecorded(m)' = Unrecorded(m)
  <1>1. OnePlace'
    BY DEF MessageInv, OnePlace
  <1>2. RowsOf'
    BY DEF MessageInv, RowsOf
  <1> QED BY <1>1, <1>2 DEF Unsent, Unrecorded

\* A message that was nowhere goes to one peer, or waits under one name.
LEMMA SendStep ==
  ASSUME MessageInv, typed \subseteq typed', NEW m, NEW y \in Name, NEW t \in typed',
         t.msg = m, y = t.name \/ (Target(y) # {} /\ \A p \in Target(y) : p \in t.name.of),
         Unsent(m), send_or_queue(m, y)
  PROVE  /\ OnePlace'
         /\ \A x : x # m => (Unsent(x)' <=> Unsent(x))
         /\ queue \subseteq queue' /\ wire \subseteq wire'
         /\ \/ \E r \in queue' : r.msg = m /\ r.key = normalize_peer_id(y)
            \/ \E w \in wire' : w.msg = m /\ normalize_peer_id(y) = Id(w.to)
  <1>0. sessions \subseteq Peer
    BY DEF MessageInv, TypeOK
  <1>1. CASE Target(y) # {}
    <2>1. PICK p \in Target(y) : TRUE
      BY <1>1
    <2>2. Target(y) = {p} /\ normalize_peer_id(y) = Id(p) /\ p \in y.of
      BY <1>0, <2>1, Targets
    <2>3. p \in t.name.of
      BY <2>1, <2>2
    <2> PICK w : w = [msg |-> m, to |-> p]
      OBVIOUS
    <2>4. wire' = wire \cup {w} /\ queue' = queue /\ w.msg = m /\ w.to = p
      BY <1>1, <2>2 DEF send_or_queue
    <2>5. OnePlace'
      BY <2>3, <2>4 DEF MessageInv, OnePlace, Unsent
    <2> QED BY <2>2, <2>4, <2>5 DEF Unsent
  <1>2. CASE Target(y) = {}
    <2> PICK r : r = [msg |-> m, key |-> normalize_peer_id(y)]
      OBVIOUS
    <2>1. /\ queue' = queue \cup {r} /\ wire' = wire /\ r.msg = m
          /\ r.key = normalize_peer_id(y) /\ y = t.name
      BY <1>2 DEF send_or_queue
    <2>2. OnePlace'
      BY <2>1 DEF MessageInv, OnePlace, Unsent
    <2> QED BY <2>1, <2>2 DEF Unsent
  <1> QED BY <1>1, <1>2

\* It is sent, and recorded or lost.
LEMMA SentStep ==
  ASSUME MessageInv, OneMeaning', NEW m, NEW y \in Name, NEW t \in typed', t.msg = m,
         typed \subseteq typed', typed' \subseteq typed \cup {t}, acked' = acked,
         y = t.name \/ (Target(y) # {} /\ \A p \in Target(y) : p \in t.name.of),
         Unsent(m), Unrecorded(m), send_or_queue(m, y),
         calls' \subseteq calls, \A r \in calls' : r.msg # m,
         inbox' = inbox \/ (inbox' = <<>> /\ \A i \in DOMAIN inbox : inbox[i].msg \in lost'),
         lost \subseteq lost',
         \/ \E k : save_message(m, k, "sent") /\ normalize_peer_id(k) = normalize_peer_id(y)
         \/ UNCHANGED history /\ m \in lost'
  PROVE  Pending' /\ OnePlace' /\ RowsOf' /\ NoneForgotten'
  <1>1. /\ OnePlace'
        /\ \A x : x # m => (Unsent(x)' <=> Unsent(x))
        /\ queue \subseteq queue' /\ wire \subseteq wire'
        /\ \/ \E r \in queue' : r.msg = m /\ r.key = normalize_peer_id(y)
           \/ \E w \in wire' : w.msg = m /\ normalize_peer_id(y) = Id(w.to)
    BY SendStep
  <1>2. /\ \A i \in DOMAIN history : i \in DOMAIN history' /\ history'[i] = history[i]
        /\ \A i \in DOMAIN history' : i \in DOMAIN history \/
             /\ history'[i].msg = m /\ history'[i].dir = "sent"
             /\ normalize_peer_id(history'[i].key) = normalize_peer_id(y)
             /\ \A j \in DOMAIN history' : j \in DOMAIN history \/ j = i
        /\ m \in lost' \/ ~Unrecorded(m)'
    <2>1. CASE UNCHANGED history /\ m \in lost'
      BY <2>1
    <2>2. ASSUME NEW k, save_message(m, k, "sent"), normalize_peer_id(k) = normalize_peer_id(y)
          PROVE  <1>2!1 /\ <1>2!2 /\ <1>2!3
      <3>1. TypeOK
        BY DEF MessageInv
      <3>2. PICK n \in DOMAIN history' :
              /\ n \notin DOMAIN history /\ history'[n] = [msg |-> m, key |-> k, dir |-> "sent"]
              /\ \A i \in DOMAIN history : i \in DOMAIN history' /\ history'[i] = history[i]
              /\ \A i \in DOMAIN history' : i \in DOMAIN history \/ i = n
        BY <2>2, <3>1, Recording
      <3>3. ~Unrecorded(m)'
        BY <3>2 DEF Unrecorded
      <3> QED BY <2>2, <3>2, <3>3
    <2> QED BY <2>1, <2>2
  <1>3. \A x : x # m => (Unrecorded(x)' <=> Unrecorded(x))
    BY <1>2 DEF Unrecorded
  <1>4. RowsOf'
    <2> SUFFICES ASSUME NEW i \in DOMAIN history'
                 PROVE  LET h == history'[i] IN
                        /\ \A j \in DOMAIN history' : history'[j].msg = h.msg => j = i
                        /\ h.dir = "sent" =>
                             \/ \E r \in queue' : r.msg = h.msg /\ r.key = normalize_peer_id(h.key)
                             \/ \E w \in wire' : w.msg = h.msg /\ normalize_peer_id(h.key) = Id(w.to)
                        /\ h.dir = "recv" => \E a \in acked' : a.msg = h.msg /\ h.key = Id(a.from)
      BY DEF RowsOf
    <2>1. CASE i \in DOMAIN history
      BY <1>1, <1>2, <2>1 DEF MessageInv, RowsOf, Unrecorded
    <2>2. CASE i \notin DOMAIN history
      BY <1>1, <1>2, <2>2 DEF MessageInv, Unrecorded
    <2> QED BY <2>1, <2>2
  <1>5. Pending'
    <2>1. \A r \in calls' : r \in typed' /\ Unsent(r.msg)' /\ Unrecorded(r.msg)'
      BY <1>1, <1>3 DEF MessageInv, Pending
    <2>2. ASSUME NEW i \in DOMAIN inbox'
          PROVE  /\ inbox'[i] \in acked' /\ Unrecorded(inbox[i].msg)'
                 /\ \A j \in DOMAIN inbox' : inbox'[j].msg = inbox'[i].msg => j = i
      <3>1. inbox' = inbox /\ inbox[i] \in acked
        BY DEF MessageInv, Pending
      <3>2. inbox[i].msg # m
        BY <3>1 DEF OneMeaning
      <3> QED BY <1>3, <3>1, <3>2 DEF MessageInv, Pending
    <2> QED BY <2>1, <2>2 DEF Pending
  <1>6. NoneForgotten'
    <2>1. ASSUME NEW u \in typed' PROVE Unsent(u.msg)' \/ ~Unrecorded(u.msg)' \/ u.msg \in lost'
      BY <1>1, <1>2, <1>3 DEF MessageInv, NoneForgotten
    <2>2. ASSUME NEW a \in acked'
          PROVE  \/ ~Unrecorded(a.msg)' \/ a.msg \in lost'
                 \/ \E i \in DOMAIN inbox' : inbox'[i].msg = a.msg
      <3>1. a.msg # m
        BY DEF OneMeaning
      <3> QED BY <1>3, <3>1 DEF MessageInv, NoneForgotten
    <2> QED BY <2>1, <2>2 DEF NoneForgotten
  <1> QED BY <1>1, <1>4, <1>5, <1>6

\* The next message is known nowhere.
LEMMA NextIsFresh ==
  ASSUME MessageInv
  PROVE  /\ msgs \in Nat /\ Unsent(msgs + 1) /\ Unrecorded(msgs + 1)
         /\ \A t \in typed : t.msg \in Nat /\ t.msg <= msgs
         /\ \A a \in acked : a.msg \in Nat /\ a.msg <= msgs
  <1>1. msgs \in Nat
    BY Bounds DEF MessageInv, TypeOK
  <1>2. /\ \A t \in typed : t.msg \in Nat /\ t.msg <= msgs
        /\ \A a \in acked : a.msg \in Nat /\ a.msg <= msgs
    BY Bounds DEF MessageInv, OneMeaning, TypeOK
  <1>3. /\ \A w \in wire : \E t \in typed : w.msg = t.msg
        /\ \A r \in queue : \E t \in typed : r.msg = t.msg
    BY DEF MessageInv, OnePlace
  <1>4. Unsent(msgs + 1)
    BY <1>1, <1>2, <1>3 DEF Unsent
  <1>5. \A i \in DOMAIN history : history[i].dir \in {"sent", "recv"}
    <2>1. \A i \in 1 .. Len(history) :
             history[i] \in [msg : Msg, key : Name, dir : {"sent", "recv"}]
      BY ElementOfSeq DEF MessageInv, TypeOK
    <2>2. DOMAIN history = 1 .. Len(history)
      BY DEF MessageInv, TypeOK
    <2> QED BY <2>1, <2>2
  <1>6. \A i \in DOMAIN history : \/ \E t \in typed : history[i].msg = t.msg
                                  \/ \E a \in acked : history[i].msg = a.msg
    BY <1>3, <1>5 DEF MessageInv, RowsOf
  <1>7. Unrecorded(msgs + 1)
    BY <1>1, <1>2, <1>6 DEF Unrecorded
  <1> QED BY <1>1, <1>2, <1>4, <1>7

\* A message typed now has the next number, which has no meaning yet.
LEMMA NewMeaning ==
  ASSUME MessageInv, NEW t, t.msg = msgs + 1, typed' = typed \cup {t}, acked' = acked,
         msgs' = msgs + 1
  PROVE  OneMeaning'
  BY NextIsFresh DEF MessageInv, OneMeaning

\* A step that moves no message.
LEMMA QuietStep ==
  ASSUME MessageInv, UNCHANGED <<calls, inbox, queue, history, msgs, typed, wire, acked, lost>>
  PROVE  OneMeaning' /\ Pending' /\ OnePlace' /\ RowsOf' /\ NoneForgotten'
  <1>1. OneMeaning'
    BY DEF MessageInv, OneMeaning
  <1>2. OnePlace' /\ RowsOf' /\ \A m : Unsent(m)' = Unsent(m) /\ Unrecorded(m)' = Unrecorded(m)
    BY StoresKept
  <1>3. Pending'
    BY <1>2 DEF MessageInv, Pending
  <1>4. NoneForgotten'
    BY <1>2 DEF MessageInv, NoneForgotten
  <1> QED BY <1>1, <1>2, <1>3, <1>4

\* A request that passes the limiter is typed, and waits in memory.
LEMMA RateLimitStep ==
  ASSUME MessageInv, NEW c \in Client, NEW x \in Typed \cup {None}, _rate_limit(c, x)
  PROVE  OneMeaning' /\ Pending' /\ OnePlace' /\ RowsOf' /\ NoneForgotten'
  <1>1. UNCHANGED <<sessions, inbox, repl, disk, now, wire, acked, lost>>
    BY DEF _rate_limit
  <1>2. CASE UNCHANGED <<calls, msgs, typed>>
    BY <1>1, <1>2, QuietStep
  <1> PICK t : t = [msg |-> msgs + 1, name |-> x]
    OBVIOUS
  <1>3. CASE msgs' = msgs + 1 /\ calls' = calls \cup {t} /\ typed' = typed \cup {t}
    <2>1. OneMeaning'
      BY <1>1, <1>3, NewMeaning
    <2>2. OnePlace' /\ RowsOf' /\ \A m : Unsent(m)' = Unsent(m) /\ Unrecorded(m)' = Unrecorded(m)
      BY <1>1, <1>3, StoresKept
    <2>3. Unsent(t.msg) /\ Unrecorded(t.msg)
      BY NextIsFresh
    <2>4. Pending'
      BY <1>1, <1>3, <2>2, <2>3 DEF MessageInv, Pending
    <2>5. NoneForgotten'
      BY <1>1, <1>3, <2>2, <2>3 DEF MessageInv, NoneForgotten
    <2> QED BY <2>1, <2>2, <2>4, <2>5
  <1> QED BY <1>2, <1>3 DEF _rate_limit

\* A received message is acknowledged, and waits in memory.
LEMMA ReceiveStep ==
  ASSUME MessageInv, NEW p \in Peer, Receive(p)
  PROVE  OneMeaning' /\ Pending' /\ OnePlace' /\ RowsOf' /\ NoneForgotten'
  <1> PICK a : a = [msg |-> msgs + 1, from |-> p]
    OBVIOUS
  <1>1. /\ msgs' = msgs + 1 /\ acked' = acked \cup {a} /\ inbox' = Append(inbox, a)
        /\ UNCHANGED <<calls, queue, history, typed, wire, lost>>
    BY DEF Receive
  <1> PICK n : n = Len(inbox) + 1
    OBVIOUS
  <1>2. /\ DOMAIN inbox' = 1 .. n /\ inbox'[n] = a /\ DOMAIN inbox = 1 .. Len(inbox)
        /\ Len(inbox) \in Nat /\ \A i \in 1 .. Len(inbox) : inbox'[i] = inbox[i]
    BY <1>1 DEF MessageInv, TypeOK
  <1>3. /\ n \in DOMAIN inbox' /\ \A i \in DOMAIN inbox : i \in DOMAIN inbox' /\ inbox'[i] = inbox[i]
        /\ \A i \in DOMAIN inbox' : i \in DOMAIN inbox \/ i = n
    BY <1>2
  <1>4. a.msg = msgs + 1 /\ \A b \in acked : b.msg # a.msg
    BY NextIsFresh
  <1>5. OneMeaning'
    BY <1>1, <1>4, NextIsFresh DEF MessageInv, OneMeaning
  <1>6. OnePlace' /\ RowsOf' /\ \A m : Unsent(m)' = Unsent(m) /\ Unrecorded(m)' = Unrecorded(m)
    BY <1>1, StoresKept
  <1>7. Pending'
    <2>1. \A i \in DOMAIN inbox : inbox[i] \in acked /\ inbox[i].msg # a.msg
      BY <1>4 DEF MessageInv, Pending
    <2>2. \A i \in DOMAIN inbox' : inbox'[i] \in acked'
      BY <1>1, <1>3, <2>1, <1>2
    <2>3. \A i \in DOMAIN inbox', j \in DOMAIN inbox' : inbox'[i].msg = inbox'[j].msg => i = j
      BY <1>2, <1>3, <2>1 DEF MessageInv, Pending
    <2>4. \A i \in DOMAIN inbox' : \A k \in DOMAIN history : history[k].msg # inbox'[i].msg
      BY <1>2, <1>3, <1>4, NextIsFresh DEF MessageInv, Pending, Unrecorded
    <2>5. \A r \in calls : r \in typed /\ Unsent(r.msg)' /\ Unrecorded(r.msg)'
      BY <1>6 DEF MessageInv, Pending
    <2> QED BY <1>1, <2>2, <2>3, <2>4, <2>5 DEF Pending, Unrecorded
  <1>8. NoneForgotten'
    <2>1. \A t \in typed : Unsent(t.msg)' \/ ~Unrecorded(t.msg)' \/ t.msg \in lost
      BY <1>6 DEF MessageInv, NoneForgotten
    <2>2. ASSUME NEW b \in acked'
          PROVE  \/ ~Unrecorded(b.msg)' \/ b.msg \in lost
                 \/ \E i \in DOMAIN inbox' : inbox'[i].msg = b.msg
      BY <1>1, <1>2, <1>3, <1>6 DEF MessageInv, NoneForgotten
    <2> QED BY <1>1, <2>1, <2>2 DEF NoneForgotten
  <1> QED BY <1>5, <1>6, <1>7, <1>8

\* The task records it, or the store refuses.
LEMMA TaskStep ==
  ASSUME MessageInv, _on_message_received
  PROVE  OneMeaning' /\ Pending' /\ OnePlace' /\ RowsOf' /\ NoneForgotten'
  <1> PICK h : h = Head(inbox)
    OBVIOUS
  <1>1. /\ inbox # <<>> /\ inbox' = Tail(inbox)
        /\ UNCHANGED <<calls, queue, msgs, typed, wire, acked>>
        /\ \/ save_message(h.msg, Id(h.from), "recv") /\ UNCHANGED lost
           \/ lost' = lost \cup {h.msg} /\ UNCHANGED history
    BY DEF _on_message_received
  <1>2. inbox \in Seq([msg : Msg, from : Peer]) /\ inbox[1] = h /\ 1 \in DOMAIN inbox
        /\ DOMAIN inbox' = 1 .. Len(inbox) - 1 /\ DOMAIN inbox = 1 .. Len(inbox)
        /\ Len(inbox) \in Nat
        /\ \A i \in 1 .. Len(inbox) - 1 : inbox'[i] = inbox[i + 1]
    BY <1>1, HeadTailProperties, EmptySeq DEF MessageInv, TypeOK
  <1>3. /\ \A i \in DOMAIN inbox' : i + 1 \in DOMAIN inbox /\ inbox'[i] = inbox[i + 1] /\ i + 1 # 1
        /\ \A i \in DOMAIN inbox : i # 1 => i - 1 \in DOMAIN inbox' /\ inbox'[i - 1] = inbox[i]
        /\ \A i, j \in DOMAIN inbox' : i + 1 = j + 1 => i = j
    <2>1. ASSUME NEW i \in DOMAIN inbox'
          PROVE  /\ i + 1 \in DOMAIN inbox /\ inbox'[i] = inbox[i + 1] /\ i + 1 # 1
                 /\ \A j \in DOMAIN inbox' : i + 1 = j + 1 => i = j
      BY <1>2, <2>1
    <2>2. ASSUME NEW i \in DOMAIN inbox, i # 1
          PROVE  i - 1 \in DOMAIN inbox' /\ inbox'[i - 1] = inbox[i]
      <3>1. i - 1 \in 1 .. Len(inbox) - 1 /\ (i - 1) + 1 = i
        BY <1>2, <2>2
      <3>2. inbox'[i - 1] = inbox[(i - 1) + 1]
        BY <1>2, <3>1
      <3> QED BY <1>2, <3>1, <3>2
    <2> QED BY <2>1, <2>2
  <1>4. h \in acked /\ Unrecorded(h.msg) /\ h.from \in Peer
    <2>1. 1 \in DOMAIN inbox /\ inbox[1] = h
      BY <1>2
    <2>2. Pending /\ acked \subseteq [msg : Msg, from : Peer]
      BY DEF MessageInv, TypeOK
    <2>3. inbox[1] \in acked /\ Unrecorded(inbox[1].msg)
      BY <2>1, <2>2 DEF Pending
    <2> QED BY <2>1, <2>2, <2>3
  <1>5. OneMeaning'
    BY <1>1 DEF MessageInv, OneMeaning
  <1>6. OnePlace' /\ \A m : Unsent(m)' = Unsent(m)
    BY <1>1 DEF MessageInv, OnePlace, Unsent
  <1>7. /\ RowsOf' /\ (~Unrecorded(h.msg)' \/ h.msg \in lost')
        /\ lost \subseteq lost'
        /\ \A m : m # h.msg => Unrecorded(m)' = Unrecorded(m)
        /\ \A m : ~Unrecorded(m) => ~Unrecorded(m)'
    <2>1. CASE UNCHANGED history /\ lost' = lost \cup {h.msg}
      <3>1. RowsOf'
        BY <1>1, <2>1 DEF MessageInv, RowsOf
      <3> QED BY <2>1, <3>1 DEF Unrecorded
    <2>2. CASE save_message(h.msg, Id(h.from), "recv") /\ UNCHANGED lost
      <3>1. TypeOK
        BY DEF MessageInv
      <3>2. PICK n \in DOMAIN history' :
              /\ n \notin DOMAIN history
              /\ history'[n] = [msg |-> h.msg, key |-> Id(h.from), dir |-> "recv"]
              /\ \A i \in DOMAIN history : i \in DOMAIN history' /\ history'[i] = history[i]
              /\ \A i \in DOMAIN history' : i \in DOMAIN history \/ i = n
        BY <2>2, <3>1, Recording
      <3>3. \A i \in DOMAIN history : history[i].msg # h.msg
        BY <1>4 DEF Unrecorded
      <3>4. RowsOf'
        <4> SUFFICES ASSUME NEW i \in DOMAIN history'
            PROVE  LET g == history'[i] IN
                   /\ \A j \in DOMAIN history' : history'[j].msg = g.msg => j = i
                   /\ g.dir = "sent" =>
                        \/ \E r \in queue' : r.msg = g.msg /\ r.key = normalize_peer_id(g.key)
                        \/ \E w \in wire' : w.msg = g.msg /\ normalize_peer_id(g.key) = Id(w.to)
                   /\ g.dir = "recv" => \E a \in acked' : a.msg = g.msg /\ g.key = Id(a.from)
          BY DEF RowsOf
        <4>1. CASE i \in DOMAIN history
          BY <1>1, <3>2, <3>3, <4>1 DEF MessageInv, RowsOf
        <4>2. CASE i = n
          BY <1>1, <1>4, <3>2, <3>3, <4>2
        <4> QED BY <3>2, <4>1, <4>2
      <3> QED BY <2>2, <3>2, <3>4 DEF Unrecorded
    <2> QED BY <1>1, <2>1, <2>2
  <1>8. Pending'
    <2>1. \A r \in calls : r \in typed /\ Unsent(r.msg) /\ Unrecorded(r.msg) /\ r.msg # h.msg
      BY <1>4 DEF MessageInv, Pending, OneMeaning
    <2>2. \A i \in DOMAIN inbox : i # 1 => inbox[i].msg # h.msg
      BY <1>2 DEF MessageInv, Pending
    <2>3. \A i \in DOMAIN inbox' : inbox'[i] \in acked /\ inbox'[i].msg # h.msg
      BY <1>3, <2>2 DEF MessageInv, Pending
    <2>4. \A i \in DOMAIN inbox', j \in DOMAIN inbox' : inbox'[i].msg = inbox'[j].msg => i = j
      BY <1>3 DEF MessageInv, Pending
    <2>5. ASSUME NEW i \in DOMAIN inbox, i # 1
          PROVE  \A k \in DOMAIN history' : history'[k].msg # inbox[i].msg
      <3> PICK m : m = inbox[i].msg
        OBVIOUS
      <3>1. m # h.msg /\ Unrecorded(m)
        BY <2>2, <2>5 DEF MessageInv, Pending
      <3> QED BY <1>7, <3>1 DEF Unrecorded
    <2>6. \A i \in DOMAIN inbox' : \A k \in DOMAIN history' : history'[k].msg # inbox'[i].msg
      BY <1>3, <2>5
    <2> QED BY <1>1, <1>6, <1>7, <2>1, <2>3, <2>4, <2>6 DEF Pending, Unrecorded
  <1>9. NoneForgotten'
    <2>1. \A t \in typed : Unsent(t.msg)' \/ ~Unrecorded(t.msg)' \/ t.msg \in lost'
      BY <1>6, <1>7 DEF MessageInv, NoneForgotten
    <2>2. ASSUME NEW b \in acked
          PROVE  \/ ~Unrecorded(b.msg)' \/ b.msg \in lost'
                 \/ \E i \in DOMAIN inbox' : inbox'[i].msg = b.msg
      <3>1. CASE b.msg = h.msg
        BY <1>7, <3>1
      <3>2. CASE b.msg # h.msg
        BY <1>2, <1>3, <1>7, <3>2 DEF MessageInv, NoneForgotten
      <3> QED BY <3>1, <3>2
    <2> QED BY <1>1, <2>1, <2>2 DEF NoneForgotten
  <1> QED BY <1>5, <1>6, <1>7, <1>8, <1>9

\* A queued message goes out to the peer it waited for.
LEMMA FlushStep ==
  ASSUME MessageInv, NEW p \in Peer, flush_peer(p)
  PROVE  OneMeaning' /\ Pending' /\ OnePlace' /\ RowsOf' /\ NoneForgotten'
  <1> PICK r \in Waiting(Id(p)) : /\ queue' = queue \ {r}
                                  /\ wire' = wire \cup {[msg |-> r.msg, to |-> p]}
    BY DEF flush_peer
  <1> PICK w : w = [msg |-> r.msg, to |-> p]
    OBVIOUS
  <1>1. /\ queue' = queue \ {r} /\ wire' = wire \cup {w} /\ w.msg = r.msg /\ w.to = p
        /\ r \in queue /\ r.key = Id(p)
        /\ UNCHANGED <<calls, inbox, history, msgs, typed, acked, lost>>
    BY DEF flush_peer, Waiting
  <1>2. PICK t \in typed : t.msg = r.msg /\ r.key = normalize_peer_id(t.name)
    BY <1>1 DEF MessageInv, OnePlace
  <1>3. p \in t.name.of
    <2>1. t.name \in Name
      BY TypedAssumption DEF MessageInv, TypeOK
    <2>2. normalize_peer_id(t.name) = Id(p)
      BY <1>1, <1>2
    <2>3. normalize_peer_id(t.name).of = t.name.of
      BY <2>1, Normal
    <2>4. Id(p).of = {p}
      BY Ids
    <2> QED BY <2>2, <2>3, <2>4
  <1>4. \A m : Unsent(m)' <=> Unsent(m)
    BY <1>1 DEF Unsent
  <1>5. OneMeaning'
    BY <1>1 DEF MessageInv, OneMeaning
  <1>6. OnePlace'
    <2>1. \A v \in wire : v.msg # r.msg
      BY <1>1 DEF MessageInv, OnePlace
    <2>2. \A s \in queue' : s \in queue /\ s.msg # r.msg
      BY <1>1 DEF MessageInv, OnePlace
    <2>3. ASSUME NEW s \in queue'
          PROVE  /\ \E u \in typed' : u.msg = s.msg /\ s.key = normalize_peer_id(u.name)
                 /\ \A q \in queue' : q.msg = s.msg => q = s
                 /\ \A v \in wire' : v.msg # s.msg
      BY <1>1, <2>2 DEF MessageInv, OnePlace
    <2>4. ASSUME NEW v \in wire'
          PROVE  /\ \E u \in typed' : u.msg = v.msg /\ v.to \in u.name.of
                 /\ \A x \in wire' : x.msg = v.msg => x = v
      BY <1>1, <1>2, <1>3, <2>1 DEF MessageInv, OnePlace
    <2> QED BY <2>3, <2>4 DEF OnePlace
  <1>7. RowsOf'
    <2> SUFFICES ASSUME NEW i \in DOMAIN history
                 PROVE  LET h == history[i] IN
                        /\ \A j \in DOMAIN history : history[j].msg = h.msg => j = i
                        /\ h.dir = "sent" =>
                             \/ \E q \in queue' : q.msg = h.msg /\ q.key = normalize_peer_id(h.key)
                             \/ \E v \in wire' : v.msg = h.msg /\ normalize_peer_id(h.key) = Id(v.to)
                        /\ h.dir = "recv" => \E a \in acked : a.msg = h.msg /\ h.key = Id(a.from)
      BY <1>1 DEF RowsOf
    <2> QED BY <1>1 DEF MessageInv, RowsOf
  <1>8. Pending'
    BY <1>1, <1>4 DEF MessageInv, Pending, Unrecorded
  <1>9. NoneForgotten'
    BY <1>1, <1>4 DEF MessageInv, NoneForgotten, Unrecorded
  <1> QED BY <1>5, <1>6, <1>7, <1>8, <1>9

\* With the process, what waits in memory is lost.
LEMMA EndStep ==
  ASSUME MessageInv, End
  PROVE  OneMeaning' /\ Pending' /\ OnePlace' /\ RowsOf' /\ NoneForgotten'
  <1>1. /\ calls' = {} /\ inbox' = <<>> /\ lost \subseteq lost'
        /\ \A i \in DOMAIN inbox : inbox[i].msg \in lost'
        /\ UNCHANGED <<queue, history, msgs, typed, wire, acked>>
    BY DEF End, Gone
  <1>2. OneMeaning'
    BY <1>1 DEF MessageInv, OneMeaning
  <1>3. OnePlace' /\ RowsOf' /\ \A m : Unsent(m)' = Unsent(m) /\ Unrecorded(m)' = Unrecorded(m)
    BY <1>1, StoresKept
  <1>4. Pending'
    BY <1>1 DEF Pending
  <1>5. NoneForgotten'
    BY <1>1, <1>3 DEF MessageInv, NoneForgotten
  <1> QED BY <1>2, <1>3, <1>4, <1>5

\* POST /send.
LEMMA ApiSendStep ==
  ASSUME MessageInv, NEW r \in calls, send_message(r)
  PROVE  OneMeaning' /\ Pending' /\ OnePlace' /\ RowsOf' /\ NoneForgotten'
  <1>1. r \in typed /\ Unsent(r.msg) /\ Unrecorded(r.msg) /\ r.name \in Name
    BY TypedAssumption DEF MessageInv, Pending, TypeOK
  <1>2. UNCHANGED <<msgs, typed, acked>>
    BY DEF send_message
  <1>3. OneMeaning'
    BY <1>2 DEF MessageInv, OneMeaning
  <1>4. \A s \in calls \ {r} : s.msg # r.msg
    BY <1>1 DEF MessageInv, Pending, OneMeaning
  <1>5. normalize_peer_id(ApiKey(r.name)) = normalize_peer_id(r.name)
    BY <1>1, Normal DEF ApiKey
  <1>6. CASE /\ send_or_queue(r.msg, r.name) /\ save_message(r.msg, ApiKey(r.name), "sent")
             /\ calls' = calls \ {r} /\ UNCHANGED <<inbox, lost>>
    BY <1>1, <1>2, <1>3, <1>4, <1>5, <1>6, SentStep
  <1>7. CASE /\ send_or_queue(r.msg, r.name) /\ lost' = lost \cup {r.msg}
             /\ calls' = calls \ {r} /\ UNCHANGED <<inbox, history>>
    BY <1>1, <1>2, <1>3, <1>4, <1>7, SentStep
  <1>8. CASE send_or_queue(r.msg, r.name) /\ Gone({r.msg}) /\ UNCHANGED history
    <2>1. /\ calls' = {} /\ inbox' = <<>> /\ lost \subseteq lost' /\ r.msg \in lost'
          /\ \A i \in DOMAIN inbox : inbox[i].msg \in lost'
      BY <1>8 DEF Gone
    <2> QED BY <1>1, <1>2, <1>3, <1>8, <2>1, SentStep
  <1>9. CASE calls' = calls \ {r} /\ UNCHANGED <<inbox, lost, disk, wire>>
    <2>1. OnePlace' /\ RowsOf' /\ \A m : Unsent(m)' = Unsent(m) /\ Unrecorded(m)' = Unrecorded(m)
      BY <1>2, <1>9, StoresKept
    <2>2. Pending'
      BY <1>2, <1>9, <2>1 DEF MessageInv, Pending
    <2>3. NoneForgotten'
      BY <1>2, <1>9, <2>1 DEF MessageInv, NoneForgotten
    <2> QED BY <1>3, <2>1, <2>2, <2>3
  <1> QED BY <1>6, <1>7, <1>8, <1>9 DEF send_message

\* The command send.
LEMMA CmdSendStep ==
  ASSUME MessageInv, NEW x \in Typed, _cmd_send(x)
  PROVE  OneMeaning' /\ Pending' /\ OnePlace' /\ RowsOf' /\ NoneForgotten'
  <1> PICK m : m = msgs + 1
    OBVIOUS
  <1> PICK t : t = [msg |-> m, name |-> x]
    OBVIOUS
  <1>1. /\ typed' = typed \cup {t} /\ t.msg = m /\ t.name = x /\ acked' = acked /\ msgs' = m
        /\ send_or_queue(m, Resolved(x))
    BY DEF _cmd_send
  <1>2. OneMeaning'
    BY <1>1, NewMeaning
  <1>3. Unsent(m) /\ Unrecorded(m) /\ \A r \in calls : r.msg # m
    BY NextIsFresh DEF MessageInv, Pending
  <1>4. /\ Resolved(x) \in Name
        /\ Resolved(x) = t.name
             \/ (Target(Resolved(x)) # {} /\ \A p \in Target(Resolved(x)) : p \in t.name.of)
    BY <1>1, Resolves DEF MessageInv, TypeOK
  <1>5. CASE save_message(m, CliKey(x), "sent") /\ UNCHANGED <<calls, inbox, lost>>
    BY <1>1, <1>2, <1>3, <1>4, <1>5, SentStep DEF CliKey
  <1>6. CASE lost' = lost \cup {m} /\ UNCHANGED <<calls, inbox, history>>
    BY <1>1, <1>2, <1>3, <1>4, <1>6, SentStep
  <1>7. CASE Gone({m}) /\ UNCHANGED history
    <2>1. /\ calls' = {} /\ inbox' = <<>> /\ lost \subseteq lost' /\ m \in lost'
          /\ \A i \in DOMAIN inbox : inbox[i].msg \in lost'
      BY <1>7 DEF Gone
    <2> QED BY <1>1, <1>2, <1>3, <1>4, <1>7, <2>1, SentStep
  <1> QED BY <1>5, <1>6, <1>7 DEF _cmd_send

\* The inductive invariant of the messages and their records.
THEOREM Invariance == Spec => []MessageInv
  <1>1. Init => MessageInv
    <2> SUFFICES ASSUME Init PROVE MessageInv
      OBVIOUS
    <2>1. /\ calls = {} /\ inbox = <<>> /\ queue = {} /\ history = <<>> /\ typed = {}
          /\ wire = {} /\ acked = {} /\ TypeOK
      BY TypeInit DEF Init
    <2> QED BY <2>1 DEF MessageInv, OneMeaning, Pending, OnePlace, RowsOf, NoneForgotten
  <1>2. MessageInv /\ [Next]_vars => MessageInv'
    <2> SUFFICES ASSUME MessageInv, [Next]_vars PROVE MessageInv'
      OBVIOUS
    <2>1. TypeOK'
      BY TypeStep DEF MessageInv
    <2>2. CASE Start \/ Tick \/ Unlock \/ Line \/ (\E p \in Peer : Connect(p)) \/ UNCHANGED vars
      <3>1. UNCHANGED <<calls, inbox, queue, history, msgs, typed, wire, acked, lost>>
        BY <2>2 DEF Start, Tick, Unlock, Line, Connect, vars
      <3> QED BY <2>1, <3>1, QuietStep DEF MessageInv
    <2>3. CASE \/ End \/ _on_message_received
               \/ \E p \in Peer : flush_peer(p) \/ Receive(p)
               \/ \E c \in Client, x \in Typed \cup {None} : _rate_limit(c, x)
               \/ \E r \in calls : send_message(r)
               \/ \E x \in Typed : _cmd_send(x)
      <3>1. OneMeaning' /\ Pending' /\ OnePlace' /\ RowsOf' /\ NoneForgotten'
        BY <2>3, EndStep, TaskStep, FlushStep, ReceiveStep, RateLimitStep, ApiSendStep,
           CmdSendStep
      <3> QED BY <2>1, <3>1 DEF MessageInv
    <2> QED BY <2>2, <2>3 DEF Next
  <1> QED BY <1>1, <1>2, PTL DEF Spec

\* A message goes to one peer, one its typed name stands for, and one typed with
\* a full id waits where the flush of that peer looks for it.
THEOREM RightPeerThm == Spec => []RightPeer
  <1>1. MessageInv => RightPeer
    <2> SUFFICES ASSUME MessageInv PROVE RightPeer
      OBVIOUS
    <2>1. \A v, w \in wire : v.msg = w.msg => v = w
      BY DEF MessageInv, OnePlace
    <2>2. \A t \in typed, w \in wire : w.msg = t.msg => w.to \in t.name.of
      BY DEF MessageInv, OnePlace, OneMeaning
    <2>3. ASSUME NEW t \in typed, NEW r \in queue, NEW p \in Peer, r.msg = t.msg,
                 t.name \in {Id(p), Hex(p)}
          PROVE  r.key = Id(p)
      <3>1. r.key = normalize_peer_id(t.name)
        BY <2>3 DEF MessageInv, OnePlace, OneMeaning
      <3> QED BY <2>3, <3>1, Ids
    <2> QED BY <2>1, <2>2, <2>3 DEF RightPeer
  <1> QED BY <1>1, Invariance, PTL

\* What was sent, queued or received stands in the history once, under a spelling
\* of its peer, or was lost on the way into it; and nothing else is in it.
THEOREM RecordedThm == Spec => []Recorded
  <1>1. MessageInv => Recorded
    <2> SUFFICES ASSUME MessageInv PROVE Recorded
      OBVIOUS
    <2>1. ASSUME NEW m \in Msg PROVE Cardinality(Rows(m)) <= 1
      <3>1. \A i, j \in Rows(m) : i = j
        BY DEF Rows, MessageInv, RowsOf
      <3>2. CASE Rows(m) = {}
        BY <3>2, FS_EmptySet
      <3>3. CASE Rows(m) # {}
        <4>1. PICK i : Rows(m) = {i}
          BY <3>1, <3>3
        <4>2. \A x : Cardinality({x}) = 1
          BY FS_Singleton, Zenon
        <4>3. Cardinality(Rows(m)) = 1
          BY <4>1, <4>2
        <4> QED BY <4>3
      <3> QED BY <3>2, <3>3
    <2>2. ASSUME NEW t \in typed, Given(t.msg) # {} \/ Held(t.msg) # {}
          PROVE  Rows(t.msg) # {} \/ t.msg \in lost
      <3>1. ~Unsent(t.msg)
        BY <2>2 DEF Given, Held, Unsent
      <3>2. ~Unrecorded(t.msg) => Rows(t.msg) # {}
        BY DEF Unrecorded, Rows
      <3> QED BY <3>1, <3>2 DEF MessageInv, NoneForgotten
    <2>3. ASSUME NEW a \in acked
          PROVE  \/ \E i \in Rows(a.msg) : history[i].key = Id(a.from)
                 \/ a.msg \in lost \/ \E i \in DOMAIN inbox : inbox[i].msg = a.msg
      <3>1. CASE ~Unrecorded(a.msg)
        <4>1. PICK i \in DOMAIN history : history[i].msg = a.msg
          BY <3>1 DEF Unrecorded
        <4>2. history[i].dir \in {"sent", "recv"}
          <5>1. history \in Seq([msg : Msg, key : Name, dir : {"sent", "recv"}])
            BY DEF MessageInv, TypeOK
          <5>2. i \in 1 .. Len(history)
            BY <5>1
          <5>3. history[i] \in [msg : Msg, key : Name, dir : {"sent", "recv"}]
            BY <5>1, <5>2, ElementOfSeq
          <5> QED BY <5>3
        <4>3. history[i].dir # "sent"
          BY <4>1 DEF MessageInv, RowsOf, OnePlace, OneMeaning
        <4>4. history[i].key = Id(a.from)
          BY <4>1, <4>2, <4>3 DEF MessageInv, RowsOf, OneMeaning
        <4> QED BY <4>1, <4>4 DEF Rows
      <3>2. CASE Unrecorded(a.msg)
        BY <3>2 DEF MessageInv, NoneForgotten
      <3> QED BY <3>1, <3>2
    <2>4. ASSUME NEW i \in DOMAIN history, history[i].dir = "sent"
          PROVE  LET k == normalize_peer_id(history[i].key) IN
                 k \in Held(history[i].msg) \/ \E p \in Given(history[i].msg) : k = Id(p)
      BY <2>4 DEF MessageInv, RowsOf, Held, Given
    <2> QED BY <2>1, <2>2, <2>3, <2>4 DEF Recorded
  <1> QED BY <1>1, Invariance, PTL

-----------------------------------------------------------------------------
(* The rate limiter                                                          *)

\* The bucket of a client is the end of its record, all that is before is old,
\* and the record is in the order of time.
Dropped(c) == Len(log[c]) - Len(bucket[c])
BucketOf(c) ==
  /\ Len(bucket[c]) <= Len(log[c])
  /\ \A i \in 1 .. Len(bucket[c]) : bucket[c][i] = log[c][Dropped(c) + i]
  /\ \A i \in 1 .. Dropped(c) : log[c][i] + Window < now
  /\ \A i \in 1 .. Len(log[c]) :
       log[c][i] <= now /\ \A j \in i .. Len(log[c]) : log[c][i] <= log[c][j]
LimiterInv == \A c \in Client : BucketOf(c)

WindowInv == TypeOK /\ LimiterInv

\* Of a record l whose end b is kept and whose first m kept entries are old, all
\* the entries before are old, and those behind, in the order of time, are not.
LEMMA OldAndRecent ==
  ASSUME NEW b, NEW l, NEW nb \in Nat, NEW nl \in Nat, nb <= nl, NEW t \in Nat, NEW w \in Nat,
         \A i \in 1 .. nl : l[i] \in Nat,
         \A i \in 1 .. nb : b[i] = l[(nl - nb) + i],
         \A i \in 1 .. nl - nb : l[i] + w < t,
         \A i \in 1 .. nl : \A j \in i .. nl : l[i] <= l[j],
         NEW m \in 0 .. nb, \A i \in 1 .. m : b[i] + w < t,
         m < nb => ~(b[m + 1] + w < t)
  PROVE  /\ \A i \in 1 .. (nl - nb) + m : l[i] + w < t
         /\ \A i \in (nl - nb) + m + 1 .. nl : l[i] + w >= t
  <1> PICK k \in Nat : k = nl - nb
    OBVIOUS
  <1>1. ASSUME NEW i \in 1 .. k + m PROVE l[i] + w < t
    <2>1. CASE i <= k
      BY <2>1
    <2>2. CASE i > k
      <3>1. i - k \in 1 .. m /\ i - k \in 1 .. nb /\ k + (i - k) = i
        BY <2>2
      <3>2. b[i - k] = l[i] /\ b[i - k] + w < t
        BY <3>1
      <3> QED BY <3>2
    <2> QED BY <2>1, <2>2
  <1>2. ASSUME NEW i \in k + m + 1 .. nl PROVE l[i] + w >= t
    <2> PICK j : j = k + m + 1
      OBVIOUS
    <2>1. /\ m < nb /\ m + 1 \in 1 .. nb /\ k + (m + 1) = j
          /\ j \in 1 .. nl /\ i \in j .. nl /\ i \in 1 .. nl
      OBVIOUS
    <2>2. b[m + 1] = l[j] /\ ~(b[m + 1] + w < t)
      BY <2>1
    <2>3. l[j] <= l[i] /\ l[i] \in Nat /\ l[j] \in Nat
      BY <2>1
    <2> QED BY <2>2, <2>3
  <1> QED BY <1>1, <1>2

\* b, of nb entries, is the end of l, of nl, and what is before is old; e is what is
\* left of b without its first m; b1 is b with one entry more.
EndOf(b, nb, l, nl, t, w) ==
  /\ nb <= nl
  /\ \A i \in 1 .. nl : l[i] \in Nat
  /\ \A i \in 1 .. nb : b[i] = l[(nl - nb) + i]
  /\ \A i \in 1 .. nl - nb : l[i] + w < t
InOrder(l, nl, t) == \A i \in 1 .. nl : l[i] <= t /\ \A j \in i .. nl : l[i] <= l[j]
InWindow(l, nl, t, w) == {i \in 1 .. nl : l[i] + w >= t}
SplitAt(l, n, nl, t, w) == (\A i \in 1 .. n : l[i] + w < t) /\ (\A i \in n + 1 .. nl : l[i] + w >= t)
Left(e, b, nb, m) == \A i \in 1 .. nb - m : e[i] = b[m + i]
Longer(b1, b, nb, t) == b1[nb + 1] = t /\ \A i \in 1 .. nb : b1[i] = b[i]

\* Then the end that is left, e, has as many entries as the record has in the
\* window, and is again its end.
LEMMA WindowOf ==
  ASSUME NEW b, NEW l, NEW e, NEW nb \in Nat, NEW nl \in Nat, NEW t \in Nat, NEW w \in Nat,
         EndOf(b, nb, l, nl, t, w), NEW m \in 0 .. nb, Left(e, b, nb, m),
         SplitAt(l, (nl - nb) + m, nl, t, w)
  PROVE  /\ nb - m \in Nat /\ EndOf(e, nb - m, l, nl, t, w)
         /\ Cardinality(InWindow(l, nl, t, w)) = nb - m
  <1>a. nb <= nl /\ \A i \in 1 .. nl : l[i] \in Nat
    BY DEF EndOf
  <1>b. \A i \in 1 .. nb : b[i] = l[(nl - nb) + i]
    BY DEF EndOf
  <1>c. \A i \in 1 .. nb - m : e[i] = b[m + i]
    BY DEF Left
  <1>0. PICK n \in 0 .. nl : n = (nl - nb) + m
    BY <1>a
  <1>1. nb - m = nl - n /\ nb - m \in Nat /\ nb - m <= nl /\ nl - (nb - m) = n
    BY <1>0
  <1>2. ASSUME NEW i \in 1 .. nb - m PROVE e[i] = l[n + i]
    <2>1. m + i \in 1 .. nb /\ (nl - nb) + (m + i) = n + i
      BY <1>0
    <2>2. e[i] = b[m + i]
      BY <1>c
    <2>3. b[m + i] = l[(nl - nb) + (m + i)]
      BY <1>b, <2>1
    <2> QED BY <2>1, <2>2, <2>3
  <1>3. (\A i \in 1 .. n : l[i] + w < t) /\ (\A i \in n + 1 .. nl : l[i] + w >= t)
    BY <1>0 DEF SplitAt
  <1>4. {i \in 1 .. nl : l[i] + w >= t} = n + 1 .. nl
    <2>1. ASSUME NEW i \in 1 .. nl PROVE l[i] + w >= t <=> i \in n + 1 .. nl
      <3>1. l[i] \in Nat
        BY <1>a
      <3>2. CASE i <= n
        <4>1. l[i] + w < t
          BY <1>3, <3>2
        <4> QED BY <3>1, <3>2, <4>1
      <3>3. CASE i > n
        <4>1. i \in n + 1 .. nl
          BY <3>3
        <4> QED BY <1>3, <4>1
      <3> QED BY <3>2, <3>3
    <2>2. \A i \in n + 1 .. nl : i \in 1 .. nl
      BY <1>0
    <2> QED BY <2>1, <2>2
  <1>5. Cardinality(n + 1 .. nl) = nl - n
    <2>1. n + 1 \in Int /\ nl \in Int
      BY <1>0
    <2>2. Cardinality(n + 1 .. nl) = IF n + 1 > nl THEN 0 ELSE nl - (n + 1) + 1
      BY <2>1, FS_Interval
    <2> HIDE <2>2
    <2>3. (IF n + 1 > nl THEN 0 ELSE nl - (n + 1) + 1) = nl - n
      BY <1>0
    <2> QED BY <2>2, <2>3
  <1>6. Cardinality(InWindow(l, nl, t, w)) = nb - m
    BY <1>1, <1>4, <1>5 DEF InWindow
  <1> QED BY <1>1, <1>2, <1>3, <1>6, <1>a DEF EndOf

\* Both get the same entry behind, the newest.
LEMMA BothAppended ==
  ASSUME NEW b, NEW l, NEW nb \in Nat, NEW nl \in Nat, NEW t \in Nat, NEW w \in Nat,
         EndOf(b, nb, l, nl, t, w), InOrder(l, nl, t),
         NEW b1, NEW l1, Longer(b1, b, nb, t), Longer(l1, l, nl, t)
  PROVE  EndOf(b1, nb + 1, l1, nl + 1, t, w) /\ InOrder(l1, nl + 1, t)
  <1>a. /\ nb <= nl /\ \A i \in 1 .. nl : l[i] \in Nat
        /\ \A i \in 1 .. nb : b[i] = l[(nl - nb) + i]
        /\ \A i \in 1 .. nl - nb : l[i] + w < t
    BY DEF EndOf
  <1>b. \A i \in 1 .. nl : l[i] <= t /\ \A j \in i .. nl : l[i] <= l[j]
    BY DEF InOrder
  <1>c. /\ b1[nb + 1] = t /\ \A i \in 1 .. nb : b1[i] = b[i]
        /\ l1[nl + 1] = t /\ \A i \in 1 .. nl : l1[i] = l[i]
    BY DEF Longer
  <1>d. PICK k \in Nat : k = nl - nb
    BY <1>a
  <1>1. ASSUME NEW i \in 1 .. nb + 1 PROVE b1[i] = l1[k + i]
    <2>1. CASE i = nb + 1
      <3>1. k + i = nl + 1
        BY <2>1, <1>d
      <3> QED BY <2>1, <3>1, <1>c
    <2>2. CASE i # nb + 1
      <3>1. i \in 1 .. nb /\ k + i \in 1 .. nl
        BY <2>2, <1>a, <1>d
      <3>2. b1[i] = b[i] /\ l1[k + i] = l[k + i]
        BY <1>c, <3>1
      <3>3. b[i] = l[k + i]
        BY <1>a, <1>d, <3>1
      <3> QED BY <3>2, <3>3
    <2> QED BY <2>1, <2>2
  <1>2. \A i \in 1 .. k : l1[i] + w < t
    <2>1. \A i \in 1 .. k : i \in 1 .. nl
      BY <1>a, <1>d
    <2> QED BY <1>a, <1>c, <1>d, <2>1
  <1>3. ASSUME NEW i \in 1 .. nl + 1 PROVE l1[i] <= t /\ \A j \in i .. nl + 1 : l1[i] <= l1[j]
    <2>1. CASE i = nl + 1
      <3>1. \A j \in i .. nl + 1 : j = nl + 1
        BY <2>1
      <3> QED BY <2>1, <3>1, <1>c
    <2>2. CASE i # nl + 1
      <3>1. i \in 1 .. nl
        BY <2>2
      <3>2. ASSUME NEW j \in i .. nl + 1 PROVE l1[i] <= l1[j]
        <4>1. CASE j = nl + 1
          BY <3>1, <4>1, <1>b, <1>c
        <4>2. CASE j # nl + 1
          <5>1. j \in i .. nl /\ j \in 1 .. nl
            BY <3>1, <4>2
          <5>2. l1[i] = l[i] /\ l1[j] = l[j]
            BY <1>c, <3>1, <5>1
          <5>3. l[i] <= l[j]
            BY <1>b, <3>1, <5>1
          <5> QED BY <5>2, <5>3
        <4> QED BY <4>1, <4>2
      <3> QED BY <3>1, <3>2, <1>b, <1>c
    <2> QED BY <2>1, <2>2
  <1>4. \A i \in 1 .. nl + 1 : l1[i] \in Nat
    <2> SUFFICES ASSUME NEW i \in 1 .. nl + 1 PROVE l1[i] \in Nat
      OBVIOUS
    <2>1. i = nl + 1 \/ i \in 1 .. nl
      OBVIOUS
    <2> QED BY <2>1, <1>a, <1>c
  <1>5. (nl + 1) - (nb + 1) = k /\ nb + 1 <= nl + 1
    BY <1>a, <1>d
  <1> QED BY <1>1, <1>2, <1>3, <1>4, <1>5 DEF EndOf, InOrder

\* What the invariant says of a client.
LEMMA BucketFacts ==
  ASSUME WindowInv, NEW c \in Client
  PROVE  /\ bucket[c] \in Seq(Time) /\ log[c] \in Seq(Time)
         /\ Len(bucket[c]) \in Nat /\ Len(log[c]) \in Nat /\ Len(bucket[c]) <= Len(log[c])
         /\ DOMAIN log[c] = 1 .. Len(log[c])
         /\ \A i \in 1 .. Len(log[c]) : log[c][i] \in Nat
         /\ \A i \in 1 .. Len(bucket[c]) : bucket[c][i] = log[c][(Len(log[c]) - Len(bucket[c])) + i]
         /\ \A i \in 1 .. Len(log[c]) - Len(bucket[c]) : log[c][i] + Window < now
         /\ \A i \in 1 .. Len(log[c]) :
              log[c][i] <= now /\ \A j \in i .. Len(log[c]) : log[c][i] <= log[c][j]
  <1>1. bucket[c] \in Seq(Time) /\ log[c] \in Seq(Time)
    BY DEF WindowInv, TypeOK
  <1>2. Len(bucket[c]) \in Nat /\ Len(log[c]) \in Nat /\ DOMAIN log[c] = 1 .. Len(log[c])
    BY <1>1
  <1>3. \A i \in 1 .. Len(log[c]) : log[c][i] \in Nat
    BY <1>1, ElementOfSeq, Bounds
  <1>4. BucketOf(c)
    BY DEF WindowInv, LimiterInv
  <1> QED BY <1>1, <1>2, <1>3, <1>4 DEF BucketOf, Dropped

\* The timestamps of the record that are in the window are those Evict leaves.
LEMMA EvictedIsRecent ==
  ASSUME WindowInv, NEW c \in Client
  PROVE  /\ Evict(bucket[c]) \in Seq(Time) /\ Len(Evict(bucket[c])) \in Nat
         /\ Len(Evict(bucket[c])) <= Len(log[c]) /\ Recent(c) = Len(Evict(bucket[c]))
         /\ \A i \in 1 .. Len(Evict(bucket[c])) :
              Evict(bucket[c])[i] = log[c][(Len(log[c]) - Len(Evict(bucket[c]))) + i]
         /\ \A i \in 1 .. Len(log[c]) - Len(Evict(bucket[c])) : log[c][i] + Window < now
  <1>a. PICK b : b = bucket[c]
    OBVIOUS
  <1>b. PICK l : l = log[c]
    OBVIOUS
  <1>c. PICK nb \in Nat : nb = Len(b)
    BY <1>a, BucketFacts
  <1>d. PICK nl \in Nat : nl = Len(l)
    BY <1>b, BucketFacts
  <1>e. PICK e : e = Evict(b)
    OBVIOUS
  <1>1. /\ b \in Seq(Time) /\ now \in Time /\ now \in Nat /\ Window \in Nat
        /\ DOMAIN l = 1 .. nl
    BY <1>a, <1>b, <1>d, BucketFacts, Bounds DEF WindowInv, TypeOK
  <1>2. /\ nb <= nl /\ \A i \in 1 .. nl : l[i] \in Nat
        /\ \A i \in 1 .. nb : b[i] = l[(nl - nb) + i]
        /\ \A i \in 1 .. nl - nb : l[i] + Window < now
        /\ \A i \in 1 .. nl : \A j \in i .. nl : l[i] <= l[j]
    BY <1>a, <1>b, <1>c, <1>d, BucketFacts
  <1>3. PICK m \in 0 .. nb :
          /\ e = SubSeq(b, m + 1, nb)
          /\ \A i \in 1 .. m : b[i] + Window < now
          /\ m < nb => ~(b[m + 1] + Window < now)
    BY <1>1, <1>c, <1>e, Evicted
  <1>4. e \in Seq(Time)
    BY <1>1, <1>e, EvictType
  <1>5. Len(e) = nb - m /\ \A i \in 1 .. nb - m : e[i] = b[m + i]
    BY <1>1, <1>3, <1>c
  <1>6. /\ \A i \in 1 .. m : b[i] + Window < now
        /\ m < nb => ~(b[m + 1] + Window < now)
    BY <1>3
  <1>n. now \in Nat /\ Window \in Nat
    BY <1>1
  <1>k. Left(e, b, nb, m)
    BY <1>5 DEF Left
  <1>7. /\ \A i \in 1 .. (nl - nb) + m : l[i] + Window < now
        /\ \A i \in (nl - nb) + m + 1 .. nl : l[i] + Window >= now
    BY <1>n, <1>2, <1>6, OldAndRecent
  <1>s. SplitAt(l, (nl - nb) + m, nl, now, Window)
    BY <1>7 DEF SplitAt
  <1>8. EndOf(b, nb, l, nl, now, Window)
    BY <1>2 DEF EndOf
  <1>9. /\ nb - m \in Nat /\ EndOf(e, nb - m, l, nl, now, Window)
        /\ Cardinality(InWindow(l, nl, now, Window)) = nb - m
    BY <1>n, <1>k, <1>s, <1>8, WindowOf
  <1>10. Recent(c) = nb - m
    BY <1>1, <1>9, <1>b DEF Recent, InWindow
  <1>11. /\ nb - m <= nl /\ \A i \in 1 .. nb - m : e[i] = l[(nl - (nb - m)) + i]
         /\ \A i \in 1 .. nl - (nb - m) : l[i] + Window < now
    BY <1>9 DEF EndOf
  <1> QED BY <1>4, <1>5, <1>9, <1>10, <1>11, <1>a, <1>b, <1>d, <1>e

\* An accepted request is the newest of the record and of the bucket.
LEMMA AcceptStep ==
  ASSUME WindowInv, now' = now, NEW c \in Client,
         bucket'[c] = Append(Evict(bucket[c]), now), log'[c] = Append(log[c], now)
  PROVE  BucketOf(c)'
  <1>a. PICK e : e = Evict(bucket[c])
    OBVIOUS
  <1>b. PICK l : l = log[c]
    OBVIOUS
  <1>1. /\ e \in Seq(Time) /\ l \in Seq(Time) /\ now \in Time /\ now \in Nat /\ Window \in Nat
        /\ Len(e) \in Nat /\ Len(l) \in Nat
    BY <1>a, <1>b, EvictedIsRecent, BucketFacts, Bounds DEF WindowInv, TypeOK
  <1>c. PICK ne \in Nat : ne = Len(e)
    BY <1>1
  <1>d. PICK nl \in Nat : nl = Len(l)
    BY <1>1
  <1>2. /\ ne <= nl /\ \A i \in 1 .. ne : e[i] = l[(nl - ne) + i]
        /\ \A i \in 1 .. nl - ne : l[i] + Window < now
    BY <1>a, <1>b, <1>c, <1>d, EvictedIsRecent
  <1>3. /\ \A i \in 1 .. nl : l[i] \in Nat
        /\ \A i \in 1 .. nl : l[i] <= now /\ \A j \in i .. nl : l[i] <= l[j]
    BY <1>b, <1>d, BucketFacts
  <1>e. PICK e1 : e1 = bucket'[c]
    OBVIOUS
  <1>f. PICK l1 : l1 = log'[c]
    OBVIOUS
  <1>g. e1 = Append(e, now) /\ l1 = Append(l, now)
    BY <1>a, <1>b, <1>e, <1>f
  <1>4. /\ Len(e1) = ne + 1 /\ e1[ne + 1] = now /\ \A i \in 1 .. ne : e1[i] = e[i]
        /\ Len(l1) = nl + 1 /\ l1[nl + 1] = now /\ \A i \in 1 .. nl : l1[i] = l[i]
    BY <1>1, <1>g, <1>c, <1>d, AppendProperties
  <1>h. Longer(e1, e, ne, now) /\ Longer(l1, l, nl, now)
    BY <1>4 DEF Longer
  <1>n. now \in Nat /\ Window \in Nat
    BY <1>1
  <1>i. EndOf(e, ne, l, nl, now, Window)
    BY <1>2, <1>3 DEF EndOf
  <1>j. InOrder(l, nl, now)
    BY <1>3 DEF InOrder
  <1>k. EndOf(e1, ne + 1, l1, nl + 1, now, Window) /\ InOrder(l1, nl + 1, now)
    BY <1>n, <1>h, <1>i, <1>j, BothAppended
  <1>5. /\ \A i \in 1 .. ne + 1 : e1[i] = l1[((nl + 1) - (ne + 1)) + i]
        /\ \A i \in 1 .. (nl + 1) - (ne + 1) : l1[i] + Window < now
        /\ \A i \in 1 .. nl + 1 : l1[i] <= now /\ \A j \in i .. nl + 1 : l1[i] <= l1[j]
    BY <1>k DEF EndOf, InOrder
  <1>6. Len(e1) = ne + 1 /\ Len(l1) = nl + 1 /\ ne + 1 <= nl + 1
    BY <1>2, <1>4
  <1>7. /\ Len(e1) <= Len(l1)
        /\ \A i \in 1 .. Len(e1) : e1[i] = l1[(Len(l1) - Len(e1)) + i]
        /\ \A i \in 1 .. Len(l1) - Len(e1) : l1[i] + Window < now
        /\ \A i \in 1 .. Len(l1) : l1[i] <= now /\ \A j \in i .. Len(l1) : l1[i] <= l1[j]
    BY <1>5, <1>6
  <1> QED BY <1>7, <1>e, <1>f DEF BucketOf, Dropped

\* A refused one only drops old timestamps of the bucket.
LEMMA RefuseStep ==
  ASSUME WindowInv, now' = now, NEW c \in Client,
         bucket'[c] = Evict(bucket[c]), log'[c] = log[c]
  PROVE  BucketOf(c)'
  <1>1. /\ Len(bucket'[c]) <= Len(log'[c])
        /\ \A i \in 1 .. Len(bucket'[c]) :
             bucket'[c][i] = log'[c][(Len(log'[c]) - Len(bucket'[c])) + i]
        /\ \A i \in 1 .. Len(log'[c]) - Len(bucket'[c]) : log'[c][i] + Window < now
    BY EvictedIsRecent
  <1>2. \A i \in 1 .. Len(log'[c]) :
          log'[c][i] <= now /\ \A j \in i .. Len(log'[c]) : log'[c][i] <= log'[c][j]
    BY BucketFacts
  <1> QED BY <1>1, <1>2 DEF BucketOf, Dropped

\* A client that asks nothing keeps what it has, however the clock goes on.
LEMMA LaterStep ==
  ASSUME WindowInv, NEW c \in Client, now' \in {now, now + 1},
         bucket'[c] = bucket[c], log'[c] = log[c]
  PROVE  BucketOf(c)'
  <1>1. now \in Nat /\ now' \in Nat /\ now <= now' /\ Window \in Nat
    BY Bounds DEF WindowInv, TypeOK
  <1>l. /\ \A i \in 1 .. Len(log[c]) : log[c][i] \in Nat
        /\ Len(log[c]) \in Nat /\ Len(bucket[c]) \in Nat
    BY BucketFacts
  <1>2. /\ \A i \in 1 .. Len(log[c]) : log[c][i] \in Nat
        /\ \A i \in 1 .. Len(log[c]) - Len(bucket[c]) : i \in 1 .. Len(log[c])
    BY <1>l
  <1>3. \A i \in 1 .. Len(log[c]) - Len(bucket[c]) : log[c][i] + Window < now
    BY BucketFacts
  <1>4. \A i \in 1 .. Len(log[c]) - Len(bucket[c]) : log[c][i] + Window < now'
    BY <1>1, <1>2, <1>3
  <1>5. \A i \in 1 .. Len(log[c]) :
          log[c][i] <= now /\ \A j \in i .. Len(log[c]) : log[c][i] <= log[c][j]
    BY BucketFacts
  <1>6. \A i \in 1 .. Len(log[c]) :
          log[c][i] <= now' /\ \A j \in i .. Len(log[c]) : log[c][i] <= log[c][j]
    BY <1>1, <1>2, <1>5
  <1>7. /\ Len(bucket[c]) <= Len(log[c])
        /\ \A i \in 1 .. Len(bucket[c]) : bucket[c][i] = log[c][(Len(log[c]) - Len(bucket[c])) + i]
    BY BucketFacts
  <1> QED BY <1>4, <1>6, <1>7 DEF BucketOf, Dropped

\* With the process go the bucket and what the record counts.
LEMMA EmptyBucket ==
  ASSUME NEW c, bucket[c] = <<>>, log[c] = <<>>
  PROVE  BucketOf(c)
  <1>1. Len(bucket[c]) = 0 /\ Len(log[c]) = 0
    OBVIOUS
  <1> QED BY <1>1 DEF BucketOf, Dropped

\* The limiter counts a request as _rate_limit does, loses everything with the
\* process, and is otherwise left alone.
LEMMA LimiterCases ==
  ASSUME [Next]_vars
  PROVE  \/ now' = now /\ \E c \in Client, x \in Typed \cup {None} : _rate_limit(c, x)
         \/ \A c \in Client : bucket'[c] = <<>> /\ log'[c] = <<>> /\ refused'[c] = None
         \/ UNCHANGED limiter /\ now' \in {now, now + 1}
  <1>1. CASE Start \/ Tick \/ Unlock \/ Line \/ _on_message_received \/ UNCHANGED vars
    BY <1>1 DEF Start, Tick, Unlock, Line, _on_message_received, vars
  <1>2. CASE End
    BY <1>2 DEF End, Gone
  <1>3. CASE \E p \in Peer : Connect(p) \/ flush_peer(p) \/ Receive(p)
    BY <1>3 DEF Connect, flush_peer, Receive
  <1>4. CASE \E c \in Client, x \in Typed \cup {None} : _rate_limit(c, x)
    BY <1>4 DEF _rate_limit
  <1>5. CASE \E r \in calls : send_message(r)
    BY <1>5 DEF send_message, Gone
  <1>6. CASE \E x \in Typed : _cmd_send(x)
    BY <1>6 DEF _cmd_send, Gone
  <1> QED BY <1>1, <1>2, <1>3, <1>4, <1>5, <1>6 DEF Next

\* Of the others a request says nothing; its own client it accepts, with fewer
\* than Limit in the window, or refuses, with as many.
LEMMA RequestCases ==
  ASSUME WindowInv, NEW c \in Client, NEW x, _rate_limit(c, x), NEW d \in Client
  PROVE  \/ /\ d # c
            /\ bucket'[d] = bucket[d] /\ log'[d] = log[d] /\ refused'[d] = refused[d]
         \/ /\ bucket'[d] = Append(Evict(bucket[d]), now) /\ log'[d] = Append(log[d], now)
            /\ refused'[d] = refused[d] /\ Recent(d) < Limit
         \/ /\ bucket'[d] = Evict(bucket[d]) /\ log'[d] = log[d] /\ Recent(d) >= Limit
  <1>1. /\ DOMAIN bucket = Client /\ DOMAIN log = Client /\ DOMAIN refused = Client
    BY DEF WindowInv, TypeOK
  <1>2. Recent(c) = Len(Evict(bucket[c])) /\ Len(Evict(bucket[c])) \in Nat /\ Limit \in Nat
    BY EvictedIsRecent, Bounds, FrontBoundsAssumption
  <1>3. \/ /\ Len(Evict(bucket[c])) >= Limit
           /\ bucket' = [bucket EXCEPT ![c] = Evict(bucket[c])]
           /\ refused' = [refused EXCEPT ![c] = now] /\ log' = log
        \/ /\ ~(Len(Evict(bucket[c])) >= Limit)
           /\ bucket' = [bucket EXCEPT ![c] = Append(Evict(bucket[c]), now)]
           /\ log' = [log EXCEPT ![c] = Append(log[c], now)]
           /\ refused' = refused
    BY Zenon DEF _rate_limit
  <1>4. CASE d # c
    <2>1. bucket'[d] = bucket[d] /\ log'[d] = log[d] /\ refused'[d] = refused[d]
      BY <1>1, <1>3, <1>4
    <2> QED BY <2>1, <1>4
  <1>5. CASE d = c
    <2>1. CASE /\ Len(Evict(bucket[c])) >= Limit
               /\ bucket' = [bucket EXCEPT ![c] = Evict(bucket[c])]
               /\ refused' = [refused EXCEPT ![c] = now] /\ log' = log
      <3>1. bucket'[c] = Evict(bucket[c]) /\ log'[c] = log[c]
        BY <1>1, <2>1
      <3>2. Recent(c) >= Limit
        BY <1>2, <2>1
      <3> QED BY <1>5, <3>1, <3>2
    <2>2. CASE /\ ~(Len(Evict(bucket[c])) >= Limit)
               /\ bucket' = [bucket EXCEPT ![c] = Append(Evict(bucket[c]), now)]
               /\ log' = [log EXCEPT ![c] = Append(log[c], now)]
               /\ refused' = refused
      <3>1. /\ bucket'[c] = Append(Evict(bucket[c]), now) /\ log'[c] = Append(log[c], now)
            /\ refused'[c] = refused[c]
        BY <1>1, <2>2
      <3>2. Recent(c) < Limit
        BY <1>2, <2>2
      <3> QED BY <1>5, <3>1, <3>2
    <2> QED BY <1>3, <2>1, <2>2
  <1> QED BY <1>4, <1>5

\* The bucket is the end of the record that can still count, in every reachable
\* state: _rate_limit drops only timestamps that have left the window for good.
THEOREM LimiterInvariance == Spec => []WindowInv
  <1>1. Init => WindowInv
    <2> SUFFICES ASSUME Init PROVE WindowInv
      OBVIOUS
    <2>1. \A c \in Client : bucket[c] = <<>> /\ log[c] = <<>>
      BY DEF Init, NoCalls
    <2> QED BY <2>1, TypeInit, EmptyBucket DEF WindowInv, LimiterInv
  <1>2. WindowInv /\ [Next]_vars => WindowInv'
    <2> SUFFICES ASSUME WindowInv, [Next]_vars PROVE WindowInv'
      OBVIOUS
    <2>1. TypeOK'
      BY TypeStep DEF WindowInv
    <2>2. ASSUME NEW c \in Client PROVE BucketOf(c)'
      <3>1. CASE now' = now /\ \E d \in Client, x \in Typed \cup {None} : _rate_limit(d, x)
        <4>1. PICK d \in Client, x \in Typed \cup {None} : _rate_limit(d, x)
          BY <3>1
        <4>2. now' = now /\ now' \in {now, now + 1}
          BY <3>1
        <4> QED BY <4>1, <4>2, RequestCases, AcceptStep, RefuseStep, LaterStep
      <3>2. CASE \A d \in Client : bucket'[d] = <<>> /\ log'[d] = <<>> /\ refused'[d] = None
        <4>1. bucket'[c] = <<>> /\ log'[c] = <<>>
          BY <3>2
        <4>2. Len(bucket'[c]) = 0 /\ Len(log'[c]) = 0
          BY <4>1
        <4> QED BY <4>2 DEF BucketOf, Dropped
      <3>3. CASE UNCHANGED limiter /\ now' \in {now, now + 1}
        <4>1. bucket'[c] = bucket[c] /\ log'[c] = log[c]
          BY <3>3
        <4> QED BY <3>3, <4>1, LaterStep
      <3> QED BY <3>1, <3>2, <3>3, LimiterCases
    <2> QED BY <2>1, <2>2 DEF WindowInv, LimiterInv
  <1> QED BY <1>1, <1>2, PTL DEF Spec

\* WindowExact: the limiter of create_app, which drops timestamps from the front of
\* a bucket as requests come, refuses a request if and only if requests_per_minute
\* were accepted in the window.
THEOREM WindowExactThm == Spec => WindowExact
  <1>1. ASSUME WindowInv, [Next]_vars, NEW c \in Client
        PROVE  /\ Len(log'[c]) > Len(log[c]) => Recent(c) < Limit
               /\ refused'[c] \notin {refused[c], None} => Recent(c) >= Limit
    <2>1. Len(log[c]) \in Nat
      BY <1>1, BucketFacts
    <2>2. CASE now' = now /\ \E d \in Client, x \in Typed \cup {None} : _rate_limit(d, x)
      <3>1. PICK d \in Client, x \in Typed \cup {None} : _rate_limit(d, x)
        BY <2>2
      <3>2. \/ log'[c] = log[c] /\ refused'[c] = refused[c]
            \/ refused'[c] = refused[c] /\ Recent(c) < Limit
            \/ log'[c] = log[c] /\ Recent(c) >= Limit
        BY <1>1, <3>1, RequestCases
      <3> QED BY <2>1, <3>2
    <2>3. CASE \A d \in Client : bucket'[d] = <<>> /\ log'[d] = <<>> /\ refused'[d] = None
      <3>1. Len(log'[c]) = 0 /\ refused'[c] = None
        BY <2>3
      <3> QED BY <2>1, <3>1
    <2>4. CASE UNCHANGED limiter /\ now' \in {now, now + 1}
      <3>1. log'[c] = log[c] /\ refused'[c] = refused[c]
        BY <2>4
      <3> QED BY <2>1, <3>1
    <2> QED BY <1>1, <2>2, <2>3, <2>4, LimiterCases
  <1>2. WindowInv /\ [Next]_vars =>
          [\A c \in Client :
             /\ Len(log'[c]) > Len(log[c]) => Recent(c) < Limit
             /\ refused'[c] \notin {refused[c], None} => Recent(c) >= Limit]_vars
    BY <1>1
  <1> QED BY <1>2, LimiterInvariance, PTL DEF Spec, WindowExact
=============================================================================
