-------------------------- MODULE DiscoveryProofs --------------------------
(***************************************************************************)
(* Proofs about Discovery, for any number of devices, names and tasks: the *)
(* callbacks match the cache.  The argument: a service name leads to a     *)
(* cached device, and to one that advertises that very name, so a removal  *)
(* drops a device exactly once, although devices share names.              *)
(*                                                                         *)
(* The second part is about what the callbacks lead to in AutoConnect: the *)
(* session with the discovered device, and the messages queued for it.     *)
(***************************************************************************)
EXTENDS Discovery, AutoConnect, TLAPS

Task == [name : Name, from : SUBSET Device]

Types ==
  /\ adv \in [Name -> Device \cup {None}]
  /\ heard \in [Name -> Device \cup {None}]
  /\ tasks \in [1 .. MaxTasks -> Task \cup {None}]
  /\ peers \subseteq Device \ {Own}
  /\ bundle \subseteq peers
  /\ names \in [Name -> (Device \ {Own}) \cup {None}]
  /\ calls \in [Device -> {0, 1}]
  /\ missed \subseteq Device

\* Devices advertise, and answer for, their own names only.
OwnNames ==
  /\ \A n \in Name : adv[n] # None => NameOf[adv[n]] = n
  /\ \A t \in 1 .. MaxTasks : tasks[t] # None =>
       \A d \in tasks[t].from : NameOf[d] = tasks[t].name

\* _svc_name_to_id leads from the name of a device to a cached device.
NamesCached ==
  \A n \in Name : names[n] # None => names[n] \in peers /\ NameOf[names[n]] = n

CacheInv == Types /\ OwnNames /\ NamesCached /\ CallbacksPaired

USE DiscoveryAssumption DEF cache

-----------------------------------------------------------------------------

LEMMA InitInv == Init => CacheInv
  BY DEF Init, CacheInv, Types, Task, OwnNames, NamesCached, CallbacksPaired

\* A new task keeps what is known of tasks.
LEMMA TaskAdded ==
  ASSUME CacheInv, NEW n \in Name, AddTask(n)
  PROVE  /\ tasks' \in [1 .. MaxTasks -> Task \cup {None}]
         /\ \A t \in 1 .. MaxTasks : tasks'[t] # None =>
              \A d \in tasks'[t].from : NameOf[d] = tasks'[t].name
  <1>1. PICK u \in 1 .. MaxTasks :
          tasks' = [tasks EXCEPT ![u] = [name |-> n, from |-> {adv[n]} \ {None}]]
    BY DEF AddTask
  <1>2. /\ {adv[n]} \ {None} \subseteq Device
        /\ \A d \in {adv[n]} \ {None} : NameOf[d] = n
    BY DEF CacheInv, Types, OwnNames
  <1>3. [name |-> n, from |-> {adv[n]} \ {None}] \in Task
    BY <1>2 DEF Task
  <1> QED BY <1>1, <1>2, <1>3 DEF CacheInv, Types, OwnNames

\* What hears of a service, but for its removal, leaves the cache alone.
LEMMA HearStep ==
  ASSUME CacheInv, NEW n \in Name, HearNew(n) \/ HearUpdate(n)
  PROVE  CacheInv'
  <1>1. /\ AddTask(n) /\ UNCHANGED <<adv, peers, bundle, names, calls, missed>>
        /\ heard' = [heard EXCEPT ![n] = adv[n]]
    BY DEF HearNew, HearUpdate, Update
  <1>2. Types' /\ OwnNames'
    BY <1>1, TaskAdded DEF CacheInv, Types, OwnNames
  <1>3. NamesCached' /\ CallbacksPaired'
    BY <1>1 DEF CacheInv, NamesCached, CallbacksPaired
  <1> QED BY <1>2, <1>3 DEF CacheInv

\* A removal: no other name leads to the device it drops.
LEMMA HearGoneStep ==
  ASSUME CacheInv, NEW n \in Name, HearGone(n)
  PROVE  CacheInv'
  <1>1. /\ heard' = [heard EXCEPT ![n] = None] /\ UNCHANGED <<adv, tasks, missed>>
        /\ _on_service_removed(n)
    BY DEF HearGone
  <1>2. OwnNames' /\ heard' \in [Name -> Device \cup {None}]
    BY <1>1 DEF CacheInv, Types, OwnNames
  <1>3. CASE names[n] = None
    <2>1. UNCHANGED cache
      BY <1>1, <1>3 DEF _on_service_removed
    <2> QED BY <1>1, <1>2, <2>1 DEF CacheInv, Types, NamesCached, CallbacksPaired
  <1>4. CASE names[n] # None
    <2> DEFINE d == names[n]
    <2>1. /\ names' = [names EXCEPT ![n] = None]
          /\ peers' = peers \ {d} /\ bundle' = bundle \ {d}
          /\ calls' = [calls EXCEPT ![d] = @ - 1]
      BY <1>1, <1>4 DEF _on_service_removed
    <2>2. d \in peers /\ d \in Device /\ NameOf[d] = n
      BY <1>4 DEF CacheInv, Types, NamesCached
    <2>3. calls[d] = 1
      BY <2>2 DEF CacheInv, CallbacksPaired
    <2>4. Types'
      BY <1>1, <1>2, <2>1, <2>2, <2>3 DEF CacheInv, Types
    <2>5. NamesCached'
      <3> SUFFICES ASSUME NEW k \in Name, names'[k] # None
                   PROVE  names'[k] \in peers' /\ NameOf[names'[k]] = k
        BY DEF NamesCached
      <3>1. k # n /\ names'[k] = names[k]
        BY <2>1 DEF CacheInv, Types
      <3>2. names[k] \in peers /\ NameOf[names[k]] = k
        BY <3>1 DEF CacheInv, NamesCached
      <3>3. names[k] # d
        BY <2>2, <3>1, <3>2
      <3> QED BY <2>1, <3>1, <3>2, <3>3
    <2>6. CallbacksPaired'
      <3> SUFFICES ASSUME NEW e \in Device
                   PROVE  calls'[e] = IF e \in peers' THEN 1 ELSE 0
        BY DEF CallbacksPaired
      <3>1. calls[e] = IF e \in peers THEN 1 ELSE 0
        BY DEF CacheInv, CallbacksPaired
      <3>2. CASE e = d
        <4>1. calls'[d] = 0 /\ d \notin peers'
          BY <2>1, <2>2, <2>3 DEF CacheInv, Types
        <4> QED BY <3>2, <4>1
      <3>3. CASE e # d
        <4>1. calls'[e] = calls[e] /\ (e \in peers' <=> e \in peers)
          BY <2>1, <3>3 DEF CacheInv, Types
        <4> QED BY <3>1, <4>1
      <3> QED BY <3>2, <3>3
    <2> QED BY <1>2, <2>4, <2>5, <2>6 DEF CacheInv
  <1> QED BY <1>3, <1>4

\* An answer enters the device under its own name.
LEMMA AddedStep ==
  ASSUME CacheInv, NEW t \in 1 .. MaxTasks, NEW d \in Device, _on_service_added(t, d)
  PROVE  CacheInv'
  <1> DEFINE n == tasks[t].name
  <1>1. /\ tasks[t] # None /\ d \in tasks[t].from
        /\ tasks' = [tasks EXCEPT ![t] = None]
        /\ UNCHANGED <<adv, missed>> /\ Cached(n, d)
    BY DEF _on_service_added
  <1>2. n \in Name /\ NameOf[d] = n
    BY <1>1 DEF CacheInv, Types, OwnNames, Task
  <1>3. heard' \in [Name -> Device \cup {None}]
    BY <1>1, <1>2 DEF Cached, CacheInv, Types
  <1>4. tasks' \in [1 .. MaxTasks -> Task \cup {None}] /\ OwnNames'
    BY <1>1 DEF CacheInv, Types, OwnNames
  <1>5. CASE IsOwn(d)
    <2>1. UNCHANGED cache
      BY <1>5 DEF _on_service_added
    <2> QED BY <1>1, <1>3, <1>4, <2>1 DEF CacheInv, Types, NamesCached, CallbacksPaired
  <1>6. CASE ~IsOwn(d)
    <2>1. /\ peers' = peers \cup {d} /\ bundle' = bundle
          /\ names' = [names EXCEPT ![n] = d]
          /\ calls' = [calls EXCEPT ![d] = IF d \notin peers THEN @ + 1 ELSE @]
          /\ d # Own
      BY <1>6 DEF _on_service_added, IsNew, IsOwn
    <2>2. calls[d] = IF d \in peers THEN 1 ELSE 0
      BY DEF CacheInv, CallbacksPaired
    <2>3. calls' \in [Device -> {0, 1}]
      BY <2>1, <2>2 DEF CacheInv, Types
    <2>4. Types'
      BY <1>1, <1>2, <1>3, <1>4, <2>1, <2>3 DEF CacheInv, Types
    <2>5. NamesCached'
      BY <1>2, <2>1 DEF CacheInv, Types, NamesCached
    <2>6. CallbacksPaired'
      BY <2>1, <2>2 DEF CacheInv, Types, CallbacksPaired
    <2> QED BY <1>4, <2>4, <2>5, <2>6 DEF CacheInv
  <1> QED BY <1>5, <1>6

\* The other steps leave the callbacks and the names alone.
LEMMA SkipStep ==
  ASSUME CacheInv, NEW t \in 1 .. MaxTasks, Skip(t)
  PROVE  CacheInv'
  BY DEF Skip, CacheInv, Types, OwnNames, NamesCached, CallbacksPaired, Task

LEMMA DeviceStep ==
  ASSUME CacheInv, NEW d \in Device, Join(d) \/ Leave(d) \/ update_peer_bundle(d)
  PROVE  CacheInv'
  <1>1. UNCHANGED <<peers, names, calls>>
    BY DEF Join, Leave, update_peer_bundle
  <1>2. NamesCached' /\ CallbacksPaired'
    BY <1>1 DEF CacheInv, NamesCached, CallbacksPaired
  <1>3. CASE Join(d)
    BY <1>2, <1>3 DEF Join, CacheInv, Types, OwnNames, Task
  <1>4. CASE Leave(d)
    BY <1>2, <1>4 DEF Leave, CacheInv, Types, OwnNames, Task
  <1>5. CASE update_peer_bundle(d)
    BY <1>2, <1>5 DEF update_peer_bundle, CacheInv, Types, OwnNames, Task
  <1> QED BY <1>3, <1>4, <1>5

LEMMA NextInv == CacheInv /\ [Next]_vars => CacheInv'
  <1> SUFFICES ASSUME CacheInv, [Next]_vars PROVE CacheInv'
    OBVIOUS
  <1>1. ASSUME NEW n \in Name, HearNew(n) \/ HearUpdate(n) \/ HearGone(n) PROVE CacheInv'
    BY <1>1, HearStep, HearGoneStep
  <1>2. ASSUME NEW t \in 1 .. MaxTasks, NEW d \in Device, _on_service_added(t, d)
        PROVE  CacheInv'
    BY <1>2, AddedStep
  <1>3. ASSUME NEW t \in 1 .. MaxTasks, Skip(t) PROVE CacheInv'
    BY <1>3, SkipStep
  <1>4. ASSUME NEW d \in Device, Join(d) \/ Leave(d) \/ update_peer_bundle(d)
        PROVE  CacheInv'
    BY <1>4, DeviceStep
  <1>5. CASE UNCHANGED vars
    BY <1>5 DEF vars, CacheInv, Types, OwnNames, NamesCached, CallbacksPaired, Task
  <1> QED BY <1>1, <1>2, <1>3, <1>4, <1>5 DEF Next

\* The inductive invariant of the cache.
THEOREM Invariance == Spec => []CacheInv
  <1>1. Init => CacheInv
    BY InitInv
  <1>2. CacheInv /\ [Next]_vars => CacheInv'
    BY NextInv
  <1> QED BY <1>1, <1>2, PTL DEF Spec

\* on_peer_discovered and on_peer_lost alternate for every device and match
\* _peers, whatever is removed, renamed or taken over while _on_service_added
\* waits.
THEOREM CallbacksPairedThm == Spec => []CallbacksPaired
  <1>1. CacheInv => CallbacksPaired
    BY DEF CacheInv
  <1> QED BY <1>1, Invariance, PTL

\* The types of the state, the bundle kept with its peer included.
THEOREM TypeOKThm == Spec => []TypeOK
  <1>1. CacheInv => TypeOK
    BY DEF CacheInv, Types, Task, TypeOK
  <1> QED BY <1>1, Invariance, PTL

-----------------------------------------------------------------------------
(***************************************************************************)
(* Nodes that come and go, AutoConnect, for any number of nodes, of        *)
(* restarts and of keys.  The argument: a newcomer hears of a host that    *)
(* serves its API, asks for its records, fetches its bundle, sends its key *)
(* and waits for KEY_ACK; each of the five stages lasts until its own step *)
(* takes it to the next, and nothing that another call does takes it back  *)
(* without crossing this one.                                              *)
(***************************************************************************)

HIDE DiscoveryAssumption DEF cache
USE MaxStartsAssumption

\* A device that takes part in discovery is advertised.
Advertises == \A n \in Node : Listens(n) => n \in advertised

WiringInv == NetTypeOK /\ Advertises

\* No node has started yet.
LEMMA WiringInit == NetInit => WiringInv
  BY DEF NetInit, WiringInv, NetTypeOK, Advertises, Phase, Fate, Listens

\* A node that starts has nothing in memory; the later phases change no memory.
LEMMA WiringNode ==
  ASSUME WiringInv, NEW n \in Node,
         \/ Start(n) \/ Serve(n) \/ Quit(n) \/ Goodbye(n) \/ Expire(n)
  PROVE  WiringInv'
  <1>1. UNCHANGED <<memory, message>>
    BY DEF Start, Serve, Quit, Goodbye, Expire
  <1>2. unanswered' \subseteq unanswered
    BY DEF Start, Serve, Quit, Goodbye, Expire, network, Without
  <1>3. starts' \in [Node -> Nat] /\ \A i \in Node : starts'[i] <= MaxStarts[i]
    <2>1. CASE Start(n)
      <3>1. starts[n] \in Nat /\ MaxStarts[n] \in Nat /\ starts[n] < MaxStarts[n]
        BY <2>1 DEF Start, WiringInv, NetTypeOK
      <3>2. starts[n] + 1 \in Nat /\ starts[n] + 1 <= MaxStarts[n]
        BY <3>1
      <3> QED BY <2>1, <3>2 DEF Start, WiringInv, NetTypeOK
    <2>2. CASE starts' = starts
      BY <2>2 DEF WiringInv, NetTypeOK
    <2> QED BY <2>1, <2>2 DEF Serve, Quit, Goodbye, Expire
  <1>4. phase' \in [Node -> Phase] /\ advertised' \subseteq Node
    BY DEF Start, Serve, Quit, Goodbye, Expire, WiringInv, NetTypeOK, Phase, network
  <1>5. NetTypeOK'
    BY <1>1, <1>2, <1>3, <1>4 DEF WiringInv, NetTypeOK, memory, handshake, message
  <1>6. Advertises'
    BY DEF Start, Serve, Quit, Goodbye, Expire, WiringInv, NetTypeOK, Advertises,
           Listens, Runs, network
  <1> QED BY <1>5, <1>6 DEF WiringInv

\* A process that ends leaves its memory empty.
LEMMA WiringEnd ==
  ASSUME WiringInv, NEW n \in Node, Stop(n) \/ Crash(n)
  PROVE  WiringInv'
  <1>1. Ended(n)
    BY DEF Stop, Crash
  <1> DEFINE none == [m \in Node |-> 0]
             left == [m \in Node |-> IF out[n][m] = "sent" THEN "lost" ELSE out[n][m]]
  <1>2. none \in [Node -> Key \cup {0}]
    OBVIOUS
  <1>3. left \in [Node -> Fate]
    BY DEF WiringInv, NetTypeOK, Fate
  <1>4. ack' \in [Node -> [Node -> Key \cup {0}]] /\ sess' \in [Node -> [Node -> Key \cup {0}]]
    BY <1>1, <1>2 DEF Ended, WiringInv, NetTypeOK
  <1>5. flight' \in [Node -> [Node -> Key \cup {0}]] /\ out' \in [Node -> [Node -> Fate]]
    BY <1>1, <1>2, <1>3 DEF Ended, WiringInv, NetTypeOK
  <1>6. \A i, j \in Node : ack'[i][j] # 0 => <<j, "connect">> \notin task'[i]
    BY <1>1 DEF Ended, WiringInv, NetTypeOK
  <1>7. NetTypeOK'
    BY <1>1, <1>4, <1>5, <1>6 DEF Ended, WiringInv, NetTypeOK, Phase, Without
  <1>8. Advertises'
    BY <1>1 DEF Ended, WiringInv, NetTypeOK, Advertises, Listens
  <1> QED BY <1>7, <1>8 DEF WiringInv

\* A write to one cell of a table of nodes.
LEMMA CellType ==
  ASSUME NEW S, NEW f \in [Node -> [Node -> S]], NEW i \in Node, NEW j \in Node, NEW v \in S
  PROVE  [f EXCEPT ![i][j] = v] \in [Node -> [Node -> S]]
  OBVIOUS

\* A cell overwritten with what it holds.
LEMMA CellSame ==
  ASSUME NEW S, NEW f \in [Node -> [Node -> S]], NEW i \in Node, NEW j \in Node
  PROVE  [f EXCEPT ![i][j] = f[i][j]] = f
  OBVIOUS

\* No call gains an entry.
LEMMA SupersededOnly ==
  ASSUME NEW n \in Node, NEW m \in Node, NEW S \in SUBSET (Node \X Stage)
  PROVE  /\ Superseded(S, n, m) \subseteq Node \X Stage
         /\ \A i \in Node : <<i, "connect">> \in Superseded(S, n, m)
                              => <<i, "connect">> \in S /\ i # m
  <1>1. \A t \in Superseded(S, n, m) :
          t \in S \ {<<m, "connect">>} \/ t = <<m, "stale">> \/ t = <<m, "late">>
    BY DEF Superseded
  <1>2. <<m, "stale">> \in Node \X Stage /\ <<m, "late">> \in Node \X Stage
    BY DEF Stage
  <1>3. Superseded(S, n, m) \subseteq Node \X Stage
    BY <1>1, <1>2
  <1>4. ASSUME NEW i \in Node, <<i, "connect">> \in Superseded(S, n, m)
        PROVE  <<i, "connect">> \in S /\ i # m
    BY <1>1, <1>4
  <1> QED BY <1>3, <1>4

\* What a node does about another.
PeerStep(n, m) ==
  \/ add_service(n, m) \/ update_service(n, m)
  \/ _on_peer_discovered(n, m) \/ _on_peer_lost(n, m) \/ Fetch(n, m)
  \/ \E c \in Stage : KeyInit(n, m, c) \/ LateTimeOut(n, m, c)
  \/ KeyAck(n, m) \/ TimeOut(n, m)
  \/ send_or_queue(n, m) \/ flush_peer(n, m) \/ Retry(n, m)

\* Discovery and the requests it starts: the sessions and the messages stay.
LEMMA WiringDiscovery ==
  ASSUME WiringInv, NEW n \in Node, NEW m \in Node,
         \/ add_service(n, m) \/ update_service(n, m)
         \/ _on_peer_discovered(n, m) \/ _on_peer_lost(n, m)
  PROVE  NetTypeOK'
  <1>1. UNCHANGED <<phase, starts, advertised, handshake, message>>
    BY DEF add_service, update_service, Hears, _on_peer_discovered, _on_peer_lost, network
  <1>2. known' \in [Node -> SUBSET Node] /\ cached' \in [Node -> SUBSET Node]
    <2>1. known \in [Node -> SUBSET Node] /\ cached \in [Node -> SUBSET Node]
      BY DEF WiringInv, NetTypeOK
    <2>2. \/ known' = known \/ known' = [known EXCEPT ![n] = known[n] \cup {m}]
          \/ known' = [known EXCEPT ![n] = known[n] \ {m}]
      BY DEF add_service, update_service, Hears, _on_peer_discovered, _on_peer_lost
    <2>3. \/ cached' = cached \/ cached' = [cached EXCEPT ![n] = cached[n] \cup {m}]
          \/ cached' = [cached EXCEPT ![n] = cached[n] \ {m}]
      BY DEF add_service, update_service, Hears, _on_peer_discovered, _on_peer_lost
    <2>4. known' \in [Node -> SUBSET Node]
      BY <2>1, <2>2
    <2>5. cached' \in [Node -> SUBSET Node]
      BY <2>1, <2>3
    <2> QED BY <2>4, <2>5
  <1>3. unanswered' \subseteq Node \X Node
    BY DEF add_service, update_service, Hears, _on_peer_discovered, _on_peer_lost,
           Missed, network, WiringInv, NetTypeOK
  <1>4. PICK T \in SUBSET (Node \X Stage) :
               /\ task' = [task EXCEPT ![n] = T]
               /\ \A i \in Node : <<i, "connect">> \in T => <<i, "connect">> \in task[n]
    <2>1. task[n] \subseteq Node \X Stage /\ task = [task EXCEPT ![n] = task[n]]
      BY DEF WiringInv, NetTypeOK
    <2>2. <<m, "ask">> \in Node \X Stage /\ <<m, "fetch">> \in Node \X Stage
      BY DEF Stage
    <2> DEFINE Ts == {task[n], task[n] \cup {<<m, "ask">>}, task[n] \ {<<m, "ask">>},
                      (task[n] \ {<<m, "ask">>}) \cup {<<m, "fetch">>}}
    <2>3. \E T \in Ts : task' = [task EXCEPT ![n] = T]
      BY <2>1 DEF add_service, update_service, Hears, _on_peer_discovered, _on_peer_lost
    <2>4. \A T \in Ts : /\ T \subseteq Node \X Stage
                        /\ \A i \in Node : <<i, "connect">> \in T => <<i, "connect">> \in task[n]
      BY <2>1, <2>2
    <2> HIDE DEF Ts
    <2> QED BY <2>3, <2>4
  <1>5. task' \in [Node -> SUBSET (Node \X Stage)]
    BY <1>4 DEF WiringInv, NetTypeOK
  <1>6. \A i, j \in Node : ack'[i][j] # 0 => <<j, "connect">> \notin task'[i]
    BY <1>1, <1>4 DEF WiringInv, NetTypeOK, handshake
  <1> QED BY <1>1, <1>2, <1>3, <1>5, <1>6 DEF WiringInv, NetTypeOK, handshake, message

\* The bundle: a new entry takes the place of an old one.
LEMMA WiringFetch ==
  ASSUME WiringInv, NEW n \in Node, NEW m \in Node, Fetch(n, m)
  PROVE  NetTypeOK'
  <1> DEFINE rest == task[n] \ {<<m, "fetch">>}
  <1>1. UNCHANGED <<phase, starts, advertised, known, cached, sess, message>>
    BY DEF Fetch
  <1>2. unanswered' \subseteq Node \X Node
    BY DEF Fetch, Missed, WiringInv, NetTypeOK
  <1>3. rest \in SUBSET (Node \X Stage) /\ <<m, "connect">> \in Node \X Stage
    BY DEF WiringInv, NetTypeOK, Stage
  <1>4. CASE task' = [task EXCEPT ![n] = rest] /\ ack' = ack
    <2>1. task' \in [Node -> SUBSET (Node \X Stage)]
      BY <1>3, <1>4 DEF WiringInv, NetTypeOK
    <2>2. \A i, j \in Node : ack'[i][j] # 0 => <<j, "connect">> \notin task'[i]
      BY <1>4 DEF WiringInv, NetTypeOK
    <2> QED BY <1>1, <1>2, <1>4, <2>1, <2>2 DEF WiringInv, NetTypeOK, message
  <1>5. CASE /\ task' = [task EXCEPT ![n] = Superseded(rest, n, m) \cup {<<m, "connect">>}]
             /\ ack' = Placed(n, m)
    <2> HIDE DEF rest
    <2>1. task' \in [Node -> SUBSET (Node \X Stage)]
      BY <1>3, <1>5, SupersededOnly DEF WiringInv, NetTypeOK
    <2>2. ack' \in [Node -> [Node -> Key \cup {0}]] /\ ack'[n][m] = 0
      BY <1>5 DEF WiringInv, NetTypeOK, Placed
    <2>3. ASSUME NEW i \in Node, NEW j \in Node, ack'[i][j] # 0
          PROVE  <<j, "connect">> \notin task'[i]
      <3>1. ack[i][j] # 0 /\ ~(i = n /\ j = m)
        BY <1>5, <2>2, <2>3 DEF WiringInv, NetTypeOK, Placed
      <3>2. <<j, "connect">> \notin task[i]
        BY <3>1 DEF WiringInv, NetTypeOK
      <3>3. i = n => <<j, "connect">> \notin Superseded(rest, n, m) \cup {<<m, "connect">>}
        <4>1. i = n => <<j, "connect">> \notin rest /\ j # m
          BY <3>1, <3>2 DEF rest
        <4> QED BY <1>3, <4>1, SupersededOnly
      <3> QED BY <1>5, <3>2, <3>3 DEF WiringInv, NetTypeOK
    <2> QED BY <1>1, <1>2, <2>1, <2>2, <2>3 DEF WiringInv, NetTypeOK, message
  <1> QED BY <1>4, <1>5 DEF Fetch

\* KEY_INIT: the caller waits for KEY_ACK, the other one's entry is gone.
LEMMA WiringKeyInit ==
  ASSUME WiringInv, NEW n \in Node, NEW m \in Node, NEW c \in Stage, KeyInit(n, m, c)
  PROVE  NetTypeOK'
  <1> DEFINE rest == task[n] \ {<<m, c>>}
             mine == IF c = "connect" THEN rest ELSE rest \cup {<<m, "late">>}
             theirs == Superseded(task[m], m, n)
  <1>1. UNCHANGED <<phase, starts, network, known, cached, message>> /\ n # m
    BY DEF KeyInit
  <1>2. NewKey \in Key /\ NewKey # 0
    BY DEF KeyInit, NewKey, Key
  <1>3. /\ task[n] \in SUBSET (Node \X Stage) /\ task[m] \in SUBSET (Node \X Stage)
        /\ <<m, "late">> \in Node \X Stage
    BY DEF WiringInv, NetTypeOK, Stage
  <1>4. /\ theirs \subseteq Node \X Stage
        /\ \A i \in Node : <<i, "connect">> \in theirs => <<i, "connect">> \in task[m]
    BY <1>3, SupersededOnly, Zenon
  <1>5. /\ mine \subseteq Node \X Stage
        /\ \A i \in Node : <<i, "connect">> \in mine => <<i, "connect">> \in task[n]
        /\ c = "connect" => <<m, "connect">> \notin mine
    BY <1>3
  <1>6. task' = [task EXCEPT ![n] = mine, ![m] = theirs]
    BY <1>1 DEF KeyInit, WiringInv, NetTypeOK
  <1> HIDE DEF mine, theirs
  <1>7. task' \in [Node -> SUBSET (Node \X Stage)]
    BY <1>4, <1>5, <1>6 DEF WiringInv, NetTypeOK
  <1>8. /\ task'[n] = mine /\ task'[m] = theirs
        /\ \A i \in Node : i # n /\ i # m => task'[i] = task[i]
    BY <1>1, <1>6 DEF WiringInv, NetTypeOK
  <1>9. PICK k \in Key \cup {0} :
               /\ ack' = [ack EXCEPT ![n][m] = k, ![m][n] = 0]
               /\ k # 0 => (c = "connect" \/ ack[n][m] # 0)
    <2>1. CASE c = "connect"
      BY <1>2, <2>1 DEF KeyInit
    <2>2. CASE c # "connect"
      <3>1. ack[n][m] \in Key \cup {0} /\ [ack EXCEPT ![n][m] = ack[n][m]] = ack
        BY CellSame DEF WiringInv, NetTypeOK
      <3>2. ack' = [[ack EXCEPT ![n][m] = ack[n][m]] EXCEPT ![m][n] = 0]
        BY <2>2, <3>1 DEF KeyInit
      <3> QED BY <3>1, <3>2
    <2> QED BY <2>1, <2>2
  <1>10. /\ ack'[m][n] = 0 /\ ack'[n][m] = k
         /\ \A i, j \in Node : ~(i = n /\ j = m) /\ ~(i = m /\ j = n) => ack'[i][j] = ack[i][j]
    BY <1>1, <1>9 DEF WiringInv, NetTypeOK
  <1>11. ack' \in [Node -> [Node -> Key \cup {0}]]
    <2>1. [ack EXCEPT ![n][m] = k] \in [Node -> [Node -> Key \cup {0}]]
      BY CellType, Zenon DEF WiringInv, NetTypeOK
    <2>2. ack' = [[ack EXCEPT ![n][m] = k] EXCEPT ![m][n] = 0]
      BY <1>9
    <2>3. 0 \in Key \cup {0}
      OBVIOUS
    <2> QED BY <2>1, <2>2, <2>3, CellType, Zenon
  <1>12. sess' \in [Node -> [Node -> Key \cup {0}]]
    <2>1. sess' = [sess EXCEPT ![m][n] = NewKey]
      BY DEF KeyInit
    <2>2. NewKey \in Key \cup {0} /\ sess \in [Node -> [Node -> Key \cup {0}]]
      BY <1>2 DEF WiringInv, NetTypeOK
    <2> QED BY <2>1, <2>2, CellType, Zenon
  <1>13. ASSUME NEW i \in Node, NEW j \in Node, ack'[i][j] # 0
         PROVE  <<j, "connect">> \notin task'[i]
    <2>1. CASE i = n /\ j = m
      BY <1>5, <1>8, <1>9, <1>10, <1>13, <2>1 DEF WiringInv, NetTypeOK
    <2>2. CASE i = m /\ j = n
      BY <1>10, <1>13, <2>2
    <2>3. CASE ~(i = n /\ j = m) /\ ~(i = m /\ j = n)
      <3>1. <<j, "connect">> \notin task[i]
        BY <1>10, <1>13, <2>3 DEF WiringInv, NetTypeOK
      <3> QED BY <1>4, <1>5, <1>8, <3>1
    <2> QED BY <2>1, <2>2, <2>3
  <1> QED BY <1>1, <1>7, <1>11, <1>12, <1>13 DEF WiringInv, NetTypeOK, network, message

\* The end of a call: its answer, or a timeout, its own or another's.
LEMMA WiringCallEnds ==
  ASSUME WiringInv, NEW n \in Node, NEW m \in Node, NEW c \in Stage,
         KeyAck(n, m) \/ TimeOut(n, m) \/ LateTimeOut(n, m, c)
  PROVE  NetTypeOK'
  <1>1. UNCHANGED <<phase, starts, advertised, known, cached, message>>
    BY DEF KeyAck, TimeOut, LateTimeOut, network
  <1>2. unanswered' \subseteq Node \X Node
    BY DEF KeyAck, TimeOut, LateTimeOut, Missed, network, WiringInv, NetTypeOK
  <1>3. ack' = [ack EXCEPT ![n][m] = 0]
    BY DEF KeyAck, TimeOut, LateTimeOut
  <1>4. ack' \in [Node -> [Node -> Key \cup {0}]]
    BY <1>3 DEF WiringInv, NetTypeOK
  <1>5. sess' \in [Node -> [Node -> Key \cup {0}]]
    <2>1. ack[n][m] \in Key \cup {0} /\ sess \in [Node -> [Node -> Key \cup {0}]]
      BY DEF WiringInv, NetTypeOK
    <2>2. sess' = sess \/ sess' = [sess EXCEPT ![n][m] = ack[n][m]]
      BY DEF KeyAck, TimeOut, LateTimeOut, Confirmed
    <2>3. [sess EXCEPT ![n][m] = ack[n][m]] \in [Node -> [Node -> Key \cup {0}]]
      BY <2>1, CellType, Zenon
    <2> QED BY <2>1, <2>2, <2>3
  <1>6. PICK T \in SUBSET (Node \X Stage) :
               /\ task' = [task EXCEPT ![n] = T]
               /\ \A i \in Node : <<i, "connect">> \in T => <<i, "connect">> \in task[n]
    <2>1. task[n] \in SUBSET (Node \X Stage) /\ task = [task EXCEPT ![n] = task[n]]
      BY DEF WiringInv, NetTypeOK
    <2>2. CASE LateTimeOut(n, m, c)
      <3> DEFINE rest == task[n] \ {<<m, c>>}
      <3>1. rest \in SUBSET (Node \X Stage)
        BY <2>1
      <3>2. task' = [task EXCEPT ![n] = Superseded(rest, n, m)]
        BY <2>2 DEF LateTimeOut
      <3> HIDE DEF rest
      <3>3. /\ Superseded(rest, n, m) \subseteq Node \X Stage
            /\ \A i \in Node : <<i, "connect">> \in Superseded(rest, n, m)
                                 => <<i, "connect">> \in rest
        BY <3>1, SupersededOnly, Zenon
      <3> USE DEF rest
      <3> QED BY <3>2, <3>3
    <2>3. CASE task' = task \/ task' = [task EXCEPT ![n] = task[n] \ {<<m, "connect">>}]
      BY <2>1, <2>3
    <2> QED BY <2>2, <2>3 DEF KeyAck, TimeOut
  <1>7. task' \in [Node -> SUBSET (Node \X Stage)]
    BY <1>6 DEF WiringInv, NetTypeOK
  <1>8. ASSUME NEW i \in Node, NEW j \in Node, ack'[i][j] # 0
        PROVE  <<j, "connect">> \notin task'[i]
    <2>1. ack[i][j] # 0
      BY <1>3, <1>8 DEF WiringInv, NetTypeOK
    <2>2. <<j, "connect">> \notin task[i]
      BY <2>1 DEF WiringInv, NetTypeOK
    <2> QED BY <1>6, <2>2 DEF WiringInv, NetTypeOK
  <1> QED BY <1>1, <1>2, <1>4, <1>5, <1>7, <1>8 DEF WiringInv, NetTypeOK, message

\* Messages change their fate and their key.
LEMMA WiringMessages ==
  ASSUME WiringInv, NEW n \in Node, NEW m \in Node,
         send_or_queue(n, m) \/ flush_peer(n, m) \/ Retry(n, m)
  PROVE  NetTypeOK'
  <1>1. UNCHANGED <<phase, starts, advertised, memory>>
    BY DEF send_or_queue, flush_peer, Retry, network
  <1>2. unanswered' \subseteq Node \X Node
    BY DEF send_or_queue, flush_peer, Retry, Missed, network, WiringInv, NetTypeOK
  <1>3. PICK f \in Fate : out' = [out EXCEPT ![n][m] = f]
    BY DEF send_or_queue, flush_peer, Retry, Sends, Fate
  <1>4. PICK k \in Key \cup {0} : flight' = flight \/ flight' = [flight EXCEPT ![n][m] = k]
    <2>1. sess[n][m] \in Key \cup {0}
      BY DEF WiringInv, NetTypeOK
    <2>2. \/ flight' = flight \/ flight' = [flight EXCEPT ![n][m] = 0]
          \/ flight' = [flight EXCEPT ![n][m] = sess[n][m]]
      BY DEF send_or_queue, flush_peer, Retry, Sends
    <2> QED BY <2>1, <2>2
  <1>5. out' \in [Node -> [Node -> Fate]] /\ flight' \in [Node -> [Node -> Key \cup {0}]]
    <2>1. [out EXCEPT ![n][m] = f] \in [Node -> [Node -> Fate]]
      BY CellType, Zenon DEF WiringInv, NetTypeOK
    <2>2. [flight EXCEPT ![n][m] = k] \in [Node -> [Node -> Key \cup {0}]]
      BY CellType, Zenon DEF WiringInv, NetTypeOK
    <2> QED BY <1>3, <1>4, <2>1, <2>2 DEF WiringInv, NetTypeOK
  <1> QED BY <1>1, <1>2, <1>5 DEF WiringInv, NetTypeOK, memory, handshake

\* Each step keeps the invariant.
LEMMA WiringNext == WiringInv /\ [NetNext]_netVars => WiringInv'
  <1> SUFFICES ASSUME WiringInv, [NetNext]_netVars PROVE WiringInv'
    OBVIOUS
  <1>1. CASE UNCHANGED netVars
    BY <1>1 DEF netVars, WiringInv, NetTypeOK, Advertises, Listens, network, memory,
                handshake, message
  <1>2. ASSUME NEW n \in Node, NEW m \in Node, PeerStep(n, m)
        PROVE  WiringInv'
    <2>1. NetTypeOK'
      BY <1>2, WiringDiscovery, WiringFetch, WiringKeyInit, WiringCallEnds, WiringMessages
         DEF PeerStep, Stage
    <2>2. UNCHANGED <<phase, advertised>>
      BY <1>2 DEF PeerStep, add_service, update_service, Hears, _on_peer_discovered,
                  _on_peer_lost, Fetch, KeyInit, LateTimeOut, KeyAck, TimeOut,
                  send_or_queue, flush_peer, Retry, network
    <2>3. Advertises'
      BY <2>2 DEF WiringInv, Advertises, Listens
    <2> QED BY <2>1, <2>3 DEF WiringInv
  <1>3. CASE NetNext
    BY <1>2, <1>3, WiringNode, WiringEnd DEF NetNext, PeerStep
  <1> QED BY <1>1, <1>3

\* The invariant of the nodes, for any number of them.
LEMMA WiringInvariance == NetSpec => []WiringInv
  BY WiringInit, WiringNext, PTL DEF NetSpec

\* Phases, caches, tasks, keys and fates keep their shape; and a call that waits
\* for KEY_ACK shares its place in _pending with no other.
THEOREM NetTypeOKThm == NetSpec => []NetTypeOK
  <1>1. WiringInv => NetTypeOK
    BY DEF WiringInv
  <1> QED BY <1>1, WiringInvariance, PTL

-----------------------------------------------------------------------------
(* Liveness.                                                               *)

\* What the fairness of the five steps rests on: a step whose guard holds can
\* be taken.
CanGoOn(n, m) ==
  /\ (n # m /\ Listens(n) /\ Listens(m) /\ m \notin known[n])
       => ENABLED <<add_service(n, m)>>_netVars
  /\ <<m, "ask">> \in task[n] => ENABLED <<_on_peer_discovered(n, m)>>_netVars
  /\ <<m, "fetch">> \in task[n] => ENABLED <<Fetch(n, m)>>_netVars
  /\ Calling(n, m) => ENABLED <<CallStep(n, m)>>_netVars
  /\ (Flushable(n, m) \/ out[n][m] = "sent") => ENABLED <<MessageStep(n, m)>>_netVars

StepsEnabled == \A n, m \in Node : CanGoOn(n, m)

\* n takes its turns towards m.
Turns(n, m) == GoesOn(n, m) /\ []CanGoOn(n, m)

\* Nothing has come between the host h and the newcomer c, which has yet to hear
\* of h, asks for its records, fetches its bundle, connects, waits for KEY_ACK.
Quiet(h, c) ==
  h # c /\ h \notin NoApi /\ ApiUp(h) /\ ~Broken(h, c) /\ ~Crossing(h, c)
Unheard(h, c) == Quiet(h, c) /\ h \notin known[c] /\ h \notin cached[c]
Asking(h, c) == Quiet(h, c) /\ <<h, "ask">> \in task[c] /\ h \notin cached[c]
Fetching(h, c) == Quiet(h, c) /\ <<h, "fetch">> \in task[c]
Connecting(h, c) == Quiet(h, c) /\ <<h, "connect">> \in task[c]
Acking(h, c) == Quiet(h, c) /\ ack[c][h] # 0 /\ sess[h][c] = ack[c][h]

\* The two nodes of a pair, in either order.
Ends(s, r, h, c) == (s = h /\ r = c) \/ (s = c /\ r = h)

\* What a node has about another does not change.
Same(i, j) ==
  /\ j \in known'[i] <=> j \in known[i]
  /\ j \in cached'[i] <=> j \in cached[i]
  /\ \A t \in Stage : <<j, t>> \in task'[i] <=> <<j, t>> \in task[i]
  /\ ack'[i][j] = ack[i][j] /\ sess'[i][j] = sess[i][j]
  /\ out'[i][j] = out[i][j] /\ flight'[i][j] = flight[i][j]

\* A step between two others.
LEMMA Elsewhere ==
  ASSUME WiringInv, NEW n \in Node, NEW m \in Node, PeerStep(n, m),
         NEW i \in Node, NEW j \in Node, i # j, ~Ends(n, m, i, j)
  PROVE  Same(i, j)
  <1> USE DEF Same, Ends, WiringInv, NetTypeOK
  <1>1. CASE \/ add_service(n, m) \/ update_service(n, m)
             \/ _on_peer_discovered(n, m) \/ _on_peer_lost(n, m)
    <2>1. UNCHANGED <<handshake, message>> /\ ~(i = n /\ j = m)
      BY <1>1 DEF add_service, update_service, Hears, _on_peer_discovered, _on_peer_lost
    <2>2. (j \in known'[i] <=> j \in known[i]) /\ (j \in cached'[i] <=> j \in cached[i])
      BY <1>1, <2>1 DEF add_service, update_service, Hears, _on_peer_discovered, _on_peer_lost
    <2>3. \A t \in Stage : <<j, t>> \in task'[i] <=> <<j, t>> \in task[i]
      BY <1>1, <2>1 DEF add_service, update_service, Hears, _on_peer_discovered, _on_peer_lost
    <2> QED BY <2>1, <2>2, <2>3 DEF handshake, message
  <1>2. CASE Fetch(n, m)
    <2>1. UNCHANGED <<known, cached, sess, message>> /\ ~(i = n /\ j = m)
      BY <1>2 DEF Fetch
    <2>2. ack'[i][j] = ack[i][j]
      BY <1>2, <2>1 DEF Fetch, Placed
    <2>3. \A t \in Stage : <<j, t>> \in task'[i] <=> <<j, t>> \in task[i]
      BY <1>2, <2>1 DEF Fetch, Superseded
    <2> QED BY <2>1, <2>2, <2>3 DEF message
  <1>3. CASE \E c \in Stage : KeyInit(n, m, c)
    <2>1. PICK c \in Stage : KeyInit(n, m, c)
      BY <1>3
    <2>2. UNCHANGED <<known, cached, message>> /\ n # m /\ ~(i = n /\ j = m) /\ ~(i = m /\ j = n)
      BY <2>1 DEF KeyInit
    <2>3. ack'[i][j] = ack[i][j] /\ sess'[i][j] = sess[i][j]
      BY <2>1, <2>2 DEF KeyInit
    <2>4. \A t \in Stage : <<j, t>> \in task'[i] <=> <<j, t>> \in task[i]
      BY <2>1, <2>2 DEF KeyInit, Superseded
    <2> QED BY <2>2, <2>3, <2>4 DEF message
  <1>4. CASE KeyAck(n, m) \/ TimeOut(n, m) \/ \E c \in Stage : LateTimeOut(n, m, c)
    <2>1. UNCHANGED <<known, cached, message>> /\ ~(i = n /\ j = m)
      BY <1>4 DEF KeyAck, TimeOut, LateTimeOut
    <2>2. ack' = [ack EXCEPT ![n][m] = 0]
      BY <1>4 DEF KeyAck, TimeOut, LateTimeOut
    <2>3. sess' = sess \/ sess' = [sess EXCEPT ![n][m] = ack[n][m]]
      BY <1>4 DEF KeyAck, TimeOut, LateTimeOut, Confirmed
    <2>4. ack'[i][j] = ack[i][j] /\ sess'[i][j] = sess[i][j]
      BY <2>1, <2>2, <2>3
    <2>5. \A t \in Stage : <<j, t>> \in task'[i] <=> <<j, t>> \in task[i]
      <3>1. CASE KeyAck(n, m) \/ TimeOut(n, m)
        BY <2>1, <3>1 DEF KeyAck, TimeOut
      <3>2. CASE \E c \in Stage : LateTimeOut(n, m, c)
        BY <2>1, <3>2 DEF LateTimeOut, Superseded
      <3> QED BY <1>4, <3>1, <3>2
    <2> QED BY <2>1, <2>4, <2>5 DEF message
  <1>5. CASE send_or_queue(n, m) \/ flush_peer(n, m) \/ Retry(n, m)
    <2>1. UNCHANGED memory /\ ~(i = n /\ j = m)
      BY <1>5 DEF send_or_queue, flush_peer, Retry
    <2>2. out'[i][j] = out[i][j] /\ flight'[i][j] = flight[i][j]
      BY <1>5, <2>1 DEF send_or_queue, flush_peer, Retry, Sends
    <2> QED BY <2>1, <2>2 DEF memory, handshake
  <1> QED BY <1>1, <1>2, <1>3, <1>4, <1>5 DEF PeerStep

\* While both are there, what they have about each other changes by their own
\* steps only.
LEMMA Bystanders ==
  ASSUME WiringInv, [NetNext]_netVars, NEW h \in Node, NEW c \in Node, h # c,
         ~Broken(h, c)'
  PROVE  PeerStep(h, c) \/ PeerStep(c, h) \/ (Same(h, c) /\ Same(c, h))
  <1>1. ASSUME NEW n \in Node, NEW m \in Node, PeerStep(n, m)
        PROVE  PeerStep(h, c) \/ PeerStep(c, h) \/ (Same(h, c) /\ Same(c, h))
    <2>1. CASE Ends(n, m, h, c)
      BY <1>1, <2>1 DEF Ends
    <2>2. CASE ~Ends(n, m, h, c)
      <3>1. ~Ends(n, m, c, h)
        BY <2>2 DEF Ends
      <3> QED BY <1>1, <2>2, <3>1, Elsewhere
    <2> QED BY <2>1, <2>2
  <1>2. CASE UNCHANGED <<memory, message>>
    BY <1>2 DEF Same, memory, handshake, message
  <1>3. ASSUME NEW n \in Node, Ended(n)
        PROVE  Same(h, c) /\ Same(c, h)
    <2>1. n # h /\ n # c
      BY <1>3 DEF Ended, Broken, Gone, WiringInv, NetTypeOK
    <2> QED BY <1>3, <2>1 DEF Ended, Same, WiringInv, NetTypeOK
  <1>4. ASSUME NEW n \in Node,
               \/ Start(n) \/ Serve(n) \/ Quit(n) \/ Goodbye(n) \/ Expire(n)
        PROVE  UNCHANGED <<memory, message>>
    BY <1>4 DEF Start, Serve, Quit, Goodbye, Expire
  <1> QED BY <1>1, <1>2, <1>3, <1>4 DEF NetNext, netVars, PeerStep, Stop, Crash

\* Only KEY_INIT changes what the other side has.
LEMMA OtherSide ==
  ASSUME WiringInv, NEW i \in Node, NEW j \in Node, i # j, PeerStep(j, i),
         ~Overtaken(j, i)
  PROVE  Same(i, j) \/ KeyInit(j, i, "connect")
  <1> USE DEF Same, WiringInv, NetTypeOK
  <1>1. CASE \E c \in Stage : KeyInit(j, i, c)
    BY <1>1 DEF KeyInit, Overtaken
  <1>2. CASE \/ add_service(j, i) \/ update_service(j, i)
             \/ _on_peer_discovered(j, i) \/ _on_peer_lost(j, i)
    BY <1>2 DEF add_service, update_service, Hears, _on_peer_discovered, _on_peer_lost,
                handshake, message
  <1>3. CASE Fetch(j, i)
    BY <1>3 DEF Fetch, Placed, message
  <1>4. CASE KeyAck(j, i) \/ TimeOut(j, i) \/ \E c \in Stage : LateTimeOut(j, i, c)
    BY <1>4 DEF KeyAck, TimeOut, LateTimeOut, Confirmed, message
  <1>5. CASE send_or_queue(j, i) \/ flush_peer(j, i) \/ Retry(j, i)
    BY <1>5 DEF send_or_queue, flush_peer, Retry, Sends, memory, handshake
  <1> QED BY <1>1, <1>2, <1>3, <1>4, <1>5 DEF PeerStep

\* A node that serves does so until it leaves.
LEMMA QuietStep ==
  ASSUME WiringInv, [NetNext]_netVars, NEW h \in Node, NEW c \in Node, Quiet(h, c)
  PROVE  Quiet(h, c)' \/ Broken(h, c)' \/ Crossing(h, c)'
  <1>1. ApiUp(h) /\ phase \in [Node -> Phase]
    BY DEF Quiet, WiringInv, NetTypeOK
  <1>2. ApiUp(h)' \/ Broken(h, c)'
    <2>1. ASSUME NEW n \in Node,
                 \/ Start(n) \/ Serve(n) \/ Quit(n) \/ Goodbye(n) \/ Ended(n) \/ Expire(n)
          PROVE  phase'[h] = phase[h] \/ phase'[h] \in {"closing", "down"}
      BY <1>1, <2>1 DEF Start, Serve, Quit, Goodbye, Ended, Expire, ApiUp
    <2>2. ASSUME NEW n \in Node, NEW m \in Node, PeerStep(n, m)
          PROVE  phase' = phase
      BY <2>2 DEF PeerStep, add_service, update_service, Hears, _on_peer_discovered,
         _on_peer_lost, Fetch, KeyInit, LateTimeOut, KeyAck, TimeOut, send_or_queue,
         flush_peer, Retry
    <2>3. phase'[h] = phase[h] \/ phase'[h] \in {"closing", "down"}
      BY <2>1, <2>2 DEF NetNext, PeerStep, Stop, Crash, netVars
    <2> QED BY <1>1, <2>3 DEF ApiUp, Broken, Gone
  <1> QED BY <1>2 DEF Quiet

\* A call of the host would cross the newcomer's.
LEMMA HostWaits ==
  ASSUME WiringInv, [NetNext]_netVars, NEW h \in Node, NEW c \in Node, Quiet(h, c),
         Quiet(h, c)', Calling(c, h)
  PROVE  (Same(c, h) /\ Same(h, c)) \/ PeerStep(c, h) \/ (PeerStep(h, c) /\ Same(c, h))
  <1>1. h # c /\ ~Calling(h, c) /\ ~Overtaken(h, c) /\ ~Broken(h, c)'
    BY DEF Quiet, Crossing
  <1>2. ~KeyInit(h, c, "connect")
    BY <1>1 DEF KeyInit, Calling
  <1> QED BY <1>1, <1>2, Bystanders, OtherSide

\* The device that is advertised stays in the newcomer's cache.
LEMMA UnheardStep ==
  ASSUME WiringInv, [NetNext]_netVars, NEW h \in Node, NEW c \in Node, Unheard(h, c)
  PROVE  \/ Unheard(h, c)' \/ Asking(h, c)' \/ Fetching(h, c)'
         \/ Broken(h, c)' \/ Crossing(h, c)'
  <1> SUFFICES ASSUME Quiet(h, c)'
               PROVE  Unheard(h, c)' \/ Asking(h, c)' \/ Fetching(h, c)'
    BY QuietStep DEF Unheard
  <1> USE DEF Unheard, Asking, Fetching, WiringInv, NetTypeOK
  <1>1. h # c /\ ~Broken(h, c) /\ ~Broken(h, c)'
    BY DEF Quiet
  <1>2. CASE Same(c, h)
    BY <1>2 DEF Same
  <1>3. CASE PeerStep(h, c)
    <2>1. UNCHANGED <<known[c], cached[c]>>
      BY <1>1, <1>3 DEF PeerStep, add_service, update_service, Hears,
         _on_peer_discovered, _on_peer_lost, Fetch, KeyInit, LateTimeOut, KeyAck,
         TimeOut, send_or_queue, flush_peer, Retry, memory
    <2> QED BY <2>1
  <1>4. CASE add_service(c, h) \/ update_service(c, h)
    BY <1>4 DEF add_service, update_service, Hears
  <1>5. CASE _on_peer_discovered(c, h)
    <2>1. ~Gone(c, h) /\ Listens(h) /\ UNCHANGED phase
      BY <1>1, <1>5 DEF Broken, Gone, Listens, _on_peer_discovered
    <2>2. <<c, h>> \notin unanswered'
      BY <1>1 DEF Broken
    <2>3. task' = [task EXCEPT ![c] = (task[c] \ {<<h, "ask">>}) \cup {<<h, "fetch">>}]
      BY <1>5, <2>1, <2>2 DEF _on_peer_discovered, Missed, Quiet
    <2> QED BY <2>3
  <1>6. CASE _on_peer_lost(c, h)
    BY <1>6 DEF _on_peer_lost
  <1>7. CASE UNCHANGED <<known, cached>>
    BY <1>7
  <1>8. PeerStep(c, h) =>
          \/ add_service(c, h) \/ update_service(c, h) \/ _on_peer_discovered(c, h)
          \/ _on_peer_lost(c, h) \/ UNCHANGED <<known, cached>>
    BY DEF PeerStep, Fetch, KeyInit, LateTimeOut, KeyAck, TimeOut, send_or_queue,
           flush_peer, Retry, memory
  <1> QED BY <1>1, <1>2, <1>3, <1>4, <1>5, <1>6, <1>7, <1>8, Bystanders

\* The records come, or an answer is missing.
LEMMA AskDone ==
  ASSUME WiringInv, NEW h \in Node, NEW c \in Node, Asking(h, c),
         _on_peer_discovered(c, h)
  PROVE  Fetching(h, c)' \/ Broken(h, c)' \/ Crossing(h, c)'
  <1> SUFFICES ASSUME Quiet(h, c)' PROVE <<h, "fetch">> \in task'[c]
    BY DEF Asking, Fetching, Quiet, ApiUp, _on_peer_discovered
  <1>1. ~Gone(c, h) /\ Listens(h) /\ UNCHANGED phase
    BY DEF Asking, Quiet, Broken, Gone, Listens, _on_peer_discovered
  <1>2. <<c, h>> \notin unanswered'
    BY DEF Quiet, Broken
  <1>3. task' = [task EXCEPT ![c] = (task[c] \ {<<h, "ask">>}) \cup {<<h, "fetch">>}]
    BY <1>1, <1>2 DEF Asking, _on_peer_discovered, Missed, Quiet
  <1> QED BY <1>3 DEF WiringInv, NetTypeOK

\* A request goes on whatever else the two do.
LEMMA RequestKept ==
  ASSUME WiringInv, NEW i \in Node, NEW j \in Node, PeerStep(i, j),
         NEW t \in {"ask", "fetch"}, <<j, t>> \in task[i],
         t = "ask" => ~_on_peer_discovered(i, j), t = "fetch" => ~Fetch(i, j)
  PROVE  <<j, t>> \in task'[i]
  <1> USE DEF WiringInv, NetTypeOK
  <1>1. CASE add_service(i, j) \/ update_service(i, j) \/ _on_peer_lost(i, j)
    BY <1>1 DEF add_service, update_service, Hears, _on_peer_lost
  <1>2. CASE _on_peer_discovered(i, j)
    BY <1>2 DEF _on_peer_discovered
  <1>3. CASE Fetch(i, j)
    BY <1>3 DEF Fetch, Superseded
  <1>4. CASE \E c \in Stage : KeyInit(i, j, c)
    BY <1>4 DEF KeyInit
  <1>5. CASE KeyAck(i, j) \/ TimeOut(i, j)
    BY <1>5 DEF KeyAck, TimeOut
  <1>6. CASE \E c \in Stage : LateTimeOut(i, j, c)
    BY <1>6 DEF LateTimeOut, Superseded
  <1>7. CASE send_or_queue(i, j) \/ flush_peer(i, j) \/ Retry(i, j)
    BY <1>7 DEF send_or_queue, flush_peer, Retry, memory
  <1> QED BY <1>1, <1>2, <1>3, <1>4, <1>5, <1>6, <1>7 DEF PeerStep

\* Nor does what the other one does end it.
LEMMA RequestKeptThere ==
  ASSUME WiringInv, NEW i \in Node, NEW j \in Node, i # j, PeerStep(j, i),
         ~Overtaken(j, i), NEW t \in {"ask", "fetch"}, <<j, t>> \in task[i]
  PROVE  <<j, t>> \in task'[i] /\ (j \in cached'[i] <=> j \in cached[i])
  <1>1. CASE Same(i, j)
    BY <1>1 DEF Same, Stage
  <1>2. CASE KeyInit(j, i, "connect")
    BY <1>2 DEF KeyInit, Superseded, WiringInv, NetTypeOK
  <1> QED BY <1>1, <1>2, OtherSide

LEMMA AskingStep ==
  ASSUME WiringInv, [NetNext]_netVars, NEW h \in Node, NEW c \in Node, Asking(h, c)
  PROVE  Asking(h, c)' \/ Fetching(h, c)' \/ Broken(h, c)' \/ Crossing(h, c)'
  <1>1. CASE _on_peer_discovered(c, h)
    BY <1>1, AskDone
  <1> SUFFICES ASSUME Quiet(h, c)', ~_on_peer_discovered(c, h)
               PROVE  <<h, "ask">> \in task'[c] /\ h \notin cached'[c]
    BY <1>1, QuietStep DEF Asking
  <1>2. h # c /\ ~Broken(h, c)' /\ ~Overtaken(h, c) /\ <<h, "ask">> \in task[c]
        /\ h \notin cached[c] /\ h \in advertised
    BY DEF Quiet, Crossing, Asking, WiringInv, Advertises, Listens, Broken, Gone
  <1>3. CASE Same(c, h)
    BY <1>2, <1>3 DEF Same, Stage
  <1>4. CASE PeerStep(h, c)
    BY <1>2, <1>4, RequestKeptThere
  <1>5. CASE PeerStep(c, h)
    <2>1. <<h, "ask">> \in task'[c]
      BY <1>2, <1>5, RequestKept
    <2>2. UNCHANGED cached
      BY <1>2, <1>5 DEF PeerStep, add_service, update_service, Hears, _on_peer_lost,
         Fetch, KeyInit, LateTimeOut, KeyAck, TimeOut, send_or_queue, flush_peer,
         Retry, memory
    <2> QED BY <1>2, <2>1, <2>2
  <1> QED BY <1>2, <1>3, <1>4, <1>5, Bystanders

\* A request ends: the bundle is there, or an answer is missing.
LEMMA FetchDone ==
  ASSUME WiringInv, NEW h \in Node, NEW c \in Node, Fetching(h, c), Fetch(c, h)
  PROVE  Connecting(h, c)' \/ Broken(h, c)' \/ Crossing(h, c)'
  <1> SUFFICES ASSUME Quiet(h, c)' PROVE <<h, "connect">> \in task'[c]
    BY DEF Connecting, Fetching, Quiet, ApiUp, Fetch
  <1>1. ApiUp(h) /\ ~Gone(c, h) /\ <<c, h>> \notin unanswered'
    BY DEF Fetching, Quiet, Broken, Gone, ApiUp
  <1>2. PICK T : task' = [task EXCEPT ![c] = T \cup {<<h, "connect">>}]
    BY <1>1 DEF Fetch, Missed
  <1> QED BY <1>2 DEF WiringInv, NetTypeOK

LEMMA FetchingStep ==
  ASSUME WiringInv, [NetNext]_netVars, NEW h \in Node, NEW c \in Node, Fetching(h, c)
  PROVE  Fetching(h, c)' \/ Connecting(h, c)' \/ Broken(h, c)' \/ Crossing(h, c)'
  <1>1. CASE Fetch(c, h)
    BY <1>1, FetchDone
  <1> SUFFICES ASSUME Quiet(h, c)', ~Fetch(c, h)
               PROVE  <<h, "fetch">> \in task'[c]
    BY <1>1, QuietStep DEF Fetching
  <1>2. h # c /\ ~Broken(h, c)' /\ ~Overtaken(h, c) /\ <<h, "fetch">> \in task[c]
    BY DEF Quiet, Crossing, Fetching
  <1>3. CASE Same(c, h)
    BY <1>2, <1>3 DEF Same, Stage
  <1>4. CASE PeerStep(h, c)
    BY <1>2, <1>4, RequestKeptThere
  <1>5. CASE PeerStep(c, h)
    BY <1>2, <1>5, RequestKept
  <1> QED BY <1>2, <1>3, <1>4, <1>5, Bystanders

\* The key is sent and taken, or an answer is missing.
LEMMA CallDone ==
  ASSUME WiringInv, NEW h \in Node, NEW c \in Node, Connecting(h, c), CallStep(c, h)
  PROVE  Acking(h, c)' \/ Broken(h, c)' \/ Crossing(h, c)'
  <1> SUFFICES ASSUME Quiet(h, c)' PROVE ack'[c][h] # 0 /\ sess'[h][c] = ack'[c][h]
    BY DEF Acking, Connecting, Quiet, ApiUp, CallStep, KeyInit, KeyAck, TimeOut
  <1>1. ack[c][h] = 0 /\ <<c, h>> \notin unanswered'
    BY DEF Connecting, WiringInv, NetTypeOK, Quiet, Broken
  <1>2. Runs(h) /\ ~Gone(c, h)
    BY DEF Connecting, Quiet, Broken, Gone, Runs
  <1>3. ~KeyAck(c, h) /\ ~TimeOut(c, h)
    BY <1>1, <1>2 DEF KeyAck, TimeOut, Missed
  <1>4. KeyInit(c, h, "connect")
    BY <1>3 DEF CallStep
  <1>5. NewKey \in Key /\ NewKey # 0
    BY <1>4 DEF KeyInit, NewKey, Key
  <1>6. ack'[c][h] = NewKey /\ sess'[h][c] = NewKey
    BY <1>4 DEF KeyInit, WiringInv, NetTypeOK
  <1> QED BY <1>5, <1>6

\* A call that is not under way any more has been overtaken.
LEMMA ConnectingStep ==
  ASSUME WiringInv, [NetNext]_netVars, NEW h \in Node, NEW c \in Node, Connecting(h, c)
  PROVE  Connecting(h, c)' \/ Acking(h, c)' \/ Broken(h, c)' \/ Crossing(h, c)'
  <1>1. CASE CallStep(c, h)
    BY <1>1, CallDone
  <1> SUFFICES ASSUME Quiet(h, c)', ~CallStep(c, h)
               PROVE  <<h, "connect">> \in task'[c]
    BY <1>1, QuietStep DEF Connecting
  <1> USE DEF WiringInv, NetTypeOK
  <1>2. <<h, "connect">> \in task[c] /\ ~Overtaken(c, h) /\ ~Overtaken(c, h)' /\ h # c
    BY DEF Connecting, Quiet, Crossing
  <1>3. CASE Same(c, h)
    BY <1>2, <1>3 DEF Same, Stage
  <1>4. CASE \/ add_service(c, h) \/ update_service(c, h)
             \/ _on_peer_discovered(c, h) \/ _on_peer_lost(c, h)
    BY <1>2, <1>4 DEF add_service, update_service, Hears, _on_peer_discovered, _on_peer_lost
  <1>5. CASE Fetch(c, h)
    BY <1>2, <1>5 DEF Fetch
  <1>6. CASE \E t \in Stage : KeyInit(c, h, t) \/ LateTimeOut(c, h, t)
    BY <1>2, <1>6 DEF KeyInit, LateTimeOut, Overtaken, CallStep
  <1>7. CASE send_or_queue(c, h) \/ flush_peer(c, h) \/ Retry(c, h)
    BY <1>2, <1>7 DEF send_or_queue, flush_peer, Retry, memory
  <1>8. PeerStep(c, h) \/ Same(c, h)
    BY HostWaits DEF Connecting, Calling
  <1> QED BY <1>3, <1>4, <1>5, <1>6, <1>7, <1>8 DEF PeerStep, CallStep

\* A call ends: both have the key, or an answer is missing.
LEMMA AckDone ==
  ASSUME WiringInv, NEW h \in Node, NEW c \in Node, Acking(h, c), CallStep(c, h)
  PROVE  Linked(h, c)' \/ Broken(h, c)' \/ Crossing(h, c)'
  <1> SUFFICES ASSUME Quiet(h, c)' PROVE Linked(h, c)'
    BY DEF Acking, Quiet, ApiUp, CallStep, KeyInit, KeyAck, TimeOut
  <1>1. <<h, "connect">> \notin task[c] /\ <<c, h>> \notin unanswered' /\ h # c
    BY DEF Acking, WiringInv, NetTypeOK, Quiet, Broken
  <1>2. Runs(h) /\ ~Gone(c, h)
    BY DEF Acking, Quiet, Broken, Gone, Runs
  <1>3. ~KeyInit(c, h, "connect") /\ ~TimeOut(c, h)
    BY <1>1, <1>2 DEF KeyInit, TimeOut, Missed
  <1>4. KeyAck(c, h)
    BY <1>3 DEF CallStep
  <1> QED BY <1>1, <1>4 DEF KeyAck, Confirmed, Acking, Linked, WiringInv, NetTypeOK

LEMMA AckingStep ==
  ASSUME WiringInv, [NetNext]_netVars, NEW h \in Node, NEW c \in Node, Acking(h, c)
  PROVE  Acking(h, c)' \/ Linked(h, c)' \/ Broken(h, c)' \/ Crossing(h, c)'
  <1>1. CASE CallStep(c, h)
    BY <1>1, AckDone
  <1> SUFFICES ASSUME Quiet(h, c)', ~CallStep(c, h)
               PROVE  ack'[c][h] = ack[c][h] /\ sess'[h][c] = sess[h][c]
    BY <1>1, QuietStep DEF Acking
  <1> USE DEF WiringInv, NetTypeOK
  <1>2. /\ ack[c][h] # 0 /\ <<h, "connect">> \notin task[c] /\ h # c
        /\ ~Calling(h, c) /\ ~Overtaken(c, h) /\ ~Overtaken(c, h)'
    BY DEF Acking, Quiet, Crossing, Calling
  <1>3. CASE Same(c, h) /\ Same(h, c)
    BY <1>3 DEF Same
  <1>4. CASE Same(c, h) /\ PeerStep(h, c)
    <2>1. ~Overtaken(h, c)
      BY DEF Acking, Quiet, Crossing
    <2>2. ~(\E t \in Stage : KeyInit(h, c, t)) /\ ~KeyAck(h, c)
      BY <1>2, <2>1 DEF KeyInit, KeyAck, Calling, Overtaken
    <2>3. UNCHANGED sess
      BY <1>4, <2>2 DEF PeerStep, add_service, update_service, Hears,
         _on_peer_discovered, _on_peer_lost, Fetch, LateTimeOut, TimeOut,
         send_or_queue, flush_peer, Retry, memory, handshake
    <2> QED BY <1>4, <2>3 DEF Same
  <1>5. CASE Fetch(c, h)
    <2> DEFINE rest == task[c] \ {<<h, "fetch">>}
    <2>1. ack[c][h] \in {ack[c][h]} \ {0}
      BY <1>2
    <2>2. <<h, "late">> \in Superseded(rest, c, h)
      BY <2>1, Zenon DEF Superseded
    <2>3. ~(task' = [task EXCEPT ![c] = Superseded(rest, c, h) \cup {<<h, "connect">>}])
      BY <1>2, <2>2 DEF Overtaken
    <2> QED BY <1>5, <2>3 DEF Fetch
  <1>6. CASE \E t \in Stage : KeyInit(c, h, t) \/ LateTimeOut(c, h, t)
    BY <1>2, <1>6 DEF KeyInit, LateTimeOut, Overtaken
  <1>7. CASE \/ add_service(c, h) \/ update_service(c, h)
             \/ _on_peer_discovered(c, h) \/ _on_peer_lost(c, h)
             \/ send_or_queue(c, h) \/ flush_peer(c, h) \/ Retry(c, h)
    BY <1>7 DEF add_service, update_service, Hears, _on_peer_discovered, _on_peer_lost,
                send_or_queue, flush_peer, Retry, memory, handshake
  <1>8. \/ PeerStep(c, h) \/ (Same(c, h) /\ Same(h, c))
        \/ (Same(c, h) /\ PeerStep(h, c))
    BY <1>2, HostWaits DEF Acking, Calling
  <1> QED BY <1>3, <1>4, <1>5, <1>6, <1>7, <1>8 DEF PeerStep, CallStep

\* The newcomer hears of its host.
LEMMA HeardNow ==
  ASSUME WiringInv, NEW h \in Node, NEW c \in Node, Unheard(h, c), add_service(c, h)
  PROVE  Asking(h, c)' \/ Broken(h, c)' \/ Crossing(h, c)'
  BY DEF add_service, Hears, Unheard, Asking, Quiet, ApiUp, WiringInv, NetTypeOK

\* The newcomer and its host have the same key.
Links(h, c) == Joins(c, h) ~> (Linked(h, c) \/ Broken(h, c) \/ Crossing(h, c))

LEMMA PairLinked ==
  ASSUME NEW h \in Node, NEW c \in Node \ {h}
  PROVE  NetSpec /\ Turns(c, h) => Links(h, c)
  <1> DEFINE I == WiringInv
             U == Unheard(h, c)
             A == Asking(h, c)
             F == Fetching(h, c)
             C == Connecting(h, c)
             K == Acking(h, c)
             Q == Linked(h, c) \/ Broken(h, c) \/ Crossing(h, c)
             Hearing == c # h /\ Listens(c) /\ Listens(h) /\ h \notin known[c]
  <1>1. NetSpec => []I
    BY WiringInvariance
  <1>2. Joins(c, h) => U \/ Q
    BY DEF Joins, Unheard, Quiet, ApiUp
  <1>3. I /\ U /\ [NetNext]_netVars => U' \/ A' \/ F' \/ Q'
    BY UnheardStep
  <1>4. I /\ A /\ [NetNext]_netVars => A' \/ F' \/ Q'
    BY AskingStep
  <1>5. I /\ F /\ [NetNext]_netVars => F' \/ C' \/ Q'
    BY FetchingStep
  <1>6. I /\ C /\ [NetNext]_netVars => C' \/ K' \/ Q'
    BY ConnectingStep
  <1>7. I /\ K /\ [NetNext]_netVars => K' \/ Q'
    BY AckingStep
  <1>8. U => Hearing
    BY DEF Listens, Unheard, Quiet, Broken, Gone
  <1>9. I /\ U /\ <<add_service(c, h)>>_netVars => A' \/ Q'
    BY HeardNow
  <1>10. I /\ A /\ <<_on_peer_discovered(c, h)>>_netVars => F' \/ Q'
    BY AskDone
  <1>11. I /\ F /\ <<Fetch(c, h)>>_netVars => C' \/ Q'
    BY FetchDone
  <1>12. I /\ C /\ <<CallStep(c, h)>>_netVars => K' \/ Q'
    BY CallDone
  <1>13. I /\ K /\ <<CallStep(c, h)>>_netVars => Q'
    BY AckDone
  <1>14. A => <<h, "ask">> \in task[c]
    BY DEF Asking
  <1>15. F => <<h, "fetch">> \in task[c]
    BY DEF Fetching
  <1>16. C \/ K => Calling(c, h)
    BY DEF Connecting, Acking, Calling
  <1> HIDE DEF I, U, A, F, C, K, Q
  <1>17. NetSpec /\ Turns(c, h) => (U ~> (A \/ F \/ Q))
    BY <1>1, <1>3, <1>8, <1>9, PTL DEF NetSpec, Turns, GoesOn, CanGoOn
  <1>18. NetSpec /\ Turns(c, h) => (A ~> (F \/ Q))
    BY <1>1, <1>4, <1>10, <1>14, PTL DEF NetSpec, Turns, GoesOn, CanGoOn
  <1>19. NetSpec /\ Turns(c, h) => (F ~> (C \/ Q))
    BY <1>1, <1>5, <1>11, <1>15, PTL DEF NetSpec, Turns, GoesOn, CanGoOn
  <1>20. NetSpec /\ Turns(c, h) => (C ~> (K \/ Q))
    BY <1>1, <1>6, <1>12, <1>16, PTL DEF NetSpec, Turns, GoesOn, CanGoOn
  <1>21. NetSpec /\ Turns(c, h) => (K ~> Q)
    BY <1>1, <1>7, <1>13, <1>16, PTL DEF NetSpec, Turns, GoesOn, CanGoOn
  <1> USE DEF Q
  <1> QED BY <1>2, <1>17, <1>18, <1>19, <1>20, <1>21, PTL DEF Links

\* Every node takes its turns.
LEMMA FairTurns ==
  ASSUME NEW n \in Node, NEW m \in Node \ {n}
  PROVE  NetFairSpec /\ []StepsEnabled => NetSpec /\ Turns(n, m)
  <1>1. NetFairSpec => NetSpec /\ GoesOn(n, m)
    BY DEF NetFairSpec
  <1>2. StepsEnabled => CanGoOn(n, m)
    BY DEF StepsEnabled
  <1> QED BY <1>1, <1>2, PTL DEF Turns

\* A node that starts while another serves its API has the same key as that one
\* in the end, unless an answer is missing or the other calls it at the same
\* time; whatever the rest of the network does meanwhile.
THEOREM NewcomerLinkedThm == NetFairSpec /\ []StepsEnabled => NewcomerLinked
  <1>1. ASSUME NEW n \in Node, NEW m \in Node \ {n}
        PROVE  NetFairSpec /\ []StepsEnabled => Links(n, m)
    <2>1. m \in Node /\ n \in Node \ {m}
      OBVIOUS
    <2> QED BY <2>1, FairTurns, PairLinked
  <1> QED BY <1>1 DEF NewcomerLinked, Links

-----------------------------------------------------------------------------
(* A queued message.                                                       *)

\* A call that waits for KEY_ACK has left its key with the peer.
Left(i, j) == ack[i][j] # 0 => sess[j][i] = ack[i][j]

\* The key the sender holds is the receiver's, or will be, or is about to be
\* replaced.
Shared(s, r) ==
  sess[s][r] # 0 => \/ sess[r][s] = sess[s][r] \/ ack[r][s] = sess[s][r]
                    \/ ack[s][r] # 0

\* The message is on disk; or under way, with a key that the receiver has or will
\* have.
Waits(s, r) == out[s][r] = "queued" /\ Left(s, r) /\ Left(r, s) /\ Shared(s, r)
UnderWay(s, r) ==
  /\ out[s][r] = "sent" /\ Left(s, r) /\ Left(r, s)
  /\ flight[s][r] # 0 /\ flight[s][r] \in {sess[r][s], ack[r][s]}

\* Both are there, no answer is missing and no two calls cross.
Calm(i, j) == ~Broken(i, j) /\ ~Broken(j, i) /\ ~Crossing(i, j)

\* It makes no difference which of the two one asks.
LEMMA CalmBoth ==
  ASSUME NEW s \in Node, NEW r \in Node
  PROVE  /\ Calm(s, r) => Calm(r, s)
         /\ Calm(s, r) => /\ ~Overtaken(s, r) /\ ~Gone(s, r) /\ <<s, r>> \notin unanswered
                          /\ ~(Calling(s, r) /\ Calling(r, s))
         /\ ~Calm(s, r) => Settled(s, r)
  BY DEF Calm, Settled, Broken, Crossing, Gone

\* What a step does to the keys of a pair: nothing; i takes the key of its call;
\* or brings one to j.
KeysStay(i, j) ==
  /\ ack'[i][j] = ack[i][j] /\ ack'[j][i] = ack[j][i]
  /\ sess'[i][j] = sess[i][j] /\ sess'[j][i] = sess[j][i]
KeyTaken(i, j) ==
  /\ ack[i][j] # 0 /\ ack'[i][j] = 0 /\ sess'[i][j] = ack[i][j]
  /\ ack'[j][i] = ack[j][i] /\ sess'[j][i] = sess[j][i]
KeyBrought(i, j) ==
  /\ <<j, "connect">> \in task[i] /\ ack'[i][j] # 0 /\ sess'[j][i] = ack'[i][j]
  /\ ack'[j][i] = 0 /\ sess'[i][j] = sess[i][j]

LEMMA KeyMoves ==
  ASSUME WiringInv, NEW i \in Node, NEW j \in Node, i # j, PeerStep(i, j),
         Calm(i, j), Calm(i, j)'
  PROVE  KeysStay(i, j) \/ KeyTaken(i, j) \/ KeyBrought(i, j)
  <1> USE DEF WiringInv, NetTypeOK
  <1>1. /\ ~Overtaken(i, j) /\ ~Overtaken(i, j)' /\ ~Gone(i, j)
        /\ <<i, j>> \notin unanswered'
    BY CalmBoth DEF Calm, Broken, Crossing
  <1>2. CASE \/ add_service(i, j) \/ update_service(i, j)
             \/ _on_peer_discovered(i, j) \/ _on_peer_lost(i, j)
             \/ send_or_queue(i, j) \/ flush_peer(i, j) \/ Retry(i, j)
    BY <1>2 DEF KeysStay, add_service, update_service, Hears, _on_peer_discovered,
                _on_peer_lost, send_or_queue, flush_peer, Retry, memory, handshake
  <1>3. CASE Fetch(i, j)
    <2> DEFINE rest == task[i] \ {<<j, "fetch">>}
    <2>1. CASE /\ task' = [task EXCEPT ![i] = Superseded(rest, i, j) \cup {<<j, "connect">>}]
               /\ ack' = Placed(i, j)
      <3>1. <<j, "late">> \notin Superseded(rest, i, j)
        BY <1>1, <2>1 DEF Overtaken
      <3>2. ack[i][j] \notin {ack[i][j]} \ {0}
        BY <3>1, Zenon DEF Superseded
      <3> QED BY <1>3, <2>1, <3>2 DEF Fetch, Placed, KeysStay
    <2>2. CASE ack' = ack
      BY <1>3, <2>2 DEF Fetch, KeysStay
    <2> QED BY <1>3, <2>1, <2>2 DEF Fetch
  <1>4. ASSUME NEW t \in Stage, KeyInit(i, j, t)
        PROVE  KeyBrought(i, j)
    <2>1. t = "connect" /\ <<j, "connect">> \in task[i]
      BY <1>1, <1>4 DEF KeyInit, Overtaken
    <2>2. NewKey \in Key /\ NewKey # 0
      BY <1>4 DEF KeyInit, NewKey, Key
    <2> QED BY <1>4, <2>1, <2>2 DEF KeyInit, KeyBrought
  <1>5. CASE KeyAck(i, j)
    BY <1>5 DEF KeyAck, Confirmed, KeyTaken
  <1>6. ~TimeOut(i, j)
    <2>1. TimeOut(i, j) => ~Runs(j)
      BY <1>1 DEF TimeOut, Missed
    <2> QED BY <1>1, <2>1 DEF Gone, Runs
  <1>7. ~(\E t \in Stage : LateTimeOut(i, j, t))
    BY <1>1 DEF LateTimeOut, Overtaken
  <1> QED BY <1>2, <1>3, <1>4, <1>5, <1>6, <1>7 DEF PeerStep

\* The same of a step of either, or of anybody else.
LEMMA PairKeys ==
  ASSUME WiringInv, [NetNext]_netVars, NEW s \in Node, NEW r \in Node, s # r,
         Calm(s, r), Calm(s, r)'
  PROVE  \/ KeysStay(s, r) \/ KeyTaken(s, r) \/ KeyBrought(s, r)
         \/ KeyTaken(r, s) \/ KeyBrought(r, s)
  <1>1. ~Broken(s, r)' /\ Calm(r, s) /\ Calm(r, s)'
    BY DEF Calm, Broken, Crossing, Gone
  <1>2. CASE Same(s, r) /\ Same(r, s)
    BY <1>2 DEF Same, KeysStay
  <1>3. CASE PeerStep(s, r)
    BY <1>3, KeyMoves
  <1>4. CASE PeerStep(r, s)
    <2>1. KeysStay(r, s) \/ KeyTaken(r, s) \/ KeyBrought(r, s)
      BY <1>1, <1>4, KeyMoves
    <2> QED BY <2>1 DEF KeysStay
  <1> QED BY <1>1, <1>2, <1>3, <1>4, Bystanders

\* The steps that a message of s takes.
LEMMA MessageMoves ==
  ASSUME WiringInv, [NetNext]_netVars, NEW s \in Node, NEW r \in Node, s # r,
         ~Broken(s, r)'
  PROVE  \/ send_or_queue(s, r) \/ flush_peer(s, r) \/ Retry(s, r)
         \/ out'[s][r] = out[s][r] /\ flight'[s][r] = flight[s][r]
  <1>1. CASE Same(s, r)
    BY <1>1 DEF Same
  <1>2. CASE PeerStep(r, s)
    BY <1>2 DEF PeerStep, add_service, update_service, Hears, _on_peer_discovered,
       _on_peer_lost, Fetch, KeyInit, LateTimeOut, KeyAck, TimeOut, send_or_queue,
       flush_peer, Retry, Sends, message, WiringInv, NetTypeOK
  <1>3. CASE PeerStep(s, r)
    BY <1>3 DEF PeerStep, add_service, update_service, Hears, _on_peer_discovered,
       _on_peer_lost, Fetch, KeyInit, LateTimeOut, KeyAck, TimeOut, message
  <1> QED BY <1>1, <1>2, <1>3, Bystanders

\* A flush sends the message under a key the receiver has or will have; or it
\* will not, because the sender is about to have another one.
LEMMA FlushDone ==
  ASSUME WiringInv, NEW s \in Node, NEW r \in Node, s # r, Waits(s, r),
         flush_peer(s, r)
  PROVE  UnderWay(s, r)' \/ Settled(s, r)'
  <1> SUFFICES ASSUME ~Settled(s, r)' PROVE UnderWay(s, r)'
    OBVIOUS
  <1>1. /\ out'[s][r] = "sent" /\ flight'[s][r] = sess[s][r] /\ sess[s][r] # 0
        /\ sess' = sess /\ ack' = ack
    BY DEF flush_peer, Flushable, Sends, memory, handshake, WiringInv, NetTypeOK
  <1>2. ack[s][r] \in {0, flight'[s][r]}
    BY <1>1 DEF Settled, Rekeying
  <1>3. flight'[s][r] \in {sess[r][s], ack[r][s]}
    BY <1>1, <1>2 DEF Waits, Shared, Left
  <1> QED BY <1>1, <1>3 DEF UnderWay, Waits, Left

\* The keys of a pair stay in step.
LEMMA KeysAgree ==
  ASSUME WiringInv, [NetNext]_netVars, NEW s \in Node, NEW r \in Node, s # r,
         Calm(s, r), Calm(s, r)', Left(s, r), Left(r, s)
  PROVE  /\ Left(s, r)' /\ Left(r, s)'
         /\ Shared(s, r) => Shared(s, r)'
         /\ sess[s][r] # 0 => sess'[s][r] # 0
  <1>1. ack[s][r] = 0 \/ ack[r][s] = 0
    BY CalmBoth DEF Calling
  <1>2. CASE KeysStay(s, r)
    BY <1>2 DEF KeysStay, Left, Shared
  <1>3. CASE KeyTaken(s, r)
    BY <1>1, <1>3 DEF KeyTaken, Left, Shared
  <1>4. CASE KeyBrought(s, r)
    BY <1>4 DEF KeyBrought, Left, Shared
  <1>5. CASE KeyTaken(r, s)
    BY <1>1, <1>5 DEF KeyTaken, Left, Shared
  <1>6. CASE KeyBrought(r, s)
    BY <1>6 DEF KeyBrought, Left, Shared
  <1> QED BY <1>2, <1>3, <1>4, <1>5, <1>6, PairKeys

\* A message that is queued stays so until it is flushed, and a session of its
\* sender stays one.
LEMMA WaitsStep ==
  ASSUME WiringInv, [NetNext]_netVars, NEW s \in Node, NEW r \in Node, s # r,
         Waits(s, r), ~Settled(s, r)
  PROVE  \/ Waits(s, r)' /\ (sess[s][r] # 0 => sess'[s][r] # 0)
         \/ UnderWay(s, r)' \/ Settled(s, r)'
  <1>1. CASE flush_peer(s, r)
    BY <1>1, FlushDone
  <1> SUFFICES ASSUME ~Settled(s, r)', ~flush_peer(s, r)
               PROVE  Waits(s, r)' /\ (sess[s][r] # 0 => sess'[s][r] # 0)
    BY <1>1
  <1>2. Calm(s, r) /\ Calm(s, r)'
    BY DEF Calm, Settled
  <1>3. out'[s][r] = "queued"
    BY <1>2, MessageMoves DEF Calm, send_or_queue, Retry, Waits
  <1> QED BY <1>2, <1>3, KeysAgree DEF Waits

\* A datagram arrives, or an answer is missing.
LEMMA RetryDone ==
  ASSUME WiringInv, NEW s \in Node, NEW r \in Node, s # r, UnderWay(s, r),
         ~Settled(s, r), Retry(s, r)
  PROVE  Settled(s, r)'
  <1>1. CASE out' = [out EXCEPT ![s][r] = "arrived"]
    BY <1>1 DEF Settled, WiringInv, NetTypeOK
  <1>2. CASE Missed(flight[s][r] \in {sess[r][s], ack[r][s]}, s, r)
    <2>1. ~Gone(s, r)
      BY DEF Settled, Broken
    <2>2. <<s, r>> \in unanswered'
      BY <1>2, <2>1 DEF Missed, UnderWay
    <2> QED BY <2>2 DEF Settled, Broken
  <1> QED BY <1>1, <1>2 DEF Retry

LEMMA UnderWayStep ==
  ASSUME WiringInv, [NetNext]_netVars, NEW s \in Node, NEW r \in Node, s # r,
         UnderWay(s, r), ~Settled(s, r)
  PROVE  UnderWay(s, r)' \/ Settled(s, r)'
  <1>1. CASE Retry(s, r)
    BY <1>1, RetryDone
  <1> SUFFICES ASSUME ~Settled(s, r)', ~Retry(s, r) PROVE UnderWay(s, r)'
    BY <1>1
  <1>2. Calm(s, r) /\ Calm(s, r)' /\ ~Rekeying(s, r)
    BY DEF Calm, Settled
  <1>3. out'[s][r] = "sent" /\ flight'[s][r] = flight[s][r]
    BY <1>2, MessageMoves DEF Calm, send_or_queue, flush_peer, Flushable, UnderWay
  <1>4. Left(s, r)' /\ Left(r, s)'
    BY <1>2, KeysAgree DEF UnderWay
  <1>5. ~KeyBrought(s, r) /\ ~KeyBrought(r, s)
    BY <1>2 DEF Rekeying, UnderWay, KeyBrought
  <1>6. CASE KeysStay(s, r) \/ KeyTaken(s, r)
    BY <1>3, <1>4, <1>6 DEF UnderWay, KeysStay, KeyTaken
  <1>7. CASE KeyTaken(r, s)
    BY <1>2, <1>3, <1>4, <1>7 DEF UnderWay, KeyTaken, Rekeying
  <1> QED BY <1>2, <1>5, <1>6, <1>7, PairKeys

\* A newcomer that has its session is the sender or the receiver, and then so has
\* the other.
LEMMA LinkedHolds ==
  ASSUME NEW h \in Node, NEW c \in Node, NEW s \in Node, NEW r \in Node,
         Ends(s, r, h, c), Linked(h, c)
  PROVE  sess[s][r] # 0
  BY DEF Ends, Linked

\* The message of s to r is through when c has joined h.
Arrives(h, c, s, r) == (Joins(c, h) /\ Queued(s, r)) ~> Settled(s, r)

\* The message waits until the two are linked, the link lets it go, and under way
\* it arrives.
LEMMA PairArrives ==
  ASSUME NEW h \in Node, NEW c \in Node \ {h}, NEW s \in Node, NEW r \in Node,
         Ends(s, r, h, c)
  PROVE  NetSpec /\ Turns(c, h) /\ Turns(s, r) => Arrives(h, c, s, r)
  <1> DEFINE I == WiringInv
             L == Linked(h, c)
             X == Broken(h, c) \/ Crossing(h, c)
             W == Waits(s, r)
             V == sess[s][r] # 0
             G == UnderWay(s, r)
             D == Settled(s, r)
             J == Joins(c, h)
             N == Queued(s, r)
  <1>1. s # r
    BY DEF Ends
  <1>2. NetSpec => []I
    BY WiringInvariance
  <1>3. NetSpec /\ Turns(c, h) => Links(h, c)
    BY PairLinked
  <1>4. X => D
    BY DEF Ends, Settled, Broken, Crossing, Gone
  <1>5. N => W
    BY DEF Queued, Waits, Left, Shared
  <1>6. L => V
    BY LinkedHolds
  <1>7. I /\ W /\ ~D /\ [NetNext]_netVars => (W' /\ (V => V')) \/ G' \/ D'
    BY <1>1, WaitsStep
  <1>8. I /\ G /\ ~D /\ [NetNext]_netVars => G' \/ D'
    BY <1>1, UnderWayStep
  <1>9. I /\ W /\ <<MessageStep(s, r)>>_netVars => G' \/ D'
    BY <1>1, FlushDone DEF MessageStep, Retry, Waits
  <1>10. I /\ G /\ ~D /\ <<MessageStep(s, r)>>_netVars => D'
    BY <1>1, RetryDone DEF MessageStep, flush_peer, Flushable, UnderWay
  <1>11. W /\ V /\ ~D => Flushable(s, r)
    BY DEF Waits, Flushable, Settled, Broken, Gone, Runs
  <1>12. G => out[s][r] = "sent"
    BY DEF UnderWay
  <1> HIDE DEF I, L, X, W, V, G, D, J, N
  <1>13. NetSpec /\ Turns(s, r) => (G ~> D)
    BY <1>2, <1>8, <1>10, <1>12, PTL DEF NetSpec, Turns, GoesOn, CanGoOn
  <1>14. NetSpec /\ Turns(s, r) => ((W /\ V) ~> (G \/ D))
    BY <1>2, <1>7, <1>9, <1>11, PTL DEF NetSpec, Turns, GoesOn, CanGoOn
  <1>15. NetSpec /\ Turns(c, h) => ((J /\ W) ~> ((W /\ V) \/ G \/ D))
    BY <1>2, <1>3, <1>4, <1>6, <1>7, PTL DEF NetSpec, Links, J, L, X
  <1>16. NetSpec /\ Turns(c, h) /\ Turns(s, r) => ((J /\ N) ~> D)
    BY <1>5, <1>13, <1>14, <1>15, PTL
  <1> QED BY <1>16 DEF Arrives, J, N, D

\* What was queued for a peer arrives when either of the two joins the other,
\* unless an answer is missing or a second call takes part: no step loses it
\* between the disk, the sender's memory and the datagram.
THEOREM QueuedArrivesThm == NetFairSpec /\ []StepsEnabled => QueuedArrives
  <1>1. ASSUME NEW p \in Mail
        PROVE  NetFairSpec /\ []StepsEnabled
                 => Arrives(p[2], p[1], p[1], p[2]) /\ Arrives(p[1], p[2], p[1], p[2])
    <2>1. p[1] \in Node /\ p[2] \in Node \ {p[1]} /\ p[1] \in Node \ {p[2]} /\ p[2] \in Node
      BY MailAssumption
    <2>2. Ends(p[1], p[2], p[2], p[1]) /\ Ends(p[1], p[2], p[1], p[2])
      BY DEF Ends
    <2>3. NetFairSpec /\ []StepsEnabled => NetSpec /\ Turns(p[1], p[2]) /\ Turns(p[2], p[1])
      BY <2>1, FairTurns
    <2> QED BY <2>1, <2>2, <2>3, PairArrives
  <1>2. ASSUME NEW p \in Mail
        PROVE  NetFairSpec /\ []StepsEnabled
                 => (((Joins(p[1], p[2]) \/ Joins(p[2], p[1])) /\ Queued(p[1], p[2]))
                       ~> Settled(p[1], p[2]))
    BY <1>1, PTL DEF Arrives
  <1> QED BY <1>2 DEF QueuedArrives

============================================================================
