------------------------------ MODULE AutoConnect ------------------------------
(***************************************************************************)
(* The wiring of whole nodes, _run_node of cli/mesim_cli.py: the order in  *)
(* which a node starts and stops its parts, and what discovery, the API,   *)
(* the transport and store and forward do to each other when nodes come    *)
(* and go.  A device that discovery reports is tried once: the records of  *)
(* its service are asked for, its bundle is fetched from its API, connect  *)
(* opens a session, and the session lets the queue go.  None of the four   *)
(* is repeated when it fails.                                              *)
(*                                                                         *)
(* A call of connect is followed by what it does to _pending and to the    *)
(* sessions of both ends: HANDSHAKE, its answer and KEY_INIT are one step, *)
(* KEY_ACK is another, and each node handles them whatever it has under    *)
(* way itself, so that two calls may take each other's entry and leave two *)
(* keys.  Packets that outlive their call, and more than one call of a     *)
(* node without an entry, are in Handshake only.  Of the messages one node *)
(* sends another, the first is followed: one datagram, and its retries.    *)
(*                                                                         *)
(* Names that Discovery has for one node are others here (NetInit, cached),*)
(* so that the proofs can extend both modules.                             *)
(***************************************************************************)
EXTENDS Naturals

CONSTANTS Node,
          NoApi,      \* nodes that advertise no API port
          Mail,       \* <<n, m>>: n has a message for m
          MaxStarts,  \* bound on how often each node starts
          MaxKeys     \* bound on the session keys in use at once

ASSUME MaxStartsAssumption == MaxStarts \in [Node -> Nat]
ASSUME MaxKeysAssumption == MaxKeys \in Nat
ASSUME NoApiAssumption == NoApi \subseteq Node
ASSUME MailAssumption == Mail \subseteq {p \in Node \X Node : p[1] # p[2]}

VARIABLES
  phase,       \* how far _run_node of a node is: see Phase
  starts,      \* how often it was started
  advertised,  \* nodes whose mDNS records have neither been withdrawn nor expired
  known,       \* the services the browser of each node has heard of
  cached,      \* discovery._peers of each node
  task,        \* its coroutines: the device and the stage, see Stage
  ack,         \* the key of the call that waits for its KEY_ACK, 0: none
  sess,        \* get_sessions(): the key, 0: none
  out,         \* the message a node has for another: see Fate
  flight,      \* the key its datagram was built with, 0: none under way
  unanswered   \* history, while both start or serve: <<n, m>> if an answer to n,
               \* or its message, did not come through although m was there for it

network == <<advertised, unanswered>>
handshake == <<ack, sess>>
message == <<out, flight>>
memory == <<known, cached, task, handshake>>
netVars == <<phase, starts, network, memory, message>>

\* starting: all but the API runs; closing: the API is gone; leaving: so are the
\* mDNS records.
Phase == {"down", "starting", "up", "closing", "leaving"}

\* ask: _on_service_added waits for the records; fetch: for the bundle; connect:
\* the call has an entry in _pending and has not sent its key.  stale and late:
\* calls whose entry is gone, before and after their KEY_INIT; they do no more
\* than pop what they find there when they time out.
Stage == {"ask", "fetch", "connect", "stale", "late"}

\* queued is on disk, sent in _in_flight; lost is in neither.
Fate == {"none", "queued", "sent", "arrived", "lost"}

Key == 1 .. MaxKeys

\* _pending has one entry for an address, of a call that waits for the answer to
\* HANDSHAKE or of one that waits for KEY_ACK.
NetTypeOK ==
  /\ phase \in [Node -> Phase]
  /\ starts \in [Node -> Nat] /\ \A n \in Node : starts[n] <= MaxStarts[n]
  /\ advertised \subseteq Node
  /\ known \in [Node -> SUBSET Node] /\ cached \in [Node -> SUBSET Node]
  /\ task \in [Node -> SUBSET (Node \X Stage)]
  /\ ack \in [Node -> [Node -> Key \cup {0}]]
  /\ sess \in [Node -> [Node -> Key \cup {0}]]
  /\ out \in [Node -> [Node -> Fate]]
  /\ flight \in [Node -> [Node -> Key \cup {0}]]
  /\ unanswered \subseteq Node \X Node
  /\ \A n, m \in Node : ack[n][m] # 0 => <<m, "connect">> \notin task[n]

NetInit ==
  /\ phase = [n \in Node |-> "down"]
  /\ starts = [n \in Node |-> 0]
  /\ advertised = {} /\ unanswered = {}
  /\ known = [n \in Node |-> {}]
  /\ cached = [n \in Node |-> {}]
  /\ task = [n \in Node |-> {}]
  /\ ack = [n \in Node |-> [m \in Node |-> 0]]
  /\ sess = [n \in Node |-> [m \in Node |-> 0]]
  /\ out = [n \in Node |-> [m \in Node |-> "none"]]
  /\ flight = [n \in Node |-> [m \in Node |-> 0]]

----------------------------------------------------------------------------
(* Mutated forms of definitions below; no run of the project uses them.    *)

MutConfirmed(n, m) == sess
MutPlaced(n, m) == ack

----------------------------------------------------------------------------
(* A node starts and stops                                                 *)

Runs(n) == phase[n] # "down"
ApiUp(n) == phase[n] = "up"

\* One of the two is down or on its way.
Gone(n, m) == ~({phase[n], phase[m]} \subseteq {"starting", "up"})

\* Stores, transport, router, store and forward, discovery: the browser listens
\* and the node is advertised.
Start(n) ==
  /\ phase[n] = "down"
  /\ starts[n] < MaxStarts[n]
  /\ phase' = [phase EXCEPT ![n] = "starting"]
  /\ starts' = [starts EXCEPT ![n] = @ + 1]
  /\ advertised' = advertised \cup {n}
  /\ UNCHANGED <<memory, message, unanswered>>

\* Then uvicorn.
Serve(n) ==
  /\ phase[n] = "starting"
  /\ phase' = [phase EXCEPT ![n] = "up"]
  /\ UNCHANGED <<starts, network, memory, message>>

Without(n) == {p \in unanswered : n \notin {p[1], p[2]}}

\* The REPL ends and uvicorn with it; then the ordered shutdown, goodbye first.
Quit(n) ==
  /\ phase[n] = "up"
  /\ phase' = [phase EXCEPT ![n] = "closing"]
  /\ unanswered' = Without(n)
  /\ UNCHANGED <<starts, advertised, memory, message>>

Goodbye(n) ==
  /\ phase[n] = "closing"
  /\ phase' = [phase EXCEPT ![n] = "leaving"]
  /\ advertised' = advertised \ {n}
  /\ UNCHANGED <<starts, memory, message, unanswered>>

\* The memory of the process is gone, with what it was sending; what it queued
\* is not.
Ended(n) ==
  LET none == [m \in Node |-> 0] IN
  /\ phase' = [phase EXCEPT ![n] = "down"]
  /\ known' = [known EXCEPT ![n] = {}]
  /\ cached' = [cached EXCEPT ![n] = {}]
  /\ task' = [task EXCEPT ![n] = {}]
  /\ ack' = [ack EXCEPT ![n] = none]
  /\ sess' = [sess EXCEPT ![n] = none]
  /\ flight' = [flight EXCEPT ![n] = none]
  /\ out' = [out EXCEPT ![n] =
               [m \in Node |-> IF out[n][m] = "sent" THEN "lost" ELSE out[n][m]]]
  /\ unanswered' = Without(n)
  /\ UNCHANGED <<starts, advertised>>

Stop(n) == phase[n] = "leaving" /\ Ended(n)

\* It dies; its mDNS records live on until they expire.
Crash(n) == Runs(n) /\ Ended(n)

Expire(n) ==
  /\ ~Runs(n) /\ n \in advertised
  /\ advertised' = advertised \ {n}
  /\ UNCHANGED <<phase, starts, memory, message, unanswered>>

----------------------------------------------------------------------------
(* Discovery and its callbacks                                             *)

\* The callbacks are registered before discovery starts.
Listens(n) == phase[n] \in {"starting", "up", "closing"}

\* An answer that was there to give did not come.
Missed(there, n, m) ==
  unanswered' = IF there /\ ~Gone(n, m) THEN unanswered \cup {<<n, m>>} ELSE unanswered

\* The browser hears of a service, once; and again when mDNS has news of it, which
\* changes nothing for a device that is cached.
Hears(n, m) ==
  /\ n # m /\ Listens(n) /\ Listens(m)
  /\ known' = [known EXCEPT ![n] = @ \cup {m}]
  /\ task' = [task EXCEPT ![n] = @ \cup {<<m, "ask">>}]
  /\ UNCHANGED <<phase, starts, network, cached, handshake, message>>

add_service(n, m) == m \notin known[n] /\ Hears(n, m)
update_service(n, m) == m \in known[n] \ cached[n] /\ Hears(n, m)

\* The records come, from the device or from the zeroconf cache: a new device
\* with an API port starts a coroutine.  Or three seconds pass, and nobody asks
\* again.
_on_peer_discovered(n, m) ==
  LET rest == task[n] \ {<<m, "ask">>} IN
  /\ <<m, "ask">> \in task[n]
  /\ \/ /\ cached' = [cached EXCEPT ![n] = @ \cup {m}]
        /\ task' = [task EXCEPT ![n] =
             IF m \in cached[n] \cup NoApi THEN rest ELSE rest \cup {<<m, "fetch">>}]
        /\ UNCHANGED unanswered
     \/ /\ task' = [task EXCEPT ![n] = rest]
        /\ Missed(Listens(m), n, m)
        /\ UNCHANGED cached
  /\ UNCHANGED <<phase, starts, advertised, known, handshake, message>>

\* The session is kept.
_on_peer_lost(n, m) ==
  /\ Listens(n)
  /\ m \in known[n] /\ m \notin advertised
  /\ known' = [known EXCEPT ![n] = @ \ {m}]
  /\ cached' = [cached EXCEPT ![n] = @ \ {m}]
  /\ UNCHANGED <<phase, starts, network, task, handshake, message>>

----------------------------------------------------------------------------
(* A call of connect                                                       *)

\* Of the tasks S, the call that has the entry of n for m loses it.
Superseded(S, n, m) ==
  (S \ {<<m, "connect">>})
    \cup {<<m, "stale">> : t \in S \cap {<<m, "connect">>}}
    \cup {<<m, "late">> : k \in {ack[n][m]} \ {0}}

Placed(n, m) == [ack EXCEPT ![n][m] = 0]

\* The bundle comes and connect is called, over an older entry if there is one;
\* or the API is not there, or does not answer with 200 in five seconds.
Fetch(n, m) ==
  LET rest == task[n] \ {<<m, "fetch">>} IN
  /\ <<m, "fetch">> \in task[n]
  /\ \/ /\ ApiUp(m)
        /\ task' = [task EXCEPT ![n] = Superseded(rest, n, m) \cup {<<m, "connect">>}]
        /\ ack' = Placed(n, m)
        /\ UNCHANGED unanswered
     \/ /\ task' = [task EXCEPT ![n] = rest]
        /\ Missed(ApiUp(m), n, m)
        /\ UNCHANGED ack
  /\ UNCHANGED <<phase, starts, advertised, known, cached, sess, message>>

InUse(k) == \E i, j \in Node : k \in {sess[i][j], ack[i][j], flight[i][j]}
NewKey == CHOOSE k \in Key : ~InUse(k)

\* m answers HANDSHAKE and takes KEY_INIT: it has the session, and its own entry
\* for n is gone.
KeyInit(n, m, c) ==
  LET rest == task[n] \ {<<m, c>>} IN
  /\ <<m, c>> \in task[n]
  /\ n # m /\ Runs(m)
  /\ \E k \in Key : ~InUse(k)
  /\ sess' = [sess EXCEPT ![m][n] = NewKey]
  /\ \/ /\ c = "connect"
        /\ ack' = [ack EXCEPT ![n][m] = NewKey, ![m][n] = 0]
        /\ task' = [task EXCEPT ![n] = rest, ![m] = Superseded(@, m, n)]
     \/ /\ c = "stale"
        /\ ack' = [ack EXCEPT ![m][n] = 0]
        /\ task' = [task EXCEPT ![n] = rest \cup {<<m, "late">>}, ![m] = Superseded(@, m, n)]
  /\ UNCHANGED <<phase, starts, network, known, cached, message>>

\* KEY_ACK, under the key of the entry: n has the session too.
Confirmed(n, m) == [sess EXCEPT ![n][m] = ack[n][m]]

KeyAck(n, m) ==
  /\ ack[n][m] # 0
  /\ sess' = Confirmed(n, m)
  /\ ack' = [ack EXCEPT ![n][m] = 0]
  /\ UNCHANGED <<phase, starts, network, known, cached, task, message>>

\* Ten seconds without the answer to HANDSHAKE, or without KEY_ACK.
TimeOut(n, m) ==
  /\ <<m, "connect">> \in task[n] \/ ack[n][m] # 0
  /\ task' = [task EXCEPT ![n] = @ \ {<<m, "connect">>}]
  /\ ack' = [ack EXCEPT ![n][m] = 0]
  /\ Missed(Runs(m), n, m)
  /\ UNCHANGED <<phase, starts, advertised, known, cached, sess, message>>

\* A call that has no entry any more pops another's.
LateTimeOut(n, m, c) ==
  /\ c \in {"stale", "late"} /\ <<m, c>> \in task[n]
  /\ task' = [task EXCEPT ![n] = Superseded(@ \ {<<m, c>>}, n, m)]
  /\ ack' = [ack EXCEPT ![n][m] = 0]
  /\ UNCHANGED <<phase, starts, network, known, cached, sess, message>>

\* The call that has the entry gets on.
CallStep(n, m) == KeyInit(n, m, "connect") \/ KeyAck(n, m) \/ TimeOut(n, m)

----------------------------------------------------------------------------
(* A message                                                               *)

Sends(n, m) ==
  /\ out' = [out EXCEPT ![n][m] = "sent"]
  /\ flight' = [flight EXCEPT ![n][m] = sess[n][m]]

send_or_queue(n, m) ==
  /\ <<n, m>> \in Mail
  /\ phase[n] = "up"
  /\ out[n][m] = "none"
  /\ \/ sess[n][m] # 0 /\ Sends(n, m)
     \/ sess[n][m] = 0 /\ out' = [out EXCEPT ![n][m] = "queued"] /\ UNCHANGED flight
  /\ UNCHANGED <<phase, starts, network, memory>>

\* The connect callback, or a turn of _flush_loop: the row is deleted.
Flushable(n, m) == Runs(n) /\ sess[n][m] # 0 /\ out[n][m] = "queued"

flush_peer(n, m) ==
  /\ Flushable(n, m)
  /\ Sends(n, m)
  /\ UNCHANGED <<phase, starts, network, memory>>

\* A datagram passes verify_mac under the key it was built with.  After
\* MAX_RETRIES it is given up: m was there for it if it has that key, or is
\* about to have it.
Retry(n, m) ==
  /\ out[n][m] = "sent"
  /\ \/ /\ Runs(m) /\ sess[m][n] = flight[n][m]
        /\ out' = [out EXCEPT ![n][m] = "arrived"]
        /\ UNCHANGED unanswered
     \/ /\ out' = [out EXCEPT ![n][m] = "lost"]
        /\ Missed(flight[n][m] \in {sess[m][n], ack[m][n]}, n, m)
  /\ flight' = [flight EXCEPT ![n][m] = 0]
  /\ UNCHANGED <<phase, starts, advertised, memory>>

\* The message gets on.
MessageStep(n, m) == flush_peer(n, m) \/ Retry(n, m)

NetNext ==
  \/ \E n \in Node : \/ Start(n) \/ Serve(n) \/ Quit(n) \/ Goodbye(n) \/ Stop(n)
                     \/ Crash(n) \/ Expire(n)
  \/ \E n, m \in Node :
       \/ add_service(n, m) \/ update_service(n, m)
       \/ _on_peer_discovered(n, m) \/ _on_peer_lost(n, m) \/ Fetch(n, m)
       \/ \E c \in Stage : KeyInit(n, m, c) \/ LateTimeOut(n, m, c)
       \/ KeyAck(n, m) \/ TimeOut(n, m)
       \/ send_or_queue(n, m) \/ flush_peer(n, m) \/ Retry(n, m)

NetSpec == NetInit /\ [][NetNext]_netVars

\* mDNS repeats its announcements, a request, a call and the retries of a datagram
\* end (all have timeouts), and the queue is flushed.
GoesOn(n, m) == /\ WF_netVars(add_service(n, m))
                /\ WF_netVars(_on_peer_discovered(n, m))
                /\ WF_netVars(Fetch(n, m))
                /\ WF_netVars(CallStep(n, m))
                /\ WF_netVars(MessageStep(n, m))

NetFairSpec == NetSpec /\ \A n \in Node : \A m \in Node \ {n} : GoesOn(n, m)

----------------------------------------------------------------------------
(* Properties                                                              *)

\* Both hold the same key.
Linked(n, m) == sess[n][m] # 0 /\ sess[m][n] = sess[n][m]

\* n calls m, with an entry of its own.
Calling(n, m) == <<m, "connect">> \in task[n] \/ ack[n][m] # 0

\* n has called m over a call of its own, or had its call's entry taken by m's.
Overtaken(n, m) == <<m, "stale">> \in task[n] \/ <<m, "late">> \in task[n]

\* Two calls between n and m run at once.
Crossing(n, m) == (Calling(n, m) /\ Calling(m, n)) \/ Overtaken(n, m) \/ Overtaken(m, n)

\* n's datagram to m is under way while a call brings another key than its own.
Rekeying(n, m) ==
  /\ out[n][m] = "sent"
  /\ \/ <<m, "connect">> \in task[n] \/ ack[n][m] \notin {0, flight[n][m]}
     \/ <<n, "connect">> \in task[m] \/ ack[m][n] \notin {0, flight[n][m]}

\* The newcomer m has yet to hear of n, which serves its bundle.
Joins(m, n) ==
  /\ n # m /\ n \notin NoApi /\ phase[n] = "up" /\ phase[m] = "starting"
  /\ n \notin known[m] /\ n \notin cached[m] /\ ~Calling(m, n)

\* One of the two has left, or an answer did not come.
Broken(n, m) == Gone(n, m) \/ <<m, n>> \in unanswered

\* A node that starts while another serves its API has the same key as that one
\* in the end, however often both had been there before and crashed, and whatever
\* the other has cached of it; unless both call at the same time.
NewcomerLinked ==
  \A n \in Node : \A m \in Node \ {n} :
    Joins(m, n) ~> (Linked(n, m) \/ Broken(n, m) \/ Crossing(n, m))

\* The message of s to r waits on disk; neither waits for a KEY_ACK, which may
\* bring the key of an older process.
Queued(s, r) == out[s][r] = "queued" /\ sess[s][r] = 0 /\ ack[s][r] = 0 /\ ack[r][s] = 0

\* The message is through, or the network or a second call had a part in it.
Settled(s, r) ==
  \/ out[s][r] = "arrived" \/ Broken(s, r) \/ Broken(r, s)
  \/ Crossing(s, r) \/ Rekeying(s, r)

\* What was queued for a peer arrives when that peer starts, and when the sender
\* itself starts again; unless a session of an older process swallows it.
QueuedArrives ==
  \A p \in Mail : LET s == p[1]  r == p[2] IN
    ((Joins(s, r) \/ Joins(r, s)) /\ Queued(s, r)) ~> Settled(s, r)
=============================================================================
