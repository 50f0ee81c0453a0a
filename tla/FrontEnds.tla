------------------------------ MODULE FrontEnds ------------------------------
(***************************************************************************)
(* What the two front ends of a node do with messages: the REST API,       *)
(* api/server.py, behind its rate limiter, and the console, class MesimCLI *)
(* of cli/mesim_cli.py, behind its inactivity lock.  Both hand messages to *)
(* send_or_queue and record them in the message store; received messages   *)
(* are acknowledged by the transport and recorded by a task of their own.  *)
(*                                                                         *)
(* A coroutine runs alone until it awaits something that is not ready, so  *)
(* sending and recording are one step, unless the store refuses the row or *)
(* the process dies between the two databases.  A peer id is a model value *)
(* in one of the spellings the code tells apart.  Of the queue only what   *)
(* it holds for whom is kept (StoreForward has the rest), of the store the *)
(* rows in their order.                                                    *)
(***************************************************************************)
EXTENDS Naturals, Sequences, FiniteSets

CONSTANTS Peer, Client, None,
          Typed,      \* the spellings users and programs give
          Limit,      \* requests_per_minute
          Window,     \* the 60 seconds of the limiter
          MaxQueue,   \* MAX_QUEUE_PER_PEER
          LockAfter,  \* --lock-timeout
          MaxMsg,     \* bound on the messages sent and received
          MaxTime     \* bound on the clock

\* A spelling and the peers it stands for: the canonical id; its 32 digits
\* without hyphens; the beginning of ids, at least eight characters long (of no
\* peer's id, or shorter: {}).
Name == [form : {"id", "hex", "prefix"}, of : SUBSET Peer]
Id(p) == [form |-> "id", of |-> {p}]
Hex(p) == [form |-> "hex", of |-> {p}]
Prefix(S) == [form |-> "prefix", of |-> S]

ASSUME TypedAssumption ==
  /\ Typed \subseteq Name
  /\ \A x \in Typed : x.form # "prefix" => \E p \in Peer : x.of = {p}
ASSUME FrontBoundsAssumption ==
  /\ Limit \in Nat \ {0} /\ Window \in Nat /\ MaxQueue \in Nat /\ LockAfter \in Nat
  /\ MaxMsg \in Nat /\ MaxTime \in Nat
ASSUME FrontNoneAssumption == None \notin Nat

VARIABLES
  sessions,  \* peers with a session
  queue,     \* rows of the forward queue, on disk
  history,   \* rows of the message store, on disk, in the order of their ids
  calls,     \* requests to /send that passed the limiter
  inbox,     \* tasks of _on_message_received, in the order they were created
  repl,      \* where run_repl is: see Console
  bucket,    \* rate_buckets
  now,       \* time.time()
  msgs,      \* messages so far; a message is its number
  typed,     \* history: the spelling each message was sent with
  wire,      \* history: what the transport was given, for whom
  acked,     \* history: what it acknowledged, from whom
  lost,      \* history: messages whose record the store refused or a process
             \* that ended took with it
  log,       \* history: times of all requests accepted from a client
  refused    \* history: when a client was last refused

node == <<sessions, calls, inbox, repl>>
disk == <<queue, history>>
limiter == <<bucket, log, refused>>
told == <<typed, wire, acked, lost>>
vars == <<node, disk, limiter, now, msgs, told>>

Msg == 1 .. MaxMsg
Time == 0 .. MaxTime

\* down: no process; read: the prompt was shown at a time, and a line is read;
\* unlock: the passphrase is asked for; ended: the node shuts down.
Console == [at : {"down", "read", "unlock", "ended"}, last : Time, shown : Time]

TypeOK ==
  /\ sessions \subseteq Peer
  /\ queue \subseteq [msg : Msg, key : Name]
  /\ history \in Seq([msg : Msg, key : Name, dir : {"sent", "recv"}])
  /\ calls \subseteq [msg : Msg, name : Typed]
  /\ inbox \in Seq([msg : Msg, from : Peer])
  /\ repl \in Console
  /\ bucket \in [Client -> Seq(Time)] /\ log \in [Client -> Seq(Time)]
  /\ refused \in [Client -> Time \cup {None}]
  /\ now \in Time /\ msgs \in 0 .. MaxMsg
  /\ typed \subseteq [msg : Msg, name : Typed]
  /\ wire \subseteq [msg : Msg, to : Peer]
  /\ acked \subseteq [msg : Msg, from : Peer]
  /\ lost \subseteq Msg

NoCalls == /\ bucket = [c \in Client |-> <<>>]
           /\ log = [c \in Client |-> <<>>]
           /\ refused = [c \in Client |-> None]

Init ==
  /\ sessions = {} /\ calls = {} /\ inbox = <<>>
  /\ repl = [at |-> "down", last |-> 0, shown |-> 0]
  /\ queue = {} /\ history = <<>>
  /\ NoCalls
  /\ now = 0 /\ msgs = 0
  /\ typed = {} /\ wire = {} /\ acked = {} /\ lost = {}

----------------------------------------------------------------------------
(* Mutated forms of definitions below; no run of the project uses them.    *)

Mutnormalize(x) == x
MutCliKey(x) == x
MutEvict(b) ==
  LET old == {i \in DOMAIN b : \A j \in 1 .. i : b[j] + Window <= now}
  IN SubSeq(b, Cardinality(old) + 1, Len(b))
MutLocked(last) == now > last + LockAfter
MutRound(last) == repl' = [at |-> "read", last |-> last + LockAfter, shown |-> now]

----------------------------------------------------------------------------
(* The process                                                             *)

Up == repl.at # "down"
Serving == repl.at \in {"read", "unlock"}

Start ==
  /\ ~Up
  /\ repl' = [at |-> "read", last |-> now, shown |-> now]
  /\ UNCHANGED <<sessions, calls, inbox, disk, limiter, now, msgs, told>>

\* The process ends; with it the messages it has acknowledged and not recorded.
Gone(more) ==
  /\ repl' = [at |-> "down", last |-> 0, shown |-> 0]
  /\ sessions' = {} /\ calls' = {} /\ inbox' = <<>>
  /\ bucket' = [c \in Client |-> <<>>]
  /\ log' = [c \in Client |-> <<>>]
  /\ refused' = [c \in Client |-> None]
  /\ lost' = lost \cup more \cup {inbox[i].msg : i \in DOMAIN inbox}

\* It is killed, or shuts down: uvicorn waits for its requests, nothing for the
\* tasks of the transport.
End ==
  /\ Up
  /\ Gone({})
  /\ UNCHANGED <<disk, now, msgs, typed, wire, acked>>

Connect(p) ==
  /\ Up
  /\ p \notin sessions
  /\ sessions' = sessions \cup {p}
  /\ UNCHANGED <<calls, inbox, repl, disk, limiter, now, msgs, told>>

Tick ==
  /\ now < MaxTime
  /\ now' = now + 1
  /\ UNCHANGED <<node, disk, limiter, msgs, told>>

----------------------------------------------------------------------------
(* Sending and recording                                                   *)

normalize_peer_id(x) == IF x.form = "hex" THEN [x EXCEPT !.form = "id"] ELSE x

\* send_or_queue: with the session of that name, else the queue.
Target(x) == {p \in sessions : normalize_peer_id(x) = Id(p)}
Waiting(k) == {r \in queue : r.key = k}

send_or_queue(m, x) ==
  IF Target(x) # {}
  THEN /\ wire' = wire \cup {[msg |-> m, to |-> p] : p \in Target(x)}
       /\ UNCHANGED queue
  ELSE /\ Cardinality(Waiting(normalize_peer_id(x))) < MaxQueue
       /\ queue' = queue \cup {[msg |-> m, key |-> normalize_peer_id(x)]}
       /\ UNCHANGED wire

\* Its OverflowError.
QueueFull(x) == Target(x) = {} /\ Cardinality(Waiting(normalize_peer_id(x))) >= MaxQueue

save_message(m, x, d) == history' = Append(history, [msg |-> m, key |-> x, dir |-> d])

\* flush_peer: the oldest row of a connected peer goes out.
flush_peer(p) ==
  /\ Up /\ p \in sessions
  /\ \E r \in Waiting(Id(p)) :
       /\ \A q \in Waiting(Id(p)) : r.msg <= q.msg
       /\ queue' = queue \ {r}
       /\ wire' = wire \cup {[msg |-> r.msg, to |-> p]}
  /\ UNCHANGED <<node, history, limiter, now, msgs, typed, acked, lost>>

\* _handle_message has answered with an ACK and made a task of the callback.
Receive(p) ==
  /\ Up /\ p \in sessions
  /\ msgs < MaxMsg
  /\ msgs' = msgs + 1
  /\ acked' = acked \cup {[msg |-> msgs + 1, from |-> p]}
  /\ inbox' = Append(inbox, [msg |-> msgs + 1, from |-> p])
  /\ UNCHANGED <<sessions, calls, repl, disk, limiter, now, typed, wire, lost>>

\* The task runs; what save_message raises ends it.
_on_message_received ==
  /\ inbox # <<>>
  /\ inbox' = Tail(inbox)
  /\ \/ /\ save_message(Head(inbox).msg, Id(Head(inbox).from), "recv")
        /\ UNCHANGED lost
     \/ /\ lost' = lost \cup {Head(inbox).msg}
        /\ UNCHANGED history
  /\ UNCHANGED <<sessions, calls, repl, queue, limiter, now, msgs, typed, wire, acked>>

----------------------------------------------------------------------------
(* The REST API                                                            *)

\* Timestamps in front of a bucket that have left the window are dropped.
Evict(b) ==
  LET old == {i \in DOMAIN b : \A j \in 1 .. i : b[j] + Window < now}
  IN SubSeq(b, Cardinality(old) + 1, Len(b))

\* A request for POST /send, or (x = None) one that changes nothing behind the
\* limiter: the other endpoints, and a message that is too large.
_rate_limit(c, x) ==
  LET b == Evict(bucket[c]) IN
  /\ Serving
  /\ IF Len(b) >= Limit
     THEN /\ bucket' = [bucket EXCEPT ![c] = b]
          /\ refused' = [refused EXCEPT ![c] = now]
          /\ UNCHANGED <<log, calls, msgs, typed>>
     ELSE /\ bucket' = [bucket EXCEPT ![c] = Append(b, now)]
          /\ log' = [log EXCEPT ![c] = Append(@, now)]
          /\ UNCHANGED refused
          /\ \/ x = None /\ UNCHANGED <<calls, msgs, typed>>
             \/ /\ x # None /\ msgs < MaxMsg
                /\ msgs' = msgs + 1
                /\ calls' = calls \cup {[msg |-> msgs + 1, name |-> x]}
                /\ typed' = typed \cup {[msg |-> msgs + 1, name |-> x]}
  /\ UNCHANGED <<sessions, inbox, repl, disk, now, wire, acked, lost>>

\* The name under which POST /send records.
ApiKey(x) == normalize_peer_id(x)

send_message(r) ==
  /\ r \in calls
  /\ \/ /\ send_or_queue(r.msg, r.name)
        /\ save_message(r.msg, ApiKey(r.name), "sent")
        /\ calls' = calls \ {r}
        /\ UNCHANGED <<sessions, inbox, repl, limiter, lost>>
     \/ /\ send_or_queue(r.msg, r.name)               \* save_message raises: 500
        /\ lost' = lost \cup {r.msg}
        /\ calls' = calls \ {r}
        /\ UNCHANGED <<sessions, inbox, repl, limiter, history>>
     \/ /\ send_or_queue(r.msg, r.name)               \* killed between the two
        /\ Gone({r.msg})
        /\ UNCHANGED history
     \/ /\ QueueFull(r.name)                           \* 503
        /\ calls' = calls \ {r}
        /\ UNCHANGED <<sessions, inbox, repl, limiter, lost, disk, wire>>
  /\ UNCHANGED <<now, msgs, typed, acked>>

----------------------------------------------------------------------------
(* The console                                                             *)

\* _is_locked, at the time the loop comes round.
Locked(last) == now >= last + LockAfter

\* run_repl: ask for the passphrase, or show the prompt and read a line.
Round(last) ==
  repl' = IF Locked(last) THEN [at |-> "unlock", last |-> last, shown |-> repl.shown]
          ELSE [at |-> "read", last |-> last, shown |-> now]

\* _prompt_unlock: the right passphrase; any other is asked for again.
Unlock ==
  /\ repl.at = "unlock"
  /\ repl' = [at |-> "read", last |-> now, shown |-> now]
  /\ UNCHANGED <<sessions, calls, inbox, disk, limiter, now, msgs, told>>

\* A line that sends nothing: empty, quit (or the end of input), any other
\* command.
Line ==
  /\ repl.at = "read"
  /\ \/ Round(repl.last)
     \/ repl' = [repl EXCEPT !.at = "ended"]
     \/ Round(now)
  /\ UNCHANGED <<sessions, calls, inbox, disk, limiter, now, msgs, told>>

\* The sessions a typed name selects: the exact one, or by a prefix.
Matches(x) == {p \in sessions : x.form # "hex" /\ p \in x.of}
Resolved(x) == IF Matches(x) = {} THEN x ELSE Id(CHOOSE p \in Matches(x) : TRUE)

\* The name under which send records: typed as digits without hyphens and with
\* no prefix to resolve, it stays as it is.
CliKey(x) == Resolved(x)

_cmd_send(x) ==
  LET m == msgs + 1 IN
  /\ repl.at = "read"
  /\ msgs < MaxMsg
  /\ Cardinality(Matches(x)) <= 1        \* else the matches are shown
  /\ ~QueueFull(Resolved(x))             \* else the error is
  /\ msgs' = m
  /\ typed' = typed \cup {[msg |-> m, name |-> x]}
  /\ send_or_queue(m, Resolved(x))
  /\ \/ /\ save_message(m, CliKey(x), "sent")
        /\ Round(now)
        /\ UNCHANGED <<sessions, calls, inbox, limiter, lost>>
     \/ /\ lost' = lost \cup {m}        \* save_message raises: out of run_repl
        /\ repl' = [repl EXCEPT !.at = "ended"]
        /\ UNCHANGED <<sessions, calls, inbox, limiter, history>>
     \/ /\ Gone({m})
        /\ UNCHANGED history
  /\ UNCHANGED <<now, acked>>

Next ==
  \/ Start \/ End \/ Tick \/ _on_message_received \/ Unlock \/ Line
  \/ \E p \in Peer : Connect(p) \/ flush_peer(p) \/ Receive(p)
  \/ \E c \in Client, x \in Typed \cup {None} : _rate_limit(c, x)
  \/ \E r \in calls : send_message(r)
  \/ \E x \in Typed : _cmd_send(x)

Spec == Init /\ [][Next]_vars

----------------------------------------------------------------------------
(* Properties                                                              *)

Rows(m) == {i \in DOMAIN history : history[i].msg = m}
Given(m) == {w.to : w \in {v \in wire : v.msg = m}}
Held(m) == {r.key : r \in {q \in queue : q.msg = m}}

\* The history is that of the node's messages: what was sent, queued or received
\* stands in it once, under a spelling of the peer it went to, waits for or came
\* from; what is not there the store refused, or a process that ended still had
\* to record.  Nothing else is in it.
Recorded ==
  /\ \A m \in Msg : Cardinality(Rows(m)) <= 1
  /\ \A t \in typed : Given(t.msg) # {} \/ Held(t.msg) # {} => Rows(t.msg) # {} \/ t.msg \in lost
  /\ \A a \in acked : \/ \E i \in Rows(a.msg) : history[i].key = Id(a.from)
                      \/ a.msg \in lost \/ \E i \in DOMAIN inbox : inbox[i].msg = a.msg
  /\ \A i \in DOMAIN history :
       LET k == normalize_peer_id(history[i].key) IN
       history[i].dir = "sent" =>
         k \in Held(history[i].msg) \/ \E p \in Given(history[i].msg) : k = Id(p)

\* A message goes to one peer, one its typed name stands for, whatever sessions
\* came and went since it was typed; and one typed with a full id, in either
\* spelling and through either front end, waits where the flush of that peer
\* looks for it.
RightPeer ==
  /\ \A v, w \in wire : v.msg = w.msg => v = w
  /\ \A t \in typed, w \in wire : w.msg = t.msg => w.to \in t.name.of
  /\ \A t \in typed, r \in queue, p \in Peer :
       r.msg = t.msg /\ t.name \in {Id(p), Hex(p)} => r.key = Id(p)

\* The bucket, from which timestamps are dropped as requests come, decides as the
\* complete record would: a request is refused if and only if Limit were accepted
\* in the window.
Recent(c) == Cardinality({i \in DOMAIN log[c] : log[c][i] + Window >= now})
WindowExact ==
  [][\A c \in Client :
       /\ Len(log'[c]) > Len(log[c]) => Recent(c) < Limit
       /\ refused'[c] \notin {refused[c], None} => Recent(c) >= Limit]_vars

\* A prompt that takes commands was shown to a user who had been active within
\* the timeout, or had just given the passphrase.
PromptFresh == repl.at = "read" /\ LockAfter > 0 => repl.shown < repl.last + LockAfter
=============================================================================
