---------------------------- MODULE StoreForward ----------------------------
(***************************************************************************)
(* Store and forward, mesh/store_forward.py: the persistent ForwardQueue   *)
(* and the StoreForward coordinator of one node, with the start, stop and  *)
(* crash of the process that runs them (cli/mesim_cli.py, _run_node).      *)
(*                                                                         *)
(* What the event loop runs without suspending is not interleaved with     *)
(* other local work: send_or_queue, and the whole of flush_peer and of a   *)
(* sweep of _flush_loop, whose awaits of transport.send never suspend.     *)
(* The process can die between any two of their effects, though, so a      *)
(* flush is a series of steps, each one a call of transport.send or one    *)
(* commit of SQLite, and nothing local but the flush goes on meanwhile.    *)
(*                                                                         *)
(* SQLite may refuse a statement (disk full, file locked).  In flush_peer  *)
(* the same handler takes a refused delete for a failed send; a refused    *)
(* update leaves flush_peer, and ends _flush_loop when it made the call.   *)
(* A refused insert or purge changes nothing, but for the purge at the     *)
(* end, which a crash misses as well.                                      *)
(***************************************************************************)
EXTENDS Naturals, FiniteSets

CONSTANTS Peer,
          None,
          Message,      \* those offered, each for a peer
          Oversize,     \* those transport.send cannot fragment (more than 255)
          MaxQueue,     \* MAX_QUEUE_PER_PEER
          TTL,          \* TTL_SECONDS
          MaxTime,      \* bound on the clock
          MaxFailures   \* bound on crashes and deletes refused, together

ASSUME BoundsAssumption ==
  /\ MaxQueue \in Nat /\ TTL \in Nat /\ MaxTime \in Nat
  /\ MaxFailures \in Nat
ASSUME MessageAssumption == Message \subseteq [to : Peer, n : Nat] /\ Oversize \subseteq Message

\* A flush_peer under way: its peer, the ids of the rows left to send, whether
\* the first of them is sent and not yet marked, and who called it.
Flush == [peer : Peer, todo : SUBSET Nat, sent : BOOLEAN, by : {"task", "loop"}]

ASSUME NoneAssumption == None \notin Flush

VARIABLES
  rows,     \* table forward_queue, on disk
  nextRow,  \* its AUTOINCREMENT counter, on disk
  up,       \* the process runs
  sess,     \* peers in transport.get_sessions(): never removed while up
  tasks,    \* peers with a flush_peer task scheduled by _on_peer_connected
  sweep,    \* peers that the present turn of _flush_loop has still to visit
  loop,     \* the task of _flush_loop is alive
  flush,    \* the flush_peer that runs, or None
  now,      \* time.time()
  accepted, \* history: messages send_or_queue returned for
  handed,   \* history: messages given to transport.send, which took them
  resent,   \* history: how often one was given to it again
  expired,  \* history: messages whose rows purge_expired deleted
  crashes,  \* history: crashes so far
  refused   \* history: how often SQLite refused mark_sent

disk == <<rows, nextRow>>
memory == <<up, sess, tasks, sweep, loop, flush>>
history == <<accepted, handed, resent, expired, crashes, refused>>
vars == <<disk, memory, history, now>>

\* A row.  The column attempt, which nothing in the program reads, is left out:
\* increment_attempt changes nothing else.
Row == [id : Nat \ {0}, msg : Message, expires : TTL .. MaxTime + TTL]

TypeOK ==
  /\ rows \subseteq Row
  /\ \A r1, r2 \in rows : r1.id = r2.id => r1 = r2
  /\ nextRow \in Nat \ {0}
  /\ now \in 0 .. MaxTime
  /\ up \in BOOLEAN
  /\ sess \subseteq Peer /\ tasks \subseteq Peer /\ sweep \subseteq Peer
  /\ loop \in BOOLEAN /\ flush \in {None} \cup Flush
  /\ (~up => flush = None /\ sess = {} /\ tasks = {} /\ sweep = {} /\ ~loop)
  /\ accepted \subseteq Message /\ handed \subseteq Message

Init ==
  /\ rows = {} /\ nextRow = 1
  /\ up = TRUE
  /\ sess = {} /\ tasks = {} /\ sweep = {} /\ loop = TRUE /\ flush = None
  /\ now = 0
  /\ accepted = {} /\ handed = {} /\ resent = 0 /\ expired = {}
  /\ crashes = 0 /\ refused = 0

----------------------------------------------------------------------------
(* Mutated forms of definitions below; no run of the project uses them.    *)

MutOlder(r1, r2) == r1.id > r2.id
MutDelete(i) == rows
MutExpiredRows == {r \in rows : r.expires <= now + 1}
MutAdvance(r) == flush' = None
MutNewRow(m) == [id |-> 1, msg |-> m, expires |-> now + TTL]

----------------------------------------------------------------------------
(* ForwardQueue                                                            *)

Live(r) == r.expires > now

\* The live rows of a peer, and their number.
Pending(p) == {r \in rows : r.msg.to = p /\ Live(r)}
queue_size(p) == Cardinality(Pending(p))

\* ORDER BY queued_at ASC, id ASC; queued_at is expires_at - TTL.
Older(r1, r2) == r1.expires < r2.expires \/ (r1.expires = r2.expires /\ r1.id < r2.id)

\* get_pending: of each row its id; First below takes them in that order.
get_pending(p) == {r.id : r \in Pending(p)}

NewRow(m) == [id |-> nextRow, msg |-> m, expires |-> now + TTL]

enqueue(m) ==
  /\ queue_size(m.to) < MaxQueue      \* else OverflowError
  /\ rows' = rows \cup {NewRow(m)}
  /\ nextRow' = nextRow + 1

\* mark_sent's DELETE.
Delete(i) == {r \in rows : r.id # i}

ExpiredRows == {r \in rows : ~Live(r)}

purge_expired ==
  /\ rows' = rows \ ExpiredRows
  /\ expired' = expired \cup {r.msg : r \in {x \in rows : x.expires <= now}}

----------------------------------------------------------------------------
(* StoreForward                                                            *)

\* The event loop is free for another task.
Idle == up /\ flush = None /\ sweep = {}

\* transport.send takes the message if there is a session and it fits;
\* otherwise it raises.
Sendable(m) == m.to \in sess /\ m \notin Oversize

Hand(m) ==
  /\ handed' = handed \cup {m}
  /\ resent' = IF m \in handed THEN resent + 1 ELSE resent

\* Messages to a peer that differ in their number only are offered in its order.
InTurn(m) ==
  \A x \in Message : x.to = m.to /\ x.n < m.n /\ (x \in Oversize <=> m \in Oversize)
                     => x \in accepted

\* send_or_queue, for a message not offered before.
send_or_queue(m) ==
  /\ Idle
  /\ m \notin accepted /\ InTurn(m)
  /\ accepted' = accepted \cup {m}
  /\ \/ /\ m.to \in sess
        /\ Sendable(m)
        /\ Hand(m)
        /\ UNCHANGED disk
     \/ /\ m.to \notin sess
        /\ enqueue(m)
        /\ UNCHANGED <<handed, resent>>
  /\ UNCHANGED <<memory, expired, crashes, refused, now>>

\* A handshake completes, the first or a later one: the session is there and
\* _on_peer_connected schedules a flush.
_on_peer_connected(p) ==
  /\ Idle
  /\ sess' = sess \cup {p}
  /\ tasks' = tasks \cup {p}
  /\ UNCHANGED <<disk, up, sweep, loop, flush, history, now>>

\* flush_peer up to its loop over the pending rows.
Begin(p, caller) ==
  LET b == get_pending(p) IN
  flush' = IF b = {} THEN None
           ELSE [peer |-> p, todo |-> b, sent |-> FALSE, by |-> caller]

RunTask(p) ==
  /\ Idle
  /\ p \in tasks
  /\ tasks' = tasks \ {p}
  /\ Begin(p, "task")
  /\ UNCHANGED <<disk, up, sess, sweep, loop, history, now>>

\* A turn of _flush_loop visits every peer with a session.
_flush_loop ==
  /\ Idle
  /\ loop
  /\ sess # {}
  /\ sweep' = sess
  /\ UNCHANGED <<disk, up, sess, tasks, loop, flush, history, now>>

Visit(p) ==
  /\ up /\ flush = None
  /\ p \in sweep
  /\ sweep' = sweep \ {p}
  /\ Begin(p, "loop")
  /\ UNCHANGED <<disk, up, sess, tasks, loop, history, now>>

\* SQLite refuses a query before there is anything to send: the exception ends
\* the task, or _flush_loop for the rest of the process's life.
TaskDies(p) ==
  /\ Idle
  /\ p \in tasks
  /\ tasks' = tasks \ {p}
  /\ UNCHANGED <<disk, up, sess, sweep, loop, flush, history, now>>

LoopDies ==
  /\ up /\ flush = None
  /\ sweep # {}
  /\ sweep' = {}
  /\ loop' = FALSE
  /\ UNCHANGED <<disk, up, sess, tasks, flush, history, now>>

\* The loop of flush_peer is at row r: it goes through its rows in order.
First(r) ==
  /\ r.id \in flush.todo
  /\ \A s \in rows : s.id \in flush.todo /\ s # r => Older(r, s)

Advance(r) ==
  LET rest == flush.todo \ {r.id} IN
  flush' = IF rest = {} THEN None
           ELSE [peer |-> flush.peer, todo |-> rest, sent |-> FALSE, by |-> flush.by]

FlushSend(r) ==
  /\ flush # None /\ ~flush.sent
  /\ First(r)
  /\ Sendable(r.msg)
  /\ Hand(r.msg)
  /\ flush' = [peer |-> flush.peer, todo |-> flush.todo, sent |-> TRUE, by |-> flush.by]
  /\ UNCHANGED <<disk, up, sess, tasks, sweep, loop, accepted, expired, crashes, refused, now>>

FlushMark(r) ==
  /\ flush # None /\ flush.sent
  /\ First(r)
  /\ rows' = Delete(r.id)
  /\ Advance(r)
  /\ UNCHANGED <<nextRow, up, sess, tasks, sweep, loop, history, now>>

\* mark_sent raises: the row stays, as if transport.send had failed, and a later
\* flush sends it again.
MarkRefused(r) ==
  /\ flush # None /\ flush.sent
  /\ First(r)
  /\ crashes + refused < MaxFailures
  /\ refused' = refused + 1
  /\ Advance(r)
  /\ UNCHANGED <<disk, up, sess, tasks, sweep, loop, accepted, handed, resent, expired,
                 crashes, now>>

\* transport.send raises: the row stays, for a later flush.
FlushFail(r) ==
  /\ flush # None /\ ~flush.sent
  /\ First(r)
  /\ ~Sendable(r.msg)
  /\ Advance(r)
  /\ UNCHANGED <<disk, up, sess, tasks, sweep, loop, history, now>>

\* increment_attempt raises, after transport.send or mark_sent did: nothing
\* catches that in flush_peer, nor in _flush_loop.
FlushDies(r) ==
  /\ flush # None
  /\ First(r)
  /\ \/ ~flush.sent /\ ~Sendable(r.msg) /\ UNCHANGED refused
     \/ flush.sent /\ crashes + refused < MaxFailures /\ refused' = refused + 1
  /\ flush' = None
  /\ IF flush.by = "loop" THEN sweep' = {} /\ loop' = FALSE ELSE UNCHANGED <<sweep, loop>>
  /\ UNCHANGED <<disk, up, sess, tasks, accepted, handed, resent, expired, crashes, now>>

----------------------------------------------------------------------------
(* The process and its surroundings                                        *)

Down == /\ up' = FALSE
        /\ sess' = {} /\ tasks' = {} /\ sweep' = {} /\ loop' = FALSE /\ flush' = None

\* Ordered shutdown, between two tasks.  stop awaits the task of _flush_loop and
\* raises what ended it; _run_node then leaves before it purges.
Stop ==
  /\ Idle
  /\ Down
  /\ IF loop THEN purge_expired ELSE UNCHANGED <<rows, expired>>
  /\ UNCHANGED <<nextRow, accepted, handed, resent, crashes, refused, now>>

Crash ==
  /\ up /\ crashes + refused < MaxFailures
  /\ crashes' = crashes + 1
  /\ Down
  /\ UNCHANGED <<disk, accepted, handed, resent, expired, refused, now>>

\* _run_node: opens the queue and purges it, then starts the rest.
Start ==
  /\ ~up
  /\ up' = TRUE /\ loop' = TRUE
  /\ purge_expired
  /\ UNCHANGED <<nextRow, sess, tasks, sweep, flush, accepted, handed, resent, crashes,
                 refused, now>>

Tick ==
  /\ now < MaxTime
  /\ now' = now + 1
  /\ UNCHANGED <<disk, memory, history>>

Next ==
  \/ \E m \in Message : send_or_queue(m)
  \/ \E p \in Peer : \/ _on_peer_connected(p)
                     \/ RunTask(p)
                     \/ Visit(p)
                     \/ TaskDies(p)
  \/ _flush_loop \/ LoopDies
  \/ \E r \in rows : FlushSend(r) \/ FlushMark(r) \/ FlushFail(r)
  \/ \E r \in rows : MarkRefused(r) \/ FlushDies(r)
  \/ Stop \/ Crash \/ Start
  \/ Tick

Spec == Init /\ [][Next]_vars

\* The event loop takes the tasks that are ready in the order they became so:
\* none is passed over for ever by the flushes of other peers, nor is
\* _flush_loop after its _FLUSH_INTERVAL.  A flush goes on once begun.
FairSpec == /\ Spec
            /\ SF_vars(_flush_loop)
            /\ \A p \in Peer : SF_vars(RunTask(p)) /\ WF_vars(Visit(p))
            /\ WF_vars(\E r \in rows : FlushSend(r) \/ FlushMark(r) \/ FlushFail(r))

----------------------------------------------------------------------------
(* Properties                                                              *)

\* A message send_or_queue returned for is never dropped silently: it was
\* given to the transport, or it is on disk, or its row reached its time to
\* live.  Crashes at any point of a flush included.
NoSilentLoss ==
  \A m \in accepted : m \in handed \/ m \in expired \/ \E r \in rows : r.msg = m

\* Each crash and each refused delete makes at most one message go out twice,
\* and nothing else does: flush_peer marks a row as soon as it has sent it.
\* Flushes of the same peer by the connect callback and by _flush_loop resend
\* nothing.
ResentByFailureOnly == resent <= crashes + refused

\* flush_peer sends a peer's oldest message first: while one goes out, no older
\* live row of the peer is left but those the transport refuses, and those that
\* went out before and could not be deleted.
OldestFirst ==
  (flush # None /\ flush.sent) =>
    \A h, r \in rows :
      First(h) /\ r.msg.to = flush.peer /\ Live(r) /\ r.id < h.id
        => r.msg \in Oversize \cup handed

\* Store and forward keeps the promise of Outbox: a message waits while its row
\* is on disk and it was not handed over yet.
Ob == INSTANCE Outbox WITH pending <- {r.msg : r \in rows} \ handed,
                           expired <- expired \ handed
OutboxSpec == Ob!Spec

\* What these rest on.  The table: row ids and messages are distinct, and what
\* was queued later has the larger id and expires no sooner.
RowsDistinct ==
  /\ nextRow \in Nat \ {0} /\ now \in 0 .. MaxTime
  /\ rows \subseteq Row
  /\ \A r \in rows : r.id < nextRow /\ r.expires <= now + TTL
  /\ \A r1, r2 \in rows : (r1.id = r2.id \/ r1.msg = r2.msg) => r1 = r2
  /\ \A r1, r2 \in rows : r1.id < r2.id => r1.expires <= r2.expires

MemoryTypes ==
  /\ up \in BOOLEAN
  /\ sess \subseteq Peer /\ tasks \subseteq sess /\ sweep \subseteq sess
  /\ loop \in BOOLEAN
  /\ (~up => flush = None /\ sess = {} /\ ~loop)
  /\ flush \in {None} \cup Flush
  /\ (flush # None => flush.peer \in sess)

HistoryTypes ==
  /\ accepted \subseteq Message /\ handed \subseteq accepted
  /\ \A r \in rows : r.msg \in accepted
  /\ expired \subseteq accepted
  /\ \A r \in rows : r.msg \notin expired

\* The row a flush has sent and not marked holds a message it handed over.
SentIsHanded ==
  (flush # None /\ flush.sent) => \E r \in rows : First(r) /\ r.msg \in handed

\* What a flush has passed over and left in the table, the transport refuses or
\* has taken already.
PassedOver ==
  flush # None =>
    \A r \in rows : r.msg.to = flush.peer /\ Live(r) /\ r.id \notin flush.todo
                      => r.msg \in Oversize \cup handed

\* Rows whose message is out already, without the one just sent, are the debts
\* that crashes and refused deletes left.
Again == {m \in handed : \E r \in rows : r.msg = m}
Due == IF flush # None /\ flush.sent THEN 1 ELSE 0
Debts ==
  /\ IsFiniteSet(handed)
  /\ resent \in Nat /\ crashes \in Nat /\ refused \in Nat
  /\ resent + Cardinality(Again) <= crashes + refused + Due

StoreForwardInv ==
  RowsDistinct /\ MemoryTypes /\ HistoryTypes /\ SentIsHanded /\ NoSilentLoss /\ PassedOver /\ Debts

\* While a session lasts, what is queued for its peer goes out: a message in
\* the table is removed, expires, is refused by the transport, or the process
\* or its _flush_loop ends.
QueuedGoesOut ==
  \A m \in Message \ Oversize :
    (m.to \in sess /\ \E r \in rows : r.msg = m /\ Live(r))
      ~> (~loop \/ \A r \in rows : r.msg = m => ~Live(r))

=============================================================================
