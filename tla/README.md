# Verification of mesim

TLA+ specifications, TLC runs and TLAPS proofs for mesim, a LAN messenger: each
node finds its peers by mDNS, opens encrypted sessions with them over UDP, and
sends signed messages, storing what it cannot deliver. The modules model the
node's own protocol and persistence logic: all of `src/mesh`, the store and the
identity file of `src/core`, the REST API, and the console and wiring of
`src/cli/mesim_cli.py`.

## The system

One node is one Python process with one asyncio event loop. Its parts:

| Part | Source | State | Operations |
|---|---|---|---|
| Transport, handshake | `mesh/transport.py` | `_sessions`, `_sessions_by_addr`, `_pending` | `connect`, `_handle_handshake`, `_handle_handshake_resp`, `_handle_key_init`, `_handle_key_ack` |
| Transport, messages | `mesh/transport.py` | `_msg_id_counter`, `_in_flight`, `_frag_bufs` | `send`, `_handle_message`, `_handle_ack`, `_retry_loop` |
| Router | `mesh/router.py` | `_routes`, `_seen_seq`, `_seq_num`, `_known_bundles` | `_broadcast_originator`, `_handle_originator`, `update_route`, `route_to`, `purge_stale`, `register_bundle` |
| Store and forward | `mesh/store_forward.py` | table `forward_queue` on disk | `send_or_queue`, `flush_peer`, `_flush_loop`, `_on_peer_connected`, `purge_expired` |
| Message store | `core/store.py` | tables `meta` and `messages` on disk, `_conn`, `_key` | `open`, `close`, `save_message`, `mark_delivered`, `purge_old`, `get_history` |
| Discovery | `mesh/discovery.py` | `_peers`, `_svc_name_to_id` | `_on_service_added`, `_on_service_removed`, `update_peer_bundle` |
| Identity | `core/identity.py` | identity file on disk | `create_identity`, `save_identity`, `load_identity` with the duress wipe, `load_or_create_identity` |
| Crypto | `core/crypto.py` | none that is used across calls | key exchange, signatures, AEAD |
| REST API | `api/server.py` | `rate_buckets` | `POST /send`, the rate limiter, read-only endpoints |
| Console | `cli/mesim_cli.py` | `_last_activity` (inactivity lock) | `run_repl`, `_cmd_send`, `_prompt_unlock`, `_on_message_received` |
| Node wiring | `cli/mesim_cli.py` | the parts of a node and how far it has started | `_run_node`, discovery callbacks, `_fetch_and_connect`, ordered shutdown |

How they interact: discovery calls back when a device is new, the wiring then
fetches its public bundle over HTTP and calls `connect`; the transport calls
back when a session is there, and store and forward flushes its queue for that
peer; the transport hands packets of type ORIGINATOR to the router; messages
that arrive are saved in the message store; the API and the REPL call
`send_or_queue` and read the rest.

What is hard in it:

- coroutines that suspend (`connect` twice, `_on_service_added` once) while
  handlers change the dictionaries they will use;
- UDP: datagrams are lost, repeated, reordered, and outlive the process that
  sent them;
- restarts: sessions, message ids, `_seen_seq` and the sequence number are in
  memory only, the queue and the message store are on disk;
- several commits that belong together (first `open()`, send and `mark_sent`,
  the queue and the message store);
- a file that is rewritten in place while other processes read it;
- nodes that start, crash and start again while others remember them;
- timers that race the answer they wait for.

`PROJECT.json` lists these hazards one by one with their lines.

What makes each part correct, and the property that states it:

| Part | Correctness | Property |
|---|---|---|
| Handshake | an initiator keeps no key that its peer has not installed; `True` means both ends have it; a call leaves no entry behind and returns | `KeyConfirmed`, `TrueMeansBoth`, `NoStaleEntry`, `ConnectReturns` |
| Messages | only whole signed messages are delivered; an ACK under a key of this life means delivery; retries end | `Integrity`, `FreshAckSound`, `Resolves` |
| Router | no loops; one forward per round; hop counts mean distance; purging is invisible | `LoopFree`, `OneForwardPerRound`, `OneHopIsNeighbour`, `PurgeKeepsAnswers` |
| Store and forward | it keeps the promise of `Outbox`; nothing accepted vanishes; at most one repetition per crash or refused delete; order; the queue drains | `OutboxSpec`, `NoSilentLoss`, `ResentByFailureOnly`, `OldestFirst`, `QueuedGoesOut` |
| Message store | what is stored can be read, by its owner, until it is purged | `Readable`, `NeverLockedOut`, `SavedStays` |
| Discovery | callbacks match the cache; a device that stays is found | `CallbacksPaired`, `StayFound` |
| Identity | erased keys never return; what a passphrase was given stays and stays the same; the databases are one device's | `WipeIsFinal`, `NothingLost`, `SameDevice`, `StoresOneDevice` |
| Node wiring | a node that starts beside one that serves shares a key with it; what was queued for it arrives; both but for a failure of one of the single tries | `NewcomerLinked`, `QueuedArrives` |
| REST API and console | a message goes to the peer that was meant and is recorded once; the limiter decides as the complete record would; a prompt is for an active user | `RightPeer`, `Recorded`, `WindowExact`, `PromptFresh` |

## The modules

A component's module holds its state, actions, specification and properties;
`<Component>Proofs` extends it with the proofs (those about AutoConnect are in
DiscoveryProofs, with which its names are therefore kept apart: `NetInit`,
`cached`); `MC<Component>` gives the constants that a `.cfg` cannot write.
Definitions called `Mut...` are wrong variants of the definition of the same name
(a dropped check, an off-by-one); no specification uses them. They exist to show
that each property fails when the code is changed that way.

### Handshake

One action per handler, and `connect` cut at its two `await`s: `Connect`,
`ResumeResp`, `ResumeAck`, and for each wait a timeout, which may also fire when
the event has been set and the coroutine has not run yet. `pending[n][p]` is
the entry of `_pending` for the peer's address: a call of `connect`, an entry
made by the responder's role, or none. All handlers find it, overwrite it or
remove it exactly as the code does, whoever made it. The key that a call
encapsulates is identified with the call. `installed` remembers the keys a
node ever installed; `Restart` forgets everything else that is in memory.

### Messaging

One sender and the peers it sends to. A message is a record whose life (number
of restarts of the sender) and id identify it; the receiver's buffers are keyed
by peer and id only, so a restarted sender's fragments meet older ones. A
signature covers all fragments of one message. `_handle_message` has the
outcomes of the code, the `KeyError` for a missing index included.
`_in_flight[id]` keeps only the last fragment, as each fragment overwrites it.
`InstallSender` and `InstallReceiver` are what a handshake does to the two
ends, which need not agree (see `KeysMatch` below). A key carries the life of the
sender in which it was first derived; either end may install an older one, since a
responder derives the same key again from a repeated HANDSHAKE and KEY_INIT.

### Router

All nodes. A packet carries originator, round (`seq`), hop count, time and who
signed it. `PassesDispatch` is the MAC check in front of the handler, which
drops an ORIGINATOR from an address with a session because the router sends
ZERO_MAC. `Restart` empties the router's memory; `restarted` remembers who did.

### Outbox and StoreForward

`Outbox` is the abstract specification: a message that was accepted waits, then
it is given to the transport or expires, and both are final. `StoreForward` is
the code and implements it (`OutboxSpec`): a message waits while its row is on
disk and it was not handed over yet, so a row that a crash has kept from
deletion is a stutter of `Outbox` when it goes out again.

One node. `send_or_queue` is atomic for other local tasks; `flush_peer` is cut
into its effects (`FlushSend`, `FlushMark`, `FlushFail`) so that `Crash` can
happen between the send and the deletion. SQLite may refuse a statement:
`MarkRefused` is the refused deletion of a row that was sent, which the handler
takes for a failed send; `FlushDies` is the refused update in that handler,
which nothing catches and which ends `_flush_loop` for good when that made the
call; `TaskDies` and `LoopDies` are refused queries. The column `attempt`, which
nothing reads, is left out, and a refused commit is a statement that did not
happen, although sqlite3 then keeps its transaction open. `sess` only grows
while the process is up, like `get_sessions()`. Row ids come from SQLite's
counter; a flush works through the ids its query returned.

### MessageStore

One database file and the process that opens it, with one of several
passphrases. The `_meta_set` calls of the first `open()` are separate commits:
`OpenFirst`, then one `MetaSet` each; `End` (the process dies) and `MetaFail`
(SQLite refuses the write) may come in between. A key is the pair of passphrase
and salt.

### Discovery

One node's cache. A task for an added or updated service waits for its records
(`tasks`), and every other event may happen meanwhile; the removal handler does
not wait. `heard`, `adv` and the `Hear...` actions are zeroconf's browser and the
network, modelled from how `discovery.py` uses them. `missed` holds the devices
whose records did not answer in time.

### IdentityFile

One path and the processes that use it: `mesim --create` and `mesim`. A process
goes through the stages `save` and `write` (before and after `write_text` has
emptied the file), `load` (read, the key derivation under way), `open` (identity
returned) and `run`. Reading, deriving, truncating and writing are separate
steps, so processes and crashes meet in between. A document is whose keys it
holds, what they are wrapped with, the derivation it names and the decoy.
`meta` is what two processes can see of the message store beside the file while
it is being made: `OpenStores` looks for the salt, and after a key derivation
`FirstRow` and `KeyCheckRow` write a new one with its sentinel, or `Verify`
compares. `raced` remembers that one process made a salt where by then there was
another's. `MessageStore` has each of the commits, for one process at a time.

### AutoConnect

Several whole nodes, with what the modules above show of their parts. A device
that discovery reports goes through the stages of `task`: its records are asked
for (`_on_peer_discovered`), its bundle is fetched (`Fetch`), and `connect` is
called. Each is tried once and may fail, and nothing repeats it. Of the
handshake, HANDSHAKE, its answer and KEY_INIT are one step (`KeyInit`, after which
the responder has its session) and KEY_ACK another (`KeyAck`, after which the
initiator has its own), with a timeout before either. The two ends
handle packets whatever they have under way themselves: a responder takes its own
call's entry of `_pending` with the other's, and a timeout pops an entry that is
not its own, so crossing calls end in sessions under two keys here too. What this
leaves out and Handshake has: packets that outlive their call, and several
superseded calls of one node at once. A session is the name of its key, so one may
outlive the other end's process. A message is on disk, or one datagram with the
key it was built with, which arrives if the receiver has that key by the time of
one of the tries, or is lost (`Retry`); its row is gone by then. `unanswered`
remembers, as long as both nodes are there, that an answer or a message did not
come through although the other side was there for it.

### FrontEnds

The REST API and the console of one node, on the queue and the message store.
A peer id is a model value in one of the spellings the code tells apart:
canonical id, digits without hyphens, prefix. Sending and recording are one step
for the event loop but two databases for a crash. `repl` is where `run_repl` is,
with the time of the last activity and of the last prompt; `log` is the complete
record the rate limiter's bucket is compared with.

## The runs

| Run | Instance | Result |
|---|---|---|
| `handshake` | nodes a, b; a calls b twice, b calls a once; any delivery, restarts | about 70 000 states, passes |
| `handshake_keys` | one call each way | `KeysMatch` violated |
| `messaging` | peers p1, p2; one message per life, of 2 or 3 fragments to p1 and of one to p2; one buffer; 2 attempts; one sender restart; one key per peer and life | about 338 000 states, passes |
| `messaging_retry` | one message of 2 fragments, 3 attempts, no restart, retransmissions delivered | `RetriesDeliver` violated |
| `router` | originator a and a ring b, c, d; two rounds; two sessions opened later; b restarts | about 68 000 states, passes |
| `router_learn` | a and b hold sessions with each other | `NeighboursLearned` violated |
| `store_forward` | two peers, four messages (three for one peer, one of them too large for the transport), cap 2, time to live 1, clock to 1, one crash or refused delete | about 361 000 states, passes |
| `message_store` | two passphrases, two peers, three messages, two salts, clock to 3 | about 22 000 states, passes |
| `discovery` | this node and two devices of one callsign, two tasks waiting at once | about 21 000 states, passes |
| `identity_file` | two processes, two passphrases, two identities, both derivations, the message store made by either or both | about 624 000 states, passes |
| `auto_connect` | two nodes, a started twice and b once, a message of a for b, six keys | about 142 000 states, passes |
| `front_ends` | two peers, three spellings, one client, limit 2 in a window of 1, lock after 2, two messages, cap 1, clock to 2 | about 1 200 000 states, passes |

Why the bounds suffice to see the interesting cases:

- Handshake: two calls to one peer and a crossing one are the smallest case in
  which a call's entry is overwritten by a call, reused by the responder's role
  and popped by a timeout that is not its own. Packets are never removed, so
  delays and repetitions are unbounded.
- Messaging: one id used by two lives and two peers, with totals 2 and 3 for one
  of them, gives mixed buffers, a buffer with more fragments than the shorter
  message has, and an ACK of another life or peer. One key per peer and life is
  what an old key reinstalled after a restart, and a new one over it, need;
  several per life are covered by the proofs, which do not bound them.
- Router: a ring is what a loop needs; three relays make it longer than two;
  two rounds let an old packet meet a newer table; StaleAfter 1 with a clock to
  2 reaches the boundary age and one beyond.
- StoreForward: cap 2 with three messages for one peer reaches the cap; a row
  that expires in time and one that does not; a refused row in front of one that
  goes out; and a second peer whose flushes come between those of the first,
  which matters for the fairness. `MaxFailures` is one crash or one refused
  delete; refused queries and updates are not bounded. The messages of a peer are
  offered in the order of their numbers (`InTurn`), which only names them.
- MessageStore: two passphrases and two salts: an owner and another, a first
  `open()` that fails and one after it; every point of the first `open()` is a
  crash point.
- Discovery: two requests waiting at once for one name, answered by devices that
  follow each other.
- IdentityFile: two processes are what a wipe against a read, two creations or a
  write seen half-done need; two passphrases are a real and a duress one (and a
  wrong one, for a file that has no decoy); two identities let a second creation
  follow the first. The proofs have no such bounds.
- AutoConnect: the first process of a leaves sessions, cache entries, records and
  datagrams behind that its second one meets, and b may call, be called, cross and
  leave meanwhile. `MaxStarts` is a bound per node; `MaxKeys` is as many as there
  can be places for keys (a session, a waiting call and a datagram each way), so a
  call never lacks one. Node pairs do not influence each other in the code; that
  other nodes change nothing is part of the proofs (`Elsewhere`).
- FrontEnds: two peers share a prefix; two messages are enough for one to take
  the other's place in the queue or for a session to come between them; three
  points of time are a request inside, at the edge of and outside the window,
  and a prompt before and after the timeout.

The clock, attempt counts, restarts and ids are capped by the constants named
`Max...`. Deadlock checking is off where all of a bound may be used up
(Messaging, Router, MessageStore, AutoConnect, FrontEnds).

### Fairness

- Handshake (`Timed`): the timers of `wait_for` fire (weak fairness of the two
  timeouts). Nothing is assumed of the network.
- Messaging (`Retries`): `_retry_loop` runs. For `messaging_retry` also: a
  retransmitted packet of an undelivered message arrives in the end, which is
  more than UDP gives, so what fails under it is not the network's fault.
- Router: only the run `router_learn` uses fairness: the originator loop runs
  and packets are handled.
- StoreForward: the event loop takes ready tasks in the order they became ready,
  so a scheduled flush and a turn of `_flush_loop` are not passed over for ever
  (strong fairness: flushes of other peers may come between again and again, and
  under weak fairness the property fails); a flush that has begun goes on. No
  fairness of the peer, of connects or of the clock.
- AutoConnect (`GoesOn`): mDNS repeats its announcements, so the browser of a node
  that listens hears of one that does too; a request for records, a fetch, a wait
  of `connect` and the retries of a datagram end, in success or not (all have
  timeouts); and what is queued is flushed while a session lasts (`_flush_loop`;
  that its statement may be refused is in StoreForward). Success is not assumed,
  nor is a failed try repeated: the properties excuse it, as said below.
- Discovery: the browser hears in the end what is announced and what is gone,
  and a request ends, answered or not. Strong fairness for the announcements
  only makes up for the bound on waiting tasks, which the code does not have.

## The proofs

TLAPS proves the following for every value of the constants, that is, any
number of nodes, peers, processes, calls, messages, keys and restarts. The
assumptions are the named `ASSUME`s of the component modules: bounds are natural
numbers, the placeholder `None` is no member of the sets it is added to, pairs of
nodes are pairs of nodes, and a typed name that is not a prefix is the id of one
peer. Besides its type invariant, `TypeOKThm`, each component has these
theorems:

- **HandshakeProofs**: `KeyConfirmedThm`, `TrueMeansBothThm`, `NoStaleEntryThm`
  from `Invariance` (`HandshakeInv`); `ConnectReturnsThm`. `KeyConfirmed` alone is
  not inductive: the initiator installs on a KEY_ACK, so one needs that a KEY_ACK
  was sent by a node that installed its key (`PacketsHonest`), that installs of
  one's own call come second (`ResponderFirst`), and that an event set means an
  install (`AckInstalled`).
- **MessagingProofs**: `IntegrityThm`, `FreshAckThm` from `Invariance`
  (`MessagingInv`), `BufsBoundedThm`, `ResolvesThm`. Soundness of an ACK under a
  key of the present life needs that nothing is sent under a key younger than
  itself, though it may be under an older one, and that a life uses each id once
  (`SentOnce`, `PacketsOfSent`, `SenderState`): so what such a key acknowledges
  was sent in this life, and its id means this message. A fragment opens one
  buffer at most, and only below the cap (`MessageBuffer`).
- **RouterProofs**: `LoopFreeThm`, `NextHopCloserThm`, `OneForwardThm`,
  `OneHopThm`, `PurgeThm`. The invariant `RouterInv` relates each route to its
  next hop's state (`NextHopCloser`) through the packets on the way
  (`PacketsSeen`): a forwarder that did not restart has seen the round it
  forwards, with that hop count. Loop freedom follows by a least-element argument
  (`CloserIsLoopFree`): in a circle take the newest round and of its nodes the one
  with the fewest hops; its next hop would have a newer round or fewer hops.
- **StoreForwardProofs**: `NoSilentLossThm`, `ResentByFailureOnlyThm`,
  `OldestFirstThm`, `RefinesOutbox` from `StoreForwardInv`, and `QueueCapThm`.
  The deletion of a row is safe because the row a flush marks holds a message it
  has handed over (`SentIsHanded`), which needs distinct rows (`RowsDistinct`).
  Repetitions are counted by `Debts`: a row whose message is out already was
  left by a crash or a refused delete, or is the one a flush has just sent. The
  order holds because what a flush has passed over and left is refused
  (`PassedOver`). For the refinement each step is shown to be a step of `Outbox`
  or to leave its three sets alone: a first-time send is `Hand`, a repeated one,
  a mark and a crash are stutters. For the cap, every step but `enqueue` is
  shown to add no row (`FewerWait`).
- **MessageStoreProofs**: `ReadableThm`, `NeverLockedOutThm`, `OneOwnerThm` from
  `StoreInv`, `SavedStaysThm` from `RowsBelow`. The sentinel, once written, is
  that of the stored salt, and no key is held and no message saved before it is
  there (`Sentinel`); a first `open()` under way has nothing to lose
  (`FirstOpen`). Row ids stay below the counter, so no row replaces another. All
  of this, `OneOwnerThm` too, is about one process at a time on the database;
  two at once are in IdentityFile.
- **DiscoveryProofs**: `CallbacksPairedThm` from `CacheInv`: a name leads to a
  cached device that advertises that very name (`NamesCached`, from `OwnNames`),
  so a removal drops a device that was counted, and once. The module's second
  part is about AutoConnect, where each of several nodes has such a cache:
  `NetTypeOKThm`, `NewcomerLinkedThm` and `QueuedArrivesThm` from `WiringInv`,
  which adds to the types that a node that listens is advertised. `NetTypeOK`
  contains that a call that waits for KEY_ACK shares its place in `_pending`
  with no other, which every step of a call has to keep (`SupersededOnly`). That
  what goes on between other nodes leaves a pair alone is `Elsewhere`, that a
  node has no part in what another knows of it but for KEY_INIT `OtherSide`. For
  a message, each step does one of three things to the keys of a pair, if no
  calls cross (`KeyMoves`): nothing, the caller takes the key it has brought, or
  it brings one. So a key that waits for KEY_ACK is one the other end has
  (`Left`), and the key a sender holds is its receiver's, will be, or is about
  to be replaced (`Shared`).
- **IdentityFileProofs**: `WipeIsFinalThm` from `WipeInv`. That the file does not
  hold an erased device is not inductive: a process may have read the document
  before, or be writing one. `Docs` says that a document with a decoy belongs to a
  device whose decoy it is, so what a wipe writes is never itself erased
  (`Wipes`), and `Fresh` that a device being created is known nowhere else.
  `SameDeviceThm`, `StoresOneDeviceThm`, `NothingLostThm` from `LineInvariance`
  (`LineInv`). They say what a passphrase is given over the life of a file, while
  a step sees one document only; so the invariant names the document the file
  began with (`Lineage`): the file holds it or, once a wipe has begun, what the
  wipe makes of it (`Descends`); what a process has read, is about to write or was
  given comes from there (`LoadOf`, `WipeOf`, `CreateOf`, `UserOf`); so does what
  was given before (`GivenOf`) and written to the databases (`WroteOf`). There is
  no such document before the first creation writes (`Blank`), and after a second
  `--create` has overwritten the file of the first (`clobbered`) the invariant
  says nothing, nor do the three properties. `TornOf` says who is answerable for
  an empty file, and `Owners` that, unless two processes have made the message
  store at once (`raced`), the process that makes it is alone with it, and the
  databases belong to the passphrase that runs on them.
- **FrontEndsProofs**: `PromptFreshThm`, from what each step does to `repl`.
  `RightPeerThm`, `RecordedThm` from `Invariance` (`MessageInv`): what waits in
  memory was neither sent nor recorded (`Pending`), so the step that does both
  does it once; a message is in the queue or with the transport, not in both, and
  either under a name it was typed with (`OnePlace`); a row stands for one message
  and is under its peer (`RowsOf`); what has left memory without a row was lost
  (`NoneForgotten`). For received messages the tasks stand for the history until
  they run. `WindowExactThm` from `LimiterInvariance` (`WindowInv`): the bucket is
  the end of the client's complete record, all that was dropped has left the
  window, and the record is in the order of time; so what `Evict` leaves is what
  the window contains (`EvictedIsRecent`), which takes the first timestamp that is
  not old (`LeastNat`).

### Liveness

Four liveness properties are proved, for any number of nodes, calls, messages and
restarts:

| Theorem | Property | The stages of the argument |
|---|---|---|
| `ConnectReturnsThm` | `ConnectReturns` | waiting for the response, waiting for the ACK, returned |
| `ResolvesThm` | `Resolves` | sent once, twice, and so on to `MaxRetries`, then out of flight |
| `NewcomerLinkedThm` | `NewcomerLinked` | not heard of, records asked for, bundle being fetched, connecting, waiting for KEY_ACK, linked |
| `QueuedArrivesThm` | `QueuedArrives` | waiting on disk until the two are linked, waiting while there is a session, under way, arrived |

Each is a chain of stages. One lemma per stage shows that any step of anybody
leaves the system in the stage or takes it to a later one (or to what the
property allows for), another that the step
the code owes there ends it; weak fairness of that step gives the leads-to, and
the temporal prover chains them.

What `NewcomerLinked` and `QueuedArrives` allow for is what the code does not
prevent and nothing repeats, each a state of the very pair and attempt:

- `Broken`: one of the two has left, or an answer did not come while both were
  there: the records (`discovery.py:233`), the bundle, the answer to HANDSHAKE or
  KEY_ACK, or the datagram of the message in all of its retries;
- `Crossing`: both nodes call each other at the same time, or a call has lost its
  entry of `_pending`; they may then hold two keys, which is `KeysMatch` below;
- `Rekeying`, for the message only: a second call replaces the key while the
  datagram is under way, and the receiver drops it (`transport.py:528-532`).

Without any one of them TLC finds the property violated. `QueuedArrives` begins
where neither node waits for a KEY_ACK, and the sender has no session, of which
one of an older process of the receiver would swallow the message.

The theorems have one hypothesis besides the fair specification,
`TimersEnabled`, `RetriesEnabled` or `StepsEnabled`: in every state, a step
whose guard holds is enabled. The prover treats ENABLED as an unknown formula,
so it cannot derive this from the actions. It assumes nothing about the program:
each of those actions is a guard followed by assignments to all variables, or a
choice between such, and changes one of them, so it can be read off their
definitions; and TLC, evaluating ENABLED, found the three true in every
reachable state of the instances of `handshake`, `messaging` and `auto_connect`.
They are not among the properties of the runs, because no change of the code
that leaves an action an action could break them.

`ResolvesThm` is stated for at most three retries, `MAX_RETRIES` of
`transport.py`: the stages are counted out, and any larger number would need an
induction over leads-to formulas, which the prover does not have. It has no
bound on messages, peers or restarts.

### Only model-checked

- `QueuedGoesOut`: the rows in front and the flushes of other peers that come
  between are unbounded, so it needs an induction over them, and strong fairness.
- `StayFound`: the same for the tasks that wait.
- `Resolves` for more than three retries.
- Enabledness, as above.

That the mutated definitions break the properties, and the three violations below,
are results of TLC by their nature.

## Where the code and its documentation differ

Three runs end in a violation that shows a difference between the code and what
the repository says of it; `PROJECT.json` quotes both sides under `findings`.

- `KeysMatch`: `_handle_key_init` takes any entry of `_pending`, the node's own
  call included. When both nodes connect at once, a `connect` that returned `True`
  can leave the ends with different keys.
- `RetriesDeliver`: of a message of several fragments only the last is ever
  retransmitted.
- `NeighboursLearned`: two nodes with sessions in both directions drop each
  other's ORIGINATOR packets.

### Differences

Further differences seen while modelling, which no run of the project states:

- `transport.py:522`: after a restart there is no session, so an old ACK passes
  without a MAC check and removes a message of the same id. This is why
  `FreshAckSound` speaks of ACKs verified with a key only.
- `transport.py:598`: a responder derives the session key from the KEY_INIT
  alone, so a HANDSHAKE and a KEY_INIT from before its restart, delivered again,
  give it back the old key; an old ACK then passes the MAC check and removes a
  message of the same id that was not delivered. `FreshAckSound` speaks of keys
  of this life.
- `transport.py:711`: a repeated datagram, or a retransmission after a lost ACK,
  is delivered to the callbacks again; nothing records delivered ids.
- `transport.py:720`: a late fragment of a delivered message opens a buffer that
  is never freed.
- `router.py:159`: loops can form through a node that restarted, because
  `_seen_seq` is lost; `LoopFree` says that this is the only way. A restarted
  originator's rounds are ignored until its counter passes the old one.
- `router.py:338`: a forwarder that does not know the originator's bundle signs
  the packet with its own key ("signed by the originating node's key").
- `router.py:315`: a shorter path that arrives second in a round is dropped
  ("lower hop_count wins").
- `store_forward.py:161`: the cap counts live rows; expired ones stay in the
  table until the next start or stop.
- `store_forward.py:364`: the `except` that counts a failed send also catches a
  failed `mark_sent`: the message has gone out, its row stays and goes out again
  with no crash. `ResentByFailureOnly` counts these.
- `store_forward.py:367`: if SQLite refuses the update too, the exception leaves
  `flush_peer`; when `_flush_loop` made the call its task ends and nothing
  starts it again, and the shutdown raises what ended it and skips
  `purge_expired`. What is queued then goes out on the next connect only.
- `store_forward.py:364`: a row is deleted when the datagram is handed to the
  socket. If its retries fail (`transport.py:787`), the message is on neither
  disk nor wire; `on_send_failed` has no caller.
- `store_forward.py:331`: a peer that has gone still has its session, so a message
  for it is sent into the void and not queued ("If the peer is offline the
  message is persisted", `server.py:219`).
- `store_forward.py:98`, `mesim_cli.py:422`: a prefix that matches no session is
  queued under the prefix, and no flush ever looks for it there.
- `store.py:195`: an `open()` that raised half-way leaves `_conn` set, and the
  next one returns as if the store were open; operations then fail for lack of a
  key.
- `store.py:207`: a crash between the commits of the first `open()` leaves a salt
  without sentinel, and no passphrase opens the database again.
- `store.py:290`: `get_history` sorts ascending before it limits, so "show last
  20" shows the first 20.
- `discovery.py:277`: a device that leaves while its records are being asked for,
  or whose name another device takes over, stays in the cache for ever.
- `identity.py:459`: the file is emptied before it is written. A crash in between,
  of a duress wipe too, loses both identities, and `--create` then refuses the
  path because it exists.
- `mesim_cli.py:156`: of two simultaneous `--create` the second overwrites the
  identity the first has returned. `SameDevice`, `NothingLost` and
  `StoresOneDevice` speak of behaviours without that.
- `store.py:203`: two processes that open a new message store at once both find
  no salt, derive, and write their own: the later rows win, and the first
  process goes on with a key that never opens the database again, whether their
  passphrases differ (real and duress) or not, since the salts do.
  `mesim_cli.py:505` opens the store before the UDP port is bound, so the port
  does not keep them apart. `StoresOneDevice` speaks of behaviours without that.
- `mesim_cli.py:505`: under the duress passphrase the node does not start if the
  message store exists, because that belongs to the real passphrase.
- `mesim_cli.py:579`, `discovery.py:233`: a device is tried once. If its records
  do not answer in three seconds it is not even cached, until mDNS has news of
  it. Discovery advertises a node before its API listens, so of two nodes that
  start at the same time each may ask too early, and neither tries again: both
  stay up without a session. `NewcomerLinked` is what does hold.
- `mesim_cli.py:445`: the lock is tested before the prompt is shown. A line typed
  there is executed, and counts as activity, however late it comes.
- `mesim_cli.py:429`: if the message store refuses the row of a sent message, the
  exception leaves `run_repl` and ends the node, while the message is on its
  way.
- `transport.py:820`: a received message is acknowledged before the task that
  records it runs; if the process ends in between, both ends take it for
  delivered and it is in no history.
- `server.py:248`: `GET /messages` runs in a worker thread and the SQLite
  connection refuses any thread but its own, so it fails in a running node; and
  it does not normalise the peer id, which `POST /send` does.

## What is not modelled

- Crypto algorithms (`core/crypto.py`): a signature, MAC, wrapped key or
  ciphertext is a record of who made it with which key. `NonceCounter` is
  created with every session and never asked for a nonce.
- The read-only endpoints and commands, console output, logging, PING and PONG,
  byte counters, `last_active`, the ranking of addresses in an mDNS answer.
- The growth of what nothing bounds: rate limiter buckets of addresses that do not
  come back, expired rows.
- Several addresses per device: a node has one address.
- A clock that steps back (`time.time`, which the limiter and the lock read,
  may), and the moments of a start in which packets arrive before `cli.start`
  has registered the message callback (`mesim_cli.py:591-595`): a message that
  comes then is acknowledged and recorded nowhere.
- An id typed with hyphens in upper case, which `normalize_peer_id` leaves as it
  is: no spelling in FrontEnds stands for it.
- A second, identical forward of a round by one router (same hop count, signer and
  time): packets are a set, so `OneForwardPerRound` cannot tell it from the first.
- Callsigns and ranks, which no decision of the code depends on but for the
  service name (`NameOf` in Discovery).

## What could follow

- `Delivery`: StoreForward composed with Messaging, from `send_or_queue` to the
  peer's callback, with an abstract channel (lossy, at least once after a queue)
  for the composition to implement. AutoConnect follows one datagram of one
  message only.
- The fairness arguments of `QueuedGoesOut` and `StayFound` as invariants and a
  decreasing measure, so that what TLC takes from them is small.
