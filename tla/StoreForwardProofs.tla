------------------------- MODULE StoreForwardProofs -------------------------
(* Proofs about StoreForward, for any peers, messages and bounds.            *)
EXTENDS StoreForward, FiniteSetTheorems, TLAPS

USE DEF vars, disk, memory, history

\* The flush_peer that a step leaves running.
LEMMA FlushType ==
  ASSUME NEW q \in Peer, NEW T, T \subseteq Nat, NEW b \in BOOLEAN, NEW c \in {"task", "loop"}
  PROVE  [peer |-> q, todo |-> T, sent |-> b, by |-> c] \in Flush
  BY DEF Flush

LEMMA FlushKept ==
  ASSUME MemoryTypes, flush # None, NEW T, NEW b \in BOOLEAN
  PROVE  [peer |-> flush.peer, todo |-> flush.todo \ T, sent |-> b, by |-> flush.by] \in Flush
  <1>1. /\ flush.peer \in Peer /\ flush.todo \subseteq Nat /\ flush.by \in {"task", "loop"}
    BY DEF MemoryTypes, Flush
  <1> QED BY <1>1, FlushType

LEMMA InitInv == Init => StoreForwardInv
  <1> SUFFICES ASSUME Init PROVE StoreForwardInv
    OBVIOUS
  <1>1. Again = {} /\ Cardinality({}) = 0 /\ IsFiniteSet({})
    BY FS_EmptySet DEF Init, Again
  <1>2. RowsDistinct /\ MemoryTypes /\ HistoryTypes /\ SentIsHanded /\ NoSilentLoss /\ PassedOver
    BY BoundsAssumption
    DEF Init, RowsDistinct, MemoryTypes, HistoryTypes, SentIsHanded, NoSilentLoss, PassedOver
  <1>3. Debts
    BY <1>1 DEF Init, Debts, Due
  <1> QED BY <1>2, <1>3 DEF StoreForwardInv

\* The sum of what was sent again and what is owed stays paid for.
LEMMA Owed ==
  ASSUME NEW r \in Nat, NEW c \in Nat, NEW c1 \in Nat, NEW k \in Nat, NEW k1 \in Nat,
         NEW n \in Nat, NEW n1 \in Nat, NEW d \in {0, 1}, NEW d1 \in {0, 1},
         c1 <= c, k + n <= k1 + n1, r + c <= k + n + d,
         d = 0 \/ d1 = d \/ k1 + n1 = k + n + 1
  PROVE  r + c1 <= k1 + n1 + d1
  OBVIOUS

\* A step that leaves the table and the messages' histories alone and ends the
\* flush, or leaves it alone, keeps the debts if it counts a crash where it drops
\* a message sent and not marked.
LEMMA DebtsKept ==
  ASSUME Debts, UNCHANGED <<handed, resent>>, crashes + refused <= crashes' + refused',
         crashes' \in Nat, refused' \in Nat,
         IsFiniteSet(handed) => Again' \subseteq Again,
         \/ ~(flush # None /\ flush.sent)
         \/ flush' = flush
         \/ crashes' + refused' = crashes + refused + 1
  PROVE  Debts'
  <1>1. IsFiniteSet(Again) /\ IsFiniteSet(handed)
    BY FS_Subset DEF Debts, Again
  <1>2. /\ Cardinality(Again') <= Cardinality(Again)
        /\ Cardinality(Again') \in Nat /\ Cardinality(Again) \in Nat
    BY <1>1, FS_Subset, FS_CardinalityType
  <1>3. handed' = handed /\ resent' = resent /\ IsFiniteSet(handed) /\ resent \in Nat
        /\ crashes \in Nat /\ refused \in Nat
    BY DEF Debts
  <1>4. Due \in {0, 1} /\ Due' \in {0, 1}
    BY DEF Due
  <1>5. resent + Cardinality(Again) <= crashes + refused + Due
    BY DEF Debts
  <1>6. resent + Cardinality(Again') <= crashes' + refused' + Due'
    <2>1. Due = 0 \/ Due' = Due \/ crashes' + refused' = crashes + refused + 1
      BY DEF Due
    <2> QED BY <1>2, <1>3, <1>4, <1>5, <2>1, Owed
  <1> QED BY <1>3, <1>6 DEF Debts

\* A step that leaves table, histories and flush alone.
LEMMA QuietStep ==
  ASSUME StoreForwardInv, MemoryTypes',
         UNCHANGED <<rows, nextRow, history>>,
         flush' = flush,
         now' \in 0 .. MaxTime, now' >= now
  PROVE  StoreForwardInv'
  <1> USE DEF StoreForwardInv
  <1>1. now \in 0 .. MaxTime /\ \A r \in rows : r.expires \in TTL .. MaxTime + TTL
    BY DEF RowsDistinct, Row
  <1>2. RowsDistinct'
    BY <1>1, BoundsAssumption DEF RowsDistinct
  <1>3. PassedOver'
    BY <1>1, BoundsAssumption DEF PassedOver, Live
  <1>4. Again' = Again
    BY DEF Again
  <1>5. Debts'
    BY <1>4 DEF Debts, Due
  <1>6. HistoryTypes' /\ SentIsHanded' /\ NoSilentLoss'
    BY DEF HistoryTypes, SentIsHanded, NoSilentLoss, First, Older
  <1> QED BY <1>2, <1>3, <1>5, <1>6

LEMMA SendStep ==
  ASSUME StoreForwardInv, NEW m \in Message, send_or_queue(m)
  PROVE  StoreForwardInv'
  <1> USE DEF StoreForwardInv
  <1>0. /\ accepted' = accepted \cup {m} /\ m \notin accepted
        /\ flush = None /\ UNCHANGED <<memory, expired, crashes, refused, now>>
    BY DEF send_or_queue, Idle
  <1>1. MemoryTypes' /\ SentIsHanded' /\ PassedOver'
    BY <1>0 DEF MemoryTypes, SentIsHanded, PassedOver
  <1>2. CASE m.to \in sess
    <2>1. UNCHANGED <<rows, nextRow, resent>> /\ handed' = handed \cup {m}
      BY <1>0, <1>2 DEF send_or_queue, Hand, HistoryTypes
    <2>2. RowsDistinct' /\ HistoryTypes' /\ NoSilentLoss'
      BY <1>0, <2>1 DEF RowsDistinct, HistoryTypes, NoSilentLoss
    <2>3. Again' = Again
      BY <1>0, <2>1 DEF Again, HistoryTypes
    <2>4. IsFiniteSet(handed')
      BY <2>1, FS_AddElement DEF Debts, Due
    <2>5. Debts'
      BY <1>0, <2>1, <2>3, <2>4 DEF Debts, Due
    <2> QED BY <1>1, <2>2, <2>5
  <1>3. CASE m.to \notin sess
    <2> DEFINE r == NewRow(m)
    <2>1. rows' = rows \cup {r} /\ nextRow' = nextRow + 1 /\ UNCHANGED <<handed, resent>>
      BY <1>3 DEF send_or_queue, enqueue
    <2>2. r.id = nextRow /\ r.msg = m /\ r.expires = now + TTL /\ r \in Row
      BY BoundsAssumption DEF NewRow, RowsDistinct, Row
    <2> HIDE DEF r
    <2>3. RowsDistinct'
      <3>1. /\ \A x \in rows : /\ x.id \in Nat \ {0} /\ x.id < nextRow /\ x.expires <= now + TTL
                               /\ x.expires \in Nat
                               /\ x.msg # m
            /\ nextRow \in Nat \ {0} /\ now \in 0 .. MaxTime
        BY <1>0, BoundsAssumption DEF RowsDistinct, Row, HistoryTypes
      <3>2. rows' \subseteq Row /\ nextRow' \in Nat \ {0} /\ now' \in 0 .. MaxTime
        BY <1>0, <2>1, <2>2, <3>1 DEF RowsDistinct
      <3>3. \A x \in rows' : x.id < nextRow' /\ x.expires <= now' + TTL
        BY <1>0, <2>1, <2>2, <3>1, BoundsAssumption
      <3>4. \A x, y \in rows' : (x.id = y.id \/ x.msg = y.msg) => x = y
        BY <2>1, <2>2, <3>1 DEF RowsDistinct
      <3>5. \A x, y \in rows' : x.id < y.id => x.expires <= y.expires
        BY <2>1, <2>2, <3>1, BoundsAssumption DEF RowsDistinct
      <3> QED BY <3>2, <3>3, <3>4, <3>5 DEF RowsDistinct
    <2>4. HistoryTypes' /\ NoSilentLoss'
      BY <1>0, <2>1, <2>2 DEF HistoryTypes, NoSilentLoss
    <2>5. Again' = Again
      BY <1>0, <2>1, <2>2 DEF Again, HistoryTypes
    <2>6. Debts'
      BY <1>0, <2>1, <2>5 DEF Debts, Due
    <2> QED BY <1>1, <2>3, <2>4, <2>6
  <1> QED BY <1>2, <1>3

\* flush_peer starts with every live row of the peer still to send.
LEMMA BeginStep ==
  ASSUME StoreForwardInv, NEW p \in Peer, RunTask(p) \/ Visit(p)
  PROVE  StoreForwardInv'
  <1> USE DEF StoreForwardInv
  <1>1. /\ UNCHANGED <<rows, nextRow, history, now, up, sess, loop>> /\ flush = None
        /\ tasks' \subseteq tasks /\ sweep' \subseteq sweep
        /\ p \in sess /\ up
    BY DEF RunTask, Visit, Idle, MemoryTypes
  <1>2. PICK c \in {"task", "loop"} :
          \/ flush' = None
          \/ flush' = [peer |-> p, todo |-> get_pending(p), sent |-> FALSE, by |-> c]
    BY DEF RunTask, Visit, Begin
  <1>3. get_pending(p) \subseteq Nat
    BY DEF get_pending, Pending, RowsDistinct, Row
  <1>4. MemoryTypes' /\ SentIsHanded'
    <2> DEFINE f == [peer |-> p, todo |-> get_pending(p), sent |-> FALSE, by |-> c]
    <2>1. f \in Flush /\ f.peer = p /\ f.sent = FALSE
      BY <1>3, FlushType
    <2>2. flush' = None \/ flush' = f
      BY <1>2
    <2> HIDE DEF f
    <2> HIDE DEF StoreForwardInv
    <2>3. flush' = None \/ (flush' \in Flush /\ flush'.peer = p /\ flush'.sent = FALSE)
      BY <2>1, <2>2
    <2>4. MemoryTypes
      BY DEF StoreForwardInv
    <2>5. MemoryTypes'
      BY <1>1, <2>3, <2>4 DEF MemoryTypes
    <2>6. SentIsHanded'
      BY <2>3 DEF SentIsHanded
    <2> QED BY <2>5, <2>6
  <1>5. PassedOver'
    BY <1>1, <1>2 DEF PassedOver, get_pending, Pending, Live
  <1>6. RowsDistinct' /\ HistoryTypes' /\ NoSilentLoss'
    BY <1>1 DEF RowsDistinct, HistoryTypes, NoSilentLoss
  <1>7. Again' = Again
    BY <1>1 DEF Again
  <1>8. Debts'
    BY <1>1, <1>2, <1>7 DEF Debts, Due
  <1> QED BY <1>4, <1>5, <1>6, <1>8

\* There is only one first row, as ids are distinct.
LEMMA FirstUnique ==
  ASSUME RowsDistinct, NEW r \in rows, NEW s \in rows, First(r), First(s)
  PROVE  r = s
  <1>1. r.id \in Nat /\ s.id \in Nat /\ r.expires \in Nat /\ s.expires \in Nat
    BY BoundsAssumption DEF RowsDistinct, Row
  <1> QED BY <1>1 DEF First, Older

\* Sending the first row: either it goes out for the first time and is one more
\* row whose message is out, or a crash has been counted for it before.
LEMMA FlushSendStep ==
  ASSUME StoreForwardInv, NEW r \in rows, FlushSend(r)
  PROVE  StoreForwardInv'
  <1> USE DEF StoreForwardInv
  <1>1. /\ UNCHANGED <<rows, nextRow, up, sess, tasks, sweep, loop, accepted, expired,
                      crashes, refused, now>>
        /\ handed' = handed \cup {r.msg} /\ First(r) /\ r.msg \in accepted
        /\ resent' = IF r.msg \in handed THEN resent + 1 ELSE resent
        /\ flush # None /\ ~flush.sent
        /\ flush' \in Flush /\ flush'.peer = flush.peer /\ flush'.todo = flush.todo
        /\ flush'.sent = TRUE
    <2>1. flush' = [peer |-> flush.peer, todo |-> flush.todo \ {}, sent |-> TRUE, by |-> flush.by]
      BY DEF FlushSend
    <2>2. flush' \in Flush
      BY <2>1, FlushKept DEF FlushSend
    <2> QED BY <2>1, <2>2 DEF FlushSend, Hand, HistoryTypes
  <1>2. RowsDistinct' /\ HistoryTypes' /\ NoSilentLoss'
    BY <1>1 DEF RowsDistinct, HistoryTypes, NoSilentLoss
  <1>3. MemoryTypes' /\ PassedOver'
    BY <1>1 DEF MemoryTypes, PassedOver, Live
  <1>4. First(r)'
    BY <1>1 DEF First, Older
  <1>5. SentIsHanded'
    BY <1>1, <1>4 DEF SentIsHanded
  <1>6. IsFiniteSet(handed') /\ IsFiniteSet(Again)
    BY <1>1, FS_AddElement, FS_Subset DEF Debts, Again
  <1>7. Again' = Again \cup {r.msg}
    BY <1>1 DEF Again
  <1>8. Cardinality(Again) \in Nat
        /\ Cardinality(Again') = IF r.msg \in handed THEN Cardinality(Again)
                                 ELSE Cardinality(Again) + 1
    <2>1. r.msg \in handed <=> r.msg \in Again
      BY DEF Again
    <2> QED BY <1>6, <1>7, <2>1, FS_AddElement, FS_CardinalityType
  <1>9. Debts'
    <2>1. resent + Cardinality(Again) <= crashes + refused
      BY <1>1, <1>8 DEF Debts, Due
    <2>2. flush' # None => flush'.sent
      BY <1>1
    <2>3. flush' # None
      BY <1>1, NoneAssumption
    <2> QED BY <1>1, <1>6, <1>8, <2>1, <2>2, <2>3 DEF Debts, Due
  <1> QED BY <1>2, <1>3, <1>5, <1>9

\* Marking it: the row goes, and with it one message that was out.
LEMMA FlushMarkStep ==
  ASSUME StoreForwardInv, NEW r \in rows, FlushMark(r)
  PROVE  StoreForwardInv'
  <1> USE DEF StoreForwardInv
  <1>1. /\ UNCHANGED <<nextRow, up, sess, tasks, sweep, loop, history, now>>
        /\ rows' = {x \in rows : x.id # r.id} /\ First(r)
        /\ flush # None /\ flush.sent
    BY DEF FlushMark, Delete
  <1>2. flush' = None \/ /\ flush' \in Flush /\ flush'.peer = flush.peer
                         /\ flush'.todo = flush.todo \ {r.id} /\ flush'.sent = FALSE
    <2> DEFINE f == [peer |-> flush.peer, todo |-> flush.todo \ {r.id}, sent |-> FALSE,
                    by |-> flush.by]
    <2>1. f \in Flush
      BY <1>1, FlushKept
    <2> QED BY <2>1 DEF FlushMark, Advance
  <1>3. r.msg \in handed
    BY <1>1, FirstUnique DEF SentIsHanded
  <1>4. \A x \in rows : x.id = r.id <=> x = r
    BY DEF RowsDistinct
  <1>5. RowsDistinct' /\ HistoryTypes'
    BY <1>1 DEF RowsDistinct, HistoryTypes
  <1>6. NoSilentLoss'
    BY <1>1, <1>3, <1>4 DEF NoSilentLoss
  <1>7. MemoryTypes'
    BY <1>1, <1>2 DEF MemoryTypes
  <1>8. PassedOver' /\ SentIsHanded'
    BY <1>1, <1>2, <1>4 DEF PassedOver, SentIsHanded, Live
  <1>9. IsFiniteSet(Again) /\ r.msg \in Again
    BY <1>3, FS_Subset DEF Debts, Again
  <1>10. Again' = Again \ {r.msg}
    <2>1. \A x \in rows : x.msg = r.msg => x = r
      BY DEF RowsDistinct
    <2> QED BY <1>1, <1>4, <2>1 DEF Again
  <1>11. Cardinality(Again) \in Nat /\ Cardinality(Again') = Cardinality(Again) - 1
    BY <1>9, <1>10, FS_RemoveElement, FS_CardinalityType
  <1>12. Debts'
    BY <1>1, <1>2, <1>11 DEF Debts, Due
  <1> QED BY <1>5, <1>6, <1>7, <1>8, <1>12

\* A row the transport refuses stays, and so does one that SQLite will not
\* delete: that one is owed to the refusal from now on.
LEMMA FlushKeepStep ==
  ASSUME StoreForwardInv, NEW r \in rows, FlushFail(r) \/ MarkRefused(r)
  PROVE  StoreForwardInv'
  <1> USE DEF StoreForwardInv
  <1>1. /\ UNCHANGED <<rows, nextRow, up, sess, tasks, sweep, loop, accepted, handed, resent,
                      expired, crashes, now>>
        /\ First(r) /\ flush # None
        /\ \/ ~flush.sent /\ ~Sendable(r.msg) /\ refused' = refused
           \/ flush.sent /\ refused' = refused + 1
    BY DEF FlushFail, MarkRefused
  <1>2. flush' = None \/ /\ flush' \in Flush /\ flush'.peer = flush.peer
                         /\ flush'.todo = flush.todo \ {r.id} /\ flush'.sent = FALSE
    <2> DEFINE f == [peer |-> flush.peer, todo |-> flush.todo \ {r.id}, sent |-> FALSE,
                    by |-> flush.by]
    <2>1. f \in Flush
      BY <1>1, FlushKept
    <2>2. Advance(r)
      BY DEF FlushFail, MarkRefused
    <2> QED BY <2>1, <2>2 DEF Advance
  <1>3. RowsDistinct' /\ HistoryTypes' /\ NoSilentLoss'
    BY <1>1 DEF RowsDistinct, HistoryTypes, NoSilentLoss
  <1>4. MemoryTypes'
    BY <1>1, <1>2 DEF MemoryTypes
  <1>8. SentIsHanded'
    BY <1>2 DEF SentIsHanded
  <1>5. PassedOver'
    <2>1. \A x \in rows : x.id = r.id <=> x = r
      BY DEF RowsDistinct
    <2>2. r.msg.to = flush.peer => r.msg \in Oversize \cup handed
      BY <1>1, FirstUnique DEF Sendable, MemoryTypes, SentIsHanded
    <2>3. \A x \in rows : x.msg.to = flush.peer /\ Live(x) /\ x.id \notin flush.todo \ {r.id}
                          => x.msg \in Oversize \cup handed
      BY <1>1, <2>1, <2>2 DEF PassedOver
    <2>4. UNCHANGED <<rows, now, handed>>
      BY <1>1
    <2> QED BY <1>2, <2>3, <2>4 DEF PassedOver, Live
  <1>6. Again' = Again
    BY <1>1 DEF Again
  <1>7. Debts'
    <2>1. crashes \in Nat /\ refused \in Nat
      BY DEF Debts
    <2> QED BY <1>1, <1>6, <2>1, DebtsKept
  <1> QED BY <1>3, <1>4, <1>5, <1>7, <1>8

\* A flush ended by a refused update drops what it had sent and not marked; the
\* refused delete pays for that.
LEMMA FlushDiesStep ==
  ASSUME StoreForwardInv, NEW r \in rows, FlushDies(r)
  PROVE  StoreForwardInv'
  <1> USE DEF StoreForwardInv
  <1>1. /\ UNCHANGED <<rows, nextRow, up, sess, tasks, accepted, handed, resent, expired,
                      crashes, now>>
        /\ flush' = None /\ flush # None
        /\ \/ ~flush.sent /\ refused' = refused
           \/ flush.sent /\ refused' = refused + 1
        /\ \/ UNCHANGED <<sweep, loop>>
           \/ sweep' = {} /\ loop' = FALSE
    BY DEF FlushDies
  <1>2. RowsDistinct' /\ HistoryTypes' /\ NoSilentLoss'
    BY <1>1 DEF RowsDistinct, HistoryTypes, NoSilentLoss
  <1>3. MemoryTypes' /\ SentIsHanded' /\ PassedOver'
    BY <1>1 DEF MemoryTypes, SentIsHanded, PassedOver
  <1>4. Again' = Again
    BY <1>1 DEF Again
  <1>5. Debts'
    <2>1. crashes \in Nat /\ refused \in Nat
      BY DEF Debts
    <2> QED BY <1>1, <1>4, <2>1, DebtsKept
  <1> QED BY <1>2, <1>3, <1>5

\* What goes down or comes up with a purge, or goes down without one.
LEMMA PurgeSteps ==
  ASSUME StoreForwardInv, Stop \/ Start
  PROVE  StoreForwardInv'
  <1> USE DEF StoreForwardInv
  <1>1. /\ UNCHANGED <<nextRow, accepted, handed, resent, crashes, refused, now>>
        /\ flush = None /\ flush' = None
        /\ up' \in BOOLEAN /\ loop' \in BOOLEAN
        /\ \/ UNCHANGED <<sess, tasks, sweep>>
           \/ sess' = {} /\ tasks' = {} /\ sweep' = {}
        /\ up' \/ (sess' = {} /\ ~loop')
    BY DEF Stop, Start, Down, Idle, MemoryTypes
  <1>2. PICK S \in {{}, ExpiredRows} : rows' = rows \ S
                                       /\ expired' = expired \cup {r.msg : r \in S}
    <2>1. purge_expired \/ UNCHANGED <<rows, expired>>
      BY DEF Stop, Start
    <2>2. CASE purge_expired
      <3>1. {x \in rows : x.expires <= now} = ExpiredRows
        BY BoundsAssumption DEF ExpiredRows, Live, RowsDistinct, Row
      <3> QED BY <2>2, <3>1 DEF purge_expired
    <2>3. CASE UNCHANGED <<rows, expired>>
      BY <2>3
    <2> QED BY <2>1, <2>2, <2>3
  <1>3. S \subseteq rows /\ rows' \subseteq rows
    BY <1>2 DEF ExpiredRows
  <1>4. RowsDistinct'
    BY <1>1, <1>3 DEF RowsDistinct
  <1>5. HistoryTypes'
    <2>1. \A r \in rows' : r \in rows /\ r.msg \notin expired'
      BY <1>2, <1>3 DEF RowsDistinct, HistoryTypes
    <2> QED BY <1>1, <1>2, <1>3, <2>1 DEF HistoryTypes
  <1>6. NoSilentLoss'
    BY <1>1, <1>2, <1>3 DEF NoSilentLoss
  <1>7. MemoryTypes' /\ SentIsHanded' /\ PassedOver'
    BY <1>1 DEF MemoryTypes, SentIsHanded, PassedOver
  <1>8. Again' \subseteq Again
    BY <1>1, <1>3 DEF Again
  <1>9. Debts'
    BY <1>1, <1>8, DebtsKept DEF Debts, Due
  <1> QED BY <1>4, <1>5, <1>6, <1>7, <1>9

\* A crash ends the flush, and pays for the message it had sent and not marked.
LEMMA CrashStep ==
  ASSUME StoreForwardInv, Crash
  PROVE  StoreForwardInv'
  <1> USE DEF StoreForwardInv
  <1>1. /\ UNCHANGED <<rows, nextRow, accepted, handed, resent, expired, refused, now>>
        /\ crashes' = crashes + 1 /\ crashes \in Nat /\ refused \in Nat
        /\ up' = FALSE /\ loop' = FALSE /\ flush' = None /\ sess' = {} /\ tasks' = {} /\ sweep' = {}
    BY DEF Crash, Down, Debts
  <1>2. Again' = Again
    BY <1>1 DEF Again
  <1>3. Debts'
    BY <1>1, <1>2, DebtsKept
  <1>4. MemoryTypes' /\ SentIsHanded' /\ PassedOver'
    BY <1>1 DEF MemoryTypes, SentIsHanded, PassedOver
  <1> QED BY <1>1, <1>3, <1>4 DEF RowsDistinct, HistoryTypes, NoSilentLoss

LEMMA NextInv == StoreForwardInv /\ [Next]_vars => StoreForwardInv'
  <1> SUFFICES ASSUME StoreForwardInv, [Next]_vars PROVE StoreForwardInv'
    OBVIOUS
  <1>0. now \in 0 .. MaxTime /\ now >= now /\ MemoryTypes
    BY BoundsAssumption DEF StoreForwardInv, RowsDistinct
  <1>1. ASSUME NEW m \in Message, send_or_queue(m) PROVE StoreForwardInv'
    BY <1>1, SendStep
  <1>2. ASSUME NEW p \in Peer, _on_peer_connected(p)
        PROVE  StoreForwardInv'
    <2>1. MemoryTypes'
      BY <1>0, <1>2 DEF MemoryTypes, _on_peer_connected, Idle
    <2> QED BY <1>0, <1>2, <2>1, QuietStep DEF _on_peer_connected
  <1>3. ASSUME NEW p \in Peer, RunTask(p) \/ Visit(p) PROVE StoreForwardInv'
    BY <1>3, BeginStep
  <1>4. ASSUME NEW r \in rows, FlushSend(r) \/ FlushMark(r) \/ FlushFail(r)
                                \/ MarkRefused(r) \/ FlushDies(r)
        PROVE  StoreForwardInv'
    BY <1>4, FlushSendStep, FlushMarkStep, FlushKeepStep, FlushDiesStep
  <1>5. CASE Stop \/ Start
    BY <1>5, PurgeSteps
  <1>6. CASE Crash
    BY <1>6, CrashStep
  <1>7. CASE _flush_loop \/ Tick \/ UNCHANGED vars
    <2>1. MemoryTypes'
      BY <1>0, <1>7 DEF MemoryTypes, _flush_loop, Tick, Idle
    <2>2. now' \in 0 .. MaxTime /\ now' >= now
      BY <1>0, <1>7, BoundsAssumption DEF _flush_loop, Tick
    <2> QED BY <1>7, <2>1, <2>2, QuietStep DEF _flush_loop, Tick
  <1>8. ASSUME LoopDies \/ \E p \in Peer : TaskDies(p) PROVE StoreForwardInv'
    <2>1. MemoryTypes'
      BY <1>0, <1>8 DEF MemoryTypes, LoopDies, TaskDies
    <2> QED BY <1>0, <1>8, <2>1, QuietStep DEF LoopDies, TaskDies
  <1> QED BY <1>1, <1>2, <1>3, <1>4, <1>5, <1>6, <1>7, <1>8 DEF Next

\* The inductive invariant holds for any peers, messages and bounds.
THEOREM Invariance == Spec => []StoreForwardInv
  BY InitInv, NextInv, PTL DEF Spec

\* The types hold, and row ids stay distinct, whatever crashes come.
THEOREM TypeOKThm == Spec => []TypeOK
  <1>1. StoreForwardInv => TypeOK
    BY DEF StoreForwardInv, TypeOK, RowsDistinct, MemoryTypes, HistoryTypes
  <1> QED BY <1>1, Invariance, PTL

\* No accepted message is dropped silently, for any number of peers, messages,
\* queue sizes and crashes.
THEOREM NoSilentLossThm == Spec => []NoSilentLoss
  <1>1. StoreForwardInv => NoSilentLoss
    BY DEF StoreForwardInv
  <1> QED BY <1>1, Invariance, PTL

\* Messages sent again are at most as many as crashes and refused deletes, because
\* each message whose row is still there after it was sent is owed to one.
THEOREM ResentByFailureOnlyThm == Spec => []ResentByFailureOnly
  <1>1. StoreForwardInv => ResentByFailureOnly
    <2> SUFFICES ASSUME StoreForwardInv PROVE ResentByFailureOnly
      OBVIOUS
    <2>1. IsFiniteSet(Again) /\ Cardinality(Again) \in Nat
      BY FS_Subset, FS_CardinalityType DEF StoreForwardInv, Debts, Again
    <2>2. CASE flush # None /\ flush.sent
      <3>1. Again # {}
        BY <2>2 DEF StoreForwardInv, SentIsHanded, Again
      <3>2. Cardinality(Again) # 0
        BY <2>1, <3>1, FS_EmptySet
      <3> QED BY <2>1, <2>2, <3>2 DEF StoreForwardInv, Debts, Due, ResentByFailureOnly
    <2>3. CASE ~(flush # None /\ flush.sent)
      BY <2>1, <2>3 DEF StoreForwardInv, Debts, Due, ResentByFailureOnly
    <2> QED BY <2>2, <2>3
  <1> QED BY <1>1, Invariance, PTL

\* A flush sends a peer's messages in the order they were queued.
THEOREM OldestFirstThm == Spec => []OldestFirst
  <1>1. StoreForwardInv => OldestFirst
    <2> SUFFICES ASSUME StoreForwardInv, flush # None, flush.sent,
                        NEW h \in rows, NEW r \in rows,
                        First(h), r.msg.to = flush.peer, Live(r), r.id < h.id
                 PROVE  r.msg \in Oversize \cup handed
      BY DEF OldestFirst
    <2>1. r.id \in Nat /\ h.id \in Nat /\ r.expires \in Nat /\ h.expires \in Nat
          /\ r.expires <= h.expires
      BY BoundsAssumption DEF StoreForwardInv, RowsDistinct, Row
    <2>2. ~Older(h, r) /\ r # h
      BY <2>1 DEF Older
    <2>3. r.id \notin flush.todo
      BY <2>2 DEF First
    <2> QED BY <2>3 DEF StoreForwardInv, PassedOver
  <1> QED BY <1>1, Invariance, PTL

-----------------------------------------------------------------------------
(* The queue's size                                                         *)

\* No peer has more than MaxQueue live rows.
CapKept == \A p \in Peer : IsFiniteSet(Pending(p)) /\ queue_size(p) <= MaxQueue

\* A step that makes no row and none live again keeps what waits within the cap.
LEMMA FewerWait ==
  ASSUME StoreForwardInv, CapKept, rows' \subseteq rows, now' \in Nat, now' >= now
  PROVE  CapKept'
  <1> SUFFICES ASSUME NEW p \in Peer
               PROVE  IsFiniteSet(Pending(p)') /\ Cardinality(Pending(p)') <= MaxQueue
    BY DEF CapKept, queue_size
  <1>1. Pending(p)' \subseteq Pending(p)
    BY BoundsAssumption DEF Pending, Live, StoreForwardInv, RowsDistinct, Row
  <1>2. IsFiniteSet(Pending(p)) /\ Cardinality(Pending(p)) <= MaxQueue
    BY DEF CapKept, queue_size
  <1>3. /\ IsFiniteSet(Pending(p)')
        /\ Cardinality(Pending(p)') <= Cardinality(Pending(p))
        /\ Cardinality(Pending(p)') \in Nat /\ Cardinality(Pending(p)) \in Nat
    BY <1>1, <1>2, FS_Subset, FS_CardinalityType
  <1> QED BY <1>2, <1>3, BoundsAssumption

\* enqueue adds one row, and refuses when the cap is reached.
LEMMA OneMoreWaits ==
  ASSUME StoreForwardInv, CapKept, NEW m \in Message, enqueue(m), now' = now
  PROVE  CapKept'
  <1> SUFFICES ASSUME NEW p \in Peer
               PROVE  IsFiniteSet(Pending(p)') /\ Cardinality(Pending(p)') <= MaxQueue
    BY DEF CapKept, queue_size
  <1>1. /\ IsFiniteSet(Pending(p)) /\ Cardinality(Pending(p)) <= MaxQueue
        /\ Cardinality(Pending(p)) \in Nat
    BY FS_CardinalityType DEF CapKept, queue_size
  <1>2. CASE p = m.to
    <2>1. Pending(p)' \subseteq Pending(p) \cup {NewRow(m)}
      BY DEF enqueue, Pending, Live
    <2>2. Cardinality(Pending(p)) < MaxQueue
      BY <1>2 DEF enqueue, queue_size
    <2>3. /\ IsFiniteSet(Pending(p) \cup {NewRow(m)})
          /\ Cardinality(Pending(p) \cup {NewRow(m)}) <= MaxQueue
      <3> DEFINE S == Pending(p)  x == NewRow(m)
      <3> HIDE DEF S, x
      <3>1. IsFiniteSet(S) /\ Cardinality(S) \in Nat /\ Cardinality(S) < MaxQueue
        BY <1>1, <2>2 DEF S
      <3>2. /\ IsFiniteSet(S \cup {x})
            /\ Cardinality(S \cup {x}) \in {Cardinality(S), Cardinality(S) + 1}
        BY <3>1, FS_AddElement
      <3> QED BY <3>1, <3>2, BoundsAssumption DEF S, x
    <2>4. /\ IsFiniteSet(Pending(p)')
          /\ Cardinality(Pending(p)') <= Cardinality(Pending(p) \cup {NewRow(m)})
          /\ Cardinality(Pending(p)') \in Nat
          /\ Cardinality(Pending(p) \cup {NewRow(m)}) \in Nat
      BY <2>1, <2>3, FS_Subset, FS_CardinalityType
    <2> QED BY <2>3, <2>4, BoundsAssumption
  <1>3. CASE p # m.to
    <2>1. Pending(p)' = Pending(p)
      BY <1>3 DEF enqueue, Pending, Live, NewRow
    <2> QED BY <1>1, <2>1
  <1> QED BY <1>2, <1>3

\* A peer's queue never has more than MaxQueue messages waiting, however they
\* were refused, purged, or kept by a crash.
THEOREM QueueCapThm == Spec => [](\A p \in Peer : queue_size(p) <= MaxQueue)
  <1>1. Init => CapKept
    <2> SUFFICES ASSUME Init, NEW p \in Peer
                 PROVE  IsFiniteSet(Pending(p)) /\ Cardinality(Pending(p)) <= MaxQueue
      BY DEF CapKept, queue_size
    <2>1. Pending(p) = {}
      BY DEF Init, Pending
    <2> QED BY <2>1, FS_EmptySet, BoundsAssumption
  <1>2. StoreForwardInv /\ CapKept /\ [Next]_vars => CapKept'
    <2> SUFFICES ASSUME StoreForwardInv, CapKept, [Next]_vars PROVE CapKept'
      OBVIOUS
    <2>1. now \in Nat
      BY BoundsAssumption DEF StoreForwardInv, RowsDistinct
    <2>2. CASE \E m \in Message : enqueue(m) /\ now' = now
      BY <2>2, OneMoreWaits
    <2>3. CASE rows' \subseteq rows /\ now' \in Nat /\ now' >= now
      BY <2>3, FewerWait
    <2> QED BY <2>1, <2>2, <2>3
            DEF Next, send_or_queue, _on_peer_connected, RunTask, Visit, _flush_loop,
                FlushSend, FlushMark, FlushFail, MarkRefused, FlushDies, TaskDies, LoopDies,
                Delete, Stop, Crash, Start, purge_expired, Tick
  <1>3. CapKept => \A p \in Peer : queue_size(p) <= MaxQueue
    BY DEF CapKept
  <1> QED BY <1>1, <1>2, <1>3, Invariance, PTL DEF Spec

----------------------------------------------------------------------------
(* The refinement                                                          *)

\* The messages that wait, as Outbox sees them.
Waiting == {r.msg : r \in rows} \ handed

LEMMA ObStep == StoreForwardInv /\ [Next]_vars => [Ob!Next]_(Ob!vars)
  <1> SUFFICES ASSUME StoreForwardInv, [Next]_vars PROVE [Ob!Next]_(Ob!vars)
    OBVIOUS
  <1> USE DEF StoreForwardInv
  <1>1. ASSUME NEW m \in Message, send_or_queue(m) PROVE Ob!Accept(m)
    <2>1. /\ m \notin Waiting \cup handed \cup (expired \ handed)
          /\ expired' = expired /\ m \notin handed /\ \A r \in rows : r.msg # m
      BY <1>1 DEF send_or_queue, Waiting, HistoryTypes
    <2>2. CASE m.to \in sess
      BY <1>1, <2>1, <2>2 DEF send_or_queue, Hand, Ob!Accept, Waiting, HistoryTypes
    <2>3. CASE m.to \notin sess
      <3>1. rows' = rows \cup {NewRow(m)} /\ handed' = handed /\ NewRow(m).msg = m
        BY <1>1, <2>3 DEF send_or_queue, enqueue, NewRow
      <3>2. Waiting' = Waiting \cup {m}
        BY <2>1, <3>1 DEF Waiting
      <3> QED BY <2>1, <3>1, <3>2 DEF Ob!Accept, Waiting
    <2> QED BY <2>2, <2>3
  <1>2. ASSUME NEW r \in rows, FlushSend(r) PROVE Ob!Hand(r.msg) \/ UNCHANGED Ob!vars
    <2>1. rows' = rows /\ expired' = expired /\ handed' = handed \cup {r.msg}
          /\ r.msg \notin expired
      BY <1>2 DEF FlushSend, Hand, HistoryTypes
    <2> QED BY <2>1 DEF Ob!Hand, Ob!vars
  <1>3. ASSUME NEW r \in rows, FlushMark(r) PROVE UNCHANGED Ob!vars
    <2>1. r.msg \in handed
      BY <1>3, FirstUnique DEF FlushMark, SentIsHanded
    <2>2. \A x \in rows : x.id = r.id <=> x = r
      BY DEF RowsDistinct
    <2>3. UNCHANGED <<handed, expired>> /\ rows' = {x \in rows : x.id # r.id}
      BY <1>3 DEF FlushMark, Delete
    <2> QED BY <2>1, <2>2, <2>3 DEF Ob!vars
  <1>4. ASSUME NEW r \in rows, FlushFail(r) \/ MarkRefused(r) \/ FlushDies(r)
        PROVE  UNCHANGED Ob!vars
    BY <1>4 DEF FlushFail, MarkRefused, FlushDies, Ob!vars
  <1>5. CASE purge_expired /\ handed' = handed
    <2> DEFINE late == {r.msg : r \in {x \in rows : x.expires <= now}} \ handed
    <2>1. /\ rows' = rows \ ExpiredRows /\ handed' = handed
          /\ expired' = expired \cup {r.msg : r \in {x \in rows : x.expires <= now}}
      BY <1>5 DEF purge_expired
    <2>2. \A r \in rows : r \in rows' <=> ~(r.expires <= now)
      BY <2>1, BoundsAssumption DEF ExpiredRows, Live, RowsDistinct, Row
    <2>3. \A r, s \in rows : r.msg = s.msg => r = s
      BY DEF RowsDistinct
    <2>4. Waiting' = Waiting \ late
      BY <2>1, <2>2, <2>3 DEF Waiting
    <2>5. late \in SUBSET Waiting /\ (expired \ handed)' = (expired \ handed) \cup late
      BY <2>1 DEF Waiting
    <2> HIDE DEF late
    <2>6. PICK S \in SUBSET Waiting : Waiting' = Waiting \ S
                                     /\ (expired \ handed)' = (expired \ handed) \cup S
      BY <2>4, <2>5
    <2>7. Ob!Expire(S)
      BY <2>1, <2>6 DEF Ob!Expire, Waiting
    <2> QED BY <2>6, <2>7 DEF Ob!Next, Waiting
  <1>6. ASSUME UNCHANGED <<rows, handed, expired>> PROVE UNCHANGED Ob!vars
    BY <1>6 DEF Ob!vars
  <1>14. CASE Stop \/ Start
    BY <1>5, <1>6, <1>14 DEF Stop, Start
  <1>7. ASSUME NEW p \in Peer,
               \/ _on_peer_connected(p)
               \/ RunTask(p) \/ Visit(p) \/ TaskDies(p)
        PROVE  UNCHANGED <<rows, handed, expired>>
    BY <1>7 DEF _on_peer_connected, RunTask, Visit, TaskDies
  <1>8. CASE _flush_loop \/ LoopDies \/ Crash \/ Tick \/ UNCHANGED vars
    <2>1. UNCHANGED <<rows, handed, expired>>
      BY <1>8 DEF _flush_loop, LoopDies, Crash, Tick
    <2> QED BY <2>1, <1>6
  <1>9. \A r \in rows : r.msg \in Message
    BY DEF RowsDistinct, Row
  <1>10. ASSUME NEW m \in Message, send_or_queue(m) PROVE Ob!Next
    BY <1>1, <1>10 DEF Ob!Next
  <1>11. ASSUME NEW r \in rows, FlushSend(r) \/ FlushMark(r) \/ FlushFail(r)
                                 \/ MarkRefused(r) \/ FlushDies(r)
         PROVE  Ob!Next \/ UNCHANGED Ob!vars
    BY <1>2, <1>3, <1>4, <1>9, <1>11 DEF Ob!Next
  <1>12. ASSUME NEW p \in Peer,
                \/ _on_peer_connected(p)
                \/ RunTask(p) \/ Visit(p) \/ TaskDies(p)
         PROVE  UNCHANGED Ob!vars
    BY <1>6, <1>7, <1>12
  <1>13. CASE Next
    BY <1>14, <1>8, <1>10, <1>11, <1>12, <1>13 DEF Next
  <1> QED BY <1>8, <1>13

\* Store and forward implements Outbox: what it accepted is handed over or
\* expires, once and for all, for any number of peers, messages and crashes.
THEOREM RefinesOutbox == Spec => OutboxSpec
  <1>1. Init => Ob!Init
    BY DEF Init, Ob!Init
  <1> QED BY <1>1, ObStep, Invariance, PTL DEF Spec, OutboxSpec, Ob!Spec
=============================================================================
