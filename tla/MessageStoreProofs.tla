------------------------ MODULE MessageStoreProofs ------------------------
(***************************************************************************)
(* Proofs about MessageStore: whatever crashes and passphrases there were, *)
(* an open store holds the key of every message in its table, and the      *)
(* passphrase that opened it once opens it again.                          *)
(***************************************************************************)
EXTENDS MessageStore, TLAPS

USE DEF disk, object

\* The initial states satisfy the invariant.
LEMMA InitStore == Init => StoreInv
  BY StoreNoneAssumption, StoreBoundsAssumption
  DEF Init, StoreInv, StoreTypes, Sentinel, FirstOpen

\* Every step keeps it.
LEMMA StepStore == StoreInv /\ [Next]_vars => StoreInv'
<1> SUFFICES ASSUME StoreInv, [Next]_vars PROVE StoreInv'
  OBVIOUS
<1> USE StoreNoneAssumption, StoreBoundsAssumption DEF StoreInv, StoreTypes, Sentinel, FirstOpen
<1>1. ASSUME NEW w \in Passphrase, Begin(w) PROVE StoreInv'
  BY <1>1 DEF Begin
<1>3. CASE OpenFirst
  <2>1. Derived(salts + 1) \in Key /\ salts + 1 \in 1 .. MaxSalts
    BY <1>3 DEF OpenFirst, Derived, Key
  <2>2. messages = {} /\ opened = {} /\ meta.key_check = None /\ key = None
    BY <1>3 DEF OpenFirst, NeedsSalt, Key
  <2>3. StoreTypes'
    BY <1>3, <2>1, <2>2 DEF OpenFirst
  <2>4. Sentinel'
    BY <1>3, <2>2 DEF OpenFirst
  <2>5. FirstOpen'
    BY <1>3, <2>1, <2>2 DEF OpenFirst, Derived
  <2>. QED BY <2>3, <2>4, <2>5
<1>4. CASE MetaSet
  <2>1. opening # None /\ opening.key \in Key /\ messages = {} /\ opened = {} /\ key = None
    BY <1>4 DEF MetaSet
  <2>2. UNCHANGED <<messages, nextId, self, conn, now, salts>>
    BY <1>4 DEF MetaSet
  <2>3. CASE opening.at = "kdf_params"
    <3>1. /\ meta' = [meta EXCEPT !.kdf_params = TRUE]
          /\ opening' = [opening EXCEPT !.at = "key_check"]
          /\ UNCHANGED <<key, opened>>
      BY <1>4, <2>3 DEF MetaSet, RowAfter
    <3>. QED BY <3>1, <2>1, <2>2, <2>3
  <2>4. CASE opening.at = "key_check"
    <3>1. /\ meta' = [meta EXCEPT !.key_check = opening.key]
          /\ opening' = [opening EXCEPT !.at = "version"]
          /\ UNCHANGED <<key, opened>>
      BY <1>4, <2>4 DEF MetaSet, RowAfter
    <3>2. meta'.kdf_params = meta.kdf_params /\ meta.kdf_params = TRUE
          /\ meta'.kdf_salt = meta.kdf_salt /\ meta'.key_check = opening.key
      BY <3>1, <2>1, <2>4
    <3>3. StoreTypes'
      BY <3>1, <2>1, <2>2, <2>4
    <3>4. Sentinel'
      BY <3>1, <3>2, <2>1, <2>2, <2>4 DEF Key
    <3>5. FirstOpen'
      BY <3>1, <3>2, <2>1, <2>2, <2>4
    <3>. QED BY <3>3, <3>4, <3>5
  <2>5. CASE opening.at = "version"
    <3>1. meta' = meta /\ opening' = None /\ Succeed(opening.key)
      BY <1>4, <2>5 DEF MetaSet
    <3>2. meta.key_check = opening.key /\ meta.kdf_params
      BY <2>1, <2>5
    <3>. QED BY <3>1, <3>2, <2>1, <2>2 DEF Succeed, Key
  <2>. QED BY <2>1, <2>3, <2>4, <2>5
<1>5. CASE MetaFail
  BY <1>5 DEF MetaFail
<1>6. CASE OpenKnown
  <2>1. opening = None /\ key = None
    BY <1>6 DEF OpenKnown
  <2>2. CASE key' = key /\ opened' = opened
    BY <1>6, <2>1, <2>2 DEF OpenKnown
  <2>3. CASE SentinelOK(Derived(meta.kdf_salt)) /\ Succeed(Derived(meta.kdf_salt)) /\ conn'
    <3>1. Derived(meta.kdf_salt) \in Key /\ meta.key_check = Derived(meta.kdf_salt)
      BY <1>6, <2>3 DEF OpenKnown, NeedsSalt, SentinelOK, Derived, Key
    <3>2. Derived(meta.kdf_salt).pass = self
      BY DEF Derived
    <3>3. UNCHANGED <<meta, messages, nextId, now, self, opening, salts>> /\ self # None
      BY <1>6 DEF OpenKnown
    <3>. QED BY <2>1, <2>3, <3>1, <3>2, <3>3 DEF Succeed
  <2>. QED BY <1>6, <2>2, <2>3 DEF OpenKnown
<1>7. CASE close
  BY <1>7 DEF close
<1>8. ASSUME NEW p \in Peer, save_message(p) PROVE StoreInv'
  <2> DEFINE row == [id |-> nextId, peer |-> p, key |-> key, ts |-> now, delivered |-> FALSE]
  <2>1. /\ messages' = messages \cup {row} /\ nextId' = nextId + 1
        /\ key \in Key /\ opening = None
        /\ UNCHANGED <<meta, self, conn, key, opening, now, salts, opened>>
    BY <1>8 DEF save_message, IsOpen, NewId
  <2>2. row \in [id : Nat, peer : Peer, key : Key, ts : Nat, delivered : BOOLEAN]
        /\ row.key = key
    BY <2>1
  <2> HIDE DEF row
  <2>3. StoreTypes'
    BY <2>1, <2>2
  <2>4. Sentinel'
    BY <2>1, <2>2
  <2>. QED BY <2>1, <2>3, <2>4
<1>9. ASSUME NEW i \in 1 .. MaxRows, mark_delivered(i) PROVE StoreInv'
  <2> DEFINE Row == [id : Nat, peer : Peer, key : Key, ts : Nat, delivered : BOOLEAN]
  <2>1. ASSUME NEW r \in messages
        PROVE  /\ [r EXCEPT !.delivered = TRUE] \in Row
               /\ [r EXCEPT !.delivered = TRUE].key = r.key
    BY <2>1
  <2>2. \A s \in messages' : \E r \in messages : s = r \/ s = [r EXCEPT !.delivered = TRUE]
    BY <1>9 DEF mark_delivered
  <2>3. messages' \subseteq Row
    BY <2>1, <2>2
  <2>4. \A s \in messages' : \E r \in messages : s.key = r.key
    BY <2>1, <2>2
  <2>5. UNCHANGED <<meta, object, nextId, now, salts, opened>> /\ opening = None
    BY <1>9 DEF mark_delivered, IsOpen
  <2>6. Sentinel'
    BY <2>4, <2>5
  <2>. QED BY <2>3, <2>5, <2>6
<1>10. CASE purge_old
  BY <1>10 DEF purge_old, IsOpen
<1>11. CASE End
  BY <1>11 DEF End
<1>12. CASE Tick
  BY <1>12 DEF Tick
<1>13. CASE UNCHANGED vars
  BY <1>13 DEF vars
<1>. QED
  BY <1>1, <1>3, <1>4, <1>5, <1>6, <1>7, <1>8, <1>9, <1>10, <1>11, <1>12, <1>13 DEF Next
\* The invariant holds of every behaviour.
THEOREM Invariance == Spec => []StoreInv
  BY InitStore, StepStore, PTL DEF Spec

\* Every message of the table is encrypted with the key an open store holds,
\* for any number of messages, passphrases, crashes and reopenings.
THEOREM ReadableThm == Spec => []Readable
<1>1. StoreInv => Readable
  BY DEF StoreInv, Sentinel, Readable
<1>. QED BY <1>1, Invariance, PTL

\* The passphrase that opened the store once is accepted by every later open().
THEOREM NeverLockedOutThm == Spec => []NeverLockedOut
<1>1. StoreInv => NeverLockedOut
  <2> SUFFICES ASSUME StoreInv, self \in opened
               PROVE  /\ meta.kdf_salt # None /\ meta.kdf_params
                      /\ meta.key_check = [pass |-> self, salt |-> meta.kdf_salt]
    BY DEF NeverLockedOut
  <2>1. meta.key_check \in Key /\ meta.key_check.pass = self
    BY DEF StoreInv, StoreTypes, Sentinel
  <2>2. meta.key_check.salt = meta.kdf_salt /\ meta.kdf_params /\ meta.kdf_salt # None
    BY <2>1, StoreNoneAssumption DEF StoreInv, StoreTypes, Sentinel
  <2>. QED BY <2>1, <2>2 DEF Key
<1>. QED BY <1>1, Invariance, PTL

\* No two passphrases open the same database.
THEOREM OneOwnerThm == Spec => []OneOwner
<1>1. StoreInv => OneOwner
  BY DEF StoreInv, Sentinel, OneOwner
<1>. QED BY <1>1, Invariance, PTL
-----------------------------------------------------------------------------
(* The table itself: ids are unique, and rows outlive what is done to others. *)

RowsBelow == TypeOK /\ \A r \in messages : r.id < nextId

\* mark_delivered changes one field of a row.
LEMMA DeliveredRow ==
  ASSUME NEW r \in StoredMessage
  PROVE  [r EXCEPT !.delivered = TRUE] \in StoredMessage /\ [r EXCEPT !.delivered = TRUE].id = r.id
  BY DEF StoredMessage

\* What the steps do with rows.
LEMMA StepRows == StoreInv /\ RowsBelow /\ [Next]_vars => RowsBelow'
<1> SUFFICES ASSUME StoreInv, RowsBelow, [Next]_vars PROVE RowsBelow'
  OBVIOUS
<1> USE StoreNoneAssumption, StoreBoundsAssumption DEF RowsBelow, TypeOK
<1>0. /\ opening # None => self # None /\ conn /\ key = None
      /\ opening \in [key : Key, at : {"kdf_params", "key_check", "version"}] \cup {None}
  BY DEF StoreInv, StoreTypes
<1>1. ASSUME NEW w \in Passphrase, Begin(w) PROVE RowsBelow'
  BY <1>1 DEF Begin
<1>2. CASE OpenFirst
  <2>1. Derived(salts + 1) \in Key /\ salts + 1 \in 1 .. MaxSalts
    BY <1>2 DEF OpenFirst, Derived, Key
  <2>2. key = None
    BY <1>2 DEF OpenFirst
  <2>. QED BY <1>2, <2>1, <2>2 DEF OpenFirst
<1>3. CASE MetaSet
  <2>1. opening.key \in Key /\ opening # None /\ conn /\ key = None
    BY <1>0, <1>3 DEF MetaSet
  <2>2. UNCHANGED <<messages, nextId, self, conn, now, salts>>
    BY <1>3 DEF MetaSet
  <2>3. meta' \in [kdf_salt : (1 .. MaxSalts) \cup {None}, kdf_params : BOOLEAN,
                   key_check : Key \cup {None}]
    BY <1>3, <2>1 DEF MetaSet
  <2>4. \/ opening' = None /\ key' = opening.key /\ opened' = opened \cup {self}
        \/ UNCHANGED <<key, opened>>
    BY <1>3 DEF MetaSet, Succeed
  <2>5. self \in Passphrase
    BY <1>0, <2>1
  <2>. QED BY <2>1, <2>2, <2>3, <2>4, <2>5
<1>4. CASE MetaFail
  BY <1>0, <1>4 DEF MetaFail
<1>5. CASE OpenKnown
  <2>1. opening = None /\ key = None /\ self \in Passphrase
    BY <1>0, <1>5 DEF OpenKnown
  <2>2. UNCHANGED <<meta, messages, nextId, self, opening, now, salts>>
    BY <1>5 DEF OpenKnown
  <2>3. \/ conn' \in BOOLEAN /\ UNCHANGED <<key, opened>>
        \/ conn' = TRUE /\ key' = Derived(meta.kdf_salt) /\ opened' = opened \cup {self}
    BY <1>5 DEF OpenKnown, Succeed
  <2>4. Derived(meta.kdf_salt) \in Key
    BY <1>5, <2>1 DEF OpenKnown, NeedsSalt, Derived, Key
  <2>. QED BY <2>1, <2>2, <2>3, <2>4
<1>6. CASE close
  BY <1>6 DEF close
<1>7. ASSUME NEW p \in Peer, save_message(p) PROVE RowsBelow'
  <2> DEFINE row == [id |-> nextId, peer |-> p, key |-> key, ts |-> now, delivered |-> FALSE]
  <2>1. /\ messages' = messages \cup {row} /\ nextId' = nextId + 1
        /\ key \in Key /\ nextId \in 1 .. MaxRows
        /\ UNCHANGED <<meta, self, conn, key, opening, now, salts, opened>>
    BY <1>7 DEF save_message, IsOpen, NewId
  <2>2. row \in StoredMessage /\ row.id = nextId
    BY <2>1 DEF StoredMessage
  <2> HIDE DEF row
  <2>3. messages' \subseteq StoredMessage /\ \A r \in messages' : r.id < nextId'
    BY <2>1, <2>2 DEF StoredMessage
  <2>4. \A r1, r2 \in messages' : r1.id = r2.id => r1 = r2
    BY <2>1, <2>2 DEF StoredMessage
  <2>. QED BY <2>1, <2>3, <2>4
<1>8. ASSUME NEW i \in 1 .. MaxRows, mark_delivered(i) PROVE RowsBelow'
  <2> DEFINE Marked(r) == IF r.id = i THEN [r EXCEPT !.delivered = TRUE] ELSE r
  <2>1. ASSUME NEW r \in messages PROVE Marked(r) \in StoredMessage /\ Marked(r).id = r.id
    <3>1. r \in StoredMessage
      OBVIOUS
    <3> QED BY <3>1, DeliveredRow
  <2>2. messages' = {Marked(r) : r \in messages}
    BY <1>8 DEF mark_delivered
  <2> HIDE DEF Marked
  <2>3. messages' \subseteq StoredMessage /\ \A r \in messages' : r.id < nextId
    BY <2>1, <2>2
  <2>4. \A r1, r2 \in messages' : r1.id = r2.id => r1 = r2
    BY <2>1, <2>2
  <2>. QED BY <1>8, <2>3, <2>4 DEF mark_delivered
<1>9. CASE purge_old
  BY <1>9 DEF purge_old
<1>10. CASE End
  BY <1>10 DEF End
<1>11. CASE Tick
  BY <1>11 DEF Tick
<1>12. CASE UNCHANGED vars
  BY <1>12 DEF vars
<1>. QED
  BY <1>1, <1>2, <1>3, <1>4, <1>5, <1>6, <1>7, <1>8, <1>9, <1>10, <1>11, <1>12 DEF Next

\* The two invariants together.
LEMMA Rows == Spec => [](StoreInv /\ RowsBelow)
<1>1. Init => RowsBelow
  <2> SUFFICES ASSUME Init PROVE RowsBelow
    OBVIOUS
  <2>1. messages = {} /\ nextId = 1 /\ 1 \in 1 .. MaxRows + 1 /\ 0 \in 0 .. MaxTime
        /\ 0 \in 0 .. MaxSalts
    BY StoreBoundsAssumption DEF Init
  <2>2. meta \in [kdf_salt : (1 .. MaxSalts) \cup {None}, kdf_params : BOOLEAN,
                 key_check : Key \cup {None}]
    BY DEF Init
  <2>. QED BY <2>1, <2>2 DEF Init, RowsBelow, TypeOK
<1>. QED BY <1>1, InitStore, StepStore, StepRows, PTL DEF Spec

\* Meta table, rows and objects keep their shape; no id is given twice.
THEOREM TypeOKThm == Spec => []TypeOK
<1>1. RowsBelow => TypeOK
  BY DEF RowsBelow
<1>. QED BY <1>1, Rows, PTL

\* A message that is not too old survives every step, and is not altered.
THEOREM SavedStaysThm == Spec => SavedStays
<1> DEFINE Stays(r) == \E s \in messages' : /\ s.id = r.id /\ s.peer = r.peer /\ s.key = r.key
                                            /\ s.ts = r.ts /\ (r.delivered => s.delivered)
<1>1. StoreInv /\ RowsBelow /\ [Next]_vars =>
        [\A r \in messages : r.ts + MaxAge >= now => Stays(r)]_vars
  <2> SUFFICES ASSUME StoreInv, RowsBelow, Next, NEW r \in messages, r.ts + MaxAge >= now
               PROVE  Stays(r)
    BY DEF vars
  <2>1. r \in StoredMessage /\ now \in Nat
    BY StoreBoundsAssumption DEF RowsBelow, TypeOK
  <2>2. CASE r \in messages'
    BY <2>2
  <2>3. ASSUME NEW i \in 1 .. MaxRows, mark_delivered(i) PROVE Stays(r)
    <3> DEFINE s == IF r.id = i THEN [r EXCEPT !.delivered = TRUE] ELSE r
    <3>1. s \in messages'
      BY <2>3 DEF mark_delivered
    <3>2. /\ s.id = r.id /\ s.peer = r.peer /\ s.key = r.key
          /\ s.ts = r.ts /\ (r.delivered => s.delivered)
      BY <2>1 DEF StoredMessage
    <3>. QED BY <3>1, <3>2
  <2>4. CASE purge_old
    BY <2>1, <2>2, <2>4, StoreBoundsAssumption DEF purge_old, TooOld, StoredMessage
  <2>5. ASSUME ~\E i \in 1 .. MaxRows : mark_delivered(i), ~purge_old PROVE r \in messages'
    BY <2>5 DEF Next, Begin, OpenFirst, MetaSet, MetaFail, OpenKnown, close, save_message,
                End, Tick
  <2>. QED BY <2>2, <2>3, <2>4, <2>5
<1>. QED BY <1>1, Rows, PTL DEF Spec, SavedStays
============================================================================
