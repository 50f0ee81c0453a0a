---------------------------- MODULE MessageStore ----------------------------
(***************************************************************************)
(* The encrypted message store, core/store.py: one database file, and the  *)
(* MessageStore objects that successive processes open on it, each with    *)
(* the passphrase it was given.                                            *)
(*                                                                         *)
(* Every _meta_set of the first open() is a commit of its own, so the      *)
(* process can die, or the database refuse the write, between any two of   *)
(* them; those steps are separate here.  Every other operation commits     *)
(* once and is one step.  open() on an object whose _conn is set returns   *)
(* at once and changes nothing.  The plaintext of a message and its        *)
(* direction are left out: of a ciphertext only the key it was made with   *)
(* matters.                                                                *)
(***************************************************************************)
EXTENDS Naturals

CONSTANTS Passphrase, Peer, None,
          MaxSalts,   \* bound on the salts generated
          MaxRows,    \* bound on the messages saved
          MaxTime,    \* bound on the clock
          MaxAge      \* the max_age_seconds of purge_old

ASSUME StoreBoundsAssumption ==
  MaxSalts \in Nat /\ MaxRows \in Nat /\ MaxTime \in Nat /\ MaxAge \in Nat

\* _derive_key is a function of the passphrase and the salt; no two pairs
\* give the same key.
Key == [pass : Passphrase, salt : 1 .. MaxSalts]

ASSUME StoreNoneAssumption ==
  /\ None \notin Passphrase /\ None \notin Key /\ None \notin Nat
  /\ None \notin [key : Key, at : {"kdf_params", "key_check", "version"}]

VARIABLES
  meta,      \* table meta, on disk: kdf_salt and key_check are None while
             \* absent, kdf_params tells whether it is there
  messages,  \* table messages, on disk
  nextId,    \* its AUTOINCREMENT counter, on disk
  self,      \* passphrase of the MessageStore object, None: no process
  conn,      \* whether _conn is set
  key,       \* _key
  opening,   \* the first open() under way: its key and the meta row to write next
  now,       \* time.time()
  salts,     \* history: salts generated
  opened     \* history: passphrases an open() has succeeded with

disk == <<meta, messages, nextId>>
object == <<self, conn, key, opening>>
vars == <<disk, object, now, salts, opened>>

StoredMessage == [id : 1 .. MaxRows, peer : Peer, key : Key, ts : 0 .. MaxTime,
                  delivered : BOOLEAN]

TypeOK ==
  /\ meta \in [kdf_salt : (1 .. MaxSalts) \cup {None}, kdf_params : BOOLEAN,
               key_check : Key \cup {None}]
  /\ messages \subseteq StoredMessage
  /\ nextId \in 1 .. MaxRows + 1
  /\ \A r1, r2 \in messages : r1.id = r2.id => r1 = r2
  /\ self \in Passphrase \cup {None}
  /\ conn \in BOOLEAN
  /\ key \in Key \cup {None}
  /\ (key # None => conn)
  /\ (opening # None => conn /\ key = None)
  /\ now \in 0 .. MaxTime
  /\ salts \in 0 .. MaxSalts
  /\ opened \subseteq Passphrase

Init ==
  /\ meta = [kdf_salt |-> None, kdf_params |-> FALSE, key_check |-> None]
  /\ messages = {} /\ nextId = 1
  /\ self = None /\ conn = FALSE /\ key = None /\ opening = None
  /\ now = 0 /\ salts = 0 /\ opened = {}

----------------------------------------------------------------------------
(* Mutated forms of definitions below; no run of the project uses them.    *)

MutSentinelOK(k) == TRUE
MutRowAfter(r) == "version"
MutTooOld(r) == r.ts + MaxAge <= now
MutNewId == 1

----------------------------------------------------------------------------
(* open                                                                    *)

\* What the first open() writes after kdf_salt: kdf_params, then these.
RowAfter(r) == IF r = "kdf_params" THEN "key_check" ELSE "version"

Derived(s) == [pass |-> self, salt |-> s]

NeedsSalt == meta.kdf_salt = None

\* hmac_lib.compare_digest with the stored sentinel, b"" when there is none.
SentinelOK(k) == meta.key_check = k

Succeed(k) ==
  /\ key' = k
  /\ opened' = opened \cup {self}

\* The first open(), up to the commit of the salt.
OpenFirst ==
  /\ self # None /\ ~conn /\ NeedsSalt
  /\ salts < MaxSalts
  /\ salts' = salts + 1
  /\ conn' = TRUE
  /\ meta' = [meta EXCEPT !.kdf_salt = salts + 1]
  /\ opening' = [key |-> Derived(salts + 1), at |-> "kdf_params"]
  /\ UNCHANGED <<messages, nextId, self, key, now, opened>>

\* One more _meta_set of it, and its end after the last.
MetaSet ==
  /\ opening # None
  /\ meta' = CASE opening.at = "kdf_params" -> [meta EXCEPT !.kdf_params = TRUE]
               [] opening.at = "key_check" -> [meta EXCEPT !.key_check = opening.key]
               [] OTHER -> meta        \* version: nothing reads it
  /\ \/ /\ opening.at = "version"
        /\ opening' = None
        /\ Succeed(opening.key)
     \/ /\ opening.at # "version"
        /\ opening' = [opening EXCEPT !.at = RowAfter(opening.at)]
        /\ UNCHANGED <<key, opened>>
  /\ UNCHANGED <<messages, nextId, self, conn, now, salts>>

\* SQLite refuses a write of the first open(): the exception leaves _conn set.
MetaFail ==
  /\ \/ opening # None
     \/ self # None /\ ~conn /\ NeedsSalt
  /\ conn' = TRUE
  /\ opening' = None
  /\ UNCHANGED <<disk, self, key, now, salts, opened>>

\* A later open(): the key is derived again and compared with the sentinel.
OpenKnown ==
  /\ self # None /\ ~conn /\ ~NeedsSalt
  /\ \/ /\ ~meta.kdf_params              \* KeyError: params is {}
        /\ conn' = TRUE
        /\ UNCHANGED <<key, opened>>
     \/ /\ meta.kdf_params
        /\ ~SentinelOK(Derived(meta.kdf_salt))
        /\ UNCHANGED <<conn, key, opened>>   \* closed again; InvalidTag
     \/ /\ meta.kdf_params
        /\ SentinelOK(Derived(meta.kdf_salt))
        /\ conn' = TRUE
        /\ Succeed(Derived(meta.kdf_salt))
  /\ UNCHANGED <<disk, self, opening, now, salts>>

close ==
  /\ self # None /\ opening = None
  /\ conn' = FALSE
  /\ key' = None
  /\ UNCHANGED <<disk, self, opening, now, salts, opened>>

----------------------------------------------------------------------------
(* The operations of an open store                                         *)

\* _assert_open
IsOpen == conn /\ key # None

NewId == nextId

\* The callers leave timestamp to its default.
save_message(p) ==
  /\ IsOpen
  /\ nextId <= MaxRows
  /\ messages' = messages \cup {[id |-> NewId, peer |-> p, key |-> key, ts |-> now,
                                 delivered |-> FALSE]}
  /\ nextId' = nextId + 1
  /\ UNCHANGED <<meta, object, now, salts, opened>>

mark_delivered(i) ==
  /\ IsOpen
  /\ messages' = {IF r.id = i THEN [r EXCEPT !.delivered = TRUE] ELSE r : r \in messages}
  /\ UNCHANGED <<meta, nextId, object, now, salts, opened>>

TooOld(r) == r.ts + MaxAge < now

purge_old ==
  /\ IsOpen
  /\ messages' = {r \in messages : ~TooOld(r)}
  /\ UNCHANGED <<meta, nextId, object, now, salts, opened>>

----------------------------------------------------------------------------
(* The process                                                             *)

\* A process makes its MessageStore with the passphrase the user typed.
Begin(w) ==
  /\ self = None
  /\ self' = w
  /\ UNCHANGED <<disk, conn, key, opening, now, salts, opened>>

\* It ends, at any point.
End ==
  /\ self # None
  /\ self' = None /\ conn' = FALSE /\ key' = None /\ opening' = None
  /\ UNCHANGED <<disk, now, salts, opened>>

Tick ==
  /\ now < MaxTime
  /\ now' = now + 1
  /\ UNCHANGED <<disk, object, salts, opened>>

Next ==
  \/ \E w \in Passphrase : Begin(w)
  \/ OpenFirst \/ MetaSet \/ MetaFail \/ OpenKnown \/ close
  \/ \E p \in Peer : save_message(p)
  \/ \E i \in 1 .. MaxRows : mark_delivered(i)
  \/ purge_old
  \/ End
  \/ Tick

Spec == Init /\ [][Next]_vars

----------------------------------------------------------------------------
(* Properties                                                              *)

\* Every message of the table was encrypted with the key an open store holds,
\* whatever crashes and passphrases came before: get_history decrypts all of
\* them.
Readable == key # None => \A r \in messages : r.key = key

\* The passphrase that has opened the store once is never turned away later,
\* neither by the sentinel nor by a meta table found incomplete: open() returns
\* only after all of its commits.
NeverLockedOut ==
  (self \in opened /\ self # None /\ ~conn /\ opening = None)
    => /\ meta.kdf_salt # None /\ meta.kdf_params
       /\ meta.key_check = [pass |-> self, salt |-> meta.kdf_salt]

\* One passphrase only ever opens a database.
OneOwner == \A v, w \in opened : v = w

\* A message saved stays, whoever opens and closes the store, until it is older
\* than purge_old allows; and it keeps its peer, key and time.
SavedStays ==
  [][\A r \in messages :
       r.ts + MaxAge >= now =>
         \E s \in messages' : /\ s.id = r.id /\ s.peer = r.peer /\ s.key = r.key
                              /\ s.ts = r.ts /\ (r.delivered => s.delivered)]_vars

\* The types the proofs need.
StoreTypes ==
  /\ meta \in [kdf_salt : (1 .. MaxSalts) \cup {None}, kdf_params : BOOLEAN,
               key_check : Key \cup {None}]
  /\ messages \subseteq [id : Nat, peer : Peer, key : Key, ts : Nat, delivered : BOOLEAN]
  /\ nextId \in Nat /\ now \in Nat
  /\ self \in Passphrase \cup {None}
  /\ key \in Key \cup {None}
  /\ salts \in 0 .. MaxSalts
  /\ opened \subseteq Passphrase
  /\ opening # None =>
       self # None /\ conn /\ key = None
  /\ opening \in [key : Key, at : {"kdf_params", "key_check", "version"}] \cup {None}
  /\ (key # None => self # None /\ conn)

\* The parts Readable and NeverLockedOut rest on: the sentinel is that of the
\* stored salt, and nothing is saved, nor a key held, before it is there.
Sentinel ==
  /\ meta.kdf_salt = None => meta.key_check = None
  /\ meta.key_check # None => meta.kdf_params /\ meta.key_check.salt = meta.kdf_salt
  /\ key # None => meta.key_check = key /\ key.pass = self
  /\ \A r \in messages : r.key = meta.key_check
  /\ \A w \in opened : meta.key_check # None /\ meta.key_check.pass = w
FirstOpen ==
  opening # None =>
    /\ opening.key.salt = meta.kdf_salt /\ opening.key.pass = self
    /\ meta.key_check \in {None, opening.key}
    /\ (opening.at # "kdf_params" => meta.kdf_params)
    /\ (opening.at = "version" => meta.key_check = opening.key)
    /\ (meta.key_check # None => opening.at = "version")
    /\ messages = {} /\ opened = {}
StoreInv == StoreTypes /\ Sentinel /\ FirstOpen
=============================================================================
