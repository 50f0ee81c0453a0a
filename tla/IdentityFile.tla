----------------------------- MODULE IdentityFile -----------------------------
(***************************************************************************)
(* The identity file, core/identity.py, and the processes that use it      *)
(* through cli/mesim_cli.py: `mesim --create`, which creates or loads and  *)
(* ends, and `mesim`, which loads, opens the message store and the queue   *)
(* beside the file, and runs.  Several may run on one path.                *)
(*                                                                         *)
(* Between reading the file and using what was read lies a key derivation  *)
(* of a good part of a second, and write_text truncates the file before it *)
(* writes, so exists(), read, truncate and write are separate steps.  A    *)
(* call that raises leaves everything as it was and is no step, unless it  *)
(* ends a process that has got further.  Another derivation lies between   *)
(* the first look at the message store and what open() does about it, so   *)
(* those steps are separate too; MessageStore has each of its commits, for *)
(* one process at a time.  Callsign and rank are left out; of the key      *)
(* pairs only whose they are matters, which the device id tells.           *)
(***************************************************************************)
EXTENDS Naturals

CONSTANTS Proc, Passphrase, None, Absent, Torn,
          MaxDev    \* bound on the calls of create_identity for a user

ASSUME MaxDevAssumption == MaxDev \in Nat

\* The identities: the n-th created, and the decoy made with it.
Device == [n : 1 .. MaxDev, decoy : BOOLEAN]
Kdf == {"argon2id", "scrypt"}

\* A wrap key is determined by the passphrase and the derivation (and a salt
\* that is stored with what it wraps).
WrapKey == [pass : Passphrase, kdf : Kdf]
Wrapped == [dev : Device, key : WrapKey]

\* The content of an identity file: whose keys, wrapped with what, the
\* derivation it names, and the decoy, if it has one.
Doc == [dev : Device, key : WrapKey, kdf : Kdf, duress : Wrapped \cup {None}]

ASSUME FileAssumption ==
  /\ Absent \notin Doc /\ Torn \notin Doc /\ Absent # Torn
  /\ None \notin Wrapped /\ None \notin Device /\ None \notin Passphrase

\* The sentinel in the message store: a process finds no salt once at most, so
\* the one it then makes is told by the process.
KeyCheck == [pass : Passphrase, salt : Proc]

ASSUME StoreAssumption == None \notin Proc /\ None \notin KeyCheck

VARIABLES
  file,      \* the file: Absent, Torn (empty or cut off), or a document
  meta,      \* the salt and the sentinel of the message store, None: not there
  raced,     \* history: a process has made a salt where by then there was one
  pc,        \* what a process is at, see Stage
  kdf,       \* the derivation the installed packages offer
  devs,      \* history: identities created so far, decoys apart
  gone,      \* history: devices whose wipe has begun
  returned,  \* history: passphrases and the devices they were given
  wrote,     \* history: who has written to the databases beside the file
  clobbered, \* history: a creation has overwritten a file
  cut        \* history: a crash has cut a write off

stores == <<meta, raced>>
disk == <<file, stores>>
history == <<devs, gone, returned, wrote, clobbered, cut>>
vars == <<disk, pc, kdf, history>>

\* save, write: before and after save_identity truncates the file, wipes is the
\* device this erases and run whether a node starts then; load: the file is
\* read; open: load_identity has returned; derive: MessageStore.open has read
\* the salt, None if there is none; rows: it has made one; run: it has returned.
Stage ==
  [at : {"idle"}]
    \cup [at : {"save", "write"}, pass : Passphrase, doc : Doc, wipes : Device \cup {None},
          run : BOOLEAN]
    \cup [at : {"load"}, pass : Passphrase, doc : Doc, run : BOOLEAN]
    \cup [at : {"open", "rows", "run"}, pass : Passphrase, dev : Device]
    \cup [at : {"derive"}, pass : Passphrase, dev : Device, salt : Proc \cup {None}]

Idle == [at |-> "idle"]
Holder == [pass : Passphrase, dev : Device]

TypeOK ==
  /\ file \in Doc \cup {Absent, Torn}
  /\ meta \in [salt : Proc \cup {None}, check : KeyCheck \cup {None}]
  /\ raced \in BOOLEAN
  /\ pc \in [Proc -> Stage]
  /\ kdf \in Kdf
  /\ devs \in 0 .. MaxDev
  /\ gone \subseteq Device
  /\ returned \subseteq Holder /\ wrote \subseteq Holder
  /\ clobbered \in BOOLEAN /\ cut \in BOOLEAN

Init ==
  /\ file = Absent
  /\ meta = [salt |-> None, check |-> None] /\ raced = FALSE
  /\ pc = [p \in Proc |-> Idle]
  /\ kdf \in Kdf
  /\ devs = 0 /\ gone = {} /\ returned = {} /\ wrote = {}
  /\ clobbered = FALSE /\ cut = FALSE

----------------------------------------------------------------------------
(* Mutated forms of definitions below; no run of the project uses them.    *)

MutSaved(i, w, d) ==
  [dev |-> i, key |-> [pass |-> w, kdf |-> kdf], kdf |-> kdf,
   duress |-> [dev |-> [n |-> i.n, decoy |-> TRUE], key |-> [pass |-> d, kdf |-> kdf]]]
MutDeriveFrom(w, d) == [pass |-> w, kdf |-> kdf]
MutReal(w, d) ==
  LET k == [pass |-> w, kdf |-> d.kdf] IN d.key = k /\ (d.duress # None => d.duress.key # k)
MutDecoyDoc(w, d) == [d EXCEPT !.duress = None]
MutSentinelOK(p) == TRUE

----------------------------------------------------------------------------
(* save_identity                                                           *)

\* _derive_wrap_key, with the derivation at hand.
Derive(w) == [pass |-> w, kdf |-> kdf]

\* The document of a device, with a decoy under the passphrase d if one is given.
Saved(i, w, d) ==
  [dev |-> i, key |-> Derive(w), kdf |-> kdf,
   duress |-> IF d = None THEN None
              ELSE [dev |-> [n |-> i.n, decoy |-> TRUE], key |-> Derive(d)]]

\* write_text opens the file, which empties it; then the content goes in at its
\* start.  If another process has written meanwhile, a longer text of its own
\* stays visible behind this one.
Truncate(p) ==
  /\ pc[p].at = "save"
  /\ file' = Torn
  /\ pc' = [pc EXCEPT ![p].at = "write"]
  /\ gone' = gone \cup ({pc[p].wipes} \ {None})
  /\ clobbered' = (clobbered \/ (pc[p].wipes = None /\ file # Absent))
  /\ UNCHANGED <<stores, kdf, devs, returned, wrote, cut>>

\* The node starts with the device, or the process is done.
Proceed(p, i) ==
  pc' = [pc EXCEPT ![p] = IF @.run THEN [at |-> "open", pass |-> @.pass, dev |-> i] ELSE Idle]

Return(p, i) ==
  /\ returned' = returned \cup {[pass |-> pc[p].pass, dev |-> i]}
  /\ Proceed(p, i)

Write(p) ==
  /\ pc[p].at = "write"
  /\ file' \in IF file \in {Torn, pc[p].doc} THEN {pc[p].doc} ELSE {pc[p].doc, Torn}
  /\ Return(p, pc[p].doc.dev)
  /\ UNCHANGED <<stores, kdf, devs, gone, wrote, clobbered, cut>>

----------------------------------------------------------------------------
(* load_or_create_identity and load_identity                               *)

\* The path does not exist: a new identity, with a decoy if the caller gives
\* save_identity a duress passphrase (the command line does not).
Create(p, w, d) ==
  /\ pc[p] = Idle
  /\ file = Absent
  /\ devs < MaxDev
  /\ devs' = devs + 1
  /\ pc' = [pc EXCEPT ![p] = [at |-> "save", pass |-> w, wipes |-> None, run |-> FALSE,
                             doc |-> Saved([n |-> devs + 1, decoy |-> FALSE], w, d)]]
  /\ UNCHANGED <<disk, kdf, gone, returned, wrote, clobbered, cut>>

\* The file is read and is JSON, and its key derivation is installed; --create
\* on a path that exists loads as well, and starts no node.
Read(p, w, run) ==
  /\ pc[p] = Idle
  /\ file \in Doc
  /\ file.kdf = "argon2id" => kdf = "argon2id"
  /\ pc' = [pc EXCEPT ![p] = [at |-> "load", pass |-> w, doc |-> file, run |-> run]]
  /\ UNCHANGED <<disk, kdf, history>>

\* _derive_wrap_key_from_params, with the derivation the document names.
DeriveFrom(w, d) == [pass |-> w, kdf |-> d.kdf]

Real(w, d) == d.key = DeriveFrom(w, d)
Decoy(w, d) == ~Real(w, d) /\ d.duress # None /\ d.duress.key = DeriveFrom(w, d)

\* What the wipe leaves: the decoy alone, under its own passphrase.
DecoyDoc(w, d) == Saved(d.duress.dev, w, None)

Decrypt(p) ==
  LET w == pc[p].pass
      d == pc[p].doc
  IN
  /\ pc[p].at = "load"
  /\ \/ /\ Real(w, d)
        /\ Return(p, d.dev)
     \/ /\ Decoy(w, d)
        /\ pc' = [pc EXCEPT ![p] = [at |-> "save", pass |-> w, doc |-> DecoyDoc(w, d),
                                   wipes |-> d.dev, run |-> @.run]]
        /\ UNCHANGED returned
     \/ /\ ~Real(w, d) /\ ~Decoy(w, d)           \* InvalidTag
        /\ pc' = [pc EXCEPT ![p] = Idle]
        /\ UNCHANGED returned
  /\ UNCHANGED <<disk, kdf, devs, gone, wrote, clobbered, cut>>

----------------------------------------------------------------------------
(* The node                                                                *)

\* _run_node: MessageStore.open looks for the salt.  The queue is opened after
\* the store and has no such check; its key comes from the passphrase alone.
OpenStores(p) ==
  /\ pc[p].at = "open"
  /\ pc' = [pc EXCEPT ![p] = [at |-> "derive", pass |-> @.pass, dev |-> @.dev,
                             salt |-> meta.salt]]
  /\ UNCHANGED <<disk, kdf, history>>

\* There was none: the key is derived, and the rows of meta are written, which
\* are there for another process from the salt, the first of them, on.
FirstRow(p) ==
  /\ pc[p].at = "derive" /\ pc[p].salt = None
  /\ meta' = [meta EXCEPT !.salt = p]
  /\ raced' = (raced \/ meta.salt # None)
  /\ pc' = [pc EXCEPT ![p] = [at |-> "rows", pass |-> @.pass, dev |-> @.dev]]
  /\ UNCHANGED <<file, kdf, history>>

KeyCheckRow(p) ==
  /\ pc[p].at = "rows"
  /\ meta' = [meta EXCEPT !.check = [pass |-> pc[p].pass, salt |-> p]]
  /\ pc' = [pc EXCEPT ![p].at = "run"]
  /\ UNCHANGED <<file, raced, kdf, history>>

\* There was one: the key is derived from it and compared with the sentinel;
\* an exception ends the process.
SentinelOK(p) == meta.check = [pass |-> pc[p].pass, salt |-> pc[p].salt]

Verify(p) ==
  /\ pc[p].at = "derive" /\ pc[p].salt # None
  /\ pc' = [pc EXCEPT ![p] = IF SentinelOK(p)
                             THEN [at |-> "run", pass |-> @.pass, dev |-> @.dev] ELSE Idle]
  /\ UNCHANGED <<disk, kdf, history>>

\* The node saves and queues messages.
UseStores(p) ==
  /\ pc[p].at = "run"
  /\ wrote' = wrote \cup {[pass |-> pc[p].pass, dev |-> pc[p].dev]}
  /\ UNCHANGED <<disk, pc, kdf, devs, gone, returned, clobbered, cut>>

\* The process ends: the user quits, or it is killed at any point.
End(p) ==
  /\ pc[p] # Idle
  /\ pc' = [pc EXCEPT ![p] = Idle]
  /\ cut' = (cut \/ pc[p].at = "write")
  /\ UNCHANGED <<disk, kdf, devs, gone, returned, wrote, clobbered>>

\* argon2-cffi is installed or removed, while no file is read or written.
Install ==
  /\ \A p \in Proc : pc[p].at \in {"idle", "run"}
  /\ kdf' \in Kdf \ {kdf}
  /\ UNCHANGED <<disk, pc, history>>

Next ==
  \/ \E p \in Proc :
       \/ \E w \in Passphrase : \/ \E d \in Passphrase \cup {None} : Create(p, w, d)
                               \/ \E run \in BOOLEAN : Read(p, w, run)
       \/ Decrypt(p) \/ Truncate(p) \/ Write(p)
       \/ OpenStores(p) \/ FirstRow(p) \/ KeyCheckRow(p) \/ Verify(p)
       \/ UseStores(p) \/ End(p)
  \/ Install

Spec == Init /\ [][Next]_vars

----------------------------------------------------------------------------
(* Properties                                                              *)

\* A wipe is final: from the moment a duress load begins to overwrite the file
\* the keys of the device it erases are never in it again, whatever other
\* processes had read before, were writing, or do later.
WipeIsFinal == file \in Doc => file.dev \notin gone

\* What a passphrase was given once stays: the device is in the file and that
\* passphrase opens it, unless a wipe of it has begun, a write is under way or
\* was cut off by a crash, or a creation has overwritten the file of another.
NothingLost ==
  \/ clobbered \/ cut \/ \E p \in Proc : pc[p].at = "write"
  \/ \A h \in returned : \/ h.dev \in gone
                         \/ file \in Doc /\ file.dev = h.dev /\ Real(h.pass, file)

\* device_id is stable across reboots: one passphrase is always given the same
\* device, the decoy before and after its wipe included.
SameDevice == ~clobbered => \A g, h \in returned : g.pass = h.pass => g.dev = h.dev

\* The databases beside the file hold what one device wrote under one
\* passphrase, and only that device's node is running on them: the decoy never
\* sees the history of the device it replaces.  Two processes that have both
\* found no salt break this: open() does not look again after the derivation.
StoresOneDevice ==
  ~clobbered /\ ~raced =>
    \A p \in Proc : pc[p].at = "run" =>
      \A h \in wrote : h.pass = pc[p].pass /\ h.dev = pc[p].dev
=============================================================================
