------------------------- MODULE IdentityFileProofs -------------------------
(***************************************************************************)
(* Proofs about IdentityFile, for any number of processes, passphrases and *)
(* identities: after a wipe has begun nothing that any process has read,   *)
(* is writing or will write can bring the erased keys back into the file;  *)
(* and, unless a creation has overwritten a file, all that processes were  *)
(* given, hold and write descends from one document.                       *)
(***************************************************************************)
EXTENDS IdentityFile, TLAPS

USE DEF disk, stores, history

\* A document with a decoy belongs to a device, and the decoy was made with it.
GoodDoc(d) ==
  /\ d \in Doc
  /\ d.dev.n <= devs
  /\ d.duress # None => ~d.dev.decoy /\ d.duress.dev = [n |-> d.dev.n, decoy |-> TRUE]

Saving(p) == pc[p].at \in {"save", "write"}
HasDoc(p) == pc[p].at \in {"save", "write", "load"}
Creating(p) == Saving(p) /\ pc[p].wipes = None
Wiping(p) == Saving(p) /\ pc[p].wipes # None

Docs ==
  /\ file \in Doc => GoodDoc(file)
  /\ \A p \in Proc : HasDoc(p) => GoodDoc(pc[p].doc)

\* Only devices are erased, and a wipe writes a decoy that has none itself.
Wipes ==
  /\ \A g \in gone : g \in Device /\ ~g.decoy /\ g.n <= devs
  /\ \A p \in Proc : Wiping(p) =>
       /\ ~pc[p].wipes.decoy /\ pc[p].wipes.n <= devs
       /\ pc[p].doc.dev.decoy /\ pc[p].doc.duress = None

\* A device that is being created is not known anywhere else.
Fresh ==
  \A p \in Proc : Creating(p) =>
    LET n == pc[p].doc.dev.n IN
    /\ file \in Doc => file.dev.n # n
    /\ \A g \in gone : g.n # n
    /\ \A q \in Proc \ {p} : /\ HasDoc(q) => pc[q].doc.dev.n # n
                             /\ Wiping(q) => pc[q].wipes.n # n

WipeInv == TypeOK /\ Docs /\ Wipes /\ Fresh /\ WipeIsFinal

\* _run_node has been called.
AtNode == {"open", "derive", "rows", "run"}
USE DEF AtNode

-----------------------------------------------------------------------------

\* The stages a process can be put into.
LEMMA Stages ==
  /\ Idle \in Stage
  /\ \A w \in Passphrase, d \in Doc, x \in Device \cup {None}, r \in BOOLEAN :
       /\ [at |-> "save", pass |-> w, wipes |-> x, run |-> r, doc |-> d] \in Stage
       /\ [at |-> "write", pass |-> w, wipes |-> x, run |-> r, doc |-> d] \in Stage
       /\ [at |-> "load", pass |-> w, doc |-> d, run |-> r] \in Stage
  /\ \A w \in Passphrase, i \in Device :
       /\ [at |-> "open", pass |-> w, dev |-> i] \in Stage
       /\ [at |-> "rows", pass |-> w, dev |-> i] \in Stage
       /\ [at |-> "run", pass |-> w, dev |-> i] \in Stage
       /\ \A s \in Proc \cup {None} :
            [at |-> "derive", pass |-> w, dev |-> i, salt |-> s] \in Stage
  BY DEF Stage, Idle

\* What a process holds at each of them.
LEMMA Fields ==
  ASSUME NEW s \in Stage
  PROVE  /\ s.at \in {"idle", "save", "write", "load", "open", "derive", "rows", "run"}
         /\ s.at \in {"save", "write"} =>
              /\ s.pass \in Passphrase /\ s.doc \in Doc /\ s.run \in BOOLEAN
              /\ s.wipes \in Device \cup {None}
              /\ s = [at |-> s.at, pass |-> s.pass, wipes |-> s.wipes, run |-> s.run,
                      doc |-> s.doc]
         /\ s.at = "load" => s.pass \in Passphrase /\ s.doc \in Doc /\ s.run \in BOOLEAN
         /\ s.at \in AtNode => s.pass \in Passphrase /\ s.dev \in Device
         /\ s.at = "derive" => s.salt \in Proc \cup {None}
         /\ s.at \in {"open", "rows", "run"} =>
              s = [at |-> s.at, pass |-> s.pass, dev |-> s.dev]
  BY DEF Stage, AtNode

\* What save_identity writes is a document.
LEMMA SavedIsDoc ==
  ASSUME kdf \in Kdf, NEW i \in Device, NEW w \in Passphrase, NEW d \in Passphrase \cup {None}
  PROVE  /\ Saved(i, w, d) \in Doc
         /\ Saved(i, w, d).dev = i
         /\ Saved(i, w, d).duress # None =>
              d # None /\ Saved(i, w, d).duress.dev = [n |-> i.n, decoy |-> TRUE]
         /\ d = None => Saved(i, w, d).duress = None
  <1>1. Derive(w) \in WrapKey
    BY DEF Derive, WrapKey
  <1>2. [n |-> i.n, decoy |-> TRUE] \in Device
    BY DEF Device
  <1>3. d # None => [dev |-> [n |-> i.n, decoy |-> TRUE], key |-> Derive(d)] \in Wrapped
    BY <1>2 DEF Derive, WrapKey, Wrapped
  <1> QED BY <1>1, <1>3 DEF Saved, Doc

\* The document of a decoy has no decoy of its own.
LEMMA DecoyIsDoc ==
  ASSUME kdf \in Kdf, NEW i \in Device, NEW w \in Passphrase
  PROVE  Saved(i, w, None) \in Doc /\ Saved(i, w, None).dev = i /\ Saved(i, w, None).duress = None
  <1>1. Derive(w) \in WrapKey
    BY DEF Derive, WrapKey
  <1>2. Saved(i, w, None) = [dev |-> i, key |-> Derive(w), kdf |-> kdf, duress |-> None]
    BY DEF Saved
  <1> QED BY <1>1, <1>2 DEF Doc

LEMMA InitWipe == Init => WipeInv
  <1> SUFFICES ASSUME Init PROVE WipeInv
    OBVIOUS
  <1>1. \A p \in Proc : pc[p] = Idle /\ pc[p].at = "idle"
    BY DEF Init, Idle
  <1>2. TypeOK
    <2>1. 0 \in 0 .. MaxDev
      BY MaxDevAssumption
    <2>2. pc \in [Proc -> Stage]
      BY Stages DEF Init
    <2>3. meta \in [salt : Proc \cup {None}, check : KeyCheck \cup {None}]
      BY DEF Init
    <2> QED BY <2>1, <2>2, <2>3 DEF Init, TypeOK
  <1>3. Docs /\ Wipes /\ Fresh /\ WipeIsFinal
    BY <1>1, FileAssumption DEF Init, Docs, Wipes, Fresh, WipeIsFinal, HasDoc, Saving,
                                Creating, Wiping
  <1> QED BY <1>2, <1>3 DEF WipeInv

LEMMA CreateStep ==
  ASSUME WipeInv, NEW p \in Proc, NEW w \in Passphrase, NEW d \in Passphrase \cup {None},
         Create(p, w, d)
  PROVE  WipeInv'
  <1>0. /\ pc[p] = Idle /\ devs \in Nat /\ devs + 1 \in 1 .. MaxDev
        /\ kdf \in Kdf /\ [n |-> devs + 1, decoy |-> FALSE] \in Device
    BY MaxDevAssumption DEF Create, WipeInv, TypeOK, Device
  <1> PICK i : i = [n |-> devs + 1, decoy |-> FALSE]
    OBVIOUS
  <1>2. i \in Device /\ i.n = devs + 1 /\ ~i.decoy
    BY <1>0
  <1> PICK new : new = Saved(i, w, d)
    OBVIOUS
  <1>3. /\ new \in Doc /\ new.dev = i
        /\ new.duress # None => new.duress.dev = [n |-> devs + 1, decoy |-> TRUE]
    BY <1>0, <1>2, SavedIsDoc
  <1> PICK s : s = [at |-> "save", pass |-> w, wipes |-> None, run |-> FALSE, doc |-> new]
    OBVIOUS
  <1>4. s \in Stage /\ s.at = "save" /\ s.wipes = None /\ s.doc = new
    BY <1>3, Stages
  <1>1. /\ pc[p] = Idle /\ devs \in Nat /\ devs + 1 \in 1 .. MaxDev /\ devs' = devs + 1
        /\ pc' = [pc EXCEPT ![p] = s]
        /\ UNCHANGED <<disk, kdf, gone, returned, wrote, clobbered, cut>>
    BY <1>0 DEF Create
  <1>5. /\ pc'[p] = s
        /\ \A q \in Proc \ {p} : pc'[q] = pc[q]
    BY <1>1 DEF WipeInv, TypeOK
  <1>6. TypeOK'
    BY <1>1, <1>4 DEF WipeInv, TypeOK
  <1>7. \A e \in Doc : GoodDoc(e) => GoodDoc(e)' /\ e.dev.n # devs + 1
    BY <1>1 DEF GoodDoc, Doc, Device
  <1>8. GoodDoc(new)'
    <2>1. new.dev.n = devs + 1 /\ new.dev.n <= devs'
      BY <1>1, <1>2, <1>3
    <2>2. new.duress # None => ~new.dev.decoy /\ new.duress.dev = [n |-> new.dev.n, decoy |-> TRUE]
      BY <1>2, <1>3, <2>1
    <2> QED BY <1>3, <2>1, <2>2 DEF GoodDoc
  <1>9. \A q \in Proc : HasDoc(q) => pc[q].doc \in Doc
    BY DEF WipeInv, Docs, GoodDoc
  <1>10. Docs'
    BY <1>1, <1>4, <1>5, <1>7, <1>8, <1>9 DEF WipeInv, Docs, HasDoc
  <1>11. \A q \in Proc : Wiping(q) => pc[q].wipes \in Device
    BY Fields DEF WipeInv, TypeOK, Wiping, Saving
  <1>12. Wipes'
    BY <1>1, <1>4, <1>5, <1>11 DEF WipeInv, Wipes, Wiping, Saving, Device
  <1>13. /\ file \in Doc => file.dev.n # devs + 1
         /\ \A g \in gone : g.n # devs + 1
         /\ \A q \in Proc : /\ HasDoc(q) => pc[q].doc.dev.n # devs + 1
                            /\ Wiping(q) => pc[q].wipes.n # devs + 1
    BY <1>1, <1>7, <1>9, <1>11 DEF WipeInv, Docs, Wipes, Device
  <1>14. Fresh'
    <2> SUFFICES ASSUME NEW q \in Proc, Creating(q)'
                 PROVE  LET n == pc'[q].doc.dev.n IN
                        /\ file \in Doc => file.dev.n # n
                        /\ \A g \in gone : g.n # n
                        /\ \A r \in Proc \ {q} : /\ HasDoc(r)' => pc'[r].doc.dev.n # n
                                                 /\ Wiping(r)' => pc'[r].wipes.n # n
      BY <1>1 DEF Fresh
    <2>1. CASE q = p
      <3>1. pc'[q].doc.dev.n = devs + 1
        BY <2>1, <1>2, <1>3, <1>4, <1>5
      <3>2. \A r \in Proc \ {q} : /\ HasDoc(r)' => HasDoc(r) /\ pc'[r].doc = pc[r].doc
                                  /\ Wiping(r)' => Wiping(r) /\ pc'[r].wipes = pc[r].wipes
        BY <2>1, <1>5 DEF HasDoc, Wiping, Saving
      <3> QED BY <3>1, <3>2, <1>13
    <2>2. CASE q # p
      <3>1. Creating(q) /\ HasDoc(q)
        BY <2>2, <1>5 DEF Creating, Saving, HasDoc
      <3>2. pc'[q].doc.dev.n # devs + 1
        BY <2>2, <1>5, <1>13, <3>1
      <3>3. ~Wiping(p)' /\ pc'[p].doc.dev.n = devs + 1
        BY <1>2, <1>3, <1>4, <1>5 DEF Wiping
      <3> QED BY <2>2, <3>1, <3>2, <3>3, <1>5 DEF WipeInv, Fresh, HasDoc, Wiping, Saving
    <2> QED BY <2>1, <2>2
  <1>15. WipeIsFinal'
    BY <1>1 DEF WipeInv, WipeIsFinal
  <1> QED BY <1>6, <1>10, <1>12, <1>14, <1>15 DEF WipeInv
\* A process that goes on without a document disturbs nothing.
LEMMA Leaves ==
  ASSUME WipeInv, NEW p \in Proc, NEW s \in Stage, s.at \notin {"save", "write", "load"},
         pc' = [pc EXCEPT ![p] = s], UNCHANGED <<file, devs, gone>>
  PROVE  pc' \in [Proc -> Stage] /\ Docs' /\ Wipes' /\ Fresh' /\ WipeIsFinal'
  <1>1. pc' \in [Proc -> Stage] /\ pc'[p] = s /\ \A q \in Proc \ {p} : pc'[q] = pc[q]
    BY DEF WipeInv, TypeOK
  <1>2. \A q \in Proc : HasDoc(q)' => HasDoc(q) /\ pc'[q] = pc[q]
    BY <1>1 DEF HasDoc
  <1>3. \A q \in Proc : (Wiping(q)' => Wiping(q) /\ pc'[q] = pc[q])
                        /\ (Creating(q)' => Creating(q) /\ pc'[q] = pc[q])
    BY <1>1 DEF Wiping, Creating, Saving
  <1>4. \A e : GoodDoc(e)' = GoodDoc(e)
    BY DEF GoodDoc
  <1>5. Docs'
    BY <1>2, <1>4 DEF WipeInv, Docs
  <1>6. Wipes'
    BY <1>3 DEF WipeInv, Wipes
  <1>7. Fresh'
    BY <1>2, <1>3 DEF WipeInv, Fresh
  <1>8. WipeIsFinal'
    BY DEF WipeInv, WipeIsFinal
  <1> QED BY <1>1, <1>5, <1>6, <1>7, <1>8

LEMMA ReadStep ==
  ASSUME WipeInv, NEW p \in Proc, NEW w \in Passphrase, NEW run \in BOOLEAN, Read(p, w, run)
  PROVE  WipeInv'
  <1> PICK s : s = [at |-> "load", pass |-> w, doc |-> file, run |-> run]
    OBVIOUS
  <1>1. /\ pc[p] = Idle /\ file \in Doc /\ pc' = [pc EXCEPT ![p] = s]
        /\ UNCHANGED <<disk, kdf, history>>
    BY DEF Read
  <1>2. s \in Stage /\ s.at = "load" /\ s.doc = file
    BY <1>1, Stages
  <1>3. pc' \in [Proc -> Stage] /\ pc'[p] = s /\ \A q \in Proc \ {p} : pc'[q] = pc[q]
    BY <1>1, <1>2 DEF WipeInv, TypeOK
  <1>4. TypeOK'
    BY <1>1, <1>3 DEF WipeInv, TypeOK
  <1>5. \A q \in Proc : (Wiping(q)' => Wiping(q) /\ pc'[q] = pc[q])
                        /\ (Creating(q)' => q # p /\ Creating(q) /\ pc'[q] = pc[q])
    BY <1>2, <1>3 DEF Wiping, Creating, Saving
  <1>6. \A q \in Proc : HasDoc(q)' => \/ HasDoc(q) /\ pc'[q] = pc[q]
                                      \/ q = p /\ pc'[q].doc = file
    BY <1>2, <1>3 DEF HasDoc
  <1>7. \A e : GoodDoc(e)' = GoodDoc(e)
    BY <1>1 DEF GoodDoc
  <1>8. Docs'
    BY <1>1, <1>6, <1>7 DEF WipeInv, Docs
  <1>9. Wipes'
    BY <1>1, <1>5 DEF WipeInv, Wipes
  <1>10. Fresh'
    BY <1>1, <1>5, <1>6 DEF WipeInv, Fresh
  <1>11. WipeIsFinal'
    BY <1>1 DEF WipeInv, WipeIsFinal
  <1> QED BY <1>4, <1>8, <1>9, <1>10, <1>11 DEF WipeInv

\* What Proceed puts a process into.
LEMMA ProceedStage ==
  ASSUME WipeInv, NEW p \in Proc, HasDoc(p), NEW i \in Device, Proceed(p, i)
  PROVE  \E s \in Stage : /\ s.at \notin {"save", "write", "load"}
                          /\ pc' = [pc EXCEPT ![p] = s]
  <1>1. pc[p] \in Stage /\ pc[p].pass \in Passphrase
    BY Fields DEF WipeInv, TypeOK, HasDoc
  <1> PICK s : s = IF pc[p].run THEN [at |-> "open", pass |-> pc[p].pass, dev |-> i] ELSE Idle
    OBVIOUS
  <1>2. s \in Stage /\ s.at \notin {"save", "write", "load"}
    BY <1>1, Stages DEF Idle
  <1>3. pc' = [pc EXCEPT ![p] = s]
    BY DEF Proceed, WipeInv, TypeOK
  <1> QED BY <1>2, <1>3

LEMMA DecryptStep ==
  ASSUME WipeInv, NEW p \in Proc, Decrypt(p)
  PROVE  WipeInv'
  <1> DEFINE w == pc[p].pass
             d == pc[p].doc
  <1>1. /\ pc[p].at = "load" /\ pc[p] \in Stage /\ HasDoc(p) /\ w \in Passphrase /\ d \in Doc
        /\ pc[p].run \in BOOLEAN /\ d.dev \in Device /\ d.duress \in Wrapped \cup {None}
        /\ GoodDoc(d)
    BY Fields DEF Decrypt, WipeInv, TypeOK, HasDoc, Docs, Doc
  <1>2. UNCHANGED <<disk, kdf, devs, gone, wrote, clobbered, cut>>
    BY DEF Decrypt
  <1>3. CASE Return(p, d.dev)
    <2>1. PICK s \in Stage : s.at \notin {"save", "write", "load"} /\ pc' = [pc EXCEPT ![p] = s]
      BY <1>1, <1>3, ProceedStage DEF Return
    <2>2. returned' \subseteq Holder
      BY <1>1, <1>3 DEF Return, Holder, WipeInv, TypeOK
    <2> QED BY <1>2, <2>1, <2>2, Leaves DEF WipeInv, TypeOK
  <1>4. CASE pc' = [pc EXCEPT ![p] = Idle] /\ UNCHANGED returned
    <2>1. Idle \in Stage /\ Idle.at = "idle"
      BY Stages DEF Idle
    <2> QED BY <1>2, <1>4, <2>1, Leaves DEF WipeInv, TypeOK
  <1>5. ASSUME Decoy(w, d), UNCHANGED returned,
               pc' = [pc EXCEPT ![p] = [at |-> "save", pass |-> w, doc |-> DecoyDoc(w, d),
                                        wipes |-> d.dev, run |-> @.run]]
        PROVE  WipeInv'
    <2>1. d.duress # None /\ d.duress.dev \in Device
      BY <1>1, <1>5 DEF Decoy, Wrapped
    <2>2. ~d.dev.decoy /\ d.duress.dev = [n |-> d.dev.n, decoy |-> TRUE]
      BY <1>1, <2>1 DEF GoodDoc
    <2> PICK new : new = DecoyDoc(w, d)
      OBVIOUS
    <2>3. new \in Doc /\ new.dev = d.duress.dev /\ new.duress = None
      <3>1. kdf \in Kdf /\ None \in Passphrase \cup {None} /\ new = Saved(d.duress.dev, w, None)
        BY DEF DecoyDoc, WipeInv, TypeOK
      <3> HIDE DEF w, d
      <3>2. /\ Saved(d.duress.dev, w, None) \in Doc
            /\ Saved(d.duress.dev, w, None).dev = d.duress.dev
            /\ Saved(d.duress.dev, w, None).duress = None
        <4>1. PICK j \in Device : j = d.duress.dev
          BY <2>1
        <4>2. /\ Saved(j, w, None) \in Doc /\ Saved(j, w, None).dev = j
              /\ Saved(j, w, None).duress = None
          BY <1>1, <3>1, DecoyIsDoc
        <4> QED BY <4>1, <4>2
      <3> QED BY <3>1, <3>2
    <2> PICK x \in Device : x = d.dev
      BY <1>1
    <2> PICK s : s = [at |-> "save", pass |-> w, wipes |-> x, run |-> pc[p].run, doc |-> new]
      OBVIOUS
    <2>4. /\ s \in Stage /\ s.at = "save" /\ s.wipes = x /\ s.doc = new /\ x # None
      BY <1>1, <2>3, Stages, FileAssumption
    <2>5. pc' = [pc EXCEPT ![p] = s]
      BY <1>5 DEF WipeInv, TypeOK
    <2>6. pc' \in [Proc -> Stage] /\ pc'[p] = s /\ \A q \in Proc \ {p} : pc'[q] = pc[q]
      BY <2>4, <2>5 DEF WipeInv, TypeOK
    <2>7. TypeOK'
      BY <1>2, <1>5, <2>6 DEF WipeInv, TypeOK
    <2>8. new.dev.n = d.dev.n /\ new.dev.decoy /\ x.n = d.dev.n
      BY <2>2, <2>3
    <2>9. \A e : GoodDoc(e)' = GoodDoc(e)
      BY <1>2 DEF GoodDoc
    <2>10. GoodDoc(new) /\ x.n <= devs /\ ~x.decoy
      BY <1>1, <2>2, <2>3, <2>8 DEF GoodDoc
    <2>11. Docs'
      BY <1>2, <2>4, <2>6, <2>9, <2>10 DEF WipeInv, Docs, HasDoc
    <2>12. Wipes'
      BY <1>2, <2>3, <2>4, <2>6, <2>8, <2>10 DEF WipeInv, Wipes, Wiping, Saving
    <2>13. \A q \in Proc : Creating(q)' => q # p /\ Creating(q) /\ pc'[q] = pc[q]
      BY <2>4, <2>6 DEF Creating, Saving
    <2>14. Fresh'
      <3> SUFFICES ASSUME NEW q \in Proc, Creating(q)'
                   PROVE  LET n == pc'[q].doc.dev.n IN
                          /\ file \in Doc => file.dev.n # n
                          /\ \A g \in gone : g.n # n
                          /\ \A r \in Proc \ {q} : /\ HasDoc(r)' => pc'[r].doc.dev.n # n
                                                   /\ Wiping(r)' => pc'[r].wipes.n # n
        BY <1>2 DEF Fresh
      <3>1. q # p /\ Creating(q) /\ pc'[q] = pc[q]
        BY <2>13
      <3>2. d.dev.n # pc[q].doc.dev.n
        BY <1>1, <3>1 DEF WipeInv, Fresh
      <3>3. pc'[p].doc.dev.n = d.dev.n /\ pc'[p].wipes.n = d.dev.n
        BY <2>4, <2>6, <2>8
      <3> QED BY <2>6, <3>1, <3>2, <3>3 DEF WipeInv, Fresh, HasDoc, Wiping, Saving
    <2>15. WipeIsFinal'
      BY <1>2 DEF WipeInv, WipeIsFinal
    <2> QED BY <2>7, <2>11, <2>12, <2>14, <2>15 DEF WipeInv
  <1> QED BY <1>3, <1>4, <1>5 DEF Decrypt
LEMMA TruncateStep ==
  ASSUME WipeInv, NEW p \in Proc, Truncate(p)
  PROVE  WipeInv'
  <1>1. /\ pc[p].at = "save" /\ pc[p] \in Stage /\ HasDoc(p) /\ Saving(p)
        /\ pc[p].pass \in Passphrase /\ pc[p].doc \in Doc /\ pc[p].run \in BOOLEAN
        /\ pc[p].wipes \in Device \cup {None}
        /\ pc[p] = [at |-> "save", pass |-> pc[p].pass, wipes |-> pc[p].wipes,
                    run |-> pc[p].run, doc |-> pc[p].doc]
    BY Fields DEF Truncate, WipeInv, TypeOK, HasDoc, Saving
  <1> PICK s : s = [at |-> "write", pass |-> pc[p].pass, wipes |-> pc[p].wipes,
                    run |-> pc[p].run, doc |-> pc[p].doc]
    OBVIOUS
  <1>2. s \in Stage /\ s.at = "write" /\ s.doc = pc[p].doc /\ s.wipes = pc[p].wipes
    BY <1>1, Stages
  <1>3. s = [pc[p] EXCEPT !.at = "write"]
    BY <1>1
  <1>4. /\ file' = Torn /\ pc' = [pc EXCEPT ![p] = s]
        /\ gone' = gone \cup ({pc[p].wipes} \ {None})
        /\ clobbered' \in BOOLEAN
        /\ UNCHANGED <<stores, kdf, devs, returned, wrote, cut>>
    BY <1>3 DEF Truncate, WipeInv, TypeOK
  <1>5. pc' \in [Proc -> Stage] /\ pc'[p] = s /\ \A q \in Proc \ {p} : pc'[q] = pc[q]
    BY <1>2, <1>4 DEF WipeInv, TypeOK
  <1>6. TypeOK'
    BY <1>1, <1>4, <1>5 DEF WipeInv, TypeOK
  <1>7. \A q \in Proc : /\ HasDoc(q)' = HasDoc(q) /\ Creating(q)' = Creating(q)
                        /\ Wiping(q)' = Wiping(q)
                        /\ HasDoc(q) => pc'[q].doc = pc[q].doc
                        /\ Wiping(q) => pc'[q].wipes = pc[q].wipes
    BY <1>1, <1>2, <1>5 DEF HasDoc, Creating, Wiping, Saving
  <1>8. \A e : GoodDoc(e)' = GoodDoc(e)
    BY <1>4 DEF GoodDoc
  <1>9. Docs'
    BY <1>4, <1>7, <1>8, FileAssumption DEF WipeInv, Docs
  <1>10. \A q \in Proc : Creating(q) \/ Wiping(q) => HasDoc(q)
    BY DEF Creating, Wiping, HasDoc, Saving
  <1>11. Wipes'
    <2>1. \A g \in gone' : g \in gone \/ (g = pc[p].wipes /\ Wiping(p) /\ g \in Device)
      <3>1. \A g \in gone' : g \in gone \/ (g = pc[p].wipes /\ g # None)
        BY <1>4
      <3>2. pc[p].wipes # None => Wiping(p) /\ pc[p].wipes \in Device
        BY <1>1 DEF Wiping
      <3> QED BY <3>1, <3>2
    <2>2. ASSUME NEW g \in gone' PROVE g \in Device /\ ~g.decoy /\ g.n <= devs
      <3>1. CASE g \in gone
        BY <3>1 DEF WipeInv, Wipes
      <3>2. CASE g = pc[p].wipes /\ Wiping(p) /\ g \in Device
        BY <3>2 DEF WipeInv, Wipes
      <3> QED BY <2>1, <3>1, <3>2
    <2>3. \A q \in Proc : Wiping(q)' =>
            Wiping(q) /\ pc'[q].doc = pc[q].doc /\ pc'[q].wipes = pc[q].wipes
      BY <1>7, <1>10
    <2>4. \A q \in Proc : Wiping(q)' =>
            /\ ~pc'[q].wipes.decoy /\ pc'[q].wipes.n <= devs
            /\ pc'[q].doc.dev.decoy /\ pc'[q].doc.duress = None
      BY <2>3 DEF WipeInv, Wipes
    <2> QED BY <1>4, <2>2, <2>4 DEF Wipes
  <1>12. Fresh'
    <2> SUFFICES ASSUME NEW q \in Proc, Creating(q)'
                 PROVE  LET n == pc'[q].doc.dev.n IN
                        /\ \A g \in gone' : g.n # n
                        /\ \A r \in Proc \ {q} : /\ HasDoc(r)' => pc'[r].doc.dev.n # n
                                                 /\ Wiping(r)' => pc'[r].wipes.n # n
      BY <1>4, FileAssumption DEF Fresh
    <2>1. Creating(q) /\ pc'[q].doc = pc[q].doc
      BY <1>7, <1>10
    <2>2. \A g \in gone' : g \in gone \/ (g = pc[p].wipes /\ Wiping(p) /\ p # q)
      BY <1>1, <1>4, <2>1 DEF Wiping, Creating
    <2>3. \A g \in gone' : g.n # pc[q].doc.dev.n
      BY <2>1, <2>2 DEF WipeInv, Fresh
    <2>4. \A r \in Proc \ {q} : /\ HasDoc(r)' => pc'[r].doc.dev.n # pc[q].doc.dev.n
                                /\ Wiping(r)' => pc'[r].wipes.n # pc[q].doc.dev.n
      BY <1>7, <2>1 DEF WipeInv, Fresh
    <2> QED BY <2>1, <2>3, <2>4
  <1>13. WipeIsFinal'
    BY <1>4, FileAssumption DEF WipeIsFinal
  <1> QED BY <1>6, <1>9, <1>11, <1>12, <1>13 DEF WipeInv

\* What goes into the file was decided before the truncation: a decoy, or a
\* device nobody knew.
LEMMA WriteStep ==
  ASSUME WipeInv, NEW p \in Proc, Write(p)
  PROVE  WipeInv'
  <1>1. /\ pc[p].at = "write" /\ pc[p] \in Stage /\ HasDoc(p) /\ Saving(p)
        /\ pc[p].pass \in Passphrase /\ pc[p].doc \in Doc /\ pc[p].doc.dev \in Device
        /\ GoodDoc(pc[p].doc)
    BY Fields DEF Write, WipeInv, TypeOK, HasDoc, Saving, Docs, Doc
  <1>2. /\ file' \in {pc[p].doc, Torn} /\ Return(p, pc[p].doc.dev)
        /\ UNCHANGED <<stores, kdf, devs, gone, wrote, clobbered, cut>>
    BY DEF Write
  <1>3. PICK s \in Stage : s.at \notin {"save", "write", "load"} /\ pc' = [pc EXCEPT ![p] = s]
    BY <1>1, <1>2, ProceedStage DEF Return
  <1>4. pc' \in [Proc -> Stage] /\ pc'[p] = s /\ \A q \in Proc \ {p} : pc'[q] = pc[q]
    BY <1>3 DEF WipeInv, TypeOK
  <1>5. returned' \subseteq Holder
    BY <1>1, <1>2 DEF Return, Holder, WipeInv, TypeOK
  <1>6. TypeOK'
    BY <1>1, <1>2, <1>4, <1>5 DEF WipeInv, TypeOK
  <1>7. \A q \in Proc : /\ HasDoc(q)' => HasDoc(q) /\ pc'[q] = pc[q] /\ q # p
                        /\ Wiping(q)' => Wiping(q) /\ pc'[q] = pc[q]
                        /\ Creating(q)' => Creating(q) /\ pc'[q] = pc[q] /\ q # p
    BY <1>3, <1>4 DEF HasDoc, Wiping, Creating, Saving
  <1>8. \A e : GoodDoc(e)' = GoodDoc(e)
    BY <1>2 DEF GoodDoc
  <1>9. Docs'
    BY <1>1, <1>2, <1>7, <1>8, FileAssumption DEF WipeInv, Docs
  <1>10. Wipes'
    BY <1>2, <1>7 DEF WipeInv, Wipes
  <1>11. Fresh'
    <2> SUFFICES ASSUME NEW q \in Proc, Creating(q)'
                 PROVE  LET n == pc'[q].doc.dev.n IN
                        /\ file' \in Doc => file'.dev.n # n
                        /\ \A g \in gone : g.n # n
                        /\ \A r \in Proc \ {q} : /\ HasDoc(r)' => pc'[r].doc.dev.n # n
                                                 /\ Wiping(r)' => pc'[r].wipes.n # n
      BY <1>2 DEF Fresh
    <2>1. Creating(q) /\ pc'[q] = pc[q] /\ q # p
      BY <1>7
    <2>2. file' \in Doc => file'.dev.n # pc[q].doc.dev.n
      BY <1>1, <1>2, <2>1, FileAssumption DEF WipeInv, Fresh
    <2> QED BY <1>7, <2>1, <2>2 DEF WipeInv, Fresh
  <1>12. WipeIsFinal'
    <2>1. CASE Creating(p)
      BY <1>1, <1>2, <2>1, FileAssumption DEF WipeInv, Fresh, WipeIsFinal
    <2>2. CASE Wiping(p)
      BY <1>1, <1>2, <2>2, FileAssumption DEF WipeInv, Wipes, WipeIsFinal
    <2> QED BY <1>1, <2>1, <2>2 DEF Creating, Wiping
  <1> QED BY <1>6, <1>9, <1>10, <1>11, <1>12 DEF WipeInv

\* The steps of _run_node up to the message store.
Opening(p) == OpenStores(p) \/ FirstRow(p) \/ KeyCheckRow(p) \/ Verify(p)

\* What they do to the process and to the store.
LEMMA OpeningStep ==
  ASSUME WipeInv, NEW p \in Proc, Opening(p)
  PROVE  /\ pc[p].at \in {"open", "derive", "rows"}
         /\ \E s \in Stage :
              /\ s.at \in {"idle", "derive", "rows", "run"}
              /\ s.at # "idle" => s.pass = pc[p].pass /\ s.dev = pc[p].dev
              /\ pc' = [pc EXCEPT ![p] = s]
         /\ meta' \in [salt : Proc \cup {None}, check : KeyCheck \cup {None}]
         /\ raced' \in BOOLEAN
         /\ UNCHANGED <<file, kdf, history>>
  <1>1. /\ pc[p] \in Stage /\ pc \in [Proc -> Stage]
        /\ meta \in [salt : Proc \cup {None}, check : KeyCheck \cup {None}]
        /\ raced \in BOOLEAN
    BY DEF WipeInv, TypeOK
  <1>2. pc[p].at \in {"open", "derive", "rows"}
    BY DEF Opening, OpenStores, FirstRow, KeyCheckRow, Verify
  <1>3. pc[p].pass \in Passphrase /\ pc[p].dev \in Device
    BY <1>1, <1>2, Fields DEF AtNode
  <1> PICK derive : derive = [at |-> "derive", pass |-> pc[p].pass, dev |-> pc[p].dev,
                              salt |-> meta.salt]
    OBVIOUS
  <1> PICK rows : rows = [at |-> "rows", pass |-> pc[p].pass, dev |-> pc[p].dev]
    OBVIOUS
  <1> PICK run : run = [at |-> "run", pass |-> pc[p].pass, dev |-> pc[p].dev]
    OBVIOUS
  <1>4. /\ derive \in Stage /\ rows \in Stage /\ run \in Stage /\ Idle \in Stage
        /\ Idle.at = "idle"
    BY <1>1, <1>3, Stages DEF Idle
  <1>5. CASE OpenStores(p)
    <2>1. pc' = [pc EXCEPT ![p] = derive] /\ UNCHANGED <<disk, kdf, history>>
      BY <1>1, <1>5 DEF OpenStores
    <2> QED BY <1>1, <1>2, <1>4, <2>1
  <1>6. CASE FirstRow(p)
    <2>1. /\ pc' = [pc EXCEPT ![p] = rows] /\ meta' = [meta EXCEPT !.salt = p]
          /\ raced' = (raced \/ meta.salt # None) /\ UNCHANGED <<file, kdf, history>>
      BY <1>1, <1>6 DEF FirstRow
    <2> QED BY <1>1, <1>2, <1>4, <2>1
  <1>7. CASE KeyCheckRow(p)
    <2>1. /\ pc[p] = [at |-> "rows", pass |-> pc[p].pass, dev |-> pc[p].dev]
          /\ [pc[p] EXCEPT !.at = "run"] = run
      <3>1. pc[p] = [at |-> "rows", pass |-> pc[p].pass, dev |-> pc[p].dev]
        BY <1>1, <1>7, Fields DEF KeyCheckRow
      <3> QED BY <3>1
    <2>2. pc' = [pc EXCEPT ![p] = run] /\ UNCHANGED <<file, raced, kdf, history>>
      BY <1>1, <1>7, <2>1 DEF KeyCheckRow
    <2>3. [pass |-> pc[p].pass, salt |-> p] \in KeyCheck
      BY <1>3 DEF KeyCheck
    <2>4. meta' \in [salt : Proc \cup {None}, check : KeyCheck \cup {None}]
      BY <1>1, <1>7, <2>3 DEF KeyCheckRow
    <2> QED BY <1>1, <1>2, <1>4, <2>2, <2>4
  <1>8. CASE Verify(p)
    <2>1. PICK s \in {run, Idle} : pc' = [pc EXCEPT ![p] = s]
      BY <1>1, <1>8 DEF Verify
    <2>2. UNCHANGED <<disk, kdf, history>>
      BY <1>8 DEF Verify
    <2> QED BY <1>1, <1>2, <1>4, <2>1, <2>2
  <1> QED BY <1>5, <1>6, <1>7, <1>8 DEF Opening

LEMMA NodeSteps ==
  ASSUME WipeInv,
         \/ \E p \in Proc : Opening(p) \/ UseStores(p) \/ End(p)
         \/ Install
         \/ UNCHANGED vars
  PROVE  WipeInv'
  <1> USE DEF WipeInv, TypeOK
  <1>1. Idle \in Stage /\ Idle.at = "idle"
    BY Stages DEF Idle
  <1>2. ASSUME NEW p \in Proc, Opening(p) PROVE WipeInv'
    <2>1. /\ \E s \in Stage : /\ s.at \notin {"save", "write", "load"}
                            /\ pc' = [pc EXCEPT ![p] = s]
          /\ meta' \in [salt : Proc \cup {None}, check : KeyCheck \cup {None}]
          /\ raced' \in BOOLEAN
          /\ UNCHANGED <<file, kdf, history>>
      BY <1>2, OpeningStep
    <2> QED BY <2>1, Leaves
  <1>3. ASSUME NEW p \in Proc, UseStores(p) PROVE WipeInv'
    <2>1. pc[p].at = "run" /\ [pass |-> pc[p].pass, dev |-> pc[p].dev] \in Holder
      BY <1>3, Fields DEF UseStores, Holder
    <2>2. pc' = [pc EXCEPT ![p] = pc[p]] /\ pc[p] \in Stage
      BY <1>3 DEF UseStores
    <2>3. wrote' \subseteq Holder /\ UNCHANGED <<disk, kdf, devs, gone, returned, clobbered, cut>>
      BY <1>3, <2>1 DEF UseStores
    <2> QED BY <2>1, <2>2, <2>3, Leaves
  <1>4. ASSUME NEW p \in Proc, End(p) PROVE WipeInv'
    <2>1. pc' = [pc EXCEPT ![p] = Idle] /\ cut' \in BOOLEAN
      BY <1>4 DEF End
    <2> QED BY <1>1, <1>4, <2>1, Leaves DEF End
  <1>5. CASE Install
    BY <1>5 DEF Install, Docs, Wipes, Fresh, WipeIsFinal, GoodDoc, HasDoc, Wiping, Creating,
                Saving
  <1>6. CASE UNCHANGED vars
    BY <1>6 DEF vars, Docs, Wipes, Fresh, WipeIsFinal, GoodDoc, HasDoc, Wiping, Creating,
                Saving
  <1> QED BY <1>2, <1>3, <1>4, <1>5, <1>6

\* The inductive invariant of the file and the processes that use it.
THEOREM Invariance == Spec => []WipeInv
  <1>1. WipeInv /\ [Next]_vars => WipeInv'
    BY CreateStep, ReadStep, DecryptStep, TruncateStep, WriteStep, NodeSteps DEF Next, Opening
  <1> QED BY <1>1, InitWipe, PTL DEF Spec

\* Once a duress load has begun to overwrite the file, the keys it erases are
\* never in it again, for any number of processes, passphrases and identities.
THEOREM WipeIsFinalThm == Spec => []WipeIsFinal
  <1>1. WipeInv => WipeIsFinal
    BY DEF WipeInv
  <1> QED BY <1>1, Invariance, PTL

\* The file, the stages of the processes and their documents keep their shape.
THEOREM TypeOKThm == Spec => []TypeOK
  <1>1. WipeInv => TypeOK
    BY DEF WipeInv
  <1> QED BY <1>1, Invariance, PTL

-----------------------------------------------------------------------------
(* The line of a file: as long as no creation overwrites another file, all *)
(* that processes read, hold and write comes from one document.            *)

\* All of a document is wrapped with the derivation it names.
Made(d) == d.key.kdf = d.kdf /\ (d.duress # None => d.duress.key.kdf = d.kdf)

\* The document o has a decoy that its own passphrase does not hide.
Duress(o) == o.duress # None /\ o.duress.key.pass # o.key.pass

\* What a wipe makes of o with the derivation k at hand.
HeirOf(o, k) == [dev |-> o.duress.dev, key |-> [pass |-> o.duress.key.pass, kdf |-> k],
                 kdf |-> k, duress |-> None]

\* d is o, or what a wipe that has begun leaves of it.
Erased(o) == o.dev \in gone
Descends(d, o) == d = o \/ (Duress(o) /\ Erased(o) /\ \E k \in Kdf : d = HeirOf(o, k))

\* The passphrase w of o is for the device i.
Entitled(o, w, i) ==
  \/ w = o.key.pass /\ i = o.dev
  \/ Duress(o) /\ w = o.duress.key.pass /\ i = o.duress.dev

\* A process that has left no trace yet.
Unborn(p) == pc[p].at = "idle" \/ (pc[p].at = "save" /\ Creating(p))

LoadOf(o, p) == pc[p].at = "load" => Descends(pc[p].doc, o)
WipeOf(o, p) ==
  Wiping(p) => /\ Duress(o) /\ pc[p].doc = HeirOf(o, kdf) /\ pc[p].wipes = o.dev
               /\ pc[p].pass = o.duress.key.pass
               /\ pc[p].at = "write" => Erased(o) /\ file \in {Torn, pc[p].doc}
CreateOf(o, p) ==
  Creating(p) /\ pc[p].at = "write" =>
    /\ pc[p].doc = o /\ pc[p].pass = o.key.pass
    /\ file = Torn /\ \A q \in Proc \ {p} : Unborn(q)
UserOf(o, p) == pc[p].at \in AtNode => Entitled(o, pc[p].pass, pc[p].dev)

\* The file, and what passphrases were given and have written.
FileOf(o) == file = Torn \/ Descends(file, o)
GivenOf(o) == \A h \in returned : Entitled(o, h.pass, h.dev) /\ (h.dev # o.dev => Erased(o))
WroteOf(o) == \A h \in wrote : Entitled(o, h.pass, h.dev)
TornOf == file = Torn => cut \/ \E p \in Proc : pc[p].at = "write"

Lineage(o) ==
  /\ GoodDoc(o) /\ Made(o) /\ FileOf(o) /\ GivenOf(o) /\ WroteOf(o) /\ TornOf
  /\ \A p \in Proc : LoadOf(o, p) /\ WipeOf(o, p) /\ CreateOf(o, p) /\ UserOf(o, p)

\* Before the first creation writes.
Blank == file = Absent /\ returned = {} /\ wrote = {} /\ \A p \in Proc : Unborn(p)

\* A creation holds what save_identity made for its own passphrase.
NewOf(p) == Creating(p) => pc[p].doc.key.pass = pc[p].pass /\ Made(pc[p].doc)
\* Unless two processes have made it at once, the message store is that of the
\* passphrase that uses it, and nobody does while it is being made.
OwnerOf(p) ==
  /\ pc[p].at = "derive" => pc[p].salt \in {None, meta.salt}
  /\ pc[p].at = "rows" => meta.salt = p /\ meta.check = None
  /\ pc[p].at = "run" =>
       meta.salt # None /\ meta.check = [pass |-> pc[p].pass, salt |-> meta.salt]
Owners ==
  \/ raced
  \/ /\ meta.salt = None => meta.check = None
     /\ \A p \in Proc : OwnerOf(p)
     /\ \A h \in wrote : meta.check # None /\ h.pass = meta.check.pass

LineInv == /\ WipeInv
           /\ \A p \in Proc : NewOf(p)
           /\ Owners
           /\ clobbered \/ Blank \/ \E o \in Doc : Lineage(o)

\* Which records are documents, and what is in one.
LEMMA DocFields ==
  ASSUME NEW d \in Doc
  PROVE  /\ d.dev \in Device /\ d.kdf \in Kdf /\ d.key.pass \in Passphrase
         /\ d.key = [pass |-> d.key.pass, kdf |-> d.key.kdf]
         /\ d.duress # None =>
              /\ d.duress.dev \in Device /\ d.duress.key.pass \in Passphrase
              /\ d.duress.key = [pass |-> d.duress.key.pass, kdf |-> d.duress.key.kdf]
  BY DEF Doc, Wrapped, WrapKey

\* Those of the document a wipe writes for it.
LEMMA HeirFields ==
  ASSUME NEW o \in Doc, Duress(o), NEW k \in Kdf
  PROVE  /\ HeirOf(o, k) \in Doc
         /\ HeirOf(o, k).dev = o.duress.dev /\ HeirOf(o, k).duress = None
         /\ HeirOf(o, k).kdf = k
         /\ HeirOf(o, k).key = [pass |-> o.duress.key.pass, kdf |-> k]
         /\ HeirOf(o, k).key.pass = o.duress.key.pass
  <1>1. o.duress.dev \in Device /\ o.duress.key.pass \in Passphrase
    BY DocFields DEF Duress
  <1>2. [pass |-> o.duress.key.pass, kdf |-> k] \in WrapKey
    BY <1>1 DEF WrapKey
  <1> QED BY <1>1, <1>2 DEF HeirOf, Doc

\* Whoever opens a document of the line is entitled by its first one.
LEMMA DescentEntitles ==
  ASSUME NEW o \in Doc, NEW d, Descends(d, o), NEW w, Real(w, d)
  PROVE  d \in Doc /\ Entitled(o, w, d.dev) /\ (d.dev # o.dev => Erased(o))
  <1>1. CASE d = o
    BY <1>1 DEF Real, DeriveFrom, Entitled
  <1>2. CASE d # o
    <2>1. PICK k \in Kdf : d = HeirOf(o, k) /\ Duress(o) /\ Erased(o)
      BY <1>2 DEF Descends
    <2>2. d \in Doc /\ d.dev = o.duress.dev /\ d.key.pass = o.duress.key.pass
      BY <2>1, HeirFields
    <2>3. w = d.key.pass
      BY DEF Real, DeriveFrom
    <2> QED BY <2>1, <2>2, <2>3 DEF Entitled
  <1> QED BY <1>1, <1>2

\* Nothing changes for the store while nobody gets to it.
LEMMA OwnersStay ==
  ASSUME Owners, NEW p \in Proc, pc'[p].at \notin {"derive", "rows", "run"},
         \A q \in Proc \ {p} : pc'[q] = pc[q], UNCHANGED <<stores, wrote>>
  PROVE  Owners'
  <1>1. \A q \in Proc : OwnerOf(q) => OwnerOf(q)'
    BY DEF OwnerOf
  <1> QED BY <1>1 DEF Owners

\* What the line asks of a process that does not move.
LEMMA OthersStay ==
  ASSUME NEW o, NEW q \in Proc, pc'[q] = pc[q], gone \subseteq gone', kdf' = kdf
  PROVE  /\ Creating(q)' = Creating(q) /\ Wiping(q)' = Wiping(q) /\ Unborn(q)' = Unborn(q)
         /\ LoadOf(o, q) => LoadOf(o, q)'
         /\ UserOf(o, q) => UserOf(o, q)'
         /\ WipeOf(o, q) /\ file' \in {file, Torn, HeirOf(o, kdf)} => WipeOf(o, q)'
         /\ NewOf(q) => NewOf(q)'
  <1>1. Creating(q)' = Creating(q) /\ Wiping(q)' = Wiping(q) /\ Unborn(q)' = Unborn(q)
    BY DEF Creating, Wiping, Saving, Unborn
  <1>2. Erased(o) => Erased(o)'
    BY DEF Erased
  <1>3. \A d : Descends(d, o) => Descends(d, o)'
    BY <1>2 DEF Descends
  <1>4. LoadOf(o, q) => LoadOf(o, q)'
    BY <1>3 DEF LoadOf
  <1>5. UserOf(o, q) => UserOf(o, q)'
    BY DEF UserOf
  <1>6. WipeOf(o, q) /\ file' \in {file, Torn, HeirOf(o, kdf)} => WipeOf(o, q)'
    BY <1>1, <1>2 DEF WipeOf
  <1>7. NewOf(q) => NewOf(q)'
    BY <1>1 DEF NewOf
  <1> QED BY <1>1, <1>4, <1>5, <1>6, <1>7

\* While anybody else has come further than a creation, none is writing.
LEMMA NoOpenCreation ==
  ASSUME NEW o, Lineage(o), NEW p \in Proc, ~Unborn(p)
  PROVE  \A q \in Proc : Creating(q) /\ pc[q].at = "write" => q = p
  BY DEF Lineage, CreateOf

\* The file is there once the line has begun.
LEMMA LineHasFile ==
  ASSUME NEW o \in Doc, Lineage(o)
  PROVE  file # Absent /\ (file \in Doc => Descends(file, o))
  <1>1. CASE file = Torn
    BY <1>1, FileAssumption
  <1>2. CASE Descends(file, o)
    <2>1. file \in Doc
      BY <1>2, HeirFields DEF Descends
    <2> QED BY <1>2, <2>1, FileAssumption
  <1> QED BY <1>1, <1>2 DEF Lineage, FileOf

\* A step of p, to the stage s, in a line that goes on.
LEMMA LineGoesOn ==
  ASSUME NEW o \in Doc, Lineage(o), NEW p \in Proc, NEW s \in Stage,
         pc \in [Proc -> Stage], pc' = [pc EXCEPT ![p] = s],
         gone \subseteq gone', devs' = devs, kdf' = kdf,
         file' \in {file, Torn, HeirOf(o, kdf)},
         LoadOf(o, p)', WipeOf(o, p)', UserOf(o, p)', FileOf(o)', GivenOf(o)', WroteOf(o)',
         TornOf',
         \A q \in Proc : ~(Creating(q)' /\ pc'[q].at = "write")
  PROVE  Lineage(o)'
  <1>1. \A q \in Proc \ {p} : pc'[q] = pc[q]
    OBVIOUS
  <1>2. \A q \in Proc \ {p} : LoadOf(o, q)' /\ WipeOf(o, q)' /\ UserOf(o, q)'
    BY <1>1, OthersStay DEF Lineage
  <1>3. \A q \in Proc : CreateOf(o, q)'
    BY DEF CreateOf
  <1>4. GoodDoc(o)' /\ Made(o)'
    BY DEF Lineage, GoodDoc, Made
  <1> QED BY <1>2, <1>3, <1>4 DEF Lineage

\* --create finds no file and starts a new line.
LEMMA CreateLine ==
  ASSUME LineInv, NEW p \in Proc, NEW w \in Passphrase, NEW d \in Passphrase \cup {None},
         Create(p, w, d)
  PROVE  LineInv'
  <1>1. WipeInv'
    BY CreateStep DEF LineInv
  <1> PICK i : i = [n |-> devs + 1, decoy |-> FALSE]
    OBVIOUS
  <1> PICK s : s = [at |-> "save", pass |-> w, wipes |-> None, run |-> FALSE,
                    doc |-> Saved(i, w, d)]
    OBVIOUS
  <1>2. /\ pc' = [pc EXCEPT ![p] = s] /\ pc \in [Proc -> Stage] /\ file = Absent
        /\ UNCHANGED <<disk, kdf, gone, returned, wrote, clobbered, cut>>
    BY DEF Create, LineInv, WipeInv, TypeOK
  <1>3. pc'[p] = s /\ \A q \in Proc \ {p} : pc'[q] = pc[q]
    BY <1>2
  <1>4. s.at = "save" /\ s.wipes = None /\ s.pass = w /\ s.doc = Saved(i, w, d)
    OBVIOUS
  <1>5. \A q \in Proc : NewOf(q)'
    <2>1. s.doc.key.pass = s.pass /\ Made(s.doc)
      BY <1>4 DEF Saved, Derive, Made
    <2>2. NewOf(p)'
      BY <1>3, <2>1 DEF NewOf, Made
    <2> QED BY <1>2, <1>3, <2>2, OthersStay DEF LineInv
  <1>6. Owners'
    BY <1>2, <1>3, <1>4, OwnersStay DEF LineInv
  <1>7. Blank => Blank'
    <2>1. Unborn(p)'
      BY <1>3, <1>4 DEF Unborn, Creating, Saving
    <2>2. ASSUME Blank, NEW q \in Proc PROVE Unborn(q)'
      BY <1>2, <1>3, <2>1, <2>2, OthersStay DEF Blank
    <2> QED BY <1>2, <2>2 DEF Blank
  <1>8. ~ \E o \in Doc : Lineage(o)
    BY <1>2, LineHasFile
  <1> QED BY <1>1, <1>2, <1>5, <1>6, <1>7, <1>8 DEF LineInv

\* load_identity reads a document of the line.
LEMMA ReadLine ==
  ASSUME LineInv, NEW p \in Proc, NEW w \in Passphrase, NEW run \in BOOLEAN, Read(p, w, run)
  PROVE  LineInv'
  <1>1. WipeInv'
    BY ReadStep DEF LineInv
  <1> PICK s : s = [at |-> "load", pass |-> w, doc |-> file, run |-> run]
    OBVIOUS
  <1>2. /\ pc[p] = Idle /\ file \in Doc /\ pc' = [pc EXCEPT ![p] = s] /\ pc \in [Proc -> Stage]
        /\ UNCHANGED <<disk, kdf, history>>
    BY DEF Read, LineInv, WipeInv, TypeOK
  <1>3. /\ pc'[p] = s /\ \A q \in Proc \ {p} : pc'[q] = pc[q]
        /\ s \in Stage /\ s.at = "load" /\ s.doc = file
    BY <1>2, Stages
  <1>4. \A q \in Proc : NewOf(q)'
    <2>1. NewOf(p)'
      BY <1>3 DEF NewOf, Creating, Saving
    <2> QED BY <1>2, <1>3, <2>1, OthersStay DEF LineInv
  <1>5. Owners'
    BY <1>2, <1>3, OwnersStay DEF LineInv
  <1>6. ~Blank
    BY <1>2, FileAssumption DEF Blank
  <1>7. ASSUME NEW o \in Doc, Lineage(o) PROVE Lineage(o)'
    <2>1. Descends(file, o) /\ file # Torn
      BY <1>2, <1>7, LineHasFile, FileAssumption
    <2>2. LoadOf(o, p)' /\ FileOf(o)' /\ GivenOf(o)' /\ WroteOf(o)'
      BY <1>2, <1>3, <1>7, <2>1 DEF LoadOf, FileOf, GivenOf, WroteOf, Descends, Erased, Lineage
    <2>3. WipeOf(o, p)' /\ UserOf(o, p)' /\ TornOf'
      BY <1>2, <1>3, <2>1 DEF WipeOf, Wiping, Saving, UserOf, TornOf
    <2>4. \A q \in Proc : ~(Creating(q) /\ pc[q].at = "write")
      BY <1>7, <2>1 DEF Lineage, CreateOf
    <2>5. \A q \in Proc : ~(Creating(q)' /\ pc'[q].at = "write")
      BY <1>3, <2>4 DEF Creating, Saving
    <2> QED BY <1>2, <1>3, <1>7, <2>2, <2>3, <2>5, LineGoesOn
  <1> QED BY <1>1, <1>2, <1>4, <1>5, <1>6, <1>7 DEF LineInv

\* What a passphrase opens is of the line; the duress one begins a wipe.
LEMMA DecryptLine ==
  ASSUME LineInv, NEW p \in Proc, Decrypt(p)
  PROVE  LineInv'
  <1>1. WipeInv'
    BY DecryptStep DEF LineInv
  <1> PICK w : w = pc[p].pass
    OBVIOUS
  <1> PICK d : d = pc[p].doc
    OBVIOUS
  <1>2. /\ pc[p].at = "load" /\ pc[p] \in Stage /\ HasDoc(p) /\ w \in Passphrase /\ d \in Doc
        /\ pc[p].run \in BOOLEAN /\ d.dev \in Device /\ GoodDoc(d)
        /\ pc \in [Proc -> Stage] /\ kdf \in Kdf
    BY Fields DEF Decrypt, LineInv, WipeInv, TypeOK, HasDoc, Docs, Doc
  <1>3. UNCHANGED <<disk, kdf, devs, gone, wrote, clobbered, cut>>
    BY DEF Decrypt
  <1>4. ~Unborn(p) /\ ~Blank
    BY <1>2 DEF Unborn, Blank
  <1>5. Owners /\ \A q \in Proc : NewOf(q)
    BY DEF LineInv
  <1>6. ASSUME NEW s \in Stage, pc' = [pc EXCEPT ![p] = s],
               s.at \in {"idle", "save", "open"}, s.at = "save" => s.wipes # None
        PROVE  /\ pc'[p] = s /\ \A q \in Proc : NewOf(q)'
               /\ Owners'
               /\ \A o : Lineage(o) => \A q \in Proc : ~(Creating(q)' /\ pc'[q].at = "write")
    <2>1. pc'[p] = s /\ \A q \in Proc \ {p} : pc'[q] = pc[q]
      BY <1>2, <1>6
    <2>2. ~Creating(p)'
      BY <2>1, <1>6 DEF Creating, Saving
    <2>3. \A q \in Proc : NewOf(q)'
      BY <1>3, <1>5, <2>1, <2>2, OthersStay DEF NewOf
    <2>4. Owners'
      BY <1>3, <1>5, <1>6, <2>1, OwnersStay
    <2>5. ASSUME NEW o, Lineage(o), NEW q \in Proc PROVE ~(Creating(q)' /\ pc'[q].at = "write")
      <3>1. q # p => ~(Creating(q) /\ pc[q].at = "write")
        BY <1>4, <2>5, NoOpenCreation
      <3> QED BY <2>1, <2>2, <3>1 DEF Creating, Saving
    <2> QED BY <2>1, <2>3, <2>4, <2>5
  <1>7. ASSUME NEW o \in Doc, Lineage(o) PROVE FileOf(o)' /\ WroteOf(o)' /\ TornOf'
    <2>1. FileOf(o) /\ WroteOf(o) /\ TornOf
      BY <1>7 DEF Lineage
    <2>2. FileOf(o)' /\ WroteOf(o)'
      BY <1>3, <2>1 DEF FileOf, Descends, Erased, WroteOf
    <2>3. file = Torn => cut \/ \E q \in Proc : pc[q].at = "write" /\ q # p
      BY <1>2, <2>1 DEF TornOf
    <2>4. TornOf'
      BY <1>2, <1>3, <2>3 DEF TornOf, Decrypt, Return, Proceed
    <2> QED BY <2>2, <2>4
  <1>8. ASSUME NEW o \in Doc, Lineage(o) PROVE Descends(d, o)
    BY <1>2, <1>8 DEF Lineage, LoadOf
  <1>9. CASE Real(w, d) /\ Return(p, d.dev)
    <2> PICK s : s = IF pc[p].run THEN [at |-> "open", pass |-> w, dev |-> d.dev] ELSE Idle
      OBVIOUS
    <2>1. /\ s \in Stage /\ s.at \in {"open", "idle"} /\ pc' = [pc EXCEPT ![p] = s]
          /\ s.at = "open" => s.pass = w /\ s.dev = d.dev
      BY <1>2, <1>9, Stages DEF Return, Proceed, Idle
    <2>2. \A o \in Doc : Lineage(o) => Lineage(o)'
      <3> SUFFICES ASSUME NEW o \in Doc, Lineage(o) PROVE Lineage(o)'
        OBVIOUS
      <3>1. Entitled(o, w, d.dev) /\ (d.dev # o.dev => Erased(o))
        BY <1>8, <1>9, DescentEntitles
      <3>2. LoadOf(o, p)' /\ WipeOf(o, p)' /\ UserOf(o, p)'
        BY <1>6, <2>1, <3>1 DEF LoadOf, WipeOf, Wiping, Saving, UserOf, Entitled, Duress
      <3>3. GivenOf(o)'
        BY <1>3, <1>9, <3>1 DEF GivenOf, Lineage, Return, Entitled, Duress, Erased
      <3> QED BY <1>2, <1>3, <1>6, <1>7, <2>1, <3>2, <3>3, LineGoesOn
    <2> QED BY <1>1, <1>3, <1>4, <1>6, <2>1, <2>2 DEF LineInv
  <1>10. CASE pc' = [pc EXCEPT ![p] = Idle] /\ UNCHANGED returned
    <2>1. Idle \in Stage /\ Idle.at = "idle"
      BY Stages DEF Idle
    <2>2. \A o \in Doc : Lineage(o) => Lineage(o)'
      <3> SUFFICES ASSUME NEW o \in Doc, Lineage(o) PROVE Lineage(o)'
        OBVIOUS
      <3>1. LoadOf(o, p)' /\ WipeOf(o, p)' /\ UserOf(o, p)'
        BY <1>6, <1>10, <2>1 DEF LoadOf, WipeOf, Wiping, Saving, UserOf
      <3>2. GivenOf(o)'
        BY <1>3, <1>10 DEF GivenOf, Lineage, Erased
      <3> QED BY <1>2, <1>3, <1>6, <1>7, <1>10, <2>1, <3>1, <3>2, LineGoesOn
    <2> QED BY <1>1, <1>3, <1>4, <1>6, <1>10, <2>1, <2>2 DEF LineInv
  <1>11. CASE /\ Decoy(w, d) /\ UNCHANGED returned
              /\ pc' = [pc EXCEPT ![p] = [at |-> "save", pass |-> w, doc |-> DecoyDoc(w, d),
                                          wipes |-> d.dev, run |-> @.run]]
    <2>1. d.duress # None /\ d.duress.dev \in Device /\ d.duress.key.pass = w
      <3>1. Decoy(w, d)
        BY <1>11
      <3>2. d.duress # None /\ d.duress.key = [pass |-> w, kdf |-> d.kdf]
        BY <3>1 DEF Decoy, DeriveFrom
      <3>3. d.duress.dev \in Device
        BY <1>2, <3>2, DocFields
      <3> QED BY <3>2, <3>3
    <2>2. DecoyDoc(w, d) \in Doc
      <3>1. None \in Passphrase \cup {None} /\ DecoyDoc(w, d) = Saved(d.duress.dev, w, None)
        BY DEF DecoyDoc
      <3>2. Saved(d.duress.dev, w, None) \in Doc
        BY <1>2, <2>1, <3>1, SavedIsDoc
      <3> QED BY <3>1, <3>2
    <2> PICK s : s = [at |-> "save", pass |-> w, wipes |-> d.dev, run |-> pc[p].run,
                      doc |-> DecoyDoc(w, d)]
      OBVIOUS
    <2>3. /\ s \in Stage /\ pc' = [pc EXCEPT ![p] = s] /\ s.at = "save" /\ s.pass = w
          /\ s.wipes = d.dev /\ s.doc = DecoyDoc(w, d) /\ s.wipes # None
      BY <1>2, <1>11, <2>2, Stages, FileAssumption
    <2>4. \A o \in Doc : Lineage(o) => Lineage(o)'
      <3> SUFFICES ASSUME NEW o \in Doc, Lineage(o) PROVE Lineage(o)'
        OBVIOUS
      <3>1. d = o
        <4>1. ASSUME NEW k \in Kdf, Duress(o), d = HeirOf(o, k) PROVE FALSE
          <5>1. HeirOf(o, k).duress = None
            BY <4>1, HeirFields
          <5> QED BY <2>1, <4>1, <5>1
        <4> QED BY <1>8, <4>1 DEF Descends
      <3>2. Duress(o)
        <4>1. o.key = [pass |-> o.key.pass, kdf |-> o.kdf]
          BY DocFields DEF Lineage, Made
        <4>2. o.key # [pass |-> w, kdf |-> o.kdf]
          BY <1>11, <3>1 DEF Decoy, Real, DeriveFrom
        <4> QED BY <2>1, <3>1, <4>1, <4>2 DEF Duress
      <3>3. s.doc = HeirOf(o, kdf)
        BY <2>1, <2>3, <3>1 DEF DecoyDoc, Saved, Derive, HeirOf
      <3>4. LoadOf(o, p)' /\ UserOf(o, p)' /\ WipeOf(o, p)'
        BY <1>3, <1>6, <2>1, <2>3, <3>1, <3>2, <3>3
           DEF LoadOf, UserOf, WipeOf, Duress, HeirOf
      <3>5. GivenOf(o)'
        BY <1>3, <1>11 DEF GivenOf, Lineage, Erased
      <3> QED BY <1>2, <1>3, <1>6, <1>7, <2>3, <3>4, <3>5, LineGoesOn
    <2> QED BY <1>1, <1>3, <1>4, <1>6, <2>3, <2>4 DEF LineInv
  <1> QED BY <1>9, <1>10, <1>11 DEF Decrypt

\* write_text empties the file.
LEMMA TruncateLine ==
  ASSUME LineInv, NEW p \in Proc, Truncate(p)
  PROVE  LineInv'
  <1>1. WipeInv'
    BY TruncateStep DEF LineInv
  <1>2. /\ pc[p].at = "save" /\ pc[p] \in Stage /\ pc \in [Proc -> Stage] /\ Saving(p)
        /\ pc[p].pass \in Passphrase /\ pc[p].doc \in Doc /\ pc[p].run \in BOOLEAN
        /\ pc[p].wipes \in Device \cup {None}
        /\ pc[p] = [at |-> "save", pass |-> pc[p].pass, wipes |-> pc[p].wipes,
                    run |-> pc[p].run, doc |-> pc[p].doc]
    BY Fields DEF Truncate, LineInv, WipeInv, TypeOK, Saving
  <1> PICK s : s = [at |-> "write", pass |-> pc[p].pass, wipes |-> pc[p].wipes,
                    run |-> pc[p].run, doc |-> pc[p].doc]
    OBVIOUS
  <1>3. /\ s \in Stage /\ s.at = "write" /\ s.pass = pc[p].pass /\ s.doc = pc[p].doc
        /\ s.wipes = pc[p].wipes
    BY <1>2, Stages
  <1>4. /\ file' = Torn /\ pc' = [pc EXCEPT ![p] = s]
        /\ gone' = gone \cup ({pc[p].wipes} \ {None})
        /\ clobbered' = (clobbered \/ (pc[p].wipes = None /\ file # Absent))
        /\ UNCHANGED <<stores, kdf, devs, returned, wrote, cut>>
    <2>1. s = [pc[p] EXCEPT !.at = "write"]
      BY <1>2
    <2> QED BY <2>1 DEF Truncate
  <1>5. pc'[p] = s /\ \A q \in Proc \ {p} : pc'[q] = pc[q]
    BY <1>2, <1>4
  <1>6. Creating(p)' = Creating(p) /\ Wiping(p)' = Wiping(p) /\ (Creating(p) \/ Wiping(p))
    BY <1>2, <1>3, <1>5 DEF Creating, Wiping, Saving
  <1>7. gone \subseteq gone'
    BY <1>4
  <1>8. \A q \in Proc : NewOf(q)'
    <2>1. NewOf(p)
      BY DEF LineInv
    <2>2. NewOf(p)'
      BY <1>3, <1>5, <1>6, <2>1 DEF NewOf, Made
    <2> QED BY <1>4, <1>5, <1>7, <2>2, OthersStay DEF LineInv
  <1>9. Owners'
    BY <1>3, <1>4, <1>5, OwnersStay DEF LineInv
  <1>10. TornOf'
    BY <1>3, <1>5 DEF TornOf
  <1>11. CASE clobbered'
    BY <1>1, <1>8, <1>9, <1>11 DEF LineInv
  \* The first creation on the path: its document begins the line.
  <1>12. CASE Blank
    <2> PICK o \in Doc : o = pc[p].doc
      BY <1>2
    <2>1. Creating(p) /\ \A q \in Proc \ {p} : Unborn(q)
      BY <1>2, <1>12 DEF Blank, Unborn
    <2>2. GoodDoc(o)' /\ Made(o)'
      BY <1>2, <1>4, <2>1 DEF LineInv, WipeInv, Docs, HasDoc, NewOf, GoodDoc, Made
    <2>3. FileOf(o)' /\ GivenOf(o)' /\ WroteOf(o)'
      BY <1>4, <1>12 DEF Blank, FileOf, GivenOf, WroteOf
    <2>4. \A q \in Proc \ {p} : Unborn(q)'
      BY <1>4, <1>5, <1>7, <2>1, OthersStay
    <2>5. ASSUME NEW q \in Proc \ {p}
          PROVE  LoadOf(o, q)' /\ WipeOf(o, q)' /\ CreateOf(o, q)' /\ UserOf(o, q)'
      BY <2>4 DEF Unborn, LoadOf, WipeOf, CreateOf, UserOf, Creating, Wiping, Saving
    <2>6. pc'[p].doc.key.pass = pc'[p].pass
      BY <1>6, <1>8, <2>1 DEF NewOf
    <2>7. LoadOf(o, p)' /\ WipeOf(o, p)' /\ CreateOf(o, p)' /\ UserOf(o, p)'
      BY <1>3, <1>4, <1>5, <1>6, <2>1, <2>4, <2>6
         DEF LoadOf, WipeOf, CreateOf, UserOf, Creating, Wiping
    <2> QED BY <1>1, <1>8, <1>9, <1>10, <2>2, <2>3, <2>5, <2>7 DEF LineInv, Lineage
  <1>13. ASSUME ~clobbered', NEW o \in Doc, Lineage(o) PROVE Lineage(o)'
    <2>1. Wiping(p) /\ ~Creating(p)
      BY <1>2, <1>4, <1>6, <1>13, LineHasFile DEF Creating
    <2>2. WipeOf(o, p) /\ o.dev \in Device
      BY <1>13, DocFields DEF Lineage
    <2>3. Erased(o)'
      BY <1>4, <2>1, <2>2, FileAssumption DEF WipeOf, Erased
    <2>4. LoadOf(o, p)' /\ WipeOf(o, p)' /\ UserOf(o, p)'
      BY <1>3, <1>4, <1>5, <1>6, <2>1, <2>2, <2>3 DEF LoadOf, WipeOf, UserOf
    <2>5. FileOf(o)' /\ GivenOf(o)' /\ WroteOf(o)'
      BY <1>4, <1>13, <2>3 DEF FileOf, GivenOf, WroteOf, Lineage
    <2>6. ~Unborn(p)
      BY <1>2, <2>1 DEF Unborn
    <2>7. \A q \in Proc : ~(Creating(q)' /\ pc'[q].at = "write")
      <3> SUFFICES ASSUME NEW q \in Proc, q # p PROVE ~(Creating(q)' /\ pc'[q].at = "write")
        BY <1>6, <2>1
      <3>1. ~(Creating(q) /\ pc[q].at = "write")
        BY <1>13, <2>6, NoOpenCreation
      <3> QED BY <1>5, <3>1 DEF Creating, Saving
    <2> QED BY <1>2, <1>3, <1>4, <1>7, <1>10, <1>13, <2>4, <2>5, <2>7, LineGoesOn
  <1> QED BY <1>1, <1>4, <1>8, <1>9, <1>11, <1>12, <1>13 DEF LineInv

\* It writes the document the process holds.
LEMMA WriteLine ==
  ASSUME LineInv, NEW p \in Proc, Write(p)
  PROVE  LineInv'
  <1>1. WipeInv'
    BY WriteStep DEF LineInv
  <1>2. /\ pc[p].at = "write" /\ pc[p] \in Stage /\ pc \in [Proc -> Stage] /\ Saving(p)
        /\ pc[p].pass \in Passphrase /\ pc[p].doc \in Doc /\ pc[p].doc.dev \in Device
        /\ pc[p].run \in BOOLEAN /\ kdf \in Kdf
    BY Fields DEF Write, LineInv, WipeInv, TypeOK, Saving, Doc
  <1> PICK s : s = IF pc[p].run THEN [at |-> "open", pass |-> pc[p].pass, dev |-> pc[p].doc.dev]
                   ELSE Idle
    OBVIOUS
  <1>3. /\ s \in Stage /\ s.at \in {"open", "idle"}
        /\ s.at = "open" => s.pass = pc[p].pass /\ s.dev = pc[p].doc.dev
    BY <1>2, Stages DEF Idle
  <1>4. /\ pc' = [pc EXCEPT ![p] = s]
        /\ file' \in IF file \in {Torn, pc[p].doc} THEN {pc[p].doc} ELSE {pc[p].doc, Torn}
        /\ returned' = returned \cup {[pass |-> pc[p].pass, dev |-> pc[p].doc.dev]}
        /\ UNCHANGED <<stores, kdf, devs, gone, wrote, clobbered, cut>>
    BY <1>2 DEF Write, Return, Proceed
  <1>5. pc'[p] = s /\ \A q \in Proc \ {p} : pc'[q] = pc[q]
    BY <1>2, <1>3, <1>4
  <1>6. ~Saving(p)' /\ ~Creating(p)' /\ ~Wiping(p)' /\ (Creating(p) \/ Wiping(p))
    BY <1>2, <1>3, <1>5 DEF Creating, Wiping, Saving
  <1>7. \A q \in Proc : NewOf(q)'
    BY <1>4, <1>5, <1>6, OthersStay DEF LineInv, NewOf
  <1>8. Owners'
    BY <1>3, <1>4, <1>5, OwnersStay DEF LineInv
  <1>9. ~Blank
    BY <1>2 DEF Blank, Unborn
  <1>10. ASSUME NEW o \in Doc, Lineage(o) PROVE Lineage(o)'
    <2>1. ~Unborn(p)
      BY <1>2 DEF Unborn
    <2>2. \A q \in Proc : ~(Creating(q)' /\ pc'[q].at = "write")
      <3> SUFFICES ASSUME NEW q \in Proc, q # p PROVE ~(Creating(q)' /\ pc'[q].at = "write")
        BY <1>6
      <3>1. ~(Creating(q) /\ pc[q].at = "write")
        BY <1>10, <2>1, NoOpenCreation
      <3> QED BY <1>5, <3>1 DEF Creating, Saving
    <2>3. /\ file' = pc[p].doc /\ Descends(pc[p].doc, o)
          /\ Entitled(o, pc[p].pass, pc[p].doc.dev)
          /\ pc[p].doc.dev # o.dev => Erased(o)
      <3>1. CASE Wiping(p)
        <4>1. /\ Duress(o) /\ pc[p].doc = HeirOf(o, kdf) /\ pc[p].pass = o.duress.key.pass
              /\ Erased(o) /\ file \in {Torn, pc[p].doc}
          BY <1>2, <1>10, <3>1 DEF Lineage, WipeOf
        <4>2. pc[p].doc.dev = o.duress.dev
          BY <4>1 DEF HeirOf
        <4> QED BY <1>2, <1>4, <4>1, <4>2 DEF Descends, Entitled
      <3>2. CASE Creating(p)
        <4>1. pc[p].doc = o /\ pc[p].pass = o.key.pass /\ file = Torn
          BY <1>2, <1>10, <3>2 DEF Lineage, CreateOf
        <4> QED BY <1>4, <4>1 DEF Descends, Entitled
      <3> QED BY <1>6, <3>1, <3>2
    <2>4. Descends(file, o)' /\ file' # Torn
      BY <1>2, <1>4, <2>3, FileAssumption DEF Descends, Duress, HeirOf, Erased
    <2>5. FileOf(o)' /\ TornOf' /\ WroteOf(o)'
      BY <1>4, <1>10, <2>3, <2>4 DEF FileOf, TornOf, WroteOf, Lineage, Descends, Erased
    <2>6. GivenOf(o)'
      BY <1>4, <1>10, <2>3 DEF GivenOf, Lineage, Entitled, Duress, Erased
    <2>7. LoadOf(o, p)' /\ WipeOf(o, p)' /\ UserOf(o, p)'
      BY <1>3, <1>5, <1>6, <2>3 DEF LoadOf, WipeOf, UserOf, Entitled, Duress
    \* A second wipe under way writes what this one has written.
    <2>8. ASSUME NEW q \in Proc \ {p}
          PROVE  LoadOf(o, q)' /\ WipeOf(o, q)' /\ UserOf(o, q)'
      <3>1. LoadOf(o, q)' /\ UserOf(o, q)' /\ Wiping(q)' = Wiping(q) /\ pc'[q] = pc[q]
        BY <1>4, <1>5, <1>10, OthersStay DEF Lineage
      <3>2. ASSUME Wiping(q)
            PROVE  /\ Duress(o) /\ pc[q].doc = HeirOf(o, kdf) /\ pc[q].wipes = o.dev
                   /\ pc[q].pass = o.duress.key.pass
                   /\ pc[q].at = "write" => Erased(o) /\ file' = pc[q].doc
        <4>1. Wiping(p)
          BY <1>2, <1>6, <1>10, <2>3, <3>2 DEF Lineage, CreateOf, Unborn, Wiping, Saving, Creating
        <4>2. pc[p].doc = HeirOf(o, kdf)
          BY <1>10, <4>1 DEF Lineage, WipeOf
        <4> QED BY <1>10, <2>3, <3>2, <4>2 DEF Lineage, WipeOf
      <3> QED BY <1>4, <3>1, <3>2 DEF WipeOf, Duress, HeirOf, Erased
    <2>9. \A q \in Proc : CreateOf(o, q)'
      BY <2>2 DEF CreateOf
    <2>10. GoodDoc(o)' /\ Made(o)'
      BY <1>4, <1>10 DEF Lineage, GoodDoc, Made
    <2> QED BY <2>5, <2>6, <2>7, <2>8, <2>9, <2>10 DEF Lineage
  <1> QED BY <1>1, <1>4, <1>7, <1>8, <1>9, <1>10 DEF LineInv

\* A step that reads and writes no document.
LEMMA NoDocStep ==
  ASSUME LineInv, NEW p \in Proc, NEW s \in Stage, ~Unborn(p),
         s.at \in {"idle", "derive", "rows", "run"},
         pc' = [pc EXCEPT ![p] = s],
         s.at # "idle" => /\ s.pass = pc[p].pass /\ s.dev = pc[p].dev
                          /\ pc[p].at \in AtNode,
         pc[p].at = "write" => cut', cut => cut',
         \A h \in wrote' : h \in wrote \/ (/\ pc[p].at = "run"
                                           /\ h.pass = pc[p].pass /\ h.dev = pc[p].dev),
         UNCHANGED <<file, kdf, devs, gone, returned>>
  PROVE  /\ \A q \in Proc : NewOf(q)'
         /\ \A o \in Doc : Lineage(o) => Lineage(o)'
  <1>1. pc \in [Proc -> Stage] /\ pc'[p] = s /\ \A q \in Proc \ {p} : pc'[q] = pc[q]
    BY DEF LineInv, WipeInv, TypeOK
  <1>2. ~Saving(p)' /\ pc'[p].at # "load"
    BY <1>1 DEF Saving
  <1>3. \A q \in Proc : NewOf(q)'
    <2>1. NewOf(p)'
      BY <1>2 DEF NewOf, Creating
    <2> QED BY <1>1, <2>1, OthersStay DEF LineInv
  <1>4. ASSUME NEW o \in Doc, Lineage(o) PROVE Lineage(o)'
    <2>1. LoadOf(o, p)' /\ WipeOf(o, p)'
      BY <1>2 DEF LoadOf, WipeOf, Wiping
    <2>2. UserOf(o, p)
      BY <1>4 DEF Lineage
    <2>3. UserOf(o, p)'
      BY <1>1, <2>2 DEF UserOf, Entitled, Duress
    <2>4. WroteOf(o)'
      BY <1>4, <2>2 DEF WroteOf, Lineage, UserOf, Entitled, Duress
    <2>5. FileOf(o)' /\ GivenOf(o)'
      BY <1>4 DEF FileOf, GivenOf, Lineage, Descends, Erased
    <2>6. TornOf'
      BY <1>1, <1>4 DEF TornOf, Lineage
    <2>7. \A q \in Proc : ~(Creating(q)' /\ pc'[q].at = "write")
      <3> SUFFICES ASSUME NEW q \in Proc, q # p PROVE ~(Creating(q)' /\ pc'[q].at = "write")
        BY <1>2 DEF Creating
      <3>1. ~(Creating(q) /\ pc[q].at = "write")
        BY <1>4, NoOpenCreation
      <3> QED BY <1>1, <3>1 DEF Creating, Saving
    <2> QED BY <1>1, <1>4, <2>1, <2>3, <2>4, <2>5, <2>6, <2>7, LineGoesOn
  <1> QED BY <1>3, <1>4

\* The first to open the databases owns them, and the others are admitted by
\* its sentinel only.
LEMMA OpeningOwners ==
  ASSUME LineInv, NEW p \in Proc, Opening(p)
  PROVE  Owners'
  <1> SUFFICES ASSUME ~raced' PROVE Owners'
    BY DEF Owners
  <1>1. /\ pc \in [Proc -> Stage] /\ pc[p] \in Stage /\ wrote' = wrote
        /\ meta \in [salt : Proc \cup {None}, check : KeyCheck \cup {None}]
        /\ wrote \subseteq Holder
    BY OpeningStep DEF LineInv, WipeInv, TypeOK
  <1>2. /\ pc[p].pass \in Passphrase
        /\ pc[p].at \in {"open", "derive", "rows"}
    BY <1>1, OpeningStep, Fields DEF LineInv, AtNode
  <1>3. ~raced
    BY DEF Opening, OpenStores, FirstRow, KeyCheckRow, Verify
  <1>4. /\ meta.salt = None => meta.check = None
        /\ \A q \in Proc : OwnerOf(q)
        /\ \A h \in wrote : meta.check # None /\ h.pass = meta.check.pass
    BY <1>3 DEF LineInv, Owners
  <1>5. \A q \in Proc : pc[q].at = "run" => meta.salt # None /\ meta.check # None
    <2> SUFFICES ASSUME NEW q \in Proc, pc[q].at = "run"
                 PROVE  meta.salt # None /\ meta.check # None
      OBVIOUS
    <2>1. meta.check = [pass |-> pc[q].pass, salt |-> meta.salt] /\ meta.salt # None
      BY <1>4 DEF OwnerOf
    <2>2. pc[q].pass \in Passphrase /\ meta.salt \in Proc
      BY <1>1, <2>1, Fields DEF AtNode
    <2> QED BY <2>1, <2>2, StoreAssumption DEF KeyCheck
  <1>6. CASE OpenStores(p)
    <2>1. /\ pc'[p].at = "derive" /\ pc'[p].salt = meta.salt /\ meta' = meta
          /\ \A q \in Proc \ {p} : pc'[q] = pc[q]
      BY <1>1, <1>6 DEF OpenStores
    <2>2. \A q \in Proc : OwnerOf(q)'
      BY <1>4, <2>1 DEF OwnerOf
    <2> QED BY <1>1, <1>4, <2>1, <2>2 DEF Owners
  <1>7. CASE FirstRow(p)
    <2>1. /\ pc'[p].at = "rows" /\ meta.salt = None /\ meta.check = None
          /\ meta'.salt = p /\ meta'.check = None
          /\ \A q \in Proc \ {p} : pc'[q] = pc[q]
      BY <1>1, <1>4, <1>7 DEF FirstRow
    <2>2. \A q \in Proc : pc[q].at \notin {"rows", "run"}
      BY <1>4, <1>5, <2>1, StoreAssumption DEF OwnerOf
    <2>3. \A q \in Proc : OwnerOf(q)'
      BY <1>4, <2>1, <2>2 DEF OwnerOf
    <2>4. wrote' = {} /\ meta'.salt # None
      BY <1>1, <1>4, <2>1, StoreAssumption
    <2> QED BY <2>3, <2>4 DEF Owners
  <1>8. CASE KeyCheckRow(p)
    <2>1. /\ pc'[p].at = "run" /\ pc'[p].pass = pc[p].pass /\ meta.salt = p
          /\ meta.check = None
          /\ meta'.salt = p /\ meta'.check = [pass |-> pc[p].pass, salt |-> p]
          /\ \A q \in Proc \ {p} : pc'[q] = pc[q]
      <3>1. pc[p] = [at |-> "rows", pass |-> pc[p].pass, dev |-> pc[p].dev]
        BY <1>1, <1>8, Fields DEF KeyCheckRow
      <3> QED BY <1>1, <1>4, <1>8, <3>1 DEF KeyCheckRow, OwnerOf
    <2>2. \A q \in Proc : pc[q].at # "run" /\ (pc[q].at = "rows" => q = p)
      BY <1>4, <1>5, <2>1 DEF OwnerOf
    <2>3. \A q \in Proc : OwnerOf(q)'
      BY <1>4, <2>1, <2>2, StoreAssumption DEF OwnerOf
    <2>4. wrote' = {} /\ meta'.salt # None
      BY <1>1, <1>4, <2>1, StoreAssumption
    <2> QED BY <2>3, <2>4 DEF Owners
  <1>9. CASE Verify(p)
    <2>1. /\ \/ /\ pc'[p].at = "run" /\ pc'[p].pass = pc[p].pass /\ pc[p].salt # None
                /\ meta.check = [pass |-> pc[p].pass, salt |-> pc[p].salt]
             \/ pc'[p].at = "idle"
          /\ pc[p].at = "derive" /\ meta' = meta
          /\ \A q \in Proc \ {p} : pc'[q] = pc[q]
      BY <1>1, <1>9 DEF Verify, SentinelOK, Idle
    <2>2. OwnerOf(p)'
      BY <1>4, <2>1 DEF OwnerOf
    <2>3. \A q \in Proc : OwnerOf(q)'
      BY <1>4, <2>1, <2>2 DEF OwnerOf
    <2> QED BY <1>1, <1>4, <2>1, <2>3 DEF Owners
  <1> QED BY <1>6, <1>7, <1>8, <1>9 DEF Opening

LEMMA OpeningLine ==
  ASSUME LineInv, NEW p \in Proc, Opening(p)
  PROVE  LineInv'
  <1>1. WipeInv'
    BY NodeSteps DEF LineInv
  <1>2. Owners'
    BY OpeningOwners
  <1>3. PICK s \in Stage : /\ s.at \in {"idle", "derive", "rows", "run"}
                           /\ s.at # "idle" => s.pass = pc[p].pass /\ s.dev = pc[p].dev
                           /\ pc' = [pc EXCEPT ![p] = s]
    BY OpeningStep DEF LineInv
  <1>4. pc[p].at \in {"open", "derive", "rows"} /\ UNCHANGED <<file, kdf, history>>
    BY OpeningStep DEF LineInv
  <1>5. ~Unborn(p) /\ ~Blank /\ pc[p].at \in AtNode
    BY <1>4 DEF Unborn, Blank, AtNode
  <1>6. (\A q \in Proc : NewOf(q)') /\ \A o \in Doc : Lineage(o) => Lineage(o)'
    BY <1>3, <1>4, <1>5, NoDocStep
  <1> QED BY <1>1, <1>2, <1>4, <1>5, <1>6 DEF LineInv

\* A process that runs writes to them as the device it opened them as.
LEMMA UseStoresLine ==
  ASSUME LineInv, NEW p \in Proc, UseStores(p)
  PROVE  LineInv'
  <1>1. WipeInv'
    BY NodeSteps DEF LineInv
  <1>2. /\ pc[p].at = "run" /\ pc[p] \in Stage /\ pc' = [pc EXCEPT ![p] = pc[p]]
        /\ wrote' = wrote \cup {[pass |-> pc[p].pass, dev |-> pc[p].dev]}
        /\ UNCHANGED <<disk, pc, kdf, devs, gone, returned, clobbered, cut>>
    BY DEF UseStores, LineInv, WipeInv, TypeOK
  <1>3. ~Unborn(p) /\ ~Blank
    BY <1>2 DEF Unborn, Blank
  <1>4. Owners'
    <2>1. raced \/ OwnerOf(p)
      BY DEF LineInv, Owners
    <2>2. \A q \in Proc : OwnerOf(q) => OwnerOf(q)'
      BY <1>2 DEF OwnerOf
    <2>3. raced \/ (meta.check # None /\ meta.check.pass = pc[p].pass)
      <3>1. raced \/ (/\ meta.salt \in Proc /\ pc[p].pass \in Passphrase
                      /\ meta.check = [pass |-> pc[p].pass, salt |-> meta.salt])
        BY <1>2, <2>1, Fields DEF OwnerOf, LineInv, WipeInv, TypeOK
      <3> QED BY <3>1, StoreAssumption DEF KeyCheck
    <2>4. raced \/ \A h \in wrote' : meta.check # None /\ h.pass = meta.check.pass
      BY <1>2, <2>3 DEF LineInv, Owners
    <2> QED BY <1>2, <2>2, <2>4 DEF LineInv, Owners
  <1>5. (\A q \in Proc : NewOf(q)') /\ \A o \in Doc : Lineage(o) => Lineage(o)'
    BY <1>2, <1>3, NoDocStep
  <1> QED BY <1>1, <1>2, <1>3, <1>4, <1>5 DEF LineInv

\* A process that ends leaves the file as it is.
LEMMA EndLine ==
  ASSUME LineInv, NEW p \in Proc, End(p)
  PROVE  LineInv'
  <1>1. WipeInv'
    BY NodeSteps DEF LineInv
  <1>2. /\ pc' = [pc EXCEPT ![p] = Idle] /\ cut' = (cut \/ pc[p].at = "write")
        /\ UNCHANGED <<disk, kdf, devs, gone, returned, wrote, clobbered>>
        /\ Idle \in Stage /\ Idle.at = "idle"
    BY Stages DEF End, Idle
  <1>3. pc'[p] = Idle /\ \A q \in Proc \ {p} : pc'[q] = pc[q]
    BY <1>2 DEF LineInv, WipeInv, TypeOK
  <1>4. Owners'
    BY <1>2, <1>3, OwnersStay DEF LineInv
  <1>5. CASE Unborn(p)
    <2>1. Unborn(p)' /\ ~Saving(p)'
      BY <1>2, <1>3 DEF Unborn, Saving
    <2>2. \A q \in Proc : NewOf(q)'
      BY <1>2, <1>3, <2>1, OthersStay DEF LineInv, NewOf, Creating
    <2>3. Blank => Blank'
      BY <1>2, <1>3, <2>1, OthersStay DEF Blank
    <2>4. ASSUME NEW o \in Doc, Lineage(o) PROVE Lineage(o)'
      <3>1. \A q \in Proc \ {p} : Unborn(q) => Unborn(q)'
        BY <1>2, <1>3, OthersStay
      <3>2. pc[p].at # "write"
        BY <1>5 DEF Unborn
      <3>3. ASSUME NEW q \in Proc PROVE CreateOf(o, q)'
        <4>1. CASE q = p
          BY <2>1, <4>1 DEF CreateOf, Creating
        <4>2. CASE q # p
          BY <1>2, <1>3, <2>1, <2>4, <3>1, <4>2 DEF Lineage, CreateOf, Creating, Saving
        <4> QED BY <4>1, <4>2
      <3>4. LoadOf(o, p)' /\ WipeOf(o, p)' /\ UserOf(o, p)'
        BY <1>2, <1>3, <2>1 DEF LoadOf, WipeOf, UserOf, Wiping
      <3>5. \A q \in Proc \ {p} : LoadOf(o, q)' /\ WipeOf(o, q)' /\ UserOf(o, q)'
        BY <1>2, <1>3, <2>4, OthersStay DEF Lineage
      <3>6. FileOf(o)' /\ GivenOf(o)' /\ WroteOf(o)' /\ GoodDoc(o)' /\ Made(o)'
        BY <1>2, <2>4 DEF FileOf, GivenOf, WroteOf, Lineage, Descends, Erased, GoodDoc, Made
      <3>7. TornOf'
        BY <1>2, <1>3, <2>4, <3>2 DEF TornOf, Lineage
      <3> QED BY <3>3, <3>4, <3>5, <3>6, <3>7 DEF Lineage
    <2> QED BY <1>1, <1>2, <1>4, <2>2, <2>3, <2>4 DEF LineInv
  <1>6. CASE ~Unborn(p)
    <2>1. (\A q \in Proc : NewOf(q)') /\ \A o \in Doc : Lineage(o) => Lineage(o)'
      BY <1>2, <1>6, NoDocStep
    <2>2. ~Blank
      BY <1>6 DEF Blank
    <2> QED BY <1>1, <1>2, <1>4, <2>1, <2>2 DEF LineInv
  <1> QED BY <1>5, <1>6

\* Nobody is saving when the installed packages change.
LEMMA InstallLine ==
  ASSUME LineInv, Install \/ UNCHANGED vars
  PROVE  LineInv'
  <1>1. WipeInv'
    BY NodeSteps DEF LineInv
  <1>2. UNCHANGED <<disk, pc, history>>
    BY DEF Install, vars
  <1>3. kdf' = kdf \/ \A p \in Proc : ~Saving(p)
    BY DEF Install, vars, Saving
  <1>4. (\A p \in Proc : NewOf(p)') /\ Owners' /\ (Blank => Blank')
    BY <1>2 DEF LineInv, NewOf, Owners, OwnerOf, Blank, Unborn, Creating, Saving, Made
  <1>5. ASSUME NEW o \in Doc, Lineage(o) PROVE Lineage(o)'
    <2>1. \A p \in Proc : LoadOf(o, p)' /\ CreateOf(o, p)' /\ UserOf(o, p)'
      BY <1>2, <1>5 DEF Lineage, LoadOf, CreateOf, UserOf, Unborn, Creating, Saving, Descends,
                        Erased
    <2>2. \A p \in Proc : WipeOf(o, p)'
      BY <1>2, <1>3, <1>5 DEF Lineage, WipeOf, Wiping, Saving, Erased
    <2> QED BY <1>2, <1>5, <2>1, <2>2 DEF Lineage, GoodDoc, Made, FileOf, GivenOf, WroteOf,
                                          TornOf, Descends, Erased
  <1> QED BY <1>1, <1>2, <1>4, <1>5 DEF LineInv

\* The inductive invariant of the line of documents.
THEOREM LineInvariance == Spec => []LineInv
  <1>1. Init => LineInv
    <2> SUFFICES ASSUME Init PROVE LineInv
      OBVIOUS
    <2>1. \A p \in Proc : pc[p].at = "idle"
      BY DEF Init, Idle
    <2> QED BY <2>1, InitWipe DEF LineInv, Init, NewOf, Owners, OwnerOf, Blank, Unborn, Creating,
                              Saving
  <1>2. LineInv /\ [Next]_vars => LineInv'
    BY CreateLine, ReadLine, DecryptLine, TruncateLine, WriteLine, OpeningLine,
       UseStoresLine, EndLine, InstallLine DEF Next, Opening
  <1> QED BY <1>1, <1>2, PTL DEF Spec

\* One passphrase is always given the same device, before, during and after a
\* wipe, unless a creation has overwritten a file.
THEOREM SameDeviceThm == Spec => []SameDevice
  <1>1. LineInv => SameDevice
    <2> SUFFICES ASSUME LineInv, ~clobbered, NEW g \in returned, NEW h \in returned,
                        g.pass = h.pass
                 PROVE  g.dev = h.dev
      BY DEF SameDevice
    <2>1. PICK o \in Doc : Lineage(o)
      BY DEF LineInv, Blank
    <2> QED BY <2>1 DEF Lineage, GivenOf, Entitled, Duress
  <1> QED BY <1>1, LineInvariance, PTL

\* Nobody runs on databases in which another device, or another passphrase, has
\* written, unless two processes have made the message store at once.
THEOREM StoresOneDeviceThm == Spec => []StoresOneDevice
  <1>1. LineInv => StoresOneDevice
    <2> SUFFICES ASSUME LineInv, ~clobbered, ~raced,
                        NEW p \in Proc, pc[p].at = "run", NEW h \in wrote
                 PROVE  h.pass = pc[p].pass /\ h.dev = pc[p].dev
      BY DEF StoresOneDevice
    <2>1. PICK o \in Doc : Lineage(o)
      BY DEF LineInv, Blank
    <2>2. h.pass = pc[p].pass
      <3>1. OwnerOf(p) /\ h.pass = meta.check.pass
        BY DEF LineInv, Owners
      <3> QED BY <3>1 DEF OwnerOf
    <2>3. Entitled(o, pc[p].pass, pc[p].dev) /\ Entitled(o, h.pass, h.dev)
      BY <2>1 DEF Lineage, UserOf, WroteOf, AtNode
    <2> QED BY <2>2, <2>3 DEF Entitled, Duress
  <1> QED BY <1>1, LineInvariance, PTL

\* Outside a save, and unless a crash has cut one off or a creation overwritten a
\* file, whoever was given a device finds it again under the same passphrase; but
\* for the device a wipe has erased.
THEOREM NothingLostThm == Spec => []NothingLost
  <1>1. LineInv => NothingLost
    <2> SUFFICES ASSUME LineInv, ~clobbered, ~cut, \A p \in Proc : pc[p].at # "write",
                        NEW h \in returned
                 PROVE  \/ h.dev \in gone
                        \/ file \in Doc /\ file.dev = h.dev /\ Real(h.pass, file)
      BY DEF NothingLost
    <2>1. PICK o \in Doc : Lineage(o)
      BY DEF LineInv, Blank
    <2>2. Descends(file, o)
      BY <2>1 DEF Lineage, FileOf, TornOf
    <2>3. Entitled(o, h.pass, h.dev) /\ (h.dev # o.dev => Erased(o))
      BY <2>1 DEF Lineage, GivenOf
    <2>4. CASE file = o
      <3>1. ~Erased(o)
        BY <2>4 DEF LineInv, WipeInv, WipeIsFinal, Erased
      <3>2. h.dev = o.dev
        BY <2>3, <3>1
      <3>3. Duress(o) => o.duress.dev # o.dev
        BY <2>1 DEF Lineage, GoodDoc, Duress
      <3>4. h.pass = o.key.pass
        BY <2>3, <3>2, <3>3 DEF Entitled
      <3>5. o.key = [pass |-> h.pass, kdf |-> o.kdf]
        BY <2>1, <3>4, DocFields DEF Lineage, Made
      <3> QED BY <2>4, <3>2, <3>5 DEF Real, DeriveFrom
    <2>5. ASSUME NEW k \in Kdf, Duress(o), Erased(o), file = HeirOf(o, k)
          PROVE  h.dev \in gone \/ (file \in Doc /\ file.dev = h.dev /\ Real(h.pass, file))
      <3>1. /\ file \in Doc /\ file.dev = o.duress.dev /\ file.kdf = k
            /\ file.key = [pass |-> o.duress.key.pass, kdf |-> k]
        BY <2>5, HeirFields
      <3>2. CASE h.dev = o.dev
        BY <2>5, <3>2 DEF Erased
      <3>3. CASE h.dev # o.dev
        BY <2>3, <3>1, <3>3 DEF Entitled, Real, DeriveFrom
      <3> QED BY <3>2, <3>3
    <2> QED BY <2>2, <2>4, <2>5 DEF Descends
  <1> QED BY <1>1, LineInvariance, PTL
=============================================================================
