----------------------------- MODULE Discovery -----------------------------
(***************************************************************************)
(* Peer discovery, mesh/discovery.py: the peer cache of one node, fed by   *)
(* the zeroconf browser.                                                   *)
(*                                                                         *)
(* Each browser event starts a task.  A task for an added or updated       *)
(* service first waits up to three seconds for its records, and other      *)
(* events are handled meanwhile; from there on it runs without suspending, *)
(* the lock included, which nobody holds across an await.  The task for a  *)
(* removed service never waits at all.                                     *)
(*                                                                         *)
(* A service is named after the callsign of its device, and two devices    *)
(* may have the same one, a device and its replacement for instance.       *)
(***************************************************************************)
EXTENDS Integers, FiniteSets

CONSTANTS Device, Name, None,
          Own,        \* this node
          NameOf,     \* the service name each device advertises
          MaxTasks    \* bound on the tasks that wait for records

ASSUME DiscoveryAssumption ==
  /\ Own \in Device /\ None \notin Device /\ None \notin Name
  /\ NameOf \in [Device -> Name]
  /\ MaxTasks \in Nat

VARIABLES
  adv,     \* environment: the device that advertises a name
  heard,   \* the device whose announcement of a name the browser has cached
  tasks,   \* _on_service_added, waiting: for each, its service name and the
           \* devices whose records may answer it
  peers,   \* the keys of _peers
  bundle,  \* those with a public_bundle
  names,   \* _svc_name_to_id
  calls,   \* history: for each device, discovered less lost callbacks
  missed   \* history: devices that did not answer a request in time

cache == <<peers, bundle, names, calls>>
vars == <<adv, heard, tasks, cache, missed>>

TypeOK ==
  /\ adv \in [Name -> Device \cup {None}]
  /\ heard \in [Name -> Device \cup {None}]
  /\ \A t \in 1 .. MaxTasks :
       tasks[t] = None \/ (tasks[t].name \in Name /\ tasks[t].from \subseteq Device)
  /\ peers \subseteq Device \ {Own}
  /\ bundle \subseteq peers
  /\ names \in [Name -> (Device \ {Own}) \cup {None}]
  /\ missed \subseteq Device

Init ==
  /\ adv = [n \in Name |-> IF n = NameOf[Own] THEN Own ELSE None]
  /\ heard = [n \in Name |-> None]
  /\ tasks = [t \in 1 .. MaxTasks |-> None]
  /\ peers = {} /\ bundle = {}
  /\ names = [n \in Name |-> None]
  /\ calls = [d \in Device |-> 0]
  /\ missed = {}

----------------------------------------------------------------------------
(* Mutated forms of definitions below; no run of the project uses them.    *)

MutIsOwn(d) == FALSE
MutIsNew(d) == TRUE
MutUpdate(n) == UNCHANGED tasks

----------------------------------------------------------------------------
(* The listener and its handlers                                           *)

\* add_service and update_service: a task asks for the records of the service;
\* the device that advertises it now may answer, and those to come.
AddTask(n) ==
  \E t \in 1 .. MaxTasks :
    /\ tasks[t] = None
    /\ tasks' = [tasks EXCEPT ![t] = [name |-> n, from |-> {adv[n]} \ {None}]]

Update(n) == AddTask(n)

IsOwn(d) == d = Own
IsNew(d) == d \notin peers

\* The records of an answer replace those the browser has of a service it
\* knows; they do not make it know one.
Cached(n, d) == heard' = IF heard[n] = None THEN heard ELSE [heard EXCEPT ![n] = d]

\* _on_service_added, from the answer of d's records on.
_on_service_added(t, d) ==
  /\ tasks[t] # None
  /\ d \in tasks[t].from
  /\ tasks' = [tasks EXCEPT ![t] = None]
  /\ \/ /\ IsOwn(d)
        /\ UNCHANGED cache
     \/ /\ ~IsOwn(d)
        /\ peers' = peers \cup {d}
        /\ bundle' = bundle
        /\ names' = [names EXCEPT ![tasks[t].name] = d]
        /\ calls' = [calls EXCEPT ![d] = IF IsNew(d) THEN @ + 1 ELSE @]
  /\ Cached(tasks[t].name, d)
  /\ UNCHANGED <<adv, missed>>

\* It gives up: no answer in time, no valid TXT record or no address.
Skip(t) ==
  /\ tasks[t] # None
  /\ tasks' = [tasks EXCEPT ![t] = None]
  /\ missed' = missed \cup tasks[t].from
  /\ UNCHANGED <<adv, heard, cache>>

_on_service_removed(n) ==
  LET d == names[n] IN
  \/ /\ d = None
     /\ UNCHANGED cache
  \/ /\ d # None
     /\ names' = [names EXCEPT ![n] = None]
     /\ peers' = peers \ {d}
     /\ bundle' = bundle \ {d}
     /\ calls' = [calls EXCEPT ![d] = @ - 1]

update_peer_bundle(d) ==
  /\ d \in peers
  /\ bundle' = bundle \cup {d}
  /\ UNCHANGED <<adv, heard, tasks, peers, names, calls, missed>>

----------------------------------------------------------------------------
(* The browser and the network                                             *)

\* The browser hears of a service it has no record of.
HearNew(n) ==
  /\ heard[n] = None /\ adv[n] # None
  /\ heard' = [heard EXCEPT ![n] = adv[n]]
  /\ AddTask(n)
  /\ UNCHANGED <<adv, cache, missed>>

\* It hears other records for one it knows.
HearUpdate(n) ==
  /\ heard[n] # None /\ adv[n] # None
  /\ heard' = [heard EXCEPT ![n] = adv[n]]
  /\ Update(n)
  /\ UNCHANGED <<adv, cache, missed>>

\* It hears the goodbye of a service, or its record expires.
HearGone(n) ==
  /\ heard[n] # None /\ adv[n] # heard[n]
  /\ heard' = [heard EXCEPT ![n] = None]
  /\ _on_service_removed(n)
  /\ UNCHANGED <<adv, tasks, missed>>

\* async_register_service: the name is free.
Join(d) ==
  /\ adv[NameOf[d]] = None
  /\ adv' = [adv EXCEPT ![NameOf[d]] = d]
  /\ tasks' = [t \in 1 .. MaxTasks |->
                 IF tasks[t] # None /\ tasks[t].name = NameOf[d]
                 THEN [tasks[t] EXCEPT !.from = @ \cup {d}] ELSE tasks[t]]
  /\ UNCHANGED <<heard, cache, missed>>

\* A device stops or dies; the answers it has sent may still arrive.
Leave(d) ==
  /\ d # Own
  /\ adv[NameOf[d]] = d
  /\ adv' = [adv EXCEPT ![NameOf[d]] = None]
  /\ UNCHANGED <<heard, tasks, cache, missed>>

Next ==
  \/ \E n \in Name : HearNew(n) \/ HearUpdate(n) \/ HearGone(n)
  \/ \E t \in 1 .. MaxTasks : Skip(t) \/ \E d \in Device : _on_service_added(t, d)
  \/ \E d \in Device : Join(d) \/ Leave(d) \/ update_peer_bundle(d)

Spec == Init /\ [][Next]_vars

\* mDNS repeats announcements and records expire, so the browser hears in the
\* end of what is there and what is gone; and async_request returns.  The code
\* has no MaxTasks: strong fairness keeps that bound from shutting an event out.
FairSpec ==
  /\ Spec
  /\ \A n \in Name : /\ SF_vars(HearNew(n)) /\ WF_vars(HearGone(n))
                     /\ SF_vars(adv[n] # heard[n] /\ HearUpdate(n))
  /\ \A t \in 1 .. MaxTasks : WF_vars(Skip(t) \/ \E d \in Device : _on_service_added(t, d))

----------------------------------------------------------------------------
(* Properties                                                              *)

\* The callbacks tell the truth about the cache: for every device discovered
\* and lost alternate, and the cache holds the devices whose last callback was
\* discovered, whatever requests were under way when a service went.
CallbacksPaired == \A d \in Device : calls[d] = IF d \in peers THEN 1 ELSE 0

\* A device that stays on the network is found in the end, and then stays in
\* the cache, even if it took over the name of another whose records still
\* answer.  Provided its records answer in time: there is no retry.
StayFound ==
  \A d \in Device \ {Own} : <>[](adv[NameOf[d]] = d /\ d \notin missed) => <>[](d \in peers)
=============================================================================
