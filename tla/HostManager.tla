---------------------------- MODULE HostManager -----------------------------
(***************************************************************************)
(* HostManager: every server refreshes its own entry in a table of active  *)
(* hosts, deletes entries that were not refreshed for a while, and from    *)
(* what is left works out whether it is the coordinator: the server whose  *)
(* guid comes first.  There is no agreement: each server acts on the list  *)
(* it read, while others stall, crash, come back and delete entries, also  *)
(* those that were refreshed since they read them.                         *)
(***************************************************************************)
EXTENDS Integers, FiniteSets

CONSTANTS
    Hosts,      \* guids of the servers, as numbers in their order
    MaxFailures \* bound: crashes of servers, stalls after which the entry of a running
                \* server is too old, and failures of the key store

ASSUME ManagersAssumption == Hosts \subseteq Nat \ {0} /\ IsFiniteSet(Hosts) /\ Hosts # {}
ASSUME FailuresAssumption == MaxFailures \in Nat

VARIABLES
    up,         \* the servers that run
    key,        \* the entry of each server: absent, fresh or stale
    active,     \* m_activeHosts
    isCoordinator, \* m_isCoordinatorHost
    pc,         \* where checkHostChanges is
    view,       \* hosts, the list it has read
    stale,      \* the entries of it that are to be deleted
    failures

vars == <<up, key, active, isCoordinator, pc, view, stale, failures>>

Posting == {"changed", "posting"}

(* The promise to subscribers: between the events of a check its list is    *)
(* the new one.                                                             *)
Events == INSTANCE HostEvents WITH
              stage <- [h \in Hosts |-> IF pc[h] \in Posting THEN pc[h] ELSE "quiet"],
              list <- [h \in Hosts |-> IF pc[h] \in Posting THEN view[h] ELSE {}]

First(hosts) == CHOOSE g \in hosts : \A h \in hosts : g <= h

Init ==
    /\ up = Hosts
    /\ key = [h \in Hosts |-> "absent"]
    /\ active = [h \in Hosts |-> {}] /\ isCoordinator = [h \in Hosts |-> FALSE]
    /\ pc = [h \in Hosts |-> "idle"]
    /\ view = [h \in Hosts |-> {}] /\ stale = [h \in Hosts |-> {}]
    /\ failures = 0

At(h, loc) == h \in up /\ pc[h] = loc
Goto(h, loc) == pc' = [pc EXCEPT ![h] = loc]

(* The check is over, and its lists are forgotten.                          *)
EndCheck(h) ==
    /\ Goto(h, "idle")
    /\ view' = [view EXCEPT ![h] = {}] /\ stale' = [stale EXCEPT ![h] = {}]

-----------------------------------------------------------------------------
(* checkHostChanges                                                        *)

Refresh(h) ==
    /\ At(h, "idle")
    /\ key' = [key EXCEPT ![h] = "fresh"]
    /\ Goto(h, "read")
    /\ UNCHANGED <<up, active, isCoordinator, view, stale, failures>>

(* Mutated form: no entry is ever old enough.                               *)
ReadHostsYoung(h) ==
    /\ At(h, "read")
    /\ view' = [view EXCEPT ![h] = {g \in Hosts : key[g] # "absent"}]
    /\ Goto(h, "expire")
    /\ UNCHANGED <<up, key, active, isCoordinator, stale, failures>>

(* getHostsFromKeyStore                                                     *)
ReadHosts(h) ==
    /\ At(h, "read")
    /\ view' = [view EXCEPT ![h] = {g \in Hosts : key[g] # "absent"}]
    /\ stale' = [stale EXCEPT ![h] = {g \in Hosts : key[g] = "stale"}]
    /\ Goto(h, "expire")
    /\ UNCHANGED <<up, key, active, isCoordinator, failures>>

(* deleteKey does not look whether the entry is still the one that was read.*)
Expire(h, g) ==
    /\ At(h, "expire") /\ g \in stale[h]
    /\ key' = [key EXCEPT ![g] = "absent"]
    /\ view' = [view EXCEPT ![h] = @ \ {g}]
    /\ stale' = [stale EXCEPT ![h] = @ \ {g}]
    /\ UNCHANGED <<up, active, isCoordinator, pc, failures>>

(* Nothing new; or nobody is left, not even this server, and firstKey       *)
(* throws.                                                                  *)
NoChange(h) ==
    /\ At(h, "expire") /\ stale[h] = {}
    /\ view[h] \in {active[h], {}}
    /\ EndCheck(h)
    /\ UNCHANGED <<up, key, active, isCoordinator, failures>>

(* Mutated form: compared with the list the server remembers.               *)
PostCoordinatorOld(h) ==
    /\ At(h, "expire") /\ stale[h] = {}
    /\ view[h] \notin {active[h], {}}
    /\ isCoordinator' = [isCoordinator EXCEPT ![h] = active[h] = {} \/ First(active[h]) = h]
    /\ Goto(h, "changed")
    /\ UNCHANGED <<up, key, active, view, stale, failures>>

(* The list has changed: a CoordinatorChangeEvent if this server has become *)
(* the first or is no longer.                                               *)
PostCoordinator(h) ==
    /\ At(h, "expire") /\ stale[h] = {}
    /\ view[h] \notin {active[h], {}}
    /\ isCoordinator' = [isCoordinator EXCEPT ![h] = (First(view[h]) = h)]
    /\ Goto(h, "changed")
    /\ UNCHANGED <<up, key, active, view, stale, failures>>

PostHosts(h) ==
    /\ At(h, "changed")
    /\ Goto(h, "posting")
    /\ UNCHANGED <<up, key, active, isCoordinator, view, stale, failures>>

EndPost(h) ==
    /\ At(h, "posting")
    /\ active' = [active EXCEPT ![h] = view[h]]
    /\ EndCheck(h)
    /\ UNCHANGED <<up, key, isCoordinator, failures>>

Check(h) ==
    \/ Refresh(h) \/ ReadHosts(h) \/ NoChange(h)
    \/ PostCoordinator(h) \/ PostHosts(h) \/ EndPost(h)
    \/ \E g \in Hosts : Expire(h, g)

-----------------------------------------------------------------------------
(* Failures                                                                *)

Failure == failures < MaxFailures /\ failures' = failures + 1

(* The key store fails; the check starts over after its delay.              *)
CheckFails(h) ==
    /\ Failure
    /\ At(h, "read") \/ (At(h, "expire") /\ stale[h] # {})
    /\ EndCheck(h)
    /\ UNCHANGED <<up, key, active, isCoordinator>>

(* An entry has not been refreshed for inactive_time: its server is down or *)
(* stalls at any point of its check.                                        *)
Stall(h) ==
    /\ h \in up /\ Failure
    /\ key[h] = "fresh" /\ key' = [key EXCEPT ![h] = "stale"]
    /\ UNCHANGED <<up, active, isCoordinator, pc, view, stale>>

GrowStale(h) ==
    /\ h \notin up
    /\ key[h] = "fresh" /\ key' = [key EXCEPT ![h] = "stale"]
    /\ UNCHANGED <<up, active, isCoordinator, pc, view, stale, failures>>

Crash(h) ==
    /\ h \in up /\ Failure
    /\ up' = up \ {h}
    /\ active' = [active EXCEPT ![h] = {}]
    /\ isCoordinator' = [isCoordinator EXCEPT ![h] = FALSE]
    /\ EndCheck(h)
    /\ UNCHANGED key

Restart(h) ==
    /\ h \notin up
    /\ up' = up \cup {h}
    /\ UNCHANGED <<key, active, isCoordinator, pc, view, stale, failures>>

Next == \E h \in Hosts : \/ Check(h) \/ CheckFails(h) \/ Stall(h)
                         \/ GrowStale(h) \/ Crash(h) \/ Restart(h)

(* The check is scheduled again and again on every running server, and time *)
(* passes for the entries of those that are down.                           *)
Fairness == \A h \in Hosts : WF_vars(Check(h)) /\ WF_vars(GrowStale(h))

Spec == Init /\ [][Next]_vars
FairSpec == Spec /\ Fairness

-----------------------------------------------------------------------------
(* Properties                                                              *)

(* A server that is not in a check has no list, and entries are deleted     *)
(* from the list and the table while the list is being read through only.   *)
TypeOK ==
    /\ up \subseteq Hosts
    /\ key \in [Hosts -> {"absent", "fresh", "stale"}]
    /\ active \in [Hosts -> SUBSET Hosts]
    /\ isCoordinator \in [Hosts -> BOOLEAN]
    /\ pc \in [Hosts -> {"idle", "read", "expire"} \cup Posting]
    /\ view \in [Hosts -> SUBSET Hosts] /\ stale \in [Hosts -> SUBSET Hosts]
    /\ \A h \in Hosts : /\ stale[h] \subseteq view[h]
                        /\ pc[h] # "expire" => stale[h] = {}
                        /\ pc[h] \in {"idle", "read"} => view[h] = {}
    /\ failures \in 0 .. MaxFailures

(* Subscribers see nothing of the table and its races: what HostManager     *)
(* does is, for them, one list after another with the coordinator events    *)
(* that belong to it.                                                       *)
KeepsPromise == Events!HostSpec

(* When crashes, stalls and failures end, the first of the servers that run *)
(* is the coordinator, every other one is not, and every running server     *)
(* remembers the servers that run, also those whose entries others deleted. *)
OneCoordinator ==
    <>[](\A h \in up : active[h] = up /\ (isCoordinator[h] <=> h = First(up)))
=============================================================================
