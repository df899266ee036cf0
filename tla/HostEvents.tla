----------------------------- MODULE HostEvents -----------------------------
(***************************************************************************)
(* What HostManager promises to the subscribers of its events: a server    *)
(* that runs is told of lists of hosts, each other than the last one and   *)
(* never empty, and before a list of whether it is the coordinator, if     *)
(* that changes with it.  Nothing is said of which lists come when, nor of *)
(* what other servers are told.                                            *)
(*                                                                         *)
(* Servers are numbers in the order of their guids, which they keep when   *)
(* they restart.                                                           *)
(***************************************************************************)
EXTENDS Integers, FiniteSets

CONSTANT Hosts      \* guids of the servers

ASSUME HostsAssumption == Hosts \subseteq Nat \ {0} /\ IsFiniteSet(Hosts) /\ Hosts # {}

VARIABLES
    up,             \* the servers that run
    active,         \* m_activeHosts, the last list
    isCoordinator,  \* m_isCoordinatorHost
    stage,          \* quiet, changed (coordinator event handled) or posting
    list            \* the list that is new

hostVars == <<up, active, isCoordinator, stage, list>>

First(hosts) == CHOOSE g \in hosts : \A h \in hosts : g <= h

HostInit ==
    /\ up = Hosts
    /\ active = [h \in Hosts |-> {}] /\ isCoordinator = [h \in Hosts |-> FALSE]
    /\ stage = [h \in Hosts |-> "quiet"] /\ list = [h \in Hosts |-> {}]

(* A CoordinatorChangeEvent if this server has become the first or is no    *)
(* longer.                                                                  *)
PostCoordinator(h, hosts) ==
    /\ h \in up /\ stage[h] = "quiet"
    /\ hosts # active[h] /\ hosts # {}
    /\ isCoordinator' = [isCoordinator EXCEPT ![h] = (First(hosts) = h)]
    /\ list' = [list EXCEPT ![h] = hosts]
    /\ stage' = [stage EXCEPT ![h] = "changed"]
    /\ UNCHANGED <<up, active>>

(* The HostChangeEvent and its subscribers ...                              *)
PostHosts(h) ==
    /\ h \in up /\ stage[h] = "changed"
    /\ stage' = [stage EXCEPT ![h] = "posting"]
    /\ UNCHANGED <<up, active, isCoordinator, list>>

(* ... after which the list is remembered, whatever they threw.             *)
EndPost(h) ==
    /\ h \in up /\ stage[h] = "posting"
    /\ active' = [active EXCEPT ![h] = list[h]]
    /\ list' = [list EXCEPT ![h] = {}]
    /\ stage' = [stage EXCEPT ![h] = "quiet"]
    /\ UNCHANGED <<up, isCoordinator>>

Crash(h) ==
    /\ h \in up
    /\ up' = up \ {h}
    /\ active' = [active EXCEPT ![h] = {}]
    /\ isCoordinator' = [isCoordinator EXCEPT ![h] = FALSE]
    /\ list' = [list EXCEPT ![h] = {}]
    /\ stage' = [stage EXCEPT ![h] = "quiet"]

Restart(h) ==
    /\ h \notin up
    /\ up' = up \cup {h}
    /\ UNCHANGED <<active, isCoordinator, stage, list>>

HostNext ==
    \E h \in Hosts :
        \/ \E hosts \in SUBSET Hosts : PostCoordinator(h, hosts)
        \/ PostHosts(h) \/ EndPost(h) \/ Crash(h) \/ Restart(h)

HostSpec == HostInit /\ [][HostNext]_hostVars
=============================================================================
