-------------------------- MODULE RollupAssignment --------------------------
(***************************************************************************)
(* AssignmentCoordinator on every server, driven by the events of its      *)
(* HostManager: the coordinator shares the roll-up tasks out among the     *)
(* hosts it knows of, when it learns of other hosts (on the thread of      *)
(* HostManager) and when the table of tasks has changed (on a thread of    *)
(* its own that starts with the coordinatorship).  A rebalance reads       *)
(* assignments and tasks, computes all assignments anew and writes the     *)
(* difference key by key, under a lock of its server; nothing keeps two    *)
(* servers apart that both believe to be the coordinator.                  *)
(*                                                                         *)
(* Of HostManager only its promise (HostEvents) is used: which lists a     *)
(* server is told of, and when, is left open.  Tasks are numbers in the    *)
(* order of their ids.                                                     *)
(***************************************************************************)
EXTENDS HostEvents

CONSTANTS
    NumTasks,   \* ids of roll-up tasks
    Stored,     \* those that are there at the start
    Interval,   \* the execution interval of a task
    MaxLists,   \* bound: lists of hosts that servers are told of
    MaxEvents   \* bound: tasks written or deleted, crashes, and rebalances ended by
                \* the key store

Tasks == 1 .. NumTasks

ASSUME TasksAssumption == NumTasks \in Nat /\ Stored \subseteq Tasks
ASSUME IntervalAssumption ==
    Interval \in [Tasks -> [unit : {"milliseconds", "seconds", "minutes", "longer"}, value : Nat]]
ASSUME BoundsAssumption == {MaxLists, MaxEvents} \subseteq Nat

NoHost == 0

VARIABLES
    stored,     \* the tasks in the key store
    taskTime,   \* modification time of their table
    deleted,    \* deletions the time of which is not written yet
    assign,     \* the table of assignments
    hostMap,    \* m_hostMap
    checker,    \* m_coordinatorTaskFuture: none, on or dead
    seen,       \* m_rollupsLastModified
    ckPc,       \* where checkAssignmentChanges is
    readTime,   \* taskStoreTime
    holder,     \* who has m_rebalanceLock: nobody, "hm" or "ck"
    rbPc,       \* where rebalanceAssignments is
    old,        \* assignments, as it has read them
    new,        \* newAssignments
    toRemove, toSet,  \* the difference that is not written yet
    undisturbed,  \* history: servers since whose last rebalance nothing of it failed and no other wrote
    lists, events

taskVars == <<stored, taskTime, deleted>>
rebalanceVars == <<holder, rbPc, old, new, toRemove, toSet>>
bounded == <<lists, events>>
vars == <<hostVars, bounded, taskVars, assign, hostMap, checker, seen, ckPc, readTime, rebalanceVars, undisturbed>>

Event == events < MaxEvents /\ events' = events + 1

Nobody == [t \in Tasks |-> NoHost]

Init ==
    /\ HostInit
    /\ stored = Stored /\ taskTime = Cardinality(Stored) /\ deleted = {}
    /\ assign = Nobody
    /\ hostMap = [h \in Hosts |-> {}]
    /\ checker = [h \in Hosts |-> "none"]
    /\ seen = [h \in Hosts |-> 0]
    /\ ckPc = [h \in Hosts |-> "idle"] /\ readTime = [h \in Hosts |-> 0]
    /\ holder = [h \in Hosts |-> "nobody"] /\ rbPc = [h \in Hosts |-> "off"]
    /\ old = [h \in Hosts |-> Nobody] /\ new = [h \in Hosts |-> Nobody]
    /\ toRemove = [h \in Hosts |-> {}] /\ toSet = [h \in Hosts |-> {}]
    /\ undisturbed = {}
    /\ lists = 0 /\ events = 0

-----------------------------------------------------------------------------
(* The tasks, changed by users through any server                          *)

Coordinators == <<assign, hostMap, checker, seen, ckPc, readTime, rebalanceVars, undisturbed>>

WriteTask(t) ==
    /\ Event
    /\ stored' = stored \cup {t}
    /\ taskTime' = taskTime + 1
    /\ deleted' = deleted \ {t}
    /\ UNCHANGED <<hostVars, lists, Coordinators>>

DeleteTask(t) ==
    /\ Event
    /\ t \in stored
    /\ stored' = stored \ {t}
    /\ deleted' = deleted \cup {t}
    /\ UNCHANGED <<taskTime, hostVars, lists, Coordinators>>

AnnounceDelete(t) ==
    /\ t \in deleted
    /\ taskTime' = taskTime + 1
    /\ deleted' = deleted \ {t}
    /\ UNCHANGED <<stored, hostVars, bounded, Coordinators>>

-----------------------------------------------------------------------------
(* The score of a task: less than 1 for more than 60 minutes or 120        *)
(* seconds.  An interval in milliseconds has none, score throws.           *)
Score == [t \in Tasks |->
             CASE Interval[t].unit = "minutes" -> 61 - Interval[t].value
               [] Interval[t].unit = "seconds" -> 121 - Interval[t].value
               [] OTHER -> 1]

CannotScore(tasks) == \E t \in tasks : Interval[t].unit = "milliseconds"

(* ScoreBalancingAlgorithm.rebalance: each task in turn goes to the first  *)
(* host of a list that is kept sorted by load.  The sort is stable: a host *)
(* that was first stays before those it now equals.  So of the least       *)
(* loaded hosts that one is first that was given a task last, and, as long *)
(* as none was, the one with the smallest guid.                            *)

StartShares(hosts) ==
    [load |-> [h \in hosts |-> 0], turn |-> [h \in hosts |-> -h], map |-> Nobody]

FirstOf(hosts, s) ==
    LET least == {h \in hosts : \A g \in hosts : s.load[h] <= s.load[g]}
    IN  CHOOSE h \in least : \A g \in least : s.turn[g] <= s.turn[h]

Give(s, t, h) ==
    [load |-> [s.load EXCEPT ![h] = @ + Score[t]],
     turn |-> [s.turn EXCEPT ![h] = t],
     map  |-> [s.map EXCEPT ![t] = h]]

(* What the hosts have after each of the tasks.                            *)
Shares(hosts, tasks) ==
    LET shares[t \in 0 .. NumTasks] ==
            IF t = 0 THEN StartShares(hosts)
            ELSE LET s == shares[t - 1]
                 IN  IF t \in tasks THEN Give(s, t, FirstOf(hosts, s)) ELSE s
    IN  shares

Rebalance(hosts, tasks) == Shares(hosts, tasks)[NumTasks].map

-----------------------------------------------------------------------------
(* rebalanceAssignments                                                    *)

CoordinatorIdle == <<hostVars, bounded, taskVars, hostMap, checker, seen, ckPc, readTime>>

ReadAssignments(h) ==
    /\ h \in up /\ rbPc[h] = "assignments"
    /\ old' = [old EXCEPT ![h] = assign]
    /\ undisturbed' = undisturbed \cup {h}
    /\ rbPc' = [rbPc EXCEPT ![h] = "tasks"]
    /\ UNCHANGED <<CoordinatorIdle, assign, holder, new, toRemove, toSet>>

(* The tasks are read and the difference is taken.  An assignment that     *)
(* differs is removed before it is set.                                    *)
ReadTasks(h) ==
    LET plan == Rebalance(hostMap[h], stored)
    IN  /\ h \in up /\ rbPc[h] = "tasks"
        /\ ~CannotScore(stored) /\ (hostMap[h] # {} \/ stored = {})
        /\ new' = [new EXCEPT ![h] = plan]
        /\ toRemove' = [toRemove EXCEPT ![h] = {t \in Tasks : old[h][t] \notin {NoHost, plan[t]}}]
        /\ toSet' = [toSet EXCEPT ![h] = {t \in stored : old[h][t] # plan[t]}]
        /\ old' = [old EXCEPT ![h] = Nobody]
        /\ rbPc' = [rbPc EXCEPT ![h] = "save"]
        /\ UNCHANGED <<CoordinatorIdle, assign, holder, undisturbed>>

(* saveChangesToAssignmentTable, one key at a time.                        *)
WriteAssignment(h, t) ==
    /\ h \in up /\ rbPc[h] = "save"
    /\ \/ /\ t \in toRemove[h]
          /\ toRemove' = [toRemove EXCEPT ![h] = @ \ {t}]
          /\ assign' = [assign EXCEPT ![t] = NoHost]
          /\ UNCHANGED toSet
       \/ /\ t \in toSet[h] \ toRemove[h]
          /\ toSet' = [toSet EXCEPT ![h] = @ \ {t}]
          /\ assign' = [assign EXCEPT ![t] = new[h][t]]
          /\ UNCHANGED toRemove
    /\ undisturbed' = undisturbed \cap {h}
    /\ UNCHANGED <<CoordinatorIdle, holder, rbPc, old, new>>

LeaveLock(h) ==
    /\ holder' = [holder EXCEPT ![h] = "nobody"]
    /\ rbPc' = [rbPc EXCEPT ![h] = "off"]
    /\ old' = [old EXCEPT ![h] = Nobody] /\ new' = [new EXCEPT ![h] = Nobody]
    /\ toRemove' = [toRemove EXCEPT ![h] = {}] /\ toSet' = [toSet EXCEPT ![h] = {}]

EndChecker(h) ==
    /\ ckPc' = [ckPc EXCEPT ![h] = "idle"]
    /\ readTime' = [readTime EXCEPT ![h] = 0]

(* Mutated form: the time is read again after the rebalance.               *)
EndRebalanceLate(h) ==
    /\ h \in up /\ rbPc[h] = "save" /\ toRemove[h] = {} /\ toSet[h] = {}
    /\ LeaveLock(h)
    /\ IF holder[h] = "ck"
       THEN /\ seen' = [seen EXCEPT ![h] = taskTime]
            /\ EndChecker(h) /\ UNCHANGED hostVars
       ELSE EndPost(h) /\ UNCHANGED <<seen, ckPc, readTime>>
    /\ UNCHANGED <<bounded, taskVars, assign, hostMap, checker, undisturbed>>

(* The rebalance is over: checkAssignmentChanges remembers the time it had *)
(* read, HostManager goes on.                                              *)
EndRebalance(h) ==
    /\ h \in up /\ rbPc[h] = "save" /\ toRemove[h] = {} /\ toSet[h] = {}
    /\ LeaveLock(h)
    /\ IF holder[h] = "ck"
       THEN /\ seen' = [seen EXCEPT ![h] = readTime[h]]
            /\ EndChecker(h) /\ UNCHANGED hostVars
       ELSE EndPost(h) /\ UNCHANGED <<seen, ckPc, readTime>>
    /\ UNCHANGED <<bounded, taskVars, assign, hostMap, checker, undisturbed>>

(* The rebalance ends in an exception: there are tasks and no hosts yet, a *)
(* task has no score, or the key store fails.  The checker tries again     *)
(* after a RollUpException, while any other ends its schedule for good; an *)
(* event is not handled again.                                             *)
RebalanceFails(h, runtime) ==
    /\ h \in up /\ rbPc[h] # "off"
    /\ \/ Event
       \/ /\ runtime /\ rbPc[h] = "tasks"
          /\ CannotScore(stored) \/ (hostMap[h] = {} /\ stored # {})
          /\ UNCHANGED events
    /\ LeaveLock(h)
    /\ undisturbed' = undisturbed \ {h}
    /\ IF holder[h] = "ck"
       THEN /\ EndChecker(h)
            /\ checker' = [checker EXCEPT ![h] = IF runtime /\ @ = "on" THEN "dead" ELSE @]
            /\ UNCHANGED hostVars
       ELSE EndPost(h) /\ UNCHANGED <<ckPc, readTime, checker>>
    /\ UNCHANGED <<lists, taskVars, assign, hostMap, seen>>

-----------------------------------------------------------------------------
(* checkAssignmentChanges                                                  *)

StartChecker(h) ==
    /\ h \in up /\ checker[h] = "on" /\ ckPc[h] = "idle"
    /\ seen[h] # taskTime
    /\ readTime' = [readTime EXCEPT ![h] = taskTime]
    /\ ckPc' = [ckPc EXCEPT ![h] = "lock"]
    /\ UNCHANGED <<hostVars, bounded, taskVars, assign, hostMap, checker, seen, rebalanceVars, undisturbed>>

TakeLock(h, who) ==
    /\ holder[h] = "nobody"
    /\ holder' = [holder EXCEPT ![h] = who]
    /\ rbPc' = [rbPc EXCEPT ![h] = "assignments"]

LockChecker(h) ==
    /\ h \in up /\ ckPc[h] = "lock"
    /\ TakeLock(h, "ck")
    /\ ckPc' = [ckPc EXCEPT ![h] = "rebalance"]
    /\ UNCHANGED <<hostVars, bounded, taskVars, assign, hostMap, checker, seen, readTime, old, new, toRemove,
                   toSet, undisturbed>>

-----------------------------------------------------------------------------
(* The subscribers of the events of HostManager                            *)

Unaffected == <<taskVars, assign, seen, ckPc, readTime, undisturbed, events>>

(* Mutated form: a cancelled checker is kept in m_coordinatorTaskFuture.   *)
CoordinatorKept(h, hosts) ==
    /\ lists < MaxLists /\ lists' = lists + 1
    /\ PostCoordinator(h, hosts)
    /\ checker' = [checker EXCEPT ![h] = IF isCoordinator'[h] /\ ~isCoordinator[h] THEN "on" ELSE @]
    /\ UNCHANGED <<Unaffected, hostMap, rebalanceVars>>

(* coordinatorChanged: the checker is started at once, or cancelled        *)
(* without interrupting a check that is under way.                         *)
CoordinatorChanged(h, hosts) ==
    /\ lists < MaxLists /\ lists' = lists + 1
    /\ PostCoordinator(h, hosts)
    /\ checker' = [checker EXCEPT ![h] = CASE isCoordinator'[h] /\ ~isCoordinator[h] -> "on"
                                           [] ~isCoordinator'[h] -> "none"
                                           [] OTHER -> @]
    /\ UNCHANGED <<Unaffected, hostMap, rebalanceVars>>

(* hostListChange: the new hosts, then a rebalance if this server is the   *)
(* coordinator.                                                            *)
HostListChange(h) ==
    /\ PostHosts(h)
    /\ hostMap' = [hostMap EXCEPT ![h] = list[h]]
    /\ UNCHANGED <<Unaffected, lists, checker, rebalanceVars>>

LockHostChange(h) ==
    /\ h \in up /\ stage[h] = "posting" /\ checker[h] # "none" /\ holder[h] # "hm"
    /\ TakeLock(h, "hm")
    /\ UNCHANGED <<hostVars, Unaffected, lists, hostMap, checker, old, new, toRemove, toSet>>

IgnoreHostChange(h) ==
    /\ checker[h] = "none"
    /\ EndPost(h)
    /\ UNCHANGED <<Unaffected, lists, hostMap, checker, rebalanceVars>>

CrashHost(h) ==
    /\ Event
    /\ Crash(h)
    /\ hostMap' = [hostMap EXCEPT ![h] = {}]
    /\ checker' = [checker EXCEPT ![h] = "none"]
    /\ seen' = [seen EXCEPT ![h] = 0]
    /\ EndChecker(h)
    /\ LeaveLock(h)
    /\ undisturbed' = undisturbed \ {h}
    /\ UNCHANGED <<lists, taskVars, assign>>

RestartHost(h) ==
    /\ Restart(h)
    /\ UNCHANGED <<Unaffected, lists, hostMap, checker, rebalanceVars>>

RebalanceStep(h) ==
    \/ ReadAssignments(h) \/ ReadTasks(h) \/ EndRebalance(h)
    \/ \E t \in Tasks : WriteAssignment(h, t)

HostThread(h) ==
    \/ HostListChange(h) \/ IgnoreHostChange(h) \/ LockHostChange(h)
    \/ holder[h] = "hm" /\ RebalanceStep(h)

CheckerThread(h) ==
    \/ StartChecker(h) \/ LockChecker(h)
    \/ holder[h] = "ck" /\ RebalanceStep(h)

Next ==
    \/ \E h \in Hosts : HostThread(h) \/ CheckerThread(h) \/ CrashHost(h) \/ RestartHost(h)
    \/ \E h \in Hosts, hosts \in SUBSET Hosts : CoordinatorChanged(h, hosts)
    \/ \E h \in Hosts, runtime \in BOOLEAN : RebalanceFails(h, runtime)
    \/ \E t \in Tasks : WriteTask(t) \/ DeleteTask(t) \/ AnnounceDelete(t)

Spec == Init /\ [][Next]_vars

-----------------------------------------------------------------------------
(* Properties                                                              *)

(* The state of every server is what its threads can be in; the lock is    *)
(* held by the thread that rebalances, and only a coordinator has a        *)
(* checker.                                                                *)
TypeOK ==
    /\ stored \subseteq Tasks /\ deleted \subseteq Tasks \ stored
    /\ taskTime \in Nat
    /\ assign \in [Tasks -> Hosts \cup {NoHost}]
    /\ hostMap \in [Hosts -> SUBSET Hosts]
    /\ checker \in [Hosts -> {"none", "on", "dead"}]
    /\ \A h \in Hosts :
         /\ isCoordinator[h] <=> checker[h] # "none"
         /\ holder[h] = "hm" => stage[h] = "posting"
         /\ holder[h] = "ck" <=> ckPc[h] = "rebalance"
         /\ holder[h] = "nobody" <=> rbPc[h] = "off"

(* What the tasks up to each weigh on a host, and all of them.             *)
Totals(h, weight) ==
    LET sum[t \in 0 .. NumTasks] ==
            IF t = 0 THEN 0
            ELSE sum[t - 1] + (IF assign[t] = h THEN weight[t] ELSE 0)
    IN  sum
Total(h, weight) == Totals(h, weight)[NumTasks]

Load(h) == Total(h, Score)

(* The load of a host without the tasks that a score below 0 takes off it. *)
Burden(h) == Total(h, [t \in Tasks |-> IF Score[t] > 0 THEN Score[t] ELSE 0])

(* What the coordinator achieves: each task has one of the hosts it knows  *)
(* of, what is gone has none, and what the load of a host exceeds the      *)
(* burden of another by is at most the score of one of its tasks.  Without *)
(* scores below 0 this is said of the loads of both.                       *)
SharedOut(hosts) ==
    /\ \A t \in Tasks : assign[t] # NoHost <=> t \in stored
    /\ \A t \in stored : assign[t] \in hosts
    /\ \A g, h \in hosts : Load(g) > Burden(h) =>
           \E t \in stored : assign[t] = g /\ Load(g) - Burden(h) <= Score[t]

AtRest(h) == h \in up /\ stage[h] = "quiet" /\ holder[h] = "nobody"

(* A coordinator that has seen the latest change of the tasks.             *)
UpToDate(h) == AtRest(h) /\ checker[h] # "none" /\ seen[h] = taskTime /\ deleted = {}

(* A coordinator that has seen the latest change of the tasks has shared   *)
(* them out among the hosts it remembers, whatever its two threads and the *)
(* users did in which order.  Excepted are a rebalance that failed in the  *)
(* thread of HostManager, which nobody repeats, one over which another     *)
(* server that believed to be coordinator has written, and deletions that  *)
(* were not announced.                                                     *)
CoordinatorSharesOut ==
    \A h \in undisturbed : UpToDate(h) => SharedOut(active[h])
=============================================================================
