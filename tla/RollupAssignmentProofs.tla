----------------------- MODULE RollupAssignmentProofs -----------------------
(***************************************************************************)
(* The balancing does what the coordinator wants of it, for every number   *)
(* of tasks and hosts and all intervals, and a coordinator at rest that    *)
(* nobody has disturbed has assigned the tasks accordingly.                *)
(*                                                                         *)
(* The balancing and the load of a host are recursive functions.  What is  *)
(* said of each of their values rests on the least element of a set of     *)
(* natural numbers (Least), and so does that they are functions at all:    *)
(* the recursion is built up step by step (SharesRecursive,                *)
(* TotalsRecursive).                                                       *)
(*                                                                         *)
(* The invariant follows a rebalance.  While its plan is written, what is  *)
(* not in the difference any more is as planned (Saves).  The plan was     *)
(* made for some hosts and tasks (Planned); they are those the server      *)
(* knows of as long as it has not learned of others (HostsKnown), and      *)
(* those that are stored, unannounced deletions aside, as long as the time *)
(* of the table of tasks is the one it remembers (TasksKnown).             *)
(***************************************************************************)
EXTENDS RollupAssignment, FiniteSetTheorems, WellFoundedInduction, TLAPS

Plans == [Tasks -> Hosts \cup {NoHost}]

(* What the threads of a server can be in at once.                         *)
ServerInv(h) ==
    /\ isCoordinator[h] <=> checker[h] # "none"
    /\ holder[h] = "hm" => stage[h] = "posting" /\ checker[h] # "none"
    /\ holder[h] = "ck" <=> ckPc[h] = "rebalance"
    /\ holder[h] = "nobody" <=> rbPc[h] = "off"
    /\ seen[h] <= taskTime /\ readTime[h] <= taskTime
    /\ hostMap[h] = IF stage[h] = "posting" THEN list[h] ELSE active[h]

TaskTypes ==
    /\ stored \subseteq Tasks /\ deleted \subseteq Tasks \ stored
    /\ taskTime \in Nat /\ assign \in Plans

HostTypes ==
    /\ up \subseteq Hosts
    /\ active \in [Hosts -> SUBSET Hosts] /\ list \in [Hosts -> SUBSET Hosts]
    /\ isCoordinator \in [Hosts -> BOOLEAN]
    /\ stage \in [Hosts -> {"quiet", "changed", "posting"}]
    /\ hostMap \in [Hosts -> SUBSET Hosts]

CheckerTypes ==
    /\ checker \in [Hosts -> {"none", "on", "dead"}]
    /\ seen \in [Hosts -> Nat] /\ readTime \in [Hosts -> Nat]
    /\ ckPc \in [Hosts -> {"idle", "lock", "rebalance"}]

RebalanceTypes ==
    /\ undisturbed \subseteq Hosts
    /\ holder \in [Hosts -> {"nobody", "hm", "ck"}]
    /\ rbPc \in [Hosts -> {"off", "assignments", "tasks", "save"}]
    /\ old \in [Hosts -> Plans] /\ new \in [Hosts -> Plans]
    /\ toRemove \in [Hosts -> SUBSET Tasks] /\ toSet \in [Hosts -> SUBSET Tasks]

Types == TaskTypes /\ HostTypes /\ CheckerTypes /\ RebalanceTypes

TypeInv == Types /\ \A h \in Hosts : ServerInv(h)

(* The last plan of a server is for the hosts it knows, unless it has      *)
(* learned of others and not shared out the tasks yet.                     *)
HostsKnown(h) == checker[h] # "none" /\ (stage[h] = "quiet" \/ holder[h] = "hm")

(* It is for the stored tasks, deletions that are not announced aside, if  *)
(* nothing was announced since the time the server remembers or has read.  *)
TasksKnown(h) == seen[h] = taskTime \/ (holder[h] = "ck" /\ readTime[h] = taskTime)

Planned(h, plan) ==
    \E hosts \in SUBSET Hosts, tasks \in SUBSET Tasks :
        /\ hosts # {} \/ tasks = {}
        /\ plan = Rebalance(hosts, tasks)
        /\ HostsKnown(h) => hosts = hostMap[h]
        /\ TasksKnown(h) => stored \subseteq tasks /\ tasks \subseteq stored \cup deleted

(* What is not in the difference any more is as planned.                   *)
Saves(h) ==
    \A t \in Tasks :
        /\ t \notin toRemove[h] \cup toSet[h] => assign[t] = new[h][t]
        /\ t \in toRemove[h] \ toSet[h] => new[h][t] = NoHost

ServerPlan(h) ==
    /\ rbPc[h] = "off" => Planned(h, assign)
    /\ rbPc[h] = "tasks" => old[h] = assign
    /\ rbPc[h] = "save" => Planned(h, new[h]) /\ Saves(h)

PlanInv == \A h \in undisturbed : ServerPlan(h)
-----------------------------------------------------------------------------
(* A set of natural numbers has a least element: induction for what is     *)
(* said of one number after the other.                                     *)
LEMMA Least ==
    ASSUME NEW S \in SUBSET Nat, S # {}
    PROVE  \E m \in S : \A n \in S : m <= n
<1>1. IsWellFoundedOn(OpToRel(<, Nat), Nat)
  BY NatLessThanWellFounded
<1>2. PICK m \in S : \A n \in S : ~(<<n, m>> \in OpToRel(<, Nat))
  BY <1>1, WFMin
<1>3. \A n \in S : ~(n < m)
  BY <1>2 DEF OpToRel
<1> QED
  BY <1>3

(* What is said of 0, and of t if it is said of t - 1, is said of all.     *)
LEMMA UpTo ==
    ASSUME NEW N \in Nat, NEW S \in SUBSET (0 .. N), 0 \in S,
           \A t \in 1 .. N : t - 1 \in S => t \in S
    PROVE  S = 0 .. N
<1> SUFFICES ASSUME (0 .. N) \ S # {} PROVE FALSE
  OBVIOUS
<1>1. PICK m \in (0 .. N) \ S : \A n \in (0 .. N) \ S : m <= n
  <2>1. (0 .. N) \ S \in SUBSET Nat
    OBVIOUS
  <2> QED
    BY <2>1, Least
<1>2. m \in 1 .. N /\ m - 1 \in 0 .. N /\ ~(m <= m - 1)
  BY <1>1
<1> QED
  BY <1>1, <1>2

-----------------------------------------------------------------------------
(* The balancing.                                                          *)

AfterTask(hosts, tasks, s, t) ==
    IF t \notin tasks THEN s ELSE Give(s, t, FirstOf(hosts, s))

SharesUpTo(hosts, tasks, n, f) ==
    f = [t \in 0 .. n |-> IF t = 0 THEN StartShares(hosts)
                          ELSE AfterTask(hosts, tasks, f[t - 1], t)]

(* The recursion of Shares is well founded.                                *)
LEMMA SharesRecursive ==
    ASSUME NEW hosts, NEW tasks
    PROVE  SharesUpTo(hosts, tasks, NumTasks, Shares(hosts, tasks))
<1> DEFINE S == {n \in 0 .. NumTasks : \E f : SharesUpTo(hosts, tasks, n, f)}
<1>1. 0 \in S
  <2>1. SharesUpTo(hosts, tasks, 0, [t \in 0 .. 0 |-> StartShares(hosts)])
    BY DEF SharesUpTo
  <2> QED
    BY <2>1, TasksAssumption
<1>2. ASSUME NEW n \in 1 .. NumTasks, n - 1 \in S
      PROVE  n \in S
  <2>1. PICK f : SharesUpTo(hosts, tasks, n - 1, f)
    BY <1>2
  <2> DEFINE g == [t \in 0 .. n |-> IF t = n THEN AfterTask(hosts, tasks, f[n - 1], n)
                                    ELSE f[t]]
  <2>2. \A t \in 0 .. n - 1 : g[t] = f[t]
    OBVIOUS
  <2>3. \A t \in 0 .. n - 1 : f[t] = IF t = 0 THEN StartShares(hosts)
                                     ELSE AfterTask(hosts, tasks, f[t - 1], t)
    BY <2>1 DEF SharesUpTo
  <2>4. \A t \in 0 .. n : g[t] = IF t = 0 THEN StartShares(hosts)
                                 ELSE AfterTask(hosts, tasks, g[t - 1], t)
    <3> SUFFICES ASSUME NEW t \in 0 .. n
                 PROVE  g[t] = IF t = 0 THEN StartShares(hosts)
                               ELSE AfterTask(hosts, tasks, g[t - 1], t)
      OBVIOUS
    <3>1. CASE t = n
      <4>1. t # 0 /\ n - 1 \in 0 .. n - 1
        BY <3>1
      <4>2. g[t] = AfterTask(hosts, tasks, f[n - 1], n) /\ g[n - 1] = f[n - 1]
        BY <2>2, <3>1, <4>1
      <4> QED
        BY <3>1, <4>1, <4>2
    <3>2. CASE t # n
      <4>1. t \in 0 .. n - 1 /\ (t # 0 => t - 1 \in 0 .. n - 1)
        BY <3>2
      <4>2. g[t] = f[t] /\ (t # 0 => g[t - 1] = f[t - 1])
        BY <2>2, <4>1
      <4> QED
        BY <2>3, <4>1, <4>2
    <3> QED
      BY <3>1, <3>2
  <2>5. SharesUpTo(hosts, tasks, n, g)
    <3> HIDE DEF g
    <3>1. g = [t \in 0 .. n |-> g[t]]
      BY DEF g
    <3> QED
      BY <2>4, <3>1 DEF SharesUpTo
  <2> QED
    BY <2>5
<1>3. NumTasks \in S
  <2> HIDE DEF S
  <2>1. S \subseteq 0 .. NumTasks
    BY DEF S
  <2> QED
    BY <1>1, <1>2, <2>1, UpTo, TasksAssumption
<1>4. Shares(hosts, tasks) = CHOOSE f : SharesUpTo(hosts, tasks, NumTasks, f)
  BY DEF Shares, SharesUpTo, AfterTask
<1> QED
  BY <1>3, <1>4

LEMMA ScoreType == Score \in [Tasks -> Int]
<1>1. ASSUME NEW t \in Tasks PROVE Score[t] \in Int
  <2>1. Interval[t].value \in Nat
    BY IntervalAssumption
  <2>2. 61 - Interval[t].value \in Int /\ 121 - Interval[t].value \in Int
    BY <2>1
  <2> QED
    BY <2>2 DEF Score
<1> QED
  BY <1>1 DEF Score

(* The first host is one of the least loaded.                              *)
LEMMA FirstOfLeast ==
    ASSUME NEW hosts \in SUBSET Hosts, hosts # {}, NEW s,
           s.load \in [hosts -> Int], s.turn \in [hosts -> Int],
           \A h \in hosts : s.turn[h] <= NumTasks,
           NEW b \in Int, \A h \in hosts : b <= s.load[h]
    PROVE  FirstOf(hosts, s) \in hosts
           /\ \A g \in hosts : s.load[FirstOf(hosts, s)] <= s.load[g]
<1> DEFINE least == {h \in hosts : \A g \in hosts : s.load[h] <= s.load[g]}
<1>1. \E h \in hosts : \A g \in hosts : s.load[h] <= s.load[g]
  <2>1. {s.load[h] - b : h \in hosts} \in SUBSET Nat /\ {s.load[h] - b : h \in hosts} # {}
    OBVIOUS
  <2>2. PICK m \in {s.load[h] - b : h \in hosts} :
            \A n \in {s.load[h] - b : h \in hosts} : m <= n
    BY <2>1, Least
  <2>3. PICK h \in hosts : m = s.load[h] - b
    BY <2>2
  <2>4. \A g \in hosts : s.load[g] \in Int /\ s.load[h] - b <= s.load[g] - b
    BY <2>2, <2>3
  <2> QED
    BY <2>3, <2>4
<1>2. \E h \in least : \A g \in least : s.turn[g] <= s.turn[h]
  <2>1. {NumTasks - s.turn[h] : h \in least} \in SUBSET Nat
        /\ {NumTasks - s.turn[h] : h \in least} # {}
    BY <1>1, TasksAssumption
  <2>2. PICK m \in {NumTasks - s.turn[h] : h \in least} :
            \A n \in {NumTasks - s.turn[h] : h \in least} : m <= n
    BY <2>1, Least
  <2>3. PICK h \in least : m = NumTasks - s.turn[h]
    BY <2>2
  <2>4. \A g \in least : s.turn[g] \in Int /\ NumTasks - s.turn[h] <= NumTasks - s.turn[g]
    BY <2>2, <2>3
  <2> QED
    BY <2>3, <2>4, TasksAssumption
<1>3. FirstOf(hosts, s) \in least
  <2> HIDE DEF least
  <2>1. FirstOf(hosts, s) = CHOOSE h \in least : \A g \in least : s.turn[g] <= s.turn[h]
    BY DEF FirstOf, least
  <2> QED
    BY <1>2, <2>1
<1> QED
  BY <1>3

(* The hosts after the tasks up to t: each task has a host, no other has.  *)
SharesOK(hosts, tasks, s, t) ==
    /\ s.load \in [hosts -> Int] /\ s.turn \in [hosts -> Int] /\ s.map \in Plans
    /\ \E b \in Int : \A h \in hosts : b <= s.load[h]
    /\ \A h \in hosts : s.turn[h] <= t
    /\ \A u \in Tasks : IF u \in tasks /\ u <= t THEN s.map[u] \in hosts ELSE s.map[u] = NoHost

LEMMA FirstOfShares ==
    ASSUME NEW hosts \in SUBSET Hosts, NEW tasks, hosts # {}, NEW t \in Nat, t <= NumTasks,
           NEW s, SharesOK(hosts, tasks, s, t)
    PROVE  FirstOf(hosts, s) \in hosts
           /\ \A g \in hosts : s.load[FirstOf(hosts, s)] <= s.load[g]
<1>1. PICK b \in Int : \A h \in hosts : b <= s.load[h]
  BY DEF SharesOK
<1>2. \A h \in hosts : s.turn[h] \in Int /\ s.turn[h] <= t
  BY DEF SharesOK
<1>3. \A h \in hosts : s.turn[h] <= NumTasks
  BY <1>2, TasksAssumption
<1>4. s.load \in [hosts -> Int] /\ s.turn \in [hosts -> Int]
  BY DEF SharesOK
<1> QED
  BY <1>1, <1>3, <1>4, FirstOfLeast

LEMMA GiveOK ==
    ASSUME NEW hosts \in SUBSET Hosts, NEW tasks \in SUBSET Tasks, hosts # {},
           NEW t \in tasks, NEW s, SharesOK(hosts, tasks, s, t - 1),
           NEW n, n = AfterTask(hosts, tasks, s, t)
    PROVE  SharesOK(hosts, tasks, n, t)
<1> DEFINE f == FirstOf(hosts, s)
<1>1. t \in Nat /\ t - 1 \in Int /\ t <= NumTasks /\ NumTasks \in Nat /\ Score[t] \in Int
  BY TasksAssumption, ScoreType DEF Tasks
<1>2. f \in hosts /\ \A g \in hosts : s.load[f] <= s.load[g]
  <2>1. t - 1 \in Nat /\ t - 1 <= NumTasks
    BY TasksAssumption DEF Tasks
  <2> QED
    BY <2>1, FirstOfShares
<1>3. n = Give(s, t, f)
  BY DEF AfterTask
<1>4. /\ n.load = [s.load EXCEPT ![f] = @ + Score[t]]
      /\ n.turn = [s.turn EXCEPT ![f] = t] /\ n.map = [s.map EXCEPT ![t] = f]
  BY <1>3 DEF Give
<1> HIDE DEF f
<1>5. /\ s.load \in [hosts -> Int] /\ s.turn \in [hosts -> Int] /\ s.map \in Plans
      /\ \A h \in hosts : s.turn[h] <= t - 1 /\ s.turn[h] \in Int
      /\ \A u \in Tasks : IF u \in tasks /\ u <= t - 1 THEN s.map[u] \in hosts
                                                       ELSE s.map[u] = NoHost
  BY DEF SharesOK
<1>6. /\ n.map[t] = f /\ \A u \in Tasks \ {t} : n.map[u] = s.map[u]
      /\ n.load[f] = s.load[f] + Score[t] /\ \A h \in hosts \ {f} : n.load[h] = s.load[h]
      /\ n.load \in [hosts -> Int]
  BY <1>1, <1>2, <1>4, <1>5 DEF Plans
<1>7. n.turn \in [hosts -> Int] /\ \A h \in hosts : n.turn[h] <= t
  BY <1>1, <1>2, <1>4, <1>5
<1>8. n.map \in Plans
  BY <1>2, <1>4, <1>5 DEF Plans
<1>9. \A u \in Tasks : IF u \in tasks /\ u <= t THEN n.map[u] \in hosts ELSE n.map[u] = NoHost
  <2> SUFFICES ASSUME NEW u \in Tasks
               PROVE  IF u \in tasks /\ u <= t THEN n.map[u] \in hosts ELSE n.map[u] = NoHost
    OBVIOUS
  <2>1. CASE u = t
    BY <1>1, <1>2, <1>6, <2>1
  <2>2. CASE u # t
    <3>1. u <= t <=> u <= t - 1
      BY <1>1, <2>2 DEF Tasks
    <3> QED
      BY <1>5, <1>6, <2>2, <3>1
  <2> QED
    BY <2>1, <2>2
<1>10. \E b \in Int : \A h \in hosts : b <= n.load[h]
  <2>1. PICK b \in Int : \A h \in hosts : b <= s.load[h]
    BY DEF SharesOK
  <2> DEFINE c == IF Score[t] > 0 THEN b ELSE b + Score[t]
  <2>2. c \in Int /\ c <= b /\ c <= b + Score[t]
    BY <1>1
  <2>3. ASSUME NEW h \in hosts PROVE c <= n.load[h]
    <3>1. s.load[h] \in Int /\ b <= s.load[h]
      BY <1>5, <2>1
    <3>2. n.load[h] = s.load[h] \/ n.load[h] = s.load[h] + Score[t]
      BY <1>6
    <3> HIDE DEF c
    <3> QED
      BY <1>1, <2>2, <3>1, <3>2
  <2> QED
    BY <2>2, <2>3
<1> QED
  BY <1>6, <1>7, <1>8, <1>9, <1>10 DEF SharesOK

(* A task that is not stored is passed over.                               *)
LEMMA PassOK ==
    ASSUME NEW hosts \in SUBSET Hosts, NEW tasks \in SUBSET Tasks,
           NEW t \in Tasks \ tasks, NEW s, SharesOK(hosts, tasks, s, t - 1)
    PROVE  SharesOK(hosts, tasks, s, t) /\ s.map[t] = NoHost
<1>1. t \in Nat /\ t - 1 \in Int /\ \A u \in tasks : u \in Nat /\ (u <= t - 1 <=> u <= t)
  BY DEF Tasks
<1>2. \A h \in hosts : s.turn[h] \in Int
  BY DEF SharesOK
<1>3. \A h \in hosts : s.turn[h] <= t
  BY <1>1, <1>2 DEF SharesOK
<1>4. \A u \in Tasks : IF u \in tasks /\ u <= t THEN s.map[u] \in hosts ELSE s.map[u] = NoHost
  BY <1>1 DEF SharesOK
<1> QED
  BY <1>3, <1>4 DEF SharesOK

LEMMA SharesStep ==
    ASSUME NEW hosts, NEW tasks
    PROVE  /\ Shares(hosts, tasks)[0] = StartShares(hosts)
           /\ \A t \in 1 .. NumTasks :
                  Shares(hosts, tasks)[t] = AfterTask(hosts, tasks, Shares(hosts, tasks)[t - 1], t)
<1> DEFINE f == Shares(hosts, tasks)
<1>1. f = [t \in 0 .. NumTasks |-> IF t = 0 THEN StartShares(hosts)
                                   ELSE AfterTask(hosts, tasks, f[t - 1], t)]
  BY SharesRecursive DEF SharesUpTo
<1> HIDE DEF f
<1>2. \A t \in 0 .. NumTasks : f[t] = IF t = 0 THEN StartShares(hosts)
                                      ELSE AfterTask(hosts, tasks, f[t - 1], t)
  BY <1>1
<1>3. f[0] = StartShares(hosts)
  BY <1>2, TasksAssumption
<1>4. \A t \in 1 .. NumTasks : f[t] = AfterTask(hosts, tasks, f[t - 1], t)
  BY <1>2, TasksAssumption
<1> QED
  BY <1>3, <1>4 DEF f

LEMMA SharesAll ==
    ASSUME NEW hosts \in SUBSET Hosts, NEW tasks \in SUBSET Tasks, hosts # {} \/ tasks = {},
           NEW t \in 0 .. NumTasks
    PROVE  SharesOK(hosts, tasks, Shares(hosts, tasks)[t], t)
<1> DEFINE f == Shares(hosts, tasks)
           S == {n \in 0 .. NumTasks : SharesOK(hosts, tasks, f[n], n)}
<1>1. 0 \in S
  <2>1. \A h \in hosts : h \in Nat /\ -h \in Int /\ -h <= 0
    BY HostsAssumption
  <2>2. StartShares(hosts).load \in [hosts -> Int] /\ StartShares(hosts).turn \in [hosts -> Int]
        /\ (\A h \in hosts : StartShares(hosts).turn[h] <= 0 /\ StartShares(hosts).load[h] = 0)
    BY <2>1 DEF StartShares
  <2>3. StartShares(hosts).map = Nobody /\ Nobody \in Plans /\ \A u \in Tasks : Nobody[u] = NoHost
    BY DEF StartShares, Nobody, Plans
  <2>4. (\A u \in tasks : ~(u <= 0)) /\ \E b \in Int : \A h \in hosts : b <= StartShares(hosts).load[h]
    BY <2>2 DEF Tasks
  <2>5. SharesOK(hosts, tasks, StartShares(hosts), 0)
    <3> HIDE DEF f
    <3> QED
      BY <2>2, <2>3, <2>4 DEF SharesOK
  <2> QED
    BY <2>5, SharesStep, TasksAssumption
<1>2. ASSUME NEW n \in 1 .. NumTasks, n - 1 \in S
      PROVE  n \in S
  <2> HIDE DEF f
  <2>1. f[n] = AfterTask(hosts, tasks, f[n - 1], n)
    BY SharesStep DEF f
  <2>2. SharesOK(hosts, tasks, f[n - 1], n - 1)
    BY <1>2
  <2>3. CASE n \in tasks
    <3>1. hosts # {}
      BY <2>3
    <3>2. SharesOK(hosts, tasks, f[n], n)
      BY <2>1, <2>2, <2>3, <3>1, GiveOK
    <3> QED
      BY <3>2, TasksAssumption
  <2>4. CASE n \notin tasks
    <3>1. n \in Tasks \ tasks
      BY <2>4 DEF Tasks
    <3>2. SharesOK(hosts, tasks, f[n - 1], n)
      BY <2>2, <3>1, PassOK
    <3> QED
      BY <2>1, <2>4, <3>2, TasksAssumption DEF AfterTask
  <2> QED
    BY <2>3, <2>4
<1>3. S = 0 .. NumTasks
  <2> HIDE DEF S
  <2>1. S \subseteq 0 .. NumTasks
    BY DEF S
  <2> QED
    BY <1>1, <1>2, <2>1, UpTo, TasksAssumption
<1> QED
  BY <1>3

(* What a task was given it keeps.                                         *)
LEMMA SharesKept ==
    ASSUME NEW hosts \in SUBSET Hosts, NEW tasks \in SUBSET Tasks, hosts # {} \/ tasks = {},
           NEW u \in Tasks
    PROVE  Rebalance(hosts, tasks)[u] = Shares(hosts, tasks)[u].map[u]
<1> DEFINE f == Shares(hosts, tasks)
           S == {n \in 0 .. NumTasks : u <= n => f[n].map[u] = f[u].map[u]}
<1>1. 0 \in S
  BY TasksAssumption DEF Tasks
<1>2. ASSUME NEW n \in 1 .. NumTasks, n - 1 \in S
      PROVE  n \in S
  <2> HIDE DEF f
  <2>1. f[n] = AfterTask(hosts, tasks, f[n - 1], n)
    BY SharesStep DEF f
  <2>2. n - 1 \in 0 .. NumTasks
    BY TasksAssumption
  <2>3. SharesOK(hosts, tasks, f[n - 1], n - 1)
    BY <2>2, SharesAll DEF f
  <2>4. SUFFICES ASSUME u <= n, u # n PROVE f[n].map[u] = f[u].map[u]
    BY TasksAssumption
  <2>5. f[n - 1].map[u] = f[u].map[u]
    BY <1>2, <2>4 DEF Tasks
  <2>6. CASE n \in tasks
    <3>1. hosts # {} /\ u \in Tasks \ {n}
      BY <2>4, <2>6
    <3>2. f[n - 1].map \in Plans /\ f[n] = Give(f[n - 1], n, FirstOf(hosts, f[n - 1]))
      BY <2>1, <2>3, <2>6 DEF SharesOK, AfterTask
    <3>3. f[n].map = [f[n - 1].map EXCEPT ![n] = FirstOf(hosts, f[n - 1])]
      BY <3>2 DEF Give
    <3>4. f[n].map[u] = f[n - 1].map[u]
      BY <3>1, <3>2, <3>3 DEF Plans
    <3> QED
      BY <2>5, <3>4
  <2>7. CASE n \notin tasks
    BY <2>1, <2>5, <2>7 DEF AfterTask
  <2> QED
    BY <2>6, <2>7
<1>3. S = 0 .. NumTasks
  <2> HIDE DEF S
  <2>1. S \subseteq 0 .. NumTasks
    BY DEF S
  <2> QED
    BY <1>1, <1>2, <2>1, UpTo, TasksAssumption
<1>4. NumTasks \in S /\ u <= NumTasks
  BY <1>3, TasksAssumption DEF Tasks
<1> QED
  BY <1>4 DEF Rebalance

(* A plan assigns the tasks to the hosts, and nothing else.                *)
LEMMA RebalanceType ==
    ASSUME NEW hosts \in SUBSET Hosts, NEW tasks \in SUBSET Tasks, hosts # {} \/ tasks = {}
    PROVE  /\ Rebalance(hosts, tasks) \in Plans
           /\ \A t \in Tasks : IF t \in tasks THEN Rebalance(hosts, tasks)[t] \in hosts
                               ELSE Rebalance(hosts, tasks)[t] = NoHost
<1>1. SharesOK(hosts, tasks, Shares(hosts, tasks)[NumTasks], NumTasks)
  BY SharesAll, TasksAssumption
<1>2. \A t \in Tasks : t <= NumTasks
  BY TasksAssumption DEF Tasks
<1> QED
  BY <1>1, <1>2 DEF SharesOK, Rebalance

-----------------------------------------------------------------------------
(* The load of a host.                                                     *)

TotalsUpTo(h, weight, n, f) ==
    f = [t \in 0 .. n |-> IF t = 0 THEN 0
                          ELSE f[t - 1] + (IF assign[t] = h THEN weight[t] ELSE 0)]

(* The recursion of Totals is well founded.                                *)
LEMMA TotalsRecursive ==
    ASSUME NEW h, NEW weight
    PROVE  TotalsUpTo(h, weight, NumTasks, Totals(h, weight))
<1> DEFINE S == {n \in 0 .. NumTasks : \E f : TotalsUpTo(h, weight, n, f)}
           w(t) == IF assign[t] = h THEN weight[t] ELSE 0
<1>1. 0 \in S
  <2>1. TotalsUpTo(h, weight, 0, [t \in 0 .. 0 |-> 0])
    BY DEF TotalsUpTo
  <2> QED
    BY <2>1, TasksAssumption
<1>2. ASSUME NEW n \in 1 .. NumTasks, n - 1 \in S
      PROVE  n \in S
  <2>1. PICK f : TotalsUpTo(h, weight, n - 1, f)
    BY <1>2
  <2> DEFINE g == [t \in 0 .. n |-> IF t = n THEN f[n - 1] + w(n) ELSE f[t]]
  <2>2. \A t \in 0 .. n - 1 : g[t] = f[t]
    OBVIOUS
  <2>3. \A t \in 0 .. n - 1 : f[t] = IF t = 0 THEN 0 ELSE f[t - 1] + w(t)
    BY <2>1 DEF TotalsUpTo
  <2>4. \A t \in 0 .. n : g[t] = IF t = 0 THEN 0 ELSE g[t - 1] + w(t)
    <3> HIDE DEF w
    <3> SUFFICES ASSUME NEW t \in 0 .. n
                 PROVE  g[t] = IF t = 0 THEN 0 ELSE g[t - 1] + w(t)
      OBVIOUS
    <3>1. CASE t = n
      <4>1. t # 0 /\ n - 1 \in 0 .. n - 1
        BY <3>1
      <4>2. g[t] = f[n - 1] + w(n) /\ g[n - 1] = f[n - 1]
        BY <2>2, <3>1, <4>1
      <4> QED
        BY <3>1, <4>1, <4>2
    <3>2. CASE t # n
      <4>1. t \in 0 .. n - 1 /\ (t # 0 => t - 1 \in 0 .. n - 1)
        BY <3>2
      <4>2. g[t] = f[t] /\ (t # 0 => g[t - 1] = f[t - 1])
        BY <2>2, <4>1
      <4> QED
        BY <2>3, <4>1, <4>2
    <3> QED
      BY <3>1, <3>2
  <2>5. TotalsUpTo(h, weight, n, g)
    <3> HIDE DEF g
    <3>1. g = [t \in 0 .. n |-> g[t]]
      BY DEF g
    <3> QED
      BY <2>4, <3>1 DEF TotalsUpTo
  <2> QED
    BY <2>5
<1>3. NumTasks \in S
  <2> HIDE DEF S
  <2>1. S \subseteq 0 .. NumTasks
    BY DEF S
  <2> QED
    BY <1>1, <1>2, <2>1, UpTo, TasksAssumption
<1>4. Totals(h, weight) = CHOOSE f : TotalsUpTo(h, weight, NumTasks, f)
  BY DEF Totals, TotalsUpTo
<1> QED
  BY <1>3, <1>4

LEMMA TotalsStep ==
    ASSUME NEW h, NEW weight
    PROVE  /\ Totals(h, weight)[0] = 0
           /\ \A t \in 1 .. NumTasks :
                  Totals(h, weight)[t] =
                      Totals(h, weight)[t - 1] + (IF assign[t] = h THEN weight[t] ELSE 0)
<1> DEFINE l == Totals(h, weight)
<1>1. l = [t \in 0 .. NumTasks |-> IF t = 0 THEN 0
                                   ELSE l[t - 1] + (IF assign[t] = h THEN weight[t] ELSE 0)]
  BY TotalsRecursive DEF TotalsUpTo
<1> HIDE DEF l
<1>2. \A t \in 0 .. NumTasks :
          l[t] = IF t = 0 THEN 0 ELSE l[t - 1] + (IF assign[t] = h THEN weight[t] ELSE 0)
  BY <1>1
<1>3. l[0] = 0
  BY <1>2, TasksAssumption
<1>4. \A t \in 1 .. NumTasks : l[t] = l[t - 1] + (IF assign[t] = h THEN weight[t] ELSE 0)
  BY <1>2, TasksAssumption
<1> QED
  BY <1>3, <1>4 DEF l

(* What the balancing does with a task, if its plan is the assignments.    *)
LEMMA GivenAsAssigned ==
    ASSUME NEW hosts \in SUBSET Hosts, NEW tasks \in SUBSET Tasks, hosts # {} \/ tasks = {},
           assign = Rebalance(hosts, tasks), NEW n \in 1 .. NumTasks
    PROVE  LET s == Shares(hosts, tasks)[n - 1]
               x == Shares(hosts, tasks)[n]
           IN  /\ s.load \in [hosts -> Int] /\ Score[n] \in Int
               /\ \A h \in hosts :
                      x.load[h] = s.load[h] + (IF assign[n] = h THEN Score[n] ELSE 0)
               /\ assign[n] \in hosts =>
                      n \in tasks /\ \A h \in hosts : s.load[assign[n]] <= s.load[h]
<1> DEFINE s == Shares(hosts, tasks)[n - 1]
           x == Shares(hosts, tasks)[n]
           Given == /\ s.load \in [hosts -> Int] /\ Score[n] \in Int
                    /\ \A h \in hosts :
                           x.load[h] = s.load[h] + (IF assign[n] = h THEN Score[n] ELSE 0)
                    /\ assign[n] \in hosts =>
                           n \in tasks /\ \A h \in hosts : s.load[assign[n]] <= s.load[h]
<1>1. x = AfterTask(hosts, tasks, s, n)
  BY SharesStep
<1>2. n - 1 \in Nat /\ n - 1 <= NumTasks /\ n - 1 \in 0 .. NumTasks /\ n \in Tasks
  BY TasksAssumption DEF Tasks
<1>3. SharesOK(hosts, tasks, s, n - 1)
  BY <1>2, SharesAll
<1>4. assign[n] = x.map[n]
  BY <1>2, SharesKept
<1>5. s.load \in [hosts -> Int] /\ s.map \in Plans /\ Score[n] \in Int
  BY <1>2, <1>3, ScoreType DEF SharesOK
<1> HIDE DEF s, x
<1>6. ASSUME n \in tasks PROVE Given
  <2> DEFINE f == FirstOf(hosts, s)
  <2>1. x = Give(s, n, f)
    BY <1>1, <1>6 DEF AfterTask
  <2>2. f \in hosts /\ \A h \in hosts : s.load[f] <= s.load[h]
    BY <1>2, <1>3, <1>6, FirstOfShares
  <2> HIDE DEF f
  <2>3. x.load = [s.load EXCEPT ![f] = @ + Score[n]] /\ x.map = [s.map EXCEPT ![n] = f]
    BY <2>1 DEF Give
  <2>4. assign[n] = f
    BY <1>2, <1>4, <1>5, <2>3 DEF Plans
  <2>5. \A h \in hosts : x.load[h] = s.load[h] + (IF f = h THEN Score[n] ELSE 0)
    BY <1>5, <2>2, <2>3
  <2> QED
    BY <1>5, <1>6, <2>2, <2>4, <2>5
<1>7. ASSUME n \notin tasks PROVE Given
  <2>1. x = s /\ s.map[n] = NoHost
    BY <1>1, <1>2, <1>3, <1>7, PassOK DEF AfterTask
  <2>2. assign[n] = NoHost /\ NoHost \notin hosts
    BY <1>4, <2>1, HostsAssumption DEF NoHost
  <2> QED
    BY <1>5, <2>1, <2>2
<1> QED
  BY <1>6, <1>7 DEF s, x

(* Then the load of a host is what the balancing has counted.              *)
LEMMA LoadOfPlan ==
    ASSUME NEW hosts \in SUBSET Hosts, NEW tasks \in SUBSET Tasks, hosts # {} \/ tasks = {},
           assign = Rebalance(hosts, tasks), NEW h \in hosts
    PROVE  Load(h) = Shares(hosts, tasks)[NumTasks].load[h]
<1> DEFINE f == Shares(hosts, tasks)
           l == Totals(h, Score)
           S == {n \in 0 .. NumTasks : l[n] = f[n].load[h]}
<1>1. 0 \in S
  <2>1. f[0].load[h] = 0
    <3>1. f[0] = StartShares(hosts)
      BY SharesStep
    <3> HIDE DEF f
    <3> QED
      BY <3>1 DEF StartShares
  <2> QED
    BY <2>1, TotalsStep, TasksAssumption
<1>2. ASSUME NEW n \in 1 .. NumTasks, n - 1 \in S
      PROVE  n \in S
  <2>1. l[n] = l[n - 1] + (IF assign[n] = h THEN Score[n] ELSE 0)
    BY TotalsStep
  <2>2. f[n].load[h] = f[n - 1].load[h] + (IF assign[n] = h THEN Score[n] ELSE 0)
    <3>1. LET s == f[n - 1]
              x == f[n]
          IN  /\ s.load \in [hosts -> Int] /\ Score[n] \in Int
              /\ \A g \in hosts :
                     x.load[g] = s.load[g] + (IF assign[n] = g THEN Score[n] ELSE 0)
              /\ assign[n] \in hosts =>
                     n \in tasks /\ \A g \in hosts : s.load[assign[n]] <= s.load[g]
      BY GivenAsAssigned
    <3> HIDE DEF f
    <3> QED
      BY <3>1
  <2> HIDE DEF l, f
  <2> QED
    BY <1>2, <2>1, <2>2
<1>3. S = 0 .. NumTasks
  <2> HIDE DEF S
  <2>1. S \subseteq 0 .. NumTasks
    BY DEF S
  <2> QED
    BY <1>1, <1>2, <2>1, UpTo, TasksAssumption
<1>4. NumTasks \in S
  BY <1>3, TasksAssumption
<1> QED
  BY <1>4 DEF Load, Total

BurdenScore == [t \in Tasks |-> IF Score[t] > 0 THEN Score[t] ELSE 0]

(* After the tasks up to n: the load of a host is not above its burden,    *)
(* and exceeds that of another by one of its own tasks at most.            *)
FairUpTo(hosts, tasks, n) ==
    \A g, h \in hosts :
        LET load == Shares(hosts, tasks)[n].load[g]
            burden == Totals(h, BurdenScore)[n]
        IN  /\ burden \in Nat
            /\ g = h => load <= burden
            /\ load > burden => \E u \in tasks : u <= n /\ assign[u] = g /\ load - burden <= Score[u]

LEMMA FairAll ==
    ASSUME NEW hosts \in SUBSET Hosts, NEW tasks \in SUBSET Tasks, hosts # {} \/ tasks = {},
           assign = Rebalance(hosts, tasks), NEW m \in 0 .. NumTasks
    PROVE  FairUpTo(hosts, tasks, m)
<1> DEFINE f == Shares(hosts, tasks)
           w(h) == Totals(h, BurdenScore)
           S == {n \in 0 .. NumTasks : FairUpTo(hosts, tasks, n)}
<1>1. 0 \in S
  <2>1. \A h \in hosts : f[0].load[h] = 0
    <3>1. f[0] = StartShares(hosts)
      BY SharesStep
    <3> HIDE DEF f
    <3> QED
      BY <3>1 DEF StartShares
  <2>2. \A h \in hosts : w(h)[0] = 0
    BY TotalsStep
  <2> HIDE DEF f, w
  <2> QED
    BY <2>1, <2>2, TasksAssumption DEF FairUpTo, f, w
<1>2. ASSUME NEW n \in 1 .. NumTasks, n - 1 \in S
      PROVE  n \in S
  <2> DEFINE s == f[n - 1]
             x == f[n]
             a == assign[n]
             b == BurdenScore[n]
  <2>1. /\ s.load \in [hosts -> Int] /\ Score[n] \in Int
        /\ \A h \in hosts : x.load[h] = s.load[h] + (IF a = h THEN Score[n] ELSE 0)
        /\ a \in hosts => n \in tasks /\ \A h \in hosts : s.load[a] <= s.load[h]
    BY GivenAsAssigned
  <2>2. \A h \in hosts : w(h)[n] = w(h)[n - 1] + (IF a = h THEN b ELSE 0)
    BY TotalsStep
  <2>3. b = IF Score[n] > 0 THEN Score[n] ELSE 0
    BY TasksAssumption DEF BurdenScore, Tasks
  <2>4. \A g, h \in hosts :
            /\ w(h)[n - 1] \in Nat
            /\ g = h => s.load[g] <= w(h)[n - 1]
            /\ s.load[g] > w(h)[n - 1] =>
                   \E u \in tasks : u <= n - 1 /\ assign[u] = g /\ s.load[g] - w(h)[n - 1] <= Score[u]
    BY <1>2 DEF FairUpTo
  <2> HIDE DEF f, w, s, x, a, b
  <2>5. ASSUME NEW g \in hosts, NEW h \in hosts
        PROVE  /\ w(h)[n] \in Nat
               /\ g = h => x.load[g] <= w(h)[n]
               /\ x.load[g] > w(h)[n] =>
                      \E u \in tasks : u <= n /\ assign[u] = g /\ x.load[g] - w(h)[n] <= Score[u]
    <3>1. /\ w(h)[n - 1] \in Nat /\ s.load[g] \in Int /\ s.load[h] \in Int
          /\ s.load[h] <= w(h)[n - 1] /\ b \in Nat /\ Score[n] <= b
      BY <2>1, <2>3, <2>4
    <3>2. w(h)[n] \in Nat /\ w(h)[n] >= w(h)[n - 1]
      BY <2>2, <3>1
    <3>3. g = h => x.load[g] <= w(h)[n]
      BY <2>1, <2>2, <3>1
    <3>4. ASSUME x.load[g] > w(h)[n]
          PROVE  \E u \in tasks : u <= n /\ assign[u] = g /\ x.load[g] - w(h)[n] <= Score[u]
      <4>1. CASE a = g
        <5>1. x.load[g] = s.load[g] + Score[n] /\ s.load[g] <= s.load[h] /\ n \in tasks
          BY <2>1, <4>1
        <5>2. x.load[g] - w(h)[n] <= Score[n]
          BY <2>1, <3>1, <3>2, <5>1
        <5> QED
          BY <4>1, <5>1, <5>2 DEF a
      <4>2. CASE a # g
        <5>1. x.load[g] = s.load[g]
          BY <2>1, <3>1, <4>2
        <5>2. PICK u \in tasks : u <= n - 1 /\ assign[u] = g /\ s.load[g] - w(h)[n - 1] <= Score[u]
          BY <2>4, <3>1, <3>2, <3>4, <5>1
        <5>3. u \in Int /\ Score[u] \in Int
          BY ScoreType DEF Tasks
        <5>4. u <= n /\ x.load[g] - w(h)[n] <= Score[u]
          BY <3>1, <3>2, <5>1, <5>2, <5>3
        <5> QED
          BY <5>2, <5>4
      <4> QED
        BY <4>1, <4>2
    <3> QED
      BY <3>2, <3>3, <3>4
  <2>6. FairUpTo(hosts, tasks, n)
    BY <2>5 DEF FairUpTo, f, w, x
  <2> QED
    BY <2>6, TasksAssumption
<1>3. S = 0 .. NumTasks
  <2> HIDE DEF S
  <2>1. S \subseteq 0 .. NumTasks
    BY DEF S
  <2> QED
    BY <1>1, <1>2, <2>1, UpTo, TasksAssumption
<1> QED
  BY <1>3

(* A plan for the stored tasks is what the coordinator wants.              *)
LEMMA PlanIsSharedOut ==
    ASSUME NEW hosts \in SUBSET Hosts, stored \subseteq Tasks, hosts # {} \/ stored = {},
           assign = Rebalance(hosts, stored)
    PROVE  SharedOut(hosts)
<1> stored \in SUBSET Tasks
  OBVIOUS
<1>1. \A t \in Tasks : IF t \in stored THEN assign[t] \in hosts ELSE assign[t] = NoHost
  <2>1. \A t \in Tasks : IF t \in stored THEN Rebalance(hosts, stored)[t] \in hosts
                          ELSE Rebalance(hosts, stored)[t] = NoHost
    BY RebalanceType
  <2> QED
    BY <2>1
<1>2. \A t \in Tasks : assign[t] # NoHost <=> t \in stored
  BY <1>1, HostsAssumption DEF NoHost
<1>3. ASSUME NEW g \in hosts, NEW h \in hosts, Load(g) > Burden(h)
      PROVE  \E t \in stored : assign[t] = g /\ Load(g) - Burden(h) <= Score[t]
  <2>1. Load(g) = Shares(hosts, stored)[NumTasks].load[g]
    BY LoadOfPlan
  <2>2. Burden(h) = Totals(h, BurdenScore)[NumTasks]
    BY DEF Burden, Total, BurdenScore
  <2>3. NumTasks \in 0 .. NumTasks
    BY TasksAssumption
  <2>4. FairUpTo(hosts, stored, NumTasks)
    BY <2>3, FairAll
  <2> QED
    BY <1>3, <2>1, <2>2, <2>4 DEF FairUpTo
<1> QED
  BY <1>1, <1>2, <1>3 DEF SharedOut

-----------------------------------------------------------------------------
(* The steps.                                                              *)

SameServer(g) ==
    /\ active'[g] = active[g] /\ list'[g] = list[g] /\ stage'[g] = stage[g]
    /\ isCoordinator'[g] = isCoordinator[g]
    /\ hostMap'[g] = hostMap[g] /\ checker'[g] = checker[g] /\ seen'[g] = seen[g]
    /\ ckPc'[g] = ckPc[g] /\ readTime'[g] = readTime[g]
    /\ holder'[g] = holder[g] /\ rbPc'[g] = rbPc[g]
    /\ old'[g] = old[g] /\ new'[g] = new[g]
    /\ toRemove'[g] = toRemove[g] /\ toSet'[g] = toSet[g]

Others(h) == taskTime' = taskTime /\ \A g \in Hosts \ {h} : SameServer(g)

LEMMA NobodyPlan == Nobody \in Plans
  BY DEF Nobody, Plans

LEMMA HostListChangeStep ==
    ASSUME TypeInv, NEW h \in Hosts, HostListChange(h)
    PROVE  Types' /\ ServerInv(h)' /\ Others(h)
<1>1. TaskTypes'
  BY DEF TypeInv, Types, TaskTypes, HostListChange, Unaffected, taskVars
<1>2. HostTypes'
  BY DEF TypeInv, Types, HostTypes, HostListChange, PostHosts
<1>3. CheckerTypes'
  BY DEF TypeInv, Types, CheckerTypes, HostListChange, Unaffected
<1>4. RebalanceTypes'
  BY DEF TypeInv, Types, RebalanceTypes, HostListChange, Unaffected,
      rebalanceVars
<1>5. ServerInv(h)'
  BY DEF TypeInv, Types, HostTypes, ServerInv, HostListChange, PostHosts,
      Unaffected, taskVars, rebalanceVars
<1>6. Others(h)
  BY DEF Others, SameServer, HostListChange, PostHosts, Unaffected, taskVars,
      rebalanceVars
<1> QED
  BY <1>1, <1>2, <1>3, <1>4, <1>5, <1>6 DEF Types

LEMMA IgnoreHostChangeStep ==
    ASSUME TypeInv, NEW h \in Hosts, IgnoreHostChange(h)
    PROVE  Types' /\ ServerInv(h)' /\ Others(h)
<1>1. TaskTypes'
  BY DEF TypeInv, Types, TaskTypes, IgnoreHostChange, Unaffected, taskVars
<1>2. HostTypes'
  BY DEF TypeInv, Types, HostTypes, IgnoreHostChange, EndPost
<1>3. CheckerTypes'
  BY DEF TypeInv, Types, CheckerTypes, IgnoreHostChange, Unaffected
<1>4. RebalanceTypes'
  BY DEF TypeInv, Types, RebalanceTypes, IgnoreHostChange, Unaffected,
      rebalanceVars
<1>5. ServerInv(h)'
  BY DEF TypeInv, Types, HostTypes, ServerInv, IgnoreHostChange, EndPost,
      Unaffected, taskVars, rebalanceVars
<1>6. Others(h)
  BY DEF Others, SameServer, IgnoreHostChange, EndPost, Unaffected, taskVars,
      rebalanceVars
<1> QED
  BY <1>1, <1>2, <1>3, <1>4, <1>5, <1>6 DEF Types

LEMMA LockHostChangeStep ==
    ASSUME TypeInv, NEW h \in Hosts, LockHostChange(h)
    PROVE  Types' /\ ServerInv(h)' /\ Others(h)
<1>1. TaskTypes'
  BY DEF TypeInv, Types, TaskTypes, LockHostChange, Unaffected, taskVars
<1>2. HostTypes'
  BY DEF TypeInv, Types, HostTypes, LockHostChange, hostVars
<1>3. CheckerTypes'
  BY DEF TypeInv, Types, CheckerTypes, LockHostChange, Unaffected
<1>4. RebalanceTypes'
  BY DEF TypeInv, Types, RebalanceTypes, LockHostChange, TakeLock, Unaffected
<1>5. ServerInv(h)'
  BY DEF TypeInv, Types, RebalanceTypes, ServerInv, LockHostChange, TakeLock,
      Unaffected, hostVars, taskVars
<1>6. Others(h)
  BY DEF Others, SameServer, LockHostChange, TakeLock, Unaffected, hostVars,
      taskVars
<1> QED
  BY <1>1, <1>2, <1>3, <1>4, <1>5, <1>6 DEF Types

LEMMA StartCheckerStep ==
    ASSUME TypeInv, NEW h \in Hosts, StartChecker(h)
    PROVE  Types' /\ ServerInv(h)' /\ Others(h)
<1>1. TaskTypes'
  BY DEF TypeInv, Types, TaskTypes, StartChecker, taskVars
<1>2. HostTypes'
  BY DEF TypeInv, Types, HostTypes, StartChecker, hostVars
<1>3. CheckerTypes'
  BY DEF TypeInv, Types, CheckerTypes, TaskTypes, StartChecker
<1>4. RebalanceTypes'
  BY DEF TypeInv, Types, RebalanceTypes, StartChecker, rebalanceVars
<1>5. ServerInv(h)'
  BY DEF TypeInv, Types, TaskTypes, ServerInv, StartChecker, hostVars, taskVars,
      rebalanceVars
<1>6. Others(h)
  BY DEF Others, SameServer, StartChecker, hostVars, taskVars, rebalanceVars
<1> QED
  BY <1>1, <1>2, <1>3, <1>4, <1>5, <1>6 DEF Types

LEMMA LockCheckerStep ==
    ASSUME TypeInv, NEW h \in Hosts, LockChecker(h)
    PROVE  Types' /\ ServerInv(h)' /\ Others(h)
<1>1. TaskTypes'
  BY DEF TypeInv, Types, TaskTypes, LockChecker, taskVars
<1>2. HostTypes'
  BY DEF TypeInv, Types, HostTypes, LockChecker, hostVars
<1>3. CheckerTypes'
  BY DEF TypeInv, Types, CheckerTypes, LockChecker
<1>4. RebalanceTypes'
  BY DEF TypeInv, Types, RebalanceTypes, LockChecker, TakeLock
<1>5. ServerInv(h)'
  BY DEF TypeInv, Types, CheckerTypes, RebalanceTypes, ServerInv, LockChecker,
      TakeLock, hostVars, taskVars
<1>6. Others(h)
  BY DEF Others, SameServer, LockChecker, TakeLock, hostVars, taskVars
<1> QED
  BY <1>1, <1>2, <1>3, <1>4, <1>5, <1>6 DEF Types

LEMMA CrashHostStep ==
    ASSUME TypeInv, NEW h \in Hosts, CrashHost(h)
    PROVE  Types' /\ ServerInv(h)' /\ Others(h)
<1>1. TaskTypes'
  BY DEF TypeInv, Types, TaskTypes, CrashHost, taskVars
<1>2. HostTypes'
  BY DEF TypeInv, Types, HostTypes, CrashHost, Crash
<1>3. CheckerTypes'
  BY DEF TypeInv, Types, CheckerTypes, CrashHost, EndChecker
<1>4. RebalanceTypes'
  BY NobodyPlan DEF TypeInv, Types, RebalanceTypes, CrashHost, LeaveLock
<1>5. ServerInv(h)'
  BY DEF TypeInv, Types, TaskTypes, HostTypes, CheckerTypes, RebalanceTypes,
      ServerInv, CrashHost, Crash, EndChecker, LeaveLock, taskVars
<1>6. Others(h)
  BY DEF Others, SameServer, CrashHost, Crash, EndChecker, LeaveLock, taskVars
<1> QED
  BY <1>1, <1>2, <1>3, <1>4, <1>5, <1>6 DEF Types

LEMMA RestartHostStep ==
    ASSUME TypeInv, NEW h \in Hosts, RestartHost(h)
    PROVE  Types' /\ ServerInv(h)' /\ Others(h)
<1>1. TaskTypes'
  BY DEF TypeInv, Types, TaskTypes, RestartHost, Unaffected, taskVars
<1>2. HostTypes'
  BY DEF TypeInv, Types, HostTypes, RestartHost, Restart
<1>3. CheckerTypes'
  BY DEF TypeInv, Types, CheckerTypes, RestartHost, Unaffected
<1>4. RebalanceTypes'
  BY DEF TypeInv, Types, RebalanceTypes, RestartHost, Unaffected, rebalanceVars
<1>5. ServerInv(h)'
  BY DEF TypeInv, ServerInv, RestartHost, Restart, Unaffected, taskVars,
      rebalanceVars
<1>6. Others(h)
  BY DEF Others, SameServer, RestartHost, Restart, Unaffected, taskVars,
      rebalanceVars
<1> QED
  BY <1>1, <1>2, <1>3, <1>4, <1>5, <1>6 DEF Types

LEMMA CoordinatorChangedStep ==
    ASSUME TypeInv, NEW h \in Hosts, NEW hosts \in SUBSET Hosts, CoordinatorChanged(h, hosts)
    PROVE  Types' /\ ServerInv(h)' /\ Others(h)
<1>1. TaskTypes'
  BY DEF TypeInv, Types, TaskTypes, CoordinatorChanged, Unaffected, taskVars
<1>2. HostTypes'
  BY DEF TypeInv, Types, HostTypes, CoordinatorChanged, PostCoordinator
<1>3. CheckerTypes'
  BY DEF TypeInv, Types, CheckerTypes, CoordinatorChanged, Unaffected
<1>4. RebalanceTypes'
  BY DEF TypeInv, Types, RebalanceTypes, CoordinatorChanged, Unaffected,
      rebalanceVars
<1>5. ServerInv(h)'
  BY DEF TypeInv, Types, CheckerTypes, ServerInv, CoordinatorChanged,
      PostCoordinator, Unaffected, taskVars, rebalanceVars
<1>6. Others(h)
  BY DEF Others, SameServer, CoordinatorChanged, PostCoordinator, Unaffected,
      taskVars, rebalanceVars
<1> QED
  BY <1>1, <1>2, <1>3, <1>4, <1>5, <1>6 DEF Types

LEMMA RebalanceFailsStep ==
    ASSUME TypeInv, NEW h \in Hosts, NEW runtime \in BOOLEAN, RebalanceFails(h, runtime)
    PROVE  Types' /\ ServerInv(h)' /\ Others(h)
<1>1. TaskTypes'
  BY DEF TypeInv, Types, TaskTypes, RebalanceFails, taskVars
<1>2. HostTypes'
  BY DEF TypeInv, Types, HostTypes, RebalanceFails, LeaveLock, EndChecker,
      EndPost, hostVars, taskVars, bounded, rebalanceVars
<1>3. CheckerTypes'
  BY DEF TypeInv, Types, CheckerTypes, RebalanceFails, EndChecker
<1>4. RebalanceTypes'
  BY NobodyPlan DEF TypeInv, Types, RebalanceTypes, RebalanceFails, LeaveLock
<1>5. ServerInv(h)'
  BY DEF TypeInv, Types, TaskTypes, HostTypes, CheckerTypes, RebalanceTypes,
      ServerInv, RebalanceFails, LeaveLock, EndChecker, EndPost, hostVars,
      taskVars
<1>6. Others(h)
  BY DEF TypeInv, Types, HostTypes, CheckerTypes, Others, SameServer,
      RebalanceFails, LeaveLock, EndChecker, EndPost, hostVars, taskVars
<1> QED
  BY <1>1, <1>2, <1>3, <1>4, <1>5, <1>6 DEF Types

LEMMA ReadAssignmentsStep ==
    ASSUME TypeInv, NEW h \in Hosts, ReadAssignments(h)
    PROVE  Types' /\ ServerInv(h)' /\ Others(h)
<1>1. TaskTypes'
  BY DEF TypeInv, Types, TaskTypes, ReadAssignments, CoordinatorIdle, taskVars
<1>2. HostTypes'
  BY DEF TypeInv, Types, HostTypes, ReadAssignments, CoordinatorIdle, hostVars
<1>3. CheckerTypes'
  BY DEF TypeInv, Types, CheckerTypes, ReadAssignments, CoordinatorIdle
<1>4. RebalanceTypes'
  BY DEF TypeInv, Types, RebalanceTypes, TaskTypes, ReadAssignments
<1>5. ServerInv(h)'
  BY DEF TypeInv, ServerInv, ReadAssignments, CoordinatorIdle, hostVars,
      taskVars
<1>6. Others(h)
  BY DEF Others, SameServer, ReadAssignments, CoordinatorIdle, hostVars,
      taskVars
<1> QED
  BY <1>1, <1>2, <1>3, <1>4, <1>5, <1>6 DEF Types

LEMMA ReadTasksStep ==
    ASSUME TypeInv, NEW h \in Hosts, ReadTasks(h)
    PROVE  Types' /\ ServerInv(h)' /\ Others(h)
<1>1. TaskTypes'
  BY DEF TypeInv, Types, TaskTypes, ReadTasks, CoordinatorIdle, taskVars
<1>2. HostTypes'
  BY DEF TypeInv, Types, HostTypes, ReadTasks, CoordinatorIdle, hostVars
<1>3. CheckerTypes'
  BY DEF TypeInv, Types, CheckerTypes, ReadTasks, CoordinatorIdle
<1>4. RebalanceTypes'
  <2> DEFINE plan == Rebalance(hostMap[h], stored)
  <2>1. plan \in Plans
    <3>1. hostMap[h] \in SUBSET Hosts /\ stored \in SUBSET Tasks
          /\ (hostMap[h] # {} \/ stored = {})
      BY DEF TypeInv, Types, TaskTypes, HostTypes, ReadTasks
    <3> QED
      BY <3>1, RebalanceType
  <2>2. {t \in Tasks : old[h][t] \notin {NoHost, plan[t]}} \subseteq Tasks
        /\ {t \in stored : old[h][t] # plan[t]} \subseteq Tasks
    BY DEF TypeInv, Types, TaskTypes
  <2>3. /\ new' = [new EXCEPT ![h] = plan]
        /\ toRemove' = [toRemove EXCEPT ![h] = {t \in Tasks : old[h][t] \notin {NoHost, plan[t]}}]
        /\ toSet' = [toSet EXCEPT ![h] = {t \in stored : old[h][t] # plan[t]}]
        /\ old' = [old EXCEPT ![h] = Nobody]
        /\ rbPc' = [rbPc EXCEPT ![h] = "save"] /\ UNCHANGED <<holder, undisturbed>>
    BY DEF ReadTasks
  <2> HIDE DEF plan
  <2> QED
    BY <2>1, <2>2, <2>3, NobodyPlan DEF TypeInv, Types, RebalanceTypes
<1>5. ServerInv(h)'
  BY DEF TypeInv, ServerInv, ReadTasks, CoordinatorIdle, hostVars, taskVars
<1>6. Others(h)
  BY DEF Others, SameServer, ReadTasks, CoordinatorIdle, hostVars, taskVars
<1> QED
  BY <1>1, <1>2, <1>3, <1>4, <1>5, <1>6 DEF Types

LEMMA EndRebalanceStep ==
    ASSUME TypeInv, NEW h \in Hosts, EndRebalance(h)
    PROVE  Types' /\ ServerInv(h)' /\ Others(h)
<1>1. TaskTypes'
  BY DEF TypeInv, Types, TaskTypes, EndRebalance, taskVars
<1>2. HostTypes'
  BY DEF TypeInv, Types, HostTypes, EndRebalance, EndPost, hostVars
<1>3. CheckerTypes'
  BY DEF TypeInv, Types, CheckerTypes, EndRebalance, EndChecker
<1>4. RebalanceTypes'
  BY NobodyPlan DEF TypeInv, Types, RebalanceTypes, EndRebalance, LeaveLock
<1>5. ServerInv(h)'
  BY DEF TypeInv, Types, TaskTypes, HostTypes, CheckerTypes, RebalanceTypes,
      ServerInv, EndRebalance, LeaveLock, EndChecker, EndPost, hostVars,
      taskVars
<1>6. Others(h)
  BY DEF TypeInv, Types, HostTypes, CheckerTypes, Others, SameServer,
      EndRebalance, LeaveLock, EndChecker, EndPost, hostVars, taskVars
<1> QED
  BY <1>1, <1>2, <1>3, <1>4, <1>5, <1>6 DEF Types

LEMMA WriteAssignmentStep ==
    ASSUME TypeInv, NEW h \in Hosts, NEW t \in Tasks, WriteAssignment(h, t)
    PROVE  Types' /\ ServerInv(h)' /\ Others(h)
<1>1. TaskTypes'
  <2>1. stored \subseteq Tasks /\ deleted \subseteq Tasks \ stored /\ taskTime \in Nat
        /\ assign \in Plans /\ new[h] \in Plans
    BY DEF TypeInv, Types, TaskTypes, RebalanceTypes
  <2>2. UNCHANGED <<stored, deleted, taskTime>>
        /\ (assign' = [assign EXCEPT ![t] = NoHost] \/ assign' = [assign EXCEPT ![t] = new[h][t]])
    BY DEF WriteAssignment, CoordinatorIdle, taskVars
  <2>3. new[h][t] \in Hosts \cup {NoHost}
    BY <2>1 DEF Plans
  <2>4. assign' \in Plans
    BY <2>1, <2>2, <2>3 DEF Plans
  <2> QED
    BY <2>1, <2>2, <2>4 DEF TaskTypes
<1>2. HostTypes'
  BY DEF TypeInv, Types, HostTypes, WriteAssignment, CoordinatorIdle, hostVars
<1>3. CheckerTypes'
  BY DEF TypeInv, Types, CheckerTypes, WriteAssignment, CoordinatorIdle
<1>4. RebalanceTypes'
  BY DEF TypeInv, Types, RebalanceTypes, WriteAssignment
<1>5. ServerInv(h)'
  BY DEF TypeInv, ServerInv, WriteAssignment, CoordinatorIdle, hostVars,
      taskVars
<1>6. Others(h)
  BY DEF TypeInv, Types, RebalanceTypes, Others, SameServer, WriteAssignment,
      CoordinatorIdle, hostVars, taskVars
<1> QED
  BY <1>1, <1>2, <1>3, <1>4, <1>5, <1>6 DEF Types

LEMMA OthersInv ==
    ASSUME TypeInv, NEW h \in Hosts, Types', ServerInv(h)', Others(h)
    PROVE  TypeInv'
<1>1. ASSUME NEW g \in Hosts \ {h} PROVE ServerInv(g)'
  BY <1>1 DEF TypeInv, ServerInv, Others, SameServer
<1> QED
  BY <1>1 DEF TypeInv

-----------------------------------------------------------------------------
(* TypeInv is inductive.                                                   *)

LEMMA TypeInit ==
    ASSUME Init
    PROVE  TypeInv
<1>1. taskTime \in Nat
  <2>1. IsFiniteSet(Tasks) /\ Stored \subseteq Tasks
    BY FS_Interval, TasksAssumption DEF Tasks
  <2>2. IsFiniteSet(Stored)
    BY <2>1, FS_Subset
  <2> QED
    BY <2>2, FS_CardinalityType DEF Init
<1>2. TaskTypes
  BY <1>1, NobodyPlan, TasksAssumption DEF TaskTypes, Init
<1>3. HostTypes
  BY DEF HostTypes, Init, HostInit
<1>4. CheckerTypes
  BY DEF CheckerTypes, Init
<1>5. RebalanceTypes
  BY NobodyPlan DEF RebalanceTypes, Init
<1>6. ASSUME NEW h \in Hosts PROVE ServerInv(h)
  BY <1>1, <1>6 DEF ServerInv, Init, HostInit
<1> QED
  BY <1>2, <1>3, <1>4, <1>5, <1>6 DEF TypeInv, Types

(* A server's thread makes a step, or it crashes or is started.            *)
ServerStep(h) ==
    \/ ReadAssignments(h) \/ ReadTasks(h) \/ EndRebalance(h)
    \/ \E t \in Tasks : WriteAssignment(h, t)
    \/ HostListChange(h) \/ IgnoreHostChange(h) \/ LockHostChange(h)
    \/ StartChecker(h) \/ LockChecker(h) \/ CrashHost(h) \/ RestartHost(h)
    \/ \E hosts \in SUBSET Hosts : CoordinatorChanged(h, hosts)
    \/ \E runtime \in BOOLEAN : RebalanceFails(h, runtime)

TaskStep(t) == WriteTask(t) \/ DeleteTask(t) \/ AnnounceDelete(t)

LEMMA NextStep ==
    ASSUME Next
    PROVE  (\E h \in Hosts : ServerStep(h)) \/ (\E t \in Tasks : TaskStep(t))
<1>1. ASSUME NEW h \in Hosts, HostThread(h) \/ CheckerThread(h) \/ CrashHost(h) \/ RestartHost(h)
      PROVE  ServerStep(h)
  BY <1>1 DEF HostThread, CheckerThread, RebalanceStep, ServerStep
<1>2. ASSUME NEW h \in Hosts, NEW hosts \in SUBSET Hosts, CoordinatorChanged(h, hosts)
      PROVE  ServerStep(h)
  BY <1>2 DEF ServerStep
<1>3. ASSUME NEW h \in Hosts, NEW runtime \in BOOLEAN, RebalanceFails(h, runtime)
      PROVE  ServerStep(h)
  BY <1>3 DEF ServerStep
<1> QED
  BY <1>1, <1>2, <1>3 DEF Next, TaskStep

LEMMA ServerStepTypes ==
    ASSUME TypeInv, NEW h \in Hosts, ServerStep(h)
    PROVE  TypeInv'
<1>1. Types' /\ ServerInv(h)' /\ Others(h)
  BY ReadAssignmentsStep, ReadTasksStep, EndRebalanceStep,
     WriteAssignmentStep, HostListChangeStep, IgnoreHostChangeStep,
     LockHostChangeStep, StartCheckerStep, LockCheckerStep, CrashHostStep,
     RestartHostStep, CoordinatorChangedStep, RebalanceFailsStep
  DEF ServerStep
<1> QED
  BY <1>1, OthersInv

LEMMA TaskStepTypes ==
    ASSUME TypeInv, NEW t \in Tasks, TaskStep(t)
    PROVE  TypeInv' /\ taskTime' >= taskTime
<1>1. UNCHANGED <<hostVars, Coordinators>>
  BY DEF TaskStep, WriteTask, DeleteTask, AnnounceDelete
<1>2. TaskTypes' /\ taskTime' >= taskTime
  <2>1. CASE WriteTask(t)
    BY <2>1 DEF WriteTask, TypeInv, Types, TaskTypes, Coordinators
  <2>2. CASE DeleteTask(t)
    BY <2>2 DEF DeleteTask, TypeInv, Types, TaskTypes, Coordinators
  <2>3. CASE AnnounceDelete(t)
    BY <2>3 DEF AnnounceDelete, TypeInv, Types, TaskTypes, Coordinators
  <2> QED
    BY <2>1, <2>2, <2>3 DEF TaskStep
<1>3. HostTypes' /\ CheckerTypes' /\ RebalanceTypes'
  BY <1>1
  DEF TypeInv, Types, HostTypes, CheckerTypes, RebalanceTypes, hostVars,
      Coordinators, rebalanceVars
<1>4. ASSUME NEW h \in Hosts PROVE ServerInv(h)'
  <2>1. seen[h] \in Nat /\ readTime[h] \in Nat /\ taskTime \in Nat /\ taskTime' \in Nat /\ ServerInv(h)
    BY <1>2, <1>4 DEF TypeInv, Types, TaskTypes, CheckerTypes
  <2> QED
    BY <1>1, <1>2, <2>1 DEF ServerInv, hostVars, Coordinators, rebalanceVars
<1> QED
  BY <1>2, <1>3, <1>4 DEF TypeInv, Types

LEMMA TypeStep ==
    ASSUME TypeInv, [Next]_vars
    PROVE  TypeInv'
<1>1. CASE Next
  BY <1>1, NextStep, ServerStepTypes, TaskStepTypes
<1>2. CASE UNCHANGED vars
  <2>1. Types'
    BY <1>2
    DEF TypeInv, Types, TaskTypes, HostTypes, CheckerTypes, RebalanceTypes,
        vars, hostVars, taskVars, rebalanceVars
  <2>2. ASSUME NEW h \in Hosts PROVE ServerInv(h)'
    BY <1>2, <2>2
    DEF TypeInv, ServerInv, vars, hostVars, taskVars, rebalanceVars
  <2> QED
    BY <2>1, <2>2 DEF TypeInv
<1> QED
  BY <1>1, <1>2

LEMMA TypeInvAlways == Spec => []TypeInv
<1>1. Init => TypeInv
  BY TypeInit
<1>2. TypeInv /\ [Next]_vars => TypeInv'
  BY TypeStep
<1> QED
  BY <1>1, <1>2, PTL DEF Spec

(* The state of every server is what its threads can be in; the lock is    *)
(* held by the thread that rebalances, and only a coordinator has a        *)
(* checker (AssignmentCoordinator).                                        *)
THEOREM StateTypeCorrect == Spec => []TypeOK
<1>1. TypeInv => TypeOK
  BY DEF TypeInv, Types, TaskTypes, HostTypes, CheckerTypes, ServerInv, TypeOK,
      Plans
<1> QED
  BY <1>1, TypeInvAlways, PTL

-----------------------------------------------------------------------------
(* PlanInv is inductive.                                                   *)

(* The next step may make a server know less of its plan, not more.        *)
KnowsNoMore(h) ==
    /\ HostsKnown(h)' => HostsKnown(h) /\ hostMap'[h] = hostMap[h]
    /\ TasksKnown(h)' => /\ TasksKnown(h)
                         /\ stored' \subseteq stored
                         /\ stored \cup deleted \subseteq stored' \cup deleted'

PlannedNext(h, plan) ==
    \E hosts \in SUBSET Hosts, tasks \in SUBSET Tasks :
        /\ hosts # {} \/ tasks = {}
        /\ plan = Rebalance(hosts, tasks)
        /\ HostsKnown(h)' => hosts = hostMap'[h]
        /\ TasksKnown(h)' => stored' \subseteq tasks /\ tasks \subseteq stored' \cup deleted'

LEMMA PlannedKept ==
    ASSUME NEW h, NEW plan, Planned(h, plan), KnowsNoMore(h)
    PROVE  PlannedNext(h, plan)
<1>1. PICK hosts \in SUBSET Hosts, tasks \in SUBSET Tasks :
          /\ hosts # {} \/ tasks = {}
          /\ plan = Rebalance(hosts, tasks)
          /\ HostsKnown(h) => hosts = hostMap[h]
          /\ TasksKnown(h) => stored \subseteq tasks /\ tasks \subseteq stored \cup deleted
  BY DEF Planned
<1>2. HostsKnown(h)' => hosts = hostMap'[h]
  BY <1>1 DEF KnowsNoMore
<1>3. TasksKnown(h)' => stored' \subseteq tasks /\ tasks \subseteq stored' \cup deleted'
  BY <1>1 DEF KnowsNoMore
<1> QED
  BY <1>1, <1>2, <1>3 DEF PlannedNext

LEMMA PlannedPrime ==
    ASSUME NEW h
    PROVE  /\ PlannedNext(h, assign') => Planned(h, assign)'
           /\ PlannedNext(h, new'[h]) => Planned(h, new[h])'
<1>1. ASSUME PlannedNext(h, assign') PROVE Planned(h, assign)'
  BY <1>1 DEF PlannedNext, Planned
<1>2. ASSUME PlannedNext(h, new'[h]) PROVE Planned(h, new[h])'
  BY <1>2 DEF PlannedNext, Planned
<1> QED
  BY <1>1, <1>2

(* A server whose rebalance does nothing in this step.                     *)
SameRebalance(h) ==
    /\ assign' = assign
    /\ rbPc'[h] = rbPc[h] /\ old'[h] = old[h] /\ new'[h] = new[h]
    /\ toRemove'[h] = toRemove[h] /\ toSet'[h] = toSet[h]

LEMMA PlanKept ==
    ASSUME NEW h, ServerPlan(h), SameRebalance(h), KnowsNoMore(h)
    PROVE  ServerPlan(h)'
<1>1. (rbPc[h] = "off")' => Planned(h, assign)'
  BY PlannedKept, PlannedPrime DEF ServerPlan, SameRebalance
<1>2. (rbPc[h] = "tasks" => old[h] = assign)'
  BY DEF ServerPlan, SameRebalance
<1>3. (rbPc[h] = "save")' => Planned(h, new[h])'
  BY PlannedKept, PlannedPrime DEF ServerPlan, SameRebalance
<1>4. (rbPc[h] = "save" => Saves(h))'
  BY DEF ServerPlan, SameRebalance, Saves
<1> QED
  BY <1>1, <1>2, <1>3, <1>4 DEF ServerPlan

(* The other servers, in a step of one.                                    *)
LEMMA OthersPlan ==
    ASSUME PlanInv, TypeInv, NEW h \in Hosts, Others(h),
           UNCHANGED <<assign, stored, deleted>>, undisturbed' \subseteq undisturbed \cup {h}
    PROVE  \A g \in undisturbed' \ {h} : ServerPlan(g)'
<1> SUFFICES ASSUME NEW g \in undisturbed' \ {h} PROVE ServerPlan(g)'
  OBVIOUS
<1>1. g \in undisturbed /\ g \in Hosts \ {h}
  BY DEF TypeInv, Types, RebalanceTypes
<1>2. ServerPlan(g) /\ taskTime' = taskTime /\ SameServer(g)
  BY <1>1 DEF PlanInv, Others
<1>3. SameRebalance(g)
  BY <1>2 DEF SameRebalance, SameServer
<1>4. KnowsNoMore(g)
  BY <1>2 DEF KnowsNoMore, HostsKnown, TasksKnown, SameServer
<1> QED
  BY <1>2, <1>3, <1>4, PlanKept

(* The assignments and the tasks are read.                                 *)
LEMMA ReadAssignmentsPlan ==
    ASSUME PlanInv, TypeInv, NEW h \in Hosts, ReadAssignments(h)
    PROVE  PlanInv'
<1>1. Others(h) /\ undisturbed' \subseteq undisturbed \cup {h}
      /\ UNCHANGED <<assign, stored, deleted>>
  BY ReadAssignmentsStep DEF ReadAssignments, CoordinatorIdle, taskVars
<1>2. rbPc'[h] = "tasks" /\ old'[h] = assign'
  BY DEF ReadAssignments, TypeInv, Types, RebalanceTypes
<1>3. ServerPlan(h)'
  BY <1>2 DEF ServerPlan
<1> QED
  BY <1>1, <1>3, OthersPlan DEF PlanInv

LEMMA ReadTasksPlan ==
    ASSUME PlanInv, TypeInv, NEW h \in Hosts, ReadTasks(h)
    PROVE  PlanInv'
<1> DEFINE plan == Rebalance(hostMap[h], stored)
<1>1. Others(h) /\ undisturbed' = undisturbed
      /\ UNCHANGED <<assign, taskTime, stored, deleted, hostMap>>
  BY ReadTasksStep DEF ReadTasks, CoordinatorIdle, taskVars
<1>2. hostMap[h] \in SUBSET Hosts /\ stored \in SUBSET Tasks /\ (hostMap[h] # {} \/ stored = {})
  BY DEF ReadTasks, TypeInv, Types, TaskTypes, HostTypes
<1>3. /\ rbPc[h] = "tasks" /\ rbPc'[h] = "save" /\ new'[h] = plan
      /\ toRemove'[h] = {t \in Tasks : old[h][t] \notin {NoHost, plan[t]}}
      /\ toSet'[h] = {t \in stored : old[h][t] # plan[t]}
  BY DEF ReadTasks, TypeInv, Types, RebalanceTypes
<1>4. \A t \in Tasks : t \notin stored => plan[t] = NoHost
  <2>1. \A t \in Tasks : IF t \in stored THEN Rebalance(hostMap[h], stored)[t] \in hostMap[h]
                          ELSE Rebalance(hostMap[h], stored)[t] = NoHost
    BY ZenonT(60), <1>2, RebalanceType
  <2> QED
    BY <2>1
<1>5. h \in undisturbed => ServerPlan(h)'
  <2> SUFFICES ASSUME h \in undisturbed PROVE ServerPlan(h)'
    OBVIOUS
  <2>1. PlannedNext(h, plan)
    BY <1>1, <1>2 DEF PlannedNext
  <2> HIDE DEF plan
  <2>2. Planned(h, new[h])'
    BY <1>3, <2>1, PlannedPrime
  <2>3. old[h] = assign
    BY <1>3 DEF PlanInv, ServerPlan
  <2>4. Saves(h)'
    BY <1>1, <1>3, <1>4, <2>3 DEF Saves
  <2> QED
    BY <1>3, <2>2, <2>4 DEF ServerPlan
<1> QED
  BY <1>1, <1>5, OthersPlan DEF PlanInv

(* An assignment is written; every other server is disturbed by it.        *)
LEMMA WriteAssignmentPlan ==
    ASSUME PlanInv, TypeInv, NEW h \in Hosts, NEW t \in Tasks, WriteAssignment(h, t)
    PROVE  PlanInv'
<1>1. undisturbed' = undisturbed \cap {h}
  BY DEF WriteAssignment
<1>2. h \in undisturbed => ServerPlan(h)'
  <2> SUFFICES ASSUME h \in undisturbed PROVE ServerPlan(h)'
    OBVIOUS
  <2>1. UNCHANGED <<hostVars, taskVars, hostMap, checker, seen, ckPc, readTime, holder, rbPc, old, new>>
        /\ rbPc[h] = "save"
    BY DEF WriteAssignment, CoordinatorIdle
  <2>2. Planned(h, new[h]) /\ Saves(h)
    BY <2>1 DEF PlanInv, ServerPlan
  <2>3. KnowsNoMore(h)
    BY <2>1 DEF KnowsNoMore, HostsKnown, TasksKnown, hostVars, taskVars
  <2>4. Planned(h, new[h])'
    BY <2>1, <2>2, <2>3, PlannedKept, PlannedPrime
  <2>5. assign \in [Tasks -> Hosts \cup {NoHost}] /\ toRemove \in [Hosts -> SUBSET Tasks]
        /\ toSet \in [Hosts -> SUBSET Tasks]
    BY DEF TypeInv, Types, TaskTypes, RebalanceTypes, Plans
  <2>6. Saves(h)'
    <3>1. CASE t \in toRemove[h] /\ toRemove' = [toRemove EXCEPT ![h] = @ \ {t}]
               /\ assign' = [assign EXCEPT ![t] = NoHost] /\ UNCHANGED toSet
      BY <2>1, <2>2, <2>5, <3>1 DEF Saves
    <3>2. CASE t \in toSet[h] \ toRemove[h] /\ toSet' = [toSet EXCEPT ![h] = @ \ {t}]
               /\ assign' = [assign EXCEPT ![t] = new[h][t]] /\ UNCHANGED toRemove
      BY <2>1, <2>2, <2>5, <3>2 DEF Saves
    <3> QED
      BY <3>1, <3>2 DEF WriteAssignment
  <2> QED
    BY <2>1, <2>4, <2>6 DEF ServerPlan
<1> QED
  BY <1>1, <1>2 DEF PlanInv

(* The rebalance is over: what is assigned is what was planned.            *)
LEMMA EndRebalancePlan ==
    ASSUME PlanInv, TypeInv, NEW h \in Hosts, EndRebalance(h)
    PROVE  PlanInv'
<1>1. Others(h) /\ undisturbed' = undisturbed
      /\ UNCHANGED <<assign, taskTime, stored, deleted, hostMap, checker>>
  BY EndRebalanceStep DEF EndRebalance, taskVars
<1>2. rbPc[h] = "save" /\ toRemove[h] = {} /\ toSet[h] = {} /\ rbPc'[h] = "off"
      /\ holder'[h] = "nobody"
  BY DEF EndRebalance, LeaveLock, TypeInv, Types, RebalanceTypes
<1>3. h \in undisturbed => ServerPlan(h)'
  <2> SUFFICES ASSUME h \in undisturbed PROVE ServerPlan(h)'
    OBVIOUS
  <2>1. Planned(h, new[h]) /\ Saves(h)
    BY <1>2 DEF PlanInv, ServerPlan
  <2>2. assign = new[h]
    <3>1. assign \in Plans /\ new[h] \in Plans
      BY DEF TypeInv, Types, TaskTypes, RebalanceTypes
    <3>2. \A t \in Tasks : assign[t] = new[h][t]
      BY <1>2, <2>1 DEF Saves
    <3> QED
      BY <3>1, <3>2 DEF Plans
  <2>3. KnowsNoMore(h)
    <3>1. CASE holder[h] = "ck"
      <4>1. UNCHANGED hostVars /\ seen'[h] = readTime[h]
        BY <3>1 DEF EndRebalance, TypeInv, Types, CheckerTypes
      <4>2. HostsKnown(h)' => HostsKnown(h)
        BY <1>1, <1>2, <4>1 DEF HostsKnown, hostVars
      <4>3. TasksKnown(h)' => TasksKnown(h)
        BY <1>1, <1>2, <3>1, <4>1 DEF TasksKnown
      <4> QED
        BY <1>1, <4>2, <4>3 DEF KnowsNoMore
    <3>2. CASE holder[h] # "ck"
      <4>1. holder[h] = "hm" /\ checker[h] # "none"
        BY <1>2, <3>2 DEF TypeInv, ServerInv, Types, RebalanceTypes
      <4>2. UNCHANGED seen
        BY <3>2 DEF EndRebalance
      <4>3. HostsKnown(h)
        BY <4>1 DEF HostsKnown
      <4>4. TasksKnown(h)' => TasksKnown(h)
        BY <1>1, <1>2, <4>2 DEF TasksKnown
      <4> QED
        BY <1>1, <4>3, <4>4 DEF KnowsNoMore
    <3> QED
      BY <3>1, <3>2
  <2>4. Planned(h, assign)'
    BY <1>1, <2>1, <2>2, <2>3, PlannedKept, PlannedPrime
  <2> QED
    BY <1>2, <2>4 DEF ServerPlan
<1> QED
  BY <1>1, <1>3, OthersPlan DEF PlanInv

(* The steps of a server that do not touch its rebalance.                  *)
LEMMA QuietStepPlan ==
    ASSUME PlanInv, TypeInv, NEW h \in Hosts,
           \/ HostListChange(h) \/ IgnoreHostChange(h) \/ StartChecker(h) \/ RestartHost(h)
           \/ \E hosts \in SUBSET Hosts : CoordinatorChanged(h, hosts)
    PROVE  PlanInv'
<1>1. Others(h)
  BY HostListChangeStep, IgnoreHostChangeStep, StartCheckerStep,
     RestartHostStep, CoordinatorChangedStep
<1>2. UNCHANGED <<assign, taskTime, stored, deleted, undisturbed, seen, rbPc, old, new, toRemove, toSet, holder>>
  BY DEF HostListChange, IgnoreHostChange, StartChecker, RestartHost,
      CoordinatorChanged, Unaffected, taskVars, rebalanceVars
<1>3. SameRebalance(h)
  BY <1>2 DEF SameRebalance
<1>4. TasksKnown(h)' => TasksKnown(h)
  <2>1. CASE StartChecker(h)
    <3>1. holder[h] # "ck"
      BY <2>1 DEF StartChecker, TypeInv, ServerInv
    <3> QED
      BY <1>2, <3>1 DEF TasksKnown
  <2>2. CASE ~StartChecker(h)
    <3>1. UNCHANGED readTime
      BY <2>2
      DEF HostListChange, IgnoreHostChange, RestartHost, CoordinatorChanged,
          Unaffected
    <3> QED
      BY <1>2, <3>1 DEF TasksKnown
  <2> QED
    BY <2>1, <2>2
<1>5. HostsKnown(h)' => HostsKnown(h) /\ hostMap'[h] = hostMap[h]
  <2>1. CASE HostListChange(h)
    <3>1. stage[h] = "changed" /\ stage'[h] = "posting" /\ holder[h] # "hm"
      BY <2>1
      DEF HostListChange, PostHosts, TypeInv, ServerInv, Types, HostTypes
    <3> QED
      BY <1>2, <3>1 DEF HostsKnown
  <2>2. CASE IgnoreHostChange(h)
    <3>1. checker'[h] = "none"
      BY <2>2 DEF IgnoreHostChange
    <3> QED
      BY <3>1 DEF HostsKnown
  <2>3. CASE StartChecker(h)
    BY <2>3 DEF StartChecker, HostsKnown, hostVars, rebalanceVars
  <2>4. CASE RestartHost(h)
    BY <2>4 DEF RestartHost, Restart, HostsKnown, rebalanceVars
  <2>5. ASSUME NEW hosts \in SUBSET Hosts, CoordinatorChanged(h, hosts)
        PROVE  ~HostsKnown(h)'
    <3>1. stage[h] = "quiet" /\ stage'[h] = "changed" /\ holder[h] # "hm"
      BY <2>5
      DEF CoordinatorChanged, PostCoordinator, TypeInv, ServerInv, Types,
          HostTypes
    <3> QED
      BY <1>2, <3>1 DEF HostsKnown
  <2> QED
    BY <2>1, <2>2, <2>3, <2>4, <2>5
<1>6. KnowsNoMore(h)
  BY <1>2, <1>4, <1>5 DEF KnowsNoMore
<1>7. h \in undisturbed => ServerPlan(h)'
  BY <1>3, <1>6, PlanKept DEF PlanInv
<1> QED
  BY <1>1, <1>2, <1>7, OthersPlan DEF PlanInv

(* A rebalance begins, or it fails.                                        *)
LEMMA LockStepPlan ==
    ASSUME PlanInv, TypeInv, NEW h \in Hosts, LockHostChange(h) \/ LockChecker(h)
    PROVE  PlanInv'
<1>1. Others(h) /\ undisturbed' = undisturbed /\ UNCHANGED <<assign, stored, deleted>>
  BY LockHostChangeStep, LockCheckerStep
  DEF LockHostChange, LockChecker, Unaffected, taskVars
<1>2. rbPc'[h] = "assignments"
  BY DEF LockHostChange, LockChecker, TakeLock, TypeInv, Types, RebalanceTypes
<1>3. ServerPlan(h)'
  BY <1>2 DEF ServerPlan
<1> QED
  BY <1>1, <1>3, OthersPlan DEF PlanInv

LEMMA FailurePlan ==
    ASSUME PlanInv, TypeInv, NEW h \in Hosts,
           CrashHost(h) \/ \E runtime \in BOOLEAN : RebalanceFails(h, runtime)
    PROVE  PlanInv'
<1>1. Others(h)
  BY CrashHostStep, RebalanceFailsStep
<1>2. undisturbed' = undisturbed \ {h} /\ UNCHANGED <<assign, stored, deleted>>
  BY DEF CrashHost, RebalanceFails, taskVars
<1> QED
  BY <1>1, <1>2, OthersPlan DEF PlanInv

(* The users change the tasks.                                             *)
LEMMA TaskStepPlan ==
    ASSUME PlanInv, TypeInv, NEW t \in Tasks, TaskStep(t)
    PROVE  PlanInv'
<1>1. UNCHANGED <<hostVars, Coordinators>>
  BY DEF TaskStep, WriteTask, DeleteTask, AnnounceDelete
<1>2. ASSUME NEW h \in undisturbed' PROVE ServerPlan(h)'
  <2>1. h \in undisturbed /\ h \in Hosts
    BY <1>1, <1>2 DEF Coordinators, TypeInv, Types, RebalanceTypes
  <2>2. SameRebalance(h)
    BY <1>1 DEF SameRebalance, Coordinators, rebalanceVars
  <2>3. HostsKnown(h)' => HostsKnown(h) /\ hostMap'[h] = hostMap[h]
    BY <1>1 DEF HostsKnown, Coordinators, hostVars, rebalanceVars
  <2>4. TasksKnown(h)' => TasksKnown(h) /\ stored' \subseteq stored
                          /\ stored \cup deleted \subseteq stored' \cup deleted'
    <3>1. CASE DeleteTask(t)
      <4>1. UNCHANGED <<taskTime, seen, holder, readTime>>
        BY <1>1, <3>1 DEF DeleteTask, Coordinators, rebalanceVars
      <4>2. TasksKnown(h)' => TasksKnown(h)
        BY <4>1 DEF TasksKnown
      <4>3. stored' \subseteq stored /\ stored \cup deleted \subseteq stored' \cup deleted'
        BY <3>1 DEF DeleteTask
      <4> QED
        BY <4>2, <4>3
    <3>2. CASE ~DeleteTask(t)
      <4>1. taskTime' = taskTime + 1
        BY <3>2 DEF TaskStep, WriteTask, AnnounceDelete
      <4>2. seen[h] <= taskTime /\ readTime[h] <= taskTime /\ taskTime \in Nat
            /\ seen[h] \in Nat /\ readTime[h] \in Nat
        BY <2>1 DEF TypeInv, ServerInv, Types, TaskTypes, CheckerTypes
      <4>3. ~TasksKnown(h)'
        BY <1>1, <4>1, <4>2 DEF TasksKnown, Coordinators
      <4> QED
        BY <4>3
    <3> QED
      BY <3>1, <3>2
  <2>5. KnowsNoMore(h)
    BY <2>3, <2>4 DEF KnowsNoMore
  <2> QED
    BY <2>1, <2>2, <2>5, PlanKept DEF PlanInv
<1> QED
  BY <1>2 DEF PlanInv

LEMMA PlanStep ==
    ASSUME PlanInv, TypeInv, [Next]_vars
    PROVE  PlanInv'
<1>1. ASSUME NEW h \in Hosts, ServerStep(h) PROVE PlanInv'
  BY <1>1, ReadAssignmentsPlan, ReadTasksPlan, WriteAssignmentPlan,
     EndRebalancePlan, QuietStepPlan, LockStepPlan, FailurePlan
  DEF ServerStep
<1>2. CASE Next
  BY <1>1, <1>2, NextStep, TaskStepPlan
<1>3. CASE UNCHANGED vars
  <2>1. UNCHANGED <<assign, rbPc, old, new, toRemove, toSet, undisturbed, checker, stage, holder, seen,
                    taskTime, readTime, hostMap, stored, deleted>>
    BY <1>3 DEF vars, hostVars, taskVars, rebalanceVars
  <2>2. ASSUME NEW h \in undisturbed' PROVE ServerPlan(h)'
    <3>1. SameRebalance(h) /\ KnowsNoMore(h) /\ h \in undisturbed
      BY <2>1, <2>2 DEF SameRebalance, KnowsNoMore, HostsKnown, TasksKnown
    <3> QED
      BY <3>1, PlanKept DEF PlanInv
  <2> QED
    BY <2>2 DEF PlanInv
<1> QED
  BY <1>2, <1>3

(* Whatever the two threads of a server, the other servers and the users   *)
(* do, a coordinator that is at rest, has seen the latest change and was   *)
(* not disturbed has shared the tasks out: each has one of the hosts, and  *)
(* the load of a host exceeds that of another, reckoned without scores     *)
(* below 0, by one of its tasks at most (AssignmentCoordinator,            *)
(* ScoreBalancingAlgorithm).                                               *)
THEOREM CoordinatorSharesOutCorrect == Spec => []CoordinatorSharesOut
<1>1. Init => PlanInv
  BY DEF Init, PlanInv
<1>2. PlanInv /\ TypeInv /\ [Next]_vars => PlanInv'
  BY PlanStep
<1>3. PlanInv /\ TypeInv => CoordinatorSharesOut
  <2> SUFFICES ASSUME PlanInv, TypeInv, NEW h \in undisturbed,
                      AtRest(h), checker[h] # "none", seen[h] = taskTime, deleted = {}
               PROVE  SharedOut(active[h])
    BY DEF CoordinatorSharesOut, UpToDate
  <2>1. h \in Hosts
    BY DEF TypeInv, Types, RebalanceTypes
  <2>2. stage[h] = "quiet" /\ rbPc[h] = "off" /\ hostMap[h] = active[h]
    BY <2>1 DEF AtRest, TypeInv, ServerInv
  <2>3. Planned(h, assign) /\ HostsKnown(h) /\ TasksKnown(h)
    BY <2>2 DEF PlanInv, ServerPlan, HostsKnown, TasksKnown
  <2>4. PICK hosts \in SUBSET Hosts, tasks \in SUBSET Tasks :
            /\ hosts # {} \/ tasks = {}
            /\ assign = Rebalance(hosts, tasks)
            /\ hosts = hostMap[h]
            /\ stored \subseteq tasks /\ tasks \subseteq stored \cup deleted
    BY <2>3 DEF Planned
  <2>5. hosts = active[h] /\ tasks = stored
    BY <2>2, <2>4
  <2> QED
    BY <2>4, <2>5, PlanIsSharedOut
<1> QED
  BY <1>1, <1>2, <1>3, TypeInvAlways, PTL DEF Spec
=============================================================================
