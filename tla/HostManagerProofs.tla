------------------------- MODULE HostManagerProofs --------------------------
(* Proofs about HostManager, for any number of servers and failures.        *)
EXTENDS HostManager, TLAPS

(* The hosts a server has read, and those of them it is about to delete, are*)
(* there only while it reads through them.                                  *)
THEOREM TypeCorrect == Spec => []TypeOK
<1>1. Init => TypeOK
  BY ManagersAssumption, FailuresAssumption DEF Init, TypeOK, Posting
<1>2. TypeOK /\ [Next]_vars => TypeOK'
  <2> SUFFICES ASSUME TypeOK, [Next]_vars PROVE TypeOK'
    OBVIOUS
  <2> USE FailuresAssumption DEF TypeOK, Posting
  <2>1. CASE UNCHANGED vars
    BY <2>1 DEF vars
  <2>2. ASSUME NEW h \in Hosts, Check(h) PROVE TypeOK'
    <3>1. CASE Refresh(h)
      BY <3>1 DEF Refresh, At, Goto
    <3>2. CASE ReadHosts(h)
      BY <3>2 DEF ReadHosts, At, Goto
    <3>3. CASE NoChange(h)
      BY <3>3 DEF NoChange, At, EndCheck, Goto
    <3>4. CASE PostCoordinator(h)
      BY <3>4 DEF PostCoordinator, At, Goto
    <3>5. CASE PostHosts(h)
      BY <3>5 DEF PostHosts, At, Goto
    <3>6. CASE EndPost(h)
      BY <3>6 DEF EndPost, At, EndCheck, Goto
    <3>7. ASSUME NEW g \in Hosts, Expire(h, g) PROVE TypeOK'
      BY <3>7 DEF Expire, At
    <3> QED  BY <2>2, <3>1, <3>2, <3>3, <3>4, <3>5, <3>6, <3>7 DEF Check
  <2>3. ASSUME NEW h \in Hosts, CheckFails(h) PROVE TypeOK'
    BY <2>3 DEF CheckFails, Failure, EndCheck, Goto
  <2>4. ASSUME NEW h \in Hosts, Stall(h) PROVE TypeOK'
    BY <2>4 DEF Stall, Failure
  <2>5. ASSUME NEW h \in Hosts, GrowStale(h) PROVE TypeOK'
    BY <2>5 DEF GrowStale
  <2>6. ASSUME NEW h \in Hosts, Crash(h) PROVE TypeOK'
    BY <2>6 DEF Crash, Failure, EndCheck, Goto
  <2>7. ASSUME NEW h \in Hosts, Restart(h) PROVE TypeOK'
    BY <2>7 DEF Restart
  <2> QED  BY <2>1, <2>2, <2>3, <2>4, <2>5, <2>6, <2>7 DEF Next
<1> QED  BY <1>1, <1>2, PTL DEF Spec

(* To the subscribers of one server the checks of all servers against the   *)
(* table are a sequence of lists, with the coordinator events that belong   *)
(* to them: the steps of a check before its events, and the failures that   *)
(* cut it short, are steps in which nothing happens.                        *)
THEOREM PromiseKept == Spec => KeepsPromise
<1>1. Init => Events!HostInit
  BY DEF Init, Events!HostInit, Posting
<1>2. TypeOK /\ [Next]_vars => [Events!HostNext]_(Events!hostVars)
  <2> SUFFICES ASSUME TypeOK, [Next]_vars PROVE Events!HostNext \/ UNCHANGED Events!hostVars
    OBVIOUS
  <2> USE DEF TypeOK, Posting
  <2>1. CASE UNCHANGED vars
    BY <2>1 DEF vars, Events!hostVars
  <2>2. ASSUME NEW h \in Hosts, Check(h) PROVE Events!HostNext \/ UNCHANGED Events!hostVars
    <3>1. CASE Refresh(h)
      BY <3>1 DEF Refresh, At, Goto, Events!hostVars
    <3>2. CASE ReadHosts(h)
      BY <3>2 DEF ReadHosts, At, Goto, Events!hostVars
    <3>3. CASE NoChange(h)
      BY <3>3 DEF NoChange, At, EndCheck, Goto, Events!hostVars
    <3>4. CASE PostCoordinator(h)
      <4>1. PICK hosts \in SUBSET Hosts : hosts = view[h]
        OBVIOUS
      <4>2. Events!PostCoordinator(h, hosts)
        BY <3>4, <4>1 DEF PostCoordinator, At, Goto, First, Events!PostCoordinator, Events!First
      <4> QED  BY <4>2 DEF Events!HostNext
    <3>5. CASE PostHosts(h)
      <4>1. Events!PostHosts(h)
        BY <3>5 DEF PostHosts, At, Goto, Events!PostHosts
      <4> QED  BY <4>1 DEF Events!HostNext
    <3>6. CASE EndPost(h)
      <4>1. Events!EndPost(h)
        BY <3>6 DEF EndPost, At, EndCheck, Goto, Events!EndPost
      <4> QED  BY <4>1 DEF Events!HostNext
    <3>7. ASSUME NEW g \in Hosts, Expire(h, g) PROVE UNCHANGED Events!hostVars
      BY <3>7 DEF Expire, At, Events!hostVars
    <3> QED  BY <2>2, <3>1, <3>2, <3>3, <3>4, <3>5, <3>6, <3>7 DEF Check
  <2>3. ASSUME NEW h \in Hosts, CheckFails(h) PROVE UNCHANGED Events!hostVars
    BY <2>3 DEF CheckFails, At, EndCheck, Goto, Events!hostVars
  <2>4. ASSUME NEW h \in Hosts, Stall(h) PROVE UNCHANGED Events!hostVars
    BY <2>4 DEF Stall, Events!hostVars
  <2>5. ASSUME NEW h \in Hosts, GrowStale(h) PROVE UNCHANGED Events!hostVars
    BY <2>5 DEF GrowStale, Events!hostVars
  <2>6. ASSUME NEW h \in Hosts, Crash(h) PROVE Events!HostNext
    <3>1. Events!Crash(h)
      BY <2>6 DEF Crash, EndCheck, Goto, Events!Crash
    <3> QED  BY <3>1 DEF Events!HostNext
  <2>7. ASSUME NEW h \in Hosts, Restart(h) PROVE Events!HostNext
    <3>1. Events!Restart(h)
      BY <2>7 DEF Restart, Events!Restart
    <3> QED  BY <3>1 DEF Events!HostNext
  <2> QED  BY <2>1, <2>2, <2>3, <2>4, <2>5, <2>6, <2>7 DEF Next
<1> QED  BY <1>1, <1>2, TypeCorrect, PTL DEF Spec, KeepsPromise, Events!HostSpec
=============================================================================
