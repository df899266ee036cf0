-------------------------- MODULE QueryCacheProofs --------------------------
(***************************************************************************)
(* Proofs about QueryQueuing and QueryCache for any threads, hashes,       *)
(* permits, queries and rows.                                              *)
(*                                                                         *)
(* First QueryQueuing: queries with one hash exclude each other, permits   *)
(* are conserved, and a kill hits the thread that runs the query.          *)
(* HashExclusive is not inductive.  It follows from RegistryInv: a thread  *)
(* between Register and Unregister is the one its hash is mapped to, so    *)
(* two of them cannot have the same hash; the converse makes the entry     *)
(* that killQuery finds name a thread that still runs that query.          *)
(*                                                                         *)
(* QueryCache adds execute() and the cache files without changing when a   *)
(* query may run, so what is proved of QueryQueuing holds of the queries   *)
(* that use the cache files.  AnswerWhole stands on it: a step of a query  *)
(* touches its own search result and the files of its own hash (Own), and  *)
(* the queries that run beside it have other hashes.  So HashInv can say   *)
(* of each hash nothing has gone wrong with what its index and data file   *)
(* hold and how far the one query that executes has come; FreshInv and     *)
(* FilesInv say that a file of a query is not written before the query is, *)
(* and by queries of the same hash only.                                   *)
(***************************************************************************)
EXTENDS QueryCache, FiniteSetTheorems, TLAPS

RegistryInv ==
    /\ \A t \in Threads : Registered(t) => runningQueries[hash[t]] = t
    /\ \A h \in Hashes : runningQueries[h] # NoThread =>
           Registered(runningQueries[h]) /\ hash[runningQueries[h]] = h

IInv == QueuingTypeOK /\ RegistryInv /\ PermitsConserved

-----------------------------------------------------------------------------
(* The number of permits in use stays what it is, grows by one or shrinks  *)
(* by one with the set of threads that hold one.                           *)
LEMMA HoldersFinite ==
    IsFiniteSet(Holders) /\ Cardinality(Holders) \in Nat
<1>1. Holders \subseteq Threads
  BY DEF Holders
<1>2. IsFiniteSet(Holders)
  BY <1>1, ThreadsAssumption, FS_Subset
<1> QED
  BY <1>2, FS_CardinalityType

(* A thread that had no permit and takes one                               *)
LEMMA HolderAdded ==
    ASSUME NEW t \in Threads, ~HasPermit(t), Holders' = Holders \cup {t}
    PROVE  Cardinality(Holders)' = Cardinality(Holders) + 1
<1>1. t \notin Holders
  BY DEF Holders
<1> QED
  BY <1>1, HoldersFinite, FS_AddElement

(* A thread that had a permit and gives it back                            *)
LEMMA HolderRemoved ==
    ASSUME NEW t \in Threads, HasPermit(t), Holders' = Holders \ {t}
    PROVE  /\ Cardinality(Holders)' = Cardinality(Holders) - 1
           /\ Cardinality(Holders) > 0
<1>1. t \in Holders
  BY DEF Holders
<1>2. Cardinality(Holders \ {t}) = Cardinality(Holders) - 1
  BY <1>1, HoldersFinite, FS_RemoveElement
<1>3. IsFiniteSet(Holders \ {t})
  BY HoldersFinite, FS_Subset
<1>4. Cardinality(Holders \ {t}) \in Nat
  BY <1>3, FS_CardinalityType
<1> QED
  BY <1>2, <1>4, HoldersFinite

(* What a move of one thread means for the set of holders.                 *)
LEMMA Moved ==
    ASSUME QueuingTypeOK, NEW t \in Threads, NEW place \in Places, Goto(t, place)
    PROVE  /\ pc' \in [Threads -> Places]
           /\ pc'[t] = place
           /\ \A u \in Threads \ {t} : pc'[u] = pc[u]
BY DEF QueuingTypeOK, Goto

(* The places of a thread that holds a permit                              *)
Holding == {"check", "conflict", "running", "closing", "release"}

(* The set of holders after a move, by where the thread comes from and     *)
(* goes                                                                    *)
LEMMA MovedHolders ==
    ASSUME QueuingTypeOK, NEW t \in Threads, NEW place \in Places, Goto(t, place)
    PROVE  /\ place \in Holding /\ HasPermit(t) => Holders' = Holders
           /\ place \notin Holding /\ ~HasPermit(t) => Holders' = Holders
           /\ place \in Holding /\ ~HasPermit(t) => Holders' = Holders \cup {t}
           /\ place \notin Holding /\ HasPermit(t) => Holders' = Holders \ {t}
BY Moved DEF Holders, HasPermit, Holding

-----------------------------------------------------------------------------
(* The invariant holds initially: no thread is registered and none holds a *)
(* permit.                                                                 *)
LEMMA InitCorrect == QueuingInit => IInv
<1> SUFFICES ASSUME QueuingInit PROVE IInv
  OBVIOUS
<1>1. AnyHash \in Hashes
  BY ThreadsAssumption DEF AnyHash
<1>2. QueuingTypeOK
  BY <1>1, PermitsAssumption DEF QueuingInit, QueuingTypeOK, Places
<1>3. RegistryInv
  BY DEF QueuingInit, RegistryInv, Registered
<1>4. Holders = {}
  BY DEF QueuingInit, Holders, HasPermit
<1>5. PermitsConserved
  BY <1>4, FS_EmptySet, PermitsAssumption DEF QueuingInit, PermitsConserved
<1> QED
  BY <1>2, <1>3, <1>5 DEF IInv

-----------------------------------------------------------------------------
(* Every step conserves the permits: the place a thread goes to and the    *)
(* count of permits change together.                                       *)
LEMMA PermitsStep ==
    ASSUME IInv, QueuingNext
    PROVE  PermitsConserved'
<1> USE DEF IInv
<1>0. permits \in Nat /\ Permits \in Nat
  BY PermitsAssumption DEF QueuingTypeOK
<1>1. ASSUME NEW t \in Threads, NEW h \in Hashes, CreateQuery(t, h)
      PROVE  PermitsConserved'
  <2>1. Holders' = Holders
    BY <1>1, MovedHolders DEF CreateQuery, Places, Holding, HasPermit
  <2> QED
    BY <1>1, <2>1 DEF CreateQuery, PermitsConserved
<1>2. ASSUME NEW t \in Threads, Enqueue(t)
      PROVE  PermitsConserved'
  <2>1. Holders' = Holders
    BY <1>2, MovedHolders DEF Enqueue, Places, Holding, HasPermit
  <2> QED
    BY <1>2, <2>1 DEF Enqueue, PermitsConserved
<1>3. ASSUME NEW t \in Threads, AcquireInterrupted(t)
      PROVE  PermitsConserved'
  <2>1. Holders' = Holders
    BY <1>3, MovedHolders DEF AcquireInterrupted, Places, Holding, HasPermit
  <2> QED
    BY <1>3, <2>1 DEF AcquireInterrupted, PermitsConserved
<1>4. ASSUME NEW t \in Threads, Acquire(t)
      PROVE  PermitsConserved'
  <2>1. Holders' = Holders \cup {t}
    BY <1>4, MovedHolders DEF Acquire, Places, Holding, HasPermit
  <2>2. Cardinality(Holders)' = Cardinality(Holders) + 1
    BY <1>4, <2>1, HolderAdded DEF Acquire, HasPermit
  <2>3. permits' = permits - 1
    BY <1>4 DEF Acquire
  <2> QED
    BY <1>0, <2>2, <2>3, HoldersFinite DEF PermitsConserved
<1>5. ASSUME NEW t \in Threads, Register(t)
      PROVE  PermitsConserved'
  <2>1. Holders' = Holders
    BY <1>5, MovedHolders DEF Register, Places, Holding, HasPermit
  <2> QED
    BY <1>5, <2>1 DEF Register, PermitsConserved
<1>6. ASSUME NEW t \in Threads, Conflict(t)
      PROVE  PermitsConserved'
  <2>1. Holders' = Holders
    BY <1>6, MovedHolders DEF Conflict, Places, Holding, HasPermit
  <2> QED
    BY <1>6, <2>1 DEF Conflict, PermitsConserved
<1>7. ASSUME NEW t \in Threads, ReleaseOnConflict(t)
      PROVE  PermitsConserved'
  <2>1. Holders' = Holders \ {t}
    BY <1>7, MovedHolders DEF ReleaseOnConflict, Places, Holding, HasPermit
  <2>2. Cardinality(Holders)' = Cardinality(Holders) - 1
    BY <1>7, <2>1, HolderRemoved DEF ReleaseOnConflict, HasPermit
  <2>3. permits' = permits + 1
    BY <1>7 DEF ReleaseOnConflict
  <2> QED
    BY <1>0, <2>2, <2>3, HoldersFinite DEF PermitsConserved
<1>8. ASSUME NEW t \in Threads, Wake(t)
      PROVE  PermitsConserved'
  <2>1. Holders' = Holders
    BY <1>8, MovedHolders DEF Wake, Places, Holding, HasPermit
  <2> QED
    BY <1>8, <2>1 DEF Wake, PermitsConserved
<1>9. ASSUME NEW t \in Threads, NoticeInterrupt(t) \/ EndRequest(t)
      PROVE  PermitsConserved'
  BY <1>9 DEF NoticeInterrupt, EndRequest, PermitsConserved, Holders, HasPermit
<1>10. ASSUME NEW t \in Threads, EndQuery(t)
       PROVE  PermitsConserved'
  <2>1. Holders' = Holders
    BY <1>10, MovedHolders DEF EndQuery, Places, Holding, HasPermit
  <2> QED
    BY <1>10, <2>1 DEF EndQuery, PermitsConserved
<1>11. ASSUME NEW t \in Threads, Unregister(t)
       PROVE  PermitsConserved'
  <2>1. Holders' = Holders
    BY <1>11, MovedHolders DEF Unregister, Places, Holding, HasPermit
  <2> QED
    BY <1>11, <2>1 DEF Unregister, PermitsConserved
<1>12. ASSUME NEW t \in Threads, Release(t)
       PROVE  PermitsConserved'
  <2>1. Holders' = Holders \ {t}
    BY <1>12, MovedHolders DEF Release, Places, Holding, HasPermit
  <2>2. Cardinality(Holders)' = Cardinality(Holders) - 1
    BY <1>12, <2>1, HolderRemoved DEF Release, HasPermit
  <2>3. permits' = permits + 1
    BY <1>12 DEF Release
  <2> QED
    BY <1>0, <2>2, <2>3, HoldersFinite DEF PermitsConserved
<1>13. ASSUME NEW h \in Hashes, KillQuery(h)
       PROVE  PermitsConserved'
  BY <1>13 DEF KillQuery, PermitsConserved, Holders, HasPermit
<1> QED
  BY <1>1, <1>2, <1>3, <1>4, <1>5, <1>6, <1>7, <1>8, <1>9, <1>10, <1>11, <1>12, <1>13 DEF
     QueuingNext, Wait, Done

(* Every step keeps the types.  That the permits stay within 0 ..  Permits *)
(* follows from their conservation.                                        *)
LEMMA TypeStep ==
    ASSUME IInv, QueuingNext
    PROVE  QueuingTypeOK'
<1> USE DEF IInv
<1>0. PermitsConserved'
  BY PermitsStep
<1>1. permits \in 0 .. Permits /\ Permits \in Nat
  BY PermitsAssumption DEF QueuingTypeOK
<1>2. permits' \in Nat => permits' \in 0 .. Permits
  <2>1. IsFiniteSet(Holders')
    <3>1. Holders' \subseteq Threads
      BY DEF Holders
    <3> QED
      BY <3>1, ThreadsAssumption, FS_Subset
  <2>2. Cardinality(Holders') \in Nat
    BY <2>1, FS_CardinalityType
  <2> QED
    BY <1>0, <1>1, <2>2 DEF PermitsConserved
<1>3. permits' \in Nat
  BY <1>1 DEF QueuingNext, Wait, Done, CreateQuery, Enqueue, AcquireInterrupted, Acquire, Register,
     Conflict, ReleaseOnConflict, Wake, NoticeInterrupt, EndRequest, EndQuery, Unregister, Release,
     KillQuery
<1>4. pc' \in [Threads -> Places]
  <2>1. ASSUME NEW t \in Threads, NEW place \in Places, Goto(t, place)
        PROVE  pc' \in [Threads -> Places]
    BY <2>1, Moved
  <2>2. "idle" \in Places /\ "arrive" \in Places /\ "queued" \in Places /\ "check" \in Places
        /\ "conflict" \in Places /\ "asleep" \in Places /\ "running" \in Places
        /\ "closing" \in Places /\ "release" \in Places
    BY DEF Places
  <2>3. (\E t \in Threads, place \in Places : Goto(t, place)) \/ pc' = pc
    BY <2>2 DEF QueuingNext, Wait, Done, CreateQuery, Enqueue, AcquireInterrupted, Acquire, Register,
     Conflict, ReleaseOnConflict, Wake, NoticeInterrupt, EndRequest, EndQuery, Unregister, Release,
     KillQuery
  <2> QED
    BY <2>1, <2>3 DEF QueuingTypeOK
<1>5. hash' \in [Threads -> Hashes]
  BY DEF QueuingTypeOK, QueuingNext, Wait, Done, CreateQuery, Enqueue, AcquireInterrupted, Acquire,
     Register, Conflict, ReleaseOnConflict, Wake, NoticeInterrupt, EndRequest, EndQuery, Unregister,
     Release, KillQuery
<1>6. flag' \in [Threads -> BOOLEAN]
  <2>1. (\E u \in Threads \cup {NoThread}, b \in BOOLEAN : flag' = [flag EXCEPT ![u] = b])
        \/ flag' = flag
    BY DEF QueuingTypeOK, QueuingNext, Wait, Done, CreateQuery, Enqueue, AcquireInterrupted, Acquire,
     Register, Conflict, ReleaseOnConflict, Wake, NoticeInterrupt, EndRequest, EndQuery, Unregister,
     Release, KillQuery
  <2> QED
    BY <2>1 DEF QueuingTypeOK
<1>7. waiting' \in Seq(Threads)
  <2>1. waiting \in Seq(Threads)
    BY DEF QueuingTypeOK
  <2>2. \A t \in Threads : Append(waiting, t) \in Seq(Threads)
    BY <2>1
  <2>3. waiting # <<>> => Tail(waiting) \in Seq(Threads)
    BY <2>1
  <2> QED
    BY <2>1, <2>2, <2>3 DEF QueuingNext, Wait, Done, CreateQuery, Enqueue, AcquireInterrupted, Acquire,
     Register, Conflict, ReleaseOnConflict, Wake, NoticeInterrupt, EndRequest, EndQuery, Unregister,
     Release, KillQuery
<1>8. runningQueries' \in [Hashes -> Threads \cup {NoThread}]
  BY DEF QueuingTypeOK, QueuingNext, Wait, Done, CreateQuery, Enqueue, AcquireInterrupted, Acquire,
     Register, Conflict, ReleaseOnConflict, Wake, NoticeInterrupt, EndRequest, EndQuery, Unregister,
     Release, KillQuery
<1> QED
  BY <1>2, <1>3, <1>4, <1>5, <1>6, <1>7, <1>8 DEF QueuingTypeOK

-----------------------------------------------------------------------------
(* Only Register and Unregister change who is registered, and a thread's   *)
(* hash changes only while it is idle.                                     *)
LEMMA RegistryFrame ==
    ASSUME QueuingTypeOK, RegistryInv,
           runningQueries' = runningQueries,
           \A t \in Threads : Registered(t)' <=> Registered(t),
           \A t \in Threads : Registered(t) => hash'[t] = hash[t]
    PROVE  RegistryInv'
<1>1. \A h \in Hashes : runningQueries[h] # NoThread => runningQueries[h] \in Threads
  BY DEF QueuingTypeOK
<1> QED
  BY <1>1 DEF RegistryInv

(* A move that neither registers nor unregisters its thread                *)
LEMMA MovedRegistered ==
    ASSUME QueuingTypeOK, NEW t \in Threads, NEW place \in Places, Goto(t, place),
           Registered(t) <=> place \in {"running", "closing"}
    PROVE  \A u \in Threads : Registered(u)' <=> Registered(u)
BY Moved DEF Registered

(* Every step keeps registered threads and entries of runningQueries in    *)
(* step: Register puts its entry only where there was none, Unregister     *)
(* removes its own.                                                        *)
LEMMA RegistryStep ==
    ASSUME IInv, QueuingNext
    PROVE  RegistryInv'
<1> USE DEF IInv
<1>1. ASSUME NEW t \in Threads, NEW h \in Hashes, CreateQuery(t, h)
      PROVE  RegistryInv'
  <2>1. \A u \in Threads : Registered(u)' <=> Registered(u)
    BY <1>1, MovedRegistered DEF CreateQuery, Places, Registered
  <2>2. \A u \in Threads : Registered(u) => hash'[u] = hash[u]
    BY <1>1 DEF CreateQuery, Registered, QueuingTypeOK
  <2> QED
    BY <1>1, <2>1, <2>2, RegistryFrame DEF CreateQuery
<1>2. ASSUME NEW t \in Threads,
             Enqueue(t) \/ AcquireInterrupted(t) \/ Acquire(t) \/ Conflict(t)
                \/ ReleaseOnConflict(t) \/ Wake(t) \/ EndQuery(t) \/ Release(t)
      PROVE  RegistryInv'
  <2>1. \E place \in Places :
            Goto(t, place) /\ (Registered(t) <=> place \in {"running", "closing"})
    BY <1>2 DEF Enqueue, AcquireInterrupted, Acquire, Conflict, ReleaseOnConflict, Wake, EndQuery,
       Release, Places, Registered
  <2>2. \A u \in Threads : Registered(u)' <=> Registered(u)
    BY <2>1, MovedRegistered
  <2>3. hash' = hash /\ runningQueries' = runningQueries
    BY <1>2 DEF Enqueue, AcquireInterrupted, Acquire, Conflict, ReleaseOnConflict, Wake, EndQuery,
       Release
  <2> QED
    BY <2>2, <2>3, RegistryFrame
<1>3. ASSUME NEW t \in Threads, NoticeInterrupt(t) \/ EndRequest(t)
      PROVE  RegistryInv'
  BY <1>3 DEF NoticeInterrupt, EndRequest, RegistryInv, Registered
<1>4. ASSUME NEW h \in Hashes, KillQuery(h)
      PROVE  RegistryInv'
  BY <1>4 DEF KillQuery, RegistryInv, Registered
<1>5. ASSUME NEW t \in Threads, Register(t)
      PROVE  RegistryInv'
  <2>1. /\ pc[t] = "check" /\ runningQueries[hash[t]] = NoThread
        /\ runningQueries' = [runningQueries EXCEPT ![hash[t]] = t]
        /\ hash' = hash
    BY <1>5 DEF Register
  <2>2. /\ Registered(t)'
        /\ \A u \in Threads \ {t} : Registered(u)' <=> Registered(u)
    BY <1>5, Moved DEF Register, Places, Registered
  <2>3. hash[t] \in Hashes /\ runningQueries \in [Hashes -> Threads \cup {NoThread}]
    BY DEF QueuingTypeOK
  <2>4. \A u \in Threads : Registered(u) => hash[u] # hash[t]
    BY <2>1, ThreadsAssumption DEF RegistryInv
  <2>5. \A u \in Threads : Registered(u)' => runningQueries'[hash'[u]] = u
    <3> SUFFICES ASSUME NEW u \in Threads, Registered(u)'
                 PROVE  runningQueries'[hash[u]] = u
      BY <2>1
    <3>1. CASE u = t
      BY <3>1, <2>1, <2>3
    <3>2. CASE u # t
      <4>1. Registered(u) /\ hash[u] \in Hashes
        BY <3>2, <2>2 DEF QueuingTypeOK
      <4>2. runningQueries'[hash[u]] = runningQueries[hash[u]]
        BY <2>1, <2>3, <2>4, <4>1
      <4> QED
        BY <4>1, <4>2 DEF RegistryInv
    <3> QED
      BY <3>1, <3>2
  <2>6. \A h \in Hashes : runningQueries'[h] # NoThread =>
            Registered(runningQueries[h])' /\ hash'[runningQueries'[h]] = h
    <3> SUFFICES ASSUME NEW h \in Hashes, runningQueries'[h] # NoThread
                 PROVE  Registered(runningQueries[h])' /\ hash[runningQueries'[h]] = h
      BY <2>1
    <3>1. CASE h = hash[t]
      BY <3>1, <2>1, <2>2, <2>3
    <3>2. CASE h # hash[t]
      <4>1. runningQueries'[h] = runningQueries[h]
        BY <3>2, <2>1, <2>3
      <4>2. runningQueries[h] \in Threads /\ Registered(runningQueries[h])
            /\ hash[runningQueries[h]] = h
        BY <4>1, <2>3 DEF RegistryInv
      <4> QED
        BY <4>1, <4>2, <2>2
    <3> QED
      BY <3>1, <3>2
  <2> QED
    BY <2>5, <2>6 DEF RegistryInv
<1>6. ASSUME NEW t \in Threads, Unregister(t)
      PROVE  RegistryInv'
  <2>1. /\ pc[t] = "closing"
        /\ runningQueries' = [runningQueries EXCEPT ![hash[t]] = NoThread]
        /\ hash' = hash
    BY <1>6 DEF Unregister
  <2>2. /\ ~Registered(t)'
        /\ \A u \in Threads \ {t} : Registered(u)' <=> Registered(u)
    BY <1>6, Moved DEF Unregister, Places, Registered
  <2>3. /\ hash[t] \in Hashes /\ runningQueries \in [Hashes -> Threads \cup {NoThread}]
        /\ runningQueries[hash[t]] = t
    BY <2>1 DEF QueuingTypeOK, RegistryInv, Registered
  <2>4. \A u \in Threads : Registered(u)' => runningQueries'[hash'[u]] = u
    <3> SUFFICES ASSUME NEW u \in Threads, Registered(u)'
                 PROVE  runningQueries'[hash[u]] = u
      BY <2>1
    <3>1. u # t /\ Registered(u) /\ runningQueries[hash[u]] = u /\ hash[u] \in Hashes
      BY <2>2 DEF RegistryInv, QueuingTypeOK
    <3> QED
      BY <3>1, <2>1, <2>3
  <2>5. \A h \in Hashes : runningQueries'[h] # NoThread =>
            Registered(runningQueries[h])' /\ hash'[runningQueries'[h]] = h
    <3> SUFFICES ASSUME NEW h \in Hashes, runningQueries'[h] # NoThread
                 PROVE  Registered(runningQueries[h])' /\ hash[runningQueries'[h]] = h
      BY <2>1
    <3>1. h # hash[t] /\ runningQueries'[h] = runningQueries[h]
      BY <2>1, <2>3
    <3>2. runningQueries[h] \in Threads /\ Registered(runningQueries[h])
          /\ hash[runningQueries[h]] = h
      BY <3>1, <2>3 DEF RegistryInv
    <3> QED
      BY <3>1, <3>2, <2>2
  <2> QED
    BY <2>4, <2>5 DEF RegistryInv
<1> QED
  BY <1>1, <1>2, <1>3, <1>4, <1>5, <1>6 DEF QueuingNext, Wait, Done

-----------------------------------------------------------------------------
(* IInv is an invariant: initial, and kept by every step.                  *)
THEOREM Invariance == QueuingSpec => []IInv
<1>1. QueuingInit => IInv
  BY InitCorrect
<1>2. IInv /\ [QueuingNext]_queuingVars => IInv'
  <2> SUFFICES ASSUME IInv, [QueuingNext]_queuingVars PROVE IInv'
    OBVIOUS
  <2>1. CASE QueuingNext
    BY <2>1, TypeStep, RegistryStep, PermitsStep DEF IInv
  <2>2. CASE UNCHANGED queuingVars
    BY <2>2 DEF queuingVars, IInv, QueuingTypeOK, RegistryInv, Registered, PermitsConserved, Holders,
       HasPermit
  <2> QED
    BY <2>1, <2>2
<1> QED
  BY <1>1, <1>2, PTL DEF QueuingSpec

(* The types of the state, for every number of threads, hashes and         *)
(* permits.                                                                *)
THEOREM QueuingTypeCorrect == QueuingSpec => []QueuingTypeOK
<1>1. IInv => QueuingTypeOK
  BY DEF IInv
<1> QED
  BY <1>1, Invariance, PTL

(* Two queries with the same hash are never between Register and           *)
(* Unregister, so their cache files are never used by both at once.        *)
THEOREM HashExclusiveCorrect == QueuingSpec => []HashExclusive
<1>1. IInv => HashExclusive
  BY DEF IInv, RegistryInv, HashExclusive
<1> QED
  BY <1>1, Invariance, PTL

(* Permits are neither lost nor made, on any path through waitForTimeToRun *)
(* and done.                                                               *)
THEOREM PermitsConservedCorrect == QueuingSpec => []PermitsConserved
<1>1. IInv => PermitsConserved
  BY DEF IInv
<1> QED
  BY <1>1, Invariance, PTL

(* killQuery interrupts a thread only while it runs the query it names.    *)
THEOREM KillHitsQueryCorrect == QueuingSpec => KillHitsQuery
<1> DEFINE Hit == \A t \in Threads : ~flag[t] /\ flag'[t] =>
                     Registered(t) /\ runningQueries[hash[t]] = t
<1>1. IInv /\ [QueuingNext]_queuingVars => [Hit]_queuingVars
  <2> SUFFICES ASSUME IInv, QueuingNext, NEW t \in Threads, ~flag[t], flag'[t]
               PROVE  Registered(t) /\ runningQueries[hash[t]] = t
    OBVIOUS
  <2>1. flag \in [Threads -> BOOLEAN]
    BY DEF IInv, QueuingTypeOK
  <2>2. \/ \E h \in Hashes : KillQuery(h)
        \/ \E u \in Threads : flag' = [flag EXCEPT ![u] = FALSE]
        \/ flag' = flag
    BY DEF QueuingNext, Wait, Done, CreateQuery, Enqueue, AcquireInterrupted, Acquire, Register,
       Conflict, ReleaseOnConflict, Wake, NoticeInterrupt, EndRequest, EndQuery, Unregister, Release
  <2>3. PICK h \in Hashes : KillQuery(h)
    <3>1. ~\E u \in Threads : flag' = [flag EXCEPT ![u] = FALSE]
      BY <2>1
    <3> QED
      BY <2>2, <3>1
  <2>4. runningQueries[h] = t /\ t # NoThread
    BY <2>1, <2>3, ThreadsAssumption DEF KillQuery
  <2> QED
    BY <2>4 DEF IInv, RegistryInv
<1> QED
  BY <1>1, Invariance, PTL DEF QueuingSpec, KillHitsQuery

-----------------------------------------------------------------------------
(* Every step of a query and its search result is a step of the queuing    *)
(* manager or leaves its state alone.                                      *)
LEMMA StepQueues == Next => [QueuingNext]_queuingVars
<1> SUFFICES ASSUME Next PROVE QueuingNext \/ UNCHANGED queuingVars
  OBVIOUS
<1>1. ASSUME NEW t \in Threads, NEW h \in Hashes, Create(t, h)
      PROVE  QueuingNext
  BY <1>1 DEF Create, QueuingNext
<1>2. ASSUME NEW t \in Threads, Waiting(t) \/ Ending(t)
      PROVE  QueuingNext
  BY <1>2 DEF Waiting, Ending, QueuingNext
<1>3. ASSUME NEW t \in Threads, Execute(t) \/ QueryFails(t) \/ GroupingFails(t)
      PROVE  QueuingNext \/ UNCHANGED queuingVars
  <2>1. \/ EndQuery(t) \/ NoticeInterrupt(t)
        \/ UNCHANGED queuingVars
    BY <1>3 DEF Execute, OpenCached, CreateResult, QueryReturns, QueryCutShort, ExecuteReturns,
       ExecuteThrows, CloseRows, WriteRow, QueryFails, GroupingFails
  <2> QED
    BY <2>1 DEF QueuingNext
<1>4. ASSUME NEW h \in Hashes, Killing(h)
      PROVE  QueuingNext
  BY <1>4 DEF Killing, QueuingNext
<1>5. ASSUME NEW q \in Queries, WriteLate(q)
      PROVE  UNCHANGED queuingVars
  BY <1>5 DEF WriteLate, WriteRow
<1> QED
  BY <1>1, <1>2, <1>3, <1>4, <1>5 DEF Next

(* DatastoreQueryImpl uses QueryQueuingManager as QueryQueuing says it is  *)
(* used: one createQuery, then one close, on one thread.                   *)
THEOREM Queues == Spec => QueuingSpec
<1>1. Init => QueuingInit
  BY DEF Init
<1>2. [Next]_vars => [QueuingNext]_queuingVars
  BY StepQueues DEF vars
<1> QED
  BY <1>1, <1>2, PTL DEF Spec, QueuingSpec

(* So no two queries that execute at the same time use the same files.     *)
THEOREM FilesExclusive == Spec => []HashExclusive
BY Queues, HashExclusiveCorrect, PTL

-----------------------------------------------------------------------------
(* Where a thread is with its query                                        *)
Begun(t) == pc[t] # "idle"
NotYet(t) == pc[t] \in Places \ {"idle", "running", "closing", "release"} \/ step[t] = "open"

(* A query belongs to one thread, and its hash is the thread's.            *)
ThreadsInv ==
    \A t \in Threads : Begun(t) =>
        /\ query[t] \in 1 .. created
        /\ queryHash[query[t]] = hash[t]
        /\ \A u \in Threads \ {t} : Begun(u) => query[u] # query[t]

(* An index names the query that saved it.                                 *)
IndexNamed == \A h \in Hashes : indexFile[h] # NoIndex => indexFile[h].by \in Queries

(* A query that has not begun to execute has left no trace.                *)
Untouched(q) ==
    /\ writers[q] = {} /\ openFile[q] = NoQuery
    /\ rowSets[q] = {} /\ source[q] = q /\ pending[q] = {}
    /\ answer[q] = "none"
FreshInv ==
    /\ \A q \in Queries : q > created => Untouched(q)
    /\ \A t \in Threads : NotYet(t) => Untouched(query[t])

(* A file exists because a query wrote into it, and all that is done with  *)
(* it is done by queries of its hash.                                      *)
FileOf(f, h) == f # NoQuery => writers[f] # {} /\ queryHash[f] = h
FilesInv ==
    /\ \A h \in Hashes : FileOf(dataFile[h], h)
    /\ \A q \in Queries : FileOf(openFile[q], queryHash[q])

(* While nothing has gone wrong with a hash, rows are written only for the *)
(* query that is being executed;                                           *)
PendingOK(h) ==
    \A q \in Queries : queryHash[q] = h /\ pending[q] # {} =>
        \E t \in Threads : At(t, "query") /\ query[t] = q

(* its index has all rows and goes with a data file written by one query;  *)
IndexOK(h) ==
    indexFile[h] # NoIndex =>
        /\ KeepFiles
        /\ indexFile[h].rows = Rows
        /\ dataFile[h] # NoQuery /\ indexFile[h].by = dataFile[h]
        /\ writers[dataFile[h]] = {dataFile[h]}

(* and the search result of the query that executes has the rows that are  *)
(* no longer pending, in a data file it wrote alone, or all rows of the    *)
(* file from the cache.                                                    *)
Writes(q, h) ==
    /\ indexFile[h] = NoIndex /\ source[q] = q
    /\ rowSets[q] = Rows \ pending[q]
    /\ openFile[q] = dataFile[h]
    /\ rowSets[q] = {} => dataFile[h] = NoQuery /\ writers[q] = {}
    /\ rowSets[q] # {} => dataFile[h] = q /\ writers[q] = {q}
Reads(q, h) ==
    /\ rowSets[q] = Rows
    /\ dataFile[h] # NoQuery /\ openFile[q] = dataFile[h] /\ source[q] = dataFile[h]
    /\ writers[dataFile[h]] = {dataFile[h]}
ResultOK(t, h) ==
    /\ step[t] # "failed"
    /\ step[t] = "query" => Writes(query[t], h)
    /\ step[t] \in {"rows", "read"} => Reads(query[t], h)

AnswersOK(h) == \A q \in Queries : queryHash[q] = h => answer[q] # "partial"

HashOK(h) ==
    /\ PendingOK(h) /\ IndexOK(h) /\ AnswersOK(h)
    /\ \A t \in Threads : step[t] # "none" /\ hash[t] = h => ResultOK(t, h)
HashInv == \A h \in Hashes \ disturbed : HashOK(h)

CacheInv ==
    /\ IInv /\ TypeOK /\ ThreadsInv /\ IndexNamed /\ FreshInv /\ FilesInv /\ HashInv

-----------------------------------------------------------------------------
(* What is known of a thread whose query executes                          *)
LEMMA Executing ==
    ASSUME TypeOK, ThreadsInv, NEW t \in Threads, step[t] # "none"
    PROVE  /\ pc[t] = "running" /\ Begun(t) /\ Registered(t)
           /\ query[t] \in Queries /\ query[t] \in 1 .. created /\ query[t] # NoQuery
           /\ hash[t] \in Hashes /\ queryHash[query[t]] = hash[t]
<1>1. pc[t] = "running" /\ Begun(t) /\ Registered(t) /\ hash[t] \in Hashes
  BY DEF TypeOK, QueuingTypeOK, Begun, Registered
<1>2. query[t] \in 1 .. created /\ queryHash[query[t]] = hash[t]
  BY <1>1 DEF ThreadsInv
<1>3. created \in 0 .. MaxQueries
  BY DEF TypeOK
<1> QED
  BY <1>1, <1>2, <1>3, BoundsAssumption DEF Queries, NoQuery

(* A row goes into a file of the query's hash, or a new file of its own.   *)
LEMMA FileForType ==
    ASSUME TypeOK, NEW q \in Queries
    PROVE  FileFor(q) \in Queries /\ queryHash[q] \in Hashes
BY DEF TypeOK, FileFor

(* internalClose keeps the types of what it changes.                       *)
LEMMA CloseTypes ==
    ASSUME TypeOK, NEW q \in Queries, NEW h \in Hashes,
           InternalClose(q, h) \/ UNCHANGED <<closed, indexFile, dataFile>>
    PROVE  /\ closed' \in [Queries -> BOOLEAN]
           /\ indexFile' \in [Hashes -> [by : Queries \cup {NoQuery}, rows : SUBSET Rows]]
           /\ dataFile' \in [Hashes -> Queries \cup {NoQuery}]
<1>1. CASE UNCHANGED <<closed, indexFile, dataFile>>
  BY <1>1 DEF TypeOK
<1>2. CASE InternalClose(q, h)
  <2>1. rowSets[q] \in SUBSET Rows
    BY DEF TypeOK
  <2>2. closed' \in [Queries -> BOOLEAN]
    BY <1>2 DEF InternalClose, TypeOK
  <2>3. indexFile' \in [Hashes -> [by : Queries \cup {NoQuery}, rows : SUBSET Rows]]
    BY <1>2, <2>1 DEF InternalClose, TypeOK
  <2>4. dataFile' \in [Hashes -> Queries \cup {NoQuery}]
    BY <1>2 DEF InternalClose, TypeOK
  <2> QED
    BY <2>2, <2>3, <2>4
<1> QED
  BY <1>1, <1>2

(* What a thread does around execute() leaves the files alone and moves    *)
(* the thread only.                                                        *)
LEMMA QueuingMoves ==
    ASSUME QueuingTypeOK, NEW t \in Threads, Wait(t) \/ Done(t) \/ EndRequest(t)
    PROVE  /\ pc' \in [Threads -> Places] /\ hash' = hash
           /\ \A u \in Threads \ {t} : pc'[u] = pc[u]
           /\ pc'[t] = "running" => pc[t] = "check" \/ pc[t] = "running"
           /\ pc[t] = "idle" => pc'[t] = "idle"
           /\ pc[t] = "running" => pc'[t] = "running"
           /\ pc'[t] \in Places \ {"idle", "running", "closing", "release"}
                => pc[t] \in Places \ {"idle", "running", "closing", "release"}
           /\ Done(t) \/ EndRequest(t) => pc[t] # "running" /\ pc'[t] # "running"
BY
DEF QueuingTypeOK, Wait, Done, Goto, Places, Enqueue, AcquireInterrupted, Acquire, Register,
    Conflict, ReleaseOnConflict, Wake, Unregister, Release, EndRequest

(* Every step keeps the types.                                             *)
LEMMA CacheTypeStep ==
    ASSUME TypeOK, ThreadsInv, IndexNamed, Next, QueuingTypeOK'
    PROVE  TypeOK'
<1>1. ASSUME NEW t \in Threads, NEW h \in Hashes, Create(t, h)
      PROVE  TypeOK'
  <2>1. created' \in Queries
    BY <1>1, BoundsAssumption DEF Create, TypeOK, Queries
  <2>2. pc[t] = "idle" /\ pc' = [pc EXCEPT ![t] = "arrive"]
    BY <1>1 DEF Create, CreateQuery, Goto
  <2>3. \A u \in Threads : step'[u] # "none" <=> pc'[u] = "running"
    BY <1>1, <2>2 DEF Create, TypeOK, QueuingTypeOK
  <2>4. query' \in [Threads -> Queries \cup {NoQuery}] /\ queryHash' \in [Queries -> Hashes]
    BY <1>1, <2>1 DEF Create, TypeOK
  <2>5. created' \in 0 .. MaxQueries
    BY <2>1, BoundsAssumption DEF Queries
  <2> QED
    BY <1>1, <2>3, <2>4, <2>5 DEF Create, TypeOK, diskVars, resultVars
<1>2. ASSUME NEW t \in Threads, Waiting(t)
      PROVE  TypeOK'
  <2>1. Wait(t) /\ step' = [step EXCEPT ![t] = IF pc'[t] = "running" THEN "open" ELSE @]
    BY <1>2 DEF Waiting
  <2>2. pc[t] # "running"
    BY <2>1 DEF Wait, Enqueue, AcquireInterrupted, Acquire, Register, Conflict,
       ReleaseOnConflict, Wake
  <2>3. step' \in [Threads -> ExecuteSteps]
        /\ \A u \in Threads : step'[u] # "none" <=> pc'[u] = "running"
    BY <2>1, <2>2, QueuingMoves DEF TypeOK, ExecuteSteps
  <2> QED
    BY <1>2, <2>3 DEF Waiting, TypeOK, diskVars, resultVars, idVars
<1>3. ASSUME NEW t \in Threads, Ending(t)
      PROVE  TypeOK'
  <2>1. \A u \in Threads : pc'[u] = "running" <=> pc[u] = "running"
    BY <1>3, QueuingMoves DEF Ending, TypeOK
  <2> QED
    BY <1>3, <2>1 DEF Ending, TypeOK, cacheVars, diskVars, resultVars, idVars
<1>4. ASSUME NEW h \in Hashes, Killing(h)
      PROVE  TypeOK'
  <2>1. kills' \in 0 .. MaxKills
    BY <1>4, BoundsAssumption DEF Killing, TypeOK
  <2> QED
    BY <1>4, <2>1 DEF Killing, KillQuery, TypeOK, diskVars, resultVars
<1>5. ASSUME NEW q \in Queries, NEW r \in Rows, WriteRow(q, r)
      PROVE  TypeOK'
  BY <1>5, FileForType DEF WriteRow, TypeOK, queuingVars, idVars
<1>6. ASSUME NEW t \in Threads, OpenCached(t) \/ CreateResult(t) \/ QueryReturns(t)
      PROVE  TypeOK'
  <2>1. pc' = pc /\ pc[t] = "running" /\ \E s \in {"rows", "query"} : StepTo(t, s)
    BY <1>6 DEF OpenCached, CreateResult, QueryReturns, At, queuingVars
  <2>2. step' \in [Threads -> ExecuteSteps]
        /\ \A u \in Threads : step'[u] # "none" <=> pc'[u] = "running"
    BY <2>1 DEF TypeOK, StepTo, ExecuteSteps
  <2>3. query[t] \in Queries /\ hash[t] \in Hashes
    BY <1>6, Executing DEF OpenCached, CreateResult, QueryReturns, At
  <2>4. CASE OpenCached(t)
    <3>1. indexFile[hash[t]].rows \in SUBSET Rows /\ dataFile[hash[t]] \in Queries
      BY <2>3, <2>4 DEF OpenCached, TypeOK
    <3>2. indexFile[hash[t]].by \in Queries
      BY <2>3, <2>4 DEF OpenCached, IndexNamed
    <3>3. rowSets' \in [Queries -> SUBSET Rows] /\ source' \in [Queries -> Queries]
          /\ openFile' \in [Queries -> Queries \cup {NoQuery}]
      BY <2>3, <2>4, <3>1, <3>2 DEF OpenCached, TypeOK
    <3> QED
      BY <2>2, <2>4, <3>3 DEF OpenCached, TypeOK, idVars, diskVars
  <2>5. CASE CreateResult(t)
    BY <2>2, <2>3, <2>5 DEF CreateResult, TypeOK, NoIndex, idVars, resultVars
  <2>6. CASE QueryReturns(t)
    BY <2>2, <2>3, <2>6 DEF QueryReturns, TypeOK, idVars, diskVars, resultVars
  <2> QED
    BY <1>6, <2>4, <2>5, <2>6
<1>7. ASSUME NEW t \in Threads, QueryFails(t) \/ QueryCutShort(t)
      PROVE  TypeOK'
  <2>1. pc' = pc /\ pc[t] = "running" /\ \E s \in {"rows", "failed"} : StepTo(t, s)
    BY <1>7 DEF QueryFails, QueryCutShort, NoticeInterrupt, At, queuingVars
  <2>2. step' \in [Threads -> ExecuteSteps]
        /\ \A u \in Threads : step'[u] # "none" <=> pc'[u] = "running"
    BY <2>1 DEF TypeOK, StepTo, ExecuteSteps
  <2>3. hash[t] \in Hashes
    BY DEF TypeOK, QueuingTypeOK
  <2> QED
    BY <1>7, <2>2, <2>3, BoundsAssumption DEF QueryFails, QueryCutShort, TypeOK, idVars,
       diskVars, resultVars
<1>8. ASSUME NEW t \in Threads, ExecuteReturns(t)
      PROVE  TypeOK'
  <2>1. pc' = pc /\ pc[t] = "running" /\ StepTo(t, "read")
    BY <1>8 DEF ExecuteReturns, At, queuingVars
  <2>2. step' \in [Threads -> ExecuteSteps]
        /\ \A u \in Threads : step'[u] # "none" <=> pc'[u] = "running"
    BY <2>1 DEF TypeOK, StepTo, ExecuteSteps
  <2>3. query[t] \in Queries /\ hash[t] \in Hashes
    BY <1>8, Executing DEF ExecuteReturns, At
  <2>4. InternalClose(query[t], hash[t]) \/ UNCHANGED <<closed, indexFile, dataFile>>
    BY <1>8 DEF ExecuteReturns
  <2> QED
    BY <1>8, <2>2, <2>3, <2>4, CloseTypes DEF ExecuteReturns, TypeOK, idVars
<1>9. ASSUME NEW t \in Threads, ExecuteThrows(t) \/ CloseRows(t) \/ GroupingFails(t)
      PROVE  TypeOK'
  <2>1. pc' = [pc EXCEPT ![t] = "closing"] /\ pc[t] = "running" /\ StepTo(t, "none")
    BY <1>9 DEF ExecuteThrows, CloseRows, GroupingFails, EndQuery, Goto
  <2>2. step' \in [Threads -> ExecuteSteps]
        /\ \A u \in Threads : step'[u] # "none" <=> pc'[u] = "running"
    BY <2>1 DEF TypeOK, QueuingTypeOK, StepTo, ExecuteSteps
  <2>3. query[t] \in Queries /\ hash[t] \in Hashes
    BY <1>9, Executing DEF ExecuteThrows, CloseRows, GroupingFails, At
  <2>4. CASE ExecuteThrows(t)
    BY <2>2, <2>3, <2>4, CloseTypes DEF ExecuteThrows, TypeOK, idVars
  <2>5. CASE CloseRows(t)
    <3>1. InternalClose(query[t], hash[t]) \/ UNCHANGED <<closed, indexFile, dataFile>>
      BY <2>5 DEF CloseRows
    <3>2. answer' \in [Queries -> {"none", "failed", "partial", "whole"}]
      BY <2>3, <2>5 DEF CloseRows, TypeOK
    <3> QED
      BY <2>2, <2>3, <2>5, <3>1, <3>2, CloseTypes DEF CloseRows, TypeOK, idVars
  <2>6. CASE GroupingFails(t)
    BY <2>2, <2>3, <2>6, BoundsAssumption DEF GroupingFails, TypeOK, idVars, diskVars,
       resultVars
  <2> QED
    BY <1>9, <2>4, <2>5, <2>6
<1>10. ASSUME NEW t \in Threads, Execute(t)
       PROVE  TypeOK'
  BY <1>5, <1>6, <1>7, <1>8, <1>9, <1>10, Executing DEF Execute, At
<1> QED
  BY <1>1, <1>2, <1>3, <1>4, <1>5, <1>7, <1>9, <1>10 DEF Next, WriteLate

(* An index is saved by a query.                                           *)
LEMMA IndexNamedStep ==
    ASSUME TypeOK, ThreadsInv, IndexNamed, Next
    PROVE  IndexNamed'
<1>1. ASSUME NEW t \in Threads, CreateResult(t)
      PROVE  IndexNamed'
  BY <1>1 DEF CreateResult, IndexNamed, TypeOK
<1>2. ASSUME NEW t \in Threads, ExecuteReturns(t) \/ ExecuteThrows(t) \/ CloseRows(t)
      PROVE  IndexNamed'
  <2>1. query[t] \in Queries
    BY <1>2, Executing DEF ExecuteReturns, ExecuteThrows, CloseRows, At
  <2>2. InternalClose(query[t], hash[t]) \/ indexFile' = indexFile
    BY <1>2 DEF ExecuteReturns, ExecuteThrows, CloseRows
  <2> QED
    BY <2>1, <2>2 DEF InternalClose, IndexNamed, TypeOK
<1>3. CASE indexFile' = indexFile
  BY <1>3 DEF IndexNamed
<1> QED
  BY <1>1, <1>2, <1>3 DEF Next, Create, Waiting, Ending, Killing, Execute, OpenCached,
     QueryReturns,
      QueryCutShort, WriteRow, QueryFails, GroupingFails, WriteLate, cacheVars, diskVars

-----------------------------------------------------------------------------
(* A thread keeps its query from createQuery until it is idle again.       *)
LEMMA ThreadsStep ==
    ASSUME TypeOK, ThreadsInv, Next
    PROVE  ThreadsInv'
<1>1. ASSUME NEW t \in Threads, NEW h \in Hashes, Create(t, h)
      PROVE  ThreadsInv'
  <2>1. /\ pc[t] = "idle" /\ pc' = [pc EXCEPT ![t] = "arrive"]
        /\ hash' = [hash EXCEPT ![t] = h] /\ query' = [query EXCEPT ![t] = created + 1]
        /\ created' = created + 1 /\ queryHash' = [queryHash EXCEPT ![created + 1] = h]
    BY <1>1 DEF Create, CreateQuery, Goto
  <2>2. created \in Nat /\ created + 1 \in Queries
    BY <1>1, BoundsAssumption DEF Create, TypeOK, Queries
  <2>3. query'[t] = created + 1 /\ hash'[t] = h /\ queryHash'[created + 1] = h
    BY <2>1, <2>2 DEF TypeOK, QueuingTypeOK
  <2>4. ASSUME NEW u \in Threads \ {t}, Begun(u)'
        PROVE  /\ Begun(u) /\ query'[u] = query[u] /\ hash'[u] = hash[u]
               /\ query[u] \in 1 .. created /\ queryHash'[query[u]] = queryHash[query[u]]
    <3>1. Begun(u) /\ query'[u] = query[u] /\ hash'[u] = hash[u]
      BY <2>1, <2>4 DEF TypeOK, QueuingTypeOK, Begun
    <3> QED
      BY <2>1, <2>2, <3>1 DEF ThreadsInv, TypeOK
  <2> QED
    BY <2>1, <2>2, <2>3, <2>4 DEF ThreadsInv
<1>2. ASSUME UNCHANGED idVars, hash' = hash, \A t \in Threads : Begun(t)' => Begun(t)
      PROVE  ThreadsInv'
  BY <1>2 DEF ThreadsInv, idVars
<1>3. ASSUME NEW t \in Threads, Waiting(t) \/ Ending(t)
      PROVE  ThreadsInv'
  <2>1. hash' = hash /\ \A u \in Threads : Begun(u)' => Begun(u)
    BY <1>3, QueuingMoves DEF Waiting, Ending, TypeOK, Begun
  <2> QED
    BY <1>2, <1>3, <2>1 DEF Waiting, Ending, cacheVars
<1>4. ASSUME NEW h \in Hashes, Killing(h)
      PROVE  ThreadsInv'
  BY <1>4 DEF Killing, KillQuery, ThreadsInv, Begun
<1>5. ASSUME NEW t \in Threads, Execute(t) \/ QueryFails(t) \/ GroupingFails(t)
      PROVE  ThreadsInv'
  <2>1. /\ hash' = hash /\ UNCHANGED idVars
        /\ pc' = pc \/ (pc[t] = "running" /\ pc' = [pc EXCEPT ![t] = "closing"])
    BY <1>5 DEF Execute, OpenCached, CreateResult, QueryReturns, QueryCutShort,
       NoticeInterrupt,
        ExecuteReturns, ExecuteThrows, CloseRows, WriteRow, QueryFails, GroupingFails,
        EndQuery, Goto, queuingVars
  <2>2. \A u \in Threads : Begun(u)' => Begun(u)
    BY <2>1 DEF Begun, TypeOK, QueuingTypeOK
  <2> QED
    BY <1>2, <2>1, <2>2
<1>6. ASSUME NEW q \in Queries, WriteLate(q)
      PROVE  ThreadsInv'
  BY <1>2, <1>6 DEF WriteLate, WriteRow, queuingVars, Begun
<1> QED
  BY <1>1, <1>3, <1>4, <1>5, <1>6 DEF Next

-----------------------------------------------------------------------------
(* Queries that execute at the same time have different hashes.            *)
LEMMA Alone ==
    ASSUME IInv, TypeOK, NEW t \in Threads, NEW u \in Threads,
           step[t] # "none", step[u] # "none", hash[t] = hash[u]
    PROVE  t = u
BY DEF IInv, RegistryInv, TypeOK, Registered

(* What a step of a query q with hash h leaves alone: the results of other *)
(* queries and the files of other hashes.                                  *)
Own(q, h) ==
    /\ UNCHANGED <<queryHash, query, hash, created>>
    /\ disturbed \subseteq disturbed' /\ disturbed' \subseteq disturbed \cup {h}
    /\ \A g \in Hashes \ {h} : dataFile'[g] = dataFile[g] /\ indexFile'[g] = indexFile[g]
    /\ \A p \in Queries \ {q} :
           /\ openFile'[p] = openFile[p] /\ rowSets'[p] = rowSets[p]
           /\ source'[p] = source[p] /\ pending'[p] = pending[p] /\ answer'[p] = answer[p]
    /\ writers' = writers \/ writers' = [writers EXCEPT ![FileFor(q)] = @ \cup {q}]
    /\ \/ dataFile'[h] = dataFile[h] \/ dataFile'[h] = NoQuery
       \/ dataFile'[h] = FileFor(q) /\ q \in writers'[FileFor(q)]
    /\ \/ openFile'[q] = openFile[q] \/ openFile'[q] = NoQuery \/ openFile'[q] = dataFile[h]
       \/ openFile'[q] = FileFor(q) /\ q \in writers'[FileFor(q)]

(* A row of q goes into a file of its hash that exists, or into file q.    *)
LEMMA FileForHash ==
    ASSUME TypeOK, FilesInv, NEW q \in Queries
    PROVE  /\ queryHash[FileFor(q)] = queryHash[q]
           /\ FileFor(q) = q \/ writers[FileFor(q)] # {}
BY DEF TypeOK, FilesInv, FileOf, FileFor

LEMMA WriteRowOwn ==
    ASSUME TypeOK, NEW q \in Queries, NEW r \in Rows, WriteRow(q, r)
    PROVE  Own(q, queryHash[q]) /\ writers'[FileFor(q)] = writers[FileFor(q)] \cup {q}
           /\ UNCHANGED <<pc, step>>
<1>1. FileFor(q) \in Queries /\ queryHash[q] \in Hashes
  BY FileForType
<1>2. writers' = [writers EXCEPT ![FileFor(q)] = @ \cup {q}]
      /\ writers'[FileFor(q)] = writers[FileFor(q)] \cup {q}
  BY <1>1 DEF WriteRow, TypeOK
<1>3. /\ UNCHANGED <<pc, step, queryHash, query, hash, created, disturbed, indexFile, source,
                      answer>>
      /\ openFile' = [openFile EXCEPT ![q] = FileFor(q)]
      /\ rowSets' = [rowSets EXCEPT ![q] = @ \cup {r}]
      /\ pending' = [pending EXCEPT ![q] = @ \ {r}]
  BY DEF WriteRow, idVars, queuingVars
<1>4. /\ \A h \in Hashes \ {queryHash[q]} : dataFile'[h] = dataFile[h]
      /\ dataFile'[queryHash[q]] \in {dataFile[queryHash[q]], FileFor(q)}
  BY <1>1 DEF WriteRow, TypeOK
<1> QED
  BY <1>1, <1>2, <1>3, <1>4 DEF Own, TypeOK

LEMMA CloseOwn ==
    ASSUME TypeOK, NEW q \in Queries, NEW h \in Hashes,
           InternalClose(q, h) \/ UNCHANGED <<closed, indexFile, dataFile>>
    PROVE  /\ \A g \in Hashes \ {h} : dataFile'[g] = dataFile[g] /\ indexFile'[g] = indexFile[g]
           /\ dataFile'[h] = dataFile[h] \/ dataFile'[h] = NoQuery
BY DEF InternalClose, TypeOK

(* Everything execute() and close() do on a thread is about its query.     *)
LEMMA ExecuteOwn ==
    ASSUME TypeOK, ThreadsInv, NEW t \in Threads,
           Execute(t) \/ QueryFails(t) \/ GroupingFails(t)
    PROVE  /\ step[t] # "none" /\ Own(query[t], hash[t]) /\ step'[t] # "open"
           /\ \A u \in Threads \ {t} : pc'[u] = pc[u] /\ step'[u] = step[u]
<1>1. step[t] # "none"
  BY DEF Execute, OpenCached, CreateResult, QueryReturns, QueryCutShort, ExecuteReturns,
      ExecuteThrows, CloseRows, QueryFails, GroupingFails, At
<1>2. query[t] \in Queries /\ hash[t] \in Hashes /\ queryHash[query[t]] = hash[t]
  BY <1>1, Executing
<1>3. /\ \/ step' = step /\ step[t] = "query"
         \/ step' = [step EXCEPT ![t] = step'[t]]
            /\ step'[t] \in {"query", "rows", "read", "failed", "none"}
      /\ pc' = pc \/ pc' = [pc EXCEPT ![t] = "closing"]
  BY DEF Execute, OpenCached, CreateResult, QueryReturns, QueryCutShort, NoticeInterrupt,
      ExecuteReturns, ExecuteThrows, CloseRows, WriteRow, QueryFails, GroupingFails, EndQuery,
      Goto, StepTo, At, queuingVars, TypeOK
<1>4. Own(query[t], hash[t])
  <2>1. CASE At(t, "query") /\ \E r \in Rows : WriteRow(query[t], r)
    BY <1>2, <2>1, WriteRowOwn
  <2>2. CASE OpenCached(t)
    BY <1>2, <2>2 DEF OpenCached, Own, TypeOK, idVars, diskVars, queuingVars
  <2>3. CASE CreateResult(t)
    BY <1>2, <2>3 DEF CreateResult, Own, TypeOK, idVars, resultVars, queuingVars
  <2>4. CASE QueryReturns(t) \/ QueryFails(t) \/ QueryCutShort(t) \/ GroupingFails(t)
    BY <1>2, <2>4 DEF QueryReturns, QueryFails, QueryCutShort, NoticeInterrupt, GroupingFails,
       EndQuery,
        Own, TypeOK, idVars, diskVars, resultVars, queuingVars
  <2>5. CASE ExecuteReturns(t) \/ ExecuteThrows(t) \/ CloseRows(t)
    <3>1. InternalClose(query[t], hash[t]) \/ UNCHANGED <<closed, indexFile, dataFile>>
      BY <2>5 DEF ExecuteReturns, ExecuteThrows, CloseRows
    <3>2. /\ UNCHANGED <<queryHash, query, hash, created, disturbed, writers, openFile,
                         rowSets, source, pending>>
          /\ \A p \in Queries \ {query[t]} : answer'[p] = answer[p]
      BY <1>2, <2>5 DEF ExecuteReturns, ExecuteThrows, CloseRows, EndQuery, TypeOK, idVars,
         queuingVars
    <3> QED
      BY <1>2, <3>1, <3>2, CloseOwn DEF Own
  <2> QED
    BY <2>1, <2>2, <2>3, <2>4, <2>5 DEF Execute
<1> QED
  BY <1>1, <1>3, <1>4 DEF TypeOK, QueuingTypeOK

(* Files that exist go on to exist, under the same hash.                   *)
LEMMA FilesOwn ==
    ASSUME TypeOK, FilesInv, NEW q \in Queries, Own(q, queryHash[q])
    PROVE  FilesInv'
<1>1. \A f \in Queries : writers[f] # {} => writers'[f] # {}
  BY ZenonT(60), FileForType DEF Own, TypeOK
<1>2. queryHash[q] \in Hashes /\ FileFor(q) \in Queries /\ queryHash[FileFor(q)] = queryHash[q]
  BY FileForType, FileForHash
<1>3. \A h \in Hashes : FileOf(dataFile[h], h)'
  <2> SUFFICES ASSUME NEW h \in Hashes PROVE FileOf(dataFile[h], h)'
    OBVIOUS
  <2>1. FileOf(dataFile[h], h) /\ queryHash' = queryHash
        /\ dataFile[h] \in Queries \cup {NoQuery}
    BY DEF FilesInv, Own, TypeOK
  <2>2. CASE h = queryHash[q] /\ dataFile'[h] = FileFor(q) /\ q \in writers'[FileFor(q)]
    BY <1>2, <2>1, <2>2 DEF FileOf
  <2>3. CASE dataFile'[h] = dataFile[h] \/ dataFile'[h] = NoQuery
    BY <1>1, <2>1, <2>3 DEF FileOf
  <2> QED
    BY <2>2, <2>3 DEF Own
<1>4. \A p \in Queries : FileOf(openFile[p], queryHash[p])'
  <2> SUFFICES ASSUME NEW p \in Queries
               PROVE  FileOf(openFile[p], queryHash[p])'
    OBVIOUS
  <2>1. CASE p # q
    BY <1>1, <2>1 DEF Own, FilesInv, FileOf, TypeOK
  <2>2. CASE p = q
    <3>1. /\ FileOf(openFile[q], queryHash[q]) /\ queryHash' = queryHash
          /\ FileOf(dataFile[queryHash[q]], queryHash[q])
          /\ openFile[q] \in Queries \cup {NoQuery}
          /\ dataFile[queryHash[q]] \in Queries \cup {NoQuery}
      BY <1>2 DEF FilesInv, Own, TypeOK
    <3>2. CASE openFile'[q] = FileFor(q) /\ q \in writers'[FileFor(q)]
      BY <1>2, <2>2, <3>1, <3>2 DEF FileOf
    <3>3. CASE openFile'[q] \in {openFile[q], NoQuery, dataFile[queryHash[q]]}
      BY <1>1, <2>2, <3>1, <3>3 DEF FileOf
    <3> QED
      BY <2>2, <3>2, <3>3 DEF Own
  <2> QED
    BY <2>1, <2>2
<1> QED
  BY <1>3, <1>4 DEF FilesInv

LEMMA FilesStep ==
    ASSUME TypeOK, ThreadsInv, FreshInv, FilesInv, Next
    PROVE  FilesInv'
<1>1. ASSUME NEW t \in Threads, NEW h \in Hashes, Create(t, h)
      PROVE  FilesInv'
  <2>1. /\ created + 1 \in Queries /\ created + 1 > created
        /\ UNCHANGED <<dataFile, openFile, writers>>
        /\ queryHash' = [queryHash EXCEPT ![created + 1] = h]
    BY <1>1, BoundsAssumption DEF Create, TypeOK, Queries, diskVars, resultVars
  <2>2. writers[created + 1] = {} /\ openFile[created + 1] = NoQuery
    BY <2>1 DEF FreshInv, Untouched
  <2> QED
    BY <2>1, <2>2 DEF FilesInv, FileOf, TypeOK
<1>2. CASE UNCHANGED <<dataFile, openFile, writers, queryHash>>
  BY <1>2 DEF FilesInv, FileOf
<1>3. ASSUME NEW q \in Queries, NEW r \in Rows, WriteRow(q, r)
      PROVE  FilesInv'
  BY <1>3, WriteRowOwn, FilesOwn
<1>4. ASSUME NEW t \in Threads, Execute(t) \/ QueryFails(t) \/ GroupingFails(t)
      PROVE  FilesInv'
  <2>1. query[t] \in Queries /\ queryHash[query[t]] = hash[t] /\ Own(query[t], hash[t])
    BY <1>4, ExecuteOwn, Executing
  <2> QED
    BY <2>1, FilesOwn
<1> QED
  BY <1>1, <1>2, <1>3, <1>4 DEF Next, WriteLate, Waiting, Ending, Killing, cacheVars, diskVars,
     resultVars, idVars

-----------------------------------------------------------------------------
(* A query whose turn has not come is left alone by what others do.        *)
LEMMA UntouchedKept ==
    ASSUME TypeOK, FilesInv, NEW q \in Queries, Own(q, queryHash[q]),
           NEW p \in Queries \ {q}, Untouched(p)
    PROVE  Untouched(p)'
<1>1. p # FileFor(q) /\ FileFor(q) \in Queries
  BY FileForType, FileForHash DEF Untouched
<1> QED
  BY <1>1 DEF Own, Untouched, TypeOK

LEMMA FreshStep ==
    ASSUME TypeOK, ThreadsInv, FreshInv, FilesInv, Next
    PROVE  FreshInv'
<1>1. ASSUME NEW t \in Threads, NEW h \in Hashes, Create(t, h)
      PROVE  FreshInv'
  <2>1. /\ pc[t] = "idle" /\ pc' = [pc EXCEPT ![t] = "arrive"]
        /\ query' = [query EXCEPT ![t] = created + 1]
        /\ created' = created + 1
        /\ UNCHANGED <<step, writers, openFile, rowSets, source, pending, answer>>
    BY <1>1 DEF Create, CreateQuery, Goto, diskVars, resultVars
  <2>2. created \in Nat /\ created + 1 \in Queries
    BY <1>1, BoundsAssumption DEF Create, TypeOK, Queries
  <2>3. \A q \in Queries : q > created => Untouched(q)'
    BY <2>1 DEF FreshInv, Untouched
  <2>4. \A u \in Threads \ {t} : NotYet(u)' => NotYet(u) /\ query'[u] = query[u]
    BY <2>1 DEF NotYet, TypeOK, QueuingTypeOK
  <2>5. \A u \in Threads \ {t} : NotYet(u)' => Untouched(query[u])'
    BY <2>1, <2>4 DEF FreshInv, Untouched
  <2>6. query'[t] = created + 1 /\ created + 1 > created
    BY <2>1, <2>2 DEF TypeOK
  <2>7. \A u \in Threads : NotYet(u)' => Untouched(query[u])'
    <3> SUFFICES ASSUME NEW u \in Threads, NotYet(u)' PROVE Untouched(query[u])'
      OBVIOUS
    <3>1. CASE u = t
      <4>1. Untouched(created + 1)
        BY <2>2, <2>6 DEF FreshInv
      <4> QED
        BY <2>1, <2>6, <3>1, <4>1 DEF Untouched
    <3>2. CASE u # t
      BY <2>1, <2>4, <3>2 DEF FreshInv, Untouched
    <3> QED
      BY <3>1, <3>2
  <2>8. \A q \in Queries : q > created' => q > created
    BY <2>1, <2>2 DEF Queries
  <2> QED
    BY <2>3, <2>7, <2>8 DEF FreshInv
<1>2. ASSUME UNCHANGED <<query, created, writers, openFile, rowSets, source, pending, answer>>,
             \A u \in Threads : NotYet(u)' => NotYet(u)
      PROVE  FreshInv'
  BY <1>2 DEF FreshInv, Untouched
<1>3. ASSUME NEW t \in Threads, Waiting(t)
      PROVE  FreshInv'
  <2>1. \A u \in Threads : NotYet(u)' => NotYet(u)
    <3>1. Wait(t) /\ step' = [step EXCEPT ![t] = IF pc'[t] = "running" THEN "open" ELSE @]
      BY <1>3 DEF Waiting
    <3>2. pc[t] # "running"
      BY <3>1 DEF Wait, Enqueue, AcquireInterrupted, Acquire, Register, Conflict,
         ReleaseOnConflict, Wake
    <3> QED
      BY <3>1, <3>2, QueuingMoves DEF NotYet, TypeOK, Places
  <2> QED
    BY <1>2, <1>3, <2>1 DEF Waiting, idVars, diskVars, resultVars
<1>4. ASSUME NEW t \in Threads, Ending(t)
      PROVE  FreshInv'
  <2>1. \A u \in Threads : NotYet(u)' => NotYet(u)
    BY <1>4, QueuingMoves DEF Ending, NotYet, TypeOK, cacheVars
  <2> QED
    BY <1>2, <1>4, <2>1 DEF Ending, cacheVars, idVars, diskVars, resultVars
<1>5. ASSUME NEW h \in Hashes, Killing(h)
      PROVE  FreshInv'
  BY <1>2, <1>5 DEF Killing, KillQuery, NotYet, diskVars, resultVars
<1>6. ASSUME NEW t \in Threads, Execute(t) \/ QueryFails(t) \/ GroupingFails(t)
      PROVE  FreshInv'
  <2>1. /\ Own(query[t], hash[t]) /\ query[t] \in Queries /\ query[t] \in 1 .. created
        /\ queryHash[query[t]] = hash[t] /\ pc[t] = "running" /\ Begun(t)
        /\ step'[t] # "open"
        /\ \A u \in Threads \ {t} : pc'[u] = pc[u] /\ step'[u] = step[u]
    BY <1>6, ExecuteOwn, Executing
  <2>2. \A p \in Queries \ {query[t]} : Untouched(p) => Untouched(p)'
    BY <2>1, UntouchedKept
  <2>3. query' = query /\ created' = created /\ created \in Nat
    BY <2>1, BoundsAssumption DEF Own, TypeOK
  <2>4. ~NotYet(t)'
    <3>1. pc' = pc \/ pc' = [pc EXCEPT ![t] = "closing"]
      BY <1>6 DEF Execute, OpenCached, CreateResult, QueryReturns, QueryCutShort,
         NoticeInterrupt,
          ExecuteReturns, ExecuteThrows, CloseRows, WriteRow, QueryFails, GroupingFails,
          EndQuery, Goto, queuingVars
    <3> QED
      BY <2>1, <3>1 DEF NotYet, TypeOK, QueuingTypeOK
  <2>5. ASSUME NEW u \in Threads \ {t}, NotYet(u)'
        PROVE  Untouched(query[u])'
    <3>1. NotYet(u) /\ Begun(u)
      BY <2>1, <2>5 DEF NotYet, Begun, TypeOK
    <3>2. query[u] \in Queries /\ query[u] # query[t]
      <4>1. query[u] \in 1 .. created /\ query[u] # query[t]
        BY <2>1, <3>1 DEF ThreadsInv
      <4>2. created \in 0 .. MaxQueries
        BY DEF TypeOK
      <4> QED
        BY <4>1, <4>2, BoundsAssumption DEF Queries
    <3>3. Untouched(query[u])'
      BY <2>2, <2>3, <3>1, <3>2 DEF FreshInv
    <3> QED
      BY <2>3, <3>3
  <2>6. ASSUME NEW q \in Queries, q > created
        PROVE  Untouched(q)'
    BY <2>1, <2>2, <2>3, <2>6 DEF FreshInv, Queries
  <2> QED
    BY <2>3, <2>4, <2>5, <2>6 DEF FreshInv
<1>7. ASSUME NEW q \in Queries, NEW r \in Rows, WriteRow(q, r)
      PROVE  FreshInv'
  <2>1. Own(q, queryHash[q]) /\ UNCHANGED <<pc, step>>
    BY <1>7, WriteRowOwn
  <2>2. ~Untouched(q)
    BY <1>7 DEF WriteRow, Untouched
  <2>3. \A p \in Queries : Untouched(p) => Untouched(p)'
    BY <2>1, <2>2, UntouchedKept
  <2>4. ASSUME NEW u \in Threads, NotYet(u)
        PROVE  query[u] \in Queries
    BY <2>4, BoundsAssumption DEF ThreadsInv, NotYet, Begun, TypeOK, Queries
  <2>5. query' = query /\ created' = created
    BY <2>1 DEF Own
  <2> QED
    BY <2>1, <2>3, <2>4, <2>5 DEF FreshInv, NotYet
<1> QED
  BY <1>1, <1>3, <1>4, <1>5, <1>6, <1>7 DEF Next, WriteLate

-----------------------------------------------------------------------------
(* What is said of one hash is not affected by a query of another.         *)
LEMMA OtherHash ==
    ASSUME TypeOK, ThreadsInv, FilesInv, NEW q \in Queries, Own(q, queryHash[q]),
           NEW h \in Hashes \ {queryHash[q]}, HashOK(h),
           \A u \in Threads : hash[u] = h => pc'[u] = pc[u] /\ step'[u] = step[u]
    PROVE  HashOK(h)'
<1>1. \A p \in Queries : queryHash[p] = h =>
          /\ p # q /\ queryHash'[p] = h
          /\ openFile'[p] = openFile[p] /\ rowSets'[p] = rowSets[p]
          /\ source'[p] = source[p] /\ pending'[p] = pending[p] /\ answer'[p] = answer[p]
          /\ writers'[p] = writers[p]
  BY FileForType, FileForHash DEF Own, TypeOK
<1>2. /\ UNCHANGED <<queryHash, query, hash>>
      /\ dataFile'[h] = dataFile[h] /\ indexFile'[h] = indexFile[h]
      /\ dataFile[h] # NoQuery => dataFile[h] \in Queries /\ queryHash[dataFile[h]] = h
  BY DEF Own, FilesInv, FileOf, TypeOK
<1>3. PendingOK(h)'
  <2> SUFFICES ASSUME NEW p \in Queries, queryHash[p] = h, pending[p] # {}
               PROVE  \E t \in Threads : At(t, "query")' /\ query[t] = p
    BY <1>1, <1>2 DEF PendingOK
  <2>1. PICK t \in Threads : At(t, "query") /\ query[t] = p
    BY DEF HashOK, PendingOK
  <2>2. hash[t] = h
    BY <2>1, Executing DEF At
  <2> QED
    BY <2>1, <2>2 DEF At
<1>4. IndexOK(h)'
  BY <1>1, <1>2 DEF HashOK, IndexOK
<1>5. AnswersOK(h)'
  BY <1>1, <1>2 DEF HashOK, AnswersOK
<1>6. ASSUME NEW t \in Threads, step'[t] # "none", hash'[t] = h
      PROVE  ResultOK(t, h)'
  <2>1. step[t] # "none" /\ step'[t] = step[t] /\ hash[t] = h /\ query'[t] = query[t]
    BY <1>2, <1>6
  <2>2. ResultOK(t, h) /\ query[t] \in Queries /\ queryHash[query[t]] = h
    BY <2>1, Executing DEF HashOK
  <2> QED
    BY <1>1, <1>2, <2>1, <2>2 DEF ResultOK, Writes, Reads
<1> QED
  BY <1>3, <1>4, <1>5, <1>6 DEF HashOK

(* Of a hash whose query executes, all depends on that query.              *)
LEMMA SameHash ==
    ASSUME IInv, TypeOK, ThreadsInv, NEW t \in Threads, step[t] # "none", HashOK(hash[t]),
           Own(query[t], hash[t]),
           \A u \in Threads \ {t} : step'[u] = step[u],
           pending'[query[t]] = {} \/ At(t, "query")',
           IndexOK(hash[t])', answer'[query[t]] = answer[query[t]] \/ answer'[query[t]] # "partial",
           step'[t] # "none" => ResultOK(t, hash[t])'
    PROVE  HashOK(hash[t])'
<1>1. UNCHANGED <<hash, query, queryHash>> /\ query[t] \in Queries
      /\ queryHash[query[t]] = hash[t]
  BY Executing DEF Own
<1>2. PendingOK(hash[t])'
  <2> SUFFICES ASSUME NEW p \in Queries, queryHash[p] = hash[t], pending'[p] # {}
               PROVE  \E u \in Threads : At(u, "query")' /\ query[u] = p
    BY <1>1 DEF PendingOK
  <2>1. CASE p = query[t]
    BY <2>1
  <2>2. CASE p # query[t]
    <3>1. PICK u \in Threads : At(u, "query") /\ query[u] = p
      BY <2>2 DEF Own, HashOK, PendingOK
    <3>2. hash[u] = hash[t] /\ step[u] # "none"
      BY <3>1, Executing DEF At
    <3> QED
      BY <2>2, <3>1, <3>2, Alone
  <2> QED
    BY <2>1, <2>2
<1>3. AnswersOK(hash[t])'
  BY <1>1 DEF HashOK, AnswersOK, Own
<1>4. \A u \in Threads : step'[u] # "none" /\ hash'[u] = hash[t] => u = t
  BY <1>1, Alone
<1> QED
  BY <1>1, <1>2, <1>3, <1>4 DEF HashOK

-----------------------------------------------------------------------------
(* The step of a query keeps what is said of its hash, unless it fails.    *)
LEMMA ExecuteHash ==
    ASSUME IInv, TypeOK, ThreadsInv, FreshInv, FilesInv, NEW t \in Threads,
           Execute(t) \/ QueryFails(t) \/ GroupingFails(t),
           HashOK(hash[t]), hash[t] \notin disturbed'
    PROVE  HashOK(hash[t])'
<1> DEFINE q == query[t]
           h == hash[t]
<1>1. /\ step[t] # "none" /\ Own(q, h)
      /\ \A u \in Threads \ {t} : step'[u] = step[u]
  BY ExecuteOwn
<1>2. q \in Queries /\ h \in Hashes /\ queryHash[q] = h /\ NoQuery \notin Queries
      /\ pc[t] = "running"
  BY <1>1, Executing DEF Queries, NoQuery
<1>3. ResultOK(t, h) /\ IndexOK(h) /\ UNCHANGED <<hash, query, queryHash>>
  BY <1>1 DEF HashOK, Own
<1>4. step[t] # "query" => pending[q] = {}
  <2> SUFFICES ASSUME pending[q] # {} PROVE step[t] = "query"
    OBVIOUS
  <2>1. PICK u \in Threads : At(u, "query") /\ query[u] = q
    BY <1>2 DEF HashOK, PendingOK
  <2>2. u = t
    BY <1>1, <2>1, Executing DEF At, ThreadsInv
  <2> QED
    BY <2>1, <2>2 DEF At
<1>5. step[t] = "open" => Untouched(q)
  BY DEF FreshInv, NotYet
<1>6. CASE OpenCached(t)
  <2>1. step[t] = "open" /\ step'[t] = "rows" /\ UNCHANGED <<pending, answer>>
    BY <1>6 DEF OpenCached, At, StepTo, TypeOK
  <2>2. UNCHANGED <<dataFile, indexFile, writers>>
        /\ indexFile[h].rows = Rows /\ indexFile[h].by = dataFile[h]
        /\ dataFile[h] # NoQuery /\ writers[dataFile[h]] = {dataFile[h]}
    BY <1>3, <1>6 DEF OpenCached, IndexOK, diskVars
  <2>3. rowSets'[q] = Rows /\ source'[q] = dataFile[h] /\ openFile'[q] = dataFile[h]
    BY <1>2, <1>6, <2>2, RowsAssumption DEF OpenCached, TypeOK
  <2>4. ResultOK(t, h)'
    BY <1>3, <2>1, <2>2, <2>3 DEF ResultOK, Reads
  <2> QED
    BY <1>1, <1>3, <1>4, <2>1, <2>2, <2>4, SameHash DEF IndexOK
<1>7. CASE CreateResult(t)
  <2>1. /\ step[t] = "open" /\ step'[t] = "query" /\ pc' = pc
        /\ UNCHANGED <<answer, writers, openFile, rowSets, source>>
    BY <1>7 DEF CreateResult, At, StepTo, TypeOK, queuingVars, resultVars
  <2>2. dataFile'[h] = NoQuery /\ indexFile'[h] = NoIndex /\ pending'[q] = Rows
    BY <1>2, <1>7 DEF CreateResult, TypeOK
  <2>3. ResultOK(t, h)'
    BY <1>3, <1>5, <2>1, <2>2 DEF ResultOK, Writes, Untouched
  <2> QED
    BY <1>1, <1>2, <1>3, <2>1, <2>2, <2>3, SameHash DEF IndexOK, At
<1>8. CASE QueryReturns(t)
  <2>1. /\ step[t] = "query" /\ step'[t] = "rows" /\ pending[q] = {}
        /\ UNCHANGED <<answer, writers, openFile, rowSets, source, dataFile, indexFile, pending>>
    BY <1>8 DEF QueryReturns, At, StepTo, TypeOK, diskVars, resultVars
  <2>2. ResultOK(t, h)'
    BY <1>2, <1>3, <2>1, RowsAssumption DEF ResultOK, Writes, Reads
  <2> QED
    BY <1>1, <1>3, <2>1, <2>2, SameHash DEF IndexOK
<1>9. CASE \E r \in Rows : WriteRow(q, r) /\ step[t] = "query"
  <2>1. PICK r \in Rows : WriteRow(q, r) /\ step[t] = "query"
    BY <1>9
  <2>2. Writes(q, h)
    BY <1>3, <2>1 DEF ResultOK
  <2>3. FileFor(q) = q
    BY <1>2, <2>2 DEF FileFor, Writes
  <2>4. /\ rowSets'[q] = rowSets[q] \cup {r} /\ pending'[q] = pending[q] \ {r}
        /\ openFile'[q] = q /\ writers'[q] = writers[q] \cup {q} /\ r \in pending[q]
        /\ UNCHANGED <<indexFile, source, step, pc, answer>>
    BY <1>2, <2>1, <2>3 DEF WriteRow, TypeOK, queuingVars
  <2>5. dataFile'[h] = q
    BY <1>2, <2>1, <2>2, <2>3 DEF WriteRow, TypeOK, Writes
  <2>6. rowSets'[q] = Rows \ pending'[q] /\ writers'[q] = {q}
    BY <2>2, <2>4 DEF Writes
  <2>7. Writes(q, h)'
    BY <1>3, <2>2, <2>4, <2>5, <2>6 DEF Writes
  <2>8. ResultOK(t, h)' /\ IndexOK(h)'
    BY <1>3, <2>1, <2>2, <2>4, <2>7 DEF ResultOK, IndexOK, Writes
  <2> QED
    BY <1>1, <1>2, <2>1, <2>4, <2>8, SameHash DEF At
<1>10. CASE QueryFails(t) \/ QueryCutShort(t)
  BY <1>10 DEF QueryFails, QueryCutShort
<1>11. CASE ExecuteReturns(t)
  <2>1. step[t] = "rows" /\ step'[t] = "read" /\ Reads(q, h)
    BY <1>3, <1>11 DEF ExecuteReturns, At, StepTo, TypeOK, ResultOK
  <2>2. rowSets[q] # {}
    BY <2>1, RowsAssumption DEF Reads
  <2>3. UNCHANGED <<answer, writers, openFile, rowSets, source, dataFile, indexFile, pending>>
    BY <1>11, <2>2 DEF ExecuteReturns
  <2>4. ResultOK(t, h)'
    BY <1>3, <2>1, <2>3 DEF ResultOK, Reads
  <2> QED
    BY <1>1, <1>3, <1>4, <2>1, <2>3, <2>4, SameHash DEF IndexOK
<1>12. CASE ExecuteThrows(t)
  BY <1>3, <1>12 DEF ExecuteThrows, At, ResultOK
<1>13. CASE CloseRows(t)
  <2>1. step[t] = "read" /\ step'[t] = "none" /\ Reads(q, h)
    BY <1>3, <1>13 DEF CloseRows, At, StepTo, TypeOK, ResultOK
  <2>2. rowSets[q] # {} /\ Whole(q)
    BY <2>1, RowsAssumption DEF Reads, Whole
  <2>3. /\ answer'[q] = "whole" /\ InternalClose(q, h)
        /\ UNCHANGED <<writers, pending>>
    BY <1>2, <1>13, <2>2 DEF CloseRows, TypeOK
  <2>4. IndexOK(h)'
    <3>1. CASE ~KeepFiles
      BY <1>3, <2>3, <3>1 DEF InternalClose, IndexOK
    <3>2. CASE KeepFiles /\ source[q] # q
      BY <1>3, <2>3, <3>2 DEF InternalClose, IndexOK
    <3>3. CASE KeepFiles /\ source[q] = q
      <4>1. indexFile'[h] = [by |-> q, rows |-> Rows] /\ dataFile'[h] = q
            /\ writers'[q] = {q}
        BY <1>2, <2>1, <2>3, <3>3 DEF InternalClose, Reads, TypeOK
      <4> QED
        BY <1>2, <1>3, <3>3, <4>1 DEF IndexOK
    <3> QED
      BY <3>1, <3>2, <3>3
  <2> QED
    BY <1>1, <1>3, <1>4, <2>1, <2>3, <2>4, SameHash
<1>14. CASE GroupingFails(t)
  <2>1. step[t] = "read" /\ step'[t] = "none" /\ answer'[q] = "failed"
        /\ UNCHANGED <<dataFile, indexFile, writers, pending>>
    BY <1>2, <1>14 DEF GroupingFails, At, StepTo, TypeOK, diskVars
  <2> QED
    BY <1>1, <1>3, <1>4, <2>1, SameHash DEF IndexOK
<1> QED
  BY <1>6, <1>7, <1>8, <1>9, <1>10, <1>11, <1>12, <1>13, <1>14 DEF Execute, At

(* What happens around execute() keeps what is said of every hash.         *)
LEMMA AroundHash ==
    ASSUME TypeOK, ThreadsInv, FreshInv, FilesInv, NEW h \in Hashes, HashOK(h),
           UNCHANGED <<diskVars, resultVars, pending, answer>>,
           \A q \in Queries : queryHash'[q] = queryHash[q] \/ Untouched(q),
           \A u \in Threads : step'[u] = step[u] \/ step'[u] = "open",
           \A u \in Threads : step[u] # "none" =>
               /\ step'[u] = step[u] /\ query'[u] = query[u] /\ hash'[u] = hash[u]
               /\ pc'[u] = pc[u]
    PROVE  HashOK(h)'
<1> USE DEF diskVars, resultVars
<1>1. PendingOK(h)'
  <2> SUFFICES ASSUME NEW q \in Queries, queryHash'[q] = h, pending[q] # {}
               PROVE  \E t \in Threads : At(t, "query")' /\ query'[t] = q
    BY DEF PendingOK
  <2>1. queryHash[q] = h
    BY DEF Untouched
  <2>2. PICK t \in Threads : At(t, "query") /\ query[t] = q
    BY <2>1 DEF HashOK, PendingOK
  <2> QED
    BY <2>2 DEF At
<1>2. IndexOK(h)' /\ AnswersOK(h)'
  BY DEF HashOK, IndexOK, AnswersOK, Untouched
<1>3. ASSUME NEW u \in Threads, step'[u] # "none", hash'[u] = h
      PROVE  ResultOK(u, h)'
  <2>1. CASE step[u] # "none"
    BY <1>3, <2>1 DEF HashOK, ResultOK, Writes, Reads
  <2>2. CASE step[u] = "none"
    BY <1>3, <2>2 DEF ResultOK
  <2> QED
    BY <2>1, <2>2
<1> QED
  BY <1>1, <1>2, <1>3 DEF HashOK

LEMMA HashStep ==
    ASSUME IInv, TypeOK, ThreadsInv, FreshInv, FilesInv, HashInv, Next
    PROVE  HashInv'
<1>1. ASSUME NEW t \in Threads, NEW g \in Hashes, Create(t, g)
      PROVE  HashInv'
  <2>1. /\ pc[t] = "idle" /\ pc' = [pc EXCEPT ![t] = "arrive"]
        /\ query' = [query EXCEPT ![t] = created + 1]
        /\ hash' = [hash EXCEPT ![t] = g]
        /\ queryHash' = [queryHash EXCEPT ![created + 1] = g]
        /\ UNCHANGED <<step, diskVars, resultVars, pending, answer, disturbed>>
    BY <1>1 DEF Create, CreateQuery, Goto
  <2>2. created \in Nat /\ created + 1 \in Queries
    BY <1>1, BoundsAssumption DEF Create, TypeOK, Queries
  <2>3. Untouched(created + 1)
    BY <2>2 DEF FreshInv
  <2>4. \A q \in Queries : queryHash'[q] = queryHash[q] \/ Untouched(q)
    BY <2>1, <2>3 DEF TypeOK
  <2>5. \A u \in Threads : step[u] # "none" =>
            u # t /\ query'[u] = query[u] /\ hash'[u] = hash[u] /\ pc'[u] = pc[u]
    BY <2>1 DEF TypeOK, QueuingTypeOK
  <2> QED
    BY <2>1, <2>4, <2>5, AroundHash DEF HashInv
<1>2. ASSUME NEW t \in Threads, Waiting(t)
      PROVE  HashInv'
  <2>1. Wait(t) /\ step' = [step EXCEPT ![t] = IF pc'[t] = "running" THEN "open" ELSE @]
        /\ UNCHANGED <<queryHash, query, diskVars, resultVars, pending, answer, disturbed>>
    BY <1>2 DEF Waiting, idVars
  <2>2. pc[t] # "running"
    BY <2>1 DEF Wait, Enqueue, AcquireInterrupted, Acquire, Register, Conflict,
       ReleaseOnConflict, Wake
  <2>3. hash' = hash /\ \A u \in Threads \ {t} : pc'[u] = pc[u] /\ step'[u] = step[u]
    BY <2>1, QueuingMoves DEF TypeOK
  <2>4. step[t] = "none" /\ (step'[t] = "none" \/ step'[t] = "open")
    BY <2>1, <2>2 DEF TypeOK
  <2> QED
    BY <2>1, <2>3, <2>4, AroundHash DEF HashInv
<1>3. ASSUME NEW t \in Threads, Ending(t)
      PROVE  HashInv'
  <2>1. /\ UNCHANGED <<step, queryHash, query, diskVars, resultVars, pending, answer, disturbed>>
        /\ hash' = hash /\ \A u \in Threads \ {t} : pc'[u] = pc[u]
        /\ step[t] = "none"
    BY <1>3, QueuingMoves DEF Ending, cacheVars, idVars, TypeOK
  <2> QED
    BY <2>1, AroundHash DEF HashInv
<1>4. ASSUME NEW g \in Hashes, Killing(g)
      PROVE  HashInv'
  BY <1>4, AroundHash DEF Killing, KillQuery, HashInv
<1>5. ASSUME NEW q \in Queries, Own(q, queryHash[q]), NEW h \in Hashes \ disturbed',
             h # queryHash[q],
             \A u \in Threads : hash[u] = h => pc'[u] = pc[u] /\ step'[u] = step[u]
      PROVE  HashOK(h)'
  BY <1>5, OtherHash DEF Own, HashInv
<1>6. ASSUME NEW t \in Threads, Execute(t) \/ QueryFails(t) \/ GroupingFails(t)
      PROVE  HashInv'
  <2>1. /\ Own(query[t], hash[t]) /\ query[t] \in Queries /\ queryHash[query[t]] = hash[t]
        /\ \A u \in Threads \ {t} : pc'[u] = pc[u] /\ step'[u] = step[u]
    BY <1>6, ExecuteOwn, Executing
  <2> SUFFICES ASSUME NEW h \in Hashes \ disturbed' PROVE HashOK(h)'
    BY DEF HashInv
  <2>2. CASE h = hash[t]
    <3>1. HashOK(hash[t])'
      BY <1>6, <2>1, <2>2, ExecuteHash DEF Own, HashInv
    <3> QED
      BY <2>1, <2>2, <3>1 DEF Own
  <2>3. CASE h # hash[t]
    BY <1>5, <2>1, <2>3
  <2> QED
    BY <2>2, <2>3
<1>7. ASSUME NEW q \in Queries, WriteLate(q)
      PROVE  HashInv'
  <2>1. PICK r \in Rows : WriteRow(q, r)
    BY <1>7 DEF WriteLate
  <2>2. Own(q, queryHash[q]) /\ UNCHANGED <<pc, step>>
    BY <2>1, WriteRowOwn
  <2>3. queryHash[q] \in disturbed
    <3>1. pending[q] # {} /\ ~\E t \in Threads : At(t, "query") /\ query[t] = q
      BY <1>7, <2>1 DEF WriteLate, Straggler, WriteRow
    <3> QED
      BY <3>1 DEF HashInv, HashOK, PendingOK, TypeOK
  <2> SUFFICES ASSUME NEW h \in Hashes \ disturbed' PROVE HashOK(h)'
    BY DEF HashInv
  <2> QED
    BY <1>5, <2>2, <2>3 DEF Own
<1> QED
  BY <1>1, <1>2, <1>3, <1>4, <1>6, <1>7 DEF Next

-----------------------------------------------------------------------------
LEMMA CacheInvAlways == Spec => []CacheInv
<1>1. Init => TypeOK /\ ThreadsInv /\ IndexNamed /\ FreshInv /\ FilesInv /\ HashInv
  <2> SUFFICES ASSUME Init
               PROVE  TypeOK /\ ThreadsInv /\ IndexNamed /\ FreshInv /\ FilesInv /\ HashInv
    OBVIOUS
  <2>1. QueuingTypeOK /\ AnyHash \in Hashes
    BY InitCorrect, ThreadsAssumption DEF Init, IInv, AnyHash
  <2>2. TypeOK
    BY <2>1, BoundsAssumption DEF Init, QueuingInit, TypeOK, NoIndex, ExecuteSteps
  <2>3. ThreadsInv /\ IndexNamed /\ FilesInv
    BY DEF Init, QueuingInit, ThreadsInv, Begun, IndexNamed, FilesInv, FileOf
  <2>4. FreshInv
    BY DEF Init, QueuingInit, FreshInv, NotYet, Untouched
  <2>5. HashInv
    BY DEF Init, HashInv, HashOK, PendingOK, IndexOK, AnswersOK
  <2> QED
    BY <2>2, <2>3, <2>4, <2>5
<1>2. CacheInv /\ IInv' /\ [Next]_vars
          => TypeOK' /\ ThreadsInv' /\ IndexNamed' /\ FreshInv' /\ FilesInv' /\ HashInv'
  <2>1. CASE CacheInv /\ UNCHANGED vars
    <3> USE DEF CacheInv, vars, queuingVars, cacheVars, diskVars, resultVars, idVars
    <3>1. TypeOK'
      BY <2>1 DEF TypeOK, QueuingTypeOK
    <3>2. ThreadsInv' /\ IndexNamed'
      BY <2>1 DEF ThreadsInv, Begun, IndexNamed
    <3>3. FreshInv' /\ FilesInv'
      BY <2>1 DEF FreshInv, NotYet, Untouched, FilesInv, FileOf
    <3>4. HashInv'
      BY <2>1, AroundHash DEF HashInv
    <3> QED
      BY <3>1, <3>2, <3>3, <3>4
  <2>2. CASE CacheInv /\ IInv' /\ Next
    BY <2>2, CacheTypeStep, ThreadsStep, IndexNamedStep, FreshStep, FilesStep, HashStep DEF
       CacheInv, IInv
  <2> QED
    BY <2>1, <2>2
<1>3. Spec => []IInv
  BY Queues, Invariance, PTL
<1> QED
  BY <1>1, <1>2, <1>3, PTL DEF Spec, CacheInv

(* The types of the state, for any number of queries and files.            *)
THEOREM CacheTypeCorrect == Spec => []TypeOK
<1>1. CacheInv => TypeOK
  BY DEF CacheInv
<1> QED
  BY <1>1, CacheInvAlways, PTL

(* A query of a hash no query of which has failed or was cut short gets    *)
(* every row, as it was written for it or for the query whose files it     *)
(* found: whichever queries of this hash and of others run, fail, are      *)
(* killed, and leave listeners behind that go on writing.                  *)
THEOREM AnswerWholeCorrect == Spec => []AnswerWhole
<1>1. CacheInv => AnswerWhole
  BY DEF CacheInv, HashInv, HashOK, AnswersOK, AnswerWhole, TypeOK
<1> QED
  BY <1>1, CacheInvAlways, PTL
=============================================================================
