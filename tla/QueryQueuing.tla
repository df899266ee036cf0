---------------------------- MODULE QueryQueuing ----------------------------
(***************************************************************************)
(* QueryQueuingManager: the threads that run metric queries wait for one   *)
(* of a fixed number of permits, and queries with the same hash - the same *)
(* cache file - run one after the other.  killQuery interrupts the thread  *)
(* that runs a query.                                                      *)
(*                                                                         *)
(* A thread creates a query (DatastoreQueryImpl waits in its constructor), *)
(* executes it and closes it, which calls done.  The queries of a request  *)
(* follow each other on one thread.                                        *)
(***************************************************************************)
EXTENDS Naturals, Sequences, FiniteSets

CONSTANTS
    Threads,     \* the threads that serve query requests
    Hashes,      \* hashes of queries
    Permits,     \* kairosdb.datastore.concurrentQueryThreads
    NoThread     \* no entry in runningQueries

ASSUME ThreadsAssumption ==
    IsFiniteSet(Threads) /\ NoThread \notin Threads /\ Hashes # {}
ASSUME PermitsAssumption == Permits \in Nat \ {0}

VARIABLES
    pc,              \* where each thread is
    hash,            \* hash of the thread's query
    flag,            \* interrupt flag of each thread
    waiting,         \* queue of the fair semaphore
    permits,         \* available permits of the semaphore
    runningQueries   \* the thread that runs the query with a hash

queuingVars == <<pc, hash, flag, waiting, permits, runningQueries>>

(* "arrive" and "queued" before and in semaphore.acquire(), "check" before  *)
(* the lock, "conflict" before the release that follows a conflict,         *)
(* "asleep" in Thread.sleep(100), "running" from createQuery to close(),    *)
(* "closing" and "release" in done()                                        *)
Places == {"idle", "arrive", "queued", "check", "conflict", "asleep", "running", "closing",
           "release"}

Registered(t) == pc[t] \in {"running", "closing"}
HasPermit(t) == pc[t] \in {"check", "conflict", "running", "closing", "release"}
Holders == {t \in Threads : HasPermit(t)}

(* What a thread's hash is before its first query does not matter. *)
AnyHash == CHOOSE h \in Hashes : TRUE

QueuingInit ==
    /\ pc = [t \in Threads |-> "idle"]
    /\ hash = [t \in Threads |-> AnyHash]
    /\ flag = [t \in Threads |-> FALSE]
    /\ waiting = <<>>
    /\ permits = Permits
    /\ runningQueries = [h \in Hashes |-> NoThread]

Goto(t, place) == pc' = [pc EXCEPT ![t] = place]

-----------------------------------------------------------------------------
(* createQuery and waitForTimeToRun                                        *)

CreateQuery(t, h) ==
    /\ pc[t] = "idle"
    /\ hash' = [hash EXCEPT ![t] = h]
    /\ Goto(t, "arrive")
    /\ UNCHANGED <<flag, waiting, permits, runningQueries>>

(* semaphore.acquire() joins the queue of the fair semaphore ... *)
Enqueue(t) ==
    /\ pc[t] = "arrive" /\ ~flag[t]
    /\ waiting' = Append(waiting, t)
    /\ Goto(t, "queued")
    /\ UNCHANGED <<hash, flag, permits, runningQueries>>

(* Mutant: the interrupted wait releases a permit it does not have. *)
AcquireInterruptedReleases(t) ==
    /\ pc[t] \in {"arrive", "asleep"} /\ flag[t]
    /\ flag' = [flag EXCEPT ![t] = FALSE]
    /\ permits' = permits + 1
    /\ Goto(t, "idle")
    /\ UNCHANGED <<hash, waiting, runningQueries>>

(* ... or acquire() or sleep() throws: the thread was interrupted at the end *)
(* of its last query.                                                      *)
AcquireInterrupted(t) ==
    /\ pc[t] \in {"arrive", "asleep"} /\ flag[t]
    /\ flag' = [flag EXCEPT ![t] = FALSE]
    /\ Goto(t, "idle")
    /\ UNCHANGED <<hash, waiting, permits, runningQueries>>

Acquire(t) ==
    /\ pc[t] = "queued" /\ permits > 0 /\ waiting # <<>> /\ Head(waiting) = t
    /\ waiting' = Tail(waiting)
    /\ permits' = permits - 1
    /\ Goto(t, "check")
    /\ UNCHANGED <<hash, flag, runningQueries>>

(* Mutant: the query registers whether or not one with its hash runs. *)
RegisterAnyway(t) ==
    /\ pc[t] = "check"
    /\ runningQueries' = [runningQueries EXCEPT ![hash[t]] = t]
    /\ Goto(t, "running")
    /\ UNCHANGED <<hash, flag, waiting, permits>>

(* Under the lock: the query registers unless one with its hash runs. *)
Register(t) ==
    /\ pc[t] = "check" /\ runningQueries[hash[t]] = NoThread
    /\ runningQueries' = [runningQueries EXCEPT ![hash[t]] = t]
    /\ Goto(t, "running")
    /\ UNCHANGED <<hash, flag, waiting, permits>>

Conflict(t) ==
    /\ pc[t] = "check" /\ runningQueries[hash[t]] # NoThread
    /\ Goto(t, "conflict")
    /\ UNCHANGED <<hash, flag, waiting, permits, runningQueries>>

(* Mutant: a query that met a conflict keeps its permit. *)
ConflictKeepsPermit(t) ==
    /\ pc[t] = "conflict"
    /\ Goto(t, "asleep")
    /\ UNCHANGED <<hash, flag, waiting, permits, runningQueries>>

ReleaseOnConflict(t) ==
    /\ pc[t] = "conflict"
    /\ permits' = permits + 1
    /\ Goto(t, "asleep")
    /\ UNCHANGED <<hash, flag, waiting, runningQueries>>

Wake(t) ==
    /\ pc[t] = "asleep" /\ ~flag[t]
    /\ Goto(t, "arrive")
    /\ UNCHANGED <<hash, flag, waiting, permits, runningQueries>>

-----------------------------------------------------------------------------
(* execute(), close() and done()                                           *)

(* What the query does is interrupted; it may fail or go on. *)
NoticeInterrupt(t) ==
    /\ pc[t] = "running" /\ flag[t]
    /\ flag' = [flag EXCEPT ![t] = FALSE]
    /\ UNCHANGED <<pc, hash, waiting, permits, runningQueries>>

(* execute() has returned or thrown and close() comes to its finally *)
EndQuery(t) ==
    /\ pc[t] = "running"
    /\ Goto(t, "closing")
    /\ UNCHANGED <<hash, flag, waiting, permits, runningQueries>>

(* Mutant: done leaves the query's entry in runningQueries. *)
StaysRegistered(t) ==
    /\ pc[t] = "closing"
    /\ Goto(t, "release")
    /\ UNCHANGED <<hash, flag, waiting, permits, runningQueries>>

Unregister(t) ==
    /\ pc[t] = "closing"
    /\ runningQueries' = [runningQueries EXCEPT ![hash[t]] = NoThread]
    /\ Goto(t, "release")
    /\ UNCHANGED <<hash, flag, waiting, permits>>

Release(t) ==
    /\ pc[t] = "release"
    /\ permits' = permits + 1
    /\ Goto(t, "idle")
    /\ UNCHANGED <<hash, flag, waiting, runningQueries>>

(* The request ends, and the server's pool clears the interrupt flag before *)
(* the thread serves another one.                                          *)
EndRequest(t) ==
    /\ pc[t] = "idle" /\ flag[t]
    /\ flag' = [flag EXCEPT ![t] = FALSE]
    /\ UNCHANGED <<pc, hash, waiting, permits, runningQueries>>

(* killQuery, under the lock *)
KillQuery(h) ==
    /\ runningQueries[h] # NoThread
    /\ flag' = [flag EXCEPT ![runningQueries[h]] = TRUE]
    /\ UNCHANGED <<pc, hash, waiting, permits, runningQueries>>

-----------------------------------------------------------------------------
Wait(t) ==
    \/ Enqueue(t) \/ AcquireInterrupted(t) \/ Acquire(t)
    \/ Register(t) \/ Conflict(t) \/ ReleaseOnConflict(t) \/ Wake(t)

Done(t) == Unregister(t) \/ Release(t)

QueuingNext ==
    \/ \E t \in Threads :
        \/ \E h \in Hashes : CreateQuery(t, h)
        \/ Wait(t) \/ NoticeInterrupt(t) \/ EndQuery(t) \/ Done(t) \/ EndRequest(t)
    \/ \E h \in Hashes : KillQuery(h)

QueuingSpec == QueuingInit /\ [][QueuingNext]_queuingVars

(* The threads are scheduled, a permit goes to the first in the semaphore's *)
(* queue, and a query that runs ends.  No thread has to create a query.     *)
QueuingFairness ==
    \A t \in Threads : WF_queuingVars(Wait(t) \/ EndQuery(t) \/ Done(t))

QueuingFairSpec == QueuingSpec /\ QueuingFairness

-----------------------------------------------------------------------------
QueuingTypeOK ==
    /\ pc \in [Threads -> Places]
    /\ hash \in [Threads -> Hashes]
    /\ flag \in [Threads -> BOOLEAN]
    /\ waiting \in Seq(Threads)
    /\ permits \in 0 .. Permits
    /\ runningQueries \in [Hashes -> Threads \cup {NoThread}]

(* Two queries with the same hash, which would use the same cache file,     *)
(* never run at the same time.                                             *)
HashExclusive ==
    \A t, u \in Threads :
        t # u /\ Registered(t) /\ Registered(u) => hash[t] # hash[u]

(* No more than concurrentQueryThreads queries run, and no permit is lost   *)
(* or made by a conflict, an interrupt or a query that ends.               *)
PermitsConserved == permits + Cardinality(Holders) = Permits

(* killQuery interrupts the thread that runs the query with that hash: not  *)
(* one that waits behind it or has gone on to another.                     *)
KillHitsQuery ==
    [][\A t \in Threads : ~flag[t] /\ flag'[t] =>
          Registered(t) /\ runningQueries[hash[t]] = t]_queuingVars

(* A query that waits is interrupted, by a kill meant for the one before it *)
(* on its thread, or a query with its hash comes to run, however often      *)
(* queries of that hash and of others come and are killed: queries that     *)
(* wait never block each other for ever, and none keeps its permit as it    *)
(* sleeps.  (Which query of the hash runs is open: the one that met a       *)
(* conflict joins the queue anew, and others may keep passing it.)          *)
HashServed ==
    \A t \in Threads, h \in Hashes :
        (pc[t] = "arrive" /\ hash[t] = h)
            ~> (pc[t] = "idle" \/ \E u \in Threads : pc[u] = "running" /\ hash[u] = h)
=============================================================================
