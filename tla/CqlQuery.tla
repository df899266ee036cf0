------------------------------ MODULE CqlQuery ------------------------------
(***************************************************************************)
(* One metric query against Cassandra: cqlQueryWithRowKeys sends one CQL   *)
(* query for each row key, at most simultaneous_cql_queries at a time, a   *)
(* pool of query_reader_threads runs a QueryListener on each result, and   *)
(* the QueryMonitor carries a failure, or a limit that was passed, back to *)
(* the calling thread.  The calling thread counts the listeners with the   *)
(* permits of a semaphore.  killQuery interrupts it.                       *)
(*                                                                         *)
(* Row keys are numbered in the order the iterator returns them.  A result *)
(* is the number of data points in it.  A Cassandra query that is in       *)
(* flight is answered, fails or is cancelled.                              *)
(***************************************************************************)
EXTENDS Naturals, FiniteSets

CONSTANTS
    RowCount,       \* row keys the iterator returns
    RowSize,        \* data points in the time range, for each row key
    Simultaneous,   \* simultaneous_cql_queries
    ReaderThreads,  \* query_reader_threads
    Limit,          \* query_limit, 0 when there is none
    TimeLimit,      \* whether query_time_limit_sec is set
    MaxFaults,      \* bound: exceptions from Cassandra, the iterator or a result
    MaxKills        \* bound: calls of killQuery

Rows == 1 .. RowCount

ASSUME SizesAssumption ==
    /\ RowCount \in Nat
    /\ RowSize \in [Rows -> Nat]
ASSUME PoolsAssumption ==
    /\ Simultaneous \in Nat \ {0}
    /\ ReaderThreads \in Nat \ {0}
ASSUME LimitsAssumption == Limit \in Nat /\ TimeLimit \in BOOLEAN
ASSUME BoundsAssumption == MaxFaults \in Nat /\ MaxKills \in Nat

VARIABLES
    pc,           \* where the calling thread is
    nextRow,      \* the next row key of the iterator
    holding,      \* the calling thread has a permit for a query it has not sent
    interrupted,  \* interrupt flag of the calling thread
    permits,      \* querySemaphore
    keepRunning,  \* m_keepRunning of the QueryMonitor
    exception,    \* whether m_exception of the QueryMonitor is set
    counter,      \* m_counter of the QueryMonitor
    shutdown,     \* resultsExecutor.shutdown() was called
    listener,     \* state of the query and the QueryListener of a row key
    buffered,     \* data points a listener has passed to its DataPointWriter
    written,      \* data points the writer has put in the search result
    faults, kills

mainVars == <<pc, nextRow, holding, interrupted>>
monitorVars == <<keepRunning, exception, counter>>
rowVars == <<listener, buffered, written>>
boundVars == <<faults, kills>>
vars == <<mainVars, permits, monitorVars, shutdown, rowVars, boundVars>>

(* "sent" in flight, "answered" and "refused" queued on the executor with  *)
(* a result or an exception, "reading" in onSuccess, "failing" between the *)
(* two assignments of failQuery, "leaving" before the release in finally,  *)
(* "rejected" when the executor was shut down before the answer came       *)
Phases == {"none", "sent", "answered", "refused", "reading", "failing", "leaving",
           "done", "rejected"}
Steps == {"keys", "next", "permit", "monitor", "check", "drain", "shutdown", "final",
          "returned", "thrown"}

Ended == pc \in {"returned", "thrown"}
InFlight == {r \in Rows : listener[r] \notin {"none", "done", "rejected"}}
OnReader == {r \in Rows : listener[r] \in {"reading", "failing", "leaving"}}

Init ==
    /\ pc = "keys" /\ nextRow = 1 /\ holding = FALSE /\ interrupted = FALSE
    /\ permits = Simultaneous
    /\ keepRunning = TRUE /\ exception = FALSE /\ counter = 0
    /\ shutdown = FALSE
    /\ listener = [r \in Rows |-> "none"]
    /\ buffered = [r \in Rows |-> 0]
    /\ written = [r \in Rows |-> 0]
    /\ faults = 0 /\ kills = 0

-----------------------------------------------------------------------------
(* Mutants: plausible bugs the properties find.                            *)

(* The interrupt is logged, as Drain does, and the loop goes on *)
AcquireInterruptedGoesOn ==
    /\ pc = "permit" /\ interrupted
    /\ interrupted' = FALSE
    /\ pc' = "monitor"
    /\ UNCHANGED <<nextRow, holding, permits, monitorVars, shutdown, rowVars, boundVars>>

(* The finally of onSuccess releases before a failure is reported *)
ReadFailsUnseen(r) ==
    /\ listener[r] = "reading" /\ faults < MaxFaults
    /\ faults' = faults + 1
    /\ written' = [written EXCEPT ![r] = buffered[r]]
    /\ keepRunning' = FALSE
    /\ permits' = permits + 1
    /\ listener' = [listener EXCEPT ![r] = "done"]
    /\ UNCHANGED <<mainVars, exception, counter, shutdown, buffered, kills>>

(* An empty result is left before the try, and its permit with it *)
ReleaseIfRead(r) ==
    /\ listener[r] = "leaving"
    /\ permits' = IF RowSize[r] = 0 THEN permits ELSE permits + 1
    /\ listener' = [listener EXCEPT ![r] = "done"]
    /\ UNCHANGED <<mainVars, monitorVars, shutdown, buffered, written, boundVars>>

(* release for acquire: the listener gives back a second permit *)
AcquireReleases ==
    /\ pc = "permit" /\ ~interrupted /\ permits > 0
    /\ permits' = permits + 1
    /\ holding' = TRUE
    /\ pc' = "monitor"
    /\ UNCHANGED <<nextRow, interrupted, monitorVars, shutdown, rowVars, boundVars>>
-----------------------------------------------------------------------------
(* The calling thread: getKeysForQueryIterator, then the loop over the row  *)
(* keys                                                                     *)

(* The index queries of the iterator answer, or the wait for them is        *)
(* interrupted and throws.                                                  *)
ReadKeys ==
    /\ pc = "keys"
    /\ pc' = IF interrupted THEN "thrown" ELSE "next"
    /\ interrupted' = FALSE
    /\ UNCHANGED <<nextRow, holding, permits, monitorVars, shutdown, rowVars, boundVars>>

(* The index queries or a page of the iterator fail: the exception leaves   *)
(* cqlQueryWithRowKeys past its executor.                                   *)
KeysFail ==
    /\ pc \in {"keys", "next"} /\ faults < MaxFaults
    /\ faults' = faults + 1
    /\ pc' = "thrown"
    /\ UNCHANGED <<nextRow, holding, interrupted, permits, monitorVars, shutdown, rowVars, kills>>

HasNext ==
    /\ pc = "next"
    /\ pc' = IF nextRow \in Rows THEN "permit" ELSE "check"
    /\ UNCHANGED <<nextRow, holding, interrupted, permits, monitorVars, shutdown, rowVars, boundVars>>

(* querySemaphore.acquire() *)
AcquirePermit ==
    /\ pc = "permit" /\ ~interrupted /\ permits > 0
    /\ permits' = permits - 1
    /\ holding' = TRUE
    /\ pc' = "monitor"
    /\ UNCHANGED <<nextRow, interrupted, monitorVars, shutdown, rowVars, boundVars>>

(* ... and the InterruptedException it throws *)
AcquireInterrupted ==
    /\ pc = "permit" /\ interrupted
    /\ interrupted' = FALSE
    /\ keepRunning' = FALSE /\ exception' = TRUE
    /\ pc' = "monitor"
    /\ UNCHANGED <<nextRow, holding, permits, counter, shutdown, rowVars, boundVars>>

(* executeAsync and addCallback, while keepRunning() says so *)
Send ==
    /\ pc = "monitor" /\ keepRunning
    /\ Limit = 0 \/ counter <= Limit
    /\ listener' = [listener EXCEPT ![nextRow] = "sent"]
    /\ nextRow' = nextRow + 1
    /\ holding' = FALSE
    /\ pc' = "next"
    /\ UNCHANGED <<interrupted, permits, monitorVars, shutdown, buffered, written, boundVars>>

(* What keepRunning() finds: a failure, the time limit or the point limit *)
Stopped == ~keepRunning
TimeIsUp == keepRunning /\ TimeLimit
LimitPassed == keepRunning /\ Limit # 0 /\ counter > Limit

(* "Something broke cancel queries": a cancelled future calls onFailure;    *)
(* one that has its answer stays as it is.  The permit acquired for this    *)
(* row key is not released.                                                 *)
Cancel ==
    /\ pc = "monitor"
    /\ \/ Stopped /\ UNCHANGED <<keepRunning, exception>>
       \/ (TimeIsUp \/ LimitPassed) /\ keepRunning' = FALSE /\ exception' = TRUE
    /\ listener' = [r \in Rows |-> IF listener[r] = "sent" THEN "refused" ELSE listener[r]]
    /\ pc' = "check"
    /\ UNCHANGED <<nextRow, holding, interrupted, permits, counter, shutdown, buffered, written,
                   boundVars>>

(* The calling thread waits for the listeners only if no exception is set *)
CheckException ==
    /\ pc = "check"
    /\ pc' = IF exception THEN "shutdown" ELSE "drain"
    /\ UNCHANGED <<nextRow, holding, interrupted, permits, monitorVars, shutdown, rowVars, boundVars>>

(* querySemaphore.acquire(simultaneous): all the listeners are done *)
Drain ==
    /\ pc = "drain" /\ ~interrupted /\ permits >= Simultaneous
    /\ permits' = permits - Simultaneous
    /\ pc' = "shutdown"
    /\ UNCHANGED <<nextRow, holding, interrupted, monitorVars, shutdown, rowVars, boundVars>>

(* "Query interrupted" is logged, and the shutdown is skipped *)
DrainInterrupted ==
    /\ pc = "drain" /\ interrupted
    /\ interrupted' = FALSE
    /\ pc' = "final"
    /\ UNCHANGED <<nextRow, holding, permits, monitorVars, shutdown, rowVars, boundVars>>

Shutdown ==
    /\ pc = "shutdown"
    /\ shutdown' = TRUE
    /\ pc' = "final"
    /\ UNCHANGED <<nextRow, holding, interrupted, permits, monitorVars, rowVars, boundVars>>

Finish ==
    /\ pc = "final"
    /\ pc' = IF exception THEN "thrown" ELSE "returned"
    /\ UNCHANGED <<nextRow, holding, interrupted, permits, monitorVars, shutdown, rowVars, boundVars>>

Main ==
    \/ ReadKeys \/ HasNext \/ AcquirePermit \/ AcquireInterrupted \/ Send \/ Cancel
    \/ CheckException \/ Drain \/ DrainInterrupted \/ Shutdown \/ Finish

(* killQuery on the thread that runs the query *)
Kill ==
    /\ ~Ended /\ kills < MaxKills
    /\ kills' = kills + 1
    /\ interrupted' = TRUE
    /\ UNCHANGED <<pc, nextRow, holding, permits, monitorVars, shutdown, rowVars, faults>>

-----------------------------------------------------------------------------
(* The queries in flight and their listeners                               *)

(* A result, or the driver's exception, reaches the callback: the executor  *)
(* queues the listener, or rejects it once it is shut down.                 *)
Deliver(r, phase) ==
    /\ listener[r] = "sent"
    /\ listener' = [listener EXCEPT ![r] = IF shutdown THEN "rejected" ELSE phase]
    /\ UNCHANGED <<mainVars, permits, monitorVars, shutdown, buffered, written>>

Answer(r) == Deliver(r, "answered") /\ UNCHANGED boundVars

Refuse(r) ==
    /\ faults < MaxFaults
    /\ Deliver(r, "refused")
    /\ faults' = faults + 1
    /\ UNCHANGED kills

ReaderFree == Cardinality(OnReader) < ReaderThreads

(* onSuccess: an empty result is left at once *)
StartReading(r) ==
    /\ listener[r] = "answered" /\ ReaderFree
    /\ listener' = [listener EXCEPT ![r] = IF RowSize[r] = 0 THEN "leaving" ELSE "reading"]
    /\ UNCHANGED <<mainVars, permits, monitorVars, shutdown, buffered, written, boundVars>>

ReadPoint(r) ==
    /\ listener[r] = "reading" /\ buffered[r] < RowSize[r]
    /\ buffered' = [buffered EXCEPT ![r] = @ + 1]
    /\ counter' = counter + 1
    /\ UNCHANGED <<mainVars, permits, keepRunning, exception, shutdown, listener, written, boundVars>>

(* The try-with-resources closes the writer, which writes the row *)
CloseRow(r) ==
    /\ listener[r] = "reading" /\ buffered[r] = RowSize[r]
    /\ written' = [written EXCEPT ![r] = buffered[r]]
    /\ listener' = [listener EXCEPT ![r] = "leaving"]
    /\ UNCHANGED <<mainVars, permits, monitorVars, shutdown, buffered, boundVars>>

(* An exception while reading: the writer is closed all the same, with what *)
(* it has got; then the first assignment of failQuery.                      *)
ReadFails(r) ==
    /\ listener[r] = "reading" /\ faults < MaxFaults
    /\ faults' = faults + 1
    /\ written' = [written EXCEPT ![r] = buffered[r]]
    /\ keepRunning' = FALSE
    /\ listener' = [listener EXCEPT ![r] = "failing"]
    /\ UNCHANGED <<mainVars, permits, exception, counter, shutdown, buffered, kills>>

(* onFailure, up to the first assignment of failQuery *)
StartFailing(r) ==
    /\ listener[r] = "refused" /\ ReaderFree
    /\ keepRunning' = FALSE
    /\ listener' = [listener EXCEPT ![r] = "failing"]
    /\ UNCHANGED <<mainVars, permits, exception, counter, shutdown, buffered, written, boundVars>>

(* the second assignment of failQuery *)
SetException(r) ==
    /\ listener[r] = "failing"
    /\ exception' = TRUE
    /\ listener' = [listener EXCEPT ![r] = "leaving"]
    /\ UNCHANGED <<mainVars, permits, keepRunning, counter, shutdown, buffered, written, boundVars>>

Release(r) ==
    /\ listener[r] = "leaving"
    /\ permits' = permits + 1
    /\ listener' = [listener EXCEPT ![r] = "done"]
    /\ UNCHANGED <<mainVars, monitorVars, shutdown, buffered, written, boundVars>>

Listener(r) ==
    \/ StartReading(r) \/ ReadPoint(r) \/ CloseRow(r)
    \/ StartFailing(r) \/ SetException(r) \/ Release(r)

-----------------------------------------------------------------------------
Faults == KeysFail \/ \E r \in Rows : Refuse(r) \/ ReadFails(r)

Next == Main \/ Kill \/ Faults \/ \E r \in Rows : Answer(r) \/ Listener(r)

(* The calling thread and the reader threads are scheduled, and every query *)
(* in flight is answered: the driver gives each a read timeout.  Nothing    *)
(* has to fail and nobody has to kill the query.                            *)
Fairness ==
    /\ WF_vars(Main)
    /\ \A r \in Rows : WF_vars(Answer(r)) /\ WF_vars(Listener(r))

Spec == Init /\ [][Next]_vars
FairSpec == Spec /\ Fairness
-----------------------------------------------------------------------------
TypeOK ==
    /\ pc \in Steps
    /\ nextRow \in 1 .. RowCount + 1
    /\ holding \in BOOLEAN /\ interrupted \in BOOLEAN
    /\ permits \in 0 .. Simultaneous
    /\ keepRunning \in BOOLEAN /\ exception \in BOOLEAN /\ shutdown \in BOOLEAN
    /\ counter \in Nat
    /\ listener \in [Rows -> Phases]
    /\ buffered \in [Rows -> Nat] /\ written \in [Rows -> Nat]
    /\ faults \in 0 .. MaxFaults /\ kills \in 0 .. MaxKills

(* simultaneous_cql_queries bounds the queries of one metric query that are *)
(* in flight or being read, also when an interrupt or a failure comes       *)
(* between an acquire and the query it was for.                             *)
AtMostSimultaneous == Cardinality(InFlight) <= Simultaneous

(* While the calling thread sends queries and waits for the last of them,   *)
(* every permit is in the semaphore, with a listener that will release it,  *)
(* or with the calling thread.                                              *)
PermitsCounted ==
    pc \in {"keys", "next", "permit", "monitor", "check", "drain"} =>
        permits + Cardinality(InFlight) + (IF holding THEN 1 ELSE 0) = Simultaneous

(* cqlQueryWithRowKeys returns normally only with every data point of every *)
(* row key in the search result, no failure forgotten and no listener left  *)
(* that could still write - unless an interrupt cut the last wait short,    *)
(* which is when the executor is not shut down.                             *)
AnswerComplete ==
    pc = "returned" /\ shutdown =>
        \A r \in Rows : listener[r] = "done" /\ written[r] = RowSize[r]

(* A query in which nothing fails comes to an end, killed or not. *)
QueryEnds == pc = "keys" ~> (Ended \/ faults > 0)

=============================================================================
