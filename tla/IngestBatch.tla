---------------------------- MODULE IngestBatch ----------------------------
(***************************************************************************)
(* How a batch of events gets into Cassandra: the ingest workers running   *)
(* BatchHandler.retryCall over CQLBatch, the two DataCaches they share,    *)
(* the retries of IngestExecutorService, and deleteDataPoints, which       *)
(* works on the same tables and caches.                                    *)
(*                                                                         *)
(* A query finds a data point only through row_key_time_index and then     *)
(* row_keys.  Both are written asynchronously, once, when the row key is   *)
(* not in the cache; the caches are the only record of what was written.   *)
(*                                                                         *)
(* Rows stands for DataPointsRowKey, Names for TimedString (a metric and   *)
(* the time of a row).  Writes carry the client's clock, so a delete also  *)
(* removes the older writes that have not arrived yet.                     *)
(***************************************************************************)
EXTENDS Integers, Sequences, FiniteSets

CONSTANTS
    Workers,        \* ingest threads
    Points,         \* the data points ever sent
    Batches,        \* the batches they may be sent in
    Rows, RowOf,    \* row keys, and the row key of each point
    Names, NameOf,  \* metric and row time, and that of each row
    Metrics, MetricOf,
    CurrentNames,   \* the names of the row the clock is in
    FilteredNames,  \* the names metric_index_filter.prefix matches
    ExpiringPoints, \* the points whose aligned ttl may run out
    RowCacheSize,   \* row_key_cache_size
    NameCacheSize,  \* string_cache_size
    RetryMinimum,   \* 10 in retryCall: smaller batches are not split again
    MaxOutages,     \* bound: submissions that end in NoHostAvailable
    MaxFaults,      \* bound: every other exception
    MaxLost,        \* bound: asynchronous writes that fail on their own
    DeleteKinds,    \* what deletes are made: see Selections
    MaxDeletes      \* bound: calls of deleteDataPoints

(* The owner of the statements that no running batch answers for.          *)
Detached == "detached"
Owners == Workers \cup {Detached}

ASSUME SetsAssumption ==
    /\ Detached \notin Workers
    /\ IsFiniteSet(Workers) /\ IsFiniteSet(Points)
    /\ ExpiringPoints \subseteq Points
    /\ RowOf \in [Points -> Rows]
    /\ NameOf \in [Rows -> Names]
    /\ MetricOf \in [Names -> Metrics]
    /\ FilteredNames \subseteq Names /\ CurrentNames \subseteq Names
    /\ Batches \subseteq Seq(Points) \ {<<>>}
ASSUME SizesAssumption ==
    /\ RowCacheSize \in Nat \ {0}
    /\ NameCacheSize \in Nat \ {0}
    /\ RetryMinimum \in Nat \ {0}
ASSUME BoundsAssumption ==
    /\ MaxOutages \in Nat
    /\ MaxFaults \in Nat
    /\ MaxLost \in Nat
    /\ MaxDeletes \in Nat
    /\ DeleteKinds \subseteq {"all", "frame", "tags", "alltags"}

VARIABLES
    rowCache, nameCache,             \* m_rowKeyCache, m_metricNameCache
    rowKeys, timeIndex, stringIndex, \* the tables of the same names
    stored,                          \* data_points
    flying,     \* asynchronous statements on their way, by the batch they are of
    pc,         \* each worker's place in retryCall
    events,     \* m_events
    next,       \* the position of its iterator
    divisor,    \* divisor of the retry loop
    batch,      \* lastBatch
    owed,       \* history: index writes each call lost in a failed attempt
    submitted,  \* the points handed to a worker so far
    deleter,    \* the thread inside deleteDataPoints
    outages, faults, losses, deletes, \* bound counters
    reductions, \* history: the limits of the BatchReductionEvents posted
    lost,       \* history: index writes that nobody answers for any more
    dropped,    \* history: points of batches that were given up
    erased,     \* history: points a delete removed
    expired,    \* history: points found dead when they were loaded
    raced       \* history: points being written, or not indexed, when a delete ran

tables     == <<rowKeys, timeIndex, stringIndex, stored>>
caches     == <<rowCache, nameCache>>
workerVars == <<pc, events, next, divisor, batch, owed>>
bounds     == <<outages, faults, losses, deletes>>
history    == <<reductions, lost, dropped, erased, expired, raced>>
vars == <<rowCache, nameCache, rowKeys, timeIndex, stringIndex, stored, flying,
          pc, events, next, divisor, batch, owed, submitted, deleter, outages,
          faults, losses, deletes, reductions, lost, dropped,
          erased, expired, raced>>

RowWrite(r)    == <<"row", r>>
TimeWrite(n)   == <<"time", n>>
StringWrite(m) == <<"string", m>>
NameWrites(n)  == {TimeWrite(n), StringWrite(MetricOf[n])}
Writes == {RowWrite(r) : r \in Rows} \cup {TimeWrite(n) : n \in Names}
            \cup {StringWrite(m) : m \in Metrics}
FilteredWrites == {TimeWrite(n) : n \in FilteredNames}

WorkerSteps == {"idle", "load", "name", "points", "clear", "end"}

EmptyBatch == [count |-> 0, rows |-> {}, names |-> {}, times |-> {},
               points |-> {}, dead |-> {}, failure |-> "none"]
IdleDeleter == [pc |-> "idle", kind |-> "none", todo |-> {}, row |-> {},
                metric |-> {}, gone |-> {}, clear |-> FALSE]

Elements(seq) == {seq[i] : i \in 1 .. Len(seq)}
IsFlying(x) == \E o \in Owners : x \in UNION flying[o]

(* An index write that somebody still answers for: it is on its way, or a  *)
(* worker has it in a batch it will send, or clear from the caches.        *)
RowPending(r) ==
    IsFlying(RowWrite(r)) \/ \E w \in Workers : r \in batch[w].rows
NamePending(n) ==
    IsFlying(TimeWrite(n)) \/ \E w \in Workers : n \in batch[w].times
PointsOf(r) == {p \in Points : RowOf[p] = r}
Working == {w \in Workers : pc[w] # "idle"}

Init ==
    /\ rowCache = {} /\ nameCache = {}
    /\ rowKeys = {} /\ timeIndex = {} /\ stringIndex = {} /\ stored = {}
    /\ flying = [o \in Owners |-> {}]
    /\ pc = [w \in Workers |-> "idle"]
    /\ events = [w \in Workers |-> <<>>]
    /\ next = [w \in Workers |-> 1]
    /\ divisor = [w \in Workers |-> 1]
    /\ batch = [w \in Workers |-> EmptyBatch]
    /\ owed = [w \in Workers |-> {}]
    /\ submitted = {}
    /\ deleter = IdleDeleter
    /\ outages = 0 /\ faults = 0 /\ losses = 0 /\ deletes = 0
    /\ reductions = {} /\ lost = {} /\ dropped = {} /\ erased = {}
    /\ expired = {} /\ raced = {}

-----------------------------------------------------------------------------
(* DataCache.                                                              *)

(* Mutant: removeEldestEntry compares with one more than the cache's size. *)
CacheItemOneMore(cache, item, size) ==
    IF item \in cache \/ Cardinality(cache) <= size
    THEN {cache \cup {item}}
    ELSE {(cache \ {eldest}) \cup {item} : eldest \in cache}

(* The contents cacheItem may leave: the item is in, and a full cache lost *)
(* its eldest entry, whichever that is.                                    *)
CacheItem(cache, item, size) ==
    IF item \in cache \/ Cardinality(cache) < size
    THEN {cache \cup {item}}
    ELSE {(cache \ {eldest}) \cup {item} : eldest \in cache}

(* cleanRowKeyCache, run every hour, removes one by one the keys that are  *)
(* not of the current row.                                                 *)
CleanRowKeyCache(r) ==
    /\ r \in rowCache
    /\ NameOf[r] \notin CurrentNames
    /\ rowCache' = rowCache \ {r}
    /\ UNCHANGED <<nameCache, tables, flying, workerVars, submitted, deleter,
                   bounds, history>>

-----------------------------------------------------------------------------
(* IngestExecutorService.submit: a worker gets a batch.                    *)

Submit(w, evs) ==
    /\ pc[w] = "idle"
    /\ Elements(evs) \cap submitted = {}
    /\ pc' = [pc EXCEPT ![w] = "load"]
    /\ events' = [events EXCEPT ![w] = evs]
    /\ next' = [next EXCEPT ![w] = 1]
    /\ divisor' = [divisor EXCEPT ![w] = 1]
    /\ batch' = [batch EXCEPT ![w] = EmptyBatch]
    /\ submitted' = submitted \cup Elements(evs)
    /\ raced' = IF deleter.pc = "idle" THEN raced ELSE raced \cup Elements(evs)
    /\ UNCHANGED <<caches, tables, flying, owed, deleter, bounds, reductions,
                   lost, dropped, erased, expired>>

-----------------------------------------------------------------------------
(* loadBatch.                                                              *)

Limit(w) == Len(events[w]) \div divisor[w]

HasMore(w) == next[w] <= Len(events[w]) /\ batch[w].count < Limit(w)

Point(w) == events[w][next[w]]
Row(w) == RowOf[Point(w)]
Name(w) == NameOf[Row(w)]

(* With aligned ttls a point whose ttl has run out is dead: it is counted  *)
(* and left out.  The copy an earlier attempt may have stored had the same *)
(* ttl.  If that attempt failed, the index writes it owes for the point's  *)
(* row are not written again on this point's account.                      *)
SkipExpired(w) ==
    /\ pc[w] = "load" /\ HasMore(w)
    /\ Point(w) \in ExpiringPoints
    /\ expired' = expired \cup {Point(w)}
    /\ stored' = stored \ {Point(w)}
    /\ lost' = lost \cup (owed[w] \cap ({RowWrite(Row(w))} \cup NameWrites(Name(w))))
    /\ batch' = [batch EXCEPT ![w].count = @ + 1]
    /\ next' = [next EXCEPT ![w] = @ + 1]
    /\ UNCHANGED <<caches, rowKeys, timeIndex, stringIndex, flying, pc, events,
                   divisor, owed, submitted, deleter, bounds, reductions,
                   dropped, erased, raced>>

(* The rest of the loop body: the point joins the batch.                   *)
AddDataPoint(w, b) ==
    /\ batch' = [batch EXCEPT ![w] = [b EXCEPT !.count = @ + 1,
                                               !.points = @ \cup {Point(w)}]]
    /\ next' = [next EXCEPT ![w] = @ + 1]
    /\ pc' = [pc EXCEPT ![w] = "load"]

(* The row key is cached: its index entries are taken to be written.       *)
RowKeyCached(w) ==
    /\ pc[w] = "load" /\ HasMore(w)
    /\ Point(w) \notin expired
    /\ Row(w) \in rowCache
    /\ rowCache' \in CacheItem(rowCache, Row(w), RowCacheSize)
    /\ AddDataPoint(w, batch[w])
    /\ UNCHANGED <<nameCache, tables, flying, events, divisor, owed,
                   submitted, deleter, bounds, history>>

AddRowKey(w) ==
    /\ pc[w] = "load" /\ HasMore(w)
    /\ Point(w) \notin expired
    /\ Row(w) \notin rowCache
    /\ rowCache' \in CacheItem(rowCache, Row(w), RowCacheSize)
    /\ batch' = [batch EXCEPT ![w].rows = @ \cup {Row(w)}]
    /\ pc' = [pc EXCEPT ![w] = "name"]
    /\ UNCHANGED <<nameCache, tables, flying, events, next, divisor, owed,
                   submitted, deleter, bounds, history>>

(* Mutant: a filtered name's time is not written either.                   *)
AddMetricNameUnfiltered(w) ==
    LET n == Name(w)
        new == (IF n \in nameCache THEN {} ELSE {n}) \ FilteredNames
    IN  /\ pc[w] = "name"
        /\ nameCache' \in CacheItem(nameCache, n, NameCacheSize)
        /\ AddDataPoint(w, [batch[w] EXCEPT !.times = @ \cup new,
                                            !.names = @ \cup new])
        /\ UNCHANGED <<rowCache, tables, flying, events, divisor, owed,
                       submitted, deleter, bounds, history>>

(* addMetricName leaves a filtered name out of m_newMetrics; addTimeIndex  *)
(* is called for it all the same.                                          *)
AddMetricName(w) ==
    LET n == Name(w)
        new == IF n \in nameCache THEN {} ELSE {n}
    IN  /\ pc[w] = "name"
        /\ nameCache' \in CacheItem(nameCache, n, NameCacheSize)
        /\ AddDataPoint(w, [batch[w] EXCEPT !.times = @ \cup new,
                                            !.names = @ \cup (new \ FilteredNames)])
        /\ UNCHANGED <<rowCache, tables, flying, events, divisor, owed,
                       submitted, deleter, bounds, history>>

-----------------------------------------------------------------------------
(* submitBatch.                                                            *)

(* The statements m_metricNamesBatch and m_rowKeyBatch of a batch.         *)
MetricNamesBatch(w) == {StringWrite(MetricOf[n]) : n \in batch[w].names}
RowKeyBatch(w) == {RowWrite(r) : r \in batch[w].rows}
                    \cup {TimeWrite(n) : n \in batch[w].times}

(* executeAsync of the metric names and then of the row keys: both return  *)
(* at once and arrive in any order.  An empty statement is not sent.       *)
SendIndexWrites(w) ==
    LET statements == {MetricNamesBatch(w), RowKeyBatch(w)} \ {{}}
    IN  /\ pc[w] = "load" /\ ~HasMore(w)
        /\ flying' = [flying EXCEPT ![w] = statements]
        /\ owed' = [owed EXCEPT ![w] = @ \ UNION statements]
        /\ pc' = [pc EXCEPT ![w] = "points"]
        /\ UNCHANGED <<caches, tables, events, next, divisor, batch, submitted,
                       deleter, bounds, history>>

(* Points in the rows deleted since the batch was created keep the older   *)
(* timestamp m_now and are dead on arrival.                                *)
Arrives(w, points) ==
    /\ stored' = stored \cup {p \in points : RowOf[p] \notin batch[w].dead}
    /\ erased' = erased \cup {p \in points : RowOf[p] \in batch[w].dead}

(* The batch statement of one host; every row is taken to have its own.    *)
WriteDataPoints(w, r) ==
    LET points == batch[w].points \cap PointsOf(r)
    IN  /\ pc[w] = "points"
        /\ points # {}
        /\ Arrives(w, points)
        /\ batch' = [batch EXCEPT ![w].points = @ \ points]
        /\ UNCHANGED <<caches, rowKeys, timeIndex, stringIndex, flying, pc,
                       events, next, divisor, owed, submitted, deleter, bounds,
                       reductions, lost, dropped, expired, raced>>

(* submitBatch returned: nobody waits for the asynchronous writes.  The    *)
(* loop goes on with a new CQLBatch while events are left.                 *)
BatchSent(w) ==
    /\ pc[w] = "points"
    /\ batch[w].points = {}
    /\ flying' = [flying EXCEPT ![w] = {}, ![Detached] = @ \cup flying[w]]
    /\ pc' = [pc EXCEPT ![w] = IF next[w] <= Len(events[w]) THEN "load" ELSE "end"]
    /\ batch' = [batch EXCEPT ![w] = EmptyBatch]
    /\ UNCHANGED <<caches, tables, events, next, divisor, owed, submitted,
                   deleter, bounds, history>>

-----------------------------------------------------------------------------
(* Failures.                                                               *)

Fails(w, failure) ==
    /\ batch' = [batch EXCEPT ![w].failure = failure]
    /\ pc' = [pc EXCEPT ![w] = "clear"]

Fault == faults < MaxFaults /\ faults' = faults + 1

(* loadBatch throws: what the batch put in the caches is never sent.  The  *)
(* names addMetricName kept out of m_newMetrics stay in the cache after a  *)
(* failure, so that nobody writes their times again.                       *)
LoadFails(w) ==
    /\ pc[w] \in {"load", "name"}
    /\ next[w] <= Len(events[w])
    /\ Fault
    /\ Fails(w, "other")
    /\ owed' = [owed EXCEPT ![w] =
                  @ \cup MetricNamesBatch(w) \cup RowKeyBatch(w)
                    \cup IF pc[w] = "name" THEN NameWrites(Name(w)) ELSE {}]
    /\ lost' = lost \cup (RowKeyBatch(w) \cap FilteredWrites)
    /\ UNCHANGED <<caches, tables, flying, events, next, divisor, submitted,
                   deleter, outages, losses, deletes, reductions, dropped,
                   erased, expired, raced>>

(* NoHostAvailable or Unavailable: the index writes of the same batch may  *)
(* have failed too, unnoticed; the points may or may not have arrived.     *)
Outage(w) ==
    /\ pc[w] = "points"
    /\ batch[w].points # {}
    /\ outages < MaxOutages
    /\ outages' = outages + 1
    /\ \E survivors \in SUBSET flying[w] :
           /\ flying' = [flying EXCEPT ![w] = {}, ![Detached] = @ \cup survivors]
           /\ owed' = [owed EXCEPT ![w] = @ \cup UNION (flying[w] \ survivors)]
           /\ lost' = lost \cup (FilteredWrites \cap UNION (flying[w] \ survivors))
    /\ \E points \in {{}, batch[w].points} : Arrives(w, points)
    /\ Fails(w, "outage")
    /\ UNCHANGED <<caches, rowKeys, timeIndex, stringIndex, events, next,
                   divisor, submitted, deleter, faults, losses, deletes,
                   reductions, dropped, expired, raced>>

(* Any other exception of a data point batch, "Batch too large" say.       *)
Rejected(w) ==
    /\ pc[w] = "points"
    /\ batch[w].points # {}
    /\ Fault
    /\ flying' = [flying EXCEPT ![w] = {}, ![Detached] = @ \cup flying[w]]
    /\ Fails(w, "other")
    /\ UNCHANGED <<caches, tables, events, next, divisor, owed, submitted,
                   deleter, outages, losses, deletes,
                   history>>

(* An asynchronous statement fails by itself: nobody looks at its future.  *)
LoseStatement(o, stmt) ==
    /\ stmt \in flying[o]
    /\ losses < MaxLost
    /\ losses' = losses + 1
    /\ flying' = [flying EXCEPT ![o] = @ \ {stmt}]
    /\ lost' = lost \cup stmt
    /\ UNCHANGED <<caches, tables, workerVars, submitted, deleter, outages,
                   faults, deletes, reductions, dropped, erased, expired,
                   raced>>

Land(o, stmt) ==
    /\ stmt \in flying[o]
    /\ flying' = [flying EXCEPT ![o] = @ \ {stmt}]
    /\ rowKeys' = rowKeys \cup {r \in Rows : RowWrite(r) \in stmt}
    /\ timeIndex' = timeIndex \cup {n \in Names : TimeWrite(n) \in stmt}
    /\ stringIndex' = stringIndex \cup {m \in Metrics : StringWrite(m) \in stmt}
    /\ lost' = lost \ stmt
    /\ UNCHANGED <<caches, stored, workerVars, submitted, deleter, bounds,
                   reductions, dropped, erased, expired, raced>>

-----------------------------------------------------------------------------
(* clearCacheOfFailedBatch, and what retryCall does next.                  *)

(* Mutant: the name stays in the cache.                                    *)
ClearMetricNameKept(w, n) ==
    /\ pc[w] = "clear"
    /\ n \in batch[w].names
    /\ batch' = [batch EXCEPT ![w].names = @ \ {n}]
    /\ UNCHANGED <<caches, tables, flying, pc, events, next, divisor, owed,
                   submitted, deleter, bounds, history>>

ClearMetricName(w, n) ==
    /\ pc[w] = "clear"
    /\ n \in batch[w].names
    /\ nameCache' = nameCache \ {n}
    /\ batch' = [batch EXCEPT ![w].names = @ \ {n}]
    /\ UNCHANGED <<rowCache, tables, flying, pc, events, next, divisor, owed,
                   submitted, deleter, bounds, history>>

(* Mutant: the row key stays in the cache.                                 *)
ClearRowKeyKept(w, r) ==
    /\ pc[w] = "clear"
    /\ batch[w].names = {}
    /\ r \in batch[w].rows
    /\ batch' = [batch EXCEPT ![w].rows = @ \ {r}]
    /\ UNCHANGED <<caches, tables, flying, pc, events, next, divisor, owed,
                   submitted, deleter, bounds, history>>

ClearRowKey(w, r) ==
    /\ pc[w] = "clear"
    /\ batch[w].names = {}
    /\ r \in batch[w].rows
    /\ rowCache' = rowCache \ {r}
    /\ batch' = [batch EXCEPT ![w].rows = @ \ {r}]
    /\ UNCHANGED <<nameCache, tables, flying, pc, events, next, divisor, owed,
                   submitted, deleter, bounds, history>>

(* Mutant: a failed batch is not cleared from the caches.                  *)
ClearedAtOnce(w, failure) == pc[w] = "clear" /\ batch[w].failure = failure

Cleared(w, failure) ==
    /\ pc[w] = "clear"
    /\ batch[w].names = {} /\ batch[w].rows = {}
    /\ batch[w].failure = failure

(* Mutant: the retry goes on with the old iterator.                        *)
GoOn(w, d) ==
    /\ pc' = [pc EXCEPT ![w] = "load"]
    /\ divisor' = [divisor EXCEPT ![w] = d]
    /\ batch' = [batch EXCEPT ![w] = EmptyBatch]
    /\ UNCHANGED <<caches, tables, flying, events, next, owed, submitted,
                   deleter, bounds, history>>

(* A new iterator over all the events, and a new CQLBatch.                 *)
StartOver(w, d) ==
    /\ pc' = [pc EXCEPT ![w] = "load"]
    /\ next' = [next EXCEPT ![w] = 1]
    /\ divisor' = [divisor EXCEPT ![w] = d]
    /\ batch' = [batch EXCEPT ![w] = EmptyBatch]
    /\ UNCHANGED <<caches, tables, flying, events, owed, submitted, deleter,
                   bounds, history>>

(* The exception leaves retryCall; the Retryer waits and calls it again.   *)
Retry(w) == Cleared(w, "outage") /\ StartOver(w, 1)

RetrySmaller(w) ==
    /\ Cleared(w, "other")
    /\ Limit(w) > RetryMinimum
    /\ StartOver(w, divisor[w] + 1)

GiveUp(w) ==
    /\ Cleared(w, "other")
    /\ Limit(w) <= RetryMinimum
    /\ pc' = [pc EXCEPT ![w] = "end"]
    /\ dropped' = dropped \cup (Elements(events[w]) \ stored)
    /\ lost' = lost \cup owed[w]
    /\ UNCHANGED <<caches, tables, flying, events, next, divisor, batch, owed,
                   submitted, deleter, bounds, reductions, erased, expired,
                   raced>>

(* A BatchReductionEvent if the batch had to be split, then complete().    *)
Complete(w) ==
    /\ pc[w] = "end"
    /\ reductions' = IF Limit(w) < Len(events[w])
                     THEN reductions \cup {Limit(w)} ELSE reductions
    /\ pc' = [pc EXCEPT ![w] = "idle"]
    /\ events' = [events EXCEPT ![w] = <<>>]
    /\ next' = [next EXCEPT ![w] = 1]
    /\ divisor' = [divisor EXCEPT ![w] = 1]
    /\ batch' = [batch EXCEPT ![w] = EmptyBatch]
    /\ owed' = [owed EXCEPT ![w] = {}]
    /\ UNCHANGED <<caches, tables, flying, submitted, deleter, bounds, lost,
                   dropped, erased, expired, raced>>

-----------------------------------------------------------------------------
(* deleteDataPoints over whole rows.                                       *)

(* The deletes a caller can ask for: a whole metric, whole time frames of  *)
(* it, or the rows of it that some tags select, those of a time range or   *)
(* of all times.  Whether a delete is of all times, deleteAll, is decided  *)
(* by its range alone, whatever its tags.                                  *)
Tagged   == {"tags", "alltags"}
AllTimes == {"all", "alltags"}
Selections(kind, m) ==
    LET ofMetric == {r \in Rows : MetricOf[NameOf[r]] = m}
    IN  CASE kind = "all"   -> {ofMetric}
          [] kind = "frame" -> {{r \in ofMetric : NameOf[r] = n} : n \in Names}
          [] kind \in Tagged -> {{r} : r \in ofMetric}

(* The keys are read through both indexes before the first one is deleted. *)
StartDelete(kind, m, rows) ==
    /\ deleter.pc = "idle"
    /\ deletes < MaxDeletes
    /\ deletes' = deletes + 1
    /\ deleter' = [IdleDeleter EXCEPT !.pc = "row", !.kind = kind, !.metric = {m},
                     !.todo = {r \in rows \cap rowKeys : NameOf[r] \in timeIndex}]
    /\ raced' = raced \cup (UNION {Elements(events[w]) : w \in Working})
                      \cup {p \in stored : \/ RowOf[p] \notin rowKeys
                                           \/ NameOf[RowOf[p]] \notin timeIndex}
    /\ UNCHANGED <<caches, tables, flying, workerVars, submitted, outages,
                   faults, losses, reductions, lost, dropped, erased, expired>>

DeleteRow(r) ==
    /\ deleter.pc = "row"
    /\ r \in deleter.todo
    /\ stored' = stored \ PointsOf(r)
    /\ erased' = erased \cup (stored \cap PointsOf(r))
    /\ batch' = [w \in Workers |->
                   IF pc[w] \in {"idle", "clear", "end"} THEN batch[w]
                   ELSE [batch[w] EXCEPT !.dead = @ \cup {r}]]
    /\ deleter' = [deleter EXCEPT !.pc = "key", !.todo = @ \ {r}, !.row = {r},
                                  !.clear = TRUE]
    /\ UNCHANGED <<caches, rowKeys, timeIndex, stringIndex, flying, pc, events,
                   next, divisor, owed, submitted, bounds, reductions, lost,
                   dropped, expired, raced>>

(* A tombstone hides the older writes still on their way.                  *)
Hides(x) == flying' = [o \in Owners |-> {stmt \ {x} : stmt \in flying[o]} \ {{}}]

DeleteRowKey(r) ==
    /\ deleter.pc = "key" /\ deleter.row = {r}
    /\ rowKeys' = rowKeys \ {r}
    /\ Hides(RowWrite(r))
    /\ deleter' = [deleter EXCEPT !.pc = IF deleter.kind \in Tagged THEN "row" ELSE "time",
                                  !.gone = @ \cup {RowWrite(r)}]
    /\ UNCHANGED <<caches, timeIndex, stringIndex, stored, workerVars,
                   submitted, bounds, history>>

(* Only for a query without tags.                                          *)
DeleteRowTime(r) ==
    /\ deleter.pc = "time" /\ deleter.row = {r}
    /\ timeIndex' = timeIndex \ {NameOf[r]}
    /\ Hides(TimeWrite(NameOf[r]))
    /\ deleter' = [deleter EXCEPT !.pc = "row",
                                  !.gone = @ \cup {TimeWrite(NameOf[r])}]
    /\ UNCHANGED <<caches, rowKeys, stringIndex, stored, workerVars, submitted,
                   bounds, history>>

(* Mutant: m_metricNameCache is left alone.                                *)
DeleteMetricNameOnly(m) ==
    /\ deleter.pc = "row" /\ deleter.todo = {}
    /\ deleter.kind \in AllTimes /\ deleter.metric = {m}
    /\ stringIndex' = stringIndex \ {m}
    /\ Hides(StringWrite(m))
    /\ deleter' = [deleter EXCEPT !.pc = "caches", !.clear = TRUE]
    /\ UNCHANGED <<caches, rowKeys, timeIndex, stored, workerVars, submitted,
                   bounds, history>>

(* deleteAll: the metric's name goes, and the cache of names, also when    *)
(* tags left rows of the metric behind.                                    *)
DeleteMetricName(m) ==
    /\ deleter.pc = "row" /\ deleter.todo = {}
    /\ deleter.kind \in AllTimes /\ deleter.metric = {m}
    /\ stringIndex' = stringIndex \ {m}
    /\ Hides(StringWrite(m))
    /\ nameCache' = {}
    /\ deleter' = [deleter EXCEPT !.pc = "caches", !.clear = TRUE]
    /\ UNCHANGED <<rowCache, rowKeys, timeIndex, stored, workerVars, submitted,
                   bounds, history>>

(* Mutant: the row keys stay in the cache.                                 *)
EndDeleteOnly ==
    /\ \/ deleter.pc = "row" /\ deleter.todo = {} /\ deleter.kind \notin AllTimes
       \/ deleter.pc = "caches"
    /\ deleter' = IdleDeleter
    /\ UNCHANGED <<caches, tables, flying, workerVars, submitted, bounds,
                   history>>

EndDelete ==
    /\ \/ deleter.pc = "row" /\ deleter.todo = {} /\ deleter.kind \notin AllTimes
       \/ deleter.pc = "caches"
    /\ rowCache' = IF deleter.clear THEN {} ELSE rowCache
    /\ deleter' = IdleDeleter
    /\ UNCHANGED <<nameCache, tables, flying, workerVars, submitted, bounds,
                   history>>

(* A statement fails: the exception skips the clearing of the caches.      *)
DeleteFails ==
    /\ deleter.pc \in {"key", "time"} \/ (deleter.pc = "row" /\ deleter.todo # {})
    /\ deleter' = IdleDeleter
    /\ lost' = lost \cup deleter.gone
    /\ UNCHANGED <<caches, tables, flying, workerVars, submitted, bounds,
                   reductions, dropped, erased, expired, raced>>

-----------------------------------------------------------------------------
(* What a worker does unless something fails.                              *)
Work(w) ==
    \/ SkipExpired(w)
    \/ RowKeyCached(w) \/ AddRowKey(w) \/ AddMetricName(w)
    \/ SendIndexWrites(w)
    \/ \E r \in Rows : WriteDataPoints(w, r)
    \/ BatchSent(w)
    \/ \E n \in Names : ClearMetricName(w, n)
    \/ \E r \in Rows : ClearRowKey(w, r)
    \/ Retry(w) \/ RetrySmaller(w) \/ GiveUp(w)
    \/ Complete(w)

Next ==
    \/ \E w \in Workers, evs \in Batches : Submit(w, evs)
    \/ \E w \in Workers : Work(w) \/ LoadFails(w) \/ Outage(w) \/ Rejected(w)
    \/ \E o \in Owners : \E stmt \in flying[o] : Land(o, stmt) \/ LoseStatement(o, stmt)
    \/ \E kind \in DeleteKinds, m \in Metrics :
           \E rows \in Selections(kind, m) : StartDelete(kind, m, rows)
    \/ \E r \in Rows : CleanRowKeyCache(r)
    \/ \E r \in Rows : DeleteRow(r) \/ DeleteRowKey(r) \/ DeleteRowTime(r)
    \/ \E m \in Metrics : DeleteMetricName(m)
    \/ EndDelete
    \/ DeleteFails

Spec == Init /\ [][Next]_vars

-----------------------------------------------------------------------------
(* The caches stay within their sizes.                                     *)
CachesOK ==
    /\ rowCache \subseteq Rows /\ Cardinality(rowCache) <= RowCacheSize
    /\ nameCache \subseteq Names /\ Cardinality(nameCache) <= NameCacheSize

(* The tables, and the statements on their way to them.                    *)
TablesOK ==
    /\ rowKeys \subseteq Rows /\ timeIndex \subseteq Names
    /\ stringIndex \subseteq Metrics /\ stored \subseteq Points
    /\ flying \in [Owners -> SUBSET (SUBSET Writes)]

(* A CQLBatch.                                                             *)
BatchRecords ==
    [count : Nat, rows : SUBSET Rows, names : SUBSET Names,
     times : SUBSET Names, points : SUBSET Points, dead : SUBSET Rows,
     failure : {"none", "outage", "other"}]

(* The workers and their batches.                                          *)
WorkersOK ==
    /\ pc \in [Workers -> WorkerSteps]
    /\ events \in [Workers -> Seq(Points)]
    /\ next \in [Workers -> Nat \ {0}]
    /\ divisor \in [Workers -> Nat \ {0}]
    /\ batch \in [Workers -> BatchRecords]
    /\ owed \in [Workers -> SUBSET Writes]

(* The delete under way.                                                   *)
DeleterOK ==
    deleter \in [pc : {"idle", "row", "key", "time", "caches"},
                 kind : {"none", "all", "frame", "tags", "alltags"}, todo : SUBSET Rows,
                 row : SUBSET Rows, metric : SUBSET Metrics,
                 gone : SUBSET Writes, clear : BOOLEAN]

(* What bounds the behaviours.                                             *)
CountersOK ==
    /\ outages \in 0 .. MaxOutages /\ faults \in 0 .. MaxFaults
    /\ losses \in 0 .. MaxLost /\ deletes \in 0 .. MaxDeletes
    /\ reductions \subseteq Nat

(* What happened to points and statements.                                 *)
HistoryOK ==
    /\ submitted \subseteq Points /\ raced \subseteq Points
    /\ dropped \subseteq submitted /\ erased \subseteq submitted
    /\ expired \subseteq submitted
    /\ lost \subseteq Writes

(* Every variable keeps its type.                                          *)
TypeOK == CachesOK /\ TablesOK /\ WorkersOK /\ DeleterOK /\ CountersOK /\ HistoryOK

(* A cached row key is in row_keys, on its way there, or in a batch whose  *)
(* failure will remove it from the cache: addRowKey is called only for     *)
(* keys that are not cached, so a wrong entry hides its row for good.      *)
(* Writes that failed alone and deletes that threw are the exceptions.     *)
RowCacheHonest ==
    \A r \in rowCache : \/ r \in rowKeys \/ RowPending(r)
                        \/ RowWrite(r) \in lost
                        \/ deleter.pc # "idle"

(* The same of m_metricNameCache and row_key_time_index, of filtered names *)
(* too.  The code does not remove those from the cache when their batch    *)
(* fails: the entry a failed batch owes a filtered name counts as lost.    *)
NameCacheHonest ==
    \A n \in nameCache :
        \/ n \in timeIndex \/ NamePending(n)
        \/ TimeWrite(n) \in lost
        \/ deleter.pc # "idle"

Quiet == /\ Working = {} /\ deleter.pc = "idle"
         /\ \A o \in Owners : flying[o] = {}

(* When everything has come to rest, every stored point's row key is in    *)
(* row_keys, whatever workers shared the cached key, whichever of them     *)
(* failed and however the cache evicted.  Missing are only writes that     *)
(* failed alone, of a batch that was given up, or that a retry left out    *)
(* because the point they were for had died meanwhile.                     *)
RowKeysComplete ==
    Quiet => \A p \in stored \ raced :
                 RowOf[p] \in rowKeys \/ RowWrite(RowOf[p]) \in lost

(* The same of the time index, the first table a query looks at.  The      *)
(* names the filter keeps out of string_index have their times written     *)
(* too; missing of these are also the writes of every batch that failed.   *)
TimeIndexComplete ==
    Quiet => \A p \in stored \ raced :
                 LET n == NameOf[RowOf[p]]
                 IN  n \in timeIndex \/ TimeWrite(n) \in lost

(* And a metric that is not filtered and has data is listed.               *)
MetricsListed ==
    Quiet => \A p \in stored \ raced :
                 LET n == NameOf[RowOf[p]]
                 IN  \/ MetricOf[n] \in stringIndex \/ n \in FilteredNames
                     \/ StringWrite(MetricOf[n]) \in lost

(* complete() is called for a batch only when each of its points was       *)
(* stored, deleted since, given up with the whole batch, or found dead,    *)
(* its aligned ttl run out, when it was loaded.                            *)
PointsAccounted ==
    \A p \in submitted :
        \/ \E w \in Working : p \in Elements(events[w])
        \/ p \in stored \cup erased \cup expired \cup dropped

=============================================================================
