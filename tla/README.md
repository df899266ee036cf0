# KairosDB in TLA+

KairosDB is a time series database in front of Cassandra. This directory models
the parts of it that are hard to get right and hard to test: how data points
travel from a producer into Cassandra without being lost or left unfindable, and
how metric queries share threads, permits and cache files, and how the servers of
a cluster agree on who runs which roll-up task. TLC checks the models on small
instances; their safety properties are proved with TLAPS for every value of the
constants.

Line numbers below are those of `src/main/java/org/kairosdb/...`, or of
`webroot/rollup-js/...` for the roll-up page; `PROJECT.json`
maps every definition to its lines.

## 1. The system

### Ingest

| component | state | operations | interacts with |
|---|---|---|---|
| HTTP, telnet and OTLP servers, `DataPointsParser` | none | parse a request, post one `DataPointEvent` per point | event bus |
| `FilterEventBus`, `Publisher`, `Pipeline` | subscribers by priority | `Publisher.post` calls each subscriber in turn | everything |
| `QueueProcessor`, `FileQueueProcessor` | BigArray file, memory queue, next index, batch size, chain of completion callbacks | `put`, delivery thread, `complete`, `reduceBatch`, shutdown, restart | `ProcessorHandler` (Cassandra), `IngestExecutorService` |
| `MemoryQueueProcessor` | a ring buffer | the same without a file | the same |
| `IngestExecutorService` | permits, thread pool, retryer | `submit`, retry while Cassandra is down | `BatchHandler` |
| `BatchHandler`, `CQLBatch`, `DataCache` | two shared caches, one batch per attempt | `loadBatch`, `submitBatch`, `retryCall`, clear caches after a failure | Cassandra tables `data_points`, `row_keys`, `row_key_time_index`, `string_index` |
| deletes (`CassandraDatastore.deleteDataPoints`, `DeleteBatchHandler`) | tables and caches | delete whole rows with their index entries, or part of a row | the same caches and tables |

### Queries

| component | state | operations | interacts with |
|---|---|---|---|
| `MetricsResource`, `QueryParser` | response file | run the queries of a request one after the other | `KairosDatastore` |
| `QueryQueuingManager` | semaphore, running queries by hash | `waitForTimeToRun`, `done`, `killQuery` | request threads, `AdminResource` |
| `DatastoreQueryImpl`, `CachedSearchResult` | data and index file of each hash, open rows | `execute`, `close`, write and read rows | datastore, file system |
| `CassandraDatastore.cqlQueryWithRowKeys`, `QueryListener`, `QueryMonitor` | semaphore, executor, limits, first exception | send a CQL query per row key, read its result, stop on a failure or a limit | Cassandra driver, search result |
| row key lookup (`CQLFilteredRowKeyIterator`, tag indexes, `RowSpec`) | iterators over the index tables | find the row keys of a query | Cassandra |
| grouping and aggregation | iterators (`TournamentTree`, `RangeAggregator`, ...) | merge rows, group, aggregate | search result rows |

### Cluster services

| component | state | operations | interacts with |
|---|---|---|---|
| `HostManager` | active hosts, whether this host coordinates | `checkHostChanges` every few seconds | service key store, event bus |
| `AssignmentCoordinator`, `ScoreBalancingAlgorithm` | last hosts heard of, the checker of a coordinator, a lock | share the tasks out when hosts or tasks change | service key store, events of `HostManager` |
| `SchedulingManager` | assignments and tasks as last read, Quartz jobs | compare both tables with what it knows, start and cancel jobs | service key store, scheduler |
| `RollUpJob`, `RollupProcessorImpl` | status of the task | run the queries of a task over the time since its last run | query and ingest paths |
| roll-up page (`rollups.html`, `rollupController.js`), `RollUpResource` | tasks shown, requests under way, flags of each task | load, add, paste, edit, save, delete, delete selected | REST calls to `RollUpResource`, task store |
| `KairosDBScheduler`, `CacheFileCleaner`, health, metrics | Quartz jobs, counters | run jobs | all |

### What is hard, and what makes it correct

- **Queue.** Batches complete on many threads in any order, while the tail of the
  file may move only over completed events; memory queue, file and next index
  move separately; a crash may come anywhere. Correct means: nothing that was
  accepted is lost, nothing is in two batches of one run, every checkpoint is
  reached.
- **Cassandra write path.** A point is found only through index rows that are
  written once, asynchronously, by whichever worker missed the cache first. An
  attempt may fail after it has changed the caches, a batch is retried in
  smaller pieces, deletes remove index rows the caches still vouch for. Correct
  means: what the caches claim is, or will be, in the tables, and when the system
  is at rest every stored point can be found.
- **Query on Cassandra.** The caller and the listeners share a semaphore, a
  monitor and a search result. Failures, limits and kills may come between any
  two steps. Correct means: a bounded number of queries in flight, an answer that
  is whole or an exception, and an end.
- **Rows.** The row of a data point, the columns of a query and the parts of a
  delete are computed from timestamps in `long`s and `int`s, in three units. Correct
  means: a query finds, and a delete takes away, exactly the data points of its
  range, at both ends.
- **Query queuing and cache.** Queries with one hash use one pair of files.
  Correct means: they never run together, no permit is lost, waiting queries do
  not block each other, and a query never gets the remains of another.
- **Hosts.** Each server decides alone, from a table of hosts it has read, who is
  coordinator; entries grow old under servers that only stall, and are deleted
  after they were refreshed. Correct means: what a server tells its own
  components is consistent, and when failures end all servers know the same
  hosts and one coordinator.
- **Assignments.** A rebalance reads two tables and writes the difference key by
  key, on one of two threads of a server, while users change tasks and another
  server may believe to be coordinator too. Correct means: a coordinator that
  thinks it has handled the latest change has shared out all tasks.
- **Scheduling.** A check reads times, assignments and tasks one after the other
  while they change. Correct means: a scheduler that has seen the times of both
  tables runs exactly the tasks assigned to its host, in their latest versions.
- **Roll-up page.** Answers come in any order and the id of a task comes with one
  of them. Correct means: the page shows what the server has, and only what the
  user asked to delete goes.

## 2. Modules

| module | what it is |
|---|---|
| `FileQueue` | the file backed queue, its delivery thread, the callback chain, the workers |
| `FileQueueProofs` | its type invariant and seven safety invariants, proved |
| `IngestBatch` | ingest workers over the shared caches and the tables, with retries and deletes |
| `IngestBatchProofs` | its type invariant and six safety invariants, proved: caches honest, points findable, none dropped |
| `CqlQuery` | one metric query on Cassandra |
| `RowTimes` | row times and columns, and what queries and deletes make of a range; no state |
| `CqlQueryProofs` | bound on queries in flight and completeness of answers, proved; and of `RowTimes`, that queries and deletes touch the data points of their range and no other |
| `QueryQueuing` | permits and hashes of the queries of all threads, and kills |
| `QueryCache` | composes `QueryQueuing` with `execute`, `close` and the cache files |
| `QueryCacheProofs` | of `QueryQueuing`: exclusion, conservation of permits, and whom a kill hits, proved; `QueryCache` implements it, so the exclusion carries over; and its type invariant and `AnswerWhole` |
| `IngestQueue` | abstract: a queue that delivers each accepted event at least once, in any order |
| `HostEvents` | abstract: what a server tells its components about hosts |
| `HostManager` | the table of hosts and the check of every server; it implements `HostEvents` |
| `HostManagerProofs` | its type invariant and the refinement, proved |
| `RollupAssignment` | the coordinators of all servers, over `HostEvents` |
| `RollupAssignmentProofs` | its type invariant and `CoordinatorSharesOut`, proved |
| `RollupScheduling` | the scheduler of one server against the tables of tasks and assignments |
| `RollupSchedulingProofs` | its type invariant and `JobsMatch`, proved |
| `RollupPage` | the page in the browser and the server it talks to |
| `RollupPageProofs` | its three safety invariants, proved |
| `MC...` | instances for TLC |

Definitions named as mutants in a comment are variants of an action with a
plausible bug. They are used by no specification; substituted for the action they
vary, they show that a property can fail.

### FileQueue

The file is `tail`, `head` and the numbers between: an event is the index that
`BigArray.append` gave it. `Put` is `put()` under the lock. The delivery thread is
split where its locks and calls split it: `Poll`, `StartGet`, one action per event
taken (`TakeFromMemory`, `TakeFromFile`, `TakeUnreadable`, `ReadFails`), `EndGet`,
`CountBatch`, then `getCompletionCallBack` in the order of its assignments
(`KeepCallBack` or `SetFinalized` and `SetChildCallBack`), and `HandleEvents`. The batch
size has no lock: the delivery thread tests it twice (`TestFull`, `TestLimit`) and
raises it with a read and a write (`ReadSize`, `WriteSize`), and each worker lowers it
with a read and a write of its own (`ReduceRead`, `ReduceWrite`), all of them
interleaved. `Increment` is the 5 of the code, a constant so that TLC can see
several of these overlap in small batches. A callback is its position in the
chain. A worker in `complete()` can be interrupted by the others after the
decrement, before the call of the child, and before each `removeBeforeIndex` on
the way back; these are the actions `Complete`, `CompleteChild`, `Return` and
`RemoveBeforeIndex` or one of its two failures. `Restart` rebuilds everything but
the file, at any moment.

`IngestQueue` says what the queue promises: an accepted event stays pending until
its delivery is settled; one that was handed out may be handed out again only
after a restart. `FileQueue` maps the entries of the file between tail and head,
and what workers hold, to it (`DeliversAtLeastOnce`).

### IngestBatch

`Rows` are row keys, `Names` the pairs of a metric and a row time
(`TimedString`). A worker runs `retryCall`: it loads the next
`size / divisor` points into a `CQLBatch`, which marks the caches and sends the
index statements asynchronously (`flying`), submits the data point batches, and on
a failure clears from the caches what the batch had put there and starts over
with smaller pieces. With ttls aligned to the time of a point, `loadBatch` passes over a
point that is dead by the time it is loaded, before any cache is asked
(`SkipExpired`); in one attempt a point may be alive and in the next dead.
`FilteredNames` are those of metrics matched by `metric_index_filter.prefix`: their
times are written and cached as others are, but `addMetricName` does not remember
them as new, so nothing takes them out of the cache when the batch fails.
`deleteDataPoints` is a thread of its own over the same tables and caches, with or
without tags, over a time frame or all times. A tombstone also hides writes that
carry an older timestamp and have not arrived yet.

### CqlQuery

`pc` walks through the loop of `cqlQueryWithRowKeys` (755-805): take a permit, ask
the monitor, send, and at the end check the exception and take all the permits.
`listener[r]` follows the query of row key `r` from `sent` to `done`; `failQuery` is
two steps because its two fields are assigned one after the other. The limit is a
counter compared where the code compares it, before a query is sent. `Kill` sets
the interrupt flag; each place that can be interrupted notices it.

### RowTimes

The arithmetic of `RowSpec` on times that are any integers, under the names of its
methods, and that of its users: `RowListed` is the range `createQueryKeyList` asks of
the time index, `FirstColumn` and `LastColumn` are the bounds of a CQL query
(718-729), `DeletesRow`, `DeleteFrom` and `DeleteTo` what `deleteDataPoints` makes of a row.
An `int` is its four bytes, since Cassandra compares column names as bytes:
doubled for the old format they pass 2^31 and are negative in Java, which the
unsigned comparison and `>>> 1` undo. `HalfWord` is 2^31, and smaller for TLC. `IngestBatch`
and `CqlQuery` take from it that each data point has one row and that the CQL
queries of the listed rows together are the query.

### QueryQueuing and QueryCache

`QueryQueuing` follows each thread through `waitForTimeToRun`: `Enqueue` and
`Acquire` on the fair semaphore, `Register` or `Conflict` under the lock,
`ReleaseOnConflict`, `Wake`; then `EndQuery`, `Unregister` and `Release`. `KillQuery` sets
the interrupt flag of the registered thread; the flag may outlive the query, and
then `AcquireInterrupted` fails the next one on the thread, as in the code.

`QueryCache` numbers the queries in the order of creation and follows the search
result of each: the file it has open, the rows it knows, whether they came from
an index, and the rows listeners may still write after `queryDatabase` has thrown
(`WriteLate`). The two files of a hash are named by the query that created them.
`InternalClose` saves the index or deletes the file, depending on `KeepFiles`.

### HostManager, HostEvents and RollupAssignment

`HostManager` has one action for each access to the table: `Refresh`, `ReadHosts`,
`Expire` for each old entry, then the events (`PostCoordinator`, `PostHosts`) and
`EndPost`. An entry is fresh or stale; that it grows stale stands for the passing
of `inactive_time`, at any moment while its server is down, and as a counted
failure while it runs.

`HostEvents` keeps of this what subscribers see: a new list, the event on the
coordinatorship before it if that changes, and the list remembered after the
subscribers return. `RollupAssignment` extends `HostEvents` and so holds for any
sequence of lists, not only for those `HostManager` would send. It adds
`AssignmentCoordinator`: `CoordinatorChanged` and `HostListChange` are its two
subscribers, `StartChecker` and `LockChecker` the scheduled check; whoever has
`m_rebalanceLock` goes through `ReadAssignments`, `ReadTasks`, one `WriteAssignment` per
key and `EndRebalance`, or ends in `RebalanceFails`. Tasks are numbers in
the order in which the tables list them, and `Shares` is the balancing as a
function of the tasks handed out so far: what each host has, and when it was last
given one. The code keeps a list sorted by load; since its sort is stable, the
first host of the list is, of the least loaded, the one last given a task.
`BalancesAsListed` in the MC module compares the two for three hosts and four tasks
of all scores from -1 to 2. `Score` is that of the code for any interval a task can
have: 61 minus the minutes and 121 minus the seconds, so zero or less when these
exceed an hour or two minutes, and no score for milliseconds (`CannotScore`), where
`score` throws and the rebalance with it. A task that scores nothing or less does
not take its host from the top of the list, and the host is given the next one
too; `CoordinatorSharesOut` says what is left of the balance then: a host's load
exceeds what others have been given, negative scores left out (`Burden`), by no
more than one task.

### RollupScheduling

One server's `SchedulingManager`. A check walks through `StartCheck` (time of the
assignments), `ReadId` for each id, `StartApply` (the difference), `CancelJob` and
`ScheduleNew`, `EndApply`, then `ReadTaskTime`, `CheckTask` and `ScheduleAgain` for the
changed tasks and `EndCheck`. `SkipNew` and `SkipAgain` are tasks that cannot be read,
`Abort` an exception that ends the check, `Restart` a restart of the server. Users
and coordinators change both tables between any two of these steps; a deletion
and the time that announces it are two steps.

### RollupPage

The objects of `$scope.tasks` with their ids, revisions and flags, and the
requests under way with their state at the server. The user acts
(`AddTask`, `ChangeUnsaved`, `Blur`, `DeleteTask`, `DeleteSelected`), the server serves
requests in any order (`ServeSave`, `ServeDelete`, `ListServed`), answers come back in any order, and
requests or answers get lost. The server may also answer with an error, having
done nothing (`Refuse`) or although the task is or will be written or deleted
(`RefuseInDoubt`): a write can time out and take effect all the same, and a delete is
two statements of which the second can fail. `create` writes a task whether it
exists or not, as `RollUpResource` does. `deleteSelected` walks forward over an array from which its
own removals take elements away; `DeleteLoop` is that walk, so it passes over the
neighbour of an unsaved task it has removed, as the code does.

## 3. Runs

| run | module, bounds | question |
|---|---|---|
| `file_queue` | `FileQueue`, 2 workers, 3 events, batches of 2, memory for 1, 3 checkpoints, 1 fault, 1 restart | safety of the queue, that it implements `IngestQueue`, that events get completed and checkpoints are reached |
| `file_queue_sizes` | 2 workers, 13 events, configured batches of 4, increments of 2, no faults | the size of a batch under overlapping reductions and increments |
| `file_queue_backlog` | 1 worker, 2 events, 1 restart | *violated*: the backlog is sent on startup |
| `ingest_batch_failures` | `IngestBatch`, 2 workers, 3 points in 2 rows of 2 metrics, one of them filtered, a point that may die, a row cache of 1 and a name cache of 2, 1 outage, 1 other fault | caches stay honest, points stay findable, none is dropped silently |
| `ingest_batch_deletes` | 1 point per batch, 1 delete over all times, with tags or without, that may fail, 1 lost write | the name cache and the row keys under deletes |
| `cql_query` | `CqlQuery`, 4 rows of 0 to 2 points, 2 permits, 2 readers, limit 3, time limit, 2 faults, 2 kills | types, queries in flight, whole answers, the query ends; evaluates the theorems about `RowTimes` for widths up to 5 and times from -6 to 11 |
| `query_queuing` | `QueryQueuing`, 3 threads, 2 hashes, 2 permits, unbounded queries and kills | exclusion, permits, kills, no query blocks another |
| `query_cache` | `QueryCache`, 3 threads, 3 queries, 2 hashes, 2 permits, 2 rows, 1 failure, 1 kill, files kept | types, those of `QueryQueuing` included; answers are whole while no query of the hash was disturbed |
| `host_manager` | `HostManager`, 3 servers, 1 failure of any kind | it implements `HostEvents`; in the end one coordinator and one list of hosts |
| `rollup_assignment` | `RollupAssignment`, 2 servers, 3 tasks that score 2, -29 and nothing, 3 lists of hosts, 1 change or failure | a coordinator nobody disturbed has shared out the tasks; evaluates `BalancesAsListed` |
| `rollup_scheduling` | `RollupScheduling`, see `MCRollupScheduling.cfg` | the jobs of a scheduler match the tables once it has seen them, and it comes to that |
| `rollup_page` | `RollupPage`, 2 tasks, 3 ids, 3 calls, 1 edit, 1 fault (an error, an error in doubt, a lost request or answer), 1 change by others | page and server agree, nothing else is deleted |

The violation is a difference between the documentation of the repository and the
code, quoted in `PROJECT.json` under `findings`: the delivery thread looks only at
the memory queue, so a backlog found in the file after a restart waits for the
next event of a producer.

Properties hold outside of exceptions that they name. These are weaknesses of the
code the models show, and each is a hazard in `PROJECT.json`:

- a delete of whole rows without tags removes their `row_key_time_index` entry and
  leaves the name cached: data sent afterwards is not indexed again;
- `deleteDataPoints` takes the name of a metric out of `string_index` whenever the
  time range is all of time, though with tags other rows of it stay (`AllTimes`;
  "If index is gone", the comment at 926 says): the metric has data and is not
  listed;
- the result of an asynchronous index statement is dropped (`lost`): if it alone
  fails, the row key stays in the cache and is not written again;
- the times of filtered metrics stay in the name cache when the batch that should
  have written them fails: later data does not write them again, and neither does
  the retry, so until they are evicted the data is not found
  (`FilteredWrites`, `lost`);
- a point that dies between two attempts leaves the row key and the time unwritten
  that the first had in its batch and the retry no longer has; another worker may
  have relied on them in the cache (`lost` again);
- overlapping writes of `m_batchSize` can undo a reduction, and the increments of 5
  pass the configured size by up to 4;
- `failQuery` stops the query before it sets the exception: in between the caller
  can leave its loop with a permit in hand and wait for all of them, until
  somebody kills the query (`QueryEnds` is about queries in which nothing fails);
- the rows a failed or killed query had got so far are saved as its result, and
  answer later queries with a `cache_time` (`disturbed`);
- before 1970 row times are not in the order of the data points: a query or delete
  whose range begins there can miss data points of the range (`MissedBefore1970`),
  which the tests of the datastore mean to be found (`test_queryNegativeTime`, in
  whose data it does not happen);
- no width of a row is refused: above 2^31 ms, 25 days, data points are read with
  times before their row (`ReadTooEarly`); with `row_time_unit` SECONDS the width,
  then in seconds, is used as milliseconds by `calculateRowTime`, so rows are some 30
  minutes long and not three weeks as `kairosdb.conf` says (`RowHolds`);
- an aborted check of a scheduler forgets how far it had come (`torn`), and a task
  that cannot be read is not tried again until it changes (`missed`);
- a rebalance that fails when the hosts change is not repeated, one over which a
  second coordinator has written is not noticed (both leave `undisturbed`), and
  the checker of a new coordinator can meet an empty map of hosts, whose
  exception ends its schedule (`dead`);
- with one task whose interval is in milliseconds every rebalance throws, and a host
  given a task of more than an hour (or, in seconds, of two minutes) is given the
  task after it too: `score` gives 90 minutes -29, where its comment (174) says
  "> 1 hour -> 1" (`CannotScore`, `Score`);
- on the page, a second save of a new task before the first is answered makes a
  second task, a save that overtakes a delete brings the task back, and after an
  error in doubt the page may show a deleted task or one the server has
  differently (`overlapped`, `early`, `dropped`).

### Why the bounds are enough

- *FileQueue.* The chain of callbacks needs three links for a middle one, two
  workers to complete out of order, batches of two so that a batch can begin in
  the memory queue and end in the file (two events arrive after its first was
  taken), and a memory queue smaller than the number of events so that eviction and
  reading back happen. In the run about sizes, with the workers interchangeable,
  4 + 4 + 2 + 2 events and one more allow two batches to be refused at their full
  size, so that two reductions are under way with values read at different times,
  and the delivery thread to raise the size between a read and a write; 5, which is
  4 + `Increment` - 1, is reached. The proofs hold for all values.
- *IngestBatch.* Two workers share a row key and a name; one batch holds points of
  both rows, so one attempt can fail in the middle. A row cache of one entry evicts
  on every second insertion, while the filtered name stays cached, as it does in
  the code until the cache is full. The point that may die is in a batch of its own,
  but in a row with a point of the other, which may rely on its row key; the
  filtered name is that of a point in a batch of two. The two workers are
  interchangeable.
- *CqlQuery.* More rows than permits, so the caller blocks and permits are reused;
  an empty row, a row of one and rows of two points, so the limit is passed
  inside a row and between rows; two faults, so a second failure meets a query
  that is already ending; two kills, one of which may find it in its last wait.
- *QueryQueuing.* Three threads for two permits and two hashes: conflicts with a
  permit left, conflicts without, and queues. Nothing is bounded in this run.
- *QueryCache.* Three queries of one hash are a failed one, a later one that finds
  its files, and one that runs while a listener of the first still writes; two
  rows make a result that is neither empty nor whole. Threads and rows are
  interchangeable (`KeepFiles` is true in the run, since only then does a query read what
  another wrote).

- *HostManager.* With three servers the first, a middle and the last one can fail;
  one failure can be a crash with its restart, a stall before any step of a check,
  or a failed access. Nobody has announced itself at the start, so servers also
  see each other come.
- *RollupAssignment.* Two servers suffice for two coordinators; three lists let one
  of them learn of the other, lose it and find it again, or both believe to be
  coordinator and one give up; a task stored at the start that scores 2, one that
  scores -29 and one that has no score make a second task move the balance, or not,
  and a rebalance throw. A change and a failure do not occur in the same behaviour.
- *RollupScheduling.* Changes and failures are enough for a task to be assigned,
  written and taken away during one check; more servers add nothing, as
  schedulers share only tables they do not write.
- *RollupPage.* Two objects and three ids allow a task to be created twice and
  another to exist besides; three calls can be under way together.

`CHECK_DEADLOCK FALSE` is set where a bounded number of batches, deletes or
queries is used up, where one query has ended, or where users and tables come to
rest: `IngestBatch`, `CqlQuery`, `QueryCache`, `RollupAssignment`, `RollupScheduling` and
`RollupPage`, and the run of `FileQueue` about sizes, in which no restart takes a full
batch size back. The other runs of `FileQueue`, `QueryQueuing` and `HostManager` are
checked for deadlock.

### Fairness

- `FileQueue`: weak fairness of the delivery thread and of each worker, which are
  Java threads nothing else can keep from running. No fairness for producers,
  faults or restarts. Events of a callback whose `complete()` was lost to a fault
  need not be settled (`stuck`), and checkpoints need not be reached after a fault:
  they wait for the next process.
- `CqlQuery`: weak fairness of the calling thread, of the reader threads and of the
  answer to each query in flight, since the driver's read timeout ends every
  request. None for faults and kills.
- `QueryQueuing`: weak fairness of each thread in its query. Weak is enough for
  `Acquire` because the semaphore is created fair and only the first in its
  queue takes a permit. That a running query ends is an assumption here,
  which the exception named for `failQuery` above breaks. Which of the waiting queries
  of a hash runs next is open: one that met a conflict queues up anew, so it can
  be passed any number of times, and `HashServed` claims no more than that some
  query of the hash runs.

- `HostManager`: weak fairness of the check of each running server, which is
  scheduled with a fixed delay and catches every `Throwable`, and of the aging of
  the entry of a server that is down. None for restarts and failures.
- `RollupScheduling`: weak fairness of the check, which is scheduled likewise. None
  for users, coordinators and failures, nor for the second statement of a deletion.

## 4. Proofs

All are for arbitrary constants that satisfy the `ASSUME`s of the modules. These
say that the sets of threads, hosts, points, rows of a result and ids are finite (and
threads, hosts and rows not empty), that hosts are positive numbers, that the values
for "no task", "no id", "no thread" and "no worker" are none of the others; that
sizes, permits and pools are positive and bounds natural numbers; that switches are
Booleans; and the types of the functions and sets that describe data: the row, name
and metric of each point, the sizes of rows, batches of at least one point, intervals
of a natural number and a unit. None of them restricts what data may be. Two
theorems assume more and say so: `WholeDeletes` (no deletes of a time frame) and
`ListedDeletes` (none with tags over all times).

**FileQueueProofs.** None of the properties is inductive. The invariant describes
the whole pipeline: the memory queue as the newest consecutive part of the
array; batches in the hands of workers as disjoint, below `nextIndex` and at or
above the start of their callback; each callback's counter as the number of
workers that hold one of its batches or are on their way down to it, plus one
while its parent has not run out. From the last it follows that a finalized
callback runs out only after all older ones, hence `CheckpointSafe`: when the
index of a callback is removed from the file, every event below it has been
completed. `NothingForgotten` and `AtMostOncePerRun` come from the same facts.

`BatchSizeBounded` needs that a batch whose size may be halved was no larger than the
bound, and that what any worker is about to write is at most half of that, so any
number of stale writes leave the size within it.

**IngestBatchProofs.** `PointsAccounted` speaks of completed batches; `Accounted` extends
it to a worker in the middle of an attempt: every point of its batch is stored,
found dead, in the batch it is sending, or still to come, whichever piece failed
before. The
others follow from one invariant, `IndexInv`. It says of each index write who answers
for it at each moment: the tables, the record of a loss, a statement that flies,
a batch that is being filled and sends it when it is submitted, or a worker that
will clear it from the cache and then `WritesAgain`; a running delete excuses the rows
it has `gone` through. A cache entry always has such an answer (`RowCacheHonest`,
`NameCacheHonest`), and so has every index write of a point that was stored
(`SoughtInv`). At rest nothing flies and no worker is at work, so what is left is the
tables or the record of a loss: `RowKeysComplete`, `TimeIndexComplete`, `MetricsListed`.
`NameCacheHonest` and `TimeIndexComplete` are proved without deletes of a time frame
(`WholeDeletes`), after which the name cache keeps names whose index row is gone, and
`MetricsListed` without deletes that have tags and cover all times (`ListedDeletes`),
after which it is false; both are named in section 3. The others are proved for all
faults and deletes, and all of them for filtered names and points that die.

**CqlQueryProofs.** The heart is `PermitsCounted`: while the caller sends queries
and waits for the last, permits in the semaphore, listeners in flight and the
permit in the caller's hand add up to the number of permits. So when the caller
gets them all no listener is left; each of them has ended in a complete write or
in a failure that set the exception. Together with what is known of the rows
already sent this gives `AnswerComplete`.

*Row times*, in the same module. Rounding down to a multiple of the width keeps
the order of times that are not negative (`RoundedInOrder`), so no row of a range
begins before the row of its start; inside a row and up to its end, columns are
in the order of times and one more fits into an int (`ColumnsInOrder`). From these
two follow `RangeFound`, `OnlyRangeFound`, `RangeDeleted` and `OnlyRangeDeleted`. The last two
theorems about row times show that what they assume is needed.

**QueryCacheProofs.** *Queuing.* `RegistryInv` ties the map of running queries to the
threads in both directions: a registered thread is the one its hash is mapped to
(hence `HashExclusive`), and an entry names a thread that runs a query of that hash
(hence `KillHitsQuery`). `PermitsConserved` is inductive by the number of holders,
which changes by at most one with each step. *Refinement.* Every step of `QueryCache`
is a step of `QueryQueuing` or leaves its variables alone, so `Spec => QueuingSpec`, and
no two queries that execute at the same time use the same files. *Answers.*
`HashInv` describes the files of a hash nothing has gone wrong with: rows are pending
only for the query that executes, which has in a data file of its own exactly
the rows no longer pending; an index is whole and goes with a data file of one
writer. It is kept by steps of other hashes because a file belongs to one hash
(`FilesInv`), and by a new query because it is untouched (`FreshInv`). With it and
the exclusion each answer is whole (`AnswerWhole`).

**FileQueue implements IngestQueue.** `RefinesIngestQueue` maps each step of the queue
to a step of `IngestQueue` or a stutter; the invariant of the other proofs gives the
guards of the abstract steps.

**HostManagerProofs.** Type correctness says that a list exists only during a check;
with it each step of a check before its events, and each failure, is a stutter
of `HostEvents`, and the events are its steps.

**RollupAssignmentProofs.** `ServerInv` relates the two threads of a server to the lock,
and gives the types. `CoordinatorSharesOut` speaks of a coordinator at rest. `ServerPlan`
extends it to every point of a rebalance of a server in `undisturbed`: before it and
after it the assignments are a plan, in between they are what was read, or the
plan but for the keys still to be written (`Saves`). The hosts of the plan are those
the server knows unless it was told of others since (`HostsKnown`), the tasks those
stored, announced deletions aside, unless their time has moved since it was read
(`TasksKnown`). That a plan is shared out is a lemma about `Shares` (`PlanIsSharedOut`): with
each task handed out, no host's load exceeds another's burden by more than one of
its tasks (`FairUpTo`, `FairAll`), for scores of any sign. `GivenAsAssigned` and `LoadOfPlan`
tie the loads `Shares` counts while it hands out to those of the assignments it leaves.

**RollupSchedulingProofs.** `JobsMatch` speaks of a scheduler between two checks. The
invariant extends it to every point of a check: what was read so far agrees with
the tables unless these have changed since the time the check had read
before, and what is still to be cancelled, started or compared makes up the
difference between the jobs and what was read.

**RollupPageProofs.** The invariants are about tasks handled one request at a time.
For these `SingleInv` says what their one request, the object and the server's task
have to do with each other, before the server has seen the request, between it
and the answer, and after; `IdsKnown` and `UnusedClean` keep the ids of different
objects apart, and `ListFresh` says that the list the page loads is older than
everything else it did. Each action changes one object, and the others by
`SameObject` keep what was known of them. `OnlyAskedGone` is `Gone`, with no condition on
how tasks are handled; the walk of `deleteSelected` comes in by `LoopFacts`: what is
removed or sent was selected, what is sent has an id and stays on the page, and
nothing is sent twice. A request answered in doubt ends what is claimed of its object
and may still be served; nothing else depends on it (`RefuseInDoubtInv`). These
proofs need `IdsAssumption`, that there are finitely many ids.

Recursive functions (`Shares`, `Totals`, `DeleteLoop`) are proved to exist and to have their
properties by the least number for which that fails (`Least`, from the library's
theorem that `<` on the naturals is well-founded), since a theorem whose parameter
is an operator cannot be used with the provers here.

So every safety invariant that a passing run checks is proved, and the refinements and
`KillHitsQuery`. Only model-checked is liveness (`ReadyEventsComplete`, `CheckpointReached`,
`QueryEnds`, `HashServed`, `OneCoordinator`, `JobsSettle`), which is out of the prover's reach.

## 5. What the models leave out

- *FileQueue*: the wrap of array indices at 2^63; `waitForEvent`, which the
  delivery thread never reaches, as it asks for events only when the memory queue
  holds some (`QueueProcessor` is its only caller); the sleep of `min_batch_wait`; memory mapped pages
  that an operating system crash would lose; a `put` racing the close of the
  array at shutdown; the wait at startup for a handler to be registered.
- *IngestBatch*: a crash of the process (FileQueue replays the batch, and a write
  made twice changes nothing); the `tag_indexed_row_keys` table, written
  along with `row_keys`; Cassandra's own expiry of what has a ttl, rows of the indexes
included; deletes within a row, which touch
  neither index nor cache (`RowTimes` says what they take away). The set of rows a delete works on is read in one step.
  A delete that throws half way leaves wrong cache entries; the model records
  their writes as `lost` and the properties exempt them, so this weakness is
  stated as a hazard and not as a checked property.
- *CqlQuery*: the order in which the executor takes results; what the row key
  iterator does to find the rows.
- *RowTimes*: the single row of row keys that old versions wrote, and the odd columns
  in which they stored doubles; deletes on clusters without deletes of ranges,
  which query first; the ends of the range of a `long`. In the unit of seconds data
  points are cut to their second, so a range that begins inside a second includes
  it: only `ReadAsWritten`, `RangeFound` and `RangeDeleted` cover this unit.
- *QueryQueuing and QueryCache*: `cleanCacheDir`, which deletes the directory after
  waiting at most a minute; the memory monitor; grouping and aggregation beyond
  the fact that they may throw.
- *HostManager and RollupAssignment*: clocks are right (an entry is stale or not for
  all servers alike); `listKeys` and the `getValue` of each key are one step; an
  assignment whose value has gone between the two is deleted by the reader, which
  is left out; an interval is a whole number of its unit, at most as long as a
  `long` holds; the tables of a user's change are written by any server.
  `AssignmentManager` and `balance()` are not called by anything.
- *RollupScheduling*: modification times grow with every change (the code uses
  milliseconds); the contents of a task are a version.
- *RollupPage*: what is shown inside a task, the suggestion lists and the status
  dialog. The suggestion list has a semaphore that a failed request never
  releases, and an answer to an older status request overwrites a newer one.
- `MemoryQueueProcessor`, the H2 datastore, the servers and parsers, the event bus,
  aggregators and group-bys, and the execution of roll-ups: not modelled yet, or
  not at all; `PROJECT.json` gives the reason for each. The pages in `webroot/js`
  draw graphs and widgets over one request at a time; the libraries under
  `webroot` and `src/docs` are other projects' code.

## 6. Plan

Written, in this order, by importance: `FileQueue` and its proofs; `IngestBatch`;
`CqlQuery` and its proofs; `QueryQueuing` with proofs and `QueryCache`; `IngestQueue` and
the refinement; `RollupPage`; `RollupScheduling` and its proofs; `HostManager` with
`HostEvents` and its proofs; `RollupAssignment`; the proofs of `IngestBatch`; `RowTimes` with
its proofs; the rest of the invariants of `IngestBatch` and `QueryCache`, and the proofs of
`RollupAssignment` and `RollupPage`.

To come:

1. **`RollupRun`**: `RollupProcessorImpl` over `SamplingPeriod`s: no interval is skipped or
   written twice although runs fail and are repeated.
2. `MemoryQueueProcessor` as a second implementation of `IngestQueue`, and
   `TournamentTree` with `SortingDataPointGroup` as an algorithm: a merge that is sorted
   and loses nothing.
