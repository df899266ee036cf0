----------------------------- MODULE QueryCache -----------------------------
(***************************************************************************)
(* DatastoreQueryImpl.execute and close over CachedSearchResult: a query   *)
(* writes the rows it gets from the datastore into a data file named after *)
(* its hash, reads them back from there, and keeps or deletes the file     *)
(* when the last of its rows is closed.  QueryQueuing keeps queries with   *)
(* the same hash, and so the same files, apart.                            *)
(*                                                                         *)
(* The datastore is what CqlQuery shows of it: it returns with every row   *)
(* written; or it fails, or an interrupt cuts it short, and listeners that *)
(* were already under way go on writing rows into the search result they   *)
(* were given.                                                             *)
(***************************************************************************)
EXTENDS QueryQueuing

CONSTANTS
    Rows,       \* row keys in the result of a query
    KeepFiles,  \* kairosdb.query_cache.keep_cache_files
    MaxQueries, \* bound: queries that are created
    MaxKills,   \* bound: calls of killQuery
    MaxFaults   \* bound: queries that fail

ASSUME RowsAssumption == IsFiniteSet(Rows) /\ Rows # {}
ASSUME CacheAssumption == KeepFiles \in BOOLEAN
ASSUME BoundsAssumption == MaxQueries \in Nat /\ MaxKills \in Nat /\ MaxFaults \in Nat

Queries == 1 .. MaxQueries
NoQuery == 0

VARIABLES
    step,       \* where execute() of each running thread is
    query,      \* the number of each thread's query, in the order of creation
    queryHash,  \* history: the hash each query had
    dataFile,   \* the data file of a hash, named by the query that created it
    indexFile,  \* the index of a hash: the query that saved it and its rows
    writers,    \* the queries that have written into a data file
    openFile,   \* m_randomAccessFile of a query's search result
    closed,     \* whether internalClose has closed it
    rowSets,    \* m_dataPointSets of a query's search result
    source,     \* the query whose rows it reads: itself, or one from the cache
    pending,    \* rows the datastore may still write into the search result
    answer,     \* history: what the query's caller got
    disturbed,  \* history: hashes a query of which failed or was cut short
    created, kills, faults  \* bounds: queries created, calls of killQuery, failures

diskVars == <<dataFile, indexFile, writers>>
resultVars == <<openFile, closed, rowSets, source>>
idVars == <<query, queryHash, created, kills>>
cacheVars == <<step, idVars, diskVars, resultVars, pending, answer, disturbed, faults>>
vars == <<queuingVars, cacheVars>>

NoIndex == [by |-> NoQuery, rows |-> {}]
ExecuteSteps == {"none", "open", "query", "rows", "read", "failed"}

Init ==
    /\ QueuingInit
    /\ step = [t \in Threads |-> "none"]
    /\ query = [t \in Threads |-> NoQuery]
    /\ queryHash = [q \in Queries |-> AnyHash]
    /\ dataFile = [h \in Hashes |-> NoQuery]
    /\ indexFile = [h \in Hashes |-> NoIndex]
    /\ writers = [q \in Queries |-> {}]
    /\ openFile = [q \in Queries |-> NoQuery]
    /\ closed = [q \in Queries |-> FALSE]
    /\ rowSets = [q \in Queries |-> {}]
    /\ source = [q \in Queries |-> q]
    /\ pending = [q \in Queries |-> {}]
    /\ answer = [q \in Queries |-> "none"]
    /\ disturbed = {}
    /\ created = 0 /\ kills = 0 /\ faults = 0

At(t, s) == pc[t] = "running" /\ step[t] = s
StepTo(t, s) == step' = [step EXCEPT ![t] = s]

-----------------------------------------------------------------------------
(* The actions of QueryQueuing around execute()                            *)

Waiting(t) ==
    /\ Wait(t)
    /\ step' = [step EXCEPT ![t] = IF pc'[t] = "running" THEN "open" ELSE @]
    /\ UNCHANGED <<idVars, diskVars, resultVars, pending, answer, disturbed, faults>>

Create(t, h) ==
    /\ CreateQuery(t, h) /\ created < MaxQueries
    /\ created' = created + 1
    /\ query' = [query EXCEPT ![t] = created']
    /\ queryHash' = [queryHash EXCEPT ![created'] = h]
    /\ UNCHANGED <<step, kills, diskVars, resultVars, pending, answer, disturbed, faults>>

Ending(t) == (Done(t) \/ EndRequest(t)) /\ UNCHANGED cacheVars

Killing(h) ==
    /\ KillQuery(h) /\ kills < MaxKills
    /\ kills' = kills + 1
    /\ UNCHANGED <<step, query, queryHash, created, diskVars, resultVars, pending, answer,
                   disturbed, faults>>

-----------------------------------------------------------------------------
(* execute()                                                               *)

(* openCachedSearchResult with a cache_time within which both files are     *)
(* found: loadIndex takes the rows from the index.                         *)
OpenCached(t) ==
    LET h == hash[t]
        q == query[t]
    IN  /\ At(t, "open")
        /\ dataFile[h] # NoQuery /\ indexFile[h] # NoIndex
        /\ rowSets' = [rowSets EXCEPT ![q] = indexFile[h].rows]
        /\ source' = [source EXCEPT ![q] = indexFile[h].by]
        /\ openFile' = [openFile EXCEPT ![q] = IF indexFile[h].rows = {} THEN NoQuery ELSE dataFile[h]]
        /\ StepTo(t, "rows")
        /\ UNCHANGED <<queuingVars, idVars, diskVars, closed, pending, answer, disturbed, faults>>

(* createCachedSearchResult deletes both files: no cache_time, nothing to   *)
(* open or too old.                                                        *)
CreateResult(t) ==
    /\ At(t, "open")
    /\ dataFile' = [dataFile EXCEPT ![hash[t]] = NoQuery]
    /\ indexFile' = [indexFile EXCEPT ![hash[t]] = NoIndex]
    /\ pending' = [pending EXCEPT ![query[t]] = Rows]
    /\ StepTo(t, "query")
    /\ UNCHANGED <<queuingVars, idVars, writers, resultVars, answer, disturbed, faults>>

(* The data file a row is written to: the one the search result has open,   *)
(* the one at the path of the hash, or a new one there.                    *)
FileFor(q) ==
    CASE openFile[q] # NoQuery -> openFile[q]
      [] openFile[q] = NoQuery /\ dataFile[queryHash[q]] # NoQuery -> dataFile[queryHash[q]]
      [] OTHER -> q

(* CachedDatapointWriter.close: the first row of a search result opens the  *)
(* file.  A row that comes when internalClose has closed it fails, and      *)
(* changes nothing; it is left out.                                        *)
WriteRow(q, r) ==
    /\ r \in pending[q]
    /\ ~(openFile[q] # NoQuery /\ closed[q])
    /\ pending' = [pending EXCEPT ![q] = @ \ {r}]
    /\ openFile' = [openFile EXCEPT ![q] = FileFor(q)]
    /\ dataFile' = IF openFile[q] = NoQuery
                   THEN [dataFile EXCEPT ![queryHash[q]] = FileFor(q)] ELSE dataFile
    /\ writers' = [writers EXCEPT ![FileFor(q)] = @ \cup {q}]
    /\ rowSets' = [rowSets EXCEPT ![q] = @ \cup {r}]
    /\ UNCHANGED <<queuingVars, step, idVars, indexFile, closed, source, answer, disturbed,
                   faults>>

(* queryDatabase returns once every row is written. *)
QueryReturns(t) ==
    /\ At(t, "query") /\ pending[query[t]] = {}
    /\ StepTo(t, "rows")
    /\ UNCHANGED <<queuingVars, idVars, diskVars, resultVars, pending, answer, disturbed, faults>>

(* queryDatabase throws. *)
QueryFails(t) ==
    /\ At(t, "query") /\ faults < MaxFaults
    /\ faults' = faults + 1
    /\ disturbed' = disturbed \cup {hash[t]}
    /\ StepTo(t, "failed")
    /\ UNCHANGED <<queuingVars, idVars, diskVars, resultVars, pending, answer>>

(* An interrupt makes queryDatabase throw, or return with the rows it has.  *)
QueryCutShort(t) ==
    /\ At(t, "query")
    /\ NoticeInterrupt(t)
    /\ disturbed' = disturbed \cup {hash[t]}
    /\ \E s \in {"failed", "rows"} : StepTo(t, s)
    /\ UNCHANGED <<idVars, diskVars, resultVars, pending, answer, faults>>

(* internalClose: the index of a new result is saved, or the file at the    *)
(* path of the hash is deleted, when cache files are not kept.              *)
InternalClose(q, h) ==
    /\ closed' = [closed EXCEPT ![q] = TRUE]
    /\ indexFile' = IF KeepFiles /\ source[q] = q
                    THEN [indexFile EXCEPT ![h] = [by |-> q, rows |-> rowSets[q]]]
                    ELSE indexFile
    /\ dataFile' = IF KeepFiles THEN dataFile ELSE [dataFile EXCEPT ![h] = NoQuery]

(* getRows, and the close of the search result in the finally of execute(): *)
(* the rows keep it open, if there are any.                                *)
ExecuteReturns(t) ==
    LET q == query[t]
    IN  /\ At(t, "rows")
        /\ StepTo(t, "read")
        /\ IF rowSets[q] = {} THEN InternalClose(q, hash[t]) ELSE UNCHANGED <<closed, indexFile, dataFile>>
        /\ UNCHANGED <<queuingVars, idVars, writers, openFile, rowSets, source, pending, answer,
                       disturbed, faults>>

(* The same close after an exception: no rows were taken, it is the last.   *)
ExecuteThrows(t) ==
    LET q == query[t]
    IN  /\ At(t, "failed")
        /\ EndQuery(t) /\ StepTo(t, "none")
        /\ InternalClose(q, hash[t])
        /\ answer' = [answer EXCEPT ![q] = "failed"]
        /\ UNCHANGED <<idVars, writers, openFile, rowSets, source, pending, disturbed, faults>>

(* What a caller reads back is every row, as the query wrote it.  A file   *)
(* that two queries wrote into counts as spoilt for both.                  *)
Whole(q) == rowSets[q] = Rows /\ writers[openFile[q]] = {source[q]}

(* The caller has read the rows and close() closes them; the last one       *)
(* closes the search result.                                               *)
CloseRows(t) ==
    LET q == query[t]
    IN  /\ At(t, "read")
        /\ EndQuery(t) /\ StepTo(t, "none")
        /\ answer' = [answer EXCEPT ![q] =
                        IF rowSets[q] # {} /\ Whole(q) THEN "whole" ELSE "partial"]
        /\ IF rowSets[q] # {} THEN InternalClose(q, hash[t]) ELSE UNCHANGED <<closed, indexFile, dataFile>>
        /\ UNCHANGED <<idVars, writers, openFile, rowSets, source, pending, disturbed, faults>>

(* Grouping the rows fails: m_results is not set and nothing closes them.   *)
GroupingFails(t) ==
    /\ At(t, "read") /\ faults < MaxFaults
    /\ faults' = faults + 1
    /\ EndQuery(t) /\ StepTo(t, "none")
    /\ answer' = [answer EXCEPT ![query[t]] = "failed"]
    /\ UNCHANGED <<idVars, diskVars, resultVars, pending, disturbed>>

Execute(t) ==
    \/ OpenCached(t) \/ CreateResult(t) \/ QueryReturns(t) \/ QueryCutShort(t)
    \/ ExecuteReturns(t) \/ ExecuteThrows(t) \/ CloseRows(t)
    \/ At(t, "query") /\ \E r \in Rows : WriteRow(query[t], r)

(* Listeners of a query that has left queryDatabase *)
Straggler(q) == \A t \in Threads : At(t, "query") => query[t] # q
WriteLate(q) == Straggler(q) /\ \E r \in Rows : WriteRow(q, r)

-----------------------------------------------------------------------------
Next ==
    \/ \E t \in Threads :
        \/ \E h \in Hashes : Create(t, h)
        \/ Waiting(t) \/ Ending(t) \/ Execute(t) \/ QueryFails(t) \/ GroupingFails(t)
    \/ \E h \in Hashes : Killing(h)
    \/ \E q \in Queries : WriteLate(q)

Spec == Init /\ [][Next]_vars

-----------------------------------------------------------------------------
TypeOK ==
    /\ QueuingTypeOK
    /\ query \in [Threads -> Queries \cup {NoQuery}]
    /\ queryHash \in [Queries -> Hashes]
    /\ created \in 0 .. MaxQueries /\ kills \in 0 .. MaxKills /\ faults \in 0 .. MaxFaults
    /\ disturbed \subseteq Hashes
    /\ step \in [Threads -> ExecuteSteps]
    /\ \A t \in Threads : step[t] # "none" <=> pc[t] = "running"
    /\ dataFile \in [Hashes -> Queries \cup {NoQuery}]
    /\ indexFile \in [Hashes -> [by : Queries \cup {NoQuery}, rows : SUBSET Rows]]
    /\ writers \in [Queries -> SUBSET Queries]
    /\ openFile \in [Queries -> Queries \cup {NoQuery}]
    /\ closed \in [Queries -> BOOLEAN]
    /\ rowSets \in [Queries -> SUBSET Rows]
    /\ source \in [Queries -> Queries]
    /\ pending \in [Queries -> SUBSET Rows]
    /\ answer \in [Queries -> {"none", "failed", "partial", "whole"}]

(* A query that is answered gets every row as it was written for it, or for *)
(* the earlier query whose cache files it found, while no query of its hash *)
(* has failed or was killed: files of one hash are never shared by two      *)
(* queries at a time, and trouble with one hash does not reach another.     *)
AnswerWhole ==
    \A q \in Queries : answer[q] = "partial" => queryHash[q] \in disturbed

=============================================================================
