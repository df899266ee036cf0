------------------------- MODULE IngestBatchProofs -------------------------
(***************************************************************************)
(* Proofs about IngestBatch for any workers, batches, caches and deletes:  *)
(* no point of a completed batch is forgotten, the caches claim a row key  *)
(* or a name only when somebody answers for the write of it, and when all  *)
(* has come to rest every stored point can be found.                       *)
(*                                                                         *)
(* PointsAccounted needs to know how far a worker has come: Accounted says *)
(* what became of the events before its position.  What is said of the     *)
(* caches and the indexes is one invariant, IndexInv.  It says who answers *)
(* for each index write that a cached row key, a cached name or a point    *)
(* stands on: it is in its table, lost with a given-up batch, in a         *)
(* statement on its way, in a batch that is being filled, or owed by a     *)
(* worker that will come to write it again (WritesAgain); else a running   *)
(* delete excuses it, which clears the caches in the end and takes no      *)
(* entry that a point it leaves alone stands on (DeleteInv).               *)
(***************************************************************************)
EXTENDS IngestBatch, FiniteSetTheorems, TLAPS

CachesInv == CachesOK /\ IsFiniteSet(rowCache) /\ IsFiniteSet(nameCache)

(* Where the points of a batch come from, and that a worker that is about  *)
(* to add a name has an event to add it for.                               *)
EventsInv ==
    /\ stored \subseteq submitted
    /\ \A w \in Workers : /\ pc[w] = "name" => next[w] <= Len(events[w])
                          /\ batch[w].points \subseteq Elements(events[w])
                          /\ Elements(events[w]) \subseteq submitted

TypeInv == TypeOK /\ CachesInv /\ EventsInv

-----------------------------------------------------------------------------
(* DataCache keeps its size and adds nothing but the item.                 *)
LEMMA CacheItemBounded ==
    ASSUME NEW S, NEW cache \in SUBSET S, IsFiniteSet(cache), NEW item \in S,
           NEW size \in Nat \ {0}, Cardinality(cache) <= size,
           NEW left \in CacheItem(cache, item, size)
    PROVE  /\ left \subseteq S /\ IsFiniteSet(left)
           /\ Cardinality(left) <= size
           /\ item \in left /\ left \subseteq cache \cup {item}
<1>1. Cardinality(cache) \in Nat
  BY FS_CardinalityType
<1>2. CASE item \in cache
  BY <1>2 DEF CacheItem
<1>3. CASE item \notin cache /\ Cardinality(cache) < size
  <2>1. left = cache \cup {item}
    BY <1>3 DEF CacheItem
  <2>2. IsFiniteSet(left) /\ Cardinality(left) = Cardinality(cache) + 1
    BY <1>3, <2>1, FS_AddElement
  <2> QED
    BY <1>1, <1>3, <2>1, <2>2
<1>4. CASE item \notin cache /\ ~(Cardinality(cache) < size)
  <2>1. PICK eldest \in cache : left = (cache \ {eldest}) \cup {item}
    BY <1>4 DEF CacheItem
  <2>2. /\ IsFiniteSet(cache \ {eldest})
        /\ Cardinality(cache \ {eldest}) = Cardinality(cache) - 1
    BY FS_RemoveElement
  <2>3. Cardinality(left) = Cardinality(cache) - 1 + 1 /\ IsFiniteSet(left)
    BY <1>4, <2>1, <2>2, FS_AddElement
  <2> QED
    BY <1>1, <2>1, <2>3
<1> QED
  BY <1>2, <1>3, <1>4

(* The event at a worker's position, its row key and its name.             *)
LEMMA PointTypes ==
    ASSUME WorkersOK, NEW w \in Workers, next[w] <= Len(events[w])
    PROVE  /\ Point(w) \in Points /\ Point(w) \in Elements(events[w])
           /\ Row(w) \in Rows /\ Name(w) \in Names
<1>1. events[w] \in Seq(Points) /\ next[w] \in Nat \ {0}
  BY DEF WorkersOK
<1>2. next[w] \in 1 .. Len(events[w])
  BY <1>1
<1>3. Point(w) \in Points /\ Point(w) \in Elements(events[w])
  BY <1>1, <1>2 DEF Point, Elements
<1> QED
  BY <1>3, SetsAssumption DEF Row, Name

(* Everything that is written to an index is a write.                      *)
LEMMA WriteTypes ==
    /\ \A r \in Rows : RowWrite(r) \in Writes
    /\ \A n \in Names : TimeWrite(n) \in Writes /\ NameWrites(n) \subseteq Writes
BY SetsAssumption DEF Writes, RowWrite, TimeWrite, StringWrite, NameWrites

LEMMA StatementTypes ==
    ASSUME WorkersOK, NEW w \in Workers
    PROVE  MetricNamesBatch(w) \subseteq Writes /\ RowKeyBatch(w) \subseteq Writes
<1>1. batch[w] \in BatchRecords
  BY DEF WorkersOK
<1>2. batch[w].rows \subseteq Rows /\ batch[w].names \subseteq Names
      /\ batch[w].times \subseteq Names
  BY <1>1 DEF BatchRecords
<1> QED
  BY <1>2, SetsAssumption DEF MetricNamesBatch, RowKeyBatch, Writes

-----------------------------------------------------------------------------
(* The parts of the type invariant, one by one.                            *)

(* The caches: only cacheItem can make one grow.                           *)
LEMMA CachesStep ==
    ASSUME TypeInv, Next
    PROVE  CachesInv'
<1>1. ASSUME NEW w \in Workers, RowKeyCached(w)
      PROVE  CachesInv'
  <2>1. next[w] <= Len(events[w])
    BY <1>1 DEF RowKeyCached, HasMore, TypeInv
  <2>2. Row(w) \in Rows
    BY <2>1, PointTypes DEF TypeInv, TypeOK
  <2>3. rowCache' \in CacheItem(rowCache, Row(w), RowCacheSize) /\ UNCHANGED nameCache
    BY <1>1 DEF RowKeyCached
  <2>4. /\ rowCache' \subseteq Rows /\ IsFiniteSet(rowCache')
        /\ Cardinality(rowCache') <= RowCacheSize
    BY <2>2, <2>3, CacheItemBounded, SizesAssumption
    DEF TypeInv, CachesInv, CachesOK
  <2> QED
    BY <2>3, <2>4 DEF TypeInv, CachesInv, CachesOK
<1>2. ASSUME NEW w \in Workers, AddRowKey(w)
      PROVE  CachesInv'
  <2>1. next[w] <= Len(events[w])
    BY <1>2 DEF AddRowKey, HasMore, TypeInv
  <2>2. Row(w) \in Rows
    BY <2>1, PointTypes DEF TypeInv, TypeOK
  <2>3. rowCache' \in CacheItem(rowCache, Row(w), RowCacheSize) /\ UNCHANGED nameCache
    BY <1>2 DEF AddRowKey
  <2>4. /\ rowCache' \subseteq Rows /\ IsFiniteSet(rowCache')
        /\ Cardinality(rowCache') <= RowCacheSize
    BY <2>2, <2>3, CacheItemBounded, SizesAssumption
    DEF TypeInv, CachesInv, CachesOK
  <2> QED
    BY <2>3, <2>4 DEF TypeInv, CachesInv, CachesOK
<1>3. ASSUME NEW w \in Workers, AddMetricName(w)
      PROVE  CachesInv'
  <2>1. next[w] <= Len(events[w])
    BY <1>3 DEF AddMetricName, TypeInv, EventsInv
  <2>2. Name(w) \in Names
    BY <2>1, PointTypes DEF TypeInv, TypeOK
  <2>3. nameCache' \in CacheItem(nameCache, Name(w), NameCacheSize) /\ UNCHANGED rowCache
    BY <1>3 DEF AddMetricName
  <2>4. /\ nameCache' \subseteq Names /\ IsFiniteSet(nameCache')
        /\ Cardinality(nameCache') <= NameCacheSize
    BY <2>2, <2>3, CacheItemBounded, SizesAssumption
    DEF TypeInv, CachesInv, CachesOK
  <2> QED
    BY <2>3, <2>4 DEF TypeInv, CachesInv, CachesOK
<1>4. ASSUME NEW w \in Workers, NEW n \in Names, ClearMetricName(w, n)
      PROVE  CachesInv'
  <2>1. nameCache' \subseteq nameCache /\ UNCHANGED rowCache
    BY <1>4 DEF ClearMetricName
  <2>2. IsFiniteSet(nameCache') /\ Cardinality(nameCache') <= Cardinality(nameCache)
    BY <2>1, FS_Subset DEF TypeInv, CachesInv
  <2>3. Cardinality(nameCache) \in Nat /\ Cardinality(nameCache') \in Nat
    BY <2>2, FS_CardinalityType DEF TypeInv, CachesInv
  <2> QED
    BY <2>1, <2>2, <2>3, SizesAssumption DEF TypeInv, CachesInv, CachesOK
<1>5. ASSUME NEW m \in Metrics, DeleteMetricName(m)
      PROVE  CachesInv'
  <2>1. nameCache' \subseteq nameCache /\ UNCHANGED rowCache
    BY <1>5 DEF DeleteMetricName
  <2>2. IsFiniteSet(nameCache') /\ Cardinality(nameCache') <= Cardinality(nameCache)
    BY <2>1, FS_Subset DEF TypeInv, CachesInv
  <2>3. Cardinality(nameCache) \in Nat /\ Cardinality(nameCache') \in Nat
    BY <2>2, FS_CardinalityType DEF TypeInv, CachesInv
  <2> QED
    BY <2>1, <2>2, <2>3, SizesAssumption DEF TypeInv, CachesInv, CachesOK
<1>6. ASSUME NEW w \in Workers, NEW r \in Rows, ClearRowKey(w, r)
      PROVE  CachesInv'
  <2>1. rowCache' \subseteq rowCache /\ UNCHANGED nameCache
    BY <1>6 DEF ClearRowKey
  <2>2. IsFiniteSet(rowCache') /\ Cardinality(rowCache') <= Cardinality(rowCache)
    BY <2>1, FS_Subset DEF TypeInv, CachesInv
  <2>3. Cardinality(rowCache) \in Nat /\ Cardinality(rowCache') \in Nat
    BY <2>2, FS_CardinalityType DEF TypeInv, CachesInv
  <2> QED
    BY <2>1, <2>2, <2>3, SizesAssumption DEF TypeInv, CachesInv, CachesOK
<1>7. ASSUME NEW r \in Rows, CleanRowKeyCache(r)
      PROVE  CachesInv'
  <2>1. rowCache' \subseteq rowCache /\ UNCHANGED nameCache
    BY <1>7 DEF CleanRowKeyCache
  <2>2. IsFiniteSet(rowCache') /\ Cardinality(rowCache') <= Cardinality(rowCache)
    BY <2>1, FS_Subset DEF TypeInv, CachesInv
  <2>3. Cardinality(rowCache) \in Nat /\ Cardinality(rowCache') \in Nat
    BY <2>2, FS_CardinalityType DEF TypeInv, CachesInv
  <2> QED
    BY <2>1, <2>2, <2>3, SizesAssumption DEF TypeInv, CachesInv, CachesOK
<1>8. CASE EndDelete
  <2>1. rowCache' \subseteq rowCache /\ UNCHANGED nameCache
    BY <1>8 DEF EndDelete
  <2>2. IsFiniteSet(rowCache') /\ Cardinality(rowCache') <= Cardinality(rowCache)
    BY <2>1, FS_Subset DEF TypeInv, CachesInv
  <2>3. Cardinality(rowCache) \in Nat /\ Cardinality(rowCache') \in Nat
    BY <2>2, FS_CardinalityType DEF TypeInv, CachesInv
  <2> QED
    BY <2>1, <2>2, <2>3, SizesAssumption DEF TypeInv, CachesInv, CachesOK
<1>9. ASSUME NEW w \in Workers, NEW evs \in Batches, Submit(w, evs)
      PROVE  CachesInv'
  BY <1>9 DEF Submit, TypeInv, CachesInv, CachesOK, caches
<1>10. ASSUME NEW w \in Workers,
            \/ SkipExpired(w)
            \/ SendIndexWrites(w)
            \/ BatchSent(w)
            \/ Retry(w)
            \/ RetrySmaller(w)
            \/ GiveUp(w)
            \/ Complete(w)
      PROVE  CachesInv'
  BY <1>10
  DEF SkipExpired, SendIndexWrites, BatchSent, Retry, StartOver, RetrySmaller, GiveUp,
      Complete, TypeInv, CachesInv, CachesOK, caches
<1>11. ASSUME NEW w \in Workers,
            \/ LoadFails(w)
            \/ Outage(w)
            \/ Rejected(w)
      PROVE  CachesInv'
  BY <1>11
  DEF LoadFails, Outage, Rejected, TypeInv, CachesInv, CachesOK, caches
<1>12. ASSUME NEW w \in Workers, NEW r \in Rows, WriteDataPoints(w, r)
      PROVE  CachesInv'
  BY <1>12 DEF WriteDataPoints, TypeInv, CachesInv, CachesOK, caches
<1>13. ASSUME NEW o \in Owners, NEW stmt \in flying[o],
            \/ Land(o, stmt)
            \/ LoseStatement(o, stmt)
      PROVE  CachesInv'
  BY <1>13 DEF Land, LoseStatement, TypeInv, CachesInv, CachesOK, caches
<1>14. ASSUME NEW kind \in DeleteKinds, NEW m \in Metrics,
     NEW rows \in Selections(kind, m), StartDelete(kind, m, rows)
      PROVE  CachesInv'
  BY <1>14 DEF StartDelete, TypeInv, CachesInv, CachesOK, caches
<1>15. ASSUME NEW r \in Rows,
            \/ DeleteRow(r)
            \/ DeleteRowKey(r)
            \/ DeleteRowTime(r)
      PROVE  CachesInv'
  BY <1>15
  DEF DeleteRow, DeleteRowKey, DeleteRowTime, TypeInv, CachesInv, CachesOK,
      caches
<1>16. CASE DeleteFails
  BY <1>16 DEF DeleteFails, TypeInv, CachesInv, CachesOK, caches
<1> QED
  BY <1>1, <1>2, <1>3, <1>4, <1>5, <1>6, <1>7, <1>8, <1>9, <1>10, <1>11,
     <1>12, <1>13, <1>14, <1>15, <1>16
  DEF Next, Work

(* The tables and the statements on their way.                             *)
LEMMA TablesStep ==
    ASSUME TypeInv, Next
    PROVE  TablesOK'
<1>1. ASSUME NEW w \in Workers, SendIndexWrites(w)
      PROVE  TablesOK'
  BY <1>1, StatementTypes
  DEF SendIndexWrites, TypeInv, TypeOK, TablesOK, Owners, tables
<1>2. ASSUME NEW w \in Workers, NEW r \in Rows, WriteDataPoints(w, r)
      PROVE  TablesOK'
  BY <1>2
  DEF WriteDataPoints, Arrives, TypeInv, TypeOK, TablesOK, WorkersOK,
      BatchRecords
<1>3. ASSUME NEW w \in Workers, BatchSent(w)
      PROVE  TablesOK'
  BY <1>3 DEF BatchSent, TypeInv, TypeOK, TablesOK, Owners, tables
<1>4. ASSUME NEW w \in Workers, Rejected(w)
      PROVE  TablesOK'
  BY <1>4 DEF Rejected, TypeInv, TypeOK, TablesOK, Owners, tables
<1>5. ASSUME NEW w \in Workers, Outage(w)
      PROVE  TablesOK'
  <2>1. rowKeys' = rowKeys /\ timeIndex' = timeIndex /\ stringIndex' = stringIndex
    BY <1>5 DEF Outage
  <2>2. batch[w].points \subseteq Points
    BY DEF TypeInv, TypeOK, WorkersOK, BatchRecords
  <2>3. stored' \subseteq Points
    BY <1>5, <2>2 DEF Outage, Arrives, TypeInv, TypeOK, TablesOK
  <2>4. PICK survivors \in SUBSET flying[w] :
          /\ flying' = [flying EXCEPT ![w] = {}, ![Detached] = @ \cup survivors]
          /\ owed' = [owed EXCEPT ![w] = @ \cup UNION (flying[w] \ survivors)]
    BY <1>5 DEF Outage
  <2>5. flying' \in [Owners -> SUBSET (SUBSET Writes)]
    BY <2>4 DEF TypeInv, TypeOK, TablesOK, Owners
  <2> QED
    BY <2>1, <2>3, <2>5 DEF TypeInv, TypeOK, TablesOK
<1>6. ASSUME NEW o \in Owners, NEW stmt \in flying[o], Land(o, stmt)
      PROVE  TablesOK'
  BY <1>6 DEF Land, TypeInv, TypeOK, TablesOK
<1>7. ASSUME NEW o \in Owners, NEW stmt \in flying[o],
     LoseStatement(o, stmt)
      PROVE  TablesOK'
  BY <1>7 DEF LoseStatement, TypeInv, TypeOK, TablesOK, tables
<1>8. ASSUME NEW r \in Rows, DeleteRow(r)
      PROVE  TablesOK'
  BY <1>8 DEF DeleteRow, TypeInv, TypeOK, TablesOK
<1>9. ASSUME NEW r \in Rows, DeleteRowKey(r)
      PROVE  TablesOK'
  BY <1>9 DEF DeleteRowKey, Hides, TypeInv, TypeOK, TablesOK
<1>10. ASSUME NEW r \in Rows, DeleteRowTime(r)
      PROVE  TablesOK'
  BY <1>10 DEF DeleteRowTime, Hides, TypeInv, TypeOK, TablesOK
<1>11. ASSUME NEW m \in Metrics, DeleteMetricName(m)
      PROVE  TablesOK'
  BY <1>11 DEF DeleteMetricName, Hides, TypeInv, TypeOK, TablesOK
<1>12. ASSUME NEW w \in Workers, NEW evs \in Batches, Submit(w, evs)
      PROVE  TablesOK'
  BY <1>12 DEF Submit, TypeInv, TypeOK, TablesOK, tables
<1>13. ASSUME NEW w \in Workers,
            \/ RowKeyCached(w)
            \/ AddRowKey(w)
            \/ AddMetricName(w)
            \/ Retry(w)
            \/ RetrySmaller(w)
            \/ GiveUp(w)
      PROVE  TablesOK'
  BY <1>13
  DEF RowKeyCached, AddDataPoint, Row, Point, HasMore, CacheItem, AddRowKey,
      AddMetricName, Name, Retry, StartOver, Cleared, EmptyBatch,
      RetrySmaller, GiveUp, TypeInv, TypeOK, TablesOK, tables
<1>14. ASSUME NEW w \in Workers,
            \/ SkipExpired(w)
            \/ Complete(w)
            \/ LoadFails(w)
      PROVE  TablesOK'
  BY <1>14 DEF SkipExpired, Complete, LoadFails, TypeInv, TypeOK, TablesOK, tables
<1>15. ASSUME NEW w \in Workers, NEW n \in Names, ClearMetricName(w, n)
      PROVE  TablesOK'
  BY <1>15 DEF ClearMetricName, TypeInv, TypeOK, TablesOK, tables
<1>16. ASSUME NEW w \in Workers, NEW r \in Rows, ClearRowKey(w, r)
      PROVE  TablesOK'
  BY <1>16 DEF ClearRowKey, TypeInv, TypeOK, TablesOK, tables
<1>17. ASSUME NEW kind \in DeleteKinds, NEW m \in Metrics,
     NEW rows \in Selections(kind, m), StartDelete(kind, m, rows)
      PROVE  TablesOK'
  BY <1>17 DEF StartDelete, TypeInv, TypeOK, TablesOK, tables
<1>18. ASSUME NEW r \in Rows, CleanRowKeyCache(r)
      PROVE  TablesOK'
  BY <1>18 DEF CleanRowKeyCache, TypeInv, TypeOK, TablesOK, tables
<1>19. CASE EndDelete \/ DeleteFails
  BY <1>19 DEF EndDelete, DeleteFails, TypeInv, TypeOK, TablesOK, tables
<1> QED
  BY <1>1, <1>2, <1>3, <1>4, <1>5, <1>6, <1>7, <1>8, <1>9, <1>10, <1>11,
     <1>12, <1>13, <1>14, <1>15, <1>16, <1>17, <1>18, <1>19
  DEF Next, Work

(* The workers and their batches.                                          *)
LEMMA WorkersStep ==
    ASSUME TypeInv, Next
    PROVE  WorkersOK'
<1>1. ASSUME NEW w \in Workers, RowKeyCached(w)
      PROVE  WorkersOK'
  <2>1. next[w] <= Len(events[w])
    BY <1>1 DEF RowKeyCached, HasMore
  <2>2. Point(w) \in Points /\ Row(w) \in Rows /\ Name(w) \in Names
    BY <2>1, PointTypes DEF TypeInv, TypeOK
  <2>3. PICK b \in BatchRecords : AddDataPoint(w, b)
    BY <1>1, <2>2 DEF RowKeyCached, TypeInv, TypeOK, WorkersOK, BatchRecords
  <2>4. PICK joined \in BatchRecords : batch' = [batch EXCEPT ![w] = joined]
    <3>1. b.count + 1 \in Nat /\ b.points \cup {Point(w)} \in SUBSET Points
      BY <2>2, <2>3 DEF BatchRecords
    <3>2. [b EXCEPT !.count = @ + 1, !.points = @ \cup {Point(w)}] \in BatchRecords
      BY <2>3, <3>1 DEF BatchRecords
    <3> QED
      BY <2>3, <3>2 DEF AddDataPoint
  <2>5. batch' \in [Workers -> BatchRecords]
    BY <2>4 DEF TypeInv, TypeOK, WorkersOK
  <2>6. /\ pc' \in [Workers -> WorkerSteps]
        /\ next' \in [Workers -> Nat \ {0}]
    BY <2>3 DEF AddDataPoint, TypeInv, TypeOK, WorkersOK, WorkerSteps
  <2> QED
    BY <1>1, <2>2, <2>5, <2>6 DEF RowKeyCached, TypeInv, TypeOK, WorkersOK
<1>2. ASSUME NEW w \in Workers, AddRowKey(w)
      PROVE  WorkersOK'
  <2>1. next[w] <= Len(events[w])
    BY <1>2 DEF AddRowKey, HasMore
  <2>2. Point(w) \in Points /\ Row(w) \in Rows /\ Name(w) \in Names
    BY <2>1, PointTypes DEF TypeInv, TypeOK
  <2> QED
    BY ZenonT(60), <1>2, <2>2
    DEF AddRowKey, TypeInv, TypeOK, WorkersOK, BatchRecords, WorkerSteps
<1>3. ASSUME NEW w \in Workers, AddMetricName(w)
      PROVE  WorkersOK'
  <2>1. next[w] <= Len(events[w])
    BY <1>3 DEF AddMetricName, TypeInv, EventsInv
  <2>2. Point(w) \in Points /\ Row(w) \in Rows /\ Name(w) \in Names
    BY <2>1, PointTypes DEF TypeInv, TypeOK
  <2>3. PICK b \in BatchRecords : AddDataPoint(w, b)
    BY <1>3, <2>2 DEF AddMetricName, TypeInv, TypeOK, WorkersOK, BatchRecords
  <2>4. PICK joined \in BatchRecords : batch' = [batch EXCEPT ![w] = joined]
    <3>1. b.count + 1 \in Nat /\ b.points \cup {Point(w)} \in SUBSET Points
      BY <2>2, <2>3 DEF BatchRecords
    <3>2. [b EXCEPT !.count = @ + 1, !.points = @ \cup {Point(w)}] \in BatchRecords
      BY <2>3, <3>1 DEF BatchRecords
    <3> QED
      BY <2>3, <3>2 DEF AddDataPoint
  <2>5. batch' \in [Workers -> BatchRecords]
    BY <2>4 DEF TypeInv, TypeOK, WorkersOK
  <2>6. /\ pc' \in [Workers -> WorkerSteps]
        /\ next' \in [Workers -> Nat \ {0}]
    BY <2>3 DEF AddDataPoint, TypeInv, TypeOK, WorkersOK, WorkerSteps
  <2> QED
    BY <1>3, <2>2, <2>5, <2>6 DEF AddMetricName, TypeInv, TypeOK, WorkersOK
<1>4. ASSUME NEW w \in Workers, NEW evs \in Batches, Submit(w, evs)
      PROVE  WorkersOK'
  BY <1>4, SetsAssumption
  DEF Submit, EmptyBatch, TypeInv, TypeOK, WorkersOK, BatchRecords,
      WorkerSteps
<1>5. ASSUME NEW w \in Workers, SendIndexWrites(w)
      PROVE  WorkersOK'
  BY <1>5 DEF SendIndexWrites, TypeInv, TypeOK, WorkersOK, WorkerSteps
<1>6. ASSUME NEW w \in Workers, NEW r \in Rows, WriteDataPoints(w, r)
      PROVE  WorkersOK'
  BY ZenonT(60), <1>6
  DEF WriteDataPoints, Arrives, TypeInv, TypeOK, WorkersOK, BatchRecords,
      WorkerSteps
<1>7. ASSUME NEW w \in Workers, BatchSent(w)
      PROVE  WorkersOK'
  BY <1>7
  DEF BatchSent, EmptyBatch, TypeInv, TypeOK, WorkersOK, BatchRecords,
      WorkerSteps
<1>8. ASSUME NEW w \in Workers, NEW n \in Names, ClearMetricName(w, n)
      PROVE  WorkersOK'
  BY ZenonT(60), <1>8
  DEF ClearMetricName, TypeInv, TypeOK, WorkersOK, BatchRecords, WorkerSteps
<1>9. ASSUME NEW w \in Workers, NEW r \in Rows, ClearRowKey(w, r)
      PROVE  WorkersOK'
  BY ZenonT(60), <1>9
  DEF ClearRowKey, TypeInv, TypeOK, WorkersOK, BatchRecords, WorkerSteps
<1>10. ASSUME NEW w \in Workers, Retry(w)
      PROVE  WorkersOK'
  BY <1>10
  DEF Retry, StartOver, EmptyBatch, TypeInv, TypeOK, WorkersOK, BatchRecords,
      WorkerSteps
<1>11. ASSUME NEW w \in Workers, RetrySmaller(w)
      PROVE  WorkersOK'
  BY <1>11
  DEF RetrySmaller, StartOver, EmptyBatch, TypeInv, TypeOK, WorkersOK,
      BatchRecords, WorkerSteps
<1>12. ASSUME NEW w \in Workers, GiveUp(w)
      PROVE  WorkersOK'
  BY <1>12 DEF GiveUp, TypeInv, TypeOK, WorkersOK, WorkerSteps
<1>13. ASSUME NEW w \in Workers, Complete(w)
      PROVE  WorkersOK'
  BY <1>13
  DEF Complete, EmptyBatch, TypeInv, TypeOK, WorkersOK, BatchRecords,
      WorkerSteps
<1>14. ASSUME NEW w \in Workers, Rejected(w)
      PROVE  WorkersOK'
  BY ZenonT(60), <1>14
  DEF Rejected, Fails, Fault, TypeInv, TypeOK, WorkersOK, BatchRecords,
      WorkerSteps
<1>15. ASSUME NEW r \in Rows, DeleteRow(r)
      PROVE  WorkersOK'
  BY ZenonT(60), <1>15
  DEF DeleteRow, TypeInv, TypeOK, WorkersOK, BatchRecords, WorkerSteps
<1>16. ASSUME NEW w \in Workers, LoadFails(w)
      PROVE  WorkersOK'
  BY ZenonT(60), <1>16, StatementTypes, WriteTypes, PointTypes
  DEF LoadFails, Fails, Fault, MetricNamesBatch, RowKeyBatch, TypeInv,
      TypeOK, WorkersOK, BatchRecords, WorkerSteps
<1>17. ASSUME NEW w \in Workers, Outage(w)
      PROVE  WorkersOK'
  <2>1. PICK survivors \in SUBSET flying[w] :
          /\ flying' = [flying EXCEPT ![w] = {}, ![Detached] = @ \cup survivors]
          /\ owed' = [owed EXCEPT ![w] = @ \cup UNION (flying[w] \ survivors)]
    BY <1>17 DEF Outage
  <2>2. flying[w] \in SUBSET (SUBSET Writes)
    BY DEF TypeInv, TypeOK, TablesOK, Owners
  <2>3. UNION (flying[w] \ survivors) \subseteq Writes
    BY <2>2
  <2>4. owed' \in [Workers -> SUBSET Writes]
    BY <2>1, <2>3 DEF TypeInv, TypeOK, WorkersOK
  <2>5. Fails(w, "outage")
    BY <1>17 DEF Outage
  <2>6. batch' \in [Workers -> BatchRecords] /\ pc' \in [Workers -> WorkerSteps]
    BY ZenonT(60), <2>5 DEF Fails, TypeInv, TypeOK, WorkersOK, BatchRecords, WorkerSteps
  <2> QED
    BY <1>17, <2>4, <2>6 DEF Outage, TypeInv, TypeOK, WorkersOK
<1>18. ASSUME NEW o \in Owners, NEW stmt \in flying[o],
            \/ Land(o, stmt)
            \/ LoseStatement(o, stmt)
      PROVE  WorkersOK'
  BY <1>18 DEF Land, LoseStatement, TypeInv, TypeOK, WorkersOK, workerVars
<1>19. ASSUME NEW kind \in DeleteKinds, NEW m \in Metrics,
     NEW rows \in Selections(kind, m), StartDelete(kind, m, rows)
      PROVE  WorkersOK'
  BY <1>19 DEF StartDelete, TypeInv, TypeOK, WorkersOK, workerVars
<1>20. ASSUME NEW r \in Rows,
            \/ CleanRowKeyCache(r)
            \/ DeleteRowKey(r)
            \/ DeleteRowTime(r)
      PROVE  WorkersOK'
  BY <1>20
  DEF CleanRowKeyCache, DeleteRowKey, DeleteRowTime, TypeInv, TypeOK,
      WorkersOK, workerVars
<1>21. ASSUME NEW m \in Metrics, DeleteMetricName(m)
      PROVE  WorkersOK'
  BY <1>21 DEF DeleteMetricName, TypeInv, TypeOK, WorkersOK, workerVars
<1>22. CASE EndDelete \/ DeleteFails
  BY <1>22 DEF EndDelete, DeleteFails, TypeInv, TypeOK, WorkersOK, workerVars
<1>23. ASSUME NEW w \in Workers, SkipExpired(w)
      PROVE  WorkersOK'
  <2>1. batch[w].count + 1 \in Nat
    BY DEF TypeInv, TypeOK, WorkersOK, BatchRecords
  <2>2. [batch[w] EXCEPT !.count = @ + 1] \in BatchRecords
    BY <2>1 DEF TypeInv, TypeOK, WorkersOK, BatchRecords
  <2>3. batch' = [batch EXCEPT ![w] = [batch[w] EXCEPT !.count = @ + 1]]
    BY <1>23 DEF SkipExpired, TypeInv, TypeOK, WorkersOK
  <2>4. batch' \in [Workers -> BatchRecords]
    BY <2>2, <2>3 DEF TypeInv, TypeOK, WorkersOK
  <2>5. next' \in [Workers -> Nat \ {0}]
    BY <1>23 DEF SkipExpired, TypeInv, TypeOK, WorkersOK
  <2> QED
    BY <1>23, <2>4, <2>5 DEF SkipExpired, TypeInv, TypeOK, WorkersOK
<1> QED
  BY <1>1, <1>2, <1>3, <1>4, <1>5, <1>6, <1>7, <1>8, <1>9, <1>10, <1>11,
     <1>12, <1>13, <1>14, <1>15, <1>16, <1>17, <1>18, <1>19, <1>20, <1>21,
     <1>22, <1>23
  DEF Next, Work

(* The thread in deleteDataPoints.                                         *)
LEMMA DeleterStep ==
    ASSUME TypeInv, Next
    PROVE  DeleterOK'
<1>1. ASSUME NEW kind \in DeleteKinds, NEW m \in Metrics,
     NEW rows \in Selections(kind, m), StartDelete(kind, m, rows)
      PROVE  DeleterOK'
  BY <1>1, BoundsAssumption
  DEF StartDelete, IdleDeleter, TypeInv, TypeOK, DeleterOK, TablesOK
<1>2. ASSUME NEW r \in Rows, DeleteRow(r)
      PROVE  DeleterOK'
  BY <1>2 DEF DeleteRow, TypeInv, TypeOK, DeleterOK
<1>3. ASSUME NEW r \in Rows, DeleteRowKey(r)
      PROVE  DeleterOK'
  BY <1>3, WriteTypes, SetsAssumption
  DEF DeleteRowKey, Hides, TypeInv, TypeOK, DeleterOK
<1>4. ASSUME NEW r \in Rows, DeleteRowTime(r)
      PROVE  DeleterOK'
  BY <1>4, WriteTypes, SetsAssumption
  DEF DeleteRowTime, Hides, TypeInv, TypeOK, DeleterOK
<1>5. ASSUME NEW m \in Metrics, DeleteMetricName(m)
      PROVE  DeleterOK'
  BY <1>5 DEF DeleteMetricName, Hides, TypeInv, TypeOK, DeleterOK
<1>6. CASE EndDelete
  BY <1>6 DEF EndDelete, IdleDeleter, TypeInv, DeleterOK
<1>7. CASE DeleteFails
  BY <1>7 DEF DeleteFails, IdleDeleter, TypeInv, DeleterOK
<1>8. ASSUME NEW w \in Workers, NEW evs \in Batches, Submit(w, evs)
      PROVE  DeleterOK'
  BY <1>8 DEF Submit, TypeInv, TypeOK, DeleterOK
<1>9. ASSUME NEW w \in Workers,
            \/ RowKeyCached(w)
            \/ AddRowKey(w)
            \/ AddMetricName(w)
            \/ SendIndexWrites(w)
            \/ BatchSent(w)
            \/ Retry(w)
      PROVE  DeleterOK'
  BY <1>9
  DEF RowKeyCached, AddDataPoint, Row, Point, HasMore, CacheItem, AddRowKey,
      AddMetricName, Name, SendIndexWrites, MetricNamesBatch, RowKeyBatch,
      BatchSent, EmptyBatch, Retry, StartOver, Cleared, TypeInv, TypeOK,
      DeleterOK
<1>10. ASSUME NEW w \in Workers,
            \/ SkipExpired(w)
            \/ RetrySmaller(w)
            \/ GiveUp(w)
            \/ Complete(w)
            \/ LoadFails(w)
            \/ Outage(w)
            \/ Rejected(w)
      PROVE  DeleterOK'
  BY <1>10
  DEF SkipExpired, RetrySmaller, StartOver, GiveUp, Complete, LoadFails, Outage, Rejected,
      TypeInv, TypeOK, DeleterOK
<1>11. ASSUME NEW w \in Workers, NEW r \in Rows,
            \/ WriteDataPoints(w, r)
            \/ ClearRowKey(w, r)
      PROVE  DeleterOK'
  BY <1>11 DEF WriteDataPoints, ClearRowKey, TypeInv, TypeOK, DeleterOK
<1>12. ASSUME NEW w \in Workers, NEW n \in Names, ClearMetricName(w, n)
      PROVE  DeleterOK'
  BY <1>12 DEF ClearMetricName, TypeInv, TypeOK, DeleterOK
<1>13. ASSUME NEW o \in Owners, NEW stmt \in flying[o],
            \/ Land(o, stmt)
            \/ LoseStatement(o, stmt)
      PROVE  DeleterOK'
  BY <1>13 DEF Land, LoseStatement, TypeInv, TypeOK, DeleterOK
<1>14. ASSUME NEW r \in Rows, CleanRowKeyCache(r)
      PROVE  DeleterOK'
  BY <1>14 DEF CleanRowKeyCache, TypeInv, TypeOK, DeleterOK
<1> QED
  BY <1>1, <1>2, <1>3, <1>4, <1>5, <1>6, <1>7, <1>8, <1>9, <1>10, <1>11,
     <1>12, <1>13, <1>14
  DEF Next, Work

(* The bound counters and the limits posted.                               *)
LEMMA CountersStep ==
    ASSUME TypeInv, Next
    PROVE  CountersOK'
<1>1. ASSUME NEW w \in Workers, LoadFails(w)
      PROVE  CountersOK'
  BY <1>1, BoundsAssumption
  DEF LoadFails, Fault, TypeInv, TypeOK, CountersOK, history
<1>2. ASSUME NEW w \in Workers, Outage(w)
      PROVE  CountersOK'
  BY <1>2, BoundsAssumption DEF Outage, TypeInv, TypeOK, CountersOK
<1>3. ASSUME NEW w \in Workers, Rejected(w)
      PROVE  CountersOK'
  BY <1>3, BoundsAssumption
  DEF Rejected, Fault, TypeInv, TypeOK, CountersOK, history
<1>4. ASSUME NEW o \in Owners, NEW stmt \in flying[o],
     LoseStatement(o, stmt)
      PROVE  CountersOK'
  BY <1>4, BoundsAssumption DEF LoseStatement, TypeInv, TypeOK, CountersOK
<1>5. ASSUME NEW kind \in DeleteKinds, NEW m \in Metrics,
     NEW rows \in Selections(kind, m), StartDelete(kind, m, rows)
      PROVE  CountersOK'
  BY <1>5, BoundsAssumption DEF StartDelete, TypeInv, TypeOK, CountersOK
<1>6. ASSUME NEW w \in Workers, Complete(w)
      PROVE  CountersOK'
  <2>1. Len(events[w]) \in Nat /\ divisor[w] \in Nat \ {0}
    BY DEF TypeInv, TypeOK, WorkersOK
  <2>2. Limit(w) \in Nat
    BY <2>1 DEF Limit
  <2> QED
    BY <1>6, <2>2 DEF Complete, TypeInv, TypeOK, CountersOK, bounds, history
<1>7. ASSUME NEW w \in Workers, NEW evs \in Batches, Submit(w, evs)
      PROVE  CountersOK'
  BY <1>7 DEF Submit, TypeInv, TypeOK, CountersOK, bounds
<1>8. ASSUME NEW w \in Workers,
            \/ RowKeyCached(w)
            \/ AddRowKey(w)
            \/ AddMetricName(w)
            \/ SendIndexWrites(w)
            \/ BatchSent(w)
            \/ Retry(w)
      PROVE  CountersOK'
  BY <1>8
  DEF RowKeyCached, AddDataPoint, Row, Point, HasMore, CacheItem, AddRowKey,
      AddMetricName, Name, SendIndexWrites, MetricNamesBatch, RowKeyBatch,
      BatchSent, EmptyBatch, Retry, StartOver, Cleared, TypeInv, TypeOK,
      CountersOK, bounds, history
<1>9. ASSUME NEW w \in Workers,
            \/ SkipExpired(w)
            \/ RetrySmaller(w)
            \/ GiveUp(w)
      PROVE  CountersOK'
  BY <1>9
  DEF SkipExpired, RetrySmaller, StartOver, Cleared, EmptyBatch, GiveUp, TypeInv, TypeOK,
      CountersOK, bounds, history
<1>10. ASSUME NEW w \in Workers, NEW r \in Rows,
            \/ WriteDataPoints(w, r)
            \/ ClearRowKey(w, r)
      PROVE  CountersOK'
  BY <1>10
  DEF WriteDataPoints, ClearRowKey, TypeInv, TypeOK, CountersOK, bounds,
      history
<1>11. ASSUME NEW w \in Workers, NEW n \in Names, ClearMetricName(w, n)
      PROVE  CountersOK'
  BY <1>11 DEF ClearMetricName, TypeInv, TypeOK, CountersOK, bounds, history
<1>12. ASSUME NEW o \in Owners, NEW stmt \in flying[o], Land(o, stmt)
      PROVE  CountersOK'
  BY <1>12 DEF Land, TypeInv, TypeOK, CountersOK, bounds
<1>13. ASSUME NEW r \in Rows,
            \/ CleanRowKeyCache(r)
            \/ DeleteRow(r)
            \/ DeleteRowKey(r)
            \/ DeleteRowTime(r)
      PROVE  CountersOK'
  BY <1>13
  DEF CleanRowKeyCache, DeleteRow, DeleteRowKey, DeleteRowTime, TypeInv,
      TypeOK, CountersOK, bounds, history
<1>14. ASSUME NEW m \in Metrics, DeleteMetricName(m)
      PROVE  CountersOK'
  BY <1>14 DEF DeleteMetricName, TypeInv, TypeOK, CountersOK, bounds, history
<1>15. CASE EndDelete \/ DeleteFails
  BY <1>15
  DEF EndDelete, IdleDeleter, DeleteFails, TypeInv, TypeOK, CountersOK,
      bounds, history
<1> QED
  BY <1>1, <1>2, <1>3, <1>4, <1>5, <1>6, <1>7, <1>8, <1>9, <1>10, <1>11,
     <1>12, <1>13, <1>14, <1>15
  DEF Next, Work

(* The points submitted and what became of them.                           *)
LEMMA HistoryStep ==
    ASSUME TypeInv, Next
    PROVE  HistoryOK'
<1>1. ASSUME NEW w \in Workers, NEW evs \in Batches, Submit(w, evs)
      PROVE  HistoryOK'
  BY <1>1, SetsAssumption DEF Submit, TypeInv, TypeOK, HistoryOK, Elements
<1>2. ASSUME NEW w \in Workers, NEW r \in Rows, WriteDataPoints(w, r)
      PROVE  HistoryOK'
  BY <1>2 DEF WriteDataPoints, Arrives, TypeInv, TypeOK, HistoryOK, EventsInv
<1>3. ASSUME NEW w \in Workers, Outage(w)
      PROVE  HistoryOK'
  <2>1. erased' \subseteq erased \cup batch[w].points
        /\ UNCHANGED <<submitted, raced, dropped, expired>>
    BY <1>3 DEF Outage, Arrives
  <2>2. lost' \subseteq lost \cup UNION flying[w]
    BY <1>3 DEF Outage
  <2>3. UNION flying[w] \subseteq Writes
    BY DEF TypeInv, TypeOK, TablesOK, Owners
  <2> QED
    BY <2>1, <2>2, <2>3 DEF TypeInv, TypeOK, HistoryOK, EventsInv
<1>4. ASSUME NEW w \in Workers, GiveUp(w)
      PROVE  HistoryOK'
  BY <1>4 DEF GiveUp, TypeInv, TypeOK, HistoryOK, EventsInv, WorkersOK
<1>5. ASSUME NEW o \in Owners, NEW stmt \in flying[o],
     LoseStatement(o, stmt)
      PROVE  HistoryOK'
  BY <1>5 DEF LoseStatement, TypeInv, TypeOK, HistoryOK, TablesOK
<1>6. ASSUME NEW o \in Owners, NEW stmt \in flying[o], Land(o, stmt)
      PROVE  HistoryOK'
  BY <1>6 DEF Land, TypeInv, TypeOK, HistoryOK
<1>7. ASSUME NEW kind \in DeleteKinds, NEW m \in Metrics,
     NEW rows \in Selections(kind, m), StartDelete(kind, m, rows)
      PROVE  HistoryOK'
  <2> DEFINE Written == UNION {Elements(events[w]) : w \in Working}
             Hidden == {p \in stored : \/ RowOf[p] \notin rowKeys
                                      \/ NameOf[RowOf[p]] \notin timeIndex}
  <2>1. Written \subseteq Points
    BY DEF Working, TypeInv, TypeOK, HistoryOK, EventsInv
  <2>2. raced' = raced \cup Written \cup Hidden
    BY <1>7 DEF StartDelete
  <2>3. raced' \subseteq Points
    BY <2>1, <2>2 DEF TypeInv, TypeOK, HistoryOK, TablesOK
  <2> QED
    BY <1>7, <2>3 DEF StartDelete, TypeInv, TypeOK, HistoryOK
<1>8. ASSUME NEW r \in Rows, DeleteRow(r)
      PROVE  HistoryOK'
  BY <1>8 DEF DeleteRow, TypeInv, TypeOK, HistoryOK, EventsInv
<1>9. CASE DeleteFails
  BY <1>9 DEF DeleteFails, TypeInv, TypeOK, HistoryOK, DeleterOK
<1>10. ASSUME NEW w \in Workers,
            \/ RowKeyCached(w)
            \/ AddRowKey(w)
            \/ AddMetricName(w)
            \/ SendIndexWrites(w)
            \/ BatchSent(w)
            \/ Retry(w)
      PROVE  HistoryOK'
  BY <1>10
  DEF RowKeyCached, AddDataPoint, Row, Point, HasMore, CacheItem, AddRowKey,
      AddMetricName, Name, SendIndexWrites, MetricNamesBatch, RowKeyBatch,
      BatchSent, EmptyBatch, Retry, StartOver, Cleared, TypeInv, TypeOK,
      HistoryOK, history
<1>11. ASSUME NEW w \in Workers,
            \/ RetrySmaller(w)
            \/ Complete(w)
            \/ Rejected(w)
      PROVE  HistoryOK'
  BY <1>11
  DEF RetrySmaller, StartOver, Complete, Rejected, TypeInv,
      TypeOK, HistoryOK, history
<1>12. ASSUME NEW w \in Workers, NEW n \in Names, ClearMetricName(w, n)
      PROVE  HistoryOK'
  BY <1>12 DEF ClearMetricName, TypeInv, TypeOK, HistoryOK, history
<1>13. ASSUME NEW w \in Workers, NEW r \in Rows, ClearRowKey(w, r)
      PROVE  HistoryOK'
  BY <1>13 DEF ClearRowKey, TypeInv, TypeOK, HistoryOK, history
<1>14. ASSUME NEW r \in Rows,
            \/ CleanRowKeyCache(r)
            \/ DeleteRowKey(r)
            \/ DeleteRowTime(r)
      PROVE  HistoryOK'
  BY <1>14
  DEF CleanRowKeyCache, DeleteRowKey, DeleteRowTime, TypeInv, TypeOK,
      HistoryOK, history
<1>15. ASSUME NEW m \in Metrics, DeleteMetricName(m)
      PROVE  HistoryOK'
  BY <1>15 DEF DeleteMetricName, TypeInv, TypeOK, HistoryOK, history
<1>16. CASE EndDelete
  BY <1>16 DEF EndDelete, TypeInv, TypeOK, HistoryOK, history
<1>17. ASSUME NEW w \in Workers, LoadFails(w)
      PROVE  HistoryOK'
  <2>1. lost' \subseteq lost \cup RowKeyBatch(w)
        /\ UNCHANGED <<submitted, raced, dropped, erased, expired>>
    BY <1>17 DEF LoadFails
  <2>2. RowKeyBatch(w) \subseteq Writes
    BY StatementTypes DEF TypeInv, TypeOK
  <2> QED
    BY <2>1, <2>2 DEF TypeInv, TypeOK, HistoryOK
<1>18. ASSUME NEW w \in Workers, SkipExpired(w)
      PROVE  HistoryOK'
  <2>1. Point(w) \in submitted
    BY <1>18, PointTypes DEF SkipExpired, HasMore, TypeInv, TypeOK, EventsInv
  <2>2. lost' \subseteq lost \cup owed[w] /\ expired' = expired \cup {Point(w)}
        /\ UNCHANGED <<submitted, raced, dropped, erased>>
    BY <1>18 DEF SkipExpired
  <2> QED
    BY <2>1, <2>2 DEF TypeInv, TypeOK, HistoryOK, WorkersOK
<1> QED
  BY <1>1, <1>2, <1>3, <1>4, <1>5, <1>6, <1>7, <1>8, <1>9, <1>10, <1>11,
     <1>12, <1>13, <1>14, <1>15, <1>16, <1>17, <1>18
  DEF Next, Work

(* The points of the batches.                                              *)
LEMMA EventsStep ==
    ASSUME TypeInv, Next
    PROVE  EventsInv'
<1>1. ASSUME NEW w \in Workers, RowKeyCached(w)
      PROVE  EventsInv'
  <2>1. next[w] <= Len(events[w])
    BY <1>1 DEF RowKeyCached, HasMore
  <2>2. Point(w) \in Elements(events[w])
    BY <2>1, PointTypes DEF TypeInv, TypeOK
  <2> QED
    BY <1>1, <2>1, <2>2
    DEF RowKeyCached, AddDataPoint, TypeInv, EventsInv, tables
<1>2. ASSUME NEW w \in Workers, AddRowKey(w)
      PROVE  EventsInv'
  <2>1. next[w] <= Len(events[w])
    BY <1>2 DEF AddRowKey, HasMore
  <2>2. Point(w) \in Elements(events[w])
    BY <2>1, PointTypes DEF TypeInv, TypeOK
  <2> QED
    BY <1>2, <2>1, <2>2 DEF AddRowKey, TypeInv, EventsInv, tables
<1>3. ASSUME NEW w \in Workers, AddMetricName(w)
      PROVE  EventsInv'
  <2>1. next[w] <= Len(events[w])
    BY <1>3 DEF AddMetricName, TypeInv, EventsInv
  <2>2. Point(w) \in Elements(events[w])
    BY <2>1, PointTypes DEF TypeInv, TypeOK
  <2> QED
    BY <1>3, <2>1, <2>2
    DEF AddMetricName, AddDataPoint, TypeInv, EventsInv, tables, TypeOK,
        WorkersOK
<1>4. ASSUME NEW w \in Workers, NEW evs \in Batches, Submit(w, evs)
      PROVE  EventsInv'
  BY <1>4
  DEF Submit, EmptyBatch, TypeInv, EventsInv, tables, TypeOK, WorkersOK
<1>5. ASSUME NEW w \in Workers, SendIndexWrites(w)
      PROVE  EventsInv'
  BY <1>5 DEF SendIndexWrites, TypeInv, EventsInv, tables
<1>6. ASSUME NEW w \in Workers, NEW r \in Rows, WriteDataPoints(w, r)
      PROVE  EventsInv'
  BY <1>6 DEF WriteDataPoints, Arrives, TypeInv, EventsInv
<1>7. ASSUME NEW w \in Workers, BatchSent(w)
      PROVE  EventsInv'
  BY <1>7 DEF BatchSent, EmptyBatch, TypeInv, EventsInv, tables
<1>8. ASSUME NEW w \in Workers, NEW n \in Names, ClearMetricName(w, n)
      PROVE  EventsInv'
  BY <1>8 DEF ClearMetricName, TypeInv, EventsInv, tables
<1>9. ASSUME NEW w \in Workers, NEW r \in Rows, ClearRowKey(w, r)
      PROVE  EventsInv'
  BY <1>9 DEF ClearRowKey, TypeInv, EventsInv, tables
<1>10. ASSUME NEW w \in Workers, Retry(w)
      PROVE  EventsInv'
  BY <1>10
  DEF Retry, StartOver, Cleared, EmptyBatch, TypeInv, EventsInv, tables
<1>11. ASSUME NEW w \in Workers, RetrySmaller(w)
      PROVE  EventsInv'
  BY <1>11
  DEF RetrySmaller, StartOver, Cleared, EmptyBatch, TypeInv, EventsInv,
      tables
<1>12. ASSUME NEW w \in Workers, GiveUp(w)
      PROVE  EventsInv'
  BY <1>12 DEF GiveUp, TypeInv, EventsInv, tables
<1>13. ASSUME NEW w \in Workers, LoadFails(w)
      PROVE  EventsInv'
  BY <1>13 DEF LoadFails, Fails, TypeInv, EventsInv, tables
<1>14. ASSUME NEW w \in Workers, Outage(w)
      PROVE  EventsInv'
  BY <1>14 DEF Outage, Fails, Arrives, TypeInv, EventsInv
<1>15. ASSUME NEW w \in Workers, Rejected(w)
      PROVE  EventsInv'
  BY <1>15 DEF Rejected, Fails, TypeInv, EventsInv, tables
<1>16. ASSUME NEW r \in Rows, DeleteRow(r)
      PROVE  EventsInv'
  BY <1>16 DEF DeleteRow, TypeInv, EventsInv
<1>17. ASSUME NEW w \in Workers, Complete(w)
      PROVE  EventsInv'
  BY <1>17
  DEF Complete, EmptyBatch, TypeInv, EventsInv, tables, TypeOK, WorkersOK,
      Elements
<1>18. ASSUME NEW o \in Owners, NEW stmt \in flying[o],
            \/ Land(o, stmt)
            \/ LoseStatement(o, stmt)
      PROVE  EventsInv'
  BY <1>18 DEF Land, LoseStatement, TypeInv, EventsInv, tables, workerVars
<1>19. ASSUME NEW kind \in DeleteKinds, NEW m \in Metrics,
     NEW rows \in Selections(kind, m), StartDelete(kind, m, rows)
      PROVE  EventsInv'
  BY <1>19 DEF StartDelete, TypeInv, EventsInv, tables, workerVars
<1>20. ASSUME NEW r \in Rows,
            \/ CleanRowKeyCache(r)
            \/ DeleteRowKey(r)
            \/ DeleteRowTime(r)
      PROVE  EventsInv'
  BY <1>20
  DEF CleanRowKeyCache, DeleteRowKey, DeleteRowTime, TypeInv, EventsInv,
      tables, workerVars
<1>21. ASSUME NEW m \in Metrics, DeleteMetricName(m)
      PROVE  EventsInv'
  BY <1>21 DEF DeleteMetricName, TypeInv, EventsInv, workerVars
<1>22. CASE EndDelete \/ DeleteFails
  BY <1>22 DEF EndDelete, DeleteFails, TypeInv, EventsInv, tables, workerVars
<1>23. ASSUME NEW w \in Workers, SkipExpired(w)
      PROVE  EventsInv'
  <2>1. \A v \in Workers : batch'[v].points = batch[v].points
    BY <1>23 DEF SkipExpired, TypeInv, TypeOK, WorkersOK, BatchRecords
  <2>2. stored' \subseteq stored /\ pc[w] = "load" /\ UNCHANGED <<pc, events, submitted>>
        /\ \A v \in Workers \ {w} : next'[v] = next[v]
    BY <1>23 DEF SkipExpired
  <2> QED
    BY <2>1, <2>2 DEF TypeInv, EventsInv
<1> QED
  BY <1>1, <1>2, <1>3, <1>4, <1>5, <1>6, <1>7, <1>8, <1>9, <1>10, <1>11,
     <1>12, <1>13, <1>14, <1>15, <1>16, <1>17, <1>18, <1>19, <1>20, <1>21,
     <1>22, <1>23
  DEF Next, Work

LEMMA TypeInvInit == Init => TypeInv
<1> SUFFICES ASSUME Init
             PROVE  TypeInv
  OBVIOUS
<1>1. CachesInv
  BY FS_EmptySet, SizesAssumption DEF Init, CachesInv, CachesOK
<1>2. TablesOK /\ DeleterOK /\ HistoryOK
  BY DEF Init, TablesOK, DeleterOK, HistoryOK, IdleDeleter
<1>3. WorkersOK
  BY DEF Init, WorkersOK, BatchRecords, EmptyBatch, WorkerSteps
<1>4. CountersOK
  BY BoundsAssumption DEF Init, CountersOK
<1>5. EventsInv
  BY DEF Init, EventsInv, EmptyBatch, Elements
<1> QED
  BY <1>1, <1>2, <1>3, <1>4, <1>5 DEF TypeInv, TypeOK, CachesInv

LEMMA TypeInvStep == TypeInv /\ [Next]_vars => TypeInv'
<1>1. CASE TypeInv /\ Next
  BY <1>1, CachesStep, TablesStep, WorkersStep, DeleterStep, CountersStep,
     HistoryStep, EventsStep
  DEF TypeInv, TypeOK, CachesInv
<1>2. CASE TypeInv /\ UNCHANGED vars
  BY <1>2
  DEF vars, TypeInv, TypeOK, CachesInv, CachesOK, TablesOK, WorkersOK,
      DeleterOK, CountersOK, HistoryOK, EventsInv
<1> QED
  BY <1>1, <1>2

LEMMA TypeInvAlways == Spec => []TypeInv
BY TypeInvInit, TypeInvStep, PTL DEF Spec

(* The variables keep their types, whatever the workers, the failures and  *)
(* the deletes do; in particular neither DataCache exceeds its size.       *)
THEOREM TypeCorrect == Spec => []TypeOK
BY TypeInvAlways, PTL DEF TypeInv

-----------------------------------------------------------------------------
(* What became of the events before a worker's position, and of all of     *)
(* them when it is done with its batch.                                    *)
Accounted(w) ==
    /\ pc[w] \in {"load", "name", "points"} =>
           \A i \in 1 .. Len(events[w]) : i < next[w] =>
               events[w][i] \in stored \cup erased \cup expired \cup batch[w].points
    /\ pc[w] = "end" => Elements(events[w]) \subseteq stored \cup erased \cup expired \cup dropped

PointsInv == PointsAccounted /\ \A w \in Workers : Accounted(w)

(* The statements of a worker, while they are its own.                     *)
StatementsInv ==
    \A w \in Workers :
        /\ pc[w] # "points" => flying[w] = {}
        /\ \A r \in Rows : RowWrite(r) \in UNION flying[w] => r \in batch[w].rows
        /\ \A n \in Names : TimeWrite(n) \in UNION flying[w] => n \in batch[w].times

(* What a delete has taken out of the indexes and not yet out of the       *)
(* caches.                                                                 *)
GoneInv ==
    /\ deleter.pc = "idle" => deleter.gone = {}
    /\ deleter.pc \in {"key", "time"} => deleter.clear
    /\ ~deleter.clear => deleter.gone = {}

(* A step of one worker that stays at work on the same events.             *)
LEMMA PointsByWorker ==
    ASSUME TypeInv, PointsInv, NEW w \in Workers,
           pc[w] # "idle", pc'[w] # "idle", UNCHANGED <<events, submitted>>,
           \A v \in Workers \ {w} : /\ pc'[v] = pc[v] /\ next'[v] = next[v]
                                    /\ batch'[v].points = batch[v].points,
           stored \cup erased \cup expired \subseteq stored' \cup erased' \cup expired',
           dropped \subseteq dropped',
           Accounted(w)'
    PROVE  PointsInv'
<1>1. ASSUME NEW v \in Workers \ {w}
      PROVE  Accounted(v)'
  <2>1. Accounted(v)
    BY DEF PointsInv
  <2> QED
    BY <2>1 DEF Accounted
<1>2. PointsAccounted'
  BY DEF PointsInv, PointsAccounted, Working
<1> QED
  BY <1>1, <1>2 DEF PointsInv

(* No step loses sight of a point.                                         *)
LEMMA PointsStep ==
    ASSUME TypeInv, PointsInv, Next
    PROVE  PointsInv'
<1>1. ASSUME NEW w \in Workers, RowKeyCached(w)
      PROVE  PointsInv'
  <2>1. Accounted(w)
    BY DEF PointsInv
  <2>2. /\ pc[w] # "idle" /\ pc'[w] # "idle"
        /\ UNCHANGED <<events, submitted>>
        /\ \A v \in Workers \ {w} : /\ pc'[v] = pc[v] /\ next'[v] = next[v]
                                    /\ batch'[v].points = batch[v].points
        /\ stored \cup erased \cup expired \subseteq stored' \cup erased' \cup expired'
        /\ dropped \subseteq dropped'
    BY <1>1 DEF RowKeyCached, AddDataPoint, TypeInv, tables, history
  <2>3. Accounted(w)'
    BY <1>1, <2>1
    DEF RowKeyCached, AddDataPoint, Point, TypeInv, TypeOK, WorkersOK,
        tables, history, Accounted
  <2> QED
    BY <2>2, <2>3, PointsByWorker
<1>2. ASSUME NEW w \in Workers, AddRowKey(w)
      PROVE  PointsInv'
  <2>1. Accounted(w)
    BY DEF PointsInv
  <2>2. /\ pc[w] # "idle" /\ pc'[w] # "idle"
        /\ UNCHANGED <<events, submitted>>
        /\ \A v \in Workers \ {w} : /\ pc'[v] = pc[v] /\ next'[v] = next[v]
                                    /\ batch'[v].points = batch[v].points
        /\ stored \cup erased \cup expired \subseteq stored' \cup erased' \cup expired'
        /\ dropped \subseteq dropped'
    BY <1>2 DEF AddRowKey, TypeInv, tables, history
  <2>3. Accounted(w)'
    BY <1>2, <2>1 DEF AddRowKey, TypeInv, tables, history, Accounted
  <2> QED
    BY <2>2, <2>3, PointsByWorker
<1>3. ASSUME NEW w \in Workers, AddMetricName(w)
      PROVE  PointsInv'
  <2>1. Accounted(w)
    BY DEF PointsInv
  <2>2. /\ pc[w] # "idle" /\ pc'[w] # "idle"
        /\ UNCHANGED <<events, submitted>>
        /\ \A v \in Workers \ {w} : /\ pc'[v] = pc[v] /\ next'[v] = next[v]
                                    /\ batch'[v].points = batch[v].points
        /\ stored \cup erased \cup expired \subseteq stored' \cup erased' \cup expired'
        /\ dropped \subseteq dropped'
    BY <1>3 DEF AddMetricName, AddDataPoint, TypeInv, tables, history
  <2>3. Accounted(w)'
    BY <1>3, <2>1
    DEF AddMetricName, AddDataPoint, Point, TypeInv, TypeOK, WorkersOK,
        tables, history, Accounted
  <2> QED
    BY <2>2, <2>3, PointsByWorker
<1>4. ASSUME NEW w \in Workers, SendIndexWrites(w)
      PROVE  PointsInv'
  <2>1. Accounted(w)
    BY DEF PointsInv
  <2>2. /\ pc[w] # "idle" /\ pc'[w] # "idle"
        /\ UNCHANGED <<events, submitted>>
        /\ \A v \in Workers \ {w} : /\ pc'[v] = pc[v] /\ next'[v] = next[v]
                                    /\ batch'[v].points = batch[v].points
        /\ stored \cup erased \cup expired \subseteq stored' \cup erased' \cup expired'
        /\ dropped \subseteq dropped'
    BY <1>4 DEF SendIndexWrites, TypeInv, tables, history
  <2>3. Accounted(w)'
    BY <1>4, <2>1 DEF SendIndexWrites, TypeInv, tables, history, Accounted
  <2> QED
    BY <2>2, <2>3, PointsByWorker
<1>5. ASSUME NEW w \in Workers, NEW r \in Rows, WriteDataPoints(w, r)
      PROVE  PointsInv'
  <2>1. Accounted(w)
    BY DEF PointsInv
  <2>2. /\ pc[w] # "idle" /\ pc'[w] # "idle"
        /\ UNCHANGED <<events, submitted>>
        /\ \A v \in Workers \ {w} : /\ pc'[v] = pc[v] /\ next'[v] = next[v]
                                    /\ batch'[v].points = batch[v].points
        /\ stored \cup erased \cup expired \subseteq stored' \cup erased' \cup expired'
        /\ dropped \subseteq dropped'
    BY <1>5 DEF WriteDataPoints, Arrives, TypeInv
  <2>3. Accounted(w)'
    BY <1>5, <2>1 DEF WriteDataPoints, Arrives, TypeInv, Accounted
  <2> QED
    BY <2>2, <2>3, PointsByWorker
<1>6. ASSUME NEW w \in Workers, BatchSent(w)
      PROVE  PointsInv'
  <2>1. Accounted(w)
    BY DEF PointsInv
  <2>2. /\ pc[w] # "idle" /\ pc'[w] # "idle"
        /\ UNCHANGED <<events, submitted>>
        /\ \A v \in Workers \ {w} : /\ pc'[v] = pc[v] /\ next'[v] = next[v]
                                    /\ batch'[v].points = batch[v].points
        /\ stored \cup erased \cup expired \subseteq stored' \cup erased' \cup expired'
        /\ dropped \subseteq dropped'
    BY <1>6 DEF BatchSent, TypeInv, tables, history
  <2>3. Accounted(w)'
    <3>1. batch[w].points = {} /\ UNCHANGED <<events, next, stored, erased, expired>>
      BY <1>6 DEF BatchSent, tables, history
    <3>2. /\ pc[w] = "points" /\ batch'[w].points = {}
          /\ pc'[w] = IF next[w] <= Len(events[w]) THEN "load" ELSE "end"
      BY <1>6 DEF BatchSent, EmptyBatch, TypeInv, TypeOK, WorkersOK
    <3>3. next[w] \in Nat /\ Len(events[w]) \in Nat
      BY DEF TypeInv, TypeOK, WorkersOK
    <3>4. \A i \in 1 .. Len(events[w]) : i < next[w] =>
              events[w][i] \in stored \cup erased \cup expired
      BY <2>1, <3>1, <3>2 DEF Accounted
    <3>5. CASE next[w] <= Len(events[w])
      BY <3>1, <3>2, <3>4, <3>5 DEF Accounted
    <3>6. CASE ~(next[w] <= Len(events[w]))
      <4>1. Elements(events[w]) \subseteq stored \cup erased \cup expired
        BY <3>3, <3>4, <3>6 DEF Elements
      <4> QED
        BY <3>1, <3>2, <3>6, <4>1 DEF Accounted
    <3> QED
      BY <3>5, <3>6
  <2> QED
    BY <2>2, <2>3, PointsByWorker
<1>7. ASSUME NEW w \in Workers, NEW n \in Names, ClearMetricName(w, n)
      PROVE  PointsInv'
  <2>1. Accounted(w)
    BY DEF PointsInv
  <2>2. /\ pc[w] # "idle" /\ pc'[w] # "idle"
        /\ UNCHANGED <<events, submitted>>
        /\ \A v \in Workers \ {w} : /\ pc'[v] = pc[v] /\ next'[v] = next[v]
                                    /\ batch'[v].points = batch[v].points
        /\ stored \cup erased \cup expired \subseteq stored' \cup erased' \cup expired'
        /\ dropped \subseteq dropped'
    BY <1>7 DEF ClearMetricName, TypeInv, tables, history
  <2>3. Accounted(w)'
    BY <1>7, <2>1 DEF ClearMetricName, TypeInv, Accounted
  <2> QED
    BY <2>2, <2>3, PointsByWorker
<1>8. ASSUME NEW w \in Workers, NEW r \in Rows, ClearRowKey(w, r)
      PROVE  PointsInv'
  <2>1. Accounted(w)
    BY DEF PointsInv
  <2>2. /\ pc[w] # "idle" /\ pc'[w] # "idle"
        /\ UNCHANGED <<events, submitted>>
        /\ \A v \in Workers \ {w} : /\ pc'[v] = pc[v] /\ next'[v] = next[v]
                                    /\ batch'[v].points = batch[v].points
        /\ stored \cup erased \cup expired \subseteq stored' \cup erased' \cup expired'
        /\ dropped \subseteq dropped'
    BY <1>8 DEF ClearRowKey, TypeInv, tables, history
  <2>3. Accounted(w)'
    BY <1>8, <2>1 DEF ClearRowKey, TypeInv, Accounted
  <2> QED
    BY <2>2, <2>3, PointsByWorker
<1>9. ASSUME NEW w \in Workers, Retry(w)
      PROVE  PointsInv'
  <2>1. Accounted(w)
    BY DEF PointsInv
  <2>2. /\ pc[w] # "idle" /\ pc'[w] # "idle"
        /\ UNCHANGED <<events, submitted>>
        /\ \A v \in Workers \ {w} : /\ pc'[v] = pc[v] /\ next'[v] = next[v]
                                    /\ batch'[v].points = batch[v].points
        /\ stored \cup erased \cup expired \subseteq stored' \cup erased' \cup expired'
        /\ dropped \subseteq dropped'
    BY <1>9 DEF Retry, StartOver, Cleared, TypeInv, tables, history
  <2>3. Accounted(w)'
    BY <1>9, <2>1 DEF Retry, StartOver, TypeInv, TypeOK, WorkersOK, Accounted
  <2> QED
    BY <2>2, <2>3, PointsByWorker
<1>10. ASSUME NEW w \in Workers, RetrySmaller(w)
      PROVE  PointsInv'
  <2>1. Accounted(w)
    BY DEF PointsInv
  <2>2. /\ pc[w] # "idle" /\ pc'[w] # "idle"
        /\ UNCHANGED <<events, submitted>>
        /\ \A v \in Workers \ {w} : /\ pc'[v] = pc[v] /\ next'[v] = next[v]
                                    /\ batch'[v].points = batch[v].points
        /\ stored \cup erased \cup expired \subseteq stored' \cup erased' \cup expired'
        /\ dropped \subseteq dropped'
    BY <1>10 DEF RetrySmaller, StartOver, Cleared, TypeInv, tables, history
  <2>3. Accounted(w)'
    BY <1>10, <2>1
    DEF RetrySmaller, StartOver, TypeInv, TypeOK, WorkersOK, Accounted
  <2> QED
    BY <2>2, <2>3, PointsByWorker
<1>11. ASSUME NEW w \in Workers, GiveUp(w)
      PROVE  PointsInv'
  <2>1. Accounted(w)
    BY DEF PointsInv
  <2>2. /\ pc[w] # "idle" /\ pc'[w] # "idle"
        /\ UNCHANGED <<events, submitted>>
        /\ \A v \in Workers \ {w} : /\ pc'[v] = pc[v] /\ next'[v] = next[v]
                                    /\ batch'[v].points = batch[v].points
        /\ stored \cup erased \cup expired \subseteq stored' \cup erased' \cup expired'
        /\ dropped \subseteq dropped'
    BY <1>11 DEF GiveUp, Cleared, TypeInv, tables
  <2>3. Accounted(w)'
    BY <1>11, <2>1 DEF GiveUp, TypeInv, tables, Accounted
  <2> QED
    BY <2>2, <2>3, PointsByWorker
<1>12. ASSUME NEW w \in Workers, LoadFails(w)
      PROVE  PointsInv'
  <2>1. Accounted(w)
    BY DEF PointsInv
  <2>2. /\ pc[w] # "idle" /\ pc'[w] # "idle"
        /\ UNCHANGED <<events, submitted>>
        /\ \A v \in Workers \ {w} : /\ pc'[v] = pc[v] /\ next'[v] = next[v]
                                    /\ batch'[v].points = batch[v].points
        /\ stored \cup erased \cup expired \subseteq stored' \cup erased' \cup expired'
        /\ dropped \subseteq dropped'
    BY <1>12 DEF LoadFails, Fails, TypeInv, tables, history
  <2>3. Accounted(w)'
    BY <1>12, <2>1
    DEF LoadFails, Fails, TypeInv, TypeOK, WorkersOK, Accounted
  <2> QED
    BY <2>2, <2>3, PointsByWorker
<1>13. ASSUME NEW w \in Workers, Outage(w)
      PROVE  PointsInv'
  <2>1. Accounted(w)
    BY DEF PointsInv
  <2>2. /\ pc[w] # "idle" /\ pc'[w] # "idle"
        /\ UNCHANGED <<events, submitted>>
        /\ \A v \in Workers \ {w} : /\ pc'[v] = pc[v] /\ next'[v] = next[v]
                                    /\ batch'[v].points = batch[v].points
        /\ stored \cup erased \cup expired \subseteq stored' \cup erased' \cup expired'
        /\ dropped \subseteq dropped'
    BY <1>13 DEF Outage, Fails, Arrives, TypeInv
  <2>3. Accounted(w)'
    BY <1>13, <2>1 DEF Outage, Fails, Arrives, TypeInv, Accounted
  <2> QED
    BY <2>2, <2>3, PointsByWorker
<1>14. ASSUME NEW w \in Workers, Rejected(w)
      PROVE  PointsInv'
  <2>1. Accounted(w)
    BY DEF PointsInv
  <2>2. /\ pc[w] # "idle" /\ pc'[w] # "idle"
        /\ UNCHANGED <<events, submitted>>
        /\ \A v \in Workers \ {w} : /\ pc'[v] = pc[v] /\ next'[v] = next[v]
                                    /\ batch'[v].points = batch[v].points
        /\ stored \cup erased \cup expired \subseteq stored' \cup erased' \cup expired'
        /\ dropped \subseteq dropped'
    BY <1>14 DEF Rejected, Fails, TypeInv, tables, history
  <2>3. Accounted(w)'
    BY <1>14, <2>1 DEF Rejected, Fails, TypeInv, TypeOK, WorkersOK, Accounted
  <2> QED
    BY <2>2, <2>3, PointsByWorker
<1>15. ASSUME NEW w \in Workers, NEW evs \in Batches, Submit(w, evs)
      PROVE  PointsInv'
  BY <1>15
  DEF Submit, TypeInv, PointsInv, PointsAccounted, Accounted, Working,
      tables, TypeOK, WorkersOK, BatchRecords, Elements
<1>16. ASSUME NEW w \in Workers, Complete(w)
      PROVE  PointsInv'
  <2>1. \A v \in Workers \ {w} : pc'[v] = pc[v] /\ next'[v] = next[v]
                                 /\ batch'[v] = batch[v] /\ events'[v] = events[v]
    BY <1>16 DEF Complete, TypeInv
  <2>2. /\ pc[w] = "end" /\ pc'[w] = "idle"
        /\ UNCHANGED <<stored, erased, expired, dropped, submitted>>
    BY <1>16 DEF Complete, tables, TypeInv, TypeOK, WorkersOK
  <2>3. Elements(events[w]) \subseteq stored \cup erased \cup expired \cup dropped
    BY <2>2 DEF PointsInv, Accounted
  <2>4. PointsAccounted'
    BY <2>1, <2>2, <2>3 DEF PointsInv, PointsAccounted, Working
  <2>5. ASSUME NEW v \in Workers
        PROVE  Accounted(v)'
    <3>1. CASE v = w
      BY <2>2, <3>1 DEF Accounted
    <3>2. CASE v # w
      BY <2>1, <2>2, <3>2 DEF PointsInv, Accounted
    <3> QED
      BY <3>1, <3>2
  <2> QED
    BY <2>4, <2>5 DEF PointsInv
<1>17. ASSUME NEW r \in Rows, DeleteRow(r)
      PROVE  PointsInv'
  BY <1>17
  DEF DeleteRow, TypeInv, PointsInv, PointsAccounted, Accounted, Working
<1>18. ASSUME NEW kind \in DeleteKinds, NEW m \in Metrics,
     NEW rows \in Selections(kind, m), StartDelete(kind, m, rows)
      PROVE  PointsInv'
  BY <1>18
  DEF StartDelete, TypeInv, PointsInv, PointsAccounted, Accounted, Working,
      tables, workerVars
<1>19. ASSUME NEW o \in Owners, NEW stmt \in flying[o],
            \/ Land(o, stmt)
            \/ LoseStatement(o, stmt)
      PROVE  PointsInv'
  BY <1>19
  DEF Land, LoseStatement, TypeInv, PointsInv, PointsAccounted, Accounted,
      Working, tables, workerVars
<1>20. ASSUME NEW r \in Rows,
            \/ CleanRowKeyCache(r)
            \/ DeleteRowKey(r)
            \/ DeleteRowTime(r)
      PROVE  PointsInv'
  BY <1>20
  DEF CleanRowKeyCache, DeleteRowKey, DeleteRowTime, TypeInv, PointsInv,
      PointsAccounted, Accounted, Working, tables, history, workerVars
<1>21. ASSUME NEW m \in Metrics, DeleteMetricName(m)
      PROVE  PointsInv'
  BY <1>21
  DEF DeleteMetricName, TypeInv, PointsInv, PointsAccounted, Accounted,
      Working, history, workerVars
<1>22. CASE EndDelete \/ DeleteFails
  BY <1>22
  DEF EndDelete, DeleteFails, TypeInv, PointsInv, PointsAccounted, Accounted,
      Working, tables, history, workerVars
<1>23. ASSUME NEW w \in Workers, SkipExpired(w)
      PROVE  PointsInv'
  <2>1. Accounted(w)
    BY DEF PointsInv
  <2>2. \A v \in Workers : batch'[v].points = batch[v].points
    BY <1>23 DEF SkipExpired, TypeInv, TypeOK, WorkersOK, BatchRecords
  <2>3. /\ pc[w] = "load" /\ next[w] \in Nat /\ next'[w] = next[w] + 1
        /\ UNCHANGED <<pc, events, submitted, erased, dropped>>
        /\ \A v \in Workers \ {w} : next'[v] = next[v]
        /\ stored' = stored \ {Point(w)} /\ expired' = expired \cup {Point(w)}
    BY <1>23 DEF SkipExpired, TypeInv, TypeOK, WorkersOK
  <2>4. \A i \in 1 .. Len(events[w]) : i < next'[w] =>
            events[w][i] \in stored' \cup erased' \cup expired' \cup batch'[w].points
    <3> SUFFICES ASSUME NEW i \in 1 .. Len(events[w]), i < next'[w]
                 PROVE  events[w][i] \in stored' \cup erased' \cup expired' \cup batch'[w].points
      OBVIOUS
    <3>1. CASE i = next[w]
      BY <2>3, <3>1 DEF Point
    <3>2. CASE i < next[w]
      BY <2>1, <2>2, <2>3, <3>2 DEF Accounted
    <3> QED
      BY <2>3, <3>1, <3>2
  <2>5. Accounted(w)'
    BY <2>3, <2>4 DEF Accounted
  <2> QED
    BY <2>2, <2>3, <2>5, PointsByWorker
<1> QED
  BY <1>1, <1>2, <1>3, <1>4, <1>5, <1>6, <1>7, <1>8, <1>9, <1>10, <1>11,
     <1>12, <1>13, <1>14, <1>15, <1>16, <1>17, <1>18, <1>19, <1>20, <1>21,
     <1>22, <1>23
  DEF Next, Work

(* Only a worker that writes points has statements of its own.             *)
LEMMA StatementsStep ==
    ASSUME TypeInv, StatementsInv, Next
    PROVE  StatementsInv'
<1>1. ASSUME NEW w \in Workers, SendIndexWrites(w)
      PROVE  StatementsInv'
  <2>2. flying' = [flying EXCEPT ![w] = {MetricNamesBatch(w), RowKeyBatch(w)} \ {{}}]
    BY <1>1 DEF SendIndexWrites
  <2>3. \A v \in Workers \ {w} : flying'[v] = flying[v] /\ pc'[v] = pc[v]
                                 /\ batch'[v] = batch[v]
    BY <1>1 DEF SendIndexWrites, TypeInv
  <2>4. /\ pc'[w] = "points" /\ batch' = batch
        /\ flying'[w] = {MetricNamesBatch(w), RowKeyBatch(w)} \ {{}}
    BY <1>1, <2>2
    DEF SendIndexWrites, TypeInv, TypeOK, TablesOK, WorkersOK, Owners
  <2>5. ASSUME NEW r \in Rows, RowWrite(r) \in MetricNamesBatch(w) \cup RowKeyBatch(w)
        PROVE  r \in batch[w].rows
    BY <2>5
    DEF MetricNamesBatch, RowKeyBatch, RowWrite, TimeWrite, StringWrite
  <2>6. ASSUME NEW n \in Names, TimeWrite(n) \in MetricNamesBatch(w) \cup RowKeyBatch(w)
        PROVE  n \in batch[w].times
    BY <2>6
    DEF MetricNamesBatch, RowKeyBatch, RowWrite, TimeWrite, StringWrite
  <2> QED
    BY <2>3, <2>4, <2>5, <2>6 DEF StatementsInv
<1>2. ASSUME NEW w \in Workers, NEW evs \in Batches, Submit(w, evs)
      PROVE  StatementsInv'
  BY <1>2, SetsAssumption DEF Submit, TypeInv, StatementsInv
<1>3. ASSUME NEW w \in Workers, RowKeyCached(w)
      PROVE  StatementsInv'
  BY <1>3, SetsAssumption
  DEF RowKeyCached, AddDataPoint, TypeInv, StatementsInv
<1>4. ASSUME NEW w \in Workers, AddRowKey(w)
      PROVE  StatementsInv'
  BY <1>4, SetsAssumption DEF AddRowKey, TypeInv, StatementsInv
<1>5. ASSUME NEW w \in Workers, AddMetricName(w)
      PROVE  StatementsInv'
  BY <1>5, SetsAssumption
  DEF AddMetricName, AddDataPoint, TypeInv, StatementsInv, TypeOK, WorkersOK,
      Owners
<1>6. ASSUME NEW w \in Workers, NEW r \in Rows, WriteDataPoints(w, r)
      PROVE  StatementsInv'
  BY <1>6, SetsAssumption DEF WriteDataPoints, TypeInv, StatementsInv
<1>7. ASSUME NEW w \in Workers, BatchSent(w)
      PROVE  StatementsInv'
  BY <1>7, SetsAssumption
  DEF BatchSent, TypeInv, StatementsInv, TypeOK, TablesOK, Owners
<1>8. ASSUME NEW w \in Workers, NEW n \in Names, ClearMetricName(w, n)
      PROVE  StatementsInv'
  BY <1>8, SetsAssumption DEF ClearMetricName, TypeInv, StatementsInv
<1>9. ASSUME NEW w \in Workers, NEW r \in Rows, ClearRowKey(w, r)
      PROVE  StatementsInv'
  BY <1>9, SetsAssumption DEF ClearRowKey, TypeInv, StatementsInv
<1>10. ASSUME NEW w \in Workers, Retry(w)
      PROVE  StatementsInv'
  BY <1>10, SetsAssumption
  DEF Retry, StartOver, Cleared, TypeInv, StatementsInv
<1>11. ASSUME NEW w \in Workers, RetrySmaller(w)
      PROVE  StatementsInv'
  BY <1>11, SetsAssumption
  DEF RetrySmaller, StartOver, Cleared, TypeInv, StatementsInv
<1>12. ASSUME NEW w \in Workers, GiveUp(w)
      PROVE  StatementsInv'
  BY <1>12, SetsAssumption DEF GiveUp, Cleared, TypeInv, StatementsInv
<1>13. ASSUME NEW w \in Workers, Complete(w)
      PROVE  StatementsInv'
  BY <1>13, SetsAssumption DEF Complete, TypeInv, StatementsInv
<1>14. ASSUME NEW w \in Workers, LoadFails(w)
      PROVE  StatementsInv'
  BY <1>14, SetsAssumption DEF LoadFails, Fails, TypeInv, StatementsInv
<1>15. ASSUME NEW w \in Workers, Outage(w)
      PROVE  StatementsInv'
  BY <1>15, SetsAssumption
  DEF Outage, Fails, TypeInv, StatementsInv, TypeOK, TablesOK, Owners
<1>16. ASSUME NEW w \in Workers, Rejected(w)
      PROVE  StatementsInv'
  BY <1>16, SetsAssumption
  DEF Rejected, Fails, TypeInv, StatementsInv, TypeOK, TablesOK, Owners
<1>17. ASSUME NEW o \in Owners, NEW stmt \in flying[o], Land(o, stmt)
      PROVE  StatementsInv'
  BY <1>17, SetsAssumption DEF Land, TypeInv, StatementsInv, workerVars
<1>18. ASSUME NEW o \in Owners, NEW stmt \in flying[o],
     LoseStatement(o, stmt)
      PROVE  StatementsInv'
  BY <1>18, SetsAssumption
  DEF LoseStatement, TypeInv, StatementsInv, workerVars
<1>19. ASSUME NEW r \in Rows, DeleteRow(r)
      PROVE  StatementsInv'
  BY <1>19, SetsAssumption DEF DeleteRow, TypeInv, StatementsInv
<1>20. ASSUME NEW r \in Rows, DeleteRowKey(r)
      PROVE  StatementsInv'
  BY <1>20, SetsAssumption
  DEF DeleteRowKey, Hides, TypeInv, StatementsInv, workerVars, Owners
<1>21. ASSUME NEW r \in Rows, DeleteRowTime(r)
      PROVE  StatementsInv'
  BY <1>21, SetsAssumption
  DEF DeleteRowTime, Hides, TypeInv, StatementsInv, workerVars, Owners
<1>22. ASSUME NEW m \in Metrics, DeleteMetricName(m)
      PROVE  StatementsInv'
  BY <1>22, SetsAssumption
  DEF DeleteMetricName, Hides, TypeInv, StatementsInv, workerVars, Owners
<1>23. ASSUME NEW kind \in DeleteKinds, NEW m \in Metrics,
     NEW rows \in Selections(kind, m), StartDelete(kind, m, rows)
      PROVE  StatementsInv'
  BY <1>23 DEF StartDelete, TypeInv, StatementsInv, workerVars
<1>24. ASSUME NEW r \in Rows, CleanRowKeyCache(r)
      PROVE  StatementsInv'
  BY <1>24 DEF CleanRowKeyCache, TypeInv, StatementsInv, workerVars
<1>25. CASE EndDelete \/ DeleteFails
  BY <1>25 DEF EndDelete, DeleteFails, TypeInv, StatementsInv, workerVars
<1>26. ASSUME NEW w \in Workers, SkipExpired(w)
      PROVE  StatementsInv'
  <2>1. \A v \in Workers : batch'[v].rows = batch[v].rows /\ batch'[v].times = batch[v].times
    BY <1>26 DEF SkipExpired, TypeInv, TypeOK, WorkersOK, BatchRecords
  <2> QED
    BY <1>26, <2>1 DEF SkipExpired, StatementsInv
<1> QED
  BY <1>1, <1>2, <1>3, <1>4, <1>5, <1>6, <1>7, <1>8, <1>9, <1>10, <1>11,
     <1>12, <1>13, <1>14, <1>15, <1>16, <1>17, <1>18, <1>19, <1>20, <1>21,
     <1>22, <1>23, <1>24, <1>25, <1>26
  DEF Next, Work

(* A delete that took something from the indexes clears the caches.        *)
LEMMA GoneStep ==
    ASSUME TypeInv, GoneInv, Next
    PROVE  GoneInv'
<1>1. ASSUME NEW kind \in DeleteKinds, NEW m \in Metrics,
     NEW rows \in Selections(kind, m), StartDelete(kind, m, rows)
      PROVE  GoneInv'
  BY <1>1 DEF StartDelete, IdleDeleter, TypeInv, GoneInv
<1>2. ASSUME NEW r \in Rows, DeleteRow(r)
      PROVE  GoneInv'
  BY <1>2 DEF DeleteRow, TypeInv, GoneInv
<1>3. ASSUME NEW r \in Rows, DeleteRowKey(r)
      PROVE  GoneInv'
  BY <1>3 DEF DeleteRowKey, TypeInv, GoneInv
<1>4. ASSUME NEW r \in Rows, DeleteRowTime(r)
      PROVE  GoneInv'
  BY <1>4 DEF DeleteRowTime, TypeInv, GoneInv
<1>5. ASSUME NEW m \in Metrics, DeleteMetricName(m)
      PROVE  GoneInv'
  BY <1>5 DEF DeleteMetricName, TypeInv, GoneInv
<1>6. CASE EndDelete
  BY <1>6 DEF EndDelete, IdleDeleter, TypeInv, GoneInv
<1>7. CASE DeleteFails
  BY <1>7 DEF DeleteFails, IdleDeleter, TypeInv, GoneInv
<1>8. ASSUME NEW w \in Workers, NEW evs \in Batches, Submit(w, evs)
      PROVE  GoneInv'
  BY <1>8 DEF Submit, TypeInv, GoneInv
<1>9. ASSUME NEW w \in Workers,
            \/ RowKeyCached(w)
            \/ AddRowKey(w)
            \/ AddMetricName(w)
            \/ SendIndexWrites(w)
            \/ BatchSent(w)
            \/ Retry(w)
      PROVE  GoneInv'
  BY <1>9
  DEF RowKeyCached, AddDataPoint, Row, Point, HasMore, CacheItem, AddRowKey,
      AddMetricName, Name, SendIndexWrites, MetricNamesBatch, RowKeyBatch,
      BatchSent, EmptyBatch, Retry, StartOver, Cleared, TypeInv, TypeOK,
      DeleterOK, GoneInv
<1>10. ASSUME NEW w \in Workers,
            \/ SkipExpired(w)
            \/ RetrySmaller(w)
            \/ GiveUp(w)
            \/ Complete(w)
            \/ LoadFails(w)
            \/ Outage(w)
            \/ Rejected(w)
      PROVE  GoneInv'
  BY <1>10
  DEF SkipExpired, RetrySmaller, StartOver, GiveUp, Complete, LoadFails, Outage, Rejected,
      TypeInv, GoneInv
<1>11. ASSUME NEW w \in Workers, NEW r \in Rows,
            \/ WriteDataPoints(w, r)
            \/ ClearRowKey(w, r)
      PROVE  GoneInv'
  BY <1>11 DEF WriteDataPoints, ClearRowKey, TypeInv, GoneInv
<1>12. ASSUME NEW w \in Workers, NEW n \in Names, ClearMetricName(w, n)
      PROVE  GoneInv'
  BY <1>12 DEF ClearMetricName, TypeInv, GoneInv
<1>13. ASSUME NEW o \in Owners, NEW stmt \in flying[o],
            \/ Land(o, stmt)
            \/ LoseStatement(o, stmt)
      PROVE  GoneInv'
  BY <1>13 DEF Land, LoseStatement, TypeInv, GoneInv
<1>14. ASSUME NEW r \in Rows, CleanRowKeyCache(r)
      PROVE  GoneInv'
  BY <1>14 DEF CleanRowKeyCache, TypeInv, GoneInv
<1> QED
  BY <1>1, <1>2, <1>3, <1>4, <1>5, <1>6, <1>7, <1>8, <1>9, <1>10, <1>11,
     <1>12, <1>13, <1>14
  DEF Next, Work

-----------------------------------------------------------------------------
(* Which index writes are still on their way after one statement has       *)
(* arrived or failed,                                                      *)
LEMMA FlyingAfterOne ==
    ASSUME TypeInv, NEW o \in Owners, NEW stmt \in flying[o],
           flying' = [flying EXCEPT ![o] = @ \ {stmt}],
           NEW x, IsFlying(x), x \notin stmt
    PROVE  IsFlying(x)'
<1>1. PICK owner \in Owners : x \in UNION flying[owner]
  BY DEF IsFlying
<1>2. PICK other \in flying[owner] : x \in other
  BY <1>1
<1>3. other \in flying'[owner]
  BY <1>2 DEF TypeInv
<1> QED
  BY <1>2, <1>3 DEF IsFlying

(* and after a tombstone hid one of them.                                  *)
LEMMA FlyingAfterHides ==
    ASSUME NEW y, Hides(y), NEW x, x # y, IsFlying(x)
    PROVE  IsFlying(x)'
<1>1. PICK owner \in Owners : x \in UNION flying[owner]
  BY DEF IsFlying
<1>2. PICK stmt \in flying[owner] : x \in stmt
  BY <1>1
<1>3. stmt \ {y} \in flying'[owner]
  BY <1>2 DEF Hides
<1> QED
  BY <1>2, <1>3 DEF IsFlying

(* A failed or completed submission gives its statements away.             *)
LEMMA FlyingAfterOutage ==
    ASSUME TypeInv, NEW w \in Workers, NEW survivors \in SUBSET flying[w],
           flying' = [flying EXCEPT ![w] = {}, ![Detached] = @ \cup survivors],
           NEW x, IsFlying(x), x \notin UNION flying[w]
    PROVE  IsFlying(x)'
<1>1. PICK owner \in Owners : x \in UNION flying[owner]
  BY DEF IsFlying
<1>2. owner # w /\ x \in UNION flying'[owner]
  BY <1>1, SetsAssumption DEF TypeInv, TypeOK, TablesOK
<1> QED
  BY <1>2 DEF IsFlying

(* clearCacheOfFailedBatch clears m_newMetrics, which holds every new name *)
(* that is not filtered.                                                   *)
NamesInv ==
    \A w \in Workers :
        /\ batch[w].names \subseteq batch[w].times
        /\ pc[w] \in {"load", "name", "points"} =>
               batch[w].times \ FilteredNames \subseteq batch[w].names

(* addTimeIndex is called for the names that addMetricName was called for. *)
LEMMA NamesStep ==
    ASSUME TypeInv, NamesInv, Next
    PROVE  NamesInv'
<1>1. ASSUME NEW w \in Workers, NEW evs \in Batches, Submit(w, evs)
      PROVE  NamesInv'
  BY <1>1 DEF Submit, EmptyBatch, TypeInv, NamesInv, TypeOK, WorkersOK
<1>2. ASSUME NEW w \in Workers, RowKeyCached(w)
      PROVE  NamesInv'
  BY <1>2 DEF RowKeyCached, AddDataPoint, TypeInv, NamesInv
<1>3. ASSUME NEW w \in Workers, AddRowKey(w)
      PROVE  NamesInv'
  BY <1>3 DEF AddRowKey, TypeInv, NamesInv
<1>4. ASSUME NEW w \in Workers, AddMetricName(w)
      PROVE  NamesInv'
  BY <1>4
  DEF AddMetricName, AddDataPoint, TypeInv, NamesInv, TypeOK, WorkersOK,
      BatchRecords
<1>5. ASSUME NEW w \in Workers, SendIndexWrites(w)
      PROVE  NamesInv'
  BY <1>5 DEF SendIndexWrites, TypeInv, NamesInv
<1>6. ASSUME NEW w \in Workers, NEW r \in Rows, WriteDataPoints(w, r)
      PROVE  NamesInv'
  BY <1>6 DEF WriteDataPoints, TypeInv, NamesInv
<1>7. ASSUME NEW w \in Workers, BatchSent(w)
      PROVE  NamesInv'
  BY <1>7 DEF BatchSent, EmptyBatch, TypeInv, NamesInv
<1>8. ASSUME NEW w \in Workers, NEW n \in Names, ClearMetricName(w, n)
      PROVE  NamesInv'
  BY <1>8 DEF ClearMetricName, TypeInv, NamesInv
<1>9. ASSUME NEW w \in Workers, NEW r \in Rows, ClearRowKey(w, r)
      PROVE  NamesInv'
  BY <1>9 DEF ClearRowKey, TypeInv, NamesInv
<1>10. ASSUME NEW w \in Workers, Retry(w)
      PROVE  NamesInv'
  BY <1>10
  DEF Retry, StartOver, EmptyBatch, TypeInv, NamesInv, TypeOK, WorkersOK
<1>11. ASSUME NEW w \in Workers, RetrySmaller(w)
      PROVE  NamesInv'
  BY <1>11
  DEF RetrySmaller, StartOver, EmptyBatch, TypeInv, NamesInv, TypeOK,
      WorkersOK
<1>12. ASSUME NEW w \in Workers, GiveUp(w)
      PROVE  NamesInv'
  BY <1>12 DEF GiveUp, TypeInv, NamesInv
<1>13. ASSUME NEW w \in Workers, Complete(w)
      PROVE  NamesInv'
  BY <1>13 DEF Complete, EmptyBatch, TypeInv, NamesInv
<1>14. ASSUME NEW w \in Workers, LoadFails(w)
      PROVE  NamesInv'
  BY <1>14 DEF LoadFails, Fails, TypeInv, NamesInv
<1>15. ASSUME NEW w \in Workers, Outage(w)
      PROVE  NamesInv'
  BY <1>15 DEF Outage, Fails, TypeInv, NamesInv
<1>16. ASSUME NEW w \in Workers, Rejected(w)
      PROVE  NamesInv'
  BY <1>16 DEF Rejected, Fails, TypeInv, NamesInv
<1>17. ASSUME NEW r \in Rows, DeleteRow(r)
      PROVE  NamesInv'
  BY <1>17 DEF DeleteRow, TypeInv, NamesInv
<1>18. ASSUME NEW o \in Owners, NEW stmt \in flying[o],
            \/ Land(o, stmt)
            \/ LoseStatement(o, stmt)
      PROVE  NamesInv'
  BY <1>18 DEF Land, LoseStatement, TypeInv, NamesInv, workerVars
<1>19. ASSUME NEW kind \in DeleteKinds, NEW m \in Metrics,
     NEW rows \in Selections(kind, m), StartDelete(kind, m, rows)
      PROVE  NamesInv'
  BY <1>19 DEF StartDelete, TypeInv, NamesInv, workerVars
<1>20. ASSUME NEW r \in Rows,
            \/ CleanRowKeyCache(r)
            \/ DeleteRowKey(r)
            \/ DeleteRowTime(r)
      PROVE  NamesInv'
  BY <1>20
  DEF CleanRowKeyCache, DeleteRowKey, DeleteRowTime, TypeInv, NamesInv,
      workerVars
<1>21. ASSUME NEW m \in Metrics, DeleteMetricName(m)
      PROVE  NamesInv'
  BY <1>21 DEF DeleteMetricName, TypeInv, NamesInv, workerVars
<1>22. CASE EndDelete \/ DeleteFails
  BY <1>22 DEF EndDelete, DeleteFails, TypeInv, NamesInv, workerVars
<1>23. ASSUME NEW w \in Workers, SkipExpired(w)
      PROVE  NamesInv'
  <2>1. \A v \in Workers : batch'[v].names = batch[v].names /\ batch'[v].times = batch[v].times
    BY <1>23 DEF SkipExpired, TypeInv, TypeOK, WorkersOK, BatchRecords
  <2> QED
    BY <1>23, <2>1 DEF SkipExpired, NamesInv
<1> QED
  BY <1>1, <1>2, <1>3, <1>4, <1>5, <1>6, <1>7, <1>8, <1>9, <1>10, <1>11,
     <1>12, <1>13, <1>14, <1>15, <1>16, <1>17, <1>18, <1>19, <1>20, <1>21,
     <1>22, <1>23
  DEF Next, Work

-----------------------------------------------------------------------------
(* complete() is called for a batch only when each of its points was       *)
(* stored, deleted since, given up with the whole batch, or found dead     *)
(* when it was loaded: no retry, and no failure in the middle of one,      *)
(* skips an event.                                                         *)
THEOREM PointsKept == Spec => []PointsAccounted
<1>1. Init => PointsInv
  BY DEF Init, PointsInv, PointsAccounted, Accounted
<1>2. TypeInv /\ PointsInv /\ [Next]_vars => PointsInv'
  <2>1. CASE TypeInv /\ PointsInv /\ UNCHANGED vars
    BY <2>1 DEF vars, PointsInv, PointsAccounted, Accounted, Working
  <2> QED
    BY <2>1, PointsStep
<1>3. PointsInv => PointsAccounted
  BY DEF PointsInv
<1> QED
  BY <1>1, <1>2, <1>3, TypeInvAlways, PTL DEF Spec

LEMMA StatementsAlways == Spec => [](TypeInv /\ StatementsInv /\ GoneInv)
<1>1. Init => StatementsInv /\ GoneInv
  BY DEF Init, StatementsInv, GoneInv, IdleDeleter, Owners
<1>2. TypeInv /\ StatementsInv /\ GoneInv /\ [Next]_vars
          => StatementsInv' /\ GoneInv'
  <2>1. CASE TypeInv /\ StatementsInv /\ GoneInv /\ UNCHANGED vars
    BY <2>1 DEF vars, StatementsInv, GoneInv
  <2> QED
    BY <2>1, StatementsStep, GoneStep
<1> QED
  BY <1>1, <1>2, TypeInvAlways, PTL DEF Spec

-----------------------------------------------------------------------------
(* The index writes a row needs.  The metric of a filtered name is not     *)
(* listed; a delete by tags over all times takes the metric of rows it     *)
(* leaves off the list; and a delete of whole time frames takes row times  *)
(* away that the cached names go on hiding: none of these is promised.     *)
NameIndexWrites(n) ==
    (IF n \in FilteredNames \/ "alltags" \in DeleteKinds THEN {}
     ELSE {StringWrite(MetricOf[n])})
      \cup (IF "frame" \in DeleteKinds THEN {} ELSE {TimeWrite(n)})
IndexWrites(r) == {RowWrite(r)} \cup NameIndexWrites(NameOf[r])

Written(x) ==
    \/ \E r \in rowKeys : x = RowWrite(r)
    \/ \E n \in timeIndex : x = TimeWrite(n)
    \/ \E m \in stringIndex : x = StringWrite(m)

(* What a batch will write, and the row keys of a worker's events.         *)
BatchWrites(w) == MetricNamesBatch(w) \cup RowKeyBatch(w)
RowsOf(w) == {RowOf[events[w][i]] : i \in 1 .. Len(events[w])}

(* A batch has names and row times only of its own row keys, and its own   *)
(* row keys only of the worker's events.                                   *)
BatchConsistent(w) ==
    /\ batch[w].rows \subseteq RowsOf(w)
    /\ batch[w].names \cap FilteredNames = {}
    /\ \A n \in batch[w].names : \E r \in batch[w].rows : NameOf[r] = n
    /\ pc[w] \in {"load", "name", "points"} =>
           \A n \in batch[w].times : \E r \in batch[w].rows : NameOf[r] = n
    /\ pc[w] = "name" => Row(w) \in batch[w].rows
    /\ UNION flying[w] \subseteq BatchWrites(w)
BatchInv == \A w \in Workers : BatchConsistent(w)

(* What a delete goes through: everything that is being written while it   *)
(* runs is raced, and it takes no index entry that a point it leaves needs. *)
DeleteInv ==
    /\ \A m \in Metrics : StringWrite(m) \notin deleter.gone
    /\ deleter.kind \in Tagged => \A n \in Names : TimeWrite(n) \notin deleter.gone
    /\ deleter.pc # "idle" =>
        /\ deleter.kind \in DeleteKinds
        /\ deleter.kind \in Tagged => deleter.pc # "time"
        /\ deleter.pc = "caches" =>
               deleter.kind \in AllTimes /\ deleter.todo = {} /\ deleter.clear
        /\ deleter.kind = "all" =>
               \A r \in deleter.todo \cup deleter.row :
                   MetricOf[NameOf[r]] \in deleter.metric
        /\ \A w \in Working : Elements(events[w]) \subseteq raced
        /\ \A p \in stored \ raced :
               /\ deleter.pc \in {"key", "time"} => RowOf[p] \notin deleter.row
               /\ deleter.kind = "all" /\ MetricOf[NameOf[RowOf[p]]] \in deleter.metric
                      => RowOf[p] \in deleter.todo
               /\ RowWrite(RowOf[p]) \notin deleter.gone
               /\ \A x \in IndexWrites(RowOf[p]) \cap deleter.gone :
                      RowOf[p] \in deleter.todo

(* Who answers for the writes of a cached name: a batch that added the name *)
(* itself, the statements it sent, or a running delete that will clear the *)
(* cache.  A batch that failed answers only for the names it will clear    *)
(* from the cache; what it owed the filtered ones is lost.                 *)
NameHeld(w, n, x) ==
    \/ /\ n \in batch[w].times
       /\ pc[w] \in {"load", "name"} \/ x \in UNION flying[w]
    \/ n \in batch[w].names /\ pc[w] = "clear" /\ x \in owed[w]
NameAnswered(n, x) ==
    \/ Written(x) \/ x \in lost
    \/ x \in UNION flying[Detached]
    \/ \E w \in Workers : NameHeld(w, n, x)
    \/ x \in deleter.gone /\ deleter.pc # "caches"
NameCacheInv == \A n \in nameCache : \A x \in NameIndexWrites(n) : NameAnswered(n, x)

(* A worker that owes a write makes it again when it meets a row key that  *)
(* needs it and is not cached: in the rest of its events, or in any of them *)
(* once it has cleared the failed batch and starts over.                   *)
Meets(w, r) ==
    \/ /\ pc[w] \in {"load", "name", "points"}
       /\ r \notin rowCache
       /\ \E i \in 1 .. Len(events[w]) : next[w] <= i /\ RowOf[events[w][i]] = r
    \/ /\ pc[w] = "clear"
       /\ r \in RowsOf(w)
       /\ r \in batch[w].rows \/ r \notin rowCache
WritesAgain(w, x) == x \in owed[w] /\ \E r \in Rows : x \in IndexWrites(r) /\ Meets(w, r)

(* The worker has the write in the batch it fills, or is about to.         *)
Writing(w, x) ==
    \/ pc[w] \in {"load", "name"} /\ x \in BatchWrites(w)
    \/ pc[w] = "name" /\ x \in IndexWrites(Row(w))

(* Somebody answers for an index write; or a running delete excuses it,    *)
(* which clears the caches at its end and takes no entry that is needed.   *)
Answered(x) ==
    \/ Written(x) \/ x \in lost \/ IsFlying(x)
    \/ \E w \in Workers : Writing(w, x) \/ WritesAgain(w, x)
Excused(x) ==
    \/ x \in deleter.gone
    \/ deleter.pc = "caches" /\ \E m \in deleter.metric : x = StringWrite(m)
Covered(x) == Answered(x) \/ Excused(x)

(* The points whose index writes somebody must answer for: those that are  *)
(* stored and those on their way.                                          *)
Sought == (stored \cup {p \in Points : \E w \in Workers :
              pc[w] \in {"load", "name", "points"} /\ p \in batch[w].points}) \ raced

RowCacheInv == \A r \in rowCache : \A x \in IndexWrites(r) : Covered(x)
SoughtInv == \A p \in Sought : \A x \in IndexWrites(RowOf[p]) : Covered(x)

-----------------------------------------------------------------------------
(* What a worker can say of its batch is about its own state.              *)
LEMMA BatchByWorker ==
    ASSUME BatchInv, NEW w \in Workers,
           \A v \in Workers \ {w} :
               /\ pc'[v] = pc[v] /\ events'[v] = events[v] /\ next'[v] = next[v]
               /\ batch'[v] = batch[v] /\ flying'[v] = flying[v],
           BatchConsistent(w)'
    PROVE  BatchInv'
<1> SUFFICES ASSUME NEW v \in Workers \ {w} PROVE BatchConsistent(v)'
  BY DEF BatchInv
<1>1. BatchConsistent(v)
  BY DEF BatchInv
<1> QED
  BY <1>1
  DEF BatchConsistent, RowsOf, Row, Point, BatchWrites, MetricNamesBatch, RowKeyBatch

(* A new batch says nothing, and has sent nothing.                         *)
LEMMA BatchEmpty ==
    ASSUME NEW w \in Workers, batch'[w] = EmptyBatch, flying'[w] = {}, pc'[w] # "name"
    PROVE  BatchConsistent(w)'
BY DEF BatchConsistent, EmptyBatch

(* What it says goes with the row keys and names of the batch and not with *)
(* its points.                                                             *)
LEMMA BatchUnchanged ==
    ASSUME NEW w \in Workers, BatchConsistent(w),
           batch'[w].rows = batch[w].rows, batch'[w].names = batch[w].names,
           batch'[w].times = batch[w].times, events'[w] = events[w],
           pc'[w] \in {"load", "name", "points"} => pc[w] \in {"load", "name", "points"},
           pc'[w] = "name" => pc[w] = "name" /\ next'[w] = next[w],
           UNION flying'[w] \subseteq UNION flying[w]
    PROVE  BatchConsistent(w)'
<1>1. BatchWrites(w)' = BatchWrites(w) /\ RowsOf(w)' = RowsOf(w)
  BY DEF BatchWrites, MetricNamesBatch, RowKeyBatch, RowsOf
<1>2. pc'[w] = "name" => Row(w)' = Row(w)
  BY DEF Row, Point
<1> QED
  BY <1>1, <1>2 DEF BatchConsistent

LEMMA BatchStep ==
    ASSUME TypeInv, StatementsInv, BatchInv, Next
    PROVE  BatchInv'
<1> USE DEF TypeInv, TypeOK, TablesOK, WorkersOK, Owners
<1>1. ASSUME NEW w \in Workers, NEW evs \in Batches, Submit(w, evs)
      PROVE  BatchInv'
  <2>1. batch'[w] = EmptyBatch /\ flying'[w] = {} /\ pc'[w] # "name"
    BY <1>1 DEF Submit, StatementsInv
  <2> QED
    BY <1>1, <2>1, BatchEmpty, BatchByWorker DEF Submit
<1>2. ASSUME NEW w \in Workers, RowKeyCached(w)
      PROVE  BatchInv'
  <2>1. BatchConsistent(w)
    BY DEF BatchInv
  <2>2. BatchConsistent(w)'
    BY <1>2, <2>1, BatchUnchanged DEF RowKeyCached, AddDataPoint, BatchRecords
  <2> QED
    BY <1>2, <2>2, BatchByWorker DEF RowKeyCached, AddDataPoint
<1>3. ASSUME NEW w \in Workers, AddRowKey(w)
      PROVE  BatchInv'
  <2>1. BatchConsistent(w) /\ flying[w] = {}
    BY <1>3 DEF BatchInv, AddRowKey, StatementsInv
  <2>2. next[w] \in 1 .. Len(events[w])
    BY <1>3 DEF AddRowKey, HasMore
  <2>3. Row(w) \in RowsOf(w)
    BY <2>2 DEF RowsOf, Row, Point
  <2>4. /\ batch'[w] = [batch[w] EXCEPT !.rows = @ \cup {Row(w)}]
        /\ pc'[w] = "name" /\ flying'[w] = {}
        /\ UNCHANGED <<events, next>>
    BY <1>3, <2>1 DEF AddRowKey
  <2>5. /\ batch'[w].rows = batch[w].rows \cup {Row(w)}
        /\ batch'[w].names = batch[w].names /\ batch'[w].times = batch[w].times
    BY <2>4 DEF BatchRecords
  <2>6. BatchConsistent(w)'
    BY <1>3, <2>1, <2>3, <2>4, <2>5 DEF AddRowKey, BatchConsistent, RowsOf, Row, Point
  <2> QED
    BY <1>3, <2>6, BatchByWorker DEF AddRowKey
<1>4. ASSUME NEW w \in Workers, AddMetricName(w)
      PROVE  BatchInv'
  <2>1. BatchConsistent(w) /\ flying[w] = {}
    BY <1>4 DEF BatchInv, AddMetricName, StatementsInv
  <2> DEFINE new == IF Name(w) \in nameCache THEN {} ELSE {Name(w)}
  <2>2. /\ batch'[w].rows = batch[w].rows
        /\ batch'[w].names = batch[w].names \cup (new \ FilteredNames)
        /\ batch'[w].times = batch[w].times \cup new
    BY <1>4 DEF AddMetricName, AddDataPoint, BatchRecords
  <2>3. pc'[w] = "load" /\ flying'[w] = {} /\ events'[w] = events[w]
    BY <1>4, <2>1 DEF AddMetricName, AddDataPoint
  <2>4. Row(w) \in batch[w].rows /\ NameOf[Row(w)] = Name(w) /\ pc[w] = "name"
    BY <1>4, <2>1 DEF AddMetricName, BatchConsistent, Name
  <2>5. new \subseteq {Name(w)} /\ \A n \in new : \E r \in batch[w].rows : NameOf[r] = n
    BY <2>4
  <2> HIDE DEF new
  <2>6. /\ batch'[w].names \cap FilteredNames = {}
        /\ \A n \in batch'[w].names : \E r \in batch'[w].rows : NameOf[r] = n
        /\ \A n \in batch'[w].times : \E r \in batch'[w].rows : NameOf[r] = n
    BY <2>1, <2>2, <2>4, <2>5 DEF BatchConsistent
  <2>7. batch'[w].rows \subseteq RowsOf(w)' /\ UNION flying'[w] = {}
    BY <2>1, <2>2, <2>3 DEF BatchConsistent, RowsOf
  <2>8. BatchConsistent(w)'
    BY <2>3, <2>6, <2>7 DEF BatchConsistent
  <2> QED
    BY <1>4, <2>8, BatchByWorker DEF AddMetricName, AddDataPoint
<1>5. ASSUME NEW w \in Workers, SendIndexWrites(w)
      PROVE  BatchInv'
  <2>1. BatchConsistent(w)
    BY DEF BatchInv
  <2>2. UNION flying'[w] \subseteq BatchWrites(w) /\ BatchWrites(w)' = BatchWrites(w)
    BY <1>5 DEF SendIndexWrites, BatchWrites, MetricNamesBatch, RowKeyBatch
  <2>3. BatchConsistent(w)'
    BY <1>5, <2>1, <2>2 DEF SendIndexWrites, BatchConsistent, RowsOf
  <2> QED
    BY <1>5, <2>3, BatchByWorker DEF SendIndexWrites
<1>6. ASSUME NEW w \in Workers, NEW r \in Rows, WriteDataPoints(w, r)
      PROVE  BatchInv'
  <2>1. BatchConsistent(w)
    BY DEF BatchInv
  <2>2. BatchConsistent(w)'
    BY <1>6, <2>1, BatchUnchanged DEF WriteDataPoints, BatchRecords
  <2> QED
    BY <1>6, <2>2, BatchByWorker DEF WriteDataPoints
<1>7. ASSUME NEW w \in Workers, BatchSent(w)
      PROVE  BatchInv'
  <2>1. batch'[w] = EmptyBatch /\ flying'[w] = {} /\ pc'[w] # "name"
    BY <1>7, SetsAssumption DEF BatchSent
  <2> QED
    BY ZenonT(60), <1>7, <2>1, BatchEmpty, BatchByWorker, SetsAssumption DEF BatchSent
<1>8. ASSUME NEW w \in Workers, LoadFails(w) \/ Outage(w) \/ Rejected(w)
      PROVE  BatchInv'
  <2>1. BatchConsistent(w)
    BY DEF BatchInv
  <2>2. pc'[w] = "clear" /\ flying'[w] = {} /\ events'[w] = events[w]
    BY <1>8, SetsAssumption DEF LoadFails, Outage, Rejected, Fails, StatementsInv
  <2>3. /\ batch'[w].rows = batch[w].rows /\ batch'[w].names = batch[w].names
        /\ batch'[w].times = batch[w].times
    BY <1>8 DEF LoadFails, Outage, Rejected, Fails, BatchRecords
  <2>4. BatchConsistent(w)'
    BY <2>1, <2>2, <2>3, BatchUnchanged
  <2> QED
    BY <1>8, <2>4, BatchByWorker, SetsAssumption DEF LoadFails, Outage, Rejected, Fails
<1>9. ASSUME NEW w \in Workers, NEW n \in Names, ClearMetricName(w, n)
      PROVE  BatchInv'
  <2>1. BatchConsistent(w) /\ flying[w] = {}
    BY <1>9 DEF BatchInv, ClearMetricName, StatementsInv
  <2>2. BatchConsistent(w)'
    BY <1>9, <2>1 DEF ClearMetricName, BatchConsistent, RowsOf
  <2> QED
    BY <1>9, <2>2, BatchByWorker DEF ClearMetricName
<1>10. ASSUME NEW w \in Workers, NEW r \in Rows, ClearRowKey(w, r)
      PROVE  BatchInv'
  <2>1. BatchConsistent(w) /\ flying[w] = {}
    BY <1>10 DEF BatchInv, ClearRowKey, StatementsInv
  <2>2. BatchConsistent(w)'
    BY <1>10, <2>1 DEF ClearRowKey, BatchConsistent, RowsOf
  <2> QED
    BY <1>10, <2>2, BatchByWorker DEF ClearRowKey
<1>11. ASSUME NEW w \in Workers, Retry(w) \/ RetrySmaller(w) \/ Complete(w)
      PROVE  BatchInv'
  <2>1. batch'[w] = EmptyBatch /\ flying'[w] = {} /\ pc'[w] # "name"
    BY <1>11 DEF Retry, RetrySmaller, Complete, Cleared, StartOver, StatementsInv
  <2> QED
    BY <1>11, <2>1, BatchEmpty, BatchByWorker
    DEF Retry, RetrySmaller, Complete, Cleared, StartOver
<1>12. ASSUME NEW w \in Workers, GiveUp(w)
      PROVE  BatchInv'
  <2>1. BatchConsistent(w) /\ flying[w] = {}
    BY <1>12 DEF BatchInv, GiveUp, Cleared, StatementsInv
  <2>2. BatchConsistent(w)'
    BY <1>12, <2>1 DEF GiveUp, BatchConsistent, RowsOf
  <2> QED
    BY <1>12, <2>2, BatchByWorker DEF GiveUp
<1>13. ASSUME UNCHANGED workerVars, \A w \in Workers : UNION flying'[w] \subseteq UNION flying[w]
       PROVE  BatchInv'
  BY <1>13, BatchUnchanged DEF workerVars, BatchInv
<1>14. ASSUME NEW o \in Owners, NEW stmt \in flying[o], Land(o, stmt) \/ LoseStatement(o, stmt)
       PROVE  BatchInv'
  <2>1. flying' = [flying EXCEPT ![o] = @ \ {stmt}]
    BY <1>14 DEF Land, LoseStatement
  <2>2. \A w \in Workers : flying'[w] \subseteq flying[w]
    BY <2>1
  <2>3. \A w \in Workers : UNION flying'[w] \subseteq UNION flying[w]
    BY <2>2
  <2> QED
    BY <1>13, <1>14, <2>3 DEF Land, LoseStatement
<1>15. ASSUME NEW r \in Rows, DeleteRow(r)
       PROVE  BatchInv'
  <2> SUFFICES ASSUME NEW w \in Workers PROVE BatchConsistent(w)'
    BY DEF BatchInv
  <2>1. BatchConsistent(w)
    BY DEF BatchInv
  <2>2. /\ batch'[w].rows = batch[w].rows /\ batch'[w].names = batch[w].names
        /\ batch'[w].times = batch[w].times
    BY <1>15 DEF DeleteRow
  <2> QED
    BY <1>15, <2>1, <2>2, BatchUnchanged DEF DeleteRow
<1>16. ASSUME NEW x, Hides(x), UNCHANGED workerVars
       PROVE  BatchInv'
  <2>1. \A w \in Workers : UNION flying'[w] \subseteq UNION flying[w]
    BY <1>16 DEF Hides
  <2> QED
    BY <1>13, <1>16, <2>1
<1>17. ASSUME NEW r \in Rows, DeleteRowKey(r) \/ DeleteRowTime(r)
       PROVE  BatchInv'
  BY <1>16, <1>17 DEF DeleteRowKey, DeleteRowTime
<1>18. ASSUME NEW m \in Metrics, DeleteMetricName(m)
       PROVE  BatchInv'
  BY <1>16, <1>18 DEF DeleteMetricName
<1>19. CASE \/ \E kind \in DeleteKinds, m \in Metrics :
                  \E rows \in Selections(kind, m) : StartDelete(kind, m, rows)
            \/ \E r \in Rows : CleanRowKeyCache(r)
            \/ EndDelete \/ DeleteFails
  <2>1. UNCHANGED <<workerVars, flying>>
    BY <1>19 DEF StartDelete, CleanRowKeyCache, EndDelete, DeleteFails
  <2> QED
    BY <1>13, <2>1
<1>20. ASSUME NEW w \in Workers, SkipExpired(w)
       PROVE  BatchInv'
  <2>1. BatchConsistent(w)
    BY DEF BatchInv
  <2>2. BatchConsistent(w)'
    BY <1>20, <2>1, BatchUnchanged DEF SkipExpired, BatchRecords
  <2> QED
    BY <1>20, <2>2, BatchByWorker DEF SkipExpired
<1> QED
  BY <1>1, <1>2, <1>3, <1>4, <1>5, <1>6, <1>7, <1>8, <1>9, <1>10, <1>11, <1>12, <1>14,
     <1>15, <1>17, <1>18, <1>19, <1>20
  DEF Next, Work

-----------------------------------------------------------------------------
(* What a delete leaves alone depends on its own state, on what is raced   *)
(* and on what is stored.                                                  *)
LEMMA DeleteUnchanged ==
    ASSUME DeleteInv, UNCHANGED deleter, raced \subseteq raced',
           deleter.pc # "idle" =>
               /\ stored' \ raced' \subseteq stored \ raced
               /\ \A w \in Workers : pc'[w] # "idle" =>
                      \/ pc[w] # "idle" /\ events'[w] = events[w]
                      \/ Elements(events'[w]) \subseteq raced'
    PROVE  DeleteInv'
BY DEF DeleteInv, Working, Elements, IndexWrites, NameIndexWrites, RowWrite, TimeWrite, StringWrite

LEMMA DeleteStep ==
    ASSUME TypeInv, GoneInv, DeleteInv, Next
    PROVE  DeleteInv'
<1> USE DEF TypeInv, TypeOK, WorkersOK, TablesOK
<1>1. ASSUME NEW w \in Workers, NEW evs \in Batches, Submit(w, evs)
      PROVE  DeleteInv'
  <2>1. \A v \in Workers : pc'[v] # "idle" =>
                      \/ pc[v] # "idle" /\ events'[v] = events[v]
                      \/ v = w /\ events'[v] = evs
    BY <1>1 DEF Submit
  <2>2. /\ UNCHANGED <<deleter, stored>> /\ raced \subseteq raced'
        /\ deleter.pc # "idle" => Elements(evs) \subseteq raced'
    BY <1>1 DEF Submit, tables
  <2> QED
    BY <2>1, <2>2, DeleteUnchanged
<1>2. ASSUME NEW w \in Workers,
             \/ \E r \in Rows : WriteDataPoints(w, r)
             \/ Outage(w)
      PROVE  DeleteInv'
  <2>1. stored' \subseteq stored \cup batch[w].points /\ UNCHANGED <<deleter, raced, events>>
    BY <1>2 DEF WriteDataPoints, Outage, Arrives
  <2>2. pc[w] # "idle" /\ batch[w].points \subseteq Elements(events[w])
    BY <1>2 DEF WriteDataPoints, Outage, EventsInv
  <2>3. deleter.pc # "idle" => batch[w].points \subseteq raced
    BY <2>2 DEF DeleteInv, Working
  <2>4. \A v \in Workers \ {w} : pc'[v] = pc[v]
    BY <1>2 DEF WriteDataPoints, Outage, Fails
  <2> QED
    BY <2>1, <2>2, <2>3, <2>4, DeleteUnchanged
<1>3. ASSUME NEW w \in Workers,
             \/ RowKeyCached(w) \/ AddRowKey(w) \/ AddMetricName(w)
             \/ SendIndexWrites(w) \/ BatchSent(w)
             \/ \E n \in Names : ClearMetricName(w, n)
             \/ \E r \in Rows : ClearRowKey(w, r)
             \/ Retry(w) \/ RetrySmaller(w) \/ GiveUp(w) \/ LoadFails(w) \/ Rejected(w)
      PROVE  DeleteInv'
  <2>1. UNCHANGED <<deleter, raced, stored, events>>
    BY <1>3
    DEF RowKeyCached, AddRowKey, AddMetricName, AddDataPoint, SendIndexWrites, BatchSent,
        ClearMetricName, ClearRowKey, Retry, RetrySmaller, StartOver, GiveUp, LoadFails,
        Rejected, tables, history
  <2>2. pc[w] # "idle"
    BY <1>3
    DEF RowKeyCached, AddRowKey, AddMetricName, SendIndexWrites, BatchSent, ClearMetricName,
        ClearRowKey, Retry, RetrySmaller, GiveUp, Cleared, LoadFails, Rejected
  <2>3. \A v \in Workers \ {w} : pc'[v] = pc[v]
    BY <1>3
    DEF RowKeyCached, AddRowKey, AddMetricName, AddDataPoint, SendIndexWrites, BatchSent,
        ClearMetricName, ClearRowKey, Retry, RetrySmaller, StartOver, GiveUp, LoadFails,
        Rejected, Fails
  <2> QED
    BY <2>1, <2>2, <2>3, DeleteUnchanged
<1>4. ASSUME NEW w \in Workers, Complete(w)
      PROVE  DeleteInv'
  <2>1. UNCHANGED <<deleter, raced, stored>>
    BY <1>4 DEF Complete, tables
  <2>2. \A v \in Workers : pc'[v] # "idle" => pc[v] # "idle" /\ events'[v] = events[v]
    BY <1>4 DEF Complete
  <2> QED
    BY <2>1, <2>2, DeleteUnchanged
<1>5. ASSUME NEW o \in Owners, NEW stmt \in flying[o], Land(o, stmt) \/ LoseStatement(o, stmt)
      PROVE  DeleteInv'
  BY <1>5, DeleteUnchanged DEF Land, LoseStatement, tables, workerVars
<1>6. ASSUME NEW r \in Rows, CleanRowKeyCache(r)
      PROVE  DeleteInv'
  BY <1>6, DeleteUnchanged DEF CleanRowKeyCache, tables, workerVars, history
<1>7. ASSUME NEW kind \in DeleteKinds, NEW m \in Metrics,
             NEW rows \in Selections(kind, m), StartDelete(kind, m, rows)
      PROVE  DeleteInv'
  <2>1. /\ deleter' = [IdleDeleter EXCEPT !.pc = "row", !.kind = kind, !.metric = {m},
                         !.todo = {r \in rows \cap rowKeys : NameOf[r] \in timeIndex}]
        /\ raced' = raced \cup (UNION {Elements(events[w]) : w \in Working})
                      \cup {p \in stored : \/ RowOf[p] \notin rowKeys
                                           \/ NameOf[RowOf[p]] \notin timeIndex}
        /\ UNCHANGED <<pc, events, stored>>
    BY <1>7 DEF StartDelete, tables, workerVars
  <2>2. /\ deleter'.pc = "row" /\ deleter'.kind = kind /\ deleter'.metric = {m}
        /\ deleter'.todo = {r \in rows \cap rowKeys : NameOf[r] \in timeIndex}
        /\ deleter'.row = {} /\ deleter'.gone = {}
    BY <2>1 DEF IdleDeleter
  <2>3. kind = "all" => rows = {r \in Rows : MetricOf[NameOf[r]] = m}
    BY DEF Selections, Tagged
  <2>4. \A p \in stored' \ raced' : RowOf[p] \in rowKeys /\ NameOf[RowOf[p]] \in timeIndex
    BY <2>1
  <2>5. \A w \in Working' : Elements(events[w])' \subseteq raced'
    BY <2>1 DEF Working, Elements
  <2> QED
    BY <2>2, <2>3, <2>4, <2>5 DEF DeleteInv
<1>8. ASSUME NEW r \in Rows, DeleteRow(r)
      PROVE  DeleteInv'
  <2>1. /\ deleter'.pc = "key" /\ deleter'.kind = deleter.kind
        /\ deleter'.metric = deleter.metric /\ deleter'.gone = deleter.gone
        /\ deleter'.todo = deleter.todo \ {r} /\ deleter'.row = {r}
    BY <1>8 DEF DeleteRow, DeleterOK
  <2>2. /\ r \in deleter.todo /\ stored' = stored \ PointsOf(r) /\ deleter.pc = "row"
        /\ UNCHANGED <<raced, pc, events>>
    BY <1>8 DEF DeleteRow
  <2>3. \A p \in stored' \ raced' : p \in stored \ raced /\ RowOf[p] # r
    BY <2>2 DEF PointsOf
  <2> QED
    BY <2>1, <2>2, <2>3 DEF DeleteInv, Working, Elements, IndexWrites, NameIndexWrites
<1>9. ASSUME NEW r \in Rows, DeleteRowKey(r)
      PROVE  DeleteInv'
  <2>1. /\ deleter'.pc = IF deleter.kind \in Tagged THEN "row" ELSE "time"
        /\ deleter'.kind = deleter.kind
        /\ deleter'.metric = deleter.metric /\ deleter'.row = deleter.row
        /\ deleter'.todo = deleter.todo
        /\ deleter'.gone = deleter.gone \cup {RowWrite(r)}
    BY <1>9 DEF DeleteRowKey, DeleterOK
  <2>2. deleter.pc = "key" /\ deleter.row = {r} /\ UNCHANGED <<stored, raced, pc, events>>
    BY <1>9 DEF DeleteRowKey, workerVars, history
  <2>3. \A p \in stored \ raced : RowOf[p] # r
    BY <2>2 DEF DeleteInv
  <2>4. \A s \in Rows : s # r => RowWrite(r) \notin IndexWrites(s) /\ RowWrite(r) # RowWrite(s)
    BY DEF IndexWrites, NameIndexWrites, RowWrite, TimeWrite, StringWrite
  <2>5. /\ \A n \in Names : RowWrite(r) # TimeWrite(n)
        /\ \A m \in Metrics : RowWrite(r) # StringWrite(m)
    BY DEF RowWrite, TimeWrite, StringWrite
  <2> QED
    BY <2>1, <2>2, <2>3, <2>4, <2>5, SetsAssumption
    DEF DeleteInv, Working, Elements, IndexWrites, NameIndexWrites
<1>10. ASSUME NEW r \in Rows, DeleteRowTime(r)
       PROVE  DeleteInv'
  <2>1. /\ deleter'.pc = "row" /\ deleter'.kind = deleter.kind
        /\ deleter'.metric = deleter.metric /\ deleter'.row = deleter.row
        /\ deleter'.todo = deleter.todo
        /\ deleter'.gone = deleter.gone \cup {TimeWrite(NameOf[r])}
    BY <1>10 DEF DeleteRowTime, DeleterOK
  <2>2. deleter.pc = "time" /\ deleter.row = {r} /\ UNCHANGED <<stored, raced, pc, events>>
    BY <1>10 DEF DeleteRowTime, workerVars, history
  <2>3. ASSUME NEW p \in stored \ raced, TimeWrite(NameOf[r]) \in IndexWrites(RowOf[p])
        PROVE  RowOf[p] \in deleter.todo
    <3>1. NameOf[RowOf[p]] = NameOf[r] /\ "frame" \notin DeleteKinds
      BY <2>3 DEF IndexWrites, NameIndexWrites, RowWrite, TimeWrite, StringWrite
    <3>2. deleter.kind = "all"
      BY <2>2, <3>1, BoundsAssumption DEF DeleteInv, Tagged
    <3> QED
      BY <2>2, <3>1, <3>2 DEF DeleteInv
  <2>4. \A p \in stored \ raced : RowWrite(RowOf[p]) # TimeWrite(NameOf[r])
    BY DEF RowWrite, TimeWrite
  <2>5. \A m \in Metrics : TimeWrite(NameOf[r]) # StringWrite(m)
    BY DEF TimeWrite, StringWrite
  <2>6. deleter.kind \notin Tagged
    BY <2>2 DEF DeleteInv
  <2>7. \A p \in stored' \ raced' : \A x \in IndexWrites(RowOf[p]) \cap deleter'.gone :
            RowOf[p] \in deleter'.todo
    BY <2>1, <2>2, <2>3 DEF DeleteInv
  <2> QED
    BY <2>1, <2>2, <2>4, <2>5, <2>6, <2>7 DEF DeleteInv, Working, Elements
<1>11. ASSUME NEW m \in Metrics, DeleteMetricName(m)
       PROVE  DeleteInv'
  <2>1. /\ deleter'.pc = "caches" /\ deleter'.kind = deleter.kind
        /\ deleter'.metric = deleter.metric /\ deleter'.row = deleter.row
        /\ deleter'.todo = deleter.todo /\ deleter'.gone = deleter.gone /\ deleter'.clear
    BY <1>11 DEF DeleteMetricName, DeleterOK
  <2>2. /\ deleter.pc = "row" /\ deleter.kind \in AllTimes /\ deleter.todo = {}
        /\ UNCHANGED <<stored, raced, pc, events>>
    BY <1>11 DEF DeleteMetricName, workerVars, history
  <2> QED
    BY <2>1, <2>2 DEF DeleteInv, Working, Elements, IndexWrites, NameIndexWrites
<1>12. CASE EndDelete \/ DeleteFails
  <2>1. deleter' = IdleDeleter
    BY <1>12 DEF EndDelete, DeleteFails
  <2> QED
    BY <2>1 DEF DeleteInv, IdleDeleter, Tagged
<1>13. ASSUME NEW w \in Workers, SkipExpired(w)
       PROVE  DeleteInv'
  <2>1. stored' \subseteq stored /\ UNCHANGED <<deleter, raced, pc, events>>
    BY <1>13 DEF SkipExpired
  <2> QED
    BY <2>1, DeleteUnchanged
<1> QED
  BY <1>1, <1>2, <1>3, <1>4, <1>5, <1>6, <1>7, <1>8, <1>9, <1>10, <1>11, <1>12, <1>13
  DEF Next, Work

-----------------------------------------------------------------------------
(* The index writes of a name are what a batch with this name will send.   *)
LEMMA NameWritesSent ==
    ASSUME TypeInv, NamesInv, BatchInv, NEW w \in Workers, NEW n \in batch[w].times,
           pc[w] \in {"load", "name", "points"}, NEW x \in NameIndexWrites(n)
    PROVE  x \in BatchWrites(w)
<1>1. n \in FilteredNames \/ n \in batch[w].names
  BY DEF NamesInv
<1> QED
  BY <1>1 DEF NameIndexWrites, BatchWrites, MetricNamesBatch, RowKeyBatch

(* What is written to an index stays there in every step of a worker.      *)
LEMMA NameByWorker ==
    ASSUME NEW n, NEW x, NameAnswered(n, x), NEW w \in Workers,
           UNCHANGED <<rowKeys, timeIndex, stringIndex, deleter>>, lost \subseteq lost',
           \A v \in Workers \ {w} : /\ pc'[v] = pc[v] /\ batch'[v].names = batch[v].names
                                    /\ batch'[v].times = batch[v].times
                                    /\ owed'[v] = owed[v] /\ flying'[v] = flying[v],
           UNION flying[Detached] \subseteq UNION flying'[Detached],
           NameHeld(w, n, x) => NameAnswered(n, x)'
    PROVE  NameAnswered(n, x)'
<1>1. CASE Written(x) \/ x \in lost \/ x \in UNION flying[Detached]
           \/ (x \in deleter.gone /\ deleter.pc # "caches")
  BY <1>1 DEF NameAnswered, Written
<1>2. CASE \E v \in Workers \ {w} : NameHeld(v, n, x)
  <2>1. PICK v \in Workers \ {w} : NameHeld(v, n, x)
    BY <1>2
  <2>2. NameHeld(v, n, x)'
    BY <2>1 DEF NameHeld
  <2> QED
    BY <2>2 DEF NameAnswered
<1> QED
  BY <1>1, <1>2 DEF NameAnswered

(* Whoever stops to answer for a cached name has handed it on, or takes it *)
(* out of the cache.                                                       *)
LEMMA NameCacheStep ==
    ASSUME TypeInv, StatementsInv, NamesInv, GoneInv, BatchInv, DeleteInv, NameCacheInv, Next
    PROVE  NameCacheInv'
<1> USE DEF TypeInv, TypeOK, TablesOK, WorkersOK
<1>1. ASSUME NEW w \in Workers, NEW evs \in Batches, Submit(w, evs)
      PROVE  NameCacheInv'
  <2> SUFFICES ASSUME NEW n \in nameCache, NEW x \in NameIndexWrites(n)
               PROVE  NameAnswered(n, x)'
    BY <1>1 DEF NameCacheInv, Submit, caches
  <2>1. NameAnswered(n, x)
    BY DEF NameCacheInv
  <2>2. ~NameHeld(w, n, x)
    BY <1>1 DEF Submit, NameHeld, StatementsInv
  <2> QED
    BY <1>1, <2>1, <2>2, NameByWorker DEF Submit, tables
<1>2. ASSUME NEW w \in Workers, RowKeyCached(w) \/ AddRowKey(w)
      PROVE  NameCacheInv'
  <2> SUFFICES ASSUME NEW n \in nameCache, NEW x \in NameIndexWrites(n)
               PROVE  NameAnswered(n, x)'
    BY <1>2 DEF NameCacheInv, RowKeyCached, AddRowKey
  <2>1. NameAnswered(n, x)
    BY DEF NameCacheInv
  <2>2. batch'[w].times = batch[w].times /\ pc'[w] \in {"load", "name"}
    <3>1. CASE RowKeyCached(w)
      BY <3>1 DEF RowKeyCached, AddDataPoint, BatchRecords
    <3>2. CASE AddRowKey(w)
      BY <3>2 DEF AddRowKey, BatchRecords
    <3> QED
      BY <1>2, <3>1, <3>2
  <2>3. NameHeld(w, n, x) => NameAnswered(n, x)'
    BY <1>2, <2>2 DEF NameHeld, NameAnswered, RowKeyCached, AddRowKey
  <2> QED
    BY <1>2, <2>1, <2>3, NameByWorker
    DEF RowKeyCached, AddRowKey, AddDataPoint, tables, history
<1>3. ASSUME NEW w \in Workers, AddMetricName(w)
      PROVE  NameCacheInv'
  <2> SUFFICES ASSUME NEW n \in nameCache', NEW x \in NameIndexWrites(n)
               PROVE  NameAnswered(n, x)'
    BY DEF NameCacheInv
  <2> DEFINE new == IF Name(w) \in nameCache THEN {} ELSE {Name(w)}
  <2>1. /\ batch'[w].times = batch[w].times \cup new
        /\ pc[w] = "name" /\ pc'[w] = "load" /\ flying' = flying
    BY <1>3 DEF AddMetricName, AddDataPoint, BatchRecords
  <2>2. n \in nameCache \/ n = Name(w)
    <3>1. Name(w) \in Names
      BY <1>3, PointTypes DEF AddMetricName, EventsInv
    <3> QED
      BY <1>3, <3>1, CacheItemBounded, SizesAssumption DEF AddMetricName, CachesInv, CachesOK
  <2>4. CASE n \in nameCache
    <3>1. NameAnswered(n, x)
      BY <2>4 DEF NameCacheInv
    <3>2. NameHeld(w, n, x) => NameAnswered(n, x)'
      BY <2>1 DEF NameHeld, NameAnswered
    <3> QED
      BY <1>3, <3>1, <3>2, NameByWorker DEF AddMetricName, AddDataPoint, tables, history
  <2>5. CASE n \notin nameCache
    <3>1. NameHeld(w, n, x)'
      BY <2>1, <2>2, <2>5 DEF NameHeld
    <3> QED
      BY <3>1 DEF NameAnswered
  <2> QED
    BY <2>4, <2>5
<1>4. ASSUME NEW w \in Workers, SendIndexWrites(w)
      PROVE  NameCacheInv'
  <2> SUFFICES ASSUME NEW n \in nameCache, NEW x \in NameIndexWrites(n)
               PROVE  NameAnswered(n, x)'
    BY <1>4 DEF NameCacheInv, SendIndexWrites, caches
  <2>1. NameAnswered(n, x)
    BY DEF NameCacheInv
  <2>2. ASSUME NameHeld(w, n, x)
        PROVE  NameAnswered(n, x)'
    <3>1. x \in BatchWrites(w)
      BY <1>4, <2>2, NameWritesSent DEF NameHeld, SendIndexWrites
    <3>2. x \in UNION flying'[w] /\ n \in batch'[w].times
      BY <1>4, <2>2, <3>1 DEF SendIndexWrites, BatchWrites, NameHeld, Owners
    <3> QED
      BY <3>2 DEF NameHeld, NameAnswered
  <2> QED
    BY <1>4, <2>1, <2>2, NameByWorker, SetsAssumption
    DEF SendIndexWrites, tables, history, Owners
<1>5. ASSUME NEW w \in Workers, NEW r \in Rows, WriteDataPoints(w, r)
      PROVE  NameCacheInv'
  <2> SUFFICES ASSUME NEW n \in nameCache, NEW x \in NameIndexWrites(n)
               PROVE  NameAnswered(n, x)'
    BY <1>5 DEF NameCacheInv, WriteDataPoints, caches
  <2>1. NameAnswered(n, x)
    BY DEF NameCacheInv
  <2>2. NameHeld(w, n, x) => NameAnswered(n, x)'
    BY <1>5 DEF WriteDataPoints, NameHeld, NameAnswered, BatchRecords
  <2> QED
    BY <1>5, <2>1, <2>2, NameByWorker DEF WriteDataPoints
<1>6. ASSUME NEW w \in Workers, BatchSent(w)
      PROVE  NameCacheInv'
  <2> SUFFICES ASSUME NEW n \in nameCache, NEW x \in NameIndexWrites(n)
               PROVE  NameAnswered(n, x)'
    BY <1>6 DEF NameCacheInv, BatchSent, caches
  <2>1. NameAnswered(n, x)
    BY DEF NameCacheInv
  <2>2. flying' = [flying EXCEPT ![w] = {}, ![Detached] = @ \cup flying[w]] /\ pc[w] = "points"
    BY <1>6 DEF BatchSent
  <2>3. flying'[Detached] = flying[Detached] \cup flying[w]
        /\ \A v \in Workers \ {w} : flying'[v] = flying[v]
    BY <2>2, SetsAssumption DEF Owners
  <2>4. NameHeld(w, n, x) => NameAnswered(n, x)'
    BY <2>2, <2>3 DEF NameHeld, NameAnswered
  <2> QED
    BY <1>6, <2>1, <2>3, <2>4, NameByWorker DEF BatchSent, tables, history
<1>7. ASSUME NEW w \in Workers, LoadFails(w)
      PROVE  NameCacheInv'
  <2> SUFFICES ASSUME NEW n \in nameCache, NEW x \in NameIndexWrites(n)
               PROVE  NameAnswered(n, x)'
    BY <1>7 DEF NameCacheInv, LoadFails, caches
  <2>1. NameAnswered(n, x)
    BY DEF NameCacheInv
  <2>2. ASSUME NameHeld(w, n, x)
        PROVE  NameAnswered(n, x)'
    <3>1. n \in batch[w].times /\ pc[w] \in {"load", "name"}
      BY <1>7, <2>2 DEF NameHeld, LoadFails
    <3>2. CASE n \in batch[w].names
      <4>1. x \in BatchWrites(w)
        BY <3>1, NameWritesSent
      <4>2. x \in owed'[w] /\ n \in batch'[w].names /\ pc'[w] = "clear"
        BY <1>7, <3>2, <4>1 DEF LoadFails, Fails, BatchWrites, BatchRecords
      <4> QED
        BY <4>2 DEF NameHeld, NameAnswered
    <3>3. CASE n \notin batch[w].names
      <4>1. n \in FilteredNames
        BY <3>1, <3>3 DEF NamesInv
      <4>2. x = TimeWrite(n)
        BY <4>1 DEF NameIndexWrites
      <4>3. x \in lost'
        BY <1>7, <3>1, <4>1, <4>2 DEF LoadFails, RowKeyBatch, FilteredWrites
      <4> QED
        BY <4>3 DEF NameAnswered
    <3> QED
      BY <3>2, <3>3
  <2> QED
    BY <1>7, <2>1, <2>2, NameByWorker DEF LoadFails, Fails, tables, history
<1>8. ASSUME NEW w \in Workers, Outage(w) \/ Rejected(w)
      PROVE  NameCacheInv'
  <2> SUFFICES ASSUME NEW n \in nameCache, NEW x \in NameIndexWrites(n)
               PROVE  NameAnswered(n, x)'
    BY <1>8 DEF NameCacheInv, Outage, Rejected, caches
  <2>1. NameAnswered(n, x)
    BY DEF NameCacheInv
  <2>2. PICK survivors \in SUBSET flying[w] :
            /\ flying' = [flying EXCEPT ![w] = {}, ![Detached] = @ \cup survivors]
            /\ UNION (flying[w] \ survivors) \subseteq owed'[w]
            /\ FilteredWrites \cap UNION (flying[w] \ survivors) \subseteq lost'
    <3>1. CASE Outage(w)
      <4>1. PICK survivors \in SUBSET flying[w] :
                /\ flying' = [flying EXCEPT ![w] = {}, ![Detached] = @ \cup survivors]
                /\ owed' = [owed EXCEPT ![w] = @ \cup UNION (flying[w] \ survivors)]
                /\ lost' = lost \cup (FilteredWrites \cap UNION (flying[w] \ survivors))
        BY <3>1 DEF Outage
      <4>2. UNION (flying[w] \ survivors) \subseteq owed'[w]
        BY <4>1
      <4> QED
        BY <4>1, <4>2
    <3>2. CASE Rejected(w)
      BY ZenonT(60), <3>2, UNION (flying[w] \ flying[w]) = {} DEF Rejected
    <3> QED
      BY <1>8, <3>1, <3>2
  <2>3. flying'[Detached] = flying[Detached] \cup survivors
        /\ \A v \in Workers \ {w} : flying'[v] = flying[v]
    BY <2>2, SetsAssumption DEF Owners
  <2>4. ASSUME NameHeld(w, n, x)
        PROVE  NameAnswered(n, x)'
    <3>1. x \in UNION flying[w] /\ n \in batch[w].times
      BY <1>8, <2>4 DEF NameHeld, Outage, Rejected
    <3>2. pc'[w] = "clear" /\ batch'[w].names = batch[w].names
      BY <1>8 DEF Outage, Rejected, Fails, BatchRecords
    <3>3. x \in UNION flying'[Detached] \/ x \in UNION (flying[w] \ survivors)
      BY <2>3, <3>1
    <3>4. CASE n \in batch[w].names
      BY <2>2, <3>2, <3>3, <3>4 DEF NameHeld, NameAnswered
    <3>5. CASE n \notin batch[w].names
      <4>1. n \in FilteredNames
        BY <1>8, <3>1, <3>5 DEF NamesInv, Outage, Rejected
      <4>2. x \in FilteredWrites
        BY <4>1 DEF NameIndexWrites, FilteredWrites
      <4> QED
        BY <2>2, <3>3, <4>2 DEF NameAnswered
    <3> QED
      BY <3>4, <3>5
  <2> QED
    BY <1>8, <2>1, <2>3, <2>4, NameByWorker DEF Outage, Rejected, Fails, tables, history
<1>9. ASSUME NEW w \in Workers, NEW m \in Names, ClearMetricName(w, m)
      PROVE  NameCacheInv'
  <2> SUFFICES ASSUME NEW n \in nameCache, n # m, NEW x \in NameIndexWrites(n)
               PROVE  NameAnswered(n, x)'
    BY <1>9 DEF NameCacheInv, ClearMetricName
  <2>1. NameAnswered(n, x)
    BY DEF NameCacheInv
  <2>2. NameHeld(w, n, x) => NameAnswered(n, x)'
    BY <1>9 DEF ClearMetricName, NameHeld, NameAnswered, BatchRecords, StatementsInv
  <2> QED
    BY <1>9, <2>1, <2>2, NameByWorker DEF ClearMetricName, tables, history
<1>10. ASSUME NEW w \in Workers, NEW r \in Rows, ClearRowKey(w, r)
       PROVE  NameCacheInv'
  <2> SUFFICES ASSUME NEW n \in nameCache, NEW x \in NameIndexWrites(n)
               PROVE  NameAnswered(n, x)'
    BY <1>10 DEF NameCacheInv, ClearRowKey
  <2>1. NameAnswered(n, x)
    BY DEF NameCacheInv
  <2>2. NameHeld(w, n, x) => NameAnswered(n, x)'
    BY <1>10 DEF ClearRowKey, NameHeld, NameAnswered, BatchRecords, StatementsInv
  <2> QED
    BY <1>10, <2>1, <2>2, NameByWorker DEF ClearRowKey, tables, history
<1>11. ASSUME NEW w \in Workers, Retry(w) \/ RetrySmaller(w) \/ GiveUp(w) \/ Complete(w)
       PROVE  NameCacheInv'
  <2> SUFFICES ASSUME NEW n \in nameCache, NEW x \in NameIndexWrites(n)
               PROVE  NameAnswered(n, x)'
    BY <1>11 DEF NameCacheInv, Retry, RetrySmaller, StartOver, GiveUp, Complete, caches
  <2>1. NameAnswered(n, x)
    BY DEF NameCacheInv
  <2>2. ~NameHeld(w, n, x)
    BY <1>11 DEF Retry, RetrySmaller, GiveUp, Cleared, Complete, NameHeld, StatementsInv
  <2> QED
    BY ZenonT(60), <1>11, <2>1, <2>2, NameByWorker
    DEF Retry, RetrySmaller, StartOver, GiveUp, Complete, tables, history
<1>12. ASSUME NEW o \in Owners, NEW stmt \in flying[o], Land(o, stmt) \/ LoseStatement(o, stmt)
       PROVE  NameCacheInv'
  <2> SUFFICES ASSUME NEW n \in nameCache, NEW x \in NameIndexWrites(n)
               PROVE  NameAnswered(n, x)'
    BY <1>12 DEF NameCacheInv, Land, LoseStatement, caches
  <2>1. NameAnswered(n, x)
    BY DEF NameCacheInv
  <2>2. CASE x \in stmt
    <3>1. n \in Names
      BY DEF CachesInv, CachesOK
    <3> QED
      BY <1>12, <2>2, <3>1, SetsAssumption
      DEF Land, LoseStatement, NameAnswered, Written, NameIndexWrites
  <2>3. CASE x \notin stmt
    <3>1. \A owner \in Owners : x \in UNION flying[owner] => x \in UNION flying'[owner]
      <4> SUFFICES ASSUME NEW owner \in Owners, NEW other \in flying[owner], x \in other
                   PROVE  other \in flying'[owner]
        OBVIOUS
      <4>1. flying' = [flying EXCEPT ![o] = @ \ {stmt}]
        BY <1>12 DEF Land, LoseStatement
      <4> QED
        BY <2>3, <4>1
    <3>2. x \in lost => x \in lost'
      BY <1>12, <2>3 DEF Land, LoseStatement
    <3>3. Written(x) => Written(x)'
      BY <1>12 DEF Land, LoseStatement, Written, tables
    <3> QED
      BY <1>12, <2>1, <3>1, <3>2, <3>3
      DEF Land, LoseStatement, NameAnswered, NameHeld, workerVars, Owners
  <2> QED
    BY <2>2, <2>3
<1>13. ASSUME NEW kind \in DeleteKinds, NEW m \in Metrics,
              NEW rows \in Selections(kind, m), StartDelete(kind, m, rows)
       PROVE  NameCacheInv'
  <2> SUFFICES ASSUME NEW n \in nameCache, NEW x \in NameIndexWrites(n)
               PROVE  NameAnswered(n, x)'
    BY <1>13 DEF NameCacheInv, StartDelete, caches
  <2>1. NameAnswered(n, x) /\ x \notin deleter.gone
    BY <1>13 DEF NameCacheInv, GoneInv, StartDelete
  <2> QED
    BY <1>13, <2>1
    DEF StartDelete, NameAnswered, NameHeld, Written, tables, workerVars
<1>14. ASSUME NEW r \in Rows, DeleteRow(r)
       PROVE  NameCacheInv'
  <2> SUFFICES ASSUME NEW n \in nameCache, NEW x \in NameIndexWrites(n)
               PROVE  NameAnswered(n, x)'
    BY <1>14 DEF NameCacheInv, DeleteRow, caches
  <2>1. NameAnswered(n, x)
    BY DEF NameCacheInv
  <2>2. \A w \in Workers : batch'[w].names = batch[w].names /\ batch'[w].times = batch[w].times
    BY <1>14 DEF DeleteRow, BatchRecords
  <2>3. deleter'.gone = deleter.gone /\ deleter'.pc = "key"
    BY <1>14 DEF DeleteRow, DeleterOK
  <2> QED
    BY <1>14, <2>1, <2>2, <2>3 DEF DeleteRow, NameAnswered, NameHeld, Written
<1>15. ASSUME NEW y, Hides(y), UNCHANGED <<workerVars, lost>>,
              deleter'.pc # "caches", deleter'.gone = deleter.gone \cup {y},
              \A x : Written(x) /\ x # y => Written(x)',
              nameCache' = nameCache
       PROVE  NameCacheInv'
  <2> SUFFICES ASSUME NEW n \in nameCache, NEW x \in NameIndexWrites(n), x # y
               PROVE  NameAnswered(n, x)'
    BY <1>15 DEF NameCacheInv, NameAnswered
  <2>1. NameAnswered(n, x)
    BY DEF NameCacheInv
  <2>2. \A owner \in Owners : x \in UNION flying[owner] => x \in UNION flying'[owner]
    <3> SUFFICES ASSUME NEW owner \in Owners, NEW stmt \in flying[owner], x \in stmt
                 PROVE  x \in UNION flying'[owner]
      OBVIOUS
    <3>1. stmt \ {y} \in flying'[owner]
      BY <1>15 DEF Hides
    <3> QED
      BY <3>1
  <2> QED
    BY <1>15, <2>1, <2>2 DEF NameAnswered, NameHeld, workerVars, Owners
<1>16. ASSUME NEW r \in Rows, DeleteRowKey(r) \/ DeleteRowTime(r)
       PROVE  NameCacheInv'
  <2>1. CASE DeleteRowKey(r)
    <3>1. deleter'.pc # "caches" /\ deleter'.gone = deleter.gone \cup {RowWrite(r)}
      BY <2>1 DEF DeleteRowKey, DeleterOK
    <3>2. \A x : Written(x) /\ x # RowWrite(r) => Written(x)'
      BY <2>1 DEF DeleteRowKey, Written
    <3> QED
      BY <1>15, <2>1, <3>1, <3>2 DEF DeleteRowKey, caches, history
  <2>2. CASE DeleteRowTime(r)
    <3>1. deleter'.pc # "caches" /\ deleter'.gone = deleter.gone \cup {TimeWrite(NameOf[r])}
      BY <2>2 DEF DeleteRowTime, DeleterOK
    <3>2. \A x : Written(x) /\ x # TimeWrite(NameOf[r]) => Written(x)'
      BY <2>2 DEF DeleteRowTime, Written
    <3> QED
      BY <1>15, <2>2, <3>1, <3>2 DEF DeleteRowTime, caches, history
  <2> QED
    BY <1>16, <2>1, <2>2
<1>17. ASSUME NEW m \in Metrics, DeleteMetricName(m)
       PROVE  NameCacheInv'
  BY <1>17 DEF DeleteMetricName, NameCacheInv
<1>18. CASE EndDelete
  <2> SUFFICES ASSUME NEW n \in nameCache, NEW x \in NameIndexWrites(n)
               PROVE  NameAnswered(n, x)'
    BY <1>18 DEF NameCacheInv, EndDelete
  <2>1. NameAnswered(n, x)
    BY DEF NameCacheInv
  <2>2. x \in deleter.gone => deleter.pc = "caches"
    <3>1. n \in Names /\ MetricOf[n] \in Metrics
      BY SetsAssumption DEF CachesInv, CachesOK
    <3>2. CASE x = StringWrite(MetricOf[n])
      BY <3>1, <3>2 DEF DeleteInv
    <3>3. CASE x = TimeWrite(n) /\ "frame" \notin DeleteKinds /\ deleter.pc # "caches"
      <4>1. deleter.kind \in Tagged
        BY <1>18, <3>3, BoundsAssumption DEF EndDelete, DeleteInv, Tagged, AllTimes
      <4> QED
        BY <3>1, <3>3, <4>1 DEF DeleteInv
    <3> QED
      BY <3>2, <3>3 DEF NameIndexWrites
  <2> QED
    BY <1>18, <2>1, <2>2 DEF EndDelete, NameAnswered, NameHeld, Written, tables, workerVars, history
<1>19. CASE DeleteFails
  BY <1>19
  DEF DeleteFails, NameCacheInv, NameAnswered, NameHeld, Written, caches, tables, workerVars
<1>20. ASSUME NEW r \in Rows, CleanRowKeyCache(r)
       PROVE  NameCacheInv'
  BY SMTT(30), <1>20
  DEF CleanRowKeyCache, NameCacheInv, NameAnswered, NameHeld, Written, tables, workerVars,
      history
<1>21. ASSUME NEW w \in Workers, SkipExpired(w)
       PROVE  NameCacheInv'
  <2> SUFFICES ASSUME NEW n \in nameCache, NEW x \in NameIndexWrites(n)
               PROVE  NameAnswered(n, x)'
    BY <1>21 DEF NameCacheInv, SkipExpired, caches
  <2>1. NameAnswered(n, x)
    BY DEF NameCacheInv
  <2>2. batch'[w].names = batch[w].names /\ batch'[w].times = batch[w].times
    BY <1>21 DEF SkipExpired, BatchRecords
  <2>3. NameHeld(w, n, x) => NameAnswered(n, x)'
    BY <1>21, <2>2 DEF SkipExpired, NameHeld, NameAnswered
  <2> QED
    BY <1>21, <2>1, <2>3, NameByWorker DEF SkipExpired
<1> QED
  BY <1>1, <1>2, <1>3, <1>4, <1>5, <1>6, <1>7, <1>8, <1>9, <1>10, <1>11, <1>12, <1>13,
     <1>14, <1>16, <1>17, <1>18, <1>19, <1>20, <1>21
  DEF Next, Work

-----------------------------------------------------------------------------
(* A cached name is covered, whoever answers for it.                       *)
LEMMA NameCovered ==
    TypeInv /\ NamesInv /\ BatchInv /\ NameCacheInv =>
        \A n \in nameCache : \A x \in NameIndexWrites(n) : Covered(x)
<1> SUFFICES ASSUME TypeInv, NamesInv, BatchInv, NameCacheInv,
                    NEW n \in nameCache, NEW x \in NameIndexWrites(n)
             PROVE  Covered(x)
  OBVIOUS
<1>1. NameAnswered(n, x)
  BY DEF NameCacheInv
<1>2. ASSUME NEW w \in Workers, NameHeld(w, n, x)
      PROVE  Covered(x)
  <2>1. CASE pc[w] \in {"load", "name"}
    BY <1>2, <2>1, NameWritesSent DEF NameHeld, Covered, Answered, Writing
  <2>2. CASE x \in UNION flying[w]
    BY <2>2 DEF Covered, Answered, IsFlying, Owners
  <2>3. CASE n \in batch[w].names /\ pc[w] = "clear" /\ x \in owed[w]
    <3>1. PICK r \in batch[w].rows : NameOf[r] = n
      BY <2>3 DEF BatchInv, BatchConsistent
    <3>2. r \in Rows /\ r \in RowsOf(w)
      BY <3>1 DEF BatchInv, BatchConsistent, TypeInv, TypeOK, WorkersOK, BatchRecords
    <3> QED
      BY <2>3, <3>1, <3>2 DEF Covered, Answered, WritesAgain, Meets, IndexWrites
  <2> QED
    BY <1>2, <2>1, <2>2, <2>3 DEF NameHeld
<1> QED
  BY <1>1, <1>2 DEF NameAnswered, Covered, Answered, Excused, IsFlying, Owners

LEMMA NameCoveredNext ==
    (TypeInv /\ NamesInv /\ BatchInv /\ NameCacheInv =>
        \A n \in nameCache : \A x \in NameIndexWrites(n) : Covered(x))'
BY NameCovered, PTL

(* The batch that writes an entry of an index has a row key that needs it. *)
LEMMA BatchNeeds ==
    ASSUME TypeInv, BatchInv, NEW w \in Workers, pc[w] \in {"load", "name", "points"},
           NEW r \in Rows, NEW x \in IndexWrites(r), x \in BatchWrites(w)
    PROVE  \E s \in batch[w].rows : s \in Rows /\ s \in RowsOf(w) /\ x \in IndexWrites(s)
<1>1. /\ batch[w].rows \subseteq Rows /\ batch[w].rows \subseteq RowsOf(w)
      /\ batch[w].names \subseteq Names /\ batch[w].times \subseteq Names
  BY DEF BatchInv, BatchConsistent, TypeInv, TypeOK, WorkersOK, BatchRecords
<1>2. CASE x \in {RowWrite(s) : s \in batch[w].rows}
  BY <1>1, <1>2 DEF IndexWrites
<1>3. CASE x \in {TimeWrite(n) : n \in batch[w].times}
  <2>1. PICK n \in batch[w].times : x = TimeWrite(n)
    BY <1>3
  <2>2. PICK s \in batch[w].rows : NameOf[s] = n
    BY DEF BatchInv, BatchConsistent
  <2>3. NameOf[r] = n /\ x # RowWrite(r)
    BY <2>1 DEF IndexWrites, NameIndexWrites, RowWrite, TimeWrite, StringWrite
  <2> QED
    BY <1>1, <2>2, <2>3 DEF IndexWrites
<1>4. CASE x \in {StringWrite(MetricOf[n]) : n \in batch[w].names}
  <2>1. PICK n \in batch[w].names : x = StringWrite(MetricOf[n])
    BY <1>4
  <2>2. PICK s \in batch[w].rows : NameOf[s] = n
    BY DEF BatchInv, BatchConsistent
  <2>3. n \notin FilteredNames
    BY DEF BatchInv, BatchConsistent
  <2>4. "alltags" \notin DeleteKinds
    BY <2>1 DEF IndexWrites, NameIndexWrites, RowWrite, TimeWrite, StringWrite
  <2> QED
    BY <1>1, <2>1, <2>2, <2>3, <2>4 DEF IndexWrites, NameIndexWrites
<1> QED
  BY <1>2, <1>3, <1>4 DEF BatchWrites, MetricNamesBatch, RowKeyBatch

(* A write that is covered stays so in a step of one worker, if this worker  *)
(* still answers for it or somebody else does, and caches no row key that  *)
(* needs it for nothing.                                                   *)
LEMMA CoveredByWorker ==
    ASSUME NEW x, Covered(x), NEW w \in Workers,
           UNCHANGED <<rowKeys, timeIndex, stringIndex, deleter>>, lost \subseteq lost',
           \A v \in Workers \ {w} :
               /\ pc'[v] = pc[v] /\ events'[v] = events[v] /\ next'[v] = next[v]
               /\ batch'[v] = batch[v] /\ owed'[v] = owed[v],
           \/ rowCache' \subseteq rowCache
           \/ \A r \in Rows : r \in rowCache' /\ x \in IndexWrites(r) =>
                                  r \in rowCache \/ Covered(x)',
           flying' = flying \/ (IsFlying(x) => Covered(x)'),
           Writing(w, x) \/ WritesAgain(w, x) => Covered(x)'
    PROVE  Covered(x)'
<1>1. CASE Written(x) \/ x \in lost \/ Excused(x)
  BY <1>1 DEF Covered, Answered, Written, Excused
<1>2. CASE \E v \in Workers \ {w} : Writing(v, x)
  <2>1. PICK v \in Workers \ {w} : Writing(v, x)
    BY <1>2
  <2>2. BatchWrites(v)' = BatchWrites(v) /\ Row(v)' = Row(v)
    BY DEF BatchWrites, MetricNamesBatch, RowKeyBatch, Row, Point
  <2>3. Writing(v, x)'
    BY <2>1, <2>2 DEF Writing
  <2> QED
    BY <2>3 DEF Covered, Answered
<1>3. CASE \E v \in Workers \ {w} : WritesAgain(v, x)
  <2>1. PICK v \in Workers \ {w}, r \in Rows : x \in owed[v] /\ x \in IndexWrites(r) /\ Meets(v, r)
    BY <1>3 DEF WritesAgain
  <2>2. CASE r \in rowCache' => r \in rowCache
    <3>1. Meets(v, r)'
      BY <2>1, <2>2 DEF Meets, RowsOf
    <3> QED
      BY <2>1, <3>1 DEF WritesAgain, Covered, Answered
  <2> QED
    BY <2>1, <2>2
<1> QED
  BY <1>1, <1>2, <1>3 DEF Covered, Answered, IsFlying

(* A batch that fails leaves what it would have written to the worker, which *)
(* will write it again: the row keys that need it are still in the batch.  *)
LEMMA OwedWrites ==
    ASSUME TypeInv, BatchInv, NEW w \in Workers, pc[w] \in {"load", "name", "points"},
           NEW r \in Rows, NEW x \in IndexWrites(r), x \in BatchWrites(w),
           x \in owed'[w], pc'[w] = "clear", events'[w] = events[w],
           batch'[w].rows = batch[w].rows
    PROVE  Covered(x)'
<1>1. PICK s \in batch[w].rows : s \in Rows /\ s \in RowsOf(w) /\ x \in IndexWrites(s)
  BY BatchNeeds
<1>2. Meets(w, s)'
  BY <1>1 DEF Meets, RowsOf
<1> QED
  BY <1>1, <1>2 DEF WritesAgain, Covered, Answered

(* What it owed before, it owes still, and has all of its events before it *)
(* again.                                                                  *)
LEMMA OwedBefore ==
    ASSUME WorkersOK, NEW w \in Workers, pc[w] \in {"load", "name", "points"}, NEW x,
           WritesAgain(w, x), owed[w] \subseteq owed'[w], pc'[w] = "clear",
           events'[w] = events[w], rowCache' = rowCache
    PROVE  Covered(x)'
<1>1. PICK r \in Rows : x \in IndexWrites(r) /\ Meets(w, r)
  BY DEF WritesAgain
<1>2. r \in RowsOf(w) /\ r \notin rowCache
  BY <1>1 DEF Meets, RowsOf
<1>3. Meets(w, r)'
  BY <1>2 DEF Meets, RowsOf
<1> QED
  BY <1>1, <1>3 DEF WritesAgain, Covered, Answered

(* As long as no delete ends, nobody stops to answer for an index write    *)
(* without another to answer for it.                                       *)
LEMMA CoveredStep ==
    ASSUME TypeInv, StatementsInv, NamesInv, GoneInv, BatchInv, DeleteInv, Next, ~EndDelete,
           TypeInv', NamesInv', BatchInv', NameCacheInv',
           NEW r \in Rows, NEW x \in IndexWrites(r), Covered(x)
    PROVE  Covered(x)'
<1> USE DEF TypeInv, TypeOK, TablesOK, WorkersOK
<1>1. ASSUME NEW w \in Workers, NEW evs \in Batches, Submit(w, evs)
      PROVE  Covered(x)'
  <2>1. ~Writing(w, x) /\ ~WritesAgain(w, x)
    BY <1>1 DEF Submit, Writing, WritesAgain, Meets
  <2> QED
    BY <1>1, <2>1, CoveredByWorker DEF Submit, caches, tables
<1>2. ASSUME NEW w \in Workers, RowKeyCached(w)
      PROVE  Covered(x)'
  <2>1. rowCache' \subseteq rowCache /\ Row(w) \in rowCache
    <3>1. Row(w) \in Rows
      BY <1>2, PointTypes DEF RowKeyCached, HasMore
    <3> QED
      BY <1>2, <3>1, CacheItemBounded, SizesAssumption DEF RowKeyCached, CachesInv, CachesOK
  <2>2. Writing(w, x) => Covered(x)'
    <3>1. BatchWrites(w)' = BatchWrites(w) /\ pc'[w] = "load" /\ pc[w] = "load"
      BY <1>2
      DEF RowKeyCached, AddDataPoint, BatchRecords, BatchWrites, MetricNamesBatch, RowKeyBatch
    <3> QED
      BY <3>1 DEF Writing, Covered, Answered
  <2>3. ASSUME WritesAgain(w, x)
        PROVE  Covered(x)'
    <3>1. PICK s \in Rows : x \in owed[w] /\ x \in IndexWrites(s) /\ Meets(w, s)
      BY <2>3 DEF WritesAgain
    <3>2. s \notin rowCache /\ \E i \in 1 .. Len(events[w]) : next[w] <= i /\ RowOf[events[w][i]] = s
      BY <1>2, <3>1 DEF Meets, RowKeyCached
    <3>3. PICK i \in 1 .. Len(events[w]) : next[w] <= i /\ RowOf[events[w][i]] = s
      BY <3>2
    <3>4. i # next[w]
      BY <2>1, <3>2, <3>3 DEF Row, Point
    <3>5. next'[w] <= i /\ pc'[w] = "load" /\ UNCHANGED <<events, owed>>
      BY <1>2, <3>3, <3>4 DEF RowKeyCached, AddDataPoint
    <3>6. Meets(w, s)'
      BY <2>1, <3>2, <3>3, <3>5 DEF Meets
    <3> QED
      BY <3>1, <3>5, <3>6 DEF WritesAgain, Covered, Answered
  <2> QED
    BY <1>2, <2>1, <2>2, <2>3, CoveredByWorker
    DEF RowKeyCached, AddDataPoint, tables, history
<1>3. ASSUME NEW w \in Workers, AddRowKey(w)
      PROVE  Covered(x)'
  <2>1. Row(w) \in Rows /\ rowCache' \subseteq rowCache \cup {Row(w)}
    <3>1. Row(w) \in Rows
      BY <1>3, PointTypes DEF AddRowKey, HasMore
    <3> QED
      BY <1>3, <3>1, CacheItemBounded, SizesAssumption DEF AddRowKey, CachesInv, CachesOK
  <2>2. /\ Row(w)' = Row(w) /\ pc'[w] = "name" /\ pc[w] = "load"
        /\ UNCHANGED <<events, next, owed>>
    BY <1>3 DEF AddRowKey, Row, Point
  <2>3. x \in IndexWrites(Row(w)) => Covered(x)'
    BY <2>2 DEF Writing, Covered, Answered
  <2>4. Writing(w, x) => Covered(x)'
    <3>1. BatchWrites(w) \subseteq BatchWrites(w)'
      BY <1>3 DEF AddRowKey, BatchRecords, BatchWrites, MetricNamesBatch, RowKeyBatch
    <3> QED
      BY <2>2, <3>1 DEF Writing, Covered, Answered
  <2>5. ASSUME WritesAgain(w, x), x \notin IndexWrites(Row(w))
        PROVE  Covered(x)'
    <3>1. PICK s \in Rows : x \in owed[w] /\ x \in IndexWrites(s) /\ Meets(w, s)
      BY <2>5 DEF WritesAgain
    <3>2. Meets(w, s)'
      BY <2>1, <2>2, <2>5, <3>1 DEF Meets
    <3> QED
      BY <2>2, <3>1, <3>2 DEF WritesAgain, Covered, Answered
  <2> QED
    BY <1>3, <2>1, <2>3, <2>4, <2>5, CoveredByWorker
    DEF AddRowKey, tables, history
<1>4. ASSUME NEW w \in Workers, AddMetricName(w)
      PROVE  Covered(x)'
  <2>1. /\ Row(w) \in batch[w].rows /\ Name(w) \in Names /\ pc[w] = "name" /\ pc'[w] = "load"
        /\ UNCHANGED <<events, owed, rowCache>>
    BY <1>4, PointTypes DEF AddMetricName, AddDataPoint, BatchInv, BatchConsistent, EventsInv
  <2>2. /\ batch'[w].rows = batch[w].rows /\ batch[w].names \subseteq batch'[w].names
        /\ batch[w].times \subseteq batch'[w].times
    BY <1>4 DEF AddMetricName, AddDataPoint, BatchRecords
  <2>3. BatchWrites(w) \subseteq BatchWrites(w)'
    BY <2>2 DEF BatchWrites, MetricNamesBatch, RowKeyBatch
  <2>4. ASSUME x \in IndexWrites(Row(w))
        PROVE  Covered(x)'
    <3>1. CASE x = RowWrite(Row(w))
      <4>1. x \in BatchWrites(w)
        BY <2>1, <3>1 DEF BatchWrites, RowKeyBatch
      <4> QED
        BY <2>1, <2>3, <4>1 DEF Writing, Covered, Answered
    <3>2. CASE x \in NameIndexWrites(Name(w))
      <4>1. Name(w) \in nameCache'
        BY <1>4, <2>1, CacheItemBounded, SizesAssumption DEF AddMetricName, CachesInv, CachesOK
      <4> QED
        BY <3>2, <4>1, NameCoveredNext
    <3> QED
      BY <2>4, <3>1, <3>2 DEF IndexWrites, Name
  <2>5. Writing(w, x) => Covered(x)'
    BY <2>1, <2>3, <2>4 DEF Writing, Covered, Answered
  <2>6. ASSUME WritesAgain(w, x), x \notin IndexWrites(Row(w))
        PROVE  Covered(x)'
    <3>1. PICK s \in Rows : x \in owed[w] /\ x \in IndexWrites(s) /\ Meets(w, s)
      BY <2>6 DEF WritesAgain
    <3>2. s \notin rowCache /\ s # Row(w)
      BY <2>1, <2>6, <3>1 DEF Meets
    <3>3. PICK i \in 1 .. Len(events[w]) : next[w] <= i /\ RowOf[events[w][i]] = s
      BY <2>1, <3>1 DEF Meets
    <3>4. i # next[w]
      BY <3>2, <3>3 DEF Row, Point
    <3>5. next'[w] <= i
      BY <1>4, <3>3, <3>4 DEF AddMetricName, AddDataPoint
    <3>6. Meets(w, s)'
      BY <2>1, <3>2, <3>3, <3>5 DEF Meets
    <3> QED
      BY <2>1, <3>1, <3>6 DEF WritesAgain, Covered, Answered
  <2> QED
    BY <1>4, <2>4, <2>5, <2>6, CoveredByWorker
    DEF AddMetricName, AddDataPoint, tables, history
<1>5. ASSUME NEW w \in Workers, SendIndexWrites(w)
      PROVE  Covered(x)'
  <2>1. /\ flying' = [flying EXCEPT ![w] = {MetricNamesBatch(w), RowKeyBatch(w)} \ {{}}]
        /\ owed' = [owed EXCEPT ![w] = @ \ UNION ({MetricNamesBatch(w), RowKeyBatch(w)} \ {{}})]
        /\ flying[w] = {} /\ pc[w] = "load" /\ pc'[w] = "points"
        /\ UNCHANGED <<rowCache, events, next>>
    BY <1>5 DEF SendIndexWrites, StatementsInv, caches
  <2>2. x \in BatchWrites(w) => Covered(x)'
    BY <2>1 DEF BatchWrites, Covered, Answered, IsFlying, Owners
  <2>3. ASSUME IsFlying(x)
        PROVE  Covered(x)'
    <3>1. PICK owner \in Owners : x \in UNION flying[owner]
      BY <2>3 DEF IsFlying
    <3>2. owner # w /\ x \in UNION flying'[owner]
      BY <2>1, <3>1
    <3> QED
      BY <3>2 DEF IsFlying, Covered, Answered
  <2>4. ASSUME WritesAgain(w, x), x \notin BatchWrites(w)
        PROVE  Covered(x)'
    <3>1. PICK s \in Rows : x \in owed[w] /\ x \in IndexWrites(s) /\ Meets(w, s)
      BY <2>4 DEF WritesAgain
    <3>2. Meets(w, s)' /\ x \in owed'[w]
      BY <2>1, <2>4, <3>1 DEF Meets, BatchWrites
    <3> QED
      BY <3>1, <3>2 DEF WritesAgain, Covered, Answered
  <2>5. Writing(w, x) => Covered(x)'
    BY <2>1, <2>2 DEF Writing
  <2> QED
    BY <1>5, <2>2, <2>3, <2>4, <2>5, CoveredByWorker DEF SendIndexWrites, caches, tables, history
<1>6. ASSUME NEW w \in Workers, NEW s \in Rows, WriteDataPoints(w, s)
      PROVE  Covered(x)'
  <2>1. WritesAgain(w, x) => Covered(x)'
    <3>1. WritesAgain(w, x) => WritesAgain(w, x)'
      BY <1>6 DEF WriteDataPoints, WritesAgain, Meets, RowsOf, caches
    <3> QED
      BY <3>1 DEF Covered, Answered
  <2> QED
    BY <1>6, <2>1, CoveredByWorker
    DEF WriteDataPoints, Writing, caches
<1>7. ASSUME NEW w \in Workers, BatchSent(w)
      PROVE  Covered(x)'
  <2>1. IsFlying(x) => IsFlying(x)'
    <3> SUFFICES ASSUME NEW owner \in Owners, x \in UNION flying[owner]
                 PROVE  IsFlying(x)'
      BY DEF IsFlying
    <3>1. x \in UNION flying'[owner] \/ x \in UNION flying'[Detached]
      BY <1>7, SetsAssumption DEF BatchSent, Owners
    <3> QED
      BY <3>1 DEF IsFlying, Owners
  <2>2. ASSUME WritesAgain(w, x)
        PROVE  Covered(x)'
    <3>1. PICK s \in Rows : x \in owed[w] /\ x \in IndexWrites(s) /\ Meets(w, s)
      BY <2>2 DEF WritesAgain
    <3>2. next[w] <= Len(events[w])
      BY <1>7, <3>1 DEF Meets, BatchSent
    <3>3. Meets(w, s)'
      BY <1>7, <3>1, <3>2 DEF Meets, BatchSent, caches
    <3> QED
      BY <1>7, <3>1, <3>3 DEF BatchSent, WritesAgain, Covered, Answered
  <2> QED
    BY <1>7, <2>1, <2>2, CoveredByWorker
    DEF BatchSent, Writing, caches, tables, history, Covered, Answered
<1>8. ASSUME NEW w \in Workers, LoadFails(w)
      PROVE  Covered(x)'
  <2>1. /\ pc[w] \in {"load", "name"} /\ pc'[w] = "clear" /\ UNCHANGED <<rowCache, events, flying>>
        /\ owed[w] \cup BatchWrites(w) \subseteq owed'[w]
        /\ pc[w] = "name" => NameWrites(Name(w)) \subseteq owed'[w]
        /\ batch'[w].rows = batch[w].rows
    BY <1>8 DEF LoadFails, Fails, BatchRecords, BatchWrites, caches
  <2>2. x \in BatchWrites(w) => Covered(x)'
    BY <2>1, OwedWrites
  <2>3. ASSUME pc[w] = "name", x \in IndexWrites(Row(w))
        PROVE  Covered(x)'
    <3>1. Row(w) \in batch[w].rows /\ Row(w) \in Rows /\ Row(w) \in RowsOf(w)
      BY <2>3 DEF BatchInv, BatchConsistent, BatchRecords
    <3>2. x \in BatchWrites(w) \/ x \in owed'[w]
      BY <2>1, <2>3, <3>1
      DEF IndexWrites, NameIndexWrites, NameWrites, Name, BatchWrites, RowKeyBatch
    <3>3. PICK s : s = Row(w)
      OBVIOUS
    <3>4. Meets(w, s)'
      BY <2>1, <3>1, <3>3 DEF Meets, RowsOf
    <3> QED
      BY <2>2, <2>3, <3>1, <3>2, <3>3, <3>4 DEF WritesAgain, Covered, Answered
  <2>4. WritesAgain(w, x) => Covered(x)'
    BY <2>1, OwedBefore
  <2> QED
    BY <1>8, <2>2, <2>3, <2>4, CoveredByWorker
    DEF LoadFails, Fails, Writing, caches, tables, history
<1>9. ASSUME NEW w \in Workers, Outage(w) \/ Rejected(w)
      PROVE  Covered(x)'
  <2>1. PICK survivors \in SUBSET flying[w] :
            /\ flying' = [flying EXCEPT ![w] = {}, ![Detached] = @ \cup survivors]
            /\ owed[w] \cup UNION (flying[w] \ survivors) \subseteq owed'[w]
            /\ \A v \in Workers \ {w} : owed'[v] = owed[v]
    <3>1. CASE Outage(w)
      <4>1. PICK survivors \in SUBSET flying[w] :
                /\ flying' = [flying EXCEPT ![w] = {}, ![Detached] = @ \cup survivors]
                /\ owed' = [owed EXCEPT ![w] = @ \cup UNION (flying[w] \ survivors)]
        BY <3>1 DEF Outage
      <4> QED
        BY <4>1
    <3>2. CASE Rejected(w)
      BY <3>2, UNION (flying[w] \ flying[w]) = {} DEF Rejected
    <3> QED
      BY <1>9, <3>1, <3>2
  <2>2. /\ pc[w] = "points" /\ pc'[w] = "clear" /\ UNCHANGED <<rowCache, events>>
        /\ batch'[w].rows = batch[w].rows
    BY <1>9 DEF Outage, Rejected, Fails, BatchRecords, caches
  <2>3. ASSUME IsFlying(x)
        PROVE  Covered(x)'
    <3>1. CASE x \notin UNION flying[w]
      <4>1. IsFlying(x)'
        BY <2>1, <2>3, <3>1, FlyingAfterOutage
      <4> QED
        BY <4>1 DEF Covered, Answered
    <3>2. CASE x \in UNION survivors
      <4>1. x \in UNION flying'[Detached]
        BY <2>1, <3>2, SetsAssumption DEF Owners
      <4> QED
        BY <4>1 DEF IsFlying, Owners, Covered, Answered
    <3>3. CASE x \in UNION (flying[w] \ survivors)
      <4>1. x \in BatchWrites(w) /\ x \in owed'[w]
        BY <2>1, <3>3 DEF BatchInv, BatchConsistent
      <4> QED
        BY <2>2, <4>1, OwedWrites
    <3> QED
      BY <3>1, <3>2, <3>3
  <2>4. WritesAgain(w, x) => Covered(x)'
    BY <2>1, <2>2, OwedBefore
  <2> QED
    BY <1>9, <2>1, <2>2, <2>3, <2>4, CoveredByWorker
    DEF Outage, Rejected, Fails, Writing, caches, tables, history
<1>10. ASSUME NEW w \in Workers, NEW n \in Names, ClearMetricName(w, n)
       PROVE  Covered(x)'
  <2>1. WritesAgain(w, x) => WritesAgain(w, x)'
    BY <1>10 DEF ClearMetricName, WritesAgain, Meets, RowsOf, BatchRecords
  <2> QED
    BY <1>10, <2>1, CoveredByWorker
    DEF ClearMetricName, Writing, tables, history, Covered, Answered
<1>11. ASSUME NEW w \in Workers, NEW s \in Rows, ClearRowKey(w, s)
       PROVE  Covered(x)'
  <2>1. WritesAgain(w, x) => WritesAgain(w, x)'
    BY <1>11 DEF ClearRowKey, WritesAgain, Meets, RowsOf, BatchRecords
  <2> QED
    BY <1>11, <2>1, CoveredByWorker
    DEF ClearRowKey, Writing, tables, history, Covered, Answered
<1>12. ASSUME NEW w \in Workers, Retry(w) \/ RetrySmaller(w)
       PROVE  Covered(x)'
  <2>1. /\ pc[w] = "clear" /\ batch[w].rows = {} /\ pc'[w] = "load" /\ next'[w] = 1
        /\ UNCHANGED <<rowCache, events, owed, flying>>
    BY <1>12 DEF Retry, RetrySmaller, Cleared, StartOver, caches
  <2>2. ASSUME WritesAgain(w, x)
        PROVE  Covered(x)'
    <3>1. PICK s \in Rows : x \in owed[w] /\ x \in IndexWrites(s) /\ Meets(w, s)
      BY <2>2 DEF WritesAgain
    <3>2. s \notin rowCache /\ s \in RowsOf(w)
      BY <2>1, <3>1 DEF Meets
    <3>3. Meets(w, s)'
      BY <2>1, <3>2 DEF Meets, RowsOf
    <3> QED
      BY <2>1, <3>1, <3>3 DEF WritesAgain, Covered, Answered
  <2>3. /\ UNCHANGED <<rowKeys, timeIndex, stringIndex, deleter, lost>>
        /\ \A v \in Workers \ {w} : pc'[v] = pc[v] /\ next'[v] = next[v] /\ batch'[v] = batch[v]
    BY <1>12 DEF Retry, RetrySmaller, StartOver, tables, history
  <2> QED
    BY <2>1, <2>2, <2>3, CoveredByWorker DEF Writing
<1>13. ASSUME NEW w \in Workers, GiveUp(w)
       PROVE  Covered(x)'
  <2>1. WritesAgain(w, x) => Covered(x)'
    BY <1>13 DEF GiveUp, WritesAgain, Covered, Answered
  <2> QED
    BY <1>13, <2>1, CoveredByWorker
    DEF GiveUp, Cleared, Writing, caches, tables
<1>14. ASSUME NEW w \in Workers, Complete(w)
       PROVE  Covered(x)'
  BY <1>14, CoveredByWorker
  DEF Complete, Writing, WritesAgain, Meets, caches, tables
<1>15. ASSUME UNCHANGED <<workerVars>>, rowCache' = rowCache,
              Written(x) => Covered(x)', x \in lost => Covered(x)',
              IsFlying(x) => Covered(x)', Excused(x) => Covered(x)'
       PROVE  Covered(x)'
  <2>1. ASSUME NEW w \in Workers
        PROVE  /\ Writing(w, x) => Writing(w, x)'
               /\ WritesAgain(w, x) => WritesAgain(w, x)'
    BY <1>15
    DEF workerVars, Writing, WritesAgain, Meets, RowsOf, BatchWrites, MetricNamesBatch,
        RowKeyBatch, Row, Point
  <2> QED
    BY <1>15, <2>1 DEF Covered, Answered
<1>16. ASSUME NEW o \in Owners, NEW stmt \in flying[o], Land(o, stmt) \/ LoseStatement(o, stmt)
       PROVE  Covered(x)'
  <2>1. CASE x \in stmt
    BY <1>16, <2>1, SetsAssumption
    DEF Land, LoseStatement, Covered, Answered, Written, IndexWrites, NameIndexWrites
  <2>2. CASE x \notin stmt
    <3>1. IsFlying(x) => IsFlying(x)'
      BY <1>16, <2>2, FlyingAfterOne DEF Land, LoseStatement
    <3>2. /\ Written(x) => Written(x)'
          /\ x \in lost => x \in lost'
          /\ UNCHANGED <<workerVars, rowCache, deleter>>
      BY <1>16, <2>2 DEF Land, LoseStatement, Written, tables, caches
    <3> QED
      BY <1>15, <3>1, <3>2 DEF Covered, Answered, Excused
  <2> QED
    BY <2>1, <2>2
<1>17. ASSUME NEW s \in Rows, CleanRowKeyCache(s)
       PROVE  Covered(x)'
  BY <1>17
  DEF CleanRowKeyCache, tables, workerVars, history, Covered, Answered, Excused, Written,
      IsFlying, Writing, WritesAgain, Meets, RowsOf, BatchWrites, MetricNamesBatch,
      RowKeyBatch, Row, Point
<1>18. ASSUME NEW kind \in DeleteKinds, NEW m \in Metrics,
              NEW rows \in Selections(kind, m), StartDelete(kind, m, rows)
       PROVE  Covered(x)'
  <2>1. ~Excused(x)
    BY <1>18 DEF StartDelete, GoneInv, Excused
  <2> QED
    BY <1>15, <1>18, <2>1
    DEF StartDelete, caches, tables, Covered, Answered, Written, IsFlying
<1>19. ASSUME NEW s \in Rows, DeleteRow(s)
       PROVE  Covered(x)'
  <2>1. \A w \in Workers : /\ batch'[w].rows = batch[w].rows /\ batch'[w].names = batch[w].names
                           /\ batch'[w].times = batch[w].times
    BY <1>19 DEF DeleteRow, BatchRecords
  <2>2. ASSUME NEW w \in Workers
        PROVE  /\ Writing(w, x) => Writing(w, x)'
               /\ WritesAgain(w, x) => WritesAgain(w, x)'
    BY <1>19, <2>1
    DEF DeleteRow, Writing, WritesAgain, Meets, RowsOf, BatchWrites, MetricNamesBatch,
        RowKeyBatch, Row, Point, caches
  <2>3. Excused(x) => Excused(x)'
    BY <1>19 DEF DeleteRow, Excused, DeleterOK
  <2> QED
    BY <1>19, <2>2, <2>3 DEF DeleteRow, Covered, Answered, Written, IsFlying
<1>20. ASSUME NEW s \in Rows, DeleteRowKey(s)
       PROVE  Covered(x)'
  <2>1. /\ deleter'.gone = deleter.gone \cup {RowWrite(s)} /\ deleter.pc = "key"
        /\ Hides(RowWrite(s)) /\ UNCHANGED <<rowCache, workerVars, lost>>
    BY <1>20 DEF DeleteRowKey, DeleterOK, caches, history
  <2>2. CASE x # RowWrite(s)
    <3>1. IsFlying(x) => IsFlying(x)'
      BY <2>1, <2>2, FlyingAfterHides
    <3>2. Written(x) => Written(x)'
      BY <1>20, <2>2 DEF DeleteRowKey, Written
    <3> QED
      BY <1>15, <2>1, <3>1, <3>2 DEF Covered, Answered, Excused
  <2> QED
    BY <2>1, <2>2 DEF Covered, Excused
<1>21. ASSUME NEW s \in Rows, DeleteRowTime(s)
       PROVE  Covered(x)'
  <2>1. /\ deleter'.gone = deleter.gone \cup {TimeWrite(NameOf[s])} /\ deleter.pc = "time"
        /\ Hides(TimeWrite(NameOf[s])) /\ UNCHANGED <<rowCache, workerVars, lost>>
    BY <1>21 DEF DeleteRowTime, DeleterOK, caches, history
  <2>2. CASE x # TimeWrite(NameOf[s])
    <3>1. IsFlying(x) => IsFlying(x)'
      BY <2>1, <2>2, FlyingAfterHides
    <3>2. Written(x) => Written(x)'
      BY <1>21, <2>2 DEF DeleteRowTime, Written
    <3> QED
      BY <1>15, <2>1, <3>1, <3>2 DEF Covered, Answered, Excused
  <2> QED
    BY <2>1, <2>2 DEF Covered, Excused
<1>22. ASSUME NEW m \in Metrics, DeleteMetricName(m)
       PROVE  Covered(x)'
  <2>1. /\ deleter'.gone = deleter.gone /\ deleter'.pc = "caches" /\ deleter'.metric = {m}
        /\ deleter.pc = "row"
        /\ Hides(StringWrite(m)) /\ UNCHANGED <<rowCache, workerVars, lost>>
    BY <1>22 DEF DeleteMetricName, DeleterOK, history
  <2>2. CASE x # StringWrite(m)
    <3>1. IsFlying(x) => IsFlying(x)'
      BY <2>1, <2>2, FlyingAfterHides
    <3>2. Written(x) => Written(x)'
      BY <1>22, <2>2 DEF DeleteMetricName, Written
    <3> QED
      BY <1>15, <2>1, <3>1, <3>2 DEF Covered, Answered, Excused
  <2> QED
    BY <2>1, <2>2 DEF Covered, Excused
<1>23. CASE DeleteFails
  <2>1. /\ lost' = lost \cup deleter.gone /\ deleter.pc # "caches"
        /\ UNCHANGED <<rowCache, workerVars, rowKeys, timeIndex, stringIndex, flying>>
    BY <1>23 DEF DeleteFails, caches, tables
  <2> QED
    BY <1>15, <2>1 DEF Covered, Answered, Excused, Written, IsFlying
<1>24. ASSUME NEW w \in Workers, SkipExpired(w)
       PROVE  Covered(x)'
  <2>1. /\ pc[w] = "load" /\ next'[w] = next[w] + 1 /\ next[w] \in Nat
        /\ lost' = lost \cup (owed[w] \cap ({RowWrite(Row(w))} \cup NameWrites(Name(w))))
        /\ UNCHANGED <<rowCache, pc, events, owed, flying, rowKeys, timeIndex, stringIndex,
                       deleter>>
    BY <1>24 DEF SkipExpired, caches
  <2>2. Writing(w, x) => Covered(x)'
    <3>1. BatchWrites(w)' = BatchWrites(w)
      BY <1>24 DEF SkipExpired, BatchRecords, BatchWrites, MetricNamesBatch, RowKeyBatch
    <3> QED
      BY <2>1, <3>1 DEF Writing, Covered, Answered
  <2>3. ASSUME WritesAgain(w, x)
        PROVE  Covered(x)'
    <3>1. PICK s \in Rows : x \in owed[w] /\ x \in IndexWrites(s) /\ Meets(w, s)
      BY <2>3 DEF WritesAgain
    <3>2. CASE s = Row(w)
      <4>1. x \in lost'
        BY <2>1, <3>1, <3>2 DEF IndexWrites, NameIndexWrites, NameWrites, Name
      <4> QED
        BY <4>1 DEF Covered, Answered
    <3>3. CASE s # Row(w)
      <4>1. PICK i \in 1 .. Len(events[w]) : next[w] <= i /\ RowOf[events[w][i]] = s
        BY <2>1, <3>1 DEF Meets
      <4>2. i # next[w]
        BY <3>3, <4>1 DEF Row, Point
      <4>3. next'[w] <= i
        BY <2>1, <4>1, <4>2
      <4>4. Meets(w, s)'
        BY <2>1, <3>1, <4>1, <4>3 DEF Meets
      <4> QED
        BY <2>1, <3>1, <4>4 DEF WritesAgain, Covered, Answered
    <3> QED
      BY <3>2, <3>3
  <2> QED
    BY <1>24, <2>1, <2>2, <2>3, CoveredByWorker DEF SkipExpired
<1> QED
  BY <1>1, <1>2, <1>3, <1>4, <1>5, <1>6, <1>7, <1>8, <1>9, <1>10, <1>11, <1>12, <1>13,
     <1>14, <1>16, <1>17, <1>18, <1>19, <1>20, <1>21, <1>22, <1>23, <1>24
  DEF Next, Work

-----------------------------------------------------------------------------
(* A cached row key is covered: the worker that caches it is about to write *)
(* what it needs, and the delete that excuses a write clears the cache.    *)
LEMMA RowCacheStep ==
    ASSUME TypeInv, StatementsInv, NamesInv, GoneInv, BatchInv, DeleteInv, RowCacheInv, Next,
           TypeInv', NamesInv', BatchInv', NameCacheInv'
    PROVE  RowCacheInv'
<1>1. rowCache \subseteq Rows
  BY DEF TypeInv, TypeOK, CachesOK
<1>2. CASE EndDelete
  <2>1. CASE deleter.clear
    BY <1>2, <2>1 DEF EndDelete, RowCacheInv
  <2>2. CASE ~deleter.clear
    <3>1. deleter.gone = {} /\ deleter.pc # "caches" /\ rowCache' = rowCache
      BY <1>2, <2>2 DEF EndDelete, GoneInv, DeleteInv
    <3>2. \A r \in rowCache : \A x \in IndexWrites(r) : Answered(x)
      BY <3>1 DEF RowCacheInv, Covered, Excused
    <3>3. \A x : Answered(x) => Answered(x)'
      BY <1>2, <3>1
      DEF EndDelete, tables, workerVars, history, Answered, Written, IsFlying, Writing,
          WritesAgain, Meets, RowsOf, BatchWrites, MetricNamesBatch, RowKeyBatch, Row, Point
    <3> QED
      BY <3>1, <3>2, <3>3 DEF RowCacheInv, Covered
  <2> QED
    BY <2>1, <2>2
<1>3. ASSUME ~EndDelete, NEW r \in rowCache' \cap rowCache, NEW x \in IndexWrites(r)
      PROVE  Covered(x)'
  <2>1. Covered(x)
    BY <1>3 DEF RowCacheInv
  <2> QED
    BY <1>1, <1>3, <2>1, CoveredStep
<1>4. ASSUME NEW r \in rowCache' \ rowCache, NEW x \in IndexWrites(r)
      PROVE  Covered(x)'
  <2>1. PICK w \in Workers : AddRowKey(w) \/ RowKeyCached(w)
    BY <1>4
    DEF Next, Work, Submit, SkipExpired, AddMetricName, SendIndexWrites, WriteDataPoints, BatchSent,
        ClearMetricName, ClearRowKey, Retry, RetrySmaller, StartOver, GiveUp, Complete,
        LoadFails, Outage, Rejected, Land, LoseStatement, StartDelete, CleanRowKeyCache,
        DeleteRow, DeleteRowKey, DeleteRowTime, DeleteMetricName, EndDelete, DeleteFails,
        caches
  <2>2. Row(w) \in Rows
    BY <2>1, PointTypes DEF AddRowKey, RowKeyCached, HasMore, TypeInv, TypeOK
  <2>3. rowCache' \in CacheItem(rowCache, Row(w), RowCacheSize)
    BY <2>1 DEF AddRowKey, RowKeyCached
  <2>4. r = Row(w)
    BY <1>4, <2>2, <2>3, CacheItemBounded, SizesAssumption DEF TypeInv, CachesInv, CachesOK
  <2>5. AddRowKey(w)
    BY <1>4, <2>1, <2>4 DEF RowKeyCached
  <2>6. pc'[w] = "name" /\ Row(w)' = Row(w)
    BY <2>5 DEF AddRowKey, Row, Point, TypeInv, TypeOK, WorkersOK
  <2> QED
    BY <1>4, <2>4, <2>6 DEF Writing, Covered, Answered
<1> QED
  BY <1>2, <1>3, <1>4 DEF RowCacheInv

(* The points to be found are those that were, and those that join a batch. *)
LEMMA SoughtGrows ==
    ASSUME TypeInv, Next, NEW p \in Sought', p \notin Sought
    PROVE  \E w \in Workers : (RowKeyCached(w) \/ AddMetricName(w)) /\ p = Point(w)
<1> USE DEF TypeInv, TypeOK, TablesOK, WorkersOK
<1>1. raced \subseteq raced'
  BY ZenonT(60) DEF Next, Work, Submit, SkipExpired, RowKeyCached, AddRowKey, AddMetricName, SendIndexWrites,
      WriteDataPoints, BatchSent, ClearMetricName, ClearRowKey, Retry, RetrySmaller,
      StartOver, GiveUp, Complete, LoadFails, Outage, Rejected, Land, LoseStatement,
      StartDelete, CleanRowKeyCache, DeleteRow, DeleteRowKey, DeleteRowTime,
      DeleteMetricName, EndDelete, DeleteFails, history
<1>2. p \notin raced /\ p \notin stored
      /\ \A w \in Workers : pc[w] \in {"load", "name", "points"} => p \notin batch[w].points
  BY <1>1, SetsAssumption DEF Sought, BatchRecords
<1>3. p \notin stored'
  <2>1. ASSUME NEW w \in Workers, \/ \E r \in Rows : WriteDataPoints(w, r)
                                  \/ Outage(w)
        PROVE  stored' \subseteq stored \cup batch[w].points /\ pc[w] = "points"
    BY <2>1 DEF WriteDataPoints, Outage, Arrives
  <2>2. CASE \E w \in Workers : \/ \E r \in Rows : WriteDataPoints(w, r)
                                \/ Outage(w)
    BY <1>2, <2>1, <2>2
  <2>3. CASE ~\E w \in Workers : \/ \E r \in Rows : WriteDataPoints(w, r)
                                 \/ Outage(w)
    <3>1. stored' \subseteq stored
      BY ZenonT(60), <2>3
      DEF Next, Work, Submit, SkipExpired, RowKeyCached, AddRowKey, AddMetricName,
          SendIndexWrites, BatchSent, ClearMetricName, ClearRowKey, Retry, RetrySmaller, StartOver, GiveUp,
          Complete, LoadFails, Rejected, Land, LoseStatement, StartDelete, CleanRowKeyCache,
          DeleteRow, DeleteRowKey, DeleteRowTime, DeleteMetricName, EndDelete, DeleteFails,
          tables
    <3> QED
      BY <1>2, <3>1
  <2> QED
    BY <2>2, <2>3
<1>4. PICK w \in Workers : pc'[w] \in {"load", "name", "points"} /\ p \in batch'[w].points
  BY <1>3 DEF Sought
<1>5. CASE \E v \in Workers : RowKeyCached(v) \/ AddMetricName(v)
  <2>1. PICK v \in Workers : RowKeyCached(v) \/ AddMetricName(v)
    BY <1>5
  <2>2. /\ batch'[v].points = batch[v].points \cup {Point(v)}
        /\ pc[v] \in {"load", "name"}
        /\ w # v => batch'[w] = batch[w] /\ pc'[w] = pc[w]
    <3>1. CASE RowKeyCached(v)
      BY <3>1 DEF RowKeyCached, AddDataPoint, BatchRecords
    <3>2. CASE AddMetricName(v)
      BY <3>2 DEF AddMetricName, AddDataPoint, BatchRecords
    <3> QED
      BY <2>1, <3>1, <3>2
  <2> QED
    BY <1>2, <1>4, <2>1, <2>2
<1>6. CASE ~\E v \in Workers : RowKeyCached(v) \/ AddMetricName(v)
  <2>1. batch'[w].points \subseteq batch[w].points
        /\ (pc[w] \in {"load", "name", "points"} \/ batch'[w].points = {})
    <3>1. CASE \E v \in Workers : AddRowKey(v)
      <4>1. PICK v \in Workers : AddRowKey(v)
        BY <3>1
      <4>2. pc[v] = "load" /\ \A u \in Workers : batch'[u].points = batch[u].points
            /\ (u # v => pc'[u] = pc[u])
        BY <4>1 DEF AddRowKey, BatchRecords
      <4> QED
        BY <1>4, <4>2
    <3>9. CASE \E v \in Workers : SendIndexWrites(v)
      BY <1>4, <3>9 DEF SendIndexWrites
    <3>7. CASE \E v \in Workers : BatchSent(v)
      BY <1>4, <3>7 DEF BatchSent, BatchRecords, EmptyBatch
    <3>8. CASE \E v \in Workers : \E r \in Rows : WriteDataPoints(v, r)
      BY <1>4, <3>8 DEF WriteDataPoints, BatchRecords
    <3>2. CASE \E v \in Workers : Retry(v) \/ RetrySmaller(v) \/ Complete(v)
                                  \/ \E evs \in Batches : Submit(v, evs)
      BY <1>4, <3>2 DEF Retry, RetrySmaller, StartOver, Complete, Submit, EmptyBatch
    <3>3. CASE \E v \in Workers : LoadFails(v) \/ Outage(v) \/ Rejected(v) \/ GiveUp(v)
      BY <1>4, <3>3 DEF LoadFails, Outage, Rejected, Fails, GiveUp
    <3>4. CASE \E v \in Workers : \/ \E n \in Names : ClearMetricName(v, n)
                                  \/ \E r \in Rows : ClearRowKey(v, r)
      BY <1>4, <3>4 DEF ClearMetricName, ClearRowKey, BatchRecords
    <3>5. CASE \E r \in Rows : DeleteRow(r)
      BY <1>4, <3>5 DEF DeleteRow, BatchRecords
    <3>6. CASE UNCHANGED workerVars
      BY <1>4, <3>6 DEF workerVars
    <3>10. CASE \E v \in Workers : SkipExpired(v)
      BY <1>4, <3>10 DEF SkipExpired, BatchRecords
    <3> QED
      BY <1>6, <3>1, <3>2, <3>3, <3>4, <3>5, <3>6, <3>7, <3>8, <3>9, <3>10
      DEF Next, Work, Land, LoseStatement, StartDelete, CleanRowKeyCache, DeleteRowKey,
          DeleteRowTime, DeleteMetricName, EndDelete, DeleteFails
  <2> QED
    BY <1>2, <1>4, <2>1
<1> QED
  BY <1>5, <1>6

(* Nothing a point needs is forgotten: it joins a batch when its row key is *)
(* cached or has been added, and a delete excuses only what no point needs. *)
LEMMA SoughtStep ==
    ASSUME TypeInv, StatementsInv, NamesInv, GoneInv, BatchInv, DeleteInv, NameCacheInv,
           RowCacheInv, SoughtInv, Next,
           TypeInv', NamesInv', BatchInv', NameCacheInv'
    PROVE  SoughtInv'
<1>1. Sought' \subseteq Points
  BY DEF Sought, TypeInv, TypeOK, TablesOK
<1>2. CASE EndDelete
  <2>1. Sought' = Sought /\ Sought \subseteq stored \ raced
    <3>1. \A p \in Points : \A w \in Workers :
              pc[w] \in {"load", "name", "points"} /\ p \in batch[w].points => p \in raced
      BY <1>2 DEF EndDelete, DeleteInv, Working, TypeInv, EventsInv
    <3> QED
      BY <1>2, <3>1 DEF EndDelete, Sought, tables, workerVars, history
  <2>2. ASSUME NEW p \in Sought, NEW x \in IndexWrites(RowOf[p])
        PROVE  Answered(x)
    <3>1. Covered(x) /\ deleter.todo = {}
      BY <1>2 DEF SoughtInv, EndDelete, DeleteInv
    <3>2. x \notin deleter.gone
      BY <1>2, <2>1, <3>1 DEF DeleteInv, EndDelete
    <3>3. ASSUME deleter.pc = "caches", NEW m \in deleter.metric, x = StringWrite(m)
          PROVE  FALSE
      <4>1. MetricOf[NameOf[RowOf[p]]] = m
        BY <3>3 DEF IndexWrites, NameIndexWrites, RowWrite, TimeWrite, StringWrite
      <4>2. "alltags" \notin DeleteKinds
        BY <3>3 DEF IndexWrites, NameIndexWrites, RowWrite, TimeWrite, StringWrite
      <4>3. deleter.kind = "all"
        BY <3>3, <4>2 DEF DeleteInv, AllTimes
      <4> QED
        BY <2>1, <3>1, <3>3, <4>1, <4>3 DEF DeleteInv
    <3> QED
      BY <3>1, <3>2, <3>3 DEF Covered, Excused
  <2>3. \A x : Answered(x) => Answered(x)'
    BY <1>2
    DEF EndDelete, tables, workerVars, history, Answered, Written, IsFlying, Writing,
        WritesAgain, Meets, RowsOf, BatchWrites, MetricNamesBatch, RowKeyBatch, Row, Point
  <2> QED
    BY <2>1, <2>2, <2>3 DEF SoughtInv, Covered
<1>3. ASSUME ~EndDelete, NEW p \in Sought', NEW x \in IndexWrites(RowOf[p])
      PROVE  Covered(x)'
  <2>1. RowOf[p] \in Rows
    BY <1>1, SetsAssumption
  <2>2. CASE p \in Sought
    BY <1>3, <2>1, <2>2, CoveredStep DEF SoughtInv
  <2>3. CASE p \notin Sought
    <3>1. PICK w \in Workers : (RowKeyCached(w) \/ AddMetricName(w)) /\ p = Point(w)
      BY <2>3, SoughtGrows
    <3>2. CASE RowKeyCached(w)
      <4>1. Covered(x)
        BY <1>3, <3>1, <3>2 DEF RowKeyCached, RowCacheInv, Row
      <4> QED
        BY <1>3, <2>1, <4>1, CoveredStep
    <3>3. CASE AddMetricName(w)
      <4>1. Covered(x)
        BY <1>3, <3>1, <3>3 DEF AddMetricName, Writing, Covered, Answered, Row
      <4> QED
        BY <1>3, <2>1, <4>1, CoveredStep
    <3> QED
      BY <3>1, <3>2, <3>3
  <2> QED
    BY <2>2, <2>3
<1> QED
  BY <1>2, <1>3 DEF SoughtInv

(* All of it together, inductive in every run of the workers and deletes.  *)
IndexInv == /\ TypeInv /\ StatementsInv /\ NamesInv /\ GoneInv /\ BatchInv /\ DeleteInv
            /\ NameCacheInv /\ RowCacheInv /\ SoughtInv

LEMMA IndexInvAlways == Spec => []IndexInv
<1>1. Init => NamesInv /\ BatchInv /\ DeleteInv /\ NameCacheInv /\ RowCacheInv /\ SoughtInv
  BY DEF Init, NamesInv, BatchInv, BatchConsistent, DeleteInv, NameCacheInv, RowCacheInv,
      SoughtInv, Sought, EmptyBatch, IdleDeleter, Owners
<1>2. IndexInv /\ TypeInv' /\ StatementsInv' /\ GoneInv' /\ [Next]_vars
          => NamesInv' /\ BatchInv' /\ DeleteInv' /\ NameCacheInv' /\ RowCacheInv' /\ SoughtInv'
  <2>1. CASE IndexInv /\ UNCHANGED vars
    BY <2>1
    DEF IndexInv, vars, NamesInv, BatchInv, BatchConsistent, RowsOf, BatchWrites,
        MetricNamesBatch, RowKeyBatch, Row, Point, DeleteInv, Working, Elements, NameCacheInv,
        NameAnswered, NameHeld, Written, RowCacheInv, SoughtInv, Sought, Covered, Answered,
        Excused, IsFlying, Writing, WritesAgain, Meets
  <2>2. ASSUME IndexInv, TypeInv', Next
        PROVE  NamesInv' /\ BatchInv' /\ DeleteInv' /\ NameCacheInv' /\ RowCacheInv' /\ SoughtInv'
    <3>1. NamesInv' /\ BatchInv' /\ DeleteInv' /\ NameCacheInv'
      BY <2>2, NamesStep, BatchStep, DeleteStep, NameCacheStep DEF IndexInv
    <3> QED
      BY <2>2, <3>1, RowCacheStep, SoughtStep DEF IndexInv
  <2> QED
    BY <2>1, <2>2
<1> QED
  BY <1>1, <1>2, StatementsAlways, PTL DEF Spec, IndexInv

(* A row key is in the cache only while it is in row_keys, on its way      *)
(* there, or in a batch whose failure takes it out of the cache again,     *)
(* unless its write failed alone or with a batch that was given up, a      *)
(* delete threw, or one is still running.                                  *)
THEOREM RowKeysHonest == Spec => []RowCacheHonest
<1>1. IndexInv => RowCacheHonest
  <2> SUFFICES ASSUME IndexInv, NEW r \in rowCache, deleter.pc = "idle",
                      r \notin rowKeys, RowWrite(r) \notin lost
               PROVE  RowPending(r)
    BY DEF RowCacheHonest
  <2>1. Answered(RowWrite(r))
    BY DEF IndexInv, RowCacheInv, IndexWrites, GoneInv, Covered, Excused
  <2>2. ~Written(RowWrite(r))
    BY DEF Written, RowWrite, TimeWrite, StringWrite
  <2>3. ASSUME NEW w \in Workers, Writing(w, RowWrite(r))
        PROVE  r \in batch[w].rows
    <3>1. CASE RowWrite(r) \in BatchWrites(w)
      BY <3>1 DEF BatchWrites, MetricNamesBatch, RowKeyBatch, RowWrite, TimeWrite, StringWrite
    <3>2. CASE pc[w] = "name" /\ RowWrite(r) \in IndexWrites(Row(w))
      BY <3>2
      DEF IndexInv, BatchInv, BatchConsistent, IndexWrites, NameIndexWrites, RowWrite,
          TimeWrite, StringWrite
    <3> QED
      BY <2>3, <3>1, <3>2 DEF Writing
  <2>4. ASSUME NEW w \in Workers, WritesAgain(w, RowWrite(r))
        PROVE  r \in batch[w].rows
    <3>1. PICK s \in Rows : RowWrite(r) \in IndexWrites(s) /\ Meets(w, s)
      BY <2>4 DEF WritesAgain
    <3>2. s = r
      BY <3>1 DEF IndexWrites, NameIndexWrites, RowWrite, TimeWrite, StringWrite
    <3> QED
      BY <3>1, <3>2 DEF Meets
  <2> QED
    BY <2>1, <2>2, <2>3, <2>4 DEF Answered, RowPending
<1> QED
  BY <1>1, IndexInvAlways, PTL

(* The same of the names, the filtered ones too, as long as nobody deletes *)
(* whole time frames: such a delete removes row times and leaves the names *)
(* in the cache.  What a failed batch owed a filtered name is lost: the    *)
(* name stays in the cache and its time is not written again.              *)
WholeDeletes == "frame" \notin DeleteKinds

THEOREM NamesHonest ==
    ASSUME WholeDeletes
    PROVE  Spec => []NameCacheHonest
<1>1. IndexInv => NameCacheHonest
  <2> SUFFICES ASSUME IndexInv, NEW n \in nameCache, deleter.pc = "idle",
                      n \notin timeIndex, TimeWrite(n) \notin lost
               PROVE  NamePending(n)
    BY DEF NameCacheHonest
  <2>1. NameAnswered(n, TimeWrite(n)) /\ TimeWrite(n) \notin deleter.gone
    BY DEF WholeDeletes, IndexInv, NameCacheInv, NameIndexWrites, GoneInv
  <2>2. ~Written(TimeWrite(n))
    BY DEF Written, RowWrite, TimeWrite, StringWrite
  <2> QED
    BY <2>1, <2>2
    DEF NameAnswered, NameHeld, NamePending, IsFlying, Owners, IndexInv, NamesInv
<1> QED
  BY <1>1, IndexInvAlways, PTL

(* When everything is at rest, only the writes that are lost are missing.  *)
LEMMA QuietComplete ==
    ASSUME IndexInv, Quiet, NEW p \in stored \ raced, NEW x \in IndexWrites(RowOf[p])
    PROVE  Written(x) \/ x \in lost
<1>1. p \in Sought
  BY DEF Sought
<1>2. Answered(x)
  BY <1>1 DEF IndexInv, SoughtInv, GoneInv, Quiet, Covered, Excused
<1>3. \A w \in Workers : pc[w] = "idle"
  BY DEF Quiet, Working
<1> QED
  BY <1>2, <1>3 DEF Quiet, Answered, IsFlying, Writing, WritesAgain, Meets

(* When everything has come to rest, every stored point's row key is in    *)
(* row_keys, whatever workers shared the cached key, whichever of them     *)
(* failed, how often each retried and however the cache evicted.           *)
THEOREM RowKeysFound == Spec => []RowKeysComplete
<1>1. IndexInv => RowKeysComplete
  <2> SUFFICES ASSUME IndexInv, Quiet, NEW p \in stored \ raced
               PROVE  RowOf[p] \in rowKeys \/ RowWrite(RowOf[p]) \in lost
    BY DEF RowKeysComplete
  <2>1. Written(RowWrite(RowOf[p])) \/ RowWrite(RowOf[p]) \in lost
    BY QuietComplete DEF IndexWrites
  <2> QED
    BY <2>1 DEF Written, RowWrite, TimeWrite, StringWrite
<1> QED
  BY <1>1, IndexInvAlways, PTL

(* So is its row time, unless whole time frames are deleted: that of a     *)
(* filtered name too, but for the writes of the batches that failed, which *)
(* are lost because nobody makes them again.                               *)
THEOREM RowTimesFound ==
    ASSUME WholeDeletes
    PROVE  Spec => []TimeIndexComplete
<1>1. IndexInv => TimeIndexComplete
  <2> SUFFICES ASSUME IndexInv, Quiet, NEW p \in stored \ raced
               PROVE  \/ NameOf[RowOf[p]] \in timeIndex
                      \/ TimeWrite(NameOf[RowOf[p]]) \in lost
    BY DEF TimeIndexComplete
  <2>1. TimeWrite(NameOf[RowOf[p]]) \in IndexWrites(RowOf[p])
    BY DEF WholeDeletes, IndexWrites, NameIndexWrites
  <2>2. Written(TimeWrite(NameOf[RowOf[p]])) \/ TimeWrite(NameOf[RowOf[p]]) \in lost
    BY <2>1, QuietComplete
  <2> QED
    BY <2>2 DEF Written, RowWrite, TimeWrite, StringWrite
<1> QED
  BY <1>1, IndexInvAlways, PTL

(* And the name of its metric, if it is not filtered and nobody deletes    *)
(* over all times by tags: such a delete takes the metric off the list and *)
(* leaves the rows the tags do not select.                                 *)
ListedDeletes == "alltags" \notin DeleteKinds

THEOREM MetricsFound ==
    ASSUME ListedDeletes
    PROVE  Spec => []MetricsListed
<1>1. IndexInv => MetricsListed
  <2> SUFFICES ASSUME IndexInv, Quiet, NEW p \in stored \ raced,
                      NameOf[RowOf[p]] \notin FilteredNames
               PROVE  \/ MetricOf[NameOf[RowOf[p]]] \in stringIndex
                      \/ StringWrite(MetricOf[NameOf[RowOf[p]]]) \in lost
    BY DEF MetricsListed
  <2>1. StringWrite(MetricOf[NameOf[RowOf[p]]]) \in IndexWrites(RowOf[p])
    BY DEF ListedDeletes, IndexWrites, NameIndexWrites
  <2>2. \/ Written(StringWrite(MetricOf[NameOf[RowOf[p]]]))
        \/ StringWrite(MetricOf[NameOf[RowOf[p]]]) \in lost
    BY <2>1, QuietComplete
  <2> QED
    BY <2>2 DEF Written, RowWrite, TimeWrite, StringWrite
<1> QED
  BY <1>1, IndexInvAlways, PTL

=============================================================================
