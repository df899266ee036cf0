--------------------------- MODULE CqlQueryProofs ---------------------------
(***************************************************************************)
(* Theorems about the metric query on Cassandra.                           *)
(*                                                                         *)
(* First RowTimes, for every width of a row and all times: a data point is *)
(* read at the time it was written, and a query or a delete touches the    *)
(* data points of its range and no other, when the width leaves room in an *)
(* int and the range does not begin before 1970.  MissedBefore1970 and     *)
(* ReadTooEarly show that the code needs both conditions, which it does    *)
(* not check.                                                              *)
(*                                                                         *)
(* Then CqlQuery: what a normal return of cqlQueryWithRowKeys promises and *)
(* the bound on simultaneous queries, for any number of row keys, sizes of *)
(* results, pools, limits, faults and kills.                               *)
(***************************************************************************)
EXTENDS CqlQuery, RowTimes, FiniteSetTheorems, TLAPS

LEMMA Multiples ==
    ASSUME NEW x \in Int, NEW y \in Int, NEW w \in Nat, x <= y
    PROVE  w * x <= w * y
<1>1. w * (y - x) >= 0
  OBVIOUS
<1>2. w * (y - x) = w * y - w * x
  OBVIOUS
<1> QED
  BY <1>1, <1>2

LEMMA Division ==
    ASSUME NEW n \in Nat, NEW w \in Nat \ {0}
    PROVE  /\ n % w \in 0 .. w - 1
           /\ n \div w \in Nat
           /\ n = w * (n \div w) + (n % w)
  OBVIOUS

(* Rounding down to a multiple of w keeps the order.                       *)
LEMMA RoundedInOrder ==
    ASSUME NEW s \in Nat, NEW t \in Nat, NEW w \in Nat \ {0}, s <= t
    PROVE  s - (s % w) <= t - (t % w)
<1> DEFINE p == s \div w
           q == t \div w
<1>1. /\ p \in Nat /\ s = w * p + (s % w) /\ s % w \in 0 .. w - 1
      /\ q \in Nat /\ t = w * q + (t % w) /\ t % w \in 0 .. w - 1
  BY Division
<1>2. w * p \in Int /\ w * q \in Int
  BY <1>1
<1> HIDE DEF p, q
<1>3. CASE p <= q
  <2>1. w * p <= w * q
    BY <1>1, <1>3, Multiples
  <2> QED
    BY <1>1, <1>2, <2>1
<1>4. CASE q + 1 <= p
  <2>1. w * (q + 1) <= w * p
    BY <1>1, <1>4, Multiples
  <2>2. w * (q + 1) = w * q + w
    BY <1>1
  <2> QED
    BY <1>1, <1>2, <2>1, <2>2
<1> QED
  BY <1>1, <1>3, <1>4

(* What fits into the bytes of an int is not changed by them.              *)
LEMMA SmallBytes ==
    ASSUME NEW n \in Nat, n < 2 * HalfWord
    PROVE  Bytes(n) = n
  BY WordAssumption DEF Bytes

(* A row begins at or before each of its data points, and it is spec.width *)
(* milliseconds long (calculateRowTime): in the unit of seconds too, where *)
(* getRowWidthInMillis says a thousand times as much.                      *)
THEOREM RowHolds ==
    ASSUME NEW spec \in RowSpecs, NEW ts \in Int
    PROVE  /\ calculateRowTime(spec, ts) \in Int
           /\ calculateRowTime(spec, ts) <= ts
           /\ ts <= calculateRowTime(spec, ts) + spec.width - 1
<1>1. spec.width \in Nat \ {0} /\ Abs(ts) \in Nat
  BY DEF RowSpecs, Abs
<1>2. Abs(ts) % spec.width \in 0 .. spec.width - 1
  BY <1>1, Division
<1> QED
  BY <1>1, <1>2 DEF calculateRowTime

(* From 1970 on, the rows are in the order of their data points: no data   *)
(* point of a range lies in a row before the row of the range's start,     *)
(* where createQueryKeyList begins.                                        *)
LEMMA RowsInOrder ==
    ASSUME NEW spec \in RowSpecs, NEW s \in Nat, NEW t \in Nat, s <= t
    PROVE  calculateRowTime(spec, s) <= calculateRowTime(spec, t)
<1>1. spec.width \in Nat \ {0} /\ Abs(s) = s /\ Abs(t) = t
  BY DEF RowSpecs, Abs
<1>2. s - (s % spec.width) <= t - (t % spec.width)
  BY <1>1, RoundedInOrder
<1> QED
  BY <1>1, <1>2 DEF calculateRowTime

(* The name of a column is the distance from the row, when the width fits. *)
LEMMA ColumnNames ==
    ASSUME NEW spec \in RowSpecs, spec.width < HalfWord, NEW row \in Int,
           NEW ts \in row .. row + getRowWidthInMillis(spec)
    PROVE  /\ spec.unit = "milliseconds" =>
                getColumnName(spec, row, ts) = ts - row
           /\ spec.unit = "legacy" =>
                getColumnName(spec, row, ts) = 2 * (ts - row)
           /\ spec.unit = "seconds" =>
                getColumnName(spec, row, ts) = (ts - row) \div 1000
<1> DEFINE d == ts - row
<1>1. spec.width \in Nat \ {0} /\ HalfWord \in Nat \ {0}
  BY WordAssumption DEF RowSpecs
<1>2. CASE spec.unit # "seconds"
  <2>1. getRowWidthInMillis(spec) = spec.width
    BY <1>2 DEF getRowWidthInMillis
  <2>2. /\ d \in Nat /\ d < 2 * HalfWord
        /\ 2 * d \in Nat /\ 2 * d < 2 * HalfWord
    BY <1>1, <2>1
  <2> QED
    BY <1>2, <2>2, SmallBytes DEF getColumnName
<1>3. CASE spec.unit = "seconds"
  <2>1. getRowWidthInMillis(spec) = spec.width * 1000
    BY <1>3 DEF getRowWidthInMillis
  <2>2. d \div 1000 \in Nat /\ d \div 1000 < 2 * HalfWord
    BY <1>1, <2>1
  <2> QED
    BY <1>3, <2>2, SmallBytes DEF getColumnName
<1> QED
  BY <1>2, <1>3

(* Within a row and its end, the columns are in the order of their times,  *)
(* and there is room for one more.                                         *)
LEMMA ColumnsInOrder ==
    ASSUME NEW spec \in RowSpecs, spec.width < HalfWord, NEW row \in Int,
           NEW a \in row .. row + getRowWidthInMillis(spec),
           NEW b \in row .. row + getRowWidthInMillis(spec)
    PROVE  /\ getColumnName(spec, row, a) \in Nat
           /\ Bytes(getColumnName(spec, row, a) + 1)
                = getColumnName(spec, row, a) + 1
           /\ a <= b =>
                getColumnName(spec, row, a) <= getColumnName(spec, row, b)
           /\ spec.unit # "seconds" /\ a < b =>
                getColumnName(spec, row, a) < getColumnName(spec, row, b)
<1>1. /\ spec.width \in Nat \ {0} /\ HalfWord \in Nat \ {0}
      /\ spec.unit \in Units
  BY WordAssumption DEF RowSpecs
<1>2. CASE spec.unit = "seconds"
  <2>1. /\ getColumnName(spec, row, a) = (a - row) \div 1000
        /\ getColumnName(spec, row, b) = (b - row) \div 1000
    BY <1>2, ColumnNames
  <2>2. a - row <= spec.width * 1000
    BY <1>1, <1>2 DEF getRowWidthInMillis
  <2>3. /\ (a - row) \div 1000 \in Nat
        /\ (a - row) \div 1000 + 1 < 2 * HalfWord
        /\ a <= b => (a - row) \div 1000 <= (b - row) \div 1000
    BY <1>1, <2>2
  <2> QED
    BY <1>2, <2>1, <2>3, SmallBytes
<1>3. CASE spec.unit = "milliseconds"
  <2>1. /\ getColumnName(spec, row, a) = a - row
        /\ getColumnName(spec, row, b) = b - row
    BY <1>3, ColumnNames
  <2>2. a - row <= spec.width
    BY <1>1, <1>3 DEF getRowWidthInMillis
  <2>3. a - row + 1 \in Nat /\ a - row + 1 < 2 * HalfWord
    BY <1>1, <2>2
  <2> QED
    BY <2>1, <2>3, SmallBytes
<1>4. CASE spec.unit = "legacy"
  <2>1. /\ getColumnName(spec, row, a) = 2 * (a - row)
        /\ getColumnName(spec, row, b) = 2 * (b - row)
    BY <1>4, ColumnNames
  <2>2. a - row <= spec.width
    BY <1>1, <1>4 DEF getRowWidthInMillis
  <2>3. 2 * (a - row) + 1 \in Nat /\ 2 * (a - row) + 1 < 2 * HalfWord
    BY <1>1, <2>2
  <2> QED
    BY <2>1, <2>3, SmallBytes
<1> QED
  BY <1>1, <1>2, <1>3, <1>4 DEF Units

(* The row of a data point, with its width as getRowWidthInMillis has it.  *)
LEMMA InItsRow ==
    ASSUME NEW spec \in RowSpecs, NEW ts \in Int
    PROVE  /\ calculateRowTime(spec, ts) \in Int
           /\ getRowWidthInMillis(spec) \in Nat
           /\ calculateRowTime(spec, ts) <= ts
           /\ ts < calculateRowTime(spec, ts) + getRowWidthInMillis(spec)
<1>1. spec.width \in Nat \ {0}
  BY DEF RowSpecs
<1>2. /\ getRowWidthInMillis(spec) \in Nat
      /\ getRowWidthInMillis(spec) >= spec.width
  BY <1>1 DEF getRowWidthInMillis
<1> QED
  BY <1>1, <1>2, RowHolds

(* A data point is read with the time it was written with; in the unit of  *)
(* seconds, with the beginning of its second as counted from its row       *)
(* (getColumnName, getColumnTimestamp).                                    *)
THEOREM ReadAsWritten ==
    ASSUME NEW spec \in RowSpecs, spec.width < HalfWord, NEW ts \in Int
    PROVE  /\ spec.unit # "seconds" => ReadAs(spec, ts) = ts
           /\ spec.unit = "seconds" => /\ ReadAs(spec, ts) <= ts
                                       /\ ts < ReadAs(spec, ts) + 1000
<1> DEFINE row == calculateRowTime(spec, ts)
<1>1. spec.width \in Nat \ {0} /\ HalfWord \in Nat \ {0}
  BY WordAssumption DEF RowSpecs
<1>2. row \in Int /\ row <= ts /\ ts <= row + spec.width - 1
  BY RowHolds
<1>3. ts \in row .. row + getRowWidthInMillis(spec)
  BY InItsRow
<1>4. ReadAs(spec, ts) =
        getColumnTimestamp(spec, row, getColumnName(spec, row, ts))
  BY DEF ReadAs, ColumnOf
<1> HIDE DEF row
<1>5. CASE spec.unit = "milliseconds"
  <2>1. getColumnName(spec, row, ts) = ts - row
    BY <1>2, <1>3, <1>5, ColumnNames
  <2> QED
    BY <1>1, <1>2, <1>4, <1>5, <2>1 DEF getColumnTimestamp, Signed
<1>6. CASE spec.unit = "legacy"
  <2>1. getColumnName(spec, row, ts) = 2 * (ts - row)
    BY <1>2, <1>3, <1>6, ColumnNames
  <2> QED
    BY <1>1, <1>2, <1>4, <1>6, <2>1 DEF getColumnTimestamp
<1>7. CASE spec.unit = "seconds"
  <2>1. getColumnName(spec, row, ts) = (ts - row) \div 1000
    BY <1>2, <1>3, <1>7, ColumnNames
  <2> QED
    BY <1>1, <1>2, <1>4, <1>7, <2>1 DEF getColumnTimestamp, Signed
<1> QED
  BY <1>5, <1>6, <1>7 DEF RowSpecs, Units

(* A query whose range begins in 1970 or later finds every data point of   *)
(* the range, its first and its last millisecond included                  *)
(* (createQueryKeyList, cqlQueryWithRowKeys).                              *)
THEOREM RangeFound ==
    ASSUME NEW spec \in RowSpecs, spec.width < HalfWord,
           NEW start \in Nat, NEW end \in Nat, NEW ts \in start .. end
    PROVE  Finds(spec, ts, start, end)
<1> DEFINE row == calculateRowTime(spec, ts)
           width == getRowWidthInMillis(spec)
<1>1. row \in Int /\ width \in Nat /\ row <= ts /\ ts < row + width
  BY InItsRow
<1>2. RowListed(spec, row, start, end)
  BY <1>1, RowsInOrder DEF RowListed
<1>3. FirstColumn(spec, row, start) <= ColumnOf(spec, ts)
  <2>1. CASE start < row
    BY <1>1, <2>1, ColumnsInOrder DEF FirstColumn, ColumnOf
  <2>2. CASE start >= row
    BY <1>1, <2>2, ColumnsInOrder DEF FirstColumn, ColumnOf
  <2> QED
    BY <1>1, <2>1, <2>2
<1>4. ColumnOf(spec, ts) < LastColumn(spec, row, end)
  <2>1. CASE end > row + width
    BY <1>1, <2>1, ColumnsInOrder DEF LastColumn, ColumnOf
  <2>2. CASE end <= row + width
    BY <1>1, <2>2, ColumnsInOrder DEF LastColumn, ColumnOf
  <2> QED
    BY <1>1, <2>1, <2>2
<1> QED
  BY <1>2, <1>3, <1>4 DEF Finds

(* A query finds no data point outside its range: with columns in          *)
(* milliseconds, whatever the range (cqlQueryWithRowKeys; nothing filters  *)
(* the data points that the statement returns).                            *)
THEOREM OnlyRangeFound ==
    ASSUME NEW spec \in RowSpecs, spec.width < HalfWord, spec.unit # "seconds",
           NEW start \in Int, NEW end \in Int, NEW ts \in Int,
           Finds(spec, ts, start, end)
    PROVE  ts \in start .. end
<1> DEFINE row == calculateRowTime(spec, ts)
           width == getRowWidthInMillis(spec)
<1>1. row \in Int /\ width \in Nat /\ row <= ts /\ ts < row + width
  BY InItsRow
<1>2. calculateRowTime(spec, start) <= row /\ row <= end
  BY DEF Finds, RowListed
<1>3. start <= row + width
  BY <1>1, <1>2, InItsRow
<1>4. start <= ts
  <2>1. SUFFICES ASSUME ts < start
                 PROVE  FALSE
    BY <1>1
  <2>2. ColumnOf(spec, ts) < FirstColumn(spec, row, start)
    BY <1>1, <1>3, <2>1, ColumnsInOrder DEF FirstColumn, ColumnOf
  <2>3. FirstColumn(spec, row, start) <= ColumnOf(spec, ts)
    BY DEF Finds
  <2> QED
    BY <1>1, <1>3, <2>1, <2>2, <2>3, ColumnsInOrder DEF FirstColumn, ColumnOf
<1>5. ts <= end
  <2>1. SUFFICES ASSUME end < ts
                 PROVE  FALSE
    BY <1>1
  <2>2. LastColumn(spec, row, end) <= ColumnOf(spec, ts)
    BY <1>1, <1>2, <2>1, ColumnsInOrder DEF LastColumn, ColumnOf
  <2>3. ColumnOf(spec, ts) < LastColumn(spec, row, end)
    BY DEF Finds
  <2> QED
    BY <1>1, <1>2, <2>1, <2>2, <2>3, ColumnsInOrder DEF LastColumn, ColumnOf
<1> QED
  BY <1>4, <1>5

(* What a delete takes of a row it does not take as a whole.               *)
LEMMA PartsInRow ==
    ASSUME NEW spec \in RowSpecs, NEW row \in Int, NEW start \in Int,
           NEW end \in Int, RowListed(spec, row, start, end),
           ~ DeletesRow(spec, row, start, end)
    PROVE  /\ DeleteFrom(row, start) \in row .. row + getRowWidthInMillis(spec)
           /\ DeleteTo(spec, row, start, end)
                \in row .. row + getRowWidthInMillis(spec)
<1>1. /\ getRowWidthInMillis(spec) \in Nat \ {0}
      /\ start <= row + getRowWidthInMillis(spec)
  BY InItsRow DEF RowListed
<1> QED
  BY <1>1 DEF RowListed, DeletesRow, DeleteFrom, DeleteTo

(* A delete whose range begins in 1970 or later takes every data point of  *)
(* the range away, by rows and by parts of rows (deleteDataPoints).        *)
THEOREM RangeDeleted ==
    ASSUME NEW spec \in RowSpecs, spec.width < HalfWord,
           NEW start \in Nat, NEW end \in Nat, NEW ts \in start .. end
    PROVE  Deletes(spec, ts, start, end)
<1> DEFINE row == calculateRowTime(spec, ts)
           width == getRowWidthInMillis(spec)
<1>1. row \in Int /\ width \in Nat /\ row <= ts /\ ts < row + width
  BY InItsRow
<1>2. RowListed(spec, row, start, end)
  BY <1>1, RowsInOrder DEF RowListed
<1>3. ASSUME ~ DeletesRow(spec, row, start, end)
      PROVE  /\ getColumnName(spec, row, DeleteFrom(row, start))
                  <= ColumnOf(spec, ts)
             /\ ColumnOf(spec, ts)
                  <= getColumnName(spec, row, DeleteTo(spec, row, start, end))
  <2>1. /\ DeleteFrom(row, start) \in row .. ts
        /\ DeleteTo(spec, row, start, end) \in ts .. row + width
    BY <1>1, <1>2, <1>3, PartsInRow DEF DeleteFrom, DeleteTo
  <2> QED
    BY <1>1, <2>1, ColumnsInOrder DEF ColumnOf
<1> QED
  BY <1>2, <1>3 DEF Deletes

(* A delete takes no data point outside its range away: with columns in    *)
(* milliseconds, whatever the range.  A row that goes as a whole lies      *)
(* within the range (deleteDataPoints).                                    *)
THEOREM OnlyRangeDeleted ==
    ASSUME NEW spec \in RowSpecs, spec.width < HalfWord, spec.unit # "seconds",
           NEW start \in Int, NEW end \in Int, NEW ts \in Int,
           Deletes(spec, ts, start, end)
    PROVE  ts \in start .. end
<1> DEFINE row == calculateRowTime(spec, ts)
           width == getRowWidthInMillis(spec)
<1>1. row \in Int /\ width \in Nat /\ row <= ts /\ ts < row + width
  BY InItsRow
<1>2. CASE DeletesRow(spec, row, start, end)
  BY <1>1, <1>2 DEF DeletesRow
<1>3. CASE ~ DeletesRow(spec, row, start, end)
  <2> DEFINE from == DeleteFrom(row, start)
             to == DeleteTo(spec, row, start, end)
  <2>1. from \in row .. row + width /\ to \in row .. row + width
    BY <1>1, <1>3, PartsInRow DEF Deletes
  <2>2. /\ getColumnName(spec, row, from) <= getColumnName(spec, row, ts)
        /\ getColumnName(spec, row, ts) <= getColumnName(spec, row, to)
    BY <1>3 DEF Deletes, ColumnOf
  <2>3. /\ getColumnName(spec, row, from) \in Nat
        /\ getColumnName(spec, row, ts) \in Nat
        /\ getColumnName(spec, row, to) \in Nat
        /\ ts < from =>
             getColumnName(spec, row, ts) < getColumnName(spec, row, from)
        /\ to < ts =>
             getColumnName(spec, row, to) < getColumnName(spec, row, ts)
    BY <1>1, <2>1, ColumnsInOrder
  <2>4. start <= from /\ to <= end
    BY <1>1 DEF DeleteFrom, DeleteTo
  <2> HIDE DEF from, to
  <2> QED
    BY <1>1, <2>1, <2>2, <2>3, <2>4
<1> QED
  BY <1>2, <1>3

(* Before 1970 calculateRowTime rounds away from zero twice: a range that  *)
(* begins with the first millisecond of a row does not find the next       *)
(* millisecond, whose row begins before it.                                *)
THEOREM MissedBefore1970 ==
    ASSUME NEW spec \in RowSpecs, spec.width > 2, NEW end \in Int
    PROVE  ~ Finds(spec, 1 - spec.width, - spec.width, end)
<1> DEFINE w == spec.width
<1>1. w \in Nat /\ w > 2
  BY DEF RowSpecs
<1> HIDE DEF w
<1>2. w % w = 0 /\ (w - 1) % w = w - 1
  <2>1. /\ w % w \in 0 .. w - 1 /\ w \div w \in Nat
        /\ w = w * (w \div w) + (w % w)
    BY <1>1, Division
  <2>2. /\ (w - 1) % w \in 0 .. w - 1 /\ (w - 1) \div w \in Nat
        /\ w - 1 = w * ((w - 1) \div w) + ((w - 1) % w)
    BY <1>1, Division
  <2> QED
    BY <1>1, <2>1, <2>2
<1>3. Abs(- w) = w /\ Abs(1 - w) = w - 1
  BY <1>1 DEF Abs
<1>4. /\ calculateRowTime(spec, - w) = - w
      /\ calculateRowTime(spec, 1 - w) = 2 - 2 * w
  BY <1>1, <1>2, <1>3 DEF calculateRowTime, w
<1>5. ~ (calculateRowTime(spec, - w) <= calculateRowTime(spec, 1 - w))
  BY <1>1, <1>4
<1> QED
  BY <1>5 DEF Finds, RowListed, w

(* Nothing checks the width that is configured: when the rows are wider    *)
(* than 2^31 milliseconds, some 25 days, a data point that lies so far     *)
(* into its row is read with a time before the row (getColumnTimestamp).   *)
THEOREM ReadTooEarly ==
    ASSUME NEW spec \in RowSpecs, spec.unit = "milliseconds",
           spec.width > HalfWord
    PROVE  ReadAs(spec, HalfWord) = - HalfWord
<1>1. HalfWord \in Nat \ {0} /\ spec.width \in Nat \ {0}
  BY WordAssumption DEF RowSpecs
<1>2. HalfWord % spec.width = HalfWord /\ Abs(HalfWord) = HalfWord
  BY <1>1 DEF Abs
<1>3. calculateRowTime(spec, HalfWord) = 0
  BY <1>1, <1>2 DEF calculateRowTime
<1>4. ColumnOf(spec, HalfWord) = HalfWord
  BY <1>1, <1>3, SmallBytes DEF ColumnOf, getColumnName
<1> QED
  BY <1>1, <1>3, <1>4 DEF ReadAs, getColumnTimestamp, Signed

-----------------------------------------------------------------------------
(* The inductive invariant.  The calling thread knows that the listeners   *)
(* are done only from the permits it gets back, so the count of the        *)
(* permits is carried along with who may hold one; and a listener that did *)
(* not write its whole row has set the exception before it releases.       *)

(* Row keys are sent in the order of the iterator.                         *)
SentInv == \A r \in Rows : listener[r] = "none" <=> r >= nextRow

(* The permits in the semaphore and those of the listeners never exceed    *)
(* the pool, even once the calling thread has left.                        *)
PermitsBounded == permits + Cardinality(InFlight) <= Simultaneous

(* Which permit the calling thread has at each place.                      *)
HoldingInv ==
    /\ pc \in {"keys", "next", "permit"} => ~holding
    /\ pc \in {"permit", "monitor"} => nextRow \in Rows
    /\ pc = "monitor" => holding \/ (exception /\ ~keepRunning)
    /\ pc = "check" => nextRow \notin Rows \/ holding \/ exception
    /\ pc = "drain" => nextRow \notin Rows \/ holding

AllDone == \A r \in Rows : listener[r] = "done"

(* The executor is shut down at the end, after a failure or after the last *)
(* listener.                                                               *)
ShutdownInv ==
    /\ shutdown => pc \in {"final", "returned", "thrown"}
    /\ pc = "shutdown" \/ (pc \in {"final", "returned"} /\ shutdown) => exception \/ AllDone

(* A row key's data points are all written, or the exception is set,       *)
(* before the listener releases its permit.                                *)
ListenerInv ==
    \A r \in Rows :
        /\ listener[r] \in {"none", "sent", "answered", "refused", "reading"} => written[r] = 0
        /\ listener[r] = "rejected" => shutdown
        /\ listener[r] \in {"leaving", "done"} => exception \/ written[r] = RowSize[r]

IInv ==
    /\ TypeOK
    /\ SentInv
    /\ PermitsCounted
    /\ PermitsBounded
    /\ HoldingInv
    /\ ShutdownInv
    /\ ListenerInv
    /\ AnswerComplete
-----------------------------------------------------------------------------
(* The queries in flight                                                   *)

LEMMA RowsFinite == IsFiniteSet(Rows)
  BY FS_Interval, SizesAssumption DEF Rows

LEMMA InFlightFinite == IsFiniteSet(InFlight) /\ Cardinality(InFlight) \in Nat
<1>1. InFlight \subseteq Rows
  BY DEF InFlight
<1> QED BY <1>1, RowsFinite, FS_Subset, FS_CardinalityType

(* A step that moves a row key between two phases in flight.               *)
LEMMA InFlightSame ==
    ASSUME TypeOK, NEW r \in Rows, r \in InFlight, NEW phase \in Phases \ {"none", "done", "rejected"},
           listener' = [listener EXCEPT ![r] = phase]
    PROVE  InFlight' = InFlight
  BY DEF InFlight, TypeOK

(* A listener that is done, or rejected, leaves.                           *)
LEMMA InFlightLess ==
    ASSUME TypeOK, NEW r \in Rows, r \in InFlight, NEW phase \in {"done", "rejected"},
           listener' = [listener EXCEPT ![r] = phase]
    PROVE  /\ InFlight' = InFlight \ {r}
           /\ Cardinality(InFlight') = Cardinality(InFlight) - 1
           /\ Cardinality(InFlight) \in Nat \ {0}
<1>1. InFlight' = InFlight \ {r}
  BY DEF InFlight, TypeOK
<1>2. Cardinality(InFlight') = Cardinality(InFlight) - 1
  BY <1>1, InFlightFinite, FS_RemoveElement
<1>3. Cardinality(InFlight) # 0
  BY InFlightFinite, FS_EmptySet
<1> QED BY <1>1, <1>2, <1>3, InFlightFinite

LEMMA NobodyInFlight ==
    ASSUME Cardinality(InFlight) = 0
    PROVE  \A r \in Rows : listener[r] \in {"none", "done", "rejected"}
<1>1. InFlight = {}
  BY InFlightFinite, FS_EmptySet
<1> QED BY <1>1 DEF InFlight

-----------------------------------------------------------------------------
THEOREM InitCorrect == Init => IInv
<1> SUFFICES ASSUME Init PROVE IInv
  OBVIOUS
<1> USE SizesAssumption, PoolsAssumption, BoundsAssumption
<1>1. TypeOK
  <2>1. /\ listener \in [Rows -> Phases]
        /\ buffered \in [Rows -> Nat] /\ written \in [Rows -> Nat]
    BY DEF Init, Phases
  <2>2. nextRow \in 1 .. RowCount + 1
    BY DEF Init
  <2>3. permits \in 0 .. Simultaneous /\ faults \in 0 .. MaxFaults /\ kills \in 0 .. MaxKills
    BY DEF Init
  <2> QED BY <2>1, <2>2, <2>3 DEF Init, TypeOK, Steps
<1>2. SentInv
  BY DEF Init, SentInv, Rows
<1>3. Cardinality(InFlight) = 0
  <2>1. InFlight = {}
    BY DEF Init, InFlight
  <2> QED BY <2>1, FS_EmptySet
<1>4. PermitsCounted /\ PermitsBounded
  BY <1>3 DEF Init, PermitsCounted, PermitsBounded
<1>5. HoldingInv /\ ShutdownInv /\ ListenerInv /\ AnswerComplete
  BY DEF Init, HoldingInv, ShutdownInv, ListenerInv, AnswerComplete
<1> QED BY <1>1, <1>2, <1>4, <1>5 DEF IInv

(* Type correctness: the counts of permits stay within the pool because a  *)
(* listener that releases one is in flight.                                *)
LEMMA TypeStep == IInv /\ [Next]_vars => TypeOK'
<1> SUFFICES ASSUME IInv, [Next]_vars PROVE TypeOK'
  OBVIOUS
<1> USE SizesAssumption, PoolsAssumption, BoundsAssumption
        DEF mainVars, monitorVars, rowVars, boundVars
<1>0. TypeOK
  BY DEF IInv
<1>1. CASE ReadKeys
  BY <1>0, <1>1 DEF TypeOK, ReadKeys, Steps
<1>2. CASE KeysFail
  BY <1>0, <1>2 DEF TypeOK, KeysFail, Steps
<1>3. CASE HasNext
  BY <1>0, <1>3 DEF TypeOK, HasNext, Steps
<1>4. CASE AcquirePermit
  BY <1>0, <1>4 DEF TypeOK, AcquirePermit, Steps
<1>5. CASE AcquireInterrupted
  BY <1>0, <1>5 DEF TypeOK, AcquireInterrupted, Steps
<1>6. CASE Send
  <2>1. nextRow \in Rows
    BY <1>6 DEF IInv, HoldingInv, Send
  <2>2. nextRow' \in 1 .. RowCount + 1
    BY <1>6, <2>1 DEF Send, Rows
  <2>3. listener' \in [Rows -> Phases]
    BY <1>0, <1>6 DEF TypeOK, Send, Phases
  <2> QED BY <1>0, <1>6, <2>2, <2>3 DEF TypeOK, Send, Steps
<1>7. CASE Cancel
  <2>1. listener' \in [Rows -> Phases]
    BY <1>0, <1>7 DEF TypeOK, Cancel, Phases
  <2>2. keepRunning' \in BOOLEAN /\ exception' \in BOOLEAN
    BY <1>0, <1>7 DEF TypeOK, Cancel
  <2> QED BY <1>0, <1>7, <2>1, <2>2 DEF TypeOK, Cancel, Steps
<1>8. CASE CheckException
  BY <1>0, <1>8 DEF TypeOK, CheckException, Steps
<1>9. CASE Drain
  BY <1>0, <1>9 DEF TypeOK, Drain, Steps
<1>10. CASE DrainInterrupted
  BY <1>0, <1>10 DEF TypeOK, DrainInterrupted, Steps
<1>11. CASE Shutdown
  BY <1>0, <1>11 DEF TypeOK, Shutdown, Steps
<1>12. CASE Finish
  BY <1>0, <1>12 DEF TypeOK, Finish, Steps
<1>13. CASE Kill
  BY <1>0, <1>13 DEF TypeOK, Kill
<1>14. ASSUME NEW r \in Rows, Answer(r) \/ Refuse(r) PROVE TypeOK'
  <2>1. listener' \in [Rows -> Phases]
    BY <1>0, <1>14 DEF TypeOK, Answer, Refuse, Deliver, Phases
  <2>2. faults' \in 0 .. MaxFaults /\ kills' \in 0 .. MaxKills
    BY <1>0, <1>14 DEF TypeOK, Answer, Refuse, Deliver
  <2> QED BY <1>0, <1>14, <2>1, <2>2 DEF TypeOK, Answer, Refuse, Deliver
<1>15. ASSUME NEW r \in Rows, StartReading(r) PROVE TypeOK'
  <2>1. listener' \in [Rows -> Phases]
    BY <1>0, <1>15 DEF TypeOK, StartReading, Phases
  <2> QED BY <1>0, <1>15, <2>1 DEF TypeOK, StartReading
<1>16. ASSUME NEW r \in Rows, ReadPoint(r) PROVE TypeOK'
  <2>1. buffered' \in [Rows -> Nat] /\ counter' \in Nat
    BY <1>0, <1>16 DEF TypeOK, ReadPoint
  <2> QED BY <1>0, <1>16, <2>1 DEF TypeOK, ReadPoint
<1>17. ASSUME NEW r \in Rows, CloseRow(r) PROVE TypeOK'
  <2>1. listener' \in [Rows -> Phases] /\ written' \in [Rows -> Nat]
    BY <1>0, <1>17 DEF TypeOK, CloseRow, Phases
  <2> QED BY <1>0, <1>17, <2>1 DEF TypeOK, CloseRow
<1>18. ASSUME NEW r \in Rows, ReadFails(r) PROVE TypeOK'
  <2>1. listener' \in [Rows -> Phases] /\ written' \in [Rows -> Nat]
    BY <1>0, <1>18 DEF TypeOK, ReadFails, Phases
  <2>2. faults' \in 0 .. MaxFaults
    BY <1>0, <1>18 DEF TypeOK, ReadFails
  <2> QED BY <1>0, <1>18, <2>1, <2>2 DEF TypeOK, ReadFails
<1>19. ASSUME NEW r \in Rows, StartFailing(r) \/ SetException(r) PROVE TypeOK'
  <2>1. listener' \in [Rows -> Phases]
    BY <1>0, <1>19 DEF TypeOK, StartFailing, SetException, Phases
  <2> QED BY <1>0, <1>19, <2>1 DEF TypeOK, StartFailing, SetException
<1>20. ASSUME NEW r \in Rows, Release(r) PROVE TypeOK'
  <2>1. r \in InFlight /\ listener' = [listener EXCEPT ![r] = "done"]
    BY <1>20 DEF Release, InFlight
  <2>2. Cardinality(InFlight) \in Nat \ {0}
    BY <1>0, <2>1, InFlightLess
  <2>3. permits' \in 0 .. Simultaneous
    BY <1>0, <1>20, <2>2 DEF TypeOK, Release, IInv, PermitsBounded
  <2>4. listener' \in [Rows -> Phases]
    BY <1>0, <1>20 DEF TypeOK, Release, Phases
  <2> QED BY <1>0, <1>20, <2>3, <2>4 DEF TypeOK, Release
<1>21. CASE UNCHANGED vars
  BY <1>0, <1>21 DEF TypeOK, vars
<1> QED BY <1>1, <1>2, <1>3, <1>4, <1>5, <1>6, <1>7, <1>8, <1>9, <1>10, <1>11, <1>12, <1>13,
           <1>14, <1>15, <1>16, <1>17, <1>18, <1>19, <1>20, <1>21
        DEF Next, Main, Faults, Listener
-----------------------------------------------------------------------------
(* The permits: only Send adds a query in flight, with the permit the      *)
(* calling thread holds, and only Release and a rejection take one away.   *)
LEMMA PermitsStep == IInv /\ [Next]_vars => PermitsCounted' /\ PermitsBounded'
<1> SUFFICES ASSUME IInv, [Next]_vars PROVE PermitsCounted' /\ PermitsBounded'
  OBVIOUS
<1> USE SizesAssumption, PoolsAssumption DEF mainVars, monitorVars, rowVars, boundVars
<1>0. TypeOK /\ PermitsCounted /\ PermitsBounded
  BY DEF IInv
<1>n. Cardinality(InFlight) \in Nat /\ permits \in Nat
  BY <1>0, InFlightFinite DEF TypeOK
<1>u. ASSUME UNCHANGED listener, UNCHANGED permits, UNCHANGED holding,
             pc' \in {"keys", "next", "permit", "monitor", "check", "drain"}
                => pc \in {"keys", "next", "permit", "monitor", "check", "drain"}
      PROVE  PermitsCounted' /\ PermitsBounded'
  <2>1. InFlight' = InFlight
    BY <1>u DEF InFlight
  <2> QED BY <1>0, <1>u, <2>1 DEF PermitsCounted, PermitsBounded
<1>m. ASSUME NEW r \in Rows, r \in InFlight, NEW phase \in Phases \ {"none", "done", "rejected"},
             listener' = [listener EXCEPT ![r] = phase],
             UNCHANGED permits, UNCHANGED holding, UNCHANGED pc
      PROVE  PermitsCounted' /\ PermitsBounded'
  <2>1. InFlight' = InFlight
    BY <1>0, <1>m, InFlightSame
  <2> QED BY <1>0, <1>m, <2>1 DEF PermitsCounted, PermitsBounded
<1>1. CASE ReadKeys \/ KeysFail \/ HasNext \/ AcquireInterrupted \/ CheckException
           \/ DrainInterrupted \/ Shutdown \/ Finish \/ Kill \/ UNCHANGED vars
  BY <1>1, <1>u DEF ReadKeys, KeysFail, HasNext, AcquireInterrupted, CheckException,
                    DrainInterrupted, Shutdown, Finish, Kill, vars
<1>4. CASE AcquirePermit
  <2>1. InFlight' = InFlight
    BY <1>4 DEF AcquirePermit, InFlight
  <2>2. ~holding
    BY <1>4 DEF IInv, HoldingInv, AcquirePermit
  <2>3. /\ permits + Cardinality(InFlight) = Simultaneous
        /\ permits' = permits - 1 /\ holding' = TRUE
    BY <1>0, <1>n, <1>4, <2>2 DEF PermitsCounted, AcquirePermit
  <2> QED BY <1>n, <2>1, <2>3 DEF PermitsCounted, PermitsBounded
<1>6. CASE Send
  <2>1. holding
    BY <1>6 DEF IInv, HoldingInv, Send
  <2>2. permits + Cardinality(InFlight) + 1 = Simultaneous
    BY <1>0, <1>6, <2>1 DEF PermitsCounted, Send
  <2>3. nextRow \in Rows /\ listener[nextRow] = "none"
    BY <1>0, <1>6 DEF IInv, HoldingInv, SentInv, Send, TypeOK
  <2>4. InFlight' = InFlight \cup {nextRow} /\ nextRow \notin InFlight
    BY <1>0, <1>6, <2>3 DEF Send, InFlight, TypeOK
  <2>5. Cardinality(InFlight') = Cardinality(InFlight) + 1
    BY <2>4, InFlightFinite, FS_AddElement
  <2>6. permits' = permits /\ holding' = FALSE
    BY <1>6 DEF Send
  <2> QED BY <1>n, <2>2, <2>5, <2>6 DEF PermitsCounted, PermitsBounded
<1>7. CASE Cancel
  <2>1. InFlight' = InFlight
    BY <1>0, <1>7 DEF Cancel, InFlight, TypeOK
  <2>2. UNCHANGED <<permits, holding>> /\ pc = "monitor"
    BY <1>7 DEF Cancel
  <2> QED BY <1>0, <2>1, <2>2 DEF PermitsCounted, PermitsBounded
<1>9. CASE Drain
  <2>1. InFlight' = InFlight
    BY <1>9 DEF Drain, InFlight
  <2>2. permits' = permits - Simultaneous /\ pc' = "shutdown"
    BY <1>9 DEF Drain
  <2> QED BY <1>0, <1>n, <2>1, <2>2 DEF PermitsCounted, PermitsBounded
<1>14. ASSUME NEW r \in Rows, NEW phase \in {"answered", "refused"}, Deliver(r, phase)
       PROVE PermitsCounted' /\ PermitsBounded'
  <2>1. r \in InFlight /\ UNCHANGED <<permits, holding, pc>>
    BY <1>14 DEF Deliver, InFlight
  <2>2. CASE ~shutdown
    BY <1>14, <1>m, <2>1, <2>2 DEF Deliver, Phases
  <2>3. CASE shutdown
    <3>1. listener' = [listener EXCEPT ![r] = "rejected"]
      BY <1>14, <2>3 DEF Deliver
    <3>2. Cardinality(InFlight') = Cardinality(InFlight) - 1
      BY <1>0, <2>1, <3>1, InFlightLess
    <3>3. pc \notin {"keys", "next", "permit", "monitor", "check", "drain"}
      BY <2>3 DEF IInv, ShutdownInv
    <3> QED BY <1>0, <1>n, <2>1, <3>2, <3>3 DEF PermitsCounted, PermitsBounded
  <2> QED BY <2>2, <2>3
<1>15. ASSUME NEW r \in Rows, StartReading(r) PROVE PermitsCounted' /\ PermitsBounded'
  <2>1. PICK phase \in {"reading", "leaving"} : listener' = [listener EXCEPT ![r] = phase]
    BY <1>15 DEF StartReading
  <2>2. r \in InFlight /\ UNCHANGED <<permits, holding, pc>>
    BY <1>15 DEF StartReading, InFlight
  <2> QED BY <1>m, <2>1, <2>2 DEF Phases
<1>16. ASSUME NEW r \in Rows, ReadPoint(r) PROVE PermitsCounted' /\ PermitsBounded'
  BY <1>16, <1>u DEF ReadPoint
<1>17. ASSUME NEW r \in Rows,
              CloseRow(r) \/ ReadFails(r) \/ StartFailing(r) \/ SetException(r)
       PROVE PermitsCounted' /\ PermitsBounded'
  <2>1. PICK phase \in {"failing", "leaving"} : listener' = [listener EXCEPT ![r] = phase]
    BY <1>17 DEF CloseRow, ReadFails, StartFailing, SetException
  <2>2. r \in InFlight /\ UNCHANGED <<permits, holding, pc>>
    BY <1>17 DEF CloseRow, ReadFails, StartFailing, SetException, InFlight
  <2> QED BY <1>m, <2>1, <2>2 DEF Phases
<1>20. ASSUME NEW r \in Rows, Release(r) PROVE PermitsCounted' /\ PermitsBounded'
  <2>1. r \in InFlight /\ listener' = [listener EXCEPT ![r] = "done"]
    BY <1>20 DEF Release, InFlight
  <2>2. Cardinality(InFlight') = Cardinality(InFlight) - 1
    BY <1>0, <2>1, InFlightLess
  <2>3. permits' = permits + 1 /\ UNCHANGED <<holding, pc>>
    BY <1>20 DEF Release
  <2> QED BY <1>0, <1>n, <2>2, <2>3 DEF PermitsCounted, PermitsBounded
<1> QED BY <1>1, <1>4, <1>6, <1>7, <1>9, <1>14, <1>15, <1>16, <1>17, <1>20
        DEF Next, Main, Faults, Listener, Answer, Refuse
-----------------------------------------------------------------------------
(* What the other steps do to a row key: a listener moves from one phase   *)
(* to another, and never back to "none".                                   *)
Moves(r, phase) == listener' = [listener EXCEPT ![r] = phase]

LEMMA SentStep == IInv /\ [Next]_vars => SentInv'
<1> SUFFICES ASSUME IInv, [Next]_vars PROVE SentInv'
  OBVIOUS
<1> USE DEF mainVars, monitorVars, rowVars, boundVars
<1>0. SentInv /\ listener \in [Rows -> Phases] /\ nextRow \in 1 .. RowCount + 1 /\ RowCount \in Nat
  BY SizesAssumption DEF IInv, TypeOK
<1>u. ASSUME UNCHANGED <<listener, nextRow>> PROVE SentInv'
  BY <1>0, <1>u DEF SentInv
<1>m. ASSUME NEW r \in Rows, listener[r] # "none", NEW phase, phase # "none", Moves(r, phase),
             UNCHANGED nextRow
      PROVE  SentInv'
  BY <1>0, <1>m DEF SentInv, Moves
<1>1. CASE ReadKeys \/ KeysFail \/ HasNext \/ AcquirePermit \/ AcquireInterrupted
           \/ CheckException \/ Drain \/ DrainInterrupted \/ Shutdown \/ Finish \/ Kill
           \/ UNCHANGED vars \/ \E r \in Rows : ReadPoint(r)
  BY <1>1, <1>u DEF ReadKeys, KeysFail, HasNext, AcquirePermit, AcquireInterrupted,
                    CheckException, Drain, DrainInterrupted, Shutdown, Finish, Kill, vars, ReadPoint
<1>6. CASE Send
  <2>1. nextRow \in Rows
    BY <1>6 DEF IInv, HoldingInv, Send
  <2> QED BY <1>0, <1>6, <2>1 DEF SentInv, Send, Rows
<1>7. CASE Cancel
  BY <1>0, <1>7 DEF SentInv, Cancel
<1>14. ASSUME NEW r \in Rows, Answer(r) \/ Refuse(r) \/ StartReading(r) \/ CloseRow(r)
              \/ ReadFails(r) \/ StartFailing(r) \/ SetException(r) \/ Release(r)
       PROVE  SentInv'
  <2>1. PICK phase : phase # "none" /\ Moves(r, phase)
    BY <1>14 DEF Answer, Refuse, Deliver, StartReading, CloseRow, ReadFails, StartFailing,
                 SetException, Release, Moves
  <2>2. listener[r] # "none" /\ UNCHANGED nextRow
    BY <1>14 DEF Answer, Refuse, Deliver, StartReading, CloseRow, ReadFails, StartFailing,
                 SetException, Release
  <2> QED BY <1>m, <2>1, <2>2
<1> QED BY <1>1, <1>6, <1>7, <1>14 DEF Next, Main, Faults, Listener

LEMMA HoldingStep == IInv /\ [Next]_vars => HoldingInv'
<1> SUFFICES ASSUME IInv, [Next]_vars PROVE HoldingInv'
  OBVIOUS
<1> USE DEF mainVars, monitorVars, rowVars, boundVars
<1>0. HoldingInv /\ TypeOK
  BY DEF IInv
<1>u. ASSUME UNCHANGED <<pc, nextRow, holding>>, exception => exception', keepRunning' => keepRunning
      PROVE  HoldingInv'
  BY <1>0, <1>u DEF HoldingInv, TypeOK
<1>1. CASE ReadKeys \/ KeysFail \/ HasNext \/ AcquirePermit \/ AcquireInterrupted
  BY <1>0, <1>1 DEF HoldingInv, ReadKeys, KeysFail, HasNext, AcquirePermit, AcquireInterrupted, TypeOK
<1>2. CASE Send
  BY <1>0, <1>2 DEF HoldingInv, Send
<1>3. CASE Cancel
  <2>1. pc = "monitor" /\ pc' = "check" /\ UNCHANGED <<nextRow, holding>>
    BY <1>3 DEF Cancel
  <2>2. exception => exception'
    BY <1>3 DEF Cancel
  <2> QED BY <1>0, <2>1, <2>2 DEF HoldingInv
<1>4. CASE CheckException \/ Drain \/ DrainInterrupted \/ Shutdown \/ Finish
  BY <1>0, <1>4 DEF HoldingInv, CheckException, Drain, DrainInterrupted, Shutdown, Finish
<1>5. CASE Kill \/ UNCHANGED vars
  BY <1>5, <1>u DEF Kill, vars
<1>6. ASSUME NEW r \in Rows, Answer(r) \/ Refuse(r) \/ StartReading(r) \/ ReadPoint(r)
             \/ CloseRow(r) \/ ReadFails(r) \/ StartFailing(r) \/ SetException(r) \/ Release(r)
      PROVE  HoldingInv'
  <2>1. UNCHANGED <<pc, nextRow, holding>>
    BY <1>6 DEF Answer, Refuse, Deliver, StartReading, ReadPoint, CloseRow, ReadFails,
                StartFailing, SetException, Release
  <2>2. exception => exception'
    BY <1>6 DEF Answer, Refuse, Deliver, StartReading, ReadPoint, CloseRow, ReadFails,
                StartFailing, SetException, Release
  <2>3. keepRunning' => keepRunning
    BY <1>6 DEF Answer, Refuse, Deliver, StartReading, ReadPoint, CloseRow, ReadFails,
                StartFailing, SetException, Release
  <2> QED BY <1>u, <2>1, <2>2, <2>3
<1> QED BY <1>1, <1>2, <1>3, <1>4, <1>5, <1>6 DEF Next, Main, Faults, Listener

(* The row keys' data: a listener that has its whole row, or has set the   *)
(* exception, may release.                                                 *)
LEMMA ListenerStep == IInv /\ [Next]_vars => ListenerInv'
<1> SUFFICES ASSUME IInv, [Next]_vars PROVE ListenerInv'
  OBVIOUS
<1> USE DEF mainVars, monitorVars, rowVars, boundVars
<1>0. /\ ListenerInv /\ listener \in [Rows -> Phases]
      /\ written \in [Rows -> Nat] /\ RowSize \in [Rows -> Nat]
  BY SizesAssumption DEF IInv, TypeOK
<1>u. ASSUME UNCHANGED <<listener, written>>, exception => exception', shutdown => shutdown'
      PROVE  ListenerInv'
  BY <1>0, <1>u DEF ListenerInv
<1>1. CASE ReadKeys \/ KeysFail \/ HasNext \/ AcquirePermit \/ AcquireInterrupted
           \/ CheckException \/ Drain \/ DrainInterrupted \/ Shutdown \/ Finish \/ Kill
           \/ UNCHANGED vars \/ \E r \in Rows : ReadPoint(r)
  <2>1. UNCHANGED <<listener, written>>
    BY <1>1 DEF ReadKeys, KeysFail, HasNext, AcquirePermit, AcquireInterrupted,
                CheckException, Drain, DrainInterrupted, Shutdown, Finish, Kill, vars, ReadPoint
  <2>2. exception => exception'
    BY <1>1 DEF ReadKeys, KeysFail, HasNext, AcquirePermit, AcquireInterrupted,
                CheckException, Drain, DrainInterrupted, Shutdown, Finish, Kill, vars, ReadPoint
  <2>3. shutdown => shutdown'
    BY <1>1 DEF ReadKeys, KeysFail, HasNext, AcquirePermit, AcquireInterrupted,
                CheckException, Drain, DrainInterrupted, Shutdown, Finish, Kill, vars, ReadPoint
  <2> QED BY <1>u, <2>1, <2>2, <2>3
<1>2. CASE Send
  <2>1. nextRow \in Rows /\ listener[nextRow] = "none"
    BY <1>2 DEF IInv, HoldingInv, SentInv, TypeOK, Send
  <2> QED BY <1>0, <1>2, <2>1 DEF ListenerInv, Send
<1>3. CASE Cancel
  <2>1. exception => exception'
    BY <1>3 DEF Cancel
  <2>2. UNCHANGED <<written, shutdown>>
    BY <1>3 DEF Cancel
  <2>3. \A r \in Rows : listener'[r] = listener[r]
                         \/ (listener[r] = "sent" /\ listener'[r] = "refused")
    BY <1>3 DEF Cancel
  <2> QED BY <1>0, <2>1, <2>2, <2>3 DEF ListenerInv
<1>4. ASSUME NEW r \in Rows, Answer(r) \/ Refuse(r) PROVE ListenerInv'
  <2>1. UNCHANGED <<written, shutdown, exception>> /\ listener[r] = "sent"
    BY <1>4 DEF Answer, Refuse, Deliver
  <2>2. PICK phase \in {"answered", "refused"} : Moves(r, IF shutdown THEN "rejected" ELSE phase)
    BY <1>4 DEF Answer, Refuse, Deliver, Moves
  <2> QED BY <1>0, <2>1, <2>2 DEF ListenerInv, Moves
<1>5. ASSUME NEW r \in Rows, StartReading(r) PROVE ListenerInv'
  BY <1>0, <1>5 DEF ListenerInv, StartReading
<1>6. ASSUME NEW r \in Rows, CloseRow(r) PROVE ListenerInv'
  BY <1>0, <1>6 DEF ListenerInv, CloseRow
<1>7. ASSUME NEW r \in Rows, ReadFails(r) \/ StartFailing(r) PROVE ListenerInv'
  BY <1>0, <1>7 DEF ListenerInv, ReadFails, StartFailing
<1>8. ASSUME NEW r \in Rows, SetException(r) PROVE ListenerInv'
  BY <1>0, <1>8 DEF ListenerInv, SetException
<1>9. ASSUME NEW r \in Rows, Release(r) PROVE ListenerInv'
  BY <1>0, <1>9 DEF ListenerInv, Release
<1> QED BY <1>1, <1>2, <1>3, <1>4, <1>5, <1>6, <1>7, <1>8, <1>9 DEF Next, Main, Faults, Listener
-----------------------------------------------------------------------------
(* The calling thread gets all the permits back only when every row key    *)
(* was sent and every listener is done.                                    *)
LEMMA DrainedAll == IInv /\ Drain => AllDone
<1> SUFFICES ASSUME IInv, Drain PROVE AllDone
  OBVIOUS
<1>1. permits >= Simultaneous /\ pc = "drain" /\ TypeOK
  BY DEF Drain, IInv
<1>2. permits + Cardinality(InFlight) + (IF holding THEN 1 ELSE 0) = Simultaneous
  BY <1>1 DEF IInv, PermitsCounted
<1>3. permits \in Nat /\ Simultaneous \in Nat /\ Cardinality(InFlight) \in Nat
  BY <1>1, InFlightFinite, PoolsAssumption DEF TypeOK
<1>4. ~holding /\ Cardinality(InFlight) = 0
  BY <1>1, <1>2, <1>3
<1>5. nextRow \notin Rows
  BY <1>1, <1>4 DEF IInv, HoldingInv
<1>6. \A r \in Rows : listener[r] # "none"
  BY <1>1, <1>5, SizesAssumption DEF IInv, SentInv, TypeOK, Rows
<1>7. ~shutdown
  BY <1>1 DEF IInv, ShutdownInv
<1>8. \A r \in Rows : listener[r] # "rejected"
  BY <1>7 DEF IInv, ListenerInv
<1> QED BY <1>4, <1>6, <1>8, NobodyInFlight DEF AllDone

(* Once all the listeners are done nothing changes their state.            *)
LEMMA DoneStays == IInv /\ AllDone /\ [Next]_vars => UNCHANGED <<listener, written>> \/ pc = "monitor"
  BY DEF AllDone, Next, Main, Faults, Listener, ReadKeys, KeysFail, HasNext, AcquirePermit,
         AcquireInterrupted, Send, Cancel, CheckException, Drain, DrainInterrupted, Shutdown,
         Finish, Kill, Answer, Refuse, Deliver, StartReading, ReadPoint, CloseRow, ReadFails,
         StartFailing, SetException, Release, rowVars, vars

LEMMA ExceptionStays == [Next]_vars => (exception => exception')
  BY DEF Next, Main, Faults, Listener, ReadKeys, KeysFail, HasNext, AcquirePermit,
         AcquireInterrupted, Send, Cancel, CheckException, Drain, DrainInterrupted, Shutdown,
         Finish, Kill, Answer, Refuse, Deliver, StartReading, ReadPoint, CloseRow, ReadFails,
         StartFailing, SetException, Release, monitorVars, vars

(* Only the calling thread moves, and only Shutdown shuts the executor     *)
(* down.                                                                   *)
LEMMA OthersKeepCaller ==
    ASSUME Kill \/ UNCHANGED vars
           \/ \E r \in Rows : Answer(r) \/ Refuse(r) \/ ReadFails(r) \/ Listener(r)
    PROVE  UNCHANGED <<pc, shutdown>>
  BY DEF Listener, Kill, Answer, Refuse, Deliver, StartReading, ReadPoint, CloseRow, ReadFails,
         StartFailing, SetException, Release, mainVars, vars

LEMMA ShutdownStep == IInv /\ [Next]_vars => ShutdownInv'
<1> SUFFICES ASSUME IInv, [Next]_vars PROVE ShutdownInv'
  OBVIOUS
<1>0. ShutdownInv /\ (exception => exception')
  BY ExceptionStays DEF IInv
<1>a. AllDone /\ pc # "monitor" => AllDone'
  BY DoneStays DEF AllDone
<1>1. CASE Kill \/ UNCHANGED vars
           \/ \E r \in Rows : Answer(r) \/ Refuse(r) \/ ReadFails(r) \/ Listener(r)
  <2>1. UNCHANGED <<pc, shutdown>>
    BY <1>1, OthersKeepCaller
  <2> QED BY <1>0, <1>a, <2>1 DEF ShutdownInv
<1>2. CASE ReadKeys \/ KeysFail \/ HasNext \/ AcquirePermit \/ AcquireInterrupted \/ Send \/ Cancel
  BY <1>0, <1>2 DEF ShutdownInv, ReadKeys, KeysFail, HasNext, AcquirePermit, AcquireInterrupted,
                    Send, Cancel
<1>3. CASE CheckException
  BY <1>0, <1>3 DEF ShutdownInv, CheckException, monitorVars
<1>4. CASE Drain
  <2>1. AllDone'
    BY <1>4, DrainedAll, <1>a DEF Drain
  <2>2. pc' = "shutdown" /\ shutdown' = shutdown /\ pc = "drain"
    BY <1>4 DEF Drain
  <2> QED BY <1>0, <2>1, <2>2 DEF ShutdownInv
<1>5. CASE DrainInterrupted
  BY <1>0, <1>5 DEF ShutdownInv, DrainInterrupted
<1>6. CASE Shutdown
  <2>1. pc = "shutdown" /\ pc' = "final"
    BY <1>6 DEF Shutdown
  <2> QED BY <1>0, <1>a, <2>1 DEF ShutdownInv
<1>7. CASE Finish
  <2>1. pc = "final" /\ pc' \in {"thrown", "returned"} /\ shutdown' = shutdown
    BY <1>7 DEF Finish
  <2> QED BY <1>0, <1>a, <2>1 DEF ShutdownInv
<1> QED BY <1>1, <1>2, <1>3, <1>4, <1>5, <1>6, <1>7 DEF Next, Main, Faults

LEMMA AnswerStep == IInv /\ [Next]_vars => AnswerComplete'
<1> SUFFICES ASSUME IInv, [Next]_vars PROVE AnswerComplete'
  OBVIOUS
<1>0. ShutdownInv /\ ListenerInv /\ AnswerComplete
  BY DEF IInv
<1>1. CASE Finish
  <2>1. UNCHANGED <<listener, written, shutdown, exception>>
    BY <1>1 DEF Finish, rowVars, monitorVars
  <2>2. pc = "final" /\ (pc' = "returned" => ~exception)
    BY <1>1 DEF Finish
  <2>3. pc' = "returned" /\ shutdown => AllDone
    BY <1>0, <2>2 DEF ShutdownInv
  <2> QED BY <1>0, <2>1, <2>2, <2>3 DEF AnswerComplete, ListenerInv, AllDone
<1>2. CASE Kill \/ UNCHANGED vars
           \/ \E r \in Rows : Answer(r) \/ Refuse(r) \/ ReadFails(r) \/ Listener(r)
  <2>1. UNCHANGED <<pc, shutdown>>
    BY <1>2, OthersKeepCaller
  <2>2. pc = "returned" /\ shutdown => AllDone
    BY <1>0 DEF AnswerComplete, AllDone
  <2>3. pc = "returned" /\ shutdown => UNCHANGED <<listener, written>>
    BY <2>2, DoneStays
  <2> QED BY <1>0, <2>1, <2>3 DEF AnswerComplete
<1>3. CASE ReadKeys \/ KeysFail \/ HasNext \/ AcquirePermit \/ AcquireInterrupted \/ Send \/ Cancel
           \/ CheckException \/ Drain \/ DrainInterrupted \/ Shutdown
  <2>1. pc' # "returned"
    BY <1>3 DEF ReadKeys, KeysFail, HasNext, AcquirePermit, AcquireInterrupted, Send, Cancel,
                CheckException, Drain, DrainInterrupted, Shutdown
  <2> QED BY <2>1 DEF AnswerComplete
<1> QED BY <1>1, <1>2, <1>3 DEF Next, Main, Faults

-----------------------------------------------------------------------------
THEOREM Invariance == Spec => []IInv
<1>1. IInv /\ [Next]_vars => IInv'
  BY TypeStep, SentStep, PermitsStep, HoldingStep, ShutdownStep, ListenerStep, AnswerStep DEF IInv
<1> QED BY InitCorrect, <1>1, PTL DEF Spec

(* Every permit count stays within the pool, whatever is interrupted.      *)
THEOREM TypeCorrect == Spec => []TypeOK
<1>1. IInv => TypeOK
  BY DEF IInv
<1> QED BY Invariance, <1>1, PTL

(* Never more than simultaneous_cql_queries in flight or being read.       *)
THEOREM AtMostSimultaneousCorrect == Spec => []AtMostSimultaneous
<1>1. IInv => AtMostSimultaneous
  <2> SUFFICES ASSUME IInv PROVE AtMostSimultaneous
    OBVIOUS
  <2>1. permits + Cardinality(InFlight) <= Simultaneous /\ permits \in 0 .. Simultaneous
    BY DEF IInv, PermitsBounded, TypeOK
  <2> QED BY <2>1, InFlightFinite, PoolsAssumption DEF AtMostSimultaneous
<1> QED BY Invariance, <1>1, PTL

(* A normal return that was not interrupted has every data point and       *)
(* leaves no listener behind.                                              *)
THEOREM AnswerCompleteCorrect == Spec => []AnswerComplete
<1>1. IInv => AnswerComplete
  BY DEF IInv
<1> QED BY Invariance, <1>1, PTL
=============================================================================
