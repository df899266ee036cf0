------------------------------ MODULE RowTimes ------------------------------
(* Where a data point lies in Cassandra, and which data points a query or a  *)
(* delete over a range of time touches: the arithmetic of RowSpec and of its *)
(* users.  A row begins at its row time; a data point is a column of its     *)
(* row, named by an int that Cassandra compares as four unsigned bytes.      *)
(* Times are milliseconds, and longs are taken to be wide enough.  A RowSpec *)
(* is a record: the unit of the columns and the width configured for rows.   *)
EXTENDS Integers

CONSTANT HalfWord   \* 2^31: an int is negative from there on

ASSUME WordAssumption == HalfWord \in Nat \ {0}

(* "legacy": milliseconds, shifted by the bit that used to tell longs from   *)
(* doubles.                                                                  *)
Units == {"legacy", "milliseconds", "seconds"}
RowSpecs == [unit : Units, width : Nat \ {0}]

(* The four bytes of an int, as Cassandra compares them and as Java reads    *)
(* them.                                                                     *)
Bytes(n) == n % (2 * HalfWord)
Signed(bytes) == IF bytes < HalfWord THEN bytes ELSE bytes - 2 * HalfWord

Abs(n) == IF n < 0 THEN -n ELSE n

calculateRowTime(spec, timestamp) == timestamp - (Abs(timestamp) % spec.width)

getRowWidthInMillis(spec) ==
    IF spec.unit = "seconds" THEN spec.width * 1000 ELSE spec.width

(* timestamp is never before rowTime: the division rounds down.              *)
getColumnName(spec, rowTime, timestamp) ==
    CASE spec.unit = "seconds"      -> Bytes((timestamp - rowTime) \div 1000)
      [] spec.unit = "milliseconds" -> Bytes(timestamp - rowTime)
      [] spec.unit = "legacy"       -> Bytes(2 * (timestamp - rowTime))

getColumnTimestamp(spec, rowTime, column) ==
    CASE spec.unit = "seconds"      -> rowTime + 1000 * Signed(column)
      [] spec.unit = "milliseconds" -> rowTime + Signed(column)
      [] spec.unit = "legacy"       -> rowTime + column \div 2

(* The column in which a data point is written, and the time it is given     *)
(* when it is read again.                                                    *)
ColumnOf(spec, timestamp) ==
    getColumnName(spec, calculateRowTime(spec, timestamp), timestamp)
ReadAs(spec, timestamp) ==
    getColumnTimestamp(spec, calculateRowTime(spec, timestamp),
                       ColumnOf(spec, timestamp))

(* The row times that the time index gives for a query from start to end.    *)
RowListed(spec, row, start, end) ==
    calculateRowTime(spec, start) <= row /\ row <= end

(* The columns read of a row: from the first up to, not including, the last. *)
FirstColumn(spec, row, start) ==
    IF start < row THEN 0 ELSE getColumnName(spec, row, start)
LastColumn(spec, row, end) ==
    LET width == getRowWidthInMillis(spec)
    IN  IF end > row + width
          THEN Bytes(getColumnName(spec, row, row + width) + 1)
          ELSE Bytes(getColumnName(spec, row, end) + 1)

(* A query from start to end finds the data point written with this time.    *)
Finds(spec, timestamp, start, end) ==
    LET row == calculateRowTime(spec, timestamp)
    IN  /\ RowListed(spec, row, start, end)
        /\ FirstColumn(spec, row, start) <= ColumnOf(spec, timestamp)
        /\ ColumnOf(spec, timestamp) < LastColumn(spec, row, end)

(* A delete takes a listed row away as a whole when it covers the row, and   *)
(* otherwise the columns from one time to another, both included.            *)
DeletesRow(spec, row, start, end) ==
    start <= row /\ end >= row + getRowWidthInMillis(spec) - 1
DeleteFrom(row, start) == IF start <= row THEN row ELSE start
DeleteTo(spec, row, start, end) ==
    IF start > row /\ end >= row + getRowWidthInMillis(spec) - 1
      THEN row + getRowWidthInMillis(spec) - 1
      ELSE end

(* A delete from start to end takes the data point of this time away, on a   *)
(* cluster that knows deletes of ranges.                                     *)
Deletes(spec, timestamp, start, end) ==
    LET row == calculateRowTime(spec, timestamp)
    IN  /\ RowListed(spec, row, start, end)
        /\ \/ DeletesRow(spec, row, start, end)
           \/ /\ getColumnName(spec, row, DeleteFrom(row, start))
                   <= ColumnOf(spec, timestamp)
              /\ ColumnOf(spec, timestamp)
                   <= getColumnName(spec, row, DeleteTo(spec, row, start, end))
=============================================================================
