---------------------------- MODULE SqliteCursor ----------------------------
(***************************************************************************)
(* The cursor over the rows of a query (SqliteCursor.cpp).  The wrapper    *)
(* counts its position (row is m_currentRow) beside the position the Poco  *)
(* RecordSet keeps (record); getPosition, isFirst, isLast and moveTo go by *)
(* the first, the values that are read by the second.                      *)
(*                                                                         *)
(* A move gives the cursor it leaves behind and whether it reports         *)
(* success.                                                                *)
(***************************************************************************)
EXTENDS Integers, Sequences

CONSTANT IntMax  \* the largest int

Count(cursor) == Len(cursor.keys)
GetPosition(cursor) == cursor.row
IsFirst(cursor) == cursor.row = 0  \* also where there are no rows
IsLast(cursor) == cursor.row = Count(cursor) - 1
RowAt(cursor) == cursor.keys[cursor.record + 1]  \* what every typed getter reads

Done(cursor) == [ok |-> TRUE, cursor |-> cursor]
Refused(cursor) == [ok |-> FALSE, cursor |-> cursor]

MoveToFirst(cursor) ==
  IF Count(cursor) = 0 THEN Refused(cursor)
  ELSE Done([cursor EXCEPT !.record = 0, !.row = 0])

MoveToLast(cursor) ==
  IF Count(cursor) = 0 THEN Refused(cursor)
  ELSE Done([cursor EXCEPT !.record = Count(cursor) - 1, !.row = Count(cursor) - 1])

MoveToNext_CountsAlways(cursor) ==
  IF cursor.record + 1 < Count(cursor)
    THEN Done([cursor EXCEPT !.record = @ + 1, !.row = @ + 1])
    ELSE Refused([cursor EXCEPT !.row = @ + 1])

MoveToNext(cursor) ==
  IF cursor.record + 1 < Count(cursor)
    THEN Done([cursor EXCEPT !.record = @ + 1, !.row = @ + 1])
    ELSE Refused(cursor)

MoveToPrevious(cursor) ==
  IF cursor.record > 0
    THEN Done([cursor EXCEPT !.record = @ - 1, !.row = @ - 1])
    ELSE Refused(cursor)

(* From the first row, position times to the next one, as long as that works. *)
StepsFromFirst(cursor, position) ==
  LET after[i \in 0..position] ==
        IF i = 0 THEN MoveToFirst(cursor)
        ELSE IF after[i - 1].ok THEN MoveToNext(after[i - 1].cursor) ELSE after[i - 1]
  IN after[position]

MoveToPosition(cursor, position) ==
  CASE position >= Count(cursor) -> Refused(cursor)
    [] position < Count(cursor) /\ position = cursor.row -> Done(cursor)
    [] OTHER -> StepsFromFirst(cursor, position)

(* The sum of the position and the offset is an int.                         *)
IntMin == -(IntMax + 1)
Ints == IntMin..IntMax
AsInt(n) == ((n - IntMin) % (2 * (IntMax + 1))) + IntMin

Move(cursor, offset) ==
  LET position == AsInt(AsInt(cursor.row) + offset) IN
  IF position < 0 THEN Refused(cursor) ELSE MoveToPosition(cursor, position)
=============================================================================
