------------------------------ MODULE JsonTable ------------------------------
(***************************************************************************)
(* src/compressors/json.rs: an array of objects as a table, and which rows *)
(* of a long one are kept.                                                 *)
(*                                                                         *)
(* A row maps its flattened keys to the names of cells; Cell tells what    *)
(* the code reads of one.  Rows are numbered from 1.                       *)
(***************************************************************************)
EXTENDS Lines

CONSTANTS
  Cell,        \* shows, type, number, error, words, bytes, by name of the cell
  MIN_ROWS, ROW_DROP_THRESHOLD, HEAD_ROWS, TAIL_ROWS, LEAST_HEAD, LEAST_TAIL,
  MAX_CHANGE_POINT_ANCHORS, MAX_DISCRIMINATOR_BUCKETS, MAX_DUPLICATE_CLUSTER_ANCHORS,
  MAX_SPREAD_ANCHORS, MAX_ADAPTIVE_SPREAD_ANCHOR_BOOST, MIN_SATURATION_BIGRAMS,
  MAX_INFORMATION_DENSE_ANCHORS, QUERY_DIRECTION_EXTRA_ROWS, QUERY_ROWS, SPARSE_ROWS,
  Bm25,        \* of a cell for the query
  KeyBytes     \* the length of a key, and of every other line of a table

-----------------------------------------------------------------------------
(***************************************************************************)
(* Cells, rows and what analyze_flat_rows tells of a field.                *)
(***************************************************************************)
render_cell(c) == Cell[c].shows

row_text(row) == [key \in DOMAIN row |-> render_cell(row[key])]

Words(row) == UNION {{<<key, w>> : w \in Cell[row[key]].words} : key \in DOMAIN row}

Fields(rows) == UNION {DOMAIN rows[i] : i \in DOMAIN rows}

Present(rows, key) == {i \in DOMAIN rows : key \in DOMAIN rows[i]}

Shown(rows, key) == {render_cell(rows[i][key]) : i \in Present(rows, key)}

Numeric(rows, key) == {i \in Present(rows, key) : Cell[rows[i][key]].type = "number"}

Number(rows, key, i) == Cell[rows[i][key]].number

is_constant(rows, key) == Cardinality(Shown(rows, key)) = 1 /\ Present(rows, key) = DOMAIN rows

sparse_threshold(n) == Max({SPARSE_ROWS, n \div 10})

is_sparse(rows, key) == Cardinality(Present(rows, key)) <= sparse_threshold(Len(rows))

is_discriminator_field(rows, key) ==
  /\ Present(rows, key) = DOMAIN rows
  /\ Numeric(rows, key) = {}
  /\ Cardinality(Shown(rows, key)) \in 2..MAX_DISCRIMINATOR_BUCKETS

\* Constant fields are told once, unless that leaves fewer than two columns.
table_shape(rows) ==
  LET columns == {key \in Fields(rows) : ~is_constant(rows, key)}
  IN  IF Cardinality(columns) < 2
      THEN [columns |-> Fields(rows), constants |-> {}]
      ELSE [columns |-> columns, constants |-> Fields(rows) \ columns]

-----------------------------------------------------------------------------
(***************************************************************************)
(* The anchors of a long table.                                            *)
(***************************************************************************)
dynamic_head_rows(n) == Min({HEAD_ROWS, Max({n \div 4, LEAST_HEAD})})
dynamic_tail_rows(n) == Min({TAIL_ROWS, Max({n \div 8, LEAST_TAIL})})

HeadRows(n) == 1..Min({n, dynamic_head_rows(n)})
TailRows(n) == Max({1, n - dynamic_tail_rows(n) + 1})..n
MiddleRows(n) == (1..n) \ (HeadRows(n) \cup TailRows(n))

TextsOf(rows, S) == {row_text(rows[i]) : i \in S}

\* Of clusters of equal rows, told by their first: the largest ones first.
Representatives(rows, Alike(_, _), excluded, max) ==
  LET Cluster(i) == {j \in DOMAIN rows : Alike(rows[i], rows[j])}
      Size(i) == Cardinality(Cluster(i))
      firsts == {i \in DOMAIN rows \ excluded : Size(i) > 1 /\ i = Min(Cluster(i))}
  IN  Best(firsts, max, LAMBDA i, j : Size(i) > Size(j) \/ (Size(i) = Size(j) /\ i < j))

duplicate_cluster_representatives(rows) ==
  LET Same(a, b) == row_text(a) = row_text(b)
  IN  Representatives(rows, Same, {}, MAX_DUPLICATE_CLUSTER_ANCHORS)

\* Rows of the same words are near; what differs is in the numbers.
near_duplicate_cluster_representatives(rows, keep) ==
  LET Near(a, b) == Words(a) = Words(b)
  IN  Representatives(rows, Near, keep, MAX_DUPLICATE_CLUSTER_ANCHORS)

\* More anchors when the words do not run out in the first half of the middle.
adaptive_spread_anchor_count(rows) ==
  LET middle == MiddleRows(Len(rows))
      base == Min({Cardinality(middle) \div ROW_DROP_THRESHOLD, MAX_SPREAD_ANCHORS})
      Seen(S) == Cardinality(UNION {Words(rows[i]) : i \in S})
      early == \E k \in middle :
                 /\ Seen({i \in middle : i <= k}) * 100 >= Seen(middle) * 70
                 /\ (k - Min(middle) + 1) * 100 <= Cardinality(middle) * 50
  IN  IF base = 0 \/ Seen(middle) < MIN_SATURATION_BIGRAMS \/ early THEN base
      ELSE Min({base + Min({base, MAX_ADAPTIVE_SPREAD_ANCHOR_BOOST}), MAX_SPREAD_ANCHORS})

nearest_unseen_row(rows, target, seen) ==
  LET Distance(i) == IF i <= target THEN 2 * (target - i) ELSE 2 * (i - target) + 1
      unseen == {i \in MiddleRows(Len(rows)) : row_text(rows[i]) \notin seen}
  IN  Best(unseen, 1, LAMBDA i, j : Distance(i) < Distance(j))

spread_anchor_rows(rows, keep) ==
  LET middle == MiddleRows(Len(rows))
      count == adaptive_spread_anchor_count(rows)
      Target(rank) == Min(middle) + (rank * (Cardinality(middle) + 1)) \div (count + 1)
  IN  FoldLeft(LAMBDA anchors, rank :
                 anchors \cup nearest_unseen_row(rows, Target(rank),
                                                 TextsOf(rows, keep \cup anchors)),
               {}, [rank \in 1..count |-> rank])

\* The element in the middle of the sorted values of S.
Median(S, Value(_)) ==
  LET rank == Cardinality(S) \div 2
      Smaller(i, j) == Value(i) < Value(j) \/ (Value(i) = Value(j) /\ i < j)
  IN  Value(CHOOSE i \in S : Cardinality({j \in S : Smaller(j, i)}) = rank)

information_dense_rows(rows, keep) ==
  LET Terms(i) == Cardinality(Words(rows[i]))
      scored == {i \in MiddleRows(Len(rows)) \ keep :
                   Terms(i) > 0 /\ row_text(rows[i]) \notin TextsOf(rows, keep)}
      baseline == Median(scored, Terms)
  IN  IF scored = {} THEN {}
      ELSE {i \in Best(scored, MAX_INFORMATION_DENSE_ANCHORS,
                       LAMBDA a, b : Terms(a) > Terms(b) \/ (Terms(a) = Terms(b) /\ a < b)) :
              Terms(i) > baseline + Max({baseline \div 2, 2})}

query_direction_rows(n, query) ==
  CASE query = "first" ->
         MiddleRows(n) \cap (1..(dynamic_head_rows(n) + QUERY_DIRECTION_EXTRA_ROWS))
    [] query = "latest" ->
         MiddleRows(n) \cap ((n - dynamic_tail_rows(n) - QUERY_DIRECTION_EXTRA_ROWS + 1)..n)
    [] OTHER -> {}

ErrorRows(rows) == {i \in DOMAIN rows : \E key \in DOMAIN rows[i] : Cell[rows[i][key]].error}

\* Two standard deviations from the mean, without the division.
Outliers(rows, key) ==
  LET S == Numeric(rows, key)
      n == Cardinality(S)
      sum == MapThenSumSet(LAMBDA i : Number(rows, key, i), S)
      spread == n * MapThenSumSet(LAMBDA i : Number(rows, key, i) * Number(rows, key, i), S)
                  - sum * sum
      Off(i) == n * Number(rows, key, i) - sum
  IN  {i \in S : spread > 0 /\ Off(i) * Off(i) >= 4 * spread}

\* A row without a number interrupts the comparison with the row before.
numeric_change_point_rows(rows, key) ==
  LET Delta(i) == LET d == Number(rows, key, i) - Number(rows, key, i - 1)
                  IN  IF d < 0 THEN -d ELSE d
      changed == {i \in Numeric(rows, key) : i - 1 \in Numeric(rows, key) /\ Delta(i) > 0}
      threshold == IF Cardinality(changed) >= 3 THEN 4 * Median(changed, Delta) ELSE 0
  IN  Best({i \in changed : Delta(i) >= threshold}, MAX_CHANGE_POINT_ANCHORS,
           LAMBDA i, j : Delta(i) > Delta(j) \/ (Delta(i) = Delta(j) /\ i < j))

FirstOfEachValue(rows, key) ==
  {i \in DOMAIN rows : \A j \in 1..(i - 1) : render_cell(rows[j][key]) # render_cell(rows[i][key])}

\* Seeded fault: a telling column has no anchors of its own.
FieldAnchorsOfNumbers(rows, key) ==
  Outliers(rows, key) \cup numeric_change_point_rows(rows, key)
    \cup (IF is_sparse(rows, key) THEN Present(rows, key) ELSE {})

FieldAnchors(rows, key) ==
  Outliers(rows, key) \cup numeric_change_point_rows(rows, key)
    \cup (IF is_sparse(rows, key) THEN Present(rows, key) ELSE {})
    \cup (IF is_discriminator_field(rows, key) THEN FirstOfEachValue(rows, key) ELSE {})

QueryRows(rows, query) ==
  LET Score(i) == SumFunction([key \in DOMAIN rows[i] |-> Bm25[rows[i][key]]])
  IN  IF query = "none" THEN {}
      ELSE {i \in Best(DOMAIN rows, QUERY_ROWS,
                       LAMBDA a, b : Score(a) > Score(b) \/ (Score(a) = Score(b) /\ a < b)) :
              Score(i) > 0}

plan_rows(rows, query) ==
  LET n == Len(rows)
      ends == HeadRows(n) \cup TailRows(n)
      spread == ends \cup spread_anchor_rows(rows, ends)
      exact == spread \cup duplicate_cluster_representatives(rows)
      near == exact \cup near_duplicate_cluster_representatives(rows, exact)
      dense == near \cup information_dense_rows(rows, near)
  IN  IF n <= ROW_DROP_THRESHOLD THEN DOMAIN rows
      ELSE dense \cup query_direction_rows(n, query) \cup ErrorRows(rows)
             \cup UNION {FieldAnchors(rows, key) : key \in Fields(rows)}
             \cup QueryRows(rows, query)

-----------------------------------------------------------------------------
(***************************************************************************)
(* One table, or a table for each shape of rows if that is shorter.        *)
(***************************************************************************)
Table(rows, query) ==
  [what |-> "table", shape |-> table_shape(rows), lossy |-> Len(rows) > ROW_DROP_THRESHOLD,
   rows |-> WithGaps(plan_rows(rows, query), Len(rows)), indices |-> [i \in DOMAIN rows |-> i]]

\* An absent key leaves its separator.
CellsBytes(row, columns) ==
  Cardinality(columns) + MapThenSumSet(LAMBDA key : Cell[row[key]].bytes, columns \cap DOMAIN row)

TableBytes(rows, table) ==
  2 * KeyBytes + KeyBytes * Cardinality(table.shape.columns \cup table.shape.constants)
    + Length(table.rows, LAMBDA i : CellsBytes(rows[i], table.shape.columns), KeyBytes)

Bucket(rows, columns) == SelectSeq([i \in DOMAIN rows |-> i], LAMBDA i : DOMAIN rows[i] = columns)

BucketRows(rows, columns) ==
  [k \in DOMAIN Bucket(rows, columns) |-> rows[Bucket(rows, columns)[k]]]

\* The tables in the order in which their shapes first occur.
Buckets(rows, query) ==
  LET firsts == {i \in DOMAIN rows : \A j \in 1..(i - 1) : DOMAIN rows[j] # DOMAIN rows[i]}
      order == InOrder(firsts, Len(rows))
      Part(i) == [Table(BucketRows(rows, DOMAIN rows[i]), query) EXCEPT
                    !.indices = Bucket(rows, DOMAIN rows[i])]
  IN  [k \in DOMAIN order |-> Part(order[k])]

BucketsBytes(rows, tables) ==
  LET Bytes(t) == TableBytes([k \in DOMAIN t.indices |-> rows[t.indices[k]]], t)
                    + Len(t.rows)  \* the __row column
  IN  KeyBytes + MapThenSumSet(LAMBDA k : Bytes(tables[k]), DOMAIN tables)

RowBytes(row) == MapThenSumSet(LAMBDA key : KeyBytes + Cell[row[key]].bytes, DOMAIN row)

Bucketable(rows, tables) ==
  /\ Len(tables) >= 2
  /\ \A k \in DOMAIN tables :
       Len(tables[k].indices) >= MIN_ROWS /\ Cardinality(tables[k].shape.columns) >= 2

Result(tables) ==
  IF \E t \in ToSet(tables) : t.lossy THEN Lossy(tables) ELSE Reformatted(tables)

Shortest(rows, table, buckets) ==
  LET content == MapThenSumSet(LAMBDA i : RowBytes(rows[i]), DOMAIN rows)
  IN  IF Len(rows) < MIN_ROWS \/ Cardinality(table.shape.columns) < 2 THEN None
      ELSE IF /\ Bucketable(rows, buckets)
              /\ BucketsBytes(rows, buckets) < content
              /\ BucketsBytes(rows, buckets) < TableBytes(rows, table)
      THEN Result(buckets)
      ELSE IF TableBytes(rows, table) >= content THEN None
      ELSE Result(<<table>>)

compress_with_query(rows, query) == Shortest(rows, Table(rows, query), Buckets(rows, query))
=============================================================================
