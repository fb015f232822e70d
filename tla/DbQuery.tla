------------------------------ MODULE DbQuery ------------------------------
(***************************************************************************)
(* Scans and queries of src/pkg/agi/db (scan.go, query.go, filter.go) on    *)
(* one set, while rows are written, columns appear, and the set gets its    *)
(* indexed column.  Run resolves a plan from the schema, then pins a        *)
(* snapshot, then walks it: the index range of a Between on the indexed     *)
(* column, else all rows, which an indexed set keeps under its index keys.  *)
(* Rows name columns by colID; decodeRow reads of a row what the plan wants *)
(* of it, and of a column that is only asked for with Exists not the value. *)
(*                                                                         *)
(* Writers are one step each (DbRow shows that they may be), and so is the  *)
(* walk to one record.  Once the snapshot is pinned nothing is written any  *)
(* more: Next reads the snapshot and the plan, which writers do not reach,  *)
(* so that its steps commute with theirs.                                  *)
(***************************************************************************)
EXTENDS Integers, Sequences, FiniteSets

CONSTANTS
  Keys,       \* primary keys, numbers in their order
  Names,      \* columns
  IndexCol,   \* the column RegisterSet may declare as the indexed one
  TypeOf,     \* the type of each column's values
  Half,       \* numbers go from -Half to Half - 1: 2^63 in the code
  Puts,       \* rows that writers store: columns to values
  Queries,    \* scans and queries that readers run
  MaxWrites,  \* bound: puts and deletes
  Nil         \* model value: no row, no column, no clause

Top == 2 * Half - 1  \* the greatest value of the width
Value(t, n) == <<t, n>>
Zero   == <<"zero", 0>>    \* a Value that was never decoded
Absent == <<"absent", 0>>  \* the getter's answer for a column that is not there

Ints   == -Half .. Half - 1

ASSUME QueryAssumption ==
  /\ Keys \subseteq Nat /\ IsFiniteSet(Names) /\ Half \in Nat \ {0} /\ MaxWrites \in Nat
  /\ IndexCol \in Names /\ TypeOf[IndexCol] = "int"
  /\ \A n \in Names : TypeOf[n] \notin {Zero[1], Absent[1]}
  /\ Nil \notin Nat \cup Puts

\* A column holds values of its type.
ASSUME PutsAssumption ==
  \A r \in Puts :
    /\ DOMAIN r \subseteq Names
    /\ \A n \in DOMAIN r : r[n] = Value(TypeOf[n], r[n][2]) /\ (TypeOf[n] = "int" => r[n][2] \in Ints)

\* The two ends of a Between are of one type (query.go:64); clauses are of a kind
\* that filter.go has.
ASSUME QueriesAssumption ==
  \A q \in Queries :
    /\ q.between # Nil =>
         /\ q.between.op = "between" /\ q.between.col \in Names
         /\ q.between.lo[1] = q.between.hi[1]
         /\ q.between.lo[1] = "int" => q.between.lo[2] \in Ints /\ q.between.hi[2] \in Ints
    /\ q.filter # Nil =>
         \A l \in q.filter.leaves : l.op \in {"eq", "in", "between", "exists"} /\ l.col \in Names

VARIABLES
  schema,  \* setSchema: the colIDs, NextColID, whether IndexCol is IndexedCol
  data,    \* D/: for each key nothing, a row, or a pointer to the index entry
  index,   \* I/: the entries, as records of colID, biased value, key and row
  table,   \* the rows as their writers named them (history)
  guard,   \* Options.IndexCanHaveOrphans; never changes
  becomes, \* whether the set is one that RegisterSet declares an index for
  writes,  \* puts and deletes so far
  it,      \* the iterator
  want     \* what the query should answer, fixed with the snapshot (history)

queryVars == <<schema, data, index, table, guard, becomes, writes, it, want>>

NoRow   == [kind |-> "none", b |-> 0, row |-> <<>>]
Pointer(b) == [kind |-> "ptr", b |-> b, row |-> <<>>]
Payload(row) == [kind |-> "row", b |-> 0, row |-> row]
Known(s) == {n \in Names : s.cols[n] # Nil}
NoIter  == [at |-> "idle"]

QueryInit ==
  /\ schema = [cols |-> [n \in Names |-> Nil], next |-> 0, indexed |-> FALSE]
  /\ data = [k \in Keys |-> NoRow]
  /\ index = {}
  /\ table = [k \in Keys |-> Nil]
  /\ guard \in BOOLEAN /\ becomes \in BOOLEAN
  /\ writes = 0
  /\ it = NoIter
  /\ want = {}

-----------------------------------------------------------------------------
(*                       Keys and rows (keys.go, codec.go)                  *)

\* biasInt64: signed order becomes the order of the bytes.
Bias(v) == (v + Half) % (2 * Half)

Before(x, y) == x[1] < y[1] \/ (x[1] = y[1] /\ x[2] < y[2])

\* Bug: one past the largest value wraps to the smallest.
RangeEnd_Wraps(col, hi) == <<col, (Bias(hi) + 1) % (2 * Half)>>

\* indexRangeBounds: the upper bound is exclusive, and steps the colID after MaxInt64.
RangeEnd(col, hi) == IF Bias(hi) # Top THEN <<col, Bias(hi) + 1>> ELSE <<col + 1, 0>>
InRange(e, col, lo, hi) ==
  /\ ~Before(<<e.col, e.b>>, <<col, Bias(lo)>>)
  /\ Before(<<e.col, e.b>>, RangeEnd(col, hi))

\* The order in which Pebble keeps the records that a walk comes to: index keys of
\* one column, or the keys of rows.
First(r, todo) == \A s \in todo \ {r} : Before(<<r.b, r.pk>>, <<s.b, s.pk>>)

Ids(p) == p.value \cup p.presence
MaxId(S) == IF S = {} THEN 0 ELSE CHOOSE c \in S : \A d \in S : d <= c

(* The columns that decodeRow comes to, in the order of colIDs: it leaves   *)
(* past the largest it wants, and as soon as it has as many as it wants.    *)
Seen(row, p) ==
  {c \in DOMAIN row : c <= MaxId(Ids(p)) /\ Cardinality({d \in DOMAIN row \cap Ids(p) : d < c}) < Cardinality(Ids(p))}

\* Without a projection, every column the plan has room for.
DecodeRow(row, p) ==
  IF p.all THEN [c \in {d \in DOMAIN row : d < p.cap} |-> row[c]]
  ELSE [c \in Seen(row, p) \cap Ids(p) |-> IF c \in p.value THEN row[c] ELSE Zero]

(* A pointer taken for a row: its first byte reads as a count of no columns *)
(* for a value that is not negative, or the least; else what follows does   *)
(* not fit the count, unless the plan wants nothing and looks no further.   *)
PointerAsRow(b, p) ==
  [ok |-> b = 0 \/ b >= Half \/ (~p.all /\ Ids(p) = {}), row |-> <<>>]

-----------------------------------------------------------------------------
(*                          Filters (filter.go)                            *)

\* cmpValues: values of different types do not compare.
SameType(v, w) == v[1] = w[1]

\* eval of a leaf, with the getter as a function of the columns.
Meets(l, get) ==
  CASE l.op = "eq"      -> get[l.col] # Absent /\ get[l.col] = l.v
    [] l.op = "in"      -> \E v \in l.vals : get[l.col] = v
    [] l.op = "between" -> LET v == get[l.col] IN
         SameType(l.lo, l.hi) /\ SameType(v, l.lo) /\ l.lo[2] <= v[2] /\ v[2] <= l.hi[2]
    [] l.op = "exists"  -> get[l.col] # Absent

(* An Expr by what its tree comes to: its leaves, and which of them must    *)
(* hold together for it to hold.  eval of Not, And and Or is that of their  *)
(* operands combined; an And of nothing holds, an Or of nothing does not.   *)
Leaf(l) == [leaves |-> {l}, sat |-> {{l}}]
Not(e)  == [leaves |-> e.leaves, sat |-> (SUBSET e.leaves) \ e.sat]
And(es) ==
  LET all == UNION {e.leaves : e \in es}
  IN  [leaves |-> all, sat |-> {S \in SUBSET all : \A e \in es : S \cap e.leaves \in e.sat}]
Or(es) ==
  LET all == UNION {e.leaves : e \in es}
  IN  [leaves |-> all, sat |-> {S \in SUBSET all : \E e \in es : S \cap e.leaves \in e.sat}]

Eval(e, get) == {l \in e.leaves : Meets(l, get)} \in e.sat

\* The columns of the leaves of e whose operator is one of ops.
ExprCols(e, ops) == IF e = Nil THEN {} ELSE {l.col : l \in {m \in e.leaves : m.op \in ops}}

\* classifyFilterCols: Exists needs the presence of a column, the rest its value.
PresenceCols(e) == ExprCols(e, {"exists"})
ValueCols(e)    == ExprCols(e, {"eq", "in", "between"})

-----------------------------------------------------------------------------
(*                            The plan (query.go)                           *)

\* Bug: presence is not superseded by value.
BuildPlan_Presence(s, q, byIndex) ==
  LET bt    == IF q.between # Nil /\ ~byIndex THEN {q.between.col} ELSE {}
      names == PresenceCols(q.filter) \cup ValueCols(q.filter) \cup bt
      cols  == [n \in names \cap Known(s) |-> s.cols[n]]
      out   == {n \in Known(s) : q.project = {} \/ n \in q.project}
      presence == {cols[n] : n \in PresenceCols(q.filter) \cap Known(s)}
  IN  [all |-> q.project = {}, cap |-> s.next, filterCols |-> cols,
       out |-> [c \in {s.cols[n] : n \in out} |-> CHOOSE n \in out : s.cols[n] = c],
       value |-> ({s.cols[n] : n \in out} \cup {cols[n] : n \in (ValueCols(q.filter) \cup bt) \cap Known(s)}) \ presence,
       presence |-> presence]

BuildPlan(s, q, byIndex) ==
  LET bt    == IF q.between # Nil /\ ~byIndex THEN {q.between.col} ELSE {}
      names == PresenceCols(q.filter) \cup ValueCols(q.filter) \cup bt
      cols  == [n \in names \cap Known(s) |-> s.cols[n]]
      out   == {n \in Known(s) : q.project = {} \/ n \in q.project}
      value == {s.cols[n] : n \in out} \cup {cols[n] : n \in (ValueCols(q.filter) \cup bt) \cap Known(s)}
  IN  [all |-> q.project = {}, cap |-> s.next, filterCols |-> cols,
       out |-> [c \in {s.cols[n] : n \in out} |-> CHOOSE n \in out : s.cols[n] = c],
       value |-> value,
       presence |-> {cols[n] : n \in PresenceCols(q.filter) \cap Known(s)} \ value]

\* makeDecodedGetter
Getter(p, dec) ==
  [n \in Names |-> IF n \in DOMAIN p.filterCols /\ p.filterCols[n] \in DOMAIN dec
                   THEN dec[p.filterCols[n]] ELSE Absent]

\* shapeRowIntoPlan
ShapeRow(p, dec) ==
  LET ids == DOMAIN p.out \cap DOMAIN dec IN
  [n \in {p.out[c] : c \in ids} |-> dec[CHOOSE c \in ids : p.out[c] = n]]

-----------------------------------------------------------------------------
(* The snapshot is taken: nothing written from now on reaches the iterator. *)
Pinned == it.at \in {"walk", "done"}

(*                                 Writers                                 *)

\* RegisterSet of the indexed column, before anything is written to the set.
RegisterSet ==
  /\ becomes /\ ~schema.indexed /\ ~Pinned
  /\ schema' = [cols |-> [schema.cols EXCEPT ![IndexCol] = schema.next],
                next |-> schema.next + 1, indexed |-> TRUE]
  /\ UNCHANGED <<data, index, table, guard, becomes, writes, it, want>>

\* prepareEntriesForSet: unknown columns get the next colIDs, in any order.
WithColumns(s, names) ==
  LET new == names \ Known(s)
      top == s.next + Cardinality(new)
  IN {[s EXCEPT !.cols = [n \in Names |-> IF n \in new THEN f[n] ELSE @[n]], !.next = top] :
        f \in {g \in [new -> s.next .. top - 1] : \A m, n \in new : g[m] = g[n] => m = n}}

Encode(s, row) ==
  [c \in {s.cols[n] : n \in DOMAIN row} |-> row[CHOOSE n \in DOMAIN row : s.cols[n] = c]]

EntryAt(k, b) == {e \in index : e.pk = k /\ e.b = b}

(* PutBatch of one row.  With AssumeNew the old pointer is not read: unless *)
(* the database was opened for orphans, only for a row that has no other    *)
(* indexed value.                                                          *)
Put(k, row, new) ==
  /\ writes < MaxWrites /\ ~Pinned
  /\ becomes => schema.indexed
  /\ \E s \in WithColumns(schema, DOMAIN row) :
       /\ schema' = s
       /\ IF ~s.indexed
          THEN /\ data' = [data EXCEPT ![k] = Payload(Encode(s, row))]
               /\ table' = [table EXCEPT ![k] = row] /\ UNCHANGED index
          ELSE IF IndexCol \notin DOMAIN row THEN UNCHANGED <<data, index, table>>
          ELSE LET biased == Bias(row[IndexCol][2])
                   old == IF new \/ data[k] = NoRow THEN {} ELSE EntryAt(k, data[k].b) IN
               /\ new => guard \/ data[k] \in {NoRow, Pointer(biased)}
               /\ index' = (index \ (old \cup EntryAt(k, biased)))
                             \cup {[col |-> s.cols[IndexCol], b |-> biased, pk |-> k, row |-> Encode(s, row)]}
               /\ data' = [data EXCEPT ![k] = Pointer(biased)]
               /\ table' = [table EXCEPT ![k] = row]
  /\ writes' = writes + 1
  /\ UNCHANGED <<guard, becomes, it, want>>

\* Delete goes by the pointer: an orphan stays.
Delete(k) ==
  /\ writes < MaxWrites /\ ~Pinned
  /\ data[k] # NoRow
  /\ index' = IF schema.indexed THEN index \ EntryAt(k, data[k].b) ELSE index
  /\ data' = [data EXCEPT ![k] = NoRow]
  /\ table' = [table EXCEPT ![k] = Nil]
  /\ writes' = writes + 1
  /\ UNCHANGED <<schema, guard, becomes, it, want>>

-----------------------------------------------------------------------------
(*                                 Readers                                 *)

(* Scan, and Run: the plan, s.mu held shared.  A Between on a column that   *)
(* does not exist yet answers nothing, on one of another type an error.    *)
Run(q) ==
  LET bt == q.between
      byIndex == bt # Nil /\ schema.indexed /\ bt.col = IndexCol
      Iter(at, err) == [at |-> at, q |-> q, err |-> err, got |-> <<>>, todo |-> {}, byIndex |-> byIndex,
                        clustered |-> schema.indexed, known |-> Known(schema), plan |-> BuildPlan(schema, q, byIndex)]
  IN
  /\ it = NoIter
  /\ it' = IF bt # Nil /\ bt.col \notin Known(schema) THEN Iter("done", "none")
           ELSE IF bt # Nil /\ bt.lo[1] # TypeOf[bt.col] THEN Iter("done", "type")
           ELSE Iter(IF q.scan \/ byIndex THEN "snapshot" ELSE "layout", "none")
  /\ UNCHANGED <<schema, data, index, table, guard, becomes, writes, want>>

\* newFullScanQuery looks again where the set keeps its rows.
Layout ==
  /\ it.at = "layout"
  /\ it' = [it EXCEPT !.at = "snapshot", !.clustered = schema.indexed]
  /\ UNCHANGED <<schema, data, index, table, guard, becomes, writes, want>>

(* The records in the iterator's bounds, and whether the pointer of the     *)
(* same snapshot names them.                                               *)
Walk ==
  LET range == IF it.byIndex
               THEN {e \in index : InRange(e, schema.cols[IndexCol], it.q.between.lo[2], it.q.between.hi[2])}
               ELSE index
  IN IF it.clustered
     THEN {[b |-> e.b, pk |-> e.pk, value |-> Payload(e.row), live |-> data[e.pk] = Pointer(e.b)] : e \in range}
     ELSE {[b |-> 0, pk |-> k, value |-> data[k], live |-> TRUE] : k \in {j \in Keys : data[j] # NoRow}}

Stored(row) == [n \in Names |-> IF n \in DOMAIN row THEN row[n] ELSE Absent]

\* What q asks of the table, had the set no more columns than cols.
Answer(q, cols) ==
  LET part(k) == [n \in DOMAIN table[k] \cap cols |-> table[k][n]]
      out(k)  == [n \in {m \in DOMAIN part(k) : q.project = {} \/ m \in q.project} |-> part(k)[n]]
      asked(k) == /\ q.between # Nil => Meets(q.between, Stored(part(k)))
                  /\ q.filter # Nil => Eval(q.filter, Stored(part(k)))
  IN {<<k, out(k)>> : k \in {j \in Keys : table[j] # Nil /\ asked(j)}}

\* NewSnapshot and NewIter, no lock held.
Snapshot ==
  /\ it.at = "snapshot"
  /\ it' = [it EXCEPT !.at = "walk", !.todo = Walk]
  /\ want' = Answer(it.q, it.known)
  /\ UNCHANGED <<schema, data, index, table, guard, becomes, writes>>

\* The clauses that Next evaluates on what it has decoded of a record.
Accepts(get) ==
  /\ it.q.between # Nil /\ ~it.byIndex => Meets(it.q.between, get)
  /\ it.q.filter # Nil => Eval(it.q.filter, get)

\* Next, as far as one record: what it decodes, and whether it delivers it.
NextRecord ==
  /\ it.at = "walk"
  /\ \E r \in it.todo :
       LET raw == IF r.value.kind = "ptr" THEN PointerAsRow(r.value.b, it.plan) ELSE [ok |-> TRUE, row |-> r.value.row]
           dec == DecodeRow(raw.row, it.plan)
           skip == guard /\ it.byIndex /\ ~r.live
           rest == it.todo \ {r}
       IN
       /\ First(r, it.todo)
       /\ it' = IF skip THEN [it EXCEPT !.todo = rest]
                ELSE IF ~raw.ok THEN [it EXCEPT !.at = "done", !.err = "decode", !.todo = {}]
                ELSE IF ~Accepts(Getter(it.plan, dec)) THEN [it EXCEPT !.todo = rest]
                ELSE [it EXCEPT !.todo = rest, !.got = Append(@, <<r.pk, ShapeRow(it.plan, dec)>>)]
  /\ UNCHANGED <<schema, data, index, table, guard, becomes, writes, want>>

\* The walk is over, or the context is.
Stop ==
  /\ it.at = "walk"
  /\ \/ it.todo = {} /\ it' = [it EXCEPT !.at = "done"]
     \/ it' = [it EXCEPT !.at = "done", !.err = "ctx", !.todo = {}]
  /\ UNCHANGED <<schema, data, index, table, guard, becomes, writes, want>>

QueryNext ==
  \/ RegisterSet
  \/ \E k \in Keys : \/ \E row \in Puts, new \in BOOLEAN : Put(k, row, new)
                     \/ Delete(k)
  \/ \E q \in Queries : Run(q)
  \/ Layout \/ Snapshot \/ NextRecord \/ Stop

QuerySpec == QueryInit /\ [][QueryNext]_queryVars

-----------------------------------------------------------------------------
(*                               Properties                                *)

(* What may be wrong about an answer: orphans, where they are allowed, show *)
(* in walks that check no pointer; and an iterator that took the set for    *)
(* unindexed before it was declared indexed reads the pointers as rows.    *)
Orphans == guard /\ ~it.byIndex
Late    == it.clustered # becomes

(* Whatever an iterator delivers, to its last record, is in the answer of   *)
(* the moment it pinned: a row of then, once, with all the columns that it  *)
(* was asked for and knew, and none the clauses refuse.                    *)
AnswersAreRight ==
  it.at \in {"walk", "done"} /\ ~Orphans /\ ~Late =>
    /\ \A i \in DOMAIN it.got : it.got[i] \in want
    /\ \A i, j \in DOMAIN it.got : it.got[i] = it.got[j] => i = j

(* An iterator that nobody cancels delivers all of the answer, and meets no *)
(* row that it cannot decode:                                              *)
(* no row is lost at the bounds of the index range, to a filter that looks  *)
(* at a column the decoder left out, or to an orphan of its key.           *)
NothingIsMissed ==
  it.at = "done" /\ it.err \notin {"type", "ctx"} /\ ~Late => \A r \in want : \E i \in DOMAIN it.got : it.got[i] = r

=============================================================================
