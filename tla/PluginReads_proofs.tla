------------------------- MODULE PluginReads_proofs -------------------------
(***************************************************************************)
(* Proofs about what the Grafana plugin reads: the rows that its queries    *)
(* get of the database (DbQuery), for every schema, row, filter and width,  *)
(* and the labels it resolves them with (LabelCatalog), for every number of *)
(* files, rows, labels, queries, failing writes and lives.                  *)
(***************************************************************************)
EXTENDS LabelCatalog, DbQuery, TLAPS, FiniteSetTheorems, WellFoundedInduction

-----------------------------------------------------------------------------
(*                     Queries: filters and encoded rows                    *)

\* Not, And and Or come to what filter.go makes of their operands (Expr.eval):
\* an expression is its leaves and the sets of them that satisfy it.
THEOREM TreesEvaluate ==
    ASSUME NEW get, NEW e, NEW es
    PROVE  /\ Eval(Not(e), get) <=> ~Eval(e, get)
           /\ Eval(And(es), get) <=> \A x \in es : Eval(x, get)
           /\ Eval(Or(es), get) <=> \E x \in es : Eval(x, get)
<1> DEFINE Of(x) == {l \in x.leaves : Meets(l, get)}
           all == UNION {x.leaves : x \in es}
           Held == {l \in all : Meets(l, get)}
<1>1. Eval(Not(e), get) <=> ~Eval(e, get)
  <2>1. Of(e) \in SUBSET e.leaves /\ Not(e).leaves = e.leaves /\ Not(e).sat = (SUBSET e.leaves) \ e.sat
    BY DEF Not
  <2>2. QED
    BY <2>1 DEF Eval
<1>2. ASSUME NEW x \in es PROVE Held \cap x.leaves = Of(x)
  OBVIOUS
<1>3. Held \in SUBSET all
  OBVIOUS
<1>4. Eval(And(es), get) <=> \A x \in es : Eval(x, get)
  <2>1. And(es).leaves = all /\ And(es).sat = {S \in SUBSET all : \A x \in es : S \cap x.leaves \in x.sat}
    BY DEF And
  <2>2. Eval(And(es), get) <=> Held \in {S \in SUBSET all : \A x \in es : S \cap x.leaves \in x.sat}
    BY <2>1 DEF Eval
  <2> HIDE DEF Held, all
  <2>3. Eval(And(es), get) <=> \A x \in es : Held \cap x.leaves \in x.sat
    BY <1>3, <2>2
  <2>4. QED
    BY <1>2, <2>3 DEF Eval
<1>5. Eval(Or(es), get) <=> \E x \in es : Eval(x, get)
  <2>1. Or(es).leaves = all /\ Or(es).sat = {S \in SUBSET all : \E x \in es : S \cap x.leaves \in x.sat}
    BY DEF Or
  <2>2. Eval(Or(es), get) <=> Held \in {S \in SUBSET all : \E x \in es : S \cap x.leaves \in x.sat}
    BY <2>1 DEF Eval
  <2> HIDE DEF Held, all
  <2>3. Eval(Or(es), get) <=> \E x \in es : Held \cap x.leaves \in x.sat
    BY <1>3, <2>2
  <2>4. QED
    BY <1>2, <2>3 DEF Eval
<1>6. QED
  BY <1>1, <1>4, <1>5

\* The colIDs of a schema are its own numbers, each of one column.
SchemaOK(s) ==
    /\ s \in [cols : [Names -> Nat \cup {Nil}], next : Nat, indexed : BOOLEAN]
    /\ \A n \in Known(s) : s.cols[n] < s.next
    /\ \A m, n \in Known(s) : s.cols[m] = s.cols[n] => m = n

\* What s knows, t knows by the same colIDs; the rest came later.
Grew(s, t) ==
    /\ \A n \in Known(s) : t.cols[n] = s.cols[n]
    /\ \A n \in Known(t) \ Known(s) : t.cols[n] >= s.next
    /\ s.next <= t.next

\* encodeRow writes the value of a column under its colID.
LEMMA Encoded ==
    ASSUME NEW t, SchemaOK(t), NEW row, DOMAIN row \subseteq Known(t), NEW n \in DOMAIN row
    PROVE  Encode(t, row)[t.cols[n]] = row[n]
<1> DEFINE Is(m) == t.cols[m] = t.cols[n]
<1>1. (CHOOSE m \in DOMAIN row : Is(m)) \in DOMAIN row /\ Is(CHOOSE m \in DOMAIN row : Is(m))
  <2>1. Is(n)
    OBVIOUS
  <2> HIDE DEF Is
  <2>2. QED
    BY <2>1
<1>2. (CHOOSE m \in DOMAIN row : Is(m)) = n
  BY <1>1 DEF SchemaOK
<1>3. Encode(t, row)[t.cols[n]] = row[CHOOSE m \in DOMAIN row : t.cols[m] = t.cols[n]]
  BY DEF Encode
<1>4. QED
  BY <1>2, <1>3

\* A row keeps its form while columns are added.
LEMMA EncodedForGood ==
    ASSUME NEW s, NEW t, Grew(s, t), NEW row, DOMAIN row \subseteq Known(s)
    PROVE  Encode(t, row) = Encode(s, row)
<1>1. \A n \in DOMAIN row : t.cols[n] = s.cols[n]
  BY DEF Grew
<1>2. {t.cols[n] : n \in DOMAIN row} = {s.cols[n] : n \in DOMAIN row}
  BY <1>1
<1> DEFINE D == {s.cols[n] : n \in DOMAIN row}
           of(u, c) == CHOOSE n \in DOMAIN row : u.cols[n] = c
<1>3. ASSUME NEW c PROVE of(t, c) = of(s, c)
  BY <1>1
<1>4. Encode(t, row) = [c \in D |-> row[of(t, c)]] /\ Encode(s, row) = [c \in D |-> row[of(s, c)]]
  BY <1>2 DEF Encode
<1> HIDE DEF of, D
<1>5. QED
  BY <1>3, <1>4

\* Growth adds up.
LEMMA GrewOnAndOn ==
    ASSUME NEW r, NEW s, NEW t, SchemaOK(r), SchemaOK(s), SchemaOK(t), Grew(r, s), Grew(s, t)
    PROVE  Grew(r, t)
<1>1. Known(r) \subseteq Known(s)
  BY DEF Grew, Known
<1>2. QED
  BY <1>1 DEF Grew, SchemaOK, Known

\* A finite set of numbers has a greatest one.
LEMMA GreatestOne ==
    ASSUME NEW n \in Nat, NEW S \in SUBSET (0 .. n), S # {}
    PROVE  \E i \in S : \A j \in S : j <= i
<1> DEFINE R == {ss \in Nat \X Nat : ss[1] < ss[2]}
           gaps == {k \in Nat : n - k \in S}
<1>1. IsWellFoundedOn(R, Nat)
  BY NatLessThanWellFounded DEF OpToRel
<1>2. gaps \subseteq Nat /\ gaps # {}
  <2>1. PICK i \in S : TRUE
    OBVIOUS
  <2>2. n - i \in Nat /\ n - (n - i) = i
    OBVIOUS
  <2>3. n - i \in gaps
    BY <2>2
  <2>4. QED
    BY <2>3
<1>3. PICK k \in gaps : \A l \in gaps : <<l, k>> \notin R
  <2> HIDE DEF R, gaps
  <2>1. QED
    BY <1>1, <1>2, WFMin
<1>4. ASSUME NEW j \in S PROVE j <= n - k
  <2>1. n - j \in Nat /\ n - (n - j) = j
    OBVIOUS
  <2>2. <<n - j, k>> \notin R
    BY <1>3, <2>1
  <2>3. QED
    BY <2>1, <2>2
<1>5. QED
  BY <1>4

\* decodeRow comes to every column that it wants and the row has: it neither
\* leaves before the largest, nor before it has as many as it wants.
LEMMA SeesWhatItWants ==
    ASSUME NEW n \in Nat, NEW p, Ids(p) \subseteq 0 .. n, NEW row
    PROVE  DOMAIN row \cap Ids(p) \subseteq Seen(row, p)
<1> DEFINE W == Ids(p)
<1>0. W \in SUBSET (0 .. n)
  OBVIOUS
<1>1. IsFiniteSet(W)
  BY FS_Interval, FS_Subset, 0 \in Int, n \in Int
<1>2. ASSUME NEW c \in DOMAIN row \cap W PROVE c \in Seen(row, p)
  <2>1. MaxId(W) \in W /\ \A d \in W : d <= MaxId(W)
    <3>1. \E i \in W : \A j \in W : j <= i
      <4> HIDE DEF W
      <4>1. QED
        BY <1>0, <1>2, GreatestOne
    <3> HIDE DEF W
    <3>2. QED
      BY <3>1, <1>2 DEF MaxId
  <2> DEFINE below == {d \in DOMAIN row \cap W : d < c}
  <2>2. below \subseteq W \ {c} /\ c \in 0 .. n
    OBVIOUS
  <2>3. IsFiniteSet(W \ {c}) /\ Cardinality(W \ {c}) = Cardinality(W) - 1 /\ Cardinality(W) \in Nat
    BY <1>1, <1>2, FS_RemoveElement, FS_CardinalityType
  <2>4. Cardinality(below) <= Cardinality(W \ {c}) /\ Cardinality(below) \in Nat
    BY <2>2, <2>3, FS_Subset, FS_CardinalityType
  <2>5. Cardinality(below) < Cardinality(W)
    BY <2>3, <2>4
  <2>6. QED
    BY <1>2, <2>1, <2>5 DEF Seen
<1>3. QED
  BY <1>2

\* The columns that a query returns of what it knows, those it needs the values
\* of for its clauses, and those that its clauses name at all.
Shown(s, q) == {n \in Known(s) : q.project = {} \/ n \in q.project}
Clause(q, byIndex) == IF q.between # Nil /\ ~byIndex THEN {q.between.col} ELSE {}
Valued(q, byIndex) == ValueCols(q.filter) \cup Clause(q, byIndex)
Named(q, byIndex)  == PresenceCols(q.filter) \cup Valued(q, byIndex)

\* The columns of leaves are columns.
LEMMA ColumnsNamed ==
    ASSUME NEW q \in Queries, NEW byIndex
    PROVE  /\ PresenceCols(q.filter) \subseteq Names
           /\ Valued(q, byIndex) \subseteq Names
<1>1. ASSUME NEW ops PROVE ExprCols(q.filter, ops) \subseteq Names
  BY QueriesAssumption DEF ExprCols
<1>2. Clause(q, byIndex) \subseteq Names
  BY QueriesAssumption DEF Clause
<1>3. QED
  BY <1>1, <1>2 DEF PresenceCols, ValueCols, Valued

\* What a plan resolves: the colID of every column that a clause names, the name
\* of every colID that is returned, and which are read for their value.
LEMMA PlanResolves ==
    ASSUME NEW s, SchemaOK(s), NEW q \in Queries, NEW byIndex
    PROVE  LET p == BuildPlan(s, q, byIndex) IN
           /\ p.all <=> q.project = {}
           /\ p.cap = s.next
           /\ DOMAIN p.filterCols = Named(q, byIndex) \cap Known(s)
           /\ \A n \in DOMAIN p.filterCols : p.filterCols[n] = s.cols[n]
           /\ DOMAIN p.out = {s.cols[n] : n \in Shown(s, q)}
           /\ \A n \in Shown(s, q) : p.out[s.cols[n]] = n
           /\ \A n \in Shown(s, q) \cup (Valued(q, byIndex) \cap Known(s)) : s.cols[n] \in p.value
           /\ \A n \in Named(q, byIndex) \cap Known(s) : s.cols[n] \in Ids(p)
           /\ Ids(p) \subseteq 0 .. s.next
<1> DEFINE p == BuildPlan(s, q, byIndex)
           filterCols == [n \in Named(q, byIndex) \cap Known(s) |-> s.cols[n]]
           out == [c \in {s.cols[n] : n \in Shown(s, q)} |-> CHOOSE n \in Shown(s, q) : s.cols[n] = c]
           value == {s.cols[n] : n \in Shown(s, q)} \cup {filterCols[n] : n \in Valued(q, byIndex) \cap Known(s)}
           presence == {filterCols[n] : n \in PresenceCols(q.filter) \cap Known(s)} \ value
<1>1. p = [all |-> q.project = {}, cap |-> s.next, filterCols |-> filterCols, out |-> out,
           value |-> value, presence |-> presence]
  BY DEF BuildPlan, Shown, Clause, Valued, Named
<1>2. /\ p.all <=> q.project = {}
      /\ p.cap = s.next
      /\ p.filterCols = filterCols
      /\ p.out = out
      /\ p.value = value
      /\ p.presence = presence
  <2> HIDE DEF p, filterCols, out, value, presence
  <2>1. QED
    BY <1>1
<1>3. Valued(q, byIndex) \subseteq Named(q, byIndex) /\ PresenceCols(q.filter) \subseteq Named(q, byIndex)
  BY DEF Named
<1>4. \A n \in Named(q, byIndex) \cap Known(s) : filterCols[n] = s.cols[n]
  OBVIOUS
<1>5. ASSUME NEW n \in Shown(s, q) PROVE out[s.cols[n]] = n
  <2> DEFINE Is(m) == s.cols[m] = s.cols[n]
  <2>1. (CHOOSE m \in Shown(s, q) : Is(m)) \in Shown(s, q) /\ Is(CHOOSE m \in Shown(s, q) : Is(m))
    <3>1. Is(n)
      OBVIOUS
    <3> HIDE DEF Is
    <3>2. QED
      BY <3>1, <1>5
  <2>2. (CHOOSE m \in Shown(s, q) : Is(m)) = n
    BY <2>1 DEF SchemaOK, Shown
  <2>3. QED
    BY <2>2
<1>6. \A n \in Shown(s, q) \cup (Valued(q, byIndex) \cap Known(s)) : s.cols[n] \in value
  BY <1>3, <1>4
<1>7. \A n \in Named(q, byIndex) \cap Known(s) : s.cols[n] \in value \cup presence
  BY <1>4, <1>6 DEF Named
<1>8. value \cup presence \subseteq 0 .. s.next
  <2>1. \A n \in Known(s) : s.cols[n] \in 0 .. s.next
    BY DEF SchemaOK, Known
  <2>2. \A c \in value \cup presence : \E n \in Known(s) : c = s.cols[n]
    BY <1>3, <1>4 DEF Shown
  <2>3. QED
    BY <2>1, <2>2
<1>9. QED
  <2> HIDE DEF p, filterCols, value, presence
  <2>1. DOMAIN out = {s.cols[n] : n \in Shown(s, q)}
    OBVIOUS
  <2>2. DOMAIN filterCols = Named(q, byIndex) \cap Known(s)
    BY DEF filterCols
  <2> HIDE DEF out
  <2>3. QED
    BY <1>2, <1>4, <1>5, <1>6, <1>7, <1>8, <2>1, <2>2 DEF Ids, p

\* What decodeRow makes of a row for a column that the plan wants: it has it if
\* and only if the row has, with its value if the plan wants that.
LEMMA Decodes ==
    ASSUME NEW s, SchemaOK(s), NEW t, SchemaOK(t), Grew(s, t),
           NEW q \in Queries, NEW byIndex, NEW row, DOMAIN row \subseteq Known(t),
           NEW n \in Known(s),
           BuildPlan(s, q, byIndex).all \/ s.cols[n] \in Ids(BuildPlan(s, q, byIndex))
    PROVE  LET p == BuildPlan(s, q, byIndex)
               dec == DecodeRow(Encode(t, row), p)
           IN /\ s.cols[n] \in DOMAIN dec <=> n \in DOMAIN row
              /\ n \in DOMAIN row => dec[s.cols[n]] \in {row[n], Zero}
              /\ n \in DOMAIN row /\ (p.all \/ s.cols[n] \in p.value) => dec[s.cols[n]] = row[n]
<1> DEFINE p == BuildPlan(s, q, byIndex)
           enc == Encode(t, row)
           dec == DecodeRow(enc, p)
           c == s.cols[n]
<1>1. c = t.cols[n] /\ n \in Known(t) /\ c \in Nat /\ c < s.next
  BY DEF Grew, Known, SchemaOK
<1>2. /\ DOMAIN enc = {t.cols[m] : m \in DOMAIN row}
      /\ \A m \in DOMAIN row : enc[t.cols[m]] = row[m]
  <2>1. DOMAIN enc = {t.cols[m] : m \in DOMAIN row}
    BY DEF Encode
  <2> HIDE DEF enc, p, dec, c
  <2>2. \A m \in DOMAIN row : Encode(t, row)[t.cols[m]] = row[m]
    BY Encoded
  <2>3. QED
    BY <2>1, <2>2 DEF enc
<1> HIDE DEF enc
<1>3. (c \in DOMAIN enc <=> n \in DOMAIN row) /\ (n \in DOMAIN row => enc[c] = row[n])
  <2>1. \A m \in DOMAIN row : t.cols[m] = c => m = n
    BY <1>1 DEF SchemaOK
  <2> HIDE DEF c
  <2>2. QED
    BY <1>1, <1>2, <2>1
<1>4. p.cap = s.next /\ Ids(p) \subseteq 0 .. s.next
  BY PlanResolves
<1>5. s.next \in Nat
  BY DEF SchemaOK
<1>6. DOMAIN enc \cap Ids(p) \subseteq Seen(enc, p)
  <2> HIDE DEF p, enc
  <2>1. QED
    BY <1>4, <1>5, SeesWhatItWants
<1>7. p.all \/ c \in Ids(p)
  OBVIOUS
<1> HIDE DEF p, enc, c
<1>8. Seen(enc, p) \subseteq DOMAIN enc
  BY DEF Seen
<1>9. CASE p.all
  <2>1. dec = [d \in {e \in DOMAIN enc : e < p.cap} |-> enc[d]]
    BY <1>9 DEF DecodeRow
  <2> HIDE DEF dec
  <2>2. (c \in DOMAIN dec <=> c \in DOMAIN enc) /\ (c \in DOMAIN enc => dec[c] = enc[c])
    BY <1>1, <1>4, <2>1
  <2>3. QED
    BY <1>3, <2>2, <1>9 DEF p, enc, c, dec
<1>10. CASE ~p.all
  <2>1. dec = [d \in Seen(enc, p) \cap Ids(p) |-> IF d \in p.value THEN enc[d] ELSE Zero]
    BY <1>10 DEF DecodeRow
  <2> HIDE DEF dec
  <2>2. c \in DOMAIN dec <=> c \in DOMAIN enc
    BY <1>6, <1>7, <1>8, <1>10, <2>1
  <2>3. c \in DOMAIN enc => dec[c] = IF c \in p.value THEN enc[c] ELSE Zero
    BY <1>6, <1>7, <1>10, <2>1
  <2>4. QED
    BY <1>3, <1>10, <2>2, <2>3 DEF p, enc, c, dec
<1>11. QED
  BY <1>9, <1>10

\* The part of a row that a query knows the columns of.
Part(row, cols) == [n \in DOMAIN row \cap cols |-> row[n]]

\* Values are none of the two that stand for something else.
LEMMA ValuesAreValues ==
    ASSUME NEW row \in Puts, NEW n \in DOMAIN row
    PROVE  row[n] # Absent /\ Zero # Absent
<1>1. n \in Names /\ row[n] = Value(TypeOf[n], row[n][2]) /\ TypeOf[n] # Absent[1]
  BY PutsAssumption, QueryAssumption
<1>2. row[n][1] = TypeOf[n]
  BY <1>1 DEF Value
<1>3. QED
  BY <1>1, <1>2 DEF Zero, Absent

\* The getter answers for the columns of a query's clauses as the row does: it
\* knows which are there, and the value of those that a clause compares.
LEMMA GetterReads ==
    ASSUME NEW s, SchemaOK(s), NEW t, SchemaOK(t), Grew(s, t),
           NEW q \in Queries, NEW byIndex, NEW row \in Puts, DOMAIN row \subseteq Known(t)
    PROVE  LET p == BuildPlan(s, q, byIndex)
               get == Getter(p, DecodeRow(Encode(t, row), p))
               has == Stored(Part(row, Known(s)))
           IN /\ \A n \in Valued(q, byIndex) : get[n] = has[n]
              /\ \A n \in PresenceCols(q.filter) : get[n] = Absent <=> has[n] = Absent
<1> DEFINE p == BuildPlan(s, q, byIndex)
           dec == DecodeRow(Encode(t, row), p)
           get == Getter(p, dec)
           has == Stored(Part(row, Known(s)))
<1>1. /\ DOMAIN p.filterCols = Named(q, byIndex) \cap Known(s)
      /\ \A n \in DOMAIN p.filterCols : p.filterCols[n] = s.cols[n]
      /\ \A n \in Valued(q, byIndex) \cap Known(s) : s.cols[n] \in p.value
      /\ \A n \in Named(q, byIndex) \cap Known(s) : s.cols[n] \in Ids(p)
  BY PlanResolves
<1>2. ASSUME NEW n \in Named(q, byIndex) \cap Known(s)
      PROVE  /\ s.cols[n] \in DOMAIN dec <=> n \in DOMAIN row
             /\ n \in DOMAIN row => dec[s.cols[n]] \in {row[n], Zero}
             /\ n \in DOMAIN row /\ s.cols[n] \in p.value => dec[s.cols[n]] = row[n]
  <2>1. s.cols[n] \in Ids(p)
    BY <1>1
  <2>2. QED
    BY <2>1, Decodes
<1>3. Named(q, byIndex) \subseteq Names
  BY ColumnsNamed DEF Named
<1> HIDE DEF p, dec
<1>4. ASSUME NEW n \in Named(q, byIndex)
      PROVE  /\ has[n] = IF n \in DOMAIN row \cap Known(s) THEN row[n] ELSE Absent
             /\ get[n] = IF n \in Known(s) /\ s.cols[n] \in DOMAIN dec THEN dec[s.cols[n]] ELSE Absent
  BY <1>1, <1>3 DEF Getter, Stored, Part
<1> HIDE DEF get, has
<1>5. ASSUME NEW n \in Valued(q, byIndex) PROVE get[n] = has[n]
  <2>1. n \in Named(q, byIndex)
    BY DEF Named
  <2>2. QED
    BY <1>1, <1>2, <1>4, <2>1
<1>6. ASSUME NEW n \in PresenceCols(q.filter) PROVE get[n] = Absent <=> has[n] = Absent
  <2>1. n \in Named(q, byIndex)
    BY DEF Named
  <2>2. n \in DOMAIN row => row[n] # Absent /\ Zero # Absent
    BY ValuesAreValues
  <2>3. QED
    BY <1>2, <1>4, <2>1, <2>2
<1>7. QED
  BY <1>5, <1>6 DEF p, dec, get, has

\* A clause comes to the same on two getters that agree on its column.
LEMMA MeetsAlike ==
    ASSUME NEW l, l.op \in {"eq", "in", "between", "exists"}, NEW get, NEW has,
           l.op # "exists" => get[l.col] = has[l.col],
           get[l.col] = Absent <=> has[l.col] = Absent
    PROVE  Meets(l, get) <=> Meets(l, has)
<1>1. CASE l.op = "eq"
  BY <1>1 DEF Meets
<1>2. CASE l.op = "in"
  BY <1>2 DEF Meets
<1>3. CASE l.op = "between"
  BY <1>3 DEF Meets
<1>4. CASE l.op = "exists"
  BY <1>4 DEF Meets
<1>5. QED
  BY <1>1, <1>2, <1>3, <1>4

\* So the clauses of a query come to the same on what was decoded of a row as on
\* the row.
LEMMA ClausesAgree ==
    ASSUME NEW s, SchemaOK(s), NEW t, SchemaOK(t), Grew(s, t),
           NEW q \in Queries, NEW byIndex, NEW row \in Puts, DOMAIN row \subseteq Known(t)
    PROVE  LET p == BuildPlan(s, q, byIndex)
               get == Getter(p, DecodeRow(Encode(t, row), p))
               has == Stored(Part(row, Known(s)))
           IN /\ q.between # Nil /\ ~byIndex => (Meets(q.between, get) <=> Meets(q.between, has))
              /\ q.filter # Nil => (Eval(q.filter, get) <=> Eval(q.filter, has))
<1> DEFINE p == BuildPlan(s, q, byIndex)
           get == Getter(p, DecodeRow(Encode(t, row), p))
           has == Stored(Part(row, Known(s)))
<1>1. /\ \A n \in Valued(q, byIndex) : get[n] = has[n]
      /\ \A n \in PresenceCols(q.filter) : get[n] = Absent <=> has[n] = Absent
  BY GetterReads
<1> HIDE DEF p, get, has
<1>2. ASSUME q.between # Nil, ~byIndex PROVE Meets(q.between, get) <=> Meets(q.between, has)
  <2>1. q.between.op = "between"
    BY <1>2, QueriesAssumption
  <2>2. get[q.between.col] = has[q.between.col]
    BY <1>1, <1>2 DEF Valued, Clause
  <2>3. QED
    BY <2>1, <2>2, MeetsAlike
<1>3. ASSUME q.filter # Nil PROVE Eval(q.filter, get) <=> Eval(q.filter, has)
  <2>1. ASSUME NEW l \in q.filter.leaves PROVE Meets(l, get) <=> Meets(l, has)
    <3>1. l.op \in {"eq", "in", "between", "exists"}
      BY <1>3, QueriesAssumption
    <3>2. l.op # "exists" => l.col \in ValueCols(q.filter)
      BY <1>3, <3>1 DEF ValueCols, ExprCols
    <3>3. l.op = "exists" => l.col \in PresenceCols(q.filter)
      BY <1>3 DEF PresenceCols, ExprCols
    <3>4. QED
      BY <1>1, <3>1, <3>2, <3>3, MeetsAlike DEF Valued
  <2>2. {l \in q.filter.leaves : Meets(l, get)} = {l \in q.filter.leaves : Meets(l, has)}
    BY <2>1
  <2>3. QED
    BY <2>2 DEF Eval
<1>4. QED
  BY <1>2, <1>3 DEF p, get, has

\* What a query returns of a row that it knows a part of.
Returned(part, project) == [n \in {m \in DOMAIN part : project = {} \/ m \in project} |-> part[n]]

\* And the row that is returned is the row, as far as it is asked for and known.
LEMMA ShapesThePart ==
    ASSUME NEW s, SchemaOK(s), NEW t, SchemaOK(t), Grew(s, t),
           NEW q \in Queries, NEW byIndex, NEW row, DOMAIN row \subseteq Known(t)
    PROVE  LET p == BuildPlan(s, q, byIndex)
           IN ShapeRow(p, DecodeRow(Encode(t, row), p)) = Returned(Part(row, Known(s)), q.project)
<1> DEFINE p == BuildPlan(s, q, byIndex)
           dec == DecodeRow(Encode(t, row), p)
           part == Part(row, Known(s))
           cols == {m \in DOMAIN part : q.project = {} \/ m \in q.project}
           ids == DOMAIN p.out \cap DOMAIN dec
           of(n) == CHOOSE c \in ids : p.out[c] = n
<1>1. /\ p.all <=> q.project = {}
      /\ DOMAIN p.out = {s.cols[n] : n \in Shown(s, q)}
      /\ \A n \in Shown(s, q) : p.out[s.cols[n]] = n
      /\ \A n \in Shown(s, q) : s.cols[n] \in p.value
  BY PlanResolves
<1>2. Shown(s, q) \subseteq Known(s)
  BY DEF Shown
<1>3. ASSUME NEW n \in Shown(s, q)
      PROVE  /\ s.cols[n] \in DOMAIN dec <=> n \in DOMAIN row
             /\ n \in DOMAIN row => dec[s.cols[n]] = row[n]
  <2>1. s.cols[n] \in p.value /\ s.cols[n] \in Ids(p)
    BY <1>1 DEF Ids
  <2>2. QED
    BY <1>2, <2>1, Decodes
<1>4. cols = Shown(s, q) \cap DOMAIN row
  BY DEF Part, Shown
<1>5. \A n \in cols : part[n] = row[n]
  BY DEF Part
<1> HIDE DEF p, dec, part
<1>6. ids = {s.cols[n] : n \in cols}
  <2> HIDE DEF cols
  <2>1. QED
    BY <1>1, <1>3, <1>4
<1>7. \A n \in cols : p.out[s.cols[n]] = n
  BY <1>1, <1>4
<1> HIDE DEF cols, ids
<1>8. {p.out[c] : c \in ids} = cols
  BY <1>6, <1>7
<1>9. ASSUME NEW n \in cols PROVE dec[of(n)] = part[n]
  <2> DEFINE Is(c) == p.out[c] = n
  <2>1. s.cols[n] \in ids /\ Is(s.cols[n])
    BY <1>6, <1>7
  <2>2. (CHOOSE c \in ids : Is(c)) \in ids /\ Is(CHOOSE c \in ids : Is(c))
    <3> HIDE DEF Is
    <3>1. QED
      BY <2>1
  <2>3. of(n) = s.cols[n]
    BY <1>6, <1>7, <2>2
  <2> HIDE DEF of
  <2>4. QED
    BY <1>3, <1>4, <1>5, <2>3
<1>10. ShapeRow(p, dec) = [n \in {p.out[c] : c \in ids} |-> dec[of(n)]]
  BY DEF ShapeRow, ids
<1> HIDE DEF of
<1>11. ShapeRow(p, dec) = [n \in cols |-> part[n]]
  BY <1>8, <1>9, <1>10
<1>12. QED
  BY <1>11 DEF p, dec, part, cols, Returned

\* biasInt64 takes the numbers of the width, in their order, to those from zero.
LEMMA BiasShifts ==
    ASSUME NEW v \in Ints
    PROVE  Bias(v) = v + Half /\ Bias(v) \in 0 .. Top
<1> DEFINE M == 2 * Half
           a == v + Half
<1>1. Half \in Nat /\ Half > 0
  BY QueryAssumption
<1>2. M \in Nat /\ M > 0 /\ a \in Nat /\ a < M
  BY <1>1 DEF Ints
<1> HIDE DEF M, a
<1>3. a % M = a
  BY <1>2
<1>4. QED
  BY <1>1, <1>2, <1>3 DEF Bias, Top, M, a

\* The index range of a Between holds the entries of the values it asks for, up
\* to the greatest value of the width (indexRangeBounds).
THEOREM RangeIsBetween ==
    ASSUME NEW e, NEW v \in Ints, NEW lo \in Ints, NEW hi \in Ints, e.col \in Nat, e.b = Bias(v)
    PROVE  InRange(e, e.col, lo, hi) <=> lo <= v /\ v <= hi
<1>1. Bias(v) = v + Half /\ Bias(lo) = lo + Half /\ Bias(hi) = hi + Half /\ Bias(v) \in 0 .. Top /\ Bias(hi) \in 0 .. Top
  BY BiasShifts
<1>2. Half \in Nat /\ Top \in Int
  BY QueryAssumption DEF Top
<1>3. ~Before(<<e.col, e.b>>, <<e.col, Bias(lo)>>) <=> lo <= v
  BY <1>1, <1>2 DEF Before, Ints
<1>4. CASE Bias(hi) # Top
  <2>1. RangeEnd(e.col, hi) = <<e.col, Bias(hi) + 1>>
    BY <1>4 DEF RangeEnd
  <2>2. Before(<<e.col, e.b>>, <<e.col, Bias(hi) + 1>>) <=> v <= hi
    BY <1>1, <1>2 DEF Before, Ints
  <2>3. QED
    BY <1>3, <2>1, <2>2 DEF InRange
<1>5. CASE Bias(hi) = Top
  <2>1. RangeEnd(e.col, hi) = <<e.col + 1, 0>>
    BY <1>5 DEF RangeEnd
  <2>2. Before(<<e.col, e.b>>, <<e.col + 1, 0>>)
    BY <1>1, <1>2 DEF Before, Ints
  <2>3. v <= hi
    BY <1>1, <1>2, <1>5 DEF Ints
  <2>4. QED
    BY <1>3, <2>1, <2>2, <2>3 DEF InRange
<1>6. QED
  BY <1>4, <1>5

-----------------------------------------------------------------------------
(*                      What the database keeps, always                     *)

Entry(k) == [col |-> schema.cols[IndexCol], b |-> Bias(table[k][IndexCol][2]), pk |-> k,
             row |-> Encode(schema, table[k])]

\* Which columns a schema has; of an indexed set the indexed one at least, and
\* it is indexed before it is written to.
SchemaInv ==
    /\ SchemaOK(schema)
    /\ guard \in BOOLEAN /\ becomes \in BOOLEAN
    /\ schema.indexed => becomes /\ IndexCol \in Known(schema)
    /\ becomes /\ ~schema.indexed => Known(schema) = {} /\ \A k \in Keys : table[k] = Nil

\* Rows are what was put, of columns that the schema knows.
Rows == \A k \in Keys : table[k] # Nil => table[k] \in Puts /\ DOMAIN table[k] \subseteq Known(schema)

\* Without an index D/ has the rows.
Unindexed ==
    ~becomes =>
      /\ index = {}
      /\ \A k \in Keys : data[k] = IF table[k] = Nil THEN NoRow ELSE Payload(Encode(schema, table[k]))

\* With one D/ has pointers to the entries of I/ that have the rows, and I/ has
\* no other entry unless orphans are guarded against.
Indexed ==
    becomes =>
      /\ \A k \in Keys : table[k] = Nil => data[k] = NoRow
      /\ \A k \in Keys : table[k] # Nil =>
           IndexCol \in DOMAIN table[k] /\ data[k] = Pointer(Bias(table[k][IndexCol][2])) /\ Entry(k) \in index
      /\ \A e \in index : e.pk \in Keys /\ schema.indexed /\ e.col = schema.cols[IndexCol]
      /\ \A e, f \in index : e.pk = f.pk /\ e.b = f.b => e = f
      /\ ~guard => \A e \in index : data[e.pk] = Pointer(e.b)

DataOK == data = [k \in Keys |-> data[k]] /\ table = [k \in Keys |-> table[k]]

StoreInv == DataOK /\ SchemaInv /\ Rows /\ Unindexed /\ Indexed

\* The database is opened empty.
LEMMA StoreStarts == QueryInit => StoreInv
<1> SUFFICES ASSUME QueryInit PROVE StoreInv
  OBVIOUS
<1> USE DEF QueryInit
<1>1. Known(schema) = {}
  BY DEF Known
<1>2. SchemaOK(schema)
  BY <1>1 DEF SchemaOK
<1>3. schema.indexed = FALSE /\ \A k \in Keys : table[k] = Nil /\ data[k] = NoRow
  OBVIOUS
<1>4. DataOK
  BY DEF DataOK
<1>5. QED
  BY <1>1, <1>2, <1>3, <1>4 DEF StoreInv, SchemaInv, Rows, Unindexed, Indexed

\* Columns are added, none is renumbered.
LEMMA ColumnsAppear ==
    ASSUME NEW s, SchemaOK(s), NEW added \in SUBSET Names, NEW t \in WithColumns(s, added)
    PROVE  SchemaOK(t) /\ Grew(s, t) /\ Known(t) = Known(s) \cup added /\ t.indexed = s.indexed
<1> DEFINE new == added \ Known(s)
           top == s.next + Cardinality(new)
<1>1. PICK f \in [new -> s.next .. top - 1] :
        /\ \A m, n \in new : f[m] = f[n] => m = n
        /\ t = [s EXCEPT !.cols = [n \in Names |-> IF n \in new THEN f[n] ELSE @[n]], !.next = top]
  BY DEF WithColumns
<1>2. IsFiniteSet(new)
  BY QueryAssumption, FS_Subset
<1>3. Cardinality(new) \in Nat /\ Nil \notin Nat
  BY <1>2, FS_CardinalityType, QueryAssumption
<1>4. top \in Nat /\ s.next <= top /\ s.next \in Nat
  BY <1>3 DEF SchemaOK
<1>5. \A n \in new : f[n] \in Nat /\ s.next <= f[n] /\ f[n] < top
  BY <1>4
<1> HIDE DEF top
<1>6. /\ t.cols = [n \in Names |-> IF n \in new THEN f[n] ELSE s.cols[n]]
      /\ t.next = top /\ t.indexed = s.indexed
      /\ t = [cols |-> t.cols, next |-> t.next, indexed |-> t.indexed]
  BY <1>1 DEF SchemaOK
<1>7. \A n \in Names : t.cols[n] = IF n \in new THEN f[n] ELSE s.cols[n]
  BY <1>6
<1>8. new \subseteq Names /\ new \cap Known(s) = {}
  OBVIOUS
<1> HIDE DEF new
<1>9. Known(t) = Known(s) \cup new
  BY <1>3, <1>5, <1>7, <1>8 DEF Known
<1>10. Known(t) = Known(s) \cup added
  BY <1>9 DEF new
<1>11. /\ s.cols \in [Names -> Nat \cup {Nil}] /\ s.indexed \in BOOLEAN
       /\ Known(s) \subseteq Names
       /\ \A n \in Known(s) : s.cols[n] \in Nat /\ s.cols[n] < s.next
       /\ \A m, n \in Known(s) : s.cols[m] = s.cols[n] => m = n
  BY DEF SchemaOK, Known
<1>12. t \in [cols : [Names -> Nat \cup {Nil}], next : Nat, indexed : BOOLEAN]
  <2>1. t.cols \in [Names -> Nat \cup {Nil}]
    BY <1>5, <1>6, <1>11
  <2>2. QED
    BY <1>4, <1>6, <1>11, <2>1
<1>13. \A n \in Known(s) : t.cols[n] = s.cols[n]
  BY <1>7, <1>8, <1>11
<1>14. \A n \in new : t.cols[n] = f[n]
  BY <1>7, <1>8
<1>15. \A n \in Known(t) : t.cols[n] < t.next
  BY <1>4, <1>5, <1>6, <1>9, <1>11, <1>13, <1>14
<1>16. ASSUME NEW m \in Known(t), NEW n \in Known(t), t.cols[m] = t.cols[n] PROVE m = n
  BY <1>1, <1>4, <1>5, <1>9, <1>11, <1>13, <1>14, <1>16
<1>17. Grew(s, t)
  BY <1>4, <1>5, <1>6, <1>9, <1>13, <1>14 DEF Grew
<1>18. QED
  BY <1>6, <1>10, <1>12, <1>15, <1>16, <1>17 DEF SchemaOK

\* What is stored keeps its form while columns appear.
LEMMA StoreGrows ==
    ASSUME StoreInv, SchemaOK(schema'), Grew(schema, schema'),
           schema'.indexed = schema.indexed, becomes => schema.indexed,
           UNCHANGED <<data, index, table, guard, becomes>>
    PROVE  StoreInv'
<1>1. Known(schema) \subseteq Known(schema')
  BY DEF Grew, Known, StoreInv, SchemaInv, SchemaOK
<1>2. ASSUME NEW k \in Keys, table[k] # Nil PROVE Encode(schema', table[k]) = Encode(schema, table[k])
  BY <1>2, EncodedForGood DEF StoreInv, Rows
<1>3. schema.indexed => schema'.cols[IndexCol] = schema.cols[IndexCol]
  BY DEF Grew, StoreInv, SchemaInv
<1>4. SchemaInv' /\ Rows' /\ DataOK'
  BY <1>1 DEF StoreInv, SchemaInv, Rows, DataOK
<1>5. Unindexed'
  BY <1>2 DEF StoreInv, Unindexed
<1>6. Indexed'
  <2>1. ASSUME becomes, NEW k \in Keys, table[k] # Nil PROVE Entry(k)' = Entry(k)
    BY <1>2, <1>3, <2>1 DEF Entry
  <2>2. QED
    BY <1>3, <2>1 DEF StoreInv, Indexed
<1>7. QED
  BY <1>4, <1>5, <1>6 DEF StoreInv

\* The index is declared before there is anything to index.
LEMMA RegisterKeeps ==
    ASSUME StoreInv, RegisterSet
    PROVE  StoreInv' /\ SchemaOK(schema') /\ Grew(schema, schema')
<1>1. becomes /\ schema.indexed = FALSE /\ Known(schema) = {} /\ \A k \in Keys : table[k] = Nil
  BY DEF StoreInv, SchemaInv, SchemaOK, RegisterSet
<1>2. schema.cols \in [Names -> Nat \cup {Nil}] /\ schema.next \in Nat /\ Nil \notin Nat /\ IndexCol \in Names
  BY QueryAssumption DEF StoreInv, SchemaInv, SchemaOK
<1>3. /\ schema'.cols = [schema.cols EXCEPT ![IndexCol] = schema.next]
      /\ schema'.next = schema.next + 1 /\ schema'.indexed = TRUE
      /\ schema' = [cols |-> schema'.cols, next |-> schema'.next, indexed |-> schema'.indexed]
  BY DEF RegisterSet
<1>4. schema'.cols \in [Names -> Nat \cup {Nil}] /\ schema'.next \in Nat
  BY <1>2, <1>3
<1>5. \A n \in Names : schema'.cols[n] = IF n = IndexCol THEN schema.next ELSE Nil
  BY <1>1, <1>2, <1>3 DEF Known
<1>6. Known(schema') = {IndexCol}
  BY <1>2, <1>5 DEF Known
<1>7. SchemaOK(schema')
  <2>1. schema' \in [cols : [Names -> Nat \cup {Nil}], next : Nat, indexed : BOOLEAN]
    BY <1>3, <1>4
  <2>2. QED
    BY <1>2, <1>3, <1>5, <1>6, <2>1 DEF SchemaOK
<1>8. Grew(schema, schema')
  BY <1>1, <1>2, <1>3, <1>5, <1>6 DEF Grew
<1>9. index = {}
  BY <1>1 DEF StoreInv, Indexed
<1>10. UNCHANGED <<data, index, table, guard, becomes>>
  BY DEF RegisterSet
<1>11. SchemaInv' /\ Rows' /\ DataOK'
  BY <1>1, <1>3, <1>6, <1>7, <1>10 DEF StoreInv, SchemaInv, Rows, DataOK
<1>12. Unindexed' /\ Indexed'
  BY <1>1, <1>9, <1>10 DEF StoreInv, Unindexed, Indexed
<1>13. QED
  BY <1>7, <1>8, <1>11, <1>12 DEF StoreInv

\* A put of a row, once its columns are there: D/ or the entry has it, and no
\* entry of an earlier value of the row stays behind but for those that the
\* guard is there for.
LEMMA PutKeeps ==
    ASSUME StoreInv, NEW k \in Keys, NEW row \in Puts, NEW new \in BOOLEAN, Put(k, row, new)
    PROVE  StoreInv' /\ SchemaOK(schema') /\ Grew(schema, schema')
<1>1. PICK t \in WithColumns(schema, DOMAIN row) :
        /\ schema' = t
        /\ IF ~t.indexed
           THEN /\ data' = [data EXCEPT ![k] = Payload(Encode(t, row))]
                /\ table' = [table EXCEPT ![k] = row] /\ UNCHANGED index
           ELSE IF IndexCol \notin DOMAIN row THEN UNCHANGED <<data, index, table>>
           ELSE LET biased == Bias(row[IndexCol][2])
                    old == IF new \/ data[k] = NoRow THEN {} ELSE EntryAt(k, data[k].b) IN
                /\ new => guard \/ data[k] \in {NoRow, Pointer(biased)}
                /\ index' = (index \ (old \cup EntryAt(k, biased)))
                              \cup {[col |-> t.cols[IndexCol], b |-> biased, pk |-> k, row |-> Encode(t, row)]}
                /\ data' = [data EXCEPT ![k] = Pointer(biased)]
                /\ table' = [table EXCEPT ![k] = row]
  BY DEF Put
<1>2. (becomes => schema.indexed) /\ UNCHANGED <<guard, becomes>>
  BY DEF Put
<1>3. DOMAIN row \in SUBSET Names /\ row # Nil
  BY PutsAssumption, QueryAssumption
<1>4. SchemaOK(schema)
  BY DEF StoreInv, SchemaInv
<1>5. /\ SchemaOK(schema') /\ Grew(schema, schema') /\ schema'.indexed = schema.indexed
      /\ Known(schema') = Known(schema) \cup DOMAIN row
  BY <1>1, <1>3, <1>4, ColumnsAppear
<1>6. /\ \A j \in Keys : table[j] # Nil => /\ table[j] \in Puts /\ DOMAIN table[j] \subseteq Known(schema)
                                         /\ Encode(schema', table[j]) = Encode(schema, table[j])
  BY <1>5, EncodedForGood DEF StoreInv, Rows
<1>7. schema.indexed => schema'.cols[IndexCol] = schema.cols[IndexCol] /\ IndexCol \in Known(schema) /\ becomes
  BY <1>5 DEF Grew, StoreInv, SchemaInv
<1>8. becomes <=> schema.indexed
  BY <1>2, <1>7
<1>9. data = [j \in Keys |-> data[j]] /\ table = [j \in Keys |-> table[j]]
  BY DEF StoreInv, DataOK
<1>10. CASE ~schema.indexed
  <2>1. /\ data' = [data EXCEPT ![k] = Payload(Encode(schema', row))]
        /\ table' = [table EXCEPT ![k] = row] /\ UNCHANGED index
    BY <1>1, <1>5, <1>10
  <2>2. /\ \A j \in Keys : table'[j] = IF j = k THEN row ELSE table[j]
        /\ \A j \in Keys : data'[j] = IF j = k THEN Payload(Encode(schema', row)) ELSE data[j]
        /\ DataOK'
    BY <1>9, <2>1 DEF DataOK
  <2>3. SchemaInv' /\ Rows'
    BY <1>2, <1>3, <1>5, <1>6, <1>7, <1>10, <2>2 DEF StoreInv, SchemaInv, Rows
  <2>4. Unindexed'
    BY <1>2, <1>3, <1>6, <2>1, <2>2 DEF StoreInv, Unindexed
  <2>5. Indexed'
    BY <1>2, <1>8, <1>10 DEF Indexed
  <2>6. QED
    BY <1>5, <2>2, <2>3, <2>4, <2>5 DEF StoreInv
<1>11. CASE schema.indexed /\ IndexCol \notin DOMAIN row
  <2>1. UNCHANGED <<data, index, table>>
    BY <1>1, <1>5, <1>11
  <2>2. QED
    BY <1>2, <1>5, <2>1, StoreGrows
<1>12. CASE schema.indexed /\ IndexCol \in DOMAIN row
  <2> DEFINE biased == Bias(row[IndexCol][2])
             old == IF new \/ data[k] = NoRow THEN {} ELSE EntryAt(k, data[k].b)
             fresh == [col |-> schema'.cols[IndexCol], b |-> biased, pk |-> k, row |-> Encode(schema', row)]
  <2>1. /\ new => guard \/ data[k] \in {NoRow, Pointer(biased)}
        /\ index' = (index \ (old \cup EntryAt(k, biased))) \cup {fresh}
        /\ data' = [data EXCEPT ![k] = Pointer(biased)]
        /\ table' = [table EXCEPT ![k] = row]
    BY <1>1, <1>5, <1>12
  <2>2. /\ \A j \in Keys : table'[j] = IF j = k THEN row ELSE table[j]
        /\ \A j \in Keys : data'[j] = IF j = k THEN Pointer(biased) ELSE data[j]
        /\ DataOK'
    BY <1>9, <2>1 DEF DataOK
  <2>3. SchemaInv' /\ Rows'
    BY <1>2, <1>3, <1>5, <1>6, <1>7, <1>12, <2>2 DEF StoreInv, SchemaInv, Rows
  <2>4. Unindexed'
    BY <1>2, <1>8, <1>12 DEF Unindexed
  <2>5. /\ Pointer(biased).kind = "ptr" /\ Pointer(biased).b = biased
        /\ fresh.pk = k /\ fresh.b = biased /\ fresh.col = schema'.cols[IndexCol]
    BY DEF Pointer
  <2>6. /\ \A e \in index : e.pk # k => e \in index'
        /\ \A e \in index' : e = fresh \/ (e \in index /\ e \notin old /\ ~(e.pk = k /\ e.b = biased))
        /\ fresh \in index'
    BY <2>1 DEF EntryAt
  <2>7. Entry(k)' = fresh
    BY <1>3, <2>2 DEF Entry
  <2>8. ASSUME NEW j \in Keys \ {k}, table[j] # Nil PROVE Entry(j)' = Entry(j) /\ Entry(j).pk = j
    BY <1>6, <1>7, <1>12, <2>2, <2>8 DEF Entry
  <2>9. ASSUME ~guard, NEW e \in index' PROVE data'[e.pk] = Pointer(e.b)
    <3>1. CASE e = fresh
      BY <2>2, <2>5, <3>1
    <3>2. CASE e # fresh
      <4>1. e \in index /\ e \notin old /\ ~(e.pk = k /\ e.b = biased)
        BY <2>6, <3>2
      <4>2. data[e.pk] = Pointer(e.b) /\ e.pk \in Keys
        BY <1>2, <1>8, <1>12, <2>9, <4>1 DEF StoreInv, Indexed
      <4>3. e.pk # k
        <5> SUFFICES ASSUME e.pk = k PROVE FALSE
          OBVIOUS
        <5>1. data[k] # NoRow /\ data[k].b = e.b
          BY <4>2 DEF Pointer, NoRow
        <5>2. CASE new
          BY <1>2, <2>1, <2>5, <2>9, <4>1, <5>1, <5>2
        <5>3. CASE ~new
          BY <4>1, <5>1, <5>3 DEF EntryAt
        <5>4. QED
          BY <5>2, <5>3
      <4>4. QED
        BY <2>2, <4>2, <4>3
    <3>3. QED
      BY <3>1, <3>2
  <2> HIDE DEF biased, old, fresh
  <2>10. Indexed'
    <3>1. becomes /\ becomes' /\ schema'.indexed
      BY <1>2, <1>5, <1>8, <1>12
    <3>2. ASSUME NEW j \in Keys, table'[j] = Nil PROVE data'[j] = NoRow
      BY <1>3, <2>2, <3>1, <3>2 DEF StoreInv, Indexed
    <3>3. ASSUME NEW j \in Keys, table'[j] # Nil
          PROVE  /\ IndexCol \in DOMAIN table'[j] /\ data'[j] = Pointer(Bias(table'[j][IndexCol][2]))
                 /\ Entry(j)' \in index'
      <4>1. CASE j = k
        BY <1>12, <2>2, <2>6, <2>7, <4>1 DEF biased
      <4>2. CASE j # k
        BY <2>2, <2>6, <2>8, <3>1, <3>3, <4>2 DEF StoreInv, Indexed
      <4>3. QED
        BY <4>1, <4>2
    <3>4. ASSUME NEW e \in index' PROVE e.pk \in Keys /\ e.col = schema'.cols[IndexCol]
      BY <1>7, <1>12, <2>5, <2>6, <3>1 DEF StoreInv, Indexed
    <3>5. ASSUME NEW e \in index', NEW f \in index', e.pk = f.pk, e.b = f.b PROVE e = f
      BY <2>5, <2>6, <3>1, <3>5 DEF StoreInv, Indexed
    <3>6. QED
      BY <1>2, <2>9, <3>1, <3>2, <3>3, <3>4, <3>5 DEF Indexed
  <2>11. QED
    BY <1>5, <2>2, <2>3, <2>4, <2>10 DEF StoreInv
<1>13. QED
  BY <1>10, <1>11, <1>12

\* A delete takes the row, and the entry that its pointer names.
LEMMA DeleteKeeps ==
    ASSUME StoreInv, NEW k \in Keys, Delete(k)
    PROVE  StoreInv' /\ UNCHANGED schema
<1>1. /\ data[k] # NoRow
      /\ index' = IF schema.indexed THEN index \ EntryAt(k, data[k].b) ELSE index
      /\ data' = [data EXCEPT ![k] = NoRow]
      /\ table' = [table EXCEPT ![k] = Nil]
      /\ UNCHANGED <<schema, guard, becomes>>
  BY DEF Delete
<1>2. data = [j \in Keys |-> data[j]] /\ table = [j \in Keys |-> table[j]]
  BY DEF StoreInv, DataOK
<1>3. /\ \A j \in Keys : table'[j] = IF j = k THEN Nil ELSE table[j]
      /\ \A j \in Keys : data'[j] = IF j = k THEN NoRow ELSE data[j]
      /\ DataOK'
  BY <1>1, <1>2 DEF DataOK
<1>4. SchemaInv' /\ Rows'
  BY <1>1, <1>3 DEF StoreInv, SchemaInv, Rows
<1>5. Unindexed'
  BY <1>1, <1>3 DEF StoreInv, Unindexed, EntryAt
<1>6. ASSUME becomes PROVE Indexed'
  <2>1. schema.indexed => index' = index \ EntryAt(k, data[k].b)
    BY <1>1
  <2>2. /\ \A e \in index : e.pk # k => e \in index'
        /\ index' \subseteq index
    BY <1>1 DEF EntryAt
  <2>3. ASSUME NEW j \in Keys \ {k}, table[j] # Nil PROVE Entry(j)' = Entry(j) /\ Entry(j).pk = j
    BY <1>1, <1>3 DEF Entry
  <2>4. ASSUME ~guard, NEW e \in index' PROVE data'[e.pk] = Pointer(e.b)
    <3>1. e \in index /\ e.pk \in Keys /\ data[e.pk] = Pointer(e.b) /\ schema.indexed
      BY <1>6, <2>2, <2>4 DEF StoreInv, Indexed
    <3>2. e.pk # k
      <4> SUFFICES ASSUME e.pk = k PROVE FALSE
        OBVIOUS
      <4>1. data[k].b = e.b
        BY <3>1 DEF Pointer
      <4>2. QED
        BY <2>1, <2>4, <3>1, <4>1 DEF EntryAt
    <3>3. QED
      BY <1>3, <3>1, <3>2
  <2>5. ASSUME NEW j \in Keys, table'[j] # Nil
        PROVE  /\ IndexCol \in DOMAIN table'[j] /\ data'[j] = Pointer(Bias(table'[j][IndexCol][2]))
               /\ Entry(j)' \in index'
    <3>1. j # k /\ table'[j] = table[j] /\ data'[j] = data[j]
      BY <1>3, <2>5
    <3>2. QED
      BY <1>6, <2>2, <2>3, <2>5, <3>1 DEF StoreInv, Indexed
  <2>6. ASSUME NEW j \in Keys, table'[j] = Nil PROVE data'[j] = NoRow
    BY <1>3, <1>6, <2>6 DEF StoreInv, Indexed
  <2>7. QED
    BY <1>1, <1>6, <2>2, <2>4, <2>5, <2>6 DEF StoreInv, Indexed
<1>7. Indexed'
  BY <1>1, <1>6 DEF Indexed
<1>8. QED
  BY <1>1, <1>3, <1>4, <1>5, <1>7 DEF StoreInv

-----------------------------------------------------------------------------
(*                     What a walk comes to, and tells                      *)

\* The plan of the iterator is that of s, a schema that has grown since.
Planned(s) ==
    /\ SchemaOK(s) /\ Grew(s, schema)
    /\ it.known = Known(s) /\ it.plan = BuildPlan(s, it.q, it.byIndex)
    /\ it.q \in Queries /\ it.clustered \in BOOLEAN
    /\ it.q.between # Nil => it.q.between.col \in Known(s) /\ it.q.between.lo[1] = TypeOf[it.q.between.col]
    /\ it.byIndex => it.q.between # Nil /\ it.q.between.col = IndexCol /\ it.clustered

\* Whether the query asks for a row of the table, and what it returns of it.
Asks(k) ==
    LET has == Stored(Part(table[k], it.known)) IN
    /\ it.q.between # Nil => Meets(it.q.between, has)
    /\ it.q.filter # Nil => Eval(it.q.filter, has)

Out(k) == Returned(Part(table[k], it.known), it.q.project)

\* Whether Next delivers a record, and as what.
Wanted(r) ==
    /\ ~(guard /\ it.byIndex /\ ~r.live)
    /\ Accepts(Getter(it.plan, DecodeRow(r.value.row, it.plan)))
Told(r) == <<r.pk, ShapeRow(it.plan, DecodeRow(r.value.row, it.plan))>>

\* The answer, in those words.
LEMMA AnswerIs == Answer(it.q, it.known) = {<<k, Out(k)>> : k \in {j \in Keys : table[j] # Nil /\ Asks(j)}}
BY DEF Answer, Out, Returned, Asks, Part

\* What kind of records a walk has that found the set as it is.
LEMMA RecordsAreRows ==
    ASSUME StoreInv, ~Late, it.clustered \in BOOLEAN, NEW r \in Walk
    PROVE  /\ r.value.kind = "row"
           /\ r.live \in BOOLEAN
           /\ ~r.live => guard /\ it.clustered
<1>1. it.clustered = becomes /\ becomes \in BOOLEAN
  BY DEF Late, StoreInv, SchemaInv
<1>2. CASE it.clustered
  <2>1. PICK e \in index : r = [b |-> e.b, pk |-> e.pk, value |-> Payload(e.row), live |-> data[e.pk] = Pointer(e.b)]
    BY <1>2 DEF Walk
  <2>2. ~guard => data[e.pk] = Pointer(e.b)
    BY <1>1, <1>2 DEF StoreInv, Indexed
  <2>3. QED
    BY <1>2, <2>1, <2>2 DEF Payload
<1>3. CASE ~it.clustered
  <2>1. PICK k \in Keys : data[k] # NoRow /\ r = [b |-> 0, pk |-> k, value |-> data[k], live |-> TRUE]
    BY <1>3 DEF Walk
  <2>2. data[k] = Payload(Encode(schema, table[k]))
    BY <1>1, <1>3, <2>1 DEF StoreInv, Unindexed
  <2>3. QED
    BY <2>1, <2>2 DEF Payload
<1>4. QED
  BY <1>1, <1>2, <1>3

\* A record of a walk that its pointer names.
Live(b, pk, value) == [b |-> b, pk |-> pk, value |-> value, live |-> TRUE]

\* It is the row of its key.
LEMMA LiveRecord ==
    ASSUME StoreInv, ~Late, it.clustered \in BOOLEAN, NEW r \in Walk, r.live
    PROVE  /\ r.pk \in Keys /\ table[r.pk] # Nil
           /\ r.value.row = Encode(schema, table[r.pk])
           /\ it.clustered => /\ r = Live(Entry(r.pk).b, r.pk, Payload(Entry(r.pk).row))
                              /\ IndexCol \in DOMAIN table[r.pk]
                              /\ it.byIndex => InRange(Entry(r.pk), schema.cols[IndexCol], it.q.between.lo[2], it.q.between.hi[2])
           /\ ~it.clustered => r = Live(0, r.pk, data[r.pk])
<1>1. it.clustered = becomes /\ becomes \in BOOLEAN
  BY DEF Late, StoreInv, SchemaInv
<1>2. CASE it.clustered
  <2>1. PICK e \in index :
          /\ r = [b |-> e.b, pk |-> e.pk, value |-> Payload(e.row), live |-> data[e.pk] = Pointer(e.b)]
          /\ it.byIndex => InRange(e, schema.cols[IndexCol], it.q.between.lo[2], it.q.between.hi[2])
    BY <1>2 DEF Walk
  <2>2. e.pk \in Keys /\ data[e.pk] = Pointer(e.b) /\ r.pk = e.pk
    BY <1>1, <1>2, <2>1 DEF StoreInv, Indexed
  <2>3. data[e.pk] # NoRow
    BY <2>2 DEF Pointer, NoRow
  <2>4. table[e.pk] # Nil
    BY <1>1, <1>2, <2>2, <2>3 DEF StoreInv, Indexed
  <2>5. IndexCol \in DOMAIN table[e.pk] /\ Entry(e.pk) \in index /\ data[e.pk] = Pointer(Entry(e.pk).b)
    BY <1>1, <1>2, <2>2, <2>4 DEF StoreInv, Indexed, Entry
  <2>6. Entry(e.pk).b = e.b /\ Entry(e.pk).pk = e.pk
    BY <2>2, <2>5 DEF Pointer, Entry
  <2>7. Entry(e.pk) = e
    BY <1>1, <1>2, <2>5, <2>6 DEF StoreInv, Indexed
  <2>8. e.row = Encode(schema, table[e.pk])
    BY <2>7 DEF Entry
  <2>9. r.value.row = e.row
    BY <2>1 DEF Payload
  <2>10. r = Live(e.b, r.pk, Payload(e.row))
    BY <2>1, <2>2 DEF Live
  <2>11. r = Live(Entry(r.pk).b, r.pk, Payload(Entry(r.pk).row))
    BY <2>2, <2>7, <2>10
  <2> HIDE DEF Entry
  <2>12. it.byIndex => InRange(Entry(r.pk), schema.cols[IndexCol], it.q.between.lo[2], it.q.between.hi[2])
    BY <2>1, <2>2, <2>7
  <2>13. r.pk \in Keys /\ table[r.pk] # Nil /\ IndexCol \in DOMAIN table[r.pk]
    BY <2>2, <2>4, <2>5
  <2>14. r.value.row = Encode(schema, table[r.pk])
    BY <2>2, <2>8, <2>9
  <2>15. QED
    BY <1>2, <2>11, <2>12, <2>13, <2>14
<1>3. CASE ~it.clustered
  <2>1. PICK k \in Keys : data[k] # NoRow /\ r = [b |-> 0, pk |-> k, value |-> data[k], live |-> TRUE]
    BY <1>3 DEF Walk
  <2>2. data[k] = Payload(Encode(schema, table[k])) /\ table[k] # Nil /\ r.pk = k /\ r.value = data[k]
    BY <1>1, <1>3, <2>1 DEF StoreInv, Unindexed
  <2>3. r = Live(0, r.pk, data[r.pk])
    BY <2>1, <2>2 DEF Live
  <2>4. r.value.row = Encode(schema, table[r.pk])
    BY <2>2 DEF Payload
  <2>5. QED
    BY <1>3, <2>2, <2>3, <2>4
<1>4. QED
  BY <1>2, <1>3

\* So a walk has one such record of a key at most.
LEMMA LiveOnce ==
    ASSUME StoreInv, ~Late, it.clustered \in BOOLEAN,
           NEW r1 \in Walk, NEW r2 \in Walk, r1.live, r2.live, r1.pk = r2.pk
    PROVE  r1 = r2
<1>1. CASE it.clustered
  <2>1. r1 = Live(Entry(r1.pk).b, r1.pk, Payload(Entry(r1.pk).row))
    BY <1>1, LiveRecord
  <2>2. r2 = Live(Entry(r2.pk).b, r2.pk, Payload(Entry(r2.pk).row))
    BY <1>1, LiveRecord
  <2>3. QED
    BY <2>1, <2>2
<1>2. CASE ~it.clustered
  <2>1. r1 = Live(0, r1.pk, data[r1.pk])
    BY <1>2, LiveRecord
  <2>2. r2 = Live(0, r2.pk, data[r2.pk])
    BY <1>2, LiveRecord
  <2>3. QED
    BY <2>1, <2>2
<1>3. QED
  BY <1>1, <1>2

\* The entry of a row is in the range of a Between on the indexed column if and
\* only if the Between holds of the row.
LEMMA RangeHolds ==
    ASSUME StoreInv, NEW s, Planned(s), ~Late, it.byIndex,
           NEW k \in Keys, table[k] # Nil, IndexCol \in DOMAIN table[k]
    PROVE  Meets(it.q.between, Stored(Part(table[k], it.known)))
             <=> InRange(Entry(k), schema.cols[IndexCol], it.q.between.lo[2], it.q.between.hi[2])
<1> DEFINE v == table[k][IndexCol]
           bt == it.q.between
           has == Stored(Part(table[k], it.known))
<1>1. bt # Nil /\ bt.col = IndexCol /\ IndexCol \in it.known /\ bt.lo[1] = "int"
  BY QueryAssumption DEF Planned
<1>2. bt.op = "between" /\ bt.hi[1] = "int" /\ bt.lo[2] \in Ints /\ bt.hi[2] \in Ints
  BY <1>1, QueriesAssumption DEF Planned
<1>3. table[k] \in Puts
  BY DEF StoreInv, Rows
<1>4. v[1] = "int" /\ v[2] \in Ints
  <2>1. v = Value("int", v[2]) /\ v[2] \in Ints
    BY <1>3, PutsAssumption, QueryAssumption
  <2>2. Value("int", v[2])[1] = "int"
    BY DEF Value
  <2>3. QED
    BY <2>1, <2>2
<1>5. has[IndexCol] = v
  BY <1>1, QueryAssumption DEF Stored, Part
<1> HIDE DEF has, v
<1>6. Meets(bt, has) <=> bt.lo[2] <= v[2] /\ v[2] <= bt.hi[2]
  BY <1>1, <1>2, <1>4, <1>5 DEF Meets, SameType
<1>7. schema.cols[IndexCol] \in Nat
  <2>1. IndexCol \in Known(s) /\ schema.cols[IndexCol] = s.cols[IndexCol]
    BY <1>1 DEF Planned, Grew
  <2>2. QED
    BY <2>1 DEF Planned, SchemaOK, Known
<1>8. Entry(k).col = schema.cols[IndexCol] /\ Entry(k).b = Bias(v[2])
  BY DEF Entry, v
<1> HIDE DEF Entry
<1>9. InRange(Entry(k), Entry(k).col, bt.lo[2], bt.hi[2]) <=> bt.lo[2] <= v[2] /\ v[2] <= bt.hi[2]
  BY <1>2, <1>4, <1>7, <1>8, RangeIsBetween
<1>10. QED
  BY <1>6, <1>8, <1>9 DEF has

\* A record that its pointer names is delivered if and only if its row is asked
\* for, as what is asked of it.
LEMMA RecordAnswers ==
    ASSUME StoreInv, NEW s, Planned(s), ~Late, NEW r \in Walk, r.live
    PROVE  /\ r.pk \in Keys /\ table[r.pk] # Nil
           /\ Wanted(r) <=> Asks(r.pk)
           /\ Told(r) = <<r.pk, Out(r.pk)>>
<1> DEFINE row == table[r.pk]
           has == Stored(Part(row, it.known))
           get == Getter(it.plan, DecodeRow(r.value.row, it.plan))
<1>1. it.clustered \in BOOLEAN /\ it.known = Known(s)
  BY DEF Planned
<1>2. /\ r.pk \in Keys /\ row # Nil
      /\ r.value.row = Encode(schema, row)
      /\ it.clustered => IndexCol \in DOMAIN row
      /\ it.clustered /\ it.byIndex => InRange(Entry(r.pk), schema.cols[IndexCol], it.q.between.lo[2], it.q.between.hi[2])
  BY <1>1, LiveRecord
<1>3. row \in Puts /\ DOMAIN row \subseteq Known(schema) /\ SchemaOK(schema)
  BY <1>2 DEF StoreInv, Rows, SchemaInv
<1>4. /\ it.q.between # Nil /\ ~it.byIndex => (Meets(it.q.between, get) <=> Meets(it.q.between, has))
      /\ it.q.filter # Nil => (Eval(it.q.filter, get) <=> Eval(it.q.filter, has))
  BY <1>2, <1>3, ClausesAgree DEF Planned
<1>5. it.byIndex => it.q.between # Nil /\ Meets(it.q.between, has)
  <2>1. it.byIndex => it.q.between # Nil /\ it.clustered
    BY DEF Planned
  <2> HIDE DEF has, Walk
  <2>2. ASSUME it.byIndex PROVE Meets(it.q.between, Stored(Part(table[r.pk], it.known)))
    BY <1>2, <2>1, <2>2, RangeHolds
  <2>3. QED
    BY <2>1, <2>2 DEF has
<1>6. Accepts(get) <=> Asks(r.pk)
  <2>1. Asks(r.pk) <=> /\ it.q.between # Nil => Meets(it.q.between, has)
                       /\ it.q.filter # Nil => Eval(it.q.filter, has)
    BY DEF Asks
  <2> HIDE DEF has, get
  <2>2. QED
    BY <1>4, <1>5, <2>1 DEF Accepts
<1>7. Wanted(r) <=> Asks(r.pk)
  BY <1>6 DEF Wanted
<1>8. ShapeRow(it.plan, DecodeRow(r.value.row, it.plan)) = Out(r.pk)
  <2>1. /\ SchemaOK(s) /\ SchemaOK(schema) /\ Grew(s, schema) /\ it.q \in Queries
        /\ DOMAIN row \subseteq Known(schema) /\ it.plan = BuildPlan(s, it.q, it.byIndex)
    BY <1>3 DEF Planned
  <2> HIDE DEF row
  <2>2. ShapeRow(it.plan, DecodeRow(Encode(schema, row), it.plan)) = Returned(Part(row, Known(s)), it.q.project)
    BY <2>1, ShapesThePart
  <2>3. QED
    BY <1>1, <1>2, <2>2 DEF Out, row
<1>9. QED
  BY <1>2, <1>7, <1>8 DEF Told

\* And every row that is asked for has one.
LEMMA RecordThere ==
    ASSUME StoreInv, NEW s, Planned(s), ~Late, NEW k \in Keys, table[k] # Nil, Asks(k)
    PROVE  \E r \in Walk : r.live /\ r.pk = k
<1>1. it.clustered = becomes /\ becomes \in BOOLEAN
  BY DEF Late, StoreInv, SchemaInv, Planned
<1>2. CASE it.clustered
  <2>1. IndexCol \in DOMAIN table[k] /\ data[k] = Pointer(Entry(k).b) /\ Entry(k) \in index
    BY <1>1, <1>2 DEF StoreInv, Indexed, Entry
  <2>2. it.byIndex => InRange(Entry(k), schema.cols[IndexCol], it.q.between.lo[2], it.q.between.hi[2])
    BY <2>1, RangeHolds DEF Asks, Planned
  <2>3. Entry(k).pk = k
    BY DEF Entry
  <2> HIDE DEF Entry
  <2> DEFINE e == Entry(k)
             r == [b |-> e.b, pk |-> e.pk, value |-> Payload(e.row), live |-> data[e.pk] = Pointer(e.b)]
  <2>4. r \in Walk
    BY <1>2, <2>1, <2>2 DEF Walk
  <2>5. r.live /\ r.pk = k
    BY <2>1, <2>3
  <2>6. QED
    BY <2>4, <2>5
<1>3. CASE ~it.clustered
  <2>1. data[k] # NoRow
    <3>1. data[k] = Payload(Encode(schema, table[k]))
      BY <1>1, <1>3 DEF StoreInv, Unindexed
    <3>2. data[k].kind = "row" /\ NoRow.kind = "none"
      BY <3>1 DEF Payload, NoRow
    <3>3. QED
      BY <3>2
  <2> DEFINE r == [b |-> 0, pk |-> k, value |-> data[k], live |-> TRUE]
  <2>2. r \in Walk
    BY <1>3, <2>1 DEF Walk
  <2>3. QED
    BY <2>2
<1>4. QED
  BY <1>1, <1>2, <1>3

-----------------------------------------------------------------------------
(*                          The invariant of a query                        *)

IsSeq(q) == q \in Seq({q[i] : i \in DOMAIN q})

\* Append adds one at the end, and leaves what was there.
LEMMA AppendsOne ==
    ASSUME NEW q, IsSeq(q), NEW e
    PROVE  /\ IsSeq(Append(q, e))
           /\ DOMAIN q = 1 .. Len(q) /\ Len(q) \in Nat
           /\ DOMAIN Append(q, e) = 1 .. Len(q) + 1
           /\ \A i \in 1 .. Len(q) : Append(q, e)[i] = q[i]
           /\ Append(q, e)[Len(q) + 1] = e
<1> DEFINE S == {q[i] : i \in DOMAIN q} \cup {e}
           a == Append(q, e)
<1>1. q \in Seq(S)
  BY DEF IsSeq
<1> HIDE DEF S
<1>2. e \in S
  BY DEF S
<1>3. /\ DOMAIN q = 1 .. Len(q) /\ Len(q) \in Nat
      /\ a \in Seq(S) /\ Len(a) = Len(q) + 1 /\ DOMAIN a = 1 .. Len(q) + 1
      /\ \A i \in 1 .. Len(q) : a[i] = q[i]
      /\ a[Len(q) + 1] = e
  BY <1>1, <1>2
<1> HIDE DEF a
<1>4. \A i \in 1 .. Len(a) : a[i] \in {a[j] : j \in DOMAIN a}
  BY <1>3
<1>5. a \in Seq({a[j] : j \in DOMAIN a})
  BY <1>3, <1>4
<1>6. QED
  BY <1>3, <1>5 DEF IsSeq, a

Iterator == it = [at |-> it.at, q |-> it.q, err |-> it.err, got |-> it.got, todo |-> it.todo, byIndex |-> it.byIndex,
                  clustered |-> it.clustered, known |-> it.known, plan |-> it.plan]

\* Nobody has asked yet.
Unasked == it = NoIter /\ want = {}

\* The plan is made and the snapshot is not: writers may be at work.
Waiting ==
    /\ Iterator /\ it.at \in {"layout", "snapshot"} /\ want = {}
    /\ it.got = <<>> /\ it.err = "none"
    /\ it.at = "layout" => ~it.byIndex
    /\ \E s : Planned(s)

\* A walk that found the set as it is has delivered, of what it is past, what is
\* wanted and nothing else, and each once where there are no orphans.
ToldSoFar ==
    /\ \A i \in DOMAIN it.got : \E r \in Walk \ it.todo : Wanted(r) /\ it.got[i] = Told(r)
    /\ \A r \in Walk \ it.todo : Wanted(r) => \E i \in DOMAIN it.got : it.got[i] = Told(r)
    /\ ~Orphans => \A i, j \in DOMAIN it.got : it.got[i] = it.got[j] => i = j

Walking ==
    /\ Iterator /\ it.at = "walk" /\ it.err = "none" /\ IsSeq(it.got)
    /\ \E s : Planned(s)
    /\ want = Answer(it.q, it.known)
    /\ it.todo \subseteq Walk
    /\ ~Late => ToldSoFar

Over == it.at = "done" /\ AnswersAreRight /\ NothingIsMissed

QueryInv == StoreInv /\ (Unasked \/ Waiting \/ Walking \/ Over)

\* Where orphans do not show, what is wanted is what its pointer added.
LEMMA WantedAreLive ==
    ASSUME StoreInv, ~Late, ~Orphans, it.clustered \in BOOLEAN, NEW r \in Walk, Wanted(r)
    PROVE  r.live
BY RecordsAreRows DEF Wanted, Orphans

\* Every delivery so far is in the answer, and there once.
LEMMA RightSoFar == StoreInv /\ Walking => AnswersAreRight
<1> SUFFICES ASSUME StoreInv, Walking, ~Orphans, ~Late
             PROVE  /\ \A i \in DOMAIN it.got : it.got[i] \in want
                    /\ \A i, j \in DOMAIN it.got : it.got[i] = it.got[j] => i = j
  BY DEF AnswersAreRight
<1>1. PICK s : Planned(s)
  BY DEF Walking
<1>2. ASSUME NEW i \in DOMAIN it.got PROVE it.got[i] \in want
  <2>1. PICK r \in Walk : Wanted(r) /\ it.got[i] = Told(r)
    BY DEF Walking, ToldSoFar
  <2>2. r.live
    BY <1>1, <2>1, WantedAreLive DEF Planned
  <2>3. r.pk \in Keys /\ table[r.pk] # Nil /\ Asks(r.pk) /\ it.got[i] = <<r.pk, Out(r.pk)>>
    BY <1>1, <2>1, <2>2, RecordAnswers
  <2>4. want = {<<k, Out(k)>> : k \in {j \in Keys : table[j] # Nil /\ Asks(j)}}
    BY AnswerIs DEF Walking
  <2>5. QED
    BY <2>3, <2>4
<1>3. QED
  BY <1>2 DEF Walking, ToldSoFar

\* And a walk that is at its end has delivered all of it.
LEMMA AllTold ==
    ASSUME StoreInv, Walking, it.todo = {}, ~Late, NEW w \in want
    PROVE  \E i \in DOMAIN it.got : it.got[i] = w
<1>1. PICK s : Planned(s)
  BY DEF Walking
<1>2. PICK k \in Keys : table[k] # Nil /\ Asks(k) /\ w = <<k, Out(k)>>
  <2>1. want = {<<k, Out(k)>> : k \in {j \in Keys : table[j] # Nil /\ Asks(j)}}
    BY AnswerIs DEF Walking
  <2>2. QED
    BY <2>1
<1>3. PICK r \in Walk : r.live /\ r.pk = k
  BY <1>1, <1>2, RecordThere
<1>4. Wanted(r) /\ Told(r) = w
  BY <1>1, <1>2, <1>3, RecordAnswers
<1>5. QED
  BY <1>3, <1>4 DEF Walking, ToldSoFar

\* What an iterator walks, wants and tells stays, while the store, its query and
\* its plan do.
LEMMA Frozen ==
    ASSUME UNCHANGED <<schema, data, index, table, guard, becomes>>,
           it'.q = it.q, it'.byIndex = it.byIndex, it'.clustered = it.clustered,
           it'.known = it.known, it'.plan = it.plan
    PROVE  /\ Walk' = Walk
           /\ Answer(it.q, it.known)' = Answer(it.q, it.known)
           /\ Late' = Late /\ Orphans' = Orphans
           /\ \A r : (Wanted(r)' <=> Wanted(r)) /\ Told(r)' = Told(r)
           /\ \A s : Planned(s) => Planned(s)'
<1>1. Walk' = Walk
  BY DEF Walk
<1>2. Answer(it.q, it.known)' = Answer(it.q, it.known)
  BY DEF Answer
<1>3. Late' = Late /\ Orphans' = Orphans
  BY DEF Late, Orphans
<1>4. ASSUME NEW r PROVE (Wanted(r)' <=> Wanted(r)) /\ Told(r)' = Told(r)
  BY DEF Wanted, Told, Accepts
<1>5. ASSUME NEW s PROVE Planned(s) => Planned(s)'
  BY DEF Planned
<1>6. QED
  BY <1>1, <1>2, <1>3, <1>4, <1>5

\* What no step touches keeps.
LEMMA StoreStays ==
    ASSUME StoreInv, UNCHANGED <<schema, data, index, table, guard, becomes>>
    PROVE  StoreInv'
BY DEF StoreInv, DataOK, SchemaInv, Rows, Unindexed, Indexed, Entry

-----------------------------------------------------------------------------
(*                                 Its steps                                *)

\* It starts so.
LEMMA QueryStarts == QueryInit => QueryInv
BY StoreStarts DEF QueryInit, QueryInv, Unasked

\* A writer leaves the iterator alone, and there is no snapshot it could miss.
LEMMA WritersKeep ==
    ASSUME QueryInv, StoreInv', SchemaOK(schema'), Grew(schema, schema'), ~Pinned, UNCHANGED <<it, want>>
    PROVE  QueryInv'
<1>1. CASE Unasked
  BY <1>1 DEF QueryInv, Unasked
<1>2. CASE Waiting
  <2>1. PICK s : Planned(s)
    BY <1>2 DEF Waiting
  <2>2. Grew(s, schema')
    BY <2>1, GrewOnAndOn DEF Planned, QueryInv, StoreInv, SchemaInv
  <2>3. Planned(s)'
    BY <2>1, <2>2 DEF Planned
  <2>4. QED
    BY <1>2, <2>3 DEF QueryInv, Waiting, Iterator
<1>3. QED
  BY <1>1, <1>2 DEF QueryInv, Walking, Over, Pinned

\* The plan is made of the schema as it is.
LEMMA RunKeeps ==
    ASSUME QueryInv, NEW q \in Queries, Run(q)
    PROVE  QueryInv'
<1> DEFINE bt == q.between
           byIndex == bt # Nil /\ schema.indexed /\ bt.col = IndexCol
           Iter(at, err) == [at |-> at, q |-> q, err |-> err, got |-> <<>>, todo |-> {}, byIndex |-> byIndex,
                             clustered |-> schema.indexed, known |-> Known(schema), plan |-> BuildPlan(schema, q, byIndex)]
<1>1. /\ it = NoIter
      /\ it' = IF bt # Nil /\ bt.col \notin Known(schema) THEN Iter("done", "none")
               ELSE IF bt # Nil /\ bt.lo[1] # TypeOf[bt.col] THEN Iter("done", "type")
               ELSE Iter(IF q.scan \/ byIndex THEN "snapshot" ELSE "layout", "none")
      /\ UNCHANGED <<schema, data, index, table, guard, becomes, writes, want>>
  BY DEF Run
<1>2. want' = {}
  BY <1>1 DEF QueryInv, Unasked, Waiting, Walking, Over, NoIter
<1>3. StoreInv' /\ StoreInv
  BY <1>1, StoreStays DEF QueryInv
<1>4. ASSUME NEW at, NEW err, it' = Iter(at, err)
      PROVE  /\ it'.at = at /\ it'.err = err /\ it'.got = <<>> /\ it'.todo = {} /\ it'.q = q
             /\ it'.byIndex = byIndex /\ it'.clustered = schema.indexed /\ it'.known = Known(schema)
             /\ it'.plan = BuildPlan(schema, q, byIndex)
             /\ Iterator'
  BY <1>4 DEF Iterator
<1>5. ASSUME NEW err, it' = Iter("done", err) PROVE QueryInv'
  <2>1. it'.at = "done" /\ it'.got = <<>>
    BY <1>4, <1>5
  <2>2. AnswersAreRight' /\ NothingIsMissed'
    BY <1>2, <2>1 DEF AnswersAreRight, NothingIsMissed
  <2>3. QED
    BY <1>3, <2>1, <2>2 DEF QueryInv, Over
<1>6. ASSUME NEW at \in {"layout", "snapshot"}, at = "layout" => ~byIndex, it' = Iter(at, "none"),
             bt # Nil => bt.col \in Known(schema) /\ bt.lo[1] = TypeOf[bt.col]
      PROVE  QueryInv'
  <2>1. SchemaOK(schema) /\ schema.indexed \in BOOLEAN
    BY <1>3 DEF StoreInv, SchemaInv, SchemaOK
  <2>2. Grew(schema, schema)
    BY <2>1 DEF Grew, SchemaOK
  <2>3. /\ it'.at = at /\ it'.err = "none" /\ it'.got = <<>> /\ it'.q = q
        /\ it'.byIndex = byIndex /\ it'.clustered = schema.indexed /\ it'.known = Known(schema)
        /\ it'.plan = BuildPlan(schema, q, byIndex)
        /\ Iterator'
    BY <1>4, <1>6
  <2>4. schema' = schema
    BY <1>1
  <2>5. byIndex => bt # Nil /\ bt.col = IndexCol /\ schema.indexed
    OBVIOUS
  <2> HIDE DEF byIndex
  <2>6. /\ SchemaOK(schema') /\ Grew(schema, schema')
        /\ it'.known = Known(schema) /\ it'.plan = BuildPlan(schema, it'.q, it'.byIndex)
        /\ it'.q \in Queries /\ it'.clustered \in BOOLEAN
        /\ it'.q.between # Nil => it'.q.between.col \in Known(schema) /\ it'.q.between.lo[1] = TypeOf[it'.q.between.col]
        /\ it'.byIndex => it'.q.between # Nil /\ it'.q.between.col = IndexCol /\ it'.clustered
    BY <1>6, <2>1, <2>2, <2>3, <2>4, <2>5
  <2>7. \E s : Planned(s)'
    BY <2>1, <2>6 DEF Planned
  <2>8. it'.at = "layout" => ~it'.byIndex
    BY <1>6, <2>3
  <2>9. Waiting'
    BY <1>2, <2>3, <2>7, <2>8 DEF Waiting
  <2>10. QED
    BY <1>3, <2>9 DEF QueryInv
<1>7. CASE bt # Nil /\ bt.col \notin Known(schema)
  BY <1>1, <1>5, <1>7
<1>8. CASE bt # Nil /\ bt.col \in Known(schema) /\ bt.lo[1] # TypeOf[bt.col]
  BY <1>1, <1>5, <1>8
<1>9. CASE bt # Nil => bt.col \in Known(schema) /\ bt.lo[1] = TypeOf[bt.col]
  <2> DEFINE at == IF q.scan \/ byIndex THEN "snapshot" ELSE "layout"
  <2>1. it' = Iter(at, "none")
    BY <1>1, <1>9
  <2>2. at \in {"layout", "snapshot"} /\ (at = "layout" => ~byIndex)
    OBVIOUS
  <2> HIDE DEF at, byIndex, Iter
  <2>3. QED
    BY <1>6, <1>9, <2>1, <2>2
<1>10. QED
  BY <1>7, <1>8, <1>9

\* The second look at the layout is before the snapshot.
LEMMA LayoutKeeps == QueryInv /\ Layout => QueryInv'
<1> SUFFICES ASSUME QueryInv, Layout PROVE QueryInv'
  OBVIOUS
<1>1. it.at = "layout" /\ it' = [it EXCEPT !.at = "snapshot", !.clustered = schema.indexed]
      /\ UNCHANGED <<schema, data, index, table, guard, becomes, writes, want>>
  BY DEF Layout
<1>2. Waiting
  BY <1>1 DEF QueryInv, Unasked, NoIter, Walking, Over
<1>3. PICK s : Planned(s)
  BY <1>2 DEF Waiting
<1>4. /\ it'.at = "snapshot" /\ it'.clustered = schema.indexed /\ it'.q = it.q /\ it'.err = it.err
      /\ it'.got = it.got /\ it'.byIndex = it.byIndex /\ it'.known = it.known /\ it'.plan = it.plan
      /\ Iterator'
  BY <1>1, <1>2 DEF Waiting, Iterator
<1>5. StoreInv' /\ schema.indexed \in BOOLEAN
  BY <1>1, StoreStays DEF QueryInv, StoreInv, SchemaInv, SchemaOK
<1>6. Planned(s)'
  BY <1>1, <1>2, <1>3, <1>4, <1>5 DEF Planned, Waiting
<1>7. Waiting'
  BY <1>1, <1>2, <1>4, <1>6 DEF Waiting
<1>8. QED
  BY <1>5, <1>7 DEF QueryInv

\* The snapshot fixes the answer and the walk at once.
LEMMA SnapshotKeeps == QueryInv /\ Snapshot => QueryInv'
<1> SUFFICES ASSUME QueryInv, Snapshot PROVE QueryInv'
  OBVIOUS
<1>1. /\ it.at = "snapshot" /\ it' = [it EXCEPT !.at = "walk", !.todo = Walk]
      /\ want' = Answer(it.q, it.known)
      /\ UNCHANGED <<schema, data, index, table, guard, becomes, writes>>
  BY DEF Snapshot
<1>2. Waiting
  BY <1>1 DEF QueryInv, Unasked, NoIter, Walking, Over
<1>3. PICK s : Planned(s)
  BY <1>2 DEF Waiting
<1>4. /\ it'.at = "walk" /\ it'.todo = Walk /\ it'.clustered = it.clustered /\ it'.q = it.q /\ it'.err = it.err
      /\ it'.got = it.got /\ it'.byIndex = it.byIndex /\ it'.known = it.known /\ it'.plan = it.plan
      /\ Iterator'
  BY <1>1, <1>2 DEF Waiting, Iterator
<1>5. StoreInv'
  BY <1>1, StoreStays DEF QueryInv
<1>6. Walk' = Walk /\ Answer(it.q, it.known)' = Answer(it.q, it.known) /\ Planned(s)'
  BY <1>1, <1>3, <1>4, Frozen
<1>7. it'.got = <<>> /\ it'.err = "none"
  BY <1>2, <1>4 DEF Waiting
<1>8. IsSeq(it'.got)
  BY <1>7 DEF IsSeq
<1>9. ToldSoFar'
  BY <1>4, <1>6, <1>7 DEF ToldSoFar
<1>10. want' = Answer(it.q, it.known)'
  BY <1>1, <1>6
<1>11. Walking'
  BY <1>4, <1>6, <1>7, <1>8, <1>9, <1>10 DEF Walking
<1>12. QED
  BY <1>5, <1>11 DEF QueryInv

\* A walk ends right, and with all of the answer if it was not cut short.
LEMMA EndsRight ==
    ASSUME StoreInv, Walking, Iterator',
           UNCHANGED <<schema, data, index, table, guard, becomes, want>>,
           it'.q = it.q, it'.byIndex = it.byIndex, it'.clustered = it.clustered,
           it'.known = it.known, it'.plan = it.plan, it'.at = "done", it'.got = it.got,
           Late \/ it'.err = "ctx" \/ it.todo = {}
    PROVE  QueryInv'
<1>1. StoreInv'
  BY StoreStays
<1>2. Late' = Late /\ Orphans' = Orphans
  BY Frozen
<1>3. AnswersAreRight'
  BY <1>2, RightSoFar DEF AnswersAreRight, Walking
<1>4. NothingIsMissed'
  <2>1. ASSUME ~Late, it'.err # "ctx", NEW w \in want PROVE \E i \in DOMAIN it.got : it.got[i] = w
    BY <2>1, AllTold
  <2>2. QED
    BY <1>2, <2>1 DEF NothingIsMissed
<1>5. QED
  BY <1>1, <1>3, <1>4 DEF QueryInv, Over

\* A reader stops at the end of the walk, or when its context does.
LEMMA StopKeeps == QueryInv /\ Stop => QueryInv'
<1> SUFFICES ASSUME QueryInv, Stop PROVE QueryInv'
  OBVIOUS
<1>1. /\ it.at = "walk"
      /\ \/ it.todo = {} /\ it' = [it EXCEPT !.at = "done"]
         \/ it' = [it EXCEPT !.at = "done", !.err = "ctx", !.todo = {}]
      /\ UNCHANGED <<schema, data, index, table, guard, becomes, writes, want>>
  BY DEF Stop
<1>2. Walking /\ StoreInv
  BY <1>1 DEF QueryInv, Unasked, NoIter, Waiting, Over
<1>3. /\ it'.q = it.q /\ it'.byIndex = it.byIndex /\ it'.clustered = it.clustered
      /\ it'.known = it.known /\ it'.plan = it.plan /\ it'.at = "done" /\ it'.got = it.got
      /\ it'.err = "ctx" \/ it.todo = {}
      /\ Iterator'
  BY <1>1, <1>2 DEF Walking, Iterator
<1>4. QED
  BY <1>1, <1>2, <1>3, EndsRight

\* Past a record that is not wanted.
LEMMA PassesBy ==
    ASSUME StoreInv, Walking, NEW r \in it.todo, ~Late => ~Wanted(r),
           it' = [it EXCEPT !.todo = it.todo \ {r}],
           UNCHANGED <<schema, data, index, table, guard, becomes, want>>
    PROVE  QueryInv'
<1>1. /\ it'.q = it.q /\ it'.byIndex = it.byIndex /\ it'.clustered = it.clustered /\ it'.err = it.err
      /\ it'.known = it.known /\ it'.plan = it.plan /\ it'.at = it.at /\ it'.got = it.got
      /\ it'.todo = it.todo \ {r}
      /\ Iterator'
  BY DEF Walking, Iterator
<1>2. PICK s : Planned(s)
  BY DEF Walking
<1>3. StoreInv'
  BY StoreStays
<1>4. /\ Walk' = Walk /\ Answer(it.q, it.known)' = Answer(it.q, it.known) /\ Planned(s)'
      /\ Late' = Late /\ Orphans' = Orphans
      /\ \A x : (Wanted(x)' <=> Wanted(x)) /\ Told(x)' = Told(x)
  BY <1>1, <1>2, Frozen
<1>5. ASSUME ~Late PROVE ToldSoFar'
  <2>1. ToldSoFar /\ ~Wanted(r)
    BY <1>5 DEF Walking
  <2>2. ASSUME NEW i \in DOMAIN it.got PROVE \E x \in Walk \ it'.todo : Wanted(x) /\ it.got[i] = Told(x)
    BY <1>1, <2>1 DEF ToldSoFar
  <2>3. ASSUME NEW x \in Walk \ it'.todo, Wanted(x) PROVE \E i \in DOMAIN it.got : it.got[i] = Told(x)
    <3>1. x \in Walk \ it.todo
      BY <1>1, <2>1, <2>3
    <3>2. QED
      BY <2>1, <2>3, <3>1 DEF ToldSoFar
  <2>4. ~Orphans => \A i, j \in DOMAIN it.got : it.got[i] = it.got[j] => i = j
    BY <2>1 DEF ToldSoFar
  <2>5. QED
    BY <1>1, <1>4, <2>2, <2>3, <2>4 DEF ToldSoFar
<1>6. Walking'
  BY <1>1, <1>4, <1>5 DEF Walking
<1>7. QED
  BY <1>3, <1>6 DEF QueryInv

\* A record that is wanted is told, for the first time.
LEMMA Delivers ==
    ASSUME StoreInv, Walking, NEW r \in it.todo, NEW told, ~Late => Wanted(r) /\ told = Told(r),
           it' = [it EXCEPT !.todo = it.todo \ {r}, !.got = Append(it.got, told)],
           UNCHANGED <<schema, data, index, table, guard, becomes, want>>
    PROVE  QueryInv'
<1> DEFINE more == Append(it.got, told)
<1>1. /\ it'.q = it.q /\ it'.byIndex = it.byIndex /\ it'.clustered = it.clustered /\ it'.err = it.err
      /\ it'.known = it.known /\ it'.plan = it.plan /\ it'.at = it.at /\ it'.got = more
      /\ it'.todo = it.todo \ {r}
      /\ Iterator'
  BY DEF Walking, Iterator
<1>2. PICK s : Planned(s)
  BY DEF Walking
<1>3. StoreInv'
  BY StoreStays
<1>4. /\ Walk' = Walk /\ Answer(it.q, it.known)' = Answer(it.q, it.known) /\ Planned(s)'
      /\ Late' = Late /\ Orphans' = Orphans
      /\ \A x : (Wanted(x)' <=> Wanted(x)) /\ Told(x)' = Told(x)
  BY <1>1, <1>2, Frozen
<1>5. /\ IsSeq(more) /\ Len(it.got) \in Nat
      /\ DOMAIN it.got = 1 .. Len(it.got) /\ DOMAIN more = 1 .. Len(it.got) + 1
      /\ \A i \in 1 .. Len(it.got) : more[i] = it.got[i]
      /\ more[Len(it.got) + 1] = told
  BY AppendsOne DEF Walking
<1> HIDE DEF more
<1>6. ASSUME ~Late PROVE ToldSoFar'
  <2>1. ToldSoFar /\ Wanted(r) /\ told = Told(r) /\ r \in Walk
    BY <1>6 DEF Walking
  <2>2. ASSUME NEW i \in DOMAIN more PROVE \E x \in Walk \ it'.todo : Wanted(x) /\ more[i] = Told(x)
    <3>1. CASE i = Len(it.got) + 1
      BY <1>1, <1>5, <2>1, <3>1
    <3>2. CASE i \in DOMAIN it.got
      BY <1>1, <1>5, <2>1, <3>2 DEF ToldSoFar
    <3>3. QED
      BY <1>5, <3>1, <3>2
  <2>3. ASSUME NEW x \in Walk \ it'.todo, Wanted(x) PROVE \E i \in DOMAIN more : more[i] = Told(x)
    <3>1. CASE x = r
      BY <1>5, <2>1, <3>1
    <3>2. CASE x # r
      <4>1. x \in Walk \ it.todo
        BY <1>1, <2>3, <3>2
      <4>2. PICK i \in DOMAIN it.got : it.got[i] = Told(x)
        BY <2>1, <2>3, <4>1 DEF ToldSoFar
      <4>3. i \in DOMAIN more /\ more[i] = Told(x)
        BY <1>5, <4>2
      <4>4. QED
        BY <4>3
    <3>3. QED
      BY <3>1, <3>2
  <2>4. ASSUME ~Orphans, NEW i \in DOMAIN it.got PROVE it.got[i] # told
    <3>1. PICK x \in Walk \ it.todo : Wanted(x) /\ it.got[i] = Told(x)
      BY <2>1 DEF ToldSoFar
    <3>2. it.clustered \in BOOLEAN
      BY <1>2 DEF Planned
    <3>3. x.live /\ r.live
      BY <1>6, <2>1, <2>4, <3>1, <3>2, WantedAreLive
    <3>4. x # r
      BY <3>1
    <3>5. x.pk # r.pk
      BY <1>6, <2>1, <3>1, <3>2, <3>3, <3>4, LiveOnce
    <3>6. QED
      BY <2>1, <3>1, <3>5 DEF Told
  <2>5. ASSUME ~Orphans, NEW i \in DOMAIN more, NEW j \in DOMAIN more, more[i] = more[j] PROVE i = j
    <3>1. \A k, l \in DOMAIN it.got : it.got[k] = it.got[l] => k = l
      BY <2>1, <2>5 DEF ToldSoFar
    <3>2. QED
      BY <1>5, <2>4, <2>5, <3>1
  <2>6. QED
    BY <1>1, <1>4, <2>2, <2>3, <2>5 DEF ToldSoFar
<1>7. Walking'
  BY <1>1, <1>4, <1>5, <1>6 DEF Walking
<1>8. QED
  BY <1>3, <1>7 DEF QueryInv

\* Next: a record that its pointer does not name and the guard skips, one that
\* does not decode, one that the clauses refuse, one that is delivered.
LEMMA NextRecordKeeps == QueryInv /\ NextRecord => QueryInv'
<1> SUFFICES ASSUME QueryInv, NextRecord PROVE QueryInv'
  OBVIOUS
<1> DEFINE raw(r) == IF r.value.kind = "ptr" THEN PointerAsRow(r.value.b, it.plan) ELSE [ok |-> TRUE, row |-> r.value.row]
           dec(r) == DecodeRow(raw(r).row, it.plan)
           skip(r) == guard /\ it.byIndex /\ ~r.live
           told(r) == <<r.pk, ShapeRow(it.plan, dec(r))>>
<1>1. /\ it.at = "walk"
      /\ UNCHANGED <<schema, data, index, table, guard, becomes, writes, want>>
  BY DEF NextRecord
<1>2. PICK r \in it.todo :
        it' = IF skip(r) THEN [it EXCEPT !.todo = it.todo \ {r}]
              ELSE IF ~raw(r).ok THEN [it EXCEPT !.at = "done", !.err = "decode", !.todo = {}]
              ELSE IF ~Accepts(Getter(it.plan, dec(r))) THEN [it EXCEPT !.todo = it.todo \ {r}]
              ELSE [it EXCEPT !.todo = it.todo \ {r}, !.got = Append(it.got, told(r))]
  BY DEF NextRecord
<1>3. Walking /\ StoreInv
  BY <1>1 DEF QueryInv, Unasked, NoIter, Waiting, Over
<1>4. ASSUME ~Late
      PROVE  /\ raw(r).ok
             /\ Wanted(r) <=> ~skip(r) /\ Accepts(Getter(it.plan, dec(r)))
             /\ told(r) = Told(r)
  <2>1. r.value.kind = "row"
    BY <1>3, <1>4, RecordsAreRows DEF Walking, Planned
  <2>2. raw(r) = [ok |-> TRUE, row |-> r.value.row]
    BY <2>1
  <2>3. raw(r).ok /\ raw(r).row = r.value.row
    BY <2>2
  <2> HIDE DEF raw
  <2>4. dec(r) = DecodeRow(r.value.row, it.plan)
    BY <2>3
  <2> HIDE DEF dec
  <2>5. QED
    BY <2>3, <2>4 DEF Wanted, Told
<1> HIDE DEF raw, dec, skip, told
<1>5. CASE skip(r)
  BY <1>1, <1>2, <1>3, <1>4, <1>5, PassesBy
<1>6. CASE ~skip(r) /\ ~raw(r).ok
  <2>1. it' = [it EXCEPT !.at = "done", !.err = "decode", !.todo = {}]
    BY <1>2, <1>6
  <2>2. /\ it'.q = it.q /\ it'.byIndex = it.byIndex /\ it'.clustered = it.clustered
        /\ it'.known = it.known /\ it'.plan = it.plan /\ it'.at = "done" /\ it'.got = it.got
        /\ Iterator'
    BY <1>3, <2>1 DEF Walking, Iterator
  <2>3. Late
    BY <1>4, <1>6
  <2>4. QED
    BY <1>1, <1>3, <2>2, <2>3, EndsRight
<1>7. CASE ~skip(r) /\ raw(r).ok /\ ~Accepts(Getter(it.plan, dec(r)))
  <2>1. it' = [it EXCEPT !.todo = it.todo \ {r}]
    BY <1>2, <1>7
  <2>2. ~Late => ~Wanted(r)
    BY <1>4, <1>7
  <2>3. QED
    BY <1>1, <1>3, <2>1, <2>2, PassesBy
<1>8. CASE ~skip(r) /\ raw(r).ok /\ Accepts(Getter(it.plan, dec(r)))
  <2>1. it' = [it EXCEPT !.todo = it.todo \ {r}, !.got = Append(it.got, told(r))]
    BY <1>2, <1>8
  <2>2. ~Late => Wanted(r) /\ told(r) = Told(r)
    BY <1>4, <1>8
  <2>3. QED
    BY <1>1, <1>3, <2>1, <2>2, Delivers
<1>9. QED
  BY <1>5, <1>6, <1>7, <1>8

\* And when nothing happens.
LEMMA QueryStutters == QueryInv /\ UNCHANGED queryVars => QueryInv'
<1> SUFFICES ASSUME QueryInv, UNCHANGED queryVars PROVE QueryInv'
  OBVIOUS
<1> USE DEF queryVars
<1>1. StoreInv'
  BY StoreStays DEF QueryInv
<1>2. CASE Unasked
  BY <1>1, <1>2 DEF QueryInv, Unasked
<1>3. CASE Waiting
  <2>1. PICK s : Planned(s)
    BY <1>3 DEF Waiting
  <2>2. Planned(s)'
    BY <2>1, Frozen
  <2>3. QED
    BY <1>1, <1>3, <2>2 DEF QueryInv, Waiting, Iterator
<1>4. CASE Walking
  <2>1. PICK s : Planned(s)
    BY <1>4 DEF Walking
  <2>2. /\ Walk' = Walk /\ Answer(it.q, it.known)' = Answer(it.q, it.known) /\ Planned(s)'
        /\ Late' = Late /\ Orphans' = Orphans
        /\ \A x : (Wanted(x)' <=> Wanted(x)) /\ Told(x)' = Told(x)
    BY <2>1, Frozen
  <2>3. ToldSoFar => ToldSoFar'
    BY <2>2 DEF ToldSoFar
  <2>4. Walking'
    BY <1>4, <2>2, <2>3 DEF Walking, Iterator
  <2>5. QED
    BY <1>1, <2>4 DEF QueryInv
<1>5. CASE Over
  BY <1>1, <1>5 DEF QueryInv, Over, AnswersAreRight, NothingIsMissed, Late, Orphans
<1>6. QED
  BY <1>2, <1>3, <1>4, <1>5 DEF QueryInv

\* Every step keeps the invariant.
LEMMA QueryKeeps == QueryInv /\ [QueryNext]_queryVars => QueryInv'
<1> SUFFICES ASSUME QueryInv, [QueryNext]_queryVars PROVE QueryInv'
  OBVIOUS
<1>1. CASE RegisterSet
  BY <1>1, RegisterKeeps, WritersKeep DEF QueryInv, RegisterSet
<1>2. ASSUME NEW k \in Keys, NEW row \in Puts, NEW new \in BOOLEAN, Put(k, row, new) PROVE QueryInv'
  <2>1. StoreInv' /\ SchemaOK(schema') /\ Grew(schema, schema')
    BY <1>2, PutKeeps DEF QueryInv
  <2>2. ~Pinned /\ UNCHANGED <<it, want>>
    BY <1>2 DEF Put
  <2>3. QED
    BY <2>1, <2>2, WritersKeep
<1>3. ASSUME NEW k \in Keys, Delete(k) PROVE QueryInv'
  <2>1. StoreInv' /\ UNCHANGED schema
    BY <1>3, DeleteKeeps DEF QueryInv
  <2>2. ~Pinned /\ UNCHANGED <<it, want>>
    BY <1>3 DEF Delete
  <2>3. SchemaOK(schema') /\ Grew(schema, schema')
    BY <2>1 DEF QueryInv, StoreInv, SchemaInv, SchemaOK, Grew
  <2>4. QED
    BY <2>1, <2>2, <2>3, WritersKeep
<1>4. ASSUME NEW q \in Queries, Run(q) PROVE QueryInv'
  BY <1>4, RunKeeps
<1>5. CASE Layout
  BY <1>5, LayoutKeeps
<1>6. CASE Snapshot
  BY <1>6, SnapshotKeeps
<1>7. CASE NextRecord
  BY <1>7, NextRecordKeeps
<1>8. CASE Stop
  BY <1>8, StopKeeps
<1>9. CASE UNCHANGED queryVars
  BY <1>9, QueryStutters
<1>10. QED
  BY <1>1, <1>2, <1>3, <1>4, <1>5, <1>6, <1>7, <1>8, <1>9 DEF QueryNext

\* So it holds, of every behaviour.
LEMMA QueryInvHolds == QuerySpec => []QueryInv
<1>1. QueryInit => QueryInv
  BY QueryStarts
<1>2. QueryInv /\ [QueryNext]_queryVars => QueryInv'
  BY QueryKeeps
<1>3. QED
  BY <1>1, <1>2, PTL DEF QuerySpec

\* Whatever writers do until the snapshot, in whatever order columns appear, and
\* whatever the filter, range and projection: what Next delivers is in the table's
\* answer of that moment, once, with all the columns it was asked for (query.go,
\* codec.go decodeRow, keys.go indexRangeBounds).
THEOREM AnswersStayRight == QuerySpec => []AnswersAreRight
<1>1. QueryInv => AnswersAreRight
  <2>1. Unasked => AnswersAreRight
    BY DEF Unasked, NoIter, AnswersAreRight
  <2>2. Waiting => AnswersAreRight
    BY DEF Waiting, AnswersAreRight
  <2>3. QED
    BY <2>1, <2>2, RightSoFar DEF QueryInv, Over
<1>2. QED
  BY <1>1, QueryInvHolds, PTL

\* And an iterator that comes to its end has delivered all of that answer: no row
\* is lost to the mask of the decoder, to the bounds of the index range or to a
\* column that appeared after the plan.
THEOREM NothingIsEverMissed == QuerySpec => []NothingIsMissed
<1>1. QueryInv => NothingIsMissed
  BY DEF QueryInv, Unasked, NoIter, Waiting, Walking, Over, NothingIsMissed
<1>2. QED
  BY <1>1, QueryInvHolds, PTL

-----------------------------------------------------------------------------
(*                 Labels: the inductive invariant                         *)

Cols == {LineOf(id).col : id \in RowIds} \cup {LabelCol}
Idxs == Nat \cup {None}
StoredRows == [id : RowIds, idx : Idxs]
Filters == [label : LabelValues, idx : Nat]

\* Every variable, with the fields that TypeOK leaves open.
TypeInv ==
    /\ meta \in MetaType
    /\ mu \in [file : Files, appended : BOOLEAN] \cup {None}
    /\ names \subseteq Cols /\ changed \in BOOLEAN /\ overlapped \in BOOLEAN
    /\ store \in [meta : MetaType, bins : SUBSET Cols, rows : SUBSET StoredRows]
    /\ {pos, prog, saved} \subseteq [Files -> Nat]
    /\ \A f \in Files : saved[f] <= Len(Lines[f]) /\ prog[f] <= pos[f] /\ pos[f] <= Len(Lines[f])
    /\ cache \in [Files -> [LabelValues -> Idxs]]
    /\ chan \subseteq [id : RowIds, idx : Idxs, named : BOOLEAN]
    /\ saver \in [Savers -> [at : {"idle", "put", "settle", "progress", "ending", "done"},
                             copy : SUBSET Cols]]
    /\ plugin \in [bins : SUBSET Cols, meta : MetaType]
    /\ query \in [at : {"idle", "open", "group", "answer"}, filter : Filters \cup {None},
                  rows : SUBSET StoredRows, entries : Seq(LabelValues)]

\* No value has two indexes, and the values listed for a cluster are its own.
Sound(m) ==
    /\ IsInjective(m.entries)
    /\ \A c \in Clusters : \A i \in m.byCluster[c] :
          /\ i \in DOMAIN m.entries
          /\ \E id \in RowIds : ClusterOf[id[1]] = c /\ LineOf(id).label = m.entries[i]

\* What the one list says of an index, the other says too.
Extends(es, fs) == \A i \in DOMAIN es : i \in DOMAIN fs /\ fs[i] = es[i]

\* In a catalog the index means the label, and is listed for the file's cluster.
Means(m, f, idx, v) ==
    idx \in DOMAIN m.entries /\ m.entries[idx] = v /\ idx \in m.byCluster[ClusterOf[f]]

\* While a parser stores a label, memory is one upsert ahead of the store, and the holder has noted
\* what it takes to undo it.
AheadInv ==
    IF mu = None THEN meta = store.meta
    ELSE /\ pos[mu.file] < Len(Lines[mu.file])
         /\ cache[mu.file][NextLabel(mu.file)] = None
         /\ meta = WithLabel(store.meta, NextLabel(mu.file), ClusterOf[mu.file])
         /\ meta # store.meta
         /\ mu.appended = (IndexOf(store.meta, NextLabel(mu.file)) = None)

\* Every index that was given out means, in the stored catalog, the label it was given for.
IndexInv ==
    /\ \A r \in chan \cup store.rows :
          r.idx # None => Means(store.meta, r.id[1], r.idx, LineOf(r.id).label)
    /\ \A f \in Files, v \in LabelValues :
          cache[f][v] # None => Means(store.meta, f, cache[f][v], v)

\* The plugin's copies are old, not wrong.
ReaderInv ==
    /\ Extends(plugin.meta.entries, store.meta.entries)
    /\ Extends(query.entries, store.meta.entries)
    /\ query.filter # None =>
          /\ query.filter.idx \in DOMAIN store.meta.entries
          /\ store.meta.entries[query.filter.idx] = query.filter.label
    /\ \A r \in query.rows :
          /\ query.filter # None => r.idx = query.filter.idx
          /\ r.idx # None => Means(store.meta, r.id[1], r.idx, LineOf(r.id).label)

LabelInv == Sound(store.meta) /\ Sound(plugin.meta) /\ AheadInv /\ IndexInv /\ ReaderInv

-----------------------------------------------------------------------------
(*                   Facts about rows and catalogs                         *)

\* A file's lines are numbered, and each is a row of its file.
LEMMA LineFacts ==
    ASSUME NEW f \in Files
    PROVE  /\ Len(Lines[f]) \in Nat
           /\ ClusterOf[f] \in Clusters
           /\ \A n \in Nat : n < Len(Lines[f]) =>
                 <<f, n + 1>> \in RowIds /\ LineOf(<<f, n + 1>>).label = Lines[f][n + 1].label
<1>1. Lines[f] \in Seq(Range(Lines[f]))
  BY LabelsAssumption
<1>2. DOMAIN Lines[f] = 1..Len(Lines[f]) /\ Len(Lines[f]) \in Nat
  BY <1>1
<1>3. ASSUME NEW n \in Nat, n < Len(Lines[f]) PROVE <<f, n + 1>> \in RowIds
  <2>1. n + 1 \in DOMAIN Lines[f]
    BY <1>2, <1>3
  <2>2. QED
    BY <2>1 DEF RowIds
<1>4. QED
  BY <1>2, <1>3 DEF Clusters, LineOf

\* What a row's name says.
LEMMA RowFacts ==
    ASSUME NEW id \in RowIds
    PROVE  /\ id[1] \in Files /\ LineOf(id).label \in LabelValues
           /\ LineOf(id).col \in Cols /\ ClusterOf[id[1]] \in Clusters
<1>1. PICK f \in Files : id \in {<<f, i>> : i \in DOMAIN Lines[f]}
  BY DEF RowIds
<1>2. id[1] = f
  BY <1>1
<1>3. QED
  BY <1>2 DEF LabelValues, Cols, Clusters

\* The label of a parser's next row.
LEMMA NextFacts ==
    ASSUME TypeInv, NEW f \in Files, pos[f] < Len(Lines[f])
    PROVE  /\ NextLabel(f) \in LabelValues
           /\ <<f, pos[f] + 1>> \in RowIds
           /\ LineOf(<<f, pos[f] + 1>>).label = NextLabel(f)
<1>1. pos[f] \in Nat
  BY DEF TypeInv
<1>2. QED
  BY <1>1, LineFacts, RowFacts DEF NextLabel

\* IndexOf finds a label exactly if it is there.
LEMMA IndexFound ==
    ASSUME NEW m \in MetaType, NEW v
    PROVE  /\ IndexOf(m, v) = None => \A i \in DOMAIN m.entries : m.entries[i] # v
           /\ IndexOf(m, v) # None =>
                 IndexOf(m, v) \in DOMAIN m.entries /\ m.entries[IndexOf(m, v)] = v
           /\ IndexOf(m, v) \in Idxs
<1>1. m.entries \in Seq(LabelValues)
  BY DEF MetaType
<1>2. DOMAIN m.entries \subseteq Nat
  BY <1>1
<1>3. CASE \E i \in DOMAIN m.entries : m.entries[i] = v
  <2>1. IndexOf(m, v) = CHOOSE i \in DOMAIN m.entries : m.entries[i] = v
    BY <1>3 DEF IndexOf
  <2>2. IndexOf(m, v) \in DOMAIN m.entries /\ m.entries[IndexOf(m, v)] = v
    BY <1>3, <2>1
  <2>3. QED
    BY <2>2, <1>2, NoneAssumption DEF Idxs
<1>4. CASE ~\E i \in DOMAIN m.entries : m.entries[i] = v
  BY <1>4 DEF IndexOf, Idxs
<1>5. QED
  BY <1>3, <1>4

\* The index depends on the entries alone.
LEMMA SameIndex ==
    ASSUME NEW m \in MetaType, NEW n \in MetaType, m.entries = n.entries, IsInjective(n.entries),
           NEW v, \E i \in DOMAIN n.entries : n.entries[i] = v
    PROVE  IndexOf(m, v) = IndexOf(n, v)
<1>1. IndexOf(m, v) # None /\ IndexOf(n, v) # None
  BY IndexFound
<1>2. /\ IndexOf(m, v) \in DOMAIN n.entries /\ n.entries[IndexOf(m, v)] = v
      /\ IndexOf(n, v) \in DOMAIN n.entries /\ n.entries[IndexOf(n, v)] = v
  BY <1>1, IndexFound
<1>3. QED
  BY <1>2 DEF IsInjective

\* upsertMetaEntry keeps what the catalog said and adds the label, listed for the cluster.
LEMMA Upsert ==
    ASSUME NEW m \in MetaType, Sound(m), NEW f \in Files, NEW v \in LabelValues,
           \E id \in RowIds : id[1] = f /\ LineOf(id).label = v
    PROVE  LET n == WithLabel(m, v, ClusterOf[f]) IN
           /\ n \in MetaType /\ Sound(n) /\ Extends(m.entries, n.entries)
           /\ \A c \in Clusters : m.byCluster[c] \subseteq n.byCluster[c]
           /\ Means(n, f, IndexOf(n, v), v)
<1> DEFINE n == WithLabel(m, v, ClusterOf[f])
           es == IF IndexOf(m, v) = None THEN Append(m.entries, v) ELSE m.entries
           i == IndexOf([m EXCEPT !.entries = es], v)
<1>1. /\ m.entries \in Seq(LabelValues) /\ m.byCluster \in [Clusters -> SUBSET Nat]
      /\ ClusterOf[f] \in Clusters
  BY LineFacts DEF MetaType
<1>2. /\ es \in Seq(LabelValues) /\ Extends(m.entries, es) /\ IsInjective(es)
      /\ \E j \in DOMAIN es : es[j] = v
  <2>1. CASE IndexOf(m, v) = None
    <3>1. /\ es = Append(m.entries, v) /\ es \in Seq(LabelValues) /\ Len(es) = Len(m.entries) + 1
          /\ es[Len(es)] = v /\ \A j \in DOMAIN m.entries : j \in DOMAIN es /\ es[j] = m.entries[j]
          /\ DOMAIN es = 1..Len(es) /\ DOMAIN m.entries = 1..Len(m.entries) /\ Len(m.entries) \in Nat
      BY <1>1, <2>1
    <3>2. \A j \in DOMAIN m.entries : m.entries[j] # v
      BY <2>1, IndexFound
    <3>3. ASSUME NEW j \in DOMAIN es, NEW k \in DOMAIN es, es[j] = es[k] PROVE j = k
      <4>1. /\ j \in DOMAIN m.entries \/ j = Len(es)
            /\ k \in DOMAIN m.entries \/ k = Len(es)
        BY <3>1
      <4>2. QED
        BY <3>1, <3>2, <3>3, <4>1 DEF Sound, IsInjective
    <3>4. Len(es) \in DOMAIN es
      BY <3>1
    <3>5. QED
      BY <3>1, <3>3, <3>4 DEF Extends, IsInjective
  <2>2. CASE IndexOf(m, v) # None
    BY <1>1, <2>2, IndexFound DEF Extends, Sound
  <2>3. QED
    BY <2>1, <2>2
<1>3. [m EXCEPT !.entries = es] \in MetaType /\ [m EXCEPT !.entries = es].entries = es
  BY <1>1, <1>2 DEF MetaType
<1> HIDE DEF es
<1>4. i \in DOMAIN es /\ es[i] = v /\ i \in Nat
  <2>1. i # None
    BY <1>2, <1>3, IndexFound
  <2>2. i \in Idxs /\ i \in DOMAIN es /\ es[i] = v
    BY <1>3, <2>1, IndexFound
  <2>3. QED
    BY <2>1, <2>2 DEF Idxs
<1> HIDE DEF i
<1>5. n = [entries |-> es, byCluster |-> [m.byCluster EXCEPT ![ClusterOf[f]] = @ \cup {i}]]
  BY DEF WithLabel, es, i
<1> HIDE DEF n
<1>6. /\ n \in MetaType /\ n.entries = es
      /\ \A c \in Clusters : n.byCluster[c] = m.byCluster[c] \cup (IF c = ClusterOf[f] THEN {i} ELSE {})
  BY <1>1, <1>2, <1>4, <1>5 DEF MetaType
<1>7. IndexOf(n, v) = i
  <2>1. IndexOf(n, v) # None
    BY <1>4, <1>6, IndexFound
  <2>2. IndexOf(n, v) \in DOMAIN es /\ es[IndexOf(n, v)] = v
    BY <1>6, <2>1, IndexFound
  <2>3. QED
    BY <1>2, <1>4, <2>2 DEF IsInjective
<1>8. Sound(n)
  <2>1. ASSUME NEW c \in Clusters, NEW j \in n.byCluster[c]
        PROVE  j \in DOMAIN es /\ \E id \in RowIds : ClusterOf[id[1]] = c /\ LineOf(id).label = es[j]
    <3>1. CASE j \in m.byCluster[c]
      BY <1>2, <3>1 DEF Sound, Extends
    <3>2. CASE c = ClusterOf[f] /\ j = i
      BY <1>4, <3>2
    <3>3. QED
      BY <1>6, <2>1, <3>1, <3>2
  <2>2. QED
    BY <1>2, <1>6, <2>1 DEF Sound
<1>9. QED
  BY <1>1, <1>2, <1>4, <1>6, <1>7, <1>8 DEF n, Means

\* rollback takes back exactly what an upsert has added.
LEMMA Undo ==
    ASSUME NEW m \in MetaType, Sound(m), NEW f \in Files, NEW v \in LabelValues, NextLabel(f) = v,
           WithLabel(m, v, ClusterOf[f]) # m, mu.appended = (IndexOf(m, v) = None),
           \E id \in RowIds : id[1] = f /\ LineOf(id).label = v
    PROVE  Rollback(WithLabel(m, v, ClusterOf[f]), f) = m
<1> DEFINE n == WithLabel(m, v, ClusterOf[f])
           es == IF IndexOf(m, v) = None THEN Append(m.entries, v) ELSE m.entries
           i == IndexOf([m EXCEPT !.entries = es], v)
           j == IndexOf(n, v)
<1>1. /\ m = [entries |-> m.entries, byCluster |-> m.byCluster]
      /\ m.entries \in Seq(LabelValues) /\ m.byCluster \in [Clusters -> SUBSET Nat]
      /\ ClusterOf[f] \in Clusters
  BY LineFacts DEF MetaType
<1>2. n = [entries |-> es, byCluster |-> [m.byCluster EXCEPT ![ClusterOf[f]] = @ \cup {i}]]
  BY DEF WithLabel
<1>3. n \in MetaType /\ Sound(n) /\ Means(n, f, j, v)
  BY Upsert
<1>10. es \in Seq(LabelValues)
  BY <1>1
<1> HIDE DEF es, n
<1>4. n.entries = es
  BY <1>2
<1>11. [m EXCEPT !.entries = es] \in MetaType /\ [m EXCEPT !.entries = es].entries = es
  BY <1>1, <1>10 DEF MetaType
<1>5. i = j
  <2>1. j \in DOMAIN es /\ es[j] = v
    BY <1>3, <1>4 DEF Means, n
  <2>2. IsInjective(n.entries) /\ n \in MetaType
    BY <1>3 DEF n, Sound
  <2>3. QED
    BY <1>4, <1>11, <2>1, <2>2, SameIndex
<1> HIDE DEF i
<1>6. j \notin m.byCluster[ClusterOf[f]]
  <2>1. CASE IndexOf(m, v) = None
    <3>1. j \notin DOMAIN m.entries
      BY <1>3, <1>4, <2>1, IndexFound, <1>1 DEF Means, es
    <3>2. QED
      BY <1>1, <3>1 DEF Sound
  <2>2. CASE IndexOf(m, v) # None
    <3>1. SUFFICES ASSUME j \in m.byCluster[ClusterOf[f]] PROVE n = m
      BY DEF n
    <3>2. es = m.entries /\ [m.byCluster EXCEPT ![ClusterOf[f]] = @ \cup {i}] = m.byCluster
      BY <1>1, <1>5, <2>2, <3>1 DEF es
    <3>3. QED
      BY <1>1, <1>2, <3>2
  <2>3. QED
    BY <2>1, <2>2
<1>7. (IF mu.appended THEN Front(es) ELSE es) = m.entries
  <2>1. CASE IndexOf(m, v) = None
    <3>1. es = Append(m.entries, v) /\ Len(es) = Len(m.entries) + 1 /\ Len(m.entries) \in Nat
      BY <1>1, <2>1 DEF es
    <3>2. SubSeq(es, 1, Len(m.entries)) = m.entries
      BY <1>1, <3>1
    <3>3. Front(es) = SubSeq(es, 1, Len(m.entries))
      BY <3>1 DEF Front
    <3>4. QED
      BY <2>1, <3>2, <3>3
  <2>2. CASE IndexOf(m, v) # None
    BY <2>2 DEF es
  <2>3. QED
    BY <2>1, <2>2
<1>8. [n.byCluster EXCEPT ![ClusterOf[f]] = @ \ {j}] = m.byCluster
  <2>1. n.byCluster = [m.byCluster EXCEPT ![ClusterOf[f]] = @ \cup {i}]
    BY <1>2
  <2>2. n.byCluster \in [Clusters -> SUBSET Nat] /\ n.byCluster[ClusterOf[f]] = m.byCluster[ClusterOf[f]] \cup {j}
    BY <1>1, <1>3, <1>5, <2>1 DEF MetaType
  <2>3. n.byCluster[ClusterOf[f]] \ {j} = m.byCluster[ClusterOf[f]]
    BY <1>6, <2>2
  <2>4. \A c \in Clusters : c # ClusterOf[f] => n.byCluster[c] = m.byCluster[c]
    BY <1>1, <2>1
  <2>5. QED
    BY <1>1, <2>2, <2>3, <2>4
<1>9. QED
  BY <1>1, <1>4, <1>7, <1>8 DEF Rollback, n

-----------------------------------------------------------------------------
(*                                 Types                                   *)

LEMMA TypeInit == Init => TypeInv
<1> SUFFICES ASSUME Init PROVE TypeInv
  OBVIOUS
<1>1. NoMeta \in MetaType
  BY DEF NoMeta, MetaType
<1>2. /\ NoPlugin \in [bins : SUBSET Cols, meta : MetaType]
      /\ store \in [meta : MetaType, bins : SUBSET Cols, rows : SUBSET StoredRows]
  BY <1>1 DEF Init, NoPlugin
<1>3. /\ pos \in [Files -> Nat] /\ prog = pos /\ saved = pos
      /\ \A f \in Files : pos[f] = 0 /\ Len(Lines[f]) \in Nat
  BY LineFacts DEF Init
<1>4. \A f \in Files : saved[f] <= Len(Lines[f]) /\ prog[f] <= pos[f] /\ pos[f] <= Len(Lines[f])
  BY <1>3
<1>5. query \in [at : {"idle", "open", "group", "answer"}, filter : Filters \cup {None},
                 rows : SUBSET StoredRows, entries : Seq(LabelValues)]
  BY DEF Init, NoQuery
<1>6. saver \in [Savers -> [at : {"idle", "put", "settle", "progress", "ending", "done"},
                            copy : SUBSET Cols]]
  BY DEF Init, NoSaves
<1>7. cache \in [Files -> [LabelValues -> Idxs]]
  BY DEF Init, NoCache, Idxs
<1>8. QED
  BY <1>1, <1>2, <1>3, <1>4, <1>5, <1>6, <1>7 DEF Init, TypeInv

\* A parser sends its next row, with an index or without.
LEMMA SendTypes ==
    ASSUME TypeInv, NEW f \in Files, pos[f] < Len(Lines[f]), NEW idx \in Idxs, Send(f, idx),
           saved' = saved, prog' = prog
    PROVE  /\ chan' \subseteq [id : RowIds, idx : Idxs, named : BOOLEAN]
           /\ {pos, prog, saved}' \subseteq [Files -> Nat]
           /\ \A g \in Files : saved'[g] <= Len(Lines[g]) /\ prog'[g] <= pos'[g] /\ pos'[g] <= Len(Lines[g])
<1>1. /\ {pos, prog, saved} \subseteq [Files -> Nat]
      /\ \A g \in Files : /\ saved[g] <= Len(Lines[g]) /\ prog[g] <= pos[g] /\ pos[g] <= Len(Lines[g])
                          /\ Len(Lines[g]) \in Nat
  BY LineFacts DEF TypeInv
<1>2. chan' = chan \cup {[id |-> <<f, pos[f] + 1>>, idx |-> idx, named |-> FALSE]}
  BY DEF Send
<1>3. <<f, pos[f] + 1>> \in RowIds
  BY NextFacts
<1>4. pos' = [pos EXCEPT ![f] = pos[f] + 1]
  BY DEF Send
<1>5. chan' \subseteq [id : RowIds, idx : Idxs, named : BOOLEAN]
  <2>1. [id |-> <<f, pos[f] + 1>>, idx |-> idx, named |-> FALSE] \in [id : RowIds, idx : Idxs, named : BOOLEAN]
    BY <1>3
  <2>2. chan \subseteq [id : RowIds, idx : Idxs, named : BOOLEAN]
    BY DEF TypeInv
  <2>3. QED
    BY <1>2, <2>1, <2>2
<1>6. pos' \in [Files -> Nat] /\ \A g \in Files : pos[g] <= pos'[g] /\ pos'[g] <= Len(Lines[g])
  BY <1>1, <1>4
<1>7. \A g \in Files : prog[g] \in Nat /\ pos[g] \in Nat /\ pos'[g] \in Nat
  BY <1>1, <1>6
<1>8. \A g \in Files : prog'[g] <= pos'[g]
  BY <1>1, <1>6, <1>7
<1>9. QED
  BY <1>1, <1>5, <1>6, <1>8

\* The columns of a row on its way.
LEMMA ColumnsTypes ==
    ASSUME TypeInv, NEW r \in chan
    PROVE  Columns(r) \subseteq Cols /\ [r EXCEPT !.named = TRUE] \in [id : RowIds, idx : Idxs, named : BOOLEAN]
<1>1. r \in [id : RowIds, idx : Idxs, named : BOOLEAN]
  BY DEF TypeInv
<1>2. QED
  BY <1>1, RowFacts DEF Columns, Cols

\* A row of the file with its next label, which Upsert asks for.
LEMMA NextRow ==
    ASSUME TypeInv, NEW f \in Files, pos[f] < Len(Lines[f])
    PROVE  \E id \in RowIds : id[1] = f /\ LineOf(id).label = NextLabel(f)
<1>1. <<f, pos[f] + 1>> \in RowIds /\ <<f, pos[f] + 1>>[1] = f
  BY NextFacts
<1>2. QED
  BY <1>1, NextFacts

\* A parser that takes the lock finds memory and store agree.
LEMMA LockedFacts ==
    ASSUME TypeInv, LabelInv, NEW f \in Files, ResolveNew(f)
    PROVE  /\ pos[f] < Len(Lines[f]) /\ NextLabel(f) \in LabelValues
           /\ meta = store.meta /\ meta' = WithLabel(store.meta, NextLabel(f), ClusterOf[f])
           /\ meta' \in MetaType
<1>1. /\ pos[f] < Len(Lines[f]) /\ meta = store.meta
      /\ meta' = WithLabel(store.meta, NextLabel(f), ClusterOf[f])
  BY DEF ResolveNew, More, LabelInv, AheadInv
<1>2. store.meta \in MetaType /\ Sound(store.meta)
  BY DEF TypeInv, LabelInv
<1>3. NextLabel(f) \in LabelValues
  BY <1>1, NextFacts
<1>4. WithLabel(store.meta, NextLabel(f), ClusterOf[f]) \in MetaType
  BY <1>1, <1>2, <1>3, Upsert, NextRow
<1>5. QED
  BY <1>1, <1>3, <1>4

\* What a parser that stores a label has before it.
LEMMA HolderFacts ==
    ASSUME TypeInv, LabelInv, NEW f \in Files, Holds(f)
    PROVE  /\ pos[f] < Len(Lines[f]) /\ NextLabel(f) \in LabelValues
           /\ meta \in MetaType /\ Sound(meta) /\ Extends(store.meta.entries, meta.entries)
           /\ \A c \in Clusters : store.meta.byCluster[c] \subseteq meta.byCluster[c]
           /\ Means(meta, f, IndexOf(meta, NextLabel(f)), NextLabel(f))
           /\ IndexOf(meta, NextLabel(f)) \in Nat
           /\ Rollback(meta, f) = store.meta
<1>1. /\ pos[f] < Len(Lines[f]) /\ meta = WithLabel(store.meta, NextLabel(f), ClusterOf[f])
      /\ meta # store.meta /\ mu.appended = (IndexOf(store.meta, NextLabel(f)) = None)
  BY DEF Holds, LabelInv, AheadInv
<1>2. store.meta \in MetaType /\ meta \in MetaType /\ Sound(store.meta)
  BY DEF TypeInv, LabelInv
<1>3. NextLabel(f) \in LabelValues
  BY <1>1, NextFacts
<1>4. \E id \in RowIds : id[1] = f /\ LineOf(id).label = NextLabel(f)
  BY <1>1, NextRow
<1>5. /\ Sound(meta) /\ Extends(store.meta.entries, meta.entries)
      /\ \A c \in Clusters : store.meta.byCluster[c] \subseteq meta.byCluster[c]
      /\ Means(meta, f, IndexOf(meta, NextLabel(f)), NextLabel(f))
  BY <1>1, <1>2, <1>3, <1>4, Upsert
<1>6. Rollback(meta, f) = store.meta
  BY <1>1, <1>2, <1>3, <1>4, Undo
<1>7. DOMAIN meta.entries \subseteq Nat
  <2>1. meta.entries \in Seq(LabelValues)
    BY <1>2 DEF MetaType
  <2>2. QED
    BY <2>1
<1>8. QED
  BY <1>1, <1>2, <1>3, <1>5, <1>6, <1>7 DEF Means

\* The parsers' steps.
LEMMA TypeParse == ASSUME TypeInv, LabelInv, NEW f \in Files, Parse(f) PROVE TypeInv'
<1> USE DEF labels, bins, parsers, progress, savers, reader, bounds
<1>0. /\ store \in [meta : MetaType, bins : SUBSET Cols, rows : SUBSET StoredRows]
      /\ meta \in MetaType /\ cache \in [Files -> [LabelValues -> Idxs]]
      /\ None \in Idxs /\ Nat \subseteq Idxs
  BY DEF TypeInv, Idxs
<1>1. CASE ResolveCached(f)
  <2>1. cache[f][NextLabel(f)] \in Idxs
    BY <1>0, <1>1, NextFacts DEF ResolveCached, More
  <2>2. QED
    BY <1>1, <2>1, SendTypes DEF ResolveCached, More, TypeInv
<1>2. CASE ResolveKnown(f)
  <2>1. IndexOf(meta, NextLabel(f)) \in Idxs /\ NextLabel(f) \in LabelValues
    BY <1>0, <1>2, NextFacts, IndexFound DEF ResolveKnown, More
  <2>2. cache' \in [Files -> [LabelValues -> Idxs]]
    BY <1>0, <1>2, <2>1 DEF ResolveKnown
  <2>3. QED
    BY <1>2, <2>1, <2>2, SendTypes DEF ResolveKnown, More, TypeInv
<1>3. CASE ResolveNew(f)
  <2>1. meta' \in MetaType
    BY <1>3, LockedFacts
  <2>2. mu' \in [file : Files, appended : BOOLEAN] \cup {None}
    BY <1>3 DEF ResolveNew
  <2>3. names' \subseteq Cols /\ changed' \in BOOLEAN
    BY <1>3 DEF ResolveNew, AddNames, Cols, TypeInv
  <2>4. QED
    BY <1>3, <2>1, <2>2, <2>3 DEF ResolveNew, TypeInv
<1>4. CASE StoreLabel(f)
  <2>1. Holds(f)
    BY <1>4 DEF StoreLabel
  <2>2. IndexOf(meta, NextLabel(f)) \in Idxs /\ NextLabel(f) \in LabelValues /\ pos[f] < Len(Lines[f])
    BY <1>0, <2>1, HolderFacts
  <2>3. cache' \in [Files -> [LabelValues -> Idxs]]
    BY <1>0, <1>4, <2>2 DEF StoreLabel
  <2>4. store' \in [meta : MetaType, bins : SUBSET Cols, rows : SUBSET StoredRows]
    BY <1>0, <1>4 DEF StoreLabel
  <2>5. QED
    BY <1>4, <2>2, <2>3, <2>4, SendTypes DEF StoreLabel, TypeInv
<1>5. CASE StoreLabelFails(f)
  <2>1. Holds(f)
    BY <1>5 DEF StoreLabelFails
  <2>2. pos[f] < Len(Lines[f]) /\ meta' \in MetaType
    BY <1>0, <1>5, <2>1, HolderFacts DEF StoreLabelFails
  <2>3. QED
    BY <1>0, <1>5, <2>2, SendTypes DEF StoreLabelFails, TypeInv
<1>6. CASE NoteProgress(f)
  BY <1>6, LineFacts DEF NoteProgress, TypeInv
<1>7. QED
  BY <1>1, <1>2, <1>3, <1>4, <1>5, <1>6 DEF Parse

\* The workers' steps.
LEMMA TypeWork == ASSUME TypeInv, Work PROVE TypeInv'
<1> USE DEF labels, bins, parsers, progress, savers, reader, bounds
<1>1. PICK r \in chan : NameColumns(r) \/ PutRow(r)
  BY DEF Work
<1>2. CASE NameColumns(r)
  <2>1. /\ [r EXCEPT !.named = TRUE] \in [id : RowIds, idx : Idxs, named : BOOLEAN]
        /\ Columns(r) \subseteq Cols
    BY ColumnsTypes
  <2>2. names' \subseteq Cols /\ changed' \in BOOLEAN
    BY <1>2, <2>1 DEF NameColumns, AddNames, TypeInv
  <2>3. chan' \subseteq [id : RowIds, idx : Idxs, named : BOOLEAN]
    BY <1>2, <2>1 DEF NameColumns, TypeInv
  <2>4. QED
    BY <1>2, <2>2, <2>3 DEF NameColumns, TypeInv
<1>3. CASE PutRow(r)
  <2>1. r \in [id : RowIds, idx : Idxs, named : BOOLEAN]
    BY DEF TypeInv
  <2>2. [id |-> r.id, idx |-> r.idx] \in StoredRows
    BY <2>1 DEF StoredRows
  <2>3. /\ store \in [meta : MetaType, bins : SUBSET Cols, rows : SUBSET StoredRows]
        /\ store' = [store EXCEPT !.rows = {q \in @ : q.id # r.id} \cup {[id |-> r.id, idx |-> r.idx]}]
    BY <1>3 DEF PutRow, TypeInv
  <2>4. store' \in [meta : MetaType, bins : SUBSET Cols, rows : SUBSET StoredRows]
    BY <2>2, <2>3
  <2>5. chan' \subseteq chan
    BY <1>3 DEF PutRow
  <2>6. QED
    BY <1>3, <2>4, <2>5 DEF PutRow, TypeInv
<1>4. QED
  BY <1>1, <1>2, <1>3

\* The savers' steps.
LEMMA TypeSave == ASSUME TypeInv, (\E s \in Savers : Save(s)) \/ EndInterval PROVE TypeInv'
<1> USE DEF labels, bins, parsers, progress, savers, reader, bounds
<1> DEFINE SaverType == [at : {"idle", "put", "settle", "progress", "ending", "done"},
                         copy : SUBSET Cols]
<1>0. /\ saver \in [Savers -> SaverType] /\ names \subseteq Cols
      /\ store \in [meta : MetaType, bins : SUBSET Cols, rows : SUBSET StoredRows]
  BY DEF TypeInv
<1>1. ASSUME NEW s \in Savers, NEW at \in {"idle", "put", "settle", "progress", "ending", "done"},
             Moves(s, at)
      PROVE  saver' \in [Savers -> SaverType]
  BY <1>0, <1>1 DEF Moves
<1>2. ASSUME NEW s \in Savers
      PROVE  After(s) \in {"idle", "put", "settle", "progress", "ending", "done"}
  BY DEF After
<1>3. ASSUME NEW s \in Savers, CopyNames(s) PROVE TypeInv'
  <2>1. saver' \in [Savers -> SaverType]
    <3>1. CASE changed
      <4>1. [at |-> "put", copy |-> names] \in SaverType
        BY <1>0
      <4>2. QED
        BY <1>0, <1>3, <3>1, <4>1 DEF CopyNames
    <3>2. CASE ~changed
      BY <1>1, <1>2, <1>3, <3>2 DEF CopyNames
    <3>3. QED
      BY <3>1, <3>2
  <2>2. overlapped' \in BOOLEAN
    BY <1>3 DEF CopyNames
  <2>3. QED
    BY <1>3, <2>1, <2>2 DEF CopyNames, TypeInv
<1>4. ASSUME NEW s \in Savers, PutNames(s) PROVE TypeInv'
  <2>1. saver[s].copy \subseteq Cols
    BY <1>0
  <2>2. store' \in [meta : MetaType, bins : SUBSET Cols, rows : SUBSET StoredRows]
    BY <1>0, <1>4, <2>1 DEF PutNames
  <2>3. saver' \in [Savers -> SaverType]
    BY <1>1, <1>4 DEF PutNames
  <2>4. QED
    BY <1>4, <2>2, <2>3 DEF PutNames, TypeInv
<1>5. ASSUME NEW s \in Savers, PutNamesFails(s) PROVE TypeInv'
  <2>1. saver' \in [Savers -> SaverType]
    BY <1>1, <1>2, <1>5 DEF PutNamesFails
  <2>2. QED
    BY <1>5, <2>1 DEF PutNamesFails, TypeInv
<1>6. ASSUME NEW s \in Savers, Settle(s) PROVE TypeInv'
  <2>1. saver' \in [Savers -> SaverType]
    BY <1>1, <1>2, <1>6 DEF Settle
  <2>2. changed' \in BOOLEAN
    BY <1>6 DEF Settle, TypeInv
  <2>3. QED
    BY <1>6, <2>1, <2>2 DEF Settle, TypeInv
<1>7. ASSUME NEW s \in Savers, SaveProgress(s) PROVE TypeInv'
  <2>1. saver' \in [Savers -> SaverType]
    BY <1>1, <1>7 DEF SaveProgress
  <2>2. saved' = prog /\ pos' = pos /\ prog' = prog /\ {pos, prog, saved} \subseteq [Files -> Nat]
    BY <1>7 DEF SaveProgress, TypeInv
  <2>3. \A f \in Files : saved'[f] <= Len(Lines[f]) /\ prog'[f] <= pos'[f] /\ pos'[f] <= Len(Lines[f])
    <3>1. ASSUME NEW f \in Files PROVE prog[f] <= Len(Lines[f])
      BY <2>2, LineFacts DEF TypeInv
    <3>2. QED
      BY <2>2, <3>1 DEF TypeInv
  <2>4. QED
    BY <1>7, <2>1, <2>2, <2>3 DEF SaveProgress, TypeInv
<1>8. ASSUME EndInterval PROVE TypeInv'
  <2>1. saver' \in [Savers -> SaverType]
    BY <1>1, <1>8 DEF EndInterval, Savers
  <2>2. QED
    BY <1>8, <2>1 DEF EndInterval, TypeInv
<1>9. QED
  BY <1>3, <1>4, <1>5, <1>6, <1>7, <1>8 DEF Save

\* The plugin's steps.
LEMMA TypeRead == ASSUME TypeInv, Read PROVE TypeInv'
<1> USE DEF labels, bins, parsers, progress, savers, reader, bounds
<1> DEFINE QueryType == [at : {"idle", "open", "group", "answer"}, filter : Filters \cup {None},
                         rows : SUBSET StoredRows, entries : Seq(LabelValues)]
<1>0. /\ store \in [meta : MetaType, bins : SUBSET Cols, rows : SUBSET StoredRows]
      /\ plugin \in [bins : SUBSET Cols, meta : MetaType] /\ query \in QueryType
  BY DEF TypeInv
<1>1. NoQuery \in QueryType
  BY DEF NoQuery
<1>2. CASE RefreshBins
  <2>1. plugin' \in [bins : SUBSET Cols, meta : MetaType]
    BY <1>0, <1>2 DEF RefreshBins
  <2>2. QED
    BY <1>2, <2>1 DEF RefreshBins, TypeInv
<1>3. CASE RefreshMeta
  <2>1. plugin' \in [bins : SUBSET Cols, meta : MetaType]
    BY <1>0, <1>3 DEF RefreshMeta
  <2>2. QED
    BY <1>3, <2>1 DEF RefreshMeta, TypeInv
<1>4. ASSUME NEW v \in LabelValues, ChooseFilter(v) PROVE TypeInv'
  <2>1. IndexOf(plugin.meta, v) \in Idxs
    BY <1>0, IndexFound
  <2>2. IndexOf(plugin.meta, v) # None => [label |-> v, idx |-> IndexOf(plugin.meta, v)] \in Filters
    BY <2>1 DEF Idxs, Filters
  <2>3. query' \in QueryType
    BY <1>1, <1>4, <2>2 DEF ChooseFilter
  <2>4. QED
    BY <1>4, <2>3 DEF ChooseFilter, TypeInv
<1>5. CASE OpenQuery
  <2>1. {r \in store.rows : query.filter = None \/ r.idx = query.filter.idx} \subseteq StoredRows
    BY <1>0
  <2>2. query' \in QueryType
    BY <1>0, <1>5, <2>1 DEF OpenQuery
  <2>3. QED
    BY <1>5, <2>2 DEF OpenQuery, TypeInv
<1>6. CASE CopyEntries
  <2>1. plugin.meta.entries \in Seq(LabelValues)
    BY <1>0 DEF MetaType
  <2>2. query' \in QueryType
    BY <1>0, <1>6, <2>1 DEF CopyEntries
  <2>3. QED
    BY <1>6, <2>2 DEF CopyEntries, TypeInv
<1>7. CASE EndQuery
  BY <1>1, <1>7 DEF EndQuery, TypeInv
<1>8. QED
  BY <1>2, <1>3, <1>4, <1>5, <1>6, <1>7 DEF Read

\* The process starts again.
LEMMA TypeRestart == ASSUME TypeInv, Restart PROVE TypeInv'
<1>0. /\ store \in [meta : MetaType, bins : SUBSET Cols, rows : SUBSET StoredRows]
      /\ saved \in [Files -> Nat] /\ \A f \in Files : saved[f] <= Len(Lines[f])
  BY DEF TypeInv
<1>1. NoPlugin \in [bins : SUBSET Cols, meta : MetaType]
  BY DEF NoPlugin, NoMeta, MetaType
<1>2. NoQuery \in [at : {"idle", "open", "group", "answer"}, filter : Filters \cup {None},
                   rows : SUBSET StoredRows, entries : Seq(LabelValues)]
  BY DEF NoQuery
<1>3. NoCache \in [Files -> [LabelValues -> Idxs]]
  BY DEF NoCache, Idxs
<1>4. NoSaves \in [Savers -> [at : {"idle", "put", "settle", "progress", "ending", "done"},
                              copy : SUBSET Cols]]
  BY DEF NoSaves
<1>5. \A f \in Files : saved[f] <= saved[f]
  BY <1>0
<1>6. /\ meta' \in MetaType /\ names' \subseteq Cols /\ store' = store
      /\ {pos, prog, saved}' \subseteq [Files -> Nat]
  BY <1>0 DEF Restart
<1>7. QED
  BY <1>0, <1>1, <1>2, <1>3, <1>4, <1>5, <1>6 DEF Restart, TypeInv

LEMMA TypeNext == TypeInv /\ LabelInv /\ [Next]_vars => TypeInv'
<1> SUFFICES ASSUME TypeInv, LabelInv, [Next]_vars PROVE TypeInv'
  OBVIOUS
<1>1. CASE UNCHANGED vars
  BY <1>1 DEF vars, labels, bins, parsers, progress, savers, reader, bounds, TypeInv
<1>2. QED
  BY <1>1, TypeParse, TypeWork, TypeSave, TypeRead, TypeRestart DEF Next

-----------------------------------------------------------------------------
(*                       Indexes keep their meaning                        *)

\* The catalog n says all that m says.
Grows(m, n) ==
    /\ Extends(m.entries, n.entries)
    /\ \A c \in Clusters : m.byCluster[c] \subseteq n.byCluster[c]

LEMMA MeansKept ==
    ASSUME NEW m, NEW n, Grows(m, n), NEW f \in Files, NEW i, NEW v, Means(m, f, i, v)
    PROVE  Means(n, f, i, v)
  BY LineFacts DEF Grows, Extends, Means

\* What was sent keeps its meaning in a catalog that has grown, and so does what is sent now.
LEMMA Sent ==
    ASSUME TypeInv, IndexInv, NEW f \in Files, pos[f] < Len(Lines[f]), NEW idx, Send(f, idx),
           NEW n, Grows(store.meta, n), idx # None => Means(n, f, idx, NextLabel(f))
    PROVE  \A r \in chan' \cup store.rows : r.idx # None => Means(n, r.id[1], r.idx, LineOf(r.id).label)
<1> SUFFICES ASSUME NEW r \in chan' \cup store.rows, r.idx # None
             PROVE  Means(n, r.id[1], r.idx, LineOf(r.id).label)
  OBVIOUS
<1>1. CASE r \in chan \cup store.rows
  <2>1. Means(store.meta, r.id[1], r.idx, LineOf(r.id).label)
    BY <1>1 DEF IndexInv
  <2>2. r.id \in RowIds
    BY <1>1 DEF TypeInv, StoredRows
  <2>3. r.id[1] \in Files
    BY <2>2, RowFacts
  <2>4. QED
    BY <2>1, <2>3, MeansKept
<1>2. CASE r = [id |-> <<f, pos[f] + 1>>, idx |-> idx, named |-> FALSE]
  <2>1. r.id = <<f, pos[f] + 1>> /\ r.idx = idx /\ r.id[1] = f
    BY <1>2
  <2>2. LineOf(r.id).label = NextLabel(f)
    BY <2>1, NextFacts
  <2>3. QED
    BY <2>1, <2>2
<1>3. QED
  BY <1>1, <1>2 DEF Send

\* A parser that holds the lock is still at its row, and memory still ahead of the store.
LEMMA AheadKept ==
    ASSUME TypeInv, AheadInv, UNCHANGED <<meta, mu>>, store'.meta = store.meta,
           mu # None => pos'[mu.file] = pos[mu.file] /\ cache'[mu.file] = cache[mu.file]
    PROVE  AheadInv'
<1>1. CASE mu = None
  BY <1>1 DEF AheadInv
<1>2. CASE mu # None
  BY <1>2 DEF AheadInv, NextLabel
<1>3. QED
  BY <1>1, <1>2

\* Where the catalog grows and the plugin does nothing, its copies stay as right as they were.
LEMMA ReaderKept ==
    ASSUME TypeInv, ReaderInv, UNCHANGED <<plugin, query>>, Grows(store.meta, store'.meta)
    PROVE  ReaderInv'
<1>1. \A r \in query.rows : r.id[1] \in Files
  <2>1. \A r \in query.rows : r.id \in RowIds
    BY DEF TypeInv, StoredRows
  <2>2. QED
    BY <2>1, RowFacts
<1>2. \A r \in query.rows : r.idx # None => Means(store'.meta, r.id[1], r.idx, LineOf(r.id).label)
  BY <1>1, MeansKept DEF ReaderInv
<1>3. Extends(plugin.meta.entries, store'.meta.entries) /\ Extends(query.entries, store'.meta.entries)
  BY DEF ReaderInv, Grows, Extends
<1>4. query.filter # None =>
          /\ query.filter.idx \in DOMAIN store'.meta.entries
          /\ store'.meta.entries[query.filter.idx] = query.filter.label
  BY DEF ReaderInv, Grows, Extends
<1>5. QED
  BY <1>2, <1>3, <1>4 DEF ReaderInv

LEMMA GrowsSame == ASSUME NEW m PROVE Grows(m, m)
  BY DEF Grows, Extends

\* The parsers' steps.
LEMMA LabelParse == ASSUME TypeInv, LabelInv, NEW f \in Files, Parse(f) PROVE LabelInv'
<1> USE DEF labels, bins, parsers, progress, savers, reader, bounds
<1>0. /\ cache \in [Files -> [LabelValues -> Idxs]]
      /\ Sound(store.meta) /\ Sound(plugin.meta) /\ AheadInv /\ IndexInv /\ ReaderInv
      /\ mu # None => mu.file \in Files
  <2>1. mu # None => mu \in [file : Files, appended : BOOLEAN]
    BY DEF TypeInv
  <2>2. QED
    BY <2>1 DEF TypeInv, LabelInv
\* The index from the cache means the label.
<1>1. CASE ResolveCached(f)
  <2>1. pos[f] < Len(Lines[f]) /\ NextLabel(f) \in LabelValues /\ cache[f][NextLabel(f)] # None
    BY <1>1, NextFacts DEF ResolveCached, More
  <2>2. Means(store.meta, f, cache[f][NextLabel(f)], NextLabel(f))
    BY <1>0, <2>1 DEF IndexInv
  <2>3. \A r \in chan' \cup store.rows :
            r.idx # None => Means(store.meta, r.id[1], r.idx, LineOf(r.id).label)
    BY <1>0, <1>1, <2>1, <2>2, Sent, GrowsSame DEF ResolveCached
  <2>4. IndexInv'
    BY <1>0, <1>1, <2>3 DEF ResolveCached, IndexInv
  <2>5. mu # None => mu.file # f
    BY <1>0, <2>1 DEF AheadInv
  <2>6. mu # None => pos'[mu.file] = pos[mu.file]
    BY <1>0, <1>1, <2>5 DEF ResolveCached, Send, TypeInv
  <2>7. AheadInv'
    BY <1>0, <1>1, <2>6, AheadKept DEF ResolveCached
  <2>8. ReaderInv'
    BY <1>0, <1>1, ReaderKept, GrowsSame DEF ResolveCached
  <2>9. QED
    BY <1>0, <1>1, <2>4, <2>7, <2>8 DEF ResolveCached, LabelInv
\* The label is in the catalog, with its cluster.
<1>2. CASE ResolveKnown(f)
  <2> DEFINE v == NextLabel(f)
             i == IndexOf(meta, v)
  <2>1. /\ pos[f] < Len(Lines[f]) /\ v \in LabelValues /\ mu = None /\ meta = store.meta
        /\ meta \in MetaType /\ WithLabel(meta, v, ClusterOf[f]) = meta
    BY <1>0, <1>2, NextFacts DEF ResolveKnown, More, AheadInv, TypeInv
  <2>2. Means(store.meta, f, i, v)
    BY <1>0, <2>1, Upsert, NextRow
  <2>3. \A r \in chan' \cup store.rows :
            r.idx # None => Means(store.meta, r.id[1], r.idx, LineOf(r.id).label)
    BY <1>0, <1>2, <2>1, <2>2, Sent, GrowsSame DEF ResolveKnown
  <2>4. cache' = [cache EXCEPT ![f][v] = i] /\ store' = store
    BY <1>2 DEF ResolveKnown
  <2> HIDE DEF i, v
  <2>5. \A g \in Files, w \in LabelValues :
            cache'[g][w] # None => Means(store.meta, g, cache'[g][w], w)
    BY <1>0, <2>1, <2>2, <2>4 DEF IndexInv
  <2>6. IndexInv'
    BY <2>3, <2>4, <2>5 DEF IndexInv
  <2>7. AheadInv'
    BY <1>0, <1>2, <2>1, AheadKept DEF ResolveKnown
  <2>8. ReaderInv'
    BY <1>0, <1>2, ReaderKept, GrowsSame DEF ResolveKnown
  <2>9. QED
    BY <1>0, <1>2, <2>6, <2>7, <2>8 DEF ResolveKnown, LabelInv
\* Memory goes ahead of the store.
<1>3. CASE ResolveNew(f)
  <2>1. /\ pos[f] < Len(Lines[f]) /\ meta = store.meta
        /\ meta' = WithLabel(store.meta, NextLabel(f), ClusterOf[f])
    BY <1>3, LockedFacts
  <2>2. /\ cache[f][NextLabel(f)] = None /\ meta' # meta
        /\ mu' = [file |-> f, appended |-> IndexOf(meta, NextLabel(f)) = None]
        /\ UNCHANGED <<store, pos, cache, chan, plugin, query>>
    BY <1>3 DEF ResolveNew
  <2>3. mu' \in [file : Files, appended : BOOLEAN] /\ mu'.file = f
        /\ mu'.appended = (IndexOf(store.meta, NextLabel(f)) = None)
    BY <2>1, <2>2
  <2>4. mu' # None
    BY <2>3, NoneAssumption
  <2>5. AheadInv'
    BY <2>1, <2>2, <2>3, <2>4 DEF AheadInv, NextLabel
  <2>6. QED
    BY <1>0, <2>2, <2>5 DEF LabelInv, IndexInv, ReaderInv
\* The store catches up.
<1>4. CASE StoreLabel(f)
  <2> DEFINE v == NextLabel(f)
             i == IndexOf(meta, v)
  <2>1. Holds(f)
    BY <1>4 DEF StoreLabel
  <2>2. /\ pos[f] < Len(Lines[f]) /\ v \in LabelValues /\ Sound(meta) /\ Means(meta, f, i, v)
        /\ Grows(store.meta, meta)
    BY <2>1, HolderFacts DEF Grows
  <2>3. /\ cache' = [cache EXCEPT ![f][v] = i] /\ store'.meta = meta /\ store'.rows = store.rows
        /\ mu' = None /\ UNCHANGED <<meta, plugin, query>> /\ Send(f, i)
    BY <1>4 DEF StoreLabel, TypeInv
  <2>4. \A r \in chan' \cup store.rows : r.idx # None => Means(meta, r.id[1], r.idx, LineOf(r.id).label)
    BY <1>0, <2>2, <2>3, Sent
  <2> HIDE DEF i, v
  <2>5. ASSUME NEW g \in Files, NEW w \in LabelValues, cache'[g][w] # None
        PROVE  Means(meta, g, cache'[g][w], w)
    <3>1. CASE g = f /\ w = v
      BY <1>0, <2>2, <2>3, <3>1
    <3>2. CASE ~(g = f /\ w = v)
      <4>1. cache'[g][w] = cache[g][w]
        BY <1>0, <2>2, <2>3, <3>2
      <4>2. QED
        BY <1>0, <2>2, <2>5, <4>1, MeansKept DEF IndexInv
    <3>3. QED
      BY <3>1, <3>2
  <2>6. IndexInv'
    BY <2>3, <2>4, <2>5 DEF IndexInv
  <2>7. AheadInv'
    BY <2>3 DEF AheadInv
  <2>8. ReaderInv'
    BY <1>0, <2>2, <2>3, ReaderKept
  <2>9. QED
    BY <1>0, <2>2, <2>3, <2>6, <2>7, <2>8 DEF LabelInv
\* Memory goes back to the store's.
<1>5. CASE StoreLabelFails(f)
  <2>1. Holds(f) /\ mu' = None /\ Send(f, None) /\ UNCHANGED <<store, cache, plugin, query>>
    BY <1>5 DEF StoreLabelFails
  <2>2. pos[f] < Len(Lines[f]) /\ meta' = store.meta
    BY <1>5, <2>1, HolderFacts DEF StoreLabelFails
  <2>3. \A r \in chan' \cup store.rows :
            r.idx # None => Means(store.meta, r.id[1], r.idx, LineOf(r.id).label)
    BY <1>0, <2>1, <2>2, Sent, GrowsSame
  <2>4. QED
    BY <1>0, <2>1, <2>2, <2>3 DEF LabelInv, AheadInv, IndexInv, ReaderInv
<1>6. CASE NoteProgress(f)
  BY <1>0, <1>6 DEF NoteProgress, LabelInv, AheadInv, IndexInv, ReaderInv, NextLabel
<1>7. QED
  BY <1>1, <1>2, <1>3, <1>4, <1>5, <1>6 DEF Parse

\* A worker's row keeps its index on its way into the store.
LEMMA LabelWork == ASSUME TypeInv, LabelInv, Work PROVE LabelInv'
<1> USE DEF labels, bins, parsers, progress, savers, reader, bounds
<1>0. /\ store \in [meta : MetaType, bins : SUBSET Cols, rows : SUBSET StoredRows]
      /\ Sound(store.meta) /\ Sound(plugin.meta) /\ AheadInv /\ IndexInv /\ ReaderInv
  BY DEF TypeInv, LabelInv
<1>1. PICK r \in chan : NameColumns(r) \/ PutRow(r)
  BY DEF Work
<1>2. r \in [id : RowIds, idx : Idxs, named : BOOLEAN]
  BY DEF TypeInv
<1>3. /\ UNCHANGED <<meta, mu, pos, cache, plugin, query>> /\ store'.meta = store.meta
      /\ \A q \in chan' \cup store'.rows : \E p \in chan \cup store.rows : q.id = p.id /\ q.idx = p.idx
  <2>1. CASE NameColumns(r)
    <3>1. [r EXCEPT !.named = TRUE].id = r.id /\ [r EXCEPT !.named = TRUE].idx = r.idx
      BY <1>2
    <3>2. QED
      BY <2>1, <3>1 DEF NameColumns
  <2>2. CASE PutRow(r)
    <3>1. store'.meta = store.meta
          /\ store'.rows = {q \in store.rows : q.id # r.id} \cup {[id |-> r.id, idx |-> r.idx]}
      BY <1>0, <2>2 DEF PutRow
    <3>2. QED
      BY <2>2, <3>1 DEF PutRow
  <2>3. QED
    BY <1>1, <2>1, <2>2
<1>4. IndexInv'
  BY <1>0, <1>3 DEF IndexInv
<1>5. AheadInv' /\ ReaderInv'
  BY <1>0, <1>3, AheadKept, ReaderKept, GrowsSame
<1>6. QED
  BY <1>0, <1>3, <1>4, <1>5 DEF LabelInv

\* The savers do not touch the labels.
LEMMA LabelSave == ASSUME TypeInv, LabelInv, (\E s \in Savers : Save(s)) \/ EndInterval PROVE LabelInv'
<1> USE DEF labels, bins, parsers, progress, savers, reader, bounds
<1>1. /\ store \in [meta : MetaType, bins : SUBSET Cols, rows : SUBSET StoredRows]
      /\ Sound(store.meta) /\ Sound(plugin.meta) /\ AheadInv /\ IndexInv /\ ReaderInv
  BY DEF TypeInv, LabelInv
<1>2. store' = store \/ \E s \in Savers : store' = [store EXCEPT !.bins = saver[s].copy]
  BY DEF Save, CopyNames, PutNames, PutNamesFails, Settle, SaveProgress, EndInterval
<1>3. store'.meta = store.meta /\ store'.rows = store.rows
  BY <1>1, <1>2
<1>4. UNCHANGED <<meta, mu, chan, pos, cache, plugin, query>>
  BY DEF Save, CopyNames, PutNames, PutNamesFails, Settle, SaveProgress, EndInterval
<1>5. AheadInv' /\ ReaderInv'
  BY <1>1, <1>3, <1>4, AheadKept, ReaderKept, GrowsSame
<1>6. QED
  BY <1>1, <1>3, <1>4, <1>5 DEF LabelInv, IndexInv

\* The plugin copies what is right, or what was.
LEMMA LabelRead == ASSUME TypeInv, LabelInv, Read PROVE LabelInv'
<1> USE DEF labels, bins, parsers, progress, savers, reader, bounds
<1>1. /\ plugin \in [bins : SUBSET Cols, meta : MetaType]
      /\ query \in [at : {"idle", "open", "group", "answer"}, filter : Filters \cup {None},
                    rows : SUBSET StoredRows, entries : Seq(LabelValues)]
      /\ Sound(store.meta) /\ Sound(plugin.meta) /\ AheadInv /\ IndexInv /\ ReaderInv
  BY DEF TypeInv, LabelInv
<1>2. UNCHANGED <<meta, mu, store, chan, pos, cache>>
  BY DEF Read, RefreshBins, RefreshMeta, ChooseFilter, OpenQuery, CopyEntries, EndQuery
<1>3. AheadInv' /\ IndexInv' /\ Sound(store.meta)'
  BY <1>1, <1>2, AheadKept DEF IndexInv
<1>4. SUFFICES Sound(plugin'.meta) /\ ReaderInv'
  BY <1>3 DEF LabelInv
<1>5. NoQuery.filter = None /\ NoQuery.rows = {} /\ NoQuery.entries = <<>>
  BY DEF NoQuery
<1>6. CASE RefreshBins
  <2>1. plugin'.meta = plugin.meta /\ query' = query
    BY <1>1, <1>6 DEF RefreshBins
  <2>2. QED
    BY <1>1, <1>2, <2>1 DEF ReaderInv
<1>7. CASE RefreshMeta
  <2>1. plugin'.meta = store.meta /\ query' = query
    BY <1>1, <1>7 DEF RefreshMeta
  <2>2. QED
    BY <1>1, <1>2, <2>1 DEF ReaderInv, Extends
<1>8. ASSUME NEW v \in LabelValues, ChooseFilter(v) PROVE Sound(plugin'.meta) /\ ReaderInv'
  <2>1. /\ plugin' = plugin /\ query'.rows = {} /\ query'.entries = <<>>
        /\ query'.filter = IF IndexOf(plugin.meta, v) = None THEN None
                           ELSE [label |-> v, idx |-> IndexOf(plugin.meta, v)]
    BY <1>8 DEF ChooseFilter, NoQuery
  <2>2. query'.filter # None =>
            /\ query'.filter.idx \in DOMAIN store.meta.entries
            /\ store.meta.entries[query'.filter.idx] = query'.filter.label
    <3>1. SUFFICES ASSUME IndexOf(plugin.meta, v) # None
                   PROVE  /\ IndexOf(plugin.meta, v) \in DOMAIN store.meta.entries
                          /\ store.meta.entries[IndexOf(plugin.meta, v)] = v
      BY <2>1
    <3>2. /\ IndexOf(plugin.meta, v) \in DOMAIN plugin.meta.entries
          /\ plugin.meta.entries[IndexOf(plugin.meta, v)] = v
      BY <1>1, <3>1, IndexFound
    <3>3. QED
      BY <1>1, <3>2 DEF ReaderInv, Extends
  <2>3. QED
    BY <1>1, <1>2, <2>1, <2>2 DEF ReaderInv, Extends
<1>9. CASE OpenQuery
  <2>1. /\ plugin' = plugin /\ query'.filter = query.filter /\ query'.entries = query.entries
        /\ query'.rows = {r \in store.rows : query.filter = None \/ r.idx = query.filter.idx}
    BY <1>1, <1>9 DEF OpenQuery
  <2>2. \A r \in query'.rows :
            /\ query.filter # None => r.idx = query.filter.idx
            /\ r.idx # None => Means(store.meta, r.id[1], r.idx, LineOf(r.id).label)
    BY <1>1, <2>1 DEF IndexInv
  <2>3. QED
    BY <1>1, <1>2, <2>1, <2>2 DEF ReaderInv
<1>10. CASE CopyEntries
  <2>1. /\ plugin' = plugin /\ query'.filter = query.filter /\ query'.rows = query.rows
        /\ query'.entries = plugin.meta.entries
    BY <1>1, <1>10 DEF CopyEntries
  <2>2. QED
    BY <1>1, <1>2, <2>1 DEF ReaderInv
<1>11. CASE EndQuery
  <2>1. plugin' = plugin /\ query' = NoQuery
    BY <1>11 DEF EndQuery
  <2>2. QED
    BY <1>1, <1>2, <1>5, <2>1 DEF ReaderInv, Extends
<1>12. QED
  BY <1>6, <1>7, <1>8, <1>9, <1>10, <1>11 DEF Read

\* Nothing is empty in the wrong way.
LEMMA NothingKnown == Sound(NoMeta) /\ \A es : Extends(<<>>, es)
  BY DEF NoMeta, Sound, IsInjective, Extends

\* A new life begins with the stored catalog and rows.
LEMMA LabelRestart == ASSUME TypeInv, LabelInv, Restart PROVE LabelInv'
<1>1. /\ meta' = store.meta /\ mu' = None /\ store' = store /\ chan' = {}
      /\ cache' = NoCache /\ plugin' = NoPlugin /\ query' = NoQuery
  BY DEF Restart
<1>2. \A f \in Files, v \in LabelValues : NoCache[f][v] = None
  BY DEF NoCache
<1>3. /\ NoPlugin.meta = NoMeta /\ NoMeta.entries = <<>>
      /\ NoQuery.filter = None /\ NoQuery.rows = {} /\ NoQuery.entries = <<>>
  BY DEF NoPlugin, NoMeta, NoQuery
<1>4. AheadInv' /\ IndexInv'
  BY <1>1, <1>2 DEF LabelInv, AheadInv, IndexInv
<1>5. ReaderInv' /\ Sound(plugin'.meta)
  BY <1>1, <1>3, NothingKnown DEF ReaderInv
<1>6. QED
  BY <1>1, <1>4, <1>5 DEF LabelInv

LEMMA LabelInit == Init => LabelInv
<1> SUFFICES ASSUME Init PROVE LabelInv
  OBVIOUS
<1>1. /\ meta = NoMeta /\ mu = None /\ chan = {} /\ store.meta = NoMeta /\ store.rows = {}
      /\ cache = NoCache /\ plugin = NoPlugin /\ query = NoQuery
  BY DEF Init
<1>2. \A f \in Files, v \in LabelValues : NoCache[f][v] = None
  BY DEF NoCache
<1>3. /\ NoPlugin.meta = NoMeta /\ NoMeta.entries = <<>>
      /\ NoQuery.filter = None /\ NoQuery.rows = {} /\ NoQuery.entries = <<>>
  BY DEF NoPlugin, NoMeta, NoQuery
<1>4. QED
  BY <1>1, <1>2, <1>3, NothingKnown DEF LabelInv, AheadInv, IndexInv, ReaderInv

LEMMA LabelNext == TypeInv /\ LabelInv /\ [Next]_vars => LabelInv'
<1> SUFFICES ASSUME TypeInv, LabelInv, [Next]_vars PROVE LabelInv'
  OBVIOUS
<1>1. CASE UNCHANGED vars
  BY <1>1 DEF vars, labels, bins, parsers, progress, savers, reader, bounds,
              LabelInv, AheadInv, IndexInv, ReaderInv, NextLabel
<1>2. QED
  BY <1>1, LabelParse, LabelWork, LabelSave, LabelRead, LabelRestart DEF Next

-----------------------------------------------------------------------------
(*                              The theorems                               *)

\* Every variable stays in its domain, and every index that is anywhere in the pipeline means, in
\* the stored catalog, the label it was given for (upsertMetaEntry, storeRow, cacheMetadataList).
THEOREM LabelsHold == Spec => [](TypeInv /\ LabelInv)
<1>1. Init => TypeInv /\ LabelInv
  BY TypeInit, LabelInit
<1>2. (TypeInv /\ LabelInv) /\ [Next]_vars => (TypeInv /\ LabelInv)'
  BY TypeNext, LabelNext
<1>3. QED
  BY <1>1, <1>2, PTL DEF Spec

\* An index never changes its meaning, however the parsers race to add labels, whichever stores
\* fail and are rolled back and however often ingest starts again (upsertMetaEntry, rollback).
THEOREM IndexesAreForGood == Spec => []IndexesKeepTheirLabel
<1>1. ASSUME TypeInv, LabelInv PROVE TypeOK
  <2>1. /\ store \in [meta : MetaType, bins : SUBSET Cols, rows : SUBSET StoredRows]
        /\ plugin \in [bins : SUBSET Cols, meta : MetaType]
        /\ query.rows \subseteq StoredRows /\ chan \subseteq [id : RowIds, idx : Idxs, named : BOOLEAN]
    BY <1>1 DEF TypeInv
  <2>2. \A r \in chan \cup store.rows \cup query.rows : r.id \in RowIds /\ (r.idx # None => r.idx \in Nat)
    BY <2>1 DEF StoredRows, Idxs
  <2>3. mu = None \/ mu.file \in Files
    BY <1>1 DEF TypeInv
  <2>4. \A s \in Savers : saver[s].at \in {"idle", "put", "settle", "progress", "ending", "done"}
    BY <1>1 DEF TypeInv
  <2>5. QED
    BY <1>1, <2>1, <2>2, <2>3, <2>4 DEF TypeInv, TypeOK
<1>2. TypeInv /\ LabelInv => IndexesKeepTheirLabel
  BY <1>1 DEF LabelInv, Sound, IndexInv, Means, IndexesKeepTheirLabel
<1>3. QED
  BY <1>2, LabelsHold, PTL

\* Whatever a query filters by and groups by, on however old a copy of the catalog, no row is
\* answered under a label that is not its own (queryTimeseries).
THEOREM AnswersAreNamedRight == Spec => []AnswersNameTheRightLabel
<1>1. ASSUME TypeInv, LabelInv, NEW r \in query.rows
      PROVE  /\ query.filter # None => query.filter.label = LineOf(r.id).label
             /\ r.idx # None /\ Resolves(r) => query.entries[r.idx] = LineOf(r.id).label
  <2>1. query.filter # None => query.filter.idx # None
    <3>1. query.filter # None => query.filter \in Filters
      BY <1>1 DEF TypeInv
    <3>2. QED
      BY <3>1, NoneAssumption DEF Filters
  <2>2. /\ query.filter # None =>
             r.idx = query.filter.idx /\ store.meta.entries[query.filter.idx] = query.filter.label
        /\ r.idx # None => store.meta.entries[r.idx] = LineOf(r.id).label
        /\ Extends(query.entries, store.meta.entries)
    BY <1>1 DEF LabelInv, ReaderInv, Means
  <2>3. QED
    BY <2>1, <2>2 DEF Resolves, Extends
<1>2. TypeInv /\ LabelInv => AnswersNameTheRightLabel
  BY <1>1 DEF AnswersNameTheRightLabel
<1>3. QED
  BY <1>2, LabelsHold, PTL
=============================================================================
