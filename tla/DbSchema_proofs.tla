--------------------------- MODULE DbSchema_proofs ---------------------------
(***************************************************************************)
(* Proofs about a set's schema and its rows, for any goroutines, keys,     *)
(* columns and requests, with and without the row locks.                   *)
(***************************************************************************)
EXTENDS MCDbSchema, TLAPS, FiniteSetTheorems

-----------------------------------------------------------------------------
(*                        The inductive invariant                          *)

\* The rows of the store and those that Get hands out.
Rows  == UNION {[C -> Cells] : C \in SUBSET ColIds}
Shown == UNION {[N -> Cells] : N \in SUBSET Names}

Schemas == [cols : [Names -> ColIds \cup {None}], next : 0 .. MaxCol + 1,
            index : Names \cup {None}]

\* The indexed column exists; a colID is below NextColID and one column's.
SchemaOK(s) ==
    /\ s \in Schemas
    /\ s.index # None => s.cols[s.index] # None
    /\ \A n \in Names : s.cols[n] # None => s.cols[n] < s.next
    /\ \A m, n \in Names : s.cols[m] = s.cols[n] /\ s.cols[m] # None => m = n

\* Row tells the truth under schema s, after the given drops: the columns whose
\* colIDs s knows are those its cells were written to, and a cell's column has
\* its colID still if, and only if, it has not been dropped since.
Tells(s, drops, row) ==
    \A c \in DOMAIN row :
        /\ c < s.next /\ row[c].drops <= drops[row[c].name]
        /\ row[c].drops = drops[row[c].name] <=> s.cols[row[c].name] = c
        /\ \A n \in Names : s.cols[n] = c => row[c].name = n

Disks == [rec : Schemas, data : [Keys -> Rows \cup {None, Ptr}],
          entry : [Keys -> [ColIds -> Rows \cup {None}]], drops : [Names -> Nat]]

PutReqs  == [op : {"put"}, key : Keys, names : (SUBSET Names) \ {{}}]
GetReqs  == [op : {"get"}, key : Keys]
RegReqs  == [op : {"register"}, name : Names, indexed : BOOLEAN]
DropReqs == [op : {"drop"}, name : Names]

PutPlaces  == {"prepare", "preplock", "persist", "lock", "snapshot", "commit"}
GetPlaces  == {"getdata", "getsnap", "getentry", "decode"}
RegPlaces  == {"reglock", "register"}
DropPlaces == {"drain", "droplock", "dropcommit"}

\* What a goroutine has at its place.
Fits(p) ==
    /\ pc[p] \in PutPlaces => req[p] \in PutReqs
    /\ pc[p] \in GetPlaces => req[p] \in GetReqs
    /\ pc[p] \in RegPlaces => req[p] \in RegReqs
    /\ pc[p] \in DropPlaces => req[p] \in DropReqs
    /\ pc[p] \notin {"getsnap", "getentry"} => entries[p] \in Rows
    /\ pc[p] = "getentry" => idx[p] # None

TypeInv ==
    /\ assumeNew \in BOOLEAN
    /\ disk \in Disks /\ durable \in Disks
    /\ schema = disk.rec /\ SchemaOK(disk.rec) /\ SchemaOK(durable.rec)
    /\ lock \in [Keys -> Procs \cup {None}] /\ smu \in Procs \cup {None}
    /\ pc \in [Procs -> {"idle"} \cup PutPlaces \cup GetPlaces \cup RegPlaces \cup DropPlaces]
    /\ req \in [Procs -> Requests \cup {None}]
    /\ ret \in [Procs -> {None, Ok, Err, Pending, Corrupt} \cup [row : Shown]]
    /\ entries \in [Procs -> Rows \cup {Ptr}] /\ idx \in [Procs -> ColIds \cup {None}]
    /\ \A p \in Procs : Fits(p)

\* Every row tells the truth: on disk, in what a crash falls back to, in hand.
DiskTells(d) ==
    \A k \in Keys :
        /\ d.data[k] \in Rows => Tells(d.rec, d.drops, d.data[k])
        /\ \A c \in ColIds : d.entry[k][c] \in Rows => Tells(d.rec, d.drops, d.entry[k][c])

TellInv ==
    /\ DiskTells(disk) /\ DiskTells(durable)
    /\ \A p \in Procs : entries[p] \in Rows => Tells(schema, disk.drops, entries[p])

\* As long as the first indexed column was not dropped, D/ holds pointers, each
\* to an entry.
Kept(d) == FirstIndexed # None /\ d.drops[FirstIndexed] = 0
Readable(d) ==
    Kept(d) =>
        /\ d.rec.index = FirstIndexed /\ d.rec.cols[FirstIndexed] = 0
        /\ \A k \in Keys : d.data[k] = None \/ (d.data[k] = Ptr /\ d.entry[k][0] # None)

ReadInv ==
    /\ Readable(disk) /\ Readable(durable)
    /\ Kept(disk) => \A p \in Procs :
          /\ ret[p] # Corrupt
          /\ pc[p] = "commit" => idx[p] = 0
          /\ pc[p] = "getsnap" => entries[p] = Ptr

\* With row locks the entries are those of the indexed column: whoever is about
\* to write holds its lock, and whoever drops a column holds them all.
OneIndex(d) == \A k \in Keys, c \in ColIds : d.entry[k][c] # None => c = IndexedId(d.rec)

LockInv ==
    ~assumeNew =>
        /\ OneIndex(disk) /\ OneIndex(durable)
        /\ \A p \in Procs :
              /\ pc[p] \in {"snapshot", "commit"} => lock[req[p].key] = p
              /\ pc[p] \in {"droplock", "dropcommit"} => \A k \in Keys : lock[k] = p
              /\ pc[p] = "commit" /\ idx[p] # None => idx[p] = IndexedId(schema)

IInv == TypeInv /\ TellInv /\ ReadInv /\ LockInv

-----------------------------------------------------------------------------
(*                         Facts about rows and schemas                    *)

\* Rows, pointers and nothing are told apart, and no row shown is an error.
LEMMA RowFacts ==
    /\ None \notin Rows /\ Ptr \notin Rows /\ Ptr # None /\ None \notin ColIds /\ None \notin Names
    /\ None \notin Procs /\ None \notin Shown /\ Corrupt \notin Shown
    /\ Corrupt \notin {None, Ok, Err, Pending} /\ Corrupt \notin [row : Shown]
    /\ Empty \in Rows /\ DOMAIN Empty = {} /\ 0 \in ColIds /\ ColIds \subseteq Nat
<1>1. Empty \in [{} -> Cells] /\ DOMAIN Empty = {}
  BY DEF Empty
<1>2. None \notin Rows /\ Ptr \notin Rows
  BY NoneAssumption DEF Rows
<1>3. None \notin Shown /\ Corrupt \notin Shown
  BY NoneAssumption DEF Shown
<1>4. Corrupt \notin [row : Shown]
  <2>1. SUFFICES ASSUME Corrupt \in [row : Shown] PROVE FALSE
    OBVIOUS
  <2>2. PICK x \in Shown : Corrupt = [row |-> x]
    BY <2>1
  <2>3. PICK N \in SUBSET Names : x \in [N -> Cells]
    BY DEF Shown
  <2>4. Corrupt \in [row : [N -> Cells]]
    BY <2>2, <2>3
  <2>5. QED
    BY <2>4, NoneAssumption
<1>5. 0 \in ColIds /\ ColIds \subseteq Nat
  BY SchemaAssumption DEF ColIds
<1>6. QED
  BY <1>1, <1>2, <1>3, <1>4, <1>5, NoneAssumption DEF Rows

\* A row is a function from some colIDs to cells.
LEMMA RowIs ==
    ASSUME NEW row
    PROVE  row \in Rows <=> \E C \in SUBSET ColIds : row \in [C -> Cells]
  BY DEF Rows

LEMMA RowHas ==
    ASSUME NEW row \in Rows, NEW c \in DOMAIN row
    PROVE  c \in ColIds /\ row[c] \in Cells /\ row[c].name \in Names /\ row[c].drops \in Nat
<1>1. PICK C \in SUBSET ColIds : row \in [C -> Cells]
  BY DEF Rows
<1>2. QED
  BY <1>1 DEF Cells

\* addColumn keeps what there is; what it adds are new columns with new colIDs.
Grows(s, t) ==
    /\ s.next <= t.next
    /\ \A n \in Names : s.cols[n] # None => t.cols[n] = s.cols[n]
    /\ \A n \in Names : s.cols[n] = None /\ t.cols[n] # None => s.next <= t.cols[n]

LEMMA ColumnsAdded ==
    ASSUME NEW s, SchemaOK(s), NEW names \in SUBSET Names, NEW index \in Names \cup {None},
           index # None => index \in names \/ s.cols[index] # None,
           NEW t \in AddColumns(s, names, index), t.next <= MaxCol + 1
    PROVE  /\ SchemaOK(t) /\ Grows(s, t) /\ t.index = index
           /\ \A n \in names : t.cols[n] # None
           /\ \A n \in Names \ names : t.cols[n] = s.cols[n]
<1> DEFINE new == {n \in names : s.cols[n] = None}
           top == s.next + Cardinality(new)
<1>1. Cardinality(new) \in Nat
  BY FS_Subset, FS_CardinalityType, SchemaAssumption
<1>2. s.next \in 0 .. MaxCol + 1 /\ s.cols \in [Names -> ColIds \cup {None}] /\ MaxCol \in Nat
  BY SchemaAssumption DEF SchemaOK, Schemas
<1>3. top \in Nat /\ s.next <= top
  BY <1>1, <1>2
<1>4. PICK f \in [new -> s.next .. top - 1] :
          /\ \A m, n \in new : f[m] = f[n] => m = n
          /\ t = [cols |-> [n \in Names |-> IF n \in new THEN f[n] ELSE s.cols[n]],
                  next |-> top, index |-> index]
  BY DEF AddColumns
<1> HIDE DEF new, top
<1>5. /\ t.next = top /\ t.index = index /\ top <= MaxCol + 1
      /\ t.cols = [n \in Names |-> IF n \in new THEN f[n] ELSE s.cols[n]]
  BY <1>4
<1>6. new \subseteq names /\ new \subseteq Names /\ \A n \in names : n \in new <=> s.cols[n] = None
  BY DEF new
<1>7. \A n \in new : t.cols[n] = f[n] /\ f[n] \in ColIds /\ s.next <= f[n] /\ f[n] < top
  <2>1. \A n \in new : f[n] \in s.next .. top - 1
    BY <1>4
  <2>2. QED
    BY <1>2, <1>3, <1>5, <1>6, <2>1 DEF ColIds
<1>8. \A n \in Names \ new : t.cols[n] = s.cols[n]
  BY <1>5
<1>9. t \in Schemas
  <2>1. t.cols \in [Names -> ColIds \cup {None}]
    BY <1>2, <1>5, <1>7
  <2>2. QED
    BY <1>2, <1>3, <1>4, <1>5, <2>1 DEF Schemas
<1>10. \A n \in Names : t.cols[n] # None => t.cols[n] < t.next
  BY <1>1, <1>2, <1>3, <1>5, <1>7, <1>8, RowFacts DEF SchemaOK
<1>11. \A m, n \in Names : t.cols[m] = t.cols[n] /\ t.cols[m] # None => m = n
  <2>1. \A m \in new, n \in Names \ new : s.cols[n] # None => t.cols[m] # t.cols[n]
    BY <1>2, <1>7, <1>8, RowFacts DEF SchemaOK
  <2>2. \A n \in Names \ new : t.cols[n] # None => s.cols[n] # None
    BY <1>8
  <2>3. \A m, n \in new : t.cols[m] = t.cols[n] => m = n
    BY <1>4, <1>7
  <2>4. QED
    BY <1>8, <2>1, <2>2, <2>3 DEF SchemaOK
<1>12. \A n \in names : t.cols[n] # None
  BY <1>6, <1>7, <1>8, RowFacts
<1>13. t.index # None => t.cols[t.index] # None
  BY <1>5, <1>6, <1>7, <1>8, <1>12, RowFacts
<1>14. Grows(s, t)
  BY <1>3, <1>5, <1>6, <1>7, <1>8, RowFacts DEF Grows
<1>15. QED
  BY <1>5, <1>6, <1>8, <1>9, <1>10, <1>11, <1>12, <1>13, <1>14 DEF SchemaOK

\* Rows go on telling the truth when columns are added,
LEMMA TellsOn ==
    ASSUME NEW s, NEW t, SchemaOK(s), SchemaOK(t), Grows(s, t), NEW drops, NEW row \in Rows,
           Tells(s, drops, row)
    PROVE  Tells(t, drops, row)
<1> SUFFICES ASSUME NEW c \in DOMAIN row
             PROVE  /\ c < t.next /\ row[c].drops <= drops[row[c].name]
                    /\ row[c].drops = drops[row[c].name] <=> t.cols[row[c].name] = c
                    /\ \A n \in Names : t.cols[n] = c => row[c].name = n
  BY DEF Tells
<1>1. /\ c \in ColIds /\ row[c].name \in Names
  BY RowHas
<1>2. c \in Nat /\ s.next \in Nat /\ t.next \in Nat /\ c # None
  BY <1>1, RowFacts, SchemaAssumption DEF SchemaOK, Schemas
<1>3. c < s.next /\ c < t.next
  BY <1>2 DEF Tells, Grows
<1>4. \A n \in Names : s.cols[n] \in ColIds \cup {None} /\ t.cols[n] \in ColIds \cup {None}
  BY RowFacts DEF SchemaOK, Schemas
<1>5. \A n \in Names : t.cols[n] = c <=> s.cols[n] = c
  BY <1>2, <1>3, <1>4 DEF Grows
<1>6. QED
  BY <1>1, <1>3, <1>5 DEF Tells

\* and when one is dropped.
LEMMA TellsOff ==
    ASSUME NEW s, SchemaOK(s), NEW t, SchemaOK(t), NEW n \in Names, s.next = t.next,
           t.cols = [s.cols EXCEPT ![n] = None],
           NEW drops \in [Names -> Nat], NEW row \in Rows, Tells(s, drops, row)
    PROVE  Tells(t, [drops EXCEPT ![n] = @ + 1], row)
<1> DEFINE more == [drops EXCEPT ![n] = @ + 1]
<1> SUFFICES ASSUME NEW c \in DOMAIN row
             PROVE  /\ c < t.next /\ row[c].drops <= more[row[c].name]
                    /\ row[c].drops = more[row[c].name] <=> t.cols[row[c].name] = c
                    /\ \A m \in Names : t.cols[m] = c => row[c].name = m
  BY DEF Tells
<1>1. c \in ColIds /\ row[c].name \in Names /\ row[c].drops \in Nat /\ c # None
  BY RowHas, RowFacts
<1>2. /\ c < s.next /\ row[c].drops <= drops[row[c].name]
      /\ row[c].drops = drops[row[c].name] <=> s.cols[row[c].name] = c
      /\ \A m \in Names : s.cols[m] = c => row[c].name = m
  BY DEF Tells
<1>3. /\ s.cols \in [Names -> ColIds \cup {None}]
      /\ t.cols[n] = None /\ \A m \in Names \ {n} : t.cols[m] = s.cols[m]
  BY DEF SchemaOK, Schemas
<1>4. more[n] = drops[n] + 1 /\ \A m \in Names \ {n} : more[m] = drops[m]
  OBVIOUS
<1>5. \A m \in Names : drops[m] \in Nat
  OBVIOUS
<1> HIDE DEF more
<1>6. CASE row[c].name = n
  BY <1>1, <1>2, <1>3, <1>4, <1>5, <1>6
<1>7. CASE row[c].name # n
  BY <1>1, <1>2, <1>3, <1>4, <1>5, <1>7
<1>8. QED
  BY <1>6, <1>7

\* A row encoded with columns that are known tells the truth, and so does one without columns.
LEMMA Encoded ==
    ASSUME disk \in Disks, NEW s, SchemaOK(s), NEW names \in SUBSET Names,
           \A n \in names : s.cols[n] # None
    PROVE  /\ Encode(s, names) \in Rows /\ Tells(s, disk.drops, Encode(s, names))
           /\ DOMAIN Encode(s, names) = {s.cols[n] : n \in names}
<1> DEFINE C == {s.cols[n] : n \in names}
           row == Encode(s, names)
<1>1. disk.drops \in [Names -> Nat] /\ s.cols \in [Names -> ColIds \cup {None}]
  BY DEF Disks, SchemaOK, Schemas
<1>2. C \in SUBSET ColIds
  BY <1>1
<1>3. DOMAIN row = C
  BY DEF Encode
<1>4. ASSUME NEW c \in C
      PROVE  /\ row[c] \in Cells /\ row[c].name \in names /\ s.cols[row[c].name] = c
             /\ row[c].drops = disk.drops[row[c].name]
  <2> DEFINE n == CHOOSE m \in names : s.cols[m] = c
  <2>1. n \in names /\ s.cols[n] = c
    <3>1. \E m \in names : s.cols[m] = c
      OBVIOUS
    <3>2. QED
      BY <3>1
  <2>2. row[c] = [name |-> n, drops |-> disk.drops[n]]
    BY DEF Encode
  <2> HIDE DEF n
  <2>3. QED
    BY <1>1, <2>1, <2>2 DEF Cells
<1>5. row \in [C -> Cells]
  BY <1>4 DEF Encode
<1>6. row \in Rows
  BY <1>2, <1>5, RowIs
<1>7. Tells(s, disk.drops, row)
  <2> SUFFICES ASSUME NEW c \in C
               PROVE  /\ c < s.next /\ row[c].drops <= disk.drops[row[c].name]
                      /\ row[c].drops = disk.drops[row[c].name] <=> s.cols[row[c].name] = c
                      /\ \A n \in Names : s.cols[n] = c => row[c].name = n
    BY <1>3 DEF Tells
  <2>1. c \in ColIds /\ c # None
    BY <1>2, RowFacts
  <2>2. c < s.next /\ \A n \in Names : s.cols[n] = c => row[c].name = n
    BY <1>4, <2>1 DEF SchemaOK
  <2>3. disk.drops[row[c].name] \in Nat
    BY <1>1, <1>4
  <2>4. QED
    BY <1>4, <2>2, <2>3
<1>8. QED
  BY <1>3, <1>6, <1>7

LEMMA EmptyTells ==
    ASSUME NEW s, NEW drops
    PROVE  Tells(s, drops, Empty)
  BY RowFacts DEF Tells

\* What Get makes of a row.
LEMMA Decoded ==
    ASSUME NEW s, SchemaOK(s), NEW row \in Rows
    PROVE  /\ Decode(s, row) \in Shown
           /\ \A n \in Names : n \in DOMAIN Decode(s, row) <=> s.cols[n] \in DOMAIN row
           /\ \A n \in DOMAIN Decode(s, row) : Decode(s, row)[n] = row[s.cols[n]] /\ n \in Names
<1> DEFINE N == {m \in Names : s.cols[m] \in DOMAIN row}
<1>1. Decode(s, row) = [n \in N |-> row[s.cols[n]]]
  BY DEF Decode
<1>2. \A n \in N : row[s.cols[n]] \in Cells
  BY RowHas
<1>3. Decode(s, row) \in [N -> Cells] /\ N \in SUBSET Names
  BY <1>1, <1>2
<1>4. Decode(s, row) \in Shown
  BY <1>3 DEF Shown
<1>5. QED
  BY <1>1, <1>4

-----------------------------------------------------------------------------
(*                                 Types                                   *)

Places   == {"idle"} \cup PutPlaces \cup GetPlaces \cup RegPlaces \cup DropPlaces
Outcomes == {None, Ok, Err, Pending, Corrupt} \cup [row : Shown]

\* The variables but for schema and disk; Fits of those who do not step.
Locals ==
    /\ lock \in [Keys -> Procs \cup {None}] /\ smu \in Procs \cup {None}
    /\ pc \in [Procs -> Places] /\ req \in [Procs -> Requests \cup {None}]
    /\ ret \in [Procs -> Outcomes] /\ entries \in [Procs -> Rows \cup {Ptr}]
    /\ idx \in [Procs -> ColIds \cup {None}] /\ \A p \in Procs : Fits(p)

LEMMA LocalsAre == TypeInv => Locals
  BY DEF TypeInv, Locals, Places, Outcomes

LEMMA TypesAre ==
    ASSUME assumeNew \in BOOLEAN, disk \in Disks, durable \in Disks, schema = disk.rec,
           SchemaOK(disk.rec), SchemaOK(durable.rec), Locals
    PROVE  TypeInv
  BY DEF TypeInv, Locals, Places, Outcomes

LEMMA TypeInit == Init => TypeInv
<1> SUFFICES ASSUME Init PROVE TypeInv
  OBVIOUS
<1>1. FirstSchema \in Schemas /\ SchemaOK(FirstSchema)
  <2>1. /\ FirstSchema.cols \in [Names -> ColIds \cup {None}] /\ FirstSchema.index \in Names \cup {None}
        /\ FirstSchema.next \in 0 .. MaxCol + 1
    BY SchemaAssumption, RowFacts DEF FirstSchema
  <2>2. FirstSchema \in Schemas
    BY <2>1 DEF FirstSchema, Schemas
  <2>3. \A n \in Names : FirstSchema.cols[n] # None => n = FirstIndexed /\ FirstSchema.cols[n] = 0
    BY DEF FirstSchema
  <2>4. FirstIndexed # None => FirstSchema.cols[FirstIndexed] = 0 /\ FirstSchema.next = 1
    BY SchemaAssumption DEF FirstSchema
  <2>5. FirstSchema.index = FirstIndexed
    BY DEF FirstSchema
  <2>6. QED
    BY <2>2, <2>3, <2>4, <2>5, RowFacts DEF SchemaOK
<1>2. disk \in Disks /\ durable = disk /\ schema = disk.rec /\ disk.rec = FirstSchema
  BY <1>1 DEF Init, Disks
<1>3. Locals
  BY RowFacts DEF Init, Locals, Places, Outcomes, Fits, PutPlaces, GetPlaces, RegPlaces, DropPlaces
<1>4. assumeNew \in BOOLEAN
  BY SchemaAssumption DEF Init
<1>5. QED
  BY <1>1, <1>2, <1>3, <1>4, TypesAre

\* A step that goes to l and writes nothing else but p's own row and snapshot.
LEMMA Goes ==
    ASSUME Locals, NEW p \in Procs, NEW l \in Places, Go(p, l), UNCHANGED <<req, ret>>,
           lock' \in [Keys -> Procs \cup {None}], smu' \in Procs \cup {None},
           entries' \in [Procs -> Rows \cup {Ptr}], \A q \in Procs \ {p} : entries'[q] = entries[q],
           idx' \in [Procs -> ColIds \cup {None}], \A q \in Procs \ {p} : idx'[q] = idx[q],
           l \in PutPlaces => req[p] \in PutReqs, l \in GetPlaces => req[p] \in GetReqs,
           l \in RegPlaces => req[p] \in RegReqs, l \in DropPlaces => req[p] \in DropReqs,
           l \notin {"getsnap", "getentry"} => entries'[p] \in Rows, l = "getentry" => idx'[p] # None
    PROVE  Locals'
<1>1. pc' = [pc EXCEPT ![p] = l] /\ pc' \in [Procs -> Places] /\ pc'[p] = l
  BY DEF Locals, Go
<1>2. \A q \in Procs : Fits(q)'
  <2> SUFFICES ASSUME NEW q \in Procs PROVE Fits(q)'
    OBVIOUS
  <2>1. CASE q = p
    BY <1>1, <2>1 DEF Locals, Fits
  <2>2. CASE q # p
    <3>1. pc'[q] = pc[q] /\ entries'[q] = entries[q] /\ idx'[q] = idx[q] /\ Fits(q) /\ req' = req
      BY <1>1, <2>2 DEF Locals
    <3>2. QED
      BY <3>1 DEF Fits
  <2>3. QED
    BY <2>1, <2>2
<1>3. QED
  BY <1>1, <1>2 DEF Locals

\* A step that writes neither.
LEMMA GoesOn ==
    ASSUME Locals, NEW p \in Procs, NEW l \in Places, Go(p, l), UNCHANGED <<req, ret, entries, idx>>,
           lock' \in [Keys -> Procs \cup {None}], smu' \in Procs \cup {None},
           l \in PutPlaces => req[p] \in PutReqs, l \in GetPlaces => req[p] \in GetReqs,
           l \in RegPlaces => req[p] \in RegReqs, l \in DropPlaces => req[p] \in DropReqs,
           l \notin {"getsnap", "getentry"} => entries[p] \in Rows, l = "getentry" => idx[p] # None
    PROVE  Locals'
  BY Goes DEF Locals

\* A step that writes p's row and no more.
LEMMA GoesWithRow ==
    ASSUME Locals, NEW p \in Procs, NEW l \in Places, Go(p, l), UNCHANGED <<lock, smu, req, ret, idx>>,
           NEW row \in Rows \cup {Ptr}, entries' = [entries EXCEPT ![p] = row],
           l \in PutPlaces => req[p] \in PutReqs, l \in GetPlaces => req[p] \in GetReqs,
           l \notin {"getsnap", "getentry"} => row \in Rows, l \in PutPlaces \cup (GetPlaces \ {"getentry"})
    PROVE  Locals'
<1>1. /\ entries' \in [Procs -> Rows \cup {Ptr}] /\ \A q \in Procs \ {p} : entries'[q] = entries[q]
      /\ entries'[p] = row
  BY DEF Locals
<1>2. l \notin RegPlaces \cup DropPlaces /\ l # "getentry"
  BY DEF PutPlaces, GetPlaces, RegPlaces, DropPlaces
<1>3. QED
  BY <1>1, <1>2, Goes DEF Locals

LEMMA Finishes ==
    ASSUME Locals, NEW p \in Procs, NEW out \in Outcomes, Finish(p, out)
    PROVE  Locals'
<1>1. /\ pc' = [pc EXCEPT ![p] = "idle"] /\ pc' \in [Procs -> Places]
      /\ ret' = [ret EXCEPT ![p] = out] /\ req' = req
      /\ lock' = [k \in Keys |-> IF lock[k] = p THEN None ELSE lock[k]]
      /\ smu' = (IF smu = p THEN None ELSE smu)
      /\ entries' = [entries EXCEPT ![p] = Empty] /\ idx' = [idx EXCEPT ![p] = None]
  BY DEF Finish, Go, Locals, Places
<1>2. \A q \in Procs : Fits(q)'
  <2> SUFFICES ASSUME NEW q \in Procs PROVE Fits(q)'
    OBVIOUS
  <2>1. CASE q = p
    BY <1>1, <2>1, RowFacts DEF Locals, Fits, PutPlaces, GetPlaces, RegPlaces, DropPlaces
  <2>2. CASE q # p
    <3>1. pc'[q] = pc[q] /\ entries'[q] = entries[q] /\ idx'[q] = idx[q] /\ Fits(q)
      BY <1>1, <2>2 DEF Locals
    <3>2. QED
      BY <1>1, <3>1 DEF Fits
  <2>3. QED
    BY <2>1, <2>2
<1>3. /\ lock' \in [Keys -> Procs \cup {None}] /\ smu' \in Procs \cup {None}
      /\ ret' \in [Procs -> Outcomes] /\ entries' \in [Procs -> Rows \cup {Ptr}]
      /\ idx' \in [Procs -> ColIds \cup {None}] /\ req' \in [Procs -> Requests \cup {None}]
  BY <1>1, RowFacts DEF Locals
<1>4. QED
  BY <1>1, <1>2, <1>3 DEF Locals

\* A schema that takes the place of the one there is, in memory and on disk.
LEMMA Recorded ==
    ASSUME disk \in Disks, NEW s \in Schemas, disk' = [disk EXCEPT !.rec = s]
    PROVE  /\ disk' \in Disks /\ disk'.rec = s /\ disk'.data = disk.data
           /\ disk'.entry = disk.entry /\ disk'.drops = disk.drops
  BY DEF Disks

LEMMA Called ==
    ASSUME TypeInv, NEW p \in Procs, NEW r \in Requests, Call(p, r)
    PROVE  Locals'
<1> DEFINE l == CASE r.op = "put" -> "prepare" [] r.op = "get" -> "getdata"
                  [] r.op = "register" -> "reglock" [] r.op = "drop" -> "drain"
<1>1. /\ pc[p] = "idle" /\ pc' = [pc EXCEPT ![p] = l] /\ req' = [req EXCEPT ![p] = r]
      /\ ret' = [ret EXCEPT ![p] = Pending] /\ UNCHANGED <<lock, smu, entries, idx>>
  BY DEF Call, Go
<1>2. r \in PutReqs \cup GetReqs \cup RegReqs \cup DropReqs
  BY SchemaAssumption DEF PutReqs, GetReqs, RegReqs, DropReqs
<1>3. /\ r \in PutReqs => l = "prepare"
      /\ r \in GetReqs => l = "getdata"
      /\ r \in RegReqs => l = "reglock"
      /\ r \in DropReqs => l = "drain"
  BY DEF PutReqs, GetReqs, RegReqs, DropReqs
<1> HIDE DEF l
<1>4. Locals /\ l \in Places
  BY <1>2, <1>3, LocalsAre DEF Places, PutPlaces, GetPlaces, RegPlaces, DropPlaces
<1>5. \A q \in Procs : Fits(q)'
  <2> SUFFICES ASSUME NEW q \in Procs PROVE Fits(q)'
    OBVIOUS
  <2>1. CASE q = p
    <3>1. pc'[p] = l /\ req'[p] = r /\ entries'[p] = entries[p] /\ entries[p] \in Rows
      BY <1>1, <1>4 DEF Locals, Fits
    <3>2. QED
      BY <1>2, <1>3, <2>1, <3>1 DEF Fits, PutPlaces, GetPlaces, RegPlaces, DropPlaces
  <2>2. CASE q # p
    <3>1. pc'[q] = pc[q] /\ req'[q] = req[q] /\ Fits(q) /\ entries' = entries /\ idx' = idx
      BY <1>1, <1>4, <2>2 DEF Locals
    <3>2. QED
      BY <3>1 DEF Fits
  <2>3. QED
    BY <2>1, <2>2
<1>6. ret' \in [Procs -> Outcomes]
  BY <1>1, <1>4 DEF Locals, Outcomes
<1>7. QED
  BY <1>1, <1>4, <1>5, <1>6 DEF Locals

\* The places and what is known there, for those who step.
LEMMA Here ==
    ASSUME TypeInv, NEW p \in Procs
    PROVE  /\ pc[p] \in PutPlaces => req[p].key \in Keys /\ req[p].names \in SUBSET Names /\ req[p] \in PutReqs
           /\ pc[p] \in GetPlaces => req[p].key \in Keys /\ req[p] \in GetReqs
           /\ pc[p] \in RegPlaces => req[p].name \in Names /\ req[p].indexed \in BOOLEAN /\ req[p] \in RegReqs
           /\ pc[p] \in DropPlaces => req[p].name \in Names /\ req[p] \in DropReqs
           /\ pc[p] \notin {"getsnap", "getentry"} => entries[p] \in Rows
           /\ pc[p] = "getentry" => idx[p] # None
           /\ entries[p] \in Rows \cup {Ptr} /\ idx[p] \in ColIds \cup {None}
           /\ IndexedId(schema) \in ColIds \cup {None} /\ SchemaOK(schema) /\ schema \in Schemas
           /\ Locals
<1>1. Fits(p) /\ entries[p] \in Rows \cup {Ptr} /\ idx[p] \in ColIds \cup {None}
  BY DEF TypeInv
<1>2. SchemaOK(schema)
  BY DEF TypeInv
<1>3. IndexedId(schema) \in ColIds \cup {None}
  BY <1>2 DEF SchemaOK, Schemas, IndexedId
<1>4. QED
  BY <1>1, <1>2, <1>3, LocalsAre DEF Fits, PutReqs, GetReqs, RegReqs, DropReqs, SchemaOK

\* Persist, as what it does to the schema and to the row.
LEMMA Persisted ==
    ASSUME TypeInv, NEW p \in Procs, Persist(p)
    PROVE  /\ schema' = disk'.rec /\ SchemaOK(schema') /\ disk' \in Disks /\ durable' = durable
           /\ Grows(schema, schema') /\ schema'.index = schema.index
           /\ disk'.data = disk.data /\ disk'.entry = disk.entry /\ disk'.drops = disk.drops
           /\ entries' = [entries EXCEPT ![p] = Encode(schema', req[p].names)]
           /\ Encode(schema', req[p].names) \in Rows
           /\ Tells(schema', disk.drops, Encode(schema', req[p].names))
           /\ Go(p, AfterPrepare) /\ smu' = None /\ UNCHANGED <<lock, req, ret, idx>>
<1>1. PICK s \in AddColumns(schema, req[p].names, schema.index) :
          /\ s.next <= MaxCol + 1 /\ schema' = s /\ disk' = [disk EXCEPT !.rec = s]
          /\ entries' = [entries EXCEPT ![p] = Encode(s, req[p].names)]
  BY DEF Persist
<1>2. SchemaOK(schema) /\ req[p].names \in SUBSET Names /\ disk \in Disks
  BY Here DEF Persist, PutPlaces, TypeInv
<1>3. schema.index \in Names \cup {None} /\ (schema.index # None => schema.cols[schema.index] # None)
  BY <1>2 DEF SchemaOK, Schemas
<1>4. /\ SchemaOK(s) /\ Grows(schema, s) /\ s.index = schema.index
      /\ \A n \in req[p].names : s.cols[n] # None
  BY <1>1, <1>2, <1>3, ColumnsAdded
<1>5. /\ disk' \in Disks /\ disk'.rec = s /\ disk'.data = disk.data
      /\ disk'.entry = disk.entry /\ disk'.drops = disk.drops
  <2>1. s \in Schemas
    BY <1>4 DEF SchemaOK
  <2>2. QED
    BY <1>1, <1>2, <2>1, Recorded
<1>6. Encode(s, req[p].names) \in Rows /\ Tells(s, disk.drops, Encode(s, req[p].names))
  BY <1>2, <1>4, Encoded
<1>7. QED
  BY <1>1, <1>4, <1>5, <1>6 DEF Persist

\* Register either leaves the schema or adds the one column.
LEMMA Registered ==
    ASSUME TypeInv, NEW p \in Procs, Register(p)
    PROVE  /\ schema' = disk'.rec /\ SchemaOK(schema') /\ disk' \in Disks /\ durable' = durable
           /\ Grows(schema, schema') /\ schema'.index \in {schema.index, req[p].name}
           /\ schema.index # None => schema'.index = schema.index
           /\ disk'.data = disk.data /\ disk'.entry = disk.entry /\ disk'.drops = disk.drops
           /\ Finish(p, Ok) \/ Finish(p, Err)
<1> DEFINE n == req[p].name
           known == schema.cols[n] # None
           refused == req[p].indexed /\ IF known THEN schema.index # n ELSE schema.index # None
           index == IF req[p].indexed THEN n ELSE schema.index
<1>1. /\ n \in Names /\ req[p].indexed \in BOOLEAN /\ SchemaOK(schema) /\ disk \in Disks
      /\ schema = disk.rec
  BY Here DEF Register, RegPlaces, TypeInv
<1>2. schema.index \in Names \cup {None} /\ (schema.index # None => schema.cols[schema.index] # None)
  BY <1>1 DEF SchemaOK, Schemas
<1>3. CASE /\ ~refused /\ ~known /\ schema.next <= MaxCol
           /\ \E s \in AddColumns(schema, {n}, index) :
                 schema' = s /\ disk' = [disk EXCEPT !.rec = s]
           /\ Finish(p, Ok)
  <2>1. PICK s \in AddColumns(schema, {n}, index) : schema' = s /\ disk' = [disk EXCEPT !.rec = s]
    BY <1>3
  <2>2. index \in Names \cup {None} /\ (index # None => index \in {n} \/ schema.cols[index] # None)
    BY <1>1, <1>2
  <2>3. s.next <= MaxCol + 1
    <3>1. {m \in {n} : schema.cols[m] = None} = {n}
      BY <1>3
    <3>2. Cardinality({n}) = 1
      BY FS_Singleton
    <3>3. s.next = schema.next + Cardinality({m \in {n} : schema.cols[m] = None})
      BY <2>1 DEF AddColumns
    <3>4. QED
      <4>1. schema.next \in Nat /\ schema.next <= MaxCol
        BY <1>1, <1>3 DEF SchemaOK, Schemas
      <4>2. s.next = schema.next + 1
        BY <3>1, <3>2, <3>3
      <4>3. QED
        BY <4>1, <4>2, SchemaAssumption
  <2>4. {n} \in SUBSET Names
    BY <1>1
  <2> HIDE DEF n, index
  <2>5. SchemaOK(s) /\ Grows(schema, s) /\ s.index = index
    BY <1>1, <2>2, <2>3, <2>4, ColumnsAdded
  <2>6. s \in Schemas
    BY <2>5 DEF SchemaOK
  <2>7. /\ disk' \in Disks /\ disk'.rec = s /\ disk'.data = disk.data
        /\ disk'.entry = disk.entry /\ disk'.drops = disk.drops
    BY <1>1, <2>1, <2>6, Recorded
  <2>8. index \in {schema.index, n} /\ (schema.index # None => index = schema.index)
    BY <1>1, <1>3 DEF index, n
  <2>9. QED
    BY <1>3, <2>1, <2>5, <2>7, <2>8 DEF Register, n
<1>4. CASE UNCHANGED <<schema, disk>> /\ (Finish(p, Ok) \/ Finish(p, Err))
  BY SMTT(60), <1>1, <1>4 DEF Register, Grows, SchemaOK, Schemas
<1>5. QED
  BY <1>3, <1>4 DEF Register

\* DropColumn retires the name with its colID, and the entries of an indexed column.
LEMMA Dropped ==
    ASSUME TypeInv, NEW p \in Procs, DropColumn(p)
    PROVE  LET n == req[p].name
           IN  /\ n \in Names /\ schema' = disk'.rec /\ SchemaOK(schema') /\ disk' \in Disks
               /\ durable' = durable /\ schema'.next = schema.next
               /\ schema'.cols = [schema.cols EXCEPT ![n] = None]
               /\ schema'.index = IF schema.index = n THEN None ELSE schema.index
               /\ disk'.data = disk.data /\ disk'.drops = [disk.drops EXCEPT ![n] = @ + 1]
               /\ \A k \in Keys, b \in ColIds :
                     disk'.entry[k][b] = IF schema.index = n /\ b = schema.cols[n] THEN None
                                         ELSE disk.entry[k][b]
               /\ Finish(p, Ok)
<1> DEFINE n == req[p].name
           s == [schema EXCEPT !.cols[n] = None, !.index = IF @ = n THEN None ELSE @]
           e == [k \in Keys |-> [b \in ColIds |->
                   IF schema.index = n /\ b = schema.cols[n] THEN None ELSE disk.entry[k][b]]]
<1>1. n \in Names /\ SchemaOK(schema) /\ schema \in Schemas /\ disk \in Disks
  BY Here DEF DropColumn, DropPlaces, TypeInv
<1>2. /\ schema' = s /\ durable' = durable /\ Finish(p, Ok)
      /\ disk' = [disk EXCEPT !.rec = s, !.drops[n] = @ + 1, !.entry = e]
  BY <1>1 DEF DropColumn, Disks
<1>3. /\ s \in Schemas /\ s.next = schema.next /\ s.cols = [schema.cols EXCEPT ![n] = None]
      /\ s.index = IF schema.index = n THEN None ELSE schema.index
  BY <1>1 DEF Schemas
<1> HIDE DEF n, s
<1>4. SchemaOK(s)
  <2>1. s.cols[n] = None /\ \A m \in Names \ {n} : s.cols[m] = schema.cols[m]
    BY <1>1, <1>3 DEF Schemas
  <2>2. QED
    BY <1>1, <1>3, <2>1 DEF SchemaOK
<1>5. e \in [Keys -> [ColIds -> Rows \cup {None}]]
  BY <1>1 DEF Disks
<1> HIDE DEF e
<1>6. /\ disk' \in Disks /\ disk'.rec = s /\ disk'.entry = e /\ disk'.data = disk.data
      /\ disk'.drops = [disk.drops EXCEPT ![n] = @ + 1]
  <2>1. [disk.drops EXCEPT ![n] = @ + 1] \in [Names -> Nat]
    BY <1>1 DEF Disks
  <2>2. disk' = [disk EXCEPT !.rec = s, !.drops = [disk.drops EXCEPT ![n] = @ + 1], !.entry = e]
    BY <1>1, <1>2 DEF Disks
  <2>3. QED
    BY <1>1, <1>3, <1>5, <2>1, <2>2 DEF Disks
<1>7. QED
  BY <1>1, <1>2, <1>3, <1>4, <1>6 DEF n, e

\* Commit writes the row: in D/, or as an entry with its pointer.
LEMMA Committed ==
    ASSUME TypeInv, NEW p \in Procs, Commit(p)
    PROVE  LET k == req[p].key
           IN  /\ k \in Keys /\ disk' \in Disks /\ disk'.rec = disk.rec /\ disk'.drops = disk.drops
               /\ schema' = schema /\ durable' = durable /\ entries[p] \in Rows
               /\ disk'.data = [disk.data EXCEPT ![k] = IF idx[p] = None THEN entries[p] ELSE Ptr]
               /\ idx[p] = None => disk'.entry = disk.entry
               /\ idx[p] # None => disk'.entry = [disk.entry EXCEPT ![k][idx[p]] = entries[p]]
               /\ Finish(p, Ok)
<1>1. /\ req[p].key \in Keys /\ entries[p] \in Rows /\ idx[p] \in ColIds \cup {None} /\ disk \in Disks
      /\ Finish(p, Ok) /\ UNCHANGED <<schema, durable>>
  BY Here DEF Commit, PutPlaces, TypeInv
<1>2. CASE idx[p] = None
  <2>1. disk' = [disk EXCEPT !.data[req[p].key] = entries[p]]
    BY <1>2 DEF Commit
  <2>2. QED
    BY <1>1, <1>2, <2>1 DEF Disks
<1>3. CASE idx[p] # None
  <2>1. disk' = [disk EXCEPT !.data[req[p].key] = Ptr, !.entry[req[p].key][idx[p]] = entries[p]]
    BY <1>3 DEF Commit
  <2>2. QED
    BY <1>1, <1>3, <2>1 DEF Disks
<1>4. QED
  BY <1>2, <1>3

\* The steps that touch nothing but what a goroutine has.
Touches(p) ==
    \/ PrepareFast(p) \/ PrepareMiss(p) \/ PrepareLock(p) \/ PersistFails(p) \/ LockRow(p)
    \/ Snapshot(p) \/ CommitFails(p) \/ RegisterLock(p) \/ Drain(p) \/ DropLock(p)
    \/ GetData(p) \/ GetSnapshot(p) \/ GetEntry(p) \/ GetDecode(p)

LEMMA Touched ==
    ASSUME TypeInv, NEW p \in Procs, Touches(p)
    PROVE  Locals' /\ UNCHANGED <<schema, disk, durable>>
<1> USE DEF PutPlaces, GetPlaces, RegPlaces, DropPlaces
<1>1. CASE PrepareFast(p)
  <2>1. /\ Encode(schema, req[p].names) \in Rows
        /\ entries' = [entries EXCEPT ![p] = Encode(schema, req[p].names)]
    BY <1>1, Here, Encoded DEF PrepareFast, TypeInv
  <2>2. Locals /\ UNCHANGED <<lock, smu, req, ret, idx>>
    BY <1>1, Here DEF PrepareFast
  <2>3. /\ AfterPrepare \in Places /\ AfterPrepare \in {"snapshot", "lock"} /\ req[p] \in PutReqs
        /\ Go(p, AfterPrepare)
    BY <1>1, Here DEF PrepareFast, AfterPrepare, Places
  <2>4. Locals'
    BY <2>1, <2>2, <2>3, GoesWithRow
  <2>5. QED
    BY <1>1, <2>4 DEF PrepareFast
<1>2. CASE PrepareMiss(p)
  BY <1>2, Here, GoesOn DEF PrepareMiss, Stay, Places, Locals
<1>3. CASE PrepareLock(p)
  BY <1>3, Here, GoesOn DEF PrepareLock, Places, Locals
<1>4. CASE PersistFails(p)
  BY <1>4, Here, Finishes DEF PersistFails, Outcomes
<1>5. CASE LockRow(p)
  <2>1. lock' \in [Keys -> Procs \cup {None}]
    BY <1>5 DEF LockRow, TypeInv
  <2>2. QED
    BY <1>5, <2>1, Here, GoesOn DEF LockRow, Places, Locals
<1>6. CASE Snapshot(p)
  <2>1. CASE Finish(p, Err)
    BY <1>6, <2>1, Here, Finishes DEF Snapshot, Outcomes
  <2>2. CASE ~Finish(p, Err)
    <3>1. /\ idx' = [idx EXCEPT ![p] = IndexedId(schema)] /\ Go(p, "commit")
          /\ UNCHANGED <<lock, smu, req, ret, entries, schema, disk, durable>>
      BY <1>6, <2>2 DEF Snapshot
    <3>2. /\ Locals /\ IndexedId(schema) \in ColIds \cup {None} /\ "commit" \in Places /\ req[p] \in PutReqs
          /\ entries[p] \in Rows
      BY <1>6, Here DEF Snapshot, Places
    <3>3. /\ idx' \in [Procs -> ColIds \cup {None}] /\ \A q \in Procs \ {p} : idx'[q] = idx[q]
          /\ lock' \in [Keys -> Procs \cup {None}] /\ smu' \in Procs \cup {None}
          /\ entries' \in [Procs -> Rows \cup {Ptr}] /\ entries' = entries
      BY <3>1, <3>2 DEF Locals
    <3>4. Locals'
      BY <3>1, <3>2, <3>3, Goes
    <3>5. QED
      BY <3>1, <3>4
  <2>3. QED
    BY <2>1, <2>2
<1>7. CASE CommitFails(p)
  BY <1>7, Here, Finishes DEF CommitFails, Outcomes
<1>8. CASE RegisterLock(p)
  BY <1>8, Here, GoesOn DEF RegisterLock, Places, Locals
<1>9. CASE Drain(p)
  <2>1. PICK k \in Keys : /\ lock' = [lock EXCEPT ![k] = p]
                          /\ Go(p, IF \A j \in Keys : j <= k THEN "droplock" ELSE "drain")
    BY <1>9 DEF Drain
  <2>2. lock' \in [Keys -> Procs \cup {None}]
    BY <2>1 DEF TypeInv
  <2>3. QED
    BY <1>9, <2>1, <2>2, Here, GoesOn DEF Drain, Places, Locals
<1>10. CASE DropLock(p)
  <2>1. CASE Finish(p, Ok)
    BY <1>10, <2>1, Here, Finishes DEF DropLock, Outcomes
  <2>2. CASE ~Finish(p, Ok)
    BY <1>10, <2>2, Here, GoesOn DEF DropLock, Places, Locals
  <2>3. QED
    BY <2>1, <2>2
<1>11. CASE GetData(p)
  <2>1. disk.data[req[p].key] \in Rows \cup {Ptr, None}
    BY <1>11, Here DEF GetData, TypeInv, Disks
  <2>2. CASE Finish(p, None)
    BY <1>11, <2>2, Here, Finishes DEF GetData, Outcomes
  <2>3. CASE ~Finish(p, None)
    <3>1. /\ disk.data[req[p].key] # None
          /\ entries' = [entries EXCEPT ![p] = disk.data[req[p].key]] /\ Go(p, "getsnap")
          /\ UNCHANGED <<lock, smu, req, ret, idx, schema, disk, durable>>
      BY <1>11, <2>3 DEF GetData
    <3>2. Locals /\ req[p] \in GetReqs /\ "getsnap" \in Places
      BY <1>11, Here DEF GetData, Places
    <3>3. disk.data[req[p].key] \in Rows \cup {Ptr}
      BY <2>1, <3>1
    <3>4. Locals'
      BY <3>1, <3>2, <3>3, GoesWithRow
    <3>5. QED
      BY <3>1, <3>4
  <2>4. QED
    BY <2>2, <2>3
<1>12. CASE GetSnapshot(p)
  <2>1. req[p] \in GetReqs /\ Locals /\ IndexedId(schema) \in ColIds \cup {None}
    BY <1>12, Here DEF GetSnapshot
  <2>2. CASE Finish(p, Corrupt)
    BY <1>12, <2>1, <2>2, Finishes DEF GetSnapshot, Outcomes
  <2>3. CASE IndexedId(schema) # None /\ idx' = [idx EXCEPT ![p] = IndexedId(schema)] /\ Go(p, "getentry")
             /\ UNCHANGED <<lock, smu, req, ret, entries>>
    <3>1. /\ idx' \in [Procs -> ColIds \cup {None}] /\ \A q \in Procs \ {p} : idx'[q] = idx[q]
          /\ lock' \in [Keys -> Procs \cup {None}] /\ smu' \in Procs \cup {None}
          /\ entries' \in [Procs -> Rows \cup {Ptr}] /\ idx'[p] # None /\ "getentry" \in Places
      BY <2>1, <2>3 DEF Locals, Places
    <3>2. Locals'
      BY <2>1, <2>3, <3>1, Goes
    <3>3. QED
      BY <1>12, <3>2 DEF GetSnapshot
  <2>4. CASE /\ entries' = [entries EXCEPT ![p] = IF @ = Ptr THEN Empty ELSE @]
             /\ Go(p, "decode") /\ UNCHANGED <<lock, smu, req, ret, idx>>
    <3> DEFINE row == IF entries[p] = Ptr THEN Empty ELSE entries[p]
    <3>1. row \in Rows /\ entries' = [entries EXCEPT ![p] = row]
      BY <2>1, <2>4, RowFacts DEF Locals
    <3> HIDE DEF row
    <3>2. /\ Locals /\ req[p] \in GetReqs /\ "decode" \in Places
          /\ Go(p, "decode") /\ UNCHANGED <<lock, smu, req, ret, idx>>
      BY <2>1, <2>4 DEF Places
    <3>3. Locals'
      BY <3>1, <3>2, GoesWithRow
    <3>4. QED
      BY <1>12, <3>3 DEF GetSnapshot
  <2>5. QED
    BY <1>12, <2>2, <2>3, <2>4 DEF GetSnapshot
<1>13. CASE GetEntry(p)
  <2> DEFINE v == disk.entry[req[p].key][idx[p]]
  <2>1. v \in Rows \cup {None} /\ req[p] \in GetReqs /\ Locals /\ idx[p] \in ColIds
    BY <1>13, Here DEF GetEntry, TypeInv, Disks
  <2>2. CASE Finish(p, None)
    BY <1>13, <2>1, <2>2, Finishes DEF GetEntry, Outcomes
  <2>3. CASE ~Finish(p, None)
    <3>1. /\ v # None /\ entries' = [entries EXCEPT ![p] = v] /\ Go(p, "decode")
          /\ UNCHANGED <<lock, smu, req, ret, idx, schema, disk, durable>>
      BY <1>13, <2>3 DEF GetEntry
    <3>2. v \in Rows /\ "decode" \in Places
      BY <2>1, <3>1 DEF Places
    <3> HIDE DEF v
    <3>3. Locals'
      BY <2>1, <3>1, <3>2, GoesWithRow
    <3>4. QED
      BY <3>1, <3>3
  <2>4. QED
    BY <2>2, <2>3
<1>14. CASE GetDecode(p)
  <2>1. [row |-> Decode(schema, entries[p])] \in Outcomes
    BY <1>14, Here, Decoded DEF GetDecode, Outcomes
  <2>2. QED
    BY <1>14, <2>1, Here, Finishes DEF GetDecode
<1>15. QED
  BY <1>1, <1>2, <1>3, <1>4, <1>5, <1>6, <1>7, <1>8, <1>9, <1>10, <1>11, <1>12, <1>13, <1>14
     DEF Touches

\* Every step keeps the types.
LEMMA TypeStep == TypeInv /\ [Next]_vars => TypeInv'
<1> SUFFICES ASSUME TypeInv, [Next]_vars PROVE TypeInv'
  OBVIOUS
<1> USE DEF PutPlaces, GetPlaces, RegPlaces, DropPlaces
<1>1. assumeNew' = assumeNew
  BY DEF Next, vars
<1>2. ASSUME Locals', schema' = disk'.rec, disk' \in Disks, durable' \in Disks,
             SchemaOK(disk'.rec), SchemaOK(durable'.rec)
      PROVE  TypeInv'
  BY <1>1, <1>2 DEF TypeInv, Locals, Places, Outcomes
<1>3. ASSUME NEW p \in Procs, NEW r \in Requests, Call(p, r) PROVE TypeInv'
  BY <1>2, <1>3, Called DEF Call, TypeInv
<1>4. ASSUME NEW p \in Procs, Touches(p) PROVE TypeInv'
  BY <1>2, <1>4, Touched DEF TypeInv
<1>5. ASSUME NEW p \in Procs, Persist(p) PROVE TypeInv'
  <2>1. /\ Go(p, AfterPrepare) /\ UNCHANGED <<req, ret, lock, idx>> /\ smu' = None
        /\ entries' = [entries EXCEPT ![p] = Encode(schema', req[p].names)]
        /\ Encode(schema', req[p].names) \in Rows /\ durable' = durable
        /\ schema' = disk'.rec /\ disk' \in Disks /\ SchemaOK(schema')
    BY <1>5, Persisted
  <2>2. Locals /\ AfterPrepare \in {"snapshot", "lock"} /\ AfterPrepare \in Places /\ req[p] \in PutReqs
    BY <1>5, Here DEF Persist, AfterPrepare, Places
  <2> DEFINE row == Encode(schema', req[p].names)
  <2> HIDE DEF row
  <2>3. row \in Rows /\ entries' = [entries EXCEPT ![p] = row]
    BY <2>1 DEF row
  <2>4. /\ entries' \in [Procs -> Rows \cup {Ptr}] /\ \A q \in Procs \ {p} : entries'[q] = entries[q]
        /\ entries'[p] \in Rows /\ idx' \in [Procs -> ColIds \cup {None}] /\ idx' = idx
        /\ lock' \in [Keys -> Procs \cup {None}] /\ smu' \in Procs \cup {None}
    BY <2>1, <2>2, <2>3 DEF Locals
  <2>5. Locals'
    BY <2>1, <2>2, <2>4, Goes
  <2>6. QED
    BY <1>2, <2>1, <2>5 DEF TypeInv
<1>6. ASSUME NEW p \in Procs, Register(p) PROVE TypeInv'
  <2>1. Locals'
    BY <1>6, Registered, LocalsAre, Finishes DEF Outcomes
  <2>2. QED
    BY <1>2, <1>6, <2>1, Registered DEF TypeInv
<1>7. ASSUME NEW p \in Procs, DropColumn(p) PROVE TypeInv'
  <2>1. Locals'
    BY <1>7, Dropped, LocalsAre, Finishes DEF Outcomes
  <2>2. QED
    BY <1>2, <1>7, <2>1, Dropped DEF TypeInv
<1>8. ASSUME NEW p \in Procs, Commit(p) PROVE TypeInv'
  <2>1. Locals'
    BY <1>8, Committed, LocalsAre, Finishes DEF Outcomes
  <2>2. QED
    BY <1>2, <1>8, <2>1, Committed DEF TypeInv
<1>9. CASE Flush
  <2>1. Locals'
    BY <1>9, LocalsAre DEF Flush, Locals, Fits
  <2>2. QED
    BY <1>2, <1>9, <2>1 DEF Flush, TypeInv
<1>10. CASE Crash
  <2>1. Locals'
    BY <1>10, RowFacts DEF Crash, Locals, Fits, Places, Outcomes
  <2>2. QED
    BY <1>2, <1>10, <2>1 DEF Crash, TypeInv
<1>11. CASE UNCHANGED vars
  <2>1. Locals'
    BY <1>11, LocalsAre DEF vars, Locals, Fits
  <2>2. QED
    BY <1>2, <1>11, <2>1 DEF vars, TypeInv
<1>12. QED
  BY <1>3, <1>4, <1>5, <1>6, <1>7, <1>8, <1>9, <1>10, <1>11 DEF Next, Step, Touches

-----------------------------------------------------------------------------
(*                       Rows that tell the truth                          *)

LEMMA TellInit == Init => TellInv
<1> SUFFICES ASSUME Init PROVE TellInv
  OBVIOUS
<1>1. /\ \A k \in Keys : disk.data[k] = None /\ \A c \in ColIds : disk.entry[k][c] = None
      /\ durable = disk /\ \A p \in Procs : entries[p] = Empty
  BY DEF Init
<1>2. QED
  BY <1>1, RowFacts, EmptyTells DEF TellInv, DiskTells

\* A row taken from the disk, or from what p had, goes on telling the truth.
LEMMA TellTouched ==
    ASSUME TypeInv, TellInv, NEW p \in Procs, Touches(p)
    PROVE  TellInv'
<1>1. UNCHANGED <<schema, disk, durable>> /\ Locals'
  BY Touched
<1>2. ASSUME NEW q \in Procs, q # p PROVE entries'[q] = entries[q]
  BY <1>2 DEF Touches, PrepareFast, PrepareMiss, PrepareLock, PersistFails, LockRow, Snapshot, CommitFails,
     RegisterLock, Drain, DropLock, GetData, GetSnapshot, GetEntry, GetDecode, Stay, Finish, TypeInv
<1>3. \/ entries'[p] \in {entries[p], Empty}
      \/ PrepareFast(p) /\ entries'[p] = Encode(schema, req[p].names)
      \/ GetData(p) /\ entries'[p] = disk.data[req[p].key]
      \/ GetEntry(p) /\ entries'[p] = disk.entry[req[p].key][idx[p]]
  BY DEF Touches, PrepareFast, PrepareMiss, PrepareLock, PersistFails, LockRow, Snapshot, CommitFails,
     RegisterLock, Drain, DropLock, GetData, GetSnapshot, GetEntry, GetDecode, Stay, Finish, TypeInv
<1>4. entries'[p] \in Rows => Tells(schema, disk.drops, entries'[p])
  <2>1. CASE entries'[p] \in {entries[p], Empty}
    BY <2>1, EmptyTells DEF TellInv
  <2>2. CASE PrepareFast(p) /\ entries'[p] = Encode(schema, req[p].names)
    BY <2>2, Here, Encoded DEF PrepareFast, PutPlaces, TypeInv
  <2>3. CASE GetData(p) /\ entries'[p] = disk.data[req[p].key]
    <3>1. req[p].key \in Keys /\ schema = disk.rec
      BY <2>3, Here DEF GetData, GetPlaces, TypeInv
    <3>2. QED
      BY <2>3, <3>1 DEF TellInv, DiskTells
  <2>4. CASE GetEntry(p) /\ entries'[p] = disk.entry[req[p].key][idx[p]]
    <3>1. req[p].key \in Keys /\ idx[p] \in ColIds /\ schema = disk.rec
      BY <2>4, Here DEF GetEntry, GetPlaces, TypeInv
    <3>2. QED
      BY <2>4, <3>1 DEF TellInv, DiskTells
  <2>5. QED
    BY <1>3, <2>1, <2>2, <2>3, <2>4
<1>5. QED
  BY <1>1, <1>2, <1>4 DEF TellInv

\* What a finished call leaves in hand.
LEMMA HandEmptied ==
    ASSUME Locals, NEW p \in Procs, NEW out, Finish(p, out)
    PROVE  entries'[p] = Empty /\ \A q \in Procs \ {p} : entries'[q] = entries[q]
  BY DEF Locals, Finish

\* Columns that are added disturb no row.
LEMMA TellGrows ==
    ASSUME TypeInv, TellInv, SchemaOK(schema'), schema' = disk'.rec, durable' = durable,
           Grows(schema, schema'), disk'.data = disk.data, disk'.entry = disk.entry,
           disk'.drops = disk.drops,
           \A p \in Procs : entries'[p] = entries[p] \/ Tells(schema', disk.drops, entries'[p])
    PROVE  TellInv'
<1>1. SchemaOK(schema) /\ schema = disk.rec
  BY DEF TypeInv
<1>2. \A row \in Rows : Tells(schema, disk.drops, row) => Tells(schema', disk.drops, row)
  BY <1>1, TellsOn
<1>3. DiskTells(disk')
  BY <1>1, <1>2 DEF TellInv, DiskTells
<1>4. QED
  BY <1>2, <1>3 DEF TellInv

LEMMA TellStep == TypeInv /\ TellInv /\ [Next]_vars => TellInv'
<1> SUFFICES ASSUME TypeInv, TellInv, [Next]_vars PROVE TellInv'
  OBVIOUS
<1>1. Locals /\ schema = disk.rec /\ SchemaOK(schema)
  BY LocalsAre DEF TypeInv
<1>2. ASSUME NEW p \in Procs, NEW r \in Requests, Call(p, r) PROVE TellInv'
  BY <1>2 DEF Call, TellInv
<1>3. ASSUME NEW p \in Procs, Touches(p) PROVE TellInv'
  BY <1>3, TellTouched
<1>4. ASSUME NEW p \in Procs, Persist(p) PROVE TellInv'
  <2>1. \A q \in Procs : entries'[q] = entries[q] \/ Tells(schema', disk.drops, entries'[q])
    <3>1. /\ entries' = [entries EXCEPT ![p] = Encode(schema', req[p].names)]
          /\ Tells(schema', disk.drops, Encode(schema', req[p].names))
      BY <1>4, Persisted
    <3>2. QED
      BY <1>1, <3>1 DEF Locals
  <2>2. QED
    BY <1>4, <2>1, Persisted, TellGrows
<1>5. ASSUME NEW p \in Procs, Register(p) PROVE TellInv'
  <2>1. \A q \in Procs : entries'[q] = entries[q] \/ entries'[q] = Empty
    BY <1>1, <1>5, Registered, HandEmptied
  <2>2. \A q \in Procs : entries'[q] = entries[q] \/ Tells(schema', disk.drops, entries'[q])
    BY <2>1, EmptyTells
  <2>3. QED
    BY <1>5, <2>2, Registered, TellGrows
<1>6. ASSUME NEW p \in Procs, DropColumn(p) PROVE TellInv'
  <2> DEFINE n == req[p].name
  <2>1. /\ n \in Names /\ schema' = disk'.rec /\ SchemaOK(schema') /\ durable' = durable
        /\ schema'.next = schema.next /\ schema'.cols = [schema.cols EXCEPT ![n] = None]
        /\ disk'.data = disk.data /\ disk'.drops = [disk.drops EXCEPT ![n] = @ + 1]
        /\ \A k \in Keys, b \in ColIds : disk'.entry[k][b] \in {None, disk.entry[k][b]}
        /\ Finish(p, Ok)
    BY <1>6, Dropped
  <2> HIDE DEF n
  <2>2. disk.drops \in [Names -> Nat]
    BY DEF TypeInv, Disks
  <2>3. \A row \in Rows : Tells(schema, disk.drops, row) => Tells(schema', disk'.drops, row)
    BY <1>1, <2>1, <2>2, TellsOff
  <2>4. DiskTells(disk')
    BY <1>1, <2>1, <2>3, RowFacts DEF TellInv, DiskTells
  <2>5. \A q \in Procs : entries'[q] = entries[q] \/ entries'[q] = Empty
    BY <1>1, <2>1, HandEmptied
  <2>6. QED
    BY <2>1, <2>3, <2>4, <2>5, EmptyTells DEF TellInv
<1>7. ASSUME NEW p \in Procs, Commit(p) PROVE TellInv'
  <2> DEFINE k == req[p].key
  <2>1. /\ k \in Keys /\ disk'.rec = disk.rec /\ disk'.drops = disk.drops /\ schema' = schema
        /\ durable' = durable /\ entries[p] \in Rows
        /\ disk'.data = [disk.data EXCEPT ![k] = IF idx[p] = None THEN entries[p] ELSE Ptr]
        /\ idx[p] = None => disk'.entry = disk.entry
        /\ idx[p] # None => disk'.entry = [disk.entry EXCEPT ![k][idx[p]] = entries[p]]
        /\ Finish(p, Ok)
    BY <1>7, Committed
  <2> HIDE DEF k
  <2>2. disk.data \in [Keys -> Rows \cup {None, Ptr}] /\ disk.entry \in [Keys -> [ColIds -> Rows \cup {None}]]
    BY DEF TypeInv, Disks
  <2>3. Tells(schema, disk.drops, entries[p])
    BY <2>1 DEF TellInv
  <2>4. \A j \in Keys : disk'.data[j] \in {disk.data[j], entries[p], Ptr}
    BY <2>1, <2>2
  <2>5. \A j \in Keys, c \in ColIds : disk'.entry[j][c] \in {disk.entry[j][c], entries[p]}
    BY <2>1, <2>2
  <2>6. DiskTells(disk')
    BY <1>1, <2>1, <2>3, <2>4, <2>5, RowFacts DEF TellInv, DiskTells
  <2>7. \A q \in Procs : entries'[q] = entries[q] \/ entries'[q] = Empty
    BY <1>1, <2>1, HandEmptied
  <2>8. QED
    BY <2>1, <2>6, <2>7, EmptyTells DEF TellInv
<1>8. CASE Flush
  BY <1>8 DEF Flush, TellInv
<1>9. CASE Crash
  <2>1. \A p \in Procs : entries'[p] = Empty
    BY <1>9 DEF Crash
  <2>2. QED
    BY <1>9, <2>1, EmptyTells DEF Crash, TellInv
<1>10. CASE UNCHANGED vars
  BY <1>10 DEF vars, TellInv
<1>11. QED
  BY <1>2, <1>3, <1>4, <1>5, <1>6, <1>7, <1>8, <1>9, <1>10 DEF Next, Step, Touches

-----------------------------------------------------------------------------
(*                            Readable rows                                *)

LEMMA ReadInit == Init => ReadInv
<1> SUFFICES ASSUME Init PROVE ReadInv
  OBVIOUS
<1>1. /\ disk.rec = FirstSchema /\ durable = disk /\ \A k \in Keys : disk.data[k] = None
      /\ \A p \in Procs : ret[p] = Pending /\ pc[p] = "idle"
  BY DEF Init
<1>2. FirstIndexed # None => FirstSchema.index = FirstIndexed /\ FirstSchema.cols[FirstIndexed] = 0
  BY SchemaAssumption DEF FirstSchema
<1>3. QED
  BY <1>1, <1>2, RowFacts DEF ReadInv, Readable, Kept

\* The index of a set that has kept its first column.
LEMMA KeptIndex ==
    ASSUME TypeInv, ReadInv, Kept(disk)
    PROVE  IndexedId(schema) = 0 /\ schema.index = FirstIndexed /\ FirstIndexed \in Names
  BY SchemaAssumption DEF TypeInv, ReadInv, Readable, Kept, IndexedId

\* What a finished call leaves of p.
LEMMA Finished ==
    ASSUME Locals, NEW p \in Procs, NEW out, Finish(p, out)
    PROVE  /\ pc'[p] = "idle" /\ ret'[p] = out
           /\ \A q \in Procs \ {p} : /\ pc'[q] = pc[q] /\ ret'[q] = ret[q] /\ idx'[q] = idx[q]
                                     /\ entries'[q] = entries[q] /\ req'[q] = req[q]
  BY DEF Locals, Finish, Go

LEMMA ReadTouched ==
    ASSUME TypeInv, ReadInv, NEW p \in Procs, Touches(p)
    PROVE  ReadInv'
<1>1. UNCHANGED <<schema, disk, durable>> /\ Locals'
  BY Touched
<1> SUFFICES ASSUME Kept(disk)
             PROVE  \A q \in Procs : /\ ret'[q] # Corrupt
                                     /\ pc'[q] = "commit" => idx'[q] = 0
                                     /\ pc'[q] = "getsnap" => entries'[q] = Ptr
  BY <1>1 DEF ReadInv
<1>2. ASSUME NEW q \in Procs, q # p
      PROVE  ret'[q] = ret[q] /\ pc'[q] = pc[q] /\ idx'[q] = idx[q] /\ entries'[q] = entries[q]
  BY <1>2 DEF Touches, PrepareFast, PrepareMiss, PrepareLock, PersistFails, LockRow, Snapshot, CommitFails,
     RegisterLock, Drain, DropLock, GetData, GetSnapshot, GetEntry, GetDecode, Stay, Finish, Go, TypeInv
<1>3. ret'[p] # Corrupt
  <2>1. CASE GetSnapshot(p) /\ Finish(p, Corrupt)
    <3>1. entries[p] = Ptr
      BY <2>1 DEF GetSnapshot, ReadInv
    <3>2. IndexedId(schema) # None
      BY KeptIndex, RowFacts
    <3>3. UNCHANGED req /\ pc'[p] = "idle"
      BY <2>1 DEF Finish, Go, TypeInv
    <3>4. FALSE
      BY <2>1, <3>1, <3>2, <3>3 DEF GetSnapshot, Go, TypeInv
    <3>5. QED
      BY <3>4
  <2>2. CASE GetDecode(p)
    <3>1. ret'[p] = [row |-> Decode(schema, entries[p])]
      BY <2>2 DEF GetDecode, Finish, TypeInv
    <3>2. Decode(schema, entries[p]) \in Shown
      BY <2>2, Here, Decoded DEF GetDecode
    <3>3. QED
      BY <3>1, <3>2, RowFacts
  <2>3. CASE ~(GetSnapshot(p) /\ Finish(p, Corrupt)) /\ ~GetDecode(p)
    <3>1. ret'[p] \in {ret[p], None, Ok, Err}
      BY <2>3 DEF Touches, PrepareFast, PrepareMiss, PrepareLock, PersistFails, LockRow, Snapshot, CommitFails,
         RegisterLock, Drain, DropLock, GetData, GetSnapshot, GetEntry, Stay, Finish, TypeInv
    <3>2. QED
      BY <3>1, RowFacts DEF ReadInv
  <2>4. QED
    BY <2>1, <2>2, <2>3
<1>4. pc'[p] = "commit" => idx'[p] = 0
  <2>1. pc'[p] = "commit" => Snapshot(p) /\ idx'[p] = IndexedId(schema)
    BY DEF Touches, PrepareFast, PrepareMiss, PrepareLock, PersistFails, LockRow, Snapshot, CommitFails,
       RegisterLock, Drain, DropLock, GetData, GetSnapshot, GetEntry, GetDecode, Stay, Finish, Go, TypeInv,
       AfterPrepare
  <2>2. QED
    BY <2>1, KeptIndex
<1>5. pc'[p] = "getsnap" => entries'[p] = Ptr
  <2>1. pc'[p] = "getsnap" =>
           /\ GetData(p) /\ disk.data[req[p].key] # None /\ entries'[p] = disk.data[req[p].key]
    BY DEF Touches, PrepareFast, PrepareMiss, PrepareLock, PersistFails, LockRow, Snapshot, CommitFails,
       RegisterLock, Drain, DropLock, GetData, GetSnapshot, GetEntry, GetDecode, Stay, Finish, Go, TypeInv,
       AfterPrepare
  <2>2. GetData(p) => req[p].key \in Keys
    BY Here DEF GetData, GetPlaces
  <2>3. QED
    BY <2>1, <2>2 DEF ReadInv, Readable
<1>6. QED
  BY <1>2, <1>3, <1>4, <1>5 DEF ReadInv

LEMMA ReadStep == TypeInv /\ ReadInv /\ [Next]_vars => ReadInv'
<1> SUFFICES ASSUME TypeInv, ReadInv, [Next]_vars PROVE ReadInv'
  OBVIOUS
<1>1. Locals /\ schema = disk.rec /\ SchemaOK(schema) /\ disk \in Disks
  BY LocalsAre DEF TypeInv
<1>2. ASSUME NEW p \in Procs, NEW r \in Requests, Call(p, r) PROVE ReadInv'
  <2>1. /\ UNCHANGED <<disk, durable, entries, idx>>
        /\ \A q \in Procs : ret'[q] \in {ret[q], Pending} /\ (pc'[q] = pc[q] \/ pc'[q] \notin {"commit", "getsnap"})
    <3>1. r.op \in {"put", "get", "register", "drop"}
      BY SchemaAssumption
    <3>2. QED
      BY <1>1, <1>2, <3>1 DEF Call, Go, Locals
  <2>2. QED
    BY <2>1, RowFacts DEF ReadInv
<1>3. ASSUME NEW p \in Procs, Touches(p) PROVE ReadInv'
  BY <1>3, ReadTouched
<1>4. ASSUME NEW p \in Procs, Persist(p) PROVE ReadInv'
  <2>1. /\ schema' = disk'.rec /\ durable' = durable /\ Grows(schema, schema')
        /\ schema'.index = schema.index /\ UNCHANGED <<ret, idx>> /\ Go(p, AfterPrepare)
        /\ disk'.data = disk.data /\ disk'.entry = disk.entry /\ disk'.drops = disk.drops
        /\ entries' = [entries EXCEPT ![p] = Encode(schema', req[p].names)]
    BY <1>4, Persisted
  <2>2. Readable(disk')
    BY <1>1, <2>1, RowFacts, SchemaAssumption DEF ReadInv, Readable, Kept, Grows
  <2>3. \A q \in Procs : \/ pc'[q] = pc[q] /\ entries'[q] = entries[q]
                         \/ pc'[q] \in {"snapshot", "lock"}
    BY <1>1, <2>1 DEF Locals, Go, AfterPrepare
  <2>4. QED
    BY <2>1, <2>2, <2>3 DEF ReadInv, Kept
<1>5. ASSUME NEW p \in Procs, Register(p) PROVE ReadInv'
  <2>1. /\ schema' = disk'.rec /\ durable' = durable /\ Grows(schema, schema')
        /\ schema.index # None => schema'.index = schema.index
        /\ disk'.data = disk.data /\ disk'.entry = disk.entry /\ disk'.drops = disk.drops
        /\ Finish(p, Ok) \/ Finish(p, Err)
    BY <1>5, Registered
  <2>2. Readable(disk')
    BY <1>1, <2>1, RowFacts, SchemaAssumption DEF ReadInv, Readable, Kept, Grows
  <2>3. QED
    BY <1>1, <2>1, <2>2, Finished, RowFacts DEF ReadInv, Kept
<1>6. ASSUME NEW p \in Procs, DropColumn(p) PROVE ReadInv'
  <2> DEFINE n == req[p].name
  <2>1. /\ n \in Names /\ schema' = disk'.rec /\ durable' = durable
        /\ schema'.cols = [schema.cols EXCEPT ![n] = None]
        /\ schema'.index = IF schema.index = n THEN None ELSE schema.index
        /\ disk'.data = disk.data /\ disk'.drops = [disk.drops EXCEPT ![n] = @ + 1]
        /\ \A k \in Keys, b \in ColIds :
              disk'.entry[k][b] = IF schema.index = n /\ b = schema.cols[n] THEN None
                                  ELSE disk.entry[k][b]
        /\ Finish(p, Ok)
    BY <1>6, Dropped
  <2> HIDE DEF n
  <2>2. disk.drops \in [Names -> Nat] /\ schema.cols \in [Names -> ColIds \cup {None}]
    BY <1>1 DEF Disks, SchemaOK, Schemas
  <2>3. Kept(disk') => Kept(disk) /\ n # FirstIndexed
    BY <2>1, <2>2, SchemaAssumption DEF Kept
  <2>4. Readable(disk')
    <3> SUFFICES ASSUME Kept(disk')
                 PROVE  /\ schema'.index = FirstIndexed /\ schema'.cols[FirstIndexed] = 0
                        /\ \A k \in Keys : \/ disk'.data[k] = None
                                           \/ (disk'.data[k] = Ptr /\ disk'.entry[k][0] # None)
      BY <2>1 DEF Readable
    <3>1. schema.index = FirstIndexed /\ schema.index # n /\ schema.cols[FirstIndexed] = 0 /\ FirstIndexed \in Names
      BY <1>1, <2>3, SchemaAssumption DEF ReadInv, Readable, Kept
    <3>2. \A k \in Keys : disk'.entry[k][0] = disk.entry[k][0]
      BY <2>1, <3>1, RowFacts
    <3>3. QED
      BY <2>1, <2>2, <2>3, <3>1, <3>2 DEF ReadInv, Readable
  <2>5. QED
    BY <1>1, <2>1, <2>3, <2>4, Finished, RowFacts DEF ReadInv
<1>7. ASSUME NEW p \in Procs, Commit(p) PROVE ReadInv'
  <2> DEFINE k == req[p].key
  <2>1. /\ k \in Keys /\ disk'.rec = disk.rec /\ disk'.drops = disk.drops
        /\ durable' = durable /\ entries[p] \in Rows
        /\ disk'.data = [disk.data EXCEPT ![k] = IF idx[p] = None THEN entries[p] ELSE Ptr]
        /\ idx[p] # None => disk'.entry = [disk.entry EXCEPT ![k][idx[p]] = entries[p]]
        /\ Finish(p, Ok)
    BY <1>7, Committed
  <2> HIDE DEF k
  <2>2. Readable(disk')
    <3> SUFFICES ASSUME Kept(disk)
                 PROVE  \A j \in Keys : \/ disk'.data[j] = None
                                        \/ (disk'.data[j] = Ptr /\ disk'.entry[j][0] # None)
      BY <2>1 DEF Readable, ReadInv, Kept
    <3>1. idx[p] = 0 /\ 0 # None
      BY <1>7, RowFacts DEF Commit, ReadInv
    <3>2. /\ disk'.data = [disk.data EXCEPT ![k] = Ptr]
          /\ disk'.entry = [disk.entry EXCEPT ![k][0] = entries[p]]
      BY <2>1, <3>1
    <3>3. disk.data \in [Keys -> Rows \cup {None, Ptr}] /\ disk.entry \in [Keys -> [ColIds -> Rows \cup {None}]]
      BY <1>1 DEF Disks
    <3>4. /\ disk'.data[k] = Ptr /\ disk'.entry[k][0] = entries[p]
          /\ \A j \in Keys \ {k} : disk'.data[j] = disk.data[j] /\ disk'.entry[j] = disk.entry[j]
      BY <2>1, <3>2, <3>3, RowFacts
    <3>5. QED
      BY <2>1, <3>4, RowFacts DEF ReadInv, Readable
  <2>3. QED
    BY <1>1, <2>1, <2>2, Finished, RowFacts DEF ReadInv, Kept
<1>8. CASE Flush
  BY <1>8 DEF Flush, ReadInv
<1>9. CASE Crash
  <2>1. \A p \in Procs : ret'[p] = Pending /\ pc'[p] = "idle"
    BY <1>9 DEF Crash
  <2>2. QED
    BY <1>9, <2>1, RowFacts DEF Crash, ReadInv
<1>10. CASE UNCHANGED vars
  BY <1>10 DEF vars, ReadInv
<1>11. QED
  BY <1>2, <1>3, <1>4, <1>5, <1>6, <1>7, <1>8, <1>9, <1>10 DEF Next, Step, Touches

-----------------------------------------------------------------------------
(*                               Row locks                                 *)

\* What LockInv says of a goroutine.
Holds(p) ==
    /\ pc[p] \in {"snapshot", "commit"} => lock[req[p].key] = p
    /\ pc[p] \in {"droplock", "dropcommit"} => \A k \in Keys : lock[k] = p
    /\ pc[p] = "commit" /\ idx[p] # None => idx[p] = IndexedId(schema)

LEMMA LockInvIs ==
    LockInv <=> (~assumeNew => OneIndex(disk) /\ OneIndex(durable) /\ \A p \in Procs : Holds(p))
  BY DEF LockInv, Holds

LEMMA LockInit == Init => LockInv
<1> SUFFICES ASSUME Init PROVE LockInv
  OBVIOUS
<1>1. /\ durable = disk /\ \A k \in Keys, c \in ColIds : disk.entry[k][c] = None
      /\ \A p \in Procs : pc[p] = "idle"
  BY DEF Init
<1>2. QED
  BY <1>1 DEF LockInv, OneIndex

\* Whoever does not step keeps what it holds, whatever another takes that was free, or gives back.
LEMMA HoldsOn ==
    ASSUME TypeInv, NEW p \in Procs, NEW q \in Procs \ {p}, Holds(q),
           pc'[q] = pc[q], req'[q] = req[q], idx'[q] = idx[q],
           \A k \in Keys : lock'[k] = lock[k] \/ (lock[k] = None) \/ (lock[k] = p),
           pc[q] = "commit" /\ idx[q] # None => IndexedId(schema') = IndexedId(schema)
    PROVE  Holds(q)'
<1>1. pc[q] \in {"snapshot", "commit"} => req[q].key \in Keys
  BY Here DEF PutPlaces
<1>2. \A k \in Keys : lock[k] = q => lock'[k] = q
  BY RowFacts
<1>3. QED
  BY <1>1, <1>2 DEF Holds

\* A finished call holds nothing, and took nothing from the others.
LEMMA Released ==
    ASSUME TypeInv, NEW p \in Procs, NEW out, Finish(p, out)
    PROVE  /\ Holds(p)' /\ \A k \in Keys : lock'[k] = lock[k] \/ lock[k] = p
           /\ \A q \in Procs \ {p} : pc'[q] = pc[q] /\ req'[q] = req[q] /\ idx'[q] = idx[q]
<1>1. pc'[p] = "idle" /\ \A k \in Keys : lock'[k] = lock[k] \/ lock[k] = p
  BY DEF Finish, Go, TypeInv
<1>2. QED
  BY <1>1, Finished, LocalsAre DEF Holds

LEMMA LockTouched ==
    ASSUME TypeInv, ~assumeNew, \A q \in Procs : Holds(q), NEW p \in Procs, Touches(p)
    PROVE  \A q \in Procs : Holds(q)'
<1>1. UNCHANGED <<schema, disk, durable>> /\ Locals'
  BY Touched
<1>2. /\ \A k \in Keys : lock'[k] = lock[k] \/ (lock[k] = None) \/ (lock[k] = p)
      /\ \A q \in Procs \ {p} : pc'[q] = pc[q] /\ req'[q] = req[q] /\ idx'[q] = idx[q]
  BY DEF Touches, PrepareFast, PrepareMiss, PrepareLock, PersistFails, LockRow, Snapshot, CommitFails,
     RegisterLock, Drain, DropLock, GetData, GetSnapshot, GetEntry, GetDecode, Stay, Finish, Go, TypeInv
<1>3. Holds(p)'
  <2>1. CASE LockRow(p)
    <3>1. req[p].key \in Keys
      BY <2>1, Here DEF LockRow, PutPlaces
    <3>2. lock'[req[p].key] = p /\ pc'[p] = "snapshot" /\ req' = req
      BY <2>1, <3>1 DEF LockRow, Go, TypeInv
    <3>3. QED
      BY <3>2 DEF Holds
  <2>2. CASE Snapshot(p)
    <3>1. \/ pc'[p] = "idle"
          \/ pc'[p] = "commit" /\ idx'[p] = IndexedId(schema) /\ UNCHANGED <<lock, req, schema>>
      BY <2>2 DEF Snapshot, Finish, Go, TypeInv
    <3>2. lock[req[p].key] = p
      BY <2>2 DEF Snapshot, Holds
    <3>3. QED
      BY <3>1, <3>2 DEF Holds, IndexedId
  <2>3. CASE Drain(p)
    <3>1. PICK k \in Keys : /\ lock[k] = None /\ \A j \in Keys : j < k => lock[j] = p
                            /\ lock' = [lock EXCEPT ![k] = p]
                            /\ Go(p, IF \A j \in Keys : j <= k THEN "droplock" ELSE "drain")
      BY <2>3 DEF Drain
    <3>2. pc'[p] = IF \A j \in Keys : j <= k THEN "droplock" ELSE "drain"
      BY <3>1 DEF Go, TypeInv
    <3>3. \A j \in Keys : (j <= k) => j < k \/ j = k
      BY SchemaAssumption
    <3>4. (\A j \in Keys : j <= k) => \A j \in Keys : lock'[j] = p
      BY <3>1, <3>3 DEF TypeInv
    <3>5. QED
      BY <3>2, <3>4 DEF Holds
  <2>4. CASE DropLock(p)
    <3>1. \/ pc'[p] = "idle"
          \/ pc'[p] = "dropcommit" /\ UNCHANGED lock
      BY <2>4 DEF DropLock, Finish, Go, TypeInv
    <3>2. \A k \in Keys : lock[k] = p
      BY <2>4 DEF DropLock, Holds
    <3>3. QED
      BY <3>1, <3>2 DEF Holds
  <2>5. CASE ~LockRow(p) /\ ~Snapshot(p) /\ ~Drain(p) /\ ~DropLock(p)
    <3>1. pc'[p] \notin {"snapshot", "commit", "droplock", "dropcommit"}
      BY <2>5 DEF Touches, PrepareFast, PrepareMiss, PrepareLock, PersistFails, CommitFails,
         RegisterLock, GetData, GetSnapshot, GetEntry, GetDecode, Stay, Finish, Go, TypeInv, AfterPrepare
    <3>2. QED
      BY <3>1 DEF Holds
  <2>6. QED
    BY <2>1, <2>2, <2>3, <2>4, <2>5
<1>4. ASSUME NEW q \in Procs, q # p PROVE Holds(q)'
  BY <1>1, <1>2, <1>4, HoldsOn
<1>5. QED
  BY <1>3, <1>4

LEMMA LockStep == TypeInv /\ LockInv /\ [Next]_vars => LockInv'
<1> SUFFICES ASSUME TypeInv, LockInv, [Next]_vars, ~assumeNew
             PROVE  OneIndex(disk)' /\ OneIndex(durable)' /\ \A p \in Procs : Holds(p)'
  BY LockInvIs DEF Next, vars, LockInv, Holds
<1>1. /\ OneIndex(disk) /\ OneIndex(durable) /\ \A p \in Procs : Holds(p)
  BY LockInvIs
<1>2. Locals /\ schema = disk.rec /\ SchemaOK(schema) /\ disk \in Disks
  BY LocalsAre DEF TypeInv
<1>3. ASSUME NEW p \in Procs, NEW r \in Requests, Call(p, r)
      PROVE  OneIndex(disk)' /\ OneIndex(durable)' /\ \A q \in Procs : Holds(q)'
  <2>1. /\ UNCHANGED <<schema, disk, durable, lock, idx>>
        /\ pc'[p] \notin {"snapshot", "commit", "droplock", "dropcommit"}
        /\ \A q \in Procs \ {p} : pc'[q] = pc[q] /\ req'[q] = req[q]
    <3>1. r.op \in {"put", "get", "register", "drop"}
      BY SchemaAssumption
    <3>2. QED
      BY <1>2, <1>3, <3>1 DEF Call, Go, Locals
  <2>2. QED
    BY <1>1, <2>1, HoldsOn DEF Holds, OneIndex
<1>4. ASSUME NEW p \in Procs, Touches(p)
      PROVE  OneIndex(disk)' /\ OneIndex(durable)' /\ \A q \in Procs : Holds(q)'
  BY <1>1, <1>4, LockTouched, Touched DEF OneIndex
<1>5. ASSUME NEW p \in Procs, Persist(p)
      PROVE  OneIndex(disk)' /\ OneIndex(durable)' /\ \A q \in Procs : Holds(q)'
  <2>1. /\ schema' = disk'.rec /\ durable' = durable /\ Grows(schema, schema')
        /\ schema'.index = schema.index /\ UNCHANGED <<lock, req, idx>> /\ Go(p, AfterPrepare)
        /\ disk'.entry = disk.entry
    BY <1>5, Persisted
  <2>2. IndexedId(schema') = IndexedId(schema)
    BY <1>2, <2>1 DEF IndexedId, Grows, SchemaOK, Schemas
  <2>3. pc'[p] = "lock" /\ \A q \in Procs \ {p} : pc'[q] = pc[q]
    BY <1>2, <2>1 DEF Go, AfterPrepare, Locals
  <2>4. \A q \in Procs : Holds(q)'
    BY <1>1, <2>1, <2>2, <2>3, HoldsOn DEF Holds
  <2>5. QED
    BY <1>1, <1>2, <2>1, <2>2, <2>4 DEF OneIndex
<1>6. ASSUME NEW p \in Procs, Register(p)
      PROVE  OneIndex(disk)' /\ OneIndex(durable)' /\ \A q \in Procs : Holds(q)'
  <2>1. /\ schema' = disk'.rec /\ durable' = durable /\ Grows(schema, schema')
        /\ schema.index # None => schema'.index = schema.index
        /\ disk'.entry = disk.entry /\ (Finish(p, Ok) \/ Finish(p, Err))
    BY <1>6, Registered
  <2>2. IndexedId(schema) # None => IndexedId(schema') = IndexedId(schema)
    BY <1>2, <2>1 DEF IndexedId, Grows, SchemaOK, Schemas
  <2>3. \A q \in Procs \ {p} : pc[q] = "commit" /\ idx[q] # None => IndexedId(schema') = IndexedId(schema)
    BY <1>1, <2>2 DEF Holds
  <2>4. /\ Holds(p)' /\ \A k \in Keys : lock'[k] = lock[k] \/ lock[k] = p
        /\ \A q \in Procs \ {p} : pc'[q] = pc[q] /\ req'[q] = req[q] /\ idx'[q] = idx[q]
    BY <2>1, Released
  <2>5. \A q \in Procs : Holds(q)'
    BY <1>1, <2>3, <2>4, HoldsOn
  <2>6. OneIndex(disk')
    <3>1. \A k \in Keys, c \in ColIds : disk.entry[k][c] # None => c = IndexedId(schema) /\ c # None
      BY <1>1, <1>2, RowFacts DEF OneIndex
    <3>2. QED
      BY <2>1, <2>2, <3>1 DEF OneIndex
  <2>7. QED
    BY <1>1, <2>1, <2>5, <2>6 DEF OneIndex
<1>7. ASSUME NEW p \in Procs, DropColumn(p)
      PROVE  OneIndex(disk)' /\ OneIndex(durable)' /\ \A q \in Procs : Holds(q)'
  <2> DEFINE n == req[p].name
  <2>1. /\ n \in Names /\ schema' = disk'.rec /\ durable' = durable
        /\ schema'.cols = [schema.cols EXCEPT ![n] = None]
        /\ schema'.index = IF schema.index = n THEN None ELSE schema.index
        /\ \A k \in Keys, b \in ColIds :
              disk'.entry[k][b] = IF schema.index = n /\ b = schema.cols[n] THEN None
                                  ELSE disk.entry[k][b]
        /\ Finish(p, Ok)
    BY <1>7, Dropped
  <2> HIDE DEF n
  <2>2. schema.index # n => IndexedId(schema') = IndexedId(schema)
    BY <1>2, <2>1 DEF IndexedId, SchemaOK, Schemas
  <2>3. schema.index = n => IndexedId(schema) = schema.cols[n]
    BY <2>1, RowFacts DEF IndexedId
  <2>4. OneIndex(disk')
    BY <1>1, <1>2, <2>1, <2>2, <2>3 DEF OneIndex
  <2>5. \A k \in Keys : lock[k] = p
    BY <1>1, <1>7 DEF DropColumn, Holds
  <2>6. \A q \in Procs \ {p} : pc[q] # "commit"
    <3> SUFFICES ASSUME NEW q \in Procs \ {p}, pc[q] = "commit" PROVE FALSE
      OBVIOUS
    <3>1. req[q].key \in Keys
      BY Here DEF PutPlaces
    <3>2. lock[req[q].key] = q
      BY <1>1 DEF Holds
    <3>3. QED
      BY <2>5, <3>1, <3>2
  <2>7. /\ Holds(p)' /\ \A k \in Keys : lock'[k] = lock[k] \/ lock[k] = p
        /\ \A q \in Procs \ {p} : pc'[q] = pc[q] /\ req'[q] = req[q] /\ idx'[q] = idx[q]
    BY <2>1, Released
  <2>8. \A q \in Procs : Holds(q)'
    BY <1>1, <2>6, <2>7, HoldsOn
  <2>9. QED
    BY <1>1, <2>1, <2>4, <2>8 DEF OneIndex
<1>8. ASSUME NEW p \in Procs, Commit(p)
      PROVE  OneIndex(disk)' /\ OneIndex(durable)' /\ \A q \in Procs : Holds(q)'
  <2> DEFINE k == req[p].key
  <2>1. /\ k \in Keys /\ disk'.rec = disk.rec /\ schema' = schema /\ durable' = durable
        /\ idx[p] = None => disk'.entry = disk.entry
        /\ idx[p] # None => disk'.entry = [disk.entry EXCEPT ![k][idx[p]] = entries[p]]
        /\ Finish(p, Ok)
    BY <1>8, Committed
  <2> HIDE DEF k
  <2>2. idx[p] # None => idx[p] = IndexedId(schema)
    BY <1>1, <1>8 DEF Commit, Holds
  <2>3. disk.entry \in [Keys -> [ColIds -> Rows \cup {None}]] /\ idx[p] \in ColIds \cup {None}
    BY <1>2 DEF Disks, Locals
  <2>4. \A j \in Keys, c \in ColIds : disk'.entry[j][c] # disk.entry[j][c] => c = IndexedId(schema)
    BY <2>1, <2>2, <2>3
  <2>5. OneIndex(disk')
    BY <1>1, <1>2, <2>1, <2>4 DEF OneIndex
  <2>6. /\ Holds(p)' /\ \A j \in Keys : lock'[j] = lock[j] \/ lock[j] = p
        /\ \A q \in Procs \ {p} : pc'[q] = pc[q] /\ req'[q] = req[q] /\ idx'[q] = idx[q]
    BY <2>1, Released
  <2>7. \A q \in Procs : Holds(q)'
    BY <1>1, <2>1, <2>6, HoldsOn
  <2>8. QED
    BY <1>1, <2>1, <2>5, <2>7 DEF OneIndex
<1>9. CASE Flush
  BY <1>1, <1>9 DEF Flush, Holds, OneIndex
<1>10. CASE Crash
  <2>1. \A p \in Procs : pc'[p] = "idle"
    BY <1>10 DEF Crash
  <2>2. QED
    BY <1>1, <1>10, <2>1 DEF Crash, Holds, OneIndex
<1>11. CASE UNCHANGED vars
  BY <1>1, <1>11 DEF vars, Holds, OneIndex
<1>12. QED
  BY <1>3, <1>4, <1>5, <1>6, <1>7, <1>8, <1>9, <1>10, <1>11 DEF Next, Step, Touches

-----------------------------------------------------------------------------
(*                              The theorems                               *)

\* The inductive invariant holds.
LEMMA Invariance == Spec => []IInv
<1>1. Init => IInv
  BY TypeInit, TellInit, ReadInit, LockInit DEF IInv
<1>2. IInv /\ [Next]_vars => IInv'
  BY TypeStep, TellStep, ReadStep, LockStep DEF IInv
<1>3. QED
  BY <1>1, <1>2, PTL DEF Spec

\* Whatever is written, dropped, added back, rolled back and lost in crashes, a value surfaces only
\* under the column it was written to; and memory has the schema of the disk.
THEOREM ValuesDoKeepTheirColumn == Spec => []ValuesKeepTheirColumn
<1>1. IInv => ValuesKeepTheirColumn
  <2> SUFFICES ASSUME IInv PROVE ValuesKeepTheirColumn
    OBVIOUS
  <2>1. TypeInv /\ TellInv /\ schema = disk.rec /\ SchemaOK(schema) /\ disk \in Disks
    BY DEF IInv, TypeInv
  <2>2. TypeOK
    BY <2>1 DEF TypeOK, TypeInv, IsSchema, SchemaOK, Schemas
  <2>3. ASSUME NEW row \in HeldRows PROVE row \in Rows /\ Tells(schema, disk.drops, row)
    BY <2>1, <2>3, RowFacts DEF HeldRows, TypeInv, TellInv, DiskTells, Disks
  <2>4. ASSUME NEW row \in HeldRows, NEW n \in DOMAIN Decode(schema, row)
        PROVE  Decode(schema, row)[n] = [name |-> n, drops |-> disk.drops[n]]
    <3>1. row \in Rows /\ Tells(schema, disk.drops, row)
      BY <2>3
    <3>2. /\ n \in Names /\ Decode(schema, row)[n] = row[schema.cols[n]]
          /\ schema.cols[n] \in DOMAIN row
      BY <2>1, <3>1, Decoded
    <3> DEFINE c == schema.cols[n]
    <3>3. row[c].name = n /\ row[c].drops = disk.drops[n]
      BY <3>1, <3>2 DEF Tells
    <3>4. row[c] \in Cells
      BY <3>1, <3>2, RowHas
    <3>5. QED
      BY <3>2, <3>3, <3>4 DEF Cells
  <2>5. QED
    BY <2>1, <2>2, <2>4 DEF ValuesKeepTheirColumn
<1>2. QED
  BY <1>1, Invariance, PTL

\* A set that keeps its indexed column keeps its rows readable, and none of its calls takes a row for
\* corrupt; with row locks no entry is left under a column that is not the indexed one.
THEOREM RowsAreReadable == Spec => []RowsReadable
<1>1. IInv => RowsReadable
  <2> SUFFICES ASSUME IInv PROVE RowsReadable
    OBVIOUS
  <2>1. TypeInv /\ ReadInv /\ schema = disk.rec /\ SchemaOK(schema) /\ disk \in Disks
    BY DEF IInv, TypeInv
  <2>2. ASSUME KeepsIndex, NEW k \in Keys, disk.data[k] # None
        PROVE  disk.data[k] = Ptr /\ View(k) \notin {None, Corrupt}
    <3>1. Kept(disk) /\ IndexedId(schema) = 0
      BY <2>1, <2>2, KeptIndex DEF KeepsIndex, Kept
    <3>2. disk.data[k] = Ptr /\ disk.entry[k][0] # None
      BY <2>1, <2>2, <3>1 DEF ReadInv, Readable
    <3>3. disk.entry[k][0] \in Rows
      BY <2>1, <3>2, RowFacts DEF Disks
    <3>4. View(k) = Decode(schema, disk.entry[k][0])
      BY <3>1, <3>2, RowFacts DEF View
    <3>5. View(k) \in Shown
      BY <2>1, <3>3, <3>4, Decoded
    <3>6. QED
      BY <3>2, <3>5, RowFacts
  <2>3. KeepsIndex => \A p \in Procs : ret[p] # Corrupt
    BY <2>1 DEF KeepsIndex, Kept, ReadInv
  <2>4. ~assumeNew => \A k \in Keys, c \in ColIds : disk.entry[k][c] # None => c = IndexedId(disk.rec)
    BY DEF IInv, LockInv, OneIndex
  <2>5. QED
    BY <2>2, <2>3, <2>4 DEF RowsReadable
<1>2. QED
  BY <1>1, Invariance, PTL

\* On such a set a Put that is acknowledged shows at once, with each value whose column is still there.
THEOREM PutsAreVisible == Spec => PutIsVisible
<1> DEFINE Shows == \A p \in Procs : KeepsIndex /\ Commit(p) =>
         \A c \in DOMAIN entries[p] :
             LET cell == entries[p][c]
                 row  == View(req[p].key)'
             IN  cell.drops = disk.drops[cell.name] =>
                    /\ row \notin {None, Corrupt} /\ cell.name \in DOMAIN row
                    /\ row[cell.name] = cell
<1>1. IInv /\ [Next]_vars => [Shows]_vars
  <2> SUFFICES ASSUME IInv, NEW p \in Procs, KeepsIndex, Commit(p), NEW c \in DOMAIN entries[p],
                      entries[p][c].drops = disk.drops[entries[p][c].name]
               PROVE  LET row == View(req[p].key)'
                      IN  /\ row \notin {None, Corrupt} /\ entries[p][c].name \in DOMAIN row
                          /\ row[entries[p][c].name] = entries[p][c]
    BY DEF Shows
  <2>1. TypeInv /\ TellInv /\ ReadInv /\ SchemaOK(schema) /\ disk \in Disks /\ idx[p] = 0 /\ 0 # None
    BY RowFacts DEF IInv, TypeInv, ReadInv, KeepsIndex, Kept, Commit
  <2>2. IndexedId(schema) = 0
    BY <2>1, KeptIndex DEF KeepsIndex, Kept
  <2>3. /\ schema' = schema /\ req' = req /\ entries[p] \in Rows /\ req[p].key \in Keys
        /\ disk'.data = [disk.data EXCEPT ![req[p].key] = Ptr]
        /\ disk'.entry = [disk.entry EXCEPT ![req[p].key][0] = entries[p]]
    BY <2>1, Committed DEF Finish
  <2>4. PICK k \in Keys : k = req[p].key
    BY <2>3
  <2>5. disk'.data[k] = Ptr /\ disk'.entry[k][0] = entries[p]
    BY <2>1, <2>3, <2>4, RowFacts DEF Disks
  <2>6. View(k)' = Decode(schema, entries[p])
    <3>1. IndexedId(schema)' = 0
      BY <2>2, <2>3 DEF IndexedId
    <3>2. View(k)' = Decode(schema', disk'.entry[k][0])
      BY <2>1, <2>3, <2>5, <3>1, RowFacts DEF View
    <3>3. QED
      BY <2>3, <2>5, <3>2
  <2>7. View(req[p].key)' = View(k)'
    BY <2>3, <2>4
  <2>8. /\ entries[p][c].name \in Names /\ schema.cols[entries[p][c].name] = c
    BY <2>1, <2>3, RowHas DEF TellInv, Tells
  <2>9. /\ Decode(schema, entries[p]) \in Shown
        /\ entries[p][c].name \in DOMAIN Decode(schema, entries[p])
        /\ Decode(schema, entries[p])[entries[p][c].name] = entries[p][c]
    BY <2>1, <2>3, <2>8, Decoded
  <2>10. QED
    BY <2>6, <2>7, <2>9, RowFacts
<1>2. QED
  BY <1>1, Invariance, PTL DEF Spec, PutIsVisible

=============================================================================
