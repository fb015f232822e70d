-------------------------- MODULE PutBatcher_proofs --------------------------
(***************************************************************************)
(* Proofs about the batcher, for every number of workers, shards, rows,    *)
(* sets, columns and types, and every batch and channel size: where each   *)
(* row is, how often a row is tried, and in which order and with which     *)
(* values the rows of a key are written.                                   *)
(***************************************************************************)
EXTENDS MCPutBatcher, TLAPS, FiniteSetTheorems, WellFoundedInduction

-----------------------------------------------------------------------------
(*                        The inductive invariant                          *)

Vals == [Cols -> Types \cup {None}]
Places == {"select", "prepare", "commit", "put", "coerce", "exit"}

\* What a shard's goroutine has at its place.
Fits(s) ==
    /\ Len(chan[s]) <= ChanCap
    /\ \A a \in Sets : Len(pending[s][a]) < FlushSize
    /\ flushing[s] \subseteq Waiting(s)
    /\ Len(hand[s]) <= FlushSize
    /\ pc[s] \in {"select", "exit"} => hand[s] = <<>>
    /\ pc[s] \in {"prepare", "put", "coerce"} => pos[s] <= Len(hand[s])
    /\ pc[s] = "commit" => hand[s] # <<>>
    /\ pc[s] \in {"put", "coerce"} => vals[s] \in Vals
    /\ pc[s] = "put" => tries[s] < MaxRetries

Own ==
    /\ chan \in [Shards -> Seq(Ids)] /\ pending \in [Shards -> [Sets -> Seq(Ids)]]
    /\ flushing \in [Shards -> SUBSET Sets] /\ hand \in [Shards -> Seq(Ids)]
    /\ pos \in [Shards -> 1..(FlushSize + 1)] /\ vals \in [Shards -> Vals \cup {None}]
    /\ tries \in [Shards -> 0..MaxRetries] /\ pc \in [Shards -> Places]

Common ==
    /\ route \in [Keys -> Shards] /\ todo \in [Workers -> Seq(Ids)]
    /\ closed \in {"no", "draining", "done"}
    /\ schema \in [Sets -> Vals] /\ table \in [Sets -> [Keys -> StoredRows \cup {None}]]
    /\ order \in Seq(Ids) /\ committed \subseteq Ids /\ failed \subseteq Ids /\ gaveUp \subseteq Ids

TypeInv == Own /\ Common /\ \A s \in Shards : Fits(s)

\* A shard that has exited has nothing left, and gets nothing any more.
ExitInv ==
    /\ closed # "no" => \A w \in Workers : todo[w] = <<>>
    /\ \A s \in Shards : pc[s] = "exit" => closed # "no" /\ chan[s] = <<>> /\ Waiting(s) = {}
    /\ closed = "done" => \A s \in Shards : pc[s] = "exit"

Distinct(q) == \A i, j \in DOMAIN q : q[i] = q[j] => i = j
Settled == committed \cup failed \cup gaveUp

\* A shard has a row once: in its channel, pending with its set, or in hand.
OneByOne(s) ==
    /\ Distinct(chan[s]) /\ Distinct(hand[s])
    /\ \A a \in Sets : /\ Distinct(pending[s][a])
                       /\ \A r \in Elems(pending[s][a]) : Row[r].set = a
                       /\ Elems(pending[s][a]) \cap (Elems(chan[s]) \cup Left(s)) = {}
    /\ Elems(chan[s]) \cap Left(s) = {}

\* Every row is where its way has led it: still to be submitted, with the shard of its key, or settled.
PlaceInv ==
    /\ \A v, w \in Workers : \A i \in DOMAIN todo[v], j \in DOMAIN todo[w] :
          todo[v][i] = todo[w][j] => v = w /\ i = j
    /\ \A w \in Workers : Elems(todo[w]) \cap Elems(order) = {}
    /\ \A s \in Shards : OneByOne(s)
    /\ \A s \in Shards : \A r \in Held(s) : route[Row[r].key] = s /\ r \in Elems(order) \ Settled
    /\ \A r \in Elems(order) : r \in Held(route[Row[r].key]) \cup Settled
    /\ Settled \subseteq Elems(order)
    /\ committed \cap failed = {} /\ committed \cap gaveUp = {} /\ failed \cap gaveUp = {}

\* The columns in which values v do not conflict with a's schema g any more: there is no value, or one
\* of the column's type, which is for good.
FixedBy(g, a, v) == {c \in Cols : v[c] = None \/ v[c] = g[a][c]}

\* Each try has fixed one column more: t tries were made for a row of set a with values v.
Tried(t, g, a, v, p) ==
    /\ p = "put" => t <= Cardinality(FixedBy(g, a, v))
    /\ p = "coerce" =>
          /\ t <= Cardinality(FixedBy(g, a, v)) + 1
          /\ \E c \in Cols : v[c] # None /\ g[a][c] # None /\ v[c] # g[a][c]

RetryInv ==
    \A s \in Shards : pc[s] \in {"put", "coerce"} =>
        Tried(tries[s], schema, Row[hand[s][pos[s]]].set, vals[s], pc[s])

-----------------------------------------------------------------------------
(*                        Facts about sequences                            *)

\* A row at the end of a sequence.
LEMMA AppendFacts ==
    ASSUME NEW q \in Seq(Ids), NEW r \in Ids
    PROVE  /\ Append(q, r) \in Seq(Ids) /\ Len(Append(q, r)) = Len(q) + 1
           /\ Elems(Append(q, r)) = Elems(q) \cup {r}
           /\ Distinct(q) /\ r \notin Elems(q) => Distinct(Append(q, r))
<1>1. /\ Append(q, r) \in Seq(Ids) /\ Len(Append(q, r)) = Len(q) + 1 /\ Len(q) \in Nat
      /\ DOMAIN q = 1..Len(q) /\ DOMAIN Append(q, r) = 1..Len(q) + 1
      /\ Append(q, r)[Len(q) + 1] = r /\ \A i \in 1..Len(q) : Append(q, r)[i] = q[i]
  OBVIOUS
<1>2. Elems(Append(q, r)) = Elems(q) \cup {r}
  <2>1. ASSUME NEW x \in Elems(Append(q, r)) PROVE x \in Elems(q) \cup {r}
    BY <1>1 DEF Elems
  <2>2. ASSUME NEW x \in Elems(q) \cup {r} PROVE x \in Elems(Append(q, r))
    <3>1. CASE x \in Elems(q)
      BY <1>1, <3>1 DEF Elems
    <3>2. CASE x = r
      <4>1. Len(q) + 1 \in DOMAIN Append(q, r)
        BY <1>1
      <4>2. QED
        BY <1>1, <3>2, <4>1 DEF Elems
    <3>3. QED
      BY <3>1, <3>2
  <2>3. QED
    BY <2>1, <2>2
<1>3. ASSUME Distinct(q), r \notin Elems(q) PROVE Distinct(Append(q, r))
  <2>1. ASSUME NEW i \in 1..Len(q) + 1, NEW j \in 1..Len(q) + 1, Append(q, r)[i] = Append(q, r)[j]
        PROVE  i = j
    BY <1>1, <1>3, <2>1 DEF Distinct, Elems
  <2>2. QED
    BY <1>1, <2>1 DEF Distinct
<1>4. QED
  BY <1>1, <1>2, <1>3

\* The first row of a sequence, and the others.
LEMMA TailFacts ==
    ASSUME NEW q \in Seq(Ids), q # <<>>
    PROVE  /\ Head(q) \in Ids /\ Head(q) \in Elems(q) /\ Head(q) = q[1] /\ 1 \in DOMAIN q
           /\ Tail(q) \in Seq(Ids) /\ Len(Tail(q)) = Len(q) - 1
           /\ \A i \in DOMAIN Tail(q) : i + 1 \in DOMAIN q /\ Tail(q)[i] = q[i + 1]
           /\ Distinct(q) => Distinct(Tail(q)) /\ Elems(Tail(q)) = Elems(q) \ {Head(q)}
<1>1. /\ Len(q) \in Nat \ {0} /\ DOMAIN q = 1..Len(q) /\ Head(q) = q[1] /\ Head(q) \in Ids
      /\ Tail(q) \in Seq(Ids) /\ Len(Tail(q)) = Len(q) - 1 /\ DOMAIN Tail(q) = 1..Len(q) - 1
      /\ \A i \in 1..Len(q) - 1 : Tail(q)[i] = q[i + 1]
  OBVIOUS
<1>2. 1 \in DOMAIN q /\ Head(q) \in Elems(q)
  BY <1>1 DEF Elems
<1>3. \A i \in DOMAIN Tail(q) : i + 1 \in DOMAIN q /\ Tail(q)[i] = q[i + 1]
  BY <1>1
<1>4. ASSUME Distinct(q) PROVE Distinct(Tail(q)) /\ Elems(Tail(q)) = Elems(q) \ {Head(q)}
  <2>1. Distinct(Tail(q))
    BY <1>1, <1>3, <1>4 DEF Distinct
  <2>2. ASSUME NEW x \in Elems(Tail(q)) PROVE x \in Elems(q) \ {Head(q)}
    <3>1. PICK i \in DOMAIN Tail(q) : x = Tail(q)[i]
      BY DEF Elems
    <3>2. i + 1 \in DOMAIN q /\ x = q[i + 1] /\ i + 1 # 1
      BY <1>1, <1>3, <3>1
    <3>3. x # q[1]
      BY <1>2, <1>4, <3>2 DEF Distinct
    <3>4. QED
      BY <1>1, <3>2, <3>3 DEF Elems
  <2>3. ASSUME NEW x \in Elems(q) \ {Head(q)} PROVE x \in Elems(Tail(q))
    <3>1. PICK i \in DOMAIN q : x = q[i]
      BY DEF Elems
    <3>2. i # 1
      BY <1>1, <2>3, <3>1
    <3>3. i - 1 \in DOMAIN Tail(q) /\ Tail(q)[i - 1] = q[i]
      BY <1>1, <3>2
    <3>4. QED
      BY <3>1, <3>3 DEF Elems
  <2>4. QED
    BY <2>1, <2>2, <2>3
<1>5. QED
  BY <1>1, <1>2, <1>3, <1>4

\* The rows of the sets.
LEMMA RowsIff ==
    ASSUME NEW p, NEW r
    PROVE  r \in Rows(p) <=> \E a \in Sets : r \in Elems(p[a])
  BY DEF Rows

\* The empty sequence.
LEMMA EmptyFacts == Elems(<<>>) = {} /\ Distinct(<<>>) /\ <<>> \in Seq(Ids) /\ Len(<<>>) = 0
  BY DEF Elems, Distinct

\* Rows have a key, a set and values.
LEMMA RowFields ==
    ASSUME NEW r \in Ids
    PROVE  Row[r].set \in Sets /\ Row[r].key \in Keys /\ Row[r].vals \in Vals
  BY BatcherAssumption DEF Vals

-----------------------------------------------------------------------------
(*                     Types, and what a shard has                         *)

ShardAct(s) == ShardStep(s) \/ BatchFails(s) \/ PutFails(s)

\* A step of one shard leaves the others alone.
Elsewhere(s) ==
    \A t \in Shards \ {s} :
        /\ chan'[t] = chan[t] /\ pending'[t] = pending[t] /\ flushing'[t] = flushing[t]
        /\ hand'[t] = hand[t] /\ pos'[t] = pos[t] /\ vals'[t] = vals[t]
        /\ tries'[t] = tries[t] /\ pc'[t] = pc[t]

\* So is every step of a shard, and what is common to all stays.
LEMMA ShardIsLocal ==
    ASSUME TypeInv, NEW s \in Shards, ShardAct(s)
    PROVE  Elsewhere(s) /\ UNCHANGED <<route, todo, closed, order>>
<1> USE DEF TypeInv, Own, Common, Elsewhere, flusher, store, past
<1>1. CASE Receive(s)
  BY Zenon, <1>1 DEF Receive, BeginFlush
<1>2. CASE Age(s) \/ Finish(s)
  BY <1>2 DEF Age, Finish
<1>3. CASE FlushNext(s)
  BY <1>3 DEF FlushNext, BeginFlush
<1>4. CASE Prepare(s)
  BY SMTT(60), <1>4 DEF Prepare
<1>5. CASE Commit(s)
  BY Zenon, <1>5 DEF Commit, Done
<1>6. CASE BatchFails(s)
  BY <1>6 DEF BatchFails, Done
<1>7. CASE PutSingle(s)
  <2>1. UNCHANGED <<route, todo, chan, pending, flushing, closed, order>>
    BY Zenon, <1>7 DEF PutSingle
  <2>2. CASE tries' = [tries EXCEPT ![s] = @ + 1] /\ pc' = [pc EXCEPT ![s] = "coerce"] /\ UNCHANGED <<hand, pos, vals>>
    BY SMTT(60), <2>1, <2>2
  <2>3. CASE NextRow(s)
    BY SMTT(60), <2>1, <2>3 DEF NextRow, Done
  <2>4. QED
    BY Zenon, <1>7, <2>2, <2>3 DEF PutSingle
<1>8. CASE PutFails(s)
  BY SMTT(60), <1>8 DEF PutFails, NextRow, Done
<1>9. CASE Coerce(s)
  BY SMTT(60), <1>9 DEF Coerce, NextRow, Done
<1>10. QED
  BY Zenon, <1>1, <1>2, <1>3, <1>4, <1>5, <1>7, <1>8, <1>9, <1>6 DEF ShardAct, ShardStep

\* What the other shards have stays as it is.
LEMMA OthersFit ==
    ASSUME TypeInv, NEW s \in Shards, Elsewhere(s), Fits(s)'
    PROVE  \A t \in Shards : Fits(t)'
<1>1. ASSUME NEW t \in Shards, t # s PROVE Fits(t)'
  <2>1. Fits(t)
    BY DEF TypeInv
  <2>2. QED
    BY <1>1, <2>1 DEF Elsewhere, Fits, Waiting
<1>2. QED
  BY <1>1

\* What a set learns.
LEMMA LearnFacts ==
    ASSUME schema \in [Sets -> Vals], NEW a \in Sets, NEW v \in Vals
    PROVE  /\ Learn(a, v) \in [Sets -> Vals]
           /\ \A b \in Sets, c \in Cols :
                 schema[b][c] # None => Learn(a, v)[b][c] = schema[b][c]
  BY DEF Learn, Vals

\* The sizes.
LEMMA FlushSizeFacts ==
    FlushSize \in Nat /\ FlushSize >= 1 /\ ChanCap \in Nat /\ ChanCap >= 1 /\ MaxRetries \in Nat /\ MaxRetries >= 1
  BY BatcherAssumption

\* Where the goroutine is after a flush began.
LEMMA BeginFits ==
    ASSUME TypeInv, NEW s \in Shards, NEW p \in [Sets -> Seq(Ids)], NEW a \in Sets,
           BeginFlush(s, p, a), Len(p[a]) \in 1..FlushSize, \A b \in Sets \ {a} : Len(p[b]) < FlushSize
    PROVE  /\ hand' \in [Shards -> Seq(Ids)] /\ pending' \in [Shards -> [Sets -> Seq(Ids)]]
           /\ pos' \in [Shards -> 1..(FlushSize + 1)] /\ pc' \in [Shards -> Places]
           /\ hand'[s] = p[a] /\ pending'[s] = [p EXCEPT ![a] = <<>>] /\ pos'[s] = 1 /\ pc'[s] = "prepare"
           /\ \A b \in Sets : Len(pending'[s][b]) < FlushSize
           /\ Len(hand'[s]) <= FlushSize /\ pos'[s] <= Len(hand'[s])
<1> USE DEF TypeInv, Own
<1>1. p[a] \in Seq(Ids) /\ [p EXCEPT ![a] = <<>>] \in [Sets -> Seq(Ids)]
  BY EmptyFacts
<1>2. /\ hand' \in [Shards -> Seq(Ids)] /\ pending' \in [Shards -> [Sets -> Seq(Ids)]]
      /\ hand'[s] = p[a] /\ pending'[s] = [p EXCEPT ![a] = <<>>]
  BY <1>1 DEF BeginFlush
<1>3. pos' \in [Shards -> 1..(FlushSize + 1)] /\ pc' \in [Shards -> Places] /\ pos'[s] = 1 /\ pc'[s] = "prepare"
  BY FlushSizeFacts DEF BeginFlush, Places
<1>4. \A b \in Sets : Len(pending'[s][b]) < FlushSize
  BY <1>2, EmptyFacts, FlushSizeFacts
<1>5. QED
  BY <1>2, <1>3, <1>4

\* Where it is after a flush was over.
LEMMA DoneFits ==
    ASSUME TypeInv, NEW s \in Shards, Done(s)
    PROVE  /\ hand' \in [Shards -> Seq(Ids)] /\ pos' \in [Shards -> 1..(FlushSize + 1)]
           /\ pc' \in [Shards -> Places]
           /\ hand'[s] = <<>> /\ pos'[s] = 1 /\ pc'[s] = "select"
  BY EmptyFacts, FlushSizeFacts DEF TypeInv, Own, Done, Places

\* Where it is after a row of the fallback was settled.
LEMMA NextRowFits ==
    ASSUME TypeInv, NEW s \in Shards, pc[s] \in {"put", "coerce"}, NextRow(s),
           UNCHANGED <<chan, pending, flushing>>
    PROVE  Own' /\ Fits(s)'
<1> USE DEF TypeInv, Own
<1>0. /\ Fits(s) /\ hand[s] \in Seq(Ids) /\ Len(hand[s]) \in Nat /\ DOMAIN hand[s] = 1..Len(hand[s])
      /\ pos[s] \in 1..Len(hand[s]) /\ Len(hand[s]) <= FlushSize
  BY DEF Fits
<1>1. tries' \in [Shards -> 0..MaxRetries] /\ tries'[s] = 0
  BY FlushSizeFacts DEF NextRow
<1>2. CASE pos[s] = Len(hand[s])
  <2>1. Done(s) /\ vals' = [vals EXCEPT ![s] = None]
    BY <1>2 DEF NextRow
  <2>2. Own'
    BY <1>1, <2>1, DoneFits
  <2>3. Fits(s)'
    BY SMTT(60), <1>0, <2>1, DoneFits, EmptyFacts, FlushSizeFacts DEF Fits, Waiting
  <2>4. QED
    BY <2>2, <2>3
<1>3. CASE pos[s] # Len(hand[s])
  <2>1. /\ pos' = [pos EXCEPT ![s] = @ + 1] /\ vals' = [vals EXCEPT ![s] = Row[hand[s][pos[s] + 1]].vals]
        /\ hand' = hand /\ pc' = [pc EXCEPT ![s] = "put"]
    BY <1>3 DEF NextRow
  <2>2. pos[s] + 1 \in 1..Len(hand[s]) /\ pos[s] + 1 \in 1..(FlushSize + 1)
    BY <1>0, <1>3, FlushSizeFacts
  <2>3. hand[s][pos[s] + 1] \in Ids
    BY <1>0, <2>2
  <2>4. Row[hand[s][pos[s] + 1]].vals \in Vals
    BY <2>3, RowFields
  <2>5. Own'
    BY <1>1, <2>1, <2>2, <2>4 DEF Places
  <2>6. pos'[s] = pos[s] + 1 /\ pc'[s] = "put" /\ vals'[s] \in Vals
    BY <2>1, <2>4
  <2>7. Fits(s)'
    BY <1>0, <1>1, <2>1, <2>2, <2>6, FlushSizeFacts DEF Fits, Waiting
  <2>8. QED
    BY <2>5, <2>7
<1>4. QED
  BY <1>2, <1>3

\* Receiving a row.
LEMMA ReceiveFits ==
    ASSUME TypeInv, NEW s \in Shards, Receive(s)
    PROVE  Own' /\ Fits(s)'
<1> DEFINE r == Head(chan[s])
           a == Row[r].set
           p == [pending[s] EXCEPT ![a] = Append(@, r)]
<1>1. /\ chan[s] \in Seq(Ids) /\ chan[s] # <<>> /\ pending[s] \in [Sets -> Seq(Ids)]
      /\ Fits(s) /\ pc[s] = "select" /\ flushing[s] = {}
      /\ chan' = [chan EXCEPT ![s] = Tail(@)] /\ UNCHANGED <<flushing, vals, tries>>
  BY Zenon DEF TypeInv, Own, Receive
<1>2. r \in Ids /\ a \in Sets
  BY <1>1, TailFacts, RowFields
<1>3. /\ Append(pending[s][a], r) \in Seq(Ids)
      /\ Len(Append(pending[s][a], r)) = Len(pending[s][a]) + 1
  BY <1>1, <1>2, AppendFacts
<1>4. p \in [Sets -> Seq(Ids)] /\ Len(p[a]) = Len(pending[s][a]) + 1 /\ \A b \in Sets \ {a} : p[b] = pending[s][b]
  BY <1>1, <1>2, <1>3
<1>5. Len(pending[s][a]) \in Nat /\ Len(pending[s][a]) < FlushSize /\ \A b \in Sets \ {a} : Len(p[b]) < FlushSize
  <2> HIDE DEF p, a, r
  <2>1. \A b \in Sets : Len(pending[s][b]) < FlushSize
    BY <1>1 DEF Fits
  <2>2. pending[s][a] \in Seq(Ids)
    BY <1>1, <1>2
  <2>3. QED
    BY <1>2, <1>4, <2>1, <2>2
<1>6. chan' \in [Shards -> Seq(Ids)] /\ Len(chan'[s]) <= ChanCap
  <2>1. Tail(chan[s]) \in Seq(Ids) /\ Len(Tail(chan[s])) = Len(chan[s]) - 1 /\ Len(chan[s]) \in Nat /\ Len(chan[s]) <= ChanCap
    BY <1>1, TailFacts DEF Fits
  <2>2. chan'[s] = Tail(chan[s])
    BY <1>1 DEF TypeInv, Own
  <2>3. QED
    BY <1>1, <2>1, <2>2, FlushSizeFacts DEF TypeInv, Own
<1>7. CASE Len(p[a]) >= FlushSize /\ BeginFlush(s, p, a)
  <2> HIDE DEF p, a, r
  <2>1. Len(p[a]) \in 1..FlushSize
    BY <1>4, <1>5, <1>7, FlushSizeFacts
  <2>2. /\ hand' \in [Shards -> Seq(Ids)] /\ pending' \in [Shards -> [Sets -> Seq(Ids)]]
        /\ pos' \in [Shards -> 1..(FlushSize + 1)] /\ pc' \in [Shards -> Places]
        /\ pos'[s] = 1 /\ pc'[s] = "prepare"
        /\ \A b \in Sets : Len(pending'[s][b]) < FlushSize
        /\ Len(hand'[s]) <= FlushSize /\ pos'[s] <= Len(hand'[s])
    BY <1>2, <1>4, <1>5, <1>7, <2>1, BeginFits
  <2>3. QED
    BY <1>1, <1>6, <2>2 DEF Fits, TypeInv, Own, Waiting
<1>8. CASE Len(p[a]) < FlushSize /\ pending' = [pending EXCEPT ![s] = p] /\ UNCHANGED <<hand, pos, pc>>
  <2> HIDE DEF p, a, r
  <2>1. pending' \in [Shards -> [Sets -> Seq(Ids)]] /\ pending'[s] = p
    BY <1>4, <1>8 DEF TypeInv, Own
  <2>2. QED
    BY <1>1, <1>5, <1>6, <1>8, <2>1 DEF Fits, TypeInv, Own, Waiting
<1>9. QED
  BY Zenon, <1>7, <1>8 DEF Receive

\* A flush of one of the sets that wait.
LEMMA FlushFits ==
    ASSUME TypeInv, NEW s \in Shards, FlushNext(s)
    PROVE  Own' /\ Fits(s)'
<1>1. PICK a \in flushing[s] : BeginFlush(s, pending[s], a) /\ flushing' = [flushing EXCEPT ![s] = @ \ {a}]
  BY DEF FlushNext
<1>2. /\ pending[s] \in [Sets -> Seq(Ids)] /\ a \in Sets /\ Fits(s) /\ pending[s][a] # <<>>
      /\ UNCHANGED <<chan, vals, tries>>
  BY DEF FlushNext, TypeInv, Own, Fits, Waiting
<1>3. Len(pending[s][a]) \in 1..FlushSize /\ \A b \in Sets \ {a} : Len(pending[s][b]) < FlushSize
  BY <1>2, FlushSizeFacts DEF Fits
<1>4. /\ hand' \in [Shards -> Seq(Ids)] /\ pending' \in [Shards -> [Sets -> Seq(Ids)]]
      /\ pos' \in [Shards -> 1..(FlushSize + 1)] /\ pc' \in [Shards -> Places]
      /\ pos'[s] = 1 /\ pc'[s] = "prepare" /\ pending'[s] = [pending[s] EXCEPT ![a] = <<>>]
      /\ \A b \in Sets : Len(pending'[s][b]) < FlushSize
      /\ Len(hand'[s]) <= FlushSize /\ pos'[s] <= Len(hand'[s])
  BY SMTT(60), <1>1, <1>2, <1>3, BeginFits
<1>5. flushing' \in [Shards -> SUBSET Sets] /\ flushing'[s] = flushing[s] \ {a}
  BY <1>1 DEF TypeInv, Own
<1>6. flushing'[s] \subseteq Waiting(s)'
  BY <1>2, <1>4, <1>5 DEF Fits, Waiting
<1>7. QED
  BY <1>2, <1>4, <1>5, <1>6 DEF Fits, TypeInv, Own

\* A row of the batch is prepared, or conflicts.
LEMMA PrepareFits ==
    ASSUME TypeInv, NEW s \in Shards, Prepare(s)
    PROVE  Own' /\ Fits(s)' /\ schema' \in [Sets -> Vals]
<1> USE DEF TypeInv, Own, Common
<1> DEFINE r == hand[s][pos[s]]
<1>1. /\ Fits(s) /\ pc[s] = "prepare" /\ hand[s] \in Seq(Ids) /\ Len(hand[s]) \in Nat
      /\ DOMAIN hand[s] = 1..Len(hand[s]) /\ pos[s] \in 1..Len(hand[s]) /\ Len(hand[s]) <= FlushSize
      /\ UNCHANGED <<chan, pending, flushing, hand>>
  BY DEF Prepare, Fits
<1>2. r \in Ids /\ hand[s][1] \in Ids
  BY <1>1
<1>3. Row[r].set \in Sets /\ Row[r].vals \in Vals /\ Row[hand[s][1]].vals \in Vals
  BY <1>2, RowFields
<1>4. CASE /\ pos' = [pos EXCEPT ![s] = 1]
           /\ vals' = [vals EXCEPT ![s] = Row[hand[s][1]].vals]
           /\ tries' = [tries EXCEPT ![s] = 0]
           /\ pc' = [pc EXCEPT ![s] = "put"]
           /\ UNCHANGED schema
  <2>1. Own'
    BY <1>1, <1>3, <1>4, FlushSizeFacts DEF Places
  <2>2. pos'[s] = 1 /\ vals'[s] \in Vals /\ tries'[s] = 0 /\ pc'[s] = "put"
    BY <1>3, <1>4
  <2>3. Fits(s)'
    BY <1>1, <2>2, FlushSizeFacts DEF Fits, Waiting
  <2>4. QED
    BY <1>4, <2>1, <2>3
<1>5. CASE /\ schema' = Learn(Row[r].set, Row[r].vals)
           /\ pos' = [pos EXCEPT ![s] = @ + 1]
           /\ pc' = [pc EXCEPT ![s] = IF pos[s] = Len(hand[s]) THEN "commit" ELSE @]
           /\ UNCHANGED <<vals, tries>>
  <2>1. schema' \in [Sets -> Vals]
    BY <1>3, <1>5, LearnFacts
  <2>2. pos[s] + 1 \in 1..(FlushSize + 1) /\ (pos[s] # Len(hand[s]) => pos[s] + 1 <= Len(hand[s]))
    BY <1>1, FlushSizeFacts
  <2>3. Own'
    BY <1>1, <1>5, <2>2 DEF Places
  <2>4. /\ pos'[s] = pos[s] + 1 /\ pc'[s] = IF pos[s] = Len(hand[s]) THEN "commit" ELSE "prepare"
        /\ vals'[s] = vals[s] /\ tries'[s] = tries[s] /\ hand'[s] # <<>>
    BY <1>1, <1>5
  <2>5. Fits(s)'
    BY <1>1, <2>2, <2>4, FlushSizeFacts DEF Fits, Waiting
  <2>6. QED
    BY <2>1, <2>3, <2>5
<1>6. QED
  BY <1>4, <1>5 DEF Prepare

\* A row stored.
LEMMA StoredFits ==
    ASSUME TypeInv, NEW r \in Ids, NEW v \in Vals,
           table' = [table EXCEPT ![Row[r].set][Row[r].key] = [id |-> r, vals |-> v]]
    PROVE  table' \in [Sets -> [Keys -> StoredRows \cup {None}]]
<1>1. [id |-> r, vals |-> v] \in StoredRows
  BY DEF StoredRows, Vals
<1>2. Row[r].set \in Sets /\ Row[r].key \in Keys
  BY RowFields
<1>3. QED
  BY <1>1, <1>2 DEF TypeInv, Common

\* A set of positions has a last one.
LEMMA LastOne ==
    ASSUME NEW n \in Nat, NEW M \in SUBSET (1..n), M # {}
    PROVE  \E i \in M : \A j \in M : j <= i
<1> DEFINE R == {ss \in Nat \X Nat : ss[1] < ss[2]}
           T == {k \in 0..n : \E i \in M : k = n - i}
<1>1. IsWellFoundedOn(R, Nat)
  BY NatLessThanWellFounded DEF OpToRel
<1>2. T \subseteq Nat /\ T # {}
  <2>1. PICK i \in M : TRUE
    OBVIOUS
  <2>2. n - i \in T
    OBVIOUS
  <2>3. T \subseteq Nat
    OBVIOUS
  <2> HIDE DEF T
  <2>4. QED
    BY <2>2, <2>3
<1> HIDE DEF R
<1>3. PICK x \in T : \A y \in T : <<y, x>> \notin R
  <2> HIDE DEF T
  <2>1. QED
    BY <1>1, <1>2, WFMin
<1>4. \A y \in T : ~(y < x)
  BY <1>2, <1>3 DEF R
<1>5. PICK i \in M : x = n - i
  OBVIOUS
<1>6. ASSUME NEW j \in M PROVE j <= i
  <2>1. n - j \in T
    OBVIOUS
  <2>2. ~(n - j < n - i)
    BY <1>4, <1>5, <2>1
  <2>3. QED
    BY <2>2
<1>7. QED
  BY <1>6

\* The rows of a batch stored.
LEMMA CommitTable ==
    ASSUME TypeInv, NEW s \in Shards, Commit(s)
    PROVE  table' \in [Sets -> [Keys -> StoredRows \cup {None}]]
<1> DEFINE mine(k) == {i \in DOMAIN hand[s] : Row[hand[s][i]].key = k}
           last(k) == CHOOSE i \in mine(k) : \A j \in mine(k) : j <= i
           a == Row[hand[s][1]].set
           new(k) == IF mine(k) = {} THEN table[a][k]
                     ELSE [id |-> hand[s][last(k)], vals |-> Row[hand[s][last(k)]].vals]
<1>1. hand[s] \in Seq(Ids) /\ hand[s] # <<>> /\ table \in [Sets -> [Keys -> StoredRows \cup {None}]]
  BY Zenon DEF TypeInv, Own, Common, Fits, Commit
<1>2. a \in Sets
  <2>1. hand[s][1] \in Ids
    BY Zenon, <1>1, TailFacts
  <2>2. QED
    BY <2>1, RowFields
<1>3. ASSUME NEW k \in Keys PROVE new(k) \in StoredRows \cup {None}
  <2>1. CASE mine(k) = {}
    BY <1>1, <1>2, <2>1
  <2>2. CASE mine(k) # {}
    <3>1. last(k) \in DOMAIN hand[s]
      <4> HIDE DEF mine
      <4>1. \E i \in mine(k) : \A j \in mine(k) : j <= i
        <5> USE DEF mine
        <5>1. DOMAIN hand[s] = 1..Len(hand[s]) /\ Len(hand[s]) \in Nat
          BY <1>1
        <5>2. mine(k) \in SUBSET (1..Len(hand[s]))
          BY <5>1
        <5> HIDE DEF mine
        <5>3. QED
          BY <2>2, <5>1, <5>2, LastOne
      <4>2. last(k) \in mine(k)
        BY <4>1
      <4>3. QED
        BY <4>2 DEF mine
    <3> DEFINE r == hand[s][last(k)]
    <3> HIDE DEF last, mine
    <3>2. r \in Ids
      BY <1>1, <3>1
    <3> HIDE DEF r
    <3>3. Row[r].vals \in Vals
      BY <3>2, RowFields
    <3>4. [id |-> r, vals |-> Row[r].vals] \in StoredRows
      BY <3>2, <3>3 DEF StoredRows, Vals
    <3>5. new(k) = [id |-> r, vals |-> Row[r].vals]
      BY Zenon, <2>2 DEF r
    <3>6. QED
      BY <3>4, <3>5
  <2>3. QED
    BY Zenon, <2>1, <2>2
<1>4. table' = [table EXCEPT ![a] = [k \in Keys |-> new(k)]]
  BY Zenon, <1>1, <1>2 DEF Commit
<1>5. QED
  <2> HIDE DEF new, a
  <2>1. [k \in Keys |-> new(k)] \in [Keys -> StoredRows \cup {None}]
    BY Zenon, <1>3
  <2>2. QED
    BY <1>1, <1>2, <1>4, <2>1

\* Coercing keeps a row's values values.
LEMMA CoerceFits ==
    ASSUME TypeInv, NEW s \in Shards, Coerce(s)
    PROVE  Own' /\ Fits(s)'
<1>1. UNCHANGED <<chan, pending, flushing>>
  BY DEF Coerce
<1>2. CASE tries[s] >= MaxRetries /\ NextRow(s)
  <2>1. pc[s] \in {"put", "coerce"}
    BY DEF Coerce
  <2>2. QED
    BY SMTT(60), <1>1, <1>2, <2>1, NextRowFits
<1>3. CASE /\ tries[s] < MaxRetries
           /\ \E v \in Vals : vals' = [vals EXCEPT ![s] = v]
           /\ pc' = [pc EXCEPT ![s] = "put"]
           /\ UNCHANGED <<tries, hand, pos>>
  <2>1. PICK v \in Vals : vals' = [vals EXCEPT ![s] = v]
    BY <1>3
  <2>2. Own'
    BY <1>1, <1>3, <2>1 DEF TypeInv, Own, Places
  <2>3. pc[s] = "coerce" /\ Fits(s) /\ pc'[s] = "put" /\ vals'[s] = v
    BY <1>3, <2>1 DEF TypeInv, Own, Coerce
  <2>4. Fits(s)'
    BY <1>1, <1>3, <2>3 DEF Fits, Waiting
  <2>5. QED
    BY <2>2, <2>4
<1>4. \/ tries[s] >= MaxRetries /\ NextRow(s)
      \/ /\ tries[s] < MaxRetries
         /\ \E v \in Vals : vals' = [vals EXCEPT ![s] = v]
         /\ pc' = [pc EXCEPT ![s] = "put"]
         /\ UNCHANGED <<tries, hand, pos>>
  BY Zenon DEF Coerce, Vals
<1>5. QED
  BY SMTT(60), <1>2, <1>3, <1>4

\* A single put.
LEMMA PutSingleFits ==
    ASSUME TypeInv, NEW s \in Shards, PutSingle(s)
    PROVE  /\ Own' /\ Fits(s)'
           /\ schema' \in [Sets -> Vals] /\ table' \in [Sets -> [Keys -> StoredRows \cup {None}]]
           /\ committed' \subseteq Ids
<1> DEFINE r == hand[s][pos[s]]
           a == Row[r].set
<1>1. /\ Fits(s) /\ pc[s] = "put" /\ hand[s] \in Seq(Ids) /\ pos[s] \in 1..Len(hand[s])
      /\ vals[s] \in Vals /\ tries[s] < MaxRetries /\ tries[s] \in Nat
      /\ UNCHANGED <<chan, pending, flushing>>
  BY SMTT(60) DEF PutSingle, Fits, TypeInv, Own
<1>2. r \in Ids
  BY <1>1
<1>3. a \in Sets
  <2> HIDE DEF r
  <2>1. QED
    BY <1>2, RowFields
<1>4. CASE /\ tries' = [tries EXCEPT ![s] = @ + 1]
           /\ pc' = [pc EXCEPT ![s] = "coerce"]
           /\ UNCHANGED <<store, committed, hand, pos, vals>>
  <2>1. tries[s] + 1 \in 0..MaxRetries
    BY <1>1, FlushSizeFacts
  <2>2. Own'
    BY <1>1, <1>4, <2>1 DEF TypeInv, Own, Places
  <2>3. Fits(s)'
    BY <1>1, <1>4, <2>2 DEF TypeInv, Own, Fits, Waiting
  <2>4. QED
    BY <1>4, <2>2, <2>3 DEF TypeInv, Common, store
<1>5. CASE /\ schema' = Learn(a, vals[s])
           /\ table' = [table EXCEPT ![a][Row[r].key] = [id |-> r, vals |-> vals[s]]]
           /\ committed' = committed \cup {r}
           /\ NextRow(s)
  <2> HIDE DEF r
  <2>1. Own' /\ Fits(s)'
    BY <1>1, <1>5, NextRowFits
  <2>2. schema' \in [Sets -> Vals]
    BY <1>1, <1>3, <1>5, LearnFacts DEF TypeInv, Common
  <2>3. table' \in [Sets -> [Keys -> StoredRows \cup {None}]]
    BY <1>1, <1>2, <1>5, StoredFits
  <2>4. QED
    BY <1>2, <1>5, <2>1, <2>2, <2>3 DEF TypeInv, Common
<1>6. QED
  BY ZenonT(60), <1>4, <1>5 DEF PutSingle

\* A step of a shard, and the types.
LEMMA ShardTypes ==
    ASSUME TypeInv, NEW s \in Shards, ShardAct(s)
    PROVE  TypeInv'
<1>1. Elsewhere(s) /\ UNCHANGED <<route, todo, closed, order>>
  BY ShardIsLocal
<1>2. SUFFICES /\ Own' /\ Fits(s)'
               /\ schema' \in [Sets -> Vals] /\ table' \in [Sets -> [Keys -> StoredRows \cup {None}]]
               /\ committed' \subseteq Ids /\ failed' \subseteq Ids /\ gaveUp' \subseteq Ids
  <2>1. Common'
    BY <1>1, <1>2 DEF TypeInv, Common
  <2>2. \A t \in Shards : Fits(t)'
    BY <1>1, <1>2, OthersFit
  <2>3. QED
    BY <1>2, <2>1, <2>2 DEF TypeInv
<1>3. /\ schema \in [Sets -> Vals] /\ table \in [Sets -> [Keys -> StoredRows \cup {None}]]
      /\ committed \subseteq Ids /\ failed \subseteq Ids /\ gaveUp \subseteq Ids
      /\ hand[s] \in Seq(Ids) /\ Elems(hand[s]) \subseteq Ids /\ Fits(s)
  BY DEF TypeInv, Own, Common, Elems
<1>4. CASE Receive(s)
  BY Zenon, <1>3, <1>4, ReceiveFits DEF Receive, store, past
<1>5. CASE Age(s)
  <2>1. Waiting(s) \subseteq Sets
    BY DEF Waiting
  <2>2. Own'
    BY <1>5, <2>1 DEF Age, TypeInv, Own
  <2>3. Fits(s)'
    BY <1>3, <1>5 DEF Age, TypeInv, Own, Fits, Waiting
  <2>4. QED
    BY <1>3, <1>5, <2>2, <2>3 DEF Age, store, past
<1>6. CASE Finish(s)
  <2>1. Waiting(s) \subseteq Sets /\ flushing' = [flushing EXCEPT ![s] = Waiting(s)]
        /\ pc' \in {[pc EXCEPT ![s] = "exit"], pc} /\ pc[s] = "select"
        /\ UNCHANGED <<chan, pending, hand, pos, vals, tries>>
    BY <1>6 DEF Waiting, Finish, TypeInv, Own
  <2>2. Own'
    BY <2>1 DEF TypeInv, Own, Places
  <2>3. Fits(s)'
    BY <1>3, <2>1 DEF TypeInv, Own, Fits, Waiting
  <2>4. QED
    BY <1>3, <1>6, <2>2, <2>3 DEF Finish, store, past
<1>7. CASE FlushNext(s)
  BY Zenon, <1>3, <1>7, FlushFits DEF FlushNext, store, past
<1>8. CASE Prepare(s)
  BY Zenon, <1>3, <1>8, PrepareFits DEF Prepare, past
<1>9. ASSUME Done(s), UNCHANGED <<chan, pending, flushing, vals, tries>> PROVE Own' /\ Fits(s)'
  <2>1. Own'
    BY Zenon, <1>9, DoneFits DEF TypeInv, Own
  <2>2. Fits(s)'
    BY <1>3, <1>9, DoneFits, EmptyFacts, FlushSizeFacts DEF Fits, Waiting
  <2>3. QED
    BY <2>1, <2>2
<1>10. CASE Commit(s)
  BY Zenon, <1>3, <1>9, <1>10, CommitTable DEF Commit
<1>11. CASE BatchFails(s)
  BY <1>3, <1>9, <1>11 DEF BatchFails, store
<1>12. ASSUME pc[s] \in {"put", "coerce"} PROVE hand[s][pos[s]] \in Ids
  BY <1>3, <1>12 DEF Fits, TypeInv, Own
<1>13. CASE PutSingle(s)
  BY Zenon, <1>3, <1>13, PutSingleFits DEF PutSingle
<1>14. CASE PutFails(s)
  <2>1. pc[s] \in {"put", "coerce"} /\ NextRow(s) /\ UNCHANGED <<chan, pending, flushing>>
    BY <1>14 DEF PutFails
  <2>2. Own' /\ Fits(s)'
    BY Zenon, <2>1, NextRowFits
  <2>3. QED
    BY <1>3, <1>12, <1>14, <2>1, <2>2 DEF PutFails, store
<1>15. CASE Coerce(s)
  <2>1. pc[s] \in {"put", "coerce"} /\ gaveUp' \subseteq gaveUp \cup {hand[s][pos[s]]}
    BY <1>15 DEF Coerce
  <2>2. QED
    BY ZenonT(60), <1>3, <1>12, <1>15, <2>1, CoerceFits DEF Coerce, store
<1>16. QED
  BY <1>4, <1>5, <1>6, <1>7, <1>8, <1>10, <1>11, <1>13, <1>14, <1>15 DEF ShardAct, ShardStep

\* Initially,
LEMMA TypeInit == Init => TypeInv
<1> SUFFICES ASSUME Init PROVE TypeInv
  OBVIOUS
<1>1. Own
  BY EmptyFacts, FlushSizeFacts DEF Init, Own, Places
<1>2. Common
  <2>1. route \in [Keys -> Shards] /\ todo \in [Workers -> Seq(Ids)]
    BY BatcherAssumption DEF Init
  <2>2. schema \in [Sets -> Vals] /\ table \in [Sets -> [Keys -> StoredRows \cup {None}]]
    BY DEF Init, Vals
  <2>3. QED
    BY <2>1, <2>2, EmptyFacts DEF Init, Common
<1>3. ASSUME NEW s \in Shards PROVE Fits(s)
  BY EmptyFacts, FlushSizeFacts DEF Init, Fits, Waiting
<1>4. QED
  BY <1>1, <1>2, <1>3 DEF TypeInv

\* A row submitted.
LEMMA SubmitTypes ==
    ASSUME TypeInv, NEW w \in Workers, Submit(w)
    PROVE  TypeInv'
<1> DEFINE r == Head(todo[w])
           s == route[Row[r].key]
<1>1. /\ todo[w] \in Seq(Ids) /\ todo[w] # <<>> /\ r \in Ids /\ Tail(todo[w]) \in Seq(Ids)
  BY TailFacts DEF Submit, TypeInv, Common
<1>2. s \in Shards
  <2>1. Row[r].key \in Keys
    BY SMTT(60), <1>1, RowFields
  <2>2. QED
    BY <2>1 DEF TypeInv, Common
<1>3. /\ chan' = [chan EXCEPT ![s] = Append(@, r)] /\ Len(chan[s]) < ChanCap
      /\ order' = Append(order, r) /\ todo' = [todo EXCEPT ![w] = Tail(@)]
      /\ UNCHANGED <<route, pending, flushing, hand, pos, vals, tries, pc, closed, schema, table,
                     committed, failed, gaveUp>>
  BY DEF Submit, store
<1> HIDE DEF r, s
<1>4. Append(chan[s], r) \in Seq(Ids) /\ Append(order, r) \in Seq(Ids)
      /\ Len(Append(chan[s], r)) = Len(chan[s]) + 1 /\ Len(chan[s]) \in Nat
  BY <1>1, <1>2, AppendFacts DEF TypeInv, Own, Common
<1>5. chan' \in [Shards -> Seq(Ids)] /\ chan'[s] = Append(chan[s], r)
  BY <1>2, <1>3, <1>4 DEF TypeInv, Own
<1>6. Own'
  BY <1>3, <1>5 DEF TypeInv, Own
<1>7. Common'
  BY <1>1, <1>3, <1>4 DEF TypeInv, Common
<1>8. ASSUME NEW t \in Shards PROVE Fits(t)'
  <2>1. Len(chan'[t]) <= ChanCap
    <3>1. CASE t = s
      BY <1>3, <1>4, <1>5, <3>1, FlushSizeFacts
    <3>2. CASE t # s
      BY <1>3, <3>2 DEF TypeInv, Own, Fits
    <3>3. QED
      BY <3>1, <3>2
  <2>2. Fits(t)
    BY DEF TypeInv
  <2>3. QED
    BY <1>3, <2>1, <2>2 DEF Fits, Waiting
<1>9. QED
  BY <1>6, <1>7, <1>8 DEF TypeInv

\* and in every step.
LEMMA TypeNext == TypeInv /\ [Next]_vars => TypeInv'
<1> SUFFICES ASSUME TypeInv, [Next]_vars PROVE TypeInv'
  OBVIOUS
<1>1. ASSUME NEW w \in Workers, Submit(w) PROVE TypeInv'
  BY <1>1, SubmitTypes
<1>2. ASSUME NEW s \in Shards, ShardAct(s) PROVE TypeInv'
  BY <1>2, ShardTypes
<1>3. CASE Close \/ Closed
  BY <1>3 DEF Close, Closed, flusher, store, past, TypeInv, Own, Common, Fits, Waiting
<1>4. CASE UNCHANGED vars
  BY Zenon, <1>4 DEF vars, TypeInv, Own, Common, Fits, Waiting
<1>5. QED
  BY <1>1, <1>2, <1>3, <1>4 DEF Next, ShardAct

-----------------------------------------------------------------------------
(*                           Close and exit                                *)

\* A goroutine exits at one place only, with nothing left, and has no step then.
LEMMA ExitStep ==
    ASSUME TypeInv, NEW s \in Shards, ShardAct(s)
    PROVE  /\ pc[s] # "exit"
           /\ pc'[s] = "exit" => closed # "no" /\ chan'[s] = <<>> /\ Waiting(s)' = {}
<1>1. pc[s] # "exit"
  BY Zenon DEF ShardAct, ShardStep, Receive, Age, Finish, FlushNext, Prepare, Commit, PutSingle, Coerce,
         BatchFails, PutFails
<1> USE DEF TypeInv, Own
<1>2. CASE Finish(s)
  BY <1>1, <1>2 DEF Finish, Waiting
<1>3. CASE Age(s)
  BY Zenon, <1>1, <1>3 DEF Age
<1>4. CASE Receive(s)
  BY Zenon, <1>1, <1>4 DEF Receive, BeginFlush
<1>5. CASE FlushNext(s)
  BY <1>5 DEF FlushNext, BeginFlush
<1>6. CASE Prepare(s)
  BY <1>1, <1>6 DEF Prepare
<1>7. CASE Commit(s)
  BY Zenon, <1>7 DEF Commit, Done
<1>8. CASE BatchFails(s)
  BY SMTT(60), <1>8 DEF BatchFails, Done
<1>9. CASE PutSingle(s)
  BY <1>9 DEF PutSingle, NextRow, Done
<1>10. CASE PutFails(s)
  BY <1>10 DEF PutFails, NextRow, Done
<1>11. CASE Coerce(s)
  BY <1>11 DEF Coerce, NextRow, Done
<1>12. QED
  BY <1>1, <1>2, <1>3, <1>4, <1>5, <1>6, <1>7, <1>8, <1>9, <1>10, <1>11 DEF ShardAct, ShardStep

\* Nobody has exited initially,
LEMMA ExitInit == Init => ExitInv
  BY DEF Init, ExitInv

\* and who exits has nothing left.
LEMMA ExitNext == TypeInv /\ ExitInv /\ [Next]_vars => ExitInv'
<1> SUFFICES ASSUME TypeInv, ExitInv, [Next]_vars PROVE ExitInv'
  OBVIOUS
<1>1. ASSUME NEW w \in Workers, Submit(w) PROVE ExitInv'
  <2>1. closed = "no" /\ closed' = closed /\ pc' = pc
    BY <1>1 DEF Submit, ExitInv
  <2>2. QED
    BY SMTT(60), <2>1 DEF ExitInv
<1>2. ASSUME NEW s \in Shards, ShardAct(s) PROVE ExitInv'
  <2>1. Elsewhere(s) /\ UNCHANGED <<route, todo, closed, order>>
    BY <1>2, ShardIsLocal
  <2>2. pc[s] # "exit" /\ (pc'[s] = "exit" => closed # "no" /\ chan'[s] = <<>> /\ Waiting(s)' = {})
    BY <1>2, ExitStep
  <2>3. \A t \in Shards : pc'[t] = "exit" => closed' # "no" /\ chan'[t] = <<>> /\ Waiting(t)' = {}
    BY <2>1, <2>2 DEF Elsewhere, ExitInv, Waiting
  <2>4. closed' # "done"
    BY <2>1, <2>2 DEF ExitInv
  <2>5. QED
    BY <2>1, <2>3, <2>4 DEF ExitInv
<1>3. CASE Close \/ Closed
  BY <1>3 DEF Close, Closed, flusher, store, past, ExitInv, Waiting
<1>4. CASE UNCHANGED vars
  BY <1>4 DEF vars, ExitInv, Waiting
<1>5. QED
  BY <1>1, <1>2, <1>3, <1>4 DEF Next, ShardAct

-----------------------------------------------------------------------------
(*                          Where a row is                                 *)

\* Some rows of a shard have been settled, in one way.
SettledAs(X) ==
    \/ committed' = committed \cup X /\ UNCHANGED <<failed, gaveUp>>
    \/ failed' = failed \cup X /\ UNCHANGED <<committed, gaveUp>>
    \/ gaveUp' = gaveUp \cup X /\ UNCHANGED <<committed, failed>>

\* A shard that settles rows it has, and moves the others about, keeps every row in its place.
LEMMA Shuffle ==
    ASSUME TypeInv, PlaceInv, NEW s \in Shards, Elsewhere(s), UNCHANGED <<route, todo, closed, order>>,
           OneByOne(s)', NEW X \in SUBSET Held(s), Held(s)' = Held(s) \ X, SettledAs(X)
    PROVE  PlaceInv'
<1>1. ASSUME NEW t \in Shards, t # s PROVE OneByOne(t)' /\ Held(t)' = Held(t)
  <2>1. Left(t)' = Left(t) /\ chan'[t] = chan[t] /\ pending'[t] = pending[t] /\ hand'[t] = hand[t]
    BY <1>1 DEF Elsewhere, Left
  <2>2. OneByOne(t)
    BY DEF PlaceInv
  <2>3. QED
    BY <2>1, <2>2 DEF OneByOne, Held
<1>2. Settled' = Settled \cup X
  BY DEF Settled, SettledAs
<1>3. \A t \in Shards, u \in Shards : \A r \in Held(t) \cap Held(u) : t = u
  BY DEF PlaceInv
<1>4. X \cap Settled = {} /\ X \subseteq Elems(order)
  BY DEF PlaceInv
<1>5. \A t \in Shards : OneByOne(t)'
  BY <1>1
<1>6. ASSUME NEW t \in Shards, NEW r \in Held(t)'
      PROVE  route'[Row[r].key] = t /\ r \in Elems(order)' \ Settled'
  <2>1. r \in Held(t) /\ r \notin X
    BY <1>1, <1>3, <1>6
  <2>2. QED
    BY <1>2, <2>1 DEF PlaceInv
<1>7. ASSUME NEW r \in Elems(order)' PROVE r \in Held(route[Row[r].key])' \cup Settled'
  <2>1. r \in Held(route[Row[r].key]) \cup Settled
    BY <1>7 DEF PlaceInv
  <2>2. route[Row[r].key] \in Shards
    <3>1. r \in Ids
      BY <1>7 DEF Elems, TypeInv, Common
    <3>2. Row[r].key \in Keys
      BY <3>1, RowFields
    <3>3. QED
      BY <3>2 DEF TypeInv, Common
  <2>3. QED
    BY <1>1, <1>2, <2>1, <2>2
<1>8. Settled' \subseteq Elems(order)'
  BY <1>2, <1>4 DEF PlaceInv
<1>9. committed' \cap failed' = {} /\ committed' \cap gaveUp' = {} /\ failed' \cap gaveUp' = {}
  BY <1>4 DEF PlaceInv, SettledAs, Settled
<1>10. /\ \A v, w \in Workers : \A i \in DOMAIN todo'[v], j \in DOMAIN todo'[w] :
             todo'[v][i] = todo'[w][j] => v = w /\ i = j
       /\ \A w \in Workers : Elems(todo'[w]) \cap Elems(order') = {}
  BY DEF PlaceInv
<1>11. QED
  BY <1>5, <1>6, <1>7, <1>8, <1>9, <1>10 DEF PlaceInv

\* Rows of the flush under way settled, all else in its place.
LEMMA Settle ==
    ASSUME TypeInv, PlaceInv, NEW s \in Shards, chan'[s] = chan[s], pending'[s] = pending[s],
           Distinct(hand'[s]), NEW X \in SUBSET Left(s), Left(s)' = Left(s) \ X
    PROVE  OneByOne(s)' /\ X \subseteq Held(s) /\ Held(s)' = Held(s) \ X
<1>1. OneByOne(s)
  BY DEF PlaceInv
<1>2. OneByOne(s)'
  BY <1>1 DEF OneByOne
<1>3. X \cap Elems(chan[s]) = {} /\ \A a \in Sets : X \cap Elems(pending[s][a]) = {}
  BY <1>1 DEF OneByOne
<1>4. /\ Held(s) = Elems(chan[s]) \cup Rows(pending[s]) \cup Left(s)
      /\ Held(s)' = Elems(chan[s]) \cup Rows(pending[s]) \cup Left(s)'
  BY DEF Held
<1>5. X \cap Rows(pending[s]) = {}
  BY <1>3, RowsIff
<1>6. QED
  BY <1>2, <1>3, <1>4, <1>5

\* The row of the fallback is settled.
LEMMA NextRowLeft ==
    ASSUME TypeInv, PlaceInv, NEW s \in Shards, pc[s] \in {"put", "coerce"}, NextRow(s)
    PROVE  /\ hand[s][pos[s]] \in Left(s)
           /\ Left(s)' = Left(s) \ {hand[s][pos[s]]}
           /\ Distinct(hand'[s])
<1>1. /\ hand[s] \in Seq(Ids) /\ Len(hand[s]) \in Nat /\ DOMAIN hand[s] = 1..Len(hand[s])
      /\ pos[s] \in 1..Len(hand[s]) /\ Distinct(hand[s])
  BY DEF TypeInv, Own, Fits, PlaceInv, OneByOne
<1>2. Left(s) = {hand[s][i] : i \in pos[s]..Len(hand[s])}
  BY DEF Left
<1>3. hand[s][pos[s]] \in Left(s)
  BY <1>1, <1>2
<1>4. CASE pos[s] = Len(hand[s])
  <2>1. hand'[s] = <<>> /\ pc'[s] = "select"
    BY <1>4, DoneFits DEF NextRow
  <2>2. Left(s)' = {}
    BY <2>1 DEF Left
  <2>3. Left(s) = {hand[s][pos[s]]}
    BY <1>1, <1>2, <1>4
  <2>4. QED
    BY <1>3, <2>1, <2>2, <2>3, EmptyFacts
<1>5. CASE pos[s] # Len(hand[s])
  <2>1. hand'[s] = hand[s] /\ pc'[s] = "put" /\ pos'[s] = pos[s] + 1
    BY <1>5 DEF NextRow, TypeInv, Own
  <2>2. Left(s)' = {hand[s][i] : i \in pos[s] + 1..Len(hand[s])}
    BY <2>1 DEF Left
  <2>3. ASSUME NEW i \in pos[s]..Len(hand[s])
        PROVE  hand[s][i] = hand[s][pos[s]] <=> i = pos[s]
    BY <1>1 DEF Distinct
  <2>4. pos[s]..Len(hand[s]) = {pos[s]} \cup (pos[s] + 1..Len(hand[s])) /\ pos[s] \notin pos[s] + 1..Len(hand[s])
    BY <1>1
  <2>5. Left(s)' = Left(s) \ {hand[s][pos[s]]}
    BY <1>2, <2>2, <2>3, <2>4
  <2>6. QED
    BY <1>1, <1>3, <2>1, <2>5
<1>6. QED
  BY <1>4, <1>5

\* A flush begins with rows p, which are those pending and perhaps one from the channel.
LEMMA BeginPlaces ==
    ASSUME TypeInv, PlaceInv, NEW s \in Shards, hand[s] = <<>>,
           NEW p \in [Sets -> Seq(Ids)], NEW a \in Sets,
           hand'[s] = p[a], pending'[s] = [p EXCEPT ![a] = <<>>], pc'[s] = "prepare",
           chan'[s] \in Seq(Ids), Distinct(chan'[s]),
           \A b \in Sets : /\ Distinct(p[b]) /\ Elems(p[b]) \cap Elems(chan'[s]) = {}
                           /\ \A r \in Elems(p[b]) : Row[r].set = b
    PROVE  /\ OneByOne(s)'
           /\ Held(s)' = Elems(chan'[s]) \cup Rows(p)
<1>1. Left(s)' = Elems(p[a])
  BY DEF Left, Elems
<1>2. pending'[s][a] = <<>> /\ \A b \in Sets \ {a} : pending'[s][b] = p[b]
  OBVIOUS
<1>3. ASSUME NEW b \in Sets
      PROVE  /\ Distinct(pending'[s][b]) /\ \A r \in Elems(pending'[s][b]) : Row[r].set = b
             /\ Elems(pending'[s][b]) \cap (Elems(chan'[s]) \cup Left(s)') = {}
  <2>1. CASE b = a
    BY <1>2, <2>1, EmptyFacts
  <2>2. CASE b # a
    <3>1. Elems(p[b]) \cap Elems(p[a]) = {}
      BY <2>2
    <3>2. QED
      BY <1>1, <1>2, <2>2, <3>1
  <2>3. QED
    BY <2>1, <2>2
<1>4. OneByOne(s)'
  BY <1>1, <1>3 DEF OneByOne
<1>5. Rows(p) = Rows(pending'[s]) \cup Left(s)'
  <2>1. ASSUME NEW r \in Rows(p)
        PROVE  r \in Rows(pending'[s]) \cup Left(s)'
    <3>1. PICK b \in Sets : r \in Elems(p[b])
      BY RowsIff
    <3>2. b # a => r \in Elems(pending'[s][b])
      BY <1>2, <3>1
    <3>3. b = a => r \in Left(s)'
      BY <1>1, <3>1
    <3>4. QED
      BY <3>2, <3>3, RowsIff
  <2>2. ASSUME NEW r \in Rows(pending'[s])
        PROVE  r \in Rows(p)
    <3>1. PICK b \in Sets : r \in Elems(pending'[s][b])
      BY Zenon, RowsIff
    <3>2. b # a
      BY <1>2, <3>1, EmptyFacts
    <3>3. QED
      BY <1>2, <3>1, <3>2, RowsIff
  <2>3. ASSUME NEW r \in Left(s)' PROVE r \in Rows(p)
    BY <1>1, <2>3, RowsIff
  <2>4. QED
    BY <2>1, <2>2, <2>3
<1>6. Held(s)' = Elems(chan'[s]) \cup Rows(pending'[s]) \cup Left(s)'
  BY DEF Held
<1>7. QED
  BY <1>4, <1>5, <1>6

\* A row received is pending, or in hand with the others of its set.
LEMMA ReceivePlaces ==
    ASSUME TypeInv, PlaceInv, NEW s \in Shards, Receive(s)
    PROVE  OneByOne(s)' /\ Held(s)' = Held(s)
<1> DEFINE r == Head(chan[s])
           a == Row[r].set
           p == [pending[s] EXCEPT ![a] = Append(@, r)]
<1>1. /\ chan[s] \in Seq(Ids) /\ chan[s] # <<>> /\ pending[s] \in [Sets -> Seq(Ids)]
      /\ OneByOne(s) /\ hand[s] = <<>> /\ pc[s] = "select"
  BY Zenon DEF TypeInv, Own, Fits, PlaceInv, Receive
<1>2. r \in Ids /\ a \in Sets /\ r \in Elems(chan[s])
  BY <1>1, TailFacts, RowFields
<1>3. /\ chan'[s] = Tail(chan[s]) /\ Tail(chan[s]) \in Seq(Ids) /\ Distinct(Tail(chan[s]))
      /\ Elems(Tail(chan[s])) = Elems(chan[s]) \ {r}
  <2>1. chan'[s] = Tail(chan[s])
    BY Zenon DEF Receive, TypeInv, Own
  <2>2. QED
    BY Zenon, <1>1, <2>1, TailFacts DEF OneByOne
<1>4. r \notin Elems(pending[s][a])
  BY <1>1, <1>2 DEF OneByOne
<1>5. /\ Append(pending[s][a], r) \in Seq(Ids) /\ Distinct(Append(pending[s][a], r))
      /\ Elems(Append(pending[s][a], r)) = Elems(pending[s][a]) \cup {r}
  BY Zenon, <1>1, <1>2, <1>4, AppendFacts DEF OneByOne
<1>6. /\ p \in [Sets -> Seq(Ids)] /\ p[a] = Append(pending[s][a], r)
      /\ \A b \in Sets \ {a} : p[b] = pending[s][b]
  BY Zenon, <1>1, <1>2, <1>5
<1>7. \/ BeginFlush(s, p, a)
      \/ pending' = [pending EXCEPT ![s] = p] /\ UNCHANGED <<hand, pos, pc>>
  BY Zenon DEF Receive
<1>8. Row[r].set = a
  OBVIOUS
<1> HIDE DEF p, a, r
<1>9. ASSUME NEW b \in Sets
      PROVE  /\ Distinct(p[b]) /\ Elems(p[b]) \cap Elems(chan'[s]) = {}
             /\ \A x \in Elems(p[b]) : Row[x].set = b
  BY ZenonT(60), <1>1, <1>2, <1>3, <1>5, <1>6, <1>8 DEF OneByOne
<1>10. Elems(chan'[s]) \cup Rows(p) = Elems(chan[s]) \cup Rows(pending[s])
  <2>1. ASSUME NEW x PROVE x \in Rows(p) <=> x \in Rows(pending[s]) \/ x = r
    <3>1. \A b \in Sets : x \in Elems(p[b]) <=> x \in Elems(pending[s][b]) \/ (b = a /\ x = r)
      BY <1>5, <1>6
    <3>2. QED
      BY <1>2, <3>1, RowsIff
  <2>2. QED
    BY <1>2, <1>3, <2>1
<1>11. Left(s) = {}
  BY <1>1 DEF Left
<1>12. CASE BeginFlush(s, p, a)
  <2>1. hand'[s] = p[a] /\ pending'[s] = [p EXCEPT ![a] = <<>>] /\ pc'[s] = "prepare"
    BY <1>12 DEF BeginFlush, TypeInv, Own
  <2>2. hand[s] = <<>> /\ chan'[s] \in Seq(Ids) /\ Distinct(chan'[s]) /\ p \in [Sets -> Seq(Ids)] /\ a \in Sets
    BY <1>1, <1>2, <1>3, <1>6
  <2>3. OneByOne(s)' /\ Held(s)' = Elems(chan'[s]) \cup Rows(p)
    BY <1>9, <2>1, <2>2, BeginPlaces
  <2>4. QED
    BY <1>10, <1>11, <2>3 DEF Held
<1>13. CASE pending' = [pending EXCEPT ![s] = p] /\ UNCHANGED <<hand, pos, pc>>
  <2>1. pending'[s] = p
    BY <1>13 DEF TypeInv, Own
  <2>2. Left(s)' = {} /\ hand'[s] = <<>>
    BY <1>1, <1>11, <1>13 DEF Left
  <2>3. OneByOne(s)'
    BY <1>3, <1>9, <2>1, <2>2, EmptyFacts DEF OneByOne
  <2>4. QED
    BY <1>10, <1>11, <2>1, <2>2, <2>3 DEF Held
<1>14. QED
  BY <1>7, <1>12, <1>13

\* A set's rows go from pending to hand.
LEMMA FlushPlaces ==
    ASSUME TypeInv, PlaceInv, NEW s \in Shards, FlushNext(s)
    PROVE  OneByOne(s)' /\ Held(s)' = Held(s)
<1>1. PICK a \in flushing[s] : BeginFlush(s, pending[s], a)
  BY DEF FlushNext
<1>2. /\ pending[s] \in [Sets -> Seq(Ids)] /\ a \in Sets /\ hand[s] = <<>> /\ OneByOne(s)
      /\ chan'[s] = chan[s] /\ chan[s] \in Seq(Ids)
  BY DEF FlushNext, TypeInv, Own, Fits, PlaceInv
<1>3. hand'[s] = pending[s][a] /\ pending'[s] = [pending[s] EXCEPT ![a] = <<>>] /\ pc'[s] = "prepare"
  BY <1>1 DEF BeginFlush, TypeInv, Own
<1>4. \A b \in Sets : /\ Distinct(pending[s][b]) /\ Elems(pending[s][b]) \cap Elems(chan'[s]) = {}
                      /\ \A x \in Elems(pending[s][b]) : Row[x].set = b
  BY <1>2 DEF OneByOne
<1>5. hand[s] = <<>> /\ chan'[s] \in Seq(Ids) /\ Distinct(chan'[s]) /\ pending[s] \in [Sets -> Seq(Ids)] /\ a \in Sets
  BY <1>2 DEF OneByOne
<1>6. OneByOne(s)' /\ Held(s)' = Elems(chan'[s]) \cup Rows(pending[s])
  <2> DEFINE p == pending[s]
  <2>1. /\ hand'[s] = p[a] /\ pending'[s] = [p EXCEPT ![a] = <<>>] /\ p \in [Sets -> Seq(Ids)]
        /\ \A b \in Sets : /\ Distinct(p[b]) /\ Elems(p[b]) \cap Elems(chan'[s]) = {}
                            /\ \A x \in Elems(p[b]) : Row[x].set = b
    BY <1>3, <1>4, <1>5
  <2> HIDE DEF p
  <2>2. OneByOne(s)' /\ Held(s)' = Elems(chan'[s]) \cup Rows(p)
    BY <1>3, <1>5, <2>1, BeginPlaces
  <2>3. QED
    BY <2>2 DEF p
<1>7. Left(s) = {}
  BY <1>2 DEF Left, FlushNext
<1>8. QED
  BY <1>2, <1>6, <1>7 DEF Held

\* The rows of a flush that is over.
LEMMA DoneLeft ==
    ASSUME TypeInv, NEW s \in Shards, Done(s), pc[s] \in {"prepare", "commit"}
    PROVE  /\ Left(s)' = {} /\ Left(s) = Elems(hand[s]) /\ Distinct(hand'[s])
<1>1. hand'[s] = <<>> /\ pc'[s] = "select"
  BY DoneFits
<1>2. Left(s)' = {}
  BY <1>1 DEF Left
<1>3. QED
  BY <1>1, <1>2, EmptyFacts DEF Left, Elems

\* A step of a shard, and the places.
LEMMA ShardPlaces ==
    ASSUME TypeInv, PlaceInv, NEW s \in Shards, ShardAct(s)
    PROVE  PlaceInv'
<1>1. Elsewhere(s) /\ UNCHANGED <<route, todo, closed, order>>
  BY ShardIsLocal
<1>2. ASSUME OneByOne(s)', Held(s)' = Held(s), UNCHANGED <<committed, failed, gaveUp>>
      PROVE  PlaceInv'
  <2>1. SettledAs({})
    BY <1>2 DEF SettledAs
  <2>2. {} \in SUBSET Held(s) /\ Held(s)' = Held(s) \ {}
    BY <1>2
  <2>3. QED
    BY <1>1, <1>2, <2>1, <2>2, Shuffle
<1>3. ASSUME chan'[s] = chan[s], pending'[s] = pending[s], Distinct(hand'[s]),
             NEW X \in SUBSET Left(s), Left(s)' = Left(s) \ X, SettledAs(X)
      PROVE  PlaceInv'
  <2>1. OneByOne(s)' /\ X \in SUBSET Held(s) /\ Held(s)' = Held(s) \ X
    BY <1>3, Settle
  <2>2. QED
    BY <1>1, <1>3, <2>1, Shuffle
<1>4. ASSUME chan'[s] = chan[s], pending'[s] = pending[s], hand'[s] = hand[s], Left(s)' = Left(s),
             UNCHANGED <<committed, failed, gaveUp>>
      PROVE  PlaceInv'
  <2>1. SettledAs({}) /\ {} \in SUBSET Left(s) /\ Left(s)' = Left(s) \ {} /\ Distinct(hand'[s])
    BY <1>4 DEF SettledAs, PlaceInv, OneByOne
  <2>2. QED
    BY <1>3, <1>4, <2>1
<1>5. CASE Receive(s)
  BY Zenon, <1>2, <1>5, ReceivePlaces DEF Receive, past
<1>6. CASE FlushNext(s)
  BY <1>2, <1>6, FlushPlaces DEF FlushNext, past
<1>7. CASE Age(s)
  BY <1>4, <1>7 DEF Age, past, Left
<1>8. CASE Finish(s)
  <2>1. pc[s] = "select" /\ pc'[s] \in {"select", "exit"} /\ hand' = hand
    BY <1>8 DEF Finish, TypeInv, Own
  <2>2. Left(s)' = Left(s)
    BY <2>1 DEF Left
  <2>3. QED
    BY <1>4, <1>8, <2>2 DEF Finish, past
<1>9. CASE Prepare(s)
  <2>1. hand' = hand /\ pc[s] = "prepare" /\ hand[s] \in Seq(Ids)
    BY <1>9 DEF Prepare, TypeInv, Own
  <2>2. \/ pc'[s] = "put" /\ pos'[s] = 1
        \/ pc'[s] \in {"prepare", "commit"}
    BY <1>9 DEF Prepare, TypeInv, Own
  <2>3. Left(s)' = Left(s)
    <3>1. DOMAIN hand[s] = 1..Len(hand[s])
      BY <2>1
    <3>2. QED
      BY <2>1, <2>2, <3>1 DEF Left
  <2>4. QED
    BY <1>4, <1>9, <2>1, <2>3 DEF Prepare, past
<1>10. CASE Commit(s)
  <2>1. Done(s) /\ pc[s] = "commit" /\ SettledAs(Elems(hand[s])) /\ chan' = chan /\ pending' = pending
    BY Zenon, <1>10 DEF Commit, SettledAs
  <2>2. Left(s)' = {} /\ Left(s) = Elems(hand[s]) /\ Distinct(hand'[s])
    BY <2>1, DoneLeft
  <2>3. QED
    BY Zenon, <1>3, <2>1, <2>2
<1>11. CASE BatchFails(s)
  <2>1. Done(s) /\ pc[s] \in {"prepare", "commit"} /\ SettledAs(Elems(hand[s])) /\ chan' = chan /\ pending' = pending
    BY <1>11 DEF BatchFails, SettledAs
  <2>2. Left(s)' = {} /\ Left(s) = Elems(hand[s]) /\ Distinct(hand'[s])
    BY <2>1, DoneLeft
  <2>3. QED
    BY <1>3, <2>1, <2>2
<1>12. ASSUME pc[s] \in {"put", "coerce"}, NextRow(s), chan' = chan, pending' = pending,
              SettledAs({hand[s][pos[s]]})
       PROVE  PlaceInv'
  <2>1. /\ hand[s][pos[s]] \in Left(s) /\ Left(s)' = Left(s) \ {hand[s][pos[s]]}
        /\ Distinct(hand'[s])
    BY <1>12, NextRowLeft
  <2>2. QED
    BY <1>3, <1>12, <2>1
<1>13. ASSUME pc[s] \in {"put", "coerce"}, pc'[s] \in {"put", "coerce"},
              UNCHANGED <<hand, pos, chan, pending, committed, failed, gaveUp>>
       PROVE  PlaceInv'
  <2>1. Left(s)' = Left(s)
    BY <1>13 DEF Left
  <2>2. QED
    BY <1>4, <1>13, <2>1
<1>14. CASE PutSingle(s)
  <2>1. pc[s] = "put" /\ UNCHANGED <<chan, pending, failed, gaveUp>>
    BY Zenon, <1>14 DEF PutSingle
  <2>2. \/ NextRow(s) /\ committed' = committed \cup {hand[s][pos[s]]}
        \/ pc' = [pc EXCEPT ![s] = "coerce"] /\ UNCHANGED <<committed, hand, pos>>
    BY Zenon, <1>14 DEF PutSingle
  <2>3. QED
    BY Zenon, <1>12, <1>13, <2>1, <2>2 DEF SettledAs, TypeInv, Own
<1>15. CASE PutFails(s)
  BY <1>12, <1>15 DEF PutFails, SettledAs
<1>16. CASE Coerce(s)
  <2>1. pc[s] = "coerce" /\ UNCHANGED <<chan, pending, committed, failed>>
    BY SMTT(60), <1>16 DEF Coerce
  <2>2. \/ NextRow(s) /\ gaveUp' = gaveUp \cup {hand[s][pos[s]]}
        \/ pc' = [pc EXCEPT ![s] = "put"] /\ UNCHANGED <<gaveUp, hand, pos>>
    BY <1>16 DEF Coerce
  <2>3. QED
    BY SMTT(60), <1>12, <1>13, <2>1, <2>2 DEF SettledAs, TypeInv, Own
<1>17. QED
  BY <1>5, <1>6, <1>7, <1>8, <1>9, <1>10, <1>11, <1>14, <1>15, <1>16 DEF ShardAct, ShardStep

\* A row submitted goes to the shard of its key.
LEMMA SubmitPlaces ==
    ASSUME TypeInv, PlaceInv, NEW w \in Workers, Submit(w)
    PROVE  PlaceInv'
<1>1. todo[w] \in Seq(Ids) /\ todo[w] # <<>> /\ todo \in [Workers -> Seq(Ids)] /\ order \in Seq(Ids)
  BY DEF Submit, TypeInv, Common
<1>2. Distinct(todo[w])
  BY <1>1 DEF PlaceInv, Distinct
<1>3. PICK r \in Ids : r = Head(todo[w])
  BY <1>1, TailFacts
<1>4. /\ r = todo[w][1] /\ 1 \in DOMAIN todo[w] /\ r \in Elems(todo[w])
      /\ Tail(todo[w]) \in Seq(Ids) /\ Elems(Tail(todo[w])) = Elems(todo[w]) \ {r}
      /\ \A i \in DOMAIN Tail(todo[w]) : i + 1 \in DOMAIN todo[w] /\ Tail(todo[w])[i] = todo[w][i + 1]
  BY <1>1, <1>2, <1>3, TailFacts
<1>5. PICK s \in Shards : s = route[Row[r].key]
  <2>1. Row[r].key \in Keys
    BY SMTT(60), RowFields
  <2>2. QED
    BY <2>1 DEF TypeInv, Common
<1>6. /\ chan' = [chan EXCEPT ![s] = Append(@, r)]
      /\ order' = Append(order, r) /\ todo' = [todo EXCEPT ![w] = Tail(@)]
      /\ UNCHANGED <<route, pending, hand, pos, pc, committed, failed, gaveUp>>
  BY <1>5, <1>3 DEF Submit
<1>7. r \notin Elems(order) /\ Elems(order') = Elems(order) \cup {r}
  BY <1>1, <1>4, <1>6, AppendFacts DEF PlaceInv
<1>8. \A t \in Shards : r \notin Held(t)
  BY <1>7 DEF PlaceInv
<1>9. /\ chan[s] \in Seq(Ids) /\ chan'[s] = Append(chan[s], r) /\ \A t \in Shards \ {s} : chan'[t] = chan[t]
  BY <1>5, <1>6 DEF TypeInv, Own
<1>10. Elems(chan'[s]) = Elems(chan[s]) \cup {r} /\ (Distinct(chan[s]) => Distinct(chan'[s]))
  <2>1. r \notin Elems(chan[s])
    BY <1>8 DEF Held
  <2>2. /\ Elems(Append(chan[s], r)) = Elems(chan[s]) \cup {r}
        /\ Distinct(chan[s]) => Distinct(Append(chan[s], r))
    BY <1>9, <2>1, AppendFacts
  <2>3. QED
    BY <1>9, <2>2
<1>11. \A t \in Shards : Left(t)' = Left(t)
  BY <1>6 DEF Left
<1>12. Held(s)' = Held(s) \cup {r} /\ \A t \in Shards \ {s} : Held(t)' = Held(t)
  <2>1. ASSUME NEW t \in Shards
        PROVE  Held(t)' = Elems(chan'[t]) \cup Rows(pending[t]) \cup Left(t)
    BY <1>6, <1>11 DEF Held
  <2>2. QED
    BY <1>9, <1>10, <2>1 DEF Held
<1>13. Settled' = Settled /\ r \notin Settled
  BY <1>6, <1>7 DEF Settled, PlaceInv
<1>14. ASSUME NEW v \in Workers
       PROVE  /\ \A i \in DOMAIN todo'[v] : \E k \in DOMAIN todo[v] :
                    todo'[v][i] = todo[v][k] /\ k = IF v = w THEN i + 1 ELSE i
              /\ Elems(todo'[v]) \cap Elems(order') = {}
  <2>1. CASE v = w
    <3>1. todo'[v] = Tail(todo[w])
      BY <1>1, <1>6, <2>1
    <3>2. QED
      BY <1>4, <1>7, <2>1, <3>1 DEF PlaceInv
  <2>2. CASE v # w
    <3>1. todo'[v] = todo[v]
      BY <1>1, <1>6, <2>2
    <3>2. r \notin Elems(todo[v])
      BY <1>4, <2>2 DEF PlaceInv, Elems
    <3>3. QED
      BY <1>7, <2>2, <3>1, <3>2 DEF PlaceInv
  <2>3. QED
    BY <2>1, <2>2
<1>15. ASSUME NEW v \in Workers, NEW u \in Workers, NEW i \in DOMAIN todo'[v], NEW j \in DOMAIN todo'[u],
              todo'[v][i] = todo'[u][j]
       PROVE  v = u /\ i = j
  <2>1. PICK k \in DOMAIN todo[v] : todo'[v][i] = todo[v][k] /\ k = IF v = w THEN i + 1 ELSE i
    BY <1>14
  <2>2. PICK l \in DOMAIN todo[u] : todo'[u][j] = todo[u][l] /\ l = IF u = w THEN j + 1 ELSE j
    BY <1>14
  <2>3. v = u /\ k = l
    <3>1. todo[v][k] = todo[u][l]
      BY <1>15, <2>1, <2>2
    <3>2. QED
      BY <3>1 DEF PlaceInv
  <2>4. i \in Nat /\ j \in Nat
    <3>1. todo' \in [Workers -> Seq(Ids)]
      BY <1>1, <1>4, <1>6
    <3>2. QED
      BY <3>1
  <2>5. QED
    BY <2>1, <2>2, <2>3, <2>4
<1>16. ASSUME NEW t \in Shards PROVE OneByOne(t)'
  <2>1. OneByOne(t)
    BY DEF PlaceInv
  <2>2. CASE t = s
    <3>1. r \notin Left(s) /\ \A a \in Sets : r \notin Elems(pending[s][a])
      BY <1>5, <1>8, RowsIff DEF Held
    <3>2. QED
      BY <1>6, <1>10, <1>11, <2>1, <2>2, <3>1 DEF OneByOne
  <2>3. CASE t # s
    BY <1>6, <1>9, <1>11, <2>1, <2>3 DEF OneByOne
  <2>4. QED
    BY <2>2, <2>3
<1>17. ASSUME NEW t \in Shards, NEW x \in Held(t)'
       PROVE  route'[Row[x].key] = t /\ x \in Elems(order)' \ Settled'
  <2>1. CASE x = r /\ t = s
    BY <1>5, <1>6, <1>7, <1>13, <2>1
  <2>2. CASE ~(x = r /\ t = s)
    <3>1. x \in Held(t)
      BY <1>12, <1>17, <2>2
    <3>2. QED
      BY <1>6, <1>7, <1>13, <3>1 DEF PlaceInv
  <2>3. QED
    BY <2>1, <2>2
<1>18. ASSUME NEW x \in Elems(order)' PROVE x \in Held(route[Row[x].key])' \cup Settled'
  <2>1. CASE x = r
    BY <1>5, <1>6, <1>12, <2>1
  <2>2. CASE x # r
    <3>1. x \in Elems(order) /\ x \in Held(route[Row[x].key]) \cup Settled
      BY <1>7, <1>18, <2>2 DEF PlaceInv
    <3>2. route[Row[x].key] \in Shards
      <4>1. x \in Ids
        BY <1>1, <3>1 DEF Elems
      <4>2. Row[x].key \in Keys
        BY <4>1, RowFields
      <4>3. QED
        BY <4>2 DEF TypeInv, Common
    <3>3. QED
      BY <1>6, <1>12, <1>13, <3>1, <3>2
  <2>3. QED
    BY <2>1, <2>2
<1>19. /\ Settled' \subseteq Elems(order)'
       /\ committed' \cap failed' = {} /\ committed' \cap gaveUp' = {} /\ failed' \cap gaveUp' = {}
  BY <1>6, <1>7, <1>13 DEF PlaceInv
<1>20. route' = route
  BY <1>6
<1>21. /\ \A v, u \in Workers : \A i \in DOMAIN todo'[v], j \in DOMAIN todo'[u] :
             todo'[v][i] = todo'[u][j] => v = u /\ i = j
       /\ \A v \in Workers : Elems(todo'[v]) \cap Elems(order') = {}
  BY <1>14, <1>15
<1>22. QED
  BY SMTT(60), <1>16, <1>17, <1>18, <1>19, <1>20, <1>21 DEF PlaceInv

\* No row has been submitted initially.
LEMMA PlaceInit == Init => PlaceInv
<1> SUFFICES ASSUME Init PROVE PlaceInv
  OBVIOUS
<1>1. /\ order = <<>> /\ Settled = {} /\ committed = {} /\ failed = {} /\ gaveUp = {} /\ todo = Load
      /\ Elems(order) = {}
  BY EmptyFacts DEF Init, Settled
<1>2. ASSUME NEW s \in Shards PROVE OneByOne(s) /\ Held(s) = {}
  <2>1. /\ chan[s] = <<>> /\ hand[s] = <<>> /\ pc[s] = "select"
        /\ \A a \in Sets : pending[s][a] = <<>>
    BY DEF Init
  <2>2. Left(s) = {}
    BY <2>1 DEF Left
  <2>3. Rows(pending[s]) = {}
    BY <2>1, EmptyFacts, RowsIff
  <2>4. QED
    BY <2>1, <2>2, <2>3, EmptyFacts DEF OneByOne, Held
<1>3. \A v, w \in Workers : \A i \in DOMAIN todo[v], j \in DOMAIN todo[w] :
         todo[v][i] = todo[w][j] => v = w /\ i = j
  BY <1>1, LoadAssumption
<1>4. QED
  BY <1>1, <1>2, <1>3 DEF PlaceInv

\* Every step keeps every row in its place.
LEMMA PlaceNext == TypeInv /\ PlaceInv /\ [Next]_vars => PlaceInv'
<1> SUFFICES ASSUME TypeInv, PlaceInv, [Next]_vars PROVE PlaceInv'
  OBVIOUS
<1>1. ASSUME NEW w \in Workers, Submit(w) PROVE PlaceInv'
  BY <1>1, SubmitPlaces
<1>2. ASSUME NEW s \in Shards, ShardAct(s) PROVE PlaceInv'
  BY <1>2, ShardPlaces
<1>3. CASE UNCHANGED <<route, todo, flusher, past>>
  <2>1. ASSUME NEW s \in Shards PROVE Left(s)' = Left(s) /\ (OneByOne(s) => OneByOne(s)') /\ Held(s)' = Held(s)
    <3>1. Left(s)' = Left(s)
      BY <1>3 DEF flusher, Left
    <3>2. QED
      BY <1>3, <3>1 DEF flusher, OneByOne, Held
  <2>2. Settled' = Settled
    BY <1>3 DEF past, Settled
  <2>3. ASSUME NEW r \in Elems(order)' PROVE r \in Held(route[Row[r].key])' \cup Settled'
    <3>1. r \in Ids /\ r \in Elems(order)
      BY <1>3, <2>3 DEF past, Elems, TypeInv, Common
    <3>2. PICK s \in Shards : s = route[Row[r].key]
      <4>1. Row[r].key \in Keys
        BY <3>1, RowFields
      <4>2. QED
        BY <4>1 DEF TypeInv, Common
    <3>3. r \in Held(s) \cup Settled
      BY Zenon, <3>1, <3>2 DEF PlaceInv
    <3>4. QED
      BY <1>3, <2>1, <2>2, <3>2, <3>3
  <2>4. QED
    BY <1>3, <2>1, <2>2, <2>3 DEF past, PlaceInv
<1>4. QED
  BY <1>1, <1>2, <1>3 DEF Next, ShardAct, Close, Closed, vars, flusher, past

-----------------------------------------------------------------------------
(*                         The retries suffice                             *)

\* What the columns' limit is for: fewer columns than tries.
FewColumns == IsFiniteSet(Cols) /\ Cardinality(Cols) < MaxRetries

\* A column's type is for good.
SchemaGrows == \A a \in Sets, c \in Cols : schema[a][c] # None => schema'[a][c] = schema[a][c]

\* A step of a shard adds types, and changes none.
LEMMA ShardSchema ==
    ASSUME TypeInv, NEW s \in Shards, ShardAct(s)
    PROVE  SchemaGrows
<1>1. CASE UNCHANGED schema
  BY <1>1 DEF SchemaGrows
<1>2. schema \in [Sets -> Vals]
  BY DEF TypeInv, Common
<1>3. CASE Prepare(s)
  <2>1. PICK r \in Ids : r = hand[s][pos[s]]
    BY <1>3 DEF Prepare, TypeInv, Own, Fits
  <2>2. Row[r].set \in Sets /\ Row[r].vals \in Vals
    BY RowFields
  <2>3. UNCHANGED schema \/ schema' = Learn(Row[r].set, Row[r].vals)
    BY <1>3, <2>1 DEF Prepare
  <2>4. \A b \in Sets, c \in Cols :
           schema[b][c] # None => Learn(Row[r].set, Row[r].vals)[b][c] = schema[b][c]
    BY <1>2, <2>2, LearnFacts
  <2>5. QED
    BY <1>1, <2>3, <2>4 DEF SchemaGrows
<1>4. CASE PutSingle(s)
  <2>1. PICK r \in Ids : r = hand[s][pos[s]]
    BY <1>4 DEF PutSingle, TypeInv, Own, Fits
  <2>2. Row[r].set \in Sets /\ vals[s] \in Vals
    BY Zenon, <1>4, RowFields DEF PutSingle, TypeInv, Fits
  <2>3. UNCHANGED schema \/ schema' = Learn(Row[r].set, vals[s])
    BY Zenon, <1>4, <2>1 DEF PutSingle, store
  <2>4. \A b \in Sets, c \in Cols :
           schema[b][c] # None => Learn(Row[r].set, vals[s])[b][c] = schema[b][c]
    BY <1>2, <2>2, LearnFacts
  <2>5. QED
    BY <1>1, <2>3, <2>4 DEF SchemaGrows
<1>5. QED
  BY Zenon, <1>1, <1>3, <1>4 DEF ShardAct, ShardStep, Receive, Age, Finish, FlushNext, Commit, BatchFails,
     PutFails, Coerce, store

\* More columns fixed, at least as many.
LEMMA MoreFixed ==
    ASSUME IsFiniteSet(Cols), NEW A \in SUBSET Cols, NEW B \in SUBSET Cols, A \subseteq B
    PROVE  /\ Cardinality(A) <= Cardinality(B) /\ Cardinality(A) \in Nat /\ Cardinality(B) \in Nat
           /\ \A c \in B \ A : Cardinality(A) + 1 <= Cardinality(B)
<1>1. IsFiniteSet(A) /\ IsFiniteSet(B) /\ Cardinality(A) <= Cardinality(B)
  BY FS_Subset
<1>2. Cardinality(A) \in Nat /\ Cardinality(B) \in Nat
  BY <1>1, FS_CardinalityType
<1>3. ASSUME NEW c \in B \ A PROVE Cardinality(A) + 1 <= Cardinality(B)
  <2>1. Cardinality(A) # Cardinality(B)
    BY <1>1, <1>3, FS_Subset
  <2>2. QED
    BY <1>1, <1>2, <2>1
<1>4. QED
  BY <1>1, <1>2, <1>3

\* As the schema grows, no fewer columns are fixed, and a conflict stays one.
LEMMA TriedStays ==
    ASSUME IsFiniteSet(Cols), NEW t \in Nat, NEW g \in [Sets -> Vals], NEW h \in [Sets -> Vals],
           NEW a \in Sets, NEW v \in Vals, NEW p, Tried(t, g, a, v, p),
           \A b \in Sets, c \in Cols : g[b][c] # None => h[b][c] = g[b][c]
    PROVE  Tried(t, h, a, v, p)
<1>1. FixedBy(g, a, v) \subseteq FixedBy(h, a, v) /\ FixedBy(g, a, v) \in SUBSET Cols /\ FixedBy(h, a, v) \in SUBSET Cols
  BY DEF FixedBy
<1>2. /\ Cardinality(FixedBy(g, a, v)) <= Cardinality(FixedBy(h, a, v))
      /\ Cardinality(FixedBy(g, a, v)) \in Nat /\ Cardinality(FixedBy(h, a, v)) \in Nat
  BY <1>1, MoreFixed
<1>3. QED
  BY <1>2 DEF Tried

\* No tries yet.
LEMMA TriedAfresh ==
    ASSUME IsFiniteSet(Cols), NEW g, NEW a, NEW v, NEW p, p # "coerce"
    PROVE  Tried(0, g, a, v, p)
<1>1. FixedBy(g, a, v) \in SUBSET Cols
  BY DEF FixedBy
<1>2. Cardinality(FixedBy(g, a, v)) \in Nat
  BY <1>1, MoreFixed
<1>3. QED
  BY <1>2 DEF Tried

\* A conflict uses up a try.
LEMMA TriedOnce ==
    ASSUME IsFiniteSet(Cols), NEW t \in Nat, NEW g \in [Sets -> Vals], NEW a \in Sets, NEW v \in Vals,
           Tried(t, g, a, v, "put"), \E c \in Cols : v[c] # None /\ g[a][c] # None /\ v[c] # g[a][c]
    PROVE  Tried(t + 1, g, a, v, "coerce")
<1>1. FixedBy(g, a, v) \in SUBSET Cols
  BY DEF FixedBy
<1>2. Cardinality(FixedBy(g, a, v)) \in Nat
  BY <1>1, MoreFixed
<1>3. t + 1 <= Cardinality(FixedBy(g, a, v)) + 1
  BY <1>2 DEF Tried
<1>4. QED
  BY <1>3 DEF Tried

\* Coercing a row fixes the column it conflicted in.
LEMMA CoerceFixes ==
    ASSUME IsFiniteSet(Cols), NEW t \in Nat, NEW g \in [Sets -> Vals], NEW a \in Sets, NEW v \in Vals,
           Tried(t, g, a, v, "coerce"), NEW u \in Vals, \A c \in Cols : u[c] \in Coerced(v[c], g[a][c])
    PROVE  Tried(t, g, a, u, "put")
<1>1. PICK c \in Cols : v[c] # None /\ g[a][c] # None /\ v[c] # g[a][c]
  BY DEF Tried
<1>2. /\ FixedBy(g, a, v) \subseteq FixedBy(g, a, u)
      /\ FixedBy(g, a, v) \in SUBSET Cols /\ FixedBy(g, a, u) \in SUBSET Cols
  BY DEF FixedBy, Coerced
<1>3. c \in FixedBy(g, a, u) \ FixedBy(g, a, v)
  BY <1>1 DEF FixedBy, Coerced
<1>4. /\ Cardinality(FixedBy(g, a, v)) + 1 <= Cardinality(FixedBy(g, a, u))
      /\ Cardinality(FixedBy(g, a, v)) \in Nat /\ Cardinality(FixedBy(g, a, u)) \in Nat
  BY <1>2, <1>3, MoreFixed
<1>5. t <= Cardinality(FixedBy(g, a, v)) + 1
  BY DEF Tried
<1>6. QED
  BY <1>4, <1>5 DEF Tried

\* A row that conflicts has a try left.
LEMMA TryLeft ==
    ASSUME FewColumns, NEW t \in Nat, NEW g \in [Sets -> Vals], NEW a \in Sets, NEW v \in Vals,
           Tried(t, g, a, v, "coerce")
    PROVE  t < MaxRetries
<1>1. PICK c \in Cols : v[c] # None /\ g[a][c] # None /\ v[c] # g[a][c]
  BY DEF Tried
<1>2. FixedBy(g, a, v) \in SUBSET Cols /\ Cols \in SUBSET Cols /\ c \in Cols \ FixedBy(g, a, v)
  BY <1>1 DEF FixedBy
<1>3. /\ Cardinality(FixedBy(g, a, v)) + 1 <= Cardinality(Cols)
      /\ Cardinality(FixedBy(g, a, v)) \in Nat /\ Cardinality(Cols) \in Nat
  BY <1>2, MoreFixed DEF FewColumns
<1>4. t <= Cardinality(FixedBy(g, a, v)) + 1
  BY DEF Tried
<1>5. QED
  BY <1>3, <1>4, FlushSizeFacts DEF FewColumns

\* What the shard of a row in the fallback has.
LEMMA InHand ==
    ASSUME TypeInv, NEW s \in Shards, pc[s] \in {"put", "coerce"}
    PROVE  /\ hand[s][pos[s]] \in Ids /\ Row[hand[s][pos[s]]].set \in Sets
           /\ vals[s] \in Vals /\ tries[s] \in Nat /\ schema \in [Sets -> Vals]
<1>1. hand[s][pos[s]] \in Ids
  BY DEF TypeInv, Own, Fits
<1>2. Row[hand[s][pos[s]]].set \in Sets
  BY <1>1, RowFields
<1>3. QED
  BY <1>1, <1>2, FlushSizeFacts DEF TypeInv, Own, Common, Fits

\* A step of a shard: the tries of the others,
LEMMA OthersTried ==
    ASSUME TypeInv, TypeInv', IsFiniteSet(Cols), NEW s \in Shards, NEW t \in Shards, SchemaGrows,
           hand'[t] = hand[t], pos'[t] = pos[t], vals'[t] = vals[t], tries'[t] = tries[t], pc'[t] = pc[t],
           pc[t] \in {"put", "coerce"},
           Tried(tries[t], schema, Row[hand[t][pos[t]]].set, vals[t], pc[t])
    PROVE  Tried(tries'[t], schema', Row[hand'[t][pos'[t]]].set, vals'[t], pc'[t])
<1>1. Row[hand[t][pos[t]]].set \in Sets /\ vals[t] \in Vals /\ tries[t] \in Nat
      /\ schema \in [Sets -> Vals] /\ schema' \in [Sets -> Vals]
  BY InHand DEF TypeInv, Common
<1>2. \A b \in Sets, c \in Cols : schema[b][c] # None => schema'[b][c] = schema[b][c]
  BY DEF SchemaGrows
<1>3. Tried(tries[t], schema', Row[hand[t][pos[t]]].set, vals[t], pc[t])
  BY <1>1, <1>2, TriedStays
<1>4. QED
  BY <1>3

\* its own,
LEMMA OwnTried ==
    ASSUME TypeInv, TypeInv', RetryInv, IsFiniteSet(Cols), NEW s \in Shards, ShardAct(s),
           pc'[s] \in {"put", "coerce"}
    PROVE  Tried(tries'[s], schema', Row[hand'[s][pos'[s]]].set, vals'[s], pc'[s])
<1>1. ASSUME tries'[s] = 0, pc'[s] # "coerce"
      PROVE  Tried(tries'[s], schema', Row[hand'[s][pos'[s]]].set, vals'[s], pc'[s])
  BY <1>1, TriedAfresh
<1>2. ASSUME NextRow(s)
      PROVE  tries'[s] = 0 /\ pc'[s] # "coerce"
  BY <1>2 DEF NextRow, Done, TypeInv, Own
<1>3. CASE Prepare(s)
  <2>1. tries'[s] = 0 /\ pc'[s] # "coerce"
    BY SMTT(30), <1>3 DEF Prepare, TypeInv, Own
  <2>2. QED
    BY <1>1, <2>1
<1>4. CASE PutFails(s)
  BY <1>1, <1>2, <1>4 DEF PutFails
<1>5. CASE PutSingle(s)
  <2>1. CASE /\ Conflicts(Row[hand[s][pos[s]]].set, vals[s]) # {}
             /\ tries' = [tries EXCEPT ![s] = @ + 1]
             /\ pc' = [pc EXCEPT ![s] = "coerce"]
             /\ UNCHANGED <<store, committed, hand, pos, vals>>
    <3>1. /\ Row[hand[s][pos[s]]].set \in Sets /\ vals[s] \in Vals /\ tries[s] \in Nat
          /\ schema \in [Sets -> Vals] /\ pc[s] = "put"
      BY Zenon, <1>5, InHand DEF PutSingle
    <3>2. Tried(tries[s], schema, Row[hand[s][pos[s]]].set, vals[s], "put")
      BY SMTT(60), <3>1 DEF RetryInv
    <3>3. \E c \in Cols : /\ vals[s][c] # None /\ schema[Row[hand[s][pos[s]]].set][c] # None
                          /\ vals[s][c] # schema[Row[hand[s][pos[s]]].set][c]
      BY <2>1 DEF Conflicts
    <3>4. Tried(tries[s] + 1, schema, Row[hand[s][pos[s]]].set, vals[s], "coerce")
      BY SMTT(30), <3>1, <3>2, <3>3, TriedOnce
    <3>5. tries'[s] = tries[s] + 1 /\ pc'[s] = "coerce" /\ UNCHANGED <<schema, hand, pos, vals>>
      BY <2>1 DEF store, TypeInv, Own
    <3>6. QED
      BY Zenon, <3>4, <3>5
  <2>2. CASE NextRow(s)
    BY Zenon, <1>1, <1>2, <2>2
  <2>3. QED
    BY Zenon, <1>5, <2>1, <2>2 DEF PutSingle
<1>6. CASE Coerce(s)
  <2>1. CASE NextRow(s)
    BY <1>1, <1>2, <2>1
  <2>2. ASSUME NEW u \in Vals,
               \A c \in Cols : u[c] \in Coerced(vals[s][c], schema[Row[hand[s][pos[s]]].set][c]),
               vals' = [vals EXCEPT ![s] = u], pc' = [pc EXCEPT ![s] = "put"],
               UNCHANGED <<tries, hand, pos>>
        PROVE  Tried(tries'[s], schema', Row[hand'[s][pos'[s]]].set, vals'[s], pc'[s])
    <3>1. /\ Row[hand[s][pos[s]]].set \in Sets /\ vals[s] \in Vals /\ tries[s] \in Nat
          /\ schema \in [Sets -> Vals] /\ pc[s] = "coerce" /\ schema' = schema
      BY <1>6, InHand DEF Coerce, store
    <3>2. Tried(tries[s], schema, Row[hand[s][pos[s]]].set, vals[s], "coerce")
      BY <3>1 DEF RetryInv
    <3>3. Tried(tries[s], schema, Row[hand[s][pos[s]]].set, u, "put")
      BY <2>2, <3>1, <3>2, CoerceFixes
    <3>4. vals'[s] = u /\ pc'[s] = "put"
      BY <2>2 DEF TypeInv, Own
    <3>5. QED
      BY SMTT(60), <2>2, <3>1, <3>3, <3>4
  <2>3. \/ NextRow(s)
        \/ \E u \in Vals :
              /\ \A c \in Cols : u[c] \in Coerced(vals[s][c], schema[Row[hand[s][pos[s]]].set][c])
              /\ vals' = [vals EXCEPT ![s] = u] /\ pc' = [pc EXCEPT ![s] = "put"]
              /\ UNCHANGED <<tries, hand, pos>>
    BY <1>6, Zenon DEF Coerce, Vals
  <2>4. QED
    BY <2>1, <2>2, <2>3
<1>7. CASE pc'[s] \in {"select", "prepare", "exit"}
  BY <1>7
<1>8. CASE Receive(s) \/ FlushNext(s) \/ Age(s) \/ Finish(s)
  <2>1. pc[s] = "select"
    BY ZenonT(40), <1>8 DEF Receive, FlushNext, Age, Finish
  <2>2. pc'[s] \in {"select", "prepare", "exit"}
    BY ZenonT(40), <1>8, <2>1 DEF Receive, FlushNext, Age, Finish, BeginFlush, TypeInv, Own
  <2>3. QED
    BY Zenon, <1>7, <2>2
<1>9. CASE Commit(s) \/ BatchFails(s)
  BY Zenon, <1>7, <1>9 DEF Commit, BatchFails, Done, TypeInv, Own
<1>10. QED
  BY <1>3, <1>4, <1>5, <1>6, <1>8, <1>9 DEF ShardAct, ShardStep

\* and everybody's.
LEMMA RetryNext ==
    TypeInv /\ TypeInv' /\ RetryInv /\ IsFiniteSet(Cols) /\ [Next]_vars => RetryInv'
<1> SUFFICES ASSUME TypeInv, TypeInv', RetryInv, IsFiniteSet(Cols), [Next]_vars,
                    NEW t \in Shards, pc'[t] \in {"put", "coerce"}
             PROVE  Tried(tries'[t], schema', Row[hand'[t][pos'[t]]].set, vals'[t], pc'[t])
  BY DEF RetryInv
<1>1. ASSUME NEW s \in Shards, ShardAct(s)
      PROVE  Tried(tries'[t], schema', Row[hand'[t][pos'[t]]].set, vals'[t], pc'[t])
  <2>1. CASE t = s
    BY <1>1, <2>1, OwnTried
  <2>2. CASE t # s
    <3>1. /\ hand'[t] = hand[t] /\ pos'[t] = pos[t] /\ vals'[t] = vals[t] /\ tries'[t] = tries[t]
          /\ pc'[t] = pc[t]
      BY <1>1, <2>2, ShardIsLocal DEF Elsewhere
    <3>2. pc[t] \in {"put", "coerce"} /\ SchemaGrows
      BY <1>1, <3>1, ShardSchema
    <3>3. Tried(tries[t], schema, Row[hand[t][pos[t]]].set, vals[t], pc[t])
      BY <3>2 DEF RetryInv
    <3>4. QED
      BY <3>1, <3>2, <3>3, OthersTried
  <2>3. QED
    BY <2>1, <2>2
<1>2. CASE UNCHANGED <<hand, pos, vals, tries, pc, schema>>
  BY <1>2 DEF RetryInv
<1>3. ASSUME NEW w \in Workers, Submit(w)
      PROVE  UNCHANGED <<hand, pos, vals, tries, pc, schema>>
  BY <1>3 DEF Submit, store
<1>4. CASE Close \/ Closed \/ UNCHANGED vars
  BY <1>2, <1>4 DEF Close, Closed, vars, flusher, store
<1>5. QED
  BY <1>1, <1>2, <1>3, <1>4 DEF Next, ShardAct

\* With fewer columns than tries, no row runs out of them.
LEMMA NoneGivenUp ==
    TypeInv /\ RetryInv /\ FewColumns /\ RetriesSuffice /\ [Next]_vars => RetriesSuffice'
<1> SUFFICES ASSUME TypeInv, RetryInv, FewColumns, RetriesSuffice, [Next]_vars
             PROVE  RetriesSuffice'
  OBVIOUS
<1>1. ASSUME NEW s \in Shards, Coerce(s) PROVE gaveUp' = gaveUp
  <2>1. /\ Row[hand[s][pos[s]]].set \in Sets /\ vals[s] \in Vals /\ tries[s] \in Nat
        /\ schema \in [Sets -> Vals] /\ pc[s] = "coerce"
    BY <1>1, InHand DEF Coerce
  <2>2. Tried(tries[s], schema, Row[hand[s][pos[s]]].set, vals[s], "coerce")
    BY <2>1 DEF RetryInv
  <2>3. tries[s] < MaxRetries
    BY <2>1, <2>2, TryLeft
  <2>4. ~(tries[s] >= MaxRetries)
    BY <2>1, <2>3, FlushSizeFacts
  <2>5. QED
    BY SMTT(60), <1>1, <2>4 DEF Coerce
<1>2. ASSUME NEW s \in Shards, ShardAct(s) PROVE gaveUp' = gaveUp
  BY Zenon, <1>1, <1>2 DEF ShardAct, ShardStep, Receive, Age, Finish, FlushNext, Prepare, Commit, PutSingle,
     BatchFails, PutFails, past
<1>3. gaveUp' = gaveUp
  BY Zenon, <1>2 DEF Next, ShardAct, Submit, Close, Closed, past, vars
<1>4. QED
  BY <1>3 DEF RetriesSuffice

-----------------------------------------------------------------------------
(*                             The theorems                                *)

\* The state of the batcher is well formed; a channel never holds more than its
\* capacity and a set never waits once it has FlushSize rows.
THEOREM Typed == Spec => []TypeOK
<1>1. TypeInv => TypeOK
  <2> SUFFICES ASSUME TypeInv PROVE TypeOK
    OBVIOUS
  <2>1. ASSUME NEW s \in Shards
        PROVE  /\ chan[s] \in Seq(Ids) /\ Len(chan[s]) <= ChanCap
               /\ \A a \in Sets : pending[s][a] \in Seq(Ids) /\ Len(pending[s][a]) < FlushSize
               /\ hand[s] \in Seq(Ids) /\ flushing[s] \subseteq Waiting(s)
               /\ pos[s] \in 1..(FlushSize + 1) /\ tries[s] \in 0..MaxRetries
    BY DEF TypeInv, Own, Fits
  <2>2. QED
    BY <2>1 DEF TypeInv, Own, Common, TypeOK, Places, Vals
<1>2. QED
  BY <1>1, TypeInit, TypeNext, PTL DEF Spec

\* The invariant, as a whole.
IInv == TypeInv /\ ExitInv /\ PlaceInv

\* Every submitted row is in exactly one place: with one shard, written, or
\* logged as lost; when close has returned, none is with a shard
\* (putBatcher.run, putBatcher.close).
THEOREM RowsAreAccounted == Spec => []RowsAccounted
<1>1. IInv /\ TypeOK => RowsAccounted
  <2> SUFFICES ASSUME IInv, TypeOK PROVE RowsAccounted
    OBVIOUS
  <2> USE DEF IInv
  <2>1. ASSUME NEW r \in Elems(order)
        PROVE  Cardinality({s \in Shards : r \in Held(s)} \cup {o \in DOMAIN Outcome : r \in Outcome[o]}) = 1
    <3> DEFINE H == {s \in Shards : r \in Held(s)}
               O == {o \in DOMAIN Outcome : r \in Outcome[o]}
    <3>1. PICK u \in Shards : u = route[Row[r].key]
      <4>1. r \in Ids
        BY DEF Elems, TypeInv, Common
      <4>2. Row[r].key \in Keys
        BY <4>1, RowFields
      <4>3. QED
        BY <4>2 DEF TypeInv, Common
    <3>2. \A s \in Shards : r \in Held(s) => s = u /\ r \notin Settled
      BY <3>1 DEF PlaceInv
    <3>3. r \in Held(u) \cup Settled
      BY <3>1 DEF PlaceInv
    <3>4. /\ DOMAIN Outcome = {"written", "error", "conflict"}
          /\ Outcome["written"] = committed /\ Outcome["error"] = failed /\ Outcome["conflict"] = gaveUp
      BY DEF Outcome
    <3>5. \E x : H \cup O = {x}
      <4>1. CASE r \in Held(u)
        <5>1. H = {u}
          BY <3>2, <4>1
        <5>2. O = {}
          BY <3>2, <3>4, <4>1 DEF Settled
        <5>3. QED
          BY <5>1, <5>2
      <4>2. CASE r \in Settled
        <5>1. H = {}
          BY <3>2, <4>2
        <5>2. \E x : O = {x}
          <6>1. committed \cap failed = {} /\ committed \cap gaveUp = {} /\ failed \cap gaveUp = {}
            BY DEF PlaceInv
          <6>2. CASE r \in committed
            <7>1. O = {"written"}
              BY <3>4, <6>1, <6>2
            <7>2. QED
              BY <7>1
          <6>3. CASE r \in failed
            <7>1. O = {"error"}
              BY <3>4, <6>1, <6>3
            <7>2. QED
              BY <7>1
          <6>4. CASE r \in gaveUp
            <7>1. O = {"conflict"}
              BY <3>4, <6>1, <6>4
            <7>2. QED
              BY <7>1
          <6>5. QED
            BY <4>2, <6>2, <6>3, <6>4 DEF Settled
        <5>3. QED
          BY <5>1, <5>2
      <4>3. QED
        BY <3>3, <4>1, <4>2
    <3> HIDE DEF H, O
    <3>6. Cardinality(H \cup O) = 1
      BY <3>5, FS_Singleton
    <3>7. QED
      BY <3>6 DEF H, O
  <2>2. ASSUME closed = "done" PROVE Elems(order) \subseteq committed \cup failed \cup gaveUp
    <3>1. ASSUME NEW s \in Shards PROVE Held(s) = {}
      <4>1. /\ pc[s] = "exit" /\ chan[s] = <<>> /\ hand[s] = <<>>
            /\ \A a \in Sets : pending[s][a] = <<>>
        BY <2>2 DEF ExitInv, TypeInv, Fits, Waiting
      <4>2. Left(s) = {} /\ Rows(pending[s]) = {}
        BY <4>1, EmptyFacts, RowsIff DEF Left
      <4>3. QED
        BY <4>1, <4>2, EmptyFacts DEF Held
    <3>2. ASSUME NEW r \in Elems(order) PROVE r \in Settled
      <4>1. r \in Ids
        BY DEF Elems, TypeInv, Common
      <4>2. Row[r].key \in Keys
        BY <4>1, RowFields
      <4>3. route[Row[r].key] \in Shards
        BY <4>2 DEF TypeInv, Common
      <4>4. QED
        BY <3>1, <4>3 DEF PlaceInv
    <3>3. QED
      BY <3>2 DEF Settled
  <2>3. QED
    BY <2>1, <2>2 DEF RowsAccounted
<1>2. Init => IInv
  BY TypeInit, ExitInit, PlaceInit DEF IInv
<1>3. IInv /\ [Next]_vars => IInv'
  BY TypeNext, ExitNext, PlaceNext DEF IInv
<1>4. QED
  BY <1>1, <1>2, <1>3, Typed, PTL DEF Spec

\* A set that has fewer columns than a row has tries never loses a row to a type
\* conflict, however its shards race for the types of its columns
\* (putDataSingle, putDataMaxRetries).
THEOREM RetriesDoSuffice == ASSUME FewColumns PROVE Spec => []RetriesSuffice
<1>1. Init => RetryInv /\ RetriesSuffice
  BY DEF Init, RetryInv, RetriesSuffice
<1>2. TypeInv /\ RetryInv /\ RetriesSuffice /\ [Next]_vars => TypeInv' /\ RetryInv' /\ RetriesSuffice'
  BY TypeNext, RetryNext, NoneGivenUp DEF FewColumns
<1>3. QED
  BY <1>1, <1>2, TypeInit, TypeNext, PTL DEF Spec
-----------------------------------------------------------------------------
(*         Order and types: the row stored at a key is the one            *)
(*         submitted last of those written, with values of its             *)
(*         columns' types                                                  *)

\* Sequence q, and sets A and B, are in the order of sequence o.
Sorted(o, q) == \A i, j \in DOMAIN q : i < j => IndexIn(o, q[i]) < IndexIn(o, q[j])
Earlier(o, A, B) == \A x \in A, y \in B : IndexIn(o, x) < IndexIn(o, y)

\* A shard gets its rows in the order of submission, and has them so: those in hand and those pending
\* came before those in the channel, and no row of the set in hand is pending.
InOrder(o, ch, pe, ha) ==
    /\ Sorted(o, ch) /\ Sorted(o, ha) /\ Earlier(o, Elems(ha), Elems(ch)) /\ Elems(ha) \subseteq Elems(o)
    /\ \A a \in Sets : Sorted(o, pe[a]) /\ Earlier(o, Elems(pe[a]), Elems(ch))
    /\ \A r \in Elems(ha) : Row[r].set = Row[ha[1]].set /\ pe[Row[r].set] = <<>>

OrderInv ==
    /\ Distinct(order)
    /\ \A s \in Shards : InOrder(order, chan[s], pending[s], hand[s])

\* A row stored came after every other row written at its key, and before every row that is still
\* to be written there.
StoreInv ==
    /\ \A r \in committed :
          LET stored == table[Row[r].set][Row[r].key]
          IN  stored # None /\ IndexIn(order, r) <= IndexIn(order, stored.id)
    /\ \A a \in Sets, k \in Keys : table[a][k] # None =>
          /\ table[a][k].id \in committed /\ Row[table[a][k].id].set = a /\ Row[table[a][k].id].key = k
          /\ \A s \in Shards : \A x \in Held(s) : Row[x].set = a /\ Row[x].key = k =>
                IndexIn(order, table[a][k].id) < IndexIn(order, x)

-----------------------------------------------------------------------------
(*                          Facts about order                              *)

\* The index of a row.
LEMMA IndexFacts ==
    ASSUME NEW o \in Seq(Ids), Distinct(o), NEW i \in DOMAIN o
    PROVE  IndexIn(o, o[i]) = i
<1>1. IndexIn(o, o[i]) \in DOMAIN o /\ o[IndexIn(o, o[i])] = o[i]
  BY DEF IndexIn
<1>2. QED
  BY <1>1 DEF Distinct

\* It is one of the sequence's.
LEMMA IndexType ==
    ASSUME NEW o \in Seq(Ids), NEW x \in Elems(o)
    PROVE  IndexIn(o, x) \in 1..Len(o)
<1>1. \E i \in DOMAIN o : o[i] = x
  BY DEF Elems
<1>2. IndexIn(o, x) \in DOMAIN o
  BY <1>1 DEF IndexIn
<1>3. QED
  BY <1>2

\* A row appended comes after the others, whose indexes stay.
LEMMA IndexAppend ==
    ASSUME NEW o \in Seq(Ids), Distinct(o), NEW r \in Ids, r \notin Elems(o), NEW x \in Elems(o)
    PROVE  /\ IndexIn(Append(o, r), x) = IndexIn(o, x)
           /\ IndexIn(Append(o, r), x) < IndexIn(Append(o, r), r)
<1> DEFINE p == Append(o, r)
<1>1. /\ p \in Seq(Ids) /\ Distinct(p) /\ DOMAIN o = 1..Len(o) /\ Len(o) \in Nat
      /\ DOMAIN p = 1..Len(o) + 1 /\ p[Len(o) + 1] = r /\ \A i \in 1..Len(o) : p[i] = o[i]
  BY AppendFacts
<1>2. PICK i \in DOMAIN o : o[i] = x
  BY DEF Elems
<1> HIDE DEF p
<1>3. p[i] = x /\ i \in DOMAIN p /\ Len(o) + 1 \in DOMAIN p
  BY <1>1, <1>2
<1>4. IndexIn(o, x) = i
  BY <1>2, IndexFacts
<1>5. IndexIn(p, x) = i
  BY <1>1, <1>3, IndexFacts
<1>6. IndexIn(p, r) = Len(o) + 1
  BY <1>1, <1>3, IndexFacts
<1>7. QED
  BY <1>1, <1>4, <1>5, <1>6 DEF p

\* Sorted sequences, cut and extended.
LEMMA SortedTail ==
    ASSUME NEW o, NEW q \in Seq(Ids), q # <<>>, Sorted(o, q)
    PROVE  Sorted(o, Tail(q)) /\ Earlier(o, {Head(q)}, Elems(Tail(q)))
<1>1. /\ Head(q) = q[1] /\ 1 \in DOMAIN q /\ DOMAIN q = 1..Len(q) /\ DOMAIN Tail(q) \subseteq Nat \ {0}
      /\ \A i \in DOMAIN Tail(q) : i + 1 \in DOMAIN q /\ Tail(q)[i] = q[i + 1]
  <2>1. Tail(q) \in Seq(Ids)
    BY TailFacts
  <2>2. DOMAIN Tail(q) \subseteq Nat \ {0}
    BY <2>1
  <2>3. QED
    BY <2>2, TailFacts
<1>2. Sorted(o, Tail(q))
  BY <1>1 DEF Sorted
<1>3. ASSUME NEW i \in DOMAIN Tail(q) PROVE IndexIn(o, Head(q)) < IndexIn(o, Tail(q)[i])
  <2>1. 1 < i + 1 /\ i + 1 \in DOMAIN q /\ Tail(q)[i] = q[i + 1]
    BY <1>1
  <2>2. QED
    BY <1>1, <2>1 DEF Sorted
<1>4. QED
  BY <1>2, <1>3 DEF Earlier, Elems

\* A row that comes after the others keeps them sorted.
LEMMA SortedAppend ==
    ASSUME NEW o, NEW q \in Seq(Ids), NEW r \in Ids, Sorted(o, q), Earlier(o, Elems(q), {r})
    PROVE  Sorted(o, Append(q, r))
<1>1. /\ DOMAIN q = 1..Len(q) /\ Len(q) \in Nat /\ DOMAIN Append(q, r) = 1..Len(q) + 1
      /\ Append(q, r)[Len(q) + 1] = r /\ \A i \in 1..Len(q) : Append(q, r)[i] = q[i]
  OBVIOUS
<1>2. ASSUME NEW i \in 1..Len(q) + 1, NEW j \in 1..Len(q) + 1, i < j
      PROVE  IndexIn(o, Append(q, r)[i]) < IndexIn(o, Append(q, r)[j])
  <2>1. i \in 1..Len(q) /\ (j \in 1..Len(q) \/ j = Len(q) + 1)
    BY <1>1, <1>2
  <2>2. CASE j \in 1..Len(q)
    BY <1>1, <1>2, <2>1, <2>2 DEF Sorted
  <2>3. CASE j = Len(q) + 1
    <3>1. q[i] \in Elems(q)
      BY <1>1, <2>1 DEF Elems
    <3>2. QED
      BY <1>1, <2>1, <2>3, <3>1 DEF Earlier
  <2>4. QED
    BY <2>1, <2>2, <2>3
<1>3. QED
  BY <1>1, <1>2 DEF Sorted

\* The empty sequence is in order.
LEMMA SortedEmpty ==
    ASSUME NEW o, NEW A
    PROVE  Sorted(o, <<>>) /\ Earlier(o, {}, A) /\ Earlier(o, A, {})
  BY DEF Sorted, Earlier

\* Old rows are in the old order when a row was submitted, and come before it.
LEMMA OrderGrows ==
    ASSUME NEW o \in Seq(Ids), Distinct(o), NEW r \in Ids, r \notin Elems(o)
    PROVE  /\ \A q \in Seq(Ids) : Elems(q) \subseteq Elems(o) /\ Sorted(o, q) => Sorted(Append(o, r), q)
           /\ \A A, B \in SUBSET Elems(o) : Earlier(o, A, B) => Earlier(Append(o, r), A, B)
           /\ \A A \in SUBSET Elems(o) : Earlier(Append(o, r), A, {r})
<1> DEFINE p == Append(o, r)
<1>1. \A x \in Elems(o) : IndexIn(p, x) = IndexIn(o, x) /\ IndexIn(p, x) < IndexIn(p, r)
  BY IndexAppend
<1> HIDE DEF p
<1>2. ASSUME NEW q \in Seq(Ids), Elems(q) \subseteq Elems(o), Sorted(o, q) PROVE Sorted(p, q)
  <2>1. \A i \in DOMAIN q : q[i] \in Elems(o)
    BY <1>2 DEF Elems
  <2>2. QED
    BY <1>1, <1>2, <2>1 DEF Sorted
<1>3. \A A, B \in SUBSET Elems(o) : Earlier(o, A, B) => Earlier(p, A, B)
  BY <1>1 DEF Earlier
<1>4. \A A \in SUBSET Elems(o) : Earlier(p, A, {r})
  BY <1>1 DEF Earlier
<1>5. QED
  BY <1>2, <1>3, <1>4 DEF p

-----------------------------------------------------------------------------
(*                      The order within a shard                           *)

\* What a shard has was submitted.
LEMMA HeldKnown ==
    ASSUME TypeInv, PlaceInv, OrderInv, NEW s \in Shards
    PROVE  /\ Elems(chan[s]) \subseteq Elems(order) /\ Elems(hand[s]) \subseteq Elems(order)
           /\ \A a \in Sets : Elems(pending[s][a]) \subseteq Elems(order)
           /\ chan[s] \in Seq(Ids) /\ hand[s] \in Seq(Ids) /\ pending[s] \in [Sets -> Seq(Ids)]
           /\ InOrder(order, chan[s], pending[s], hand[s])
<1>1. Held(s) \subseteq Elems(order)
  BY DEF PlaceInv
<1>2. Elems(chan[s]) \subseteq Held(s) /\ \A a \in Sets : Elems(pending[s][a]) \subseteq Held(s)
  BY RowsIff DEF Held
<1>3. QED
  BY <1>1, <1>2 DEF OrderInv, InOrder, TypeInv, Own

\* A row submitted is the last of its shard's channel.
LEMMA SubmitOrder ==
    ASSUME TypeInv, PlaceInv, OrderInv, NEW w \in Workers, Submit(w)
    PROVE  OrderInv'
<1>1. todo[w] \in Seq(Ids) /\ todo[w] # <<>> /\ order \in Seq(Ids)
  BY DEF Submit, TypeInv, Common
<1>2. PICK r \in Ids : r = Head(todo[w])
  BY <1>1, TailFacts
<1>3. PICK s \in Shards : s = route[Row[r].key]
  <2>1. Row[r].key \in Keys
    BY RowFields
  <2>2. QED
    BY <2>1 DEF TypeInv, Common
<1>4. r \notin Elems(order)
  <2>1. r \in Elems(todo[w])
    BY SMTT(60), <1>1, <1>2, TailFacts
  <2>2. QED
    BY <2>1 DEF PlaceInv
<1>5. /\ chan' = [chan EXCEPT ![s] = Append(@, r)] /\ order' = Append(order, r)
      /\ pending' = pending /\ hand' = hand
  BY <1>2, <1>3 DEF Submit
<1> DEFINE o == Append(order, r)
<1>6. Distinct(order) /\ Distinct(o) /\ Elems(o) = Elems(order) \cup {r}
  BY <1>1, <1>4, AppendFacts DEF OrderInv
<1>7. /\ \A q \in Seq(Ids) : Elems(q) \subseteq Elems(order) /\ Sorted(order, q) => Sorted(o, q)
      /\ \A A, B \in SUBSET Elems(order) : Earlier(order, A, B) => Earlier(o, A, B)
      /\ \A A \in SUBSET Elems(order) : Earlier(o, A, {r})
  BY <1>1, <1>4, <1>6, OrderGrows
<1>8. o = order'
  BY <1>5
<1> HIDE DEF o
<1>9. ASSUME NEW t \in Shards PROVE InOrder(o, chan'[t], pending'[t], hand'[t])
  <2>1. /\ Elems(chan[t]) \subseteq Elems(order) /\ Elems(hand[t]) \subseteq Elems(order)
        /\ \A a \in Sets : Elems(pending[t][a]) \subseteq Elems(order)
        /\ chan[t] \in Seq(Ids) /\ hand[t] \in Seq(Ids) /\ pending[t] \in [Sets -> Seq(Ids)]
        /\ InOrder(order, chan[t], pending[t], hand[t])
    BY HeldKnown
  <2>2. InOrder(o, chan[t], pending[t], hand[t])
    <3>1. Sorted(o, chan[t]) /\ Sorted(o, hand[t]) /\ Earlier(o, Elems(hand[t]), Elems(chan[t]))
      BY <1>7, <2>1 DEF InOrder
    <3>2. ASSUME NEW a \in Sets
          PROVE  Sorted(o, pending[t][a]) /\ Earlier(o, Elems(pending[t][a]), Elems(chan[t]))
      <4>1. /\ pending[t][a] \in Seq(Ids) /\ Elems(pending[t][a]) \in SUBSET Elems(order)
            /\ Elems(chan[t]) \in SUBSET Elems(order)
            /\ Sorted(order, pending[t][a]) /\ Earlier(order, Elems(pending[t][a]), Elems(chan[t]))
        BY <2>1 DEF InOrder
      <4>2. QED
        BY <1>7, <4>1
    <3>3. QED
      BY <1>6, <2>1, <3>1, <3>2 DEF InOrder
  <2>3. CASE t # s
    <3>1. chan'[t] = chan[t]
      BY <1>5, <2>3 DEF TypeInv, Own
    <3>2. QED
      BY <1>5, <2>2, <3>1
  <2>4. CASE t = s
    <3>1. chan'[t] = Append(chan[t], r) /\ Elems(Append(chan[t], r)) = Elems(chan[t]) \cup {r}
      BY <1>5, <2>1, <2>4, AppendFacts DEF TypeInv, Own
    <3>2. Earlier(o, Elems(chan[t]), {r}) /\ Earlier(o, Elems(hand[t]), {r})
          /\ \A a \in Sets : Earlier(o, Elems(pending[t][a]), {r})
      BY <1>7, <2>1
    <3>3. Sorted(o, Append(chan[t], r))
      BY <2>1, <2>2, <3>2, SortedAppend DEF InOrder
    <3>4. \A A : Earlier(o, A, Elems(chan[t])) /\ Earlier(o, A, {r}) => Earlier(o, A, Elems(chan'[t]))
      BY <3>1 DEF Earlier
    <3>5. Earlier(o, Elems(hand[t]), Elems(chan'[t]))
          /\ \A a \in Sets : Earlier(o, Elems(pending[t][a]), Elems(chan'[t]))
      BY <2>2, <3>2, <3>4 DEF InOrder
    <3>6. QED
      BY <1>5, <2>2, <3>1, <3>3, <3>5 DEF InOrder
  <2>5. QED
    BY <2>3, <2>4
<1>10. QED
  BY SMTT(60), <1>6, <1>8, <1>9 DEF OrderInv

\* A flush begins with rows p[a], all that is pending for set a.
LEMMA BeginOrder ==
    ASSUME NEW o, NEW ch, NEW p \in [Sets -> Seq(Ids)], NEW a \in Sets,
           Sorted(o, ch), \A b \in Sets : Sorted(o, p[b]) /\ Earlier(o, Elems(p[b]), Elems(ch)),
           Elems(p[a]) \subseteq Elems(o), \A r \in Elems(p[a]) : Row[r].set = a
    PROVE  InOrder(o, ch, [p EXCEPT ![a] = <<>>], p[a])
<1> DEFINE n == [p EXCEPT ![a] = <<>>]
<1>1. n[a] = <<>> /\ \A b \in Sets \ {a} : n[b] = p[b]
  OBVIOUS
<1> HIDE DEF n
<1>2. ASSUME NEW b \in Sets PROVE Sorted(o, n[b]) /\ Earlier(o, Elems(n[b]), Elems(ch))
  BY <1>1, SortedEmpty, EmptyFacts
<1>3. ASSUME NEW r \in Elems(p[a]) PROVE Row[r].set = Row[p[a][1]].set /\ n[Row[r].set] = <<>>
  <2>1. p[a][1] \in Elems(p[a])
    <3>1. p[a] \in Seq(Ids) /\ p[a] # <<>>
      BY <1>3, EmptyFacts
    <3>2. QED
      BY <3>1, TailFacts
  <2>2. QED
    BY <1>1, <1>3, <2>1
<1>4. InOrder(o, ch, n, p[a])
  BY <1>2, <1>3 DEF InOrder
<1>5. QED
  BY <1>4 DEF n

\* A set that waits goes to hand in order,
LEMMA FlushOrder ==
    ASSUME TypeInv, PlaceInv, OrderInv, NEW s \in Shards, FlushNext(s)
    PROVE  InOrder(order, chan'[s], pending'[s], hand'[s])
<1>1. PICK a \in flushing[s] : BeginFlush(s, pending[s], a)
  BY DEF FlushNext
<1>2. /\ a \in Sets /\ hand'[s] = pending[s][a] /\ pending'[s] = [pending[s] EXCEPT ![a] = <<>>]
      /\ chan'[s] = chan[s]
  BY <1>1 DEF BeginFlush, FlushNext, TypeInv, Own
<1>3. /\ \A b \in Sets : Elems(pending[s][b]) \subseteq Elems(order)
      /\ pending[s] \in [Sets -> Seq(Ids)] /\ InOrder(order, chan[s], pending[s], hand[s])
  BY HeldKnown
<1>4. \A r \in Elems(pending[s][a]) : Row[r].set = a
  BY <1>2 DEF PlaceInv, OneByOne
<1>5. /\ Sorted(order, chan[s]) /\ Elems(pending[s][a]) \subseteq Elems(order)
      /\ \A b \in Sets : Sorted(order, pending[s][b]) /\ Earlier(order, Elems(pending[s][b]), Elems(chan[s]))
  BY <1>2, <1>3 DEF InOrder
<1>6. InOrder(order, chan[s], [pending[s] EXCEPT ![a] = <<>>], pending[s][a])
  BY Zenon, <1>2, <1>3, <1>4, <1>5, BeginOrder
<1>7. QED
  BY <1>2, <1>6

\* and so does the row received.
LEMMA ReceiveOrder ==
    ASSUME TypeInv, PlaceInv, OrderInv, NEW s \in Shards, Receive(s)
    PROVE  InOrder(order, chan'[s], pending'[s], hand'[s])
<1>1. /\ chan[s] # <<>> /\ OneByOne(s) /\ hand[s] = <<>>
  BY Zenon DEF TypeInv, Fits, PlaceInv, Receive
<1>2. /\ Elems(chan[s]) \subseteq Elems(order) /\ chan[s] \in Seq(Ids)
      /\ \A b \in Sets : Elems(pending[s][b]) \subseteq Elems(order)
      /\ pending[s] \in [Sets -> Seq(Ids)] /\ InOrder(order, chan[s], pending[s], hand[s])
  BY HeldKnown
<1>3. PICK r \in Ids : r = Head(chan[s])
  BY <1>1, <1>2, TailFacts
<1>4. PICK a \in Sets : a = Row[r].set
  BY Zenon, RowFields
<1> DEFINE p == [pending[s] EXCEPT ![a] = Append(@, r)]
<1>5. /\ \/ BeginFlush(s, p, a)
         \/ pending' = [pending EXCEPT ![s] = p] /\ UNCHANGED <<hand, pos, pc>>
      /\ chan' = [chan EXCEPT ![s] = Tail(@)]
  BY Zenon, <1>3, <1>4 DEF Receive
<1>6. /\ r \in Elems(chan[s]) /\ Elems(Tail(chan[s])) = Elems(chan[s]) \ {r} /\ chan'[s] = Tail(chan[s])
      /\ Sorted(order, Tail(chan[s])) /\ Earlier(order, {r}, Elems(Tail(chan[s])))
  <2>1. chan'[s] = Tail(chan[s])
    BY <1>5 DEF TypeInv, Own
  <2>2. Sorted(order, chan[s]) /\ Distinct(chan[s])
    BY <1>1, <1>2 DEF InOrder, OneByOne
  <2>3. r \in Elems(chan[s]) /\ Elems(Tail(chan[s])) = Elems(chan[s]) \ {r}
    BY <1>1, <1>2, <1>3, <2>2, TailFacts
  <2>4. QED
    BY <1>1, <1>2, <1>3, <2>1, <2>2, <2>3, SortedTail
<1>7. /\ Append(pending[s][a], r) \in Seq(Ids)
      /\ Elems(Append(pending[s][a], r)) = Elems(pending[s][a]) \cup {r}
  BY <1>2, AppendFacts
<1>8. p \in [Sets -> Seq(Ids)] /\ p[a] = Append(pending[s][a], r) /\ \A b \in Sets \ {a} : p[b] = pending[s][b]
  BY <1>2, <1>7
<1> HIDE DEF p
<1>9. ASSUME NEW b \in Sets
      PROVE  Sorted(order, p[b]) /\ Earlier(order, Elems(p[b]), Elems(Tail(chan[s])))
  <2>1. /\ Sorted(order, pending[s][b]) /\ Earlier(order, Elems(pending[s][b]), Elems(chan[s]))
        /\ pending[s][b] \in Seq(Ids)
    BY <1>2 DEF InOrder
  <2>2. Earlier(order, Elems(pending[s][b]), Elems(Tail(chan[s]))) /\ Earlier(order, Elems(pending[s][b]), {r})
    BY <1>6, <2>1 DEF Earlier
  <2>3. CASE b = a
    <3>1. Sorted(order, p[b])
      BY <1>8, <2>1, <2>2, <2>3, SortedAppend
    <3>2. Earlier(order, Elems(p[b]), Elems(Tail(chan[s])))
      BY <1>6, <1>7, <1>8, <2>2, <2>3 DEF Earlier
    <3>3. QED
      BY <3>1, <3>2
  <2>4. CASE b # a
    BY <1>8, <2>1, <2>2, <2>4
  <2>5. QED
    BY <2>3, <2>4
<1>10. CASE BeginFlush(s, p, a)
  <2>1. hand'[s] = p[a] /\ pending'[s] = [p EXCEPT ![a] = <<>>]
    BY <1>10 DEF BeginFlush, TypeInv, Own
  <2>2. Elems(p[a]) \subseteq Elems(order)
    BY <1>2, <1>6, <1>7, <1>8
  <2>3. \A x \in Elems(p[a]) : Row[x].set = a
    BY <1>1, <1>4, <1>7, <1>8 DEF OneByOne
  <2>4. InOrder(order, Tail(chan[s]), [p EXCEPT ![a] = <<>>], p[a])
    BY <1>6, <1>8, <1>9, <2>2, <2>3, BeginOrder
  <2>5. QED
    BY <1>6, <2>1, <2>4
<1>11. CASE pending' = [pending EXCEPT ![s] = p] /\ UNCHANGED <<hand, pos, pc>>
  <2>1. pending'[s] = p /\ hand'[s] = <<>>
    BY <1>1, <1>11 DEF TypeInv, Own
  <2>2. InOrder(order, Tail(chan[s]), p, <<>>)
    BY <1>6, <1>9, SortedEmpty, EmptyFacts DEF InOrder
  <2>3. QED
    BY <1>6, <2>1, <2>2
<1>12. QED
  BY <1>5, <1>10, <1>11

\* A step of a shard keeps what it has in order,
LEMMA ShardOrder ==
    ASSUME TypeInv, PlaceInv, OrderInv, NEW s \in Shards, ShardAct(s)
    PROVE  OrderInv'
<1>1. Elsewhere(s) /\ order' = order
  BY ShardIsLocal
<1>2. SUFFICES InOrder(order, chan'[s], pending'[s], hand'[s])
  <2>1. ASSUME NEW t \in Shards PROVE InOrder(order, chan'[t], pending'[t], hand'[t])
    BY <1>1, <1>2 DEF Elsewhere, OrderInv
  <2>2. QED
    BY <1>1, <2>1 DEF OrderInv
<1>3. InOrder(order, chan[s], pending[s], hand[s])
  BY DEF OrderInv
<1>4. ASSUME chan'[s] = chan[s], pending'[s] = pending[s], hand'[s] \in {hand[s], <<>>}
      PROVE  InOrder(order, chan'[s], pending'[s], hand'[s])
  <2>1. InOrder(order, chan[s], pending[s], <<>>)
    BY <1>3, SortedEmpty, EmptyFacts DEF InOrder
  <2>2. QED
    BY <1>3, <1>4, <2>1
<1>5. CASE UNCHANGED <<chan, pending>> /\ (UNCHANGED hand \/ Done(s) \/ NextRow(s))
  <2>1. hand'[s] \in {hand[s], <<>>}
    BY SMTT(30), <1>5 DEF Done, NextRow, TypeInv, Own
  <2>2. QED
    BY <1>4, <1>5, <2>1
<1>6. ShardAct(s) => \/ Receive(s) \/ FlushNext(s)
                     \/ UNCHANGED <<chan, pending>> /\ (UNCHANGED hand \/ Done(s) \/ NextRow(s))
  BY Zenon DEF ShardAct, ShardStep, Age, Finish, Prepare, Commit, PutSingle, Coerce, BatchFails, PutFails
<1>7. QED
  BY <1>5, <1>6, ReceiveOrder, FlushOrder

\* Nothing is out of order initially.
LEMMA OrderInit == Init => OrderInv
<1> SUFFICES ASSUME Init PROVE OrderInv
  OBVIOUS
<1>1. order = <<>> /\ Distinct(order)
  BY EmptyFacts DEF Init
<1>2. ASSUME NEW s \in Shards PROVE InOrder(order, chan[s], pending[s], hand[s])
  <2>1. chan[s] = <<>> /\ hand[s] = <<>> /\ \A a \in Sets : pending[s][a] = <<>>
    BY DEF Init
  <2>2. QED
    BY <2>1, SortedEmpty, EmptyFacts DEF InOrder
<1>3. QED
  BY <1>1, <1>2 DEF OrderInv

\* and so does every step.
LEMMA OrderNext == TypeInv /\ PlaceInv /\ OrderInv /\ [Next]_vars => OrderInv'
<1> SUFFICES ASSUME TypeInv, PlaceInv, OrderInv, [Next]_vars PROVE OrderInv'
  OBVIOUS
<1>1. ASSUME NEW w \in Workers, Submit(w) PROVE OrderInv'
  BY <1>1, SubmitOrder
<1>2. ASSUME NEW s \in Shards, ShardAct(s) PROVE OrderInv'
  BY <1>2, ShardOrder
<1>3. CASE UNCHANGED <<order, chan, pending, hand>>
  BY <1>3 DEF OrderInv
<1>4. QED
  BY <1>1, <1>2, <1>3 DEF Next, ShardAct, Close, Closed, vars, flusher, past

-----------------------------------------------------------------------------
(*                          The row stored last                            *)

\* Rows come to a shard by being submitted only.
LEMMA HeldShrinks ==
    ASSUME PlaceInv, PlaceInv', TypeInv, UNCHANGED <<route, order>>, Settled \subseteq Settled',
           NEW s \in Shards
    PROVE  Held(s)' \subseteq Held(s)
<1> SUFFICES ASSUME NEW r \in Held(s)' PROVE r \in Held(s)
  OBVIOUS
<1>1. r \in Elems(order) /\ r \notin Settled /\ route[Row[r].key] = s
  BY SMTT(60) DEF PlaceInv
<1>2. QED
  BY <1>1 DEF PlaceInv

\* A row r of those a shard has is stored, and after it those that were submitted before: table[a][k]
\* is the last of them.
LEMMA StoreGrows ==
    ASSUME TypeInv, PlaceInv, PlaceInv', StoreInv, UNCHANGED <<route, order>>,
           Settled \subseteq Settled', NEW X \in SUBSET Ids, committed' = committed \cup X,
           \A r \in X : \E s \in Shards : r \in Held(s),
           \A a \in Sets, k \in Keys : table'[a][k] # table[a][k] =>
              /\ \E y \in X : Row[y].set = a /\ Row[y].key = k
              /\ table'[a][k] # None /\ table'[a][k].id \in X
              /\ Row[table'[a][k].id].set = a /\ Row[table'[a][k].id].key = k,
           \A y \in X :
              LET last == table'[Row[y].set][Row[y].key]
              IN  /\ last # None /\ last.id \in X
                  /\ Row[last.id].set = Row[y].set /\ Row[last.id].key = Row[y].key
                  /\ IndexIn(order, y) <= IndexIn(order, last.id)
                  /\ \A s \in Shards : \A x \in Held(s)' :
                        Row[x].set = Row[y].set /\ Row[x].key = Row[y].key =>
                           IndexIn(order, last.id) < IndexIn(order, x)
    PROVE  StoreInv'
<1>1. \A s \in Shards : Held(s)' \subseteq Held(s)
  BY SMTT(60), HeldShrinks
<1>2. \A r \in Ids : Row[r].set \in Sets /\ Row[r].key \in Keys
  BY SMTT(60), RowFields
<1>3. order \in Seq(Ids) /\ Elems(order) \subseteq Ids /\ committed \subseteq Ids
      /\ committed \subseteq Elems(order) /\ X \subseteq Elems(order)
  BY SMTT(60) DEF TypeInv, Common, Elems, PlaceInv, Settled
<1>4. \A r \in Elems(order) : IndexIn(order, r) \in Int
  <2>1. ASSUME NEW r \in Elems(order) PROVE IndexIn(order, r) \in Int
    BY SMTT(60), <1>3, IndexType
  <2>2. QED
    BY SMTT(60), <2>1
<1>5. ASSUME NEW r \in committed', NEW l, l = table'[Row[r].set][Row[r].key]
      PROVE  l # None /\ IndexIn(order, r) <= IndexIn(order, l.id)
  <2>1. CASE r \in X
    BY ZenonT(60), <1>5, <2>1
  <2>2. CASE r \notin X /\ \E y \in X : Row[y].set = Row[r].set /\ Row[y].key = Row[r].key
    <3>1. PICK y \in X : Row[y].set = Row[r].set /\ Row[y].key = Row[r].key
      BY ZenonT(60), <2>2
    <3>2. l # None /\ l.id \in X /\ Row[l.id].set = Row[r].set /\ Row[l.id].key = Row[r].key
      BY SMTT(60), <1>5, <3>1
    <3>3. PICK o : o = table[Row[r].set][Row[r].key]
      OBVIOUS
    <3>4. /\ r \in committed /\ Row[r].set \in Sets /\ Row[r].key \in Keys /\ o # None
          /\ IndexIn(order, r) <= IndexIn(order, o.id) /\ o.id \in committed
          /\ \A s \in Shards : \A x \in Held(s) : Row[x].set = Row[r].set /\ Row[x].key = Row[r].key =>
                IndexIn(order, o.id) < IndexIn(order, x)
      BY SMTT(60), <1>2, <1>3, <2>2, <3>3 DEF StoreInv
    <3>5. IndexIn(order, o.id) < IndexIn(order, l.id)
      BY SMTT(60), <3>2, <3>4
    <3>6. IndexIn(order, r) \in Int /\ IndexIn(order, o.id) \in Int /\ IndexIn(order, l.id) \in Int
      BY SMTT(60), <1>3, <1>4, <3>2, <3>4
    <3>7. QED
      BY <3>2, <3>4, <3>5, <3>6
  <2>3. CASE r \notin X /\ ~\E y \in X : Row[y].set = Row[r].set /\ Row[y].key = Row[r].key
    <3>1. r \in committed /\ Row[r].set \in Sets /\ Row[r].key \in Keys
      BY SMTT(60), <1>2, <1>3, <2>3
    <3>2. l = table[Row[r].set][Row[r].key]
      BY SMTT(60), <1>5, <2>3, <3>1
    <3>3. QED
      BY SMTT(60), <3>1, <3>2 DEF StoreInv
  <2>4. QED
    BY <2>1, <2>2, <2>3
<1>6. ASSUME NEW a \in Sets, NEW k \in Keys, NEW l, l = table'[a][k], l # None
      PROVE  /\ l.id \in committed' /\ Row[l.id].set = a /\ Row[l.id].key = k
             /\ \A s \in Shards : \A x \in Held(s)' : Row[x].set = a /\ Row[x].key = k =>
                   IndexIn(order, l.id) < IndexIn(order, x)
  <2>1. CASE \E y \in X : Row[y].set = a /\ Row[y].key = k
    BY SMTT(60), <1>6, <2>1
  <2>2. CASE ~\E y \in X : Row[y].set = a /\ Row[y].key = k
    <3>1. l = table[a][k]
      BY <1>6, <2>2
    <3>2. QED
      BY <1>1, <1>6, <3>1 DEF StoreInv
  <2>3. QED
    BY SMTT(60), <2>1, <2>2
<1>7. QED
  BY SMTT(60), <1>5, <1>6 DEF StoreInv

\* A step that writes nothing.
LEMMA StoreKept ==
    ASSUME TypeInv, PlaceInv, PlaceInv', StoreInv, UNCHANGED <<route, order, table, committed>>,
           Settled \subseteq Settled'
    PROVE  StoreInv'
  BY HeldShrinks DEF StoreInv

\* The last of the rows with one key in a sequence.
LastOf(q, k) == CHOOSE last \in {i \in DOMAIN q : Row[q[i]].key = k} :
                    \A j \in {i \in DOMAIN q : Row[q[i]].key = k} : j <= last

\* There is one, if any row has the key.
LEMMA LastOfFacts ==
    ASSUME NEW q \in Seq(Ids), NEW k, NEW i \in DOMAIN q, Row[q[i]].key = k
    PROVE  /\ LastOf(q, k) \in DOMAIN q /\ Row[q[LastOf(q, k)]].key = k /\ i <= LastOf(q, k)
<1> DEFINE M == {j \in DOMAIN q : Row[q[j]].key = k}
<1>1. DOMAIN q = 1..Len(q) /\ Len(q) \in Nat /\ M \in SUBSET (1..Len(q)) /\ i \in M
  OBVIOUS
<1>2. LastOf(q, k) = CHOOSE m \in M : \A j \in M : j <= m
  BY DEF LastOf
<1> HIDE DEF M
<1>3. \E m \in M : \A j \in M : j <= m
  BY <1>1, LastOne
<1>4. LastOf(q, k) \in M /\ \A j \in M : j <= LastOf(q, k)
  BY <1>2, <1>3
<1>5. QED
  BY <1>1, <1>4 DEF M

\* What Commit does to the table, by key.
LEMMA CommitWrites ==
    ASSUME TypeInv, OrderInv, NEW s \in Shards, Commit(s)
    PROVE  \A a \in Sets, k \in Keys :
              \/ /\ table'[a][k] = table[a][k]
                 /\ ~\E i \in DOMAIN hand[s] : Row[hand[s][i]].set = a /\ Row[hand[s][i]].key = k
              \/ /\ \E i \in DOMAIN hand[s] : Row[hand[s][i]].set = a /\ Row[hand[s][i]].key = k
                 /\ table'[a][k] = [id   |-> hand[s][LastOf(hand[s], k)],
                                    vals |-> Row[hand[s][LastOf(hand[s], k)]].vals]
<1> SUFFICES ASSUME NEW b \in Sets, NEW k \in Keys
             PROVE  \/ /\ table'[b][k] = table[b][k]
                       /\ ~\E i \in DOMAIN hand[s] : Row[hand[s][i]].set = b /\ Row[hand[s][i]].key = k
                    \/ /\ \E i \in DOMAIN hand[s] : Row[hand[s][i]].set = b /\ Row[hand[s][i]].key = k
                       /\ table'[b][k] = [id   |-> hand[s][LastOf(hand[s], k)],
                                          vals |-> Row[hand[s][LastOf(hand[s], k)]].vals]
  BY Zenon
<1>1. table \in [Sets -> [Keys -> StoredRows \cup {None}]] /\ hand[s] \in Seq(Ids) /\ hand[s] # <<>>
  BY Zenon DEF TypeInv, Own, Common, Fits, Commit
<1>2. PICK a \in Sets : a = Row[hand[s][1]].set
  <2>1. hand[s][1] \in Ids
    BY <1>1, TailFacts
  <2>2. QED
    BY <2>1, RowFields
<1>3. \A i \in DOMAIN hand[s] : Row[hand[s][i]].set = a
  BY Zenon, <1>2 DEF OrderInv, InOrder, Elems
<1> DEFINE mine(x) == {i \in DOMAIN hand[s] : Row[hand[s][i]].key = x}
           new(x) == IF mine(x) = {} THEN table[a][x]
                     ELSE [id |-> hand[s][LastOf(hand[s], x)],
                           vals |-> Row[hand[s][LastOf(hand[s], x)]].vals]
<1>4. table' = [table EXCEPT ![a] = [x \in Keys |-> new(x)]]
  BY Zenon, <1>1, <1>2 DEF Commit, LastOf
<1>5. b # a => table'[b][k] = table[b][k]
  BY <1>1, <1>4
<1>6. b = a => table'[b][k] = new(k)
  BY <1>1, <1>4
<1>7. CASE b # a
  BY <1>3, <1>5, <1>7
<1>8. CASE b = a /\ mine(k) = {}
  BY <1>3, <1>6, <1>8
<1>9. CASE b = a /\ mine(k) # {}
  <2>1. \E i \in DOMAIN hand[s] : Row[hand[s][i]].set = b /\ Row[hand[s][i]].key = k
    BY Zenon, <1>3, <1>9
  <2>2. QED
    BY <1>6, <1>9, <2>1
<1>10. QED
  BY <1>7, <1>8, <1>9

\* A batch: the last row of each key is stored.
LEMMA CommitStore ==
    ASSUME TypeInv, PlaceInv, PlaceInv', OrderInv, StoreInv, NEW s \in Shards, Commit(s)
    PROVE  StoreInv'
<1>1. /\ hand[s] \in Seq(Ids) /\ pc[s] = "commit" /\ InOrder(order, chan[s], pending[s], hand[s])
      /\ committed' = committed \cup Elems(hand[s])
      /\ UNCHANGED <<route, order, chan, pending, failed, gaveUp>>
  BY Zenon DEF TypeInv, Own, OrderInv, Commit
<1>2. Left(s) = Elems(hand[s])
  BY <1>1 DEF Left, Elems
<1>3. Settled \subseteq Settled'
  BY <1>1 DEF Settled
<1>4. Elems(hand[s]) \in SUBSET Ids /\ \A r \in Elems(hand[s]) : r \in Held(s)
  BY <1>1, <1>2 DEF Elems, Held
<1> DEFINE last(k) == hand[s][LastOf(hand[s], k)]
<1>5. \A a \in Sets, k \in Keys :
         \/ /\ table'[a][k] = table[a][k]
            /\ ~\E i \in DOMAIN hand[s] : Row[hand[s][i]].set = a /\ Row[hand[s][i]].key = k
         \/ /\ \E i \in DOMAIN hand[s] : Row[hand[s][i]].set = a /\ Row[hand[s][i]].key = k
            /\ table'[a][k] = [id |-> last(k), vals |-> Row[last(k)].vals]
  BY CommitWrites
<1>6. \A r, q \in Elems(hand[s]) : Row[r].set = Row[q].set
  BY <1>1 DEF InOrder
<1>7. ASSUME NEW i \in DOMAIN hand[s], NEW k, Row[hand[s][i]].key = k
      PROVE  /\ last(k) \in Elems(hand[s]) /\ Row[last(k)].key = k
             /\ Row[last(k)].set = Row[hand[s][i]].set
             /\ IndexIn(order, hand[s][i]) <= IndexIn(order, last(k))
  <2>1. LastOf(hand[s], k) \in DOMAIN hand[s] /\ Row[last(k)].key = k /\ i <= LastOf(hand[s], k)
    BY <1>1, <1>7, LastOfFacts
  <2>2. last(k) \in Elems(hand[s]) /\ hand[s][i] \in Elems(hand[s])
    BY <2>1 DEF Elems
  <2>3. IndexIn(order, hand[s][i]) \in Int
    <3>1. hand[s][i] \in Elems(order) /\ order \in Seq(Ids)
      BY <1>1, <2>2 DEF InOrder, TypeInv, Common
    <3>2. IndexIn(order, hand[s][i]) \in 1..Len(order)
      BY <3>1, IndexType
    <3>3. QED
      BY <3>2
  <2>4. IndexIn(order, hand[s][i]) <= IndexIn(order, last(k))
    <3>1. CASE i = LastOf(hand[s], k)
      BY <2>3, <3>1
    <3>2. CASE i < LastOf(hand[s], k)
      <4>1. IndexIn(order, hand[s][i]) < IndexIn(order, last(k))
        BY <1>1, <2>1, <3>2 DEF InOrder, Sorted
      <4>2. IndexIn(order, last(k)) \in 1..Len(order)
        BY <1>1, <2>2, IndexType DEF InOrder, TypeInv, Common
      <4>3. QED
        BY <2>3, <4>1, <4>2
    <3>3. i \in Int /\ LastOf(hand[s], k) \in Int
      BY <1>1, <2>1
    <3>4. QED
      BY <2>1, <3>1, <3>2, <3>3
  <2>5. QED
    BY <1>6, <2>1, <2>2, <2>4
<1>8. ASSUME NEW y \in Elems(hand[s]), NEW t \in Shards, NEW x \in Held(t)', NEW l \in Elems(hand[s]),
             Row[x].set = Row[y].set, Row[x].key = Row[y].key
      PROVE  IndexIn(order, l) < IndexIn(order, x)
  <2>1. x \in Held(t) /\ route[Row[x].key] = t /\ x \notin committed'
    <3>1. x \in Held(t)
      BY <1>1, <1>3, HeldShrinks
    <3>2. x \notin committed'
      BY DEF PlaceInv, Settled
    <3>3. QED
      BY <3>1, <3>2 DEF PlaceInv
  <2>2. route[Row[y].key] = s
    BY <1>4 DEF PlaceInv
  <2>3. t = s /\ x \notin Left(s)
    BY <1>1, <1>2, <1>8, <2>1, <2>2
  <2>4. CASE x \in Elems(chan[s])
    BY <1>1, <2>4 DEF InOrder, Earlier
  <2>5. ASSUME NEW a \in Sets, x \in Elems(pending[s][a]) PROVE FALSE
    <3>1. Row[x].set = a
      BY <2>5 DEF PlaceInv, OneByOne
    <3>2. pending[s][Row[y].set] = <<>>
      BY <1>1 DEF InOrder
    <3>3. QED
      BY <1>8, <2>5, <3>1, <3>2, EmptyFacts
  <2>6. QED
    BY <2>1, <2>3, <2>4, <2>5, RowsIff DEF Held
<1>9. \A r \in Elems(hand[s]) : \E i \in DOMAIN hand[s] : hand[s][i] = r
  BY DEF Elems
<1>10. \A i \in DOMAIN hand[s] : hand[s][i] \in Elems(hand[s])
  BY DEF Elems
<1>11. ASSUME NEW y \in Elems(hand[s])
       PROVE  /\ table'[Row[y].set][Row[y].key] = [id |-> last(Row[y].key), vals |-> Row[last(Row[y].key)].vals]
              /\ last(Row[y].key) \in Elems(hand[s])
              /\ Row[last(Row[y].key)].set = Row[y].set /\ Row[last(Row[y].key)].key = Row[y].key
              /\ IndexIn(order, y) <= IndexIn(order, last(Row[y].key))
  <2>1. PICK i \in DOMAIN hand[s] : hand[s][i] = y
    BY <1>9
  <2>2. Row[y].set \in Sets /\ Row[y].key \in Keys
    BY <1>4, RowFields
  <2>3. QED
    BY <1>5, <1>7, <2>1, <2>2
<1>12. \A r \in Ids, v \in Vals : [id |-> r, vals |-> v] # None
  BY NoneAssumption DEF Vals
<1>13. \A y \in Elems(hand[s]) : /\ table'[Row[y].set][Row[y].key] # None
                                /\ table'[Row[y].set][Row[y].key].id = last(Row[y].key)
  <2> HIDE DEF last
  <2>1. ASSUME NEW y \in Elems(hand[s]) PROVE [id |-> last(Row[y].key), vals |-> Row[last(Row[y].key)].vals] # None
    <3>1. last(Row[y].key) \in Ids
      BY <1>4, <1>11
    <3>2. Row[last(Row[y].key)].vals \in Vals
      BY <3>1, RowFields
    <3>3. QED
      BY <1>12, <3>1, <3>2
  <2>2. ASSUME NEW y \in Elems(hand[s]), NEW l, l = last(Row[y].key)
        PROVE  table'[Row[y].set][Row[y].key] # None /\ table'[Row[y].set][Row[y].key].id = l
    <3>1. table'[Row[y].set][Row[y].key] = [id |-> l, vals |-> Row[l].vals]
      BY <1>11, <2>2
    <3>2. [id |-> l, vals |-> Row[l].vals] # None
      BY <2>1, <2>2
    <3>3. QED
      BY <3>1, <3>2
  <2>3. QED
    BY <2>2
<1> HIDE DEF last
<1>14. ASSUME NEW a \in Sets, NEW k \in Keys, table'[a][k] # table[a][k]
       PROVE  /\ \E y \in Elems(hand[s]) : Row[y].set = a /\ Row[y].key = k
              /\ table'[a][k] # None /\ table'[a][k].id \in Elems(hand[s])
              /\ Row[table'[a][k].id].set = a /\ Row[table'[a][k].id].key = k
  <2>1. PICK i \in DOMAIN hand[s] : Row[hand[s][i]].set = a /\ Row[hand[s][i]].key = k
    BY ZenonT(40), <1>5, <1>14
  <2>2. PICK y \in Elems(hand[s]) : Row[y].set = a /\ Row[y].key = k
    BY <1>10, <2>1
  <2>3. QED
    BY <1>11, <1>13, <2>2
<1>15. ASSUME NEW y \in Elems(hand[s]), NEW l, l = table'[Row[y].set][Row[y].key]
       PROVE  /\ l # None /\ l.id \in Elems(hand[s])
              /\ Row[l.id].set = Row[y].set /\ Row[l.id].key = Row[y].key
              /\ IndexIn(order, y) <= IndexIn(order, l.id)
              /\ \A t \in Shards : \A x \in Held(t)' :
                    Row[x].set = Row[y].set /\ Row[x].key = Row[y].key =>
                       IndexIn(order, l.id) < IndexIn(order, x)
  BY <1>8, <1>11, <1>13, <1>15
<1>16. \A r \in Elems(hand[s]) : \E t \in Shards : r \in Held(t)
  BY <1>4
<1> DEFINE X == Elems(hand[s])
<1>17. /\ X \in SUBSET Ids /\ committed' = committed \cup X /\ \A r \in X : \E t \in Shards : r \in Held(t)
       /\ UNCHANGED <<route, order>>
  BY SMTT(60), <1>1, <1>4
<1>18. /\ \A a \in Sets, k \in Keys : table'[a][k] # table[a][k] =>
             /\ \E y \in X : Row[y].set = a /\ Row[y].key = k
             /\ table'[a][k] # None /\ table'[a][k].id \in X
             /\ Row[table'[a][k].id].set = a /\ Row[table'[a][k].id].key = k
       /\ \A y \in X :
             LET l == table'[Row[y].set][Row[y].key]
             IN  /\ l # None /\ l.id \in X
                 /\ Row[l.id].set = Row[y].set /\ Row[l.id].key = Row[y].key
                 /\ IndexIn(order, y) <= IndexIn(order, l.id)
                 /\ \A t \in Shards : \A x \in Held(t)' :
                       Row[x].set = Row[y].set /\ Row[x].key = Row[y].key =>
                          IndexIn(order, l.id) < IndexIn(order, x)
  BY <1>14, <1>15
<1>19. QED
  <2>1. PICK Y \in SUBSET Ids : Y = X
    BY <1>17
  <2> HIDE DEF X
  <2>2. QED
    BY Zenon, <1>3, <1>17, <1>18, <2>1, StoreGrows

\* A single put.
LEMMA PutStore ==
    ASSUME TypeInv, PlaceInv, PlaceInv', OrderInv, StoreInv, NEW s \in Shards, PutSingle(s)
    PROVE  StoreInv'
<1>1. /\ pc[s] = "put" /\ hand[s] \in Seq(Ids) /\ pos[s] \in 1..Len(hand[s]) /\ vals[s] \in Vals
      /\ UNCHANGED <<route, order, chan, pending, failed, gaveUp>>
      /\ InOrder(order, chan[s], pending[s], hand[s])
  BY DEF TypeInv, Own, Fits, OrderInv, PutSingle
<1>2. PICK r \in Ids : r = hand[s][pos[s]]
  BY <1>1
<1>3. PICK a \in Sets, k \in Keys : a = Row[r].set /\ k = Row[r].key
  BY RowFields
<1>4. CASE UNCHANGED <<store, committed>>
  <2>1. Settled \subseteq Settled' /\ table' = table
    BY ZenonT(40), <1>1, <1>4 DEF Settled, store
  <2>2. QED
    BY <1>1, <1>4, <2>1, StoreKept
<1>5. CASE /\ table' = [table EXCEPT ![a][k] = [id |-> r, vals |-> vals[s]]]
           /\ committed' = committed \cup {r}
  <2>1. /\ table'[a][k] = [id |-> r, vals |-> vals[s]]
        /\ \A b \in Sets, l \in Keys : b # a \/ l # k => table'[b][l] = table[b][l]
    BY <1>5 DEF TypeInv, Common
  <2>2. table'[a][k] # None /\ table'[a][k].id = r
    <3>1. [id |-> r, vals |-> vals[s]] # None
      BY <1>1, NoneAssumption DEF Vals
    <3>2. QED
      BY <2>1, <3>1
  <2>3. r \in Left(s) /\ r \in Held(s)
    BY <1>1, <1>2 DEF Left, Held
  <2>4. Settled \subseteq Settled'
    BY <1>1, <1>5 DEF Settled
  <2>5. IndexIn(order, r) <= IndexIn(order, r)
    <3>1. r \in Elems(order) /\ order \in Seq(Ids)
      BY <2>3 DEF PlaceInv, TypeInv, Common
    <3>2. IndexIn(order, r) \in 1..Len(order)
      BY <3>1, IndexType
    <3>3. QED
      BY <3>2
  <2>6. ASSUME NEW t \in Shards, NEW x \in Held(t)', Row[x].set = a, Row[x].key = k
        PROVE  IndexIn(order, r) < IndexIn(order, x)
    <3>1. x \in Held(t) /\ route[Row[x].key] = t /\ x # r
      <4>1. x \in Held(t)
        BY <1>1, <2>4, HeldShrinks
      <4>2. x \notin committed'
        BY DEF PlaceInv, Settled
      <4>3. QED
        BY <1>5, <4>1, <4>2 DEF PlaceInv
    <3>2. t = s
      BY <1>3, <2>3, <2>6, <3>1 DEF PlaceInv
    <3>3. r \in Elems(hand[s])
      BY <1>1, <1>2 DEF Elems
    <3>4. CASE x \in Elems(chan[s])
      BY <1>1, <3>3, <3>4 DEF InOrder, Earlier
    <3>5. ASSUME NEW b \in Sets, x \in Elems(pending[s][b]) PROVE FALSE
      <4>1. Row[x].set = b
        BY <3>5 DEF PlaceInv, OneByOne
      <4>2. pending[s][a] = <<>>
        BY <1>1, <1>3, <3>3 DEF InOrder
      <4>3. QED
        BY <2>6, <3>5, <4>1, <4>2, EmptyFacts
    <3>6. CASE x \in Left(s)
      <4>1. PICK i \in pos[s]..Len(hand[s]) : x = hand[s][i]
        BY <1>1, <3>6 DEF Left
      <4>2. pos[s] < i /\ i \in DOMAIN hand[s] /\ pos[s] \in DOMAIN hand[s]
        BY <1>1, <1>2, <3>1, <4>1
      <4>3. QED
        BY <1>1, <1>2, <4>1, <4>2 DEF InOrder, Sorted
    <3>7. QED
      BY <3>1, <3>2, <3>4, <3>5, <3>6, RowsIff DEF Held
  <2>7. PICK X \in SUBSET Ids : X = {r}
    OBVIOUS
  <2>8. committed' = committed \cup X /\ \A y \in X : \E t \in Shards : y \in Held(t)
    BY <1>5, <2>3, <2>7
  <2>9. ASSUME NEW b \in Sets, NEW l \in Keys, table'[b][l] # table[b][l]
         PROVE  /\ \E y \in X : Row[y].set = b /\ Row[y].key = l
                /\ table'[b][l] # None /\ table'[b][l].id \in X
                /\ Row[table'[b][l].id].set = b /\ Row[table'[b][l].id].key = l
    <3>1. b = a /\ l = k
      BY <2>1, <2>9
    <3>2. r \in X /\ Row[r].set = b /\ Row[r].key = l
      BY <1>3, <2>7, <3>1
    <3>3. table'[b][l] # None /\ table'[b][l].id = r
      BY SMTT(60), <2>2, <3>1
    <3>4. QED
      BY <3>2, <3>3
  <2>10. \A y \in X :
           LET l == table'[Row[y].set][Row[y].key]
           IN  /\ l # None /\ l.id \in X
               /\ Row[l.id].set = Row[y].set /\ Row[l.id].key = Row[y].key
               /\ IndexIn(order, y) <= IndexIn(order, l.id)
               /\ \A t \in Shards : \A x \in Held(t)' :
                     Row[x].set = Row[y].set /\ Row[x].key = Row[y].key =>
                        IndexIn(order, l.id) < IndexIn(order, x)
    BY <1>3, <2>2, <2>5, <2>6, <2>7
  <2>11. UNCHANGED <<route, order>>
    BY <1>1
  <2>12. QED
    BY <2>4, <2>8, <2>9, <2>10, <2>11, StoreGrows
<1>6. QED
  <2>1. UNCHANGED <<store, committed>>
        \/ /\ table' = [table EXCEPT ![Row[hand[s][pos[s]]].set][Row[hand[s][pos[s]]].key] =
                           [id |-> hand[s][pos[s]], vals |-> vals[s]]]
           /\ committed' = committed \cup {hand[s][pos[s]]}
    BY ZenonT(60) DEF PutSingle
  <2>2. QED
    BY Zenon, <1>2, <1>3, <1>4, <1>5, <2>1

\* A row submitted comes after all that was stored.
LEMMA SubmitStore ==
    ASSUME TypeInv, PlaceInv, OrderInv, StoreInv, NEW w \in Workers, Submit(w)
    PROVE  StoreInv'
<1>1. todo[w] \in Seq(Ids) /\ todo[w] # <<>> /\ order \in Seq(Ids) /\ Distinct(order)
      /\ committed \subseteq Elems(order) /\ committed \subseteq Ids
  BY DEF Submit, TypeInv, Common, OrderInv, PlaceInv, Settled
<1>2. PICK r \in Ids : r = Head(todo[w])
  BY <1>1, TailFacts
<1>3. PICK s \in Shards : s = route[Row[r].key]
  <2>1. Row[r].key \in Keys
    BY RowFields
  <2>2. QED
    BY <2>1 DEF TypeInv, Common
<1>4. r \notin Elems(order)
  <2>1. r \in Elems(todo[w])
    BY SMTT(60), <1>1, <1>2, TailFacts
  <2>2. QED
    BY <2>1 DEF PlaceInv
<1>5. /\ chan' = [chan EXCEPT ![s] = Append(@, r)] /\ order' = Append(order, r)
      /\ UNCHANGED <<pending, hand, pos, pc, table, committed>>
  BY <1>2, <1>3 DEF Submit, store
<1>6. \A x \in Elems(order) : /\ IndexIn(order', x) = IndexIn(order, x)
                             /\ IndexIn(order', x) < IndexIn(order', r)
  BY <1>1, <1>4, <1>5, IndexAppend
<1>7. ASSUME NEW t \in Shards PROVE Held(t)' \subseteq Held(t) \cup {r}
  <2>1. Elems(chan'[t]) \subseteq Elems(chan[t]) \cup {r}
    <3>1. chan[t] \in Seq(Ids)
      BY DEF TypeInv, Own
    <3>2. chan'[t] = chan[t] \/ chan'[t] = Append(chan[t], r)
      BY <1>5 DEF TypeInv, Own
    <3>3. QED
      BY <3>1, <3>2, AppendFacts
  <2>2. Left(t)' = Left(t) /\ pending' = pending
    BY <1>5 DEF Left
  <2>3. QED
    BY <2>1, <2>2 DEF Held
<1>8. \A t \in Shards : Held(t) \subseteq Elems(order)
  BY DEF PlaceInv
<1>9. \A y \in Ids : Row[y].set \in Sets /\ Row[y].key \in Keys
  BY RowFields
<1>10. ASSUME NEW y \in committed'
       PROVE  LET stored == table'[Row[y].set][Row[y].key]
              IN  stored # None /\ IndexIn(order', y) <= IndexIn(order', stored.id)
  <2>1. y \in committed /\ Row[y].set \in Sets /\ Row[y].key \in Keys
    BY <1>1, <1>5, <1>9
  <2>2. /\ table[Row[y].set][Row[y].key] # None
        /\ IndexIn(order, y) <= IndexIn(order, table[Row[y].set][Row[y].key].id)
        /\ table[Row[y].set][Row[y].key].id \in committed
    BY <2>1 DEF StoreInv
  <2>3. QED
    BY <1>1, <1>5, <1>6, <2>1, <2>2
<1>11. ASSUME NEW a \in Sets, NEW k \in Keys, table'[a][k] # None
       PROVE  /\ table'[a][k].id \in committed' /\ Row[table'[a][k].id].set = a /\ Row[table'[a][k].id].key = k
              /\ \A t \in Shards : \A x \in Held(t)' : Row[x].set = a /\ Row[x].key = k =>
                    IndexIn(order', table'[a][k].id) < IndexIn(order', x)
  <2>1. /\ table[a][k].id \in committed /\ Row[table[a][k].id].set = a /\ Row[table[a][k].id].key = k
        /\ \A t \in Shards : \A x \in Held(t) : Row[x].set = a /\ Row[x].key = k =>
              IndexIn(order, table[a][k].id) < IndexIn(order, x)
    BY <1>5, <1>11 DEF StoreInv
  <2>2. ASSUME NEW t \in Shards, NEW x \in Held(t)', Row[x].set = a, Row[x].key = k
        PROVE  IndexIn(order', table[a][k].id) < IndexIn(order', x)
    <3>1. table[a][k].id \in Elems(order)
      BY <1>1, <2>1
    <3>2. CASE x = r
      BY <1>6, <3>1, <3>2
    <3>3. CASE x # r
      <4>1. x \in Held(t) /\ x \in Elems(order)
        BY <1>7, <1>8, <2>2, <3>3
      <4>2. QED
        BY <1>6, <2>1, <2>2, <3>1, <4>1
    <3>4. QED
      BY <3>2, <3>3
  <2>3. QED
    BY <1>5, <2>1, <2>2
<1>12. QED
  BY SMTT(60), <1>10, <1>11 DEF StoreInv

\* The row stored last, whatever the step.
LEMMA StoreNext ==
    TypeInv /\ PlaceInv /\ PlaceInv' /\ OrderInv /\ StoreInv /\ [Next]_vars => StoreInv'
<1> SUFFICES ASSUME TypeInv, PlaceInv, PlaceInv', OrderInv, StoreInv, [Next]_vars PROVE StoreInv'
  OBVIOUS
<1>1. ASSUME NEW w \in Workers, Submit(w) PROVE StoreInv'
  BY <1>1, SubmitStore
<1>2. ASSUME UNCHANGED <<route, order, table, committed>>, failed \subseteq failed', gaveUp \subseteq gaveUp'
      PROVE  StoreInv'
  <2>1. Settled \subseteq Settled'
    BY <1>2 DEF Settled
  <2>2. QED
    BY <1>2, <2>1, StoreKept
<1>3. ASSUME NEW s \in Shards, ShardAct(s) PROVE StoreInv'
  <2>1. CASE Commit(s)
    BY <2>1, CommitStore
  <2>2. CASE PutSingle(s)
    BY <2>2, PutStore
  <2>3. CASE \/ Receive(s) \/ Age(s) \/ Finish(s) \/ FlushNext(s) \/ Prepare(s)
             \/ BatchFails(s) \/ PutFails(s) \/ Coerce(s)
    <3>1. UNCHANGED <<route, order, table, committed>> /\ failed \subseteq failed' /\ gaveUp \subseteq gaveUp'
      BY Zenon, <2>3 DEF Receive, Age, Finish, FlushNext, Prepare, BatchFails, PutFails, Coerce, store, past
    <3>2. QED
      BY Zenon, <1>2, <3>1
  <2>4. QED
    BY <1>3, <2>1, <2>2, <2>3 DEF ShardAct, ShardStep
<1>4. CASE Close \/ Closed \/ UNCHANGED vars
  BY <1>2, <1>4 DEF Close, Closed, vars, flusher, store, past
<1>5. QED
  BY <1>1, <1>3, <1>4 DEF Next, ShardAct

-----------------------------------------------------------------------------
(*                     The types of what is written                        *)

\* Values v that coercion may have made of row r's for set a: each is the row's own, or stands for
\* one that has not the column's type g[a][c].
Made(g, a, r, v) ==
    \A c \in Cols :
        \/ v[c] = Row[r].vals[c]
        \/ /\ Row[r].vals[c] # None /\ g[a][c] # None /\ Row[r].vals[c] # g[a][c]
           /\ v[c] = g[a][c] \/ (v[c] = None /\ <<Row[r].vals[c], g[a][c]>> \notin Widens)

\* Values v that may be stored for row r: of their columns' types, and none left out that can be
\* converted.
Suited(g, a, r, v) ==
    \A c \in Cols :
        /\ v[c] \in {None, g[a][c]}
        /\ v[c] = None /\ Row[r].vals[c] # None =>
              g[a][c] # None /\ Row[r].vals[c] # g[a][c] /\ <<Row[r].vals[c], g[a][c]>> \notin Widens

\* What a shard has at its place: in the fallback, values made of the row's; in a batch, rows up to
\* the next one that suit their columns.
FitShard(g, ha, po, v, p) ==
    /\ p \in {"put", "coerce"} => Made(g, Row[ha[po]].set, ha[po], v)
    /\ p \in {"prepare", "commit"} => \A i \in DOMAIN ha : i < po =>
          Suited(g, Row[ha[i]].set, ha[i], Row[ha[i]].vals)
    /\ p = "commit" => po > Len(ha)

FitInv ==
    /\ \A s \in Shards : FitShard(schema, hand[s], pos[s], vals[s], pc[s])
    /\ \A a \in Sets, k \in Keys : table[a][k] # None =>
          Suited(schema, a, table[a][k].id, table[a][k].vals)

\* As the schema grows, what was made and suited stays so.
LEMMA FitGrows ==
    ASSUME NEW g \in [Sets -> Vals], NEW h \in [Sets -> Vals], NEW a \in Sets, NEW r, NEW v,
           \A b \in Sets, c \in Cols : g[b][c] # None => h[b][c] = g[b][c]
    PROVE  /\ Made(g, a, r, v) => Made(h, a, r, v)
           /\ Suited(g, a, r, v) => Suited(h, a, r, v)
<1>1. ASSUME Made(g, a, r, v) PROVE Made(h, a, r, v)
  BY <1>1 DEF Made
<1>2. ASSUME Suited(g, a, r, v) PROVE Suited(h, a, r, v)
  BY <1>2 DEF Suited
<1>3. QED
  BY <1>1, <1>2

\* A put without a conflict stores what suits the columns.
LEMMA PutSuits ==
    ASSUME schema \in [Sets -> Vals], NEW a \in Sets, NEW r \in Ids, NEW v \in Vals,
           Made(schema, a, r, v), Conflicts(a, v) = {}
    PROVE  Suited(Learn(a, v), a, r, v)
<1>1. \A c \in Cols : v[c] = None \/ schema[a][c] = None \/ v[c] = schema[a][c]
  BY DEF Conflicts
<1>2. \A c \in Cols : Learn(a, v)[a][c] = IF schema[a][c] = None THEN v[c] ELSE schema[a][c]
  BY DEF Learn, Vals
<1>3. QED
  BY <1>1, <1>2 DEF Made, Suited

\* Coercion makes of a row's values what it may.
LEMMA CoerceMakes ==
    ASSUME NEW g, NEW a, NEW r, NEW v, NEW u, Made(g, a, r, v),
           \A c \in Cols : u[c] \in Coerced(v[c], g[a][c])
    PROVE  Made(g, a, r, u)
<1> SUFFICES ASSUME NEW c \in Cols
             PROVE  \/ u[c] = Row[r].vals[c]
                    \/ /\ Row[r].vals[c] # None /\ g[a][c] # None /\ Row[r].vals[c] # g[a][c]
                       /\ u[c] = g[a][c] \/ (u[c] = None /\ <<Row[r].vals[c], g[a][c]>> \notin Widens)
  BY DEF Made
<1>1. u[c] \in Coerced(v[c], g[a][c])
  OBVIOUS
<1>2. CASE v[c] = None \/ g[a][c] = None \/ v[c] = g[a][c]
  <2>1. u[c] = v[c]
    BY <1>1, <1>2 DEF Coerced
  <2>2. QED
    BY <2>1 DEF Made
<1>3. CASE v[c] # None /\ g[a][c] # None /\ v[c] # g[a][c]
  <2>1. v[c] = Row[r].vals[c]
    BY <1>3 DEF Made
  <2>2. u[c] = g[a][c] \/ (u[c] = None /\ <<v[c], g[a][c]>> \notin Widens)
    BY <1>1, <1>3 DEF Coerced
  <2>3. QED
    BY <1>3, <2>1, <2>2
<1>4. QED
  BY <1>2, <1>3

\* A row's own values are made of them.
LEMMA OwnMade == ASSUME NEW g, NEW a, NEW r PROVE Made(g, a, r, Row[r].vals)
  BY DEF Made

\* What a shard has stays fit as the schema grows.
LEMMA FitShardGrows ==
    ASSUME NEW g \in [Sets -> Vals], NEW h \in [Sets -> Vals], NEW ha \in Seq(Ids), NEW po \in Nat,
           NEW v, NEW p, p \in {"put", "coerce"} => po \in DOMAIN ha,
           \A b \in Sets, c \in Cols : g[b][c] # None => h[b][c] = g[b][c],
           FitShard(g, ha, po, v, p)
    PROVE  FitShard(h, ha, po, v, p)
<1>1. \A i \in DOMAIN ha : ha[i] \in Ids /\ Row[ha[i]].set \in Sets
  <2>1. ASSUME NEW i \in DOMAIN ha PROVE ha[i] \in Ids /\ Row[ha[i]].set \in Sets
    <3>1. ha[i] \in Ids
      OBVIOUS
    <3>2. QED
      BY <3>1, RowFields
  <2>2. QED
    BY <2>1
<1>2. ASSUME p \in {"put", "coerce"} PROVE Made(h, Row[ha[po]].set, ha[po], v)
  <2>1. Made(g, Row[ha[po]].set, ha[po], v) /\ Row[ha[po]].set \in Sets
    BY <1>1, <1>2 DEF FitShard
  <2>2. QED
    BY <2>1, FitGrows
<1>3. ASSUME p \in {"prepare", "commit"}, NEW i \in DOMAIN ha, i < po
      PROVE  Suited(h, Row[ha[i]].set, ha[i], Row[ha[i]].vals)
  <2>1. Suited(g, Row[ha[i]].set, ha[i], Row[ha[i]].vals) /\ Row[ha[i]].set \in Sets
    BY <1>1, <1>3 DEF FitShard
  <2>2. QED
    BY <2>1, FitGrows
<1>4. QED
  BY <1>2, <1>3 DEF FitShard

\* A shard whose goroutine is in none of these places, or only begins there.
LEMMA FitShardFresh ==
    ASSUME NEW g, NEW ha \in Seq(Ids), NEW po \in Nat, NEW v, NEW p,
           \/ p \in {"select", "exit"}
           \/ p = "prepare" /\ po = 1
           \/ p = "put" /\ v = Row[ha[po]].vals
    PROVE  FitShard(g, ha, po, v, p)
<1>1. CASE p \in {"select", "exit"}
  BY <1>1 DEF FitShard
<1>2. CASE p = "prepare" /\ po = 1
  <2>1. \A i \in DOMAIN ha : ~(i < 1)
    OBVIOUS
  <2>2. QED
    BY <1>2, <2>1 DEF FitShard
<1>3. CASE p = "put" /\ v = Row[ha[po]].vals
  BY <1>3, OwnMade DEF FitShard
<1>4. QED
  BY <1>1, <1>2, <1>3

\* The next row of the fallback has its own values.
LEMMA NextRowFresh ==
    ASSUME TypeInv, TypeInv', NEW s \in Shards, NextRow(s), pc[s] \in {"put", "coerce"}
    PROVE  FitShard(schema', hand'[s], pos'[s], vals'[s], pc'[s])
<1>1. hand'[s] \in Seq(Ids) /\ pos'[s] \in Nat
  BY FlushSizeFacts DEF TypeInv, Own
<1>2. \/ pc'[s] = "select"
      \/ pc'[s] = "put" /\ vals'[s] = Row[hand'[s][pos'[s]]].vals
  <2>1. CASE pos[s] = Len(hand[s])
    BY <2>1 DEF NextRow, Done, TypeInv, Own
  <2>2. CASE pos[s] # Len(hand[s])
    BY <2>2 DEF NextRow, TypeInv, Own
  <2>3. QED
    BY <2>1, <2>2
<1>3. QED
  BY <1>1, <1>2, FitShardFresh

\* A row prepared suits its columns.
LEMMA PrepareFit ==
    ASSUME TypeInv, TypeInv', FitInv, NEW s \in Shards, Prepare(s)
    PROVE  FitShard(schema', hand'[s], pos'[s], vals'[s], pc'[s])
<1>1. /\ hand[s] \in Seq(Ids) /\ pos[s] \in 1..Len(hand[s]) /\ pc[s] = "prepare" /\ hand' = hand
      /\ FitShard(schema, hand[s], pos[s], vals[s], pc[s]) /\ schema \in [Sets -> Vals]
  BY DEF TypeInv, Own, Common, Fits, FitInv, Prepare
<1>2. PICK r \in Ids : r = hand[s][pos[s]]
  BY <1>1
<1>3. PICK a \in Sets, v \in Vals : a = Row[r].set /\ v = Row[r].vals
  BY RowFields
<1>4. CASE pc'[s] = "put" /\ vals'[s] = Row[hand[s][1]].vals /\ pos'[s] = 1
  BY <1>1, <1>4, FitShardFresh
<1>5. CASE /\ Conflicts(a, v) = {} /\ schema' = Learn(a, v) /\ pos'[s] = pos[s] + 1
           /\ pc'[s] = IF pos[s] = Len(hand[s]) THEN "commit" ELSE "prepare"
  <2>1. \A b \in Sets, c \in Cols : schema[b][c] # None => schema'[b][c] = schema[b][c]
    BY ZenonT(60), <1>1, <1>5, LearnFacts
  <2>2. Suited(schema', a, r, v)
    BY <1>1, <1>3, <1>5, OwnMade, PutSuits
  <2>3. ASSUME NEW i \in DOMAIN hand[s], i < pos[s] + 1
        PROVE  Suited(schema', Row[hand[s][i]].set, hand[s][i], Row[hand[s][i]].vals)
    <3>1. CASE i = pos[s]
      BY <1>2, <1>3, <2>2, <3>1
    <3>2. CASE i < pos[s]
      <4>1. Suited(schema, Row[hand[s][i]].set, hand[s][i], Row[hand[s][i]].vals)
        BY <1>1, <3>2 DEF FitShard
      <4>2. Row[hand[s][i]].set \in Sets
        <5>1. hand[s][i] \in Ids
          BY <1>1
        <5>2. QED
          BY <5>1, RowFields
      <4>3. schema' \in [Sets -> Vals]
        BY DEF TypeInv, Common
      <4>4. QED
        BY <1>1, <2>1, <4>1, <4>2, <4>3, FitGrows
    <3>3. QED
      BY <1>1, <2>3, <3>1, <3>2
  <2>4. pos[s] = Len(hand[s]) => pos[s] + 1 > Len(hand[s])
    BY <1>1
  <2>5. QED
    BY <1>1, <1>5, <2>3, <2>4 DEF FitShard
<1>6. QED
  <2>1. \/ pc'[s] = "put" /\ vals'[s] = Row[hand[s][1]].vals /\ pos'[s] = 1
        \/ /\ Conflicts(a, v) = {} /\ schema' = Learn(a, v) /\ pos'[s] = pos[s] + 1
           /\ pc'[s] = IF pos[s] = Len(hand[s]) THEN "commit" ELSE "prepare"
    BY <1>2, <1>3 DEF Prepare, TypeInv, Own
  <2>2. QED
    BY <1>4, <1>5, <2>1

\* What a shard's own step leaves it with.
LEMMA OwnFit ==
    ASSUME TypeInv, TypeInv', FitInv, NEW s \in Shards, ShardAct(s)
    PROVE  FitShard(schema', hand'[s], pos'[s], vals'[s], pc'[s])
<1>1. hand'[s] \in Seq(Ids) /\ pos'[s] \in Nat
  BY SMTT(30), FlushSizeFacts DEF TypeInv, Own
<1>2. FitShard(schema, hand[s], pos[s], vals[s], pc[s])
  BY DEF FitInv
<1>3. CASE Receive(s) \/ FlushNext(s) \/ Age(s) \/ Finish(s)
  <2>1. pc[s] = "select"
    BY Zenon, <1>3 DEF Receive, FlushNext, Age, Finish
  <2>2. pc'[s] \in {"select", "exit"} \/ (pc'[s] = "prepare" /\ pos'[s] = 1)
    BY ZenonT(40), <1>3, <2>1 DEF Receive, FlushNext, Age, Finish, BeginFlush, TypeInv, Own
  <2>3. QED
    BY <1>1, <2>2, FitShardFresh
<1>4. CASE Commit(s) \/ BatchFails(s)
  <2>1. pc'[s] = "select"
    BY Zenon, <1>4 DEF Commit, BatchFails, Done, TypeInv, Own
  <2>2. QED
    BY <1>1, <2>1, FitShardFresh
<1>5. CASE Prepare(s)
  BY <1>5, PrepareFit
<1>6. CASE PutFails(s)
  BY <1>6, NextRowFresh DEF PutFails
<1>7. CASE PutSingle(s)
  <2>1. CASE NextRow(s)
    BY Zenon, <1>7, <2>1, NextRowFresh DEF PutSingle
  <2>2. CASE pc' = [pc EXCEPT ![s] = "coerce"] /\ UNCHANGED <<store, hand, pos, vals>>
    <3>1. pc[s] = "put" /\ pc'[s] = "coerce" /\ UNCHANGED <<schema, hand, pos, vals>>
      BY Zenon, <1>7, <2>2 DEF PutSingle, store, TypeInv, Own
    <3>2. QED
      BY <1>2, <3>1 DEF FitShard
  <2>3. QED
    BY Zenon, <1>7, <2>1, <2>2 DEF PutSingle, store
<1>8. CASE Coerce(s)
  <2>1. CASE NextRow(s)
    BY <1>8, <2>1, NextRowFresh DEF Coerce
  <2>2. ASSUME NEW u \in Vals,
               \A c \in Cols : u[c] \in Coerced(vals[s][c], schema[Row[hand[s][pos[s]]].set][c]),
               vals' = [vals EXCEPT ![s] = u], pc' = [pc EXCEPT ![s] = "put"],
               UNCHANGED <<tries, hand, pos>>
        PROVE  FitShard(schema', hand'[s], pos'[s], vals'[s], pc'[s])
    <3>1. pc[s] = "coerce" /\ schema' = schema /\ pc'[s] = "put" /\ vals'[s] = u
      BY Zenon, <1>8, <2>2 DEF Coerce, store, TypeInv, Own
    <3>2. Made(schema, Row[hand[s][pos[s]]].set, hand[s][pos[s]], vals[s])
      BY <1>2, <3>1 DEF FitShard
    <3>3. Made(schema, Row[hand[s][pos[s]]].set, hand[s][pos[s]], u)
      BY <2>2, <3>2, CoerceMakes
    <3>4. QED
      BY Zenon, <2>2, <3>1, <3>3 DEF FitShard
  <2>3. \/ NextRow(s)
        \/ \E u \in Vals :
              /\ \A c \in Cols : u[c] \in Coerced(vals[s][c], schema[Row[hand[s][pos[s]]].set][c])
              /\ vals' = [vals EXCEPT ![s] = u] /\ pc' = [pc EXCEPT ![s] = "put"]
              /\ UNCHANGED <<tries, hand, pos>>
    BY <1>8, Zenon DEF Coerce, Vals
  <2>4. QED
    BY <2>1, <2>2, <2>3
<1>9. QED
  BY <1>3, <1>4, <1>5, <1>6, <1>7, <1>8 DEF ShardAct, ShardStep

\* What a step of a shard leaves in the table.
LEMMA TableFit ==
    ASSUME TypeInv, TypeInv', OrderInv, FitInv, NEW s \in Shards, ShardAct(s),
           NEW a \in Sets, NEW k \in Keys, table'[a][k] # None
    PROVE  Suited(schema', a, table'[a][k].id, table'[a][k].vals)
<1>1. /\ schema \in [Sets -> Vals] /\ schema' \in [Sets -> Vals]
      /\ \A b \in Sets, c \in Cols : schema[b][c] # None => schema'[b][c] = schema[b][c]
  BY ShardSchema DEF TypeInv, Common, SchemaGrows
<1>2. ASSUME table'[a][k] = table[a][k] PROVE Suited(schema', a, table'[a][k].id, table'[a][k].vals)
  <2>1. Suited(schema, a, table[a][k].id, table[a][k].vals)
    BY <1>2 DEF FitInv
  <2>2. QED
    BY <1>1, <1>2, <2>1, FitGrows
<1>3. CASE Commit(s)
  <2>1. hand[s] \in Seq(Ids) /\ pc[s] = "commit" /\ schema' = schema /\ pos[s] \in Nat
    <3>1. hand[s] \in Seq(Ids) /\ pos[s] \in 1..(FlushSize + 1)
      BY Zenon DEF TypeInv, Own
    <3>2. pc[s] = "commit" /\ schema' = schema
      BY Zenon, <1>3 DEF Commit
    <3>3. QED
      BY <3>1, <3>2, FlushSizeFacts
  <2>2. CASE /\ \E i \in DOMAIN hand[s] : Row[hand[s][i]].set = a /\ Row[hand[s][i]].key = k
             /\ table'[a][k] = [id   |-> hand[s][LastOf(hand[s], k)],
                                vals |-> Row[hand[s][LastOf(hand[s], k)]].vals]
    <3>1. PICK i \in DOMAIN hand[s] : Row[hand[s][i]].set = a /\ Row[hand[s][i]].key = k
      BY <2>2
    <3>2. PICK m \in DOMAIN hand[s] : m = LastOf(hand[s], k)
      BY <2>1, <3>1, LastOfFacts
    <3>3. Row[hand[s][m]].set = a
      <4>1. InOrder(order, chan[s], pending[s], hand[s])
        BY DEF OrderInv
      <4>2. hand[s][m] \in Elems(hand[s]) /\ hand[s][i] \in Elems(hand[s])
        BY DEF Elems
      <4>3. QED
        BY <3>1, <4>1, <4>2 DEF InOrder
    <3>4. pos[s] > Len(hand[s]) /\ m < pos[s]
      <4>1. pos[s] > Len(hand[s])
        BY <2>1 DEF FitInv, FitShard
      <4>2. QED
        BY <2>1, <4>1
    <3>5. Suited(schema, a, hand[s][m], Row[hand[s][m]].vals)
      BY <2>1, <3>3, <3>4 DEF FitInv, FitShard
    <3>6. table'[a][k].id = hand[s][m] /\ table'[a][k].vals = Row[hand[s][m]].vals
      BY SMTT(30), <2>2, <3>2
    <3>7. QED
      BY <2>1, <3>5, <3>6
  <2>3. QED
    BY <1>2, <1>3, <2>2, CommitWrites
<1>4. CASE PutSingle(s)
  <2>1. PICK r \in Ids : r = hand[s][pos[s]]
    BY Zenon, <1>4, InHand DEF PutSingle
  <2>2. PICK b \in Sets, l \in Keys : b = Row[r].set /\ l = Row[r].key
    BY Zenon, RowFields
  <2>3. pc[s] = "put" /\ vals[s] \in Vals /\ Made(schema, b, r, vals[s])
    BY Zenon, <1>4, <2>1, <2>2 DEF PutSingle, TypeInv, Fits, FitInv, FitShard
  <2>4. CASE UNCHANGED store
    BY <1>2, <2>4 DEF store
  <2>5. CASE /\ Conflicts(b, vals[s]) = {} /\ schema' = Learn(b, vals[s])
             /\ table' = [table EXCEPT ![b][l] = [id |-> r, vals |-> vals[s]]]
    <3>1. /\ table'[b][l] = [id |-> r, vals |-> vals[s]]
          /\ a # b \/ k # l => table'[a][k] = table[a][k]
      BY <2>5 DEF TypeInv, Common
    <3>2. Suited(schema', b, r, vals[s])
      BY <1>1, <2>3, <2>5, PutSuits
    <3>3. CASE a = b /\ k = l
      <4>1. table'[a][k].id = r /\ table'[a][k].vals = vals[s]
        BY SMTT(30), <3>1, <3>3
      <4>2. QED
        BY <3>2, <3>3, <4>1
    <3>4. QED
      BY <1>2, <3>1, <3>3
  <2>6. QED
    <3>1. UNCHANGED store
          \/ /\ Conflicts(Row[hand[s][pos[s]]].set, vals[s]) = {}
             /\ schema' = Learn(Row[hand[s][pos[s]]].set, vals[s])
             /\ table' = [table EXCEPT ![Row[hand[s][pos[s]]].set][Row[hand[s][pos[s]]].key] =
                             [id |-> hand[s][pos[s]], vals |-> vals[s]]]
      BY Zenon, <1>4 DEF PutSingle
    <3>2. QED
      BY Zenon, <2>1, <2>2, <2>4, <2>5, <3>1
<1>5. CASE \/ Receive(s) \/ Age(s) \/ Finish(s) \/ FlushNext(s) \/ Prepare(s)
           \/ BatchFails(s) \/ PutFails(s) \/ Coerce(s)
  BY Zenon, <1>2, <1>5 DEF Receive, Age, Finish, FlushNext, Prepare, BatchFails, PutFails, Coerce, store
<1>6. QED
  BY <1>3, <1>4, <1>5 DEF ShardAct, ShardStep

\* Nothing is stored initially.
LEMMA FitInit == Init => FitInv
<1> SUFFICES ASSUME Init PROVE FitInv
  OBVIOUS
<1>1. ASSUME NEW s \in Shards PROVE FitShard(schema, hand[s], pos[s], vals[s], pc[s])
  BY <1>1 DEF Init, FitShard
<1>2. \A a \in Sets, k \in Keys : table[a][k] = None
  BY Zenon DEF Init
<1>3. QED
  BY <1>1, <1>2 DEF FitInv

\* Every step leaves what fits.
LEMMA FitNext == TypeInv /\ TypeInv' /\ OrderInv /\ FitInv /\ [Next]_vars => FitInv'
<1> SUFFICES ASSUME TypeInv, TypeInv', OrderInv, FitInv, [Next]_vars PROVE FitInv'
  OBVIOUS
<1>1. ASSUME NEW s \in Shards, ShardAct(s) PROVE FitInv'
  <2>1. ASSUME NEW t \in Shards PROVE FitShard(schema', hand'[t], pos'[t], vals'[t], pc'[t])
    <3>1. CASE t = s
      BY <1>1, <3>1, OwnFit
    <3>2. CASE t # s
      <4>1. /\ hand'[t] = hand[t] /\ pos'[t] = pos[t] /\ vals'[t] = vals[t] /\ pc'[t] = pc[t]
        BY <1>1, <3>2, ShardIsLocal DEF Elsewhere
      <4>2. /\ schema \in [Sets -> Vals] /\ schema' \in [Sets -> Vals] /\ hand[t] \in Seq(Ids)
            /\ pos[t] \in Nat /\ (pc[t] \in {"put", "coerce"} => pos[t] \in DOMAIN hand[t])
        <5>1. hand[t] \in Seq(Ids) /\ pos[t] \in 1..(FlushSize + 1) /\ Fits(t)
          BY DEF TypeInv, Own
        <5>2. pos[t] \in Nat /\ pos[t] >= 1
          BY <5>1, FlushSizeFacts
        <5>3. pc[t] \in {"put", "coerce"} => pos[t] \in DOMAIN hand[t]
          BY <5>1, <5>2 DEF Fits
        <5>4. QED
          BY <5>1, <5>2, <5>3 DEF TypeInv, Common
      <4>3. \A b \in Sets, c \in Cols : schema[b][c] # None => schema'[b][c] = schema[b][c]
        BY <1>1, ShardSchema DEF SchemaGrows
      <4>4. FitShard(schema, hand[t], pos[t], vals[t], pc[t])
        BY DEF FitInv
      <4>5. FitShard(schema', hand[t], pos[t], vals[t], pc[t])
        BY <4>2, <4>3, <4>4, FitShardGrows
      <4>6. QED
        BY <4>1, <4>5
    <3>3. QED
      BY <3>1, <3>2
  <2>2. ASSUME NEW a \in Sets, NEW k \in Keys, table'[a][k] # None
        PROVE  Suited(schema', a, table'[a][k].id, table'[a][k].vals)
    BY <1>1, <2>2, TableFit
  <2>3. QED
    BY <2>1, <2>2 DEF FitInv
<1>2. CASE UNCHANGED <<hand, pos, vals, pc, schema, table>>
  BY <1>2 DEF FitInv
<1>3. QED
  BY Zenon, <1>1, <1>2 DEF Next, ShardAct, Submit, Close, Closed, vars, flusher, store

-----------------------------------------------------------------------------
(*                              The theorem                                *)

\* The row stored at a key is the one of its rows written that was submitted
\* last, and its values have the types of their columns; one was left out only
\* if coerceRow may refuse it (submit, putBatcher.run, putDataSingle).
THEOREM LastSubmittedDoesWin == Spec => []LastSubmittedWins
<1> DEFINE LInv == IInv /\ OrderInv /\ StoreInv /\ FitInv
<1>1. Init => LInv
  <2>1. Init => StoreInv
    BY DEF Init, StoreInv
  <2>2. QED
    BY <2>1, TypeInit, ExitInit, PlaceInit, OrderInit, FitInit DEF IInv
<1>2. LInv /\ [Next]_vars => LInv'
  <2>1. IInv /\ [Next]_vars => IInv'
    BY SMTT(60), TypeNext, ExitNext, PlaceNext DEF IInv
  <2>2. QED
    BY <2>1, OrderNext, StoreNext, FitNext DEF IInv
<1>3. LInv => LastSubmittedWins
  <2> SUFFICES ASSUME LInv PROVE LastSubmittedWins
    OBVIOUS
  <2>1. ASSUME NEW r \in committed
        PROVE  LET stored == table[Row[r].set][Row[r].key]
               IN  stored # None /\ At(r) <= At(stored.id)
    BY DEF StoreInv, At
  <2>2. ASSUME NEW a \in Sets, NEW k \in Keys, table[a][k] # None, NEW c \in Cols
        PROVE  LET have == Row[table[a][k].id].vals[c]
                   got  == table[a][k].vals[c]
               IN  /\ got \in {None, schema[a][c]}
                   /\ got = None /\ have # None =>
                         have # schema[a][c] /\ <<have, schema[a][c]>> \notin Widens
    <3>1. Suited(schema, a, table[a][k].id, table[a][k].vals)
      BY <2>2 DEF FitInv
    <3>2. QED
      BY <3>1 DEF Suited
  <2>3. QED
    BY <2>1, <2>2 DEF LastSubmittedWins
<1>4. QED
  BY <1>1, <1>2, <1>3, PTL DEF Spec
=============================================================================
