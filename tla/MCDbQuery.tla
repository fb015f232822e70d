----------------------------- MODULE MCDbQuery -----------------------------
(* DbQuery with an integer column that may be indexed, a second integer and *)
(* a string column: every kind of clause, ranges to both ends of the width. *)
EXTENDS DbQuery, TLC

CONSTANTS ts, a, b

Num(n) == Value("int", n)
Str(n) == Value("str", n)
Types == [n \in {ts, a, b} |-> IF n = b THEN "str" ELSE "int"]

Rows == {ts :> Num(3) @@ a :> Num(1), ts :> Num(-4) @@ b :> Str(1),
         ts :> Num(-4) @@ a :> Num(2) @@ b :> Str(1), a :> Num(1) @@ b :> Str(1)}

Eq(c, v)  == Leaf([op |-> "eq", col |-> c, v |-> v])
In(c, vs) == Leaf([op |-> "in", col |-> c, vals |-> vs])
Exists(c) == Leaf([op |-> "exists", col |-> c])
Between(c, lo, hi) == [op |-> "between", col |-> c, lo |-> lo, hi |-> hi]

Ranges  == {Nil, Between(ts, Num(-4), Num(3)), Between(ts, Num(-4), Num(-1)), Between(ts, Num(0), Num(3)),
            Between(a, Num(1), Num(1)), Between(b, Num(0), Num(1))}
Filters == {Nil, Exists(b), And({Exists(a), Eq(a, Num(1))}), Or({Not(Exists(a)), In(b, {Str(1), Str(2)})})}
Mixed ==
  {[scan |-> TRUE, between |-> Nil, filter |-> Nil, project |-> p] : p \in {{}, {a}}}
    \cup {[scan |-> FALSE, between |-> r, filter |-> f, project |-> p] :
            r \in Ranges, f \in Filters, p \in {{}, {a}}}
=============================================================================
