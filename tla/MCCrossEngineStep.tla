-------------------------- MODULE MCCrossEngineStep --------------------------
(***************************************************************************)
(* Model of CrossEngineStep for TLC: a query of three INT columns, row     *)
(* groups of two rows through a data list that holds one row group.        *)
(***************************************************************************)
EXTENDS CrossEngineStep

CEF == INSTANCE CrossEngineField

\* The columns of the query have the keys 11, 12 and 13.
MCProjectSteps == <<[tupleId |-> 11, name |-> "c1"], [tupleId |-> 12, name |-> "c2"],
                    [tupleId |-> 13, name |-> "c3"]>>

\* No functions; functions of the WHERE clause on the last column, on the
\* last and the first, and on a column the query does not return; functions
\* of the SELECT clause, whose values (keys 21 and 22) are delivered with a
\* column between them; both, with other columns in another order.
MCJobs ==
    {[fe1 |-> <<>>,       out |-> <<11, 12, 13>>,     fe3 |-> <<>>],
     [fe1 |-> <<13>>,     out |-> <<11, 12, 13>>,     fe3 |-> <<>>],
     [fe1 |-> <<13, 11>>, out |-> <<11, 12, 13>>,     fe3 |-> <<>>],
     [fe1 |-> <<14>>,     out |-> <<11, 12, 13>>,     fe3 |-> <<>>],
     [fe1 |-> <<>>,       out |-> <<11, 12, 13, 21, 22>>, fe3 |-> <<22, 12, 21>>],
     [fe1 |-> <<13>>,     out |-> <<11, 12, 13, 21>>, fe3 |-> <<13, 21, 11>>]}

IntColumn == [colDataType |-> "INT", colWidth |-> 4,
              nullValue |-> <<254>> \o CEF!Bytes(7, 255)]

IntValue(n, type, warned) ==
    [isNull |-> FALSE, text |-> <<n>>, pushWarning |-> warned,
     anyVal |-> [type |-> type, bytes |-> <<n, 0, 0, 0>>]]

one  == IntValue(1, "int32_t", FALSE)
two  == IntValue(2, "int32_t", FALSE)
huge == IntValue(3, "int32_t", TRUE)     \* out of range: the null value
null == [isNull |-> TRUE, text |-> <<>>, pushWarning |-> FALSE,
         anyVal |-> [type |-> "none", bytes |-> <<>>]]
long == IntValue(4, "long long", FALSE)  \* any_cast<int32_t> throws

MCValues == {one, two, huge, null, long}

MCField(v) == CEF!setField(v, IntColumn, TRUE).field

MCBadValues == {v \in MCValues : CEF!setField(v, IntColumn, TRUE).thrown}

\* The WHERE functions are true of a row whose first field is 1.
MCFe1Passes == {r \in Seq({MCField(v) : v \in MCValues} \cup {Unset}) :
                   r # <<>> /\ r[1] = MCField(one)}

\* The WHERE functions throw on a row whose first field they read is null,
\* the SELECT functions on a row whose third column is.
MCFe1Throws == {r \in Seq({MCField(v) : v \in MCValues} \cup {Unset}) :
                   r # <<>> /\ r[1] = MCField(null)}
MCFe3Throws == {r \in Seq({MCField(v) : v \in MCValues} \cup {Unset}) :
                   Len(r) >= 3 /\ r[3] = MCField(null)}

a == <<one, two, one>>
b == <<two, null, one>>
c == <<huge, one, two>>     \* rejected where the last column is asked for
d == <<null, one, one>>     \* rejected where the first column is asked for
e == <<one, huge, one>>
q == <<long, one, two>>     \* thrown on, unless rejected before it is parsed
x == <<one, long, one>>     \* thrown on
t == <<one, one, null>>     \* the functions throw on it

\* Seven rows: four row groups without WHERE functions, the last one
\* partial, more than the list holds and one call of nextBand reads; with
\* them three full groups and an empty last one.  Four rows of which the
\* last throws, after one row group was inserted, and the second throws
\* where its first column is parsed.  Four rows with one the functions
\* throw on.  No rows.
MCResults ==
    { <<a, b, c, d, e, a, b>>, <<a, q, b, x>>, <<a, b, t, c>>, <<>> }
=============================================================================
