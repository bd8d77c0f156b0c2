-------------------------- MODULE MCTupleHavingStep --------------------------
(***************************************************************************)
(* Model of TupleHavingStep for TLC: five row groups through data lists    *)
(* that hold two, so that the producer has to wait for the step.  A row is *)
(* two bytes and three columns of one byte; the job delivers all three     *)
(* columns, the first of them beside a constant, or constants only.        *)
(***************************************************************************)
EXTENDS TupleHavingStep

\* The first and the third column have the same key.
MCRowGroupIn == [keys |-> <<5, 7, 5>>, pos |-> <<2, 3, 4, 5>>]

MCDeliveredCols ==
    { <<"SimpleColumn", "AggregateColumn", "SimpleColumn">>,
      <<"ConstantColumn", "AggregateColumn">>,
      <<"ConstantColumn">> }

a == <<0, 0, 1, 10, 1>>
b == <<0, 1, 1, 20, 2>>
c == <<0, 2, 2, 10, 3>>
d == <<0, 3, 2, 30, 4>>
e == <<0, 4, 3, 30, 5>>
x == <<0, 5, 9, 99, 9>>

MCRows   == {a, b, c, d, e, x}
MCPasses == {a, d, e}

\* Evaluating HAVING throws on x.
MCThrows == {x}

\* Two inputs.  In both the second group loses all its rows in the filter
\* and the third arrives empty; in the first the filter throws on the last
\* group, the second is filtered to its end.
MCInputs ==
    { << <<a, b>>, <<c>>, <<>>, <<d, e>>, <<x>> >>,
      << <<a, b>>, <<c>>, <<>>, <<d, e>>, <<b>> >> }
=============================================================================
