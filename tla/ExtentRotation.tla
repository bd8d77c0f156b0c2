--------------------------- MODULE ExtentRotation ---------------------------
(***************************************************************************)
(* What the rotation of a column's extents over the DBRoots promises: the  *)
(* order of the DBRoots is fixed for the job; the job starts on one of     *)
(* them; a partial extent left on another DBRoot, as a moved DBRoot brings *)
(* one, is resumed before any extent is added, and each once; with none    *)
(* left, the extents go to the DBRoots in order, round robin.              *)
(***************************************************************************)
EXTENDS Naturals, Sequences, SequencesExt

CONSTANT None          \* no DBRoot selected yet

VARIABLES
    order,             \* the DBRoots in rotation order
    volume,            \* the DBRoot of the current extent
    strays             \* the other DBRoots that hold a partial extent

rvars == <<order, volume, strays>>

After(v) == order[(SelectInSeq(order, LAMBDA x : x = v) % Len(order)) + 1]

Init == volume = None /\ strays = {}

Select ==
    /\ volume = None
    /\ volume' \in ToSet(order)
    /\ strays' \subseteq ToSet(order) \ {volume'}

Resume ==
    /\ volume \notin {None} \cup strays
    /\ volume' \in strays
    /\ strays' = strays \ {volume'}

Advance ==
    /\ volume # None
    /\ strays = {}
    /\ volume' = After(volume)
    /\ strays' = strays

Next == (Select \/ Resume \/ Advance) /\ order' = order

Spec == Init /\ [][Next]_rvars
=============================================================================
