---------------------------- MODULE MCColumnInfo ----------------------------
(***************************************************************************)
(* Model of ColumnInfo for TLC: two columns of different width, three      *)
(* DBRoots, extents of four rows, an import of nine rows read in buffers   *)
(* of three, so that a buffer crosses an extent boundary, the abbreviated  *)
(* extent is expanded in the middle of a write, and the rotation comes     *)
(* back to the DBRoot it started on.                                       *)
(***************************************************************************)
EXTENDS ColumnInfo

CONSTANTS c1, c2, w1, w2

MCColumns  == {c1, c2}
MCColWidth == (c1 :> 1) @@ (c2 :> 2)
MCWriters  == {w1, w2}
MCValue    == [r \in 0..(NumRows - 1) |-> (r * 5) % 7]

Em(dbRoot, segment, startLbid, localHwm, totalBlocks) ==
    [dbRoot |-> dbRoot, partition |-> 0, segment |-> segment,
     startLbid |-> startLbid, localHwm |-> localHwm, totalBlocks |-> totalBlocks]

\* No DBRoot is configured.
NoDBRoots == <<>>
\* The table has no extent on this PM.
EmptyPMSnapshot == <<Em(1, 0, 0, 0, 0), Em(2, 1, 0, 0, 0), Em(3, 2, 0, 0, 0)>>
\* An earlier import stopped in the extent of DBRoot 2; DBRoot 3 is new.
ResumeSnapshot == <<Em(1, 0, 10, 4, 4), Em(2, 1, 20, 2, 2), Em(3, 2, 0, 0, 0)>>
\* DBRoot 3 was moved here with a partial extent of its own.
MovedSnapshot == <<Em(1, 0, 10, 1, 5), Em(2, 1, 20, 4, 4), Em(3, 2, 30, 3, 3)>>
\* Every extent is full; DBRoot 1 got the last one.
FullSnapshot == <<Em(1, 3, 40, 4, 8), Em(2, 1, 20, 4, 4), Em(3, 2, 30, 4, 4)>>

MCSnapshots ==
    {NoDBRoots, EmptyPMSnapshot, ResumeSnapshot, MovedSnapshot, FullSnapshot}
=============================================================================
