------------------------- MODULE DBRootExtentTracker -------------------------
(***************************************************************************)
(* The extent placement tracker of one column (class DBRootExtentTracker,  *)
(* we_dbrootextenttracker.h): the DBRoots of the local PM in rotation      *)
(* order, the pending extent of each, and the index of the DBRoot the      *)
(* current extent is being added to.                                       *)
(*                                                                         *)
(* The header gives the types, the members and getCurrentDBRootIdx(); the  *)
(* bodies of selectFirstSegFile, assignFirstSegFile and nextSegFile are    *)
(* not among the sources and follow the design document (section 4.1).     *)
(* Two choices the document leaves open are made here and are policy:      *)
(*   - the job starts on the DBRoot holding a partial extent, else on the  *)
(*     first DBRoot without an extent, else behind the DBRoot the round    *)
(*     robin filled last;                                                  *)
(*   - of several partial extents elsewhere, nextSegFile resumes the one   *)
(*     nearest after the current DBRoot in rotation order.                 *)
(*                                                                         *)
(* A tracker is a value; every column of ColumnInfo holds one.  Indexes    *)
(* are 1-based, 0 is "no DBRoot selected yet".  fLocalHwm counts the       *)
(* blocks filled in the extent, so BlksPerExtent is a full extent.         *)
(***************************************************************************)
EXTENDS Naturals, Sequences, FiniteSets, FiniteSetsExt

CONSTANT BlksPerExtent     \* fBlksPerExtent: blocks of one extent

\* enum DBRootExtentInfoState
DBROOT_EXTENT_PARTIAL_EXTENT  == 1
DBROOT_EXTENT_EMPTY_DBROOT    == 2
DBROOT_EXTENT_EXTENT_BOUNDARY == 3

DBRootExtentInfoState ==
    {DBROOT_EXTENT_PARTIAL_EXTENT, DBROOT_EXTENT_EMPTY_DBROOT,
     DBROOT_EXTENT_EXTENT_BOUNDARY}

\* struct DBRootExtentInfo and its default constructor.
DBRootExtentInfoType(DBRoots) ==
    [fPartition : Nat, fDbRoot : DBRoots \cup {0}, fSegment : Nat,
     fStartLbid : Nat, fLocalHwm : 0..BlksPerExtent,
     fDBRootTotalBlocks : Nat, fState : DBRootExtentInfoState]

DefaultDBRootExtentInfo ==
    [fPartition |-> 0, fDbRoot |-> 0, fSegment |-> 0, fStartLbid |-> 0,
     fLocalHwm |-> 0, fDBRootTotalBlocks |-> 0,
     fState |-> DBROOT_EXTENT_PARTIAL_EXTENT]

\* The state a DBRoot of the extent map's snapshot starts the job in.
InitialState(em) ==
    IF em.totalBlocks = 0 THEN DBROOT_EXTENT_EMPTY_DBROOT
    ELSE IF em.localHwm = BlksPerExtent THEN DBROOT_EXTENT_EXTENT_BOUNDARY
    ELSE DBROOT_EXTENT_PARTIAL_EXTENT

\* DBRootExtentInfo(colWidth, dbRoot, partition, segment, startLbid, ...)
DBRootExtentInfo(em) ==
    [fPartition |-> em.partition, fDbRoot |-> em.dbRoot,
     fSegment |-> em.segment, fStartLbid |-> em.startLbid,
     fLocalHwm |-> em.localHwm, fDBRootTotalBlocks |-> em.totalBlocks,
     fState |-> InitialState(em)]

\* The constructor: one entry for each DBRoot of the snapshot, in its order.
NewTracker(emDbRootHWMInfo) ==
    [fDBRootExtentList   |-> [i \in DOMAIN emDbRootHWMInfo |->
                                 DBRootExtentInfo(emDbRootHWMInfo[i])],
     fCurrentDBRootIdx   |-> 0,
     fStartedWithEmptyPM |-> FALSE,
     fEmptyPMFirstDbRoot |-> 0]

getDBRootExtentList(t) == t.fDBRootExtentList
getCurrentDBRootIdx(t) == t.fCurrentDBRootIdx

CurrentExtent(t) == t.fDBRootExtentList[t.fCurrentDBRootIdx]

\* The DBRoots, by index, that hold a partial extent and are not the
\* current one.
PartialElsewhere(t) ==
    {i \in DOMAIN t.fDBRootExtentList :
        /\ i # t.fCurrentDBRootIdx
        /\ t.fDBRootExtentList[i].fState = DBROOT_EXTENT_PARTIAL_EXTENT}

\* Steps from index i forward to index j in rotation order.
Distance(t, i, j) == (j + Len(t.fDBRootExtentList) - i) % Len(t.fDBRootExtentList)

\* The index after i in rotation order.
Successor(t, i) == (i % Len(t.fDBRootExtentList)) + 1

\* The member of S nearest after the current index.
NearestAfter(t, S) ==
    CHOOSE j \in S : \A k \in S :
        Distance(t, t.fCurrentDBRootIdx, j) <= Distance(t, t.fCurrentDBRootIdx, k)

EmptyPM(t) ==
    \A i \in DOMAIN t.fDBRootExtentList :
        t.fDBRootExtentList[i].fState = DBROOT_EXTENT_EMPTY_DBROOT

\* Where a job starts: on the partial extent; else on the first DBRoot
\* that has no extent yet; else, every extent being full, on the DBRoot the
\* round robin filled last, so that the first new extent goes to the one
\* after it.
FirstDBRootIdx(t) ==
    LET list    == t.fDBRootExtentList
        inState(s) == {i \in DOMAIN list : list[i].fState = s}
        most    == {i \in DOMAIN list : \A k \in DOMAIN list :
                       list[i].fDBRootTotalBlocks >= list[k].fDBRootTotalBlocks}
    IN  IF inState(DBROOT_EXTENT_PARTIAL_EXTENT) # {}
        THEN Min(inState(DBROOT_EXTENT_PARTIAL_EXTENT))
        ELSE IF inState(DBROOT_EXTENT_EMPTY_DBROOT) # {}
        THEN Min(inState(DBROOT_EXTENT_EMPTY_DBROOT))
        ELSE Max(most)

\* The tracker once the extent of DBRoot i has been handed out: that DBRoot
\* is the current one, and is at an extent boundary when it is left.
HandedOut(t, i) ==
    [t EXCEPT !.fCurrentDBRootIdx = i,
              !.fDBRootExtentList[i].fState = DBROOT_EXTENT_EXTENT_BOUNDARY]

\* selectFirstSegFile(): [ok, trk, dbRootExtent, bFirstExtentOnThisPM].
SelectFirstSegFile(t) ==
    IF t.fDBRootExtentList = <<>>
    THEN [ok |-> FALSE, trk |-> t, dbRootExtent |-> DefaultDBRootExtentInfo,
          bFirstExtentOnThisPM |-> FALSE]
    ELSE LET i == FirstDBRootIdx(t)
         IN  [ok  |-> TRUE,
              trk |-> [HandedOut(t, i) EXCEPT
                          !.fStartedWithEmptyPM = EmptyPM(t),
                          !.fEmptyPMFirstDbRoot =
                              IF EmptyPM(t) THEN t.fDBRootExtentList[i].fDbRoot
                              ELSE 0],
              dbRootExtent |-> t.fDBRootExtentList[i],
              bFirstExtentOnThisPM |-> EmptyPM(t)]

\* assignFirstSegFile(): the reference tracker's DBRoot, partition and
\* segment, with this column's own HWM, LBID and state.
AssignFirstSegFile(t, refTracker) ==
    LET i   == refTracker.fCurrentDBRootIdx
        ref == refTracker.fDBRootExtentList[i]
        own == [t.fDBRootExtentList[i] EXCEPT !.fPartition = ref.fPartition,
                                              !.fSegment   = ref.fSegment]
    IN  [ok  |-> TRUE,
         trk |-> [HandedOut(t, i) EXCEPT
                     !.fDBRootExtentList[i].fPartition = ref.fPartition,
                     !.fDBRootExtentList[i].fSegment   = ref.fSegment,
                     !.fStartedWithEmptyPM = refTracker.fStartedWithEmptyPM,
                     !.fEmptyPMFirstDbRoot = refTracker.fEmptyPMFirstDbRoot],
         dbRootExtent |-> own,
         bFirstExtentOnThisPM |-> refTracker.fStartedWithEmptyPM]

\* Faulty variant: always the successor, a partial extent elsewhere is
\* left behind.
NextDBRootIdxSuccessor(t) == Successor(t, t.fCurrentDBRootIdx)

\* The DBRoot nextSegFile() rotates to: a partial extent elsewhere first,
\* else the successor.
NextDBRootIdx(t) ==
    IF PartialElsewhere(t) # {} THEN NearestAfter(t, PartialElsewhere(t))
    ELSE Successor(t, t.fCurrentDBRootIdx)

\* nextSegFile(): what it returns, and the tracker after it.  The entry
\* rotated to has given its first extent and is at an extent boundary from
\* now on.
NextSegFile(t) ==
    LET j == NextDBRootIdx(t)
        e == t.fDBRootExtentList[j]
    IN  [bAllocExtent |-> e.fState # DBROOT_EXTENT_PARTIAL_EXTENT,
         firstOnDBRoot |-> e.fState = DBROOT_EXTENT_EMPTY_DBROOT,
         dbRoot |-> e.fDbRoot, partition |-> e.fPartition,
         segment |-> e.fSegment, localHwm |-> e.fLocalHwm,
         startLbid |-> e.fStartLbid,
         trk |-> HandedOut(t, j)]

IsTracker(t, DBRoots) ==
    /\ t.fDBRootExtentList \in Seq(DBRootExtentInfoType(DBRoots))
    /\ t.fCurrentDBRootIdx \in 0..Len(t.fDBRootExtentList)
    /\ t.fStartedWithEmptyPM \in BOOLEAN
    /\ t.fEmptyPMFirstDbRoot \in DBRoots \cup {0}
=============================================================================
