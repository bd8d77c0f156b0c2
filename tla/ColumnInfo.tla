----------------------------- MODULE ColumnInfo -----------------------------
(***************************************************************************)
(* The load state of the columns of one table during a bulk load (struct   *)
(* ColumnInfo, we_columninfo.h), each with its extent tracker, and the     *)
(* threads that drive it: the main thread that sets the columns up and     *)
(* closes them, the parsing thread that tracks the min/max of every        *)
(* logical extent, and the threads that write parsed rows to the column    *)
(* files and extend the columns.                                           *)
(*                                                                         *)
(* The header gives the members, the enumerations, the locking rules and   *)
(* the inline functions; the other bodies follow the design document       *)
(* (sections 4.2, 5 and 7).  A column is a record with the members' names, *)
(* and an operation is an operator from the record to the record after it. *)
(* Sizes are raw bytes.  Positions in a file are counted in rows: the HWM  *)
(* of the model is the number of rows in the file's last extent and an     *)
(* extent holds RowsPerExtent rows of any width.  The arithmetic that      *)
(* turns blocks into rows by the column's width is in bodies the header    *)
(* does not give, and is left out.                                         *)
(***************************************************************************)
EXTENDS Integers, Sequences, SequencesExt, FiniteSets, TLC, DBRootExtentTracker

CONSTANTS
    Columns,            \* the columns of the table
    RefColumn,          \* the column that selects the first segment file
    ColWidth,           \* column.width, bytes of one value
    DBRoots,            \* the DBRoots of this PM
    Snapshots,          \* extent-map snapshots (EmDbRootHWMInfo) a job may start from
    AbbrevRows,         \* rows an abbreviated extent holds
    NumRows,            \* rows of the import
    BufRows,            \* rows of one read buffer
    Value,              \* the value of each input row
    Saturated,          \* input rows whose value is out of the column's range
    Writers,            \* the threads that write buffers out
    NoOwner             \* an unlocked mutex

RowsPerExtent == BlksPerExtent

ASSUME /\ RefColumn \in Columns
       /\ AbbrevRows \in 1..(RowsPerExtent - 1)
       /\ BufRows \in 1..RowsPerExtent
       /\ Value \in [0..(NumRows - 1) -> Int]
       /\ Saturated \subseteq 0..(NumRows - 1)

VARIABLES
    col,                      \* the ColumnInfo of every column
    fColMutex,                \* who holds each column's fColMutex
    fDelayedFileCreateMutex,  \* who holds each column's fDelayedFileCreateMutex
    parsed,                   \* rows of each column the parsing thread has parsed
    pending,                  \* rows parsed and not yet taken by a writer
    wr,                       \* the writers: where they are and what they write
    disk,                     \* the extents each column's rows went to
    created,                  \* files created belatedly, per column
    jobStatus,                \* "ok" or "failed"
    report                    \* what each column gave the BRM reporter

vars == <<col, fColMutex, fDelayedFileCreateMutex, parsed, pending, wr, disk,
          created, jobStatus, report>>

\* enum InitialDBFileStat
INITIAL_DBFILE_STAT_CREATE_FILE == 1
INITIAL_DBFILE_STAT_FILE_EXISTS == 2
INITIAL_DBFILE_STAT_ERROR_STATE == 3

NoReport == <<>>
Idle == [pc |-> "idle", col |-> RefColumn, first |-> 0, n |-> 0, stat |-> 0]

-----------------------------------------------------------------------------
(* One column.                                                             *)

ExtentBytes(ci) == RowsPerExtent * ci.width
AbbrevBytes(ci) == AbbrevRows * ci.width

File(dbRoot, partition, segment, hwm, lbid) ==
    [fDbRoot |-> dbRoot, fPartition |-> partition, fSegment |-> segment,
     hwm |-> hwm, lbid |-> lbid]

\* ColumnInfo(): nothing set up, nothing counted.
NewColumnInfo(c, em) ==
    [id |-> c, width |-> ColWidth[c], state |-> "New",
     curCol |-> File(0, 0, 0, 0, 0),
     availFileSize |-> 0, fileSize |-> 0,
     fSizeWritten |-> 0, fSizeWrittenStart |-> 0,
     fSavedHWM |-> 0, fSavedLbid |-> 0,
     fLastInputRowInCurrentExtent |-> 0,
     fLoadingAbbreviatedExtent |-> FALSE,
     fColExtInf |-> <<>>,
     fSaturatedRowCnt |-> 0,
     fSegFileUpdateList |-> <<>>,
     fDbRootExtTrk |-> NewTracker(em),
     fDelayedFileCreation |-> INITIAL_DBFILE_STAT_FILE_EXISTS]

isAbbrevExtent(ci)       == ci.fLoadingAbbreviatedExtent
getFileSize(ci)          == ci.fileSize
lastInputRowInExtent(ci) == ci.fLastInputRowInCurrentExtent
saturatedCnt(ci)         == ci.fSaturatedRowCnt

\* incSaturatedCnt(): one atomic addition.
incSaturatedCnt(ci, satIncCnt) ==
    [ci EXCEPT !.fSaturatedRowCnt = @ + satIncCnt]

\* The first extent of a column, at partition 0 and segment 0, is created
\* abbreviated.
AbbrevExtentCheck(partition, segment) == partition = 0 /\ segment = 0

\* The position of the file, in rows of its last extent.
FilePos(ci) == ci.fSizeWritten \div ci.width

\* The first CP entry, of the extent the import starts in: its LBID is
\* known.  Entries are keyed by the last input row of their extent.
CPEntry(min, max, lbid, isNew) ==
    [min |-> min, max |-> max, lbid |-> lbid, isNewExtent |-> isNew]

NoValue == [min |-> 1, max |-> 0]

\* lastInputRowInExtentInit(): the rows the starting extent still takes.
LastInputRowInExtentInit(ci, bIsNewExtent) ==
    [ci EXCEPT !.fLastInputRowInCurrentExtent =
        IF bIsNewExtent THEN RowsPerExtent - 1
        ELSE RowsPerExtent - ci.curCol.hwm - 1]

\* lastInputRowInExtentInc(): the last row of the next logical extent.
LastInputRowInExtentInc(ci) ==
    [ci EXCEPT !.fLastInputRowInCurrentExtent = @ + RowsPerExtent]

\* setupInitialColumnExtent(): the import resumes the extent e, which holds
\* rows already (no block is skipped), or starts behind it when it is full.
SetupInitialColumnExtent(ci, e, bIsNewExtent) ==
    LET placed == [ci EXCEPT
            !.state = "Loading",
            !.curCol = File(e.fDbRoot, e.fPartition, e.fSegment, e.fLocalHwm,
                            e.fStartLbid),
            !.fSavedHWM = e.fLocalHwm,
            !.fSavedLbid = e.fStartLbid,
            !.fileSize = ExtentBytes(ci),
            !.fSizeWritten = e.fLocalHwm * ci.width,
            !.fSizeWrittenStart = e.fLocalHwm * ci.width,
            !.availFileSize = ExtentBytes(ci) - e.fLocalHwm * ci.width,
            !.fDelayedFileCreation = INITIAL_DBFILE_STAT_FILE_EXISTS]
        first == LastInputRowInExtentInit(placed, bIsNewExtent)
    IN  [first EXCEPT !.fColExtInf =
            IF bIsNewExtent THEN <<>>
            ELSE first.fLastInputRowInCurrentExtent :>
                     CPEntry(NoValue.min, NoValue.max, e.fStartLbid, FALSE)]

\* setupDelayedFileCreation(): the DBRoot has no file of this column; the
\* file is created when the first row is written.
SetupDelayedFileCreation(ci, dbRoot, partition, segment, hwm) ==
    LET abbrev == AbbrevExtentCheck(partition, segment)
        size   == IF abbrev THEN AbbrevBytes(ci) ELSE ExtentBytes(ci)
    IN  LastInputRowInExtentInit(
            [ci EXCEPT
                !.state = "Loading",
                !.curCol = File(dbRoot, partition, segment, hwm, 0),
                !.fLoadingAbbreviatedExtent = abbrev,
                !.fileSize = size,
                !.availFileSize = size,
                !.fDelayedFileCreation = INITIAL_DBFILE_STAT_CREATE_FILE],
            TRUE)

\* updateBytesWrittenCounts()
UpdateBytesWrittenCounts(ci, numBytesWritten) ==
    [ci EXCEPT !.availFileSize = @ - numBytesWritten,
               !.fSizeWritten  = @ + numBytesWritten]

\* expandAbbrevExtent(true): the extent grows to its full size in place,
\* what was written stays, and the file position is retained.
ExpandAbbrevExtent(ci) ==
    [ci EXCEPT !.fileSize = ExtentBytes(ci),
               !.availFileSize = @ + ExtentBytes(ci) - AbbrevBytes(ci),
               !.fLoadingAbbreviatedExtent = FALSE]

\* addToSegFileList(): the HWM of the file being left.
AddToSegFileList(ci) ==
    [ci EXCEPT !.fSegFileUpdateList =
        Append(@, [ci.curCol EXCEPT !.hwm = FilePos(ci)])]

\* ColExtInf::addOrUpdateEntry(): the range of the entry of the extent that
\* lastInputRow ends grows to hold minVal and maxVal; an extent without an
\* entry gets one, awaiting its LBID.
addOrUpdateEntry(cp, lastInputRow, minVal, maxVal) ==
    LET old == IF lastInputRow \in DOMAIN cp THEN cp[lastInputRow]
               ELSE CPEntry(NoValue.min, NoValue.max, 0, TRUE)
        new == IF old.min > old.max
               THEN [old EXCEPT !.min = minVal, !.max = maxVal]
               ELSE [old EXCEPT !.min = Min({minVal, @}),
                                !.max = Max({maxVal, @})]
    IN  (lastInputRow :> new) @@ cp

\* updateCPInfo(): the call is passed on to the column's ColExtInf.
UpdateCPInfo(ci, lastInputRow, minVal, maxVal) ==
    [ci EXCEPT !.fColExtInf = addOrUpdateEntry(@, lastInputRow, minVal, maxVal)]

\* The entries that wait for the LBID of their extent.
PendingExtentRows(ci) ==
    {k \in DOMAIN ci.fColExtInf : ci.fColExtInf[k].lbid = 0}

\* The first entry without an LBID gets the LBID of the extent just added.
UpdateEntryLbid(ci, startLbid) ==
    IF PendingExtentRows(ci) = {} THEN ci
    ELSE [ci EXCEPT !.fColExtInf[Min(PendingExtentRows(ci))].lbid = startLbid]

\* The file this column wrote last on a DBRoot; the tracker's entry when it
\* wrote none.
LastFileOn(ci, dbRoot) ==
    LET files == SelectSeq(Append(ci.fSegFileUpdateList, ci.curCol),
                           LAMBDA f : f.fDbRoot = dbRoot)
        e     == CHOOSE x \in Range(ci.fDbRootExtTrk.fDBRootExtentList) :
                     x.fDbRoot = dbRoot
    IN  IF files # <<>> THEN Last(files)
        ELSE File(dbRoot, e.fPartition, e.fSegment, 0, 0)

\* extendColumnNewExtent(): an extent is added on dbRootNew; on a DBRoot
\* without a file the file named by the tracker, else the next segment file
\* of that DBRoot, the segment files being dealt out over the DBRoots.
ExtendColumnNewExtent(ci, saveLBIDForCP, next, startLbid) ==
    LET last    == LastFileOn(ci, next.dbRoot)
        segment == IF next.firstOnDBRoot THEN next.segment
                   ELSE last.fSegment + Len(ci.fDbRootExtTrk.fDBRootExtentList)
        partition == IF next.firstOnDBRoot THEN next.partition ELSE last.fPartition
        opened  == [ci EXCEPT
            !.curCol = File(next.dbRoot, partition, segment, 0, startLbid),
            !.fileSize = ExtentBytes(ci),
            !.availFileSize = ExtentBytes(ci),
            !.fSizeWritten = 0,
            !.fSizeWrittenStart = 0]
    IN  IF saveLBIDForCP THEN UpdateEntryLbid(opened, startLbid) ELSE opened

\* extendColumnOldExtent(): the column goes on in an extent that holds
\* hwmNext rows already.
ExtendColumnOldExtent(ci, next) ==
    [ci EXCEPT
        !.curCol = File(next.dbRoot, next.partition, next.segment,
                        next.localHwm, next.startLbid),
        !.fileSize = ExtentBytes(ci),
        !.fSizeWritten = next.localHwm * ci.width,
        !.fSizeWrittenStart = next.localHwm * ci.width,
        !.availFileSize = ExtentBytes(ci) - next.localHwm * ci.width]

\* Faulty variant: the file being left is not put on the list of files
\* to report.
ExtendColumnForgetsFile(ci, saveLBIDForCP, startLbid) ==
    LET next == NextSegFile(ci.fDbRootExtTrk)
        left == [ci EXCEPT !.fDbRootExtTrk = next.trk]
    IN  IF next.bAllocExtent
        THEN ExtendColumnNewExtent(left, saveLBIDForCP, next, startLbid)
        ELSE ExtendColumnOldExtent(left, next)

\* extendColumn(): the HWM of the file being left is saved, the tracker
\* says where the column goes on, and that file is opened.
ExtendColumn(ci, saveLBIDForCP, startLbid) ==
    LET next == NextSegFile(ci.fDbRootExtTrk)
        left == [AddToSegFileList(ci) EXCEPT !.fDbRootExtTrk = next.trk]
    IN  IF next.bAllocExtent
        THEN ExtendColumnNewExtent(left, saveLBIDForCP, next, startLbid)
        ELSE ExtendColumnOldExtent(left, next)

\* finishParsing(): the last file is flushed and closed and its HWM saved.
\* A file that was never created has nothing to save.
FinishParsing(ci) ==
    [(IF ci.fDelayedFileCreation = INITIAL_DBFILE_STAT_CREATE_FILE THEN ci
      ELSE AddToSegFileList(ci))
     EXCEPT !.state = "Closed"]

\* closeColumnFile(..., bAbort = true): no flush, no HWM.
CloseColumnFileAbort(ci) == [ci EXCEPT !.state = "Closed"]

\* getBRMUpdateInfo(): the HWM of every file written, the CP range of every
\* extent that has an LBID, and the extent whose old CP range is stale.
GetBRMUpdateInfo(ci) ==
    [hwm |-> ci.fSegFileUpdateList,
     cp  |-> {ci.fColExtInf[k] : k \in DOMAIN ci.fColExtInf \ PendingExtentRows(ci)},
     invalidate |-> [lbid |-> ci.fSavedLbid, hwm |-> ci.fSavedHWM],
     saturated |-> saturatedCnt(ci)]
-----------------------------------------------------------------------------
(* The table: its columns, and what is on disk.                            *)

Extent(file, base, isNew) ==
    [lbid |-> file.lbid, fDbRoot |-> file.fDbRoot, fPartition |-> file.fPartition,
     fSegment |-> file.fSegment, base |-> base, rows |-> <<>>,
     isNewExtent |-> isNew]

\* The LBID the extent map gives the next extent of a column.
NextLbid(c) ==
    Max({e.fStartLbid : e \in Range(col[c].fDbRootExtTrk.fDBRootExtentList)}
        \cup {x.lbid : x \in Range(disk[c])}) + 1

Init ==
    /\ \E em \in Snapshots : col = [c \in Columns |-> NewColumnInfo(c, em)]
    /\ fColMutex = [c \in Columns |-> NoOwner]
    /\ fDelayedFileCreateMutex = [c \in Columns |-> NoOwner]
    /\ parsed = [c \in Columns |-> 0]
    /\ pending = [c \in Columns |-> 0]
    /\ wr = [w \in Writers |-> Idle]
    /\ disk = [c \in Columns |-> <<>>]
    /\ created = [c \in Columns |-> 0]
    /\ jobStatus = "ok"
    /\ report = [c \in Columns |-> NoReport]

-----------------------------------------------------------------------------
(* The main thread, before the import: the first segment file of every     *)
(* column, the reference column first.                                     *)

FirstSegFile(c) ==
    IF c = RefColumn THEN SelectFirstSegFile(col[c].fDbRootExtTrk)
    ELSE AssignFirstSegFile(col[c].fDbRootExtTrk, col[RefColumn].fDbRootExtTrk)

CanSetUp(c) ==
    /\ jobStatus = "ok"
    /\ col[c].state = "New"
    /\ c = RefColumn \/ col[RefColumn].state = "Loading"

\* No DBRoot is configured: the job fails before it starts.
SetupNoDBRoot(c) ==
    /\ CanSetUp(c)
    /\ ~FirstSegFile(c).ok
    /\ col' = [col EXCEPT ![c].state = "Error"]
    /\ jobStatus' = "failed"
    /\ UNCHANGED <<fColMutex, fDelayedFileCreateMutex, parsed, pending, wr, disk,
                   created, report>>

\* The DBRoot has an extent of this column: the import goes on in it, or
\* behind it when it is full.
SetupExtent(c) ==
    LET first == FirstSegFile(c)
        e     == first.dbRootExtent
    IN  /\ CanSetUp(c)
        /\ first.ok
        /\ e.fState # DBROOT_EXTENT_EMPTY_DBROOT
        /\ col' = [col EXCEPT ![c] = SetupInitialColumnExtent(
                       [@ EXCEPT !.fDbRootExtTrk = first.trk], e,
                       e.fState = DBROOT_EXTENT_EXTENT_BOUNDARY)]
        /\ disk' = [disk EXCEPT ![c] = <<Extent(col'[c].curCol, e.fLocalHwm, FALSE)>>]
        /\ UNCHANGED <<fColMutex, fDelayedFileCreateMutex, parsed, pending, wr,
                       created, jobStatus, report>>

\* The DBRoot has no extent of this column: its file is created later.
SetupDelayed(c) ==
    LET first == FirstSegFile(c)
        e     == first.dbRootExtent
    IN  /\ CanSetUp(c)
        /\ first.ok
        /\ e.fState = DBROOT_EXTENT_EMPTY_DBROOT
        /\ col' = [col EXCEPT ![c] = SetupDelayedFileCreation(
                       [@ EXCEPT !.fDbRootExtTrk = first.trk],
                       e.fDbRoot, e.fPartition, e.fSegment, 0)]
        /\ UNCHANGED <<fColMutex, fDelayedFileCreateMutex, parsed, pending, wr,
                       disk, created, jobStatus, report>>

-----------------------------------------------------------------------------
(* The parsing thread: one read buffer of one column.                      *)

MinValue(rows) == Min({Value[r] : r \in rows})
MaxValue(rows) == Max({Value[r] : r \in rows})

CPOf(ci, lastInputRow, rows) ==
    IF rows = {} THEN ci
    ELSE UpdateCPInfo(ci, lastInputRow, MinValue(rows), MaxValue(rows))

\* Faulty variant: one update for the whole buffer, then the boundary.
ParsedCPUnsplit(ci, rows) ==
    LET last == lastInputRowInExtent(ci)
        one  == CPOf(ci, last, rows)
    IN  IF last \in rows THEN LastInputRowInExtentInc(one) ELSE one

\* The column after the rows of a buffer: when the buffer holds the last
\* row of the extent, the rows up to it update that extent's range, the
\* boundary advances, and the rows behind it update the next extent's.
ParsedCP(ci, rows) ==
    LET last == lastInputRowInExtent(ci)
        old  == CPOf(ci, last, {r \in rows : r <= last})
        inc  == LastInputRowInExtentInc(old)
    IN  IF last \in rows
        THEN CPOf(inc, lastInputRowInExtent(inc), {r \in rows : r > last})
        ELSE old

BufferAt(first) ==
    {r \in 0..(NumRows - 1) : first <= r /\ r < first + BufRows}

ParseBuffer(c) ==
    LET rows == BufferAt(parsed[c])
    IN  /\ jobStatus = "ok"
        /\ \A k \in Columns : col[k].state # "New"
        /\ col[c].state = "Loading"
        /\ rows # {}
        /\ col' = [col EXCEPT ![c] =
               incSaturatedCnt(ParsedCP(@, rows), Cardinality(rows \cap Saturated))]
        /\ parsed' = [parsed EXCEPT ![c] = @ + Cardinality(rows)]
        /\ pending' = [pending EXCEPT ![c] = @ + Cardinality(rows)]
        /\ UNCHANGED <<fColMutex, fDelayedFileCreateMutex, wr, disk, created,
                       jobStatus, report>>

-----------------------------------------------------------------------------
(* A writer: the file is created if it was delayed; reserveSection()       *)
(* takes the column's mutex, writes the rows parsed so far to the file,    *)
(* which is expanded or extended when it is full, and gives the mutex back *)
(* when it returns; releaseSection() takes the mutex for itself.           *)

At(w, pc) == wr[w].pc = pc

WriterStart(w, c) ==
    /\ At(w, "idle")
    /\ jobStatus = "ok"
    /\ col[c].state = "Loading"
    /\ pending[c] > 0
    /\ wr' = [wr EXCEPT ![w] = [Idle EXCEPT !.pc = "delayed", !.col = c]]
    /\ UNCHANGED <<col, fColMutex, fDelayedFileCreateMutex, parsed, pending, disk,
                   created, jobStatus, report>>

\* Faulty variant: the check is made without the mutex.
CreateDelayedFileCheckNoLock(w) ==
    /\ At(w, "delayed")
    /\ wr' = [wr EXCEPT ![w].pc = "create",
                        ![w].stat = col[wr[w].col].fDelayedFileCreation]
    /\ UNCHANGED <<col, fColMutex, fDelayedFileCreateMutex, parsed, pending, disk,
                   created, jobStatus, report>>

\* createDelayedFileIfNeeded(): fDelayedFileCreateMutex is taken and the
\* state of the file looked at.
CreateDelayedFileCheck(w) ==
    LET c == wr[w].col
    IN  /\ At(w, "delayed")
        /\ fDelayedFileCreateMutex[c] = NoOwner
        /\ fDelayedFileCreateMutex' = [fDelayedFileCreateMutex EXCEPT ![c] = w]
        /\ wr' = [wr EXCEPT ![w].pc = "create",
                            ![w].stat = col[c].fDelayedFileCreation]
        /\ UNCHANGED <<col, fColMutex, parsed, pending, disk, created, jobStatus,
                       report>>

\* The file exists: the mutex is released.
CreateDelayedFileNotNeeded(w) ==
    LET c == wr[w].col
    IN  /\ At(w, "create")
        /\ wr[w].stat # INITIAL_DBFILE_STAT_CREATE_FILE
        /\ fDelayedFileCreateMutex' = [fDelayedFileCreateMutex EXCEPT ![c] = NoOwner]
        /\ wr' = [wr EXCEPT ![w].pc = "reserve"]
        /\ UNCHANGED <<col, fColMutex, parsed, pending, disk, created, jobStatus,
                       report>>

\* The file is created with its first extent, whose LBID the first CP
\* entry gets.
CreateDelayedFile(w) ==
    LET c == wr[w].col
    IN  /\ At(w, "create")
        /\ wr[w].stat = INITIAL_DBFILE_STAT_CREATE_FILE
        /\ col' = [col EXCEPT ![c] = UpdateEntryLbid(
                       [@ EXCEPT !.curCol.lbid = NextLbid(c),
                                 !.fDelayedFileCreation =
                                     INITIAL_DBFILE_STAT_FILE_EXISTS],
                       NextLbid(c))]
        /\ disk' = [disk EXCEPT ![c] = Append(@, Extent(col'[c].curCol, 0, TRUE))]
        /\ created' = [created EXCEPT ![c] = @ + 1]
        /\ fDelayedFileCreateMutex' = [fDelayedFileCreateMutex EXCEPT ![c] = NoOwner]
        /\ wr' = [wr EXCEPT ![w].pc = "reserve"]
        /\ UNCHANGED <<fColMutex, parsed, pending, jobStatus, report>>

\* Faulty variant: reserveSection() does not take the mutex.
ReserveSectionNoLock(w) ==
    LET c == wr[w].col
    IN  /\ At(w, "reserve")
        /\ pending' = [pending EXCEPT ![c] = 0]
        /\ wr' = [wr EXCEPT ![w].pc = "write",
                            ![w].first = parsed[c] - pending[c],
                            ![w].n = pending[c]]
        /\ UNCHANGED <<col, fColMutex, fDelayedFileCreateMutex, parsed, disk,
                       created, jobStatus, report>>

\* reserveSection(): fColMutex is taken, and the rows parsed since the last
\* section are this writer's.
ReserveSection(w) ==
    LET c == wr[w].col
    IN  /\ At(w, "reserve")
        /\ col[c].state = "Loading"
        /\ fColMutex[c] = NoOwner
        /\ fColMutex' = [fColMutex EXCEPT ![c] = w]
        /\ pending' = [pending EXCEPT ![c] = 0]
        /\ wr' = [wr EXCEPT ![w].pc = "write",
                            ![w].first = parsed[c] - pending[c],
                            ![w].n = pending[c]]
        /\ UNCHANGED <<col, fDelayedFileCreateMutex, parsed, disk, created,
                       jobStatus, report>>

\* The column is in error: nothing more is written to it.
WriterGivesUp(w) ==
    /\ At(w, "reserve")
    /\ col[wr[w].col].state = "Error"
    /\ wr' = [wr EXCEPT ![w] = Idle]
    /\ UNCHANGED <<col, fColMutex, fDelayedFileCreateMutex, parsed, pending, disk,
                   created, jobStatus, report>>

\* The rows first..first+n-1 written at the file's position.
Written(extent, pos, first, n) ==
    [extent EXCEPT !.rows = SubSeq(@, 1, pos - extent.base)
                            \o [i \in 1..n |-> first + i - 1]]

\* writeToFile(): as many of the rows as the extent has room for.
WriteToFile(w) ==
    LET c   == wr[w].col
        ci  == col[c]
        fit == Min({wr[w].n, ci.availFileSize \div ci.width})
    IN  /\ At(w, "write")
        /\ wr[w].n > 0
        /\ ci.availFileSize > 0
        /\ disk' = [disk EXCEPT ![c][Len(disk[c])] =
                       Written(@, FilePos(ci), wr[w].first, fit)]
        /\ col' = [col EXCEPT ![c] = UpdateBytesWrittenCounts(@, fit * ci.width)]
        /\ wr' = [wr EXCEPT ![w].first = @ + fit, ![w].n = @ - fit]
        /\ UNCHANGED <<fColMutex, fDelayedFileCreateMutex, parsed, pending,
                       created, jobStatus, report>>

ExtentFull(w) ==
    /\ At(w, "write")
    /\ wr[w].n > 0
    /\ col[wr[w].col].availFileSize <= 0

\* The abbreviated extent is full: it is expanded.
WriteExpands(w) ==
    LET c == wr[w].col
    IN  /\ ExtentFull(w)
        /\ isAbbrevExtent(col[c])
        /\ col' = [col EXCEPT ![c] = ExpandAbbrevExtent(@)]
        /\ UNCHANGED <<fColMutex, fDelayedFileCreateMutex, parsed, pending, wr,
                       disk, created, jobStatus, report>>

\* The extent is full: the column is extended.
WriteExtends(w) ==
    LET c == wr[w].col
    IN  /\ ExtentFull(w)
        /\ ~isAbbrevExtent(col[c])
        /\ col' = [col EXCEPT ![c] = ExtendColumn(@, TRUE, NextLbid(c))]
        /\ disk' = [disk EXCEPT ![c] = Append(@,
                       Extent(col'[c].curCol, FilePos(col'[c]),
                              col'[c].curCol.lbid = NextLbid(c)))]
        /\ UNCHANGED <<fColMutex, fDelayedFileCreateMutex, parsed, pending, wr,
                       created, jobStatus, report>>

\* The file of the next extent cannot be created or opened: the column is
\* in error, the job fails, and reserveSection() returns the error with the
\* mutex free.
WriteExtendFails(w) ==
    LET c == wr[w].col
    IN  /\ ExtentFull(w)
        /\ ~isAbbrevExtent(col[c])
        /\ col' = [col EXCEPT ![c].state = "Error"]
        /\ jobStatus' = "failed"
        /\ fColMutex' = [fColMutex EXCEPT ![c] = NoOwner]
        /\ wr' = [wr EXCEPT ![w] = Idle]
        /\ UNCHANGED <<fDelayedFileCreateMutex, parsed, pending, disk, created,
                       report>>

\* Faulty variant: reserveSection() returns with the mutex locked.
ReserveSectionReturnsLocked(w) ==
    /\ At(w, "write")
    /\ wr[w].n = 0
    /\ wr' = [wr EXCEPT ![w].pc = "release"]
    /\ UNCHANGED <<col, fColMutex, fDelayedFileCreateMutex, parsed, pending, disk,
                   created, jobStatus, report>>

\* reserveSection() returns: all rows are written, and the mutex is free.
ReserveSectionReturns(w) ==
    /\ At(w, "write")
    /\ wr[w].n = 0
    /\ fColMutex' = [fColMutex EXCEPT ![wr[w].col] = NoOwner]
    /\ wr' = [wr EXCEPT ![w].pc = "release"]
    /\ UNCHANGED <<col, fDelayedFileCreateMutex, parsed, pending, disk, created,
                   jobStatus, report>>

\* releaseSection(): under fColMutex, which it takes and gives back, the
\* section is done with.
ReleaseSection(w) ==
    /\ At(w, "release")
    /\ fColMutex[wr[w].col] = NoOwner
    /\ wr' = [wr EXCEPT ![w] = Idle]
    /\ UNCHANGED <<col, fColMutex, fDelayedFileCreateMutex, parsed, pending, disk,
                   created, jobStatus, report>>

Writer(w) ==
    \/ \E c \in Columns : WriterStart(w, c)
    \/ CreateDelayedFileCheck(w) \/ CreateDelayedFileNotNeeded(w)
    \/ CreateDelayedFile(w)
    \/ ReserveSection(w) \/ WriterGivesUp(w)
    \/ WriteToFile(w) \/ WriteExpands(w) \/ WriteExtends(w)
    \/ ReserveSectionReturns(w) \/ ReleaseSection(w)

-----------------------------------------------------------------------------
(* The main thread, when parsing is complete or the job has failed.        *)

Busy(c) == \E w \in Writers : ~At(w, "idle") /\ wr[w].col = c

\* All rows of the column are parsed and written: finishParsing(), which
\* takes fColMutex itself.
FinishColumn(c) ==
    /\ jobStatus = "ok"
    /\ col[c].state = "Loading"
    /\ parsed[c] = NumRows /\ pending[c] = 0 /\ ~Busy(c)
    /\ fColMutex[c] = NoOwner
    /\ col' = [col EXCEPT ![c] = FinishParsing(@)]
    /\ UNCHANGED <<fColMutex, fDelayedFileCreateMutex, parsed, pending, wr, disk,
                   created, jobStatus, report>>

\* getBRMUpdateInfo(), which takes fColMutex itself.
ReportColumn(c) ==
    /\ jobStatus = "ok"
    /\ col[c].state = "Closed"
    /\ report[c] = NoReport
    /\ fColMutex[c] = NoOwner
    /\ report' = [report EXCEPT ![c] = GetBRMUpdateInfo(col[c])]
    /\ UNCHANGED <<col, fColMutex, fDelayedFileCreateMutex, parsed, pending, wr,
                   disk, created, jobStatus>>

\* The job has failed: the writers at work on the column are let finish,
\* and its file is closed as it is.
AbortColumn(c) ==
    /\ jobStatus = "failed"
    /\ col[c].state = "Loading"
    /\ ~Busy(c)
    /\ col' = [col EXCEPT ![c] = CloseColumnFileAbort(@)]
    /\ UNCHANGED <<fColMutex, fDelayedFileCreateMutex, parsed, pending, wr, disk,
                   created, jobStatus, report>>

Setup  == \E c \in Columns : SetupNoDBRoot(c) \/ SetupExtent(c) \/ SetupDelayed(c)
Parse  == \E c \in Columns : ParseBuffer(c)
Finish == \E c \in Columns : FinishColumn(c) \/ ReportColumn(c) \/ AbortColumn(c)

Progress == Setup \/ Parse \/ Finish \/ \E w \in Writers : Writer(w)

Next == Progress \/ \E w \in Writers : WriteExtendFails(w)

Spec == Init /\ [][Next]_vars

\* The job goes on while some thread can take a step; no file operation is
\* obliged to fail.  No step can be undone, so this is all the scheduling
\* the end of the job needs.
Fairness == WF_vars(Progress)

FairSpec == Spec /\ Fairness
-----------------------------------------------------------------------------
(* Properties.                                                             *)

FileType ==
    [fDbRoot : DBRoots \cup {0}, fPartition : Nat, fSegment : Nat,
     hwm : 0..RowsPerExtent, lbid : Nat]

TypeOK ==
    /\ \A c \in Columns :
        /\ col[c].state \in {"New", "Loading", "Closed", "Error"}
        /\ col[c].curCol \in FileType
        /\ col[c].fileSize \in {0, AbbrevBytes(col[c]), ExtentBytes(col[c])}
        /\ col[c].fLoadingAbbreviatedExtent \in BOOLEAN
        /\ col[c].fSegFileUpdateList \in Seq(FileType)
        /\ col[c].fSaturatedRowCnt \in 0..NumRows
        /\ col[c].fDelayedFileCreation \in
               {INITIAL_DBFILE_STAT_CREATE_FILE, INITIAL_DBFILE_STAT_FILE_EXISTS}
        /\ IsTracker(col[c].fDbRootExtTrk, DBRoots)
        /\ created[c] \in 0..1
        /\ parsed[c] \in 0..NumRows /\ pending[c] \in 0..parsed[c]
    /\ fColMutex \in [Columns -> Writers \cup {NoOwner}]
    /\ fDelayedFileCreateMutex \in [Columns -> Writers \cup {NoOwner}]
    /\ \A w \in Writers :
        /\ wr[w].pc \in {"idle", "delayed", "create", "reserve", "write", "release"}
        /\ wr[w].col \in Columns
        /\ wr[w].n \in 0..NumRows
    /\ jobStatus \in {"ok", "failed"}

RowsOnDisk(c) == FlattenSeq([i \in DOMAIN disk[c] |-> disk[c][i].rows])

\* What the writers put into the files of a column (reserveSection,
\* writeToFile, expandAbbrevExtent, extendColumn, in whatever order the
\* writers run): the rows of the import, each once and in input order, also
\* across the expansion of an abbreviated extent in the middle of a write;
\* no extent holding more rows than an extent has; and all of them when the
\* column is closed by finishParsing.
ColumnHoldsInput ==
    \A c \in Columns :
        /\ RowsOnDisk(c) = [i \in 1..Len(RowsOnDisk(c)) |-> i - 1]
        /\ \A i \in DOMAIN disk[c] :
               disk[c][i].base + Len(disk[c][i].rows) <= RowsPerExtent
        /\ (col[c].state = "Closed" /\ jobStatus = "ok") =>
               Len(RowsOnDisk(c)) = NumRows

\* The CP entry of an extent holds the smallest and the largest value of
\* the parsed rows of that extent's logical row range and of no other row,
\* also when one read buffer holds rows of two extents (updateCPInfo as the
\* parsing thread calls it around lastInputRowInExtentInc).
CPBoundarySplit ==
    \A c \in Columns : \A k \in DOMAIN col[c].fColExtInf :
        LET rows == {r \in 0..(parsed[c] - 1) : k - RowsPerExtent < r /\ r <= k}
            e    == col[c].fColExtInf[k]
        IN  IF rows = {} THEN e.min > e.max
            ELSE e.min = MinValue(rows) /\ e.max = MaxValue(rows)

\* The column never resumed a partial extent of another DBRoot in the
\* middle of the import.
NoStrayResumed(c) == \A i \in DOMAIN disk[c] : i > 1 => disk[c][i].base = 0

\* The CP entries name the extents they describe: an entry carries the LBID
\* of an extent of the column, and no row written to that extent has a
\* value outside the entry's range.
CPNamesExtents(c) ==
    \A e \in report[c].cp : \E i \in DOMAIN disk[c] :
        /\ disk[c][i].lbid = e.lbid
        /\ disk[c][i].isNewExtent = e.isNewExtent
        /\ \A j \in DOMAIN disk[c][i].rows :
               Value[disk[c][i].rows[j]] \in e.min..e.max

\* What getBRMUpdateInfo reports of a column at the end of the job is what
\* the job did to the files: one HWM for every extent written, in order,
\* counting the rows the extent holds (addToSegFileList in extendColumn and
\* finishParsing); the extent the import started in as the one whose old CP
\* range is stale; every row out of range counted once; and, when no partial
\* extent was resumed in the middle of the import, CP entries that name the
\* extents they describe.
ReportMatchesDisk ==
    \A c \in Columns : report[c] # NoReport =>
        /\ Len(report[c].hwm) = Len(disk[c])
        /\ \A i \in DOMAIN disk[c] :
            /\ report[c].hwm[i].hwm = disk[c][i].base + Len(disk[c][i].rows)
            /\ report[c].hwm[i].fDbRoot = disk[c][i].fDbRoot
            /\ report[c].hwm[i].fSegment = disk[c][i].fSegment
        /\ ~disk[c][1].isNewExtent =>
               report[c].invalidate = [lbid |-> disk[c][1].lbid,
                                       hwm  |-> disk[c][1].base]
        /\ report[c].saturated = Cardinality(Saturated)
        /\ NoStrayResumed(c) => CPNamesExtents(c)

RefTracker == col[RefColumn].fDbRootExtTrk

Rotation ==
    INSTANCE ExtentRotation WITH
        None   <- 0,
        order  <- [i \in DOMAIN RefTracker.fDBRootExtentList |->
                      RefTracker.fDBRootExtentList[i].fDbRoot],
        volume <- IF getCurrentDBRootIdx(RefTracker) = 0 THEN 0
                  ELSE CurrentExtent(RefTracker).fDbRoot,
        strays <- IF getCurrentDBRootIdx(RefTracker) = 0 THEN {}
                  ELSE {RefTracker.fDBRootExtentList[i].fDbRoot :
                           i \in PartialElsewhere(RefTracker)}

\* The tracker of the reference column (selectFirstSegFile and nextSegFile
\* as setup and extendColumn call them) rotates as ExtentRotation says: a
\* fixed order, stray partial extents first and each once, round robin
\* otherwise.
RotationRefinement == Rotation!Spec

Ended(c) ==
    \/ col[c].state = "Closed" /\ (jobStatus = "ok" => report[c] # NoReport)
    \/ col[c].state = "Error"
    \/ col[c].state = "New" /\ jobStatus = "failed"

\* The job ends: every column is closed, and reported unless the job has
\* failed, with every mutex free; no writer waits for a mutex that is never
\* released (reserveSection and releaseSection, finishParsing and
\* getBRMUpdateInfo on the same fColMutex, createDelayedFileIfNeeded on
\* fDelayedFileCreateMutex).
JobEnds ==
    <>(\A c \in Columns : Ended(c) /\ fColMutex[c] = NoOwner)
=============================================================================
