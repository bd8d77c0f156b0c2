# TLA+ models of InfiniDB components

This directory holds TLA+ specifications of the parts of InfiniDB found under
`src/`, the TLC configurations that check them, and `PROJECT.json`, which
records for every definition the source lines it models, for every run what it
checks, and for every hazard of the code the property that covers it.

Run a configuration with `tlc -workers 2 -config <cfg> <MC module>`; the
module of every configuration is listed in `PROJECT.json` under `runs`.

## 1. The system

The sources are parts of three subsystems of a distributed column store.

| Part | Source | What it is |
|---|---|---|
| Splitter file read thread | `writeengine/splitter/we_filereadthread.cpp` | The thread of the bulk-load splitter that reads the input files row by row and sends batches of rows to the PMs (worker nodes), then EOD. A controlling thread sets it up and shuts it down. |
| HAVING step | `dbcon/joblist/tuplehavingstep.cpp` | A step of a query job: reads row groups from an input data list, keeps the rows that satisfy HAVING, hands them on through an output data list or band by band. |
| Cross-engine step | `dbcon/joblist/crossenginestep.cpp` | A step of a query job: runs a query on a foreign engine through a client library, converts the values of every row into the fields of a row of its row group, evaluates the functions of the WHERE and SELECT clause, cuts the result into row groups, inserts them into a data list read by the next step or by `nextBand`. |
| Row-group data list | (not in the sources) | The bounded FIFO between two job steps: `insert`, `endOfInput`, `next`. |
| Extent placement tracker | `writeengine/shared/we_dbrootextenttracker.h` | For one column of a bulk load: which DBRoot (storage volume) of the node gets the next extent. |
| Column load state | `writeengine/bulk/we_columninfo.h` | Per-column state of a bulk load: current segment file and extent, byte accounting, min/max per extent (casual partitioning, CP), the list of files whose HWM is reported at the end of the job. |
| Observer / Subject | `writeengine/server/we_observer.cpp` | The list of observers of a subject with `attach`, `detach`, `notify`. |
| Hardware monitor | `oamapps/serverMonitor/hardwareMonitor.cpp` | Has `ipmitool` list the sensors, reads the list every period and sets or checks the alarm of each sensor. |
| SQL functions | `utils/funcexp/func_ceil.cpp`, `func_char.cpp`, `func_trim.cpp` | `ceil`, `char`, `trim` over the column types. |
| Row scanner, file list | `we_filereadthread.cpp` (`getNextRow`, `chkForListOfFiles`) | Reads one row of an input with enclosed and escaped characters; splits a list of file names. |
| Query builder | `crossenginestep.cpp` (`setBPP`, `addFilterStr`, `setProjectBPP`, `makeQuery`) | Builds the text of the query the cross-engine step sends. |
| DDL scanner | `dbcon/ddlpackage/ddl-scan-win.cpp` | The scanner flex generated from `ddl.l`: `scanner_init` gives it the text of a statement, every call of `ddllex` returns the next token and its value to the DDL parser, `scanner_finish` frees the buffer and the values. |
| Read threads, dictionary store, vendor DML statement | `we_readthread.h`, `we_dctnrycompress.h`, `vendordmlstatement.cpp` | Declarations, forwarding functions, constructors. |

### State, operations and interactions

**File read thread.** State: the list of input files (`fInfileList`), the
current file (`fIfFile`) and the stream that reads it or standard input
(`fInFile`, with its eof and fail bits), the target PM (`fTgtPmId`), the stop
flag (`fContinue`), the mutex that guards the file (`fFileMutex`) and the
thread object (`fpThread`). Operations: `add2InputDataFileList`, `setup`
(`reset`, open the first input, start the thread), `shutdown` (clear
`fContinue`, then close the file under the mutex), and in the reader thread
`feedData` (loop: get a PM, `readDataFile` a batch under the mutex, send it,
on end of file open the next input or send EOD). The two threads share
`fContinue`, the file and the list; only the file is guarded by the mutex.

**Job steps.** A job is a pipeline of steps, each with its own thread,
connected by data lists. A step reads with `next()` (blocking while the list
is empty and not ended), writes with `insert()` (blocking while it is full),
and ends its output with `endOfInput()`. All steps of a job share one error
status; a step that fails sets it, and every step is to drain its input so
that the step before it can end. The step that delivers the result has no
output list of its own in the HAVING step and is read through `nextBand`, one
band per call, until a band has no rows. In the cross-engine step the thread
is started in both modes and `nextBand` reads the step's own output list.

**DDL scanner.** State: the statics of the generated file (the buffer and
where in it the scanner stands, `yy_c_buf_p`; the character it has replaced
by a NUL to end the text of the token, `yy_hold_char`; the start condition
`yy_start`; the last accepting state of the automaton), the copy of the
statement (`scanbuf`), the values handed to the parser (`valbuf`), `lineno`
and what the default rule has written to `yyout`. The parser calls
`scanner_init`, then `ddllex` token by token, then `scanner_finish`; a parser
that stops at a syntax error leaves the scanner wherever the error was, and
the compiler-generated tables decide every transition.

**Bulk load of a table.** Every column has a `ColumnInfo` and, in it, a
`DBRootExtentTracker`. The main thread sets the columns up from a snapshot of
the extent map: the reference column calls `selectFirstSegFile`, the others
`assignFirstSegFile`, then `setupInitialColumnExtent` or, on a PM without an
extent of the table, `setupDelayedFileCreation`. The parsing thread parses one
read buffer of one column at a time and keeps min and max of each logical
extent (`updateCPInfo`, `lastInputRowInExtentInc` when a buffer crosses an
extent boundary). Writer threads call `reserveSection` and `releaseSection`
of the column's buffer, each of which takes `fColMutex`, create the delayed file
under `fDelayedFileCreateMutex`, write (`updateBytesWrittenCounts`), expand an
abbreviated extent (`expandAbbrevExtent`) and add extents (`extendColumn`,
which asks the tracker's `nextSegFile`). When a column is parsed and written
the main thread calls `finishParsing` and `getBRMUpdateInfo`; when a column
fails the job fails and the other columns are closed.

### What is hard

* the reader thread and the controlling thread interleave at every statement:
  `shutdown()` between the reader's loop test and its end-of-file test,
  `setup()` while an earlier reader is still running;
* streams keep state across inputs (eof, fail, the attached buffer);
* steps block on each other through bounded lists: a step that stops reading
  without draining, or ends without `endOfInput()`, blocks its neighbour for
  ever;
* error statuses arrive from other threads at any point of a loop, between
  reading a group and inserting it, and between a catch block's test of the
  status and its write;
* flags written by one thread and read by another as if they were local
  (`fEndOfResult` in the cross-engine step);
* boundaries: a last row without newline, a row that fills the buffer with
  or without its newline, a result of exactly k full row groups, rows
  rejected between two groups;
* a row cut by one of two scanners, chosen by a flag that `setup()` sets and
  nothing clears, each leaving the stream where the next call, in the next
  batch or the next file, goes on;
* two writers on one column, and a writer still waiting for a column whose
  extension has just failed;
* a read buffer that crosses an extent boundary, so that its rows belong to
  the CP ranges of two extents;
* an abbreviated extent that fills up in the middle of a write;
* a DBRoot moved to this node with a partly filled extent of its own, which
  the rotation has to resume once before it adds extents round robin.

* three numberings of the same columns in the cross-engine step (the place
  in the result, the field in the row the WHERE functions read, the field
  in the row delivered), joined by keys in `makeMappings`;
* a value converted through `boost::any` into an `int64_t` of which the
  column keeps its bytes: the sign of a narrow type, a NaN, a DECIMAL whose
  C type depends on its width;
* boundaries of pure code: `ceil` of a negative decimal, `char` of 256, a
  string of nothing but the trim character, a reading exactly at a
  threshold, a threshold that is "na";
* a scanner with two nested loops of which only the outer one tests the
  stream and the buffer;
* a WHERE clause put together from the filters of several job steps, each
  with its own operator;
* a scanner whose statics outlive a statement: a start condition, a held
  character and a buffer left by a statement the parser gave up;
* a token that ends where the buffer ends, which the automaton cannot
  decide before it has run into the end-of-buffer character;
* rules that match one character more than they return (trailing context)
  and change the start condition at the same time.

`PROJECT.json` lists these under `hazards`, each at its line, with the
properties that cover it.

## 2. Modules

| Module | Models | Composes |
|---|---|---|
| `WEFileReadThread` | `we_filereadthread.cpp` | instantiates `RowScanner`, `DataFeed` (as a property) |
| `DataFeed` | what the file read thread promises the PMs: the abstract feed | - |
| `RowGroupDL` | the data list as its callers use it | - |
| `TupleHavingStep` | `tuplehavingstep.cpp` | `RowGroupDL` (two lists) |
| `CrossEngineStep` | `crossenginestep.cpp` | `RowGroupDL` (one list), `CrossEngineQuery` (the column map), and through `MCCrossEngineStep` `CrossEngineField` (the fields) |
| `JobPipeline` | a job of two steps: the cross-engine step feeding the HAVING step | extends `CrossEngineStep`, instantiates `TupleHavingStep` over the same list and status |
| `CrossEngineField` | `setField` and `convertValueNum` of `crossenginestep.cpp` | - |
| `DBRootExtentTracker` | `we_dbrootextenttracker.h` | - |
| `ExtentRotation` | what a tracker promises: the abstract rotation | - |
| `ColumnInfo` | `we_columninfo.h` and the threads that drive it | `DBRootExtentTracker` (one tracker per column), `ExtentRotation` (as a property) |
| `FuncExp` | `func_ceil.cpp`, `func_char.cpp`, `func_trim.cpp` | - |
| `RowScanner` | `getNextRow` and `chkForListOfFiles` of `we_filereadthread.cpp` | - |
| `CrossEngineQuery` | the query builder of `crossenginestep.cpp` | - |
| `HardwareMonitor` | `hardwareMonitor.cpp` | - |
| `DDLScanner` | `ddl-scan-win.cpp` | - |
| `WEObserver` | `we_observer.cpp` | - |
| `PureFunctions` | the calls of the functions of `FuncExp`, `RowScanner`, `CrossEngineQuery`, `CrossEngineField`, `HardwareMonitor`, `DDLScanner` and `WEObserver`, and what each is to compute | `FuncExp`, `RowScanner`, `CrossEngineQuery`, `HardwareMonitor` (extended), `CrossEngineField`, `DDLScanner`, `WEObserver` (instances) |
| `MCWEFileReadThread`, `MCTupleHavingStep`, `MCCrossEngineStep`, `MCJobPipeline`, `MCColumnInfo`, `MCPureFunctions` | the values of the constants for TLC | extend the module they check |

### WEFileReadThread

Variables carry the names of the members. The reader is a process with a
program counter per thread (`pc[t]`): `loop` is the test of `isContinue()`,
`target` the choice of a PM, `read`/`getline` are `readDataFile` before and
inside its batch loop (the mutex is held from `ReadEnter` to `ReadReturn`),
`send` is `updateRowTx` and `send2Pm`, `eof` is the test at the end of the
loop body. Every statement of `feedData` that reads or writes shared state is
a step, so that `shutdown()`'s two steps (`ShutdownFlag`, `ShutdownClose`) can
fall between any two of them. The controller's `setup()` is one step: it runs
before the thread it starts.

The stream is modelled by what the C++ library does: an input is a sequence
of characters (`FileText`) and the stream a position in it (`ifPos`,
`cinPos`) with its eof and fail bits; attaching another buffer with `rdbuf()`
clears the state. `getline(rest, n)` is `istream::getline` with `gcount()`:
it stores characters up to the end of the input, a newline (taken and
counted, not stored) or `n - 1` characters, whichever comes first.
`RS == INSTANCE RowScanner` is `getNextRow`; `Scanned` turns the call it
returns into the same record `[fBuff, aLen, taken, eof, fail, runsOn]`.
`setup()` sets `fEnclEsc` when the handler has an enclosing or an escape
character (`EnclEscArgs`, what the handler can answer), and `Extracted`
is the call `readDataFile` makes at the stream's place: `getNextRow` when
`fEnclEsc` is set, `getline` otherwise. The calls are tabulated once, as the
constant `Calls`, for every place of every input; an action looks its call
up.

The four outcomes of a call are four actions. `RowAtEnd`: nothing was taken.
`RowRead`: `0 < aLen < sizeof(fBuff) - 2`, and `Appended` is the row in the
ByteStream, `aLen - 1` characters of `fBuff` and a newline in place of the
last one. `RowTooBig`: `aLen >= sizeof(fBuff) - 2`, `readDataFile` throws;
the exception leaves the thread function, which ends the process (`crashed`,
after which no step is taken). `RowRunsOn`: `getNextRow` met the end of the
input inside an enclosure; its inner loop then writes without end, past
`fBuff`, which is undefined behaviour, and of its outcomes the model takes
the one every build ends in: the process is stopped. A row in a message is
`[file, at, text]`: where in which input it was read, and the characters
sent.

History variables (`sent`, `eod`, `input`, `shutdownCalled`) record what the
PMs were sent; they are read by the properties only.

`DataFeed` is the abstract specification of the load as the PMs see it: the
characters of the inputs (`source`), those delivered so far, the number of
EOD messages and whether the load was shut down. A step names the input,
delivers the characters that come next, stops the load, or ends it, once,
with everything delivered unless it was stopped. `WEFileReadThread`
instantiates it (`Feed`) with the characters of `input` in list order for
`source` and those of `sent` for `delivered`, and `FeedRefinement` is
`Feed!Spec`.

### RowGroupDL

A data list is a record `[buf, eoi]`. The operators are the guards and
effects of its three operations; a step's action that calls `insert` has
`HasRoom` as a guard (the thread waits), one that calls `next` has
`NextReady`. The list's code is not under `src/`; these operators state the
behaviour every caller in the sources relies on, and are marked as modelled
from the specification in `PROJECT.json`.

### TupleHavingStep

`execute()` and `nextBand()` are modelled statement by statement (`pc`
values `x_*` and `n_*`). `fDelivery` and the columns the job delivers
(`jobInfo`, one of `DeliveredCols`) are chosen in the initial state: the job
builder sets them before `run()`. `Initialize` is `initialize()`: a row group
is `[keys, pos]`, the keys of its columns and the offsets of their fields in
a row, `keyToIndexMap` leads from a key to the first column that has it, and
`fRowGroupOut` (`OutLayout`) has the first `n` keys and `n + 1` offsets of the
input, `n` the number of delivered columns that are not constants. A row is
the sequence of its bytes. `Constructed` is the constructor: the state of
the step's own members, apart from the input list and the status the job
gives it. The step upstream (`UpInsert`, `UpEnd`), its failure
(`UpCaught`, `UpFail`) and the consumer of the output list (`DownNext`) are
the environment. `HavingFilter` keeps the rows of a group that are in
`Passes` and copies of each the bytes of a row of `fRowGroupOut`; a row in
`Throws` makes the evaluation throw, which the catch blocks turn into the
job's status. A catch block tests `status() == 0` and sets the status in a
second call; the status is shared with the other steps of the job, so the
test (`Caught`) and the write (`SetStatus`) are two steps, with the `pc`
values `x_status` and `n_status` between them, and the step upstream fails
in the same two steps (`upstream` is `runs`, `caught` after its test, `failed`
after its write). `Join` is `join()`: it returns when the thread has ended, or at
once when the step delivers and has no thread.

### CrossEngineStep

The job list builder is the environment before `run()`: it has projected the
columns of the query (`ProjectSteps`, through `setProjectBPP` of
`CrossEngineQuery`, which gives `fColumnMap` and `fColumnCount`) and calls the
five setters in any order but `setFE23Output` after `setOutputRowGroup`
(both assign `fRowGroupDelivered`), for one of the jobs of `Jobs`. A row group
is the sequence of the keys of its columns.

`execute()` runs through the client library calls (each succeeds or fails),
`makeMappings`, the row loop with `addRow`, the final insert and the end of
the list. `MakeMappings` computes `fFe1Column` (`Fe1Column`: of a column of
the result the field of the row the WHERE functions read), `fFeMapping1` and
`fFeMapping3` (`makeMapping`, by keys), or throws for a key that was not
projected. The four variants of the row loop (with or without WHERE and
SELECT functions, lines 388-490) are one loop over `RowKept` and `Delivered`:
`RowFe1` is the row parsed for the WHERE functions, `Filtered` the row after
`applyMapping(fFeMapping1, ...)` and the parsing of the other columns,
`evaluate` adds the values of the SELECT functions and `applyMapping
(fFeMapping3, ...)` makes the row delivered. Columns and fields are counted
from 1 and `None` is the code's -1. A row the WHERE functions reject is left
before its other columns are parsed, so `RowBad`, the row on which `setField`
throws, depends on the job. `Field` is a constant operator; `MCCrossEngineStep`
gives it `setField` of `CrossEngineField` for an INT column. `addRow`'s insert is a step of its own
(`InsertFull`) because the thread may wait in it while the status changes.
`nextBand` is modelled statement by statement; its test of `fEndOfResult`
(`BandReturn`) reads the variable the thread of `execute()` writes.
`Join` is `join()`, which returns when the thread has ended. A function of
the WHERE clause throws on the rows of `Fe1Throws`, one of the SELECT clause
on the rows of `Fe3Throws`; both end in the catch blocks of `execute()`
like a value that `setField` throws on. The catch blocks of `execute()` and
`nextBand` test the status (`Caught`, in `ClientCallFails`,
`MakeMappingsThrows`, `RowCaught`, `BandCaught`) and set it in a step of
their own (`SetStatus`, `BandSetStatus`), as in `TupleHavingStep`; `nextBand`
sets `fEndOfResult` when its catch block has read the list to its end
(`BandDrain`). Another step that fails (`OtherStepCaught`,
`OtherStepFails`: its test and its write) and `Abort` are the environment.

### JobPipeline

The job list builder gives two steps that follow each other one data list
and one status: `fOutputDL` of the cross-engine step is `fInputDL` of the
HAVING step. `JobPipeline` extends `CrossEngineStep` and instantiates
`TupleHavingStep` with `inDL <- outDL`, the same `status`, the other step
that fails as the one step of that kind (`upstream <- other`), and the producer's
bookkeeping of `TupleHavingStep` (`input`, `fed`) replaced by what the
cross-engine step has inserted (`made`). A step of the job is a step of one
of the two (`Alone`, `Behind`): no action is written again. Each module
leaves one thing to its environment, a reader that takes the row groups or
a producer that ends the list; in the job the other step is that
environment, so the reader of `CrossEngineStep` (`ReadNext`) does not run in
a job that has a HAVING step (`Piped`) and the producer of `TupleHavingStep`
(`UpInsert`, `UpEnd`, `UpCaught`, `UpFail`) does not run at all. The jobs of `HavingJobs`
have a HAVING step when the cross-engine step does not deliver; the others
run as in `CrossEngineStep`.

### DBRootExtentTracker and ExtentRotation

A tracker is a record with the members' names (`fDBRootExtentList`,
`fCurrentDBRootIdx`, `fStartedWithEmptyPM`, `fEmptyPMFirstDbRoot`); an
operation is an operator from the tracker to what the operation returns and
the tracker after it, so that every column of `ColumnInfo` can hold its own.
The header gives the types, the states, the members and the bodies of
`getDBRootExtentList` and `getCurrentDBRootIdx`, which are translated from
it. `selectFirstSegFile`, `assignFirstSegFile` and `nextSegFile` are only
declared there. Their model follows the comments of the declarations (the
three cases of `nextSegFile`) and section 4.1 of the design document; it is
a model of the design, and PROJECT.json marks its definitions
`spec_modelled`. Two choices are policy of the model, stated at the head of
the module: where a job starts, and which of several partial extents
elsewhere is resumed first. `fLocalHwm` is what the extent holds already, in
the unit `ColumnInfo` counts positions in.

`ExtentRotation` is the abstract specification: a fixed order of volumes, a
current volume, and the set of stray volumes (holding a partial extent). A
step selects the first volume, resumes a stray, or, when there is no stray,
advances to the successor. `ColumnInfo` instantiates it over the reference
column's tracker (`Rotation`) and checks `Rotation!Spec`.

### ColumnInfo

A column is a record with the members' names; the operations of `ColumnInfo`
are operators from the record to the record after the call, and the actions
are the steps of the threads that call them. The header defines the members,
`enum InitialDBFileStat` and the inline functions (`isAbbrevExtent`,
`getFileSize`, `lastInputRowInExtent`, `saturatedCnt`, `incSaturatedCnt`,
`updateCPInfo`, which only passes its arguments to `ColExtInf::
addOrUpdateEntry`); these are translated from it. Every other operation is
declared in the header and defined elsewhere. What the model has them do
follows the comments of the declarations and sections 4.2, 5 and 7 of the
design document, PROJECT.json marks those definitions `spec_modelled`, and
what the run shows of them is shown of the design:

| Thread | Actions | Calls |
|---|---|---|
| main | `SetupNoDBRoot`, `SetupExtent`, `SetupDelayed` | `selectFirstSegFile` / `assignFirstSegFile`, `setupInitialColumnExtent`, `setupDelayedFileCreation` |
| parsing | `ParseBuffer` | `updateCPInfo`, `lastInputRowInExtentInc`, `incSaturatedCnt` |
| writer `w` | `WriterStart`, `CreateDelayedFileCheck`, `CreateDelayedFileNotNeeded`, `CreateDelayedFile`, `ReserveSection`, `WriterGivesUp`, `WriteToFile`, `WriteExpands`, `WriteExtends`, `WriteExtendFails`, `ReserveSectionReturns`, `ReleaseSection` | `createDelayedFileIfNeeded`, `reserveSection`, `writeToFile`, `updateBytesWrittenCounts`, `expandAbbrevExtent`, `extendColumn`, `releaseSection` |
| main | `FinishColumn`, `ReportColumn`, `AbortColumn` | `finishParsing`, `getBRMUpdateInfo`, `closeColumnFile(.., bAbort)` |

The two mutexes are variables holding their owner; taking one is a guard.
The comment before the struct lists the calls that take `fColMutex`:
`reserveSection`, `releaseSection`, `intermediateFlush` and
`extendTokenColumn` of the buffer manager, each for the call, and
`writeToFile` within one of them. In the model `ReserveSection` takes the
mutex, the writes, the expansion and the extension happen inside that call,
one step each, so that the other writer and the main thread run between
them, and `ReserveSectionReturns` gives the mutex back; `ReleaseSection`
takes the mutex for itself and is one step. `intermediateFlush` and
`extendTokenColumn` are not modelled.

Data is abstracted as follows. Positions in a file are counted in rows: the
HWM of the model is the number of rows in the file's last extent, and an
extent holds `RowsPerExtent` rows of any width. The code counts the HWM in
blocks, and how many rows a block holds depends on the column's width; that
arithmetic is in bodies that are not among the sources and is left out, so
the model says nothing about it. Sizes stay in bytes (`rows * width`), which
is what the byte accounting is about. The input is `NumRows` rows with
fixed values. `disk[c]` is the history of the extents the rows of column `c`
went to and is read by the properties only.

### FuncExp, RowScanner, CrossEngineQuery, CrossEngineField, HardwareMonitor, WEObserver

These modules have no variables: a function of the code that reads its
arguments and returns a value is an operator, a loop is a recursive operator
over the loop's locals, and the names and the order of the tests are those of
the code.

| Module | Operators | Data |
|---|---|---|
| `FuncExp` | `Ceil_getIntVal`, `Ceil_getDoubleVal`, `Ceil_getStrVal` (with `CeilDecimal`, the cut-off and the correction); `getChar` (with `LowBytesFirst`, the loop) and `Char_getStrVal` (with `RoundDecimal`); `Trim_getStrVal` (with the four loops `LeadingChr`, `TrailingChr`, `LeadingStr`, `TrailingStr`) | A parameter is `isNull` and the number `value / 10^scale`, or a string of wide characters. A call returns `isNull`, the value, and whether it threw. `/` of C++ is `TruncDiv`. |
| `RowScanner` | `getNextRow` = `RowLoop` (outer loop) over `Taken` (the three branches, `EnclosureTaken` at the closing `ENCL`) and `NextRound` (the test of the end of the row and the next character), `ToEnclosureEnd` (inner loop) and `ToFieldEnd` (the `aTrailEsc` loop); `chkForListOfFiles` = `FilesFrom` (the do loop) over `find_first_of` and `substr` | A character is `ENCL`, `ESC`, `DELIM`, `NL` or another value; the state of a call is the stream, `good()`, `aCh`, the row so far and `aTrailEsc`. A call that is in a loop it cannot leave is marked `runsOn`. |
| `CrossEngineQuery` | `setBPP`, `addFilterStr` (with `filterStr`, its loop), `setProjectBPP`, `makeQuery`; `Built` applies the calls of the job list builder in order | A clause is a sequence of words; a filter and a name are one word. A step whose builder has read through a null pointer is marked `crashed`. |
| `CrossEngineField` | `setField` (with `IsLongString`, `IntField`), `convertValueNum` (with `CastNames` and `DecimalCast`, the type each case of the switch names, and `Assigned`, the assignment to the `int64_t`), `setIntField` | A value of a C type is the sequence of its bytes, lowest first; a value of the result is the null pointer or a text with what `convertColumnData` made of it (the warning and the `boost::any`). Whether plain `char` is signed is the build's choice and a parameter. |
| `HardwareMonitor` | `hardwareMonitor` = the start and `FilePass` (one round of the loop for ever) over `SensorLine` (one line), `Tokens` (the `strtok` loop into `data[]`), `Sensor` (the ten fields), `Levels` (the chain of tests) and `Verdict` | A line is the sequence of its tokens; a token is a whole number or a word, and `atof` of a word is 0. The result is the sequence of calls of the server monitor. |
| `WEObserver` | `attach`, `detach`, `notify`; `Call` applies the calls of one thread in order | A subject is the list `fObs`, the observers `update` was called on, and `runsOn`: the loops of `detach` and `notify` advance their iterator on no path, so a call that does not leave its loop in the first round never leaves it. |

### DDLScanner

The generated scanner, operator by operator, over one record `Statics` that
holds every static variable of the file. Nothing of the automaton is
abstracted: `yy_accept`, `yy_ec`, `yy_meta`, `yy_base`, `yy_def`, `yy_nxt`
and `yy_chk` are the tables of the source, a text is the sequence of its
character codes, and a buffer is the text with the two end-of-buffer
characters behind it.

| Code | Operators |
|---|---|
| `scanner_init`, `scanner_finish`, `scanner_copy` | the same names; `scanbufs` and `strdups` count what `malloc` and `strdup` have given and `free` has not taken back |
| `yy_scan_buffer`, `yy_switch_to_buffer`, `yy_load_buffer_state`, `yy_delete_buffer` | the same names, over `buffers`, a function from buffer handles to buffers |
| `yylex`: initialisation, the loop, `yy_match`, `yy_find_action`, `do_action` | `yylex`, `Scan` (one round of the loop), `yy_match` with `Transition` (the `while (yy_chk[...] != yy_current_state)` loop) and `Accepting`, `yy_find_action`, `do_action` |
| the 84 rules of the `switch` | `Returned` (what each rule returns, or `Nothing` for `break`), `Begins` (its `BEGIN`), `Less` (`yy_cp` stepped back by the rules with trailing context), `Action` (copy, `lineno`, `ECHO`) and `Value` |
| `case YY_END_OF_BUFFER` | `EndOfBuffer` with `yy_get_previous_state`, `yy_try_NUL_trans`, `yy_get_next_buffer` and `EndOfFile` |

A call returns the statics it leaves and the token: `[token |-> "CREATE"]`
for a word of the grammar, `[char |-> 40]` for a character returned as
itself, `YY_NULL` at the end. In `PureFunctions`, `Lexed` is the parser
asking for at most `reads` tokens, `Statement` one statement (`scanner_init`,
the tokens, `scanner_finish` or not) and `DdlLex` a session of statements on
the same statics.

`PureFunctions` is the state machine that evaluates them: `Init` chooses one
call of the sets of calls the model is given (`pending`), and the action of
the function (`CeilInt`, ..., `GetNextRow`, `MakeQuery`, `MonitorSensors`,
`SetField`, `DdlLex`, `SubjectCall`) evaluates it in one step and records the call with what it returned
(`evaluated`). The properties are invariants on `evaluated` that compare what
was returned with a definition of what the function is to compute, written
without the code's loops: `Marked`, `WellFormed` and `FirstRow` for a row, a recursive-descent evaluation of the words of
the WHERE clause (`Disjunction`, `Conjunction`, `Operand`) with SQL's
precedence, `Severity` for a sensor, the list `Keywords` of the grammar's words and the
scan of the parts of a statement on their own (`Alone`) for the scanner.

### Assumptions

* All step associations of a job share one status word: what
  `fOutputJobStepAssociation.status(e)` sets, `fInputJobStepAssociation
  .status()` reads.
* The data list is a bounded FIFO with one consumer.
* The caller of `nextBand` calls again until a band has no rows, and not
  after.
* An exception that leaves a thread function ends the process.
* The row group the cross-engine step is given for its output begins with
  the columns of the query, in the order of the query: `setField(i, ...)`
  writes field `i` of the row. The SELECT functions write their values into
  the fields behind them.
* The columns of a table start from the same snapshot of the extent map, and
  the parsed rows of a column are written inside `reserveSection`, under
  `fColMutex`, in input order.

## 3. Runs

All bounds are constants of the configurations.

### File read thread

Inputs, as characters over `ENCL`, `ESC`, `DELIM`, `NL` and two others:
`f1` (3 rows, the last an escaped character), `f2` (an enclosure with a
newline inside: two rows to `getline`, one to `getNextRow`), `fBig` (a row,
then a row too big for the buffer), `fOpen` (an enclosure that does not
end: a row to `getline`, a call that does not return to `getNextRow`),
`fGone` (cannot be opened) and standard input (2 rows); any list of up to
`MaxFiles = 3` of them, batches of `BatchQty = 2` rows, a buffer of
`BuffSize = 8` characters, PMs `p1`, `p2`. Three rows with batches of two
make a load take several batches with a partial last one; three files make
the change of file happen twice; a buffer of eight sends rows of up to five
characters, so that the enclosure of `f2` fits and the second row of `fBig`
does not. In the passing run `setup()` finds an enclosing or escape
character set or not (`AnyEnclEsc`); the violation runs read by `getline`
(`NoEnclEsc`). The passing run has 88,146 distinct states.

| Run | Configuration | Result |
|---|---|---|
| `filereader` | `WEFileReadThread.cfg` | passes. `FeedRefinement`: the thread implements `DataFeed`; every step of either thread delivers the characters that come next in the inputs, each with its file and offset and whichever call cuts the rows, or sends the one EOD, after every row unless `shutdown()` was called, or leaves what the PMs have seen unchanged. `NoCloseDuringRead`: the file is not closed or replaced while a reader is inside the batch loop. `ShutdownStopsReader`: after `shutdown()` the reader leaves `feedData`. `LoadEnds`: every load ends (EOD, stop or exception), provided a PM is offered again and again. |
| `filereader_eod_after_shutdown` | `WEFileReadThreadEOD.cfg` | `EODMeansAllRowsSent` is violated: `shutdown()` during a load makes the reader send EOD with rows unsent. |
| `filereader_last_row` | `WEFileReadThreadLastRow.cfg` | `RowsSentIntact` is violated: the last row of an input without final newline loses its last character. |
| `filereader_resetup` | `WEFileReadThreadResetup.cfg` | `OneReader` is violated: `setup()` after `shutdown()` leaves two readers in `feedData`. |

The passing run takes the inputs the code serves as written: every file ends
in a newline, `/dev/stdin` is the first input if it is one, and `setup()` is
called once (`MaxSetups = 1`). Each violation run lifts one of these
restrictions, or states the stronger property, and shows what the code then
does.

Fairness: weak fairness of the reader's steps (the thread is scheduled) and
of `ShutdownClose` (a `shutdown()` that has begun runs on; it waits only for
the mutex, which the reader releases after every batch). Nothing obliges the
controller to call `shutdown()`, and nothing obliges a PM to take data:
`getNextPm2Feed` returns 0 while every PM is busy. `LoadEnds` therefore has
the hypothesis `PmsTakeData` (strong fairness of the step that finds a PM);
`ShutdownStopsReader` holds without it.

`CHECK_DEADLOCK FALSE`: the system stops when the load is over.

### HAVING step

Inputs: two sequences of five row groups (with an empty group, a group of
which no row passes, and a last group that throws or not), lists of
`DLCapacity = 2`. Five groups against a capacity of two make the producer
block; the empty and the rejected group exercise `nextBand`'s skipping. A
row has two bytes in front of three columns of one byte, two of them with
the same key; the job delivers all three columns, one of them beside a
constant, or constants only, so that the output row is the whole input row,
a part of it, or nothing but the bytes in front. The passing run has 5,769
distinct states.

| Run | Configuration | Result |
|---|---|---|
| `having_step` | `TupleHavingStep.cfg` | passes. `OutputIsFilteredInput`: what is handed on is a prefix of the rows HAVING keeps, each cut to the columns the job delivers (defined from the input's offsets, not from `fRowGroupOut`), and all of them when the step ends without error. `EmptyBandEndsResult`: only the last band is empty. `ExecuteDrainsInput`: `execute()` reads its input to the end on every path. `StepEnds`: the step ends, ends its output, and `join()` returns. |
| `having_step_band_no_drain` | `TupleHavingStepNoDrain.cfg` | `InputDrained` is violated for `nextBand`: an error status seen right after the first `next()` of a call ends the result with the input not drained. |
| `having_step_first_error` | `TupleHavingStepFirstError.cfg` | `FirstErrorKept` (a status that is set is not replaced) is violated: the filter throws while the step upstream fails, both catch blocks find the status 0, one sets it and the other replaces it. The test `status() == 0` and the call `status(...)` of a catch block are two calls on a status other threads write (`tuplehavingstep.cpp` 221-222, 229-230, 293-294, 298-299; the catch blocks of `crossenginestep.cpp` are written the same way). |

Fairness: weak fairness of every thread's steps (the step, the producer, the
consumer) and of the job's calls of `initialize()` and `join()`. Nothing
obliges the step upstream to fail (`UpCaught` is not fair); once its catch
block has tested the status it goes on to set it (weak fairness of
`UpFail`).

### Cross-engine step

Inputs: a query of three INT columns (keys 11, 12, 13) and six jobs: no
functions; WHERE functions on the last column, on the last and the first
(the fields of the row they read in another order than the columns of the
result), and on a column that was not projected; SELECT functions whose two
values are delivered with a column between them; and both. The values are
1, 2, NULL, a number out of range (stored as the null value) and one that
`boost::any` holds in another type than the column's, on which `setField`
throws. The WHERE functions are true of a row whose first field is 1. Query
results of 0, 4 and 7 rows, with rows the WHERE functions reject, a row
that throws in every job and one that throws only where its first column is
parsed; `fRowsPerGroup = 2`, `DLCapacity = 1`. Seven rows in groups of two
with a list of one give more groups than the list holds by three, which is
what it takes for the thread to block behind a reader that has stopped; the
same result ends in a partial group without WHERE functions and in an empty
one with them. One of the results of four rows has a row on which the
functions throw. Behind the job without
functions and the job with a WHERE function on the last column the
non-delivering step feeds a HAVING step that keeps the rows whose first
column is 1, throws on a null in the third, delivers itself or not, and
hands on the first column beside a constant. The passing run has 65,665
distinct states.

| Run | Configuration | Result |
|---|---|---|
| `job_pipeline` | `JobPipeline.cfg` | passes. `GroupsAreQueryResult`: the groups hold, of the rows the WHERE functions are true of, the fields the job names by their keys (`Meant`, defined from the keys and `fColumnMap`, without `fFe1Column` and the mappings), in order, cut at `fRowsPerGroup`, all of them at the end. `JobDeliversResult`: behind a HAVING step what is handed on is at any moment a prefix of the rows of the query that HAVING keeps, and all of them when the step ends without error, whatever the order of `insert()` in one thread and `next()` in the other; without one, a reader told of the end without error has taken every row. `PipelineEnds`: the reader at the end of the job ends on every path, the catch blocks of both steps included, and behind a reader that drains the list the thread of the cross-engine step ends and `join()` returns. |
| `cross_engine_abort` | `CrossEngineStepAbort.cfg` | `ThreadEndsAlways` is violated: after an abort the reader stops and the thread blocks in `insert()`. |
| `cross_engine_band` | `CrossEngineStepBand.cfg` | `BandHoldsItsRows` is violated: `nextBand` replaces a loaded band by the empty band when `execute()` has set `fEndOfResult`. |

Fairness: weak fairness of the job list builder's calls and `Run`, of the
steps of `execute()`, of `nextBand` and of the next step's reads, and in the
pipeline of the HAVING step's thread, its `initialize()`, `run()` and
`join()` and its consumer; none of `OtherStepCaught` and `Abort`, and weak
fairness of `OtherStepFails`, the write that follows the other step's test. The
threads are started by `run()` and nothing but a full or empty list makes
them wait, which the guards say.

What the composition shows: the assumption each step module makes of its
environment holds of the other step. `execute()` of the HAVING step reads
its input to the end on every path, so the thread of the cross-engine step
never stays in `insert()`; `execute()` of the cross-engine step ends its
list on every path on which the exception is caught, so the HAVING step
ends. A HAVING step that delivers does not always drain its input
(`having_step_band_no_drain`), so the second part of `PipelineEnds` is
stated for readers that drain. The two violation runs of the cross-engine
step use the step alone, with the reader of `CrossEngineStep`.

### Column load

Two columns `c1` (1 byte) and `c2` (2 bytes), DBRoots 1, 2, 3, extents of
four rows (`BlksPerExtent = 4`), an abbreviated extent of `AbbrevRows = 2` rows, an
import of `NumRows = 9` rows read in buffers of `BufRows = 3`, two writers.
The job starts from one of five snapshots of the extent map: no DBRoot; no
extent on this PM (delayed creation of an abbreviated extent); an extent half
filled by an earlier import; a DBRoot moved here, so that two DBRoots hold a
partial extent; every extent full. Nine rows in extents of four make the
rotation visit every DBRoot and come back to the first; buffers of three make
the second buffer cross an extent boundary; the abbreviated extent fills up
inside the first buffer; two writers contend for `fColMutex` of one column and
for the delayed file.

| Run | Configuration | Result |
|---|---|---|
| `column_load` | `ColumnInfo.cfg` | passes (120,940 states). `ColumnHoldsInput`: the extents of a column hold a prefix of the input in order, without gap or repetition, also across an expansion in the middle of a write, and no extent holds more rows than it has room for. `CPBoundarySplit`: the min/max of an entry cover the rows of its logical extent only. `ReportMatchesDisk`: what is reported to the BRM (HWM per segment file, CP entries, saturated rows) is what was written. `RotationRefinement`: the reference column's tracker implements `ExtentRotation`. `JobEnds`: every column ends reported, closed or failed, with `fColMutex` free. |

Apart from the members and the inline functions, what this run checks is the
design of sections 4.1, 4.2 and 5 of the design document as the model states
it, not code: the run shows that the design holds together (mutual
exclusion, byte accounting, rotation, reporting), and would not show a bug in
the bodies of `we_columninfo.cpp` or `we_dbrootextenttracker.cpp`.

`ReportMatchesDisk` states the CP entries of the imports that resume no
stray extent in the middle (`NoStrayResumed`). `lastInputRowInExtentInc`
advances the logical extent by a whole extent; an extent resumed in the
middle of an import takes fewer rows, so behind it the logical extents of
the model are shifted against the extents written. Neither the header nor
the design document says how the logical extent is set after such a resume,
so the model has nothing to be compared with there.

Fairness: weak fairness of `Progress`, the disjunction of every step but the
failure of an extension. Every thread's step is enabled until it is taken or
the job fails, no step undoes another, so fairness of the disjunction is what
the scheduler gives. `WriteExtendFails` is not fair: an extension may always
succeed.

`CHECK_DEADLOCK FALSE`: the job ends.

### Pure functions

One run, `pure_functions` (`PureFunctions.cfg`, module `MCPureFunctions`),
evaluates about 214,000 calls:

| Function | Calls | Why these |
|---|---|---|
| `ceil` | 16 numbers from -150 to 101 as INT, BIGINT, DECIMAL of scale 0, 1, 2 and 19, DOUBLE, VARCHAR; dates; a type that throws; each through `getIntVal`, `getDoubleVal`, `getStrVal` | negative and positive values with and without a remainder, the multiples of the power of ten, the scale without a power of ten |
| `char` | -1, 0, 65, 255, 256, 257, 65535, 65536, 70000, 2^24; decimals and doubles at the rounding boundary | one, two, three and four bytes, a zero byte in the middle, the negative value |
| `trim` | strings of up to 4 characters over the blank and one other, with no trim string and with trim strings of up to 2 characters; null and unconvertible parameters | the trim string at both ends, repeated, overlapping, alone, longer than the string |
| `getNextRow` | every text of up to `MaxTextLen = 6` characters over `ENCL`, `ESC`, `DELIM`, `NL` and one other, with `MaxLen` 4 (`SmallBuf`) and 8 (`LargeBuf`) | six characters hold two enclosed columns, an escaped enclosure inside an enclosure, and a row that ends exactly at a buffer of 4 |
| `chkForListOfFiles` | every list of up to `MaxListLen = 5` characters over a separator and two others | three names, empty names at the start, in the middle and at the end; the function is evaluated and no property is stated of it, since its only call (`we_filereadthread.cpp:161`) is commented out |
| `makeQuery` | up to two calls of `setBPP` / `setProjectBPP` of any kind of step, and three calls of `setBPP` with one or two filters each, under AND and OR | an OR step between AND steps, empty filters, the same column projected twice, table with and without alias |
| `hardwareMonitor` | files of up to two lines: a sensor with thresholds 1 2 3 / 5 6 7 and readings 0 to 8 in states `ok` and `cr`; empty, short, long lines and lines with `na` thresholds; with and without IPMI, `ipmitool` failing, the file missing | every reading at, between and beyond each threshold; a second line after a first |
| `ddllex` | one statement read to its end: every text of up to three pieces over `a 1 ' ( ) - . e # $`, blank, newline, backquote and the words `check` and `date`, every text of four pieces over `check a 1 ' ( )`, blank and newline, and each of the 69 words of the grammar in small letters, in capitals, capitalised, and with a letter behind it | identifiers, integers and the forms of a number with `.` and `e`, comments, texts in quotes and in the parentheses of `CHECK`, closed, not closed and empty, with a newline or a word of the grammar inside; characters no rule knows |
| | sessions of two and three statements, the earlier ones left by the parser after 0 to 6 tokens, with `scanner_finish` or without (about 8,700 sessions with those of one statement): `check (a 'b`, `'a b`, `check`, `a date 'b' 1`, `1e`, `date`, followed by `date a`, `'q' check(b)`, `check` or the empty statement | the parser gives up inside a quoted text, inside a `CHECK`, between `check` and its parenthesis, in the middle of a statement and at its end, so that the next statement meets every start condition and a buffer with a NUL poked into it |
| `setField` | every column type in every width it has (CHAR and VARCHAR of 1, 2, 4, 8 and 12 bytes, DECIMAL of 1, 2, 4 and 8, and a type the switch does not name), with NULL and, with and without the warning of a value out of range, the values 0, -1, the largest and the smallest of the C type, for FLOAT 1, -1, infinity and two NaNs, for strings the empty one, one byte and a full column; plain `char` signed or not | the sign of every narrow type, the NaN that becomes `FLOATNULL`, a string cut or padded to 8 bytes, the long strings that are stored as they are |
| `Subject` | every sequence of up to four calls of `attach` and `detach` of two observers and of `notify` | `detach` of the first observer, of the second and of one that is not attached; `notify` of an empty list and of one that is not |

| Property | What it says | Holds for |
|---|---|---|
| `CeilIsLeastIntegerNotBelow` | `ceil` returns the least integer that is not below the value | every call that returns a value |
| `CharIsBytesOfValue` | `char` returns the bytes of the value, highest first, without a leading zero byte | every value; for 256 and more the result has one more byte, the terminator `s[s.size()]`, which the property allows and records |
| `TrimRemovesAffixes` | `trim` returns the string without the copies of the trim string it begins with and, of what is left, without the copies it ends with | every string `idb_mbstowcs` converts but those that consist of the single trim character only, of which one character is left |
| `RowIsFirstRow` | `getNextRow` returns the first row of the text, with its newline, and leaves the stream behind it | well-formed texts (every enclosure ends, no escaped newline outside an enclosure, no escape at the end) that fit the buffer |
| `NoCharacterLost` | the row and the rest of the stream together are the text | every call that returns and has not read the end of the stream behind an escape character |
| `WhereMeansEveryStep` | a row satisfies the WHERE clause, read with SQL's precedence, exactly when it satisfies every job step | every builder that has not crashed |
| `ColumnMapLeadsToColumn` | `fColumnMap[tupleId]` is the place of that column in the select list | every builder that has not crashed |
| `AlarmsAreSeverityOfReadings` | every sensor gets, once and in file order, the alarm of as many thresholds as its reading has reached; the server is shut down for the third and for nothing less | files of complete and of empty lines |
| `FieldHoldsValue` | the field of the row holds the bytes of the value, as many as the column is wide, and the null value of the column for NULL and for a value out of range | every call; `setField` never throws when `boost::any` holds the type of the column |
| `KeywordsInAnyCase` | a word of the grammar, however it is written, is the token of that word; the word with a letter behind it is an identifier whose value is the text as written | the 69 words against the tables of the automaton |
| `ScanSplitsAtNewline` | the tokens of a statement with a newline are the tokens of the part before it followed by those of the part behind it | statements whose part before the newline ends in the start condition `INITIAL`; the part before the newline is scanned with its last token at the end of the buffer, in the whole statement the same token stands before white space |
| `BracketedTextIsOneToken` | a text in quotes or in the parentheses of `CHECK` is one token whose value is the text as it stands, the closing character is returned next, and what follows is scanned as the beginning of a statement is | texts without their closing character |
| `EndOfInputIsSticky` | at the end of a statement the scanner stands on the end of the buffer, and another call returns `YY_NULL` and changes nothing | every statement read to its end, in whatever start condition it ends |
| `RescanIsFreshScan` | a statement yields the tokens, values and places it yields as the first statement of a session | every session: whatever was scanned before, wherever the parser left it, with `scanner_finish` or without |
| `UnmatchedCharactersAreEchoed` | the tokens stand one behind the other in the text, and a character in none of them is white space, a backquote, or was written to `yyout` | statements without a comment |

What the restrictions leave out is what the code does differently, at the
lines named:

* `TRIM('   ')` is `' '` (`func_trim.cpp:106`);
* `CHAR(256)` is three bytes long (`func_char.cpp:70`);
* `getNextRow` does not leave its inner loop when the text ends inside an
  enclosure, and does not test the buffer inside an enclosure
  (`we_filereadthread.cpp:430`); an escaped newline ends the row outside an
  enclosure and not inside (`:454`);
* an escape character at the end of the stream puts the value of `EOF`
  into the row (`:453`);
* `chkForListOfFiles` loses every name behind two separators in a row, as in
  `"a, b"` (`:219`);
* `setBPP` reads through a null pointer for a dictionary scan
  (`crossenginestep.cpp:571`);
* the scanner has no rule for every character, and the default rule of
  flex writes what no rule matches to `yyout`, which is standard output:
  `#`, `"`, whatever stands between `CHECK` and its parenthesis, and the
  rest of a statement behind a quote or a `CHECK` parenthesis that is not
  closed. The parser sees the statement without them and without an error:
  `drop table a#b` is scanned as `drop table a b` (`ddl-scan-win.cpp:1238`);
* the text of a `CHECK` ends at the first `)`: of `check(a(b)c)` the text
  is `a(b` (`:934`);
* `lineno` is advanced by a newline that stands alone between two tokens,
  not by one next to other white space, in a comment or in a text, and
  `scanner_init` never sets it back (`:1212`);
* the value of the token `DATE` is a `strdup` that `scanner_copy` has not
  entered into `valbuf`, so `scanner_finish` does not free it (`:1000`);
  `scanner_init` clears `valbuf` without freeing (`:2163`), so a statement
  the parser left without `scanner_finish` leaves its copies and its
  `scanbuf` allocated;
* `detach` of an observer that is not the first of the list and `notify` of
  a list that is not empty do not return (`we_observer.cpp:88`, `:101`);
  the `scoped_lock` of `attach`, `detach` and `notify` is given no mutex;
* a sensor in an error state whose upper thresholds are `na` gets the
  critical alarm and the shutdown for any reading of 0 or more
  (`hardwareMonitor.cpp:150`); a short line is judged with the thresholds
  of the line before (`:130`); the file is written once and read for ever
  (`:56`).

There is no fairness: the properties are invariants. `CHECK_DEADLOCK FALSE`:
a behaviour ends when its call has returned. Numbers are those of TLC
(32 bits); `getChar`'s cut of an `int64_t` to `int` is out of reach.

### Mutants

For every property of a passing run `PROJECT.json` names a faulty variant of
a definition (defined next to it, marked "Faulty variant") under which TLC
finds the property violated: a dropped `pop_front`, a close without the
mutex, an insert after the look-ahead read, an end without `endOfInput()`, an end of `execute()` that leaves its
input undrained, a group cut one row late, a section
reserved without `fColMutex`, a `reserveSection` that returns with the mutex
locked, a CP update that is not split at the boundary, a rotation that skips the stray extent, a
decimal cut off without the correction, bytes left in the order of the loop,
an end that steps back by one character, an escape character that escapes
nothing, a filter without parentheses, a column counted before it is entered, the two sides of `fFe1Column
[it->second] = i` exchanged, an output row group with the whole layout of
the input, the bits of a NaN taken as they are, a reading at a threshold taken as below it, the rules of two words of the
grammar exchanged, a buffer whose end is taken for the end of the input
before the last match is returned, a character of trailing context that is
not given back, an end of input that does not step back onto the
end-of-buffer character, a `scanner_init` that does not begin `INITIAL`, a
round of the scanner that does not restore the held character.

## 4. Not modelled

* In the cross-engine step: `DataConvert::convertColumnData` (text to
  number), `rowgroup::makeMapping` and `applyMapping` and
  `FuncExp::evaluate` are not among the sources; they are operators written
  from the way the step uses them. `toString`, trace and statistics output.
  The catch blocks of `execute()` do not free the client library's objects;
  the model has no state for them, as nothing reads them afterwards.
* In the HAVING step: `expressionFilter`, which collects the aggregate
  columns of the parse tree for the base class, `setOutputRowGroup`, which
  only throws, and the evaluation of the expression (`ExpressionStep` is not
  among the sources); a row passes, does not, or throws.
* In `ColumnInfo`: the dictionary store, auto-increment reservation
  (`reserveAutoIncNums` under `fAutoIncMutex`), `getSegFileInfo`,
  `intermediateFlush` and `extendTokenColumn` of the buffer manager, initial
  block skipping, the conversion between blocks and rows by the column's
  width, compressed files. The header declares them; their bodies,
  `ColumnAutoInc` and their callers are not among the sources, and nothing
  the header says fixes what a step of them does.
* In the hardware monitor: the loop for ever as a process. The file is
  written once, before the loop, so every round reads the lines the modelled
  round reads; what a round leaves to the next is `data[]`, which only a
  short first line reads.
* `~WEFileReadThread`: the destructor closes the file without the mutex and
  drops the thread without joining it. When the owning handler destroys the
  object is decided in `WESDHandler`, which is not among the sources; the
  hazard is listed in `PROJECT.json` without a property.
* `WEObserver`: calls of two threads on one subject. The callers of the
  class are not among the sources, and the sequential calls already do not
  return. The calls are evaluated and the run states no property of them:
  what the list holds after calls that return is what `push_back` and
  `erase` make of it, and that every call returns is false.
* `we_readthread.h`, `we_dctnrycompress.h`, `vendordmlstatement.cpp`:
  declarations, forwarding functions and constructors without state changes.
* In the DDL scanner: input from a file (`yy_create_buffer`,
  `yy_init_buffer`, `yy_flush_buffer`, `yyrestart`, `YY_INPUT` and the
  filling branch of `yy_get_next_buffer`), `yyunput` and `yyinput`, which a
  scanner over a string never reaches; `yy_scan_string` and `yy_scan_bytes`,
  which nothing calls; a call of `ddllex` before `scanner_init`, which would
  read standard input, and one after `scanner_finish`, which reads through a
  pointer into the freed buffer. The parser is its calls: how many tokens it
  asks for, and whether it calls `scanner_finish`.

Six hazards of `PROJECT.json` have no property. Each is a step after which
the code's behaviour is not defined or not in the sources: the loops of the
observer list and the conversion of the HWM to rows in
`lastInputRowInExtentInit` (both above); the destructor of
the file read thread (above); `drizzle_create` failing, whose exception
leaves `execute()` outside its `try` (the model ends there, in `escaped`, and
`PipelineEnds` says so); `setBPP` reading through a null pointer (the builder
is marked `crashed` and the properties of the query speak of the others); and
the sensor file written once (every round reads the same lines).

## 5. Plan

Done: the file read thread reading characters through its row scanner and
shown to implement the abstract feed, the two job steps over the data list
with their rows laid out by the row groups the job gives them, and the job
in which the one feeds the other, the query
builder and the conversion of the values, the extent tracker with its
abstract rotation, the column load state, the SQL functions, one round of
the hardware monitor, the DDL scanner as the parser uses it, and the
observer list call by call.

Next, in order of importance:

1. Columns of other types and widths in the cross-engine step: the model of
   the step takes `Field` as a constant, and `CrossEngineField` has every
   type.
