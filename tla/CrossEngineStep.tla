--------------------------- MODULE CrossEngineStep ---------------------------
(***************************************************************************)
(* The cross-engine step of a job (dbcon/joblist/crossenginestep.cpp).     *)
(* Its thread (execute) runs a query on a foreign engine through the       *)
(* drizzle client library, turns the result rows into row groups of        *)
(* fRowsPerGroup rows and inserts them into the output data list; when the *)
(* step delivers the result, the caller of nextBand reads that list band   *)
(* by band, otherwise the next step of the job reads it.                   *)
(*                                                                         *)
(* The client library is the environment: each of its calls succeeds or    *)
(* fails.  A row of the result is the sequence of its values, a row of a   *)
(* row group the sequence of its fields, and a row group is known by the   *)
(* keys of its columns.  The job list builder projects the columns of the  *)
(* query (setProjectBPP, CrossEngineQuery) and gives the step its row      *)
(* groups; execute() sets the values into the fields through fFe1Column    *)
(* and the two mappings makeMappings() makes.  Columns and fields are      *)
(* counted from 1 here, and None stands for the -1 of the code.            *)
(***************************************************************************)
EXTENDS Naturals, Sequences, SequencesExt, FiniteSetsExt, RowGroupDL

CONSTANTS
    ProjectSteps,   \* the job steps setProjectBPP is called with, in order
    Jobs,           \* the jobs checked: [fe1, out, fe3], the keys of the row
                    \* groups setFE1Input, setOutputRowGroup and setFE23Output
                    \* are called with, <<>> for a call the job has not
    Values,         \* the values that can occur in a query result
    Results,        \* the query results checked, each a sequence of rows
    Field(_),       \* the field setField makes of a value
    BadValues,      \* the values on which setField throws
    Fe1Passes,      \* the rows of fRowGroupFe1 fFeFilters is true of
    Fe1Throws,      \* the rows of fRowGroupFe1 on which fFeFilters throws
    Fe3Throws,      \* the rows of fRowGroupOut on which fFeSelects throws
    Unset,          \* what a field holds that nothing was written to
    fRowsPerGroup,
    ERR_CROSS_ENGINE_CONNECT, ERR_IN_DELIVERY,
    OtherErr        \* the status another step of the job reports

None  == 0

Q == INSTANCE CrossEngineQuery WITH Empty <- <<>>

\* The members the calls of setProjectBPP leave: fColumnMap leads from the
\* key of a column to its place in a row of the result, counted from 0.
Projection   == FoldLeft(Q!setProjectBPP, Q!NewQuery("t", "t"), ProjectSteps)
fColumnMap   == Projection.fColumnMap
fColumnCount == Projection.fColumnCount

\* The job list builder delivers the columns of the query first and in
\* their order: setField(i, ...) writes field i of the row.
ASSUME /\ \A r \in Results : \A i \in DOMAIN r : r[i] \in [1..fColumnCount -> Values]
       /\ \A j \in Jobs : \A i \in 1..fColumnCount : fColumnMap[j.out[i]] = i - 1
       /\ BadValues \subseteq Values
       /\ fRowsPerGroup \in Nat \ {0}
       /\ {ERR_CROSS_ENGINE_CONNECT, ERR_IN_DELIVERY, OtherErr} \subseteq Nat \ {0}

VARIABLES
    outDL,          \* fOutputDL
    status,         \* the error status the job's step associations share
    die,            \* the job was aborted
    joined,         \* join() has returned
    other,          \* where another step of the job is with its own error
    fDelivery,      \* the step delivers the result through nextBand
    job,            \* the job the step is built for
    fFeFilters,     \* functions of the WHERE clause were given
    fFeSelects,     \* functions of the SELECT clause were given
    fRowGroupOut, fRowGroupFe1, fRowGroupFe3, fRowGroupDelivered,
    fFe1Column,     \* of a column of the result, its field in a row of
                    \* fRowGroupFe1
    fFeMapping1, fFeMapping3,
    pc,             \* where the thread of execute() is
    drz,            \* the client library objects execute() holds
    result,         \* the rows of the query result
    fetched,        \* rows drizzle_row_next has handed over
    rgData,         \* the rows in rgDataDelivered
    fRowsReturned,
    fRowsRetrieved,
    fEndOfResult,
    cpc,            \* where the reader of the output list is
    more,           \* nextBand's local "more"
    made,           \* history: the row groups inserted into the list
    taken,          \* history: the row groups the reader took from the list
    bands,          \* history: what nextBand returned, band by band
    ended           \* history: the reader was told that the result has ended

rowGroups == <<fRowGroupOut, fRowGroupFe1, fRowGroupFe3, fRowGroupDelivered>>
mappings  == <<fFe1Column, fFeMapping1, fFeMapping3>>
setup  == <<result, job, fDelivery, fFeFilters, fFeSelects, rowGroups, mappings>>
exec   == <<pc, drz, fetched, rgData, fRowsReturned, fRowsRetrieved, made>>
reader == <<cpc, more, taken, bands, ended>>
owner  == <<die, joined, other>>
vars   == <<outDL, status, owner, setup, fEndOfResult, exec, reader>>

-----------------------------------------------------------------------------
\* The calls that set up the query, in order, and the object each returns.
ClientCalls == <<"con_add_tcp", "con_connect", "query_str", "result_buffer">>
Returns     == [con_add_tcp |-> {"con"}, con_connect |-> {},
                query_str |-> {"result"}, result_buffer |-> {}]

After(call) ==
    LET i == CHOOSE j \in DOMAIN ClientCalls : ClientCalls[j] = call
    IN  IF i < Len(ClientCalls) THEN ClientCalls[i + 1] ELSE "mappings"

\* catch: "if (fOutputJobStepAssociation.status() == 0)", the test of the
\* status all steps share.  The call that sets it is a step of its own.
Caught(unset, set) == IF status = 0 THEN unset ELSE set

\* rowgroup::makeMapping: of every column of r1 the column of r2 that has
\* its key.
makeMapping(r1, r2) ==
    [i \in DOMAIN r1 |->
        IF r1[i] \in Range(r2) THEN Min({j \in DOMAIN r2 : r2[j] = r1[i]}) ELSE None]

\* rowgroup::applyMapping: the fields of in that are mapped, set into out.
applyMapping(mapping, in, out) ==
    [j \in DOMAIN out |->
        IF j \in Range(mapping) THEN in[Max({i \in DOMAIN mapping : mapping[i] = j})]
        ELSE out[j]]

\* Faulty variant: "fFe1Column[i] = it->second".
Fe1ColumnByField(colInFe1) ==
    [c \in 1..fColumnCount |->
        IF c \in DOMAIN colInFe1 THEN fColumnMap[colInFe1[c]] + 1 ELSE None]

\* makeMappings(): "fFe1Column[it->second] = i" for every key of
\* fRowGroupFe1, all others -1.
Fe1Column(colInFe1) ==
    [c \in 1..fColumnCount |->
        Max({None} \cup {i \in DOMAIN colInFe1 : fColumnMap[colInFe1[i]] = c - 1})]

\* The columns of the result that are parsed for the WHERE functions.
Fe1Columns == {c \in DOMAIN fFe1Column : fFe1Column[c] # None}

\* A row of a row group in new memory.
NewRow(rg) == [i \in DOMAIN rg |-> Unset]

\* "if (fFe1Column[i] != -1) setField(fFe1Column[i], rowIn[i], rowFe1)"
RowFe1(rowIn) ==
    [f \in DOMAIN fRowGroupFe1 |->
        IF f \in Range(fFe1Column)
        THEN Field(rowIn[Max({c \in Fe1Columns : fFe1Column[c] = f})])
        ELSE Unset]

\* "if (fFe1Column[i] == -1) setField(i, rowIn[i], row)"
Parsed(rowIn, row) ==
    [i \in DOMAIN row |->
        IF i \in (1..fColumnCount) \ Fe1Columns THEN Field(rowIn[i]) ELSE row[i]]

\* What a function of the SELECT clause makes of the columns of a row.
Fe3Value(key, columns) == <<key, columns>>

\* FuncExp::evaluate(rowFe3, fFeSelects): the fields behind the columns of
\* the result hold the values of the functions.
evaluate(rowFe3) ==
    [i \in DOMAIN rowFe3 |->
        IF i <= fColumnCount THEN rowFe3[i]
        ELSE Fe3Value(fRowGroupOut[i], SubSeq(rowFe3, 1, fColumnCount))]

\* The row is delivered: there are no WHERE functions, or they are true of
\* the row parsed for them.
RowKept(rowIn) == fFeFilters => RowFe1(rowIn) \in Fe1Passes

\* The row before the SELECT functions: the fields parsed for the WHERE
\* functions are passed through fFeMapping1, the others are set.
Filtered(rowIn, rg) ==
    Parsed(rowIn, IF fFeFilters THEN applyMapping(fFeMapping1, RowFe1(rowIn), NewRow(rg))
                                ELSE NewRow(rg))

\* The row throws, in the order of the loop: setField on a column parsed for
\* the WHERE functions, their evaluation, and, when the row is kept,
\* setField on one of the other columns and the SELECT functions.
RowBad(rowIn) ==
    \/ \E c \in Fe1Columns : rowIn[c] \in BadValues
    \/ fFeFilters /\ RowFe1(rowIn) \in Fe1Throws
    \/ /\ RowKept(rowIn)
       /\ \/ \E c \in (1..fColumnCount) \ Fe1Columns : rowIn[c] \in BadValues
          \/ fFeSelects /\ Filtered(rowIn, fRowGroupOut) \in Fe3Throws

\* The row as it is delivered: as parsed, or evaluated and passed through
\* fFeMapping3.
Delivered(rowIn) ==
    IF fFeSelects
    THEN applyMapping(fFeMapping3, evaluate(Filtered(rowIn, fRowGroupOut)),
                      NewRow(fRowGroupDelivered))
    ELSE Filtered(rowIn, fRowGroupDelivered)

\* The calls of the job list builder before run().
SetOutputRowGroup ==
    /\ pc = "init" /\ fRowGroupOut = <<>>
    /\ fRowGroupOut' = job.out
    /\ fRowGroupDelivered' = job.out
    /\ UNCHANGED <<outDL, status, owner, result, job, fDelivery, fFeFilters, fFeSelects,
                   fRowGroupFe1, fRowGroupFe3, mappings, fEndOfResult, exec, reader>>

AddFcnExpGroup1 ==
    /\ pc = "init" /\ ~fFeFilters /\ job.fe1 # <<>>
    /\ fFeFilters' = TRUE
    /\ UNCHANGED <<outDL, status, owner, result, job, fDelivery, fFeSelects, rowGroups,
                   mappings, fEndOfResult, exec, reader>>

SetFE1Input ==
    /\ pc = "init" /\ fRowGroupFe1 = <<>> /\ job.fe1 # <<>>
    /\ fRowGroupFe1' = job.fe1
    /\ UNCHANGED <<outDL, status, owner, result, job, fDelivery, fFeFilters, fFeSelects,
                   fRowGroupOut, fRowGroupFe3, fRowGroupDelivered, mappings,
                   fEndOfResult, exec, reader>>

SetFcnExpGroup3 ==
    /\ pc = "init" /\ ~fFeSelects /\ job.fe3 # <<>>
    /\ fFeSelects' = TRUE
    /\ UNCHANGED <<outDL, status, owner, result, job, fDelivery, fFeFilters, rowGroups,
                   mappings, fEndOfResult, exec, reader>>

\* setFE23Output, after setOutputRowGroup: both set fRowGroupDelivered.
SetFE23Output ==
    /\ pc = "init" /\ fRowGroupFe3 = <<>> /\ job.fe3 # <<>>
    /\ fRowGroupOut # <<>>
    /\ fRowGroupFe3' = job.fe3
    /\ fRowGroupDelivered' = job.fe3
    /\ UNCHANGED <<outDL, status, owner, result, job, fDelivery, fFeFilters, fFeSelects,
                   fRowGroupOut, fRowGroupFe1, mappings, fEndOfResult, exec, reader>>

\* The job list builder has made all its calls.
Built ==
    /\ fRowGroupOut = job.out /\ fRowGroupFe1 = job.fe1 /\ fRowGroupFe3 = job.fe3
    /\ fFeFilters = (job.fe1 # <<>>) /\ fFeSelects = (job.fe3 # <<>>)

\* run(): the output list is looked up and the thread is started; the caller
\* of nextBand, or the next step, reads the list from now on.
Run ==
    /\ pc = "init" /\ Built
    /\ pc' = "create"
    /\ cpc' = IF fDelivery THEN "b_first" ELSE "reading"
    /\ UNCHANGED <<outDL, status, owner, setup, fEndOfResult, drz, fetched, rgData,
                   fRowsReturned, fRowsRetrieved, made, more, taken, bands, ended>>

-----------------------------------------------------------------------------
(* execute(): the step's thread.                                           *)

\* drizzle_create().
Create ==
    /\ pc = "create"
    /\ drz' = {"drizzle"}
    /\ pc' = Head(ClientCalls)
    /\ UNCHANGED <<outDL, status, owner, setup, fEndOfResult, fetched, rgData,
                   fRowsReturned, fRowsRetrieved, made, reader>>

\* drizzle_create() returns 0: handleMySqlError throws before the try block
\* is entered, and the exception leaves execute().
CreateFails ==
    /\ pc = "create"
    /\ pc' = "escaped"
    /\ UNCHANGED <<outDL, status, owner, setup, fEndOfResult, drz, fetched, rgData,
                   fRowsReturned, fRowsRetrieved, made, reader>>

\* One of the calls that connect, send the query and buffer its result.
ClientCall ==
    /\ pc \in Range(ClientCalls)
    /\ drz' = drz \cup Returns[pc]
    /\ pc' = After(pc)
    /\ UNCHANGED <<outDL, status, owner, setup, fEndOfResult, fetched, rgData,
                   fRowsReturned, fRowsRetrieved, made, reader>>

\* The call fails: handleMySqlError throws, the catch block tests the
\* status.
ClientCallFails ==
    /\ pc \in Range(ClientCalls)
    /\ pc' = Caught("status", "end")
    /\ UNCHANGED <<outDL, status, owner, setup, fEndOfResult, drz, fetched, rgData,
                   fRowsReturned, fRowsRetrieved, made, reader>>

\* A column of the WHERE functions that the query does not return.
NotProjected ==
    fFeFilters /\ \E i \in DOMAIN fRowGroupFe1 : fRowGroupFe1[i] \notin DOMAIN fColumnMap

\* makeMappings().
MakeMappings ==
    /\ pc = "mappings"
    /\ ~NotProjected
    /\ fFe1Column' = Fe1Column(IF fFeFilters THEN fRowGroupFe1 ELSE <<>>)
    /\ fFeMapping1' = IF fFeFilters THEN makeMapping(fRowGroupFe1, fRowGroupOut)
                                    ELSE fFeMapping1
    /\ fFeMapping3' = IF fFeSelects THEN makeMapping(fRowGroupOut, fRowGroupFe3)
                                    ELSE fFeMapping3
    /\ pc' = "rows"
    /\ UNCHANGED <<outDL, status, owner, result, job, fDelivery, fFeFilters, fFeSelects,
                   rowGroups, fEndOfResult, drz, fetched, rgData, fRowsReturned,
                   fRowsRetrieved, made, reader>>

\* makeMappings() throws "Column not projected."
MakeMappingsThrows ==
    /\ pc = "mappings"
    /\ NotProjected
    /\ pc' = Caught("status", "end")
    /\ UNCHANGED <<outDL, status, owner, setup, fEndOfResult, drz, fetched, rgData,
                   fRowsReturned, fRowsRetrieved, made, reader>>

\* while ((rowIn = drizzle_row_next(drzrp)) && status() == 0)
InRowLoop == pc = "rows" /\ fetched < Len(result) /\ status = 0

NextRow == result[fetched + 1]

RowLoopExit ==
    /\ pc = "rows"
    /\ ~(fetched < Len(result) /\ status = 0)
    /\ pc' = "final"
    /\ UNCHANGED <<outDL, status, owner, setup, fEndOfResult, drz, fetched, rgData,
                   fRowsReturned, fRowsRetrieved, made, reader>>

\* The WHERE functions are false of the row: continue.
RowRejected ==
    /\ InRowLoop
    /\ ~RowBad(NextRow) /\ ~RowKept(NextRow)
    /\ fetched' = fetched + 1
    /\ UNCHANGED <<outDL, status, owner, setup, fEndOfResult, pc, drz, rgData,
                   fRowsReturned, fRowsRetrieved, made, reader>>

\* Converting a value throws, or a function does.
RowThrows ==
    /\ InRowLoop
    /\ RowBad(NextRow)
    /\ fetched' = fetched + 1
    /\ pc' = "caught"
    /\ UNCHANGED <<outDL, status, owner, setup, fEndOfResult, drz, rgData, fRowsReturned,
                   fRowsRetrieved, made, reader>>

\* The catch block behind the row loop tests the status, which the head of
\* the loop found 0.
RowCaught ==
    /\ pc = "caught"
    /\ pc' = Caught("status", "end")
    /\ UNCHANGED <<outDL, status, owner, setup, fEndOfResult, drz, fetched, rgData,
                   fRowsReturned, fRowsRetrieved, made, reader>>

\* fOutputJobStepAssociation.status(...), after the test found the status 0.
SetStatus ==
    /\ pc = "status"
    /\ status' = ERR_CROSS_ENGINE_CONNECT
    /\ pc' = "end"
    /\ UNCHANGED <<outDL, owner, setup, fEndOfResult, drz, fetched, rgData,
                   fRowsReturned, fRowsRetrieved, made, reader>>

\* Faulty variant: addRow never inserts.
GroupFullNever(n) == FALSE

\* addRow: the row group is full when the count of rows returned is a
\* multiple of fRowsPerGroup.
GroupFull(n) == n % fRowsPerGroup = 0

\* The row is set into the row group (setField, applyMapping) and counted by
\* addRow; a row that fills the group makes addRow insert it.
AddRow ==
    /\ InRowLoop
    /\ ~RowBad(NextRow) /\ RowKept(NextRow)
    /\ fetched' = fetched + 1
    /\ fRowsReturned' = fRowsReturned + 1
    /\ rgData' = Append(rgData, Delivered(NextRow))
    /\ pc' = IF GroupFull(fRowsReturned') THEN "full" ELSE "rows"
    /\ UNCHANGED <<outDL, status, owner, setup, fEndOfResult, drz, fRowsRetrieved,
                   made, reader>>

\* addRow, the group is full: it is inserted, the thread waiting for room in
\* the list, and a new one is begun.
InsertFull ==
    /\ pc = "full"
    /\ HasRoom(outDL)
    /\ outDL' = Insert(outDL, rgData)
    /\ made' = Append(made, rgData)
    /\ rgData' = <<>>
    /\ pc' = "rows"
    /\ UNCHANGED <<status, owner, setup, fEndOfResult, drz, fetched, fRowsReturned,
                   fRowsRetrieved, reader>>

\* Faulty variant: the rows left after the last full group are not inserted.
InsertLastDropped ==
    /\ pc = "final"
    /\ fRowsRetrieved' = Len(result)
    /\ drz' = {}
    /\ pc' = "end"
    /\ UNCHANGED <<outDL, status, owner, setup, fEndOfResult, fetched, rgData,
                   fRowsReturned, made, reader>>

\* After the loop: the row group in work is inserted, full or not, and the
\* client library objects are freed.
InsertLast ==
    /\ pc = "final"
    /\ HasRoom(outDL)
    /\ outDL' = Insert(outDL, rgData)
    /\ made' = Append(made, rgData)
    /\ fRowsRetrieved' = Len(result)
    /\ drz' = {}
    /\ pc' = "end"
    /\ UNCHANGED <<status, owner, setup, fEndOfResult, fetched, rgData,
                   fRowsReturned, reader>>

\* Faulty variant: execute ends without ending its output list.
EndNoEndOfInput ==
    /\ pc = "end"
    /\ fEndOfResult' = TRUE
    /\ pc' = "done"
    /\ UNCHANGED <<outDL, status, owner, setup, drz, fetched, rgData, fRowsReturned,
                   fRowsRetrieved, made, reader>>

\* fEndOfResult = true; fOutputDL->endOfInput()
End ==
    /\ pc = "end"
    /\ fEndOfResult' = TRUE
    /\ outDL' = EndOfInput(outDL)
    /\ pc' = "done"
    /\ UNCHANGED <<status, owner, setup, drz, fetched, rgData, fRowsReturned,
                   fRowsRetrieved, made, reader>>

Execute ==
    \/ Create \/ CreateFails \/ ClientCall \/ ClientCallFails
    \/ MakeMappings \/ MakeMappingsThrows
    \/ RowLoopExit \/ RowRejected \/ RowThrows \/ RowCaught \/ SetStatus
    \/ AddRow \/ InsertFull \/ InsertLast \/ End

-----------------------------------------------------------------------------
(* nextBand(): one call runs from "b_first" to "b_ret".                    *)

\* more = fOutputDL->next(fOutputIterator, &rgDataOut)
NextOut ==
    /\ NextReady(outDL)
    /\ more' = More(outDL)
    /\ outDL' = AfterNext(outDL)

\* The band is loaded from the row group read, and rowCount is its number of
\* rows.
BandLoad ==
    /\ cpc = "b_first"
    /\ NextOut
    /\ more' /\ status = 0 /\ ~die
    /\ taken' = Append(taken, NextData(outDL))
    /\ cpc' = "b_ret"
    /\ UNCHANGED <<status, owner, setup, fEndOfResult, exec, bands, ended>>

\* Loading the band throws.
BandLoadThrows ==
    /\ cpc = "b_first"
    /\ NextOut
    /\ more' /\ status = 0 /\ ~die
    /\ cpc' = "b_caught"
    /\ UNCHANGED <<status, owner, setup, fEndOfResult, exec, taken, bands, ended>>

\* The catch block tests the status, sets it and goes on to read the list to
\* its end.
BandCaught ==
    /\ cpc = "b_caught"
    /\ cpc' = Caught("b_status", "b_drain")
    /\ UNCHANGED <<outDL, status, owner, setup, fEndOfResult, exec, more, taken, bands, ended>>

BandSetStatus ==
    /\ cpc = "b_status"
    /\ status' = ERR_IN_DELIVERY
    /\ cpc' = "b_drain"
    /\ UNCHANGED <<outDL, owner, setup, fEndOfResult, exec, more, taken, bands, ended>>

\* Faulty variant: the branch that ends the result is taken for a row group
\* that was read with no error.
BandEndsAnyway ==
    /\ cpc = "b_first"
    /\ NextOut
    /\ cpc' = "b_second"
    /\ UNCHANGED <<status, owner, setup, fEndOfResult, exec, taken, bands, ended>>

\* The list has ended, or the job has failed or was aborted: the result has
\* ended; "if (more) more = fOutputDL->next(...)" is still to come.
BandEnds ==
    /\ cpc = "b_first"
    /\ NextOut
    /\ ~(more' /\ status = 0 /\ ~die)
    /\ cpc' = "b_second"
    /\ UNCHANGED <<status, owner, setup, fEndOfResult, exec, taken, bands, ended>>

BandSecond ==
    /\ cpc = "b_second"
    /\ IF more THEN NextOut ELSE UNCHANGED <<outDL, more>>
    /\ fEndOfResult' = TRUE
    /\ cpc' = "b_ret"
    /\ UNCHANGED <<status, owner, setup, exec, taken, bands, ended>>

\* while (more) more = fOutputDL->next(...); fEndOfResult = true
BandDrain ==
    /\ cpc = "b_drain"
    /\ IF more THEN NextOut /\ UNCHANGED <<cpc, fEndOfResult>>
               ELSE cpc' = "b_ret" /\ fEndOfResult' = TRUE /\ UNCHANGED <<outDL, more>>
    /\ UNCHANGED <<status, owner, setup, exec, taken, bands, ended>>

\* The band loaded by this call, if it loaded one.
Loaded == IF Len(taken) > Len(bands) THEN Last(taken) ELSE <<>>

\* "if (fEndOfResult)": the empty band that carries the status is put in
\* place of what the byte stream holds; rowCount is returned, and the caller
\* asks for the next band unless it is 0.
BandReturn ==
    /\ cpc = "b_ret"
    /\ bands' = Append(bands, [rows     |-> IF fEndOfResult THEN <<>> ELSE Loaded,
                               rowCount |-> Len(Loaded)])
    /\ ended' = (Loaded = <<>>)
    /\ cpc' = IF ended' THEN "stopped" ELSE "b_first"
    /\ UNCHANGED <<outDL, status, owner, setup, fEndOfResult, exec, more, taken>>

NextBand ==
    \/ BandLoad \/ BandLoadThrows \/ BandCaught \/ BandSetStatus
    \/ BandEnds \/ BandSecond \/ BandDrain \/ BandReturn

-----------------------------------------------------------------------------
(* The environment.                                                        *)

\* The next step of the job reads the list to its end.
ReadNext ==
    /\ cpc = "reading"
    /\ NextOut
    /\ taken' = IF more' THEN Append(taken, NextData(outDL)) ELSE taken
    /\ ended' = ~more'
    /\ cpc' = IF more' THEN "reading" ELSE "stopped"
    /\ UNCHANGED <<status, owner, setup, fEndOfResult, exec, bands>>

\* Another step of the job fails: its catch block finds the status 0 ...
OtherStepCaught ==
    /\ other = "runs"
    /\ status = 0
    /\ other' = "caught"
    /\ UNCHANGED <<outDL, status, die, joined, setup, fEndOfResult, exec, reader>>

\* ... and sets it.
OtherStepFails ==
    /\ other = "caught"
    /\ status' = OtherErr
    /\ other' = "failed"
    /\ UNCHANGED <<outDL, die, joined, setup, fEndOfResult, exec, reader>>

\* The job is aborted.
Abort ==
    /\ ~die
    /\ die' = TRUE
    /\ UNCHANGED <<outDL, status, joined, other, setup, fEndOfResult, exec, reader>>

\* join(): waits for the thread run() has started.
Join ==
    /\ pc = "done" /\ ~joined
    /\ joined' = TRUE
    /\ UNCHANGED <<outDL, status, die, other, setup, fEndOfResult, exec, reader>>

\* The step as its constructor leaves it, but for fDelivery, which the job
\* builder sets on the step that delivers before it calls run().
Init ==
    /\ result \in Results
    /\ job \in Jobs
    /\ fDelivery \in BOOLEAN
    /\ fFeFilters = FALSE /\ fFeSelects = FALSE
    /\ fRowGroupOut = <<>> /\ fRowGroupFe1 = <<>> /\ fRowGroupFe3 = <<>>
    /\ fRowGroupDelivered = <<>>
    /\ fFe1Column = <<>> /\ fFeMapping1 = <<>> /\ fFeMapping3 = <<>>
    /\ made = <<>>
    /\ outDL = NewDL
    /\ status = 0
    /\ die = FALSE /\ joined = FALSE /\ other = "runs"
    /\ pc = "init"
    /\ drz = {}
    /\ fetched = 0
    /\ rgData = <<>>
    /\ fRowsReturned = 0 /\ fRowsRetrieved = 0
    /\ fEndOfResult = FALSE
    /\ cpc = "idle"
    /\ more = FALSE
    /\ taken = <<>> /\ bands = <<>>
    /\ ended = FALSE

Configure ==
    \/ SetOutputRowGroup \/ AddFcnExpGroup1 \/ SetFE1Input
    \/ SetFcnExpGroup3 \/ SetFE23Output

Next ==
    \/ Configure \/ Run \/ Join \/ Execute \/ NextBand \/ ReadNext
    \/ OtherStepCaught \/ OtherStepFails \/ Abort

Spec == Init /\ [][Next]_vars

\* Every thread that can take a step is scheduled and the job, once built,
\* is run; nothing obliges the job to fail or to be aborted, but a step that
\* is in its catch block goes on.
Fairness ==
    /\ WF_vars(Configure) /\ WF_vars(Run) /\ WF_vars(Join) /\ WF_vars(Execute)
    /\ WF_vars(NextBand) /\ WF_vars(ReadNext) /\ WF_vars(OtherStepFails)

FairSpec == Spec /\ Fairness

-----------------------------------------------------------------------------
(* Properties.                                                             *)

\* A row of fRowGroupDelivered: a field of a value, or the value of a
\* function.
Fields == {Field(v) : v \in Values} \cup {Unset}
DeliveredRow ==
    {r \in Seq(Fields \cup (Nat \X Seq(Fields))) :
        Len(r) = Len(fRowGroupDelivered)}

\* The members of the step and what its reader has.
StepTypeOK ==
    /\ IsDL(outDL, Seq(DeliveredRow))
    /\ {die, joined, fEndOfResult, fDelivery, fFeFilters, fFeSelects} \subseteq BOOLEAN
    /\ more \in BOOLEAN /\ ended \in BOOLEAN
    /\ pc \in {"init", "create", "escaped", "mappings", "rows", "caught", "status", "full",
               "final", "end", "done"} \cup Range(ClientCalls)
    /\ other \in {"runs", "caught", "failed"}
    /\ drz \subseteq {"drizzle", "con", "result"}
    /\ result \in Results /\ job \in Jobs
    /\ \A rg \in {fRowGroupOut, fRowGroupFe1, fRowGroupFe3, fRowGroupDelivered} :
           rg \in Seq(Nat)
    /\ \A m \in {fFe1Column, fFeMapping1, fFeMapping3} : m \in Seq(Nat)
    /\ fetched \in 0..Len(result)
    /\ rgData \in Seq(DeliveredRow) /\ Len(rgData) <= fRowsPerGroup
    /\ made \in Seq(Seq(DeliveredRow))
    /\ fRowsReturned \in 0..Len(result) /\ fRowsRetrieved \in 0..Len(result)
    /\ cpc \in {"idle", "reading", "b_first", "b_second", "b_caught", "b_status", "b_drain",
                "b_ret", "stopped"}
    /\ taken \in Seq(Seq(DeliveredRow))
    /\ bands \in Seq([rows : Seq(DeliveredRow), rowCount : Nat])

TypeOK ==
    /\ StepTypeOK
    /\ status \in {0, ERR_CROSS_ENGINE_CONNECT, ERR_IN_DELIVERY, OtherErr}

\* What the job means by a row of the result.  The field of the column
\* that has the key:
FieldOf(rowIn, key) == Field(rowIn[fColumnMap[key] + 1])

\* The WHERE functions are true of the fields of their columns:
Wanted(rowIn) ==
    job.fe1 # <<>> => [i \in DOMAIN job.fe1 |-> FieldOf(rowIn, job.fe1[i])] \in Fe1Passes

\* The row delivered has of every key the field of its column, or the value
\* the function of that key has of the columns of the query:
Meant(rowIn) ==
    LET keys == IF job.fe3 # <<>> THEN job.fe3 ELSE job.out
    IN  [i \in DOMAIN keys |->
            IF keys[i] \in DOMAIN fColumnMap THEN FieldOf(rowIn, keys[i])
            ELSE Fe3Value(keys[i], [c \in 1..fColumnCount |-> Field(rowIn[c])])]

Expected ==
    IF Range(job.fe1) \subseteq DOMAIN fColumnMap
    THEN [i \in DOMAIN SelectSeq(result, Wanted) |-> Meant(SelectSeq(result, Wanted)[i])]
    ELSE <<>>

ExecuteEnded == pc = "done"

\* The row groups are the rows of the query result of which the WHERE
\* functions are true, in the order of the result, each with the fields the
\* job names by their keys (execute() finds them by fFe1Column, fFeMapping1
\* and fFeMapping3, whatever the order of the columns in the row groups),
\* and cut at every fRowsPerGroup rows kept, whatever rows are rejected in
\* between: addRow inserts on every multiple of fRowsPerGroup, and only the
\* group execute() inserts after its loop, which may hold no row at all, is
\* shorter.  When execute() ends with the status still 0, all rows kept are
\* in the groups.
GroupsAreQueryResult ==
    /\ IsPrefix(FlattenSeq(made), Expected)
    /\ (ExecuteEnded /\ status = 0) => FlattenSeq(made) = Expected
    /\ \A i \in DOMAIN made :
           \/ Len(made[i]) = fRowsPerGroup
           \/ Len(made[i]) < fRowsPerGroup /\ i = Len(made) /\ pc \in {"end", "done"}

\* The reader is told that the result has ended only when it has: with the
\* status 0 and no abort, the reader that was told so (next() returned false,
\* or nextBand returned no rows) has taken from the list every row kept.
ReaderGotResult ==
    (ended /\ status = 0 /\ ~die) => FlattenSeq(taken) = Expected

\* nextBand returns the number of rows of the band it leaves in the byte
\* stream: a band that is returned with rowCount rows holds those rows.
BandHoldsItsRows ==
    \A i \in DOMAIN bands : Len(bands[i].rows) = bands[i].rowCount

\* The step's thread ends, so that join() returns, also when the job is
\* aborted: the reader leaves the list and the thread still inserts into it.
ThreadEndsAlways == <>(joined \/ pc = "escaped")

=============================================================================
