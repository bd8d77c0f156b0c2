--------------------------- MODULE TupleHavingStep ---------------------------
(***************************************************************************)
(* The HAVING step of a job (dbcon/joblist/tuplehavingstep.cpp).  It reads *)
(* row groups from its input data list, keeps of every group the rows that *)
(* satisfy the HAVING expression, and passes the result on: in its own     *)
(* thread to the output data list (execute), or, when it is the step that  *)
(* delivers the result, band by band to the caller of nextBand.            *)
(*                                                                         *)
(* Before the step runs the job builder calls initialize() with the row    *)
(* group of the input and the columns the job delivers: the step's output  *)
(* row group is the first n columns of the input, n the number of          *)
(* delivered columns that are not constants.  A row is the sequence of its *)
(* bytes, a row group of the model the sequence of its rows.               *)
(*                                                                         *)
(* The step upstream and the consumer downstream are the environment: the  *)
(* producer inserts its row groups and then ends the input; any step of    *)
(* the job may set the job's error status at any time.  A step tests the   *)
(* status and sets it in two calls, and another thread may run between     *)
(* them.                                                                   *)
(***************************************************************************)
EXTENDS Naturals, Sequences, SequencesExt, FiniteSetsExt, RowGroupDL

CONSTANTS
    RowGroupIn,         \* the row group of the input: [keys, pos], the key of
                        \* every column and the offsets of the columns in a
                        \* row, the end of the last one behind them
    DeliveredCols,      \* the jobInfo.deliveredCols checked: each the kinds
                        \* of the columns the job delivers
    Rows,               \* the rows that can occur
    Passes,             \* the rows the HAVING expression is true of
    Throws,             \* the rows on which evaluating the expression throws
    Inputs,             \* the inputs checked: each the row groups the step
                        \* upstream produces, in order
    tupleHavingStepErr, \* the status this step reports
    UpstreamErr         \* the status another step of the job reports

\* The job builder puts the columns the job delivers first.  With more of
\* them than the input has columns, initialize() would read past the end of
\* the input's vectors.
NonConstant(cols) == Len(SelectSeq(cols, LAMBDA col : col # "ConstantColumn"))

ASSUME /\ Len(RowGroupIn.pos) = Len(RowGroupIn.keys) + 1
       /\ \A r \in Rows : Len(r) = Last(RowGroupIn.pos)
       /\ \A cols \in DeliveredCols : NonConstant(cols) <= Len(RowGroupIn.keys)
       /\ Passes \subseteq Rows /\ Throws \subseteq Rows
       /\ Inputs \subseteq Seq(Seq(Rows))
       /\ {tupleHavingStepErr, UpstreamErr} \subseteq Nat \ {0}

VARIABLES
    inDL,           \* fInputDL
    outDL,          \* fOutputDL
    status,         \* the error status the job's step associations share
    fDelivery,      \* the step delivers the result through nextBand
    jobInfo,        \* the deliveredCols initialize() is called with
    fRowGroupOut,   \* the layout of the output: [keys, pos]
    keyToIndexMap,  \* what initialize() hands to updateInputIndex
    joined,         \* join() has returned
    pc,             \* where the step's thread (or the caller of nextBand) is
    more,           \* the local "more"
    rgIn,           \* the row group in rgDataIn
    rgOut,          \* the row group in rgDataOut
    fRowsReturned,
    fEndOfResult,
    input,          \* the row groups the step upstream produces
    fed,            \* number of row groups the producer has inserted
    upstream,       \* where the step upstream is with its own error
    bands,          \* history: the bands nextBand returned
    delivered,      \* history: the row groups the consumer took from outDL
    downDone        \* the consumer has seen the end of outDL

step == <<pc, more, rgIn, rgOut, fRowsReturned, fEndOfResult>>
producer == <<fed, upstream>>
\* What the job builder gives the step before it runs.
built == <<input, fDelivery, jobInfo, fRowGroupOut, keyToIndexMap>>
vars == <<inDL, outDL, status, built, joined, step, producer, bands, delivered, downDone>>

-----------------------------------------------------------------------------
\* The first index of every key of the input, counted from 0.
KeyToIndexMap(keys) ==
    [k \in Range(keys) |-> Min({i \in DOMAIN keys : keys[i] = k}) - 1]

\* Faulty variant: the output has the layout of the input.
OutLayoutOfInput(rg, n) == rg

\* The first n columns of a row group: n keys, and n + 1 offsets.
OutLayout(rg, n) ==
    [keys |-> SubSeq(rg.keys, 1, n), pos |-> SubSeq(rg.pos, 1, n + 1)]

\* initialize(), called once before run().
Initialize ==
    /\ pc = "new"
    /\ keyToIndexMap' = KeyToIndexMap(RowGroupIn.keys)
    /\ fRowGroupOut' = OutLayout(RowGroupIn, NonConstant(jobInfo))
    /\ pc' = "init"
    /\ UNCHANGED <<input, fDelivery, jobInfo, joined, inDL, outDL, status, more, rgIn, rgOut,
                   fRowsReturned, fEndOfResult, producer, bands, delivered, downDone>>

\* The rows of a group fFeInstance->evaluate is true of.
Kept(rg) == SelectSeq(rg, LAMBDA r : r \in Passes)

\* fRowOut.getSize(): a row ends where the column behind its last would
\* begin.
RowSize(rg) == Last(rg.pos)

\* doHavingFilters: of the rows of the input group the expression is true
\* of, the bytes a row of the output has.
HavingFilter(rg) ==
    [i \in DOMAIN Kept(rg) |-> SubSeq(Kept(rg)[i], 1, RowSize(fRowGroupOut))]

\* FuncExp::evaluate throws on a row of the group.
FilterThrows(rg) == \E i \in DOMAIN rg : rg[i] \in Throws

\* catch: "if (fOutputJobStepAssociation.status() == 0)", the test of the
\* status all steps share.  The call that sets it is a step of its own
\* (SetStatus).
Caught(unset, set) == IF status = 0 THEN unset ELSE set

\* more = fInputDL->next(fInputIterator, &rgDataIn)
NextIn ==
    /\ NextReady(inDL)
    /\ more' = More(inDL)
    /\ rgIn' = IF More(inDL) THEN NextData(inDL) ELSE rgIn
    /\ inDL' = AfterNext(inDL)

\* run(): the data lists are looked up; a step that does not deliver starts
\* its thread, a step that delivers waits for nextBand.
Run ==
    /\ pc = "init"
    /\ pc' = IF fDelivery THEN "n_first" ELSE "x_first"
    /\ UNCHANGED <<built, joined, inDL, outDL, status, more, rgIn, rgOut, fRowsReturned,
                   fEndOfResult, producer, bands, delivered, downDone>>

\* join(): waits for the thread run() has started; a step that delivers
\* has none.
Join ==
    /\ pc \notin {"new", "init"}
    /\ ~joined
    /\ fDelivery \/ pc = "done"
    /\ joined' = TRUE
    /\ UNCHANGED <<built, inDL, outDL, status, step, producer, bands, delivered, downDone>>

-----------------------------------------------------------------------------
(* execute(): the step's thread.                                           *)

\* while (more && !fEndOfResult)
ExecLoop(m, e) == IF m /\ ~e THEN "x_filter" ELSE "x_drain"

\* The first next(), and "if (!more && 0 < status) fEndOfResult = true".
ExecFirst ==
    /\ pc = "x_first"
    /\ NextIn
    /\ fEndOfResult' = (~more' /\ status > 0)
    /\ pc' = ExecLoop(more', fEndOfResult')
    /\ UNCHANGED <<built, joined, outDL, status, rgOut, fRowsReturned, producer, bands, delivered, downDone>>

\* doHavingFilters on the group read last.
ExecFilter ==
    /\ pc = "x_filter"
    /\ ~FilterThrows(rgIn)
    /\ rgOut' = HavingFilter(rgIn)
    /\ fRowsReturned' = fRowsReturned + Len(rgOut')
    /\ pc' = "x_next"
    /\ UNCHANGED <<built, joined, inDL, outDL, status, more, rgIn, fEndOfResult, producer, bands,
                   delivered, downDone>>

\* The expression throws: the catch block tests the status and the loop is
\* left for the drain.
ExecFilterThrows ==
    /\ pc = "x_filter"
    /\ FilterThrows(rgIn)
    /\ pc' = Caught("x_status", "x_drain")
    /\ UNCHANGED <<built, joined, inDL, outDL, status, more, rgIn, rgOut, fRowsReturned,
                   fEndOfResult, producer, bands, delivered, downDone>>

\* fOutputJobStepAssociation.status(tupleHavingStepErr), in the catch block
\* of execute() or of nextBand(), after the test found the status 0.
SetStatus ==
    /\ pc \in {"x_status", "n_status"}
    /\ status' = tupleHavingStepErr
    /\ pc' = IF pc = "x_status" THEN "x_drain" ELSE "n_drain"
    /\ UNCHANGED <<built, joined, inDL, outDL, more, rgIn, rgOut, fRowsReturned, fEndOfResult,
                   producer, bands, delivered, downDone>>

\* The next group is read before the filtered one is passed on; on an error
\* status the filtered group is dropped.
ExecNext ==
    /\ pc = "x_next"
    /\ NextIn
    /\ fEndOfResult' = (status > 0)
    /\ pc' = IF status > 0 THEN "x_drain" ELSE "x_insert"
    /\ UNCHANGED <<built, joined, outDL, status, rgOut, fRowsReturned, producer, bands, delivered, downDone>>

\* Faulty variant: the group is filtered after the next one was read.
ExecInsertAfterNext ==
    /\ pc = "x_insert"
    /\ HasRoom(outDL)
    /\ outDL' = Insert(outDL, HavingFilter(rgIn))
    /\ pc' = ExecLoop(more, fEndOfResult)
    /\ UNCHANGED <<built, joined, inDL, status, more, rgIn, rgOut, fRowsReturned, fEndOfResult,
                   producer, bands, delivered, downDone>>

\* fOutputDL->insert(rgDataOut)
ExecInsert ==
    /\ pc = "x_insert"
    /\ HasRoom(outDL)
    /\ outDL' = Insert(outDL, rgOut)
    /\ pc' = ExecLoop(more, fEndOfResult)
    /\ UNCHANGED <<built, joined, inDL, status, more, rgIn, rgOut, fRowsReturned, fEndOfResult,
                   producer, bands, delivered, downDone>>

\* while (more) more = fInputDL->next(...)
ExecDrain ==
    /\ pc = "x_drain"
    /\ more
    /\ NextIn
    /\ UNCHANGED <<built, joined, outDL, status, pc, rgOut, fRowsReturned, fEndOfResult, producer,
                   bands, delivered, downDone>>

\* Faulty variant: execute ends without reading the rest of its input.
ExecEndNoDrain ==
    /\ pc = "x_drain"
    /\ fEndOfResult' = TRUE
    /\ outDL' = EndOfInput(outDL)
    /\ pc' = "done"
    /\ UNCHANGED <<built, joined, inDL, status, more, rgIn, rgOut, fRowsReturned, producer, bands,
                   delivered, downDone>>

\* Faulty variant: execute ends without ending its output list.
ExecEndNoEndOfInput ==
    /\ pc = "x_drain"
    /\ ~more
    /\ fEndOfResult' = TRUE
    /\ pc' = "done"
    /\ UNCHANGED <<built, joined, inDL, outDL, status, more, rgIn, rgOut, fRowsReturned, producer,
                   bands, delivered, downDone>>

\* fEndOfResult = true; fOutputDL->endOfInput()
ExecEnd ==
    /\ pc = "x_drain"
    /\ ~more
    /\ fEndOfResult' = TRUE
    /\ outDL' = EndOfInput(outDL)
    /\ pc' = "done"
    /\ UNCHANGED <<built, joined, inDL, status, more, rgIn, rgOut, fRowsReturned, producer, bands,
                   delivered, downDone>>

Execute ==
    \/ ExecFirst \/ ExecFilter \/ ExecFilterThrows \/ ExecNext \/ ExecInsert
    \/ ExecDrain \/ ExecEnd
    \/ pc = "x_status" /\ SetStatus

-----------------------------------------------------------------------------
(* nextBand(): one call runs from "n_first" to "n_ret".                    *)

\* The first next() of a call, and "if (!more || 0 < status) fEndOfResult =
\* true".
BandFirst ==
    /\ pc = "n_first"
    /\ NextIn
    /\ fEndOfResult' = (fEndOfResult \/ ~more' \/ status > 0)
    /\ rgOut' = <<>>
    /\ pc' = "n_loop"
    /\ UNCHANGED <<built, joined, outDL, status, fRowsReturned, producer, bands, delivered, downDone>>

\* while (more && !fEndOfResult && emptyRowGroup)
InBandLoop == pc = "n_loop" /\ more /\ ~fEndOfResult

BandLoopExit ==
    /\ pc = "n_loop"
    /\ ~(more /\ ~fEndOfResult)
    /\ pc' = "n_ret"
    /\ UNCHANGED <<built, joined, inDL, outDL, status, more, rgIn, rgOut, fRowsReturned,
                   fEndOfResult, producer, bands, delivered, downDone>>

\* An error status seen inside the loop: the input is read to its end.
BandStatusDrain ==
    /\ InBandLoop
    /\ status > 0
    /\ pc' = "n_drain"
    /\ UNCHANGED <<built, joined, inDL, outDL, status, more, rgIn, rgOut, fRowsReturned,
                   fEndOfResult, producer, bands, delivered, downDone>>

\* No error status: the group goes to the filter.
BandStatusOk ==
    /\ InBandLoop
    /\ status = 0
    /\ pc' = "n_filter"
    /\ UNCHANGED <<built, joined, inDL, outDL, status, more, rgIn, rgOut, fRowsReturned,
                   fEndOfResult, producer, bands, delivered, downDone>>

\* Faulty variant: a group of which no row is kept is returned as a band.
BandFilterNoSkip ==
    /\ pc = "n_filter"
    /\ ~FilterThrows(rgIn)
    /\ rgOut' = HavingFilter(rgIn)
    /\ fRowsReturned' = fRowsReturned + Len(rgOut')
    /\ pc' = "n_ret"
    /\ UNCHANGED <<built, joined, inDL, outDL, status, more, rgIn, fEndOfResult, producer, bands,
                   delivered, downDone>>

\* doHavingFilters; a group with rows left ends the loop, an empty one makes
\* the loop read the next group.
BandFilter ==
    /\ pc = "n_filter"
    /\ ~FilterThrows(rgIn)
    /\ rgOut' = HavingFilter(rgIn)
    /\ fRowsReturned' = fRowsReturned + Len(rgOut')
    /\ pc' = IF rgOut' # <<>> THEN "n_ret" ELSE "n_next"
    /\ UNCHANGED <<built, joined, inDL, outDL, status, more, rgIn, fEndOfResult, producer, bands,
                   delivered, downDone>>

\* The expression throws: the catch block tests the status, sets it, reads
\* the input to its end and sets fEndOfResult.
BandFilterThrows ==
    /\ pc = "n_filter"
    /\ FilterThrows(rgIn)
    /\ fEndOfResult' = TRUE
    /\ pc' = Caught("n_status", "n_drain")
    /\ UNCHANGED <<built, joined, inDL, outDL, status, more, rgIn, rgOut, fRowsReturned,
                   producer, bands, delivered, downDone>>

BandNext ==
    /\ pc = "n_next"
    /\ NextIn
    /\ pc' = "n_loop"
    /\ UNCHANGED <<built, joined, outDL, status, rgOut, fRowsReturned, fEndOfResult, producer, bands,
                   delivered, downDone>>

\* while (more) more = fInputDL->next(...), then out of the loop.
BandDrain ==
    /\ pc = "n_drain"
    /\ IF more THEN NextIn /\ UNCHANGED pc
               ELSE pc' = "n_ret" /\ UNCHANGED <<inDL, more, rgIn>>
    /\ UNCHANGED <<built, joined, outDL, status, rgOut, fRowsReturned, fEndOfResult, producer, bands,
                   delivered, downDone>>

\* "if (!more) fEndOfResult = true", the empty band that carries the status
\* when the result has ended, and the return of the row count.  The caller
\* asks for the next band unless this one has no rows.
BandReturn ==
    /\ pc = "n_ret"
    /\ fEndOfResult' = (fEndOfResult \/ ~more)
    /\ bands' = Append(bands, IF fEndOfResult'
                              THEN [rows |-> <<>>, last |-> TRUE, status |-> status]
                              ELSE [rows |-> rgOut, last |-> FALSE, status |-> 0])
    /\ pc' = IF fEndOfResult' \/ rgOut = <<>> THEN "done" ELSE "n_first"
    /\ UNCHANGED <<built, joined, inDL, outDL, status, more, rgIn, rgOut, fRowsReturned, producer,
                   delivered, downDone>>

NextBand ==
    \/ BandFirst \/ BandLoopExit \/ BandStatusDrain \/ BandStatusOk \/ BandFilter
    \/ BandFilterThrows \/ BandNext \/ BandDrain \/ BandReturn
    \/ pc = "n_status" /\ SetStatus

-----------------------------------------------------------------------------
(* The environment.                                                        *)

\* The step upstream inserts its next row group.
UpInsert ==
    /\ fed < Len(input)
    /\ HasRoom(inDL)
    /\ inDL' = Insert(inDL, input[fed + 1])
    /\ fed' = fed + 1
    /\ UNCHANGED <<built, joined, outDL, status, step, upstream, bands, delivered, downDone>>

\* The step upstream has inserted all its row groups and ends its output.
UpEnd ==
    /\ fed = Len(input)
    /\ ~inDL.eoi
    /\ inDL' = EndOfInput(inDL)
    /\ UNCHANGED <<built, joined, outDL, status, step, producer, bands, delivered, downDone>>

\* Another step of the job fails: its catch block finds the status 0 ...
UpCaught ==
    /\ upstream = "runs"
    /\ status = 0
    /\ upstream' = "caught"
    /\ UNCHANGED <<built, joined, inDL, outDL, status, step, fed, bands, delivered, downDone>>

\* ... and sets it.
UpFail ==
    /\ upstream = "caught"
    /\ status' = UpstreamErr
    /\ upstream' = "failed"
    /\ UNCHANGED <<built, joined, inDL, outDL, step, fed, bands, delivered, downDone>>

\* The consumer of the output data list reads to its end.
DownNext ==
    /\ ~downDone
    /\ NextReady(outDL)
    /\ outDL' = AfterNext(outDL)
    /\ delivered' = IF More(outDL) THEN Append(delivered, NextData(outDL)) ELSE delivered
    /\ downDone' = ~More(outDL)
    /\ UNCHANGED <<built, joined, inDL, status, step, producer, bands>>

\* The step as its constructor leaves it, but for fDelivery, which the job
\* builder sets on the step that delivers before it calls run().
Constructed ==
    /\ fDelivery \in BOOLEAN
    /\ jobInfo \in DeliveredCols
    /\ fRowGroupOut = [keys |-> <<>>, pos |-> <<>>]
    /\ keyToIndexMap = <<>>
    /\ joined = FALSE
    /\ outDL = NewDL
    /\ pc = "new"
    /\ more = FALSE
    /\ rgIn = <<>> /\ rgOut = <<>>
    /\ fRowsReturned = 0
    /\ fEndOfResult = FALSE
    /\ bands = <<>> /\ delivered = <<>>
    /\ downDone = FALSE

\* The job before it runs: the step, its producer and an empty input list.
Init ==
    /\ Constructed
    /\ input \in Inputs /\ fed = 0 /\ upstream = "runs"
    /\ inDL = NewDL
    /\ status = 0

Next ==
    \/ Initialize \/ Run \/ Join \/ Execute \/ NextBand
    \/ UpInsert \/ UpEnd \/ UpCaught \/ UpFail \/ DownNext

Spec == Init /\ [][Next]_vars

\* Every thread that can take a step is scheduled; nothing obliges another
\* step of the job to fail, but one that is in its catch block goes on.
Fairness ==
    /\ WF_vars(Initialize) /\ WF_vars(Run) /\ WF_vars(Join)
    /\ WF_vars(Execute) /\ WF_vars(NextBand)
    /\ WF_vars(UpInsert) /\ WF_vars(UpEnd) /\ WF_vars(UpFail) /\ WF_vars(DownNext)

FairSpec == Spec /\ Fairness

-----------------------------------------------------------------------------
(* Properties.                                                             *)

PcValues == {"new", "init", "x_first", "x_filter", "x_next", "x_insert", "x_status", "x_drain",
             "n_first", "n_loop", "n_filter", "n_next", "n_status", "n_drain", "n_ret",
             "done"}

\* The rows of the output: the first bytes of a row of the input.
OutRows == {SubSeq(r, 1, n) : r \in Rows, n \in 0..Last(RowGroupIn.pos)}

Layout == [keys : Seq(Nat), pos : Seq(Nat)]

Band == [rows : Seq(OutRows), last : BOOLEAN, status : Nat]

\* The members of the step and what its consumer has.
StepTypeOK ==
    /\ IsDL(outDL, Seq(OutRows))
    /\ pc \in PcValues
    /\ {more, fEndOfResult, fDelivery, downDone, joined} \subseteq BOOLEAN
    /\ jobInfo \in DeliveredCols
    /\ fRowGroupOut \in Layout /\ Len(fRowGroupOut.keys) <= Len(RowGroupIn.keys)
    /\ DOMAIN keyToIndexMap \subseteq Range(RowGroupIn.keys)
    /\ rgIn \in Seq(Rows) /\ rgOut \in Seq(OutRows)
    /\ fRowsReturned \in Nat
    /\ bands \in Seq(Band)
    /\ delivered \in Seq(Seq(OutRows))

TypeOK ==
    /\ StepTypeOK
    /\ IsDL(inDL, Seq(Rows))
    /\ status \in {0, tupleHavingStepErr, UpstreamErr}
    /\ input \in Inputs
    /\ fed \in 0..Len(input)
    /\ upstream \in {"runs", "caught", "failed"}

\* What the step hands on: the row groups inserted into the output list (read
\* or not yet read by the consumer), or the rows of the bands returned.
Output == IF fDelivery THEN [i \in DOMAIN bands |-> bands[i].rows]
                       ELSE delivered \o outDL.buf

\* Of a row, the bytes in front of its columns and the columns the job
\* delivers from this step: as many as deliveredCols has columns that are
\* no constants.
DeliveredPart(r) ==
    SubSeq(r, 1, RowGroupIn.pos[1]) \o
    FlattenSeq([col \in 1..NonConstant(jobInfo) |->
                   SubSeq(r, RowGroupIn.pos[col] + 1, RowGroupIn.pos[col + 1])])

Filtered ==
    [i \in DOMAIN input |->
        [j \in DOMAIN Kept(input[i]) |-> DeliveredPart(Kept(input[i])[j])]]

Ended == pc = "done"

\* The rows handed on are the rows of the input that satisfy HAVING, each cut
\* to the columns the job delivers (initialize() takes as many offsets of the
\* input as doHavingFilters needs to copy them), in input
\* order, none lost and none repeated across the look-ahead of execute() (the
\* next group is read before the filtered one is inserted) and the skipping
\* of empty groups in nextBand(); and when the step ends with no error status
\* it has handed on all of them.
OutputIsFilteredInput ==
    /\ IsPrefix(FlattenSeq(Output), FlattenSeq(Filtered))
    /\ (Ended /\ status = 0) => FlattenSeq(Output) = FlattenSeq(Filtered)

\* nextBand() "send[s] an empty / error band" only to end the result: a band
\* without rows is the last band, it is marked so, and it carries the job's
\* status; groups of which no row is kept are skipped, not returned.
EmptyBandEndsResult ==
    \A i \in DOMAIN bands :
        bands[i].rows = <<>> => bands[i].last /\ i = Len(bands) /\ Ended

\* The first error of a job is the one reported: a status that is set is
\* never replaced.  The catch blocks of execute() and nextBand() test
\* status() == 0 before they call status(tupleHavingStepErr) for that; the
\* catch block of another step's thread does the same between the two calls.
FirstErrorKept == [][status # 0 => status' = status]_vars

Drained == inDL.eoi /\ inDL.buf = <<>>

\* execute() never leaves its producer waiting: whatever happens (an error
\* status, an exception in the filter), it reads the input list to its end
\* ("while (more) more = fInputDL->next(...)"), so that the step upstream
\* gets all its inserts done and ends.
ExecuteDrainsInput == <>(fDelivery \/ Drained)

\* The same of every step, the one that delivers through nextBand included.
InputDrained == <>Drained

\* The step ends, join() returns, and in its own thread the step ends its
\* output list so that the consumer ends too.
StepEnds == <>(Ended /\ joined /\ (~fDelivery => downDone))

=============================================================================
