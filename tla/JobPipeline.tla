----------------------------- MODULE JobPipeline -----------------------------
(***************************************************************************)
(* A job of two steps: the cross-engine step (crossenginestep.cpp) and,    *)
(* behind it, the HAVING step (tuplehavingstep.cpp).  The steps share what *)
(* their job step associations hold: the data list the first inserts into  *)
(* and the second reads (fOutputDL of the one is fInputDL of the other)    *)
(* and the error status of the job.  Each step runs as its own module      *)
(* describes it; what the one module leaves to its environment, a reader   *)
(* that takes every row group or a producer that ends its list, is here    *)
(* what the other step does.                                               *)
(*                                                                         *)
(* The HAVING step is put behind the jobs of HavingJobs, which deliver the *)
(* columns of the query (no functions in the SELECT clause), when the      *)
(* cross-engine step does not deliver itself.  The other jobs run as in    *)
(* CrossEngineStep: the step delivers through nextBand, or a reader takes  *)
(* the list to its end.                                                    *)
(***************************************************************************)
EXTENDS CrossEngineStep

CONSTANTS
    HavingJobs,         \* the jobs that have a HAVING step
    HavingCols,         \* the jobInfo.deliveredCols the HAVING step is
                        \* initialized with
    HavingPasses,       \* the rows the HAVING expression is true of
    HavingThrows,       \* the rows on which evaluating it throws
    tupleHavingStepErr  \* the status the HAVING step reports

VARIABLES
    hOutDL,             \* the output list of the HAVING step
    hDelivery, jobInfo, hRowGroupOut, keyToIndexMap, hJoined,
    hpc, hMore, rgIn, rgOut, hRowsReturned, hEndOfResult,
    hBands, delivered, downDone

having == <<hOutDL, hDelivery, jobInfo, hRowGroupOut, keyToIndexMap, hJoined, hpc, hMore,
            rgIn, rgOut, hRowsReturned, hEndOfResult, hBands, delivered, downDone>>
jobVars == <<vars, having>>

\* The row group of the list between the steps: the columns of the query.
\* A row is the sequence of its fields, so that the offsets count fields.
QueryRowGroup ==
    [keys |-> [i \in 1..fColumnCount |-> ProjectSteps[i].tupleId],
     pos  |-> [i \in 1..fColumnCount + 1 |-> i - 1]]

QueryRows == [1..fColumnCount -> Fields]

ASSUME /\ HavingJobs \subseteq {j \in Jobs : j.fe3 = <<>>}
       /\ HavingPasses \subseteq QueryRows /\ HavingThrows \subseteq QueryRows

\* The HAVING step: its input is the list the cross-engine step inserts
\* into, its producer has produced the row groups inserted so far.
H == INSTANCE TupleHavingStep WITH
        RowGroupIn <- QueryRowGroup, DeliveredCols <- HavingCols, Rows <- QueryRows,
        Passes <- HavingPasses, Throws <- HavingThrows, Inputs <- {},
        UpstreamErr <- OtherErr,
        inDL <- outDL, input <- made, fed <- Len(made), upstream <- other,
        outDL <- hOutDL, fDelivery <- hDelivery, fRowGroupOut <- hRowGroupOut,
        joined <- hJoined, pc <- hpc, more <- hMore, fRowsReturned <- hRowsReturned,
        fEndOfResult <- hEndOfResult, bands <- hBands

\* The job has a HAVING step behind the cross-engine step.
Piped == ~fDelivery /\ job \in HavingJobs

\* A job without HAVING step has one that is never initialized.
PipelineInit ==
    /\ Init
    /\ H!Constructed
    /\ Piped \/ (~hDelivery /\ jobInfo = CHOOSE cols \in HavingCols : TRUE)

\* A step of the cross-engine step, of its reader or of the job.
Alone(A) == A /\ UNCHANGED having

\* A step of the HAVING step or of its consumer.
Behind(A) == Piped /\ UNCHANGED <<owner, setup, fEndOfResult, exec, reader>> /\ A

PipelineNext ==
    \/ Alone(Configure) \/ Alone(Run) \/ Alone(Join) \/ Alone(Execute)
    \/ Alone(NextBand) \/ Alone(~Piped /\ ReadNext)
    \/ Alone(OtherStepCaught) \/ Alone(OtherStepFails) \/ Alone(Abort)
    \/ Behind(H!Initialize) \/ Behind(H!Run) \/ Behind(H!Join)
    \/ Behind(H!Execute) \/ Behind(H!NextBand) \/ Behind(H!DownNext)

PipelineSpec == PipelineInit /\ [][PipelineNext]_jobVars

\* Every thread that can take a step is scheduled, the job builder makes its
\* calls and runs the steps, and the consumer of the job reads what it is
\* given; nothing obliges the job to fail or to be aborted, but a step that
\* is in its catch block goes on.
PipelineFairness ==
    /\ WF_jobVars(Alone(Configure)) /\ WF_jobVars(Alone(Run)) /\ WF_jobVars(Alone(Join))
    /\ WF_jobVars(Alone(Execute)) /\ WF_jobVars(Alone(NextBand))
    /\ WF_jobVars(Alone(~Piped /\ ReadNext)) /\ WF_jobVars(Alone(OtherStepFails))
    /\ WF_jobVars(Behind(H!Initialize)) /\ WF_jobVars(Behind(H!Run))
    /\ WF_jobVars(Behind(H!Join)) /\ WF_jobVars(Behind(H!Execute))
    /\ WF_jobVars(Behind(H!NextBand)) /\ WF_jobVars(Behind(H!DownNext))

FairPipeline == PipelineSpec /\ PipelineFairness

-----------------------------------------------------------------------------
(* Properties.                                                             *)

PipelineTypeOK ==
    /\ StepTypeOK
    /\ H!StepTypeOK
    /\ status \in {0, ERR_CROSS_ENGINE_CONNECT, ERR_IN_DELIVERY, OtherErr,
                   tupleHavingStepErr}

\* What HAVING leaves of the rows of a result, in order.
HavingOf(rows) ==
    LET kept == SelectSeq(rows, LAMBDA r : r \in HavingPasses)
    IN  [i \in DOMAIN kept |-> H!DeliveredPart(kept[i])]

\* The job delivers its result.  Behind a HAVING step the rows handed on
\* are, at any moment, the first of the rows the job means that satisfy
\* HAVING, cut to the columns delivered, and all of them when the step has
\* ended with the status 0: no row group is lost or read twice between
\* addRow's insert() in one thread and the look-ahead next() of execute()
\* or the loop of nextBand() in the other.  In a job without HAVING step the
\* reader that was told of the end has taken every row (ReaderGotResult).
JobDeliversResult ==
    IF Piped
    THEN /\ IsPrefix(FlattenSeq(H!Output), HavingOf(Expected))
         /\ (H!Ended /\ status = 0) => FlattenSeq(H!Output) = HavingOf(Expected)
    ELSE ReaderGotResult

\* The reader at the end of the job: the caller of nextBand, the reader of
\* the list, or the HAVING step with its consumer.
ReaderEnded ==
    IF Piped THEN H!Ended /\ hJoined /\ (~hDelivery => downDone)
             ELSE cpc = "stopped"

\* The reader takes the list of the cross-engine step to its end whatever
\* happens: next() until it returns false, or execute() of the HAVING step.
ReaderDrains == ~fDelivery /\ (Piped => ~hDelivery)

\* The job ends.  Its reader comes to an end on every path, the paths
\* through the catch blocks of both steps included: execute() of the
\* cross-engine step ends its list whatever was thrown, and the HAVING step
\* ends its own.  And behind a reader that drains the list the thread of
\* the cross-engine step is never left waiting in insert(): it ends and
\* join() returns.  (Not when drizzle_create fails: that exception leaves
\* execute() uncaught.)
PipelineEnds ==
    /\ <>(pc = "escaped" \/ ReaderEnded)
    /\ ReaderDrains => <>(pc = "escaped" \/ joined)

=============================================================================
