-------------------------- MODULE CrossEngineQuery --------------------------
(***************************************************************************)
(* The query a CrossEngineStep sends to mysqld (crossenginestep.cpp):      *)
(* the job list builder hands the step the filtering job steps (setBPP)    *)
(* and the projected columns (setProjectBPP) of the table, and execute()   *)
(* asks makeQuery() for the statement.  The members the calls work on are  *)
(* a value; a clause is its sequence of words, a filter and a name are     *)
(* one word.  PureFunctions evaluates a sequence of calls and checks the   *)
(* statement against what the job steps mean.                              *)
(***************************************************************************)
EXTENDS Naturals, Sequences, SequencesExt, TLC

CONSTANT Empty      \* the text of a filter that has none

BOP_AND == "AND"
BOP_OR  == "OR"

\* The job steps whose filters setBPP takes, in the order of its casts.
FilterSteps ==
    {"pColStep", "pColScanStep", "pDictionaryStep", "pDictionaryScan", "FilterStep"}

\* The members after the constructor; crashed says that a call has read
\* through a null pointer.
NewQuery(fTable, fAlias) ==
    [fTable |-> fTable, fAlias |-> fAlias, fSelectClause |-> <<>>,
     fWhereClause |-> <<>>, fColumnMap |-> <<>>, fColumnCount |-> 0,
     crashed |-> FALSE]

\* The loop of addFilterStr: the texts that are not empty, bop between them.
RECURSIVE filterStr(_, _)
filterStr(f, bop) ==
    IF f = <<>> THEN <<>>
    ELSE LET before == filterStr(Front(f), bop)
         IN  IF Last(f) = Empty THEN before
             ELSE IF before # <<>> THEN before \o <<bop, Last(f)>>
             ELSE <<Last(f)>>

\* Faulty variant: the filters of a step are added without parentheses.
addFilterStrBare(s, f, bop) ==
    IF filterStr(f, bop) = <<>> THEN s
    ELSE [s EXCEPT !.fWhereClause =
             @ \o <<IF @ # <<>> THEN "AND" ELSE "WHERE">> \o filterStr(f, bop)]

addFilterStr(s, f, bop) ==
    IF filterStr(f, bop) = <<>> THEN s
    ELSE [s EXCEPT !.fWhereClause =
             @ \o <<IF @ # <<>> THEN "AND" ELSE "WHERE", "(">>
               \o filterStr(f, bop) \o <<")">>]

\* setBPP(jobStep): a jobStep is [step, BOP, filters].  For a
\* pDictionaryScan the operator is read through pds, which the cast before
\* has left null.
setBPP(s, jobStep) ==
    CASE jobStep.step \in {"pColStep", "pColScanStep", "pDictionaryStep"} ->
            addFilterStr(s, jobStep.filters, jobStep.BOP)
      [] jobStep.step = "pDictionaryScan" -> [s EXCEPT !.crashed = TRUE]
      [] jobStep.step = "FilterStep" -> addFilterStr(s, jobStep.filters, BOP_AND)
      [] OTHER -> s

\* Faulty variant: the column count is advanced before it is entered.
setProjectBPPCountFirst(s, jobStep1) ==
    [s EXCEPT !.fColumnMap    = (jobStep1.tupleId :> s.fColumnCount + 1) @@ @,
              !.fColumnCount  = @ + 1,
              !.fSelectClause = @ \o <<IF @ # <<>> THEN "," ELSE "SELECT",
                                       jobStep1.name>>]

\* setProjectBPP(jobStep1, jobStep2): a jobStep1 is [tupleId, name].
setProjectBPP(s, jobStep1) ==
    [s EXCEPT !.fColumnMap    = (jobStep1.tupleId :> s.fColumnCount) @@ @,
              !.fColumnCount  = @ + 1,
              !.fSelectClause = @ \o <<IF @ # <<>> THEN "," ELSE "SELECT",
                                       jobStep1.name>>]

makeQuery(s) ==
    s.fSelectClause \o <<"FROM", s.fTable>>
        \o (IF s.fTable # s.fAlias THEN <<s.fAlias>> ELSE <<>>)
        \o s.fWhereClause

\* The step after the calls of the job list builder, each a
\* [call, jobStep]; a step that has crashed takes no further call.
RECURSIVE Built(_, _)
Built(s, calls) ==
    IF calls = <<>> \/ s.crashed THEN s
    ELSE Built(IF Head(calls).call = "setBPP" THEN setBPP(s, Head(calls).jobStep)
               ELSE setProjectBPP(s, Head(calls).jobStep),
               Tail(calls))
=============================================================================
