---------------------------- MODULE MCJobPipeline ----------------------------
(***************************************************************************)
(* Model of JobPipeline for TLC: the jobs, values and results of           *)
(* MCCrossEngineStep, and a HAVING step that keeps the rows whose first    *)
(* column is 1 and throws on a null in the third, behind the job without   *)
(* functions and the job with a function of the WHERE clause.  The job     *)
(* delivers the first column beside a constant.                            *)
(***************************************************************************)
EXTENDS JobPipeline, MCCrossEngineStep

MCHavingJobs == {j \in MCJobs : j.fe3 = <<>> /\ Len(j.fe1) <= 1 /\ 14 \notin Range(j.fe1)}

MCHavingCols == { <<"ConstantColumn", "SimpleColumn">> }

MCHavingPasses == {r \in QueryRows : r[1] = MCField(one)}
MCHavingThrows == {r \in QueryRows : r[3] = MCField(null)}
=============================================================================
