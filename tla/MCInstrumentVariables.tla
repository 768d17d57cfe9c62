------------------------ MODULE MCInstrumentVariables ------------------------
(***************************************************************************)
(* Run 2 is filed for experiment E.  The script has one variable or two.   *)
(* The table is empty, or has the defaults and an edited set from run 1 on,*)
(* or edited rows of the experiment, copied from the defaults, and a set   *)
(* that tracks the script from run 3 on.                                   *)
(***************************************************************************)
EXTENDS InstrumentVariables
CONSTANTS X, Y, E

FiledRuns == {2}
ExperimentOf == [run \in FiledRuns |-> E]
AllScripts == {{<<X, 1>>}, {<<X, 1>>, <<Y, 1>>}}
Typed == {<<X, 2>>}

A(name, value, start, experiment, tracks) ==
  [name |-> name, value |-> value, start |-> start, experiment |-> experiment, tracks |-> tracks]
AllTables ==
  {<<>>,
   <<A(X, 1, 0, NoExperiment, TRUE), A(Y, 1, 0, NoExperiment, TRUE),
     A(X, 2, 1, NoExperiment, FALSE), A(Y, 1, 1, NoExperiment, FALSE)>>,
   <<A(X, 1, 0, NoExperiment, TRUE), A(X, 2, 0, E, TRUE), A(X, 2, 3, NoExperiment, TRUE)>>}

\* A set of variables is planned from run 3 on.
PlannedTables ==
  {<<A(X, 1, 0, NoExperiment, TRUE), A(X, 2, 3, NoExperiment, FALSE)>>}
=============================================================================
