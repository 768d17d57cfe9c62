------------------------- MODULE MCPostProcessAdmin -------------------------
(***************************************************************************)
(* Two versions of a run, one of which is to overwrite, and two runs on an *)
(* excitation instrument, all filed under one RB number.                   *)
(***************************************************************************)
EXTENDS PostProcessAdmin

CONSTANTS first, overwriting, cold, hot, gemRun, mariExperiment

FourJobs == {first, overwriting, cold, hot}
JobDir == [j \in Jobs |-> IF j \in {cold, hot} THEN mariExperiment ELSE gemRun]
OneRb == [j \in Jobs |-> 1]
=============================================================================
