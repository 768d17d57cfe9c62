----------------------- MODULE MCAutoreductionListener -----------------------
(***************************************************************************)
(* Small sets of messages for AutoreductionListener: jobs of one or of two *)
(* experiments, and a cancellation of one of them.                         *)
(***************************************************************************)
EXTENDS AutoreductionListener

CONSTANTS GEM, WISH

Str(k) == [n |-> k, type |-> "str"]
Int_(k) == [n |-> k, type |-> "int"]
Job(i, r, b) == [instrument |-> i, run |-> r, version |-> 0, rb |-> b, cancel |-> FALSE]
Cancel(i, r, b) == [Job(i, r, b) EXCEPT !.cancel = TRUE]

\* Three runs of one experiment, one of them cancelled.
OneExperiment == {Job(GEM, Int_(1), Str(7)), Job(GEM, Int_(2), Str(7)), Job(GEM, Int_(3), Str(7)),
                  Cancel(GEM, Int_(2), Str(7))}

\* The same run number on two instruments, cancelled once.
SameRunTwice == {Job(GEM, Int_(1), Str(7)), Job(GEM, Int_(2), Str(7)), Job(WISH, Int_(2), Str(8)),
                 Cancel(GEM, Int_(2), Str(7))}

\* Runs of two experiments, and a cancellation that names no version.
TwoExperiments == {Job(GEM, Int_(1), Str(7)), Job(GEM, Int_(2), Str(7)), Job(GEM, Int_(3), Str(8)),
                   Job(GEM, Int_(4), Str(8)), [Cancel(GEM, Int_(4), Str(8)) EXCEPT !.version = -1]}
=============================================================================
