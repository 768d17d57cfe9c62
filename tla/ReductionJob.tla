---------------------------- MODULE ReductionJob ----------------------------
(***************************************************************************)
(* What the queues may see of one reduction: a start, and then at most one *)
(* outcome.  A job that an operation fails for, or that is refused, may    *)
(* report its outcome without a start.  PostProcessAdmin implements it.    *)
(***************************************************************************)
EXTENDS Sequences

CONSTANT Jobs       \* the messages of /queue/ReductionPending that are given to a child

VARIABLES
  reports,          \* what has been reported of each job, in order
  failed            \* jobs that an operation has failed for

vars == <<reports, failed>>

Outcome == {"Complete", "Error", "Skipped"}

Init ==
  /\ reports = [j \in Jobs |-> <<>>]
  /\ failed = {}

Start(j) ==
  /\ reports[j] = <<>>
  /\ reports' = [reports EXCEPT ![j] = Append(@, "Started")]
  /\ UNCHANGED failed

Fail(j) ==
  /\ failed' = failed \cup {j}
  /\ UNCHANGED reports

Finish(j) ==
  /\ reports[j] = <<"Started">>
  /\ \E o \in Outcome : reports' = [reports EXCEPT ![j] = Append(@, o)]
  /\ failed' \in {failed, failed \cup {j}}

\* Bad input, or a start that could not be sent.
FinishUntold(j) ==
  /\ reports[j] = <<>>
  /\ \E o \in Outcome : reports' = [reports EXCEPT ![j] = Append(@, o)]
  /\ failed' = failed \cup {j}

Next == \E j \in Jobs : Start(j) \/ Fail(j) \/ Finish(j) \/ FinishUntold(j)

Spec == Init /\ [][Next]_vars
=============================================================================
