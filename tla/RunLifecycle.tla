---------------------------- MODULE RunLifecycle ----------------------------
(***************************************************************************)
(* What the record of a reduction run promises to everybody who reads it:  *)
(* the web application's pages, the failed-job queue and the plots.  A row *)
(* of the ReductionRun table is created queued or skipped and from then on *)
(* its status moves along a fixed set of edges.  QueueProcessor implements *)
(* this specification while it is the only writer of the table.            *)
(***************************************************************************)
\* The values of the Status table (model/database/access.py, get_status).
StatusValue == {"q", "p", "c", "s", "e"}

CONSTANT RowIds     \* the identifiers the database can give to a row

VARIABLE status     \* the status of every row there is, by row identifier

Rows == DOMAIN status

TypeOK ==
  /\ Rows \subseteq RowIds
  /\ \A i \in Rows : status[i] \in StatusValue

Init == status = [i \in {} |-> "q"]

\* The rows i of which only one, r, is given a new value.
With(r, s) == [i \in Rows \cup {r} |-> IF i = r THEN s ELSE status[i]]

\* data_ready files a new row; it is skipped when the instrument is paused.
Create(r) ==
  /\ r \in RowIds \ Rows
  /\ \E s \in {"q", "s"} : status' = With(r, s)

\* reduction_started refuses a run that is processing, complete or skipped.
Start(r) ==
  /\ r \in Rows /\ status[r] \in {"q", "e"}
  /\ status' = With(r, "p")

\* reduction_complete refuses a run that is not processing.
Complete(r) ==
  /\ r \in Rows /\ status[r] = "p"
  /\ status' = With(r, "c")

\* reduction_error and reduction_skipped accept a run in any status.
Close(r) ==
  /\ r \in Rows
  /\ \E s \in {"e", "s"} : status' = With(r, s)

\* A retry whose variables could not be created is taken back.
Withdraw(r) ==
  /\ r \in Rows /\ status[r] = "q"
  /\ status' = [i \in Rows \ {r} |-> status[i]]

Next == \E r \in RowIds : Create(r) \/ Start(r) \/ Complete(r) \/ Close(r) \/ Withdraw(r)

Spec == Init /\ [][Next]_status
=============================================================================
