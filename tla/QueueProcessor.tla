--------------------------- MODULE QueueProcessor ---------------------------
(***************************************************************************)
(* The queue processor (queue_processors/queue_processor) and the other    *)
(* writer of the ReductionRun table, the web application's re-run and      *)
(* cancel operations (WebApp/autoreduce_webapp).  Both use Django models:  *)
(* a record is read into memory, changed there, and save() writes all of   *)
(* its columns back, so whatever was written in between is lost.  A step   *)
(* of the model is one access to the database or to a queue.               *)
(***************************************************************************)
EXTENDS Integers, Sequences, FiniteSets

CONSTANTS
  Runs,          \* the (experiment, run number) pairs that are reduced
  Calibration,   \* those filed under RB number 0 because theirs is no RB number
  Sessions,      \* requests the web application serves at the same time
  RowIds,        \* identifiers the database can give to a row
  RetryLimit,    \* a version above this is not retried (4 in the code)
  InboxSize,     \* frames that fit into the listener's socket
  Overtaking,    \* TRUE: a queue may be dispatched before an older message of another
  MaxReady, MaxPosts, MaxRetries, MaxFaults   \* bounds on what the environment does

ASSUME CalibrationAssumption == Calibration \subseteq Runs
ASSUME RowIdsAssumption == RowIds \subseteq Nat \ {0}
ASSUME BoundsAssumption ==
  /\ RetryLimit \in Nat /\ InboxSize \in Nat \ {0} /\ Overtaking \in BOOLEAN
  /\ MaxReady \in Nat /\ MaxPosts \in Nat /\ MaxRetries \in Nat /\ MaxFaults \in Nat

VARIABLES
  db,        \* the ReductionRun table: row identifier -> row
  nextId,    \* the table's AUTO_INCREMENT counter
  located,   \* the rows that have a DataLocation record
  paused,    \* Instrument.is_paused
  queue,     \* the broker: destination -> messages
  inbox,     \* frames dispatched to the listener, acknowledged and not yet handled
  lis,       \* the listener thread: what it is doing and the record it holds
  node,      \* jobs the reduction node has started and not yet reported
  dropped,   \* (run, version) pairs the node was told to cancel
  web,       \* the web sessions, each with the records it holds
  withdrawn, \* history: jobs whose row a session has deleted after it had sent them
  budget     \* how often the environment may still act

vars == <<db, nextId, located, paused, queue, inbox, lis, node, dropped, web, withdrawn, budget>>
-----------------------------------------------------------------------------
StatusValue == {"q", "p", "c", "s", "e"}

Subscribed == {"DataReady", "Started", "Complete", "Error", "Skipped"}
Destination == Subscribed \cup {"Pending"}

Row == [run : Runs, version : Nat, status : StatusValue, cancel : BOOLEAN, retry : Nat]

Message == [dest : Destination, run : Runs, version : Nat, cancel : BOOLEAN, retryIn : BOOLEAN]

NewMessage(d, r, v) == [dest |-> d, run |-> r, version |-> v, cancel |-> FALSE, retryIn |-> FALSE]
\* Mutation: the version found for the run is not the one that is filed.
NewRowFirst(r, v, s) == [run |-> r, version |-> 0, status |-> s, cancel |-> FALSE, retry |-> 0]
NewRow(r, v, s) == [run |-> r, version |-> v, status |-> s, cancel |-> FALSE, retry |-> 0]

Ids == DOMAIN db
VersionsOf(r) == {i \in Ids : db[i].run = r}

LeastId(S) == CHOOSE i \in S : \A j \in S : i <= j

\* Mutation: the highest version is used again.
NextVersionSame(r) ==
  IF VersionsOf(r) = {} THEN 0
  ELSE CHOOSE v \in {db[i].version : i \in VersionsOf(r)} :
         \A i \in VersionsOf(r) : db[i].version <= v

\* Mutation: find_highest_run_version's -1 is not incremented.
NextVersionNone(r) == IF VersionsOf(r) = {} THEN -1 ELSE NextVersionSame(r)

\* Versions count from 0: the next one is above every version filed for the run.
NextVersion(r) ==
  IF VersionsOf(r) = {} THEN 0
  ELSE (CHOOSE v \in {db[i].version : i \in VersionsOf(r)} :
          \A i \in VersionsOf(r) : db[i].version <= v) + 1

\* Mutation: the filter on the version is forgotten.
MatchingAny(m) == {i \in Ids : db[i].run = m.run}

\* find_run: the filter's .first() is the oldest of the rows that match.
Matching(m) == {i \in Ids : db[i].run = m.run /\ db[i].version = m.version}

\* save() updates the row, or inserts it again when it is no longer there.
Saved(i, row) == [j \in Ids \cup {i} |-> IF j = i THEN row ELSE db[j]]

\* MySQL refuses a save whose retry_run names a row that has been deleted.
Dangling(row) == row.retry # 0 /\ row.retry \notin Ids

\* delete() cascades to the locations and clears retry_run where it named the row.
Removed(i) ==
  [j \in Ids \ {i} |-> IF db[j].retry = i THEN [db[j] EXCEPT !.retry = 0] ELSE db[j]]

Send(m) == queue' = [queue EXCEPT ![m.dest] = Append(@, m)]

Spend(b) == budget[b] > 0 /\ budget' = [budget EXCEPT ![b] = @ - 1]
-----------------------------------------------------------------------------
Waiting == [pc |-> "wait"]
Stopped == [pc |-> "stopped"]
NoPage == [pc |-> "idle"]

Init ==
  /\ db = [i \in {} |-> 0] /\ nextId = 1 /\ located = {} /\ paused = FALSE
  /\ queue = [d \in Destination |-> <<>>] /\ inbox = <<>>
  /\ lis = Waiting /\ node = {} /\ dropped = {}
  /\ web = [w \in Sessions |-> NoPage] /\ withdrawn = {}
  /\ budget = [ready |-> MaxReady, posts |-> MaxPosts, retries |-> MaxRetries, faults |-> MaxFaults]
-----------------------------------------------------------------------------
\* End-of-run monitor or manual submission: a data file is ready.
Submit(r) ==
  /\ Spend("ready")
  /\ Send(NewMessage("DataReady", r, 0))
  /\ UNCHANGED <<db, nextId, located, paused, inbox, lis, node, dropped, withdrawn, web>>

\* instrument_pause: the page's button toggles the flag.
TogglePause ==
  /\ paused' = ~paused
  /\ UNCHANGED <<db, nextId, located, queue, inbox, lis, node, dropped, withdrawn, web, budget>>

(***************************************************************************)
(* The broker sends a frame to the listener as soon as the socket takes it *)
(* and, the subscription being ack='auto', forgets it.  Each queue is      *)
(* dispatched in order; nothing orders one queue after another, unless the *)
(* listener is never behind (Overtaking = FALSE).                          *)
(***************************************************************************)
Dispatch(d) ==
  /\ lis # Stopped /\ queue[d] # <<>> /\ Len(inbox) < InboxSize
  /\ Overtaking \/ d \in {"DataReady", "Started"} \/ queue["Started"] = <<>>
  /\ inbox' = Append(inbox, Head(queue[d]))
  /\ queue' = [queue EXCEPT ![d] = Tail(@)]
  /\ UNCHANGED <<db, nextId, located, paused, lis, node, dropped, withdrawn, web, budget>>

\* on_message has returned: the receiver thread reads the next frame.
Return == lis' = Waiting

\* An exception on_message does not catch ends the receiver thread.
Die == lis' = Stopped /\ inbox' = <<>>

\* The frame m that on_message is called with.
Receive(d, m) ==
  /\ lis = Waiting /\ inbox # <<>>
  /\ m = Head(inbox) /\ m.dest = d
  /\ inbox' = Tail(inbox)

\* data_ready, its first accesses: the instrument, its status, the experiment.
DataReady(m) ==
  /\ Receive("DataReady", m)
  /\ lis' = [pc |-> "version", msg |-> m, paused |-> paused]
  /\ UNCHANGED <<db, nextId, located, paused, queue, node, dropped, withdrawn, web, budget>>

ReadVersion ==
  /\ lis.pc = "version"
  /\ lis' = [lis EXCEPT !.pc = "script", !.msg.version = NextVersion(lis.msg.run)]
  /\ UNCHANGED <<db, nextId, located, paused, queue, inbox, node, dropped, withdrawn, web, budget>>

ScriptFound ==
  /\ lis.pc = "script"
  /\ lis' = [lis EXCEPT !.pc = "save"]
  /\ UNCHANGED <<db, nextId, located, paused, queue, inbox, node, dropped, withdrawn, web, budget>>

(***************************************************************************)
(* No reduce.py: reduction_error is called with a version nobody has filed *)
(* yet.  find_run finds nothing, unless another session has just filed it, *)
(* and the exception raised in either case is logged by on_message.        *)
(***************************************************************************)
ScriptMissing ==
  /\ lis.pc = "script" /\ Spend("faults")
  /\ IF Matching(lis.msg) = {} THEN UNCHANGED db
     ELSE LET i == LeastId(Matching(lis.msg))
          IN  db' = Saved(i, [db[i] EXCEPT !.status = "e"])
  /\ Return
  /\ UNCHANGED <<nextId, located, paused, queue, inbox, node, dropped, withdrawn, web>>

SaveRun ==
  /\ lis.pc = "save" /\ nextId \in RowIds
  /\ db' = Saved(nextId, NewRow(lis.msg.run, lis.msg.version, IF lis.paused THEN "s" ELSE "q"))
  /\ nextId' = nextId + 1
  /\ lis' = [pc |-> "locate", msg |-> lis.msg, paused |-> lis.paused, id |-> nextId]
  /\ UNCHANGED <<located, paused, queue, inbox, node, dropped, withdrawn, web, budget>>

\* Mutation: the DataLocation record is built and not saved.
SaveDataLocationLost ==
  /\ lis.pc = "locate"
  /\ lis' = [lis EXCEPT !.pc = "variables"]
  /\ UNCHANGED <<db, nextId, located, paused, queue, inbox, node, dropped, withdrawn, web, budget>>

SaveDataLocation ==
  /\ lis.pc = "locate"
  /\ located' = located \cup {lis.id}
  /\ lis' = [lis EXCEPT !.pc = "variables"]
  /\ UNCHANGED <<db, nextId, paused, queue, inbox, node, dropped, withdrawn, web, budget>>

\* create_variables_for_run runs the instrument's reduce_vars.py, which may raise.
CreateVariables ==
  /\ lis.pc = "variables"
  /\ \/ lis' = [lis EXCEPT !.pc = "forward"] /\ UNCHANGED <<inbox, budget>>
     \/ Spend("faults") /\ Die
  /\ UNCHANGED <<db, nextId, located, paused, queue, node, dropped, withdrawn, web>>

\* Mutation: the instrument is read again when the message is to be sent.
ForwardFresh ==
  /\ lis.pc = "forward"
  /\ LET m == lis.msg IN
       CASE m.run \in Calibration -> Send([m EXCEPT !.dest = "Skipped"])
         [] m.run \notin Calibration /\ paused -> UNCHANGED queue
         [] OTHER -> Send([m EXCEPT !.dest = "Pending"])
  /\ Return
  /\ UNCHANGED <<db, nextId, located, paused, inbox, node, dropped, withdrawn, web, budget>>

\* Mutation: a calibration run is dropped without a word.
ForwardSilent ==
  /\ lis.pc = "forward"
  /\ IF lis.msg.run \in Calibration \/ lis.paused THEN UNCHANGED queue
     ELSE Send([lis.msg EXCEPT !.dest = "Pending"])
  /\ Return
  /\ UNCHANGED <<db, nextId, located, paused, inbox, node, dropped, withdrawn, web, budget>>

\* message.validate fails on RB number 0, before the pause is looked at.
Forward ==
  /\ lis.pc = "forward"
  /\ LET m == lis.msg IN
       CASE m.run \in Calibration -> Send([m EXCEPT !.dest = "Skipped"])
         [] m.run \notin Calibration /\ lis.paused -> UNCHANGED queue
         [] OTHER -> Send([m EXCEPT !.dest = "Pending"])
  /\ Return
  /\ UNCHANGED <<db, nextId, located, paused, inbox, node, dropped, withdrawn, web, budget>>
-----------------------------------------------------------------------------
\* Mutation: a run can complete that is still queued.
AcceptedEarly(d) ==
  CASE d = "Started" -> {"e", "q"}
    [] d = "Complete" -> {"p", "q"}
    [] OTHER -> StatusValue

\* The statuses in which a report is accepted, and the one it gives the run.
Accepted(d) ==
  CASE d = "Started" -> {"e", "q"}
    [] d = "Complete" -> {"p"}
    [] OTHER -> StatusValue

Reported(d) ==
  CASE d = "Started" -> "p"
    [] d = "Complete" -> "c"
    [] d = "Error" -> "e"
    [] OTHER -> "s"

\* reduction_started, _complete, _error, _skipped: the record is read into memory.
FindRun(m) ==
  /\ \E d \in Subscribed \ {"DataReady"} : Receive(d, m)
  /\ Matching(m) # {}
  /\ LET i == LeastId(Matching(m)) IN
       /\ db[i].status \in Accepted(m.dest)
       /\ lis' = [pc |-> "report", msg |-> m, id |-> i,
                  copy |-> [db[i] EXCEPT !.status = Reported(m.dest)]]
  /\ UNCHANGED <<db, nextId, located, paused, queue, node, dropped, withdrawn, web, budget>>

\* MissingReductionRunRecord, or the InvalidStateException of the status check.
RefuseReport(m) ==
  /\ \E d \in Subscribed \ {"DataReady"} : Receive(d, m)
  /\ Matching(m) # {} => db[LeastId(Matching(m))].status \notin Accepted(m.dest)
  /\ UNCHANGED <<db, nextId, located, paused, queue, lis, node, dropped, withdrawn, web, budget>>

SaveReport ==
  /\ lis.pc = "report"
  /\ IF Dangling(lis.copy) THEN Die /\ UNCHANGED db
     ELSE /\ db' = Saved(lis.id, lis.copy)
          /\ UNCHANGED inbox
          /\ IF lis.msg.dest = "Error" /\ lis.msg.retryIn
               THEN lis' = [lis EXCEPT !.pc = "retry"]
               ELSE Return
  /\ UNCHANGED <<nextId, located, paused, queue, node, dropped, withdrawn, web, budget>>

\* The guard of reduction_error and retry_run, and create_retry_run's version.
RetryRun ==
  /\ lis.pc = "retry"
  /\ IF NextVersion(lis.msg.run) <= RetryLimit + 1 /\ ~lis.copy.cancel
       THEN lis' = [lis EXCEPT !.pc = "retrySave", !.msg.version = NextVersion(lis.msg.run)]
       ELSE Return
  /\ UNCHANGED <<db, nextId, located, paused, queue, inbox, node, dropped, withdrawn, web, budget>>

SaveRetry ==
  /\ lis.pc = "retrySave" /\ nextId \in RowIds
  /\ db' = Saved(nextId, NewRow(lis.msg.run, lis.msg.version, "q"))
  /\ nextId' = nextId + 1
  /\ lis' = [pc |-> "retryLink", msg |-> lis.msg, id |-> lis.id, new |-> nextId,
             copy |-> [lis.copy EXCEPT !.retry = nextId]]
  /\ UNCHANGED <<located, paused, queue, inbox, node, dropped, withdrawn, web, budget>>

\* The failed run is saved with its retry_run, and its data locations are copied.
LinkRetry ==
  /\ lis.pc = "retryLink"
  /\ db' = Saved(lis.id, lis.copy)
  /\ located' = IF lis.id \in located THEN located \cup {lis.new} ELSE located
  /\ lis' = [lis EXCEPT !.pc = "retryVariables"]
  /\ UNCHANGED <<nextId, paused, queue, inbox, node, dropped, withdrawn, web, budget>>

\* The exception of the variables is raised again once the new row is deleted.
RetryVariables ==
  /\ lis.pc = "retryVariables"
  /\ \/ /\ lis' = [lis EXCEPT !.pc = "retrySend"]
        /\ UNCHANGED <<db, located, inbox, budget>>
     \/ /\ Spend("faults") /\ Die
        /\ db' = Removed(lis.new) /\ located' = located \ {lis.new}
  /\ UNCHANGED <<nextId, paused, queue, node, dropped, withdrawn, web>>

\* _make_pending_msg asks the model class for filter_by, which Django has not.
RetrySend ==
  /\ lis.pc = "retrySend"
  /\ Die
  /\ UNCHANGED <<db, nextId, located, paused, queue, node, dropped, withdrawn, web, budget>>

\* restart.sh kills the daemon, or an exception nobody catches ends the thread; the
\* daemon's timer, or the script, starts it again.
Kill ==
  /\ lis # Stopped /\ Spend("faults") /\ Die
  /\ UNCHANGED <<db, nextId, located, paused, queue, node, dropped, withdrawn, web>>

Restart ==
  /\ lis = Stopped
  /\ lis' = Waiting
  /\ UNCHANGED <<db, nextId, located, paused, queue, inbox, node, dropped, withdrawn, web, budget>>
-----------------------------------------------------------------------------
\* The reduction node, as the queues see it (AutoreductionListener, PostProcessAdmin).
Job(m) == [run |-> m.run, version |-> m.version]

NodeTake(m) ==
  /\ queue["Pending"] # <<>> /\ m = Head(queue["Pending"])
  /\ UNCHANGED <<db, nextId, located, paused, inbox, lis, web, withdrawn>>

NodeCancel(m) ==
  /\ NodeTake(m) /\ m.cancel
  /\ queue' = [queue EXCEPT !["Pending"] = Tail(@)]
  /\ dropped' = dropped \cup {Job(m)}
  /\ UNCHANGED <<node, budget>>

NodeDrop(m) ==
  /\ NodeTake(m) /\ ~m.cancel /\ Job(m) \in dropped
  /\ queue' = [queue EXCEPT !["Pending"] = Tail(@)]
  /\ dropped' = dropped \ {Job(m)}
  /\ UNCHANGED <<node, budget>>

\* Also for a cancelled job: the number in the cancellation may be of another type.
\* An AttributeError in send_reduction_message is passed over: the job goes on, untold.
NodeStart(m) ==
  /\ NodeTake(m) /\ ~m.cancel
  /\ \/ queue' = [queue EXCEPT !["Pending"] = Tail(@),
                               !["Started"] = Append(@, NewMessage("Started", m.run, m.version))]
        /\ UNCHANGED budget
     \/ queue' = [queue EXCEPT !["Pending"] = Tail(@)] /\ Spend("faults")
  /\ node' = node \cup {Job(m)}
  /\ UNCHANGED dropped

\* The message is not one PostProcessAdmin can work on: an error and no start.
NodeReject(m) ==
  /\ NodeTake(m) /\ ~m.cancel
  /\ queue' = [queue EXCEPT !["Pending"] = Tail(@),
                            !["Error"] = Append(@, NewMessage("Error", m.run, m.version))]
  /\ UNCHANGED <<node, dropped, budget>>

NodeReport(j) ==
  /\ \/ /\ \E d \in {"Complete", "Error", "Skipped"} : Send(NewMessage(d, j.run, j.version))
        /\ UNCHANGED budget
     \/ /\ Spend("retries")
        /\ Send([NewMessage("Error", j.run, j.version) EXCEPT !.retryIn = TRUE])
  /\ node' = node \ {j}
  /\ UNCHANGED <<db, nextId, located, paused, inbox, lis, dropped, withdrawn, web>>

\* The reduction is killed, by an operator or with its machine.
NodeDie(j) ==
  /\ Spend("faults")
  /\ node' = node \ {j}
  /\ UNCHANGED <<db, nextId, located, paused, queue, inbox, lis, dropped, withdrawn, web>>
-----------------------------------------------------------------------------
\* A web session goes on to the next step, or ends.
Step(w, s) == web' = [web EXCEPT ![w] = s]
End(w) == Step(w, NoPage)

\* fail_queue, GET: the page lists the failed runs; the user chooses one.
ShowFailed(w, i) ==
  /\ web[w].pc = "idle" /\ i \in Ids /\ db[i].status = "e"
  /\ Spend("posts")
  /\ Step(w, [pc |-> "page", job |-> Job(db[i])])
  /\ UNCHANGED <<db, nextId, located, paused, queue, inbox, lis, node, dropped, withdrawn>>

\* objects.get(run, version) raises unless exactly one row matches; 0 is no row.
Chosen(w) ==
  LET M == Matching(web[w].job) IN IF \E i \in M : M = {i} THEN LeastId(M) ELSE 0

(***************************************************************************)
(* fail_queue, POST, with cancelRun's reads: the record, and that of the   *)
(* run's retry where cancelRun looks at it.  "target" is the run that is   *)
(* cancelled, 0 when there is none; a retry that is processing is flagged, *)
(* and so is the run.                                                      *)
(***************************************************************************)
Post(w, rerun) ==
  /\ web[w].pc = "page"
  /\ LET i == Chosen(w)
         r == db[i].retry
         retrying(v) == db[i].status # "q" /\ r # 0 /\ db[r].status = v
         target == CASE db[i].status = "q" -> i
                     [] retrying("q") -> r
                     [] OTHER -> 0
         flagged(row) == [row EXCEPT !.cancel = @ \/ retrying("p")]
     IN  IF i \notin Ids THEN End(w)
         ELSE Step(w, [pc |-> IF target = 0 THEN "saveBoth" ELSE "cancel",
                       id |-> i, rerun |-> rerun, target |-> target, copy |-> flagged(db[i]),
                       retry |-> IF r = 0 THEN db[i] ELSE flagged(db[r])])
  /\ UNCHANGED <<db, nextId, located, paused, queue, inbox, lis, node, dropped, withdrawn, budget>>

CancelledRow(s) == IF s.target = s.id THEN s.copy ELSE s.retry
CancelOf(w) ==
  [NewMessage("Pending", CancelledRow(web[w]).run, CancelledRow(web[w]).version) EXCEPT !.cancel = TRUE]

(***************************************************************************)
(* send_cancel.  It raises without a data location, and when the broker    *)
(* fails, which may be at the disconnect, with the message out; the view   *)
(* then gives up.                                                          *)
(***************************************************************************)
SendCancel(w) ==
  /\ web[w].pc = "cancel"
  /\ \/ /\ web[w].target \in located /\ Send(CancelOf(w))
        /\ \/ Step(w, [web[w] EXCEPT !.pc = "setCancelled"]) /\ UNCHANGED budget
           \/ End(w) /\ Spend("faults")
     \/ /\ (web[w].target \notin located /\ UNCHANGED budget) \/ Spend("faults")
        /\ End(w) /\ UNCHANGED queue
  /\ UNCHANGED <<db, nextId, located, paused, inbox, lis, node, dropped, withdrawn>>

SetCancelled(w) ==
  /\ web[w].pc = "setCancelled"
  /\ LET s == web[w]
         copy == IF s.target = s.id THEN [s.copy EXCEPT !.status = "e"] ELSE s.copy
         retry == IF s.target # s.id THEN [s.retry EXCEPT !.status = "e"] ELSE s.retry
         row == IF s.target = s.id THEN copy ELSE retry
     IN  IF Dangling(row) THEN End(w) /\ UNCHANGED db
         ELSE /\ db' = Saved(s.target, row)
              /\ Step(w, [s EXCEPT !.pc = "saveBoth", !.copy = copy, !.retry = retry])
  /\ UNCHANGED <<nextId, located, paused, queue, inbox, lis, node, dropped, withdrawn, budget>>

(***************************************************************************)
(* cancelRun's last lines save the run and its retry whatever was done to  *)
(* them.  A retry cancelRun has not looked at is read and saved at once,   *)
(* which changes nothing.                                                  *)
(***************************************************************************)
SaveBoth(w) ==
  /\ web[w].pc = "saveBoth"
  /\ LET s == web[w]
         r == s.copy.retry
         one == Saved(s.id, s.copy)
     IN  IF Dangling(s.copy) \/ (r # 0 /\ s.target # s.id /\ Dangling(s.retry))
           THEN End(w) /\ UNCHANGED db
           ELSE /\ db' = IF r = 0 \/ s.target = s.id THEN one ELSE [one EXCEPT ![r] = s.retry]
                /\ IF s.rerun
                     THEN Step(w, [pc |-> "version", id |-> s.id,
                                   copy |-> [s.copy EXCEPT !.cancel = FALSE]])
                     ELSE End(w)
  /\ UNCHANGED <<nextId, located, paused, queue, inbox, lis, node, dropped, withdrawn, budget>>

\* The run is taken off the failed queue: read, and saved with all its columns.
Hide(w) ==
  /\ web[w].pc = "page"
  /\ LET i == Chosen(w) IN
       IF i \in Ids THEN Step(w, [pc |-> "hide", id |-> i, copy |-> db[i]]) ELSE End(w)
  /\ UNCHANGED <<db, nextId, located, paused, queue, inbox, lis, node, dropped, withdrawn, budget>>

SaveHidden(w) ==
  /\ web[w].pc = "hide"
  /\ IF Dangling(web[w].copy) THEN UNCHANGED db ELSE db' = Saved(web[w].id, web[w].copy)
  /\ End(w)
  /\ UNCHANGED <<nextId, located, paused, queue, inbox, lis, node, dropped, withdrawn, budget>>

\* run_confirmation: the latest version of a run none of whose versions is queued.
Confirm(w, r) ==
  /\ web[w].pc = "idle" /\ VersionsOf(r) # {}
  /\ \A i \in VersionsOf(r) : db[i].status # "q"
  /\ Spend("posts")
  /\ LET i == LeastId({j \in VersionsOf(r) : db[j].version = NextVersion(r) - 1}) IN
       Step(w, [pc |-> "version", id |-> i, copy |-> db[i]])
  /\ UNCHANGED <<db, nextId, located, paused, queue, inbox, lis, node, dropped, withdrawn>>

\* createRetryRun, one access to the database after the other.
WebVersion(w) ==
  /\ web[w].pc = "version"
  /\ LET s == web[w] IN
       Step(w, [pc |-> "create", id |-> s.id, copy |-> s.copy, version |-> NextVersion(s.copy.run)])
  /\ UNCHANGED <<db, nextId, located, paused, queue, inbox, lis, node, dropped, withdrawn, budget>>

WebCreate(w) ==
  /\ web[w].pc = "create" /\ nextId \in RowIds
  /\ LET s == web[w] IN
       /\ db' = Saved(nextId, NewRow(s.copy.run, s.version, "q"))
       /\ Step(w, [pc |-> "link", id |-> s.id, copy |-> [s.copy EXCEPT !.retry = nextId],
                   version |-> s.version, new |-> nextId])
  /\ nextId' = nextId + 1
  /\ UNCHANGED <<located, paused, queue, inbox, lis, node, dropped, withdrawn, budget>>

\* The run is saved with its retry_run; the locations are copied next.
WebLink(w) ==
  /\ web[w].pc = "link"
  /\ LET s == web[w] IN
       /\ db' = Saved(s.id, s.copy)
       /\ located' = IF s.id \in located THEN located \cup {s.new} ELSE located
       /\ Step(w, [s EXCEPT !.pc = "variables"])
  /\ UNCHANGED <<nextId, paused, queue, inbox, lis, node, dropped, withdrawn, budget>>

\* Variables that cannot be saved end the request; the new row stays.
WebVariables(w) ==
  /\ web[w].pc = "variables"
  /\ \/ Step(w, [web[w] EXCEPT !.pc = "send"]) /\ UNCHANGED budget
     \/ Spend("faults") /\ End(w)
  /\ UNCHANGED <<db, nextId, located, paused, queue, inbox, lis, node, dropped, withdrawn>>

\* Mutation: a run without a data location is sent all the same.
WebSendBlind(w) ==
  /\ web[w].pc = "send"
  /\ LET s == web[w] IN Send(NewMessage("Pending", s.copy.run, s.version))
  /\ End(w)
  /\ UNCHANGED <<db, nextId, located, paused, inbox, lis, node, dropped, withdrawn, budget>>

\* Mutation: the row is deleted in a finally clause, though nothing was raised.
WebSendAndDelete(w) ==
  /\ web[w].pc = "send" /\ web[w].new \in located
  /\ LET s == web[w] IN Send(NewMessage("Pending", s.copy.run, s.version))
  /\ db' = Removed(web[w].new)
  /\ End(w)
  /\ UNCHANGED <<nextId, located, paused, inbox, lis, node, dropped, withdrawn, budget>>

WebSend(w) ==
  /\ web[w].pc = "send" /\ web[w].new \in located
  /\ LET s == web[w] IN Send(NewMessage("Pending", s.copy.run, s.version))
  /\ End(w)
  /\ UNCHANGED <<db, nextId, located, paused, inbox, lis, node, dropped, withdrawn, budget>>

(***************************************************************************)
(* No location, or no connection to the broker: the new row is deleted     *)
(* again.  It is also deleted when the disconnect raises, though the       *)
(* message is then on its way.                                             *)
(***************************************************************************)
WebSendFails(w) ==
  /\ web[w].pc = "send"
  /\ \/ web[w].new \notin located /\ UNCHANGED <<queue, withdrawn, budget>>
     \/ Spend("faults") /\ UNCHANGED <<queue, withdrawn>>
     \/ /\ Spend("faults") /\ web[w].new \in located
        /\ Send(NewMessage("Pending", web[w].copy.run, web[w].version))
        /\ withdrawn' = withdrawn \cup {[run |-> web[w].copy.run, version |-> web[w].version]}
  /\ db' = Removed(web[w].new) /\ located' = located \ {web[w].new}
  /\ End(w)
  /\ UNCHANGED <<nextId, paused, inbox, lis, node, dropped>>
-----------------------------------------------------------------------------
Listener ==
  \/ \E m \in {Head(q) : q \in {inbox} \ {<<>>}} : DataReady(m) \/ FindRun(m) \/ RefuseReport(m)
  \/ ReadVersion \/ ScriptFound \/ ScriptMissing \/ SaveRun \/ SaveDataLocation
  \/ CreateVariables \/ Forward
  \/ SaveReport \/ RetryRun \/ SaveRetry \/ LinkRetry \/ RetryVariables \/ RetrySend

Node ==
  \/ \E m \in {Head(q) : q \in {queue["Pending"]} \ {<<>>}} :
       NodeCancel(m) \/ NodeDrop(m) \/ NodeStart(m) \/ NodeReject(m)
  \/ \E j \in node : NodeReport(j) \/ NodeDie(j)

Session(w) ==
  \/ \E i \in Ids : ShowFailed(w, i)
  \/ \E rerun \in BOOLEAN : Post(w, rerun)
  \/ \E r \in Runs : Confirm(w, r)
  \/ SendCancel(w) \/ SetCancelled(w) \/ SaveBoth(w) \/ Hide(w) \/ SaveHidden(w)
  \/ WebVersion(w) \/ WebCreate(w) \/ WebLink(w) \/ WebVariables(w) \/ WebSend(w) \/ WebSendFails(w)

Next ==
  \/ \E r \in Runs : Submit(r)
  \/ TogglePause
  \/ \E d \in Subscribed : Dispatch(d)
  \/ Listener \/ Kill \/ Restart
  \/ Node
  \/ \E w \in Sessions : Session(w)

Spec == Init /\ [][Next]_vars

\* The daemon is restarted, the broker delivers, and reductions end one way or another.
Fairness ==
  /\ WF_vars(Listener) /\ WF_vars(Restart)
  /\ WF_vars(\E d \in Subscribed : Dispatch(d))
  /\ WF_vars(\E m \in {Head(q) : q \in {queue["Pending"]} \ {<<>>}} :
               NodeCancel(m) \/ NodeDrop(m) \/ NodeStart(m) \/ NodeReject(m))
  /\ WF_vars(\E j \in node : NodeReport(j))

FairSpec == Spec /\ Fairness
-----------------------------------------------------------------------------
\* What the listener holds while it files a run, while it saves a report, and while it retries.
Filing == [pc : {"version", "script", "save"}, msg : Message, paused : BOOLEAN]
Filed == [pc : {"locate", "variables", "forward"}, msg : Message, paused : BOOLEAN, id : Nat]
Reporting == [pc : {"report", "retry", "retrySave"}, msg : Message, id : Nat, copy : Row]
Retrying ==
  [pc : {"retryLink", "retryVariables", "retrySend"}, msg : Message, id : Nat, new : Nat, copy : Row]
ListenerState == {Waiting, Stopped} \cup Filing \cup Filed \cup Reporting \cup Retrying

\* What a session holds while it shows a page, hides or cancels, and while it re-runs.
Showing == [pc : {"page"}, job : [run : Runs, version : Nat]]
Hiding == [pc : {"hide"}, id : Nat, copy : Row]
Cancelling ==
  [pc : {"cancel", "setCancelled", "saveBoth"}, id : Nat, rerun : BOOLEAN,
   copy : Row, retry : Row, target : Nat]
Rerunning == [pc : {"version"}, id : Nat, copy : Row]
Creating == [pc : {"create"}, id : Nat, copy : Row, version : Nat]
Sending == [pc : {"link", "variables", "send"}, id : Nat, copy : Row, version : Nat, new : Nat]
SessionState ==
  {NoPage} \cup Showing \cup Hiding \cup Cancelling \cup Rerunning \cup Creating \cup Sending

TableOK ==
  /\ Ids \subseteq RowIds /\ \A i \in Ids : db[i] \in Row
  /\ nextId \in Nat \ {0} /\ located \subseteq Nat /\ paused \in BOOLEAN

QueuesOK ==
  /\ queue \in [Destination -> Seq(Message)] /\ inbox \in Seq(Message)
  /\ node \subseteq [run : Runs, version : Nat]
  /\ dropped \subseteq [run : Runs, version : Nat] /\ withdrawn \subseteq [run : Runs, version : Nat]
  /\ budget \in [{"ready", "posts", "retries", "faults"} -> Nat]

\* The types of the table, of the messages and of what each actor holds.
TypeOK ==
  /\ TableOK /\ QueuesOK
  /\ lis \in ListenerState
  /\ web \in [Sessions -> SessionState]

Elements(q) == {q[k] : k \in DOMAIN q}
InTransit == Elements(inbox) \cup UNION {Elements(queue[d]) : d \in Destination}
Reductions == {m \in InTransit : m.dest = "Pending" /\ ~m.cancel}
AboutRuns == node \cup {Job(m) : m \in {m \in InTransit : m.dest # "DataReady" /\ ~m.cancel}}

(***************************************************************************)
(* A version names one record: the comment in createRetryRun and in        *)
(* create_retry_run, "find the previous run version, so we don't create a  *)
(* duplicate".  The table has no unique constraint, so it depends on no    *)
(* two writers being between reading the highest version and saving.       *)
(***************************************************************************)
UniqueVersions ==
  \A i, j \in Ids : db[i].run = db[j].run /\ db[i].version = db[j].version => i = j

(***************************************************************************)
(* Whatever is sent for reduction, and every report that comes back, is    *)
(* about a run the table has: no handler raises MissingReductionRunRecord  *)
(* for it, whatever else fails, unless a session has deleted the run       *)
(* because the disconnect after its message raised.                        *)
(***************************************************************************)
JobsAreRecorded ==
  \A j \in AboutRuns \ withdrawn : \E i \in Ids : db[i].run = j.run /\ db[i].version = j.version

(***************************************************************************)
(* A run filed as skipped because its instrument was paused is not reduced *)
(* even if the instrument is resumed while data_ready is at work: the flag *)
(* is read once.                                                           *)
(***************************************************************************)
SkippedNotReduced ==
  \A i \in Ids : db[i].status = "s" =>
    \A j \in node \cup {Job(m) : m \in Reductions} : ~(j.run = db[i].run /\ j.version = db[i].version)

(***************************************************************************)
(* Nobody reduces the same version twice: at most one message or job per   *)
(* version exists, however often the listener is killed and restarted.     *)
(***************************************************************************)
ReducedOnce ==
  LET q == queue["Pending"] IN
    \A k \in DOMAIN q : ~q[k].cancel =>
      /\ Job(q[k]) \notin node
      /\ \A l \in DOMAIN q : l # k /\ ~q[l].cancel => Job(q[l]) # Job(q[k])

(***************************************************************************)
(* A queued run is not forgotten: somebody is still filing it, or about to *)
(* cancel it, or a message or a job will move it on.  This is so with one  *)
(* session, and until a process is killed or a step raises.                *)
(***************************************************************************)
FiledBy(i) ==
  \/ lis.pc \in {"locate", "variables", "forward"} /\ lis.id = i
  \/ lis.pc = "report" /\ lis.id = i
  \/ \E w \in Sessions :
       \/ web[w].pc \in {"link", "variables", "send"} /\ web[w].new = i
       \/ web[w].pc = "setCancelled" /\ web[w].target = i

QueuedNotForgotten ==
  budget.faults = MaxFaults => \A i \in Ids : db[i].status = "q" =>
    \/ FiledBy(i)
    \/ \E j \in AboutRuns : j.run = db[i].run /\ j.version = db[i].version

(***************************************************************************)
(* What is sent for reduction has a data file to reduce: the location is   *)
(* saved before the message is sent, and stays until the message has been  *)
(* taken, with the same exception.                                         *)
(***************************************************************************)
ReductionsAreLocated ==
  \A m \in Reductions : Job(m) \notin withdrawn =>
    \E i \in located \cap Ids : db[i].run = m.run /\ db[i].version = m.version

\* A completed reduction stays on record as completed.
CompletedStays ==
  [][\A i \in Ids : db[i].status = "c" => i \in DOMAIN db' /\ db'[i].status = "c"]_vars

\* The table's statuses move as RunLifecycle says.
Lifecycle == INSTANCE RunLifecycle WITH status <- [i \in Ids |-> db[i].status]
LifecycleSpec == Lifecycle!Spec

(***************************************************************************)
(* A run that is queued or processing ends complete, skipped or in error,  *)
(* when reports arrive in the order they were sent and nothing fails.      *)
(***************************************************************************)
Settled(i) == i \in Ids /\ db[i].status \in {"c", "e", "s"}
EveryRunSettles ==
  \A i \in RowIds : (i \in Ids /\ db[i].status \in {"q", "p"}) ~> Settled(i)
=============================================================================
