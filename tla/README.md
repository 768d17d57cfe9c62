# Autoreduction: a verification development

TLA+ specifications of the ISIS autoreduction service, TLC configurations that
check them on small instances, and TLAPS proofs of what holds for every
instance. Paths below are relative to `src/`; `PROJECT.json` maps every
definition to the lines it models and lists the hazards each property is for.

## The system

A run of a neutron instrument ends; autoreduction finds its data file, files a
record of a reduction of it, runs the instrument's `reduce.py` on it on another
machine, and shows the outcome on a web site, where it can be re-run, cancelled
or hidden. The parts talk through an ActiveMQ broker and one MySQL database.

```
 end-of-run monitor --DataReady--> queue processor --ReductionPending--> reduction node
 (run_detection)                   (queue_listener)                     (autoreduction_processor)
                                     |   ^                                   | starts
                                     |   +--Started/Complete/Error/Skipped-- post_process_admin
                               ReductionRun table
                                     |
                                   web application --ReductionPending (re-run, cancel)--> reduction node
```

| component | state it keeps | operations | who it meets |
|---|---|---|---|
| End-of-run monitor `monitors/run_detection.py` | a CSV file with the last run per instrument, a lock file | once a minute: compare, submit, rewrite the file | cron, the archive's `lastrun.txt`, a second monitor |
| Queue processor `queue_processors/queue_processor/` | none of its own; the ReductionRun table | `data_ready`, `reduction_started`, `_complete`, `_skipped`, `_error`, `retry_run` | broker, database, web application |
| Web application `WebApp/autoreduce_webapp/` | the same table; sessions | failed queue (hide, re-run, cancel), `run_confirmation`, pausing an instrument, variables, pages | database, broker, user office and ICAT |
| Reduction node `autoreduction_processor.py` | `proc_list`, `rb_list`, `cancel_list` in memory | `on_message`, `hold_message`, `add_cancel`, `cancel_run` | broker, its children; two threads of its own |
| `post_process_admin.py` | a temporary directory, numbered result directories | one job: directories, script, copies, report | the archive, other versions of the run |
| Variables (`instrument_variable_utils.py`, `reduction_variables/`) | variables by instrument, start run and experiment | create for a run, edit from the page | database, web application |
| ICAT cache `icat_cache.py`, access control `view_utils.py`, `backends.py` | permissions with an age; sessions and the flag of administrators | log in, look up, refresh, cull, grant or deny a page | ICAT, the user office, database; other requests |
| Daemons `daemon.py`, `*_daemon.py`, `restart.sh` | pid files | start, stop, restart | operators |
| Maintenance (`scripts/`, `service_handling.py`, ...) | none | one-off commands | operators |

What is hard about it:

* **Interleaving.** Listener and web sessions both read records into memory and
  save *all* columns later. The reduction node's three lists are shared by
  stomp's receiver thread and the Twisted reactor's thread without a lock. cron
  may start a second monitor.
* **Ordering.** Reports travel on four queues; nothing orders one after another.
* **Age.** What ICAT said of a user is copied into a row, from there into a request,
  into the user's flag and into a session; nobody tells the copies of a change.
* **Failure.** Frames are acknowledged when dispatched, so a killed listener
  loses them; a handler may raise between two saves; a copy may fail half-way;
  a monitor may be killed while its file is empty.
* **Eventuality.** Every run filed should end complete, skipped or in error;
  every job should be served; every run of an instrument should be submitted.

## Modules

| module | models | kind |
|---|---|---|
| `RunLifecycle` | what a row of the ReductionRun table promises: the edges its status may move along | abstract |
| `QueueProcessor` | listener, web sessions, broker and the reduction node's reports | detailed; implements `RunLifecycle` with one writer |
| `AutoreductionListener` | the node's two threads and three lists | detailed |
| `ReductionJob` | what the queues may see of one reduction | abstract |
| `PostProcessAdmin` | one child process per job, and the directories | detailed; implements `ReductionJob` |
| `RunDetection` | the monitors, the lock and the CSV file | detailed |
| `InstrumentVariables` | the InstrumentVariable table of one instrument, read when a run is filed and edited from the pages | detailed |
| `ICATCache` | who may see which page: log-ins, the cache of what ICAT says, check_permissions | detailed |
| `QueueProcessor_proofs` | `QueueProcessor`: its types, and what has been sent, with any number of sessions; with one session, what is queued | proofs |
| `OneWriter_proofs` | `QueueProcessor`: what holds when the listener is the only writer | proofs |
| `AutoreductionListener_proofs`, `PostProcessAdmin_proofs`, `RunDetection_proofs`, `InstrumentVariables_proofs`, `ICATCache_proofs` | theorems about the module of that name | proofs |
| `Extrema` | a set of numbers has a least and, when bounded, a greatest | proofs |
| `MC...` | small sets of messages, jobs and run numbers for TLC | instances |

`QueueProcessor` and `AutoreductionListener` describe the reduction node from
two sides: the first keeps a set of jobs that report (what `ReductionJob` says,
with any delay), the second how messages become jobs. `QueueProcessor` does not
assume that two jobs of one experiment are kept apart; `PostProcessAdmin` does
(see below), because that is what the listener is written to provide.

### QueueProcessor

One step is one access to the database or to a queue, because each is a point
at which another process can come in.

| variable | code |
|---|---|
| `db` | rows of ReductionRun: `run` (experiment and run number), `version`, `status` (the letters of `StatusValue`), `cancel`, `retry` (`retry_run`, 0 for none) |
| `nextId` | AUTO_INCREMENT: an identifier is not given out twice |
| `located` | rows with a DataLocation |
| `paused` | `Instrument.is_paused` |
| `queue`, `inbox` | the broker's queues; the frames on the listener's socket, which the broker has forgotten (`ack='auto'`) |
| `lis`, `web` | where the listener and each web session are, and **the record they hold in memory** |
| `node`, `dropped` | jobs running on the node; its cancel list |
| `withdrawn` | history: the jobs whose row a session deleted although their message was out |
| `budget` | how often the environment may still submit, post, ask for a retry, or fail |

`data_ready` is DataReady, ReadVersion, ScriptFound or ScriptMissing, SaveRun,
SaveDataLocation, CreateVariables, Forward. A report is FindRun (with the status
it is refused in, `Accepted`) or RefuseReport, then SaveReport, and for an error
that asks for it RetryRun, SaveRetry, LinkRetry, RetryVariables, RetrySend.
`fail_queue` is ShowFailed and Post; cancelling is SendCancel, SetCancelled,
SaveBoth; hiding is Hide and SaveHidden; re-running, also from
`run_confirmation` (Confirm), is WebVersion, WebCreate, WebLink, WebVariables,
WebSend or WebSendFails. Saves write the whole row that is held (`Saved`), a
save whose `retry_run` names a deleted row is refused (`Dangling`), and a delete
clears the rows that named it (`Removed`). An exception no handler catches ends
the receiver thread (`Die`): the frames on the socket are lost, until `Restart`.

What is abstracted: the instrument, experiment and user tables; the texts,
outputs and times of a record; the delay of a retry; the script's contents.

`_send_pending_msg` connects, sends and disconnects, and any of the three may raise.
Before the message is out, the views delete the new row, which is what
`WebSendFails` is for. After it is out they delete the row just the same
(`reduction_viewer/views.py:196`): its reports find no record, and a later re-run
may be given its version again. `WebSendFails` has both cases and notes the second
in `withdrawn`; `SendCancel` raises with or without its message out. `NodeStart`
may leave the start unannounced, because `send_reduction_message` passes an
AttributeError over.

### AutoreductionListener

A message is a record of instrument, run, version, RB number and whether it is a
cancellation; a number keeps its JSON type, because tuples with "2" and 2
differ. One step is one operation on a list: each of the two threads is
somewhere in `on_message` or `hold_message`, `update_child_process_list` is
walked poll by poll (`PollChild`, `FindIndex`, `PopProcess`, `PopRb`), with
Python's cursor over a list that shrinks under it. `Popen` is apart from
`AppendProcess` and `AppendRb`. `Serial = TRUE` lets a call begin only when the
other thread's has ended: it shows that the lists' discipline is right in
itself; `Serial = FALSE` is the program.

`reactor` is Twisted's main loop as far as `callLater` depends on it. A held message
is first one of its `new` calls; when the loop is `awake` it takes these over
(`Listen`) and sleeps until the first call it knows of is due (`hold_message`).
`callLater` is not thread-safe and wakes nobody, and `hold_message` calls it in
stomp's thread too: the call may fall between the loop's going through the new
calls and its putting an empty list in their place, and is then `lost`, or it comes
when the loop sleeps with no call to make. Only the exit of one of its `own`
children (SIGCHLD) wakes it then; when that child has exited before, the message
stays held (`Unheard`).

### PostProcessAdmin

Each job goes through its steps in `job[j].pc`; `text` is what
`message.message` holds as far as the report depends on it. `temp` and
`archive` say which directories exist and **whose files are in them**; that is
what copying the wrong ones would show. `RemoveOld` and `Copy` run twice for a
script that raises, because the except block copies and then *returns* its
exception. `failed` are the jobs that an operation has failed for, at however many
of its steps, or that were killed; `MaxFaults` bounds these jobs. A job starts only
when no other of its RB number is active, as the listener intends. A start that
cannot be sent is an error, but for an AttributeError, which
`send_reduction_message` passes over: the job goes on unannounced (`SendStarted`,
`test_send_reduction_message_exception`). `ReductionJob` therefore allows an
outcome without a start to a job that an operation has failed for, and to no other;
and to no job two outcomes.

### RunDetection

`lastrun.txt` grows, files arrive before or after, and `Monitors` processes
compete for the lock. A monitor walks the CSV file's rows (`ReadLastRun`),
submits run by run (`SubmitRun`) and writes the file at the end: opening it
empties it (`OpenCsv`), writing it (`WriteCsv`) is another step. `Digits` gives
the length of a run number: the code puts the zeros of the last run before
every run it looks for. `Invalid` are runs whose message does not validate.

### InstrumentVariables

One step writes one row, because every `save()` commits on its own; a request
reads what it needs, then holds the list of rows it is going to write.

| variable | code |
|---|---|
| `rows`, `nextId` | rows of InstrumentVariable: name, value, `start_run`, `experiment_reference`, `tracks_script` |
| `script` | the variables of `reduce_vars.py`, or that it cannot be read |
| `filed` | run -> what its RunVariables say |
| `qp` | `create_variables_for_run` of the queue processor: which rows it holds, what it has still to save |
| `web` | each session's request: `plan` is what it does once the set is looked up, `writes` what it has still to write |

`pc`, `plan`, `held` and `writes` are the code's; `alone` (nobody else has written
since) and `was` (the values the runs had before) are history that the
properties speak of. Python 3's `map` is lazy: where the code maps `delete`,
`save` or `setattr` over a list and drops the result nothing happens, and nothing
happens in the model. The order of the rows in a query is not specified:
`SetToSeq` chooses one, and the proofs hold for whichever it is. Types of values,
help texts and the parsing of the form are left out, but for names the form does
not give back (`Hyphenated`).

### ICATCache

One step is one access to the database, one call of a function of
`ICATCommunication`, or its connection: between any two of them another request
may do the same, time may pass and rights may change.

| variable | code |
|---|---|
| `now` | the clock, in steps of which `CACHE_LIFETIME` and `SESSION_COOKIE_AGE` are `Lifetime` and `SessionAge` |
| `rights`, `reachable` | ICAT: what it would answer of a user now; whether it answers |
| `said` | history: when ICAT has last said what of a user. "ICAT has said so since" is what the properties speak of |
| `cache`, `nextId` | rows of UserCache and ExperimentCache: whom they are `of`, `created`, what they say |
| `users`, `session` | `is_superuser`; the sessions, with the time of the log-in |
| `req` | each browser's request: `asks` is the attribute it looks up, `old` the rows that were there, `column` and `says` a refresh, `got` what it has learned, `super` whether it was opened as an administrator's |

`LookUp` is `check_cache` up to its `try`; `open_icat`, `Query` (a column at a
time), `update_cache` and `cull_invalid` are the refresh. `Index`, `Permissions`,
`SaveUser` and `LogIn` are `index` and `authenticate`; `OpenPage` and
`check_permissions` are the decorators, `Granted` with the details that
`experiment_summary` asks for afterwards. An exception ends a request (`Raised`),
the end of the `with` statement may raise another (`Closed`), a worker may be
killed at any step (`Kill`).

The settings modelled are those of an installation in use: `USER_ACCESS_CHECKS`
on and `DEVELOPMENT_MODE` off. `Patience` stands for the web server's limit on a
request: the clock does not pass it while the request goes on, and without it a
permission could be as old as a request may take. `require_staff`, which no page
uses, `InstrumentCache`, the columns no answer depends on and notifications are
left out; look-ups of left-out columns are kept, because they refresh rows.

## What the runs check

Runs that pass:

| run | properties | bounds and why they are enough |
|---|---|---|
| `QueueProcessorOneWriter` | types; `UniqueVersions`; `JobsAreRecorded`; `SkippedNotReduced`; `ReducedOnce`; `ReductionsAreLocated`; `CompletedStays`; `LifecycleSpec` (refinement) | two runs, one of them filed under RB number 0; two submissions, a retry, a fault, four rows, two frames on the socket: a Complete before its Started, a second version beside a retry, a kill between any two saves |
| `QueueProcessorWeb` | `JobsAreRecorded`; `ReductionsAreLocated`; `QueuedNotForgotten` | one run, one session, two posts, one fault: a re-run of a failed run, its cancellation, and each step of either failing, the disconnect after a message included, whose re-run the first two properties except (`withdrawn`) |
| `QueueProcessorSettle` | `EveryRunSettles` under fairness | three submissions of two runs; no faults and reports in order, without which the property does not hold |
| `ListenerSerial` | `OneReductionPerRB`, `ChildrenAreListed`, `CancelledNotStarted`, `EveryJobServed` under fairness | two experiments with two jobs each, and a cancellation that names no version; calls of stomp's thread that the reactor loses or sleeps over are named by `EveryJobServed` as exceptions |
| `ListenerThreads` | `CancelUsedOnce` with the threads as they are and a restart | one run number on two instruments, and one cancellation |
| `PostProcessAdmin` | `CompleteHasResults`; `ResultsUnmixed`; `EarlierResultsKept`; `JobSpec` (refinement); `JobsReport` under fairness | two versions of a run, one overwriting, two runs in one excitation directory; one of the jobs killed, or with operations that fail at any of its steps |
| `RunDetection` | `NoneSkipped`; `SubmittedOnce`; `EveryRunSubmitted` under fairness | two instruments with three runs, the third with a longer number, one of them invalid; two monitors, one fault; deadlock is checked |
| `InstrumentVariables` | types; `RangesMatch`; `EditKeepsOtherRuns`; `ViewKeepsValues` | three run numbers, one to be filed; an empty table, one with defaults and an edited set, one with rows of an experiment and a set that tracks the script from run 3; one request of any kind beside the queue processor, one change of the script: an edit before, between and after existing sets |
| `ICATCache` | types; `AnswersAreRecent`; `AdministratorsAreRecent`; `KnownStaysCached` | one user with two browsers, one instrument, one experiment, an investigation without a number; a row, a session and a request last one each and the clock goes to 4, so that what was said at first is too old at the end; three requests, of which two refresh an expired row at once; one change, failure or kill. Pages about a run, which always raise, and `load_runs`, whose checks are those of a summary, are left out of the instance |

Runs that show where the code does not do what its own text says:

| run | what happens |
|---|---|
| `QueueProcessorDuplicate` | "so we don't create a duplicate" (`reduction_viewer/utils.py:162`): the listener and a re-run read the same highest version and both file the next |
| `ListenerRace` | "Duplicate RB run, waiting for the first to finish" (`autoreduction_processor.py:106`): both threads pass the test before either appends |
| `InstrumentVariablesRange` | "used for subsequent runs in the given run range" (`reduction_variables/utils.py:314`): with the defaults in force and a set planned from run 3 on, run 2 is filed with the planned set: the queue processor takes the rows that start at the run itself, or else the set with the greatest start, whatever its range |

Also visible in the models, and kept out of the properties instead of being
claimed: a disconnect that raises after a re-run's message has been sent deletes
the row of a run that will be reduced; an AttributeError while a start is sent is
passed over; `callLater` is called from stomp's thread and may lose a job or leave
it waiting; a cancel flag is lost when a report's save follows it; `cancelRun` and
hiding save records as they were read, and can put a completed run back;
a missing `reduce.py` is reported through a record that has not been filed;
the retry of `reduction_error` is filed but its message is never built; the
error of a script is returned where its comment speaks of the "parent except
block" (`post_process_admin.py:351`), and the report says that a copy failed; RB
numbers of two types are two experiments to `rb_list`, and the monitor's run
number, a string, is another than the web application's integer in `cancel_list`
("Add this run to the cancel list, to cancel it next time it comes up",
`autoreduction_processor.py:122`); a restarted node forgets its children; a
cancellation matches whatever the instrument; two sessions that re-run and
cancel can leave a row queued, and so can one session and a second `data_ready`
(see `QueuedNotForgottenOnce` below); a run that does not validate ends the monitor
before the file is written ("The last observed run is updated whenever EoRM
submits a new run", `monitors/README.md:13`). `QueuedNotForgotten` is
therefore checked and proved for one session and one `data_ready`, and speaks of
the time until the first fault; `OneReductionPerRB` speaks of no restart,
`SubmittedOnce` of runs that validate and monitors that finish. Of variables: the sets a new range covers are not deleted, because the `map` that
would is lazy; rows of an experiment keep `start_run` 0 and so take part in
look-ups by run; defaults are saved again each time they are asked for; two
sessions that move a set conflict, and a save of a row as it was read undoes
the other's; a re-run from the failed queue gets no RunVariables. What is said
of requests is therefore said of those nobody disturbs (`alone`). Of permissions:
"If ICAT is unavailable, use a local copy if it exists" (`icat_cache.py:109`) never
happens, because the handler in `open_icat` raises an AttributeError
(`type(excep).__name`) before the exception that is expected; a search for an
experiment that fails is kept as "N/A" for a lifetime; a page about a run always
raises, because two `map` objects cannot be added, and so does an experiment page
for a user with an investigation whose name is no number; `index` looks for
'sessionId' where 'sessionid' is stored, and raises for who is logged in.

### Fairness

* `QueueProcessor`: the listener's thread goes on, the daemon is restarted (the
  daemon's own timer restarts it), the broker delivers, the node takes messages
  and a job reports. That the node serves every message leaves out those its reactor
  loses or sleeps over, which `AutoreductionListener` has. Nothing is assumed of
  submissions, users or faults.
* `AutoreductionListener`: weak fairness of each thread's step, of the reactor's
  loop while it is awake (`Listen`) and of a child's exit (`TimeOut` ends a script);
  strong fairness of delivery and, for each message, of the reactor's call, since
  each can be disabled again and again while the other thread is at work. A call is
  only enabled when the reactor knows of it: nothing is assumed of a message that
  `callLater` left to a sleeping reactor.
* `PostProcessAdmin`: a process that was started takes its steps; the script
  returns or is timed out. Nothing makes a job start.
* `RunDetection`: cron keeps starting some monitor; one that has started works
  on. Nothing is assumed of instruments and files.

## What is proved

For every set of runs, sessions and row identifiers and every bound
(`QueueProcessor_proofs`):

* `TypeCorrect`: `Spec => []TypeOK`.
* `Invariance`: `Spec => []IInv`, the inductive strengthening. Types alone are not
  inductive: `NextVersion` is a number only because the versions of a run have a
  maximum, so `VersionsBounded` keeps every version, filed or held, below
  `nextId`; a row's `retry` can be followed only because the new row of a retry
  belongs to the actor that made it until it is linked (`NewRowsKept`); rows are
  saved only under identifiers given out (`IdsGivenOut`). `LeastExists` and
  `GreatestExists` (`Extrema`) supply what `.first()` and the highest version rest on.

For any number of sessions, restarts and faults (also `QueueProcessor_proofs`):

* `JobsRecorded` (`JobsAreRecorded`) and `ReductionsLocated`. Rows are taken back
  when a step after their filing fails, and records read long ago are saved
  again, so `SentInv` says who may still take a row back and what an identifier
  stands for in everybody's memory: every record held under an identifier is of
  one run and version (`Identified`), a new row is in the hands of one actor that
  alone may delete it (`Kept`, `NewRowHeld`), and every message to the node, every
  job and every report has a row that nobody may take back and that has a location
  (`JobsKept`, `Reducible`). Excepted is what is `withdrawn`: a re-run whose row the
  session deleted because the disconnect after its message raised.

No queued run is forgotten (`QueuedNotForgotten`): until the first fault, a row that
is queued is in somebody's hands. The property asks that something is under way;
the proof says what it is. `RememberInv` names, for every queued row, the actor
that has it and is about to send it, or the message, job or report that will move
it on, and keeps cancellations apart, because a cancelled message moves nothing.
`MaxRetries = 0` is assumed in all three theorems: the new run of `reduction_error`
is filed and never sent.

* `QueuedIsRemembered`, with one session at most: the property holds as long as
  versions are unique (a report is saved under the first row of its version) and no
  report is held whose record names a deleted retry (`Orderly`). Both are what a
  session beside the listener can break.
* `QueuedNotForgottenOnce`, with one session at most, one `data_ready` at most and no
  calibration run, has no such premiss. The one `data_ready` is in one place
  (`ReadyOnce`), nothing is filed before it has been (`NothingFiled`), and until its row
  has been handed on there is no other (`FiledAlone`). A session therefore files only
  when the listener files nothing (`VersionFresh`). It takes a new row back only when
  the row it repeats had no location, and then nothing of the run has been sent
  (`StrayUnsent`), so that no report can hold a record that names it (`ReportLinked`).
* `QueuedNotForgottenAlone` (`OneWriter_proofs`), with no session: any number of
  submissions and of runs, calibration runs among them.

The bounds of `QueuedNotForgottenOnce` cannot be dropped. With one session, two `data_ready` of a calibration run
and no fault, TLC finds a session that repeats the paused or skipped run before the
listener has saved its location; `WebSendFails` deletes the new row while the
listener holds a report of the old one, whose `retry_run` names it; the save is
refused, the thread dies, and another run's report is lost with its inbox.

With the listener as the only writer, `Sessions = {}` (`OneWriter_proofs`):

* `UniqueVersionsAlone`: `Spec => []UniqueVersions`, whatever is killed, raises or
  overtakes. The strengthening says that the version about to be filed is above
  all of its run's (`VersionAbove`) and that the record held is still the one in
  the table (`RecordHeld`, `StatusHeld`).
* `LifecycleAlone`: `Spec => LifecycleSpec`, the table implements `RunLifecycle`.
* `ReducedOnceAlone`, `SkippedNotReducedAlone`, `CompletedStaysAlone`. A reduction
  and its last report are one token that is handed on: the message that asks for
  it, the job on the node, the report in a queue, on the socket or in the
  handler. `TokenInv` says that no version has two, that a completed record has
  none left, and that a skipped one has none that would reduce it. A version that
  is being filed has none yet (`FiledFresh`), because its number is above every
  one in the table and whatever has been sent is in the table (`SentInv`).

One writer is assumed for a reason: with a session beside the listener versions
are not unique (`QueueProcessorDuplicate`), and `cancelRun` or hiding can save over
a record that has been completed meanwhile.

For every set of messages (`AutoreductionListener_proofs`):

* `TypeCorrect`, with or without the interleaving of the threads.
* `CancelOnce` (`CancelUsedOnce`), for the threads as they are, any number of
  restarts and any finite set of messages (the counts of cancellations are
  cardinalities). A message is in one place, however the threads' steps fall
  (`OnePlace`), and what has been dropped for a run, with what is still noted for
  it, is no more than the cancellations that have been handled (`UsedOnce`).
* `SerialChildrenListed`, `SerialOneReductionPerRB` and `SerialCancelledNotStarted`
  hold when the calls do not overlap (`Serial`) and until the daemon is restarted:
  the run `ListenerRace` shows the first is needed, and a restarted daemon has
  empty lists beside its old children. `SerialInv` follows the two lists through
  `Pop` and `Append`, where one of them is ahead of the other. An experiment must
  have a number of one type; for the cancellation also a run, and a job must be
  the only one with its run and version, because the list knows no instrument.

For every set of jobs and directories (`PostProcessAdmin_proofs`):

* `TypeCorrect`, `ResultsOnCompletion` (`CompleteHasResults`) and `JobImplemented`
  (`JobSpec`). The strengthening: result paths are bounded (`PathsBounded`), jobs of
  one experiment are never active together (`Alone`), what a job has written is in
  its temporary directory while it copies (`TempHolds`) and in its results once a
  copy has succeeded and nothing has been noted as failing (`Copied`), and what has
  been reported fits the step it is at (`ReportsHeld`): nothing before the start, and
  after it the start, or nothing if an operation of the job has failed. A job that is not alone in
  its directories would break `TempHolds`: another's deletion, between its script
  and its copy.
* `NothingFromOthers` (`ResultsUnmixed`): while nothing has failed a temporary
  directory is of one job at work and holds nothing of another (`NothingMixed`).
* `LeftAsReported` (`EarlierResultsKept`): no process at work calls the directory
  of a completed version its own, unless it is to overwrite it and has started
  (`OldKept`). The property speaks of the time until a job that overwrites has come
  to its directory, or to its end, because from there on it may remove the old
  results.

For any number of instruments, runs and monitors (`RunDetection_proofs`):

* `TypeCorrect` and `NonePassedOver` (`NoneSkipped`). The file says nothing of how a
  row came to be in it; the strengthening follows the rows into the monitors that
  carry them: what a monitor has collected was submitted, and so was every run
  before the one it is at (`RowsSubmitted`), within the file's rows and what
  `lastrun.txt` said (`InBounds`). The lock has no part in this argument.
* `NoneTwice` (`SubmittedOnce`) does rest on the lock: one monitor is at work
  (`OneAtATime`), and nothing beyond what is in the file, or in this monitor's
  hands, has been submitted (`OnceInv`).

For every table, script, set of sessions and bound (`InstrumentVariables_proofs`):

* `TypeCorrect`.
* `RangesAgree` (`RangesMatch`): in any table the ranges displayed are those of the
  sets `show_variables_for_run` finds.
* `ViewsKeepSets` (`ViewKeepsValues`): while nobody else writes, a page that is
  displayed saves rows where they are and as they are, and adds none but from run 0
  on (`ViewInv`). It may delete rows, whose variable the script no longer has: what
  is left of a run's set governs the run with the values it had, and of a set that
  is deleted as a whole, as by a script that cannot be read, nothing is claimed.
* `EditsKeepOthers` (`EditKeepsOtherRuns`). Between its writes the table of a
  request is neither the old nor the new one, so `SetInv` speaks of the table there
  will be when all of its writes are made: in that one every run outside the
  range has the values it had. A write of the list does not change that table
  (`AfterWrites`), whatever the order of the list, and the list as it is planned
  leads there (`SetPlanned`).

For every set of users, browsers, pages and rights, and any lifetimes (`ICATCache_proofs`):

* `TypeCorrect`, with `ShapeInv`: at each of its places a request has learned the
  columns, and got the attributes, that the code will ask of it.
* `RecentAnswers` (`AnswersAreRecent`). `RecentInv` bounds the age of every copy when
  it is taken from another: a row is of a request that began `Patience` before at
  most, a request uses rows younger than `Lifetime` or what it has learned itself,
  and the grounds of an answer (`Grounds`) are what the request has got.
* `RecentAdministrators` (`AdministratorsAreRecent`). A flag may be overwritten by a
  log-in that began earlier, so `FlagInv` bounds it for every session and every
  log-in under way (`SessionFlag`, `Welcomed`), not by who saved it.
* `KnownStays` (`KnownStaysCached`). Requests cull rows that others cull too; a row
  newer than all it culls is there when a request begins to (`OldRows`), and if
  another culls that one, it leaves a newer one in turn (`CullLeaves`).

Proofs use the named assumptions on constants (`CalibrationAssumption`,
`RowIdsAssumption`, `BoundsAssumption`, ...), which TLC evaluates in the runs,
and the hypotheses stated with the theorems above. Only model-checked: liveness
(`EveryRunSettles`, `EveryJobServed`, `JobsReport`, `EveryRunSubmitted`), which
this prover does not do under fairness. Every other property of a passing run is
stated by a theorem, some under the hypotheses given with it.

## Not modelled

What is left out of a modelled part is named with its module above. Pages that
only read, templates, plotting, the data archive, paths, service clients, Mantid
containers, installation and Nagios checks keep no state that a protocol depends
on. Pagination, the daemons' pid files, manual removal, scheduler ingestion and
the database reset are planned:

1. `Pipeline`: `RunDetection`, `QueueProcessor` and `ReductionJob` composed, so
   that every run an instrument ends has a reduction that settles.
2. `DaemonControl` (pid file, restart timer, `restart.sh`), against an abstract
   "at most one listener".
3. `Pagination` (a pure algorithm), `ManualRemove`
   (deleting rows the listener holds), `DatabaseReset`.
