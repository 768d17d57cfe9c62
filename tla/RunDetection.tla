---------------------------- MODULE RunDetection ----------------------------
(***************************************************************************)
(* The end-of-run monitor (monitors/run_detection.py).  cron starts it     *)
(* every minute; it compares the last run each instrument has written with *)
(* the last one its CSV file records, sends the runs in between to         *)
(* /queue/DataReady and writes the CSV file once, when it has been through *)
(* all the instruments.                                                    *)
(***************************************************************************)
EXTENDS Integers, Sequences

CONSTANTS
  Rows,         \* the number of instruments, one for each row of the CSV file
  MaxRun,       \* bound on the runs of an instrument
  Digits,       \* the number of digits of each run number
  Monitors,     \* processes cron may have started at the same time
  NoOne,        \* the lock is free
  Invalid,      \* (row, run) pairs whose RB number does not validate
  MaxFaults     \* bound on unreadable files and killed processes

Instruments == 1..Rows
RunNumbers == 1..MaxRun

ASSUME BoundsAssumption == Rows \in Nat /\ MaxRun \in Nat /\ MaxFaults \in Nat
ASSUME DigitsAssumption ==
  Digits \in [RunNumbers -> Nat] /\ \A n \in RunNumbers : \A i \in 1..n : Digits[i] <= Digits[n]
ASSUME NoOneAssumption == NoOne \notin Monitors
ASSUME InvalidAssumption == Invalid \subseteq Instruments \X RunNumbers

VARIABLES
  lastrun,      \* lastrun.txt of every instrument
  files,        \* data files that are in the archive
  csv,          \* the last runs that are recorded, row by row
  sent,         \* how often a run has been submitted, counted up to two
  lock,         \* who has the lock on the CSV file
  mon,          \* what each monitor is doing, and the rows it is going to write
  faults

vars == <<lastrun, files, csv, sent, lock, mon, faults>>

Idle == [pc |-> "idle", out |-> <<>>]

Init ==
  /\ lastrun = [k \in Instruments |-> 0] /\ files = {}
  /\ csv = [k \in Instruments |-> 0]
  /\ sent = [run \in Instruments \X RunNumbers |-> 0]
  /\ lock = NoOne /\ mon = [m \in Monitors |-> Idle] /\ faults = 0

Go(m, s) == mon' = [mon EXCEPT ![m] = s]
Release(m) == lock' = NoOne /\ Go(m, Idle)
Fault == faults < MaxFaults /\ faults' = faults + 1
-----------------------------------------------------------------------------
\* An instrument ends a run; the data file reaches the archive before or after that.
EndRun(k) ==
  /\ lastrun[k] < MaxRun
  /\ lastrun' = [lastrun EXCEPT ![k] = @ + 1]
  /\ UNCHANGED <<files, csv, sent, lock, mon, faults>>

FileArrives(k, n) ==
  /\ <<k, n>> \notin files /\ n <= lastrun[k] + 1
  /\ files' = files \cup {<<k, n>>}
  /\ UNCHANGED <<lastrun, csv, sent, lock, mon, faults>>
-----------------------------------------------------------------------------
\* Mutation: another monitor's lock is not respected.
AcquireAlways(m) ==
  /\ mon[m].pc = "idle"
  /\ lock' = m /\ Go(m, [pc |-> "row", out |-> <<>>])
  /\ UNCHANGED <<lastrun, files, csv, sent, faults>>

\* A monitor that does not get the lock within a second ends.
Acquire(m) ==
  /\ mon[m].pc = "idle" /\ lock = NoOne
  /\ lock' = m /\ Go(m, [pc |-> "row", out |-> <<>>])
  /\ UNCHANGED <<lastrun, files, csv, sent, faults>>

\* The row m is at, and the row done with its last run recorded as n.
Row(m) == Len(mon[m].out) + 1
Done(m, n) == Go(m, [pc |-> "row", out |-> Append(mon[m].out, n)])

\* submit_run_difference, up to its loop; a malformed file leaves the row as it is.
ReadLastRun(m) ==
  /\ mon[m].pc = "row" /\ Row(m) <= Len(csv)
  /\ LET k == Row(m) IN
       \/ Fault /\ Done(m, csv[k])
       \/ lastrun[k] <= csv[k] /\ Done(m, lastrun[k]) /\ UNCHANGED faults
       \/ /\ lastrun[k] > csv[k] /\ UNCHANGED faults
          /\ Go(m, [pc |-> "submit", out |-> mon[m].out, run |-> csv[k] + 1, to |-> lastrun[k]])
  /\ UNCHANGED <<lastrun, files, csv, sent, lock>>

Send(run) == sent' = [sent EXCEPT ![run] = IF @ = 2 THEN 2 ELSE @ + 1]

\* Mutation: a run whose file is missing is recorded as seen.
MissingFileSeen(m) == Done(m, mon[m].run)

\* The last run that was sent is recorded, to try again next time.
MissingFile(m) == Done(m, mon[m].run - 1)

\* Mutation: the loop goes one run too far.
ProceedBeyond(m) ==
  IF mon[m].run > mon[m].to THEN Done(m, mon[m].to) ELSE Go(m, [mon[m] EXCEPT !.run = @ + 1])

Proceed(m) ==
  IF mon[m].run = mon[m].to THEN Done(m, mon[m].to) ELSE Go(m, [mon[m] EXCEPT !.run = @ + 1])

(***************************************************************************)
(* The file of a run is looked for under its number with as many leading   *)
(* zeros as the last run has, so that it is found only when both numbers   *)
(* are equally long.                                                       *)
(***************************************************************************)
Found(m) == <<Row(m), mon[m].run>> \in files /\ Digits[mon[m].run] = Digits[mon[m].to]

(***************************************************************************)
(* submit_run: a missing file ends the instrument's turn, and the          *)
(* RuntimeError of a message that does not validate ends the monitor.      *)
(***************************************************************************)
SubmitRun(m) ==
  /\ mon[m].pc = "submit"
  /\ LET run == <<Row(m), mon[m].run>>
     IN  \/ ~Found(m) /\ MissingFile(m) /\ UNCHANGED <<sent, lock>>
         \/ Found(m) /\ run \in Invalid /\ Release(m) /\ UNCHANGED sent
         \/ /\ Found(m) /\ run \notin Invalid
            /\ Send(run)
            /\ Proceed(m)
            /\ UNCHANGED lock
  /\ UNCHANGED <<lastrun, files, csv, faults>>

\* Opening the file to write empties it.
OpenCsv(m) ==
  /\ mon[m].pc = "row" /\ Row(m) > Len(csv)
  /\ csv' = <<>>
  /\ Go(m, [mon[m] EXCEPT !.pc = "write"])
  /\ UNCHANGED <<lastrun, files, sent, lock, faults>>

\* Mutation: the lock is not released.
WriteCsvLocked(m) ==
  /\ mon[m].pc = "write"
  /\ csv' = mon[m].out
  /\ Go(m, Idle)
  /\ UNCHANGED <<lastrun, files, sent, lock, faults>>

WriteCsv(m) ==
  /\ mon[m].pc = "write"
  /\ csv' = mon[m].out
  /\ Release(m)
  /\ UNCHANGED <<lastrun, files, sent, faults>>

(***************************************************************************)
(* The process is killed, or an exception other than                       *)
(* InstrumentMonitorError ends it: the operating system frees the lock,    *)
(* and of a file that is being written some first rows remain.             *)
(***************************************************************************)
Kill(m) ==
  /\ mon[m].pc # "idle" /\ Fault
  /\ Release(m)
  /\ IF mon[m].pc = "write"
       THEN \E k \in 0..Len(mon[m].out) : csv' = SubSeq(mon[m].out, 1, k)
       ELSE UNCHANGED csv
  /\ UNCHANGED <<lastrun, files, sent>>

Work(m) == ReadLastRun(m) \/ SubmitRun(m) \/ OpenCsv(m) \/ WriteCsv(m)

Next ==
  \/ \E k \in Instruments : EndRun(k) \/ \E n \in RunNumbers : FileArrives(k, n)
  \/ \E m \in Monitors : Acquire(m) \/ Work(m) \/ Kill(m)

Spec == Init /\ [][Next]_vars

\* cron keeps starting the monitor, and a monitor that has started goes on.
FairSpec ==
  /\ Spec
  /\ WF_vars(\E m \in Monitors : Acquire(m)) /\ \A m \in Monitors : WF_vars(Work(m))
-----------------------------------------------------------------------------
MonitorState ==
  [pc : {"idle", "row", "write"}, out : Seq(0..MaxRun)]
  \cup [pc : {"submit"}, out : Seq(0..MaxRun), run : RunNumbers, to : RunNumbers]

\* The files, the counts and what the monitors hold are of their types.
TypeOK ==
  /\ lastrun \in [Instruments -> 0..MaxRun] /\ files \subseteq Instruments \X RunNumbers
  /\ csv \in Seq(0..MaxRun) /\ Len(csv) <= Rows
  /\ sent \in [Instruments \X RunNumbers -> 0..2]
  /\ lock \in Monitors \cup {NoOne} /\ mon \in [Monitors -> MonitorState]
  /\ faults \in 0..MaxFaults

(***************************************************************************)
(* A run that counts as observed has been submitted: none is passed over,  *)
(* whatever is missing, unreadable or killed.                              *)
(***************************************************************************)
NoneSkipped ==
  \A k \in DOMAIN csv : \A n \in 1..csv[k] : sent[<<k, n>>] > 0

(***************************************************************************)
(* Nothing is submitted twice, however many monitors cron has started,     *)
(* unless one was killed or could not read a file, or met a run that does  *)
(* not validate.                                                           *)
(***************************************************************************)
SubmittedOnce ==
  faults = 0 /\ files \cap Invalid = {} => \A run \in DOMAIN sent : sent[run] < 2

\* The CSV file has lost the row, and nobody looks at the instrument any more.
Lost(k) == lock = NoOne /\ k > Len(csv)

(***************************************************************************)
(* A run that has ended is submitted once its file and those of the runs   *)
(* before it are there, also when a monitor is killed on the way, unless   *)
(* it is killed while it writes and takes the instrument's row with it, or *)
(* a run that does not validate keeps every monitor from its work, or the  *)
(* run numbers have become longer since the last one on record.            *)
(***************************************************************************)
Blocked(k) ==
  \/ files \cap Invalid # {}
  \/ k \in DOMAIN csv /\ csv[k] < lastrun[k] /\ Digits[csv[k] + 1] < Digits[lastrun[k]]
Ready(k, n) == n <= lastrun[k] /\ \A i \in 1..n : <<k, i>> \in files
EveryRunSubmitted ==
  \A k \in Instruments, n \in RunNumbers : Ready(k, n) ~> (sent[<<k, n>>] > 0 \/ Lost(k) \/ Blocked(k))
=============================================================================
