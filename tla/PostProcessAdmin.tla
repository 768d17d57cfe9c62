-------------------------- MODULE PostProcessAdmin --------------------------
(***************************************************************************)
(* One child process of the reduction node for each job                    *)
(* (queue_processors/autoreduction_processor/post_process_admin.py): it    *)
(* runs the instrument's reduce.py in a temporary directory, copies what   *)
(* the script wrote to a numbered directory of the archive, and reports.   *)
(*                                                                         *)
(* All versions of a run work in the same temporary directory, and so do   *)
(* all runs of an experiment on an excitation instrument.  What matters of *)
(* a directory is whose files are in it.                                   *)
(***************************************************************************)
EXTENDS Integers, Sequences, FiniteSets

CONSTANTS
  Jobs,         \* the child processes
  Dirs,         \* run directories, or experiment directories of excitation instruments
  Dir,          \* the directory of each job's results
  Overwrites,   \* jobs that were asked to overwrite the run's first version
  Excitation,   \* directories of excitation instruments: never removed before a copy
  Rb,           \* the experiment of each job: the listener lets two of one not overlap
  MaxFaults     \* bound on the jobs with failing operations or a killed process

ASSUME DirAssumption ==
  /\ Dir \in [Jobs -> Dirs] /\ Overwrites \subseteq Jobs /\ Excitation \subseteq Dirs
\* The RB number is part of the directory's name.
ASSUME RbAssumption == \A i, j \in Jobs : Dir[i] = Dir[j] => Rb[i] = Rb[j]
ASSUME BoundsAssumption == MaxFaults \in Nat

VARIABLES
  job,       \* each process: where it is, its result directory and message.message
  temp,      \* temporary directories that exist -> jobs that have written there
  archive,   \* result directories that exist -> jobs whose files they hold
  sent,      \* what each process has sent, in order
  failed     \* (history) jobs that an operation has failed for, or that were killed

vars == <<job, temp, archive, sent, failed>>

\* message.message, as far as determine_reduction_status and a reader tell it apart.
Text == {"none", "skip", "script", "copy", "other"}
Report == {"Started", "Complete", "Error", "Skipped"}
Active == {j \in Jobs : job[j].pc \notin {"idle", "gone"}}
Path(j) == <<Dir[j], job[j].version>>
Paths == DOMAIN archive

Init ==
  /\ job = [j \in Jobs |-> [pc |-> "idle", version |-> 0, text |-> "none",
                            script |-> "none", failing |-> FALSE]]
  /\ temp = [d \in {} |-> {}] /\ archive = [p \in {} |-> {}]
  /\ sent = [j \in Jobs |-> <<>>] /\ failed = {}

Move(j, s) == job' = [job EXCEPT ![j] = s]
Goto(j, pc) == Move(j, [job[j] EXCEPT !.pc = pc])

\* The process ends, and what it knew is lost; its result directory keeps its name.
Exit(j) ==
  Move(j, [job[j] EXCEPT !.pc = "gone", !.text = "none", !.script = "none", !.failing = FALSE])

Fault(j) == failed' = failed \cup {j} /\ Cardinality(failed') <= MaxFaults
SendReport(j, d) == sent' = [sent EXCEPT ![j] = Append(@, d)]

\* An exception that reduce() catches: its text replaces any other, the report follows.
Except(j, text) == Move(j, [job[j] EXCEPT !.pc = "report", !.text = text])

\* log_and_message: only the first text is kept.
LogAndMessage(j, pc) ==
  Move(j, [job[j] EXCEPT !.pc = pc, !.text = IF job[j].text = "none" THEN "copy" ELSE job[j].text])

At(f, x, S) == [y \in DOMAIN f \cup {x} |-> IF y = x THEN S ELSE f[y]]
Drop(f, x) == [y \in DOMAIN f \ {x} |-> f[y]]
Files(f, x) == IF x \in DOMAIN f THEN f[x] ELSE {}
-----------------------------------------------------------------------------
\* main: the process connects to the broker and reads its message.
Start(j) ==
  /\ job[j].pc = "idle"
  /\ \A k \in Active : Rb[k] # Rb[j]
  /\ Goto(j, "started")
  /\ UNCHANGED <<temp, archive, sent, failed>>

(***************************************************************************)
(* No connection: main's handler wants to report a message that has not    *)
(* been read yet, and the process exits.                                   *)
(***************************************************************************)
ConnectFails(j) ==
  /\ job[j].pc = "idle" /\ Fault(j)
  /\ Exit(j)
  /\ UNCHANGED <<temp, archive, sent>>

\* The constructor refuses a message with a missing or malformed field: main reports it.
Abort(j) ==
  /\ job[j].pc = "started" /\ Fault(j)
  /\ SendReport(j, "Error")
  /\ Exit(j)
  /\ UNCHANGED <<temp, archive>>

(***************************************************************************)
(* send_reduction_message passes an AttributeError over, and the job goes  *)
(* on unannounced; reduce() reports any other exception as an error.       *)
(***************************************************************************)
SendStarted(j) ==
  /\ job[j].pc = "started"
  /\ \/ SendReport(j, "Started") /\ Goto(j, "path") /\ UNCHANGED failed
     \/ Fault(j) /\ (Goto(j, "path") \/ Except(j, "other")) /\ UNCHANGED sent
  /\ UNCHANGED <<temp, archive>>

\* Mutation: the -1 that stands for no version is not incremented.
NewPathNone(j) ==
  LET V == {v \in {p[2] : p \in Paths} : <<Dir[j], v>> \in Paths} IN
    IF j \in Overwrites THEN 0 ELSE IF V = {} THEN -1 ELSE CHOOSE v \in V : \A w \in V : w <= v

\* Mutation: the highest version is used, not the one above it.
NewPathSame(j) ==
  LET V == {v \in {p[2] : p \in Paths} : <<Dir[j], v>> \in Paths} IN
    IF j \in Overwrites \/ V = {} THEN 0 ELSE CHOOSE v \in V : \A w \in V : w <= v

\* _new_reduction_data_path
NewPath(j) ==
  LET V == {v \in {p[2] : p \in Paths} : <<Dir[j], v>> \in Paths} IN
    IF j \in Overwrites \/ V = {} THEN 0 ELSE (CHOOSE v \in V : \A w \in V : w <= v) + 1

ChoosePath(j) ==
  /\ job[j].pc = "path"
  /\ Move(j, [job[j] EXCEPT !.pc = "make", !.version = NewPath(j)])
  /\ UNCHANGED <<temp, archive, sent, failed>>

(***************************************************************************)
(* create_directory makes the temporary directory before that of the       *)
(* archive; it, or the access checks after it, may raise.                  *)
(***************************************************************************)
MakeDirectories(j) ==
  /\ job[j].pc = "make"
  /\ LET t == At(temp, Dir[j], Files(temp, Dir[j]))
         a == At(archive, Path(j), Files(archive, Path(j)))
     IN  \/ temp' = t /\ archive' = a /\ Goto(j, "script") /\ UNCHANGED failed
         \/ /\ Fault(j) /\ Except(j, "other")
            /\ \/ UNCHANGED <<temp, archive>>
               \/ temp' = t /\ archive' \in {archive, a}
  /\ UNCHANGED sent

(***************************************************************************)
(* reduce.py and its logs write to the temporary directory; the script     *)
(* returns or raises (its own exception, a time-out, or one that says      *)
(* "skip").  A run listed in SKIP_RUNS is not reduced, and the unset       *)
(* out_directories raises instead.  Without the directory, opening the log *)
(* raises, in the except block as well.                                    *)
(***************************************************************************)
RunScript(j) ==
  /\ job[j].pc = "script"
  /\ IF Dir[j] \notin DOMAIN temp THEN Except(j, "other") /\ UNCHANGED temp
     ELSE \E end \in {"ok", "error", "skip", "listed"} :
            /\ temp' = At(temp, Dir[j], temp[Dir[j]] \cup {j})
            /\ Move(j, [job[j] EXCEPT !.pc = "remove", !.script = end, !.failing = end # "ok",
                                      !.text = IF end = "listed" THEN "skip" ELSE @])
  /\ UNCHANGED <<archive, sent, failed>>
-----------------------------------------------------------------------------
(***************************************************************************)
(* copy_temp_directory, twice for a script that raises: in the except      *)
(* block, and again because that block returns its exception and reduce    *)
(* goes on.                                                                *)
(***************************************************************************)
RemoveOld(j) ==
  /\ job[j].pc = "remove"
  /\ IF Path(j) \in Paths /\ Dir[j] \notin Excitation
       THEN \/ archive' = Drop(archive, Path(j)) /\ Goto(j, "copy") /\ UNCHANGED failed
            \/ /\ Fault(j) /\ LogAndMessage(j, "copy")
               /\ \E S \in SUBSET archive[Path(j)] : archive' = At(archive, Path(j), S)
       ELSE Goto(j, "copy") /\ UNCHANGED <<archive, failed>>
  /\ UNCHANGED <<temp, sent>>

\* Mutation: what cannot be copied is passed over.
CopySilent(j) ==
  /\ job[j].pc = "copy"
  /\ \/ archive' = At(archive, Path(j), Files(archive, Path(j)) \cup Files(temp, Dir[j]))
        /\ UNCHANGED failed
     \/ Fault(j) /\ archive' = At(archive, Path(j), Files(archive, Path(j)))
  /\ Goto(j, IF job[j].failing THEN "delete" ELSE "extra")
  /\ UNCHANGED <<temp, sent>>

Copy(j) ==
  /\ job[j].pc = "copy"
  /\ LET next == IF job[j].failing THEN "delete" ELSE "extra"
         old == Files(archive, Path(j))
     IN  IF Dir[j] \in DOMAIN temp
           THEN \/ /\ archive' = At(archive, Path(j), old \cup temp[Dir[j]])
                   /\ Goto(j, next) /\ UNCHANGED failed
                \/ /\ Fault(j) /\ LogAndMessage(j, next)
                   /\ \E S \in SUBSET temp[Dir[j]] : archive' = At(archive, Path(j), old \cup S)
           ELSE archive' = At(archive, Path(j), old) /\ LogAndMessage(j, next) /\ UNCHANGED failed
  /\ UNCHANGED <<temp, sent>>

\* additional_save_directories_check: an exception is neither a string nor a list of them.
ExtraDirectories(j) ==
  /\ job[j].pc = "extra"
  /\ \/ job[j].script = "ok" /\ Goto(j, "delete") /\ UNCHANGED failed
     \/ job[j].script # "ok" /\ LogAndMessage(j, "delete") /\ UNCHANGED failed
     \/ Fault(j) /\ LogAndMessage(j, "delete")
  /\ UNCHANGED <<temp, archive, sent>>

\* After the temporary directory is gone: the except block raises or returns.
AfterDelete(j) ==
  CASE job[j].failing /\ job[j].script = "skip" -> Except(j, "skip")
    [] job[j].failing /\ job[j].script # "skip" ->
         Move(j, [job[j] EXCEPT !.pc = "remove", !.failing = FALSE])
    [] OTHER -> Goto(j, "report")

\* Mutation: the temporary directory is left for the next version.
DeleteTempNever(j) ==
  /\ job[j].pc = "delete"
  /\ AfterDelete(j)
  /\ UNCHANGED <<temp, archive, sent, failed>>

\* delete_temp_directory ignores what it cannot delete.
DeleteTemp(j) ==
  /\ job[j].pc = "delete"
  /\ AfterDelete(j)
  /\ \/ temp' = Drop(temp, Dir[j]) /\ UNCHANGED failed
     \/ Fault(j) /\ UNCHANGED temp
  /\ UNCHANGED <<archive, sent>>
-----------------------------------------------------------------------------
Destination(j) ==
  CASE job[j].text = "none" -> "Complete"
    [] job[j].text = "skip" -> "Skipped"
    [] OTHER -> "Error"

\* Mutation: only Complete is reported.
DetermineStatusQuiet(j) ==
  /\ job[j].pc = "report"
  /\ IF Destination(j) = "Complete" THEN SendReport(j, "Complete") ELSE UNCHANGED sent
  /\ Exit(j)
  /\ UNCHANGED <<temp, archive, failed>>

\* Mutation: an if for an else, a run that is skipped is reported as an error, too.
DetermineStatusBoth(j) ==
  /\ job[j].pc = "report"
  /\ SendReport(j, Destination(j))
  /\ IF Destination(j) = "Skipped" THEN Except(j, "other") ELSE Exit(j)
  /\ UNCHANGED <<temp, archive, failed>>

\* determine_reduction_status
DetermineStatus(j) ==
  /\ job[j].pc = "report"
  /\ SendReport(j, Destination(j))
  /\ Exit(j)
  /\ UNCHANGED <<temp, archive, failed>>

(***************************************************************************)
(* An outcome that cannot be sent is logged only; when it is Complete and  *)
(* the exception no AttributeError, main tries to report an error.         *)
(***************************************************************************)
ReportFails(j) ==
  /\ job[j].pc = "report" /\ Fault(j)
  /\ Exit(j)
  /\ \/ Destination(j) = "Complete" /\ SendReport(j, "Error")
     \/ UNCHANGED sent
  /\ UNCHANGED <<temp, archive>>

\* The process is killed, by an operator or with its machine.
Kill(j) ==
  /\ j \in Active /\ Fault(j)
  /\ Exit(j)
  /\ UNCHANGED <<temp, archive, sent>>

Advance(j) ==
  \/ SendStarted(j) \/ ChoosePath(j) \/ MakeDirectories(j) \/ RunScript(j)
  \/ RemoveOld(j) \/ Copy(j) \/ ExtraDirectories(j) \/ DeleteTemp(j) \/ DetermineStatus(j)

Next ==
  \E j \in Jobs : Start(j) \/ ConnectFails(j) \/ Abort(j) \/ Advance(j) \/ ReportFails(j) \/ Kill(j)

\* A process that has been started takes its steps; the script ends or is timed out.
Spec == Init /\ [][Next]_vars
FairSpec == Spec /\ \A j \in Jobs : WF_vars(Advance(j))
-----------------------------------------------------------------------------
Pc == {"idle", "started", "path", "make", "script", "remove", "copy", "extra", "delete",
       "report", "gone"}

\* The processes, the directories and the reports are of their types.
TypeOK ==
  /\ job \in [Jobs -> [pc : Pc, version : Nat, text : Text, failing : BOOLEAN,
                       script : {"none", "ok", "error", "skip", "listed"}]]
  /\ DOMAIN temp \subseteq Dirs /\ \A d \in DOMAIN temp : temp[d] \subseteq Jobs
  /\ Paths \subseteq Dirs \X Nat /\ \A p \in Paths : archive[p] \subseteq Jobs
  /\ sent \in [Jobs -> Seq(Report)] /\ failed \subseteq Jobs

\* The last report on a job.
Phase(j) == IF sent[j] = <<>> THEN "Waiting" ELSE sent[j][Len(sent[j])]

Completing(j) == job[j].pc = "report" /\ Destination(j) = "Complete"
Completed(j) == Phase(j) = "Complete"

(***************************************************************************)
(* determine_reduction_status, "Reduction has successfully completed": the *)
(* result directory the report names holds what the script wrote, whatever *)
(* could not be removed or copied.  Jobs of one directory are of one       *)
(* experiment here, and so do not overlap.                                 *)
(***************************************************************************)
CompleteHasResults == \A j \in Jobs : Completing(j) => j \in Files(archive, Path(j))

(***************************************************************************)
(* And nothing else: the files of another version, or of a job before it,  *)
(* are not among the results, unless some process was killed or could not  *)
(* delete its temporary directory.                                         *)
(***************************************************************************)
ResultsUnmixed ==
  \A j \in Jobs : Completing(j) /\ failed = {} /\ Dir[j] \notin Excitation =>
    Files(archive, Path(j)) \subseteq {j}

(***************************************************************************)
(* copy_temp_directory replaces old data only where that was asked for: a  *)
(* version that has been reported complete is left alone by every later    *)
(* one, also by those that fail, until another job that is to overwrite it *)
(* has come to its directory, or to its end.                               *)
(***************************************************************************)
Begun(j) == job[j].pc \notin {"idle", "started", "path"}
Overwritten(k) == \E o \in Overwrites \ {k} : Path(o) = Path(k) /\ Begun(o)

EarlierResultsKept ==
  [][\A k \in Jobs : Completed(k) /\ k \in Files(archive, Path(k)) /\ ~Overwritten(k) =>
       k \in Files(archive', Path(k))]_vars

(***************************************************************************)
(* What the queues see of a job is what ReductionJob allows: one outcome,  *)
(* once, and a start before it unless an operation of this job has failed, *)
(* whatever raises on the way from reduce() to main's last handler.        *)
(***************************************************************************)
Reported == INSTANCE ReductionJob WITH reports <- sent
JobSpec == Reported!Spec

(***************************************************************************)
(* A job that starts reports an outcome, whatever its script and the other *)
(* jobs do, unless it is killed or one of its own operations fails.        *)
(***************************************************************************)
JobsReport ==
  \A j \in Jobs : job[j].pc = "started" ~> (Phase(j) \in {"Complete", "Error", "Skipped"} \/ j \in failed)
=============================================================================
