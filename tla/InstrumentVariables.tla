------------------------- MODULE InstrumentVariables -------------------------
(***************************************************************************)
(* Which variables a reduction is given.  The InstrumentVariable table of  *)
(* one instrument is read by the queue processor, which looks up the       *)
(* variables of a run it files (queueproc_utils/instrument_variable_utils),*)
(* and read and written by the web application (reduction_variables), where*)
(* sets of variables are edited for a range of runs or for an experiment.  *)
(*                                                                         *)
(* Each save or delete of a row commits on its own, so one step writes one *)
(* row.  Python 3's map is lazy: where the code maps delete, save or       *)
(* setattr over a list and drops the result, nothing happens, and nothing  *)
(* happens here.                                                           *)
(***************************************************************************)
EXTENDS Integers, SequencesExt

CONSTANTS
  Runs,          \* numbers of the runs that may be filed
  MaxRun,        \* greatest run number the pages are asked about
  Experiments, Experiment,  \* the experiment of each run
  NoExperiment,  \* a row of no experiment: experiment_reference is null
  Scripts,       \* contents of reduce_vars.py: sets of <<name, value>> pairs
  Unreadable,    \* reduce_vars.py is missing or does not load
  Edited,        \* the pairs a user may type in
  Hyphenated,    \* names with a space or a hyphen, which the page's field does not give back
  Sessions,
  Tables,        \* what earlier requests may have left in the table
  MaxRequests, MaxScripts  \* bounds on requests of the page and on changes of the script

RunNumbers == 1..MaxRun

ASSUME RunsAssumption == Runs \subseteq RunNumbers /\ MaxRun \in Nat
ASSUME ExperimentAssumption == Experiment \in [Runs -> Experiments] /\ NoExperiment \notin Experiments
ASSUME ScriptsAssumption == Unreadable \notin Scripts /\ \A S \in Scripts : IsFiniteSet(S)
ASSUME BoundsAssumption == MaxRequests \in Nat /\ MaxScripts \in Nat

Pairs == (UNION Scripts) \cup Edited
Names == {p[1] : p \in Pairs}
Texts == {p[2] : p \in Pairs}
Row == [name : Names, value : Texts, start : 0..MaxRun + 1,
        experiment : Experiments \cup {NoExperiment}, tracks : BOOLEAN]

ASSUME TablesAssumption == Tables \subseteq Seq(Row)

VARIABLES
  rows,    \* the table: identifier -> row
  nextId,  \* AUTO_INCREMENT
  script,  \* reduce_vars.py
  filed,   \* run -> the pairs of its RunVariables, for the runs that have been filed
  qp,      \* the queue processor's create_variables_for_run
  web,     \* what each web session is doing
  requests, changes

vars == <<rows, nextId, script, filed, qp, web, requests, changes>>

\* Elements of a list of writes: a new row, one to save as it is held, one to delete.
NewRow(r) == [op |-> "new", id |-> 0, row |-> r]
SaveRow(i, r) == [op |-> "save", id |-> i, row |-> r]
DeleteRow(i, r) == [op |-> "delete", id |-> i, row |-> r]
News(R) == SetToSeq({NewRow(r) : r \in R})

Put(f, x, y) == [i \in DOMAIN f \cup {x} |-> IF i = x THEN y ELSE f[i]]
MaxOf(S) == CHOOSE n \in S : \A m \in S : m <= n
Starts == {rows[i].start : i \in DOMAIN rows}
At(n) == {i \in DOMAIN rows : rows[i].start = n}
For(e) == {i \in DOMAIN rows : rows[i].experiment = e}
Held(I) == [i \in I |-> rows[i]]
Values(held) == {<<held[i].name, held[i].value>> : i \in DOMAIN held}
Tracking(held) == \E i \in DOMAIN held : held[i].tracks

(***************************************************************************)
(* show_variables_for_run of the web application: the set with the         *)
(* greatest start up to n, or the greatest of all when no run is given.    *)
(***************************************************************************)
Governing(n) ==
  LET S == {s \in Starts : n = 0 \/ s <= n} IN IF S = {} THEN {} ELSE At(MaxOf(S))

\* _read_script and _create_variables: what the script on disk says, for no experiment.
ScriptPairs == IF script = Unreadable THEN {} ELSE script
ScriptNames == {p[1] : p \in ScriptPairs}
Defaults == {[name |-> p[1], value |-> p[2], start |-> 0,
              experiment |-> NoExperiment, tracks |-> TRUE] : p \in ScriptPairs}

Idle == [pc |-> "idle", writes |-> <<>>, alone |-> TRUE]

Init ==
  /\ rows \in Tables /\ nextId = Len(rows) + 1 /\ filed = <<>>
  /\ script \in Scripts \cup {Unreadable}
  /\ qp = Idle /\ web = [s \in Sessions |-> Idle]
  /\ requests = 0 /\ changes = 0

\* The first write of job j; "alone" records that no other job has written meanwhile.
Apply(w) ==
  /\ rows' = CASE w.op = "new" -> Put(rows, nextId, w.row)
               [] w.op = "save" -> Put(rows, w.id, w.row)
               [] w.op = "delete" -> Held(DOMAIN rows \ {w.id})
  /\ nextId' = IF w.op = "new" THEN nextId + 1 ELSE nextId
Rest(j) == IF Len(j.writes) = 1 /\ j.pc = "finish" THEN Idle ELSE [j EXCEPT !.writes = Tail(@)]
Disturbed(j) == IF j.pc = "idle" THEN j ELSE [j EXCEPT !.alone = FALSE]

WebWrite(s) ==
  /\ web[s].writes # <<>> /\ Apply(Head(web[s].writes))
  /\ web' = [t \in Sessions |-> IF t = s THEN Rest(web[s]) ELSE Disturbed(web[t])]
  /\ qp' = Disturbed(qp)
  /\ UNCHANGED <<script, filed, requests, changes>>

QPWrite ==
  /\ qp.writes # <<>> /\ Apply(Head(qp.writes)) /\ qp' = Rest(qp)
  /\ web' = [t \in Sessions |-> Disturbed(web[t])]
  /\ UNCHANGED <<script, filed, requests, changes>>

\* A scientist changes reduce_vars.py.
ChangeScript ==
  /\ changes < MaxScripts
  /\ script' \in (Scripts \cup {Unreadable}) \ {script}
  /\ changes' = changes + 1
  /\ UNCHANGED <<rows, nextId, filed, qp, web, requests>>
-----------------------------------------------------------------------------
(***************************************************************************)
(* The queue processor: create_variables_for_run.                          *)
(***************************************************************************)
AtQP(pc) == qp.pc = pc /\ qp.writes = <<>>
GoQP(j) == qp' = j /\ UNCHANGED <<rows, nextId, script, web, requests, changes>>

\* Rows of the run's experiment; if one of them tracks the script, _update_variables looks at it.
QPShowForExperiment(run) ==
  /\ AtQP("idle") /\ run \notin DOMAIN filed
  /\ LET held == Held(For(Experiment[run])) IN
       GoQP([pc |-> IF held = <<>> THEN "run" ELSE IF Tracking(held) THEN "defaults" ELSE "save",
             run |-> run, held |-> held, writes |-> <<>>, alone |-> TRUE])
  /\ UNCHANGED filed

\* Rows whose start_run is the run itself, read as Variables, which do not track the script.
QPShowForRun ==
  /\ AtQP("run")
  /\ LET held == Held(At(qp.run)) IN
       GoQP([qp EXCEPT !.held = held, !.pc = IF held = <<>> THEN "defaults" ELSE "save"])
  /\ UNCHANGED filed

\* _update_variables: tracking rows that are in the script, and those that are not, are saved.
Resaved(held, names) ==
  SetToSeq({SaveRow(i, held[i]) :
              i \in {k \in DOMAIN held : held[k].tracks \/ held[k].name \notin names}})

\* get_default_variables saves a row for every variable of the script, whatever the table has.
QPDefaults ==
  /\ AtQP("defaults")
  /\ IF script = Unreadable
       THEN GoQP([qp EXCEPT !.pc = "save", !.writes = Resaved(qp.held, {})])
       ELSE GoQP([qp EXCEPT !.pc = "latest", !.writes = News(Defaults)])
  /\ UNCHANGED filed

QPReadLatest ==
  /\ AtQP("latest") /\ rows # <<>>
  /\ GoQP([pc |-> "set", latest |-> MaxOf(Starts), run |-> qp.run, held |-> qp.held,
            writes |-> <<>>, alone |-> qp.alone])
  /\ UNCHANGED filed

\* applicable_variables[0] of nothing: the exception ends the handler, and the run has no variables.
QPNoRows == AtQP("latest") /\ rows = <<>> /\ GoQP(Idle) /\ filed' = Put(filed, qp.run, {})

(***************************************************************************)
(* The set that starts there is what is used.  Rows of the experiment that *)
(* were held are saved again instead, matched or not by that set.          *)
(* set_variables_for_runs, which follows for a run that had nothing, saves *)
(* Variables, which have no start_run: it leaves the table as it is.       *)
(***************************************************************************)
QPReadSet ==
  /\ AtQP("set")
  /\ LET set == Held(At(qp.latest)) IN
       IF qp.held = <<>>
         THEN GoQP([qp EXCEPT !.pc = "save", !.held = set])
         ELSE GoQP([qp EXCEPT !.pc = "save",
                              !.writes = Resaved(qp.held, {p[1] : p \in Values(set)})])
  /\ UNCHANGED filed

\* save_run_variables
QPSave ==
  /\ AtQP("save")
  /\ filed' = Put(filed, qp.run, Values(qp.held))
  /\ GoQP(Idle)
-----------------------------------------------------------------------------
(***************************************************************************)
(* The web application.  A request looks a set up (show_variables_for_run, *)
(* show_variables_for_experiment), brings it up to date with the script,   *)
(* and then does what its plan says.                                       *)
(***************************************************************************)
AtWeb(s, pc) == web[s].pc = pc /\ web[s].writes = <<>>
GoWeb(s, j) == web' = [web EXCEPT ![s] = j]
Kept == UNCHANGED <<rows, nextId, script, filed, qp, changes>>
Finish(s) == GoWeb(s, Idle)
Plan(s, plan) == AtWeb(s, "shown") /\ web[s].plan = plan

\* The rows I are read, to be brought up to date if one of them tracks the script.
Show(plan, n, I, form) ==
  [pc |-> IF Tracking(Held(I)) THEN "update" ELSE "shown",
   plan |-> plan, n |-> n, form |-> form, held |-> Held(I), writes |-> <<>>, alone |-> TRUE]

\* A page is displayed: instrument_summary and instrument_variables show runs and experiments.
View(s) ==
  /\ AtWeb(s, "idle") /\ requests < MaxRequests
  /\ \/ \E n \in 0..MaxRun + 1 : GoWeb(s, Show("view", n, Governing(n), <<>>))
     \/ \E e \in Experiments : GoWeb(s, Show("view", 0, For(e), <<>>))
  /\ requests' = requests + 1 /\ Kept

\* A form is posted for a range of runs or for an experiment.  to = 0: no end is given.
Edit(s) ==
  /\ AtWeb(s, "idle") /\ requests < MaxRequests
  /\ \E p \in Edited, track \in BOOLEAN :
       \/ \E n \in RunNumbers : \E to \in {0} \cup n..MaxRun :
            GoWeb(s, Show("edit", n, Governing(n), [to |-> to, typed |-> p, tracks |-> track]))
       \/ \E e \in Experiments :
            GoWeb(s, Show("replace", 0, For(e), [e |-> e, typed |-> p, tracks |-> track]))
  /\ requests' = requests + 1 /\ Kept

\* createRetryRun without variables, from the failed queue: create_variables_for_run.
Rerun(s) ==
  /\ AtWeb(s, "idle") /\ requests < MaxRequests
  /\ \E run \in Runs : GoWeb(s, Show("rerun", run, For(Experiment[run]), <<>>))
  /\ requests' = requests + 1 /\ Kept

\* Mutation: a row is brought up to date with all that the script says, its start included.
FromScript(i, row) == SaveRow(i, [row EXCEPT !.start = 0])

Refreshed(i, row) == SaveRow(i, row)

(***************************************************************************)
(* _update_variables: nothing unless a row tracks the script; then rows    *)
(* whose name has left the script are deleted, and those that track it are *)
(* saved as they were read.  The copies that are used still hold them all. *)
(***************************************************************************)
Update(s) ==
  /\ AtWeb(s, "update")
  /\ LET held == web[s].held
         Gone == {i \in DOMAIN held : held[i].name \notin ScriptNames}
         Tracks == {i \in DOMAIN held \ Gone : held[i].tracks}
     IN  GoWeb(s, [web[s] EXCEPT !.pc = "shown",
           !.writes = IF Tracking(held)
                        THEN SetToSeq({DeleteRow(i, held[i]) : i \in Gone}
                                      \cup {Refreshed(i, held[i]) : i \in Tracks})
                        ELSE <<>>])
  /\ UNCHANGED requests /\ Kept

Copies(held) == {held[i] : i \in DOMAIN held}

\* modify_vars of the rows R: values by name, and whether they track the script.
Modified(s, R) ==
  LET form == web[s].form IN
    {[r EXCEPT !.value = IF r.name = form.typed[1] /\ r.name \notin Hyphenated
                           THEN form.typed[2] ELSE @,
               !.tracks = form.tracks] : r \in R}

SaveAll(s, R) ==
  GoWeb(s, IF R = {} THEN Idle
           ELSE [pc |-> "finish", plan |-> web[s].plan, writes |-> News(R), alone |-> TRUE])

\* get_current_and_upcoming_variables sets the defaults when the current run has no variables.
Viewed(s) ==
  /\ Plan(s, "view")
  /\ \/ Finish(s)
     \/ web[s].held = <<>> /\ web[s].n > 0 /\ SaveAll(s, Defaults)
  /\ UNCHANGED requests /\ Kept

(***************************************************************************)
(* set_variables_for_runs: the sets that start in the range are            *)
(* applicable, and the last of them, or else the last set before the range,*)
(* is to apply again after it, unless one starts there.  What was          *)
(* applicable is not deleted.                                              *)
(***************************************************************************)
Applicable(n, to) == {k \in Starts : n <= k /\ k <= to}

\* Mutation: a run is left out after the range.
BeyondByTwo(to) == to + 2

Beyond(to) == to + 1

Final(n, to) ==
  IF Beyond(to) \in Starts THEN {}
  ELSE IF Applicable(n, to) # {} THEN At(MaxOf(Applicable(n, to)))
  ELSE IF \E k \in Starts : k < n THEN At(MaxOf({k \in Starts : k < n}))
  ELSE {}

\* Mutation: the set that applies again after the range is not kept before it.
NotKeptBefore(n, to) == {}

\* The last set before the range is copied, and starts where it did.
KeptBefore(n, to) ==
  IF Applicable(n, to) = {} THEN Copies(Held(Final(n, to))) ELSE {}

\* What applies after the range: the final set, or the defaults when the instrument has no set.
After(n, to) ==
  IF Final(n, to) # {}
    THEN {SaveRow(i, [rows[i] EXCEPT !.start = Beyond(to)]) : i \in Final(n, to)}
  ELSE IF Beyond(to) \notin Starts
    THEN {NewRow([r EXCEPT !.start = Beyond(to)]) : r \in Defaults}
  ELSE {}

Set(s, plan, n, to, new) ==
  LET writes == (IF to = 0 THEN <<>> ELSE News(KeptBefore(n, to)) \o SetToSeq(After(n, to)))
                \o News({[r EXCEPT !.start = n] : r \in new})
  IN  GoWeb(s, IF writes = <<>> THEN Idle
               ELSE [pc |-> "finish", plan |-> plan, n |-> n, to |-> to, writes |-> writes, alone |-> TRUE,
                     was |-> [m \in RunNumbers |-> Values(Held(Governing(m)))]])

SetVariablesForRuns(s) ==
  /\ Plan(s, "edit")
  /\ Set(s, "edit", web[s].n, web[s].form.to, Modified(s, Copies(web[s].held)))
  /\ UNCHANGED requests /\ Kept

\* delete_instrument_variables sets an empty list; for an experiment that is to show it.
Delete(s) ==
  /\ AtWeb(s, "idle") /\ requests < MaxRequests
  /\ \E n, to \in 0..MaxRun : (to = 0 \/ n <= to) /\ Set(s, "delete", n, to, {})
  /\ requests' = requests + 1 /\ Kept

(***************************************************************************)
(* An experiment is edited: its rows, or the defaults, are modified;       *)
(* set_variables_for_experiment looks them up again, deletes none, and     *)
(* saves the new ones, which keep the start of those they were copied from.*)
(***************************************************************************)
ModifyExperiment(s) ==
  /\ Plan(s, "replace")
  /\ LET R == IF web[s].held = <<>> THEN Defaults ELSE Copies(web[s].held) IN
       GoWeb(s, Show("save", 0, For(web[s].form.e),
                     {[r EXCEPT !.experiment = web[s].form.e] : r \in Modified(s, R)}))
  /\ UNCHANGED requests /\ Kept

SetVariablesForExperiment(s) ==
  /\ Plan(s, "save") /\ SaveAll(s, web[s].form)
  /\ UNCHANGED requests /\ Kept

\* The web application's create_variables_for_run: defaults are set from the run on, none is filed.
CreateVariablesForRun(s) ==
  /\ \/ /\ Plan(s, "rerun") /\ web[s].held = <<>>
        /\ GoWeb(s, Show("rerun default", web[s].n, Governing(web[s].n), <<>>))
     \/ /\ Plan(s, "rerun default") /\ web[s].held = <<>>
        /\ SaveAll(s, {[r EXCEPT !.start = web[s].n] : r \in Defaults})
     \/ (Plan(s, "rerun") \/ Plan(s, "rerun default")) /\ web[s].held # <<>> /\ Finish(s)
  /\ UNCHANGED requests /\ Kept
-----------------------------------------------------------------------------
QPNext ==
  \/ \E run \in Runs : QPShowForExperiment(run)
  \/ QPShowForRun \/ QPDefaults \/ QPReadLatest \/ QPNoRows \/ QPReadSet
  \/ QPSave \/ QPWrite

WebNext(s) ==
  \/ View(s) \/ Edit(s) \/ Delete(s) \/ Rerun(s)
  \/ Update(s) \/ WebWrite(s)
  \/ Viewed(s) \/ SetVariablesForRuns(s) \/ ModifyExperiment(s) \/ SetVariablesForExperiment(s)
  \/ CreateVariablesForRun(s)

Next == ChangeScript \/ QPNext \/ \E s \in Sessions : WebNext(s)

Spec == Init /\ [][Next]_vars
-----------------------------------------------------------------------------
(***************************************************************************)
(* instrument_summary: the ranges it displays when the last completed run  *)
(* is `latest'.  0 is an open end.                                         *)
(***************************************************************************)
Upcoming(latest) == {k \in Starts : k > latest + 1}
Listed(latest) == {rows[i].start : i \in Governing(latest + 1)} \cup Upcoming(latest)
CurrentStart(latest) == rows[CHOOSE i \in Governing(latest) : TRUE].start

\* Mutation: a range ends where the next one starts.
RunEndAtNext(latest, k) ==
  LET later == {m \in Listed(latest) : m > k}
  IN  IF later = {} THEN 0 ELSE CHOOSE n \in later : \A m \in later : n <= m

RunEnd(latest, k) ==
  LET later == {m \in Listed(latest) : m > k}
  IN  IF later = {} THEN 0 ELSE (CHOOSE n \in later : \A m \in later : n <= m) - 1

Displayed(latest) == Listed(latest) \cup {CurrentStart(latest)}
Covers(latest, k, n) == k <= n /\ (RunEnd(latest, k) = 0 \/ n <= RunEnd(latest, k))
-----------------------------------------------------------------------------
Write == [op : {"new", "save", "delete"}, id : Nat, row : Row]

\* Rows, identifiers, filed variables and what is going to be written have their types.
TypeOK ==
  /\ nextId \in Nat \ {0} /\ DOMAIN rows \subseteq 1..nextId - 1
  /\ \A i \in DOMAIN rows : rows[i] \in Row
  /\ script \in Scripts \cup {Unreadable}
  /\ DOMAIN filed \subseteq Runs /\ \A run \in DOMAIN filed : filed[run] \subseteq Names \X Texts
  /\ \A j \in {qp} \cup {web[s] : s \in Sessions} :
       j.writes \in Seq(Write) /\ (j.pc = "idle" => j = Idle)
  /\ requests \in 0..MaxRequests /\ changes \in 0..MaxScripts

(***************************************************************************)
(* The ranges that instrument_summary displays tell which set a run gets   *)
(* from the page: every run from the last completed one on is in one range,*)
(* and that is the range of the set show_variables_for_run finds for it.   *)
(***************************************************************************)
RangesMatch ==
  \A latest \in RunNumbers : Governing(latest) # {} =>
    \A n \in latest..MaxRun + 1 :
      {k \in Displayed(latest) : Covers(latest, k, n)} = {rows[i].start : i \in Governing(n)}

InRange(s) == {n \in RunNumbers : web[s].n <= n /\ (web[s].to = 0 \/ n <= web[s].to)}

\* The last write of a set_variables_for_runs during which nobody else has written.
SetAlone(s) ==
  /\ web[s].pc = "finish" /\ web[s].plan \in {"edit", "delete"} /\ web[s].alone
  /\ web[s].writes # <<>> /\ web'[s].writes = <<>>

(***************************************************************************)
(* set_variables_for_runs leaves the runs outside its range with the       *)
(* variables they had: whichever set went on after the range goes on after *)
(* it, and the one before is as it was.                                    *)
(***************************************************************************)
EditKeepsOtherRuns ==
  [][\A s \in Sessions : SetAlone(s) =>
       \A n \in RunNumbers \ InRange(s) : web[s].was[n] # {} =>
         Values(Held(Governing(n)))' = web[s].was[n]]_vars

(***************************************************************************)
(* Displaying a page brings sets up to date with the script.  Unless       *)
(* somebody else has written since the page read it, a run's set loses     *)
(* rows only by their deletion, and as long as it has any left, they keep  *)
(* their values and no row of another set takes their place or joins them. *)
(* A set the page deletes the whole of (its script cannot be read) gives   *)
(* way to another: nothing is said of it.                                  *)
(***************************************************************************)
ViewKeepsValues ==
  [][\A s \in Sessions : WebWrite(s) /\ web[s].plan = "view" /\ web[s].alone =>
       \A n \in RunNumbers :
         LET kept == Governing(n) \cap DOMAIN rows' IN
           kept # {} => /\ Governing(n)' \cap DOMAIN rows = kept
                        /\ \A i \in kept : rows'[i] = rows[i]]_vars

(***************************************************************************)
(* set_variables_for_runs says that the variables set are "used for        *)
(* subsequent runs in the given run range" and "ongoing indefinitely": a   *)
(* run that is filed with variables, with none of its experiment to use    *)
(* and no request going on, gets those of the set in whose range it is.    *)
(***************************************************************************)
RangeUsed ==
  [][\A run \in Runs : run \in DOMAIN filed' \ DOMAIN filed =>
       \/ ~qp.alone \/ \E s \in Sessions : web[s] # Idle
       \/ For(Experiment[run]) # {} \/ Governing(run) = {}
       \/ filed'[run] \in {{}, Values(Held(Governing(run)))}]_vars
=============================================================================
