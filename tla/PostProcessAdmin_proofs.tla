----------------------- MODULE PostProcessAdmin_proofs -----------------------
(***************************************************************************)
(* Theorems about PostProcessAdmin, for every set of jobs and directories, *)
(* whatever fails or is killed.                                            *)
(***************************************************************************)
EXTENDS PostProcessAdmin, Extrema, TLAPS

-----------------------------------------------------------------------------
(***************************************************************************)
(* The inductive invariant.  A new version is a number because the ones    *)
(* there are have a maximum.  What a job has written is in its temporary   *)
(* directory, and once copied in its results, because nobody else works in *)
(* directories of its experiment while it is active.                       *)
(***************************************************************************)
PathsBounded == \E n \in Nat : \A p \in Paths : p[2] <= n

Alone == \A i, j \in Active : i # j => Rb[i] # Rb[j]

TempHolds(j) ==
  job[j].pc \in {"remove", "copy", "extra", "delete"} /\ Dir[j] \in DOMAIN temp => j \in temp[Dir[j]]

Copied(j) ==
  job[j].pc \in {"extra", "delete", "report"} /\ job[j].text = "none" => j \in Files(archive, Path(j))

\* Its start has been sent, or could not be.
Announced(j) == sent[j] = <<"Started">> \/ (sent[j] = <<>> /\ j \in failed)

ReportsHeld(j) ==
  /\ job[j].pc \in {"idle", "started"} => sent[j] = <<>>
  /\ job[j].pc \in Pc \ {"idle", "started", "gone"} => Announced(j)

JobsKept == \A j \in Jobs : TempHolds(j) /\ Copied(j) /\ ReportsHeld(j)

IInv == TypeOK /\ PathsBounded /\ Alone /\ JobsKept
-----------------------------------------------------------------------------
JobType ==
  [pc : Pc, version : Nat, text : Text, failing : BOOLEAN,
   script : {"none", "ok", "error", "skip", "listed"}]

TempType(t) == DOMAIN t \subseteq Dirs /\ \A d \in DOMAIN t : t[d] \subseteq Jobs
ArchiveType(a) == DOMAIN a \subseteq Dirs \X Nat /\ \A p \in DOMAIN a : a[p] \subseteq Jobs
BoundedBy(a, n) == \A p \in DOMAIN a : p[2] <= n

\* The next version of a run's results.
LEMMA NewPathNat ==
  ASSUME TypeOK, PathsBounded, NEW j \in Jobs
  PROVE  NewPath(j) \in Nat
<1> DEFINE V == {v \in {p[2] : p \in Paths} : <<Dir[j], v>> \in Paths}
<1>1. CASE j \in Overwrites \/ V = {}
  BY <1>1 DEF NewPath
<1>2. CASE ~(j \in Overwrites \/ V = {})
  <2>1. PICK n \in Nat : \A p \in Paths : p[2] <= n
    BY DEF PathsBounded
  <2>2. Paths \subseteq Dirs \X Nat
    BY DEF TypeOK
  <2>3. V \in SUBSET Nat /\ V # {} /\ \A v \in V : v <= n
    BY <1>2, <2>1, <2>2
  <2>4. \E v \in V : \A w \in V : w <= v
    BY <2>3, GreatestExists
  <2> DEFINE m == CHOOSE v \in V : \A w \in V : w <= v
  <2>5. m \in V
    BY <2>4
  <2>6. m \in Nat
    BY <2>3, <2>5
  <2>7. NewPath(j) = m + 1
    BY <1>2 DEF NewPath
  <2> HIDE DEF m
  <2> QED
    BY <2>6, <2>7
<1> QED
  BY <1>1, <1>2

LEMMA PathType ==
  ASSUME TypeOK, NEW j \in Jobs
  PROVE  Path(j) \in Dirs \X Nat /\ Path(j)[2] \in Nat /\ Dir[j] \in Dirs
BY DirAssumption DEF TypeOK, Path

LEMMA FilesType ==
  ASSUME TypeOK
  PROVE  /\ \A d \in Dirs : Files(temp, d) \subseteq Jobs
         /\ \A p \in Dirs \X Nat : Files(archive, p) \subseteq Jobs
<1>1. ASSUME NEW d \in Dirs PROVE Files(temp, d) \subseteq Jobs
  BY DEF TypeOK, Files
<1>2. ASSUME NEW p \in Dirs \X Nat PROVE Files(archive, p) \subseteq Jobs
  <2>1. CASE p \in Paths
    BY <2>1 DEF TypeOK, Files, Paths
  <2>2. CASE p \notin Paths
    BY <2>2 DEF Files, Paths
  <2> QED
    BY <2>1, <2>2
<1> QED
  BY <1>1, <1>2

\* At and Drop change one directory.
LEMMA AtFiles ==
  ASSUME NEW f, NEW x, NEW S
  PROVE  /\ DOMAIN At(f, x, S) = DOMAIN f \cup {x} /\ At(f, x, S)[x] = S
         /\ Files(At(f, x, S), x) = S
         /\ \A y : y # x => Files(At(f, x, S), y) = Files(f, y)
         /\ \A y \in DOMAIN f : y # x => At(f, x, S)[y] = f[y]
BY DEF At, Files

LEMMA DropFiles ==
  ASSUME NEW f, NEW x
  PROVE  /\ DOMAIN Drop(f, x) = DOMAIN f \ {x}
         /\ \A y : y # x => Files(Drop(f, x), y) = Files(f, y)
         /\ \A y \in DOMAIN f : y # x => Drop(f, x)[y] = f[y]
BY DEF Drop, Files

LEMMA AppendLast ==
  ASSUME NEW s \in Seq(Report), NEW d \in Report
  PROVE  /\ Append(s, d) \in Seq(Report) /\ Append(s, d) # <<>>
         /\ Append(s, d)[Len(Append(s, d))] = d
OBVIOUS
-----------------------------------------------------------------------------
(***************************************************************************)
(* A step changes its own process and reports, the temporary directory it  *)
(* works in and the results under its own path, and keeps their types.     *)
(***************************************************************************)
Step(j) == Start(j) \/ ConnectFails(j) \/ Abort(j) \/ Advance(j) \/ ReportFails(j) \/ Kill(j)

OthersKept(j) == \A k \in Jobs \ {j} : job'[k] = job[k] /\ sent'[k] = sent[k]

TempKept(j) ==
  \A d \in Dirs \ {Dir[j]} :
    (d \in DOMAIN temp' <=> d \in DOMAIN temp) /\ (d \in DOMAIN temp => temp'[d] = temp[d])

ArchiveKept(j) == \A p \in Dirs \X Nat : p # Path(j) => Files(archive', p) = Files(archive, p)

LEMMA JobMoves ==
  ASSUME TypeOK, NEW j \in Jobs, NEW r \in JobType, Move(j, r)
  PROVE  /\ job' \in [Jobs -> JobType] /\ job'[j] = r
         /\ \A k \in Jobs \ {j} : job'[k] = job[k]
BY DEF TypeOK, JobType, Move

LEMMA GotoType ==
  ASSUME TypeOK, NEW j \in Jobs, NEW pc \in Pc, Goto(j, pc)
  PROVE  /\ job' \in [Jobs -> JobType]
         /\ job'[j].pc = pc /\ job'[j].text = job[j].text /\ job'[j].version = job[j].version
         /\ \A k \in Jobs \ {j} : job'[k] = job[k]
<1> DEFINE s == [job[j] EXCEPT !.pc = pc]
<1>1. s \in JobType /\ s.pc = pc /\ s.text = job[j].text /\ s.version = job[j].version
  BY DEF TypeOK, JobType
<1>2. Move(j, s)
  BY DEF Goto
<1> HIDE DEF s
<1> QED
  BY <1>1, <1>2, JobMoves

LEMMA ExitType ==
  ASSUME TypeOK, NEW j \in Jobs, Exit(j)
  PROVE  /\ job' \in [Jobs -> JobType]
         /\ job'[j].pc = "gone" /\ job'[j].version = job[j].version
         /\ \A k \in Jobs \ {j} : job'[k] = job[k]
<1> DEFINE s == [job[j] EXCEPT !.pc = "gone", !.text = "none", !.script = "none", !.failing = FALSE]
<1>1. s \in JobType /\ s.pc = "gone" /\ s.version = job[j].version
  BY DEF TypeOK, JobType, Pc, Text
<1> QED
  BY <1>1, JobMoves DEF Exit

LEMMA ExceptType ==
  ASSUME TypeOK, NEW j \in Jobs, NEW text \in Text, Except(j, text)
  PROVE  /\ job' \in [Jobs -> JobType]
         /\ job'[j].pc = "report" /\ job'[j].text = text /\ job'[j].version = job[j].version
         /\ \A k \in Jobs \ {j} : job'[k] = job[k]
<1> DEFINE s == [job[j] EXCEPT !.pc = "report", !.text = text]
<1>1. s \in JobType /\ s.pc = "report" /\ s.text = text /\ s.version = job[j].version
  BY DEF TypeOK, JobType, Pc
<1> QED
  BY <1>1, JobMoves DEF Except

LEMMA LogAndMessageType ==
  ASSUME TypeOK, NEW j \in Jobs, NEW pc \in Pc, LogAndMessage(j, pc)
  PROVE  /\ job' \in [Jobs -> JobType]
         /\ job'[j].pc = pc /\ job'[j].text # "none" /\ job'[j].version = job[j].version
         /\ \A k \in Jobs \ {j} : job'[k] = job[k]
<1> DEFINE s == [job[j] EXCEPT !.pc = pc,
                               !.text = IF job[j].text = "none" THEN "copy" ELSE job[j].text]
<1>1. s \in JobType /\ s.pc = pc /\ s.text # "none" /\ s.version = job[j].version
  BY DEF TypeOK, JobType, Text
<1>2. Move(j, s)
  BY DEF LogAndMessage
<1> HIDE DEF s
<1> QED
  BY <1>1, <1>2, JobMoves

LEMMA SendReportType ==
  ASSUME TypeOK, NEW j \in Jobs, NEW d \in Report, SendReport(j, d)
  PROVE  /\ sent' \in [Jobs -> Seq(Report)] /\ sent'[j] = Append(sent[j], d)
         /\ \A k \in Jobs \ {j} : sent'[k] = sent[k]
BY AppendLast DEF TypeOK, SendReport

LEMMA FaultType ==
  ASSUME TypeOK, NEW j \in Jobs, Fault(j)
  PROVE  failed' \subseteq Jobs /\ j \in failed'
BY DEF TypeOK, Fault
-----------------------------------------------------------------------------
LEMMA AtType ==
  ASSUME TypeOK, NEW j \in Jobs, NEW S \in SUBSET Jobs
  PROVE  /\ TempType(At(temp, Dir[j], S))
         /\ ArchiveType(At(archive, Path(j), S))
<1>1. TempType(At(temp, Dir[j], S))
  <2> DEFINE t == At(temp, Dir[j], S)
  <2>1. DOMAIN t = DOMAIN temp \cup {Dir[j]} /\ t[Dir[j]] = S
        /\ \A d \in DOMAIN temp : d # Dir[j] => t[d] = temp[d]
    BY DEF At
  <2> HIDE DEF t
  <2>2. TempType(t)
    BY <2>1, PathType DEF TypeOK, TempType
  <2> QED
    BY <2>2 DEF t
<1>2. ArchiveType(At(archive, Path(j), S))
  <2> DEFINE a == At(archive, Path(j), S)
  <2>1. DOMAIN a = Paths \cup {Path(j)} /\ a[Path(j)] = S
        /\ \A p \in Paths : p # Path(j) => a[p] = archive[p]
    BY DEF At, Paths
  <2> HIDE DEF a
  <2>2. ArchiveType(a)
    BY <2>1, PathType DEF TypeOK, ArchiveType, Paths
  <2> QED
    BY <2>2 DEF a
<1> QED
  BY <1>1, <1>2

\* The results a job may leave when it writes to its path.
Writes(j) ==
  \/ archive' = archive
  \/ archive' = Drop(archive, Path(j))
  \/ \E S \in SUBSET Jobs : archive' = At(archive, Path(j), S)

LEMMA WritesType ==
  ASSUME TypeOK, PathsBounded, NEW j \in Jobs, Writes(j)
  PROVE  ArchiveType(archive') /\ PathsBounded' /\ ArchiveKept(j)
<1>1. CASE archive' = archive
  BY <1>1 DEF TypeOK, ArchiveType, PathsBounded, ArchiveKept, Paths, Files
<1>2. CASE archive' = Drop(archive, Path(j))
  <2>1. /\ Paths' = Paths \ {Path(j)}
        /\ \A p : p # Path(j) => Files(archive', p) = Files(archive, p)
        /\ \A p \in Paths : p # Path(j) => archive'[p] = archive[p]
    BY <1>2, DropFiles DEF Paths
  <2> QED
    BY <2>1 DEF TypeOK, ArchiveType, PathsBounded, ArchiveKept, Paths
<1>3. CASE \E S \in SUBSET Jobs : archive' = At(archive, Path(j), S)
  <2>1. PICK S \in SUBSET Jobs : archive' = At(archive, Path(j), S)
    BY <1>3
  <2>2. /\ Paths' = Paths \cup {Path(j)}
        /\ \A p : p # Path(j) => Files(archive', p) = Files(archive, p)
    BY <2>1 DEF At, Files, Paths
  <2>3. PICK n \in Nat : \A p \in Paths : p[2] <= n
    BY DEF PathsBounded
  <2>4. PICK v \in Nat : v = Path(j)[2]
    BY PathType
  <2>5. \A p \in Paths : p[2] \in Nat
    BY DEF TypeOK
  <2>6. \A p \in Paths' : p[2] <= n + v
    <3>1. ASSUME NEW p \in Paths PROVE p[2] <= n + v
      <4>1. p[2] \in Nat /\ p[2] <= n
        BY <2>3, <2>5
      <4> HIDE <2>3, <2>5
      <4> QED
        BY <4>1, <2>4
    <3>2. Path(j)[2] <= n + v
      BY <2>4
    <3> QED
      BY <2>2, <3>1, <3>2
  <2>7. n + v \in Nat
    BY <2>3, <2>4
  <2>8. ArchiveType(archive')
    BY <2>1, AtType
  <2>9. PathsBounded'
    BY <2>6, <2>7 DEF PathsBounded
  <2> QED
    BY <2>2, <2>8, <2>9 DEF ArchiveKept
<1> QED
  BY <1>1, <1>2, <1>3 DEF Writes

\* What a job may do to its temporary directory.
Uses(j) ==
  \/ temp' = temp
  \/ temp' = Drop(temp, Dir[j])
  \/ \E S \in SUBSET Jobs : temp' = At(temp, Dir[j], S)

LEMMA UsesType ==
  ASSUME TypeOK, NEW j \in Jobs, Uses(j)
  PROVE  TempType(temp') /\ TempKept(j)
<1>1. CASE temp' = temp
  BY <1>1 DEF TypeOK, TempType, TempKept
<1>2. CASE temp' = Drop(temp, Dir[j])
  <2>1. /\ DOMAIN temp' = DOMAIN temp \ {Dir[j]}
        /\ \A d \in DOMAIN temp : d # Dir[j] => temp'[d] = temp[d]
    BY <1>2, DropFiles
  <2> QED
    BY <2>1 DEF TypeOK, TempType, TempKept
<1>3. CASE \E S \in SUBSET Jobs : temp' = At(temp, Dir[j], S)
  <2>1. PICK S \in SUBSET Jobs : temp' = At(temp, Dir[j], S)
    BY <1>3
  <2>2. /\ DOMAIN temp' = DOMAIN temp \cup {Dir[j]}
        /\ \A d \in DOMAIN temp : d # Dir[j] => temp'[d] = temp[d]
    BY <2>1 DEF At
  <2>3. TempType(temp')
    BY <2>1, AtType
  <2> QED
    BY <2>2, <2>3 DEF TempKept
<1> QED
  BY <1>1, <1>2, <1>3 DEF Uses
-----------------------------------------------------------------------------
(***************************************************************************)
(* The shape of a step, action by action.                                  *)
(***************************************************************************)
OwnMove(j) ==
  /\ job' \in [Jobs -> JobType] /\ sent' \in [Jobs -> Seq(Report)]
  /\ OthersKept(j)

Shaped(j) == OwnMove(j) /\ failed' \subseteq Jobs /\ Writes(j) /\ Uses(j)

LEMMA EndsShaped ==
  ASSUME TypeOK, NEW j \in Jobs,
         Start(j) \/ ConnectFails(j) \/ Abort(j) \/ DetermineStatus(j) \/ ReportFails(j) \/ Kill(j)
  PROVE  Shaped(j)
<1> USE DEF Pc, Report
<1>0. failed \subseteq Jobs /\ sent \in [Jobs -> Seq(Report)] /\ Destination(j) \in Report
  BY DEF TypeOK, Destination
<1>1. CASE Start(j)
  BY <1>0, <1>1, GotoType DEF Start, Shaped, OwnMove, OthersKept, Writes, Uses
<1>2. CASE ConnectFails(j)
  BY <1>0, <1>2, ExitType, FaultType DEF ConnectFails, Shaped, OwnMove, OthersKept, Writes, Uses
<1>3. CASE Abort(j)
  BY <1>3, ExitType, FaultType, SendReportType DEF Abort, Shaped, OwnMove, OthersKept, Writes, Uses
<1>4. CASE DetermineStatus(j)
  BY <1>0, <1>4, ExitType, SendReportType
    DEF DetermineStatus, Shaped, OwnMove, OthersKept, Writes, Uses
<1>5. CASE ReportFails(j)
  BY <1>0, <1>5, ExitType, FaultType, SendReportType
    DEF ReportFails, Shaped, OwnMove, OthersKept, Writes, Uses
<1>6. CASE Kill(j)
  BY <1>0, <1>6, ExitType, FaultType DEF Kill, Shaped, OwnMove, OthersKept, Writes, Uses
<1> QED
  BY <1>1, <1>2, <1>3, <1>4, <1>5, <1>6

LEMMA BeginningShaped ==
  ASSUME TypeOK, PathsBounded, NEW j \in Jobs,
         SendStarted(j) \/ ChoosePath(j) \/ MakeDirectories(j) \/ RunScript(j)
  PROVE  Shaped(j)
<1> USE DEF Pc, Report, Text
<1>0. failed \subseteq Jobs /\ sent \in [Jobs -> Seq(Report)] /\ job[j] \in JobType
  BY DEF TypeOK, JobType
<1>1. CASE SendStarted(j)
  BY <1>0, <1>1, GotoType, ExceptType, FaultType, SendReportType
    DEF SendStarted, Shaped, OwnMove, OthersKept, Writes, Uses
<1>2. CASE ChoosePath(j)
  <2> DEFINE s == [job[j] EXCEPT !.pc = "make", !.version = NewPath(j)]
  <2>1. s \in JobType /\ Move(j, s)
    BY <1>0, <1>2, NewPathNat DEF ChoosePath, JobType
  <2>2. job' \in [Jobs -> JobType] /\ \A k \in Jobs \ {j} : job'[k] = job[k]
    BY <2>1, JobMoves
  <2> QED
    BY <1>0, <1>2, <2>2 DEF ChoosePath, Shaped, OwnMove, OthersKept, Writes, Uses
<1>3. CASE MakeDirectories(j)
  <2>1. Files(temp, Dir[j]) \in SUBSET Jobs /\ Files(archive, Path(j)) \in SUBSET Jobs
    BY FilesType, PathType
  <2>2. Writes(j) /\ Uses(j)
    BY <1>3, <2>1 DEF MakeDirectories, Writes, Uses
  <2>3. OwnMove(j) /\ failed' \subseteq Jobs
    BY <1>0, <1>3, GotoType, ExceptType, FaultType DEF MakeDirectories, OwnMove, OthersKept
  <2> QED
    BY <2>2, <2>3 DEF Shaped
<1>4. CASE RunScript(j)
  <2>1. CASE Dir[j] \notin DOMAIN temp
    BY <1>0, <1>4, <2>1, ExceptType DEF RunScript, Shaped, OwnMove, OthersKept, Writes, Uses
  <2>2. CASE Dir[j] \in DOMAIN temp
    <3>1. PICK end \in {"ok", "error", "skip", "listed"} :
            /\ temp' = At(temp, Dir[j], temp[Dir[j]] \cup {j})
            /\ Move(j, [job[j] EXCEPT !.pc = "remove", !.script = end, !.failing = end # "ok",
                                      !.text = IF end = "listed" THEN "skip" ELSE @])
      BY <1>4, <2>2 DEF RunScript
    <3> DEFINE s == [job[j] EXCEPT !.pc = "remove", !.script = end, !.failing = end # "ok",
                                   !.text = IF end = "listed" THEN "skip" ELSE @]
    <3>2. s \in JobType
      BY <1>0 DEF JobType
    <3>3. Move(j, s)
      BY <3>1
    <3> HIDE DEF s
    <3>4. job' \in [Jobs -> JobType] /\ \A k \in Jobs \ {j} : job'[k] = job[k]
      BY <3>2, <3>3, JobMoves
    <3>5. temp[Dir[j]] \cup {j} \in SUBSET Jobs
      BY <2>2 DEF TypeOK
    <3> QED
      BY <1>0, <1>4, <3>1, <3>4, <3>5 DEF RunScript, Shaped, OwnMove, OthersKept, Writes, Uses
  <2> QED
    BY <2>1, <2>2
<1> QED
  BY <1>1, <1>2, <1>3, <1>4

LEMMA AfterDeleteType ==
  ASSUME TypeOK, NEW j \in Jobs, AfterDelete(j)
  PROVE  /\ job' \in [Jobs -> JobType] /\ \A k \in Jobs \ {j} : job'[k] = job[k]
         /\ job'[j].version = job[j].version
         /\ job'[j].pc \in {"remove", "report"}
         /\ job'[j].text = job[j].text \/ job'[j].text # "none"
         /\ job'[j].pc = "report" /\ job'[j].text = "none" => ~job[j].failing
<1> USE DEF Pc, Text
<1>0. job[j] \in JobType
  BY DEF TypeOK, JobType
<1>1. CASE job[j].failing /\ job[j].script = "skip"
  BY <1>0, <1>1, ExceptType DEF AfterDelete
<1>2. CASE job[j].failing /\ job[j].script # "skip"
  <2> DEFINE s == [job[j] EXCEPT !.pc = "remove", !.failing = FALSE]
  <2>1. s \in JobType /\ s.pc = "remove" /\ s.version = job[j].version /\ s.text = job[j].text
    BY <1>0 DEF JobType
  <2>2. Move(j, s)
    BY <1>2 DEF AfterDelete
  <2> HIDE DEF s
  <2> QED
    BY <2>1, <2>2, JobMoves
<1>3. CASE ~job[j].failing
  <2>1. Goto(j, "report")
    BY <1>3 DEF AfterDelete
  <2> QED
    BY <1>3, <2>1, GotoType
<1> QED
  BY <1>1, <1>2, <1>3

LEMMA CopyingShaped ==
  ASSUME TypeOK, NEW j \in Jobs,
         RemoveOld(j) \/ Copy(j) \/ ExtraDirectories(j) \/ DeleteTemp(j)
  PROVE  Shaped(j)
<1> USE DEF Pc
<1>0. failed \subseteq Jobs /\ sent \in [Jobs -> Seq(Report)]
  BY DEF TypeOK
<1>1. CASE RemoveOld(j)
  <2>1. Writes(j) /\ Uses(j)
    <3>1. Path(j) \in Paths => archive[Path(j)] \subseteq Jobs
      BY DEF TypeOK
    <3> QED
      BY <1>1, <3>1 DEF RemoveOld, Writes, Uses
  <2>2. OwnMove(j) /\ failed' \subseteq Jobs
    BY <1>0, <1>1, GotoType, LogAndMessageType, FaultType DEF RemoveOld, OwnMove, OthersKept
  <2> QED
    BY <2>1, <2>2 DEF Shaped
<1>2. CASE Copy(j)
  <2>1. Writes(j) /\ Uses(j)
    <3>1. Dir[j] \in DOMAIN temp => temp[Dir[j]] \subseteq Jobs
      BY DEF TypeOK
    <3>2. Files(archive, Path(j)) \subseteq Jobs
      BY FilesType, PathType
    <3> QED
      BY <1>2, <3>1, <3>2 DEF Copy, Writes, Uses
  <2>2. OwnMove(j) /\ failed' \subseteq Jobs
    BY <1>0, <1>2, GotoType, LogAndMessageType, FaultType DEF Copy, OwnMove, OthersKept
  <2> QED
    BY <2>1, <2>2 DEF Shaped
<1>3. CASE ExtraDirectories(j)
  BY <1>0, <1>3, GotoType, LogAndMessageType, FaultType
    DEF ExtraDirectories, Shaped, OwnMove, OthersKept, Writes, Uses
<1>4. CASE DeleteTemp(j)
  BY <1>0, <1>4, AfterDeleteType, FaultType
    DEF DeleteTemp, Shaped, OwnMove, OthersKept, Writes, Uses
<1> QED
  BY <1>1, <1>2, <1>3, <1>4

LEMMA StepShaped ==
  ASSUME TypeOK, PathsBounded, NEW j \in Jobs, Step(j)
  PROVE  Shaped(j)
BY EndsShaped, BeginningShaped, CopyingShaped DEF Step, Advance

LEMMA StepType ==
  ASSUME TypeOK, PathsBounded, NEW j \in Jobs, Step(j)
  PROVE  TypeOK' /\ PathsBounded'
<1>1. Shaped(j)
  BY StepShaped
<1>2. ArchiveType(archive') /\ PathsBounded' /\ TempType(temp')
  BY <1>1, WritesType, UsesType DEF Shaped
<1> QED
  BY <1>1, <1>2 DEF Shaped, OwnMove, TypeOK, JobType, TempType, ArchiveType, Paths

\* Only Start makes a process active, and only when no other of its experiment is.
LEMMA StepAlone ==
  ASSUME TypeOK, PathsBounded, Alone, NEW j \in Jobs, Step(j)
  PROVE  Alone'
<1>1. Shaped(j)
  BY StepShaped
<1>2. \A k \in Jobs \ {j} : k \in Active' <=> k \in Active
  BY <1>1 DEF Shaped, OwnMove, OthersKept, Active
<1>3. j \in Active \/ (\A k \in Active : Rb[k] # Rb[j]) \/ j \notin Active'
  <2>1. CASE job[j].pc = "idle"
    BY <2>1, ExitType DEF Step, Start, ConnectFails, Abort, Advance, ReportFails, Kill, SendStarted,
         ChoosePath, MakeDirectories, RunScript, RemoveOld, Copy, ExtraDirectories, DeleteTemp,
         DetermineStatus, Active
  <2>2. CASE job[j].pc # "idle"
    BY <2>2 DEF Step, Start, ConnectFails, Abort, Advance, ReportFails, Kill, SendStarted,
         ChoosePath, MakeDirectories, RunScript, RemoveOld, Copy, ExtraDirectories, DeleteTemp,
         DetermineStatus, Active
  <2> QED
    BY <2>1, <2>2
<1> QED
  BY <1>2, <1>3 DEF Alone, Active
-----------------------------------------------------------------------------
(***************************************************************************)
(* What a step does to the other jobs: one that is active has directories  *)
(* of its own, since those of one experiment are never active together.    *)
(***************************************************************************)
LEMMA DirectoriesApart ==
  ASSUME TypeOK, Alone, NEW j \in Jobs, Step(j), NEW k \in Active \ {j}
  PROVE  Dir[k] # Dir[j] \/ (temp' = temp /\ archive' = archive)
<1>1. CASE Dir[k] # Dir[j]
  BY <1>1
<1>2. CASE Dir[k] = Dir[j]
  <2>1. j \notin Active
    BY <1>2, RbAssumption DEF Alone, Active
  <2>2. Start(j) \/ ConnectFails(j)
    BY <2>1 DEF Step, Abort, Advance, ReportFails, Kill, SendStarted, ChoosePath, MakeDirectories,
      RunScript, RemoveOld, Copy, ExtraDirectories, DeleteTemp, DetermineStatus, Active
  <2> QED
    BY <2>2 DEF Start, ConnectFails
<1> QED
  BY <1>1, <1>2

\* What has failed for a job stays on record.
LEMMA FailedKept ==
  ASSUME NEW j \in Jobs, Step(j)
  PROVE  failed \subseteq failed'
BY DEF Step, Start, ConnectFails, Abort, Advance, ReportFails, Kill, SendStarted, ChoosePath,
  MakeDirectories, RunScript, RemoveOld, Copy, ExtraDirectories, DeleteTemp, DetermineStatus, Fault

LEMMA StepOther ==
  ASSUME IInv, NEW j \in Jobs, Step(j), NEW k \in Jobs \ {j}
  PROVE  TempHolds(k)' /\ Copied(k)' /\ ReportsHeld(k)'
<1> USE DEF IInv, JobsKept
<1>1. Shaped(j)
  BY StepShaped
<1>2. job'[k] = job[k] /\ sent'[k] = sent[k]
  BY <1>1 DEF Shaped, OwnMove, OthersKept
<1>3. ReportsHeld(k)'
  BY <1>2, FailedKept DEF ReportsHeld, Announced
<1>4. CASE k \notin Active
  BY <1>2, <1>3, <1>4 DEF TempHolds, Copied, Active
<1>5. CASE k \in Active
  <2>1. CASE temp' = temp /\ archive' = archive
    BY <1>2, <1>3, <2>1 DEF TempHolds, Copied, Path
  <2>2. CASE Dir[k] # Dir[j]
    <3>1. TempKept(j) /\ ArchiveKept(j)
      BY <1>1, UsesType, WritesType DEF Shaped
    <3>2. Path(k) \in Dirs \X Nat /\ Path(k) # Path(j) /\ Dir[k] \in Dirs \ {Dir[j]}
      BY <2>2, PathType DEF Path
    <3>3. Files(archive', Path(k)) = Files(archive, Path(k))
      BY <3>1, <3>2 DEF ArchiveKept
    <3>4. Path(k)' = Path(k)
      BY <1>2 DEF Path
    <3>5. Copied(k)'
      BY <1>2, <3>3, <3>4 DEF Copied
    <3>6. TempHolds(k)'
      BY <1>2, <3>1, <3>2 DEF TempHolds, TempKept
    <3> QED
      BY <1>3, <3>5, <3>6
  <2> QED
    BY <1>5, <2>1, <2>2, DirectoriesApart
<1> QED
  BY <1>4, <1>5

(***************************************************************************)
(* What a step does to its own job.                                        *)
(***************************************************************************)
LEMMA GoneKept ==
  ASSUME NEW j \in Jobs, job'[j].pc = "gone"
  PROVE  TempHolds(j)' /\ Copied(j)' /\ ReportsHeld(j)'
BY DEF TempHolds, Copied, ReportsHeld, Pc

LEMMA StartedKept ==
  ASSUME NEW j \in Jobs, job'[j].pc \in Pc \ {"idle", "started"},
         Announced(j), sent' = sent, Step(j)
  PROVE  ReportsHeld(j)'
BY FailedKept DEF ReportsHeld, Announced, Pc

LEMMA OwnBeginning ==
  ASSUME IInv, NEW j \in Jobs,
         Start(j) \/ SendStarted(j) \/ ChoosePath(j) \/ MakeDirectories(j) \/ RunScript(j)
  PROVE  TempHolds(j)' /\ Copied(j)' /\ ReportsHeld(j)'
<1> USE DEF IInv, Pc, Text, Report
<1>0. job[j] \in JobType /\ TempHolds(j) /\ Copied(j) /\ ReportsHeld(j) /\ Step(j)
  BY DEF TypeOK, JobType, JobsKept, Step, Advance
<1>1. CASE Start(j)
  <2>1. job[j].pc = "idle" /\ job'[j].pc = "started" /\ sent' = sent
    BY <1>1, GotoType DEF Start
  <2> QED
    BY <1>0, <2>1 DEF TempHolds, Copied, ReportsHeld
<1>2. CASE SendStarted(j)
  <2>1. CASE SendReport(j, "Started") /\ Goto(j, "path")
    <3>1. job'[j].pc = "path" /\ sent'[j] = <<"Started">>
      BY <1>0, <1>2, <2>1, GotoType, SendReportType DEF ReportsHeld, SendStarted
    <3> QED
      BY <3>1 DEF TempHolds, Copied, ReportsHeld, Announced
  <2>2. CASE (Goto(j, "path") \/ Except(j, "other")) /\ Fault(j) /\ UNCHANGED sent
    <3>1. /\ job'[j].pc = "path" \/ (job'[j].pc = "report" /\ job'[j].text = "other")
          /\ sent'[j] = <<>> /\ j \in failed'
      BY <1>0, <1>2, <2>2, GotoType, ExceptType, FaultType DEF ReportsHeld, SendStarted
    <3> QED
      BY <3>1 DEF TempHolds, Copied, ReportsHeld, Announced
  <2> QED
    BY <1>2, <2>1, <2>2 DEF SendStarted
<1>3. CASE ChoosePath(j)
  <2> DEFINE s == [job[j] EXCEPT !.pc = "make", !.version = NewPath(j)]
  <2>1. s \in JobType /\ s.pc = "make" /\ Move(j, s)
    BY <1>0, <1>3, NewPathNat DEF ChoosePath, JobType
  <2>2. job'[j].pc = "make"
    BY <2>1, JobMoves
  <2>3. Announced(j) /\ sent' = sent
    BY <1>0, <1>3 DEF ReportsHeld, ChoosePath
  <2> QED
    BY <1>0, <2>2, <2>3, StartedKept DEF TempHolds, Copied
<1>4. CASE MakeDirectories(j)
  <2>1. Announced(j) /\ sent' = sent
    BY <1>0, <1>4 DEF ReportsHeld, MakeDirectories
  <2>2. job'[j].pc = "script" \/ (job'[j].pc = "report" /\ job'[j].text = "other")
    BY <1>4, GotoType, ExceptType DEF MakeDirectories
  <2> QED
    BY <1>0, <2>1, <2>2, StartedKept DEF TempHolds, Copied
<1>5. CASE RunScript(j)
  <2>1. Announced(j) /\ sent' = sent
    BY <1>0, <1>5 DEF ReportsHeld, RunScript
  <2>2. CASE Dir[j] \notin DOMAIN temp
    <3>1. job'[j].pc = "report" /\ job'[j].text = "other"
      BY <1>5, <2>2, ExceptType DEF RunScript
    <3> QED
      BY <1>0, <2>1, <3>1, StartedKept DEF TempHolds, Copied
  <2>3. CASE Dir[j] \in DOMAIN temp
    <3>1. PICK end \in {"ok", "error", "skip", "listed"} :
            /\ temp' = At(temp, Dir[j], temp[Dir[j]] \cup {j})
            /\ Move(j, [job[j] EXCEPT !.pc = "remove", !.script = end, !.failing = end # "ok",
                                      !.text = IF end = "listed" THEN "skip" ELSE @])
      BY <1>5, <2>3 DEF RunScript
    <3> DEFINE s == [job[j] EXCEPT !.pc = "remove", !.script = end, !.failing = end # "ok",
                                   !.text = IF end = "listed" THEN "skip" ELSE @]
    <3>2. s \in JobType /\ s.pc = "remove"
      BY <1>0 DEF JobType
    <3>3. Move(j, s)
      BY <3>1
    <3> HIDE DEF s
    <3>4. job'[j].pc = "remove"
      BY <3>2, <3>3, JobMoves
    <3>5. j \in temp'[Dir[j]]
      BY <3>1 DEF At
    <3> QED
      BY <1>0, <2>1, <3>4, <3>5, StartedKept DEF TempHolds, Copied
  <2> QED
    BY <2>2, <2>3
<1> QED
  BY <1>1, <1>2, <1>3, <1>4, <1>5

LEMMA OwnCopying ==
  ASSUME IInv, NEW j \in Jobs,
         RemoveOld(j) \/ Copy(j) \/ ExtraDirectories(j) \/ DeleteTemp(j)
  PROVE  TempHolds(j)' /\ Copied(j)' /\ ReportsHeld(j)'
<1> USE DEF IInv, Pc
<1>0. job[j] \in JobType /\ TempHolds(j) /\ Copied(j) /\ ReportsHeld(j) /\ Step(j)
  BY DEF TypeOK, JobType, JobsKept, Step, Advance
<1>1. Announced(j) /\ sent' = sent
  BY <1>0 DEF ReportsHeld, RemoveOld, Copy, ExtraDirectories, DeleteTemp
<1>2. CASE RemoveOld(j)
  <2>1. job[j].pc = "remove" /\ job'[j].pc = "copy" /\ temp' = temp
    BY <1>2, GotoType, LogAndMessageType DEF RemoveOld
  <2> QED
    BY <1>0, <1>1, <2>1, StartedKept DEF TempHolds, Copied
<1>3. CASE Copy(j)
  <2> DEFINE next == IF job[j].failing THEN "delete" ELSE "extra"
  <2>1. next \in {"delete", "extra"} /\ job[j].pc = "copy" /\ temp' = temp
    BY <1>3 DEF Copy
  <2>2. CASE LogAndMessage(j, next)
    <3>1. job'[j].pc = next /\ job'[j].text # "none"
      BY <2>1, <2>2, LogAndMessageType
    <3> QED
      BY <1>0, <1>1, <2>1, <3>1, StartedKept DEF TempHolds, Copied
  <2>3. CASE /\ Goto(j, next) /\ Dir[j] \in DOMAIN temp
             /\ archive' = At(archive, Path(j), Files(archive, Path(j)) \cup temp[Dir[j]])
    <3>1. job'[j].pc = next /\ job'[j].version = job[j].version
      BY <2>1, <2>3, GotoType
    <3>2. j \in temp[Dir[j]]
      BY <1>0, <2>1, <2>3 DEF TempHolds
    <3>3. j \in Files(archive', Path(j))
      BY <2>3, <3>2 DEF At, Files
    <3>4. Path(j)' = Path(j)
      BY <3>1 DEF Path
    <3> QED
      BY <1>0, <1>1, <2>1, <3>1, <3>3, <3>4, StartedKept DEF TempHolds, Copied
  <2> QED
    BY <1>3, <2>2, <2>3 DEF Copy
<1>4. CASE ExtraDirectories(j)
  <2>1. /\ job[j].pc = "extra" /\ job'[j].pc = "delete" /\ job'[j].version = job[j].version
        /\ job'[j].text = "none" => job[j].text = "none"
        /\ temp' = temp /\ archive' = archive
    BY <1>4, GotoType, LogAndMessageType DEF ExtraDirectories
  <2>2. Path(j)' = Path(j)
    BY <2>1 DEF Path
  <2> QED
    BY <1>0, <1>1, <2>1, <2>2, StartedKept DEF TempHolds, Copied
<1>5. CASE DeleteTemp(j)
  <2>1. /\ job[j].pc = "delete" /\ job'[j].pc \in {"remove", "report"}
        /\ job'[j].version = job[j].version
        /\ job'[j].text = "none" => job[j].text = "none"
        /\ archive' = archive
    BY <1>5, AfterDeleteType DEF DeleteTemp
  <2>2. temp' = temp \/ Dir[j] \notin DOMAIN temp'
    BY <1>5 DEF DeleteTemp, Drop
  <2>3. Path(j)' = Path(j)
    BY <2>1 DEF Path
  <2> QED
    BY <1>0, <1>1, <2>1, <2>2, <2>3, StartedKept DEF TempHolds, Copied
<1> QED
  BY <1>2, <1>3, <1>4, <1>5

LEMMA StepOwn ==
  ASSUME IInv, NEW j \in Jobs, Step(j)
  PROVE  TempHolds(j)' /\ Copied(j)' /\ ReportsHeld(j)'
<1>1. CASE ConnectFails(j) \/ Abort(j) \/ DetermineStatus(j) \/ ReportFails(j) \/ Kill(j)
  BY <1>1, ExitType, GoneKept
    DEF IInv, ConnectFails, Abort, DetermineStatus, ReportFails, Kill
<1>2. CASE Start(j) \/ SendStarted(j) \/ ChoosePath(j) \/ MakeDirectories(j) \/ RunScript(j)
  BY <1>2, OwnBeginning
<1>3. CASE RemoveOld(j) \/ Copy(j) \/ ExtraDirectories(j) \/ DeleteTemp(j)
  BY <1>3, OwnCopying
<1> QED
  BY <1>1, <1>2, <1>3 DEF Step, Advance

LEMMA InitInv ==
  ASSUME Init
  PROVE  IInv
<1>1. job \in [Jobs -> JobType] /\ \A j \in Jobs : job[j].pc = "idle" /\ sent[j] = <<>>
  BY DEF Init, JobType, Pc, Text
<1>2. DOMAIN temp = {} /\ Paths = {}
  BY DEF Init, Paths
<1>3. sent \in [Jobs -> Seq(Report)] /\ failed \subseteq Jobs
  BY BoundsAssumption DEF Init
<1>4. TypeOK
  BY <1>1, <1>2, <1>3 DEF TypeOK, JobType
<1>5. PathsBounded
  BY <1>2 DEF PathsBounded
<1>6. Alone
  BY <1>1 DEF Alone, Active
<1>7. JobsKept
  BY <1>1 DEF JobsKept, TempHolds, Copied, ReportsHeld, Pc
<1> QED
  BY <1>4, <1>5, <1>6, <1>7 DEF IInv

LEMMA StepInv ==
  ASSUME IInv, [Next]_vars
  PROVE  IInv'
<1>1. CASE UNCHANGED vars
  BY <1>1 DEF vars, IInv, TypeOK, Paths, PathsBounded, Alone, Active, JobsKept, TempHolds, Copied,
              Path, Files, ReportsHeld, Announced
<1>2. CASE Next
  <2>1. PICK j \in Jobs : Step(j)
    BY <1>2 DEF Next, Step
  <2>2. TypeOK' /\ PathsBounded' /\ Alone'
    BY <2>1, StepType, StepAlone DEF IInv
  <2>3. JobsKept'
    BY <2>1, StepOther, StepOwn DEF JobsKept
  <2> QED
    BY <2>2, <2>3 DEF IInv
<1> QED
  BY <1>1, <1>2

-----------------------------------------------------------------------------
(***************************************************************************)
(* The invariant holds of every behaviour: no job of an experiment starts  *)
(* while another is active, and what a job copies is what it has written.  *)
(***************************************************************************)
THEOREM Invariance == Spec => []IInv
<1>1. Init => IInv
  BY InitInv
<1>2. IInv /\ [Next]_vars => IInv'
  BY StepInv
<1> QED
  BY <1>1, <1>2, PTL DEF Spec

(***************************************************************************)
(* Processes, directories and reports keep their types; in particular the  *)
(* version _new_reduction_data_path chooses is always a number.            *)
(***************************************************************************)
THEOREM TypeCorrect == Spec => []TypeOK
<1>1. IInv => TypeOK
  BY DEF IInv
<1> QED
  BY <1>1, Invariance, PTL

(***************************************************************************)
(* Whatever cannot be made, removed, copied or deleted, and whoever is     *)
(* killed: a job that is about to report Complete has its results in the   *)
(* directory it reports (determine_reduction_status).                      *)
(***************************************************************************)
THEOREM ResultsOnCompletion == Spec => []CompleteHasResults
<1>1. IInv => CompleteHasResults
  <2> SUFFICES ASSUME IInv, NEW j \in Jobs, Completing(j)
               PROVE  j \in Files(archive, Path(j))
    BY DEF CompleteHasResults
  <2>1. job[j].pc = "report" /\ job[j].text = "none"
    BY DEF Completing, Destination
  <2>2. Copied(j)
    BY DEF IInv, JobsKept
  <2> QED
    BY <2>1, <2>2 DEF Copied
<1> QED
  BY <1>1, Invariance, PTL
-----------------------------------------------------------------------------
\* What is reported of a job: a step of its own adds to it, or nothing is.
LEMMA StepReports ==
  ASSUME IInv, NEW j \in Jobs, Step(j)
  PROVE  [Reported!Next]_<<sent, failed>>
<1> USE DEF Report
<1>0. TypeOK /\ ReportsHeld(j)
  BY DEF IInv, JobsKept
<1>1. CASE Abort(j)
  <2>1. sent[j] = <<>> /\ SendReport(j, "Error") /\ failed' = failed \cup {j}
    BY <1>0, <1>1 DEF Abort, ReportsHeld, Fault
  <2>2. Reported!FinishUntold(j)
    BY <2>1 DEF Reported!FinishUntold, Reported!Outcome, SendReport
  <2> QED
    BY <2>2 DEF Reported!Next
<1>2. CASE SendStarted(j) /\ SendReport(j, "Started") /\ UNCHANGED failed
  <2>1. Reported!Start(j)
    BY <1>0, <1>2 DEF Reported!Start, SendStarted, SendReport, ReportsHeld
  <2> QED
    BY <2>1 DEF Reported!Next
<1>3. CASE DetermineStatus(j)
  <2>1. job[j].pc = "report" /\ SendReport(j, Destination(j)) /\ UNCHANGED failed
    BY <1>3 DEF DetermineStatus
  <2>2. Destination(j) \in Reported!Outcome
    BY DEF Destination, Reported!Outcome
  <2>3. CASE sent[j] = <<"Started">>
    <3>1. Reported!Finish(j)
      BY <2>1, <2>2, <2>3 DEF Reported!Finish, SendReport
    <3> QED
      BY <3>1 DEF Reported!Next
  <2>4. CASE sent[j] = <<>> /\ j \in failed
    <3>1. Reported!FinishUntold(j)
      BY <2>1, <2>2, <2>4 DEF Reported!FinishUntold, SendReport
    <3> QED
      BY <3>1 DEF Reported!Next
  <2> QED
    BY <1>0, <2>1, <2>3, <2>4 DEF ReportsHeld, Announced, Pc
<1>4. CASE ReportFails(j) /\ SendReport(j, "Error")
  <2>1. job[j].pc = "report" /\ failed' = failed \cup {j}
    BY <1>4 DEF ReportFails, Fault
  <2>2. CASE sent[j] = <<"Started">>
    <3>1. Reported!Finish(j)
      BY <1>4, <2>1, <2>2 DEF Reported!Finish, Reported!Outcome, SendReport
    <3> QED
      BY <3>1 DEF Reported!Next
  <2>3. CASE sent[j] = <<>>
    <3>1. Reported!FinishUntold(j)
      BY <1>4, <2>1, <2>3 DEF Reported!FinishUntold, Reported!Outcome, SendReport
    <3> QED
      BY <3>1 DEF Reported!Next
  <2> QED
    BY <1>0, <2>1, <2>2, <2>3 DEF ReportsHeld, Announced, Pc
<1>5. CASE sent' = sent
  <2>1. failed' = failed \/ failed' = failed \cup {j}
    BY DEF Step, Start, ConnectFails, Abort, Advance, ReportFails, Kill, SendStarted, ChoosePath,
      MakeDirectories, RunScript, RemoveOld, Copy, ExtraDirectories, DeleteTemp, DetermineStatus, Fault
  <2>2. CASE failed' = failed \cup {j}
    <3>1. Reported!Fail(j)
      BY <1>5, <2>2 DEF Reported!Fail
    <3> QED
      BY <3>1 DEF Reported!Next
  <2> QED
    BY <1>5, <2>1, <2>2
<1> QED
  BY <1>1, <1>2, <1>3, <1>4, <1>5
    DEF Step, Start, ConnectFails, Advance, ReportFails, Kill, SendStarted, ChoosePath,
        MakeDirectories, RunScript, RemoveOld, Copy, ExtraDirectories, DeleteTemp

(***************************************************************************)
(* PostProcessAdmin implements ReductionJob: a job reports one outcome at  *)
(* most, and no outcome before its start unless one of its own operations  *)
(* has failed, whatever raises on the way from reduce() to main's last     *)
(* handler (send_reduction_message, determine_reduction_status).           *)
(***************************************************************************)
THEOREM JobImplemented == Spec => JobSpec
<1>1. Init => Reported!Init
  BY DEF Init, Reported!Init
<1>2. IInv /\ [Next]_vars => [Reported!Next]_<<sent, failed>>
  <2>1. ASSUME IInv, Next PROVE [Reported!Next]_<<sent, failed>>
    BY <2>1, StepReports DEF Next, Step
  <2>2. UNCHANGED vars => UNCHANGED <<sent, failed>>
    BY DEF vars
  <2> QED
    BY <2>1, <2>2
<1> QED
  BY <1>1, <1>2, Invariance, PTL DEF Spec, JobSpec, Reported!Spec, Reported!vars
-----------------------------------------------------------------------------
(***************************************************************************)
(* While nothing has failed a temporary directory is of one active job and *)
(* holds what this job has written, and so do its results.                 *)
(***************************************************************************)
Used == {"script", "remove", "copy", "extra", "delete"}

TempOwned ==
  \A d \in DOMAIN temp : \E j \in Jobs : Dir[j] = d /\ job[j].pc \in Used /\ temp[d] \subseteq {j}

OwnResults(j) ==
  Dir[j] \notin Excitation =>
    /\ job[j].pc = "copy" => Files(archive, Path(j)) = {}
    /\ job[j].pc \in {"extra", "delete", "report"} /\ job[j].text = "none" =>
         Files(archive, Path(j)) \subseteq {j}

NothingMixed == TempOwned /\ \A j \in Jobs : OwnResults(j)

\* An active job finds the temporary directory as it has left it, or none.
TempMine(j) == Dir[j] \in DOMAIN temp => job[j].pc \in Used /\ temp[Dir[j]] \subseteq {j}

LEMMA ActiveTemp ==
  ASSUME IInv, TempOwned, NEW j \in Active
  PROVE  TempMine(j)
<1> SUFFICES ASSUME Dir[j] \in DOMAIN temp
             PROVE  job[j].pc \in Used /\ temp[Dir[j]] \subseteq {j}
  BY DEF TempMine
<1>1. PICK i \in Jobs : Dir[i] = Dir[j] /\ job[i].pc \in Used /\ temp[Dir[j]] \subseteq {i}
  BY DEF TempOwned
<1>2. i = j
  BY <1>1, RbAssumption DEF IInv, Alone, Active, Used
<1> QED
  BY <1>1, <1>2

LEMMA OwnMixesNothing ==
  ASSUME IInv, NothingMixed, NEW j \in Active, Step(j), ~Fault(j)
  PROVE  TempMine(j)' /\ OwnResults(j)'
<1> USE DEF IInv, Pc, Text
<1>0. /\ j \in Jobs /\ TypeOK /\ job[j] \in JobType /\ TempMine(j) /\ OwnResults(j)
      /\ job[j].pc \notin {"idle", "gone"}
  BY ActiveTemp DEF NothingMixed, Active, TypeOK, JobType
<1>1. CASE SendStarted(j)
  <2>1. job[j].pc = "started" /\ job'[j].pc = "path" /\ temp' = temp
    BY <1>0, <1>1, GotoType DEF SendStarted
  <2> QED
    BY <1>0, <2>1 DEF TempMine, OwnResults, Used
<1>2. CASE ChoosePath(j)
  <2> DEFINE s == [job[j] EXCEPT !.pc = "make", !.version = NewPath(j)]
  <2>1. s \in JobType /\ s.pc = "make" /\ Move(j, s)
    BY <1>0, <1>2, NewPathNat DEF ChoosePath, JobType
  <2>2. job[j].pc = "path" /\ job'[j].pc = "make" /\ temp' = temp
    BY <1>0, <1>2, <2>1, JobMoves DEF ChoosePath
  <2> QED
    BY <1>0, <2>2 DEF TempMine, OwnResults, Used
<1>3. CASE MakeDirectories(j)
  <2>1. /\ job[j].pc = "make" /\ job'[j].pc = "script"
        /\ temp' = At(temp, Dir[j], Files(temp, Dir[j]))
    BY <1>0, <1>3, GotoType DEF MakeDirectories
  <2>2. temp'[Dir[j]] = {}
    BY <1>0, <2>1 DEF At, Files, TempMine, Used
  <2> QED
    BY <2>1, <2>2 DEF TempMine, OwnResults, Used
<1>4. CASE RunScript(j)
  <2>1. CASE Dir[j] \notin DOMAIN temp
    <3>1. job'[j].pc = "report" /\ job'[j].text = "other" /\ temp' = temp
      BY <1>0, <1>4, <2>1, ExceptType DEF RunScript
    <3> QED
      BY <2>1, <3>1 DEF TempMine, OwnResults
  <2>2. CASE Dir[j] \in DOMAIN temp
    <3>1. PICK end \in {"ok", "error", "skip", "listed"} :
            /\ temp' = At(temp, Dir[j], temp[Dir[j]] \cup {j})
            /\ Move(j, [job[j] EXCEPT !.pc = "remove", !.script = end, !.failing = end # "ok",
                                      !.text = IF end = "listed" THEN "skip" ELSE @])
      BY <1>4, <2>2 DEF RunScript
    <3> DEFINE s == [job[j] EXCEPT !.pc = "remove", !.script = end, !.failing = end # "ok",
                                   !.text = IF end = "listed" THEN "skip" ELSE @]
    <3>2. s \in JobType /\ s.pc = "remove"
      BY <1>0 DEF JobType
    <3>3. Move(j, s)
      BY <3>1
    <3> HIDE DEF s
    <3>4. job'[j].pc = "remove"
      BY <1>0, <3>2, <3>3, JobMoves
    <3>5. temp'[Dir[j]] = temp[Dir[j]] \cup {j} /\ temp[Dir[j]] \subseteq {j}
      BY <1>0, <2>2, <3>1 DEF At, TempMine
    <3> QED
      BY <3>4, <3>5 DEF TempMine, OwnResults, Used
  <2> QED
    BY <2>1, <2>2
<1>5. CASE RemoveOld(j)
  <2>1. /\ job[j].pc = "remove" /\ job'[j].pc = "copy" /\ job'[j].version = job[j].version
        /\ temp' = temp
    BY <1>0, <1>5, GotoType DEF RemoveOld
  <2>2. Path(j)' = Path(j)
    BY <2>1 DEF Path
  <2>3. Dir[j] \notin Excitation => Files(archive', Path(j)) = {}
    <3>1. CASE Path(j) \in Paths /\ Dir[j] \notin Excitation
      BY <1>5, <3>1 DEF RemoveOld, Drop, Files
    <3>2. CASE Path(j) \notin Paths
      BY <1>5, <3>2 DEF RemoveOld, Files, Paths
    <3> QED
      BY <3>1, <3>2
  <2>4. TempMine(j)'
    BY <1>0, <2>1 DEF TempMine, Used
  <2> QED
    BY <2>1, <2>2, <2>3, <2>4 DEF OwnResults
<1>6. CASE Copy(j)
  <2> DEFINE next == IF job[j].failing THEN "delete" ELSE "extra"
  <2>1. next \in {"delete", "extra"} /\ job[j].pc = "copy" /\ temp' = temp
    BY <1>6 DEF Copy
  <2>2. CASE LogAndMessage(j, next)
    <3>1. job'[j].pc = next /\ job'[j].text # "none"
      BY <1>0, <2>1, <2>2, LogAndMessageType
    <3> QED
      BY <1>0, <2>1, <3>1 DEF TempMine, OwnResults, Used
  <2>3. CASE /\ Goto(j, next) /\ Dir[j] \in DOMAIN temp
             /\ archive' = At(archive, Path(j), Files(archive, Path(j)) \cup temp[Dir[j]])
    <3>1. job'[j].pc = next /\ job'[j].version = job[j].version
      BY <1>0, <2>1, <2>3, GotoType
    <3>2. Files(archive', Path(j)) = Files(archive, Path(j)) \cup temp[Dir[j]]
      BY <2>3 DEF At, Files
    <3>3. Path(j)' = Path(j)
      BY <3>1 DEF Path
    <3>4. Dir[j] \notin Excitation => Files(archive', Path(j)) \subseteq {j}
      BY <1>0, <2>1, <2>3, <3>2 DEF OwnResults, TempMine
    <3>5. TempMine(j)'
      BY <1>0, <2>1, <3>1 DEF TempMine, Used
    <3> QED
      BY <2>1, <3>1, <3>3, <3>4, <3>5 DEF OwnResults
  <2> QED
    BY <1>6, <2>2, <2>3 DEF Copy
<1>7. CASE ExtraDirectories(j)
  <2>1. /\ job[j].pc = "extra" /\ job'[j].pc = "delete" /\ job'[j].version = job[j].version
        /\ job'[j].text = "none" => job[j].text = "none"
        /\ temp' = temp /\ archive' = archive
    BY <1>0, <1>7, GotoType, LogAndMessageType DEF ExtraDirectories
  <2>2. Path(j)' = Path(j)
    BY <2>1 DEF Path
  <2> QED
    BY <1>0, <2>1, <2>2 DEF TempMine, OwnResults, Used
<1>8. CASE DeleteTemp(j)
  <2>1. /\ job[j].pc = "delete" /\ job'[j].pc \in {"remove", "report"}
        /\ job'[j].version = job[j].version
        /\ job'[j].text = "none" => job[j].text = "none"
        /\ archive' = archive
    BY <1>0, <1>8, AfterDeleteType DEF DeleteTemp
  <2>2. Dir[j] \notin DOMAIN temp'
    BY <1>8 DEF DeleteTemp, Drop
  <2>3. Path(j)' = Path(j)
    BY <2>1 DEF Path
  <2> QED
    BY <1>0, <2>1, <2>2, <2>3 DEF TempMine, OwnResults
<1>9. CASE DetermineStatus(j)
  <2>1. job[j].pc = "report" /\ job'[j].pc = "gone" /\ temp' = temp
    BY <1>0, <1>9, ExitType DEF DetermineStatus
  <2> QED
    BY <1>0, <2>1 DEF TempMine, OwnResults, Used
<1> QED
  BY <1>0, <1>1, <1>2, <1>3, <1>4, <1>5, <1>6, <1>7, <1>8, <1>9
    DEF Step, Advance, Start, ConnectFails, Abort, ReportFails, Kill

LEMMA OtherMixesNothing ==
  ASSUME IInv, NothingMixed, NEW j \in Jobs, Step(j), NEW k \in Jobs \ {j}
  PROVE  OwnResults(k)'
<1> USE DEF IInv
<1>1. Shaped(j) /\ OwnResults(k)
  BY StepShaped DEF NothingMixed
<1>2. job'[k] = job[k] /\ Path(k)' = Path(k)
  BY <1>1 DEF Shaped, OwnMove, OthersKept, Path
<1>3. CASE k \notin Active \/ archive' = archive
  BY <1>1, <1>2, <1>3 DEF OwnResults, Active
<1>4. CASE Dir[k] # Dir[j]
  <2>1. ArchiveKept(j)
    BY <1>1, WritesType DEF Shaped
  <2>2. Path(k) \in Dirs \X Nat /\ Path(k) # Path(j)
    BY <1>4, PathType DEF Path
  <2>3. Files(archive', Path(k)) = Files(archive, Path(k))
    BY <2>1, <2>2 DEF ArchiveKept
  <2> QED
    BY <1>1, <1>2, <2>3 DEF OwnResults
<1> QED
  BY <1>3, <1>4, DirectoriesApart

LEMMA MixesNothing ==
  ASSUME IInv, failed = {} => NothingMixed, [Next]_vars
  PROVE  failed' = {} => NothingMixed'
<1> SUFFICES ASSUME failed' = {} PROVE NothingMixed'
  OBVIOUS
<1>1. CASE UNCHANGED vars
  BY <1>1 DEF vars, NothingMixed, TempOwned, OwnResults, Files, Path
<1>2. CASE Next
  <2>1. PICK j \in Jobs : Step(j)
    BY <1>2 DEF Next, Step
  <2>2. failed' = failed \/ j \in failed'
    BY <2>1 DEF Step, Start, ConnectFails, Abort, Advance, ReportFails, Kill, SendStarted,
         ChoosePath, MakeDirectories, RunScript, RemoveOld, Copy, ExtraDirectories, DeleteTemp,
         DetermineStatus, Fault
  <2>3. failed = {} /\ ~Fault(j) /\ NothingMixed
    BY <2>2 DEF IInv, TypeOK, Fault
  <2>4. Shaped(j) /\ TempKept(j) /\ OthersKept(j)
    BY <2>1, StepShaped, UsesType DEF IInv, Shaped, OwnMove
  <2>5. CASE j \in Active
    <3>1. TempMine(j)' /\ OwnResults(j)'
      BY <2>1, <2>3, <2>5, OwnMixesNothing
    <3>2. \A k \in Jobs : OwnResults(k)'
      BY <2>1, <2>3, <3>1, OtherMixesNothing
    <3>3. ASSUME NEW d \in DOMAIN temp'
          PROVE  \E i \in Jobs : Dir[i] = d /\ job'[i].pc \in Used /\ temp'[d] \subseteq {i}
      <4>1. CASE d = Dir[j]
        BY <3>1, <4>1 DEF TempMine
      <4>2. CASE d # Dir[j]
        <5>1. d \in Dirs
          BY <2>4, UsesType DEF Shaped, IInv, TempType
        <5>2. d \in DOMAIN temp /\ temp'[d] = temp[d]
          BY <2>4, <4>2, <5>1 DEF TempKept
        <5>3. PICK i \in Jobs : Dir[i] = d /\ job[i].pc \in Used /\ temp[d] \subseteq {i}
          BY <2>3, <5>2 DEF NothingMixed, TempOwned
        <5> QED
          BY <2>4, <4>2, <5>2, <5>3 DEF OthersKept
      <4> QED
        BY <4>1, <4>2
    <3> QED
      BY <3>2, <3>3 DEF NothingMixed, TempOwned
  <2>6. CASE j \notin Active
    <3>1. Start(j)
      BY <2>1, <2>3, <2>6 DEF Step, ConnectFails, Abort, Advance, ReportFails, Kill, SendStarted,
           ChoosePath, MakeDirectories, RunScript, RemoveOld, Copy, ExtraDirectories, DeleteTemp,
           DetermineStatus, Active
    <3>2. job[j].pc = "idle" /\ job'[j].pc = "started" /\ UNCHANGED <<temp, archive>>
      BY <3>1, GotoType DEF Start, IInv, Pc
    <3>3. OwnResults(j)'
      BY <3>2 DEF OwnResults
    <3>4. TempOwned'
      <4> SUFFICES ASSUME NEW d \in DOMAIN temp
                   PROVE  \E i \in Jobs : Dir[i] = d /\ job'[i].pc \in Used /\ temp[d] \subseteq {i}
        BY <3>2 DEF TempOwned
      <4>1. PICK i \in Jobs : Dir[i] = d /\ job[i].pc \in Used /\ temp[d] \subseteq {i}
        BY <2>3 DEF NothingMixed, TempOwned
      <4>2. i # j
        BY <3>2, <4>1 DEF Used
      <4> QED
        BY <2>4, <4>1, <4>2 DEF OthersKept
    <3> QED
      BY <2>1, <2>3, <3>3, <3>4, OtherMixesNothing DEF NothingMixed
  <2> QED
    BY <2>5, <2>6
<1> QED
  BY <1>1, <1>2

(***************************************************************************)
(* While nothing was killed and nothing has failed, a job that is about to *)
(* report Complete has its own files in its results and no other's, but on *)
(* excitation instruments, whose directories are never emptied.            *)
(***************************************************************************)
THEOREM NothingFromOthers == Spec => []ResultsUnmixed
<1>1. Init => IInv /\ (failed = {} => NothingMixed)
  <2> SUFFICES ASSUME Init PROVE IInv /\ NothingMixed
    OBVIOUS
  <2>1. IInv /\ DOMAIN temp = {} /\ \A j \in Jobs : job[j].pc = "idle"
    BY InitInv DEF Init
  <2> QED
    BY <2>1 DEF NothingMixed, TempOwned, OwnResults
<1>2. IInv /\ (failed = {} => NothingMixed) /\ [Next]_vars => (IInv /\ (failed = {} => NothingMixed))'
  BY StepInv, MixesNothing
<1>3. (failed = {} => NothingMixed) => ResultsUnmixed
  BY DEF NothingMixed, OwnResults, ResultsUnmixed, Completing, Destination
<1> QED
  BY <1>1, <1>2, <1>3, PTL DEF Spec
-----------------------------------------------------------------------------
(***************************************************************************)
(* A version that has been reported complete and that nobody has begun to  *)
(* overwrite has a directory that no process at work calls its own: a new  *)
(* version is one that had no directory, and a version that overwrites is  *)
(* the first.                                                              *)
(***************************************************************************)
Writing == {"make", "script", "remove", "copy", "extra", "delete"}

LeftAlone(k) ==
  Completed(k) /\ ~Overwritten(k) =>
    /\ Path(k) \in Paths
    /\ \A j \in Jobs \ {k} : job[j].pc \in Writing => Path(j) # Path(k)

OverwriteFirst == \A o \in Overwrites : job[o].version = 0

OldKept == OverwriteFirst /\ \A k \in Jobs : LeftAlone(k)

\* _new_reduction_data_path: a version nobody has asked to overwrite is a new one.
LEMMA NewPathFresh ==
  ASSUME TypeOK, PathsBounded, NEW j \in Jobs \ Overwrites
  PROVE  <<Dir[j], NewPath(j)>> \notin Paths
<1> DEFINE V == {v \in {p[2] : p \in Paths} : <<Dir[j], v>> \in Paths}
<1>0. \A v : <<Dir[j], v>> \in Paths => v \in V
  <2> SUFFICES ASSUME NEW v, <<Dir[j], v>> \in Paths PROVE v \in {p[2] : p \in Paths}
    OBVIOUS
  <2>1. <<Dir[j], v>>[2] = v
    OBVIOUS
  <2> QED
    BY <2>1
<1>1. CASE V = {}
  <2>1. NewPath(j) = 0
    BY <1>1 DEF NewPath
  <2> HIDE DEF V
  <2> QED
    BY <1>0, <1>1, <2>1
<1>2. CASE V # {}
  <2>1. PICK n \in Nat : \A p \in Paths : p[2] <= n
    BY DEF PathsBounded
  <2>2. Paths \subseteq Dirs \X Nat
    BY DEF TypeOK
  <2>3. V \in SUBSET Nat /\ V # {} /\ \A v \in V : v <= n
    BY <1>2, <2>1, <2>2
  <2>4. \E v \in V : \A w \in V : w <= v
    BY <2>3, GreatestExists
  <2> DEFINE m == CHOOSE v \in V : \A w \in V : w <= v
  <2>5. m \in V /\ \A w \in V : w <= m
    BY <2>4
  <2>6. m \in Nat
    BY <2>3, <2>5
  <2>7. NewPath(j) = m + 1
    BY <1>2 DEF NewPath
  <2> HIDE DEF m, V
  <2>8. m + 1 \notin V
    BY <2>5, <2>6
  <2> QED
    BY <1>0, <2>7, <2>8
<1> QED
  BY <1>1, <1>2

LEMMA ChoosePathVersion ==
  ASSUME TypeOK, PathsBounded, NEW j \in Jobs, ChoosePath(j)
  PROVE  /\ job[j].pc = "path" /\ job'[j].pc = "make" /\ job'[j].version = NewPath(j)
         /\ archive' = archive /\ sent' = sent
<1> DEFINE s == [job[j] EXCEPT !.pc = "make", !.version = NewPath(j)]
<1>1. s \in JobType /\ s.pc = "make" /\ s.version = NewPath(j)
  BY NewPathNat DEF TypeOK, JobType, Pc
<1>2. Move(j, s)
  BY DEF ChoosePath
<1> HIDE DEF s
<1> QED
  BY <1>1, <1>2, JobMoves DEF ChoosePath

\* Only _new_reduction_data_path sets the version, and only a job past it works in the archive.
LEMMA VersionKept ==
  ASSUME TypeOK, PathsBounded, NEW j \in Jobs, Step(j), ~ChoosePath(j)
  PROVE  /\ job'[j].version = job[j].version
         /\ job'[j].pc \in Writing => job[j].pc \in Writing
         /\ Begun(j) => Begun(j)'
         /\ archive' # archive => job[j].pc \in Writing
<1> USE DEF Writing, Pc, Text, Begun
<1>0. job[j] \in JobType
  BY DEF TypeOK, JobType
<1>1. CASE ConnectFails(j) \/ Abort(j) \/ DetermineStatus(j) \/ ReportFails(j) \/ Kill(j)
  BY <1>1, ExitType DEF ConnectFails, Abort, DetermineStatus, ReportFails, Kill
<1>2. CASE Start(j) \/ SendStarted(j)
  BY <1>2, GotoType, ExceptType DEF Start, SendStarted
<1>3. CASE MakeDirectories(j)
  BY <1>3, GotoType, ExceptType DEF MakeDirectories
<1>4. CASE RunScript(j)
  <2>1. CASE Dir[j] \notin DOMAIN temp
    BY <1>4, <2>1, ExceptType DEF RunScript
  <2>2. CASE Dir[j] \in DOMAIN temp
    <3>1. PICK end \in {"ok", "error", "skip", "listed"} :
            Move(j, [job[j] EXCEPT !.pc = "remove", !.script = end, !.failing = end # "ok",
                                   !.text = IF end = "listed" THEN "skip" ELSE @])
      BY <1>4, <2>2 DEF RunScript
    <3> DEFINE s == [job[j] EXCEPT !.pc = "remove", !.script = end, !.failing = end # "ok",
                                   !.text = IF end = "listed" THEN "skip" ELSE @]
    <3>2. s \in JobType /\ s.pc = "remove" /\ s.version = job[j].version
      BY <1>0 DEF JobType
    <3>3. Move(j, s)
      BY <3>1
    <3> HIDE DEF s
    <3>4. job'[j].pc = "remove" /\ job'[j].version = job[j].version
      BY <3>2, <3>3, JobMoves
    <3> QED
      BY <1>4, <3>4 DEF RunScript
  <2> QED
    BY <2>1, <2>2
<1>5. CASE RemoveOld(j) \/ ExtraDirectories(j)
  BY <1>5, GotoType, LogAndMessageType DEF RemoveOld, ExtraDirectories
<1>6. CASE Copy(j)
  <2> DEFINE next == IF job[j].failing THEN "delete" ELSE "extra"
  <2>1. next \in Pc /\ next \in Writing
    OBVIOUS
  <2>2. Goto(j, next) \/ LogAndMessage(j, next)
    BY <1>6 DEF Copy
  <2>3. job[j].pc = "copy"
    BY <1>6 DEF Copy
  <2> HIDE DEF next
  <2> QED
    BY <2>1, <2>2, <2>3, GotoType, LogAndMessageType
<1>7. CASE DeleteTemp(j)
  BY <1>7, AfterDeleteType DEF DeleteTemp
<1> QED
  BY <1>1, <1>2, <1>3, <1>4, <1>5, <1>6, <1>7 DEF Step, Advance

\* A report of completion is the last thing a process does.
LEMMA CompletedGone ==
  ASSUME IInv, NEW k \in Jobs, Completed(k)
  PROVE  job[k].pc = "gone"
BY DEF IInv, TypeOK, JobsKept, ReportsHeld, Announced, Phase, Completed, Pc

LEMMA OverwriteFirstKept ==
  ASSUME IInv, OverwriteFirst, NEW j \in Jobs, Step(j)
  PROVE  OverwriteFirst'
<1> USE DEF IInv, OverwriteFirst
<1>1. Shaped(j)
  BY StepShaped
<1>2. j \in Overwrites => job'[j].version = 0
  BY VersionKept, ChoosePathVersion DEF NewPath
<1> QED
  BY <1>1, <1>2, DirAssumption DEF Shaped, OwnMove, OthersKept

LEMMA OverwrittenKept ==
  ASSUME IInv, OverwriteFirst, NEW j \in Jobs, Step(j), NEW k \in Jobs \ {j}, Overwritten(k)
  PROVE  Overwritten(k)'
<1> USE DEF IInv
<1>1. Shaped(j) /\ OverwriteFirst'
  BY StepShaped, OverwriteFirstKept
<1>2. PICK o \in Overwrites \ {k} : Path(o) = Path(k) /\ Begun(o)
  BY DEF Overwritten
<1>3. Begun(o)'
  <2>1. o # j => job'[o] = job[o]
    BY <1>1, <1>2, DirAssumption DEF Shaped, OwnMove, OthersKept
  <2>2. ChoosePath(j) => Begun(j)'
    BY ChoosePathVersion DEF Begun
  <2> QED
    BY <1>2, <2>1, <2>2, VersionKept DEF Begun
<1>4. job'[k] = job[k]
  BY <1>1 DEF Shaped, OwnMove, OthersKept
<1>5. job'[o].version = job[o].version
  BY <1>1, DirAssumption DEF OverwriteFirst
<1>6. Path(o)' = Path(k)'
  BY <1>2, <1>4, <1>5 DEF Path
<1> QED
  BY <1>2, <1>3, <1>6 DEF Overwritten

LEMMA OtherLeftAlone ==
  ASSUME IInv, OldKept, NEW j \in Jobs, Step(j), NEW k \in Jobs \ {j}
  PROVE  LeftAlone(k)'
<1> USE DEF IInv
<1>1. Shaped(j) /\ LeftAlone(k) /\ OverwriteFirst
  BY StepShaped DEF OldKept
<1>2. job'[k] = job[k] /\ sent'[k] = sent[k] /\ Path(k)' = Path(k)
  BY <1>1 DEF Shaped, OwnMove, OthersKept, Path
<1>3. SUFFICES ASSUME Completed(k)', ~Overwritten(k)'
               PROVE  /\ Path(k) \in Paths'
                      /\ \A i \in Jobs \ {k} : job'[i].pc \in Writing => Path(i)' # Path(k)
  BY <1>2 DEF LeftAlone
<1>4. Completed(k) /\ ~Overwritten(k)
  BY <1>1, <1>2, <1>3, OverwrittenKept DEF Completed, Phase
<1>5. /\ Path(k) \in Paths
      /\ \A i \in Jobs \ {k} : job[i].pc \in Writing => Path(i) # Path(k)
  BY <1>1, <1>4 DEF LeftAlone
<1>6. Path(k) \in Paths'
  <2>1. CASE archive' = archive
    BY <1>5, <2>1 DEF Paths
  <2>2. CASE archive' # archive
    <3>1. job[j].pc \in Writing
      BY <2>2, VersionKept, ChoosePathVersion
    <3>2. Path(k) # Path(j)
      BY <1>5, <3>1
    <3> QED
      BY <1>1, <1>5, <3>2 DEF Shaped, Writes, At, Drop, Paths
  <2> QED
    BY <2>1, <2>2
<1>7. job'[j].pc \in Writing => Path(j)' # Path(k)
  <2>1. CASE ~ChoosePath(j)
    <3>1. job'[j].version = job[j].version /\ (job'[j].pc \in Writing => job[j].pc \in Writing)
      BY <2>1, VersionKept
    <3> QED
      BY <1>5, <3>1 DEF Path
  <2>2. CASE ChoosePath(j) /\ j \notin Overwrites
    <3>1. Path(j)' = <<Dir[j], NewPath(j)>>
      BY <2>2, ChoosePathVersion DEF Path
    <3>2. Path(j)' \notin Paths
      BY <2>2, <3>1, NewPathFresh
    <3> QED
      BY <1>5, <3>2
  <2>3. CASE ChoosePath(j) /\ j \in Overwrites
    <3>1. Begun(j)'
      BY <2>3, ChoosePathVersion DEF Begun
    <3> QED
      BY <1>2, <1>3, <2>3, <3>1 DEF Overwritten
  <2> QED
    BY <2>1, <2>2, <2>3
<1>8. ASSUME NEW i \in Jobs \ {k}, i # j, job'[i].pc \in Writing
      PROVE  Path(i)' # Path(k)
  <2>1. job'[i] = job[i] /\ Path(i)' = Path(i)
    BY <1>1, <1>8 DEF Shaped, OwnMove, OthersKept, Path
  <2> QED
    BY <1>5, <1>8, <2>1
<1> QED
  BY <1>6, <1>7, <1>8

LEMMA OwnLeftAlone ==
  ASSUME IInv, NEW j \in Jobs, Step(j)
  PROVE  LeftAlone(j)'
<1> USE DEF IInv
<1>1. SUFFICES ASSUME Completed(j)'
               PROVE  /\ Path(j)' \in Paths'
                      /\ \A i \in Jobs \ {j} : job'[i].pc \in Writing => Path(i)' # Path(j)'
  BY DEF LeftAlone
<1>2. DetermineStatus(j) /\ Destination(j) = "Complete"
  <2>1. ~(sent' = sent)
    <3>1. SUFFICES ASSUME sent' = sent PROVE FALSE
      OBVIOUS
    <3>2. job[j].pc = "gone"
      BY <1>1, <3>1, CompletedGone DEF Completed, Phase
    <3> QED
      BY <3>2 DEF Step, Start, ConnectFails, Abort, Advance, ReportFails, Kill, SendStarted,
        ChoosePath, MakeDirectories, RunScript, RemoveOld, Copy, ExtraDirectories, DeleteTemp,
        DetermineStatus, Active
  <2>2. ~(SendReport(j, "Started") \/ SendReport(j, "Error"))
    <3>1. ASSUME NEW d \in {"Started", "Error"}, SendReport(j, d) PROVE FALSE
      <4>1. sent'[j] = Append(sent[j], d) /\ sent[j] \in Seq(Report) /\ d \in Report
        BY <3>1, SendReportType DEF TypeOK, Report
      <4>2. Phase(j)' = d
        BY <4>1, AppendLast DEF Phase
      <4> QED
        BY <1>1, <4>2 DEF Completed
    <3> QED
      BY <3>1
  <2>3. DetermineStatus(j)
    BY <2>1, <2>2 DEF Step, Start, ConnectFails, Abort, Advance, ReportFails, Kill, SendStarted,
      ChoosePath, MakeDirectories, RunScript, RemoveOld, Copy, ExtraDirectories, DeleteTemp
  <2>4. SendReport(j, Destination(j)) /\ Destination(j) \in Report
    BY <2>3 DEF DetermineStatus, Destination, Report
  <2>5. Phase(j)' = Destination(j)
    <3>1. sent'[j] = Append(sent[j], Destination(j)) /\ sent[j] \in Seq(Report)
      BY <2>4, SendReportType DEF TypeOK
    <3> QED
      BY <2>4, <3>1, AppendLast DEF Phase
  <2> QED
    BY <1>1, <2>3, <2>5 DEF Completed
<1>3. /\ job[j].pc = "report" /\ job[j].text = "none" /\ archive' = archive
      /\ job'[j].pc = "gone" /\ job'[j].version = job[j].version
  BY <1>2, ExitType DEF DetermineStatus, Destination
<1>4. Path(j)' = Path(j)
  BY <1>3 DEF Path
<1>5. Path(j) \in Paths'
  BY <1>3 DEF JobsKept, Copied, Files, Paths
<1>6. ASSUME NEW i \in Jobs \ {j}, job'[i].pc \in Writing
      PROVE  Path(i)' # Path(j)'
  <2>1. job'[i] = job[i]
    BY StepShaped DEF Shaped, OwnMove, OthersKept
  <2>2. i \in Active /\ j \in Active
    BY <1>3, <1>6, <2>1 DEF Active, Writing
  <2>3. Dir[i] # Dir[j]
    BY <2>2, RbAssumption DEF Alone, Active
  <2> QED
    BY <1>4, <2>1, <2>3 DEF Path
<1> QED
  BY <1>4, <1>5, <1>6

LEMMA OldStaysKept ==
  ASSUME IInv, OldKept, [Next]_vars
  PROVE  OldKept'
<1>1. CASE UNCHANGED vars
  BY <1>1 DEF vars, OldKept, OverwriteFirst, LeftAlone, Completed, Phase, Overwritten, Begun, Path,
              Paths
<1>2. CASE Next
  <2>1. PICK j \in Jobs : Step(j)
    BY <1>2 DEF Next, Step
  <2> QED
    BY <2>1, OverwriteFirstKept, OtherLeftAlone, OwnLeftAlone DEF OldKept
<1> QED
  BY <1>1, <1>2

(***************************************************************************)
(* Whatever fails, and whoever is killed in the middle of its work: the    *)
(* results of a version that has been reported complete are left as they   *)
(* are by every later process, until one that is to overwrite them has     *)
(* come to them (copy_temp_directory, _new_reduction_data_path).           *)
(***************************************************************************)
THEOREM LeftAsReported == Spec => EarlierResultsKept
<1> DEFINE Kept ==
      \A k \in Jobs : Completed(k) /\ k \in Files(archive, Path(k)) /\ ~Overwritten(k) =>
        k \in Files(archive', Path(k))
<1>1. Init => IInv /\ OldKept
  <2> SUFFICES ASSUME Init PROVE OldKept
    BY InitInv
  <2>1. \A k \in Jobs : job[k].version = 0 /\ sent[k] = <<>>
    BY DEF Init
  <2> QED
    BY <2>1, DirAssumption DEF OldKept, OverwriteFirst, LeftAlone, Completed, Phase
<1>2. IInv /\ OldKept /\ [Next]_vars => (IInv /\ OldKept)'
  BY StepInv, OldStaysKept
<1>3. IInv /\ OldKept /\ [Next]_vars => [Kept]_vars
  <2> SUFFICES ASSUME IInv, OldKept, Next PROVE Kept
    OBVIOUS
  <2>1. PICK j \in Jobs : Step(j)
    BY DEF Next, Step
  <2> SUFFICES ASSUME NEW k \in Jobs, Completed(k), ~Overwritten(k)
               PROVE  Files(archive', Path(k)) = Files(archive, Path(k))
    OBVIOUS
  <2>2. CASE archive' = archive
    BY <2>2
  <2>3. CASE archive' # archive
    <3>1. TypeOK /\ PathsBounded
      BY DEF IInv
    <3>2. job[j].pc \in Writing
      BY <2>1, <2>3, <3>1, VersionKept, ChoosePathVersion
    <3>3. job[k].pc = "gone"
      BY CompletedGone
    <3>4. Path(j) # Path(k)
      BY <3>2, <3>3 DEF OldKept, LeftAlone, Writing
    <3>5. ArchiveKept(j) /\ Path(k) \in Dirs \X Nat
      BY <2>1, <3>1, StepShaped, WritesType, PathType DEF Shaped
    <3> QED
      BY <3>4, <3>5 DEF ArchiveKept
  <2> QED
    BY <2>2, <2>3
<1> QED
  BY <1>1, <1>2, <1>3, PTL DEF Spec, EarlierResultsKept
=============================================================================
