-------------------------- MODULE OneWriter_proofs --------------------------
(***************************************************************************)
(* Theorems about QueueProcessor when the listener is the only writer of   *)
(* the table (Sessions = {}): a version names one record, the table's      *)
(* statuses move as RunLifecycle says, nothing is reduced twice, nothing   *)
(* that was skipped is reduced, a completed run stays completed, and no    *)
(* queued run is forgotten.  The first no longer holds once a web session  *)
(* writes too (the run QueueProcessorDuplicate), and the others not either *)
(* unless more is assumed: a session saves records it read before.         *)
(***************************************************************************)
EXTENDS QueueProcessor_proofs

(***************************************************************************)
(* The version the listener is about to file is above all those filed, the *)
(* record it holds is the one the table has, and the new row of a retry is *)
(* queued until its variables have been created.                           *)
(***************************************************************************)
VersionAbove ==
  lis.pc \in {"script", "save", "retrySave"} =>
    \A i \in Ids : db[i].run = lis.msg.run => db[i].version < lis.msg.version

RecordHeld ==
  lis.pc \in {"report", "retry", "retrySave", "retryLink"} =>
    /\ lis.id \in Ids
    /\ lis.copy.run = db[lis.id].run /\ lis.copy.version = db[lis.id].version

StatusHeld ==
  /\ lis.pc = "report" =>
       /\ lis.msg.dest \in Subscribed \ {"DataReady"}
       /\ db[lis.id].status \in Accepted(lis.msg.dest)
       /\ lis.copy.status = Reported(lis.msg.dest)
  /\ lis.pc \in {"retry", "retrySave", "retryLink"} => db[lis.id].status = lis.copy.status

RetryQueued ==
  /\ ListenerHolds => db[lis.new].status = "q"
  /\ lis.pc = "retryLink" => lis.new # lis.id

OneWriterInv == UniqueVersions /\ VersionAbove /\ RecordHeld /\ StatusHeld /\ RetryQueued

Status == [i \in Ids |-> db[i].status]

-----------------------------------------------------------------------------
(***************************************************************************)
(* A row that keeps its run and version, and one with a version above all. *)
(***************************************************************************)
LEMMA SaveKeepsUnique ==
  ASSUME UniqueVersions, NEW i \in Ids, NEW row, db' = Saved(i, row),
         row.run = db[i].run, row.version = db[i].version
  PROVE  UniqueVersions'
<1>1. Ids' = Ids /\ db'[i] = row /\ \A j \in Ids \ {i} : db'[j] = db[j]
  BY SavedRows
<1>2. \A j \in Ids : db'[j].run = db[j].run /\ db'[j].version = db[j].version
  BY <1>1
<1> QED
  BY <1>1, <1>2 DEF UniqueVersions

LEMMA FileKeepsUnique ==
  ASSUME IInv, UniqueVersions, NEW row \in Row, db' = Saved(nextId, row),
         \A i \in Ids : db[i].run = row.run => db[i].version < row.version
  PROVE  UniqueVersions'
<1>1. Ids' = Ids \cup {nextId} /\ db'[nextId] = row /\ \A j \in Ids \ {nextId} : db'[j] = db[j]
  BY SavedRows
<1>2. \A i \in Ids : i # nextId /\ db[i].version \in Nat
  BY RowIdsAssumption DEF IInv, TypeOK, TableOK, NewRowsKept, RowsLinked, Row
<1>3. \A i \in Ids : db[i].run = row.run => db[i].version # row.version
  BY <1>2 DEF Row
<1> QED
  BY <1>1, <1>2, <1>3 DEF UniqueVersions

LEMMA RemoveKeepsUnique ==
  ASSUME TypeOK, UniqueVersions, NEW i, db' = Removed(i)
  PROVE  UniqueVersions'
BY RemovedRows DEF UniqueVersions

LEMMA TableKept ==
  ASSUME UniqueVersions, UNCHANGED db
  PROVE  UniqueVersions' /\ Ids' = Ids
BY DEF UniqueVersions, Ids

(***************************************************************************)
(* Every step of the listener keeps OneWriterInv.                          *)
(***************************************************************************)
LEMMA ListenerAlone ==
  ASSUME IInv, OneWriterInv, Listener
  PROVE  OneWriterInv'
<1> USE DEF OneWriterInv
<1>0. TypeOK /\ TableOK
  BY DEF IInv, TypeOK
<1>1. nextId \in Nat /\ \A i \in Ids : i # nextId /\ i \in Nat
  <2>1. RowsLinked
    BY DEF IInv, NewRowsKept
  <2>2. nextId \in Nat /\ Ids \subseteq Nat
    BY <1>0, RowIdsAssumption DEF TableOK
  <2> QED
    BY <2>1, <2>2 DEF RowsLinked
<1>2. ASSUME UniqueVersions', lis'.pc \in {"wait", "stopped", "version", "locate", "variables", "forward"}
      PROVE  OneWriterInv'
  BY <1>2 DEF VersionAbove, RecordHeld, StatusHeld, RetryQueued, ListenerHolds
<1>3. ASSUME NEW m, DataReady(m) PROVE OneWriterInv'
  BY <1>2, <1>3, TableKept DEF DataReady
<1>4. ASSUME NEW m, FindRun(m) PROVE OneWriterInv'
  <2> DEFINE i == LeastId(Matching(m))
  <2>1. i \in Ids /\ db[i] \in Row
    BY <1>0, <1>4, MatchingLeast DEF FindRun, TableOK
  <2>2. /\ lis' = [pc |-> "report", msg |-> m, id |-> i,
                   copy |-> [db[i] EXCEPT !.status = Reported(m.dest)]]
        /\ m.dest \in Subscribed \ {"DataReady"} /\ db[i].status \in Accepted(m.dest)
        /\ UNCHANGED db
    BY <1>4 DEF FindRun, Receive
  <2> HIDE DEF i
  <2>3. /\ lis'.pc = "report" /\ lis'.msg = m /\ lis'.id = i
        /\ lis'.copy.run = db[i].run /\ lis'.copy.version = db[i].version
        /\ lis'.copy.status = Reported(m.dest)
    BY <2>1, <2>2 DEF Row
  <2> QED
    BY <2>1, <2>2, <2>3, TableKept DEF VersionAbove, RecordHeld, StatusHeld, RetryQueued, ListenerHolds
<1>5. ASSUME NEW m, RefuseReport(m) PROVE OneWriterInv'
  BY <1>2, <1>5, TableKept DEF RefuseReport, Receive, Waiting
<1>6. CASE ReadVersion
  <2>1. \A i \in VersionsOf(lis.msg.run) : db[i].version < NextVersion(lis.msg.run)
    BY <1>0, <1>1, NextVersionAbove DEF IInv, VersionsBounded
  <2>2. /\ lis'.pc = "script" /\ lis'.msg.run = lis.msg.run
        /\ lis'.msg.version = NextVersion(lis.msg.run)
    BY <1>0, <1>6, ListenerByPc DEF ReadVersion, Filing, Message
  <2>3. UniqueVersions' /\ Ids' = Ids /\ UNCHANGED db
    BY <1>6, TableKept DEF ReadVersion
  <2> QED
    BY <2>1, <2>2, <2>3 DEF VersionAbove, RecordHeld, StatusHeld, RetryQueued, ListenerHolds, VersionsOf
<1>7. CASE ScriptFound
  <2>1. lis.pc = "script" /\ lis'.pc = "save" /\ lis'.msg = lis.msg
    BY <1>0, <1>7, ListenerByPc DEF ScriptFound, Filing
  <2>2. UniqueVersions' /\ Ids' = Ids /\ UNCHANGED db
    BY <1>7, TableKept DEF ScriptFound
  <2> QED
    BY <2>1, <2>2 DEF VersionAbove, RecordHeld, StatusHeld, RetryQueued, ListenerHolds
<1>8. CASE ScriptMissing
  <2>1. lis \in Filing /\ lis.msg.version \in Nat
    BY <1>0, <1>8, ListenerByPc DEF ScriptMissing, Filing, Message
  <2>2. Matching(lis.msg) = {}
    BY <1>8, <2>1 DEF ScriptMissing, Matching, VersionAbove
  <2>3. UNCHANGED db /\ lis' = Waiting
    BY <1>8, <2>2 DEF ScriptMissing, Return
  <2> QED
    BY <1>2, <2>3, TableKept DEF Waiting
<1>9. CASE SaveRun
  <2> DEFINE row == NewRow(lis.msg.run, lis.msg.version, IF lis.paused THEN "s" ELSE "q")
  <2>1. lis \in Filing /\ lis.msg \in Message /\ lis.pc = "save"
    BY <1>0, <1>9, ListenerByPc DEF SaveRun, Filing
  <2>2. row \in Row
    BY <2>1, NewRowType, MessageChanged DEF Filing, StatusValue
  <2>3. row.run = lis.msg.run /\ row.version = lis.msg.version
    BY DEF NewRow
  <2>4. db' = Saved(nextId, row) /\ lis'.pc = "locate"
    BY <1>9 DEF SaveRun
  <2> HIDE DEF row
  <2>5. UniqueVersions'
    BY <2>1, <2>2, <2>3, <2>4, FileKeepsUnique DEF VersionAbove
  <2> QED
    BY <1>2, <2>4, <2>5
<1>10. CASE SaveDataLocation
  <2>1. lis'.pc = "variables"
    BY <1>0, <1>10, ListenerByPc DEF SaveDataLocation, Filed
  <2> QED
    BY <1>2, <1>10, <2>1, TableKept DEF SaveDataLocation
<1>11. CASE CreateVariables
  <2>1. lis'.pc \in {"forward", "stopped"}
    BY <1>0, <1>11, ListenerByPc DEF CreateVariables, Filed, Die, Stopped
  <2> QED
    BY <1>2, <1>11, <2>1, TableKept DEF CreateVariables
<1>12. CASE Forward
  BY <1>2, <1>12, TableKept DEF Forward, Return, Waiting
<1>13. CASE SaveReport
  <2>1. lis \in Reporting /\ lis.pc = "report" /\ lis.id \in Ids
    BY <1>0, <1>13, ListenerByPc DEF SaveReport, RecordHeld
  <2>2. CASE Dangling(lis.copy)
    BY <1>2, <1>13, <2>2, TableKept DEF SaveReport, Die, Stopped
  <2>3. CASE ~Dangling(lis.copy)
    <3>1. db' = Saved(lis.id, lis.copy) /\ lis' \in {Waiting, [lis EXCEPT !.pc = "retry"]}
      BY <1>13, <2>3 DEF SaveReport, Return
    <3>2. UniqueVersions'
      BY <2>1, <3>1, SaveKeepsUnique DEF RecordHeld
    <3>3. CASE lis' = Waiting
      BY <1>2, <3>2, <3>3 DEF Waiting
    <3>4. CASE lis' = [lis EXCEPT !.pc = "retry"]
      <4>1. lis'.pc = "retry" /\ lis'.id = lis.id /\ lis'.copy = lis.copy
        BY <2>1, <3>4 DEF Reporting
      <4>2. Ids' = Ids /\ db'[lis.id] = lis.copy
        BY <2>1, <3>1, SavedRows
      <4> QED
        BY <2>1, <3>2, <4>1, <4>2 DEF VersionAbove, RecordHeld, StatusHeld, RetryQueued, ListenerHolds
    <3> QED
      BY <3>1, <3>3, <3>4
  <2> QED
    BY <2>2, <2>3
<1>14. CASE RetryRun
  <2> DEFINE held == [lis EXCEPT !.pc = "retrySave", !.msg.version = NextVersion(lis.msg.run)]
  <2>1. lis \in Reporting /\ lis.pc = "retry"
    BY <1>0, <1>14, ListenerByPc DEF RetryRun
  <2>2. UniqueVersions' /\ Ids' = Ids /\ UNCHANGED db /\ lis' \in {Waiting, held}
    BY <1>14, TableKept DEF RetryRun, Return
  <2>3. /\ held.pc = "retrySave" /\ held.id = lis.id /\ held.copy = lis.copy
        /\ held.msg.run = lis.msg.run /\ held.msg.version = NextVersion(lis.msg.run)
    BY <2>1 DEF Reporting, Message
  <2> HIDE DEF held
  <2>4. \A i \in VersionsOf(lis.msg.run) : db[i].version < NextVersion(lis.msg.run)
    BY <1>0, <1>1, NextVersionAbove DEF IInv, VersionsBounded
  <2>5. CASE lis' = Waiting
    BY <1>2, <2>2, <2>5 DEF Waiting
  <2>6. CASE lis' = held
    BY <2>1, <2>2, <2>3, <2>4, <2>6
       DEF VersionAbove, RecordHeld, StatusHeld, RetryQueued, ListenerHolds, VersionsOf
  <2> QED
    BY <2>2, <2>5, <2>6
<1>15. CASE SaveRetry
  <2> DEFINE row == NewRow(lis.msg.run, lis.msg.version, "q")
  <2>1. lis \in Reporting /\ lis.msg \in Message /\ lis.pc = "retrySave" /\ lis.id \in Ids
    BY <1>0, <1>15, ListenerByPc DEF SaveRetry, Reporting, RecordHeld
  <2>2. row \in Row
    BY <2>1, NewRowType, MessageChanged DEF StatusValue
  <2>3. row.run = lis.msg.run /\ row.version = lis.msg.version /\ row.status = "q"
    BY DEF NewRow
  <2>4. db' = Saved(nextId, row)
    BY <1>15 DEF SaveRetry
  <2> HIDE DEF row
  <2>5. UniqueVersions'
    BY <2>1, <2>2, <2>3, <2>4, FileKeepsUnique DEF VersionAbove
  <2>6. /\ lis'.pc = "retryLink" /\ lis'.id = lis.id /\ lis'.new = nextId
        /\ lis'.copy.run = lis.copy.run /\ lis'.copy.version = lis.copy.version
        /\ lis'.copy.status = lis.copy.status
    BY <1>15, <2>1 DEF SaveRetry, Reporting, Row
  <2>7. Ids' = Ids \cup {nextId} /\ db'[nextId] = row /\ db'[lis.id] = db[lis.id] /\ lis.id # nextId
    BY <1>1, <2>1, <2>4, SavedRows
  <2> QED
    BY <2>1, <2>3, <2>5, <2>6, <2>7 DEF VersionAbove, RecordHeld, StatusHeld, RetryQueued
<1>16. CASE LinkRetry
  <2>1. lis \in Retrying /\ lis.pc = "retryLink" /\ lis.id \in Ids /\ lis.new \in Ids
    BY <1>0, <1>16, ListenerByPc DEF LinkRetry, RecordHeld, IInv, NewRowsKept, ListenerHolds
  <2>2. db' = Saved(lis.id, lis.copy)
    BY <1>16 DEF LinkRetry
  <2>3. UniqueVersions'
    BY <2>1, <2>2, SaveKeepsUnique DEF RecordHeld
  <2>4. lis'.pc = "retryVariables" /\ lis'.new = lis.new
    BY <1>16, <2>1 DEF LinkRetry, Retrying
  <2>5. db'[lis.new] = db[lis.new] /\ db[lis.new].status = "q"
    BY <2>1, <2>2, SavedRows DEF RetryQueued, ListenerHolds
  <2> QED
    BY <2>3, <2>4, <2>5 DEF VersionAbove, RecordHeld, StatusHeld, RetryQueued
<1>17. CASE RetryVariables
  <2>1. lis \in Retrying /\ ListenerHolds
    BY <1>0, <1>17, ListenerByPc DEF RetryVariables, ListenerHolds
  <2>2. CASE UNCHANGED db /\ lis' = [lis EXCEPT !.pc = "retrySend"]
    <3>1. lis'.pc = "retrySend" /\ lis'.new = lis.new
      BY <2>1, <2>2 DEF Retrying
    <3> QED
      BY <2>1, <2>2, <3>1, TableKept DEF VersionAbove, RecordHeld, StatusHeld, RetryQueued
  <2>3. CASE Die /\ db' = Removed(lis.new)
    BY <1>0, <1>2, <2>3, RemoveKeepsUnique DEF Die, Stopped
  <2> QED
    BY <1>17, <2>2, <2>3 DEF RetryVariables
<1>18. CASE RetrySend
  BY <1>2, <1>18, TableKept DEF RetrySend, Die, Stopped
<1> QED
  BY <1>3, <1>4, <1>5, <1>6, <1>7, <1>8, <1>9, <1>10, <1>11, <1>12, <1>13, <1>14, <1>15, <1>16,
     <1>17, <1>18 DEF Listener
-----------------------------------------------------------------------------
(***************************************************************************)
(* The table's statuses, as RunLifecycle sees them.                        *)
(***************************************************************************)
LEMMA StatusKept ==
  ASSUME UNCHANGED db
  PROVE  Status' = Status
BY DEF Status, Ids

LEMMA StatusSaved ==
  ASSUME NEW i, NEW row, db' = Saved(i, row)
  PROVE  Status' = [j \in Ids \cup {i} |-> IF j = i THEN row.status ELSE Status[j]]
<1>1. Ids' = Ids \cup {i} /\ db'[i] = row /\ \A j \in Ids \ {i} : db'[j] = db[j]
  BY SavedRows
<1>2. \A j \in Ids \ {i} : Status[j] = db[j].status
  BY DEF Status
<1>3. Status' = [j \in Ids' |-> db'[j].status]
  BY DEF Status
<1> QED
  BY <1>1, <1>2, <1>3

LEMMA StatusRemoved ==
  ASSUME TypeOK, NEW i, db' = Removed(i)
  PROVE  Status' = [j \in Ids \ {i} |-> Status[j]]
<1>1. Ids' = Ids \ {i} /\ \A j \in Ids' : db'[j].status = db[j].status
  BY RemovedRows
<1>2. Status' = [j \in Ids' |-> db'[j].status] /\ Status = [j \in Ids |-> db[j].status]
  BY DEF Status
<1> QED
  BY <1>1, <1>2

\* Filing a row, changing the status of one, and taking one back are steps of RunLifecycle.
LEMMA FileIsCreate ==
  ASSUME NEW row, row.status \in {"q", "s"}, NEW i \in RowIds, i \notin Ids, db' = Saved(i, row)
  PROVE  Lifecycle!Next
<1>1. Status' = [j \in Ids \cup {i} |-> IF j = i THEN row.status ELSE Status[j]]
  BY StatusSaved
<1>2. DOMAIN Status = Ids
  BY DEF Status
<1>3. Lifecycle!Create(i)
  BY <1>1, <1>2 DEF Lifecycle!Create, Lifecycle!With, Lifecycle!Rows, Status
<1> QED
  BY <1>3 DEF Lifecycle!Next

LEMMA NextIdIsNew ==
  ASSUME IInv
  PROVE  nextId \notin Ids
BY RowIdsAssumption DEF IInv, TypeOK, TableOK, NewRowsKept, RowsLinked

LEMMA ReportIsStep ==
  ASSUME IInv, NEW i \in Ids, NEW row, db' = Saved(i, row),
         NEW d \in Subscribed \ {"DataReady"},
         db[i].status \in Accepted(d), row.status = Reported(d)
  PROVE  Lifecycle!Next
<1>1. Status' = [j \in Ids \cup {i} |-> IF j = i THEN row.status ELSE Status[j]]
  BY StatusSaved
<1>2. DOMAIN Status = Ids /\ Status[i] = db[i].status /\ i \in RowIds
  BY DEF Status, IInv, TypeOK, TableOK
<1>3. CASE d = "Started"
  <2>1. Lifecycle!Start(i)
    BY <1>1, <1>2, <1>3 DEF Lifecycle!Start, Lifecycle!With, Lifecycle!Rows, Status, Accepted, Reported
  <2> QED
    BY <1>2, <2>1 DEF Lifecycle!Next
<1>4. CASE d = "Complete"
  <2>1. Lifecycle!Complete(i)
    BY <1>1, <1>2, <1>4 DEF Lifecycle!Complete, Lifecycle!With, Lifecycle!Rows, Status, Accepted, Reported
  <2> QED
    BY <1>2, <2>1 DEF Lifecycle!Next
<1>5. CASE d \in {"Error", "Skipped"}
  <2>1. row.status \in {"e", "s"}
    BY <1>5 DEF Reported
  <2>2. Lifecycle!Close(i)
    BY <1>1, <1>2, <2>1 DEF Lifecycle!Close, Lifecycle!With, Lifecycle!Rows, Status
  <2> QED
    BY <1>2, <2>2 DEF Lifecycle!Next
<1> QED
  BY <1>3, <1>4, <1>5 DEF Subscribed

LEMMA RemovalIsWithdraw ==
  ASSUME IInv, NEW i \in Ids, db[i].status = "q", db' = Removed(i)
  PROVE  Lifecycle!Next
<1>1. Status' = [j \in Ids \ {i} |-> Status[j]]
  BY StatusRemoved DEF IInv
<1>2. DOMAIN Status = Ids /\ Status[i] = "q" /\ i \in RowIds
  BY DEF Status, IInv, TypeOK, TableOK
<1>3. Lifecycle!Withdraw(i)
  BY <1>1, <1>2 DEF Lifecycle!Withdraw, Lifecycle!Rows, Status
<1> QED
  BY <1>2, <1>3 DEF Lifecycle!Next

LEMMA ListenerImplements ==
  ASSUME IInv, OneWriterInv, Listener
  PROVE  Lifecycle!Next \/ Status' = Status
<1> USE DEF OneWriterInv
<1>0. TypeOK /\ TableOK
  BY DEF IInv, TypeOK
<1>1. CASE SaveRun
  <2> DEFINE row == NewRow(lis.msg.run, lis.msg.version, IF lis.paused THEN "s" ELSE "q")
  <2>1. row.status \in {"q", "s"} /\ db' = Saved(nextId, row) /\ nextId \in RowIds
    BY <1>1 DEF SaveRun, NewRow
  <2> HIDE DEF row
  <2>2. PICK i \in RowIds : i = nextId
    BY <2>1
  <2>3. i \notin Ids /\ db' = Saved(i, row)
    BY <2>1, <2>2, NextIdIsNew
  <2> QED
    BY <2>1, <2>3, FileIsCreate
<1>2. CASE SaveReport
  <2>1. lis.id \in Ids /\ lis.msg.dest \in Subscribed \ {"DataReady"}
        /\ db[lis.id].status \in Accepted(lis.msg.dest) /\ lis.copy.status = Reported(lis.msg.dest)
    BY <1>2 DEF SaveReport, RecordHeld, StatusHeld
  <2>2. UNCHANGED db \/ db' = Saved(lis.id, lis.copy)
    BY <1>2 DEF SaveReport
  <2> QED
    BY <2>1, <2>2, ReportIsStep, StatusKept
<1>3. CASE SaveRetry
  <2> DEFINE row == NewRow(lis.msg.run, lis.msg.version, "q")
  <2>1. row.status = "q" /\ db' = Saved(nextId, row) /\ nextId \in RowIds
    BY <1>3 DEF SaveRetry, NewRow
  <2> HIDE DEF row
  <2>2. PICK i \in RowIds : i = nextId
    BY <2>1
  <2>3. i \notin Ids /\ db' = Saved(i, row)
    BY <2>1, <2>2, NextIdIsNew
  <2> QED
    BY <2>1, <2>3, FileIsCreate
<1>4. CASE LinkRetry
  <2>1. lis.id \in Ids /\ lis.copy.status = db[lis.id].status /\ db' = Saved(lis.id, lis.copy)
    BY <1>4 DEF LinkRetry, RecordHeld, StatusHeld
  <2>2. Status' = [j \in Ids \cup {lis.id} |-> IF j = lis.id THEN lis.copy.status ELSE Status[j]]
    BY <2>1, StatusSaved, ZenonT(30)
  <2> QED
    BY <2>1, <2>2 DEF Status
<1>5. CASE RetryVariables
  <2>1. lis.new \in Ids /\ db[lis.new].status = "q"
    BY <1>5 DEF RetryVariables, IInv, NewRowsKept, ListenerHolds, RetryQueued
  <2>2. UNCHANGED db \/ db' = Removed(lis.new)
    BY <1>5 DEF RetryVariables
  <2> QED
    BY <2>1, <2>2, RemovalIsWithdraw, StatusKept
<1>6. CASE ScriptMissing
  <2>1. lis.msg.version \in Nat
    BY <1>0, <1>6, ListenerByPc DEF ScriptMissing, Filing, Message
  <2>2. Matching(lis.msg) = {}
    BY <1>6, <2>1 DEF ScriptMissing, Matching, VersionAbove
  <2> QED
    BY <1>6, <2>2, StatusKept DEF ScriptMissing
<1>7. CASE \/ \E m : DataReady(m) \/ FindRun(m) \/ RefuseReport(m)
           \/ ReadVersion \/ ScriptFound \/ SaveDataLocation \/ CreateVariables \/ Forward
           \/ RetryRun \/ RetrySend
  <2>1. UNCHANGED db
    BY <1>7 DEF DataReady, FindRun, RefuseReport, ReadVersion, ScriptFound, SaveDataLocation,
                CreateVariables, Forward, RetryRun, RetrySend
  <2> QED
    BY <2>1, StatusKept
<1> QED
  BY <1>1, <1>2, <1>3, <1>4, <1>5, <1>6, <1>7 DEF Listener
-----------------------------------------------------------------------------
LEMMA OneWriterStep ==
  ASSUME Sessions = {}, IInv, OneWriterInv, [Next]_vars
  PROVE  OneWriterInv' /\ (Lifecycle!Next \/ Status' = Status)
<1>1. CASE Listener
  BY <1>1, ListenerAlone, ListenerImplements
<1>2. ASSUME UNCHANGED db, lis' \in {lis, Waiting, Stopped}
      PROVE  OneWriterInv' /\ (Lifecycle!Next \/ Status' = Status)
  <2>1. UniqueVersions' /\ Ids' = Ids /\ Status' = Status
    BY <1>2, TableKept, StatusKept DEF OneWriterInv
  <2>2. lis' = lis \/ lis'.pc \in {"wait", "stopped"}
    BY <1>2 DEF Waiting, Stopped
  <2> QED
    BY <1>2, <2>1, <2>2 DEF OneWriterInv, VersionAbove, RecordHeld, StatusHeld, RetryQueued, ListenerHolds
<1>3. ASSUME NEW r \in Runs, Submit(r) PROVE UNCHANGED <<db, lis>>
  BY <1>3 DEF Submit
<1>4. ASSUME NEW d \in Subscribed, Dispatch(d) PROVE UNCHANGED <<db, lis>>
  BY <1>4 DEF Dispatch
<1>5. CASE TogglePause \/ Kill \/ Restart \/ UNCHANGED vars
  BY <1>2, <1>5 DEF TogglePause, Kill, Restart, Die, vars
<1>6. CASE Node
  <2>1. UNCHANGED <<db, lis>>
    BY <1>6 DEF Node, NodeCancel, NodeDrop, NodeStart, NodeReject, NodeTake, NodeReport, NodeDie
  <2> QED
    BY <1>2, <2>1
<1> QED
  BY <1>1, <1>2, <1>3, <1>4, <1>5, <1>6 DEF Next

LEMMA OneWriterInit ==
  ASSUME Init
  PROVE  OneWriterInv /\ Lifecycle!Init
<1>1. db = [i \in {} |-> 0] /\ lis = Waiting
  BY DEF Init
<1>2. Ids = {}
  BY <1>1 DEF Ids
<1>3. OneWriterInv
  BY <1>1, <1>2 DEF Waiting, OneWriterInv, UniqueVersions, VersionAbove, RecordHeld, StatusHeld,
                    RetryQueued, ListenerHolds
<1>4. Lifecycle!Init
  BY <1>2 DEF Lifecycle!Init
<1> QED
  BY <1>3, <1>4

(***************************************************************************)
(* With one writer a version names one record, whatever is killed, raises, *)
(* or arrives out of order: find_run's .first() is the only match.         *)
(***************************************************************************)
THEOREM UniqueVersionsAlone ==
  ASSUME Sessions = {}
  PROVE  Spec => []UniqueVersions
<1>1. Init => OneWriterInv
  BY OneWriterInit
<1>2. IInv /\ OneWriterInv /\ [Next]_vars => OneWriterInv'
  BY OneWriterStep
<1>3. OneWriterInv => UniqueVersions
  BY DEF OneWriterInv
<1> QED
  BY <1>1, <1>2, <1>3, Invariance, PTL DEF Spec

(***************************************************************************)
(* With one writer the queue processor implements RunLifecycle: no report, *)
(* retry or restart moves a record along an edge it does not have.         *)
(***************************************************************************)
THEOREM LifecycleAlone ==
  ASSUME Sessions = {}
  PROVE  Spec => LifecycleSpec
<1>1. Init => OneWriterInv /\ Lifecycle!Init
  BY OneWriterInit
<1>2. IInv /\ OneWriterInv /\ [Next]_vars => OneWriterInv' /\ [Lifecycle!Next]_Status
  BY OneWriterStep
<1> QED
  BY <1>1, <1>2, Invariance, PTL DEF Spec, LifecycleSpec, Lifecycle!Spec, Status
-----------------------------------------------------------------------------
(***************************************************************************)
(* A reduction and its last report are one token that is handed on: the    *)
(* message that asks for it, the job on the node, the report that ends it. *)
(* No job has two tokens, wherever they are.                               *)
(***************************************************************************)
IsToken(m) == ~m.cancel /\ m.dest \in {"Pending", "Complete", "Error", "Skipped"}
TokensIn(q) == {Job(q[k]) : k \in {k \in DOMAIN q : IsToken(q[k])}}
Distinct(q) ==
  \A k, l \in DOMAIN q : k # l /\ IsToken(q[k]) /\ IsToken(q[l]) => Job(q[k]) # Job(q[l])

Holder == Destination \cup {"inbox", "node", "listener"}
Tokens(h) ==
  CASE h \in Destination -> TokensIn(queue[h])
    [] h = "inbox" -> TokensIn(inbox)
    [] h = "node" -> node
    [] h = "listener" -> IF lis.pc = "report" /\ IsToken(lis.msg) THEN {Job(lis.msg)} ELSE {}

AllDistinct == Distinct(inbox) /\ \A d \in Destination : Distinct(queue[d])
Disjoint == \A g, h \in Holder : g # h => Tokens(g) \cap Tokens(h) = {}

\* Nobody speaks of the run that is being filed, and its status is still the first one.
FiledFresh ==
  lis.pc \in {"locate", "variables", "forward"} =>
    /\ Job(lis.msg) \notin AboutRuns
    /\ db[lis.id].status = IF lis.paused THEN "s" ELSE "q"

ReportedJob == lis.pc = "report" => Job(lis.msg) = Job(lis.copy)

\* Only a web session asks the node to cancel.
Uncancelled ==
  /\ \A m \in InTransit : ~m.cancel
  /\ lis.pc \notin {"wait", "stopped"} => ~lis.msg.cancel

CompleteDone == \A i \in Ids : db[i].status = "c" => \A h \in Holder : Job(db[i]) \notin Tokens(h)
SkippedDone == \A i \in Ids : db[i].status = "s" => Job(db[i]) \notin Tokens("Pending") \cup node

\* The listener is sent what it has subscribed to.
InboxHeard == \A m \in Elements(inbox) : m.dest \in Subscribed

TokenInv ==
  /\ AllDistinct /\ Disjoint /\ CompleteDone /\ SkippedDone
  /\ FiledFresh /\ ReportedJob /\ Uncancelled /\ InboxHeard
-----------------------------------------------------------------------------
LEMMA TokenAppend ==
  ASSUME NEW q \in Seq(Message), NEW m \in Message
  PROVE  /\ TokensIn(Append(q, m)) = TokensIn(q) \cup (IF IsToken(m) THEN {Job(m)} ELSE {})
         /\ Distinct(q) /\ (IsToken(m) => Job(m) \notin TokensIn(q)) => Distinct(Append(q, m))
<1> DEFINE a == Append(q, m)
<1>1. /\ DOMAIN a = DOMAIN q \cup {Len(q) + 1} /\ a[Len(q) + 1] = m
      /\ Len(q) + 1 \notin DOMAIN q /\ \A k \in DOMAIN q : a[k] = q[k]
  OBVIOUS
<1> HIDE DEF a
<1>2. TokensIn(a) = TokensIn(q) \cup (IF IsToken(m) THEN {Job(m)} ELSE {})
  <2>1. ASSUME NEW j \in TokensIn(a) PROVE j \in TokensIn(q) \/ (IsToken(m) /\ j = Job(m))
    BY <1>1, <2>1 DEF TokensIn
  <2>2. ASSUME NEW j \in TokensIn(q) PROVE j \in TokensIn(a)
    BY <1>1, <2>2 DEF TokensIn
  <2>3. IsToken(m) => Job(m) \in TokensIn(a)
    BY <1>1 DEF TokensIn
  <2> QED
    BY <2>1, <2>2, <2>3
<1>3. ASSUME Distinct(q), IsToken(m) => Job(m) \notin TokensIn(q) PROVE Distinct(a)
  <2>1. ASSUME NEW k \in DOMAIN a, NEW l \in DOMAIN a, k # l, IsToken(a[k]), IsToken(a[l])
        PROVE  Job(a[k]) # Job(a[l])
    <3>1. CASE k \in DOMAIN q /\ l \in DOMAIN q
      BY <1>1, <1>3, <2>1, <3>1 DEF Distinct
    <3>2. CASE k = Len(q) + 1
      BY <1>1, <1>3, <2>1, <3>2 DEF TokensIn
    <3>3. CASE l = Len(q) + 1
      BY <1>1, <1>3, <2>1, <3>3 DEF TokensIn
    <3> QED
      BY <1>1, <3>1, <3>2, <3>3
  <2> QED
    BY <2>1 DEF Distinct
<1> QED
  BY <1>2, <1>3 DEF a

LEMMA TokenTail ==
  ASSUME NEW q \in Seq(Message), q # <<>>
  PROVE  /\ TokensIn(Tail(q)) \subseteq TokensIn(q)
         /\ IsToken(Head(q)) => Job(Head(q)) \in TokensIn(q)
         /\ Distinct(q) => /\ Distinct(Tail(q))
                           /\ IsToken(Head(q)) => Job(Head(q)) \notin TokensIn(Tail(q))
<1> DEFINE t == Tail(q)
<1>1. /\ 1 \in DOMAIN q /\ Head(q) = q[1]
      /\ \A k \in DOMAIN t : k + 1 \in DOMAIN q /\ t[k] = q[k + 1] /\ k + 1 # 1 /\ k \in Int
  OBVIOUS
<1>2. \A k, l \in DOMAIN t : k # l => k + 1 # l + 1
  OBVIOUS
<1> HIDE DEF t
<1>3. TokensIn(t) \subseteq TokensIn(q) /\ (IsToken(Head(q)) => Job(Head(q)) \in TokensIn(q))
  BY <1>1 DEF TokensIn
<1>4. ASSUME Distinct(q) PROVE Distinct(t)
  BY <1>1, <1>2, <1>4 DEF Distinct
<1>5. ASSUME Distinct(q), IsToken(Head(q)) PROVE Job(Head(q)) \notin TokensIn(t)
  BY <1>1, <1>5 DEF Distinct, TokensIn
<1> QED
  BY <1>3, <1>4, <1>5 DEF t

LEMMA TokensAre ==
  /\ \A d \in Destination : d \in Holder /\ Tokens(d) = TokensIn(queue[d])
  /\ Tokens("inbox") = TokensIn(inbox) /\ Tokens("node") = node
  /\ Tokens("listener") = IF lis.pc = "report" /\ IsToken(lis.msg) THEN {Job(lis.msg)} ELSE {}
  /\ "inbox" \notin Destination /\ "node" \notin Destination /\ "listener" \notin Destination
BY DEF Tokens, Holder, Destination, Subscribed

LEMMA TokensBecome ==
  /\ \A d \in Destination : Tokens(d)' = TokensIn(queue'[d])
  /\ Tokens("inbox")' = TokensIn(inbox') /\ Tokens("node")' = node'
  /\ Tokens("listener")' = IF lis'.pc = "report" /\ IsToken(lis'.msg) THEN {Job(lis'.msg)} ELSE {}
BY DEF Tokens, TokensIn, IsToken, Job, Destination, Subscribed

(***************************************************************************)
(* What a step does with the tokens: some may go, one may be handed on, or *)
(* one is made for a job that has none.                                    *)
(***************************************************************************)
Gains(h, j) ==
  AllDistinct' /\ \A k \in Holder : Tokens(k)' \subseteq Tokens(k) \cup (IF k = h THEN {j} ELSE {})

Shrinks == AllDistinct' /\ \A k \in Holder : Tokens(k)' \subseteq Tokens(k)
Passes(g, h, j) ==
  /\ Gains(h, j) /\ g \in Holder /\ h \in Holder /\ g # h /\ j \in Tokens(g) /\ j \notin Tokens(g)'
  /\ h \in {"Pending", "node"} => g \in {"Pending", "node"}
Makes(h, j) ==
  Gains(h, j) /\ h \in Holder /\ \A k \in Holder : j \notin Tokens(k)

LEMMA HandingOnDisjoint ==
  ASSUME Disjoint,
         \/ Shrinks
         \/ \E g, h, j : Passes(g, h, j)
         \/ \E h, j : Makes(h, j)
  PROVE  Disjoint'
<1>1. CASE Shrinks
  BY <1>1 DEF Disjoint, Shrinks
<1>2. ASSUME NEW g, NEW h, NEW j, Passes(g, h, j) PROVE Disjoint'
  <2>1. \A k \in Holder : k # h => j \notin Tokens(k)'
    BY <1>2 DEF Passes, Gains, Disjoint
  <2> QED
    BY <1>2, <2>1 DEF Disjoint, Passes, Gains
<1>3. ASSUME NEW h, NEW j, Makes(h, j) PROVE Disjoint'
  <2>1. \A k \in Holder : k # h => j \notin Tokens(k)'
    BY <1>3 DEF Makes, Gains
  <2> QED
    BY <1>3, <2>1 DEF Disjoint, Makes, Gains
<1> QED
  BY <1>1, <1>2, <1>3

\* Steps that leave the queues, the inbox or the node as they are.
LEMMA NothingTaken ==
  ASSUME AllDistinct, UNCHANGED <<queue, inbox, node>>, lis'.pc # "report" \/ lis' = lis
  PROVE  Shrinks
<1>1. \A k \in Holder : Tokens(k)' \subseteq Tokens(k)
  BY TokensAre, TokensBecome DEF Holder
<1> QED
  BY <1>1 DEF Shrinks, AllDistinct, Distinct, Job, IsToken

LEMMA InboxLost ==
  ASSUME AllDistinct, UNCHANGED <<queue, node>>, Die
  PROVE  Shrinks
<1>1. TokensIn(inbox') = {} /\ Distinct(inbox')
  BY DEF Die, TokensIn, Distinct
<1>2. \A k \in Holder : Tokens(k)' \subseteq Tokens(k)
  BY <1>1, TokensAre, TokensBecome DEF Holder, Die, Stopped
<1>3. AllDistinct'
  BY <1>1 DEF AllDistinct, Distinct, Job, IsToken
<1> QED
  BY <1>2, <1>3 DEF Shrinks

LEMMA AllDistinctPrime ==
  ASSUME Distinct(inbox'), \A d \in Destination : Distinct(queue'[d])
  PROVE  AllDistinct'
BY DEF AllDistinct, Distinct, IsToken, Job

\* A message is taken from the inbox by a handler that holds no token of its own.
LEMMA TokenReceived ==
  ASSUME TypeOK, AllDistinct, NEW d, NEW m, Receive(d, m), UNCHANGED <<queue, node>>
  PROVE  /\ lis'.pc # "report" => Shrinks
         /\ lis'.pc = "report" /\ lis'.msg = m /\ ~IsToken(m) => Shrinks
         /\ lis'.pc = "report" /\ lis'.msg = m /\ IsToken(m) => Passes("inbox", "listener", Job(m))
<1>1. inbox \in Seq(Message) /\ inbox # <<>> /\ m = Head(inbox) /\ inbox' = Tail(inbox)
  BY DEF TypeOK, QueuesOK, Receive
<1>2. /\ TokensIn(inbox') \subseteq TokensIn(inbox) /\ Distinct(inbox')
      /\ IsToken(m) => Job(m) \in TokensIn(inbox) /\ Job(m) \notin TokensIn(inbox')
  BY <1>1, TokenTail DEF AllDistinct
<1>3. AllDistinct'
  BY <1>2, AllDistinctPrime DEF AllDistinct
<1>4. \A k \in Holder : k # "listener" => Tokens(k)' \subseteq Tokens(k)
  BY <1>2, TokensAre, TokensBecome DEF Holder
<1>5. /\ lis'.pc # "report" => Tokens("listener")' = {}
      /\ lis'.pc = "report" /\ lis'.msg = m =>
           Tokens("listener")' = IF IsToken(m) THEN {Job(m)} ELSE {}
  BY TokensBecome
<1>6. IsToken(m) => Job(m) \in Tokens("inbox") /\ Job(m) \notin Tokens("inbox")'
  BY <1>2, TokensAre, TokensBecome
<1>7. "inbox" \in Holder /\ "listener" \in Holder
  BY DEF Holder
<1> QED
  BY <1>3, <1>4, <1>5, <1>6, <1>7 DEF Shrinks, Passes, Gains

LEMMA TokenDispatched ==
  ASSUME TypeOK, AllDistinct, Disjoint, NEW d \in Subscribed, Dispatch(d)
  PROVE  Shrinks \/ \E j : Passes(d, "inbox", j)
<1> DEFINE m == Head(queue[d])
<1>1. /\ d \in Destination /\ queue[d] \in Seq(Message) /\ queue[d] # <<>> /\ inbox \in Seq(Message)
      /\ m \in Message /\ d \in Holder /\ "inbox" \in Holder
  BY FrameType DEF Destination, Holder, TypeOK, QueuesOK, Dispatch
<1>2. inbox' = Append(inbox, m) /\ UNCHANGED <<node, lis>>
  BY DEF Dispatch
<1>3. \A e \in Destination : queue'[e] = IF e = d THEN Tail(queue[d]) ELSE queue[e]
  BY <1>1 DEF Dispatch, TypeOK, QueuesOK
<1> HIDE DEF m
<1>4. /\ TokensIn(queue'[d]) \subseteq TokensIn(queue[d]) /\ Distinct(queue'[d])
      /\ IsToken(m) => Job(m) \in TokensIn(queue[d]) /\ Job(m) \notin TokensIn(queue'[d])
  BY <1>1, <1>3, TokenTail DEF AllDistinct, m
<1>5. IsToken(m) => Job(m) \notin TokensIn(inbox)
  BY <1>1, <1>4, TokensAre DEF Disjoint
<1>6. /\ TokensIn(inbox') = TokensIn(inbox) \cup (IF IsToken(m) THEN {Job(m)} ELSE {})
      /\ Distinct(inbox')
  BY <1>1, <1>2, <1>5, TokenAppend DEF AllDistinct
<1>7. AllDistinct'
  BY <1>3, <1>4, <1>6, AllDistinctPrime DEF AllDistinct
<1>8. \A k \in Holder : k # "inbox" => Tokens(k)' \subseteq Tokens(k)
  BY <1>2, <1>3, <1>4, TokensAre, TokensBecome DEF Holder
<1>9. CASE IsToken(m)
  <2>1. Job(m) \in Tokens(d) /\ Job(m) \notin Tokens(d)'
    BY <1>1, <1>4, <1>9, TokensAre, TokensBecome
  <2>2. Gains("inbox", Job(m))
    BY <1>6, <1>7, <1>8, <1>9, TokensAre, TokensBecome DEF Gains
  <2>3. d # "inbox"
    BY <1>1, TokensAre
  <2>4. Passes(d, "inbox", Job(m))
    BY <1>1, <2>1, <2>2, <2>3 DEF Passes
  <2> QED
    BY <2>4
<1>10. CASE ~IsToken(m)
  BY <1>6, <1>7, <1>8, <1>10, TokensAre, TokensBecome DEF Shrinks
<1> QED
  BY <1>9, <1>10

LEMMA TokenSent ==
  ASSUME TypeOK, AllDistinct, NEW m \in Message, Send(m), UNCHANGED inbox,
         IsToken(m) => Job(m) \notin Tokens(m.dest)
  PROVE  /\ AllDistinct'
         /\ \A d \in Destination :
              Tokens(d)' \subseteq Tokens(d) \cup (IF d = m.dest /\ IsToken(m) THEN {Job(m)} ELSE {})
         /\ Tokens("inbox")' = Tokens("inbox") /\ m.dest \in Destination
<1>1. m.dest \in Destination
  BY DEF Message
<1>2. ASSUME NEW d \in Destination
      PROVE  /\ Distinct(queue'[d])
             /\ TokensIn(queue'[d]) \subseteq
                  TokensIn(queue[d]) \cup (IF d = m.dest /\ IsToken(m) THEN {Job(m)} ELSE {})
  <2>1. queue[d] \in Seq(Message) /\ Distinct(queue[d])
    BY DEF TypeOK, QueuesOK, AllDistinct
  <2>2. queue'[d] = IF d = m.dest THEN Append(queue[d], m) ELSE queue[d]
    BY DEF TypeOK, QueuesOK, Send
  <2>3. IsToken(m) => Job(m) \notin TokensIn(queue[m.dest])
    BY <1>1, TokensAre
  <2> QED
    BY <2>1, <2>2, <2>3, TokenAppend
<1>3. AllDistinct'
  BY <1>2, AllDistinctPrime DEF AllDistinct
<1> QED
  BY <1>1, <1>2, <1>3, TokensAre, TokensBecome

LEMMA TokensSpoken ==
  \A k \in Holder : k # "listener" => Tokens(k) \subseteq AboutRuns
<1>1. \A m : IsToken(m) => m.dest # "DataReady" /\ ~m.cancel
  BY DEF IsToken
<1>2. TokensIn(inbox) \subseteq AboutRuns
  BY <1>1 DEF TokensIn, AboutRuns, InTransit, Elements
<1>3. ASSUME NEW d \in Destination PROVE TokensIn(queue[d]) \subseteq AboutRuns
  BY <1>1 DEF TokensIn, AboutRuns, InTransit, Elements
<1>4. node \subseteq AboutRuns
  BY DEF AboutRuns
<1> QED
  BY <1>2, <1>3, <1>4, TokensAre DEF Holder

LEMMA NodeTokens ==
  ASSUME TypeOK, Addressed, AllDistinct, Disjoint, Node
  PROVE  Shrinks \/ \E g, h, j : Passes(g, h, j)
<1>0. /\ \A h \in {"Pending", "Started", "Error", "Complete", "Skipped", "node"} : h \in Holder
      /\ \A d \in {"Pending", "Started", "Error", "Complete", "Skipped"} : d \in Destination
  BY DEF Holder, Destination, Subscribed
<1>1. ASSUME NEW m, NodeTake(m)
      PROVE  /\ m \in Message /\ m.dest = "Pending" /\ Distinct(Tail(queue["Pending"]))
             /\ TokensIn(Tail(queue["Pending"])) \subseteq Tokens("Pending")
             /\ ~m.cancel => /\ Job(m) \in Tokens("Pending")
                             /\ Job(m) \notin TokensIn(Tail(queue["Pending"]))
             /\ UNCHANGED <<inbox, lis>>
  <2>1. "Pending" \in Destination /\ queue["Pending"] \in Seq(Message) /\ queue["Pending"] # <<>>
        /\ m = Head(queue["Pending"])
    BY <1>1 DEF Destination, TypeOK, QueuesOK, NodeTake
  <2>2. m \in Message /\ m.dest = "Pending"
    BY <2>1, ElementsTail, FrameType DEF Addressed
  <2>3. ~m.cancel => IsToken(m)
    BY <2>2 DEF IsToken
  <2> QED
    BY <1>1, <2>1, <2>2, <2>3, TokenTail, TokensAre DEF AllDistinct, NodeTake
<1>2. ASSUME NEW m, NodeCancel(m) \/ NodeDrop(m) PROVE Shrinks
  <2>1. NodeTake(m) /\ UNCHANGED node /\ queue' = [queue EXCEPT !["Pending"] = Tail(@)]
    BY <1>2 DEF NodeCancel, NodeDrop
  <2>2. \A e \in Destination : queue'[e] = IF e = "Pending" THEN Tail(queue["Pending"]) ELSE queue[e]
    BY <2>1 DEF TypeOK, QueuesOK
  <2>3. AllDistinct'
    BY <1>1, <2>1, <2>2, AllDistinctPrime DEF AllDistinct
  <2>4. \A k \in Holder : Tokens(k)' \subseteq Tokens(k)
    BY <1>1, <2>1, <2>2, TokensAre, TokensBecome DEF Holder
  <2> QED
    BY <2>3, <2>4 DEF Shrinks
\* The job goes to the node or, as an error, to the listener's queue.
<1>3. ASSUME NEW m, NodeStart(m) \/ NodeReject(m)
      PROVE  \E h : Passes("Pending", h, Job(m))
  <2>1. NodeTake(m) /\ ~m.cancel
    BY <1>3 DEF NodeStart, NodeReject
  <2>0. CASE queue' = [queue EXCEPT !["Pending"] = Tail(@)] /\ node' = node \cup {Job(m)}
    <3>1. \A e \in Destination : queue'[e] = IF e = "Pending" THEN Tail(queue["Pending"]) ELSE queue[e]
      BY <2>0 DEF TypeOK, QueuesOK
    <3>2. AllDistinct'
      BY <1>1, <2>1, <3>1, AllDistinctPrime DEF AllDistinct
    <3>3. \A k \in Holder : Tokens(k)' \subseteq Tokens(k) \cup (IF k = "node" THEN {Job(m)} ELSE {})
      BY <1>1, <2>0, <2>1, <3>1, TokensAre, TokensBecome DEF Holder
    <3>4. Job(m) \in Tokens("Pending") /\ \A k \in Holder : k # "Pending" => Job(m) \notin Tokens(k)
      BY <1>0, <1>1, <2>1 DEF Disjoint
    <3>5. Job(m) \notin Tokens("Pending")'
      BY <1>0, <1>1, <2>1, <3>1, TokensBecome
    <3> QED
      BY <1>0, <3>2, <3>3, <3>4, <3>5 DEF Gains, Passes
  <2>2. SUFFICES ASSUME NEW d \in {"Started", "Error"},
                        queue' = [queue EXCEPT !["Pending"] = Tail(@),
                                               ![d] = Append(@, NewMessage(d, m.run, m.version))],
                        d = "Started" => node' = node \cup {Job(m)},
                        d = "Error" => UNCHANGED node
                 PROVE  \E h : Passes("Pending", h, Job(m))
    BY <1>3, <2>0 DEF NodeStart, NodeReject
  <2> DEFINE n == NewMessage(d, m.run, m.version)
             h == IF d = "Started" THEN "node" ELSE "Error"
  <2>3. n \in Message /\ Job(n) = Job(m) /\ (IsToken(n) <=> d = "Error")
    <3>1. n \in Message
      BY <1>1, <2>1, MessageChanged, NewMessageType, <1>0
    <3> QED
      BY <3>1 DEF NewMessage, Job, IsToken
  <2>4. Job(m) \in Tokens("Pending") /\ \A k \in Holder : k # "Pending" => Job(m) \notin Tokens(k)
    BY <1>0, <1>1, <2>1 DEF Disjoint
  <2>5. \A e \in Destination : queue'[e] = CASE e = "Pending" -> Tail(queue["Pending"])
                                             [] e = d -> Append(queue[d], n)
                                             [] OTHER -> queue[e]
    BY <2>2 DEF TypeOK, QueuesOK
  <2> HIDE DEF n
  <2>6. d \in Destination /\ queue[d] \in Seq(Message) /\ Distinct(queue[d]) /\ d # "Pending"
    BY <1>0 DEF TypeOK, QueuesOK, AllDistinct
  <2>7. /\ TokensIn(queue'[d]) = TokensIn(queue[d]) \cup (IF d = "Error" THEN {Job(m)} ELSE {})
        /\ Distinct(queue'[d])
    BY <2>3, <2>4, <2>5, <2>6, TokenAppend, TokensAre
  <2>8. \A e \in Destination : e # d => Distinct(queue'[e]) /\ TokensIn(queue'[e]) \subseteq TokensIn(queue[e])
    BY <1>1, <2>1, <2>5, <2>6, TokensAre DEF AllDistinct
  <2>9. AllDistinct'
    BY <1>1, <2>1, <2>7, <2>8, AllDistinctPrime DEF AllDistinct
  <2>10. ASSUME NEW k \in Holder
         PROVE  Tokens(k)' \subseteq Tokens(k) \cup (IF k = h THEN {Job(m)} ELSE {})
    <3>1. CASE k = d
      BY <1>0, <2>6, <2>7, <3>1, TokensAre, TokensBecome
    <3>2. CASE k \in Destination \ {d}
      BY <2>8, <3>2, TokensAre, TokensBecome
    <3>3. CASE k = "node"
      <4>1. node' \subseteq node \cup (IF k = h THEN {Job(m)} ELSE {})
        BY <2>2, <3>3
      <4> QED
        BY <3>3, <4>1, TokensAre, TokensBecome
    <3>4. CASE k \in {"inbox", "listener"}
      BY <1>1, <2>1, <3>4, TokensAre, TokensBecome
    <3> QED
      BY <3>1, <3>2, <3>3, <3>4 DEF Holder
  <2>11. Job(m) \notin Tokens("Pending")'
    BY <1>0, <1>1, <2>1, <2>5, TokensBecome
  <2>12. h \in Holder /\ h # "Pending" /\ "Pending" \in Holder
    BY <1>0
  <2> HIDE DEF h
  <2>13. Gains(h, Job(m))
    BY <2>9, <2>10 DEF Gains
  <2>14. Passes("Pending", h, Job(m))
    BY <2>4, <2>11, <2>12, <2>13 DEF Passes
  <2> QED
    BY <2>14
<1>4. ASSUME NEW j \in node, NodeDie(j) PROVE Shrinks
  <2>1. UNCHANGED <<queue, inbox, lis>> /\ node' \subseteq node
    BY <1>4 DEF NodeDie
  <2>2. AllDistinct'
    BY <2>1, AllDistinctPrime DEF AllDistinct
  <2>3. \A k \in Holder : Tokens(k)' \subseteq Tokens(k)
    BY <2>1, TokensAre, TokensBecome DEF Holder
  <2> QED
    BY <2>2, <2>3 DEF Shrinks
<1>5. ASSUME NEW j \in node, NodeReport(j) PROVE \E h : Passes("node", h, j)
  <2>1. j \in [run : Runs, version : Nat]
    BY DEF TypeOK, QueuesOK
  <2>2. PICK d \in {"Complete", "Error", "Skipped"} :
          \/ Send(NewMessage(d, j.run, j.version))
          \/ Send([NewMessage(d, j.run, j.version) EXCEPT !.retryIn = TRUE])
    BY <1>5 DEF NodeReport
  <2>3. NewMessage(d, j.run, j.version) \in Message
    BY <1>0, <2>1, NewMessageType
  <2>4. PICK m \in Message : Send(m) /\ m.dest = d /\ Job(m) = j /\ IsToken(m)
    <3>1. [NewMessage(d, j.run, j.version) EXCEPT !.retryIn = TRUE] \in Message
      BY <2>3 DEF Message
    <3>2. /\ NewMessage(d, j.run, j.version).dest = d /\ Job(NewMessage(d, j.run, j.version)) = j
          /\ ~NewMessage(d, j.run, j.version).cancel
      BY <2>1 DEF NewMessage, Job
    <3>3. /\ [NewMessage(d, j.run, j.version) EXCEPT !.retryIn = TRUE].dest = d
          /\ Job([NewMessage(d, j.run, j.version) EXCEPT !.retryIn = TRUE]) = j
          /\ ~[NewMessage(d, j.run, j.version) EXCEPT !.retryIn = TRUE].cancel
      BY <2>1 DEF NewMessage, Job
    <3> QED
      BY <2>2, <2>3, <3>1, <3>2, <3>3 DEF IsToken
  <2>5. j \in Tokens("node") /\ \A k \in Holder : k # "node" => j \notin Tokens(k)
    BY <1>0, TokensAre DEF Disjoint
  <2>6. UNCHANGED <<inbox, lis>> /\ node' = node \ {j}
    BY <1>5 DEF NodeReport
  <2>7. d \in Destination /\ d # "node"
    BY <1>0, TokensAre
  <2>8. /\ AllDistinct'
        /\ \A e \in Destination : Tokens(e)' \subseteq Tokens(e) \cup (IF e = d THEN {j} ELSE {})
    BY <1>0, <2>4, <2>5, <2>6, <2>7, TokenSent
  <2>9. ASSUME NEW k \in Holder PROVE Tokens(k)' \subseteq Tokens(k) \cup (IF k = d THEN {j} ELSE {})
    BY <2>6, <2>8, TokensAre, TokensBecome DEF Holder
  <2>10. Passes("node", d, j)
    BY <1>0, <2>5, <2>6, <2>7, <2>8, <2>9, TokensBecome DEF Passes, Gains
  <2> QED
    BY <2>10
<1> QED
  BY <1>2, <1>3, <1>4, <1>5 DEF Node

LEMMA ListenerTokens ==
  ASSUME TypeOK, AllDistinct, Disjoint, FiledFresh, Listener
  PROVE  \/ Shrinks
         \/ \E m : FindRun(m) /\ Passes("inbox", "listener", Job(m))
         \/ Forward /\ Makes("Skipped", Job(lis.msg))
         \/ Forward /\ ~lis.paused /\ Makes("Pending", Job(lis.msg))
<1>1. ASSUME NEW m, DataReady(m) PROVE Shrinks
  BY <1>1, TokenReceived DEF DataReady
<1>2. ASSUME NEW m, RefuseReport(m) PROVE Shrinks
  BY <1>2, TokenReceived DEF RefuseReport, Receive, Waiting
<1>3. ASSUME NEW m, FindRun(m) PROVE Shrinks \/ Passes("inbox", "listener", Job(m))
  BY <1>3, TokenReceived DEF FindRun
<1>4. CASE ReadVersion \/ ScriptFound
  <2>1. lis \in Filing
    BY <1>4, ListenerByPc DEF ReadVersion, ScriptFound
  <2>2. lis'.pc # "report"
    BY <1>4, <2>1 DEF ReadVersion, ScriptFound, Filing
  <2> QED
    BY <1>4, <2>2, NothingTaken DEF ReadVersion, ScriptFound
<1>5. CASE ScriptMissing \/ SaveRun \/ SaveRetry
  BY <1>5, NothingTaken DEF ScriptMissing, Return, Waiting, SaveRun, SaveRetry
<1>6. CASE SaveDataLocation \/ CreateVariables
  <2>1. lis \in Filed
    BY <1>6, ListenerByPc DEF SaveDataLocation, CreateVariables
  <2>2. lis'.pc # "report"
    BY <1>6, <2>1 DEF SaveDataLocation, CreateVariables, Die, Stopped, Filed
  <2> QED
    BY <1>6, <2>2, NothingTaken, InboxLost DEF SaveDataLocation, CreateVariables
<1>7. CASE SaveReport
  <2>1. lis \in Reporting
    BY <1>7, ListenerByPc DEF SaveReport
  <2>2. UNCHANGED <<queue, node>>
    BY <1>7 DEF SaveReport
  <2>3. Die \/ (UNCHANGED inbox /\ (lis' = Waiting \/ lis' = [lis EXCEPT !.pc = "retry"]))
    BY <1>7 DEF SaveReport, Return
  <2>4. Die \/ (UNCHANGED inbox /\ lis'.pc # "report")
    BY <2>1, <2>3 DEF Reporting, Waiting
  <2> QED
    BY <2>2, <2>4, NothingTaken, InboxLost
<1>8. CASE RetryRun
  <2>1. lis \in Reporting
    BY <1>8, ListenerByPc DEF RetryRun
  <2>2. UNCHANGED <<queue, node, inbox>>
    BY <1>8 DEF RetryRun
  <2>3. PICK v : lis' = Waiting \/ lis' = [lis EXCEPT !.pc = "retrySave", !.msg.version = v]
    BY <1>8 DEF RetryRun, Return
  <2>4. lis'.pc # "report"
    <3>1. CASE lis' = Waiting
      BY <3>1 DEF Waiting
    <3>2. CASE lis' = [lis EXCEPT !.pc = "retrySave", !.msg.version = v]
      BY <2>1, <3>2 DEF Reporting
    <3> QED
      BY <2>3, <3>1, <3>2
  <2> QED
    BY <2>2, <2>4, NothingTaken
<1>9. CASE LinkRetry \/ RetryVariables \/ RetrySend
  <2>1. lis \in Retrying
    BY <1>9, ListenerByPc DEF LinkRetry, RetryVariables, RetrySend
  <2>2. lis'.pc # "report"
    BY <1>9, <2>1 DEF LinkRetry, RetryVariables, RetrySend, Die, Stopped, Retrying
  <2> QED
    BY <1>9, <2>2, NothingTaken, InboxLost DEF LinkRetry, RetryVariables, RetrySend
<1>10. CASE Forward
  <2>1. lis.msg \in Message /\ UNCHANGED <<inbox, node>> /\ lis' = Waiting /\ lis.pc = "forward"
    BY <1>10, ListenerByPc DEF Forward, Filed, Return
  <2>2. \A k \in Holder : Job(lis.msg) \notin Tokens(k)
    BY <2>1, TokensSpoken, TokensAre DEF FiledFresh
  <2>3. ASSUME NEW d \in {"Skipped", "Pending"}, Send([lis.msg EXCEPT !.dest = d])
        PROVE  Shrinks \/ Makes(d, Job(lis.msg))
    <3> DEFINE m == [lis.msg EXCEPT !.dest = d]
    <3>1. m \in Message /\ m.dest = d /\ Job(m) = Job(lis.msg)
      BY <2>1, MessageChanged DEF Destination, Subscribed, Message, Job
    <3>2. Send(m)
      BY <2>3
    <3> HIDE DEF m
    <3>3. d \in Destination /\ d \in Holder
      BY DEF Destination, Subscribed, Holder
    <3>4. /\ AllDistinct'
          /\ \A e \in Destination :
               Tokens(e)' \subseteq Tokens(e) \cup (IF e = d /\ IsToken(m) THEN {Job(m)} ELSE {})
      BY <2>1, <2>2, <3>1, <3>2, <3>3, TokenSent
    <3>5. \A k \in Holder :
            Tokens(k)' \subseteq Tokens(k) \cup (IF k = d /\ IsToken(m) THEN {Job(m)} ELSE {})
      BY <2>1, <3>4, TokensAre, TokensBecome DEF Holder, Waiting
    <3> QED
      BY <2>2, <3>1, <3>3, <3>4, <3>5 DEF Shrinks, Makes, Gains
  <2>4. UNCHANGED queue => Shrinks
    BY <2>1, NothingTaken DEF Waiting
  <2>5. \/ UNCHANGED queue \/ Send([lis.msg EXCEPT !.dest = "Skipped"])
        \/ ~lis.paused /\ Send([lis.msg EXCEPT !.dest = "Pending"])
    BY <1>10 DEF Forward
  <2> QED
    BY <1>10, <2>3, <2>4, <2>5
<1> QED
  BY <1>1, <1>2, <1>3, <1>4, <1>5, <1>6, <1>7, <1>8, <1>9, <1>10 DEF Listener

\* What anybody but the listener does with the tokens; none of it touches the table.
LEMMA OthersTokens ==
  ASSUME Sessions = {}, TypeOK, Addressed, AllDistinct, Disjoint, [Next]_vars, ~Listener
  PROVE  /\ Shrinks \/ \E g, h, j : Passes(g, h, j)
         /\ UNCHANGED db /\ lis' \in {lis, Waiting, Stopped}
<1>1. ASSUME NEW r \in Runs, Submit(r) PROVE Shrinks /\ UNCHANGED <<db, lis>>
  <2> DEFINE m == NewMessage("DataReady", r, 0)
  <2>1. m \in Message /\ ~IsToken(m)
    BY NewMessageType DEF Destination, Subscribed, NewMessage, IsToken
  <2>2. Send(m) /\ UNCHANGED <<db, lis, inbox, node>>
    BY <1>1 DEF Submit
  <2> HIDE DEF m
  <2>3. AllDistinct' /\ \A d \in Destination : Tokens(d)' \subseteq Tokens(d)
    BY <2>1, <2>2, TokenSent
  <2>4. \A k \in Holder : Tokens(k)' \subseteq Tokens(k)
    BY <2>2, <2>3, TokensAre, TokensBecome DEF Holder
  <2> QED
    BY <2>2, <2>3, <2>4 DEF Shrinks
<1>2. ASSUME NEW d \in Subscribed, Dispatch(d)
      PROVE  (Shrinks \/ \E j : Passes(d, "inbox", j)) /\ UNCHANGED <<db, lis>>
  BY <1>2, TokenDispatched DEF Dispatch
<1>3. CASE TogglePause \/ UNCHANGED vars
  BY <1>3, NothingTaken DEF TogglePause, vars
<1>4. CASE Kill
  BY <1>4, InboxLost DEF Kill, Die
<1>5. CASE Restart
  BY <1>5, NothingTaken DEF Restart, Waiting
<1>6. CASE Node
  <2>1. UNCHANGED <<db, lis>>
    BY <1>6 DEF Node, NodeCancel, NodeDrop, NodeStart, NodeReject, NodeTake, NodeReport, NodeDie
  <2> QED
    BY <1>6, <2>1, NodeTokens
<1> QED
  BY <1>1, <1>2, <1>3, <1>4, <1>5, <1>6 DEF Next

\* Nothing but what the listener or the node asks for is sent, and neither asks to cancel.
LEMMA ListenerUncancelled ==
  ASSUME TypeOK, Uncancelled, Listener
  PROVE  Uncancelled'
<1>1. ASSUME Elements(inbox') \subseteq Elements(inbox), UNCHANGED queue PROVE \A m \in InTransit' : ~m.cancel
  <2>1. InTransit' \subseteq InTransit \cup {}
    BY <1>1, Transit
  <2> QED
    BY <2>1 DEF Uncancelled
<1>2. ASSUME NEW m, DataReady(m) \/ FindRun(m) \/ RefuseReport(m) PROVE Uncancelled'
  <2>1. (\E d : Receive(d, m)) /\ UNCHANGED queue
    BY <1>2 DEF DataReady, FindRun, RefuseReport
  <2>2. m \in InTransit /\ Elements(inbox') \subseteq Elements(inbox)
    BY <2>1, ReceiveQuiet
  <2>3. lis'.pc \notin {"wait", "stopped"} => lis'.msg = m
    BY <1>2 DEF DataReady, FindRun, RefuseReport, Receive, Waiting
  <2> QED
    BY <1>1, <2>1, <2>2, <2>3 DEF Uncancelled
<1>3. ASSUME UNCHANGED <<queue, inbox>> PROVE \A m \in InTransit' : ~m.cancel
  BY <1>1, <1>3
<1>4. CASE ReadVersion
  <2>1. PICK v : lis' = [lis EXCEPT !.pc = "script", !.msg.version = v]
    BY <1>4 DEF ReadVersion
  <2>2. lis'.msg.cancel = lis.msg.cancel
    BY <1>4, <2>1, ListenerByPc DEF ReadVersion, Filing, Message
  <2> QED
    BY <1>3, <1>4, <2>2 DEF ReadVersion, Uncancelled
<1>5. CASE ScriptFound
  <2>1. lis'.msg = lis.msg
    BY <1>5, ListenerByPc DEF ScriptFound, Filing
  <2> QED
    BY <1>3, <1>5, <2>1 DEF ScriptFound, Uncancelled
<1>6. CASE ScriptMissing
  BY <1>3, <1>6 DEF ScriptMissing, Return, Waiting, Uncancelled
<1>7. CASE SaveRun \/ SaveRetry
  BY <1>3, <1>7 DEF SaveRun, SaveRetry, Uncancelled
<1>8. CASE SaveDataLocation
  <2>1. lis'.msg = lis.msg
    BY <1>8, ListenerByPc DEF SaveDataLocation, Filed
  <2> QED
    BY <1>3, <1>8, <2>1 DEF SaveDataLocation, Uncancelled
<1>9. CASE RetryRun
  <2>1. PICK v : lis' = Waiting \/ lis' = [lis EXCEPT !.pc = "retrySave", !.msg.version = v]
    BY <1>9 DEF RetryRun, Return
  <2>2. lis \in Reporting /\ lis.pc = "retry" /\ UNCHANGED <<queue, inbox>>
    BY <1>9, ListenerByPc DEF RetryRun
  <2>3. CASE lis' = [lis EXCEPT !.pc = "retrySave", !.msg.version = v]
    <3>1. lis'.msg.cancel = lis.msg.cancel
      BY <2>2, <2>3 DEF Reporting, Message
    <3> QED
      BY <1>3, <2>2, <3>1 DEF Uncancelled
  <2> QED
    BY <1>3, <2>1, <2>2, <2>3 DEF Waiting, Uncancelled
<1>10. CASE LinkRetry
  <2>1. lis'.msg = lis.msg
    BY <1>10, ListenerByPc DEF LinkRetry, Retrying
  <2> QED
    BY <1>3, <1>10, <2>1 DEF LinkRetry, Uncancelled
<1>11. CASE CreateVariables \/ SaveReport \/ RetryVariables \/ RetrySend
  <2>1. UNCHANGED queue /\ (Die \/ (UNCHANGED inbox /\ (lis' = Waiting \/ \E p : lis' = [lis EXCEPT !.pc = p])))
    BY <1>11 DEF CreateVariables, SaveReport, RetryVariables, RetrySend, Return
  <2>2. lis \in Filed \cup Reporting \cup Retrying /\ lis.pc \notin {"wait", "stopped"}
    BY <1>11, ListenerByPc DEF CreateVariables, SaveReport, RetryVariables, RetrySend
  <2>3. CASE Die
    BY <1>1, <2>1, <2>3, DieQuiet DEF Die, Stopped, Uncancelled
  <2>4. CASE UNCHANGED inbox /\ lis' = Waiting
    BY <1>3, <2>1, <2>4 DEF Waiting, Uncancelled
  <2>5. ASSUME NEW p, UNCHANGED inbox, lis' = [lis EXCEPT !.pc = p] PROVE Uncancelled'
    <3>1. lis'.msg = lis.msg
      BY <2>2, <2>5 DEF Filed, Reporting, Retrying
    <3> QED
      BY <1>3, <2>1, <2>2, <2>5, <3>1 DEF Uncancelled
  <2> QED
    BY <2>1, <2>3, <2>4, <2>5
<1>12. CASE Forward
  <2>1. lis.msg \in Message /\ ~lis.msg.cancel /\ UNCHANGED inbox /\ lis' = Waiting
    BY <1>12, ListenerByPc DEF Forward, Filed, Return, Uncancelled
  <2>2. ASSUME NEW d \in {"Skipped", "Pending"}, Send([lis.msg EXCEPT !.dest = d])
        PROVE  \A m \in InTransit' : ~m.cancel
    <3> DEFINE m == [lis.msg EXCEPT !.dest = d]
    <3>1. m \in Message /\ ~m.cancel /\ Send(m)
      BY <2>1, <2>2, MessageChanged DEF Destination, Subscribed, Message
    <3> HIDE DEF m
    <3>2. InTransit' \subseteq InTransit \cup {m}
      BY <2>1, <3>1, SendTransit
    <3> QED
      BY <3>1, <3>2 DEF Uncancelled
  <2>3. \/ UNCHANGED queue
        \/ Send([lis.msg EXCEPT !.dest = "Skipped"]) \/ Send([lis.msg EXCEPT !.dest = "Pending"])
    BY <1>12 DEF Forward
  <2> QED
    BY <1>3, <2>1, <2>2, <2>3 DEF Waiting, Uncancelled
<1> QED
  BY <1>2, <1>4, <1>5, <1>6, <1>7, <1>8, <1>9, <1>10, <1>11, <1>12 DEF Listener

LEMMA OthersUncancelled ==
  ASSUME Sessions = {}, TypeOK, Uncancelled, [Next]_vars, ~Listener
  PROVE  Uncancelled'
<1>1. ASSUME \A m \in InTransit' : m \in InTransit \/ ~m.cancel, lis' \in {lis, Waiting, Stopped}
      PROVE  Uncancelled'
  BY <1>1 DEF Uncancelled, Waiting, Stopped
<1>2. ASSUME NEW r \in Runs, Submit(r) PROVE Uncancelled'
  <2> DEFINE m == NewMessage("DataReady", r, 0)
  <2>1. m \in Message /\ ~m.cancel
    BY NewMessageType DEF Destination, Subscribed, NewMessage
  <2>2. Send(m) /\ UNCHANGED <<inbox, lis>>
    BY <1>2 DEF Submit
  <2> HIDE DEF m
  <2> QED
    BY <1>1, <2>1, <2>2, SendTransit
<1>3. ASSUME NEW d \in Subscribed, Dispatch(d) PROVE Uncancelled'
  BY <1>1, <1>3, DispatchTransit DEF Dispatch
<1>4. CASE TogglePause \/ Restart \/ UNCHANGED vars
  <2>1. UNCHANGED <<queue, inbox>> /\ lis' \in {lis, Waiting}
    BY <1>4 DEF TogglePause, Restart, vars
  <2>2. InTransit' = InTransit
    BY <2>1 DEF InTransit, Elements
  <2> QED
    BY <1>1, <2>1, <2>2
<1>5. CASE Kill
  <2>1. InTransit' \subseteq InTransit \cup {}
    BY <1>5, DieQuiet, Transit DEF Kill
  <2> QED
    BY <1>1, <1>5, <2>1 DEF Kill, Die
<1>6. CASE Node
  <2>1. UNCHANGED lis
    BY <1>6 DEF Node, NodeCancel, NodeDrop, NodeStart, NodeReject, NodeTake, NodeReport, NodeDie
  <2>2. ASSUME NEW m, NodeCancel(m) \/ NodeDrop(m) PROVE Uncancelled'
    BY <1>1, <2>1, <2>2, TakeTransit DEF NodeCancel, NodeDrop
  <2>3. ASSUME NEW m, NodeStart(m) \/ NodeReject(m) PROVE Uncancelled'
    <3>1. \E d \in {"Started", "Error"} : InTransit' \subseteq InTransit \cup {NewMessage(d, m.run, m.version)}
      BY <2>3, TakeTransit DEF NodeStart, NodeReject
    <3>2. \A d : ~NewMessage(d, m.run, m.version).cancel
      BY DEF NewMessage
    <3> QED
      BY <1>1, <2>1, <3>1, <3>2
  <2>4. ASSUME NEW j \in node, NodeDie(j) PROVE Uncancelled'
    <3>1. InTransit' = InTransit
      BY <2>4 DEF NodeDie, InTransit, Elements
    <3> QED
      BY <1>1, <2>1, <3>1
  <2>5. ASSUME NEW j \in node, NodeReport(j) PROVE Uncancelled'
    <3>1. j \in [run : Runs, version : Nat]
      BY DEF TypeOK, QueuesOK
    <3>2. PICK d \in {"Complete", "Error", "Skipped"} :
            \/ Send(NewMessage(d, j.run, j.version))
            \/ Send([NewMessage(d, j.run, j.version) EXCEPT !.retryIn = TRUE])
      BY <2>5 DEF NodeReport
    <3>3. NewMessage(d, j.run, j.version) \in Message /\ ~NewMessage(d, j.run, j.version).cancel
      BY <3>1, NewMessageType DEF Destination, Subscribed, NewMessage
    <3>4. /\ [NewMessage(d, j.run, j.version) EXCEPT !.retryIn = TRUE] \in Message
          /\ ~[NewMessage(d, j.run, j.version) EXCEPT !.retryIn = TRUE].cancel
      BY <3>3 DEF Message
    <3>5. PICK m \in Message : Send(m) /\ ~m.cancel
      BY <3>2, <3>3, <3>4
    <3>6. InTransit' \subseteq InTransit \cup {m}
      BY <2>5, <3>5, SendTransit DEF NodeReport
    <3> QED
      BY <1>1, <2>1, <3>5, <3>6
  <2> QED
    BY <1>6, <2>2, <2>3, <2>4, <2>5 DEF Node
<1> QED
  BY <1>2, <1>3, <1>4, <1>5, <1>6 DEF Next
-----------------------------------------------------------------------------
(***************************************************************************)
(* A step leaves a row's version and status, or whatever it makes of the   *)
(* row, nobody has a token for it any more.                                *)
(***************************************************************************)
SameRow(i) == i \in Ids /\ Job(db'[i]) = Job(db[i]) /\ db'[i].status = db[i].status
Quiet(i) == db'[i].status \in {"c", "s"} => \A k \in Holder : Job(db'[i]) \notin Tokens(k)'

LEMMA FiledQuiet ==
  ASSUME Sessions = {}, SentInv, UNCHANGED <<queue, inbox, node>>, lis'.pc # "report",
         NEW row, \A i \in Ids : db[i].run = row.run => db[i].version < row.version,
         \A i \in Ids : db[i].version \in Nat
  PROVE  \A k \in Holder : Job(row) \notin Tokens(k)'
<1>1. Job(row) \notin AboutRuns
  <2>1. ASSUME Job(row) \in AboutRuns PROVE FALSE
    <3>1. PICK i \in Ids : Job(db[i]) = Job(row)
      BY <2>1 DEF SentInv, Noted, JobsKept, Reducible, Kept
    <3>2. db[i].run = row.run /\ db[i].version = row.version
      BY <3>1 DEF Job
    <3> QED
      BY <3>2
  <2> QED
    BY <2>1
<1>2. \A k \in Holder : k # "listener" => Tokens(k)' = Tokens(k)
  BY TokensAre, TokensBecome DEF Holder
<1>3. Tokens("listener")' = {}
  BY TokensBecome
<1> QED
  BY <1>1, <1>2, <1>3, TokensSpoken

LEMMA ListenerRows ==
  ASSUME Sessions = {}, IInv, OneWriterInv, SentInv, TokenInv, Listener
  PROVE  /\ \A i \in Ids' : SameRow(i) \/ Quiet(i)
         /\ \A i \in Ids : db[i].status = "c" => i \in Ids' /\ db'[i].status = "c"
<1> USE DEF OneWriterInv
<1>0. /\ TypeOK /\ TableOK /\ \A i \in Ids : i # nextId /\ db[i].version \in Nat
      /\ AllDistinct /\ Disjoint /\ FiledFresh
  BY RowIdsAssumption DEF IInv, TypeOK, TableOK, NewRowsKept, RowsLinked, Row, TokenInv
<1>1. CASE UNCHANGED db
  BY <1>1 DEF SameRow, Ids
<1>2. CASE SaveRun \/ SaveRetry
  <2>1. PICK row : /\ db' = Saved(nextId, row) /\ row.run = lis.msg.run /\ row.version = lis.msg.version
    BY <1>2 DEF SaveRun, SaveRetry, NewRow
  <2>2. /\ lis.pc \in {"save", "retrySave"} /\ lis'.pc # "report"
        /\ UNCHANGED <<queue, inbox, node>>
    BY <1>2 DEF SaveRun, SaveRetry
  <2>3. \A k \in Holder : Job(row) \notin Tokens(k)'
    BY <1>0, <2>1, <2>2, FiledQuiet DEF VersionAbove
  <2>4. PICK n : n = nextId
    OBVIOUS
  <2>5. Ids' = Ids \cup {n} /\ db'[n] = row /\ n \notin Ids /\ \A j \in Ids : db'[j] = db[j]
    BY <1>0, <2>1, <2>4, SavedRows
  <2>6. Quiet(n) /\ \A j \in Ids : SameRow(j)
    BY <2>3, <2>5 DEF Quiet, SameRow
  <2> QED
    BY <2>5, <2>6
<1>3. CASE SaveReport /\ ~UNCHANGED db
  <2>1. PICK i \in Ids : /\ i = lis.id /\ Job(lis.copy) = Job(db[i]) /\ lis.copy \in Row
                         /\ lis.msg.dest \in Subscribed \ {"DataReady"}
                         /\ db[i].status \in Accepted(lis.msg.dest)
                         /\ lis.copy.status = Reported(lis.msg.dest)
                         /\ Job(lis.msg) = Job(lis.copy) /\ ~lis.msg.cancel
    BY <1>0, <1>3, ListenerByPc
       DEF SaveReport, RecordHeld, StatusHeld, Reporting, Job, TokenInv, ReportedJob, Uncancelled
  <2>2. lis.pc = "report" /\ db' = Saved(i, lis.copy)
    BY <1>3, <2>1 DEF SaveReport
  <2>3. Ids' = Ids /\ db'[i] = lis.copy /\ \A j \in Ids \ {i} : db'[j] = db[j]
    BY <2>2, SavedRows
  <2>4. CASE lis.msg.dest = "Started"
    <3>1. db[i].status \in {"e", "q"} /\ db'[i].status = "p"
      BY <2>1, <2>3, <2>4 DEF Accepted, Reported
    <3>2. Quiet(i) /\ \A j \in Ids \ {i} : SameRow(j)
      BY <2>3, <3>1 DEF Quiet, SameRow
    <3> QED
      BY <2>3, <3>1, <3>2
  <2>5. CASE lis.msg.dest # "Started"
    <3>1. IsToken(lis.msg)
      BY <2>1, <2>5 DEF IsToken, Subscribed
    <3>2. Job(db[i]) \in Tokens("listener") /\ "listener" \in Holder
      BY <2>1, <2>2, <3>1, TokensAre DEF Holder
    <3>3. db[i].status # "c"
      BY <3>2 DEF TokenInv, CompleteDone
    <3>4. lis'.pc # "report"
      <4>1. lis \in Reporting /\ (lis' = Waiting \/ lis' = Stopped \/ lis' = [lis EXCEPT !.pc = "retry"])
        BY <1>0, <1>3, <2>2, ListenerByPc DEF SaveReport, Return, Die
      <4> QED
        BY <4>1 DEF Reporting, Waiting, Stopped
    <3>5. ~(\E m : FindRun(m)) /\ ~Forward
      BY <2>2 DEF FindRun, Receive, Waiting, Forward
    <3>6. Shrinks
      BY <1>0, <3>5, ListenerTokens
    <3>7. \A k \in Holder : Job(db[i]) \notin Tokens(k)'
      <4>1. Tokens("listener")' = {}
        BY <3>4, TokensBecome
      <4> QED
        BY <3>2, <3>6, <4>1 DEF Shrinks, TokenInv, Disjoint
    <3>8. Quiet(i) /\ \A j \in Ids \ {i} : SameRow(j)
      BY <2>1, <2>3, <3>7 DEF Quiet, SameRow
    <3> QED
      BY <2>3, <3>3, <3>8
  <2> QED
    BY <2>4, <2>5
<1>4. CASE LinkRetry
  <2>1. PICK i \in Ids : i = lis.id /\ Job(lis.copy) = Job(db[i]) /\ db[i].status = lis.copy.status
    BY <1>4 DEF LinkRetry, RecordHeld, StatusHeld, Job
  <2>2. db' = Saved(i, lis.copy)
    BY <1>4, <2>1 DEF LinkRetry
  <2>3. Ids' = Ids /\ db'[i] = lis.copy /\ \A j \in Ids \ {i} : db'[j] = db[j]
    BY <2>2, SavedRows
  <2>4. \A j \in Ids : SameRow(j)
    BY <2>1, <2>3 DEF SameRow
  <2> QED
    BY <2>3, <2>4 DEF SameRow
<1>5. CASE RetryVariables /\ ~UNCHANGED db
  <2>1. PICK i \in Ids : i = lis.new /\ db[i].status = "q" /\ db' = Removed(i)
    BY <1>5 DEF RetryVariables, RetryQueued, ListenerHolds, IInv, NewRowsKept
  <2>2. Ids' = Ids \ {i} /\ \A j \in Ids' : SameRow(j)
    BY <1>0, <2>1, RemovedRows DEF SameRow, Job
  <2> QED
    BY <2>1, <2>2 DEF SameRow
<1>6. CASE ScriptMissing
  <2>1. lis.msg.version \in Nat
    BY <1>0, <1>6, ListenerByPc DEF ScriptMissing, Filing, Message
  <2>2. Matching(lis.msg) = {}
    BY <1>6, <2>1 DEF ScriptMissing, Matching, VersionAbove
  <2> QED
    BY <1>1, <1>6, <2>2 DEF ScriptMissing
<1>7. CASE \/ \E m : DataReady(m) \/ FindRun(m) \/ RefuseReport(m)
           \/ ReadVersion \/ ScriptFound \/ SaveDataLocation \/ CreateVariables \/ Forward
           \/ RetryRun \/ RetrySend
  <2>1. UNCHANGED db
    BY <1>7 DEF DataReady, FindRun, RefuseReport, ReadVersion, ScriptFound, SaveDataLocation,
                CreateVariables, Forward, RetryRun, RetrySend
  <2> QED
    BY <1>1, <2>1
<1> QED
  BY <1>1, <1>2, <1>3, <1>4, <1>5, <1>6, <1>7 DEF Listener

\* Where a step makes or hands on a token, it is not one of a run that is done.
LEMMA DoneKept ==
  ASSUME CompleteDone, SkippedDone, \A i \in Ids' : SameRow(i) \/ Quiet(i),
         \/ Shrinks
         \/ \E g, h, j : Passes(g, h, j)
         \/ \E h, j : /\ Makes(h, j)
                      /\ \A i \in Ids : Job(db[i]) = j => /\ db[i].status # "c"
                                                          /\ h # "Skipped" => db[i].status # "s"
  PROVE  CompleteDone' /\ SkippedDone'
<1>0. "Pending" \in Holder /\ "node" \in Holder /\ Tokens("node") = node /\ Tokens("node")' = node'
  BY TokensAre, TokensBecome DEF Destination, Holder
<1>1. ASSUME NEW i \in Ids', db'[i].status = "c", NEW k \in Holder
      PROVE  Job(db'[i]) \notin Tokens(k)'
  <2>1. CASE Quiet(i)
    BY <1>1, <2>1 DEF Quiet
  <2>2. CASE SameRow(i)
    <3>1. i \in Ids /\ db[i].status = "c" /\ Job(db'[i]) = Job(db[i])
          /\ \A h \in Holder : Job(db[i]) \notin Tokens(h)
      BY <1>1, <2>2 DEF SameRow, CompleteDone
    <3> QED
      BY <1>1, <3>1 DEF Shrinks, Passes, Makes, Gains
  <2> QED
    BY <2>1, <2>2
<1>2. ASSUME NEW i \in Ids', db'[i].status = "s", NEW k \in {"Pending", "node"}
      PROVE  Job(db'[i]) \notin Tokens(k)'
  <2>1. CASE Quiet(i)
    BY <1>0, <1>2, <2>1 DEF Quiet
  <2>2. CASE SameRow(i)
    <3>1. i \in Ids /\ db[i].status = "s" /\ Job(db'[i]) = Job(db[i])
          /\ \A h \in {"Pending", "node"} : Job(db[i]) \notin Tokens(h)
      BY <1>0, <1>2, <2>2 DEF SameRow, SkippedDone
    <3>2. k \in Holder /\ k # "Skipped"
      BY <1>0
    <3>3. CASE Shrinks
      BY <3>1, <3>2, <3>3 DEF Shrinks
    <3>4. ASSUME NEW g, NEW h, NEW j, Passes(g, h, j) PROVE Job(db[i]) \notin Tokens(k)'
      BY <3>1, <3>2, <3>4 DEF Passes, Gains
    <3>5. ASSUME NEW h, NEW j, Makes(h, j),
                 \A l \in Ids : Job(db[l]) = j => (h # "Skipped" => db[l].status # "s")
          PROVE  Job(db[i]) \notin Tokens(k)'
      BY <3>1, <3>2, <3>5 DEF Makes, Gains
    <3> QED
      BY <3>1, <3>3, <3>4, <3>5
  <2> QED
    BY <2>1, <2>2
<1>3. CompleteDone'
  BY <1>1 DEF CompleteDone, Holder, Tokens, TokensIn, IsToken, Job
<1>4. \A i \in Ids' : db'[i].status = "s" => Job(db'[i]) \notin Tokens("Pending")' \cup node'
  BY <1>0, <1>2
<1>5. SkippedDone'
  BY <1>4 DEF SkippedDone, Job, Tokens, TokensIn, IsToken
<1> QED
  BY <1>3, <1>5

\* What is forwarded is the run that was filed, queued or skipped.
LEMMA ForwardedRow ==
  ASSUME IInv, OneWriterInv, SentInv, TokenInv, Forward, NEW i \in Ids, Job(db[i]) = Job(lis.msg)
  PROVE  db[i].status = IF lis.paused THEN "s" ELSE "q"
<1>1. PICK n \in Ids : n = lis.id /\ Job(db[n]) = Job(lis.msg)
  BY DEF SentInv, FiledKept, Forward, Kept
<1>2. db[n].status = IF lis.paused THEN "s" ELSE "q"
  BY <1>1 DEF TokenInv, FiledFresh, Forward
<1>3. i = n
  BY <1>1 DEF OneWriterInv, UniqueVersions, Job
<1> QED
  BY <1>2, <1>3

LEMMA NothingSpoken ==
  ASSUME Sessions = {}, TypeOK, Addressed, [Next]_vars, ~Forward
  PROVE  AboutRuns' \subseteq AboutRuns
BY NextSends DEF SendsNothing

LEMMA FiledFreshStep ==
  ASSUME Sessions = {}, IInv, OneWriterInv, SentInv, TokenInv, [Next]_vars
  PROVE  FiledFresh'
<1>0. TypeOK /\ FiledFresh /\ OneWriterInv /\ Addressed
  BY DEF IInv, TokenInv, SentInv
<1>1. CASE lis'.pc \notin {"locate", "variables", "forward"}
  BY <1>1 DEF FiledFresh
<1>2. CASE lis'.pc \in {"locate", "variables", "forward"}
  <2>1. ~Forward
    BY <1>2 DEF Forward, Return, Waiting
  <2>2. AboutRuns' \subseteq AboutRuns
    BY <1>0, <2>1, NothingSpoken
  <2>3. ASSUME lis.pc \in {"locate", "variables", "forward"}, UNCHANGED db,
               lis'.msg = lis.msg, lis'.id = lis.id, lis'.paused = lis.paused
        PROVE  FiledFresh'
    <3>1. /\ Job(lis'.msg) \notin AboutRuns'
          /\ db'[lis'.id].status = IF lis'.paused THEN "s" ELSE "q"
      BY <1>0, <2>2, <2>3 DEF FiledFresh
    <3> QED
      BY <3>1 DEF FiledFresh, Job
  <2>4. CASE SaveRun
    <3>1. /\ lis.pc = "save" /\ lis'.msg = lis.msg /\ lis'.paused = lis.paused /\ lis'.id = nextId
          /\ UNCHANGED <<queue, inbox, node>>
          /\ db' = Saved(nextId, NewRow(lis.msg.run, lis.msg.version, IF lis.paused THEN "s" ELSE "q"))
      BY <2>4 DEF SaveRun
    <3>2. db'[nextId].status = IF lis.paused THEN "s" ELSE "q"
      <4>1. PICK row : row = NewRow(lis.msg.run, lis.msg.version, IF lis.paused THEN "s" ELSE "q")
        OBVIOUS
      <4>2. db'[nextId] = row
        BY <3>1, <4>1, SavedRows
      <4> QED
        BY <4>1, <4>2 DEF NewRow
    <3>3. Job(lis.msg) \notin AboutRuns
      <4>1. ASSUME Job(lis.msg) \in AboutRuns PROVE FALSE
        <5>1. PICK i \in Ids : Job(db[i]) = Job(lis.msg)
          BY <4>1 DEF SentInv, Noted, JobsKept, Reducible, Kept
        <5>2. db[i].run = lis.msg.run /\ db[i].version = lis.msg.version /\ db[i].version \in Nat
          BY <1>0, <5>1 DEF Job, TypeOK, TableOK, Row
        <5> QED
          BY <3>1, <5>2 DEF OneWriterInv, VersionAbove
      <4> QED
        BY <4>1
    <3>4. Job(lis'.msg) \notin AboutRuns'
      BY <2>2, <3>1, <3>3
    <3> QED
      BY <3>1, <3>2, <3>4 DEF FiledFresh, Job
  <2>5. CASE SaveDataLocation \/ CreateVariables
    <3>1. lis \in Filed /\ UNCHANGED db /\ lis.pc \in {"locate", "variables", "forward"}
      BY <1>0, <2>5, ListenerByPc DEF SaveDataLocation, CreateVariables
    <3>2. \E p : lis' = [lis EXCEPT !.pc = p]
      BY <1>2, <2>5 DEF SaveDataLocation, CreateVariables, Die, Stopped
    <3>3. lis'.msg = lis.msg /\ lis'.id = lis.id /\ lis'.paused = lis.paused
      BY <3>1, <3>2 DEF Filed
    <3> QED
      BY <2>3, <3>1, <3>3
  <2>6. CASE Listener /\ ~(SaveRun \/ SaveDataLocation \/ CreateVariables)
    <3>1. ASSUME NEW m, DataReady(m) \/ FindRun(m) \/ RefuseReport(m) PROVE FALSE
      BY <1>2, <3>1 DEF DataReady, FindRun, RefuseReport, Receive, Waiting
    <3>2. CASE ScriptMissing \/ SaveRetry
      BY <1>2, <3>2 DEF ScriptMissing, Return, Waiting, SaveRetry
    <3>3. CASE ReadVersion
      <4>1. PICK v : lis' = [lis EXCEPT !.pc = "script", !.msg.version = v]
        BY <3>3 DEF ReadVersion
      <4>2. lis'.pc = "script"
        BY <1>0, <3>3, <4>1, ListenerByPc DEF ReadVersion, Filing
      <4> QED
        BY <1>2, <4>2
    <3>4. CASE ScriptFound
      BY <1>0, <1>2, <3>4, ListenerByPc DEF ScriptFound, Filing
    <3>5. CASE RetryRun
      <4>1. PICK v : lis' = Waiting \/ lis' = [lis EXCEPT !.pc = "retrySave", !.msg.version = v]
        BY <3>5 DEF RetryRun, Return
      <4>2. CASE lis' = [lis EXCEPT !.pc = "retrySave", !.msg.version = v]
        BY <1>0, <1>2, <3>5, <4>2, ListenerByPc DEF RetryRun, Reporting
      <4> QED
        BY <1>2, <4>1, <4>2 DEF Waiting
    <3>6. CASE SaveReport \/ LinkRetry \/ RetryVariables \/ RetrySend
      <4>1. lis \in Reporting \cup Retrying
        BY <1>0, <3>6, ListenerByPc DEF SaveReport, LinkRetry, RetryVariables, RetrySend
      <4>2. \/ lis' = Waiting \/ lis' = Stopped
            \/ \E p \in {"retry", "retryVariables", "retrySend"} : lis' = [lis EXCEPT !.pc = p]
        BY <3>6 DEF SaveReport, LinkRetry, RetryVariables, RetrySend, Return, Die
      <4> QED
        BY <1>2, <4>1, <4>2 DEF Reporting, Retrying, Waiting, Stopped
    <3> QED
      BY <2>1, <2>6, <3>1, <3>2, <3>3, <3>4, <3>5, <3>6 DEF Listener
  <2>7. CASE ~Listener
    <3>1. UNCHANGED db /\ lis' \in {lis, Waiting, Stopped}
      BY <1>0, <2>7, OthersTokens DEF TokenInv
    <3> QED
      BY <1>2, <2>3, <3>1 DEF Waiting, Stopped
  <2> QED
    BY <2>4, <2>5, <2>6, <2>7
<1> QED
  BY <1>1, <1>2

LEMMA ReportedJobStep ==
  ASSUME Sessions = {}, TypeOK, Addressed, TokenInv, [Next]_vars
  PROVE  ReportedJob'
<1>1. ASSUME NEW m, FindRun(m) PROVE ReportedJob'
  <2>1. PICK i \in Ids : /\ db[i].run = m.run /\ db[i].version = m.version
                         /\ lis' = [pc |-> "report", msg |-> m, id |-> i,
                                    copy |-> [db[i] EXCEPT !.status = Reported(m.dest)]]
    BY <1>1, MatchingLeast DEF FindRun
  <2>2. Job(m) = Job([db[i] EXCEPT !.status = Reported(m.dest)])
    BY <2>1 DEF Job, TypeOK, TableOK, Row
  <2> QED
    BY <2>1, <2>2 DEF ReportedJob, Job
<1>2. CASE ~Listener
  <2>1. lis' \in {lis, Waiting, Stopped}
    BY <1>2, OthersTokens DEF TokenInv
  <2> QED
    BY <2>1 DEF ReportedJob, TokenInv, Waiting, Stopped, Job
<1>3. CASE Listener /\ ~(\E m : FindRun(m))
  <2>1. ASSUME NEW m, DataReady(m) \/ RefuseReport(m) PROVE lis'.pc # "report"
    BY <2>1 DEF DataReady, RefuseReport, Receive, Waiting
  <2>2. CASE ScriptMissing \/ SaveRun \/ SaveRetry \/ Forward
    BY <2>2 DEF ScriptMissing, Return, Waiting, SaveRun, SaveRetry, Forward, ReportedJob
  <2>3. CASE ReadVersion
    <3>1. PICK v : lis' = [lis EXCEPT !.pc = "script", !.msg.version = v]
      BY <2>3 DEF ReadVersion
    <3> QED
      BY <2>3, <3>1, ListenerByPc DEF ReadVersion, Filing, ReportedJob
  <2>4. CASE RetryRun
    <3>1. PICK v : lis' = Waiting \/ lis' = [lis EXCEPT !.pc = "retrySave", !.msg.version = v]
      BY <2>4 DEF RetryRun, Return
    <3>2. CASE lis' = [lis EXCEPT !.pc = "retrySave", !.msg.version = v]
      BY <2>4, <3>2, ListenerByPc DEF RetryRun, Reporting, ReportedJob
    <3> QED
      BY <3>1, <3>2 DEF Waiting, ReportedJob
  <2>5. CASE \/ ScriptFound \/ SaveDataLocation \/ CreateVariables
             \/ SaveReport \/ LinkRetry \/ RetryVariables \/ RetrySend
    <3>1. lis \in Filing \cup Filed \cup Reporting \cup Retrying
      BY <2>5, ListenerByPc DEF ScriptFound, SaveDataLocation, CreateVariables,
                                SaveReport, LinkRetry, RetryVariables, RetrySend
    <3>2. \/ lis' = Waiting \/ lis' = Stopped
          \/ \E p \in {"save", "variables", "forward", "retry", "retryVariables", "retrySend"} :
               lis' = [lis EXCEPT !.pc = p]
      BY <2>5 DEF ScriptFound, SaveDataLocation, CreateVariables,
                  SaveReport, LinkRetry, RetryVariables, RetrySend, Return, Die
    <3> QED
      BY <3>1, <3>2 DEF Filing, Filed, Reporting, Retrying, Waiting, Stopped, ReportedJob
  <2> QED
    BY <1>3, <2>1, <2>2, <2>3, <2>4, <2>5 DEF Listener, ReportedJob
<1> QED
  BY <1>1, <1>2, <1>3

LEMMA InboxHeardStep ==
  ASSUME Sessions = {}, TypeOK, Addressed, InboxHeard, [Next]_vars
  PROVE  InboxHeard'
<1>1. ASSUME Elements(inbox') \subseteq Elements(inbox) PROVE InboxHeard'
  BY <1>1 DEF InboxHeard, Elements
<1>2. ASSUME NEW d \in Subscribed, Dispatch(d) PROVE InboxHeard'
  <2>1. d \in Destination /\ queue[d] \in Seq(Message) /\ queue[d] # <<>> /\ inbox \in Seq(Message)
    BY <1>2 DEF Destination, TypeOK, QueuesOK, Dispatch
  <2>2. Head(queue[d]) \in Message /\ Head(queue[d]).dest = d
    BY <2>1, ElementsTail, FrameType DEF Addressed
  <2>3. Elements(inbox') \subseteq Elements(inbox) \cup {Head(queue[d])}
    BY <1>2, <2>1, <2>2, ElementsAppend DEF Dispatch
  <2>4. \A m \in Elements(inbox') : m.dest \in Subscribed
    BY <2>2, <2>3 DEF InboxHeard
  <2> QED
    BY <2>4 DEF InboxHeard, Elements
<1>3. ASSUME NEW m, DataReady(m) \/ FindRun(m) \/ RefuseReport(m) PROVE InboxHeard'
  <2>1. \E d : Receive(d, m)
    BY <1>3 DEF DataReady, FindRun, RefuseReport
  <2> QED
    BY <1>1, <2>1, ReceiveQuiet
<1>4. CASE CreateVariables \/ SaveReport \/ RetryVariables \/ RetrySend \/ Kill
  <2>1. Die \/ UNCHANGED inbox
    BY <1>4 DEF CreateVariables, SaveReport, RetryVariables, RetrySend, Kill
  <2> QED
    BY <1>1, <2>1, DieQuiet
<1>5. CASE \/ ReadVersion \/ ScriptFound \/ ScriptMissing \/ SaveRun \/ SaveDataLocation \/ Forward
           \/ RetryRun \/ SaveRetry \/ LinkRetry \/ TogglePause \/ Restart \/ UNCHANGED vars
           \/ \E r \in Runs : Submit(r)
  <2>1. UNCHANGED inbox
    BY <1>5 DEF ReadVersion, ScriptFound, ScriptMissing, SaveRun, SaveDataLocation, Forward,
                RetryRun, SaveRetry, LinkRetry, TogglePause, Restart, vars, Submit
  <2> QED
    BY <1>1, <2>1
<1>6. CASE Node
  <2>1. UNCHANGED inbox
    BY <1>6 DEF Node, NodeCancel, NodeDrop, NodeStart, NodeReject, NodeTake, NodeReport, NodeDie
  <2> QED
    BY <1>1, <2>1
<1> QED
  BY <1>2, <1>3, <1>4, <1>5, <1>6 DEF Next, Listener

LEMMA TokenInit ==
  ASSUME Init
  PROVE  TokenInv
<1>1. /\ db = [i \in {} |-> 0] /\ lis = Waiting /\ node = {} /\ inbox = <<>>
      /\ \A d \in Destination : queue[d] = <<>>
  BY DEF Init
<1>2. Ids = {} /\ InTransit = {}
  BY <1>1 DEF Ids, InTransit, Elements
<1>3. \A k \in Holder : Tokens(k) = {}
  BY <1>1, TokensAre DEF Holder, TokensIn, Waiting
<1>4. AllDistinct
  BY <1>1 DEF AllDistinct, Distinct
<1>5. FiledFresh /\ ReportedJob /\ Uncancelled /\ InboxHeard
  BY <1>1, <1>2 DEF FiledFresh, ReportedJob, Uncancelled, InboxHeard, Elements, Waiting
<1> QED
  BY <1>2, <1>3, <1>4, <1>5 DEF TokenInv, Disjoint, CompleteDone, SkippedDone

LEMMA TokenStep ==
  ASSUME Sessions = {}, IInv, OneWriterInv, SentInv, TokenInv, [Next]_vars
  PROVE  TokenInv'
<1>0. /\ TypeOK /\ Addressed /\ AllDistinct /\ Disjoint /\ FiledFresh
      /\ CompleteDone /\ SkippedDone /\ Uncancelled /\ InboxHeard
  BY DEF IInv, SentInv, TokenInv
<1>1. FiledFresh' /\ ReportedJob' /\ InboxHeard'
  BY <1>0, FiledFreshStep, ReportedJobStep, InboxHeardStep
<1>2. Uncancelled'
  BY <1>0, ListenerUncancelled, OthersUncancelled
<1>3. \/ Shrinks
      \/ \E g, h, j : Passes(g, h, j)
      \/ Forward /\ Makes("Skipped", Job(lis.msg))
      \/ Forward /\ ~lis.paused /\ Makes("Pending", Job(lis.msg))
  <2>1. CASE Listener
    BY <1>0, <2>1, ListenerTokens
  <2>2. CASE ~Listener
    BY <1>0, <2>2, OthersTokens
  <2> QED
    BY <2>1, <2>2
<1>4. \/ Shrinks
      \/ \E g, h, j : Passes(g, h, j)
      \/ \E h, j : /\ Makes(h, j)
                   /\ \A i \in Ids : Job(db[i]) = j => /\ db[i].status # "c"
                                                       /\ h # "Skipped" => db[i].status # "s"
  <2>1. CASE Forward /\ Makes("Skipped", Job(lis.msg))
    <3>1. \A i \in Ids : Job(db[i]) = Job(lis.msg) => db[i].status # "c"
      BY <2>1, ForwardedRow
    <3> QED
      BY <2>1, <3>1
  <2>2. CASE Forward /\ ~lis.paused /\ Makes("Pending", Job(lis.msg))
    <3>1. \A i \in Ids : Job(db[i]) = Job(lis.msg) => db[i].status = "q"
      BY <2>2, ForwardedRow
    <3>2. \A i \in Ids : Job(db[i]) = Job(lis.msg) => db[i].status # "c" /\ db[i].status # "s"
      BY <3>1
    <3> QED
      BY <2>2, <3>2
  <2> QED
    BY <1>3, <2>1, <2>2
<1>5. AllDistinct' /\ Disjoint'
  <2>1. AllDistinct'
    BY <1>4 DEF Shrinks, Passes, Makes, Gains
  <2> QED
    BY <1>0, <1>4, <2>1, HandingOnDisjoint
<1>6. \A i \in Ids' : SameRow(i) \/ Quiet(i)
  <2>1. CASE Listener
    BY <2>1, ListenerRows
  <2>2. CASE ~Listener
    <3>1. UNCHANGED db
      BY <1>0, <2>2, OthersTokens
    <3> QED
      BY <3>1 DEF SameRow, Ids
  <2> QED
    BY <2>1, <2>2
<1>7. CompleteDone' /\ SkippedDone'
  BY <1>0, <1>4, <1>6, DoneKept
<1> QED
  BY <1>1, <1>2, <1>5, <1>7 DEF TokenInv

LEMMA TokenInvariance ==
  ASSUME Sessions = {}
  PROVE  Spec => [](IInv /\ OneWriterInv /\ SentInv /\ TokenInv)
<1>1. Init => OneWriterInv /\ TokenInv
  BY OneWriterInit, TokenInit
<1>2. IInv /\ OneWriterInv /\ [Next]_vars => OneWriterInv'
  BY OneWriterStep
<1>3. IInv /\ OneWriterInv /\ SentInv /\ TokenInv /\ [Next]_vars => TokenInv'
  BY TokenStep
<1> QED
  BY <1>1, <1>2, <1>3, Invariance, SentInvariance, PTL DEF Spec

(***************************************************************************)
(* With one writer nothing is reduced twice: of a version there is one     *)
(* message or job at most, whatever is killed and restarted.               *)
(***************************************************************************)
THEOREM ReducedOnceAlone ==
  ASSUME Sessions = {}
  PROVE  Spec => []ReducedOnce
<1>1. Addressed /\ TypeOK /\ TokenInv => ReducedOnce
  <2> SUFFICES ASSUME Addressed, TypeOK, AllDistinct, Disjoint,
                      NEW k \in DOMAIN queue["Pending"], ~queue["Pending"][k].cancel
               PROVE  /\ Job(queue["Pending"][k]) \notin node
                      /\ \A l \in DOMAIN queue["Pending"] :
                           l # k /\ ~queue["Pending"][l].cancel =>
                             Job(queue["Pending"][l]) # Job(queue["Pending"][k])
    BY DEF ReducedOnce, TokenInv
  <2>1. "Pending" \in Destination
    BY DEF Destination
  <2>2. \A l \in DOMAIN queue["Pending"] : ~queue["Pending"][l].cancel => IsToken(queue["Pending"][l])
    BY <2>1 DEF Addressed, Elements, IsToken
  <2>3. Job(queue["Pending"][k]) \in Tokens("Pending")
    BY <2>1, <2>2, TokensAre DEF TokensIn
  <2>4. Job(queue["Pending"][k]) \notin node
    BY <2>1, <2>3, TokensAre DEF Disjoint, Holder
  <2> QED
    BY <2>1, <2>2, <2>4 DEF AllDistinct, Distinct
<1> QED
  BY <1>1, TokenInvariance, PTL DEF IInv, SentInv

(***************************************************************************)
(* With one writer a run whose status is skipped has no message or job     *)
(* that would reduce it: the pause is looked at once, and a run that is    *)
(* reported as skipped has been reduced already.                           *)
(***************************************************************************)
THEOREM SkippedNotReducedAlone ==
  ASSUME Sessions = {}
  PROVE  Spec => []SkippedNotReduced
<1>1. Addressed /\ TypeOK /\ TokenInv => SkippedNotReduced
  <2> SUFFICES ASSUME Addressed, TypeOK, SkippedDone, InboxHeard,
                      NEW i \in Ids, db[i].status = "s",
                      NEW j \in node \cup {Job(m) : m \in Reductions},
                      j.run = db[i].run, j.version = db[i].version
               PROVE  FALSE
    BY DEF SkippedNotReduced, TokenInv
  <2>1. j = Job(db[i])
    <3>1. CASE j \in node
      BY <3>1 DEF TypeOK, QueuesOK, Job
    <3>2. CASE \E m \in Reductions : j = Job(m)
      BY <3>2 DEF Job
    <3> QED
      BY <3>1, <3>2
  <2>2. ASSUME NEW m \in Reductions PROVE Job(m) \in Tokens("Pending")
    <3>1. m \in InTransit /\ m.dest = "Pending" /\ IsToken(m)
      BY DEF Reductions, IsToken
    <3>2. m \notin Elements(inbox) /\ "Pending" \in Destination
      BY <3>1 DEF InboxHeard, Subscribed, Destination
    <3>3. m \in Elements(queue["Pending"])
      BY <3>1, <3>2 DEF InTransit, Addressed
    <3> QED
      BY <3>1, <3>2, <3>3, TokensAre DEF Elements, TokensIn
  <2> QED
    BY <2>1, <2>2 DEF SkippedDone
<1> QED
  BY <1>1, TokenInvariance, PTL DEF IInv, SentInv

(***************************************************************************)
(* With one writer a completed run stays on record as completed: a late    *)
(* error, a restart or a retry neither changes its status nor removes it.  *)
(***************************************************************************)
THEOREM CompletedStaysAlone ==
  ASSUME Sessions = {}
  PROVE  Spec => CompletedStays
<1> DEFINE Stays == \A i \in Ids : db[i].status = "c" => i \in DOMAIN db' /\ db'[i].status = "c"
<1>1. IInv /\ OneWriterInv /\ SentInv /\ TokenInv /\ [Next]_vars => [Stays]_vars
  <2> SUFFICES ASSUME IInv, OneWriterInv, SentInv, TokenInv, [Next]_vars
               PROVE  Stays
    OBVIOUS
  <2>1. CASE Listener
    BY <2>1, ListenerRows DEF Ids
  <2>2. CASE ~Listener
    <3>1. UNCHANGED db
      BY <2>2, OthersTokens DEF IInv, SentInv, TokenInv
    <3> QED
      BY <3>1 DEF Ids
  <2> QED
    BY <2>1, <2>2
<1> QED
  BY <1>1, TokenInvariance, PTL DEF Spec, CompletedStays
-----------------------------------------------------------------------------
(***************************************************************************)
(* With the listener alone, and no retries asked for, no row names another *)
(* one, so no report is refused, and no queued run is forgotten.           *)
(***************************************************************************)
Unlinked == (\A i \in Ids : db[i].retry = 0) /\ (lis.pc = "report" => lis.copy.retry = 0)

AloneInv == Budgeted /\ NoRetryAsked /\ Unlinked

LEMMA UnlinkedStep ==
  ASSUME Sessions = {}, IInv, NoRetryAsked, Unlinked, [Next]_vars
  PROVE  Unlinked'
<1>0. TypeOK
  BY DEF IInv
<1>1. ASSUME UNCHANGED db PROVE \A i \in Ids' : db'[i].retry = 0
  BY <1>1 DEF Unlinked, Ids
<1>2. ASSUME NEW i, NEW row, db' = Saved(i, row), row.retry = 0 PROVE \A j \in Ids' : db'[j].retry = 0
  BY <1>2, SavedRows DEF Unlinked
<1>3. \A j \in Ids' : db'[j].retry = 0
  <2>1. CASE Listener
    <3>1. ASSUME NEW m, DataReady(m) \/ FindRun(m) \/ RefuseReport(m) PROVE UNCHANGED db
      BY <3>1 DEF DataReady, FindRun, RefuseReport
    <3>2. ASSUME ReadVersion \/ ScriptFound \/ SaveDataLocation \/ CreateVariables \/ Forward PROVE UNCHANGED db
      BY <3>2 DEF ReadVersion, ScriptFound, SaveDataLocation, CreateVariables, Forward
    <3>3. CASE ScriptMissing
      <4> DEFINE i == LeastId(Matching(lis.msg))
                 row == [db[i] EXCEPT !.status = "e"]
      <4>1. UNCHANGED db \/ (Matching(lis.msg) # {} /\ db' = Saved(i, row))
        BY <3>3 DEF ScriptMissing
      <4>2. ASSUME Matching(lis.msg) # {} PROVE row.retry = 0
        <5>1. i \in Ids /\ db[i] \in Row
          BY <1>0, <4>2, MatchingLeast DEF TypeOK, TableOK
        <5> QED
          BY <5>1 DEF Row, Unlinked
      <4> HIDE DEF row, i
      <4> QED
        BY <1>1, <1>2, <4>1, <4>2
    <3>4. CASE SaveRun
      <4>1. PICK row : row = NewRow(lis.msg.run, lis.msg.version, IF lis.paused THEN "s" ELSE "q")
        OBVIOUS
      <4>2. row.retry = 0 /\ db' = Saved(nextId, row)
        BY <3>4, <4>1 DEF SaveRun, NewRow
      <4> QED
        BY <1>2, <4>2
    <3>5. CASE SaveReport
      BY <1>1, <1>2, <3>5 DEF SaveReport, Unlinked
    <3>6. CASE RetryRun \/ SaveRetry \/ LinkRetry \/ RetryVariables \/ RetrySend
      BY <3>6 DEF NoRetryAsked, RetryRun, SaveRetry, LinkRetry, RetryVariables, RetrySend
    <3> QED
      BY <1>1, <2>1, <3>1, <3>2, <3>3, <3>4, <3>5, <3>6 DEF Listener
  <2>2. CASE Node
    BY <1>1, <2>2 DEF Node, NodeCancel, NodeDrop, NodeStart, NodeReject, NodeTake, NodeReport, NodeDie
  <2>3. CASE \/ \E r \in Runs : Submit(r)
             \/ \E d \in Subscribed : Dispatch(d)
             \/ TogglePause \/ Kill \/ Restart \/ UNCHANGED vars
    BY <1>1, <2>3 DEF Submit, Dispatch, TogglePause, Kill, Restart, vars
  <2> QED
    BY <2>1, <2>2, <2>3 DEF Next
<1>4. ASSUME lis'.pc = "report" PROVE lis'.copy.retry = 0
  <2>1. ASSUME NEW m, FindRun(m) PROVE lis'.copy.retry = 0
    <3> DEFINE i == LeastId(Matching(m))
    <3>1. i \in Ids /\ db[i] \in Row
      BY <1>0, <2>1, MatchingLeast DEF FindRun, TypeOK, TableOK
    <3>2. lis'.copy = [db[i] EXCEPT !.status = Reported(m.dest)]
      BY <2>1 DEF FindRun
    <3>3. lis'.copy.retry = db[i].retry
      BY <3>1, <3>2 DEF Row
    <3> QED
      BY <3>1, <3>3 DEF Unlinked
  <2> QED
    BY <1>4, <2>1, ReportFound DEF Unlinked
<1> QED
  BY <1>3, <1>4 DEF Unlinked

(***************************************************************************)
(* With the listener as the only writer, and no reduction that asks for a  *)
(* retry, no queued run is forgotten (QueuedNotForgotten): data_ready and  *)
(* the reports hand every run on, in whatever order they arrive.           *)
(***************************************************************************)
THEOREM QueuedNotForgottenAlone ==
  ASSUME Sessions = {}, MaxRetries = 0
  PROVE  Spec => []QueuedNotForgotten
<1>1. Init => AloneInv
  <2> SUFFICES ASSUME Init PROVE AloneInv
    OBVIOUS
  <2>1. Budgeted /\ NoRetryAsked
    BY RememberedInit DEF HeldInv
  <2>2. Ids = {} /\ lis.pc = "wait"
    BY DEF Init, Ids, Waiting
  <2> QED
    BY <2>1, <2>2 DEF AloneInv, Unlinked
<1>2. IInv /\ SentInv /\ AloneInv /\ [Next]_vars => AloneInv'
  <2> SUFFICES ASSUME IInv, SentInv, AloneInv, [Next]_vars PROVE AloneInv'
    OBVIOUS
  <2>1. Budgeted' /\ ~Spend("retries")
    BY BudgetedStep DEF IInv, AloneInv
  <2>2. NoRetryAsked'
    BY <2>1, NoRetryStep DEF AloneInv, SentInv
  <2> QED
    BY <2>1, <2>2, UnlinkedStep DEF AloneInv
<1>3. UniqueVersions /\ AloneInv => (Unharmed => Orderly)
  BY DEF AloneInv, Unlinked, Orderly, Dangling
<1>4. OneSession
  BY DEF OneSession
<1> QED
  BY <1>1, <1>2, <1>3, <1>4, Invariance, SentInvariance, UniqueVersionsAlone, QueuedIsRemembered, PTL DEF Spec
=============================================================================
