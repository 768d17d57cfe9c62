------------------------ MODULE QueueProcessor_proofs ------------------------
(***************************************************************************)
(* Theorems about QueueProcessor, for every set of runs, of sessions and   *)
(* of row identifiers and for every bound: its types and what rows and     *)
(* versions rest on, what has been sent, and, with one session at most,    *)
(* that a queued run is not forgotten.                                     *)
(***************************************************************************)
EXTENDS QueueProcessor, Extrema, TLAPS

-----------------------------------------------------------------------------
LEMMA LeastIdLeast ==
  ASSUME NEW S \in SUBSET Nat, S # {}
  PROVE  LeastId(S) \in S /\ \A j \in S : LeastId(S) <= j
BY LeastExists DEF LeastId

(***************************************************************************)
(* The next version is above every version filed for the run.              *)
(***************************************************************************)
LEMMA NextVersionAbove ==
  ASSUME TypeOK, NEW r, NEW n \in Nat, \A i \in Ids : db[i].version < n
  PROVE  /\ NextVersion(r) \in Nat /\ NextVersion(r) <= n
         /\ \A i \in VersionsOf(r) : db[i].version < NextVersion(r)
<1>1. CASE VersionsOf(r) = {}
  BY <1>1 DEF NextVersion
<1>2. CASE VersionsOf(r) # {}
  <2> DEFINE V == {db[i].version : i \in VersionsOf(r)}
  <2>1. \A i \in Ids : db[i].version \in Nat
    BY DEF TypeOK, TableOK, Row
  <2>2. V \in SUBSET Nat /\ V # {} /\ \A v \in V : v <= n
    BY <1>2, <2>1 DEF VersionsOf
  <2>3. \E v \in V : \A u \in V : u <= v
    BY <2>2, GreatestExists
  <2>4. \E v \in V : \A i \in VersionsOf(r) : db[i].version <= v
    BY <2>3
  <2> DEFINE m == CHOOSE v \in V : \A i \in VersionsOf(r) : db[i].version <= v
  <2>5. m \in V /\ \A i \in VersionsOf(r) : db[i].version <= m
    BY <2>4
  <2>6. NextVersion(r) = m + 1
    BY <1>2 DEF NextVersion
  <2>7. m \in Nat /\ m < n
    BY <2>1, <2>2, <2>5 DEF VersionsOf
  <2> HIDE DEF m
  <2> QED
    BY <2>1, <2>5, <2>6, <2>7 DEF VersionsOf
<1> QED
  BY <1>1, <1>2

\* The version before the next one is filed.
LEMMA LatestExists ==
  ASSUME TypeOK, NEW r, VersionsOf(r) # {}, NEW n \in Nat, \A i \in Ids : db[i].version < n
  PROVE  \E i \in VersionsOf(r) : db[i].version = NextVersion(r) - 1
<1> DEFINE V == {db[i].version : i \in VersionsOf(r)}
<1>1. \A i \in Ids : db[i].version \in Nat
  BY DEF TypeOK, TableOK, Row
<1>2. V \in SUBSET Nat /\ V # {} /\ \A v \in V : v <= n
  BY <1>1 DEF VersionsOf
<1>3. \E v \in V : \A i \in VersionsOf(r) : db[i].version <= v
  BY <1>2, GreatestExists
<1> DEFINE m == CHOOSE v \in V : \A i \in VersionsOf(r) : db[i].version <= v
<1>4. m \in V /\ NextVersion(r) = m + 1
  BY <1>3 DEF NextVersion
<1>5. m \in Nat
  BY <1>2, <1>4
<1> HIDE DEF m
<1>6. NextVersion(r) - 1 = m
  BY <1>4, <1>5
<1> QED
  BY <1>4, <1>6
-----------------------------------------------------------------------------
(***************************************************************************)
(* What the queues, the table and the helpers on them are made of.         *)
(***************************************************************************)
LEMMA NewMessageType ==
  ASSUME NEW d \in Destination, NEW r \in Runs, NEW v \in Nat
  PROVE  NewMessage(d, r, v) \in Message
BY DEF NewMessage, Message

LEMMA NewRowType ==
  ASSUME NEW r \in Runs, NEW v \in Nat, NEW s \in StatusValue
  PROVE  NewRow(r, v, s) \in Row
BY DEF NewRow, Row

LEMMA SendType ==
  ASSUME TypeOK, NEW m \in Message, Send(m)
  PROVE  queue' \in [Destination -> Seq(Message)]
<1>1. m.dest \in Destination
  BY DEF Message
<1>2. queue[m.dest] \in Seq(Message)
  BY <1>1 DEF TypeOK, QueuesOK
<1>3. Append(queue[m.dest], m) \in Seq(Message)
  BY <1>2
<1> QED
  BY <1>1, <1>3 DEF TypeOK, QueuesOK, Send

LEMMA SpendType ==
  ASSUME TypeOK, NEW b \in {"ready", "posts", "retries", "faults"}, Spend(b)
  PROVE  budget' \in [{"ready", "posts", "retries", "faults"} -> Nat]
BY DEF TypeOK, QueuesOK, Spend

LEMMA FrameType ==
  ASSUME NEW q \in Seq(Message), q # <<>>
  PROVE  Head(q) \in Message /\ Tail(q) \in Seq(Message)
OBVIOUS

\* What save() and delete() do to the table.
LEMMA SavedRows ==
  ASSUME NEW i, NEW row, db' = Saved(i, row)
  PROVE  /\ Ids' = Ids \cup {i} /\ db'[i] = row
         /\ \A j \in Ids \ {i} : db'[j] = db[j]
BY DEF Ids, Saved

LEMMA RemovedRows ==
  ASSUME TypeOK, NEW i, db' = Removed(i)
  PROVE  /\ Ids' = Ids \ {i}
         /\ \A j \in Ids' :
              /\ db'[j] \in Row
              /\ db'[j].run = db[j].run /\ db'[j].version = db[j].version
              /\ db'[j].status = db[j].status
              /\ db'[j].retry = 0 \/ (db'[j].retry = db[j].retry /\ db[j].retry # i)
<1>1. Ids' = Ids \ {i}
  BY DEF Ids, Removed
<1>2. ASSUME NEW j \in Ids'
      PROVE  /\ db'[j] \in Row
             /\ db'[j].run = db[j].run /\ db'[j].version = db[j].version
             /\ db'[j].status = db[j].status
             /\ db'[j].retry = 0 \/ (db'[j].retry = db[j].retry /\ db[j].retry # i)
  <2>1. db[j] \in Row
    BY <1>1 DEF TypeOK, TableOK
  <2>2. db'[j] = IF db[j].retry = i THEN [db[j] EXCEPT !.retry = 0] ELSE db[j]
    BY <1>1 DEF Ids, Removed
  <2>3. CASE db[j].retry = i
    BY <2>1, <2>2, <2>3 DEF Row
  <2>4. CASE db[j].retry # i
    BY <2>1, <2>2, <2>4
  <2> QED
    BY <2>3, <2>4
<1> QED
  BY <1>1, <1>2

LEMMA MatchingLeast ==
  ASSUME TypeOK, NEW m, Matching(m) # {}
  PROVE  /\ LeastId(Matching(m)) \in Ids
         /\ db[LeastId(Matching(m))].run = m.run
         /\ db[LeastId(Matching(m))].version = m.version
<1>1. Matching(m) \in SUBSET Nat
  BY RowIdsAssumption DEF TypeOK, TableOK, Matching
<1>2. LeastId(Matching(m)) \in Matching(m)
  BY <1>1, LeastIdLeast
<1> QED
  BY <1>2 DEF Matching
-----------------------------------------------------------------------------
(***************************************************************************)
(* The inductive invariant behind the types.  The highest version of a run *)
(* exists because there are no more versions than row identifiers given    *)
(* out; a row's retry_run can be followed because the new row of a retry   *)
(* belongs to the actor that created it until it has been linked.          *)
(***************************************************************************)
SessionVersions(w) ==
  /\ web[w].pc \in {"cancel", "setCancelled", "saveBoth"} =>
       web[w].copy.version < nextId /\ web[w].retry.version < nextId
  /\ web[w].pc \in {"hide", "version", "create", "link"} => web[w].copy.version < nextId
  /\ web[w].pc = "create" => web[w].version <= nextId

VersionsBounded ==
  /\ \A i \in Ids : db[i].version < nextId
  /\ lis.pc \in {"script", "save", "retrySave"} => lis.msg.version <= nextId
  /\ lis.pc \in {"report", "retry", "retrySave", "retryLink"} => lis.copy.version < nextId
  /\ \A w \in Sessions : SessionVersions(w)

ListenerHolds == lis.pc \in {"retryLink", "retryVariables", "retrySend"}
Holds(w) == web[w].pc \in {"link", "variables", "send"}

RowsLinked == \A i \in Ids : i < nextId /\ ~Dangling(db[i])

NewRowsKept ==
  /\ RowsLinked
  /\ ListenerHolds => lis.new \in Ids
  /\ lis.pc = "retryLink" => lis.copy.retry = lis.new
  /\ \A w \in Sessions : Holds(w) =>
       /\ web[w].new \in Ids
       /\ web[w].pc = "link" => web[w].copy.retry = web[w].new
       /\ ListenerHolds => web[w].new # lis.new
       /\ \A v \in Sessions \ {w} : Holds(v) => web[v].new # web[w].new

\* Rows are saved under identifiers that the database has given out.
SessionIds(w) ==
  /\ web[w].pc \in {"cancel", "setCancelled", "saveBoth", "hide", "version", "create", "link"} =>
       web[w].id \in RowIds /\ web[w].id < nextId
  /\ web[w].pc \in {"cancel", "setCancelled"} =>
       web[w].target \in RowIds /\ web[w].target < nextId

IdsGivenOut ==
  /\ lis.pc \in {"report", "retry", "retrySave", "retryLink"} => lis.id \in RowIds /\ lis.id < nextId
  /\ \A w \in Sessions : SessionIds(w)

IInv == TypeOK /\ VersionsBounded /\ NewRowsKept /\ IdsGivenOut
-----------------------------------------------------------------------------
(***************************************************************************)
(* What the listener and a session hold at each step.                      *)
(***************************************************************************)
LEMMA ListenerByPc ==
  ASSUME TypeOK
  PROVE  /\ lis.pc \in {"version", "script", "save"} => lis \in Filing
         /\ lis.pc \in {"locate", "variables", "forward"} => lis \in Filed
         /\ lis.pc \in {"report", "retry", "retrySave"} => lis \in Reporting
         /\ lis.pc \in {"retryLink", "retryVariables", "retrySend"} => lis \in Retrying
BY DEF TypeOK, ListenerState, Waiting, Stopped, Filing, Filed, Reporting, Retrying

LEMMA SessionByPc ==
  ASSUME TypeOK, NEW w \in Sessions
  PROVE  /\ web[w].pc = "page" => web[w] \in Showing
         /\ web[w].pc \in {"cancel", "setCancelled", "saveBoth"} => web[w] \in Cancelling
         /\ web[w].pc = "hide" => web[w] \in Hiding
         /\ web[w].pc = "version" => web[w] \in Rerunning
         /\ web[w].pc = "create" => web[w] \in Creating
         /\ web[w].pc \in {"link", "variables", "send"} => web[w] \in Sending
<1>1. web[w] \in SessionState
  BY DEF TypeOK
<1> QED
  BY <1>1 DEF SessionState, NoPage, Showing, Hiding, Cancelling, Rerunning, Creating, Sending

LEMMA SavedTable ==
  ASSUME TableOK, NEW i \in RowIds, NEW row \in Row, db' = Saved(i, row),
         nextId' \in {nextId, nextId + 1}, located' \subseteq Nat, paused' = paused
  PROVE  TableOK'
BY SavedRows DEF TableOK

LEMMA RemovedTable ==
  ASSUME TypeOK, NEW i, db' = Removed(i), nextId' = nextId, located' \subseteq Nat, paused' = paused
  PROVE  TableOK'
BY RemovedRows DEF TypeOK, TableOK


(***************************************************************************)
(* Every step of the listener preserves the types.                         *)
(***************************************************************************)
LEMMA MessageChanged ==
  ASSUME NEW m \in Message
  PROVE  /\ \A v \in Nat : [m EXCEPT !.version = v] \in Message
         /\ \A d \in Destination : [m EXCEPT !.dest = d] \in Message
         /\ m.run \in Runs /\ m.version \in Nat /\ m.dest \in Destination
BY DEF Message

LEMMA RowChanged ==
  ASSUME NEW row \in Row
  PROVE  /\ \A s \in StatusValue : [row EXCEPT !.status = s] \in Row
         /\ \A n \in Nat : [row EXCEPT !.retry = n] \in Row
         /\ \A b \in BOOLEAN : [row EXCEPT !.cancel = b] \in Row
         /\ row.run \in Runs /\ row.version \in Nat /\ row.status \in StatusValue
         /\ row.cancel \in BOOLEAN /\ row.retry \in Nat
BY DEF Row

LEMMA NothingReceived ==
  <<>> \in Seq(Message)
OBVIOUS

LEMMA ListenerType ==
  ASSUME IInv, Listener
  PROVE  TypeOK'
<1> USE DEF IInv
<1>0. TypeOK /\ TableOK /\ QueuesOK
  BY DEF TypeOK
<1>1. ASSUME NEW m, DataReady(m) PROVE TypeOK'
  <2>1. m \in Message /\ inbox' \in Seq(Message)
    BY <1>0, <1>1, FrameType DEF DataReady, Receive, QueuesOK
  <2>2. lis' \in Filing
    BY <1>0, <1>1, <2>1 DEF DataReady, Filing, TableOK
  <2> QED
    BY <1>0, <1>1, <2>1, <2>2 DEF DataReady, TypeOK, TableOK, QueuesOK, ListenerState, Ids
<1>2. ASSUME NEW m, FindRun(m) PROVE TypeOK'
  <2>1. m \in Message /\ inbox' \in Seq(Message)
    BY <1>0, <1>2, FrameType DEF FindRun, Receive, QueuesOK
  <2> DEFINE i == LeastId(Matching(m))
  <2>2. i \in Ids /\ i \in Nat /\ db[i] \in Row
    BY <1>0, <1>2, MatchingLeast, RowIdsAssumption DEF FindRun, TableOK
  <2>3. [db[i] EXCEPT !.status = Reported(m.dest)] \in Row
    BY <2>2, RowChanged DEF Reported, StatusValue
  <2> HIDE DEF i
  <2>4. lis' \in Reporting
    BY <1>2, <2>1, <2>2, <2>3 DEF FindRun, Reporting, i
  <2> QED
    BY <1>0, <1>2, <2>1, <2>4 DEF FindRun, TypeOK, TableOK, QueuesOK, ListenerState, Ids
<1>3. ASSUME NEW m, RefuseReport(m) PROVE TypeOK'
  BY <1>0, <1>3, FrameType DEF RefuseReport, Receive, TypeOK, TableOK, QueuesOK, Ids
<1>4. CASE ReadVersion
  <2>1. NextVersion(lis.msg.run) \in Nat
    BY <1>0, NextVersionAbove DEF VersionsBounded, TableOK
  <2>2. lis \in Filing
    BY <1>0, <1>4, ListenerByPc DEF ReadVersion
  <2>3. lis' \in Filing
    BY <1>4, <2>1, <2>2, MessageChanged DEF ReadVersion, Filing
  <2> QED
    BY <1>0, <1>4, <2>3 DEF ReadVersion, TypeOK, TableOK, QueuesOK, ListenerState, Ids
<1>5. CASE ScriptFound
  <2>1. lis \in Filing
    BY <1>0, <1>5, ListenerByPc DEF ScriptFound
  <2>2. lis' \in Filing
    BY <1>5, <2>1 DEF ScriptFound, Filing
  <2> QED
    BY <1>0, <1>5, <2>2 DEF ScriptFound, TypeOK, TableOK, QueuesOK, ListenerState, Ids
<1>6. CASE ScriptMissing
  <2>1. QueuesOK'
    BY <1>0, <1>6, SpendType DEF ScriptMissing, QueuesOK
  <2>2. TableOK'
    <3>1. CASE Matching(lis.msg) = {}
      BY <1>0, <1>6, <3>1 DEF ScriptMissing, TableOK, Ids
    <3>2. CASE Matching(lis.msg) # {}
      <4> DEFINE i == LeastId(Matching(lis.msg))
      <4>1. i \in Ids /\ i \in RowIds /\ db[i] \in Row
        BY <1>0, <3>2, MatchingLeast DEF TableOK
      <4>2. [db[i] EXCEPT !.status = "e"] \in Row
        BY <4>1, RowChanged DEF StatusValue
      <4>3. db' = Saved(i, [db[i] EXCEPT !.status = "e"])
        BY <1>6, <3>2 DEF ScriptMissing
      <4> HIDE DEF i
      <4> QED
        BY <1>0, <1>6, <4>1, <4>2, <4>3, SavedTable DEF ScriptMissing, TableOK
    <3> QED
      BY <3>1, <3>2
  <2> QED
    BY <1>0, <1>6, <2>1, <2>2 DEF ScriptMissing, Return, TypeOK, ListenerState
<1>7. CASE SaveRun
  <2>1. lis \in Filing
    BY <1>0, <1>7, ListenerByPc DEF SaveRun
  <2>2. NewRow(lis.msg.run, lis.msg.version, IF lis.paused THEN "s" ELSE "q") \in Row
    BY <2>1, NewRowType, MessageChanged DEF Filing, StatusValue
  <2>3. TableOK'
    BY <1>0, <1>7, <2>2, SavedTable DEF SaveRun, TableOK
  <2>4. lis' \in Filed
    BY <1>0, <1>7, <2>1 DEF SaveRun, Filing, Filed, TableOK
  <2> QED
    BY <1>0, <1>7, <2>3, <2>4 DEF SaveRun, TypeOK, QueuesOK, ListenerState
<1>8. CASE SaveDataLocation
  <2>1. lis \in Filed
    BY <1>0, <1>8, ListenerByPc DEF SaveDataLocation
  <2>2. lis' \in Filed /\ located' \subseteq Nat
    BY <1>0, <1>8, <2>1 DEF SaveDataLocation, Filed, TableOK
  <2> QED
    BY <1>0, <1>8, <2>2 DEF SaveDataLocation, TypeOK, TableOK, QueuesOK, ListenerState, Ids
<1>9. CASE CreateVariables
  <2>1. lis \in Filed
    BY <1>0, <1>9, ListenerByPc DEF CreateVariables
  <2>2. lis' \in ListenerState
    BY <1>9, <2>1 DEF CreateVariables, Die, Filed, ListenerState
  <2>3. inbox' \in Seq(Message) /\ budget' \in [{"ready", "posts", "retries", "faults"} -> Nat]
    BY <1>0, <1>9, SpendType, NothingReceived DEF CreateVariables, Die, QueuesOK
  <2> QED
    BY <1>0, <1>9, <2>2, <2>3 DEF CreateVariables, TypeOK, TableOK, QueuesOK, Ids
<1>10. CASE Forward
  <2>1. lis.msg \in Message
    BY <1>0, <1>10, ListenerByPc DEF Forward, Filed
  <2>2. /\ [lis.msg EXCEPT !.dest = "Skipped"] \in Message
        /\ [lis.msg EXCEPT !.dest = "Pending"] \in Message
    BY <2>1, MessageChanged DEF Destination, Subscribed
  <2>3. \/ UNCHANGED queue
        \/ Send([lis.msg EXCEPT !.dest = "Skipped"])
        \/ Send([lis.msg EXCEPT !.dest = "Pending"])
    BY <1>10 DEF Forward
  <2>4. queue' \in [Destination -> Seq(Message)]
    BY <1>0, <2>2, <2>3, SendType DEF QueuesOK
  <2> QED
    BY <1>0, <1>10, <2>4 DEF Forward, Return, TypeOK, TableOK, QueuesOK, ListenerState, Ids
<1>11. CASE SaveReport
  <2>1. lis \in Reporting /\ lis.id \in RowIds
    BY <1>0, <1>11, ListenerByPc DEF SaveReport, IdsGivenOut
  <2>2. TableOK'
    <3>1. CASE UNCHANGED db
      BY <1>0, <1>11, <3>1 DEF SaveReport, TableOK, Ids
    <3>2. CASE db' = Saved(lis.id, lis.copy)
      BY <1>0, <1>11, <2>1, <3>2, SavedTable DEF SaveReport, Reporting, TableOK
    <3> QED
      BY <1>11, <3>1, <3>2 DEF SaveReport
  <2>3. inbox' \in Seq(Message)
    BY <1>0, <1>11, NothingReceived DEF SaveReport, Die, QueuesOK
  <2>4. [lis EXCEPT !.pc = "retry"] \in Reporting
    BY <2>1 DEF Reporting
  <2>5. lis' \in {Waiting, Stopped, [lis EXCEPT !.pc = "retry"]}
    BY <1>11 DEF SaveReport, Die, Return
  <2> QED
    BY <1>0, <1>11, <2>2, <2>3, <2>4, <2>5 DEF SaveReport, TypeOK, QueuesOK, ListenerState
<1>12. CASE RetryRun
  <2>1. NextVersion(lis.msg.run) \in Nat
    BY <1>0, NextVersionAbove DEF VersionsBounded, TableOK
  <2>2. lis \in Reporting
    BY <1>0, <1>12, ListenerByPc DEF RetryRun
  <2> DEFINE held == [lis EXCEPT !.pc = "retrySave", !.msg.version = NextVersion(lis.msg.run)]
  <2>3. held \in Reporting
    BY <2>1, <2>2, MessageChanged DEF Reporting
  <2>4. lis' \in {Waiting, held}
    BY <1>12 DEF RetryRun, Return
  <2> QED
    BY <1>0, <1>12, <2>3, <2>4 DEF RetryRun, TypeOK, TableOK, QueuesOK, ListenerState, Ids
<1>13. CASE SaveRetry
  <2>1. lis \in Reporting
    BY <1>0, <1>13, ListenerByPc DEF SaveRetry
  <2>2. NewRow(lis.msg.run, lis.msg.version, "q") \in Row
    BY <2>1, NewRowType, MessageChanged DEF Reporting, StatusValue
  <2>3. TableOK'
    BY <1>0, <1>13, <2>2, SavedTable DEF SaveRetry, TableOK
  <2>4. lis' \in Retrying
    BY <1>0, <1>13, <2>1, RowChanged DEF SaveRetry, Reporting, Retrying, TableOK
  <2> QED
    BY <1>0, <1>13, <2>3, <2>4 DEF SaveRetry, TypeOK, QueuesOK, ListenerState
<1>14. CASE LinkRetry
  <2>1. lis \in Retrying /\ lis.id \in RowIds
    BY <1>0, <1>14, ListenerByPc DEF LinkRetry, IdsGivenOut
  <2>2. TableOK'
    BY <1>0, <1>14, <2>1, SavedTable DEF LinkRetry, Retrying, TableOK
  <2>3. lis' \in Retrying
    BY <1>14, <2>1 DEF LinkRetry, Retrying
  <2> QED
    BY <1>0, <1>14, <2>2, <2>3 DEF LinkRetry, TypeOK, QueuesOK, ListenerState
<1>15. CASE RetryVariables
  <2>1. lis \in Retrying
    BY <1>0, <1>15, ListenerByPc DEF RetryVariables
  <2>2. lis' \in ListenerState
    BY <1>15, <2>1 DEF RetryVariables, Die, Retrying, ListenerState
  <2>3. inbox' \in Seq(Message) /\ budget' \in [{"ready", "posts", "retries", "faults"} -> Nat]
    BY <1>0, <1>15, SpendType, NothingReceived DEF RetryVariables, Die, QueuesOK
  <2>4. TableOK'
    <3>1. CASE UNCHANGED <<db, located>>
      BY <1>0, <1>15, <3>1 DEF RetryVariables, TableOK, Ids
    <3>2. CASE db' = Removed(lis.new) /\ located' = located \ {lis.new}
      BY <1>0, <1>15, <3>2, RemovedTable DEF RetryVariables, TableOK
    <3> QED
      BY <1>15, <3>1, <3>2 DEF RetryVariables
  <2> QED
    BY <1>0, <1>15, <2>2, <2>3, <2>4 DEF RetryVariables, TypeOK, QueuesOK
<1>16. CASE RetrySend
  BY <1>0, <1>16 DEF RetrySend, Die, TypeOK, TableOK, QueuesOK, ListenerState, Ids
<1> QED
  BY <1>1, <1>2, <1>3, <1>4, <1>5, <1>6, <1>7, <1>8, <1>9, <1>10, <1>11, <1>12, <1>13, <1>14,
     <1>15, <1>16 DEF Listener


(***************************************************************************)
(* Every step of the environment and of the node preserves the types.      *)
(***************************************************************************)
LEMMA EnvironmentType ==
  ASSUME IInv,
         \/ \E r \in Runs : Submit(r)
         \/ \E d \in Subscribed : Dispatch(d)
         \/ TogglePause \/ Kill \/ Restart
  PROVE  TypeOK'
<1>0. TypeOK /\ TableOK /\ QueuesOK
  BY DEF IInv, TypeOK
<1>1. ASSUME NEW r \in Runs, Submit(r) PROVE TypeOK'
  <2>1. NewMessage("DataReady", r, 0) \in Message
    BY NewMessageType DEF Destination, Subscribed
  <2>2. QueuesOK'
    BY <1>0, <1>1, <2>1, SendType, SpendType DEF Submit, QueuesOK
  <2> QED
    BY <1>0, <1>1, <2>2 DEF Submit, TypeOK, TableOK, Ids
<1>2. CASE TogglePause
  BY <1>0, <1>2 DEF TogglePause, TypeOK, TableOK, QueuesOK, Ids
<1>3. ASSUME NEW d \in Subscribed, Dispatch(d) PROVE TypeOK'
  <2>1. queue[d] \in Seq(Message) /\ queue[d] # <<>>
    BY <1>0, <1>3 DEF Dispatch, QueuesOK, Destination
  <2>2. Head(queue[d]) \in Message /\ Tail(queue[d]) \in Seq(Message)
    BY <2>1, FrameType
  <2>3. QueuesOK'
    BY <1>0, <1>3, <2>2 DEF Dispatch, QueuesOK, Destination
  <2> QED
    BY <1>0, <1>3, <2>3 DEF Dispatch, TypeOK, TableOK, Ids
<1>4. CASE Kill
  <2>1. QueuesOK'
    BY <1>0, <1>4, SpendType, NothingReceived DEF Kill, Die, QueuesOK
  <2> QED
    BY <1>0, <1>4, <2>1 DEF Kill, Die, TypeOK, TableOK, ListenerState, Ids
<1>5. CASE Restart
  BY <1>0, <1>5 DEF Restart, TypeOK, TableOK, QueuesOK, ListenerState, Ids
<1> QED
  BY <1>1, <1>2, <1>3, <1>4, <1>5

LEMMA NodeType ==
  ASSUME IInv, Node
  PROVE  TypeOK'
<1>0. TypeOK /\ TableOK /\ QueuesOK
  BY DEF IInv, TypeOK
<1>1. ASSUME NEW m, NodeTake(m)
      PROVE  /\ m \in Message /\ Tail(queue["Pending"]) \in Seq(Message)
             /\ Job(m) \in [run : Runs, version : Nat]
             /\ \A d \in Destination : NewMessage(d, m.run, m.version) \in Message
             /\ QueuesOK' => TypeOK'
  <2>1. queue["Pending"] \in Seq(Message) /\ queue["Pending"] # <<>>
    BY <1>0, <1>1 DEF NodeTake, QueuesOK, Destination
  <2>2. m \in Message /\ Tail(queue["Pending"]) \in Seq(Message)
    BY <1>1, <2>1, FrameType DEF NodeTake
  <2>3. QueuesOK' => TypeOK'
    BY <1>0, <1>1 DEF NodeTake, TypeOK, TableOK, Ids
  <2> QED
    BY <2>2, <2>3, MessageChanged, NewMessageType DEF Job
<1>2. ASSUME NEW m, NodeCancel(m) PROVE TypeOK'
  <2>1. NodeTake(m)
    BY <1>2 DEF NodeCancel
  <2> QED
    BY <1>0, <1>1, <1>2, <2>1 DEF NodeCancel, NodeTake, QueuesOK
<1>3. ASSUME NEW m, NodeDrop(m) PROVE TypeOK'
  <2>1. NodeTake(m)
    BY <1>3 DEF NodeDrop
  <2> QED
    BY <1>0, <1>1, <1>3, <2>1 DEF NodeDrop, NodeTake, QueuesOK
<1>4. ASSUME NEW m, NodeStart(m) PROVE TypeOK'
  <2>1. NodeTake(m)
    BY <1>4 DEF NodeStart
  <2>2. NewMessage("Started", m.run, m.version) \in Message
    BY <1>1, <2>1 DEF Destination, Subscribed
  <2>3. Append(queue["Started"], NewMessage("Started", m.run, m.version)) \in Seq(Message)
    BY <1>0, <2>2 DEF QueuesOK, Destination, Subscribed
  <2>4. \/ queue' = [queue EXCEPT !["Pending"] = Tail(queue["Pending"]),
                                  !["Started"] = Append(queue["Started"],
                                                   NewMessage("Started", m.run, m.version))]
        \/ queue' = [queue EXCEPT !["Pending"] = Tail(queue["Pending"])]
    BY <1>4 DEF NodeStart
  <2>5. queue' \in [Destination -> Seq(Message)]
    BY <1>0, <1>1, <2>1, <2>3, <2>4 DEF QueuesOK
  <2>6. budget' \in [{"ready", "posts", "retries", "faults"} -> Nat]
    BY <1>0, <1>4, SpendType DEF NodeStart, QueuesOK
  <2> QED
    BY <1>0, <1>1, <1>4, <2>1, <2>5, <2>6 DEF NodeStart, NodeTake, QueuesOK
<1>5. ASSUME NEW m, NodeReject(m) PROVE TypeOK'
  <2>1. NodeTake(m)
    BY <1>5 DEF NodeReject
  <2>2. NewMessage("Error", m.run, m.version) \in Message
    BY <1>1, <2>1 DEF Destination, Subscribed
  <2>3. Append(queue["Error"], NewMessage("Error", m.run, m.version)) \in Seq(Message)
    BY <1>0, <2>2 DEF QueuesOK, Destination, Subscribed
  <2>4. queue' = [queue EXCEPT !["Pending"] = Tail(queue["Pending"]),
                               !["Error"] = Append(queue["Error"],
                                              NewMessage("Error", m.run, m.version))]
    BY <1>5 DEF NodeReject
  <2> QED
    BY <1>0, <1>1, <1>5, <2>1, <2>3, <2>4 DEF NodeReject, NodeTake, QueuesOK
<1>6. ASSUME NEW j \in node, NodeReport(j) PROVE TypeOK'
  <2>1. j.run \in Runs /\ j.version \in Nat
    BY <1>0 DEF QueuesOK
  <2>2. \A d \in {"Complete", "Error", "Skipped"} :
          NewMessage(d, j.run, j.version) \in Message
    BY <2>1, NewMessageType DEF Destination, Subscribed
  <2>3. [NewMessage("Error", j.run, j.version) EXCEPT !.retryIn = TRUE] \in Message
    BY <2>2 DEF Message
  <2>4. queue' \in [Destination -> Seq(Message)]
    BY <1>0, <1>6, <2>2, <2>3, SendType DEF NodeReport
  <2>5. budget' \in [{"ready", "posts", "retries", "faults"} -> Nat]
    BY <1>0, <1>6, SpendType DEF NodeReport, QueuesOK
  <2> QED
    BY <1>0, <1>6, <2>4, <2>5 DEF NodeReport, TypeOK, TableOK, QueuesOK, Ids
<1>7. ASSUME NEW j \in node, NodeDie(j) PROVE TypeOK'
  BY <1>0, <1>7, SpendType DEF NodeDie, TypeOK, TableOK, QueuesOK, Ids
<1> QED
  BY <1>2, <1>3, <1>4, <1>5, <1>6, <1>7 DEF Node

(***************************************************************************)
(* Every step of a web session preserves the types.                        *)
(***************************************************************************)
LEMMA StepType ==
  ASSUME TypeOK, NEW w \in Sessions, NEW s \in SessionState, Step(w, s)
  PROVE  web' \in [Sessions -> SessionState]
BY DEF TypeOK, Step

LEMMA EndType ==
  ASSUME TypeOK, NEW w \in Sessions, End(w)
  PROVE  web' \in [Sessions -> SessionState]
BY StepType DEF End, SessionState

LEMMA SessionType ==
  ASSUME IInv, NEW w \in Sessions, Session(w)
  PROVE  TypeOK'
<1> USE DEF IInv
<1>0. TypeOK /\ TableOK /\ QueuesOK
  BY DEF TypeOK
<1>1. ASSUME NEW i \in Ids, ShowFailed(w, i) PROVE TypeOK'
  <2>1. [pc |-> "page", job |-> Job(db[i])] \in SessionState
    BY <1>0 DEF TableOK, SessionState, Showing, Row, Job
  <2>2. web' \in [Sessions -> SessionState]
    BY <1>0, <1>1, <2>1, StepType DEF ShowFailed
  <2> QED
    BY <1>0, <1>1, <2>2, SpendType DEF ShowFailed, TypeOK, TableOK, QueuesOK, Ids
<1>2. ASSUME NEW rerun \in BOOLEAN, Post(w, rerun) PROVE TypeOK'
  <2> DEFINE i == Chosen(w)
             r == db[i].retry
             retrying(v) == db[i].status # "q" /\ r # 0 /\ db[r].status = v
             target == CASE db[i].status = "q" -> i
                         [] retrying("q") -> r
                         [] OTHER -> 0
             flagged(row) == [row EXCEPT !.cancel = @ \/ retrying("p")]
             held == [pc |-> IF target = 0 THEN "saveBoth" ELSE "cancel",
                      id |-> i, rerun |-> rerun, target |-> target, copy |-> flagged(db[i]),
                      retry |-> IF r = 0 THEN db[i] ELSE flagged(db[r])]
  <2>1. web' \in [Sessions -> SessionState]
    <3>1. CASE i \notin Ids
      BY <1>0, <1>2, <3>1, EndType DEF Post
    <3>2. CASE i \in Ids
      <4>1. db[i] \in Row /\ i \in Nat
        BY <1>0, <3>2, RowIdsAssumption DEF TableOK
      <4>2. r \in Nat /\ (r # 0 => db[r] \in Row)
        BY <1>0, <3>2, <4>1, RowChanged DEF NewRowsKept, RowsLinked, Dangling, TableOK
      <4>3. target \in Nat
        BY <4>1, <4>2
      <4>4. \A row \in Row : flagged(row) \in Row
        BY DEF Row
      <4>5. flagged(db[i]) \in Row /\ (IF r = 0 THEN db[i] ELSE flagged(db[r])) \in Row
        BY <4>1, <4>2, <4>4
      <4>6. Step(w, held)
        BY <1>2, <3>2 DEF Post
      <4> HIDE DEF target, flagged, r, i
      <4>7. held \in Cancelling
        BY <4>1, <4>3, <4>5 DEF Cancelling
      <4> QED
        BY <1>0, <4>6, <4>7, StepType DEF SessionState
    <3> QED
      BY <3>1, <3>2
  <2> QED
    BY <1>0, <1>2, <2>1 DEF Post, TypeOK, TableOK, QueuesOK, Ids
<1>3. ASSUME NEW r \in Runs, Confirm(w, r) PROVE TypeOK'
  <2> DEFINE S == {j \in VersionsOf(r) : db[j].version = NextVersion(r) - 1}
             i == LeastId(S)
  <2>1. S \in SUBSET Nat /\ S # {}
    BY <1>0, <1>3, LatestExists, RowIdsAssumption DEF Confirm, VersionsOf, TableOK, VersionsBounded
  <2>2. i \in Ids
    BY <2>1, LeastIdLeast DEF VersionsOf
  <2>3. Step(w, [pc |-> "version", id |-> i, copy |-> db[i]])
    BY <1>3 DEF Confirm
  <2> HIDE DEF i
  <2>4. [pc |-> "version", id |-> i, copy |-> db[i]] \in Rerunning
    BY <1>0, <2>2, RowIdsAssumption DEF TableOK, Rerunning
  <2>5. web' \in [Sessions -> SessionState]
    BY <1>0, <2>3, <2>4, StepType DEF SessionState
  <2> QED
    BY <1>0, <1>3, <2>5, SpendType DEF Confirm, TypeOK, TableOK, QueuesOK, Ids

<1>4. CASE SendCancel(w)
  <2>1. web[w] \in Cancelling
    BY <1>0, <1>4, SessionByPc DEF SendCancel
  <2> DEFINE row == CancelledRow(web[w])
  <2>2. row \in Row
    BY <2>1 DEF Cancelling, CancelledRow
  <2>3. CancelOf(w) \in Message
    <3>1. NewMessage("Pending", row.run, row.version) \in Message
      BY <2>2, RowChanged, NewMessageType DEF Destination
    <3> QED
      BY <3>1 DEF Message, CancelOf
  <2>4. [web[w] EXCEPT !.pc = "setCancelled"] \in SessionState
    BY <2>1 DEF Cancelling, SessionState
  <2>5. /\ Send(CancelOf(w)) \/ UNCHANGED queue
        /\ End(w) \/ Step(w, [web[w] EXCEPT !.pc = "setCancelled"])
        /\ Spend("faults") \/ UNCHANGED budget
    BY <1>4 DEF SendCancel
  <2>6. queue' \in [Destination -> Seq(Message)]
    BY <1>0, <2>3, <2>5, SendType DEF QueuesOK
  <2>7. web' \in [Sessions -> SessionState]
    BY <1>0, <2>4, <2>5, StepType, EndType
  <2>8. budget' \in [{"ready", "posts", "retries", "faults"} -> Nat]
    BY <1>0, <2>5, SpendType DEF QueuesOK
  <2> QED
    BY <1>0, <1>4, <2>6, <2>7, <2>8 DEF SendCancel, TypeOK, TableOK, QueuesOK, Ids
<1>5. CASE SetCancelled(w)
  <2> DEFINE s == web[w]
             copy == IF s.target = s.id THEN [s.copy EXCEPT !.status = "e"] ELSE s.copy
             retry == IF s.target # s.id THEN [s.retry EXCEPT !.status = "e"] ELSE s.retry
             row == IF s.target = s.id THEN copy ELSE retry
             held == [s EXCEPT !.pc = "saveBoth", !.copy = copy, !.retry = retry]
  <2>1. s \in Cancelling /\ s.target \in RowIds
    BY <1>0, <1>5, SessionByPc DEF SetCancelled, IdsGivenOut, SessionIds
  <2>2. copy \in Row /\ retry \in Row /\ row \in Row
    BY <2>1, RowChanged DEF Cancelling, StatusValue
  <2>3. \/ End(w) /\ UNCHANGED db
        \/ db' = Saved(s.target, row) /\ Step(w, held)
    BY <1>5 DEF SetCancelled
  <2> HIDE DEF copy, retry, row
  <2>4. held \in Cancelling
    BY <2>1, <2>2 DEF Cancelling
  <2>5. web' \in [Sessions -> SessionState]
    BY <1>0, <2>3, <2>4, StepType, EndType DEF SessionState
  <2>6. TableOK'
    BY <1>0, <1>5, <2>1, <2>2, <2>3, SavedTable DEF SetCancelled, TableOK, Ids
  <2> QED
    BY <1>0, <1>5, <2>5, <2>6 DEF SetCancelled, TypeOK, QueuesOK
<1>6. CASE SaveBoth(w)
  <2> DEFINE s == web[w]
             r == s.copy.retry
             one == Saved(s.id, s.copy)
             held == [pc |-> "version", id |-> s.id, copy |-> [s.copy EXCEPT !.cancel = FALSE]]
  <2>1. s \in Cancelling /\ s.id \in RowIds
    BY <1>0, <1>6, SessionByPc DEF SaveBoth, IdsGivenOut, SessionIds
  <2>2. s.copy \in Row /\ s.retry \in Row
    BY <2>1 DEF Cancelling
  <2>3. [s.copy EXCEPT !.cancel = FALSE] \in Row
    BY <2>2, RowChanged
  <2>4. held \in Rerunning
    BY <2>1, <2>3 DEF Rerunning, Cancelling
  <2>5. \/ End(w) /\ UNCHANGED db
        \/ /\ db' \in {one, [one EXCEPT ![r] = s.retry]}
           /\ Step(w, held) \/ End(w)
    BY <1>6 DEF SaveBoth
  <2>6. web' \in [Sessions -> SessionState]
    BY <1>0, <2>4, <2>5, StepType, EndType DEF SessionState
  <2>7. DOMAIN one = Ids \cup {s.id} /\ \A j \in DOMAIN one : one[j] \in Row
    BY <1>0, <2>2 DEF Saved, TableOK, Ids
  <2> HIDE DEF one
  <2>8. TableOK'
    BY <1>0, <1>6, <2>1, <2>2, <2>5, <2>7 DEF SaveBoth, TableOK, Ids
  <2> QED
    BY <1>0, <1>6, <2>6, <2>8 DEF SaveBoth, TypeOK, QueuesOK
<1>7. CASE WebVersion(w)
  <2>1. web[w] \in Rerunning
    BY <1>0, <1>7, SessionByPc DEF WebVersion
  <2>2. NextVersion(web[w].copy.run) \in Nat
    BY <1>0, NextVersionAbove DEF VersionsBounded, TableOK
  <2> DEFINE held == [pc |-> "create", id |-> web[w].id, copy |-> web[w].copy,
                      version |-> NextVersion(web[w].copy.run)]
  <2>3. held \in Creating
    BY <2>1, <2>2 DEF Rerunning, Creating
  <2>4. Step(w, held)
    BY <1>7 DEF WebVersion
  <2>5. web' \in [Sessions -> SessionState]
    BY <1>0, <2>3, <2>4, StepType DEF SessionState
  <2> QED
    BY <1>0, <1>7, <2>5 DEF WebVersion, TypeOK, TableOK, QueuesOK, Ids
<1>8. CASE WebCreate(w)
  <2>1. web[w] \in Creating /\ nextId \in Nat
    BY <1>0, <1>8, SessionByPc DEF WebCreate, TableOK
  <2> DEFINE held == [pc |-> "link", id |-> web[w].id,
                      copy |-> [web[w].copy EXCEPT !.retry = nextId],
                      version |-> web[w].version, new |-> nextId]
  <2>2. held \in Sending
    BY <2>1, RowChanged DEF Creating, Sending
  <2>3. Step(w, held)
    BY <1>8 DEF WebCreate
  <2>4. web' \in [Sessions -> SessionState]
    BY <1>0, <2>2, <2>3, StepType DEF SessionState
  <2>5. NewRow(web[w].copy.run, web[w].version, "q") \in Row
    BY <2>1, RowChanged, NewRowType DEF Creating, StatusValue
  <2>6. TableOK'
    BY <1>0, <1>8, <2>5, SavedTable DEF WebCreate, TableOK
  <2> QED
    BY <1>0, <1>8, <2>4, <2>6 DEF WebCreate, TypeOK, QueuesOK
<1>9. CASE WebLink(w)
  <2>1. web[w] \in Sending /\ web[w].id \in RowIds
    BY <1>0, <1>9, SessionByPc DEF WebLink, IdsGivenOut, SessionIds
  <2>2. [web[w] EXCEPT !.pc = "variables"] \in Sending
    BY <2>1 DEF Sending
  <2>3. web' \in [Sessions -> SessionState]
    BY <1>0, <1>9, <2>2, StepType DEF WebLink, SessionState
  <2>4. TableOK'
    BY <1>0, <1>9, <2>1, SavedTable DEF WebLink, TableOK, Sending
  <2> QED
    BY <1>0, <1>9, <2>3, <2>4 DEF WebLink, TypeOK, QueuesOK
<1>10. CASE WebVariables(w)
  <2>1. web[w] \in Sending
    BY <1>0, <1>10, SessionByPc DEF WebVariables
  <2>2. [web[w] EXCEPT !.pc = "send"] \in Sending
    BY <2>1 DEF Sending
  <2>3. web' \in [Sessions -> SessionState]
    BY <1>0, <1>10, <2>2, StepType, EndType DEF WebVariables, SessionState
  <2>4. budget' \in [{"ready", "posts", "retries", "faults"} -> Nat]
    BY <1>0, <1>10, SpendType DEF WebVariables, QueuesOK
  <2> QED
    BY <1>0, <1>10, <2>3, <2>4 DEF WebVariables, TypeOK, TableOK, QueuesOK, Ids
<1>11. CASE WebSend(w)
  <2>1. web[w] \in Sending
    BY <1>0, <1>11, SessionByPc DEF WebSend
  <2>2. NewMessage("Pending", web[w].copy.run, web[w].version) \in Message
    BY <2>1, RowChanged, NewMessageType DEF Sending, Destination
  <2>3. queue' \in [Destination -> Seq(Message)]
    BY <1>0, <1>11, <2>2, SendType DEF WebSend
  <2>4. web' \in [Sessions -> SessionState]
    BY <1>0, <1>11, EndType DEF WebSend
  <2> QED
    BY <1>0, <1>11, <2>3, <2>4 DEF WebSend, TypeOK, TableOK, QueuesOK, Ids
<1>12. CASE WebSendFails(w)
  <2>1. web' \in [Sessions -> SessionState]
    BY <1>0, <1>12, EndType DEF WebSendFails
  <2>2. TableOK'
    BY <1>0, <1>12, RemovedTable DEF WebSendFails, TableOK
  <2>3. budget' \in [{"ready", "posts", "retries", "faults"} -> Nat]
    BY <1>0, <1>12, SpendType DEF WebSendFails, QueuesOK
  <2> DEFINE n == NewMessage("Pending", web[w].copy.run, web[w].version)
             j == [run |-> web[w].copy.run, version |-> web[w].version]
  <2>4. n \in Message /\ j \in [run : Runs, version : Nat]
    <3>1. web[w] \in Sending
      BY <1>0, <1>12, SessionByPc DEF WebSendFails
    <3>2. web[w].copy.run \in Runs /\ web[w].version \in Nat
      BY <3>1, RowChanged DEF Sending
    <3> QED
      BY <3>2, NewMessageType DEF Destination
  <2>5. /\ UNCHANGED queue \/ Send(n)
        /\ withdrawn' = withdrawn \/ withdrawn' = withdrawn \cup {j}
    BY <1>12 DEF WebSendFails
  <2> HIDE DEF n, j
  <2>6. queue' \in [Destination -> Seq(Message)] /\ withdrawn' \subseteq [run : Runs, version : Nat]
    BY <1>0, <2>4, <2>5, SendType DEF QueuesOK
  <2> QED
    BY <1>0, <1>12, <2>1, <2>2, <2>3, <2>6 DEF WebSendFails, TypeOK, QueuesOK
<1>13. CASE Hide(w)
  <2> DEFINE held == [pc |-> "hide", id |-> Chosen(w), copy |-> db[Chosen(w)]]
  <2>1. (Chosen(w) \in Ids /\ Step(w, held)) \/ End(w)
    BY <1>13 DEF Hide
  <2>2. Chosen(w) \in Ids => held \in Hiding
    BY <1>0, RowIdsAssumption DEF TableOK, Hiding
  <2> HIDE DEF held
  <2>3. web' \in [Sessions -> SessionState]
    BY <1>0, <2>1, <2>2, StepType, EndType DEF SessionState
  <2> QED
    BY <1>0, <1>13, <2>3 DEF Hide, TypeOK, TableOK, QueuesOK, Ids
<1>14. CASE SaveHidden(w)
  <2>1. web[w] \in Hiding /\ web[w].id \in RowIds
    BY <1>0, <1>14, SessionByPc DEF SaveHidden, IdsGivenOut, SessionIds
  <2>2. TableOK'
    <3>1. CASE UNCHANGED db
      BY <1>0, <1>14, <3>1 DEF SaveHidden, TableOK, Ids
    <3>2. CASE db' = Saved(web[w].id, web[w].copy)
      BY <1>0, <1>14, <2>1, <3>2, SavedTable DEF SaveHidden, Hiding, TableOK
    <3> QED
      BY <1>14, <3>1, <3>2 DEF SaveHidden
  <2>3. web' \in [Sessions -> SessionState]
    BY <1>0, <1>14, EndType DEF SaveHidden
  <2> QED
    BY <1>0, <1>14, <2>2, <2>3 DEF SaveHidden, TypeOK, QueuesOK
<1> QED
  BY <1>1, <1>2, <1>3, <1>4, <1>5, <1>6, <1>7, <1>8, <1>9, <1>10, <1>11, <1>12, <1>13, <1>14
     DEF Session


(***************************************************************************)
(* Every step keeps the versions below the counter of identifiers.         *)
(***************************************************************************)
LEMMA SessionsKept ==
  ASSUME IInv, UNCHANGED web, nextId' \in {nextId, nextId + 1}
  PROVE  \A w \in Sessions : SessionVersions(w)' /\ SessionIds(w)'
<1>1. nextId \in Nat
  BY DEF IInv, TypeOK, TableOK
<1> SUFFICES ASSUME NEW w \in Sessions PROVE SessionVersions(w)' /\ SessionIds(w)'
  OBVIOUS
<1>2. SessionVersions(w) /\ SessionIds(w)
  BY DEF IInv, VersionsBounded, IdsGivenOut
<1>3. /\ web[w].pc \in {"cancel", "setCancelled", "saveBoth"} =>
           web[w].copy.version \in Nat /\ web[w].retry.version \in Nat
      /\ web[w].pc \in {"hide", "version", "create", "link"} => web[w].copy.version \in Nat
      /\ web[w].pc = "create" => web[w].version \in Nat
      /\ web[w].pc \in {"cancel", "setCancelled", "saveBoth", "hide", "version", "create", "link"} =>
           web[w].id \in Nat
      /\ web[w].pc \in {"cancel", "setCancelled"} => web[w].target \in Nat
  BY SessionByPc DEF IInv, Showing, Hiding, Cancelling, Rerunning, Creating, Sending, Row
<1>4. SessionVersions(w)'
  BY <1>1, <1>2, <1>3 DEF SessionVersions
<1>5. SessionIds(w)'
  BY <1>1, <1>2, <1>3 DEF SessionIds
<1> QED
  BY <1>4, <1>5

LEMMA ListenerVersions ==
  ASSUME IInv, Listener
  PROVE  VersionsBounded' /\ IdsGivenOut'
<1> USE DEF IInv
<1>0. TypeOK /\ TableOK /\ VersionsBounded /\ IdsGivenOut
  BY DEF TypeOK
<1>1. nextId \in Nat /\ \A i \in Ids : db[i].version \in Nat
  BY <1>0 DEF TableOK, Row
<1> DEFINE Rest == \A w \in Sessions : SessionVersions(w)' /\ SessionIds(w)'
<1>2. UNCHANGED web /\ nextId' \in {nextId, nextId + 1} => Rest
  BY SessionsKept
<1> HIDE DEF Rest
<1>3. ASSUME Rest, \A i \in Ids' : db'[i].version < nextId',
             lis'.pc \in {"script", "save", "retrySave"} => lis'.msg.version <= nextId',
             lis'.pc \in {"report", "retry", "retrySave", "retryLink"} =>
               lis'.copy.version < nextId' /\ lis'.id \in RowIds /\ lis'.id < nextId'
      PROVE  VersionsBounded' /\ IdsGivenOut'
  BY <1>3 DEF Rest, VersionsBounded, IdsGivenOut
<1>4. ASSUME UNCHANGED <<db, nextId>> PROVE \A i \in Ids' : db'[i].version < nextId'
  BY <1>0, <1>4 DEF VersionsBounded, Ids
<1>5. ASSUME NEW m, DataReady(m) PROVE VersionsBounded' /\ IdsGivenOut'
  BY <1>2, <1>3, <1>4, <1>5 DEF DataReady
<1>6. ASSUME NEW m, FindRun(m) PROVE VersionsBounded' /\ IdsGivenOut'
  <2> DEFINE i == LeastId(Matching(m))
  <2>1. i \in Ids /\ db[i] \in Row /\ i \in RowIds
    BY <1>0, <1>6, MatchingLeast DEF FindRun, TableOK
  <2>2. db[i].version < nextId /\ i < nextId
    BY <1>0, <2>1 DEF VersionsBounded, NewRowsKept, RowsLinked
  <2>3. /\ lis' = [pc |-> "report", msg |-> m, id |-> i,
                   copy |-> [db[i] EXCEPT !.status = Reported(m.dest)]]
        /\ UNCHANGED <<db, nextId, web>>
    BY <1>6 DEF FindRun
  <2> HIDE DEF i
  <2>4. [db[i] EXCEPT !.status = Reported(m.dest)].version = db[i].version
    BY <2>1 DEF Row
  <2> QED
    BY <1>2, <1>3, <1>4, <2>1, <2>2, <2>3, <2>4
<1>7. ASSUME NEW m, RefuseReport(m) PROVE VersionsBounded' /\ IdsGivenOut'
  BY <1>0, <1>2, <1>3, <1>4, <1>7 DEF RefuseReport, VersionsBounded, IdsGivenOut
<1>8. CASE ReadVersion
  <2>1. NextVersion(lis.msg.run) <= nextId
    BY <1>0, <1>1, NextVersionAbove DEF VersionsBounded
  <2>2. lis \in Filing
    BY <1>0, <1>8, ListenerByPc DEF ReadVersion
  <2>3. lis'.pc = "script" /\ lis'.msg.version = NextVersion(lis.msg.run)
    BY <1>8, <2>2 DEF ReadVersion, Filing, Message
  <2> QED
    BY <1>2, <1>3, <1>4, <1>8, <2>1, <2>3 DEF ReadVersion
<1>9. CASE ScriptFound
  <2>1. lis \in Filing
    BY <1>0, <1>9, ListenerByPc DEF ScriptFound
  <2>2. lis'.pc = "save" /\ lis'.msg = lis.msg /\ lis.msg.version <= nextId
    BY <1>0, <1>9, <2>1 DEF ScriptFound, Filing, VersionsBounded
  <2> QED
    BY <1>2, <1>3, <1>4, <1>9, <2>2 DEF ScriptFound
<1>10. CASE ScriptMissing
  <2>1. \A i \in Ids' : db'[i].version < nextId'
    <3>1. CASE Matching(lis.msg) = {}
      BY <1>4, <1>10, <3>1 DEF ScriptMissing
    <3>2. CASE Matching(lis.msg) # {}
      <4> DEFINE i == LeastId(Matching(lis.msg))
      <4>1. i \in Ids /\ db[i] \in Row
        BY <1>0, <3>2, MatchingLeast DEF TableOK
      <4> DEFINE row == [db[i] EXCEPT !.status = "e"]
      <4>2. db' = Saved(i, row) /\ nextId' = nextId
        BY <1>10, <3>2 DEF ScriptMissing
      <4> HIDE DEF i
      <4>3. row.version = db[i].version
        BY <4>1 DEF Row
      <4> HIDE DEF row
      <4> QED
        BY <1>0, <4>1, <4>2, <4>3, SavedRows DEF VersionsBounded
    <3> QED
      BY <3>1, <3>2
  <2> QED
    BY <1>2, <1>3, <1>10, <2>1 DEF ScriptMissing, Return, Waiting
<1>11. CASE SaveRun
  <2>1. lis \in Filing /\ lis.msg.version \in Nat /\ lis.msg.version <= nextId
    BY <1>0, <1>11, ListenerByPc DEF SaveRun, VersionsBounded, Filing, Message
  <2> DEFINE row == NewRow(lis.msg.run, lis.msg.version, IF lis.paused THEN "s" ELSE "q")
  <2>2. row.version = lis.msg.version /\ db' = Saved(nextId, row) /\ nextId' = nextId + 1
    BY <1>11 DEF SaveRun, NewRow
  <2> HIDE DEF row
  <2>3. \A i \in Ids' : db'[i].version < nextId'
    BY <1>0, <1>1, <2>1, <2>2, SavedRows DEF VersionsBounded
  <2> QED
    BY <1>2, <1>3, <1>11, <2>3 DEF SaveRun
<1>12. CASE SaveDataLocation
  <2>1. lis'.pc = "variables"
    BY <1>0, <1>12, ListenerByPc DEF SaveDataLocation, Filed
  <2> QED
    BY <1>2, <1>3, <1>4, <1>12, <2>1 DEF SaveDataLocation
<1>13. CASE CreateVariables
  <2>1. lis'.pc \in {"forward", "stopped"}
    BY <1>0, <1>13, ListenerByPc DEF CreateVariables, Filed, Die, Stopped
  <2> QED
    BY <1>2, <1>3, <1>4, <1>13, <2>1 DEF CreateVariables
<1>14. CASE Forward
  BY <1>2, <1>3, <1>4, <1>14 DEF Forward, Return, Waiting
<1>15. CASE SaveReport
  <2>1. lis \in Reporting /\ lis.copy.version < nextId /\ lis.id \in RowIds /\ lis.id < nextId
    BY <1>0, <1>15, ListenerByPc DEF SaveReport, VersionsBounded, IdsGivenOut
  <2>2. db' \in {db, Saved(lis.id, lis.copy)} /\ UNCHANGED <<nextId, web>>
    BY <1>15 DEF SaveReport
  <2>3. \A i \in Ids' : db'[i].version < nextId'
    BY <1>0, <1>4, <2>1, <2>2, SavedRows DEF VersionsBounded
  <2>4. lis' \in {Waiting, Stopped, [lis EXCEPT !.pc = "retry"]}
    BY <1>15 DEF SaveReport, Return, Die
  <2>5. /\ lis'.pc \in {"wait", "stopped", "retry"}
        /\ lis'.pc = "retry" => lis'.copy = lis.copy /\ lis'.id = lis.id
    BY <2>1, <2>4 DEF Waiting, Stopped, Reporting
  <2> QED
    BY <1>2, <1>3, <2>1, <2>2, <2>3, <2>5
<1>16. CASE RetryRun
  <2>1. lis \in Reporting /\ lis.copy.version < nextId /\ lis.id \in RowIds /\ lis.id < nextId
    BY <1>0, <1>16, ListenerByPc DEF RetryRun, VersionsBounded, IdsGivenOut
  <2>2. NextVersion(lis.msg.run) <= nextId
    BY <1>0, <1>1, NextVersionAbove DEF VersionsBounded
  <2> DEFINE held == [lis EXCEPT !.pc = "retrySave", !.msg.version = NextVersion(lis.msg.run)]
  <2>3. held.msg.version = NextVersion(lis.msg.run) /\ held.copy = lis.copy /\ held.id = lis.id
    BY <2>1 DEF Reporting, Message
  <2>4. lis' \in {Waiting, held} /\ UNCHANGED <<db, nextId, web>>
    BY <1>16 DEF RetryRun, Return
  <2> HIDE DEF held
  <2> QED
    BY <1>2, <1>3, <1>4, <2>1, <2>2, <2>3, <2>4 DEF Waiting
<1>17. CASE SaveRetry
  <2>1. /\ lis \in Reporting /\ lis.msg.version \in Nat /\ lis.msg.version <= nextId
        /\ lis.copy.version \in Nat /\ lis.copy.version < nextId
        /\ lis.id \in RowIds /\ lis.id \in Nat /\ lis.id < nextId
    BY <1>0, <1>17, ListenerByPc DEF SaveRetry, VersionsBounded, IdsGivenOut, Reporting, Message, Row
  <2> DEFINE row == NewRow(lis.msg.run, lis.msg.version, "q")
  <2>2. row.version = lis.msg.version /\ db' = Saved(nextId, row) /\ nextId' = nextId + 1
    BY <1>17 DEF SaveRetry, NewRow
  <2> HIDE DEF row
  <2>3. \A i \in Ids' : db'[i].version < nextId'
    BY <1>0, <1>1, <2>1, <2>2, SavedRows DEF VersionsBounded
  <2>4. lis'.pc = "retryLink" /\ lis'.id = lis.id /\ lis'.copy.version = lis.copy.version
    BY <1>17, <2>1 DEF SaveRetry, Reporting, Row
  <2> QED
    BY <1>1, <1>2, <1>3, <1>17, <2>1, <2>2, <2>3, <2>4 DEF SaveRetry
<1>18. CASE LinkRetry
  <2>1. lis \in Retrying /\ lis.copy.version < nextId
    BY <1>0, <1>18, ListenerByPc DEF LinkRetry, VersionsBounded
  <2>2. db' = Saved(lis.id, lis.copy) /\ UNCHANGED <<nextId, web>>
    BY <1>18 DEF LinkRetry
  <2>3. \A i \in Ids' : db'[i].version < nextId'
    BY <1>0, <2>1, <2>2, SavedRows DEF VersionsBounded
  <2>4. lis'.pc = "retryVariables"
    BY <1>18, <2>1 DEF LinkRetry, Retrying
  <2> QED
    BY <1>2, <1>3, <2>2, <2>3, <2>4
<1>19. CASE RetryVariables
  <2>1. db' \in {db, Removed(lis.new)} /\ UNCHANGED <<nextId, web>>
    BY <1>19 DEF RetryVariables
  <2>2. \A i \in Ids' : db'[i].version < nextId'
    BY <1>0, <1>4, <2>1, RemovedRows DEF VersionsBounded
  <2>3. lis'.pc \in {"retrySend", "stopped"}
    BY <1>0, <1>19, ListenerByPc DEF RetryVariables, Retrying, Die, Stopped
  <2> QED
    BY <1>2, <1>3, <2>1, <2>2, <2>3
<1>20. CASE RetrySend
  BY <1>2, <1>3, <1>4, <1>20 DEF RetrySend, Die, Stopped
<1> QED
  BY <1>5, <1>6, <1>7, <1>8, <1>9, <1>10, <1>11, <1>12, <1>13, <1>14, <1>15, <1>16, <1>17,
     <1>18, <1>19, <1>20 DEF Listener


(***************************************************************************)
(* The environment's steps and the node's leave the table and the sessions *)
(* alone, and of the listener they change at most whether it runs.         *)
(***************************************************************************)
LEMMA OthersKept ==
  ASSUME IInv, UNCHANGED <<db, nextId, web>>, lis' \in {lis, Waiting, Stopped}
  PROVE  VersionsBounded' /\ NewRowsKept' /\ IdsGivenOut'
<1> USE DEF IInv
<1>1. \A w \in Sessions : SessionVersions(w)' /\ SessionIds(w)'
  BY SessionsKept
<1>2. lis'.pc \in {"wait", "stopped"} \/ lis' = lis
  BY DEF Waiting, Stopped
<1>3. VersionsBounded'
  BY <1>1, <1>2 DEF VersionsBounded, Ids
<1>4. IdsGivenOut'
  BY <1>1, <1>2 DEF IdsGivenOut
<1>5. ListenerHolds' => ListenerHolds /\ lis' = lis
  BY <1>2 DEF ListenerHolds
<1>6. \A w \in Sessions : Holds(w)' = Holds(w)
  BY DEF Holds
<1>7. NewRowsKept'
  BY <1>2, <1>5, <1>6 DEF NewRowsKept, RowsLinked, Dangling, Ids
<1> QED
  BY <1>3, <1>4, <1>7

LEMMA SessionVersionsStep ==
  ASSUME IInv, NEW w \in Sessions, Session(w)
  PROVE  VersionsBounded' /\ IdsGivenOut'
<1> USE DEF IInv
<1>0. TypeOK /\ TableOK /\ VersionsBounded /\ IdsGivenOut
  BY DEF TypeOK
<1>1. nextId \in Nat /\ \A i \in Ids : db[i].version \in Nat
  BY <1>0 DEF TableOK, Row
<1>2. SessionVersions(w) /\ SessionIds(w)
  BY <1>0 DEF VersionsBounded, IdsGivenOut
\* It is enough to look at the table and at what the session itself holds.
<1>3. ASSUME NEW s, Step(w, s), UNCHANGED lis, nextId' \in {nextId, nextId + 1},
             \A i \in Ids' : db'[i].version < nextId',
             SessionVersions(w)', SessionIds(w)'
      PROVE  VersionsBounded' /\ IdsGivenOut'
  <2>1. ASSUME NEW v \in Sessions PROVE SessionVersions(v)' /\ SessionIds(v)'
    <3>1. CASE v = w
      BY <1>3, <3>1
    <3>2. CASE v # w
      <4>1. web'[v] = web[v] /\ SessionVersions(v) /\ SessionIds(v)
        BY <1>0, <1>3, <3>2 DEF Step, TypeOK, VersionsBounded, IdsGivenOut
      <4>2. /\ web[v].pc \in {"cancel", "setCancelled", "saveBoth"} =>
                 web[v].copy.version \in Nat /\ web[v].retry.version \in Nat
            /\ web[v].pc \in {"hide", "version", "create", "link"} => web[v].copy.version \in Nat
            /\ web[v].pc = "create" => web[v].version \in Nat
            /\ web[v].pc \in {"cancel", "setCancelled", "saveBoth", "hide", "version", "create", "link"}
                 => web[v].id \in Nat
            /\ web[v].pc \in {"cancel", "setCancelled"} => web[v].target \in Nat
        BY <1>0, SessionByPc DEF Showing, Hiding, Cancelling, Rerunning, Creating, Sending, Row
      <4>3. SessionVersions(v)'
        BY <1>1, <1>3, <4>1, <4>2 DEF SessionVersions
      <4>4. SessionIds(v)'
        BY <1>1, <1>3, <4>1, <4>2 DEF SessionIds
      <4> QED
        BY <4>3, <4>4
    <3> QED
      BY <3>1, <3>2
  <2>2. /\ lis.pc \in {"script", "save", "retrySave"} => lis.msg.version \in Nat
        /\ lis.pc \in {"report", "retry", "retrySave", "retryLink"} =>
             lis.copy.version \in Nat /\ lis.id \in Nat
    BY <1>0, ListenerByPc DEF Filing, Reporting, Retrying, Message, Row
  <2>3. VersionsBounded'
    BY <1>0, <1>1, <1>3, <2>1, <2>2 DEF VersionsBounded
  <2>4. IdsGivenOut'
    BY <1>0, <1>1, <1>3, <2>1, <2>2 DEF IdsGivenOut
  <2> QED
    BY <2>3, <2>4
<1>4. ASSUME UNCHANGED <<db, nextId>> PROVE \A i \in Ids' : db'[i].version < nextId'
  BY <1>0, <1>4 DEF VersionsBounded, Ids
<1>5. ASSUME NEW s, Step(w, s) PROVE web'[w] = s
  BY <1>0, <1>5 DEF TypeOK, Step
\* The request ends: nothing is held.
<1>6. ASSUME End(w), UNCHANGED <<lis, nextId>>, \A i \in Ids' : db'[i].version < nextId'
      PROVE  VersionsBounded' /\ IdsGivenOut'
  <2>1. web'[w] = NoPage
    BY <1>5, <1>6 DEF End
  <2>2. SessionVersions(w)' /\ SessionIds(w)'
    BY <2>1 DEF SessionVersions, SessionIds, NoPage
  <2> QED
    BY <1>3, <1>6, <2>2 DEF End
<1>7. ASSUME NEW i \in Ids, ShowFailed(w, i) PROVE VersionsBounded' /\ IdsGivenOut'
  <2> DEFINE held == [pc |-> "page", job |-> Job(db[i])]
  <2>1. Step(w, held) /\ UNCHANGED <<db, nextId, lis>>
    BY <1>7 DEF ShowFailed
  <2>2. i \in RowIds /\ i < nextId
    BY <1>0 DEF TableOK, NewRowsKept, RowsLinked
  <2>3. SessionVersions(w)' /\ SessionIds(w)'
    BY <1>5, <2>1, <2>2 DEF SessionVersions, SessionIds
  <2> QED
    BY <1>3, <1>4, <2>1, <2>3

<1>8. ASSUME NEW rerun \in BOOLEAN, Post(w, rerun) PROVE VersionsBounded' /\ IdsGivenOut'
  <2> DEFINE i == Chosen(w)
             r == db[i].retry
             retrying(v) == db[i].status # "q" /\ r # 0 /\ db[r].status = v
             target == CASE db[i].status = "q" -> i
                         [] retrying("q") -> r
                         [] OTHER -> 0
             flagged(row) == [row EXCEPT !.cancel = @ \/ retrying("p")]
             held == [pc |-> IF target = 0 THEN "saveBoth" ELSE "cancel",
                      id |-> i, rerun |-> rerun, target |-> target, copy |-> flagged(db[i]),
                      retry |-> IF r = 0 THEN db[i] ELSE flagged(db[r])]
  <2>1. UNCHANGED <<db, nextId, lis>>
    BY <1>8 DEF Post
  <2>2. CASE i \notin Ids
    BY <1>4, <1>6, <1>8, <2>1, <2>2 DEF Post
  <2>3. CASE i \in Ids
    <3>1. db[i] \in Row /\ i \in RowIds /\ i < nextId /\ db[i].version < nextId
      BY <1>0, <2>3 DEF TableOK, NewRowsKept, RowsLinked, VersionsBounded
    <3>2. r # 0 => r \in RowIds /\ r < nextId /\ db[r] \in Row /\ db[r].version < nextId
      BY <1>0, <2>3 DEF TableOK, NewRowsKept, RowsLinked, VersionsBounded, Dangling
    <3>3. \A row \in Row : flagged(row).version = row.version
      BY DEF Row
    <3>4. target # 0 => target \in RowIds /\ target < nextId
      BY <3>1, <3>2
    <3>5. Step(w, held)
      BY <1>8, <2>3 DEF Post
    <3> HIDE DEF target, flagged
    <3>6. /\ web'[w].pc \in {"saveBoth", "cancel"} /\ web'[w].id = i /\ web'[w].target = target
          /\ web'[w].copy = flagged(db[i])
          /\ web'[w].retry = IF r = 0 THEN db[i] ELSE flagged(db[r])
          /\ web'[w].pc = "cancel" => target # 0
      BY <1>5, <3>5
    <3> HIDE DEF held
    <3>7. web'[w].copy.version < nextId /\ web'[w].retry.version < nextId
      BY <3>1, <3>2, <3>3, <3>6
    <3>8. SessionVersions(w)' /\ SessionIds(w)'
      BY <2>1, <3>1, <3>4, <3>6, <3>7 DEF SessionVersions, SessionIds
    <3> QED
      BY <1>3, <1>4, <2>1, <3>5, <3>8
  <2> QED
    BY <2>2, <2>3
<1>9. ASSUME NEW r \in Runs, Confirm(w, r) PROVE VersionsBounded' /\ IdsGivenOut'
  <2> DEFINE S == {j \in VersionsOf(r) : db[j].version = NextVersion(r) - 1}
             i == LeastId(S)
             held == [pc |-> "version", id |-> i, copy |-> db[i]]
  <2>1. S \in SUBSET Nat /\ S # {}
    BY <1>0, <1>9, LatestExists, RowIdsAssumption DEF Confirm, VersionsOf, TableOK, VersionsBounded
  <2>2. i \in Ids
    BY <2>1, LeastIdLeast DEF VersionsOf
  <2>3. Step(w, held) /\ UNCHANGED <<db, nextId, lis>>
    BY <1>9 DEF Confirm
  <2> HIDE DEF i
  <2>4. i \in RowIds /\ i < nextId /\ db[i].version < nextId
    BY <1>0, <2>2 DEF TableOK, NewRowsKept, RowsLinked, VersionsBounded
  <2>5. SessionVersions(w)' /\ SessionIds(w)'
    BY <1>5, <2>3, <2>4 DEF SessionVersions, SessionIds
  <2> QED
    BY <1>3, <1>4, <2>3, <2>5
<1>10. CASE SendCancel(w)
  <2> DEFINE held == [web[w] EXCEPT !.pc = "setCancelled"]
  <2>1. UNCHANGED <<db, nextId, lis>> /\ (End(w) \/ Step(w, held))
    BY <1>10 DEF SendCancel
  <2>2. web[w] \in Cancelling
    BY <1>0, <1>10, SessionByPc DEF SendCancel
  <2>3. /\ held.pc = "setCancelled" /\ held.id = web[w].id /\ held.target = web[w].target
        /\ held.copy = web[w].copy /\ held.retry = web[w].retry
    BY <2>2 DEF Cancelling
  <2>4. CASE Step(w, held)
    <3>1. SessionVersions(w)' /\ SessionIds(w)'
      BY <1>2, <1>5, <1>10, <2>1, <2>3, <2>4 DEF SendCancel, SessionVersions, SessionIds
    <3> HIDE DEF held
    <3> QED
      BY <1>3, <1>4, <2>1, <2>4, <3>1
  <2> QED
    BY <1>4, <1>6, <2>1, <2>4
<1>11. CASE SetCancelled(w)
  <2> DEFINE s == web[w]
             copy == IF s.target = s.id THEN [s.copy EXCEPT !.status = "e"] ELSE s.copy
             retry == IF s.target # s.id THEN [s.retry EXCEPT !.status = "e"] ELSE s.retry
             row == IF s.target = s.id THEN copy ELSE retry
             held == [s EXCEPT !.pc = "saveBoth", !.copy = copy, !.retry = retry]
  <2>1. /\ s \in Cancelling /\ s.copy.version < nextId /\ s.retry.version < nextId
        /\ s.id \in RowIds /\ s.id < nextId
    BY <1>0, <1>2, <1>11, SessionByPc DEF SetCancelled, SessionVersions, SessionIds
  <2>2. copy.version < nextId /\ retry.version < nextId /\ row.version < nextId
    BY <2>1 DEF Cancelling, Row
  <2>3. \/ End(w) /\ UNCHANGED db
        \/ db' = Saved(s.target, row) /\ Step(w, held)
    BY <1>11 DEF SetCancelled
  <2>4. UNCHANGED <<nextId, lis>>
    BY <1>11 DEF SetCancelled
  <2> HIDE DEF copy, retry, row
  <2>5. held.pc = "saveBoth" /\ held.id = s.id /\ held.copy = copy /\ held.retry = retry
    BY <2>1 DEF Cancelling
  <2>6. CASE db' = Saved(s.target, row) /\ Step(w, held)
    <3>1. \A i \in Ids' : db'[i].version < nextId'
      BY <1>0, <2>2, <2>4, <2>6, SavedRows DEF VersionsBounded
    <3>2. SessionVersions(w)' /\ SessionIds(w)'
      BY <1>5, <2>1, <2>2, <2>4, <2>5, <2>6 DEF SessionVersions, SessionIds
    <3> HIDE DEF held
    <3> QED
      BY <1>3, <2>4, <2>6, <3>1, <3>2
  <2> QED
    BY <1>4, <1>6, <2>3, <2>4, <2>6
<1>12. CASE SaveBoth(w)
  <2> DEFINE s == web[w]
             r == s.copy.retry
             one == Saved(s.id, s.copy)
             held == [pc |-> "version", id |-> s.id, copy |-> [s.copy EXCEPT !.cancel = FALSE]]
  <2>1. /\ s \in Cancelling /\ s.copy.version < nextId /\ s.retry.version < nextId
        /\ s.id \in RowIds /\ s.id < nextId
    BY <1>0, <1>2, <1>12, SessionByPc DEF SaveBoth, SessionVersions, SessionIds
  <2>2. \/ End(w) /\ UNCHANGED db
        \/ /\ db' \in {one, [one EXCEPT ![r] = s.retry]}
           /\ Step(w, held) \/ End(w)
    BY <1>12 DEF SaveBoth
  <2>3. UNCHANGED <<nextId, lis>>
    BY <1>12 DEF SaveBoth
  <2>4. \A j \in DOMAIN one : one[j].version < nextId
    BY <1>0, <2>1 DEF Saved, VersionsBounded, Ids
  <2> HIDE DEF one
  <2>5. \A i \in Ids' : db'[i].version < nextId'
    BY <1>4, <2>1, <2>2, <2>3, <2>4 DEF Ids
  <2>6. CASE Step(w, held)
    <3>1. held.pc = "version" /\ held.id = s.id /\ held.copy.version = s.copy.version
      BY <2>1 DEF Cancelling, Row
    <3> HIDE DEF held
    <3>2. SessionVersions(w)' /\ SessionIds(w)'
      BY <1>5, <2>1, <2>3, <2>6, <3>1 DEF SessionVersions, SessionIds
    <3> QED
      BY <1>3, <2>3, <2>5, <2>6, <3>2
  <2> QED
    BY <1>6, <2>2, <2>3, <2>5, <2>6
<1>13. CASE WebVersion(w)
  <2> DEFINE held == [pc |-> "create", id |-> web[w].id, copy |-> web[w].copy,
                      version |-> NextVersion(web[w].copy.run)]
  <2>1. Step(w, held) /\ UNCHANGED <<db, nextId, lis>>
    BY <1>13 DEF WebVersion
  <2>2. NextVersion(web[w].copy.run) <= nextId
    BY <1>0, <1>1, NextVersionAbove DEF VersionsBounded
  <2>3. SessionVersions(w)' /\ SessionIds(w)'
    BY <1>2, <1>5, <1>13, <2>1, <2>2 DEF WebVersion, SessionVersions, SessionIds
  <2> HIDE DEF held
  <2> QED
    BY <1>3, <1>4, <2>1, <2>3
<1>14. CASE WebCreate(w)
  <2> DEFINE s == web[w]
             row == NewRow(s.copy.run, s.version, "q")
             held == [pc |-> "link", id |-> s.id, copy |-> [s.copy EXCEPT !.retry = nextId],
                      version |-> s.version, new |-> nextId]
  <2>1. /\ s \in Creating /\ s.version <= nextId /\ s.version \in Nat
        /\ s.copy.version \in Nat /\ s.copy.version < nextId
        /\ s.id \in RowIds /\ s.id \in Nat /\ s.id < nextId
    BY <1>0, <1>2, <1>14, SessionByPc DEF WebCreate, SessionVersions, SessionIds, Creating, Row
  <2>2. /\ db' = Saved(nextId, row) /\ nextId' = nextId + 1 /\ UNCHANGED lis
        /\ Step(w, held)
    BY <1>14 DEF WebCreate
  <2>3. row.version = s.version /\ held.copy.version = s.copy.version
    BY <2>1 DEF NewRow, Creating, Row
  <2>4. SessionVersions(w)' /\ SessionIds(w)'
    BY <1>1, <1>5, <2>1, <2>2, <2>3 DEF SessionVersions, SessionIds
  <2> HIDE DEF row, held
  <2>5. \A i \in Ids' : db'[i].version < nextId'
    BY <1>0, <1>1, <2>1, <2>2, <2>3, SavedRows DEF VersionsBounded
  <2> QED
    BY <1>3, <2>2, <2>4, <2>5
<1>15. CASE WebLink(w)
  <2> DEFINE held == [web[w] EXCEPT !.pc = "variables"]
  <2>1. web[w] \in Sending /\ web[w].copy.version < nextId
    BY <1>0, <1>2, <1>15, SessionByPc DEF WebLink, SessionVersions
  <2>2. Step(w, held) /\ db' = Saved(web[w].id, web[w].copy) /\ UNCHANGED <<nextId, lis>>
    BY <1>15 DEF WebLink
  <2>3. \A i \in Ids' : db'[i].version < nextId'
    BY <1>0, <2>1, <2>2, SavedRows DEF VersionsBounded
  <2>4. web'[w].pc = "variables"
    BY <1>5, <2>1, <2>2 DEF Sending
  <2> HIDE DEF held
  <2> QED
    BY <1>3, <2>2, <2>3, <2>4 DEF SessionVersions, SessionIds
<1>16. CASE WebVariables(w)
  <2> DEFINE held == [web[w] EXCEPT !.pc = "send"]
  <2>1. UNCHANGED <<db, nextId, lis>> /\ (End(w) \/ Step(w, held))
    BY <1>16 DEF WebVariables
  <2>2. held.pc = "send"
    BY <1>0, <1>16, SessionByPc DEF WebVariables, Sending
  <2>3. CASE Step(w, held)
    <3>1. web'[w].pc = "send"
      BY <1>5, <2>2, <2>3
    <3> HIDE DEF held
    <3> QED
      BY <1>3, <1>4, <2>1, <2>3, <3>1 DEF SessionVersions, SessionIds
  <2> QED
    BY <1>4, <1>6, <2>1, <2>3
<1>17. CASE WebSend(w)
  BY <1>4, <1>6, <1>17 DEF WebSend
<1>18. CASE WebSendFails(w)
  <2>1. \A i \in Ids' : db'[i].version < nextId'
    BY <1>0, <1>18, RemovedRows DEF WebSendFails, VersionsBounded
  <2> QED
    BY <1>6, <1>18, <2>1 DEF WebSendFails
<1>19. CASE Hide(w)
  <2> DEFINE held == [pc |-> "hide", id |-> Chosen(w), copy |-> db[Chosen(w)]]
  <2>1. /\ (Chosen(w) \in Ids /\ Step(w, held)) \/ End(w)
        /\ UNCHANGED <<db, nextId, lis>>
    BY <1>19 DEF Hide
  <2>2. CASE Chosen(w) \in Ids /\ Step(w, held)
    <3>1. Chosen(w) \in RowIds /\ Chosen(w) < nextId /\ db[Chosen(w)].version < nextId
      BY <1>0, <2>2 DEF TableOK, NewRowsKept, RowsLinked, VersionsBounded
    <3>2. SessionVersions(w)' /\ SessionIds(w)'
      BY <1>5, <2>1, <2>2, <3>1 DEF SessionVersions, SessionIds
    <3> QED
      BY <1>3, <1>4, <2>1, <2>2, <3>2
  <2> QED
    BY <1>4, <1>6, <2>1, <2>2
<1>20. CASE SaveHidden(w)
  <2>1. web[w].copy.version < nextId
    BY <1>2, <1>20 DEF SaveHidden, SessionVersions
  <2>2. End(w) /\ UNCHANGED <<nextId, lis>>
    BY <1>20 DEF SaveHidden
  <2>3. UNCHANGED db \/ db' = Saved(web[w].id, web[w].copy)
    BY <1>20 DEF SaveHidden
  <2>4. \A i \in Ids' : db'[i].version < nextId'
    BY <1>0, <1>4, <2>1, <2>2, <2>3, SavedRows DEF VersionsBounded
  <2> QED
    BY <1>6, <2>2, <2>4
<1> QED
  BY <1>7, <1>8, <1>9, <1>10, <1>11, <1>12, <1>13, <1>14, <1>15, <1>16, <1>17, <1>18, <1>19, <1>20
     DEF Session


(***************************************************************************)
(* Every step keeps a new row until the run it retries has been linked.    *)
(***************************************************************************)
LEMMA SavedLinked ==
  ASSUME IInv, NEW i \in Nat, NEW row, db' = Saved(i, row),
         nextId' \in {nextId, nextId + 1}, i < nextId', row.retry = 0 \/ row.retry \in Ids
  PROVE  RowsLinked' /\ Ids \subseteq Ids'
<1>1. nextId \in Nat /\ RowsLinked /\ Ids \subseteq Nat
  BY RowIdsAssumption DEF IInv, TypeOK, TableOK, NewRowsKept
<1>2. Ids' = Ids \cup {i} /\ db'[i] = row /\ \A j \in Ids \ {i} : db'[j] = db[j]
  BY SavedRows
<1>3. ASSUME NEW j \in Ids' PROVE j < nextId' /\ (db'[j].retry = 0 \/ db'[j].retry \in Ids')
  <2>1. CASE j = i
    BY <1>2, <2>1
  <2>2. CASE j # i
    <3>1. j \in Ids /\ db'[j] = db[j] /\ j \in Nat
      BY <1>1, <1>2, <2>2
    <3>2. j < nextId /\ (db[j].retry = 0 \/ db[j].retry \in Ids)
      BY <1>1, <3>1 DEF RowsLinked, Dangling
    <3> QED
      BY <1>1, <1>2, <3>1, <3>2
  <2> QED
    BY <2>1, <2>2
<1> QED
  BY <1>2, <1>3 DEF RowsLinked, Dangling

LEMMA RemovedLinked ==
  ASSUME IInv, NEW i, db' = Removed(i), nextId' = nextId
  PROVE  RowsLinked' /\ Ids' = Ids \ {i}
<1>1. RowsLinked /\ TypeOK
  BY DEF IInv, NewRowsKept
<1> QED
  BY <1>1, RemovedRows DEF RowsLinked, Dangling

LEMMA ListenerNewRows ==
  ASSUME IInv, Listener
  PROVE  NewRowsKept'
<1> USE DEF IInv
<1>0. TypeOK /\ TableOK /\ NewRowsKept /\ IdsGivenOut /\ RowsLinked
  BY DEF TypeOK, NewRowsKept
<1>1. nextId \in Nat /\ RowIds \subseteq Nat
  BY <1>0, RowIdsAssumption DEF TableOK
<1>2. UNCHANGED <<db, nextId>> => RowsLinked' /\ Ids \subseteq Ids'
  BY <1>0 DEF RowsLinked, Dangling, Ids
\* A step that gives the listener no new row.
<1>3. ASSUME RowsLinked', Ids \subseteq Ids', UNCHANGED web,
             ListenerHolds' => ListenerHolds /\ lis'.new = lis.new /\ lis'.pc # "retryLink"
      PROVE  NewRowsKept'
  <2>1. \A w \in Sessions : Holds(w)' = Holds(w)
    BY <1>3 DEF Holds
  <2> QED
    BY <1>0, <1>3, <2>1 DEF NewRowsKept, ListenerHolds
<1>4. ASSUME NEW m, DataReady(m) PROVE NewRowsKept'
  BY <1>2, <1>3, <1>4 DEF DataReady, ListenerHolds
<1>5. ASSUME NEW m, FindRun(m) PROVE NewRowsKept'
  BY <1>2, <1>3, <1>5 DEF FindRun, ListenerHolds
<1>6. ASSUME NEW m, RefuseReport(m) PROVE NewRowsKept'
  BY <1>2, <1>3, <1>6 DEF RefuseReport, Receive, Waiting, ListenerHolds
<1>7. CASE ReadVersion
  <2>1. lis'.pc = "script"
    BY <1>0, <1>7, ListenerByPc DEF ReadVersion, Filing
  <2> QED
    BY <1>2, <1>3, <1>7, <2>1 DEF ReadVersion, ListenerHolds
<1>8. CASE ScriptFound
  <2>1. lis'.pc = "save"
    BY <1>0, <1>8, ListenerByPc DEF ScriptFound, Filing
  <2> QED
    BY <1>2, <1>3, <1>8, <2>1 DEF ScriptFound, ListenerHolds
<1>9. CASE ScriptMissing
  <2>1. RowsLinked' /\ Ids \subseteq Ids'
    <3>1. CASE Matching(lis.msg) = {}
      BY <1>2, <1>9, <3>1 DEF ScriptMissing
    <3>2. CASE Matching(lis.msg) # {}
      <4> DEFINE i == LeastId(Matching(lis.msg))
                 row == [db[i] EXCEPT !.status = "e"]
      <4>1. i \in Ids /\ db[i] \in Row /\ i \in Nat /\ i < nextId
        BY <1>0, <1>1, <3>2, MatchingLeast DEF TableOK, RowsLinked
      <4>2. db' = Saved(i, row) /\ nextId' = nextId
        BY <1>9, <3>2 DEF ScriptMissing
      <4>3. row.retry = 0 \/ row.retry \in Ids
        BY <1>0, <4>1 DEF Row, RowsLinked, Dangling
      <4> HIDE DEF i, row
      <4> QED
        BY <4>1, <4>2, <4>3, SavedLinked
    <3> QED
      BY <3>1, <3>2
  <2> QED
    BY <1>3, <1>9, <2>1 DEF ScriptMissing, Return, Waiting, ListenerHolds
<1>10. CASE SaveRun
  <2> DEFINE row == NewRow(lis.msg.run, lis.msg.version, IF lis.paused THEN "s" ELSE "q")
  <2>1. db' = Saved(nextId, row) /\ row.retry = 0 /\ nextId' = nextId + 1
    BY <1>10 DEF SaveRun, NewRow
  <2> HIDE DEF row
  <2>2. RowsLinked' /\ Ids \subseteq Ids'
    BY <1>1, <2>1, SavedLinked
  <2> QED
    BY <1>3, <1>10, <2>2 DEF SaveRun, ListenerHolds
<1>11. CASE SaveDataLocation
  <2>1. lis'.pc = "variables"
    BY <1>0, <1>11, ListenerByPc DEF SaveDataLocation, Filed
  <2> QED
    BY <1>2, <1>3, <1>11, <2>1 DEF SaveDataLocation, ListenerHolds
<1>12. CASE CreateVariables
  <2>1. lis'.pc \in {"forward", "stopped"}
    BY <1>0, <1>12, ListenerByPc DEF CreateVariables, Filed, Die, Stopped
  <2> QED
    BY <1>2, <1>3, <1>12, <2>1 DEF CreateVariables, ListenerHolds
<1>13. CASE Forward
  BY <1>2, <1>3, <1>13 DEF Forward, Return, Waiting, ListenerHolds
<1>14. CASE SaveReport
  <2>1. lis \in Reporting /\ lis.id \in Nat /\ lis.id < nextId
    BY <1>0, <1>1, <1>14, ListenerByPc DEF SaveReport, IdsGivenOut
  <2>2. UNCHANGED <<nextId, web>>
    BY <1>14 DEF SaveReport
  <2>3. RowsLinked' /\ Ids \subseteq Ids'
    <3>1. CASE Dangling(lis.copy)
      BY <1>2, <1>14, <3>1 DEF SaveReport
    <3>2. CASE ~Dangling(lis.copy)
      <4>1. db' = Saved(lis.id, lis.copy) /\ (lis.copy.retry = 0 \/ lis.copy.retry \in Ids)
        BY <1>14, <3>2 DEF SaveReport, Dangling
      <4> QED
        BY <2>1, <2>2, <4>1, SavedLinked
    <3> QED
      BY <3>1, <3>2
  <2>4. lis' \in {Waiting, Stopped, [lis EXCEPT !.pc = "retry"]}
    BY <1>14 DEF SaveReport, Return, Die
  <2>5. lis'.pc \in {"wait", "stopped", "retry"}
    BY <2>1, <2>4 DEF Waiting, Stopped, Reporting
  <2> QED
    BY <1>3, <2>2, <2>3, <2>5 DEF ListenerHolds
<1>15. CASE RetryRun
  <2> DEFINE held == [lis EXCEPT !.pc = "retrySave", !.msg.version = NextVersion(lis.msg.run)]
  <2>1. held.pc = "retrySave"
    BY <1>0, <1>15, ListenerByPc DEF RetryRun, Reporting
  <2>2. lis' \in {Waiting, held}
    BY <1>15 DEF RetryRun, Return
  <2> HIDE DEF held
  <2>3. lis'.pc \in {"wait", "retrySave"}
    BY <2>1, <2>2 DEF Waiting
  <2> QED
    BY <1>2, <1>3, <1>15, <2>3 DEF RetryRun, ListenerHolds
<1>16. CASE SaveRetry
  <2> DEFINE row == NewRow(lis.msg.run, lis.msg.version, "q")
  <2>1. /\ db' = Saved(nextId, row) /\ row.retry = 0 /\ nextId' = nextId + 1
        /\ UNCHANGED web /\ lis \in Reporting
    BY <1>0, <1>16, ListenerByPc DEF SaveRetry, NewRow
  <2> HIDE DEF row
  <2>2. RowsLinked' /\ Ids' = Ids \cup {nextId}
    BY <1>1, <2>1, SavedLinked, SavedRows
  <2>3. lis'.pc = "retryLink" /\ lis'.new = nextId /\ lis'.copy.retry = nextId
    BY <1>16, <2>1 DEF SaveRetry, Reporting, Row
  <2>4. \A w \in Sessions : Holds(w) => web[w].new \in Ids /\ web[w].new # nextId
    BY <1>0, <1>1 DEF NewRowsKept, RowsLinked, TableOK
  <2>5. \A w \in Sessions : Holds(w)' = Holds(w)
    BY <2>1 DEF Holds
  <2> QED
    BY <1>0, <2>1, <2>2, <2>3, <2>4, <2>5 DEF NewRowsKept
<1>17. CASE LinkRetry
  <2>1. lis \in Retrying /\ lis.id \in Nat /\ lis.id < nextId /\ ListenerHolds
    BY <1>0, <1>1, <1>17, ListenerByPc DEF LinkRetry, IdsGivenOut, ListenerHolds
  <2>2. lis.copy.retry = lis.new /\ lis.new \in Ids
    BY <1>0, <1>17, <2>1 DEF LinkRetry, NewRowsKept
  <2>3. db' = Saved(lis.id, lis.copy) /\ UNCHANGED <<nextId, web>>
    BY <1>17 DEF LinkRetry
  <2>4. RowsLinked' /\ Ids \subseteq Ids'
    BY <2>1, <2>2, <2>3, SavedLinked
  <2>5. lis'.pc = "retryVariables" /\ lis'.new = lis.new
    BY <1>17, <2>1 DEF LinkRetry, Retrying
  <2> QED
    BY <1>3, <2>1, <2>3, <2>4, <2>5
<1>18. CASE RetryVariables
  <2>1. lis \in Retrying /\ ListenerHolds /\ UNCHANGED <<nextId, web>>
    BY <1>0, <1>18, ListenerByPc DEF RetryVariables, ListenerHolds
  <2>2. CASE UNCHANGED db /\ lis' = [lis EXCEPT !.pc = "retrySend"]
    <3>1. lis'.pc = "retrySend" /\ lis'.new = lis.new
      BY <2>1, <2>2 DEF Retrying
    <3> QED
      BY <1>2, <1>3, <2>1, <2>2, <3>1
  <2>3. CASE Die /\ db' = Removed(lis.new)
    <3>1. RowsLinked' /\ Ids' = Ids \ {lis.new}
      BY <2>1, <2>3, RemovedLinked
    <3>2. \A w \in Sessions : Holds(w)' = Holds(w)
      BY <2>1 DEF Holds
    <3>3. ~ListenerHolds' /\ lis'.pc # "retryLink"
      BY <2>3 DEF Die, Stopped, ListenerHolds
    <3> QED
      BY <1>0, <2>1, <3>1, <3>2, <3>3 DEF NewRowsKept
  <2> QED
    BY <1>18, <2>2, <2>3 DEF RetryVariables
<1>19. CASE RetrySend
  BY <1>2, <1>3, <1>19 DEF RetrySend, Die, Stopped, ListenerHolds
<1> QED
  BY <1>4, <1>5, <1>6, <1>7, <1>8, <1>9, <1>10, <1>11, <1>12, <1>13, <1>14, <1>15, <1>16, <1>17,
     <1>18, <1>19 DEF Listener


LEMMA SessionNewRows ==
  ASSUME IInv, NEW w \in Sessions, Session(w)
  PROVE  NewRowsKept'
<1> USE DEF IInv
<1>0. TypeOK /\ TableOK /\ NewRowsKept /\ RowsLinked
  BY DEF TypeOK, NewRowsKept
<1>1. nextId \in Nat /\ RowIds \subseteq Nat
  BY <1>0, RowIdsAssumption DEF TableOK
<1>2. SessionIds(w)
  BY DEF IdsGivenOut
<1>3. UNCHANGED <<db, nextId>> => RowsLinked' /\ Ids \subseteq Ids'
  BY <1>0 DEF RowsLinked, Dangling, Ids
<1>4. ASSUME NEW s, Step(w, s)
      PROVE  web'[w] = s /\ \A v \in Sessions \ {w} : web'[v] = web[v] /\ Holds(v)' = Holds(v)
  BY <1>0, <1>4 DEF TypeOK, Step, Holds
\* A step that gives the session no new row.
<1>5. ASSUME NEW s, Step(w, s), RowsLinked', Ids \subseteq Ids', UNCHANGED lis,
             Holds(w)' => Holds(w) /\ s.new = web[w].new /\ s.pc # "link"
      PROVE  NewRowsKept'
  <2>1. web'[w] = s /\ \A v \in Sessions \ {w} : web'[v] = web[v] /\ Holds(v)' = Holds(v)
    BY <1>4, <1>5
  <2>2. /\ ListenerHolds' = ListenerHolds
        /\ ListenerHolds => lis.new \in Ids'
        /\ lis.pc = "retryLink" => lis.copy.retry = lis.new
    BY <1>0, <1>5 DEF ListenerHolds, NewRowsKept
  <2>3. ASSUME NEW v \in Sessions, Holds(v)'
        PROVE  /\ Holds(v) /\ web'[v].new = web[v].new /\ web'[v].new \in Ids'
               /\ web'[v].pc = "link" => web'[v].copy.retry = web'[v].new
               /\ ListenerHolds => web'[v].new # lis.new
    BY <1>0, <1>5, <2>1, <2>3 DEF NewRowsKept
  <2>4. ASSUME NEW v \in Sessions, NEW u \in Sessions \ {v}, Holds(v)', Holds(u)'
        PROVE  web'[u].new # web'[v].new
    BY <1>0, <2>3, <2>4 DEF NewRowsKept
  <2> QED
    BY <1>5, <2>2, <2>3, <2>4 DEF NewRowsKept
<1>6. ASSUME NEW s, Step(w, s), RowsLinked', Ids \subseteq Ids', UNCHANGED lis,
             s.pc \notin {"link", "variables", "send"}
      PROVE  NewRowsKept'
  <2>1. ~Holds(w)'
    BY <1>4, <1>6 DEF Holds
  <2> QED
    BY <1>5, <1>6, <2>1
<1>7. ASSUME End(w), RowsLinked', Ids \subseteq Ids', UNCHANGED lis
      PROVE  NewRowsKept'
  BY <1>6, <1>7 DEF End, NoPage
<1>8. ASSUME NEW i \in Ids, ShowFailed(w, i) PROVE NewRowsKept'
  BY <1>3, <1>6, <1>8 DEF ShowFailed
<1>9. ASSUME NEW rerun \in BOOLEAN, Post(w, rerun) PROVE NewRowsKept'
  <2>1. \E t, c, r : \/ End(w)
                     \/ \E pc \in {"saveBoth", "cancel"} :
                          Step(w, [pc |-> pc, id |-> Chosen(w), rerun |-> rerun, target |-> t,
                                   copy |-> c, retry |-> r])
    BY <1>9 DEF Post
  <2> QED
    BY <1>3, <1>6, <1>7, <1>9, <2>1 DEF Post
<1>10. ASSUME NEW r \in Runs, Confirm(w, r) PROVE NewRowsKept'
  BY <1>3, <1>6, <1>10 DEF Confirm
<1>11. CASE SendCancel(w)
  <2>1. [web[w] EXCEPT !.pc = "setCancelled"].pc = "setCancelled"
    BY <1>0, <1>11, SessionByPc DEF SendCancel, Cancelling
  <2>2. End(w) \/ Step(w, [web[w] EXCEPT !.pc = "setCancelled"])
    BY <1>11 DEF SendCancel
  <2> QED
    BY <1>3, <1>6, <1>7, <1>11, <2>1, <2>2 DEF SendCancel
<1>12. CASE SetCancelled(w)
  <2> DEFINE s == web[w]
             copy == IF s.target = s.id THEN [s.copy EXCEPT !.status = "e"] ELSE s.copy
             retry == IF s.target # s.id THEN [s.retry EXCEPT !.status = "e"] ELSE s.retry
             row == IF s.target = s.id THEN copy ELSE retry
             held == [s EXCEPT !.pc = "saveBoth", !.copy = copy, !.retry = retry]
  <2>1. UNCHANGED <<nextId, lis>>
    BY <1>12 DEF SetCancelled
  <2>2. \/ End(w) /\ UNCHANGED db
        \/ ~Dangling(row) /\ db' = Saved(s.target, row) /\ Step(w, held)
    BY <1>12 DEF SetCancelled
  <2>3. s \in Cancelling /\ s.target \in Nat /\ s.target < nextId
    BY <1>1, <1>2, <1>0, <1>12, SessionByPc DEF SetCancelled, SessionIds
  <2> HIDE DEF copy, retry, row
  <2>4. held.pc = "saveBoth"
    BY <2>3 DEF Cancelling
  <2> HIDE DEF held
  <2>5. CASE ~Dangling(row) /\ db' = Saved(s.target, row) /\ Step(w, held)
    <3>1. row.retry = 0 \/ row.retry \in Ids
      BY <2>5 DEF Dangling
    <3>2. RowsLinked' /\ Ids \subseteq Ids'
      BY <2>1, <2>3, <2>5, <3>1, SavedLinked
    <3> QED
      BY <1>6, <2>1, <2>4, <2>5, <3>2
  <2> QED
    BY <1>3, <1>7, <2>1, <2>2, <2>5
<1>13. CASE SaveBoth(w)
  <2> DEFINE s == web[w]
             r == s.copy.retry
             one == Saved(s.id, s.copy)
             held == [pc |-> "version", id |-> s.id, copy |-> [s.copy EXCEPT !.cancel = FALSE]]
  <2>1. UNCHANGED <<nextId, lis>>
    BY <1>13 DEF SaveBoth
  <2>2. s \in Cancelling /\ s.id \in Nat /\ s.id < nextId
    BY <1>0, <1>1, <1>2, <1>13, SessionByPc DEF SaveBoth, SessionIds
  <2>3. RowsLinked' /\ Ids \subseteq Ids' /\ (End(w) \/ Step(w, held))
    <3>1. CASE Dangling(s.copy) \/ (r # 0 /\ s.target # s.id /\ Dangling(s.retry))
      BY <1>3, <1>13, <2>1, <3>1 DEF SaveBoth
    <3>2. CASE ~(Dangling(s.copy) \/ (r # 0 /\ s.target # s.id /\ Dangling(s.retry)))
      <4>1. /\ db' = IF r = 0 \/ s.target = s.id THEN one ELSE [one EXCEPT ![r] = s.retry]
            /\ End(w) \/ Step(w, held)
        BY <1>13, <3>2 DEF SaveBoth
      <4>2. r = 0 \/ r \in Ids
        BY <3>2 DEF Dangling
      <4>3. CASE db' = one
        BY <2>1, <2>2, <4>1, <4>2, <4>3, SavedLinked
      <4>4. CASE r # 0 /\ s.target # s.id /\ db' = [one EXCEPT ![r] = s.retry]
        <5>1. s.retry.retry = 0 \/ s.retry.retry \in Ids
          BY <3>2, <4>4 DEF Dangling
        <5>2. DOMAIN one = Ids \cup {s.id}
          BY DEF Saved
        <5>3. \A j \in DOMAIN one : one[j] = IF j = s.id THEN s.copy ELSE db[j]
          BY DEF Saved
        <5> HIDE DEF one
        <5>4. Ids' = Ids \cup {s.id}
          BY <4>4, <5>2 DEF Ids
        <5>5. ASSUME NEW j \in Ids'
              PROVE  j < nextId' /\ (db'[j].retry = 0 \/ db'[j].retry \in Ids')
          <6>1. CASE j = r
            BY <1>0, <2>1, <4>2, <4>4, <5>1, <5>2, <5>4, <6>1 DEF RowsLinked
          <6>2. CASE j = s.id /\ j # r
            BY <2>1, <2>2, <4>2, <4>4, <5>2, <5>3, <5>4, <6>2
          <6>3. CASE j # s.id /\ j # r
            BY <1>0, <2>1, <4>4, <5>2, <5>3, <5>4, <6>3 DEF RowsLinked, Dangling
          <6> QED
            BY <6>1, <6>2, <6>3
        <5> QED
          BY <4>1, <5>4, <5>5 DEF RowsLinked, Dangling
      <4> QED
        BY <4>1, <4>3, <4>4
    <3> QED
      BY <3>1, <3>2
  <2> QED
    BY <1>6, <1>7, <2>1, <2>3
<1>14. CASE WebVersion(w)
  BY <1>3, <1>6, <1>14 DEF WebVersion
<1>15. CASE WebCreate(w)
  <2> DEFINE s == web[w]
             row == NewRow(s.copy.run, s.version, "q")
             held == [pc |-> "link", id |-> s.id, copy |-> [s.copy EXCEPT !.retry = nextId],
                      version |-> s.version, new |-> nextId]
  <2>1. /\ db' = Saved(nextId, row) /\ row.retry = 0 /\ nextId' = nextId + 1
        /\ UNCHANGED lis /\ Step(w, held)
    BY <1>15 DEF WebCreate, NewRow
  <2>2. held.pc = "link" /\ held.new = nextId /\ held.copy.retry = nextId
    BY <1>0, <1>15, SessionByPc DEF WebCreate, Creating, Row
  <2> HIDE DEF row, held
  <2>3. RowsLinked' /\ Ids' = Ids \cup {nextId}
    BY <1>1, <2>1, SavedLinked, SavedRows
  <2>4. nextId \notin Ids
    BY <1>0, <1>1 DEF RowsLinked, TableOK
  <2>5. web'[w] = held /\ \A v \in Sessions \ {w} : web'[v] = web[v] /\ Holds(v)' = Holds(v)
    BY <1>4, <2>1
  <2>6. /\ ListenerHolds' = ListenerHolds
        /\ ListenerHolds => lis.new \in Ids' /\ lis.new # nextId
        /\ lis.pc = "retryLink" => lis.copy.retry = lis.new
    BY <1>0, <2>1, <2>3, <2>4 DEF ListenerHolds, NewRowsKept
  <2>7. ASSUME NEW v \in Sessions \ {w}, Holds(v)'
        PROVE  /\ Holds(v) /\ web'[v] = web[v] /\ web[v].new \in Ids /\ web[v].new # nextId
               /\ web[v].pc = "link" => web[v].copy.retry = web[v].new
               /\ ListenerHolds => web[v].new # lis.new
    BY <1>0, <2>4, <2>5, <2>7 DEF NewRowsKept
  <2>8. \A v \in Sessions, u \in Sessions : u # v /\ Holds(v)' /\ Holds(u)' => web'[u].new # web'[v].new
    BY <1>0, <2>2, <2>5, <2>7 DEF NewRowsKept
  <2> QED
    BY <2>1, <2>2, <2>3, <2>5, <2>6, <2>7, <2>8 DEF NewRowsKept
<1>16. CASE WebLink(w)
  <2> DEFINE held == [web[w] EXCEPT !.pc = "variables"]
  <2>1. web[w] \in Sending /\ web[w].id \in Nat /\ web[w].id < nextId /\ Holds(w)
    BY <1>0, <1>1, <1>2, <1>16, SessionByPc DEF WebLink, SessionIds, Holds
  <2>2. web[w].copy.retry \in Ids
    BY <1>0, <1>16, <2>1 DEF WebLink, NewRowsKept
  <2>3. Step(w, held) /\ db' = Saved(web[w].id, web[w].copy) /\ UNCHANGED <<nextId, lis>>
    BY <1>16 DEF WebLink
  <2>4. held.pc = "variables" /\ held.new = web[w].new
    BY <2>1 DEF Sending
  <2> HIDE DEF held
  <2>5. RowsLinked' /\ Ids \subseteq Ids'
    BY <2>1, <2>2, <2>3, SavedLinked
  <2> QED
    BY <1>5, <2>1, <2>3, <2>4, <2>5
<1>17. CASE WebVariables(w)
  <2> DEFINE held == [web[w] EXCEPT !.pc = "send"]
  <2>1. web[w] \in Sending /\ Holds(w)
    BY <1>0, <1>17, SessionByPc DEF WebVariables, Holds
  <2>2. UNCHANGED <<db, nextId, lis>> /\ (End(w) \/ Step(w, held))
    BY <1>17 DEF WebVariables
  <2>3. held.pc = "send" /\ held.new = web[w].new
    BY <2>1 DEF Sending
  <2> HIDE DEF held
  <2> QED
    BY <1>3, <1>5, <1>7, <2>1, <2>2, <2>3
<1>18. CASE WebSend(w)
  BY <1>3, <1>7, <1>18 DEF WebSend
<1>19. CASE WebSendFails(w)
  <2>1. Holds(w)
    BY <1>19 DEF WebSendFails, Holds
  <2>2. RowsLinked' /\ Ids' = Ids \ {web[w].new} /\ UNCHANGED lis
    BY <1>19, RemovedLinked DEF WebSendFails
  <2>3. web'[w] = NoPage /\ \A v \in Sessions \ {w} : web'[v] = web[v] /\ Holds(v)' = Holds(v)
    BY <1>4, <1>19 DEF WebSendFails, End
  <2>4. ~Holds(w)'
    BY <2>3 DEF Holds, NoPage
  <2>5. /\ ListenerHolds' = ListenerHolds
        /\ ListenerHolds => lis.new \in Ids'
        /\ lis.pc = "retryLink" => lis.copy.retry = lis.new
    BY <1>0, <2>1, <2>2 DEF ListenerHolds, NewRowsKept
  <2>6. ASSUME NEW v \in Sessions \ {w}, Holds(v)'
        PROVE  /\ Holds(v) /\ web'[v] = web[v] /\ web[v].new \in Ids'
               /\ web[v].pc = "link" => web[v].copy.retry = web[v].new
               /\ ListenerHolds => web[v].new # lis.new
    BY <1>0, <2>1, <2>2, <2>3, <2>6 DEF NewRowsKept
  <2>7. \A v \in Sessions, u \in Sessions : u # v /\ Holds(v)' /\ Holds(u)' => web'[u].new # web'[v].new
    BY <1>0, <2>4, <2>6 DEF NewRowsKept
  <2> QED
    BY <2>2, <2>3, <2>4, <2>5, <2>6, <2>7 DEF NewRowsKept
<1>20. CASE Hide(w)
  <2>1. End(w) \/ Step(w, [pc |-> "hide", id |-> Chosen(w), copy |-> db[Chosen(w)]])
    BY <1>20 DEF Hide
  <2> QED
    BY <1>3, <1>6, <1>7, <1>20, <2>1 DEF Hide
<1>21. CASE SaveHidden(w)
  <2>1. web[w].id \in Nat /\ web[w].id < nextId
    BY <1>1, <1>2, <1>21 DEF SaveHidden, SessionIds
  <2>2. End(w) /\ UNCHANGED <<nextId, lis>>
    BY <1>21 DEF SaveHidden
  <2>3. \/ UNCHANGED db
        \/ ~Dangling(web[w].copy) /\ db' = Saved(web[w].id, web[w].copy)
    BY <1>21 DEF SaveHidden
  <2>4. RowsLinked' /\ Ids \subseteq Ids'
    BY <1>3, <2>1, <2>2, <2>3, SavedLinked DEF Dangling
  <2> QED
    BY <1>7, <2>2, <2>4
<1> QED
  BY <1>8, <1>9, <1>10, <1>11, <1>12, <1>13, <1>14, <1>15, <1>16, <1>17, <1>18, <1>19, <1>20, <1>21
     DEF Session

-----------------------------------------------------------------------------
(***************************************************************************)
(* At every step each table row, message and held record is of its type:   *)
(* the highest version exists whenever it is asked for, and retry_run can  *)
(* be followed.                                                            *)
(***************************************************************************)
LEMMA InitInv ==
  ASSUME Init
  PROVE  IInv
<1>1. DOMAIN db = {}
  BY DEF Init
<1>2. TypeOK
  <2>0. Ids = {}
    BY <1>1 DEF Ids
  <2>1. nextId \in Nat \ {0} /\ located \subseteq Nat
    BY DEF Init
  <2>2. paused \in BOOLEAN
    BY DEF Init
  <2>3. TableOK
    BY <2>0, <2>1, <2>2 DEF TableOK
  <2>4. queue \in [Destination -> Seq(Message)] /\ inbox \in Seq(Message)
    BY NothingReceived DEF Init
  <2>5. budget \in [{"ready", "posts", "retries", "faults"} -> Nat]
    BY BoundsAssumption DEF Init
  <2>6. QueuesOK
    BY <2>4, <2>5 DEF Init, QueuesOK
  <2>7. lis \in ListenerState /\ web \in [Sessions -> SessionState]
    BY DEF Init, ListenerState, SessionState
  <2> QED
    BY <2>3, <2>6, <2>7 DEF TypeOK
<1>3. \A w \in Sessions : web[w] = NoPage
  BY DEF Init
<1>4. VersionsBounded /\ IdsGivenOut
  BY <1>1, <1>3 DEF Init, VersionsBounded, IdsGivenOut, SessionVersions, SessionIds, Ids, NoPage, Waiting
<1>5. NewRowsKept
  BY <1>1, <1>3 DEF Init, NewRowsKept, RowsLinked, ListenerHolds, Holds, Ids, NoPage, Waiting
<1> QED
  BY <1>2, <1>4, <1>5 DEF IInv

LEMMA StepInv ==
  ASSUME IInv, [Next]_vars
  PROVE  IInv'
<1> DEFINE Environment ==
             \/ \E r \in Runs : Submit(r)
             \/ \E d \in Subscribed : Dispatch(d)
             \/ TogglePause \/ Kill \/ Restart
<1>1. CASE Environment
  <2>1. UNCHANGED <<db, nextId, web>> /\ lis' \in {lis, Waiting, Stopped}
    BY <1>1 DEF Submit, TogglePause, Dispatch, Kill, Restart, Die
  <2> QED
    BY <1>1, <2>1, EnvironmentType, OthersKept DEF IInv
<1>2. CASE Listener
  BY <1>2, ListenerType, ListenerVersions, ListenerNewRows DEF IInv
<1>3. CASE Node
  <2>1. UNCHANGED <<db, nextId, web, lis>>
    BY <1>3 DEF Node, NodeCancel, NodeDrop, NodeStart, NodeReject, NodeTake, NodeReport, NodeDie
  <2> QED
    BY <1>3, <2>1, NodeType, OthersKept DEF IInv
<1>4. ASSUME NEW w \in Sessions, Session(w) PROVE IInv'
  BY <1>4, SessionType, SessionVersionsStep, SessionNewRows DEF IInv
<1>5. CASE UNCHANGED vars
  <2>1. TypeOK'
    BY <1>5 DEF vars, IInv, TypeOK, TableOK, QueuesOK, Ids
  <2> QED
    BY <1>5, <2>1, OthersKept DEF vars, IInv
<1>6. Next => Environment \/ Listener \/ Node \/ \E w \in Sessions : Session(w)
  BY Zenon DEF Next
<1> HIDE DEF Environment
<1> QED
  BY <1>1, <1>2, <1>3, <1>4, <1>5, <1>6

(***************************************************************************)
(* The inductive invariant holds in every reachable state: the types, and  *)
(* what an actor holds is a row, a record or a message that exists or that *)
(* the actor knows to have existed.                                        *)
(***************************************************************************)
THEOREM Invariance == Spec => []IInv
<1>1. Init => IInv
  BY InitInv
<1>2. IInv /\ [Next]_vars => IInv'
  BY StepInv
<1> QED
  BY <1>1, <1>2, PTL DEF Spec

(***************************************************************************)
(* Rows, messages and held records keep their types however the listener,  *)
(* the node and any number of web sessions interleave, fail and restart.   *)
(***************************************************************************)
THEOREM TypeCorrect == Spec => []TypeOK
<1>1. IInv => TypeOK
  BY DEF IInv
<1> QED
  BY <1>1, Invariance, PTL
-----------------------------------------------------------------------------
(***************************************************************************)
(* What has been sent for reduction, for any number of web sessions beside *)
(* the listener, is in the table and has a data file.  Rows are taken back *)
(* when a step after their filing fails, and records that were read long   *)
(* ago are saved again, so the argument is about who may still take a row  *)
(* back, and about what an identifier stands for in everybody's memory.    *)
(***************************************************************************)

(***************************************************************************)
(* An identifier stands for one run and version, in the table and in every *)
(* record that the listener or a session holds and may save.               *)
(***************************************************************************)
TableKnows == {<<i, Job(db[i])>> : i \in Ids}

ListenerKnows ==
  IF lis.pc \in {"report", "retry", "retrySave", "retryLink"} THEN {<<lis.id, Job(lis.copy)>>} ELSE {}

Memory(s) ==
  (IF s.pc \in {"cancel", "setCancelled", "saveBoth", "hide", "version", "create", "link"}
     THEN {<<s.id, Job(s.copy)>>} ELSE {})
  \cup (IF s.pc \in {"cancel", "setCancelled", "saveBoth"} /\ s.copy.retry # 0
          THEN {<<s.copy.retry, Job(s.retry)>>} ELSE {})

SessionKnows(w) == Memory(web[w])

Known == TableKnows \cup ListenerKnows \cup UNION {SessionKnows(w) : w \in Sessions}

Agree == \A a, b \in Known : a[1] = b[1] => a[2] = b[2]
Given == \A a \in Known : a[1] \in Nat /\ a[1] < nextId
Targeted(s) ==
  s.pc \in {"cancel", "setCancelled"} => s.target # 0 /\ s.target \in {s.id, s.copy.retry}
Targets == \A w \in Sessions : Targeted(web[w])

Identified == Agree /\ Given /\ Targets

(***************************************************************************)
(* A row is kept when nobody may take it back.  The rows of what has been  *)
(* sent are kept and located, and so are those of what is reported on.     *)
(***************************************************************************)
Kept(i) ==
  /\ i \in Ids /\ (ListenerHolds => lis.new # i)
  /\ \A w \in Sessions : Holds(w) => web[w].new # i

NewRowHeld ==
  \A w \in Sessions : Holds(w) =>
    Job(db[web[w].new]) = [run |-> web[w].copy.run, version |-> web[w].version]

FiledKept ==
  lis.pc \in {"locate", "variables", "forward"} =>
    /\ Kept(lis.id) /\ Job(db[lis.id]) = Job(lis.msg)
    /\ lis.pc # "locate" => lis.id \in located

\* What a job or a message about it rests on.
Reducible(j) == \E i \in located : Kept(i) /\ Job(db[i]) = j
JobsKept == \A j \in AboutRuns \ withdrawn : Reducible(j)

\* A job is withdrawn only by a session, and only in a fault.
Noted == budget.faults <= MaxFaults /\ (withdrawn # {} => Sessions # {} /\ budget.faults < MaxFaults)

\* A message is in the queue of its destination.
Addressed == \A d \in Destination : \A m \in Elements(queue[d]) : m.dest = d

SentInv == Addressed /\ Identified /\ NewRowHeld /\ FiledKept /\ JobsKept /\ Noted
-----------------------------------------------------------------------------
(***************************************************************************)
(* How what is known grows: an identifier is new, or nothing is.           *)
(***************************************************************************)
Grow ==
  \/ nextId' = nextId /\ Known' \subseteq Known
  \/ nextId' = nextId + 1 /\ \E j : Known' \subseteq Known \cup {<<nextId, j>>}

LEMMA SavedKnown ==
  ASSUME NEW i, NEW row, db' = Saved(i, row)
  PROVE  TableKnows' \subseteq TableKnows \cup {<<i, Job(row)>>}
BY SavedRows DEF TableKnows

LEMMA RemovedKnown ==
  ASSUME TypeOK, NEW i, db' = Removed(i)
  PROVE  TableKnows' \subseteq TableKnows
<1>1. ASSUME NEW j \in Ids' PROVE j \in Ids /\ Job(db'[j]) = Job(db[j])
  BY <1>1, RemovedRows DEF Job
<1> QED
  BY <1>1 DEF TableKnows

LEMMA TableStays ==
  ASSUME UNCHANGED db
  PROVE  TableKnows' = TableKnows
BY DEF TableKnows, Ids

LEMMA SessionsStay ==
  ASSUME UNCHANGED web
  PROVE  \A w \in Sessions : SessionKnows(w)' = SessionKnows(w)
BY DEF SessionKnows

LEMMA GrowAgrees ==
  ASSUME IInv, Agree, Given, Grow
  PROVE  Agree' /\ Given'
<1>1. nextId \in Nat
  BY DEF IInv, TypeOK, TableOK
<1>2. CASE nextId' = nextId /\ Known' \subseteq Known
  BY <1>2 DEF Agree, Given
<1>3. CASE nextId' = nextId + 1 /\ \E j : Known' \subseteq Known \cup {<<nextId, j>>}
  <2>1. PICK j : Known' \subseteq Known \cup {<<nextId, j>>}
    BY <1>3
  <2>2. \A a \in Known' : a \in Known \/ a = <<nextId, j>>
    BY <2>1
  <2>3. \A a \in Known : a[1] # nextId
    BY <1>1 DEF Given
  <2>4. Agree'
    BY <2>2, <2>3 DEF Agree
  <2> QED
    BY <1>1, <1>3, <2>2, <2>4 DEF Given
<1> QED
  BY <1>2, <1>3 DEF Grow

\* A row that stays keeps its run and version.
LEMMA GrowKeepsRows ==
  ASSUME IInv, Agree, Given, Grow, NEW i \in Ids, i \in Ids'
  PROVE  Job(db'[i]) = Job(db[i])
<1>1. <<i, Job(db[i])>> \in Known /\ <<i, Job(db'[i])>> \in Known'
  BY DEF Known, TableKnows
<1>2. i # nextId
  BY RowIdsAssumption DEF IInv, TypeOK, TableOK, NewRowsKept, RowsLinked
<1>3. <<i, Job(db'[i])>> \in Known
  BY <1>1, <1>2 DEF Grow
<1> QED
  BY <1>1, <1>3 DEF Agree
-----------------------------------------------------------------------------
LEMMA ListenerGrows ==
  ASSUME IInv, Identified, Listener
  PROVE  Grow
<1>0. TypeOK /\ TableOK /\ nextId \in Nat
  BY DEF IInv, TypeOK, TableOK
<1>1. ASSUME UNCHANGED <<web, nextId>>, TableKnows' \subseteq Known, ListenerKnows' \subseteq Known
      PROVE  Grow
  BY <1>1, SessionsStay DEF Grow, Known
<1>2. ASSUME lis'.pc \notin {"report", "retry", "retrySave", "retryLink"}
      PROVE  ListenerKnows' = {}
  BY <1>2 DEF ListenerKnows
<1>3. UNCHANGED db => TableKnows' \subseteq Known
  BY TableStays DEF Known
<1>4. ASSUME NEW m, DataReady(m) \/ RefuseReport(m) PROVE Grow
  <2>1. lis'.pc \notin {"report", "retry", "retrySave", "retryLink"}
    BY <1>4 DEF DataReady, RefuseReport, Receive, Waiting
  <2>2. UNCHANGED <<web, nextId, db>>
    BY <1>4 DEF DataReady, RefuseReport
  <2> QED
    BY <1>1, <1>2, <1>3, <2>1, <2>2
<1>5. ASSUME NEW m, FindRun(m) PROVE Grow
  <2> DEFINE i == LeastId(Matching(m))
             copy == [db[i] EXCEPT !.status = Reported(m.dest)]
  <2>1. i \in Ids /\ db[i] \in Row
    BY <1>0, <1>5, MatchingLeast DEF FindRun, TableOK
  <2>2. /\ lis' = [pc |-> "report", msg |-> m, id |-> i, copy |-> copy]
        /\ UNCHANGED <<web, nextId, db>>
    BY <1>5 DEF FindRun
  <2>3. Job(copy) = Job(db[i])
    BY <2>1 DEF Job, Row
  <2> HIDE DEF i, copy
  <2>4. ListenerKnows' \subseteq {<<i, Job(copy)>>}
    BY <2>2 DEF ListenerKnows, Job
  <2>5. <<i, Job(db[i])>> \in Known
    BY <2>1 DEF Known, TableKnows
  <2> QED
    BY <1>1, <1>3, <2>2, <2>3, <2>4, <2>5
<1>6. CASE ReadVersion \/ ScriptFound \/ SaveDataLocation \/ CreateVariables \/ Forward \/ RetrySend
  <2>1. lis'.pc \notin {"report", "retry", "retrySave", "retryLink"}
    <3>1. CASE ReadVersion \/ ScriptFound
      <4>1. lis \in Filing
        BY <1>0, <3>1, ListenerByPc DEF ReadVersion, ScriptFound
      <4> QED
        BY <3>1, <4>1 DEF ReadVersion, ScriptFound, Filing
    <3>2. CASE SaveDataLocation \/ CreateVariables
      <4>1. lis \in Filed
        BY <1>0, <3>2, ListenerByPc DEF SaveDataLocation, CreateVariables
      <4> QED
        BY <3>2, <4>1 DEF SaveDataLocation, CreateVariables, Die, Stopped, Filed
    <3>3. CASE Forward \/ RetrySend
      BY <3>3 DEF Forward, RetrySend, Die, Stopped, Return, Waiting
    <3> QED
      BY <1>6, <3>1, <3>2, <3>3
  <2>2. UNCHANGED <<web, nextId, db>>
    BY <1>6 DEF ReadVersion, ScriptFound, SaveDataLocation, CreateVariables, Forward, RetrySend
  <2> QED
    BY <1>1, <1>2, <1>3, <2>1, <2>2
<1>7. CASE ScriptMissing
  <2> DEFINE i == LeastId(Matching(lis.msg))
             row == [db[i] EXCEPT !.status = "e"]
  <2>1. lis'.pc = "wait" /\ UNCHANGED <<web, nextId>>
    BY <1>7 DEF ScriptMissing, Return, Waiting
  <2>2. CASE UNCHANGED db
    BY <1>1, <1>2, <1>3, <2>1, <2>2
  <2>3. CASE Matching(lis.msg) # {} /\ db' = Saved(i, row)
    <3>1. i \in Ids /\ db[i] \in Row
      BY <1>0, <2>3, MatchingLeast DEF TableOK
    <3>2. Job(row) = Job(db[i])
      BY <3>1 DEF Job, Row
    <3> HIDE DEF i, row
    <3>3. TableKnows' \subseteq TableKnows
      BY <2>3, <3>1, <3>2, SavedKnown DEF TableKnows
    <3> QED
      BY <1>1, <1>2, <2>1, <3>3 DEF Known
  <2> QED
    BY <1>7, <2>2, <2>3 DEF ScriptMissing
<1>8. CASE SaveRun \/ SaveRetry
  <2> DEFINE row == IF lis.pc = "save"
                      THEN NewRow(lis.msg.run, lis.msg.version, IF lis.paused THEN "s" ELSE "q")
                      ELSE NewRow(lis.msg.run, lis.msg.version, "q")
  <2>1. db' = Saved(nextId, row) /\ nextId' = nextId + 1 /\ UNCHANGED web
    BY <1>8 DEF SaveRun, SaveRetry
  <2> HIDE DEF row
  <2>2. ListenerKnows' \subseteq ListenerKnows
    <3>1. CASE SaveRun
      BY <1>2, <3>1 DEF SaveRun
    <3>2. CASE SaveRetry
      <4>1. lis \in Reporting /\ lis.pc = "retrySave"
        BY <1>0, <3>2, ListenerByPc DEF SaveRetry
      <4>2. lis'.pc = "retryLink" /\ lis'.id = lis.id /\ lis'.copy = [lis.copy EXCEPT !.retry = nextId]
        BY <3>2 DEF SaveRetry
      <4>3. Job([lis.copy EXCEPT !.retry = nextId]) = Job(lis.copy)
        BY <4>1 DEF Job, Reporting, Row
      <4>4. ListenerKnows = {<<lis.id, Job(lis.copy)>>}
        BY <4>1 DEF ListenerKnows
      <4>5. ListenerKnows' = {<<lis'.id, Job(lis'.copy)>>}
        BY <4>2 DEF ListenerKnows, Job
      <4> QED
        BY <4>2, <4>3, <4>4, <4>5
    <3> QED
      BY <1>8, <3>1, <3>2
  <2>3. Known' \subseteq Known \cup {<<nextId, Job(row)>>}
    BY <2>1, <2>2, SavedKnown, SessionsStay DEF Known
  <2> QED
    BY <2>1, <2>3 DEF Grow
<1>9. CASE SaveReport \/ RetryRun \/ LinkRetry
  <2>1. /\ lis.pc \in {"report", "retry", "retryLink"} /\ UNCHANGED <<web, nextId>>
        /\ db' = db \/ db' = Saved(lis.id, lis.copy)
    BY <1>9 DEF SaveReport, RetryRun, LinkRetry
  <2>2. <<lis.id, Job(lis.copy)>> \in Known
    BY <2>1 DEF Known, ListenerKnows
  <2>3. \/ lis'.pc \notin {"report", "retry", "retrySave", "retryLink"}
        \/ lis'.id = lis.id /\ lis'.copy = lis.copy
    <3>1. CASE lis' \in {Waiting, Stopped}
      BY <3>1 DEF Waiting, Stopped
    <3>2. CASE SaveReport /\ lis' = [lis EXCEPT !.pc = "retry"]
      <4>1. lis \in Reporting
        BY <1>0, <3>2, ListenerByPc DEF SaveReport
      <4> QED
        BY <3>2, <4>1 DEF Reporting
    <3>3. CASE /\ RetryRun
               /\ lis' = [lis EXCEPT !.pc = "retrySave", !.msg.version = NextVersion(lis.msg.run)]
      <4>1. lis \in Reporting
        BY <1>0, <3>3, ListenerByPc DEF RetryRun
      <4> QED
        BY <3>3, <4>1 DEF Reporting
    <3>4. CASE LinkRetry
      <4>1. lis \in Retrying
        BY <1>0, <3>4, ListenerByPc DEF LinkRetry
      <4> QED
        BY <3>4, <4>1 DEF LinkRetry, Retrying
    <3> QED
      BY <1>9, <3>1, <3>2, <3>3, <3>4 DEF SaveReport, RetryRun, Die, Return
  <2>4. ListenerKnows' \subseteq {<<lis.id, Job(lis.copy)>>}
    BY <2>3 DEF ListenerKnows, Job
  <2>5. TableKnows' \subseteq Known
    BY <1>3, <2>1, <2>2, SavedKnown DEF Known
  <2> QED
    BY <1>1, <2>1, <2>2, <2>4, <2>5
<1>10. CASE RetryVariables
  <2>1. lis'.pc \notin {"report", "retry", "retrySave", "retryLink"} /\ UNCHANGED <<web, nextId>>
    BY <1>0, <1>10, ListenerByPc DEF RetryVariables, Die, Stopped, Retrying
  <2>2. UNCHANGED db \/ db' = Removed(lis.new)
    BY <1>10 DEF RetryVariables
  <2>3. TableKnows' \subseteq Known
    BY <1>0, <1>3, <2>2, RemovedKnown DEF Known
  <2> QED
    BY <1>1, <1>2, <2>1, <2>3
<1> QED
  BY <1>4, <1>5, <1>6, <1>7, <1>8, <1>9, <1>10 DEF Listener

LEMMA SessionGrows ==
  ASSUME IInv, Identified, NEW w \in Sessions, Session(w)
  PROVE  Grow /\ Targets'
<1>0. TypeOK /\ TableOK /\ RowsLinked
  BY DEF IInv, TypeOK, NewRowsKept
<1>1. ASSUME NEW s, Step(w, s)
      PROVE  web'[w] = s /\ \A v \in Sessions \ {w} : web'[v] = web[v]
  BY <1>0, <1>1 DEF TypeOK, Step
<1>2. UNCHANGED db => TableKnows' \subseteq Known
  BY TableStays DEF Known
<1>3. ASSUME NEW s, Step(w, s), UNCHANGED lis, Targeted(s)
      PROVE  Targets' /\ Known' \subseteq TableKnows' \cup Known \cup Memory(s)
  <2>1. web'[w] = s /\ \A v \in Sessions \ {w} : web'[v] = web[v]
    BY <1>1, <1>3
  <2>2. \A v \in Sessions : SessionKnows(v)' = IF v = w THEN Memory(s) ELSE SessionKnows(v)
    BY <2>1 DEF SessionKnows
  <2>3. ListenerKnows' = ListenerKnows
    BY <1>3 DEF ListenerKnows
  <2>4. Known' \subseteq TableKnows' \cup Known \cup Memory(s)
    BY <2>2, <2>3 DEF Known
  <2>5. ASSUME NEW v \in Sessions PROVE Targeted(web'[v])
    BY <1>3, <2>1 DEF Identified, Targets
  <2> QED
    BY <2>4, <2>5 DEF Targets
<1>4. ASSUME NEW s, Step(w, s), UNCHANGED <<lis, nextId>>, TableKnows' \subseteq Known,
             Memory(s) \subseteq Known, Targeted(s)
      PROVE  Grow /\ Targets'
  BY <1>3, <1>4 DEF Grow
<1>5. ASSUME End(w), UNCHANGED <<lis, nextId>>, TableKnows' \subseteq Known
      PROVE  Grow /\ Targets'
  <2>1. Memory(NoPage) = {} /\ Targeted(NoPage)
    BY DEF Memory, Targeted, NoPage
  <2> QED
    BY <1>4, <1>5, <2>1 DEF End
<1>6. \A i \in Ids : <<i, Job(db[i])>> \in Known
  BY DEF Known, TableKnows
<1>7. Memory(web[w]) \subseteq Known /\ Targeted(web[w])
  BY DEF Known, SessionKnows, Identified, Targets
<1>8. ASSUME NEW i \in Ids, ShowFailed(w, i) PROVE Grow /\ Targets'
  <2> DEFINE held == [pc |-> "page", job |-> Job(db[i])]
  <2>1. Step(w, held) /\ UNCHANGED <<db, lis, nextId>>
    BY <1>8 DEF ShowFailed
  <2>2. Memory(held) = {} /\ Targeted(held)
    BY DEF Memory, Targeted
  <2> HIDE DEF held
  <2> QED
    BY <1>2, <1>4, <2>1, <2>2
<1>9. ASSUME NEW rerun \in BOOLEAN, Post(w, rerun) PROVE Grow /\ Targets'
  <2> DEFINE i == Chosen(w)
             r == db[i].retry
             retrying(v) == db[i].status # "q" /\ r # 0 /\ db[r].status = v
             target == CASE db[i].status = "q" -> i
                         [] retrying("q") -> r
                         [] OTHER -> 0
             flagged(row) == [row EXCEPT !.cancel = @ \/ retrying("p")]
             copy == flagged(db[i])
             retry == IF r = 0 THEN db[i] ELSE flagged(db[r])
             held == [pc |-> IF target = 0 THEN "saveBoth" ELSE "cancel",
                      id |-> i, rerun |-> rerun, target |-> target, copy |-> copy, retry |-> retry]
  <2>1. UNCHANGED <<db, lis, nextId>>
    BY <1>9 DEF Post
  <2>2. CASE i \notin Ids
    BY <1>2, <1>5, <1>9, <2>1, <2>2 DEF Post
  <2>3. CASE i \in Ids
    <3>1. Step(w, held)
      BY <1>9, <2>3 DEF Post
    <3>2. db[i] \in Row /\ i # 0
      BY <1>0, <2>3, RowIdsAssumption DEF TableOK
    <3>3. r # 0 => r \in Ids /\ db[r] \in Row
      BY <1>0, <2>3 DEF RowsLinked, Dangling, TableOK
    <3>4. \A row \in Row : Job(flagged(row)) = Job(row) /\ flagged(row).retry = row.retry
      BY DEF Row, Job
    <3>5. Job(copy) = Job(db[i]) /\ copy.retry = r /\ (r # 0 => Job(retry) = Job(db[r]))
      BY <3>2, <3>3, <3>4
    <3>6. target = 0 \/ target \in {i, r}
      OBVIOUS
    <3> HIDE DEF copy, retry, target
    <3>7. Memory(held) \subseteq {<<i, Job(copy)>>} \cup (IF r # 0 THEN {<<r, Job(retry)>>} ELSE {})
      BY <3>5 DEF Memory
    <3>8. Memory(held) \subseteq Known
      BY <1>6, <2>3, <3>3, <3>5, <3>7
    <3>9. Targeted(held)
      BY <3>5, <3>6 DEF Targeted
    <3> HIDE DEF held
    <3> QED
      BY <1>2, <1>4, <2>1, <3>1, <3>8, <3>9
  <2> QED
    BY <2>2, <2>3
<1>10. ASSUME NEW r \in Runs, Confirm(w, r) PROVE Grow /\ Targets'
  <2> DEFINE S == {j \in VersionsOf(r) : db[j].version = NextVersion(r) - 1}
             i == LeastId(S)
             held == [pc |-> "version", id |-> i, copy |-> db[i]]
  <2>1. S \in SUBSET Nat /\ S # {}
    BY <1>0, <1>10, LatestExists, RowIdsAssumption
       DEF Confirm, VersionsOf, TableOK, IInv, VersionsBounded
  <2>2. i \in Ids
    BY <2>1, LeastIdLeast DEF VersionsOf
  <2>3. Step(w, held) /\ UNCHANGED <<db, lis, nextId>>
    BY <1>10 DEF Confirm
  <2> HIDE DEF i
  <2>4. Memory(held) \subseteq Known /\ Targeted(held)
    BY <1>6, <2>2 DEF Memory, Targeted
  <2> HIDE DEF held
  <2> QED
    BY <1>2, <1>4, <2>3, <2>4
<1>11. CASE SendCancel(w)
  <2> DEFINE held == [web[w] EXCEPT !.pc = "setCancelled"]
  <2>1. web[w] \in Cancelling /\ web[w].pc = "cancel"
    BY <1>0, <1>11, SessionByPc DEF SendCancel
  <2>2. (End(w) \/ Step(w, held)) /\ UNCHANGED <<db, lis, nextId>>
    BY <1>11 DEF SendCancel
  <2>3. /\ held.pc = "setCancelled" /\ held.id = web[w].id /\ held.copy = web[w].copy
        /\ held.retry = web[w].retry /\ held.target = web[w].target
    BY <2>1 DEF Cancelling
  <2> HIDE DEF held
  <2>4. Memory(held) = Memory(web[w]) /\ Targeted(held)
    BY <1>7, <2>1, <2>3 DEF Memory, Targeted
  <2> QED
    BY <1>2, <1>4, <1>5, <1>7, <2>2, <2>4
<1>12. CASE SetCancelled(w)
  <2> DEFINE s == web[w]
             copy == IF s.target = s.id THEN [s.copy EXCEPT !.status = "e"] ELSE s.copy
             retry == IF s.target # s.id THEN [s.retry EXCEPT !.status = "e"] ELSE s.retry
             row == IF s.target = s.id THEN copy ELSE retry
             held == [s EXCEPT !.pc = "saveBoth", !.copy = copy, !.retry = retry]
  <2>1. s \in Cancelling /\ s.pc = "setCancelled"
    BY <1>0, <1>12, SessionByPc DEF SetCancelled
  <2>2. Job(copy) = Job(s.copy) /\ copy.retry = s.copy.retry /\ Job(retry) = Job(s.retry)
    BY <2>1 DEF Cancelling, Row, Job
  <2>3. /\ \/ End(w) /\ UNCHANGED db
           \/ db' = Saved(s.target, row) /\ Step(w, held)
        /\ UNCHANGED <<lis, nextId>>
    BY <1>12 DEF SetCancelled
  <2> HIDE DEF copy, retry
  <2>4. held.pc = "saveBoth" /\ held.id = s.id /\ held.copy = copy /\ held.retry = retry
    BY <2>1 DEF Cancelling
  <2> HIDE DEF held
  <2>5. Memory(held) = Memory(s) /\ Targeted(held)
    BY <2>1, <2>2, <2>4 DEF Memory, Targeted
  <2>6. <<s.target, Job(row)>> \in Memory(s)
    <3>1. s.target # 0 /\ s.target \in {s.id, s.copy.retry}
      BY <1>7, <2>1 DEF Targeted
    <3> QED
      BY <2>1, <2>2, <3>1 DEF Memory
  <2> HIDE DEF row
  <2>7. CASE db' = Saved(s.target, row) /\ Step(w, held)
    <3>1. TableKnows' \subseteq Known
      BY <1>7, <2>6, <2>7, SavedKnown DEF Known
    <3> QED
      BY <1>4, <1>7, <2>3, <2>5, <2>7, <3>1
  <2> QED
    BY <1>2, <1>5, <2>3, <2>7
<1>13. CASE SaveBoth(w)
  <2> DEFINE s == web[w]
             r == s.copy.retry
             one == Saved(s.id, s.copy)
             held == [pc |-> "version", id |-> s.id, copy |-> [s.copy EXCEPT !.cancel = FALSE]]
  <2>1. s \in Cancelling /\ s.pc = "saveBoth"
    BY <1>0, <1>13, SessionByPc DEF SaveBoth
  <2>2. Job([s.copy EXCEPT !.cancel = FALSE]) = Job(s.copy)
    BY <2>1 DEF Cancelling, Row, Job
  <2>3. Memory(held) \subseteq Known /\ Targeted(held)
    BY <1>7, <2>1, <2>2 DEF Memory, Targeted
  <2> HIDE DEF held
  <2>4. /\ UNCHANGED <<lis, nextId>>
        /\ End(w) \/ Step(w, held)
        /\ \/ UNCHANGED db
           \/ db' = one
           \/ r # 0 /\ db' = [one EXCEPT ![r] = s.retry]
    BY <1>13 DEF SaveBoth, held
  <2>5. <<s.id, Job(s.copy)>> \in Known /\ (r # 0 => <<r, Job(s.retry)>> \in Known)
    BY <1>7, <2>1 DEF Memory
  <2>6. TableKnows' \subseteq Known
    <3>1. CASE db' = one
      BY <2>5, <3>1, SavedKnown DEF Known
    <3>2. CASE r # 0 /\ db' = [one EXCEPT ![r] = s.retry]
      <4>1. DOMAIN one = Ids \cup {s.id} /\ \A j \in DOMAIN one : one[j] = IF j = s.id THEN s.copy ELSE db[j]
        BY DEF Saved
      <4> HIDE DEF one
      <4>2. ASSUME NEW j \in Ids' PROVE <<j, Job(db'[j])>> \in Known
        <5>1. CASE j = r
          BY <2>5, <3>2, <4>1, <4>2, <5>1 DEF Ids
        <5>2. CASE j # r /\ j = s.id
          BY <2>5, <3>2, <4>1, <4>2, <5>2 DEF Ids
        <5>3. CASE j # r /\ j # s.id
          <6>1. j \in Ids /\ db'[j] = db[j]
            BY <3>2, <4>1, <4>2, <5>3 DEF Ids
          <6> QED
            BY <1>6, <6>1
        <5> QED
          BY <5>1, <5>2, <5>3
      <4> QED
        BY <4>2 DEF TableKnows
    <3> QED
      BY <1>2, <2>4, <3>1, <3>2
  <2> QED
    BY <1>4, <1>5, <2>3, <2>4, <2>6
<1>14. CASE WebVersion(w)
  <2> DEFINE held == [pc |-> "create", id |-> web[w].id, copy |-> web[w].copy,
                      version |-> NextVersion(web[w].copy.run)]
  <2>1. Step(w, held) /\ UNCHANGED <<db, lis, nextId>> /\ web[w].pc = "version"
    BY <1>14 DEF WebVersion
  <2>2. Memory(held) \subseteq Known /\ Targeted(held)
    BY <1>7, <2>1 DEF Memory, Targeted
  <2> HIDE DEF held
  <2> QED
    BY <1>2, <1>4, <2>1, <2>2
<1>15. CASE WebCreate(w)
  <2> DEFINE s == web[w]
             row == NewRow(s.copy.run, s.version, "q")
             copy == [s.copy EXCEPT !.retry = nextId]
             held == [pc |-> "link", id |-> s.id, copy |-> copy, version |-> s.version, new |-> nextId]
  <2>1. s \in Creating /\ s.pc = "create"
    BY <1>0, <1>15, SessionByPc DEF WebCreate
  <2>2. db' = Saved(nextId, row) /\ nextId' = nextId + 1 /\ Step(w, held) /\ UNCHANGED lis
    BY <1>15 DEF WebCreate
  <2>3. Job(copy) = Job(s.copy)
    BY <2>1 DEF Creating, Row, Job
  <2> HIDE DEF row, copy
  <2>4. Memory(held) \subseteq Known /\ Targeted(held)
    BY <1>7, <2>1, <2>3 DEF Memory, Targeted
  <2> HIDE DEF held
  <2>5. Known' \subseteq Known \cup {<<nextId, Job(row)>>} /\ Targets'
    BY <1>3, <2>2, <2>4, SavedKnown DEF Known
  <2> QED
    BY <2>2, <2>5 DEF Grow
<1>16. CASE WebLink(w)
  <2> DEFINE held == [web[w] EXCEPT !.pc = "variables"]
  <2>1. web[w] \in Sending /\ web[w].pc = "link"
    BY <1>0, <1>16, SessionByPc DEF WebLink
  <2>2. db' = Saved(web[w].id, web[w].copy) /\ Step(w, held) /\ UNCHANGED <<lis, nextId>>
    BY <1>16 DEF WebLink
  <2>3. Memory(held) = {} /\ Targeted(held)
    BY <2>1 DEF Memory, Targeted, Sending
  <2> HIDE DEF held
  <2>4. <<web[w].id, Job(web[w].copy)>> \in Known
    BY <1>7, <2>1 DEF Memory
  <2>5. TableKnows' \subseteq Known
    BY <2>2, <2>4, SavedKnown DEF Known
  <2> QED
    BY <1>4, <2>2, <2>3, <2>5
<1>17. CASE WebVariables(w)
  <2> DEFINE held == [web[w] EXCEPT !.pc = "send"]
  <2>1. web[w] \in Sending
    BY <1>0, <1>17, SessionByPc DEF WebVariables
  <2>2. (End(w) \/ Step(w, held)) /\ UNCHANGED <<db, lis, nextId>>
    BY <1>17 DEF WebVariables
  <2>3. Memory(held) = {} /\ Targeted(held)
    BY <2>1 DEF Memory, Targeted, Sending
  <2> HIDE DEF held
  <2> QED
    BY <1>2, <1>4, <1>5, <2>2, <2>3
<1>18. CASE WebSend(w)
  BY <1>2, <1>5, <1>18 DEF WebSend
<1>19. CASE WebSendFails(w)
  <2>1. End(w) /\ UNCHANGED <<lis, nextId>> /\ db' = Removed(web[w].new)
    BY <1>19 DEF WebSendFails
  <2> QED
    BY <1>0, <1>5, <2>1, RemovedKnown DEF Known
<1>20. CASE Hide(w)
  <2> DEFINE held == [pc |-> "hide", id |-> Chosen(w), copy |-> db[Chosen(w)]]
  <2>1. End(w) \/ (Chosen(w) \in Ids /\ Step(w, held))
    BY <1>20 DEF Hide
  <2>2. UNCHANGED <<db, lis, nextId>>
    BY <1>20 DEF Hide
  <2>3. Chosen(w) \in Ids => Memory(held) \subseteq Known /\ Targeted(held)
    BY <1>6 DEF Memory, Targeted
  <2> HIDE DEF held
  <2> QED
    BY <1>2, <1>4, <1>5, <2>1, <2>2, <2>3
<1>21. CASE SaveHidden(w)
  <2>1. /\ web[w].pc = "hide" /\ End(w) /\ UNCHANGED <<lis, nextId>>
        /\ db' = db \/ db' = Saved(web[w].id, web[w].copy)
    BY <1>21 DEF SaveHidden
  <2>2. <<web[w].id, Job(web[w].copy)>> \in Known
    BY <1>7, <2>1 DEF Memory
  <2>3. TableKnows' \subseteq Known
    BY <1>2, <2>1, <2>2, SavedKnown DEF Known
  <2> QED
    BY <1>5, <2>1, <2>3
<1> QED
  BY <1>8, <1>9, <1>10, <1>11, <1>12, <1>13, <1>14, <1>15, <1>16, <1>17, <1>18, <1>19, <1>20, <1>21
     DEF Session

LEMMA StepGrows ==
  ASSUME IInv, Identified, [Next]_vars
  PROVE  Grow /\ Targets'
<1>1. ASSUME UNCHANGED <<db, nextId, web>>, lis' \in {lis, Waiting, Stopped}
      PROVE  Grow /\ Targets'
  <2>1. TableKnows' = TableKnows /\ \A w \in Sessions : SessionKnows(w)' = SessionKnows(w)
    BY <1>1, TableStays, SessionsStay
  <2>2. ListenerKnows' \subseteq ListenerKnows
    BY <1>1 DEF ListenerKnows, Waiting, Stopped
  <2>3. Known' \subseteq Known
    BY <2>1, <2>2 DEF Known
  <2> QED
    BY <1>1, <2>3 DEF Grow, Identified, Targets
<1>2. ASSUME NEW r \in Runs, Submit(r) PROVE Grow /\ Targets'
  BY <1>1, <1>2 DEF Submit
<1>3. ASSUME NEW d \in Subscribed, Dispatch(d) PROVE Grow /\ Targets'
  BY <1>1, <1>3 DEF Dispatch
<1>4. CASE TogglePause \/ Kill \/ Restart
  BY <1>1, <1>4 DEF TogglePause, Kill, Restart, Die
<1>5. CASE Node
  BY <1>1, <1>5 DEF Node, NodeCancel, NodeDrop, NodeStart, NodeReject, NodeTake, NodeReport, NodeDie
<1>6. CASE Listener
  <2>1. Grow
    BY <1>6, ListenerGrows
  <2>2. UNCHANGED web
    BY <1>6 DEF Listener, DataReady, FindRun, RefuseReport, ReadVersion, ScriptFound, ScriptMissing,
       SaveRun, SaveDataLocation, CreateVariables, Forward, SaveReport, RetryRun, SaveRetry, LinkRetry,
       RetryVariables, RetrySend
  <2> QED
    BY <2>1, <2>2 DEF Identified, Targets
<1>7. ASSUME NEW w \in Sessions, Session(w) PROVE Grow /\ Targets'
  BY <1>7, SessionGrows
<1>8. CASE UNCHANGED vars
  BY <1>1, <1>8 DEF vars
<1> QED
  BY <1>2, <1>3, <1>4, <1>5, <1>6, <1>7, <1>8, Zenon DEF Next
-----------------------------------------------------------------------------
(***************************************************************************)
(* Who takes a row back: the actor that filed it and still holds it.       *)
(***************************************************************************)
LEMMA SavedStays ==
  ASSUME NEW i, NEW row, db' = Saved(i, row)
  PROVE  Ids \subseteq Ids'
BY SavedRows

LEMMA ListenerKeeps ==
  ASSUME IInv, Listener
  PROVE  /\ UNCHANGED web
         /\ \A i \in Ids : i \in Ids' \/ (ListenerHolds /\ i = lis.new)
         /\ \A i \in located : i \in located' \/ (ListenerHolds /\ i = lis.new)
         /\ ListenerHolds' => lis'.new = nextId \/ (ListenerHolds /\ lis'.new = lis.new)
<1> DEFINE Goal == /\ UNCHANGED web
                   /\ \A i \in Ids : i \in Ids' \/ (ListenerHolds /\ i = lis.new)
                   /\ \A i \in located : i \in located' \/ (ListenerHolds /\ i = lis.new)
                   /\ ListenerHolds' => lis'.new = nextId \/ (ListenerHolds /\ lis'.new = lis.new)
<1>0. TypeOK
  BY DEF IInv
<1>1. UNCHANGED db => Ids \subseteq Ids'
  BY DEF Ids
<1>2. ASSUME UNCHANGED web, Ids \subseteq Ids', located \subseteq located', ~ListenerHolds' PROVE Goal
  BY <1>2
<1>3. ASSUME NEW m, DataReady(m) \/ FindRun(m) PROVE Goal
  BY <1>1, <1>2, <1>3 DEF DataReady, FindRun, ListenerHolds
<1>4. ASSUME NEW m, RefuseReport(m) PROVE Goal
  BY <1>1, <1>2, <1>4 DEF RefuseReport, Receive, ListenerHolds, Waiting
<1>5. CASE ReadVersion \/ ScriptFound
  <2>1. lis \in Filing
    BY <1>0, <1>5, ListenerByPc DEF ReadVersion, ScriptFound
  <2> QED
    BY <1>1, <1>2, <1>5, <2>1 DEF ReadVersion, ScriptFound, Filing, ListenerHolds
<1>6. CASE ScriptMissing
  <2>1. Ids \subseteq Ids'
    BY <1>1, <1>6, SavedStays DEF ScriptMissing
  <2> QED
    BY <1>2, <1>6, <2>1 DEF ScriptMissing, Return, Waiting, ListenerHolds
<1>7. CASE SaveRun
  <2>1. Ids \subseteq Ids'
    BY <1>7, SavedStays DEF SaveRun
  <2> QED
    BY <1>2, <1>7, <2>1 DEF SaveRun, ListenerHolds
<1>8. CASE SaveDataLocation \/ CreateVariables
  <2>1. lis \in Filed
    BY <1>0, <1>8, ListenerByPc DEF SaveDataLocation, CreateVariables
  <2> QED
    BY <1>1, <1>2, <1>8, <2>1 DEF SaveDataLocation, CreateVariables, Die, Stopped, Filed, ListenerHolds
<1>9. CASE Forward \/ RetrySend
  BY <1>1, <1>2, <1>9 DEF Forward, RetrySend, Return, Waiting, Die, Stopped, ListenerHolds
<1>10. CASE SaveReport \/ RetryRun
  <2>1. lis \in Reporting
    BY <1>0, <1>10, ListenerByPc DEF SaveReport, RetryRun
  <2>2. Ids \subseteq Ids'
    BY <1>1, <1>10, SavedStays DEF SaveReport, RetryRun
  <2>3. \/ lis' \in {Waiting, Stopped} \/ lis' = [lis EXCEPT !.pc = "retry"]
        \/ lis' = [lis EXCEPT !.pc = "retrySave", !.msg.version = NextVersion(lis.msg.run)]
    BY <1>10 DEF SaveReport, RetryRun, Return, Die
  <2>4. lis'.pc \in {"wait", "stopped", "retry", "retrySave"}
    <3>1. CASE lis' = [lis EXCEPT !.pc = "retrySave", !.msg.version = NextVersion(lis.msg.run)]
      BY <2>1, <3>1 DEF Reporting
    <3>2. CASE lis' = [lis EXCEPT !.pc = "retry"]
      BY <2>1, <3>2 DEF Reporting
    <3> QED
      BY <2>3, <3>1, <3>2 DEF Waiting, Stopped
  <2> QED
    BY <1>2, <1>10, <2>2, <2>4 DEF SaveReport, RetryRun, ListenerHolds
<1>11. CASE SaveRetry
  <2>1. Ids \subseteq Ids' /\ UNCHANGED <<located, web>> /\ lis'.new = nextId
    BY <1>11, SavedStays DEF SaveRetry
  <2> QED
    BY <2>1
<1>12. CASE LinkRetry
  <2>1. lis \in Retrying /\ ListenerHolds
    BY <1>0, <1>12, ListenerByPc DEF LinkRetry, ListenerHolds
  <2>2. Ids \subseteq Ids'
    BY <1>12, SavedStays DEF LinkRetry
  <2> QED
    BY <1>12, <2>1, <2>2 DEF LinkRetry, Retrying
<1>13. CASE RetryVariables
  <2>1. lis \in Retrying /\ ListenerHolds /\ UNCHANGED web
    BY <1>0, <1>13, ListenerByPc DEF RetryVariables, ListenerHolds
  <2>2. CASE lis' = [lis EXCEPT !.pc = "retrySend"] /\ UNCHANGED <<db, located>>
    BY <1>1, <2>1, <2>2 DEF Retrying
  <2>3. CASE lis' = Stopped /\ db' = Removed(lis.new) /\ located' = located \ {lis.new}
    <3>1. Ids' = Ids \ {lis.new}
      BY <1>0, <2>3, RemovedRows
    <3> QED
      BY <2>1, <2>3, <3>1 DEF ListenerHolds, Stopped
  <2> QED
    BY <1>13, <2>2, <2>3 DEF RetryVariables, Die
<1> QED
  BY <1>3, <1>4, <1>5, <1>6, <1>7, <1>8, <1>9, <1>10, <1>11, <1>12, <1>13 DEF Listener

LEMMA SessionKeeps ==
  ASSUME IInv, NEW w \in Sessions, Session(w)
  PROVE  /\ UNCHANGED lis /\ \A v \in Sessions \ {w} : web'[v] = web[v]
         /\ \A i \in Ids : i \in Ids' \/ (Holds(w) /\ i = web[w].new)
         /\ \A i \in located : i \in located' \/ (Holds(w) /\ i = web[w].new)
         /\ Holds(w)' =>
              \/ /\ web'[w].new = nextId /\ nextId \in Ids'
                 /\ Job(db'[nextId]) = [run |-> web'[w].copy.run, version |-> web'[w].version]
              \/ /\ Holds(w) /\ web'[w].new = web[w].new
                 /\ web'[w].copy = web[w].copy /\ web'[w].version = web[w].version
<1> DEFINE Goal ==
      /\ UNCHANGED lis /\ \A v \in Sessions \ {w} : web'[v] = web[v]
      /\ \A i \in Ids : i \in Ids' \/ (Holds(w) /\ i = web[w].new)
      /\ \A i \in located : i \in located' \/ (Holds(w) /\ i = web[w].new)
      /\ Holds(w)' =>
           \/ /\ web'[w].new = nextId /\ nextId \in Ids'
              /\ Job(db'[nextId]) = [run |-> web'[w].copy.run, version |-> web'[w].version]
           \/ /\ Holds(w) /\ web'[w].new = web[w].new
              /\ web'[w].copy = web[w].copy /\ web'[w].version = web[w].version
<1>0. TypeOK
  BY DEF IInv
<1>1. UNCHANGED db => Ids \subseteq Ids'
  BY DEF Ids
<1>2. ASSUME NEW s, Step(w, s)
      PROVE  web'[w] = s /\ \A v \in Sessions \ {w} : web'[v] = web[v]
  BY <1>0, <1>2 DEF TypeOK, Step
<1>3. ASSUME NEW s, Step(w, s), UNCHANGED lis, Ids \subseteq Ids', located \subseteq located',
             s.pc \notin {"link", "variables", "send"}
      PROVE  Goal
  BY <1>2, <1>3 DEF Holds
<1>4. ASSUME End(w), UNCHANGED lis, Ids \subseteq Ids', located \subseteq located' PROVE Goal
  BY <1>3, <1>4 DEF End, NoPage
<1>5. ASSUME NEW pc \in {"variables", "send"}, Step(w, [web[w] EXCEPT !.pc = pc]), Holds(w),
             UNCHANGED lis, Ids \subseteq Ids', located \subseteq located'
      PROVE  Goal
  <2>1. web[w] \in Sending
    BY <1>0, <1>5, SessionByPc DEF Holds
  <2>2. web'[w] = [web[w] EXCEPT !.pc = pc] /\ \A v \in Sessions \ {w} : web'[v] = web[v]
    BY <1>2, <1>5
  <2> QED
    BY <1>5, <2>1, <2>2 DEF Sending
<1>6. ASSUME NEW i \in Ids, ShowFailed(w, i) PROVE Goal
  BY <1>1, <1>3, <1>6 DEF ShowFailed
<1>7. ASSUME NEW rerun \in BOOLEAN, Post(w, rerun) PROVE Goal
  <2>1. \E t, c, r : \/ End(w)
                     \/ \E pc \in {"saveBoth", "cancel"} :
                          Step(w, [pc |-> pc, id |-> Chosen(w), rerun |-> rerun, target |-> t,
                                   copy |-> c, retry |-> r])
    BY <1>7 DEF Post
  <2> QED
    BY <1>1, <1>3, <1>4, <1>7, <2>1 DEF Post
<1>8. ASSUME NEW r \in Runs, Confirm(w, r) PROVE Goal
  BY <1>1, <1>3, <1>8 DEF Confirm
<1>9. CASE SendCancel(w)
  <2>1. [web[w] EXCEPT !.pc = "setCancelled"].pc = "setCancelled"
    BY <1>0, <1>9, SessionByPc DEF SendCancel, Cancelling
  <2>2. End(w) \/ Step(w, [web[w] EXCEPT !.pc = "setCancelled"])
    BY <1>9 DEF SendCancel
  <2> QED
    BY <1>1, <1>3, <1>4, <1>9, <2>1, <2>2 DEF SendCancel
<1>10. CASE SetCancelled(w)
  <2> DEFINE s == web[w]
             copy == IF s.target = s.id THEN [s.copy EXCEPT !.status = "e"] ELSE s.copy
             retry == IF s.target # s.id THEN [s.retry EXCEPT !.status = "e"] ELSE s.retry
             row == IF s.target = s.id THEN copy ELSE retry
             held == [s EXCEPT !.pc = "saveBoth", !.copy = copy, !.retry = retry]
  <2>1. /\ End(w) \/ Step(w, held)
        /\ UNCHANGED db \/ db' = Saved(s.target, row)
        /\ UNCHANGED <<lis, located>>
    BY <1>10 DEF SetCancelled
  <2>2. held.pc = "saveBoth"
    BY <1>0, <1>10, SessionByPc DEF SetCancelled, Cancelling
  <2> HIDE DEF row, held
  <2>3. Ids \subseteq Ids'
    BY <1>1, <2>1, SavedStays
  <2> QED
    BY <1>3, <1>4, <2>1, <2>2, <2>3
<1>11. CASE SaveBoth(w)
  <2> DEFINE s == web[w]
             one == Saved(s.id, s.copy)
  <2>1. /\ UNCHANGED <<lis, located>>
        /\ \/ End(w)
           \/ Step(w, [pc |-> "version", id |-> s.id, copy |-> [s.copy EXCEPT !.cancel = FALSE]])
        /\ UNCHANGED db \/ db' = one \/ db' = [one EXCEPT ![s.copy.retry] = s.retry]
    BY <1>11 DEF SaveBoth
  <2>2. DOMAIN one = Ids \cup {s.id}
    BY DEF Saved
  <2> HIDE DEF one
  <2>3. Ids \subseteq Ids'
    BY <2>1, <2>2 DEF Ids
  <2> QED
    BY <1>3, <1>4, <2>1, <2>3
<1>12. CASE WebVersion(w)
  BY <1>1, <1>3, <1>12 DEF WebVersion
<1>13. CASE WebCreate(w)
  <2> DEFINE row == NewRow(web[w].copy.run, web[w].version, "q")
             copy == [web[w].copy EXCEPT !.retry = nextId]
             held == [pc |-> "link", id |-> web[w].id, copy |-> copy, version |-> web[w].version,
                      new |-> nextId]
  <2>1. Step(w, held) /\ db' = Saved(nextId, row) /\ UNCHANGED <<lis, located>>
    BY <1>13 DEF WebCreate
  <2>2. copy.run = web[w].copy.run
    BY <1>0, <1>13, SessionByPc DEF WebCreate, Creating, Row
  <2>3. Job(row) = [run |-> web[w].copy.run, version |-> web[w].version]
    BY DEF Job, NewRow
  <2> HIDE DEF copy, row
  <2>4. Ids' = Ids \cup {nextId} /\ db'[nextId] = row
    BY <2>1, SavedRows
  <2>5. web'[w] = held /\ \A v \in Sessions \ {w} : web'[v] = web[v]
    BY <1>2, <2>1
  <2>6. \/ Holds(w)' => /\ web'[w].new = nextId /\ nextId \in Ids'
                        /\ Job(db'[nextId]) = [run |-> web'[w].copy.run, version |-> web'[w].version]
    BY <2>2, <2>3, <2>4, <2>5
  <2> QED
    BY <2>1, <2>4, <2>5, <2>6
<1>14. CASE WebLink(w)
  <2>1. Ids \subseteq Ids' /\ Holds(w) /\ Step(w, [web[w] EXCEPT !.pc = "variables"])
    BY <1>14, SavedStays DEF WebLink, Holds
  <2> QED
    BY <1>5, <1>14, <2>1 DEF WebLink
<1>15. CASE WebVariables(w)
  BY <1>1, <1>4, <1>5, <1>15 DEF WebVariables, Holds
<1>16. CASE WebSend(w)
  BY <1>1, <1>4, <1>16 DEF WebSend
<1>17. CASE WebSendFails(w)
  <2>1. Ids' = Ids \ {web[w].new} /\ Holds(w)
    BY <1>0, <1>17, RemovedRows DEF WebSendFails, Holds
  <2>2. web'[w] = NoPage /\ \A v \in Sessions \ {w} : web'[v] = web[v]
    BY <1>2, <1>17 DEF WebSendFails, End
  <2> QED
    BY <1>17, <2>1, <2>2 DEF WebSendFails, Holds, NoPage
<1>18. CASE Hide(w)
  <2>1. End(w) \/ Step(w, [pc |-> "hide", id |-> Chosen(w), copy |-> db[Chosen(w)]])
    BY <1>18 DEF Hide
  <2> QED
    BY <1>1, <1>3, <1>4, <1>18, <2>1 DEF Hide
<1>19. CASE SaveHidden(w)
  <2>1. Ids \subseteq Ids'
    BY <1>1, <1>19, SavedStays DEF SaveHidden
  <2> QED
    BY <1>4, <1>19, <2>1 DEF SaveHidden
<1> QED
  BY <1>6, <1>7, <1>8, <1>9, <1>10, <1>11, <1>12, <1>13, <1>14, <1>15, <1>16, <1>17, <1>18, <1>19
     DEF Session

(***************************************************************************)
(* A kept row stays kept, with its run, its version and its location.      *)
(***************************************************************************)
LEMMA KeptStays ==
  ASSUME IInv, Identified, [Next]_vars, NEW i, Kept(i)
  PROVE  /\ Kept(i)' /\ Job(db'[i]) = Job(db[i])
         /\ i \in located => i \in located'
<1>1. i \in Ids /\ i # nextId
  BY RowIdsAssumption DEF Kept, IInv, TypeOK, TableOK, NewRowsKept, RowsLinked
<1>2. Agree /\ Given /\ Grow
  BY StepGrows DEF Identified
<1>3. i \in Ids' => Job(db'[i]) = Job(db[i])
  BY <1>1, <1>2, GrowKeepsRows
<1>4. ASSUME UNCHANGED <<db, web, located>>, lis' \in {lis, Waiting, Stopped}
      PROVE  Kept(i)' /\ (i \in located => i \in located')
  BY <1>4 DEF Kept, ListenerHolds, Holds, Ids, Waiting, Stopped
<1>5. ASSUME NEW r \in Runs, Submit(r) PROVE Kept(i)' /\ (i \in located => i \in located')
  BY <1>4, <1>5 DEF Submit
<1>6. ASSUME NEW d \in Subscribed, Dispatch(d) PROVE Kept(i)' /\ (i \in located => i \in located')
  BY <1>4, <1>6 DEF Dispatch
<1>7. CASE TogglePause \/ Kill \/ Restart
  BY <1>4, <1>7 DEF TogglePause, Kill, Restart, Die
<1>8. CASE Node
  BY <1>4, <1>8 DEF Node, NodeCancel, NodeDrop, NodeStart, NodeReject, NodeTake, NodeReport, NodeDie
<1>9. CASE Listener
  <2>1. UNCHANGED web /\ i \in Ids' /\ (i \in located => i \in located')
    BY <1>9, ListenerKeeps DEF Kept
  <2>2. ListenerHolds' => lis'.new # i
    BY <1>1, <1>9, ListenerKeeps DEF Kept
  <2> QED
    BY <1>3, <2>1, <2>2 DEF Kept, Holds
<1>10. ASSUME NEW w \in Sessions, Session(w) PROVE Kept(i)' /\ (i \in located => i \in located')
  <2>1. UNCHANGED lis /\ i \in Ids' /\ (i \in located => i \in located')
    BY <1>10, SessionKeeps DEF Kept
  <2>2. ASSUME NEW v \in Sessions, Holds(v)' PROVE web'[v].new # i
    <3>1. CASE v = w
      BY <1>1, <1>10, <2>2, <3>1, SessionKeeps DEF Kept
    <3>2. CASE v # w
      <4>1. web'[v] = web[v]
        BY <1>10, <3>2, SessionKeeps
      <4> QED
        BY <2>2, <4>1 DEF Kept, Holds
    <3> QED
      BY <3>1, <3>2
  <2> QED
    BY <2>1, <2>2 DEF Kept, ListenerHolds
<1>11. CASE UNCHANGED vars
  BY <1>4, <1>11 DEF vars
<1>12. Kept(i)' /\ (i \in located => i \in located')
  BY <1>5, <1>6, <1>7, <1>8, <1>9, <1>10, <1>11, Zenon DEF Next
<1> QED
  BY <1>3, <1>12 DEF Kept
-----------------------------------------------------------------------------
(***************************************************************************)
(* What is on its way: only Forward and WebSend send something new.        *)
(***************************************************************************)
LEMMA ElementsAppend ==
  ASSUME NEW q \in Seq(Message), NEW m \in Message
  PROVE  Elements(Append(q, m)) = Elements(q) \cup {m}
<1>1. ASSUME NEW x \in Elements(Append(q, m)) PROVE x \in Elements(q) \cup {m}
  <2>1. PICK k \in 1..(Len(q) + 1) : x = Append(q, m)[k]
    BY <1>1 DEF Elements
  <2>2. CASE k = Len(q) + 1
    BY <2>1, <2>2
  <2>3. CASE k # Len(q) + 1
    <3>1. k \in DOMAIN q /\ x = q[k]
      BY <2>1, <2>3
    <3> QED
      BY <3>1 DEF Elements
  <2> QED
    BY <2>2, <2>3
<1>2. ASSUME NEW x \in Elements(q) \cup {m} PROVE x \in Elements(Append(q, m))
  <2>1. CASE x = m
    <3>1. Append(q, m)[Len(q) + 1] = m /\ Len(q) + 1 \in DOMAIN Append(q, m)
      OBVIOUS
    <3> QED
      BY <2>1, <3>1 DEF Elements
  <2>2. CASE x \in Elements(q)
    <3>1. PICK k \in DOMAIN q : x = q[k]
      BY <2>2 DEF Elements
    <3>2. k \in DOMAIN Append(q, m) /\ Append(q, m)[k] = x
      BY <3>1
    <3> QED
      BY <3>2 DEF Elements
  <2> QED
    BY <1>2, <2>1, <2>2
<1> QED
  BY <1>1, <1>2

LEMMA ElementsTail ==
  ASSUME NEW q \in Seq(Message), q # <<>>
  PROVE  Head(q) \in Elements(q) /\ Elements(Tail(q)) \subseteq Elements(q)
<1>1. 1 \in DOMAIN q /\ Head(q) = q[1]
  OBVIOUS
<1>2. ASSUME NEW k \in DOMAIN Tail(q) PROVE k + 1 \in DOMAIN q /\ Tail(q)[k] = q[k + 1]
  BY <1>2
<1> QED
  BY <1>1, <1>2 DEF Elements

LEMMA Transit ==
  ASSUME NEW S,
         \A d \in Destination : Elements(queue'[d]) \subseteq Elements(queue[d]) \cup S,
         Elements(inbox') \subseteq Elements(inbox) \cup S
  PROVE  InTransit' \subseteq InTransit \cup S
BY DEF InTransit, Elements

LEMMA SendTransit ==
  ASSUME TypeOK, NEW m \in Message, Send(m), UNCHANGED inbox
  PROVE  InTransit' \subseteq InTransit \cup {m}
<1>1. ASSUME NEW d \in Destination PROVE Elements(queue'[d]) \subseteq Elements(queue[d]) \cup {m}
  <2>1. queue[d] \in Seq(Message) /\ queue'[d] = IF d = m.dest THEN Append(queue[d], m) ELSE queue[d]
    BY DEF TypeOK, QueuesOK, Send
  <2> QED
    BY <2>1, ElementsAppend
<1> QED
  BY <1>1, Transit

LEMMA DispatchTransit ==
  ASSUME TypeOK, NEW d \in Subscribed, Dispatch(d)
  PROVE  InTransit' \subseteq InTransit
<1>1. d \in Destination /\ queue[d] \in Seq(Message) /\ inbox \in Seq(Message) /\ queue[d] # <<>>
  BY DEF Destination, TypeOK, QueuesOK, Dispatch
<1>2. Head(queue[d]) \in Message /\ Head(queue[d]) \in InTransit
  BY <1>1, ElementsTail, FrameType DEF InTransit
<1>3. Elements(inbox') \subseteq Elements(inbox) \cup {Head(queue[d])}
  BY <1>1, <1>2, ElementsAppend DEF Dispatch
<1>4. ASSUME NEW e \in Destination PROVE Elements(queue'[e]) \subseteq Elements(queue[e])
  <2>1. queue'[e] = IF e = d THEN Tail(queue[d]) ELSE queue[e]
    BY <1>1 DEF Dispatch, TypeOK, QueuesOK
  <2> QED
    BY <1>1, <2>1, ElementsTail
<1>5. InTransit' \subseteq InTransit \cup {Head(queue[d])}
  BY <1>3, <1>4, Transit
<1> QED
  BY <1>2, <1>5

\* The node takes a job, and may send a message about it.
LEMMA TakeTransit ==
  ASSUME TypeOK, NEW m, NodeTake(m)
  PROVE  /\ m \in Message /\ m \in InTransit
         /\ queue' = [queue EXCEPT !["Pending"] = Tail(@)] => InTransit' \subseteq InTransit
         /\ \A d \in {"Started", "Error"} :
              queue' = [queue EXCEPT !["Pending"] = Tail(@),
                                     ![d] = Append(@, NewMessage(d, m.run, m.version))] =>
                InTransit' \subseteq InTransit \cup {NewMessage(d, m.run, m.version)}
<1>1. "Pending" \in Destination /\ queue["Pending"] \in Seq(Message) /\ queue["Pending"] # <<>>
  BY DEF Destination, TypeOK, QueuesOK, NodeTake
<1>2. m \in Message /\ m \in InTransit
  BY <1>1, ElementsTail, FrameType DEF NodeTake, InTransit
<1>3. UNCHANGED inbox
  BY DEF NodeTake
<1>4. ASSUME queue' = [queue EXCEPT !["Pending"] = Tail(@)] PROVE InTransit' \subseteq InTransit
  <2>1. ASSUME NEW e \in Destination PROVE Elements(queue'[e]) \subseteq Elements(queue[e])
    <3>1. queue'[e] = IF e = "Pending" THEN Tail(queue["Pending"]) ELSE queue[e]
      BY <1>4 DEF TypeOK, QueuesOK
    <3> QED
      BY <1>1, <3>1, ElementsTail
  <2>2. InTransit' \subseteq InTransit \cup {}
    BY <1>3, <2>1, Transit
  <2> QED
    BY <2>2
<1>5. ASSUME NEW d \in {"Started", "Error"},
             queue' = [queue EXCEPT !["Pending"] = Tail(@),
                                    ![d] = Append(@, NewMessage(d, m.run, m.version))]
      PROVE  InTransit' \subseteq InTransit \cup {NewMessage(d, m.run, m.version)}
  <2> DEFINE n == NewMessage(d, m.run, m.version)
  <2>1. n \in Message
    BY <1>2, MessageChanged, NewMessageType DEF Destination, Subscribed
  <2> HIDE DEF n
  <2>2. ASSUME NEW e \in Destination PROVE Elements(queue'[e]) \subseteq Elements(queue[e]) \cup {n}
    <3>1. queue'[e] = CASE e = "Pending" -> Tail(queue["Pending"])
                        [] e = d -> Append(queue[d], n)
                        [] OTHER -> queue[e]
      BY <1>5 DEF TypeOK, QueuesOK, n
    <3>2. queue[e] \in Seq(Message)
      BY DEF TypeOK, QueuesOK
    <3>3. CASE e = "Pending"
      BY <1>1, <3>1, <3>3, ElementsTail
    <3>4. CASE e = d
      BY <2>1, <3>1, <3>2, <3>4, ElementsAppend
    <3> QED
      BY <3>1, <3>3, <3>4
  <2>3. InTransit' \subseteq InTransit \cup {n}
    BY <1>3, <2>2, Transit
  <2> QED
    BY <2>3 DEF n
<1> QED
  BY <1>2, <1>4, <1>5

\* A step whose messages, if any, are no reductions and about runs already spoken of.
LEMMA NothingNew ==
  ASSUME node' \subseteq AboutRuns,
         \A m \in InTransit' : \/ m \in InTransit \/ m.dest = "DataReady" \/ m.cancel
                               \/ m.dest # "Pending" /\ Job(m) \in AboutRuns
  PROVE  AboutRuns' \subseteq AboutRuns /\ Reductions' \subseteq Reductions
<1>1. ASSUME NEW j \in AboutRuns' PROVE j \in AboutRuns
  <2>1. CASE j \in node'
    BY <2>1
  <2>2. CASE \E m \in InTransit' : m.dest # "DataReady" /\ ~m.cancel /\ j = Job(m)
    BY <2>2 DEF AboutRuns
  <2> QED
    BY <1>1, <2>1, <2>2 DEF AboutRuns, Job
<1>2. Reductions' \subseteq Reductions
  BY DEF Reductions
<1> QED
  BY <1>1, <1>2

\* What a step adds to the jobs spoken of, and to the reductions on their way.
SendsNothing == AboutRuns' \subseteq AboutRuns /\ Reductions' \subseteq Reductions
Sends(j) ==
  /\ AboutRuns' \subseteq AboutRuns \cup {j}
  /\ \A m \in Reductions' : m \in Reductions \/ Job(m) = j

LEMMA OneSent ==
  ASSUME NEW m, InTransit' \subseteq InTransit \cup {m}, UNCHANGED node
  PROVE  Sends(Job(m))
<1>1. \A n \in InTransit' : n \in InTransit \/ n = m
  OBVIOUS
<1>2. ASSUME NEW j \in AboutRuns' PROVE j \in AboutRuns \/ j = Job(m)
  <2>1. CASE j \in node'
    BY <2>1 DEF AboutRuns
  <2>2. CASE \E n \in InTransit' : n.dest # "DataReady" /\ ~n.cancel /\ j = Job(n)
    BY <1>1, <2>2 DEF AboutRuns
  <2> QED
    BY <1>2, <2>1, <2>2 DEF AboutRuns, Job
<1>3. \A n \in Reductions' : n \in Reductions \/ Job(n) = Job(m)
  BY <1>1 DEF Reductions
<1> QED
  BY <1>2, <1>3 DEF Sends

LEMMA QuietStep ==
  ASSUME UNCHANGED <<queue, node>>, Elements(inbox') \subseteq Elements(inbox)
  PROVE  SendsNothing
<1>1. \A d \in Destination : queue'[d] = queue[d]
  OBVIOUS
<1>2. InTransit' \subseteq InTransit \cup {}
  BY <1>1, Transit
<1>3. node' \subseteq AboutRuns
  BY DEF AboutRuns
<1> QED
  BY <1>2, <1>3, NothingNew DEF SendsNothing

LEMMA ReceiveQuiet ==
  ASSUME TypeOK, NEW d, NEW m, Receive(d, m)
  PROVE  Elements(inbox') \subseteq Elements(inbox) /\ m \in InTransit /\ m \in Message
BY ElementsTail, FrameType DEF TypeOK, QueuesOK, Receive, InTransit

LEMMA DieQuiet ==
  ASSUME Die
  PROVE  Elements(inbox') \subseteq Elements(inbox)
BY DEF Die, Elements

LEMMA ListenerSends ==
  ASSUME TypeOK, Listener
  PROVE  SendsNothing \/ (Forward /\ Sends(Job(lis.msg)))
<1>1. ASSUME NEW m, DataReady(m) \/ FindRun(m) \/ RefuseReport(m) PROVE SendsNothing
  <2>1. Elements(inbox') \subseteq Elements(inbox)
    BY <1>1, ReceiveQuiet DEF DataReady, FindRun, RefuseReport
  <2> QED
    BY <1>1, <2>1, QuietStep DEF DataReady, FindRun, RefuseReport
<1>2. CASE ReadVersion \/ ScriptFound \/ ScriptMissing \/ SaveRun \/ SaveDataLocation
  BY <1>2, QuietStep DEF ReadVersion, ScriptFound, ScriptMissing, SaveRun, SaveDataLocation
<1>3. CASE RetryRun \/ SaveRetry \/ LinkRetry
  BY <1>3, QuietStep DEF RetryRun, SaveRetry, LinkRetry
<1>4. CASE CreateVariables \/ SaveReport \/ RetryVariables \/ RetrySend
  <2>1. Die \/ UNCHANGED inbox
    BY <1>4 DEF CreateVariables, SaveReport, RetryVariables, RetrySend
  <2>2. UNCHANGED <<queue, node>>
    BY <1>4 DEF CreateVariables, SaveReport, RetryVariables, RetrySend
  <2>3. Elements(inbox') \subseteq Elements(inbox)
    BY <2>1, DieQuiet
  <2> QED
    BY <2>2, <2>3, QuietStep
<1>5. CASE Forward
  <2>1. lis.msg \in Message /\ UNCHANGED <<inbox, node>>
    BY <1>5, ListenerByPc DEF Forward, Filed
  <2>2. CASE UNCHANGED queue
    BY <2>1, <2>2, QuietStep
  <2>3. ASSUME NEW d \in {"Skipped", "Pending"}, Send([lis.msg EXCEPT !.dest = d])
        PROVE  Sends(Job(lis.msg))
    <3> DEFINE m == [lis.msg EXCEPT !.dest = d]
    <3>1. m \in Message
      BY <2>1, MessageChanged DEF Destination, Subscribed
    <3>2. Job(m) = Job(lis.msg)
      BY <2>1 DEF Message, Job
    <3> HIDE DEF m
    <3>3. Send(m)
      BY <2>3 DEF m
    <3>4. InTransit' \subseteq InTransit \cup {m}
      BY <2>1, <3>1, <3>3, SendTransit
    <3> QED
      BY <2>1, <3>2, <3>4, OneSent
  <2>4. \/ UNCHANGED queue
        \/ Send([lis.msg EXCEPT !.dest = "Skipped"]) \/ Send([lis.msg EXCEPT !.dest = "Pending"])
    BY <1>5 DEF Forward
  <2> QED
    BY <1>5, <2>2, <2>3, <2>4
<1> QED
  BY <1>1, <1>2, <1>3, <1>4, <1>5 DEF Listener

\* The session sends its job and, in the same step, deletes the run again.
Withdraws(w) ==
  /\ WebSendFails(w) /\ Spend("faults")
  /\ withdrawn' = withdrawn \cup {[run |-> web[w].copy.run, version |-> web[w].version]}

LEMMA SessionSends ==
  ASSUME TypeOK, NEW w \in Sessions, Session(w)
  PROVE  \/ SendsNothing
         \/ /\ Sends([run |-> web[w].copy.run, version |-> web[w].version])
            /\ WebSend(w) \/ Withdraws(w)
<1>1. ASSUME UNCHANGED <<queue, node, inbox>> PROVE SendsNothing
  BY <1>1, QuietStep
<1>2. CASE \/ \E i \in Ids : ShowFailed(w, i)
           \/ \E rerun \in BOOLEAN : Post(w, rerun)
           \/ \E r \in Runs : Confirm(w, r)
  BY <1>1, <1>2 DEF ShowFailed, Post, Confirm
<1>3. CASE \/ SetCancelled(w) \/ SaveBoth(w) \/ Hide(w) \/ SaveHidden(w) \/ WebVersion(w)
           \/ WebCreate(w) \/ WebLink(w) \/ WebVariables(w)
  BY <1>1, <1>3 DEF SetCancelled, SaveBoth, Hide, SaveHidden, WebVersion, WebCreate, WebLink,
     WebVariables
<1>4. CASE SendCancel(w)
  <2> DEFINE row == CancelledRow(web[w])
             m == [NewMessage("Pending", row.run, row.version) EXCEPT !.cancel = TRUE]
  <2>1. UNCHANGED <<inbox, node>> /\ (Send(m) \/ UNCHANGED queue)
    BY <1>4 DEF SendCancel, CancelOf
  <2>2. row \in Row
    BY <1>4, SessionByPc DEF SendCancel, Cancelling, CancelledRow
  <2>3. NewMessage("Pending", row.run, row.version) \in Message
    BY <2>2, RowChanged, NewMessageType DEF Destination
  <2> HIDE DEF row
  <2>4. m \in Message /\ m.cancel
    BY <2>3 DEF Message
  <2> HIDE DEF m
  <2>5. CASE Send(m)
    <3>1. InTransit' \subseteq InTransit \cup {m}
      BY <2>1, <2>4, <2>5, SendTransit
    <3>2. node' \subseteq AboutRuns
      BY <2>1 DEF AboutRuns
    <3> QED
      BY <2>4, <3>1, <3>2, NothingNew DEF SendsNothing
  <2> QED
    BY <1>1, <2>1, <2>5
<1>5. CASE WebSend(w) \/ WebSendFails(w)
  <2> DEFINE m == NewMessage("Pending", web[w].copy.run, web[w].version)
  <2>1. web[w] \in Sending
    BY <1>5, SessionByPc DEF WebSend, WebSendFails
  <2>2. m \in Message
    BY <2>1, RowChanged, NewMessageType DEF Sending, Destination
  <2>3. Job(m) = [run |-> web[w].copy.run, version |-> web[w].version]
    BY DEF Job, NewMessage
  <2>4. UNCHANGED <<inbox, node>> /\ (UNCHANGED queue \/ (Send(m) /\ (WebSend(w) \/ Withdraws(w))))
    BY <1>5 DEF WebSend, WebSendFails, Withdraws
  <2> HIDE DEF m
  <2>5. Send(m) => Sends(Job(m))
    BY <2>2, <2>4, SendTransit, OneSent
  <2> QED
    BY <1>1, <2>3, <2>4, <2>5
<1> QED
  BY <1>2, <1>3, <1>4, <1>5 DEF Session

LEMMA NodeSends ==
  ASSUME TypeOK, Addressed, Node
  PROVE  SendsNothing
<1>1. node \subseteq AboutRuns
  BY DEF AboutRuns
<1>2. ASSUME NEW m, NodeTake(m) PROVE m.dest = "Pending"
  <2>1. "Pending" \in Destination /\ queue["Pending"] \in Seq(Message) /\ queue["Pending"] # <<>>
    BY <1>2 DEF Destination, TypeOK, QueuesOK, NodeTake
  <2> QED
    BY <1>2, <2>1, ElementsTail DEF Addressed, NodeTake
<1>3. ASSUME NEW m, NodeCancel(m) \/ NodeDrop(m) PROVE SendsNothing
  <2>1. InTransit' \subseteq InTransit
    BY <1>3, TakeTransit DEF NodeCancel, NodeDrop
  <2> QED
    BY <1>1, <1>3, <2>1, NothingNew DEF SendsNothing, NodeCancel, NodeDrop
<1>4. ASSUME NEW m, NodeStart(m) \/ NodeReject(m) PROVE SendsNothing
  <2>1. NodeTake(m) /\ ~m.cancel /\ node' \subseteq node \cup {Job(m)}
    BY <1>4 DEF NodeStart, NodeReject
  <2>2. m \in InTransit /\ m.dest = "Pending"
    BY <1>2, <2>1, TakeTransit
  <2>3. Job(m) \in AboutRuns
    BY <2>1, <2>2 DEF AboutRuns
  <2>4. \E d \in {"Started", "Error"} : InTransit' \subseteq InTransit \cup {NewMessage(d, m.run, m.version)}
    BY <1>4, <2>1, TakeTransit DEF NodeStart, NodeReject
  <2>5. \A d \in {"Started", "Error"} : Job(NewMessage(d, m.run, m.version)) = Job(m)
    BY DEF Job, NewMessage
  <2>6. \A d : NewMessage(d, m.run, m.version).dest = d
    BY DEF NewMessage
  <2>7. \A n \in InTransit' : n \in InTransit \/ (n.dest # "Pending" /\ Job(n) \in AboutRuns)
    BY <2>3, <2>4, <2>5, <2>6
  <2>8. node' \subseteq AboutRuns
    BY <1>1, <2>1, <2>3
  <2> QED
    BY <2>7, <2>8, NothingNew DEF SendsNothing
<1>5. ASSUME NEW j \in node, NodeDie(j) PROVE SendsNothing
  <2>1. UNCHANGED <<queue, inbox>> /\ node' \subseteq node
    BY <1>5 DEF NodeDie
  <2>2. InTransit' = InTransit
    BY <2>1 DEF InTransit, Elements
  <2> QED
    BY <1>1, <2>1, <2>2, NothingNew DEF SendsNothing
<1>6. ASSUME NEW j \in node, NodeReport(j) PROVE SendsNothing
  <2>1. j \in [run : Runs, version : Nat]
    BY DEF TypeOK, QueuesOK
  <2>2. PICK d \in {"Complete", "Error", "Skipped"} :
          \/ Send(NewMessage(d, j.run, j.version))
          \/ Send([NewMessage(d, j.run, j.version) EXCEPT !.retryIn = TRUE])
    BY <1>6 DEF NodeReport
  <2>3. NewMessage(d, j.run, j.version) \in Message
    BY <2>1, NewMessageType DEF Destination, Subscribed
  <2>4. PICK m \in Message : Send(m) /\ m.dest = d /\ Job(m) = j
    <3>1. [NewMessage(d, j.run, j.version) EXCEPT !.retryIn = TRUE] \in Message
      BY <2>3 DEF Message
    <3>2. NewMessage(d, j.run, j.version).dest = d /\ Job(NewMessage(d, j.run, j.version)) = j
      BY <2>1 DEF NewMessage, Job
    <3>3. /\ [NewMessage(d, j.run, j.version) EXCEPT !.retryIn = TRUE].dest = d
          /\ Job([NewMessage(d, j.run, j.version) EXCEPT !.retryIn = TRUE]) = j
      BY <2>1 DEF NewMessage, Job
    <3> QED
      BY <2>2, <2>3, <3>1, <3>2, <3>3
  <2>5. InTransit' \subseteq InTransit \cup {m}
    BY <1>6, <2>4, SendTransit DEF NodeReport
  <2>6. Job(m) \in AboutRuns /\ node' \subseteq AboutRuns
    BY <1>1, <1>6, <2>4 DEF NodeReport
  <2>7. \A n \in InTransit' : n \in InTransit \/ (n.dest # "Pending" /\ Job(n) \in AboutRuns)
    BY <2>4, <2>5, <2>6
  <2> QED
    BY <2>6, <2>7, NothingNew DEF SendsNothing
<1> QED
  BY <1>3, <1>4, <1>5, <1>6 DEF Node

LEMMA AddressedSend ==
  ASSUME TypeOK, Addressed, NEW m \in Message, Send(m)
  PROVE  Addressed'
<1>1. ASSUME NEW d \in Destination, NEW n \in Elements(queue'[d]) PROVE n.dest = d
  <2>1. queue[d] \in Seq(Message) /\ queue'[d] = IF d = m.dest THEN Append(queue[d], m) ELSE queue[d]
    BY DEF TypeOK, QueuesOK, Send
  <2> QED
    BY <1>1, <2>1, ElementsAppend DEF Addressed
<1> QED
  BY <1>1 DEF Addressed, Elements

LEMMA AddressedStep ==
  ASSUME TypeOK, Addressed, [Next]_vars
  PROVE  Addressed'
<1>1. UNCHANGED queue => Addressed'
  BY DEF Addressed, Elements
<1>2. ASSUME NEW d \in Destination, queue[d] # <<>>, queue' = [queue EXCEPT ![d] = Tail(@)]
      PROVE  Addressed'
  <2>1. ASSUME NEW e \in Destination, NEW n \in Elements(queue'[e]) PROVE n.dest = e
    <3>1. queue[e] \in Seq(Message) /\ queue'[e] = IF e = d THEN Tail(queue[d]) ELSE queue[e]
      BY <1>2 DEF TypeOK, QueuesOK
    <3> QED
      BY <1>2, <2>1, <3>1, ElementsTail DEF Addressed
  <2> QED
    BY <2>1 DEF Addressed, Elements
<1>3. ASSUME NEW r \in Runs, Submit(r) PROVE Addressed'
  <2>1. NewMessage("DataReady", r, 0) \in Message
    BY NewMessageType DEF Destination, Subscribed
  <2> QED
    BY <1>3, <2>1, AddressedSend DEF Submit
<1>4. ASSUME NEW d \in Subscribed, Dispatch(d) PROVE Addressed'
  BY <1>2, <1>4 DEF Dispatch, Destination
<1>5. CASE TogglePause \/ Kill \/ Restart
  BY <1>1, <1>5 DEF TogglePause, Kill, Restart
<1>6. CASE Listener
  <2>1. UNCHANGED queue \/ Forward
    BY <1>6 DEF Listener, DataReady, FindRun, RefuseReport, ReadVersion, ScriptFound, ScriptMissing,
       SaveRun, SaveDataLocation, CreateVariables, SaveReport, RetryRun, SaveRetry, LinkRetry,
       RetryVariables, RetrySend
  <2>2. CASE Forward
    <3>1. lis.msg \in Message
      BY <2>2, ListenerByPc DEF Forward, Filed
    <3>2. \A d \in {"Skipped", "Pending"} : [lis.msg EXCEPT !.dest = d] \in Message
      BY <3>1, MessageChanged DEF Destination, Subscribed
    <3>3. \/ UNCHANGED queue
          \/ Send([lis.msg EXCEPT !.dest = "Skipped"]) \/ Send([lis.msg EXCEPT !.dest = "Pending"])
      BY <2>2 DEF Forward
    <3> QED
      BY <1>1, <3>2, <3>3, AddressedSend
  <2> QED
    BY <1>1, <2>1, <2>2
<1>7. CASE Node
  <2>1. ASSUME NEW m, NodeCancel(m) \/ NodeDrop(m) PROVE Addressed'
    BY <1>2, <2>1 DEF NodeCancel, NodeDrop, NodeTake, Destination
  <2>2. ASSUME NEW m, NodeStart(m) \/ NodeReject(m) PROVE Addressed'
    <3>1. NodeTake(m) /\ queue["Pending"] # <<>>
      BY <2>2 DEF NodeStart, NodeReject, NodeTake
    <3>0. CASE queue' = [queue EXCEPT !["Pending"] = Tail(@)]
      BY <1>2, <3>0, <3>1 DEF Destination
    <3>2. SUFFICES ASSUME NEW d \in {"Started", "Error"},
                          queue' = [queue EXCEPT !["Pending"] = Tail(@),
                                                 ![d] = Append(@, NewMessage(d, m.run, m.version))]
                   PROVE  Addressed'
      BY <2>2, <3>0 DEF NodeStart, NodeReject
    <3> DEFINE n == NewMessage(d, m.run, m.version)
    <3>3. n \in Message /\ n.dest = d
      <4>1. m \in Message
        BY <3>1, TakeTransit
      <4> QED
        BY <4>1, MessageChanged, NewMessageType DEF Destination, Subscribed, NewMessage
    <3> HIDE DEF n
    <3>4. ASSUME NEW e \in Destination, NEW x \in Elements(queue'[e]) PROVE x.dest = e
      <4>1. queue[e] \in Seq(Message)
        BY DEF TypeOK, QueuesOK
      <4>2. queue'[e] = CASE e = "Pending" -> Tail(queue["Pending"])
                          [] e = d -> Append(queue[d], n)
                          [] OTHER -> queue[e]
        BY <3>2 DEF TypeOK, QueuesOK, n
      <4>3. CASE e = "Pending"
        BY <3>1, <3>4, <4>1, <4>2, <4>3, ElementsTail DEF Addressed
      <4>4. CASE e = d
        BY <3>3, <3>4, <4>1, <4>2, <4>4, ElementsAppend DEF Addressed
      <4> QED
        BY <3>4, <4>2, <4>3, <4>4 DEF Addressed
    <3> QED
      BY <3>4 DEF Addressed, Elements
  <2>3. ASSUME NEW j \in node, NodeReport(j) PROVE Addressed'
    <3>1. j \in [run : Runs, version : Nat]
      BY DEF TypeOK, QueuesOK
    <3>2. PICK d \in {"Complete", "Error", "Skipped"} :
            \/ Send(NewMessage(d, j.run, j.version))
            \/ Send([NewMessage(d, j.run, j.version) EXCEPT !.retryIn = TRUE])
      BY <2>3 DEF NodeReport
    <3>3. NewMessage(d, j.run, j.version) \in Message
      BY <3>1, NewMessageType DEF Destination, Subscribed
    <3>4. [NewMessage(d, j.run, j.version) EXCEPT !.retryIn = TRUE] \in Message
      BY <3>3 DEF Message
    <3> QED
      BY <3>2, <3>3, <3>4, AddressedSend
  <2>4. ASSUME NEW j, NodeDie(j) PROVE Addressed'
    BY <1>1, <2>4 DEF NodeDie
  <2> QED
    BY <1>7, <2>1, <2>2, <2>3, <2>4 DEF Node
<1>8. ASSUME NEW w \in Sessions, Session(w) PROVE Addressed'
  <2>1. UNCHANGED queue \/ SendCancel(w) \/ WebSend(w) \/ WebSendFails(w)
    BY <1>8 DEF Session, ShowFailed, Post, Confirm, SetCancelled, SaveBoth, Hide, SaveHidden, WebVersion,
       WebCreate, WebLink, WebVariables
  <2>2. CASE SendCancel(w)
    <3> DEFINE row == CancelledRow(web[w])
               m == [NewMessage("Pending", row.run, row.version) EXCEPT !.cancel = TRUE]
    <3>1. Send(m) \/ UNCHANGED queue
      BY <2>2 DEF SendCancel, CancelOf
    <3>2. row \in Row
      BY <2>2, SessionByPc DEF SendCancel, Cancelling, CancelledRow
    <3>3. NewMessage("Pending", row.run, row.version) \in Message
      BY <3>2, RowChanged, NewMessageType DEF Destination
    <3> HIDE DEF row
    <3>4. m \in Message
      BY <3>3 DEF Message
    <3> HIDE DEF m
    <3> QED
      BY <1>1, <3>1, <3>4, AddressedSend
  <2>3. CASE WebSend(w) \/ WebSendFails(w)
    <3>1. web[w] \in Sending
      BY <2>3, SessionByPc DEF WebSend, WebSendFails
    <3>2. NewMessage("Pending", web[w].copy.run, web[w].version) \in Message
      BY <3>1, RowChanged, NewMessageType DEF Sending, Destination
    <3> QED
      BY <1>1, <2>3, <3>2, AddressedSend DEF WebSend, WebSendFails
  <2> QED
    BY <1>1, <2>1, <2>2, <2>3
<1>9. CASE UNCHANGED vars
  BY <1>1, <1>9 DEF vars
<1> QED
  BY <1>3, <1>4, <1>5, <1>6, <1>7, <1>8, <1>9, Zenon DEF Next
-----------------------------------------------------------------------------
(***************************************************************************)
(* The invariant holds at first and every step keeps it.                   *)
(***************************************************************************)
LEMMA SentInit ==
  ASSUME Init
  PROVE  SentInv
<1>1. Ids = {} /\ (\A w \in Sessions : web[w] = NoPage) /\ lis = Waiting /\ node = {}
  BY DEF Init, Ids
<1>2. TableKnows = {} /\ ListenerKnows = {} /\ \A w \in Sessions : SessionKnows(w) = {}
  BY <1>1 DEF TableKnows, ListenerKnows, SessionKnows, Memory, NoPage, Waiting
<1>3. Known = {}
  BY <1>2 DEF Known
<1>4. Identified
  BY <1>1, <1>3 DEF Identified, Agree, Given, Targets, Targeted, NoPage
<1>5. inbox = <<>> /\ \A d \in Destination : queue[d] = <<>>
  BY DEF Init
<1>6. InTransit = {} /\ Addressed
  BY <1>5 DEF InTransit, Elements, Addressed
<1>7. AboutRuns = {}
  BY <1>1, <1>6 DEF AboutRuns
<1>8. Noted
  BY BoundsAssumption DEF Init, Noted
<1> QED
  BY <1>1, <1>4, <1>6, <1>7, <1>8
     DEF SentInv, NewRowHeld, FiledKept, JobsKept, Holds, NoPage, Waiting

LEMMA NewRowHeldStep ==
  ASSUME IInv, IInv', SentInv, [Next]_vars
  PROVE  NewRowHeld'
<1>1. Agree /\ Given /\ Grow
  BY StepGrows DEF SentInv, Identified
\* A session that goes on holding its row.
<1>2. ASSUME NEW w \in Sessions, Holds(w), Holds(w)', web'[w].new = web[w].new,
             web'[w].copy = web[w].copy, web'[w].version = web[w].version
      PROVE  Job(db'[web'[w].new]) = [run |-> web'[w].copy.run, version |-> web'[w].version]
  <2>1. web[w].new \in Ids /\ web[w].new \in Ids'
    BY <1>2 DEF IInv, NewRowsKept
  <2>2. Job(db'[web[w].new]) = Job(db[web[w].new])
    BY <1>1, <2>1, GrowKeepsRows
  <2> QED
    BY <1>2, <2>2 DEF SentInv, NewRowHeld
<1>3. ASSUME UNCHANGED web PROVE NewRowHeld'
  BY <1>2, <1>3 DEF NewRowHeld, Holds, Job
<1>4. CASE Listener
  BY <1>3, <1>4, ListenerKeeps
<1>5. ASSUME NEW w \in Sessions, Session(w) PROVE NewRowHeld'
  <2>1. ASSUME NEW v \in Sessions, Holds(v)'
        PROVE  Job(db'[web'[v].new]) = [run |-> web'[v].copy.run, version |-> web'[v].version]
    <3>1. CASE v = w
      BY <1>2, <1>5, <2>1, <3>1, SessionKeeps
    <3>2. CASE v # w
      <4>1. web'[v] = web[v]
        BY <1>5, <3>2, SessionKeeps
      <4> QED
        BY <1>2, <2>1, <4>1 DEF Holds
    <3> QED
      BY <3>1, <3>2
  <2> QED
    BY <2>1 DEF NewRowHeld, Job
<1>6. UNCHANGED web \/ Listener \/ \E w \in Sessions : Session(w)
  BY Zenon DEF Next, vars, Submit, TogglePause, Dispatch, Kill, Restart, Node, NodeCancel, NodeDrop,
     NodeStart, NodeReject, NodeTake, NodeReport, NodeDie
<1> QED
  BY <1>3, <1>4, <1>5, <1>6

LEMMA FiledKeptStep ==
  ASSUME IInv, SentInv, [Next]_vars
  PROVE  FiledKept'
<1>0. TypeOK /\ TableOK
  BY DEF IInv, TypeOK
<1>1. \A i : Kept(i) => /\ Kept(i)' /\ Job(db'[i]) = Job(db[i])
                        /\ i \in located => i \in located'
  BY KeptStays DEF SentInv
<1>2. ASSUME lis'.pc \notin {"locate", "variables", "forward"} PROVE FiledKept'
  BY <1>2 DEF FiledKept
\* The listener goes on filing the run.
<1>3. ASSUME lis.pc \in {"locate", "variables", "forward"}, lis'.id = lis.id, lis'.msg = lis.msg,
             lis'.pc # "locate" => lis.id \in located'
      PROVE  FiledKept'
  <2>0. PICK i : i = lis.id
    OBVIOUS
  <2>1. Kept(i) /\ Job(db[i]) = Job(lis.msg)
    BY <1>3, <2>0 DEF SentInv, FiledKept
  <2>2. Kept(i)' /\ Job(db'[i]) = Job(lis.msg)
    BY <1>1, <2>1
  <2> QED
    BY <1>3, <2>0, <2>2 DEF FiledKept, Kept, Job
<1>4. ASSUME lis' \in {lis, Waiting, Stopped} PROVE FiledKept'
  <2>1. CASE lis' = lis /\ lis.pc \in {"locate", "variables", "forward"}
    <3>1. lis.pc # "locate" => lis.id \in located'
      BY <1>1, <2>1 DEF SentInv, FiledKept
    <3> QED
      BY <1>3, <2>1, <3>1
  <2> QED
    BY <1>2, <1>4, <2>1 DEF Waiting, Stopped
<1>5. CASE SaveRun
  <2> DEFINE row == NewRow(lis.msg.run, lis.msg.version, IF lis.paused THEN "s" ELSE "q")
  <2>1. db' = Saved(nextId, row) /\ UNCHANGED web
    BY <1>5 DEF SaveRun
  <2>2. lis' = [pc |-> "locate", msg |-> lis.msg, paused |-> lis.paused, id |-> nextId]
    BY <1>5 DEF SaveRun
  <2>3. Job(row) = Job(lis.msg)
    BY DEF Job, NewRow
  <2> HIDE DEF row
  <2>4. PICK i : i = nextId
    OBVIOUS
  <2>5. i \in Ids' /\ db'[i] = row /\ lis'.id = i
    BY <2>1, <2>2, <2>4, SavedRows
  <2>6. \A w \in Sessions : Holds(w)' => web'[w].new # i
    BY <1>0, <2>1, <2>4, RowIdsAssumption DEF Holds, IInv, NewRowsKept, RowsLinked, TableOK
  <2>7. Kept(i)'
    BY <2>2, <2>5, <2>6 DEF Kept, ListenerHolds
  <2> QED
    BY <2>2, <2>3, <2>5, <2>7 DEF FiledKept, Kept, Job
<1>6. CASE SaveDataLocation \/ CreateVariables
  <2>1. lis \in Filed
    BY <1>0, <1>6, ListenerByPc DEF SaveDataLocation, CreateVariables
  <2>2. CASE SaveDataLocation
    <3>1. lis.pc = "locate" /\ lis' = [lis EXCEPT !.pc = "variables"] /\ lis.id \in located'
      BY <2>2 DEF SaveDataLocation
    <3> QED
      BY <1>3, <2>1, <3>1 DEF Filed
  <2>3. CASE CreateVariables
    <3>1. lis.pc = "variables" /\ (lis' = [lis EXCEPT !.pc = "forward"] \/ lis' = Stopped)
      BY <2>3 DEF CreateVariables, Die
    <3>2. lis.id \in located'
      BY <1>1, <3>1 DEF SentInv, FiledKept
    <3> QED
      BY <1>3, <1>4, <2>1, <3>1, <3>2 DEF Filed
  <2> QED
    BY <1>6, <2>2, <2>3
<1>7. CASE ReadVersion \/ ScriptFound
  <2>1. lis \in Filing
    BY <1>0, <1>7, ListenerByPc DEF ReadVersion, ScriptFound
  <2>2. lis'.pc \in {"script", "save"}
    BY <1>7, <2>1 DEF ReadVersion, ScriptFound, Filing
  <2> QED
    BY <1>2, <2>2
<1>8. CASE SaveReport \/ RetryRun
  <2>1. lis \in Reporting
    BY <1>0, <1>8, ListenerByPc DEF SaveReport, RetryRun
  <2>2. \/ lis' \in {Waiting, Stopped} \/ lis' = [lis EXCEPT !.pc = "retry"]
        \/ lis' = [lis EXCEPT !.pc = "retrySave", !.msg.version = NextVersion(lis.msg.run)]
    BY <1>8 DEF SaveReport, RetryRun, Return, Die
  <2>3. CASE lis' = [lis EXCEPT !.pc = "retrySave", !.msg.version = NextVersion(lis.msg.run)]
    BY <1>2, <2>1, <2>3 DEF Reporting
  <2>4. CASE lis' = [lis EXCEPT !.pc = "retry"]
    BY <1>2, <2>1, <2>4 DEF Reporting
  <2> QED
    BY <1>4, <2>2, <2>3, <2>4
<1>9. CASE LinkRetry \/ RetryVariables
  <2>1. lis \in Retrying
    BY <1>0, <1>9, ListenerByPc DEF LinkRetry, RetryVariables
  <2>2. lis'.pc \notin {"locate", "variables", "forward"}
    BY <1>9, <2>1 DEF LinkRetry, RetryVariables, Die, Stopped, Retrying
  <2> QED
    BY <1>2, <2>2
<1>10. ASSUME NEW m, DataReady(m) \/ FindRun(m) PROVE FiledKept'
  BY <1>2, <1>10 DEF DataReady, FindRun
<1>11. CASE SaveRetry
  BY <1>2, <1>11 DEF SaveRetry
<1>12. ASSUME NEW m, RefuseReport(m) PROVE FiledKept'
  BY <1>4, <1>12 DEF RefuseReport
<1>13. CASE ScriptMissing \/ Forward \/ RetrySend
  BY <1>4, <1>13 DEF ScriptMissing, Forward, RetrySend, Return, Die
<1>14. CASE Listener
  BY <1>5, <1>6, <1>7, <1>8, <1>9, <1>10, <1>11, <1>12, <1>13, <1>14 DEF Listener
<1>15. ASSUME NEW w \in Sessions, Session(w) PROVE FiledKept'
  BY <1>4, <1>15, SessionKeeps
<1>16. lis' \in {lis, Waiting, Stopped} \/ Listener \/ \E w \in Sessions : Session(w)
  BY Zenon DEF Next, vars, Submit, TogglePause, Dispatch, Kill, Die, Restart, Node, NodeCancel, NodeDrop,
     NodeStart, NodeReject, NodeTake, NodeReport, NodeDie
<1> QED
  BY <1>4, <1>14, <1>15, <1>16

LEMMA NextSends ==
  ASSUME TypeOK, Addressed, [Next]_vars
  PROVE  \/ SendsNothing
         \/ Forward /\ Sends(Job(lis.msg))
         \/ \E w \in Sessions :
              /\ Sends([run |-> web[w].copy.run, version |-> web[w].version])
              /\ WebSend(w) \/ Withdraws(w)
<1>1. ASSUME NEW r \in Runs, Submit(r) PROVE SendsNothing
  <2> DEFINE m == NewMessage("DataReady", r, 0)
  <2>1. m \in Message /\ m.dest = "DataReady"
    BY NewMessageType DEF Destination, Subscribed, NewMessage
  <2>2. Send(m) /\ UNCHANGED <<inbox, node>>
    BY <1>1 DEF Submit
  <2> HIDE DEF m
  <2>3. InTransit' \subseteq InTransit \cup {m} /\ node' \subseteq AboutRuns
    BY <2>1, <2>2, SendTransit DEF AboutRuns
  <2> QED
    BY <2>1, <2>3, NothingNew DEF SendsNothing
<1>2. ASSUME NEW d \in Subscribed, Dispatch(d) PROVE SendsNothing
  <2>1. InTransit' \subseteq InTransit
    BY <1>2, DispatchTransit
  <2>2. node' \subseteq AboutRuns
    BY <1>2 DEF Dispatch, AboutRuns
  <2> QED
    BY <2>1, <2>2, NothingNew DEF SendsNothing
<1>3. CASE TogglePause \/ Restart \/ UNCHANGED vars
  BY <1>3, QuietStep DEF TogglePause, Restart, vars
<1>4. CASE Kill
  BY <1>4, QuietStep, DieQuiet DEF Kill
<1>5. CASE Listener
  BY <1>5, ListenerSends
<1>6. CASE Node
  BY <1>6, NodeSends
<1>7. ASSUME NEW w \in Sessions, Session(w)
      PROVE  \/ SendsNothing
             \/ /\ Sends([run |-> web[w].copy.run, version |-> web[w].version])
                /\ WebSend(w) \/ Withdraws(w)
  BY <1>7, SessionSends
<1> QED
  BY <1>1, <1>2, <1>3, <1>4, <1>5, <1>6, <1>7, Zenon DEF Next

\* The budgets of the environment are only spent.
LEMMA BudgetStep ==
  ASSUME [Next]_vars
  PROVE  budget' = budget \/ \E b \in {"ready", "posts", "retries", "faults"} : Spend(b)
<1>1. CASE \/ \E r \in Runs : Submit(r)
           \/ \E d \in Subscribed : Dispatch(d)
           \/ TogglePause \/ Kill \/ Restart \/ UNCHANGED vars
  BY <1>1 DEF Submit, TogglePause, Dispatch, Kill, Restart, vars
<1>2. CASE Listener
  BY <1>2 DEF Listener, DataReady, FindRun, RefuseReport, ReadVersion, ScriptFound, ScriptMissing,
     SaveRun, SaveDataLocation, CreateVariables, Forward, SaveReport, RetryRun, SaveRetry, LinkRetry,
     RetryVariables, RetrySend
<1>3. CASE Node
  BY <1>3 DEF Node, NodeCancel, NodeDrop, NodeStart, NodeReject, NodeTake, NodeReport, NodeDie
<1>4. ASSUME NEW w \in Sessions, Session(w)
      PROVE  budget' = budget \/ \E b \in {"ready", "posts", "retries", "faults"} : Spend(b)
  <2>1. CASE (\E i \in Ids : ShowFailed(w, i)) \/ (\E r \in Runs : Confirm(w, r))
    BY <2>1 DEF ShowFailed, Confirm
  <2>2. CASE WebVariables(w) \/ WebSendFails(w)
    BY <2>2 DEF WebVariables, WebSendFails
  <2>3. CASE \/ \E rerun \in BOOLEAN : Post(w, rerun)
             \/ SendCancel(w) \/ SetCancelled(w) \/ SaveBoth(w) \/ Hide(w) \/ SaveHidden(w)
    BY <2>3 DEF Post, SendCancel, SetCancelled, SaveBoth, Hide, SaveHidden
  <2>4. CASE WebVersion(w) \/ WebCreate(w) \/ WebLink(w) \/ WebSend(w)
    BY <2>4 DEF WebVersion, WebCreate, WebLink, WebSend
  <2> QED
    BY <1>4, <2>1, <2>2, <2>3, <2>4 DEF Session
<1> QED
  BY <1>1, <1>2, <1>3, <1>4 DEF Next

\* Only a session whose disconnect raises withdraws a job.
LEMMA WithdrawnStep ==
  ASSUME [Next]_vars
  PROVE  (withdrawn' = withdrawn) \/ (\E w \in Sessions : Withdraws(w))
<1>1. CASE \/ \E r \in Runs : Submit(r)
           \/ \E d \in Subscribed : Dispatch(d)
           \/ TogglePause \/ Kill \/ Restart \/ UNCHANGED vars
  BY <1>1 DEF Submit, TogglePause, Dispatch, Kill, Restart, vars
<1>2. CASE Listener
  BY <1>2 DEF Listener, DataReady, FindRun, RefuseReport, ReadVersion, ScriptFound, ScriptMissing,
     SaveRun, SaveDataLocation, CreateVariables, Forward, SaveReport, RetryRun, SaveRetry, LinkRetry,
     RetryVariables, RetrySend
<1>3. CASE Node
  BY <1>3 DEF Node, NodeCancel, NodeDrop, NodeStart, NodeReject, NodeTake, NodeReport, NodeDie
<1>4. ASSUME NEW w \in Sessions, Session(w)
      PROVE  (withdrawn' = withdrawn) \/ Withdraws(w)
  <2>1. CASE WebSendFails(w)
    BY <2>1 DEF WebSendFails, Withdraws
  <2>2. CASE \/ \E i \in Ids : ShowFailed(w, i)
             \/ \E rerun \in BOOLEAN : Post(w, rerun)
             \/ \E r \in Runs : Confirm(w, r)
    BY <2>2 DEF ShowFailed, Post, Confirm
  <2>3. CASE SendCancel(w) \/ SetCancelled(w) \/ SaveBoth(w) \/ Hide(w) \/ SaveHidden(w)
    BY <2>3 DEF SendCancel, SetCancelled, SaveBoth, Hide, SaveHidden
  <2>4. CASE WebVersion(w) \/ WebCreate(w) \/ WebLink(w) \/ WebVariables(w) \/ WebSend(w)
    BY <2>4 DEF WebVersion, WebCreate, WebLink, WebVariables, WebSend
  <2> QED
    BY <1>4, <2>1, <2>2, <2>3, <2>4, Zenon DEF Session
<1> QED
  BY <1>1, <1>2, <1>3, <1>4 DEF Next

LEMMA SentStays ==
  ASSUME IInv, SentInv, [Next]_vars
  PROVE  JobsKept'
<1>1. ASSUME NEW j, Reducible(j) PROVE Reducible(j)'
  <2>1. PICK i \in located : Kept(i) /\ Job(db[i]) = j
    BY <1>1 DEF Reducible
  <2>2. Kept(i)' /\ Job(db'[i]) = j /\ i \in located'
    BY <2>1, KeptStays DEF SentInv
  <2> QED
    BY <2>2 DEF Reducible, Job
<1>2. withdrawn \subseteq withdrawn' /\ \A j \in AboutRuns \ withdrawn : Reducible(j)'
  BY <1>1, WithdrawnStep DEF SentInv, JobsKept, Withdraws
<1>3. ASSUME SendsNothing PROVE JobsKept'
  BY <1>2, <1>3 DEF SendsNothing, JobsKept
<1>4. ASSUME NEW j, Sends(j), Reducible(j)' PROVE JobsKept'
  BY <1>2, <1>4 DEF Sends, JobsKept
<1>5. CASE Forward /\ Sends(Job(lis.msg))
  <2>1. Kept(lis.id) /\ Job(db[lis.id]) = Job(lis.msg) /\ lis.id \in located
    BY <1>5 DEF Forward, SentInv, FiledKept
  <2>2. PICK j : j = Job(lis.msg)
    OBVIOUS
  <2>3. Reducible(j)' /\ Sends(j)
    BY <1>1, <1>5, <2>1, <2>2 DEF Reducible
  <2> QED
    BY <1>4, <2>3
<1>6. ASSUME NEW w \in Sessions, WebSend(w),
             Sends([run |-> web[w].copy.run, version |-> web[w].version])
      PROVE  JobsKept'
  <2>0. PICK i, j : i = web[w].new /\ j = [run |-> web[w].copy.run, version |-> web[w].version]
    OBVIOUS
  <2>1. Holds(w) /\ i \in Ids /\ i \in located /\ Job(db[i]) = j
    BY <1>6, <2>0 DEF WebSend, Holds, IInv, NewRowsKept, SentInv, NewRowHeld
  <2>2. UNCHANGED <<db, located, lis>> /\ web' = [web EXCEPT ![w] = NoPage]
    BY <1>6 DEF WebSend, End, Step
  <2>3. \A v \in Sessions : Holds(v)' => v # w /\ web'[v] = web[v] /\ Holds(v)
    BY <2>2 DEF Holds, NoPage, IInv, TypeOK
  <2>4. \A v \in Sessions : Holds(v)' => web'[v].new # i
    BY <2>0, <2>1, <2>3 DEF IInv, NewRowsKept
  <2>5. ListenerHolds' => lis'.new # i
    BY <2>0, <2>1, <2>2 DEF IInv, NewRowsKept, ListenerHolds
  <2>6. Kept(i)'
    BY <2>1, <2>2, <2>4, <2>5 DEF Kept, Ids
  <2>7. i \in located' /\ Job(db'[i]) = j
    BY <2>1, <2>2
  <2>8. Reducible(j)'
    BY <2>6, <2>7 DEF Reducible, Job
  <2>9. Sends(j)
    BY <1>6, <2>0
  <2> QED
    BY <1>4, <2>8, <2>9
<1>7. ASSUME NEW w \in Sessions, Withdraws(w),
             Sends([run |-> web[w].copy.run, version |-> web[w].version])
      PROVE  JobsKept'
  BY <1>2, <1>7 DEF Withdraws, Sends, JobsKept
<1> QED
  BY <1>3, <1>5, <1>6, <1>7, NextSends DEF SentInv, IInv

LEMMA NotedStep ==
  ASSUME TypeOK, Noted, [Next]_vars
  PROVE  Noted'
<1>1. budget \in [{"ready", "posts", "retries", "faults"} -> Nat] /\ MaxFaults \in Nat
  BY BoundsAssumption DEF TypeOK, QueuesOK
<1>2. budget'.faults <= budget.faults /\ (Spend("faults") => budget'.faults < budget.faults)
  <2>1. ASSUME NEW b \in {"ready", "posts", "retries", "faults"}, Spend(b)
        PROVE  budget'.faults = IF b = "faults" THEN budget.faults - 1 ELSE budget.faults
    BY <1>1, <2>1 DEF Spend
  <2> QED
    BY <1>1, <2>1, BudgetStep
<1>3. budget'.faults \in Int
  BY <1>1, BudgetStep DEF Spend
<1> QED
  BY <1>1, <1>2, <1>3, WithdrawnStep DEF Noted, Withdraws

LEMMA SentStep ==
  ASSUME IInv, SentInv, [Next]_vars
  PROVE  SentInv'
<1>1. IInv'
  BY StepInv
<1>2. Identified'
  BY StepGrows, GrowAgrees DEF SentInv, Identified
<1>3. Addressed'
  BY AddressedStep DEF SentInv, IInv
<1>4. Noted'
  BY NotedStep DEF SentInv, IInv
<1> QED
  BY <1>1, <1>2, <1>3, <1>4, NewRowHeldStep, FiledKeptStep, SentStays DEF SentInv

THEOREM SentInvariance == Spec => []SentInv
<1>1. Init => SentInv
  BY SentInit
<1>2. IInv /\ SentInv /\ [Next]_vars => SentInv'
  BY SentStep
<1> QED
  BY <1>1, <1>2, Invariance, PTL DEF Spec

(***************************************************************************)
(* Whatever is sent for reduction, and every report on its way, is about a *)
(* run the table has, whatever the sessions save and take back meanwhile   *)
(* and however often the listener dies.  The one exception is a run whose  *)
(* session deleted it when the disconnect after its message raised.        *)
(***************************************************************************)
THEOREM JobsRecorded == Spec => []JobsAreRecorded
<1>1. SentInv => JobsAreRecorded
  BY DEF SentInv, JobsKept, Reducible, Kept, JobsAreRecorded, Job
<1> QED
  BY <1>1, SentInvariance, PTL

(***************************************************************************)
(* A message that asks for a reduction is about a run whose data location  *)
(* is in the table: data_ready has saved it, or the re-run has copied it,  *)
(* and unless a failed disconnect withdrew the run, nobody deletes it.     *)
(***************************************************************************)
THEOREM ReductionsLocated == Spec => []ReductionsAreLocated
<1>1. SentInv => ReductionsAreLocated
  <2> SUFFICES ASSUME SentInv, NEW m \in Reductions, Job(m) \notin withdrawn
               PROVE  \E i \in located \cap Ids : db[i].run = m.run /\ db[i].version = m.version
    BY DEF ReductionsAreLocated
  <2>1. Job(m) \in AboutRuns
    BY DEF Reductions, AboutRuns
  <2>2. PICK i \in located : Kept(i) /\ Job(db[i]) = Job(m)
    BY <2>1 DEF SentInv, JobsKept, Reducible
  <2> QED
    BY <2>2 DEF Kept, Job
<1> QED
  BY <1>1, SentInvariance, PTL
-----------------------------------------------------------------------------
(***************************************************************************)
(* A queued run is not forgotten, whatever one web session does beside the *)
(* listener, while versions are unique and no process has failed.  The     *)
(* argument is about who knows of a queued row: whoever files it or is to  *)
(* cancel it, or a message on its way that will move it on.                *)
(***************************************************************************)

\* What a step takes off the queues and the inbox.
LEMMA HeadOrTail ==
  ASSUME NEW q \in Seq(Message), q # <<>>
  PROVE  Elements(q) \subseteq Elements(Tail(q)) \cup {Head(q)}
<1>1. ASSUME NEW k \in DOMAIN q, k # 1 PROVE k - 1 \in DOMAIN Tail(q) /\ Tail(q)[k - 1] = q[k]
  BY <1>1
<1>2. Head(q) = q[1]
  OBVIOUS
<1> QED
  BY <1>1, <1>2 DEF Elements

LEMMA TransitBack ==
  ASSUME NEW S,
         \A d \in Destination : Elements(queue[d]) \subseteq Elements(queue'[d]) \cup S,
         Elements(inbox) \subseteq Elements(inbox') \cup S
  PROVE  InTransit \subseteq InTransit' \cup S
BY DEF InTransit, Elements

LEMMA TransitSame ==
  ASSUME UNCHANGED <<queue, inbox>>
  PROVE  InTransit' = InTransit
BY DEF InTransit, Elements

LEMMA SendKeeps ==
  ASSUME TypeOK, NEW m \in Message, Send(m), UNCHANGED inbox
  PROVE  InTransit' = InTransit \cup {m}
<1>1. InTransit' \subseteq InTransit \cup {m}
  BY SendTransit
<1>2. m.dest \in Destination
  BY DEF Message
<1>3. ASSUME NEW d \in Destination
      PROVE  Elements(queue'[d]) = IF d = m.dest THEN Elements(queue[d]) \cup {m} ELSE Elements(queue[d])
  <2>1. queue[d] \in Seq(Message) /\ queue'[d] = IF d = m.dest THEN Append(queue[d], m) ELSE queue[d]
    BY DEF TypeOK, QueuesOK, Send
  <2> QED
    BY <2>1, ElementsAppend
<1>4. InTransit \subseteq InTransit' \cup {}
  BY <1>3, TransitBack
<1>5. m \in Elements(queue'[m.dest])
  BY <1>2, <1>3
<1>6. m \in InTransit'
  BY <1>2, <1>5 DEF InTransit, Elements
<1> QED
  BY <1>1, <1>4, <1>6

LEMMA DispatchKeeps ==
  ASSUME TypeOK, NEW d \in Subscribed, Dispatch(d)
  PROVE  InTransit' = InTransit
<1>1. d \in Destination /\ queue[d] \in Seq(Message) /\ inbox \in Seq(Message) /\ queue[d] # <<>>
  BY DEF Destination, TypeOK, QueuesOK, Dispatch
<1> DEFINE h == Head(queue[d])
<1>2. h \in Message
  BY <1>1, FrameType
<1>3. Elements(inbox') = Elements(inbox) \cup {h}
  BY <1>1, <1>2, ElementsAppend DEF Dispatch
<1>4. ASSUME NEW e \in Destination PROVE Elements(queue[e]) \subseteq Elements(queue'[e]) \cup {h}
  <2>1. queue'[e] = IF e = d THEN Tail(queue[d]) ELSE queue[e]
    BY <1>1 DEF Dispatch, TypeOK, QueuesOK
  <2> QED
    BY <1>1, <2>1, HeadOrTail
<1> HIDE DEF h
<1>5. InTransit \subseteq InTransit' \cup {h}
  BY <1>3, <1>4, TransitBack
<1>6. h \in InTransit'
  BY <1>3 DEF InTransit, Elements
<1> QED
  BY <1>5, <1>6, DispatchTransit

LEMMA ReceiveKeeps ==
  ASSUME TypeOK, NEW d, NEW m, Receive(d, m), UNCHANGED queue
  PROVE  InTransit' \subseteq InTransit /\ InTransit \subseteq InTransit' \cup {m}
<1>1. inbox \in Seq(Message) /\ inbox # <<>> /\ m = Head(inbox) /\ inbox' = Tail(inbox)
  BY DEF Receive, TypeOK, QueuesOK
<1>2. Elements(inbox) \subseteq Elements(inbox') \cup {m} /\ Elements(inbox') \subseteq Elements(inbox)
  BY <1>1, HeadOrTail, ElementsTail
<1>3. \A e \in Destination : queue'[e] = queue[e]
  OBVIOUS
<1>4. InTransit \subseteq InTransit' \cup {m}
  BY <1>2, <1>3, TransitBack
<1>5. InTransit' \subseteq InTransit \cup {}
  BY <1>2, <1>3, Transit
<1> QED
  BY <1>4, <1>5

LEMMA TakeKeeps ==
  ASSUME TypeOK, NEW m, NodeTake(m)
  PROVE  /\ queue' = [queue EXCEPT !["Pending"] = Tail(@)] => InTransit \subseteq InTransit' \cup {m}
         /\ \A d \in {"Started", "Error"} :
              queue' = [queue EXCEPT !["Pending"] = Tail(@),
                                     ![d] = Append(@, NewMessage(d, m.run, m.version))] =>
                /\ InTransit \subseteq InTransit' \cup {m}
                /\ NewMessage(d, m.run, m.version) \in InTransit'
<1>1. "Pending" \in Destination /\ queue["Pending"] \in Seq(Message) /\ queue["Pending"] # <<>>
  BY DEF Destination, TypeOK, QueuesOK, NodeTake
<1>2. m \in Message /\ m = Head(queue["Pending"]) /\ UNCHANGED inbox
  BY <1>1, FrameType DEF NodeTake
<1>3. Elements(queue["Pending"]) \subseteq Elements(Tail(queue["Pending"])) \cup {m}
  BY <1>1, <1>2, HeadOrTail
<1>4. ASSUME queue' = [queue EXCEPT !["Pending"] = Tail(@)]
      PROVE  InTransit \subseteq InTransit' \cup {m}
  <2>1. ASSUME NEW e \in Destination PROVE Elements(queue[e]) \subseteq Elements(queue'[e]) \cup {m}
    <3>1. queue'[e] = IF e = "Pending" THEN Tail(queue["Pending"]) ELSE queue[e]
      BY <1>4 DEF TypeOK, QueuesOK
    <3> QED
      BY <1>3, <3>1
  <2> QED
    BY <1>2, <2>1, TransitBack
<1>5. ASSUME NEW d \in {"Started", "Error"},
             queue' = [queue EXCEPT !["Pending"] = Tail(@),
                                    ![d] = Append(@, NewMessage(d, m.run, m.version))]
      PROVE  InTransit \subseteq InTransit' \cup {m} /\ NewMessage(d, m.run, m.version) \in InTransit'
  <2> DEFINE n == NewMessage(d, m.run, m.version)
  <2>1. n \in Message /\ d \in Destination
    BY <1>2, MessageChanged, NewMessageType DEF Destination, Subscribed
  <2> HIDE DEF n
  <2>2. ASSUME NEW e \in Destination
        PROVE  queue[e] \in Seq(Message) /\ queue'[e] = CASE e = "Pending" -> Tail(queue["Pending"])
                                                          [] e = d -> Append(queue[d], n)
                                                          [] OTHER -> queue[e]
    BY <1>5 DEF TypeOK, QueuesOK, n
  <2>3. queue[d] \in Seq(Message) /\ queue'[d] = Append(queue[d], n)
    BY <2>1, <2>2
  <2>4. Elements(queue'[d]) = Elements(queue[d]) \cup {n}
    BY <2>1, <2>3, ElementsAppend
  <2>5. \A e \in Destination : Elements(queue[e]) \subseteq Elements(queue'[e]) \cup {m}
    BY <1>3, <2>2, <2>4
  <2>6. n \in InTransit'
    BY <2>1, <2>4 DEF InTransit, Elements
  <2> QED
    BY <1>2, <2>5, <2>6, TransitBack DEF n
<1> QED
  BY <1>4, <1>5

-----------------------------------------------------------------------------
(***************************************************************************)
(* While no report asks for a retry, cancellations are all there is beside *)
(* plain messages, and the listener never comes to retry a run.            *)
(***************************************************************************)
Plain(m) == ~m.retryIn /\ (m.cancel => m.dest = "Pending")

AllPlain == \A m \in InTransit : Plain(m)

NoRetryAsked ==
  /\ AllPlain
  /\ lis.pc \in {"version", "script", "save", "locate", "variables", "forward", "report"} =>
       ~lis.msg.retryIn /\ ~lis.msg.cancel
  /\ lis.pc \notin {"retry", "retrySave", "retryLink", "retryVariables", "retrySend"}

\* No retry is left to ask for.
Budgeted == budget.retries = 0 /\ budget.faults <= MaxFaults

LEMMA BudgetedStep ==
  ASSUME TypeOK, Budgeted, [Next]_vars
  PROVE  /\ Budgeted' /\ ~Spend("retries")
         /\ budget'.faults = MaxFaults => budget.faults = MaxFaults /\ ~Spend("faults")
<1>1. budget \in [{"ready", "posts", "retries", "faults"} -> Nat] /\ MaxFaults \in Nat
  BY BoundsAssumption DEF TypeOK, QueuesOK
<1>2. budget.retries = 0 /\ budget.faults \in Nat /\ budget.faults <= MaxFaults
  BY <1>1 DEF Budgeted
<1>3. ASSUME NEW b \in {"ready", "posts", "retries", "faults"}, Spend(b)
      PROVE  /\ b # "retries" /\ budget'.retries = 0
             /\ budget'.faults = IF b = "faults" THEN budget.faults - 1 ELSE budget.faults
  <2>1. budget[b] > 0 /\ budget' = [budget EXCEPT ![b] = @ - 1]
    BY <1>3 DEF Spend
  <2>2. b # "retries"
    BY <1>2, <2>1
  <2> QED
    BY <1>1, <1>2, <2>1, <2>2
<1>4. Budgeted'
  <2>1. CASE budget' = budget
    BY <1>2, <2>1 DEF Budgeted
  <2>2. CASE \E b \in {"ready", "posts", "retries", "faults"} : Spend(b)
    <3>1. budget'.retries = 0 /\ budget'.faults \in {budget.faults, budget.faults - 1}
      BY <1>3, <2>2
    <3> QED
      BY <1>1, <1>2, <3>1 DEF Budgeted
  <2> QED
    BY <2>1, <2>2, BudgetStep
<1> QED
  BY <1>2, <1>3, <1>4, BudgetStep

\* The messages a step adds are plain: only a cancellation is marked as one.
Unasked(m) == ~m.retryIn /\ ~m.cancel
AddedPlain ==
  \A n \in InTransit' :
    \/ n \in InTransit \/ Unasked(n)
    \/ \E w \in Sessions :
         /\ SendCancel(w) /\ n = CancelOf(w)
         /\ Step(w, [web[w] EXCEPT !.pc = "setCancelled"]) \/ Spend("faults")

LEMMA CancelMessage ==
  ASSUME TypeOK, NEW w \in Sessions, web[w].pc = "cancel"
  PROVE  /\ CancelOf(w) \in Message /\ Plain(CancelOf(w)) /\ CancelOf(w).cancel
         /\ Job(CancelOf(w)) = Job(CancelledRow(web[w]))
<1> DEFINE row == CancelledRow(web[w])
           m == NewMessage("Pending", row.run, row.version)
<1>1. row \in Row
  BY SessionByPc DEF Cancelling, CancelledRow
<1>2. m \in Message /\ ~m.retryIn /\ m.dest = "Pending" /\ m.run = row.run /\ m.version = row.version
  BY <1>1, RowChanged, NewMessageType DEF Destination, NewMessage
<1>3. CancelOf(w) = [m EXCEPT !.cancel = TRUE]
  BY DEF CancelOf
<1> HIDE DEF row, m
<1> QED
  BY <1>2, <1>3 DEF Message, Plain, Job, row

LEMMA TransitPlain ==
  ASSUME TypeOK, Addressed, NoRetryAsked, ~Spend("retries"), [Next]_vars
  PROVE  AddedPlain
<1>1. \A d \in Destination : \A r, v : Unasked(NewMessage(d, r, v))
  BY DEF Unasked, NewMessage
<1>2. InTransit' \subseteq InTransit => AddedPlain
  BY DEF AddedPlain
<1>3. ASSUME NEW m, InTransit' \subseteq InTransit \cup {m}, Unasked(m) PROVE AddedPlain
  BY <1>3 DEF AddedPlain
<1>4. UNCHANGED <<queue, inbox>> => AddedPlain
  BY <1>2, TransitSame
<1>5. ASSUME NEW m \in Message, Send(m), UNCHANGED inbox, Unasked(m) PROVE AddedPlain
  BY <1>3, <1>5, SendTransit
<1>6. ASSUME NEW r \in Runs, Submit(r) PROVE AddedPlain
  <2>1. NewMessage("DataReady", r, 0) \in Message /\ Unasked(NewMessage("DataReady", r, 0))
    BY <1>1, NewMessageType DEF Destination, Subscribed
  <2> QED
    BY <1>5, <1>6, <2>1 DEF Submit
<1>7. ASSUME NEW d \in Subscribed, Dispatch(d) PROVE AddedPlain
  BY <1>2, <1>7, DispatchTransit
<1>8. CASE TogglePause \/ Restart \/ UNCHANGED vars
  BY <1>4, <1>8 DEF TogglePause, Restart, vars
<1>9. ASSUME Elements(inbox') \subseteq Elements(inbox), UNCHANGED queue PROVE AddedPlain
  <2>1. \A d \in Destination : queue'[d] = queue[d]
    BY <1>9
  <2>2. InTransit' \subseteq InTransit \cup {}
    BY <1>9, <2>1, Transit
  <2> QED
    BY <1>2, <2>2
<1>10. CASE Kill
  BY <1>9, <1>10, DieQuiet DEF Kill
<1>11. ASSUME NEW m, DataReady(m) \/ FindRun(m) \/ RefuseReport(m) PROVE AddedPlain
  <2>1. UNCHANGED queue /\ \E d : Receive(d, m)
    BY <1>11 DEF DataReady, FindRun, RefuseReport
  <2> QED
    BY <1>2, <2>1, ReceiveKeeps
<1>12. CASE ReadVersion \/ ScriptFound \/ ScriptMissing \/ SaveRun \/ SaveDataLocation
  BY <1>4, <1>12 DEF ReadVersion, ScriptFound, ScriptMissing, SaveRun, SaveDataLocation
<1>13. CASE CreateVariables \/ SaveReport
  <2>1. UNCHANGED queue /\ (Die \/ UNCHANGED inbox)
    BY <1>13 DEF CreateVariables, SaveReport
  <2> QED
    BY <1>4, <1>9, <2>1, DieQuiet
<1>14. CASE Forward
  <2>1. lis \in Filed /\ lis.msg \in Message /\ ~lis.msg.retryIn /\ ~lis.msg.cancel
    BY <1>14, ListenerByPc DEF Forward, Filed, NoRetryAsked
  <2>2. ASSUME NEW d \in {"Skipped", "Pending"}
        PROVE  [lis.msg EXCEPT !.dest = d] \in Message /\ Unasked([lis.msg EXCEPT !.dest = d])
    <3>1. [lis.msg EXCEPT !.dest = d] \in Message
      BY <2>1, MessageChanged DEF Destination, Subscribed
    <3> QED
      BY <2>1, <3>1 DEF Unasked, Message
  <2>3. /\ UNCHANGED inbox
        /\ \/ UNCHANGED queue
           \/ Send([lis.msg EXCEPT !.dest = "Skipped"]) \/ Send([lis.msg EXCEPT !.dest = "Pending"])
    BY <1>14 DEF Forward
  <2> QED
    BY <1>4, <1>5, <2>2, <2>3
<1>15. CASE RetryRun \/ SaveRetry \/ LinkRetry \/ RetryVariables \/ RetrySend
  BY <1>15 DEF NoRetryAsked, RetryRun, SaveRetry, LinkRetry, RetryVariables, RetrySend
<1>16. CASE Listener
  BY <1>11, <1>12, <1>13, <1>14, <1>15, <1>16 DEF Listener
<1>17. ASSUME NEW m, NodeCancel(m) \/ NodeDrop(m) PROVE AddedPlain
  BY <1>2, <1>17, TakeTransit DEF NodeCancel, NodeDrop
<1>18. ASSUME NEW m, NodeStart(m) \/ NodeReject(m) PROVE AddedPlain
  <2>1. /\ NodeTake(m)
        /\ \/ queue' = [queue EXCEPT !["Pending"] = Tail(@)]
           \/ \E d \in {"Started", "Error"} :
                queue' = [queue EXCEPT !["Pending"] = Tail(@),
                                       ![d] = Append(@, NewMessage(d, m.run, m.version))]
    BY <1>18 DEF NodeStart, NodeReject
  <2>2. PICK d \in {"Started", "Error"} : InTransit' \subseteq InTransit \cup {NewMessage(d, m.run, m.version)}
    BY <2>1, TakeTransit
  <2> QED
    BY <1>1, <1>3, <2>2 DEF Destination, Subscribed
<1>19. ASSUME NEW j \in node, NodeReport(j) PROVE AddedPlain
  <2>1. PICK d \in {"Complete", "Error", "Skipped"} : Send(NewMessage(d, j.run, j.version))
    BY <1>19 DEF NodeReport
  <2>2. NewMessage(d, j.run, j.version) \in Message /\ Unasked(NewMessage(d, j.run, j.version))
    BY <1>1, NewMessageType DEF TypeOK, QueuesOK, Destination, Subscribed
  <2> QED
    BY <1>5, <1>19, <2>1, <2>2 DEF NodeReport
<1>20. ASSUME NEW j \in node, NodeDie(j) PROVE AddedPlain
  BY <1>4, <1>20 DEF NodeDie
<1>21. CASE Node
  BY <1>17, <1>18, <1>19, <1>20, <1>21 DEF Node
<1>22. ASSUME NEW w \in Sessions, Session(w) PROVE AddedPlain
  <2>1. UNCHANGED inbox /\ (UNCHANGED queue \/ SendCancel(w) \/ WebSend(w) \/ WebSendFails(w))
    BY <1>22 DEF Session, ShowFailed, Post, Confirm, SendCancel, SetCancelled, SaveBoth, Hide, SaveHidden,
       WebVersion, WebCreate, WebLink, WebVariables, WebSend, WebSendFails
  <2>2. CASE SendCancel(w)
    <3>1. \/ UNCHANGED queue
          \/ /\ Send(CancelOf(w))
             /\ Step(w, [web[w] EXCEPT !.pc = "setCancelled"]) \/ Spend("faults")
      BY <2>2 DEF SendCancel
    <3>2. CancelOf(w) \in Message
      BY <2>2, CancelMessage DEF SendCancel
    <3>3. CASE /\ Send(CancelOf(w))
               /\ Step(w, [web[w] EXCEPT !.pc = "setCancelled"]) \/ Spend("faults")
      BY <2>1, <2>2, <3>2, <3>3, SendTransit DEF AddedPlain
    <3> QED
      BY <1>4, <2>1, <3>1, <3>3
  <2>3. CASE WebSend(w) \/ WebSendFails(w)
    <3>1. web[w] \in Sending
      BY <2>3, SessionByPc DEF WebSend, WebSendFails
    <3>2. NewMessage("Pending", web[w].copy.run, web[w].version) \in Message
      BY <3>1, RowChanged, NewMessageType DEF Sending, Destination
    <3>3. Unasked(NewMessage("Pending", web[w].copy.run, web[w].version))
      BY <1>1 DEF Destination
    <3>4. UNCHANGED queue \/ Send(NewMessage("Pending", web[w].copy.run, web[w].version))
      BY <2>3 DEF WebSend, WebSendFails
    <3> QED
      BY <1>4, <1>5, <2>1, <3>2, <3>3, <3>4
  <2> QED
    BY <1>4, <2>1, <2>2, <2>3, Zenon
<1> QED
  BY <1>6, <1>7, <1>8, <1>10, <1>16, <1>21, <1>22, Zenon DEF Next

LEMMA NoRetryStep ==
  ASSUME IInv, Addressed, NoRetryAsked, ~Spend("retries"), [Next]_vars
  PROVE  NoRetryAsked'
<1> DEFINE Quiet == {"version", "script", "save", "locate", "variables", "forward", "report"}
<1>0. TypeOK
  BY DEF IInv
<1>1. AllPlain'
  <2>1. ASSUME NEW n \in InTransit' PROVE Plain(n)
    <3>1. CASE n \in InTransit \/ Unasked(n)
      BY <3>1 DEF NoRetryAsked, AllPlain, Unasked, Plain
    <3>2. ASSUME NEW w \in Sessions, SendCancel(w), n = CancelOf(w) PROVE Plain(n)
      BY <1>0, <3>2, CancelMessage DEF SendCancel
    <3> QED
      BY <1>0, <3>1, <3>2, TransitPlain DEF AddedPlain
  <2> QED
    BY <2>1 DEF AllPlain
<1>2. ASSUME lis'.pc \in {"wait", "stopped"} PROVE NoRetryAsked'
  BY <1>1, <1>2 DEF NoRetryAsked
<1>3. ASSUME lis'.pc \in Quiet, ~lis'.msg.retryIn, ~lis'.msg.cancel PROVE NoRetryAsked'
  BY <1>1, <1>3 DEF NoRetryAsked
<1>4. ASSUME UNCHANGED lis PROVE NoRetryAsked'
  BY <1>1, <1>4 DEF NoRetryAsked
<1>5. ASSUME lis.pc \in Quiet, lis'.pc \in Quiet,
             lis'.msg.retryIn = lis.msg.retryIn, lis'.msg.cancel = lis.msg.cancel
      PROVE  NoRetryAsked'
  BY <1>3, <1>5 DEF NoRetryAsked
<1>6. Waiting.pc = "wait" /\ Stopped.pc = "stopped"
  BY DEF Waiting, Stopped
<1>7. CASE (\E r \in Runs : Submit(r)) \/ TogglePause \/ (\E d \in Subscribed : Dispatch(d))
  BY <1>4, <1>7 DEF Submit, TogglePause, Dispatch
<1>8. CASE Kill \/ Restart
  BY <1>2, <1>6, <1>8 DEF Kill, Restart, Die
<1>9. CASE Node \/ UNCHANGED vars
  BY <1>4, <1>9 DEF Node, NodeCancel, NodeDrop, NodeStart, NodeReject, NodeTake, NodeReport, NodeDie, vars
<1>10. ASSUME NEW w \in Sessions, Session(w) PROVE NoRetryAsked'
  <2>1. UNCHANGED lis
    BY <1>10, SessionKeeps
  <2> QED
    BY <1>4, <2>1
<1>11. ASSUME NEW d \in Subscribed, NEW m, Receive(d, m) PROVE ~m.retryIn /\ ~m.cancel
  <2>1. m \in InTransit /\ m.dest # "Pending"
    BY <1>11, <1>0, ReceiveQuiet DEF Receive, Subscribed
  <2> QED
    BY <2>1 DEF NoRetryAsked, AllPlain, Plain
<1>12. ASSUME NEW m, DataReady(m) PROVE NoRetryAsked'
  BY <1>3, <1>11, <1>12 DEF DataReady, Subscribed
<1>13. ASSUME NEW m, FindRun(m) PROVE NoRetryAsked'
  BY <1>3, <1>11, <1>13 DEF FindRun
<1>14. ASSUME NEW m, RefuseReport(m) PROVE NoRetryAsked'
  BY <1>4, <1>14 DEF RefuseReport
<1>15. CASE ReadVersion
  <2>1. lis \in Filing /\ lis.pc = "version"
    BY <1>15, <1>0, ListenerByPc DEF ReadVersion
  <2>2. /\ lis'.pc = "script"
        /\ lis'.msg.retryIn = lis.msg.retryIn /\ lis'.msg.cancel = lis.msg.cancel
    BY <1>15, <2>1 DEF ReadVersion, Filing, Message
  <2> QED
    BY <1>5, <2>1, <2>2
<1>16. CASE ScriptFound
  <2>1. lis \in Filing /\ lis.pc = "script"
    BY <1>16, <1>0, ListenerByPc DEF ScriptFound
  <2>2. lis'.pc = "save" /\ lis'.msg = lis.msg
    BY <1>16, <2>1 DEF ScriptFound, Filing
  <2> QED
    BY <1>5, <2>1, <2>2
<1>17. CASE SaveRun
  <2>1. lis.pc = "save" /\ lis'.pc = "locate" /\ lis'.msg = lis.msg
    BY <1>17 DEF SaveRun
  <2> QED
    BY <1>5, <2>1
<1>18. CASE SaveDataLocation \/ (CreateVariables /\ ~Die)
  <2>1. lis \in Filed /\ lis.pc \in {"locate", "variables"}
    BY <1>18, <1>0, ListenerByPc DEF SaveDataLocation, CreateVariables
  <2>2. lis' \in {[lis EXCEPT !.pc = "variables"], [lis EXCEPT !.pc = "forward"]}
    BY <1>18 DEF SaveDataLocation, CreateVariables
  <2>3. lis'.pc \in {"variables", "forward"} /\ lis'.msg = lis.msg
    BY <2>1, <2>2 DEF Filed
  <2> QED
    BY <1>5, <2>1, <2>3
<1>19. CASE ScriptMissing \/ Forward \/ Die
  BY <1>2, <1>6, <1>19 DEF ScriptMissing, Forward, Return, Die
<1>20. CASE SaveReport
  <2>1. ~lis.msg.retryIn
    BY <1>20 DEF SaveReport, NoRetryAsked
  <2>2. lis' = Stopped \/ lis' = Waiting
    BY <1>20, <2>1 DEF SaveReport, Die, Return
  <2> QED
    BY <1>2, <1>6, <2>2
<1>21. CASE RetryRun \/ SaveRetry \/ LinkRetry \/ RetryVariables \/ RetrySend
  BY <1>21 DEF NoRetryAsked, RetryRun, SaveRetry, LinkRetry, RetryVariables, RetrySend
<1>22. CASE Listener
  BY <1>12, <1>13, <1>14, <1>15, <1>16, <1>17, <1>18, <1>19, <1>20, <1>21, <1>22 DEF Listener
<1> QED
  BY <1>7, <1>8, <1>9, <1>10, <1>22, Zenon DEF Next

-----------------------------------------------------------------------------
(***************************************************************************)
(* Nobody makes a run queued that has ceased to be: the records held by    *)
(* the listener and by a session, and saved later, are not queued.  A      *)
(* session's page is about a run that was filed and is not queued, and a   *)
(* row is cancelled only as the retry of another one.                      *)
(***************************************************************************)
ReportSettles == lis.pc = "report" => lis.copy.status # "q"

QueuedUnlinked == \A i \in Ids : db[i].status = "q" => db[i].retry = 0

Careful(s) ==
  /\ s.pc = "page" => \E i \in Ids : Job(db[i]) = s.job /\ db[i].status # "q"
  /\ s.pc \in {"hide", "cancel", "setCancelled", "saveBoth", "version", "create", "link"} =>
       s.copy.status # "q"
  /\ s.pc \in {"cancel", "setCancelled"} => s.target # s.id /\ s.target \in Ids /\ s.retry.retry = 0
  /\ s.pc = "saveBoth" => s.retry.status # "q"

AllCareful == \A w \in Sessions : Careful(web[w])

HeldInv == NoRetryAsked /\ ReportSettles /\ QueuedUnlinked /\ AllCareful

\* A row that is queued after a step was queued before, or is the one the step files.
Queued(i) == i \in Ids /\ db[i].status = "q"
Files == SaveRun \/ \E w \in Sessions : WebCreate(w)
QueuedStep ==
  \A i : Queued(i)' => \/ Queued(i) /\ db'[i].retry \in {0, db[i].retry}
                       \/ Files /\ i = nextId /\ db'[i].retry = 0

LEMMA UnchangedQueued ==
  ASSUME UNCHANGED db
  PROVE  QueuedStep
BY DEF QueuedStep, Queued, Ids

LEMMA SavedQueued ==
  ASSUME NEW i, NEW row, db' = Saved(i, row), row.status # "q"
  PROVE  QueuedStep
BY SavedRows DEF QueuedStep, Queued

LEMMA RemovedQueued ==
  ASSUME TypeOK, NEW i, db' = Removed(i)
  PROVE  QueuedStep
BY RemovedRows DEF QueuedStep, Queued

LEMMA FiledQueued ==
  ASSUME NEW r, NEW v, NEW s, db' = Saved(nextId, NewRow(r, v, s)), Files
  PROVE  QueuedStep
<1>1. NewRow(r, v, s).retry = 0
  BY DEF NewRow
<1> QED
  BY <1>1, SavedRows DEF QueuedStep, Queued

LEMMA QueuedRows ==
  ASSUME IInv, HeldInv, ~Spend("faults"), [Next]_vars
  PROVE  QueuedStep
<1>0. TypeOK /\ \A w \in Sessions : Careful(web[w])
  BY DEF IInv, HeldInv, AllCareful
<1>1. CASE (\E r \in Runs : Submit(r)) \/ TogglePause \/ (\E d \in Subscribed : Dispatch(d))
  BY <1>1, UnchangedQueued DEF Submit, TogglePause, Dispatch
<1>2. CASE Kill \/ Restart \/ UNCHANGED vars
  BY <1>2, UnchangedQueued DEF Kill, Restart, vars
<1>3. CASE Node
  BY <1>3, UnchangedQueued DEF Node, NodeCancel, NodeDrop, NodeStart, NodeReject, NodeTake, NodeReport, NodeDie
<1>4. CASE Listener
  <2>1. ASSUME NEW m, DataReady(m) \/ FindRun(m) \/ RefuseReport(m) PROVE QueuedStep
    BY <2>1, UnchangedQueued DEF DataReady, FindRun, RefuseReport
  <2>2. CASE ReadVersion \/ ScriptFound \/ SaveDataLocation \/ CreateVariables \/ Forward
    BY <2>2, UnchangedQueued DEF ReadVersion, ScriptFound, SaveDataLocation, CreateVariables, Forward
  <2>3. CASE SaveRun
    <3>1. db' = Saved(nextId, NewRow(lis.msg.run, lis.msg.version, IF lis.paused THEN "s" ELSE "q"))
      BY <2>3 DEF SaveRun
    <3> QED
      BY <2>3, <3>1, FiledQueued DEF Files
  <2>4. CASE SaveReport
    <3>1. UNCHANGED db \/ db' = Saved(lis.id, lis.copy)
      BY <2>4 DEF SaveReport
    <3>2. lis.copy.status # "q"
      BY <2>4 DEF SaveReport, HeldInv, ReportSettles
    <3> QED
      BY <3>1, <3>2, UnchangedQueued, SavedQueued
  <2>5. CASE ScriptMissing
    BY <2>5 DEF ScriptMissing
  <2>6. CASE RetryRun \/ SaveRetry \/ LinkRetry \/ RetryVariables \/ RetrySend
    BY <2>6 DEF HeldInv, NoRetryAsked, RetryRun, SaveRetry, LinkRetry, RetryVariables, RetrySend
  <2> QED
    BY <1>4, <2>1, <2>2, <2>3, <2>4, <2>5, <2>6 DEF Listener
<1>5. ASSUME NEW w \in Sessions, Session(w) PROVE QueuedStep
  <2>0. Careful(web[w])
    BY <1>0, Zenon
  <2>1. CASE \/ \E i \in Ids : ShowFailed(w, i)
             \/ \E rerun \in BOOLEAN : Post(w, rerun)
             \/ \E r \in Runs : Confirm(w, r)
    BY <2>1, UnchangedQueued DEF ShowFailed, Post, Confirm
  <2>2. CASE SendCancel(w) \/ Hide(w) \/ WebVersion(w) \/ WebVariables(w) \/ WebSend(w)
    BY <2>2, UnchangedQueued DEF SendCancel, Hide, WebVersion, WebVariables, WebSend
  <2>3. CASE SetCancelled(w)
    <3> DEFINE row == [web[w].retry EXCEPT !.status = "e"]
    <3>1. web[w] \in Cancelling /\ web[w].target # web[w].id
      BY <1>0, <2>0, <2>3, SessionByPc DEF SetCancelled, Careful
    <3>2. row.status = "e"
      BY <3>1 DEF Cancelling, Row
    <3>3. UNCHANGED db \/ db' = Saved(web[w].target, row)
      BY <2>3, <3>1 DEF SetCancelled
    <3> HIDE DEF row
    <3> QED
      BY <3>2, <3>3, UnchangedQueued, SavedQueued
  <2>4. CASE SaveBoth(w)
    <3> DEFINE r == web[w].copy.retry
               one == Saved(web[w].id, web[w].copy)
    <3>1. web[w].copy.status # "q" /\ web[w].retry.status # "q"
      BY <2>0, <2>4 DEF SaveBoth, Careful
    <3>2. UNCHANGED db \/ db' = one \/ db' = [one EXCEPT ![r] = web[w].retry]
      BY <2>4 DEF SaveBoth
    <3>3. ASSUME db' = [one EXCEPT ![r] = web[w].retry] PROVE QueuedStep
      <4>1. /\ Ids' = Ids \cup {web[w].id}
            /\ \A j \in Ids' : db'[j] \in {web[w].retry, web[w].copy} \/ (j \in Ids /\ db'[j] = db[j])
        BY <3>3 DEF Ids, Saved
      <4> HIDE DEF r, one
      <4> QED
        BY <3>1, <4>1 DEF QueuedStep, Queued
    <3> QED
      BY <3>1, <3>2, <3>3, UnchangedQueued, SavedQueued
  <2>5. CASE SaveHidden(w)
    <3>1. web[w].copy.status # "q" /\ (UNCHANGED db \/ db' = Saved(web[w].id, web[w].copy))
      BY <2>0, <2>5 DEF SaveHidden, Careful
    <3> QED
      BY <3>1, UnchangedQueued, SavedQueued
  <2>6. CASE WebCreate(w)
    <3>1. db' = Saved(nextId, NewRow(web[w].copy.run, web[w].version, "q"))
      BY <2>6 DEF WebCreate
    <3> QED
      BY <2>6, <3>1, FiledQueued DEF Files
  <2>7. CASE WebLink(w)
    <3>1. web[w].copy.status # "q" /\ db' = Saved(web[w].id, web[w].copy)
      BY <2>0, <2>7 DEF WebLink, Careful
    <3> QED
      BY <3>1, SavedQueued
  <2>8. CASE WebSendFails(w)
    BY <1>0, <2>8, RemovedQueued DEF WebSendFails
  <2> QED
    BY <1>5, <2>1, <2>2, <2>3, <2>4, <2>5, <2>6, <2>7, <2>8 DEF Session
<1> QED
  BY <1>1, <1>2, <1>3, <1>4, <1>5, Zenon DEF Next

-----------------------------------------------------------------------------
(***************************************************************************)
(* With one session at most, what it is careful about stays so.            *)
(***************************************************************************)
OneSession == \A v, w \in Sessions : v = w

LEMMA ChosenSettled ==
  ASSUME IInv, UniqueVersions, NEW w \in Sessions, web[w].pc = "page", Careful(web[w])
  PROVE  Chosen(w) \in Ids /\ db[Chosen(w)].status # "q"
<1>1. web[w] \in Showing
  BY SessionByPc DEF IInv
<1>2. PICK i \in Ids : Job(db[i]) = web[w].job /\ db[i].status # "q"
  BY DEF Careful
<1>3. db[i].run = web[w].job.run /\ db[i].version = web[w].job.version
  BY <1>2 DEF Job
<1>4. Matching(web[w].job) = {i}
  BY <1>3 DEF Matching, UniqueVersions
<1>5. i \in Nat
  BY RowIdsAssumption DEF IInv, TypeOK, TableOK
<1>6. LeastId({i}) = i
  BY <1>5, LeastIdLeast
<1>7. Chosen(w) = i
  BY <1>4, <1>6 DEF Chosen
<1> QED
  BY <1>2, <1>7

\* A row that nobody takes back and that is not queued stays so.
LEMMA KeptSettled ==
  ASSUME IInv, Identified, QueuedStep, [Next]_vars, NEW i, Kept(i)
  PROVE  /\ Kept(i)' /\ i \in Ids' /\ Job(db'[i]) = Job(db[i])
         /\ db[i].status # "q" => db'[i].status # "q"
<1>1. Kept(i)' /\ i \in Ids' /\ Job(db'[i]) = Job(db[i])
  BY KeptStays DEF Kept
<1>2. i # nextId
  BY RowIdsAssumption DEF Kept, IInv, TypeOK, TableOK, NewRowsKept, RowsLinked
<1> QED
  BY <1>1, <1>2 DEF QueuedStep, Queued

LEMMA KeptByAll ==
  ASSUME OneSession, NoRetryAsked, NEW w \in Sessions, ~Holds(w), NEW i \in Ids
  PROVE  Kept(i)
BY DEF OneSession, NoRetryAsked, Kept, ListenerHolds, Holds

LEMMA CarefulStays ==
  ASSUME IInv, Identified, HeldInv, QueuedStep, OneSession, [Next]_vars,
         NEW w \in Sessions, web'[w] = web[w]
  PROVE  Careful(web[w])'
<1>1. Careful(web[w])
  BY DEF HeldInv, AllCareful
<1>2. CASE web[w].pc = "page"
  <2>1. PICK i \in Ids : Job(db[i]) = web[w].job /\ db[i].status # "q"
    BY <1>1, <1>2 DEF Careful
  <2>2. Kept(i)
    BY <1>2, KeptByAll DEF HeldInv, Holds
  <2>3. i \in Ids' /\ Job(db'[i]) = Job(db[i]) /\ db'[i].status # "q"
    BY <2>1, <2>2, KeptSettled
  <2>4. \E k \in Ids' : Job(db'[k]) = web'[w].job /\ db'[k].status # "q"
    BY <2>1, <2>3
  <2> QED
    BY <1>2, <2>4 DEF Careful, Job
<1>3. CASE web[w].pc \in {"cancel", "setCancelled"}
  <2>1. web[w].target \in Ids
    BY <1>1, <1>3 DEF Careful
  <2>2. Kept(web[w].target)
    BY <1>3, <2>1, KeptByAll DEF HeldInv, Holds
  <2>3. web'[w].target \in Ids'
    BY <2>2, KeptSettled
  <2> QED
    BY <1>1, <1>3, <2>3 DEF Careful
<1>4. CASE web[w].pc \notin {"page", "cancel", "setCancelled"}
  BY <1>1, <1>4 DEF Careful
<1> QED
  BY <1>2, <1>3, <1>4

\* What a session holds after each of its steps.
LEMMA SessionCareful ==
  ASSUME IInv, UniqueVersions, HeldInv, NEW w \in Sessions, Session(w)
  PROVE  Careful(web[w])'
<1>0. TypeOK /\ TableOK /\ web \in [Sessions -> SessionState] /\ Careful(web[w])
  BY DEF IInv, TypeOK, HeldInv, AllCareful
<1>1. ASSUME web'[w].pc \in {"idle", "variables", "send"} PROVE Careful(web[w])'
  BY <1>1 DEF Careful
<1>2. ASSUME web'[w].pc \in {"hide", "version", "create", "link"}, web'[w].copy.status # "q"
      PROVE  Careful(web[w])'
  BY <1>2 DEF Careful
<1>3. ASSUME NEW s, Step(w, s) PROVE web'[w] = s
  BY <1>0, <1>3 DEF Step
<1>4. ASSUME End(w) PROVE Careful(web[w])'
  BY <1>1, <1>3, <1>4 DEF End, NoPage
<1>5. ASSUME NEW i \in Ids, ShowFailed(w, i) PROVE Careful(web[w])'
  <2>1. web'[w] = [pc |-> "page", job |-> Job(db[i])] /\ UNCHANGED db /\ db[i].status = "e"
    BY <1>3, <1>5 DEF ShowFailed
  <2>2. \E k \in Ids' : Job(db'[k]) = web'[w].job /\ db'[k].status # "q"
    BY <2>1 DEF Ids
  <2>3. web'[w].pc = "page"
    BY <2>1
  <2> QED
    BY <2>2, <2>3 DEF Careful, Job
<1>6. ASSUME NEW rerun \in BOOLEAN, Post(w, rerun) PROVE Careful(web[w])'
  <2> DEFINE i == Chosen(w)
             r == db[i].retry
             retrying(v) == db[i].status # "q" /\ r # 0 /\ db[r].status = v
             target == CASE db[i].status = "q" -> i
                         [] retrying("q") -> r
                         [] OTHER -> 0
             flagged(row) == [row EXCEPT !.cancel = @ \/ retrying("p")]
             s == [pc |-> IF target = 0 THEN "saveBoth" ELSE "cancel",
                   id |-> i, rerun |-> rerun, target |-> target, copy |-> flagged(db[i]),
                   retry |-> IF r = 0 THEN db[i] ELSE flagged(db[r])]
  <2>1. i \in Ids /\ db[i].status # "q"
    BY <1>0, <1>6, ChosenSettled DEF Post
  <2>2. Step(w, s) /\ UNCHANGED db
    BY <1>6, <2>1 DEF Post
  <2>3. web'[w] = s
    BY <1>3, <2>2
  <2>4. db[i] \in Row /\ (r # 0 => r \in Ids /\ db[r] \in Row) /\ 0 \notin Ids
    BY <1>0, <2>1, RowIdsAssumption DEF TableOK, IInv, NewRowsKept, RowsLinked, Dangling
  <2>5. s.copy.status # "q" /\ s.id = i /\ s.target = target
    BY <2>1, <2>4 DEF Row
  <2>6. CASE r # 0 /\ db[r].status = "q"
    <3>1. target = r /\ s.pc = "cancel" /\ r # i
      BY <2>1, <2>6
    <3>2. s.retry.retry = db[r].retry
      BY <2>4, <2>6 DEF Row
    <3>3. db[r].retry = 0
      BY <2>4, <2>6 DEF HeldInv, QueuedUnlinked
    <3>4. /\ web'[w].pc = "cancel" /\ web'[w].copy.status # "q" /\ web'[w].target # web'[w].id
          /\ web'[w].target \in Ids' /\ web'[w].retry.retry = 0
      BY <2>2, <2>3, <2>4, <2>5, <2>6, <3>1, <3>2, <3>3 DEF Ids
    <3> QED
      BY <3>4 DEF Careful
  <2>7. CASE r = 0 \/ db[r].status # "q"
    <3>1. target = 0 /\ s.pc = "saveBoth"
      BY <2>1, <2>7
    <3>2. s.retry.status # "q"
      BY <2>1, <2>4, <2>7 DEF Row
    <3>3. web'[w].pc = "saveBoth" /\ web'[w].copy.status # "q" /\ web'[w].retry.status # "q"
      BY <2>3, <2>5, <3>1, <3>2
    <3> QED
      BY <3>3 DEF Careful
  <2> QED
    BY <2>6, <2>7
<1>7. CASE SendCancel(w)
  <2>1. web[w] \in Cancelling /\ web[w].pc = "cancel" /\ UNCHANGED db
    BY <1>0, <1>7, SessionByPc DEF SendCancel
  <2>2. End(w) \/ web'[w] = [web[w] EXCEPT !.pc = "setCancelled"]
    BY <1>3, <1>7 DEF SendCancel
  <2>3. CASE web'[w] = [web[w] EXCEPT !.pc = "setCancelled"]
    <3>1. /\ web'[w].pc = "setCancelled" /\ web'[w].copy = web[w].copy /\ web'[w].id = web[w].id
          /\ web'[w].target = web[w].target /\ web'[w].retry = web[w].retry
      BY <2>1, <2>3 DEF Cancelling
    <3> QED
      BY <1>0, <2>1, <3>1 DEF Careful, Ids
  <2> QED
    BY <1>4, <2>2, <2>3
<1>8. CASE SetCancelled(w)
  <2> DEFINE s == web[w]
             held == [s EXCEPT !.pc = "saveBoth", !.copy = s.copy, !.retry = [s.retry EXCEPT !.status = "e"]]
  <2>1. s \in Cancelling /\ s.pc = "setCancelled" /\ s.target # s.id /\ s.copy.status # "q"
    BY <1>0, <1>8, SessionByPc DEF SetCancelled, Careful
  <2>2. End(w) \/ web'[w] = held
    BY <1>3, <1>8, <2>1 DEF SetCancelled
  <2>3. held.pc = "saveBoth" /\ held.copy.status # "q" /\ held.retry.status = "e"
    BY <2>1 DEF Cancelling, Row
  <2> HIDE DEF held
  <2>4. CASE web'[w] = held
    <3>1. web'[w].pc = "saveBoth" /\ web'[w].copy.status # "q" /\ web'[w].retry.status # "q"
      BY <2>3, <2>4
    <3> QED
      BY <3>1 DEF Careful
  <2> QED
    BY <1>4, <2>2, <2>4
<1>9. CASE SaveBoth(w)
  <2>1. web[w] \in Cancelling /\ web[w].copy.status # "q"
    BY <1>0, <1>9, SessionByPc DEF SaveBoth, Careful
  <2>2. PICK c : c = [web[w].copy EXCEPT !.cancel = FALSE]
    OBVIOUS
  <2>3. c.status # "q"
    BY <2>1, <2>2 DEF Cancelling, Row
  <2>4. End(w) \/ web'[w] = [pc |-> "version", id |-> web[w].id, copy |-> c]
    BY <1>3, <1>9, <2>2 DEF SaveBoth
  <2>5. CASE web'[w] = [pc |-> "version", id |-> web[w].id, copy |-> c]
    BY <1>2, <2>3, <2>5
  <2> QED
    BY <1>4, <2>4, <2>5
<1>10. CASE Hide(w)
  <2>1. Chosen(w) \in Ids /\ db[Chosen(w)].status # "q"
    BY <1>0, <1>10, ChosenSettled DEF Hide
  <2>2. web'[w] = [pc |-> "hide", id |-> Chosen(w), copy |-> db[Chosen(w)]]
    BY <1>3, <1>10, <2>1 DEF Hide
  <2> QED
    BY <1>2, <2>1, <2>2
<1>11. CASE SaveHidden(w) \/ WebSend(w) \/ WebSendFails(w)
  BY <1>4, <1>11 DEF SaveHidden, WebSend, WebSendFails
<1>12. ASSUME NEW r \in Runs, Confirm(w, r) PROVE Careful(web[w])'
  <2> DEFINE S == {j \in VersionsOf(r) : db[j].version = NextVersion(r) - 1}
             i == LeastId(S)
  <2>1. VersionsOf(r) # {} /\ \A j \in VersionsOf(r) : db[j].status # "q"
    BY <1>12 DEF Confirm
  <2>2. S # {}
    <3>1. nextId \in Nat /\ \A j \in Ids : db[j].version < nextId
      BY <1>0 DEF TableOK, IInv, VersionsBounded
    <3> QED
      BY <1>0, <2>1, <3>1, LatestExists
  <2>3. S \in SUBSET Nat
    BY <1>0, RowIdsAssumption DEF VersionsOf, TableOK
  <2>4. i \in VersionsOf(r)
    BY <2>2, <2>3, LeastIdLeast
  <2>5. web'[w] = [pc |-> "version", id |-> i, copy |-> db[i]]
    BY <1>3, <1>12 DEF Confirm
  <2> HIDE DEF i
  <2> QED
    BY <1>2, <2>1, <2>4, <2>5
<1>13. CASE WebVersion(w)
  <2>1. web[w].copy.status # "q"
    BY <1>0, <1>13 DEF WebVersion, Careful
  <2>2. web'[w].pc = "create" /\ web'[w].copy = web[w].copy
    BY <1>3, <1>13 DEF WebVersion
  <2> QED
    BY <1>2, <2>1, <2>2
<1>14. CASE WebCreate(w)
  <2>1. web[w] \in Creating /\ web[w].copy.status # "q"
    BY <1>0, <1>14, SessionByPc DEF WebCreate, Careful
  <2>2. web'[w].pc = "link" /\ web'[w].copy = [web[w].copy EXCEPT !.retry = nextId]
    BY <1>3, <1>14 DEF WebCreate
  <2>3. web'[w].copy.status = web[w].copy.status
    BY <2>1, <2>2 DEF Creating, Row
  <2> QED
    BY <1>2, <2>1, <2>2, <2>3
<1>15. CASE WebLink(w) \/ WebVariables(w)
  <2>1. web[w] \in Sending
    BY <1>0, <1>15, SessionByPc DEF WebLink, WebVariables
  <2>2. End(w) \/ web'[w] \in {[web[w] EXCEPT !.pc = "variables"], [web[w] EXCEPT !.pc = "send"]}
    BY <1>3, <1>15 DEF WebLink, WebVariables
  <2>3. CASE web'[w] \in {[web[w] EXCEPT !.pc = "variables"], [web[w] EXCEPT !.pc = "send"]}
    BY <1>1, <2>1, <2>3 DEF Sending
  <2> QED
    BY <1>4, <2>2, <2>3
<1> QED
  BY <1>5, <1>6, <1>7, <1>8, <1>9, <1>10, <1>11, <1>12, <1>13, <1>14, <1>15 DEF Session

\* The listener begins to save a report by finding its run.
LEMMA ReportFound ==
  ASSUME IInv, NoRetryAsked, [Next]_vars, lis'.pc = "report"
  PROVE  UNCHANGED lis \/ \E m : FindRun(m)
<1>0. TypeOK
  BY DEF IInv
<1>1. CASE (\E r \in Runs : Submit(r)) \/ TogglePause \/ (\E d \in Subscribed : Dispatch(d))
  BY <1>1 DEF Submit, TogglePause, Dispatch
<1>2. CASE Kill \/ Restart
  BY <1>2 DEF Kill, Restart, Die, Stopped, Waiting
<1>3. CASE Node \/ UNCHANGED vars
  BY <1>3 DEF Node, NodeCancel, NodeDrop, NodeStart, NodeReject, NodeTake, NodeReport, NodeDie, vars
<1>4. CASE \E w \in Sessions : Session(w)
  BY <1>4, SessionKeeps
<1>5. CASE Listener
  <2>1. ASSUME NEW m, DataReady(m) PROVE FALSE
    BY <2>1 DEF DataReady
  <2>2. ASSUME NEW m, RefuseReport(m) PROVE UNCHANGED lis
    BY <2>2 DEF RefuseReport
  <2>3. CASE ReadVersion \/ ScriptFound
    <3>1. lis \in Filing
      BY <1>0, <2>3, ListenerByPc DEF ReadVersion, ScriptFound
    <3> QED
      BY <2>3, <3>1 DEF ReadVersion, ScriptFound, Filing
  <2>4. CASE SaveRun \/ ScriptMissing \/ Forward
    BY <2>4 DEF SaveRun, ScriptMissing, Forward, Return, Waiting
  <2>5. CASE SaveDataLocation \/ CreateVariables
    <3>1. lis \in Filed
      BY <1>0, <2>5, ListenerByPc DEF SaveDataLocation, CreateVariables
    <3> QED
      BY <2>5, <3>1 DEF SaveDataLocation, CreateVariables, Filed, Die, Stopped
  <2>6. CASE SaveReport
    <3>1. lis' \in {Stopped, Waiting}
      BY <2>6 DEF SaveReport, NoRetryAsked, Die, Return
    <3> QED
      BY <3>1 DEF Stopped, Waiting
  <2>7. CASE RetryRun \/ SaveRetry \/ LinkRetry \/ RetryVariables \/ RetrySend
    BY <2>7 DEF NoRetryAsked, RetryRun, SaveRetry, LinkRetry, RetryVariables, RetrySend
  <2> QED
    BY <1>5, <2>1, <2>2, <2>3, <2>4, <2>5, <2>6, <2>7 DEF Listener
<1> QED
  BY <1>1, <1>2, <1>3, <1>4, <1>5 DEF Next

LEMMA SessionMoves ==
  ASSUME IInv, OneSession, [Next]_vars, NEW w \in Sessions
  PROVE  Session(w) \/ UNCHANGED web
<1>1. \A v \in Sessions : v = w
  BY DEF OneSession
<1>2. CASE Node \/ TogglePause \/ Kill \/ Restart \/ UNCHANGED vars
  BY <1>2 DEF TogglePause, Kill, Restart, Node, NodeCancel, NodeDrop, NodeStart, NodeReject,
     NodeTake, NodeReport, NodeDie, vars
<1>3. CASE (\E r \in Runs : Submit(r)) \/ (\E d \in Subscribed : Dispatch(d))
  BY <1>3 DEF Submit, Dispatch
<1>4. CASE Listener
  BY <1>4, ListenerKeeps
<1> QED
  BY <1>1, <1>2, <1>3, <1>4 DEF Next

LEMMA HeldStep ==
  ASSUME IInv, Addressed, Identified, UniqueVersions, HeldInv, OneSession,
         ~Spend("retries"), ~Spend("faults"), [Next]_vars
  PROVE  HeldInv' /\ QueuedStep
<1>1. QueuedStep
  BY QueuedRows
<1>2. NoRetryAsked'
  BY NoRetryStep DEF HeldInv
<1>3. QueuedUnlinked'
  BY <1>1 DEF QueuedStep, Queued, HeldInv, QueuedUnlinked
<1>4. ReportSettles'
  <2>1. CASE lis'.pc = "report" /\ UNCHANGED lis
    BY <2>1 DEF HeldInv, ReportSettles
  <2>2. ASSUME NEW m, FindRun(m) PROVE lis'.copy.status # "q"
    <3> DEFINE i == LeastId(Matching(m))
    <3>1. db[i] \in Row
      BY <2>2, MatchingLeast DEF FindRun, IInv, TypeOK, TableOK
    <3>2. lis'.copy = [db[i] EXCEPT !.status = Reported(m.dest)]
      BY <2>2 DEF FindRun
    <3>3. lis'.copy.status = Reported(m.dest)
      BY <3>1, <3>2 DEF Row
    <3> QED
      BY <3>3 DEF Reported
  <2> QED
    BY <2>1, <2>2, ReportFound DEF ReportSettles, HeldInv
<1>5. AllCareful'
  <2>1. ASSUME NEW w \in Sessions PROVE Careful(web[w])'
    <3>1. CASE web'[w] = web[w]
      BY <1>1, <3>1, CarefulStays
    <3>2. CASE Session(w)
      BY <3>2, SessionCareful
    <3>3. Session(w) \/ UNCHANGED web
      BY SessionMoves
    <3> QED
      BY <3>1, <3>2, <3>3
  <2> QED
    BY <2>1 DEF AllCareful
<1> QED
  BY <1>1, <1>2, <1>3, <1>4, <1>5 DEF HeldInv

-----------------------------------------------------------------------------
(***************************************************************************)
(* A job the node was told to cancel is of a row that is kept, and that is *)
(* no longer queued unless the session is just about to say so.            *)
(***************************************************************************)
AboutToCancel(i) == \E w \in Sessions : web[w].pc = "setCancelled" /\ web[w].target = i

CancelledJobs == dropped \cup {Job(m) : m \in {m \in InTransit : m.cancel}}

Withdrawn(i) == Kept(i) /\ (Queued(i) => AboutToCancel(i))

CancelledSettled == \A j \in CancelledJobs : \E i \in Ids : Withdrawn(i) /\ Job(db[i]) = j

\* The session that is about to cancel a run waits, or cancels it.
LEMMA CancelStays ==
  ASSUME IInv, HeldInv, OneSession, [Next]_vars, NEW i, AboutToCancel(i)
  PROVE  AboutToCancel(i)' \/ db'[i].status = "e"
<1>1. PICK w \in Sessions : web[w].pc = "setCancelled" /\ web[w].target = i
  BY DEF AboutToCancel
<1>2. CASE UNCHANGED web
  BY <1>1, <1>2 DEF AboutToCancel
<1>3. CASE Session(w)
  <2> DEFINE row == [web[w].retry EXCEPT !.status = "e"]
  <2>1. SetCancelled(w)
    BY <1>1, <1>3 DEF Session, ShowFailed, Post, Confirm, SendCancel, SaveBoth, Hide, SaveHidden, WebVersion,
       WebCreate, WebLink, WebVariables, WebSend, WebSendFails
  <2>2. web[w] \in Cancelling /\ i # web[w].id /\ web[w].retry.retry = 0
    BY <1>1, SessionByPc DEF IInv, HeldInv, AllCareful, Careful
  <2>3. row.status = "e" /\ row.retry = 0
    BY <2>2 DEF Cancelling, Row
  <2>4. Dangling(row) \/ db' = Saved(i, row)
    BY <1>1, <2>1, <2>2 DEF SetCancelled
  <2> HIDE DEF row
  <2>5. db' = Saved(i, row)
    BY <2>3, <2>4 DEF Dangling
  <2> QED
    BY <2>3, <2>5, SavedRows
<1> QED
  BY <1>2, <1>3, SessionMoves

LEMMA WithdrawnStays ==
  ASSUME IInv, Identified, HeldInv, QueuedStep, OneSession, [Next]_vars, NEW i, Withdrawn(i)
  PROVE  Withdrawn(i)' /\ i \in Ids' /\ Job(db'[i]) = Job(db[i])
<1>1. Kept(i)' /\ i \in Ids' /\ Job(db'[i]) = Job(db[i]) /\ (db[i].status # "q" => db'[i].status # "q")
  BY KeptSettled DEF Withdrawn
<1>2. ASSUME Queued(i)' PROVE AboutToCancel(i)'
  <2>1. i \in Ids /\ db[i].status = "q"
    BY <1>1, <1>2 DEF Queued, Withdrawn, Kept
  <2>2. AboutToCancel(i)
    BY <2>1 DEF Withdrawn, Queued
  <2>3. db'[i].status # "e"
    BY <1>2 DEF Queued
  <2> QED
    BY <2>2, <2>3, CancelStays
<1> QED
  BY <1>1, <1>2 DEF Withdrawn

\* What the node is told to cancel it was told by a cancellation.
LEMMA DroppedStep ==
  ASSUME TypeOK, [Next]_vars
  PROVE  dropped' \subseteq CancelledJobs
<1>1. CASE \/ \E r \in Runs : Submit(r)
           \/ \E d \in Subscribed : Dispatch(d)
           \/ TogglePause \/ Kill \/ Restart \/ UNCHANGED vars
  BY <1>1 DEF Submit, TogglePause, Dispatch, Kill, Restart, vars, CancelledJobs
<1>2. CASE Listener
  <2>1. ASSUME NEW m, DataReady(m) \/ FindRun(m) \/ RefuseReport(m) PROVE dropped' = dropped
    BY <2>1 DEF DataReady, FindRun, RefuseReport
  <2>2. ASSUME ReadVersion \/ ScriptFound \/ ScriptMissing \/ SaveRun PROVE dropped' = dropped
    BY <2>2 DEF ReadVersion, ScriptFound, ScriptMissing, SaveRun
  <2>3. ASSUME SaveDataLocation \/ CreateVariables \/ Forward \/ SaveReport PROVE dropped' = dropped
    BY <2>3 DEF SaveDataLocation, CreateVariables, Forward, SaveReport
  <2>4. ASSUME RetryRun \/ SaveRetry \/ LinkRetry PROVE dropped' = dropped
    BY <2>4 DEF RetryRun, SaveRetry, LinkRetry
  <2>5. ASSUME RetryVariables \/ RetrySend PROVE dropped' = dropped
    BY <2>5 DEF RetryVariables, RetrySend
  <2> QED
    BY <1>2, <2>1, <2>2, <2>3, <2>4, <2>5 DEF Listener, CancelledJobs
<1>3. ASSUME NEW w \in Sessions, Session(w) PROVE dropped' = dropped
  BY <1>3 DEF Session, ShowFailed, Post, Confirm, SendCancel, SetCancelled, SaveBoth, Hide, SaveHidden,
     WebVersion, WebCreate, WebLink, WebVariables, WebSend, WebSendFails
<1>4. CASE Node
  <2>1. ASSUME NEW m, NodeCancel(m) PROVE dropped' \subseteq CancelledJobs
    <3>1. m \in InTransit /\ m.cancel /\ dropped' = dropped \cup {Job(m)}
      BY <2>1, TakeTransit DEF NodeCancel
    <3> QED
      BY <3>1 DEF CancelledJobs
  <2>2. ASSUME NEW m, NodeDrop(m) \/ NodeStart(m) \/ NodeReject(m) PROVE dropped' \subseteq dropped
    BY <2>2 DEF NodeDrop, NodeStart, NodeReject
  <2>3. ASSUME NEW j \in node, NodeReport(j) \/ NodeDie(j) PROVE dropped' = dropped
    BY <2>3 DEF NodeReport, NodeDie
  <2> QED
    BY <1>4, <2>1, <2>2, <2>3 DEF Node, CancelledJobs
<1> QED
  BY <1>1, <1>2, <1>3, <1>4 DEF Next, CancelledJobs

\* A cancellation is about the row that is cancelled next.
LEMMA CancelWithdraws ==
  ASSUME IInv, Identified, HeldInv, OneSession, [Next]_vars, QueuedStep, NEW w \in Sessions,
         SendCancel(w), Step(w, [web[w] EXCEPT !.pc = "setCancelled"])
  PROVE  \E i \in Ids' : Withdrawn(i)' /\ Job(db'[i]) = Job(CancelOf(w))
<1>0. PICK i : i = web[w].target
  OBVIOUS
<1>1. web[w] \in Cancelling /\ web[w].pc = "cancel" /\ i # web[w].id /\ i \in Ids
  BY <1>0, SessionByPc DEF SendCancel, IInv, HeldInv, AllCareful, Careful
<1>2. i = web[w].copy.retry /\ i # 0
  BY <1>0, <1>1 DEF Identified, Targets, Targeted
<1>3. <<i, Job(web[w].retry)>> \in Known
  BY <1>1, <1>2 DEF Known, SessionKnows, Memory
<1>4. <<i, Job(db[i])>> \in Known
  BY <1>1 DEF Known, TableKnows
<1>5. Job(db[i]) = Job(web[w].retry)
  BY <1>3, <1>4 DEF Identified, Agree
<1>6. Kept(i)
  BY <1>1, KeptByAll DEF HeldInv, Holds
<1>7. Kept(i)' /\ i \in Ids' /\ Job(db'[i]) = Job(db[i])
  BY <1>6, KeptSettled
<1>8. web'[w] = [web[w] EXCEPT !.pc = "setCancelled"]
  BY DEF Step, IInv, TypeOK
<1>9. web'[w].pc = "setCancelled" /\ web'[w].target = i
  BY <1>0, <1>1, <1>8 DEF Cancelling
<1>10. Job(CancelOf(w)) = Job(web[w].retry)
  BY <1>0, <1>1, CancelMessage DEF IInv, CancelledRow
<1>11. AboutToCancel(i)'
  BY <1>9 DEF AboutToCancel
<1> QED
  BY <1>5, <1>7, <1>10, <1>11 DEF Withdrawn

LEMMA CancelledStep ==
  ASSUME IInv, Addressed, Identified, HeldInv, QueuedStep, OneSession, CancelledSettled,
         ~Spend("retries"), ~Spend("faults"), [Next]_vars
  PROVE  CancelledSettled'
<1>1. ASSUME NEW j \in CancelledJobs PROVE \E i \in Ids' : Withdrawn(i)' /\ Job(db'[i]) = j
  <2>1. PICK i \in Ids : Withdrawn(i) /\ Job(db[i]) = j
    BY <1>1 DEF CancelledSettled
  <2>2. Withdrawn(i)' /\ i \in Ids' /\ Job(db'[i]) = Job(db[i])
    BY <2>1, WithdrawnStays
  <2> QED
    BY <2>1, <2>2
<1>2. ASSUME NEW m \in InTransit', m.cancel PROVE \E i \in Ids' : Withdrawn(i)' /\ Job(db'[i]) = Job(m)
  <2>1. CASE m \in InTransit
    BY <1>1, <1>2, <2>1 DEF CancelledJobs
  <2>2. ASSUME NEW w \in Sessions, SendCancel(w), Step(w, [web[w] EXCEPT !.pc = "setCancelled"]),
               m = CancelOf(w)
        PROVE  \E i \in Ids' : Withdrawn(i)' /\ Job(db'[i]) = Job(m)
    BY <2>2, CancelWithdraws
  <2>3. AddedPlain
    BY TransitPlain DEF IInv, HeldInv
  <2> QED
    BY <1>2, <2>1, <2>2, <2>3 DEF AddedPlain, Unasked
<1>3. ASSUME NEW j \in CancelledJobs' PROVE \E i \in Ids' : Withdrawn(i)' /\ Job(db'[i]) = j
  <2>1. CASE j \in dropped'
    BY <1>1, <2>1, DroppedStep DEF IInv
  <2>2. ASSUME NEW m \in InTransit', m.cancel, j = Job(m)
        PROVE  \E i \in Ids' : Withdrawn(i)' /\ Job(db'[i]) = j
    BY <1>2, <2>2
  <2> QED
    BY <1>3, <2>1, <2>2 DEF CancelledJobs, Job
<1> QED
  BY <1>3 DEF CancelledSettled, Job

-----------------------------------------------------------------------------
(***************************************************************************)
(* A queued run is remembered: the listener or the session has it in hand, *)
(* or a message on its way carries it on.  No step forgets one.            *)
(***************************************************************************)
Carries(m, i) ==
  ~m.cancel /\ m.dest \in {"Pending", "Started", "Error", "Skipped"} /\ Job(m) = Job(db[i])

FiledAsQueued(i) == lis.pc \in {"locate", "variables", "forward"} /\ lis.id = i /\ ~lis.paused
BeingReported(i) == lis.pc = "report" /\ lis.id = i
BeingSent(i) == \E w \in Sessions : Holds(w) /\ web[w].new = i

InHand(i) == FiledAsQueued(i) \/ BeingReported(i) \/ BeingSent(i) \/ AboutToCancel(i)

Remembered(i) == InHand(i) \/ \E m \in InTransit : Carries(m, i)

QueuedRemembered == \A i : Queued(i) => Remembered(i)

\* A run that stays queued, under its run and version.
Waits(i) == Queued(i) /\ Queued(i)' /\ Job(db'[i]) = Job(db[i])

LEMMA CarriedOn ==
  ASSUME NEW i, Waits(i), NEW m \in InTransit', Carries(m, i)
  PROVE  Remembered(i)'
BY DEF Remembered, Carries, Waits, Job

LEMMA SentOn ==
  ASSUME NEW i, Waits(i), NEW m \in InTransit', ~m.cancel,
         m.dest \in {"Pending", "Started", "Error", "Skipped"}, Job(m) = Job(db[i])
  PROVE  Remembered(i)'
BY CarriedOn DEF Carries

\* Nothing is taken from the queues, and who has the run in hand keeps it.
LEMMA RememberedStays ==
  ASSUME NEW i, Waits(i), Remembered(i), InTransit \subseteq InTransit', InHand(i) => InHand(i)'
  PROVE  Remembered(i)'
BY CarriedOn DEF Remembered

\* A message is taken that does not carry the run, or somebody has it in hand now.
LEMMA RememberedTaken ==
  ASSUME NEW i, Waits(i), Remembered(i), NEW m, InTransit \subseteq InTransit' \cup {m},
         InHand(i) => InHand(i)', Carries(m, i) => Remembered(i)'
  PROVE  Remembered(i)'
BY CarriedOn DEF Remembered

\* A version names one row, so a message about a job is about its row.
LEMMA OneMatch ==
  ASSUME TypeOK, UniqueVersions, NEW m, NEW i \in Ids, Job(m) = Job(db[i])
  PROVE  Matching(m) = {i} /\ LeastId(Matching(m)) = i
<1>1. db[i].run = m.run /\ db[i].version = m.version
  BY DEF Job
<1>2. Matching(m) = {i}
  BY <1>1 DEF Matching, UniqueVersions
<1>3. i \in Nat
  BY RowIdsAssumption DEF TypeOK, TableOK
<1> QED
  BY <1>2, <1>3, LeastIdLeast

LEMMA HandSame ==
  ASSUME UNCHANGED web, NEW i, InHand(i),
         lis.pc \notin {"locate", "variables", "forward", "report"} \/ UNCHANGED lis
  PROVE  InHand(i)'
BY DEF InHand, FiledAsQueued, BeingReported, BeingSent, Holds, AboutToCancel

\* A report can be saved when the retry its record names is still in the table.
Orderly == UniqueVersions /\ (lis.pc = "report" => ~Dangling(lis.copy))

\* The listener finds the run a message carries, and refuses no such report.
LEMMA ReceivedRemembered ==
  ASSUME IInv, Orderly, NEW i, Waits(i), Remembered(i), NEW m,
         DataReady(m) \/ FindRun(m) \/ RefuseReport(m)
  PROVE  Remembered(i)'
<1>1. TypeOK /\ UniqueVersions /\ i \in Ids /\ db[i].status = "q"
  BY DEF IInv, Orderly, Waits, Queued
<1>2. UNCHANGED <<db, queue, web>> /\ \E d : Receive(d, m)
  BY DEF DataReady, FindRun, RefuseReport
<1>3. InTransit \subseteq InTransit' \cup {m}
  BY <1>1, <1>2, ReceiveKeeps
<1>4. lis.pc = "wait"
  BY <1>2 DEF Receive, Waiting
<1>5. InHand(i) => InHand(i)'
  BY <1>2, <1>4, HandSame
<1>6. CASE DataReady(m)
  <2>1. ~Carries(m, i)
    BY <1>6 DEF DataReady, Receive, Carries
  <2> QED
    BY <1>3, <1>5, <2>1, RememberedTaken
<1>7. CASE FindRun(m)
  <2>1. ASSUME Carries(m, i) PROVE Remembered(i)'
    <3>1. LeastId(Matching(m)) = i
      BY <1>1, <2>1, OneMatch DEF Carries
    <3>2. lis'.pc = "report" /\ lis'.id = i
      BY <1>7, <3>1 DEF FindRun
    <3> QED
      BY <3>2 DEF Remembered, InHand, BeingReported
  <2> QED
    BY <1>3, <1>5, <2>1, RememberedTaken
<1>8. CASE RefuseReport(m)
  <2>1. ASSUME Carries(m, i) PROVE FALSE
    <3>1. LeastId(Matching(m)) = i /\ Matching(m) = {i}
      BY <1>1, <2>1, OneMatch DEF Carries
    <3>2. db[i].status \notin Accepted(m.dest)
      BY <1>8, <3>1 DEF RefuseReport
    <3>3. m.dest \in {"Started", "Error", "Skipped"}
      BY <1>8, <2>1 DEF RefuseReport, Receive, Carries, Subscribed
    <3> QED
      BY <1>1, <3>2, <3>3 DEF Accepted, StatusValue
  <2> QED
    BY <1>3, <1>5, <2>1, RememberedTaken
<1> QED
  BY <1>6, <1>7, <1>8

\* What the listener has filed it forwards.
LEMMA ForwardRemembered ==
  ASSUME IInv, FiledKept, HeldInv, NEW i, Waits(i), Remembered(i), Forward
  PROVE  Remembered(i)'
<1>0. TypeOK
  BY DEF IInv
<1>1. lis \in Filed /\ lis.msg \in Message /\ ~lis.msg.cancel /\ Job(db[lis.id]) = Job(lis.msg)
  BY <1>0, ListenerByPc DEF Forward, Filed, HeldInv, NoRetryAsked, FiledKept
<1>2. ASSUME NEW d \in {"Skipped", "Pending"}
      PROVE  LET m == [lis.msg EXCEPT !.dest = d]
             IN  m \in Message /\ ~m.cancel /\ m.dest = d /\ Job(m) = Job(lis.msg)
  BY <1>1 DEF Message, Destination, Subscribed, Job
<1>3. UNCHANGED <<web, inbox>>
  BY DEF Forward
<1>4. \/ UNCHANGED queue /\ lis.paused
      \/ \E d \in {"Skipped", "Pending"} : Send([lis.msg EXCEPT !.dest = d])
  BY DEF Forward
<1>5. ASSUME NEW d \in {"Skipped", "Pending"}, Send([lis.msg EXCEPT !.dest = d]) PROVE Remembered(i)'
  <2>1. PICK m : m = [lis.msg EXCEPT !.dest = d]
    OBVIOUS
  <2>2. m \in Message /\ ~m.cancel /\ m.dest = d /\ Job(m) = Job(lis.msg)
    BY <1>2, <2>1
  <2>3. InTransit' = InTransit \cup {m}
    BY <1>0, <1>3, <1>5, <2>1, <2>2, SendKeeps
  <2>4. CASE lis.id = i
    BY <1>1, <2>2, <2>3, <2>4, SentOn
  <2>5. ASSUME lis.id # i, InHand(i) PROVE InHand(i)'
    BY <1>3, <2>5 DEF InHand, FiledAsQueued, BeingReported, BeingSent, Holds, AboutToCancel, Forward
  <2> QED
    BY <2>3, <2>4, <2>5, RememberedStays
<1>6. CASE UNCHANGED queue /\ lis.paused
  <2>1. ASSUME InHand(i) PROVE InHand(i)'
    BY <1>3, <1>6, <2>1 DEF InHand, FiledAsQueued, BeingReported, BeingSent, Holds, AboutToCancel, Forward
  <2> QED
    BY <1>3, <1>6, <2>1, TransitSame, RememberedStays
<1> QED
  BY <1>4, <1>5, <1>6

\* The report that is saved ends the wait of its run.
LEMMA SavedRemembered ==
  ASSUME IInv, Orderly, HeldInv, NEW i, Waits(i), Remembered(i), SaveReport
  PROVE  Remembered(i)'
<1>1. lis.pc = "report" /\ ~Dangling(lis.copy) /\ lis.copy.status # "q" /\ ~lis.msg.retryIn
  BY DEF SaveReport, Orderly, HeldInv, ReportSettles, NoRetryAsked
<1>2. db' = Saved(lis.id, lis.copy) /\ UNCHANGED <<queue, inbox, web>>
  BY <1>1 DEF SaveReport
<1>3. lis.id # i
  BY <1>1, <1>2, SavedRows DEF Waits, Queued
<1>4. InHand(i) => InHand(i)'
  BY <1>1, <1>2, <1>3 DEF InHand, FiledAsQueued, BeingReported, BeingSent, Holds, AboutToCancel
<1> QED
  BY <1>2, <1>4, TransitSame, RememberedStays

LEMMA ListenerRemembered ==
  ASSUME IInv, Orderly, FiledKept, HeldInv, ~Spend("faults"), NEW i, Waits(i), Remembered(i), Listener
  PROVE  Remembered(i)'
<1>0. TypeOK
  BY DEF IInv
<1>1. ASSUME UNCHANGED <<queue, inbox, web>>, lis.pc \in {"version", "script", "save"} PROVE Remembered(i)'
  BY <1>1, TransitSame, HandSame, RememberedStays
<1>2. CASE ReadVersion \/ ScriptFound \/ SaveRun
  BY <1>1, <1>2 DEF ReadVersion, ScriptFound, SaveRun
<1>3. CASE SaveDataLocation \/ CreateVariables
  <2>1. lis \in Filed /\ lis.pc # "forward" /\ UNCHANGED <<queue, inbox, web>>
    BY <1>0, <1>3, ListenerByPc DEF SaveDataLocation, CreateVariables
  <2>2. lis' \in {[lis EXCEPT !.pc = "variables"], [lis EXCEPT !.pc = "forward"]}
    BY <1>3 DEF SaveDataLocation, CreateVariables
  <2>3. lis'.pc \in {"variables", "forward"} /\ lis'.id = lis.id /\ lis'.paused = lis.paused
    BY <2>1, <2>2 DEF Filed
  <2>4. InHand(i) => InHand(i)'
    BY <2>1, <2>3 DEF Filed, InHand, FiledAsQueued, BeingReported, BeingSent, Holds, AboutToCancel
  <2> QED
    BY <2>1, <2>4, TransitSame, RememberedStays
<1>4. CASE ScriptMissing
  BY <1>4 DEF ScriptMissing
<1>5. CASE RetryRun \/ SaveRetry \/ LinkRetry \/ RetryVariables \/ RetrySend
  BY <1>5 DEF HeldInv, NoRetryAsked, RetryRun, SaveRetry, LinkRetry, RetryVariables, RetrySend
<1> QED
  BY <1>2, <1>3, <1>4, <1>5, ReceivedRemembered, ForwardRemembered, SavedRemembered DEF Listener

LEMMA EnvironmentRemembered ==
  ASSUME IInv, ~Spend("faults"), NEW i, Waits(i), Remembered(i),
         \/ \E r \in Runs : Submit(r)
         \/ \E d \in Subscribed : Dispatch(d)
         \/ TogglePause \/ Kill \/ Restart \/ UNCHANGED vars
  PROVE  Remembered(i)'
<1>0. TypeOK
  BY DEF IInv
<1>1. ASSUME UNCHANGED <<lis, web>>, InTransit \subseteq InTransit' PROVE Remembered(i)'
  BY <1>1, HandSame, RememberedStays
<1>2. ASSUME NEW r \in Runs, Submit(r) PROVE Remembered(i)'
  <2>1. NewMessage("DataReady", r, 0) \in Message
    BY NewMessageType DEF Destination, Subscribed
  <2>2. InTransit \subseteq InTransit'
    BY <1>0, <1>2, <2>1, SendKeeps DEF Submit
  <2> QED
    BY <1>1, <1>2, <2>2 DEF Submit
<1>3. ASSUME NEW d \in Subscribed, Dispatch(d) PROVE Remembered(i)'
  <2>1. InTransit \subseteq InTransit'
    BY <1>0, <1>3, DispatchKeeps
  <2> QED
    BY <1>1, <1>3, <2>1 DEF Dispatch
<1>4. CASE TogglePause \/ UNCHANGED vars
  BY <1>1, <1>4, TransitSame DEF TogglePause, vars
<1>5. CASE Kill
  BY <1>5 DEF Kill
<1>6. CASE Restart
  <2>1. UNCHANGED <<queue, inbox, web>> /\ lis.pc = "stopped"
    BY <1>6 DEF Restart, Stopped
  <2> QED
    BY <2>1, TransitSame, HandSame, RememberedStays
<1> QED
  BY <1>2, <1>3, <1>4, <1>5, <1>6

\* The node drops no job but one that is cancelled, and tells of every other.
LEMMA NodeRemembered ==
  ASSUME IInv, UniqueVersions, CancelledSettled, ~Spend("faults"), ~Spend("retries"),
         NEW i, Waits(i), Remembered(i), Node
  PROVE  Remembered(i)'
<1>0. TypeOK /\ UNCHANGED <<lis, web>> /\ i \in Ids
  BY DEF IInv, Waits, Queued, Node, NodeCancel, NodeDrop, NodeStart, NodeReject, NodeTake, NodeReport, NodeDie
<1>1. InHand(i) => InHand(i)'
  BY <1>0, HandSame
<1>2. ASSUME NEW m, NodeCancel(m) PROVE Remembered(i)'
  <2>1. InTransit \subseteq InTransit' \cup {m} /\ ~Carries(m, i)
    BY <1>0, <1>2, TakeKeeps DEF NodeCancel, Carries
  <2> QED
    BY <1>1, <2>1, RememberedTaken
<1>3. ASSUME NEW m, NodeDrop(m) PROVE Remembered(i)'
  <2>1. InTransit \subseteq InTransit' \cup {m}
    BY <1>0, <1>3, TakeKeeps DEF NodeDrop
  <2>2. ASSUME Carries(m, i) PROVE Remembered(i)'
    <3>1. Job(m) \in CancelledJobs
      BY <1>3 DEF NodeDrop, CancelledJobs
    <3>2. PICK k \in Ids : Withdrawn(k) /\ Job(db[k]) = Job(m)
      BY <3>1 DEF CancelledSettled
    <3>3. k = i
      BY <1>0, <2>2, <3>2 DEF Carries, Job, UniqueVersions
    <3>4. InHand(i)
      BY <3>2, <3>3 DEF Withdrawn, Waits, InHand
    <3> QED
      BY <1>1, <3>4 DEF Remembered
  <2> QED
    BY <1>1, <2>1, <2>2, RememberedTaken
<1>4. ASSUME NEW m, NodeStart(m) \/ NodeReject(m) PROVE Remembered(i)'
  <2>1. NodeTake(m) /\ \E d \in {"Started", "Error"} :
          queue' = [queue EXCEPT !["Pending"] = Tail(@),
                                 ![d] = Append(@, NewMessage(d, m.run, m.version))]
    BY <1>4 DEF NodeStart, NodeReject
  <2>2. PICK d \in {"Started", "Error"} :
          InTransit \subseteq InTransit' \cup {m} /\ NewMessage(d, m.run, m.version) \in InTransit'
    BY <1>0, <2>1, TakeKeeps
  <2>3. /\ ~NewMessage(d, m.run, m.version).cancel /\ NewMessage(d, m.run, m.version).dest = d
        /\ Job(NewMessage(d, m.run, m.version)) = Job(m)
    BY DEF NewMessage, Job
  <2>4. Carries(m, i) => Remembered(i)'
    BY <2>2, <2>3, SentOn DEF Carries
  <2> QED
    BY <1>1, <2>2, <2>4, RememberedTaken
<1>5. ASSUME NEW j \in node, NodeReport(j) PROVE Remembered(i)'
  <2>1. PICK d \in {"Complete", "Error", "Skipped"} : Send(NewMessage(d, j.run, j.version))
    BY <1>5 DEF NodeReport
  <2>2. j.run \in Runs /\ j.version \in Nat /\ d \in Destination
    BY <1>0 DEF TypeOK, QueuesOK, Destination, Subscribed
  <2>3. NewMessage(d, j.run, j.version) \in Message
    BY <2>2, NewMessageType
  <2>4. InTransit \subseteq InTransit'
    BY <1>0, <1>5, <2>1, <2>3, SendKeeps DEF NodeReport
  <2> QED
    BY <1>1, <2>4, RememberedStays
<1>6. ASSUME NEW j \in node, NodeDie(j) PROVE FALSE
  BY <1>6 DEF NodeDie
<1> QED
  BY <1>2, <1>3, <1>4, <1>5, <1>6 DEF Node

\* A session takes nothing from the queues.
LEMMA SessionTransit ==
  ASSUME TypeOK, NEW w \in Sessions, Session(w)
  PROVE  /\ InTransit \subseteq InTransit'
         /\ WebSend(w) => NewMessage("Pending", web[w].copy.run, web[w].version) \in InTransit'
<1>1. UNCHANGED inbox /\ (UNCHANGED queue \/ SendCancel(w) \/ WebSend(w) \/ WebSendFails(w))
  BY DEF Session, ShowFailed, Post, Confirm, SendCancel, SetCancelled, SaveBoth, Hide, SaveHidden,
     WebVersion, WebCreate, WebLink, WebVariables, WebSend, WebSendFails
<1>2. CASE SendCancel(w)
  <2>1. CancelOf(w) \in Message /\ web[w].pc = "cancel"
    BY <1>2, CancelMessage DEF SendCancel
  <2>2. UNCHANGED queue \/ Send(CancelOf(w))
    BY <1>2 DEF SendCancel, CancelOf, CancelledRow
  <2>3. InTransit \subseteq InTransit'
    BY <1>1, <2>1, <2>2, SendKeeps, TransitSame
  <2> QED
    BY <2>1, <2>3 DEF WebSend
<1>3. CASE WebSend(w) \/ WebSendFails(w)
  <2>1. web[w] \in Sending
    BY <1>3, SessionByPc DEF WebSend, WebSendFails
  <2>2. NewMessage("Pending", web[w].copy.run, web[w].version) \in Message
    BY <2>1, RowChanged, NewMessageType DEF Sending, Destination
  <2>3. CASE UNCHANGED queue
    BY <1>1, <1>3, <2>2, <2>3, TransitSame, SendKeeps DEF WebSend
  <2>4. CASE Send(NewMessage("Pending", web[w].copy.run, web[w].version))
    BY <1>1, <2>2, <2>4, SendKeeps
  <2> QED
    BY <1>3, <2>3, <2>4 DEF WebSend, WebSendFails
<1> QED
  BY <1>1, <1>2, <1>3, TransitSame

\* The session that files a re-run holds it until it has sent or deleted it.
LEMMA SessionRemembered ==
  ASSUME IInv, NewRowHeld, HeldInv, OneSession, ~Spend("faults"), [Next]_vars,
         NEW i, Waits(i), Remembered(i), NEW w \in Sessions, Session(w)
  PROVE  Remembered(i)'
<1>0. TypeOK /\ UNCHANGED lis /\ InTransit \subseteq InTransit'
  BY SessionTransit, SessionKeeps DEF IInv
<1>1. AboutToCancel(i) => AboutToCancel(i)'
  BY CancelStays DEF Waits, Queued
<1>2. ASSUME BeingSent(i) PROVE BeingSent(i)' \/ Remembered(i)'
  <2>1. web[w] \in Sending /\ Holds(w) /\ web[w].new = i
    BY <1>0, <1>2, SessionByPc DEF BeingSent, OneSession, Holds
  <2>2. WebLink(w) \/ WebVariables(w) \/ WebSend(w) \/ WebSendFails(w)
    <3>1. ~\E j \in Ids : ShowFailed(w, j)
      BY <2>1 DEF Holds, ShowFailed
    <3>2. ~\E rerun \in BOOLEAN : Post(w, rerun)
      BY <2>1 DEF Holds, Post
    <3>3. ~\E r \in Runs : Confirm(w, r)
      BY <2>1 DEF Holds, Confirm
    <3>4. ~(\/ SendCancel(w) \/ SetCancelled(w) \/ SaveBoth(w) \/ Hide(w) \/ SaveHidden(w)
            \/ WebVersion(w) \/ WebCreate(w))
      BY <2>1 DEF Holds, SendCancel, SetCancelled, SaveBoth, Hide, SaveHidden, WebVersion, WebCreate
    <3> QED
      BY <3>1, <3>2, <3>3, <3>4 DEF Session
  <2>3. CASE WebLink(w) \/ WebVariables(w)
    <3>1. web' \in {[web EXCEPT ![w] = [web[w] EXCEPT !.pc = "variables"]],
                    [web EXCEPT ![w] = [web[w] EXCEPT !.pc = "send"]]}
      BY <2>3 DEF WebLink, WebVariables, Step
    <3>2. web'[w] \in {[web[w] EXCEPT !.pc = "variables"], [web[w] EXCEPT !.pc = "send"]}
      BY <1>0, <3>1 DEF TypeOK
    <3>3. web'[w].pc \in {"variables", "send"} /\ web'[w].new = i
      BY <2>1, <3>2 DEF Sending
    <3> QED
      BY <3>3 DEF BeingSent, Holds
  <2>4. CASE WebSend(w)
    <3>1. Job(db[i]) = [run |-> web[w].copy.run, version |-> web[w].version]
      BY <2>1 DEF NewRowHeld
    <3>2. PICK m : m = NewMessage("Pending", web[w].copy.run, web[w].version)
      OBVIOUS
    <3>3. ~m.cancel /\ m.dest = "Pending" /\ Job(m) = Job(db[i])
      BY <3>1, <3>2 DEF NewMessage, Job
    <3>4. m \in InTransit'
      BY <1>0, <2>4, <3>2, SessionTransit
    <3> QED
      BY <3>3, <3>4, SentOn
  <2>5. CASE WebSendFails(w)
    <3>1. db' = Removed(i)
      BY <2>1, <2>5 DEF WebSendFails
    <3>2. i \notin Ids'
      BY <1>0, <3>1, RemovedRows
    <3> QED
      BY <3>2 DEF Waits, Queued
  <2> QED
    BY <2>2, <2>3, <2>4, <2>5
<1>3. InHand(i) => InHand(i)' \/ Remembered(i)'
  BY <1>0, <1>1, <1>2 DEF InHand, FiledAsQueued, BeingReported
<1> QED
  BY <1>0, <1>3, RememberedStays

\* The run that a step files is in the hand of whoever files it.
LEMMA FiledRemembered ==
  ASSUME IInv, Files, NEW i, i = nextId, Queued(i)'
  PROVE  Remembered(i)'
<1>1. CASE SaveRun
  <2>1. db' = Saved(i, NewRow(lis.msg.run, lis.msg.version, IF lis.paused THEN "s" ELSE "q"))
    BY <1>1 DEF SaveRun
  <2>2. db'[i].status = IF lis.paused THEN "s" ELSE "q"
    <3>1. PICK row : row = NewRow(lis.msg.run, lis.msg.version, IF lis.paused THEN "s" ELSE "q")
      OBVIOUS
    <3>2. row.status = IF lis.paused THEN "s" ELSE "q"
      BY <3>1 DEF NewRow
    <3> QED
      BY <2>1, <3>1, <3>2, SavedRows
  <2>3. ~lis.paused
    BY <2>2 DEF Queued
  <2>4. FiledAsQueued(i)'
    BY <1>1, <2>3 DEF SaveRun, FiledAsQueued
  <2> QED
    BY <2>4 DEF Remembered, InHand
<1>2. ASSUME NEW w \in Sessions, WebCreate(w) PROVE Remembered(i)'
  <2>1. web'[w].pc = "link" /\ web'[w].new = i
    BY <1>2 DEF WebCreate, Step, IInv, TypeOK
  <2>2. BeingSent(i)'
    BY <2>1 DEF BeingSent, Holds
  <2> QED
    BY <2>2 DEF Remembered, InHand
<1> QED
  BY <1>1, <1>2 DEF Files

\* No step forgets a queued run.
LEMMA RememberedStep ==
  ASSUME IInv, Orderly, Identified, NewRowHeld, FiledKept, HeldInv, CancelledSettled, QueuedRemembered,
         QueuedStep, OneSession, ~Spend("retries"), ~Spend("faults"), [Next]_vars
  PROVE  QueuedRemembered'
<1>1. ASSUME NEW i, Waits(i) PROVE Remembered(i)'
  <2>1. Remembered(i)
    BY <1>1 DEF QueuedRemembered, Waits
  <2>2. CASE \/ \E r \in Runs : Submit(r)
             \/ \E d \in Subscribed : Dispatch(d)
             \/ TogglePause \/ Kill \/ Restart \/ UNCHANGED vars
    BY <1>1, <2>1, <2>2, EnvironmentRemembered
  <2>3. CASE Listener
    BY <1>1, <2>1, <2>3, ListenerRemembered
  <2>4. CASE Node
    BY <1>1, <2>1, <2>4, NodeRemembered DEF Orderly
  <2>5. ASSUME NEW w \in Sessions, Session(w) PROVE Remembered(i)'
    BY <1>1, <2>1, <2>5, SessionRemembered
  <2> QED
    BY <2>2, <2>3, <2>4, <2>5, Zenon DEF Next
<1>2. ASSUME NEW i, Queued(i)' PROVE Remembered(i)'
  <2>1. CASE Queued(i)
    <3>1. i \in Ids /\ i \in Ids'
      BY <1>2, <2>1 DEF Queued
    <3>2. Job(db'[i]) = Job(db[i])
      BY <3>1, StepGrows, GrowKeepsRows DEF Identified
    <3> QED
      BY <1>1, <1>2, <2>1, <3>2 DEF Waits
  <2>2. CASE Files /\ i = nextId
    BY <1>2, <2>2, FiledRemembered
  <2> QED
    BY <1>2, <2>1, <2>2 DEF QueuedStep
<1> QED
  BY <1>2 DEF QueuedRemembered

\* Whoever is to move the run on is somebody QueuedNotForgotten knows.
LEMMA RememberedMeans ==
  ASSUME TypeOK, QueuedRemembered
  PROVE  QueuedNotForgotten
<1>1. ASSUME NEW i \in Ids, db[i].status = "q"
      PROVE  FiledBy(i) \/ \E j \in AboutRuns : j.run = db[i].run /\ j.version = db[i].version
  <2>1. Remembered(i)
    BY <1>1 DEF QueuedRemembered, Queued
  <2>2. CASE InHand(i)
    BY <2>2 DEF InHand, FiledAsQueued, BeingReported, BeingSent, Holds, AboutToCancel, FiledBy
  <2>3. ASSUME NEW m \in InTransit, Carries(m, i)
        PROVE  \E j \in AboutRuns : j.run = db[i].run /\ j.version = db[i].version
    <3>1. Job(m) \in AboutRuns /\ Job(m) = Job(db[i])
      BY <2>3 DEF Carries, AboutRuns
    <3>2. Job(m).run = db[i].run /\ Job(m).version = db[i].version
      BY <3>1 DEF Job
    <3> QED
      BY <3>1, <3>2
  <2> QED
    BY <2>1, <2>2, <2>3 DEF Remembered
<1> QED
  BY <1>1 DEF QueuedNotForgotten

LEMMA RememberedInit ==
  ASSUME Init, MaxRetries = 0
  PROVE  Budgeted /\ HeldInv /\ CancelledSettled /\ QueuedRemembered
<1>1. Ids = {} /\ InTransit = {} /\ dropped = {} /\ lis.pc = "wait"
  BY DEF Init, Ids, InTransit, Elements, Waiting
<1>2. \A w \in Sessions : web[w].pc = "idle"
  BY DEF Init, NoPage
<1>3. Budgeted
  BY BoundsAssumption DEF Init, Budgeted
<1>4. NoRetryAsked
  BY <1>1 DEF NoRetryAsked, AllPlain
<1>5. AllCareful
  BY <1>2 DEF AllCareful, Careful
<1>6. HeldInv
  BY <1>1, <1>4, <1>5 DEF HeldInv, ReportSettles, QueuedUnlinked
<1>7. CancelledSettled /\ QueuedRemembered
  BY <1>1 DEF CancelledSettled, CancelledJobs, QueuedRemembered, Queued
<1> QED
  BY <1>3, <1>6, <1>7

\* What is remembered until the first fault, in one invariant.
Unharmed == budget.faults = MaxFaults
RememberInv == Budgeted /\ (Unharmed => HeldInv /\ CancelledSettled /\ QueuedRemembered)

LEMMA RememberStep ==
  ASSUME IInv, SentInv, Unharmed => Orderly, OneSession, RememberInv, [Next]_vars
  PROVE  RememberInv'
<1>1. /\ Budgeted' /\ ~Spend("retries")
      /\ budget'.faults = MaxFaults => budget.faults = MaxFaults /\ ~Spend("faults")
  BY BudgetedStep DEF IInv, RememberInv
<1>2. ASSUME budget'.faults = MaxFaults PROVE (HeldInv /\ CancelledSettled /\ QueuedRemembered)'
  <2>1. /\ HeldInv /\ CancelledSettled /\ QueuedRemembered /\ Orderly
        /\ ~Spend("faults") /\ ~Spend("retries")
    BY <1>1, <1>2 DEF RememberInv, Unharmed
  <2>2. Addressed /\ Identified /\ NewRowHeld /\ FiledKept /\ UniqueVersions
    BY <2>1 DEF SentInv, Orderly
  <2>3. HeldInv' /\ QueuedStep
    BY <2>1, <2>2, HeldStep
  <2>4. CancelledSettled'
    BY <2>1, <2>2, <2>3, CancelledStep
  <2>5. QueuedRemembered'
    BY <2>1, <2>2, <2>3, RememberedStep
  <2> QED
    BY <2>3, <2>4, <2>5
<1> QED
  BY <1>1, <1>2 DEF RememberInv, Unharmed

(***************************************************************************)
(* A queued run is not forgotten (QueuedNotForgotten), whatever pages one  *)
(* session serves beside the listener and the node, as long as versions    *)
(* are unique and no report is saved whose record names a deleted retry,   *)
(* and where no reduction asks for a retry: the new run of retry_run       *)
(* (handle_message.py) is filed and never sent.                            *)
(***************************************************************************)
THEOREM QueuedIsRemembered ==
  ASSUME OneSession, MaxRetries = 0
  PROVE  Spec /\ [](Unharmed => Orderly) => []QueuedNotForgotten
<1>1. Init => RememberInv
  BY RememberedInit DEF RememberInv
<1>2. IInv /\ SentInv /\ (Unharmed => Orderly) /\ RememberInv /\ [Next]_vars => RememberInv'
  BY RememberStep
<1>3. IInv /\ RememberInv => QueuedNotForgotten
  <2>1. ASSUME IInv, RememberInv, Unharmed PROVE QueuedNotForgotten
    BY <2>1, RememberedMeans DEF IInv, RememberInv
  <2>2. ASSUME ~Unharmed PROVE QueuedNotForgotten
    BY <2>2 DEF Unharmed, QueuedNotForgotten
  <2> QED
    BY <2>1, <2>2
<1> QED
  BY <1>1, <1>2, <1>3, Invariance, SentInvariance, PTL DEF Spec

-----------------------------------------------------------------------------
(***************************************************************************)
(* Where one data_ready is sent at most, it is in one place at a time: yet *)
(* to be sent, in its queue, on the listener's socket, or being filed.     *)
(* Until it has been filed the table is empty, and no session has a run to *)
(* show or to repeat.                                                      *)
(***************************************************************************)
ReadyInbox == \E k \in DOMAIN inbox : inbox[k].dest = "DataReady"
ReadyQueued == Len(queue["DataReady"]) > 0
FilingNow == lis.pc \in {"version", "script", "save"}

Arriving == budget.ready > 0 \/ ReadyQueued \/ ReadyInbox \/ FilingNow

ReadyOnce ==
  /\ budget.ready <= 1 /\ Len(queue["DataReady"]) <= 1
  /\ \A k, l \in DOMAIN inbox : inbox[k].dest = "DataReady" /\ inbox[l].dest = "DataReady" => k = l
  /\ budget.ready > 0 => ~ReadyQueued
  /\ ReadyInbox => budget.ready = 0 /\ ~ReadyQueued
  /\ FilingNow => budget.ready = 0 /\ ~ReadyQueued /\ ~ReadyInbox

Blank ==
  /\ Ids = {} /\ located = {} /\ \A w \in Sessions : web[w] = NoPage
  /\ lis.pc \in {"wait", "stopped", "version", "script", "save"}

NothingFiled == Arriving => Blank

LEMMA ReadySpent ==
  ASSUME TypeOK, UNCHANGED budget \/ \E b \in {"posts", "retries", "faults"} : Spend(b)
  PROVE  budget'.ready = budget.ready
BY DEF TypeOK, QueuesOK, Spend

LEMMA ReadyUnsent ==
  ASSUME TypeOK, UNCHANGED queue \/ \E m : Send(m) /\ m.dest # "DataReady"
  PROVE  queue'["DataReady"] = queue["DataReady"]
BY DEF TypeOK, QueuesOK, Send, Destination, Subscribed

\* What every other step than submitting and dispatching leaves of the data_ready.
ReadyStays ==
  /\ budget'.ready = budget.ready /\ queue'["DataReady"] = queue["DataReady"]
  /\ inbox' \in {inbox, <<>>} \/ (inbox # <<>> /\ inbox' = Tail(inbox))
  /\ FilingNow' => FilingNow \/ (inbox # <<>> /\ inbox' = Tail(inbox) /\ Head(inbox).dest = "DataReady")

LEMMA ListenerReady ==
  ASSUME TypeOK, Listener
  PROVE  ReadyStays
<1>1. UNCHANGED budget \/ \E b \in {"posts", "retries", "faults"} : Spend(b)
  BY DEF Listener, DataReady, FindRun, RefuseReport, ReadVersion, ScriptFound, ScriptMissing,
     SaveRun, SaveDataLocation, CreateVariables, Forward, SaveReport, RetryRun, SaveRetry, LinkRetry,
     RetryVariables, RetrySend
<1>2. UNCHANGED queue \/ \E m : Send(m) /\ m.dest # "DataReady"
  <2>1. CASE Forward
    <3>1. lis.msg \in Message
      BY <2>1, ListenerByPc DEF Forward, Filed
    <3>2. \A d : [lis.msg EXCEPT !.dest = d].dest = d
      BY <3>1 DEF Message
    <3> QED
      BY <2>1, <3>2 DEF Forward
  <2>2. CASE ~Forward
    BY <2>2 DEF Listener, DataReady, FindRun, RefuseReport, ReadVersion, ScriptFound, ScriptMissing,
       SaveRun, SaveDataLocation, CreateVariables, SaveReport, RetryRun, SaveRetry, LinkRetry,
       RetryVariables, RetrySend
  <2> QED
    BY <2>1, <2>2
<1>3. inbox' \in {inbox, <<>>} \/ (inbox # <<>> /\ inbox' = Tail(inbox))
  BY DEF Listener, DataReady, FindRun, RefuseReport, Receive, ReadVersion, ScriptFound, ScriptMissing,
     SaveRun, SaveDataLocation, CreateVariables, Forward, SaveReport, RetryRun, SaveRetry, LinkRetry,
     RetryVariables, RetrySend, Die
<1>4. ASSUME FilingNow', ~FilingNow
      PROVE  inbox # <<>> /\ inbox' = Tail(inbox) /\ Head(inbox).dest = "DataReady"
  <2>1. ASSUME NEW m, FindRun(m) \/ RefuseReport(m) PROVE FALSE
    BY <1>4, <2>1 DEF FindRun, RefuseReport, Receive, FilingNow
  <2>2. ASSUME ReadVersion \/ ScriptFound \/ ScriptMissing PROVE FALSE
    BY <1>4, <2>2 DEF ReadVersion, ScriptFound, ScriptMissing, FilingNow
  <2>3. ASSUME SaveRun \/ SaveRetry \/ Forward \/ RetrySend PROVE FALSE
    BY <1>4, <2>3 DEF SaveRun, SaveRetry, Forward, RetrySend, FilingNow, Return, Waiting, Die, Stopped
  <2>4. ASSUME SaveDataLocation \/ CreateVariables PROVE FALSE
    <3>1. lis \in Filed
      BY <2>4, ListenerByPc DEF SaveDataLocation, CreateVariables
    <3> QED
      BY <1>4, <2>4, <3>1 DEF SaveDataLocation, CreateVariables, FilingNow, Filed, Die, Stopped
  <2>5. ASSUME SaveReport \/ RetryRun PROVE FALSE
    <3>1. lis \in Reporting
      BY <2>5, ListenerByPc DEF SaveReport, RetryRun
    <3>2. \/ lis' \in {Waiting, Stopped} \/ lis' = [lis EXCEPT !.pc = "retry"]
          \/ lis' = [lis EXCEPT !.pc = "retrySave", !.msg.version = NextVersion(lis.msg.run)]
      BY <2>5 DEF SaveReport, RetryRun, Return, Die
    <3>3. CASE lis' = [lis EXCEPT !.pc = "retrySave", !.msg.version = NextVersion(lis.msg.run)]
      BY <1>4, <3>1, <3>3 DEF Reporting, FilingNow
    <3>4. CASE lis' = [lis EXCEPT !.pc = "retry"]
      BY <1>4, <3>1, <3>4 DEF Reporting, FilingNow
    <3> QED
      BY <1>4, <3>2, <3>3, <3>4 DEF Waiting, Stopped, FilingNow
  <2>6. ASSUME LinkRetry \/ RetryVariables PROVE FALSE
    <3>1. lis \in Retrying
      BY <2>6, ListenerByPc DEF LinkRetry, RetryVariables
    <3> QED
      BY <1>4, <2>6, <3>1 DEF LinkRetry, RetryVariables, FilingNow, Retrying, Die, Stopped
  <2>7. ASSUME NEW m, DataReady(m)
        PROVE  inbox # <<>> /\ inbox' = Tail(inbox) /\ Head(inbox).dest = "DataReady"
    BY <2>7 DEF DataReady, Receive
  <2> QED
    BY <2>1, <2>2, <2>3, <2>4, <2>5, <2>6, <2>7 DEF Listener
<1> QED
  BY <1>1, <1>2, <1>3, <1>4, ReadySpent, ReadyUnsent DEF ReadyStays

LEMMA SessionReady ==
  ASSUME TypeOK, NEW w \in Sessions, Session(w)
  PROVE  ReadyStays
<1>1. UNCHANGED budget \/ \E b \in {"posts", "retries", "faults"} : Spend(b)
  <2>1. CASE (\E i \in Ids : ShowFailed(w, i)) \/ (\E r \in Runs : Confirm(w, r))
    BY <2>1 DEF ShowFailed, Confirm
  <2>2. CASE WebVariables(w) \/ WebSendFails(w)
    BY <2>2 DEF WebVariables, WebSendFails
  <2>3. CASE \/ \E rerun \in BOOLEAN : Post(w, rerun)
             \/ SendCancel(w) \/ SetCancelled(w) \/ SaveBoth(w) \/ Hide(w) \/ SaveHidden(w)
    BY <2>3 DEF Post, SendCancel, SetCancelled, SaveBoth, Hide, SaveHidden
  <2>4. CASE WebVersion(w) \/ WebCreate(w) \/ WebLink(w) \/ WebSend(w)
    BY <2>4 DEF WebVersion, WebCreate, WebLink, WebSend
  <2> QED
    BY <2>1, <2>2, <2>3, <2>4, Zenon DEF Session
<1>2. UNCHANGED queue \/ \E m : Send(m) /\ m.dest # "DataReady"
  <2>1. CASE \/ \E i \in Ids : ShowFailed(w, i)
             \/ \E rerun \in BOOLEAN : Post(w, rerun)
             \/ \E r \in Runs : Confirm(w, r)
    BY <2>1 DEF ShowFailed, Post, Confirm
  <2>2. CASE \/ SetCancelled(w) \/ SaveBoth(w) \/ Hide(w) \/ SaveHidden(w) \/ WebVersion(w)
             \/ WebCreate(w) \/ WebLink(w) \/ WebVariables(w)
    BY <2>2 DEF SetCancelled, SaveBoth, Hide, SaveHidden, WebVersion, WebCreate, WebLink,
       WebVariables
  <2>3. CASE SendCancel(w)
    <3>1. CancelOf(w).dest = "Pending"
      BY DEF CancelOf, NewMessage
    <3>2. UNCHANGED queue \/ Send(CancelOf(w))
      BY <2>3 DEF SendCancel, CancelOf, CancelledRow
    <3> QED
      BY <3>1, <3>2
  <2>4. CASE WebSend(w) \/ WebSendFails(w)
    <3>1. PICK m : m = NewMessage("Pending", web[w].copy.run, web[w].version)
      OBVIOUS
    <3>2. UNCHANGED queue \/ (Send(m) /\ m.dest # "DataReady")
      BY <2>4, <3>1 DEF WebSend, WebSendFails, NewMessage
    <3> QED
      BY <3>2
  <2> QED
    BY <2>1, <2>2, <2>3, <2>4, Zenon DEF Session
<1>3. UNCHANGED <<inbox, lis>>
  <2>1. CASE \/ \E i \in Ids : ShowFailed(w, i)
             \/ \E rerun \in BOOLEAN : Post(w, rerun)
             \/ \E r \in Runs : Confirm(w, r)
    BY <2>1 DEF ShowFailed, Post, Confirm
  <2>2. CASE SendCancel(w) \/ SetCancelled(w) \/ SaveBoth(w) \/ Hide(w) \/ SaveHidden(w)
    BY <2>2 DEF SendCancel, SetCancelled, SaveBoth, Hide, SaveHidden
  <2>3. CASE \/ WebVersion(w) \/ WebCreate(w) \/ WebLink(w) \/ WebVariables(w) \/ WebSend(w)
             \/ WebSendFails(w)
    BY <2>3 DEF WebVersion, WebCreate, WebLink, WebVariables, WebSend, WebSendFails
  <2> QED
    BY <2>1, <2>2, <2>3, Zenon DEF Session
<1> QED
  BY <1>1, <1>2, <1>3, ReadySpent, ReadyUnsent DEF ReadyStays, FilingNow

LEMMA NodeReady ==
  ASSUME TypeOK, Node
  PROVE  ReadyStays
<1>1. UNCHANGED budget \/ \E b \in {"posts", "retries", "faults"} : Spend(b)
  BY DEF Node, NodeCancel, NodeDrop, NodeStart, NodeReject, NodeTake, NodeReport, NodeDie
<1>2. UNCHANGED <<lis, inbox>>
  BY DEF Node, NodeCancel, NodeDrop, NodeStart, NodeReject, NodeTake, NodeReport, NodeDie
<1>3. queue'["DataReady"] = queue["DataReady"]
  <2>1. ASSUME NEW m, NodeCancel(m) \/ NodeDrop(m) \/ NodeStart(m) \/ NodeReject(m)
        PROVE  queue'["DataReady"] = queue["DataReady"]
    BY <2>1 DEF NodeCancel, NodeDrop, NodeStart, NodeReject, TypeOK, QueuesOK, Destination, Subscribed
  <2>2. ASSUME NEW j, NodeReport(j) PROVE \E m : Send(m) /\ m.dest # "DataReady"
    <3>1. \A d : [NewMessage(d, j.run, j.version) EXCEPT !.retryIn = TRUE].dest = d
      BY DEF NewMessage
    <3>2. \A d : NewMessage(d, j.run, j.version).dest = d
      BY DEF NewMessage
    <3>3. PICK d \in {"Complete", "Error", "Skipped"} :
            \/ Send(NewMessage(d, j.run, j.version))
            \/ Send([NewMessage(d, j.run, j.version) EXCEPT !.retryIn = TRUE])
      BY <2>2 DEF NodeReport
    <3> QED
      BY <3>1, <3>2, <3>3
  <2>3. ASSUME NEW j, NodeDie(j) PROVE UNCHANGED queue
    BY <2>3 DEF NodeDie
  <2> QED
    BY <2>1, <2>2, <2>3, ReadyUnsent DEF Node
<1> QED
  BY <1>1, <1>2, <1>3, ReadySpent DEF ReadyStays, FilingNow

LEMMA OthersReady ==
  ASSUME TypeOK, TogglePause \/ Kill \/ Restart \/ UNCHANGED vars
  PROVE  ReadyStays
<1>1. UNCHANGED budget \/ \E b \in {"posts", "retries", "faults"} : Spend(b)
  BY DEF TogglePause, Kill, Restart, vars
<1>2. UNCHANGED queue /\ inbox' \in {inbox, <<>>}
  BY DEF TogglePause, Kill, Restart, Die, vars
<1>3. FilingNow' => FilingNow
  BY DEF TogglePause, Kill, Restart, Die, Waiting, Stopped, FilingNow, vars
<1> QED
  BY <1>1, <1>2, <1>3, ReadySpent, ReadyUnsent DEF ReadyStays

LEMMA ReadyMoves ==
  ASSUME TypeOK, [Next]_vars
  PROVE  (\E r \in Runs : Submit(r)) \/ (\E d \in Subscribed : Dispatch(d)) \/ ReadyStays
BY ListenerReady, SessionReady, NodeReady, OthersReady, Zenon DEF Next

\* What has been taken off the inbox or dispatched to it.
LEMMA ReadyTaken ==
  ASSUME TypeOK, ReadyOnce, ReadyStays
  PROVE  ReadyOnce' /\ (Arriving' => Arriving)
<1>1. inbox \in Seq(Message) /\ budget.ready \in Nat
  BY DEF TypeOK, QueuesOK
<1>2. inbox' \in {inbox, <<>>} \/ (inbox # <<>> /\ inbox' = Tail(inbox))
  BY DEF ReadyStays
<1>3. ASSUME inbox # <<>>, inbox' = Tail(inbox)
      PROVE  /\ 1 \in DOMAIN inbox /\ Head(inbox) = inbox[1]
             /\ \A k \in DOMAIN inbox' : k + 1 \in DOMAIN inbox /\ inbox'[k] = inbox[k + 1] /\ k + 1 # 1
  BY <1>1, <1>3
<1>4. /\ ReadyInbox' => ReadyInbox
      /\ \A k, l \in DOMAIN inbox' : inbox'[k].dest = "DataReady" /\ inbox'[l].dest = "DataReady" => k = l
  <2>1. CASE inbox # <<>> /\ inbox' = Tail(inbox)
    <3>1. \A k \in DOMAIN inbox' : k \in Nat /\ k + 1 \in DOMAIN inbox /\ inbox'[k] = inbox[k + 1]
      BY <1>1, <1>3, <2>1
    <3>2. ReadyInbox' => ReadyInbox
      BY <3>1 DEF ReadyInbox
    <3>3. ASSUME NEW k \in DOMAIN inbox', NEW l \in DOMAIN inbox',
                 inbox'[k].dest = "DataReady", inbox'[l].dest = "DataReady"
          PROVE  k = l
      <4>1. k + 1 = l + 1
        BY <3>1, <3>3 DEF ReadyOnce
      <4> QED
        BY <3>1, <4>1
    <3> QED
      BY <3>2, <3>3
  <2>2. CASE inbox' = <<>>
    BY <2>2 DEF ReadyInbox
  <2>3. CASE inbox' = inbox
    BY <2>3 DEF ReadyInbox, ReadyOnce
  <2> QED
    BY <1>2, <2>1, <2>2, <2>3
<1>5. ASSUME FilingNow', ~FilingNow PROVE ReadyInbox /\ ~ReadyInbox'
  <2>1. inbox # <<>> /\ inbox' = Tail(inbox) /\ Head(inbox).dest = "DataReady"
    BY <1>5 DEF ReadyStays
  <2>2. 1 \in DOMAIN inbox /\ inbox[1].dest = "DataReady"
    BY <1>3, <2>1
  <2>3. \A k \in DOMAIN inbox' : inbox'[k].dest # "DataReady"
    BY <1>3, <2>1, <2>2 DEF ReadyOnce
  <2> QED
    BY <2>2, <2>3 DEF ReadyInbox
<1>6. ReadyQueued' = ReadyQueued /\ budget'.ready = budget.ready
  BY DEF ReadyStays, ReadyQueued
<1>7. ReadyOnce'
  BY <1>1, <1>4, <1>5, <1>6 DEF ReadyOnce, ReadyStays
<1> QED
  BY <1>4, <1>5, <1>6, <1>7 DEF Arriving

LEMMA SeqShorter ==
  ASSUME NEW q \in Seq(Message), q # <<>>
  PROVE  Len(q) \in Nat /\ Len(q) > 0 /\ Len(Tail(q)) = Len(q) - 1
<1>1. 1 \in DOMAIN q
  OBVIOUS
<1> QED
  BY <1>1

LEMMA ReadyDispatched ==
  ASSUME TypeOK, Addressed, ReadyOnce, NEW d \in Subscribed, Dispatch(d)
  PROVE  ReadyOnce' /\ (Arriving' => Arriving)
<1> DEFINE h == Head(queue[d])
<1>1. /\ "DataReady" \in Destination /\ d \in Destination
      /\ inbox \in Seq(Message) /\ queue[d] \in Seq(Message) /\ queue[d] # <<>>
      /\ queue["DataReady"] \in Seq(Message) /\ budget.ready \in Nat
  BY DEF Destination, Subscribed, TypeOK, QueuesOK, Dispatch
<1>2. h \in Message /\ h \in Elements(queue[d])
  BY <1>1, ElementsTail, FrameType
<1>3. h.dest = d
  BY <1>1, <1>2 DEF Addressed
<1>4. /\ inbox' = Append(inbox, h) /\ UNCHANGED <<lis, budget>>
      /\ queue'["DataReady"] = IF d = "DataReady" THEN Tail(queue["DataReady"]) ELSE queue["DataReady"]
  BY <1>1 DEF Dispatch, TypeOK, QueuesOK
<1> HIDE DEF h
<1>5. /\ DOMAIN inbox' = 1..(Len(inbox) + 1) /\ DOMAIN inbox = 1..Len(inbox) /\ Len(inbox) \in Nat
      /\ inbox'[Len(inbox) + 1] = h /\ \A k \in DOMAIN inbox : inbox'[k] = inbox[k]
  BY <1>1, <1>2, <1>4
<1>6. CASE d = "DataReady"
  <2>0. budget.ready \in Nat /\ Len(queue["DataReady"]) <= 1
    BY <1>1 DEF ReadyOnce
  <2>1. PICK n : n = Len(queue["DataReady"])
    OBVIOUS
  <2>2. ReadyQueued /\ n = 1 /\ Len(Tail(queue["DataReady"])) = 0
    <3>1. n \in Nat /\ n > 0 /\ n <= 1 /\ Len(Tail(queue["DataReady"])) = n - 1
      BY <1>1, <1>6, <2>0, <2>1, SeqShorter
    <3>2. n = 1
      BY <3>1
    <3> QED
      BY <2>1, <3>1, <3>2 DEF ReadyQueued
  <2>3. Len(queue'["DataReady"]) = 0
    BY <1>4, <1>6, <2>2
  <2>4. budget.ready = 0 /\ ~ReadyInbox /\ ~FilingNow
    BY <2>0, <2>2 DEF ReadyOnce
  <2>5. ~ReadyQueued' /\ budget'.ready = 0 /\ ~FilingNow'
    <3>1. UNCHANGED <<lis, budget>>
      BY <1>4
    <3> QED
      BY <2>3, <2>4, <3>1 DEF ReadyQueued, FilingNow
  <2>6. \A k \in DOMAIN inbox' : inbox'[k].dest = "DataReady" => k = Len(inbox) + 1
    BY <1>5, <2>4 DEF ReadyInbox
  <2> QED
    BY <2>2, <2>3, <2>5, <2>6 DEF ReadyOnce, Arriving
<1>7. CASE d # "DataReady"
  <2>1. \A k \in DOMAIN inbox' : inbox'[k].dest = "DataReady" => k \in DOMAIN inbox /\ inbox[k].dest = "DataReady"
    BY <1>3, <1>5, <1>7
  <2>2. ReadyInbox' => ReadyInbox
    BY <2>1 DEF ReadyInbox
  <2>3. ReadyQueued' = ReadyQueued /\ UNCHANGED <<lis, budget>> /\ queue'["DataReady"] = queue["DataReady"]
    BY <1>4, <1>7 DEF ReadyQueued
  <2> QED
    BY <2>1, <2>2, <2>3 DEF ReadyOnce, Arriving, FilingNow
<1> QED
  BY <1>6, <1>7

LEMMA ReadySubmitted ==
  ASSUME TypeOK, ReadyOnce, NEW r \in Runs, Submit(r)
  PROVE  ReadyOnce' /\ Arriving
<1>1. budget.ready \in Nat /\ budget.ready > 0 /\ budget'.ready = budget.ready - 1 /\ UNCHANGED <<inbox, lis>>
  BY DEF Submit, Spend, TypeOK, QueuesOK
<1>2. budget.ready = 1 /\ budget'.ready = 0 /\ ~ReadyQueued /\ ~ReadyInbox /\ ~FilingNow
  BY <1>1 DEF ReadyOnce
<1>3. PICK m : m = NewMessage("DataReady", r, 0)
  OBVIOUS
<1>4. m \in Message /\ m.dest = "DataReady" /\ Send(m)
  BY <1>3, NewMessageType DEF Destination, Subscribed, NewMessage, Submit
<1>5. queue["DataReady"] \in Seq(Message) /\ queue'["DataReady"] = Append(queue["DataReady"], m)
  BY <1>4 DEF Send, TypeOK, QueuesOK, Destination, Subscribed
<1>6. Len(queue'["DataReady"]) = 1
  BY <1>2, <1>4, <1>5 DEF ReadyQueued
<1>7. ~ReadyInbox' /\ ~FilingNow'
  BY <1>1, <1>2 DEF ReadyInbox, FilingNow
<1> QED
  BY <1>1, <1>2, <1>6, <1>7 DEF ReadyOnce, ReadyInbox, Arriving

LEMMA ReadyOnceStep ==
  ASSUME TypeOK, Addressed, ReadyOnce, [Next]_vars
  PROVE  ReadyOnce' /\ (Arriving' => Arriving)
BY ReadyMoves, ReadyTaken, ReadyDispatched, ReadySubmitted

LEMMA SessionIdles ==
  ASSUME NEW w \in Sessions, web[w] = NoPage, Session(w),
         \A i \in Ids : db[i].status = "q" /\ \A k \in Ids : k = i
  PROVE  FALSE
<1>1. web[w].pc = "idle"
  BY DEF NoPage
<1>2. ASSUME NEW i \in Ids, ShowFailed(w, i) PROVE FALSE
  BY <1>2 DEF ShowFailed
<1>3. ASSUME NEW r \in Runs, Confirm(w, r) PROVE FALSE
  BY <1>3 DEF Confirm, VersionsOf
<1>4. CASE \/ \E rerun \in BOOLEAN : Post(w, rerun)
           \/ SendCancel(w) \/ SetCancelled(w) \/ SaveBoth(w) \/ Hide(w) \/ SaveHidden(w)
  BY <1>1, <1>4 DEF Post, SendCancel, SetCancelled, SaveBoth, Hide, SaveHidden
<1>5. CASE \/ WebVersion(w) \/ WebCreate(w) \/ WebLink(w) \/ WebVariables(w) \/ WebSend(w)
           \/ WebSendFails(w)
  BY <1>1, <1>5 DEF WebVersion, WebCreate, WebLink, WebVariables, WebSend, WebSendFails
<1> QED
  BY <1>2, <1>3, <1>4, <1>5, Zenon DEF Session

LEMMA NothingFiledStep ==
  ASSUME TypeOK, Addressed, ReadyOnce, NothingFiled, [Next]_vars
  PROVE  NothingFiled'
<1> SUFFICES ASSUME Arriving' PROVE Blank'
  BY DEF NothingFiled
<1>0. Blank
  BY ReadyOnceStep DEF NothingFiled
<1>1. /\ Ids = {} /\ \A w \in Sessions : web[w] = NoPage
      /\ lis.pc \in {"wait", "stopped", "version", "script", "save"}
  BY <1>0 DEF Blank
<1>2. ASSUME UNCHANGED <<db, located, web>>,
             lis' = lis \/ lis'.pc \in {"wait", "stopped", "version", "script", "save"}
      PROVE  Blank'
  BY <1>0, <1>2 DEF Blank, Ids
<1>3. CASE Listener
  <2>1. ASSUME NEW m, DataReady(m) \/ RefuseReport(m) PROVE Blank'
    BY <1>2, <2>1 DEF DataReady, RefuseReport
  <2>2. ASSUME NEW m, FindRun(m) PROVE Blank'
    BY <1>1, <2>2 DEF FindRun, Matching
  <2>3. CASE ReadVersion \/ ScriptFound
    <3>1. lis \in Filing
      BY <2>3, ListenerByPc DEF ReadVersion, ScriptFound
    <3>2. lis'.pc \in {"script", "save"}
      BY <2>3, <3>1 DEF ReadVersion, ScriptFound, Filing
    <3> QED
      BY <1>2, <2>3, <3>2 DEF ReadVersion, ScriptFound
  <2>4. CASE ScriptMissing
    <3>1. Matching(lis.msg) = {}
      BY <1>1 DEF Matching
    <3> QED
      BY <1>2, <2>4, <3>1 DEF ScriptMissing, Return, Waiting
  <2>5. CASE SaveRun
    <3>1. FilingNow /\ lis'.pc = "locate" /\ UNCHANGED <<inbox, queue, budget>>
      BY <2>5 DEF SaveRun, FilingNow
    <3>2. ~FilingNow' /\ ReadyInbox' = ReadyInbox /\ ReadyQueued' = ReadyQueued
      BY <3>1 DEF FilingNow, ReadyInbox, ReadyQueued
    <3>3. ~Arriving'
      BY <3>1, <3>2 DEF Arriving, ReadyOnce
    <3> QED
      BY <3>3
  <2>6. CASE SaveDataLocation \/ CreateVariables \/ Forward \/ SaveReport
    BY <1>1, <2>6 DEF SaveDataLocation, CreateVariables, Forward, SaveReport
  <2>7. CASE RetryRun \/ SaveRetry \/ LinkRetry \/ RetryVariables \/ RetrySend
    BY <1>1, <2>7 DEF RetryRun, SaveRetry, LinkRetry, RetryVariables, RetrySend
  <2> QED
    BY <1>3, <2>1, <2>2, <2>3, <2>4, <2>5, <2>6, <2>7 DEF Listener
<1>4. CASE \E w \in Sessions : Session(w)
  BY <1>1, <1>4, SessionIdles
<1>5. CASE Node
  BY <1>2, <1>5 DEF Node, NodeCancel, NodeDrop, NodeStart, NodeReject, NodeTake, NodeReport, NodeDie
<1>6. CASE (\E r \in Runs : Submit(r)) \/ (\E d \in Subscribed : Dispatch(d))
  BY <1>2, <1>6 DEF Submit, Dispatch
<1>7. CASE TogglePause \/ Kill \/ Restart \/ UNCHANGED vars
  BY <1>2, <1>7 DEF TogglePause, Kill, Restart, Die, Waiting, Stopped, vars
<1> QED
  BY <1>3, <1>4, <1>5, <1>6, <1>7, Zenon DEF Next

(***************************************************************************)
(* What is filed as queued is the only row until it has been sent, and no  *)
(* session has anything to do with it; nothing has a location before it.   *)
(***************************************************************************)
FiledNow == lis.pc \in {"locate", "variables", "forward"}

FiledAlone ==
  FiledNow /\ ~lis.paused =>
    Ids = {lis.id} /\ db[lis.id].status = "q" /\ \A w \in Sessions : web[w] = NoPage

LocatedFirst == lis.pc = "locate" => located = {}

FirstInv == ReadyOnce /\ NothingFiled /\ FiledAlone /\ LocatedFirst

LEMMA FiledMoves ==
  ASSUME TypeOK, [Next]_vars, FiledNow'
  PROVE  \/ SaveRun
         \/ /\ SaveDataLocation \/ CreateVariables
            /\ lis'.id = lis.id /\ lis'.paused = lis.paused /\ lis'.pc # "locate"
         \/ UNCHANGED lis /\ ((\E w \in Sessions : Session(w)) \/ UNCHANGED <<db, located, web>>)
<1>1. CASE (\E r \in Runs : Submit(r)) \/ TogglePause \/ (\E d \in Subscribed : Dispatch(d))
  BY <1>1 DEF Submit, TogglePause, Dispatch
<1>2. CASE Kill \/ Restart
  BY <1>2 DEF Kill, Restart, Die, Stopped, Waiting, FiledNow
<1>3. CASE Node \/ UNCHANGED vars
  BY <1>3 DEF Node, NodeCancel, NodeDrop, NodeStart, NodeReject, NodeTake, NodeReport, NodeDie, vars
<1>4. ASSUME NEW w \in Sessions, Session(w) PROVE UNCHANGED lis
  <2>1. CASE \/ \E i \in Ids : ShowFailed(w, i)
             \/ \E rerun \in BOOLEAN : Post(w, rerun)
             \/ \E r \in Runs : Confirm(w, r)
    BY <2>1 DEF ShowFailed, Post, Confirm
  <2>2. CASE SendCancel(w) \/ SetCancelled(w) \/ SaveBoth(w) \/ Hide(w) \/ SaveHidden(w)
    BY <2>2 DEF SendCancel, SetCancelled, SaveBoth, Hide, SaveHidden
  <2>3. CASE \/ WebVersion(w) \/ WebCreate(w) \/ WebLink(w) \/ WebVariables(w) \/ WebSend(w)
             \/ WebSendFails(w)
    BY <2>3 DEF WebVersion, WebCreate, WebLink, WebVariables, WebSend, WebSendFails
  <2> QED
    BY <1>4, <2>1, <2>2, <2>3, Zenon DEF Session
<1>5. CASE Listener
  <2>1. ASSUME NEW m, DataReady(m) \/ FindRun(m) \/ RefuseReport(m) PROVE FALSE
    BY <2>1 DEF DataReady, FindRun, RefuseReport, Receive, Waiting, FiledNow
  <2>2. CASE ReadVersion \/ ScriptFound
    <3>1. lis \in Filing
      BY <2>2, ListenerByPc DEF ReadVersion, ScriptFound
    <3> QED
      BY <2>2, <3>1 DEF ReadVersion, ScriptFound, Filing, FiledNow
  <2>3. CASE ScriptMissing \/ Forward
    BY <2>3 DEF ScriptMissing, Forward, Return, Waiting, FiledNow
  <2>4. CASE SaveDataLocation \/ CreateVariables
    <3>1. lis \in Filed
      BY <2>4, ListenerByPc DEF SaveDataLocation, CreateVariables
    <3> QED
      BY <2>4, <3>1 DEF SaveDataLocation, CreateVariables, Filed, Die, Stopped, FiledNow
  <2>5. CASE SaveReport \/ RetryRun
    <3>1. lis \in Reporting
      BY <2>5, ListenerByPc DEF SaveReport, RetryRun
    <3>2. \/ lis' \in {Waiting, Stopped} \/ lis' = [lis EXCEPT !.pc = "retry"]
          \/ lis' = [lis EXCEPT !.pc = "retrySave", !.msg.version = NextVersion(lis.msg.run)]
      BY <2>5 DEF SaveReport, RetryRun, Return, Die
    <3>3. CASE lis' = [lis EXCEPT !.pc = "retrySave", !.msg.version = NextVersion(lis.msg.run)]
      BY <3>1, <3>3 DEF Reporting, FiledNow
    <3>4. CASE lis' = [lis EXCEPT !.pc = "retry"]
      BY <3>1, <3>4 DEF Reporting, FiledNow
    <3> QED
      BY <3>2, <3>3, <3>4 DEF Waiting, Stopped, FiledNow
  <2>6. CASE LinkRetry \/ RetryVariables
    <3>1. lis \in Retrying
      BY <2>6, ListenerByPc DEF LinkRetry, RetryVariables
    <3> QED
      BY <2>6, <3>1 DEF LinkRetry, RetryVariables, FiledNow, Retrying, Die, Stopped
  <2>7. CASE SaveRetry \/ RetrySend
    BY <2>7 DEF SaveRetry, RetrySend, FiledNow, Die, Stopped
  <2> QED
    BY <1>5, <2>1, <2>2, <2>3, <2>4, <2>5, <2>6, <2>7 DEF Listener
<1> QED
  BY <1>1, <1>2, <1>3, <1>4, <1>5 DEF Next

LEMMA FiledAloneStep ==
  ASSUME TypeOK, NothingFiled, FiledAlone, [Next]_vars
  PROVE  FiledAlone'
<1> SUFFICES ASSUME FiledNow', ~lis'.paused
             PROVE  Ids' = {lis'.id} /\ db'[lis'.id].status = "q" /\ \A w \in Sessions : web'[w] = NoPage
  BY DEF FiledAlone
<1>1. CASE SaveRun
  <2>1. Blank
    BY <1>1 DEF SaveRun, NothingFiled, Arriving, FilingNow
  <2>2. lis'.id = nextId /\ ~lis.paused /\ UNCHANGED web
    BY <1>1 DEF SaveRun
  <2>3. PICK row : row = NewRow(lis.msg.run, lis.msg.version, "q")
    OBVIOUS
  <2>4. row.status = "q" /\ db' = Saved(nextId, row)
    BY <1>1, <2>2, <2>3 DEF SaveRun, NewRow
  <2> QED
    BY <2>1, <2>2, <2>4, SavedRows DEF Blank
<1>2. ASSUME SaveDataLocation \/ CreateVariables, lis'.id = lis.id, lis'.paused = lis.paused
      PROVE  Ids' = {lis'.id} /\ db'[lis'.id].status = "q" /\ \A w \in Sessions : web'[w] = NoPage
  <2>1. FiledNow /\ ~lis.paused /\ UNCHANGED <<db, web>>
    BY <1>2 DEF SaveDataLocation, CreateVariables, FiledNow
  <2> QED
    BY <1>2, <2>1 DEF FiledAlone, Ids
<1>3. ASSUME UNCHANGED lis, (\E w \in Sessions : Session(w)) \/ UNCHANGED <<db, located, web>>
      PROVE  Ids' = {lis'.id} /\ db'[lis'.id].status = "q" /\ \A w \in Sessions : web'[w] = NoPage
  <2>1. Ids = {lis.id} /\ db[lis.id].status = "q" /\ \A w \in Sessions : web[w] = NoPage
    BY <1>3 DEF FiledAlone, FiledNow
  <2>2. UNCHANGED <<db, web>>
    BY <1>3, <2>1, SessionIdles
  <2> QED
    BY <1>3, <2>1, <2>2 DEF Ids
<1> QED
  BY <1>1, <1>2, <1>3, FiledMoves

LEMMA LocatedFirstStep ==
  ASSUME TypeOK, NothingFiled, LocatedFirst, [Next]_vars
  PROVE  LocatedFirst'
<1> SUFFICES ASSUME lis'.pc = "locate" PROVE located' = {}
  BY DEF LocatedFirst
<1>1. CASE SaveRun
  <2>1. Blank
    BY <1>1 DEF SaveRun, NothingFiled, Arriving, FilingNow
  <2> QED
    BY <1>1, <2>1 DEF SaveRun, Blank
<1>2. ASSUME UNCHANGED lis, NEW w \in Sessions, Session(w) PROVE located' = {}
  <2>1. located = {}
    BY <1>2 DEF LocatedFirst
  <2>2. CASE \/ \E i \in Ids : ShowFailed(w, i)
             \/ \E rerun \in BOOLEAN : Post(w, rerun)
             \/ \E r \in Runs : Confirm(w, r)
    BY <2>1, <2>2 DEF ShowFailed, Post, Confirm
  <2>3. CASE SendCancel(w) \/ SetCancelled(w) \/ SaveBoth(w) \/ Hide(w) \/ SaveHidden(w)
    BY <2>1, <2>3 DEF SendCancel, SetCancelled, SaveBoth, Hide, SaveHidden
  <2>4. CASE \/ WebVersion(w) \/ WebCreate(w) \/ WebLink(w) \/ WebVariables(w) \/ WebSend(w)
             \/ WebSendFails(w)
    BY <2>1, <2>4 DEF WebVersion, WebCreate, WebLink, WebVariables, WebSend, WebSendFails
  <2> QED
    BY <1>2, <2>2, <2>3, <2>4, Zenon DEF Session
<1>3. ASSUME UNCHANGED <<lis, located>> PROVE located' = {}
  BY <1>3 DEF LocatedFirst
<1> QED
  BY <1>1, <1>2, <1>3, FiledMoves DEF FiledNow

LEMMA FirstStep ==
  ASSUME TypeOK, Addressed, FirstInv, [Next]_vars
  PROVE  FirstInv'
BY ReadyOnceStep, NothingFiledStep, FiledAloneStep, LocatedFirstStep DEF FirstInv

(***************************************************************************)
(* One session beside the listener, until the first fault: a row is        *)
(* removed only where its run had no location when it was repeated, and    *)
(* nothing has been sent then.                                             *)
(***************************************************************************)
NamesRow(s) == s.pc \in {"hide", "cancel", "setCancelled", "saveBoth", "version", "create", "link"}

RunsNamed ==
  \A w \in Sessions :
    /\ NamesRow(web[w]) => web[w].id \in Ids
    /\ web[w].pc = "link" => web[w].id # web[w].new

LocatedOrHeld ==
  \A i \in Ids \ located :
    (lis.pc = "locate" /\ lis.id = i) \/ \E w \in Sessions : Holds(w) /\ web[w].new = i

Stray(w) == web[w].pc \in {"variables", "send"} /\ web[w].new \notin located
StrayUnsent == \A w \in Sessions : Stray(w) => AboutRuns = {} /\ lis.pc # "report"

ReportLinked == lis.pc = "report" => lis.id \in Ids /\ ~Dangling(lis.copy)

VersionFresh ==
  \A w \in Sessions : web[w].pc = "create" =>
    \A i \in Ids : db[i].run = web[w].copy.run => db[i].version < web[w].version

LoneInv == RunsNamed /\ LocatedOrHeld /\ StrayUnsent /\ ReportLinked /\ VersionFresh /\ UniqueVersions

\* How the table changes.
SameTable == Ids' = Ids
TableFiled == SaveRun /\ Ids = {} /\ Ids' = {nextId}
TableRepeated == \E w \in Sessions : WebCreate(w) /\ Ids' = Ids \cup {nextId}
TableRemoved == \E w \in Sessions : WebSendFails(w) /\ Stray(w) /\ Ids' = Ids \ {web[w].new}

LEMMA SavedKept ==
  ASSUME NEW i \in Ids, NEW row, db' = Saved(i, row)
  PROVE  SameTable
BY SavedRows DEF SameTable

LEMMA ListenerTable ==
  ASSUME IInv, NothingFiled, NoRetryAsked, ReportLinked, ~Spend("faults"), Listener
  PROVE  (SameTable \/ TableFiled) /\ located \subseteq located'
<1>1. UNCHANGED db => SameTable
  BY DEF SameTable, Ids
<1>2. CASE (\E m : DataReady(m) \/ FindRun(m) \/ RefuseReport(m)) \/ ReadVersion \/ ScriptFound
  BY <1>1, <1>2 DEF DataReady, FindRun, RefuseReport, ReadVersion, ScriptFound
<1>3. CASE ScriptMissing
  BY <1>3 DEF ScriptMissing
<1>4. CASE SaveRun
  <2>1. Blank
    BY <1>4 DEF SaveRun, NothingFiled, Arriving, FilingNow
  <2>2. PICK row : db' = Saved(nextId, row)
    BY <1>4 DEF SaveRun
  <2>3. Ids = {} /\ Ids' = {nextId}
    BY <2>1, <2>2, SavedRows DEF Blank
  <2> QED
    BY <1>4, <2>3 DEF TableFiled, SaveRun
<1>5. CASE SaveDataLocation \/ CreateVariables \/ Forward
  BY <1>1, <1>5 DEF SaveDataLocation, CreateVariables, Forward
<1>6. CASE SaveReport
  <2>1. lis.id \in Ids /\ db' = Saved(lis.id, lis.copy)
    BY <1>6 DEF SaveReport, ReportLinked
  <2> QED
    BY <1>6, <2>1, SavedKept DEF SaveReport
<1>7. CASE RetryRun \/ SaveRetry \/ LinkRetry \/ RetryVariables \/ RetrySend
  BY <1>7 DEF NoRetryAsked, ListenerHolds, RetryRun, SaveRetry, LinkRetry, RetryVariables, RetrySend
<1> QED
  BY <1>2, <1>3, <1>4, <1>5, <1>6, <1>7 DEF Listener

LEMMA SessionTable ==
  ASSUME IInv, RunsNamed, ~Spend("faults"), NEW w \in Sessions, Careful(web[w]), Session(w)
  PROVE  (SameTable \/ TableRepeated \/ TableRemoved) /\ located \subseteq located'
<1>0. TypeOK
  BY DEF IInv
<1>1. UNCHANGED db => SameTable
  BY DEF SameTable, Ids
<1>2. CASE \/ \E i \in Ids : ShowFailed(w, i)
           \/ \E rerun \in BOOLEAN : Post(w, rerun)
           \/ \E r \in Runs : Confirm(w, r)
  BY <1>1, <1>2 DEF ShowFailed, Post, Confirm
<1>3. CASE SendCancel(w) \/ Hide(w) \/ WebVersion(w) \/ WebVariables(w) \/ WebSend(w)
  BY <1>1, <1>3 DEF SendCancel, Hide, WebVersion, WebVariables, WebSend
<1>4. CASE SetCancelled(w)
  <2>1. web[w].target \in Ids
    BY <1>4 DEF SetCancelled, Careful
  <2>2. UNCHANGED db \/ \E row : db' = Saved(web[w].target, row)
    BY <1>4 DEF SetCancelled
  <2> QED
    BY <1>1, <1>4, <2>1, <2>2, SavedKept DEF SetCancelled
<1>5. CASE SaveBoth(w)
  <2>1. web[w].id \in Ids
    BY <1>5 DEF SaveBoth, RunsNamed, NamesRow
  <2>2. PICK one : one = Saved(web[w].id, web[w].copy)
    OBVIOUS
  <2>3. DOMAIN one = Ids
    BY <2>1, <2>2 DEF Saved
  <2>4. UNCHANGED db \/ db' = one \/ \E r, row : db' = [one EXCEPT ![r] = row]
    BY <1>5, <2>2 DEF SaveBoth
  <2>5. SameTable
    BY <1>1, <2>3, <2>4 DEF SameTable, Ids
  <2> QED
    BY <1>5, <2>5 DEF SaveBoth
<1>6. CASE SaveHidden(w)
  <2>1. web[w].id \in Ids
    BY <1>6 DEF SaveHidden, RunsNamed, NamesRow
  <2>2. UNCHANGED db \/ db' = Saved(web[w].id, web[w].copy)
    BY <1>6 DEF SaveHidden
  <2> QED
    BY <1>1, <1>6, <2>1, <2>2, SavedKept DEF SaveHidden
<1>7. CASE WebCreate(w)
  <2>1. PICK row : db' = Saved(nextId, row)
    BY <1>7 DEF WebCreate
  <2>2. Ids' = Ids \cup {nextId}
    BY <2>1, SavedRows
  <2> QED
    BY <1>7, <2>2 DEF WebCreate, TableRepeated
<1>8. CASE WebLink(w)
  <2>1. web[w].id \in Ids /\ db' = Saved(web[w].id, web[w].copy)
    BY <1>8 DEF WebLink, RunsNamed, NamesRow
  <2> QED
    BY <1>8, <2>1, SavedKept DEF WebLink
<1>9. CASE WebSendFails(w)
  <2>1. Stray(w) /\ db' = Removed(web[w].new) /\ located' = located \ {web[w].new}
    BY <1>9 DEF WebSendFails, Stray
  <2>2. Ids' = Ids \ {web[w].new} /\ located \subseteq located'
    BY <1>0, <2>1, RemovedRows DEF Stray
  <2> QED
    BY <1>9, <2>1, <2>2 DEF TableRemoved
<1> QED
  BY <1>2, <1>3, <1>4, <1>5, <1>6, <1>7, <1>8, <1>9, Zenon DEF Session

LEMMA TableMoves ==
  ASSUME IInv, NothingFiled, HeldInv, RunsNamed, ReportLinked, ~Spend("faults"), [Next]_vars
  PROVE  /\ SameTable \/ TableFiled \/ TableRepeated \/ TableRemoved
         /\ located \subseteq located'
<1>1. UNCHANGED db => SameTable
  BY DEF SameTable, Ids
<1>2. CASE (\E r \in Runs : Submit(r)) \/ TogglePause \/ (\E d \in Subscribed : Dispatch(d))
  BY <1>1, <1>2 DEF Submit, TogglePause, Dispatch
<1>3. CASE Kill \/ Restart \/ Node \/ UNCHANGED vars
  BY <1>1, <1>3 DEF Kill, Restart, Node, NodeCancel, NodeDrop, NodeStart, NodeReject, NodeTake,
     NodeReport, NodeDie, vars
<1>4. CASE Listener
  BY <1>4, ListenerTable DEF HeldInv
<1>5. ASSUME NEW w \in Sessions, Session(w)
      PROVE  /\ SameTable \/ TableFiled \/ TableRepeated \/ TableRemoved
             /\ located \subseteq located'
  BY <1>5, SessionTable DEF HeldInv, AllCareful
<1> QED
  BY <1>2, <1>3, <1>4, <1>5 DEF Next

\* The run a session names, after each of its steps, is one it has just read, or the one before.
LEMMA SessionNamed ==
  ASSUME IInv, NEW w \in Sessions, Session(w), NamesRow(web'[w])
  PROVE  /\ (UNCHANGED db /\ web'[w].id \in Ids) \/ (NamesRow(web[w]) /\ web'[w].id = web[w].id)
         /\ web'[w].pc = "link" => WebCreate(w) /\ web'[w].new = nextId /\ web'[w].id = web[w].id
<1> DEFINE Goal ==
      /\ (UNCHANGED db /\ web'[w].id \in Ids) \/ (NamesRow(web[w]) /\ web'[w].id = web[w].id)
      /\ web'[w].pc = "link" => WebCreate(w) /\ web'[w].new = nextId /\ web'[w].id = web[w].id
<1>0. TypeOK /\ TableOK /\ web \in [Sessions -> SessionState]
  BY DEF IInv, TypeOK
<1>1. ASSUME NEW s, Step(w, s) PROVE web'[w] = s
  BY <1>0, <1>1 DEF Step
<1>2. ~End(w)
  BY <1>1 DEF End, NoPage, NamesRow
<1>3. ASSUME NEW i \in Ids, ShowFailed(w, i) PROVE Goal
  BY <1>1, <1>3 DEF ShowFailed, NamesRow
<1>4. ASSUME NEW rerun \in BOOLEAN, Post(w, rerun) PROVE Goal
  <2>1. Chosen(w) \in Ids /\ UNCHANGED db
    BY <1>2, <1>4 DEF Post
  <2>2. web'[w].id = Chosen(w) /\ web'[w].pc \in {"saveBoth", "cancel"}
    BY <1>1, <1>4, <2>1 DEF Post
  <2> QED
    BY <2>1, <2>2
<1>5. ASSUME SendCancel(w) PROVE Goal
  <2>1. web[w] \in Cancelling /\ web[w].pc = "cancel"
    BY <1>0, <1>5, SessionByPc DEF SendCancel
  <2>2. web'[w] = [web[w] EXCEPT !.pc = "setCancelled"]
    BY <1>1, <1>2, <1>5 DEF SendCancel
  <2> QED
    BY <2>1, <2>2 DEF Cancelling, NamesRow
<1>6. ASSUME SetCancelled(w) PROVE Goal
  <2>1. web[w] \in Cancelling /\ web[w].pc = "setCancelled"
    BY <1>0, <1>6, SessionByPc DEF SetCancelled
  <2>2. \E c, r : web'[w] = [web[w] EXCEPT !.pc = "saveBoth", !.copy = c, !.retry = r]
    BY <1>1, <1>2, <1>6 DEF SetCancelled
  <2> QED
    BY <2>1, <2>2 DEF Cancelling, NamesRow
<1>7. ASSUME SaveBoth(w) PROVE Goal
  <2>1. \E c : web'[w] = [pc |-> "version", id |-> web[w].id, copy |-> c]
    BY <1>1, <1>2, <1>7 DEF SaveBoth
  <2> QED
    BY <1>7, <2>1 DEF SaveBoth, NamesRow
<1>8. ASSUME Hide(w) PROVE Goal
  <2>1. Chosen(w) \in Ids /\ UNCHANGED db
    BY <1>2, <1>8 DEF Hide
  <2>2. web'[w] = [pc |-> "hide", id |-> Chosen(w), copy |-> db[Chosen(w)]]
    BY <1>1, <1>8, <2>1 DEF Hide
  <2> QED
    BY <2>1, <2>2
<1>9. ASSUME SaveHidden(w) \/ WebSend(w) \/ WebSendFails(w) PROVE Goal
  BY <1>2, <1>9 DEF SaveHidden, WebSend, WebSendFails
<1>10. ASSUME NEW r \in Runs, Confirm(w, r) PROVE Goal
  <2> DEFINE S == {j \in VersionsOf(r) : db[j].version = NextVersion(r) - 1}
             i == LeastId(S)
  <2>1. VersionsOf(r) # {}
    BY <1>10 DEF Confirm
  <2>2. S # {}
    <3>1. nextId \in Nat /\ \A j \in Ids : db[j].version < nextId
      BY <1>0 DEF TableOK, IInv, VersionsBounded
    <3> QED
      BY <1>0, <2>1, <3>1, LatestExists
  <2>3. S \in SUBSET Nat
    BY <1>0, RowIdsAssumption DEF VersionsOf, TableOK
  <2>4. i \in Ids
    BY <2>2, <2>3, LeastIdLeast DEF VersionsOf
  <2>5. web'[w] = [pc |-> "version", id |-> i, copy |-> db[i]] /\ UNCHANGED db
    BY <1>1, <1>10 DEF Confirm
  <2> HIDE DEF i
  <2> QED
    BY <2>4, <2>5
<1>11. ASSUME WebVersion(w) PROVE Goal
  <2>1. web[w].pc = "version" /\ web'[w].pc = "create" /\ web'[w].id = web[w].id
    BY <1>1, <1>11 DEF WebVersion
  <2> QED
    BY <2>1 DEF NamesRow
<1>12. ASSUME WebCreate(w) PROVE Goal
  <2>1. web[w].pc = "create" /\ web'[w].id = web[w].id /\ web'[w].new = nextId
    BY <1>1, <1>12 DEF WebCreate
  <2> QED
    BY <1>12, <2>1 DEF NamesRow
<1>13. ASSUME WebLink(w) \/ WebVariables(w) PROVE Goal
  <2>1. web[w] \in Sending
    BY <1>0, <1>13, SessionByPc DEF WebLink, WebVariables
  <2>2. web'[w] \in {[web[w] EXCEPT !.pc = "variables"], [web[w] EXCEPT !.pc = "send"]}
    BY <1>1, <1>2, <1>13 DEF WebLink, WebVariables
  <2> QED
    BY <2>1, <2>2 DEF Sending, NamesRow
<1> HIDE DEF Goal
<1>14. Goal
  BY <1>3, <1>4, <1>5, <1>6, <1>7, <1>8, <1>9, <1>10, <1>11, <1>12, <1>13 DEF Session
<1> QED
  BY <1>14 DEF Goal

LEMMA RunsNamedStep ==
  ASSUME IInv, NothingFiled, HeldInv, RunsNamed, ReportLinked, OneSession, ~Spend("faults"), [Next]_vars
  PROVE  RunsNamed'
<1>1. SameTable \/ TableFiled \/ TableRepeated \/ TableRemoved
  BY TableMoves
<1>2. ASSUME NEW w \in Sessions, web'[w] = web[w], NamesRow(web[w])
      PROVE  web[w].id \in Ids'
  <2>1. web[w].id \in Ids
    BY <1>2 DEF RunsNamed
  <2>2. ASSUME NEW v \in Sessions, WebSendFails(v) PROVE FALSE
    <3>1. v = w /\ web[w].pc = "send"
      BY <2>2 DEF OneSession, WebSendFails
    <3> QED
      BY <1>2, <3>1 DEF NamesRow
  <2> QED
    BY <1>1, <2>1, <2>2 DEF SameTable, TableFiled, TableRepeated, TableRemoved
<1>3. ASSUME NEW w \in Sessions, Session(w), NamesRow(web'[w])
      PROVE  web'[w].id \in Ids'
  <2>1. CASE UNCHANGED db /\ web'[w].id \in Ids
    BY <2>1 DEF Ids
  <2>2. CASE NamesRow(web[w]) /\ web'[w].id = web[w].id
    <3>1. web[w].id \in Ids
      BY <2>2 DEF RunsNamed
    <3>2. ASSUME NEW v \in Sessions, WebSendFails(v) PROVE FALSE
      <4>1. v = w /\ web[w].pc = "send"
        BY <3>2 DEF OneSession, WebSendFails
      <4> QED
        BY <2>2, <4>1 DEF NamesRow
    <3> QED
      BY <1>1, <2>2, <3>1, <3>2 DEF SameTable, TableFiled, TableRepeated, TableRemoved
  <2> QED
    BY <1>3, <2>1, <2>2, SessionNamed
<1>4. ASSUME NEW w \in Sessions, Session(w), web'[w].pc = "link" PROVE web'[w].id # web'[w].new
  <2>1. WebCreate(w) /\ web'[w].new = nextId /\ web'[w].id = web[w].id
    BY <1>4, SessionNamed DEF NamesRow
  <2>2. web[w].id \in Ids
    BY <2>1 DEF WebCreate, RunsNamed, NamesRow
  <2>3. nextId \notin Ids
    BY RowIdsAssumption DEF IInv, TypeOK, TableOK, NewRowsKept, RowsLinked
  <2> QED
    BY <2>1, <2>2, <2>3
<1> QED
  BY <1>2, <1>3, <1>4, SessionMoves DEF RunsNamed

\* What a session has made it holds until it has sent it or taken it back.
LEMMA HoldsOn ==
  ASSUME TypeOK, NEW w \in Sessions, Holds(w), Session(w), ~Spend("faults")
  PROVE  \/ WebSend(w) /\ web[w].new \in located
         \/ WebSendFails(w) /\ Stray(w)
         \/ Holds(w)' /\ web'[w].new = web[w].new /\ (WebLink(w) \/ WebVariables(w))
<1>1. CASE WebSend(w)
  BY <1>1 DEF WebSend
<1>2. CASE WebSendFails(w)
  BY <1>2 DEF WebSendFails, Stray
<1>3. CASE WebLink(w) \/ WebVariables(w)
  <2>1. web[w] \in Sending
    BY SessionByPc DEF Holds
  <2>2. \/ Step(w, [web[w] EXCEPT !.pc = "variables"])
        \/ Step(w, [web[w] EXCEPT !.pc = "send"])
    BY <1>3 DEF WebLink, WebVariables
  <2>3. web'[w] \in {[web[w] EXCEPT !.pc = "variables"], [web[w] EXCEPT !.pc = "send"]}
    BY <2>2 DEF Step, TypeOK
  <2>4. Holds(w)' /\ web'[w].new = web[w].new
    BY <2>1, <2>3 DEF Sending, Holds
  <2> QED
    BY <1>3, <2>4
<1>4. ASSUME \/ \E i \in Ids : ShowFailed(w, i)
             \/ \E rerun \in BOOLEAN : Post(w, rerun)
             \/ \E r \in Runs : Confirm(w, r)
      PROVE  FALSE
  BY <1>4 DEF ShowFailed, Post, Confirm, Holds
<1>5. ASSUME \/ SendCancel(w) \/ SetCancelled(w) \/ SaveBoth(w) \/ Hide(w) \/ SaveHidden(w)
             \/ WebVersion(w) \/ WebCreate(w)
      PROVE  FALSE
  BY <1>5 DEF SendCancel, SetCancelled, SaveBoth, Hide, SaveHidden, WebVersion, WebCreate, Holds
<1> QED
  BY <1>1, <1>2, <1>3, <1>4, <1>5, Zenon DEF Session

\* A row without a location, or the one who will give it one, is left as it is.
LEMMA LocateStays ==
  ASSUME IInv, HeldInv, ~Spend("faults"), [Next]_vars, lis.pc = "locate"
  PROVE  UNCHANGED lis \/ SaveDataLocation
<1>1. CASE Listener
  <2>1. ASSUME NEW m, DataReady(m) \/ FindRun(m) \/ RefuseReport(m) PROVE FALSE
    BY <2>1 DEF DataReady, FindRun, RefuseReport, Receive, Waiting
  <2>2. ASSUME ReadVersion \/ ScriptFound \/ ScriptMissing \/ SaveRun \/ CreateVariables \/ Forward PROVE FALSE
    BY <2>2 DEF ReadVersion, ScriptFound, ScriptMissing, SaveRun, CreateVariables, Forward
  <2>3. ASSUME SaveReport \/ RetryRun \/ SaveRetry \/ LinkRetry \/ RetryVariables \/ RetrySend PROVE FALSE
    BY <2>3 DEF SaveReport, RetryRun, SaveRetry, LinkRetry, RetryVariables, RetrySend
  <2> QED
    BY <1>1, <2>1, <2>2, <2>3 DEF Listener
<1>2. CASE (\E r \in Runs : Submit(r)) \/ TogglePause \/ (\E d \in Subscribed : Dispatch(d))
  BY <1>2 DEF Submit, TogglePause, Dispatch
<1>3. CASE Kill \/ Restart
  BY <1>3 DEF Kill, Restart, Stopped
<1>4. CASE Node \/ UNCHANGED vars
  BY <1>4 DEF Node, NodeCancel, NodeDrop, NodeStart, NodeReject, NodeTake, NodeReport, NodeDie, vars
<1>5. CASE \E w \in Sessions : Session(w)
  BY <1>5, SessionKeeps
<1> QED
  BY <1>1, <1>2, <1>3, <1>4, <1>5 DEF Next

LEMMA LocatedOrHeldStep ==
  ASSUME IInv, NothingFiled, HeldInv, RunsNamed, ReportLinked, LocatedOrHeld, OneSession,
         ~Spend("faults"), [Next]_vars
  PROVE  LocatedOrHeld'
<1> SUFFICES ASSUME NEW i \in Ids', i \notin located'
             PROVE  \/ lis'.pc = "locate" /\ lis'.id = i
                    \/ \E w \in Sessions : Holds(w)' /\ web'[w].new = i
  BY DEF LocatedOrHeld
<1>1. /\ SameTable \/ TableFiled \/ TableRepeated \/ TableRemoved
      /\ i \notin located
  BY TableMoves
<1>2. CASE i \notin Ids
  <2>1. CASE TableFiled
    BY <1>2, <2>1 DEF TableFiled, SaveRun
  <2>2. ASSUME NEW w \in Sessions, WebCreate(w), Ids' = Ids \cup {nextId}
        PROVE  Holds(w)' /\ web'[w].new = i
    <3>1. web \in [Sessions -> SessionState] /\ i = nextId
      BY <1>2, <2>2 DEF IInv, TypeOK
    <3> QED
      BY <2>2, <3>1 DEF WebCreate, Step, Holds
  <2> QED
    BY <1>1, <1>2, <2>1, <2>2 DEF SameTable, TableRepeated, TableRemoved
<1>3. CASE i \in Ids /\ lis.pc = "locate" /\ lis.id = i
  <2>1. ~SaveDataLocation
    BY <1>3 DEF SaveDataLocation
  <2> QED
    BY <1>3, <2>1, LocateStays
<1>4. ASSUME i \in Ids, NEW w \in Sessions, Holds(w), web[w].new = i
      PROVE  Holds(w)' /\ web'[w].new = i
  <2>1. CASE UNCHANGED web
    BY <1>4, <2>1 DEF Holds
  <2>2. CASE Session(w)
    <3>1. ~WebSendFails(w) \/ ~Stray(w)
      <4>1. ASSUME WebSendFails(w) PROVE Ids' = Ids \ {web[w].new}
        BY <4>1, RemovedRows DEF WebSendFails, IInv
      <4> QED
        BY <1>4, <4>1
    <3> QED
      BY <1>1, <1>4, <2>2, <3>1, HoldsOn DEF IInv
  <2> QED
    BY <2>1, <2>2, SessionMoves
<1> QED
  BY <1>1, <1>2, <1>3, <1>4 DEF LocatedOrHeld

\* A job or a message about it is what makes the listener save a report.
LEMMA ReportedSent ==
  ASSUME TypeOK, AllPlain, NEW m, FindRun(m)
  PROVE  Job(m) \in AboutRuns
<1>1. PICK d \in Subscribed \ {"DataReady"} : Receive(d, m)
  BY DEF FindRun
<1>2. m.dest = d /\ m \in InTransit
  BY <1>1, ReceiveQuiet DEF Receive
<1>3. m.dest \notin {"DataReady", "Pending"}
  BY <1>1, <1>2 DEF Subscribed
<1>4. ~m.cancel
  BY <1>2, <1>3 DEF AllPlain, Plain
<1> QED
  BY <1>2, <1>3, <1>4 DEF AboutRuns

LEMMA SessionMakes ==
  ASSUME TypeOK, NEW w \in Sessions, ~Holds(w), Session(w), Holds(w)'
  PROVE  WebCreate(w)
<1>1. ASSUME NEW s, Step(w, s) PROVE web'[w] = s
  BY <1>1 DEF Step, TypeOK
<1>2. ~End(w)
  BY <1>1 DEF End, NoPage, Holds
<1>3. ASSUME \/ \E i \in Ids : ShowFailed(w, i)
             \/ \E rerun \in BOOLEAN : Post(w, rerun)
             \/ \E r \in Runs : Confirm(w, r)
      PROVE  FALSE
  <2>1. ASSUME NEW i \in Ids, ShowFailed(w, i) PROVE web'[w].pc = "page"
    BY <1>1, <2>1 DEF ShowFailed
  <2>2. ASSUME NEW rerun \in BOOLEAN, Post(w, rerun) PROVE web'[w].pc \in {"saveBoth", "cancel"}
    <3>1. Chosen(w) \in Ids
      BY <1>2, <2>2 DEF Post
    <3> QED
      BY <1>1, <2>2, <3>1 DEF Post
  <2>3. ASSUME NEW r \in Runs, Confirm(w, r) PROVE web'[w].pc = "version"
    BY <1>1, <2>3 DEF Confirm
  <2> QED
    BY <1>3, <2>1, <2>2, <2>3 DEF Holds
<1>4. ASSUME SendCancel(w) \/ SetCancelled(w) PROVE FALSE
  <2>1. web[w] \in Cancelling
    BY <1>4, SessionByPc DEF SendCancel, SetCancelled
  <2>2. \/ web'[w] = [web[w] EXCEPT !.pc = "setCancelled"]
        \/ \E c, r : web'[w] = [web[w] EXCEPT !.pc = "saveBoth", !.copy = c, !.retry = r]
    BY <1>1, <1>2, <1>4 DEF SendCancel, SetCancelled
  <2> QED
    BY <2>1, <2>2 DEF Cancelling, Holds
<1>5. ASSUME SaveBoth(w) \/ Hide(w) \/ SaveHidden(w) \/ WebVersion(w) PROVE FALSE
  <2>1. \E s : Step(w, s) /\ s.pc \in {"version", "hide", "create"}
    BY <1>2, <1>5 DEF SaveBoth, Hide, SaveHidden, WebVersion
  <2> QED
    BY <1>1, <2>1 DEF Holds
<1>6. ASSUME WebLink(w) \/ WebVariables(w) \/ WebSend(w) \/ WebSendFails(w) PROVE FALSE
  BY <1>6 DEF WebLink, WebVariables, WebSend, WebSendFails, Holds
<1> QED
  BY <1>3, <1>4, <1>5, <1>6, Zenon DEF Session

LEMMA StrayUnsentStep ==
  ASSUME Calibration = {}, OneSession, IInv, SentInv, FirstInv, HeldInv, RunsNamed, LocatedOrHeld,
         StrayUnsent, ReportLinked, withdrawn = {}, ~Spend("faults"), [Next]_vars
  PROVE  StrayUnsent'
<1> SUFFICES ASSUME NEW w \in Sessions, web'[w].pc \in {"variables", "send"}, web'[w].new \notin located'
             PROVE  AboutRuns' = {} /\ lis'.pc # "report"
  BY DEF StrayUnsent, Stray
<1>0. TypeOK /\ Addressed /\ AllPlain
  BY DEF IInv, SentInv, HeldInv, NoRetryAsked
<1>1. located \subseteq located'
  BY TableMoves DEF FirstInv
<1>2. CASE Stray(w)
  <2>1. AboutRuns = {} /\ lis.pc # "report"
    BY <1>2 DEF StrayUnsent
  <2>2. lis'.pc # "report"
    BY <1>0, <2>1, ReportFound, ReportedSent DEF HeldInv
  <2>3. ASSUME Forward PROVE SendsNothing
    <3>1. FiledNow /\ web[w] # NoPage
      BY <1>2, <2>3 DEF Forward, FiledNow, Stray, NoPage
    <3>2. lis.paused
      BY <3>1 DEF FirstInv, FiledAlone
    <3>3. UNCHANGED <<queue, inbox, node>>
      BY <2>3, <3>2 DEF Forward
    <3> QED
      BY <3>3, QuietStep
  <2>4. ASSUME NEW v \in Sessions, WebSend(v) PROVE FALSE
    <3>1. v = w
      BY DEF OneSession
    <3> QED
      BY <1>2, <2>4, <3>1 DEF WebSend, Stray
  <2>5. SendsNothing
    BY <1>0, <2>3, <2>4, NextSends DEF Withdraws
  <2> QED
    BY <2>1, <2>2, <2>5 DEF SendsNothing
<1>3. CASE ~Stray(w)
  <2>1. Session(w)
    BY <1>1, <1>3, SessionMoves DEF Stray
  <2>2. WebLink(w) /\ web'[w].new = web[w].new
    <3>1. ASSUME Holds(w) PROVE WebLink(w) /\ web'[w].new = web[w].new
      <4>1. ASSUME WebSend(w) \/ WebSendFails(w) PROVE FALSE
        <5>1. web'[w] = NoPage
          BY <1>0, <4>1 DEF WebSend, WebSendFails, End, Step, TypeOK
        <5> QED
          BY <5>1 DEF NoPage
      <4>2. ASSUME WebVariables(w), web'[w].new = web[w].new PROVE FALSE
        BY <1>1, <1>3, <4>2 DEF WebVariables, Stray
      <4> QED
        BY <1>0, <2>1, <3>1, <4>1, <4>2, HoldsOn
    <3>2. ASSUME ~Holds(w) PROVE FALSE
      <4>1. WebCreate(w)
        BY <1>0, <2>1, <3>2, SessionMakes DEF Holds
      <4> QED
        BY <1>0, <4>1 DEF WebCreate, Step, TypeOK
    <3> QED
      BY <3>1, <3>2
  <2>3. web[w].id \in Ids /\ web[w].id # web[w].new
    BY <2>2 DEF WebLink, RunsNamed, NamesRow
  <2>4. web[w].id \notin located
    BY <2>2 DEF WebLink
  <2>5. lis.pc = "locate"
    <3>1. \A v \in Sessions : v = w
      BY DEF OneSession
    <3> QED
      BY <2>3, <2>4, <3>1 DEF LocatedOrHeld
  <2>6. AboutRuns = {}
    BY <2>5 DEF FirstInv, LocatedFirst, SentInv, JobsKept, Reducible
  <2>7. UNCHANGED <<queue, inbox, node, lis>>
    BY <2>2 DEF WebLink
  <2>8. SendsNothing
    BY <2>7, QuietStep
  <2> QED
    BY <2>5, <2>6, <2>7, <2>8 DEF SendsNothing
<1> QED
  BY <1>2, <1>3

LEMMA ReportLinkedStep ==
  ASSUME IInv, NothingFiled, HeldInv, RunsNamed, StrayUnsent, ReportLinked, ~Spend("faults"), [Next]_vars
  PROVE  ReportLinked'
<1> SUFFICES ASSUME lis'.pc = "report" PROVE lis'.id \in Ids' /\ ~Dangling(lis.copy)'
  BY DEF ReportLinked
<1>1. CASE UNCHANGED lis
  <2>1. lis.pc = "report" /\ lis.id \in Ids /\ ~Dangling(lis.copy)
    BY <1>1 DEF ReportLinked
  <2>2. ~TableRemoved
    BY <2>1 DEF TableRemoved, StrayUnsent
  <2>3. Ids \subseteq Ids'
    BY <2>2, TableMoves DEF SameTable, TableFiled, TableRepeated
  <2> QED
    BY <1>1, <2>1, <2>3 DEF Dangling
<1>2. ASSUME NEW m, FindRun(m) PROVE lis'.id \in Ids' /\ ~Dangling(lis.copy)'
  <2> DEFINE i == LeastId(Matching(m))
  <2>1. i \in Ids /\ db[i] \in Row
    BY <1>2, MatchingLeast DEF FindRun, IInv, TypeOK, TableOK
  <2>2. lis'.copy = [db[i] EXCEPT !.status = Reported(m.dest)] /\ lis'.id = i /\ UNCHANGED db
    BY <1>2 DEF FindRun
  <2> HIDE DEF i
  <2>3. lis'.copy.retry = db[i].retry
    BY <2>1, <2>2 DEF Row
  <2>4. ~Dangling(db[i])
    BY <2>1 DEF IInv, NewRowsKept, RowsLinked
  <2> QED
    BY <2>1, <2>2, <2>3, <2>4 DEF Dangling, Ids
<1> QED
  BY <1>1, <1>2, ReportFound DEF HeldInv

LEMMA SessionReads ==
  ASSUME TypeOK, NEW w \in Sessions, Session(w), web'[w] # web[w], web'[w].pc = "create"
  PROVE  WebVersion(w)
<1>1. ASSUME NEW s, Step(w, s) PROVE web'[w] = s
  BY <1>1 DEF Step, TypeOK
<1>2. ~End(w)
  BY <1>1 DEF End, NoPage
<1>3. ASSUME \/ \E i \in Ids : ShowFailed(w, i)
             \/ \E rerun \in BOOLEAN : Post(w, rerun)
             \/ \E r \in Runs : Confirm(w, r)
      PROVE  FALSE
  <2>1. ASSUME NEW i \in Ids, ShowFailed(w, i) PROVE web'[w].pc = "page"
    BY <1>1, <2>1 DEF ShowFailed
  <2>2. ASSUME NEW rerun \in BOOLEAN, Post(w, rerun) PROVE web'[w].pc \in {"saveBoth", "cancel"}
    <3>1. Chosen(w) \in Ids
      BY <1>2, <2>2 DEF Post
    <3> QED
      BY <1>1, <2>2, <3>1 DEF Post
  <2>3. ASSUME NEW r \in Runs, Confirm(w, r) PROVE web'[w].pc = "version"
    BY <1>1, <2>3 DEF Confirm
  <2> QED
    BY <1>3, <2>1, <2>2, <2>3
<1>4. ASSUME SendCancel(w) \/ SetCancelled(w) PROVE FALSE
  <2>1. web[w] \in Cancelling
    BY <1>4, SessionByPc DEF SendCancel, SetCancelled
  <2>2. \/ web'[w] = [web[w] EXCEPT !.pc = "setCancelled"]
        \/ \E c, r : web'[w] = [web[w] EXCEPT !.pc = "saveBoth", !.copy = c, !.retry = r]
    <3>1. ASSUME SendCancel(w) PROVE web'[w] = [web[w] EXCEPT !.pc = "setCancelled"]
      BY <1>1, <1>2, <3>1 DEF SendCancel
    <3>2. ASSUME SetCancelled(w)
          PROVE  \E c, r : web'[w] = [web[w] EXCEPT !.pc = "saveBoth", !.copy = c, !.retry = r]
      BY <1>1, <1>2, <3>2 DEF SetCancelled
    <3> QED
      BY <1>4, <3>1, <3>2
  <2> QED
    BY <2>1, <2>2 DEF Cancelling
<1>5. ASSUME SaveBoth(w) \/ Hide(w) \/ SaveHidden(w) \/ WebCreate(w) PROVE FALSE
  <2>1. \E s : Step(w, s) /\ s.pc \in {"version", "hide", "link"}
    BY <1>2, <1>5 DEF SaveBoth, Hide, SaveHidden, WebCreate
  <2> QED
    BY <1>1, <2>1
<1>6. ASSUME WebLink(w) \/ WebVariables(w) PROVE FALSE
  <2>1. web[w] \in Sending
    BY <1>6, SessionByPc DEF WebLink, WebVariables
  <2>2. web'[w] \in {[web[w] EXCEPT !.pc = "variables"], [web[w] EXCEPT !.pc = "send"]}
    BY <1>1, <1>2, <1>6 DEF WebLink, WebVariables
  <2> QED
    BY <2>1, <2>2 DEF Sending
<1>7. ASSUME WebSend(w) \/ WebSendFails(w) PROVE FALSE
  BY <1>2, <1>7 DEF WebSend, WebSendFails
<1> QED
  BY <1>3, <1>4, <1>5, <1>6, <1>7, Zenon DEF Session

\* A session that has read the highest version is the only one to file another.
LEMMA VersionFreshStep ==
  ASSUME IInv, Identified, NothingFiled, HeldInv, RunsNamed, ReportLinked, VersionFresh, OneSession,
         ~Spend("faults"), [Next]_vars
  PROVE  VersionFresh'
<1> SUFFICES ASSUME NEW w \in Sessions, web'[w].pc = "create", NEW i \in Ids',
                    db'[i].run = web'[w].copy.run
             PROVE  db'[i].version < web'[w].version
  BY DEF VersionFresh
<1>0. TypeOK /\ TableOK /\ web \in [Sessions -> SessionState]
  BY DEF IInv, TypeOK
<1>1. CASE web'[w] = web[w]
  <2>1. web[w].pc = "create" /\ web[w] # NoPage
    BY <1>1 DEF NoPage
  <2>2. ~SaveRun
    BY <2>1 DEF SaveRun, NothingFiled, Arriving, FilingNow, Blank
  <2>3. ASSUME NEW v \in Sessions, WebCreate(v) PROVE FALSE
    <3>1. v = w
      BY DEF OneSession
    <3>2. web'[w].pc = "link"
      BY <1>0, <2>3, <3>1 DEF WebCreate, Step
    <3> QED
      BY <3>2
  <2>4. i \in Ids
    BY <2>2, <2>3, TableMoves DEF SameTable, TableFiled, TableRepeated, TableRemoved
  <2>5. Job(db'[i]) = Job(db[i])
    BY <2>4, GrowKeepsRows, StepGrows DEF Identified
  <2>6. db'[i].run = db[i].run /\ db'[i].version = db[i].version
    BY <2>5 DEF Job
  <2> QED
    BY <1>1, <2>1, <2>4, <2>6 DEF VersionFresh
<1>2. CASE Session(w) /\ web'[w] # web[w]
  <2>1. WebVersion(w)
    BY <1>0, <1>2, SessionReads
  <2>2. /\ web'[w].version = NextVersion(web[w].copy.run) /\ web'[w].copy = web[w].copy
        /\ UNCHANGED db
    BY <1>0, <2>1 DEF WebVersion, Step
  <2>3. i \in VersionsOf(web[w].copy.run)
    BY <2>2 DEF VersionsOf, Ids
  <2>4. nextId \in Nat /\ \A j \in Ids : db[j].version < nextId
    BY <1>0 DEF TableOK, IInv, VersionsBounded
  <2>5. db[i].version < NextVersion(web[w].copy.run)
    BY <1>0, <2>3, <2>4, NextVersionAbove
  <2> QED
    BY <2>2, <2>5
<1> QED
  BY <1>1, <1>2, SessionMoves

LEMMA UniqueStep ==
  ASSUME IInv, Identified, NothingFiled, HeldInv, RunsNamed, ReportLinked, VersionFresh, UniqueVersions,
         ~Spend("faults"), [Next]_vars
  PROVE  UniqueVersions'
<1>1. SameTable \/ TableFiled \/ TableRepeated \/ TableRemoved
  BY TableMoves
<1>2. ASSUME NEW i \in Ids, i \in Ids' PROVE db'[i].run = db[i].run /\ db'[i].version = db[i].version
  <2>1. Job(db'[i]) = Job(db[i])
    BY <1>2, GrowKeepsRows, StepGrows DEF Identified
  <2> QED
    BY <2>1 DEF Job
<1>3. CASE Ids' \subseteq Ids
  BY <1>2, <1>3 DEF UniqueVersions
<1>4. CASE TableFiled
  BY <1>4 DEF TableFiled, UniqueVersions
<1>5. ASSUME NEW w \in Sessions, WebCreate(w), Ids' = Ids \cup {nextId} PROVE UniqueVersions'
  <2> DEFINE run == web[w].copy.run
             version == web[w].version
  <2>1. web[w] \in Creating /\ web[w].pc = "create"
    BY <1>5, SessionByPc DEF WebCreate, IInv
  <2>2. db'[nextId] = NewRow(run, version, "q")
    BY <1>5, SavedRows DEF WebCreate
  <2>3. db'[nextId].run = run /\ db'[nextId].version = version
    BY <2>2 DEF NewRow
  <2>4. \A i \in Ids : db[i] \in Row /\ version \in Nat
    BY <2>1 DEF IInv, TypeOK, TableOK, Creating
  <2>5. ASSUME NEW i \in Ids PROVE ~(db'[i].run = run /\ db'[i].version = version)
    <3>1. db[i].run = run => db[i].version < version
      BY <2>1 DEF VersionFresh
    <3>2. db'[i].run = db[i].run /\ db'[i].version = db[i].version
      BY <1>2, <1>5
    <3> QED
      BY <2>4, <3>1, <3>2 DEF Row
  <2> HIDE DEF run, version
  <2> QED
    BY <1>2, <1>5, <2>3, <2>5 DEF UniqueVersions
<1> QED
  BY <1>1, <1>3, <1>4, <1>5 DEF SameTable, TableRepeated, TableRemoved

LEMMA LoneStep ==
  ASSUME Calibration = {}, OneSession, IInv, SentInv, FirstInv, HeldInv, LoneInv,
         withdrawn = {}, ~Spend("faults"), [Next]_vars
  PROVE  LoneInv'
<1>1. /\ NothingFiled /\ Identified
      /\ RunsNamed /\ LocatedOrHeld /\ StrayUnsent /\ ReportLinked /\ VersionFresh /\ UniqueVersions
  BY DEF FirstInv, SentInv, LoneInv
<1> QED
  BY <1>1, RunsNamedStep, LocatedOrHeldStep, StrayUnsentStep, ReportLinkedStep, VersionFreshStep,
     UniqueStep DEF LoneInv

LEMMA LoneInit ==
  ASSUME Init, MaxReady <= 1
  PROVE  FirstInv /\ LoneInv
<1>1. /\ Ids = {} /\ located = {} /\ lis.pc = "wait" /\ inbox = <<>> /\ budget.ready = MaxReady
      /\ queue["DataReady"] = <<>>
  BY DEF Init, Ids, Waiting, Destination, Subscribed
<1>2. \A w \in Sessions : web[w] = NoPage
  BY DEF Init
<1>3. \A w \in Sessions : web[w].pc = "idle"
  BY <1>2 DEF NoPage
<1>4. ReadyOnce
  <2>1. ~ReadyQueued /\ ~ReadyInbox /\ ~FilingNow /\ Len(queue["DataReady"]) = 0
    BY <1>1 DEF ReadyQueued, ReadyInbox, FilingNow
  <2> QED
    BY <1>1, <2>1 DEF ReadyOnce
<1>5. FirstInv
  BY <1>1, <1>2, <1>4 DEF FirstInv, NothingFiled, Blank, FiledAlone, FiledNow, LocatedFirst
<1>6. LoneInv
  BY <1>1, <1>3 DEF LoneInv, RunsNamed, NamesRow, LocatedOrHeld, StrayUnsent, Stray, ReportLinked,
     VersionFresh, UniqueVersions
<1> QED
  BY <1>5, <1>6

RepeatInv == FirstInv /\ RememberInv /\ (Unharmed => LoneInv)

LEMMA RepeatStep ==
  ASSUME Calibration = {}, OneSession, IInv, SentInv, RepeatInv, [Next]_vars
  PROVE  RepeatInv'
<1>1. FirstInv'
  BY FirstStep DEF RepeatInv, IInv, SentInv
<1>2. Unharmed => Orderly
  BY DEF RepeatInv, LoneInv, ReportLinked, Orderly
<1>3. RememberInv'
  BY <1>2, RememberStep DEF RepeatInv
<1>4. ASSUME budget'.faults = MaxFaults PROVE LoneInv'
  <2>1. Unharmed /\ ~Spend("faults")
    BY <1>4, BudgetedStep DEF RepeatInv, RememberInv, IInv, Unharmed
  <2>2. withdrawn = {}
    BY <2>1, BoundsAssumption DEF SentInv, Noted, Unharmed
  <2> QED
    BY <2>1, <2>2, LoneStep DEF RepeatInv, RememberInv
<1> QED
  BY <1>1, <1>3, <1>4 DEF RepeatInv, Unharmed

(***************************************************************************)
(* One run is filed, and one session shows, hides, cancels and repeats it  *)
(* as often as its user likes: no queued version is forgotten              *)
(* (QueuedNotForgotten), as long as data_ready is sent once, of a run with *)
(* an RB number, and no reduction asks for a retry.                        *)
(***************************************************************************)
THEOREM QueuedNotForgottenOnce ==
  ASSUME OneSession, Calibration = {}, MaxReady <= 1, MaxRetries = 0
  PROVE  Spec => []QueuedNotForgotten
<1>1. Init => RepeatInv
  BY LoneInit, RememberedInit DEF RepeatInv, RememberInv
<1>2. IInv /\ SentInv /\ RepeatInv /\ [Next]_vars => RepeatInv'
  BY RepeatStep
<1>3. RepeatInv => (Unharmed => Orderly)
  BY DEF RepeatInv, LoneInv, ReportLinked, Orderly
<1> QED
  BY <1>1, <1>2, <1>3, Invariance, SentInvariance, QueuedIsRemembered, PTL DEF Spec
==============================================================================
