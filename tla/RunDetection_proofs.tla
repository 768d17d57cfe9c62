------------------------- MODULE RunDetection_proofs -------------------------
(***************************************************************************)
(* Theorems about RunDetection, for any number of instruments, runs and    *)
(* monitors and of unreadable files and killed processes.                  *)
(***************************************************************************)
EXTENDS RunDetection, SequenceTheorems, TLAPS

-----------------------------------------------------------------------------
(***************************************************************************)
(* The inductive invariant: a monitor's rows are runs that were submitted, *)
(* as far as the file it read said so or it has done it itself, and it     *)
(* submits no further than lastrun.txt said.                               *)
(***************************************************************************)
SubmittedTo(s, k, n) == \A i \in 1..n : s[<<k, i>>] > 0

InBounds(m) ==
  /\ Len(mon[m].out) <= Rows
  /\ mon[m].pc = "submit" => Row(m) <= Rows /\ mon[m].run <= mon[m].to

RowsSubmitted(m) ==
  /\ \A k \in DOMAIN mon[m].out : SubmittedTo(sent, k, mon[m].out[k])
  /\ mon[m].pc = "submit" => SubmittedTo(sent, Row(m), mon[m].run - 1)

MonitorsKept == \A m \in Monitors : InBounds(m) /\ RowsSubmitted(m)

IInv == TypeOK /\ NoneSkipped /\ MonitorsKept
-----------------------------------------------------------------------------
Idling == [pc : {"idle", "row", "write"}, out : Seq(0..MaxRun)]
Submitting == [pc : {"submit"}, out : Seq(0..MaxRun), run : RunNumbers, to : RunNumbers]

LEMMA MonitorByPc ==
  ASSUME TypeOK, NEW m \in Monitors
  PROVE  /\ mon[m].out \in Seq(0..MaxRun) /\ Len(mon[m].out) \in Nat
         /\ mon[m].pc = "submit" => mon[m] \in Submitting
         /\ mon[m].pc # "submit" => mon[m] \in Idling
BY DEF TypeOK, MonitorState, Idling, Submitting

LEMMA GoType ==
  ASSUME TypeOK, NEW m \in Monitors, NEW s \in MonitorState, Go(m, s)
  PROVE  /\ mon' \in [Monitors -> MonitorState] /\ mon'[m] = s
         /\ \A o \in Monitors \ {m} : mon'[o] = mon[o]
BY DEF TypeOK, Go

(***************************************************************************)
(* What has been submitted stays submitted.                                *)
(***************************************************************************)
SentGrows == \A run \in Instruments \X RunNumbers : sent[run] > 0 => sent'[run] > 0

LEMMA SubmittedStays ==
  ASSUME SentGrows, NEW k \in 1..Rows, NEW n \in 0..MaxRun, SubmittedTo(sent, k, n)
  PROVE  SubmittedTo(sent', k, n)
BY BoundsAssumption DEF SentGrows, SubmittedTo, Instruments, RunNumbers

LEMMA OutSubmitted ==
  ASSUME TypeOK, SentGrows, NEW m \in Monitors, InBounds(m), RowsSubmitted(m)
  PROVE  \A k \in DOMAIN mon[m].out : SubmittedTo(sent', k, mon[m].out[k])
<1> SUFFICES ASSUME NEW k \in DOMAIN mon[m].out
             PROVE  SubmittedTo(sent', k, mon[m].out[k])
  OBVIOUS
<1>1. k \in 1..Rows /\ mon[m].out[k] \in 0..MaxRun
  BY MonitorByPc, BoundsAssumption DEF InBounds
<1>2. SubmittedTo(sent, k, mon[m].out[k])
  BY DEF RowsSubmitted
<1> QED
  BY <1>1, <1>2, SubmittedStays

\* A monitor that does not move, and the file.
LEMMA MonitorStays ==
  ASSUME TypeOK, SentGrows, NEW m \in Monitors, InBounds(m), RowsSubmitted(m), mon'[m] = mon[m]
  PROVE  InBounds(m)' /\ RowsSubmitted(m)'
<1>1. \A k \in DOMAIN mon[m].out : SubmittedTo(sent', k, mon[m].out[k])
  BY OutSubmitted
<1>2. mon[m].pc = "submit" => SubmittedTo(sent', Row(m), mon[m].run - 1)
  <2> SUFFICES ASSUME mon[m].pc = "submit"
               PROVE  SubmittedTo(sent', Row(m), mon[m].run - 1)
    OBVIOUS
  <2>1. Row(m) \in 1..Rows /\ mon[m].run - 1 \in 0..MaxRun
    BY MonitorByPc, BoundsAssumption DEF InBounds, Row, Submitting, RunNumbers
  <2>2. SubmittedTo(sent, Row(m), mon[m].run - 1)
    BY DEF RowsSubmitted
  <2> QED
    BY <2>1, <2>2, SubmittedStays
<1> QED
  BY <1>1, <1>2 DEF InBounds, RowsSubmitted, Row

LEMMA CsvStays ==
  ASSUME TypeOK, NoneSkipped, SentGrows, csv' = csv
  PROVE  NoneSkipped'
<1> SUFFICES ASSUME NEW k \in DOMAIN csv
             PROVE  SubmittedTo(sent', k, csv[k])
  BY DEF NoneSkipped, SubmittedTo
<1>1. k \in 1..Rows /\ csv[k] \in 0..MaxRun
  BY BoundsAssumption DEF TypeOK
<1>2. SubmittedTo(sent, k, csv[k])
  BY DEF NoneSkipped, SubmittedTo
<1> QED
  BY <1>1, <1>2, SubmittedStays

\* A row that has been dealt with is put down.
LEMMA DoneRow ==
  ASSUME TypeOK, NEW m \in Monitors, NEW n \in 0..MaxRun, Done(m, n),
         Row(m) <= Rows, InBounds(m), RowsSubmitted(m), SentGrows, SubmittedTo(sent', Row(m), n)
  PROVE  /\ mon' \in [Monitors -> MonitorState] /\ InBounds(m)' /\ RowsSubmitted(m)'
         /\ \A o \in Monitors \ {m} : mon'[o] = mon[o]
<1> DEFINE out == mon[m].out
<1> DEFINE s == [pc |-> "row", out |-> Append(out, n)]
<1>1. out \in Seq(0..MaxRun)
  BY MonitorByPc
<1>2. Append(out, n) \in Seq(0..MaxRun) /\ Len(Append(out, n)) = Len(out) + 1
      /\ DOMAIN Append(out, n) = DOMAIN out \cup {Len(out) + 1}
      /\ Append(out, n)[Len(out) + 1] = n /\ \A k \in DOMAIN out : Append(out, n)[k] = out[k]
  BY <1>1
<1>3. s \in MonitorState /\ Go(m, s)
  BY <1>2 DEF MonitorState, Done
<1>4. /\ mon' \in [Monitors -> MonitorState] /\ mon'[m] = s
      /\ \A o \in Monitors \ {m} : mon'[o] = mon[o]
  BY <1>3, GoType
<1>5. InBounds(m)'
  BY <1>2, <1>4 DEF InBounds, Row
<1>6. RowsSubmitted(m)'
  <2>1. mon'[m].out = Append(out, n) /\ mon'[m].pc = "row"
    BY <1>4
  <2>2. \A k \in DOMAIN out : SubmittedTo(sent', k, out[k])
    BY OutSubmitted
  <2>3. SubmittedTo(sent', Len(out) + 1, n)
    BY DEF Row
  <2>4. ASSUME NEW k \in DOMAIN Append(out, n)
        PROVE  SubmittedTo(sent', k, Append(out, n)[k])
    <3>1. CASE k \in DOMAIN out
      BY <1>2, <2>2, <3>1
    <3>2. CASE k = Len(out) + 1
      BY <1>2, <2>3, <3>2
    <3> QED
      BY <1>2, <3>1, <3>2
  <2> QED
    BY <2>1, <2>4 DEF RowsSubmitted
<1> QED
  BY <1>4, <1>5, <1>6

LEMMA ReleaseType ==
  ASSUME TypeOK, NEW m \in Monitors, Release(m)
  PROVE  /\ lock' = NoOne /\ mon' \in [Monitors -> MonitorState]
         /\ InBounds(m)' /\ RowsSubmitted(m)'
         /\ \A o \in Monitors \ {m} : mon'[o] = mon[o]
<1>1. Idle \in MonitorState
  BY DEF Idle, MonitorState
<1>2. mon'[m] = Idle /\ mon' \in [Monitors -> MonitorState]
      /\ \A o \in Monitors \ {m} : mon'[o] = mon[o]
  BY <1>1, GoType DEF Release
<1>3. mon'[m].out = <<>> /\ mon'[m].pc = "idle"
  BY <1>2 DEF Idle
<1> QED
  BY <1>2, <1>3, BoundsAssumption DEF Release, InBounds, RowsSubmitted
-----------------------------------------------------------------------------
(***************************************************************************)
(* The steps of a monitor: its own rows, then all that the invariant says. *)
(***************************************************************************)
OwnKept(m) ==
  /\ mon' \in [Monitors -> MonitorState] /\ InBounds(m)' /\ RowsSubmitted(m)'
  /\ \A o \in Monitors \ {m} : mon'[o] = mon[o]

CsvKept == csv' \in Seq(0..MaxRun) /\ Len(csv') <= Rows /\ NoneSkipped'

Kept(m) ==
  /\ OwnKept(m) /\ CsvKept
  /\ SentGrows /\ sent' \in [Instruments \X RunNumbers -> 0..2]
  /\ lock' \in Monitors \cup {NoOne} /\ faults' \in 0..MaxFaults
  /\ lastrun' = lastrun /\ files' = files

LEMMA SendGrows ==
  ASSUME TypeOK, NEW run \in Instruments \X RunNumbers, Send(run)
  PROVE  /\ sent' \in [Instruments \X RunNumbers -> 0..2]
         /\ SentGrows /\ sent'[run] > 0
<1> DEFINE D == Instruments \X RunNumbers
<1>1. sent \in [D -> 0..2] /\ run \in D
  BY DEF TypeOK
<1>2. sent' = [sent EXCEPT ![run] = IF sent[run] = 2 THEN 2 ELSE sent[run] + 1]
  BY DEF Send
<1> HIDE DEF D
<1>3. sent' \in [D -> 0..2] /\ sent'[run] > 0 /\ \A r \in D : sent[r] > 0 => sent'[r] > 0
  BY <1>1, <1>2
<1> QED
  BY <1>3 DEF SentGrows, D

LEMMA FaultType ==
  ASSUME TypeOK, Fault
  PROVE  faults' \in 0..MaxFaults
BY BoundsAssumption DEF TypeOK, Fault

LEMMA AcquireKept ==
  ASSUME IInv, NEW m \in Monitors, Acquire(m)
  PROVE  Kept(m)
<1> USE DEF IInv
<1> DEFINE s == [pc |-> "row", out |-> <<>>]
<1>1. s \in MonitorState /\ Go(m, s)
  BY DEF MonitorState, Acquire
<1>2. mon' \in [Monitors -> MonitorState] /\ mon'[m] = s /\ \A o \in Monitors \ {m} : mon'[o] = mon[o]
  BY <1>1, GoType
<1>3. mon'[m].out = <<>> /\ mon'[m].pc = "row"
  BY <1>2
<1>4. OwnKept(m)
  BY <1>2, <1>3, BoundsAssumption DEF OwnKept, InBounds, RowsSubmitted
<1>5. SentGrows /\ csv' = csv
  BY DEF Acquire, SentGrows
<1> QED
  BY <1>4, <1>5, CsvStays DEF Acquire, Kept, CsvKept, TypeOK

LEMMA ReadLastRunKept ==
  ASSUME IInv, NEW m \in Monitors, ReadLastRun(m)
  PROVE  Kept(m)
<1> USE DEF IInv
<1> DEFINE k == Row(m)
<1>1. /\ k \in 1..Rows /\ k \in DOMAIN csv /\ csv[k] \in 0..MaxRun /\ lastrun[k] \in 0..MaxRun
      /\ InBounds(m) /\ RowsSubmitted(m) /\ mon[m].out \in Seq(0..MaxRun)
  <2>1. Len(mon[m].out) \in Nat /\ mon[m].out \in Seq(0..MaxRun) /\ k = Len(mon[m].out) + 1
    BY MonitorByPc DEF Row
  <2>2. csv \in Seq(0..MaxRun) /\ Len(csv) <= Rows /\ k <= Len(csv)
    BY DEF ReadLastRun, TypeOK
  <2> HIDE DEF k
  <2>3. k \in 1..Rows /\ k \in DOMAIN csv /\ csv[k] \in 0..MaxRun
    BY <2>1, <2>2, BoundsAssumption, SMTT(30)
  <2> QED
    BY <2>1, <2>3 DEF TypeOK, Instruments, MonitorsKept
<1>2. sent' = sent /\ csv' = csv /\ SentGrows
  BY DEF ReadLastRun, SentGrows
<1>3. \A n \in 0..MaxRun : n <= csv[k] => SubmittedTo(sent', k, n)
  BY <1>1, <1>2 DEF NoneSkipped, SubmittedTo
<1> HIDE DEF k
<1>4. OwnKept(m)
  <2>1. CASE Done(m, csv[k])
    BY <1>1, <1>2, <1>3, <2>1, DoneRow DEF OwnKept, k
  <2>2. CASE lastrun[k] <= csv[k] /\ Done(m, lastrun[k])
    BY <1>1, <1>2, <1>3, <2>2, DoneRow DEF OwnKept, k
  <2>3. CASE /\ lastrun[k] > csv[k]
             /\ Go(m, [pc |-> "submit", out |-> mon[m].out, run |-> csv[k] + 1, to |-> lastrun[k]])
    <3> DEFINE s == [pc |-> "submit", out |-> mon[m].out, run |-> csv[k] + 1, to |-> lastrun[k]]
    <3>1. s \in MonitorState
      BY <1>1, <2>3, BoundsAssumption DEF MonitorState, RunNumbers
    <3>2. /\ mon' \in [Monitors -> MonitorState] /\ mon'[m] = s
          /\ \A o \in Monitors \ {m} : mon'[o] = mon[o]
      BY <2>3, <3>1, GoType
    <3>3. /\ mon'[m].out = mon[m].out /\ mon'[m].pc = "submit"
          /\ mon'[m].run = csv[k] + 1 /\ mon'[m].to = lastrun[k]
      BY <3>2
    <3>4. Row(m)' = k /\ Len(mon[m].out) \in Nat
      BY <1>1, <3>3 DEF Row, k
    <3>5. InBounds(m)'
      BY <1>1, <2>3, <3>3, <3>4 DEF InBounds
    <3>6. mon'[m].run - 1 = csv[k]
      BY <1>1, <3>3
    <3>7. RowsSubmitted(m)'
      BY <1>1, <1>2, <1>3, <3>3, <3>4, <3>6, OutSubmitted DEF RowsSubmitted
    <3> QED
      BY <3>2, <3>5, <3>7 DEF OwnKept
  <2> QED
    BY <2>1, <2>2, <2>3 DEF ReadLastRun, k
<1>5. CsvKept
  BY <1>2, CsvStays DEF CsvKept, TypeOK
<1> QED
  BY <1>2, <1>4, <1>5, FaultType DEF ReadLastRun, Kept, TypeOK

LEMMA SubmitRunKept ==
  ASSUME IInv, NEW m \in Monitors, SubmitRun(m)
  PROVE  Kept(m)
<1> USE DEF IInv
<1> DEFINE run == mon[m].run
<1>1. /\ mon[m] \in Submitting /\ run \in 1..MaxRun /\ mon[m].to \in 1..MaxRun /\ run <= mon[m].to
      /\ Row(m) \in 1..Rows /\ InBounds(m) /\ RowsSubmitted(m)
      /\ SubmittedTo(sent, Row(m), run - 1)
  BY MonitorByPc DEF SubmitRun, Row, MonitorsKept, InBounds, RowsSubmitted, Submitting, RunNumbers
<1>2. csv' = csv /\ lastrun' = lastrun /\ files' = files /\ faults' = faults
  BY DEF SubmitRun
<1>3. CASE MissingFile(m) /\ UNCHANGED <<sent, lock>>
  <2>1. SentGrows /\ SubmittedTo(sent', Row(m), run - 1) /\ run - 1 \in 0..MaxRun
    BY <1>1, <1>3, BoundsAssumption DEF SentGrows
  <2>2. OwnKept(m)
    BY <1>1, <1>3, <2>1, DoneRow DEF MissingFile, OwnKept
  <2> QED
    BY <1>2, <1>3, <2>1, <2>2, CsvStays DEF Kept, CsvKept, TypeOK
<1>4. CASE Release(m) /\ UNCHANGED sent
  <2>1. SentGrows
    BY <1>4 DEF SentGrows
  <2> QED
    BY <1>2, <1>4, <2>1, ReleaseType, CsvStays DEF Kept, OwnKept, CsvKept, TypeOK
<1>5. CASE Send(<<Row(m), run>>) /\ Proceed(m) /\ UNCHANGED lock
  <2>1. SentGrows /\ sent' \in [Instruments \X RunNumbers -> 0..2] /\ sent'[<<Row(m), run>>] > 0
    BY <1>1, <1>5, SendGrows DEF Instruments, RunNumbers
  <2>2. SubmittedTo(sent', Row(m), run)
    <3>1. SubmittedTo(sent', Row(m), run - 1)
      BY <1>1, <2>1, SubmittedStays, BoundsAssumption
    <3>2. \A i \in 1..run : i \in 1..(run - 1) \/ i = run
      BY <1>1
    <3> QED
      BY <2>1, <3>1, <3>2 DEF SubmittedTo
  <2>3. OwnKept(m)
    <3>1. CASE run = mon[m].to
      BY <1>1, <1>5, <2>1, <2>2, <3>1, DoneRow DEF Proceed, OwnKept
    <3>2. CASE run # mon[m].to
      <4> DEFINE s == [mon[m] EXCEPT !.run = run + 1]
      <4>1. /\ s \in MonitorState /\ s.out = mon[m].out /\ s.pc = "submit"
            /\ s.run = run + 1 /\ s.to = mon[m].to
        <5>1. run + 1 \in RunNumbers
          BY <1>1, <3>2, BoundsAssumption DEF RunNumbers
        <5>2. mon[m] \in Submitting
          BY <1>1
        <5> HIDE DEF run
        <5> QED
          BY <5>1, <5>2 DEF MonitorState, Submitting
      <4>2. Go(m, s)
        BY <1>5, <3>2 DEF Proceed
      <4> HIDE DEF s
      <4>3. /\ mon' \in [Monitors -> MonitorState] /\ mon'[m] = s
            /\ \A o \in Monitors \ {m} : mon'[o] = mon[o]
        BY <4>1, <4>2, GoType
      <4>4. Row(m)' = Row(m)
        BY <4>1, <4>3 DEF Row
      <4>5. InBounds(m)'
        BY <1>1, <3>2, <4>1, <4>3, <4>4 DEF InBounds
      <4>6. mon'[m].run - 1 = run
        BY <1>1, <4>1, <4>3
      <4>7. RowsSubmitted(m)'
        BY <1>1, <2>1, <2>2, <4>1, <4>3, <4>4, <4>6, OutSubmitted DEF RowsSubmitted
      <4> QED
        BY <4>3, <4>5, <4>7 DEF OwnKept
    <3> QED
      BY <3>1, <3>2
  <2> QED
    BY <1>2, <1>5, <2>1, <2>3, CsvStays DEF Kept, CsvKept, TypeOK
<1> QED
  BY <1>3, <1>4, <1>5 DEF SubmitRun

LEMMA OpenCsvKept ==
  ASSUME IInv, NEW m \in Monitors, OpenCsv(m)
  PROVE  Kept(m)
<1> USE DEF IInv
<1> DEFINE s == [mon[m] EXCEPT !.pc = "write"]
<1>1. mon[m] \in Idling /\ InBounds(m) /\ RowsSubmitted(m)
  BY MonitorByPc DEF OpenCsv, MonitorsKept
<1>2. s \in MonitorState /\ s.out = mon[m].out /\ s.pc = "write"
  BY <1>1 DEF Idling, MonitorState
<1>3. Go(m, s)
  BY DEF OpenCsv
<1> HIDE DEF s
<1>4. mon' \in [Monitors -> MonitorState] /\ mon'[m] = s /\ \A o \in Monitors \ {m} : mon'[o] = mon[o]
  BY <1>2, <1>3, GoType
<1>5. csv' = <<>> /\ sent' = sent /\ SentGrows
  BY DEF OpenCsv, SentGrows
<1>6. OwnKept(m)
  BY <1>1, <1>2, <1>4, <1>5, OutSubmitted DEF OwnKept, InBounds, RowsSubmitted
<1>7. CsvKept
  BY <1>5, BoundsAssumption DEF CsvKept, NoneSkipped
<1> QED
  BY <1>5, <1>6, <1>7 DEF OpenCsv, Kept, TypeOK

\* The rows a monitor writes, all of them or the first ones.
LEMMA RowsWritten ==
  ASSUME IInv, NEW m \in Monitors, NEW n \in 0..Len(mon[m].out),
         csv' = SubSeq(mon[m].out, 1, n), sent' = sent
  PROVE  CsvKept
<1> USE DEF IInv
<1> DEFINE out == mon[m].out
<1>1. out \in Seq(0..MaxRun) /\ Len(out) \in Nat /\ Len(out) <= Rows /\ RowsSubmitted(m)
  BY MonitorByPc DEF MonitorsKept, InBounds
<1>2. n \in Nat /\ n <= Len(out)
  BY <1>1
<1> HIDE DEF out
<1>3. \A i \in 1..n : out[i] \in 0..MaxRun
  <2> SUFFICES ASSUME NEW i \in 1..n PROVE out[i] \in 0..MaxRun
    OBVIOUS
  <2>1. i \in 1..Len(out)
    BY <1>1, <1>2
  <2> QED
    BY <1>1, <2>1, ElementOfSeq
<1>4. /\ csv' \in Seq(0..MaxRun) /\ Len(csv') = n
      /\ \A i \in 1..n : csv'[i] = out[i]
  <2>1. csv' = SubSeq(out, 1, n)
    BY DEF out
  <2>2. /\ SubSeq(out, 1, n) \in Seq(0..MaxRun)
        /\ Len(SubSeq(out, 1, n)) = IF 1 <= n THEN n - 1 + 1 ELSE 0
        /\ \A i \in 1..(n - 1 + 1) : SubSeq(out, 1, n)[i] = out[1 + i - 1]
    BY <1>2, <1>3, SubSeqProperties
  <2> QED
    BY <1>2, <2>1, <2>2
<1>5. \A k \in DOMAIN csv' : k \in DOMAIN out /\ csv'[k] = out[k]
  BY <1>1, <1>2, <1>4
<1>6. \A k \in DOMAIN out : SubmittedTo(sent', k, out[k])
  BY <1>1 DEF RowsSubmitted, out
<1>7. NoneSkipped'
  BY <1>5, <1>6 DEF NoneSkipped, SubmittedTo
<1> QED
  BY <1>1, <1>2, <1>4, <1>7, BoundsAssumption DEF CsvKept

LEMMA WriteCsvKept ==
  ASSUME IInv, NEW m \in Monitors, WriteCsv(m)
  PROVE  Kept(m)
<1> USE DEF IInv
<1>1. mon[m].out \in Seq(0..MaxRun) /\ Len(mon[m].out) \in 0..Len(mon[m].out)
  BY MonitorByPc
<1>2. csv' = SubSeq(mon[m].out, 1, Len(mon[m].out)) /\ sent' = sent
  BY <1>1, SubSeqFull DEF WriteCsv
<1>3. CsvKept
  BY <1>1, <1>2, RowsWritten
<1> QED
  BY <1>2, <1>3, ReleaseType DEF WriteCsv, Kept, OwnKept, SentGrows, TypeOK

LEMMA KillKept ==
  ASSUME IInv, NEW m \in Monitors, Kill(m)
  PROVE  Kept(m)
<1> USE DEF IInv
<1>1. sent' = sent /\ SentGrows
  BY DEF Kill, SentGrows
<1>2. CsvKept
  <2>1. CASE csv' = csv
    BY <1>1, <2>1, CsvStays DEF CsvKept, TypeOK
  <2>2. CASE \E k \in 0..Len(mon[m].out) : csv' = SubSeq(mon[m].out, 1, k)
    BY <1>1, <2>2, RowsWritten
  <2> QED
    BY <2>1, <2>2 DEF Kill
<1> QED
  BY <1>1, <1>2, ReleaseType, FaultType DEF Kill, Kept, OwnKept, TypeOK
-----------------------------------------------------------------------------
LEMMA MonitorStep ==
  ASSUME IInv, NEW m \in Monitors, Acquire(m) \/ Work(m) \/ Kill(m)
  PROVE  IInv'
<1>1. Kept(m)
  BY AcquireKept, ReadLastRunKept, SubmitRunKept, OpenCsvKept, WriteCsvKept, KillKept DEF Work
<1>2. ASSUME NEW o \in Monitors
      PROVE  InBounds(o)' /\ RowsSubmitted(o)'
  <2>1. CASE o = m
    BY <1>1, <2>1 DEF Kept, OwnKept
  <2>2. CASE o # m
    BY <1>1, <2>2, MonitorStays DEF Kept, OwnKept, IInv, MonitorsKept
  <2> QED
    BY <2>1, <2>2
<1>3. TypeOK'
  BY <1>1 DEF IInv, Kept, OwnKept, CsvKept, TypeOK
<1> QED
  BY <1>1, <1>2, <1>3 DEF IInv, Kept, CsvKept, MonitorsKept

LEMMA EnvironmentStep ==
  ASSUME IInv, NEW k \in Instruments, EndRun(k) \/ \E n \in RunNumbers : FileArrives(k, n)
  PROVE  IInv'
<1> USE DEF IInv
<1>1. UNCHANGED <<csv, sent, lock, mon, faults>>
  BY DEF EndRun, FileArrives
<1>2. lastrun' \in [Instruments -> 0..MaxRun] /\ files' \subseteq Instruments \X RunNumbers
  <2>1. lastrun \in [Instruments -> 0..MaxRun] /\ files \subseteq Instruments \X RunNumbers
    BY DEF TypeOK
  <2>2. CASE EndRun(k)
    BY <2>1, <2>2, BoundsAssumption DEF EndRun
  <2>3. CASE \E n \in RunNumbers : FileArrives(k, n)
    BY <2>1, <2>3 DEF FileArrives
  <2> QED
    BY <2>2, <2>3
<1> QED
  BY <1>1, <1>2 DEF TypeOK, NoneSkipped, MonitorsKept, InBounds, RowsSubmitted, SubmittedTo, Row

LEMMA InitInv ==
  ASSUME Init
  PROVE  IInv
<1>1. 0 \in 0..MaxRun /\ 0 \in 0..MaxFaults /\ Rows \in Nat
  BY BoundsAssumption
<1>2. csv \in Seq(0..MaxRun) /\ Len(csv) = Rows /\ \A k \in DOMAIN csv : csv[k] = 0
  BY <1>1 DEF Init, Instruments
<1>3. Idle \in MonitorState /\ Idle.out = <<>> /\ Idle.pc = "idle"
  BY DEF Idle, MonitorState
<1>4. TypeOK
  BY <1>1, <1>2, <1>3 DEF Init, TypeOK
<1>5. NoneSkipped
  BY <1>2 DEF NoneSkipped
<1>6. \A m \in Monitors : mon[m] = Idle
  BY DEF Init
<1>7. MonitorsKept
  BY <1>1, <1>3, <1>6 DEF MonitorsKept, InBounds, RowsSubmitted
<1> QED
  BY <1>4, <1>5, <1>7 DEF IInv

LEMMA StepInv ==
  ASSUME IInv, [Next]_vars
  PROVE  IInv'
<1>1. CASE UNCHANGED vars
  BY <1>1 DEF vars, IInv, TypeOK, NoneSkipped, MonitorsKept, InBounds, RowsSubmitted, SubmittedTo, Row
<1>2. CASE Next
  BY <1>2, MonitorStep, EnvironmentStep DEF Next
<1> QED
  BY <1>1, <1>2

(***************************************************************************)
(* The invariant holds of every behaviour of any number of monitors, with  *)
(* or without the lock: what a monitor is going to write was submitted.    *)
(***************************************************************************)
THEOREM Invariance == Spec => []IInv
<1>1. Init => IInv
  BY InitInv
<1>2. IInv /\ [Next]_vars => IInv'
  BY StepInv
<1> QED
  BY <1>1, <1>2, PTL DEF Spec

(***************************************************************************)
(* The files, the counts and the rows a monitor holds keep their types: it *)
(* never holds more rows than there are instruments.                       *)
(***************************************************************************)
THEOREM TypeCorrect == Spec => []TypeOK
<1>1. IInv => TypeOK
  BY DEF IInv
<1> QED
  BY <1>1, Invariance, PTL

(***************************************************************************)
(* submit_run_difference returns the last run it has sent: whatever is     *)
(* missing, unreadable or killed, a run that counts as observed has been   *)
(* submitted.                                                              *)
(***************************************************************************)
THEOREM NonePassedOver == Spec => []NoneSkipped
<1>1. IInv => NoneSkipped
  BY DEF IInv
<1> QED
  BY <1>1, Invariance, PTL
-----------------------------------------------------------------------------
(***************************************************************************)
(* The lock: a monitor that is at work has it.                             *)
(***************************************************************************)
OneAtATime == \A m \in Monitors : mon[m].pc # "idle" => lock = m

(***************************************************************************)
(* While nothing has failed nothing was submitted beyond what is on        *)
(* record, in the file or, for the rows the monitor at work is through     *)
(* with, in its hands.                                                     *)
(***************************************************************************)
Clean == faults = 0 /\ files \cap Invalid = {}

NoneBeyond(s, k, n) == \A i \in RunNumbers : i > n => s[<<k, i>>] = 0

Holds(m) ==
  /\ \A k \in DOMAIN mon[m].out : mon[m].out[k] <= lastrun[k] /\ NoneBeyond(sent, k, mon[m].out[k])
  /\ mon[m].pc = "submit" => mon[m].to <= lastrun[Row(m)] /\ NoneBeyond(sent, Row(m), mon[m].run - 1)
  /\ mon[m].pc = "row" => \A k \in Row(m)..Rows : NoneBeyond(sent, k, csv[k])
  /\ mon[m].pc = "submit" => \A k \in (Row(m) + 1)..Rows : NoneBeyond(sent, k, csv[k])
  /\ mon[m].pc = "write" => Len(mon[m].out) = Rows

OnRecord == Len(csv) = Rows /\ \A k \in Instruments : csv[k] <= lastrun[k]

OnceInv ==
  /\ \A run \in Instruments \X RunNumbers : sent[run] < 2
  /\ (\A m \in Monitors : mon[m].pc # "write") => OnRecord
  /\ lock = NoOne => \A k \in Instruments : NoneBeyond(sent, k, csv[k])
  /\ \A m \in Monitors : mon[m].pc # "idle" => Holds(m)

\* A monitor ends, or is the only one at work.
LEMMA LockStep ==
  ASSUME TypeOK, OneAtATime, [Next]_vars
  PROVE  OneAtATime'
<1>1. ASSUME NEW m \in Monitors, Release(m) PROVE OneAtATime' \/ \E o \in Monitors \ {m} : lock = o
  BY <1>1 DEF OneAtATime, Release, Go, TypeOK, Idle
<1>2. ASSUME NEW m \in Monitors, mon[m].pc # "idle", NEW s, Go(m, s), UNCHANGED lock
      PROVE  OneAtATime'
  BY <1>2 DEF OneAtATime, Go, TypeOK
<1>3. ASSUME NEW m \in Monitors, mon[m].pc # "idle", Release(m) PROVE OneAtATime'
  BY <1>1, <1>3 DEF OneAtATime
<1>4. ASSUME NEW m \in Monitors, Acquire(m) PROVE OneAtATime'
  BY <1>4, NoOneAssumption DEF OneAtATime, Acquire, Go, TypeOK
<1>5. ASSUME NEW m \in Monitors, ReadLastRun(m) \/ OpenCsv(m) PROVE OneAtATime'
  <2>1. PICK s : Go(m, s)
    BY <1>5 DEF ReadLastRun, OpenCsv, Done
  <2> QED
    BY <1>2, <1>5, <2>1 DEF ReadLastRun, OpenCsv
<1>6. ASSUME NEW m \in Monitors, SubmitRun(m) PROVE OneAtATime'
  <2>1. mon[m].pc # "idle"
    BY <1>6 DEF SubmitRun
  <2>2. CASE Release(m)
    BY <1>3, <2>1, <2>2
  <2>3. CASE UNCHANGED lock /\ (MissingFile(m) \/ Proceed(m))
    <3>1. PICK s : Go(m, s)
      BY <2>3 DEF MissingFile, Proceed, Done
    <3> QED
      BY <1>2, <2>1, <2>3, <3>1
  <2> QED
    BY <1>6, <2>2, <2>3 DEF SubmitRun
<1>7. ASSUME NEW m \in Monitors, WriteCsv(m) \/ Kill(m) PROVE OneAtATime'
  BY <1>3, <1>7 DEF WriteCsv, Kill
<1>8. CASE UNCHANGED <<mon, lock>>
  BY <1>8 DEF OneAtATime
<1> QED
  BY <1>4, <1>5, <1>6, <1>7, <1>8 DEF Next, Work, EndRun, FileArrives, vars

\* The monitor at work is the only one, and nothing fails on the way.
LEMMA OnceByMonitor ==
  ASSUME NEW m \in Monitors, \A o \in Monitors \ {m} : mon'[o].pc = "idle",
         \A run \in Instruments \X RunNumbers : sent'[run] < 2,
         mon'[m].pc # "write" => OnRecord',
         lock' = NoOne => \A k \in Instruments : NoneBeyond(sent', k, csv'[k]),
         mon'[m].pc # "idle" => Holds(m)'
  PROVE  OnceInv'
BY DEF OnceInv, Holds

LEMMA OthersIdle ==
  ASSUME TypeOK, OneAtATime, NEW m \in Monitors, mon[m].pc # "idle" \/ lock = NoOne, NEW s, Go(m, s)
  PROVE  /\ mon'[m] = s /\ \A o \in Monitors \ {m} : mon[o].pc = "idle" /\ mon'[o].pc = "idle"
BY NoOneAssumption DEF OneAtATime, Go, TypeOK

LEMMA DoneOnce ==
  ASSUME TypeOK, NEW m \in Monitors, NEW n \in 0..MaxRun, Done(m, n), csv' = csv, lastrun' = lastrun,
         \A k \in DOMAIN mon[m].out : mon[m].out[k] <= lastrun[k] /\ NoneBeyond(sent', k, mon[m].out[k]),
         n <= lastrun[Row(m)], NoneBeyond(sent', Row(m), n),
         \A k \in (Row(m) + 1)..Rows : NoneBeyond(sent', k, csv[k])
  PROVE  Holds(m)' /\ mon'[m].pc = "row"
<1>1. PICK out \in Seq(0..MaxRun) : out = mon[m].out
  BY MonitorByPc
<1>2. PICK o : o = Append(out, n)
  OBVIOUS
<1>3. /\ o \in Seq(0..MaxRun) /\ Len(o) = Len(out) + 1 /\ o[Len(out) + 1] = n
      /\ DOMAIN o = DOMAIN out \cup {Len(out) + 1} /\ \A k \in DOMAIN out : o[k] = out[k]
  BY <1>2
<1>4. mon'[m] = [pc |-> "row", out |-> o]
  BY <1>1, <1>2 DEF Done, Go, TypeOK
<1>5. mon'[m].pc = "row" /\ mon'[m].out = o
  BY <1>4
<1>6. Row(m) = Len(out) + 1 /\ Row(m)' = Row(m) + 1
  BY <1>1, <1>3, <1>5 DEF Row
<1>7. \A k \in DOMAIN o : o[k] <= lastrun[k] /\ NoneBeyond(sent', k, o[k])
  BY <1>1, <1>3, <1>6
<1> QED
  BY <1>5, <1>6, <1>7 DEF Holds

LEMMA SendOnce ==
  ASSUME TypeOK, NEW k \in 1..Rows, NEW n \in RunNumbers, Send(<<k, n>>), NoneBeyond(sent, k, n - 1),
         \A run \in Instruments \X RunNumbers : sent[run] < 2
  PROVE  /\ \A run \in Instruments \X RunNumbers : sent'[run] < 2
         /\ NoneBeyond(sent', k, n)
         /\ \A j \in 1..Rows : \A i : j # k /\ NoneBeyond(sent, j, i) => NoneBeyond(sent', j, i)
<1> DEFINE D == Instruments \X RunNumbers
           r == <<k, n>>
<1>1. sent \in [D -> 0..2] /\ r \in D
  BY DEF TypeOK, Instruments
<1>2. sent[r] = 0
  BY BoundsAssumption DEF NoneBeyond, RunNumbers
<1>3. sent'[r] = 1 /\ \A q \in D : q # r => sent'[q] = sent[q]
  BY <1>1, <1>2 DEF Send
<1>4. \A q \in D : sent'[q] < 2
  BY <1>3
<1>5. NoneBeyond(sent', k, n)
  <2> SUFFICES ASSUME NEW i \in RunNumbers, i > n PROVE sent'[<<k, i>>] = 0
    BY DEF NoneBeyond
  <2>1. <<k, i>> \in D /\ <<k, i>> # r /\ i > n - 1
    BY DEF RunNumbers, Instruments
  <2> QED
    BY <1>3, <2>1 DEF NoneBeyond
<1>6. ASSUME NEW j \in 1..Rows, NEW i, j # k, NoneBeyond(sent, j, i) PROVE NoneBeyond(sent', j, i)
  BY <1>3, <1>6 DEF NoneBeyond, Instruments
<1> QED
  BY <1>4, <1>5, <1>6
-----------------------------------------------------------------------------
\* The steps of the monitor at work, while nothing has failed.
LEMMA AcquireOnce ==
  ASSUME IInv, OneAtATime, OnceInv, NEW m \in Monitors, Acquire(m)
  PROVE  OnceInv'
<1>1. PICK s : s = [pc |-> "row", out |-> <<>>]
  OBVIOUS
<1>2. /\ lock = NoOne /\ lock' = m /\ Go(m, s) /\ UNCHANGED <<lastrun, files, csv, sent, faults>>
  BY <1>1 DEF Acquire
<1>3. mon'[m] = s /\ \A o \in Monitors \ {m} : mon[o].pc = "idle" /\ mon'[o].pc = "idle"
  BY <1>2, OthersIdle DEF IInv
<1>4. mon'[m].pc = "row" /\ mon'[m].out = <<>> /\ Row(m)' = 1
  BY <1>1, <1>3 DEF Row
<1>5. \A k \in 1..Rows : NoneBeyond(sent, k, csv[k])
  BY <1>2 DEF OnceInv, Instruments
<1>6. Holds(m)'
  BY <1>2, <1>4, <1>5 DEF Holds
<1>7. mon[m].pc # "write"
  BY DEF Acquire
<1>8. OnRecord /\ lock' # NoOne
  BY <1>2, <1>3, <1>7, NoOneAssumption DEF OnceInv
<1>9. OnRecord' /\ \A run \in Instruments \X RunNumbers : sent'[run] < 2
  BY <1>2, <1>8 DEF OnRecord, OnceInv
<1> QED
  BY <1>3, <1>6, <1>8, <1>9, OnceByMonitor

\* What is known of the monitor at work before its step.
LEMMA AtWork ==
  ASSUME IInv, OneAtATime, OnceInv, NEW m \in Monitors, mon[m].pc # "idle"
  PROVE  /\ TypeOK /\ lock = m /\ lock # NoOne /\ Holds(m) /\ InBounds(m)
         /\ \A o \in Monitors \ {m} : mon[o].pc = "idle"
         /\ mon[m].pc # "write" => OnRecord
         /\ \A run \in Instruments \X RunNumbers : sent[run] < 2
         /\ mon[m].out \in Seq(0..MaxRun) /\ Len(mon[m].out) \in Nat
<1>1. lock = m /\ \A o \in Monitors \ {m} : mon[o].pc = "idle"
  BY DEF OneAtATime
<1> QED
  BY <1>1, NoOneAssumption, MonitorByPc DEF IInv, MonitorsKept, OnceInv

LEMMA ReadLastRunOnce ==
  ASSUME IInv, OneAtATime, OnceInv, NEW m \in Monitors, ReadLastRun(m), faults = 0, faults' = 0
  PROVE  OnceInv'
<1>0. mon[m].pc = "row"
  BY DEF ReadLastRun
<1>1. /\ TypeOK /\ lock = m /\ lock # NoOne /\ Holds(m) /\ InBounds(m) /\ OnRecord
      /\ \A run \in Instruments \X RunNumbers : sent[run] < 2
      /\ mon[m].out \in Seq(0..MaxRun) /\ Len(mon[m].out) \in Nat
  BY <1>0, AtWork
<1>2. UNCHANGED <<lastrun, files, csv, sent, lock>>
  BY DEF ReadLastRun
<1>3. PICK k : k = Row(m)
  OBVIOUS
<1>4. k = Len(mon[m].out) + 1 /\ k <= Len(csv)
  BY <1>3 DEF ReadLastRun, Row
<1>5. k \in 1..Rows /\ csv[k] \in 0..MaxRun /\ csv[k] <= lastrun[k] /\ lastrun[k] \in 0..MaxRun
  BY <1>1, <1>4, BoundsAssumption, SMTT(30) DEF OnRecord, TypeOK, Instruments
<1>6. \A j \in k..Rows : NoneBeyond(sent, j, csv[j])
  BY <1>0, <1>1, <1>3 DEF Holds
<1>7. NoneBeyond(sent, k, csv[k]) /\ \A j \in (k + 1)..Rows : NoneBeyond(sent, j, csv[j])
  BY <1>5, <1>6
<1>8. PICK s : Go(m, s)
  BY DEF ReadLastRun, Done
<1>9. mon'[m] = s /\ \A o \in Monitors \ {m} : mon'[o].pc = "idle"
  BY <1>0, <1>1, <1>8, OthersIdle
<1>10. Holds(m)' /\ mon'[m].pc \in {"row", "submit"}
  <2>1. \A j \in DOMAIN mon[m].out : mon[m].out[j] <= lastrun[j] /\ NoneBeyond(sent, j, mon[m].out[j])
    BY <1>1 DEF Holds
  <2>2. CASE lastrun[k] <= csv[k] /\ Done(m, lastrun[k])
    <3>1. lastrun[k] = csv[k]
      BY <1>5, <2>2
    <3> QED
      BY <1>1, <1>2, <1>3, <1>5, <1>7, <2>1, <2>2, <3>1, DoneOnce
  <2>3. CASE /\ lastrun[k] > csv[k]
             /\ Go(m, [pc |-> "submit", out |-> mon[m].out, run |-> csv[k] + 1, to |-> lastrun[k]])
    <3>1. mon'[m] = [pc |-> "submit", out |-> mon[m].out, run |-> csv[k] + 1, to |-> lastrun[k]]
      BY <1>1, <2>3 DEF Go, TypeOK
    <3>2. /\ mon'[m].pc = "submit" /\ mon'[m].out = mon[m].out /\ mon'[m].run - 1 = csv[k]
          /\ mon'[m].to = lastrun[k]
      BY <1>5, <3>1
    <3>3. Row(m)' = k
      BY <1>3, <3>2 DEF Row
    <3> QED
      BY <1>2, <1>5, <1>7, <2>1, <3>2, <3>3 DEF Holds
  <2>4. ~Fault
    BY DEF Fault
  <2> QED
    BY <1>3, <2>2, <2>3, <2>4 DEF ReadLastRun
<1>11. OnRecord' /\ lock' # NoOne
  BY <1>1, <1>2 DEF OnRecord
<1> QED
  BY <1>1, <1>2, <1>9, <1>10, <1>11, OnceByMonitor

LEMMA SubmitRunOnce ==
  ASSUME IInv, OneAtATime, OnceInv, NEW m \in Monitors, SubmitRun(m), Clean
  PROVE  OnceInv'
<1>0. mon[m].pc = "submit"
  BY DEF SubmitRun
<1>1. /\ TypeOK /\ lock = m /\ lock # NoOne /\ Holds(m) /\ InBounds(m) /\ OnRecord
      /\ \A run \in Instruments \X RunNumbers : sent[run] < 2
      /\ mon[m].out \in Seq(0..MaxRun) /\ Len(mon[m].out) \in Nat
  BY <1>0, AtWork
<1>2. UNCHANGED <<lastrun, files, csv, faults>>
  BY DEF SubmitRun
<1>3. PICK k \in 1..Rows : k = Row(m) /\ k = Len(mon[m].out) + 1
  BY <1>0, <1>1, BoundsAssumption DEF Row, InBounds
<1>4. PICK n \in RunNumbers, l \in RunNumbers :
        /\ mon[m].run = n /\ mon[m].to = l /\ n <= l /\ l <= lastrun[k] /\ mon[m] \in Submitting
        /\ NoneBeyond(sent, k, n - 1)
  BY <1>0, <1>1, <1>3, MonitorByPc DEF InBounds, Holds, Submitting
<1>5. n \in 1..MaxRun /\ l \in 1..MaxRun /\ n - 1 \in 0..MaxRun /\ lastrun[k] \in 0..MaxRun /\ n \in 0..MaxRun
  BY <1>1, <1>4, BoundsAssumption DEF RunNumbers, TypeOK, Instruments
<1>6. /\ \A j \in DOMAIN mon[m].out :
           /\ j \in 1..Rows /\ j # k /\ mon[m].out[j] <= lastrun[j]
           /\ NoneBeyond(sent, j, mon[m].out[j])
      /\ \A j \in (k + 1)..Rows : j \in 1..Rows /\ j # k /\ NoneBeyond(sent, j, csv[j])
  BY <1>0, <1>1, <1>3, BoundsAssumption, SMTT(30) DEF Holds
<1>7. ~(<<k, n>> \in Invalid /\ Found(m))
  BY <1>3, <1>4 DEF Clean, Found
<1>8. CASE MissingFile(m) /\ UNCHANGED <<sent, lock>>
  <2>1. Done(m, n - 1) /\ n - 1 <= lastrun[k]
    BY <1>4, <1>5, <1>8 DEF MissingFile
  <2>2. Holds(m)' /\ mon'[m].pc = "row"
    BY <1>1, <1>2, <1>3, <1>4, <1>5, <1>6, <1>8, <2>1, DoneOnce
  <2>3. \A o \in Monitors \ {m} : mon'[o].pc = "idle"
    BY <1>0, <1>1, <2>1, OthersIdle DEF Done
  <2>4. OnRecord' /\ lock' # NoOne
    BY <1>1, <1>2, <1>8 DEF OnRecord
  <2> QED
    BY <1>1, <1>8, <2>2, <2>3, <2>4, OnceByMonitor
<1>9. CASE Send(<<k, n>>) /\ Proceed(m) /\ UNCHANGED lock
  <2>1. /\ \A run \in Instruments \X RunNumbers : sent'[run] < 2
        /\ NoneBeyond(sent', k, n)
        /\ \A j \in 1..Rows : \A i : j # k /\ NoneBeyond(sent, j, i) => NoneBeyond(sent', j, i)
    BY <1>1, <1>4, <1>9, SendOnce
  <2>2. /\ \A j \in DOMAIN mon[m].out :
             mon[m].out[j] <= lastrun[j] /\ NoneBeyond(sent', j, mon[m].out[j])
        /\ \A j \in (k + 1)..Rows : NoneBeyond(sent', j, csv[j])
    BY <1>6, <2>1
  <2>3. PICK s : Go(m, s)
    BY <1>9 DEF Proceed, Done
  <2>4. \A o \in Monitors \ {m} : mon'[o].pc = "idle"
    BY <1>0, <1>1, <2>3, OthersIdle
  <2>5. Holds(m)' /\ mon'[m].pc \in {"row", "submit"}
    <3>1. CASE n = l
      <4>1. Done(m, n) /\ n <= lastrun[k]
        BY <1>4, <1>9, <3>1 DEF Proceed
      <4> QED
        BY <1>1, <1>2, <1>3, <1>5, <2>1, <2>2, <4>1, DoneOnce
    <3>2. CASE n # l
      <4>1. mon'[m] = [mon[m] EXCEPT !.run = n + 1]
        BY <1>1, <1>4, <1>9, <3>2 DEF Proceed, Go, TypeOK
      <4>2. /\ mon'[m].pc = "submit" /\ mon'[m].out = mon[m].out /\ mon'[m].run = n + 1
            /\ mon'[m].to = l
        BY <1>4, <4>1 DEF Submitting
      <4>3. mon'[m].run - 1 = n /\ Row(m)' = k
        BY <1>3, <1>5, <4>2 DEF Row
      <4> QED
        BY <1>2, <1>4, <2>1, <2>2, <4>2, <4>3 DEF Holds
    <3> QED
      BY <3>1, <3>2
  <2>6. OnRecord' /\ lock' # NoOne
    BY <1>1, <1>2, <1>9 DEF OnRecord
  <2> QED
    BY <2>1, <2>4, <2>5, <2>6, OnceByMonitor
<1> QED
  BY <1>3, <1>4, <1>7, <1>8, <1>9 DEF SubmitRun

LEMMA OpenCsvOnce ==
  ASSUME IInv, OneAtATime, OnceInv, NEW m \in Monitors, OpenCsv(m)
  PROVE  OnceInv'
<1>0. mon[m].pc = "row" /\ Row(m) > Len(csv) /\ UNCHANGED <<lastrun, files, sent, lock, faults>>
  BY DEF OpenCsv
<1>1. /\ TypeOK /\ lock # NoOne /\ Holds(m) /\ InBounds(m) /\ OnRecord
      /\ \A run \in Instruments \X RunNumbers : sent[run] < 2
      /\ Len(mon[m].out) \in Nat /\ mon[m] \in Idling
  BY <1>0, AtWork, MonitorByPc
<1>2. Len(mon[m].out) = Rows
  BY <1>0, <1>1, BoundsAssumption DEF InBounds, OnRecord, Row
<1>3. Go(m, [mon[m] EXCEPT !.pc = "write"])
  BY DEF OpenCsv
<1>4. mon'[m] = [mon[m] EXCEPT !.pc = "write"] /\ \A o \in Monitors \ {m} : mon'[o].pc = "idle"
  BY <1>0, <1>1, <1>3, OthersIdle DEF IInv
<1>5. mon'[m].pc = "write" /\ mon'[m].out = mon[m].out
  BY <1>1, <1>4 DEF Idling
<1>6. Holds(m)'
  BY <1>0, <1>1, <1>2, <1>5 DEF Holds
<1> QED
  BY <1>0, <1>1, <1>4, <1>5, <1>6, OnceByMonitor

LEMMA WriteCsvOnce ==
  ASSUME IInv, OneAtATime, OnceInv, NEW m \in Monitors, WriteCsv(m)
  PROVE  OnceInv'
<1>0. /\ mon[m].pc = "write" /\ csv' = mon[m].out /\ Go(m, Idle) /\ UNCHANGED <<lastrun, files, sent, faults>>
  BY DEF WriteCsv, Release
<1>1. /\ TypeOK /\ Holds(m) /\ \A run \in Instruments \X RunNumbers : sent[run] < 2
      /\ mon[m].out \in Seq(0..MaxRun)
  BY <1>0, AtWork
<1>2. mon'[m] = Idle /\ \A o \in Monitors \ {m} : mon'[o].pc = "idle"
  BY <1>0, <1>1, OthersIdle DEF IInv
<1>3. Len(csv') = Rows /\ DOMAIN csv' = Instruments
  BY <1>0, <1>1 DEF Holds, Instruments
<1>4. \A k \in Instruments : csv'[k] <= lastrun[k] /\ NoneBeyond(sent, k, csv'[k])
  BY <1>0, <1>1, <1>3 DEF Holds
<1>5. OnRecord'
  BY <1>0, <1>3, <1>4 DEF OnRecord
<1>6. mon'[m].pc = "idle"
  BY <1>2 DEF Idle
<1> QED
  BY <1>0, <1>1, <1>2, <1>4, <1>5, <1>6, OnceByMonitor
-----------------------------------------------------------------------------
\* Faults and files stay: what is clean after a step was clean before it.
LEMMA CleanBefore ==
  ASSUME TypeOK, [Next]_vars, Clean'
  PROVE  Clean
<1>1. files \subseteq files'
  BY DEF Next, EndRun, FileArrives, Acquire, Work, ReadLastRun, SubmitRun, OpenCsv, WriteCsv, Kill, vars
<1>2. faults' = faults \/ faults' = faults + 1
  BY DEF Next, EndRun, FileArrives, Acquire, Work, ReadLastRun, SubmitRun, OpenCsv, WriteCsv, Kill, vars, Fault
<1> QED
  BY <1>1, <1>2 DEF Clean, TypeOK

LEMMA OnceStep ==
  ASSUME IInv, OneAtATime, Clean => OnceInv, [Next]_vars
  PROVE  Clean' => OnceInv'
<1> SUFFICES ASSUME Clean' PROVE OnceInv'
  OBVIOUS
<1>1. Clean /\ OnceInv /\ faults = 0 /\ faults' = 0
  BY CleanBefore DEF IInv, Clean
<1>2. ASSUME NEW m \in Monitors, Acquire(m) \/ Work(m) PROVE OnceInv'
  BY <1>1, <1>2, AcquireOnce, ReadLastRunOnce, SubmitRunOnce, OpenCsvOnce, WriteCsvOnce DEF Work
<1>3. ASSUME NEW m \in Monitors, Kill(m) PROVE FALSE
  BY <1>1, <1>3 DEF Kill, Fault
<1>4. ASSUME UNCHANGED <<csv, sent, lock, mon>>,
             \A k \in Instruments : lastrun[k] <= lastrun'[k] /\ lastrun'[k] \in Nat
      PROVE  OnceInv'
  <2>1. ASSUME NEW m \in Monitors, Holds(m) PROVE Holds(m)'
    <3>1. \A k \in DOMAIN mon[m].out : k \in Instruments /\ mon[m].out[k] \in 0..MaxRun
      BY MonitorByPc, BoundsAssumption DEF IInv, MonitorsKept, InBounds, Instruments
    <3>2. mon[m].pc = "submit" => mon[m].to \in 1..MaxRun /\ Row(m) \in Instruments
      BY MonitorByPc, BoundsAssumption DEF IInv, MonitorsKept, InBounds, Instruments, Submitting, RunNumbers, Row
    <3>3. \A k \in Instruments : lastrun[k] \in 0..MaxRun
      BY DEF IInv, TypeOK
    <3>4. \A k \in Instruments : \A n \in 0..MaxRun : n <= lastrun[k] => n <= lastrun'[k]
      BY <1>4, <3>3, BoundsAssumption
    <3>5. \A k \in DOMAIN mon[m].out : mon[m].out[k] <= lastrun'[k]
      BY <2>1, <3>1, <3>4 DEF Holds
    <3>6. mon[m].pc = "submit" => mon[m].to <= lastrun'[Row(m)]
      BY <2>1, <3>2, <3>4, BoundsAssumption DEF Holds
    <3>7. Row(m)' = Row(m)
      BY <1>4 DEF Row
    <3> QED
      BY <1>4, <2>1, <3>5, <3>6, <3>7 DEF Holds
  <2>2. OnRecord => OnRecord'
    <3> SUFFICES ASSUME OnRecord, NEW k \in Instruments PROVE csv[k] <= lastrun'[k]
      BY <1>4 DEF OnRecord
    <3>1. csv \in Seq(0..MaxRun) /\ k \in 1..Len(csv) /\ csv[k] <= lastrun[k]
      BY DEF IInv, TypeOK, OnRecord, Instruments
    <3>2. csv[k] \in 0..MaxRun
      BY <3>1, ElementOfSeq
    <3>3. lastrun[k] \in 0..MaxRun
      BY DEF IInv, TypeOK
    <3> QED
      BY <1>4, <3>1, <3>2, <3>3, BoundsAssumption
  <2> QED
    BY <1>1, <1>4, <2>1, <2>2 DEF OnceInv
<1>5. ASSUME NEW k \in Instruments, EndRun(k) PROVE OnceInv'
  <2>1. lastrun' = [lastrun EXCEPT ![k] = lastrun[k] + 1] /\ \A j \in Instruments : lastrun[j] \in 0..MaxRun
        /\ lastrun \in [Instruments -> 0..MaxRun]
    BY <1>5 DEF EndRun, IInv, TypeOK
  <2>2. \A j \in Instruments : lastrun[j] <= lastrun'[j] /\ lastrun'[j] \in Nat
    BY <2>1, BoundsAssumption
  <2> QED
    BY <1>4, <1>5, <2>2 DEF EndRun
<1>6. CASE UNCHANGED <<lastrun, csv, sent, lock, mon>>
  <2>1. \A j \in Instruments : lastrun[j] <= lastrun'[j] /\ lastrun'[j] \in Nat
    BY <1>6, BoundsAssumption DEF IInv, TypeOK
  <2> QED
    BY <1>4, <1>6, <2>1
<1> QED
  BY <1>2, <1>3, <1>5, <1>6 DEF Next, FileArrives, vars

LEMMA OnceInit ==
  ASSUME Init
  PROVE  OneAtATime /\ OnceInv
<1>1. \A m \in Monitors : mon[m].pc = "idle"
  BY DEF Init, Idle
<1>2. csv = [k \in Instruments |-> 0] /\ Len(csv) = Rows
  BY BoundsAssumption DEF Init, Instruments
<1>3. \A k \in Instruments, n \in RunNumbers : sent[<<k, n>>] = 0
  BY DEF Init
<1>4. \A run \in Instruments \X RunNumbers : sent[run] < 2
  BY DEF Init
<1>5. \A k \in Instruments : csv[k] = 0 /\ lastrun[k] = 0
  BY <1>2 DEF Init
<1> QED
  BY <1>1, <1>2, <1>3, <1>4, <1>5 DEF OneAtATime, OnceInv, OnRecord, NoneBeyond

(***************************************************************************)
(* The lock on the CSV file and the one place where it is written: however *)
(* many monitors cron has started, no run is submitted twice while none    *)
(* was killed, none met an unreadable file and every run validates.        *)
(***************************************************************************)
THEOREM NoneTwice == Spec => []SubmittedOnce
<1>1. Init => IInv /\ OneAtATime /\ (Clean => OnceInv)
  BY InitInv, OnceInit
<1>2. IInv /\ OneAtATime /\ (Clean => OnceInv) /\ [Next]_vars => (IInv /\ OneAtATime /\ (Clean => OnceInv))'
  BY StepInv, LockStep, OnceStep DEF IInv
<1>3. IInv /\ (Clean => OnceInv) => SubmittedOnce
  BY DEF IInv, TypeOK, Clean, OnceInv, SubmittedOnce
<1> QED
  BY <1>1, <1>2, <1>3, PTL DEF Spec
=============================================================================
