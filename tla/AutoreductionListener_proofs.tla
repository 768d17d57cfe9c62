-------------------- MODULE AutoreductionListener_proofs --------------------
(***************************************************************************)
(* Theorems about the reduction node's listener, for any set of messages   *)
(* and any number of restarts: the types, and that a cancellation is used  *)
(* once, whatever the two threads do to each other; and, when the threads' *)
(* calls do not overlap and until the daemon is restarted, that no two     *)
(* children reduce data of one experiment, that every child can be found,  *)
(* and that no child is started for a run whose cancellation is noted.     *)
(***************************************************************************)
EXTENDS AutoreductionListener, Extrema, FiniteSetTheorems

Busy(t) == thread[t].pc \notin {"free", "dead"}

\* What each step of a call has made sure of, beside its types.
Sound(s) ==
  /\ s.pc \in {"scan", "index", "pop", "popRb"} => s.cursor # 0 /\ (s.next = "proceed" => s.m \in Jobs)
  /\ s.pc \in {"pop", "popRb"} => s.index # 0
  /\ s.pc \in {"proceed", "cancelled", "drop", "spawn", "append", "appendRb"} => s.m \in Jobs
  /\ s.pc = "proceed" => s.next = "proceed"

TypeInv == TypeOK /\ \A t \in Threads : Sound(thread[t])
-----------------------------------------------------------------------------
LEMMA Joined ==
  ASSUME NEW S, NEW a \in Seq(S), NEW b \in Seq(S)
  PROVE  /\ a \o b \in Seq(S) /\ Len(a \o b) = Len(a) + Len(b)
         /\ \A i \in 1..(Len(a) + Len(b)) :
              (a \o b)[i] = IF i <= Len(a) THEN a[i] ELSE b[i - Len(a)]
OBVIOUS

\* list.pop(index) and list.index(element).
LEMMA WithoutElement ==
  ASSUME NEW S, NEW s \in Seq(S), NEW k \in 1..Len(s)
  PROVE  /\ Without(s, k) \in Seq(S) /\ Len(Without(s, k)) = Len(s) - 1
         /\ \A i \in 1..(Len(s) - 1) : Without(s, k)[i] = IF i < k THEN s[i] ELSE s[i + 1]
<1> DEFINE front == SubSeq(s, 1, k - 1)
           back == SubSeq(s, k + 1, Len(s))
<1>1. /\ front \in Seq(S) /\ Len(front) = k - 1
      /\ \A i \in 1..(k - 1) : front[i] = s[i]
  OBVIOUS
<1>2. /\ back \in Seq(S) /\ Len(back) = Len(s) - k
      /\ \A i \in 1..(Len(s) - k) : back[i] = s[i + k]
  OBVIOUS
<1> HIDE DEF front, back
<1>3. /\ front \o back \in Seq(S) /\ Len(front \o back) = Len(s) - 1
      /\ \A i \in 1..(Len(s) - 1) :
           (front \o back)[i] = IF i < k THEN front[i] ELSE back[i - (k - 1)]
  <2>0. front \in Seq(S) /\ back \in Seq(S)
    BY <1>1, <1>2
  <2>1. front \o back \in Seq(S) /\ Len(front \o back) = (k - 1) + (Len(s) - k)
    <3>1. front \o back \in Seq(S) /\ Len(front \o back) = Len(front) + Len(back)
      BY <2>0, Joined
    <3> QED
      BY <1>1, <1>2, <3>1, Zenon
  <2>2. \A i \in 1..((k - 1) + (Len(s) - k)) :
          (front \o back)[i] = IF i <= k - 1 THEN front[i] ELSE back[i - (k - 1)]
    <3>1. \A i \in 1..(Len(front) + Len(back)) :
            (front \o back)[i] = IF i <= Len(front) THEN front[i] ELSE back[i - Len(front)]
      BY <2>0, Joined
    <3> QED
      BY <1>1, <1>2, <3>1, Zenon
  <2>3. (k - 1) + (Len(s) - k) = Len(s) - 1
    <3>1. Len(s) \in Nat /\ k \in Int
      OBVIOUS
    <3>2. \A l \in Nat : (k - 1) + (l - k) = l - 1
      BY <3>1
    <3> QED
      BY <3>1, <3>2
  <2>4. \A i \in 1..(Len(s) - 1) : i <= k - 1 <=> i < k
    OBVIOUS
  <2> QED
    BY <2>1, <2>2, <2>3, <2>4
<1>4. ASSUME NEW i \in 1..(Len(s) - 1)
      PROVE  (front \o back)[i] = IF i < k THEN s[i] ELSE s[i + 1]
  <2>1. CASE i < k
    BY <1>1, <1>3, <2>1
  <2>2. CASE ~(i < k)
    <3>1. i - (k - 1) \in 1..(Len(s) - k) /\ (i - (k - 1)) + k = i + 1
      BY <2>2
    <3> QED
      BY <1>2, <1>3, <2>2, <3>1
  <2> QED
    BY <2>1, <2>2
<1> QED
  BY <1>3, <1>4 DEF Without, front, back

LEMMA FirstIndexFound ==
  ASSUME NEW S, NEW s \in Seq(S), NEW e \in Elements(s)
  PROVE  FirstIndex(s, e) \in DOMAIN s /\ s[FirstIndex(s, e)] = e
<1> DEFINE K == {k \in DOMAIN s : s[k] = e}
<1>1. K \in SUBSET Nat /\ K # {}
  BY DEF Elements
<1>2. PICK k \in K : \A l \in K : k <= l
  BY <1>1, LeastExists
<1>3. k \in DOMAIN s /\ s[k] = e /\ \A l \in 1..(k - 1) : s[l] # e
  <2>1. ASSUME NEW l \in 1..(k - 1) PROVE s[l] # e
    <3>1. l \in DOMAIN s /\ ~(k <= l)
      BY <1>2
    <3> QED
      BY <1>2, <3>1
  <2> QED
    BY <1>2, <2>1
<1> QED
  BY <1>3 DEF FirstIndex

LEMMA RunTuple ==
  ASSUME NEW m \in Messages
  PROVE  run_tuple(m) \in Number \X Nat /\ m.rb \in Number
BY MessageAssumption DEF run_tuple, Number

LEMMA ThreadByPc ==
  ASSUME TypeOK, NEW t \in Threads
  PROVE  LET s == thread[t] IN
         /\ s.pc \in {"scan", "index", "pop", "popRb", "received", "proceed"} =>
              s.m \in Messages /\ s.cursor \in Nat /\ s.next \in {"received", "proceed"}
         /\ s.pc = "scan" => s = [pc |-> "scan", m |-> s.m, cursor |-> s.cursor, next |-> s.next]
         /\ s.pc = "index" =>
              /\ s = [pc |-> "index", m |-> s.m, cursor |-> s.cursor, next |-> s.next,
                      process |-> s.process]
              /\ s.process \in Jobs
         /\ s.pc \in {"pop", "popRb"} =>
              /\ s = [pc |-> s.pc, m |-> s.m, cursor |-> s.cursor, next |-> s.next, index |-> s.index]
              /\ s.index \in Nat
         /\ s.pc \in {"received", "proceed"} =>
              s = [pc |-> s.pc, m |-> s.m, cursor |-> s.cursor, next |-> s.next]
         /\ s.pc \in {"cancelled", "drop", "spawn", "append", "appendRb"} =>
              /\ s = [pc |-> s.pc, m |-> s.m, cursor |-> s.cursor, next |-> s.next]
              /\ s.m \in Messages /\ s.cursor \in Nat /\ s.next = "proceed"
BY DEF TypeOK, ThreadState, Free, Dead

\* A thread goes on to another step of its call, or ends it.
LEMMA GoSound ==
  ASSUME TypeInv, NEW t \in Threads, NEW s \in ThreadState, Sound(s), Go(t, s)
  PROVE  /\ thread' \in [Threads -> ThreadState] /\ thread'[t] = s
         /\ \A u \in Threads : u # t => thread'[u] = thread[u]
         /\ \A u \in Threads : Sound(thread'[u])
BY DEF TypeInv, TypeOK, Go

LEMMA FreeSound ==
  Free \in ThreadState /\ Sound(Free) /\ Dead \in ThreadState /\ Sound(Dead)
BY DEF ThreadState, Sound, Free, Dead

LEMMA ScanSound ==
  ASSUME NEW m \in Messages, NEW c \in Nat \ {0}, NEW n \in {"received", "proceed"},
         n = "proceed" => m \in Jobs
  PROVE  /\ [Scan(m, n) EXCEPT !.cursor = c] \in ThreadState
         /\ Sound([Scan(m, n) EXCEPT !.cursor = c])
         /\ [Scan(m, n) EXCEPT !.cursor = c].pc = "scan" /\ [Scan(m, n) EXCEPT !.cursor = c].m = m
BY DEF ThreadState, Sound, Scan

LEMMA ScanStarts ==
  ASSUME NEW m \in Messages, NEW n \in {"received", "proceed"}, n = "proceed" => m \in Jobs
  PROVE  Scan(m, n) \in ThreadState /\ Sound(Scan(m, n))
BY DEF ThreadState, Sound, Scan

\* What the reactor is asked for, and what it makes of it.
LEMMA CallLaterTypes ==
  ASSUME TypeOK, NEW t \in Threads, NEW m \in Jobs, callLater(t, m)
  PROVE  held' \in SUBSET Jobs /\ reactor' \in ReactorState
BY DEF callLater, TypeOK, ReactorState

\* The steps that only move a thread on.
LEMMA TypesStay ==
  ASSUME TypeInv, NEW t \in Threads, NEW s \in ThreadState, Sound(s), Go(t, s),
         UNCHANGED <<pending, held, proc_list, rb_list, cancel_list, running, dropped, reactor, restarts>>
  PROVE  TypeInv'
<1>1. thread' \in [Threads -> ThreadState] /\ \A u \in Threads : Sound(thread'[u])
  BY GoSound
<1>2. TypeOK'
  BY <1>1 DEF TypeInv, TypeOK
<1> QED
  BY <1>1, <1>2 DEF TypeInv, Sound

LEMMA ScanType ==
  ASSUME TypeInv, NEW t \in Threads, PollChild(t) \/ FindIndex(t) \/ PopProcess(t) \/ PopRb(t)
  PROVE  TypeInv'
<1>0. TypeOK /\ Sound(thread[t])
  BY DEF TypeInv
<1> DEFINE s == thread[t]
<1>1. CASE PollChild(t)
  <2>1. /\ s.pc = "scan" /\ s.m \in Messages /\ s.cursor \in Nat \ {0}
        /\ s.next \in {"received", "proceed"} /\ (s.next = "proceed" => s.m \in Jobs)
        /\ s = [pc |-> "scan", m |-> s.m, cursor |-> s.cursor, next |-> s.next]
    BY <1>0, <1>1, ThreadByPc DEF PollChild, Sound
  <2>2. UNCHANGED <<pending, held, proc_list, rb_list, cancel_list, running, dropped, reactor, restarts>>
    BY <1>1 DEF PollChild
  <2>3. CASE Goto(t, s.next)
    <3>1. [s EXCEPT !.pc = s.next] = [pc |-> s.next, m |-> s.m, cursor |-> s.cursor, next |-> s.next]
      BY <2>1
    <3>2. [s EXCEPT !.pc = s.next] \in ThreadState /\ Sound([s EXCEPT !.pc = s.next])
      BY <2>1, <3>1 DEF ThreadState, Sound
    <3> QED
      BY <2>2, <2>3, <3>2, TypesStay DEF Goto
  <2>4. CASE Go(t, [s EXCEPT !.cursor = @ + 1])
    <3>1. [s EXCEPT !.cursor = @ + 1] = [pc |-> "scan", m |-> s.m, cursor |-> s.cursor + 1, next |-> s.next]
      BY <2>1
    <3>2. s.cursor + 1 \in Nat \ {0}
      BY <2>1
    <3>3. [s EXCEPT !.cursor = @ + 1] \in ThreadState /\ Sound([s EXCEPT !.cursor = @ + 1])
      BY <2>1, <3>1, <3>2 DEF ThreadState, Sound
    <3> QED
      BY <2>2, <2>4, <3>3, TypesStay
  <2>5. CASE /\ s.cursor <= Len(proc_list)
             /\ Go(t, [pc |-> "index", m |-> s.m, cursor |-> s.cursor, next |-> s.next,
                       process |-> proc_list[s.cursor]])
    <3>1. proc_list[s.cursor] \in Jobs
      BY <1>0, <2>1, <2>5 DEF TypeOK
    <3>2. PICK p \in Jobs : p = proc_list[s.cursor]
      BY <3>1
    <3> DEFINE n == [pc |-> "index", m |-> s.m, cursor |-> s.cursor, next |-> s.next, process |-> p]
    <3>3. n \in ThreadState /\ Sound(n)
      BY <2>1, <3>2 DEF ThreadState, Sound
    <3> QED
      BY <2>2, <2>5, <3>2, <3>3, TypesStay
  <2>6. s.cursor > Len(proc_list) \/ s.cursor <= Len(proc_list)
    BY <1>0, <2>1 DEF TypeOK
  <2> QED
    BY <1>1, <2>3, <2>4, <2>5, <2>6 DEF PollChild
<1>2. CASE FindIndex(t)
  <2>1. /\ s.pc = "index" /\ s.m \in Messages /\ s.cursor \in Nat \ {0}
        /\ s.next \in {"received", "proceed"} /\ (s.next = "proceed" => s.m \in Jobs)
    BY <1>0, <1>2, ThreadByPc DEF FindIndex, Sound
  <2>2. UNCHANGED <<pending, held, proc_list, rb_list, cancel_list, running, dropped, reactor, restarts>>
    BY <1>2 DEF FindIndex
  <2>3. CASE Raise(t)
    BY <2>2, <2>3, FreeSound, TypesStay DEF Raise
  <2>4. CASE s.process \in Elements(proc_list) /\ ~Raise(t)
    <3>1. PICK k \in Nat \ {0} : k = FirstIndex(proc_list, s.process)
      BY <1>0, <2>4, FirstIndexFound DEF TypeOK
    <3> DEFINE n == [pc |-> "pop", m |-> s.m, cursor |-> s.cursor, next |-> s.next, index |-> k]
    <3>2. n \in ThreadState /\ Sound(n)
      BY <2>1 DEF ThreadState, Sound
    <3>3. Go(t, n)
      BY <1>2, <2>4, <3>1 DEF FindIndex
    <3> QED
      BY <2>2, <3>2, <3>3, TypesStay
  <2> QED
    BY <1>2, <2>3, <2>4 DEF FindIndex
<1>3. CASE PopProcess(t)
  <2>1. /\ s.pc = "pop" /\ s.m \in Messages /\ s.cursor \in Nat \ {0} /\ s.index \in Nat \ {0}
        /\ s.next \in {"received", "proceed"} /\ (s.next = "proceed" => s.m \in Jobs)
        /\ s = [pc |-> s.pc, m |-> s.m, cursor |-> s.cursor, next |-> s.next, index |-> s.index]
    BY <1>0, <1>3, ThreadByPc DEF PopProcess, Sound
  <2>2. UNCHANGED <<pending, held, rb_list, cancel_list, running, dropped, reactor, restarts>>
    BY <1>3 DEF PopProcess
  <2>3. CASE UNCHANGED proc_list /\ Raise(t)
    BY <2>2, <2>3, FreeSound, TypesStay DEF Raise
  <2>4. CASE s.index <= Len(proc_list) /\ proc_list' = Without(proc_list, s.index) /\ Goto(t, "popRb")
    <3>1. proc_list' \in Seq(Jobs)
      BY <1>0, <2>1, <2>4, WithoutElement DEF TypeOK
    <3>2. [s EXCEPT !.pc = "popRb"] =
            [pc |-> "popRb", m |-> s.m, cursor |-> s.cursor, next |-> s.next, index |-> s.index]
      BY <2>1
    <3>3. [s EXCEPT !.pc = "popRb"] \in ThreadState /\ Sound([s EXCEPT !.pc = "popRb"])
      BY <2>1, <3>2 DEF ThreadState, Sound
    <3>4. thread' \in [Threads -> ThreadState] /\ \A u \in Threads : Sound(thread'[u])
      BY <2>4, <3>3, GoSound DEF Goto
    <3>5. TypeOK'
      BY <1>0, <2>2, <3>1, <3>4 DEF TypeOK
    <3> QED
      BY <3>4, <3>5 DEF TypeInv, Sound
  <2> QED
    BY <1>3, <2>3, <2>4 DEF PopProcess
<1>4. CASE PopRb(t)
  <2>1. /\ s.pc = "popRb" /\ s.m \in Messages /\ s.cursor \in Nat \ {0} /\ s.index \in Nat \ {0}
        /\ s.next \in {"received", "proceed"} /\ (s.next = "proceed" => s.m \in Jobs)
    BY <1>0, <1>4, ThreadByPc DEF PopRb, Sound
  <2>2. UNCHANGED <<pending, held, proc_list, cancel_list, running, dropped, reactor, restarts>>
    BY <1>4 DEF PopRb
  <2>3. CASE UNCHANGED rb_list /\ Raise(t)
    BY <2>2, <2>3, FreeSound, TypesStay DEF Raise
  <2>4. CASE /\ s.index <= Len(rb_list) /\ rb_list' = Without(rb_list, s.index)
             /\ Go(t, [Scan(s.m, s.next) EXCEPT !.cursor = s.cursor + 1])
    <3>1. rb_list' \in Seq(Number)
      <4>1. rb_list \in Seq(Number) /\ s.index \in 1..Len(rb_list) /\ rb_list' = Without(rb_list, s.index)
        BY <1>0, <2>1, <2>4 DEF TypeOK
      <4> QED
        BY <4>1, WithoutElement
    <3>2. s.cursor + 1 \in Nat \ {0}
      BY <2>1
    <3>3. thread' \in [Threads -> ThreadState] /\ \A u \in Threads : Sound(thread'[u])
      <4>1. PICK n : n = [Scan(s.m, s.next) EXCEPT !.cursor = s.cursor + 1]
        OBVIOUS
      <4>2. n \in ThreadState /\ Sound(n)
        BY <2>1, <3>2, <4>1, ScanSound
      <4>3. Go(t, n)
        BY <2>4, <4>1
      <4> QED
        BY <4>2, <4>3, GoSound
    <3>4. TypeOK'
      BY <1>0, <2>2, <3>1, <3>3 DEF TypeOK
    <3> QED
      BY <3>3, <3>4 DEF TypeInv, Sound
  <2> QED
    BY <1>4, <2>3, <2>4 DEF PopRb
<1> QED
  BY <1>1, <1>2, <1>3, <1>4

\* Where a job is on its way to a child: the call's steps after the scan.
LEMMA CallSound ==
  ASSUME TypeInv, NEW t \in Threads, thread[t].pc \in {"proceed", "cancelled", "drop", "spawn", "append"},
         NEW p \in {"cancelled", "drop", "spawn", "append", "appendRb"}
  PROVE  /\ [thread[t] EXCEPT !.pc = p] \in ThreadState /\ Sound([thread[t] EXCEPT !.pc = p])
         /\ [thread[t] EXCEPT !.pc = p].pc = p /\ [thread[t] EXCEPT !.pc = p].m = thread[t].m
         /\ thread[t].m \in Jobs
<1> DEFINE s == thread[t]
<1>1. TypeOK /\ Sound(s)
  BY DEF TypeInv
<1>2. /\ s.m \in Jobs /\ s.cursor \in Nat /\ s.next = "proceed"
      /\ s = [pc |-> s.pc, m |-> s.m, cursor |-> s.cursor, next |-> s.next]
  BY <1>1, ThreadByPc DEF Sound
<1>3. [s EXCEPT !.pc = p] = [pc |-> p, m |-> s.m, cursor |-> s.cursor, next |-> "proceed"]
  BY <1>2
<1> QED
  BY <1>2, <1>3 DEF ThreadState, Sound, Jobs

LEMMA CallType ==
  ASSUME TypeInv, NEW t \in Threads,
         \/ add_cancel(t) \/ CallHold(t) \/ should_proceed(t) \/ should_cancel(t) \/ cancel_run(t)
         \/ Popen(t) \/ AppendProcess(t) \/ AppendRb(t)
  PROVE  TypeInv'
<1> DEFINE s == thread[t]
<1>0. TypeOK /\ Sound(s)
  BY DEF TypeInv
<1>1. ASSUME thread' \in [Threads -> ThreadState] /\ \A u \in Threads : Sound(thread'[u]), TypeOK'
      PROVE  TypeInv'
  BY <1>1 DEF TypeInv, Sound
<1>2. ASSUME End(t) \/ Raise(t)
      PROVE  thread' \in [Threads -> ThreadState] /\ \A u \in Threads : Sound(thread'[u])
  BY <1>2, FreeSound, GoSound DEF End, Raise
<1>3. CASE add_cancel(t)
  <2>1. s.m \in Messages /\ cancel_list' = cancel_list \cup {run_tuple(s.m)} /\ End(t)
        /\ UNCHANGED <<pending, held, proc_list, rb_list, running, dropped, reactor, restarts>>
    BY <1>0, <1>3, ThreadByPc DEF add_cancel
  <2>2. cancel_list' \subseteq Number \X Nat
    BY <1>0, <2>1, RunTuple DEF TypeOK
  <2>3. TypeOK'
    BY <1>0, <1>2, <2>1, <2>2 DEF TypeOK
  <2> QED
    BY <1>1, <1>2, <2>1, <2>3
<1>4. CASE CallHold(t)
  <2>1. s.m \in Jobs /\ Go(t, Scan(s.m, "proceed"))
        /\ UNCHANGED <<pending, held, proc_list, rb_list, cancel_list, running, dropped, reactor, restarts>>
    BY <1>0, <1>4, ThreadByPc DEF CallHold, Jobs
  <2> QED
    BY <2>1, ScanStarts, TypesStay DEF Jobs
<1>5. CASE should_proceed(t)
  <2>1. s.pc = "proceed" /\ s.m \in Jobs
        /\ UNCHANGED <<pending, proc_list, rb_list, cancel_list, running, dropped, restarts>>
    BY <1>0, <1>5 DEF should_proceed, Sound
  <2>2. CASE callLater(t, s.m) /\ End(t)
    <3>1. held' \in SUBSET Jobs /\ reactor' \in ReactorState
      BY <1>0, <2>1, <2>2, CallLaterTypes
    <3>2. TypeOK'
      BY <1>0, <1>2, <2>1, <2>2, <3>1 DEF TypeOK
    <3> QED
      BY <1>1, <1>2, <2>2, <3>2
  <2>3. CASE UNCHANGED <<held, reactor>> /\ Goto(t, "cancelled")
    BY <2>1, <2>3, CallSound, TypesStay DEF Goto
  <2> QED
    BY <1>5, <2>2, <2>3 DEF should_proceed
<1>6. CASE should_cancel(t)
  <2>1. PICK p \in {"drop", "spawn"} : Goto(t, p)
    BY <1>6 DEF should_cancel
  <2> QED
    BY <1>6, <2>1, CallSound, TypesStay DEF should_cancel, Goto
<1>7. CASE cancel_run(t)
  <2>1. s.m \in Jobs /\ UNCHANGED <<pending, held, proc_list, rb_list, running, reactor, restarts>>
        /\ cancel_list' \subseteq cancel_list /\ dropped' \subseteq dropped \cup {s.m}
        /\ (End(t) \/ Raise(t))
    BY <1>0, <1>7 DEF cancel_run, Sound
  <2>2. TypeOK'
    BY <1>0, <1>2, <2>1 DEF TypeOK
  <2> QED
    BY <1>1, <1>2, <2>1, <2>2
<1>8. CASE Popen(t)
  <2>1. s.pc = "spawn" /\ Goto(t, "append") /\ running' = running \cup {s.m}
        /\ reactor' = [reactor EXCEPT !.own = @ \cup {s.m}]
        /\ UNCHANGED <<pending, held, proc_list, rb_list, cancel_list, dropped, restarts>>
    BY <1>8 DEF Popen
  <2>2. s.m \in Jobs /\ thread' \in [Threads -> ThreadState] /\ \A u \in Threads : Sound(thread'[u])
    BY <2>1, CallSound, GoSound DEF Goto
  <2>3. reactor' \in ReactorState
    BY <1>0, <2>1, <2>2 DEF TypeOK, ReactorState
  <2>4. TypeOK'
    BY <1>0, <2>1, <2>2, <2>3 DEF TypeOK
  <2> QED
    BY <1>1, <2>2, <2>4
<1>9. CASE AppendProcess(t)
  <2>1. s.pc = "append" /\ Goto(t, "appendRb") /\ proc_list' = Append(proc_list, s.m)
        /\ UNCHANGED <<pending, held, rb_list, cancel_list, running, dropped, reactor, restarts>>
    BY <1>9 DEF AppendProcess
  <2>2. s.m \in Jobs /\ thread' \in [Threads -> ThreadState] /\ \A u \in Threads : Sound(thread'[u])
    BY <2>1, CallSound, GoSound DEF Goto
  <2>3. proc_list' \in Seq(Jobs)
    BY <1>0, <2>1, <2>2 DEF TypeOK
  <2>4. TypeOK'
    BY <1>0, <2>1, <2>2, <2>3 DEF TypeOK
  <2> QED
    BY <1>1, <2>2, <2>4
<1>10. CASE AppendRb(t)
  <2>1. s.m \in Messages /\ End(t) /\ rb_list' = Append(rb_list, s.m.rb)
        /\ UNCHANGED <<pending, held, proc_list, cancel_list, running, dropped, reactor, restarts>>
    BY <1>0, <1>10, ThreadByPc DEF AppendRb
  <2>2. rb_list' \in Seq(Number)
    <3>1. PICK b \in Number : b = s.m.rb
      BY <2>1, RunTuple
    <3> QED
      BY <1>0, <2>1, <3>1 DEF TypeOK
  <2>3. TypeOK'
    BY <1>0, <1>2, <2>1, <2>2 DEF TypeOK
  <2> QED
    BY <1>1, <1>2, <2>1, <2>3
<1> QED
  BY <1>3, <1>4, <1>5, <1>6, <1>7, <1>8, <1>9, <1>10

LEMMA TypeInit ==
  ASSUME Init
  PROVE  TypeInv
<1>1. \A t \in Threads : thread[t] = Free
  BY DEF Init
<1>2. thread \in [Threads -> ThreadState] /\ \A t \in Threads : Sound(thread[t])
  BY <1>1, FreeSound DEF Init
<1>3. reactor \in ReactorState
  BY DEF Init, Started, ReactorState
<1> QED
  BY <1>2, <1>3, BoundsAssumption DEF TypeInv, TypeOK, Init

LEMMA TypeStep ==
  ASSUME TypeInv, [Next]_vars
  PROVE  TypeInv'
<1>0. TypeOK /\ "receiver" \in Threads /\ "reactor" \in Threads
  BY DEF TypeInv, Threads
<1>1. ASSUME NEW m \in Messages, on_message(m) PROVE TypeInv'
  <2>1. Go("receiver", Scan(m, "received")) /\ pending' \subseteq pending
        /\ UNCHANGED <<held, proc_list, rb_list, cancel_list, running, dropped, reactor, restarts>>
    BY <1>1 DEF on_message
  <2>2. thread' \in [Threads -> ThreadState] /\ \A u \in Threads : Sound(thread'[u])
    BY <1>0, <2>1, ScanStarts, GoSound
  <2>3. TypeOK'
    BY <1>0, <2>1, <2>2 DEF TypeOK
  <2> QED
    BY <2>2, <2>3 DEF TypeInv, Sound
<1>2. ASSUME NEW m \in Messages, hold_message(m) PROVE TypeInv'
  <2>1. m \in Jobs /\ Go("reactor", Scan(m, "proceed")) /\ held' \subseteq held
        /\ reactor' = [reactor EXCEPT !.awake = TRUE, !.new = {}]
        /\ UNCHANGED <<pending, proc_list, rb_list, cancel_list, running, dropped, restarts>>
    BY <1>0, <1>2 DEF hold_message, TypeOK
  <2>2. thread' \in [Threads -> ThreadState] /\ \A u \in Threads : Sound(thread'[u])
    BY <1>0, <2>1, ScanStarts, GoSound
  <2>3. reactor' \in ReactorState
    BY <1>0, <2>1 DEF TypeOK, ReactorState
  <2>4. TypeOK'
    BY <1>0, <2>1, <2>2, <2>3 DEF TypeOK
  <2> QED
    BY <2>2, <2>4 DEF TypeInv, Sound
<1>3. ASSUME NEW m \in Messages, ChildExit(m) PROVE TypeInv'
  <2>1. reactor' \in ReactorState
    BY <1>0, <1>3 DEF ChildExit, TypeOK, ReactorState
  <2> QED
    BY <1>3, <2>1 DEF ChildExit, TypeInv, TypeOK, Sound
<1>4. CASE Restart
  <2>1. thread' \in [Threads -> ThreadState] /\ \A u \in Threads : Sound(thread'[u])
    BY <1>4, FreeSound DEF Restart
  <2>2. reactor' \in ReactorState
    BY <1>0, <1>4 DEF Restart, TypeOK, ReactorState, Started
  <2>3. TypeOK'
    BY <1>0, <1>4, <2>1, <2>2, BoundsAssumption DEF Restart, TypeOK
  <2> QED
    BY <2>1, <2>3 DEF TypeInv, Sound
<1>5. CASE Listen
  <2>1. reactor' \in ReactorState
    BY <1>0, <1>5 DEF Listen, TypeOK, ReactorState
  <2> QED
    BY <1>5, <2>1 DEF Listen, TypeInv, TypeOK, Sound
<1>6. CASE UNCHANGED vars
  BY <1>6 DEF vars, TypeInv, TypeOK, Sound
<1> QED
  BY <1>1, <1>2, <1>3, <1>4, <1>5, <1>6, ScanType, CallType DEF Next, Advance

LEMMA TypeInvariance == Spec => []TypeInv
<1> QED
  BY TypeInit, TypeStep, PTL DEF Spec

(***************************************************************************)
(* Whatever the two threads do to the lists they share, the lists hold     *)
(* children, RB numbers and runs to drop, and each call holds what its     *)
(* next step needs.                                                        *)
(***************************************************************************)
THEOREM TypeCorrect == Spec => []TypeOK
BY TypeInvariance, PTL DEF TypeInv
-----------------------------------------------------------------------------
(***************************************************************************)
(* What a step of thread t does with the message of its call.              *)
(***************************************************************************)
Carries(t) ==
  Busy(t)' /\ thread'[t].m = thread[t].m /\ UNCHANGED <<held, dropped, cancel_list>>
Leaves(t) == ~Busy(t)' /\ UNCHANGED <<held, dropped, cancel_list>>
HandsBack(t) ==
  /\ ~Busy(t)' /\ thread[t].m \in Jobs
  /\ held' \in {held, held \cup {thread[t].m}} /\ UNCHANGED <<dropped, cancel_list>>
Drops(t) ==
  /\ ~Busy(t)' /\ thread[t].m \in Jobs /\ run_tuple(thread[t].m) \in cancel_list
  /\ cancel_list' = cancel_list \ {run_tuple(thread[t].m)}
  /\ dropped' = dropped \cup {thread[t].m} /\ UNCHANGED held
Notes(t) ==
  /\ ~Busy(t)' /\ thread[t].m \in Messages /\ thread[t].m.cancel
  /\ cancel_list' = cancel_list \cup {run_tuple(thread[t].m)} /\ UNCHANGED <<held, dropped>>

Moves(t) ==
  /\ Busy(t) /\ UNCHANGED <<pending, restarts>>
  /\ \A u \in Threads : u # t => thread'[u] = thread[u]
  /\ Carries(t) \/ Leaves(t) \/ HandsBack(t) \/ Drops(t) \/ Notes(t)

LEMMA Idles ==
  ASSUME TypeOK, NEW t \in Threads, End(t) \/ Raise(t)
  PROVE  ~Busy(t)' /\ \A u \in Threads : u # t => thread'[u] = thread[u]
BY DEF TypeOK, End, Raise, Go, Free, Dead, Busy

LEMMA GoesOn ==
  ASSUME TypeOK, NEW t \in Threads, NEW s, Go(t, s), s.pc \notin {"free", "dead"}, s.m = thread[t].m
  PROVE  /\ Busy(t)' /\ thread'[t].m = thread[t].m
         /\ \A u \in Threads : u # t => thread'[u] = thread[u]
BY DEF TypeOK, Go, Busy

LEMMA AdvanceMoves ==
  ASSUME TypeInv, NEW t \in Threads, Advance(t)
  PROVE  Moves(t)
<1> DEFINE s == thread[t]
<1>0. TypeOK /\ Sound(s)
  BY DEF TypeInv
<1>1. ASSUME UNCHANGED <<pending, held, dropped, cancel_list, restarts>>, Busy(t),
             \/ End(t) \/ Raise(t)
             \/ \E n : Go(t, n) /\ n.pc \notin {"free", "dead"} /\ n.m = s.m
      PROVE  Moves(t)
  <2>1. CASE End(t) \/ Raise(t)
    BY <1>0, <1>1, <2>1, Idles DEF Moves, Leaves
  <2>2. ASSUME NEW n, Go(t, n), n.pc \notin {"free", "dead"}, n.m = s.m PROVE Moves(t)
    BY <1>0, <1>1, <2>2, GoesOn DEF Moves, Carries
  <2> QED
    BY <1>1, <2>1, <2>2
<1>2. CASE PollChild(t)
  <2>1. /\ s.pc = "scan" /\ s.next \in {"received", "proceed"}
        /\ s = [pc |-> "scan", m |-> s.m, cursor |-> s.cursor, next |-> s.next]
        /\ UNCHANGED <<pending, held, dropped, cancel_list, restarts>> /\ Busy(t)
    BY <1>0, <1>2, ThreadByPc DEF PollChild, Busy
  <2>2. PICK n : /\ Go(t, n)
                 /\ \/ n = [s EXCEPT !.pc = s.next]
                    \/ n = [s EXCEPT !.cursor = @ + 1]
                    \/ n = [pc |-> "index", m |-> s.m, cursor |-> s.cursor, next |-> s.next,
                            process |-> proc_list[s.cursor]]
    BY <1>2 DEF PollChild, Goto
  <2>3. n.pc \notin {"free", "dead"} /\ n.m = s.m
    <3>1. CASE n = [s EXCEPT !.pc = s.next]
      BY <2>1, <3>1
    <3>2. CASE n = [s EXCEPT !.cursor = @ + 1]
      BY <2>1, <3>2
    <3>3. CASE n = [pc |-> "index", m |-> s.m, cursor |-> s.cursor, next |-> s.next,
                    process |-> proc_list[s.cursor]]
      BY <3>3
    <3> QED
      BY <2>2, <3>1, <3>2, <3>3
  <2> QED
    BY <1>1, <2>1, <2>2, <2>3
<1>3. CASE FindIndex(t)
  <2>1. /\ UNCHANGED <<pending, held, dropped, cancel_list, restarts>> /\ Busy(t)
        /\ \/ Raise(t)
           \/ Go(t, [pc |-> "pop", m |-> s.m, cursor |-> s.cursor, next |-> s.next,
                     index |-> FirstIndex(proc_list, s.process)])
    BY <1>3 DEF FindIndex, Busy
  <2> QED
    BY <1>1, <2>1
<1>4. CASE PopProcess(t)
  <2>1. /\ UNCHANGED <<pending, held, dropped, cancel_list, restarts>> /\ Busy(t)
        /\ Raise(t) \/ Go(t, [s EXCEPT !.pc = "popRb"])
    BY <1>4 DEF PopProcess, Busy, Goto
  <2>2. s = [pc |-> s.pc, m |-> s.m, cursor |-> s.cursor, next |-> s.next, index |-> s.index]
    BY <1>0, <1>4, ThreadByPc DEF PopProcess
  <2>3. [s EXCEPT !.pc = "popRb"].m = s.m /\ [s EXCEPT !.pc = "popRb"].pc = "popRb"
    BY <2>2
  <2> QED
    BY <1>1, <2>1, <2>3
<1>5. CASE PopRb(t)
  <2>1. /\ UNCHANGED <<pending, held, dropped, cancel_list, restarts>> /\ Busy(t)
        /\ Raise(t) \/ Go(t, [Scan(s.m, s.next) EXCEPT !.cursor = s.cursor + 1])
    BY <1>5 DEF PopRb, Busy
  <2>2. /\ [Scan(s.m, s.next) EXCEPT !.cursor = s.cursor + 1].m = s.m
        /\ [Scan(s.m, s.next) EXCEPT !.cursor = s.cursor + 1].pc = "scan"
    BY DEF Scan
  <2> QED
    BY <1>1, <2>1, <2>2
<1>6. CASE add_cancel(t)
  <2>1. End(t) /\ Busy(t) /\ s.m \in Messages
    BY <1>0, <1>6, ThreadByPc DEF add_cancel, Busy
  <2> QED
    BY <1>0, <1>6, <2>1, Idles DEF add_cancel, Moves, Notes
<1>7. CASE CallHold(t)
  <2>1. Scan(s.m, "proceed").m = s.m /\ Scan(s.m, "proceed").pc = "scan"
    BY DEF Scan
  <2>2. /\ UNCHANGED <<pending, held, dropped, cancel_list, restarts>> /\ Busy(t)
        /\ Go(t, Scan(s.m, "proceed"))
    BY <1>7 DEF CallHold, Busy
  <2> QED
    BY <1>1, <2>1, <2>2
<1>8. CASE should_proceed(t)
  <2>1. CASE callLater(t, s.m) /\ End(t)
    BY <1>0, <1>8, <2>1, Idles DEF should_proceed, callLater, Moves, HandsBack, Busy, Sound
  <2>2. CASE UNCHANGED <<held, reactor>> /\ Goto(t, "cancelled")
    <3>1. Go(t, [s EXCEPT !.pc = "cancelled"]) /\ s.pc = "proceed" /\ Busy(t)
          /\ UNCHANGED <<pending, held, dropped, cancel_list, restarts>>
      BY <1>8, <2>2 DEF should_proceed, Goto, Busy
    <3> QED
      BY <1>1, <3>1, CallSound
  <2> QED
    BY <1>8, <2>1, <2>2 DEF should_proceed
<1>9. CASE should_cancel(t)
  <2>1. PICK p \in {"drop", "spawn"} : Go(t, [s EXCEPT !.pc = p])
    BY <1>9 DEF should_cancel, Goto
  <2>2. s.pc = "cancelled" /\ Busy(t) /\ UNCHANGED <<pending, held, dropped, cancel_list, restarts>>
    BY <1>9 DEF should_cancel, Busy
  <2> QED
    BY <1>1, <2>1, <2>2, CallSound
<1>10. CASE cancel_run(t)
  <2>1. s.m \in Jobs /\ Busy(t) /\ UNCHANGED <<pending, held, restarts>>
    BY <1>0, <1>10 DEF cancel_run, Sound, Busy
  <2>2. CASE run_tuple(s.m) \in cancel_list
    BY <1>0, <1>10, <2>1, <2>2, Idles DEF cancel_run, Moves, Drops
  <2>3. CASE run_tuple(s.m) \notin cancel_list
    BY <1>1, <1>10, <2>1, <2>3 DEF cancel_run
  <2> QED
    BY <2>2, <2>3
<1>11. CASE Popen(t)
  <2>1. /\ s.pc = "spawn" /\ Busy(t) /\ Go(t, [s EXCEPT !.pc = "append"])
        /\ UNCHANGED <<pending, held, dropped, cancel_list, restarts>>
    BY <1>11 DEF Popen, Goto, Busy
  <2> QED
    BY <1>1, <2>1, CallSound
<1>12. CASE AppendProcess(t)
  <2>1. /\ s.pc = "append" /\ Busy(t) /\ Go(t, [s EXCEPT !.pc = "appendRb"])
        /\ UNCHANGED <<pending, held, dropped, cancel_list, restarts>>
    BY <1>12 DEF AppendProcess, Goto, Busy
  <2> QED
    BY <1>1, <2>1, CallSound
<1>13. CASE AppendRb(t)
  BY <1>1, <1>13 DEF AppendRb, Busy
<1> QED
  BY <1>2, <1>3, <1>4, <1>5, <1>6, <1>7, <1>8, <1>9, <1>10, <1>11, <1>12, <1>13 DEF Advance

\* A message is in one place, whatever the threads do and however often the daemon starts.
OnePlace ==
  /\ held \cap pending = {} /\ dropped \cap (pending \cup held) = {}
  /\ \A t \in Threads : Busy(t) => thread[t].m \notin pending \cup held \cup dropped
  /\ \A t, u \in Threads : Busy(t) /\ Busy(u) /\ thread[t].m = thread[u].m => t = u

LEMMA MovesOnePlace ==
  ASSUME OnePlace, NEW t \in Threads, Moves(t)
  PROVE  OnePlace'
<1>1. /\ Busy(t) /\ pending' = pending
      /\ \A u \in Threads : u # t => thread'[u] = thread[u] /\ (Busy(u)' <=> Busy(u))
  BY DEF Moves, Busy
<1>2. CASE Carries(t)
  BY <1>1, <1>2 DEF Carries, OnePlace
<1>3. CASE Leaves(t)
  BY <1>1, <1>3 DEF Leaves, OnePlace
<1>4. CASE HandsBack(t)
  BY <1>1, <1>4 DEF HandsBack, OnePlace
<1>5. CASE Drops(t)
  BY <1>1, <1>5 DEF Drops, OnePlace
<1>6. CASE Notes(t)
  BY <1>1, <1>6 DEF Notes, OnePlace
<1> QED
  BY <1>2, <1>3, <1>4, <1>5, <1>6 DEF Moves

\* A call begins with a message of the broker, or with one that was held.
Begins(t, m) ==
  /\ ~Busy(t) /\ Busy(t)' /\ thread'[t].m = m
  /\ \A u \in Threads : u # t => thread'[u] = thread[u]
  /\ UNCHANGED <<proc_list, rb_list, cancel_list, running, dropped, restarts>>
  /\ \/ m \in pending /\ pending' = pending \ {m} /\ UNCHANGED held
     \/ m \in held /\ held' = held \ {m} /\ UNCHANGED pending

LEMMA CallBegins ==
  ASSUME TypeInv, NEW m \in Messages, on_message(m) \/ hold_message(m)
  PROVE  \E t \in Threads : /\ Begins(t, m) /\ thread[t] = Free
                            /\ Serial => \A u \in Threads : ~Busy(u)
<1>1. TypeOK /\ "receiver" \in Threads /\ "reactor" \in Threads
  BY DEF TypeInv, Threads
<1>2. PICK t \in Threads, n \in {"received", "proceed"} :
        /\ MayBegin(t) /\ Go(t, Scan(m, n))
        /\ UNCHANGED <<proc_list, rb_list, cancel_list, running, dropped, restarts>>
        /\ \/ m \in pending /\ pending' = pending \ {m} /\ UNCHANGED held
           \/ m \in held /\ held' = held \ {m} /\ UNCHANGED pending
  BY <1>1 DEF on_message, hold_message
<1>3. thread[t] = Free /\ ~Busy(t) /\ (Serial => \A u \in Threads : ~Busy(u))
  BY <1>2 DEF MayBegin, Free, Dead, Busy
<1>4. Busy(t)' /\ thread'[t].m = m /\ \A u \in Threads : u # t => thread'[u] = thread[u]
  BY <1>1, <1>2 DEF Go, Scan, Busy, TypeOK
<1> QED
  BY <1>2, <1>3, <1>4 DEF Begins

LEMMA BeginsOnePlace ==
  ASSUME TypeInv, OnePlace, NEW t \in Threads, NEW m, Begins(t, m)
  PROVE  OnePlace'
<1>1. \A u \in Threads : u # t => thread'[u] = thread[u] /\ (Busy(u)' <=> Busy(u))
  BY DEF Begins, Busy
<1> QED
  BY <1>1 DEF Begins, OnePlace

LEMMA RestartFrees ==
  ASSUME Restart
  PROVE  \A t \in Threads : ~Busy(t)'
BY DEF Restart, Busy, Free

LEMMA OnePlaceStep ==
  ASSUME TypeInv, OnePlace, [Next]_vars
  PROVE  OnePlace'
<1>1. ASSUME NEW t \in Threads, Advance(t) PROVE OnePlace'
  BY <1>1, AdvanceMoves, MovesOnePlace
<1>2. ASSUME NEW m \in Messages, on_message(m) \/ hold_message(m) PROVE OnePlace'
  BY <1>2, CallBegins, BeginsOnePlace
<1>3. CASE Restart
  <2>1. held' = {} /\ UNCHANGED <<pending, dropped>>
    BY <1>3 DEF Restart
  <2> QED
    BY <1>3, <2>1, RestartFrees DEF OnePlace
<1>4. CASE UNCHANGED <<pending, held, dropped, thread>>
  BY <1>4 DEF OnePlace, Busy
<1> QED
  BY <1>1, <1>2, <1>3, <1>4 DEF Next, ChildExit, Listen, vars

(***************************************************************************)
(* How often runs <<number, version>> were dropped or are still to be, and *)
(* the cancellations of them that the threads have been through with.      *)
(***************************************************************************)
Handled(c) == c \notin pending /\ \A t \in Threads : Busy(t) => thread[t].m # c
Taken(p) == {c \in Messages : c.cancel /\ run_tuple(c) = p /\ Handled(c)}
DroppedFor(p) == {d \in dropped : run_tuple(d) = p}
UsedOnce ==
  \A p \in Number \X Nat :
    Cardinality(DroppedFor(p)) + (IF p \in cancel_list THEN 1 ELSE 0) <= Cardinality(Taken(p))

LEMMA CountsFinite ==
  ASSUME IsFiniteSet(Messages), TypeOK, NEW p
  PROVE  /\ IsFiniteSet(DroppedFor(p)) /\ Cardinality(DroppedFor(p)) \in Nat
         /\ IsFiniteSet(Taken(p)) /\ Cardinality(Taken(p)) \in Nat
<1>1. DroppedFor(p) \in SUBSET Messages /\ Taken(p) \in SUBSET Messages
  BY DEF DroppedFor, Taken, TypeOK, Jobs
<1> QED
  BY <1>1, FS_Subset, FS_CardinalityType

LEMMA TakenStays ==
  ASSUME IsFiniteSet(Messages), TypeOK, NEW p,
         \A c \in Messages : c.cancel /\ Handled(c) => Handled(c)'
  PROVE  /\ Taken(p) \subseteq Taken(p)' /\ IsFiniteSet(Taken(p)')
         /\ Cardinality(Taken(p)') \in Nat /\ Cardinality(Taken(p)) <= Cardinality(Taken(p)')
<1>1. Taken(p) \in SUBSET (Taken(p)')
  BY DEF Taken
<1>2. Taken(p)' \in SUBSET Messages
  BY DEF Taken
<1>3. IsFiniteSet(Taken(p)') /\ Cardinality(Taken(p)') \in Nat
  BY <1>2, FS_Subset, FS_CardinalityType
<1> QED
  BY <1>1, <1>3, FS_Subset

\* The sum over one run: what is dropped and what is still to be dropped.
LEMMA UsedOnceByRun ==
  ASSUME \A p \in Number \X Nat :
           Cardinality(DroppedFor(p)') + (IF p \in cancel_list' THEN 1 ELSE 0) <= Cardinality(Taken(p)')
  PROVE  UsedOnce'
BY DEF UsedOnce, DroppedFor, Taken, Handled, Busy

\* A step that drops nothing notes nothing new, and hides no cancellation it has been through with.
LEMMA UsedOnceStays ==
  ASSUME IsFiniteSet(Messages), TypeOK, UsedOnce,
         UNCHANGED dropped, cancel_list' \subseteq cancel_list,
         \A c \in Messages : c.cancel /\ Handled(c) => Handled(c)'
  PROVE  UsedOnce'
<1> SUFFICES ASSUME NEW p \in Number \X Nat
             PROVE  Cardinality(DroppedFor(p)') + (IF p \in cancel_list' THEN 1 ELSE 0)
                      <= Cardinality(Taken(p)')
  BY UsedOnceByRun
<1>1. DroppedFor(p)' = DroppedFor(p)
  BY DEF DroppedFor
<1>2. Cardinality(DroppedFor(p)) + (IF p \in cancel_list THEN 1 ELSE 0) <= Cardinality(Taken(p))
  BY DEF UsedOnce
<1>3. /\ Cardinality(DroppedFor(p)) \in Nat /\ Cardinality(Taken(p)) \in Nat
      /\ Cardinality(Taken(p)') \in Nat /\ Cardinality(Taken(p)) <= Cardinality(Taken(p)')
  BY CountsFinite, TakenStays
<1> QED
  BY <1>1, <1>2, <1>3

\* One more message is dropped and its run is taken from the list.
LEMMA DropsUsedOnce ==
  ASSUME IsFiniteSet(Messages), TypeInv, UsedOnce, NEW t \in Threads, Moves(t), Drops(t)
  PROVE  UsedOnce'
<1> DEFINE m == thread[t].m
<1> SUFFICES ASSUME NEW p \in Number \X Nat
             PROVE  Cardinality(DroppedFor(p)') + (IF p \in cancel_list' THEN 1 ELSE 0)
                      <= Cardinality(Taken(p)')
  BY UsedOnceByRun
<1>1. Cardinality(DroppedFor(p)) + (IF p \in cancel_list THEN 1 ELSE 0) <= Cardinality(Taken(p))
  BY DEF UsedOnce
<1>2. \A c \in Messages : c.cancel /\ Handled(c) => Handled(c)'
  BY DEF Moves, Drops, Handled, Busy
<1>3. /\ Cardinality(DroppedFor(p)) \in Nat /\ Cardinality(Taken(p)) \in Nat
      /\ Cardinality(Taken(p)') \in Nat /\ Cardinality(Taken(p)) <= Cardinality(Taken(p)')
      /\ IsFiniteSet(DroppedFor(p))
  BY <1>2, CountsFinite, TakenStays DEF TypeInv
<1>4. CASE p = run_tuple(m)
  <2>1. p \in cancel_list /\ p \notin cancel_list'
    BY <1>4 DEF Drops
  <2>2. DroppedFor(p)' = DroppedFor(p) \cup {m}
    BY <1>4 DEF Drops, DroppedFor
  <2>3. Cardinality(DroppedFor(p)') <= Cardinality(DroppedFor(p)) + 1 /\ Cardinality(DroppedFor(p)') \in Nat
    <3>1. PICK S : S = DroppedFor(p)
      OBVIOUS
    <3>2. /\ IsFiniteSet(S \cup {m})
          /\ Cardinality(S \cup {m}) = IF m \in S THEN Cardinality(S) ELSE Cardinality(S) + 1
      BY <1>3, <3>1, FS_AddElement
    <3> QED
      BY <1>3, <2>2, <3>1, <3>2
  <2> QED
    BY <1>1, <1>3, <2>1, <2>3
<1>5. CASE p # run_tuple(m)
  <2>1. p \in cancel_list <=> p \in cancel_list'
    BY <1>5 DEF Drops
  <2>2. DroppedFor(p)' = DroppedFor(p)
    BY <1>5 DEF Drops, DroppedFor
  <2> QED
    BY <1>1, <1>3, <2>1, <2>2
<1> QED
  BY <1>4, <1>5

\* One more run is in the list, and its cancellation has been through.
LEMMA NotesUsedOnce ==
  ASSUME IsFiniteSet(Messages), TypeInv, OnePlace, UsedOnce, NEW t \in Threads, Moves(t), Notes(t)
  PROVE  UsedOnce'
<1> SUFFICES ASSUME NEW p \in Number \X Nat
             PROVE  Cardinality(DroppedFor(p)') + (IF p \in cancel_list' THEN 1 ELSE 0)
                      <= Cardinality(Taken(p)')
  BY UsedOnceByRun
<1>0. PICK c : c = thread[t].m
  OBVIOUS
<1>1. Cardinality(DroppedFor(p)) + (IF p \in cancel_list THEN 1 ELSE 0) <= Cardinality(Taken(p))
  BY DEF UsedOnce
<1>2. \A d \in Messages : d.cancel /\ Handled(d) => Handled(d)'
  BY DEF Moves, Notes, Handled, Busy
<1>3. /\ Cardinality(DroppedFor(p)) \in Nat /\ Cardinality(Taken(p)) \in Nat
      /\ Cardinality(Taken(p)') \in Nat /\ Cardinality(Taken(p)) <= Cardinality(Taken(p)')
      /\ IsFiniteSet(Taken(p)) /\ IsFiniteSet(Taken(p)') /\ Taken(p) \subseteq Taken(p)'
  BY <1>2, CountsFinite, TakenStays DEF TypeInv
<1>4. DroppedFor(p)' = DroppedFor(p)
  BY DEF Notes, DroppedFor
<1>5. CASE p = run_tuple(c)
  <2>1. c \notin Taken(p)
    BY <1>0 DEF Moves, Taken, Handled
  <2>2. Handled(c)'
    BY <1>0 DEF Moves, Notes, OnePlace, Handled, Busy
  <2>3. c \in Taken(p)'
    BY <1>0, <1>5, <2>2 DEF Notes, Taken
  <2>4. Taken(p) \cup {c} \in SUBSET (Taken(p)')
    BY <1>3, <2>3
  <2>5. Cardinality(Taken(p) \cup {c}) = Cardinality(Taken(p)) + 1
    BY <1>3, <2>1, FS_AddElement
  <2>6. Cardinality(Taken(p) \cup {c}) <= Cardinality(Taken(p)')
    BY <1>3, <2>4, FS_Subset
  <2> QED
    BY <1>1, <1>3, <1>4, <2>5, <2>6
<1>6. CASE p # run_tuple(c)
  <2>1. p \in cancel_list <=> p \in cancel_list'
    BY <1>0, <1>6 DEF Notes
  <2> QED
    BY <1>1, <1>3, <1>4, <2>1
<1> QED
  BY <1>5, <1>6

LEMMA UsedOnceStep ==
  ASSUME IsFiniteSet(Messages), TypeInv, OnePlace, UsedOnce, [Next]_vars
  PROVE  UsedOnce'
<1>0. TypeOK
  BY DEF TypeInv
<1>1. ASSUME NEW t \in Threads, Advance(t) PROVE UsedOnce'
  <2>1. Moves(t)
    BY <1>1, AdvanceMoves
  <2>2. CASE Carries(t) \/ Leaves(t) \/ HandsBack(t)
    <3>1. UNCHANGED <<dropped, cancel_list>>
      BY <2>2 DEF Carries, Leaves, HandsBack
    <3>2. \A c \in Messages : c.cancel /\ Handled(c) => Handled(c)'
      BY <2>1, <2>2 DEF Moves, Carries, Leaves, HandsBack, Handled, Busy
    <3> QED
      BY <1>0, <3>1, <3>2, UsedOnceStays
  <2> QED
    BY <2>1, <2>2, DropsUsedOnce, NotesUsedOnce DEF Moves
<1>2. ASSUME NEW m \in Messages, on_message(m) \/ hold_message(m) PROVE UsedOnce'
  <2>1. PICK t \in Threads : Begins(t, m)
    BY <1>2, CallBegins
  <2>2. m \in pending \/ ~m.cancel
    BY <1>0, <2>1 DEF Begins, TypeOK, Jobs
  <2>3. \A c \in Messages : c.cancel /\ Handled(c) => Handled(c)'
    BY <2>1, <2>2 DEF Begins, Handled, Busy
  <2>4. UNCHANGED <<dropped, cancel_list>>
    BY <2>1 DEF Begins
  <2> QED
    BY <1>0, <2>3, <2>4, UsedOnceStays
<1>3. CASE Restart
  <2>1. \A c \in Messages : c.cancel /\ Handled(c) => Handled(c)'
    BY <1>3, RestartFrees DEF Restart, Handled
  <2>2. UNCHANGED dropped /\ cancel_list' \subseteq cancel_list
    BY <1>3 DEF Restart
  <2> QED
    BY <1>0, <2>1, <2>2, UsedOnceStays
<1>4. CASE UNCHANGED <<pending, thread, dropped, cancel_list>>
  <2>1. \A c \in Messages : c.cancel /\ Handled(c) => Handled(c)'
    BY <1>4 DEF Handled, Busy
  <2> QED
    BY <1>0, <1>4, <2>1, UsedOnceStays
<1> QED
  BY <1>1, <1>2, <1>3, <1>4 DEF Next, ChildExit, Listen, vars

LEMMA CancelInit ==
  ASSUME IsFiniteSet(Messages), Init
  PROVE  OnePlace /\ UsedOnce
<1>1. OnePlace
  BY DEF Init, OnePlace, Busy, Free
<1>2. ASSUME NEW p \in Number \X Nat
      PROVE  Cardinality(DroppedFor(p)) + (IF p \in cancel_list THEN 1 ELSE 0) <= Cardinality(Taken(p))
  <2>1. DroppedFor(p) = {} /\ p \notin cancel_list
    BY DEF Init, DroppedFor
  <2>2. Cardinality(DroppedFor(p)) = 0
    BY <2>1, FS_EmptySet
  <2>3. Cardinality(Taken(p)) \in Nat
    BY TypeInit, CountsFinite DEF TypeInv
  <2> QED
    BY <2>1, <2>2, <2>3
<1> QED
  BY <1>1, <1>2 DEF UsedOnce

LEMMA UsedOnceIsUsedOnce ==
  ASSUME IsFiniteSet(Messages), TypeOK, UsedOnce
  PROVE  CancelUsedOnce
<1> SUFFICES ASSUME NEW d \in dropped
             PROVE  Cardinality({e \in dropped : run_tuple(e) = run_tuple(d)})
                      <= Cardinality({c \in Messages \ pending : c.cancel /\ run_tuple(c) = run_tuple(d)})
  BY DEF CancelUsedOnce
<1> DEFINE p == run_tuple(d)
           C == {c \in Messages \ pending : c.cancel /\ run_tuple(c) = p}
<1>1. p \in Number \X Nat
  BY RunTuple DEF TypeOK, Jobs
<1>2. Cardinality(DroppedFor(p)) + (IF p \in cancel_list THEN 1 ELSE 0) <= Cardinality(Taken(p))
  BY <1>1 DEF UsedOnce
<1>3. Taken(p) \in SUBSET C /\ C \in SUBSET Messages
  BY DEF Taken, Handled
<1>4. IsFiniteSet(C) /\ Cardinality(C) \in Nat /\ Cardinality(Taken(p)) <= Cardinality(C)
  BY <1>3, FS_Subset, FS_CardinalityType
<1>5. Cardinality(DroppedFor(p)) \in Nat /\ Cardinality(Taken(p)) \in Nat
  BY CountsFinite
<1>6. Cardinality(DroppedFor(p)) <= Cardinality(C)
  BY <1>2, <1>4, <1>5
<1> QED
  BY <1>6 DEF DroppedFor

(***************************************************************************)
(* cancel_run: however the threads' steps on cancel_list fall, and over    *)
(* restarts that lose the list, no more messages of a run are dropped than *)
(* cancellations of it have been delivered.                                *)
(***************************************************************************)
THEOREM CancelOnce ==
  ASSUME IsFiniteSet(Messages)
  PROVE  Spec => []CancelUsedOnce
<1>1. Init => TypeInv /\ OnePlace /\ UsedOnce
  BY TypeInit, CancelInit
<1>2. TypeInv /\ OnePlace /\ UsedOnce /\ [Next]_vars => (TypeInv /\ OnePlace /\ UsedOnce)'
  BY TypeStep, OnePlaceStep, UsedOnceStep
<1>3. TypeInv /\ OnePlace /\ UsedOnce => CancelUsedOnce
  BY UsedOnceIsUsedOnce DEF TypeInv
<1> QED
  BY <1>1, <1>2, <1>3, PTL DEF Spec
-----------------------------------------------------------------------------
(***************************************************************************)
(* The threads' calls one after the other, and no restart so far.  Between *)
(* two calls the lists are paired and hold every running child; in a call  *)
(* Local says what the code has just looked up and nobody has changed.     *)
(***************************************************************************)
Alone == \A t, u \in Threads : Busy(t) /\ Busy(u) => t = u

Paired(p, r) == Len(p) = Len(r) /\ \A k \in 1..Len(p) : r[k] = p[k].rb

Local(t) ==
  /\ thread[t].pc # "dead"
  /\ thread[t].pc = "index" => thread[t].process \in Elements(proc_list) \ running
  /\ thread[t].pc = "pop" =>
       thread[t].index \in 1..Len(proc_list) /\ proc_list[thread[t].index] \notin running
  /\ thread[t].pc = "popRb" =>
       thread[t].index \in 1..Len(rb_list) /\ Paired(proc_list, Without(rb_list, thread[t].index))
  /\ thread[t].pc \in {"cancelled", "drop", "spawn"} => thread[t].m.rb \notin Elements(rb_list)
  /\ thread[t].pc = "drop" => run_tuple(thread[t].m) \in cancel_list
  /\ thread[t].pc = "spawn" => run_tuple(thread[t].m) \notin cancel_list
  /\ thread[t].pc = "append" => running \subseteq Elements(proc_list) \cup {thread[t].m}
  /\ thread[t].pc = "appendRb" =>
       /\ proc_list # <<>> /\ proc_list[Len(proc_list)] = thread[t].m
       /\ Paired(proc_list, Append(rb_list, thread[t].m.rb))

Settled == (\A t \in Threads : thread[t].pc \notin {"popRb", "appendRb"}) => Paired(proc_list, rb_list)
Listed == (\A t \in Threads : thread[t].pc # "append") => running \subseteq Elements(proc_list)

\* A cancellation that has been through is in the list, until a message has been dropped for it.
CancelNoted ==
  \A c \in Messages :
    Noted(c) => run_tuple(c) \in cancel_list \/ \E d \in dropped : run_tuple(d) = run_tuple(c)

OneExperimentEach == \A m1, m2 \in running : m1.rb = m2.rb => m1 = m2

SerialInv ==
  /\ Alone /\ \A t \in Threads : Local(t)
  /\ Settled /\ Listed /\ CancelNoted /\ OneExperimentEach
-----------------------------------------------------------------------------
LEMMA WithoutElements ==
  ASSUME NEW S, NEW s \in Seq(S), NEW k \in 1..Len(s)
  PROVE  Elements(s) \subseteq Elements(Without(s, k)) \cup {s[k]}
<1>1. PICK w : w = Without(s, k)
  OBVIOUS
<1>2. /\ w \in Seq(S) /\ Len(w) = Len(s) - 1
      /\ \A i \in 1..(Len(s) - 1) : w[i] = IF i < k THEN s[i] ELSE s[i + 1]
  BY <1>1, WithoutElement
<1>3. ASSUME NEW i \in 1..Len(s), i # k PROVE s[i] \in Elements(w)
  <2>1. CASE i < k
    <3>1. i \in 1..(Len(s) - 1)
      BY <2>1
    <3> QED
      BY <1>2, <2>1, <3>1 DEF Elements
  <2>2. CASE i > k
    <3>1. i - 1 \in 1..(Len(s) - 1) /\ ~(i - 1 < k) /\ (i - 1) + 1 = i
      BY <2>2
    <3>2. w[i - 1] = s[i]
      BY <1>2, <3>1
    <3>3. i - 1 \in DOMAIN w
      BY <1>2, <3>1
    <3> QED
      BY <3>2, <3>3 DEF Elements
  <2> QED
    BY <1>3, <2>1, <2>2
<1> QED
  BY <1>1, <1>3 DEF Elements

LEMMA AppendElements ==
  ASSUME NEW S, NEW s \in Seq(S), NEW e \in S
  PROVE  Elements(s) \cup {e} \subseteq Elements(Append(s, e))
<1>1. /\ DOMAIN Append(s, e) = 1..(Len(s) + 1) /\ Append(s, e)[Len(s) + 1] = e
      /\ \A i \in 1..Len(s) : Append(s, e)[i] = s[i]
  OBVIOUS
<1>2. Len(s) + 1 \in 1..(Len(s) + 1) /\ \A i \in 1..Len(s) : i \in 1..(Len(s) + 1)
  OBVIOUS
<1> QED
  BY <1>1, <1>2 DEF Elements

LEMMA PairedWithout ==
  ASSUME NEW p \in Seq(Jobs), NEW r \in Seq(Number), Paired(p, r), NEW k \in 1..Len(p)
  PROVE  Paired(Without(p, k), Without(r, k))
<1>1. PICK v : v = Without(p, k)
  OBVIOUS
<1>2. PICK w : w = Without(r, k)
  OBVIOUS
<1>3. Len(v) = Len(p) - 1 /\ \A i \in 1..(Len(p) - 1) : v[i] = IF i < k THEN p[i] ELSE p[i + 1]
  BY <1>1, WithoutElement
<1>4. Len(w) = Len(p) - 1 /\ \A i \in 1..(Len(p) - 1) : w[i] = IF i < k THEN r[i] ELSE r[i + 1]
  <2>1. Len(r) = Len(p) /\ k \in 1..Len(r)
    BY DEF Paired
  <2> QED
    BY <1>2, <2>1, WithoutElement
<1>5. ASSUME NEW i \in 1..(Len(p) - 1) PROVE w[i] = v[i].rb
  <2>1. i \in 1..Len(p) /\ i + 1 \in 1..Len(p)
    OBVIOUS
  <2> QED
    BY <1>3, <1>4, <2>1 DEF Paired
<1> QED
  BY <1>1, <1>2, <1>3, <1>4, <1>5 DEF Paired

LEMMA PairedAppend ==
  ASSUME NEW p \in Seq(Jobs), NEW r \in Seq(Number), Paired(p, r), NEW m \in Jobs
  PROVE  Paired(Append(p, m), Append(r, m.rb))
<1>1. m.rb \in Number
  BY RunTuple DEF Jobs
<1>2. /\ Len(Append(p, m)) = Len(p) + 1 /\ Append(p, m)[Len(p) + 1] = m
      /\ \A i \in 1..Len(p) : Append(p, m)[i] = p[i]
  OBVIOUS
<1>3. PICK b \in Number : b = m.rb
  BY <1>1
<1>4. /\ Len(Append(r, b)) = Len(r) + 1 /\ Append(r, b)[Len(r) + 1] = b
      /\ \A i \in 1..Len(r) : Append(r, b)[i] = r[i]
  OBVIOUS
<1>5. Len(r) = Len(p) /\ \A k \in 1..Len(p) : r[k] = p[k].rb
  BY DEF Paired
<1>6. \A k \in 1..(Len(p) + 1) : Append(r, b)[k] = Append(p, m)[k].rb
  <2>1. \A k \in 1..(Len(p) + 1) : k \in 1..Len(p) \/ k = Len(p) + 1
    OBVIOUS
  <2> QED
    BY <1>2, <1>3, <1>4, <1>5, <2>1
<1> QED
  BY <1>2, <1>3, <1>4, <1>5, <1>6 DEF Paired
-----------------------------------------------------------------------------
\* Only the step of the one call that is going on has to be looked at.
LEMMA SerialByCall ==
  ASSUME NEW t \in Threads,
         \A u \in Threads : u # t => ~Busy(u)' /\ thread'[u].pc # "dead",
         Local(t)', CancelNoted', OneExperimentEach',
         thread'[t].pc \notin {"popRb", "appendRb"} => Paired(proc_list', rb_list'),
         thread'[t].pc # "append" => running' \subseteq Elements(proc_list')
  PROVE  SerialInv'
<1>1. Alone'
  BY DEF Alone
<1>2. \A u \in Threads : Local(u)'
  BY DEF Local, Busy
<1>3. Settled' /\ Listed'
  BY DEF Settled, Listed, Paired, Elements
<1> QED
  BY <1>1, <1>2, <1>3 DEF SerialInv

LEMMA MovesNoted ==
  ASSUME TypeInv, TypeOK', CancelNoted, NEW t \in Threads, Moves(t),
         Leaves(t) => thread[t].m \in Jobs \/ run_tuple(thread[t].m) \in cancel_list
  PROVE  CancelNoted'
<1> SUFFICES ASSUME NEW c \in Messages, Noted(c)'
             PROVE  run_tuple(c) \in cancel_list' \/ \E d \in dropped' : run_tuple(d) = run_tuple(c)
  BY DEF CancelNoted, Noted
<1>1. c.cancel /\ c \notin pending /\ \A u \in Threads : ~Busy(u)' \/ thread'[u].m # c
  BY DEF Noted, Busy, Moves
<1>2. CASE thread[t].m # c \/ Carries(t)
  <2>1. Noted(c)
    BY <1>1, <1>2 DEF Noted, Moves, Carries, Busy
  <2>2. run_tuple(c) \in cancel_list \/ \E d \in dropped : run_tuple(d) = run_tuple(c)
    BY <2>1 DEF CancelNoted
  <2> QED
    BY <2>2 DEF Moves, Carries, Leaves, HandsBack, Drops, Notes
<1>3. CASE thread[t].m = c /\ Notes(t)
  BY <1>3 DEF Notes
<1>4. CASE thread[t].m = c /\ (HandsBack(t) \/ Leaves(t) \/ Drops(t)) /\ ~Notes(t)
  <2>1. ~HandsBack(t)
    BY <1>1, <1>4 DEF HandsBack, Jobs
  <2>2. ~Drops(t) /\ (Leaves(t) => run_tuple(c) \in cancel_list)
    BY <1>1, <1>4 DEF Drops, Jobs
  <2> QED
    BY <1>4, <2>1, <2>2 DEF Leaves
<1> QED
  BY <1>2, <1>3, <1>4 DEF Moves

\* The call that is going on, and what the others are not doing.
LEMMA TheCall ==
  ASSUME TypeInv, SerialInv, NEW t \in Threads, Advance(t)
  PROVE  /\ TypeOK /\ TypeOK' /\ Sound(thread[t]) /\ Local(t) /\ Moves(t) /\ thread[t].pc \notin {"free", "dead"}
         /\ \A u \in Threads : u # t => ~Busy(u) /\ ~Busy(u)' /\ thread'[u].pc # "dead"
         /\ thread[t].pc \notin {"popRb", "appendRb"} => Paired(proc_list, rb_list)
         /\ thread[t].pc # "append" => running \subseteq Elements(proc_list)
<1>1. Moves(t) /\ Busy(t) /\ \A u \in Threads : u # t => thread'[u] = thread[u] /\ ~Busy(u)
  BY AdvanceMoves DEF Moves, SerialInv, Alone
<1>2. TypeInv'
  BY ScanType, CallType DEF Advance
<1>3. \A u \in Threads : u # t => thread[u].pc \in {"free", "dead"} /\ thread[u].pc # "dead"
  BY <1>1 DEF SerialInv, Local, Busy
<1> QED
  BY <1>1, <1>2, <1>3 DEF TypeInv, SerialInv, Settled, Listed, Busy

\* The steps of update_child_process_list find what they look for.
LEMMA ScanSerial ==
  ASSUME TypeInv, SerialInv, NEW t \in Threads, PollChild(t) \/ FindIndex(t) \/ PopProcess(t) \/ PopRb(t)
  PROVE  SerialInv'
<1> DEFINE s == thread[t]
<1>0. /\ TypeOK /\ TypeOK' /\ Sound(s) /\ Local(t) /\ Moves(t)
      /\ \A u \in Threads : u # t => ~Busy(u) /\ ~Busy(u)' /\ thread'[u].pc # "dead"
      /\ s.pc \notin {"popRb", "appendRb"} => Paired(proc_list, rb_list)
      /\ s.pc # "append" => running \subseteq Elements(proc_list)
  BY TheCall DEF Advance
<1>1. /\ UNCHANGED running /\ OneExperimentEach'
      /\ thread \in [Threads -> ThreadState] /\ proc_list \in Seq(Jobs) /\ rb_list \in Seq(Number)
  BY <1>0 DEF PollChild, FindIndex, PopProcess, PopRb, SerialInv, OneExperimentEach, TypeOK
<1>2. ASSUME ~Leaves(t), Local(t)',
             thread'[t].pc \notin {"popRb", "appendRb"} => Paired(proc_list', rb_list'),
             thread'[t].pc # "append" => running' \subseteq Elements(proc_list')
      PROVE  SerialInv'
  <2>1. CancelNoted'
    BY <1>0, <1>2, MovesNoted DEF SerialInv
  <2> QED
    BY <1>0, <1>1, <1>2, <2>1, SerialByCall
<1>3. ASSUME NEW n, Go(t, n), n.pc \notin {"free", "dead"}
      PROVE  thread'[t] = n /\ ~Leaves(t)
  BY <1>1, <1>3 DEF Go, Leaves, Busy
<1>4. CASE PollChild(t)
  <2>1. /\ s.pc = "scan" /\ s.cursor \in Nat \ {0} /\ s.next \in {"received", "proceed"}
        /\ s = [pc |-> "scan", m |-> s.m, cursor |-> s.cursor, next |-> s.next]
        /\ UNCHANGED <<proc_list, rb_list>>
    BY <1>0, <1>4, ThreadByPc DEF PollChild, Sound
  <2>2. PICK n : /\ Go(t, n)
                 /\ \/ n = [s EXCEPT !.pc = s.next]
                    \/ n = [s EXCEPT !.cursor = @ + 1]
                    \/ /\ s.cursor <= Len(proc_list) /\ proc_list[s.cursor] \notin running
                       /\ n = [pc |-> "index", m |-> s.m, cursor |-> s.cursor, next |-> s.next,
                               process |-> proc_list[s.cursor]]
    <3>1. s.cursor > Len(proc_list) \/ s.cursor <= Len(proc_list)
      BY <1>1, <2>1
    <3> QED
      BY <1>4, <3>1 DEF PollChild, Goto
  <2>3. \/ n.pc \in {"scan", "received", "proceed"}
        \/ n.pc = "index" /\ n.process \in Elements(proc_list) \ running
    <3>1. CASE n = [s EXCEPT !.pc = s.next]
      BY <2>1, <3>1
    <3>2. CASE n = [s EXCEPT !.cursor = @ + 1]
      BY <2>1, <3>2
    <3>3. CASE /\ s.cursor <= Len(proc_list) /\ proc_list[s.cursor] \notin running
               /\ n = [pc |-> "index", m |-> s.m, cursor |-> s.cursor, next |-> s.next,
                       process |-> proc_list[s.cursor]]
      <4>1. s.cursor \in DOMAIN proc_list
        BY <1>1, <2>1, <3>3
      <4> QED
        BY <3>3, <4>1 DEF Elements
    <3> QED
      BY <2>2, <3>1, <3>2, <3>3
  <2>4. thread'[t] = n /\ ~Leaves(t)
    BY <1>3, <2>2, <2>3
  <2>5. Local(t)'
    BY <1>1, <2>1, <2>3, <2>4 DEF Local, Elements
  <2> QED
    BY <1>0, <1>1, <1>2, <2>1, <2>4, <2>5
<1>5. CASE FindIndex(t)
  <2>1. s.pc = "index" /\ s.process \in Elements(proc_list) /\ s.process \notin running
        /\ UNCHANGED <<proc_list, rb_list>>
    BY <1>0, <1>5 DEF FindIndex, Local
  <2>2. PICK k : k = FirstIndex(proc_list, s.process)
    OBVIOUS
  <2>3. k \in 1..Len(proc_list) /\ proc_list[k] \notin running
    BY <1>1, <2>1, <2>2, FirstIndexFound
  <2>4. PICK n : n = [pc |-> "pop", m |-> s.m, cursor |-> s.cursor, next |-> s.next, index |-> k]
    OBVIOUS
  <2>5. Go(t, n)
    BY <1>5, <2>1, <2>2, <2>4 DEF FindIndex
  <2>6. thread'[t] = n /\ ~Leaves(t) /\ n.pc = "pop" /\ n.index = k
    BY <1>3, <2>4, <2>5
  <2>7. Local(t)'
    BY <1>1, <2>1, <2>3, <2>6 DEF Local
  <2> QED
    BY <1>0, <1>1, <1>2, <2>1, <2>6, <2>7
<1>6. CASE PopProcess(t)
  <2>1. s.pc = "pop" /\ s = [pc |-> s.pc, m |-> s.m, cursor |-> s.cursor, next |-> s.next, index |-> s.index]
    BY <1>0, <1>6, ThreadByPc DEF PopProcess
  <2>2. PICK k : k = s.index
    OBVIOUS
  <2>3. k \in 1..Len(proc_list) /\ proc_list[k] \notin running /\ k <= Len(proc_list)
    BY <1>0, <2>1, <2>2 DEF Local
  <2>4. proc_list' = Without(proc_list, k) /\ UNCHANGED rb_list /\ Go(t, [s EXCEPT !.pc = "popRb"])
    BY <1>6, <2>2, <2>3 DEF PopProcess, Goto
  <2>5. [s EXCEPT !.pc = "popRb"].pc = "popRb" /\ [s EXCEPT !.pc = "popRb"].index = k
    BY <2>1, <2>2
  <2>6. thread'[t].pc = "popRb" /\ thread'[t].index = k /\ ~Leaves(t)
    BY <1>3, <2>4, <2>5
  <2>7. running' \subseteq Elements(proc_list')
    BY <1>0, <1>1, <2>1, <2>3, <2>4, WithoutElements
  <2>8. Paired(proc_list', Without(rb_list, k)) /\ k \in 1..Len(rb_list)
    BY <1>0, <1>1, <2>1, <2>3, <2>4, PairedWithout DEF Paired
  <2>9. Local(t)'
    BY <2>4, <2>6, <2>8 DEF Local, Paired, Without
  <2> QED
    BY <1>2, <2>6, <2>7, <2>9
<1>7. CASE PopRb(t)
  <2>1. s.pc = "popRb" /\ s.index \in 1..Len(rb_list) /\ Paired(proc_list, Without(rb_list, s.index))
    BY <1>0, <1>7 DEF PopRb, Local
  <2>2. /\ rb_list' = Without(rb_list, s.index) /\ UNCHANGED proc_list
        /\ Go(t, [Scan(s.m, s.next) EXCEPT !.cursor = s.cursor + 1])
    BY <1>7, <2>1 DEF PopRb
  <2>3. [Scan(s.m, s.next) EXCEPT !.cursor = s.cursor + 1].pc = "scan"
    BY DEF Scan
  <2>4. thread'[t].pc = "scan" /\ ~Leaves(t)
    BY <1>3, <2>2, <2>3
  <2>5. Paired(proc_list', rb_list') /\ running' \subseteq Elements(proc_list')
    BY <1>0, <1>1, <2>1, <2>2
  <2>6. Local(t)'
    BY <2>4 DEF Local
  <2> QED
    BY <1>2, <2>4, <2>5, <2>6
<1> QED
  BY <1>4, <1>5, <1>6, <1>7

\* The steps of on_message, hold_message and add_process.
LEMMA CallSerial ==
  ASSUME TypeInv, SerialInv, NEW t \in Threads,
         \/ add_cancel(t) \/ CallHold(t) \/ should_proceed(t) \/ should_cancel(t) \/ cancel_run(t)
         \/ Popen(t) \/ AppendProcess(t) \/ AppendRb(t)
  PROVE  SerialInv'
<1> DEFINE s == thread[t]
<1>0. /\ TypeOK /\ TypeOK' /\ Sound(s) /\ Local(t) /\ Moves(t)
      /\ \A u \in Threads : u # t => ~Busy(u) /\ ~Busy(u)' /\ thread'[u].pc # "dead"
      /\ s.pc \notin {"popRb", "appendRb"} => Paired(proc_list, rb_list)
      /\ s.pc # "append" => running \subseteq Elements(proc_list)
  BY TheCall DEF Advance
<1>1. /\ thread \in [Threads -> ThreadState] /\ proc_list \in Seq(Jobs) /\ rb_list \in Seq(Number)
      /\ running \subseteq Jobs
  BY <1>0 DEF TypeOK
<1>2. ASSUME Leaves(t) => s.m \in Jobs \/ run_tuple(s.m) \in cancel_list, Local(t)', OneExperimentEach',
             thread'[t].pc \notin {"popRb", "appendRb"} => Paired(proc_list', rb_list'),
             thread'[t].pc # "append" => running' \subseteq Elements(proc_list')
      PROVE  SerialInv'
  <2>1. CancelNoted'
    BY <1>0, <1>2, MovesNoted DEF SerialInv
  <2> QED
    BY <1>0, <1>2, <2>1, SerialByCall
<1>3. ASSUME NEW n, Go(t, n) PROVE thread'[t] = n
  BY <1>1, <1>3 DEF Go
<1>4. ASSUME End(t) PROVE thread'[t].pc = "free" /\ Local(t)'
  BY <1>3, <1>4 DEF End, Free, Local
<1>5. ASSUME UNCHANGED running PROVE OneExperimentEach'
  BY <1>5 DEF SerialInv, OneExperimentEach
<1>6. ASSUME s.pc \in {"proceed", "cancelled", "drop", "spawn", "append"},
             NEW p \in {"cancelled", "drop", "spawn", "append", "appendRb"}, Goto(t, p)
      PROVE  thread'[t].pc = p /\ thread'[t].m = s.m /\ s.m \in Jobs
  <2>1. PICK n : n = [s EXCEPT !.pc = p]
    OBVIOUS
  <2>2. n.pc = p /\ n.m = s.m /\ s.m \in Jobs
    BY <1>6, <2>1, CallSound
  <2> QED
    BY <1>3, <1>6, <2>1, <2>2 DEF Goto
<1>7. CASE add_cancel(t)
  <2>1. /\ s.pc = "received" /\ s.m.cancel /\ End(t)
        /\ cancel_list' = cancel_list \cup {run_tuple(s.m)}
        /\ UNCHANGED <<proc_list, rb_list, running>>
    BY <1>7 DEF add_cancel
  <2>2. Leaves(t) => run_tuple(s.m) \in cancel_list
    BY <2>1 DEF Leaves
  <2> QED
    BY <1>0, <1>2, <1>4, <1>5, <2>1, <2>2
<1>8. CASE CallHold(t)
  <2>1. /\ s.pc = "received" /\ s.m \in Jobs /\ Go(t, Scan(s.m, "proceed"))
        /\ UNCHANGED <<proc_list, rb_list, running>>
    BY <1>0, <1>8, ThreadByPc DEF CallHold, Jobs
  <2>2. thread'[t].pc = "scan" /\ Local(t)'
    BY <1>3, <2>1 DEF Scan, Local
  <2> QED
    BY <1>0, <1>2, <1>5, <2>1, <2>2
<1>9. CASE should_proceed(t)
  <2>1. s.pc = "proceed" /\ s.m \in Jobs /\ UNCHANGED <<proc_list, rb_list, running>>
    BY <1>0, <1>9 DEF should_proceed, Sound
  <2>2. CASE End(t)
    BY <1>0, <1>2, <1>4, <1>5, <2>1, <2>2
  <2>3. CASE s.m.rb \notin Elements(rb_list) /\ Goto(t, "cancelled")
    <3>1. thread'[t].pc = "cancelled" /\ thread'[t].m = s.m
      BY <1>6, <2>1, <2>3
    <3>2. Local(t)'
      BY <2>1, <2>3, <3>1 DEF Local, Elements
    <3> QED
      BY <1>0, <1>2, <1>5, <2>1, <3>1, <3>2
  <2> QED
    BY <1>9, <2>2, <2>3 DEF should_proceed
<1>10. CASE should_cancel(t)
  <2>1. s.pc = "cancelled" /\ s.m.rb \notin Elements(rb_list)
        /\ UNCHANGED <<proc_list, rb_list, cancel_list, running>>
    BY <1>0, <1>10 DEF should_cancel, Local
  <2>2. PICK p \in {"drop", "spawn"} :
          Goto(t, p) /\ (p = "drop" <=> run_tuple(s.m) \in cancel_list)
    BY <1>10 DEF should_cancel
  <2>3. thread'[t].pc = p /\ thread'[t].m = s.m /\ s.m \in Jobs
    BY <1>6, <2>1, <2>2
  <2>4. Local(t)'
    BY <2>1, <2>2, <2>3 DEF Local, Elements, run_tuple
  <2> QED
    BY <1>0, <1>2, <1>5, <2>1, <2>3, <2>4
<1>11. CASE cancel_run(t)
  <2>1. s.pc = "drop" /\ run_tuple(s.m) \in cancel_list /\ s.m \in Jobs
    BY <1>0, <1>11 DEF cancel_run, Local, Sound
  <2>2. End(t) /\ UNCHANGED <<proc_list, rb_list, running>>
    BY <1>11, <2>1 DEF cancel_run
  <2> QED
    BY <1>0, <1>2, <1>4, <1>5, <2>1, <2>2
<1>12. CASE Popen(t)
  <2>1. /\ s.pc = "spawn" /\ s.m.rb \notin Elements(rb_list) /\ running' = running \cup {s.m}
        /\ Goto(t, "append") /\ UNCHANGED <<proc_list, rb_list>>
    BY <1>0, <1>12 DEF Popen, Local
  <2>2. thread'[t].pc = "append" /\ thread'[t].m = s.m /\ s.m \in Jobs
    BY <1>6, <2>1
  <2>3. \A m \in running : m.rb \in Elements(rb_list)
    BY <1>0, <1>1, <2>1 DEF Paired, Elements
  <2>4. OneExperimentEach'
    BY <2>1, <2>3 DEF SerialInv, OneExperimentEach
  <2>5. Local(t)'
    BY <1>0, <2>1, <2>2 DEF Local, Elements
  <2> QED
    BY <1>0, <1>2, <2>1, <2>2, <2>4, <2>5
<1>13. CASE AppendProcess(t)
  <2>1. /\ s.pc = "append" /\ running \subseteq Elements(proc_list) \cup {s.m}
        /\ proc_list' = Append(proc_list, s.m) /\ Goto(t, "appendRb")
        /\ UNCHANGED <<rb_list, running>>
    BY <1>0, <1>13 DEF AppendProcess, Local
  <2>2. thread'[t].pc = "appendRb" /\ thread'[t].m = s.m /\ s.m \in Jobs
    BY <1>6, <2>1
  <2>3. running' \subseteq Elements(proc_list')
    BY <1>1, <2>1, <2>2, AppendElements
  <2>4. Paired(proc_list', Append(rb_list, s.m.rb))
    BY <1>0, <1>1, <2>1, <2>2, PairedAppend
  <2>5. proc_list' # <<>> /\ proc_list'[Len(proc_list')] = s.m
    BY <1>1, <2>1, <2>2
  <2>6. Local(t)'
    BY <2>1, <2>2, <2>4, <2>5 DEF Local, Paired
  <2> QED
    BY <1>2, <1>5, <2>1, <2>2, <2>3, <2>6
<1>14. CASE AppendRb(t)
  <2>1. /\ s.pc = "appendRb" /\ s.m \in Jobs /\ Paired(proc_list, Append(rb_list, s.m.rb))
        /\ rb_list' = Append(rb_list, s.m.rb) /\ End(t) /\ UNCHANGED <<proc_list, running>>
    BY <1>0, <1>14 DEF AppendRb, Local, Sound
  <2>2. Paired(proc_list', rb_list')
    BY <2>1
  <2> QED
    BY <1>0, <1>2, <1>4, <1>5, <2>1, <2>2
<1> QED
  BY <1>7, <1>8, <1>9, <1>10, <1>11, <1>12, <1>13, <1>14

\* A call begins when no other is going on.
LEMMA BeginsSerial ==
  ASSUME Serial, TypeInv, SerialInv, NEW m \in Messages, on_message(m) \/ hold_message(m)
  PROVE  SerialInv'
<1>1. PICK t \in Threads : /\ Begins(t, m) /\ \A u \in Threads : ~Busy(u)
                           /\ thread'[t].pc = "scan"
  <2>1. \A u \in Threads : MayBegin(u) => \A v \in Threads : ~Busy(v)
    BY DEF MayBegin, Busy, Free, Dead
  <2>2. \A u \in Threads : on_message(m) => u = "reactor" \/ thread'[u].pc = "scan"
    BY DEF on_message, Go, Scan, TypeInv, TypeOK, Threads
  <2>3. \A u \in Threads : hold_message(m) => u = "receiver" \/ thread'[u].pc = "scan"
    BY DEF hold_message, Go, Scan, TypeInv, TypeOK, Threads
  <2>4. on_message(m) => thread'["reactor"] = thread["reactor"]
    BY DEF on_message, Go, TypeInv, TypeOK, Threads
  <2>5. hold_message(m) => thread'["receiver"] = thread["receiver"]
    BY DEF hold_message, Go, TypeInv, TypeOK, Threads
  <2>6. PICK t \in Threads : Begins(t, m)
    BY CallBegins
  <2>7. \A u \in Threads : ~Busy(u)
    BY <2>1 DEF on_message, hold_message, Threads
  <2>8. Busy(t)'
    BY <2>6 DEF Begins
  <2>9. thread'[t].pc = "scan"
    BY <2>2, <2>3, <2>4, <2>5, <2>7, <2>8 DEF Busy, Threads
  <2> QED
    BY <2>6, <2>7, <2>9
<1>2. \A u \in Threads : u # t => thread'[u] = thread[u] /\ ~Busy(u)' /\ thread'[u].pc # "dead"
  BY <1>1 DEF Begins, SerialInv, Local, Busy
<1>3. UNCHANGED <<proc_list, rb_list, cancel_list, running, dropped>> /\ thread'[t].m = m
  BY <1>1 DEF Begins
<1>4. CancelNoted'
  <2>1. m \in pending \/ ~m.cancel
    BY <1>1 DEF Begins, TypeInv, TypeOK, Jobs
  <2>2. \A c \in Messages : Noted(c)' => Noted(c)
    BY <1>1, <1>2, <1>3, <2>1 DEF Noted, Begins, Busy
  <2> QED
    BY <1>3, <2>2 DEF SerialInv, CancelNoted
<1>5. Local(t)' /\ OneExperimentEach'
  BY <1>1, <1>3 DEF Local, SerialInv, OneExperimentEach
<1>6. Paired(proc_list', rb_list') /\ running' \subseteq Elements(proc_list')
  BY <1>1, <1>3 DEF SerialInv, Settled, Listed, Busy
<1> QED
  BY <1>2, <1>4, <1>5, <1>6, SerialByCall

LEMMA SerialStep ==
  ASSUME Serial, TypeInv, restarts = 0 => SerialInv, [Next]_vars
  PROVE  restarts' = 0 => SerialInv'
<1> SUFFICES ASSUME restarts' = 0 PROVE SerialInv'
  OBVIOUS
<1>1. ASSUME Restart PROVE FALSE
  BY <1>1 DEF Restart, TypeInv, TypeOK
<1>2. restarts = 0
  BY <1>1, AdvanceMoves DEF Next, on_message, hold_message, ChildExit, Listen, vars, Moves
<1>3. ASSUME NEW t \in Threads, Advance(t) PROVE SerialInv'
  BY <1>2, <1>3, ScanSerial, CallSerial DEF Advance
<1>4. ASSUME NEW m \in Messages, ChildExit(m) PROVE SerialInv'
  <2>1. /\ running' \subseteq running
        /\ UNCHANGED <<pending, thread, proc_list, rb_list, cancel_list, dropped>>
    BY <1>4 DEF ChildExit
  <2>2. \A t \in Threads : Local(t)'
    BY <1>2, <2>1 DEF SerialInv, Local, Elements, Paired
  <2>3. Settled' /\ Listed'
    BY <1>2, <2>1 DEF SerialInv, Settled, Listed, Elements, Paired
  <2> QED
    BY <1>2, <2>1, <2>2, <2>3 DEF SerialInv, Alone, Busy, CancelNoted, Noted, OneExperimentEach
<1>5. CASE UNCHANGED vars \/ Listen
  <2>1. UNCHANGED <<pending, thread, proc_list, rb_list, cancel_list, dropped, running>>
    BY <1>5 DEF vars, Listen
  <2>2. \A t \in Threads : Local(t)'
    BY <1>2, <2>1 DEF SerialInv, Local, Elements, Paired
  <2>3. Settled' /\ Listed'
    BY <1>2, <2>1 DEF SerialInv, Settled, Listed, Elements, Paired
  <2> QED
    BY <1>2, <2>1, <2>2, <2>3 DEF SerialInv, Alone, Busy, CancelNoted, Noted, OneExperimentEach
<1> QED
  BY <1>1, <1>2, <1>3, <1>4, <1>5, BeginsSerial DEF Next

LEMMA SerialInit ==
  ASSUME Init
  PROVE  SerialInv
<1>1. \A t \in Threads : thread[t] = Free
  BY DEF Init
<1>2. proc_list = <<>> /\ rb_list = <<>> /\ running = {} /\ pending = Messages
  BY DEF Init
<1>3. Paired(proc_list, rb_list)
  BY <1>2 DEF Paired
<1> QED
  BY <1>1, <1>2, <1>3 DEF SerialInv, Alone, Busy, Local, Settled, Listed, CancelNoted, Noted,
                          OneExperimentEach, Free

LEMMA SerialInvariance ==
  ASSUME Serial
  PROVE  Spec => [](TypeInv /\ OnePlace /\ (restarts = 0 => SerialInv))
<1>1. Init => TypeInv /\ OnePlace /\ (restarts = 0 => SerialInv)
  BY TypeInit, SerialInit DEF Init, OnePlace, Busy, Free
<1>2. TypeInv /\ OnePlace /\ (restarts = 0 => SerialInv) /\ [Next]_vars
        => (TypeInv /\ OnePlace /\ (restarts = 0 => SerialInv))'
  BY TypeStep, OnePlaceStep, SerialStep
<1> QED
  BY <1>1, <1>2, PTL DEF Spec
-----------------------------------------------------------------------------
(***************************************************************************)
(* add_process and update_child_process_list, when their calls do not      *)
(* overlap: until the daemon is restarted every running child is in        *)
(* proc_list with its own RB number beside it, or is being put there.      *)
(***************************************************************************)
THEOREM SerialChildrenListed ==
  ASSUME Serial
  PROVE  Spec => [](restarts = 0 => ChildrenAreListed)
<1>1. ASSUME TypeInv, SerialInv PROVE ChildrenAreListed
  <2> SUFFICES ASSUME NEW m \in running,
                      \A t \in Threads : thread[t].pc # "popRb",
                      \A t \in Threads : ~(thread[t].pc \in {"append", "appendRb"} /\ thread[t].m = m)
               PROVE  \E k \in DOMAIN proc_list \cap DOMAIN rb_list : proc_list[k] = m /\ rb_list[k] = m.rb
    BY DEF ChildrenAreListed
  <2>1. proc_list \in Seq(Jobs) /\ rb_list \in Seq(Number)
    BY <1>1 DEF TypeInv, TypeOK
  <2>2. m \in Elements(proc_list)
    BY <1>1 DEF SerialInv, Listed, Local
  <2>3. PICK k \in 1..Len(proc_list) : proc_list[k] = m
    BY <2>1, <2>2 DEF Elements
  <2>4. CASE \A t \in Threads : thread[t].pc # "appendRb"
    BY <1>1, <2>1, <2>3, <2>4 DEF SerialInv, Settled, Paired
  <2>5. ASSUME NEW t \in Threads, thread[t].pc = "appendRb"
        PROVE  \E j \in DOMAIN proc_list \cap DOMAIN rb_list : proc_list[j] = m /\ rb_list[j] = m.rb
    <3>1. PICK b \in Number : b = thread[t].m.rb
      BY <1>1, <2>5, RunTuple DEF TypeInv, Sound, Jobs
    <3>2. proc_list[Len(proc_list)] = thread[t].m /\ Paired(proc_list, Append(rb_list, b))
      BY <1>1, <2>5, <3>1 DEF SerialInv, Local
    <3>3. k # Len(proc_list)
      BY <2>3, <2>5, <3>2
    <3>4. /\ Len(Append(rb_list, b)) = Len(rb_list) + 1
          /\ \A i \in 1..Len(rb_list) : Append(rb_list, b)[i] = rb_list[i]
      BY <2>1
    <3>5. k \in 1..Len(rb_list) /\ rb_list[k] = m.rb
      BY <2>1, <2>3, <3>2, <3>3, <3>4 DEF Paired
    <3> QED
      BY <2>1, <2>3, <3>5
  <2> QED
    BY <2>4, <2>5
<1> QED
  BY <1>1, SerialInvariance, PTL

(***************************************************************************)
(* should_proceed, when the threads' calls do not overlap: until the       *)
(* daemon is restarted no two children reduce data of one experiment, if   *)
(* an experiment's number is sent as a string or as an integer, not both.  *)
(***************************************************************************)
THEOREM SerialOneReductionPerRB ==
  ASSUME Serial, \A m1, m2 \in Jobs : m1.rb.n = m2.rb.n => m1.rb = m2.rb
  PROVE  Spec => [](restarts = 0 => OneReductionPerRB)
<1>1. TypeInv /\ SerialInv => OneReductionPerRB
  BY DEF TypeInv, TypeOK, SerialInv, OneExperimentEach, OneReductionPerRB
<1> QED
  BY <1>1, SerialInvariance, PTL

(***************************************************************************)
(* add_cancel and should_cancel, when the threads' calls do not overlap:   *)
(* until the daemon is restarted no child is started for a run whose       *)
(* cancellation has been noted, if a run's number is sent as a string or   *)
(* as an integer, not both, and is one of one job only.                    *)
(***************************************************************************)
THEOREM SerialCancelledNotStarted ==
  ASSUME Serial, MaxRestarts = 0,
         \A m1, m2 \in Messages : m1.run.n = m2.run.n => m1.run = m2.run,
         \A m1, m2 \in Jobs : run_tuple(m1) = run_tuple(m2) => m1 = m2
  PROVE  Spec => CancelledNotStarted
<1>1. ASSUME TypeInv, OnePlace, SerialInv, NEW t \in Threads, Popen(t),
             NEW c \in Messages, Noted(c), Cancels(c, thread[t].m)
      PROVE  FALSE
  <2>1. PICK m : m = thread[t].m
    OBVIOUS
  <2>2. m \in Jobs /\ m \in Messages /\ m \notin dropped /\ run_tuple(m) \notin cancel_list
    BY <1>1, <2>1 DEF Popen, TypeInv, Sound, OnePlace, Busy, SerialInv, Local, Jobs
  <2>3. c.run = m.run /\ ({c.version, m.version} \subseteq {-1, 0} \/ c.version = m.version)
    BY <1>1, <2>1, <2>2 DEF Cancels
  <2>4. run_tuple(c) = run_tuple(m)
    BY <2>2, <2>3, MessageAssumption DEF run_tuple
  <2>5. PICK d \in dropped : run_tuple(d) = run_tuple(m)
    BY <1>1, <2>2, <2>4 DEF SerialInv, CancelNoted
  <2>6. d = m
    BY <1>1, <2>2, <2>5 DEF TypeInv, TypeOK
  <2> QED
    BY <2>2, <2>5, <2>6
<1>2. TypeInv /\ OnePlace /\ (restarts = 0 => SerialInv) /\ [Next]_vars
        => [\A t \in Threads : Popen(t) => ~\E c \in Messages : Noted(c) /\ Cancels(c, thread[t].m)]_vars
  BY <1>1 DEF TypeInv, TypeOK
<1> QED
  BY <1>2, SerialInvariance, PTL DEF Spec, CancelledNotStarted
=============================================================================
