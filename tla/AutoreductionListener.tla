------------------------ MODULE AutoreductionListener ------------------------
(***************************************************************************)
(* The reduction node's listener                                           *)
(* (queue_processors/autoreduction_processor/autoreduction_processor.py):  *)
(* it starts one child process per message of /queue/ReductionPending, one *)
(* at a time for each RB number, and forgets runs that were cancelled.     *)
(*                                                                         *)
(* on_message runs in stomp's receiver thread; a message that must wait is *)
(* handed to reactor.callLater, whose call of hold_message runs in the     *)
(* Twisted reactor's thread.  Both threads work on the three lists without *)
(* a lock.  A step is one operation on a list, one poll or one Popen.      *)
(*                                                                         *)
(* callLater is not made for another thread: it does not wake a reactor    *)
(* that sleeps, and the list it appends to is one the reactor empties.     *)
(***************************************************************************)
EXTENDS Integers, Sequences, FiniteSets

CONSTANTS
  Messages,     \* the messages that will be on the queue, see MessageAssumption
  Serial,       \* TRUE: a thread's call ends before the other thread's begins
  MaxRestarts   \* how often the daemon is killed and started again

(***************************************************************************)
(* A message's numbers are JSON values: the end-of-run monitor writes      *)
(* strings, the database and manual submission integers.  A version of -1  *)
(* stands for a message that has none.                                     *)
(***************************************************************************)
ASSUME MessageAssumption ==
  \A m \in Messages :
    /\ DOMAIN m = {"instrument", "run", "version", "rb", "cancel"}
    /\ m.run \in [n : Nat, type : {"str", "int"}]
    /\ m.rb \in [n : Nat, type : {"str", "int"}]
    /\ m.version \in Nat \cup {-1}
    /\ m.cancel \in BOOLEAN
ASSUME BoundsAssumption == Serial \in BOOLEAN /\ MaxRestarts \in Nat

VARIABLES
  pending,      \* messages the broker still has
  held,         \* messages waiting for the reactor to call hold_message again
  thread,       \* the two threads' calls
  proc_list,    \* the child processes, each named by its message
  rb_list,      \* their RB numbers
  cancel_list,  \* (run number, run version) pairs to drop
  running,      \* children that have not exited
  dropped,      \* messages dropped because their run was cancelled
  reactor,      \* Twisted's main loop, see ReactorState
  restarts

vars == <<pending, held, thread, proc_list, rb_list, cancel_list, running, dropped, reactor, restarts>>

Threads == {"receiver", "reactor"}
Elements(s) == {s[k] : k \in DOMAIN s}

\* Mutation: the first element is popped, not the one that was found.
PopFirst(s, k) == Tail(s)

Without(s, k) == SubSeq(s, 1, k - 1) \o SubSeq(s, k + 1, Len(s))
FirstIndex(s, e) == CHOOSE k \in DOMAIN s : s[k] = e /\ \A l \in 1..(k - 1) : s[l] # e


\* Mutation: a version that is missing is left missing.
raw_tuple(m) == <<m.run, m.version>>

\* run_tuple: the instrument is not part of it.
run_tuple(m) == <<m.run, IF m.version = -1 THEN 0 ELSE m.version>>
-----------------------------------------------------------------------------
Free == [pc |-> "free"]
Dead == [pc |-> "dead"]

\* Awake, the reactor is about to look at the calls it has been asked for.
Started == [awake |-> TRUE, new |-> {}, own |-> {}, lost |-> {}]

Init ==
  /\ pending = Messages /\ held = {}
  /\ thread = [t \in Threads |-> Free]
  /\ proc_list = <<>> /\ rb_list = <<>> /\ cancel_list = {}
  /\ running = {} /\ dropped = {} /\ restarts = 0
  /\ reactor = Started

Go(t, s) == thread' = [thread EXCEPT ![t] = s]
Goto(t, pc) == Go(t, [thread[t] EXCEPT !.pc = pc])
End(t) == Go(t, Free)

\* stomp's thread ends with an exception; Twisted logs it and forgets the call.
Raise(t) == Go(t, IF t = "receiver" THEN Dead ELSE Free)

\* A call of update_child_process_list that goes on at "next" when it returns.
Scan(m, next) == [pc |-> "scan", m |-> m, cursor |-> 1, next |-> next]

MayBegin(t) ==
  /\ thread[t] = Free
  /\ Serial => \A u \in Threads : thread[u] \in {Free, Dead}

on_message(m) ==
  /\ MayBegin("receiver") /\ m \in pending
  /\ pending' = pending \ {m}
  /\ Go("receiver", Scan(m, "received"))
  /\ UNCHANGED <<held, proc_list, rb_list, cancel_list, running, dropped, reactor, restarts>>

\* The ten seconds of a call the reactor knows of are over.
hold_message(m) ==
  /\ MayBegin("reactor") /\ m \in held \ reactor.new
  /\ held' = held \ {m}
  /\ Go("reactor", Scan(m, "proceed"))
  /\ reactor' = [reactor EXCEPT !.awake = TRUE, !.new = {}]
  /\ UNCHANGED <<pending, proc_list, rb_list, cancel_list, running, dropped, restarts>>

(***************************************************************************)
(* The reactor takes the new calls over and sleeps until the first of the  *)
(* calls it knows of is due.  When it knows of none it sleeps until it is  *)
(* woken, which only the exit of one of its children does (SIGCHLD).       *)
(***************************************************************************)
Listen ==
  /\ reactor.awake /\ thread["reactor"] = Free
  /\ reactor' = [reactor EXCEPT !.awake = FALSE, !.new = {}]
  /\ UNCHANGED <<pending, held, thread, proc_list, rb_list, cancel_list, running, dropped, restarts>>

(***************************************************************************)
(* reactor.callLater appends to the new calls.  The reactor goes through   *)
(* them and then puts an empty list in their place: what stomp's thread    *)
(* appends between the two is lost.                                        *)
(***************************************************************************)
TakingOver == thread["reactor"] = Free /\ (reactor.awake \/ held \ reactor.new # {})

callLater(t, m) ==
  \/ held' = held \cup {m} /\ reactor' = [reactor EXCEPT !.new = @ \cup {m}]
  \/ /\ t = "receiver" /\ TakingOver
     /\ reactor' = [reactor EXCEPT !.lost = @ \cup {m}] /\ UNCHANGED held

(***************************************************************************)
(* update_child_process_list: the for loop's cursor moves on by one after  *)
(* every element, also when the element was popped from under it.          *)
(***************************************************************************)
PollChild(t) ==
  /\ thread[t].pc = "scan"
  /\ LET s == thread[t] IN
       IF s.cursor > Len(proc_list) THEN Goto(t, s.next)
       ELSE IF proc_list[s.cursor] \in running
         THEN Go(t, [s EXCEPT !.cursor = @ + 1])
         ELSE Go(t, [pc |-> "index", m |-> s.m, cursor |-> s.cursor, next |-> s.next,
                     process |-> proc_list[s.cursor]])
  /\ UNCHANGED <<pending, held, proc_list, rb_list, cancel_list, running, dropped, reactor, restarts>>

FindIndex(t) ==
  /\ thread[t].pc = "index"
  /\ LET s == thread[t] IN
       IF s.process \in Elements(proc_list)
         THEN Go(t, [pc |-> "pop", m |-> s.m, cursor |-> s.cursor, next |-> s.next,
                     index |-> FirstIndex(proc_list, s.process)])
         ELSE Raise(t)
  /\ UNCHANGED <<pending, held, proc_list, rb_list, cancel_list, running, dropped, reactor, restarts>>

PopProcess(t) ==
  /\ thread[t].pc = "pop"
  /\ LET k == thread[t].index IN
       IF k <= Len(proc_list)
         THEN proc_list' = Without(proc_list, k) /\ Goto(t, "popRb")
         ELSE UNCHANGED proc_list /\ Raise(t)
  /\ UNCHANGED <<pending, held, rb_list, cancel_list, running, dropped, reactor, restarts>>

PopRb(t) ==
  /\ thread[t].pc = "popRb"
  /\ LET s == thread[t] IN
       IF s.index <= Len(rb_list)
         THEN /\ rb_list' = Without(rb_list, s.index)
              /\ Go(t, [Scan(s.m, s.next) EXCEPT !.cursor = s.cursor + 1])
         ELSE UNCHANGED rb_list /\ Raise(t)
  /\ UNCHANGED <<pending, held, proc_list, cancel_list, running, dropped, reactor, restarts>>

\* on_message: a cancellation is noted, anything else goes to hold_message.
add_cancel(t) ==
  /\ thread[t].pc = "received" /\ thread[t].m.cancel
  /\ cancel_list' = cancel_list \cup {run_tuple(thread[t].m)}
  /\ End(t)
  /\ UNCHANGED <<pending, held, proc_list, rb_list, running, dropped, reactor, restarts>>

CallHold(t) ==
  /\ thread[t].pc = "received" /\ ~thread[t].m.cancel
  /\ Go(t, Scan(thread[t].m, "proceed"))
  /\ UNCHANGED <<pending, held, proc_list, rb_list, cancel_list, running, dropped, reactor, restarts>>

\* Mutation: the RB number is not looked up.
should_proceed_always(t) ==
  /\ thread[t].pc = "proceed"
  /\ Goto(t, "cancelled")
  /\ UNCHANGED <<pending, held, proc_list, rb_list, cancel_list, running, dropped, reactor, restarts>>

\* Mutation: the message is held even when no reduction of its RB is active.
should_proceed_never(t) ==
  /\ thread[t].pc = "proceed"
  /\ callLater(t, thread[t].m) /\ End(t)
  /\ UNCHANGED <<pending, proc_list, rb_list, cancel_list, running, dropped, restarts>>

should_proceed(t) ==
  /\ thread[t].pc = "proceed"
  /\ IF thread[t].m.rb \in Elements(rb_list)
       THEN callLater(t, thread[t].m) /\ End(t)
       ELSE UNCHANGED <<held, reactor>> /\ Goto(t, "cancelled")
  /\ UNCHANGED <<pending, proc_list, rb_list, cancel_list, running, dropped, restarts>>

should_cancel(t) ==
  /\ thread[t].pc = "cancelled"
  /\ Goto(t, IF run_tuple(thread[t].m) \in cancel_list THEN "drop" ELSE "spawn")
  /\ UNCHANGED <<pending, held, proc_list, rb_list, cancel_list, running, dropped, reactor, restarts>>

\* Mutation: the cancellation stays in the list.
cancel_run_keep(t) ==
  /\ thread[t].pc = "drop"
  /\ dropped' = dropped \cup {thread[t].m} /\ End(t)
  /\ UNCHANGED <<pending, held, proc_list, rb_list, cancel_list, running, reactor, restarts>>

\* list.remove raises when the other thread has removed the pair.
cancel_run(t) ==
  /\ thread[t].pc = "drop"
  /\ LET m == thread[t].m IN
       IF run_tuple(m) \in cancel_list
         THEN /\ cancel_list' = cancel_list \ {run_tuple(m)}
              /\ dropped' = dropped \cup {m} /\ End(t)
         ELSE UNCHANGED <<cancel_list, dropped>> /\ Raise(t)
  /\ UNCHANGED <<pending, held, proc_list, rb_list, running, reactor, restarts>>

Popen(t) ==
  /\ thread[t].pc = "spawn"
  /\ running' = running \cup {thread[t].m}
  /\ reactor' = [reactor EXCEPT !.own = @ \cup {thread[t].m}]
  /\ Goto(t, "append")
  /\ UNCHANGED <<pending, held, proc_list, rb_list, cancel_list, dropped, restarts>>

\* add_process: the process first, then its RB number.
AppendProcess(t) ==
  /\ thread[t].pc = "append"
  /\ proc_list' = Append(proc_list, thread[t].m)
  /\ Goto(t, "appendRb")
  /\ UNCHANGED <<pending, held, rb_list, cancel_list, running, dropped, reactor, restarts>>

AppendRb(t) ==
  /\ thread[t].pc = "appendRb"
  /\ rb_list' = Append(rb_list, thread[t].m.rb)
  /\ End(t)
  /\ UNCHANGED <<pending, held, proc_list, cancel_list, running, dropped, reactor, restarts>>
-----------------------------------------------------------------------------
ChildExit(m) ==
  /\ m \in running
  /\ running' = running \ {m}
  /\ reactor' = [reactor EXCEPT !.awake = @ \/ m \in reactor.own, !.own = @ \ {m}]
  /\ UNCHANGED <<pending, held, thread, proc_list, rb_list, cancel_list, dropped, restarts>>

\* restart.sh kills the daemon and starts it again; the children live on.
Restart ==
  /\ restarts < MaxRestarts
  /\ restarts' = restarts + 1
  /\ thread' = [t \in Threads |-> Free]
  /\ held' = {} /\ proc_list' = <<>> /\ rb_list' = <<>> /\ cancel_list' = {}
  /\ reactor' = [Started EXCEPT !.lost = reactor.lost]
  /\ UNCHANGED <<pending, running, dropped>>

Advance(t) ==
  \/ PollChild(t) \/ FindIndex(t) \/ PopProcess(t) \/ PopRb(t)
  \/ add_cancel(t) \/ CallHold(t) \/ should_proceed(t) \/ should_cancel(t) \/ cancel_run(t)
  \/ Popen(t) \/ AppendProcess(t) \/ AppendRb(t)

Next ==
  \/ \E m \in Messages : on_message(m) \/ hold_message(m) \/ ChildExit(m)
  \/ \E t \in Threads : Advance(t)
  \/ Listen \/ Restart

\* Started calls return, messages are delivered, calls the reactor knows of are made, children exit.
Fairness ==
  /\ \A t \in Threads : WF_vars(Advance(t))
  /\ WF_vars(Listen) /\ WF_vars(\E m \in Messages : ChildExit(m))
  /\ SF_vars(\E m \in Messages : on_message(m))
  /\ \A m \in Messages : SF_vars(hold_message(m))

Spec == Init /\ [][Next]_vars
FairSpec == Spec /\ Fairness
-----------------------------------------------------------------------------
Number == [n : Nat, type : {"str", "int"}]
Jobs == {m \in Messages : ~m.cancel}

ThreadState ==
  {Free, Dead}
  \cup [pc : {"scan"}, m : Messages, cursor : Nat, next : {"received", "proceed"}]
  \cup [pc : {"index"}, m : Messages, cursor : Nat, next : {"received", "proceed"}, process : Jobs]
  \cup [pc : {"pop", "popRb"}, m : Messages, cursor : Nat, next : {"received", "proceed"}, index : Nat]
  \cup [pc : {"received", "proceed"}, m : Messages, cursor : Nat, next : {"received", "proceed"}]
  \cup [pc : {"cancelled", "drop", "spawn", "append", "appendRb"}, m : Messages, cursor : Nat,
        next : {"proceed"}]

\* Whether the loop runs, the calls it has not looked at, its children, and (history) calls lost.
ReactorState ==
  [awake : BOOLEAN, new : SUBSET Jobs, own : SUBSET Jobs, lost : SUBSET Jobs]

\* The lists and the two threads' calls are of their types.
TypeOK ==
  /\ pending \subseteq Messages /\ held \subseteq Jobs
  /\ thread \in [Threads -> ThreadState]
  /\ proc_list \in Seq(Jobs) /\ rb_list \in Seq(Number)
  /\ cancel_list \subseteq Number \X Nat
  /\ running \subseteq Jobs /\ dropped \subseteq Jobs
  /\ reactor \in ReactorState
  /\ restarts \in 0..MaxRestarts

(***************************************************************************)
(* should_proceed, "Check whether there's a job already running with the   *)
(* same RB", and its log, "Duplicate RB run, waiting for the first to      *)
(* finish": no two children reduce data of one experiment.                 *)
(***************************************************************************)
OneReductionPerRB ==
  \A m1, m2 \in running : m1.rb.n = m2.rb.n => m1 = m2

(***************************************************************************)
(* A running child can be found: it is in proc_list, with its own RB       *)
(* number at the same place of rb_list, or the thread that started it is   *)
(* about to put it there.                                                  *)
(***************************************************************************)
ChildrenAreListed ==
  \A m \in running :
    \/ \E t \in Threads : thread[t].pc \in {"append", "appendRb"} /\ thread[t].m = m
    \/ \E k \in DOMAIN proc_list \cap DOMAIN rb_list : proc_list[k] = m /\ rb_list[k] = m.rb
    \/ \E t \in Threads : thread[t].pc = "popRb"

(***************************************************************************)
(* "list of (run number, run version)s to drop (once) used": one           *)
(* cancellation drops one message at most, whichever thread finds it.      *)
(***************************************************************************)
CancelUsedOnce ==
  \A d \in dropped :
    Cardinality({e \in dropped : run_tuple(e) = run_tuple(d)})
      <= Cardinality({c \in Messages \ pending : c.cancel /\ run_tuple(c) = run_tuple(d)})

(***************************************************************************)
(* Every job the broker delivers is in the end reduced or dropped: none is *)
(* held for ever, none is lost between the two threads.  What callLater    *)
(* does to a call of stomp's thread is excepted: the reactor's list loses  *)
(* it, or the child the job waits for has exited already, and the reactor, *)
(* with no call to make and no child left, sleeps.                         *)
(***************************************************************************)
Served(m) == m \in dropped \/ m \in running
Reduced(m) ==
  /\ m \notin pending \cup held \cup dropped \cup running \cup reactor.lost
  /\ \A t \in Threads : thread[t].pc \in {"free", "dead"} \/ thread[t].m # m
Unheard(m) ==
  /\ m \in reactor.new /\ held \subseteq reactor.new /\ ~reactor.awake /\ reactor.own = {}
  /\ \E j \in Jobs : j.rb = m.rb /\ Reduced(j)

EveryJobServed ==
  \A m \in Jobs : <>(Served(m) \/ m \in reactor.lost) \/ <>[]Unheard(m)

(***************************************************************************)
(* add_cancel, "Add this run to the cancel list, to cancel it next time it *)
(* comes up": no child is started for a run whose cancellation is noted.   *)
(***************************************************************************)
Noted(c) == c.cancel /\ c \notin pending /\ \A t \in Threads : thread[t].pc \in {"free", "dead"} \/ thread[t].m # c
Cancels(c, m) ==
  /\ c.instrument = m.instrument /\ c.run.n = m.run.n
  /\ {c.version, m.version} \subseteq {-1, 0} \/ c.version = m.version

CancelledNotStarted ==
  [][\A t \in Threads : Popen(t) => ~\E c \in Messages : Noted(c) /\ Cancels(c, thread[t].m)]_vars
=============================================================================
