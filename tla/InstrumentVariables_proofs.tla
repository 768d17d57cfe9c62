--------------------- MODULE InstrumentVariables_proofs ---------------------
(***************************************************************************)
(* Theorems about InstrumentVariables, for every set of runs, experiments, *)
(* scripts and sessions and whatever the table held before.                *)
(***************************************************************************)
EXTENDS InstrumentVariables, Extrema, FiniteSetTheorems, TLAPS

-----------------------------------------------------------------------------
(***************************************************************************)
(* The sets of variables by their starts.  The pages list those after the  *)
(* last completed run, and look the set of a run up from all of them.      *)
(***************************************************************************)
LEMMA MaxOfGreatest ==
  ASSUME NEW S \in SUBSET (0..MaxRun + 1), S # {}
  PROVE  MaxOf(S) \in S /\ \A m \in S : m <= MaxOf(S)
<1>1. S \in SUBSET Nat /\ MaxRun + 1 \in Nat /\ \A i \in S : i <= MaxRun + 1
  BY RunsAssumption
<1>2. \E n \in S : \A m \in S : m <= n
  BY <1>1, GreatestExists
<1> QED
  BY <1>2 DEF MaxOf

LEMMA StartsType ==
  ASSUME TypeOK
  PROVE  Starts \in SUBSET (0..MaxRun + 1)
BY DEF TypeOK, Row, Starts

\* The start of the set show_variables_for_run finds for run n.
Before(n) == {s \in Starts : s <= n}
Governor(n) == MaxOf(Before(n))

LEMMA GoverningSet ==
  ASSUME TypeOK, NEW n \in Nat, n # 0
  PROVE  /\ Before(n) # {} =>
              /\ Governor(n) \in Starts /\ Governor(n) <= n
              /\ \A s \in Starts : s <= n => s <= Governor(n)
              /\ Governing(n) = At(Governor(n)) /\ Governing(n) # {}
         /\ Before(n) = {} => Governing(n) = {}
<1>1. Governing(n) = IF Before(n) = {} THEN {} ELSE At(Governor(n))
  BY DEF Governing, Before, Governor
<1>2. ASSUME Before(n) # {}
      PROVE  /\ Governor(n) \in Starts /\ Governor(n) <= n
             /\ \A s \in Starts : s <= n => s <= Governor(n)
  <2>1. Before(n) \in SUBSET (0..MaxRun + 1)
    BY StartsType DEF Before
  <2>2. Governor(n) \in Before(n) /\ \A m \in Before(n) : m <= Governor(n)
    BY <1>2, <2>1, MaxOfGreatest DEF Governor
  <2> QED
    BY <2>2 DEF Before
<1>3. \A s \in Starts : At(s) # {}
  BY DEF Starts, At
<1> QED
  BY <1>1, <1>2, <1>3

(***************************************************************************)
(* A range of instrument_summary ends before the next set in the list, and *)
(* for the sets it displays that is the next of all sets.                  *)
(***************************************************************************)
LEMMA DisplayedSets ==
  ASSUME TypeOK, NEW latest \in RunNumbers, Governing(latest) # {}
  PROVE  /\ Displayed(latest) = {k \in Starts : k >= Governor(latest)}
         /\ \A k \in Displayed(latest) :
              {m \in Listed(latest) : m > k} = {m \in Starts : m > k}
<1>1. /\ latest \in Nat /\ latest # 0 /\ latest + 1 \in Nat /\ latest + 1 # 0
      /\ \A s \in Starts : s \in Nat
  BY RunsAssumption, StartsType DEF RunNumbers
<1>2. Before(latest) # {} /\ Before(latest + 1) # {}
  <2>1. Before(latest) # {}
    BY <1>1, GoverningSet
  <2> QED
    BY <1>1, <2>1 DEF Before
<1> DEFINE g == Governor(latest)
           h == Governor(latest + 1)
<1>3. /\ g \in Starts /\ g <= latest /\ \A s \in Starts : s <= latest => s <= g
      /\ Governing(latest) = At(g) /\ At(g) # {}
  BY <1>1, <1>2, GoverningSet
<1>4. /\ h \in Starts /\ h <= latest + 1 /\ \A s \in Starts : s <= latest + 1 => s <= h
      /\ Governing(latest + 1) = At(h) /\ At(h) # {}
  BY <1>1, <1>2, GoverningSet
<1>5. CurrentStart(latest) = g
  BY <1>3 DEF CurrentStart, At
<1>6. {rows[i].start : i \in At(h)} = {h}
  BY <1>4 DEF At
<1>7. Listed(latest) = {h} \cup {k \in Starts : k > latest + 1}
  BY <1>4, <1>6 DEF Listed, Upcoming
<1>8. g \in Nat /\ h \in Nat
  BY <1>1, <1>3, <1>4
<1> HIDE DEF g, h
<1>9. (h = g /\ latest + 1 \notin Starts) \/ h = latest + 1
  <2>1. CASE latest + 1 \in Starts
    BY <1>1, <1>4, <1>8, <2>1
  <2>2. CASE latest + 1 \notin Starts
    BY <1>1, <1>3, <1>4, <1>8, <2>2
  <2> QED
    BY <2>1, <2>2
<1>10. Displayed(latest) = {k \in Starts : k >= g}
  <2>1. Displayed(latest) = {g} \cup {h} \cup {k \in Starts : k > latest + 1}
    BY <1>5, <1>7 DEF Displayed
  <2>2. ASSUME NEW k \in Starts PROVE k >= g <=> k \in {g} \cup {h} \cup {m \in Starts : m > latest + 1}
    <3>1. k \in Nat
      BY <1>1
    <3> QED
      BY <1>1, <1>3, <1>8, <1>9, <3>1
  <2> QED
    BY <1>3, <1>4, <2>1, <2>2
<1>11. ASSUME NEW k \in Displayed(latest)
       PROVE  {m \in Listed(latest) : m > k} = {m \in Starts : m > k}
  <2>1. k \in Starts /\ k >= g /\ k \in Nat
    BY <1>1, <1>10
  <2>2. ASSUME NEW m \in Starts, m > k PROVE m \in Listed(latest)
    <3>1. m \in Nat /\ m > g
      BY <1>1, <1>8, <2>1, <2>2
    <3>2. m > latest
      BY <1>1, <1>3, <1>8, <3>1
    <3> QED
      BY <1>1, <1>7, <1>9, <3>1, <3>2
  <2> QED
    BY <1>4, <1>7, <2>2
<1> QED
  BY <1>10, <1>11 DEF g

LEMMA RangeOfGovernor ==
  ASSUME TypeOK, NEW latest \in RunNumbers, Governing(latest) # {},
         NEW n \in latest..MaxRun + 1
  PROVE  {k \in Displayed(latest) : Covers(latest, k, n)} = {rows[i].start : i \in Governing(n)}
<1>1. /\ latest \in Nat /\ latest # 0 /\ n \in Nat /\ n # 0 /\ latest <= n
      /\ \A s \in Starts : s \in Nat
  BY RunsAssumption, StartsType DEF RunNumbers
<1>2. Before(latest) # {} /\ Before(n) # {}
  <2>1. Before(latest) # {}
    BY <1>1, GoverningSet
  <2> QED
    BY <1>1, <2>1 DEF Before
<1> DEFINE g == Governor(latest)
           h == Governor(n)
<1>3. g \in Starts /\ g <= latest /\ \A s \in Starts : s <= latest => s <= g
  BY <1>1, <1>2, GoverningSet
<1>4. /\ h \in Starts /\ h <= n /\ \A s \in Starts : s <= n => s <= h
      /\ Governing(n) = At(h) /\ At(h) # {}
  BY <1>1, <1>2, GoverningSet
<1>5. {rows[i].start : i \in Governing(n)} = {h}
  BY <1>4 DEF At
<1>6. g \in Nat /\ h \in Nat /\ g <= h
  BY <1>1, <1>3, <1>4
<1>7. /\ Displayed(latest) = {k \in Starts : k >= g}
      /\ \A k \in Displayed(latest) : {m \in Listed(latest) : m > k} = {m \in Starts : m > k}
  BY DisplayedSets
<1> HIDE DEF g, h
<1>8. ASSUME NEW k \in Displayed(latest)
      PROVE  Covers(latest, k, n) <=> k <= n /\ \A m \in Starts : m > k => n < m
  <2> DEFINE later == {m \in Starts : m > k}
             next == CHOOSE i \in later : \A j \in later : i <= j
  <2>1. k \in Starts /\ k >= g /\ k \in Nat
    BY <1>1, <1>7
  <2>2. RunEnd(latest, k) = IF later = {} THEN 0 ELSE next - 1
    <3> DEFINE listed == {m \in Listed(latest) : m > k}
               First(S) == CHOOSE i \in S : \A j \in S : i <= j
    <3>1. listed = later
      BY <1>7
    <3>2. RunEnd(latest, k) = IF listed = {} THEN 0 ELSE First(listed) - 1
      BY DEF RunEnd
    <3>3. First(listed) = First(later)
      <4> HIDE DEF listed, later
      <4> QED
        BY <3>1
    <3> QED
      BY <3>1, <3>2, <3>3
  <2>3. CASE later = {}
    BY <2>2, <2>3 DEF Covers
  <2>4. CASE later # {}
    <3>1. later \in SUBSET Nat
      BY <1>1
    <3>2. next \in later /\ \A j \in later : next <= j
      BY <2>4, <3>1, LeastExists
    <3>3. next \in Starts /\ next \in Nat /\ next > k /\ \A m \in Starts : m > k => next <= m
      BY <3>1, <3>2
    <3>4. RunEnd(latest, k) = next - 1
      BY <2>2, <2>4
    <3> HIDE DEF next, later
    <3>5. next > latest
      BY <1>1, <1>3, <1>6, <2>1, <3>3
    <3>6. RunEnd(latest, k) # 0
      BY <1>1, <3>3, <3>4, <3>5
    <3>7. Covers(latest, k, n) <=> k <= n /\ n < next
      BY <1>1, <3>3, <3>4, <3>6 DEF Covers
    <3>8. n < next <=> \A m \in Starts : m > k => n < m
      BY <1>1, <3>3
    <3> QED
      BY <3>7, <3>8
  <2> QED
    BY <2>3, <2>4
<1>9. ASSUME NEW k \in Displayed(latest)
      PROVE  Covers(latest, k, n) <=> k = h
  <2>1. k \in Starts /\ k \in Nat
    BY <1>1, <1>7
  <2>2. CASE k = h
    BY <1>1, <1>4, <1>6, <1>8, <2>2
  <2>3. CASE k # h
    <3>1. ~(k <= n /\ \A m \in Starts : m > k => n < m)
      BY <1>1, <1>4, <1>6, <2>1, <2>3
    <3> QED
      BY <1>8, <2>3, <3>1
  <2> QED
    BY <2>2, <2>3
<1>10. h \in Displayed(latest)
  BY <1>4, <1>6, <1>7
<1> QED
  BY <1>5, <1>9, <1>10
-----------------------------------------------------------------------------
(***************************************************************************)
(* Finite sets, and the sequences SetToSeq makes of them.                  *)
(***************************************************************************)
LEMMA ImageFinite ==
  ASSUME NEW S, NEW T, NEW f \in [S -> T], IsFiniteSet(S), \A t \in T : \E x \in S : t = f[x]
  PROVE  IsFiniteSet(T)
<1>1. f \in Surjection(S, T)
  BY DEF Surjection
<1> QED
  BY <1>1, FS_Surjection

LEMMA SetToSeqType ==
  ASSUME NEW S, IsFiniteSet(S), NEW T, S \subseteq T
  PROVE  /\ SetToSeq(S) \in Seq(T)
         /\ \A i \in DOMAIN SetToSeq(S) : SetToSeq(S)[i] \in S
         /\ \A i, j \in DOMAIN SetToSeq(S) : SetToSeq(S)[i] = SetToSeq(S)[j] => i = j
<1>1. PICK n \in Nat : ExistsBijection(1..n, S)
  BY FS_NatBijection
<1>2. n = Cardinality(S)
  BY <1>1, FS_CountingElements
<1>3. PICK f : f \in Bijection(1..n, S)
  BY <1>1 DEF ExistsBijection
<1>4. f \in [1..Cardinality(S) -> S] /\ IsInjective(f)
  BY <1>2, <1>3 DEF Bijection, Injection, IsInjective
<1>5. SetToSeq(S) \in [1..n -> S] /\ IsInjective(SetToSeq(S))
  BY <1>2, <1>4 DEF SetToSeq
<1>6. PICK s : s = SetToSeq(S)
  OBVIOUS
<1>7. s \in [1..n -> T]
  BY <1>5, <1>6
<1>8. s \in Seq(T)
  BY <1>7
<1> QED
  BY <1>5, <1>6, <1>8 DEF IsInjective
-----------------------------------------------------------------------------
(***************************************************************************)
(* The inductive invariant: what the handlers and requests have looked up  *)
(* are rows the table had, so that what is saved again has an identifier   *)
(* that was given out, and a form that is posted is in range.              *)
(***************************************************************************)
Holdings(n) == UNION {[I -> Row] : I \in SUBSET (1..n - 1)}
Writable(n) == {w \in Write : w.op = "save" => w.id \in 1..n - 1}

QPStates(n) ==
  {Idle}
  \cup [pc : {"run", "defaults", "latest", "save"}, run : Runs, held : Holdings(n),
        writes : Seq(Writable(n)), alone : BOOLEAN]
  \cup [pc : {"set", "save"}, latest : Nat, run : Runs, held : Holdings(n),
        writes : Seq(Writable(n)), alone : BOOLEAN]

Shown(plans, N, Forms, n) ==
  [pc : {"update", "shown"}, plan : plans, n : N, form : Forms, held : Holdings(n),
   writes : Seq(Writable(n)), alone : BOOLEAN]

EditForms == [to : 0..MaxRun, typed : Edited, tracks : BOOLEAN]
ReplaceForms == [e : Experiments, typed : Edited, tracks : BOOLEAN]
NewRows == {R \in SUBSET Row : IsFiniteSet(R)}

Finishing(n) ==
  [pc : {"finish"}, plan : {"view", "save", "rerun default"}, writes : Seq(Writable(n)),
   alone : BOOLEAN]

Setting(n) ==
  [pc : {"finish"}, plan : {"edit", "delete"}, n : 0..MaxRun, to : 0..MaxRun,
   writes : Seq(Writable(n)), alone : BOOLEAN, was : [RunNumbers -> SUBSET (Names \X Texts)]]

WebStates(n) ==
  {Idle}
  \cup Shown({"view"}, 0..MaxRun + 1, {<<>>}, n)
  \cup Shown({"rerun", "rerun default"}, Runs, {<<>>}, n)
  \cup Shown({"edit"}, RunNumbers, EditForms, n)
  \cup Shown({"replace"}, {0}, ReplaceForms, n)
  \cup Shown({"save"}, {0}, NewRows, n)
  \cup Finishing(n) \cup Setting(n)

RowsOK ==
  /\ nextId \in Nat \ {0} /\ DOMAIN rows \subseteq 1..nextId - 1
  /\ rows \in [DOMAIN rows -> Row]

IInv ==
  /\ RowsOK
  /\ script \in Scripts \cup {Unreadable}
  /\ DOMAIN filed \subseteq Runs /\ \A run \in DOMAIN filed : filed[run] \subseteq Names \X Texts
  /\ qp \in QPStates(nextId)
  /\ web \in [Sessions -> WebStates(nextId)]
  /\ requests \in 0..MaxRequests /\ changes \in 0..MaxScripts

LEMMA SeqMonotone ==
  ASSUME NEW S, NEW T, S \subseteq T
  PROVE  Seq(S) \subseteq Seq(T)
<1> SUFFICES ASSUME NEW s \in Seq(S) PROVE s \in Seq(T)
  OBVIOUS
<1>1. s \in [1..Len(s) -> T] /\ Len(s) \in Nat
  <2>1. s \in [1..Len(s) -> S] /\ Len(s) \in Nat
    OBVIOUS
  <2> QED
    BY <2>1
<1> QED
  BY <1>1

LEMMA JobFields ==
  ASSUME NEW n, NEW j \in QPStates(n) \cup WebStates(n)
  PROVE  j = Idle \/ (j.pc # "idle" /\ j.writes \in Seq(Writable(n)) /\ j.alone \in BOOLEAN)
<1>1. CASE j \in QPStates(n)
  BY <1>1 DEF QPStates
<1>2. \A P, N, F : j \in Shown(P, N, F, n) =>
        j.pc # "idle" /\ j.writes \in Seq(Writable(n)) /\ j.alone \in BOOLEAN
  BY DEF Shown
<1>3. j \in Finishing(n) \cup Setting(n) =>
        j.pc # "idle" /\ j.writes \in Seq(Writable(n)) /\ j.alone \in BOOLEAN
  BY DEF Finishing, Setting
<1>4. CASE j \in WebStates(n)
  BY <1>2, <1>3, <1>4 DEF WebStates
<1> QED
  BY <1>1, <1>4

LEMMA InvType ==
  ASSUME IInv
  PROVE  TypeOK
<1>1. Seq(Writable(nextId)) \subseteq Seq(Write)
  BY SeqMonotone DEF Writable
<1>2. Idle.writes \in Seq(Write)
  BY DEF Idle
<1>3. ASSUME NEW j \in QPStates(nextId) \cup WebStates(nextId)
      PROVE  j.writes \in Seq(Write) /\ (j.pc = "idle" => j = Idle)
  <2>1. j = Idle \/ (j.pc # "idle" /\ j.writes \in Seq(Writable(nextId)))
    BY JobFields
  <2> QED
    BY <1>1, <1>2, <2>1
<1>4. qp \in QPStates(nextId) /\ \A s \in Sessions : web[s] \in WebStates(nextId)
  BY DEF IInv
<1> QED
  BY <1>3, <1>4 DEF IInv, TypeOK, RowsOK

LEMMA StatesGrow ==
  ASSUME NEW n \in Nat, NEW m \in Nat, n <= m
  PROVE  /\ Holdings(n) \subseteq Holdings(m) /\ Seq(Writable(n)) \subseteq Seq(Writable(m))
         /\ QPStates(n) \subseteq QPStates(m) /\ WebStates(n) \subseteq WebStates(m)
<1>1. Holdings(n) \subseteq Holdings(m)
  <2>1. SUBSET (1..n - 1) \subseteq SUBSET (1..m - 1)
    OBVIOUS
  <2> QED
    BY <2>1 DEF Holdings
<1>2. Seq(Writable(n)) \subseteq Seq(Writable(m))
  <2>1. Writable(n) \subseteq Writable(m)
    BY DEF Writable, Write
  <2> QED
    BY <2>1, SeqMonotone
<1>3. QPStates(n) \subseteq QPStates(m)
  BY <1>1, <1>2 DEF QPStates
<1>4. ASSUME NEW P, NEW N, NEW F PROVE Shown(P, N, F, n) \subseteq Shown(P, N, F, m)
  BY <1>1, <1>2 DEF Shown
<1>5. WebStates(n) \subseteq WebStates(m)
  <2> SUFFICES ASSUME NEW j \in WebStates(n) PROVE j \in WebStates(m)
    OBVIOUS
  <2>1. \A P, N, F : j \in Shown(P, N, F, n) => j \in Shown(P, N, F, m)
    BY <1>4
  <2>2. Finishing(n) \subseteq Finishing(m) /\ Setting(n) \subseteq Setting(m)
    BY <1>2 DEF Finishing, Setting
  <2> QED
    BY <2>1, <2>2 DEF WebStates
<1> QED
  BY <1>1, <1>2, <1>3, <1>5
-----------------------------------------------------------------------------
(***************************************************************************)
(* What is read and what is going to be written.                           *)
(***************************************************************************)
LEMMA HeldType ==
  ASSUME RowsOK, NEW I \in SUBSET DOMAIN rows
  PROVE  Held(I) \in Holdings(nextId)
<1>1. I \in SUBSET (1..nextId - 1) /\ Held(I) \in [I -> Row]
  BY DEF RowsOK, Held
<1> QED
  BY <1>1 DEF Holdings

LEMMA HoldingType ==
  ASSUME NEW n \in Nat, NEW h \in Holdings(n)
  PROVE  /\ DOMAIN h \subseteq 1..n - 1 /\ IsFiniteSet(DOMAIN h)
         /\ \A i \in DOMAIN h : h[i] \in Row
<1>1. PICK I \in SUBSET (1..n - 1) : h \in [I -> Row]
  BY DEF Holdings
<1>2. IsFiniteSet(1..n - 1)
  BY FS_Interval
<1>3. IsFiniteSet(I)
  BY <1>2, FS_Subset
<1> QED
  BY <1>1, <1>3

LEMMA LookedUp ==
  ASSUME RowsOK
  PROVE  /\ \A n : At(n) \subseteq DOMAIN rows /\ Held(At(n)) \in Holdings(nextId)
         /\ \A n : Governing(n) \subseteq DOMAIN rows /\ Held(Governing(n)) \in Holdings(nextId)
         /\ \A e : For(e) \subseteq DOMAIN rows /\ Held(For(e)) \in Holdings(nextId)
         /\ nextId \in Nat
<1>1. \A n : At(n) \subseteq DOMAIN rows
  BY DEF At
<1>2. \A n : Governing(n) \subseteq DOMAIN rows
  BY DEF Governing, At
<1>3. \A e : For(e) \subseteq DOMAIN rows
  BY DEF For
<1> QED
  BY <1>1, <1>2, <1>3, HeldType DEF RowsOK

LEMMA ValuesType ==
  ASSUME NEW n \in Nat, NEW h \in Holdings(n)
  PROVE  Values(h) \in SUBSET (Names \X Texts)
BY HoldingType DEF Values, Row

LEMMA DefaultsType ==
  ASSUME IInv
  PROVE  Defaults \in NewRows
<1> DEFINE f == [p \in ScriptPairs |-> [name |-> p[1], value |-> p[2], start |-> 0,
                                        experiment |-> NoExperiment, tracks |-> TRUE]]
<1>1. IsFiniteSet(ScriptPairs) /\ ScriptPairs \subseteq Pairs
  BY ScriptsAssumption, FS_EmptySet DEF IInv, ScriptPairs, Pairs
<1>2. f \in [ScriptPairs -> Defaults] /\ \A t \in Defaults : \E p \in ScriptPairs : t = f[p]
  BY DEF Defaults
<1>3. IsFiniteSet(Defaults)
  <2> HIDE DEF f
  <2> QED
    BY <1>1, <1>2, ImageFinite
<1>4. Defaults \subseteq Row
  <2>1. \A p \in ScriptPairs : p[1] \in Names /\ p[2] \in Texts
    BY <1>1 DEF Names, Texts
  <2>2. 0 \in 0..MaxRun + 1
    BY RunsAssumption
  <2>3. ASSUME NEW x \in Names, NEW v \in Texts
        PROVE  [name |-> x, value |-> v, start |-> 0,
                experiment |-> NoExperiment, tracks |-> TRUE] \in Row
    BY <2>2 DEF Row
  <2> HIDE DEF f
  <2> QED
    BY <2>1, <2>3 DEF Defaults
<1> QED
  BY <1>3, <1>4 DEF NewRows

LEMMA NewsType ==
  ASSUME NEW R \in NewRows, NEW n \in Nat
  PROVE  News(R) \in Seq(Writable(n))
<1> DEFINE S == {NewRow(r) : r \in R}
           f == [r \in R |-> NewRow(r)]
<1>1. f \in [R -> S] /\ \A t \in S : \E r \in R : t = f[r]
  OBVIOUS
<1>2. IsFiniteSet(S)
  <2> HIDE DEF f, S
  <2> QED
    BY <1>1, ImageFinite DEF NewRows
<1>3. S \subseteq Writable(n)
  BY DEF NewRow, Writable, Write, NewRows
<1> HIDE DEF S
<1>4. SetToSeq(S) \in Seq(Writable(n))
  BY <1>2, <1>3, SetToSeqType
<1> QED
  BY <1>4 DEF News, S

LEMMA SavesType ==
  ASSUME NEW n \in Nat, NEW h \in Holdings(n), NEW I \in SUBSET DOMAIN h
  PROVE  /\ IsFiniteSet({SaveRow(i, h[i]) : i \in I})
         /\ {SaveRow(i, h[i]) : i \in I} \subseteq Writable(n)
         /\ IsFiniteSet({DeleteRow(i, h[i]) : i \in I})
         /\ {DeleteRow(i, h[i]) : i \in I} \subseteq Writable(n)
<1>1. DOMAIN h \subseteq 1..n - 1 /\ IsFiniteSet(I) /\ \A i \in DOMAIN h : h[i] \in Row
  BY HoldingType, FS_Subset
<1> DEFINE S == {SaveRow(i, h[i]) : i \in I}
           D == {DeleteRow(i, h[i]) : i \in I}
           f == [i \in I |-> SaveRow(i, h[i])]
           g == [i \in I |-> DeleteRow(i, h[i])]
<1>2. /\ f \in [I -> S] /\ \A t \in S : \E i \in I : t = f[i]
      /\ g \in [I -> D] /\ \A t \in D : \E i \in I : t = g[i]
  OBVIOUS
<1>3. IsFiniteSet(S) /\ IsFiniteSet(D)
  <2> HIDE DEF f, g, S, D
  <2> QED
    BY <1>1, <1>2, ImageFinite
<1>4. S \subseteq Writable(n) /\ D \subseteq Writable(n)
  BY <1>1 DEF SaveRow, DeleteRow, Writable, Write
<1> QED
  BY <1>3, <1>4
-----------------------------------------------------------------------------
(***************************************************************************)
(* Writes.                                                                 *)
(***************************************************************************)
LEMMA ApplyType ==
  ASSUME RowsOK, NEW w \in Writable(nextId), Apply(w)
  PROVE  RowsOK' /\ nextId' \in Nat /\ nextId <= nextId' /\ nextId \in Nat
<1> USE DEF RowsOK
<1>0. w.op \in {"new", "save", "delete"} /\ w.row \in Row /\ w.id \in Nat
      /\ (w.op = "save" => w.id \in 1..nextId - 1)
  BY DEF Writable, Write
<1>1. CASE w.op = "new"
  <2>1. rows' = Put(rows, nextId, w.row) /\ nextId' = nextId + 1
    BY <1>1 DEF Apply
  <2> QED
    BY <1>0, <2>1 DEF Put
<1>2. CASE w.op = "save"
  <2>1. rows' = Put(rows, w.id, w.row) /\ nextId' = nextId
    BY <1>2 DEF Apply
  <2> QED
    BY <1>0, <1>2, <2>1 DEF Put
<1>3. CASE w.op = "delete"
  <2>1. rows' = Held(DOMAIN rows \ {w.id}) /\ nextId' = nextId
    BY <1>3 DEF Apply
  <2> QED
    BY <2>1 DEF Held
<1> QED
  BY <1>0, <1>1, <1>2, <1>3

LEMMA RestType ==
  ASSUME NEW n \in Nat
  PROVE  /\ \A q \in QPStates(n) : q.writes # <<>> => Rest(q) \in QPStates(n)
         /\ \A q \in QPStates(n) : Disturbed(q) \in QPStates(n)
         /\ \A j \in WebStates(n) : j.writes # <<>> => Rest(j) \in WebStates(n)
         /\ \A j \in WebStates(n) : Disturbed(j) \in WebStates(n)
<1>0. Idle.writes = <<>> /\ Idle.pc = "idle"
  BY DEF Idle
<1>1. ASSUME NEW q \in QPStates(n), q.writes # <<>> PROVE Rest(q) \in QPStates(n)
  <2>1. q # Idle /\ Tail(q.writes) \in Seq(Writable(n))
    BY <1>0, <1>1, JobFields
  <2>2. [q EXCEPT !.writes = Tail(q.writes)] \in QPStates(n)
    BY <2>1 DEF QPStates
  <2> QED
    BY <2>2 DEF Rest, QPStates
<1>2. ASSUME NEW q \in QPStates(n) PROVE Disturbed(q) \in QPStates(n)
  BY <1>0 DEF Disturbed, QPStates
<1>3. \A P, N, F : \A j \in Shown(P, N, F, n) :
        /\ \A w \in Seq(Writable(n)) : [j EXCEPT !.writes = w] \in Shown(P, N, F, n)
        /\ [j EXCEPT !.alone = FALSE] \in Shown(P, N, F, n)
  BY ZenonT(30) DEF Shown
<1>4. ASSUME NEW j \in WebStates(n), j.writes # <<>> PROVE Rest(j) \in WebStates(n)
  <2>1. j # Idle /\ Tail(j.writes) \in Seq(Writable(n))
    BY <1>0, <1>4, JobFields
  <2>2. PICK w \in Seq(Writable(n)) : w = Tail(j.writes)
    BY <2>1
  <2>3. j \in Finishing(n) \cup Setting(n) =>
          [j EXCEPT !.writes = w] \in Finishing(n) \cup Setting(n)
    BY DEF Finishing, Setting
  <2>4. [j EXCEPT !.writes = w] \in WebStates(n)
    BY <1>3, <2>1, <2>3 DEF WebStates
  <2> QED
    BY <2>2, <2>4 DEF Rest, WebStates
<1>5. ASSUME NEW j \in WebStates(n) PROVE Disturbed(j) \in WebStates(n)
  <2>0. j \in Finishing(n) \cup Setting(n) =>
          [j EXCEPT !.alone = FALSE] \in Finishing(n) \cup Setting(n)
    BY DEF Finishing, Setting
  <2>1. j = Idle \/ [j EXCEPT !.alone = FALSE] \in WebStates(n)
    BY <1>3, <2>0 DEF WebStates
  <2> QED
    BY <1>0, <1>5, <2>1 DEF Disturbed
<1> QED
  BY <1>1, <1>2, <1>4, <1>5

LEMMA WritesType ==
  ASSUME IInv, QPWrite \/ \E s \in Sessions : WebWrite(s)
  PROVE  IInv'
<1>0. Idle.writes = <<>> /\ nextId \in Nat /\ RowsOK
  BY DEF Idle, IInv, RowsOK
<1>1. CASE QPWrite
  <2>1. qp \in QPStates(nextId) /\ qp.writes # <<>> /\ Apply(Head(qp.writes))
    BY <1>1 DEF QPWrite, IInv
  <2>2. Head(qp.writes) \in Writable(nextId)
    BY <1>0, <2>1, JobFields
  <2>3. RowsOK' /\ nextId' \in Nat /\ nextId <= nextId'
    BY <1>0, <2>1, <2>2, ApplyType
  <2>4. qp' \in QPStates(nextId)
    BY <1>0, <1>1, <2>1, RestType DEF QPWrite
  <2>5. web' \in [Sessions -> WebStates(nextId)]
    BY <1>0, <1>1, RestType DEF QPWrite, IInv
  <2>6. qp' \in QPStates(nextId') /\ web' \in [Sessions -> WebStates(nextId')]
    BY <1>0, <2>3, <2>4, <2>5, StatesGrow
  <2> QED
    BY <1>1, <2>3, <2>6 DEF IInv, QPWrite
<1>2. CASE \E s \in Sessions : WebWrite(s)
  <2>0. PICK s \in Sessions : WebWrite(s)
    BY <1>2
  <2>1. web[s] \in WebStates(nextId) /\ web[s].writes # <<>> /\ Apply(Head(web[s].writes))
    BY <2>0 DEF WebWrite, IInv
  <2>2. Head(web[s].writes) \in Writable(nextId)
    BY <1>0, <2>1, JobFields
  <2>3. RowsOK' /\ nextId' \in Nat /\ nextId <= nextId'
    BY <1>0, <2>1, <2>2, ApplyType
  <2>4. qp' \in QPStates(nextId)
    BY <1>0, <2>0, RestType DEF WebWrite, IInv
  <2>5. web' \in [Sessions -> WebStates(nextId)]
    BY <1>0, <2>0, <2>1, RestType DEF WebWrite, IInv
  <2>6. qp' \in QPStates(nextId') /\ web' \in [Sessions -> WebStates(nextId')]
    BY <1>0, <2>3, <2>4, <2>5, StatesGrow
  <2> QED
    BY <2>0, <2>3, <2>6 DEF IInv, WebWrite
<1> QED
  BY <1>1, <1>2
-----------------------------------------------------------------------------
(***************************************************************************)
(* The queue processor.                                                    *)
(***************************************************************************)
LEMMA ResavedType ==
  ASSUME NEW n \in Nat, NEW h \in Holdings(n), NEW names
  PROVE  Resaved(h, names) \in Seq(Writable(n))
<1> DEFINE I == {k \in DOMAIN h : h[k].tracks \/ h[k].name \notin names}
           S == {SaveRow(i, h[i]) : i \in I}
<1>1. IsFiniteSet(S) /\ S \subseteq Writable(n)
  BY SavesType
<1>2. Resaved(h, names) = SetToSeq(S)
  BY DEF Resaved
<1> HIDE DEF S
<1> QED
  BY <1>1, <1>2, SetToSeqType

LEMMA FiledType ==
  ASSUME IInv, NEW run \in Runs, NEW V \in SUBSET (Names \X Texts), filed' = Put(filed, run, V)
  PROVE  DOMAIN filed' \subseteq Runs /\ \A r \in DOMAIN filed' : filed'[r] \subseteq Names \X Texts
BY DEF IInv, Put

LEMMA QPEdits ==
  ASSUME NEW n \in Nat, NEW q \in QPStates(n), NEW h \in Holdings(n),
         NEW w \in Seq(Writable(n)), NEW pc \in {"defaults", "latest", "save"},
         q.pc \in {"run", "defaults"} \/ (q.pc = "set" /\ pc = "save")
  PROVE  /\ [q EXCEPT !.held = h, !.pc = pc] \in QPStates(n)
         /\ [q EXCEPT !.pc = pc, !.held = h] \in QPStates(n)
         /\ [q EXCEPT !.pc = pc, !.writes = w] \in QPStates(n)
<1> DEFINE A == [pc : {"run", "defaults", "latest", "save"}, run : Runs, held : Holdings(n),
                 writes : Seq(Writable(n)), alone : BOOLEAN]
           B == [pc : {"set", "save"}, latest : Nat, run : Runs, held : Holdings(n),
                 writes : Seq(Writable(n)), alone : BOOLEAN]
<1>1. CASE q \in A
  <2>1. /\ [q EXCEPT !.held = h, !.pc = pc] \in A /\ [q EXCEPT !.pc = pc, !.held = h] \in A
        /\ [q EXCEPT !.pc = pc, !.writes = w] \in A
    BY <1>1
  <2> QED
    BY <2>1 DEF QPStates
<1>2. CASE q \in B
  <2>0. pc = "save"
    BY <1>2
  <2>1. /\ [q EXCEPT !.held = h, !.pc = pc] \in B /\ [q EXCEPT !.pc = pc, !.held = h] \in B
        /\ [q EXCEPT !.pc = pc, !.writes = w] \in B
    BY <1>2, <2>0
  <2> QED
    BY <2>1 DEF QPStates
<1> QED
  BY <1>1, <1>2 DEF QPStates, Idle

LEMMA QPReads ==
  ASSUME IInv, NEW run \in Runs, QPShowForExperiment(run) \/ QPShowForRun
  PROVE  qp' \in QPStates(nextId)
<1>0. /\ RowsOK /\ nextId \in Nat /\ \A e : Held(For(e)) \in Holdings(nextId)
      /\ \A n : Held(At(n)) \in Holdings(nextId)
      /\ <<>> \in Seq(Writable(nextId))
  BY LookedUp DEF IInv
<1>1. CASE QPShowForExperiment(run)
  <2>1. PICK h \in Holdings(nextId) : h = Held(For(Experiment[run]))
    BY <1>0
  <2>2. PICK pc \in {"run", "defaults", "save"} :
          qp' = [pc |-> pc, run |-> run, held |-> h, writes |-> <<>>, alone |-> TRUE]
    BY <1>1, <2>1 DEF QPShowForExperiment, GoQP
  <2> QED
    BY <1>0, <2>2 DEF QPStates
<1>2. CASE QPShowForRun
  <2>1. PICK h \in Holdings(nextId) : h = Held(At(qp.run))
    BY <1>0
  <2>2. PICK pc \in {"defaults", "save"} : qp' = [qp EXCEPT !.held = h, !.pc = pc]
    BY <1>2, <2>1 DEF QPShowForRun, GoQP
  <2>3. qp.pc = "run" /\ qp \in QPStates(nextId)
    BY <1>2 DEF QPShowForRun, AtQP, IInv
  <2> QED
    BY <1>0, <2>2, <2>3, QPEdits
<1> QED
  BY <1>1, <1>2

LEMMA QPChooses ==
  ASSUME IInv, QPDefaults \/ QPReadLatest \/ QPReadSet
  PROVE  qp' \in QPStates(nextId)
<1>0. /\ RowsOK /\ nextId \in Nat
      /\ \A n : Held(At(n)) \in Holdings(nextId)
      /\ <<>> \in Seq(Writable(nextId))
      /\ qp \in QPStates(nextId)
  BY LookedUp DEF IInv
<1>1. CASE QPDefaults
  <2>0. qp.pc = "defaults"
    BY <1>1 DEF QPDefaults, AtQP
  <2>1. qp.held \in Holdings(nextId)
    BY <1>0, <2>0, SMTT(30) DEF QPStates, Idle
  <2>2. PICK w \in Seq(Writable(nextId)), pc \in {"save", "latest"} :
          qp' = [qp EXCEPT !.pc = pc, !.writes = w]
    BY <1>0, <1>1, <2>1, ResavedType, DefaultsType, NewsType DEF QPDefaults, GoQP
  <2> QED
    BY <1>0, <2>0, <2>1, <2>2, QPEdits
<1>2. CASE QPReadLatest
  <2>0. qp.pc = "latest" /\ rows # <<>>
    BY <1>2 DEF QPReadLatest, AtQP
  <2>1. qp.run \in Runs /\ qp.held \in Holdings(nextId) /\ qp.alone \in BOOLEAN
    BY <1>0, <2>0 DEF QPStates, Idle
  <2>2. MaxOf(Starts) \in Nat
    <3>1. Starts \in SUBSET (0..MaxRun + 1)
      BY <1>0, StartsType, InvType
    <3>2. Starts # {}
      <4>1. DOMAIN rows # {}
        BY <1>0, <2>0 DEF RowsOK
      <4> QED
        BY <4>1 DEF Starts
    <3>3. MaxOf(Starts) \in 0..MaxRun + 1
      BY <3>1, <3>2, MaxOfGreatest
    <3> QED
      BY <3>3, RunsAssumption
  <2>3. PICK l \in Nat :
          qp' = [pc |-> "set", latest |-> l, run |-> qp.run, held |-> qp.held,
                 writes |-> <<>>, alone |-> qp.alone]
    BY <1>2, <2>2 DEF QPReadLatest, GoQP
  <2> QED
    BY <1>0, <2>1, <2>3 DEF QPStates
<1>3. CASE QPReadSet
  <2>0. qp.pc = "set"
    BY <1>3 DEF QPReadSet, AtQP
  <2>1. qp.held \in Holdings(nextId)
    BY <1>0, <2>0 DEF QPStates, Idle
  <2>2. PICK h \in Holdings(nextId) : h = Held(At(qp.latest))
    BY <1>0
  <2>3. \/ qp' = [qp EXCEPT !.pc = "save", !.held = h]
        \/ \E w \in Seq(Writable(nextId)) : qp' = [qp EXCEPT !.pc = "save", !.writes = w]
    BY <1>0, <1>3, <2>1, <2>2, ResavedType, ZenonT(30) DEF QPReadSet, GoQP
  <2>4. CASE qp' = [qp EXCEPT !.pc = "save", !.held = h]
    BY <1>0, <2>0, <2>4, QPEdits, ZenonT(30)
  <2>5. CASE \E w \in Seq(Writable(nextId)) : qp' = [qp EXCEPT !.pc = "save", !.writes = w]
    <3>1. PICK w \in Seq(Writable(nextId)) : qp' = [qp EXCEPT !.pc = "save", !.writes = w]
      BY <2>5
    <3> QED
      BY <1>0, <2>0, <2>1, <3>1, QPEdits
  <2> QED
    BY <2>3, <2>4, <2>5
<1> QED
  BY <1>1, <1>2, <1>3

LEMMA QPType ==
  ASSUME IInv, QPNext
  PROVE  IInv'
<1>0. qp \in QPStates(nextId) /\ nextId \in Nat
  BY DEF IInv, RowsOK
<1>1. CASE QPWrite
  BY <1>1, WritesType
<1>2. ASSUME UNCHANGED <<rows, nextId, script, web, requests, changes>>,
             qp' \in QPStates(nextId), filed' = filed
      PROVE  IInv'
  BY <1>2 DEF IInv, RowsOK
<1>3. CASE (\E run \in Runs : QPShowForExperiment(run)) \/ QPShowForRun
  <2>1. qp' \in QPStates(nextId)
    <3>1. CASE \E run \in Runs : QPShowForExperiment(run)
      BY <3>1, QPReads
    <3>2. CASE QPShowForRun
      <4>1. qp.pc = "run"
        BY <3>2 DEF QPShowForRun, AtQP
      <4>2. qp.run \in Runs
        BY <1>0, <4>1 DEF QPStates, Idle
      <4> QED
        BY <3>2, <4>2, QPReads
    <3> QED
      BY <1>3, <3>1, <3>2
  <2> QED
    BY <1>2, <1>3, <2>1 DEF QPShowForExperiment, QPShowForRun, GoQP
<1>4. CASE QPDefaults \/ QPReadLatest \/ QPReadSet
  <2>1. qp' \in QPStates(nextId)
    BY <1>4, QPChooses
  <2> QED
    BY <1>2, <1>4, <2>1 DEF QPDefaults, QPReadLatest, QPReadSet, GoQP
<1>5. CASE QPNoRows \/ QPSave
  <2>1. qp.pc \in {"latest", "save"} /\ qp' = Idle
    BY <1>5 DEF QPNoRows, QPSave, AtQP, GoQP
  <2>2. qp.run \in Runs /\ qp.held \in Holdings(nextId)
    BY <1>0, <2>1 DEF QPStates, Idle
  <2>3. Values(qp.held) \in SUBSET (Names \X Texts)
    BY <1>0, <2>2, ValuesType
  <2>4. \E V \in SUBSET (Names \X Texts) : filed' = Put(filed, qp.run, V)
    BY <1>5, <2>3 DEF QPNoRows, QPSave
  <2>5. DOMAIN filed' \subseteq Runs /\ \A r \in DOMAIN filed' : filed'[r] \subseteq Names \X Texts
    BY <2>2, <2>4, FiledType
  <2>6. UNCHANGED <<rows, nextId, script, web, requests, changes>>
    BY <1>5 DEF QPNoRows, QPSave, GoQP
  <2>7. qp' \in QPStates(nextId)
    BY <2>1 DEF QPStates
  <2> QED
    BY <2>5, <2>6, <2>7 DEF IInv, RowsOK
<1> QED
  BY <1>1, <1>3, <1>4, <1>5 DEF QPNext
-----------------------------------------------------------------------------
(***************************************************************************)
(* The web application: sets of rows that are going to be written.         *)
(***************************************************************************)
LEMMA CopiesType ==
  ASSUME NEW n \in Nat, NEW h \in Holdings(n)
  PROVE  Copies(h) \in NewRows
<1> DEFINE f == [i \in DOMAIN h |-> h[i]]
           C == Copies(h)
<1>1. IsFiniteSet(DOMAIN h) /\ \A i \in DOMAIN h : h[i] \in Row
  BY HoldingType
<1>2. f \in [DOMAIN h -> C] /\ \A t \in C : \E i \in DOMAIN h : t = f[i]
  BY DEF Copies
<1>3. IsFiniteSet(C)
  <2> HIDE DEF f, C
  <2> QED
    BY <1>1, <1>2, ImageFinite
<1> QED
  BY <1>1, <1>3 DEF Copies, NewRows

LEMMA ImageRows ==
  ASSUME NEW R \in NewRows, NEW f \in [R -> Row]
  PROVE  {f[r] : r \in R} \in NewRows
<1> DEFINE T == {f[r] : r \in R}
<1>1. f \in [R -> T] /\ \A t \in T : \E r \in R : t = f[r]
  OBVIOUS
<1>2. IsFiniteSet(T)
  <2> HIDE DEF T
  <2> QED
    BY <1>1, ImageFinite DEF NewRows
<1> QED
  BY <1>2 DEF NewRows

LEMMA RestartedType ==
  ASSUME NEW R \in NewRows, NEW n \in 0..MaxRun + 1
  PROVE  {[r EXCEPT !.start = n] : r \in R} \in NewRows
<1> DEFINE f == [r \in R |-> [r EXCEPT !.start = n]]
<1>1. f \in [R -> Row]
  BY DEF NewRows, Row
<1>2. {f[r] : r \in R} \in NewRows
  <2> HIDE DEF f
  <2> QED
    BY <1>1, ImageRows
<1> QED
  BY <1>2

LEMMA ForExperimentType ==
  ASSUME NEW R \in NewRows, NEW e \in Experiments
  PROVE  {[r EXCEPT !.experiment = e] : r \in R} \in NewRows
<1> DEFINE f == [r \in R |-> [r EXCEPT !.experiment = e]]
<1>1. f \in [R -> Row]
  BY DEF NewRows, Row
<1>2. {f[r] : r \in R} \in NewRows
  <2> HIDE DEF f
  <2> QED
    BY <1>1, ImageRows
<1> QED
  BY <1>2

LEMMA ModifiedType ==
  ASSUME NEW s \in Sessions, web[s].form \in EditForms \cup ReplaceForms, NEW R \in NewRows
  PROVE  Modified(s, R) \in NewRows
<1> DEFINE form == web[s].form
           value(r) == IF r.name = form.typed[1] /\ r.name \notin Hyphenated
                         THEN form.typed[2] ELSE r.value
           f == [r \in R |-> [r EXCEPT !.value = value(r), !.tracks = form.tracks]]
<1>1. form.typed[2] \in Texts /\ form.tracks \in BOOLEAN
  <2>1. form.typed \in Edited /\ form.tracks \in BOOLEAN
    BY DEF EditForms, ReplaceForms
  <2>2. PICK t \in Pairs : t = form.typed
    BY <2>1 DEF Pairs
  <2>3. t[2] \in Texts
    BY DEF Texts
  <2> HIDE DEF form
  <2> QED
    BY <2>1, <2>2, <2>3
<1>2. ASSUME NEW r \in R PROVE [r EXCEPT !.value = value(r), !.tracks = form.tracks] \in Row
  <2>1. r \in Row /\ value(r) \in Texts
    BY <1>1 DEF NewRows, Row
  <2> HIDE DEF value, form
  <2> QED
    BY <1>1, <2>1 DEF Row
<1>3. f \in [R -> Row]
  BY <1>2
<1>4. {f[r] : r \in R} \in NewRows
  <2> HIDE DEF f
  <2> QED
    BY <1>3, ImageRows
<1>5. Modified(s, R) = {f[r] : r \in R}
  BY DEF Modified
<1> QED
  BY <1>4, <1>5
-----------------------------------------------------------------------------
(***************************************************************************)
(* And what a session is doing.                                            *)
(***************************************************************************)
LEMMA ShowType ==
  ASSUME RowsOK, NEW I \in SUBSET DOMAIN rows, NEW P, NEW plan \in P, NEW N, NEW n \in N,
         NEW F, NEW form \in F
  PROVE  Show(plan, n, I, form) \in Shown(P, N, F, nextId)
<1>1. PICK h \in Holdings(nextId) : h = Held(I)
  BY HeldType
<1>2. PICK pc \in {"update", "shown"} : pc = IF Tracking(h) THEN "update" ELSE "shown"
  OBVIOUS
<1>3. Show(plan, n, I, form) =
        [pc |-> pc, plan |-> plan, n |-> n, form |-> form, held |-> h,
         writes |-> <<>>, alone |-> TRUE]
  BY <1>1, <1>2 DEF Show
<1>4. <<>> \in Seq(Writable(nextId))
  OBVIOUS
<1> QED
  BY <1>3, <1>4 DEF Shown

LEMMA OtherPcs ==
  ASSUME NEW n
  PROVE  Idle.pc = "idle" /\ \A j \in Finishing(n) \cup Setting(n) : j.pc = "finish"
BY DEF Idle, Finishing, Setting

LEMMA ShownFields ==
  ASSUME NEW n, NEW j \in WebStates(n), j.pc \in {"update", "shown"}
  PROVE  /\ j.held \in Holdings(n) /\ j.writes \in Seq(Writable(n)) /\ j.alone \in BOOLEAN
         /\ j.plan = "edit" => j.n \in RunNumbers /\ j.form \in EditForms
         /\ j.plan = "replace" => j.form \in ReplaceForms
         /\ j.plan = "save" => j.form \in NewRows
         /\ j.plan \in {"rerun", "rerun default"} => j.n \in Runs
         /\ j.plan \in {"view", "edit", "replace", "save", "rerun", "rerun default"}
<1>1. \A P, N, F : j \in Shown(P, N, F, n) =>
        /\ j.held \in Holdings(n) /\ j.writes \in Seq(Writable(n)) /\ j.alone \in BOOLEAN
        /\ j.plan \in P /\ j.n \in N /\ j.form \in F
  BY DEF Shown
<1>2. j # Idle /\ j \notin Finishing(n) \cup Setting(n)
  BY OtherPcs
<1>3. \/ j \in Shown({"view"}, 0..MaxRun + 1, {<<>>}, n)
      \/ j \in Shown({"rerun", "rerun default"}, Runs, {<<>>}, n)
      \/ j \in Shown({"edit"}, RunNumbers, EditForms, n)
      \/ j \in Shown({"replace"}, {0}, ReplaceForms, n)
      \/ j \in Shown({"save"}, {0}, NewRows, n)
  BY <1>2 DEF WebStates
<1>4. CASE j \in Shown({"view"}, 0..MaxRun + 1, {<<>>}, n)
  <2>1. j.held \in Holdings(n) /\ j.writes \in Seq(Writable(n)) /\ j.alone \in BOOLEAN /\ j.plan = "view"
    BY <1>1, <1>4
  <2> QED
    BY <2>1
<1>5. CASE j \in Shown({"rerun", "rerun default"}, Runs, {<<>>}, n)
  <2>1. /\ j.held \in Holdings(n) /\ j.writes \in Seq(Writable(n)) /\ j.alone \in BOOLEAN
        /\ j.plan \in {"rerun", "rerun default"} /\ j.n \in Runs
    BY <1>1, <1>5
  <2> QED
    BY <2>1
<1>6. CASE j \in Shown({"edit"}, RunNumbers, EditForms, n)
  <2>1. /\ j.held \in Holdings(n) /\ j.writes \in Seq(Writable(n)) /\ j.alone \in BOOLEAN
        /\ j.plan = "edit" /\ j.n \in RunNumbers /\ j.form \in EditForms
    BY <1>1, <1>6
  <2> QED
    BY <2>1
<1>7. CASE j \in Shown({"replace"}, {0}, ReplaceForms, n)
  <2>1. /\ j.held \in Holdings(n) /\ j.writes \in Seq(Writable(n)) /\ j.alone \in BOOLEAN
        /\ j.plan = "replace" /\ j.form \in ReplaceForms
    BY <1>1, <1>7
  <2> QED
    BY <2>1
<1>8. CASE j \in Shown({"save"}, {0}, NewRows, n)
  <2>1. /\ j.held \in Holdings(n) /\ j.writes \in Seq(Writable(n)) /\ j.alone \in BOOLEAN
        /\ j.plan = "save" /\ j.form \in NewRows
    BY <1>1, <1>8
  <2> QED
    BY <2>1
<1> QED
  BY <1>3, <1>4, <1>5, <1>6, <1>7, <1>8

LEMMA UpdatedType ==
  ASSUME NEW n, NEW j \in WebStates(n), j.pc = "update", NEW w \in Seq(Writable(n))
  PROVE  [j EXCEPT !.pc = "shown", !.writes = w] \in WebStates(n)
<1>1. \A P, N, F : j \in Shown(P, N, F, n) =>
        [j EXCEPT !.pc = "shown", !.writes = w] \in Shown(P, N, F, n)
  BY DEF Shown
<1>2. j # Idle /\ j \notin Finishing(n) \cup Setting(n)
  BY OtherPcs
<1> QED
  BY <1>1, <1>2 DEF WebStates

LEMMA WebMoves ==
  ASSUME IInv, NEW s \in Sessions, NEW j \in WebStates(nextId), GoWeb(s, j), Kept,
         requests' \in 0..MaxRequests
  PROVE  IInv'
BY DEF IInv, RowsOK, GoWeb, Kept

LEMMA SaveAllType ==
  ASSUME IInv, NEW s \in Sessions, NEW R \in NewRows, SaveAll(s, R),
         web[s].plan \in {"view", "save", "rerun default"}
  PROVE  \E j \in WebStates(nextId) : GoWeb(s, j)
<1>1. nextId \in Nat
  BY DEF IInv, RowsOK
<1>2. PICK w \in Seq(Writable(nextId)) : w = News(R)
  BY <1>1, NewsType
<1>3. Idle \in WebStates(nextId)
  BY DEF WebStates
<1>4. [pc |-> "finish", plan |-> web[s].plan, writes |-> w, alone |-> TRUE] \in WebStates(nextId)
  BY DEF WebStates, Finishing
<1> QED
  BY <1>2, <1>3, <1>4 DEF SaveAll

LEMMA FinalRows ==
  ASSUME NEW n, NEW to
  PROVE  Final(n, to) \in SUBSET DOMAIN rows
BY DEF Final, At

LEMMA AfterType ==
  ASSUME IInv, NEW n, NEW to \in 0..MaxRun
  PROVE  IsFiniteSet(After(n, to)) /\ After(n, to) \subseteq Writable(nextId)
<1>0. /\ nextId \in Nat /\ Beyond(to) \in 0..MaxRun + 1 /\ RowsOK
  BY RunsAssumption DEF IInv, RowsOK, Beyond
<1> DEFINE I == Final(n, to)
           S == {SaveRow(i, [rows[i] EXCEPT !.start = Beyond(to)]) : i \in I}
           h == [i \in I |-> [rows[i] EXCEPT !.start = Beyond(to)]]
           R == {[r EXCEPT !.start = Beyond(to)] : r \in Defaults}
           N == {NewRow(r) : r \in R}
           M == {NewRow([r EXCEPT !.start = Beyond(to)]) : r \in Defaults}
           g == [r \in R |-> NewRow(r)]
<1>1. IsFiniteSet(S) /\ S \subseteq Writable(nextId)
  <2>1. I \in SUBSET (1..nextId - 1) /\ \A i \in I : rows[i] \in Row
    BY <1>0, FinalRows DEF RowsOK
  <2>2. h \in [I -> Row]
    BY <1>0, <2>1 DEF Row
  <2>3. h \in Holdings(nextId) /\ DOMAIN h = I
    BY <2>1, <2>2 DEF Holdings
  <2>4. S = {SaveRow(i, h[i]) : i \in I}
    OBVIOUS
  <2> HIDE DEF I, S, h
  <2> QED
    BY <1>0, <2>3, <2>4, SavesType
<1>2. IsFiniteSet(N) /\ N \subseteq Writable(nextId)
  <2>1. R \in NewRows
    BY <1>0, DefaultsType, RestartedType
  <2>2. g \in [R -> N] /\ \A t \in N : \E r \in R : t = g[r]
    OBVIOUS
  <2>3. N \subseteq Writable(nextId)
    <3> HIDE DEF R
    <3> QED
      BY <2>1 DEF NewRows, NewRow, Writable, Write
  <2>4. IsFiniteSet(R)
    BY <2>1 DEF NewRows
  <2> HIDE DEF R, N, g
  <2> QED
    BY <2>2, <2>3, <2>4, ImageFinite
<1>3. N = M
  OBVIOUS
<1>4. After(n, to) \in {S, M, {}}
  BY DEF After
<1> HIDE DEF S, N, M
<1> QED
  BY <1>1, <1>2, <1>3, <1>4, FS_EmptySet

LEMMA SetType ==
  ASSUME IInv, NEW s \in Sessions, NEW plan \in {"edit", "delete"}, NEW n \in 0..MaxRun,
         NEW to \in 0..MaxRun, NEW new \in NewRows, Set(s, plan, n, to, new)
  PROVE  \E j \in WebStates(nextId) : GoWeb(s, j)
<1>0. nextId \in Nat /\ RowsOK /\ n \in 0..MaxRun + 1
  BY RunsAssumption DEF IInv, RowsOK
<1> DEFINE w == (IF to = 0 THEN <<>> ELSE News(KeptBefore(n, to)) \o SetToSeq(After(n, to)))
                \o News({[r EXCEPT !.start = n] : r \in new})
<1>1. KeptBefore(n, to) \in NewRows
  <2>1. {} \in NewRows
    BY FS_EmptySet DEF NewRows
  <2>2. Copies(Held(Final(n, to))) \in NewRows
    BY <1>0, FinalRows, HeldType, CopiesType
  <2> QED
    BY <2>1, <2>2 DEF KeptBefore
<1>2. News(KeptBefore(n, to)) \in Seq(Writable(nextId))
  BY <1>0, <1>1, NewsType
<1>3. SetToSeq(After(n, to)) \in Seq(Writable(nextId))
  BY AfterType, SetToSeqType
<1>4. News({[r EXCEPT !.start = n] : r \in new}) \in Seq(Writable(nextId))
  BY <1>0, RestartedType, NewsType
<1>5. w \in Seq(Writable(nextId))
  BY <1>2, <1>3, <1>4
<1> DEFINE was == [m \in RunNumbers |-> Values(Held(Governing(m)))]
<1>6. was \in [RunNumbers -> SUBSET (Names \X Texts)]
  BY <1>0, LookedUp, ValuesType
<1>7. GoWeb(s, IF w = <<>> THEN Idle
               ELSE [pc |-> "finish", plan |-> plan, n |-> n, to |-> to, writes |-> w,
                     alone |-> TRUE, was |-> was])
  BY DEF Set
<1> HIDE DEF w, was
<1>8. [pc |-> "finish", plan |-> plan, n |-> n, to |-> to, writes |-> w,
       alone |-> TRUE, was |-> was] \in WebStates(nextId)
  BY <1>5, <1>6 DEF WebStates, Setting
<1>9. Idle \in WebStates(nextId)
  BY DEF WebStates
<1> QED
  BY <1>7, <1>8, <1>9
-----------------------------------------------------------------------------
(***************************************************************************)
(* The requests, step by step.                                             *)
(***************************************************************************)
LEMMA WebAsks ==
  ASSUME IInv, NEW s \in Sessions, View(s) \/ Edit(s) \/ Delete(s) \/ Rerun(s)
  PROVE  IInv'
<1>0. /\ RowsOK /\ \A n : Governing(n) \in SUBSET DOMAIN rows
      /\ \A e : For(e) \in SUBSET DOMAIN rows /\ 0 \in 0..MaxRun + 1
  BY LookedUp, RunsAssumption DEF IInv
<1>1. requests' \in 0..MaxRequests /\ Kept
  BY BoundsAssumption DEF View, Edit, Delete, Rerun, IInv
<1>2. CASE View(s)
  <2>1. ASSUME NEW n \in 0..MaxRun + 1, NEW I \in SUBSET DOMAIN rows
        PROVE  Show("view", n, I, <<>>) \in WebStates(nextId)
    <3>1. Show("view", n, I, <<>>) \in Shown({"view"}, 0..MaxRun + 1, {<<>>}, nextId)
      BY <1>0, ShowType
    <3> QED
      BY <3>1 DEF WebStates
  <2>2. \E j \in WebStates(nextId) : GoWeb(s, j)
    BY <1>0, <1>2, <2>1 DEF View
  <2> QED
    BY <1>1, <2>2, WebMoves
<1>3. CASE Edit(s)
  <2>1. ASSUME NEW p \in Edited, NEW track \in BOOLEAN, NEW n \in RunNumbers,
               NEW to \in {0} \cup n..MaxRun
        PROVE  Show("edit", n, Governing(n), [to |-> to, typed |-> p, tracks |-> track])
                 \in WebStates(nextId)
    <3>1. [to |-> to, typed |-> p, tracks |-> track] \in EditForms
      BY RunsAssumption DEF EditForms, RunNumbers
    <3>2. Show("edit", n, Governing(n), [to |-> to, typed |-> p, tracks |-> track])
            \in Shown({"edit"}, RunNumbers, EditForms, nextId)
      BY <1>0, <3>1, ShowType
    <3> QED
      BY <3>2 DEF WebStates
  <2>2. ASSUME NEW p \in Edited, NEW track \in BOOLEAN, NEW e \in Experiments
        PROVE  Show("replace", 0, For(e), [e |-> e, typed |-> p, tracks |-> track])
                 \in WebStates(nextId)
    <3>1. [e |-> e, typed |-> p, tracks |-> track] \in ReplaceForms
      BY DEF ReplaceForms
    <3>2. Show("replace", 0, For(e), [e |-> e, typed |-> p, tracks |-> track])
            \in Shown({"replace"}, {0}, ReplaceForms, nextId)
      BY <1>0, <3>1, ShowType
    <3> QED
      BY <3>2 DEF WebStates
  <2>3. \E j \in WebStates(nextId) : GoWeb(s, j)
    BY <1>3, <2>1, <2>2 DEF Edit
  <2> QED
    BY <1>1, <2>3, WebMoves
<1>4. CASE Delete(s)
  <2>1. PICK n \in 0..MaxRun, to \in 0..MaxRun : Set(s, "delete", n, to, {})
    BY <1>4 DEF Delete
  <2>2. {} \in NewRows
    BY FS_EmptySet DEF NewRows
  <2>3. \E j \in WebStates(nextId) : GoWeb(s, j)
    BY <2>1, <2>2, SetType
  <2> QED
    BY <1>1, <2>3, WebMoves
<1>5. CASE Rerun(s)
  <2>1. PICK run \in Runs : GoWeb(s, Show("rerun", run, For(Experiment[run]), <<>>))
    BY <1>5 DEF Rerun
  <2>2. Show("rerun", run, For(Experiment[run]), <<>>)
          \in Shown({"rerun", "rerun default"}, Runs, {<<>>}, nextId)
    BY <1>0, ShowType
  <2>3. Show("rerun", run, For(Experiment[run]), <<>>) \in WebStates(nextId)
    BY <2>2 DEF WebStates
  <2> QED
    BY <1>1, <2>1, <2>3, WebMoves
<1> QED
  BY <1>2, <1>3, <1>4, <1>5

LEMMA WebUpdates ==
  ASSUME IInv, NEW s \in Sessions, Update(s)
  PROVE  IInv'
<1> DEFINE held == web[s].held
           Gone == {i \in DOMAIN held : held[i].name \notin ScriptNames}
           Tracks == {i \in DOMAIN held \ Gone : held[i].tracks}
           D == {DeleteRow(i, held[i]) : i \in Gone}
           R == {Refreshed(i, held[i]) : i \in Tracks}
           S == {SaveRow(i, held[i]) : i \in Tracks}
<1>0. web[s] \in WebStates(nextId) /\ web[s].pc = "update" /\ nextId \in Nat
  BY DEF Update, AtWeb, IInv, RowsOK
<1>1. held \in Holdings(nextId)
  BY <1>0, ShownFields
<1>2. IsFiniteSet(D) /\ D \subseteq Writable(nextId)
  <2>1. Gone \in SUBSET DOMAIN held
    OBVIOUS
  <2> HIDE DEF Gone, held
  <2> QED
    BY <1>0, <1>1, <2>1, SavesType
<1>3. IsFiniteSet(S) /\ S \subseteq Writable(nextId)
  <2>1. Tracks \in SUBSET DOMAIN held
    OBVIOUS
  <2> HIDE DEF Tracks, held
  <2> QED
    BY <1>0, <1>1, <2>1, SavesType
<1>4. R = S
  BY DEF Refreshed
<1>5. SetToSeq(D \cup R) \in Seq(Writable(nextId))
  <2> HIDE DEF D, R, S
  <2>1. IsFiniteSet(D \cup R) /\ D \cup R \subseteq Writable(nextId)
    BY <1>2, <1>3, <1>4, FS_Union
  <2> QED
    BY <2>1, SetToSeqType
<1>6. \E w \in Seq(Writable(nextId)) : GoWeb(s, [web[s] EXCEPT !.pc = "shown", !.writes = w])
  <2>1. GoWeb(s, [web[s] EXCEPT !.pc = "shown",
                  !.writes = IF Tracking(held) THEN SetToSeq(D \cup R) ELSE <<>>])
    BY DEF Update
  <2>2. <<>> \in Seq(Writable(nextId))
    OBVIOUS
  <2> HIDE DEF D, R, S, held
  <2>3. PICK w \in Seq(Writable(nextId)) : w = IF Tracking(held) THEN SetToSeq(D \cup R) ELSE <<>>
    BY <1>5, <2>2
  <2> QED
    BY <2>1, <2>3
<1>7. PICK w \in Seq(Writable(nextId)) : GoWeb(s, [web[s] EXCEPT !.pc = "shown", !.writes = w])
  BY <1>6
<1>8. [web[s] EXCEPT !.pc = "shown", !.writes = w] \in WebStates(nextId)
  BY <1>0, UpdatedType
<1>9. requests' \in 0..MaxRequests /\ Kept
  BY DEF Update, IInv
<1> QED
  BY <1>7, <1>8, <1>9, WebMoves

LEMMA WebActs ==
  ASSUME IInv, NEW s \in Sessions,
         \/ Viewed(s) \/ SetVariablesForRuns(s) \/ ModifyExperiment(s)
         \/ SetVariablesForExperiment(s) \/ CreateVariablesForRun(s)
  PROVE  IInv'
<1>0. /\ web[s] \in WebStates(nextId) /\ web[s].pc = "shown" /\ nextId \in Nat /\ RowsOK
      /\ web[s].held \in Holdings(nextId) /\ Copies(web[s].held) \in NewRows
      /\ Idle \in WebStates(nextId)
  <2>1. web[s] \in WebStates(nextId) /\ web[s].pc = "shown" /\ nextId \in Nat /\ RowsOK
    BY DEF Viewed, SetVariablesForRuns, ModifyExperiment, SetVariablesForExperiment,
      CreateVariablesForRun, Plan, AtWeb, IInv, RowsOK
  <2>2. web[s].held \in Holdings(nextId)
    BY <2>1, ShownFields
  <2> QED
    BY <2>1, <2>2, CopiesType DEF WebStates
<1>1. requests' \in 0..MaxRequests /\ Kept
  BY DEF Viewed, SetVariablesForRuns, ModifyExperiment, SetVariablesForExperiment,
    CreateVariablesForRun, IInv
<1>2. CASE Viewed(s)
  <2>1. \E j \in WebStates(nextId) : GoWeb(s, j)
    BY <1>0, <1>2, DefaultsType, SaveAllType DEF Viewed, Finish, Plan
  <2> QED
    BY <1>1, <2>1, WebMoves
<1>3. CASE SetVariablesForRuns(s)
  <2>1. web[s].n \in RunNumbers /\ web[s].form \in EditForms
    BY <1>0, <1>3, ShownFields DEF SetVariablesForRuns, Plan
  <2>2. web[s].n \in 0..MaxRun /\ web[s].form.to \in 0..MaxRun
    BY <2>1, RunsAssumption DEF RunNumbers, EditForms
  <2>3. Modified(s, Copies(web[s].held)) \in NewRows
    BY <1>0, <2>1, ModifiedType
  <2>4. \E j \in WebStates(nextId) : GoWeb(s, j)
    BY <1>3, <2>2, <2>3, SetType DEF SetVariablesForRuns
  <2> QED
    BY <1>1, <2>4, WebMoves
<1>4. CASE ModifyExperiment(s)
  <2> DEFINE R == IF web[s].held = <<>> THEN Defaults ELSE Copies(web[s].held)
             e == web[s].form.e
             M == {[r EXCEPT !.experiment = web[s].form.e] : r \in Modified(s, R)}
  <2>1. web[s].form \in ReplaceForms
    BY <1>0, <1>4, ShownFields DEF ModifyExperiment, Plan
  <2>2. R \in NewRows /\ e \in Experiments
    BY <1>0, <2>1, DefaultsType DEF ReplaceForms
  <2>3. Modified(s, R) \in NewRows
    <3> HIDE DEF R
    <3> QED
      BY <2>1, <2>2, ModifiedType
  <2>4. M \in NewRows
    <3> HIDE DEF R
    <3> QED
      BY <2>2, <2>3, ForExperimentType
  <2>5. GoWeb(s, Show("save", 0, For(e), M))
    BY <1>4 DEF ModifyExperiment
  <2>6. For(e) \in SUBSET DOMAIN rows
    BY <1>0, LookedUp
  <2> HIDE DEF M, e
  <2>7. Show("save", 0, For(e), M) \in Shown({"save"}, {0}, NewRows, nextId)
    BY <1>0, <2>4, <2>6, ShowType
  <2>8. Show("save", 0, For(e), M) \in WebStates(nextId)
    BY <2>7 DEF WebStates
  <2> QED
    BY <1>1, <2>5, <2>8, WebMoves
<1>5. CASE SetVariablesForExperiment(s)
  <2>1. web[s].plan = "save" /\ web[s].form \in NewRows
    BY <1>0, <1>5, ShownFields DEF SetVariablesForExperiment, Plan
  <2>2. \E j \in WebStates(nextId) : GoWeb(s, j)
    BY <1>5, <2>1, SaveAllType DEF SetVariablesForExperiment
  <2> QED
    BY <1>1, <2>2, WebMoves
<1>6. CASE CreateVariablesForRun(s)
  <2>1. web[s].plan \in {"rerun", "rerun default"}
    BY <1>6 DEF CreateVariablesForRun, Plan
  <2>2. web[s].n \in Runs /\ web[s].n \in 0..MaxRun + 1
    <3>1. web[s].n \in Runs
      BY <1>0, <2>1, ShownFields
    <3>2. Runs \subseteq 0..MaxRun + 1
      BY RunsAssumption DEF RunNumbers
    <3> QED
      BY <3>1, <3>2
  <2>3. {[r EXCEPT !.start = web[s].n] : r \in Defaults} \in NewRows
    BY <2>2, DefaultsType, RestartedType
  <2>4. Show("rerun default", web[s].n, Governing(web[s].n), <<>>) \in WebStates(nextId)
    <3>1. Governing(web[s].n) \in SUBSET DOMAIN rows
      BY <1>0, LookedUp
    <3>2. Show("rerun default", web[s].n, Governing(web[s].n), <<>>)
            \in Shown({"rerun", "rerun default"}, Runs, {<<>>}, nextId)
      BY <1>0, <2>2, <3>1, ShowType
    <3> QED
      BY <3>2 DEF WebStates
  <2>5. \E j \in WebStates(nextId) : GoWeb(s, j)
    <3>1. CASE Plan(s, "rerun default") /\ SaveAll(s, {[r EXCEPT !.start = web[s].n] : r \in Defaults})
      BY <2>3, <3>1, SaveAllType DEF Plan
    <3> QED
      BY <1>0, <1>6, <2>4, <3>1 DEF CreateVariablesForRun, Finish
  <2> QED
    BY <1>1, <2>5, WebMoves
<1> QED
  BY <1>2, <1>3, <1>4, <1>5, <1>6

LEMMA InitInv ==
  ASSUME Init
  PROVE  IInv
<1>1. rows \in Seq(Row) /\ nextId = Len(rows) + 1
  BY TablesAssumption DEF Init
<1>2. RowsOK
  BY <1>1 DEF RowsOK
<1>3. qp \in QPStates(nextId) /\ web \in [Sessions -> WebStates(nextId)]
  BY DEF Init, QPStates, WebStates
<1> QED
  BY <1>2, <1>3, BoundsAssumption DEF Init, IInv

LEMMA StepInv ==
  ASSUME IInv, [Next]_vars
  PROVE  IInv'
<1>1. CASE UNCHANGED vars
  BY <1>1 DEF vars, IInv, RowsOK
<1>2. CASE ChangeScript
  BY <1>2, BoundsAssumption DEF ChangeScript, IInv, RowsOK
<1>3. CASE QPNext
  BY <1>3, QPType
<1>4. ASSUME NEW s \in Sessions, WebNext(s) PROVE IInv'
  BY <1>4, WritesType, WebAsks, WebUpdates, WebActs DEF WebNext
<1> QED
  BY <1>1, <1>2, <1>3, <1>4 DEF Next
-----------------------------------------------------------------------------
THEOREM Invariance == Spec => []IInv
<1>1. Init => IInv
  BY InitInv
<1>2. IInv /\ [Next]_vars => IInv'
  BY StepInv
<1> QED
  BY <1>1, <1>2, PTL DEF Spec

(***************************************************************************)
(* The table, the variables of runs and the lists of pending writes keep   *)
(* their types; in particular no write saves a row under an identifier     *)
(* that was never given out, and a range that ends gives a start in range. *)
(***************************************************************************)
THEOREM TypeCorrect == Spec => []TypeOK
<1>1. IInv => TypeOK
  BY InvType
<1> QED
  BY <1>1, Invariance, PTL

(***************************************************************************)
(* Whatever the table holds, after any requests and interleavings: the     *)
(* ranges of instrument_summary and the look-up of show_variables_for_run  *)
(* agree on the set of every run from the last completed one on.           *)
(***************************************************************************)
THEOREM RangesAgree == Spec => []RangesMatch
<1>1. TypeOK => RangesMatch
  BY RangeOfGovernor DEF RangesMatch
<1> QED
  BY <1>1, TypeCorrect, PTL
-----------------------------------------------------------------------------
(***************************************************************************)
(* A page that is displayed saves rows as they are, deletes some, or adds  *)
(* defaults, which start from 0: the greatest start up to a run stays what *)
(* it was, as long as a row that starts there stays.                       *)
(***************************************************************************)
GoverningFacts ==
  \A n \in Nat \ {0} :
    /\ Before(n) # {} =>
         /\ Governor(n) \in Starts /\ Governor(n) <= n
         /\ \A s \in Starts : s <= n => s <= Governor(n)
         /\ Governing(n) = At(Governor(n))
    /\ Before(n) = {} => Governing(n) = {}

LEMMA GoverningAll == TypeOK => GoverningFacts /\ Starts \in SUBSET (0..MaxRun + 1)
BY GoverningSet, StartsType DEF GoverningFacts

LEMMA SetStays ==
  ASSUME TypeOK, TypeOK', NEW n \in RunNumbers,
         \A i \in DOMAIN rows \cap DOMAIN rows' : rows'[i].start = rows[i].start,
         \A i \in DOMAIN rows' \ DOMAIN rows : rows'[i].start = 0,
         Governing(n) \cap DOMAIN rows' # {}
  PROVE  Governing(n)' \cap DOMAIN rows = Governing(n) \cap DOMAIN rows'
<1>0. n \in Nat \ {0}
  BY RunsAssumption DEF RunNumbers
<1>1. TypeOK' => GoverningFacts' /\ (Starts \in SUBSET (0..MaxRun + 1))'
  BY GoverningAll, PTL
<1>2. GoverningFacts /\ GoverningFacts'
  BY <1>1, GoverningAll
<1>3. /\ \A s \in Starts : s \in Nat
      /\ \A s \in Starts' : s \in Nat
  BY <1>1, GoverningAll, RunsAssumption
<1> DEFINE g == Governor(n)
           h == Governor(n)'
<1>4. /\ Before(n) # {} /\ Governing(n) = At(g) /\ g \in Starts /\ g <= n
      /\ \A s \in Starts : s <= n => s <= g
  BY <1>0, <1>2 DEF GoverningFacts
<1>5. PICK x \in At(g) : x \in DOMAIN rows'
  BY <1>4
<1>6. g \in Starts'
  BY <1>5 DEF At, Starts
<1>7. Before(n)' # {}
  BY <1>4, <1>6 DEF Before
<1>8. /\ Governing(n)' = {i \in DOMAIN rows' : rows'[i].start = h} /\ h \in Starts' /\ h <= n
      /\ \A s \in Starts' : s <= n => s <= h
  BY <1>0, <1>2, <1>7 DEF GoverningFacts, At
<1>9. h = g
  <2>1. g <= h /\ g \in Nat /\ h \in Nat
    BY <1>3, <1>4, <1>6, <1>8
  <2>2. PICK i \in DOMAIN rows' : rows'[i].start = h
    BY <1>8 DEF Starts
  <2>3. CASE i \in DOMAIN rows
    <3>1. h \in Starts
      BY <2>2, <2>3 DEF Starts
    <3> QED
      BY <1>4, <1>8, <2>1, <3>1
  <2>4. CASE i \notin DOMAIN rows
    BY <2>1, <2>2, <2>4
  <2> QED
    BY <2>3, <2>4
<1>10. Governing(n) = {i \in DOMAIN rows : rows[i].start = g}
  BY <1>4 DEF At
<1> HIDE DEF g, h
<1> QED
  BY <1>8, <1>9, <1>10

(***************************************************************************)
(* What a page that is displayed is going to write, while nobody else has  *)
(* written: rows as they are in the table, each identifier once, and new   *)
(* rows that start from 0.                                                 *)
(***************************************************************************)
AsRead(j) == \A i \in DOMAIN j.held : i \in DOMAIN rows /\ rows[i] = j.held[i]

Harmless(w) ==
  /\ w.op = "new" => w.row.start = 0
  /\ w.op = "save" => w.id \in DOMAIN rows /\ rows[w.id] = w.row

Apart(writes) ==
  \A k, l \in DOMAIN writes :
    k # l /\ writes[k].op # "new" /\ writes[l].op # "new" => writes[k].id # writes[l].id

ViewWrites(j) ==
  j.pc # "idle" /\ j.plan = "view" /\ j.alone =>
    /\ j.pc = "update" => j.writes = <<>> /\ AsRead(j)
    /\ \A k \in DOMAIN j.writes : Harmless(j.writes[k])
    /\ Apart(j.writes)

ViewInv == \A s \in Sessions : ViewWrites(web[s])

LEMMA NothingWritten ==
  ASSUME NEW j, j.writes = <<>>, j.pc = "update" => AsRead(j)
  PROVE  ViewWrites(j)
BY DEF ViewWrites, Apart

LEMMA ShowAsRead ==
  ASSUME NEW plan, NEW n, NEW I \in SUBSET DOMAIN rows, NEW form
  PROVE  ViewWrites(Show(plan, n, I, form))
<1> DEFINE j == Show(plan, n, I, form)
<1>1. j.writes = <<>> /\ j.held = Held(I)
  BY DEF Show
<1>2. AsRead(j)
  BY <1>1 DEF AsRead, Held
<1> QED
  BY <1>1, <1>2, NothingWritten

LEMMA DisturbedViews ==
  ASSUME NEW j \in WebStates(nextId)
  PROVE  ViewWrites(Disturbed(j))'
<1>1. CASE j.pc = "idle"
  BY <1>1 DEF Disturbed, ViewWrites
<1>2. CASE j.pc # "idle"
  <2>1. j # Idle
    BY <1>2 DEF Idle
  <2>2. \A P, N, F : j \in Shown(P, N, F, nextId) => ~[j EXCEPT !.alone = FALSE].alone
    BY DEF Shown
  <2>3. j \in Finishing(nextId) \cup Setting(nextId) => ~[j EXCEPT !.alone = FALSE].alone
    BY DEF Finishing, Setting
  <2>4. ~[j EXCEPT !.alone = FALSE].alone
    BY <2>1, <2>2, <2>3 DEF WebStates
  <2> QED
    BY <1>2, <2>4 DEF Disturbed, ViewWrites
<1> QED
  BY <1>1, <1>2

LEMMA DefaultsHarmless ==
  ASSUME IInv, NEW plan
  PROVE  ViewWrites([pc |-> "finish", plan |-> plan, writes |-> News(Defaults), alone |-> TRUE])
<1> DEFINE S == {NewRow(r) : r \in Defaults}
           f == [r \in Defaults |-> NewRow(r)]
<1>1. f \in [Defaults -> S] /\ \A t \in S : \E r \in Defaults : t = f[r]
  OBVIOUS
<1>2. IsFiniteSet(S)
  <2> HIDE DEF f, S
  <2> QED
    BY <1>1, ImageFinite, DefaultsType DEF NewRows
<1>3. \A w \in S : w.op = "new" /\ w.row.start = 0
  BY DEF NewRow, Defaults
<1>4. News(Defaults) = SetToSeq(S)
  BY DEF News
<1> HIDE DEF S
<1>5. \A k \in DOMAIN News(Defaults) : News(Defaults)[k] \in S
  BY <1>2, <1>4, SetToSeqType
<1> QED
  BY <1>3, <1>5 DEF ViewWrites, Harmless, Apart

LEMMA UpdateHarmless ==
  ASSUME IInv, NEW s \in Sessions, Update(s), ViewWrites(web[s])
  PROVE  ViewWrites(web'[s])
<1> DEFINE held == web[s].held
           Gone == {i \in DOMAIN held : held[i].name \notin ScriptNames}
           Tracks == {i \in DOMAIN held \ Gone : held[i].tracks}
           D == {DeleteRow(i, held[i]) : i \in Gone}
           R == {Refreshed(i, held[i]) : i \in Tracks}
           W == D \cup R
           w == IF Tracking(held) THEN SetToSeq(W) ELSE <<>>
<1>0. web[s] \in WebStates(nextId) /\ web[s].pc = "update" /\ nextId \in Nat
  BY DEF Update, AtWeb, IInv, RowsOK
<1>1. held \in Holdings(nextId)
  BY <1>0, ShownFields
<1>2. IsFiniteSet(W)
  <2>1. Gone \in SUBSET DOMAIN held /\ Tracks \in SUBSET DOMAIN held
    OBVIOUS
  <2>2. IsFiniteSet(D)
    <3> HIDE DEF Gone, held
    <3> QED
      BY <1>0, <1>1, <2>1, SavesType
  <2>3. IsFiniteSet({SaveRow(i, held[i]) : i \in Tracks})
    <3> HIDE DEF Tracks, held
    <3> QED
      BY <1>0, <1>1, <2>1, SavesType
  <2>4. R = {SaveRow(i, held[i]) : i \in Tracks}
    BY DEF Refreshed
  <2> HIDE DEF D, R
  <2> QED
    BY <2>2, <2>3, <2>4, FS_Union
<1>3. \A a \in W : \E i \in DOMAIN held :
        \/ i \in Gone /\ a = DeleteRow(i, held[i])
        \/ i \in Tracks /\ a = SaveRow(i, held[i])
  BY DEF Refreshed
<1>4. \A a, b \in W : a.id = b.id => a = b
  BY <1>3 DEF DeleteRow, SaveRow
<1>5. AsRead(web[s]) => \A a \in W : Harmless(a)
  BY <1>3, SMTT(30) DEF AsRead, Harmless, DeleteRow, SaveRow
<1>6. /\ \A k \in DOMAIN SetToSeq(W) : SetToSeq(W)[k] \in W
      /\ \A k, l \in DOMAIN SetToSeq(W) : SetToSeq(W)[k] = SetToSeq(W)[l] => k = l
  BY <1>2, SetToSeqType
<1>7. web' = [web EXCEPT ![s] = [web[s] EXCEPT !.pc = "shown", !.writes = w]]
  BY DEF Update, GoWeb
<1> HIDE DEF W, w
<1>8. /\ \A k \in DOMAIN w : w[k] \in W
      /\ \A k, l \in DOMAIN w : w[k] = w[l] => k = l
  BY <1>6 DEF w
<1>9. web'[s] = [web[s] EXCEPT !.pc = "shown", !.writes = w]
  BY <1>7 DEF IInv
<1>10. web'[s].pc = "shown" /\ web'[s].writes = w
       /\ web'[s].plan = web[s].plan /\ web'[s].alone = web[s].alone
  <2>1. \A P, N, F : web[s] \in Shown(P, N, F, nextId) =>
          LET j == [web[s] EXCEPT !.pc = "shown", !.writes = w] IN
            j.pc = "shown" /\ j.writes = w /\ j.plan = web[s].plan /\ j.alone = web[s].alone
    BY DEF Shown
  <2>2. web[s] # Idle /\ web[s] \notin Finishing(nextId) \cup Setting(nextId)
    BY <1>0, OtherPcs
  <2> QED
    BY <1>0, <1>9, <2>1, <2>2 DEF WebStates
<1>11. web[s].plan = "view" /\ web[s].alone => AsRead(web[s])
  BY <1>0 DEF ViewWrites
<1> QED
  BY <1>4, <1>5, <1>8, <1>10, <1>11 DEF ViewWrites, Apart, Harmless

\* The first write of a page that nobody has disturbed leaves the rest of its writes harmless.
LEMMA RestHarmless ==
  ASSUME IInv, NEW s \in Sessions, WebWrite(s), ViewWrites(web[s])
  PROVE  ViewWrites(web[s])' /\ (web[s].plan = "view" /\ web[s].alone => Harmless(Head(web[s].writes)))
<1> DEFINE j == web[s]
           w == Head(j.writes)
<1>0. /\ j \in WebStates(nextId) /\ j.writes # <<>> /\ Idle.writes = <<>> /\ Idle.pc = "idle"
      /\ RowsOK /\ Apply(w)
  BY DEF WebWrite, IInv, Idle
<1>1. j.pc # "idle" /\ j.writes \in Seq(Writable(nextId))
  BY <1>0, JobFields
<1>2. PICK ws \in Seq(Writable(nextId)) : ws = j.writes
  BY <1>1
<1>3. /\ w = ws[1] /\ 1 \in DOMAIN ws /\ w \in Writable(nextId)
      /\ Tail(ws) \in Seq(Writable(nextId))
      /\ \A k \in DOMAIN Tail(ws) : k + 1 \in DOMAIN ws /\ k + 1 # 1 /\ Tail(ws)[k] = ws[k + 1]
      /\ \A k, l \in DOMAIN Tail(ws) : k # l => k + 1 # l + 1
  BY <1>0, <1>2
<1>4. web'[s] = Rest(j)
  BY DEF WebWrite, IInv
<1>5. CASE Rest(j) = Idle
  BY <1>0, <1>1, <1>2, <1>3, <1>4, <1>5 DEF ViewWrites
<1>6. CASE Rest(j) # Idle
  <2>1. web'[s] = [j EXCEPT !.writes = Tail(ws)]
    BY <1>2, <1>4, <1>6 DEF Rest
  <2>2. /\ web'[s].pc = j.pc /\ web'[s].plan = j.plan /\ web'[s].alone = j.alone
        /\ web'[s].writes = Tail(ws)
    <3>1. \A P, N, F : j \in Shown(P, N, F, nextId) =>
            LET i == [j EXCEPT !.writes = Tail(ws)] IN
              i.pc = j.pc /\ i.plan = j.plan /\ i.alone = j.alone /\ i.writes = Tail(ws)
      BY DEF Shown
    <3>2. j \in Finishing(nextId) \cup Setting(nextId) =>
            LET i == [j EXCEPT !.writes = Tail(ws)] IN
              i.pc = j.pc /\ i.plan = j.plan /\ i.alone = j.alone /\ i.writes = Tail(ws)
      BY DEF Finishing, Setting
    <3>3. j # Idle
      BY <1>0
    <3> HIDE DEF j
    <3> QED
      BY <1>0, <2>1, <3>1, <3>2, <3>3 DEF WebStates
  <2>3. SUFFICES ASSUME j.plan = "view", j.alone
                 PROVE  ViewWrites(web[s])' /\ Harmless(w)
    BY <2>2 DEF ViewWrites
  <2>4. /\ j.pc # "update" /\ \A k \in DOMAIN ws : Harmless(ws[k])
        /\ Apart(ws)
    BY <1>0, <1>1, <1>2, <2>3 DEF ViewWrites
  <2> HIDE DEF w, j
  <2>5. ASSUME NEW k \in DOMAIN Tail(ws) PROVE Harmless(Tail(ws)[k])'
    <3> DEFINE v == Tail(ws)[k]
    <3>1. v = ws[k + 1] /\ k + 1 \in DOMAIN ws /\ k + 1 # 1 /\ v \in Writable(nextId)
      BY <1>2, <1>3
    <3>2. Harmless(v)
      BY <2>4, <3>1
    <3>3. CASE v.op # "save"
      BY <3>2, <3>3 DEF Harmless
    <3>4. CASE v.op = "save"
      <4>1. v.id \in 1..nextId - 1 /\ v.id \in DOMAIN rows /\ rows[v.id] = v.row
        BY <3>1, <3>2, <3>4 DEF Writable, Harmless
      <4>2. w.op # "new" => w.id # v.id
        BY <1>3, <2>4, <3>1, <3>4 DEF Apart
      <4>3. v.id # nextId
        BY <1>0, <4>1 DEF RowsOK
      <4>4. w.op \in {"new", "save", "delete"}
        BY <1>3 DEF Writable, Write
      <4>5. v.id \in DOMAIN rows' /\ rows'[v.id] = rows[v.id]
        BY <1>0, <4>1, <4>2, <4>3, <4>4 DEF Apply, Put, Held
      <4> QED
        BY <3>4, <4>1, <4>5 DEF Harmless
    <3> QED
      BY <3>3, <3>4
  <2>6. Apart(Tail(ws))
    BY <1>3, <2>4 DEF Apart
  <2>7. Harmless(w)
    BY <1>3, <2>4
  <2>8. web'[s].pc # "update"
    BY <2>2, <2>4
  <2> QED
    BY <2>2, <2>5, <2>6, <2>7, <2>8 DEF ViewWrites
<1> QED
  BY <1>5, <1>6

LEMMA SessionViews ==
  ASSUME IInv, ViewInv, NEW s \in Sessions, WebNext(s)
  PROVE  ViewWrites(web[s])'
<1>0. /\ web \in [Sessions -> WebStates(nextId)] /\ RowsOK /\ Idle.pc = "idle"
      /\ \A n : Governing(n) \in SUBSET DOMAIN rows
      /\ \A e : For(e) \in SUBSET DOMAIN rows
  BY LookedUp DEF IInv, Idle
<1>1. ASSUME NEW j, GoWeb(s, j), Kept, ViewWrites(j)
      PROVE  ViewWrites(web[s])'
  <2>1. web'[s] = j /\ rows' = rows
    BY <1>0, <1>1 DEF GoWeb, Kept
  <2> QED
    BY <1>1, <2>1 DEF ViewWrites, AsRead, Harmless
<1>2. ViewWrites(Idle)
  BY <1>0 DEF ViewWrites
<1>3. ASSUME NEW R, web[s].plan # "view", SaveAll(s, R), Kept PROVE ViewWrites(web[s])'
  <2>1. PICK j : GoWeb(s, j) /\ ViewWrites(j)
    BY <1>2, <1>3 DEF SaveAll, ViewWrites
  <2> QED
    BY <1>1, <1>3, <2>1
<1>4. ASSUME NEW plan \in {"edit", "delete"}, NEW n, NEW to, NEW new, Set(s, plan, n, to, new), Kept
      PROVE  ViewWrites(web[s])'
  <2>1. PICK j : GoWeb(s, j) /\ (j = Idle \/ j.plan # "view")
    BY <1>4 DEF Set
  <2>2. ViewWrites(j)
    BY <1>2, <2>1 DEF ViewWrites
  <2> QED
    BY <1>1, <1>4, <2>1, <2>2
<1>5. CASE View(s) \/ Edit(s) \/ Rerun(s)
  <2>1. \A plan, n, form : \A I \in SUBSET DOMAIN rows : ViewWrites(Show(plan, n, I, form))
    BY ShowAsRead
  <2>2. \E j : GoWeb(s, j) /\ ViewWrites(j)
    BY <1>0, <1>5, <2>1 DEF View, Edit, Rerun
  <2> QED
    BY <1>1, <1>5, <2>2 DEF View, Edit, Rerun
<1>6. CASE Delete(s)
  <2>1. PICK n, to : Set(s, "delete", n, to, {})
    BY <1>6 DEF Delete
  <2> QED
    BY <1>4, <1>6, <2>1 DEF Delete
<1>7. CASE Update(s)
  <2>1. ViewWrites(web'[s])
    BY <1>7, UpdateHarmless DEF ViewInv
  <2> QED
    BY <1>7, <2>1 DEF Update, Kept, ViewWrites, AsRead, Harmless
<1>8. CASE WebWrite(s)
  BY <1>8, RestHarmless DEF ViewInv
<1>9. CASE Viewed(s)
  <2>1. CASE Finish(s)
    BY <1>1, <1>2, <1>9, <2>1 DEF Viewed, Finish
  <2>2. CASE SaveAll(s, Defaults)
    <3>1. ViewWrites([pc |-> "finish", plan |-> web[s].plan, writes |-> News(Defaults), alone |-> TRUE])
      BY DefaultsHarmless
    <3>2. \E j : GoWeb(s, j) /\ ViewWrites(j)
      BY <1>2, <2>2, <3>1 DEF SaveAll
    <3> QED
      BY <1>1, <1>9, <3>2 DEF Viewed
  <2> QED
    BY <1>9, <2>1, <2>2 DEF Viewed
<1>10. CASE SetVariablesForRuns(s)
  <2>1. PICK n, to, new : Set(s, "edit", n, to, new)
    BY <1>10 DEF SetVariablesForRuns
  <2> QED
    BY <1>4, <1>10, <2>1 DEF SetVariablesForRuns
<1>11. CASE ModifyExperiment(s)
  <2>1. PICK e, M : GoWeb(s, Show("save", 0, For(e), M))
    BY <1>11 DEF ModifyExperiment
  <2>2. ViewWrites(Show("save", 0, For(e), M))
    BY <1>0, ShowAsRead
  <2> QED
    BY <1>1, <1>11, <2>1, <2>2 DEF ModifyExperiment
<1>12. CASE SetVariablesForExperiment(s)
  BY <1>3, <1>12 DEF SetVariablesForExperiment, Plan
<1>13. CASE CreateVariablesForRun(s)
  <2>1. web[s].plan # "view" /\ Kept
    BY <1>13 DEF CreateVariablesForRun, Plan
  <2>2. ViewWrites(Show("rerun default", web[s].n, Governing(web[s].n), <<>>))
    BY <1>0, ShowAsRead
  <2>3. \/ \E R : SaveAll(s, R)
        \/ \E j : GoWeb(s, j) /\ ViewWrites(j)
    BY <1>2, <1>13, <2>2 DEF CreateVariablesForRun, Finish
  <2> QED
    BY <1>1, <1>3, <2>1, <2>3
<1> QED
  BY <1>5, <1>6, <1>7, <1>8, <1>9, <1>10, <1>11, <1>12, <1>13 DEF WebNext

LEMMA OtherViews ==
  ASSUME IInv, ViewInv, NEW s \in Sessions, Next,
         \A t \in Sessions : WebNext(t) => t # s
  PROVE  ViewWrites(web[s])'
<1>0. web[s] \in WebStates(nextId) /\ ViewWrites(web[s])
  BY DEF IInv, ViewInv
<1>1. CASE web'[s] = web[s] /\ rows' = rows
  BY <1>0, <1>1 DEF ViewWrites, AsRead, Harmless
<1>2. CASE web'[s] = Disturbed(web[s])
  <2>1. PICK j \in WebStates(nextId) : j = web[s]
    BY <1>0
  <2>2. PICK d : d = Disturbed(j) /\ ViewWrites(d)'
    BY DisturbedViews
  <2>3. web'[s] = d
    BY <1>2, <2>1, <2>2
  <2> HIDE <2>1
  <2> QED
    BY <2>2, <2>3 DEF ViewWrites
<1>3. CASE ChangeScript
  BY <1>1, <1>3 DEF ChangeScript
<1>4. CASE QPNext
  <2>1. CASE QPWrite
    BY <1>2, <2>1 DEF QPWrite
  <2>2. CASE ~QPWrite
    BY <1>1, <1>4, <2>2 DEF QPNext, QPShowForExperiment, QPShowForRun, QPDefaults, QPReadLatest,
      QPNoRows, QPReadSet, QPSave, GoQP
  <2> QED
    BY <2>1, <2>2
<1>5. ASSUME NEW t \in Sessions, WebNext(t) PROVE ViewWrites(web[s])'
  <2>1. t # s
    BY <1>5
  <2>2. CASE WebWrite(t)
    BY <1>2, <2>1, <2>2 DEF WebWrite
  <2>3. CASE ~WebWrite(t)
    <3>1. rows' = rows /\ \E j : GoWeb(t, j)
      BY <1>5, <2>3 DEF WebNext, View, Edit, Delete, Rerun, Update, Viewed, SetVariablesForRuns,
        ModifyExperiment, SetVariablesForExperiment, CreateVariablesForRun, Kept, SaveAll, Set, Finish
    <3>2. web'[s] = web[s]
      BY <2>1, <3>1 DEF GoWeb, IInv
    <3> QED
      BY <1>1, <3>1, <3>2, SMTT(30)
  <2> QED
    BY <2>2, <2>3
<1> QED
  BY <1>3, <1>4, <1>5 DEF Next

LEMMA StepViews ==
  ASSUME IInv, ViewInv, [Next]_vars
  PROVE  ViewInv'
<1>1. CASE UNCHANGED vars
  BY <1>1 DEF vars, ViewInv, ViewWrites, AsRead, Harmless
<1>2. CASE Next
  BY <1>2, SessionViews, OtherViews DEF ViewInv
<1> QED
  BY <1>1, <1>2

(***************************************************************************)
(* A page that is displayed while nobody else writes: no write of the page *)
(* moves or changes a row, and neither a deletion nor a default lets       *)
(* another set take the place of one that has rows left.  What the page    *)
(* may do is delete rows, all those of a set included.                     *)
(***************************************************************************)
THEOREM ViewsKeepSets == Spec => ViewKeepsValues
<1> DEFINE Keeps ==
      \A s \in Sessions : WebWrite(s) /\ web[s].plan = "view" /\ web[s].alone =>
        \A n \in RunNumbers :
          LET kept == Governing(n) \cap DOMAIN rows' IN
            kept # {} => /\ Governing(n)' \cap DOMAIN rows = kept
                         /\ \A i \in kept : rows'[i] = rows[i]
<1>1. Init => IInv /\ ViewInv
  BY InitInv DEF Init, ViewInv, ViewWrites, Idle
<1>2. IInv /\ ViewInv /\ [Next]_vars => (IInv /\ ViewInv)'
  BY StepInv, StepViews
<1>3. IInv /\ ViewInv /\ [Next]_vars => [Keeps]_vars
  <2> SUFFICES ASSUME IInv, ViewInv, Next PROVE Keeps
    OBVIOUS
  <2>0. IInv' => TypeOK'
    BY InvType, PTL
  <2>1. TypeOK /\ TypeOK' /\ RowsOK
    BY <2>0, InvType, StepInv DEF IInv
  <2> SUFFICES ASSUME NEW s \in Sessions, WebWrite(s), web[s].plan = "view", web[s].alone,
                      NEW n \in RunNumbers, Governing(n) \cap DOMAIN rows' # {}
               PROVE  /\ Governing(n)' \cap DOMAIN rows = Governing(n) \cap DOMAIN rows'
                      /\ \A i \in Governing(n) \cap DOMAIN rows' : rows'[i] = rows[i]
    OBVIOUS
  <2>2. PICK w : w = Head(web[s].writes) /\ Harmless(w) /\ Apply(w)
    BY RestHarmless DEF ViewInv, WebWrite
  <2>3. w.op \in {"new", "save", "delete"}
    <3>1. web[s] \in WebStates(nextId) /\ web[s].writes # <<>> /\ Idle.writes = <<>>
      BY DEF WebWrite, IInv, Idle
    <3>2. w \in Writable(nextId)
      BY <2>2, <3>1, JobFields
    <3> QED
      BY <3>2 DEF Writable, Write
  <2>4. /\ \A i \in DOMAIN rows \cap DOMAIN rows' : rows'[i] = rows[i]
        /\ \A i \in DOMAIN rows' \ DOMAIN rows : rows'[i].start = 0
    <3>1. CASE w.op = "new"
      BY <2>1, <2>2, <3>1, SMTT(30) DEF Apply, Put, Harmless, RowsOK
    <3>2. CASE w.op = "save"
      BY <2>2, <3>2 DEF Apply, Put, Harmless
    <3>3. CASE w.op = "delete"
      BY <2>2, <3>3 DEF Apply, Held
    <3> QED
      BY <2>3, <3>1, <3>2, <3>3, SMTT(30)
  <2>5. Governing(n)' \cap DOMAIN rows = Governing(n) \cap DOMAIN rows'
    BY <2>1, <2>4, SetStays
  <2>6. Governing(n) \subseteq DOMAIN rows
    BY DEF Governing, At
  <2> QED
    BY <2>4, <2>5, <2>6
<1> QED
  BY <1>1, <1>2, <1>3, PTL DEF Spec, ViewKeepsValues
-----------------------------------------------------------------------------
(***************************************************************************)
(* The values of a run in any set of rows: those that start where the      *)
(* greatest start up to the run is.                                        *)
(***************************************************************************)
Governed(R, n) == {r \in R : r.start <= n /\ \A q \in R : q.start <= n => q.start <= r.start}
ValuesFor(R, n) == {<<r.name, r.value>> : r \in Governed(R, n)}

LEMMA GovernedAt ==
  ASSUME NEW R, \A r \in R : r.start \in Nat, NEW n \in Nat, NEW r0 \in R, r0.start <= n,
         \A q \in R : q.start <= n => q.start <= r0.start
  PROVE  Governed(R, n) = {r \in R : r.start = r0.start}
BY DEF Governed

LEMMA SameUpTo ==
  ASSUME NEW R, NEW Q, NEW n, \A r \in R \cup Q : r.start <= n => r \in R \cap Q
  PROVE  ValuesFor(R, n) = ValuesFor(Q, n)
<1>1. Governed(R, n) = Governed(Q, n)
  BY DEF Governed
<1> QED
  BY <1>1 DEF ValuesFor

LEMMA ValuesRead ==
  ASSUME TypeOK, NEW n \in RunNumbers
  PROVE  Values(Held(Governing(n))) = ValuesFor(Copies(rows), n)
<1> DEFINE R == Copies(rows)
           I == Governing(n)
<1>0. n \in Nat /\ n # 0
  BY RunsAssumption DEF RunNumbers
<1>1. /\ \A r \in R : \E i \in DOMAIN rows : r = rows[i]
      /\ \A i \in DOMAIN rows : rows[i] \in R
      /\ \A s \in Starts : \E i \in DOMAIN rows : s = rows[i].start
      /\ \A i \in DOMAIN rows : rows[i].start \in Starts
  BY DEF Copies, Starts
<1>2. \A s \in Starts : s \in Nat
  BY StartsType, RunsAssumption
<1>3. Values(Held(I)) = {<<rows[i].name, rows[i].value>> : i \in I}
  BY DEF Values, Held
<1>4. CASE Before(n) = {}
  <2>1. I = {} /\ \A s \in Starts : ~(s <= n)
    BY <1>0, <1>4, GoverningSet DEF Before
  <2>2. Governed(R, n) = {}
    BY <1>1, <2>1 DEF Governed
  <2> QED
    BY <1>3, <2>1, <2>2 DEF ValuesFor
<1>5. CASE Before(n) # {}
  <2> DEFINE g == Governor(n)
  <2>1. g \in Starts /\ g <= n /\ (\A s \in Starts : s <= n => s <= g) /\ I = At(g)
    BY <1>0, <1>5, GoverningSet
  <2> HIDE DEF g, I
  <2>2. PICK i0 \in DOMAIN rows : rows[i0].start = g
    BY <1>1, <2>1
  <2>3. Governed(R, n) = {r \in R : r.start = g}
    <3>1. rows[i0] \in R /\ \A r \in R : r.start \in Starts
      BY <1>1
    <3> HIDE DEF R
    <3> QED
      BY <1>0, <1>2, <2>1, <2>2, <3>1, GovernedAt
  <2>4. I = {i \in DOMAIN rows : rows[i].start = g}
    BY <2>1 DEF At
  <2>5. \A p : p \in ValuesFor(R, n) <=> \E r \in R : r.start = g /\ p = <<r.name, r.value>>
    BY <2>3 DEF ValuesFor
  <2>6. \A p : p \in Values(Held(I)) <=>
          \E i \in DOMAIN rows : rows[i].start = g /\ p = <<rows[i].name, rows[i].value>>
    BY <1>3, <2>4
  <2>7. \A p : p \in ValuesFor(R, n) <=> p \in Values(Held(I))
    BY <1>1, <2>5, <2>6
  <2> QED
    BY <2>7 DEF I
<1> QED
  BY <1>4, <1>5

\* The set that is to go on after a range is the one that governs its last run.
LEMMA FinalSet ==
  ASSUME TypeOK, NEW n \in 0..MaxRun, NEW to \in 0..MaxRun, n <= to
  PROVE  \/ Beyond(to) \in Starts /\ Final(n, to) = {}
         \/ Beyond(to) \notin Starts /\ Final(n, to) = {} /\ \A s \in Starts : s > to
         \/ /\ Beyond(to) \notin Starts
            /\ \E a \in Starts : /\ a <= to /\ \A s \in Starts : s <= to => s <= a
                                 /\ Final(n, to) = At(a)
                                 /\ Applicable(n, to) = {} => a < n
                                 /\ Applicable(n, to) # {} => n <= a
<1> DEFINE T == Applicable(n, to)
           P == {k \in Starts : k < n}
<1>0. /\ Starts \in SUBSET (0..MaxRun + 1) /\ \A s \in Starts : s \in Nat
      /\ n \in Nat /\ to \in Nat
  BY StartsType, RunsAssumption
<1>1. T \in SUBSET (0..MaxRun + 1) /\ P \in SUBSET (0..MaxRun + 1)
  BY <1>0 DEF Applicable
<1>2. Final(n, to) = IF Beyond(to) \in Starts THEN {}
                     ELSE IF T # {} THEN At(MaxOf(T))
                     ELSE IF P # {} THEN At(MaxOf(P)) ELSE {}
  BY DEF Final
<1>3. \A s : s \in T <=> s \in Starts /\ n <= s /\ s <= to
  BY DEF Applicable
<1>4. \A s : s \in P <=> s \in Starts /\ s < n
  OBVIOUS
<1> HIDE DEF T, P
<1>5. CASE Beyond(to) \notin Starts /\ T # {}
  <2>1. MaxOf(T) \in T /\ \A s \in T : s <= MaxOf(T)
    BY <1>1, <1>5, MaxOfGreatest
  <2>2. PICK a : a = MaxOf(T)
    OBVIOUS
  <2>3. a \in Starts /\ a <= to /\ n <= a
    BY <1>3, <2>1, <2>2
  <2>4. ASSUME NEW s \in Starts, s <= to PROVE s <= a
    <3>1. CASE n <= s
      BY <1>3, <2>1, <2>2, <2>4, <3>1
    <3>2. CASE ~(n <= s)
      BY <1>0, <2>3, <3>2
    <3> QED
      BY <3>1, <3>2
  <2> QED
    BY <1>2, <1>5, <2>2, <2>3, <2>4 DEF T
<1>6. CASE Beyond(to) \notin Starts /\ T = {} /\ P # {}
  <2>1. MaxOf(P) \in P /\ \A s \in P : s <= MaxOf(P)
    BY <1>1, <1>6, MaxOfGreatest
  <2>2. PICK a : a = MaxOf(P)
    OBVIOUS
  <2>3. a \in Starts /\ a < n
    BY <1>4, <2>1, <2>2
  <2>4. ASSUME NEW s \in Starts, s <= to PROVE s <= a
    BY <1>0, <1>3, <1>4, <1>6, <2>1, <2>2, <2>4
  <2> QED
    BY <1>0, <1>2, <1>6, <2>2, <2>3, <2>4 DEF T
<1>7. CASE Beyond(to) \notin Starts /\ T = {} /\ P = {}
  BY <1>0, <1>2, <1>3, <1>4, <1>7
<1> QED
  BY <1>2, <1>5, <1>6, <1>7

(***************************************************************************)
(* Once everything is written, runs outside the range have the values they *)
(* had: those before it, because what starts up to them is as it was; those*)
(* after it, because what governs the last run of the range starts again   *)
(* there, unless a set did already.                                        *)
(***************************************************************************)
Moved(n, to) == {w.row : w \in After(n, to)}
TableAfter(n, to, N) ==
  {rows[i] : i \in DOMAIN rows \ Final(n, to)} \cup KeptBefore(n, to) \cup Moved(n, to) \cup N

LEMMA MovedRows ==
  ASSUME TypeOK, NEW n, NEW to
  PROVE  /\ \A r \in Moved(n, to) : r.start = Beyond(to) /\ Beyond(to) \notin Starts
         /\ Final(n, to) # {} =>
              Moved(n, to) = {[rows[i] EXCEPT !.start = Beyond(to)] : i \in Final(n, to)}
         /\ KeptBefore(n, to) \subseteq Copies(rows)
         /\ Applicable(n, to) = {} => KeptBefore(n, to) = {rows[i] : i \in Final(n, to)}
<1>0. Final(n, to) \subseteq DOMAIN rows /\ \A i \in DOMAIN rows : rows[i] \in Row
  BY FinalRows DEF TypeOK
<1>1. Final(n, to) # {} => Beyond(to) \notin Starts
  BY DEF Final
<1>2. CASE Final(n, to) # {}
  <2>1. Moved(n, to) = {[rows[i] EXCEPT !.start = Beyond(to)] : i \in Final(n, to)}
    <3> DEFINE moved(i) == [rows[i] EXCEPT !.start = Beyond(to)]
    <3>1. After(n, to) = {SaveRow(i, moved(i)) : i \in Final(n, to)}
      BY <1>2 DEF After
    <3> HIDE DEF moved
    <3>2. \A w : w \in After(n, to) <=> \E i \in Final(n, to) : w = SaveRow(i, moved(i))
      BY <3>1
    <3>3. \A r : r \in Moved(n, to) <=> \E w \in After(n, to) : r = w.row
      BY DEF Moved
    <3>4. \A i, r : SaveRow(i, r).row = r
      BY DEF SaveRow
    <3>5. \A r : r \in Moved(n, to) <=> \E i \in Final(n, to) : r = moved(i)
      BY <3>2, <3>3, <3>4
    <3> QED
      BY <3>5 DEF moved
  <2>2. \A i \in Final(n, to) : [rows[i] EXCEPT !.start = Beyond(to)].start = Beyond(to)
    BY <1>0 DEF Row
  <2>3. \A r \in Moved(n, to) : r.start = Beyond(to)
    BY <2>1, <2>2
  <2> QED
    BY <1>0, <1>1, <1>2, <2>1, <2>3 DEF KeptBefore, Copies, Held
<1>3. CASE Final(n, to) = {}
  <2>1. \A r \in Moved(n, to) : r.start = Beyond(to) /\ Beyond(to) \notin Starts
    BY <1>3 DEF Moved, After, NewRow, Defaults
  <2> QED
    BY <1>0, <1>3, <2>1 DEF KeptBefore, Copies, Held
<1> QED
  BY <1>2, <1>3

LEMMA KeptUpTo ==
  ASSUME TypeOK, NEW n \in 0..MaxRun, NEW to \in 0..MaxRun, n <= to,
         NEW m \in RunNumbers, m < n, NEW N, \A r \in N : r.start = n
  PROVE  ValuesFor(TableAfter(n, to, N), m) = ValuesFor(Copies(rows), m)
<1> DEFINE R == Copies(rows)
           E == TableAfter(n, to, N)
<1>0. n \in Nat /\ to \in Nat /\ m \in Nat /\ Beyond(to) = to + 1
  BY RunsAssumption DEF RunNumbers, Beyond
<1>1. /\ \A r : r \in R <=> \E i \in DOMAIN rows : r = rows[i]
      /\ \A r : r \in E <=> \/ \E i \in DOMAIN rows \ Final(n, to) : r = rows[i]
                            \/ r \in KeptBefore(n, to) \/ r \in Moved(n, to) \/ r \in N
  BY DEF Copies, TableAfter
<1>2. \A r \in E : r.start <= m => r \in R
  <2>1. \A r \in Moved(n, to) : ~(r.start <= m)
    BY <1>0, MovedRows
  <2>2. \A r \in N : ~(r.start <= m)
    BY <1>0
  <2>3. KeptBefore(n, to) \subseteq R
    BY MovedRows
  <2> QED
    BY <1>1, <2>1, <2>2, <2>3
<1>3. ASSUME NEW i \in DOMAIN rows, rows[i].start <= m PROVE rows[i] \in E
  <2>1. CASE i \notin Final(n, to)
    BY <1>1, <2>1
  <2>2. CASE i \in Final(n, to)
    <3>1. PICK a \in Starts : /\ Final(n, to) = At(a)
                              /\ Applicable(n, to) # {} => n <= a
      BY <2>2, FinalSet
    <3>2. rows[i].start = a /\ a \in Nat
      BY <2>2, <3>1, StartsType, RunsAssumption DEF At
    <3>3. Applicable(n, to) = {}
      BY <1>0, <1>3, <3>1, <3>2
    <3>4. rows[i] \in KeptBefore(n, to)
      BY <2>2, <3>3, MovedRows
    <3> QED
      BY <1>1, <3>4
  <2> QED
    BY <2>1, <2>2
<1>4. \A r \in E \cup R : r.start <= m => r \in E \cap R
  BY <1>1, <1>2, <1>3
<1> HIDE DEF E, R
<1>5. ValuesFor(E, m) = ValuesFor(R, m)
  BY <1>4, SameUpTo
<1> QED
  BY <1>5 DEF E, R

LEMMA KeptAfter ==
  ASSUME TypeOK, NEW n \in 0..MaxRun, NEW to \in 0..MaxRun, n <= to,
         NEW m \in RunNumbers, m > to, NEW N, \A r \in N : r.start = n,
         ValuesFor(Copies(rows), m) # {}
  PROVE  ValuesFor(TableAfter(n, to, N), m) = ValuesFor(Copies(rows), m)
<1> DEFINE R == Copies(rows)
           E == TableAfter(n, to, N)
           B == Beyond(to)
<1>0. n \in Nat /\ to \in Nat /\ m \in Nat /\ B = to + 1 /\ B <= m /\ n < B
  BY RunsAssumption DEF RunNumbers, Beyond
<1>1. /\ \A r : r \in R <=> \E i \in DOMAIN rows : r = rows[i]
      /\ \A r : r \in E <=> \/ \E i \in DOMAIN rows \ Final(n, to) : r = rows[i]
                            \/ r \in KeptBefore(n, to) \/ r \in Moved(n, to) \/ r \in N
  BY DEF Copies, TableAfter
<1>2. /\ \A r \in R : r.start \in Starts /\ r.start \in Nat
      /\ \A r \in Moved(n, to) : r.start = B /\ B \notin Starts
      /\ KeptBefore(n, to) \subseteq R
      /\ \A s \in Starts : s \in Nat /\ \E i \in DOMAIN rows : rows[i].start = s
  BY <1>1, MovedRows, StartsType, RunsAssumption DEF Starts
<1>3. \A r \in E : r \in R \/ (r.start = B /\ r \in Moved(n, to)) \/ r.start = n
  BY <1>1, <1>2
<1>4. \A r \in E : r.start \in Nat
  BY <1>0, <1>2, <1>3
<1>5. PICK r0 \in R : r0.start <= m /\ \A q \in R : q.start <= m => q.start <= r0.start
  BY DEF ValuesFor, Governed
<1> DEFINE g == r0.start
<1>6. g \in Starts /\ g \in Nat /\ \A s \in Starts : s <= m => s <= g
  BY <1>1, <1>2, <1>5
<1> HIDE DEF R, E, B, g
<1>7. Governed(R, m) = {r \in R : r.start = g}
  BY <1>0, <1>2, <1>5, GovernedAt DEF g
<1>8. CASE B <= g
  <2>1. \A i \in Final(n, to) : rows[i].start # g
    BY <1>0, <1>6, <1>8, FinalSet DEF At
  <2>2. \A r \in R : r.start = g => r \in E
    BY <1>1, <2>1
  <2>3. \A r \in E : r.start = g => r \in R
    BY <1>0, <1>2, <1>3, <1>6, <1>8
  <2>4. r0 \in E /\ \A q \in E : q.start <= m => q.start <= g
    <3>1. ASSUME NEW q \in E, q.start <= m PROVE q.start <= g
      <4>1. CASE q \in R
        BY <1>5, <3>1, <4>1 DEF g
      <4>2. CASE q.start = B \/ q.start = n
        BY <1>0, <1>6, <1>8, <4>2
      <4> QED
        BY <1>3, <4>1, <4>2
    <3> QED
      BY <1>5, <2>2, <3>1 DEF g
  <2>5. Governed(E, m) = {r \in E : r.start = g}
    BY <1>0, <1>4, <1>5, <2>4, GovernedAt DEF g
  <2>6. Governed(E, m) = Governed(R, m)
    BY <1>7, <2>2, <2>3, <2>5
  <2> QED
    BY <2>6 DEF ValuesFor, R, E
<1>9. CASE ~(B <= g)
  <2>1. B \notin Starts /\ g <= to
    BY <1>0, <1>6, <1>9
  <2>2. PICK a \in Starts : /\ a <= to /\ (\A s \in Starts : s <= to => s <= a)
                            /\ Final(n, to) = At(a)
    BY <1>6, <2>1, FinalSet DEF B
  <2>3. a = g
    BY <1>0, <1>2, <1>6, <2>1, <2>2
  <2>4. Final(n, to) = {i \in DOMAIN rows : rows[i].start = g} /\ Final(n, to) # {}
    BY <1>2, <2>2, <2>3 DEF At
  <2>5. Moved(n, to) = {[rows[i] EXCEPT !.start = B] : i \in Final(n, to)}
    BY <2>4, MovedRows DEF B
  <2>6. PICK i0 \in Final(n, to) : TRUE
    BY <2>4
  <2>7. PICK e0 : e0 = [rows[i0] EXCEPT !.start = B]
    OBVIOUS
  <2>8. e0 \in Moved(n, to) /\ e0 \in E /\ e0.start = B
    BY <1>1, <1>2, <2>5, <2>6, <2>7
  <2>9. ASSUME NEW q \in E, q.start <= m PROVE q.start <= B
    <3>1. CASE q \in R
      BY <1>0, <1>2, <1>6, <1>9, <2>9, <3>1
    <3>2. CASE q.start = B \/ q.start = n
      BY <1>0, <3>2
    <3> QED
      BY <1>3, <3>1, <3>2
  <2>10. Governed(E, m) = {r \in E : r.start = B}
    BY <1>0, <1>4, <2>8, <2>9, GovernedAt
  <2>11. \A r : r \in Governed(E, m) <=> \E i \in Final(n, to) : r = [rows[i] EXCEPT !.start = B]
    BY <1>0, <1>1, <1>2, <1>3, <2>1, <2>5, <2>10
  <2>12. \A r : r \in Governed(R, m) <=> \E i \in Final(n, to) : r = rows[i]
    BY <1>1, <1>7, <2>4
  <2>13. ASSUME NEW i \in Final(n, to)
         PROVE  [rows[i] EXCEPT !.start = B].name = rows[i].name
                /\ [rows[i] EXCEPT !.start = B].value = rows[i].value
    <3>1. rows[i] \in Row
      BY <2>4 DEF TypeOK
    <3> QED
      BY <3>1 DEF Row
  <2>14. \A p : p \in ValuesFor(E, m) <=> \E i \in Final(n, to) : p = <<rows[i].name, rows[i].value>>
    <3>1. \A p : p \in ValuesFor(E, m) <=> \E r \in Governed(E, m) : p = <<r.name, r.value>>
      BY DEF ValuesFor
    <3>2. ASSUME NEW p, NEW i \in Final(n, to), p = <<rows[i].name, rows[i].value>>
          PROVE  p \in ValuesFor(E, m)
      <4>1. PICK r : r = [rows[i] EXCEPT !.start = B]
        OBVIOUS
      <4> QED
        BY <2>11, <2>13, <3>1, <3>2, <4>1
    <3>3. ASSUME NEW p \in ValuesFor(E, m)
          PROVE  \E i \in Final(n, to) : p = <<rows[i].name, rows[i].value>>
      <4>1. PICK r \in Governed(E, m) : p = <<r.name, r.value>>
        BY <3>1
      <4>2. PICK i \in Final(n, to) : r = [rows[i] EXCEPT !.start = B]
        BY <2>11
      <4> QED
        BY <2>13, <4>1, <4>2
    <3> QED
      BY <3>2, <3>3
  <2>15. \A p : p \in ValuesFor(R, m) <=> \E i \in Final(n, to) : p = <<rows[i].name, rows[i].value>>
    BY <2>12 DEF ValuesFor
  <2>16. ValuesFor(E, m) = ValuesFor(R, m)
    BY <2>14, <2>15
  <2> QED
    BY <2>16 DEF R, E
<1> QED
  BY <1>8, <1>9

LEMMA KeptFrom ==
  ASSUME NEW n \in Nat, NEW m \in Nat, m < n, NEW N, \A r \in N : r.start = n
  PROVE  ValuesFor(Copies(rows) \cup N, m) = ValuesFor(Copies(rows), m)
<1>1. \A r \in N : ~(r.start <= m)
  OBVIOUS
<1>2. \A r \in (Copies(rows) \cup N) \cup Copies(rows) :
        r.start <= m => r \in (Copies(rows) \cup N) \cap Copies(rows)
  BY <1>1
<1> QED
  BY <1>2, SameUpTo
-----------------------------------------------------------------------------
(***************************************************************************)
(* What a list of new rows and saves leaves in a table, in any order.      *)
(***************************************************************************)
Saved(W) == {w.id : w \in {v \in W : v.op = "save"}}
Afterwards(table, W) == {table[i] : i \in DOMAIN table \ Saved(W)} \cup {w.row : w \in W}
AllNew(writes) == \A k \in DOMAIN writes : writes[k].op = "new"

LEMMA SetToSeqAll ==
  ASSUME NEW S, IsFiniteSet(S)
  PROVE  ToSet(SetToSeq(S)) = S
<1>1. PICK n \in Nat : ExistsBijection(1..n, S)
  BY FS_NatBijection
<1>2. n = Cardinality(S)
  BY <1>1, FS_CountingElements
<1>3. PICK f : f \in Bijection(1..n, S)
  BY <1>1 DEF ExistsBijection
<1>4. f \in [1..Cardinality(S) -> S] /\ IsInjective(f)
  BY <1>2, <1>3 DEF Bijection, Injection, IsInjective
<1>5. SetToSeq(S) \in [1..n -> S] /\ IsInjective(SetToSeq(S))
  BY <1>2, <1>4 DEF SetToSeq
<1>6. SetToSeq(S) \in Injection(1..n, S)
  BY <1>5 DEF Injection, IsInjective
<1>7. IsFiniteSet(1..n) /\ Cardinality(1..n) = n
  BY FS_Interval
<1>8. SetToSeq(S) \in Surjection(1..n, S)
  BY <1>2, <1>6, <1>7, FS_Injection
<1> QED
  BY <1>5, <1>8 DEF Surjection, ToSet

LEMMA JoinedWrites ==
  ASSUME NEW S, NEW a \in Seq(S), NEW b \in Seq(S)
  PROVE  /\ a \o b \in Seq(S) /\ ToSet(a \o b) = ToSet(a) \cup ToSet(b)
         /\ AllNew(a) /\ AllNew(b) => AllNew(a \o b)
         /\ Apart(a) /\ Apart(b) /\ (AllNew(a) \/ AllNew(b)) => Apart(a \o b)
<1>1. a \o b \in Seq(S) /\ Len(a \o b) = Len(a) + Len(b)
      /\ \A i \in 1..(Len(a) + Len(b)) :
           (a \o b)[i] = IF i <= Len(a) THEN a[i] ELSE b[i - Len(a)]
  OBVIOUS
<1>2. /\ DOMAIN a = 1..Len(a) /\ DOMAIN b = 1..Len(b) /\ DOMAIN (a \o b) = 1..(Len(a) + Len(b))
      /\ Len(a) \in Nat /\ Len(b) \in Nat
  BY <1>1
<1> DEFINE c == a \o b
<1> HIDE DEF c
<1>3. ASSUME NEW i \in DOMAIN c
      PROVE  \/ i \in DOMAIN a /\ c[i] = a[i]
             \/ i - Len(a) \in DOMAIN b /\ i - Len(a) > 0 /\ i \notin DOMAIN a /\ c[i] = b[i - Len(a)]
  BY <1>1, <1>2 DEF c
<1>4. /\ \A i \in DOMAIN a : i \in DOMAIN c /\ c[i] = a[i]
      /\ \A i \in DOMAIN b : i + Len(a) \in DOMAIN c /\ c[i + Len(a)] = b[i]
  BY <1>1, <1>2 DEF c
<1>5. ToSet(c) = ToSet(a) \cup ToSet(b)
  BY <1>3, <1>4 DEF ToSet
<1>6. AllNew(a) /\ AllNew(b) => AllNew(c)
  BY <1>3 DEF AllNew
<1>7. ASSUME Apart(a), Apart(b), AllNew(a) \/ AllNew(b),
             NEW k \in DOMAIN c, NEW l \in DOMAIN c, k # l, c[k].op # "new", c[l].op # "new"
      PROVE  c[k].id # c[l].id
  <2>1. CASE AllNew(a)
    <3>1. /\ k - Len(a) \in DOMAIN b /\ c[k] = b[k - Len(a)]
          /\ l - Len(a) \in DOMAIN b /\ c[l] = b[l - Len(a)]
      BY <1>3, <1>7, <2>1 DEF AllNew
    <3>2. k - Len(a) # l - Len(a)
      BY <1>2, <1>7 DEF c
    <3> QED
      BY <1>7, <3>1, <3>2 DEF Apart
  <2>2. CASE AllNew(b)
    <3>1. k \in DOMAIN a /\ c[k] = a[k] /\ l \in DOMAIN a /\ c[l] = a[l]
      BY <1>3, <1>7, <2>2 DEF AllNew
    <3> QED
      BY <1>7, <3>1 DEF Apart
  <2> QED
    BY <1>7, <2>1, <2>2
<1>8. Apart(a) /\ Apart(b) /\ (AllNew(a) \/ AllNew(b)) => Apart(c)
  BY <1>7 DEF Apart
<1> QED
  BY <1>1, <1>5, <1>6, <1>8 DEF c

LEMMA NewsAll ==
  ASSUME NEW R \in NewRows
  PROVE  /\ \A w \in ToSet(News(R)) : w.op = "new" /\ w.row \in R
         /\ \A r \in R : NewRow(r) \in ToSet(News(R)) /\ NewRow(r).row = r
         /\ AllNew(News(R)) /\ Apart(News(R))
<1> DEFINE S == {NewRow(r) : r \in R}
           f == [r \in R |-> NewRow(r)]
<1>1. f \in [R -> S] /\ \A t \in S : \E r \in R : t = f[r]
  OBVIOUS
<1>2. IsFiniteSet(S)
  <2> HIDE DEF f, S
  <2> QED
    BY <1>1, ImageFinite DEF NewRows
<1>3. \A w \in S : w.op = "new" /\ w.row \in R
  BY DEF NewRow
<1>4. \A r \in R : NewRow(r) \in S /\ NewRow(r).row = r
  BY DEF NewRow
<1>5. News(R) = SetToSeq(S)
  BY DEF News
<1> HIDE DEF S
<1>6. ToSet(News(R)) = S
  BY <1>2, <1>5, SetToSeqAll
<1>7. AllNew(News(R))
  BY <1>3, <1>6 DEF AllNew, ToSet
<1>8. Apart(News(R))
  BY <1>7 DEF AllNew, Apart
<1> QED
  BY <1>3, <1>4, <1>6, <1>7, <1>8

\* What is to apply after the range: rows of the final set are saved once each, or defaults are new.
LEMMA AfterWrites ==
  ASSUME IInv, NEW n, NEW to \in 0..MaxRun
  PROVE  /\ SetToSeq(After(n, to)) \in Seq(Writable(nextId))
         /\ ToSet(SetToSeq(After(n, to))) = After(n, to)
         /\ Apart(SetToSeq(After(n, to)))
         /\ \A w \in After(n, to) : w.op \in {"new", "save"}
         /\ Saved(After(n, to)) = Final(n, to)
<1> DEFINE A == After(n, to)
           F == Final(n, to)
<1>1. IsFiniteSet(A) /\ A \subseteq Writable(nextId)
  BY AfterType
<1>0. PICK moved : moved = [i \in F |-> [rows[i] EXCEPT !.start = Beyond(to)]]
  OBVIOUS
<1>2. /\ \A w \in A : (w.op = "new" /\ F = {}) \/ \E i \in F : w = SaveRow(i, moved[i])
      /\ \A i \in F : SaveRow(i, moved[i]) \in A
  <2>1. CASE F # {}
    <3>1. A = {SaveRow(i, moved[i]) : i \in F}
      BY <1>0, <2>1 DEF After
    <3> HIDE DEF A, F
    <3> QED
      BY <3>1
  <2>2. CASE F = {}
    BY <2>2 DEF After, NewRow
  <2> QED
    BY <2>1, <2>2
<1>3. \A i, r : SaveRow(i, r).op = "save" /\ SaveRow(i, r).id = i
  BY DEF SaveRow
<1> HIDE DEF A, F
<1>4. \A w \in A : w.op \in {"new", "save"}
  BY <1>2, <1>3
<1>5. \A v, w \in A : v.op # "new" /\ w.op # "new" /\ v.id = w.id => v = w
  BY <1>2, <1>3
<1>6. \A i : i \in Saved(A) <=> \E w \in A : w.op = "save" /\ i = w.id
  BY DEF Saved
<1>7. Saved(A) = F
  <2>1. ASSUME NEW i \in F PROVE i \in Saved(A)
    BY <1>2, <1>3, <1>6
  <2>2. ASSUME NEW i \in Saved(A) PROVE i \in F
    BY <1>2, <1>3, <1>6
  <2> QED
    BY <2>1, <2>2
<1>8. /\ SetToSeq(A) \in Seq(Writable(nextId)) /\ ToSet(SetToSeq(A)) = A
      /\ \A k \in DOMAIN SetToSeq(A) : SetToSeq(A)[k] \in A
      /\ \A k, l \in DOMAIN SetToSeq(A) : SetToSeq(A)[k] = SetToSeq(A)[l] => k = l
  BY <1>1, SetToSeqType, SetToSeqAll
<1>9. Apart(SetToSeq(A))
  BY <1>5, <1>8 DEF Apart
<1> QED
  BY <1>4, <1>7, <1>8, <1>9 DEF A, F

\* All that one request of set_variables_for_runs is going to write.
LEMMA SetPlanned ==
  ASSUME IInv, NEW n \in 0..MaxRun, NEW to \in 0..MaxRun, NEW N \in NewRows,
         NEW w, w = (IF to = 0 THEN <<>> ELSE News(KeptBefore(n, to)) \o SetToSeq(After(n, to))) \o News(N)
  PROVE  /\ Apart(w)
         /\ \A v \in ToSet(w) : v.op # "delete" /\ (v.op = "save" => v.id \in DOMAIN rows)
         /\ Afterwards(rows, ToSet(w)) = IF to = 0 THEN Copies(rows) \cup N ELSE TableAfter(n, to, N)
<1> DEFINE K == KeptBefore(n, to)
           A == After(n, to)
           W == Writable(nextId)
<1>0. nextId \in Nat /\ RowsOK
  BY DEF IInv, RowsOK
<1>1. K \in NewRows
  <2>1. {} \in NewRows
    BY FS_EmptySet DEF NewRows
  <2>2. Copies(Held(Final(n, to))) \in NewRows
    BY <1>0, FinalRows, HeldType, CopiesType
  <2> QED
    BY <2>1, <2>2 DEF KeptBefore
<1> HIDE DEF K
<1>2. News(K) \in Seq(W) /\ News(N) \in Seq(W)
  BY <1>0, <1>1, NewsType
<1>3. /\ \A v \in ToSet(News(K)) : v.op = "new" /\ v.row \in K
      /\ \A r \in K : NewRow(r) \in ToSet(News(K)) /\ NewRow(r).row = r
      /\ \A v \in ToSet(News(N)) : v.op = "new" /\ v.row \in N
      /\ \A r \in N : NewRow(r) \in ToSet(News(N)) /\ NewRow(r).row = r
      /\ AllNew(News(K)) /\ Apart(News(K)) /\ AllNew(News(N)) /\ Apart(News(N))
  BY <1>1, NewsAll
<1>4. CASE to = 0
  <2>1. w = News(N)
    <3>1. PICK s \in Seq(W) : s = News(N)
      BY <1>2
    <3>2. <<>> \o s = s
      OBVIOUS
    <3> QED
      BY <1>4, <3>1, <3>2
  <2>2. \A v \in ToSet(w) : v.op = "new"
    BY <1>3, <2>1
  <2>3. Saved(ToSet(w)) = {}
    BY <2>2 DEF Saved
  <2>4. \A r : (\E v \in ToSet(w) : r = v.row) <=> r \in N
    BY <1>3, <2>1
  <2>5. Afterwards(rows, ToSet(w)) = Copies(rows) \cup N
    BY <2>3, <2>4 DEF Afterwards, Copies
  <2> QED
    BY <1>3, <1>4, <2>1, <2>2, <2>5
<1>5. CASE to # 0
  <2>1. /\ SetToSeq(A) \in Seq(W) /\ ToSet(SetToSeq(A)) = A /\ Apart(SetToSeq(A))
        /\ \A v \in A : v.op \in {"new", "save"}
        /\ Saved(A) = Final(n, to) /\ Final(n, to) \subseteq DOMAIN rows
    BY AfterWrites, FinalRows
  <2>2. Moved(n, to) = {v.row : v \in A}
    BY DEF Moved
  <2> HIDE DEF A, W
  <2>3. w = (News(K) \o SetToSeq(A)) \o News(N)
    BY <1>5 DEF A, K
  <2>4. /\ News(K) \o SetToSeq(A) \in Seq(W)
        /\ ToSet(News(K) \o SetToSeq(A)) = ToSet(News(K)) \cup A
        /\ Apart(News(K) \o SetToSeq(A))
    BY <1>2, <1>3, <2>1, JoinedWrites
  <2>5. ToSet(w) = ToSet(News(K)) \cup A \cup ToSet(News(N)) /\ Apart(w)
    <3>1. PICK a : a = News(K) \o SetToSeq(A)
      OBVIOUS
    <3>2. a \in Seq(W) /\ ToSet(a) = ToSet(News(K)) \cup A /\ Apart(a)
      BY <2>4, <3>1
    <3>3. PICK b \in Seq(W) : b = News(N) /\ AllNew(b) /\ Apart(b)
      BY <1>2, <1>3
    <3>4. ToSet(a \o b) = ToSet(a) \cup ToSet(b) /\ Apart(a \o b)
      BY <3>2, <3>3, JoinedWrites
    <3>5. w = a \o b
      BY <2>3, <3>1, <3>3
    <3> QED
      BY <3>2, <3>3, <3>4, <3>5
  <2>6. \A v \in ToSet(w) : v \in A \/ v.op = "new"
    BY <1>3, <2>5
  <2>7. \A i : i \in Saved(ToSet(w)) <=> i \in Saved(A)
    BY <2>5, <2>6 DEF Saved
  <2>8. \A v \in A : v.op = "save" => v.id \in Saved(A)
    BY DEF Saved
  <2>9. \A r : (\E v \in ToSet(w) : r = v.row) <=> r \in K \/ r \in Moved(n, to) \/ r \in N
    BY <1>3, <2>2, <2>5
  <2>10. Afterwards(rows, ToSet(w)) = TableAfter(n, to, N)
    BY <2>1, <2>7, <2>9 DEF Afterwards, TableAfter, K
  <2> QED
    BY <1>5, <2>1, <2>5, <2>6, <2>8, <2>10
<1> QED
  BY <1>4, <1>5
-----------------------------------------------------------------------------
(***************************************************************************)
(* Writing the first of the list leaves what the table will be in the end. *)
(***************************************************************************)
Additive(writes) ==
  /\ \A w \in ToSet(writes) : w.op # "delete" /\ (w.op = "save" => w.id \in DOMAIN rows)
  /\ Apart(writes)

LEMMA FirstWritten ==
  ASSUME RowsOK, NEW ws \in Seq(Writable(nextId)), ws # <<>>, Additive(ws), Apply(Head(ws))
  PROVE  /\ Tail(ws) \in Seq(Writable(nextId)) /\ Additive(Tail(ws))'
         /\ Afterwards(rows', ToSet(Tail(ws))) = Afterwards(rows, ToSet(ws))
<1> DEFINE w == ws[1]
           rest == Tail(ws)
<1>1. /\ 1 \in DOMAIN ws /\ w \in Writable(nextId) /\ Head(ws) = w /\ rest \in Seq(Writable(nextId))
      /\ \A k \in DOMAIN rest : k + 1 \in DOMAIN ws /\ k + 1 # 1 /\ rest[k] = ws[k + 1]
      /\ \A k \in DOMAIN ws : k = 1 \/ (k - 1 \in DOMAIN rest /\ rest[k - 1] = ws[k])
      /\ \A k, l \in DOMAIN rest : k # l => k + 1 # l + 1
  OBVIOUS
<1> HIDE DEF w, rest
<1>2. /\ \A v : v \in ToSet(ws) <=> v = w \/ v \in ToSet(rest)
      /\ w \in ToSet(ws)
  <2>1. w \in ToSet(ws)
    BY <1>1 DEF ToSet, w
  <2>2. \A v \in ToSet(rest) : v \in ToSet(ws)
    BY <1>1 DEF ToSet
  <2>3. ASSUME NEW v \in ToSet(ws) PROVE v = w \/ v \in ToSet(rest)
    <3>1. PICK k \in DOMAIN ws : v = ws[k]
      BY DEF ToSet
    <3>2. CASE k = 1
      BY <3>1, <3>2 DEF w
    <3>3. CASE k # 1
      BY <1>1, <3>1, <3>3 DEF ToSet
    <3> QED
      BY <3>2, <3>3
  <2> QED
    BY <2>1, <2>2, <2>3
<1>3. w.op \in {"new", "save"} /\ (w.op = "save" => w.id \in DOMAIN rows)
  BY <1>1, <1>2 DEF Additive, Writable, Write
<1>4. /\ nextId \notin DOMAIN rows
      /\ rows' = IF w.op = "new" THEN Put(rows, nextId, w.row) ELSE Put(rows, w.id, w.row)
  BY <1>1, <1>3 DEF Apply, RowsOK
<1>5. \A v \in ToSet(rest) : v.op # "delete" /\ (v.op = "save" => v.id \in DOMAIN rows)
  BY <1>2 DEF Additive
<1>6. ASSUME NEW v \in ToSet(rest), v.op = "save", w.op = "save" PROVE v.id # w.id
  <2>1. PICK k \in DOMAIN rest : v = rest[k]
    BY DEF ToSet
  <2>2. k + 1 \in DOMAIN ws /\ k + 1 # 1 /\ v = ws[k + 1] /\ 1 \in DOMAIN ws
    BY <1>1, <2>1
  <2> QED
    BY <1>6, <2>2 DEF Additive, Apart, w
<1>7. DOMAIN rows \subseteq DOMAIN rows'
  BY <1>4 DEF Put
<1>8. Apart(rest)
  <2> SUFFICES ASSUME NEW k \in DOMAIN rest, NEW l \in DOMAIN rest, k # l,
                      rest[k].op # "new", rest[l].op # "new"
               PROVE  rest[k].id # rest[l].id
    BY DEF Apart
  <2>1. /\ k + 1 \in DOMAIN ws /\ l + 1 \in DOMAIN ws /\ k + 1 # l + 1
        /\ rest[k] = ws[k + 1] /\ rest[l] = ws[l + 1]
    BY <1>1
  <2> QED
    BY <2>1 DEF Additive, Apart
<1>9. Additive(rest)'
  BY <1>5, <1>7, <1>8 DEF Additive, Apart
<1> DEFINE S == Saved(ToSet(rest))
<1>10. /\ \A i : i \in S <=> \E v \in ToSet(rest) : v.op = "save" /\ i = v.id
       /\ \A i : i \in Saved(ToSet(ws)) <=> i \in S \/ (w.op = "save" /\ i = w.id)
  BY <1>2 DEF Saved
<1>11. S \subseteq DOMAIN rows /\ (w.op = "save" => w.id \notin S)
  BY <1>5, <1>6, <1>10
<1> HIDE DEF S
<1>12. \A r : (\E i \in DOMAIN rows' \ S : r = rows'[i])
                <=> (\E i \in DOMAIN rows \ Saved(ToSet(ws)) : r = rows[i]) \/ r = w.row
  <2>1. CASE w.op = "new"
    BY <1>4, <1>10, <1>11, <2>1 DEF Put
  <2>2. CASE w.op = "save"
    BY <1>3, <1>4, <1>10, <1>11, <2>2 DEF Put
  <2> QED
    BY <1>3, <2>1, <2>2
<1>13. \A r : (\E v \in ToSet(ws) : r = v.row) <=> (\E v \in ToSet(rest) : r = v.row) \/ r = w.row
  BY <1>2
<1>14. Afterwards(rows', ToSet(rest)) = Afterwards(rows, ToSet(ws))
  <2>1. \A r : r \in Afterwards(rows', ToSet(rest)) <=>
                (\E i \in DOMAIN rows' \ S : r = rows'[i]) \/ \E v \in ToSet(rest) : r = v.row
    BY DEF Afterwards, S
  <2>2. \A r : r \in Afterwards(rows, ToSet(ws)) <=>
                (\E i \in DOMAIN rows \ Saved(ToSet(ws)) : r = rows[i]) \/ \E v \in ToSet(ws) : r = v.row
    BY DEF Afterwards
  <2>3. \A r : r \in Afterwards(rows', ToSet(rest)) <=> r \in Afterwards(rows, ToSet(ws))
    BY <1>12, <1>13, <2>1, <2>2
  <2> QED
    BY <2>3
<1> QED
  BY <1>1, <1>9, <1>14 DEF rest

(***************************************************************************)
(* A request of set_variables_for_runs, while nobody else has written: its *)
(* range is in order, and with what it has still to write the runs outside *)
(* the range have the values they had.                                     *)
(***************************************************************************)
InOrder(j) ==
  j.pc \in {"update", "shown"} /\ j.plan = "edit" => j.form.to = 0 \/ j.n <= j.form.to

OutOfRange(j) == {m \in RunNumbers : m < j.n \/ (j.to # 0 /\ m > j.to)}

Sets(j) == j.pc = "finish" /\ j.plan \in {"edit", "delete"} /\ j.alone

SetWrites(j) ==
  /\ Additive(j.writes)
  /\ \A m \in OutOfRange(j) : j.was[m] # {} =>
       ValuesFor(Afterwards(rows, ToSet(j.writes)), m) = j.was[m]

SetState(j) == InOrder(j) /\ (Sets(j) => SetWrites(j))
SetInv == \A s \in Sessions : SetState(web[s])

LEMMA SetStarts ==
  ASSUME IInv, NEW s \in Sessions, NEW plan \in {"edit", "delete"}, NEW n \in 0..MaxRun,
         NEW to \in 0..MaxRun, to = 0 \/ n <= to, NEW new \in NewRows, Set(s, plan, n, to, new)
  PROVE  \E j : GoWeb(s, j) /\ SetState(j)
<1> DEFINE N == {[r EXCEPT !.start = n] : r \in new}
           was == [m \in RunNumbers |-> Values(Held(Governing(m)))]
<1>0. /\ n \in Nat /\ to \in Nat /\ n \in 0..MaxRun + 1 /\ TypeOK
      /\ \A m \in RunNumbers : m \in Nat
  BY InvType, RunsAssumption DEF RunNumbers
<1>1. N \in NewRows
  BY <1>0, RestartedType
<1>2. ASSUME NEW r \in N PROVE r.start = n
  BY DEF NewRows, Row
<1>3. \A m \in RunNumbers : was[m] = ValuesFor(Copies(rows), m)
  BY <1>0, ValuesRead
<1>4. PICK w : w = (IF to = 0 THEN <<>> ELSE News(KeptBefore(n, to)) \o SetToSeq(After(n, to)))
                   \o News(N)
  OBVIOUS
<1>5. GoWeb(s, IF w = <<>> THEN Idle
               ELSE [pc |-> "finish", plan |-> plan, n |-> n, to |-> to, writes |-> w,
                     alone |-> TRUE, was |-> was])
  BY <1>4 DEF Set
<1> HIDE DEF was, N
<1>6. Additive(w)
  BY <1>1, <1>4, SetPlanned DEF Additive
<1>7. Afterwards(rows, ToSet(w)) = IF to = 0 THEN Copies(rows) \cup N ELSE TableAfter(n, to, N)
  BY <1>1, <1>4, SetPlanned
<1>8. ASSUME NEW m \in RunNumbers, m < n \/ (to # 0 /\ m > to), was[m] # {}
      PROVE  ValuesFor(Afterwards(rows, ToSet(w)), m) = was[m]
  <2>1. CASE to = 0
    <3>1. m \in Nat /\ m < n /\ Afterwards(rows, ToSet(w)) = Copies(rows) \cup N
      BY <1>0, <1>7, <1>8, <2>1
    <3>2. ValuesFor(Copies(rows) \cup N, m) = ValuesFor(Copies(rows), m)
      BY <1>0, <1>2, <3>1, KeptFrom
    <3> QED
      BY <1>3, <3>1, <3>2
  <2>2. CASE to # 0 /\ m < n
    BY <1>0, <1>2, <1>3, <1>7, <2>2, KeptUpTo
  <2>3. CASE to # 0 /\ m > to
    BY <1>0, <1>2, <1>3, <1>7, <1>8, <2>3, KeptAfter
  <2> QED
    BY <1>8, <2>1, <2>2, <2>3
<1>9. SetState(Idle)
  BY DEF SetState, InOrder, Sets, Idle
<1>10. PICK j : j = [pc |-> "finish", plan |-> plan, n |-> n, to |-> to, writes |-> w,
                     alone |-> TRUE, was |-> was]
  OBVIOUS
<1>11. SetState(j)
  BY <1>6, <1>8, <1>10 DEF SetState, InOrder, SetWrites, OutOfRange
<1> QED
  BY <1>5, <1>9, <1>10, <1>11

LEMMA ShownInOrder ==
  ASSUME NEW plan, NEW n, NEW I, NEW form, plan # "edit" \/ form.to = 0 \/ n <= form.to
  PROVE  SetState(Show(plan, n, I, form))
BY DEF SetState, InOrder, Sets, Show

LEMMA DisturbedSets ==
  ASSUME NEW j \in WebStates(nextId), SetState(j)
  PROVE  \E d : d = Disturbed(j) /\ SetState(d) /\ ~Sets(d)
<1>1. CASE j.pc = "idle"
  BY <1>1 DEF Disturbed, SetState, Sets
<1>2. CASE j.pc # "idle"
  <2>1. j # Idle
    BY <1>2 DEF Idle
  <2>2. ASSUME NEW P, NEW N, NEW F, j \in Shown(P, N, F, nextId)
        PROVE  LET d == [j EXCEPT !.alone = FALSE] IN
                 ~d.alone /\ d.pc = j.pc /\ d.plan = j.plan /\ d.n = j.n /\ d.form = j.form
    BY <2>2 DEF Shown
  <2>3. ASSUME j \in Finishing(nextId) \cup Setting(nextId)
        PROVE  LET d == [j EXCEPT !.alone = FALSE] IN ~d.alone /\ d.pc = "finish"
    BY <2>3 DEF Finishing, Setting
  <2>4. PICK d : d = [j EXCEPT !.alone = FALSE]
    OBVIOUS
  <2>5. ~d.alone /\ (d.pc = "finish" \/ (d.pc = j.pc /\ d.plan = j.plan /\ d.n = j.n /\ d.form = j.form))
    BY <2>1, <2>2, <2>3, <2>4 DEF WebStates
  <2>6. d = Disturbed(j)
    BY <1>2, <2>4 DEF Disturbed
  <2> QED
    BY <2>5, <2>6 DEF SetState, InOrder, Sets
<1> QED
  BY <1>1, <1>2

\* A write of the request's own.
LEMMA RestSets ==
  ASSUME IInv, NEW s \in Sessions, WebWrite(s), SetState(web[s])
  PROVE  /\ SetState(web[s])'
         /\ Sets(web[s]) /\ web'[s].writes = <<>> =>
              \A m \in OutOfRange(web[s]) : web[s].was[m] # {} =>
                ValuesFor(Copies(rows'), m) = web[s].was[m]
<1> DEFINE j == web[s]
<1>0. /\ j \in WebStates(nextId) /\ j.writes # <<>> /\ Idle.writes = <<>> /\ Idle.pc = "idle"
      /\ RowsOK /\ Apply(Head(j.writes)) /\ web'[s] = Rest(j)
  BY DEF WebWrite, IInv, Idle
<1>1. j # Idle
  BY <1>0
<1>2. PICK ws \in Seq(Writable(nextId)) : ws = j.writes
  BY <1>0, JobFields
<1>3. Tail(ws) \in Seq(Writable(nextId)) /\ Len(ws) \in Nat /\ (Tail(ws) = <<>> <=> Len(ws) = 1)
  <2>1. ws # <<>>
    BY <1>0, <1>2
  <2>2. /\ Tail(ws) \in Seq(Writable(nextId)) /\ Len(ws) \in Nat
        /\ Len(Tail(ws)) = Len(ws) - 1
    BY <2>1
  <2>3. PICK t \in Seq(Writable(nextId)) : t = Tail(ws)
    BY <2>2
  <2>4. t = <<>> <=> Len(t) = 0
    OBVIOUS
  <2> QED
    BY <2>2, <2>3, <2>4
<1>4. Rest(j) = IF Len(ws) = 1 /\ j.pc = "finish" THEN Idle ELSE [j EXCEPT !.writes = Tail(ws)]
  BY <1>2 DEF Rest
<1>5. CASE j \notin Setting(nextId)
  <2>1. ~Sets(j)
    <3>1. j \in Finishing(nextId) => ~Sets(j)
      BY DEF Finishing, Sets
    <3>2. \A P, N, F : j \in Shown(P, N, F, nextId) => ~Sets(j)
      BY DEF Shown, Sets
    <3> HIDE DEF j
    <3> QED
      BY <1>0, <1>1, <1>5, <3>1, <3>2 DEF WebStates
  <2>2. \/ Rest(j) = Idle
        \/ /\ Rest(j).pc = j.pc /\ Rest(j).plan = j.plan
           /\ j.pc = "finish" \/ (Rest(j).n = j.n /\ Rest(j).form = j.form)
    <3>1. ASSUME NEW P, NEW N, NEW F, j \in Shown(P, N, F, nextId)
          PROVE  LET d == [j EXCEPT !.writes = Tail(ws)] IN
                   d.pc = j.pc /\ d.plan = j.plan /\ d.n = j.n /\ d.form = j.form
      BY <3>1 DEF Shown
    <3>2. j \in Finishing(nextId) =>
            LET d == [j EXCEPT !.writes = Tail(ws)] IN
              d.pc = "finish" /\ d.plan = j.plan /\ j.pc = "finish"
      BY DEF Finishing
    <3> HIDE DEF j
    <3> QED
      BY <1>0, <1>1, <1>4, <1>5, <3>1, <3>2 DEF WebStates
  <2>3. j.pc = "finish" => j.plan \notin {"edit", "delete"}
    <3>1. j \in Finishing(nextId) => j.plan \notin {"edit", "delete"}
      BY DEF Finishing
    <3>2. \A P, N, F : j \in Shown(P, N, F, nextId) => j.pc # "finish"
      BY DEF Shown
    <3> HIDE DEF j
    <3> QED
      BY <1>0, <1>1, <1>5, <3>1, <3>2 DEF WebStates
  <2>4. ~Sets(Rest(j)) /\ InOrder(Rest(j))
    <3>1. Idle.pc \notin {"finish", "update", "shown"}
      BY <1>0
    <3>2. InOrder(j) /\ (j.pc \in {"update", "shown"} => j.pc # "finish")
      BY DEF SetState
    <3>3. \A P, N, F : j \in Shown(P, N, F, nextId) => j.pc \in {"update", "shown"}
      BY DEF Shown
    <3> HIDE DEF j
    <3> QED
      BY <2>2, <2>3, <3>1, <3>2 DEF Sets, InOrder
  <2>5. ~Sets(web'[s]) /\ InOrder(web'[s])
    BY <1>0, <2>4
  <2> QED
    BY <2>1, <2>5 DEF SetState, Sets, InOrder
<1>6. CASE j \in Setting(nextId)
  <2>1. j.pc = "finish"
    BY <1>6 DEF Setting
  <2>2. CASE ~j.alone
    <3>1. ~[j EXCEPT !.writes = Tail(ws)].alone /\ [j EXCEPT !.writes = Tail(ws)].pc = "finish"
      BY <1>6, <2>2 DEF Setting
    <3>2. web'[s] = Idle \/ (~web'[s].alone /\ web'[s].pc = "finish")
      BY <1>0, <1>4, <3>1
    <3> QED
      BY <1>0, <2>2, <3>2 DEF SetState, InOrder, Sets
  <2>3. CASE j.alone
    <3>1. Sets(j) /\ SetWrites(j)
      BY <1>6, <2>3 DEF Setting, Sets, SetState
    <3>2. ws # <<>> /\ Additive(ws) /\ Apply(Head(ws))
      BY <1>0, <1>2, <3>1 DEF SetWrites
    <3>3. /\ Additive(Tail(ws))'
          /\ Afterwards(rows', ToSet(Tail(ws))) = Afterwards(rows, ToSet(ws))
      BY <1>0, <3>2, FirstWritten
    <3>4. \A m \in OutOfRange(j) : j.was[m] # {} =>
            ValuesFor(Afterwards(rows', ToSet(Tail(ws))), m) = j.was[m]
      BY <1>2, <3>1, <3>3 DEF SetWrites
    <3>5. CASE Len(ws) = 1
      <4>1. web'[s] = Idle /\ ToSet(Tail(ws)) = {}
        BY <1>0, <1>3, <1>4, <2>1, <3>5 DEF ToSet
      <4>2. Afterwards(rows', {}) = Copies(rows')
        BY DEF Afterwards, Saved, Copies
      <4> QED
        BY <1>0, <3>4, <4>1, <4>2 DEF SetState, InOrder, Sets
    <3>6. CASE Len(ws) # 1
      <4>1. PICK d : d = [j EXCEPT !.writes = Tail(ws)]
        OBVIOUS
      <4>2. /\ d.pc = "finish" /\ d.plan = j.plan /\ d.n = j.n /\ d.to = j.to /\ d.was = j.was
            /\ d.alone = j.alone /\ d.writes = Tail(ws)
        BY <1>6, <4>1 DEF Setting
      <4>3. web'[s] = d /\ d.writes # <<>>
        BY <1>0, <1>3, <1>4, <3>6, <4>1, <4>2
      <4>4. SetWrites(d)'
        BY <3>3, <3>4, <4>2 DEF SetWrites, OutOfRange
      <4>5. SetWrites(web[s])' /\ InOrder(web[s])'
        BY <4>2, <4>3, <4>4 DEF SetWrites, OutOfRange, InOrder
      <4> QED
        BY <4>3, <4>5 DEF SetState
    <3> QED
      BY <3>5, <3>6
  <2> QED
    BY <1>6, <2>2, <2>3 DEF Setting
<1> QED
  BY <1>5, <1>6

LEMMA SessionSets ==
  ASSUME IInv, SetInv, NEW s \in Sessions, WebNext(s), ~WebWrite(s)
  PROVE  SetState(web[s])' /\ web[s].writes = <<>>
<1>0. /\ web \in [Sessions -> WebStates(nextId)] /\ RowsOK /\ SetState(web[s])
      /\ Idle.pc = "idle" /\ Idle.writes = <<>> /\ SetState(Idle)
  BY DEF IInv, SetInv, Idle, SetState, InOrder, Sets
<1>1. ASSUME NEW j, GoWeb(s, j), Kept, SetState(j)
      PROVE  SetState(web[s])'
  <2>1. web'[s] = j /\ rows' = rows
    BY <1>0, <1>1 DEF GoWeb, Kept
  <2> QED
    BY <1>1, <2>1 DEF SetState, InOrder, Sets, SetWrites, OutOfRange, Additive, Apart
<1>2. ASSUME NEW R, web[s].plan \notin {"edit", "delete"}, SaveAll(s, R)
      PROVE  \E j : GoWeb(s, j) /\ SetState(j)
  BY <1>0, <1>2 DEF SaveAll, SetState, InOrder, Sets
<1>3. \A plan, n, I, form : plan # "edit" => SetState(Show(plan, n, I, form))
  BY ShownInOrder
<1>4. CASE View(s) \/ Rerun(s)
  <2>1. \E j : GoWeb(s, j) /\ SetState(j)
    BY <1>3, <1>4 DEF View, Rerun
  <2> QED
    BY <1>1, <1>4, <2>1 DEF View, Rerun, AtWeb
<1>5. CASE Edit(s)
  <2>1. PICK p \in Edited, track \in BOOLEAN :
          \/ \E n \in RunNumbers : \E to \in {0} \cup n..MaxRun :
               GoWeb(s, Show("edit", n, Governing(n), [to |-> to, typed |-> p, tracks |-> track]))
          \/ \E e \in Experiments :
               GoWeb(s, Show("replace", 0, For(e), [e |-> e, typed |-> p, tracks |-> track]))
    BY <1>5 DEF Edit
  <2>2. ASSUME NEW n \in RunNumbers, NEW to \in {0} \cup n..MaxRun
        PROVE  SetState(Show("edit", n, Governing(n), [to |-> to, typed |-> p, tracks |-> track]))
    <3>1. [to |-> to, typed |-> p, tracks |-> track].to = to /\ (to = 0 \/ n <= to)
      BY RunsAssumption DEF RunNumbers
    <3> QED
      BY <3>1, ShownInOrder
  <2>3. \E j : GoWeb(s, j) /\ SetState(j)
    BY <1>3, <2>1, <2>2
  <2> QED
    BY <1>1, <1>5, <2>3 DEF Edit, AtWeb
<1>6. CASE Delete(s)
  <2>1. PICK n \in 0..MaxRun, to \in 0..MaxRun : (to = 0 \/ n <= to) /\ Set(s, "delete", n, to, {})
    BY <1>6 DEF Delete
  <2>2. {} \in NewRows
    BY FS_EmptySet DEF NewRows
  <2>3. \E j : GoWeb(s, j) /\ SetState(j)
    BY <2>1, <2>2, SetStarts
  <2> QED
    BY <1>1, <1>6, <2>3 DEF Delete, AtWeb
<1>7. CASE Update(s)
  <2>1. PICK w : GoWeb(s, [web[s] EXCEPT !.pc = "shown", !.writes = w])
    BY <1>7 DEF Update
  <2>2. web[s].pc = "update" /\ web[s] \in WebStates(nextId) /\ web[s].writes = <<>> /\ Kept
    BY <1>0, <1>7 DEF Update, AtWeb
  <2>3. PICK j : j = [web[s] EXCEPT !.pc = "shown", !.writes = w]
    OBVIOUS
  <2>4. j.pc = "shown" /\ j.plan = web[s].plan /\ j.n = web[s].n /\ j.form = web[s].form
    <3>1. \A P, N, F : web[s] \in Shown(P, N, F, nextId) =>
            LET d == [web[s] EXCEPT !.pc = "shown", !.writes = w] IN
              d.pc = "shown" /\ d.plan = web[s].plan /\ d.n = web[s].n /\ d.form = web[s].form
      BY DEF Shown
    <3>2. web[s] # Idle /\ web[s] \notin Finishing(nextId) \cup Setting(nextId)
      BY <2>2, OtherPcs
    <3> QED
      BY <2>2, <2>3, <3>1, <3>2 DEF WebStates
  <2>5. SetState(j)
    BY <1>0, <2>2, <2>4 DEF SetState, InOrder, Sets
  <2> QED
    BY <1>1, <2>1, <2>2, <2>3, <2>5
<1>8. CASE Viewed(s)
  <2>1. web[s].plan = "view" /\ web[s].writes = <<>> /\ Kept
    BY <1>8 DEF Viewed, Plan, AtWeb
  <2>2. \E j : GoWeb(s, j) /\ SetState(j)
    BY <1>0, <1>2, <1>8, <2>1 DEF Viewed, Finish
  <2> QED
    BY <1>1, <2>1, <2>2
<1>9. CASE SetVariablesForRuns(s)
  <2>1. /\ web[s] \in WebStates(nextId) /\ web[s].pc = "shown" /\ web[s].plan = "edit"
        /\ web[s].writes = <<>> /\ Kept
    BY <1>0, <1>9 DEF SetVariablesForRuns, Plan, AtWeb
  <2>2. web[s].n \in RunNumbers /\ web[s].form \in EditForms /\ web[s].held \in Holdings(nextId)
    BY <2>1, ShownFields
  <2>3. PICK n, to : n = web[s].n /\ to = web[s].form.to
    OBVIOUS
  <2>4. n \in 0..MaxRun /\ to \in 0..MaxRun /\ (to = 0 \/ n <= to)
    BY <1>0, <2>1, <2>2, <2>3, RunsAssumption DEF RunNumbers, EditForms, SetState, InOrder
  <2>5. PICK new \in NewRows : new = Modified(s, Copies(web[s].held))
    BY <1>0, <2>2, CopiesType, ModifiedType DEF RowsOK
  <2>6. Set(s, "edit", n, to, new)
    BY <1>9, <2>3, <2>5 DEF SetVariablesForRuns
  <2>7. \E j : GoWeb(s, j) /\ SetState(j)
    BY <2>4, <2>6, SetStarts
  <2> QED
    BY <1>1, <2>1, <2>7
<1>10. CASE ModifyExperiment(s)
  <2>1. PICK e, M : GoWeb(s, Show("save", 0, For(e), M))
    BY <1>10 DEF ModifyExperiment
  <2>2. SetState(Show("save", 0, For(e), M))
    BY <1>3
  <2> QED
    BY <1>1, <1>10, <2>1, <2>2 DEF ModifyExperiment, Plan, AtWeb
<1>11. CASE SetVariablesForExperiment(s)
  <2>1. web[s].plan = "save" /\ web[s].writes = <<>> /\ Kept
    BY <1>11 DEF SetVariablesForExperiment, Plan, AtWeb
  <2>2. \E j : GoWeb(s, j) /\ SetState(j)
    BY <1>2, <1>11, <2>1 DEF SetVariablesForExperiment
  <2> QED
    BY <1>1, <2>1, <2>2
<1>12. CASE CreateVariablesForRun(s)
  <2>1. web[s].plan \in {"rerun", "rerun default"} /\ web[s].writes = <<>> /\ Kept
    BY <1>12 DEF CreateVariablesForRun, Plan, AtWeb
  <2>2. SetState(Show("rerun default", web[s].n, Governing(web[s].n), <<>>))
    BY <1>3
  <2>3. \E j : GoWeb(s, j) /\ SetState(j)
    BY <1>0, <1>2, <1>12, <2>1, <2>2 DEF CreateVariablesForRun, Finish
  <2> QED
    BY <1>1, <2>1, <2>3
<1> QED
  BY <1>4, <1>5, <1>6, <1>7, <1>8, <1>9, <1>10, <1>11, <1>12 DEF WebNext

LEMMA OtherSets ==
  ASSUME IInv, SetInv, NEW s \in Sessions, Next,
         \A t \in Sessions : WebNext(t) => t # s
  PROVE  SetState(web[s])' /\ web'[s].writes = web[s].writes
<1>0. web[s] \in WebStates(nextId) /\ SetState(web[s])
  BY DEF IInv, SetInv
<1>1. CASE web'[s] = web[s] /\ rows' = rows
  BY <1>0, <1>1 DEF SetState, InOrder, Sets, SetWrites, OutOfRange, Additive, Apart
<1>2. CASE web'[s] = Disturbed(web[s])
  <2>1. PICK d : d = Disturbed(web[s]) /\ SetState(d) /\ ~Sets(d)
    BY <1>0, DisturbedSets
  <2>2. web'[s] = d
    BY <1>2, <2>1
  <2>3. SetState(web[s])'
    BY <2>1, <2>2 DEF SetState, InOrder, Sets
  <2>4. Disturbed(web[s]).writes = web[s].writes
    <3>1. \A P, N, F : web[s] \in Shown(P, N, F, nextId) =>
            [web[s] EXCEPT !.alone = FALSE].writes = web[s].writes
      BY DEF Shown
    <3>2. web[s] \in Finishing(nextId) \cup Setting(nextId) =>
            [web[s] EXCEPT !.alone = FALSE].writes = web[s].writes
      BY DEF Finishing, Setting
    <3>3. Idle.pc = "idle"
      BY DEF Idle
    <3> QED
      BY <1>0, <3>1, <3>2, <3>3 DEF WebStates, Disturbed
  <2> QED
    BY <1>2, <2>3, <2>4
<1>3. CASE ChangeScript
  BY <1>1, <1>3 DEF ChangeScript
<1>4. CASE QPNext
  <2>1. CASE QPWrite
    BY <1>2, <2>1 DEF QPWrite
  <2>2. CASE ~QPWrite
    BY <1>1, <1>4, <2>2 DEF QPNext, QPShowForExperiment, QPShowForRun, QPDefaults, QPReadLatest,
      QPNoRows, QPReadSet, QPSave, GoQP
  <2> QED
    BY <2>1, <2>2
<1>5. ASSUME NEW t \in Sessions, WebNext(t)
      PROVE  SetState(web[s])' /\ web'[s].writes = web[s].writes
  <2>1. t # s
    BY <1>5
  <2>2. CASE WebWrite(t)
    BY <1>2, <2>1, <2>2 DEF WebWrite
  <2>3. CASE ~WebWrite(t)
    <3>1. rows' = rows /\ \E j : GoWeb(t, j)
      BY <1>5, <2>3 DEF WebNext, View, Edit, Delete, Rerun, Update, Viewed, SetVariablesForRuns,
        ModifyExperiment, SetVariablesForExperiment, CreateVariablesForRun, Kept, SaveAll, Set, Finish
    <3>2. web'[s] = web[s]
      BY <2>1, <3>1 DEF GoWeb, IInv
    <3>3. web'[s] = web[s] /\ rows' = rows
      BY <3>1, <3>2
    <3> QED
      BY <1>1, <3>3, SMTT(30)
  <2> QED
    BY <2>2, <2>3
<1> QED
  BY <1>3, <1>4, <1>5 DEF Next

ReadAsRows == \A n \in RunNumbers : Values(Held(Governing(n))) = ValuesFor(Copies(rows), n)

LEMMA ValuesReadAll == TypeOK => ReadAsRows
BY ValuesRead DEF ReadAsRows

LEMMA StepSets ==
  ASSUME IInv, SetInv, [Next]_vars
  PROVE  SetInv'
<1>1. CASE UNCHANGED vars
  BY <1>1 DEF vars, SetInv, SetState, InOrder, Sets, SetWrites, OutOfRange, Additive, Apart
<1>2. CASE Next
  BY <1>2, RestSets, SessionSets, OtherSets DEF SetInv
<1> QED
  BY <1>1, <1>2

(***************************************************************************)
(* An edit for a range of runs that nobody disturbs leaves the runs outside*)
(* the range the values they had, in any table, with any number of sets in *)
(* the range and after it, and whatever is typed in.                       *)
(***************************************************************************)
THEOREM EditsKeepOthers == Spec => EditKeepsOtherRuns
<1> DEFINE Keeps ==
      \A s \in Sessions : SetAlone(s) =>
        \A n \in RunNumbers \ InRange(s) : web[s].was[n] # {} =>
          Values(Held(Governing(n)))' = web[s].was[n]
<1>1. Init => IInv /\ SetInv
  BY InitInv DEF Init, SetInv, SetState, InOrder, Sets, Idle
<1>2. IInv /\ SetInv /\ [Next]_vars => (IInv /\ SetInv)'
  BY StepInv, StepSets
<1>3. IInv /\ SetInv /\ [Next]_vars => [Keeps]_vars
  <2> SUFFICES ASSUME IInv, SetInv, Next PROVE Keeps
    OBVIOUS
  <2>0. IInv' => TypeOK'
    BY InvType, PTL
  <2> SUFFICES ASSUME NEW s \in Sessions, SetAlone(s),
                      NEW n \in RunNumbers \ InRange(s), web[s].was[n] # {}
               PROVE  Values(Held(Governing(n)))' = web[s].was[n]
    OBVIOUS
  <2>1. WebWrite(s)
    <3>1. web[s].writes # <<>> /\ web'[s].writes = <<>>
      BY DEF SetAlone
    <3>2. CASE WebNext(s)
      BY <3>1, <3>2, SessionSets
    <3>3. CASE \A t \in Sessions : WebNext(t) => t # s
      BY <3>1, <3>3, OtherSets
    <3> QED
      BY <3>2, <3>3
  <2>2. \A m \in OutOfRange(web[s]) : web[s].was[m] # {} =>
          ValuesFor(Copies(rows'), m) = web[s].was[m]
    BY <2>1, RestSets DEF SetInv, SetAlone, Sets
  <2>3. n \in OutOfRange(web[s])
    <3>1. web[s] \in Setting(nextId)
      <4>1. web[s].pc = "finish" /\ web[s].plan \in {"edit", "delete"} /\ web[s] \in WebStates(nextId)
        BY DEF SetAlone, IInv
      <4>2. \A P, N, F : web[s] \in Shown(P, N, F, nextId) => web[s].pc # "finish"
        BY DEF Shown
      <4>3. web[s] \in Finishing(nextId) => web[s].plan \notin {"edit", "delete"}
        BY DEF Finishing
      <4>4. web[s] # Idle
        BY <4>1 DEF Idle
      <4>5. /\ web[s] \notin Finishing(nextId)
            /\ \A P, N, F : web[s] \notin Shown(P, N, F, nextId)
        BY <4>1, <4>2, <4>3
      <4> QED
        BY <4>1, <4>4, <4>5 DEF WebStates
    <3>2. web[s].n \in Int /\ web[s].to \in Int /\ n \in Int
      BY <3>1, RunsAssumption DEF Setting, RunNumbers
    <3> QED
      BY <3>2 DEF InRange, OutOfRange
  <2>4. TypeOK' => ReadAsRows'
    BY ValuesReadAll, PTL
  <2>5. Values(Held(Governing(n)))' = ValuesFor(Copies(rows'), n)
    BY <2>0, <2>4, StepInv DEF ReadAsRows, ValuesFor, Governed, Copies
  <2> QED
    BY <2>2, <2>3, <2>5
<1> QED
  BY <1>1, <1>2, <1>3, PTL DEF Spec, EditKeepsOtherRuns
=============================================================================
