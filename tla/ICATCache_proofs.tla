-------------------------- MODULE ICATCache_proofs --------------------------
(***************************************************************************)
(* Theorems about ICATCache, for every set of users, browsers and pages,   *)
(* whatever ICAT may say, and for every lifetime and bound.  Rows and      *)
(* requests are copies of what ICAT said at some time: the argument is how *)
(* old a copy may be when it is taken from another.                        *)
(***************************************************************************)
EXTENDS ICATCache, TLAPS

(***************************************************************************)
(* What a request has at each of its places.                               *)
(***************************************************************************)
Places == {"idle", "look", "open", "query", "save", "cull", "user", "welcome", "done"}
Refreshing == {"open", "query", "save", "cull"}

Fields == {"pc", "page", "user", "start", "asks", "got", "connected", "old", "column", "says", "outcome", "super"}
IsRequest(q) == q = [x \in Fields |-> q[x]]

RequestTypes(q) ==
  /\ IsRequest(q) /\ q.pc \in Places /\ q.page \in Pages \cup {LogInPage} /\ q.start \in Nat
  /\ q.user \in Users \cup {NoUser} /\ q.asks \in Attributes \cup {"none"}
  /\ q.outcome \in {"none", "granted", "denied", "error"}
  /\ q.super \in BOOLEAN /\ q.connected \in BOOLEAN
  /\ q.pc # "idle" => q.user \in Users

\* The request of a log-in, and of a page.
LoggingIn(q) ==
  /\ q.asks \in {"admin", "scientist", "none"} /\ q.outcome = "none" /\ ~q.super
  /\ q.asks # "admin" => "admin" \in DOMAIN q.got

Opening(q) ==
  /\ q.asks \in {"owned", "valid", "associated", "details", "none"}
  /\ \/ /\ q.outcome = "none" /\ ~q.super /\ q.page.kind # "admin" /\ q.asks # "details"
        /\ q.asks # "owned" => "owned" \in DOMAIN q.got
     \/ q.outcome = "granted" /\ q.page.kind = "summary" /\ q.asks \in {"details", "none"}

\* The columns that a refresh has learned.
Learned(q) ==
  CASE q.pc \in {"look", "user", "welcome"} -> q.old = {} /\ DOMAIN q.says = {}
    [] q.pc = "open" -> q.column = FirstColumn(Subject(q)) /\ DOMAIN q.says = {}
    [] q.pc = "query" ->
         IF q.asks = "details" THEN q.column = "details" /\ DOMAIN q.says = {}
         ELSE \/ q.column = "owned" /\ DOMAIN q.says = {}
              \/ q.column = "admin" /\ DOMAIN q.says = {"owned"}
              \/ q.column = "associated" /\ DOMAIN q.says = {"owned", "admin"}
    [] q.pc \in {"save", "cull"} -> DOMAIN q.says = Columns(Subject(q))

Shape(q) ==
  /\ RequestTypes(q)
  /\ q.pc \notin {"idle", "done"} =>
       /\ IF q.page = LogInPage THEN LoggingIn(q) ELSE Opening(q)
       /\ q.pc \in {"user", "welcome"} => q.page = LogInPage /\ q.asks = "none"
       /\ q.pc \in Refreshing => q.asks # "none"
       /\ Learned(q)

ShapeInv == req = [b \in Browsers |-> req[b]] /\ \A b \in Browsers : Shape(req[b])

(***************************************************************************)
(* How old it may be: what is in a row, what a refresh has learned, what a *)
(* request has got, and the grounds of an answer that is due.              *)
(***************************************************************************)
Oldest(q) == q.start - (Lifetime - 1) - Patience

\* What history s says of a user at a time or later; a history may get longer.
Histories == [Users -> [Rights -> {Never} \cup Nat]]
Since(s, u, time) == {r \in Rights : s[u][r] # Never /\ s[u][r] >= time}
Grows(s, later) == \A u \in Users : \A r \in Rights :
                     s[u][r] # Never => later[u][r] # Never /\ later[u][r] >= s[u][r]

Grounds(s, q) ==
  LET Said == Since(s, q.user, Oldest(q)) IN
  /\ ~q.super /\ q.outcome = "granted" /\ q.page # LogInPage =>
       \E r \in Said : Owner(r, q.page) \/ OnTeam(r, q.page)
  /\ ~q.super /\ q.outcome = "denied" =>
       (\E r \in Said : ~Owner(r, q.page)) /\ (\E r \in Said : ~OnTeam(r, q.page))

GotRecent(s, q) ==
  \A a \in DOMAIN q.got \ {"details"} : \E r \in Since(s, q.user, Oldest(q)) : q.got[a] = Says(r, a)

SaysRecent(s, q) ==
  q.asks # "details" => \A c \in DOMAIN q.says : \E r \in Since(s, q.user, q.start) : q.says[c] = Says(r, c)

Recent(s, time, q) ==
  q.pc # "idle" =>
    /\ q.start <= time /\ time - q.start <= Patience
    /\ GotRecent(s, q) /\ SaysRecent(s, q) /\ Grounds(s, q)

RowRecent(s, time, row) ==
  /\ row.of \in Users \cup Experiments /\ row.created \in 0..time
  /\ DOMAIN row.says = Columns(row.of)
  /\ row.of \in Users =>
       \A c \in DOMAIN row.says : \E r \in Since(s, row.of, row.created - Patience) : row.says[c] = Says(r, c)

RecentInv ==
  /\ \A u \in Users : said[u][rights[u]] = now
  /\ \A i \in DOMAIN cache : RowRecent(said, now, cache[i])
  /\ \A b \in Browsers : Recent(said, now, req[b])

(***************************************************************************)
(* A request culls rows of what it has asked about, and older ones than    *)
(* one that is there.                                                      *)
(***************************************************************************)
OldRows(rows, next, q) ==
  q.pc \in Refreshing =>
    /\ q.old \subseteq 1..next - 1
    /\ \A o \in q.old \cap DOMAIN rows : rows[o].of = Subject(q)
    /\ q.pc = "cull" => \E k \in DOMAIN rows : rows[k].of = Subject(q) /\ \A o \in q.old : o < k

CullInv == \A b \in Browsers : OldRows(cache, nextId, req[b])

(***************************************************************************)
(* The flag of an administrator: of a user being logged in, and of one who *)
(* has been.  A request that saves it later began a Patience ago at most.  *)
(***************************************************************************)
FlagSince(s, flags, u, time) == flags[u] => \E r \in Since(s, u, time) : r.admin

SessionFlag(s, time, flags, ses) ==
  ses.user # NoUser =>
    time < ses.since + SessionAge /\ FlagSince(s, flags, ses.user, ses.since - (Lifetime - 1) - 3 * Patience)

Welcomed(s, flags, q) ==
  q.pc = "welcome" => FlagSince(s, flags, q.user, q.start - (Lifetime - 1) - 2 * Patience)

SuperRecent(s, q) ==
  q.pc # "idle" /\ q.super /\ q.outcome = "granted" =>
    \E r \in Since(s, q.user, q.start - (SessionAge - 1) - (Lifetime - 1) - 3 * Patience) : r.admin

FlagInv ==
  /\ \A b \in Browsers : SessionFlag(said, now, users, session[b])
  /\ \A b \in Browsers : Welcomed(said, users, req[b]) /\ SuperRecent(said, req[b])

IInv == TypeOK /\ ShapeInv /\ RecentInv /\ CullInv /\ FlagInv

-----------------------------------------------------------------------------
(***************************************************************************)
(* What each operation makes of a request.                                 *)
(***************************************************************************)
LEMMA PageKinds ==
  /\ LogInPage \notin Pages
  /\ \A p \in Pages :
       /\ p.kind \in {"instrument", "run", "experiment", "summary", "admin"}
       /\ p.kind \in {"experiment", "summary"} => p.of \in Experiments
       /\ p.kind = "instrument" => p.of \in Instruments
BY PagesAssumption DEF LogInPage

LEMMA AnsweredRequest ==
  ASSUME NEW q, NEW outcome
  PROVE  LET a == Answered(q, outcome) IN
         /\ IsRequest(a) /\ a.pc = "done" /\ a.page = q.page /\ a.user = q.user /\ a.start = q.start
         /\ a.super = q.super /\ a.outcome = outcome /\ a.asks = "none" /\ a.connected \in BOOLEAN
         /\ DOMAIN a.got = {} /\ DOMAIN a.says = {} /\ a.old = {}
<1> DEFINE a == Answered(q, outcome)
<1>1. IsRequest(a)
  BY DEF Answered, Idle, IsRequest, Fields
<1>2. /\ a.pc = "done" /\ a.page = q.page /\ a.user = q.user /\ a.start = q.start
      /\ a.super = q.super /\ a.outcome = outcome /\ a.asks = "none" /\ a.connected \in BOOLEAN
      /\ a.got = Nothing /\ a.says = Nothing /\ a.old = {}
  BY DEF Answered, Idle
<1>3. DOMAIN Nothing = {}
  BY DEF Nothing
<1> QED
  BY <1>1, <1>2, <1>3

LEMMA UsedRequest ==
  ASSUME NEW q, IsRequest(q), NEW says
  PROVE  LET a == Use(q, says) IN
         /\ IsRequest(a) /\ a.pc = "look" /\ a.page = q.page /\ a.user = q.user /\ a.start = q.start
         /\ a.super = q.super /\ a.outcome = q.outcome /\ a.connected = q.connected
         /\ a.asks = AttributeAfter(q.asks) /\ DOMAIN a.says = {} /\ a.old = {}
         /\ a.got = IF q.asks \in DOMAIN says THEN Put(q.got, q.asks, says[q.asks]) ELSE q.got
<1> DEFINE a == Use(q, says)
<1>1. IsRequest(a)
  BY DEF Use, IsRequest, Fields
<1>2. /\ a.pc = "look" /\ a.page = q.page /\ a.user = q.user /\ a.start = q.start
      /\ a.super = q.super /\ a.outcome = q.outcome /\ a.connected = q.connected
  BY DEF Use, IsRequest, Fields
<1>3. /\ a.asks = AttributeAfter(q.asks) /\ a.says = Nothing /\ a.old = {}
      /\ a.got = IF q.asks \in DOMAIN says THEN Put(q.got, q.asks, says[q.asks]) ELSE q.got
  BY DEF Use, IsRequest, Fields
<1>4. DOMAIN Nothing = {}
  BY DEF Nothing
<1> QED
  BY <1>1, <1>2, <1>3, <1>4

LEMMA NewRequest ==
  ASSUME NEW page, NEW u, NEW asks
  PROVE  LET a == Request(page, u, asks) IN
         /\ IsRequest(a) /\ a.pc = "look" /\ a.page = page /\ a.user = u /\ a.start = now
         /\ a.super \in BOOLEAN /\ ~a.super /\ a.outcome = "none" /\ a.connected \in BOOLEAN
         /\ a.asks = asks /\ DOMAIN a.says = {} /\ a.old = {} /\ DOMAIN a.got = {}
<1> DEFINE a == Request(page, u, asks)
<1>1. IsRequest(a)
  BY DEF Request, Idle, IsRequest, Fields
<1>2. /\ a.pc = "look" /\ a.page = page /\ a.user = u /\ a.start = now
      /\ a.super \in BOOLEAN /\ ~a.super /\ a.outcome = "none" /\ a.connected \in BOOLEAN
      /\ a.asks = asks /\ a.says = Nothing /\ a.old = {} /\ a.got = Nothing
  BY DEF Request, Idle
<1>3. DOMAIN Nothing = {}
  BY DEF Nothing
<1> QED
  BY <1>1, <1>2, <1>3

LEMMA GrantedRequest ==
  ASSUME NEW q, IsRequest(q)
  PROVE  LET a == Granted(q) IN
         /\ IsRequest(a) /\ a.page = q.page /\ a.user = q.user /\ a.start = q.start
         /\ a.super = q.super /\ a.outcome = "granted" /\ a.connected \in BOOLEAN
         /\ q.page.kind = "summary" =>
              /\ a.pc = q.pc /\ a.asks = "details" /\ a.got = q.got
              /\ a.says = q.says /\ a.old = q.old
         /\ q.page.kind # "summary" => a.pc = "done" /\ DOMAIN a.got = {} /\ DOMAIN a.says = {} /\ a.asks = "none"
<1> DEFINE a == [q EXCEPT !.outcome = "granted", !.asks = "details", !.connected = FALSE]
<1>1. CASE q.page.kind = "summary"
  <2>1. Granted(q) = a
    BY <1>1 DEF Granted
  <2>2. IsRequest(a)
    BY DEF IsRequest, Fields
  <2>3. /\ a.page = q.page /\ a.user = q.user /\ a.start = q.start
        /\ a.super = q.super /\ a.outcome = "granted" /\ a.connected \in BOOLEAN
        /\ a.pc = q.pc /\ a.asks = "details" /\ a.got = q.got /\ a.says = q.says /\ a.old = q.old
    BY DEF IsRequest, Fields
  <2> HIDE DEF a
  <2> QED
    BY <1>1, <2>1, <2>2, <2>3
<1>2. CASE q.page.kind # "summary"
  <2>1. Granted(q) = Answered(q, "granted")
    BY <1>2 DEF Granted
  <2> DEFINE d == Answered(q, "granted")
  <2>2. /\ IsRequest(d) /\ d.pc = "done" /\ d.page = q.page /\ d.user = q.user /\ d.start = q.start
        /\ d.super = q.super /\ d.outcome = "granted" /\ d.asks = "none" /\ d.connected \in BOOLEAN
        /\ DOMAIN d.got = {} /\ DOMAIN d.says = {}
    BY AnsweredRequest
  <2> HIDE DEF a, d
  <2>3. Granted(q) = d
    BY <2>1 DEF d
  <2> QED
    BY <1>2, <2>2, <2>3
<1> QED
  BY <1>1, <1>2

LEMMA OwnStep ==
  ASSUME ShapeInv, NEW b \in Browsers, NEW q, Go(b, q)
  PROVE  /\ req'[b] = q /\ \A c \in Browsers \ {b} : req'[c] = req[c]
         /\ req' = [c \in Browsers |-> req'[c]]
<1>1. req = [c \in Browsers |-> req[c]]
  BY DEF ShapeInv
<1>2. req' = [c \in Browsers |-> IF c = b THEN q ELSE req[c]]
  BY <1>1 DEF Go
<1> QED
  BY <1>2

\* A request that is over, with any outcome.
LEMMA AnsweredShape ==
  ASSUME NEW q, Shape(q), q.pc # "idle", NEW outcome \in {"none", "granted", "denied", "error"}
  PROVE  Shape(Answered(q, outcome))
<1> DEFINE d == Answered(q, outcome)
<1>1. /\ IsRequest(d) /\ d.pc = "done" /\ d.page = q.page /\ d.user = q.user /\ d.start = q.start
      /\ d.super = q.super /\ d.outcome = outcome /\ d.asks = "none" /\ d.connected \in BOOLEAN
  BY AnsweredRequest
<1> HIDE DEF d
<1>2. RequestTypes(d)
  BY <1>1 DEF Shape, RequestTypes, Places
<1>3. Shape(d)
  BY <1>1, <1>2 DEF Shape
<1> QED
  BY <1>3 DEF d

LEMMA RaisedShape ==
  ASSUME NEW q, Shape(q), q.pc # "idle"
  PROVE  Shape(Raised(q))
<1>1. CASE q.outcome = "granted"
  BY <1>1, AnsweredShape DEF Raised
<1>2. CASE q.outcome # "granted"
  BY <1>2, AnsweredShape DEF Raised
<1> QED
  BY <1>1, <1>2

LEMMA SubjectKnown ==
  ASSUME NEW q, Shape(q), q.pc \notin {"idle", "done"}
  PROVE  /\ q.asks = "details" => Subject(q) = q.page.of /\ Subject(q) \in Experiments /\ Subject(q) \notin Users
         /\ q.asks # "details" => Subject(q) = q.user /\ Subject(q) \in Users
<1>1. q.asks = "details" => q.page \in Pages /\ q.page.kind = "summary"
  BY DEF Shape, RequestTypes, LoggingIn, Opening
<1>2. q.user \in Users
  BY DEF Shape, RequestTypes
<1> QED
  BY <1>1, <1>2, PageKinds, UsersAssumption DEF Subject

\* What has been asked for is got, when the row has it.
LEMMA UsedShape ==
  ASSUME NEW q, Shape(q), q.pc \notin {"idle", "done", "user", "welcome"}, q.asks # "none",
         NEW says, DOMAIN says = Columns(Subject(q))
  PROVE  Shape(Use(q, says))
<1> DEFINE a == Use(q, says)
<1>1. /\ IsRequest(a) /\ a.pc = "look" /\ a.page = q.page /\ a.user = q.user /\ a.start = q.start
      /\ a.super = q.super /\ a.outcome = q.outcome /\ a.connected = q.connected
      /\ a.asks = AttributeAfter(q.asks) /\ DOMAIN a.says = {} /\ a.old = {}
      /\ a.got = IF q.asks \in DOMAIN says THEN Put(q.got, q.asks, says[q.asks]) ELSE q.got
  <2>1. IsRequest(q)
    BY DEF Shape, RequestTypes
  <2> QED
    BY <2>1, UsedRequest
<1>2. DOMAIN a.got = IF q.asks \in DOMAIN says THEN DOMAIN q.got \cup {q.asks} ELSE DOMAIN q.got
  <2>1. DOMAIN Put(q.got, q.asks, says[q.asks]) = DOMAIN q.got \cup {q.asks}
    BY DEF Put
  <2> HIDE DEF a
  <2> QED
    BY <1>1, <2>1
<1>3. /\ q.asks # "details" => {"owned", "admin", "associated"} \subseteq DOMAIN says
      /\ q.asks = "details" => a.asks = "none"
      /\ AttributeAfter(q.asks) \in {"valid", "scientist", "none"}
      /\ AttributeAfter(q.asks) = "valid" => q.asks = "owned"
      /\ AttributeAfter(q.asks) = "scientist" => q.asks = "admin"
  BY <1>1, SubjectKnown DEF Columns, AttributeAfter
<1> SUFFICES Shape(a)
  OBVIOUS
<1> HIDE DEF a
<1>4. RequestTypes(a)
  BY <1>1, <1>3 DEF Shape, RequestTypes, Attributes, Places
<1>7. Learned(a)
  BY <1>1 DEF Learned
<1>5. CASE q.page = LogInPage
  <2>1. LoggingIn(q)
    BY <1>5 DEF Shape
  <2>2. LoggingIn(a)
    BY <1>1, <1>2, <1>3, <2>1 DEF LoggingIn, AttributeAfter
  <2> QED
    BY <1>1, <1>4, <1>5, <1>7, <2>2 DEF Shape, Refreshing
<1>6. CASE q.page # LogInPage
  <2>1. Opening(q)
    BY <1>6 DEF Shape
  <2>2. a.asks \in {"valid", "none"}
    BY <1>1, <1>3, <2>1 DEF Opening, AttributeAfter
  <2>3. Opening(a)
    BY <1>1, <1>2, <1>3, <2>1, <2>2 DEF Opening
  <2> QED
    BY <1>1, <1>4, <1>6, <1>7, <2>3 DEF Shape, Refreshing
<1> QED
  BY <1>5, <1>6

\* A request to the cache or to ICAT begins, or goes on, with the fields it changes.
LEMMA FirstColumnShape ==
  ASSUME NEW q, Shape(q), q.pc = "look", q.asks # "none", NEW I \in SUBSET Nat, NEW pc \in {"open", "query"}
  PROVE  Shape([q EXCEPT !.pc = pc, !.old = I, !.column = FirstColumn(Subject(q))])
<1> DEFINE a == [q EXCEPT !.pc = pc, !.old = I, !.column = FirstColumn(Subject(q))]
<1>1. IsRequest(q)
  BY DEF Shape, RequestTypes
<1>2. IsRequest(a)
  BY <1>1 DEF IsRequest, Fields
<1>3. /\ a.pc = pc /\ a.page = q.page /\ a.user = q.user /\ a.start = q.start /\ a.asks = q.asks
      /\ a.got = q.got /\ a.says = q.says /\ a.column = FirstColumn(Subject(q))
  BY <1>1 DEF IsRequest, Fields
<1>4. a.super = q.super /\ a.outcome = q.outcome /\ a.connected = q.connected
  BY <1>1 DEF IsRequest, Fields
<1> SUFFICES Shape(a)
  OBVIOUS
<1> HIDE DEF a
<1>5. RequestTypes(a)
  BY <1>2, <1>3, <1>4 DEF Shape, RequestTypes, Places
<1>6. Subject(a) = Subject(q)
  BY <1>3 DEF Subject
<1>7. DOMAIN q.says = {}
  BY DEF Shape, Learned
<1>8. FirstColumn(Subject(q)) = IF q.asks = "details" THEN "details" ELSE "owned"
  BY SubjectKnown DEF FirstColumn
<1>9. Learned(a)
  BY <1>3, <1>6, <1>7, <1>8 DEF Learned
<1>10. IF a.page = LogInPage THEN LoggingIn(a) ELSE Opening(a)
  BY <1>3, <1>4 DEF Shape, LoggingIn, Opening
<1> QED
  BY <1>3, <1>5, <1>9, <1>10 DEF Shape, Refreshing

LEMMA ConnectedShape ==
  ASSUME NEW q, Shape(q), q.pc = "open"
  PROVE  Shape([q EXCEPT !.pc = "query", !.connected = TRUE])
<1> DEFINE a == [q EXCEPT !.pc = "query", !.connected = TRUE]
<1>1. IsRequest(q)
  BY DEF Shape, RequestTypes
<1>2. IsRequest(a)
  BY <1>1 DEF IsRequest, Fields
<1>3. /\ a.pc = "query" /\ a.page = q.page /\ a.user = q.user /\ a.start = q.start /\ a.asks = q.asks
      /\ a.got = q.got /\ a.says = q.says /\ a.column = q.column
  BY <1>1 DEF IsRequest, Fields
<1>4. a.super = q.super /\ a.outcome = q.outcome /\ a.connected \in BOOLEAN
  BY <1>1 DEF IsRequest, Fields
<1> SUFFICES Shape(a)
  OBVIOUS
<1> HIDE DEF a
<1>5. RequestTypes(a)
  BY <1>2, <1>3, <1>4 DEF Shape, RequestTypes, Places
<1>6. q.column = FirstColumn(Subject(q)) /\ DOMAIN q.says = {} /\ q.asks # "none"
  BY DEF Shape, Learned, Refreshing
<1>7. FirstColumn(Subject(q)) = IF q.asks = "details" THEN "details" ELSE "owned"
  BY SubjectKnown DEF FirstColumn
<1>8. Learned(a)
  BY <1>3, <1>6, <1>7 DEF Learned
<1>9. IF a.page = LogInPage THEN LoggingIn(a) ELSE Opening(a)
  BY <1>3, <1>4 DEF Shape, LoggingIn, Opening
<1> QED
  BY <1>3, <1>5, <1>6, <1>8, <1>9 DEF Shape, Refreshing

LEMMA LearnedShape ==
  ASSUME NEW q, Shape(q), q.pc = "query", NEW value,
         NEW pc, pc = IF ColumnAfter(q.column) = "none" THEN "save" ELSE "query"
  PROVE  Shape([q EXCEPT !.pc = pc, !.column = ColumnAfter(@), !.says = Put(@, q.column, value)])
<1> DEFINE a == [q EXCEPT !.pc = pc, !.column = ColumnAfter(@), !.says = Put(@, q.column, value)]
<1>1. IsRequest(q)
  BY DEF Shape, RequestTypes
<1>2. IsRequest(a)
  BY <1>1 DEF IsRequest, Fields
<1>3. /\ a.pc = pc /\ a.page = q.page /\ a.user = q.user /\ a.start = q.start /\ a.asks = q.asks
      /\ a.got = q.got /\ a.says = Put(q.says, q.column, value) /\ a.column = ColumnAfter(q.column)
  BY <1>1 DEF IsRequest, Fields
<1>4. a.super = q.super /\ a.outcome = q.outcome /\ a.connected = q.connected
  BY <1>1 DEF IsRequest, Fields
<1> SUFFICES Shape(a)
  OBVIOUS
<1> HIDE DEF a
<1>5. pc \in {"save", "query"}
  OBVIOUS
<1>6. RequestTypes(a)
  BY <1>2, <1>3, <1>4, <1>5 DEF Shape, RequestTypes, Places
<1>7. q.asks # "none"
  BY DEF Shape, Refreshing
<1>8. Subject(a) = Subject(q)
  BY <1>3 DEF Subject
<1>9. DOMAIN Put(q.says, q.column, value) = DOMAIN q.says \cup {q.column}
  BY DEF Put
<1>10. DOMAIN a.says = DOMAIN q.says \cup {q.column}
  BY <1>3, <1>9
<1>11. Learned(q)
  BY DEF Shape
<1>12. Learned(a)
  <2>1. CASE q.asks = "details"
    <3>1. q.column = "details" /\ DOMAIN q.says = {} /\ Columns(Subject(q)) = {"details"}
      BY <1>11, <2>1, SubjectKnown DEF Learned, Columns
    <3>2. pc = "save"
      BY <3>1 DEF ColumnAfter
    <3> QED
      BY <1>3, <1>8, <1>10, <3>1, <3>2 DEF Learned
  <2>2. CASE q.asks # "details"
    <3>1. Columns(Subject(q)) = {"owned", "admin", "associated"}
      BY <2>2, SubjectKnown DEF Columns
    <3>2. CASE q.column = "owned"
      <4>1. DOMAIN q.says = {}
        BY <1>11, <2>2, <3>2 DEF Learned
      <4> QED
        BY <1>3, <1>10, <2>2, <3>2, <4>1 DEF Learned, ColumnAfter
    <3>3. CASE q.column = "admin"
      <4>1. DOMAIN q.says = {"owned"}
        BY <1>11, <2>2, <3>3 DEF Learned
      <4> QED
        BY <1>3, <1>10, <2>2, <3>3, <4>1 DEF Learned, ColumnAfter
    <3>4. CASE q.column = "associated"
      <4>1. DOMAIN q.says = {"owned", "admin"}
        BY <1>11, <2>2, <3>4 DEF Learned
      <4>2. pc = "save"
        BY <3>4 DEF ColumnAfter
      <4> QED
        BY <1>3, <1>8, <1>10, <3>1, <3>4, <4>1, <4>2 DEF Learned
    <3> QED
      BY <1>11, <2>2, <3>2, <3>3, <3>4 DEF Learned
  <2> QED
    BY <2>1, <2>2
<1>13. IF a.page = LogInPage THEN LoggingIn(a) ELSE Opening(a)
  BY <1>3, <1>4 DEF Shape, LoggingIn, Opening
<1> QED
  BY <1>3, <1>5, <1>6, <1>7, <1>12, <1>13 DEF Shape, Refreshing

LEMMA GrantedShape ==
  ASSUME NEW q, RequestTypes(q), q.pc = "look", q.page \in Pages, q.old = {}, DOMAIN q.says = {}
  PROVE  Shape(Granted(q))
<1> DEFINE a == Granted(q)
<1>1. IsRequest(q)
  BY DEF RequestTypes
<1>2. /\ IsRequest(a) /\ a.page = q.page /\ a.user = q.user /\ a.start = q.start
      /\ a.super = q.super /\ a.outcome = "granted" /\ a.connected \in BOOLEAN
      /\ q.page.kind = "summary" =>
           a.pc = q.pc /\ a.asks = "details" /\ a.got = q.got /\ a.says = q.says /\ a.old = q.old
      /\ q.page.kind # "summary" => a.pc = "done" /\ a.asks = "none"
  BY <1>1, GrantedRequest
<1> SUFFICES Shape(a)
  OBVIOUS
<1> HIDE DEF a
<1>3. RequestTypes(a)
  BY <1>2 DEF RequestTypes, Places, Attributes
<1>4. CASE q.page.kind = "summary"
  <2>1. Learned(a)
    BY <1>2, <1>4 DEF Learned
  <2>2. a.page # LogInPage /\ Opening(a)
    BY <1>2, <1>4, PageKinds DEF Opening
  <2> QED
    BY <1>2, <1>3, <1>4, <2>1, <2>2 DEF Shape, Refreshing
<1>5. CASE q.page.kind # "summary"
  BY <1>2, <1>3, <1>5 DEF Shape
<1> QED
  BY <1>4, <1>5

LEMMA CheckedShape ==
  ASSUME NEW q, Shape(q), q.pc = "look", q.asks = "none", q.page # LogInPage
  PROVE  Shape(Checked(q)) /\ Checked(q).user = q.user
<1>1. /\ q.old = {} /\ DOMAIN q.says = {} /\ RequestTypes(q) /\ q.page \in Pages /\ IsRequest(q)
      /\ Opening(q)
  BY DEF Shape, Learned, RequestTypes
<1>2. Shape(Granted(q)) /\ Granted(q).user = q.user
  BY <1>1, GrantedShape, GrantedRequest
<1>3. \A o \in {"granted", "denied", "error"} : Shape(Answered(q, o)) /\ Answered(q, o).user = q.user
  BY AnsweredShape, AnsweredRequest
<1>4. Raised(q) \in {Answered(q, "granted"), Answered(q, "error")}
  BY DEF Raised
<1> DEFINE a == [q EXCEPT !.asks = "associated"]
<1>5. q.outcome = "none" => Shape(a) /\ a.user = q.user
  <2> SUFFICES ASSUME q.outcome = "none" PROVE Shape(a) /\ a.user = q.user
    OBVIOUS
  <2>1. IsRequest(a)
    BY <1>1 DEF IsRequest, Fields
  <2>2. /\ a.pc = q.pc /\ a.page = q.page /\ a.user = q.user /\ a.start = q.start /\ a.asks = "associated"
        /\ a.got = q.got /\ a.says = q.says /\ a.old = q.old
    BY <1>1 DEF IsRequest, Fields
  <2>3. a.super = q.super /\ a.outcome = q.outcome /\ a.connected = q.connected
    BY <1>1 DEF IsRequest, Fields
  <2> HIDE DEF a
  <2>4. RequestTypes(a)
    BY <1>1, <2>1, <2>2, <2>3 DEF RequestTypes, Attributes
  <2>5. Opening(a)
    BY <1>1, <2>2, <2>3 DEF Opening
  <2>6. Learned(a)
    BY <1>1, <2>2 DEF Learned
  <2> QED
    BY <2>2, <2>4, <2>5, <2>6 DEF Shape, Refreshing
<1> HIDE DEF a
<1>6. CASE q.outcome = "granted"
  BY <1>3, <1>6 DEF Checked
<1>7. CASE q.outcome = "none"
  <2>1. q.page.kind \in {"instrument", "run", "experiment", "summary"}
    BY <1>1, <1>7, PageKinds DEF Opening
  <2>2. CASE q.page.kind = "run"
    <3>1. Checked(q) = Raised(q)
      BY <1>7, <2>2 DEF Checked
    <3> QED
      BY <1>3, <1>4, <3>1
  <2>3. CASE q.page.kind = "instrument"
    <3>1. Checked(q) = CheckInstrument(q)
      BY <1>7, <2>3 DEF Checked
    <3> QED
      BY <1>2, <1>3, <3>1 DEF CheckInstrument
  <2>4. CASE q.page.kind \in {"experiment", "summary"}
    <3>1. Checked(q) = CheckExperiment(q)
      BY <1>7, <2>4 DEF Checked
    <3>2. CheckExperiment(q) \in {Granted(q), a, Raised(q), Answered(q, "denied")}
      BY DEF CheckExperiment, a
    <3> QED
      BY <1>2, <1>3, <1>4, <1>5, <1>7, <3>1, <3>2
  <2> QED
    BY <2>1, <2>2, <2>3, <2>4
<1> QED
  BY <1>1, <1>6, <1>7 DEF Opening

LEMMA MovedShape ==
  ASSUME NEW q, Shape(q), q.pc \in {"look", "user", "save"}, NEW pc,
         \/ q.pc = "look" /\ pc = "user" /\ q.page = LogInPage /\ q.asks = "none"
         \/ q.pc = "user" /\ pc = "welcome"
         \/ q.pc = "save" /\ pc = "cull"
  PROVE  Shape([q EXCEPT !.pc = pc])
<1> DEFINE a == [q EXCEPT !.pc = pc]
<1>1. IsRequest(q)
  BY DEF Shape, RequestTypes
<1>2. IsRequest(a)
  BY <1>1 DEF IsRequest, Fields
<1>3. /\ a.pc = pc /\ a.page = q.page /\ a.user = q.user /\ a.start = q.start /\ a.asks = q.asks
      /\ a.got = q.got /\ a.says = q.says /\ a.old = q.old
  BY <1>1 DEF IsRequest, Fields
<1>4. a.super = q.super /\ a.outcome = q.outcome /\ a.connected = q.connected
  BY <1>1 DEF IsRequest, Fields
<1> SUFFICES Shape(a)
  OBVIOUS
<1> HIDE DEF a
<1>5. RequestTypes(a)
  BY <1>2, <1>3, <1>4 DEF Shape, RequestTypes, Places
<1>6. IF a.page = LogInPage THEN LoggingIn(a) ELSE Opening(a)
  BY <1>3, <1>4 DEF Shape, LoggingIn, Opening
<1>7. CASE q.pc = "save"
  <2>1. Subject(a) = Subject(q) /\ DOMAIN q.says = Columns(Subject(q))
    BY <1>3, <1>7 DEF Subject, Shape, Learned
  <2>2. Learned(a)
    BY <1>3, <1>7, <2>1 DEF Learned
  <2> QED
    BY <1>3, <1>5, <1>6, <1>7, <2>2 DEF Shape, Refreshing
<1>8. CASE q.pc # "save"
  <2>1. q.old = {} /\ DOMAIN q.says = {}
    BY <1>8 DEF Shape, Learned
  <2>2. Learned(a)
    BY <1>3, <1>8, <2>1 DEF Learned
  <2>3. q.page = LogInPage /\ q.asks = "none"
    BY <1>8 DEF Shape
  <2> QED
    BY <1>3, <1>5, <1>6, <1>8, <2>2, <2>3 DEF Shape, Refreshing
<1> QED
  BY <1>7, <1>8

LEMMA IdleShape == Shape(Idle) /\ Idle.pc = "idle"
<1>1. IsRequest(Idle)
  BY DEF Idle, IsRequest, Fields
<1>2. /\ Idle.pc = "idle" /\ Idle.page = LogInPage /\ Idle.user = NoUser /\ Idle.start = 0
      /\ Idle.asks = "none" /\ Idle.outcome = "none"
  BY DEF Idle
<1>3. Idle.super \in BOOLEAN /\ Idle.connected \in BOOLEAN
  BY DEF Idle
<1> QED
  BY <1>1, <1>2, <1>3 DEF Shape, RequestTypes, Places

LEMMA LogInShape ==
  ASSUME NEW u \in Users, now \in Nat
  PROVE  Shape(Request(LogInPage, u, "admin"))
<1> DEFINE a == Request(LogInPage, u, "admin")
<1>1. /\ IsRequest(a) /\ a.pc = "look" /\ a.page = LogInPage /\ a.user = u /\ a.start = now
      /\ a.super \in BOOLEAN /\ ~a.super /\ a.outcome = "none" /\ a.connected \in BOOLEAN
      /\ a.asks = "admin" /\ DOMAIN a.says = {} /\ a.old = {}
  BY NewRequest
<1> SUFFICES Shape(a)
  OBVIOUS
<1> HIDE DEF a
<1>2. RequestTypes(a)
  BY <1>1 DEF RequestTypes, Places, Attributes
<1>3. Learned(a)
  BY <1>1 DEF Learned
<1> QED
  BY <1>1, <1>2, <1>3 DEF Shape, LoggingIn, Refreshing

\* What is opened: granted to a superuser, denied to others when it is for administrators.
Opened(u, page) ==
  [Request(page, u, "owned") EXCEPT !.super = users[u] \/ page.kind = "admin"]

LEMMA OpenedRequest ==
  ASSUME NEW u \in Users, NEW page \in Pages, now \in Nat, users \in [Users -> BOOLEAN]
  PROVE  LET a == Opened(u, page) IN
         /\ RequestTypes(a) /\ a.pc = "look" /\ a.page = page /\ a.user = u /\ a.start = now
         /\ a.super = (users[u] \/ page.kind = "admin") /\ a.outcome = "none"
         /\ a.asks = "owned" /\ DOMAIN a.says = {} /\ a.old = {} /\ DOMAIN a.got = {}
<1> DEFINE q == Request(page, u, "owned")
<1>1. /\ IsRequest(q) /\ q.pc = "look" /\ q.page = page /\ q.user = u /\ q.start = now
      /\ q.outcome = "none" /\ q.connected \in BOOLEAN
      /\ q.asks = "owned" /\ DOMAIN q.says = {} /\ q.old = {} /\ DOMAIN q.got = {}
  BY NewRequest
<1> HIDE DEF q
<1> DEFINE super == users[u] \/ page.kind = "admin"
<1>2. super \in BOOLEAN
  OBVIOUS
<1> HIDE DEF super
<1> DEFINE a == [q EXCEPT !.super = super]
<1>3. IsRequest(a)
  BY <1>1 DEF IsRequest, Fields
<1>4. /\ a.pc = q.pc /\ a.page = q.page /\ a.user = q.user /\ a.start = q.start /\ a.asks = q.asks
      /\ a.got = q.got /\ a.says = q.says /\ a.old = q.old /\ a.outcome = q.outcome
  BY <1>1 DEF IsRequest, Fields
<1>5. a.super = super /\ a.connected = q.connected
  BY <1>1 DEF IsRequest, Fields
<1>6. Opened(u, page) = a
  BY DEF Opened, super, q
<1> HIDE DEF a
<1>7. RequestTypes(a)
  BY <1>1, <1>2, <1>3, <1>4, <1>5 DEF RequestTypes, Places, Attributes
<1>8. a.super = (users[u] \/ page.kind = "admin")
  BY <1>5 DEF super
<1> QED
  BY <1>1, <1>4, <1>6, <1>7, <1>8

-----------------------------------------------------------------------------
(***************************************************************************)
(* Each step leaves each request in its shape.                             *)
(***************************************************************************)
LEMMA OwnShape ==
  ASSUME ShapeInv, NEW b \in Browsers, NEW q, Go(b, q), Shape(q)
  PROVE  ShapeInv'
<1>1. req'[b] = q /\ (\A c \in Browsers \ {b} : req'[c] = req[c]) /\ req' = [c \in Browsers |-> req'[c]]
  BY OwnStep
<1>2. \A c \in Browsers : Shape(req'[c])
  BY <1>1 DEF ShapeInv
<1> QED
  BY <1>1, <1>2 DEF ShapeInv, Shape, RequestTypes, IsRequest, LoggingIn, Opening, Learned, Subject,
     FirstColumn, Columns, Refreshing, Places, Fields, Attributes, LogInPage

LEMMA SameShape ==
  ASSUME ShapeInv, req' = req
  PROVE  ShapeInv'
<1>1. \A c \in Browsers : Shape(req'[c])
  BY DEF ShapeInv
<1>2. req' = [c \in Browsers |-> req'[c]]
  BY DEF ShapeInv
<1> QED
  BY <1>1, <1>2 DEF ShapeInv, Shape, RequestTypes, IsRequest, LoggingIn, Opening, Learned, Subject,
     FirstColumn, Columns, Refreshing, Places, Fields, Attributes, LogInPage

LEMMA RequestShape ==
  ASSUME TypeOK, ShapeInv, NEW b \in Browsers,
         \/ \E u \in Users : Index(b, u)
         \/ \E page \in Pages : OpenPage(b, page)
         \/ Logout(b) \/ Respond(b) \/ Kill(b)
  PROVE  ShapeInv'
<1>1. now \in Nat /\ users \in [Users -> BOOLEAN] /\ session[b].user \in Users \cup {NoUser}
  BY TimeAssumption DEF TypeOK
<1>2. ASSUME NEW u \in Users, Index(b, u) PROVE ShapeInv'
  BY <1>1, <1>2, LogInShape, OwnShape DEF Index
<1>3. ASSUME NEW page \in Pages, OpenPage(b, page) PROVE ShapeInv'
  <2> DEFINE u == session[b].user
             q == Opened(u, page)
  <2>1. u \in Users
    BY <1>1, <1>3 DEF OpenPage, has_valid_login
  <2>2. /\ RequestTypes(q) /\ q.pc = "look" /\ q.page = page /\ q.user = u /\ q.start = now
        /\ q.super = (users[u] \/ page.kind = "admin") /\ q.outcome = "none"
        /\ q.asks = "owned" /\ DOMAIN q.says = {} /\ q.old = {}
    BY <1>1, <2>1, OpenedRequest
  <2>3. Go(b, IF users[u] THEN Granted(q)
              ELSE IF page.kind = "admin" THEN Answered(q, "denied") ELSE q)
    BY <1>3 DEF OpenPage, Opened
  <2> HIDE DEF q
  <2>4. CASE users[u]
    BY <2>2, <2>3, <2>4, GrantedShape, OwnShape
  <2>5. CASE ~users[u] /\ page.kind = "admin"
    <3> DEFINE d == Answered(q, "denied")
    <3>1. /\ IsRequest(d) /\ d.pc = "done" /\ d.page = q.page /\ d.user = q.user /\ d.start = q.start
          /\ d.super = q.super /\ d.outcome = "denied" /\ d.asks = "none" /\ d.connected \in BOOLEAN
      BY AnsweredRequest
    <3>2. Go(b, d)
      BY <2>3, <2>5
    <3> HIDE DEF d
    <3>3. RequestTypes(d)
      BY <2>2, <3>1 DEF RequestTypes, Places
    <3>4. Shape(d)
      BY <3>1, <3>3 DEF Shape
    <3> QED
      BY <3>2, <3>4, OwnShape
  <2>6. CASE ~users[u] /\ page.kind # "admin"
    <3>1. Learned(q) /\ Opening(q)
      BY <2>2, <2>6 DEF Learned, Opening
    <3>2. Shape(q)
      BY <2>2, <3>1, PageKinds DEF Shape, Refreshing
    <3> QED
      BY <2>3, <2>6, <3>2, OwnShape
  <2> QED
    BY <2>4, <2>5, <2>6
<1>4. CASE Respond(b) \/ Kill(b)
  BY <1>4, IdleShape, OwnShape DEF Respond, Kill
<1>5. CASE Logout(b)
  <2>1. req' = req
    BY <1>5 DEF Logout
  <2> QED
    BY <2>1, SameShape
<1> QED
  BY <1>2, <1>3, <1>4, <1>5

LEMMA CacheShape ==
  ASSUME TypeOK, ShapeInv, NEW b \in Browsers,
         LookUp(b) \/ open_icat(b) \/ Query(b) \/ update_cache(b) \/ cull_invalid(b)
  PROVE  ShapeInv'
<1> DEFINE q == req[b]
<1>1. Shape(q) /\ q.pc \in Places
  BY DEF ShapeInv, Shape, RequestTypes
<1>2. CASE LookUp(b)
  <2>1. q.pc = "look" /\ q.asks # "none"
    BY <1>2 DEF LookUp, At
  <2>2. CASE \E i \in Newest(Rows(Subject(q))) : is_valid(cache[i].created) /\ Go(b, Use(q, cache[i].says))
    <3>1. PICK i \in Newest(Rows(Subject(q))) : Go(b, Use(q, cache[i].says))
      BY <2>2
    <3>2. DOMAIN cache[i].says = Columns(Subject(q))
      BY <3>1 DEF Newest, Rows, TypeOK
    <3>3. Shape(Use(q, cache[i].says))
      BY <1>1, <2>1, <3>2, UsedShape, SMTT(30)
    <3> QED
      BY <3>1, <3>3, OwnShape
  <2>3. CASE Go(b, [q EXCEPT !.pc = IF q.connected THEN "query" ELSE "open", !.old = Rows(Subject(q)),
                             !.column = FirstColumn(Subject(q))])
    <3>1. Rows(Subject(q)) \in SUBSET Nat
      BY DEF Rows, TypeOK
    <3> QED
      BY <1>1, <2>1, <2>3, <3>1, FirstColumnShape, OwnShape
  <2> QED
    BY <1>2, <2>2, <2>3 DEF LookUp
<1>3. CASE open_icat(b)
  <2>1. q.pc = "open"
    BY <1>3 DEF open_icat, At
  <2>2. CASE reachable
    BY <1>1, <1>3, <2>1, <2>2, ConnectedShape, OwnShape DEF open_icat
  <2>3. CASE ~reachable
    BY <1>1, <1>3, <2>1, <2>3, RaisedShape, OwnShape DEF open_icat
  <2> QED
    BY <2>2, <2>3
<1>4. CASE Query(b)
  <2>1. q.pc = "query"
    BY <1>4 DEF Query, At
  <2> DEFINE learned(value) ==
               [q EXCEPT !.pc = IF ColumnAfter(q.column) = "none" THEN "save" ELSE "query",
                         !.column = ColumnAfter(@), !.says = Put(@, q.column, value)]
  <2>2. ASSUME NEW value PROVE Shape(learned(value))
    BY <1>1, <2>1, LearnedShape
  <2>3. Shape(Raised(q))
    BY <1>1, <2>1, RaisedShape
  <2>4. \/ Go(b, learned(IF reachable THEN "known" ELSE "N/A"))
        \/ Go(b, learned(Says(rights[q.user], q.column)))
        \/ Go(b, Raised(q))
    BY <1>4 DEF Query
  <2> HIDE DEF learned
  <2>5. ASSUME NEW value, Go(b, learned(value)) PROVE ShapeInv'
    BY <2>2, <2>5, OwnShape
  <2>6. CASE Go(b, Raised(q))
    BY <2>3, <2>6, OwnShape
  <2> QED
    BY <2>4, <2>5, <2>6
<1>5. CASE update_cache(b)
  BY <1>1, <1>5, MovedShape, OwnShape DEF update_cache, At
<1>6. CASE cull_invalid(b)
  <2>1. q.pc = "cull"
    BY <1>6 DEF cull_invalid, At
  <2>2. q.asks # "none" /\ DOMAIN q.says = Columns(Subject(q))
    BY <1>1, <2>1 DEF Shape, Refreshing, Learned
  <2> QED
    BY <1>1, <1>6, <2>1, <2>2, UsedShape, OwnShape DEF cull_invalid
<1> QED
  BY <1>2, <1>3, <1>4, <1>5, <1>6

LEMMA AnswerShape ==
  ASSUME ShapeInv, NEW b \in Browsers,
         Permissions(b) \/ SaveUser(b) \/ LogIn(b) \/ check_permissions(b)
  PROVE  ShapeInv'
<1> DEFINE q == req[b]
<1>1. Shape(q)
  BY DEF ShapeInv
<1>2. CASE Permissions(b)
  <2>1. q.pc = "look" /\ q.asks = "none" /\ q.page = LogInPage
    BY <1>2 DEF Permissions, AtEnd, At
  <2>2. Shape(Raised(q)) /\ Shape([q EXCEPT !.pc = "user"])
    BY <1>1, <2>1, RaisedShape, MovedShape
  <2>3. Go(b, Raised(q)) \/ Go(b, [q EXCEPT !.pc = "user"])
    BY <1>2 DEF Permissions, Closed
  <2> QED
    BY <2>2, <2>3, OwnShape
<1>3. CASE SaveUser(b)
  BY <1>1, <1>3, MovedShape, OwnShape DEF SaveUser, At
<1>4. CASE LogIn(b)
  BY <1>1, <1>4, AnsweredShape, OwnShape DEF LogIn, At
<1>5. CASE check_permissions(b)
  <2>1. q.pc = "look" /\ q.asks = "none" /\ q.page # LogInPage
    BY <1>5 DEF check_permissions, AtEnd, At
  <2>2. Shape(Raised(q)) /\ Shape(Checked(q))
    BY <1>1, <2>1, RaisedShape, CheckedShape
  <2>3. Go(b, Raised(q)) \/ Go(b, Checked(q))
    BY <1>5 DEF check_permissions, Closed
  <2> QED
    BY <2>2, <2>3, OwnShape
<1> QED
  BY <1>2, <1>3, <1>4, <1>5

LEMMA ShapeStep ==
  ASSUME TypeOK, ShapeInv, [Next]_vars
  PROVE  ShapeInv'
<1>1. CASE req' = req
  BY <1>1, SameShape
<1>2. ASSUME NEW b \in Browsers, Serve(b) PROVE ShapeInv'
  BY <1>2, RequestShape, CacheShape, AnswerShape DEF Serve
<1>3. \/ req' = req
      \/ \E b \in Browsers : Serve(b)
  <2>1. UNCHANGED vars => req' = req
    BY DEF vars
  <2>2. ASSUME NEW u, NEW r, ChangeRights(u, r) PROVE req' = req
    BY <2>2 DEF ChangeRights
  <2>3. Fail \/ Return \/ Tick => req' = req
    BY DEF Fail, Return, Tick
  <2> QED
    BY <2>1, <2>2, <2>3 DEF Next
<1> QED
  BY <1>1, <1>2, <1>3

-----------------------------------------------------------------------------
(***************************************************************************)
(* What ICAT has said of a user it has said ever after.                    *)
(***************************************************************************)
LEMMA TypeFacts ==
  ASSUME TypeOK
  PROVE  /\ now \in Nat /\ said \in Histories /\ rights \in [Users -> Rights]
         /\ \A u \in Users, r \in Rights : said[u][r] # Never => said[u][r] \in 0..now
<1>1. now \in Nat
  BY TimeAssumption DEF TypeOK
<1>2. 0..now \subseteq Nat
  OBVIOUS
<1>3. said \in [Users -> [Rights -> {Never} \cup 0..now]] /\ rights \in [Users -> Rights]
  BY DEF TypeOK
<1>4. said \in Histories
  BY <1>2, <1>3 DEF Histories
<1> QED
  BY <1>1, <1>3, <1>4

LEMMA SinceGrows ==
  ASSUME NEW s \in Histories, NEW later \in Histories, Grows(s, later),
         NEW u \in Users, NEW t \in Int, NEW t2 \in Int, t2 <= t
  PROVE  Since(s, u, t) \subseteq Since(later, u, t2)
<1> SUFFICES ASSUME NEW r \in Since(s, u, t) PROVE r \in Since(later, u, t2)
  OBVIOUS
<1>1. r \in Rights /\ s[u][r] # Never /\ s[u][r] >= t
  BY DEF Since
<1>2. s[u][r] \in {Never} \cup Nat /\ later[u][r] \in {Never} \cup Nat
  BY <1>1 DEF Histories
<1>3. later[u][r] # Never /\ later[u][r] >= s[u][r]
  BY <1>1 DEF Grows
<1>4. s[u][r] \in Nat /\ later[u][r] \in Nat
  BY <1>1, <1>2, <1>3
<1>5. later[u][r] >= t2
  BY <1>1, <1>3, <1>4
<1> QED
  BY <1>1, <1>3, <1>5 DEF Since

LEMMA SaidSame ==
  ASSUME NEW s \in Histories
  PROVE  Grows(s, s)
BY DEF Grows, Histories, Never

\* Rights that were the user's when ICAT was last asked, or at any time since, count from then on.
LEMMA SaidGrows ==
  ASSUME TypeOK, RecentInv, [Next]_vars
  PROVE  /\ now' \in Nat /\ now <= now' /\ said' \in Histories /\ Grows(said, said')
         /\ \A u \in Users : said'[u][rights'[u]] = now'
<1>1. /\ now \in Nat /\ said \in Histories /\ rights \in [Users -> Rights] /\ Grows(said, said)
      /\ \A u \in Users : said[u][rights[u]] = now
      /\ \A u \in Users, r \in Rights : said[u][r] # Never => said[u][r] \in 0..now
  BY TypeFacts, SaidSame DEF RecentInv
<1> DEFINE Goal == /\ now' \in Nat /\ now <= now' /\ said' \in Histories /\ Grows(said, said')
                   /\ \A u \in Users : said'[u][rights'[u]] = now'
<1>2. CASE now' = now /\ said' = said /\ rights' = rights
  BY <1>1, <1>2
<1>3. ASSUME NEW u \in Users, NEW r \in Rights, ChangeRights(u, r) PROVE Goal
  <2>1. /\ now' = now /\ rights' = [rights EXCEPT ![u] = r] /\ said' = [said EXCEPT ![u][r] = now]
    BY <1>3 DEF ChangeRights
  <2>2. \A v \in Users, x \in Rights : said'[v][x] = IF v = u /\ x = r THEN now ELSE said[v][x]
    BY <1>1, <2>1 DEF Histories
  <2>3. said' \in Histories
    BY <1>1, <2>1 DEF Histories
  <2>4. Grows(said, said')
    BY <1>1, <2>2 DEF Grows, Never
  <2>5. \A v \in Users : rights[v] \in Rights /\ rights'[v] = IF v = u THEN r ELSE rights[v]
    BY <1>1, <2>1
  <2>6. \A v \in Users : said'[v][rights'[v]] = now'
    BY <1>1, <2>1, <2>2, <2>5
  <2> QED
    BY <1>1, <2>1, <2>3, <2>4, <2>6
<1>4. ASSUME Tick PROVE Goal
  <2>1. /\ now' = now + 1 /\ rights' = rights
        /\ said' = [u \in Users |-> [said[u] EXCEPT ![rights[u]] = now + 1]]
    BY <1>4 DEF Tick
  <2>2. \A v \in Users : rights[v] \in Rights /\ said[v] \in [Rights -> {Never} \cup Nat]
    BY <1>1 DEF Histories
  <2>3. \A v \in Users, x \in Rights : said'[v][x] = IF x = rights[v] THEN now + 1 ELSE said[v][x]
    BY <2>1, <2>2
  <2>4. \A v \in Users : said'[v] \in [Rights -> {Never} \cup Nat]
    BY <1>1, <2>1, <2>2
  <2>5. said' \in Histories
    BY <2>1, <2>4 DEF Histories
  <2>6. Grows(said, said')
    BY <1>1, <2>3 DEF Grows, Never
  <2>7. \A v \in Users : said'[v][rights'[v]] = now'
    BY <2>1, <2>2, <2>3
  <2> QED
    BY <1>1, <2>1, <2>5, <2>6, <2>7
<1> HIDE DEF Goal
<1>5. UNCHANGED vars \/ Fail \/ Return => now' = now /\ said' = said /\ rights' = rights
  BY DEF vars, Fail, Return
<1>6. ASSUME NEW b, Serve(b) PROVE now' = now /\ said' = said /\ rights' = rights
  BY <1>6 DEF Serve, Index, OpenPage, Logout, Respond, Kill, LookUp, open_icat, Query, update_cache,
     cull_invalid, Permissions, SaveUser, LogIn, check_permissions, World, Around
<1>7. Goal
  BY <1>2, <1>3, <1>4, <1>5, <1>6 DEF Next, Goal
<1> QED
  BY <1>7 DEF Goal

-----------------------------------------------------------------------------
(***************************************************************************)
(* How old copies get: while time passes, ...                              *)
(***************************************************************************)
LEMMA Times ==
  ASSUME NEW q, RequestTypes(q)
  PROVE  q.start \in Int /\ Oldest(q) \in Int /\ Oldest(q) <= q.start /\ Patience \in Nat /\ Lifetime - 1 \in Nat
BY TimeAssumption DEF RequestTypes, Oldest

LEMMA GroundsGrow ==
  ASSUME NEW s \in Histories, NEW later \in Histories, Grows(s, later),
         NEW q, RequestTypes(q), q.pc # "idle", Grounds(s, q)
  PROVE  Grounds(later, q)
<1>1. q.user \in Users /\ Oldest(q) \in Int
  BY Times DEF RequestTypes
<1>2. Since(s, q.user, Oldest(q)) \subseteq Since(later, q.user, Oldest(q))
  BY <1>1, SinceGrows
<1> QED
  BY <1>2 DEF Grounds

LEMMA RecentGrows ==
  ASSUME NEW s \in Histories, NEW later \in Histories, Grows(s, later),
         NEW time \in Nat, NEW time2 \in Nat, time <= time2,
         NEW q, RequestTypes(q), Recent(s, time, q),
         q.pc # "idle" => time2 - q.start <= Patience
  PROVE  Recent(later, time2, q)
<1> SUFFICES ASSUME q.pc # "idle" PROVE Recent(later, time2, q)
  BY DEF Recent
<1>1. /\ q.start <= time /\ GotRecent(s, q) /\ SaysRecent(s, q) /\ Grounds(s, q)
  BY DEF Recent
<1>2. q.user \in Users /\ Oldest(q) \in Int /\ q.start \in Int
  BY Times DEF RequestTypes
<1>3. Since(s, q.user, Oldest(q)) \subseteq Since(later, q.user, Oldest(q))
  BY <1>2, SinceGrows
<1>4. Since(s, q.user, q.start) \subseteq Since(later, q.user, q.start)
  BY <1>2, SinceGrows
<1>5. GotRecent(later, q)
  BY <1>1, <1>3 DEF GotRecent
<1>6. SaysRecent(later, q)
  BY <1>1, <1>4 DEF SaysRecent
<1>7. Grounds(later, q)
  BY <1>1, GroundsGrow
<1>8. q.start <= time2
  BY <1>1, <1>2
<1> QED
  BY <1>5, <1>6, <1>7, <1>8 DEF Recent

LEMMA RowGrows ==
  ASSUME NEW s \in Histories, NEW later \in Histories, Grows(s, later),
         NEW time \in Nat, NEW time2 \in Nat, time <= time2, NEW row, RowRecent(s, time, row)
  PROVE  RowRecent(later, time2, row)
<1>1. row.created \in 0..time2 /\ row.created - Patience \in Int
  BY TimeAssumption DEF RowRecent
<1>2. row.of \in Users => Since(s, row.of, row.created - Patience) \subseteq Since(later, row.of, row.created - Patience)
  BY <1>1, SinceGrows
<1> QED
  BY <1>1, <1>2 DEF RowRecent

(***************************************************************************)
(* ... and when a request takes them.                                      *)
(***************************************************************************)
\* What a request has got from a row that is valid, or has just learned.
LEMMA UsedRecent ==
  ASSUME NEW s \in Histories, NEW time \in Nat, NEW q, RequestTypes(q), q.pc # "idle", Recent(s, time, q), NEW says,
         q.asks \in DOMAIN says /\ q.asks # "details" =>
           \E r \in Since(s, q.user, Oldest(q)) : says[q.asks] = Says(r, q.asks)
  PROVE  Recent(s, time, Use(q, says))
<1> DEFINE a == Use(q, says)
<1>1. IsRequest(q)
  BY DEF RequestTypes
<1>2. /\ a.page = q.page /\ a.user = q.user /\ a.start = q.start
      /\ a.outcome = q.outcome /\ DOMAIN a.says = {}
      /\ a.got = IF q.asks \in DOMAIN says THEN Put(q.got, q.asks, says[q.asks]) ELSE q.got
  BY <1>1, UsedRequest
<1>3. a.super = q.super
  BY <1>1, UsedRequest
<1> DEFINE g == Put(q.got, q.asks, says[q.asks])
<1>4. /\ DOMAIN g = DOMAIN q.got \cup {q.asks} /\ g[q.asks] = says[q.asks]
      /\ \A i \in DOMAIN q.got \ {q.asks} : g[i] = q.got[i]
  BY DEF Put
<1> HIDE DEF a, g
<1>5. /\ q.start <= time /\ time - q.start <= Patience
      /\ GotRecent(s, q) /\ Grounds(s, q)
  BY DEF Recent
<1>6. Oldest(a) = Oldest(q)
  BY <1>2 DEF Oldest
<1>7. GotRecent(s, a)
  <2>1. CASE q.asks \in DOMAIN says
    <3>1. a.got = g
      BY <1>2, <2>1 DEF g
    <3>2. ASSUME NEW x \in DOMAIN g \ {"details"}
          PROVE  \E r \in Since(s, q.user, Oldest(q)) : g[x] = Says(r, x)
      <4>1. CASE x = q.asks
        <5>1. g[x] = says[x]
          BY <1>4, <4>1
        <5> QED
          BY <2>1, <4>1, <5>1
      <4>2. CASE x # q.asks
        <5>1. x \in DOMAIN q.got \ {"details"} /\ g[x] = q.got[x]
          BY <1>4, <4>2
        <5> QED
          BY <1>5, <5>1 DEF GotRecent
      <4> QED
        BY <4>1, <4>2
    <3> QED
      BY <1>2, <1>6, <3>1, <3>2 DEF GotRecent
  <2>2. CASE q.asks \notin DOMAIN says
    BY <1>2, <1>5, <1>6, <2>2 DEF GotRecent
  <2> QED
    BY <2>1, <2>2
<1>8. SaysRecent(s, a)
  BY <1>2 DEF SaysRecent
<1>9. Grounds(s, a)
  BY <1>2, <1>3, <1>5, <1>6 DEF Grounds
<1>10. Recent(s, time, a)
  BY <1>2, <1>5, <1>7, <1>8, <1>9 DEF Recent
<1> QED
  BY <1>10 DEF a

LEMMA AnsweredRecent ==
  ASSUME NEW s, NEW time, NEW q, q.pc # "idle", Recent(s, time, q), NEW outcome,
         \/ q.super
         \/ outcome = "error"
         \/ outcome = q.outcome
         \/ outcome = "granted" /\ q.page = LogInPage
         \/ outcome = "granted" /\ \E r \in Since(s, q.user, Oldest(q)) : Owner(r, q.page) \/ OnTeam(r, q.page)
         \/ outcome = "denied" /\ \E r \in Since(s, q.user, Oldest(q)) : ~Owner(r, q.page)
                               /\ \E x \in Since(s, q.user, Oldest(q)) : ~OnTeam(x, q.page)
  PROVE  Recent(s, time, Answered(q, outcome))
<1> DEFINE a == Answered(q, outcome)
<1>1. /\ a.page = q.page /\ a.user = q.user /\ a.start = q.start
      /\ a.outcome = outcome /\ DOMAIN a.got = {} /\ DOMAIN a.says = {}
  BY AnsweredRequest
<1>2. a.super = q.super
  BY AnsweredRequest
<1> SUFFICES Recent(s, time, a)
  OBVIOUS
<1> HIDE DEF a
<1>3. Oldest(a) = Oldest(q)
  BY <1>1 DEF Oldest
<1>4. q.start <= time /\ time - q.start <= Patience /\ Grounds(s, q)
  BY DEF Recent
<1>5. Grounds(s, a)
  BY <1>1, <1>2, <1>3, <1>4 DEF Grounds
<1> QED
  BY <1>1, <1>4, <1>5 DEF Recent, GotRecent, SaysRecent

LEMMA RaisedRecent ==
  ASSUME NEW s, NEW time, NEW q, q.pc # "idle", Recent(s, time, q)
  PROVE  Recent(s, time, Raised(q))
<1>1. CASE q.outcome = "granted"
  BY <1>1, AnsweredRecent DEF Raised
<1>2. CASE q.outcome # "granted"
  BY <1>2, AnsweredRecent DEF Raised
<1> QED
  BY <1>1, <1>2

\* A request that goes on with what it has.
LEMMA MovedRecent ==
  ASSUME NEW s, NEW time, NEW q, q.pc # "idle", Recent(s, time, q), NEW a,
         a.page = q.page, a.user = q.user, a.start = q.start, a.super = q.super,
         a.outcome = q.outcome, a.got = q.got, DOMAIN a.says = {} \/ (a.says = q.says /\ a.asks = q.asks)
  PROVE  Recent(s, time, a)
<1>1. Oldest(a) = Oldest(q)
  BY DEF Oldest
<1>2. q.start <= time /\ time - q.start <= Patience /\ Grounds(s, q) /\ GotRecent(s, q) /\ SaysRecent(s, q)
  BY DEF Recent
<1>3. Grounds(s, a)
  BY <1>1, <1>2 DEF Grounds
<1>4. GotRecent(s, a)
  BY <1>1, <1>2 DEF GotRecent
<1>5. SaysRecent(s, a)
  BY <1>2 DEF SaysRecent
<1> QED
  BY <1>2, <1>3, <1>4, <1>5 DEF Recent

LEMMA GrantedRecent ==
  ASSUME NEW s, NEW time, NEW q, IsRequest(q), q.pc # "idle", Recent(s, time, q), DOMAIN q.says = {},
         ~q.super => \E r \in Since(s, q.user, Oldest(q)) : Owner(r, q.page) \/ OnTeam(r, q.page)
  PROVE  Recent(s, time, Granted(q))
<1> DEFINE a == Granted(q)
<1>1. /\ a.page = q.page /\ a.user = q.user /\ a.start = q.start /\ a.outcome = "granted" /\ DOMAIN a.says = {}
      /\ DOMAIN a.got = {} \/ a.got = q.got
  BY GrantedRequest
<1>2. a.super = q.super
  BY GrantedRequest
<1> SUFFICES Recent(s, time, a)
  OBVIOUS
<1> HIDE DEF a
<1>3. Oldest(a) = Oldest(q)
  BY <1>1 DEF Oldest
<1>4. q.start <= time /\ time - q.start <= Patience /\ GotRecent(s, q)
  BY DEF Recent
<1>5. Grounds(s, a)
  BY <1>1, <1>2, <1>3 DEF Grounds
<1>6. GotRecent(s, a)
  BY <1>1, <1>3, <1>4 DEF GotRecent
<1> QED
  BY <1>1, <1>4, <1>5, <1>6 DEF Recent, SaysRecent

\* The grounds on which check_permissions answers: what it has got from the cache.
LEMMA CheckedRecent ==
  ASSUME NEW s, NEW time, NEW q, Shape(q), q.pc = "look", q.asks = "none", q.page # LogInPage, Recent(s, time, q)
  PROVE  Recent(s, time, Checked(q))
<1>1. /\ q.old = {} /\ DOMAIN q.says = {} /\ q.page \in Pages /\ IsRequest(q) /\ Opening(q) /\ GotRecent(s, q)
  BY DEF Shape, Learned, RequestTypes, Recent
<1> DEFINE Said == Since(s, q.user, Oldest(q))
<1>2. (\E r \in Said : Owner(r, q.page) \/ OnTeam(r, q.page)) => Recent(s, time, Granted(q))
  BY <1>1, GrantedRecent
<1>3. /\ (\E r \in Said : ~Owner(r, q.page)) /\ (\E r \in Said : ~OnTeam(r, q.page))
         => Recent(s, time, Answered(q, "denied"))
  BY AnsweredRecent
<1>4. Recent(s, time, Raised(q))
  BY RaisedRecent
<1>5. q.outcome = "granted" => Recent(s, time, Answered(q, "granted"))
  BY AnsweredRecent
<1> HIDE DEF Said
<1>6. CASE q.outcome = "granted"
  BY <1>5, <1>6 DEF Checked
<1>7. CASE q.outcome = "none"
  <2>1. q.page.kind \in {"instrument", "run", "experiment", "summary"} /\ "owned" \in DOMAIN q.got
    BY <1>1, <1>7, PageKinds DEF Opening
  <2>2. PICK r \in Said : q.got["owned"] = r.owned
    BY <1>1, <2>1 DEF GotRecent, Says, Said
  <2>3. CASE q.page.kind = "run"
    BY <1>4, <1>7, <2>3 DEF Checked
  <2>4. CASE q.page.kind = "instrument"
    <3>1. Checked(q) = CheckInstrument(q)
      BY <1>7, <2>4 DEF Checked
    <3>2. CASE q.page.of \in q.got["owned"]
      BY <1>2, <2>2, <2>4, <3>1, <3>2 DEF CheckInstrument, Owner
    <3>3. CASE q.page.of \notin q.got["owned"]
      BY <1>3, <2>2, <2>4, <3>1, <3>3 DEF CheckInstrument, Owner, OnTeam
    <3> QED
      BY <3>2, <3>3
  <2>5. CASE q.page.kind \in {"experiment", "summary"}
    <3>1. Checked(q) = CheckExperiment(q)
      BY <1>7, <2>5 DEF Checked
    <3>2. Owner(r, q.page) <=> RanOn[q.page.of] \cap q.got["owned"] # {}
      BY <2>2, <2>5 DEF Owner
    <3>3. CASE Owner(r, q.page)
      BY <1>2, <2>2, <3>1, <3>2, <3>3 DEF CheckExperiment
    <3>4. CASE ~Owner(r, q.page) /\ "associated" \notin DOMAIN q.got
      <4> DEFINE a == [q EXCEPT !.asks = "associated"]
      <4>1. Checked(q) = a
        BY <3>1, <3>2, <3>4 DEF CheckExperiment
      <4>2. /\ a.page = q.page /\ a.user = q.user /\ a.start = q.start
            /\ a.outcome = q.outcome /\ a.got = q.got /\ a.says = q.says
        BY <1>1 DEF IsRequest, Fields
      <4>3. a.super = q.super
        BY <1>1 DEF IsRequest, Fields
      <4> HIDE DEF a
      <4>4. Recent(s, time, a)
        BY <1>1, <4>2, <4>3, MovedRecent
      <4> QED
        BY <4>1, <4>4
    <3>5. CASE ~Owner(r, q.page) /\ "associated" \in DOMAIN q.got
      <4>1. PICK x \in Said : q.got["associated"] = x.member
        BY <1>1, <3>5 DEF GotRecent, Says, Said
      <4>2. OnTeam(x, q.page) <=> q.page.of \in q.got["associated"]
        BY <2>5, <4>1 DEF OnTeam
      <4>3. CASE q.got["associated"] \cap Unnumbered # {}
        BY <1>4, <3>1, <3>2, <3>5, <4>3 DEF CheckExperiment
      <4>4. CASE q.got["associated"] \cap Unnumbered = {} /\ OnTeam(x, q.page)
        <5>1. Checked(q) = Granted(q)
          BY <3>1, <3>2, <3>5, <4>2, <4>4 DEF CheckExperiment
        <5> QED
          BY <1>2, <4>1, <4>4, <5>1
      <4>5. CASE q.got["associated"] \cap Unnumbered = {} /\ ~OnTeam(x, q.page)
        <5>1. Checked(q) = Answered(q, "denied")
          BY <3>1, <3>2, <3>5, <4>2, <4>5 DEF CheckExperiment
        <5> QED
          BY <1>3, <2>2, <3>5, <4>1, <4>5, <5>1
      <4> QED
        BY <4>3, <4>4, <4>5
    <3> QED
      BY <3>3, <3>4, <3>5
  <2> QED
    BY <2>1, <2>3, <2>4, <2>5
<1> QED
  BY <1>1, <1>6, <1>7 DEF Opening

-----------------------------------------------------------------------------
(***************************************************************************)
(* Each step leaves rows and requests as recent as they should be.         *)
(***************************************************************************)
LEMMA RecentPrimed ==
  ASSUME \A u \in Users : said'[u][rights'[u]] = now',
         \A i \in DOMAIN cache' : RowRecent(said', now', cache'[i]),
         \A b \in Browsers : Recent(said', now', req'[b])
  PROVE  RecentInv'
BY DEF RecentInv, RowRecent, Recent, GotRecent, SaysRecent, Grounds, Oldest, Since, Owner, OnTeam, Says, Columns, LogInPage

LEMMA RequestRecent ==
  ASSUME TypeOK, ShapeInv, RecentInv, NEW b \in Browsers,
         \/ \E u \in Users : Index(b, u)
         \/ \E page \in Pages : OpenPage(b, page)
         \/ Logout(b) \/ Respond(b) \/ Kill(b)
  PROVE  Recent(said, now, req'[b])
<1>1. /\ now \in Nat /\ said \in Histories /\ users \in [Users -> BOOLEAN]
      /\ session[b].user \in Users \cup {NoUser} /\ Recent(said, now, req[b])
  BY TypeFacts DEF TypeOK, RecentInv
<1>2. ASSUME NEW q, q.start = now, DOMAIN q.got = {}, DOMAIN q.says = {}, q.outcome = "none"
      PROVE  Recent(said, now, q)
  BY <1>1, <1>2, TimeAssumption DEF Recent, GotRecent, SaysRecent, Grounds
<1>3. ASSUME NEW u \in Users, Index(b, u) PROVE Recent(said, now, req'[b])
  <2> DEFINE q == Request(LogInPage, u, "admin")
  <2>1. q.start = now /\ DOMAIN q.got = {} /\ DOMAIN q.says = {} /\ q.outcome = "none"
    BY NewRequest
  <2>2. Go(b, q)
    BY <1>3 DEF Index
  <2> HIDE DEF q
  <2>3. Recent(said, now, q)
    BY <1>2, <2>1
  <2> QED
    BY <2>2, <2>3, OwnStep
<1>4. ASSUME NEW page \in Pages, OpenPage(b, page) PROVE Recent(said, now, req'[b])
  <2> DEFINE u == session[b].user
             q == Opened(u, page)
  <2>1. u \in Users
    BY <1>1, <1>4 DEF OpenPage, has_valid_login
  <2>2. /\ RequestTypes(q) /\ q.pc = "look" /\ q.page = page /\ q.user = u /\ q.start = now
        /\ q.super = (users[u] \/ page.kind = "admin") /\ q.outcome = "none"
        /\ q.asks = "owned" /\ DOMAIN q.says = {} /\ DOMAIN q.got = {}
    BY <1>1, <2>1, OpenedRequest
  <2>3. Go(b, IF users[u] THEN Granted(q)
              ELSE IF page.kind = "admin" THEN Answered(q, "denied") ELSE q)
    BY <1>4 DEF OpenPage, Opened
  <2> HIDE DEF q
  <2>4. Recent(said, now, q)
    BY <1>2, <2>2
  <2>5. IsRequest(q)
    BY <2>2 DEF RequestTypes
  <2>6. CASE users[u]
    <3>1. Recent(said, now, Granted(q))
      BY <2>2, <2>4, <2>5, <2>6, GrantedRecent
    <3> QED
      BY <2>3, <2>6, <3>1, OwnStep
  <2>7. CASE ~users[u] /\ page.kind = "admin"
    <3>1. Recent(said, now, Answered(q, "denied"))
      BY <2>2, <2>4, <2>7, AnsweredRecent
    <3> QED
      BY <2>3, <2>7, <3>1, OwnStep
  <2>8. CASE ~users[u] /\ page.kind # "admin"
    BY <2>3, <2>4, <2>8, OwnStep
  <2> QED
    BY <2>6, <2>7, <2>8
<1>5. CASE Respond(b) \/ Kill(b)
  <2>1. Go(b, Idle)
    BY <1>5 DEF Respond, Kill
  <2>2. req'[b] = Idle
    BY <2>1, OwnStep
  <2> QED
    BY <2>2, IdleShape DEF Recent
<1>6. CASE Logout(b)
  BY <1>1, <1>6 DEF Logout
<1> QED
  BY <1>3, <1>4, <1>5, <1>6

\* A row that is valid has been saved within a lifetime.
LEMMA ValidRow ==
  ASSUME TypeOK, RecentInv, NEW q, Shape(q), q.pc = "look", q.asks # "none", Recent(said, now, q),
         NEW i \in Newest(Rows(Subject(q))), is_valid(cache[i].created)
  PROVE  Recent(said, now, Use(q, cache[i].says))
<1>1. now \in Nat /\ said \in Histories /\ Grows(said, said)
  BY TypeFacts, SaidSame
<1>2. RowRecent(said, now, cache[i]) /\ cache[i].of = Subject(q)
  BY DEF RecentInv, Newest, Rows
<1>3. RequestTypes(q) /\ q.user \in Users
  BY DEF Shape, RequestTypes
<1>4. ASSUME q.asks \in DOMAIN cache[i].says, q.asks # "details"
      PROVE  \E r \in Since(said, q.user, Oldest(q)) : cache[i].says[q.asks] = Says(r, q.asks)
  <2>1. Subject(q) = q.user
    BY <1>4, SubjectKnown
  <2>2. PICK r \in Since(said, q.user, cache[i].created - Patience) : cache[i].says[q.asks] = Says(r, q.asks)
    BY <1>2, <1>3, <1>4, <2>1 DEF RowRecent
  <2>3. /\ q.start \in Int /\ Oldest(q) \in Int /\ cache[i].created - Patience \in Int
        /\ Oldest(q) <= cache[i].created - Patience
    <3>1. q.start <= now /\ cache[i].created \in Nat /\ cache[i].created + Lifetime > now
      BY <1>2 DEF RowRecent, Recent, is_valid
    <3> QED
      BY <1>1, <1>3, <3>1, TimeAssumption DEF Oldest, RequestTypes
  <2>4. r \in Since(said, q.user, Oldest(q))
    BY <1>1, <1>3, <2>2, <2>3, SinceGrows
  <2> QED
    BY <2>2, <2>4
<1> QED
  BY <1>1, <1>3, <1>4, UsedRecent

LEMMA CacheRecent ==
  ASSUME TypeOK, ShapeInv, RecentInv, NEW b \in Browsers,
         LookUp(b) \/ open_icat(b) \/ Query(b) \/ update_cache(b) \/ cull_invalid(b)
  PROVE  Recent(said, now, req'[b])
<1> DEFINE q == req[b]
<1>1. /\ Shape(q) /\ RequestTypes(q) /\ IsRequest(q) /\ Recent(said, now, q)
      /\ now \in Nat /\ said \in Histories /\ Grows(said, said)
  BY TypeFacts, SaidSame DEF ShapeInv, RecentInv, Shape, RequestTypes
<1>2. ASSUME NEW a, Go(b, a), Recent(said, now, a) PROVE Recent(said, now, req'[b])
  BY <1>2, OwnStep
<1>3. q.pc # "idle" =>
        q.user \in Users /\ q.start \in Int /\ q.start <= now /\ Oldest(q) \in Int /\ Oldest(q) <= q.start
  BY <1>1, Times DEF RequestTypes, Recent
<1>4. CASE LookUp(b)
  <2>1. q.pc = "look" /\ q.asks # "none"
    BY <1>4 DEF LookUp, At
  <2>2. CASE \E i \in Newest(Rows(Subject(q))) : is_valid(cache[i].created) /\ Go(b, Use(q, cache[i].says))
    BY <1>1, <1>2, <2>1, <2>2, ValidRow
  <2> DEFINE a == [q EXCEPT !.pc = IF q.connected THEN "query" ELSE "open", !.old = Rows(Subject(q)),
                            !.column = FirstColumn(Subject(q))]
  <2>3. CASE Go(b, a)
    <3>1. /\ a.page = q.page /\ a.user = q.user /\ a.start = q.start
          /\ a.outcome = q.outcome /\ a.got = q.got /\ a.says = q.says /\ a.asks = q.asks
      BY <1>1 DEF IsRequest, Fields
    <3>2. a.super = q.super
      BY <1>1 DEF IsRequest, Fields
    <3> HIDE DEF a
    <3>3. Recent(said, now, a)
      BY <1>1, <2>1, <3>1, <3>2, MovedRecent
    <3> QED
      BY <1>2, <2>3, <3>3
  <2> QED
    BY <1>4, <2>2, <2>3 DEF LookUp
<1>5. CASE open_icat(b)
  <2>1. q.pc = "open"
    BY <1>5 DEF open_icat, At
  <2> DEFINE a == [q EXCEPT !.pc = "query", !.connected = TRUE]
  <2>2. CASE Go(b, a)
    <3>1. /\ a.page = q.page /\ a.user = q.user /\ a.start = q.start
          /\ a.outcome = q.outcome /\ a.got = q.got /\ a.says = q.says /\ a.asks = q.asks
      BY <1>1 DEF IsRequest, Fields
    <3>2. a.super = q.super
      BY <1>1 DEF IsRequest, Fields
    <3> HIDE DEF a
    <3>3. Recent(said, now, a)
      BY <1>1, <2>1, <3>1, <3>2, MovedRecent
    <3> QED
      BY <1>2, <2>2, <3>3
  <2>3. CASE Go(b, Raised(q))
    <3>1. Recent(said, now, Raised(q))
      BY <1>1, <2>1, RaisedRecent
    <3> QED
      BY <1>2, <2>3, <3>1
  <2>4. Go(b, a) \/ Go(b, Raised(q))
    BY <1>5 DEF open_icat
  <2> QED
    BY <2>2, <2>3, <2>4
<1>6. CASE Query(b)
  <2>1. q.pc = "query"
    BY <1>6 DEF Query, At
  <2>2. q.user \in Users /\ q.start \in Int /\ q.start <= now
    BY <1>3, <2>1
  <2> DEFINE learned(value) ==
               [q EXCEPT !.pc = IF ColumnAfter(q.column) = "none" THEN "save" ELSE "query",
                         !.column = ColumnAfter(@), !.says = Put(@, q.column, value)]
  <2>3. ASSUME NEW value,
               q.asks # "details" => \E r \in Since(said, q.user, q.start) : value = Says(r, q.column)
        PROVE  Recent(said, now, learned(value))
    <3> DEFINE a == learned(value)
               says == Put(q.says, q.column, value)
    <3>1. /\ a.page = q.page /\ a.user = q.user /\ a.start = q.start
          /\ a.outcome = q.outcome /\ a.got = q.got /\ a.says = says /\ a.asks = q.asks
      BY <1>1 DEF IsRequest, Fields
    <3>2. a.super = q.super
      BY <1>1 DEF IsRequest, Fields
    <3>3. /\ DOMAIN says = DOMAIN q.says \cup {q.column} /\ says[q.column] = value
          /\ \A i \in DOMAIN q.says \ {q.column} : says[i] = q.says[i]
      BY DEF Put
    <3> SUFFICES Recent(said, now, a)
      OBVIOUS
    <3> HIDE DEF a, says
    <3>4. q.start <= now /\ now - q.start <= Patience /\ Grounds(said, q) /\ GotRecent(said, q) /\ SaysRecent(said, q)
      BY <1>1, <2>1 DEF Recent
    <3>5. Oldest(a) = Oldest(q)
      BY <3>1 DEF Oldest
    <3>6. Grounds(said, a)
      BY <3>1, <3>2, <3>4, <3>5 DEF Grounds
    <3>7. GotRecent(said, a)
      BY <3>1, <3>4, <3>5 DEF GotRecent
    <3>8. ASSUME q.asks # "details", NEW x \in DOMAIN says
          PROVE  \E r \in Since(said, q.user, q.start) : says[x] = Says(r, x)
      <4>1. CASE x = q.column
        BY <2>3, <3>3, <3>8, <4>1
      <4>2. CASE x # q.column
        <5>1. x \in DOMAIN q.says /\ says[x] = q.says[x]
          BY <3>3, <4>2
        <5> QED
          BY <3>4, <3>8, <5>1 DEF SaysRecent
      <4> QED
        BY <4>1, <4>2
    <3>9. SaysRecent(said, a)
      BY <3>1, <3>8 DEF SaysRecent
    <3> QED
      BY <3>1, <3>4, <3>6, <3>7, <3>9 DEF Recent
  <2> HIDE DEF learned
  <2>4. CASE q.column = "details" /\ Go(b, learned(IF reachable THEN "known" ELSE "N/A"))
    <3>1. q.asks = "details"
      BY <1>1, <2>1, <2>4 DEF Shape, Learned
    <3> QED
      BY <1>2, <2>3, <2>4, <3>1
  <2>5. CASE Go(b, learned(Says(rights[q.user], q.column)))
    <3>1. rights[q.user] \in Rights /\ said[q.user][rights[q.user]] = now
      BY <2>2, TypeFacts DEF RecentInv
    <3>2. rights[q.user] \in Since(said, q.user, q.start)
      BY <1>1, <2>2, <3>1 DEF Since, Never
    <3>3. Recent(said, now, learned(Says(rights[q.user], q.column)))
      BY <2>3, <3>2
    <3> QED
      BY <1>2, <2>5, <3>3
  <2>6. CASE Go(b, Raised(q))
    <3>1. Recent(said, now, Raised(q))
      BY <1>1, <2>1, RaisedRecent
    <3> QED
      BY <1>2, <2>6, <3>1
  <2> QED
    BY <1>6, <2>4, <2>5, <2>6 DEF Query, learned
<1>7. CASE update_cache(b)
  <2> DEFINE a == [q EXCEPT !.pc = "cull"]
  <2>1. q.pc = "save" /\ Go(b, a)
    BY <1>7 DEF update_cache, At
  <2>2. /\ a.page = q.page /\ a.user = q.user /\ a.start = q.start
        /\ a.outcome = q.outcome /\ a.got = q.got /\ a.says = q.says /\ a.asks = q.asks
    BY <1>1 DEF IsRequest, Fields
  <2>3. a.super = q.super
    BY <1>1 DEF IsRequest, Fields
  <2> HIDE DEF a
  <2>4. Recent(said, now, a)
    BY <1>1, <2>1, <2>2, <2>3, MovedRecent
  <2> QED
    BY <1>2, <2>1, <2>4
<1>8. CASE cull_invalid(b)
  <2>1. q.pc = "cull" /\ Go(b, Use(q, q.says))
    BY <1>8 DEF cull_invalid, At
  <2>2. /\ q.user \in Users /\ q.start \in Int /\ Oldest(q) \in Int /\ Oldest(q) <= q.start
    BY <1>3, <2>1
  <2>3. Since(said, q.user, q.start) \subseteq Since(said, q.user, Oldest(q))
    BY <1>1, <2>2, SinceGrows
  <2>4. SaysRecent(said, q)
    BY <1>1, <2>1 DEF Recent
  <2>5. q.asks \in DOMAIN q.says /\ q.asks # "details" =>
           \E r \in Since(said, q.user, Oldest(q)) : q.says[q.asks] = Says(r, q.asks)
    BY <2>3, <2>4 DEF SaysRecent
  <2>6. Recent(said, now, Use(q, q.says))
    BY <1>1, <2>1, <2>5, UsedRecent
  <2> QED
    BY <1>2, <2>1, <2>6
<1> QED
  BY <1>4, <1>5, <1>6, <1>7, <1>8

LEMMA AnswerRecent ==
  ASSUME TypeOK, ShapeInv, RecentInv, NEW b \in Browsers,
         Permissions(b) \/ SaveUser(b) \/ LogIn(b) \/ check_permissions(b)
  PROVE  Recent(said, now, req'[b])
<1> DEFINE q == req[b]
<1>1. Shape(q) /\ IsRequest(q) /\ Recent(said, now, q)
  BY DEF ShapeInv, RecentInv, Shape, RequestTypes
<1>2. ASSUME NEW a, Go(b, a), Recent(said, now, a) PROVE Recent(said, now, req'[b])
  BY <1>2, OwnStep
<1>3. q.pc # "idle" => Recent(said, now, Raised(q))
  BY <1>1, RaisedRecent
<1>4. ASSUME q.pc # "idle", NEW pc PROVE Recent(said, now, [q EXCEPT !.pc = pc])
  <2> DEFINE a == [q EXCEPT !.pc = pc]
  <2>1. /\ a.page = q.page /\ a.user = q.user /\ a.start = q.start
        /\ a.outcome = q.outcome /\ a.got = q.got /\ a.says = q.says /\ a.asks = q.asks
    BY <1>1 DEF IsRequest, Fields
  <2>2. a.super = q.super
    BY <1>1 DEF IsRequest, Fields
  <2> SUFFICES Recent(said, now, a)
    OBVIOUS
  <2> HIDE DEF a
  <2> QED
    BY <1>1, <1>4, <2>1, <2>2, MovedRecent
<1>5. CASE Permissions(b)
  <2>1. q.pc # "idle" /\ (Go(b, Raised(q)) \/ Go(b, [q EXCEPT !.pc = "user"]))
    BY <1>5 DEF Permissions, Closed, AtEnd, At
  <2> QED
    BY <1>2, <1>3, <1>4, <2>1
<1>6. CASE SaveUser(b)
  <2>1. q.pc # "idle" /\ Go(b, [q EXCEPT !.pc = "welcome"])
    BY <1>6 DEF SaveUser, At
  <2> QED
    BY <1>2, <1>4, <2>1
<1>7. CASE LogIn(b)
  <2>1. q.pc = "welcome" /\ Go(b, Answered(q, "granted"))
    BY <1>7 DEF LogIn, At
  <2>2. q.page = LogInPage
    BY <1>1, <2>1 DEF Shape
  <2>3. Recent(said, now, Answered(q, "granted"))
    BY <1>1, <2>1, <2>2, AnsweredRecent
  <2> QED
    BY <1>2, <2>1, <2>3
<1>8. CASE check_permissions(b)
  <2>1. q.pc = "look" /\ q.asks = "none" /\ q.page # LogInPage
    BY <1>8 DEF check_permissions, AtEnd, At
  <2>2. Recent(said, now, Checked(q))
    BY <1>1, <2>1, CheckedRecent
  <2>3. Go(b, Raised(q)) \/ Go(b, Checked(q))
    BY <1>8 DEF check_permissions, Closed
  <2> QED
    BY <1>2, <1>3, <2>1, <2>2, <2>3
<1> QED
  BY <1>5, <1>6, <1>7, <1>8

\* A row is saved with what its request has learned: since the request began.
LEMMA RowsRecent ==
  ASSUME TypeOK, ShapeInv, RecentInv, NEW b \in Browsers, Serve(b)
  PROVE  \A i \in DOMAIN cache' : RowRecent(said, now, cache'[i])
<1>1. \A i \in DOMAIN cache : RowRecent(said, now, cache[i])
  BY DEF RecentInv
<1>2. CASE cache' = cache
  BY <1>1, <1>2
<1>3. CASE cull_invalid(b)
  BY <1>1, <1>3 DEF cull_invalid
<1>4. CASE update_cache(b)
  <2> DEFINE q == req[b]
             row == [of |-> Subject(q), created |-> now, says |-> q.says]
  <2>1. q.pc = "save" /\ cache' = Put(cache, nextId, row)
    BY <1>4 DEF update_cache, At
  <2>2. /\ Shape(q) /\ Recent(said, now, q) /\ RequestTypes(q)
        /\ now \in Nat /\ said \in Histories /\ Grows(said, said)
    BY TypeFacts, SaidSame DEF ShapeInv, RecentInv, Shape
  <2>3. RowRecent(said, now, row)
    <3>1. row.of = Subject(q) /\ row.created = now /\ row.says = q.says
      OBVIOUS
    <3>2. Subject(q) \in Users \cup Experiments /\ (Subject(q) \in Users => q.asks # "details" /\ Subject(q) = q.user)
      BY <2>1, <2>2, SubjectKnown
    <3>3. DOMAIN q.says = Columns(Subject(q))
      BY <2>1, <2>2 DEF Shape, Learned
    <3>4. q.user \in Users /\ q.start \in Int /\ now - Patience \in Int /\ now - Patience <= q.start
      BY <2>1, <2>2, TimeAssumption DEF Recent, RequestTypes
    <3>5. Since(said, q.user, q.start) \subseteq Since(said, q.user, now - Patience)
      BY <2>2, <3>4, SinceGrows
    <3>6. SaysRecent(said, q)
      BY <2>1, <2>2 DEF Recent
    <3>7. Subject(q) \in Users =>
            \A c \in DOMAIN q.says : \E r \in Since(said, Subject(q), now - Patience) : q.says[c] = Says(r, c)
      BY <3>2, <3>5, <3>6 DEF SaysRecent
    <3>8. now \in 0..now
      BY <2>2
    <3> HIDE DEF row
    <3> QED
      BY <3>1, <3>2, <3>3, <3>7, <3>8 DEF RowRecent
  <2> HIDE DEF row
  <2> QED
    BY <1>1, <2>1, <2>3 DEF Put
<1>5. cache' = cache \/ cull_invalid(b) \/ update_cache(b)
  BY DEF Serve, Index, OpenPage, Logout, Respond, Kill, LookUp, open_icat, Query,
     Permissions, SaveUser, LogIn, check_permissions
<1> QED
  BY <1>2, <1>3, <1>4, <1>5

LEMMA RecentStep ==
  ASSUME TypeOK, ShapeInv, RecentInv, [Next]_vars
  PROVE  RecentInv'
<1>1. /\ now \in Nat /\ said \in Histories /\ now' \in Nat /\ now <= now' /\ said' \in Histories /\ Grows(said, said')
      /\ \A u \in Users : said'[u][rights'[u]] = now'
  BY TypeFacts, SaidGrows
<1>2. /\ \A i \in DOMAIN cache : RowRecent(said, now, cache[i])
      /\ \A b \in Browsers : Recent(said, now, req[b]) /\ RequestTypes(req[b])
  BY DEF RecentInv, ShapeInv, Shape
<1>3. ASSUME NEW b \in Browsers, Serve(b)
      PROVE  /\ now' = now /\ said' = said
             /\ \A i \in DOMAIN cache' : RowRecent(said, now, cache'[i])
             /\ \A c \in Browsers : Recent(said, now, req'[c])
  <2>1. now' = now /\ said' = said
    BY <1>3 DEF Serve, Index, OpenPage, Logout, Respond, Kill, LookUp, open_icat, Query, update_cache,
       cull_invalid, Permissions, SaveUser, LogIn, check_permissions, World, Around
  <2>2. \A c \in Browsers \ {b} : req'[c] = req[c]
    <3>1. req' = req \/ \E a : Go(b, a)
      BY <1>3 DEF Serve, Index, OpenPage, Logout, Respond, Kill, LookUp, open_icat, Query, update_cache,
         cull_invalid, Permissions, SaveUser, LogIn, check_permissions
    <3> QED
      BY <3>1, OwnStep
  <2>3. Recent(said, now, req'[b])
    BY <1>3, RequestRecent, CacheRecent, AnswerRecent DEF Serve
  <2> QED
    BY <1>2, <1>3, <2>1, <2>2, <2>3, RowsRecent
<1>4. CASE Tick
  <2>1. now' = now + 1 /\ cache' = cache /\ req' = req
    BY <1>4 DEF Tick
  <2>2. \A c \in Browsers : req[c].pc # "idle" => now' - req[c].start <= Patience
    BY <1>1, <1>2, <1>4, <2>1, TimeAssumption DEF Tick, RequestTypes
  <2>3. \A c \in Browsers : Recent(said', now', req'[c])
    BY <1>1, <1>2, <2>1, <2>2, RecentGrows
  <2>4. \A i \in DOMAIN cache' : RowRecent(said', now', cache'[i])
    BY <1>1, <1>2, <2>1, RowGrows
  <2> QED
    BY <1>1, <2>3, <2>4, RecentPrimed
<1>5. CASE now' = now /\ cache' = cache /\ req' = req
  <2>1. \A c \in Browsers : Recent(said', now', req'[c])
    BY <1>1, <1>2, <1>5, RecentGrows DEF Recent
  <2>2. \A i \in DOMAIN cache' : RowRecent(said', now', cache'[i])
    BY <1>1, <1>2, <1>5, RowGrows
  <2> QED
    BY <1>1, <2>1, <2>2, RecentPrimed
<1>6. CASE \E b \in Browsers : Serve(b)
  BY <1>1, <1>3, <1>6, RecentPrimed
<1>7. Tick \/ (\E b \in Browsers : Serve(b)) \/ (now' = now /\ cache' = cache /\ req' = req)
  BY DEF Next, ChangeRights, Fail, Return, vars
<1> QED
  BY <1>4, <1>5, <1>6, <1>7

-----------------------------------------------------------------------------
(***************************************************************************)
(* Each step leaves in the cache what requests that cull count on.         *)
(***************************************************************************)
LEMMA OldFacts ==
  ASSUME TypeOK, ShapeInv, CullInv, NEW c \in Browsers
  PROVE  /\ nextId \in Nat \ {0} /\ DOMAIN cache \subseteq 1..nextId - 1
         /\ Shape(req[c]) /\ OldRows(cache, nextId, req[c])
BY DEF TypeOK, ShapeInv, CullInv

\* A row that has been culled was no newer than one that the culling request left there.
LEMMA CullLeaves ==
  ASSUME TypeOK, ShapeInv, CullInv, NEW b \in Browsers, cull_invalid(b), NEW i \in DOMAIN cache
  PROVE  \E k \in DOMAIN cache' : cache'[k].of = cache[i].of /\ i <= k
<1> DEFINE q == req[b]
<1>1. /\ q.pc = "cull" /\ DOMAIN cache' = DOMAIN cache \ q.old
      /\ \A k \in DOMAIN cache' : cache'[k] = cache[k]
  BY DEF cull_invalid, At, Culled
<1>2. /\ nextId \in Nat /\ DOMAIN cache \subseteq 1..nextId - 1 /\ q.old \subseteq 1..nextId - 1
      /\ \A o \in q.old \cap DOMAIN cache : cache[o].of = Subject(q)
      /\ \E k \in DOMAIN cache : cache[k].of = Subject(q) /\ \A o \in q.old : o < k
  BY <1>1, OldFacts DEF OldRows, Refreshing
<1>3. i \in Nat
  BY <1>2
<1>4. CASE i \notin q.old
  BY <1>1, <1>3, <1>4
<1>5. CASE i \in q.old
  <2>1. PICK k \in DOMAIN cache : cache[k].of = Subject(q) /\ \A o \in q.old : o < k
    BY <1>2
  <2>2. k \in Nat /\ \A o \in q.old : o \in Nat
    BY <1>2
  <2>3. k \notin q.old /\ i < k /\ cache[i].of = Subject(q)
    BY <1>2, <1>5, <2>1, <2>2
  <2> QED
    BY <1>1, <1>3, <2>1, <2>2, <2>3
<1> QED
  BY <1>4, <1>5

\* What others do to the cache leaves a request what it counts on.
LEMMA OthersCull ==
  ASSUME TypeOK, ShapeInv, CullInv, NEW b \in Browsers, Serve(b), NEW c \in Browsers
  PROVE  OldRows(cache', nextId', req[c])
<1> DEFINE q == req[c]
<1>1. /\ nextId \in Nat \ {0} /\ DOMAIN cache \subseteq 1..nextId - 1
      /\ Shape(q) /\ OldRows(cache, nextId, q)
  BY OldFacts
<1>2. CASE cache' = cache /\ nextId' = nextId
  BY <1>1, <1>2
<1>3. CASE update_cache(b)
  <2>1. nextId' = nextId + 1 /\ \E row : cache' = Put(cache, nextId, row)
    BY <1>3 DEF update_cache, Next_id
  <2>2. DOMAIN cache' = DOMAIN cache \cup {nextId} /\ \A i \in DOMAIN cache \ {nextId} : cache'[i] = cache[i]
    BY <2>1 DEF Put
  <2>3. nextId \notin DOMAIN cache /\ nextId \notin 1..nextId - 1 /\ 1..nextId - 1 \subseteq 1..nextId' - 1
    BY <1>1, <2>1
  <2>4. ASSUME q.pc \in Refreshing PROVE OldRows(cache', nextId', q)
    <3>1. q.old \subseteq 1..nextId' - 1
      BY <1>1, <2>3, <2>4 DEF OldRows
    <3>2. \A o \in q.old \cap DOMAIN cache' : cache'[o].of = Subject(q)
      BY <1>1, <2>2, <2>3, <2>4 DEF OldRows
    <3>3. q.pc = "cull" => \E k \in DOMAIN cache' : cache'[k].of = Subject(q) /\ \A o \in q.old : o < k
      BY <1>1, <2>2, <2>3, <2>4 DEF OldRows
    <3> QED
      BY <3>1, <3>2, <3>3 DEF OldRows
  <2> QED
    BY <2>4 DEF OldRows
<1>4. CASE cull_invalid(b)
  <2>1. /\ nextId' = nextId /\ DOMAIN cache' \subseteq DOMAIN cache
        /\ \A k \in DOMAIN cache' : cache'[k] = cache[k]
    BY <1>4 DEF cull_invalid
  <2>2. ASSUME q.pc \in Refreshing PROVE OldRows(cache', nextId', q)
    <3>1. q.old \subseteq 1..nextId' - 1 /\ \A o \in q.old \cap DOMAIN cache' : cache'[o].of = Subject(q)
      BY <1>1, <2>1, <2>2 DEF OldRows
    <3>2. ASSUME q.pc = "cull"
          PROVE  \E k \in DOMAIN cache' : cache'[k].of = Subject(q) /\ \A o \in q.old : o < k
      <4>1. PICK i \in DOMAIN cache : cache[i].of = Subject(q) /\ \A o \in q.old : o < i
        BY <1>1, <2>2, <3>2 DEF OldRows
      <4>2. PICK k \in DOMAIN cache' : cache'[k].of = cache[i].of /\ i <= k
        BY <1>4, CullLeaves
      <4>3. i \in Nat /\ k \in Nat /\ \A o \in q.old : o \in Nat
        BY <1>1, <2>1, <2>2 DEF OldRows
      <4> QED
        BY <4>1, <4>2, <4>3
    <3> QED
      BY <3>1, <3>2 DEF OldRows
  <2> QED
    BY <2>2 DEF OldRows
<1>5. (cache' = cache /\ nextId' = nextId) \/ cull_invalid(b) \/ update_cache(b)
  BY DEF Serve, Index, OpenPage, Logout, Respond, Kill, LookUp, open_icat, Query,
     Permissions, SaveUser, LogIn, check_permissions
<1> QED
  BY <1>2, <1>3, <1>4, <1>5

\* A request that does not refresh a row culls none.
LEMMA NotRefreshing ==
  ASSUME NEW rows, NEW next, NEW q, q.pc \in {"idle", "look", "user", "welcome", "done"}
  PROVE  OldRows(rows, next, q)
BY DEF OldRows, Refreshing

LEMMA AnsweredCalm ==
  ASSUME NEW q, IsRequest(q), q.pc = "look"
  PROVE  /\ Granted(q).pc \in {"look", "done"} /\ Raised(q).pc = "done"
         /\ \A outcome : Answered(q, outcome).pc = "done"
<1>1. \A outcome : Answered(q, outcome).pc = "done"
  BY DEF Answered, Idle
<1>2. Granted(q).pc \in {"look", "done"}
  BY GrantedRequest
<1> QED
  BY <1>1, <1>2 DEF Raised

LEMMA CheckedCalm ==
  ASSUME NEW q, Shape(q), q.pc = "look", q.asks = "none", q.page # LogInPage
  PROVE  Checked(q).pc \in {"look", "done"}
<1>1. IsRequest(q) /\ Opening(q) /\ q.page \in Pages
  BY DEF Shape, RequestTypes
<1> DEFINE a == [q EXCEPT !.asks = "associated"]
           Calm(x) == x.pc \in {"look", "done"}
<1>2. Calm(Granted(q)) /\ Calm(Raised(q)) /\ Calm(Answered(q, "granted")) /\ Calm(Answered(q, "denied"))
  BY <1>1, AnsweredCalm
<1>3. Calm(a)
  BY <1>1 DEF IsRequest, Fields
<1>4. Checked(q) \in {Granted(q), a, Raised(q), Answered(q, "granted"), Answered(q, "denied")}
  <2>1. \/ q.page.kind \in {"instrument", "run", "experiment", "summary"} /\ q.outcome = "none"
        \/ q.outcome = "granted"
    BY <1>1, PageKinds DEF Opening
  <2> QED
    BY <2>1 DEF Checked, CheckInstrument, CheckExperiment, a
<1> HIDE DEF Calm, a
<1>5. Calm(Checked(q))
  BY <1>2, <1>3, <1>4
<1> QED
  BY <1>5 DEF Calm

LEMMA OwnCull ==
  ASSUME TypeOK, ShapeInv, CullInv, NEW b \in Browsers, Serve(b)
  PROVE  OldRows(cache', nextId', req'[b])
<1> DEFINE q == req[b]
<1>1. /\ nextId \in Nat \ {0} /\ DOMAIN cache \subseteq 1..nextId - 1
      /\ Shape(q) /\ IsRequest(q) /\ OldRows(cache, nextId, q)
  BY OldFacts DEF Shape, RequestTypes
<1>2. ASSUME NEW a, Go(b, a), OldRows(cache', nextId', a) PROVE OldRows(cache', nextId', req'[b])
  BY <1>2, OwnStep
<1>3. Raised(q).pc = "done" /\ OldRows(cache', nextId', Raised(q))
  BY AnsweredRequest, NotRefreshing DEF Raised
<1>4. CASE (\E u \in Users : Index(b, u)) \/ Respond(b) \/ Kill(b)
  <2>1. \E a : Go(b, a) /\ a.pc \in {"look", "idle"}
    BY <1>4, NewRequest, IdleShape DEF Index, Respond, Kill
  <2> QED
    BY <1>2, <2>1, NotRefreshing
<1>5. ASSUME NEW page \in Pages, OpenPage(b, page) PROVE OldRows(cache', nextId', req'[b])
  <2> DEFINE a == Opened(session[b].user, page)
  <2>1. IsRequest(a) /\ a.pc = "look"
    <3>1. IsRequest(Request(page, session[b].user, "owned")) /\ Request(page, session[b].user, "owned").pc = "look"
      BY NewRequest
    <3> QED
      BY <3>1 DEF Opened, IsRequest, Fields
  <2>2. Go(b, Granted(a)) \/ Go(b, Answered(a, "denied")) \/ Go(b, a)
    BY <1>5 DEF OpenPage, Opened
  <2> HIDE DEF a
  <2>3. \E x : Go(b, x) /\ x.pc \in {"look", "done"}
    BY <2>1, <2>2, AnsweredCalm
  <2> QED
    BY <1>2, <2>3, NotRefreshing
<1>6. CASE Logout(b)
  <2>1. req' = req /\ cache' = cache /\ nextId' = nextId
    BY <1>6 DEF Logout
  <2> QED
    BY <1>1, <2>1
<1>7. CASE LookUp(b)
  <2>1. q.pc = "look" /\ cache' = cache /\ nextId' = nextId
    BY <1>7 DEF LookUp, At
  <2> DEFINE a == [q EXCEPT !.pc = IF q.connected THEN "query" ELSE "open", !.old = Rows(Subject(q)),
                            !.column = FirstColumn(Subject(q))]
  <2>2. ASSUME NEW i, Go(b, Use(q, cache[i].says)) PROVE OldRows(cache', nextId', req'[b])
    <3>1. Use(q, cache[i].says).pc = "look"
      BY <1>1, UsedRequest
    <3> QED
      BY <1>2, <2>2, <3>1, NotRefreshing
  <2>3. CASE Go(b, a)
    <3>1. a.pc \in {"open", "query"} /\ a.old = Rows(Subject(q)) /\ Subject(a) = Subject(q)
      BY <1>1 DEF IsRequest, Fields, Subject
    <3> HIDE DEF a
    <3>2. OldRows(cache, nextId, a)
      BY <1>1, <3>1 DEF OldRows, Rows
    <3> QED
      BY <1>2, <2>1, <2>3, <3>2
  <2> QED
    BY <1>7, <2>2, <2>3 DEF LookUp
<1>8. CASE open_icat(b)
  <2>1. q.pc = "open" /\ cache' = cache /\ nextId' = nextId
    BY <1>8 DEF open_icat, At
  <2> DEFINE a == [q EXCEPT !.pc = "query", !.connected = TRUE]
  <2>2. CASE Go(b, a)
    <3>1. a.pc = "query" /\ a.old = q.old /\ Subject(a) = Subject(q)
      BY <1>1 DEF IsRequest, Fields, Subject
    <3> HIDE DEF a
    <3>2. OldRows(cache, nextId, a)
      BY <1>1, <2>1, <3>1 DEF OldRows, Refreshing
    <3> QED
      BY <1>2, <2>1, <2>2, <3>2
  <2> QED
    BY <1>2, <1>3, <1>8, <2>2 DEF open_icat
<1>9. CASE Query(b)
  <2>1. q.pc = "query" /\ cache' = cache /\ nextId' = nextId
    BY <1>9 DEF Query, At
  <2> DEFINE learned(value) ==
               [q EXCEPT !.pc = IF ColumnAfter(q.column) = "none" THEN "save" ELSE "query",
                         !.column = ColumnAfter(@), !.says = Put(@, q.column, value)]
  <2>2. ASSUME NEW value, Go(b, learned(value)) PROVE OldRows(cache', nextId', req'[b])
    <3> DEFINE a == learned(value)
    <3>1. a.pc \in {"query", "save"} /\ a.old = q.old /\ Subject(a) = Subject(q)
      BY <1>1 DEF IsRequest, Fields, Subject
    <3>2. Go(b, a)
      BY <2>2
    <3> HIDE DEF a
    <3>3. OldRows(cache, nextId, a)
      BY <1>1, <2>1, <3>1 DEF OldRows, Refreshing
    <3> QED
      BY <1>2, <2>1, <3>2, <3>3
  <2>3. (\E value : Go(b, learned(value))) \/ Go(b, Raised(q))
    BY <1>9 DEF Query
  <2> HIDE DEF learned
  <2> QED
    BY <1>2, <1>3, <2>2, <2>3
<1>10. CASE update_cache(b)
  <2> DEFINE a == [q EXCEPT !.pc = "cull"]
             row == [of |-> Subject(q), created |-> now, says |-> q.says]
  <2>1. q.pc = "save" /\ cache' = Put(cache, nextId, row) /\ nextId' = nextId + 1 /\ Go(b, a)
    BY <1>10 DEF update_cache, Next_id, At
  <2>2. a.pc = "cull" /\ a.old = q.old /\ Subject(a) = Subject(q)
    BY <1>1 DEF IsRequest, Fields, Subject
  <2>3. row.of = Subject(q)
    OBVIOUS
  <2> HIDE DEF a, row
  <2>4. /\ DOMAIN cache' = DOMAIN cache \cup {nextId} /\ cache'[nextId] = row
        /\ \A i \in DOMAIN cache \ {nextId} : cache'[i] = cache[i]
    BY <2>1 DEF Put
  <2>5. /\ q.old \subseteq 1..nextId - 1 /\ nextId \notin 1..nextId - 1 /\ 1..nextId - 1 \subseteq 1..nextId' - 1
        /\ \A o \in q.old : o < nextId
    BY <1>1, <2>1 DEF OldRows, Refreshing
  <2>6. \A o \in q.old \cap DOMAIN cache' : cache'[o].of = Subject(q)
    BY <1>1, <2>1, <2>4, <2>5 DEF OldRows, Refreshing
  <2>7. OldRows(cache', nextId', a)
    BY <2>2, <2>3, <2>4, <2>5, <2>6 DEF OldRows
  <2> QED
    BY <1>2, <2>1, <2>7
<1>11. CASE cull_invalid(b)
  <2>1. Go(b, Use(q, q.says))
    BY <1>11 DEF cull_invalid
  <2>2. Use(q, q.says).pc = "look"
    BY <1>1, UsedRequest
  <2> QED
    BY <1>2, <2>1, <2>2, NotRefreshing
<1>12. CASE Permissions(b) \/ SaveUser(b)
  <2>1. [q EXCEPT !.pc = "user"].pc = "user" /\ [q EXCEPT !.pc = "welcome"].pc = "welcome"
    BY <1>1 DEF IsRequest, Fields
  <2>2. \E a : Go(b, a) /\ a.pc \in {"done", "user", "welcome"}
    BY <1>3, <1>12, <2>1 DEF Permissions, SaveUser, Closed
  <2> QED
    BY <1>2, <2>2, NotRefreshing
<1>13. CASE LogIn(b)
  <2>1. Go(b, Answered(q, "granted")) /\ Answered(q, "granted").pc = "done"
    BY <1>13, AnsweredRequest DEF LogIn
  <2> QED
    BY <1>2, <2>1, NotRefreshing
<1>14. CASE check_permissions(b)
  <2>1. q.pc = "look" /\ q.asks = "none" /\ q.page # LogInPage
    BY <1>14 DEF check_permissions, AtEnd, At
  <2>2. Go(b, Raised(q)) \/ Go(b, Checked(q))
    BY <1>14 DEF check_permissions, Closed
  <2> QED
    BY <1>1, <1>2, <1>3, <2>1, <2>2, CheckedCalm, NotRefreshing
<1> QED
  BY <1>4, <1>5, <1>6, <1>7, <1>8, <1>9, <1>10, <1>11, <1>12, <1>13, <1>14 DEF Serve

LEMMA CullPrimed ==
  ASSUME \A c \in Browsers : OldRows(cache', nextId', req'[c])
  PROVE  CullInv'
BY DEF CullInv, OldRows, Refreshing, Subject

LEMMA CullStep ==
  ASSUME TypeOK, ShapeInv, CullInv, [Next]_vars
  PROVE  CullInv'
<1>1. ASSUME NEW b \in Browsers, Serve(b) PROVE CullInv'
  <2>1. \A c \in Browsers \ {b} : req'[c] = req[c]
    <3>1. req' = req \/ \E a : Go(b, a)
      BY <1>1 DEF Serve, Index, OpenPage, Logout, Respond, Kill, LookUp, open_icat, Query, update_cache,
         cull_invalid, Permissions, SaveUser, LogIn, check_permissions
    <3> QED
      BY <3>1, OwnStep
  <2>2. OldRows(cache', nextId', req'[b])
    BY <1>1, OwnCull
  <2>3. \A c \in Browsers : OldRows(cache', nextId', req[c])
    BY <1>1, OthersCull
  <2> QED
    BY <2>1, <2>2, <2>3, CullPrimed
<1>2. CASE cache' = cache /\ nextId' = nextId /\ req' = req
  BY <1>2, CullPrimed DEF CullInv
<1>3. (\E b \in Browsers : Serve(b)) \/ (cache' = cache /\ nextId' = nextId /\ req' = req)
  BY DEF Next, ChangeRights, Fail, Return, Tick, vars
<1> QED
  BY <1>1, <1>2, <1>3

-----------------------------------------------------------------------------
(***************************************************************************)
(* Each step leaves the flags of administrators as recent as they should   *)
(* be: of those being logged in, of those logged in, and of who opened.    *)
(***************************************************************************)
LEMMA FlagGrows ==
  ASSUME NEW s \in Histories, NEW later \in Histories, Grows(s, later), NEW flags, NEW u \in Users,
         NEW t \in Int, NEW t2 \in Int, t2 <= t, FlagSince(s, flags, u, t)
  PROVE  FlagSince(later, flags, u, t2)
<1>1. Since(s, u, t) \subseteq Since(later, u, t2)
  BY SinceGrows
<1> QED
  BY <1>1 DEF FlagSince

LEMMA WelcomedGrows ==
  ASSUME NEW s \in Histories, NEW later \in Histories, Grows(s, later), NEW flags, NEW q, RequestTypes(q),
         Welcomed(s, flags, q)
  PROVE  Welcomed(later, flags, q)
<1>1. q.pc = "welcome" => q.user \in Users /\ q.start - (Lifetime - 1) - 2 * Patience \in Int
  BY TimeAssumption DEF RequestTypes
<1> QED
  BY <1>1, FlagGrows DEF Welcomed

LEMMA SuperGrows ==
  ASSUME NEW s \in Histories, NEW later \in Histories, Grows(s, later), NEW q, RequestTypes(q), SuperRecent(s, q)
  PROVE  SuperRecent(later, q)
<1> DEFINE t == q.start - (SessionAge - 1) - (Lifetime - 1) - 3 * Patience
<1>1. q.pc # "idle" => q.user \in Users /\ t \in Int
  BY TimeAssumption DEF RequestTypes
<1>2. q.pc # "idle" => Since(s, q.user, t) \subseteq Since(later, q.user, t)
  BY <1>1, SinceGrows
<1> QED
  BY <1>2 DEF SuperRecent

\* What a request that is answered, or goes on, was opened with.
LEMMA SuperSame ==
  ASSUME NEW s, NEW q, q.pc # "idle", SuperRecent(s, q), NEW a, a.user = q.user, a.start = q.start, a.super = q.super,
         ~q.super \/ a.outcome = q.outcome \/ a.outcome # "granted"
  PROVE  SuperRecent(s, a)
BY DEF SuperRecent

LEMMA AnsweredSuper ==
  ASSUME NEW s, NEW q, q.pc # "idle", SuperRecent(s, q), NEW outcome,
         ~q.super \/ outcome = q.outcome \/ outcome # "granted"
  PROVE  SuperRecent(s, Answered(q, outcome))
<1> DEFINE a == Answered(q, outcome)
<1>1. a.user = q.user /\ a.start = q.start /\ a.outcome = outcome
  BY AnsweredRequest
<1>2. a.super = q.super
  BY AnsweredRequest
<1> SUFFICES SuperRecent(s, a)
  OBVIOUS
<1> HIDE DEF a
<1> QED
  BY <1>1, <1>2, SuperSame

LEMMA RaisedSuper ==
  ASSUME NEW s, NEW q, q.pc # "idle", SuperRecent(s, q)
  PROVE  SuperRecent(s, Raised(q))
<1>1. CASE q.outcome = "granted"
  BY <1>1, AnsweredSuper DEF Raised
<1>2. CASE q.outcome # "granted"
  BY <1>2, AnsweredSuper DEF Raised
<1> QED
  BY <1>1, <1>2

LEMMA GrantedSuper ==
  ASSUME NEW s, NEW q, IsRequest(q), ~q.super
  PROVE  SuperRecent(s, Granted(q))
<1> DEFINE a == Granted(q)
<1>1. a.super = q.super
  BY GrantedRequest
<1> SUFFICES SuperRecent(s, a)
  OBVIOUS
<1> HIDE DEF a
<1> QED
  BY <1>1 DEF SuperRecent

LEMMA CheckedSuper ==
  ASSUME NEW s, NEW q, Shape(q), q.pc = "look", q.asks = "none", q.page # LogInPage, SuperRecent(s, q)
  PROVE  SuperRecent(s, Checked(q))
<1>1. IsRequest(q) /\ Opening(q) /\ q.page \in Pages
  BY DEF Shape, RequestTypes
<1>2. SuperRecent(s, Raised(q))
  BY RaisedSuper
<1>3. CASE q.outcome = "granted"
  <2>1. SuperRecent(s, Answered(q, "granted"))
    BY <1>3, AnsweredSuper
  <2> QED
    BY <1>3, <2>1 DEF Checked
<1>4. CASE q.outcome = "none" /\ ~q.super
  <2>1. SuperRecent(s, Granted(q)) /\ SuperRecent(s, Answered(q, "denied"))
    BY <1>1, <1>4, GrantedSuper, AnsweredSuper
  <2> DEFINE a == [q EXCEPT !.asks = "associated"]
  <2>2. a.super = q.super
    BY <1>1 DEF IsRequest, Fields
  <2>3. q.page.kind \in {"instrument", "run", "experiment", "summary"}
    BY <1>1, <1>4, PageKinds DEF Opening
  <2>4. Checked(q) \in {Granted(q), a, Raised(q), Answered(q, "denied")}
    BY <1>4, <2>3 DEF Checked, CheckInstrument, CheckExperiment
  <2> HIDE DEF a
  <2>5. SuperRecent(s, a)
    BY <1>4, <2>2 DEF SuperRecent
  <2> QED
    BY <1>2, <2>1, <2>4, <2>5
<1> QED
  BY <1>1, <1>3, <1>4 DEF Opening

Kept(a, q) == a.user = q.user /\ a.start = q.start /\ a.super = q.super /\ a.outcome = q.outcome

\* Only SaveUser makes a request welcome its user.
LEMMA GoesOn ==
  ASSUME ShapeInv, NEW b \in Browsers,
         LookUp(b) \/ open_icat(b) \/ Query(b) \/ update_cache(b) \/ cull_invalid(b) \/ Permissions(b) \/ SaveUser(b)
  PROVE  \E a : /\ Go(b, a) /\ req[b].pc # "idle" /\ (a = Raised(req[b]) \/ Kept(a, req[b]))
                /\ SaveUser(b) \/ a.pc # "welcome"
<1> DEFINE q == req[b]
           Goal == \E a : /\ Go(b, a) /\ req[b].pc # "idle" /\ (a = Raised(req[b]) \/ Kept(a, req[b]))
                          /\ SaveUser(b) \/ a.pc # "welcome"
<1>1. IsRequest(q)
  BY DEF ShapeInv, Shape, RequestTypes
<1>2. Raised(q).pc = "done"
  BY AnsweredRequest DEF Raised
<1>3. ASSUME NEW says PROVE Use(q, says).pc = "look" /\ Kept(Use(q, says), q)
  <2>1. Use(q, says).super = q.super
    BY <1>1, UsedRequest
  <2> QED
    BY <1>1, <2>1, UsedRequest DEF Kept
<1>4. CASE LookUp(b)
  <2> DEFINE a == [q EXCEPT !.pc = IF q.connected THEN "query" ELSE "open", !.old = Rows(Subject(q)),
                            !.column = FirstColumn(Subject(q))]
  <2>1. Go(b, a) \/ \E i \in DOMAIN cache : Go(b, Use(q, cache[i].says))
    BY <1>4 DEF LookUp, Newest, Rows
  <2>2. a.pc # "welcome" /\ a.user = q.user /\ a.start = q.start /\ a.outcome = q.outcome
    BY <1>1 DEF IsRequest, Fields
  <2>3. a.super = q.super
    BY <1>1 DEF IsRequest, Fields
  <2>4. q.pc = "look"
    BY <1>4 DEF LookUp, At
  <2> HIDE DEF a
  <2>5. Kept(a, q)
    BY <2>2, <2>3 DEF Kept
  <2> QED
    BY <1>3, <2>1, <2>2, <2>4, <2>5
<1>5. CASE open_icat(b)
  <2> DEFINE a == [q EXCEPT !.pc = "query", !.connected = TRUE]
  <2>1. q.pc = "open" /\ (Go(b, a) \/ Go(b, Raised(q)))
    BY <1>5 DEF open_icat, At
  <2>2. a.pc # "welcome" /\ a.user = q.user /\ a.start = q.start /\ a.outcome = q.outcome
    BY <1>1 DEF IsRequest, Fields
  <2>3. a.super = q.super
    BY <1>1 DEF IsRequest, Fields
  <2> HIDE DEF a
  <2>4. Kept(a, q)
    BY <2>2, <2>3 DEF Kept
  <2> QED
    BY <1>2, <2>1, <2>2, <2>4
<1>6. CASE Query(b)
  <2> DEFINE learned(value) ==
               [q EXCEPT !.pc = IF ColumnAfter(q.column) = "none" THEN "save" ELSE "query",
                         !.column = ColumnAfter(@), !.says = Put(@, q.column, value)]
  <2>1. q.pc = "query" /\ ((\E value : Go(b, learned(value))) \/ Go(b, Raised(q)))
    BY <1>6 DEF Query, At
  <2>2. ASSUME NEW value PROVE learned(value).pc # "welcome" /\ Kept(learned(value), q)
    <3> DEFINE a == learned(value)
    <3>1. a.pc # "welcome" /\ a.user = q.user /\ a.start = q.start /\ a.outcome = q.outcome
      BY <1>1 DEF IsRequest, Fields
    <3>2. a.super = q.super
      BY <1>1 DEF IsRequest, Fields
    <3> HIDE DEF a
    <3>3. a.pc # "welcome" /\ Kept(a, q)
      BY <3>1, <3>2 DEF Kept
    <3> QED
      BY <3>3 DEF a
  <2> HIDE DEF learned
  <2> QED
    BY <1>2, <2>1, <2>2
<1>7. CASE update_cache(b) \/ Permissions(b) \/ SaveUser(b)
  <2>1. ASSUME NEW pc PROVE [q EXCEPT !.pc = pc].pc = pc /\ Kept([q EXCEPT !.pc = pc], q)
    <3> DEFINE a == [q EXCEPT !.pc = pc]
    <3>1. a.pc = pc /\ a.user = q.user /\ a.start = q.start /\ a.outcome = q.outcome
      BY <1>1 DEF IsRequest, Fields
    <3>2. a.super = q.super
      BY <1>1 DEF IsRequest, Fields
    <3> HIDE DEF a
    <3>3. a.pc = pc /\ Kept(a, q)
      BY <3>1, <3>2 DEF Kept
    <3> QED
      BY <3>3 DEF a
  <2>2. q.pc # "idle"
    BY <1>7 DEF update_cache, Permissions, SaveUser, AtEnd, At
  <2>3. CASE update_cache(b)
    BY <2>1, <2>2, <2>3 DEF update_cache
  <2>4. CASE Permissions(b)
    <3>1. Go(b, [q EXCEPT !.pc = "user"]) \/ Go(b, Raised(q))
      BY <2>4 DEF Permissions, Closed
    <3> QED
      BY <1>2, <2>1, <2>2, <3>1
  <2>5. CASE SaveUser(b)
    BY <2>1, <2>2, <2>5 DEF SaveUser
  <2> QED
    BY <1>7, <2>3, <2>4, <2>5
<1>8. CASE cull_invalid(b)
  BY <1>3, <1>8 DEF cull_invalid, At
<1> QED
  BY <1>4, <1>5, <1>6, <1>7, <1>8

LEMMA ServeSuper ==
  ASSUME TypeOK, ShapeInv, FlagInv, NEW b \in Browsers, Serve(b)
  PROVE  SuperRecent(said, req'[b])
<1> DEFINE q == req[b]
<1>1. /\ Shape(q) /\ IsRequest(q) /\ SuperRecent(said, q)
      /\ now \in Nat /\ said \in Histories /\ Grows(said, said)
  BY TypeFacts, SaidSame DEF ShapeInv, FlagInv, Shape, RequestTypes
<1>2. ASSUME NEW a, Go(b, a), SuperRecent(said, a) PROVE SuperRecent(said, req'[b])
  BY <1>2, OwnStep
<1>3. CASE LookUp(b) \/ open_icat(b) \/ Query(b) \/ update_cache(b) \/ cull_invalid(b) \/ Permissions(b) \/ SaveUser(b)
  <2>1. PICK a : Go(b, a) /\ q.pc # "idle" /\ (a = Raised(q) \/ Kept(a, q))
    BY <1>3, GoesOn
  <2>2. Kept(a, q) => SuperRecent(said, a)
    BY <1>1, <2>1, SuperSame DEF Kept
  <2>3. SuperRecent(said, Raised(q))
    BY <1>1, <2>1, RaisedSuper
  <2> QED
    BY <1>2, <2>1, <2>2, <2>3
<1>4. ASSUME NEW u \in Users, Index(b, u) PROVE SuperRecent(said, req'[b])
  <2> DEFINE a == Request(LogInPage, u, "admin")
  <2>1. a.super \in BOOLEAN /\ ~a.super
    BY NewRequest
  <2>2. Go(b, a)
    BY <1>4 DEF Index
  <2> HIDE DEF a
  <2>3. SuperRecent(said, a)
    BY <2>1 DEF SuperRecent
  <2> QED
    BY <1>2, <2>2, <2>3
<1>5. ASSUME NEW page \in Pages, OpenPage(b, page) PROVE SuperRecent(said, req'[b])
  <2> DEFINE u == session[b].user
             a == Opened(u, page)
  <2>1. /\ u \in Users /\ users \in [Users -> BOOLEAN] /\ session[b].since \in Nat
    BY <1>1, <1>5 DEF OpenPage, has_valid_login, TypeOK
  <2>2. /\ RequestTypes(a) /\ a.pc = "look" /\ a.page = page /\ a.user = u /\ a.start = now
        /\ a.super = (users[u] \/ page.kind = "admin") /\ a.outcome = "none"
    BY <1>1, <2>1, OpenedRequest
  <2>3. Go(b, IF users[u] THEN Granted(a)
              ELSE IF page.kind = "admin" THEN Answered(a, "denied") ELSE a)
    BY <1>5 DEF OpenPage, Opened
  <2> HIDE DEF a
  <2>4. CASE users[u]
    <3> DEFINE g == Granted(a)
    <3>1. g.user = u /\ g.start = now
      BY <2>2, GrantedRequest DEF RequestTypes
    <3> HIDE DEF g
    <3> DEFINE since == session[b].since - (Lifetime - 1) - 3 * Patience
               back == now - (SessionAge - 1) - (Lifetime - 1) - 3 * Patience
    <3>2. now < session[b].since + SessionAge /\ FlagSince(said, users, u, since)
      BY <2>1, UsersAssumption DEF FlagInv, SessionFlag
    <3>3. since \in Int /\ back \in Int /\ back <= since
      BY <1>1, <2>1, <3>2, TimeAssumption
    <3>4. FlagSince(said, users, u, back)
      BY <1>1, <2>1, <3>2, <3>3, FlagGrows
    <3>5. \E r \in Since(said, u, back) : r.admin
      BY <2>4, <3>4 DEF FlagSince
    <3>6. SuperRecent(said, g)
      BY <3>1, <3>5 DEF SuperRecent
    <3> QED
      BY <1>2, <2>3, <2>4, <3>6 DEF g
  <2>5. CASE ~users[u]
    <3>1. SuperRecent(said, a)
      BY <2>2 DEF SuperRecent
    <3>2. SuperRecent(said, Answered(a, "denied"))
      BY <2>2, <3>1, AnsweredSuper
    <3> QED
      BY <1>2, <2>3, <2>5, <3>1, <3>2
  <2> QED
    BY <2>4, <2>5
<1>6. CASE Logout(b)
  BY <1>1, <1>6 DEF Logout
<1>7. CASE Respond(b) \/ Kill(b)
  <2>1. Go(b, Idle) /\ SuperRecent(said, Idle)
    BY <1>7, IdleShape DEF Respond, Kill, SuperRecent
  <2> QED
    BY <1>2, <2>1
<1>8. CASE LogIn(b)
  <2>1. q.pc = "welcome" /\ Go(b, Answered(q, "granted"))
    BY <1>8 DEF LogIn, At
  <2>2. ~q.super
    BY <1>1, <2>1 DEF Shape, LoggingIn
  <2>3. SuperRecent(said, Answered(q, "granted"))
    BY <1>1, <2>1, <2>2, AnsweredSuper
  <2> QED
    BY <1>2, <2>1, <2>3
<1>9. CASE check_permissions(b)
  <2>1. q.pc = "look" /\ q.asks = "none" /\ q.page # LogInPage
    BY <1>9 DEF check_permissions, AtEnd, At
  <2>2. Go(b, Raised(q)) \/ Go(b, Checked(q))
    BY <1>9 DEF check_permissions, Closed
  <2>3. SuperRecent(said, Raised(q)) /\ SuperRecent(said, Checked(q))
    BY <1>1, <2>1, RaisedSuper, CheckedSuper
  <2> QED
    BY <1>2, <2>2, <2>3
<1> QED
  BY <1>3, <1>4, <1>5, <1>6, <1>7, <1>8, <1>9 DEF Serve

\* The flag that a log-in saves is what ICAT said within a lifetime and two requests.
LEMMA SavedFlag ==
  ASSUME TypeOK, ShapeInv, RecentInv, NEW b \in Browsers, SaveUser(b)
  PROVE  /\ users' \in [Users -> BOOLEAN] /\ \A u \in Users \ {req[b].user} : users'[u] = users[u]
         /\ FlagSince(said, users', req[b].user, now - (Lifetime - 1) - 2 * Patience)
<1> DEFINE q == req[b]
           u == q.user
           back == now - (Lifetime - 1) - 2 * Patience
<1>1. /\ Shape(q) /\ RequestTypes(q) /\ Recent(said, now, q) /\ q.pc = "user"
      /\ now \in Nat /\ said \in Histories /\ Grows(said, said) /\ users \in [Users -> BOOLEAN]
  BY TypeFacts, SaidSame DEF ShapeInv, RecentInv, Shape, SaveUser, At, TypeOK
<1>2. u \in Users /\ "admin" \in DOMAIN q.got
  BY <1>1 DEF Shape, RequestTypes, LoggingIn
<1>3. PICK r \in Since(said, u, Oldest(q)) : q.got["admin"] = Says(r, "admin")
  BY <1>1, <1>2 DEF Recent, GotRecent
<1>4. r \in Rights /\ Says(r, "admin") = r.admin
  BY <1>3 DEF Since, Says
<1>5. r.admin \in BOOLEAN
  BY <1>4, RightsAssumption
<1>6. users' = [users EXCEPT ![u] = q.got["admin"]]
  BY DEF SaveUser, is_superuser
<1>7. q.got["admin"] = r.admin
  BY <1>3, <1>4
<1>8. users' \in [Users -> BOOLEAN] /\ users'[u] = r.admin /\ \A v \in Users \ {u} : users'[v] = users[v]
  BY <1>1, <1>2, <1>5, <1>6, <1>7
<1>9. Oldest(q) \in Int /\ back \in Int /\ back <= Oldest(q)
  BY <1>1, TimeAssumption DEF Recent, RequestTypes, Oldest
<1>10. r \in Since(said, u, back)
  BY <1>1, <1>2, <1>3, <1>9, SinceGrows
<1> HIDE DEF back, u
<1>11. FlagSince(said, users', u, back)
  BY <1>8, <1>10 DEF FlagSince
<1> QED
  BY <1>8, <1>11 DEF u, back

LEMMA ServeFlags ==
  ASSUME TypeOK, ShapeInv, RecentInv, FlagInv, NEW b \in Browsers, Serve(b), NEW u \in Users,
         NEW t \in Int, t <= now - (Lifetime - 1) - 2 * Patience, FlagSince(said, users, u, t)
  PROVE  FlagSince(said, users', u, t)
<1>1. users' = users \/ SaveUser(b)
  BY DEF Serve, Index, OpenPage, Logout, Respond, Kill, LookUp, open_icat, Query, update_cache,
     cull_invalid, Permissions, LogIn, check_permissions
<1>2. CASE users' = users
  BY <1>2 DEF FlagSince
<1>3. CASE SaveUser(b)
  <2>1. CASE u = req[b].user
    <3>1. now - (Lifetime - 1) - 2 * Patience \in Int /\ said \in Histories /\ Grows(said, said)
      BY TypeFacts, SaidSame, TimeAssumption
    <3>2. FlagSince(said, users', u, now - (Lifetime - 1) - 2 * Patience)
      BY <1>3, <2>1, SavedFlag
    <3> QED
      BY <3>1, <3>2, FlagGrows
  <2>2. CASE u # req[b].user
    BY <1>3, <2>2, SavedFlag DEF FlagSince
  <2> QED
    BY <2>1, <2>2
<1> QED
  BY <1>1, <1>2, <1>3

LEMMA ServeWelcomed ==
  ASSUME TypeOK, ShapeInv, RecentInv, FlagInv, NEW b \in Browsers, Serve(b), NEW c \in Browsers
  PROVE  Welcomed(said, users', req'[c])
<1>1. /\ now \in Nat /\ said \in Histories /\ Shape(req[b]) /\ RequestTypes(req[c])
      /\ Welcomed(said, users, req[c]) /\ Recent(said, now, req[c]) /\ Recent(said, now, req[b])
  BY TypeFacts DEF ShapeInv, RecentInv, FlagInv, Shape
<1>2. ASSUME req'[c] = req[c] PROVE Welcomed(said, users', req'[c])
  <2> SUFFICES ASSUME req[c].pc = "welcome" PROVE Welcomed(said, users', req[c])
    BY <1>2 DEF Welcomed
  <2> DEFINE t == req[c].start - (Lifetime - 1) - 2 * Patience
  <2>1. req[c].user \in Users /\ t \in Int /\ t <= now - (Lifetime - 1) - 2 * Patience
    BY <1>1, TimeAssumption DEF RequestTypes, Recent
  <2>2. FlagSince(said, users, req[c].user, t)
    BY <1>1 DEF Welcomed
  <2> HIDE DEF t
  <2>3. FlagSince(said, users', req[c].user, t)
    BY <2>1, <2>2, ServeFlags
  <2> QED
    BY <2>3 DEF Welcomed, t
<1>3. CASE c # b
  <2>1. req' = req \/ \E a : Go(b, a)
    BY DEF Serve, Index, OpenPage, Logout, Respond, Kill, LookUp, open_icat, Query, update_cache,
       cull_invalid, Permissions, SaveUser, LogIn, check_permissions
  <2> QED
    BY <1>2, <1>3, <2>1, OwnStep
<1>4. CASE c = b /\ SaveUser(b)
  <2> DEFINE q == req[b]
             a == [q EXCEPT !.pc = "welcome"]
             t == q.start - (Lifetime - 1) - 2 * Patience
  <2>1. a.user = q.user /\ a.start = q.start
    BY <1>1 DEF Shape, RequestTypes, IsRequest, Fields
  <2>2. Go(b, a) /\ q.pc = "user"
    BY <1>4 DEF SaveUser, At
  <2> HIDE DEF a
  <2>3. /\ q.user \in Users /\ t \in Int /\ t <= now - (Lifetime - 1) - 2 * Patience
        /\ now - (Lifetime - 1) - 2 * Patience \in Int
    BY <1>1, <1>4, <2>2, TimeAssumption DEF RequestTypes, Recent
  <2>4. FlagSince(said, users', q.user, now - (Lifetime - 1) - 2 * Patience)
    BY <1>4, SavedFlag
  <2>5. FlagSince(said, users', q.user, t)
    BY <1>1, <2>3, <2>4, SaidSame, FlagGrows
  <2>6. Welcomed(said, users', a)
    BY <2>1, <2>5 DEF Welcomed
  <2> QED
    BY <1>4, <2>2, <2>6, OwnStep
<1>5. CASE c = b /\ ~SaveUser(b)
  <2> SUFFICES req' = req \/ \E a : Go(b, a) /\ a.pc # "welcome"
    BY <1>2, <1>5, OwnStep DEF Welcomed
  <2> DEFINE q == req[b]
  <2>1. CASE LookUp(b) \/ open_icat(b) \/ Query(b) \/ update_cache(b) \/ cull_invalid(b) \/ Permissions(b)
    BY <1>5, <2>1, GoesOn, AnsweredRequest DEF Raised
  <2>2. CASE (\E u \in Users : Index(b, u)) \/ Respond(b) \/ Kill(b) \/ Logout(b)
    BY <2>2, NewRequest, IdleShape DEF Index, Respond, Kill, Logout
  <2>3. ASSUME NEW page \in Pages, OpenPage(b, page) PROVE \E a : Go(b, a) /\ a.pc # "welcome"
    <3> DEFINE a == Opened(session[b].user, page)
    <3>1. IsRequest(a) /\ a.pc = "look"
      <4>1. IsRequest(Request(page, session[b].user, "owned")) /\ Request(page, session[b].user, "owned").pc = "look"
        BY NewRequest
      <4> QED
        BY <4>1 DEF Opened, IsRequest, Fields
    <3>2. Go(b, Granted(a)) \/ Go(b, Answered(a, "denied")) \/ Go(b, a)
      BY <2>3 DEF OpenPage, Opened
    <3> HIDE DEF a
    <3> QED
      BY <3>1, <3>2, AnsweredCalm
  <2>4. CASE LogIn(b)
    BY <2>4, AnsweredRequest DEF LogIn
  <2>5. CASE check_permissions(b)
    <3>1. q.pc = "look" /\ q.asks = "none" /\ q.page # LogInPage
      BY <2>5 DEF check_permissions, AtEnd, At
    <3>2. Go(b, Raised(q)) \/ Go(b, Checked(q))
      BY <2>5 DEF check_permissions, Closed
    <3>3. Raised(q).pc = "done"
      BY AnsweredRequest DEF Raised
    <3> QED
      BY <1>1, <3>1, <3>2, <3>3, CheckedCalm
  <2> QED
    BY <1>5, <2>1, <2>2, <2>3, <2>4, <2>5 DEF Serve
<1> QED
  BY <1>3, <1>4, <1>5

LEMMA ServeSession ==
  ASSUME TypeOK, ShapeInv, RecentInv, FlagInv, NEW b \in Browsers, Serve(b)
  PROVE  /\ session' \in [Browsers -> [user : Users \cup {NoUser}, since : 0..now]]
         /\ \A c \in Browsers : SessionFlag(said, now, users', session'[c])
<1>1. /\ now \in Nat /\ said \in Histories /\ Grows(said, said)
      /\ session \in [Browsers -> [user : Users \cup {NoUser}, since : 0..now]]
  BY TypeFacts, SaidSame DEF TypeOK
<1>2. ASSUME NEW c \in Browsers, session'[c] = session[c] PROVE SessionFlag(said, now, users', session'[c])
  <2> SUFFICES ASSUME session[c].user # NoUser PROVE SessionFlag(said, now, users', session[c])
    BY <1>2 DEF SessionFlag
  <2> DEFINE t == session[c].since - (Lifetime - 1) - 3 * Patience
  <2>1. session[c].user \in Users /\ session[c].since \in 0..now
    BY <1>1
  <2>2. t \in Int /\ t <= now - (Lifetime - 1) - 2 * Patience
    BY <1>1, <2>1, TimeAssumption
  <2>3. now < session[c].since + SessionAge /\ FlagSince(said, users, session[c].user, t)
    BY DEF FlagInv, SessionFlag
  <2> HIDE DEF t
  <2>4. FlagSince(said, users', session[c].user, t)
    BY <2>1, <2>2, <2>3, ServeFlags
  <2> QED
    BY <2>3, <2>4 DEF SessionFlag, t
<1>3. CASE session' = session
  BY <1>1, <1>2, <1>3
<1>4. CASE Logout(b)
  <2>1. session' = [session EXCEPT ![b] = Nobody]
    BY <1>4 DEF Logout
  <2>2. Nobody \in [user : Users \cup {NoUser}, since : 0..now] /\ Nobody.user = NoUser
    BY <1>1 DEF Nobody
  <2>3. session'[b] = Nobody /\ \A c \in Browsers \ {b} : session'[c] = session[c]
    BY <1>1, <2>1
  <2>4. SessionFlag(said, now, users', session'[b])
    BY <2>2, <2>3 DEF SessionFlag
  <2> QED
    BY <1>1, <1>2, <2>1, <2>2, <2>3, <2>4
<1>5. CASE LogIn(b)
  <2> DEFINE q == req[b]
             s == [user |-> q.user, since |-> now]
  <2>1. session' = [session EXCEPT ![b] = s] /\ q.pc = "welcome" /\ users' = users
    BY <1>5 DEF LogIn, At
  <2>2. RequestTypes(q) /\ Recent(said, now, q) /\ Welcomed(said, users, q)
    BY DEF ShapeInv, RecentInv, FlagInv, Shape
  <2>3. q.user \in Users
    BY <2>1, <2>2 DEF RequestTypes
  <2>4. s \in [user : Users \cup {NoUser}, since : 0..now] /\ s.user = q.user /\ s.since = now
    BY <1>1, <2>3
  <2> HIDE DEF s
  <2> DEFINE t == now - (Lifetime - 1) - 3 * Patience
             w == q.start - (Lifetime - 1) - 2 * Patience
  <2>5. t \in Int /\ w \in Int /\ t <= w /\ now < now + SessionAge
    BY <1>1, <2>1, <2>2, TimeAssumption DEF RequestTypes, Recent
  <2>6. FlagSince(said, users, q.user, w)
    BY <2>1, <2>2 DEF Welcomed
  <2>7. FlagSince(said, users', q.user, t)
    BY <1>1, <2>1, <2>3, <2>5, <2>6, FlagGrows
  <2>8. SessionFlag(said, now, users', s)
    BY <2>4, <2>5, <2>7 DEF SessionFlag
  <2>9. session'[b] = s /\ \A c \in Browsers \ {b} : session'[c] = session[c]
    BY <1>1, <2>1
  <2> QED
    BY <1>1, <1>2, <2>1, <2>4, <2>8, <2>9
<1>6. session' = session \/ Logout(b) \/ LogIn(b)
  BY DEF Serve, Index, OpenPage, Respond, Kill, LookUp, open_icat, Query, update_cache,
     cull_invalid, Permissions, SaveUser, check_permissions
<1> QED
  BY <1>3, <1>4, <1>5, <1>6

LEMMA FlagPrimed ==
  ASSUME \A b \in Browsers : SessionFlag(said', now', users', session'[b]),
         \A b \in Browsers : Welcomed(said', users', req'[b]) /\ SuperRecent(said', req'[b])
  PROVE  FlagInv'
BY DEF FlagInv, SessionFlag, Welcomed, SuperRecent, FlagSince, Since

LEMMA FlagStep ==
  ASSUME TypeOK, ShapeInv, RecentInv, FlagInv, [Next]_vars
  PROVE  FlagInv'
<1>1. /\ now \in Nat /\ said \in Histories /\ now' \in Nat /\ said' \in Histories /\ Grows(said, said')
      /\ session \in [Browsers -> [user : Users \cup {NoUser}, since : 0..now]]
  BY TypeFacts, SaidGrows DEF TypeOK
<1>2. \A b \in Browsers : /\ RequestTypes(req[b]) /\ Welcomed(said, users, req[b]) /\ SuperRecent(said, req[b])
                          /\ SessionFlag(said, now, users, session[b])
  BY DEF ShapeInv, Shape, FlagInv
<1>3. CASE \E b \in Browsers : Serve(b)
  <2>1. PICK b \in Browsers : Serve(b)
    BY <1>3
  <2>2. now' = now /\ said' = said
    BY <2>1 DEF Serve, Index, OpenPage, Logout, Respond, Kill, LookUp, open_icat, Query, update_cache,
       cull_invalid, Permissions, SaveUser, LogIn, check_permissions, World, Around
  <2>3. \A c \in Browsers \ {b} : req'[c] = req[c]
    <3>1. req' = req \/ \E a : Go(b, a)
      BY <2>1 DEF Serve, Index, OpenPage, Logout, Respond, Kill, LookUp, open_icat, Query, update_cache,
         cull_invalid, Permissions, SaveUser, LogIn, check_permissions
    <3> QED
      BY <3>1, OwnStep
  <2>4. \A c \in Browsers : SuperRecent(said, req'[c])
    BY <1>2, <2>1, <2>3, ServeSuper
  <2>5. \A c \in Browsers : Welcomed(said, users', req'[c]) /\ SessionFlag(said, now, users', session'[c])
    BY <2>1, ServeWelcomed, ServeSession
  <2> QED
    BY <2>2, <2>4, <2>5, FlagPrimed
<1>4. CASE users' = users /\ req' = req
  <2>1. \A c \in Browsers : Welcomed(said', users', req'[c]) /\ SuperRecent(said', req'[c])
    BY <1>1, <1>2, <1>4, WelcomedGrows, SuperGrows
  <2>2. ASSUME NEW c \in Browsers, NEW s, s = session[c], s.user # NoUser => now' < s.since + SessionAge
        PROVE  SessionFlag(said', now', users', s)
    <3> SUFFICES ASSUME s.user # NoUser PROVE SessionFlag(said', now', users', s)
      BY DEF SessionFlag
    <3>1. s.user \in Users /\ s.since - (Lifetime - 1) - 3 * Patience \in Int
      BY <1>1, <2>2, TimeAssumption
    <3>2. FlagSince(said, users, s.user, s.since - (Lifetime - 1) - 3 * Patience)
      BY <1>2, <2>2 DEF SessionFlag
    <3>3. FlagSince(said', users', s.user, s.since - (Lifetime - 1) - 3 * Patience)
      BY <1>1, <1>4, <3>1, <3>2, FlagGrows
    <3> QED
      BY <2>2, <3>3 DEF SessionFlag
  <2>3. CASE session' = session /\ now' = now
    <3>1. \A c \in Browsers : SessionFlag(said', now', users', session'[c])
      BY <1>2, <2>2, <2>3 DEF SessionFlag
    <3> QED
      BY <2>1, <3>1, FlagPrimed
  <2>4. CASE Tick
    <3>1. now' = now + 1 /\ session' = [c \in Browsers |-> Aged(session[c], now + 1)]
      BY <2>4 DEF Tick
    <3>2. ASSUME NEW c \in Browsers PROVE SessionFlag(said', now', users', session'[c])
      <4>1. CASE now' < session[c].since + SessionAge
        BY <2>2, <3>1, <4>1 DEF Aged
      <4>2. CASE ~(now' < session[c].since + SessionAge)
        BY <3>1, <4>2 DEF Aged, SessionFlag, Nobody
      <4> QED
        BY <4>1, <4>2
    <3> QED
      BY <2>1, <3>2, FlagPrimed
  <2>5. (session' = session /\ now' = now) \/ Tick \/ \E b \in Browsers : Serve(b)
    BY DEF Next, ChangeRights, Fail, Return, vars
  <2> QED
    BY <1>3, <2>3, <2>4, <2>5
<1>5. (users' = users /\ req' = req) \/ \E b \in Browsers : Serve(b)
  BY DEF Next, ChangeRights, Fail, Return, Tick, vars
<1> QED
  BY <1>3, <1>4, <1>5

-----------------------------------------------------------------------------
(***************************************************************************)
(* Type correctness.                                                       *)
(***************************************************************************)
LEMMA TypeStep ==
  ASSUME TypeOK, ShapeInv, RecentInv, FlagInv, ShapeInv', RecentInv', [Next]_vars
  PROVE  TypeOK'
<1>1. /\ now \in 0..MaxTime /\ rights \in [Users -> Rights] /\ reachable \in BOOLEAN
      /\ said \in [Users -> [Rights -> {Never} \cup 0..now]]
      /\ nextId \in Nat \ {0} /\ DOMAIN cache \subseteq 1..nextId - 1
      /\ requests \in 0..MaxRequests /\ events \in 0..MaxEvents /\ users \in [Users -> BOOLEAN]
      /\ session \in [Browsers -> [user : Users \cup {NoUser}, since : 0..now]]
      /\ now \in Nat /\ said \in Histories
  BY TypeFacts DEF TypeOK
<1>2. \A b \in Browsers :
        /\ req'[b].pc # "idle" =>
             req'[b].user \in Users /\ req'[b].start \in 0..now' /\ now' - req'[b].start <= Patience
        /\ req'[b].page \in Pages \cup {LogInPage} /\ req'[b].asks \in Attributes \cup {"none"}
        /\ req'[b].outcome \in {"none", "granted", "denied", "error"}
  <2>1. TAKE b \in Browsers
  <2>2. req'[b].pc # "idle" => req'[b].user \in Users
    BY DEF ShapeInv, Shape, RequestTypes
  <2>3. /\ req'[b].page \in Pages \cup {LogInPage} /\ req'[b].asks \in Attributes \cup {"none"}
        /\ req'[b].outcome \in {"none", "granted", "denied", "error"} /\ req'[b].start \in Nat
    BY DEF ShapeInv, Shape, RequestTypes, LogInPage, Attributes
  <2>4. req'[b].pc # "idle" => req'[b].start <= now' /\ now' - req'[b].start <= Patience
    BY DEF RecentInv, Recent
  <2>5. now' \in Nat
    BY SaidGrows
  <2> QED
    BY <2>2, <2>3, <2>4, <2>5
<1>3. \A i \in DOMAIN cache' :
        /\ cache'[i].of \in Users \cup Experiments /\ cache'[i].created \in 0..now'
        /\ DOMAIN cache'[i].says = Columns(cache'[i].of)
  BY DEF RecentInv, RowRecent, Columns
<1> DEFINE Rest == /\ now' \in 0..MaxTime /\ rights' \in [Users -> Rights] /\ reachable' \in BOOLEAN
                   /\ said' \in [Users -> [Rights -> {Never} \cup 0..now']]
                   /\ nextId' \in Nat \ {0} /\ DOMAIN cache' \subseteq 1..nextId' - 1
                   /\ requests' \in 0..MaxRequests /\ events' \in 0..MaxEvents /\ users' \in [Users -> BOOLEAN]
                   /\ session' \in [Browsers -> [user : Users \cup {NoUser}, since : 0..now']]
<1>4. ASSUME NEW b \in Browsers, Serve(b) PROVE Rest
  <2>1. now' = now /\ rights' = rights /\ reachable' = reachable /\ said' = said
    BY <1>4 DEF Serve, Index, OpenPage, Logout, Respond, Kill, LookUp, open_icat, Query, update_cache,
       cull_invalid, Permissions, SaveUser, LogIn, check_permissions, World, Around
  <2>2. requests' \in 0..MaxRequests
    <3>1. requests' = requests \/ (requests < MaxRequests /\ requests' = requests + 1)
      BY <1>4 DEF Serve, Index, OpenPage, Logout, Respond, Kill, LookUp, open_icat, Query, update_cache,
         cull_invalid, Permissions, SaveUser, LogIn, check_permissions, World, Arrives
    <3> QED
      BY <1>1, <3>1, BoundsAssumption
  <2>3. events' \in 0..MaxEvents
    <3>1. events' = events \/ (events < MaxEvents /\ events' = events + 1)
      BY <1>4 DEF Serve, Index, OpenPage, Logout, Respond, Kill, LookUp, open_icat, Query, update_cache,
         cull_invalid, Permissions, SaveUser, LogIn, check_permissions, World, Around
    <3> QED
      BY <1>1, <3>1, BoundsAssumption
  <2>4. nextId' \in Nat \ {0} /\ DOMAIN cache' \subseteq 1..nextId' - 1
    <3>1. CASE cache' = cache /\ nextId' = nextId
      BY <1>1, <3>1
    <3>2. CASE cull_invalid(b)
      BY <1>1, <3>2 DEF cull_invalid
    <3>3. CASE update_cache(b)
      <4>1. nextId' = nextId + 1 /\ DOMAIN cache' = DOMAIN cache \cup {nextId}
        BY <3>3 DEF update_cache, Next_id, Put
      <4> QED
        BY <1>1, <4>1
    <3>4. (cache' = cache /\ nextId' = nextId) \/ cull_invalid(b) \/ update_cache(b)
      BY <1>4 DEF Serve, Index, OpenPage, Logout, Respond, Kill, LookUp, open_icat, Query,
         Permissions, SaveUser, LogIn, check_permissions
    <3> QED
      BY <3>1, <3>2, <3>3, <3>4
  <2>5. users' \in [Users -> BOOLEAN]
    <3>1. users' = users \/ SaveUser(b)
      BY <1>4 DEF Serve, Index, OpenPage, Logout, Respond, Kill, LookUp, open_icat, Query, update_cache,
         cull_invalid, Permissions, LogIn, check_permissions
    <3> QED
      BY <1>1, <3>1, SavedFlag
  <2>6. session' \in [Browsers -> [user : Users \cup {NoUser}, since : 0..now']]
    BY <1>4, <2>1, ServeSession
  <2> QED
    BY <1>1, <2>1, <2>2, <2>3, <2>4, <2>5, <2>6
<1>5. ASSUME NEW u \in Users, NEW r \in Rights, ChangeRights(u, r) PROVE Rest
  <2>1. /\ now' = now /\ reachable' = reachable /\ nextId' = nextId /\ cache' = cache /\ requests' = requests
        /\ users' = users /\ session' = session /\ events < MaxEvents /\ events' = events + 1
        /\ rights' = [rights EXCEPT ![u] = r] /\ said' = [said EXCEPT ![u][r] = now]
    BY <1>5 DEF ChangeRights
  <2>2. rights' \in [Users -> Rights] /\ said' \in [Users -> [Rights -> {Never} \cup 0..now']]
    BY <1>1, <2>1
  <2>3. events' \in 0..MaxEvents
    BY <1>1, <2>1, BoundsAssumption
  <2> QED
    BY <1>1, <2>1, <2>2, <2>3
<1>6. ASSUME Fail \/ Return \/ UNCHANGED vars PROVE Rest
  <2>1. /\ now' = now /\ rights' = rights /\ said' = said /\ nextId' = nextId /\ cache' = cache
        /\ requests' = requests /\ users' = users /\ session' = session /\ reachable' \in BOOLEAN
        /\ events' = events \/ (events < MaxEvents /\ events' = events + 1)
    BY <1>1, <1>6 DEF Fail, Return, vars
  <2>2. events' \in 0..MaxEvents
    BY <1>1, <2>1, BoundsAssumption
  <2> QED
    BY <1>1, <2>1, <2>2
<1>7. ASSUME Tick PROVE Rest
  <2>1. /\ now < MaxTime /\ now' = now + 1 /\ rights' = rights /\ reachable' = reachable /\ nextId' = nextId
        /\ cache' = cache /\ requests' = requests /\ users' = users /\ events' = events
        /\ said' = [u \in Users |-> [said[u] EXCEPT ![rights[u]] = now + 1]]
        /\ session' = [b \in Browsers |-> Aged(session[b], now + 1)]
    BY <1>7 DEF Tick
  <2>2. now' \in 0..MaxTime /\ 0..now \subseteq 0..now' /\ now + 1 \in 0..now'
    BY <1>1, <2>1, TimeAssumption
  <2>3. \A u \in Users : said[u] \in [Rights -> {Never} \cup 0..now'] /\ rights[u] \in Rights
    BY <1>1, <2>2
  <2>4. \A u \in Users : [said[u] EXCEPT ![rights[u]] = now + 1] \in [Rights -> {Never} \cup 0..now']
    BY <2>2, <2>3
  <2>5. said' \in [Users -> [Rights -> {Never} \cup 0..now']]
    BY <2>1, <2>4
  <2>6. Nobody \in [user : Users \cup {NoUser}, since : 0..now']
    BY <1>1, <2>2 DEF Nobody
  <2>7. \A b \in Browsers : Aged(session[b], now + 1) \in [user : Users \cup {NoUser}, since : 0..now']
    BY <1>1, <2>2, <2>6 DEF Aged
  <2> QED
    BY <1>1, <2>1, <2>2, <2>5, <2>7
<1> HIDE DEF Rest
<1>8. Rest
  BY <1>4, <1>5, <1>6, <1>7 DEF Next
<1> USE DEF Rest
<1> QED
  BY <1>2, <1>3, <1>8 DEF TypeOK, At, Columns, LogInPage, Attributes, Investigations

LEMMA Invariance == Spec => []IInv
<1>1. Init => IInv
  <2> SUFFICES ASSUME Init PROVE IInv
    OBVIOUS
  <2> USE DEF Init
  <2>1. /\ DOMAIN cache = {} /\ now \in Nat /\ now = 0
        /\ \A b \in Browsers : req[b] = Idle /\ session[b] = Nobody
    BY DEF Nothing
  <2>2. /\ rights \in [Users -> Rights]
        /\ said = [u \in Users |-> [r \in Rights |-> IF r = rights[u] THEN 0 ELSE Never]]
    OBVIOUS
  <2>3. said \in [Users -> [Rights -> {Never} \cup 0..now]]
    BY <2>1, <2>2
  <2>4. \A u \in Users : said[u][rights[u]] = now
    BY <2>1, <2>2
  <2>a. req = [b \in Browsers |-> req[b]]
    OBVIOUS
  <2> HIDE DEF Init
  <2>5. ShapeInv
    BY <2>a, <2>1, IdleShape DEF ShapeInv
  <2>6. RecentInv
    <3>1. \A b \in Browsers : Recent(said, now, req[b])
      BY <2>1, IdleShape DEF Recent
    <3> QED
      BY <2>1, <2>4, <3>1 DEF RecentInv
  <2>7. CullInv
    <3>1. \A b \in Browsers : req[b].pc = "idle"
      BY <2>1, IdleShape
    <3> QED
      BY <3>1 DEF CullInv, OldRows, Refreshing
  <2>8. Nobody.user = NoUser /\ Nobody.since = 0
    BY DEF Nobody
  <2>9. FlagInv
    BY <2>1, <2>8, IdleShape DEF FlagInv, SessionFlag, Welcomed, SuperRecent
  <2>10. session \in [Browsers -> [user : Users \cup {NoUser}, since : 0..now]]
    <3>1. Nobody \in [user : Users \cup {NoUser}, since : 0..now]
      BY <2>1 DEF Nobody
    <3>2. session = [b \in Browsers |-> Nobody]
      BY DEF Init
    <3> QED
      BY <3>1, <3>2
  <2>11. /\ now \in 0..MaxTime /\ requests \in 0..MaxRequests /\ events \in 0..MaxEvents
         /\ nextId \in Nat \ {0} /\ users \in [Users -> BOOLEAN] /\ reachable \in BOOLEAN
    BY TimeAssumption, BoundsAssumption DEF Init
  <2>12. \A b \in Browsers : /\ req[b].pc = "idle" /\ req[b].page \in Pages \cup {LogInPage}
                             /\ req[b].asks = "none" /\ req[b].outcome = "none"
    <3>1. Idle.pc = "idle" /\ Idle.page = LogInPage /\ Idle.asks = "none" /\ Idle.outcome = "none"
      BY DEF Idle
    <3> QED
      BY <2>1, <3>1
  <2>13. TypeOK
    BY <2>1, <2>2, <2>3, <2>10, <2>11, <2>12 DEF TypeOK, At
  <2> QED
    BY <2>5, <2>6, <2>7, <2>9, <2>13 DEF IInv
<1>2. IInv /\ [Next]_vars => IInv'
  <2> SUFFICES ASSUME IInv, [Next]_vars PROVE IInv'
    OBVIOUS
  <2>1. TypeOK /\ ShapeInv /\ RecentInv /\ CullInv /\ FlagInv
    BY DEF IInv
  <2>2. ShapeInv'
    BY <2>1, ShapeStep
  <2>3. RecentInv'
    BY <2>1, RecentStep
  <2>4. CullInv'
    BY <2>1, CullStep
  <2>5. FlagInv'
    BY <2>1, FlagStep
  <2>6. TypeOK'
    BY <2>1, <2>2, <2>3, TypeStep
  <2> QED
    BY <2>2, <2>3, <2>4, <2>5, <2>6 DEF IInv
<1> QED
  BY <1>1, <1>2, PTL DEF Spec

-----------------------------------------------------------------------------
\* Identifiers of rows are given out once, and rows, sessions and requests hold what they should.
THEOREM TypeCorrect == Spec => []TypeOK
<1>1. IInv => TypeOK
  BY DEF IInv
<1> QED
  BY <1>1, Invariance, PTL

LEMMA SinceSaid ==
  ASSUME NEW u, NEW t
  PROVE  SaidSince(u, t) = Since(said, u, t)
BY DEF SaidSince, Since

(***************************************************************************)
(* check_permissions grants and denies on what ICAT has said no longer ago *)
(* than a row is valid and the request that saved it may take, whoever     *)
(* else refreshes, fills and culls the cache meanwhile.                    *)
(***************************************************************************)
THEOREM RecentAnswers == Spec => []AnswersAreRecent
<1>1. IInv => AnswersAreRecent
  <2> SUFFICES ASSUME IInv, NEW b \in Browsers, At(b, "done"), ~req[b].super
      PROVE  LET q == req[b]
                 Said == SaidSince(q.user, q.start - (Lifetime - 1) - Patience)
             IN  /\ q.outcome = "granted" /\ q.page # LogInPage => \E r \in Said : Owner(r, q.page) \/ OnTeam(r, q.page)
                 /\ q.outcome = "denied" => (\E r \in Said : ~Owner(r, q.page)) /\ (\E r \in Said : ~OnTeam(r, q.page))
    BY DEF AnswersAreRecent
  <2>1. Grounds(said, req[b])
    BY DEF IInv, RecentInv, Recent, At
  <2> QED
    BY <2>1, SinceSaid DEF Grounds, Oldest
<1> QED
  BY <1>1, Invariance, PTL

(***************************************************************************)
(* Who opens a page as an administrator was one when ICAT last said so, at *)
(* most a session, a row and three requests ago.                           *)
(***************************************************************************)
THEOREM RecentAdministrators == Spec => []AdministratorsAreRecent
<1>1. IInv => AdministratorsAreRecent
  <2> SUFFICES ASSUME IInv, NEW b \in Browsers, At(b, "done"), req[b].super, req[b].outcome = "granted"
      PROVE  \E r \in SaidSince(req[b].user, req[b].start - (SessionAge - 1) - (Lifetime - 1) - 3 * Patience) : r.admin
    BY DEF AdministratorsAreRecent
  <2>1. SuperRecent(said, req[b])
    BY DEF IInv, FlagInv
  <2> QED
    BY <2>1, SinceSaid DEF SuperRecent, At
<1> QED
  BY <1>1, Invariance, PTL

(***************************************************************************)
(* Rows are deleted only while a newer one of the same user or experiment  *)
(* is there, whoever of several requests deletes which of them first.      *)
(***************************************************************************)
THEOREM KnownStays == Spec => KnownStaysCached
<1>1. IInv /\ [Next]_vars => [\A s \in Users \cup Experiments : Rows(s) # {} => Rows(s)' # {}]_vars
  <2> SUFFICES ASSUME IInv, Next, NEW s \in Users \cup Experiments, NEW i \in DOMAIN cache, cache[i].of = s
      PROVE  \E k \in DOMAIN cache' : cache'[k].of = s
    BY DEF Rows
  <2>1. TypeOK /\ ShapeInv /\ CullInv
    BY DEF IInv
  <2>2. CASE cache' = cache
    BY <2>2
  <2>3. ASSUME NEW b \in Browsers, update_cache(b) PROVE \E k \in DOMAIN cache' : cache'[k].of = s
    <3>1. PICK row : cache' = Put(cache, nextId, row)
      BY <2>3 DEF update_cache
    <3>2. i \in DOMAIN cache' /\ (i # nextId => cache'[i] = cache[i])
      BY <3>1 DEF Put
    <3>3. i # nextId
      BY <2>1 DEF TypeOK
    <3> QED
      BY <3>2, <3>3
  <2>4. ASSUME NEW b \in Browsers, cull_invalid(b) PROVE \E k \in DOMAIN cache' : cache'[k].of = s
    BY <2>1, <2>4, CullLeaves
  <2>5. cache' = cache \/ \E b \in Browsers : update_cache(b) \/ cull_invalid(b)
    <3>1. ASSUME NEW b \in Browsers, Serve(b) PROVE cache' = cache \/ update_cache(b) \/ cull_invalid(b)
      BY <3>1 DEF Serve, Index, OpenPage, Logout, Respond, Kill, LookUp, open_icat, Query,
         Permissions, SaveUser, LogIn, check_permissions
    <3>2. (\E b \in Browsers : Serve(b)) \/ cache' = cache
      BY DEF Next, ChangeRights, Fail, Return, Tick
    <3> QED
      BY <3>1, <3>2
  <2> QED
    BY <2>2, <2>3, <2>4, <2>5
<1> QED
  BY <1>1, Invariance, PTL DEF Spec, KnownStaysCached
=============================================================================
