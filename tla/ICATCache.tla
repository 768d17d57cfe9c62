------------------------------ MODULE ICATCache ------------------------------
(***************************************************************************)
(* Who may see which page, as the web application has it from ICAT.  What  *)
(* ICAT says of a user is kept in the database for CACHE_LIFETIME          *)
(* (icat_cache); pages ask the cache (view_utils.check_permissions), and   *)
(* whether a user is an administrator is asked when the user logs in       *)
(* (backends.authenticate) and kept with the user.                         *)
(*                                                                         *)
(* The settings are those of an installation in use: USER_ACCESS_CHECKS is *)
(* on, DEVELOPMENT_MODE is off.  One step is one access to the database,   *)
(* one call of a function of ICATCommunication, or its connection.         *)
(***************************************************************************)
EXTENDS Integers

CONSTANTS
  Browsers, Users, NoUser,
  Instruments, Experiments,
  Unnumbered,     \* investigations whose name is not a number, such as calibrations
  RanOn,          \* investigation -> the instruments it has runs on
  Pages,          \* what is asked for: the kind of page and what it is about
  Rights,         \* what ICAT may say of a user: administrator, scientist of, on the team of
  Lifetime,       \* CACHE_LIFETIME
  SessionAge,     \* SESSION_COOKIE_AGE
  Patience,       \* how long the web server lets a request take
  MaxTime, MaxRequests, MaxEvents  \* bounds on the clock, on requests, on changes in ICAT and failures

Investigations == Experiments \cup Unnumbered

ASSUME UsersAssumption == NoUser \notin Users /\ Users \cap Experiments = {}
ASSUME RightsAssumption ==
  /\ Rights \subseteq [admin : BOOLEAN, owned : SUBSET Instruments, member : SUBSET Investigations]
  /\ RanOn \in [Investigations -> SUBSET Instruments]
\* Arguments of a page that check_permissions looks at, or none for those of administrators.
ASSUME PagesAssumption ==
  Pages \subseteq [kind : {"instrument", "run"}, of : Instruments]
              \cup [kind : {"experiment", "summary"}, of : Experiments]
              \cup [kind : {"admin"}, of : {NoUser}]
ASSUME TimeAssumption == {Lifetime, SessionAge} \subseteq Nat \ {0} /\ {Patience, MaxTime} \subseteq Nat
ASSUME BoundsAssumption == {MaxRequests, MaxEvents} \subseteq Nat

VARIABLES
  now, rights, reachable,  \* the clock; what ICAT says of each user; whether it answers
  said,     \* history: when ICAT has last said what of a user
  cache, nextId,  \* UserCache and ExperimentCache: identifier -> row
  users,    \* is_superuser of each user
  session,  \* the user logged in with each browser, and since when
  req,      \* the request each browser waits for
  requests, events

vars == <<now, rights, reachable, said, cache, nextId, users, session, req, requests, events>>

LogInPage == [kind |-> "login", of |-> NoUser]

\* A request asks the cache for one attribute after another, and a refresh asks ICAT
\* for one column after another.  Of the columns for the instruments a user may see and
\* for scientists, which no answer depends on, only the look-ups are kept.
Attributes == {"owned", "valid", "admin", "scientist", "associated", "details"}
AttributeAfter(a) == CASE a = "owned" -> "valid" [] a = "admin" -> "scientist" [] OTHER -> "none"
ColumnAfter(c) == CASE c = "owned" -> "admin" [] c = "admin" -> "associated" [] OTHER -> "none"

Nothing == [a \in {} |-> {}]
Idle ==
  [pc |-> "idle", page |-> LogInPage, user |-> NoUser, start |-> 0, asks |-> "none", got |-> Nothing,
   connected |-> FALSE, old |-> {}, column |-> "none", says |-> Nothing, outcome |-> "none", super |-> FALSE]
Never == -1
Nobody == [user |-> NoUser, since |-> 0]

Put(f, x, y) == [i \in DOMAIN f \cup {x} |-> IF i = x THEN y ELSE f[i]]

Init ==
  /\ now = 0 /\ reachable = TRUE /\ cache = Nothing /\ nextId = 1
  /\ rights \in [Users -> Rights] /\ said = [u \in Users |-> [r \in Rights |-> IF r = rights[u] THEN 0 ELSE Never]]
  /\ users = [u \in Users |-> FALSE]
  /\ session = [b \in Browsers |-> Nobody] /\ req = [b \in Browsers |-> Idle]
  /\ requests = 0 /\ events = 0

Go(b, q) == req' = [req EXCEPT ![b] = q]
Arrives == requests < MaxRequests /\ requests' = requests + 1
Around == UNCHANGED <<now, rights, reachable, said, events>>
World == Around /\ UNCHANGED requests
At(b, pc) == req[b].pc = pc
-----------------------------------------------------------------------------
(***************************************************************************)
(* ICAT and the clock.  Nobody tells the application of a change.          *)
(***************************************************************************)
ChangeRights(u, r) ==
  /\ events < MaxEvents /\ r # rights[u]
  /\ rights' = [rights EXCEPT ![u] = r] /\ said' = [said EXCEPT ![u][r] = now]
  /\ events' = events + 1
  /\ UNCHANGED <<now, reachable, cache, nextId, users, session, req, requests>>

Fail ==
  /\ reachable /\ events < MaxEvents /\ reachable' = FALSE /\ events' = events + 1
  /\ UNCHANGED <<now, rights, said, cache, nextId, users, session, req, requests>>

Return ==
  /\ ~reachable /\ reachable' = TRUE
  /\ UNCHANGED <<now, rights, said, cache, nextId, users, session, req, requests, events>>

\* A session that has lasted SESSION_COOKIE_AGE is gone.
Aged(s, time) == IF time < s.since + SessionAge THEN s ELSE Nobody

Tick ==
  /\ now < MaxTime
  /\ \A b \in Browsers : req[b].pc # "idle" => now < req[b].start + Patience
  /\ now' = now + 1
  /\ said' = [u \in Users |-> [said[u] EXCEPT ![rights[u]] = now + 1]]
  /\ session' = [b \in Browsers |-> Aged(session[b], now + 1)]
  /\ UNCHANGED <<rights, reachable, cache, nextId, users, req, requests, events>>

\* A worker of the web server dies, and its request with it.
Kill(b) ==
  /\ ~At(b, "idle") /\ events < MaxEvents /\ events' = events + 1 /\ Go(b, Idle)
  /\ UNCHANGED <<now, rights, reachable, said, cache, nextId, users, session, requests>>
-----------------------------------------------------------------------------
(***************************************************************************)
(* Requests.  A request of somebody who has not logged in is redirected;   *)
(* the index page, when somebody has, reads the session under a name that  *)
(* is not there ('sessionId'), and raises: neither changes anything.       *)
(***************************************************************************)
has_valid_login(b) == session[b].user # NoUser

Request(page, u, asks) ==
  [Idle EXCEPT !.pc = "look", !.page = page, !.user = u, !.start = now, !.asks = asks]

Answered(q, outcome) ==
  [Idle EXCEPT !.pc = "done", !.page = q.page, !.user = q.user, !.start = q.start,
               !.super = q.super, !.outcome = outcome]

\* index, with a token that the user office says is u's: authenticate.
Index(b, u) ==
  /\ At(b, "idle") /\ ~has_valid_login(b) /\ Arrives
  /\ Go(b, Request(LogInPage, u, "admin"))
  /\ Around /\ UNCHANGED <<cache, nextId, users, session>>

Logout(b) ==
  /\ At(b, "idle") /\ has_valid_login(b) /\ session' = [session EXCEPT ![b] = Nobody]
  /\ World /\ UNCHANGED <<cache, nextId, users, req>>

\* experiment_summary asks for the details of an experiment when it may be shown,
\* with a connection of its own.
Granted(q) ==
  IF q.page.kind = "summary"
  THEN [q EXCEPT !.outcome = "granted", !.asks = "details", !.connected = FALSE]
  ELSE Answered(q, "granted")

\* require_admin, or check_permissions, which lets administrators pass.
OpenPage(b, page) ==
  /\ At(b, "idle") /\ has_valid_login(b) /\ Arrives
  /\ LET u == session[b].user
         super == users[u]
         q == [Request(page, u, "owned") EXCEPT !.super = super \/ page.kind = "admin"]
     IN  Go(b, IF super THEN Granted(q)
               ELSE IF page.kind = "admin" THEN Answered(q, "denied") ELSE q)
  /\ Around /\ UNCHANGED <<cache, nextId, users, session>>

Respond(b) ==
  /\ At(b, "done") /\ Go(b, Idle)
  /\ World /\ UNCHANGED <<cache, nextId, users, session>>

\* An exception ends the request, but for one that experiment_summary meets asking for details.
Raised(q) == Answered(q, IF q.outcome = "granted" THEN "granted" ELSE "error")
-----------------------------------------------------------------------------
(***************************************************************************)
(* check_cache: the newest row of what is asked about, if it is valid, and *)
(* otherwise a new one, after which the rows that were read are culled.    *)
(***************************************************************************)
Subject(q) == IF q.asks = "details" THEN q.page.of ELSE q.user
Columns(s) == IF s \in Users THEN {"owned", "admin", "associated"} ELSE {"details"}
FirstColumn(s) == IF s \in Users THEN "owned" ELSE "details"

Rows(s) == {i \in DOMAIN cache : cache[i].of = s}
Newest(I) == {i \in I : \A j \in I : cache[j].created <= cache[i].created}

\* Mutation: a row lives a moment longer.
outlives(created) == created + Lifetime >= now

is_valid(created) == created + Lifetime > now

Use(q, says) ==
  [q EXCEPT !.pc = "look", !.got = IF q.asks \in DOMAIN says THEN Put(@, q.asks, says[q.asks]) ELSE @,
            !.asks = AttributeAfter(@), !.old = {}, !.says = Nothing]

LookUp(b) ==
  /\ At(b, "look") /\ req[b].asks # "none"
  /\ LET q == req[b]
         I == Rows(Subject(q))
     IN  \/ \E i \in Newest(I) : is_valid(cache[i].created) /\ Go(b, Use(q, cache[i].says))
         \/ /\ \A i \in I : ~is_valid(cache[i].created)
            /\ Go(b, [q EXCEPT !.pc = IF q.connected THEN "query" ELSE "open", !.old = I,
                               !.column = FirstColumn(Subject(q))])
  /\ World /\ UNCHANGED <<cache, nextId, users, session>>

(***************************************************************************)
(* open_icat: the handler of a failure asks for the class's __name, which  *)
(* Python reads as _ICATCache__name: another exception leaves it than the  *)
(* one check_cache expects, and what is in the cache is not used.          *)
(***************************************************************************)
open_icat(b) ==
  /\ At(b, "open")
  /\ Go(b, IF reachable THEN [req[b] EXCEPT !.pc = "query", !.connected = TRUE] ELSE Raised(req[b]))
  /\ World /\ UNCHANGED <<cache, nextId, users, session>>

\* What ICATCommunication finds out of a user.
Says(r, column) ==
  CASE column = "owned" -> r.owned
    [] column = "admin" -> r.admin
    [] column = "associated" -> r.member

\* Details of an experiment are "N/A" when anything goes wrong with the search.
Query(b) ==
  /\ At(b, "query")
  /\ LET q == req[b]
         c == q.column
         learned(value) ==
           [q EXCEPT !.pc = IF ColumnAfter(c) = "none" THEN "save" ELSE "query",
                     !.column = ColumnAfter(@), !.says = Put(@, c, value)]
     IN  \/ c = "details" /\ Go(b, learned(IF reachable THEN "known" ELSE "N/A"))
         \/ c # "details" /\ reachable /\ Go(b, learned(Says(rights[q.user], c)))
         \/ c # "details" /\ ~reachable /\ Go(b, Raised(q))
  /\ World /\ UNCHANGED <<cache, nextId, users, session>>

\* Mutation: the row gets an identifier that may be given out again.
Reused(id) == id

Next_id(id) == id + 1

update_cache(b) ==
  /\ At(b, "save")
  /\ cache' = Put(cache, nextId, [of |-> Subject(req[b]), created |-> now, says |-> req[b].says])
  /\ nextId' = Next_id(nextId)
  /\ Go(b, [req[b] EXCEPT !.pc = "cull"])
  /\ World /\ UNCHANGED <<users, session>>

\* Mutation: all rows of the subject are culled, the new one too.
CulledAll(q) == Rows(Subject(q))

Culled(q) == q.old

\* The rows that were read are deleted, one after another: nobody finds them valid any more.
cull_invalid(b) ==
  /\ At(b, "cull")
  /\ cache' = [i \in DOMAIN cache \ Culled(req[b]) |-> cache[i]]
  /\ Go(b, Use(req[b], req[b].says))
  /\ World /\ UNCHANGED <<nextId, users, session>>
-----------------------------------------------------------------------------
(***************************************************************************)
(* What a request does with what it has asked for.  The lists are map      *)
(* objects: those of a page about a run cannot be added, and numbers are   *)
(* made of the names of a user's investigations only when they are gone    *)
(* through, where a name that is none raises.                              *)
(***************************************************************************)
AtEnd(b) == At(b, "look") /\ req[b].asks = "none"

\* The end of the with statement: who has connected logs out of ICAT.
Closed(q, then) == IF q.connected /\ ~reachable THEN Raised(q) ELSE then

\* authenticate knows what the user may do, ...
Permissions(b) ==
  /\ AtEnd(b) /\ req[b].page = LogInPage
  /\ Go(b, Closed(req[b], [req[b] EXCEPT !.pc = "user"]))
  /\ World /\ UNCHANGED <<cache, nextId, users, session>>

\* Mutation: an administrator remains one.
SuperuserStays(was, admin) == was \/ admin

is_superuser(was, admin) == admin

\* ... saves it with the user, ...
SaveUser(b) ==
  /\ At(b, "user")
  /\ users' = [users EXCEPT ![req[b].user] = is_superuser(@, req[b].got["admin"])]
  /\ Go(b, [req[b] EXCEPT !.pc = "welcome"])
  /\ World /\ UNCHANGED <<cache, nextId, session>>

\* ... and index logs the user in.
LogIn(b) ==
  /\ At(b, "welcome")
  /\ session' = [session EXCEPT ![b] = [user |-> req[b].user, since |-> now]]
  /\ Go(b, Answered(req[b], "granted"))
  /\ World /\ UNCHANGED <<cache, nextId, users>>

CheckInstrument(q) == IF q.page.of \in q.got["owned"] THEN Granted(q) ELSE Answered(q, "denied")

\* An instrument scientist may see it; if not, it is asked who is on the team.
CheckExperiment(q) ==
  IF RanOn[q.page.of] \cap q.got["owned"] # {} THEN Granted(q)
  ELSE IF "associated" \notin DOMAIN q.got THEN [q EXCEPT !.asks = "associated"]
  ELSE IF q.got["associated"] \cap Unnumbered # {} THEN Raised(q)
  ELSE IF q.page.of \in q.got["associated"] THEN Granted(q) ELSE Answered(q, "denied")

Checked(q) ==
  CASE q.outcome = "granted" -> Answered(q, "granted")
    [] q.outcome = "none" /\ q.page.kind = "run" -> Raised(q)
    [] q.outcome = "none" /\ q.page.kind = "instrument" -> CheckInstrument(q)
    [] q.outcome = "none" /\ q.page.kind \in {"experiment", "summary"} -> CheckExperiment(q)

check_permissions(b) ==
  /\ AtEnd(b) /\ req[b].page # LogInPage
  /\ LET q == Checked(req[b]) IN Go(b, IF q.asks = "associated" THEN q ELSE Closed(req[b], q))
  /\ World /\ UNCHANGED <<cache, nextId, users, session>>
-----------------------------------------------------------------------------
Serve(b) ==
  \/ \E u \in Users : Index(b, u)
  \/ \E page \in Pages : OpenPage(b, page)
  \/ Logout(b) \/ Respond(b) \/ Kill(b)
  \/ LookUp(b) \/ open_icat(b) \/ Query(b) \/ update_cache(b) \/ cull_invalid(b)
  \/ Permissions(b) \/ SaveUser(b) \/ LogIn(b) \/ check_permissions(b)

Next ==
  \/ \E u \in Users, r \in Rights : ChangeRights(u, r)
  \/ Fail \/ Return \/ Tick
  \/ \E b \in Browsers : Serve(b)

Spec == Init /\ [][Next]_vars
-----------------------------------------------------------------------------
\* Rows have identifiers given out once, sessions and requests are of users, and times have been.
TypeOK ==
  /\ now \in 0..MaxTime /\ rights \in [Users -> Rights] /\ reachable \in BOOLEAN
  /\ said \in [Users -> [Rights -> {Never} \cup 0..now]]
  /\ nextId \in Nat \ {0} /\ DOMAIN cache \subseteq 1..nextId - 1
  /\ \A i \in DOMAIN cache :
       /\ cache[i].of \in Users \cup Experiments /\ cache[i].created \in 0..now
       /\ DOMAIN cache[i].says = Columns(cache[i].of)
  /\ requests \in 0..MaxRequests /\ events \in 0..MaxEvents
  /\ users \in [Users -> BOOLEAN]
  /\ session \in [Browsers -> [user : Users \cup {NoUser}, since : 0..now]]
  /\ \A b \in Browsers :
       /\ At(b, "idle") \/ (req[b].user \in Users /\ req[b].start \in 0..now /\ now - req[b].start <= Patience)
       /\ req[b].page \in Pages \cup {LogInPage} /\ req[b].asks \in Attributes \cup {"none"}
       /\ req[b].outcome \in {"none", "granted", "denied", "error"}

\* What ICAT has said of a user at a time or later.
SaidSince(u, time) == {r \in Rights : said[u][r] # Never /\ said[u][r] >= time}

(***************************************************************************)
(* check_permissions answers from a cache that others refresh, cull and    *)
(* fill while it looks: whether it grants or denies, ICAT has said so no   *)
(* longer ago than a row is valid and the request that saved it may take.  *)
(***************************************************************************)
Owner(r, page) == IF page.kind = "instrument" THEN page.of \in r.owned ELSE RanOn[page.of] \cap r.owned # {}
OnTeam(r, page) == page.kind # "instrument" /\ page.of \in r.member

AnswersAreRecent ==
  \A b \in Browsers : At(b, "done") /\ ~req[b].super =>
    LET q == req[b]
        Said == SaidSince(q.user, q.start - (Lifetime - 1) - Patience)
    IN  /\ q.outcome = "granted" /\ q.page # LogInPage => \E r \in Said : Owner(r, q.page) \/ OnTeam(r, q.page)
        /\ q.outcome = "denied" => (\E r \in Said : ~Owner(r, q.page)) /\ (\E r \in Said : ~OnTeam(r, q.page))

(***************************************************************************)
(* An administrator's flag is as old as the log-in, the row that it was    *)
(* taken from and the requests that saved them: pages of administrators    *)
(* are opened by who was one then.  Another log-in of the user that began  *)
(* earlier may save its flag over a later one, hence one Patience more.    *)
(***************************************************************************)
AdministratorsAreRecent ==
  \A b \in Browsers : At(b, "done") /\ req[b].super /\ req[b].outcome = "granted" =>
    \E r \in SaidSince(req[b].user, req[b].start - (SessionAge - 1) - (Lifetime - 1) - 3 * Patience) : r.admin

(***************************************************************************)
(* Whatever fails while a row is refreshed, and whoever refreshes it at    *)
(* the same time, somebody or something once known stays in the cache.     *)
(***************************************************************************)
KnownStaysCached ==
  [][\A s \in Users \cup Experiments : Rows(s) # {} => Rows(s)' # {}]_vars
=============================================================================
