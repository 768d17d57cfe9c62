\* Two browsers; a session, a row and a request last one each.
CONSTANTS
  U = U
  WISH = WISH
  E = E
  C = C
  Browsers = {b1, b2}
  Users = {U}
  NoUser = NoUser
  Instruments = {WISH}
  Experiments = {E}
  Unnumbered = {C}
  RanOn <- Runs
  Pages <- Asked
  Rights <- SaidOfUsers
  Lifetime = 1
  SessionAge = 1
  Patience = 1
  MaxTime = 4
  MaxRequests = 3
  MaxEvents = 1
SPECIFICATION Spec
CHECK_DEADLOCK FALSE
INVARIANTS TypeOK AnswersAreRecent AdministratorsAreRecent
PROPERTIES KnownStaysCached
SYMMETRY Alike
