---------------------------- MODULE MCICATCache ----------------------------
(***************************************************************************)
(* One user with two browsers, one instrument and an experiment on it.     *)
(***************************************************************************)
EXTENDS ICATCache, TLC
CONSTANTS U, WISH, E, C

May(admin, owned, member) == [admin |-> admin, owned |-> owned, member |-> member]
SaidOfUsers == {May(FALSE, {}, {E}), May(TRUE, {WISH}, {C})}
Page(kind, of) == [kind |-> kind, of |-> of]
Asked == {Page("instrument", WISH), Page("summary", E), Page("admin", NoUser)}
Runs == [e \in {E, C} |-> {WISH}]

Alike == Permutations(Browsers)
=============================================================================
