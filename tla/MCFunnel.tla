------------------------------ MODULE MCFunnel ------------------------------
(***************************************************************************)
(* Small instances of DiagnosticFunnel.  Time 0 is the instant the first   *)
(* run may start, so a date of -1 has passed and 0 is the boundary.        *)
(***************************************************************************)
EXTENDS DiagnosticFunnel

MCNames == {"r1", "r2"}
MCText  == MCNames \cup {None, "ACTIVE", "INACTIVE", "LOCKED", "ADD", "REVOKE", "SYNC",
                         "OPENIAM", "AD", "unknown system", "ann", "ann2", "ann@ad"}

At(t)   == [kind |-> "aware", at |-> t]
Naive   == [kind |-> "naive", at |-> 1]
Garbled == [kind |-> "garbled", at |-> 0]

Login(sys, exp)   == [sys |-> sys, login |-> IF sys = "OPENIAM" THEN "ann" ELSE "ann@ad",
                      deleted |-> FALSE, pwdExp |-> exp]
Named(name, l)    == [l EXCEPT !.login = name]
Role(n, end)      == [name |-> n, end |-> end]
User(status, secondary, logins, roles, groups) ==
  [exists |-> TRUE, status |-> status, secondary |-> secondary,
   logins |-> logins, roles |-> roles, groups |-> groups]
NoUser == [User("ACTIVE", None, <<>>, <<>>, <<>>) EXCEPT !.exists = FALSE]

Usual == <<Login("OPENIAM", NoDate), Login("AD", At(1))>>
Held  == <<Role("r1", NoDate)>>

\* Every login list against an unremarkable rest, every grant list likewise,
\* and the statuses that compete for the account verdict.
LoginLists ==
  {<<>>,
   <<Login("AD", At(-1)), Login("OPENIAM", At(0))>>,
   <<Login("AD", NoDate), Login("OPENIAM", At(-1)), Named("ann2", Login("OPENIAM", NoDate))>>,
   <<Named(None, Login("OPENIAM", At(-1))), Login("AD", At(-1))>>,
   <<Login("AD", At(-1)), Login("OPENIAM", At(-1))>>,
   <<Login("unknown system", At(-1))>>,
   <<Login("OPENIAM", At(-1)), Login("AD", Naive)>>,
   <<[Login("AD", NoDate) EXCEPT !.deleted = TRUE], Login("OPENIAM", At(-1))>>}
RoleLists ==
  {<<>>, <<Role("r1", At(-1))>>, <<Role("r1", At(0))>>, <<Role("r1", At(1))>>,
   <<Role("r1", Garbled)>>, <<Role("r1", At(-1)), Role("r2", Naive)>>,
   <<Role("r1", At(1)), Role("r2", Naive)>>, <<Role("r1", At(-1)), Role("r2", NoDate)>>}
ManyUsers ==
  {User(st, sec, ls, Held, <<>>) : st \in {"ACTIVE", "INACTIVE"},
     sec \in {None, "LOCKED"}, ls \in LoginLists}
  \cup {User("ACTIVE", None, Usual, rs, gs) : rs \in RoleLists,
     gs \in {<<>>, <<Role("r2", At(-1))>>, <<Role("r2", NoDate)>>}}
  \cup {NoUser}

Test(at, ok) == [dated |-> TRUE, at |-> at, ok |-> ok]
Undated(ok)  == [dated |-> FALSE, at |-> 0, ok |-> ok]
Dash(openiam, ad) == [s \in {"OPENIAM", "AD"} |-> IF s = "AD" THEN ad ELSE openiam]
AllUp == Dash(<<Test(-1, TRUE)>>, <<Test(-1, TRUE)>>)
ManyDashboards ==
  {AllUp,
   Dash(<<>>, <<Test(-1, TRUE), Test(-2, FALSE)>>),
   Dash(<<Test(-2, FALSE), Undated(TRUE), Test(-1, TRUE)>>, <<Undated(TRUE), Undated(FALSE)>>),
   Dash(<<Test(-1, TRUE), Test(-1, FALSE)>>, <<Test(-1, TRUE)>>)}

Try(at, ok) == [at |-> at, kind |-> "aware", ok |-> ok, action |-> "LOGIN"]
ManyAuthLogs ==
  {{}, {Try(-9, FALSE)}, {Try(-1, FALSE), Try(-2, TRUE)},
   {Try(-1, TRUE), Try(-1, FALSE), [Try(0, FALSE) EXCEPT !.kind = "garbled"]},
   {[Try(-1, FALSE) EXCEPT !.kind = "naive"], Try(-2, TRUE)},
   {Try(-1, FALSE), Try(1, TRUE)},
   {[Try(-1, FALSE) EXCEPT !.action = None], Try(-2, TRUE), Try(-3, TRUE)}}

Event(action, names, at) ==
  [action |-> action, names |-> names, at |-> at, kind |-> "aware"]
NaiveEvent(action, names, at) == [Event(action, names, at) EXCEPT !.kind = "naive"]
ManyAuditLogs ==
  {{}, {Event("REVOKE", {"r1"}, -1)}, {Event("REVOKE", {"r2"}, -2), Event("ADD", {"r1"}, -1)},
   {Event("REVOKE", {"r1"}, -9), Event("SYNC", {}, -1)},
   {Event("REVOKE", {"r1"}, -2), Event("SYNC", {}, -1), Event("ADD", {"r1"}, -3)},
   {Event("SYNC", {}, -1), NaiveEvent("SYNC", {}, -2)},
   {Event("REVOKE", {"r1", "r2"}, -1), NaiveEvent("REVOKE", {"r1"}, -2)},
   {Event("REVOKE", {"r1"}, -1), NaiveEvent("REVOKE", {"r2"}, -2)}}

ManyPolicies == {{}, {"r1"}, {"r1", "r2"}}

\* Two users whose account and grants others change: one whose password and
\* whose only grant run out while the run may be under way, and of whom the other
\* required role was removed just as long ago as the search looks; and one who
\* lacks a role that ended and that others may grant again before they remove it.
TwoUsers ==
  {User("ACTIVE", None, <<Login("OPENIAM", At(0)), Login("AD", NoDate)>>,
        <<>>, <<Role("r2", At(1))>>),
   User("ACTIVE", None, <<Login("OPENIAM", NoDate), Login("AD", NoDate)>>,
        <<Role("r1", NoDate), Role("r2", At(-1))>>, <<>>)}
OneDash     == {AllUp}
OneAuthLog  == {{Try(0, TRUE)}}
OneAuditLog == {{Event("REVOKE", {"r1"}, -5)}}
OnePolicy   == {{"r1", "r2"}}
MCGrantEnds == {NoDate, At(0)}
NoEnds      == {}
=============================================================================
