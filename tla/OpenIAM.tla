------------------------------- MODULE OpenIAM -------------------------------
(***************************************************************************)
(* How the OpenIAM connector reads one user bean, one connection-test      *)
(* history and the audit-log searches: the pure functions of               *)
(* app/connectors/openiam/connector.py and of the funnel step that         *)
(* consumes grants and audit events.                                       *)
(*                                                                         *)
(* A date of a bean is a record [kind, at].  "aware" carries a UTC offset, *)
(* "naive" parses without one, "garbled" does not parse, "none" is absent. *)
(* Comparing a naive date with datetime.now(UTC) raises TypeError.         *)
(***************************************************************************)
EXTENDS Integers, Sequences, FiniteSets, Functions, Verdicts

CONSTANT Text   \* the strings of the directory's beans and events

DateKinds == {"none", "garbled", "naive", "aware"}

Date == [kind : DateKinds, at : Int]

NoDate == [kind |-> "none", at |-> 0]

\* _parse_end_date: what cannot be parsed counts as no date at all.
ParseEndDate(raw) == IF raw.kind \in {"naive", "aware"} THEN raw ELSE NoDate

Incomparable(raw) == ParseEndDate(raw).kind = "naive"

\* `date is not None and date < now`
HasPassed(raw, now) ==
  LET date == ParseEndDate(raw) IN date.kind # "none" /\ date.at < now

-----------------------------------------------------------------------------
(* The user bean: [exists, status, secondary, logins, roles, groups].      *)
(* A login is [sys, login, deleted, pwdExp], where a missing managedSys    *)
(* reads as "unknown system" and a missing or empty login as None; a grant *)
(* is [name, end].                                                         *)

LoginBean == [sys : Text, login : Text, deleted : BOOLEAN, pwdExp : Date]

GrantBean == [name : Text, end : Date]

UserBean ==
  [exists : BOOLEAN, status : Text, secondary : Text,
   logins : Seq(LoginBean), roles : Seq(GrantBean), groups : Seq(GrantBean)]

ExpiredLogins(u, now) ==
  {p \in Range(u.logins) : HasPassed(p.pwdExp, now)}

Locked(u) == u.secondary \in {"LOCKED", "LOCKED_ADMIN"}

LoginDeleted(u) == \E p \in Range(u.logins) : p.deleted

MutantGrants(u) == u.roles

Grants(u) == u.roles \o u.groups

\* A login is gone, or there were grants and every one of them has ended.
Deprovisioned(u, now) ==
  \/ LoginDeleted(u)
  \/ /\ Grants(u) # <<>>
     /\ \A g \in Range(Grants(u)) : HasPassed(g.end, now)

\* all() stops at the first grant that has not ended, so a naive date raises
\* only when every grant in front of it has ended.
GrantScanRaises(u, now) ==
  \E i \in DOMAIN Grants(u) :
    /\ Incomparable(Grants(u)[i].end)
    /\ \A j \in 1..(i - 1) : HasPassed(Grants(u)[j].end, now)

\* The password dates of all logins are compared before anything else.
UserStatusRaises(u, now) ==
  \/ \E p \in Range(u.logins) : Incomparable(p.pwdExp)
  \/ ~Locked(u) /\ ~LoginDeleted(u) /\ GrantScanRaises(u, now)

UserStatus(u, now) ==
  IF Locked(u) THEN "locked"
  ELSE IF Deprovisioned(u, now) THEN "deprovisioned"
  ELSE IF u.status # "ACTIVE" THEN "disabled"
  ELSE IF ExpiredLogins(u, now) # {} THEN "password_expired"
  ELSE "active"

First(S) == CHOOSE i \in S : \A j \in S : i <= j

MutantSelectLogin(u) == IF u.logins = <<>> THEN None ELSE u.logins[1].login

\* The login of the first OPENIAM entry, named or not; without such an entry
\* that of the first of the list.
SelectLogin(u) ==
  LET own == {i \in DOMAIN u.logins : u.logins[i].sys = "OPENIAM"} IN
  CASE own # {}                     -> u.logins[First(own)].login
    [] own = {} /\ u.logins # <<>> -> u.logins[1].login
    [] OTHER                        -> None

MutantPasswordResetLink(u, now) ==
  IF \E p \in ExpiredLogins(u, now) : p.sys # "OPENIAM" THEN None ELSE SelectLogin(u)

\* password_reset_url, named by the login it resets; no login, no link.
PasswordResetLink(u, now) ==
  IF /\ UserStatus(u, now) = "password_expired"
     /\ \A p \in ExpiredLogins(u, now) : p.sys # "OPENIAM"
    THEN None
    ELSE SelectLogin(u)

ManagedSystems(u) == {p.sys : p \in Range(u.logins)} \ {"unknown system"}

-----------------------------------------------------------------------------
(* Connection tests of one managed system: a sequence of [dated, at, ok].  *)

ConnectionReply == [dated : BOOLEAN, at : Int, ok : BOOLEAN]

\* max() over the replies whose dateStr parses (the first of equals), else
\* the last entry of the list.
LatestReply(replies) ==
  LET dated == {i \in DOMAIN replies : replies[i].dated}
      newest == CHOOSE i \in dated : \A j \in dated :
                  \/ replies[j].at < replies[i].at
                  \/ replies[j].at = replies[i].at /\ i <= j
  IN  IF dated = {} THEN Last(replies) ELSE replies[newest]

\* _check_managed_system: only a confirmed non-"Ok" reply counts as down.
ConfirmedDown(replies) == replies # <<>> /\ ~LatestReply(replies).ok

-----------------------------------------------------------------------------
(* Audit-log searches.  The log is a set of events with a time `at`; the   *)
(* search names its window when it is sent and returns the events in it,   *)
(* one page of them at most, in an order the request does not ask for.     *)

AuthActions == {"LOGIN", "DO_LOGIN", None}

SignInEvent == [at : Int, kind : DateKinds, ok : BOOLEAN, action : AuthActions]

\* A removal or grant names the roles and groups it is about, maybe several.
GrantEvent == [at : Int, kind : DateKinds, action : Text, names : SUBSET Text]

\* fromDate to toDate of a search sent at `asked`.
InWindow(log, asked, window) == {e \in log : e.at \in (asked - window)..asked}

Pages(log, asked, window, size) ==
  LET found == InWindow(log, asked, window) IN
  IF Cardinality(found) <= size THEN {found}
  ELSE {page \in SUBSET found : Cardinality(page) = size}

\* Beans without a parseable timestamp are dropped (after the paging).
Parsed(page) == {e \in page : e.kind \in {"naive", "aware"}}

\* Comparing a timestamp that has a UTC offset with one that has not raises.
Mixed(events) == \E e, f \in events : e.kind # f.kind

\* The sign-in events that may come out of max(events, key=timestamp).
LatestEvents(events) == {e \in events : \A f \in events : f.at <= e.at}

AuthCause(e) == IF e.action = None THEN "auth_failed" ELSE e.action

-----------------------------------------------------------------------------
(* Step 4: required names against grants and grant-change events.          *)

MutantStillHeld(raw, now) == ~HasPassed(raw, now)

\* `end_date is None or end_date > now`
StillHeld(raw, now) ==
  LET date == ParseEndDate(raw) IN date.kind = "none" \/ date.at > now

GrantsRaise(u) == \E g \in Range(Grants(u)) : Incomparable(g.end)

HeldNames(u, now) ==
  {g.name : g \in {h \in Range(Grants(u)) : StillHeld(h.end, now)}}

ExpiredNames(u, now) ==
  {g.name : g \in {h \in Range(Grants(u)) : ~StillHeld(h.end, now)}}

\* Every removal of a role or a group, whoever removed it and whatever
\* happened to the grant afterwards.
Removals(events) == {e \in events : e.action = "REVOKE"}

RevokedNames(events) == UNION {e.names : e \in Removals(events)}

\* The latest provisioning event is always looked for, the latest removal of
\* each name only when something is missing.
AuditRaises(missing, events) ==
  \/ Mixed({e \in events : e.action = "SYNC"})
  \/ /\ missing # {}
     /\ \E e, f \in Removals(events) :
          e.names \cap f.names # {} /\ Mixed({e, f})

ClassifyMissing(name, expired, revoked) ==
  CASE name \in revoked                       -> "access_revoked"
    [] name \in expired /\ name \notin revoked -> "access_expired"
    [] OTHER                                  -> "missing_role"

\* One cause per verdict: the most specific of the missing names' causes.
MissingCause(missing, expired, revoked) ==
  LET causes == {ClassifyMissing(n, expired, revoked) : n \in missing} IN
  CASE "access_revoked" \in causes -> "access_revoked"
    [] "access_revoked" \notin causes /\ "access_expired" \in causes
                                   -> "access_expired"
    [] OTHER                       -> "missing_role"
=============================================================================
