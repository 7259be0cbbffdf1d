-------------------------- MODULE DiagnosticFunnel --------------------------
(***************************************************************************)
(* One diagnostic run of the orchestrator against an OpenIAM that other    *)
(* people keep changing while the run reads it.                            *)
(*                                                                         *)
(* The run is the fixed pipeline of app/orchestrator/state_machine.py with *)
(* the step modules and the connector calls they make; every HTTP call is  *)
(* an action of its own, because the directory may change between any two  *)
(* of them (a run reads the user bean three times).  A call answers "ok",  *)
(* "error" (HTTP status of 400 or more) or "raise" (timeout, refused       *)
(* connection, login redirect instead of JSON, token failure).             *)
(*                                                                         *)
(* Where the code compares an answer with its own clock, the call is two   *)
(* actions: the server reads the bean, and later the client receives the   *)
(* answer and reads datetime.now(UTC).  A search is the other way round:   *)
(* the client's clock fixes its window when it is sent (`asked`), and the  *)
(* server reads the log when it answers.  Receiving that answer reads      *)
(* neither, so it is one action with the server's reading, as are the      *)
(* calls of the first step, which look at no clock.                        *)
(***************************************************************************)
EXTENDS OpenIAM

CONSTANTS
  Users,         \* user beans a behaviour may start with
  Dashboards,    \* connection-test histories it may start with
  AuthLogs,      \* sign-in logs it may start with
  AuditLogs,     \* grant-change logs it may start with
  Policies,      \* sets of required names a request may come with
  Names,         \* names of roles and groups that can be granted and revoked
  GrantEnds,     \* end dates a grant may get
  AuthWindow,    \* DIAGNOSTIC_AUTH_EVENTS_LOOKBACK_HOURS
  AuditWindow,   \* _AUDIT_LOOKBACK
  AuthPage,      \* "size" of the sign-in search (10)
  AuditPage,     \* "size" of the grant-change search (50)
  MaxOps,        \* bound on the directory's changes in a behaviour
  MaxTime        \* bound on the clock

ASSUME BoundsAssumption ==
  /\ {AuthWindow, AuditWindow, AuthPage, AuditPage, MaxOps, MaxTime} \subseteq Nat
  /\ Names \cup {"LOCKED", "ACTIVE", "INACTIVE", "ADD", "REVOKE", None} \subseteq Text
  /\ \A p \in Policies : p \subseteq Names
  /\ GrantEnds \subseteq Date

\* What the directory's endpoints answer from: the sign-in search asks for
\* AuthActions only, and the dashboard knows every managed system a login names.
DirectoryTyped(u, d, al, pl) ==
  /\ u \in UserBean
  /\ d \in [DOMAIN d -> Seq(ConnectionReply)]
  /\ ManagedSystems(u) \subseteq DOMAIN d
  /\ al \subseteq SignInEvent /\ IsFiniteSet(al)
  /\ pl \subseteq GrantEvent /\ IsFiniteSet(pl)

ASSUME InputsAssumption ==
  \A u \in Users, d \in Dashboards, al \in AuthLogs, pl \in AuditLogs :
    DirectoryTyped(u, d, al, pl)

VARIABLES
  now,       \* the wall clock
  user,      \* the subject's bean in the directory
  dash,      \* managed system -> its connection-test replies
  authLog,   \* the subject's sign-in events
  auditLog,  \* the subject's grant-change and provisioning events
  ops,       \* how many changes the directory has made
  pc,        \* the call the run makes next
  required,  \* names the policy requires for the requested system
  verdicts,  \* ctx.verdicts
  link,      \* ctx.subject_password_reset_url
  pending,   \* managed systems whose check has not answered yet
  down,      \* managed systems confirmed down
  missing,   \* required names not held when the grants were read
  expired,   \* names whose grant had ended when the grants were read
  answer,    \* the bean in an answer that is on its way
  asked,     \* the client's clock when it sent the search it waits for
  result,    \* the DiagnosticRunResult
  hist       \* history: what was true during the run, which steps hit a fault

directory == <<now, user, dash, authLog, auditLog, ops>>
local     == <<link, pending, down, missing, expired, answer, asked>>
run       == <<pc, required, verdicts, local, result>>
vars      == <<directory, run, hist>>

Replies == {"ok", "error", "raise"}

NoResult == [verdicts |-> <<>>, outcome |-> None, escalated |-> FALSE, link |-> None]

NoBean == [exists |-> FALSE, status |-> None, secondary |-> None,
           logins |-> <<>>, roles |-> <<>>, groups |-> <<>>]

Running == pc \notin {"idle", "done"}

-----------------------------------------------------------------------------
(* What is true of the directory at one instant, as a set of facts         *)
(* <<subject, fact>>: written from what the facts mean to an administrator *)
(* and not from the connector.  Events that tie on their timestamp make    *)
(* several facts true at once.                                             *)

Ended(d, t) == d.kind = "aware" /\ d.at < t

AccountFacts(t, u) ==
  LET lockedOut == u.secondary \in {"LOCKED", "LOCKED_ADMIN"}
      removed   == \/ \E i \in DOMAIN u.logins : u.logins[i].deleted
                   \/ /\ u.roles # <<>> \/ u.groups # <<>>
                      /\ \A i \in DOMAIN u.roles  : Ended(u.roles[i].end, t)
                      /\ \A i \in DOMAIN u.groups : Ended(u.groups[i].end, t)
      barred    == u.status # "ACTIVE"
      stale     == {i \in DOMAIN u.logins : Ended(u.logins[i].pwdExp, t)}
  IN  {<<"account_status", f>> : f \in
        {c \in {"not_found", "locked", "deprovisioned", "disabled",
                "password_expired", None} :
          CASE c = "not_found"        -> ~u.exists
            [] c = "locked"           -> u.exists /\ lockedOut
            [] c = "deprovisioned"    -> u.exists /\ ~lockedOut /\ removed
            [] c = "disabled"         -> u.exists /\ ~lockedOut /\ ~removed /\ barred
            [] c = "password_expired" -> /\ u.exists /\ ~lockedOut /\ ~removed
                                         /\ ~barred /\ stale # {}
            [] OTHER                  -> /\ u.exists /\ ~lockedOut /\ ~removed
                                         /\ ~barred /\ stale = {}}}
      \cup {<<"expired login", u.logins[i].sys>> : i \in stale}
      \cup {<<"usable login", u.logins[i].sys>> :
              i \in {j \in DOMAIN u.logins :
                      \A k \in stale : u.logins[k].sys # u.logins[j].sys}}
      \cup {<<"OPENIAM login", u.logins[i].login>> :
              i \in {j \in DOMAIN u.logins : u.logins[j].sys = "OPENIAM"}}

SystemFacts(u, d) ==
  UNION {LET rs     == d[s]
             dated  == {i \in DOMAIN rs : rs[i].dated}
             latest == IF dated = {} THEN {Len(rs)} \cap DOMAIN rs
                       ELSE {i \in dated : \A j \in dated : rs[j].at <= rs[i].at}
         IN  IF latest = {} THEN {<<"up", s>>}
             ELSE {<<IF rs[i].ok THEN "up" ELSE "down", s>> : i \in latest}
         : s \in {u.logins[i].sys : i \in DOMAIN u.logins} \ {"unknown system"}}

AuthFacts(t, al) ==
  LET recent == {e \in al : e.kind \in {"naive", "aware"} /\ e.at \in (t - AuthWindow)..t}
      latest == {e \in recent : \A f \in recent : f.at <= e.at}
  IN  IF latest = {} THEN {<<"auth_events", None>>}
      ELSE {<<"auth_events",
              IF e.ok THEN None
              ELSE IF e.action = None THEN "auth_failed" ELSE e.action>> : e \in latest}

AccessFacts(t, u, pl, need) ==
  LET all     == IF u.exists THEN u.roles \o u.groups ELSE <<>>
      holds   == {n \in need : \E i \in DOMAIN all :
                    /\ all[i].name = n
                    /\ \/ all[i].end.kind \in {"none", "garbled"}
                       \/ all[i].end.at > t}
      lacks   == need \ holds
      ran_out == {n \in lacks : \E i \in DOMAIN all : all[i].name = n}
      taken   == {n \in lacks : \E e \in pl :
                    /\ e.kind \in {"naive", "aware"} /\ e.action = "REVOKE"
                    /\ e.at \in (t - AuditWindow)..t /\ n \in e.names}
  IN  {<<"authorization",
         IF lacks = {} THEN None
         ELSE IF taken # {} THEN "access_revoked"
         ELSE IF ran_out # {} THEN "access_expired" ELSE "missing_role">>}
      \cup {<<"twice", n>> : n \in
              {m \in need : \E i, j \in DOMAIN all :
                 i # j /\ all[i].name = m /\ all[j].name = m}}

Facts(t, u, d, al, pl, need) ==
  AccountFacts(t, u) \cup SystemFacts(u, d) \cup AuthFacts(t, al)
    \cup AccessFacts(t, u, pl, need)

\* The history of a run starts with what is true when it starts...
StartWatching ==
  hist' = [was    |-> Facts(now, user, dash, authLog, auditLog, required'),
           late   |-> {},
           faults |-> {}]

\* ...grows with every change the directory makes while it runs...
KeepWatching(aged) ==
  hist' = IF ~Running THEN hist
          ELSE [hist EXCEPT
                  !.was  = @ \cup Facts(now', user', dash', authLog', auditLog', required),
                  !.late = @ \cup aged]

\* ...keeps apart what only the passing of time made of an answer that was on
\* its way...
Aged(t) ==
  CASE pc = "status" -> AccountFacts(t, answer)
    [] pc = "grants" -> AccessFacts(t, answer, auditLog, required)
    [] OTHER         -> {}

\* ...and remembers the steps in which a call did not do its job.
Blame(step, failed) ==
  hist' = IF failed THEN [hist EXCEPT !.faults = @ \cup {step}] ELSE hist

-----------------------------------------------------------------------------
(* The directory's own operations (administrators, the user, batch jobs).  *)

Change == ops < MaxOps /\ ops' = ops + 1 /\ UNCHANGED <<now, run>> /\ KeepWatching({})

ChangeUser(u) ==
  user.exists /\ user' = u /\ UNCHANGED <<dash, authLog, auditLog>> /\ Change

LockOrUnlock ==
  ChangeUser([user EXCEPT !.secondary = IF @ = None THEN "LOCKED" ELSE None])

EnableOrDisable ==
  ChangeUser([user EXCEPT !.status = IF @ = "ACTIVE" THEN "INACTIVE" ELSE "ACTIVE"])

ResetPassword(i) ==
  /\ user.logins[i].pwdExp # NoDate
  /\ ChangeUser([user EXCEPT !.logins[i].pwdExp = NoDate])

RemoveAccount ==
  ChangeUser([user EXCEPT !.exists = FALSE])

\* A change of the roles or the groups and the audit event that records it.
ChangeGrants(kind, grants, action, n) ==
  /\ user.exists
  /\ user' = [user EXCEPT ![kind] = grants]
  /\ auditLog' = auditLog \cup
       {[action |-> action, names |-> {n}, at |-> now, kind |-> "aware"]}
  /\ UNCHANGED <<dash, authLog>>
  /\ Change

Grant(kind, n, end) ==
  ChangeGrants(kind, Append(user[kind], [name |-> n, end |-> end]), "ADD", n)

Without(grants, i) ==
  SubSeq(grants, 1, i - 1) \o SubSeq(grants, i + 1, Len(grants))

Revoke(kind, i) ==
  ChangeGrants(kind, Without(user[kind], i), "REVOKE", user[kind][i].name)

\* A grant is extended or cut short; the audit search does not ask for that.
ChangeEnd(kind, i, end) ==
  ChangeUser([user EXCEPT ![kind][i].end = end])

SignIn(ok) ==
  /\ authLog' = authLog \cup
       {[at |-> now, kind |-> "aware", ok |-> ok, action |-> "LOGIN"]}
  /\ UNCHANGED <<user, dash, auditLog>>
  /\ Change

ConnectionTest(s, ok) ==
  /\ dash' = [dash EXCEPT ![s] = Append(@, [dated |-> TRUE, at |-> now, ok |-> ok])]
  /\ UNCHANGED <<user, authLog, auditLog>>
  /\ Change

Tick ==
  /\ now < MaxTime
  /\ now' = now + 1
  /\ UNCHANGED <<user, dash, authLog, auditLog, ops, run>>
  /\ KeepWatching(Aged(now'))

Directory ==
  \/ LockOrUnlock
  \/ EnableOrDisable
  \/ \E i \in DOMAIN user.logins : ResetPassword(i)
  \/ RemoveAccount
  \/ \E kind \in {"roles", "groups"} :
       \/ \E n \in Names, end \in GrantEnds : Grant(kind, n, end)
       \/ \E i \in DOMAIN user[kind] : Revoke(kind, i)
       \/ \E i \in DOMAIN user[kind], end \in GrantEnds : ChangeEnd(kind, i, end)
  \/ \E ok \in BOOLEAN : SignIn(ok)
  \/ \E s \in DOMAIN dash, ok \in BOOLEAN : ConnectionTest(s, ok)
  \/ Tick

-----------------------------------------------------------------------------
(* The run *)

CallOf(step) ==
  CASE step = "system_availability" -> "availability"
    [] step = "account_status"      -> "account"
    [] step = "auth_events"         -> "auth"
    [] step = "authorization"       -> "required"

CurrentStep == StepNames[Len(verdicts) + 1]

MutantStops(status, n) == status = "fail" \/ n = Len(StepNames)

\* The funnel stops at its first verdict that is not a pass, or at its end.
Stops(status, n) == status # "pass" \/ n = Len(StepNames)

\* run(): append the verdict and go on to the next step or finalize.
Conclude(status, cause) ==
  LET v == [step |-> CurrentStep, status |-> status, cause |-> cause] IN
  /\ verdicts' = Append(verdicts, v)
  /\ IF Stops(status, Len(verdicts'))
       THEN pc' = "done" /\ result' = Finalize(verdicts', link')
       ELSE pc' = CallOf(StepNames[Len(verdicts') + 1]) /\ UNCHANGED result

\* _run_step_fail_closed: whatever a step raises becomes an INCONCLUSIVE verdict.
StepError == Conclude("inconclusive", "step_error")

\* A bean that does not exist answers 404, which is not a fault of the call.
UserReply(u, reply) == u.exists \/ reply # "ok"

LookupFailed(u, reply) == reply = "raise" \/ (reply = "error" /\ u.exists)

StartRun ==
  /\ ~Running
  /\ pc' = "availability"
  /\ required' \in Policies
  /\ verdicts' = <<>> /\ link' = None /\ result' = NoResult
  /\ pending' = {} /\ down' = {} /\ missing' = {} /\ expired' = {}
  /\ answer' = NoBean /\ asked' = 0
  /\ UNCHANGED directory
  /\ StartWatching

\* step1_system_availability: any availability but UP fails with its own cause.
ConcludeAvailability(status) ==
  \/ status = "up" /\ Conclude("pass", None)
  \/ status = "down" /\ Conclude("fail", "system_down")
  \/ status = "degraded" /\ Conclude("fail", "system_degraded")

\* check_availability, first call: which managed systems does the user have?
LookUpManagedSystems(reply) ==
  /\ pc = "availability"
  /\ UserReply(user, reply)
  /\ Blame("system_availability", LookupFailed(user, reply))
  /\ UNCHANGED <<directory, required, link, down, missing, expired, answer, asked>>
  /\ \/ /\ reply = "raise"
        /\ StepError
        /\ UNCHANGED pending
     \/ /\ reply = "error"
        /\ ConcludeAvailability("degraded")
        /\ UNCHANGED pending
     \/ /\ reply = "ok" /\ ManagedSystems(user) = {}
        /\ ConcludeAvailability("up")
        /\ UNCHANGED pending
     \/ /\ reply = "ok" /\ ManagedSystems(user) # {}
        /\ pending' = ManagedSystems(user)
        /\ pc' = "systems"
        /\ UNCHANGED <<verdicts, result>>

MutantStillPending(s, reply) ==
  CASE reply = "raise" -> {}
    [] reply = "error" -> ManagedSystems(user)   \* start all of them again
    [] OTHER           -> pending \ {s}

StillPending(s, reply) == IF reply = "raise" THEN {} ELSE pending \ {s}

\* check_availability, asyncio.gather: the checks answer in any order, the
\* step goes on when all of them have; one that raises ends the step at once.
CheckManagedSystem(s, reply) ==
  /\ pc = "systems" /\ s \in pending
  /\ Blame("system_availability", reply # "ok")
  /\ pending' = StillPending(s, reply)
  /\ down' = IF reply = "ok" /\ ConfirmedDown(dash[s]) THEN down \cup {s} ELSE down
  /\ UNCHANGED <<directory, required, link, missing, expired, answer, asked>>
  /\ \/ reply = "raise" /\ StepError
     \/ /\ reply # "raise" /\ pending' = {}
        /\ ConcludeAvailability(IF down' = {} THEN "up" ELSE "down")
     \/ reply # "raise" /\ pending' # {} /\ UNCHANGED <<pc, verdicts, result>>

\* step2_account_status: any status but ACTIVE is the cause of a failure.
ConcludeAccount(status) ==
  \/ status = "active" /\ Conclude("pass", None)
  \/ status # "active" /\ Conclude("fail", status)

\* get_user_status, up to the answer: the server reads the bean.
ServeAccount ==
  /\ pc = "account"
  /\ answer' = user
  /\ pc' = "status"
  /\ UNCHANGED <<directory, required, verdicts, link, pending, down, missing,
                 expired, asked, result, hist>>

\* get_user_status, and the reset link it offers, when the answer is there.  If
\* the step passes, the next one sends its search at once.
CheckAccount(reply) ==
  /\ pc = "status"
  /\ UserReply(answer, reply)
  /\ Blame("account_status", LookupFailed(answer, reply))
  /\ answer' = NoBean /\ asked' = now
  /\ UNCHANGED <<directory, required, pending, down, missing, expired>>
  /\ \/ /\ reply = "raise" \/ (reply = "ok" /\ UserStatusRaises(answer, now))
        /\ UNCHANGED link
        /\ StepError
     \/ /\ reply = "error"
        /\ link' = None
        /\ ConcludeAccount("not_found")
     \/ /\ reply = "ok" /\ ~UserStatusRaises(answer, now)
        /\ link' = PasswordResetLink(answer, now)
        /\ ConcludeAccount(UserStatus(answer, now))

\* step3_auth_events.  An error answers like an empty log.
CheckAuthEvents(reply) ==
  /\ pc = "auth"
  /\ Blame("auth_events",
           \/ reply # "ok"
           \/ Cardinality(InWindow(authLog, asked, AuthWindow)) > AuthPage)
  /\ UNCHANGED <<directory, required, local>>
  /\ \/ reply = "raise" /\ StepError
     \/ reply = "error" /\ Conclude("pass", None)
     \/ /\ reply = "ok"
        /\ \E page \in Pages(authLog, asked, AuthWindow, AuthPage) :
             \/ Parsed(page) = {} /\ Conclude("pass", None)
             \/ Mixed(Parsed(page)) /\ StepError
             \/ \E latest \in LatestEvents(Parsed(page)) :
                  /\ ~Mixed(Parsed(page))
                  /\ \/ latest.ok /\ Conclude("pass", None)
                     \/ ~latest.ok /\ Conclude("fail", AuthCause(latest))

\* step4_authorization: a system whose policy requires nothing.
NothingRequired ==
  /\ pc = "required" /\ required = {}
  /\ UNCHANGED <<directory, required, local, hist>>
  /\ Conclude("pass", None)

\* get_effective_permissions, up to the answer: the server reads the bean again.
ServeGrants ==
  /\ pc = "required" /\ required # {}
  /\ answer' = user
  /\ pc' = "grants"
  /\ UNCHANGED <<directory, required, verdicts, link, pending, down, missing,
                 expired, asked, result, hist>>

\* step4_authorization: the grants, split into held and expired names by the
\* clock of their arrival; then it sends the audit search at once.
FetchGrants(reply) ==
  /\ pc = "grants"
  /\ UserReply(answer, reply)
  /\ Blame("authorization", LookupFailed(answer, reply))
  /\ answer' = NoBean /\ asked' = now
  /\ UNCHANGED <<directory, required, link, pending, down>>
  /\ \/ /\ reply = "raise" \/ (reply = "ok" /\ GrantsRaise(answer))
        /\ UNCHANGED <<missing, expired>>
        /\ StepError
     \/ /\ reply = "error"
        /\ missing' = required /\ expired' = {}
        /\ pc' = "audit" /\ UNCHANGED <<verdicts, result>>
     \/ /\ reply = "ok" /\ ~GrantsRaise(answer)
        /\ missing' = required \ HeldNames(answer, now)
        /\ expired' = ExpiredNames(answer, now)
        /\ pc' = "audit" /\ UNCHANGED <<verdicts, result>>

\* step4_authorization: the grant-change events, then the verdict.
FetchPermissionAudit(reply) ==
  /\ pc = "audit"
  /\ Blame("authorization",
           \/ reply # "ok"
           \/ Cardinality(InWindow(auditLog, asked, AuditWindow)) > AuditPage)
  /\ UNCHANGED <<directory, required, local>>
  /\ \/ reply = "raise" /\ StepError
     \/ /\ reply # "raise"
        /\ \E page \in IF reply = "error" THEN {{}}
                       ELSE Pages(auditLog, asked, AuditWindow, AuditPage) :
             \/ AuditRaises(missing, Parsed(page)) /\ StepError
             \/ /\ ~AuditRaises(missing, Parsed(page))
                /\ \/ missing = {} /\ Conclude("pass", None)
                   \/ missing # {} /\ Conclude("fail",
                        MissingCause(missing, expired, RevokedNames(Parsed(page))))

Diagnose ==
  \/ \E r \in Replies : LookUpManagedSystems(r)
  \/ \E s \in pending, r \in Replies : CheckManagedSystem(s, r)
  \/ ServeAccount
  \/ \E r \in Replies : CheckAccount(r)
  \/ \E r \in Replies : CheckAuthEvents(r)
  \/ NothingRequired
  \/ ServeGrants
  \/ \E r \in Replies : FetchGrants(r)
  \/ \E r \in Replies : FetchPermissionAudit(r)

-----------------------------------------------------------------------------
Init ==
  /\ now = 0 /\ ops = 0
  /\ user \in Users /\ dash \in Dashboards
  /\ authLog \in AuthLogs /\ auditLog \in AuditLogs
  /\ pc = "idle" /\ required = {}
  /\ verdicts = <<>> /\ link = None /\ result = NoResult
  /\ pending = {} /\ down = {} /\ missing = {} /\ expired = {}
  /\ answer = NoBean /\ asked = 0
  /\ hist = [was |-> {}, late |-> {}, faults |-> {}]

Next == StartRun \/ Diagnose \/ Directory

\* Every call of the run ends: httpx gives each of them a timeout, and a
\* timeout is a "raise".  (The token a call sends may have to be fetched from
\* Redis first, which has no timeout: it is assumed to answer or to fail.)
Fairness == WF_vars(Diagnose)

Spec == Init /\ [][Next]_vars /\ Fairness

-----------------------------------------------------------------------------
(* Properties *)

Done == pc = "done"

\* Type correctness of the run's own state, and of what it reads.
TypeOK ==
  /\ DirectoryTyped(user, dash, authLog, auditLog)
  /\ now \in Nat /\ ops \in 0..MaxOps
  /\ pc \in {"idle", "availability", "systems", "account", "status", "auth",
             "required", "grants", "audit", "done"}
  /\ required \subseteq Names
  /\ verdicts \in Seq(Verdict) /\ Len(verdicts) <= Len(StepNames)
  /\ missing \subseteq required
  /\ link \in Text /\ answer \in UserBean /\ asked \in Nat
  /\ result = NoResult \/
       /\ result.verdicts \in Seq(Verdict)
       /\ result.outcome \in Outcome
       /\ result.escalated \in BOOLEAN
  /\ hist = [was |-> hist.was, late |-> hist.late, faults |-> hist.faults]
  /\ hist.faults \subseteq Steps

\* What a verdict claims, against everything that was true during the run.  The
\* availability verdict is a statement about each managed system on its own, so
\* it is read system by system.
WasTrue(v, was, systems) ==
  \/ v.step # "system_availability" /\ <<v.step, v.cause>> \in was
  \/ /\ v.step = "system_availability" /\ v.cause = None
     /\ \A s \in systems : <<"up", s>> \in was
  \/ v.cause = "system_down" /\ \E s \in systems : <<"down", s>> \in was
  \/ v.cause = "system_degraded" /\ <<"account_status", "not_found">> \in was

\* What the clock made of an answer on its way: a date of the bean passed, or a
\* revocation left the audit window, while the directory already said otherwise.
CameLate(v, late) == <<v.step, v.cause>> \in late

\* A removal is told from a loss by name only: who has a name twice, as a role
\* and as a group say, may lose one of them and keep the other.
TakenOnce(v, was) ==
  v.cause = "access_revoked" /\ \E n \in required : <<"twice", n>> \in was

\* A verdict reached without a failed call or an overflowing search page was
\* true of the directory at some instant of the run, though the directory
\* kept changing between the calls; the only exceptions are an answer that the
\* clock overtook on its way, and a revocation of a name that was granted twice.
EveryVerdictWasTrue ==
  Done => \A i \in DOMAIN result.verdicts :
    LET v == result.verdicts[i] IN
    v.status # "inconclusive" /\ v.step \notin hist.faults =>
      \/ WasTrue(v, hist.was, ManagedSystems(user))
      \/ CameLate(v, hist.late)
      \/ TakenOnce(v, hist.was)

\* The message and the record agree: the user is told the case was escalated
\* exactly when it was, to request access exactly for an access gap, and what
\* to do on their own exactly for a self-service fix.
MessageHonest ==
  Done =>
    /\ VerdictMessage(result) = "escalated" <=> result.escalated
    /\ VerdictMessage(result) = "request_access" <=> result.outcome = "access_gap"
    /\ VerdictMessage(result) \in {"contact_admin", "reset_password", "retry_login"}
         <=> result.outcome = "self_service_fix"

\* What was true of the account at an instant of the run, or of the answer about
\* it at an instant of its way.
Seen == hist.was \cup hist.late

\* A reset link is shown only to a user whose OPENIAM password had expired by
\* the time the answer that said so was there, and it resets an OPENIAM login.
ResetLinkHelps ==
  Done /\ MessageLink(result) # None =>
    /\ <<"OPENIAM login", MessageLink(result)>> \in Seen
    /\ <<"expired login", "OPENIAM">> \in Seen
    /\ VerdictMessage(result) = "reset_password"

\* The other way round: whoever is told to reset a password gets the link if
\* the OPENIAM one had expired, unless it was usable at some instant of the run
\* or the directory has an OPENIAM entry that names no login.
ResetLinkOffered ==
  Done /\ VerdictMessage(result) = "reset_password"
    /\ <<"expired login", "OPENIAM">> \in hist.was
    /\ <<"usable login", "OPENIAM">> \notin Seen
    /\ <<"OPENIAM login", None>> \notin Seen
      => MessageLink(result) # None

\* The run implements Diagnosis: whatever the directory does and whatever the
\* calls answer, its verdicts and its result are those of a promised run.
Promised == INSTANCE Diagnosis WITH
  Links <- Text,
  phase <- IF Running THEN "running" ELSE pc

ImplementsDiagnosis == Promised!Spec

\* A started run ends.
RunEnds == Running ~> Done

\* state_machine.py:78-82 and README.md:49-50: any error becomes INCONCLUSIVE
\* and the run escalates.  (An overflowing page is not an error of a call.)
FailClosed ==
  Done /\ hist.faults # {} => result.escalated

\* state_machine.py:58-63: a user without an account does not have
\* provisioned access, so the instruction is to submit a new request.
NoAccountIsAccessGap ==
  Done /\ ~user.exists /\ hist.faults = {} /\ verdicts[Len(verdicts)].status = "fail"
    /\ (\A f \in hist.was : f[1] = "account_status" => f[2] = "not_found")
      => result.outcome = "access_gap"
=============================================================================
