# The access troubleshooting agent in TLA+

This directory holds the specification of the access troubleshooting agent: TLA+
modules translated from `src/app`, TLC configurations that check small instances of
them, and proofs that TLAPS checks for every value of the constants.

Run everything from this directory:

    tlasany M.tla                                     parse a module
    tlc -workers 2 -config X.cfg M                    check a configuration
    tlapm MProofs.tla                                 check the proofs of a module

`PROJECT.json` lists the components, the runs, the source lines of every definition
(`map`), the hazards, the findings, the theorems, and for every property of a passing
run one mutant of the code that the property catches.

## 1. The system

A user complains ("I cannot log in"). The API resolves the login to an OpenIAM user,
has a language model classify the text, and runs a fixed, read-only *funnel* of four
checks against the live OpenIAM. The first check that does not pass decides an outcome
(self-service fix, access gap, escalation), a templated message and, for an expired
OpenIAM password, a reset link. The run and its audit events are stored in Postgres.
A user can later escalate a stored request.

| component | state it keeps | operations | modelled in |
|---|---|---|---|
| diagnostic funnel (`orchestrator/state_machine.py`, `steps/`) | per run: verdicts so far, the reset link | run, the four steps, `_finalize` | `DiagnosticFunnel`, promise in `Diagnosis` |
| verdicts and messages (`verdicts.py`, `verdict_messages.py`) | none | outcome tables, messages, link eligibility | `Verdicts` |
| OpenIAM connector (`connectors/openiam/connector.py`) | none | the reads the steps make, parsing and classification | `OpenIAM` (pure part), `DiagnosticFunnel` (calls) |
| OpenIAM token client (`token_client.py`) | per process: token, deadline, cookie jar, lock; shared: two Redis keys | `get_access_token`, login flow, cache read and write | `TokenClient` |
| intake, diagnostic service, audit, database session (`services/`, `api/intake.py`, `audit/`, `repositories/`, `db/session.py`) | per HTTP call: one session with its connection and unflushed rows; shared: requests, runs, audit events, the connection pool | submit, run, record, escalate, commit, roll back, query | `DiagnosticService`, promise in `CaseFile` |
| agent kill switch (`core/killswitch.py`) | a setting read when a process starts | refuse a call | `DiagnosticService` |
| schema migrations (`alembic/`, with the tables of `app/models`) | shared: the database schema and its row in `alembic_version`; per command: one transaction with its locks | upgrade or downgrade from any revision to any other, beside the API's calls | `Migrations`, the scripts in `SchemaHistory`, their statements in `Schema` |
| remediation | remediation actions | request, execute behind tier gate, approval and kill switch | not modelled: out of scope of the program's present phase (`src/README.md:40-42`), its routes raise `NotImplementedError` |
| self-diagnosis worker, chat webhooks, other connectors, step 5, vault | none | stubs that raise `NotImplementedError` | not modelled (section 7) |
| policy store, connector registry, configuration, logging, metrics | read-only after start, or pure I/O | | not modelled (section 7) |
| LLM client | none | one call that extracts a category | one step of `DiagnosticService` (`Parse`) that succeeds or raises |

How they interact: the API awaits the intake service, then the diagnostic service,
which awaits the orchestrator, which awaits one connector call after another (only
the managed systems are checked concurrently, with `asyncio.gather`). Every connector
call first awaits the token client, which is a singleton per process; processes share
its token through Redis. OpenIAM is changed meanwhile by administrators, by its users
and by its own jobs. Operators migrate the database with `alembic`, by hand and at any
time: the processes are not told.

What is hard here, and which property is for it:

- *A directory that moves under a run.* A run reads the same user bean three times and
  two audit searches, never in one snapshot, and reads its own clock when an answer has
  arrived and not when it was made. `EveryVerdictWasTrue`, `ResetLinkHelps`.
- *Errors as evidence.* The connector turns HTTP errors into answers (not found, no
  events, no grants). `FailClosed`, `NoAccountIsAccessGap` (both violated, section 6).
- *Three tables that must agree.* Outcome, message and reset eligibility are decided in
  three places. `MessageHonest`, `ResetLinkHelps`, `ResetLinkOffered`.
- *Dates.* Missing, unparseable, naive (which raise when compared), equal to the
  present. `EveryVerdictWasTrue`, `ImplementsDiagnosis`.
- *A cache of two tiers with two keys.* Tasks queue at a lock, processes overwrite each
  other's keys between two commands, logins fail half-way, answers take longer than
  anyone planned, processes restart. `NoNeedlessLogin`, `FreshWhenSent`, `SharedFresh`,
  `OwnCookiesMatch`, `RestoredCookiesMatch`.
- *One transaction around slow calls.* A complaint is stored by five statements around a
  funnel that waits for OpenIAM, with a connection of a bounded pool in hand, and is
  committed after the answer has left. `ImplementsCaseFile`, `RefusedLeavesNothing`,
  `EscalationCarriesRun`, `EveryCallEnds`, `EscalationFindsRequest` (violated).
- *A switch that is read at start.* `KillSwitchHolds`.
- *Two names for one person.* The login id and OpenIAM's user id. `OwnEventsVisible`
  (violated).
- *Six scripts that nobody runs from the first to the last.* Later scripts take back
  what earlier ones made, partly in hand-written SQL, and the ORM classes repeat the
  columns. `ScriptsApply`, `NewestServesCode`, `MigrateSucceeds` (violated).
- *Migrations in the middle of everything.* Commands overtake each other, die between
  two scripts, and lock tables in the opposite order to a complaint in flight.
  `SchemaOfRevision`, `TablesStay`, `EveryTransactionEnds`.
- *Termination.* No timeout is applied by the orchestrator itself. `RunEnds`,
  `EveryCallerAnswered`.

## 2. The modules and the code

`Verdicts` is the vocabulary: statuses, causes, outcomes, the outcome tables of
`state_machine.py`, `_finalize`, and what each message template asks of the user
(`contact_admin`, `reset_password`, `request_access`, `retry_login`, `escalated`). The
wording is left out.

`OpenIAM` is the connector's pure part. A date is a record `[kind, at]` whose kind is
`none`, `garbled`, `naive` or `aware`: that is all `_parse_end_date` and the comparisons
with `datetime.now(UTC)` tell apart. `UserStatusRaises` and `GrantsRaise` say exactly
when a naive date makes a comparison raise, which depends on the order of the grants
because `all()` stops early; `Mixed` and `AuditRaises` say the same of the timestamps of
audit events, which raise when one with an offset is compared with one without.
`UserBean`, `ConnectionReply`, `SignInEvent` and `GrantEvent` are what the endpoints
answer with, as far as the code reads it; their strings come from the constant `Text`, of
which the code compares some with literals. A login entry has a managed system and a
login name, which may be missing (`None`): `SelectLogin` returns the name of the first
OPENIAM entry whether it has one or not, and without a name there is no link. A removal
names any set of roles and groups. `Pages` is a search of at most one page in an order
the request does not ask for; `Parsed` drops what has no parseable timestamp, after the
paging.

`Diagnosis` is the abstract specification: verdicts appear one at a time in the funnel's
order, the first that is not a pass is the last, the result is published once and is
never more reassuring than its last verdict allows.

`DiagnosticFunnel` is one run after another against a directory that others change, with
every connector call an action of its own, because the directory can change between any
two (`LookUpManagedSystems`, `CheckManagedSystem`, `CheckAccount`, `CheckAuthEvents`,
`FetchGrants`, `FetchPermissionAudit`); `NothingRequired` is step 4 when the policy
requires no name. `ConcludeAvailability` and `ConcludeAccount` are what steps 1 and 2
make of the connector's status. A call answers `ok`, `error` (HTTP 400 and more) or
`raise` (timeout, refused connection, login page instead of JSON, token failure).
`Conclude` is the loop of `run()`, `StepError` is `_run_step_fail_closed`.

A call takes as many instants as the code can tell apart. `get_user_status` and step 4
compare the bean with `datetime.now(UTC)` after the `await` that brought it
(`connector.py:353`, then lines 81 and 66; `step4_authorization.py:94`, then 95), so the
server's reading (`ServeAccount`, `ServeGrants`) and the receipt (`CheckAccount`,
`FetchGrants`) are two actions, with `answer` on its way between them. The two audit
searches take the clock before they are sent (`connector.py:407`, 485), which is when the
previous answer was received; `asked` is that instant, it fixes the search's window, and
the log is read when the server answers. Nothing that follows their answer looks at a
clock or at the directory, so serving and receiving them are one action; likewise the
calls of step 1.

`Directory` is the outside world and is marked external in `map`: it locks, disables and
removes the user, resets passwords, adds sign-ins and connection tests, and grants,
revokes or gives another end date to any role and any group, with names that may be held
twice. It does not add or rename logins, whose systems and names stay what they were.
The variable `hist` is a history variable: the facts that were true at some instant of
the run (`was`; `Facts` is written from what the facts mean and not from the connector),
what only the passing of time made of an answer on its way (`late`), and the steps in
which a call did not do its job (`faults`). Besides what a verdict claims, `Facts` has
what the properties need to be exact: each managed system `up` or `down`, each login that
was `usable`, the name of each OPENIAM login, and each required name that was granted
`twice`.

`TokenClient` has an action for each stretch of code between two awaits, since tasks of
one asyncio process interleave only there: `Call` and `Enter` (the unlocked and the
locked check), `RedisGet`, `RedisTtl`, `RedisCookies`, `Restore` (`_read_cached_token`),
`StartLogin`, `LoginPost`, `Authorize`, `Redirect`, `Introspect`, `Told`
(`_login_and_authorize`), `SetToken`, `SetCookies`, `Raise`, `Respond`. An answer that
says how long something lasts is made in one step and received in a later one: OpenIAM
issues the token in `Authorize` and the redirect arrives in `Redirect`; it computes what
is left in `Introspect`, which arrives in `Told`; Redis computes the TTL in `RedisTtl`,
and it begins to count in `Restore`, after the cookies have come too. A session is a
number; a jar holds the session whose cookies OpenIAM set and the one whose cookies were
restored from Redis, because restored cookies carry no domain and do not replace the
others. `Crash` restarts a process with nothing but Redis.

`Tick` is free: any number of ticks may pass while an answer is on its way, as Redis,
which has no timeout, allows. How long they took is recorded in history variables:
`took[p]` is how long the process's token was on its way to it, from its issue by OpenIAM
to the step that set its deadline, or that wrote it to Redis before it is first sent, and
`rtoken.took` the same for the key in Redis (what a process takes from Redis was on its
way for both, without the time it lay there). The
properties of the margin are about tokens that were on their way no longer than the
margin. Introspection answers what is left under `expires_in` or `expiresIn`, or under
`exp` the time at which the token ends (`Epoch` is the wall clock at the start), or
nothing that helps. The code reads each as seconds to live; `misread` records the
sessions for which that was a date.

`CaseRows` describes the rows of the three tables, told apart by kind; `Case` is
everything one diagnosed complaint stores. `CaseFile` is the abstract specification of
the database: cases appear whole, an escalation quotes the run of a stored case, and
nothing changes or disappears.

`DiagnosticService` has one process for each HTTP call, and an action for each stretch
of its handler between two awaits: `Submit` (the kill switch comes first), `Resolve`
(`resolve_subject_sub`), `Parse`, `CreateRequest`, `RecordReceived`, `RunFunnel`,
`CreateRun`, `RecordCompleted`, `RecordEscalation`, and for an escalation `Escalate`,
`FindRequest`, `ListRuns`, `RecordUserEscalation`. FastAPI resolves `get_db` once per
request, so the intake service, the diagnostic service and the audit service share one
session; `session[c]` is what it has flushed, visible to nobody else, and `db` what is
committed. `CreateRequest` and `FindRequest` are the first statements, where the session
takes a connection (`Connect`) or waits for one. `Answer` comes before `Commit`: FastAPI
0.139, which `uv.lock` pins, runs what follows `get_db`'s `yield` once the response is
sent. An exception in the handler is rolled back before its error response (`Fail`);
after the answer only `CommitFails` is left. `RunFunnel` returns any of the funnel's
results: `DiagnosticFunnel` says which there are. `run_diagnostic`'s `get_request` finds
the object in the session's own identity map and is no statement. Only one run is ever
stored for a request, so the `max` over `started_at` picks it. `Crash` ends the calls of
a process and reads the kill switch again; `FlipSwitch` changes the environment.
`Visible` is `AuditService.query` for a reader without a role, and no reader has one:
`get_principal` sets none.

`Schema` is PostgreSQL as far as the migration scripts use it. A schema is a set of
objects: tables, columns, indexes, foreign keys, an extension, a schema. A column's kind
says what an `INSERT` gets that leaves it out, and "vector" is a column of the pgvector
extension; other types and lengths are left out. `Possible` says when PostgreSQL carries
a statement out (nothing exists twice, nothing is dropped that others need), `After` what
it leaves, `Locked` what it locks, `Serves` when a `SELECT` or `INSERT` of the ORM finds
its columns and fills the required ones.

`SchemaHistory` is `alembic/versions`: the upgrade and downgrade of every script, in the
order of the chain, and the columns of `app/models`. `ComplaintPlan` lists the tables of
`POST /intake` in the order of its statements. Revision 0 is a database without a
revision; it may hold the pgvector extension, which the first downgrade leaves behind.

`Migrations` runs any such history. A command is one transaction, as `env.py` opens it:
`StartMigration` reads the revision, `RunStatement` and `ScriptRaises` run the scripts,
`MoveVersion` updates `alembic_version` after each, `VersionMissed` is that update
finding another revision than the command started from, `CommitMigration` ends it. An
API call is `StartCall`, `RunUse` or `UseRaises` for each statement, `CommitCall`.
`Abort` ends a transaction at any point, `BreakDeadlock` ends one of those that wait for
each other. `Seen(m)` is what a command's statements see: the committed schema changed
by its own transaction (`gone`, `made`). Nothing keeps two commands apart but the locks
and the version row. Any two commands exclude each other on a table, and so do a command
and a call; PostgreSQL's modes let some of these pass (two foreign keys to one table),
so commands wait here at least where they do there. A database at revision 0 has no
version row, and Alembic would insert one, which locks nothing another command looks for.
It never comes to that: `BaseAssumption` says that the first script cannot be built
(section 6), so no command reaches the end of it, and `MoveVersion` is the `UPDATE` of an
existing row, or the `DELETE` of it on the way to revision 0.

`MCFunnel`, `MCTokenClient`, `MCService` and `MCMigrations` give the constants their
small values. `DiagnosticFunnelProofs` and `VerdictTruthProofs`, `TokenClientProofs` and
`TokenFreshnessProofs`, `DiagnosticServiceProofs` and `MigrationsProofs` hold theorems.

## 3. The runs

| run | instance | shows |
|---|---|---|
| `funnel_inputs` | 32 login and status combinations, 24 grant lists and an absent user, 4 dashboards, 7 sign-in logs, 8 grant logs, 3 policies; no change during the run | `TypeOK`, `EveryVerdictWasTrue`, `MessageHonest`, `ResetLinkHelps`, `ResetLinkOffered`, and that the funnel implements `Diagnosis` |
| `funnel_race` | two users with two systems each, up to 2 changes and one tick of the clock anywhere in the run, also while an answer is on its way | `EveryVerdictWasTrue`, `ResetLinkHelps`, `RunEnds` under interleaving |
| `token` | 2 tasks of one process, 2 logins, 1 crash, 4 ticks anywhere, TTL 4, fallback 3, margin 2 | `TypeOK`, `SharedFresh`, `NoNeedlessLogin`, `OwnCookiesMatch`, `FreshWhenSent`, `EveryCallerAnswered` |
| `service` | 2 complaints and 2 escalations on two processes with one connection each, 2 users, 3 results, 1 crash, the switch flipped at any time | `TypeOK`, `KillSwitchHolds`, `RefusedLeavesNothing`, `EscalationCarriesRun`, `EveryCallEnds`, and that the service implements `CaseFile` |
| `migrate` | the six scripts, 2 commands and a complaint at a time, from every revision to the first, the last but one and the newest, any of them aborted at any point | `TypeOK`, `SchemaOfRevision`, `TablesStay`, `ScriptsApply`, `NewestServesCode`, `EveryTransactionEnds` |
| `fail_closed`, `no_account` | as `funnel_inputs`, with the code's page sizes | findings of section 6 |
| `restored_cookies`, `token_lifetime` | two processes with a task each, 2 logins, no crash | findings of section 6 |
| `escalation_finds_request`, `own_events_visible` | two complaints and an escalation, without crashes and with a connection for every call | findings of section 6 |
| `migrate_succeeds` | one command, no calls | a finding of section 6 |

Why the bounds are enough. The funnel's verdicts depend on comparisons only: a date is
before, at or after the present, a page overflows or does not, a log has no event, one,
or two that compete. The lists contain each of these for each position a scan can stop
at, including ties, naive dates beside others, and OPENIAM entries without a name. In
`funnel_race` two changes are what it takes to come between two readings and to undo what
was done (revoke and grant again, grant and revoke, reset and lock), and the one tick
crosses the end of a password and of a grant, and takes a revocation out of the audit
window. One user loses access by time alone; the other lacks a role that has ended and
can be granted again, also as a group, before it is removed. Each exception of
`EveryVerdictWasTrue` is reached in this instance: TLC refutes the property without it.
Pages of 2 and 3 events overflow within the bounds; the runs that look for a violation
keep the code's 10 and 50, so that their counterexamples do not rest on a small page.

For the token client two tasks suffice for a queue behind the lock; two logins give an
old and a new session, and the process that restarts after the crash knows only Redis.
With TTL 4 and margin 2 a token that took as long as the margin allows is still used for
two ticks, so that its end falls into the four. Both bounds are tight: for tokens on their
way one tick longer than the margin TLC refutes `FreshWhenSent` and `SharedFresh` in this
instance, and likewise if misread sessions are not excepted. The runs with two
processes, for a foreign write between two commands, are those of the findings; that
`OwnCookiesMatch`, `NoNeedlessLogin` and `SharedFresh` hold with any number of processes
is proved.

For the service, the two complaints compete for the rows and for the connection, and the
escalations show whether one complaint's run can end up in another's escalation. A pool
of one connection makes every call wait for every other; the code's default is 5 and 10
more. One crash per behaviour reaches every point of every call. The three results are
one that escalates by itself, one with a reset link and one with neither.

For the migrations, two commands are enough for one to overtake the other or to wait in
a circle with it, and two commands and a call for every circle of three. The targets
exercise the chain in both directions: what is left at 5 has the agent's tables without
their last column, 0 takes everything back, 6 is the head that `make migrate` asks for.
A command may start from each of the seven revisions.

Deadlock checking is on in every run: a run can always start again, a task can
always call or see an error, the switch can always be flipped, and a command or a call
can always be started.

## 4. Fairness

`WF_vars(Diagnose)`: a call that has been sent is answered. httpx gives each call a
timeout (30 s in the token client's `AsyncClient`), and a timeout is a `raise`. Every call
first asks the token client for a token, which may have to wait for the process's lock
and for Redis under it; Redis has no timeout, and is assumed to answer or to fail.
Nothing is assumed of the directory and nobody has to start a run.

`WF_vars(Continue(t))` for each task: the event loop runs a task whose answer has come,
OpenIAM's calls time out, and Redis is assumed to answer or to fail, as above: the Redis
client is created without a timeout, and it is awaited while holding the lock. That an
answer comes says nothing of when; no property assumes a longest answer.

`WF_vars(Continue(c))` for each HTTP call: OpenIAM, the language model and the database
answer or fail. `PoolTimeout`, `DatabaseError` and `CommitFails` may happen and are not
needed: a waiting call gets its connection because the call that holds it is finite
and holds no other resource, not because the pool's timeout (30 s) saves it. Weak
fairness suffices although other calls may take the connection first, because each
call asks for one once. `Crash`, `FlipSwitch`, `Submit` and `Escalate` have no fairness.

`SF_vars(Progress(x))` for each database transaction: PostgreSQL grants a table's locks in
the order they were asked for, so a transaction that finds its table free again and
again gets it, and its deadlock detector ends one of those that wait for each other
(`deadlock_timeout`, one second by default). Weak fairness would not do, because other
transactions can take the lock each time it becomes free. `StartMigration`, `StartCall`
and `Abort` have no fairness.

## 5. What is proved

The assumptions on the constants (`BoundsAssumption`, `InputsAssumption`,
`ClientAssumption`, `ServiceAssumption`, `HistoryAssumption`, `UseAssumption`,
`BaseAssumption`) are checked by TLC on every run.

`DiagnosticFunnelProofs`, for every set of users, logs, dashboards and policies and
every bound:

- `TypeCorrect`: `Spec => []TypeOK`.
- `MessageHonestCorrect`: message and recorded outcome always agree. `ResultInv` is the
  strengthening: a published result is what `Finalize` makes of the verdicts of a run
  that stopped, each of which has a cause its step can report.
- `EveryVerdictWasTrueCorrect` (in `VerdictTruthProofs`): each verdict that rests on
  answered calls was true at an instant of the run, with two exceptions (below). One
  lemma per call says that what it reads is a fact of the instant it reads at
  (`AccountTruth`, `SystemTruth`, `AuthTruth`, `GrantsTruth`, `RevokedTruth`): the
  connector's functions against `Facts`, with the naive dates, the ties and the pages.
  Between the server's reading and the receipt, and between the calls of a step, an
  invariant carries the facts on. `AnswerInv`: what the clock makes of the user bean on
  its way is in the history. `AnsweredInv`: so is what it makes of the grants, with the
  audit log of this instant. `SearchedInv`: whatever the audit search can find by now
  leads to a verdict that is accounted for. `SystemsInv`: each managed system that has
  answered was seen down or up. `AuthInv`: what the sign-in search's window holds has been
  true. `SearchedInv` survives a revocation because either the user is really without the
  name afterwards, or had it twice (`TwiceLemma`, `RevokeTruth`).
- `ResetLinkOfferedCorrect` (there too): a verdict a link may be offered for has the
  OPENIAM link, unless that login was usable at some instant, or an OPENIAM entry names no
  login, or there is none (`OfferInv`). An expired OPENIAM entry without `login` gets no
  link, as the repository's own test bean shows
  (`tests/connectors/test_openiam_connector.py:148-173`).
- `ResetLinkHelpsCorrect`: a link that is shown resets an OPENIAM login, and an OPENIAM
  password had expired during the run, or by the clock while the answer that said so was
  on its way. The link is computed in step 2 and shown at the end, so `LinkInv` carries
  what was true then, and `WitnessInv` says that the history contains the facts of the
  present while the run lasts.
- `FunnelImplementsDiagnosis`: initial states map to initial states, and every step to a
  step of `Diagnosis` or to a stutter (the directory's steps, and calls that reach no
  verdict yet). `OrderInv` is needed for it: the call the run makes next belongs to the
  step after the last verdict.

What `EveryVerdictWasTrue` excepts is what the code really gets wrong, and no more.

- *An answer that the clock overtakes on its way* (`CameLate`). The server reads the bean,
  the password is reset or the grant extended, the old date passes, and the client compares
  it with its clock: the verdict is `password_expired` or `access_expired`, which was true
  at no instant. Likewise a revocation as old as the audit search looks back leaves the
  window while the grants are on their way, and the verdict is `missing_role`. `hist.late`
  has these facts: those of the answer at the instants of its way, and nothing else.
- *A removal of a name that is held twice* (`TakenOnce`). The grants are read without the
  name, it is granted as a role and as a group, and one of them is removed: the audit
  search finds the removal and the verdict is `access_revoked`, while the user holds the
  name.

`ResetLinkHelps` and `ResetLinkOffered` count with the first of these too (`Seen`).

`TokenClientProofs`, for any number of processes, tasks, sessions and any lifetimes:

- `TypeCorrect`, including that what goes to Redis as an expiry is at least the one second
  below which Redis refuses it.
- `NoNeedlessLoginCorrect`: a task that logs in holds the lock (`LockInv`) and the
  process had no fresh token since it took it (`StaleInv`), because only the holder of
  the lock stores one and the clock does not run backwards.
- `OwnCookiesMatchCorrect`: `LoginInv` follows a login from the emptied jar to the two
  writes and `OwnInv` says that a process with a fresh token of its own has that
  session's cookies and no others.

`TokenFreshnessProofs` is about time. Its three theorems assume `MarginFits`, that the
margin is smaller than a token's lifetime, and nothing of how long answers take. They
speak of tokens that were on their way no longer than the margin and whose lifetime was
given as one (`InTime`), which is what a margin can promise: the code's is 60 s, for as
many answers as a login and a read of Redis take. Beyond it nothing can be claimed, and
of an absolute `exp` neither: the token is then kept and shared for decades.

- `SharedFreshCorrect`, for any number of processes: a token stored in Redis within the
  margin is gone from there when OpenIAM stops accepting it. `Bounded` is the invariant's
  core: a deadline, however it was set, lies at most as far beyond the token's end as the
  token was on its way, less the margin. `IssuedInv` has what a login in progress needs for
  it: a lifetime that was given as one is no longer than OpenIAM gives, whether it came
  in the fragment, by introspection or from the fallback, and the floor of one second
  still leaves the margin (`MarginFits`).
- `OwnFreshWhenSentCorrect`, for any number of processes: a process that logged in by
  itself sends no expired token, whatever the others write to Redis.
- `FreshWhenSentCorrect`, for one process (`SingleProcess`): no request leaves with an
  expired token, from memory or from Redis, over any restarts. A task between its `GET`
  and its `TTL` holds the lock, so nobody overwrites the key (`ReadingOf`), and the delays
  of the writer and of the reader add up. With a second process somebody does overwrite
  it, and the theorem is false (`token_lifetime` in section 6): by the two theorems above
  the fault is confined to that pair of commands.

`DiagnosticServiceProofs`, for any number of calls, processes, connections and crashes:

- `TypeCorrect`: `Spec => []TypeOK`.
- `ServiceImplementsCaseFile`: `Spec => ImplementsCaseFile`. A commit adds one case or
  one escalation of a stored case, and no other step touches `db`. What a session holds
  at a commit is a whole case because `Written` says for each step of an intake which
  rows it has flushed; that the case is new, and that an escalation's case is stored,
  comes from `Traced`: every committed row belongs to a call that is over and was
  answered (`Filed`), with the subject and the run that call worked with.
- `RefusedLeavesNothingCorrect`: the writer of a committed row was answered with a
  diagnosis or an escalation.
- `EscalationCarriesRunCorrect`: `Escalates` follows an escalation from the request it
  found to its answer; a filed request does not change under the steps of other calls
  (`FiledStays`).
- `KillSwitchHoldsCorrect`: inductive by itself with the types.

The inductive invariant `Inv` is the conjunction of the types, `IntakeInv`, `DbInv`,
`EscalationInv` and `AnswerInv`. Its preservation is split into what a step does to its
own call and what it leaves to the others: `Frame`, `OthersKeep` and `RowsKeep` deal with
the second once for all actions.

`MigrationsProofs`, for every history of scripts whose first one cannot be built
(`BaseAssumption`, see section 2), any number of commands and calls, and any plan of a
call's statements. `HistoryAssumption` is what the scripts must do:
each leads from every schema of its revision to a schema of the next, and back. TLC
evaluates it for the six scripts of the repository.

- `TypeCorrect`: `Spec => []TypeOK`, with which goes that a transaction that is over
  holds no lock.
- `SchemaOfRevisionCorrect`: whatever commands overlap, abort or miss the version row,
  the committed schema is one of its revision's. A command does not work on one schema:
  others commit beneath it. `Serial` says why this does no harm. Until a command has
  locked the version row, what it has done is what its script would have done to any
  schema of the revision it read that agrees with the committed one on the tables it has
  locked (`Early`); once it has, the revision is still the one it read, nobody can change
  it any more, and what the command sees is its script's work on a schema of that
  revision (`Late`). A commit of another command leaves the locked tables alone
  (`Exclusive`), so `Early` survives it. The proof fails without the check of the version
  row, and without the exclusion of locks.
- `TablesStayCorrect`: a call holds the locks of what it has used (`UsedLocked`), and a
  commit changes only tables its command holds.

- `ScriptsApplyCorrect`: if every script gets through when it runs alone from a schema of
  its revision (`ScriptsCarried`), then no statement of one fails beside any number of
  other commands, calls, aborts and deadlocks, unless Python cannot build it or another
  command came first.
- `NewestServesCodeCorrect`: if the newest schema serves what the ORM names
  (`CallsKnown`), no statement of a call fails at the newest revision, whatever migration
  is under way.

The hypotheses of the last two are facts about constants, the scripts and the columns
of `app/models`. They hold of the six scripts: the run `migrate` has a command take every
script up and down from every schema of its revision, and a complaint at each revision, so
its `ScriptsApply` and `NewestServesCode` fail as soon as one of them does. What the
theorems add is that concurrency cannot break what holds of the scripts one by one.

Only model-checked: the liveness properties `RunEnds`, `EveryCallerAnswered`,
`EveryCallEnds` and `EveryTransactionEnds`, which are beyond the prover. Every safety
property a passing run checks is proved, `FreshWhenSent` for one process.

## 6. Where the code and what is said of it differ

- `fail_closed`: the documents say any error ends as `INCONCLUSIVE` and escalates. An
  HTTP error of a lookup is evidence instead: a 5xx in step 2 tells a user with an
  account to request access.
- `no_account`: `not_found` is documented as "request access", but an absent account
  fails step 1's own lookup and escalates as a system problem.
- `restored_cookies`: reading the shared token is said to restore that login's cookies.
  Token and cookies are two keys, and a reader between the two writes gets a token
  without its cookies.
- `token_lifetime`: the remaining lifetime is asked for after the token. If another
  process writes in between, the old token is kept for the new one's lifetime and sent
  after its end, although it came within the margin.
- `escalation_finds_request`: escalating is offered as the follow-up to any outcome, but
  the request is committed after the answer that carries its id: a client that escalates
  at once is told 404. For the same reason a client can hold an answer whose commit then
  fails; the database stays consistent (`ImplementsCaseFile`), the answer is lost.
- `own_events_visible`: a self-service reader is said to be restricted to their own
  subject. The query compares the stored user id with the login id of the header, so they
  read nothing.
- `migrate_succeeds`: a new checkout is set up with `uv sync`, `docker compose up -d` and
  `make migrate`. The first script of the chain builds a `Vector` column, whose package
  was removed from the project with the feature, on the ground that the script will not
  run again. On a new database it is the first to run, and raises.

Noted without a run: the docstring of `build_escalation_message`
(`verdict_messages.py:183-184`) lists `locked` among the causes with a reset link, which
the table and the tests leave out on purpose.

## 7. What is not modelled, and why

Text, formatting, logging and metrics; HTTP beyond ok, error and raise; the language
model's answer (nothing in the funnel reads it). What OpenIAM does on its own is external
and modelled only as far as the connector reads it. What it sets as cookies on a response
to an expired session is not known from the code, nor is the shape of its introspection
answer.

Remediation: the executor checks tier, approval and kill switch, but no playbook is
registered and its routes raise `NotImplementedError`, so no call reaches it. The other
stubs (self-diagnosis worker, chat webhooks, other connectors, step 5, vault) have no
behaviour yet.

The policy store, the connector registry and the settings are filled when a process
starts and only read afterwards: anything said of them would hold by construction. The
kill switch is the one setting whose reading at start matters, and it is modelled.

Of the migrations: data (no script moves any; a downgrade loses the rows of what it
drops), the offline mode, which prints SQL and changes no database, and another value of
`AUDIT_DB_SCHEMA` than `audit`, with which the application looks for its audit table
where the script did not make it.

## 8. Plan

1. Done: `Verdicts`, `OpenIAM`, `Diagnosis`, `DiagnosticFunnel` and proofs;
   `TokenClient` and proofs; `CaseRows`, `CaseFile`, `DiagnosticService` and proofs;
   `Schema`, `SchemaHistory`, `Migrations` and proofs.
2. Done: proofs of every safety property the passing runs check.
3. Composition of the funnel with the service (`RunFunnel` as a run of
   `DiagnosticFunnel`'s abstract side) and of the funnel with the token client.
4. When the program implements remediation: kill switch, tier gate, approval, execution
   and status, from `remediation/executor.py`.
