---------------------------- MODULE TokenClient ----------------------------
(***************************************************************************)
(* The admin token of app/connectors/openiam/token_client.py: every        *)
(* process of the application (API workers, the arq worker) keeps one      *)
(* access token and one cookie jar, guards their refresh with an           *)
(* asyncio.Lock, and shares the token and the cookies with the other       *)
(* processes through two Redis keys that are written one after the other.  *)
(*                                                                         *)
(* A task is one authorized_get in progress.  Between two awaits a process *)
(* runs one task only, so an action is what happens from one answer to the *)
(* next request.  A login session is a number: session s has token s and   *)
(* cookies s, and 0 is none.  In a jar, cookies restored from Redis have   *)
(* no domain, so they do not replace those OpenIAM set by Set-Cookie: both *)
(* are sent.                                                               *)
(*                                                                         *)
(* An answer that says how long something lasts is computed in one step    *)
(* and received in a later one.  Answers may take any time: the histories  *)
(* took and rtoken.took say how long they did take, and a property of the  *)
(* margin is about the tokens that took no longer than the margin.         *)
(***************************************************************************)
EXTENDS Integers, Sequences

CONSTANTS
  Processes,   \* processes that share one Redis
  Tasks,       \* concurrent requests
  Home,        \* the process each task runs in
  TokenTTL,    \* lifetime OpenIAM gives a token
  FallbackTTL, \* _FALLBACK_TOKEN_TTL_SECONDS
  Margin,      \* OPENIAM_TOKEN_REFRESH_MARGIN_SECONDS
  Epoch,       \* the wall clock when now is 0, as `exp` counts
  MaxLogins,   \* bound on the login sessions of a behaviour
  MaxCrashes,  \* bound on process crashes
  MaxTime      \* bound on the clock

\* The fallback is "deliberately short": no longer than what OpenIAM gives.
ASSUME ClientAssumption ==
  /\ Home \in [Tasks -> Processes]
  /\ {TokenTTL, FallbackTTL, Margin, Epoch, MaxLogins, MaxCrashes, MaxTime}
       \subseteq Nat
  /\ FallbackTTL <= TokenTTL

VARIABLES
  now,       \* one clock for all: time.monotonic(), Redis and OpenIAM
  logins,    \* login sessions OpenIAM has opened
  expiry,    \* when OpenIAM stops accepting each session's token
  misread,   \* history: the sessions whose `exp` was an absolute time
  rtoken,    \* Redis openiam:access_token, [val, until], history: [took]
  rcookies,  \* Redis openiam:session_cookies, [val, until]
  token,     \* _access_token of each process
  expires,   \* _expires_at of each process
  jar,       \* cookies of each process's client, [login, restored]
  own,       \* history: did the process itself log in for its token?
  took,      \* history: how long its token was on its way to the process
  lock,      \* the tasks at _lock in arrival order; the first one holds it
  pc,        \* where each task is
  mem,       \* a task's local variables: the token, the ttl, the cookies;
             \* history: since when what it read in Redis is on its way
  crashes    \* crashes so far

openiam   == <<logins, expiry, misread>>
redis     == <<rtoken, rcookies>>
processes == <<token, expires, jar, own, took>>
tasks     == <<lock, pc, mem>>
vars      == <<now, openiam, redis, processes, tasks, crashes>>

NoMem == [token |-> 0, ttl |-> 0, cookies |-> 0, since |-> 0]

EmptyJar == [login |-> 0, restored |-> 0]

\* The sessions whose cookies a request of process p carries.
Carried(p) == {jar[p].login, jar[p].restored} \ {0}

\* Waiting for an answer of Redis or OpenIAM while holding the lock.
Awaiting ==
  {"get", "ttl", "cookies", "restore", "post", "authorize", "redirect",
   "introspect", "told", "setToken", "setCookies"}

Live(entry) == now < entry.until

\* `self._access_token is not None and time.monotonic() < self._expires_at`
Fresh(p) == token[p] # 0 /\ now < expires[p]

HoldsLock(t) == lock[Home[t]] # <<>> /\ Head(lock[Home[t]]) = t

Release(t) == lock' = [lock EXCEPT ![Home[t]] = Tail(@)]

Goto(t, label) == pc' = [pc EXCEPT ![t] = label]

\* When OpenIAM issued the token of a session.
Issued(s) == expiry[s] - TokenTTL

\* What a step of a task leaves to the environment.
Acted == UNCHANGED <<now, crashes>>

\* max(ttl - margin, 1)
MutantEffectiveTTL(ttl) == ttl
MutantUnflooredTTL(ttl) == ttl - Margin

EffectiveTTL(ttl) == IF ttl >= Margin + 1 THEN ttl - Margin ELSE 1

-----------------------------------------------------------------------------
(* get_access_token *)

\* The unlocked check: a fresh token is sent with the jar as it is.
Call(t) ==
  /\ pc[t] = "idle"
  /\ \/ /\ Fresh(Home[t])
        /\ Goto(t, "sent")
        /\ UNCHANGED lock
     \/ /\ ~Fresh(Home[t])
        /\ Goto(t, "waiting")
        /\ lock' = [lock EXCEPT ![Home[t]] = Append(@, t)]
  /\ UNCHANGED <<openiam, redis, processes, mem>> /\ Acted

MutantNeedsToken(t) == TRUE

\* The check is repeated under the lock.
NeedsToken(t) == ~Fresh(Home[t])

Enter(t) ==
  /\ pc[t] = "waiting" /\ HoldsLock(t)
  /\ \/ ~NeedsToken(t) /\ Goto(t, "sent") /\ Release(t)
     \/ NeedsToken(t) /\ Goto(t, "get") /\ UNCHANGED lock
  /\ UNCHANGED <<openiam, redis, processes, mem>> /\ Acted

MutantStartLogin(t) ==
  Goto(t, "post") /\ UNCHANGED <<processes, lock, mem>>

\* _login_and_authorize starts with an empty jar, before its first await.
StartLogin(t) ==
  /\ jar' = [jar EXCEPT ![Home[t]] = EmptyJar]
  /\ Goto(t, "post")
  /\ UNCHANGED <<token, expires, own, took, lock, mem>>

\* _read_cached_token: the token ...
RedisGet(t) ==
  /\ pc[t] = "get"
  /\ \/ /\ Live(rtoken)
        /\ mem' = [mem EXCEPT ![t].token = rtoken.val]
        /\ Goto(t, "ttl")
        /\ UNCHANGED <<processes, lock>>
     \/ ~Live(rtoken) /\ StartLogin(t)
  /\ UNCHANGED <<openiam, redis>> /\ Acted

\* ... its remaining lifetime, of whatever the key holds by now ...
RedisTtl(t) ==
  /\ pc[t] = "ttl"
  /\ \/ /\ Live(rtoken)
        /\ mem' = [mem EXCEPT ![t] = [@ EXCEPT !.ttl = rtoken.until - now,
                                              !.since = now - rtoken.took]]
        /\ Goto(t, "cookies")
        /\ UNCHANGED <<processes, lock>>
     \/ ~Live(rtoken) /\ StartLogin(t)
  /\ UNCHANGED <<openiam, redis>> /\ Acted

\* ... the cookies, ...
RedisCookies(t) ==
  /\ pc[t] = "cookies"
  /\ mem' = [mem EXCEPT ![t].cookies = IF Live(rcookies) THEN rcookies.val ELSE 0]
  /\ Goto(t, "restore")
  /\ UNCHANGED <<openiam, redis, processes, lock>> /\ Acted

\* ... which stay what they are if the key is gone.  Only now does the lifetime
\* Redis gave begin to count.
Restore(t) ==
  LET p == Home[t] IN
  /\ pc[t] = "restore"
  /\ jar' = [jar EXCEPT ![p].restored =
                IF mem[t].cookies # 0 THEN mem[t].cookies ELSE @]
  /\ token' = [token EXCEPT ![p] = mem[t].token]
  /\ expires' = [expires EXCEPT ![p] = now + mem[t].ttl]
  /\ own' = [own EXCEPT ![p] = FALSE]
  /\ took' = [took EXCEPT ![p] = now - mem[t].since]
  /\ mem' = [mem EXCEPT ![t] = NoMem]
  /\ Goto(t, "sent") /\ Release(t)
  /\ UNCHANGED <<openiam, redis>> /\ Acted

\* _fetch_auth_token: OpenIAM opens a session and sets its cookies.
LoginPost(t) ==
  /\ pc[t] = "post" /\ logins < MaxLogins
  /\ logins' = logins + 1
  /\ jar' = [jar EXCEPT ![Home[t]].login = logins']
  /\ mem' = [mem EXCEPT ![t] = [NoMem EXCEPT !.token = logins']]
  /\ Goto(t, "authorize")
  /\ UNCHANGED <<expiry, misread, redis, token, expires, own, took, lock>> /\ Acted

\* _authorize: OpenIAM issues the token now, the redirect arrives later.
Authorize(t) ==
  /\ pc[t] = "authorize"
  /\ expiry' = [expiry EXCEPT ![mem[t].token] = now + TokenTTL]
  /\ Goto(t, "redirect")
  /\ UNCHANGED <<logins, misread, redis, processes, lock, mem>> /\ Acted

\* The local token, its deadline and the cookies to share.
Accept(t, ttl) ==
  LET p == Home[t] IN
  /\ token' = [token EXCEPT ![p] = mem[t].token]
  /\ expires' = [expires EXCEPT ![p] = now + EffectiveTTL(ttl)]
  /\ own' = [own EXCEPT ![p] = TRUE]
  /\ took' = [took EXCEPT ![p] = now - Issued(mem[t].token)]
  /\ mem' = [mem EXCEPT ![t] = [@ EXCEPT !.ttl = EffectiveTTL(ttl),
                                        !.cookies = jar[p].login]]
  /\ Goto(t, "setToken")

\* The fragment carries expires_in or it does not.
Redirect(t) ==
  /\ pc[t] = "redirect"
  /\ \/ Accept(t, TokenTTL)
     \/ Goto(t, "introspect") /\ UNCHANGED <<token, expires, own, took, mem>>
  /\ UNCHANGED <<openiam, redis, jar, lock>> /\ Acted

\* _introspect_expiry, at OpenIAM: what is left of the token, or under `exp` the
\* time at which it ends, or nothing that helps.  The code takes each for what
\* is left.
Introspect(t) ==
  LET ends == expiry[mem[t].token]
      says(ttl) == mem' = [mem EXCEPT ![t].ttl = ttl] IN
  /\ pc[t] = "introspect"
  /\ \/ says(IF now < ends THEN ends - now ELSE 0) /\ UNCHANGED misread
     \/ says(Epoch + ends) /\ misread' = misread \cup {mem[t].token}
     \/ says(FallbackTTL) /\ UNCHANGED misread
  /\ Goto(t, "told")
  /\ UNCHANGED <<logins, expiry, redis, processes, lock>> /\ Acted

\* The answer arrives, and what it said begins to count.
Told(t) ==
  /\ pc[t] = "told"
  /\ Accept(t, mem[t].ttl)
  /\ UNCHANGED <<openiam, redis, jar, lock>> /\ Acted

SetToken(t) ==
  /\ pc[t] = "setToken"
  /\ rtoken' = [val |-> mem[t].token, until |-> now + mem[t].ttl,
                took |-> now - Issued(mem[t].token)]
  /\ Goto(t, "setCookies")
  /\ UNCHANGED <<openiam, rcookies, processes, lock, mem>> /\ Acted

SetCookies(t) ==
  /\ pc[t] = "setCookies"
  /\ rcookies' = [val |-> mem[t].cookies, until |-> now + mem[t].ttl]
  /\ took' = [took EXCEPT ![Home[t]] = now - Issued(mem[t].token)]
  /\ mem' = [mem EXCEPT ![t] = NoMem]
  /\ Goto(t, "sent") /\ Release(t)
  /\ UNCHANGED <<openiam, rtoken, token, expires, jar, own>> /\ Acted

MutantRaise(t) ==
  /\ pc[t] \in Awaiting
  /\ mem' = [mem EXCEPT ![t] = NoMem]
  /\ Goto(t, "idle")
  /\ UNCHANGED <<openiam, redis, processes, lock>> /\ Acted

\* Any answer may be an error instead: the lock is released, what the
\* process already stored stays stored, and the caller sees the exception.
Raise(t) ==
  /\ pc[t] \in Awaiting
  /\ mem' = [mem EXCEPT ![t] = NoMem]
  /\ Goto(t, "idle") /\ Release(t)
  /\ UNCHANGED <<openiam, redis, processes>> /\ Acted

\* The response to the authorized request.
Respond(t) ==
  /\ pc[t] = "sent"
  /\ Goto(t, "idle")
  /\ UNCHANGED <<openiam, redis, processes, lock, mem>> /\ Acted

-----------------------------------------------------------------------------
(* The environment *)

\* A process dies and starts again with nothing but Redis to remember it.
Crash(p) ==
  LET mine == {t \in Tasks : Home[t] = p} IN
  /\ crashes < MaxCrashes
  /\ crashes' = crashes + 1
  /\ token' = [token EXCEPT ![p] = 0] /\ expires' = [expires EXCEPT ![p] = 0]
  /\ jar' = [jar EXCEPT ![p] = EmptyJar] /\ own' = [own EXCEPT ![p] = FALSE]
  /\ took' = [took EXCEPT ![p] = 0]
  /\ lock' = [lock EXCEPT ![p] = <<>>]
  /\ pc' = [t \in Tasks |-> IF t \in mine THEN "idle" ELSE pc[t]]
  /\ mem' = [t \in Tasks |-> IF t \in mine THEN NoMem ELSE mem[t]]
  /\ UNCHANGED <<now, openiam, redis>>

\* Time passes whoever waits: httpx gives up after 30 s, Redis never does.
Tick ==
  /\ now < MaxTime
  /\ now' = now + 1
  /\ UNCHANGED <<openiam, redis, processes, tasks, crashes>>

\* What a task does on its own once it has called.
Continue(t) ==
  \/ Enter(t)
  \/ RedisGet(t) \/ RedisTtl(t) \/ RedisCookies(t) \/ Restore(t)
  \/ LoginPost(t) \/ Authorize(t) \/ Redirect(t) \/ Introspect(t) \/ Told(t)
  \/ SetToken(t) \/ SetCookies(t)
  \/ Raise(t) \/ Respond(t)

Init ==
  /\ now = 0 /\ logins = 0 /\ crashes = 0
  /\ expiry = [s \in 1..MaxLogins |-> 0] /\ misread = {}
  /\ rtoken = [val |-> 0, until |-> 0, took |-> 0]
  /\ rcookies = [val |-> 0, until |-> 0]
  /\ token = [p \in Processes |-> 0] /\ expires = [p \in Processes |-> 0]
  /\ jar = [p \in Processes |-> EmptyJar] /\ own = [p \in Processes |-> FALSE]
  /\ took = [p \in Processes |-> 0]
  /\ lock = [p \in Processes |-> <<>>]
  /\ pc = [t \in Tasks |-> "idle"] /\ mem = [t \in Tasks |-> NoMem]

Next ==
  \/ \E t \in Tasks : Call(t) \/ Continue(t)
  \/ \E p \in Processes : Crash(p)
  \/ Tick

\* The event loop runs every task whose answer has come, and every request
\* is answered or times out.
Fairness == \A t \in Tasks : WF_vars(Continue(t))

Spec == Init /\ [][Next]_vars /\ Fairness

-----------------------------------------------------------------------------
(* Properties *)

Session == 0..MaxLogins
Cookies == [val : Session, until : Nat]
Entry   == [val : Session, until : Nat, took : Int]
Jar     == [login : Session, restored : Session]
Mem     == [token : Session, ttl : Nat, cookies : Session, since : Int]

\* Type correctness; an expiry that goes to Redis is at least the one second
\* below which Redis refuses it.
TypeOK ==
  /\ now \in Nat /\ logins \in Session /\ crashes \in Nat
  /\ expiry \in [1..MaxLogins -> Nat] /\ misread \subseteq 1..MaxLogins
  /\ rtoken \in Entry /\ rcookies \in Cookies
  /\ token \in [Processes -> Session] /\ expires \in [Processes -> Nat]
  /\ jar \in [Processes -> Jar] /\ own \in [Processes -> BOOLEAN]
  /\ took \in [Processes -> Int]
  /\ lock \in [Processes -> Seq(Tasks)]
  /\ pc \in [Tasks -> Awaiting \cup {"idle", "waiting", "sent"}]
  /\ mem \in [Tasks -> Mem]
  /\ \A t \in Tasks : pc[t] \in {"setToken", "setCookies"} => mem[t].ttl >= 1

\* The instant a task's request leaves with the token and the jar of its
\* process: no await separates get_access_token's return from the request.
Sends(t) == pc[t] # "sent" /\ pc'[t] = "sent"

\* No process logs in while it holds a token it considers fresh: waiting for
\* the lock and finding another task's token must not cost a second session.
NoNeedlessLogin ==
  [][\A t \in Tasks : pc[t] # "post" /\ pc'[t] = "post" => ~Fresh(Home[t])]_vars

\* The token a process sends came to it within the margin, and its lifetime was
\* given as one.
InTime(p) == took[p] <= Margin /\ token[p] \notin misread

\* No such request leaves with a token OpenIAM has stopped accepting, however
\* long ago it was issued, shared, or read from Redis.
FreshWhenSent ==
  [][\A t \in Tasks : Sends(t) /\ InTime(Home[t])' =>
       token'[Home[t]] # 0 /\ now < expiry'[token'[Home[t]]]]_vars

\* The same for the token of a process's own login, which other processes must
\* not be able to spoil through Redis.
OwnFreshWhenSent ==
  [][\A t \in Tasks : Sends(t) /\ own'[Home[t]] /\ InTime(Home[t])' =>
       token'[Home[t]] # 0 /\ now < expiry'[token'[Home[t]]]]_vars

\* Whoever finds a token in Redis that was stored within the margin finds one
\* OpenIAM still accepts; only an `exp` read as a lifetime can spoil it.
SharedFresh ==
  Live(rtoken) /\ rtoken.took <= Margin /\ rtoken.val \notin misread =>
    rtoken.val # 0 /\ now < expiry[rtoken.val]

\* A process that logged in by itself sends that session's cookies and no
\* others with its token, although its jar was emptied and refilled by one
\* task while the others ran, logins failed half-way and processes restarted.
OwnCookiesMatch ==
  [][\A t \in Tasks : Sends(t) /\ own'[Home[t]] =>
       Carried(Home[t])' = {token'[Home[t]]}]_vars

\* A task that waits for a token gets its turn: it sends or sees an error.
EveryCallerAnswered ==
  \A t \in Tasks : pc[t] = "waiting" ~> pc[t] # "waiting"

\* token_client.py:103-105: with a token that another process cached, reading
\* the cache "also restores that login's session cookies onto this client".
RestoredCookiesMatch ==
  [][\A t \in Tasks : Sends(t) => Carried(Home[t])' = {token'[Home[t]]}]_vars
=============================================================================
