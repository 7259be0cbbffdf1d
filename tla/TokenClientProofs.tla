------------------------- MODULE TokenClientProofs -------------------------
(***************************************************************************)
(* Proofs about TokenClient, for any number of processes and tasks.        *)
(***************************************************************************)
EXTENDS TokenClient, TLAPS

\* The process looks for a token, in Redis or by logging in.
Refreshing ==
  {"get", "ttl", "cookies", "restore", "post", "authorize", "redirect",
   "introspect", "told"}

LoggingIn  == {"post", "authorize", "redirect", "introspect", "told"}
InSession  == {"authorize", "redirect", "introspect", "told"}
Storing    == {"setToken", "setCookies"}

\* Whoever awaits an answer inside get_access_token is first at the lock.
LockInv == \A t \in Tasks : pc[t] \in Awaiting => HoldsLock(t)

\* A process refreshes only while it has no fresh token: then no other of its
\* tasks can send, and the jar may be changed.
StaleInv == \A t \in Tasks : pc[t] \in Refreshing => ~Fresh(Home[t])

Matches(p) ==
  token[p] # 0 /\ jar[p].login = token[p] /\ jar[p].restored = 0

\* After the login the jar holds the cookies of the session being authorized,
SessionOf(t) ==
  pc[t] \in InSession => mem[t].token # 0 /\ jar[Home[t]].login = mem[t].token

\* nothing restored joins them,
CleanOf(t) == pc[t] \in LoggingIn => jar[Home[t]].restored = 0

\* and so they stay until the login is stored in Redis.
StoringOf(t) ==
  pc[t] \in Storing =>
    own[Home[t]] /\ Matches(Home[t]) /\ mem[t].token = token[Home[t]]

LoginOf(t) == SessionOf(t) /\ CleanOf(t) /\ StoringOf(t)

LoginInv == \A t \in Tasks : LoginOf(t)

\* A process that logged in for its token has that session's cookies as long
\* as the token is fresh.
OwnInv == \A p \in Processes : own[p] /\ Fresh(p) => Matches(p)

Inv == TypeOK /\ LockInv /\ StaleInv /\ LoginInv /\ OwnInv

-----------------------------------------------------------------------------
\* At most one task of a process awaits an answer: asyncio.Lock at work.
LEMMA OneRefreshPerProcess ==
  ASSUME LockInv, NEW t \in Tasks, NEW u \in Tasks, Home[t] = Home[u],
         pc[t] \in Awaiting, pc[u] \in Awaiting
  PROVE  t = u
BY DEF LockInv, HoldsLock

LEMMA TTLType ==
  ASSUME NEW ttl \in Nat
  PROVE  EffectiveTTL(ttl) \in Nat /\ EffectiveTTL(ttl) >= 1
BY ClientAssumption DEF EffectiveTTL

LEMMA SessionType == 0 \in Session /\ Session \subseteq Nat
BY ClientAssumption DEF Session

\* What is read from and written to the variables that hold records.
LEMMA EmptyTypes == EmptyJar \in Jar /\ NoMem \in Mem
BY SessionType DEF Jar, Mem, EmptyJar, NoMem

LEMMA JarTypes ==
  ASSUME NEW j \in Jar, NEW s \in Session
  PROVE  /\ j.login \in Session
         /\ [j EXCEPT !.login = s] \in Jar /\ [j EXCEPT !.restored = s] \in Jar
BY DEF Jar

LEMMA MemFields ==
  ASSUME NEW m \in Mem
  PROVE  /\ m.token \in Session /\ m.ttl \in Nat /\ m.cookies \in Session
         /\ m.since \in Int
BY DEF Mem

LEMMA MemTypes ==
  ASSUME NEW m \in Mem, NEW s \in Session, NEW n \in Nat, NEW i \in Int
  PROVE  /\ [m EXCEPT !.token = s] \in Mem /\ [m EXCEPT !.ttl = n] \in Mem
         /\ [m EXCEPT !.cookies = s] \in Mem
         /\ [m EXCEPT !.ttl = n, !.cookies = s] \in Mem
         /\ [m EXCEPT !.ttl = n, !.since = i] \in Mem
BY DEF Mem

LEMMA EntryFields ==
  ASSUME NEW e \in Entry
  PROVE  e.val \in Session /\ e.until \in Nat /\ e.took \in Int
BY DEF Entry

LEMMA EntryTypes ==
  ASSUME NEW s \in Session, NEW n \in Nat, NEW i \in Int
  PROVE  /\ [val |-> s, until |-> n, took |-> i] \in Entry
         /\ [val |-> s, until |-> n] \in Cookies
BY DEF Entry, Cookies

\* In a login and in its writes a task holds a session.
LEMMA InSessionToken ==
  ASSUME TypeOK, LoginInv, NEW t \in Tasks, pc[t] \in InSession \cup Storing
  PROVE  /\ mem[t].token \in 1..MaxLogins /\ expiry[mem[t].token] \in Nat
         /\ Issued(mem[t].token) \in Int
<1>1. mem[t].token # 0
  BY DEF LoginInv, LoginOf, SessionOf, StoringOf, Matches
<1>2. mem[t].token \in 1..MaxLogins
  BY <1>1, MemFields, ClientAssumption DEF TypeOK, Session
<1> QED
  BY <1>2, ClientAssumption DEF TypeOK, Issued

\* The ways the lock queue of a process changes.
LEMMA Queueing ==
  ASSUME TypeOK, NEW t \in Tasks, lock' = [lock EXCEPT ![Home[t]] = Append(@, t)]
  PROVE  lock' \in [Processes -> Seq(Tasks)]
<1>1. Home[t] \in Processes
  BY ClientAssumption
<1>2. Append(lock[Home[t]], t) \in Seq(Tasks)
  BY <1>1 DEF TypeOK
<1> QED
  BY <1>1, <1>2 DEF TypeOK

LEMMA Releasing ==
  ASSUME TypeOK, NEW t \in Tasks, HoldsLock(t), Release(t)
  PROVE  lock' \in [Processes -> Seq(Tasks)]
<1>1. Home[t] \in Processes
  BY ClientAssumption
<1>2. Tail(lock[Home[t]]) \in Seq(Tasks)
  BY <1>1 DEF TypeOK, HoldsLock
<1> QED
  BY <1>1, <1>2 DEF TypeOK, Release

LEMMA InitInv == Init => Inv
<1> SUFFICES ASSUME Init PROVE Inv
  OBVIOUS
<1>1. /\ [val |-> 0, until |-> 0, took |-> 0] \in Entry
      /\ [val |-> 0, until |-> 0] \in Cookies
  BY SessionType, EntryTypes
<1>2. TypeOK
  BY ClientAssumption, SessionType, EmptyTypes, <1>1 DEF Init, TypeOK
<1> QED
  BY <1>2 DEF Init, Inv, LockInv, StaleInv, LoginInv, LoginOf, SessionOf,
     CleanOf, StoringOf, OwnInv, Awaiting, Refreshing, LoggingIn, InSession, Storing

-----------------------------------------------------------------------------
(* Type correctness *)

LEMMA TypeStep ==
  ASSUME TypeOK, LockInv, LoginInv, [Next]_vars
  PROVE  TypeOK'
<1>20. ASSUME NEW t \in Tasks, pc[t] \in InSession \cup Storing
       PROVE  /\ mem[t].token \in 1..MaxLogins /\ expiry[mem[t].token] \in Nat
              /\ now - Issued(mem[t].token) \in Int
  BY <1>20, InSessionToken DEF TypeOK
<1> USE ClientAssumption DEF TypeOK
<1>0. Home \in [Tasks -> Processes] /\ TokenTTL \in Nat /\ FallbackTTL \in Nat
  OBVIOUS
<1>1. ASSUME NEW t \in Tasks, Call(t) PROVE TypeOK'
  BY <1>1, Queueing DEF Call, Goto, Acted, openiam, redis, processes, Awaiting
<1>2. ASSUME NEW t \in Tasks, Enter(t) PROVE TypeOK'
  BY <1>2, Releasing DEF Enter, Goto, Acted, openiam, redis, processes, Awaiting
<1>3. ASSUME NEW t \in Tasks, RedisGet(t) PROVE TypeOK'
  <2>1. [mem[t] EXCEPT !.token = rtoken.val] \in Mem
    BY MemTypes, EntryFields
  <2>2. mem' \in [Tasks -> Mem]
    BY <1>3, <2>1 DEF RedisGet, StartLogin
  <2>3. jar' \in [Processes -> Jar]
    BY <1>3, <1>0, EmptyTypes DEF RedisGet, StartLogin, processes
  <2> QED
    BY <1>3, <2>2, <2>3 DEF RedisGet, StartLogin, Goto, Acted, openiam, redis,
       processes, Awaiting
<1>4. ASSUME NEW t \in Tasks, RedisTtl(t) PROVE TypeOK'
  <2> DEFINE m == [mem[t] EXCEPT !.ttl = rtoken.until - now,
                                 !.since = now - rtoken.took]
  <2>1. Live(rtoken) => m \in Mem
    <3>1. Live(rtoken) => rtoken.until - now \in Nat
      BY EntryFields DEF Live
    <3>2. now - rtoken.took \in Int
      BY EntryFields
    <3> QED
      BY <3>1, <3>2, MemTypes, SessionType
  <2>2. \/ mem' = mem
        \/ Live(rtoken) /\ mem' = [mem EXCEPT ![t] = m]
    BY <1>4 DEF RedisTtl, StartLogin
  <2> HIDE DEF m
  <2>3. mem' \in [Tasks -> Mem]
    BY <2>1, <2>2
  <2>4. jar' \in [Processes -> Jar]
    BY <1>4, <1>0, EmptyTypes DEF RedisTtl, StartLogin, processes
  <2>5. pc'[t] \in {"cookies", "post"} /\ \A u \in Tasks : u # t =>
          pc'[u] = pc[u] /\ mem'[u] = mem[u]
    BY <1>4, <2>2 DEF RedisTtl, StartLogin, Goto
  <2> QED
    BY <1>4, <2>3, <2>4, <2>5 DEF RedisTtl, StartLogin, Goto, Acted, openiam,
       redis, processes, Awaiting
<1>5. ASSUME NEW t \in Tasks, RedisCookies(t) PROVE TypeOK'
  <2> DEFINE s == IF Live(rcookies) THEN rcookies.val ELSE 0
  <2>1. s \in Session
    BY SessionType DEF Cookies
  <2>2. mem' = [mem EXCEPT ![t].cookies = s]
    BY <1>5 DEF RedisCookies
  <2> HIDE DEF s
  <2>3. [mem[t] EXCEPT !.cookies = s] \in Mem
    BY <2>1, MemTypes, SessionType
  <2>4. mem' \in [Tasks -> Mem]
    BY <2>2, <2>3
  <2> QED
    BY <1>5, <2>2, <2>4 DEF RedisCookies, Goto, Acted, openiam, redis,
       processes, Awaiting
<1>18. ASSUME NEW t \in Tasks, Restore(t) PROVE TypeOK'
  <2>1. /\ mem[t].token \in Session /\ now + mem[t].ttl \in Nat
        /\ now - mem[t].since \in Int
    BY MemFields
  <2>2. mem' \in [Tasks -> Mem] /\ jar' \in [Processes -> Jar]
    <3>1. jar[Home[t]] \in Jar /\ jar[Home[t]].restored \in Session
      BY <1>0 DEF Jar
    <3> DEFINE s == IF mem[t].cookies # 0 THEN mem[t].cookies
                    ELSE jar[Home[t]].restored
    <3>2. s \in Session
      BY <3>1, MemFields
    <3>3. [jar[Home[t]] EXCEPT !.restored = s] \in Jar
      BY <3>1, <3>2, JarTypes
    <3>4. jar' = [jar EXCEPT ![Home[t]].restored = s]
      BY <1>18 DEF Restore
    <3> HIDE DEF s
    <3>5. jar' \in [Processes -> Jar]
      BY <1>0, <3>3, <3>4
    <3> QED
      BY <1>18, <3>5, EmptyTypes DEF Restore
  <2>3. lock' \in [Processes -> Seq(Tasks)]
    BY <1>18, Releasing DEF Restore, LockInv, Awaiting
  <2>4. /\ token' \in [Processes -> Session] /\ expires' \in [Processes -> Nat]
        /\ own' \in [Processes -> BOOLEAN] /\ took' \in [Processes -> Int]
    BY <1>18, <2>1, <1>0 DEF Restore
  <2> QED
    BY <1>18, <2>2, <2>3, <2>4 DEF Restore, Goto, Acted, openiam, redis,
       Awaiting
<1>6. ASSUME NEW t \in Tasks, LoginPost(t) PROVE TypeOK'
  <2>1. logins' \in Session
    BY <1>6 DEF LoginPost, Session
  <2>2. /\ [NoMem EXCEPT !.token = logins'] \in Mem
        /\ [jar[Home[t]] EXCEPT !.login = logins'] \in Jar
    BY <2>1, <1>0, EmptyTypes, MemTypes, JarTypes
  <2>3. mem' \in [Tasks -> Mem] /\ jar' \in [Processes -> Jar]
    BY <1>6, <2>2, <1>0 DEF LoginPost
  <2> QED
    BY <1>6, <2>1, <2>3 DEF LoginPost, Goto, Acted, redis, Awaiting
<1>7. ASSUME NEW t \in Tasks, Authorize(t) PROVE TypeOK'
  <2>1. expiry' \in [1..MaxLogins -> Nat]
    <3>1. now + TokenTTL \in Nat
      BY <1>0
    <3> QED
      BY <1>7, <3>1 DEF Authorize
  <2> QED
    BY <1>7, <2>1 DEF Authorize, Goto, Acted, redis, processes, Awaiting
<1>8. ASSUME NEW t \in Tasks, NEW ttl \in Nat, Accept(t, ttl), Acted,
             pc[t] \in InSession, UNCHANGED <<openiam, redis, jar, lock>>
      PROVE  TypeOK'
  <2>1. EffectiveTTL(ttl) \in Nat /\ EffectiveTTL(ttl) >= 1
    BY TTLType
  <2>2. mem[t].token \in Session /\ jar[Home[t]].login \in Session
    BY <1>0, MemFields, JarTypes, SessionType
  <2> DEFINE m == [mem[t] EXCEPT !.ttl = EffectiveTTL(ttl),
                                 !.cookies = jar[Home[t]].login]
  <2>3. m \in Mem /\ m.ttl = EffectiveTTL(ttl)
    <3>1. m \in Mem
      BY <2>1, <2>2, MemTypes
    <3>2. mem[t] \in Mem
      OBVIOUS
    <3>3. m.ttl = EffectiveTTL(ttl)
      BY <3>2 DEF Mem
    <3> QED
      BY <3>1, <3>3
  <2>4. mem' = [mem EXCEPT ![t] = m]
    BY <1>8 DEF Accept
  <2> HIDE DEF m
  <2>5. mem' \in [Tasks -> Mem] /\ mem'[t].ttl >= 1
    BY <2>1, <2>3, <2>4
  <2>6. now - Issued(mem[t].token) \in Int /\ now + EffectiveTTL(ttl) \in Nat
    BY <1>8, <2>1, <1>20
  <2>7. /\ token' \in [Processes -> Session] /\ expires' \in [Processes -> Nat]
        /\ own' \in [Processes -> BOOLEAN] /\ took' \in [Processes -> Int]
    BY <1>8, <2>2, <2>6, <1>0 DEF Accept
  <2>8. \A u \in Tasks : u # t => pc'[u] = pc[u] /\ mem'[u] = mem[u]
    BY <1>8, <2>4 DEF Accept, Goto
  <2>9. pc' \in [Tasks -> Awaiting \cup {"idle", "waiting", "sent"}]
    BY <1>8 DEF Accept, Goto, Awaiting
  <2> QED
    BY <1>8, <2>5, <2>7, <2>8, <2>9 DEF Acted, openiam, redis
<1>9. ASSUME NEW t \in Tasks, Redirect(t) PROVE TypeOK'
  <2>1. CASE Accept(t, TokenTTL)
    BY <1>9, <1>8, <2>1 DEF Redirect, InSession
  <2>2. CASE Goto(t, "introspect") /\ UNCHANGED <<token, expires, own, took, mem>>
    BY <1>9, <2>2 DEF Redirect, Goto, Acted, openiam, redis, Awaiting
  <2> QED
    BY <1>9, <2>1, <2>2 DEF Redirect
<1>10. ASSUME NEW t \in Tasks, Introspect(t) PROVE TypeOK'
  <2> DEFINE ends == expiry[mem[t].token]
  <2>1. mem[t].token \in 1..MaxLogins /\ ends \in Nat
    BY <1>10, <1>20 DEF Introspect, InSession
  <2>2. PICK ttl \in Nat : mem' = [mem EXCEPT ![t].ttl = ttl]
    <3>1. /\ (IF now < ends THEN ends - now ELSE 0) \in Nat
          /\ Epoch + ends \in Nat
      BY <2>1
    <3> HIDE DEF ends
    <3> QED
      BY <1>10, <1>0, <3>1 DEF Introspect, ends
  <2>3. [mem[t] EXCEPT !.ttl = ttl] \in Mem
    BY MemTypes, SessionType
  <2>4. mem' \in [Tasks -> Mem]
    BY <2>2, <2>3
  <2>5. misread' \subseteq 1..MaxLogins
    BY <1>10, <2>1 DEF Introspect
  <2> QED
    BY <1>10, <2>2, <2>4, <2>5 DEF Introspect, Goto, Acted, openiam, redis,
       processes, Awaiting
<1>19. ASSUME NEW t \in Tasks, Told(t) PROVE TypeOK'
  BY <1>19, <1>8, MemFields DEF Told, InSession
<1>11. ASSUME NEW t \in Tasks, SetToken(t) PROVE TypeOK'
  <2>1. rtoken' \in Entry
    <3>1. /\ mem[t].token \in Session /\ now + mem[t].ttl \in Nat
          /\ now - Issued(mem[t].token) \in Int
      BY <1>11, MemFields, <1>20 DEF SetToken, Storing
    <3> QED
      BY <1>11, <3>1, EntryTypes DEF SetToken
  <2> QED
    BY <1>11, <2>1 DEF SetToken, Goto, Acted, openiam, processes, Awaiting
<1>12. ASSUME NEW t \in Tasks, SetCookies(t) PROVE TypeOK'
  <2>1. /\ mem[t].cookies \in Session /\ now + mem[t].ttl \in Nat
        /\ now - Issued(mem[t].token) \in Int
    BY <1>12, MemFields, <1>20 DEF SetCookies, Storing
  <2>2. rcookies' \in Cookies
    BY <1>12, <2>1, EntryTypes DEF SetCookies
  <2>3. lock' \in [Processes -> Seq(Tasks)]
    BY <1>12, Releasing DEF SetCookies, LockInv, Awaiting
  <2>4. took' \in [Processes -> Int] /\ mem' \in [Tasks -> Mem]
    BY <1>12, <2>1, EmptyTypes DEF SetCookies
  <2> QED
    BY <1>12, <2>2, <2>3, <2>4 DEF SetCookies, Goto, Acted, openiam, Awaiting
<1>13. ASSUME NEW t \in Tasks, Raise(t) PROVE TypeOK'
  <2>1. lock' \in [Processes -> Seq(Tasks)]
    BY <1>13, Releasing DEF Raise, LockInv
  <2> QED
    BY <1>13, <2>1, EmptyTypes DEF Raise, Goto, Acted, openiam, redis,
       processes, Awaiting
<1>14. ASSUME NEW t \in Tasks, Respond(t) PROVE TypeOK'
  BY <1>14 DEF Respond, Goto, Acted, openiam, redis, processes, Awaiting
<1>15. ASSUME NEW p \in Processes, Crash(p) PROVE TypeOK'
  <2>1. /\ mem' \in [Tasks -> Mem] /\ jar' \in [Processes -> Jar]
        /\ token' \in [Processes -> Session]
        /\ lock' \in [Processes -> Seq(Tasks)]
    BY <1>15, EmptyTypes, SessionType DEF Crash
  <2>2. pc' \in [Tasks -> Awaiting \cup {"idle", "waiting", "sent"}]
    BY <1>15 DEF Crash
  <2>3. own' \in [Processes -> BOOLEAN] /\ took' \in [Processes -> Int]
    BY <1>15 DEF Crash
  <2>4. expires' \in [Processes -> Nat] /\ crashes' \in Nat
    BY <1>15 DEF Crash
  <2> QED
    BY <1>15, <2>1, <2>2, <2>3, <2>4 DEF Crash, openiam, redis
<1>16. CASE Tick
  BY <1>16 DEF Tick, openiam, redis, processes, tasks
<1>17. CASE UNCHANGED vars
  BY <1>17 DEF vars, openiam, redis, processes, tasks
<1> QED
  BY <1>1, <1>2, <1>3, <1>4, <1>5, <1>6, <1>7, <1>9, <1>10, <1>11, <1>12,
     <1>13, <1>14, <1>15, <1>16, <1>17, <1>18, <1>19 DEF Next, Continue
-----------------------------------------------------------------------------
(* The lock *)

Others(t) == \A u \in Tasks : u # t => pc'[u] = pc[u]

LEMMA GotoOthers ==
  ASSUME TypeOK, NEW t \in Tasks, NEW label, Goto(t, label)
  PROVE  Others(t) /\ pc'[t] = label
BY DEF TypeOK, Goto, Others

\* The holder goes on, or it leaves and the next in the queue may enter.
LEMMA KeepLock ==
  ASSUME TypeOK, LockInv, NEW t \in Tasks, HoldsLock(t), Others(t),
         UNCHANGED lock
  PROVE  LockInv'
BY DEF LockInv, HoldsLock, Others

LEMMA DropLock ==
  ASSUME TypeOK, LockInv, NEW t \in Tasks, HoldsLock(t), Others(t),
         Release(t), pc'[t] \notin Awaiting
  PROVE  LockInv'
<1> SUFFICES ASSUME NEW u \in Tasks, pc'[u] \in Awaiting
             PROVE  HoldsLock(u)'
  BY DEF LockInv
<1>1. u # t /\ HoldsLock(u)
  BY DEF Others, LockInv
<1>2. Home[u] # Home[t] /\ Home[u] \in Processes
  BY <1>1, ClientAssumption DEF HoldsLock
<1>3. lock'[Home[u]] = lock[Home[u]]
  BY <1>2 DEF Release, TypeOK
<1> QED
  BY <1>1, <1>3 DEF HoldsLock

LEMMA LockStep ==
  ASSUME TypeOK, LockInv, [Next]_vars
  PROVE  LockInv'
<1>1. ASSUME NEW t \in Tasks, Call(t) PROVE LockInv'
  <2> SUFFICES ASSUME NEW u \in Tasks, pc'[u] \in Awaiting
               PROVE  HoldsLock(u)'
    BY DEF LockInv
  <2>1. u # t /\ pc'[u] = pc[u]
    BY <1>1 DEF Call, Goto, TypeOK, Awaiting
  <2>2. HoldsLock(u)
    BY <2>1 DEF LockInv
  <2>3. CASE UNCHANGED lock
    BY <2>2, <2>3 DEF HoldsLock
  <2>4. CASE lock' = [lock EXCEPT ![Home[t]] = Append(@, t)]
    <3>1. Home[u] \in Processes /\ lock[Home[u]] \in Seq(Tasks)
      BY ClientAssumption DEF TypeOK
    <3>2. \/ lock'[Home[u]] = lock[Home[u]]
          \/ lock'[Home[u]] = Append(lock[Home[u]], t)
      BY <2>4, <3>1 DEF TypeOK
    <3>3. lock'[Home[u]] # <<>> /\ Head(lock'[Home[u]]) = Head(lock[Home[u]])
      BY <2>2, <3>1, <3>2 DEF HoldsLock
    <3> QED
      BY <2>2, <3>3 DEF HoldsLock
  <2> QED
    BY <1>1, <2>3, <2>4 DEF Call
<1>2. ASSUME NEW t \in Tasks, Enter(t) PROVE LockInv'
  <2>1. CASE Goto(t, "sent") /\ Release(t)
    BY <1>2, <2>1, GotoOthers, DropLock DEF Enter, Awaiting
  <2>2. CASE Goto(t, "get") /\ UNCHANGED lock
    BY <1>2, <2>2, GotoOthers, KeepLock DEF Enter
  <2> QED
    BY <1>2, <2>1, <2>2 DEF Enter
<1>3. ASSUME NEW t \in Tasks, NEW label, pc[t] \in Awaiting, Goto(t, label),
             UNCHANGED lock
      PROVE  LockInv'
  BY <1>3, GotoOthers, KeepLock DEF LockInv
<1>4. ASSUME NEW t \in Tasks, NEW label, pc[t] \in Awaiting, Goto(t, label),
             label \notin Awaiting, Release(t)
      PROVE  LockInv'
  BY <1>4, GotoOthers, DropLock DEF LockInv
<1>5. ASSUME NEW t \in Tasks, RedisGet(t) PROVE LockInv'
  BY <1>5, <1>3 DEF RedisGet, StartLogin, Awaiting
<1>6. ASSUME NEW t \in Tasks, RedisTtl(t) PROVE LockInv'
  BY <1>6, <1>3 DEF RedisTtl, StartLogin, Awaiting
<1>7. ASSUME NEW t \in Tasks, RedisCookies(t) PROVE LockInv'
  BY <1>7, <1>3 DEF RedisCookies, Awaiting
<1>16. ASSUME NEW t \in Tasks, Restore(t) PROVE LockInv'
  BY <1>16, <1>4 DEF Restore, Awaiting
<1>8. ASSUME NEW t \in Tasks, LoginPost(t) \/ Authorize(t) PROVE LockInv'
  BY <1>8, <1>3 DEF LoginPost, Authorize, processes, Awaiting
<1>9. ASSUME NEW t \in Tasks, Redirect(t) \/ Introspect(t) \/ Told(t)
      PROVE  LockInv'
  BY <1>9, <1>3 DEF Redirect, Introspect, Told, Accept, Awaiting
<1>10. ASSUME NEW t \in Tasks, SetToken(t) PROVE LockInv'
  BY <1>10, <1>3 DEF SetToken, Awaiting
<1>11. ASSUME NEW t \in Tasks, SetCookies(t) \/ Raise(t) PROVE LockInv'
  BY <1>11, <1>4 DEF SetCookies, Raise, Awaiting
<1>12. ASSUME NEW t \in Tasks, Respond(t) PROVE LockInv'
  BY <1>12 DEF Respond, Goto, LockInv, HoldsLock, TypeOK, Awaiting
<1>13. ASSUME NEW p \in Processes, Crash(p) PROVE LockInv'
  <2> SUFFICES ASSUME NEW u \in Tasks, pc'[u] \in Awaiting
               PROVE  HoldsLock(u)'
    BY DEF LockInv
  <2>1. Home[u] # p /\ pc[u] \in Awaiting
    BY <1>13 DEF Crash, Awaiting
  <2>2. lock'[Home[u]] = lock[Home[u]]
    BY <1>13, <2>1, ClientAssumption DEF Crash, TypeOK
  <2> QED
    BY <2>1, <2>2 DEF LockInv, HoldsLock
<1>14. CASE Tick
  BY <1>14 DEF Tick, tasks, LockInv, HoldsLock
<1>15. CASE UNCHANGED vars
  BY <1>15 DEF vars, tasks, LockInv, HoldsLock
<1> QED
  BY <1>1, <1>2, <1>5, <1>6, <1>7, <1>8, <1>9, <1>10, <1>11, <1>12, <1>13,
     <1>14, <1>15, <1>16 DEF Next, Continue
-----------------------------------------------------------------------------
(* No token while refreshing *)

\* Another task of a process that is refreshing is not refreshing too.
LEMMA OtherHome ==
  ASSUME LockInv, NEW t \in Tasks, NEW u \in Tasks, u # t,
         pc[t] \in Awaiting, pc[u] \in Awaiting
  PROVE  Home[u] # Home[t]
BY OneRefreshPerProcess

LEMMA StaleKeep ==
  ASSUME UNCHANGED <<token, expires, now>>,
         \A u \in Tasks : pc'[u] \in Refreshing => ~Fresh(Home[u])
  PROVE  StaleInv'
BY DEF StaleInv, Fresh

LEMMA StaleStep ==
  ASSUME TypeOK, LockInv, StaleInv, [Next]_vars
  PROVE  StaleInv'
<1> Refreshing \subseteq Awaiting
  BY DEF Refreshing, Awaiting
<1>1. ASSUME NEW t \in Tasks, Call(t) \/ SetToken(t) \/ SetCookies(t) \/ Raise(t)
                              \/ Respond(t) \/ Enter(t)
      PROVE  StaleInv'
  BY <1>1, StaleKeep DEF Call, SetToken, SetCookies, Raise, Respond, Enter,
     NeedsToken, Goto, Acted, processes, TypeOK, StaleInv, Refreshing
<1>2. ASSUME NEW t \in Tasks, RedisGet(t) \/ RedisTtl(t) PROVE StaleInv'
  BY <1>2, StaleKeep DEF RedisGet, RedisTtl, StartLogin, Goto, Acted,
     processes, TypeOK, StaleInv, Refreshing
<1>3. ASSUME NEW t \in Tasks,
             RedisCookies(t) \/ LoginPost(t) \/ Authorize(t) \/ Introspect(t)
      PROVE  StaleInv'
  BY <1>3, StaleKeep DEF RedisCookies, LoginPost, Authorize, Introspect, Goto, Acted, processes, TypeOK,
     StaleInv, Refreshing
<1>4. ASSUME NEW t \in Tasks, pc[t] \in Awaiting, pc'[t] \notin Refreshing,
             Others(t), UNCHANGED now,
             \A p \in Processes : p # Home[t] =>
               token'[p] = token[p] /\ expires'[p] = expires[p]
      PROVE  StaleInv'
  <2> SUFFICES ASSUME NEW u \in Tasks, pc'[u] \in Refreshing
               PROVE  ~Fresh(Home[u])'
    BY DEF StaleInv
  <2>1. u # t /\ pc[u] \in Refreshing
    BY <1>4 DEF Others
  <2>2. Home[u] # Home[t] /\ Home[u] \in Processes
    BY <1>4, <2>1, OtherHome, ClientAssumption
  <2> QED
    BY <1>4, <2>1, <2>2 DEF StaleInv, Fresh
<1>5. ASSUME NEW t \in Tasks, Restore(t) PROVE StaleInv'
  <2>1. pc[t] \in Awaiting /\ pc'[t] \notin Refreshing /\ Others(t)
    BY <1>5, GotoOthers DEF Restore, Awaiting, Refreshing
  <2> QED
    BY <1>5, <1>4, <2>1 DEF Restore, Acted, TypeOK
<1>6. ASSUME NEW t \in Tasks, NEW ttl, pc[t] \in Awaiting, Accept(t, ttl),
             Acted
      PROVE  StaleInv'
  <2>1. pc'[t] \notin Refreshing /\ Others(t)
    BY <1>6, GotoOthers DEF Accept, Refreshing
  <2> QED
    BY <1>6, <1>4, <2>1 DEF Accept, Acted, TypeOK
<1>7. ASSUME NEW t \in Tasks, Redirect(t) PROVE StaleInv'
  <2>1. CASE Accept(t, TokenTTL)
    BY <1>7, <1>6, <2>1 DEF Redirect, Awaiting
  <2>2. CASE Goto(t, "introspect") /\ UNCHANGED <<token, expires, own, took, mem>>
    BY <1>7, <2>2, StaleKeep DEF Redirect, Goto, Acted, TypeOK, StaleInv,
       Refreshing
  <2> QED
    BY <1>7, <2>1, <2>2 DEF Redirect
<1>8. ASSUME NEW t \in Tasks, Told(t) PROVE StaleInv'
  BY <1>8, <1>6 DEF Told, Awaiting
<1>9. ASSUME NEW p \in Processes, Crash(p) PROVE StaleInv'
  <2> SUFFICES ASSUME NEW u \in Tasks, pc'[u] \in Refreshing
               PROVE  ~Fresh(Home[u])'
    BY DEF StaleInv
  <2>1. Home[u] # p /\ pc[u] \in Refreshing /\ Home[u] \in Processes
    BY <1>9, ClientAssumption DEF Crash, Refreshing
  <2> QED
    BY <1>9, <2>1 DEF Crash, StaleInv, Fresh, TypeOK
<1>10. CASE Tick
  <2>1. \A p \in Processes : expires[p] \in Nat /\ now \in Nat
    BY DEF TypeOK
  <2>2. \A p \in Processes : ~Fresh(p) => ~Fresh(p)'
    BY <1>10, <2>1 DEF Tick, processes, Fresh
  <2> QED
    BY <1>10, <2>2, ClientAssumption DEF Tick, tasks, StaleInv
<1>11. CASE UNCHANGED vars
  BY <1>11 DEF vars, tasks, processes, StaleInv, Fresh
<1> QED
  BY <1>1, <1>2, <1>3, <1>5, <1>7, <1>8, <1>9, <1>10, <1>11
  DEF Next, Continue
-----------------------------------------------------------------------------
(* The jar during a login *)

\* Outside its own process a step changes no jar and no token.
Local(t) ==
  /\ Others(t)
  /\ \A u \in Tasks : u # t => mem'[u] = mem[u]
  /\ \A p \in Processes : p # Home[t] =>
       jar'[p] = jar[p] /\ token'[p] = token[p] /\ own'[p] = own[p]

\* A step under the lock need only be right about the task that takes it.
LEMMA LoginFrame ==
  ASSUME LockInv, LoginInv, NEW t \in Tasks, pc[t] \in Awaiting, Local(t),
         LoginOf(t)'
  PROVE  LoginInv'
<1> SUFFICES ASSUME NEW u \in Tasks, u # t PROVE LoginOf(u)'
  BY DEF LoginInv
<1>1. LoginOf(u) /\ pc'[u] = pc[u] /\ mem'[u] = mem[u]
  BY DEF LoginInv, Local, Others
<1>2. CASE pc[u] \in Awaiting
  <2>1. Home[u] # Home[t] /\ Home[u] \in Processes
    BY <1>2, OtherHome, ClientAssumption
  <2>2. /\ jar'[Home[u]] = jar[Home[u]] /\ token'[Home[u]] = token[Home[u]]
        /\ own'[Home[u]] = own[Home[u]]
    BY <2>1 DEF Local
  <2> QED
    BY <1>1, <2>2 DEF LoginOf, SessionOf, CleanOf, StoringOf, Matches
<1>3. CASE pc[u] \notin Awaiting
  BY <1>1, <1>3 DEF LoginOf, SessionOf, CleanOf, StoringOf, Awaiting, InSession,
     LoggingIn, Storing
<1> QED
  BY <1>2, <1>3

\* A step outside the lock leaves jars and tokens alone.
LEMMA LoginKeep ==
  ASSUME LoginInv, UNCHANGED <<jar, token, own>>,
         \A u \in Tasks : pc'[u] \in Awaiting =>
           pc'[u] = pc[u] /\ mem'[u] = mem[u]
  PROVE  LoginInv'
<1> SUFFICES ASSUME NEW u \in Tasks PROVE LoginOf(u)'
  BY DEF LoginInv
<1>1. LoginOf(u)
  BY DEF LoginInv
<1> QED
  BY <1>1 DEF LoginOf, SessionOf, CleanOf, StoringOf, Awaiting, InSession,
     LoggingIn, Storing, Matches

LEMMA LoginStep ==
  ASSUME TypeOK, LockInv, LoginInv, [Next]_vars
  PROVE  LoginInv'
<1> Home \in [Tasks -> Processes]
  BY ClientAssumption
<1> USE DEF InSession, LoggingIn, Storing
<1>1. ASSUME NEW t \in Tasks, Call(t) \/ Respond(t) PROVE LoginInv'
  BY <1>1, LoginKeep DEF Call, Respond, Goto, processes, TypeOK, Awaiting
<1>2. ASSUME NEW t \in Tasks, Enter(t) PROVE LoginInv'
  <2>1. \A u \in Tasks : u # t => pc'[u] = pc[u]
    BY <1>2 DEF Enter, Goto, TypeOK
  <2>2. pc'[t] \in {"sent", "get"}
    BY <1>2 DEF Enter, Goto, TypeOK
  <2> SUFFICES ASSUME NEW u \in Tasks PROVE LoginOf(u)'
    BY DEF LoginInv
  <2>3. LoginOf(u)
    BY DEF LoginInv
  <2> QED
    BY <1>2, <2>1, <2>2, <2>3 DEF Enter, processes, LoginOf, SessionOf, CleanOf,
       StoringOf, Matches
<1>3. ASSUME NEW t \in Tasks, pc[t] \in Awaiting, StartLogin(t) PROVE LoginInv'
  <2>1. Local(t)
    BY <1>3, GotoOthers DEF StartLogin, Local, TypeOK
  <2>2. pc'[t] = "post" /\ jar'[Home[t]] = EmptyJar
    BY <1>3, GotoOthers DEF StartLogin, TypeOK
  <2>3. LoginOf(t)'
    BY <2>2 DEF LoginOf, SessionOf, CleanOf, StoringOf, EmptyJar
  <2> QED
    BY <1>3, <2>1, <2>3, LoginFrame
<1>4. ASSUME NEW t \in Tasks, pc[t] \in Awaiting, Local(t),
             pc'[t] \notin InSession \cup LoggingIn \cup Storing
      PROVE  LoginInv'
  <2>1. LoginOf(t)'
    BY <1>4 DEF LoginOf, SessionOf, CleanOf, StoringOf
  <2> QED
    BY <1>4, <2>1, LoginFrame
<1>5. ASSUME NEW t \in Tasks, RedisGet(t) PROVE LoginInv'
  <2>1. CASE StartLogin(t)
    BY <1>5, <2>1, <1>3 DEF RedisGet, Awaiting
  <2>2. CASE /\ mem' = [mem EXCEPT ![t].token = rtoken.val]
             /\ Goto(t, "ttl") /\ UNCHANGED <<processes, lock>>
    <3>1. Local(t) /\ pc'[t] = "ttl"
      BY <2>2, GotoOthers DEF Local, processes, TypeOK
    <3> QED
      BY <1>5, <3>1, <1>4 DEF RedisGet, Awaiting
  <2> QED
    BY <1>5, <2>1, <2>2 DEF RedisGet
<1>6. ASSUME NEW t \in Tasks, RedisTtl(t) PROVE LoginInv'
  <2>1. CASE StartLogin(t)
    BY <1>6, <2>1, <1>3 DEF RedisTtl, Awaiting
  <2>2. CASE Goto(t, "cookies") /\ UNCHANGED <<processes, lock>>
    <3>1. \A u \in Tasks : u # t => mem'[u] = mem[u]
      BY <1>6 DEF RedisTtl, StartLogin, TypeOK
    <3>2. Local(t) /\ pc'[t] = "cookies"
      BY <2>2, <3>1, GotoOthers DEF Local, processes
    <3> QED
      BY <1>6, <3>2, <1>4 DEF RedisTtl, Awaiting
  <2> QED
    BY <1>6, <2>1, <2>2 DEF RedisTtl
<1>7. ASSUME NEW t \in Tasks, RedisCookies(t) \/ Restore(t) PROVE LoginInv'
  <2>1. Others(t) /\ pc'[t] \in {"restore", "sent"}
    BY <1>7, GotoOthers DEF RedisCookies, Restore
  <2>2. Local(t)
    BY <1>7, <2>1 DEF RedisCookies, Restore, Local, processes, TypeOK
  <2> QED
    BY <1>7, <2>1, <2>2, <1>4 DEF RedisCookies, Restore, Awaiting
<1>8. ASSUME NEW t \in Tasks, LoginPost(t) PROVE LoginInv'
  <2>1. Others(t) /\ pc'[t] = "authorize"
    BY <1>8, GotoOthers DEF LoginPost
  <2>2. Local(t)
    BY <1>8, <2>1 DEF LoginPost, Local, TypeOK
  <2>3. /\ mem'[t].token = logins' /\ logins' # 0
        /\ jar'[Home[t]] = [jar[Home[t]] EXCEPT !.login = logins']
    <3>1. logins' # 0
      BY <1>8 DEF LoginPost, TypeOK, Session
    <3>2. [NoMem EXCEPT !.token = logins'].token = logins'
      BY DEF NoMem
    <3> QED
      BY <1>8, <3>1, <3>2 DEF LoginPost, TypeOK
  <2>4. jar[Home[t]].restored = 0 /\ jar[Home[t]] \in Jar
    BY <1>8 DEF LoginPost, LoginInv, LoginOf, CleanOf, TypeOK
  <2>5. jar'[Home[t]].login = logins' /\ jar'[Home[t]].restored = 0
    BY <2>3, <2>4 DEF Jar
  <2>6. LoginOf(t)'
    BY <2>1, <2>3, <2>5 DEF LoginOf, SessionOf, CleanOf, StoringOf
  <2> QED
    BY <1>8, <2>2, <2>6, LoginFrame DEF LoginPost, Awaiting
<1>9. ASSUME NEW t \in Tasks, Authorize(t) PROVE LoginInv'
  <2>1. Local(t) /\ pc'[t] = "redirect"
    BY <1>9, GotoOthers DEF Authorize, Local, processes, TypeOK
  <2>2. LoginOf(t)'
    BY <1>9, <2>1 DEF LoginInv, Authorize, processes, LoginOf, SessionOf,
       CleanOf, StoringOf
  <2> QED
    BY <1>9, <2>1, <2>2, LoginFrame DEF Authorize, Awaiting
<1>10. ASSUME NEW t \in Tasks, NEW ttl, pc[t] \in InSession, Accept(t, ttl),
              UNCHANGED jar
       PROVE  LoginInv'
  <2>1. Others(t) /\ pc'[t] = "setToken"
    BY <1>10, GotoOthers DEF Accept
  <2>2. Local(t)
    BY <1>10, <2>1 DEF Accept, Local, TypeOK
  <2>3. LoginOf(t)
    BY DEF LoginInv
  <2>4. /\ own'[Home[t]] /\ token'[Home[t]] = mem[t].token
        /\ mem'[t].token = mem[t].token
    BY <1>10 DEF Accept, TypeOK, Mem
  <2>5. LoginOf(t)'
    BY <1>10, <2>1, <2>3, <2>4 DEF LoginOf, SessionOf, CleanOf, StoringOf, Matches
  <2> QED
    BY <1>10, <2>2, <2>5, LoginFrame DEF Awaiting
<1>11. ASSUME NEW t \in Tasks, Redirect(t) PROVE LoginInv'
  <2>1. CASE Accept(t, TokenTTL)
    BY <1>11, <2>1, <1>10 DEF Redirect
  <2>2. CASE Goto(t, "introspect") /\ UNCHANGED <<token, expires, own, took, mem>>
    <3>1. Local(t) /\ pc'[t] = "introspect"
      BY <1>11, <2>2, GotoOthers DEF Redirect, Local, TypeOK
    <3>2. LoginOf(t)'
      BY <1>11, <2>2, <3>1 DEF LoginInv, Redirect, LoginOf, SessionOf,
         CleanOf, StoringOf
    <3> QED
      BY <1>11, <3>1, <3>2, LoginFrame DEF Redirect, Awaiting
  <2> QED
    BY <1>11, <2>1, <2>2 DEF Redirect
<1>12. ASSUME NEW t \in Tasks, Introspect(t) PROVE LoginInv'
  <2>1. mem'[t].token = mem[t].token /\ \A u \in Tasks : u # t => mem'[u] = mem[u]
    BY <1>12 DEF Introspect, TypeOK, Mem
  <2>2. Local(t) /\ pc'[t] = "told"
    BY <1>12, <2>1, GotoOthers DEF Introspect, Local, processes
  <2>3. LoginOf(t)'
    BY <1>12, <2>1, <2>2 DEF LoginInv, Introspect, processes, LoginOf,
       SessionOf, CleanOf, StoringOf
  <2> QED
    BY <1>12, <2>2, <2>3, LoginFrame DEF Introspect, Awaiting
<1>17. ASSUME NEW t \in Tasks, Told(t) PROVE LoginInv'
  BY <1>17, <1>10 DEF Told
<1>13. ASSUME NEW t \in Tasks, SetToken(t) PROVE LoginInv'
  <2>1. Local(t) /\ pc'[t] = "setCookies"
    BY <1>13, GotoOthers DEF SetToken, Local, processes, TypeOK
  <2>2. LoginOf(t)'
    BY <1>13, <2>1 DEF LoginInv, SetToken, processes, LoginOf, SessionOf,
       CleanOf, StoringOf, Matches
  <2> QED
    BY <1>13, <2>1, <2>2, LoginFrame DEF SetToken, Awaiting
<1>14. ASSUME NEW t \in Tasks, SetCookies(t) \/ Raise(t) PROVE LoginInv'
  <2>1. Others(t) /\ pc'[t] \in {"sent", "idle"}
    BY <1>14, GotoOthers DEF SetCookies, Raise
  <2>2. Local(t)
    BY <1>14, <2>1 DEF SetCookies, Raise, Local, processes, TypeOK
  <2> QED
    BY <1>14, <2>1, <2>2, <1>4 DEF SetCookies, Raise, Awaiting
<1>15. ASSUME NEW p \in Processes, Crash(p) PROVE LoginInv'
  <2> SUFFICES ASSUME NEW u \in Tasks PROVE LoginOf(u)'
    BY DEF LoginInv
  <2>1. LoginOf(u)
    BY DEF LoginInv
  <2>2. CASE Home[u] = p
    BY <1>15, <2>2 DEF Crash, LoginOf, SessionOf, CleanOf, StoringOf
  <2>3. CASE Home[u] # p
    BY <1>15, <2>1, <2>3 DEF Crash, TypeOK, LoginOf, SessionOf, CleanOf,
       StoringOf, Matches
  <2> QED
    BY <2>2, <2>3
<1>16. CASE Tick \/ UNCHANGED vars
  BY <1>16, LoginKeep DEF Tick, vars, tasks, processes
<1> QED
  BY <1>1, <1>2, <1>5, <1>6, <1>7, <1>8, <1>9, <1>11, <1>12, <1>13, <1>14,
     <1>15, <1>16, <1>17 DEF Next, Continue
-----------------------------------------------------------------------------
(* The cookies of a login that is over *)

\* A step that leaves the other processes' tokens and jars alone, and leaves its
\* own without a fresh token or with one that matches.
LEMMA OwnFrame ==
  ASSUME OwnInv, UNCHANGED now, NEW t \in Tasks,
         \A p \in Processes : p # Home[t] =>
           /\ token'[p] = token[p] /\ expires'[p] = expires[p]
           /\ jar'[p] = jar[p] /\ own'[p] = own[p],
         (own[Home[t]] /\ Fresh(Home[t]))' => Matches(Home[t])'
  PROVE  OwnInv'
BY DEF OwnInv, Fresh, Matches

LEMMA OwnKeep ==
  ASSUME OwnInv, UNCHANGED <<now, token, expires, jar, own>> PROVE OwnInv'
BY DEF OwnInv, Fresh, Matches

LEMMA OwnStep ==
  ASSUME TypeOK, StaleInv, LoginInv, OwnInv, [Next]_vars
  PROVE  OwnInv'
<1> Home \in [Tasks -> Processes]
  BY ClientAssumption
<1>1. ASSUME NEW t \in Tasks, Call(t) \/ Enter(t) \/ Respond(t) PROVE OwnInv'
  BY <1>1, OwnKeep DEF Call, Enter, Respond, processes, Acted
<1>2. ASSUME NEW t \in Tasks,
             \/ RedisCookies(t) \/ Authorize(t) \/ Introspect(t)
             \/ SetToken(t) \/ SetCookies(t) \/ Raise(t)
      PROVE  OwnInv'
  BY <1>2, OwnKeep DEF RedisCookies, Authorize, Introspect, SetToken,
     SetCookies, Raise, processes, Acted
<1>3. ASSUME NEW t \in Tasks, StartLogin(t), pc[t] \in Refreshing,
             UNCHANGED now
      PROVE  OwnInv'
  <2>1. ~Fresh(Home[t])'
    BY <1>3 DEF StartLogin, StaleInv, Fresh
  <2> QED
    BY <1>3, <2>1, OwnFrame DEF StartLogin, TypeOK
<1>4. ASSUME NEW t \in Tasks, RedisGet(t) \/ RedisTtl(t) PROVE OwnInv'
  <2>1. CASE StartLogin(t)
    BY <1>4, <2>1, <1>3 DEF RedisGet, RedisTtl, Acted, Refreshing
  <2>2. CASE UNCHANGED processes
    BY <1>4, <2>2, OwnKeep DEF RedisGet, RedisTtl, processes, Acted
  <2> QED
    BY <1>4, <2>1, <2>2 DEF RedisGet, RedisTtl
<1>5. ASSUME NEW t \in Tasks, Restore(t) PROVE OwnInv'
  <2>1. ~own'[Home[t]]
    BY <1>5 DEF Restore, TypeOK
  <2> QED
    BY <1>5, <2>1, OwnFrame DEF Restore, Acted, TypeOK
<1>6. ASSUME NEW t \in Tasks, LoginPost(t) PROVE OwnInv'
  <2>1. ~Fresh(Home[t])'
    BY <1>6 DEF LoginPost, Acted, StaleInv, Fresh, Refreshing
  <2> QED
    BY <1>6, <2>1, OwnFrame DEF LoginPost, Acted, TypeOK
<1>7. ASSUME NEW t \in Tasks, NEW ttl, pc[t] \in InSession, Accept(t, ttl),
             UNCHANGED <<now, jar>>
      PROVE  OwnInv'
  <2>1. SessionOf(t) /\ CleanOf(t)
    BY DEF LoginInv, LoginOf
  <2>2. token'[Home[t]] = mem[t].token
    BY <1>7 DEF Accept, TypeOK
  <2>3. Matches(Home[t])'
    BY <1>7, <2>1, <2>2 DEF SessionOf, CleanOf, Matches, InSession, LoggingIn
  <2> QED
    BY <1>7, <2>3, OwnFrame DEF Accept, TypeOK
<1>8. ASSUME NEW t \in Tasks, Redirect(t) PROVE OwnInv'
  <2>1. CASE Accept(t, TokenTTL)
    BY <1>8, <2>1, <1>7 DEF Redirect, Acted, InSession
  <2>2. CASE UNCHANGED <<token, expires, own, took, mem>>
    BY <1>8, <2>2, OwnKeep DEF Redirect, Acted
  <2> QED
    BY <1>8, <2>1, <2>2 DEF Redirect
<1>9. ASSUME NEW t \in Tasks, Told(t) PROVE OwnInv'
  BY <1>9, <1>7 DEF Told, Acted, InSession
<1>10. ASSUME NEW p \in Processes, Crash(p) PROVE OwnInv'
  BY <1>10 DEF Crash, TypeOK, OwnInv, Fresh, Matches
<1>11. CASE Tick
  <2>1. \A p \in Processes : expires[p] \in Nat /\ now \in Nat
    BY DEF TypeOK
  <2>2. \A p \in Processes : Fresh(p)' => Fresh(p)
    BY <1>11, <2>1 DEF Tick, processes, Fresh
  <2> QED
    BY <1>11, <2>2 DEF Tick, processes, OwnInv, Matches
<1>12. CASE UNCHANGED vars
  BY <1>12, OwnKeep DEF vars, processes
<1> QED
  BY <1>1, <1>2, <1>4, <1>5, <1>6, <1>8, <1>9, <1>10, <1>11, <1>12
  DEF Next, Continue

-----------------------------------------------------------------------------
(* The theorems *)

LEMMA InvStep == Inv /\ [Next]_vars => Inv'
BY TypeStep, LockStep, StaleStep, LoginStep, OwnStep DEF Inv

LEMMA InvCorrect == Spec => []Inv
<1>1. Init => Inv
  BY InitInv
<1>2. Inv /\ [Next]_vars => Inv'
  BY InvStep
<1> QED
  BY <1>1, <1>2, PTL DEF Spec

\* Types, and that neither a token lifetime nor a Redis expiry gets negative.
THEOREM TypeCorrect == Spec => []TypeOK
<1>1. Inv => TypeOK
  BY DEF Inv
<1> QED
  BY <1>1, InvCorrect, PTL

\* get_access_token's second check under the lock does its work: no process
\* logs in over a token it considers fresh.
THEOREM NoNeedlessLoginCorrect == Spec => NoNeedlessLogin
<1> DEFINE A == \A t \in Tasks :
                  pc[t] # "post" /\ pc'[t] = "post" => ~Fresh(Home[t])
<1>1. Inv /\ [Next]_vars => [A]_vars
  <2> SUFFICES ASSUME Inv, Next, NEW t \in Tasks,
                      pc[t] # "post", pc'[t] = "post"
               PROVE  ~Fresh(Home[t])
    OBVIOUS
  <2>1. \A u \in Tasks : \A label : Goto(u, label) => u = t /\ label = "post"
    BY DEF Goto, Inv, TypeOK
  <2>2. RedisGet(t) \/ RedisTtl(t)
    <3>1. \A u \in Tasks : ~(Call(u) \/ Enter(u) \/ RedisCookies(u)
            \/ Restore(u) \/ LoginPost(u) \/ Authorize(u) \/ Redirect(u)
            \/ Introspect(u) \/ Told(u))
      BY <2>1 DEF Call, Enter, RedisCookies, Restore, LoginPost, Authorize,
         Redirect, Introspect, Told, Accept
    <3>2. \A u \in Tasks :
            ~(SetToken(u) \/ SetCookies(u) \/ Raise(u) \/ Respond(u))
      BY <2>1 DEF SetToken, SetCookies, Raise, Respond
    <3>3. ~Tick /\ \A p \in Processes : ~Crash(p)
      BY DEF Tick, tasks, Crash
    <3>4. \A u \in Tasks : RedisGet(u) \/ RedisTtl(u) => u = t
      BY <2>1 DEF RedisGet, RedisTtl, StartLogin
    <3> QED
      BY <3>1, <3>2, <3>3, <3>4 DEF Next, Continue
  <2> QED
    BY <2>2 DEF Inv, StaleInv, RedisGet, RedisTtl, Refreshing
<1> QED
  BY <1>1, InvCorrect, PTL DEF Spec, NoNeedlessLogin

\* The steps with which a request leaves.
LEMMA SendingSteps ==
  ASSUME TypeOK, Next, NEW t \in Tasks, Sends(t)
  PROVE  Call(t) \/ Enter(t) \/ Restore(t) \/ SetCookies(t)
<1>1. \A u \in Tasks : \A label : Goto(u, label) => u = t /\ label = "sent"
  BY DEF Goto, TypeOK, Sends
<1>2. \A u \in Tasks : ~(RedisGet(u) \/ RedisTtl(u) \/ RedisCookies(u)
        \/ LoginPost(u) \/ Authorize(u) \/ Redirect(u) \/ Introspect(u)
        \/ Told(u))
  BY <1>1 DEF RedisGet, RedisTtl, RedisCookies, StartLogin, LoginPost,
     Authorize, Redirect, Introspect, Told, Accept
<1>3. \A u \in Tasks : ~(SetToken(u) \/ Raise(u) \/ Respond(u))
  BY <1>1 DEF SetToken, Raise, Respond
<1>4. ~Tick
  BY DEF Tick, tasks, Sends
<1>5. ASSUME NEW p \in Processes PROVE ~Crash(p)
  <2>1. Crash(p) => pc'[t] = "idle" \/ pc'[t] = pc[t]
    BY DEF Crash
  <2> QED
    BY <2>1 DEF Sends
<1>6. \A u \in Tasks :
        Call(u) \/ Enter(u) \/ Restore(u) \/ SetCookies(u) => u = t
  BY <1>1 DEF Call, Enter, Restore, SetCookies
<1> QED
  BY <1>2, <1>3, <1>4, <1>5, <1>6 DEF Next, Continue

\* A token of the process's own login travels with that login's cookies only.
THEOREM OwnCookiesMatchCorrect == Spec => OwnCookiesMatch
<1> DEFINE A == \A t \in Tasks : Sends(t) /\ own'[Home[t]] =>
                  Carried(Home[t])' = {token'[Home[t]]}
<1>1. Inv /\ [Next]_vars => [A]_vars
  <2> SUFFICES ASSUME Inv, Next, NEW t \in Tasks, Sends(t), own'[Home[t]]
               PROVE  Carried(Home[t])' = {token'[Home[t]]}
    OBVIOUS
  <2> Home[t] \in Processes
    BY ClientAssumption
  <2>1. Matches(Home[t])' => Carried(Home[t])' = {token'[Home[t]]}
    BY DEF Matches, Carried
  <2>2. \A label : Goto(t, label) => label = "sent"
    BY DEF Goto, Inv, TypeOK, Sends
  <2>3. Call(t) \/ Enter(t) \/ Restore(t) \/ SetCookies(t)
    BY SendingSteps DEF Inv
  <2>4. CASE Call(t) \/ Enter(t)
    <3>1. Fresh(Home[t])
      BY <2>2, <2>4 DEF Call, Enter, NeedsToken
    <3> QED
      BY <2>1, <2>4, <3>1 DEF Call, Enter, processes, Inv, OwnInv, Matches
  <2>5. CASE Restore(t)
    BY <2>5 DEF Restore, Inv, TypeOK
  <2>6. CASE SetCookies(t)
    BY <2>1, <2>6 DEF SetCookies, Inv, LoginInv, LoginOf, StoringOf,
       Storing, Matches
  <2> QED
    BY <2>3, <2>4, <2>5, <2>6
<1> QED
  BY <1>1, InvCorrect, PTL DEF Spec, OwnCookiesMatch
=============================================================================
