------------------------ MODULE TokenFreshnessProofs ------------------------
(***************************************************************************)
(* When a token that came within the margin is sent, OpenIAM still accepts *)
(* it.  For a token the process logged in for, and for what Redis keeps,   *)
(* with any number of processes; for a token taken from Redis with one     *)
(* process only: with two it is false, and the run token_lifetime is the   *)
(* counterexample.  However long answers take, they are counted in `took`, *)
(* so nothing is assumed about them.                                       *)
(***************************************************************************)
EXTENDS TokenClientProofs

\* The margin leaves something of a token's lifetime.
MarginFits == Margin < TokenTTL

SingleProcess == \A p, q \in Processes : p = q

\* OpenIAM gives no token longer than its lifetime, so authorizing a session
\* never brings an expiry forward.
LifetimeInv == \A s \in 1..MaxLogins : expiry[s] <= now + TokenTTL

\* A deadline for the token of session s, set after a delay: what the delay
\* took away from the token's life is all the deadline may be late, less the
\* margin.
Bounded(s, ends, delay) ==
  s = 0 \/ s \in misread \/ ends + Margin <= expiry[s] + delay

BoundedHere(p) == Bounded(token[p], expires[p], took[p])

\* So is what a process believes of the token it logged in for,
OwnBounded == \A p \in Processes : own[p] => BoundedHere(p)

\* and so is what Redis keeps.
SharedBounded ==
  /\ rtoken.val = 0 => rtoken.until = 0
  /\ Bounded(rtoken.val, rtoken.until, rtoken.took)

\* A task on its way through a login: a lifetime that is one is no longer than
\* OpenIAM gives, and what is stored of it leaves the margin.
IssuedOf(t) ==
  mem[t].token \notin misread =>
    /\ pc[t] = "told" => mem[t].ttl <= TokenTTL
    /\ pc[t] \in Storing =>
         /\ mem[t].ttl + Margin <= TokenTTL
         /\ expires[Home[t]] + Margin <= now + TokenTTL

IssuedInv == \A t \in Tasks : IssuedOf(t)

IssueInv == LifetimeInv /\ OwnBounded /\ SharedBounded /\ IssuedInv

\* A task on its way through Redis: nobody overwrites the key between its two
\* commands when the only writer there is holds the lock.
ReadingOf(t) ==
  /\ pc[t] = "ttl" => mem[t].token = rtoken.val /\ rtoken.val # 0
  /\ pc[t] \in {"cookies", "restore"} =>
       /\ mem[t].token # 0 /\ mem[t].ttl >= 1
       /\ Bounded(mem[t].token, mem[t].since + mem[t].ttl, 0)

ReadingInv == \A t \in Tasks : ReadingOf(t)

RestoredBounded == \A p \in Processes : ~own[p] => BoundedHere(p)

ReadInv == ReadingInv /\ RestoredBounded

-----------------------------------------------------------------------------
(* Types, as the arithmetic below needs them *)

LEMMA NumberTypes ==
  ASSUME TypeOK
  PROVE  /\ now \in Nat /\ TokenTTL \in Nat /\ Margin \in Nat /\ FallbackTTL \in Nat
         /\ \A s \in Session : s # 0 => s \in 1..MaxLogins /\ expiry[s] \in Nat
         /\ rtoken.val \in Session /\ rtoken.until \in Nat /\ rtoken.took \in Int
         /\ \A p \in Processes : /\ token[p] \in Session /\ expires[p] \in Nat
                                 /\ took[p] \in Int
         /\ \A t \in Tasks : /\ mem[t].token \in Session /\ mem[t].ttl \in Nat
                             /\ mem[t].since \in Int /\ Home[t] \in Processes
<1>1. \A s \in Session : s # 0 => s \in 1..MaxLogins
  BY ClientAssumption DEF Session
<1> QED
  BY <1>1, ClientAssumption, EntryFields, MemFields DEF TypeOK

\* Steps other than Authorize, Introspect and Tick leave OpenIAM and the clock
\* alone.
Steady == UNCHANGED <<now, expiry, misread>>

\* No step but Tick moves the clock, and none takes a token's time away.
Growing ==
  /\ UNCHANGED now /\ misread \subseteq misread'
  /\ \A s \in 1..MaxLogins : expiry'[s] \in Nat /\ expiry[s] <= expiry'[s]

LEMMA UnmovedGrows ==
  ASSUME TypeOK, UNCHANGED <<now, expiry>>, misread \subseteq misread'
  PROVE  Growing
<1>1. \A s \in 1..MaxLogins : expiry[s] \in Nat
  BY DEF TypeOK
<1>2. \A n \in Nat : n <= n
  OBVIOUS
<1> QED
  BY <1>1, <1>2 DEF Growing

LEMMA SteadyGrows == ASSUME TypeOK, Steady PROVE Growing
BY UnmovedGrows DEF Steady

LEMMA InitIssue == Init => IssueInv /\ ReadInv
<1> SUFFICES ASSUME Init PROVE IssueInv /\ ReadInv
  OBVIOUS
<1>1. LifetimeInv
  BY ClientAssumption DEF Init, LifetimeInv
<1>2. OwnBounded /\ SharedBounded /\ RestoredBounded
  BY DEF Init, OwnBounded, SharedBounded, RestoredBounded, BoundedHere, Bounded
<1>3. IssuedInv /\ ReadingInv
  BY DEF Init, IssuedInv, IssuedOf, ReadingInv, ReadingOf, Storing
<1> QED
  BY <1>1, <1>2, <1>3 DEF IssueInv, ReadInv

-----------------------------------------------------------------------------
(* The arithmetic *)

\* The margin at work: no lifetime OpenIAM gives leaves less than the margin.
LEMMA EffectiveLeavesMargin ==
  ASSUME MarginFits, NEW ttl \in Nat, ttl <= TokenTTL
  PROVE  EffectiveTTL(ttl) + Margin <= TokenTTL
<1> TokenTTL \in Nat /\ Margin \in Nat /\ Margin < TokenTTL
  BY ClientAssumption DEF MarginFits
<1>1. CASE ttl >= Margin + 1
  BY <1>1 DEF EffectiveTTL
<1>2. CASE ~(ttl >= Margin + 1)
  <2>1. EffectiveTTL(ttl) = 1
    BY <1>2 DEF EffectiveTTL
  <2> QED
    BY <2>1
<1> QED
  BY <1>1, <1>2

\* A deadline set now, that leaves the margin of a whole lifetime, is bounded
\* after the time since the token was issued.
LEMMA BoundedNow ==
  ASSUME TypeOK, NEW s \in 1..MaxLogins, NEW ends \in Nat,
         s \in misread \/ ends + Margin <= now + TokenTTL
  PROVE  Bounded(s, ends, now - Issued(s))
<1>1. expiry[s] \in Nat /\ now \in Nat /\ TokenTTL \in Nat /\ Margin \in Nat
  BY ClientAssumption DEF TypeOK
<1>2. expiry[s] + (now - (expiry[s] - TokenTTL)) = now + TokenTTL
  BY <1>1
<1> QED
  BY <1>2 DEF Bounded, Issued

\* A token whose deadline is bounded, and has not come, is good.
LEMMA BoundedGood ==
  ASSUME TypeOK, NEW s \in Session, NEW ends \in Nat, NEW delay \in Int,
         s # 0, s \notin misread, Bounded(s, ends, delay), delay <= Margin,
         now < ends
  PROVE  now < expiry[s]
<1>1. expiry[s] \in Nat /\ now \in Nat /\ Margin \in Nat
  BY NumberTypes
<1>2. ends + Margin <= expiry[s] + delay
  BY DEF Bounded
<1> QED
  BY <1>1, <1>2

\* A bound that held of a token's expiry holds of a later one.
LEMMA BoundedKeep ==
  ASSUME TypeOK, Growing, NEW s \in Session, NEW ends \in Int, NEW delay \in Int,
         Bounded(s, ends, delay)
  PROVE  Bounded(s, ends, delay)'
<1>1. CASE s = 0 \/ s \in misread
  BY <1>1 DEF Bounded, Growing
<1>2. CASE s # 0 /\ s \notin misread
  <2>1. s \in 1..MaxLogins /\ expiry[s] \in Nat /\ Margin \in Nat
    BY <1>2, NumberTypes
  <2>2. expiry[s] <= expiry'[s] /\ expiry'[s] \in Nat
    BY <2>1 DEF Growing
  <2>3. ends + Margin <= expiry[s] + delay
    BY <1>2 DEF Bounded
  <2>4. ends + Margin <= expiry'[s] + delay
    BY <2>1, <2>2, <2>3
  <2> QED
    BY <2>4 DEF Bounded
<1> QED
  BY <1>1, <1>2

-----------------------------------------------------------------------------
(* Frames *)

\* The process keeps its token and its deadline.
SameToken(p) ==
  /\ token'[p] = token[p] /\ expires'[p] = expires[p]
  /\ own'[p] = own[p] /\ took'[p] = took[p]

LEMMA HereKeep ==
  ASSUME TypeOK, Growing, NEW p \in Processes, BoundedHere(p), SameToken(p)
  PROVE  BoundedHere(p)'
<1>1. token[p] \in Session /\ expires[p] \in Int /\ took[p] \in Int
  BY NumberTypes
<1>2. Bounded(token[p], expires[p], took[p])
  BY DEF BoundedHere
<1>3. \A s \in Session : \A e, d \in Int : Bounded(s, e, d) => Bounded(s, e, d)'
  BY BoundedKeep
<1>4. \A s \in Session : \A e, d \in Int :
        s = token[p] /\ e = expires[p] /\ d = took[p] => Bounded(s, e, d)'
  BY <1>2, <1>3
<1>5. \A s \in Session : \A e, d \in Int :
        s = token'[p] /\ e = expires'[p] /\ d = took'[p] =>
          (Bounded(s, e, d)' => BoundedHere(p)')
  BY DEF BoundedHere, Bounded
<1> QED
  BY <1>1, <1>4, <1>5 DEF SameToken

LEMMA BoundedFrame ==
  ASSUME TypeOK, Growing, OwnBounded, NEW t \in Tasks,
         \A p \in Processes : p # Home[t] => SameToken(p),
         own'[Home[t]] => BoundedHere(Home[t])'
  PROVE  OwnBounded'
BY HereKeep DEF OwnBounded, SameToken

LEMMA OwnBoundedKeep ==
  ASSUME TypeOK, Growing, OwnBounded, UNCHANGED <<token, expires, own, took>>
  PROVE  OwnBounded'
BY HereKeep DEF OwnBounded, SameToken

LEMMA SharedKeep ==
  ASSUME TypeOK, Growing, SharedBounded, UNCHANGED rtoken
  PROVE  SharedBounded'
<1>1. rtoken.val \in Session /\ rtoken.until \in Int /\ rtoken.took \in Int
  BY NumberTypes
<1>2. \A s \in Session : \A e, d \in Int : Bounded(s, e, d) => Bounded(s, e, d)'
  BY BoundedKeep
<1>3. Bounded(rtoken.val, rtoken.until, rtoken.took)'
  <2>1. \A s \in Session : \A e, d \in Int :
          s = rtoken.val /\ e = rtoken.until /\ d = rtoken.took =>
            Bounded(s, e, d)'
    BY <1>2 DEF SharedBounded
  <2>2. \A s \in Session : \A e, d \in Int :
          s = rtoken.val /\ e = rtoken.until /\ d = rtoken.took =>
            (Bounded(s, e, d)' => Bounded(rtoken.val, rtoken.until, rtoken.took)')
    BY DEF Bounded
  <2> QED
    BY <1>1, <2>1, <2>2
<1> QED
  BY <1>3 DEF SharedBounded

\* In a step of somebody else a task's login goes on as it was.
LEMMA IssuedKeep ==
  ASSUME TypeOK, IssuedInv, misread \subseteq misread', NEW u \in Tasks,
         now <= now', now' \in Nat,
         pc'[u] \in {"told"} \cup Storing =>
           /\ pc'[u] = pc[u] /\ mem'[u] = mem[u]
           /\ expires'[Home[u]] = expires[Home[u]]
  PROVE  IssuedOf(u)'
<1>1. CASE pc'[u] \notin {"told"} \cup Storing
  BY <1>1 DEF IssuedOf
<1>2. CASE pc'[u] \in {"told"} \cup Storing
  <2>1. IssuedOf(u)
    BY DEF IssuedInv
  <2>2. /\ now \in Nat /\ TokenTTL \in Nat /\ Margin \in Nat
        /\ expires[Home[u]] \in Nat
    BY NumberTypes
  <2>3. expires[Home[u]] + Margin <= now + TokenTTL =>
          expires[Home[u]] + Margin <= now' + TokenTTL
    BY <2>2
  <2> QED
    BY <1>2, <2>1, <2>3 DEF IssuedOf
<1> QED
  BY <1>1, <1>2

\* A step under the lock need only be right about the task that takes it.
LEMMA IssuedFrame ==
  ASSUME TypeOK, LockInv, IssuedInv, Growing, NEW t \in Tasks, pc[t] \in Awaiting,
         Others(t), \A u \in Tasks : u # t => mem'[u] = mem[u],
         \A p \in Processes : p # Home[t] => expires'[p] = expires[p],
         IssuedOf(t)'
  PROVE  IssuedInv'
<1> SUFFICES ASSUME NEW u \in Tasks, u # t PROVE IssuedOf(u)'
  BY DEF IssuedInv
<1>1. pc'[u] = pc[u] /\ mem'[u] = mem[u]
  BY DEF Others
<1>2. pc[u] \in {"told"} \cup Storing => Home[u] # Home[t]
  BY OtherHome DEF Storing, Awaiting
<1>3. Home[u] \in Processes /\ now <= now' /\ now' \in Nat
  BY NumberTypes DEF Growing
<1> QED
  BY <1>1, <1>2, <1>3, IssuedKeep DEF Growing

\* Steps that store nothing and take no session to its end.
LEMMA QuietIssue ==
  ASSUME TypeOK, IssueInv,
         UNCHANGED <<expiry, misread, rtoken, token, expires, own, took>>,
         now <= now', now' \in Nat,
         \A u \in Tasks : pc'[u] \in {"told"} \cup Storing =>
           pc'[u] = pc[u] /\ mem'[u] = mem[u]
  PROVE  IssueInv'
<1>1. LifetimeInv'
  <2>1. \A s \in 1..MaxLogins : expiry[s] \in Nat /\ expiry[s] <= now + TokenTTL
    BY DEF IssueInv, LifetimeInv, TypeOK
  <2>2. now \in Nat /\ TokenTTL \in Nat
    BY NumberTypes
  <2> QED
    BY <2>1, <2>2 DEF LifetimeInv
<1>2. OwnBounded' /\ SharedBounded'
  BY DEF IssueInv, OwnBounded, SharedBounded, BoundedHere, Bounded
<1>3. IssuedInv'
  BY IssuedKeep DEF IssueInv, IssuedInv
<1> QED
  BY <1>1, <1>2, <1>3 DEF IssueInv

-----------------------------------------------------------------------------
(* Issuing: the steps of a login, with any number of processes *)

LEMMA RestoreIssue ==
  ASSUME Inv, IssueInv, NEW t \in Tasks, Restore(t)
  PROVE  IssueInv'
<1>1. TypeOK /\ LockInv /\ pc[t] \in Awaiting /\ Steady /\ UNCHANGED rtoken
  BY DEF Inv, Restore, Acted, openiam, redis, Steady, Awaiting
<1>2. Growing /\ Others(t) /\ pc'[t] = "sent"
  BY <1>1, SteadyGrows, GotoOthers DEF Restore
<1>3. /\ \A u \in Tasks : u # t => mem'[u] = mem[u]
      /\ \A p \in Processes : p # Home[t] => SameToken(p)
      /\ ~own'[Home[t]]
  BY <1>1, NumberTypes DEF Restore, TypeOK, SameToken
<1>4. LifetimeInv'
  BY <1>1 DEF IssueInv, LifetimeInv, Steady
<1>5. OwnBounded'
  BY <1>1, <1>2, <1>3, BoundedFrame DEF IssueInv
<1>6. IssuedInv'
  <2>1. IssuedOf(t)'
    BY <1>2 DEF IssuedOf, Storing
  <2> QED
    BY <1>1, <1>2, <1>3, <2>1, IssuedFrame DEF IssueInv, SameToken
<1> QED
  BY <1>1, <1>2, <1>4, <1>5, <1>6, SharedKeep DEF IssueInv

LEMMA AuthorizeIssue ==
  ASSUME Inv, IssueInv, NEW t \in Tasks, Authorize(t)
  PROVE  IssueInv' /\ Growing
<1>1. TypeOK /\ LockInv /\ pc[t] \in Awaiting
  BY DEF Inv, Authorize, Awaiting
<1>2. \A s \in 1..MaxLogins :
        expiry'[s] = now + TokenTTL \/ expiry'[s] = expiry[s]
  BY <1>1 DEF Authorize, TypeOK
<1>3. ASSUME NEW s \in 1..MaxLogins
      PROVE  /\ expiry'[s] \in Nat /\ expiry[s] <= expiry'[s]
             /\ expiry'[s] <= now + TokenTTL
  <2>1. expiry[s] \in Nat
    BY <1>1 DEF TypeOK
  <2>2. expiry[s] <= now + TokenTTL
    BY DEF IssueInv, LifetimeInv
  <2>3. now + TokenTTL \in Nat
    BY <1>1, NumberTypes
  <2> QED
    BY <1>2, <2>1, <2>2, <2>3
<1>4. UNCHANGED <<now, misread, rtoken, token, expires, own, took, mem>>
  BY DEF Authorize, Acted, redis, processes
<1>5. Growing /\ LifetimeInv'
  BY <1>3, <1>4 DEF Growing, LifetimeInv
<1>6. OwnBounded' /\ SharedBounded'
  BY <1>1, <1>4, <1>5, OwnBoundedKeep, SharedKeep DEF IssueInv
<1>7. IssuedInv'
  <2>1. Others(t) /\ pc'[t] = "redirect"
    BY <1>1, GotoOthers DEF Authorize
  <2>2. IssuedOf(t)'
    BY <2>1 DEF IssuedOf, Storing
  <2> QED
    BY <1>1, <1>4, <1>5, <2>1, <2>2, IssuedFrame DEF IssueInv
<1> QED
  BY <1>5, <1>6, <1>7 DEF IssueInv

LEMMA AcceptIssue ==
  ASSUME Inv, IssueInv, MarginFits, NEW t \in Tasks, pc[t] \in InSession,
         NEW ttl \in Nat, Accept(t, ttl), Acted,
         UNCHANGED <<openiam, redis, jar, lock>>,
         mem[t].token \notin misread => ttl <= TokenTTL
  PROVE  IssueInv'
<1>1. /\ TypeOK /\ LockInv /\ pc[t] \in Awaiting /\ Steady
      /\ UNCHANGED rtoken
  BY DEF Inv, Acted, openiam, redis, Steady, InSession, Awaiting
<1>2. mem[t].token \in 1..MaxLogins
  BY InSessionToken DEF Inv
<1>3. Growing /\ Others(t) /\ pc'[t] = "setToken"
  BY <1>1, SteadyGrows, GotoOthers DEF Accept
<1>4. mem'[t].token = mem[t].token /\ mem'[t].ttl = EffectiveTTL(ttl)
  BY <1>1 DEF Accept, TypeOK, Mem
<1>5. /\ token'[Home[t]] = mem[t].token
      /\ expires'[Home[t]] = now + EffectiveTTL(ttl)
      /\ took'[Home[t]] = now - Issued(mem[t].token)
      /\ \A p \in Processes : p # Home[t] => SameToken(p)
      /\ \A u \in Tasks : u # t => mem'[u] = mem[u]
  BY <1>1, NumberTypes DEF Accept, TypeOK, SameToken
<1>6. /\ EffectiveTTL(ttl) \in Nat /\ now \in Nat /\ TokenTTL \in Nat
      /\ Margin \in Nat
  BY <1>1, NumberTypes, TTLType
<1>7. mem[t].token \notin misread =>
        /\ EffectiveTTL(ttl) + Margin <= TokenTTL
        /\ now + EffectiveTTL(ttl) + Margin <= now + TokenTTL
  BY <1>6, EffectiveLeavesMargin
<1>8. IssuedInv'
  <2>1. IssuedOf(t)'
    BY <1>1, <1>3, <1>4, <1>5, <1>7 DEF IssuedOf, Steady
  <2> QED
    BY <1>1, <1>3, <1>5, <2>1, IssuedFrame DEF IssueInv, SameToken
<1>9. OwnBounded'
  <2>1. Bounded(mem[t].token, now + EffectiveTTL(ttl), now - Issued(mem[t].token))
    BY <1>1, <1>2, <1>6, <1>7, BoundedNow
  <2>2. BoundedHere(Home[t])'
    BY <1>1, <1>5, <2>1 DEF BoundedHere, Bounded, Issued, Steady
  <2> QED
    BY <1>1, <1>3, <1>5, <2>2, BoundedFrame DEF IssueInv
<1>10. LifetimeInv'
  BY <1>1 DEF IssueInv, LifetimeInv, Steady
<1> QED
  BY <1>1, <1>3, <1>8, <1>9, <1>10, SharedKeep DEF IssueInv

\* What introspection says is a lifetime of at most what OpenIAM gives, unless
\* it is the absolute `exp`.
LEMMA IntrospectIssue ==
  ASSUME Inv, IssueInv, NEW t \in Tasks, Introspect(t)
  PROVE  IssueInv' /\ Growing
<1>1. TypeOK /\ LockInv /\ pc[t] \in Awaiting
  BY DEF Inv, Introspect, Awaiting
<1>2. mem[t].token \in 1..MaxLogins /\ expiry[mem[t].token] \in Nat
  BY InSessionToken DEF Inv, Introspect, InSession
<1>3. /\ misread \subseteq misread'
      /\ UNCHANGED <<now, expiry, rtoken, token, expires, own, took>>
      /\ \A u \in Tasks : u # t => mem'[u] = mem[u]
  BY <1>1 DEF Introspect, Acted, redis, processes, TypeOK
<1>4. Others(t) /\ pc'[t] = "told"
  BY <1>1, GotoOthers DEF Introspect
<1>5. Growing
  BY <1>1, <1>3, UnmovedGrows
<1>6. mem'[t].token = mem[t].token
  BY <1>1 DEF Introspect, TypeOK, Mem
<1>7. mem[t].token \in misread' \/ mem'[t].ttl <= TokenTTL
  <2> DEFINE ends == expiry[mem[t].token]
             says(ttl) == mem' = [mem EXCEPT ![t].ttl = ttl]
  <2>1. /\ now \in Nat /\ TokenTTL \in Nat /\ FallbackTTL <= TokenTTL
        /\ ends \in Nat /\ ends <= now + TokenTTL
    BY <1>1, <1>2, NumberTypes, ClientAssumption DEF IssueInv, LifetimeInv
  <2>2. \A ttl : says(ttl) => mem'[t].ttl = ttl
    BY <1>1 DEF TypeOK, Mem
  <2>3. \/ says(IF now < ends THEN ends - now ELSE 0)
        \/ mem[t].token \in misread'
        \/ says(FallbackTTL)
    BY DEF Introspect
  <2>4. (IF now < ends THEN ends - now ELSE 0) <= TokenTTL
    BY <2>1
  <2> HIDE DEF ends, says
  <2> QED
    BY <2>1, <2>2, <2>3, <2>4
<1>8. IssuedInv'
  <2>1. IssuedOf(t)'
    BY <1>4, <1>6, <1>7 DEF IssuedOf, Storing
  <2> QED
    BY <1>1, <1>3, <1>4, <1>5, <2>1, IssuedFrame DEF IssueInv
<1>9. LifetimeInv'
  BY <1>3 DEF IssueInv, LifetimeInv
<1> QED
  BY <1>1, <1>3, <1>5, <1>8, <1>9, OwnBoundedKeep, SharedKeep DEF IssueInv

LEMMA ToldIssue ==
  ASSUME Inv, IssueInv, MarginFits, NEW t \in Tasks, Told(t)
  PROVE  IssueInv'
<1>1. mem[t].ttl \in Nat /\ pc[t] \in InSession
  BY NumberTypes DEF Inv, Told, InSession
<1>2. mem[t].token \notin misread => mem[t].ttl <= TokenTTL
  BY DEF Told, IssueInv, IssuedInv, IssuedOf
<1> QED
  BY <1>1, <1>2, AcceptIssue DEF Told

LEMMA SetTokenIssue ==
  ASSUME Inv, IssueInv, NEW t \in Tasks, SetToken(t)
  PROVE  IssueInv'
<1>1. /\ TypeOK /\ LockInv /\ pc[t] \in Awaiting /\ Steady
      /\ UNCHANGED <<mem, token, expires, own, took>>
  BY DEF Inv, SetToken, Acted, openiam, processes, Steady, Awaiting
<1>2. mem[t].token \in 1..MaxLogins /\ pc[t] \in Storing
  BY InSessionToken DEF Inv, SetToken, Storing
<1>3. now \in Nat /\ TokenTTL \in Nat /\ Margin \in Nat /\ mem[t].ttl \in Nat
  BY <1>1, NumberTypes
<1>4. Others(t) /\ pc'[t] = "setCookies" /\ Growing
  BY <1>1, GotoOthers, SteadyGrows DEF SetToken
<1>5. IssuedOf(t)
  BY DEF IssueInv, IssuedInv
<1>6. IssuedInv'
  <2>1. IssuedOf(t)'
    BY <1>1, <1>2, <1>4, <1>5 DEF IssuedOf, Steady
  <2> QED
    BY <1>1, <1>4, <2>1, IssuedFrame DEF IssueInv
<1>7. SharedBounded'
  <2>1. mem[t].token \in misread \/ now + mem[t].ttl + Margin <= now + TokenTTL
    BY <1>2, <1>3, <1>5 DEF IssuedOf
  <2>2. Bounded(mem[t].token, now + mem[t].ttl, now - Issued(mem[t].token))
    BY <1>1, <1>2, <1>3, <2>1, BoundedNow
  <2>3. /\ rtoken'.val = mem[t].token /\ rtoken'.until = now + mem[t].ttl
        /\ rtoken'.took = now - Issued(mem[t].token)
    BY DEF SetToken
  <2> QED
    BY <1>1, <1>2, <2>2, <2>3 DEF SharedBounded, Bounded, Issued, Steady
<1>8. LifetimeInv'
  BY <1>1 DEF IssueInv, LifetimeInv, Steady
<1> QED
  BY <1>1, <1>4, <1>6, <1>7, <1>8, OwnBoundedKeep DEF IssueInv

LEMMA SetCookiesIssue ==
  ASSUME Inv, IssueInv, NEW t \in Tasks, SetCookies(t)
  PROVE  IssueInv'
<1>1. /\ TypeOK /\ LockInv /\ pc[t] \in Awaiting /\ Steady
      /\ UNCHANGED <<rtoken, token, expires, own>>
  BY DEF Inv, SetCookies, Acted, openiam, Steady, Awaiting
<1>2. mem[t].token \in 1..MaxLogins /\ pc[t] \in Storing
  BY InSessionToken DEF Inv, SetCookies, Storing
<1>3. /\ took'[Home[t]] = now - Issued(mem[t].token)
      /\ \A p \in Processes : p # Home[t] => SameToken(p)
      /\ \A u \in Tasks : u # t => mem'[u] = mem[u]
  BY <1>1, NumberTypes DEF SetCookies, SameToken, TypeOK
<1>4. Others(t) /\ pc'[t] = "sent" /\ Growing
  BY <1>1, GotoOthers, SteadyGrows DEF SetCookies
<1>5. IssuedInv'
  <2>1. IssuedOf(t)'
    BY <1>4 DEF IssuedOf, Storing
  <2> QED
    BY <1>1, <1>3, <1>4, <2>1, IssuedFrame DEF IssueInv
<1>6. OwnBounded'
  <2>1. token[Home[t]] = mem[t].token /\ expires[Home[t]] \in Nat
    BY <1>1, <1>2, NumberTypes DEF Inv, LoginInv, LoginOf, StoringOf
  <2>2. \/ mem[t].token \in misread
        \/ expires[Home[t]] + Margin <= now + TokenTTL
    BY <1>2 DEF IssueInv, IssuedInv, IssuedOf
  <2>3. Bounded(mem[t].token, expires[Home[t]], now - Issued(mem[t].token))
    BY <1>1, <1>2, <2>1, <2>2, BoundedNow
  <2>4. BoundedHere(Home[t])'
    BY <1>1, <1>3, <2>1, <2>3 DEF BoundedHere, Bounded, Issued, Steady
  <2> QED
    BY <1>1, <1>3, <1>4, <2>4, BoundedFrame DEF IssueInv
<1>7. LifetimeInv'
  BY <1>1 DEF IssueInv, LifetimeInv, Steady
<1> QED
  BY <1>1, <1>4, <1>5, <1>6, <1>7, SharedKeep DEF IssueInv

LEMMA CrashIssue ==
  ASSUME Inv, IssueInv, NEW p \in Processes, Crash(p)
  PROVE  IssueInv'
<1>1. TypeOK /\ Steady /\ UNCHANGED rtoken
  BY DEF Inv, Crash, openiam, redis, Steady
<1>2. Growing
  BY <1>1, SteadyGrows
<1>3. LifetimeInv' /\ SharedBounded'
  BY <1>1, <1>2, SharedKeep DEF IssueInv, LifetimeInv, Steady
<1>4. ASSUME NEW q \in Processes, own'[q] PROVE BoundedHere(q)'
  <2>1. q # p /\ SameToken(q)
    BY <1>1, <1>4 DEF Crash, TypeOK, SameToken
  <2> QED
    BY <1>1, <1>2, <1>4, <2>1, HereKeep DEF IssueInv, OwnBounded, SameToken
<1>5. ASSUME NEW u \in Tasks PROVE IssuedOf(u)'
  <2>1. CASE Home[u] = p
    <3>1. pc'[u] = "idle"
      BY <2>1 DEF Crash
    <3> QED
      BY <3>1 DEF IssuedOf, Storing
  <2>2. CASE Home[u] # p
    <3>1. /\ pc'[u] = pc[u] /\ mem'[u] = mem[u]
          /\ expires'[Home[u]] = expires[Home[u]]
      BY <1>1, <2>2, NumberTypes DEF Crash, TypeOK
    <3>2. now <= now' /\ now' \in Nat
      BY <1>1, NumberTypes DEF Steady
    <3> QED
      BY <1>1, <1>2, <3>1, <3>2, IssuedKeep DEF IssueInv, Growing
  <2> QED
    BY <2>1, <2>2
<1> QED
  BY <1>3, <1>4, <1>5 DEF IssueInv, OwnBounded, IssuedInv

LEMMA IssueStep ==
  ASSUME Inv, IssueInv, MarginFits, [Next]_vars
  PROVE  IssueInv'
<1>1. TypeOK /\ now \in Nat /\ now <= now
  BY NumberTypes DEF Inv
<1>2. ASSUME NEW t \in Tasks, NEW label, Goto(t, label), Acted,
             UNCHANGED <<expiry, misread, rtoken, token, expires, own, took>>,
             \A u \in Tasks : u # t => mem'[u] = mem[u],
             label \notin {"told"} \cup Storing
      PROVE  IssueInv'
  <2>1. Others(t) /\ pc'[t] = label
    BY <1>1, <1>2, GotoOthers
  <2>2. \A u \in Tasks : pc'[u] \in {"told"} \cup Storing =>
          pc'[u] = pc[u] /\ mem'[u] = mem[u]
    BY <1>2, <2>1 DEF Others
  <2> QED
    BY <1>1, <1>2, <2>2, QuietIssue DEF Acted
<1>3. ASSUME NEW t \in Tasks, Call(t) \/ Enter(t) \/ Respond(t) PROVE IssueInv'
  BY <1>2, <1>3 DEF Call, Enter, Respond, openiam, redis, processes, Storing
<1>4. ASSUME NEW t \in Tasks, RedisGet(t) \/ RedisTtl(t) \/ RedisCookies(t)
      PROVE  IssueInv'
  <2>1. \A u \in Tasks : u # t => mem'[u] = mem[u]
    BY <1>1, <1>4 DEF RedisGet, RedisTtl, RedisCookies, StartLogin, TypeOK
  <2>2. UNCHANGED <<expiry, misread, rtoken, token, expires, own, took>> /\ Acted
    BY <1>4 DEF RedisGet, RedisTtl, RedisCookies, StartLogin, openiam, redis,
       processes
  <2>3. \E label \in {"ttl", "cookies", "restore", "post"} : Goto(t, label)
    BY <1>4 DEF RedisGet, RedisTtl, RedisCookies, StartLogin
  <2> QED
    BY <1>2, <2>1, <2>2, <2>3 DEF Storing
<1>5. ASSUME NEW t \in Tasks, LoginPost(t) \/ Raise(t)
      PROVE  IssueInv'
  <2>1. \A u \in Tasks : u # t => mem'[u] = mem[u]
    BY <1>1, <1>5 DEF LoginPost, Raise, TypeOK
  <2> QED
    BY <1>2, <1>5, <2>1 DEF LoginPost, Raise, openiam, redis, processes, Storing
<1>6. ASSUME NEW t \in Tasks, Redirect(t) PROVE IssueInv'
  <2>1. CASE Accept(t, TokenTTL)
    <3>1. TokenTTL \in Nat /\ TokenTTL <= TokenTTL
      BY ClientAssumption
    <3> QED
      BY <1>6, <2>1, <3>1, AcceptIssue DEF Redirect, InSession
  <2>2. CASE Goto(t, "introspect") /\ UNCHANGED <<token, expires, own, took, mem>>
    BY <1>2, <1>6, <2>2 DEF Redirect, openiam, redis, Storing
  <2> QED
    BY <1>6, <2>1, <2>2 DEF Redirect
<1>7. CASE Tick
  <2>1. now <= now' /\ now' \in Nat
    BY <1>1, <1>7 DEF Tick
  <2> QED
    BY <1>1, <1>7, <2>1, QuietIssue DEF Tick, openiam, redis, processes, tasks
<1>8. CASE UNCHANGED vars
  BY <1>1, <1>8, QuietIssue DEF vars, openiam, redis, processes, tasks
<1> QED
  BY <1>3, <1>4, <1>5, <1>6, <1>7, <1>8, RestoreIssue, AuthorizeIssue,
     IntrospectIssue, ToldIssue, SetTokenIssue, SetCookiesIssue, CrashIssue
  DEF Next, Continue

-----------------------------------------------------------------------------
(* Reading: the steps through Redis, with one process *)

\* With one process the task that awaits an answer is the only one.
LEMMA Alone ==
  ASSUME LockInv, SingleProcess, NEW t \in Tasks, pc[t] \in Awaiting,
         NEW u \in Tasks, pc[u] \in Awaiting
  PROVE  u = t
<1>1. Home[t] = Home[u]
  BY ClientAssumption DEF SingleProcess
<1> QED
  BY <1>1, OneRefreshPerProcess

LEMMA ReadingFrame ==
  ASSUME LockInv, SingleProcess, NEW t \in Tasks, pc[t] \in Awaiting, Others(t),
         ReadingOf(t)'
  PROVE  ReadingInv'
<1> SUFFICES ASSUME NEW u \in Tasks, u # t PROVE ReadingOf(u)'
  BY DEF ReadingInv
<1>1. pc'[u] \notin Awaiting
  BY Alone DEF Others
<1> QED
  BY <1>1 DEF ReadingOf, Awaiting

\* A step that leaves the reader and what it reads alone.
LEMMA ReadKeep ==
  ASSUME ReadInv, UNCHANGED <<expiry, misread, rtoken, token, expires, own, took>>,
         \A u \in Tasks : pc'[u] \in {"ttl", "cookies", "restore"} =>
           pc'[u] = pc[u] /\ mem'[u] = mem[u]
  PROVE  ReadInv'
<1>1. ASSUME NEW u \in Tasks PROVE ReadingOf(u)'
  BY DEF ReadInv, ReadingInv, ReadingOf, Bounded
<1>2. RestoredBounded'
  BY DEF ReadInv, RestoredBounded, BoundedHere, Bounded
<1> QED
  BY <1>1, <1>2 DEF ReadInv, ReadingInv

LEMMA RestoredKeep ==
  ASSUME TypeOK, Growing, RestoredBounded, UNCHANGED <<token, expires, own, took>>
  PROVE  RestoredBounded'
BY HereKeep DEF RestoredBounded, SameToken

\* A task under the lock that does not go on reading.
LEMMA ReadingEnds ==
  ASSUME TypeOK, LockInv, SingleProcess, NEW t \in Tasks, NEW label,
         pc[t] \in Awaiting, Goto(t, label),
         label \notin {"ttl", "cookies", "restore"}
  PROVE  ReadingInv'
<1>1. Others(t) /\ pc'[t] = label
  BY GotoOthers
<1>2. ReadingOf(t)'
  BY <1>1 DEF ReadingOf
<1> QED
  BY <1>1, <1>2, ReadingFrame

LEMMA RedisGetRead ==
  ASSUME Inv, IssueInv, SingleProcess, NEW t \in Tasks, RedisGet(t)
  PROVE  ReadingInv'
<1>1. TypeOK /\ LockInv /\ pc[t] \in Awaiting /\ UNCHANGED rtoken
  BY DEF Inv, RedisGet, redis, Awaiting
<1>2. CASE StartLogin(t)
  BY <1>1, <1>2, ReadingEnds DEF StartLogin
<1>3. CASE /\ Live(rtoken) /\ mem' = [mem EXCEPT ![t].token = rtoken.val]
           /\ Goto(t, "ttl") /\ UNCHANGED <<processes, lock>>
  <2>1. Others(t) /\ pc'[t] = "ttl"
    BY <1>1, <1>3, GotoOthers
  <2>2. mem'[t].token = rtoken.val
    BY <1>1, <1>3 DEF TypeOK, Mem
  <2>3. rtoken.val # 0
    BY <1>1, <1>3, NumberTypes DEF IssueInv, SharedBounded, Live
  <2>4. ReadingOf(t)'
    BY <1>1, <2>1, <2>2, <2>3 DEF ReadingOf
  <2> QED
    BY <1>1, <2>1, <2>4, ReadingFrame
<1> QED
  BY <1>2, <1>3 DEF RedisGet

\* The lifetime Redis answers with belongs to the token it answered before.
LEMMA RedisTtlRead ==
  ASSUME Inv, IssueInv, ReadInv, SingleProcess, NEW t \in Tasks, RedisTtl(t)
  PROVE  ReadingInv'
<1>1. TypeOK /\ LockInv /\ pc[t] \in Awaiting /\ Steady
  BY DEF Inv, RedisTtl, Acted, openiam, Steady, Awaiting
<1>2. CASE StartLogin(t)
  BY <1>1, <1>2, ReadingEnds DEF StartLogin
<1>3. CASE Live(rtoken) /\ Goto(t, "cookies")
  <2>1. Others(t) /\ pc'[t] = "cookies"
    BY <1>1, <1>3, GotoOthers
  <2>2. ~StartLogin(t)
    BY <2>1, <1>1, GotoOthers DEF StartLogin
  <2>3. /\ mem'[t].token = mem[t].token /\ mem'[t].ttl = rtoken.until - now
        /\ mem'[t].since = now - rtoken.took
    <3> DEFINE told == [mem[t] EXCEPT !.ttl = rtoken.until - now,
                                      !.since = now - rtoken.took]
    <3>1. mem' = [mem EXCEPT ![t] = told]
      BY <2>2 DEF RedisTtl
    <3>2. mem[t] \in Mem /\ DOMAIN mem = Tasks
      BY <1>1 DEF TypeOK
    <3>3. /\ told.token = mem[t].token /\ told.ttl = rtoken.until - now
          /\ told.since = now - rtoken.took
      BY <3>2 DEF Mem
    <3>4. mem'[t] = told
      <4> HIDE DEF told
      <4> QED
        BY <3>1, <3>2
    <3> QED
      BY <3>3, <3>4
  <2>4. mem[t].token = rtoken.val /\ rtoken.val # 0
    BY DEF RedisTtl, ReadInv, ReadingInv, ReadingOf
  <2>5. /\ rtoken.until \in Nat /\ rtoken.took \in Int /\ now \in Nat
        /\ Margin \in Nat /\ expiry[rtoken.val] \in Nat
    BY <1>1, <2>4, NumberTypes
  <2>6. rtoken.val \in misread \/ rtoken.until + Margin <= expiry[rtoken.val] + rtoken.took
    BY <2>4 DEF IssueInv, SharedBounded, Bounded
  <2>7. rtoken.until - now >= 1
    BY <1>3, <2>5 DEF Live
  <2>8. rtoken.until + Margin <= expiry[rtoken.val] + rtoken.took =>
          (now - rtoken.took) + (rtoken.until - now) + Margin
            <= expiry[rtoken.val] + 0
    BY <2>5
  <2>9. ReadingOf(t)'
    BY <1>1, <2>1, <2>3, <2>4, <2>6, <2>7, <2>8 DEF ReadingOf, Bounded, Steady
  <2> QED
    BY <1>1, <2>1, <2>9, ReadingFrame
<1> QED
  BY <1>2, <1>3 DEF RedisTtl

LEMMA RedisCookiesRead ==
  ASSUME Inv, ReadInv, SingleProcess, NEW t \in Tasks, RedisCookies(t)
  PROVE  ReadingInv'
<1>1. TypeOK /\ LockInv /\ pc[t] \in Awaiting /\ Steady
  BY DEF Inv, RedisCookies, Acted, openiam, Steady, Awaiting
<1>2. Others(t) /\ pc'[t] = "restore"
  BY <1>1, GotoOthers DEF RedisCookies
<1>3. /\ mem'[t].token = mem[t].token /\ mem'[t].ttl = mem[t].ttl
      /\ mem'[t].since = mem[t].since
  BY <1>1 DEF RedisCookies, TypeOK, Mem
<1>4. ReadingOf(t)'
  BY <1>1, <1>2, <1>3 DEF RedisCookies, ReadInv, ReadingInv, ReadingOf, Bounded,
     Steady
<1> QED
  BY <1>1, <1>2, <1>4, ReadingFrame

\* What a task takes from Redis is bounded when it begins to count, and good if
\* it came within the margin.
LEMMA TakenGood ==
  ASSUME TypeOK, ReadInv, NEW t \in Tasks, pc[t] = "restore"
  PROVE  /\ mem[t].token # 0
         /\ Bounded(mem[t].token, now + mem[t].ttl, now - mem[t].since)
         /\ mem[t].token \notin misread /\ now - mem[t].since <= Margin =>
              now < expiry[mem[t].token]
<1>1. /\ mem[t].token # 0 /\ mem[t].ttl >= 1
      /\ Bounded(mem[t].token, mem[t].since + mem[t].ttl, 0)
  BY DEF ReadInv, ReadingInv, ReadingOf
<1>2. /\ now \in Nat /\ mem[t].ttl \in Nat /\ mem[t].since \in Int
      /\ Margin \in Nat /\ expiry[mem[t].token] \in Nat
  BY <1>1, NumberTypes
<1>3. \/ mem[t].token \in misread
      \/ mem[t].since + mem[t].ttl + Margin <= expiry[mem[t].token] + 0
  BY <1>1 DEF Bounded
<1>4. Bounded(mem[t].token, now + mem[t].ttl, now - mem[t].since)
  BY <1>2, <1>3 DEF Bounded
<1>5. mem[t].token \notin misread /\ now - mem[t].since <= Margin =>
        now < expiry[mem[t].token]
  BY <1>1, <1>2, <1>3
<1> QED
  BY <1>1, <1>4, <1>5

LEMMA RestoreRead ==
  ASSUME Inv, ReadInv, SingleProcess, NEW t \in Tasks, Restore(t)
  PROVE  ReadInv'
<1>1. TypeOK /\ LockInv /\ pc[t] \in Awaiting /\ Steady
  BY DEF Inv, Restore, Acted, openiam, Steady, Awaiting
<1>2. ReadingInv'
  BY <1>1, ReadingEnds DEF Restore
<1>3. BoundedHere(Home[t])'
  <2>1. /\ token'[Home[t]] = mem[t].token /\ expires'[Home[t]] = now + mem[t].ttl
        /\ took'[Home[t]] = now - mem[t].since
    BY <1>1, NumberTypes DEF Restore, TypeOK
  <2>2. Bounded(mem[t].token, now + mem[t].ttl, now - mem[t].since)
    BY <1>1, TakenGood DEF Restore
  <2> QED
    BY <1>1, <2>1, <2>2 DEF BoundedHere, Bounded, Steady
<1>4. \A p \in Processes : p = Home[t]
  BY <1>1, NumberTypes DEF SingleProcess
<1> QED
  BY <1>2, <1>3, <1>4 DEF ReadInv, RestoredBounded

LEMMA ReadStep ==
  ASSUME Inv, IssueInv, ReadInv, SingleProcess, [Next]_vars
  PROVE  ReadInv'
<1> TypeOK /\ LockInv
  BY DEF Inv
<1>1. ASSUME NEW t \in Tasks, Call(t) \/ Enter(t) \/ Respond(t) PROVE ReadInv'
  <2>1. /\ UNCHANGED <<expiry, misread, rtoken, token, expires, own, took, mem>>
        /\ \E label \in {"sent", "waiting", "get", "idle"} : Goto(t, label)
    BY <1>1 DEF Call, Enter, Respond, openiam, redis, processes
  <2>2. \A u \in Tasks : pc'[u] \in {"ttl", "cookies", "restore"} => pc'[u] = pc[u]
    BY <2>1 DEF Goto, TypeOK
  <2> QED
    BY <2>1, <2>2, ReadKeep
<1>2. ASSUME NEW t \in Tasks, LoginPost(t) \/ SetToken(t) \/ Raise(t)
      PROVE  ReadInv'
  <2>1. Steady /\ UNCHANGED <<token, expires, own, took>>
    BY <1>2 DEF LoginPost, SetToken, Raise, Acted, openiam, processes, Steady
  <2>2. ReadingInv'
    BY <1>2, ReadingEnds DEF LoginPost, SetToken, Raise, Awaiting
  <2> QED
    BY <2>1, <2>2, RestoredKeep, SteadyGrows DEF ReadInv
<1>3. ASSUME NEW t \in Tasks, RedisGet(t) \/ RedisTtl(t) \/ RedisCookies(t)
      PROVE  ReadInv'
  <2>1. Steady /\ UNCHANGED <<token, expires, own, took>>
    BY <1>3 DEF RedisGet, RedisTtl, RedisCookies, StartLogin, Acted, openiam,
       processes, Steady
  <2>2. RestoredBounded'
    BY <2>1, RestoredKeep, SteadyGrows DEF ReadInv
  <2> QED
    BY <1>3, <2>2, RedisGetRead, RedisTtlRead, RedisCookiesRead DEF ReadInv
<1>4. ASSUME NEW t \in Tasks, Authorize(t) \/ Introspect(t) PROVE ReadInv'
  <2>1. UNCHANGED <<token, expires, own, took>> /\ Growing
    BY <1>4, AuthorizeIssue, IntrospectIssue DEF Authorize, Introspect, processes
  <2>2. ReadingInv'
    BY <1>4, ReadingEnds DEF Authorize, Introspect, Awaiting
  <2> QED
    BY <2>1, <2>2, RestoredKeep DEF ReadInv
\* The process's token is its own login's again.
<1>5. ASSUME NEW t \in Tasks, own'[Home[t]], ReadingInv' PROVE ReadInv'
  <2>1. \A p \in Processes : p = Home[t]
    BY NumberTypes, <1>5 DEF SingleProcess
  <2> QED
    BY <1>5, <2>1 DEF ReadInv, RestoredBounded
<1>6. ASSUME NEW t \in Tasks, NEW ttl, pc[t] \in Awaiting, Accept(t, ttl)
      PROVE  ReadInv'
  <2>1. ReadingInv'
    BY <1>6, ReadingEnds DEF Accept
  <2>2. own'[Home[t]]
    BY <1>6, NumberTypes DEF Accept, TypeOK
  <2> QED
    BY <1>5, <2>1, <2>2
<1>7. ASSUME NEW t \in Tasks, Redirect(t) PROVE ReadInv'
  <2>1. CASE Accept(t, TokenTTL)
    BY <1>6, <1>7, <2>1 DEF Redirect, Awaiting
  <2>2. CASE Goto(t, "introspect") /\ UNCHANGED <<token, expires, own, took, mem>>
    <3>1. Steady
      BY <1>7 DEF Redirect, Acted, openiam, Steady
    <3>2. ReadingInv'
      BY <1>7, <2>2, ReadingEnds DEF Redirect, Awaiting
    <3> QED
      BY <2>2, <3>1, <3>2, RestoredKeep, SteadyGrows DEF ReadInv
  <2> QED
    BY <1>7, <2>1, <2>2 DEF Redirect
<1>8. ASSUME NEW t \in Tasks, Told(t) PROVE ReadInv'
  BY <1>6, <1>8 DEF Told, Awaiting
<1>9. ASSUME NEW t \in Tasks, SetCookies(t) PROVE ReadInv'
  <2>1. ReadingInv'
    BY <1>9, ReadingEnds DEF SetCookies, Awaiting
  <2>2. own'[Home[t]]
    BY <1>9 DEF SetCookies, Inv, LoginInv, LoginOf, StoringOf, Storing
  <2> QED
    BY <1>5, <2>1, <2>2
<1>10. ASSUME NEW p \in Processes, Crash(p) PROVE ReadInv'
  <2>1. \A t \in Tasks : pc'[t] = "idle"
    BY <1>10, NumberTypes DEF Crash, SingleProcess
  <2>2. \A q \in Processes : token'[q] = 0
    BY <1>10 DEF Crash, SingleProcess, TypeOK
  <2> QED
    BY <2>1, <2>2 DEF ReadInv, ReadingInv, ReadingOf, RestoredBounded,
       BoundedHere, Bounded
<1>11. CASE Tick \/ UNCHANGED vars
  BY <1>11, ReadKeep DEF Tick, vars, openiam, redis, processes, tasks
<1> QED
  BY <1>1, <1>2, <1>3, <1>4, <1>7, <1>8, <1>9, <1>10, <1>11, RestoreRead
  DEF Next, Continue

-----------------------------------------------------------------------------
(* The theorems *)

LEMMA IssueCorrect == ASSUME MarginFits PROVE Spec => []IssueInv
<1>1. Init => IssueInv
  BY InitIssue
<1>2. Inv /\ IssueInv /\ [Next]_vars => IssueInv'
  BY IssueStep
<1> QED
  BY <1>1, <1>2, InvCorrect, PTL DEF Spec

LEMMA ReadCorrect == ASSUME SingleProcess, MarginFits PROVE Spec => []ReadInv
<1>1. Init => ReadInv
  BY InitIssue
<1>2. Inv /\ IssueInv /\ ReadInv /\ [Next]_vars => ReadInv'
  BY ReadStep
<1> QED
  BY <1>1, <1>2, InvCorrect, IssueCorrect, PTL DEF Spec

\* A token the process believes in, and whose deadline is bounded, is good.
LEMMA SentFromMemory ==
  ASSUME TypeOK, NEW t \in Tasks, Sends(t), Call(t) \/ Enter(t),
         BoundedHere(Home[t]), InTime(Home[t])'
  PROVE  token'[Home[t]] # 0 /\ now < expiry'[token'[Home[t]]]
<1>1. Fresh(Home[t])
  <2>1. \A label : Goto(t, label) => label = "sent"
    BY DEF Goto, TypeOK, Sends
  <2> QED
    BY <2>1 DEF Call, Enter, NeedsToken
<1>2. UNCHANGED <<token, expiry, misread, took>>
  BY DEF Call, Enter, openiam, processes
<1>3. /\ token[Home[t]] \in Session /\ expires[Home[t]] \in Nat
      /\ took[Home[t]] \in Int
  BY NumberTypes
<1>4. now < expiry[token[Home[t]]]
  BY <1>1, <1>2, <1>3, BoundedGood DEF InTime, Fresh, BoundedHere
<1> QED
  BY <1>1, <1>2, <1>4 DEF Fresh

\* The first request after a login leaves without another check of the time.
LEMMA SentAfterLogin ==
  ASSUME Inv, MarginFits, NEW t \in Tasks, SetCookies(t), InTime(Home[t])'
  PROVE  token'[Home[t]] # 0 /\ now < expiry'[token'[Home[t]]]
<1>1. TypeOK /\ Home[t] \in Processes /\ UNCHANGED <<token, expiry>>
  BY NumberTypes DEF Inv, SetCookies, openiam
<1>2. mem[t].token \in 1..MaxLogins /\ expiry[mem[t].token] \in Nat
  BY InSessionToken DEF Inv, SetCookies, Storing
<1>3. mem[t].token = token[Home[t]]
  BY DEF SetCookies, Inv, LoginInv, LoginOf, StoringOf, Storing
<1>4. now - (expiry[mem[t].token] - TokenTTL) <= Margin
  BY <1>1 DEF SetCookies, InTime, Issued, TypeOK
<1>5. /\ TokenTTL \in Nat /\ Margin \in Nat /\ now \in Nat /\ Margin < TokenTTL
  BY <1>1, NumberTypes DEF MarginFits
<1>6. now < expiry[mem[t].token]
  BY <1>2, <1>4, <1>5
<1> QED
  BY <1>1, <1>2, <1>3, <1>6

\* The token of the process's own login, for any number of processes: what
\* other processes write to Redis cannot make it outlive its session, and
\* neither can the answers that brought it if they took no longer than the
\* margin.  A lifetime read from an absolute `exp` is the one exception.
THEOREM OwnFreshWhenSentCorrect ==
  ASSUME MarginFits PROVE Spec => OwnFreshWhenSent
<1> DEFINE A == \A t \in Tasks : Sends(t) /\ own'[Home[t]] /\ InTime(Home[t])' =>
                  token'[Home[t]] # 0 /\ now < expiry'[token'[Home[t]]]
<1>1. Inv /\ IssueInv /\ [Next]_vars => [A]_vars
  <2> SUFFICES ASSUME Inv, IssueInv, Next, NEW t \in Tasks, Sends(t),
                      own'[Home[t]], InTime(Home[t])'
               PROVE  token'[Home[t]] # 0 /\ now < expiry'[token'[Home[t]]]
    OBVIOUS
  <2>1. TypeOK /\ Home[t] \in Processes
    BY NumberTypes DEF Inv
  <2>2. CASE Call(t) \/ Enter(t)
    <3>1. BoundedHere(Home[t])
      BY <2>1, <2>2 DEF Call, Enter, processes, IssueInv, OwnBounded
    <3> QED
      BY <2>1, <2>2, <3>1, SentFromMemory
  <2>3. CASE Restore(t)
    BY <2>1, <2>3 DEF Restore, TypeOK
  <2> QED
    BY <2>1, <2>2, <2>3, SentAfterLogin, SendingSteps
<1> QED
  BY <1>1, InvCorrect, IssueCorrect, PTL DEF Spec, OwnFreshWhenSent

\* The shared token, for any number of processes: if it was stored within the
\* margin, Redis has dropped it by the time OpenIAM stops accepting it, unless
\* its lifetime was read from an absolute `exp`.
THEOREM SharedFreshCorrect == ASSUME MarginFits PROVE Spec => []SharedFresh
<1>1. TypeOK /\ IssueInv => SharedFresh
  <2> SUFFICES ASSUME TypeOK, IssueInv, Live(rtoken), rtoken.took <= Margin,
                      rtoken.val \notin misread
               PROVE  rtoken.val # 0 /\ now < expiry[rtoken.val]
    BY DEF SharedFresh
  <2>1. /\ now \in Nat /\ rtoken.until \in Nat /\ now < rtoken.until
        /\ rtoken.val \in Session /\ rtoken.took \in Int
    BY NumberTypes DEF Live
  <2>2. rtoken.val # 0
    BY <2>1 DEF IssueInv, SharedBounded
  <2> QED
    BY <2>1, <2>2, BoundedGood DEF IssueInv, SharedBounded
<1> QED
  BY <1>1, TypeCorrect, IssueCorrect, PTL

\* A deployment of one process sends no token OpenIAM has stopped accepting, as
\* long as the answers that brought it took no longer than the margin together:
\* through both caches and over restarts, the deadline the process keeps is no
\* later than the token's, but for one read from an absolute `exp`.
THEOREM FreshWhenSentCorrect ==
  ASSUME SingleProcess, MarginFits PROVE Spec => FreshWhenSent
<1> DEFINE A == \A t \in Tasks : Sends(t) /\ InTime(Home[t])' =>
                  token'[Home[t]] # 0 /\ now < expiry'[token'[Home[t]]]
<1>1. Inv /\ IssueInv /\ ReadInv /\ [Next]_vars => [A]_vars
  <2> SUFFICES ASSUME Inv, IssueInv, ReadInv, Next, NEW t \in Tasks, Sends(t),
                      InTime(Home[t])'
               PROVE  token'[Home[t]] # 0 /\ now < expiry'[token'[Home[t]]]
    OBVIOUS
  <2>1. TypeOK /\ Home[t] \in Processes
    BY NumberTypes DEF Inv
  <2>2. CASE Call(t) \/ Enter(t)
    <3>1. BoundedHere(Home[t])
      BY <2>1 DEF IssueInv, OwnBounded, ReadInv, RestoredBounded
    <3> QED
      BY <2>1, <2>2, <3>1, SentFromMemory
  <2>3. CASE Restore(t)
    <3>1. /\ token'[Home[t]] = mem[t].token /\ UNCHANGED <<expiry, misread>>
          /\ took'[Home[t]] = now - mem[t].since
      BY <2>1, <2>3 DEF Restore, TypeOK, openiam
    <3> QED
      BY <2>1, <2>3, <3>1, TakenGood DEF Restore, InTime
  <2> QED
    BY <2>1, <2>2, <2>3, SentAfterLogin, SendingSteps
<1> QED
  BY <1>1, InvCorrect, IssueCorrect, ReadCorrect, PTL DEF Spec, FreshWhenSent
=============================================================================
