----------------------- MODULE DiagnosticFunnelProofs -----------------------
(***************************************************************************)
(* Theorems about DiagnosticFunnel, for every set of users, logs, policies *)
(* and bounds.                                                             *)
(***************************************************************************)
EXTENDS DiagnosticFunnel, SequenceTheorems, FiniteSetTheorems, TLAPS

\* How many verdicts a run has when it waits for a call of each step.
Position(p) ==
  CASE p \in {"availability", "systems"} -> 0
    [] p \in {"account", "status"}      -> 1
    [] p = "auth"                        -> 2
    [] OTHER                             -> 3

\* Verdicts are in the funnel's order and a waiting run is at the step after
\* its last verdict.
OrderInv ==
  /\ Running => Len(verdicts) = Position(pc)
  /\ \A i \in 1..Len(verdicts) : verdicts[i].step = StepNames[i]

\* What a finished run publishes is made of its verdicts and its link.
ResultInv ==
  Done => verdicts # <<>> /\ result = Finalize(verdicts, link)

\* TypeOK is inductive together with the order of the verdicts.
TypeInv == TypeOK /\ OrderInv

-----------------------------------------------------------------------------
(* The functions of the connector and the tables *)

LEMMA StepNamesLemma ==
  /\ Len(StepNames) = 4
  /\ StepNames[1] = "system_availability" /\ StepNames[2] = "account_status"
  /\ StepNames[3] = "auth_events" /\ StepNames[4] = "authorization"
  /\ \A i \in 1..4 : StepNames[i] \in Steps
  /\ Steps = {"system_availability", "account_status", "auth_events", "authorization"}
BY DEF StepNames, Steps

\* Every cause a step can report is one of the known causes.
LEMMA CausesLemma ==
  /\ \A u, t : UserStatus(u, t) \in
       {"locked", "deprovisioned", "disabled", "password_expired", "active"}
  /\ \A m, x, r : MissingCause(m, x, r) \in
       {"access_revoked", "access_expired", "missing_role"}
  /\ \A e : e.action \in AuthActions => AuthCause(e) \in Causes
BY DEF UserStatus, MissingCause, AuthCause, AuthActions, Causes, None

\* The outcome of any verdict is an outcome, whatever its step and cause.
LEMMA OutcomeLemma == \A v : OutcomeOf(v) \in Outcome
BY DEF OutcomeOf, ResolveFailOutcome, AccountStatusOutcome, AuthorizationOutcome,
       Outcome

\* Appending one verdict keeps the sequence typed and in order.
LEMMA AppendLemma ==
  ASSUME NEW s \in Seq(Verdict), NEW v \in Verdict, Len(s) < 4
  PROVE  /\ Append(s, v) \in Seq(Verdict)
         /\ Len(Append(s, v)) = Len(s) + 1
         /\ Append(s, v)[Len(s) + 1] = v
         /\ \A i \in 1..Len(s) : Append(s, v)[i] = s[i]
         /\ Append(s, v) # <<>>
         /\ Last(Append(s, v)) = v
<1>1. /\ Append(s, v) \in Seq(Verdict)
      /\ Len(Append(s, v)) = Len(s) + 1
      /\ Append(s, v)[Len(s) + 1] = v
      /\ \A i \in 1..Len(s) : Append(s, v)[i] = s[i]
  BY AppendProperties
<1>2. Len(s) \in Nat
  BY LenProperties
<1> QED BY <1>1, <1>2 DEF Last

\* What is left of a sequence without its i-th element...
LEMMA WithoutLemma ==
  ASSUME NEW S, NEW s \in Seq(S), NEW i \in 1..Len(s)
  PROVE  LET v == Without(s, i) IN
         /\ v \in Seq(S) /\ Len(v) = Len(s) - 1
         /\ \A j \in 1..(Len(s) - 1) : v[j] = IF j < i THEN s[j] ELSE s[j + 1]
<1> DEFINE a == SubSeq(s, 1, i - 1)
           b == SubSeq(s, i + 1, Len(s))
           v == a \o b
<1>1. Len(s) \in Nat /\ i \in 1..Len(s)
  BY LenProperties
<1>2. /\ a \in Seq(S) /\ Len(a) = i - 1
      /\ \A j \in 1..(i - 1) : a[j] = s[j]
  <2>1. \A j \in 1..(i - 1) : s[j] \in S
    BY <1>1, ElementOfSeq
  <2>2. /\ a \in Seq(S) /\ Len(a) = IF 1 <= i - 1 THEN (i - 1) - 1 + 1 ELSE 0
        /\ \A j \in 1..((i - 1) - 1 + 1) : a[j] = s[1 + j - 1]
    BY <1>1, <2>1, SubSeqProperties
  <2> HIDE DEF a
  <2> QED BY <1>1, <2>2
<1>3. /\ b \in Seq(S) /\ Len(b) = Len(s) - i
      /\ \A j \in 1..(Len(s) - i) : b[j] = s[i + j]
  <2>1. \A j \in (i + 1)..Len(s) : s[j] \in S
    BY <1>1, ElementOfSeq
  <2>2. /\ b \in Seq(S)
        /\ Len(b) = IF i + 1 <= Len(s) THEN Len(s) - (i + 1) + 1 ELSE 0
        /\ \A j \in 1..(Len(s) - (i + 1) + 1) : b[j] = s[i + 1 + j - 1]
    BY <1>1, <2>1, SubSeqProperties
  <2> HIDE DEF b
  <2> QED BY <1>1, <2>2
<1>4. /\ v \in Seq(S) /\ Len(v) = Len(s) - 1
      /\ \A j \in 1..(Len(s) - 1) : v[j] = IF j < i THEN s[j] ELSE s[j + 1]
  <2>1. /\ v \in Seq(S) /\ Len(v) = Len(a) + Len(b)
        /\ \A j \in 1..(Len(a) + Len(b)) :
             v[j] = IF j <= Len(a) THEN a[j] ELSE b[j - Len(a)]
    <3> HIDE DEF a, b
    <3> QED BY <1>2, <1>3, ConcatProperties
  <2> DEFINE n == Len(s)
  <2> HIDE DEF v, a, b
  <2>2. n \in Nat /\ i \in 1..n /\ Len(a) + Len(b) = n - 1
    BY <1>1, <1>2, <1>3
  <2>3. ASSUME NEW j \in 1..(n - 1) PROVE v[j] = IF j < i THEN s[j] ELSE s[j + 1]
    <3>1. CASE j < i
      BY <3>1, <2>1, <2>2, <1>2
    <3>2. CASE ~(j < i)
      <4>1. j - (i - 1) \in 1..(n - i) /\ i + (j - (i - 1)) = j + 1
        BY <2>2, <3>2
      <4>2. b[j - (i - 1)] = s[i + (j - (i - 1))]
        BY <4>1, <1>3
      <4> QED BY <2>1, <2>2, <1>2, <3>2, <4>1, <4>2
    <3> QED BY <3>1, <3>2
  <2> QED BY <2>1, <2>2, <2>3
<1> QED BY <1>4 DEF Without

\* ...keeps elements apart that were apart.
LEMMA SkipLemma ==
  ASSUME NEW s, NEW n \in Nat, NEW i \in 1..n, NEW v,
         \A j \in 1..(n - 1) : v[j] = IF j < i THEN s[j] ELSE s[j + 1],
         NEW j \in 1..(n - 1), NEW k \in 1..(n - 1), j # k
  PROVE  \E p, q \in 1..n : p # i /\ q # i /\ p # q /\ v[j] = s[p] /\ v[k] = s[q]
<1> DEFINE at(x) == IF x < i THEN x ELSE x + 1
<1>1. at(j) \in 1..n /\ at(j) # i /\ at(k) \in 1..n /\ at(k) # i /\ at(j) # at(k)
  OBVIOUS
<1>2. v[j] = s[at(j)] /\ v[k] = s[at(k)]
  OBVIOUS
<1> HIDE DEF at
<1> QED BY <1>1, <1>2

-----------------------------------------------------------------------------
(* The directory *)

LEMMA LogLemma ==
  ASSUME TypeInv
  PROVE  \A e \in authLog : e.action \in AuthActions
BY DEF TypeInv, TypeOK, DirectoryTyped, SignInEvent

\* The managed systems of a bean are those of its logins, in any order.
LEMMA SystemsLemma ==
  ASSUME NEW u, NEW w,
         DOMAIN w.logins = DOMAIN u.logins,
         \A i \in DOMAIN u.logins : w.logins[i].sys = u.logins[i].sys
  PROVE  ManagedSystems(w) = ManagedSystems(u)
<1>1. \A p \in Range(w.logins) : \E q \in Range(u.logins) : p.sys = q.sys
  BY DEF Range
<1>2. \A p \in Range(u.logins) : \E q \in Range(w.logins) : p.sys = q.sys
  BY DEF Range
<1>3. {p.sys : p \in Range(w.logins)} = {p.sys : p \in Range(u.logins)}
  BY <1>1, <1>2
<1> QED BY <1>3 DEF ManagedSystems

\* What an administrator can change of a bean: never which systems its logins
\* are for, nor their names.
LEMMA UserChangeLemma ==
  ASSUME user \in UserBean, Directory
  PROVE  /\ user' \in UserBean
         /\ DOMAIN user'.logins = DOMAIN user.logins
         /\ \A i \in DOMAIN user.logins :
              /\ user'.logins[i].sys = user.logins[i].sys
              /\ user'.logins[i].login = user.logins[i].login
         /\ user'.exists => user.exists
<1>1. CASE user' = user
  BY <1>1
<1>2. CASE LockOrUnlock \/ EnableOrDisable \/ RemoveAccount
  <2>1. /\ user.status \in Text /\ user.secondary \in Text
        /\ user.exists \in BOOLEAN
        /\ \A x \in {"LOCKED", "ACTIVE", "INACTIVE", None} : x \in Text
    BY BoundsAssumption DEF UserBean
  <2>2. \/ \E x \in Text : user' = [user EXCEPT !.secondary = x]
        \/ \E x \in Text : user' = [user EXCEPT !.status = x]
        \/ user' = [user EXCEPT !.exists = FALSE]
    <3>1. CASE LockOrUnlock
      BY <3>1, <2>1 DEF LockOrUnlock, ChangeUser
    <3>2. CASE EnableOrDisable
      BY <3>2, <2>1 DEF EnableOrDisable, ChangeUser
    <3>3. CASE RemoveAccount
      BY <3>3 DEF RemoveAccount, ChangeUser
    <3> QED BY <1>2, <3>1, <3>2, <3>3
  <2>3. user.exists
    BY <1>2 DEF LockOrUnlock, EnableOrDisable, RemoveAccount, ChangeUser
  <2> QED BY <2>2, <2>3 DEF UserBean
<1>3. ASSUME NEW i \in DOMAIN user.logins, ResetPassword(i)
      PROVE  /\ user' \in UserBean
             /\ DOMAIN user'.logins = DOMAIN user.logins
             /\ \A j \in DOMAIN user.logins :
                  /\ user'.logins[j].sys = user.logins[j].sys
                  /\ user'.logins[j].login = user.logins[j].login
             /\ user'.exists => user.exists
  <2> DEFINE b  == [user.logins[i] EXCEPT !.pwdExp = NoDate]
             ls == [user.logins EXCEPT ![i] = b]
  <2>1. user.logins \in Seq(LoginBean)
    BY DEF UserBean
  <2>2. user.logins[i] \in LoginBean /\ NoDate \in Date
    BY <2>1, <1>3, ElementOfSeq, LenProperties DEF NoDate, Date, DateKinds
  <2>3. /\ b \in LoginBean /\ b.sys = user.logins[i].sys
        /\ b.login = user.logins[i].login
    BY <2>2 DEF LoginBean
  <2>4. ls \in Seq(LoginBean) /\ DOMAIN ls = DOMAIN user.logins
    BY <2>1, <2>3, <1>3, ExceptSeq, LenProperties
  <2>5. \A j \in DOMAIN user.logins : /\ ls[j].sys = user.logins[j].sys
                                      /\ ls[j].login = user.logins[j].login
    BY <2>3
  <2>6. user' = [user EXCEPT !.logins = ls]
    BY <1>3 DEF ResetPassword, ChangeUser
  <2> HIDE DEF ls
  <2> QED BY <2>4, <2>5, <2>6 DEF UserBean
<1>4. ASSUME NEW kind \in {"roles", "groups"}, NEW gs \in Seq(GrantBean),
             user' = [user EXCEPT ![kind] = gs]
      PROVE  /\ user' \in UserBean
             /\ user'.logins = user.logins
             /\ user'.exists => user.exists
  BY <1>4 DEF UserBean
<1>5. ASSUME NEW kind \in {"roles", "groups"}
      PROVE  user[kind] \in Seq(GrantBean)
  BY DEF UserBean
<1>6. ASSUME NEW kind \in {"roles", "groups"}, NEW n \in Names, NEW end \in GrantEnds,
             Grant(kind, n, end)
      PROVE  \E gs \in Seq(GrantBean) : user' = [user EXCEPT ![kind] = gs]
  <2>1. [name |-> n, end |-> end] \in GrantBean
    BY BoundsAssumption DEF GrantBean
  <2>2. Append(user[kind], [name |-> n, end |-> end]) \in Seq(GrantBean)
    BY <1>5, <2>1, AppendProperties
  <2> QED BY <1>6, <2>2 DEF Grant, ChangeGrants
<1>7. ASSUME NEW kind \in {"roles", "groups"}, NEW i \in DOMAIN user[kind],
             Revoke(kind, i)
      PROVE  \E gs \in Seq(GrantBean) : user' = [user EXCEPT ![kind] = gs]
  <2>1. i \in 1..Len(user[kind])
    BY <1>5, LenProperties
  <2>2. Without(user[kind], i) \in Seq(GrantBean)
    BY <1>5, <2>1, WithoutLemma
  <2>3. user' = [user EXCEPT ![kind] = Without(user[kind], i)]
    BY <1>7 DEF Revoke, ChangeGrants
  <2> QED BY <2>2, <2>3
<1>8. ASSUME NEW kind \in {"roles", "groups"}, NEW i \in DOMAIN user[kind],
             NEW end \in GrantEnds, ChangeEnd(kind, i, end)
      PROVE  \E gs \in Seq(GrantBean) : user' = [user EXCEPT ![kind] = gs]
  <2> DEFINE b  == [user[kind][i] EXCEPT !.end = end]
             gs == [user[kind] EXCEPT ![i] = b]
  <2>1. user[kind][i] \in GrantBean /\ end \in Date
    BY <1>5, BoundsAssumption, ElementOfSeq, LenProperties
  <2>2. b \in GrantBean
    BY <2>1 DEF GrantBean
  <2>3. gs \in Seq(GrantBean)
    BY <1>5, <2>2, ExceptSeq, LenProperties
  <2>4. user' = [user EXCEPT ![kind] = gs]
    BY <1>8 DEF ChangeEnd, ChangeUser
  <2> HIDE DEF gs
  <2> QED BY <2>3, <2>4
<1>9. \/ user' = user
      \/ LockOrUnlock \/ EnableOrDisable \/ RemoveAccount
      \/ \E i \in DOMAIN user.logins : ResetPassword(i)
      \/ \E kind \in {"roles", "groups"} :
           \/ \E n \in Names, end \in GrantEnds : Grant(kind, n, end)
           \/ \E i \in DOMAIN user[kind] : Revoke(kind, i)
           \/ \E i \in DOMAIN user[kind], end \in GrantEnds : ChangeEnd(kind, i, end)
  BY DEF Directory, SignIn, ConnectionTest, Tick
<1>10. ASSUME NEW kind \in {"roles", "groups"}, NEW gs \in Seq(GrantBean),
              user' = [user EXCEPT ![kind] = gs]
       PROVE  /\ user' \in UserBean
              /\ DOMAIN user'.logins = DOMAIN user.logins
              /\ \A i \in DOMAIN user.logins :
                   /\ user'.logins[i].sys = user.logins[i].sys
                   /\ user'.logins[i].login = user.logins[i].login
              /\ user'.exists => user.exists
  BY <1>4, <1>10
<1> QED BY <1>1, <1>2, <1>3, <1>6, <1>7, <1>8, <1>9, <1>10

\* A change of the directory leaves the run alone, and is watched.
LEMMA DirectoryFrame ==
  ASSUME Directory
  PROVE  /\ UNCHANGED run
         /\ now' = now \/ Tick
         /\ \/ now' = now /\ KeepWatching({})
            \/ user' = user /\ auditLog' = auditLog /\ KeepWatching(Aged(now'))
BY DEF Directory, Change, ChangeUser, ChangeGrants, LockOrUnlock, EnableOrDisable,
       ResetPassword, RemoveAccount, Grant, Revoke, ChangeEnd, SignIn, ConnectionTest,
       Tick

LEMMA DirectoryKeepsTypes ==
  ASSUME DirectoryTyped(user, dash, authLog, auditLog), now \in Nat, Directory
  PROVE  DirectoryTyped(user, dash, authLog, auditLog)'
<1> USE DEF DirectoryTyped
<1>1. user' \in UserBean /\ ManagedSystems(user') = ManagedSystems(user)
  BY UserChangeLemma, SystemsLemma
<1>2. dash' \in [DOMAIN dash' -> Seq(ConnectionReply)] /\ DOMAIN dash' = DOMAIN dash
  <2>1. CASE dash' = dash
    BY <2>1
  <2>2. ASSUME NEW s \in DOMAIN dash, NEW ok \in BOOLEAN, ConnectionTest(s, ok)
        PROVE  /\ dash' \in [DOMAIN dash' -> Seq(ConnectionReply)]
               /\ DOMAIN dash' = DOMAIN dash
    <3> DEFINE b == [dated |-> TRUE, at |-> now, ok |-> ok]
    <3>1. b \in ConnectionReply /\ dash[s] \in Seq(ConnectionReply)
      BY <2>2 DEF ConnectionReply
    <3>2. Append(dash[s], b) \in Seq(ConnectionReply)
      BY <3>1, AppendProperties
    <3> QED BY <2>2, <3>2 DEF ConnectionTest
  <2> QED BY <2>1, <2>2 DEF Directory, Change, ChangeUser, ChangeGrants, LockOrUnlock,
             EnableOrDisable, ResetPassword, RemoveAccount, Grant, Revoke, ChangeEnd,
             SignIn, Tick
<1>3. authLog' \subseteq SignInEvent /\ IsFiniteSet(authLog')
  <2>1. CASE authLog' = authLog
    BY <2>1
  <2>2. ASSUME NEW ok \in BOOLEAN, SignIn(ok)
        PROVE  authLog' \subseteq SignInEvent /\ IsFiniteSet(authLog')
    <3> DEFINE e == [at |-> now, kind |-> "aware", ok |-> ok, action |-> "LOGIN"]
    <3>1. e \in SignInEvent
      BY <2>2 DEF SignInEvent, AuthActions, DateKinds
    <3> QED BY <2>2, <3>1, FS_AddElement DEF SignIn
  <2> QED BY <2>1, <2>2 DEF Directory, Change, ChangeUser, ChangeGrants, LockOrUnlock,
             EnableOrDisable, ResetPassword, RemoveAccount, Grant, Revoke, ChangeEnd,
             ConnectionTest, Tick
<1>4. auditLog' \subseteq GrantEvent /\ IsFiniteSet(auditLog')
  <2>1. CASE auditLog' = auditLog
    BY <2>1
  <2>2. ASSUME NEW kind, NEW gs, NEW action \in Text, NEW n \in Text,
               ChangeGrants(kind, gs, action, n)
        PROVE  auditLog' \subseteq GrantEvent /\ IsFiniteSet(auditLog')
    <3> DEFINE e == [action |-> action, names |-> {n}, at |-> now, kind |-> "aware"]
    <3>1. e \in GrantEvent
      BY DEF GrantEvent, DateKinds
    <3> QED BY <2>2, <3>1, FS_AddElement DEF ChangeGrants
  <2>3. ASSUME NEW kind \in {"roles", "groups"}, NEW n \in Names,
               NEW end \in GrantEnds, Grant(kind, n, end)
        PROVE  auditLog' \subseteq GrantEvent /\ IsFiniteSet(auditLog')
    <3>1. n \in Text /\ "ADD" \in Text
      BY <2>3, BoundsAssumption
    <3>2. ChangeGrants(kind, Append(user[kind], [name |-> n, end |-> end]), "ADD", n)
      BY <2>3 DEF Grant
    <3> QED BY <2>2, <3>1, <3>2
  <2>4. ASSUME NEW kind \in {"roles", "groups"}, NEW i \in DOMAIN user[kind],
               Revoke(kind, i)
        PROVE  auditLog' \subseteq GrantEvent /\ IsFiniteSet(auditLog')
    <3>1. user[kind] \in Seq(GrantBean)
      BY DEF UserBean
    <3>2. user[kind][i] \in GrantBean
      BY <2>4, <3>1, ElementOfSeq, LenProperties
    <3>3. user[kind][i].name \in Text /\ "REVOKE" \in Text
      BY <3>2, BoundsAssumption DEF GrantBean
    <3>4. ChangeGrants(kind, Without(user[kind], i), "REVOKE", user[kind][i].name)
      BY <2>4 DEF Revoke
    <3> QED BY <2>2, <3>3, <3>4
  <2> QED BY <2>1, <2>3, <2>4 DEF Directory, Change, ChangeUser, LockOrUnlock,
             EnableOrDisable, ResetPassword, RemoveAccount, ChangeEnd, SignIn,
             ConnectionTest, Tick
<1> QED BY <1>1, <1>2, <1>3, <1>4

-----------------------------------------------------------------------------
(* The newest reply of a connection-test history *)

\* A reply that max() prefers: later, or as late and earlier in the list.
Better(rs, j, i) == rs[i].at < rs[j].at \/ (rs[i].at = rs[j].at /\ j < i)

\* A history with a dated reply has one that none of its dated replies beats.
LEMMA NewestLemma ==
  ASSUME NEW rs \in Seq(ConnectionReply), NEW dated \in SUBSET (1..Len(rs)), dated # {}
  PROVE  \E i \in dated : \A j \in dated :
           \/ rs[j].at < rs[i].at
           \/ rs[j].at = rs[i].at /\ i <= j
<1> DEFINE G(i) == {j \in dated : Better(rs, j, i)}
           T    == {G(i) : i \in dated}
<1>1. \A i \in dated : i \in Nat /\ rs[i].at \in Int
  <2>1. \A i \in 1..Len(rs) : i \in Nat /\ rs[i] \in ConnectionReply
    BY ElementOfSeq, LenProperties
  <2> QED BY <2>1 DEF ConnectionReply
<1>2. IsFiniteSet(dated)
  <2>1. IsFiniteSet(1..Len(rs))
    BY LenProperties, FS_Interval
  <2> QED BY <2>1, FS_Subset
<1>3. T \subseteq FiniteSubsetsOf(dated) /\ T # {}
  <2>1. FiniteSubsetsOf(dated) = SUBSET dated
    BY <1>2, FS_FiniteSubsetsOfFinite
  <2>2. \A i \in dated : G(i) \in SUBSET dated
    OBVIOUS
  <2>3. T # {}
    OBVIOUS
  <2> HIDE DEF G
  <2> QED BY <2>1, <2>2, <2>3
<1>4. PICK i \in dated : \A j \in dated : <<G(j), G(i)>> \notin StrictSubsetOrdering(dated)
  <2>1. \E X \in T : \A Y \in T : ~(<<Y, X>> \in StrictSubsetOrdering(dated))
    <3> HIDE DEF T
    <3> QED BY <1>3, FS_StrictSubsetOrderingWellFounded, WFMin
  <2> HIDE DEF G
  <2> QED BY <2>1
<1>5. ASSUME NEW j \in G(i) PROVE FALSE
  <2>1. G(j) \subseteq G(i)
    <3> SUFFICES ASSUME NEW k \in G(j)
                 PROVE  k \in G(i)
      OBVIOUS
    <3>1. j \in dated /\ Better(rs, j, i)
      BY <1>5
    <3>2. k \in dated /\ Better(rs, k, j)
      OBVIOUS
    <3>3. \A l \in dated : l \in Nat /\ rs[l].at \in Int
      BY <1>1
    <3> HIDE DEF G
    <3>4. Better(rs, k, i)
      BY <3>1, <3>2, <3>3 DEF Better
    <3> QED BY <3>2, <3>4 DEF G
  <2>2. j \in dated /\ j \notin G(j)
    <3>1. j \in dated
      BY <1>5
    <3>2. ~Better(rs, j, j)
      BY <3>1, <1>1 DEF Better
    <3> QED BY <3>1, <3>2
  <2>3. G(i) \subseteq dated
    OBVIOUS
  <2> HIDE DEF G
  <2>4. <<G(j), G(i)>> \in StrictSubsetOrdering(dated)
    BY <2>1, <2>2, <2>3, <1>5 DEF StrictSubsetOrdering
  <2> QED BY <1>4, <2>2, <2>4
<1>6. \A j \in dated : ~Better(rs, j, i)
  BY <1>5
<1> HIDE DEF G, T
<1>7. ASSUME NEW j \in dated
      PROVE  rs[j].at < rs[i].at \/ (rs[j].at = rs[i].at /\ i <= j)
  BY <1>1, <1>6 DEF Better
<1> QED BY <1>7

\* A set of positions of a sequence has a first one.
LEMMA FirstLemma ==
  ASSUME NEW n \in Nat, NEW S \in SUBSET (1..n), S # {}
  PROVE  First(S) \in S
<1> DEFINE r  == [dated |-> TRUE, at |-> 0, ok |-> TRUE]
           rs == [i \in 1..n |-> r]
<1>1. rs \in Seq(ConnectionReply) /\ Len(rs) = n
  <2>1. r \in ConnectionReply
    BY DEF ConnectionReply
  <2> HIDE DEF r
  <2> QED BY <2>1, LenProperties, SeqDef
<1>2. \A i \in S : rs[i].at = 0
  OBVIOUS
<1> HIDE DEF rs
<1>3. PICK i \in S :
        \A j \in S : rs[j].at < rs[i].at \/ (rs[j].at = rs[i].at /\ i <= j)
  BY <1>1, NewestLemma
<1>4. \A j \in S : i <= j
  BY <1>2, <1>3
<1> QED BY <1>4 DEF First

HasOpenIAM(u) == \E i \in DOMAIN u.logins : u.logins[i].sys = "OPENIAM"

\* The login that is selected is that of an OPENIAM entry if there is one.
LEMMA SelectLemma ==
  ASSUME NEW u \in UserBean
  PROVE  /\ SelectLogin(u) \in Text
         /\ HasOpenIAM(u) => \E i \in DOMAIN u.logins :
              u.logins[i].sys = "OPENIAM" /\ SelectLogin(u) = u.logins[i].login
<1> DEFINE own == {i \in DOMAIN u.logins : u.logins[i].sys = "OPENIAM"}
<1>1. /\ u.logins \in Seq(LoginBean) /\ Len(u.logins) \in Nat
      /\ DOMAIN u.logins = 1..Len(u.logins)
  BY LenProperties DEF UserBean
<1>2. \A i \in DOMAIN u.logins : u.logins[i].login \in Text
  <2>1. \A i \in DOMAIN u.logins : u.logins[i] \in LoginBean
    BY <1>1, ElementOfSeq
  <2> QED BY <2>1 DEF LoginBean
<1>3. own # {} => First(own) \in own
  <2>1. own \in SUBSET (1..Len(u.logins))
    BY <1>1
  <2> HIDE DEF own
  <2> QED BY <1>1, <2>1, FirstLemma
<1>4. u.logins # <<>> => 1 \in DOMAIN u.logins
  BY <1>1, EmptySeq
<1>5. SelectLogin(u) = CASE own # {} -> u.logins[First(own)].login
                         [] own = {} /\ u.logins # <<>> -> u.logins[1].login
                         [] OTHER -> None
  BY DEF SelectLogin
<1>6. own # {} <=> HasOpenIAM(u)
  BY DEF HasOpenIAM
<1>7. None \in Text
  BY BoundsAssumption
<1>8. own \subseteq DOMAIN u.logins /\ \A i \in own : u.logins[i].sys = "OPENIAM"
  OBVIOUS
<1> HIDE DEF own
<1> QED BY <1>2, <1>3, <1>4, <1>5, <1>6, <1>7, <1>8

LEMMA NoBeanLemma == NoBean \in UserBean
BY BoundsAssumption, EmptySeq DEF NoBean, UserBean

-----------------------------------------------------------------------------
(* One step of the funnel *)

\* The step that concludes keeps types and order, moves to the next step or
\* publishes the result.
LEMMA ConcludeLemma ==
  ASSUME TypeInv, Running,
         NEW status \in VerdictStatus, NEW cause \in Causes,
         Conclude(status, cause)
  PROVE  /\ verdicts' \in Seq(Verdict)
         /\ Len(verdicts') = Len(verdicts) + 1
         /\ Len(verdicts') <= Len(StepNames)
         /\ \A i \in 1..Len(verdicts') : verdicts'[i].step = StepNames[i]
         /\ Running' => Len(verdicts') = Position(pc')
         /\ pc' \in {"account", "auth", "required", "done"}
         /\ result' = NoResult \/
              /\ result'.verdicts \in Seq(Verdict)
              /\ result'.outcome \in Outcome
              /\ result'.escalated \in BOOLEAN
<1> DEFINE n == Len(verdicts)
           v == [step |-> CurrentStep, status |-> status, cause |-> cause]
<1>1. verdicts \in Seq(Verdict) /\ n \in 0..3 /\ Len(verdicts) = n
  BY LenProperties DEF TypeInv, TypeOK, OrderInv, Running, Position
<1> HIDE DEF n, v
<1>2. CurrentStep = StepNames[n + 1] /\ CurrentStep \in Steps
  <2>1. n + 1 \in 1..4
    BY <1>1
  <2> QED BY <1>1, <2>1, StepNamesLemma DEF CurrentStep
<1>3. v \in Verdict
  BY <1>2 DEF Verdict, v
<1>4. verdicts' = Append(verdicts, v)
  BY DEF Conclude, v
<1>5. /\ verdicts' \in Seq(Verdict)
      /\ Len(verdicts') = n + 1
      /\ verdicts'[n + 1] = v
      /\ \A i \in 1..n : verdicts'[i] = verdicts[i]
      /\ Last(verdicts') = v
  <2>1. Len(verdicts) < 4
    BY <1>1
  <2> QED BY <1>1, <2>1, <1>3, <1>4, AppendLemma
<1>6. Len(verdicts') <= Len(StepNames)
  BY <1>1, <1>5, StepNamesLemma
<1>7. \A i \in 1..Len(verdicts') : verdicts'[i].step = StepNames[i]
  <2>1. v.step = StepNames[n + 1]
    BY <1>2 DEF v
  <2>2. \A i \in 1..n : verdicts[i].step = StepNames[i]
    BY <1>1 DEF TypeInv, OrderInv
  <2> QED BY <1>1, <1>5, <2>1, <2>2
<1>8. CASE Stops(status, Len(verdicts'))
  <2>1. pc' = "done" /\ result' = Finalize(verdicts', link')
    BY <1>8 DEF Conclude
  <2>2. /\ result'.verdicts = verdicts'
        /\ result'.outcome = OutcomeOf(v)
        /\ result'.escalated \in BOOLEAN
    BY <2>1, <1>5 DEF Finalize
  <2> QED BY <2>1, <2>2, <1>1, <1>5, <1>6, <1>7, OutcomeLemma DEF Running
<1>9. CASE ~Stops(status, Len(verdicts'))
  <2>1. pc' = CallOf(StepNames[Len(verdicts') + 1]) /\ result' = result
    BY <1>9 DEF Conclude
  <2>2. n \in 0..2
    BY <1>9, <1>1, <1>5, StepNamesLemma DEF Stops
  <2>3. pc' = CASE n = 0 -> "account" [] n = 1 -> "auth" [] n = 2 -> "required"
    BY <2>1, <2>2, <1>5, StepNamesLemma DEF CallOf
  <2>4. Len(verdicts') = Position(pc') /\ pc' \in {"account", "auth", "required"}
    BY <2>2, <2>3, <1>5 DEF Position
  <2> QED BY <2>1, <2>4, <1>1, <1>5, <1>6, <1>7 DEF TypeInv, TypeOK
<1> QED BY <1>8, <1>9

\* A blamed step only adds its own name to the faults.
LEMMA BlameLemma ==
  ASSUME TypeOK, NEW step \in Steps, NEW failed, Blame(step, failed)
  PROVE  /\ hist' = [was |-> hist'.was, late |-> hist'.late, faults |-> hist'.faults]
         /\ hist'.faults \subseteq Steps
         /\ hist'.was = hist.was /\ hist'.late = hist.late
<1>1. CASE failed
  BY <1>1 DEF Blame, TypeOK
<1>2. CASE ~failed
  BY <1>2 DEF Blame, TypeOK
<1> QED BY <1>1, <1>2

\* A call that concludes its step keeps TypeInv.
LEMMA ConcludingCallLemma ==
  ASSUME TypeInv, Running, NEW step \in Steps, NEW failed,
         Blame(step, failed) \/ UNCHANGED hist,
         UNCHANGED <<directory, required, missing>>,
         link' \in Text, answer' \in UserBean, asked' \in Nat,
         NEW status \in VerdictStatus, NEW cause \in Causes,
         Conclude(status, cause)
  PROVE  TypeInv'
<1>1. /\ hist' = [was |-> hist'.was, late |-> hist'.late, faults |-> hist'.faults]
      /\ hist'.faults \subseteq Steps
  BY BlameLemma DEF TypeInv, TypeOK
<1>2. /\ now' = now /\ ops' = ops /\ user' = user /\ dash' = dash
      /\ authLog' = authLog /\ auditLog' = auditLog
      /\ required' = required /\ missing' = missing
  BY DEF directory
<1>3. TypeOK'
  BY <1>1, <1>2, ConcludeLemma DEF TypeInv, TypeOK
<1>4. OrderInv'
  BY ConcludeLemma DEF OrderInv
<1> QED BY <1>3, <1>4 DEF TypeInv

\* A call that goes on within its step keeps TypeInv.
LEMMA ContinuingCallLemma ==
  ASSUME TypeInv, Running, NEW step \in Steps, NEW failed,
         Blame(step, failed) \/ UNCHANGED hist,
         UNCHANGED <<directory, required, verdicts, result, link>>,
         missing' \subseteq required, answer' \in UserBean, asked' \in Nat,
         pc' \in {"systems", "status", "grants", "audit"}, Position(pc') = Position(pc)
  PROVE  TypeInv'
<1>1. /\ hist' = [was |-> hist'.was, late |-> hist'.late, faults |-> hist'.faults]
      /\ hist'.faults \subseteq Steps
  BY BlameLemma DEF TypeInv, TypeOK
<1>2. /\ now' = now /\ ops' = ops /\ user' = user /\ dash' = dash
      /\ authLog' = authLog /\ auditLog' = auditLog
      /\ required' = required /\ verdicts' = verdicts /\ result' = result
      /\ link' = link
  BY DEF directory
<1>3. TypeOK'
  BY <1>1, <1>2 DEF TypeInv, TypeOK
<1>4. OrderInv'
  BY <1>2 DEF TypeInv, OrderInv, Running
<1> QED BY <1>3, <1>4 DEF TypeInv

\* A change of the directory keeps TypeInv.
LEMMA DirectoryLemma ==
  ASSUME TypeInv, Directory
  PROVE  TypeInv'
<1>1. UNCHANGED run /\ \E aged : KeepWatching(aged)
  BY DirectoryFrame
<1>2. now' \in Nat /\ ops' \in 0..MaxOps
  <2>1. /\ ops \in 0..MaxOps /\ now \in Nat /\ MaxOps \in Nat
    BY BoundsAssumption DEF TypeInv, TypeOK
  <2>2. \/ ops < MaxOps /\ ops' = ops + 1 /\ now' = now
        \/ ops' = ops /\ now' = now + 1
    BY DEF Directory, Change, ChangeUser, ChangeGrants, LockOrUnlock, EnableOrDisable,
           ResetPassword, RemoveAccount, Grant, Revoke, ChangeEnd, SignIn,
           ConnectionTest, Tick
  <2> QED BY <2>1, <2>2
<1>3. DirectoryTyped(user, dash, authLog, auditLog)'
  BY DirectoryKeepsTypes DEF TypeInv, TypeOK
<1>4. /\ hist' = [was |-> hist'.was, late |-> hist'.late, faults |-> hist'.faults]
      /\ hist'.faults \subseteq Steps
  BY <1>1 DEF KeepWatching, TypeInv, TypeOK
<1>5. TypeOK' /\ OrderInv'
  BY <1>1, <1>2, <1>3, <1>4 DEF TypeInv, TypeOK, OrderInv, run, local, Running
<1> QED BY <1>5 DEF TypeInv

-----------------------------------------------------------------------------
(* Type correctness *)

LEMMA TypeInit == Init => TypeInv
<1> SUFFICES ASSUME Init PROVE TypeInv
  OBVIOUS
<1>1. TypeOK
  BY BoundsAssumption, InputsAssumption, StepNamesLemma, NoBeanLemma DEF Init, TypeOK
<1>2. OrderInv
  BY DEF Init, OrderInv, Running
<1> QED BY <1>1, <1>2 DEF TypeInv

LEMMA StepInSteps ==
  \A s \in {"system_availability", "account_status", "auth_events", "authorization"} :
    s \in Steps
BY StepNamesLemma

LEMMA TypeStep == TypeInv /\ [Next]_vars => TypeInv'
<1> SUFFICES ASSUME TypeInv, [Next]_vars PROVE TypeInv'
  OBVIOUS
<1> USE StepInSteps DEF StepError
<1>1. CASE StartRun
  <2>1. /\ required' \subseteq Names
        /\ verdicts' = <<>> /\ result' = NoResult /\ missing' = {}
        /\ link' \in Text /\ answer' \in UserBean /\ asked' \in Nat
        /\ pc' = "availability" /\ UNCHANGED directory
        /\ hist'.faults = {} /\ hist' = [was |-> hist'.was, late |-> hist'.late, faults |-> hist'.faults]
    BY <1>1, BoundsAssumption, NoBeanLemma DEF StartRun, StartWatching
  <2>2. TypeOK'
    BY <2>1, StepNamesLemma DEF TypeInv, TypeOK, directory
  <2>3. OrderInv'
    BY <2>1 DEF TypeInv, OrderInv, Running, Position, directory
  <2> QED BY <2>2, <2>3 DEF TypeInv
<1>2. ASSUME NEW r \in Replies, LookUpManagedSystems(r) PROVE TypeInv'
  <2>1. /\ Running /\ missing' = missing /\ missing \subseteq required
        /\ link' \in Text /\ answer' \in UserBean /\ asked' \in Nat
    BY <1>2 DEF LookUpManagedSystems, ConcludeAvailability, Running, TypeInv, TypeOK
  <2>2. CASE r = "raise" /\ StepError
    BY <1>2, <2>1, <2>2, ConcludingCallLemma
       DEF LookUpManagedSystems, ConcludeAvailability, VerdictStatus, Causes
  <2>3. CASE r = "error" /\ Conclude("fail", "system_degraded")
    BY <1>2, <2>1, <2>3, ConcludingCallLemma
       DEF LookUpManagedSystems, ConcludeAvailability, VerdictStatus, Causes
  <2>4. CASE Conclude("pass", None)
    BY <1>2, <2>1, <2>4, ConcludingCallLemma
       DEF LookUpManagedSystems, ConcludeAvailability, VerdictStatus, Causes
  <2>5. CASE pc' = "systems" /\ UNCHANGED <<verdicts, result>>
    BY <1>2, <2>1, <2>5, ContinuingCallLemma
       DEF LookUpManagedSystems, ConcludeAvailability, Position
  <2> QED BY <1>2, <2>2, <2>3, <2>4, <2>5 DEF LookUpManagedSystems, ConcludeAvailability
<1>3. ASSUME NEW s \in pending, NEW r \in Replies, CheckManagedSystem(s, r)
      PROVE  TypeInv'
  <2>1. /\ Running /\ missing' = missing /\ missing \subseteq required
        /\ link' \in Text /\ answer' \in UserBean /\ asked' \in Nat
    BY <1>3 DEF CheckManagedSystem, ConcludeAvailability, Running, TypeInv, TypeOK
  <2>2. CASE \/ StepError
             \/ Conclude("pass", None)
             \/ Conclude("fail", "system_down")
    BY <1>3, <2>1, <2>2, ConcludingCallLemma
       DEF CheckManagedSystem, ConcludeAvailability, VerdictStatus, Causes
  <2>3. CASE UNCHANGED <<pc, verdicts, result>>
    BY <1>3, <2>1, <2>3, ContinuingCallLemma
       DEF CheckManagedSystem, ConcludeAvailability
  <2> QED BY <1>3, <2>2, <2>3 DEF CheckManagedSystem, ConcludeAvailability
<1>4. ASSUME NEW r \in Replies, CheckAccount(r) PROVE TypeInv'
  <2>1. Running /\ missing' = missing
    BY <1>4 DEF CheckAccount, ConcludeAccount, Running
  <2>2. PICK status \in VerdictStatus, cause \in Causes : Conclude(status, cause)
    BY <1>4, CausesLemma DEF CheckAccount, ConcludeAccount, VerdictStatus, Causes
  <2>3. link' \in Text
    <3>1. answer \in UserBean /\ link \in Text
      BY DEF TypeInv, TypeOK
    <3>2. PasswordResetLink(answer, now) \in Text /\ None \in Text
      BY <3>1, SelectLemma, BoundsAssumption DEF PasswordResetLink
    <3> QED BY <1>4, <3>1, <3>2 DEF CheckAccount
  <2>4. answer' \in UserBean /\ asked' \in Nat
    BY <1>4, NoBeanLemma DEF CheckAccount, TypeInv, TypeOK
  <2> QED BY <1>4, <2>1, <2>2, <2>3, <2>4, ConcludingCallLemma
          DEF CheckAccount, ConcludeAccount
<1>5. ASSUME NEW r \in Replies, CheckAuthEvents(r) PROVE TypeInv'
  <2>1. Running /\ missing' = missing /\ UNCHANGED <<link, answer, asked>>
    BY <1>5 DEF CheckAuthEvents, Running, local
  <2>2. PICK status \in VerdictStatus, cause \in Causes : Conclude(status, cause)
    <3>1. ASSUME NEW page \in Pages(authLog, asked, AuthWindow, AuthPage),
                 NEW latest \in LatestEvents(Parsed(page))
          PROVE  AuthCause(latest) \in Causes
      <4>1. latest \in authLog
        BY <3>1 DEF LatestEvents, Parsed, Pages, InWindow
      <4> QED BY <4>1, CausesLemma, LogLemma
    <3> QED BY <1>5, <3>1 DEF CheckAuthEvents, VerdictStatus, Causes
  <2> QED BY <1>5, <2>1, <2>2, ConcludingCallLemma DEF CheckAuthEvents, TypeInv, TypeOK
<1>6. CASE NothingRequired
  BY <1>6, ConcludingCallLemma
     DEF NothingRequired, Running, VerdictStatus, Causes, local, TypeInv, TypeOK
<1>7. ASSUME NEW r \in Replies, FetchGrants(r) PROVE TypeInv'
  <2>1. Running /\ link' = link /\ link \in Text /\ answer' \in UserBean /\ asked' \in Nat
    BY <1>7, NoBeanLemma DEF FetchGrants, Running, TypeInv, TypeOK
  <2>2. CASE StepError /\ UNCHANGED missing
    BY <1>7, <2>1, <2>2, ConcludingCallLemma DEF FetchGrants, VerdictStatus, Causes
  <2>3. CASE /\ missing' \subseteq required
             /\ pc' = "audit" /\ UNCHANGED <<verdicts, result>>
    BY <1>7, <2>1, <2>3, ContinuingCallLemma DEF FetchGrants, Position
  <2> QED BY <1>7, <2>2, <2>3 DEF FetchGrants
<1>8. ASSUME NEW r \in Replies, FetchPermissionAudit(r) PROVE TypeInv'
  <2>1. Running /\ missing' = missing /\ UNCHANGED <<link, answer, asked>>
    BY <1>8 DEF FetchPermissionAudit, Running, local
  <2>2. PICK status \in VerdictStatus, cause \in Causes : Conclude(status, cause)
    BY <1>8, CausesLemma DEF FetchPermissionAudit, VerdictStatus, Causes
  <2> QED BY <1>8, <2>1, <2>2, ConcludingCallLemma
          DEF FetchPermissionAudit, TypeInv, TypeOK
<1>11. CASE ServeAccount \/ ServeGrants
  <2>1. user \in UserBean /\ asked \in Nat /\ missing \subseteq required
    BY DEF TypeInv, TypeOK, DirectoryTyped
  <2> QED BY <1>11, <2>1, ContinuingCallLemma
          DEF ServeAccount, ServeGrants, Running, Position
<1>9. CASE Directory
  BY <1>9, DirectoryLemma
<1>10. CASE UNCHANGED vars
  BY <1>10 DEF vars, directory, run, local, TypeInv, TypeOK, OrderInv, Running
<1> QED
  BY <1>1, <1>2, <1>3, <1>4, <1>5, <1>6, <1>7, <1>8, <1>9, <1>10, <1>11
  DEF Next, Diagnose

\* Whatever the directory holds and the calls answer, a run's state is typed.
THEOREM TypeCorrect == Spec => []TypeOK
<1>1. TypeInv => TypeOK
  BY DEF TypeInv
<1> QED BY <1>1, TypeInit, TypeStep, PTL DEF Spec

-----------------------------------------------------------------------------
(* The message agrees with the result *)

\* A result is published from the verdicts and stays until the next run.
LEMMA ResultStep == TypeInv /\ ResultInv /\ [Next]_vars => ResultInv'
<1> SUFFICES ASSUME TypeInv, ResultInv, [Next]_vars PROVE ResultInv'
  OBVIOUS
<1>1. ASSUME Running, NEW status, NEW cause, Conclude(status, cause) PROVE ResultInv'
  <2>1. verdicts' # <<>> /\ Len(verdicts') \in 1..4
    <3> DEFINE v == [step |-> CurrentStep, status |-> status, cause |-> cause]
    <3>1. verdicts \in Seq(Verdict) /\ Len(verdicts) \in 0..3
      BY <1>1, LenProperties DEF TypeInv, TypeOK, OrderInv, Running, Position
    <3>2. verdicts \in Seq(Verdict \cup {v})
      BY <3>1, SeqMonotonic
    <3>3. verdicts' = Append(verdicts, v)
      BY <1>1 DEF Conclude
    <3> HIDE DEF v
    <3>4. verdicts' # <<>> /\ Len(verdicts') = Len(verdicts) + 1
      BY <3>2, <3>3, AppendProperties
    <3> DEFINE n == Len(verdicts)  m == Len(verdicts')
    <3>5. n \in 0..3 /\ m = n + 1
      BY <3>1, <3>4
    <3> HIDE DEF n, m
    <3>6. m \in 1..4
      BY <3>5
    <3> QED BY <3>4, <3>6 DEF m
  <2>2. pc' = "done" => result' = Finalize(verdicts', link')
    <3>1. CASE Stops(status, Len(verdicts'))
      BY <1>1, <3>1 DEF Conclude
    <3>2. CASE ~Stops(status, Len(verdicts'))
      <4>1. Len(verdicts') + 1 \in 2..4
        <5> DEFINE m == Len(verdicts')
        <5>1. m # 4 /\ m \in 1..4
          BY <2>1, <3>2, StepNamesLemma DEF Stops
        <5> HIDE DEF m
        <5>2. m + 1 \in 2..4
          BY <5>1
        <5> QED BY <5>2 DEF m
      <4>2. StepNames[Len(verdicts') + 1] \in
              {"account_status", "auth_events", "authorization"}
        BY <4>1, StepNamesLemma
      <4> QED BY <1>1, <3>2, <4>2 DEF Conclude, CallOf
    <3> QED BY <3>1, <3>2
  <2> QED BY <2>1, <2>2 DEF ResultInv, Done
<1>2. CASE pc' # "done"
  BY <1>2 DEF ResultInv, Done
<1>3. CASE UNCHANGED run
  BY <1>3 DEF ResultInv, Done, run, local
<1>4. CASE Directory
  BY <1>3, <1>4, DirectoryFrame
<1>5. CASE StartRun
  BY <1>5, <1>2 DEF StartRun
<1>6. CASE Diagnose
  <2>1. ASSUME NEW r \in Replies, LookUpManagedSystems(r) PROVE ResultInv'
    BY <2>1, <1>1, <1>2 DEF LookUpManagedSystems, ConcludeAvailability, StepError,
       Running
  <2>2. ASSUME NEW s \in pending, NEW r \in Replies, CheckManagedSystem(s, r)
        PROVE  ResultInv'
    BY <2>2, <1>1, <1>2 DEF CheckManagedSystem, ConcludeAvailability, StepError, Running
  <2>3. ASSUME NEW r \in Replies, CheckAccount(r) PROVE ResultInv'
    BY <2>3, <1>1 DEF CheckAccount, ConcludeAccount, StepError, Running
  <2>4. ASSUME NEW r \in Replies, CheckAuthEvents(r) PROVE ResultInv'
    BY <2>4, <1>1 DEF CheckAuthEvents, StepError, Running
  <2>5. CASE NothingRequired
    BY <2>5, <1>1 DEF NothingRequired, Running
  <2>6. ASSUME NEW r \in Replies, FetchGrants(r) PROVE ResultInv'
    BY <2>6, <1>1, <1>2 DEF FetchGrants, StepError, Running
  <2>7. ASSUME NEW r \in Replies, FetchPermissionAudit(r) PROVE ResultInv'
    BY <2>7, <1>1 DEF FetchPermissionAudit, StepError, Running
  <2>8. CASE ServeAccount \/ ServeGrants
    BY <2>8, <1>2 DEF ServeAccount, ServeGrants
  <2> QED BY <1>6, <2>1, <2>2, <2>3, <2>4, <2>5, <2>6, <2>7, <2>8 DEF Diagnose
<1> QED BY <1>3, <1>4, <1>5, <1>6 DEF Next, vars

\* The outcome table of the orchestrator and the message table agree on every
\* verdict, known cause or not.
LEMMA TablesAgree ==
  ASSUME NEW vs, NEW l
  PROVE  LET r == Finalize(vs, l) IN
         /\ VerdictMessage(r) = "escalated" <=> r.escalated
         /\ VerdictMessage(r) = "request_access" <=> r.outcome = "access_gap"
         /\ VerdictMessage(r) \in {"contact_admin", "reset_password", "retry_login"}
              <=> r.outcome = "self_service_fix"
<1> DEFINE v == Last(vs)
           r == Finalize(vs, l)
<1>1. /\ r.outcome = OutcomeOf(v) /\ r.escalated = (OutcomeOf(v) = "escalation")
      /\ Last(r.verdicts) = v
  BY DEF Finalize
<1>2. CASE v.status # "fail"
  BY <1>1, <1>2 DEF VerdictMessage, OutcomeOf
<1>3. CASE v.status = "fail"
  <2>1. VerdictMessage(r) = FailMessage(v) /\ OutcomeOf(v) = ResolveFailOutcome(v)
    BY <1>1, <1>3 DEF VerdictMessage, OutcomeOf
  <2>2. /\ FailMessage(v) = "escalated" <=> ResolveFailOutcome(v) = "escalation"
        /\ FailMessage(v) = "request_access" <=> ResolveFailOutcome(v) = "access_gap"
        /\ FailMessage(v) \in {"contact_admin", "reset_password", "retry_login"}
             <=> ResolveFailOutcome(v) = "self_service_fix"
    BY DEF FailMessage, AccountMessage, ResolveFailOutcome, AccountStatusOutcome,
           AuthorizationOutcome
  <2> QED BY <1>1, <2>1, <2>2
<1> QED BY <1>2, <1>3

\* Whoever is told the case was escalated has an escalated result, and the
\* other way round; likewise for access requests and self-service advice.
THEOREM MessageHonestCorrect == Spec => []MessageHonest
<1>1. Init => ResultInv
  BY DEF Init, ResultInv, Done
<1>2. ResultInv => MessageHonest
  BY TablesAgree DEF ResultInv, MessageHonest
<1> QED BY <1>1, <1>2, TypeInit, TypeStep, ResultStep, PTL DEF Spec

-----------------------------------------------------------------------------
(* The reset link *)

\* While a run waits, its history holds everything true right now.
WitnessInv ==
  Running => Facts(now, user, dash, authLog, auditLog, required) \subseteq hist.was

\* While the answer about the account is on its way, the history holds what is
\* true of that answer now.
AnswerInv == pc = "status" => AccountFacts(now, answer) \subseteq Seen

\* A link that resets an OPENIAM login whose password had expired.
Helps(l) ==
  <<"OPENIAM login", l>> \in Seen /\ <<"expired login", "OPENIAM">> \in Seen

\* A verdict a link is offered for rests on an expired OPENIAM password.
LinkInv ==
  \A i \in 1..Len(verdicts) : ResetEligible(verdicts[i]) =>
    verdicts[i].status = "fail" /\ (link # None => Helps(link))

LEMMA WitnessInit == Init => WitnessInv /\ AnswerInv /\ LinkInv
BY StepNamesLemma DEF Init, WitnessInv, AnswerInv, LinkInv, Running

\* Only the start of a run forgets what was true, and what came late.
LEMMA HistoryLemma ==
  ASSUME TypeInv, Next, ~StartRun
  PROVE  hist.was \subseteq hist'.was /\ hist.late \subseteq hist'.late
<1>1. hist = [was |-> hist.was, late |-> hist.late, faults |-> hist.faults]
  BY DEF TypeInv, TypeOK
<1>2. \/ \E aged : KeepWatching(aged)
      \/ UNCHANGED hist
      \/ \E s \in Steps, f \in {TRUE, FALSE} : Blame(s, f)
  <2>1. CASE Directory
    BY <2>1, DirectoryFrame
  <2>2. CASE Diagnose
    BY <2>2, StepInSteps DEF Diagnose, LookUpManagedSystems, ConcludeAvailability,
       CheckManagedSystem, ServeAccount, CheckAccount, ConcludeAccount, CheckAuthEvents,
       NothingRequired, ServeGrants, FetchGrants, FetchPermissionAudit, LookupFailed,
       Blame
  <2> QED BY <2>1, <2>2 DEF Next
<1>3. CASE \E aged : KeepWatching(aged)
  BY <1>1, <1>3 DEF KeepWatching
<1>4. CASE \E s \in Steps, f \in {TRUE, FALSE} : Blame(s, f)
  BY <1>1, <1>4 DEF Blame
<1> QED BY <1>2, <1>3, <1>4

LEMMA WitnessStep == TypeInv /\ WitnessInv /\ [Next]_vars => WitnessInv'
<1> SUFFICES ASSUME TypeInv, WitnessInv, [Next]_vars PROVE WitnessInv'
  OBVIOUS
<1>1. CASE StartRun
  BY <1>1 DEF StartRun, StartWatching, WitnessInv, directory
<1>2. CASE Directory
  <2>1. UNCHANGED run /\ \E aged : KeepWatching(aged)
    BY <1>2, DirectoryFrame
  <2>2. hist = [was |-> hist.was, late |-> hist.late, faults |-> hist.faults]
    BY DEF TypeInv, TypeOK
  <2>3. Running' <=> Running
    BY <2>1 DEF run, Running
  <2> QED BY <2>1, <2>2, <2>3 DEF KeepWatching, WitnessInv, run
<1>3. CASE Diagnose
  <2>1. UNCHANGED <<directory, required>> /\ Running
    BY <1>3 DEF Diagnose, LookUpManagedSystems, ConcludeAvailability,
       CheckManagedSystem, ServeAccount, CheckAccount, ConcludeAccount,
       CheckAuthEvents, NothingRequired, ServeGrants, FetchGrants,
       FetchPermissionAudit, Running, directory
  <2>2. hist.was \subseteq hist'.was
    <3>1. ~StartRun
      BY <2>1 DEF StartRun
    <3> QED BY <1>3, <3>1, HistoryLemma DEF Next
  <2> QED BY <2>1, <2>2 DEF WitnessInv, directory
<1>4. CASE UNCHANGED vars
  BY <1>4 DEF vars, directory, run, local, WitnessInv, Running
<1> QED BY <1>1, <1>2, <1>3, <1>4 DEF Next

\* Only the server's reading of the account makes an answer about it.
LEMMA StatusLemma ==
  ASSUME TypeInv, Diagnose, pc' = "status"
  PROVE  ServeAccount
<1> USE DEF StepError
<1>1. ASSUME Running, NEW status \in VerdictStatus, NEW cause \in Causes,
             Conclude(status, cause)
      PROVE  FALSE
  BY <1>1, ConcludeLemma
<1>2. ASSUME NEW r \in Replies, LookUpManagedSystems(r) PROVE FALSE
  BY <1>2, <1>1 DEF LookUpManagedSystems, ConcludeAvailability, Running, VerdictStatus,
     Causes
<1>3. ASSUME NEW s \in pending, NEW r \in Replies, CheckManagedSystem(s, r) PROVE FALSE
  BY <1>3, <1>1 DEF CheckManagedSystem, ConcludeAvailability, Running, VerdictStatus,
     Causes
<1>4. ASSUME NEW r \in Replies, CheckAccount(r) PROVE FALSE
  BY <1>4, <1>1, CausesLemma DEF CheckAccount, ConcludeAccount, Running, VerdictStatus,
     Causes
<1>5. ASSUME NEW r \in Replies, CheckAuthEvents(r) PROVE FALSE
  <2>1. ASSUME NEW page \in Pages(authLog, asked, AuthWindow, AuthPage),
               NEW latest \in LatestEvents(Parsed(page))
        PROVE  AuthCause(latest) \in Causes
    <3>1. latest \in authLog
      BY <2>1 DEF LatestEvents, Parsed, Pages, InWindow
    <3> QED BY <3>1, CausesLemma, LogLemma
  <2> QED BY <1>5, <2>1, <1>1 DEF CheckAuthEvents, Running, VerdictStatus, Causes
<1>6. CASE NothingRequired
  BY <1>6, <1>1 DEF NothingRequired, Running, VerdictStatus, Causes
<1>7. CASE ServeGrants \/ \E r \in Replies : FetchGrants(r)
  BY <1>7, <1>1 DEF ServeGrants, FetchGrants, Running, VerdictStatus, Causes
<1>8. ASSUME NEW r \in Replies, FetchPermissionAudit(r) PROVE FALSE
  BY <1>8, <1>1, CausesLemma DEF FetchPermissionAudit, Running, VerdictStatus, Causes
<1> QED BY <1>2, <1>3, <1>4, <1>5, <1>6, <1>7, <1>8 DEF Diagnose

LEMMA AnswerStep ==
  TypeInv /\ WitnessInv /\ AnswerInv /\ [Next]_vars => AnswerInv'
<1> SUFFICES ASSUME TypeInv, WitnessInv, AnswerInv, [Next]_vars, pc' = "status"
             PROVE  (AccountFacts(now, answer) \subseteq Seen)'
  BY DEF AnswerInv
<1>1. CASE Directory
  <2>1. /\ pc = "status" /\ answer' = answer /\ Running
    BY <1>1, DirectoryFrame DEF run, local, Running
  <2>2. hist = [was |-> hist.was, late |-> hist.late, faults |-> hist.faults]
    BY DEF TypeInv, TypeOK
  <2>3. CASE now' = now /\ KeepWatching({})
    BY <2>1, <2>2, <2>3 DEF KeepWatching, AnswerInv, Seen
  <2>4. CASE KeepWatching(Aged(now'))
    <3>1. AccountFacts(now', answer) \subseteq hist'.late
      BY <2>1, <2>2, <2>4 DEF KeepWatching, Aged
    <3> QED BY <2>1, <3>1 DEF Seen
  <2> QED BY <1>1, <2>3, <2>4, DirectoryFrame
<1>2. CASE ServeAccount
  <2>1. /\ Running /\ now' = now /\ answer' = user /\ hist' = hist
    BY <1>2 DEF ServeAccount, Running, directory
  <2>2. AccountFacts(now, user) \subseteq hist.was
    BY <2>1 DEF WitnessInv, Facts
  <2> QED BY <2>1, <2>2 DEF Seen
<1>3. CASE StartRun
  BY <1>3 DEF StartRun
<1>4. CASE UNCHANGED vars
  BY <1>4 DEF vars, directory, run, local, AnswerInv, Seen
<1> QED BY <1>1, <1>2, <1>3, <1>4, StatusLemma DEF Next

\* An expired login of the bean is a fact of the account.
LEMMA ExpiredLoginFact ==
  ASSUME NEW t, NEW u, NEW p \in ExpiredLogins(u, t), ~UserStatusRaises(u, t)
  PROVE  <<"expired login", p.sys>> \in AccountFacts(t, u)
<1>1. PICK i \in DOMAIN u.logins : p = u.logins[i]
  BY DEF ExpiredLogins, Range
<1>2. HasPassed(p.pwdExp, t) /\ ~Incomparable(p.pwdExp)
  BY DEF ExpiredLogins, UserStatusRaises
<1>3. Ended(u.logins[i].pwdExp, t)
  BY <1>1, <1>2 DEF HasPassed, Incomparable, ParseEndDate, NoDate, Ended
<1> QED BY <1>1, <1>3 DEF AccountFacts

\* A link is only built for an OPENIAM login, and only when one has expired.
LEMMA LinkLemma ==
  ASSUME NEW u \in UserBean, NEW t, UserStatus(u, t) = "password_expired",
         PasswordResetLink(u, t) # None
  PROVE  /\ <<"OPENIAM login", PasswordResetLink(u, t)>> \in AccountFacts(t, u)
         /\ \E p \in ExpiredLogins(u, t) : p.sys = "OPENIAM"
<1>1. PICK p \in ExpiredLogins(u, t) : p.sys = "OPENIAM"
  BY DEF PasswordResetLink
<1>2. PasswordResetLink(u, t) = SelectLogin(u)
  BY DEF PasswordResetLink
<1>3. HasOpenIAM(u)
  BY <1>1 DEF ExpiredLogins, HasOpenIAM, Range
<1>4. PICK i \in DOMAIN u.logins :
        u.logins[i].sys = "OPENIAM" /\ SelectLogin(u) = u.logins[i].login
  BY <1>3, SelectLemma
<1>5. <<"OPENIAM login", u.logins[i].login>> \in AccountFacts(t, u)
  BY <1>4 DEF AccountFacts
<1> QED BY <1>1, <1>2, <1>4, <1>5

\* A call that concludes with another cause leaves LinkInv alone.
LEMMA OtherCauseLemma ==
  ASSUME TypeInv, LinkInv, Running, UNCHANGED link, Seen \subseteq Seen',
         NEW status \in VerdictStatus, NEW cause \in Causes \ {"password_expired"},
         Conclude(status, cause)
  PROVE  LinkInv'
<1> DEFINE v == [step |-> CurrentStep, status |-> status, cause |-> cause]
           n == Len(verdicts)
<1>1. /\ verdicts \in Seq(Verdict) /\ n \in 0..3
      /\ verdicts' = Append(verdicts, v)
  BY LenProperties DEF TypeInv, TypeOK, OrderInv, Running, Position, Conclude
<1>2. v \in Verdict
  <2> HIDE DEF n
  <2>1. n + 1 \in 1..4
    BY <1>1
  <2>2. CurrentStep \in Steps
    BY <2>1, StepNamesLemma DEF CurrentStep, n
  <2> QED BY <2>2 DEF Verdict
<1>3. ~ResetEligible(v)
  BY DEF ResetEligible
<1> HIDE DEF v
<1>4. /\ Len(verdicts') = n + 1 /\ verdicts'[n + 1] = v
      /\ \A i \in 1..n : verdicts'[i] = verdicts[i]
  BY <1>1, <1>2, AppendProperties
<1>5. \A i \in 1..n : ResetEligible(verdicts[i]) =>
        verdicts[i].status = "fail" /\ (link # None => Helps(link))
  BY DEF LinkInv
<1>7. link' = link /\ (Helps(link) => Helps(link)')
  BY DEF Helps
<1> HIDE DEF n
<1>6. \A i \in 1..(n + 1) : i \in 1..n \/ i = n + 1
  BY <1>1
<1> QED BY <1>3, <1>4, <1>5, <1>6, <1>7 DEF LinkInv

\* The account check is the only call that can make a verdict eligible, and
\* it reads the link from the same bean.
LEMMA AccountLinkLemma ==
  ASSUME TypeInv, AnswerInv, NEW r \in Replies, CheckAccount(r),
         Seen \subseteq Seen'
  PROVE  LinkInv'
<1>1. /\ Running /\ pc = "status" /\ Len(verdicts) = 1
      /\ verdicts \in Seq(Verdict) /\ verdicts[1].step = "system_availability"
  <2>1. /\ Running /\ pc = "status" /\ Len(verdicts) = 1 /\ verdicts \in Seq(Verdict)
    BY DEF CheckAccount, ConcludeAccount, Running, TypeInv, TypeOK, OrderInv, Position
  <2>2. 1 \in 1..Len(verdicts)
    BY <2>1
  <2> QED BY <2>1, <2>2, StepNamesLemma DEF TypeInv, OrderInv
<1>2. CurrentStep = "account_status"
  BY <1>1, StepNamesLemma DEF CurrentStep
<1>3. PICK status \in VerdictStatus, cause \in Causes :
        /\ Conclude(status, cause)
        /\ cause = "password_expired" =>
             /\ status = "fail"
             /\ ~UserStatusRaises(answer, now)
             /\ UserStatus(answer, now) = "password_expired"
             /\ link' = PasswordResetLink(answer, now)
  BY CausesLemma DEF CheckAccount, ConcludeAccount, StepError, VerdictStatus, Causes,
     None
<1> DEFINE v == [step |-> CurrentStep, status |-> status, cause |-> cause]
<1>4. /\ Len(verdicts') = 2 /\ verdicts'[1] = verdicts[1] /\ verdicts'[2] = v
  <2>1. v \in Verdict
    BY <1>2, StepNamesLemma DEF Verdict
  <2>2. verdicts' = Append(verdicts, v)
    BY <1>3 DEF Conclude
  <2> HIDE DEF v
  <2>3. /\ Len(verdicts') = Len(verdicts) + 1 /\ verdicts'[Len(verdicts) + 1] = v
        /\ \A i \in 1..Len(verdicts) : verdicts'[i] = verdicts[i]
    <3>1. Len(verdicts) < 4
      BY <1>1
    <3> QED BY <1>1, <2>1, <2>2, <3>1, AppendLemma
  <2>4. Len(verdicts) + 1 = 2 /\ 1 \in 1..Len(verdicts)
    BY <1>1
  <2> QED BY <2>3, <2>4
<1>5. ~ResetEligible(verdicts[1])
  BY <1>1 DEF ResetEligible
<1>6. ASSUME ResetEligible(v)
      PROVE  v.status = "fail" /\ (link' # None => Helps(link)')
  <2>1. cause = "password_expired"
    BY <1>6 DEF ResetEligible
  <2>2. ASSUME link' # None PROVE Helps(link)'
    <3>1. answer \in UserBean
      BY DEF TypeInv, TypeOK
    <3>2. /\ <<"OPENIAM login", link'>> \in AccountFacts(now, answer)
          /\ \E p \in ExpiredLogins(answer, now) : p.sys = "OPENIAM"
      BY <1>3, <2>1, <2>2, <3>1, LinkLemma
    <3>3. <<"expired login", "OPENIAM">> \in AccountFacts(now, answer)
      BY <1>3, <2>1, <3>2, ExpiredLoginFact
    <3> QED BY <1>1, <3>2, <3>3 DEF AnswerInv, Helps
  <2> QED BY <1>3, <2>1, <2>2
<1> HIDE DEF v
<1>7. \A i \in 1..Len(verdicts') : i = 1 \/ i = 2
  BY <1>4
<1> QED BY <1>4, <1>5, <1>6, <1>7 DEF LinkInv

LEMMA LinkStep == TypeInv /\ AnswerInv /\ LinkInv /\ [Next]_vars => LinkInv'
<1> SUFFICES ASSUME TypeInv, AnswerInv, LinkInv, [Next]_vars PROVE LinkInv'
  OBVIOUS
<1> USE DEF StepError
<1>1. CASE StartRun
  <2>1. verdicts' = <<>>
    BY <1>1 DEF StartRun
  <2>2. Len(verdicts') = 0 /\ 1..0 = {}
    BY <2>1
  <2> QED BY <2>2 DEF LinkInv
<1>2. ASSUME Next, ~StartRun, UNCHANGED <<verdicts, link>> PROVE LinkInv'
  <2>1. Seen \subseteq Seen'
    BY <1>2, HistoryLemma DEF Seen
  <2>2. Helps(link) => Helps(link)'
    BY <1>2, <2>1 DEF Helps
  <2> QED BY <1>2, <2>2 DEF LinkInv
<1>3. CASE UNCHANGED vars
  BY <1>3 DEF vars, run, local, LinkInv, Helps, Seen
<1>4. CASE Directory
  <2>1. UNCHANGED <<verdicts, link>>
    BY <1>4, DirectoryFrame DEF run, local
  <2> QED BY <1>1, <1>2, <1>4, <2>1 DEF Next
<1>5. CASE Diagnose
  <2>1. Running /\ ~StartRun
    BY <1>5 DEF Diagnose, LookUpManagedSystems, ConcludeAvailability,
       CheckManagedSystem, ServeAccount, CheckAccount, ConcludeAccount,
       CheckAuthEvents, NothingRequired, ServeGrants, FetchGrants,
       FetchPermissionAudit, Running, StartRun
  <2>2. Seen \subseteq Seen'
    BY <1>5, <2>1, HistoryLemma DEF Next, Seen
  <2>3. ASSUME UNCHANGED <<verdicts, link>> PROVE LinkInv'
    BY <1>2, <1>5, <2>1, <2>3 DEF Next
  <2>4. ASSUME UNCHANGED link, NEW status \in VerdictStatus,
               NEW cause \in Causes \ {"password_expired"}, Conclude(status, cause)
        PROVE  LinkInv'
    BY <2>1, <2>2, <2>4, OtherCauseLemma
  <2>5. ASSUME NEW r \in Replies, LookUpManagedSystems(r) PROVE LinkInv'
    BY <2>3, <2>4, <2>5 DEF LookUpManagedSystems, ConcludeAvailability,
       VerdictStatus, Causes, None
  <2>6. ASSUME NEW s \in pending, NEW r \in Replies, CheckManagedSystem(s, r)
        PROVE  LinkInv'
    BY <2>3, <2>4, <2>6 DEF CheckManagedSystem, ConcludeAvailability, VerdictStatus,
       Causes, None
  <2>7. ASSUME NEW r \in Replies, CheckAccount(r) PROVE LinkInv'
    BY <2>2, <2>7, AccountLinkLemma
  <2>8. ASSUME NEW r \in Replies, CheckAuthEvents(r) PROVE LinkInv'
    <3>1. ASSUME NEW page \in Pages(authLog, asked, AuthWindow, AuthPage),
                 NEW latest \in LatestEvents(Parsed(page))
          PROVE  AuthCause(latest) \in Causes \ {"password_expired"}
      <4>1. latest \in authLog
        BY <3>1 DEF LatestEvents, Parsed, Pages, InWindow
      <4> QED BY <4>1, LogLemma DEF AuthCause, AuthActions, Causes, None
    <3>2. link' = link
      BY <2>8 DEF CheckAuthEvents, local
    <3> QED BY <2>4, <2>8, <3>1, <3>2 DEF CheckAuthEvents, VerdictStatus, Causes, None
  <2>9. CASE NothingRequired
    BY <2>4, <2>9 DEF NothingRequired, local, VerdictStatus, Causes, None
  <2>10. ASSUME NEW r \in Replies, FetchGrants(r) PROVE LinkInv'
    BY <2>3, <2>4, <2>10 DEF FetchGrants, VerdictStatus, Causes, None
  <2>11. ASSUME NEW r \in Replies, FetchPermissionAudit(r) PROVE LinkInv'
    BY <2>4, <2>11, CausesLemma DEF FetchPermissionAudit, local, VerdictStatus, Causes,
       None
  <2>12. CASE ServeAccount \/ ServeGrants
    BY <2>3, <2>12 DEF ServeAccount, ServeGrants
  <2> QED BY <1>5, <2>5, <2>6, <2>7, <2>8, <2>9, <2>10, <2>11, <2>12 DEF Diagnose
<1> QED BY <1>1, <1>3, <1>4, <1>5 DEF Next

\* A reset link in a message is that of an OPENIAM login, and an OPENIAM password
\* had expired at some instant of the run, or of the way of the answer that says
\* so: a reset that the clock and the answer cross is the only one it can miss.
THEOREM ResetLinkHelpsCorrect == Spec => []ResetLinkHelps
<1>1. Init => ResultInv
  BY DEF Init, ResultInv, Done
<1>2. TypeInv /\ ResultInv /\ LinkInv => ResetLinkHelps
  <2> SUFFICES ASSUME TypeInv, ResultInv, LinkInv, Done, MessageLink(result) # None
               PROVE  /\ Helps(MessageLink(result))
                      /\ VerdictMessage(result) = "reset_password"
    BY DEF ResetLinkHelps, Helps
  <2> DEFINE v == Last(verdicts)
             n == Len(verdicts)
  <2>1. verdicts # <<>> /\ result = Finalize(verdicts, link)
    BY DEF ResultInv
  <2>2. n \in 1..n /\ v = verdicts[n]
    BY <2>1, EmptySeq, LenProperties DEF TypeInv, TypeOK, Last
  <2>3. Last(result.verdicts) = v
    BY <2>1 DEF Finalize
  <2>4. ResetEligible(v) /\ MessageLink(result) = link
    BY <2>1, <2>3 DEF MessageLink, Finalize
  <2>5. v.status = "fail" /\ (link # None => Helps(link))
    BY <2>2, <2>4 DEF LinkInv
  <2>6. VerdictMessage(result) = "reset_password"
    BY <2>3, <2>4, <2>5
       DEF VerdictMessage, FailMessage, AccountMessage, ResetEligible
  <2> QED BY <2>4, <2>5, <2>6
<1> QED
  BY <1>1, <1>2, TypeInit, TypeStep, ResultStep, WitnessInit, WitnessStep, AnswerStep,
     LinkStep, PTL
  DEF Spec

-----------------------------------------------------------------------------
(* The run implements Diagnosis *)

LEMMA SameVocabulary ==
  /\ Promised!StepNames = StepNames /\ Promised!VerdictStatus = VerdictStatus
  /\ Promised!Causes = Causes /\ Promised!Outcome = Outcome
  /\ Promised!None = None /\ Promised!NoResult = NoResult
BY DEF Promised!StepNames, StepNames, Promised!VerdictStatus, VerdictStatus,
       Promised!Causes, Causes, Promised!Outcome, Outcome, Promised!None, None,
       Promised!NoResult, NoResult

\* The outcome table only names outcomes the promise allows.
LEMMA OutcomeAllowed == \A v : OutcomeOf(v) \in Promised!Allowed(v)
BY DEF OutcomeOf, ResolveFailOutcome, AccountStatusOutcome, AuthorizationOutcome,
       Promised!Allowed

\* A concluding call is a Judge step of the promise.
LEMMA ConcludeJudges ==
  ASSUME TypeInv, TypeInv', Running,
         NEW status \in VerdictStatus, NEW cause \in Causes, Conclude(status, cause)
  PROVE  Promised!Judge(status, cause)
<1> DEFINE v == [step |-> CurrentStep, status |-> status, cause |-> cause]
           n == Len(verdicts)
<1>1. /\ verdicts \in Seq(Verdict) /\ n \in 0..3 /\ Len(verdicts) = n
      /\ verdicts' = Append(verdicts, v)
      /\ v.step = StepNames[n + 1] /\ v.status = status /\ v.cause = cause
  BY LenProperties
     DEF TypeInv, TypeOK, OrderInv, Running, Position, Conclude, CurrentStep
<1>2. v = [step |-> StepNames[Len(verdicts) + 1], status |-> status, cause |-> cause]
  BY DEF CurrentStep
<1> HIDE DEF n
<1>3. v \in Verdict
  <2>1. n + 1 \in 1..4
    BY <1>1
  <2>2. v.step \in Steps
    BY <1>1, <2>1, StepNamesLemma
  <2> QED BY <1>1, <2>2 DEF Verdict
<1> HIDE DEF v
<1>4. /\ Len(verdicts') = n + 1 /\ verdicts'[n + 1] = v /\ Last(verdicts') = v
      /\ n + 1 \in 1..Len(verdicts')
  <2>1. Len(verdicts) < 4
    BY <1>1
  <2>2. /\ Len(verdicts') = n + 1 /\ verdicts'[n + 1] = v /\ Last(verdicts') = v
    BY <1>1, <1>3, <2>1, AppendLemma
  <2>3. n + 1 \in 1..(n + 1)
    BY <1>1
  <2> QED BY <2>2, <2>3
<1>5. CASE Stops(status, Len(verdicts'))
  <2>1. pc' = "done" /\ result' = Finalize(verdicts', link')
    BY <1>5 DEF Conclude
  <2>2. PICK l : l = IF ResetEligible(v) THEN link' ELSE None
    OBVIOUS
  <2>3. result' = [verdicts  |-> verdicts', outcome |-> OutcomeOf(v),
                   escalated |-> OutcomeOf(v) = "escalation", link |-> l]
    BY <2>1, <2>2, <1>4 DEF Finalize
  <2>4. l \in Text \cup {None} /\ (l # None => v.cause = "password_expired")
    BY <2>2, <1>4 DEF ResetEligible, TypeInv, TypeOK
  <2>5. Promised!Publish(v, OutcomeOf(v), l)
    BY <2>3, <2>4, OutcomeAllowed, SameVocabulary DEF Promised!Publish
  <2>6. status # "pass" \/ Len(verdicts) + 1 = Len(StepNames)
    BY <1>5, <1>4, <1>1 DEF Stops
  <2>7. OutcomeOf(v) \in Outcome
    BY OutcomeLemma
  <2> QED BY <2>1, <2>4, <2>5, <2>6, <2>7, <1>1, <1>2, SameVocabulary
          DEF Promised!Judge, Running
<1>6. CASE ~Stops(status, Len(verdicts'))
  <2>1. pc' = CallOf(StepNames[Len(verdicts') + 1]) /\ result' = result
    BY <1>6 DEF Conclude
  <2>2. status = "pass" /\ n + 1 # 4
    BY <1>6, <1>4, StepNamesLemma DEF Stops
  <2>3. n + 2 \in 2..4 /\ n + 1 < 4
    BY <1>1, <2>2
  <2>4. StepNames[n + 2] \in {"account_status", "auth_events", "authorization"}
    BY <2>3, StepNamesLemma
  <2>5. Len(verdicts') + 1 = n + 2
    BY <1>1, <1>4
  <2>6. Running'
    BY <2>1, <2>4, <2>5 DEF CallOf, Running
  <2>7. Len(verdicts) + 1 < Len(StepNames)
    BY <1>1, <2>3, StepNamesLemma
  <2> QED BY <2>1, <2>2, <2>6, <2>7, <1>1, <1>2, SameVocabulary
          DEF Promised!Judge
<1> QED BY <1>5, <1>6

LEMMA SimulationStep ==
  TypeInv /\ TypeInv' /\ [Next]_vars => [Promised!Next]_(Promised!vars)
<1> SUFFICES ASSUME TypeInv, TypeInv', [Next]_vars
             PROVE  [Promised!Next]_(Promised!vars)
  OBVIOUS
<1> USE DEF StepError
<1>1. ASSUME Running, NEW status \in VerdictStatus, NEW cause \in Causes,
             Conclude(status, cause)
      PROVE  Promised!Next
  BY <1>1, ConcludeJudges, SameVocabulary DEF Promised!Next
<1>2. ASSUME Running, Running', UNCHANGED <<verdicts, result>>
      PROVE  UNCHANGED Promised!vars
  BY <1>2 DEF Promised!vars
<1>3. CASE UNCHANGED run
  BY <1>3 DEF run, Running, Promised!vars
<1>4. CASE StartRun
  BY <1>4, SameVocabulary DEF StartRun, Running, Promised!Next, Promised!Begin
<1>5. CASE Directory
  BY <1>3, <1>5, DirectoryFrame
<1>6. CASE Diagnose
  <2>1. ASSUME NEW r \in Replies, LookUpManagedSystems(r)
        PROVE  [Promised!Next]_(Promised!vars)
    BY <2>1, <1>1, <1>2 DEF LookUpManagedSystems, ConcludeAvailability, Running,
       VerdictStatus, Causes, None
  <2>2. ASSUME NEW s \in pending, NEW r \in Replies, CheckManagedSystem(s, r)
        PROVE  [Promised!Next]_(Promised!vars)
    BY <2>2, <1>1, <1>2 DEF CheckManagedSystem, ConcludeAvailability, Running,
       VerdictStatus, Causes, None
  <2>3. ASSUME NEW r \in Replies, CheckAccount(r) PROVE Promised!Next
    BY <2>3, <1>1, CausesLemma DEF CheckAccount, ConcludeAccount, Running,
       VerdictStatus, Causes, None
  <2>4. ASSUME NEW r \in Replies, CheckAuthEvents(r) PROVE Promised!Next
    <3>1. ASSUME NEW page \in Pages(authLog, asked, AuthWindow, AuthPage),
                 NEW latest \in LatestEvents(Parsed(page))
          PROVE  AuthCause(latest) \in Causes
      <4>1. latest \in authLog
        BY <3>1 DEF LatestEvents, Parsed, Pages, InWindow
      <4> QED BY <4>1, CausesLemma, LogLemma
    <3> QED BY <2>4, <1>1, <3>1
            DEF CheckAuthEvents, Running, VerdictStatus, Causes, None
  <2>5. CASE NothingRequired
    BY <2>5, <1>1 DEF NothingRequired, Running, VerdictStatus, Causes, None
  <2>6. ASSUME NEW r \in Replies, FetchGrants(r)
        PROVE  [Promised!Next]_(Promised!vars)
    BY <2>6, <1>1, <1>2 DEF FetchGrants, Running, VerdictStatus, Causes, None
  <2>7. ASSUME NEW r \in Replies, FetchPermissionAudit(r) PROVE Promised!Next
    BY <2>7, <1>1, CausesLemma
       DEF FetchPermissionAudit, Running, VerdictStatus, Causes, None
  <2>8. CASE ServeAccount \/ ServeGrants
    BY <2>8, <1>2 DEF ServeAccount, ServeGrants, Running
  <2> QED BY <1>6, <2>1, <2>2, <2>3, <2>4, <2>5, <2>6, <2>7, <2>8 DEF Diagnose
<1> QED BY <1>3, <1>4, <1>5, <1>6 DEF Next, vars

\* Every behaviour of the funnel is a behaviour of the promised diagnosis.
THEOREM FunnelImplementsDiagnosis == Spec => ImplementsDiagnosis
<1>1. Init => Promised!Init
  BY SameVocabulary DEF Init, Promised!Init, Running
<1> QED
  BY <1>1, TypeInit, TypeStep, SimulationStep, PTL
  DEF Spec, ImplementsDiagnosis, Promised!Spec
=============================================================================
