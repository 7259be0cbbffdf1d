------------------------- MODULE VerdictTruthProofs -------------------------
(***************************************************************************)
(* What the funnel tells the user was true: EveryVerdictWasTrue and        *)
(* ResetLinkOffered of DiagnosticFunnel, for every directory and bounds.   *)
(*                                                                         *)
(* First what each call reads, against the facts of the instant at which   *)
(* it reads; then the invariant that carries those facts to the end of the *)
(* run.                                                                    *)
(***************************************************************************)
EXTENDS DiagnosticFunnelProofs

-----------------------------------------------------------------------------
(* What one call reads is a fact of that instant *)

\* The elements of the grants are those of the roles and those of the groups.
LEMMA GrantsLemma ==
  ASSUME NEW u \in UserBean
  PROVE  /\ Grants(u) \in Seq(GrantBean)
         /\ DOMAIN Grants(u) = 1..Len(Grants(u))
         /\ Range(Grants(u)) = Range(u.roles) \cup Range(u.groups)
         /\ \A g \in Range(Grants(u)) : g \in GrantBean
         /\ Grants(u) = <<>> <=> u.roles = <<>> /\ u.groups = <<>>
<1>1. u.roles \in Seq(GrantBean) /\ u.groups \in Seq(GrantBean)
  BY DEF UserBean
<1>2. /\ Grants(u) \in Seq(GrantBean)
      /\ Len(Grants(u)) = Len(u.roles) + Len(u.groups)
  BY <1>1, ConcatProperties DEF Grants
<1>3. Range(Grants(u)) = Range(u.roles) \cup Range(u.groups)
  BY <1>1, RangeConcatenation DEF Grants
<1>4. DOMAIN Grants(u) = 1..Len(Grants(u))
  BY <1>2, LenProperties
<1>5. \A g \in Range(Grants(u)) : g \in GrantBean
  BY <1>2, <1>4, ElementOfSeq DEF Range
<1>6. Grants(u) = <<>> <=> u.roles = <<>> /\ u.groups = <<>>
  <2>1. \A s \in Seq(GrantBean) : s = <<>> <=> Len(s) = 0
    BY EmptySeq
  <2>2. Len(u.roles) \in Nat /\ Len(u.groups) \in Nat
    BY <1>1, LenProperties
  <2>3. /\ Grants(u) = <<>> <=> Len(Grants(u)) = 0
        /\ u.roles = <<>> <=> Len(u.roles) = 0
        /\ u.groups = <<>> <=> Len(u.groups) = 0
    BY <1>1, <1>2, <2>1
  <2>4. Len(u.roles) + Len(u.groups) = 0 <=> Len(u.roles) = 0 /\ Len(u.groups) = 0
    <3> DEFINE m == Len(u.roles)  n == Len(u.groups)
    <3>1. m \in Nat /\ n \in Nat
      BY <2>2
    <3> HIDE DEF m, n
    <3>2. m + n = 0 <=> m = 0 /\ n = 0
      BY <3>1
    <3> QED BY <3>2 DEF m, n
  <2> QED BY <1>2, <2>3, <2>4
<1> QED BY <1>2, <1>3, <1>4, <1>5, <1>6

\* When the scan of the grants does not raise, it finds every one passed exactly
\* when every role and every group has ended.
LEMMA GrantsEndedLemma ==
  ASSUME NEW t \in Int, NEW u \in UserBean, ~GrantScanRaises(u, t)
  PROVE  (Grants(u) # <<>> /\ \A g \in Range(Grants(u)) : HasPassed(g.end, t))
           <=> /\ u.roles # <<>> \/ u.groups # <<>>
               /\ \A i \in DOMAIN u.roles  : Ended(u.roles[i].end, t)
               /\ \A i \in DOMAIN u.groups : Ended(u.groups[i].end, t)
<1> DEFINE all == Grants(u)
<1>1. \A d : Ended(d, t) <=> HasPassed(d, t) /\ ~Incomparable(d)
  BY DEF Ended, HasPassed, Incomparable, ParseEndDate, NoDate
<1>2. (\A g \in Range(all) : Ended(g.end, t))
        <=> /\ \A i \in DOMAIN u.roles  : Ended(u.roles[i].end, t)
            /\ \A i \in DOMAIN u.groups : Ended(u.groups[i].end, t)
  BY GrantsLemma DEF Range
<1>3. ASSUME \A g \in Range(all) : HasPassed(g.end, t), NEW i \in DOMAIN all
      PROVE  ~Incomparable(all[i].end)
  <2>1. \A j \in 1..(i - 1) : HasPassed(all[j].end, t)
    <3>1. i \in 1..Len(all) /\ Len(all) \in Nat
      BY <1>3, GrantsLemma, LenProperties
    <3>2. \A j \in 1..(i - 1) : j \in DOMAIN all
      BY <3>1, GrantsLemma
    <3> QED BY <1>3, <3>2 DEF Range
  <2> QED BY <1>3, <2>1 DEF GrantScanRaises
<1>4. (\A g \in Range(all) : HasPassed(g.end, t)) <=> \A g \in Range(all) : Ended(g.end, t)
  BY <1>1, <1>3 DEF Range
<1>5. all # <<>> <=> u.roles # <<>> \/ u.groups # <<>>
  BY GrantsLemma
<1> QED BY <1>2, <1>4, <1>5

\* A search whose events fit the page answers with all of them.
LEMMA WholePageLemma ==
  ASSUME NEW log, IsFiniteSet(log), NEW t, NEW window, NEW size \in Nat,
         ~(Cardinality(InWindow(log, t, window)) > size),
         NEW page \in Pages(log, t, window, size)
  PROVE  page = InWindow(log, t, window)
<1>1. Cardinality(InWindow(log, t, window)) \in Nat
  <2>1. InWindow(log, t, window) \subseteq log
    BY DEF InWindow
  <2> QED BY <2>1, FS_Subset, FS_CardinalityType
<1> QED BY <1>1 DEF Pages

\* What get_user_status answers without raising is the account's status.
LEMMA AccountTruth ==
  ASSUME NEW t \in Int, NEW u \in UserBean, u.exists, ~UserStatusRaises(u, t)
  PROVE  <<"account_status",
           IF UserStatus(u, t) = "active" THEN None ELSE UserStatus(u, t)>>
         \in AccountFacts(t, u)
<1> DEFINE lockedOut == u.secondary \in {"LOCKED", "LOCKED_ADMIN"}
           removed   == \/ \E i \in DOMAIN u.logins : u.logins[i].deleted
                        \/ /\ u.roles # <<>> \/ u.groups # <<>>
                           /\ \A i \in DOMAIN u.roles  : Ended(u.roles[i].end, t)
                           /\ \A i \in DOMAIN u.groups : Ended(u.groups[i].end, t)
           stale     == {i \in DOMAIN u.logins : Ended(u.logins[i].pwdExp, t)}
<1>1. Locked(u) <=> lockedOut
  BY DEF Locked
<1>2. LoginDeleted(u) <=> \E i \in DOMAIN u.logins : u.logins[i].deleted
  BY DEF LoginDeleted, Range
<1>3. ASSUME ~lockedOut PROVE Deprovisioned(u, t) <=> removed
  <2>1. CASE LoginDeleted(u)
    BY <1>2, <2>1 DEF Deprovisioned
  <2>2. CASE ~LoginDeleted(u)
    <3>1. ~GrantScanRaises(u, t)
      BY <1>1, <1>3, <2>2 DEF UserStatusRaises
    <3> QED BY <1>2, <2>2, <3>1, GrantsEndedLemma DEF Deprovisioned
  <2> QED BY <2>1, <2>2
<1>4. ExpiredLogins(u, t) # {} <=> stale # {}
  <2>1. \A i \in DOMAIN u.logins : ~Incomparable(u.logins[i].pwdExp)
    BY DEF UserStatusRaises, Range
  <2>2. \A i \in DOMAIN u.logins :
          HasPassed(u.logins[i].pwdExp, t) <=> Ended(u.logins[i].pwdExp, t)
    BY <2>1 DEF HasPassed, Incomparable, ParseEndDate, NoDate, Ended
  <2> QED BY <2>2 DEF ExpiredLogins, Range
<1> DEFINE c == IF UserStatus(u, t) = "active" THEN None ELSE UserStatus(u, t)
<1>5. /\ c = "locked" => lockedOut
      /\ c = "deprovisioned" => ~lockedOut /\ removed
      /\ c = "disabled" => ~lockedOut /\ ~removed /\ u.status # "ACTIVE"
      /\ c = "password_expired" =>
           ~lockedOut /\ ~removed /\ u.status = "ACTIVE" /\ stale # {}
      /\ c = None => ~lockedOut /\ ~removed /\ u.status = "ACTIVE" /\ stale = {}
      /\ c \in {"locked", "deprovisioned", "disabled", "password_expired", None}
  <2> HIDE DEF lockedOut, removed, stale
  <2> QED BY <1>1, <1>3, <1>4 DEF UserStatus, None
<1> HIDE DEF c
<1>6. <<"account_status", c>> \in AccountFacts(t, u)
  BY <1>5 DEF AccountFacts, None
<1> QED BY <1>6 DEF c

\* An account that does not exist is not found.
LEMMA NoAccountTruth ==
  ASSUME NEW t, NEW u, ~u.exists
  PROVE  <<"account_status", "not_found">> \in AccountFacts(t, u)
BY DEF AccountFacts

\* The check of a managed system finds it up or down as its history says.
LEMMA SystemTruth ==
  ASSUME NEW u, NEW d, d \in [DOMAIN d -> Seq(ConnectionReply)],
         NEW s \in ManagedSystems(u), s \in DOMAIN d
  PROVE  <<IF ConfirmedDown(d[s]) THEN "down" ELSE "up", s>> \in SystemFacts(u, d)
<1> DEFINE rs     == d[s]
           dated  == {i \in DOMAIN rs : rs[i].dated}
           latest == IF dated = {} THEN {Len(rs)} \cap DOMAIN rs
                     ELSE {i \in dated : \A j \in dated : rs[j].at <= rs[i].at}
           facts  == IF latest = {} THEN {<<"up", s>>}
                     ELSE {<<IF rs[i].ok THEN "up" ELSE "down", s>> : i \in latest}
<1>1. rs \in Seq(ConnectionReply) /\ DOMAIN rs = 1..Len(rs) /\ Len(rs) \in Nat
  <2>1. rs \in Seq(ConnectionReply)
    OBVIOUS
  <2> HIDE DEF rs
  <2> QED BY <2>1, LenProperties
<1>2. \A i \in DOMAIN rs : rs[i].at \in Int /\ rs[i].ok \in BOOLEAN
  <2> HIDE DEF rs
  <2>1. \A i \in DOMAIN rs : rs[i] \in ConnectionReply
    BY <1>1, ElementOfSeq
  <2> QED BY <2>1 DEF ConnectionReply
<1>3. facts \subseteq SystemFacts(u, d)
  <2> DEFINE F(z) ==
        LET q      == d[z]
            tested == {i \in DOMAIN q : q[i].dated}
            last   == IF tested = {} THEN {Len(q)} \cap DOMAIN q
                      ELSE {i \in tested : \A j \in tested : q[j].at <= q[i].at}
        IN  IF last = {} THEN {<<"up", z>>}
            ELSE {<<IF q[i].ok THEN "up" ELSE "down", z>> : i \in last}
             S    == {u.logins[i].sys : i \in DOMAIN u.logins} \ {"unknown system"}
  <2>1. s \in S
    BY DEF ManagedSystems, Range
  <2>2. SystemFacts(u, d) = UNION {F(z) : z \in S}
    BY DEF SystemFacts
  <2>3. facts = F(s)
    OBVIOUS
  <2> HIDE DEF F, S, facts
  <2> QED BY <2>1, <2>2, <2>3
<1>4. <<IF ConfirmedDown(rs) THEN "down" ELSE "up", s>> \in facts
  <2>1. CASE dated = {} /\ rs = <<>>
    BY <1>1, <2>1 DEF ConfirmedDown
  <2>2. CASE dated = {} /\ rs # <<>>
    <3>1. Len(rs) \in DOMAIN rs
      BY <1>1, <2>2, EmptySeq
    <3>2. latest = {Len(rs)}
      BY <2>2, <3>1
    <3>3. LatestReply(rs) = rs[Len(rs)]
      BY <2>2 DEF LatestReply, Last
    <3> HIDE DEF rs
    <3> QED BY <1>2, <2>2, <3>1, <3>2, <3>3 DEF ConfirmedDown
  <2>3. CASE dated # {}
    <3> DEFINE newest == CHOOSE i \in dated : \A j \in dated :
                           \/ rs[j].at < rs[i].at
                           \/ rs[j].at = rs[i].at /\ i <= j
    <3>1. /\ newest \in dated
          /\ \A j \in dated : \/ rs[j].at < rs[newest].at
                              \/ rs[j].at = rs[newest].at /\ newest <= j
      <4>1. dated \in SUBSET (1..Len(rs))
        BY <1>1
      <4> HIDE DEF rs, dated
      <4> QED BY <1>1, <2>3, <4>1, NewestLemma
    <3>2. LatestReply(rs) = rs[newest] /\ rs # <<>>
      <4>1. LatestReply(rs) = rs[newest]
        BY <2>3 DEF LatestReply
      <4>2. rs # <<>>
        BY <2>3
      <4> QED BY <4>1, <4>2
    <3> HIDE DEF newest
    <3>3. newest \in latest
      BY <1>1, <1>2, <2>3, <3>1
    <3> HIDE DEF rs, dated, latest
    <3>4. newest \in DOMAIN rs
      BY <3>1 DEF dated
    <3> QED BY <1>2, <3>2, <3>3, <3>4 DEF ConfirmedDown
  <2> QED BY <2>1, <2>2, <2>3
<1> QED BY <1>3, <1>4

\* A page that holds all it should is the whole window, and the newest sign-in
\* it shows is the newest of the window.
LEMMA AuthTruth ==
  ASSUME NEW t \in Int, NEW al \in SUBSET SignInEvent, IsFiniteSet(al),
         ~(Cardinality(InWindow(al, t, AuthWindow)) > AuthPage),
         NEW page \in Pages(al, t, AuthWindow, AuthPage)
  PROVE  /\ Parsed(page) = {} => <<"auth_events", None>> \in AuthFacts(t, al)
         /\ \A e \in LatestEvents(Parsed(page)) :
              <<"auth_events", IF e.ok THEN None ELSE AuthCause(e)>> \in AuthFacts(t, al)
<1>1. AuthPage \in Nat
  BY BoundsAssumption
<1>2. page = InWindow(al, t, AuthWindow)
  BY <1>1, WholePageLemma
<1>3. Parsed(page) =
        {e \in al : e.kind \in {"naive", "aware"} /\ e.at \in (t - AuthWindow)..t}
  BY <1>2 DEF Parsed, InWindow
<1> QED BY <1>3 DEF AuthFacts, LatestEvents, AuthCause

-----------------------------------------------------------------------------
(* Grants and revocations *)

\* A grant that has not ended at t, a date that does not parse being no date.
HeldAt(g, t) == g.end.kind \in {"none", "garbled"} \/ g.end.at > t

\* The required names nobody holds at t, and those of them that had ended.
Lacks(u, need, t) ==
  {n \in need : ~(u.exists /\ \E g \in Range(Grants(u)) : g.name = n /\ HeldAt(g, t))}

RanOut(u, need, t) ==
  {n \in Lacks(u, need, t) : u.exists /\ \E g \in Range(Grants(u)) : g.name = n}

\* A removal of n that the audit search finds whose window ends at t.
Revoked(pl, n, t) ==
  \E e \in pl :
    /\ e.kind \in {"naive", "aware"} /\ e.action = "REVOKE"
    /\ e.at \in (t - AuditWindow)..t /\ n \in e.names

\* What the grants alone say of the lacking names, of which some had ended...
GrantsCause(lacks, ended) ==
  IF lacks = {} THEN None ELSE IF ended # {} THEN "access_expired" ELSE "missing_role"

\* ...and what they say when the audit log is read as well.
Cause(names, ended, pl, t) ==
  IF \E n \in names : Revoked(pl, n, t) THEN "access_revoked"
  ELSE GrantsCause(names, ended)

\* Two grants of one name.
Twice(u, n) ==
  u.exists /\ \E i, j \in DOMAIN Grants(u) :
    i # j /\ Grants(u)[i].name = n /\ Grants(u)[j].name = n

\* What is true of the required access at one instant.
LEMMA AccessFactsLemma ==
  ASSUME NEW t, NEW u, NEW pl, NEW need
  PROVE  /\ <<"authorization", Cause(Lacks(u, need, t), RanOut(u, need, t), pl, t)>>
              \in AccessFacts(t, u, pl, need)
         /\ \A n \in need : Twice(u, n) => <<"twice", n>> \in AccessFacts(t, u, pl, need)
<1> DEFINE all     == IF u.exists THEN u.roles \o u.groups ELSE <<>>
           holds   == {n \in need : \E i \in DOMAIN all :
                         /\ all[i].name = n
                         /\ \/ all[i].end.kind \in {"none", "garbled"}
                            \/ all[i].end.at > t}
           lacks   == need \ holds
           ran_out == {n \in lacks : \E i \in DOMAIN all : all[i].name = n}
           taken   == {n \in lacks : \E e \in pl :
                         /\ e.kind \in {"naive", "aware"} /\ e.action = "REVOKE"
                         /\ e.at \in (t - AuditWindow)..t /\ n \in e.names}
           cause   == IF lacks = {} THEN None
                      ELSE IF taken # {} THEN "access_revoked"
                      ELSE IF ran_out # {} THEN "access_expired" ELSE "missing_role"
           twice   == {m \in need : \E i, j \in DOMAIN all :
                         i # j /\ all[i].name = m /\ all[j].name = m}
<1>1. AccessFacts(t, u, pl, need) =
        {<<"authorization", cause>>} \cup {<<"twice", n>> : n \in twice}
  BY DEF AccessFacts
<1>2. DOMAIN <<>> = {}
  OBVIOUS
<1>3. lacks = Lacks(u, need, t)
  <2>1. \A n : (\E i \in DOMAIN all : all[i].name = n /\ HeldAt(all[i], t))
          <=> u.exists /\ \E g \in Range(Grants(u)) : g.name = n /\ HeldAt(g, t)
    BY <1>2 DEF Grants, Range
  <2>2. holds = {n \in need : \E i \in DOMAIN all : all[i].name = n /\ HeldAt(all[i], t)}
    BY DEF HeldAt
  <2> HIDE DEF all, holds
  <2> QED BY <2>1, <2>2 DEF Lacks
<1>4. ran_out = RanOut(u, need, t)
  <2>1. \A n : (\E i \in DOMAIN all : all[i].name = n)
          <=> u.exists /\ \E g \in Range(Grants(u)) : g.name = n
    BY <1>2 DEF Grants, Range
  <2> HIDE DEF all, lacks
  <2> QED BY <1>3, <2>1 DEF RanOut
<1>5. \A n \in need : Twice(u, n) => n \in twice
  BY DEF Twice, Grants
<1> HIDE DEF lacks, ran_out, all, twice
<1>6. taken # {} <=> \E n \in Lacks(u, need, t) : Revoked(pl, n, t)
  BY <1>3 DEF Revoked
<1> HIDE DEF taken
<1>7. cause = Cause(Lacks(u, need, t), RanOut(u, need, t), pl, t)
  BY <1>3, <1>4, <1>6 DEF Cause, GrantsCause
<1> HIDE DEF cause
<1> QED BY <1>1, <1>5, <1>7

\* The names step 4 finds missing are those nobody holds, and the expired ones
\* among them are those whose grants had all ended.
LEMMA GrantsTruth ==
  ASSUME NEW t \in Int, NEW u \in UserBean, u.exists, ~GrantsRaise(u), NEW need
  PROVE  /\ need \ HeldNames(u, t) = Lacks(u, need, t)
         /\ (need \ HeldNames(u, t)) \cap ExpiredNames(u, t) = RanOut(u, need, t)
<1>1. \A g \in Range(Grants(u)) : StillHeld(g.end, t) <=> HeldAt(g, t)
  <2>1. \A g \in Range(Grants(u)) : g.end \in Date /\ ~Incomparable(g.end)
    BY GrantsLemma DEF GrantBean, GrantsRaise
  <2>2. \A g : g.end \in Date /\ ~Incomparable(g.end) => (StillHeld(g.end, t) <=> HeldAt(g, t))
    BY DEF Date, DateKinds, Incomparable, ParseEndDate, StillHeld, HeldAt, NoDate
  <2> QED BY <2>1, <2>2
<1>2. need \ HeldNames(u, t) = Lacks(u, need, t)
  BY <1>1 DEF HeldNames, Lacks
<1>3. Lacks(u, need, t) \cap ExpiredNames(u, t) = RanOut(u, need, t)
  BY <1>1 DEF ExpiredNames, RanOut, Lacks
<1> QED BY <1>2, <1>3

\* The most specific cause of the missing names.
LEMMA MissingCauseLemma ==
  ASSUME NEW names, names # {}, NEW ended, NEW revoked
  PROVE  MissingCause(names, ended, revoked) =
           IF \E n \in names : n \in revoked THEN "access_revoked"
           ELSE GrantsCause(names, names \cap ended)
BY DEF MissingCause, ClassifyMissing, GrantsCause

\* A whole page of the audit log names the removals of the window.
LEMMA RevokedTruth ==
  ASSUME NEW t \in Int, NEW pl \in SUBSET GrantEvent, IsFiniteSet(pl),
         ~(Cardinality(InWindow(pl, t, AuditWindow)) > AuditPage),
         NEW page \in Pages(pl, t, AuditWindow, AuditPage), NEW n
  PROVE  n \in RevokedNames(Parsed(page)) <=> Revoked(pl, n, t)
<1>1. AuditPage \in Nat
  BY BoundsAssumption
<1>2. page = InWindow(pl, t, AuditWindow)
  BY <1>1, WholePageLemma
<1> QED BY <1>2 DEF RevokedNames, Removals, Parsed, InWindow, Revoked

-----------------------------------------------------------------------------
(* The invariant *)

\* EveryVerdictWasTrue for one verdict, a history, the user's systems and the
\* names that are required.
Witnessed(v, h, systems, need) ==
  v.status # "inconclusive" /\ v.step \notin h.faults =>
    \/ WasTrue(v, h.was, systems)
    \/ CameLate(v, h.late)
    \/ v.cause = "access_revoked" /\ \E n \in need : <<"twice", n>> \in h.was

VerdictsInv ==
  \A i \in 1..Len(verdicts) :
    Witnessed(verdicts[i], hist, ManagedSystems(user), required)

\* While the managed systems answer, each that has answered was seen down or up.
SystemsInv ==
  /\ pc = "availability" => down = {}
  /\ pc = "systems" =>
       /\ pending \subseteq ManagedSystems(user)
       /\ "system_availability" \notin hist.faults =>
            /\ \A s \in down : s \in ManagedSystems(user) /\ <<"down", s>> \in hist.was
            /\ \A s \in ManagedSystems(user) \ pending :
                 s \in down \/ <<"up", s>> \in hist.was

\* While the sign-in search is on its way, what its window holds has been true.
AuthInv ==
  pc = "auth" => asked <= now /\ AuthFacts(asked, authLog) \subseteq hist.was

\* A cause of the authorization step that a history accounts for.
Accounted(c, h, need) ==
  \/ <<"authorization", c>> \in h.was \cup h.late
  \/ c = "access_revoked" /\ \E n \in need : <<"twice", n>> \in h.was

\* While the grants are on their way, what they and the log of this instant say
\* is accounted for...
AnsweredInv ==
  pc = "grants" =>
    Accounted(Cause(Lacks(answer, required, now), RanOut(answer, required, now),
                    auditLog, now),
              hist, required)

\* ...and while the audit search is, what they and the events of its window say.
SearchedInv ==
  pc = "audit" /\ "authorization" \notin hist.faults =>
    /\ asked <= now
    /\ Accounted(Cause(missing, missing \cap expired, auditLog, asked), hist, required)

TruthInv == VerdictsInv /\ SystemsInv /\ AuthInv /\ AnsweredInv /\ SearchedInv

LEMMA TruthInit == Init => TruthInv
<1> SUFFICES ASSUME Init PROVE TruthInv
  OBVIOUS
<1>1. Len(verdicts) = 0 /\ 1..0 = {}
  BY EmptySeq DEF Init
<1> QED BY <1>1 DEF Init, TruthInv, VerdictsInv, SystemsInv, AuthInv, AnsweredInv,
        SearchedInv

\* What was true once stays in the history, so a witnessed verdict stays so.
LEMMA WitnessedGrows ==
  ASSUME NEW v, NEW h, NEW k, NEW systems, NEW need,
         Witnessed(v, h, systems, need), h.was \subseteq k.was, h.late \subseteq k.late,
         h.faults \subseteq k.faults
  PROVE  Witnessed(v, k, systems, need)
<1>1. WasTrue(v, h.was, systems) => WasTrue(v, k.was, systems)
  BY DEF WasTrue
<1>2. CameLate(v, h.late) => CameLate(v, k.late)
  BY DEF CameLate
<1> QED BY <1>1, <1>2 DEF Witnessed

LEMMA BlameFault ==
  ASSUME TypeOK, NEW step \in Steps, NEW failed, Blame(step, failed)
  PROVE  /\ hist'.was = hist.was /\ hist'.late = hist.late
         /\ hist.faults \subseteq hist'.faults
         /\ step \notin hist'.faults => ~failed /\ step \notin hist.faults
         /\ \A other \in Steps : other # step => (other \in hist'.faults <=> other \in hist.faults)
<1>1. CASE failed
  BY <1>1 DEF Blame, TypeOK
<1>2. CASE ~failed
  BY <1>2 DEF Blame, TypeOK
<1> QED BY <1>1, <1>2

LEMMA CurrentStepLemma ==
  ASSUME TypeInv, Running
  PROVE  CurrentStep =
           CASE pc \in {"availability", "systems"} -> "system_availability"
             [] pc \in {"account", "status"}      -> "account_status"
             [] pc = "auth"                       -> "auth_events"
             [] OTHER                             -> "authorization"
<1>1. Len(verdicts) = Position(pc)
  BY DEF TypeInv, OrderInv
<1>2. Len(verdicts) + 1 \in 1..4
  BY <1>1 DEF Position
<1> QED BY <1>1, <1>2, StepNamesLemma DEF CurrentStep, Position, TypeInv, TypeOK, Running

\* A concluding call keeps TruthInv when the verdict it adds is witnessed.
LEMMA ConcludeTruth ==
  ASSUME TypeInv, TruthInv, WitnessInv, Running, pc # "account",
         pc = "status" => asked' = now,
         UNCHANGED <<directory, required>>,
         hist'.was = hist.was, hist'.late = hist.late, hist.faults \subseteq hist'.faults,
         NEW status \in VerdictStatus, NEW cause \in Causes, Conclude(status, cause),
         Witnessed([step |-> CurrentStep, status |-> status, cause |-> cause],
                   hist', ManagedSystems(user), required)
  PROVE  TruthInv'
<1> DEFINE v == [step |-> CurrentStep, status |-> status, cause |-> cause]
           n == Len(verdicts)
<1>1. /\ verdicts \in Seq(Verdict) /\ n \in 0..3
      /\ verdicts' = Append(verdicts, v)
  BY LenProperties DEF TypeInv, TypeOK, OrderInv, Running, Position, Conclude
<1>2. v \in Verdict
  BY CurrentStepLemma, StepNamesLemma DEF Verdict
<1> HIDE DEF v
<1>3. /\ Len(verdicts') = n + 1 /\ verdicts'[n + 1] = v
      /\ \A i \in 1..n : verdicts'[i] = verdicts[i]
  BY <1>1, <1>2, AppendProperties
<1>4. user' = user /\ required' = required /\ now' = now /\ authLog' = authLog
  BY DEF directory
<1>5. \A i \in 1..n : Witnessed(verdicts[i], hist', ManagedSystems(user'), required')
  BY <1>4, WitnessedGrows DEF TruthInv, VerdictsInv
<1>6. Witnessed(v, hist', ManagedSystems(user'), required')
  BY <1>4 DEF v
<1> HIDE DEF n
<1>7. \A i \in 1..(n + 1) : i \in 1..n \/ i = n + 1
  BY <1>1
<1>8. VerdictsInv'
  BY <1>3, <1>5, <1>6, <1>7 DEF VerdictsInv
<1>9. /\ pc' \in {"account", "auth", "required", "done"}
      /\ pc' = "auth" => Len(verdicts') = 2
  BY ConcludeLemma DEF Running, Position
<1>10. SystemsInv' /\ AnsweredInv' /\ SearchedInv'
  BY <1>9 DEF SystemsInv, AnsweredInv, SearchedInv
<1>11. AuthInv'
  <2> SUFFICES ASSUME pc' = "auth" PROVE (asked <= now /\ AuthFacts(asked, authLog) \subseteq hist.was)'
    BY DEF AuthInv
  <2>1. n = 1
    BY <1>1, <1>3, <1>9
  <2>2. pc = "status"
    BY <2>1 DEF n, TypeInv, TypeOK, OrderInv, Running, Position
  <2>3. now \in Nat /\ AuthFacts(now, authLog) \subseteq hist.was
    BY DEF TypeInv, TypeOK, WitnessInv, Facts
  <2> QED BY <1>4, <2>2, <2>3
<1> QED BY <1>8, <1>10, <1>11 DEF TruthInv

-----------------------------------------------------------------------------
(* The calls *)

\* A verdict is witnessed when it is inconclusive, when a call of its step
\* failed, or when the history holds what it says.
LEMMA WitnessedCases ==
  ASSUME NEW v, NEW h, NEW systems, NEW need,
         \/ v.status = "inconclusive"
         \/ v.step \in h.faults
         \/ v.step # "system_availability" /\ <<v.step, v.cause>> \in h.was \cup h.late
         \/ /\ v.step = "system_availability" /\ v.cause = None
            /\ \A s \in systems : <<"up", s>> \in h.was
         \/ v.cause = "system_down" /\ \E s \in systems : <<"down", s>> \in h.was
         \/ v.cause = "system_degraded" /\ <<"account_status", "not_found">> \in h.was
         \/ v.cause = "access_revoked" /\ \E n \in need : <<"twice", n>> \in h.was
  PROVE  Witnessed(v, h, systems, need)
BY DEF Witnessed, WasTrue, CameLate

\* The facts of this instant are in the history of a run that waits.
LEMMA NowTrue ==
  ASSUME WitnessInv, Running
  PROVE  /\ AccountFacts(now, user) \subseteq hist.was
         /\ SystemFacts(user, dash) \subseteq hist.was
         /\ AuthFacts(now, authLog) \subseteq hist.was
         /\ AccessFacts(now, user, auditLog, required) \subseteq hist.was
BY DEF WitnessInv, Facts

\* A step that raises ends inconclusive, whatever raised.
LEMMA StepErrorTruth ==
  ASSUME TypeInv, TruthInv, WitnessInv, Running, pc # "account",
         pc = "status" => asked' = now,
         UNCHANGED <<directory, required>>,
         hist'.was = hist.was, hist'.late = hist.late, hist.faults \subseteq hist'.faults,
         StepError
  PROVE  TruthInv'
<1> DEFINE v == [step |-> CurrentStep, status |-> "inconclusive", cause |-> "step_error"]
<1>1. v.status = "inconclusive"
  OBVIOUS
<1> HIDE DEF v
<1>2. Witnessed(v, hist', ManagedSystems(user), required)
  BY <1>1, WitnessedCases
<1>3. "inconclusive" \in VerdictStatus /\ "step_error" \in Causes
  BY DEF VerdictStatus, Causes
<1> QED BY <1>2, <1>3, ConcludeTruth DEF StepError, v

LEMMA LookUpTruth ==
  ASSUME TypeInv, TruthInv, WitnessInv, NEW r \in Replies, LookUpManagedSystems(r)
  PROVE  TruthInv'
<1>1. /\ Running /\ UNCHANGED <<directory, required>> /\ pc = "availability"
      /\ down' = down /\ Blame("system_availability", LookupFailed(user, r))
  BY DEF LookUpManagedSystems, Running
<1>2. /\ hist'.was = hist.was /\ hist'.late = hist.late /\ hist.faults \subseteq hist'.faults
      /\ "system_availability" \notin hist'.faults => ~LookupFailed(user, r)
  BY <1>1, BlameFault, StepInSteps DEF TypeInv
<1>3. CurrentStep = "system_availability"
  BY <1>1, CurrentStepLemma
<1>4. {"pass", "fail"} \subseteq VerdictStatus
      /\ {None, "system_degraded"} \subseteq Causes
  BY DEF VerdictStatus, Causes
<1>5. CASE StepError
  BY <1>1, <1>2, <1>5, StepErrorTruth
<1>6. CASE r = "error" /\ Conclude("fail", "system_degraded")
  <2> DEFINE v == [step |-> CurrentStep, status |-> "fail", cause |-> "system_degraded"]
  <2>1. ~LookupFailed(user, r) => <<"account_status", "not_found">> \in hist.was
    BY <1>1, <1>6, NoAccountTruth, NowTrue DEF LookupFailed
  <2>2. v.step = "system_availability" /\ v.cause = "system_degraded"
    BY <1>3
  <2> HIDE DEF v
  <2>3. Witnessed(v, hist', ManagedSystems(user), required)
    BY <1>2, <2>1, <2>2, WitnessedCases
  <2> QED BY <1>1, <1>2, <1>4, <1>6, <2>3, ConcludeTruth DEF v
<1>7. CASE ManagedSystems(user) = {} /\ Conclude("pass", None)
  <2> DEFINE v == [step |-> CurrentStep, status |-> "pass", cause |-> None]
  <2>1. v.step = "system_availability" /\ v.cause = None
    BY <1>3
  <2> HIDE DEF v
  <2>2. Witnessed(v, hist', ManagedSystems(user), required)
    BY <1>7, <2>1, WitnessedCases
  <2> QED BY <1>1, <1>2, <1>4, <1>7, <2>2, ConcludeTruth DEF v
<1>8. CASE /\ pending' = ManagedSystems(user) /\ pc' = "systems"
           /\ UNCHANGED <<verdicts, result>>
  <2>1. user' = user /\ required' = required /\ down' = {}
    BY <1>1 DEF directory, TruthInv, SystemsInv
  <2>2. VerdictsInv'
    BY <1>2, <1>8, <2>1, WitnessedGrows DEF TruthInv, VerdictsInv
  <2>3. SystemsInv' /\ AuthInv' /\ AnsweredInv' /\ SearchedInv'
    BY <1>8, <2>1 DEF SystemsInv, AuthInv, AnsweredInv, SearchedInv
  <2> QED BY <2>2, <2>3 DEF TruthInv
<1> QED BY <1>5, <1>6, <1>7, <1>8 DEF LookUpManagedSystems, ConcludeAvailability

LEMMA CheckSystemTruth ==
  ASSUME TypeInv, TruthInv, WitnessInv, NEW s \in pending, NEW r \in Replies,
         CheckManagedSystem(s, r)
  PROVE  TruthInv'
<1>1. /\ Running /\ UNCHANGED <<directory, required>> /\ pc = "systems"
      /\ Blame("system_availability", r # "ok")
      /\ pending' = StillPending(s, r)
      /\ down' = IF r = "ok" /\ ConfirmedDown(dash[s]) THEN down \cup {s} ELSE down
  BY DEF CheckManagedSystem, Running
<1>2. /\ hist'.was = hist.was /\ hist'.late = hist.late /\ hist.faults \subseteq hist'.faults
      /\ "system_availability" \notin hist'.faults =>
           r = "ok" /\ "system_availability" \notin hist.faults
  BY <1>1, BlameFault, StepInSteps DEF TypeInv
<1>3. CurrentStep = "system_availability"
  BY <1>1, CurrentStepLemma
<1>4. {"pass", "fail"} \subseteq VerdictStatus /\ {None, "system_down"} \subseteq Causes
  BY DEF VerdictStatus, Causes
<1>5. pending \subseteq ManagedSystems(user)
  BY <1>1 DEF TruthInv, SystemsInv
<1>6. pending' \subseteq pending
  BY <1>1 DEF StillPending
<1>7. ASSUME "system_availability" \notin hist'.faults
      PROVE  /\ \A z \in down' : z \in ManagedSystems(user) /\ <<"down", z>> \in hist.was
             /\ \A z \in ManagedSystems(user) \ pending' :
                  z \in down' \/ <<"up", z>> \in hist.was
  <2>1. r = "ok" /\ pending' = pending \ {s}
    BY <1>1, <1>2, <1>7 DEF StillPending
  <2>2. <<IF ConfirmedDown(dash[s]) THEN "down" ELSE "up", s>> \in hist.was
    <3>1. /\ dash \in [DOMAIN dash -> Seq(ConnectionReply)] /\ s \in ManagedSystems(user)
          /\ s \in DOMAIN dash
      BY <1>5 DEF TypeInv, TypeOK, DirectoryTyped
    <3> QED BY <1>1, <3>1, SystemTruth, NowTrue
  <2>3. /\ \A z \in down : z \in ManagedSystems(user) /\ <<"down", z>> \in hist.was
        /\ \A z \in ManagedSystems(user) \ pending : z \in down \/ <<"up", z>> \in hist.was
    BY <1>1, <1>2, <1>7 DEF TruthInv, SystemsInv
  <2> QED BY <1>1, <1>5, <2>1, <2>2, <2>3
<1>8. CASE StepError
  BY <1>1, <1>2, <1>8, StepErrorTruth
<1>9. CASE pending' = {} /\ down' = {} /\ Conclude("pass", None)
  <2> DEFINE v == [step |-> CurrentStep, status |-> "pass", cause |-> None]
  <2>1. v.step = "system_availability" /\ v.cause = None
    BY <1>3
  <2> HIDE DEF v
  <2>2. Witnessed(v, hist', ManagedSystems(user), required)
    BY <1>2, <1>7, <1>9, <2>1, WitnessedCases
  <2> QED BY <1>1, <1>2, <1>4, <1>9, <2>2, ConcludeTruth DEF v
<1>10. CASE down' # {} /\ Conclude("fail", "system_down")
  <2> DEFINE v == [step |-> CurrentStep, status |-> "fail", cause |-> "system_down"]
  <2>1. v.step = "system_availability" /\ v.cause = "system_down"
    BY <1>3
  <2> HIDE DEF v
  <2>2. Witnessed(v, hist', ManagedSystems(user), required)
    BY <1>2, <1>7, <1>10, <2>1, WitnessedCases
  <2> QED BY <1>1, <1>2, <1>4, <1>10, <2>2, ConcludeTruth DEF v
<1>11. CASE UNCHANGED <<pc, verdicts, result>>
  <2>1. user' = user /\ required' = required
    BY <1>1 DEF directory
  <2>2. VerdictsInv'
    BY <1>2, <1>11, <2>1, WitnessedGrows DEF TruthInv, VerdictsInv
  <2>3. SystemsInv' /\ AuthInv' /\ AnsweredInv' /\ SearchedInv'
    BY <1>1, <1>2, <1>5, <1>6, <1>7, <1>11, <2>1
       DEF SystemsInv, AuthInv, AnsweredInv, SearchedInv
  <2> QED BY <2>2, <2>3 DEF TruthInv
<1> QED BY <1>8, <1>9, <1>10, <1>11 DEF CheckManagedSystem, ConcludeAvailability

\* The answer about the account is judged by what was true of it on its way.
LEMMA CheckAccountTruth ==
  ASSUME TypeInv, TruthInv, WitnessInv, AnswerInv, NEW r \in Replies, CheckAccount(r)
  PROVE  TruthInv'
<1>1. /\ Running /\ UNCHANGED <<directory, required>> /\ pc = "status" /\ asked' = now
      /\ UserReply(answer, r) /\ Blame("account_status", LookupFailed(answer, r))
  BY DEF CheckAccount, Running
<1>2. /\ hist'.was = hist.was /\ hist'.late = hist.late /\ hist.faults \subseteq hist'.faults
      /\ "account_status" \notin hist'.faults => ~LookupFailed(answer, r)
  BY <1>1, BlameFault, StepInSteps DEF TypeInv
<1>3. CurrentStep = "account_status"
  BY <1>1, CurrentStepLemma
<1>0. AccountFacts(now, answer) \subseteq Seen
  BY <1>1 DEF AnswerInv
<1>4. ASSUME NEW status \in VerdictStatus, NEW cause \in Causes, Conclude(status, cause),
             ~LookupFailed(answer, r) => <<"account_status", cause>> \in Seen
      PROVE  TruthInv'
  <2> DEFINE v == [step |-> CurrentStep, status |-> status, cause |-> cause]
  <2>1. v.step = "account_status" /\ v.cause = cause
    BY <1>3
  <2> HIDE DEF v
  <2>2. Witnessed(v, hist', ManagedSystems(user), required)
    BY <1>2, <1>4, <2>1, WitnessedCases DEF Seen
  <2> QED BY <1>1, <1>2, <1>4, <2>2, ConcludeTruth DEF v
<1>5. CASE StepError
  BY <1>1, <1>2, <1>5, StepErrorTruth
<1>6. CASE r = "error" /\ ConcludeAccount("not_found")
  <2>1. ~LookupFailed(answer, r) => <<"account_status", "not_found">> \in Seen
    BY <1>0, <1>6, NoAccountTruth DEF LookupFailed
  <2> QED BY <1>4, <1>6, <2>1 DEF ConcludeAccount, VerdictStatus, Causes
<1>7. CASE /\ r = "ok" /\ ~UserStatusRaises(answer, now)
           /\ ConcludeAccount(UserStatus(answer, now))
  <2> DEFINE st == UserStatus(answer, now)
  <2>1. st \in {"locked", "deprovisioned", "disabled", "password_expired", "active"}
    BY CausesLemma
  <2>2. <<"account_status", IF st = "active" THEN None ELSE st>> \in Seen
    <3>1. answer \in UserBean /\ now \in Int /\ answer.exists
      BY <1>1, <1>7 DEF TypeInv, TypeOK, UserReply
    <3> QED BY <1>0, <1>7, <3>1, AccountTruth
  <2> HIDE DEF st
  <2>3. ConcludeAccount(st)
    BY <1>7 DEF st
  <2>4. CASE st = "active"
    BY <1>4, <2>2, <2>3, <2>4 DEF ConcludeAccount, VerdictStatus, Causes
  <2>5. CASE st # "active"
    BY <1>4, <2>1, <2>2, <2>3, <2>5 DEF ConcludeAccount, VerdictStatus, Causes
  <2> QED BY <2>4, <2>5
<1> QED BY <1>5, <1>6, <1>7 DEF CheckAccount

LEMMA CheckAuthTruth ==
  ASSUME TypeInv, TruthInv, WitnessInv, NEW r \in Replies, CheckAuthEvents(r)
  PROVE  TruthInv'
<1> DEFINE failed == \/ r # "ok"
                     \/ Cardinality(InWindow(authLog, asked, AuthWindow)) > AuthPage
<1>1. /\ Running /\ UNCHANGED <<directory, required>> /\ pc = "auth"
      /\ Blame("auth_events", failed)
  BY DEF CheckAuthEvents, Running
<1>2. /\ hist'.was = hist.was /\ hist'.late = hist.late /\ hist.faults \subseteq hist'.faults
      /\ "auth_events" \notin hist'.faults => ~failed
  <2> HIDE DEF failed
  <2> QED BY <1>1, BlameFault, StepInSteps DEF TypeInv
<1>3. CurrentStep = "auth_events"
  BY <1>1, CurrentStepLemma
<1>4. ASSUME NEW status \in VerdictStatus, NEW cause \in Causes, Conclude(status, cause),
             ~failed => <<"auth_events", cause>> \in hist.was
      PROVE  TruthInv'
  <2> HIDE DEF failed
  <2> DEFINE v == [step |-> CurrentStep, status |-> status, cause |-> cause]
  <2>1. v.step = "auth_events" /\ v.cause = cause
    BY <1>3
  <2> HIDE DEF v
  <2>2. Witnessed(v, hist', ManagedSystems(user), required)
    BY <1>2, <1>4, <2>1, WitnessedCases
  <2> QED BY <1>1, <1>2, <1>4, <2>2, ConcludeTruth DEF v
<1>5. CASE StepError
  BY <1>1, <1>2, <1>5, StepErrorTruth
<1>6. CASE r = "error" /\ Conclude("pass", None)
  BY <1>4, <1>6 DEF VerdictStatus, Causes
<1>7. ASSUME r = "ok", NEW page \in Pages(authLog, asked, AuthWindow, AuthPage)
      PROVE  ~failed =>
               /\ Parsed(page) = {} => <<"auth_events", None>> \in hist.was
               /\ \A e \in LatestEvents(Parsed(page)) :
                    <<"auth_events", IF e.ok THEN None ELSE AuthCause(e)>> \in hist.was
  <2>1. asked \in Int /\ authLog \in SUBSET SignInEvent /\ IsFiniteSet(authLog)
    BY DEF TypeInv, TypeOK, DirectoryTyped
  <2>2. AuthFacts(asked, authLog) \subseteq hist.was
    BY <1>1 DEF TruthInv, AuthInv
  <2> QED BY <1>1, <1>7, <2>1, <2>2, AuthTruth
<1>8. ASSUME r = "ok", NEW page \in Pages(authLog, asked, AuthWindow, AuthPage),
             Parsed(page) = {}, Conclude("pass", None)
      PROVE  TruthInv'
  BY <1>4, <1>7, <1>8 DEF VerdictStatus, Causes
<1>9. ASSUME r = "ok", NEW page \in Pages(authLog, asked, AuthWindow, AuthPage),
             NEW e \in LatestEvents(Parsed(page)),
             \/ e.ok /\ Conclude("pass", None)
             \/ ~e.ok /\ Conclude("fail", AuthCause(e))
      PROVE  TruthInv'
  <2>1. e \in authLog
    BY <1>9 DEF LatestEvents, Parsed, Pages, InWindow
  <2>2. AuthCause(e) \in Causes
    BY <2>1, CausesLemma, LogLemma
  <2>3. ~failed => <<"auth_events", IF e.ok THEN None ELSE AuthCause(e)>> \in hist.was
    BY <1>7, <1>9
  <2> HIDE DEF failed
  <2>4. CASE e.ok /\ Conclude("pass", None)
    BY <1>4, <2>3, <2>4 DEF VerdictStatus, Causes
  <2>5. CASE ~e.ok /\ Conclude("fail", AuthCause(e))
    BY <1>4, <2>2, <2>3, <2>5 DEF VerdictStatus
  <2> QED BY <1>9, <2>4, <2>5
<1> QED BY <1>5, <1>6, <1>8, <1>9 DEF CheckAuthEvents

LEMMA NothingRequiredTruth ==
  ASSUME TypeInv, TruthInv, WitnessInv, NothingRequired
  PROVE  TruthInv'
<1> DEFINE v == [step |-> CurrentStep, status |-> "pass", cause |-> None]
<1>1. /\ Running /\ UNCHANGED <<directory, required, hist>> /\ pc = "required"
      /\ required = {} /\ Conclude("pass", None)
  BY DEF NothingRequired, Running
<1>2. v.step = "authorization" /\ v.cause = None
  BY <1>1, CurrentStepLemma
<1>3. <<"authorization", None>> \in hist.was
  <2> DEFINE lacks == Lacks(user, required, now)  ended == RanOut(user, required, now)
  <2>1. Cause(lacks, ended, auditLog, now) = None
    BY <1>1 DEF Lacks, Cause, GrantsCause
  <2> HIDE DEF lacks, ended
  <2>2. <<"authorization", Cause(lacks, ended, auditLog, now)>>
          \in AccessFacts(now, user, auditLog, required)
    BY AccessFactsLemma DEF lacks, ended
  <2> QED BY <1>1, <2>1, <2>2, NowTrue
<1> HIDE DEF v
<1>4. Witnessed(v, hist', ManagedSystems(user), required)
  BY <1>1, <1>2, <1>3, WitnessedCases
<1> QED BY <1>1, <1>4, ConcludeTruth DEF v, VerdictStatus, Causes

\* The server reads the bean: whatever it answers with is true now.
LEMMA ServeTruth ==
  ASSUME TypeInv, TruthInv, WitnessInv, ServeAccount \/ ServeGrants
  PROVE  TruthInv'
<1>1. /\ Running /\ pc' \in {"status", "grants"} /\ UNCHANGED <<verdicts, hist>>
      /\ user' = user /\ auditLog' = auditLog /\ now' = now /\ required' = required
      /\ answer' = user
  BY DEF ServeAccount, ServeGrants, Running, directory
<1>2. VerdictsInv' /\ SystemsInv' /\ AuthInv' /\ SearchedInv'
  BY <1>1 DEF TruthInv, VerdictsInv, SystemsInv, AuthInv, SearchedInv
<1>3. AnsweredInv'
  <2>1. <<"authorization", Cause(Lacks(user, required, now), RanOut(user, required, now),
                                 auditLog, now)>> \in hist.was
    BY <1>1, AccessFactsLemma, NowTrue
  <2> QED BY <1>1, <2>1 DEF AnsweredInv, Accounted
<1> QED BY <1>2, <1>3 DEF TruthInv

LEMMA FetchGrantsTruth ==
  ASSUME TypeInv, TruthInv, WitnessInv, NEW r \in Replies, FetchGrants(r)
  PROVE  TruthInv'
<1>1. /\ Running /\ UNCHANGED <<directory, required>> /\ pc = "grants" /\ asked' = now
      /\ UserReply(answer, r) /\ Blame("authorization", LookupFailed(answer, r))
  BY DEF FetchGrants, Running
<1>2. /\ hist'.was = hist.was /\ hist'.late = hist.late /\ hist.faults \subseteq hist'.faults
      /\ "authorization" \notin hist'.faults => ~LookupFailed(answer, r)
  BY <1>1, BlameFault, StepInSteps DEF TypeInv
<1>3. CASE StepError
  BY <1>1, <1>2, <1>3, StepErrorTruth
<1>4. CASE /\ pc' = "audit" /\ UNCHANGED verdicts
           /\ \/ r = "error" /\ missing' = required /\ expired' = {}
              \/ /\ r = "ok" /\ ~GrantsRaise(answer)
                 /\ missing' = required \ HeldNames(answer, now)
                 /\ expired' = ExpiredNames(answer, now)
  <2>1. user' = user /\ auditLog' = auditLog /\ now' = now /\ required' = required
    BY <1>1 DEF directory
  <2>2. VerdictsInv'
    BY <1>2, <1>4, <2>1, WitnessedGrows DEF TruthInv, VerdictsInv
  <2>3. SystemsInv' /\ AuthInv' /\ AnsweredInv'
    BY <1>4 DEF SystemsInv, AuthInv, AnsweredInv
  <2>4. ASSUME ~LookupFailed(answer, r)
        PROVE  /\ missing' = Lacks(answer, required, now)
               /\ missing' \cap expired' = RanOut(answer, required, now)
    <3>1. CASE r = "error"
      BY <1>4, <2>4, <3>1 DEF LookupFailed, Lacks, RanOut
    <3>2. CASE r = "ok"
      <4>1. answer.exists /\ answer \in UserBean /\ now \in Int
        BY <1>1, <3>2 DEF UserReply, TypeInv, TypeOK
      <4> QED BY <1>4, <3>2, <4>1, GrantsTruth
    <3> QED BY <1>4, <3>1, <3>2
  <2>5. SearchedInv'
    <3> SUFFICES ASSUME "authorization" \notin hist'.faults
                 PROVE  /\ asked' <= now'
                        /\ Accounted(Cause(missing', missing' \cap expired', auditLog', asked'),
                                     hist', required')
      BY DEF SearchedInv
    <3> DEFINE c == Cause(Lacks(answer, required, now), RanOut(answer, required, now),
                          auditLog, now)
    <3>1. Accounted(c, hist, required)
      BY <1>1 DEF TruthInv, AnsweredInv
    <3>2. Cause(missing', missing' \cap expired', auditLog', asked') = c
      BY <1>1, <1>2, <2>1, <2>4 DEF Cause, GrantsCause, Revoked
    <3>3. now \in Nat
      BY DEF TypeInv, TypeOK
    <3> HIDE DEF c
    <3> QED BY <1>1, <1>2, <2>1, <3>1, <3>2, <3>3 DEF Accounted
  <2> QED BY <2>2, <2>3, <2>5 DEF TruthInv
<1> QED BY <1>3, <1>4 DEF FetchGrants

LEMMA FetchAuditTruth ==
  ASSUME TypeInv, TruthInv, WitnessInv, NEW r \in Replies, FetchPermissionAudit(r)
  PROVE  TruthInv'
<1> DEFINE failed == \/ r # "ok"
                     \/ Cardinality(InWindow(auditLog, asked, AuditWindow)) > AuditPage
           found  == Cause(missing, missing \cap expired, auditLog, asked)
<1>1. /\ Running /\ UNCHANGED <<directory, required>> /\ pc = "audit"
      /\ Blame("authorization", failed)
  BY DEF FetchPermissionAudit, Running
<1>2. /\ hist'.was = hist.was /\ hist'.late = hist.late /\ hist.faults \subseteq hist'.faults
      /\ "authorization" \notin hist'.faults => ~failed /\ "authorization" \notin hist.faults
  <2> HIDE DEF failed
  <2> QED BY <1>1, BlameFault, StepInSteps DEF TypeInv
<1>3. CurrentStep = "authorization"
  BY <1>1, CurrentStepLemma, StepNamesLemma
<1>4. ASSUME NEW status \in VerdictStatus, NEW cause \in Causes, Conclude(status, cause),
             ~failed => cause = found
      PROVE  TruthInv'
  <2> HIDE DEF failed, found
  <2> DEFINE v == [step |-> CurrentStep, status |-> status, cause |-> cause]
  <2>1. v.step = "authorization" /\ v.cause = cause
    BY <1>3
  <2>2. "authorization" \notin hist.faults => Accounted(found, hist, required)
    BY <1>1 DEF TruthInv, SearchedInv, found
  <2> HIDE DEF v
  <2>3. Witnessed(v, hist', ManagedSystems(user), required)
    BY <1>2, <1>4, <2>1, <2>2, WitnessedCases DEF Accounted
  <2> QED BY <1>1, <1>2, <1>4, <2>3, ConcludeTruth DEF v
<1>5. CASE StepError
  BY <1>1, <1>2, <1>5, StepErrorTruth
<1>6. CASE missing = {} /\ Conclude("pass", None)
  <2>1. found = None
    BY <1>6 DEF Cause, GrantsCause
  <2> HIDE DEF failed, found
  <2> QED BY <1>4, <1>6, <2>1 DEF VerdictStatus, Causes
<1>7. ASSUME NEW page, missing # {},
             r = "ok" => page \in Pages(auditLog, asked, AuditWindow, AuditPage),
             Conclude("fail", MissingCause(missing, expired, RevokedNames(Parsed(page))))
      PROVE  TruthInv'
  <2> DEFINE c == MissingCause(missing, expired, RevokedNames(Parsed(page)))
  <2>1. c = IF \E n \in missing : n \in RevokedNames(Parsed(page))
              THEN "access_revoked" ELSE GrantsCause(missing, missing \cap expired)
    BY <1>7, MissingCauseLemma
  <2>2. ~failed => \A n : n \in RevokedNames(Parsed(page)) <=> Revoked(auditLog, n, asked)
    <3>1. asked \in Int /\ auditLog \in SUBSET GrantEvent /\ IsFiniteSet(auditLog)
      BY DEF TypeInv, TypeOK, DirectoryTyped
    <3> QED BY <1>7, <3>1, RevokedTruth
  <2>3. c \in Causes
    BY CausesLemma DEF Causes
  <2> HIDE DEF failed, c
  <2>4. ~failed => c = found
    BY <2>1, <2>2 DEF Cause
  <2> HIDE DEF found
  <2> QED BY <1>4, <1>7, <2>3, <2>4 DEF c, VerdictStatus
<1> QED BY <1>5, <1>6, <1>7 DEF FetchPermissionAudit

-----------------------------------------------------------------------------
(* The directory *)

\* The directory's changes, by what they do to the audit log and the clock.
LEMMA DirectoryCases ==
  ASSUME Directory
  PROVE  \/ Tick
         \/ auditLog' = auditLog /\ now' = now
         \/ \E kind \in {"roles", "groups"}, n \in Names, end \in GrantEnds :
              Grant(kind, n, end)
         \/ \E kind \in {"roles", "groups"} : \E i \in DOMAIN user[kind] : Revoke(kind, i)
BY DEF Directory, LockOrUnlock, EnableOrDisable, RemoveAccount, ResetPassword, ChangeEnd,
       ChangeUser, SignIn, ConnectionTest, Change

\* Where a role and a group stand among the grants.
LEMMA GrantIndexLemma ==
  ASSUME NEW u \in UserBean
  PROVE  /\ DOMAIN u.roles = 1..Len(u.roles) /\ Len(u.roles) \in Nat
         /\ DOMAIN u.groups = 1..Len(u.groups) /\ Len(u.groups) \in Nat
         /\ \A i \in DOMAIN u.roles : i \in DOMAIN Grants(u) /\ Grants(u)[i] = u.roles[i]
         /\ \A i \in DOMAIN u.groups :
              /\ Len(u.roles) + i \in DOMAIN Grants(u)
              /\ Grants(u)[Len(u.roles) + i] = u.groups[i]
<1> DEFINE a == u.roles  b == u.groups  m == Len(a)  n == Len(b)
<1>1. a \in Seq(GrantBean) /\ b \in Seq(GrantBean)
  BY DEF UserBean
<1>2. DOMAIN a = 1..m /\ m \in Nat /\ DOMAIN b = 1..n /\ n \in Nat
  <2> HIDE DEF a, b
  <2> QED BY <1>1, LenProperties
<1>3. /\ Len(a \o b) = m + n /\ a \o b \in Seq(GrantBean)
      /\ \A i \in 1..(m + n) : (a \o b)[i] = IF i <= m THEN a[i] ELSE b[i - m]
  <2> HIDE DEF a, b
  <2> QED BY <1>1, ConcatProperties
<1>4. DOMAIN (a \o b) = 1..(m + n)
  <2> HIDE DEF a, b
  <2> QED BY <1>3, LenProperties
<1>5. Grants(u) = a \o b
  BY DEF Grants
<1> HIDE DEF a, b, m, n
<1>6. \A i \in DOMAIN a : i \in 1..(m + n) /\ i <= m
  BY <1>2
<1>7. \A i \in DOMAIN b : m + i \in 1..(m + n) /\ ~(m + i <= m) /\ (m + i) - m = i
  BY <1>2
<1>8. \A i \in DOMAIN a : i \in DOMAIN Grants(u) /\ Grants(u)[i] = a[i]
  BY <1>3, <1>4, <1>5, <1>6
<1>9. \A i \in DOMAIN b : m + i \in DOMAIN Grants(u) /\ Grants(u)[m + i] = b[i]
  BY <1>3, <1>4, <1>5, <1>7
<1> QED BY <1>2, <1>8, <1>9 DEF a, b, m, n

\* What a removal leaves are the other grants.
LEMMA RestLemma ==
  ASSUME NEW s \in Seq(GrantBean), NEW i \in DOMAIN s
  PROVE  \A g \in Range(Without(s, i)) : \E k \in DOMAIN s : k # i /\ g = s[k]
<1> DEFINE n == Len(s)  w == Without(s, i)
<1>1. n \in Nat /\ DOMAIN s = 1..n /\ i \in 1..n
  BY LenProperties
<1>2. w \in Seq(GrantBean) /\ Len(w) = n - 1
      /\ \A j \in 1..(n - 1) : w[j] = IF j < i THEN s[j] ELSE s[j + 1]
  BY <1>1, WithoutLemma
<1> HIDE DEF w, n
<1>3. DOMAIN w = 1..(n - 1)
  BY <1>2, LenProperties
<1>4. ASSUME NEW j \in DOMAIN w PROVE \E k \in DOMAIN s : k # i /\ w[j] = s[k]
  <2>1. j \in 1..(n - 1) /\ j \in DOMAIN s /\ j + 1 \in DOMAIN s
    BY <1>1, <1>3
  <2>2. CASE j < i
    BY <1>1, <1>2, <2>1, <2>2
  <2>3. CASE ~(j < i)
    <3>1. j + 1 # i
      BY <1>1, <2>1, <2>3
    <3> QED BY <1>2, <2>1, <2>3, <3>1
  <2> QED BY <2>2, <2>3
<1> QED BY <1>4 DEF Range, w

\* A name that is there after one grant of it was removed was there twice.
LEMMA TwiceLemma ==
  ASSUME user \in UserBean, NEW kind \in {"roles", "groups"}, NEW i \in DOMAIN user[kind],
         Revoke(kind, i), NEW g \in Range(Grants(user')), g.name = user[kind][i].name
  PROVE  Twice(user, g.name)
<1> DEFINE n == g.name
<1>1. /\ user.exists /\ user' = [user EXCEPT ![kind] = Without(user[kind], i)]
      /\ user' \in UserBean
  BY UserChangeLemma DEF Revoke, ChangeGrants, Directory
<1>2. g \in Range(user'.roles) \cup Range(user'.groups)
  BY <1>1, GrantsLemma
<1>3. user.roles \in Seq(GrantBean) /\ user.groups \in Seq(GrantBean)
  BY DEF UserBean
<1>4. CASE kind = "roles"
  <2>1. /\ i \in DOMAIN user.roles /\ user.roles[i].name = n
        /\ user'.roles = Without(user.roles, i) /\ user'.groups = user.groups
    BY <1>1, <1>4 DEF UserBean
  <2>2. CASE g \in Range(user'.roles)
    <3>1. PICK k \in DOMAIN user.roles : k # i /\ g = user.roles[k]
      BY <1>3, <2>1, <2>2, RestLemma
    <3> QED BY <1>1, <2>1, <3>1, GrantIndexLemma DEF Twice
  <2>3. CASE g \in Range(user'.groups)
    <3>1. PICK k \in DOMAIN user.groups : g = user.groups[k]
      BY <2>1, <2>3 DEF Range
    <3>2. Len(user.roles) + k # i
      BY <2>1, GrantIndexLemma
    <3> QED BY <1>1, <2>1, <3>1, <3>2, GrantIndexLemma DEF Twice
  <2> QED BY <1>2, <2>2, <2>3
<1>5. CASE kind = "groups"
  <2>1. /\ i \in DOMAIN user.groups /\ user.groups[i].name = n
        /\ user'.groups = Without(user.groups, i) /\ user'.roles = user.roles
    BY <1>1, <1>5 DEF UserBean
  <2>2. CASE g \in Range(user'.groups)
    <3>1. PICK k \in DOMAIN user.groups : k # i /\ g = user.groups[k]
      BY <1>3, <2>1, <2>2, RestLemma
    <3>2. Len(user.roles) + k # Len(user.roles) + i
      BY <2>1, <3>1, GrantIndexLemma
    <3> QED BY <1>1, <2>1, <3>1, <3>2, GrantIndexLemma DEF Twice
  <2>3. CASE g \in Range(user'.roles)
    <3>1. PICK k \in DOMAIN user.roles : g = user.roles[k]
      BY <2>1, <2>3 DEF Range
    <3>2. Len(user.roles) + i # k
      BY <2>1, GrantIndexLemma
    <3> QED BY <1>1, <2>1, <3>1, <3>2, GrantIndexLemma DEF Twice
  <2> QED BY <1>2, <2>2, <2>3
<1> QED BY <1>4, <1>5

\* A removal of a required name either leaves the user without it, and then
\* access was revoked, or takes one of two grants of it.
LEMMA RevokeTruth ==
  ASSUME TypeInv, WitnessInv, WitnessInv', Running, UNCHANGED run,
         hist.was \subseteq hist'.was,
         NEW kind \in {"roles", "groups"}, NEW i \in DOMAIN user[kind], Revoke(kind, i),
         user[kind][i].name \in required
  PROVE  Accounted("access_revoked", hist', required')
<1> DEFINE n == user[kind][i].name
           e == [action |-> "REVOKE", names |-> {n}, at |-> now, kind |-> "aware"]
<1>1. /\ user \in UserBean /\ user.exists /\ now \in Nat /\ now' = now
      /\ Running' /\ required' = required /\ auditLog' = auditLog \cup {e}
  BY DEF TypeInv, TypeOK, DirectoryTyped, Revoke, ChangeGrants, Change, run, Running
<1>2. Revoked(auditLog', n, now)
  <2>1. now \in (now - AuditWindow)..now
    BY <1>1, BoundsAssumption
  <2>2. e \in auditLog' /\ e.kind = "aware" /\ e.action = "REVOKE" /\ e.at = now
        /\ n \in e.names
    BY <1>1
  <2> HIDE DEF e, n
  <2> QED BY <2>1, <2>2 DEF Revoked
<1>3. CASE n \in Lacks(user', required, now)
  <2>1. Cause(Lacks(user', required, now), RanOut(user', required, now), auditLog', now)
          = "access_revoked"
    BY <1>2, <1>3 DEF Cause
  <2>2. <<"authorization", "access_revoked">>
          \in AccessFacts(now, user', auditLog', required)
    BY <2>1, AccessFactsLemma
  <2> QED BY <1>1, <2>2 DEF WitnessInv, Facts, Accounted
<1>4. CASE n \notin Lacks(user', required, now)
  <2>1. PICK g \in Range(Grants(user')) : g.name = n
    BY <1>4 DEF Lacks
  <2>2. Twice(user, n)
    BY <1>1, <2>1, TwiceLemma
  <2>3. <<"twice", n>> \in AccessFacts(now, user, auditLog, required)
    BY <2>2, AccessFactsLemma
  <2> QED BY <1>1, <2>3, NowTrue DEF Accounted
<1> QED BY <1>3, <1>4

\* What is accounted for stays so, whatever others do to the audit log.
LEMMA AccountedStep ==
  ASSUME TypeInv, WitnessInv, WitnessInv', Running, Directory, UNCHANGED run, now' = now,
         hist.was \subseteq hist'.was, hist.late \subseteq hist'.late,
         NEW names \in SUBSET required, NEW ended, NEW t \in Nat, t <= now,
         Accounted(Cause(names, ended, auditLog, t), hist, required)
  PROVE  Accounted(Cause(names, ended, auditLog', t), hist', required')
<1> DEFINE c == Cause(names, ended, auditLog, t)
           d == Cause(names, ended, auditLog', t)
<1>1. required' = required
  BY DEF run
<1>2. Accounted(c, hist', required')
  BY <1>1 DEF Accounted
<1>3. ASSUME \A n \in names : Revoked(auditLog', n, t) <=> Revoked(auditLog, n, t)
      PROVE  d = c
  BY <1>3 DEF Cause
<1>4. CASE auditLog' = auditLog
  BY <1>2, <1>4
<1>5. ASSUME NEW kind, NEW n, NEW end, Grant(kind, n, end)
      PROVE  d = c
  <2>1. auditLog' = auditLog \cup
          {[action |-> "ADD", names |-> {n}, at |-> now, kind |-> "aware"]}
    BY <1>5 DEF Grant, ChangeGrants
  <2>2. \A m : Revoked(auditLog', m, t) <=> Revoked(auditLog, m, t)
    BY <2>1 DEF Revoked
  <2> QED BY <1>3, <2>2
<1>6. ASSUME NEW kind \in {"roles", "groups"}, NEW i \in DOMAIN user[kind], Revoke(kind, i)
      PROVE  Accounted(d, hist', required')
  <2>1. auditLog' = auditLog \cup
          {[action |-> "REVOKE", names |-> {user[kind][i].name}, at |-> now,
            kind |-> "aware"]}
    BY <1>6 DEF Revoke, ChangeGrants
  <2>2. \A m : Revoked(auditLog, m, t) => Revoked(auditLog', m, t)
    BY <2>1 DEF Revoked
  <2>3. \A m : Revoked(auditLog', m, t) /\ ~Revoked(auditLog, m, t) =>
          m = user[kind][i].name
    BY <2>1 DEF Revoked
  <2>4. CASE \E m \in names : Revoked(auditLog', m, t) /\ ~Revoked(auditLog, m, t)
    <3>1. d = "access_revoked" /\ user[kind][i].name \in required
      BY <2>3, <2>4 DEF Cause
    <3>2. Accounted("access_revoked", hist', required')
      BY <1>6, <3>1, RevokeTruth
    <3> QED BY <3>1, <3>2
  <2>5. CASE \A m \in names : Revoked(auditLog', m, t) => Revoked(auditLog, m, t)
    <3>1. d = c
      BY <1>3, <2>2, <2>5
    <3> HIDE DEF c, d
    <3> QED BY <1>2, <3>1
  <2> QED BY <2>4, <2>5
<1> HIDE DEF c, d
<1>7. CASE Tick
  BY <1>7, <1>4 DEF Tick
<1>8. auditLog' = auditLog \/ d = c \/ Accounted(d, hist', required')
  BY <1>5, <1>6, <1>7, DirectoryCases DEF Tick
<1>9. auditLog' = auditLog => d = c
  BY DEF c, d
<1>10. Accounted(d, hist', required')
  BY <1>2, <1>8, <1>9
<1> QED BY <1>10 DEF d

\* What was accounted for the grants on their way stays so while time passes.
LEMMA AnsweredStep ==
  ASSUME TypeInv, TruthInv, WitnessInv, WitnessInv', Directory, pc = "grants",
         hist.was \subseteq hist'.was, hist.late \subseteq hist'.late
  PROVE  AnsweredInv'
<1>1. /\ Running /\ UNCHANGED run /\ pc' = "grants" /\ answer' = answer
      /\ required' = required
  BY DirectoryFrame DEF Running, run, local
<1>2. /\ hist = [was |-> hist.was, late |-> hist.late, faults |-> hist.faults]
      /\ now \in Nat
  BY DEF TypeInv, TypeOK
<1>3. CASE now' = now
  <2> DEFINE names == Lacks(answer, required, now)  ended == RanOut(answer, required, now)
  <2>1. names \in SUBSET required
    BY DEF Lacks
  <2>2. Accounted(Cause(names, ended, auditLog, now), hist, required)
    BY DEF TruthInv, AnsweredInv
  <2>3. now <= now
    BY <1>2
  <2> HIDE DEF names, ended
  <2>4. Accounted(Cause(names, ended, auditLog', now), hist', required')
    BY <1>1, <1>2, <1>3, <2>1, <2>2, <2>3, AccountedStep
  <2> QED BY <1>1, <1>3, <2>4 DEF AnsweredInv, names, ended
<1>4. CASE Tick
  <2>1. auditLog' = auditLog /\ KeepWatching(Aged(now'))
    BY <1>4 DEF Tick
  <2>2. AccessFacts(now', answer, auditLog, required) \subseteq hist'.late
    BY <1>1, <1>2, <2>1 DEF KeepWatching, Aged
  <2>3. <<"authorization", Cause(Lacks(answer, required, now'), RanOut(answer, required, now'),
                                 auditLog, now')>> \in hist'.late
    BY <2>2, AccessFactsLemma
  <2> QED BY <1>1, <2>1, <2>3 DEF AnsweredInv, Accounted
<1> QED BY <1>3, <1>4, DirectoryFrame

\* The audit search finds nothing that happens after it was sent.
LEMMA SearchedStep ==
  ASSUME TypeInv, TruthInv, WitnessInv, WitnessInv', Directory, pc = "audit",
         "authorization" \notin hist.faults,
         hist.was \subseteq hist'.was, hist.late \subseteq hist'.late
  PROVE  SearchedInv'
<1>1. /\ Running /\ UNCHANGED run /\ asked' = asked /\ missing' = missing
      /\ expired' = expired /\ required' = required
  BY DirectoryFrame DEF Running, run, local
<1>2. now \in Nat /\ asked \in Nat /\ missing \in SUBSET required
  BY DEF TypeInv, TypeOK
<1>3. /\ asked <= now
      /\ Accounted(Cause(missing, missing \cap expired, auditLog, asked), hist, required)
  BY DEF TruthInv, SearchedInv
<1>4. CASE now' = now
  <2>1. Accounted(Cause(missing, missing \cap expired, auditLog', asked), hist', required')
    BY <1>1, <1>2, <1>3, <1>4, AccountedStep
  <2> QED BY <1>1, <1>3, <1>4, <2>1 DEF SearchedInv
<1>5. CASE Tick
  <2>1. auditLog' = auditLog /\ now' = now + 1
    BY <1>5 DEF Tick
  <2>2. asked <= now'
    BY <1>2, <1>3, <2>1
  <2> QED BY <1>1, <1>3, <2>1, <2>2 DEF SearchedInv, Accounted
<1> QED BY <1>4, <1>5, DirectoryFrame

\* A sign-in after the search was sent is outside of its window.
LEMMA AuthStep ==
  ASSUME TypeInv, TruthInv, WitnessInv', Directory, pc = "auth",
         hist.was \subseteq hist'.was
  PROVE  AuthInv'
<1>1. /\ Running' /\ asked' = asked /\ now \in Nat /\ asked \in Nat
      /\ asked <= now /\ AuthFacts(asked, authLog) \subseteq hist.was
  BY DirectoryFrame DEF Running, run, local, TypeInv, TypeOK, TruthInv, AuthInv
<1>2. CASE authLog' = authLog
  <2>1. now' = now \/ now' = now + 1
    BY DirectoryFrame DEF Tick
  <2>2. asked <= now'
    BY <1>1, <2>1
  <2> QED BY <1>1, <1>2, <2>2 DEF AuthInv
<1>3. ASSUME NEW ok \in BOOLEAN, SignIn(ok) PROVE AuthInv'
  <2> DEFINE e == [at |-> now, kind |-> "aware", ok |-> ok, action |-> "LOGIN"]
  <2>1. now' = now /\ authLog' = authLog \cup {e}
    BY <1>3 DEF SignIn, Change
  <2>2. CASE asked = now
    BY <1>1, <2>1, <2>2 DEF AuthInv, WitnessInv, Facts
  <2>3. CASE asked < now
    <3>1. e.at \notin (asked - AuthWindow)..asked
      BY <1>1, <2>3
    <3> HIDE DEF e
    <3>2. {f \in authLog' : f.kind \in {"naive", "aware"}
                              /\ f.at \in (asked - AuthWindow)..asked} =
          {f \in authLog : f.kind \in {"naive", "aware"}
                             /\ f.at \in (asked - AuthWindow)..asked}
      BY <2>1, <3>1
    <3>3. AuthFacts(asked, authLog') = AuthFacts(asked, authLog)
      BY <3>2 DEF AuthFacts
    <3> QED BY <1>1, <2>1, <3>3 DEF AuthInv
  <2> QED BY <1>1, <2>2, <2>3
<1>4. authLog' = authLog \/ \E ok \in BOOLEAN : SignIn(ok)
  BY DEF Directory, Change, ChangeUser, ChangeGrants, LockOrUnlock, EnableOrDisable,
     ResetPassword, RemoveAccount, Grant, Revoke, ChangeEnd, ConnectionTest, Tick
<1> QED BY <1>2, <1>3, <1>4

LEMMA DirectoryTruth ==
  ASSUME TypeInv, TruthInv, WitnessInv, WitnessInv', Directory
  PROVE  TruthInv'
<1>1. UNCHANGED run /\ \E aged : KeepWatching(aged)
  BY DirectoryFrame
<1>2. /\ hist.was \subseteq hist'.was /\ hist.late \subseteq hist'.late
      /\ hist'.faults = hist.faults
  BY <1>1 DEF KeepWatching, TypeInv, TypeOK
<1>3. ManagedSystems(user') = ManagedSystems(user)
  BY UserChangeLemma, SystemsLemma DEF TypeInv, TypeOK, DirectoryTyped
<1>4. /\ pc' = pc /\ verdicts' = verdicts /\ down' = down /\ pending' = pending
      /\ required' = required
  BY <1>1 DEF run, local
<1>5. VerdictsInv'
  BY <1>2, <1>3, <1>4, WitnessedGrows DEF TruthInv, VerdictsInv
<1>6. SystemsInv'
  BY <1>2, <1>3, <1>4 DEF TruthInv, SystemsInv
<1>7. AuthInv'
  BY <1>2, <1>4, AuthStep DEF AuthInv
<1>8. AnsweredInv'
  BY <1>2, <1>4, AnsweredStep DEF AnsweredInv
<1>9. SearchedInv'
  BY <1>2, <1>4, SearchedStep DEF SearchedInv
<1> QED BY <1>5, <1>6, <1>7, <1>8, <1>9 DEF TruthInv

-----------------------------------------------------------------------------
(* Every verdict was true *)

LEMMA TruthStep ==
  TypeInv /\ TruthInv /\ WitnessInv /\ WitnessInv' /\ AnswerInv /\ [Next]_vars => TruthInv'
<1> SUFFICES ASSUME TypeInv, TruthInv, WitnessInv, WitnessInv', AnswerInv, [Next]_vars
             PROVE  TruthInv'
  OBVIOUS
<1>1. CASE StartRun
  <2>1. verdicts' = <<>> /\ pc' = "availability" /\ down' = {}
    BY <1>1 DEF StartRun
  <2>2. Len(verdicts') = 0 /\ 1..0 = {}
    BY <2>1
  <2> QED BY <2>1, <2>2
          DEF TruthInv, VerdictsInv, SystemsInv, AuthInv, AnsweredInv, SearchedInv
<1>2. CASE Directory
  BY <1>2, DirectoryTruth
<1>3. CASE Diagnose
  BY <1>3, LookUpTruth, CheckSystemTruth, CheckAccountTruth, CheckAuthTruth,
     NothingRequiredTruth, ServeTruth, FetchGrantsTruth, FetchAuditTruth DEF Diagnose
<1>4. CASE UNCHANGED vars
  BY <1>4 DEF vars, directory, run, local, TruthInv, VerdictsInv, SystemsInv, AuthInv,
     AnsweredInv, SearchedInv
<1> QED BY <1>1, <1>2, <1>3, <1>4 DEF Next

\* Whatever the directory does between the calls of a run and while their answers
\* are on the way, each verdict the run publishes without a fault was true at some
\* instant of it, or was made of a true answer by the clock on its way, or blames
\* a removal that took one of two grants of a name.
THEOREM EveryVerdictWasTrueCorrect == Spec => []EveryVerdictWasTrue
<1>1. Init => ResultInv
  BY DEF Init, ResultInv, Done
<1>2. TypeInv /\ ResultInv /\ TruthInv => EveryVerdictWasTrue
  <2> SUFFICES ASSUME TypeInv, ResultInv, TruthInv, Done
               PROVE  \A i \in DOMAIN result.verdicts :
                        Witnessed(result.verdicts[i], hist, ManagedSystems(user), required)
    BY DEF EveryVerdictWasTrue, Witnessed, TakenOnce
  <2>1. result.verdicts = verdicts
    BY DEF ResultInv, Finalize
  <2>2. DOMAIN verdicts = 1..Len(verdicts)
    BY LenProperties DEF TypeInv, TypeOK
  <2> QED BY <2>1, <2>2 DEF TruthInv, VerdictsInv
<1> QED
  BY <1>1, <1>2, TypeInit, TypeStep, ResultStep, WitnessInit, WitnessStep, AnswerStep,
     TruthInit, TruthStep, PTL
  DEF Spec

-----------------------------------------------------------------------------
(* The reset link, the other way round *)

\* Only a user with an OPENIAM login can have had it expire.
LoginsInv ==
  /\ <<"expired login", "OPENIAM">> \in hist.was => HasOpenIAM(user)
  /\ pc = "status" => (HasOpenIAM(answer) <=> HasOpenIAM(user))

\* A verdict a link may be offered for has one, unless the OPENIAM login was
\* usable, or has no name, or there is none.
OfferInv ==
  \A i \in 1..Len(verdicts) : ResetEligible(verdicts[i]) =>
    \/ link # None
    \/ <<"usable login", "OPENIAM">> \in Seen
    \/ <<"OPENIAM login", None>> \in Seen
    \/ ~HasOpenIAM(user)

OfferedInv == LoginsInv /\ OfferInv

LEMMA OfferedInit == Init => OfferedInv
<1> SUFFICES ASSUME Init PROVE OfferedInv
  OBVIOUS
<1>1. Len(verdicts) = 0 /\ 1..0 = {}
  BY EmptySeq DEF Init
<1> QED BY <1>1 DEF Init, OfferedInv, LoginsInv, OfferInv

\* The fact that a login expired comes from a login of the bean.
LEMMA ExpiredFactLemma ==
  ASSUME NEW t, NEW u, NEW d, NEW al, NEW pl, NEW need,
         <<"expired login", "OPENIAM">> \in Facts(t, u, d, al, pl, need)
  PROVE  HasOpenIAM(u)
<1> DEFINE x == <<"expired login", "OPENIAM">>
<1>1. x \notin SystemFacts(u, d)
  <2> DEFINE S      == {u.logins[i].sys : i \in DOMAIN u.logins} \ {"unknown system"}
             last(z) == LET tested == {i \in DOMAIN d[z] : d[z][i].dated}
                        IN  IF tested = {} THEN {Len(d[z])} \cap DOMAIN d[z]
                            ELSE {i \in tested : \A j \in tested : d[z][j].at <= d[z][i].at}
             F(z)   == IF last(z) = {} THEN {<<"up", z>>}
                       ELSE {<<IF d[z][i].ok THEN "up" ELSE "down", z>> : i \in last(z)}
  <2>1. SystemFacts(u, d) = UNION {F(z) : z \in S}
    BY DEF SystemFacts
  <2> HIDE DEF last
  <2>2. \A z : x \notin F(z)
    OBVIOUS
  <2> HIDE DEF F, S
  <2> QED BY <2>1, <2>2
<1>2. x \notin AuthFacts(t, al)
  BY DEF AuthFacts
<1>3. x \notin AccessFacts(t, u, pl, need)
  BY DEF AccessFacts
<1>4. x \in AccountFacts(t, u) => HasOpenIAM(u)
  BY DEF AccountFacts, HasOpenIAM
<1> QED BY <1>1, <1>2, <1>3, <1>4 DEF Facts

\* The logins of a bean change, but not which systems they are for.
LEMMA SameLogins ==
  ASSUME user \in UserBean, Directory
  PROVE  HasOpenIAM(user') <=> HasOpenIAM(user)
BY UserChangeLemma DEF HasOpenIAM

LEMMA LoginsStep == TypeInv /\ LoginsInv /\ [Next]_vars => LoginsInv'
<1> SUFFICES ASSUME TypeInv, LoginsInv, [Next]_vars PROVE LoginsInv'
  OBVIOUS
<1>1. CASE StartRun
  BY <1>1, ExpiredFactLemma DEF StartRun, StartWatching, LoginsInv, directory
<1>2. CASE Directory
  <2>1. /\ \E aged : KeepWatching(aged)
        /\ pc' = pc /\ answer' = answer
        /\ user \in UserBean
        /\ hist = [was |-> hist.was, late |-> hist.late, faults |-> hist.faults]
    BY <1>2, DirectoryFrame DEF run, local, TypeInv, TypeOK, DirectoryTyped
  <2> QED BY <1>2, <2>1, SameLogins, ExpiredFactLemma DEF KeepWatching, LoginsInv
<1>3. CASE Diagnose
  <2>1. user' = user
    BY <1>3 DEF Diagnose, LookUpManagedSystems, CheckManagedSystem, ServeAccount,
       CheckAccount, CheckAuthEvents, NothingRequired, ServeGrants, FetchGrants,
       FetchPermissionAudit, directory
  <2>2. hist'.was = hist.was
    BY <1>3, BlameFault, StepInSteps
       DEF Diagnose, LookUpManagedSystems, CheckManagedSystem, ServeAccount,
           CheckAccount, CheckAuthEvents, NothingRequired, ServeGrants, FetchGrants,
           FetchPermissionAudit, TypeInv
  <2>3. pc' = "status" => answer' = user
    BY <1>3, StatusLemma DEF ServeAccount
  <2> QED BY <2>1, <2>2, <2>3 DEF LoginsInv
<1>4. CASE UNCHANGED vars
  BY <1>4 DEF vars, directory, run, local, LoginsInv
<1> QED BY <1>1, <1>2, <1>3, <1>4 DEF Next

\* A bean whose account is "password_expired" and that has an OPENIAM login
\* answers with a link, unless that login is usable now or has no name.
LEMMA OfferLemma ==
  ASSUME NEW t, NEW u \in UserBean, ~UserStatusRaises(u, t), HasOpenIAM(u)
  PROVE  \/ PasswordResetLink(u, t) # None
         \/ <<"usable login", "OPENIAM">> \in AccountFacts(t, u)
         \/ <<"OPENIAM login", None>> \in AccountFacts(t, u)
<1> DEFINE stale == {i \in DOMAIN u.logins : Ended(u.logins[i].pwdExp, t)}
<1>1. PICK j \in DOMAIN u.logins :
        u.logins[j].sys = "OPENIAM" /\ SelectLogin(u) = u.logins[j].login
  BY SelectLemma
<1>2. CASE \E k \in stale : u.logins[k].sys = "OPENIAM"
  <2>1. PICK k \in stale : u.logins[k].sys = "OPENIAM"
    BY <1>2
  <2>2. u.logins[k] \in ExpiredLogins(u, t)
    BY <2>1 DEF ExpiredLogins, Range, Ended, HasPassed, ParseEndDate, NoDate
  <2>3. PasswordResetLink(u, t) = u.logins[j].login
    BY <1>1, <2>1, <2>2 DEF PasswordResetLink
  <2>4. <<"OPENIAM login", u.logins[j].login>> \in AccountFacts(t, u)
    BY <1>1 DEF AccountFacts
  <2> QED BY <2>3, <2>4
<1>3. CASE \A k \in stale : u.logins[k].sys # "OPENIAM"
  BY <1>1, <1>3 DEF AccountFacts
<1> QED BY <1>2, <1>3

\* Besides the account check no call makes a verdict a link may be offered for.
LEMMA EligibleLemma ==
  ASSUME TypeInv, Diagnose, \A r \in Replies : ~CheckAccount(r)
  PROVE  /\ link' = link
         /\ \A i \in 1..Len(verdicts') : ResetEligible(verdicts'[i]) =>
              i \in 1..Len(verdicts) /\ verdicts'[i] = verdicts[i]
<1> USE DEF StepError
<1>1. Running /\ link' = link
  BY DEF Diagnose, LookUpManagedSystems, CheckManagedSystem, CheckAuthEvents,
     ServeAccount, NothingRequired, ServeGrants, FetchGrants, FetchPermissionAudit, local,
     Running
<1>2. ASSUME NEW status \in VerdictStatus, NEW cause \in Causes \ {"password_expired"},
             Conclude(status, cause)
      PROVE  \A i \in 1..Len(verdicts') : ResetEligible(verdicts'[i]) =>
               i \in 1..Len(verdicts) /\ verdicts'[i] = verdicts[i]
  <2> DEFINE v == [step |-> CurrentStep, status |-> status, cause |-> cause]
             n == Len(verdicts)
  <2>1. verdicts \in Seq(Verdict) /\ n \in 0..3 /\ verdicts' = Append(verdicts, v)
    BY <1>1, <1>2, LenProperties DEF TypeInv, TypeOK, OrderInv, Running, Position, Conclude
  <2>2. v \in Verdict
    BY <1>1, CurrentStepLemma, StepNamesLemma DEF Verdict
  <2>3. ~ResetEligible(v)
    BY DEF ResetEligible
  <2> HIDE DEF v
  <2>4. /\ Len(verdicts') = n + 1 /\ verdicts'[n + 1] = v
        /\ \A i \in 1..n : verdicts'[i] = verdicts[i]
    BY <2>1, <2>2, AppendProperties
  <2> HIDE DEF n
  <2>5. \A i \in 1..(n + 1) : i \in 1..n \/ i = n + 1
    BY <2>1
  <2> QED BY <2>3, <2>4, <2>5 DEF n
<1>3. \/ verdicts' = verdicts
      \/ \E status \in VerdictStatus, cause \in Causes \ {"password_expired"} :
           Conclude(status, cause)
  <2>1. ASSUME NEW r \in Replies, LookUpManagedSystems(r)
        PROVE  \/ verdicts' = verdicts
               \/ \E status \in VerdictStatus, cause \in Causes \ {"password_expired"} :
                    Conclude(status, cause)
    BY <2>1 DEF LookUpManagedSystems, ConcludeAvailability, VerdictStatus, Causes, None
  <2>2. ASSUME NEW s \in pending, NEW r \in Replies, CheckManagedSystem(s, r)
        PROVE  \/ verdicts' = verdicts
               \/ \E status \in VerdictStatus, cause \in Causes \ {"password_expired"} :
                    Conclude(status, cause)
    BY <2>2 DEF CheckManagedSystem, ConcludeAvailability, VerdictStatus, Causes, None
  <2>3. ASSUME NEW r \in Replies, CheckAuthEvents(r)
        PROVE  \E status \in VerdictStatus, cause \in Causes \ {"password_expired"} :
                 Conclude(status, cause)
    <3>1. ASSUME NEW page \in Pages(authLog, asked, AuthWindow, AuthPage),
                 NEW latest \in LatestEvents(Parsed(page))
          PROVE  AuthCause(latest) \in Causes \ {"password_expired"}
      <4>1. latest \in authLog
        BY <3>1 DEF LatestEvents, Parsed, Pages, InWindow
      <4> QED BY <4>1, LogLemma DEF AuthCause, AuthActions, Causes, None
    <3> QED BY <2>3, <3>1 DEF CheckAuthEvents, VerdictStatus, Causes, None
  <2>4. CASE NothingRequired
    BY <2>4 DEF NothingRequired, VerdictStatus, Causes, None
  <2>5. ASSUME NEW r \in Replies, FetchGrants(r)
        PROVE  \/ verdicts' = verdicts
               \/ \E status \in VerdictStatus, cause \in Causes \ {"password_expired"} :
                    Conclude(status, cause)
    BY <2>5 DEF FetchGrants, VerdictStatus, Causes, None
  <2>6. ASSUME NEW r \in Replies, FetchPermissionAudit(r)
        PROVE  \E status \in VerdictStatus, cause \in Causes \ {"password_expired"} :
                 Conclude(status, cause)
    BY <2>6, CausesLemma DEF FetchPermissionAudit, VerdictStatus, Causes, None
  <2>7. ServeAccount \/ ServeGrants => verdicts' = verdicts
    BY DEF ServeAccount, ServeGrants
  <2> QED BY <2>1, <2>2, <2>3, <2>4, <2>5, <2>6, <2>7 DEF Diagnose
<1> QED BY <1>1, <1>2, <1>3

\* The account check offers the link when it can.
LEMMA AccountOffer ==
  ASSUME TypeInv, AnswerInv, LoginsInv, NEW r \in Replies, CheckAccount(r)
  PROVE  OfferInv'
<1>1. /\ Running /\ pc = "status" /\ Len(verdicts) = 1 /\ verdicts \in Seq(Verdict)
      /\ user' = user
  BY DEF CheckAccount, Running, TypeInv, TypeOK, OrderInv, Position, directory
<1>2. hist'.was = hist.was /\ hist'.late = hist.late
  BY BlameFault, StepInSteps DEF CheckAccount, TypeInv
<1>3. PICK status \in VerdictStatus, cause \in Causes :
        /\ Conclude(status, cause)
        /\ cause = "password_expired" =>
             ~UserStatusRaises(answer, now) /\ link' = PasswordResetLink(answer, now)
  BY CausesLemma DEF CheckAccount, ConcludeAccount, StepError, VerdictStatus, Causes, None
<1> DEFINE v == [step |-> CurrentStep, status |-> status, cause |-> cause]
<1>4. v \in Verdict
  BY <1>1, CurrentStepLemma, StepNamesLemma DEF Verdict
<1>5. ResetEligible(v) => cause = "password_expired"
  BY DEF ResetEligible
<1>6. verdicts' = Append(verdicts, v)
  BY <1>3 DEF Conclude
<1> HIDE DEF v
<1>7. Len(verdicts') = 2 /\ verdicts'[1] = verdicts[1] /\ verdicts'[2] = v
  <2>1. /\ Len(verdicts') = Len(verdicts) + 1 /\ verdicts'[Len(verdicts) + 1] = v
        /\ \A i \in 1..Len(verdicts) : verdicts'[i] = verdicts[i]
    <3>1. Len(verdicts) < 4
      BY <1>1
    <3> QED BY <1>1, <1>4, <1>6, <3>1, AppendLemma
  <2>2. Len(verdicts) + 1 = 2 /\ 1 \in 1..Len(verdicts)
    BY <1>1
  <2> QED BY <2>1, <2>2
<1>8. ~ResetEligible(verdicts[1])
  <2>1. verdicts[1].step = StepNames[1]
    BY <1>1 DEF TypeInv, OrderInv
  <2> QED BY <2>1, StepNamesLemma DEF ResetEligible
<1>9. ResetEligible(v) =>
        \/ link' # None
        \/ <<"usable login", "OPENIAM">> \in Seen'
        \/ <<"OPENIAM login", None>> \in Seen'
        \/ ~HasOpenIAM(user')
  <2>1. answer \in UserBean /\ (HasOpenIAM(answer) <=> HasOpenIAM(user))
    BY <1>1 DEF TypeInv, TypeOK, LoginsInv
  <2>2. AccountFacts(now, answer) \subseteq Seen'
    BY <1>1, <1>2 DEF AnswerInv, Seen
  <2> QED BY <1>1, <1>3, <1>5, <2>1, <2>2, OfferLemma
<1>10. \A i \in 1..Len(verdicts') : i = 1 \/ i = 2
  BY <1>7
<1> QED BY <1>7, <1>8, <1>9, <1>10 DEF OfferInv

LEMMA OfferStep ==
  TypeInv /\ AnswerInv /\ LoginsInv /\ OfferInv /\ [Next]_vars => OfferInv'
<1> SUFFICES ASSUME TypeInv, AnswerInv, LoginsInv, OfferInv, [Next]_vars PROVE OfferInv'
  OBVIOUS
<1>1. CASE StartRun
  <2>1. verdicts' = <<>>
    BY <1>1 DEF StartRun
  <2>2. Len(verdicts') = 0 /\ 1..0 = {}
    BY <2>1
  <2> QED BY <2>2 DEF OfferInv
<1>2. CASE Directory /\ ~StartRun
  <2>1. verdicts' = verdicts /\ link' = link /\ user \in UserBean
    BY <1>2, DirectoryFrame DEF run, TypeInv, TypeOK, DirectoryTyped, local
  <2>2. Seen \subseteq Seen'
    BY <1>1, <1>2, HistoryLemma DEF Next, Seen
  <2> QED BY <1>2, <2>1, <2>2, SameLogins DEF OfferInv
<1>3. ASSUME NEW r \in Replies, CheckAccount(r) PROVE OfferInv'
  BY <1>3, AccountOffer
<1>4. CASE Diagnose /\ ~StartRun /\ \A r \in Replies : ~CheckAccount(r)
  <2>1. user' = user
    BY <1>4 DEF Diagnose, LookUpManagedSystems, CheckManagedSystem, ServeAccount,
       CheckAuthEvents, NothingRequired, ServeGrants, FetchGrants, FetchPermissionAudit,
       directory
  <2>2. Seen \subseteq Seen'
    BY <1>1, <1>4, HistoryLemma DEF Next, Seen
  <2> QED BY <1>4, <2>1, <2>2, EligibleLemma DEF OfferInv
<1>5. CASE UNCHANGED vars
  BY <1>5 DEF vars, directory, run, local, OfferInv, Seen
<1> QED BY <1>1, <1>2, <1>3, <1>4, <1>5 DEF Next

LEMMA LastLemma ==
  ASSUME NEW s \in Seq(Verdict), s # <<>>
  PROVE  Len(s) \in 1..Len(s) /\ Last(s) = s[Len(s)]
<1>1. Len(s) \in Nat /\ Len(s) # 0
  BY EmptySeq, LenProperties
<1>2. Len(s) \in 1..Len(s)
  BY <1>1
<1> QED BY <1>2 DEF Last

\* Whoever is told to reset a password is offered a link when the OPENIAM password
\* had expired during the run, unless that login was usable at some instant of it
\* or the directory names no login for it.
THEOREM ResetLinkOfferedCorrect == Spec => []ResetLinkOffered
<1>1. Init => ResultInv
  BY DEF Init, ResultInv, Done
<1>2. TypeInv /\ ResultInv /\ LoginsInv /\ OfferInv => ResetLinkOffered
  <2> SUFFICES ASSUME TypeInv, ResultInv, LoginsInv, OfferInv, Done,
                      VerdictMessage(result) = "reset_password",
                      <<"expired login", "OPENIAM">> \in hist.was,
                      <<"usable login", "OPENIAM">> \notin Seen,
                      <<"OPENIAM login", None>> \notin Seen
               PROVE  MessageLink(result) # None
    BY DEF ResetLinkOffered
  <2> DEFINE v == Last(verdicts)
             n == Len(verdicts)
  <2>1. verdicts # <<>> /\ result = Finalize(verdicts, link)
    BY DEF ResultInv
  <2>2. n \in 1..n /\ v = verdicts[n]
    BY <2>1, LastLemma DEF TypeInv, TypeOK
  <2>3. Last(result.verdicts) = v
    BY <2>1 DEF Finalize
  <2>4. ResetEligible(v)
    BY <2>3 DEF VerdictMessage, FailMessage, AccountMessage, ResetEligible
  <2>5. MessageLink(result) = link
    BY <2>1, <2>3, <2>4 DEF MessageLink, Finalize
  <2>6. HasOpenIAM(user)
    BY DEF LoginsInv
  <2> QED BY <2>2, <2>4, <2>5, <2>6 DEF OfferInv
<1> QED
  BY <1>1, <1>2, TypeInit, TypeStep, ResultStep, WitnessInit, WitnessStep, AnswerStep,
     OfferedInit, LoginsStep, OfferStep, PTL
  DEF Spec, OfferedInv
=============================================================================
