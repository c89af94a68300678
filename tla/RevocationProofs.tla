-------------------------- MODULE RevocationProofs --------------------------
(***************************************************************************)
(* Proofs about Revocation, for every set of users, groups, replicas and   *)
(* request slots and every value of the time constants: types, the deny    *)
(* list, the tombstones, that nothing is dropped without cause, the fence, *)
(* the window at a mint, and what a removed member is no longer served.    *)
(***************************************************************************)
EXTENDS Revocation, WellFoundedInduction, TLAPS

-----------------------------------------------------------------------------
(* The inductive invariant *)

\* A handler runs for at most Flight; which operation is at which point, and
\* what its job then holds.  A live handle was minted at most MaxTTL ago.
Control(q) ==
    /\ pc[q] # "idle" => job[q].began <= now /\ now - job[q].began <= Flight
    /\ pc[q] \in {"gate", "gateFill"} => job[q].op = "mint"
    /\ pc[q] \in {"tomb", "tombFill", "rev", "revFill"} =>
          job[q].op \in {"mint", "read", "fenced"}
    /\ pc[q] = "resolve" => job[q].op = "fenced" /\ job[q].subject \in User
    /\ pc[q] \in {"commit", "delete"} => job[q].op = "remove"
    /\ job[q].op = "mint" => job[q].subject \in User
    /\ job[q].op = "remove" => job[q].subject \in User /\ cutoff[q] \in Time
    /\ pc[q] # "idle" /\ job[q].op \in {"read", "fenced"} =>
          cutoff[q] >= job[q].began - MaxTTL
    /\ pc[q] = "tombFill" /\ job[q].op = "mint" => cutoff[q] >= job[q].began - Window

\* A RevokedSet answered at t0 or later: complete and sound up to t0.
RevAnswer(S, t0) ==
    \A t \in Token :
        /\ revoked[t].active /\ revoked[t].since < t0 => t \in S
        /\ t \in S => revoked[t].active \/ revoked[t].since >= t0

\* A TombstoneSet holds rows only, and for every row committed before t0 and
\* younger than t1 one of the same token.
TombAnswer(S, t0, t1) ==
    /\ \A e \in S : \E r \in revocations : r.token = e.token /\ r.at = e.at
    /\ \A r \in revocations : r.seen < t0 /\ r.at > t1 =>
         \E e \in S : e.token = r.token

\* The two conclusions for one compiled request.
Denied(q) ==
    \A t \in principals[q] :
        ~(revoked[t].active /\ job[q].began - revoked[t].since >= Lag)
Bitten(q) ==
    \A t \in principals[q], r \in revocations :
        /\ r.token = t /\ r.at >= cutoff[q] /\ job[q].began - r.seen >= Lag
        => \E s \in revocations : s.token = t /\ s.at < cutoff[q]

\* What the answers in a handler's hands are worth.
Views(q) ==
    /\ pc[q] \in {"gateFill", "revFill"} => RevAnswer(rev[q], job[q].began)
    /\ pc[q] = "tombFill" => TombAnswer(tomb[q], job[q].began, now - Retention)
    /\ pc[q] \in {"rev", "revFill"} =>
          TombAnswer(tomb[q], job[q].began - Lag + 1, cutoff[q] - 1)
    /\ pc[q] = "done" => Denied(q) /\ Bitten(q)

\* What a cached answer is worth while it lives.
RevEntry(e) ==
    Live(e) => /\ e.at <= now /\ now - e.at < CacheTTL
               /\ RevAnswer(e.val, e.at - Flight)
TombEntry(e) ==
    Live(e) => /\ e.at <= now /\ now - e.at < CacheTTL
               /\ TombAnswer(e.val, e.at - Flight, e.at - Retention)

Lifetime(h) == h.expires_at <= h.issued_at + MaxTTL

IInv ==
    /\ TypeOK
    /\ \A q \in Request : Control(q) /\ Views(q)
    /\ \A r \in Replica : RevEntry(revCache[r]) /\ TombEntry(tombCache[r])
    /\ \A h \in handles : Lifetime(h)

LEMMA InitIInv == Init => IInv
BY PlaneAssumption, TimingAssumption
   DEF Init, IInv, TypeOK, Control, Views, RevEntry, TombEntry, NoJob, Job, Point, Entry,
       NoEntry, Live, Time

LEMMA Typed ==
    ASSUME IInv
    PROVE  /\ now \in Nat
           /\ \A q \in Request : /\ job[q].began \in Nat /\ cutoff[q] \in Int
                                 /\ job[q].subject \in User \union {NoUser}
           /\ \A r \in Replica : /\ Live(tombCache[r]) => tombCache[r].at \in Nat
                                 /\ Live(revCache[r]) => revCache[r].at \in Nat
           /\ \A r \in revocations : r.at \in Nat /\ r.seen \in Nat
           /\ \A t \in Token : revoked[t].since \in Int
BY Zenon DEF IInv, TypeOK, Job, Entry, Live, Row, Time

-----------------------------------------------------------------------------
(* Steps that change neither table nor the clock: it is enough to look at   *)
(* the slots, cache entries and handles that changed.                       *)

Unmoved(p) ==
    /\ pc'[p] = pc[p] /\ job'[p] = job[p] /\ principals'[p] = principals[p]
    /\ cutoff'[p] = cutoff[p] /\ tomb'[p] = tomb[p] /\ rev'[p] = rev[p]

Over(p) == pc'[p] = "idle" /\ job'[p] = NoJob

LEMMA Preserved ==
    ASSUME IInv, TypeOK', UNCHANGED <<now, revocations, revoked>>,
           \A p \in Request : Unmoved(p) \/ Over(p) \/ (Control(p)' /\ Views(p)'),
           \A r \in Replica : revCache'[r] = revCache[r] \/ RevEntry(revCache'[r]),
           \A r \in Replica : tombCache'[r] = tombCache[r] \/ TombEntry(tombCache'[r]),
           \A h \in handles' : h \in handles \/ Lifetime(h)
    PROVE  IInv'
<1>1. \A S, a : RevAnswer(S, a) => RevAnswer(S, a)'
  BY Zenon DEF RevAnswer
<1>2. \A S, a, b : TombAnswer(S, a, b) => TombAnswer(S, a, b)'
  BY Zenon DEF TombAnswer
<1>3. ASSUME NEW p \in Request, Unmoved(p) PROVE Control(p)' /\ Views(p)'
  <2>1. Control(p)'
    BY Zenon, <1>3 DEF IInv, Control, Unmoved
  <2>2. Views(p)'
    BY <1>1, <1>2, <1>3 DEF IInv, Views, Unmoved, Denied, Bitten, Lag
  <2> QED BY Zenon, <2>1, <2>2
<1>4. ASSUME NEW p \in Request, Over(p) PROVE Control(p)' /\ Views(p)'
  BY <1>4 DEF Over, Control, Views, NoJob
<1>5. \A r \in Replica : RevEntry(revCache[r])' /\ TombEntry(tombCache[r])'
  BY Zenon, <1>1, <1>2 DEF IInv, RevEntry, TombEntry, Live
<1> QED BY Zenon, <1>3, <1>4, <1>5 DEF IInv, Lifetime

LEMMA EndType ==
    ASSUME IInv, NEW Q, End(Q)
    PROVE  /\ pc' \in [Request -> Point] /\ job' \in [Request -> Job]
           /\ principals' \in [Request -> SUBSET Token]
           /\ cutoff' \in [Request -> Int]
           /\ tomb' \in [Request -> SUBSET Tombstone]
           /\ rev' \in [Request -> SUBSET Token]
           /\ \A p \in Request : Unmoved(p) \/ Over(p)
BY DEF IInv, TypeOK, End, Point, Job, NoJob, Time, Unmoved, Over

LEMMA MintType ==
    ASSUME IInv, NEW u \in User \union {NoUser}, NEW ps \in SUBSET Token, Mint(u, ps)
    PROVE  /\ handles' \subseteq ScopePayload
           /\ \A h \in handles' : Lifetime(h)
BY TimingAssumption DEF IInv, TypeOK, Lifetime, Mint, Clamp, ScopePayload, Time

LEMMA Emptied ==
    ASSUME IInv, NEW r \in Replica
    PROVE  /\ [tombCache EXCEPT ![r] = NoEntry] \in [Replica -> Entry(Tombstone)]
           /\ [revCache EXCEPT ![r] = NoEntry] \in [Replica -> Entry(Token)]
           /\ \A x \in Replica : \/ [tombCache EXCEPT ![r] = NoEntry][x] = tombCache[x]
                                 \/ TombEntry([tombCache EXCEPT ![r] = NoEntry][x])
           /\ \A x \in Replica : \/ [revCache EXCEPT ![r] = NoEntry][x] = revCache[x]
                                 \/ RevEntry([revCache EXCEPT ![r] = NoEntry][x])
BY Zenon DEF IInv, TypeOK, Entry, TombEntry, RevEntry, Live

LEMMA LeaveType ==
    ASSUME IInv, NEW u \in User, NEW g, Leave(u, g)
    PROVE  member' \in [User -> SUBSET Group] /\ left' \subseteq Departure
BY DEF IInv, TypeOK, Leave, Departure, Time

LEMMA StartStep ==
    ASSUME IInv, NEW q \in Request, NEW p \in Point,
           NEW op \in {"mint", "read", "remove"},
           NEW u \in User \union {NoUser}, NEW g \in Group \union {NoGroup},
           NEW ps \in SUBSET Token, NEW c \in Int,
           Start(q, p, op, u, g, ps, c),
           \/ p = "gate" /\ op = "mint" /\ u \in User
           \/ p = "tomb" /\ op = "read" /\ c >= now - MaxTTL
           \/ p = "commit" /\ op = "remove" /\ u \in User /\ c \in Time,
           UNCHANGED <<now, tables, caches, handles>>
    PROVE  IInv'
<1>1. TypeOK'
  BY Zenon DEF IInv, TypeOK, Start, Goto, Hold, Job, Time, tables, caches
<1>2. /\ \A x \in Request \ {q} : Unmoved(x)
      /\ pc'[q] = p /\ cutoff'[q] = c
      /\ job'[q].op = op /\ job'[q].began = now /\ job'[q].subject = u
  BY Zenon DEF IInv, TypeOK, Start, Goto, Hold, Unmoved
<1>3. UNCHANGED <<now, revocations, revoked, tombCache, revCache, handles>>
  BY Zenon DEF tables, caches
<1>4. Control(q)' /\ Views(q)'
  BY <1>2, <1>3, Typed, TimingAssumption DEF Control, Views
<1> QED BY Zenon, <1>1, <1>2, <1>3, <1>4, Preserved

LEMMA QuietActions ==
    ASSUME IInv,
           \/ \E q \in Request, u \in Subject : OpenScope(q, u)
           \/ \E q \in Request, h \in handles : ScopeFor(q, h)
           \/ \E q \in Request, u \in User, g \in Group : AdminGroupRemove(q, u, g)
           \/ \E q \in Request : \/ Respond(q) \/ Drop(q)
                                \/ DeleteMembership(q) \/ DenyInvalidate(q)
           \/ \E u \in User, g \in Group : AdminGroupAdd(u, g) \/ LeaveOutOfBand(u, g)
           \/ \E ps \in Asserted : OpenScopeAsserted(ps)
           \/ \E r \in Replica : Restart(r)
           \/ UNCHANGED vars
    PROVE  IInv'
<1>1. ASSUME NEW q \in Request, NEW u \in Subject, OpenScope(q, u)
      PROVE  IInv'
  <2>1. PICK ps \in SUBSET Token : Start(q, "gate", "mint", u, NoGroup, ps, 0)
    BY <1>1, PlaneAssumption DEF IInv, TypeOK, UserGroups, Token, OpenScope
  <2>2. UNCHANGED <<now, tables, caches, handles>> /\ u \in User
    BY Zenon, <1>1, PlaneAssumption DEF OpenScope
  <2> QED BY <2>1, <2>2, StartStep, SMTT(30) DEF Point
<1>2. ASSUME NEW q \in Request, NEW h \in handles, ScopeFor(q, h)
      PROVE  IInv'
  <2>1. /\ Start(q, "tomb", "read", h.subject, NoGroup, h.principals, h.issued_at)
        /\ UNCHANGED <<now, tables, caches, handles>>
    BY Zenon, <1>2 DEF ScopeFor
  <2>2. /\ h.subject \in User \union {NoUser} /\ h.principals \in SUBSET Token
        /\ h.issued_at \in Int /\ h.issued_at >= now - MaxTTL
    BY <1>2, TimingAssumption DEF ScopeFor, IInv, TypeOK, ScopePayload, Lifetime, Time
  <2> QED BY Zenon, <2>1, <2>2, StartStep DEF Point
<1>3. ASSUME NEW q \in Request, NEW u \in User, NEW g \in Group,
             AdminGroupRemove(q, u, g)
      PROVE  IInv'
  <2>1. /\ Start(q, "commit", "remove", u, g, Up[g], now)
        /\ UNCHANGED <<now, tables, caches, handles>>
    BY Zenon, <1>3 DEF AdminGroupRemove
  <2>2. Up[g] \in SUBSET Token /\ now \in Int /\ now \in Time
    BY PlaneAssumption, Typed DEF Token, Time
  <2> QED BY Zenon, <2>1, <2>2, StartStep DEF Point
<1>4. ASSUME NEW q \in Request, Respond(q) \/ Drop(q)
      PROVE  IInv'
  <2>1. End({q}) /\ UNCHANGED <<now, tables, caches, handles>>
    BY Zenon, <1>4 DEF Respond, Drop
  <2>2. UNCHANGED <<now, revocations, revoked, member, left, tombCache, revCache, handles>>
    BY Zenon, <2>1 DEF tables, caches
  <2>3. TypeOK'
    BY Zenon, <2>1, <2>2, EndType DEF IInv, TypeOK
  <2> QED BY Zenon, <2>1, <2>2, <2>3, EndType, Preserved
<1>5. ASSUME NEW q \in Request, DeleteMembership(q)
      PROVE  IInv'
  <2>1. member' \in [User -> SUBSET Group] /\ left' \subseteq Departure
    BY Zenon, <1>5, LeaveType DEF DeleteMembership, IInv, Control
  <2>2. End({q}) /\ UNCHANGED <<now, revocations, revoked, tombCache, revCache, handles>>
    BY Zenon, <1>5 DEF DeleteMembership, caches
  <2>3. TypeOK'
    BY Zenon, <2>1, <2>2, EndType DEF IInv, TypeOK
  <2> QED BY Zenon, <2>2, <2>3, EndType, Preserved
<1>6. ASSUME NEW q \in Request, DenyInvalidate(q)
      PROVE  IInv'
  <2>1. /\ revCache' = [revCache EXCEPT ![Home[q]] = NoEntry] /\ End({q})
        /\ UNCHANGED <<now, revocations, revoked, member, left, tombCache, handles>>
    BY Zenon, <1>6 DEF DenyInvalidate, tables
  <2>2. Home[q] \in Replica
    BY Zenon, PlaneAssumption
  <2>3. TypeOK'
    BY Zenon, <2>1, <2>2, EndType, Emptied DEF IInv, TypeOK
  <2> QED BY Zenon, <2>1, <2>2, <2>3, EndType, Emptied, Preserved
<1>7. ASSUME NEW u \in User, NEW g \in Group, AdminGroupAdd(u, g) \/ LeaveOutOfBand(u, g)
      PROVE  IInv'
  <2>1. member' \in [User -> SUBSET Group] /\ left' \subseteq Departure
    BY Zenon, <1>7, LeaveType DEF AdminGroupAdd, LeaveOutOfBand, IInv, TypeOK
  <2>2. UNCHANGED <<now, revocations, revoked, caches, handles, slots>>
    BY Zenon, <1>7 DEF AdminGroupAdd, LeaveOutOfBand
  <2>3. TypeOK' /\ \A p \in Request : Unmoved(p)
    BY Zenon, <2>1, <2>2 DEF IInv, TypeOK, Unmoved, caches, slots
  <2> QED BY Zenon, <2>2, <2>3, Preserved DEF caches
<1>8. ASSUME NEW ps \in Asserted, OpenScopeAsserted(ps)
      PROVE  IInv'
  <2>1. ps \in SUBSET Token
    BY Zenon, PlaneAssumption
  <2>2. Mint(NoUser, ps) /\ UNCHANGED <<now, tables, caches, slots>>
    BY Zenon, <1>8 DEF OpenScopeAsserted
  <2>3. TypeOK' /\ \A p \in Request : Unmoved(p)
    BY Zenon, <2>1, <2>2, MintType DEF IInv, TypeOK, Unmoved, tables, caches, slots
  <2> QED BY Zenon, <2>1, <2>2, <2>3, MintType, Preserved DEF tables, caches
<1>9. ASSUME NEW r \in Replica, Restart(r)
      PROVE  IInv'
  <2>1. /\ tombCache' = [tombCache EXCEPT ![r] = NoEntry]
        /\ revCache' = [revCache EXCEPT ![r] = NoEntry]
        /\ End({q \in Request : Home[q] = r})
        /\ UNCHANGED <<now, revocations, revoked, member, left, handles>>
    BY Zenon, <1>9 DEF Restart, tables
  <2>2. TypeOK'
    BY Zenon, <2>1, EndType, Emptied DEF IInv, TypeOK
  <2> QED BY Zenon, <2>1, <2>2, EndType, Emptied, Preserved
<1>10. ASSUME UNCHANGED vars
       PROVE  IInv'
  <2>1. UNCHANGED <<now, tables, caches, handles, slots>>
    BY Zenon, <1>10 DEF vars
  <2>2. TypeOK' /\ \A p \in Request : Unmoved(p)
    BY Zenon, <2>1 DEF IInv, TypeOK, Unmoved, tables, caches, slots
  <2> QED BY Zenon, <2>1, <2>2, Preserved DEF tables, caches
<1> QED BY ZenonT(30), <1>1, <1>2, <1>3, <1>4, <1>5, <1>6, <1>7, <1>8, <1>9, <1>10

-----------------------------------------------------------------------------
(* Facts about answers *)

LEMMA EarliestHasToken ==
    ASSUME TypeOK, NEW rows \in SUBSET revocations, NEW r \in rows
    PROVE  \E e \in Earliest(rows) : e.token = r.token
<1> DEFINE Ats == {x.at : x \in {y \in rows : y.token = r.token}}
<1>1. Ats \subseteq Nat /\ r.at \in Ats
  BY DEF TypeOK, Row, Time
<1>2. PICK a \in Ats : \A b \in Ats : ~(<<b, a>> \in OpToRel(<, Nat))
  <2> HIDE DEF Ats
  <2> QED BY <1>1, NatLessThanWellFounded, WFMin, Zenon
<1>3. \A b \in Ats : a <= b
  <2> SUFFICES ASSUME NEW b \in Ats PROVE ~(b < a)
    BY <1>1
  <2> QED BY Zenon, <1>1, <1>2 DEF OpToRel
<1>4. PICK x \in rows : x.token = r.token /\ x.at = a
  OBVIOUS
<1>5. \A y \in rows : y.token = x.token => x.at <= y.at
  BY Zenon, <1>3, <1>4
<1>6. [token |-> x.token, at |-> x.at] \in Earliest(rows)
  BY Zenon, <1>5 DEF Earliest
<1> QED BY Zenon, <1>4, <1>6

LEMMA TombWeaker ==
    ASSUME IInv, NEW S, NEW a \in Int, NEW b \in Int, TombAnswer(S, a, b),
           NEW a2 \in Int, NEW b2 \in Int, a2 <= a, b <= b2
    PROVE  TombAnswer(S, a2, b2)
BY Typed DEF TombAnswer

LEMMA RevWeaker ==
    ASSUME IInv, NEW S, NEW a \in Int, NEW a2 \in Int, RevAnswer(S, a), a2 <= a
    PROVE  RevAnswer(S, a2)
BY Typed DEF RevAnswer

\* New rows are seen now, so they are no part of what an old answer must hold.
LEMMA TombGrown ==
    ASSUME IInv, revocations \subseteq revocations',
           \A r \in revocations' \ revocations : r.seen = now,
           NEW S, NEW a \in Int, NEW b \in Int, TombAnswer(S, a, b), a <= now
    PROVE  TombAnswer(S, a, b)'
BY Typed DEF TombAnswer

\* A deny set a handler uses lags the table by less than Lag.
InHand(q, deny) ==
    \/ Live(revCache[Home[q]]) /\ deny = revCache[Home[q]].val
    \/ pc[q] \in {"gateFill", "revFill"} /\ deny = rev[q]

LEMMA DenyInHand ==
    ASSUME IInv, NEW q \in Request, pc[q] # "idle", NEW deny, InHand(q, deny)
    PROVE  \A t \in Token :
              /\ revoked[t].active /\ job[q].began - revoked[t].since >= Lag => t \in deny
              /\ t \in deny => revoked[t].active \/ now - revoked[t].since < Lag
<1>1. PICK a \in Int : RevAnswer(deny, a) /\ now - a < Lag /\ job[q].began - a < Lag
  <2>1. job[q].began <= now /\ now - job[q].began <= Flight /\ Home[q] \in Replica
    BY Zenon, PlaneAssumption DEF IInv, Control
  <2>2. CASE Live(revCache[Home[q]]) /\ deny = revCache[Home[q]].val
    <3> DEFINE e == revCache[Home[q]]
    <3>1. e.at \in Nat /\ e.at <= now /\ now - e.at < CacheTTL /\ RevAnswer(deny, e.at - Flight)
      BY Zenon, <2>1, <2>2, Typed DEF IInv, RevEntry
    <3> HIDE DEF e
    <3> QED BY <2>1, <3>1, Typed, TimingAssumption DEF Lag
  <2>3. CASE pc[q] \in {"gateFill", "revFill"} /\ deny = rev[q]
    <3>1. RevAnswer(deny, job[q].began)
      BY Zenon, <2>3 DEF IInv, Views
    <3> QED BY <2>1, <3>1, Typed, TimingAssumption DEF Lag
  <2> QED BY Zenon, <2>2, <2>3 DEF InHand
<1> QED BY <1>1, Typed, TimingAssumption DEF RevAnswer, Lag

-----------------------------------------------------------------------------
(* Recording a removal, setting a denial, the clock *)

LEMMA RecordCommitStep ==
    ASSUME IInv, NEW q \in Request, RecordCommit(q)
    PROVE  IInv'
<1>1. /\ UNCHANGED <<now, revoked, tombCache, revCache, handles, job, principals,
                     cutoff, tomb, rev>>
      /\ \A x \in Request \ {q} : Unmoved(x)
      /\ pc[q] = "commit" /\ pc'[q] = "invalidate"
  BY Zenon DEF IInv, TypeOK, RecordCommit, Goto, Unmoved, caches
<1>2. /\ revocations \subseteq revocations' /\ revocations' \subseteq Row
      /\ \A r \in revocations' \ revocations : r.seen = now
  <2>1. /\ job[q].subject \in User /\ cutoff[q] \in Time /\ now \in Time
        /\ principals[q] \subseteq Token /\ revocations \subseteq Row
    BY Zenon, <1>1 DEF IInv, TypeOK, Control
  <2> QED BY <2>1 DEF RecordCommit, Row
<1>3. TypeOK'
  BY Zenon, <1>1, <1>2 DEF IInv, TypeOK, RecordCommit, Goto, Point
<1>4. ASSUME NEW p \in Request PROVE Control(p)'
  BY Zenon, <1>1 DEF IInv, Control, Unmoved
<1>5. ASSUME NEW p \in Request PROVE Views(p)'
  <2>1. CASE pc[p] = pc'[p] /\ pc[p] # "idle"
    <3>1. /\ job[p].began \in Int /\ cutoff[p] - 1 \in Int /\ now - Retention \in Int
          /\ job[p].began <= now /\ job[p].began - Lag + 1 \in Int
          /\ job[p].began - Lag + 1 <= now /\ now \in Int
      BY <2>1, Typed, TimingAssumption DEF IInv, Control, Lag
    <3>2. pc[p] = "tombFill" => TombAnswer(tomb[p], job[p].began, now - Retention)'
      BY Zenon, <1>1, <1>2, <3>1, TombGrown DEF IInv, Views
    <3>3. pc[p] \in {"rev", "revFill"} =>
             TombAnswer(tomb[p], job[p].began - Lag + 1, cutoff[p] - 1)'
      BY Zenon, <1>1, <1>2, <3>1, TombGrown DEF IInv, Views
    <3>4. Bitten(p) => Bitten(p)'
      <4>1. \A r \in revocations' : job[p].began - r.seen >= Lag => r \in revocations
        BY <1>2, <3>1, TimingAssumption DEF Lag
      <4> QED BY Zenon, <1>1, <1>2, <4>1 DEF Bitten, Lag
    <3> QED BY Zenon, <1>1, <2>1, <3>2, <3>3, <3>4 DEF IInv, Views, RevAnswer, Denied, Lag
  <2>2. CASE pc'[p] \in {"idle", "invalidate"}
    BY Zenon, <2>2 DEF Views
  <2> QED BY Zenon, <1>1, <2>1, <2>2 DEF Unmoved
<1>6. ASSUME NEW r \in Replica PROVE RevEntry(revCache[r])' /\ TombEntry(tombCache[r])'
  <2>1. RevEntry(revCache[r])'
    BY Zenon, <1>1 DEF IInv, RevEntry, RevAnswer, Live
  <2>2. TombEntry(tombCache[r])'
    BY <1>1, <1>2, TombGrown, Typed, TimingAssumption DEF IInv, TombEntry, Live
  <2> QED BY Zenon, <2>1, <2>2
<1> QED BY Zenon, <1>1, <1>3, <1>4, <1>5, <1>6 DEF IInv, Lifetime

LEMMA RecordInvalidateStep ==
    ASSUME IInv, NEW q \in Request, RecordInvalidate(q)
    PROVE  IInv'
<1>1. /\ UNCHANGED <<now, revocations, revoked, revCache, handles, job, cutoff>>
      /\ \A x \in Request \ {q} : Unmoved(x)
      /\ pc[q] = "invalidate" /\ pc'[q] = "delete" /\ job[q].op = "remove"
      /\ tombCache' = [tombCache EXCEPT ![Home[q]] = NoEntry] /\ Home[q] \in Replica
  BY Zenon, PlaneAssumption DEF IInv, TypeOK, RecordInvalidate, Goto, Unmoved, tables
<1>2. TypeOK'
  BY <1>1, Emptied DEF IInv, TypeOK, RecordInvalidate, Goto, Point, tables
<1>3. Control(q)' /\ Views(q)'
  BY Zenon, <1>1 DEF IInv, Control, Views
<1> QED BY Zenon, <1>1, <1>2, <1>3, Emptied, Preserved

LEMMA SetDeniedStep ==
    ASSUME IInv, NEW q \in Request, NEW u \in Deniable, NEW active \in BOOLEAN,
           SetDenied(q, u, active)
    PROVE  IInv'
<1>1. /\ UNCHANGED <<now, revocations, tombCache, revCache, handles>>
      /\ \A x \in Request \ {q} : Unmoved(x)
      /\ pc'[q] = "invalidate" /\ job'[q].op = "deny" /\ job'[q].began = now
  BY Zenon DEF IInv, TypeOK, SetDenied, Start, Goto, Hold, Unmoved, caches
<1>2. /\ u \in Token /\ u \in User /\ now \in Nat
      /\ \A t \in Token \ {u} : revoked'[t] = revoked[t]
      /\ \/ revoked'[u] = revoked[u]
         \/ revoked'[u] = [active |-> active, since |-> now] /\ revoked[u].active # active
  BY Zenon, PlaneAssumption, Typed DEF IInv, TypeOK, SetDenied, Token
<1>3. TypeOK'
  <2>1. revoked' \in [Token -> [active : BOOLEAN, since : Int]]
    <3>1. (IF revoked[u].active = active THEN revoked[u]
           ELSE [active |-> active, since |-> now]) \in [active : BOOLEAN, since : Int]
      BY <1>2 DEF IInv, TypeOK
    <3> QED BY Zenon, <1>2, <3>1 DEF IInv, TypeOK, SetDenied
  <2>2. [op |-> "deny", began |-> now, subject |-> u, group |-> NoGroup] \in Job
    BY Zenon, <1>2 DEF Job, Time
  <2> QED BY <1>1, <2>1, <2>2 DEF IInv, TypeOK, SetDenied, Start, Goto, Hold, Point
\* An answer that started before the change allows for it.
<1>4. ASSUME NEW S, NEW a \in Int, a <= now, RevAnswer(S, a) PROVE RevAnswer(S, a)'
  BY <1>2, <1>4, SMTT(30) DEF RevAnswer
<1>5. ASSUME NEW p \in Request PROVE Control(p)' /\ Views(p)'
  <2>1. CASE p = q
    BY <1>1, <1>2, <2>1, TimingAssumption DEF Control, Views
  <2>2. CASE p # q
    <3>1. Unmoved(p) /\ job[p].began \in Int
      BY <1>1, <2>2, Typed
    <3> Control(p) /\ Views(p)
      BY Zenon DEF IInv
    <3>2. Control(p)'
      BY Zenon, <1>1, <3>1 DEF Control, Unmoved
    <3>3. pc[p] # "idle" => job[p].began <= now
      BY Zenon, <3>1 DEF Control
    <3>4. pc[p] = "done" => Denied(p)'
      <4>1. principals[p] \subseteq Token
        BY Zenon DEF IInv, TypeOK
      <4>2. Lag \in Nat \ {0}
        BY TimingAssumption DEF Lag
      <4>3. ASSUME pc[p] = "done", NEW t \in principals[p], revoked'[t].active,
                   job[p].began - revoked'[t].since >= Lag
            PROVE  FALSE
        <5>1. revoked'[t] = revoked[t]
          BY <1>2, <3>1, <3>3, <4>1, <4>2, <4>3
        <5> QED BY Zenon, <4>3, <5>1 DEF Views, Denied
      <4> QED BY Zenon, <3>1, <4>3 DEF Denied, Unmoved, Lag
    <3>5. \A S, a, b : TombAnswer(S, a, b) => TombAnswer(S, a, b)'
      BY Zenon, <1>1 DEF TombAnswer
    <3>6. pc[p] \in {"gateFill", "revFill"} => RevAnswer(rev[p], job[p].began)'
      BY Zenon, <1>4, <3>1, <3>3 DEF Views, Unmoved
    <3>7. Bitten(p) => Bitten(p)'
      <4>1. /\ principals'[p] = principals[p] /\ cutoff'[p] = cutoff[p]
            /\ job'[p].began = job[p].began /\ revocations' = revocations
        BY Zenon, <1>1, <3>1 DEF Unmoved
      <4> QED BY Zenon, <4>1 DEF Bitten, Lag
    <3>8. /\ pc[p] = "tombFill" => TombAnswer(tomb[p], job[p].began, now - Retention)'
          /\ pc[p] \in {"rev", "revFill"} =>
               TombAnswer(tomb[p], job[p].began - Lag + 1, cutoff[p] - 1)'
      BY Zenon, <1>1, <3>1, <3>5 DEF Views, Unmoved, Lag
    <3> QED BY Zenon, <3>1, <3>2, <3>4, <3>6, <3>7, <3>8 DEF Views, Unmoved, Denied, Bitten
  <2> QED BY Zenon, <2>1, <2>2
<1>6. ASSUME NEW r \in Replica PROVE RevEntry(revCache[r])' /\ TombEntry(tombCache[r])'
  <2>1. RevEntry(revCache[r])'
    <3>1. Live(revCache[r]) =>
            /\ revCache[r].at - Flight \in Int /\ revCache[r].at - Flight <= now
            /\ RevAnswer(revCache[r].val, revCache[r].at - Flight)
      BY <1>2, Typed, TimingAssumption DEF IInv, RevEntry
    <3> QED BY Zenon, <1>1, <1>4, <3>1 DEF IInv, RevEntry, Live
  <2>2. TombEntry(tombCache[r])'
    BY Zenon, <1>1 DEF IInv, TombEntry, TombAnswer, Live
  <2> QED BY Zenon, <2>1, <2>2
<1> QED BY Zenon, <1>1, <1>3, <1>5, <1>6 DEF IInv, Lifetime

LEMMA TickStep ==
    ASSUME IInv, Tick
    PROVE  IInv'
<1>1. /\ now' = now + 1 /\ now \in Nat
      /\ UNCHANGED <<revocations, revoked, handles, pc, job, principals, cutoff, tomb, rev>>
  BY Zenon, Typed DEF Tick, slots
<1>2. ASSUME NEW r \in Replica
      PROVE  /\ \/ tombCache'[r] = NoEntry
                \/ tombCache'[r] = tombCache[r] /\ now + 1 - tombCache[r].at < CacheTTL
             /\ \/ revCache'[r] = NoEntry
                \/ revCache'[r] = revCache[r] /\ now + 1 - revCache[r].at < CacheTTL
  <2>1. tombCache' = Expire(tombCache, now + 1) /\ revCache' = Expire(revCache, now + 1)
    BY Zenon DEF Tick
  <2>2. tombCache[r].at \in Int /\ revCache[r].at \in Int
    BY DEF IInv, TypeOK, Entry, NoEntry, Time
  <2>3. \/ tombCache'[r] = NoEntry
        \/ tombCache'[r] = tombCache[r] /\ now + 1 - tombCache[r].at < CacheTTL
    BY <1>1, <2>1, <2>2, TimingAssumption DEF Expire
  <2>4. \/ revCache'[r] = NoEntry
        \/ revCache'[r] = revCache[r] /\ now + 1 - revCache[r].at < CacheTTL
    BY <1>1, <2>1, <2>2, TimingAssumption DEF Expire
  <2> QED BY Zenon, <2>3, <2>4
<1>3. TypeOK'
  <2>1. /\ tombCache' \in [Replica -> Entry(Tombstone)]
        /\ revCache' \in [Replica -> Entry(Token)]
    BY Zenon, <1>2 DEF Tick, Expire, IInv, TypeOK, Entry
  <2>2. left' \subseteq Departure /\ now' \in Time
    BY <1>1, SMTT(30) DEF Tick, IInv, TypeOK, Time
  <2> QED BY ZenonT(30), <1>1, <2>1, <2>2 DEF Tick, IInv, TypeOK
<1>4. ASSUME NEW p \in Request PROVE Control(p)'
  BY <1>1, Typed, TimingAssumption, SMTT(30) DEF Tick, IInv, Control
<1>5. ASSUME NEW p \in Request PROVE Views(p)'
  <2>1. \A S, a, b : TombAnswer(S, a, b) => TombAnswer(S, a, b)'
    BY Zenon, <1>1 DEF TombAnswer
  <2>2. pc[p] = "tombFill" => TombAnswer(tomb[p], job[p].began, now + 1 - Retention)
    BY <1>1, Typed, TimingAssumption, TombWeaker DEF IInv, Views
  <2>3. pc[p] = "tombFill" => TombAnswer(tomb[p], job[p].began, now - Retention)'
    <3>1. now' - Retention = now + 1 - Retention
      BY <1>1, TimingAssumption
    <3> QED BY Zenon, <1>1, <2>1, <2>2, <3>1
  <2>4. RevAnswer(rev[p], job[p].began) => RevAnswer(rev[p], job[p].began)'
    BY Zenon, <1>1 DEF RevAnswer
  <2>5. Denied(p) /\ Bitten(p) => Denied(p)' /\ Bitten(p)'
    BY Zenon, <1>1 DEF Denied, Bitten, Lag
  <2> QED BY Zenon, <1>1, <2>1, <2>3, <2>4, <2>5 DEF IInv, Views, Lag
<1>6. ASSUME NEW r \in Replica PROVE RevEntry(revCache[r])' /\ TombEntry(tombCache[r])'
  <2>1. /\ \A S, a : RevAnswer(S, a) => RevAnswer(S, a)'
        /\ \A S, a, b : TombAnswer(S, a, b) => TombAnswer(S, a, b)'
    BY Zenon, <1>1 DEF RevAnswer, TombAnswer
  <2>2. RevEntry(revCache[r]) /\ TombEntry(tombCache[r])
    BY Zenon DEF IInv
  <2>3. RevEntry(revCache[r])'
    BY <1>1, <1>2, <2>1, <2>2, Typed, SMTT(30) DEF RevEntry, Live
  <2>4. TombEntry(tombCache[r])'
    BY <1>1, <1>2, <2>1, <2>2, Typed DEF TombEntry, Live
  <2> QED BY Zenon, <2>3, <2>4
<1> QED BY Zenon, <1>1, <1>3, <1>4, <1>5, <1>6 DEF IInv, Lifetime

-----------------------------------------------------------------------------
(* Looking up the tombstones *)

\* A cutoff lies within the retention.
LEMMA CutoffRetained ==
    ASSUME IInv, NEW q \in Request, NEW c \in Int,
           pc[q] \in {"tomb", "tombFill"},
           \/ job[q].op = "mint" /\ c >= job[q].began - Window
           \/ job[q].op \in {"read", "fenced"} /\ c = cutoff[q]
    PROVE  c - 1 >= now - Retention
BY Typed, TimingAssumption DEF IInv, Control

LEMMA TombstonesStep ==
    ASSUME IInv, NEW q \in Request, NEW p \in {"rev", "tombFill"},
           NEW S \in SUBSET Tombstone, Tombstones(q, p, S),
           p = "rev" => TombAnswer(S, job[q].began - Lag + 1, now - Retention),
           p = "tombFill" => TombAnswer(S, job[q].began, now - Retention)
    PROVE  IInv'
<1>1. TypeOK'
  BY TimingAssumption DEF IInv, TypeOK, Tombstones, Goto, Point, Time, tables, caches
<1>2. /\ UNCHANGED <<now, revocations, revoked, tombCache, revCache, handles, job, rev>>
      /\ \A x \in Request \ {q} : Unmoved(x)
      /\ pc[q] = "tomb" /\ pc'[q] = p /\ tomb'[q] = S
      /\ cutoff'[q] = IF job[q].op = "mint" THEN now - Window ELSE cutoff[q]
  BY Zenon DEF IInv, TypeOK, Tombstones, Goto, Unmoved, tables, caches
<1>3. /\ job[q].began <= now /\ now - job[q].began <= Flight
      /\ job[q].op \in {"mint", "read", "fenced"}
  BY Zenon, <1>2 DEF IInv, Control
<1>4. /\ now \in Nat /\ job[q].began \in Nat /\ cutoff[q] \in Int
      /\ Window \in Nat /\ Flight \in Nat /\ CacheTTL \in Nat
      /\ job[q].op = "mint" => cutoff'[q] = now - Window
      /\ job[q].op # "mint" => cutoff'[q] = cutoff[q]
  BY Zenon, <1>2, Typed, TimingAssumption
<1>5. /\ cutoff'[q] \in Int
      /\ job[q].op = "mint" => cutoff'[q] >= job[q].began - Window
  BY <1>3, <1>4
<1>6. Control(q)'
  <2>1. job[q].op # "remove" BY <1>3
  <2> QED BY Zenon, <1>2, <1>4, <1>5, <2>1 DEF IInv, Control
<1>7. cutoff'[q] - 1 >= now - Retention
  BY Zenon, <1>2, <1>3, <1>4, <1>5, CutoffRetained
<1>8. p = "rev" => TombAnswer(S, job[q].began - Lag + 1, cutoff'[q] - 1)
  <2>1. /\ job[q].began - Lag + 1 \in Int /\ cutoff'[q] - 1 \in Int /\ now - Retention \in Int
    BY <1>4, <1>5, TimingAssumption DEF Lag
  <2>2. job[q].began - Lag + 1 <= job[q].began - Lag + 1 BY <2>1
  <2> QED BY Zenon, <1>7, <2>1, <2>2, TombWeaker
<1>9. Views(q)'
  BY Zenon, <1>2, <1>8 DEF Views, TombAnswer, Lag
<1> QED BY Zenon, <1>1, <1>2, <1>6, <1>9, Preserved

LEMMA TombHitStep ==
    ASSUME IInv, NEW q \in Request, TombHit(q)
    PROVE  IInv'
<1> DEFINE e == tombCache[Home[q]]
<1>1. Live(e) /\ Tombstones(q, "rev", e.val) /\ pc[q] = "tomb" /\ Home[q] \in Replica
  BY Zenon, PlaneAssumption DEF TombHit, Tombstones
<1>2. e.val \in SUBSET Tombstone /\ e.at \in Nat
  BY Zenon, <1>1, Typed DEF IInv, TypeOK, Entry, Live
<1>3. /\ e.at <= now /\ now - e.at < CacheTTL
      /\ TombAnswer(e.val, e.at - Flight, e.at - Retention)
  BY Zenon, <1>1 DEF IInv, TombEntry
<1>4. job[q].began <= now /\ now \in Nat /\ job[q].began \in Nat
  BY Zenon, <1>1, Typed DEF IInv, Control
<1> HIDE DEF e
<1>5. TombAnswer(e.val, job[q].began - Lag + 1, now - Retention)
  BY <1>2, <1>3, <1>4, TombWeaker, TimingAssumption DEF Lag
<1> QED BY Zenon, <1>1, <1>2, <1>5, TombstonesStep

LEMMA TombQueryStep ==
    ASSUME IInv, NEW q \in Request, TombQuery(q)
    PROVE  IInv'
<1>1. Tombstones(q, "tombFill", Earliest(Retained)) /\ Retained \in SUBSET revocations
  BY Zenon DEF TombQuery, Retained
<1>2. Earliest(Retained) \in SUBSET Tombstone
  BY DEF IInv, TypeOK, Earliest, Retained, Row, Tombstone
<1>3. \A r \in revocations : r.at > now - Retention =>
         \E e \in Earliest(Retained) : e.token = r.token
  BY Zenon, <1>1, EarliestHasToken DEF IInv, Retained
<1>4. \A e \in Earliest(Retained) : \E r \in revocations : r.token = e.token /\ r.at = e.at
  BY DEF Earliest, Retained
<1>5. TombAnswer(Earliest(Retained), job[q].began, now - Retention)
  BY Zenon, <1>3, <1>4 DEF TombAnswer
<1> QED BY Zenon, <1>1, <1>2, <1>5, TombstonesStep

LEMMA TombFillStep ==
    ASSUME IInv, NEW q \in Request, TombFill(q)
    PROVE  IInv'
<1> DEFINE e == [val |-> tomb[q], at |-> now]
<1>1. e \in Entry(Tombstone) /\ Home[q] \in Replica
  BY Zenon, PlaneAssumption DEF IInv, TypeOK, Entry
<1>2. TypeOK'
  BY Zenon, <1>1 DEF IInv, TypeOK, TombFill, Goto, Point, tables
<1>3. /\ UNCHANGED <<now, revocations, revoked, revCache, handles, job, cutoff, tomb, rev>>
      /\ \A x \in Request \ {q} : Unmoved(x)
      /\ pc[q] = "tombFill" /\ pc'[q] = "rev" /\ tombCache'[Home[q]] = e
      /\ \A r \in Replica \ {Home[q]} : tombCache'[r] = tombCache[r]
  BY Zenon, <1>1 DEF IInv, TypeOK, TombFill, Goto, Unmoved, tables
<1>4. /\ job[q].began <= now /\ now - job[q].began <= Flight
      /\ TombAnswer(tomb[q], job[q].began, now - Retention)
      /\ cutoff[q] - 1 >= now - Retention
  <2>1. \/ job[q].op = "mint" /\ cutoff[q] >= job[q].began - Window
        \/ job[q].op \in {"read", "fenced"}
    BY Zenon, <1>3 DEF IInv, Control
  <2> QED BY Zenon, <1>3, <2>1, Typed, CutoffRetained DEF IInv, Control, Views
<1>5. TombAnswer(tomb[q], job[q].began - Lag + 1, cutoff[q] - 1)
  <2>1. /\ job[q].began \in Int /\ cutoff[q] - 1 \in Int /\ now - Retention \in Int
        /\ job[q].began - Lag + 1 \in Int /\ job[q].began - Lag + 1 <= job[q].began
    BY Typed, TimingAssumption DEF Lag
  <2> QED BY Zenon, <1>4, <2>1, TombWeaker
<1>6. TombEntry(e)
  <2>1. TombAnswer(tomb[q], now - Flight, now - Retention)
    BY <1>4, TombWeaker, Typed, TimingAssumption
  <2> QED BY <2>1, Typed, TimingAssumption DEF TombEntry
<1>7. Control(q)'
  BY Zenon, <1>3 DEF IInv, Control
<1>8. Views(q)'
  BY Zenon, <1>3, <1>5 DEF Views, TombAnswer, Lag
<1> HIDE DEF e
<1> QED BY Zenon, <1>2, <1>3, <1>6, <1>7, <1>8, Preserved

-----------------------------------------------------------------------------
(* Looking up the deny list *)

Refilled(q) ==
    \/ revCache' = revCache
    \/ /\ pc[q] \in {"gateFill", "revFill"}
       /\ revCache' = [revCache EXCEPT ![Home[q]] = [val |-> rev[q], at |-> now]]

LEMMA RevCacheStep ==
    ASSUME IInv, NEW q \in Request, Refilled(q)
    PROVE  /\ revCache' \in [Replica -> Entry(Token)]
           /\ \A r \in Replica : revCache'[r] = revCache[r] \/ RevEntry(revCache'[r])
<1>1. CASE revCache' = revCache
  BY Zenon, <1>1 DEF IInv, TypeOK
<1>2. CASE revCache' # revCache
  <2> DEFINE e == [val |-> rev[q], at |-> now]
  <2>1. pc[q] \in {"gateFill", "revFill"} /\ revCache' = [revCache EXCEPT ![Home[q]] = e]
    BY Zenon, <1>2 DEF Refilled
  <2>2. e \in Entry(Token) /\ Home[q] \in Replica
    BY Zenon, PlaneAssumption DEF IInv, TypeOK, Entry
  <2>3. RevEntry(e)
    <3>1. RevAnswer(rev[q], job[q].began) /\ now - job[q].began <= Flight
      BY Zenon, <2>1 DEF IInv, Views, Control
    <3>2. RevAnswer(rev[q], now - Flight)
      BY <3>1, RevWeaker, Typed, TimingAssumption
    <3> QED BY <3>2, Typed, TimingAssumption DEF RevEntry
  <2> HIDE DEF e
  <2> QED BY Zenon, <2>1, <2>2, <2>3 DEF IInv, TypeOK
<1> QED BY Zenon, <1>1, <1>2

LEMMA PassGateStep ==
    ASSUME IInv, NEW q \in Request, NEW deny, pc[q] \in {"gate", "gateFill"},
           PassGate(q, deny), Refilled(q)
    PROVE  IInv'
<1>1. /\ UNCHANGED <<now, revocations, revoked, tombCache, handles, job, cutoff>>
      /\ \A x \in Request \ {q} : Unmoved(x)
      /\ pc'[q] = "tomb"
  BY Zenon DEF IInv, TypeOK, PassGate, Goto, Hold, Unmoved, tables
<1>2. job[q].op = "mint" /\ job[q].subject \in User
  BY Zenon DEF IInv, Control
<1>3. TypeOK'
  <2>1. principals[q] \union ({job[q].subject} \ deny) \in SUBSET Token
    BY Zenon, <1>2 DEF IInv, TypeOK, Token
  <2> QED BY Zenon, <2>1, RevCacheStep DEF IInv, TypeOK, PassGate, Goto, Hold, Point, tables
<1>4. Control(q)' /\ Views(q)'
  BY Zenon, <1>1, <1>2 DEF IInv, Control, Views
<1> QED BY Zenon, <1>1, <1>3, <1>4, RevCacheStep, Preserved

LEMMA RevQueryStep ==
    ASSUME IInv, NEW q \in Request, RevQuery(q)
    PROVE  IInv'
<1>1. /\ UNCHANGED <<now, revocations, revoked, tombCache, revCache, handles, job, cutoff,
                     tomb>>
      /\ \A x \in Request \ {q} : Unmoved(x)
      /\ \/ pc[q] = "gate" /\ pc'[q] = "gateFill"
         \/ pc[q] = "rev" /\ pc'[q] = "revFill"
      /\ rev'[q] = Active
  BY Zenon DEF IInv, TypeOK, RevQuery, Goto, Unmoved, tables, caches
<1>2. TypeOK'
  BY Zenon DEF IInv, TypeOK, RevQuery, Goto, Point, Active, tables, caches
<1>3. Control(q)'
  BY Zenon, <1>1 DEF IInv, Control
<1>4. Views(q)'
  BY Zenon, <1>1 DEF IInv, Views, RevAnswer, TombAnswer, Active, Lag
<1> QED BY Zenon, <1>1, <1>2, <1>3, <1>4, Preserved

LEMMA LiveResolveStep ==
    ASSUME IInv, NEW q \in Request, LiveResolvedTokens(q)
    PROVE  IInv'
<1>1. /\ UNCHANGED <<now, revocations, revoked, tombCache, revCache, handles, job, cutoff>>
      /\ \A x \in Request \ {q} : Unmoved(x)
      /\ pc[q] = "resolve" /\ pc'[q] = "tomb"
  BY Zenon DEF IInv, TypeOK, LiveResolvedTokens, Goto, Hold, Unmoved, tables, caches
<1>2. job[q].op = "fenced" /\ job[q].subject \in User
  BY Zenon, <1>1 DEF IInv, Control
<1>3. {job[q].subject} \union UserGroups(job[q].subject) \in SUBSET Token
  <2>1. member[job[q].subject] \subseteq Group
    BY Zenon, <1>2 DEF IInv, TypeOK
  <2>2. UserGroups(job[q].subject) \subseteq Group
    BY <2>1, PlaneAssumption DEF UserGroups
  <2> QED BY Zenon, <1>2, <2>2 DEF Token
<1>4. TypeOK'
  BY Zenon, <1>3 DEF IInv, TypeOK, LiveResolvedTokens, Goto, Hold, Point, tables, caches
<1>5. Control(q)' /\ Views(q)'
  BY Zenon, <1>1, <1>2 DEF IInv, Control, Views
<1> QED BY Zenon, <1>1, <1>4, <1>5, Preserved

-----------------------------------------------------------------------------
(* Subtracting *)

\* Request q is at the end of its subtraction.
Subtracting(q) == pc[q] \in {"rev", "revFill"}

\* How a subtraction leaves its request.
LEMMA Settled ==
    ASSUME IInv, NEW q \in Request, NEW deny, Subtracting(q), FinishSubtract(q, deny)
    PROVE  /\ \A p \in Request \ {q} : Unmoved(p)
           /\ now' = now /\ member' = member /\ left' = left /\ cutoff' = cutoff
           /\ revocations' = revocations /\ revoked' = revoked /\ tombCache' = tombCache
           /\ job'[q].began = job[q].began /\ job'[q].subject = job[q].subject
           /\ \/ /\ pc'[q] = "done" /\ job' = job
                 /\ principals'[q] = Subtract(principals[q], tomb[q], deny, cutoff[q])
              \/ /\ \/ pc'[q] = "done" /\ job[q].subject = NoUser
                    \/ pc'[q] = "resolve" /\ job[q].subject # NoUser
                 /\ job[q].op = "read" /\ job'[q].op = "fenced" /\ principals'[q] = {}
                 /\ handles' = handles
           /\ TypeOK' \/ revCache' \notin [Replica -> Entry(Token)]
           /\ \A h \in handles' : Lifetime(h)
<1> USE DEF IInv, Subtracting
<1> DEFINE kept == Subtract(principals[q], tomb[q], deny, cutoff[q])
<1>1. kept \in SUBSET Token
  BY Zenon DEF TypeOK, Subtract
<1>2. Settle(q, kept)
  BY Zenon DEF FinishSubtract
<1>3. /\ now' = now /\ member' = member /\ left' = left /\ cutoff' = cutoff
      /\ revocations' = revocations /\ revoked' = revoked /\ tombCache' = tombCache
  BY Zenon, <1>2 DEF TypeOK, FinishSubtract, Settle, Hold, tables
<1>4. tomb' = [tomb EXCEPT ![q] = {}] /\ rev' = [rev EXCEPT ![q] = {}]
  BY Zenon DEF FinishSubtract
<1>5. CASE /\ Goto(q, "done") /\ Hold(q, kept, cutoff[q]) /\ UNCHANGED job
           /\ \/ Mint(job[q].subject, kept) \/ UNCHANGED handles
  <2>1. /\ handles' \subseteq ScopePayload
        /\ \A h \in handles' : Lifetime(h)
    <3>1. job[q].subject \in User \union {NoUser}
      BY Zenon DEF TypeOK, Job
    <3>2. CASE UNCHANGED handles
      BY Zenon, <3>2 DEF TypeOK
    <3>3. CASE Mint(job[q].subject, kept)
      BY Zenon, <1>1, <3>1, <3>3, MintType
    <3> QED BY Zenon, <1>5, <3>2, <3>3
  <2> HIDE DEF kept
  <2>2. TypeOK' \/ revCache' \notin [Replica -> Entry(Token)]
    BY Zenon, <1>1, <1>3, <1>4, <1>5, <2>1 DEF TypeOK, Goto, Hold, Point
  <2>3. /\ \A p \in Request \ {q} : Unmoved(p)
        /\ pc'[q] = "done" /\ job' = job /\ principals'[q] = kept
    BY Zenon, <1>3, <1>4, <1>5 DEF TypeOK, Goto, Hold, Unmoved
  <2> QED BY Zenon, <1>3, <2>1, <2>2, <2>3 DEF kept
<1>6. CASE /\ job[q].op = "read" /\ UNCHANGED handles /\ Hold(q, {}, cutoff[q])
           /\ job' = [job EXCEPT ![q] = [op |-> "fenced", began |-> job[q].began,
                                         subject |-> job[q].subject, group |-> NoGroup]]
           /\ Goto(q, IF job[q].subject = NoUser THEN "done" ELSE "resolve")
  <2>1. [op |-> "fenced", began |-> job[q].began, subject |-> job[q].subject,
         group |-> NoGroup] \in Job
    BY Zenon DEF TypeOK, Job
  <2>2. TypeOK' \/ revCache' \notin [Replica -> Entry(Token)]
    BY Zenon, <1>3, <1>4, <1>6, <2>1 DEF TypeOK, Goto, Hold, Point
  <2>3. /\ \A p \in Request \ {q} : Unmoved(p)
        /\ job'[q].began = job[q].began /\ job'[q].subject = job[q].subject
        /\ job'[q].op = "fenced" /\ principals'[q] = {}
    BY Zenon, <1>3, <1>4, <1>6 DEF TypeOK, Goto, Hold, Unmoved
  <2>4. \A h \in handles' : Lifetime(h)
    BY Zenon, <1>6
  <2>5. \/ pc'[q] = "done" /\ job[q].subject = NoUser
        \/ pc'[q] = "resolve" /\ job[q].subject # NoUser
    BY Zenon, <1>6 DEF TypeOK, Goto
  <2> QED BY Zenon, <1>3, <1>6, <2>2, <2>3, <2>4, <2>5
<1> QED BY Zenon, <1>2, <1>5, <1>6 DEF Settle


LEMMA FinishStep ==
    ASSUME IInv, NEW q \in Request, NEW deny, pc[q] \in {"rev", "revFill"},
           FinishSubtract(q, deny), InHand(q, deny), Refilled(q)
    PROVE  IInv'
<1> DEFINE kept == Subtract(principals[q], tomb[q], deny, cutoff[q])
<1>0. Subtracting(q)
  BY Zenon DEF Subtracting
<1>1. /\ now' = now /\ revocations' = revocations /\ revoked' = revoked
      /\ tombCache' = tombCache /\ cutoff' = cutoff
      /\ \A x \in Request \ {q} : Unmoved(x)
      /\ job'[q].began = job[q].began /\ job'[q].subject = job[q].subject
      /\ \A h \in handles' : Lifetime(h)
      /\ TypeOK'
  BY Zenon, <1>0, Settled, RevCacheStep
<1>2. \/ pc'[q] = "done" /\ job' = job /\ principals'[q] = kept
      \/ /\ pc'[q] = "done" \/ (pc'[q] = "resolve" /\ job[q].subject # NoUser)
         /\ job[q].op = "read" /\ job'[q].op = "fenced" /\ principals'[q] = {}
  BY Zenon, <1>0, Settled
<1>3. pc'[q] \in {"done", "resolve"} /\ principals'[q] \subseteq kept
  BY Zenon, <1>2
<1>4. Control(q)'
  <2>1. job[q].subject \in User \union {NoUser} /\ job[q].op \in {"mint", "read", "fenced"}
    BY Zenon, Typed DEF IInv, Control
  <2> HIDE DEF kept
  <2> QED BY Zenon, <1>1, <1>2, <2>1 DEF IInv, Control
<1>5. \A t \in kept : ~(revoked[t].active /\ job[q].began - revoked[t].since >= Lag)
  <2>1. \A t \in kept : t \notin deny /\ t \in Token
    BY Zenon DEF IInv, TypeOK, Subtract
  <2> QED BY Zenon, <2>1, DenyInHand
<1>6. ASSUME NEW t \in kept, NEW r \in revocations, r.token = t, r.at >= cutoff[q],
             job[q].began - r.seen >= Lag
      PROVE  \E s \in revocations : s.token = t /\ s.at < cutoff[q]
  <2>1. TombAnswer(tomb[q], job[q].began - Lag + 1, cutoff[q] - 1)
    BY Zenon DEF IInv, Views
  <2>2. r.seen < job[q].began - Lag + 1 /\ r.at > cutoff[q] - 1
    BY <1>6, Typed, TimingAssumption DEF Lag
  <2>3. PICK e \in tomb[q] : e.token = t
    BY Zenon, <1>6, <2>1, <2>2 DEF TombAnswer
  <2>4. e.at < cutoff[q]
    BY Zenon, <2>3 DEF Subtract
  <2> QED BY Zenon, <2>1, <2>3, <2>4 DEF TombAnswer
<1> HIDE DEF kept
<1>7. Views(q)'
  BY Zenon, <1>1, <1>3, <1>5, <1>6 DEF Views, Denied, Bitten, Lag
<1> QED BY Zenon, <1>1, <1>4, <1>7, RevCacheStep, Preserved

LEMMA RevStep ==
    ASSUME IInv, NEW q \in Request, RevHit(q) \/ RevFill(q) \/ GateFails(q)
    PROVE  IInv'
<1>1. CASE RevHit(q)
  <2>1. CASE pc[q] = "gate"
    <3>1. PassGate(q, revCache[Home[q]].val) /\ Refilled(q)
      BY Zenon, <1>1, <2>1 DEF RevHit, Refilled
    <3> QED BY <2>1, <3>1, PassGateStep, SMTT(30)
  <2>2. CASE pc[q] = "rev"
    <3>1. /\ FinishSubtract(q, revCache[Home[q]].val)
          /\ InHand(q, revCache[Home[q]].val) /\ Refilled(q)
      BY Zenon, <1>1, <2>2 DEF RevHit, InHand, Refilled
    <3> QED BY <2>2, <3>1, FinishStep
  <2> QED BY Zenon, <1>1, <2>1, <2>2 DEF RevHit
<1>2. CASE RevFill(q)
  <2>1. CASE pc[q] = "gateFill"
    <3>1. PassGate(q, rev[q]) /\ Refilled(q)
      BY Zenon, <1>2, <2>1 DEF RevFill, Refilled
    <3> QED BY <2>1, <3>1, PassGateStep
  <2>2. CASE pc[q] = "revFill"
    <3>1. FinishSubtract(q, rev[q]) /\ InHand(q, rev[q]) /\ Refilled(q)
      BY Zenon, <1>2, <2>2 DEF RevFill, InHand, Refilled
    <3> QED BY <2>2, <3>1, FinishStep
  <2> QED BY Zenon, <1>2, <2>1, <2>2 DEF RevFill
<1>3. CASE GateFails(q)
  <2>1. pc[q] = "gate" /\ PassGate(q, {job[q].subject}) /\ Refilled(q)
    BY Zenon, <1>3 DEF GateFails, Refilled
  <2> QED BY <2>1, PassGateStep
<1> QED BY Zenon, <1>1, <1>2, <1>3

-----------------------------------------------------------------------------
(* Only a subtraction finishes a request. *)

LEMMA Finishers ==
    ASSUME IInv, [Next]_vars, NEW q \in Request, ~Done(q), Done(q)'
    PROVE  \E deny : /\ FinishSubtract(q, deny) /\ InHand(q, deny)
                     /\ pc[q] \in {"rev", "revFill"}
<1>0. TypeOK /\ pc[q] # "done" /\ pc'[q] = "done" /\ pc \in [Request -> Point]
  BY Zenon DEF IInv, TypeOK, Done
<1>1. ASSUME NEW p \in Request, NEW x \in Point, x # "done", Goto(p, x) PROVE FALSE
  BY Zenon, <1>0, <1>1 DEF Goto
<1>2. ASSUME NEW Q, End(Q) PROVE FALSE
  BY Zenon, <1>0, <1>2 DEF End
<1>3. ASSUME pc' = pc PROVE FALSE
  BY Zenon, <1>0, <1>3
<1>4. ASSUME NEW p \in Request,
             \/ Administer(p)
             \/ \E u \in Subject : OpenScope(p, u)
             \/ \E h \in handles : ScopeFor(p, h)
      PROVE  FALSE
  <2>1. \/ \E Q : End(Q)
        \/ \E x \in Point \ {"done"} : Goto(p, x)
    BY Zenon, <1>4 DEF Administer, AdminGroupRemove, RecordCommit, RecordInvalidate,
         DeleteMembership, RevokePrincipal, ReinstatePrincipal, SetDenied, DenyInvalidate,
         OpenScope, ScopeFor, Start, Point
  <2> QED BY Zenon, <1>1, <1>2, <2>1
<1>5. ASSUME NEW p \in Request,
             \/ TombHit(p) \/ TombQuery(p) \/ TombFill(p) \/ RevQuery(p)
             \/ GateFails(p) \/ LiveResolvedTokens(p) \/ Respond(p) \/ Drop(p)
      PROVE  FALSE
  <2>1. \/ \E Q : End(Q)
        \/ \E x \in Point \ {"done"} : Goto(p, x)
    BY Zenon, <1>5 DEF TombHit, TombQuery, Tombstones, TombFill, RevQuery, GateFails, PassGate,
                LiveResolvedTokens, Respond, Drop, Point
  <2> QED BY Zenon, <1>1, <1>2, <2>1
<1>6. ASSUME NEW p \in Request, RevHit(p) \/ RevFill(p)
      PROVE  \E deny : /\ FinishSubtract(q, deny) /\ InHand(q, deny)
                       /\ pc[q] \in {"rev", "revFill"}
  <2>1. p = q /\ pc[q] \in {"rev", "revFill"}
    BY Zenon, <1>0, <1>6 DEF RevHit, RevFill, PassGate, FinishSubtract, Settle, Goto
  <2> QED BY Zenon, <1>6, <2>1 DEF RevHit, RevFill, InHand
<1>7. ASSUME \/ \E u \in User, g \in Group : AdminGroupAdd(u, g) \/ LeaveOutOfBand(u, g)
             \/ \E ps \in Asserted : OpenScopeAsserted(ps)
             \/ \E r \in Replica : Restart(r)
             \/ Tick \/ UNCHANGED vars
      PROVE  FALSE
  <2>1. (\E Q : End(Q)) \/ pc' = pc
    BY Zenon, <1>7 DEF AdminGroupAdd, LeaveOutOfBand, OpenScopeAsserted, Restart, Tick, vars, slots
  <2> QED BY Zenon, <1>2, <1>3, <2>1
<1>8. OutOfBand \subseteq User
  BY Zenon, PlaneAssumption
<1> QED BY Zenon, <1>4, <1>5, <1>6, <1>7, <1>8 DEF Next, Serve

-----------------------------------------------------------------------------
LEMMA NextIInv == IInv /\ [Next]_vars => IInv'
<1> SUFFICES ASSUME IInv, [Next]_vars PROVE IInv'
  OBVIOUS
<1>1. ASSUME NEW q \in Request, Serve(q) PROVE IInv'
  BY Zenon, <1>1, QuietActions, TombHitStep, TombQueryStep, TombFillStep, RevStep, RevQueryStep,
     LiveResolveStep
     DEF Serve
<1>2. ASSUME NEW q \in Request, Administer(q) PROVE IInv'
  BY Zenon, <1>2, QuietActions, RecordCommitStep, RecordInvalidateStep, SetDeniedStep
     DEF Administer, RevokePrincipal, ReinstatePrincipal
<1>3. CASE Tick
  BY Zenon, <1>3, TickStep
<1> QED BY Zenon, <1>1, <1>2, <1>3, QuietActions, PlaneAssumption DEF Next

LEMMA Invariance == Spec => []IInv
BY InitIInv, NextIInv, PTL DEF Spec

\* Every variable of the plane keeps its type.
THEOREM TypeCorrect == Spec => []TypeOK
BY Invariance, PTL DEF IInv

\* On every replica a principal denied for longer than Lag is in no compiled
\* scope (subtract) and in no minted handle (open_scope).
THEOREM DeniedStaysOut == Spec => []DurableDenied
<1>1. IInv => DurableDenied
  BY Zenon DEF IInv, Views, Denied, DurableDenied, Done
<1> QED BY <1>1, Invariance, PTL

\* The first tombstone of a token drops the token from every older handle, for
\* the handle's whole life, from Lag after the commit in record.
THEOREM TombstoneBites == Spec => []FirstTombstoneBites
<1>1. IInv => FirstTombstoneBites
  BY Zenon DEF IInv, Views, Bitten, FirstTombstoneBites, Done
<1> QED BY <1>1, Invariance, PTL

-----------------------------------------------------------------------------
(* What a finished request has dropped *)

\* subtract drops a token only for a tombstone at or after the cutoff or for a
\* denial that held within the last Lag.
THEOREM DropsHaveCause == Spec => GrantsSurvive
<1>0. IInv => \A r \in revocations : r.at \in Nat
  BY Zenon, Typed
<1>1. ASSUME IInv, [Next]_vars, NEW q \in Request, ~Done(q), Done(q)',
             NEW t \in principals[q] \ principals'[q]
      PROVE  \/ \E r \in revocations : r.token = t /\ r.at >= cutoff'[q]
             \/ revoked[t].active
             \/ now - revoked[t].since < Lag
             \/ job'[q].op = "fenced" /\ job[q].subject = NoUser
  <2> USE <1>1
  <2>1. PICK deny : /\ FinishSubtract(q, deny) /\ InHand(q, deny)
                    /\ pc[q] \in {"rev", "revFill"}
    BY Zenon, Finishers
  <2>0. Subtracting(q)
    BY Zenon, <2>1 DEF Subtracting
  <2>2. /\ cutoff' = cutoff
        /\ \/ job' = job /\ principals'[q] = Subtract(principals[q], tomb[q], deny, cutoff[q])
           \/ job'[q].op = "fenced" /\ (pc'[q] = "done" => job[q].subject = NoUser)
    BY Zenon, <2>0, <2>1, Settled
  <2>3. cutoff[q] \in Int /\ t \in Token
    BY Zenon DEF IInv, TypeOK
  <2>4. CASE job'[q].op = "fenced" /\ job[q].subject = NoUser
    BY Zenon, <2>4
  <2>5. CASE t \notin Subtract(principals[q], tomb[q], deny, cutoff[q])
    <3>1. CASE t \in deny
      BY Zenon, <2>1, <2>3, <3>1, DenyInHand
    <3>2. CASE t \notin deny
      <4>1. PICK e \in tomb[q] : e.token = t /\ ~(e.at < cutoff[q])
        BY Zenon, <2>5, <3>2 DEF Subtract
      <4>2. PICK r \in revocations : r.token = t /\ r.at = e.at
        BY Zenon, <2>1, <4>1 DEF IInv, Views, TombAnswer
      <4>3. r.at \in Int /\ cutoff'[q] = cutoff[q]
        BY <1>0, <2>2
      <4>4. r.at >= cutoff'[q]
        BY <2>3, <4>1, <4>2, <4>3
      <4> QED BY Zenon, <4>2, <4>4
    <3> QED BY Zenon, <3>1, <3>2
  <2> QED BY Zenon, <2>2, <2>4, <2>5 DEF Done
<1>2. IInv /\ [Next]_vars =>
        [\A q \in Request :
           ~Done(q) /\ Done(q)' =>
             \A t \in principals[q] \ principals'[q] :
                \/ \E r \in revocations : r.token = t /\ r.at >= cutoff'[q]
                \/ revoked[t].active
                \/ now - revoked[t].since < Lag
                \/ job'[q].op = "fenced" /\ job[q].subject = NoUser]_vars
  BY Zenon, <1>1
<1> QED BY <1>2, Invariance, PTL DEF Spec, GrantsSurvive

-----------------------------------------------------------------------------
(* Fenced reads: from the live resolution on, the request holds only groups *)
(* of the subject, or groups it lost since the request began.               *)

Resolved == {"tomb", "tombFill", "rev", "revFill", "done"}

Held(q, t) ==
    \/ t \in UserGroups(job[q].subject)
    \/ \E d \in left : /\ d.user = job[q].subject /\ t \in Up[d.group]
                       /\ d.at >= job[q].began

FencedHolds ==
    \A q \in Request : pc[q] \in Resolved /\ job[q].op = "fenced" =>
        \A t \in principals[q] \ {job[q].subject} : Held(q, t)

\* Nothing a fenced request could newly hold, memberships as they were.
Calm ==
    /\ UNCHANGED <<member, left>>
    /\ \A q \in Request : pc'[q] \in Resolved /\ job'[q].op = "fenced" =>
         \/ principals'[q] \subseteq {job'[q].subject} \union UserGroups(job'[q].subject)
         \/ /\ pc[q] \in Resolved /\ job'[q] = job[q]
            /\ principals'[q] \subseteq principals[q]

LEMMA CalmStep ==
    ASSUME FencedHolds, Calm
    PROVE  FencedHolds'
<1>1. \A q \in Request : \A t : Held(q, t) /\ job'[q] = job[q] => Held(q, t)'
  BY Zenon DEF Calm, Held, UserGroups
<1>2. \A q \in Request : \A t : t \in UserGroups(job'[q].subject) => Held(q, t)'
  BY Zenon DEF Calm, Held, UserGroups
<1> QED BY Zenon, <1>1, <1>2 DEF FencedHolds, Calm

\* A departure is recorded, so whatever was held still counts as held.
LEMMA LeaveStep ==
    ASSUME IInv, FencedHolds, NEW u \in User, NEW g, Leave(u, g),
           \A q \in Request : Unmoved(q) \/ Over(q)
    PROVE  FencedHolds'
<1>1. ASSUME NEW q \in Request, pc[q] # "idle", NEW t, Held(q, t), job'[q] = job[q]
      PROVE  Held(q, t)'
  <2>1. CASE \E d \in left : /\ d.user = job[q].subject /\ t \in Up[d.group]
                            /\ d.at >= job[q].began
    BY Zenon, <1>1, <2>1 DEF Leave, Held
  <2>2. CASE t \in UserGroups(job[q].subject)
    <3>1. PICK x \in member[job[q].subject] : t \in Up[x]
      BY Zenon, <2>2 DEF UserGroups
    <3>2. CASE x \in member'[job[q].subject]
      BY Zenon, <1>1, <3>1, <3>2 DEF Held, UserGroups
    <3>3. CASE x \notin member'[job[q].subject]
      <4>1. job[q].subject = u /\ x = g /\ x \in member[u]
        <5>1. member \in [User -> SUBSET Group] /\ job[q].subject \in User \union {NoUser}
          BY Zenon, Typed DEF IInv, TypeOK
        <5>2. member'[u] = member[u] \ {g}
          BY Zenon, <5>1 DEF Leave
        <5>3. job[q].subject # u => member'[job[q].subject] = member[job[q].subject]
          BY <5>1, PlaneAssumption DEF Leave
        <5> QED BY Zenon, <3>1, <3>3, <5>2, <5>3
      <4>2. [user |-> u, group |-> x, at |-> now] \in left'
        BY Zenon, <4>1 DEF Leave
      <4>3. now >= job[q].began
        BY Zenon, <1>1, Typed DEF IInv, Control
      <4> QED BY Zenon, <1>1, <3>1, <4>1, <4>2, <4>3 DEF Held
    <3> QED BY Zenon, <3>2, <3>3
  <2> QED BY Zenon, <1>1, <2>1, <2>2 DEF Held
<1> QED BY Zenon, <1>1 DEF FencedHolds, Unmoved, Over, Resolved, NoJob

LEMMA NextFenced == IInv /\ FencedHolds /\ [Next]_vars => FencedHolds'
<1> SUFFICES ASSUME IInv, FencedHolds, [Next]_vars PROVE FencedHolds'
  OBVIOUS
<1>1. ASSUME NEW q \in Request, DeleteMembership(q) PROVE FencedHolds'
  BY Zenon, <1>1, LeaveStep, EndType DEF DeleteMembership, IInv, Control
<1>2. ASSUME NEW u \in User, NEW g \in Group, LeaveOutOfBand(u, g) PROVE FencedHolds'
  BY Zenon, <1>2, LeaveStep DEF LeaveOutOfBand, Unmoved, slots
<1>3. ASSUME NEW u \in User, NEW g \in Group, AdminGroupAdd(u, g) PROVE FencedHolds'
  <2>1. \A x \in User : member[x] \subseteq member'[x]
    BY Zenon, <1>3 DEF AdminGroupAdd, IInv, TypeOK
  <2>2. \A q \in Request : \A t : job[q].subject \in User /\ Held(q, t) => Held(q, t)'
    BY Zenon, <1>3, <2>1 DEF AdminGroupAdd, Held, UserGroups, slots
  <2>3. \A q \in Request : \A t : job[q].subject = NoUser /\ Held(q, t) => Held(q, t)'
    BY <1>3, PlaneAssumption DEF AdminGroupAdd, Held, UserGroups, slots, IInv, TypeOK, Token
  <2> QED BY Zenon, <1>3, <2>2, <2>3, Typed DEF AdminGroupAdd, FencedHolds, slots, IInv
<1>4. CASE Tick
  <2>1. /\ UNCHANGED <<member, pc, job, principals>>
        /\ \A d \in left : now - d.at < Flight => d \in left'
    BY Zenon, <1>4 DEF Tick, slots
  <2>2. \A q \in Request : pc[q] # "idle" => now - job[q].began < Flight
    BY Zenon, <1>4 DEF Tick
  <2>3. \A d \in left : d.at \in Nat
    BY Zenon DEF IInv, TypeOK, Departure, Time
  <2>4. ASSUME NEW q \in Request, pc[q] # "idle", NEW t, Held(q, t)
        PROVE  Held(q, t)'
    BY <2>1, <2>2, <2>3, <2>4, Typed, TimingAssumption DEF IInv, Held, UserGroups
  <2> QED BY Zenon, <2>1, <2>4 DEF FencedHolds, Resolved
<1>5. ASSUME NEW q \in Request, RevHit(q) \/ RevFill(q) PROVE FencedHolds'
  <2>1. CASE pc[q] \in {"rev", "revFill"}
    <3>1. PICK deny : FinishSubtract(q, deny)
      BY Zenon, <1>5, <2>1 DEF RevHit, RevFill
    <3>0. Subtracting(q)
      BY Zenon, <2>1 DEF Subtracting
    <3>2. /\ \A p \in Request \ {q} : Unmoved(p)
          /\ member' = member /\ left' = left
          /\ \/ job' = job /\ principals'[q] = Subtract(principals[q], tomb[q], deny, cutoff[q])
             \/ principals'[q] = {}
      BY Zenon, <3>0, <3>1, Settled
    <3>3. Calm
      BY Zenon, <2>1, <3>2 DEF Calm, Unmoved, Subtract, Resolved
    <3> QED BY Zenon, <3>3, CalmStep
  <2>2. CASE pc[q] \in {"gate", "gateFill"}
    <3>1. job[q].op = "mint" /\ \A p \in Request \ {q} : Unmoved(p)
      BY ZenonT(30), <1>5, <2>2 DEF IInv, TypeOK, Control, RevHit, RevFill, PassGate, Goto, Hold, Unmoved
    <3>2. UNCHANGED <<member, left, job>>
      BY Zenon, <1>5, <2>2 DEF RevHit, RevFill, PassGate, tables
    <3> QED BY Zenon, <3>1, <3>2, CalmStep DEF Calm, Unmoved
  <2> QED BY Zenon, <1>5, <2>1, <2>2 DEF RevHit, RevFill
<1>6. ASSUME NEW q \in Request,
             \/ GateFails(q) \/ LiveResolvedTokens(q) \/ TombHit(q) \/ TombQuery(q)
             \/ TombFill(q) \/ RevQuery(q)
      PROVE  FencedHolds'
  <2>1. UNCHANGED <<member, left, job>>
    BY Zenon, <1>6 DEF GateFails, PassGate, LiveResolvedTokens, TombHit, TombQuery, Tombstones,
                TombFill, RevQuery, tables
  <2>2. \A p \in Request \ {q} : Unmoved(p)
    BY Zenon, <1>6 DEF IInv, TypeOK, GateFails, PassGate, LiveResolvedTokens, TombHit, TombQuery,
                Tombstones, TombFill, RevQuery, Goto, Hold, Unmoved
  <2>3. CASE GateFails(q)
    BY Zenon, <2>1, <2>2, <2>3, CalmStep DEF GateFails, IInv, Control, Calm, Unmoved
  <2>4. CASE LiveResolvedTokens(q)
    <3>1. principals'[q] = {job[q].subject} \union UserGroups(job[q].subject)
      BY Zenon, <2>4 DEF LiveResolvedTokens, Hold, IInv, TypeOK
    <3> QED BY Zenon, <2>1, <2>2, <3>1, CalmStep DEF Calm, Unmoved
  <2>5. CASE TombHit(q) \/ TombQuery(q) \/ TombFill(q) \/ RevQuery(q)
    <3>1. principals' = principals /\ (pc[q] \in Resolved \/ pc[q] = "gate")
      BY Zenon, <2>5 DEF TombHit, TombQuery, Tombstones, TombFill, RevQuery, Resolved
    <3> QED BY Zenon, <2>1, <2>2, <3>1, CalmStep DEF Calm, Unmoved, IInv, Control
  <2> QED BY Zenon, <1>6, <2>3, <2>4, <2>5
<1>7. ASSUME UNCHANGED <<member, left>>,
             \A p \in Request : Unmoved(p) \/ Over(p) \/ job'[p].op # "fenced"
      PROVE  FencedHolds'
  BY Zenon, <1>7, CalmStep DEF Calm, Unmoved, Over, NoJob, Resolved
<1>8. ASSUME NEW q \in Request,
             \/ \E u \in Subject : OpenScope(q, u)
             \/ \E h \in handles : ScopeFor(q, h)
             \/ \E u \in User, g \in Group : AdminGroupRemove(q, u, g)
             \/ \E u \in Deniable : RevokePrincipal(q, u) \/ ReinstatePrincipal(q, u)
      PROVE  FencedHolds'
  <2>1. UNCHANGED <<member, left>>
    BY Zenon, <1>8 DEF OpenScope, ScopeFor, AdminGroupRemove, RevokePrincipal, ReinstatePrincipal,
                SetDenied, tables
  <2>2. ASSUME NEW p, NEW op \in {"mint", "read", "remove", "deny"}, NEW u, NEW g, NEW ps,
               NEW c, Start(q, p, op, u, g, ps, c)
        PROVE  job'[q].op # "fenced" /\ \A x \in Request \ {q} : Unmoved(x)
    BY Zenon, <2>2 DEF IInv, TypeOK, Start, Goto, Hold, Unmoved
  <2>3. job'[q].op # "fenced" /\ \A x \in Request \ {q} : Unmoved(x)
    BY Zenon, <1>8, <2>2 DEF OpenScope, ScopeFor, AdminGroupRemove, RevokePrincipal,
                      ReinstatePrincipal, SetDenied
  <2> QED BY Zenon, <1>7, <2>1, <2>3
<1>9. ASSUME NEW q \in Request, Respond(q) \/ Drop(q) \/ DenyInvalidate(q) PROVE FencedHolds'
  BY Zenon, <1>7, <1>9, EndType DEF IInv, Respond, Drop, DenyInvalidate, tables
<1>10. ASSUME NEW r \in Replica, Restart(r) PROVE FencedHolds'
  BY Zenon, <1>7, <1>10, EndType DEF IInv, Restart, tables
<1>11. ASSUME NEW q \in Request, RecordCommit(q) \/ RecordInvalidate(q) PROVE FencedHolds'
  <2>1. UNCHANGED <<member, left, job>> /\ job[q].op = "remove"
    BY Zenon, <1>11 DEF RecordCommit, RecordInvalidate, IInv, Control, tables
  <2>2. \A p \in Request \ {q} : Unmoved(p)
    BY Zenon, <1>11 DEF RecordCommit, RecordInvalidate, IInv, TypeOK, Goto, Unmoved
  <2> QED BY Zenon, <1>7, <2>1, <2>2
<1>12. ASSUME \/ \E ps \in Asserted : OpenScopeAsserted(ps)
              \/ UNCHANGED vars
       PROVE  FencedHolds'
  BY Zenon, <1>7, <1>12 DEF OpenScopeAsserted, vars, tables, slots, Unmoved
<1> QED
  BY Zenon, <1>1, <1>2, <1>3, <1>4, <1>5, <1>6, <1>8, <1>9, <1>10, <1>11, <1>12, PlaneAssumption
     DEF Next, Serve, Administer

\* Under the staleness fence no group left before the read began is served,
\* by whatever client the membership was deleted.
THEOREM FenceIsCurrent == Spec => []FencedReadCurrent
<1>1. Init => FencedHolds
  BY Zenon DEF Init, FencedHolds, Resolved
<1>2. FencedHolds => FencedReadCurrent
  BY Zenon DEF FencedHolds, FencedReadCurrent, Held, Resolved, Done
<1> QED BY <1>1, <1>2, Invariance, NextFenced, PTL DEF Spec

-----------------------------------------------------------------------------
(* Minting: subtract_window pins its cutoff before the handle is stamped, at *)
(* most a Flight after the handler began.                                    *)

Pins == {"tombFill", "rev", "revFill"}

Pinned(q) == pc[q] \in Pins /\ job[q].op = "mint" => cutoff[q] <= now - Window

MintInv ==
    /\ WindowedMint
    /\ \A h \in handles : h.issued_at <= now
    /\ \A q \in Request : Pinned(q)

\* The slot is at none of those points, or keeps the cutoff it had there.
KeepsPin(q) ==
    \/ pc'[q] \notin Pins
    \/ job'[q].op # "mint"
    \/ pc[q] \in Pins /\ job'[q] = job[q] /\ cutoff'[q] = cutoff[q]

LEMMA PinsStep ==
    ASSUME MintInv, now' = now, \A q \in Request : KeepsPin(q)
    PROVE  \A q \in Request : Pinned(q)'
BY Zenon DEF MintInv, KeepsPin, Pinned

LEMMA QuietMint ==
    ASSUME MintInv, UNCHANGED <<now, handles, revocations>>,
           \A q \in Request : KeepsPin(q)
    PROVE  MintInv'
<1>1. WindowedMint'
  BY Zenon DEF MintInv, WindowedMint, Lag
<1> QED BY Zenon, <1>1, PinsStep DEF MintInv

\* What a finished mint signs: the subtraction in hand bites from the pinned
\* cutoff on, which is no later than the start of the handle's window.
LEMMA SignedInWindow ==
    ASSUME IInv, IInv', MintInv, NEW q \in Request, pc[q] \in {"rev", "revFill"},
           job[q].op = "mint", pc'[q] = "done", job' = job, cutoff' = cutoff,
           UNCHANGED <<now, revocations>>,
           NEW t \in principals'[q], NEW r \in revocations,
           r.token = t, r.at >= now - Window, now - r.seen >= Lag + Flight
    PROVE  \E s \in revocations : s.token = t /\ s.at < now - Window
<1>1. /\ job[q].began \in Nat /\ cutoff[q] \in Int /\ now \in Nat
      /\ r.at \in Nat /\ r.seen \in Nat
  BY Zenon, Typed
<1>2. Lag \in Nat /\ Flight \in Nat /\ Window \in Nat
  BY TimingAssumption DEF Lag
<1>3. now - job[q].began <= Flight
  BY Zenon DEF IInv, Control
<1>4. cutoff[q] <= now - Window
  BY Zenon DEF MintInv, Pinned, Pins
<1>5. r.at >= cutoff[q] /\ job[q].began - r.seen >= Lag
  BY <1>1, <1>2, <1>3, <1>4
<1>6. Bitten(q)'
  BY Zenon DEF IInv, Views
<1>7. \E s \in revocations : s.token = t /\ s.at < cutoff[q]
  BY Zenon, <1>5, <1>6 DEF Bitten, Lag
<1>8. PICK s \in revocations : s.token = t /\ s.at < cutoff[q]
  BY Zenon, <1>7
<1>9. s.at \in Nat
  BY Zenon, Typed
<1>10. s.at < now - Window
  BY <1>1, <1>2, <1>4, <1>8, <1>9
<1> QED BY Zenon, <1>8, <1>10

\* A handle joins whose principals survive the window, or that has no subject.
LEMMA SignStep ==
    ASSUME IInv, MintInv, NEW u, NEW ps, Mint(u, ps), UNCHANGED <<now, revocations>>,
           \A q \in Request : KeepsPin(q),
           u # NoUser =>
             \A t \in ps, r \in revocations :
                r.token = t /\ r.at >= now - Window /\ now - r.seen >= Lag + Flight
                => \E s \in revocations : s.token = t /\ s.at < now - Window
    PROVE  MintInv'
<1>1. PICK ttl \in RequestedTTL :
        handles' = handles \union
            {[subject |-> u, principals |-> ps,
              issued_at |-> now, expires_at |-> now + Clamp(ttl)]}
  BY Zenon DEF Mint
<1> DEFINE hn == [subject |-> u, principals |-> ps,
                  issued_at |-> now, expires_at |-> now + Clamp(ttl)]
<1>2. hn.subject = u /\ hn.principals = ps /\ hn.issued_at = now
  BY Zenon
<1>3. handles' = handles \union {hn}
  BY Zenon, <1>1
<1> HIDE DEF hn
<1>4. now <= now
  BY Typed
<1>5. WindowedMint'
  <2>1. ASSUME NEW h \in handles', h.subject # NoUser, NEW t \in h.principals,
               NEW r \in revocations, r.token = t, r.at >= h.issued_at - Window,
               h.issued_at - r.seen >= Lag + Flight
        PROVE  \E s \in revocations : s.token = t /\ s.at < h.issued_at - Window
    <3>1. CASE h \in handles
      BY Zenon, <2>1, <3>1 DEF MintInv, WindowedMint
    <3>2. CASE h = hn
      BY Zenon, <1>2, <2>1, <3>2
    <3> QED BY Zenon, <1>3, <2>1, <3>1, <3>2
  <2> QED BY Zenon, <2>1 DEF WindowedMint, Lag
<1> QED BY Zenon, <1>2, <1>3, <1>4, <1>5, PinsStep DEF MintInv

\* A row committed now was not yet there when any handle was stamped.
LEMMA CommitMint ==
    ASSUME IInv, MintInv, NEW q \in Request, RecordCommit(q)
    PROVE  MintInv'
<1> DEFINE row(t) == [principal |-> job[q].subject, token |-> t, at |-> cutoff[q],
                      seen |-> now]
<1>0. /\ UNCHANGED <<now, handles, job, cutoff>>
      /\ revocations' = revocations \union {row(t) : t \in principals[q]}
  BY Zenon DEF RecordCommit
<1>1. /\ UNCHANGED <<now, handles, job, cutoff>>
      /\ \A r \in revocations' : r \in revocations \/ r.seen = now
      /\ revocations \subseteq revocations'
  <2>1. \A t : row(t).seen = now
    BY Zenon
  <2> HIDE DEF row
  <2> QED BY Zenon, <1>0, <2>1
<1> HIDE DEF row
<1>2. \A p \in Request : KeepsPin(p)
  BY Zenon DEF RecordCommit, Goto, KeepsPin, Pins, IInv, TypeOK
<1>3. WindowedMint'
  <2>1. ASSUME NEW h \in handles, h.subject # NoUser, NEW t \in h.principals,
               NEW r \in revocations', r.token = t, r.at >= h.issued_at - Window,
               h.issued_at - r.seen >= Lag + Flight
        PROVE  \E s \in revocations' : s.token = t /\ s.at < h.issued_at - Window
    <3>1. h.issued_at \in Nat /\ h.issued_at <= now /\ now \in Nat
      BY Zenon, Typed DEF IInv, TypeOK, ScopePayload, Time, MintInv
    <3>2. Lag + Flight \in Nat \ {0}
      BY TimingAssumption DEF Lag
    <3>3. r.seen # now
      BY <2>1, <3>1, <3>2
    <3>4. r \in revocations
      BY Zenon, <1>1, <3>3
    <3>5. PICK s \in revocations : s.token = t /\ s.at < h.issued_at - Window
      BY Zenon, <2>1, <3>4 DEF MintInv, WindowedMint
    <3> QED BY Zenon, <1>1, <3>5
  <2> QED BY Zenon, <1>1, <2>1 DEF WindowedMint, Lag
<1> QED BY Zenon, <1>1, <1>2, <1>3, PinsStep DEF MintInv

LEMMA TickMint ==
    ASSUME IInv, MintInv, Tick
    PROVE  MintInv'
<1>1. now' = now + 1 /\ UNCHANGED <<revocations, handles, pc, job, cutoff>>
  BY Zenon DEF Tick, slots
<1>2. now \in Nat /\ Window \in Nat
  BY Zenon, Typed, TimingAssumption
<1>3. WindowedMint'
  BY Zenon, <1>1 DEF MintInv, WindowedMint, Lag
<1>4. ASSUME NEW h \in handles PROVE h.issued_at <= now + 1
  <2>1. h.issued_at \in Nat /\ h.issued_at <= now
    BY Zenon DEF IInv, TypeOK, ScopePayload, Time, MintInv
  <2> QED BY <1>2, <2>1
<1>5. ASSUME NEW q \in Request, pc[q] \in Pins, job[q].op = "mint"
      PROVE  cutoff[q] <= (now + 1) - Window
  <2>1. cutoff[q] \in Int /\ cutoff[q] <= now - Window
    BY Zenon, <1>5, Typed DEF MintInv, Pinned
  <2> QED BY <1>2, <2>1
<1> QED BY Zenon, <1>1, <1>3, <1>4, <1>5 DEF MintInv, Pinned

\* The handler that finishes its subtraction, and the one that passes the gate.
LEMMA SubtractMint ==
    ASSUME IInv, IInv', MintInv, NEW q \in Request, RevHit(q) \/ RevFill(q)
    PROVE  MintInv'
<1>1. CASE pc[q] \in {"rev", "revFill"}
  <2>1. PICK deny : FinishSubtract(q, deny)
    BY Zenon, <1>1 DEF RevHit, RevFill
  <2> DEFINE kept == Subtract(principals[q], tomb[q], deny, cutoff[q])
  <2>0. Subtracting(q)
    BY Zenon, <1>1 DEF Subtracting
  <2>2. /\ now' = now /\ revocations' = revocations /\ cutoff' = cutoff
        /\ \A p \in Request \ {q} : Unmoved(p)
    BY Zenon, <2>0, <2>1, Settled
  <2>3. Settle(q, kept)
    BY Zenon, <2>1 DEF FinishSubtract
  <2> HIDE DEF kept
  <2>4. pc'[q] \notin Pins
    BY Zenon, <2>3 DEF Settle, Goto, Pins, IInv, TypeOK
  <2>5. \A p \in Request : KeepsPin(p)
    <3>1. ASSUME NEW p \in Request \ {q} PROVE KeepsPin(p)
      <4>1. pc'[p] = pc[p] /\ job'[p] = job[p] /\ cutoff'[p] = cutoff[p]
        BY ZenonT(30), <2>2 DEF Unmoved
      <4> QED BY Zenon, <4>1 DEF KeepsPin
    <3> QED BY Zenon, <2>4, <3>1 DEF KeepsPin
  <2>6. CASE UNCHANGED handles
    BY Zenon, <2>2, <2>5, <2>6, QuietMint
  <2>7. CASE /\ Goto(q, "done") /\ Hold(q, kept, cutoff[q]) /\ job' = job
             /\ job[q].op = "mint" /\ Mint(job[q].subject, kept)
    <3>1. pc'[q] = "done" /\ principals'[q] = kept
      BY Zenon, <2>7 DEF Goto, Hold, IInv, TypeOK
    <3>2. \A t \in kept, r \in revocations :
             r.token = t /\ r.at >= now - Window /\ now - r.seen >= Lag + Flight
             => \E s \in revocations : s.token = t /\ s.at < now - Window
      BY Zenon, <1>1, <2>2, <2>7, <3>1, SignedInWindow
    <3> QED BY <2>2, <2>5, <2>7, <3>2, SignStep
  <2> QED BY Zenon, <2>3, <2>6, <2>7 DEF Settle
<1>2. CASE pc[q] \in {"gate", "gateFill"}
  <2>1. PICK deny : PassGate(q, deny)
    BY Zenon, <1>2 DEF RevHit, RevFill
  <2>2. \A p \in Request : KeepsPin(p)
    BY Zenon, <2>1 DEF PassGate, Goto, Hold, KeepsPin, Pins, IInv, TypeOK
  <2> QED BY Zenon, <2>1, <2>2, QuietMint DEF PassGate, tables
<1> QED BY Zenon, <1>1, <1>2 DEF RevHit, RevFill

\* subtract_window reads the clock on entry.
LEMMA TombstonesMint ==
    ASSUME IInv, MintInv, NEW q \in Request, TombHit(q) \/ TombQuery(q) \/ TombFill(q)
    PROVE  MintInv'
<1>1. UNCHANGED <<now, handles, revocations, job>>
  BY Zenon DEF TombHit, TombQuery, Tombstones, TombFill, tables
<1>2. CASE TombFill(q)
  <2>1. \A p \in Request : KeepsPin(p)
    BY Zenon, <1>2 DEF TombFill, Goto, KeepsPin, Pins, IInv, TypeOK
  <2> QED BY Zenon, <1>1, <2>1, QuietMint
<1>3. CASE TombHit(q) \/ TombQuery(q)
  <2>1. cutoff' = [cutoff EXCEPT ![q] = IF job[q].op = "mint" THEN now - Window ELSE cutoff[q]]
    BY Zenon, <1>3 DEF TombHit, TombQuery, Tombstones, IInv, TypeOK
  <2>2. cutoff \in [Request -> Int] /\ pc \in [Request -> Point]
    BY Zenon DEF IInv, TypeOK
  <2>3. now - Window <= now - Window
    BY Typed, TimingAssumption
  <2>4. Pinned(q)'
    BY Zenon, <1>1, <2>1, <2>2, <2>3 DEF Pinned
  <2>5. ASSUME NEW p \in Request \ {q} PROVE Pinned(p)'
    <3>1. pc'[p] = pc[p] /\ cutoff'[p] = cutoff[p]
      BY Zenon, <1>3, <2>1, <2>2 DEF TombHit, TombQuery, Tombstones, Goto
    <3> QED BY Zenon, <1>1, <3>1 DEF MintInv, Pinned
  <2>6. WindowedMint'
    BY Zenon, <1>1 DEF MintInv, WindowedMint, Lag
  <2> QED BY Zenon, <1>1, <2>4, <2>5, <2>6 DEF MintInv
<1> QED BY Zenon, <1>2, <1>3

LEMMA NextMint == IInv /\ IInv' /\ MintInv /\ [Next]_vars => MintInv'
<1> SUFFICES ASSUME IInv, IInv', MintInv, [Next]_vars PROVE MintInv'
  BY Zenon
<1>1. ASSUME NEW p \in Request, Unmoved(p) \/ Over(p) PROVE KeepsPin(p)
  BY Zenon, <1>1 DEF Unmoved, Over, KeepsPin, NoJob, Pins
<1>2. ASSUME NEW q \in Request, NEW x \in Point \ Pins, NEW op, NEW u, NEW g, NEW ps, NEW c,
             Start(q, x, op, u, g, ps, c)
      PROVE  \A p \in Request : KeepsPin(p)
  BY Zenon, <1>2 DEF Start, Goto, Hold, KeepsPin, IInv, TypeOK
<1>3. ASSUME NEW q \in Request,
             \/ \E u \in Subject : OpenScope(q, u)
             \/ \E h \in handles : ScopeFor(q, h)
             \/ \E u \in User, g \in Group : AdminGroupRemove(q, u, g)
             \/ \E u \in Deniable : RevokePrincipal(q, u) \/ ReinstatePrincipal(q, u)
      PROVE  MintInv'
  <2>1. UNCHANGED <<now, handles, revocations>>
    BY Zenon, <1>3 DEF OpenScope, ScopeFor, AdminGroupRemove, RevokePrincipal,
                       ReinstatePrincipal, SetDenied, tables
  <2>2. {"gate", "tomb", "commit", "invalidate"} \subseteq Point \ Pins
    BY Zenon DEF Point, Pins
  <2>3. \A p \in Request : KeepsPin(p)
    BY Zenon, <1>2, <1>3, <2>2 DEF OpenScope, ScopeFor, AdminGroupRemove, RevokePrincipal,
                                   ReinstatePrincipal, SetDenied
  <2> QED BY Zenon, <2>1, <2>3, QuietMint
<1>4. ASSUME NEW q \in Request,
             \/ GateFails(q) \/ LiveResolvedTokens(q) \/ RevQuery(q) \/ RecordInvalidate(q)
      PROVE  MintInv'
  <2>1. UNCHANGED <<now, handles, revocations, job>>
    BY Zenon, <1>4 DEF GateFails, PassGate, LiveResolvedTokens, RevQuery, RecordInvalidate, tables
  <2>2. CASE GateFails(q) \/ LiveResolvedTokens(q) \/ RecordInvalidate(q)
    <3>1. \A p \in Request : KeepsPin(p)
      BY ZenonT(30), <2>1, <2>2 DEF GateFails, PassGate, LiveResolvedTokens, RecordInvalidate,
                         Goto, Hold, KeepsPin, Pins, IInv, TypeOK
    <3> QED BY Zenon, <2>1, <3>1, QuietMint
  <2>3. CASE RevQuery(q)
    <3>1. \A p \in Request : KeepsPin(p)
      BY Zenon, <2>1, <2>3 DEF RevQuery, Goto, KeepsPin, Pins, IInv, TypeOK
    <3> QED BY Zenon, <2>1, <3>1, QuietMint
  <2> QED BY Zenon, <1>4, <2>2, <2>3
<1>5. ASSUME NEW q \in Request,
             Respond(q) \/ Drop(q) \/ DenyInvalidate(q) \/ DeleteMembership(q)
      PROVE  MintInv'
  <2>1. UNCHANGED <<now, handles, revocations>> /\ End({q})
    BY Zenon, <1>5 DEF Respond, Drop, DenyInvalidate, DeleteMembership, tables
  <2> QED BY Zenon, <1>1, <2>1, EndType, QuietMint
<1>6. ASSUME NEW r \in Replica, Restart(r) PROVE MintInv'
  BY Zenon, <1>1, <1>6, EndType, QuietMint DEF Restart, tables
<1>7. ASSUME NEW ps, OpenScopeAsserted(ps) PROVE MintInv'
  <2>1. /\ Mint(NoUser, ps) /\ UNCHANGED <<now, revocations>>
        /\ \A p \in Request : KeepsPin(p)
    BY Zenon, <1>1, <1>7 DEF OpenScopeAsserted, tables, slots, Unmoved
  <2> QED BY <2>1, SignStep
<1>8. ASSUME \/ \E u \in User, g \in Group : AdminGroupAdd(u, g)
             \/ \E u \in OutOfBand, g \in Group : LeaveOutOfBand(u, g)
             \/ UNCHANGED vars
      PROVE  MintInv'
  <2>1. UNCHANGED <<now, handles, revocations, slots>>
    BY Zenon, <1>8 DEF AdminGroupAdd, LeaveOutOfBand, vars, tables
  <2> QED BY Zenon, <1>1, <2>1, QuietMint DEF slots, Unmoved
<1> QED
  BY Zenon, <1>3, <1>4, <1>5, <1>6, <1>7, <1>8, CommitMint, TickMint, SubtractMint, TombstonesMint
     DEF Next, Serve, Administer

\* A handle is minted without the tokens whose tombstone is in the window
\* before the mint and has been visible for the cache's life and two flights.
THEOREM MintsHonourTheWindow == Spec => []WindowedMint
<1>1. Init => MintInv
  BY Zenon DEF Init, MintInv, WindowedMint, Pinned, Pins
<1>2. MintInv => WindowedMint
  BY Zenon DEF MintInv
<1> QED BY <1>1, <1>2, Invariance, NextMint, PTL DEF Spec

-----------------------------------------------------------------------------
(* Removals, where requests do not overlap: every token a handle was minted  *)
(* with is still reached by its subject, or has a tombstone the handle       *)
(* predates, because the tombstones are committed before the tuple goes.     *)

\* One request at a time, tuples deleted by the server only, and principals
\* that are users or groups ("user:..." and "group:..." never coincide).
OneByOne ==
    /\ \A p, q \in Request : p = q
    /\ OutOfBand = {}
    /\ User \intersect Group = {}

\* The subject reaches t, or lost it at or after instant a.
Grounded(u, t, a) ==
    \/ t \in UserGroups(u)
    \/ \E r \in revocations : r.principal = u /\ r.token = t /\ r.at >= a

HandleGrounded(h) ==
    h.subject \in User =>
        \A t \in h.principals \ {h.subject} : Grounded(h.subject, t, h.issued_at)

Minting(q) ==
    pc[q] # "idle" /\ job[q].op = "mint" =>
        principals[q] \subseteq {job[q].subject} \union UserGroups(job[q].subject)

Reading(q) ==
    pc[q] # "idle" /\ job[q].op = "read" /\ job[q].subject \in User =>
        \A t \in principals[q] \ {job[q].subject} : Grounded(job[q].subject, t, cutoff[q])

\* A removal is dated after every handle of a subject, and once past its commit
\* its rows are there for the group and all its ancestors.
Removing(q) ==
    pc[q] # "idle" /\ job[q].op = "remove" =>
        /\ job[q].group \in Group /\ principals[q] = Up[job[q].group]
        /\ \A h \in handles : h.subject \in User => h.issued_at <= cutoff[q]
        /\ pc[q] # "commit" =>
             \A t \in principals[q] : \E r \in revocations :
                 r.principal = job[q].subject /\ r.token = t /\ r.at = cutoff[q]

LostInv ==
    /\ \A h \in handles : HandleGrounded(h)
    /\ \A q \in Request : Minting(q) /\ Reading(q) /\ Removing(q)
    /\ \A r \in revocations : r.token \in Group

\* No membership is lost and no row.
Grows ==
    /\ \A u \in User : member[u] \subseteq member'[u]
    /\ revocations \subseteq revocations'

LEMMA GroundedStays ==
    ASSUME Grows, NEW u \in User
    PROVE  /\ UserGroups(u) \subseteq UserGroups(u)'
           /\ \A t, a : Grounded(u, t, a) => Grounded(u, t, a)'
<1>1. UserGroups(u) \subseteq UserGroups(u)'
  BY Zenon DEF Grows, UserGroups
<1> QED BY Zenon, <1>1 DEF Grows, Grounded

\* A step that loses nothing, mints for no subject and ends handlers or leaves
\* them where they are keeps the invariant; the others have to be looked at.
LEMMA LostKept ==
    ASSUME IInv, LostInv, Grows, \A r \in revocations' : r.token \in Group,
           \A h \in handles' : h \in handles \/ h.subject \notin User,
           \A q \in Request : \/ Unmoved(q) \/ Over(q)
                              \/ (Minting(q)' /\ Reading(q)' /\ Removing(q)')
    PROVE  LostInv'
<1>1. \A h \in handles' : HandleGrounded(h)'
  BY Zenon, GroundedStays DEF LostInv, HandleGrounded
<1>2. ASSUME NEW q \in Request, Over(q) PROVE Minting(q)' /\ Reading(q)' /\ Removing(q)'
  BY Zenon, <1>2 DEF Over, Minting, Reading, Removing
<1>3. ASSUME NEW q \in Request, Unmoved(q) PROVE Minting(q)' /\ Reading(q)' /\ Removing(q)'
  <2>1. /\ pc'[q] = pc[q] /\ job'[q] = job[q] /\ principals'[q] = principals[q]
        /\ cutoff'[q] = cutoff[q]
    BY Zenon, <1>3 DEF Unmoved
  <2>2. Minting(q) /\ Reading(q) /\ Removing(q)
    BY Zenon DEF LostInv
  <2>3. Minting(q)'
    <3>1. job[q].op = "mint" => job[q].subject \in User
      BY Zenon DEF IInv, Control
    <3>2. \A u \in User : UserGroups(u) \subseteq UserGroups(u)'
      BY Zenon, GroundedStays
    <3>3. \A u \in User : UserGroups(u)' = UNION {Up[g] : g \in member'[u]}
      BY Zenon DEF UserGroups
    <3> QED BY Zenon, <2>1, <2>2, <3>1, <3>2, <3>3 DEF Minting, UserGroups
  <2>4. Reading(q)'
    <3>1. SUFFICES ASSUME pc[q] # "idle", job[q].op = "read", job[q].subject \in User,
                          NEW t \in principals[q], t # job[q].subject
                   PROVE  Grounded(job[q].subject, t, cutoff[q])'
      BY Zenon, <2>1 DEF Reading
    <3>2. Grounded(job[q].subject, t, cutoff[q])
      BY ZenonT(30), <2>2, <3>1 DEF Reading
    <3>3. CASE t \in UserGroups(job[q].subject)
      BY ZenonT(30), <2>1, <3>1, <3>3 DEF Grounded, UserGroups, Grows
    <3>4. CASE \E r \in revocations : /\ r.principal = job[q].subject
                                      /\ r.token = t /\ r.at >= cutoff[q]
      BY Zenon, <2>1, <3>4 DEF Grounded, Grows
    <3> QED BY Zenon, <3>2, <3>3, <3>4 DEF Grounded
  <2>5. Removing(q)'
    <3>1. SUFFICES ASSUME pc[q] # "idle", job[q].op = "remove"
                   PROVE  Removing(q)'
      BY Zenon, <2>1 DEF Removing
    <3>2. \A h \in handles' : h.subject \in User => h.issued_at <= cutoff[q]
      BY Zenon, <2>2, <3>1 DEF Removing
    <3>3. pc[q] # "commit" =>
             \A t \in principals[q] : \E r \in revocations' :
                 r.principal = job[q].subject /\ r.token = t /\ r.at = cutoff[q]
      BY Zenon, <2>2, <3>1 DEF Removing, Grows
    <3>4. job[q].group \in Group /\ principals[q] = Up[job[q].group]
      BY Zenon, <2>2, <3>1 DEF Removing
    <3> QED BY <2>1, <3>2, <3>3, <3>4 DEF Removing
  <2> QED BY Zenon, <2>3, <2>4, <2>5
<1> QED BY Zenon, <1>1, <1>2, <1>3 DEF LostInv

\* The tables and the handles stay as they are.
Rests == UNCHANGED <<member, revocations, handles>>

LEMMA RestsGrow ==
    ASSUME IInv, LostInv, Rests
    PROVE  /\ Grows /\ \A r \in revocations' : r.token \in Group
           /\ \A h \in handles' : h \in handles \/ h.subject \notin User
           /\ \A u : UserGroups(u)' = UserGroups(u)
           /\ \A u, t, a : Grounded(u, t, a)' <=> Grounded(u, t, a)
<1>1. \A u : UserGroups(u)' = UserGroups(u)
  BY Zenon DEF Rests, UserGroups
<1> QED BY Zenon, <1>1 DEF Rests, Grows, LostInv, Grounded

\* A handler that compiles a scope goes on with no token it did not hold, but
\* its subject's own; subtract has the handle's cutoff throughout.
LEMMA CompilingStep ==
    ASSUME IInv, LostInv, Rests, NEW q \in Request, pc[q] # "idle", job'[q] = job[q],
           job[q].op # "remove",
           job[q].op \in {"mint", "read"} =>
               principals'[q] \subseteq principals[q] \union {job[q].subject},
           job[q].op = "read" => cutoff'[q] = cutoff[q],
           \A p \in Request \ {q} : Unmoved(p)
    PROVE  LostInv'
<1>1. Minting(q) /\ Reading(q)
  BY Zenon DEF LostInv
<1>2. Minting(q)'
  <2>1. UserGroups(job[q].subject)' = UserGroups(job[q].subject)
    BY Zenon, RestsGrow DEF UserGroups, Rests
  <2> QED BY Zenon, <1>1, <2>1 DEF Minting, UserGroups, Rests
<1>3. Reading(q)'
  <2>1. ASSUME NEW t, Grounded(job[q].subject, t, cutoff[q]), cutoff'[q] = cutoff[q]
        PROVE  Grounded(job[q].subject, t, cutoff[q])'
    BY Zenon, <2>1 DEF Grounded, UserGroups, Rests
  <2> QED BY Zenon, <1>1, <2>1 DEF Reading
<1>4. Removing(q)'
  BY Zenon DEF Removing
<1> QED BY Zenon, <1>2, <1>3, <1>4, RestsGrow, LostKept

\* A subtraction ends: the token set shrinks, or the fence empties it, or the
\* handle is signed; no removal is in progress then.
LEMMA SignLost ==
    ASSUME OneByOne, IInv, LostInv, NEW q \in Request, pc[q] \in {"rev", "revFill"},
           NEW deny, FinishSubtract(q, deny)
    PROVE  LostInv'
<1> DEFINE kept == Subtract(principals[q], tomb[q], deny, cutoff[q])
<1>0. Subtracting(q)
  BY Zenon DEF Subtracting
<1>1. /\ \A p \in Request \ {q} : Unmoved(p)
      /\ now' = now /\ member' = member /\ revocations' = revocations /\ cutoff' = cutoff
  BY Zenon, <1>0, Settled
<1>2. Settle(q, kept)
  BY Zenon DEF FinishSubtract
<1>3. kept \subseteq principals[q]
  BY Zenon DEF Subtract
<1>4. job[q].op \in {"mint", "read", "fenced"} /\ pc[q] # "idle"
  BY Zenon DEF IInv, Control
<1> HIDE DEF kept
<1>5. CASE Goto(q, "done") /\ Hold(q, kept, cutoff[q]) /\ job' = job /\ UNCHANGED handles
  <2>1. principals'[q] = kept
    BY Zenon, <1>5 DEF Hold, IInv, TypeOK
  <2>2. Rests /\ job[q].op # "remove"
    BY Zenon, <1>1, <1>4, <1>5 DEF Rests
  <2> QED BY Zenon, <1>1, <1>3, <1>4, <1>5, <2>1, <2>2, CompilingStep
<1>6. CASE job'[q].op = "fenced" /\ UNCHANGED handles
  <2>1. Rests
    BY Zenon, <1>1, <1>6 DEF Rests
  <2>2. Minting(q)' /\ Reading(q)' /\ Removing(q)'
    BY Zenon, <1>6 DEF Minting, Reading, Removing
  <2> QED BY Zenon, <1>1, <2>1, <2>2, RestsGrow, LostKept
<1>7. CASE /\ Hold(q, kept, cutoff[q]) /\ job' = job
           /\ job[q].op = "mint" /\ Mint(job[q].subject, kept)
  <2>1. principals'[q] = kept /\ job[q].subject \in User
    BY Zenon, <1>7 DEF Hold, IInv, TypeOK, Control
  <2>2. kept \subseteq {job[q].subject} \union UserGroups(job[q].subject)
    BY Zenon, <1>3, <1>4, <1>7 DEF LostInv, Minting
  <2>3. \A u : UserGroups(u)' = UserGroups(u)
    BY Zenon, <1>1 DEF UserGroups
  <2>4. PICK ttl \in RequestedTTL :
          handles' = handles \union
              {[subject |-> job[q].subject, principals |-> kept,
                issued_at |-> now, expires_at |-> now + Clamp(ttl)]}
    BY Zenon, <1>7 DEF Mint
  <2>5. ASSUME NEW h \in handles' PROVE HandleGrounded(h)'
    <3>1. CASE h \in handles
      BY Zenon, <1>1, <3>1 DEF LostInv, HandleGrounded, Grounded, UserGroups
    <3>2. CASE h \notin handles
      <4>1. h.subject = job[q].subject /\ h.principals = kept
        BY <2>4, <2>5, <3>2
      <4> QED BY Zenon, <2>2, <4>1, <1>1 DEF HandleGrounded, Grounded, UserGroups
    <3> QED BY Zenon, <3>1, <3>2
  <2>6. Minting(q)'
    BY Zenon, <1>1, <1>7, <2>1, <2>2 DEF Minting, UserGroups
  <2>7. Reading(q)' /\ Removing(q)'
    BY Zenon, <1>7 DEF Reading, Removing
  <2>8. \A p \in Request : p = q
    BY Zenon DEF OneByOne
  <2> QED BY Zenon, <1>1, <2>5, <2>6, <2>7, <2>8 DEF LostInv
<1> QED BY <1>2, <1>4, <1>5, <1>6, <1>7 DEF Settle, IInv, TypeOK

\* The tuple goes after the tombstones: whatever the subject's handles hold of
\* the group and its ancestors has a row they predate.
LEMMA DeleteLost ==
    ASSUME OneByOne, IInv, LostInv, NEW q \in Request, DeleteMembership(q)
    PROVE  LostInv'
<1> DEFINE u == job[q].subject
           g == job[q].group
<1>1. /\ pc[q] = "delete" /\ job[q].op = "remove" /\ u \in User
      /\ End({q}) /\ UNCHANGED <<revocations, handles>>
  BY Zenon DEF DeleteMembership, IInv, Control
<1>2. /\ principals[q] = Up[g]
      /\ \A h \in handles : h.subject \in User => h.issued_at <= cutoff[q]
      /\ \A t \in Up[g] : \E r \in revocations :
           r.principal = u /\ r.token = t /\ r.at = cutoff[q]
  <2>1. pc[q] # "idle" /\ pc[q] # "commit" /\ Removing(q)
    BY Zenon, <1>1 DEF LostInv
  <2> QED BY Zenon, <1>1, <2>1 DEF Removing
<1>3. /\ member'[u] = member[u] \ {g}
      /\ \A x \in User \ {u} : member'[x] = member[x]
  BY Zenon, <1>1 DEF DeleteMembership, Leave, IInv, TypeOK
<1> HIDE DEF u, g
<1>4. ASSUME NEW h \in handles, h.subject \in User, NEW t \in h.principals \ {h.subject}
      PROVE  Grounded(h.subject, t, h.issued_at)'
  <2>1. Grounded(h.subject, t, h.issued_at)
    BY Zenon, <1>4 DEF LostInv, HandleGrounded
  <2>2. CASE \E r \in revocations :
               r.principal = h.subject /\ r.token = t /\ r.at >= h.issued_at
    BY Zenon, <1>1, <2>2 DEF Grounded
  <2>3. CASE t \in UserGroups(h.subject)
    <3>1. PICK x \in member[h.subject] : t \in Up[x]
      BY Zenon, <2>3 DEF UserGroups
    <3>2. CASE x \in member'[h.subject]
      BY Zenon, <3>1, <3>2 DEF Grounded, UserGroups
    <3>3. CASE x \notin member'[h.subject]
      <4>1. h.subject = u /\ x = g
        BY Zenon, <1>3, <1>4, <3>1, <3>3
      <4>2. PICK r \in revocations : r.principal = u /\ r.token = t /\ r.at = cutoff[q]
        BY Zenon, <1>2, <3>1, <4>1
      <4>3. r.at >= h.issued_at
        <5>1. h.issued_at <= cutoff[q] /\ h.issued_at \in Int /\ cutoff[q] \in Int
          <6>1. h.issued_at \in Nat /\ cutoff[q] \in Int
            BY Zenon, Typed DEF IInv, TypeOK, ScopePayload, Time
          <6>2. h.issued_at <= cutoff[q]
            BY Zenon, <1>2, <1>4
          <6> QED BY <6>1, <6>2
        <5> QED BY <4>2, <5>1
      <4> QED BY Zenon, <1>1, <4>1, <4>2, <4>3 DEF Grounded
    <3> QED BY Zenon, <3>2, <3>3
  <2> QED BY Zenon, <2>1, <2>2, <2>3 DEF Grounded
<1>5. \A p \in Request : pc'[p] = "idle"
  BY Zenon, <1>1 DEF OneByOne, End
<1> QED BY Zenon, <1>1, <1>4, <1>5 DEF LostInv, HandleGrounded, Minting, Reading, Removing

\* The rows of a removal: the group and its ancestors, all groups.
LEMMA CommitLost ==
    ASSUME IInv, LostInv, NEW q \in Request, RecordCommit(q)
    PROVE  LostInv'
<1> DEFINE row(t) == [principal |-> job[q].subject, token |-> t, at |-> cutoff[q],
                      seen |-> now]
<1>1. /\ UNCHANGED <<member, handles, job, principals, cutoff, tomb, rev>>
      /\ revocations' = revocations \union {row(t) : t \in principals[q]}
      /\ pc[q] = "commit" /\ pc'[q] = "invalidate"
      /\ \A p \in Request \ {q} : Unmoved(p)
  BY Zenon DEF RecordCommit, Goto, Unmoved, IInv, TypeOK
<1>2. \A t : row(t).principal = job[q].subject /\ row(t).token = t /\ row(t).at = cutoff[q]
  BY Zenon
<1> HIDE DEF row
<1>3. job[q].op = "remove" /\ pc[q] # "idle"
  BY Zenon, <1>1 DEF IInv, Control
<1>4. /\ job[q].group \in Group /\ principals[q] = Up[job[q].group]
      /\ \A h \in handles : h.subject \in User => h.issued_at <= cutoff[q]
  BY Zenon, <1>3 DEF LostInv, Removing
<1>5. principals[q] \subseteq Group
  BY Zenon, <1>4, PlaneAssumption
<1>6. /\ Grows /\ \A r \in revocations' : r.token \in Group
      /\ \A h \in handles' : h \in handles
  BY ZenonT(30), <1>1, <1>2, <1>5 DEF Grows, LostInv
<1>7. \A t \in principals[q] : \E r \in revocations' :
         r.principal = job[q].subject /\ r.token = t /\ r.at = cutoff[q]
  <2>1. \A t \in principals[q] : row(t) \in revocations'
    BY Zenon, <1>1
  <2> QED BY Zenon, <1>2, <2>1
<1>8. Minting(q)' /\ Reading(q)'
  BY Zenon, <1>1, <1>3 DEF Minting, Reading
<1>9. Removing(q)'
  BY Zenon, <1>1, <1>4, <1>7 DEF Removing
<1> QED BY Zenon, <1>1, <1>6, <1>8, <1>9, LostKept

\* A handler starts: with the groups its subject reaches, with a handle, or to
\* remove a member.
LEMMA StartLost ==
    ASSUME IInv, MintInv, LostInv, NEW q \in Request, NEW x, NEW op, NEW u, NEW g, NEW ps, NEW c,
           Start(q, x, op, u, g, ps, c), UNCHANGED <<member, revocations, handles>>,
           \/ op = "deny"
           \/ op = "mint" /\ u \in User /\ ps \subseteq UserGroups(u)
           \/ op = "read" /\ \E h \in handles : /\ u = h.subject /\ ps = h.principals
                                               /\ c = h.issued_at
           \/ x = "commit" /\ op = "remove" /\ g \in Group /\ ps = Up[g] /\ c = now
    PROVE  LostInv'
<1>1. /\ pc'[q] = x /\ principals'[q] = ps /\ cutoff'[q] = c
      /\ job'[q].op = op /\ job'[q].subject = u /\ job'[q].group = g
      /\ \A p \in Request \ {q} : Unmoved(p)
  BY Zenon DEF IInv, TypeOK, Start, Goto, Hold, Unmoved
<1>2. Rests
  BY Zenon DEF Rests
<1>3. Minting(q)'
  BY Zenon, <1>1 DEF Minting, UserGroups
<1>4. Reading(q)'
  <2> SUFFICES ASSUME op = "read", u \in User, NEW t \in ps, t # u
               PROVE  \/ t \in UNION {Up[z] : z \in member[u]}
                      \/ \E r \in revocations : /\ r.principal = u
                                                /\ r.token = t /\ r.at >= c
    BY Zenon, <1>1 DEF Reading, Grounded, UserGroups
  <2>1. PICK h \in handles : u = h.subject /\ ps = h.principals /\ c = h.issued_at
    BY Zenon
  <2>2. Grounded(u, t, c)
    BY Zenon, <2>1 DEF LostInv, HandleGrounded
  <2> QED BY Zenon, <2>2 DEF Grounded, UserGroups
<1>5. Removing(q)'
  <2> SUFFICES ASSUME op = "remove" PROVE Removing(q)'
    BY Zenon, <1>1 DEF Removing
  <2>1. x = "commit" /\ g \in Group /\ ps = Up[g] /\ c = now
    BY Zenon
  <2> QED BY Zenon, <1>1, <2>1 DEF Removing, MintInv
<1> QED BY Zenon, <1>1, <1>2, <1>3, <1>4, <1>5, RestsGrow, LostKept

LEMMA NextLost ==
    ASSUME OneByOne
    PROVE  IInv /\ MintInv /\ LostInv /\ [Next]_vars => LostInv'
<1> SUFFICES ASSUME IInv, MintInv, LostInv, [Next]_vars PROVE LostInv'
  BY Zenon
<1>1. ASSUME Rests, \A q \in Request : Unmoved(q) \/ Over(q) PROVE LostInv'
  BY Zenon, <1>1, RestsGrow, LostKept
<1>2. ASSUME NEW q \in Request,
             \/ \E u \in Subject : OpenScope(q, u)
             \/ \E h \in handles : ScopeFor(q, h)
             \/ \E u \in User, g \in Group : AdminGroupRemove(q, u, g)
             \/ \E u \in Deniable : RevokePrincipal(q, u) \/ ReinstatePrincipal(q, u)
      PROVE  LostInv'
  <2>1. UNCHANGED <<member, revocations, handles>>
    BY Zenon, <1>2 DEF OpenScope, ScopeFor, AdminGroupRemove, RevokePrincipal,
                       ReinstatePrincipal, SetDenied, tables
  <2>2. ASSUME NEW u \in Subject, OpenScope(q, u) PROVE LostInv'
    <3>1. PICK ps \in SUBSET UserGroups(u) : Start(q, "gate", "mint", u, NoGroup, ps, 0)
      BY Zenon, <2>2 DEF OpenScope
    <3> QED BY Zenon, <2>1, <3>1, StartLost, PlaneAssumption
  <2>3. ASSUME NEW h \in handles, ScopeFor(q, h) PROVE LostInv'
    <3>1. Start(q, "tomb", "read", h.subject, NoGroup, h.principals, h.issued_at)
      BY Zenon, <2>3 DEF ScopeFor
    <3> QED BY Zenon, <2>1, <3>1, StartLost
  <2>4. ASSUME NEW u \in User, NEW g \in Group, AdminGroupRemove(q, u, g) PROVE LostInv'
    <3>1. Start(q, "commit", "remove", u, g, Up[g], now)
      BY Zenon, <2>4 DEF AdminGroupRemove
    <3> QED BY Zenon, <2>1, <3>1, StartLost
  <2>5. ASSUME NEW u \in Deniable, RevokePrincipal(q, u) \/ ReinstatePrincipal(q, u)
        PROVE  LostInv'
    <3>1. Start(q, "invalidate", "deny", u, NoGroup, {}, 0)
      BY Zenon, <2>5 DEF RevokePrincipal, ReinstatePrincipal, SetDenied
    <3> QED BY Zenon, <2>1, <3>1, StartLost
  <2> QED BY Zenon, <1>2, <2>2, <2>3, <2>4, <2>5
<1>3. ASSUME NEW q \in Request,
             \/ TombHit(q) \/ TombQuery(q) \/ TombFill(q) \/ RevQuery(q)
             \/ LiveResolvedTokens(q)
      PROVE  LostInv'
  <2>1. Rests /\ job' = job
    BY Zenon, <1>3 DEF TombHit, TombQuery, Tombstones, TombFill, RevQuery,
                       LiveResolvedTokens, tables, Rests
  <2>2. \A p \in Request \ {q} : Unmoved(p)
    BY Zenon, <1>3 DEF IInv, TypeOK, LiveResolvedTokens, TombHit, TombQuery, Tombstones,
                       TombFill, RevQuery, Goto, Hold, Unmoved
  <2>3. pc[q] \in {"tomb", "tombFill", "gate", "rev", "resolve"}
    BY Zenon, <1>3 DEF LiveResolvedTokens, TombHit, TombQuery, Tombstones, TombFill, RevQuery
  <2>4. pc[q] # "idle" /\ job[q].op # "remove"
    BY Zenon, <2>3 DEF IInv, Control
  <2>5. /\ job[q].op \in {"mint", "read"} => principals'[q] = principals[q]
        /\ job[q].op = "read" => cutoff'[q] = cutoff[q]
    <3>1. CASE TombHit(q) \/ TombQuery(q)
      BY Zenon, <3>1 DEF TombHit, TombQuery, Tombstones, IInv, TypeOK
    <3>2. CASE TombFill(q) \/ RevQuery(q)
      BY Zenon, <3>2 DEF TombFill, RevQuery
    <3>3. CASE LiveResolvedTokens(q)
      BY Zenon, <3>3 DEF LiveResolvedTokens, IInv, Control
    <3> QED BY Zenon, <1>3, <3>1, <3>2, <3>3
  <2> QED BY Zenon, <2>1, <2>2, <2>4, <2>5, CompilingStep
<1>4. ASSUME NEW q \in Request, RevHit(q) \/ RevFill(q) \/ GateFails(q) PROVE LostInv'
  <2>1. CASE pc[q] \in {"rev", "revFill"}
    <3>1. PICK deny : FinishSubtract(q, deny)
      BY Zenon, <1>4, <2>1 DEF RevHit, RevFill, GateFails
    <3> QED BY Zenon, <2>1, <3>1, SignLost
  <2>2. CASE pc[q] \in {"gate", "gateFill"}
    <3>1. PICK deny : PassGate(q, deny)
      BY Zenon, <1>4, <2>2 DEF RevHit, RevFill, GateFails
    <3>2. /\ Rests /\ job' = job /\ cutoff'[q] = cutoff[q]
          /\ principals'[q] = principals[q] \union ({job[q].subject} \ deny)
          /\ \A p \in Request \ {q} : Unmoved(p)
      BY Zenon, <3>1 DEF PassGate, Goto, Hold, Unmoved, Rests, tables, IInv, TypeOK
    <3>3. pc[q] # "idle" /\ job[q].op # "remove"
      BY Zenon, <2>2 DEF IInv, Control
    <3> QED BY Zenon, <3>2, <3>3, CompilingStep
  <2> QED BY Zenon, <1>4, <2>1, <2>2 DEF RevHit, RevFill, GateFails
<1>5. ASSUME NEW q \in Request, Respond(q) \/ Drop(q) \/ DenyInvalidate(q) PROVE LostInv'
  BY Zenon, <1>1, <1>5, EndType DEF Respond, Drop, DenyInvalidate, tables, Rests
<1>6. ASSUME NEW r \in Replica, Restart(r) PROVE LostInv'
  BY Zenon, <1>1, <1>6, EndType DEF Restart, tables, Rests
<1>7. ASSUME NEW q \in Request, RecordInvalidate(q) PROVE LostInv'
  <2>1. /\ Rests /\ UNCHANGED <<job, principals, cutoff, tomb, rev>>
        /\ pc[q] = "invalidate" /\ pc'[q] = "delete" /\ job[q].op = "remove"
        /\ \A p \in Request \ {q} : Unmoved(p)
    BY Zenon, <1>7 DEF RecordInvalidate, Goto, Unmoved, Rests, tables, IInv, TypeOK
  <2>2. pc[q] # "idle" /\ pc[q] # "commit" /\ Removing(q)
    BY Zenon, <2>1 DEF LostInv
  <2>3. Minting(q)' /\ Reading(q)'
    BY Zenon, <2>1 DEF Minting, Reading
  <2>4. Removing(q)'
    BY Zenon, <2>1, <2>2 DEF Removing, Rests
  <2> QED BY Zenon, <2>1, <2>3, <2>4, RestsGrow, LostKept
<1>8. ASSUME NEW ps, OpenScopeAsserted(ps) PROVE LostInv'
  <2>1. /\ UNCHANGED <<member, revocations>> /\ \A p \in Request : Unmoved(p)
        /\ Mint(NoUser, ps)
    BY Zenon, <1>8 DEF OpenScopeAsserted, tables, slots, Unmoved
  <2>2. \A h \in handles' : h \in handles \/ h.subject = NoUser
    BY <2>1 DEF Mint
  <2>3. NoUser \notin User
    BY Zenon, PlaneAssumption DEF Token
  <2> QED BY Zenon, <2>1, <2>2, <2>3, LostKept DEF Grows, LostInv
<1>9. ASSUME NEW u \in User, NEW g \in Group, AdminGroupAdd(u, g) PROVE LostInv'
  <2>1. /\ UNCHANGED <<revocations, handles>> /\ \A p \in Request : Unmoved(p)
        /\ \A x \in User : member[x] \subseteq member'[x]
    BY Zenon, <1>9 DEF AdminGroupAdd, slots, Unmoved, IInv, TypeOK
  <2> QED BY Zenon, <2>1, LostKept DEF Grows, LostInv
<1>10. ASSUME Tick \/ UNCHANGED vars PROVE LostInv'
  BY Zenon, <1>1, <1>10 DEF Tick, vars, tables, slots, Rests, Unmoved
<1>11. OutOfBand = {}
  BY Zenon DEF OneByOne
<1> QED
  BY Zenon, <1>2, <1>3, <1>4, <1>5, <1>6, <1>7, <1>8, <1>9, <1>10, <1>11, CommitLost, DeleteLost
     DEF Next, Serve, Administer

\* Where requests do not overlap and only the server deletes tuples, a user who
\* lost a group by one removal, committed for the cache's life and a flight, is
\* served neither that group nor an ancestor reached only through it.
THEOREM LostGroupsHidden ==
    ASSUME OneByOne
    PROVE  Spec => []LostGroupHidden
<1>1. Init => MintInv
  BY Zenon DEF Init, MintInv, WindowedMint, Pinned, Pins
<1>2. Init => LostInv
  BY Zenon DEF Init, LostInv, Minting, Reading, Removing
<1>3. IInv /\ LostInv => LostGroupHidden
  <2> SUFFICES ASSUME IInv, LostInv, NEW q \in Request, Done(q), job[q].op = "read",
                      NEW t \in principals[q], NEW r \in revocations,
                      r.principal = job[q].subject, r.token = t,
                      job[q].began - r.seen >= Lag,
                      \A s \in revocations : s.token = t => s = r
               PROVE  t \in UserGroups(job[q].subject)
    BY Zenon DEF LostGroupHidden
  <2>1. /\ Bitten(q) /\ pc[q] # "idle" /\ job[q].subject \in User
    BY Zenon DEF IInv, Views, Done, TypeOK, Row
  <2>2. t # job[q].subject
    BY Zenon, <2>1 DEF LostInv, OneByOne
  <2>3. Grounded(job[q].subject, t, cutoff[q])
    BY Zenon, <2>1, <2>2 DEF LostInv, Reading
  <2>4. ASSUME r.at >= cutoff[q] PROVE FALSE
    <3>1. r.at < cutoff[q]
      BY Zenon, <2>1, <2>4 DEF Bitten
    <3>2. r.at \in Nat /\ cutoff[q] \in Int
      BY Zenon, Typed
    <3> QED BY <2>4, <3>1, <3>2
  <2> QED BY Zenon, <2>3, <2>4 DEF Grounded
<1> QED BY <1>1, <1>2, <1>3, Invariance, NextMint, NextLost, PTL DEF Spec

=============================================================================
