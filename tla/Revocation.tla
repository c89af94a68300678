----------------------------- MODULE Revocation -----------------------------
(***************************************************************************)
(* The revocation plane of verity-server: minting a scope handle           *)
(* (open_scope), compiling it on every read (scope_for -> subtract, and    *)
(* the live resolution the staleness fence forces), the                    *)
(* tombstones of a group removal (admin_group_remove -> record), the       *)
(* durable deny list of a principal (revoke / reinstate), and the two      *)
(* caches with a time to live that every replica keeps in front of the     *)
(* database.  One tenant.  A handler is a request slot; it stops at every  *)
(* await of the code, so handlers of one replica and of several interleave.*)
(***************************************************************************)
EXTENDS Integers, FiniteSets

CONSTANTS
    User,            \* user principals; a principal stands for its token
    Group,           \* group principals
    Replica,         \* server processes
    Request,         \* request slots
    Home,            \* [Request -> Replica]: where a slot runs
    Up,              \* [Group -> SUBSET Group]: a group and its ancestors
    CacheTTL,        \* CACHE_TTL
    Window,          \* VERITY_REVOCATION_WINDOW_SECS
    Retention,       \* RETENTION_SECS
    MinTTL, MaxTTL,  \* the clamp of ScopeMinter::mint
    RequestedTTL,    \* lifetimes callers ask for
    Subject,         \* users for whom callers open scopes
    Asserted,        \* principal sets callers assert when no subject is given
    Deniable,        \* users an administrator revokes and reinstates
    Fenced,          \* replicas whose Watch may be stale when asked
    OutOfBand,       \* users whose tuples others delete in SpiceDB
    Droppable,       \* slots whose handler may fail or be dropped midway
    Flight,          \* bound: the longest a handler runs
    MaxTime,         \* bound: the clock stops here
    MaxRows,         \* bound: rows of `revocations`
    MaxHandles       \* bound: handles minted

NoUser == "no_user"
NoGroup == "no_group"
NoEntry == [val |-> {}, at |-> -1]

Token == User \union Group

ASSUME PlaneAssumption ==
    /\ Home \in [Request -> Replica]
    /\ Up \in [Group -> SUBSET Group]
    /\ NoUser \notin Token
    /\ Subject \subseteq User /\ Deniable \subseteq User /\ OutOfBand \subseteq User
    /\ Asserted \subseteq SUBSET Token

\* RETENTION_SECS is MAX_TTL_SECONDS and an hour of slack, which covers a
\* handler that verified its handle just before it expired.  The window is
\* configurable; its default is far below the retention.
ASSUME TimingAssumption ==
    /\ CacheTTL \in Nat \ {0} /\ Window \in Nat /\ Flight \in Nat
    /\ MinTTL \in Nat /\ MaxTTL \in Nat /\ MinTTL <= MaxTTL
    /\ RequestedTTL \subseteq Int
    /\ Retention \in Nat
    /\ Retention > MaxTTL + Flight /\ Retention > Window + Flight
    /\ MaxTime \in Nat /\ MaxRows \in Nat /\ MaxHandles \in Nat

VARIABLES
    now,          \* wall clock, shared by the database and the replicas
    member,       \* SpiceDB: user -> groups it is a direct member of
    left,         \* direct memberships lost in the last Flight (history)
    revocations,  \* table `revocations`; `seen` is the commit instant (history)
    revoked,      \* table `revoked_principal`; `since`: last change (history)
    tombCache,    \* RevocationPlane.cache of each replica
    revCache,     \* RevocationPlane.revoked of each replica
    handles,      \* every ScopePayload minted and signed so far
    (* the handler running in each request slot *)
    pc,           \* the await it is at
    job,          \* its operation and inputs
    principals,   \* the token set it holds
    cutoff,       \* issued_at, start of the window, or the tombstones' `at`
    tomb,         \* the TombstoneSet in hand
    rev           \* the RevokedSet a query answered, not yet cached

tables == <<member, left, revocations, revoked>>
caches == <<tombCache, revCache>>
slots == <<pc, job, principals, cutoff, tomb, rev>>
vars == <<now, tables, caches, handles, slots>>

-----------------------------------------------------------------------------
(* Types *)

Time == Nat

Tombstone == [token : Token, at : Time]

Row == [principal : User, token : Token, at : Time, seen : Time]

Departure == [user : User, group : Group, at : Time]

ScopePayload == [subject : User \union {NoUser}, principals : SUBSET Token,
                 issued_at : Time, expires_at : Int]

Job == [op : {"none", "mint", "read", "fenced", "remove", "deny"}, began : Time,
        subject : User \union {NoUser}, group : Group \union {NoGroup}]

NoJob == [op |-> "none", began |-> 0, subject |-> NoUser, group |-> NoGroup]

\* At "...Fill" a query has been answered and its answer not yet cached.
Point == {"idle", "gate", "gateFill", "tomb", "tombFill", "rev", "revFill",
          "resolve", "done", "commit", "invalidate", "delete"}

Entry(S) == [val : SUBSET S, at : Time] \union {NoEntry}

TypeOK ==
    /\ now \in Time
    /\ member \in [User -> SUBSET Group]
    /\ left \subseteq Departure
    /\ revocations \subseteq Row
    /\ revoked \in [Token -> [active : BOOLEAN, since : Int]]
    /\ tombCache \in [Replica -> Entry(Tombstone)]
    /\ revCache \in [Replica -> Entry(Token)]
    /\ handles \subseteq ScopePayload
    /\ pc \in [Request -> Point]
    /\ job \in [Request -> Job]
    /\ principals \in [Request -> SUBSET Token]
    /\ cutoff \in [Request -> Int]
    /\ tomb \in [Request -> SUBSET Tombstone]
    /\ rev \in [Request -> SUBSET Token]

-----------------------------------------------------------------------------
(* Lookups *)

\* Rebac::user_groups: the groups a user reaches, fully consistent.
UserGroups(u) == UNION {Up[g] : g \in member[u]}

\* The rows the query of retained_tombstones selects, collapsed by
\* `min(at) GROUP BY token`.
Retained == {r \in revocations : r.at > now - Retention}
Earliest(rows) ==
    {[token |-> r.token, at |-> r.at] :
        r \in {x \in rows : \A y \in rows : y.token = x.token => x.at <= y.at}}

\* Mutant: a reinstated principal still counts as revoked.
ActiveEver == {t \in Token : revoked[t].since >= 0}

\* The query of revoked_set: reinstated_at IS NULL.
Active == {t \in Token : revoked[t].active}

Live(e) == e # NoEntry

\* Mutant: entries are dropped by invalidation only.
ExpireNever(cache, t) == cache

\* moka's time_to_live: an entry of age CACHE_TTL is gone.
Expire(cache, t) ==
    [r \in Replica |-> IF t - cache[r].at < CacheTTL THEN cache[r] ELSE NoEntry]

\* Mutants: the boundary instant spares the handle; any tombstone bites.
SubtractLate(ps, tombstones, deny, issued_at) ==
    {t \in ps : /\ t \notin deny
                /\ \A e \in tombstones : e.token = t => e.at <= issued_at}
SubtractAlways(ps, tombstones, deny, issued_at) ==
    {t \in ps : t \notin deny /\ \A e \in tombstones : e.token # t}

\* RevocationPlane::subtract, the filter.
Subtract(ps, tombstones, deny, issued_at) ==
    {t \in ps : /\ t \notin deny
                /\ \A e \in tombstones : e.token = t => e.at < issued_at}

\* ScopeMinter::mint clamps the requested lifetime.
Clamp(ttl) == IF ttl < MinTTL THEN MinTTL ELSE IF ttl > MaxTTL THEN MaxTTL ELSE ttl

-----------------------------------------------------------------------------
Init ==
    /\ now = 0
    /\ member \in [User -> SUBSET Group]
    /\ left = {}
    /\ revocations = {}
    /\ revoked = [t \in Token |-> [active |-> FALSE,
                                   since |-> -(CacheTTL + Flight)]]
    /\ tombCache = [r \in Replica |-> NoEntry]
    /\ revCache = [r \in Replica |-> NoEntry]
    /\ handles = {}
    /\ pc = [q \in Request |-> "idle"]
    /\ job = [q \in Request |-> NoJob]
    /\ principals = [q \in Request |-> {}]
    /\ cutoff = [q \in Request |-> 0]
    /\ tomb = [q \in Request |-> {}]
    /\ rev = [q \in Request |-> {}]

Goto(q, p) == pc' = [pc EXCEPT ![q] = p]

Hold(q, ps, c) ==
    /\ principals' = [principals EXCEPT ![q] = ps]
    /\ cutoff' = [cutoff EXCEPT ![q] = c]

\* A handler starts at point p with a job, a token set and a cutoff.
Start(q, p, op, u, g, ps, c) ==
    /\ pc[q] = "idle" /\ Goto(q, p)
    /\ job' = [job EXCEPT ![q] =
                 [op |-> op, began |-> now, subject |-> u, group |-> g]]
    /\ Hold(q, ps, c)
    /\ UNCHANGED <<tomb, rev>>

\* The handlers in Q are over.
End(Q) ==
    /\ pc' = [q \in Request |-> IF q \in Q THEN "idle" ELSE pc[q]]
    /\ job' = [q \in Request |-> IF q \in Q THEN NoJob ELSE job[q]]
    /\ principals' = [q \in Request |-> IF q \in Q THEN {} ELSE principals[q]]
    /\ cutoff' = [q \in Request |-> IF q \in Q THEN 0 ELSE cutoff[q]]
    /\ tomb' = [q \in Request |-> IF q \in Q THEN {} ELSE tomb[q]]
    /\ rev' = [q \in Request |-> IF q \in Q THEN {} ELSE rev[q]]

-----------------------------------------------------------------------------
(* Minting and reading *)

\* ScopeMinter::mint: the lifetime is clamped and issued_at stamped.
Mint(u, ps) ==
    \E ttl \in RequestedTTL :
        handles' = handles \union
            {[subject |-> u, principals |-> ps,
              issued_at |-> now, expires_at |-> now + Clamp(ttl)]}

\* Room for one more handle besides those being minted.
MayMint ==
    Cardinality(handles)
        + Cardinality({q \in Request : job[q].op = "mint" /\ pc[q] # "done"})
      < MaxHandles

\* open_scope with a subject: the group closure is resolved first; a membership
\* cycle exceeds SpiceDB's depth and resolves to no group at all.
OpenScope(q, u) ==
    /\ MayMint
    /\ \/ Start(q, "gate", "mint", u, NoGroup, UserGroups(u), 0)
       \/ q \in Droppable /\ Start(q, "gate", "mint", u, NoGroup, {}, 0)
    /\ UNCHANGED <<now, tables, caches, handles>>

\* open_scope without a subject: the asserted principals are minted as given.
OpenScopeAsserted(ps) ==
    /\ MayMint
    /\ Mint(NoUser, ps)
    /\ UNCHANGED <<now, tables, caches, slots>>

\* verify_scope then scope_for: an expired handle is refused.
ScopeFor(q, h) ==
    /\ ~(h.expires_at < now)
    /\ Start(q, "tomb", "read", h.subject, NoGroup, h.principals, h.issued_at)
    /\ UNCHANGED <<now, tables, caches, handles>>

\* Mutant: a mint subtracts from now on, without the window.
TombstonesNoWindow(q, p, S) ==
    /\ pc[q] = "tomb" /\ Goto(q, p)
    /\ tomb' = [tomb EXCEPT ![q] = S]
    /\ cutoff' = [cutoff EXCEPT ![q] = IF job[q].op = "mint" THEN now ELSE @]
    /\ UNCHANGED <<now, tables, caches, handles, job, principals, rev>>

\* retained_tombstones: a hit, or a query whose answer is cached afterwards.
\* subtract_window pins its cutoff on entry; subtract has the handle's.
Tombstones(q, p, S) ==
    /\ pc[q] = "tomb" /\ Goto(q, p)
    /\ tomb' = [tomb EXCEPT ![q] = S]
    /\ cutoff' = [cutoff EXCEPT ![q] = IF job[q].op = "mint" THEN now - Window ELSE @]
    /\ UNCHANGED <<now, tables, caches, handles, job, principals, rev>>

TombHit(q) ==
    /\ Live(tombCache[Home[q]])
    /\ Tombstones(q, "rev", tombCache[Home[q]].val)

TombQuery(q) ==
    /\ ~Live(tombCache[Home[q]])
    /\ Tombstones(q, "tombFill", Earliest(Retained))

TombFill(q) ==
    /\ pc[q] = "tombFill" /\ Goto(q, "rev")
    /\ tombCache' = [tombCache EXCEPT ![Home[q]] = [val |-> tomb[q], at |-> now]]
    /\ UNCHANGED <<now, tables, revCache, handles, job, principals, cutoff, tomb, rev>>

\* The mint-time gate: the subject's own token is added unless it is denied.
PassGate(q, deny) ==
    /\ Goto(q, "tomb")
    /\ Hold(q, principals[q] \union ({job[q].subject} \ deny), cutoff[q])
    /\ rev' = [rev EXCEPT ![q] = {}]
    /\ UNCHANGED <<now, tables, tombCache, handles, job, tomb>>

\* What follows the subtraction: open_scope mints the handle; a read is done
\* unless fence_stale_scope finds the Watch stale.  Fenced, it resolves the
\* subject anew, once, or without a subject ends with nothing.
Settle(q, kept) ==
    \/ /\ Goto(q, "done") /\ Hold(q, kept, cutoff[q])
       /\ \/ job[q].op = "mint" /\ Mint(job[q].subject, kept)
          \/ job[q].op \in {"read", "fenced"} /\ UNCHANGED handles
       /\ UNCHANGED job
    \/ /\ job[q].op = "read" /\ Home[q] \in Fenced
       /\ Hold(q, {}, cutoff[q])
       /\ job' = [job EXCEPT ![q] = [op |-> "fenced", began |-> job[q].began,
                                     subject |-> job[q].subject, group |-> NoGroup]]
       /\ Goto(q, IF job[q].subject = NoUser THEN "done" ELSE "resolve")
       /\ UNCHANGED handles

FinishSubtract(q, deny) ==
    /\ Settle(q, Subtract(principals[q], tomb[q], deny, cutoff[q]))
    /\ tomb' = [tomb EXCEPT ![q] = {}]
    /\ rev' = [rev EXCEPT ![q] = {}]
    /\ UNCHANGED <<now, tables, tombCache>>

\* Mutant: the handle's own groups are kept beside the resolved ones.
LiveResolvedTokensMerged(q) ==
    /\ pc[q] = "resolve" /\ Goto(q, "tomb")
    /\ \E h \in handles :
         Hold(q, {job[q].subject} \union UserGroups(job[q].subject) \union h.principals,
              cutoff[q])
    /\ UNCHANGED <<now, tables, caches, handles, job, tomb, rev>>

\* live_resolved_tokens: the subject and its present groups, subtracted again.
LiveResolvedTokens(q) ==
    /\ pc[q] = "resolve" /\ Goto(q, "tomb")
    /\ Hold(q, {job[q].subject} \union UserGroups(job[q].subject), cutoff[q])
    /\ UNCHANGED <<now, tables, caches, handles, job, tomb, rev>>

\* revoked_set: a hit, or a query whose answer is cached afterwards.
RevHit(q) ==
    /\ Live(revCache[Home[q]])
    /\ \/ pc[q] = "gate" /\ PassGate(q, revCache[Home[q]].val)
       \/ pc[q] = "rev" /\ FinishSubtract(q, revCache[Home[q]].val)
    /\ UNCHANGED revCache

RevQuery(q) ==
    /\ ~Live(revCache[Home[q]])
    /\ \/ pc[q] = "gate" /\ Goto(q, "gateFill")
       \/ pc[q] = "rev" /\ Goto(q, "revFill")
    /\ rev' = [rev EXCEPT ![q] = Active]
    /\ UNCHANGED <<now, tables, caches, handles, job, principals, cutoff, tomb>>

RevFill(q) ==
    /\ \/ pc[q] = "gateFill" /\ PassGate(q, rev[q])
       \/ pc[q] = "revFill" /\ FinishSubtract(q, rev[q])
    /\ revCache' = [revCache EXCEPT ![Home[q]] = [val |-> rev[q], at |-> now]]

\* The gate's lookup fails: the subject counts as denied.
GateFails(q) ==
    /\ q \in Droppable /\ pc[q] = "gate"
    /\ PassGate(q, {job[q].subject})
    /\ UNCHANGED revCache

-----------------------------------------------------------------------------
(* The admin plane *)

\* admin_group_add: one tuple written.
AdminGroupAdd(u, g) ==
    /\ member' = [member EXCEPT ![u] = @ \union {g}]
    /\ UNCHANGED <<now, left, revocations, revoked, caches, handles, slots>>

\* Mutant: only the group itself is tombstoned.
AdminGroupRemoveAlone(q, u, g) ==
    /\ Cardinality(revocations) + 1 <= MaxRows
    /\ Start(q, "commit", "remove", u, g, {g}, now)
    /\ UNCHANGED <<now, tables, caches, handles>>

\* admin_group_remove: the group and its ancestors are lost; record begins its
\* transaction, whose start is the rows' `at`.
AdminGroupRemove(q, u, g) ==
    /\ Cardinality(revocations) + Cardinality(Up[g]) <= MaxRows
    /\ Start(q, "commit", "remove", u, g, Up[g], now)
    /\ UNCHANGED <<now, tables, caches, handles>>

\* Mutant: the rows are stamped one tick before the transaction.
RecordCommitEarly(q) ==
    /\ pc[q] = "commit" /\ Goto(q, "invalidate")
    /\ revocations' = revocations \union
         {[principal |-> job[q].subject, token |-> t, at |-> cutoff[q] - 1,
           seen |-> now] : t \in principals[q]}
    /\ UNCHANGED <<now, member, left, revoked, caches, handles,
                   job, principals, cutoff, tomb, rev>>

RecordCommit(q) ==
    /\ pc[q] = "commit" /\ Goto(q, "invalidate")
    /\ revocations' = revocations \union
         {[principal |-> job[q].subject, token |-> t, at |-> cutoff[q],
           seen |-> now] : t \in principals[q]}
    /\ UNCHANGED <<now, member, left, revoked, caches, handles,
                   job, principals, cutoff, tomb, rev>>

RecordInvalidate(q) ==
    /\ pc[q] = "invalidate" /\ job[q].op = "remove" /\ Goto(q, "delete")
    /\ tombCache' = [tombCache EXCEPT ![Home[q]] = NoEntry]
    /\ UNCHANGED <<now, tables, revCache, handles,
                   job, principals, cutoff, tomb, rev>>

\* A tuple is deleted; deleting one that is not there changes nothing.
Leave(u, g) ==
    /\ member' = [member EXCEPT ![u] = @ \ {g}]
    /\ left' = left \union
                 {[user |-> u, group |-> x, at |-> now] : x \in member[u] \intersect {g}}

DeleteMembership(q) ==
    /\ pc[q] = "delete"
    /\ Leave(job[q].subject, job[q].group)
    /\ End({q})
    /\ UNCHANGED <<now, revocations, revoked, caches, handles>>

\* revoke_principal and reinstate_principal: the row, then the invalidation.
SetDenied(q, u, active) ==
    /\ Start(q, "invalidate", "deny", u, NoGroup, {}, 0)
    /\ revoked' = [revoked EXCEPT ![u] =
                     IF @.active = active THEN @
                     ELSE [active |-> active, since |-> now]]
    /\ UNCHANGED <<now, member, left, revocations, caches, handles>>

RevokePrincipal(q, u) == SetDenied(q, u, TRUE)

ReinstatePrincipal(q, u) == SetDenied(q, u, FALSE)

DenyInvalidate(q) ==
    /\ pc[q] = "invalidate" /\ job[q].op = "deny"
    /\ revCache' = [revCache EXCEPT ![Home[q]] = NoEntry]
    /\ End({q})
    /\ UNCHANGED <<now, tables, tombCache, handles>>

-----------------------------------------------------------------------------
(* The environment *)

\* The storage read with the compiled scope, and the response.
Respond(q) ==
    /\ pc[q] = "done"
    /\ End({q})
    /\ UNCHANGED <<now, tables, caches, handles>>

\* Another client of SpiceDB deletes a tuple: no tombstone is written.
LeaveOutOfBand(u, g) ==
    /\ g \in member[u] /\ Leave(u, g)
    /\ UNCHANGED <<now, revocations, revoked, caches, handles, slots>>

\* A query fails, or the client goes away and the handler is dropped.
Drop(q) ==
    /\ q \in Droppable /\ pc[q] # "idle"
    /\ End({q})
    /\ UNCHANGED <<now, tables, caches, handles>>

\* A replica restarts: its caches and the handlers it ran are gone.
Restart(r) ==
    /\ tombCache' = [tombCache EXCEPT ![r] = NoEntry]
    /\ revCache' = [revCache EXCEPT ![r] = NoEntry]
    /\ End({q \in Request : Home[q] = r})
    /\ UNCHANGED <<now, tables, handles>>

\* No handler outlives Flight.
Tick ==
    /\ now < MaxTime
    /\ \A q \in Request : pc[q] # "idle" => now - job[q].began < Flight
    /\ now' = now + 1
    /\ tombCache' = Expire(tombCache, now + 1)
    /\ revCache' = Expire(revCache, now + 1)
    /\ left' = {d \in left : now - d.at < Flight}
    /\ UNCHANGED <<member, revocations, revoked, handles, slots>>

-----------------------------------------------------------------------------
Serve(q) ==
    \/ \E u \in Subject : OpenScope(q, u)
    \/ \E h \in handles : ScopeFor(q, h)
    \/ TombHit(q) \/ TombQuery(q) \/ TombFill(q)
    \/ RevHit(q) \/ RevQuery(q) \/ RevFill(q) \/ GateFails(q)
    \/ LiveResolvedTokens(q)
    \/ Respond(q) \/ Drop(q)

Administer(q) ==
    \/ \E u \in User, g \in Group : AdminGroupRemove(q, u, g)
    \/ RecordCommit(q) \/ RecordInvalidate(q) \/ DeleteMembership(q)
    \/ \E u \in Deniable : RevokePrincipal(q, u) \/ ReinstatePrincipal(q, u)
    \/ DenyInvalidate(q)

Next ==
    \/ \E q \in Request : Serve(q) \/ Administer(q)
    \/ \E u \in User, g \in Group : AdminGroupAdd(u, g)
    \/ \E u \in OutOfBand, g \in Group : LeaveOutOfBand(u, g)
    \/ \E ps \in Asserted : OpenScopeAsserted(ps)
    \/ \E r \in Replica : Restart(r)
    \/ Tick

Spec == Init /\ [][Next]_vars

-----------------------------------------------------------------------------
(* Properties *)

\* How long a cached lookup may lag the database: the entry's life plus the
\* time between the query that answered it and its insertion.
Lag == CacheTTL + Flight

Done(q) == pc[q] = "done"

\* A principal on the durable deny list for longer than Lag is in no compiled
\* scope and in no minted handle, on any replica, whatever the handle's age:
\* the union with revoked_set in subtract is unconditional.
DurableDenied ==
    \A q \in Request : Done(q) =>
        \A t \in principals[q] :
            ~(revoked[t].active /\ job[q].began - revoked[t].since >= Lag)

\* Token t is dropped when some tombstone of t is at or after the cutoff (the
\* handle's issued_at on a read, the start of the window at a mint) and was
\* committed Lag before the request began.  On a read this lasts for the whole
\* life of the handle, since retention outlasts it.  It needs that no tombstone
\* of t is before the cutoff: the query keeps only min(at) per token.
FirstTombstoneBites ==
    \A q \in Request : Done(q) =>
        \A t \in principals[q], r \in revocations :
            /\ r.token = t
            /\ r.at >= cutoff[q]
            /\ job[q].began - r.seen >= Lag
            => \E s \in revocations : s.token = t /\ s.at < cutoff[q]

\* A handle minted for a subject holds no token of which a tombstone was
\* recorded within the window before the mint, once the tombstone has been
\* committed for Lag and a flight; the same proviso on earlier tombstones.
WindowedMint ==
    \A h \in handles : h.subject # NoUser =>
        \A t \in h.principals, r \in revocations :
            /\ r.token = t
            /\ r.at >= h.issued_at - Window
            /\ h.issued_at - r.seen >= Lag + Flight
            => \E s \in revocations : s.token = t /\ s.at < h.issued_at - Window

\* A fenced read serves no group the subject had left before the read began,
\* by whatever client the tuple was deleted and with no tombstone at all.
FencedReadCurrent ==
    \A q \in Request : Done(q) /\ job[q].op = "fenced" =>
        \A t \in principals[q] \ {job[q].subject} :
            \/ t \in UserGroups(job[q].subject)
            \/ \E d \in left : /\ d.user = job[q].subject /\ t \in Up[d.group]
                               /\ d.at >= job[q].began

\* The doc of subtract: a token is dropped iff "SOME retained tombstone for it
\* has `at >= issued_at`".
SomeTombstoneBites ==
    \A q \in Request : Done(q) /\ job[q].op = "read" =>
        \A t \in principals[q], r \in revocations :
            ~ /\ r.token = t
              /\ r.at >= cutoff[q]
              /\ job[q].began - r.seen >= Lag

\* admin_group_remove writes tombstones first so that it "over-hides, never
\* under-hides": a user whose removals were all committed at least Lag ago and
\* who no longer reaches a group is not served that group's token.
RemovedMemberHidden ==
    \A q \in Request : Done(q) /\ job[q].op = "read" =>
        \A t \in principals[q] :
            LET lost == {r \in revocations :
                           r.principal = job[q].subject /\ r.token = t}
            IN  /\ lost # {}
                /\ \A r \in lost : job[q].began - r.seen >= Lag
                => t \in UserGroups(job[q].subject)

\* The same where requests do not overlap and t was removed once: what a user
\* reached only through the ancestors of the group left is hidden too.
LostGroupHidden ==
    \A q \in Request : Done(q) /\ job[q].op = "read" =>
        \A t \in principals[q], r \in revocations :
            /\ r.principal = job[q].subject /\ r.token = t
            /\ job[q].began - r.seen >= Lag
            /\ \A s \in revocations : s.token = t => s = r
            => t \in UserGroups(job[q].subject)

\* revoke_principal and record invalidate the local entry so that same-process
\* reads exclude the token "immediately": no live entry of a replica misses a
\* committed revocation once the handler is past its invalidation.
LocalCacheCurrent ==
    \A r \in Replica :
        /\ \A q \in Request : pc[q] # "invalidate"
        /\ Live(revCache[r])
        => Active \subseteq revCache[r].val

\* A token is dropped only for cause: a tombstone at or after the cutoff, or a
\* durable denial that held within the last Lag; the fence also drops all of a
\* handle without a subject.  In particular a revocation older than a handle
\* never bites it, and a reinstated principal is served again.
GrantsSurvive ==
    [][\A q \in Request :
         ~Done(q) /\ Done(q)' =>
            \A t \in principals[q] \ principals'[q] :
                \/ \E r \in revocations : r.token = t /\ r.at >= cutoff'[q]
                \/ revoked[t].active
                \/ now - revoked[t].since < Lag
                \/ job'[q].op = "fenced" /\ job[q].subject = NoUser]_vars

=============================================================================
