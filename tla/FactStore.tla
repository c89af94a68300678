------------------------------ MODULE FactStore ------------------------------
(***************************************************************************)
(* The bi-temporal fact store: the rows of one key of table `facts`        *)
(* (PostgresAdapter), the in-process cache in front of them                *)
(* (CachedAdapter), the change-data events that write and retire facts     *)
(* (ingest_debezium), forgetting, and corrections of a fact's ACL          *)
(* (dispatch_acl_correction).  Events come late, twice and out of order.   *)
(* A handler is a request slot and stops at every await of the code; a     *)
(* transaction of the database is one step: upsert_fact locks the current  *)
(* row and the partial unique index refuses the loser of a race.           *)
(***************************************************************************)
EXTENDS Integers, Sequences

CONSTANTS
    Process,      \* server processes, each with its own CachedAdapter
    Request,      \* request slots
    Home,         \* [Request -> Process]
    Value,        \* values of the field
    Principal,    \* principal tokens
    EventAcls,    \* the ACLs events carry, or the policy bound to the connector
    NewAcls,      \* the ACLs corrections carry
    Scope,        \* the scopes readers hold: [principals, ceiling]
    Removable,    \* whether the entity is deleted or its episodes forgotten
    Droppable,    \* slots whose handler may fail or be dropped midway
    MaxTime,      \* bound: the clock stops here
    MaxRows       \* bound: rows of the key

Open == -1        \* valid_to IS NULL
None == 0         \* no row id

ASSUME FactAssumption ==
    /\ Home \in [Request -> Process]
    /\ EventAcls \union NewAcls
         \subseteq [visibility : SUBSET Principal, confidentiality : Nat]
    /\ Scope \subseteq [principals : SUBSET Principal, ceiling : Nat]
    /\ Removable \in BOOLEAN
    /\ Droppable \subseteq Request
    /\ MaxTime \in Nat \ {0} /\ MaxRows \in Nat

VARIABLES
    now,        \* clock of the database
    facts,      \* rows of the key in insertion order; the index is the id
    removed,    \* ids closed by a deletion or a forget (history)
    newest,     \* the values of the latest upsert events so far (history)
    cache,      \* CachedAdapter.facts of each process
    pc,         \* the await each handler is at
    held        \* what a handler carries over an await

store == <<facts, removed, newest>>
slots == <<pc, held>>
vars == <<now, store, cache, slots>>

-----------------------------------------------------------------------------
(* Types *)

Time == Nat

Acl == [visibility : SUBSET Principal, confidentiality : Nat]

Row == [value : Value, valid_from : Time, valid_to : Time \union {Open},
        superseded_by : Nat, acl : Acl]

NoAcl == [visibility |-> {}, confidentiality |-> 0]

\* What the cache keeps of a row: a copy taken when it was current.
Copy == [id : Nat, acl : Acl]
NoCopy == [id |-> None, acl |-> NoAcl]

Point == {"idle", "query", "fill", "flush", "correct"}

TypeOK ==
    /\ now \in Time
    /\ facts \in Seq(Row)
    /\ removed \subseteq 1..Len(facts)
    /\ newest \in [at : Time, values : SUBSET Value]
    /\ cache \in [Process -> Copy]
    /\ \A p \in Process : cache[p].id <= Len(facts)
    /\ pc \in [Request -> Point]
    /\ held \in [Request -> Copy]
    /\ \A q \in Request : pc[q] = "fill" => held[q].id \in 1..Len(facts)

-----------------------------------------------------------------------------
(* The rows *)

Ids == 1..Len(facts)

Current == {i \in Ids : facts[i].valid_to = Open}

\* fact_visible and the SQL predicate it mirrors; entity fences are left out.
Visible(s, acl) ==
    /\ s.principals \intersect acl.visibility # {}
    /\ acl.confidentiality <= s.ceiling

\* The rows fact_as_of orders by valid_from; it answers the greatest.
AliveAt(x, t) == x.valid_from <= t /\ (x.valid_to = Open \/ x.valid_to > t)

NewRow(v, from, to, acl) ==
    [value |-> v, valid_from |-> from, valid_to |-> to,
     superseded_by |-> None, acl |-> acl]

Closed(x, t, by) ==
    [value |-> x.value, valid_from |-> x.valid_from, valid_to |-> t,
     superseded_by |-> by, acl |-> x.acl]

Relabelled(x, acl) ==
    [value |-> x.value, valid_from |-> x.valid_from, valid_to |-> x.valid_to,
     superseded_by |-> x.superseded_by, acl |-> acl]

\* UPDATE facts SET valid_to = t, on the given rows.
Close(rows, S, t, by) ==
    [i \in DOMAIN rows |-> IF i \in S THEN Closed(rows[i], t, by) ELSE rows[i]]

-----------------------------------------------------------------------------
(* Events: ingest_debezium through CachedAdapter *)

Init ==
    /\ now = 1
    /\ facts = <<>> /\ removed = {} /\ newest = [at |-> 0, values |-> {}]
    /\ cache = [p \in Process |-> NoCopy]
    /\ pc = [q \in Request |-> "idle"]
    /\ held = [q \in Request |-> NoCopy]

Goto(q, at, h) ==
    /\ pc' = [pc EXCEPT ![q] = at]
    /\ held' = [held EXCEPT ![q] = h]

\* History: what the source said last.
Note(v, at) ==
    newest' = [at |-> IF at > newest.at THEN at ELSE newest.at,
               values |-> CASE at > newest.at -> {v}
                            [] at = newest.at -> newest.values \union {v}
                            [] OTHER -> newest.values]

\* No current row: the value becomes current, whatever its event time.
Inserted(v, at, acl) ==
    /\ Current = {}
    /\ facts' = Append(facts, NewRow(v, at, Open, acl))

\* The value is current already: nothing is written, not even the time.
Unchanged(v) ==
    /\ \E i \in Current : facts[i].value = v
    /\ UNCHANGED facts

\* Mutant of StaleEvent: a late event ends where it begins.
StaleEventEmpty(v, at, acl) ==
    \E i \in Current :
       /\ facts[i].value # v /\ at <= facts[i].valid_from
       /\ facts' = Append(facts, NewRow(v, at, at, acl))

\* A late event becomes history that ends where the current row begins.
StaleEvent(v, at, acl) ==
    \E i \in Current :
       /\ facts[i].value # v /\ at <= facts[i].valid_from
       /\ facts' = Append(facts, NewRow(v, at, facts[i].valid_from, acl))

\* Mutant of Superseded: a repeated value is not recognised.
SupersededSameValue(v, at, acl) ==
    \E i \in Current :
       /\ at > facts[i].valid_from
       /\ facts' = Append(Close(facts, {i}, at, Len(facts) + 1), NewRow(v, at, Open, acl))

\* Mutant of Superseded: the old row stays current.
SupersededKeepsOld(v, at, acl) ==
    \E i \in Current :
       /\ facts[i].value # v /\ at > facts[i].valid_from
       /\ facts' = Append(facts, NewRow(v, at, Open, acl))

Superseded(v, at, acl) ==
    \E i \in Current :
       /\ facts[i].value # v /\ at > facts[i].valid_from
       /\ facts' = Append(Close(facts, {i}, at, Len(facts) + 1), NewRow(v, at, Open, acl))

\* An event applied; the cache is flushed after the commit, if it must be.
UpsertFact(q, v, at, acl) ==
    /\ pc[q] = "idle" /\ at <= now
    /\ Len(facts) < MaxRows
    /\ \/ (Inserted(v, at, acl) \/ Superseded(v, at, acl)) /\ Goto(q, "flush", NoCopy)
       \/ (Unchanged(v) \/ StaleEvent(v, at, acl)) /\ UNCHANGED slots
    /\ Note(v, at)
    /\ UNCHANGED <<now, removed, cache>>

\* Mutant of RetireEntity: valid_to IS NULL is dropped from the update.
RetireAllRows(q, at) ==
    /\ pc[q] = "idle" /\ Removable /\ at <= now /\ Current # {}
    /\ facts' = Close(facts, Ids, at, None)
    /\ removed' = removed \union Current
    /\ Goto(q, "flush", NoCopy)
    /\ UNCHANGED <<now, newest, cache>>

\* Debezium delete: closes whatever is current at the event's time.
RetireEntity(q, at) ==
    /\ pc[q] = "idle" /\ Removable /\ at <= now /\ Current # {}
    /\ facts' = Close(facts, Current, at, None)
    /\ removed' = removed \union Current
    /\ Goto(q, "flush", NoCopy)
    /\ UNCHANGED <<now, newest, cache>>

\* The episode a current row came from is forgotten.
Forget(q) ==
    /\ pc[q] = "idle" /\ Removable /\ Current # {}
    /\ facts' = Close(facts, Current, now, None)
    /\ removed' = removed \union Current
    /\ Goto(q, "flush", NoCopy)
    /\ UNCHANGED <<now, newest, cache>>

Flush(q) ==
    /\ pc[q] = "flush"
    /\ cache' = [cache EXCEPT ![Home[q]] = NoCopy]
    /\ Goto(q, "idle", NoCopy)
    /\ UNCHANGED <<now, store>>

-----------------------------------------------------------------------------
(* Reads: CachedAdapter::current_fact.  A hit changes nothing. *)

\* What a hit answers scope s.
Hit(p, s) == cache[p].id # None /\ Visible(s, cache[p].acl)

Miss(q) ==
    /\ pc[q] = "idle" /\ cache[Home[q]].id = None
    /\ Goto(q, "query", NoCopy)
    /\ UNCHANGED <<now, store, cache>>

\* Mutant of Query: valid_to IS NULL is dropped from the query.
QueryAnyRow(q, s) ==
    LET seen == {i \in Ids : Visible(s, facts[i].acl)}
    IN  /\ pc[q] = "query"
        /\ \/ seen = {} /\ Goto(q, "idle", NoCopy)
           \/ \E i \in seen : Goto(q, "fill", [id |-> i, acl |-> facts[i].acl])
        /\ UNCHANGED <<now, store, cache>>

\* The store answers a row the scope may see, or nothing, which is not cached.
Query(q, s) ==
    LET seen == {i \in Current : Visible(s, facts[i].acl)}
    IN  /\ pc[q] = "query"
        /\ \/ seen = {} /\ Goto(q, "idle", NoCopy)
           \/ \E i \in seen : Goto(q, "fill", [id |-> i, acl |-> facts[i].acl])
        /\ UNCHANGED <<now, store, cache>>

Fill(q) ==
    /\ pc[q] = "fill"
    /\ cache' = [cache EXCEPT ![Home[q]] = held[q]]
    /\ Goto(q, "idle", NoCopy)
    /\ UNCHANGED <<now, store>>

-----------------------------------------------------------------------------
(* ACL corrections: dispatch_acl_correction, below the cache *)

\* An un-share is clamped up to the class of the current row, read first; an
\* administrator's correction is not.
AclChange(q, acl, unshare) ==
    /\ pc[q] = "idle"
    /\ LET low == unshare /\ \E i \in Current : facts[i].acl.confidentiality > acl.confidentiality
       IN  \/ ~low /\ Goto(q, "correct", [id |-> None, acl |-> acl])
          \/ \E i \in Current :
                /\ low
                /\ Goto(q, "correct", [id |-> None,
                     acl |-> [visibility |-> acl.visibility,
                              confidentiality |-> facts[i].acl.confidentiality]])
    /\ UNCHANGED <<now, store, cache>>

\* Every row of the key, history included; an unknown key is a 404.
CorrectFactAcl(q) ==
    /\ pc[q] = "correct"
    /\ facts' = [i \in Ids |-> Relabelled(facts[i], held[q].acl)]
    /\ Goto(q, "idle", NoCopy)
    /\ UNCHANGED <<now, removed, newest, cache>>

-----------------------------------------------------------------------------
(* Environment *)

\* A failed query or a dropped handler: what it has not done, it never does.
Drop(q) ==
    /\ q \in Droppable /\ pc[q] # "idle"
    /\ Goto(q, "idle", NoCopy)
    /\ UNCHANGED <<now, store, cache>>

Restart(p) ==
    /\ cache' = [cache EXCEPT ![p] = NoCopy]
    /\ pc' = [q \in Request |-> IF Home[q] = p THEN "idle" ELSE pc[q]]
    /\ held' = [q \in Request |-> IF Home[q] = p THEN NoCopy ELSE held[q]]
    /\ UNCHANGED <<now, store>>

Tick ==
    /\ now < MaxTime
    /\ now' = now + 1
    /\ UNCHANGED <<store, cache, slots>>

Handle(q) ==
    \/ \E v \in Value, at \in 1..now, acl \in EventAcls : UpsertFact(q, v, at, acl)
    \/ \E at \in 1..now : RetireEntity(q, at)
    \/ Forget(q) \/ Flush(q)
    \/ Miss(q) \/ (\E s \in Scope : Query(q, s)) \/ Fill(q)
    \/ \E acl \in NewAcls, unshare \in BOOLEAN : AclChange(q, acl, unshare)
    \/ CorrectFactAcl(q) \/ Drop(q)

Next ==
    \/ \E q \in Request : Handle(q)
    \/ \E p \in Process : Restart(p)
    \/ Tick

Spec == Init /\ [][Next]_vars

-----------------------------------------------------------------------------
(* Properties *)

\* A late event never becomes current truth (upsert_fact): the current row is
\* the latest recorded one, unless something at least as late was deleted or
\* forgotten.
LatestRecordedWins ==
    \A i \in Current, j \in Ids :
       \/ facts[j].valid_from <= facts[i].valid_from
       \/ \E k \in removed : facts[k].valid_from >= facts[j].valid_from

\* fact_as_of asks for the greatest valid_from alive at an instant: no value
\* recorded for an instant drops out of it, however late and in whatever order
\* events came, unless a later value covers it or it was deleted or forgotten.
HistoryHasNoHoles ==
    \A t \in 1..MaxTime, i \in Ids \ removed :
       facts[i].valid_from <= t =>
          \/ AliveAt(facts[i], t)
          \/ \E j \in Ids :
                /\ facts[j].valid_from \in facts[i].valid_from..t
                /\ facts[j].valid_from > facts[i].valid_from \/ j < i

\* What a step may do to the rows that are there.
Frozen ==
    \A i \in Ids :
       /\ i \in Ids'
       /\ facts'[i].value = facts[i].value
       /\ facts'[i].valid_from = facts[i].valid_from
       /\ facts[i].valid_to # Open =>
            /\ facts'[i].valid_to = facts[i].valid_to
            /\ facts'[i].superseded_by = facts[i].superseded_by

\* Rows are closed once: value and interval of a closed row never change, and
\* of an open one only its end does; corrections touch the ACL alone.
HistoryFrozen == [][Frozen]_vars

\* A row that is or was current: a late event's row never is.
WasCurrent(i) == facts[i].valid_to = Open \/ facts[i].superseded_by # None \/ i \in removed

\* The cache only ever holds rows that were once current: an event that came
\* late is not served as current truth, even by a stale cache.
CacheWasCurrent == \A p \in Process : cache[p].id # None => WasCurrent(cache[p].id)

\* The row that is current is what is live; every other row is past.
Recorded(S) == {[value |-> facts[i].value, since |-> facts[i].valid_from] : i \in S}

Timeline == INSTANCE FactTimeline WITH
    live <- Recorded(Current), past <- Recorded(Ids \ Current), Instant <- 1..MaxTime

\* upsert_fact, retire_entity, forget and correct_fact_acl implement the
\* timeline: event time only moves forward while a fact is live, a late event
\* is kept and stays out of the way, and corrections change neither.
ImplementsTimeline == Timeline!Spec

\* bitemporal.rs: "A late-arriving older event never clobbers current truth."
\* With nothing deleted or forgotten, the current value is one of the latest
\* event applied.
LateNeverClobbers ==
    removed = {} => \A i \in Current : facts[i].value \in newest.values

\* SPEC 5e.6b: a correction takes effect "immediately on the next read".  With
\* no handler under way, a cached copy of the current row serves nobody whom
\* the row itself refuses.
CorrectionImmediate ==
    (\A q \in Request : pc[q] = "idle") =>
       \A p \in Process, s \in Scope :
          cache[p].id \in Current /\ Hit(p, s) => Visible(s, facts[cache[p].id].acl)

=============================================================================
