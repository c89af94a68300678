----------------------------- MODULE RebacWatch -----------------------------
(***************************************************************************)
(* The consumer of SpiceDB's Watch stream (rebac_watch.rs) and its leader  *)
(* election (watch_leader.rs): every replica runs the loop `run`; the      *)
(* holder of a session advisory lock resumes the stream from the durable   *)
(* cursor, writes tombstones for membership DELETEs and advances the       *)
(* cursor; the others mirror its heartbeat.  The status each replica keeps *)
(* decides whether its reads are fenced.                                   *)
(***************************************************************************)
EXTENDS Integers, Sequences, FiniteSets

CONSTANTS
    Proc,        \* replicas
    Group,       \* groups; a group stands for its token
    Up,          \* [Group -> SUBSET Group]: a group and its ancestors
    Dedupe,      \* DEDUPE_SECS
    Fresh,       \* FOLLOWER_LEADER_FRESH_SECS
    Bound,       \* the staleness fence
    MaxTime,     \* bound: the clock stops here
    MaxLog,      \* bound: changes in SpiceDB
    MaxFaults,   \* bound: outages, lost connections, errors, panics, restarts
    Collected    \* bound: the datastore GC stays below this revision

None == "none"
NoCursor == -1
Never == -1

ASSUME WatchAssumption ==
    /\ Up \in [Group -> SUBSET Group]
    /\ None \notin Proc
    /\ Dedupe \in Nat /\ Fresh \in Nat /\ Bound \in Nat
    /\ MaxTime \in Nat /\ MaxLog \in Nat /\ MaxFaults \in Nat /\ Collected \in Nat

VARIABLES
    now,          \* wall clock
    faults,       \* faults so far
    (* SpiceDB *)
    log,          \* changes; a revision is an index
    gc,           \* revisions before this one can no longer be resumed from
    up,           \* whether the replicas reach it
    (* PostgreSQL *)
    tombs,        \* table `revocations`
    cursor,       \* table `rebac_watch_cursor`
    beat,         \* watch_leader.heartbeat_at
    holder,       \* whose session holds the advisory lock
    (* each replica *)
    pc,           \* where `run` is
    start,        \* the cursor it loaded
    pos,          \* the last revision its stream is past; NoCursor: not issued
    connected, degraded, advance,  \* WatchStatus
    (* history *)
    skipped,      \* revisions passed over by a stream anchored at head
    anchor,       \* the first such anchor
    served        \* when each replica last had an answer from SpiceDB

spicedb == <<log, gc, up>>
tables == <<tombs, cursor, beat>>
status == <<connected, degraded, advance>>
loop == <<pc, start, pos>>
history == <<skipped, anchor, served>>
vars == <<now, faults, spicedb, tables, holder, loop, status, history>>

Point == {"elect", "load", "connect", "stream", "store"}

Change == [kind : {"grant", "delete"}, group : Group, at : Nat]

Tombstone == [token : Group, at : Nat]

TypeOK ==
    /\ now \in Nat /\ faults \in Nat
    /\ log \in Seq(Change) /\ gc \in Nat /\ up \in BOOLEAN
    /\ tombs \subseteq Tombstone
    /\ cursor \in Int /\ beat \in Int
    /\ holder \in Proc \union {None}
    /\ pc \in [Proc -> Point]
    /\ start \in [Proc -> Int] /\ pos \in [Proc -> Int]
    /\ connected \in [Proc -> BOOLEAN] /\ degraded \in [Proc -> BOOLEAN]
    /\ advance \in [Proc -> Int]
    /\ skipped \subseteq Nat /\ anchor \in Int /\ served \in [Proc -> Nat]

-----------------------------------------------------------------------------
\* WatchStatus::is_stale.
Stale(p) ==
    \/ degraded[p] \/ ~connected[p]
    \/ advance[p] = Never \/ now - advance[p] > Bound

\* dedupe_lost: tokens without a tombstone in the last DEDUPE_SECS.
FreshTokens(g) ==
    {t \in Up[g] : ~\E e \in tombs : e.token = t /\ e.at > now - Dedupe}

Stamp(S) == {[token |-> t, at |-> now] : t \in S}

\* Tombstones stand for the change at revision r.
Materialised(r) ==
    /\ r <= Len(log)
    /\ log[r].kind = "delete" =>
         \A t \in Up[log[r].group] :
            \E e \in tombs : e.token = t /\ e.at >= log[r].at - Dedupe

-----------------------------------------------------------------------------
Init ==
    /\ now = 0 /\ faults = 0
    /\ log = <<>> /\ gc = 0 /\ up = TRUE
    /\ tombs = {} /\ cursor = NoCursor /\ beat = -Fresh
    /\ holder = None
    /\ pc = [p \in Proc |-> "elect"]
    /\ start = [p \in Proc |-> NoCursor]
    /\ pos = [p \in Proc |-> NoCursor]
    /\ connected = [p \in Proc |-> FALSE]
    /\ degraded = [p \in Proc |-> FALSE]
    /\ advance = [p \in Proc |-> Never]
    /\ skipped = {} /\ anchor = NoCursor /\ served = [p \in Proc |-> 0]

Goto(p, point) == pc' = [pc EXCEPT ![p] = point]

\* set_connected and mark_advance.
SetConnected(p, on) == connected' = [connected EXCEPT ![p] = on]
MarkAdvance(p) == advance' = [advance EXCEPT ![p] = now]
Vouch(p) == SetConnected(p, TRUE) /\ MarkAdvance(p)

Served(p) == served' = [served EXCEPT ![p] = now]

\* Mutant: the locked connection goes back to the pool.
RelinquishLeaking(p) ==
    /\ Goto(p, "elect")
    /\ UNCHANGED holder
    /\ start' = [start EXCEPT ![p] = NoCursor]
    /\ pos' = [pos EXCEPT ![p] = NoCursor]

\* The guard is dropped and the loop starts over; a lock whose session is
\* already gone is not this replica's to release.
Relinquish(p) ==
    /\ Goto(p, "elect")
    /\ holder' = IF holder = p THEN None ELSE holder
    /\ start' = [start EXCEPT ![p] = NoCursor]
    /\ pos' = [pos EXCEPT ![p] = NoCursor]

Fault == faults < MaxFaults /\ faults' = faults + 1

-----------------------------------------------------------------------------
(* Election *)

\* WatchLeadership::try_acquire, then a heartbeat whose failure is ignored.
Acquire(p) ==
    /\ pc[p] = "elect" /\ holder = None
    /\ holder' = p
    /\ \/ beat' = now /\ UNCHANGED faults
       \/ Fault /\ UNCHANGED beat
    /\ Goto(p, "load")
    /\ UNCHANGED <<now, spicedb, tombs, cursor, start, pos, status, history>>

\* Mutant: a follower trusts any heartbeat.
FollowBlindly(p) ==
    /\ pc[p] = "elect" /\ holder \notin {None, p}
    /\ Vouch(p)
    /\ UNCHANGED <<now, faults, spicedb, tables, holder, loop, degraded, history>>

\* follower_freshness_from_leader.
Follow(p) ==
    /\ pc[p] = "elect" /\ holder \notin {None, p}
    /\ beat > now - Fresh
    /\ Vouch(p)
    /\ UNCHANGED <<now, faults, spicedb, tables, holder, loop, degraded, history>>

LoadCursor(p) ==
    /\ pc[p] = "load"
    /\ start' = [start EXCEPT ![p] = cursor]
    /\ Goto(p, "connect")
    /\ UNCHANGED <<now, faults, spicedb, tables, holder, pos, status, history>>

LoadFails(p) ==
    /\ pc[p] = "load" /\ Fault
    /\ Relinquish(p)
    /\ UNCHANGED <<now, spicedb, tables, status, history>>

-----------------------------------------------------------------------------
(* Connecting *)

\* The first poll of watch_connect sends the request; without a cursor the
\* stream is anchored at head.
Issue(p) ==
    /\ pc[p] = "connect" /\ pos[p] = NoCursor /\ up
    /\ LET head == Len(log)
       IN  IF start[p] # NoCursor
           THEN pos' = [pos EXCEPT ![p] = start[p]] /\ UNCHANGED history
           ELSE /\ pos' = [pos EXCEPT ![p] = head]
                /\ skipped' = skipped \union {r \in 1..head : ~Materialised(r)}
                /\ anchor' = IF anchor = NoCursor THEN head ELSE anchor
                /\ UNCHANGED served
    /\ UNCHANGED <<now, faults, spicedb, tables, holder, pc, start, status>>

\* The prime ticker: a probe answered vouches for the replica and beats; a
\* failed beat abandons the attempt, with `connected` as the probe left it.
Probe(p) ==
    /\ pc[p] = "connect" /\ up
    /\ Vouch(p) /\ Served(p)
    /\ \/ holder = p /\ beat' = now /\ UNCHANGED <<faults, holder, loop>>
       \/ holder # p /\ Relinquish(p) /\ UNCHANGED <<faults, beat>>
       \/ holder = p /\ Fault /\ Relinquish(p) /\ UNCHANGED beat
    /\ UNCHANGED <<now, spicedb, tombs, cursor, degraded, skipped, anchor>>

ProbeFails(p) ==
    /\ pc[p] = "connect" /\ ~up
    /\ SetConnected(p, FALSE)
    /\ UNCHANGED <<now, faults, spicedb, tables, holder, loop, degraded, advance, history>>

\* An idle datastore withholds even the response headers.
ConnectOk(p) ==
    /\ pc[p] = "connect" /\ up /\ pos[p] # NoCursor
    /\ pos[p] < Len(log)
    /\ Vouch(p) /\ Served(p)
    /\ Goto(p, "stream")
    /\ UNCHANGED <<now, faults, spicedb, tables, holder, start, pos, degraded, skipped,
                   anchor>>

\* mark_gap.
Gap(p) == degraded' = [degraded EXCEPT ![p] = TRUE] /\ Relinquish(p)

\* An API error while a cursor was sent: a collected revision, or any other.
\* A clear_cursor that fails is ignored.
ConnectRefused(p) ==
    /\ pc[p] = "connect" /\ up /\ pos[p] # NoCursor /\ start[p] # NoCursor
    /\ \/ pos[p] < gc /\ cursor' = NoCursor /\ UNCHANGED faults
       \/ Fault /\ cursor' \in {cursor, NoCursor}
    /\ Gap(p)
    /\ UNCHANGED <<now, spicedb, tombs, beat, connected, advance, history>>

\* Any other error: `connected` keeps its value.
ConnectFails(p) ==
    /\ pc[p] = "connect"
    /\ \/ ~up /\ UNCHANGED faults
       \/ start[p] = NoCursor /\ Fault
    /\ Relinquish(p)
    /\ UNCHANGED <<now, spicedb, tables, status, history>>

-----------------------------------------------------------------------------
(* Streaming *)

\* Mutant: the cursor is stored before the deletes are recorded.
ApplyDeleteLate(p) ==
    /\ pc[p] \in {"stream", "store"} /\ up
    /\ gc <= pos[p] /\ pos[p] < Len(log)
    /\ pos' = [pos EXCEPT ![p] = @ + 1]
    /\ cursor' = pos[p] + 1
    /\ Goto(p, "store")
    /\ UNCHANGED <<now, faults, spicedb, tombs, beat, holder, start, status, history>>

\* apply_delete for a change of a frame; pc = "store" while a frame is handled.
ApplyDelete(p) ==
    /\ pc[p] \in {"stream", "store"} /\ up
    /\ gc <= pos[p] /\ pos[p] < Len(log)
    /\ LET c == log[pos[p] + 1]
       IN  tombs' = tombs \union
             IF c.kind = "delete" THEN Stamp(FreshTokens(c.group)) ELSE {}
    /\ pos' = [pos EXCEPT ![p] = @ + 1]
    /\ Goto(p, "store")
    /\ UNCHANGED <<now, faults, spicedb, cursor, beat, holder, start, status, history>>

\* The end of a frame: store_cursor, then mark_advance.
StoreCursor(p) ==
    /\ pc[p] = "store"
    /\ cursor' = pos[p]
    /\ MarkAdvance(p) /\ Served(p)
    /\ Goto(p, "stream")
    /\ UNCHANGED <<now, faults, spicedb, tombs, beat, holder, start, pos, connected, degraded,
                   skipped, anchor>>

\* The ticker of consume_while_leading: a failed beat means the lock is lost.
Heartbeat(p) ==
    /\ pc[p] \in {"stream", "store"}
    /\ \/ /\ holder = p /\ beat' = now /\ MarkAdvance(p)
          /\ UNCHANGED <<holder, loop, connected>>
       \/ /\ holder # p /\ SetConnected(p, FALSE) /\ Relinquish(p)
          /\ UNCHANGED <<beat, advance>>
    /\ UNCHANGED <<now, faults, spicedb, tombs, cursor, degraded, history>>

\* The stream closes, breaks, carries an error, or a delta or the cursor
\* cannot be written.
StreamEnds(p) ==
    /\ pc[p] \in {"stream", "store"}
    /\ (~up /\ UNCHANGED faults) \/ Fault
    /\ SetConnected(p, FALSE) /\ Relinquish(p)
    /\ UNCHANGED <<now, spicedb, tables, degraded, advance, history>>

\* An error frame says the cursor is unresumable.
StreamGap(p) ==
    /\ pc[p] = "stream" /\ up /\ pos[p] < gc
    /\ SetConnected(p, FALSE) /\ Gap(p)
    /\ \/ cursor' = NoCursor /\ UNCHANGED faults
       \/ Fault /\ UNCHANGED cursor
    /\ UNCHANGED <<now, spicedb, tombs, beat, advance, history>>

-----------------------------------------------------------------------------
(* The environment *)

\* The task panics: the supervisor respawns `run`, the status stays.
Panic(p) ==
    /\ pc[p] # "elect" /\ Fault
    /\ Relinquish(p)
    /\ UNCHANGED <<now, spicedb, tables, status, history>>

\* The replica restarts: its session and its status are gone.  Startup fails
\* unless a probe is answered.
Restart(p) ==
    /\ up /\ Fault
    /\ Relinquish(p)
    /\ SetConnected(p, FALSE)
    /\ degraded' = [degraded EXCEPT ![p] = FALSE]
    /\ advance' = [advance EXCEPT ![p] = Never]
    /\ Served(p)
    /\ UNCHANGED <<now, spicedb, tables, skipped, anchor>>

\* The session of the lock is lost unnoticed.
LoseSession(p) ==
    /\ holder = p /\ Fault
    /\ holder' = None
    /\ UNCHANGED <<now, spicedb, tables, loop, status, history>>

\* A tuple is written or deleted, by whatever client.
Commit(kind, g) ==
    /\ Len(log) < MaxLog
    /\ log' = Append(log, [kind |-> kind, group |-> g, at |-> now])
    /\ UNCHANGED <<now, faults, gc, up, tables, holder, loop, status, history>>

\* admin_group_remove: its tombstones precede the delete it commits.
AdminRecord(g) ==
    /\ Len(log) < MaxLog
    /\ tombs' = tombs \union Stamp(Up[g])
    /\ UNCHANGED <<now, faults, spicedb, cursor, beat, holder, loop, status, history>>

Collect ==
    /\ gc < Len(log) /\ gc < Collected
    /\ gc' = gc + 1
    /\ UNCHANGED <<now, faults, log, up, tables, holder, loop, status, history>>

GoDown ==
    /\ up /\ Fault
    /\ up' = FALSE
    /\ UNCHANGED <<now, log, gc, tables, holder, loop, status, history>>

ComeUp ==
    /\ ~up
    /\ up' = TRUE
    /\ UNCHANGED <<now, faults, log, gc, tables, holder, loop, status, history>>

Tick ==
    /\ now < MaxTime
    /\ now' = now + 1
    /\ UNCHANGED <<faults, spicedb, tables, holder, loop, status, history>>

-----------------------------------------------------------------------------
\* What a replica does by itself.
Step(p) ==
    \/ Acquire(p) \/ Follow(p) \/ LoadCursor(p)
    \/ Issue(p) \/ Probe(p) \/ ProbeFails(p) \/ ConnectOk(p)
    \/ ConnectRefused(p) \/ ConnectFails(p)
    \/ ApplyDelete(p) \/ StoreCursor(p) \/ Heartbeat(p)
    \/ StreamEnds(p) \/ StreamGap(p)

Upset(p) == LoadFails(p) \/ Panic(p) \/ Restart(p) \/ LoseSession(p)

Next ==
    \/ \E p \in Proc : Step(p) \/ Upset(p)
    \/ \E g \in Group : Commit("grant", g) \/ Commit("delete", g) \/ AdminRecord(g)
    \/ Collect \/ GoDown \/ ComeUp \/ Tick

Spec == Init /\ [][Next]_vars

\* SpiceDB comes back; every await of a replica's loop that can return does.
Fairness ==
    /\ WF_vars(ComeUp)
    /\ \A p \in Proc :
         /\ WF_vars(Acquire(p)) /\ WF_vars(LoadCursor(p)) /\ WF_vars(Issue(p))
         /\ WF_vars(ConnectOk(p)) /\ WF_vars(ConnectRefused(p))
         /\ WF_vars(ApplyDelete(p)) /\ WF_vars(StoreCursor(p)) /\ WF_vars(Heartbeat(p))
         /\ WF_vars(StreamGap(p))

FairSpec == Spec /\ Fairness

-----------------------------------------------------------------------------
(* Properties *)

\* The cursor is stored only after a frame's deletes are recorded: nothing at
\* or before it is missing, whichever replicas wrote it, zombies included,
\* except what a stream anchored at head passed over.
CursorCovers ==
    \A r \in 1..cursor : Materialised(r) \/ r \in skipped

\* A replica that does not fence has, within the bounds, the beat of a leader
\* or an answer of SpiceDB to itself: a leader that hangs with its lock cannot
\* keep the followers fresh.
UnfencedHasLeader ==
    \A p \in Proc : ~Stale(p) =>
        \/ now - beat <= Bound + Fresh
        \/ now - served[p] <= Bound

\* Every deletion is materialised in the end, by whichever replica leads,
\* unless a stream anchored at head has passed it over.
EveryDeleteHandled ==
    \A r \in 1..MaxLog : r <= Len(log) ~> (Materialised(r) \/ r \in skipped)

\* "Processing failures never ack-and-drop": once a stream has been anchored,
\* errors reconnect and replay.
NeverDropped == \A r \in skipped : r <= anchor

\* A "follower whose leader is heartbeating recently is materially fresh": a
\* replica that does not fence has had an answer from SpiceDB, through some
\* replica, within the bounds.
UnfencedReached ==
    \A p \in Proc : ~Stale(p) => \E q \in Proc : now - served[q] <= Bound + Fresh

\* "a probe error clears `connected`, so the fence trips exactly as a genuine
\* outage should": a replica that runs alone and has given its stream up is not
\* marked connected.
DownIsDisconnected ==
    \A p \in Proc : Proc = {p} /\ pc[p] = "elect" => ~connected[p]

\* A removal seen on the stream "takes effect on the very next read": every
\* handle minted after a grant and before the deletion has a tombstone that is
\* not older than the grant.
DeletionBites ==
    \A r \in 1..cursor : log[r].kind = "delete" /\ r \notin skipped =>
        \A i \in 1..(r - 1) : log[i].kind = "grant" /\ log[i].group = log[r].group =>
            \E e \in tombs : e.token = log[r].group /\ e.at >= log[i].at

=============================================================================
