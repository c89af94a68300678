---------------------------- MODULE ConnectorSync ----------------------------
(***************************************************************************)
(* Connector crawls of one source: the backfill and continuous-sync        *)
(* endpoints (connectors_admin), the per-schedule loops (sync_scheduler),   *)
(* the owner map of crawl children with its admission lock and detached    *)
(* reaps (connector_worker), and the rows of backfill_run that both the    *)
(* children's progress posts (backfill) and the reaps write.  A task stops *)
(* at every await that another task can be seen through.  The server can   *)
(* crash; its children survive it.                                         *)
(***************************************************************************)
EXTENDS Integers, FiniteSets

CONSTANTS
    Tenant,       \* tenants that crawl the source
    Synced,       \* bound: the tenants that toggle continuous sync
    Request,      \* request slots: POST .../backfill and .../sync
    Loop,         \* bound: interval loops at any one time
    Droppable,    \* slots whose client may hang up
    Crashes,      \* whether the server may crash
    Reports,      \* what a backfill may report
    MaxRuns       \* bound: children ever spawned

Task == Request \union Loop
Child == 1..MaxRuns
Nobody == 0       \* no child: an empty entry of the owner map
NoTask == "none"  \* a lock that is free, an entry that is not armed

\* A backfill reports that it starts, advances, finishes or fails, and signals in
\* the log that it coarsened its ACLs.
Report == {"running", "advance", "completed", "failed", "degraded"}

ASSUME SyncAssumption ==
    /\ Tenant # {} /\ IsFiniteSet(Tenant) /\ Synced \subseteq Tenant
    /\ Request \intersect Loop = {} /\ NoTask \notin Task
    /\ Droppable \subseteq Request /\ Reports \subseteq Report
    /\ Crashes \in BOOLEAN /\ MaxRuns \in Nat

VARIABLES
    up,         \* the server runs
    sched,      \* tenants whose row of sync_schedules is enabled
    armed,      \* SyncPlane.loops
    cancelled,  \* loops whose cancel token fired
    toggling,   \* SyncPlane.admission: the task that holds it
    admitting,  \* ConnectorPlane.admission: the task that holds it
    entry,      \* ConnectorPlane.workers: the child each tenant owns
    pc,         \* the await each task is at
    on,         \* [tenant, mode, child] a task works on
    child,      \* [tenant, mode, state] of each child process
    files,      \* children whose credential file is on disk
    reaper,     \* where each child's detached reap is
    run,        \* backfill_run.state by run id, which is the child
    post,       \* the progress post each child has under way
    log,        \* children that wrote the degraded-ACL signal to the log
    lost,       \* children no server owns any more (history)
    torn,       \* tenants whose toggle was cut between row and loop (history)
    sealed      \* children reconciled with no post under way (history)

plane == <<armed, cancelled, toggling>>
tasks == <<pc, on>>
procs == <<child, files, post, log>>
book == <<entry, reaper, admitting>>
marks == <<lost, torn, sealed>>
vars == <<up, sched, plane, tasks, procs, book, run, marks>>

-----------------------------------------------------------------------------
(* Types *)

Mode == {"backfill", "poll"}
Unborn == "unborn"
NoChild == [tenant |-> NoTask, mode |-> "poll", state |-> Unborn]
NoWork == [tenant |-> NoTask, mode |-> "poll", child |-> Nobody]

Errand == [tenant : Tenant \union {NoTask}, mode : Mode, child : Child \union {Nobody}]
Process == [tenant : Tenant \union {NoTask}, mode : Mode,
            state : {Unborn, "alive", "ok", "failed"}]

Verdict == {"completed", "failed", "degraded_acl"}

Point == {"idle",                                    \* a free slot, a loop that is gone
          "wait",                                    \* a loop between ticks
          "toggle_on", "toggle_off",                 \* waiting for the toggle lock
          "check", "persist", "arm", "unpersist", "disarm",
          "probe", "resolve", "admit", "insert"}

TypeOK ==
    /\ up \in BOOLEAN
    /\ sched \subseteq Tenant /\ torn \subseteq Tenant
    /\ armed \in [Tenant -> Loop \union {NoTask}]
    /\ cancelled \subseteq Loop
    /\ toggling \in Request \union {NoTask}
    /\ admitting \in Task \union {NoTask}
    /\ entry \in [Tenant -> Child \union {Nobody}]
    /\ pc \in [Task -> Point]
    /\ on \in [Task -> Errand]
    /\ child \in [Child -> Process]
    /\ files \subseteq Child /\ log \subseteq Child
    /\ lost \subseteq Child /\ sealed \subseteq Child
    /\ reaper \in [Child -> {"none", "watch", "reconcile", "done"}]
    /\ run \in [Child -> Verdict \union {"none", "running"}]
    /\ post \in [Child -> (Report \ {"degraded"}) \union {"none"}]

Alive(c) == child[c].state = "alive"
Exited(c) == child[c].state \in {"ok", "failed"}
OwnsLive(t) == entry[t] # Nobody /\ Alive(entry[t])

-----------------------------------------------------------------------------
(* Tasks *)

Init ==
    /\ up = TRUE
    /\ sched = {}
    /\ armed = [t \in Tenant |-> NoTask] /\ cancelled = {}
    /\ toggling = NoTask /\ admitting = NoTask
    /\ entry = [t \in Tenant |-> Nobody]
    /\ pc = [k \in Task |-> "idle"] /\ on = [k \in Task |-> NoWork]
    /\ child = [c \in Child |-> NoChild] /\ files = {}
    /\ reaper = [c \in Child |-> "none"]
    /\ run = [c \in Child |-> "none"] /\ post = [c \in Child |-> "none"]
    /\ log = {} /\ lost = {} /\ torn = {} /\ sealed = {}

Goto(k, at) ==
    /\ pc' = [pc EXCEPT ![k] = at]
    /\ UNCHANGED on

Begin(k, at, t, mode) ==
    /\ pc' = [pc EXCEPT ![k] = at]
    /\ on' = [on EXCEPT ![k] = [tenant |-> t, mode |-> mode, child |-> Nobody]]

Holding(k, c) == [tenant |-> on[k].tenant, mode |-> on[k].mode, child |-> c]

\* Mutant of Done: a handler that returns early keeps the toggle lock.
DoneKeepsLock(k) ==
    /\ pc' = [pc EXCEPT ![k] = IF k \in Loop THEN "wait" ELSE "idle"]
    /\ on' = [on EXCEPT ![k] = IF k \in Loop THEN Holding(k, Nobody) ELSE NoWork]
    /\ UNCHANGED toggling

\* What a task does when it is done: a loop waits for its next tick; a handler
\* returns and gives the toggle lock back, if it holds it.
Done(k) ==
    /\ pc' = [pc EXCEPT ![k] = IF k \in Loop THEN "wait" ELSE "idle"]
    /\ on' = [on EXCEPT ![k] = IF k \in Loop THEN Holding(k, Nobody) ELSE NoWork]
    /\ toggling' = IF toggling = k THEN NoTask ELSE toggling

-----------------------------------------------------------------------------
(* The continuous-sync toggle: sync_source *)

SyncSource(r, t, enabled) ==
    /\ up /\ pc[r] = "idle"
    /\ Begin(r, IF enabled THEN "toggle_on" ELSE "toggle_off", t, "poll")
    /\ UNCHANGED <<up, sched, plane, procs, book, run, marks>>

\* The lock held from here to the end of the handler.
Admit(r) ==
    /\ toggling = NoTask
    /\ \/ pc[r] = "toggle_on" /\ Goto(r, "check")
       \/ pc[r] = "toggle_off" /\ Goto(r, "unpersist")
    /\ toggling' = r
    /\ UNCHANGED <<up, sched, armed, cancelled, procs, book, run, marks>>

\* The preconditions of a backfill (an adapter, a credential that decrypts, a
\* writer token), before anything is written.
Check(r) ==
    /\ pc[r] = "check"
    /\ (Goto(r, "persist") /\ UNCHANGED toggling) \/ Done(r)
    /\ UNCHANGED <<up, sched, armed, cancelled, procs, book, run, marks>>

\* upsert_sync_schedule, which can fail.
Persist(r) ==
    /\ pc[r] \in {"persist", "unpersist"}
    /\ \/ Done(r) /\ UNCHANGED sched
       \/ /\ pc[r] = "persist"
          /\ sched' = sched \union {on[r].tenant}
          /\ Goto(r, "arm") /\ UNCHANGED toggling
       \/ /\ pc[r] = "unpersist"
          /\ sched' = sched \ {on[r].tenant}
          /\ Goto(r, "disarm") /\ UNCHANGED toggling
    /\ UNCHANGED <<up, armed, cancelled, procs, book, run, marks>>

\* Mutant of Arm: the loop that is replaced is not cancelled.
ArmStacks(r) ==
    /\ pc[r] = "arm"
    /\ \E l \in Loop :
          /\ pc[l] = "idle"
          /\ armed' = [armed EXCEPT ![on[r].tenant] = l]
          /\ cancelled' = cancelled \ {l}
          /\ pc' = [pc EXCEPT ![l] = "wait", ![r] = "probe"]
          /\ on' = [on EXCEPT ![l] = on[r]]
    /\ torn' = torn \ {on[r].tenant}
    /\ UNCHANGED <<up, sched, toggling, procs, book, run, lost, sealed>>

\* The loop of the tenant is replaced; then a first cycle is fired.
Arm(r) ==
    /\ pc[r] = "arm"
    /\ \E l \in Loop :
          /\ pc[l] = "idle"
          /\ armed' = [armed EXCEPT ![on[r].tenant] = l]
          /\ cancelled' = (cancelled \union ({armed[on[r].tenant]} \ {NoTask})) \ {l}
          /\ pc' = [pc EXCEPT ![l] = "wait", ![r] = "probe"]
          /\ on' = [on EXCEPT ![l] = on[r]]
    /\ torn' = torn \ {on[r].tenant}
    /\ UNCHANGED <<up, sched, toggling, procs, book, run, lost, sealed>>

Disarm(r) ==
    /\ pc[r] = "disarm"
    /\ armed' = [armed EXCEPT ![on[r].tenant] = NoTask]
    /\ cancelled' = cancelled \union ({armed[on[r].tenant]} \ {NoTask})
    /\ torn' = torn \ {on[r].tenant}
    /\ Done(r)
    /\ UNCHANGED <<up, sched, procs, book, run, lost, sealed>>

-----------------------------------------------------------------------------
(* The interval loops: sync_loop, fire_cycle *)

\* The tick; select! may take it although the cancel token has fired.
Tick(l) ==
    /\ pc[l] = "wait"
    /\ Goto(l, "probe")
    /\ UNCHANGED <<up, sched, plane, procs, book, run, marks>>

Break(l) ==
    /\ pc[l] = "wait" /\ l \in cancelled
    /\ pc' = [pc EXCEPT ![l] = "idle"]
    /\ on' = [on EXCEPT ![l] = NoWork]
    /\ cancelled' = cancelled \ {l}
    /\ UNCHANGED <<up, sched, armed, toggling, procs, book, run, marks>>

\* Mutant of Forgets: the file is left to the reap.
ForgetsEntry(S) ==
    LET gone == {t \in S : entry[t] # Nobody /\ ~Alive(entry[t])}
    IN  /\ entry' = [t \in Tenant |-> IF t \in gone THEN Nobody ELSE entry[t]]
        /\ UNCHANGED files

\* A child that is not alive any more is dropped from its entry, and with it
\* its credential file; its reap will find the entry empty.
Forgets(S) ==
    LET gone == {t \in S : entry[t] # Nobody /\ ~Alive(entry[t])}
    IN  /\ entry' = [t \in Tenant |-> IF t \in gone THEN Nobody ELSE entry[t]]
        /\ files' = files \ {entry[t] : t \in gone}

\* owned_live, which a cycle skips on.
Probe(k) ==
    LET t == on[k].tenant
    IN  /\ pc[k] = "probe"
        /\ Forgets({t})
        /\ IF OwnsLive(t)
           THEN Done(k)
           ELSE Goto(k, "resolve") /\ UNCHANGED toggling
        /\ UNCHANGED <<up, sched, armed, cancelled, child, post, log, reaper,
                       admitting, run, marks>>

-----------------------------------------------------------------------------
(* Backfills and the start of a crawl: backfill_source, ConnectorPlane::start *)

BackfillSource(r, t) ==
    /\ up /\ pc[r] = "idle"
    /\ Begin(r, "resolve", t, "backfill")
    /\ UNCHANGED <<up, sched, plane, procs, book, run, marks>>

\* resolve_connector_identity: the credential of this very cycle, which may have
\* been revoked since the last.
Resolve(k) ==
    /\ pc[k] = "resolve"
    /\ (Goto(k, "admit") /\ UNCHANGED toggling) \/ Done(k)
    /\ UNCHANGED <<up, sched, armed, cancelled, procs, book, run, marks>>

\* Mutant of Busy and Spawn: the decision to spawn is not serialised.
AdmitsAny(k) == pc[k] = "admit"

\* The lock under which a crawl is refused or spawned.  While it is held nobody
\* else adds a child, so the looks at the owner map are one step.
Admits(k) == pc[k] = "admit" /\ admitting = NoTask

\* AlreadyRunning, SourceBusy, or a spawn that fails and leaves nothing behind.
\* The search for a busy tenant stops at the first.
Busy(k) ==
    LET t == on[k].tenant
        others == Tenant \ {t}
    IN  /\ Admits(k)
        /\ \/ OwnsLive(t) /\ UNCHANGED <<entry, files>>
           \/ /\ ~OwnsLive(t)
              /\ \E S \in SUBSET others :
                    /\ S = others \/ \E u \in others \ S : OwnsLive(u)
                    /\ Forgets({t} \union S)
        /\ Done(k)
        /\ UNCHANGED <<up, sched, armed, cancelled, child, post, log, reaper,
                       admitting, run, marks>>

Spawn(k) ==
    /\ Admits(k)
    /\ \A t \in Tenant : ~OwnsLive(t)
    /\ \E c \in Child :
          /\ child[c].state = Unborn
          /\ \A d \in Child : d < c => child[d].state # Unborn
          /\ child' = [child EXCEPT ![c] = [tenant |-> on[k].tenant, mode |-> on[k].mode,
                                            state |-> "alive"]]
          /\ files' = (files \ {entry[t] : t \in Tenant}) \union {c}
          /\ on' = [on EXCEPT ![k] = Holding(k, c)]
    /\ entry' = [t \in Tenant |-> Nobody]
    /\ pc' = [pc EXCEPT ![k] = "insert"]
    /\ admitting' = k
    /\ UNCHANGED <<up, sched, plane, post, log, reaper, run, marks>>

\* The child is owned; its reap starts.
Insert(k) ==
    /\ pc[k] = "insert"
    /\ entry' = [entry EXCEPT ![on[k].tenant] = on[k].child]
    /\ reaper' = [reaper EXCEPT ![on[k].child] = "watch"]
    /\ admitting' = NoTask
    /\ Done(k)
    /\ UNCHANGED <<up, sched, armed, cancelled, procs, run, marks>>

-----------------------------------------------------------------------------
(* The detached reap: reap, reconcile_terminal *)

\* The entry is empty or holds another child: nothing to reap.  Else the exit
\* is taken, the entry cleared and the credential file removed.
Reap(c) ==
    LET t == child[c].tenant
    IN  /\ reaper[c] = "watch"
        /\ \/ /\ entry[t] # c
              /\ reaper' = [reaper EXCEPT ![c] = "done"]
              /\ UNCHANGED <<entry, files>>
           \/ /\ entry[t] = c /\ Exited(c)
              /\ entry' = [entry EXCEPT ![t] = Nobody]
              /\ files' = files \ {c}
              /\ reaper' = [reaper EXCEPT ![c] =
                              IF child[c].mode = "backfill" THEN "reconcile" ELSE "done"]
        /\ UNCHANGED <<up, sched, plane, tasks, child, post, log, admitting, run, marks>>

\* Mutant of Verdicts: the log is not read.
VerdictsBlind(c) == {IF child[c].state = "failed" THEN "failed" ELSE "completed"}

\* Mutant of Verdicts: the exit status is not read.
VerdictsRosy(c) == {IF log # {} THEN "degraded_acl" ELSE "completed"}

\* What the exit says; the log is the source's and outlives every run.
Verdicts(c) ==
    IF child[c].state = "failed" THEN {"failed"}
    ELSE IF log # {} THEN {"degraded_acl"} ELSE {"completed"}

\* The row is overwritten, or the statement fails.
Reconcile(c) ==
    /\ reaper[c] = "reconcile"
    /\ \/ \E v \in Verdicts(c) : run' = [run EXCEPT ![c] = v]
          /\ sealed' = IF post[c] = "none" THEN sealed \union {c} ELSE sealed
       \/ UNCHANGED <<run, sealed>>
    /\ reaper' = [reaper EXCEPT ![c] = "done"]
    /\ UNCHANGED <<up, sched, plane, tasks, procs, entry, admitting, lost, torn>>

-----------------------------------------------------------------------------
(* The children *)

\* A backfill posts its progress, one post at a time.
Send(c) ==
    /\ Alive(c) /\ child[c].mode = "backfill" /\ post[c] = "none"
    /\ \E s \in Reports \ {"degraded"} : post' = [post EXCEPT ![c] = s]
    /\ UNCHANGED <<up, sched, plane, tasks, child, files, log, book, run, marks>>

\* post_progress: the row is inserted as running or takes the state of the
\* post, if it has one, whatever the row says.
Record(c) ==
    /\ post[c] # "none" /\ up
    /\ run' = [run EXCEPT ![c] = IF post[c] # "advance" THEN post[c]
                                 ELSE IF @ = "none" THEN "running" ELSE @]
    /\ post' = [post EXCEPT ![c] = "none"]
    /\ UNCHANGED <<up, sched, plane, tasks, child, files, log, book, marks>>

\* A post that never arrives.
Lose(c) ==
    /\ post[c] # "none"
    /\ post' = [post EXCEPT ![c] = "none"]
    /\ UNCHANGED <<up, sched, plane, tasks, child, files, log, book, run, marks>>

\* The owners-read scope is missing: the signal goes to the log.
Signal(c) ==
    /\ Alive(c) /\ child[c].mode = "backfill" /\ "degraded" \in Reports
    /\ log' = log \union {c}
    /\ UNCHANGED <<up, sched, plane, tasks, child, files, post, book, run, marks>>

\* It ends, or is killed, with or without a post under way.
Exit(c) ==
    /\ Alive(c)
    /\ \E s \in {"ok", "failed"} :
          child' = [child EXCEPT ![c] = [tenant |-> child[c].tenant, mode |-> child[c].mode,
                                         state |-> s]]
    /\ UNCHANGED <<up, sched, plane, tasks, files, post, log, book, run, marks>>

-----------------------------------------------------------------------------
(* Faults *)

\* The client hangs up: the handler's future is dropped where it waits, with
\* its locks and the child it holds.
Drop(r) ==
    LET c == on[r].child
    IN  /\ r \in Droppable /\ pc[r] # "idle"
        /\ Done(r)
        /\ admitting' = IF admitting = r THEN NoTask ELSE admitting
        /\ torn' = IF pc[r] \in {"arm", "disarm"} THEN torn \union {on[r].tenant} ELSE torn
        /\ lost' = IF pc[r] = "insert" THEN lost \union {c} ELSE lost
        /\ files' = IF pc[r] = "insert" THEN files \ {c} ELSE files
        /\ UNCHANGED <<up, sched, armed, cancelled, child, post, log, entry, reaper,
                       run, sealed>>

\* The server dies; rows, files and children stay.
Crash ==
    /\ up /\ Crashes
    /\ up' = FALSE
    /\ armed' = [t \in Tenant |-> NoTask] /\ cancelled' = {}
    /\ toggling' = NoTask /\ admitting' = NoTask
    /\ entry' = [t \in Tenant |-> Nobody]
    /\ pc' = [k \in Task |-> "idle"] /\ on' = [k \in Task |-> NoWork]
    /\ reaper' = [c \in Child |-> IF child[c].state = Unborn THEN "none" ELSE "done"]
    /\ lost' = {c \in Child : child[c].state # Unborn}
    /\ UNCHANGED <<sched, procs, run, torn, sealed>>

\* The files that survive a boot: none.
Swept == {}

\* sweep_orphaned_cred_dirs, then reestablish_on_boot, whose read may fail.
Boot ==
    /\ ~up /\ up' = TRUE
    /\ files' = Swept
    /\ \/ /\ torn' = sched
          /\ UNCHANGED <<armed, tasks>>
       \/ /\ torn' = {}
          /\ \E f \in [sched -> Loop] :
                /\ \A s, t \in sched : f[s] = f[t] => s = t
                /\ armed' = [t \in Tenant |-> IF t \in sched THEN f[t] ELSE NoTask]
                /\ pc' = [k \in Task |-> IF \E t \in sched : f[t] = k THEN "wait" ELSE "idle"]
                /\ on' = [k \in Task |->
                            IF \E t \in sched : f[t] = k
                            THEN [tenant |-> CHOOSE t \in sched : f[t] = k, mode |-> "poll",
                                  child |-> Nobody]
                            ELSE NoWork]
    /\ UNCHANGED <<sched, cancelled, toggling, child, post, log, book, run, lost, sealed>>

-----------------------------------------------------------------------------

Handle(r) ==
    \/ \E t \in Synced, enabled \in BOOLEAN : SyncSource(r, t, enabled)
    \/ \E t \in Tenant : BackfillSource(r, t)
    \/ Drop(r)

Step(k) ==
    \/ k \in Request /\ (Admit(k) \/ Check(k) \/ Persist(k) \/ Arm(k) \/ Disarm(k))
    \/ k \in Loop /\ Break(k)
    \/ Probe(k) \/ Resolve(k) \/ Busy(k) \/ Spawn(k) \/ Insert(k)

Crawl(c) == Send(c) \/ Record(c) \/ Lose(c) \/ Signal(c) \/ Exit(c)

Next ==
    \/ \E r \in Request : Handle(r)
    \/ \E k \in Task : Step(k)
    \/ \E l \in Loop : Tick(l)
    \/ \E c \in Child : Crawl(c) \/ Reap(c) \/ Reconcile(c)
    \/ Crash \/ Boot

Spec == Init /\ [][Next]_vars

\* Awaited steps complete, also those that wait for a lock others keep taking
\* (tokio::sync::Mutex is FIFO); a loop whose token fired finds no tick ready
\* after its cycle.
Fairness ==
    /\ \A k \in Task : SF_vars(Step(k))
    /\ \A l \in Loop : SF_vars(Break(l))
    /\ \A c \in Child : WF_vars(Reap(c) \/ Reconcile(c))
    /\ WF_vars(Boot)

FairSpec == Spec /\ Fairness

-----------------------------------------------------------------------------
(* Properties *)

\* ConnectorPlane::start serialises a source: of the children this server owns,
\* of all tenants and both modes, at most one is alive, whatever handlers,
\* loops, probes and reaps do to the owner map in between.
OneCrawl == \A c, d \in Child \ lost : Alive(c) /\ Alive(d) => c = d

Owned(c) ==
    \/ entry[child[c].tenant] = c
    \/ \E k \in Task : pc[k] = "insert" /\ on[k].child = c

\* The materialised bearer is there as long as its child may read it, and no
\* longer than the server owns the child; only a crash leaves one behind, and
\* the sweep of the next boot removes it.
BearerFollowsChild ==
    up => /\ \A c \in files : Owned(c)
          /\ \A c \in Child \ lost : Alive(c) => c \in files

\* sync_source holds its lock from the row to the loop: between toggles, a
\* tenant has a loop exactly when its schedule is enabled, unless a toggle was
\* cut off midway or the boot could not read the schedules; and a loop that is
\* not in the map has been told to stop.
NoGhostLoop ==
    up => /\ toggling = NoTask =>
               \A t \in Tenant \ torn : armed[t] # NoTask <=> t \in sched
          /\ \A l \in Loop : pc[l] # "idle" /\ l \notin cancelled => armed[on[l].tenant] = l

\* Once the reap has written the outcome of a run and no post is under way, the
\* row keeps it: a failed child never shows as completed, and a crawl that
\* coarsened its ACLs never masks itself as clean.
OutcomeStands ==
    \A c \in sealed :
       IF child[c].state = "failed" THEN run[c] = "failed"
       ELSE run[c] = "degraded_acl" \/ (run[c] = "completed" /\ c \notin log)

\* No request waits for ever on the toggle lock and, inside it, on the
\* admission lock that loops and backfills compete for.
RequestsFinish == \A r \in Request : pc[r] # "idle" ~> pc[r] = "idle"

\* No decrypted bearer stays on disk after its child has ended.
BearerGoes == \A c \in Child : Exited(c) ~> c \notin files

\* Both together: neither a request nor a bearer file lingers, whatever fails.
NothingLingers == RequestsFinish /\ BearerGoes

\* reconcile_terminal: "unlike the connector's own telemetry, it ALWAYS runs on
\* child exit".
ExitReconciled ==
    \A c \in Child : reaper[c] = "watch" /\ Exited(c) /\ child[c].mode = "backfill"
                        ~> reaper[c] = "reconcile"

=============================================================================
