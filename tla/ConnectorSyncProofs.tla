------------------------- MODULE ConnectorSyncProofs -------------------------
(***************************************************************************)
(* One crawl per source, bearers that follow their child, no ghost loop    *)
(* and outcomes that stand, for any number of tenants, requests, loops and *)
(* runs, with clients that hang up and a server that crashes anywhere.     *)
(***************************************************************************)
EXTENDS ConnectorSync, TLAPS

\* A task at work, and a child that was spawned, are some tenant's.
Working ==
    /\ \A k \in Task : pc[k] # "idle" => on[k].tenant \in Tenant
    /\ \A c \in Child : child[c].state # Unborn => child[c].tenant \in Tenant

\* The admission lock is held exactly by the task between its spawn and its
\* insert, when no tenant has an entry.
Admission ==
    /\ \A k \in Task : pc[k] = "insert" <=> admitting = k
    /\ admitting # NoTask => \A t \in Tenant : entry[t] = Nobody

\* The child in the hands of that task, whose reap has not started.
Inserting ==
    \A k \in Task : pc[k] = "insert" =>
       /\ on[k].child \in Child
       /\ child[on[k].child].state # Unborn
       /\ child[on[k].child].tenant = on[k].tenant
       /\ reaper[on[k].child] = "none"

Entries ==
    \A t \in Tenant : entry[t] # Nobody =>
       child[entry[t]].state # Unborn /\ child[entry[t]].tenant = t

\* A child of this server that is alive has an owner and its bearer.
AliveOwned == \A c \in Child \ lost : Alive(c) => Owned(c) /\ c \in files

FilesOwned == up => \A c \in files : Owned(c)

Unspawned ==
    \A c \in Child : child[c].state = Unborn =>
       c \notin lost /\ c \notin files /\ reaper[c] = "none"

\* Nothing of a server that died is left but rows, files and children.
Down ==
    ~up => /\ \A k \in Task : pc[k] = "idle"
           /\ \A t \in Tenant : entry[t] = Nobody /\ armed[t] = NoTask
           /\ admitting = NoTask /\ toggling = NoTask /\ cancelled = {}
           /\ \A c \in Child : child[c].state # Unborn => c \in lost

Ownership ==
    /\ Admission /\ Inserting /\ Entries /\ AliveOwned /\ FilesOwned /\ Unspawned
    /\ OneCrawl

\* Between the row and the loop, a toggle holds its lock.
Locked ==
    \A r \in Request : pc[r] \in {"check", "persist", "arm", "unpersist", "disarm"}
                          => toggling = r

Pending ==
    \A r \in Request : /\ pc[r] = "arm" => on[r].tenant \in sched
                       /\ pc[r] = "disarm" => on[r].tenant \notin sched

\* The loop follows the row, or a toggle is about to make it.
Matching ==
    up => \A t \in Tenant \ torn :
             \/ armed[t] # NoTask <=> t \in sched
             \/ \E r \in Request : pc[r] \in {"arm", "disarm"} /\ on[r].tenant = t

\* The map holds loops that run for the tenant and were not told to stop ...
Armed ==
    \A t \in Tenant : armed[t] # NoTask =>
       /\ pc[armed[t]] # "idle" /\ on[armed[t]].tenant = t
       /\ armed[t] \notin cancelled

\* ... and all of those.
Looping ==
    \A l \in Loop : pc[l] # "idle" /\ l \notin cancelled => armed[on[l].tenant] = l

Schedules == Locked /\ Pending /\ Matching /\ Armed /\ Looping

\* A run whose outcome was written is over: child, reap and posts.
Sealed ==
    /\ \A c \in sealed : reaper[c] = "done" /\ post[c] = "none" /\ Exited(c)
    /\ \A c \in Child : reaper[c] = "reconcile" => Exited(c)
    /\ OutcomeStands

IInv == TypeOK /\ Working /\ Down /\ Ownership /\ Schedules /\ Sealed

-----------------------------------------------------------------------------
(* The moves of a task *)

LEMMA NobodyIsNoChild == Nobody \notin Child
  BY DEF Nobody, Child

\* Every other task stays where it is.
Apart(k) == \A j \in Task : j # k => pc'[j] = pc[j] /\ on'[j] = on[j]

TasksTyped == pc' \in [Task -> Point] /\ on' \in [Task -> Errand]

\* What Goto does to the tasks.
LEMMA GotoMoves ==
  ASSUME TypeOK, NEW k \in Task, NEW at \in Point, Goto(k, at)
  PROVE  TasksTyped /\ Apart(k) /\ pc'[k] = at /\ on'[k] = on[k]
  BY Zenon DEF TypeOK, Goto, Apart, TasksTyped

\* What Begin does to the tasks.
LEMMA BeginMoves ==
  ASSUME TypeOK, NEW k \in Task, NEW at \in Point, NEW t \in Tenant, NEW m \in Mode,
         Begin(k, at, t, m)
  PROVE  TasksTyped /\ Apart(k) /\ pc'[k] = at /\ on'[k].tenant = t
<1>1. [tenant |-> t, mode |-> m, child |-> Nobody] \in Errand
  BY Zenon DEF Errand
<1> DEFINE w == [tenant |-> t, mode |-> m, child |-> Nobody]
<1>2. w.tenant = t OBVIOUS
<1> HIDE DEF w
<1> QED BY Zenon, <1>1, <1>2 DEF TypeOK, Begin, Apart, TasksTyped, w

\* What Holding yields.
LEMMA HoldingErrand ==
  ASSUME TypeOK, NEW k \in Task, NEW c \in Child \union {Nobody}
  PROVE  Holding(k, c) \in Errand /\ Holding(k, c).tenant = on[k].tenant
         /\ Holding(k, c).mode = on[k].mode /\ Holding(k, c).child = c
<1>1. on[k] \in Errand BY Zenon DEF TypeOK
<1>2. on[k].tenant \in Tenant \union {NoTask} /\ on[k].mode \in Mode BY Zenon, <1>1 DEF Errand
<1> QED BY Zenon, <1>2 DEF Errand, Holding

\* What Done does to the tasks and the toggle lock.
LEMMA DoneMoves ==
  ASSUME TypeOK, NEW k \in Task, Done(k)
  PROVE  /\ TasksTyped /\ Apart(k)
         /\ k \in Loop => pc'[k] = "wait" /\ on'[k].tenant = on[k].tenant
         /\ k \in Request => pc'[k] = "idle"
         /\ toggling' = IF toggling = k THEN NoTask ELSE toggling
         /\ toggling' \in Request \union {NoTask}
<1>1. Holding(k, Nobody) \in Errand /\ Holding(k, Nobody).tenant = on[k].tenant
  BY Zenon, HoldingErrand
<1>2. NoWork \in Errand BY Zenon DEF NoWork, Errand, Mode
<1>3. {"wait", "idle"} \subseteq Point BY Zenon DEF Point
<1>4. k \in Request => k \notin Loop BY Zenon, SyncAssumption
<1>5. pc \in [Task -> Point] /\ on \in [Task -> Errand] /\ toggling \in Request \union {NoTask}
  BY Zenon DEF TypeOK
<1> QED BY Zenon, <1>1, <1>2, <1>3, <1>4, <1>5 DEF Done, Apart, TasksTyped

-----------------------------------------------------------------------------
(* Types *)

\* The parts of the type that are not about tasks and children.
RestTyped ==
    /\ up \in BOOLEAN
    /\ sched \subseteq Tenant /\ torn \subseteq Tenant
    /\ armed \in [Tenant -> Loop \union {NoTask}]
    /\ cancelled \subseteq Loop
    /\ toggling \in Request \union {NoTask}
    /\ admitting \in Task \union {NoTask}
    /\ entry \in [Tenant -> Child \union {Nobody}]
    /\ files \subseteq Child /\ log \subseteq Child
    /\ lost \subseteq Child /\ sealed \subseteq Child
    /\ reaper \in [Child -> {"none", "watch", "reconcile", "done"}]
    /\ run \in [Child -> Verdict \union {"none", "running"}]
    /\ post \in [Child -> (Report \ {"degraded"}) \union {"none"}]

LEMMA TypeParts ==
  TypeOK <=> RestTyped /\ pc \in [Task -> Point] /\ on \in [Task -> Errand]
             /\ child \in [Child -> Process]
  BY Zenon DEF TypeOK, RestTyped

\* Handlers and loops keep the types.
LEMMA StepTyped ==
  ASSUME IInv, NEW k \in Task, Step(k)
  PROVE  TypeOK'
<1>0. TypeOK /\ RestTyped /\ Request \subseteq Task /\ Loop \subseteq Task
  BY Zenon, TypeParts DEF IInv, Task
<1>1. pc[k] # "idle" => on[k].tenant \in Tenant BY Zenon DEF IInv, Working
<1>2. ASSUME TasksTyped, child' = child, RestTyped' PROVE TypeOK'
  BY Zenon, <1>2, <1>0, TypeParts DEF TasksTyped, TypeOK, RestTyped
<1>3. {"check", "unpersist", "persist", "arm", "disarm", "probe", "resolve", "admit",
       "insert", "wait"} \subseteq Point
  BY Zenon DEF Point
<1>4. CASE k \in Request /\ Admit(k)
  <2>1. TasksTyped BY Zenon, <1>0, <1>3, <1>4, GotoMoves DEF Admit
  <2>2. RestTyped' BY Zenon, <1>0, <1>4 DEF RestTyped, Admit, procs, book, marks
  <2> QED BY Zenon, <1>2, <2>1, <2>2, <1>4 DEF Admit, procs
<1>5. CASE k \in Request /\ Check(k)
  <2>1. TasksTyped /\ toggling' \in Request \union {NoTask}
    BY Zenon, <1>0, <1>3, <1>5, GotoMoves, DoneMoves DEF Check, RestTyped
  <2>2. RestTyped' BY Zenon, <1>0, <1>5, <2>1 DEF RestTyped, Check, procs, book, marks
  <2> QED BY Zenon, <1>2, <2>1, <2>2, <1>5 DEF Check, procs
<1>6. CASE k \in Request /\ Persist(k)
  <2>1. TasksTyped /\ toggling' \in Request \union {NoTask} /\ sched' \subseteq Tenant
    BY Zenon, <1>0, <1>1, <1>3, <1>6, GotoMoves, DoneMoves DEF Persist, RestTyped
  <2>2. RestTyped' BY Zenon, <1>0, <1>6, <2>1 DEF RestTyped, Persist, procs, book, marks
  <2> QED BY Zenon, <1>2, <2>1, <2>2, <1>6 DEF Persist, procs
<1>7. CASE k \in Request /\ Arm(k)
  <2>1. TasksTyped /\ armed' \in [Tenant -> Loop \union {NoTask}] /\ cancelled' \subseteq Loop
    BY <1>0, <1>1, <1>3, <1>7 DEF Arm, RestTyped, TypeOK, TasksTyped
  <2>2. RestTyped' BY Zenon, <1>0, <1>7, <2>1 DEF RestTyped, Arm, procs, book, marks
  <2> QED BY Zenon, <1>2, <2>1, <2>2, <1>7 DEF Arm, procs
<1>8. CASE k \in Request /\ Disarm(k)
  <2>1. TasksTyped /\ toggling' \in Request \union {NoTask} BY Zenon, <1>0, <1>8, DoneMoves DEF Disarm
  <2>2. armed' \in [Tenant -> Loop \union {NoTask}] /\ cancelled' \subseteq Loop
    BY Zenon, <1>0, <1>1, <1>8 DEF Disarm, RestTyped
  <2>3. RestTyped' BY Zenon, <1>0, <1>8, <2>1, <2>2 DEF RestTyped, Disarm, procs, book, marks
  <2> QED BY Zenon, <1>2, <2>1, <2>3, <1>8 DEF Disarm, procs
<1>9. CASE k \in Loop /\ Break(k)
  <2>1. NoWork \in Errand BY Zenon DEF NoWork, Errand, Mode
  <2>2. "idle" \in Point BY Zenon DEF Point
  <2>3. TasksTyped BY Zenon, <1>0, <1>9, <2>1, <2>2 DEF Break, TypeOK, TasksTyped
  <2>4. RestTyped' BY Zenon, <1>0, <1>9 DEF RestTyped, Break, procs, book, marks
  <2> QED BY Zenon, <1>2, <2>3, <2>4, <1>9 DEF Break, procs
<1>10. CASE Probe(k)
  <2>1. TasksTyped /\ toggling' \in Request \union {NoTask}
    BY Zenon, <1>0, <1>3, <1>10, GotoMoves, DoneMoves DEF Probe, RestTyped
  <2>2. entry' \in [Tenant -> Child \union {Nobody}] /\ files' \subseteq Child
    BY Zenon, <1>0, <1>10 DEF Probe, Forgets, RestTyped
  <2>3. RestTyped' BY Zenon, <1>0, <1>10, <2>1, <2>2 DEF RestTyped, Probe, marks
  <2> QED BY Zenon, <1>2, <2>1, <2>3, <1>10 DEF Probe
<1>11. CASE Resolve(k)
  <2>1. TasksTyped /\ toggling' \in Request \union {NoTask}
    BY Zenon, <1>0, <1>3, <1>11, GotoMoves, DoneMoves DEF Resolve, RestTyped
  <2>2. RestTyped' BY Zenon, <1>0, <1>11, <2>1 DEF RestTyped, Resolve, procs, book, marks
  <2> QED BY Zenon, <1>2, <2>1, <2>2, <1>11 DEF Resolve, procs
<1>12. CASE Busy(k)
  <2>1. TasksTyped /\ toggling' \in Request \union {NoTask} BY Zenon, <1>0, <1>12, DoneMoves DEF Busy
  <2>2. entry' \in [Tenant -> Child \union {Nobody}] /\ files' \subseteq Child
    BY Zenon, <1>0, <1>12 DEF Busy, Forgets, RestTyped
  <2>3. RestTyped' BY Zenon, <1>0, <1>12, <2>1, <2>2 DEF RestTyped, Busy, marks
  <2> QED BY Zenon, <1>2, <2>1, <2>3, <1>12 DEF Busy
<1>13. CASE Spawn(k)
  <2>1. PICK c \in Child :
          /\ child' = [child EXCEPT ![c] = [tenant |-> on[k].tenant, mode |-> on[k].mode,
                                            state |-> "alive"]]
          /\ files' = (files \ {entry[t] : t \in Tenant}) \union {c}
          /\ on' = [on EXCEPT ![k] = Holding(k, c)]
    BY Zenon, <1>13 DEF Spawn
  <2>2. [tenant |-> on[k].tenant, mode |-> on[k].mode, state |-> "alive"] \in Process
    BY Zenon, <1>0 DEF TypeOK, Errand, Process
  <2>3. child' \in [Child -> Process] BY Zenon, <1>0, <2>1, <2>2 DEF TypeOK
  <2>4. Holding(k, c) \in Errand BY Zenon, <1>0, HoldingErrand
  <2>5. TasksTyped BY Zenon, <1>0, <1>3, <1>13, <2>1, <2>4 DEF Spawn, TypeOK, TasksTyped
  <2>6. files' \subseteq Child /\ entry' \in [Tenant -> Child \union {Nobody}]
    BY Zenon, <1>0, <1>13, <2>1 DEF Spawn, RestTyped
  <2>7. RestTyped' BY Zenon, <1>0, <1>13, <2>6 DEF RestTyped, Spawn, plane, marks
  <2> QED BY Zenon, <2>3, <2>5, <2>7, TypeParts DEF TasksTyped, TypeOK, RestTyped
<1>14. CASE Insert(k)
  <2>1. TasksTyped /\ toggling' \in Request \union {NoTask} BY Zenon, <1>0, <1>14, DoneMoves DEF Insert
  <2>2. on[k].child \in Child \union {Nobody} BY Zenon, <1>0 DEF TypeOK, Errand
  <2>3. /\ entry' \in [Tenant -> Child \union {Nobody}]
        /\ reaper' \in [Child -> {"none", "watch", "reconcile", "done"}]
    BY Zenon, <1>0, <1>14, <2>2 DEF Insert, RestTyped
  <2>4. RestTyped' BY Zenon, <1>0, <1>14, <2>1, <2>3 DEF RestTyped, Insert, procs, marks
  <2> QED BY Zenon, <1>2, <2>1, <2>4, <1>14 DEF Insert, procs
<1> QED BY Zenon, <1>4, <1>5, <1>6, <1>7, <1>8, <1>9, <1>10, <1>11, <1>12, <1>13, <1>14 DEF Step

\* Clients keep the types.
LEMMA HandleTyped ==
  ASSUME IInv, NEW r \in Request, Handle(r)
  PROVE  TypeOK'
<1>0. TypeOK /\ RestTyped /\ r \in Task BY Zenon, TypeParts DEF IInv, Task
<1>1. pc[r] # "idle" => on[r].tenant \in Tenant BY Zenon, <1>0 DEF IInv, Working
<1>2. ASSUME TasksTyped, child' = child, RestTyped' PROVE TypeOK'
  BY Zenon, <1>2, <1>0, TypeParts DEF TasksTyped, TypeOK, RestTyped
<1>3. {"toggle_on", "toggle_off", "resolve"} \subseteq Point BY Zenon DEF Point
<1>4. {"poll", "backfill"} \subseteq Mode BY Zenon DEF Mode
<1>5. ASSUME NEW t \in Synced, NEW enabled \in BOOLEAN, SyncSource(r, t, enabled) PROVE TypeOK'
  <2>1. t \in Tenant /\ (IF enabled THEN "toggle_on" ELSE "toggle_off") \in Point
    BY Zenon, <1>3, SyncAssumption
  <2>2. TasksTyped BY Zenon, <1>0, <1>4, <1>5, <2>1, BeginMoves DEF SyncSource
  <2>3. RestTyped' BY Zenon, <1>0, <1>5 DEF RestTyped, SyncSource, plane, procs, book, marks
  <2> QED BY Zenon, <1>2, <1>5, <2>2, <2>3 DEF SyncSource, procs
<1>6. ASSUME NEW t \in Tenant, BackfillSource(r, t) PROVE TypeOK'
  <2>1. TasksTyped BY Zenon, <1>0, <1>3, <1>4, <1>6, BeginMoves DEF BackfillSource
  <2>2. RestTyped' BY Zenon, <1>0, <1>6 DEF RestTyped, BackfillSource, plane, procs, book, marks
  <2> QED BY Zenon, <1>2, <1>6, <2>1, <2>2 DEF BackfillSource, procs
<1>7. CASE Drop(r)
  <2>1. TasksTyped /\ toggling' \in Request \union {NoTask} BY Zenon, <1>0, <1>7, DoneMoves DEF Drop
  <2>2. pc[r] = "insert" => on[r].child \in Child
    BY Zenon, <1>0 DEF IInv, Ownership, Inserting
  <2>3. torn' \subseteq Tenant /\ lost' \subseteq Child /\ files' \subseteq Child
    BY Zenon, <1>0, <1>1, <1>7, <2>2 DEF Drop, RestTyped
  <2>4. admitting' \in Task \union {NoTask} BY Zenon, <1>0, <1>7 DEF Drop, RestTyped
  <2>5. RestTyped' BY Zenon, <1>0, <1>7, <2>1, <2>3, <2>4 DEF RestTyped, Drop
  <2> QED BY Zenon, <1>2, <1>7, <2>1, <2>5 DEF Drop
<1> QED BY Zenon, <1>5, <1>6, <1>7 DEF Handle

\* Children and reaps keep the types.
LEMMA ChildTyped ==
  ASSUME IInv, NEW c \in Child, Crawl(c) \/ Reap(c) \/ Reconcile(c)
  PROVE  TypeOK'
<1>0. TypeOK /\ RestTyped BY Zenon, TypeParts DEF IInv
<1>1. ASSUME UNCHANGED <<tasks, child>>, RestTyped' PROVE TypeOK'
  BY Zenon, <1>0, <1>1, TypeParts DEF tasks, TypeOK, RestTyped
<1>2. CASE Send(c)
  <2>1. post' \in [Child -> (Report \ {"degraded"}) \union {"none"}]
    BY Zenon, <1>0, <1>2, SyncAssumption DEF Send, RestTyped
  <2>2. RestTyped' BY Zenon, <1>0, <1>2, <2>1 DEF RestTyped, Send, plane, book, marks
  <2> QED BY Zenon, <1>1, <1>2, <2>2 DEF Send
<1>3. CASE Record(c)
  <2>1. post' \in [Child -> (Report \ {"degraded"}) \union {"none"}]
    BY Zenon, <1>0, <1>3 DEF Record, RestTyped
  <2>2. run' \in [Child -> Verdict \union {"none", "running"}]
    BY Zenon, <1>0, <1>3 DEF Record, RestTyped, Report, Verdict
  <2>3. RestTyped' BY Zenon, <1>0, <1>3, <2>1, <2>2 DEF RestTyped, Record, plane, book, marks
  <2> QED BY Zenon, <1>1, <1>3, <2>3 DEF Record
<1>4. CASE Lose(c)
  <2>1. post' \in [Child -> (Report \ {"degraded"}) \union {"none"}]
    BY Zenon, <1>0, <1>4 DEF Lose, RestTyped
  <2>2. RestTyped' BY Zenon, <1>0, <1>4, <2>1 DEF RestTyped, Lose, plane, book, marks
  <2> QED BY Zenon, <1>1, <1>4, <2>2 DEF Lose
<1>5. CASE Signal(c)
  <2>1. RestTyped' BY Zenon, <1>0, <1>5 DEF RestTyped, Signal, plane, book, marks
  <2> QED BY Zenon, <1>1, <1>5, <2>1 DEF Signal
<1>6. CASE Exit(c)
  <2>1. PICK s \in {"ok", "failed"} :
          child' = [child EXCEPT ![c] = [tenant |-> child[c].tenant, mode |-> child[c].mode,
                                         state |-> s]]
    BY Zenon, <1>6 DEF Exit
  <2>2. [tenant |-> child[c].tenant, mode |-> child[c].mode, state |-> s] \in Process
    BY Zenon, <1>0 DEF TypeOK, Process
  <2>3. child' \in [Child -> Process] BY Zenon, <1>0, <2>1, <2>2 DEF TypeOK
  <2>4. RestTyped' BY Zenon, <1>0, <1>6 DEF RestTyped, Exit, plane, book, marks
  <2> QED BY Zenon, <1>0, <1>6, <2>3, <2>4, TypeParts DEF Exit, tasks, TypeOK, RestTyped
<1>7. CASE Reap(c)
  <2>1. reaper' \in [Child -> {"none", "watch", "reconcile", "done"}]
    BY Zenon, <1>0, <1>7 DEF Reap, RestTyped
  <2>2. entry' \in [Tenant -> Child \union {Nobody}] /\ files' \subseteq Child
    BY Zenon, <1>0, <1>7 DEF Reap, RestTyped
  <2>3. RestTyped' BY Zenon, <1>0, <1>7, <2>1, <2>2 DEF RestTyped, Reap, plane, marks
  <2> QED BY Zenon, <1>1, <1>7, <2>3 DEF Reap
<1>8. CASE Reconcile(c)
  <2>1. /\ reaper' \in [Child -> {"none", "watch", "reconcile", "done"}]
        /\ run' \in [Child -> Verdict \union {"none", "running"}]
        /\ sealed' \subseteq Child
    BY <1>0, <1>8 DEF Reconcile, RestTyped, Verdicts, Verdict
  <2>2. RestTyped' BY Zenon, <1>0, <1>8, <2>1 DEF RestTyped, Reconcile, plane, procs
  <2> QED BY Zenon, <1>1, <1>8, <2>2 DEF Reconcile, procs
<1> QED BY Zenon, <1>2, <1>3, <1>4, <1>5, <1>6, <1>7, <1>8 DEF Crawl

\* The loops a boot starts again: one for each schedule, of its tenant.
Rebooted ==
    /\ torn' = {} /\ TasksTyped
    /\ armed' \in [Tenant -> Loop \union {NoTask}]
    /\ \A t \in Tenant : armed'[t] # NoTask <=> t \in sched
    /\ \A t \in sched : pc'[armed'[t]] = "wait" /\ on'[armed'[t]].tenant = t
    /\ \A k \in Task : pc'[k] = "idle" \/ \E t \in sched : armed'[t] = k /\ pc'[k] = "wait"

\* Boot starts them all, or its read failed and every schedule counts as torn.
LEMMA BootMoves ==
  ASSUME IInv, Boot
  PROVE  \/ torn' = sched /\ UNCHANGED <<armed, pc, on>>
         \/ Rebooted
<1>0. sched \subseteq Tenant /\ Loop \subseteq Task /\ NoTask \notin Loop
  BY Zenon, SyncAssumption DEF IInv, TypeOK, Task
<1>1. CASE torn' = sched /\ UNCHANGED <<armed, tasks>> BY Zenon, <1>1 DEF tasks
<1> DEFINE w(t) == [tenant |-> t, mode |-> "poll", child |-> Nobody]
<1>2. ASSUME torn' = {}, NEW f \in [sched -> Loop],
             \A s, t \in sched : f[s] = f[t] => s = t,
             armed' = [t \in Tenant |-> IF t \in sched THEN f[t] ELSE NoTask],
             pc' = [k \in Task |-> IF \E t \in sched : f[t] = k THEN "wait" ELSE "idle"],
             on' = [k \in Task |-> IF \E t \in sched : f[t] = k
                                   THEN w(CHOOSE t \in sched : f[t] = k)
                                   ELSE NoWork]
      PROVE  Rebooted
  <2>1. \A t \in Tenant : w(t) \in Errand /\ w(t).tenant = t BY Zenon DEF Errand, Mode
  <2>2. NoWork \in Errand BY Zenon DEF NoWork, Errand, Mode
  <2> HIDE DEF w
  <2>3. \A t \in sched : (CHOOSE s \in sched : f[s] = f[t]) = t BY Zenon, <1>2
  <2>4. \A t \in sched : f[t] \in Task /\ pc'[f[t]] = "wait" /\ on'[f[t]] = w(t)
    BY Zenon, <1>0, <1>2, <2>3
  <2>5. \A t \in sched : armed'[t] = f[t] /\ f[t] # NoTask BY Zenon, <1>0, <1>2
  <2>6. \A k \in Task : on'[k] \in Errand
    <3>1. ASSUME NEW k \in Task, NEW t \in sched, f[t] = k PROVE on'[k] \in Errand
      BY Zenon, <1>0, <2>1, <2>4, <3>1
    <3> QED BY Zenon, <1>2, <2>2, <3>1
  <2>7. on' \in [Task -> Errand] BY Zenon, <1>2, <2>6
  <2>8. pc' \in [Task -> Point] BY Zenon, <1>2 DEF Point
  <2>9. armed' \in [Tenant -> Loop \union {NoTask}] BY Zenon, <1>2
  <2>10. \A t \in Tenant : armed'[t] # NoTask <=> t \in sched BY Zenon, <1>2, <2>5
  <2>11. \A t \in sched : pc'[armed'[t]] = "wait" /\ on'[armed'[t]].tenant = t
    BY Zenon, <1>0, <2>1, <2>4, <2>5
  <2>12. \A k \in Task : pc'[k] = "idle" \/ \E t \in sched : armed'[t] = k /\ pc'[k] = "wait"
    BY Zenon, <1>2, <2>5
  <2> QED BY Zenon, <1>2, <2>7, <2>8, <2>9, <2>10, <2>11, <2>12 DEF Rebooted, TasksTyped
<1> QED BY Zenon, <1>1, <1>2 DEF Boot

\* Every step keeps the types.
LEMMA TypeStep == IInv /\ [Next]_vars => TypeOK'
<1> SUFFICES ASSUME IInv, [Next]_vars PROVE TypeOK' OBVIOUS
<1>0. TypeOK /\ RestTyped BY Zenon, TypeParts DEF IInv
<1>1. ASSUME TasksTyped, child' = child, RestTyped' PROVE TypeOK'
  BY Zenon, <1>1, <1>0, TypeParts DEF TasksTyped, TypeOK, RestTyped
<1>2. NoWork \in Errand BY Zenon DEF NoWork, Errand, Mode
<1>3. {"idle", "probe"} \subseteq Point BY Zenon DEF Point
<1>4. ASSUME NEW l \in Loop, Tick(l) PROVE TypeOK'
  <2>1. TasksTyped BY Zenon, <1>0, <1>3, <1>4, GotoMoves DEF Tick, Task
  <2>2. RestTyped' BY Zenon, <1>0, <1>4 DEF RestTyped, Tick, plane, procs, book, marks
  <2> QED BY Zenon, <1>1, <1>4, <2>1, <2>2 DEF Tick, procs
<1>5. CASE Crash
  <2>1. TasksTyped BY Zenon, <1>2, <1>3, <1>5 DEF Crash, TasksTyped
  <2>2. /\ armed' \in [Tenant -> Loop \union {NoTask}]
        /\ entry' \in [Tenant -> Child \union {Nobody}]
        /\ reaper' \in [Child -> {"none", "watch", "reconcile", "done"}]
        /\ lost' \subseteq Child
    BY Zenon, <1>5 DEF Crash
  <2>3. RestTyped' BY Zenon, <1>0, <1>5, <2>2 DEF RestTyped, Crash, procs
  <2> QED BY Zenon, <1>1, <1>5, <2>1, <2>3 DEF Crash, procs
<1>6. CASE Boot
  <2>1. TasksTyped /\ armed' \in [Tenant -> Loop \union {NoTask}] /\ torn' \subseteq Tenant
    BY Zenon, <1>0, <1>6, BootMoves DEF Rebooted, TasksTyped, TypeOK
  <2>2. RestTyped' BY Zenon, <1>0, <1>6, <2>1 DEF RestTyped, Boot, book, Swept
  <2> QED BY Zenon, <1>1, <1>6, <2>1, <2>2 DEF Boot
<1>7. CASE UNCHANGED vars
  BY Zenon, <1>0, <1>7 DEF TypeOK, vars, plane, tasks, procs, book, marks
<1> QED BY Zenon, <1>4, <1>5, <1>6, <1>7, StepTyped, HandleTyped, ChildTyped DEF Next

-----------------------------------------------------------------------------
(* Ownership *)

\* A step that spawns and inserts nothing; it may drop entries of children that
\* are not alive.
Quiet ==
    /\ up /\ UNCHANGED <<up, child, lost, admitting>>
    /\ \A c \in Child : reaper[c] = "none" => reaper'[c] = "none"
    /\ \A j \in Task : /\ pc'[j] = "insert" <=> pc[j] = "insert"
                       /\ pc[j] = "insert" => on'[j] = on[j]
                       /\ pc'[j] # "idle" => on'[j].tenant \in Tenant
    /\ UNCHANGED <<entry, files>> \/ \E S \in SUBSET Tenant : Forgets(S)

\* A step of one task that spawns and inserts nothing is quiet.
LEMMA TaskQuiet ==
  ASSUME IInv, NEW k \in Task, Apart(k), up, UNCHANGED <<up, child, lost, reaper, admitting>>,
         pc[k] # "insert", pc'[k] # "insert", pc'[k] # "idle" => on'[k].tenant \in Tenant,
         UNCHANGED <<entry, files>> \/ \E S \in SUBSET Tenant : Forgets(S)
  PROVE  Quiet
  BY Zenon DEF Quiet, Apart, IInv, Working

\* Dropping entries of children that are not alive keeps the others.
LEMMA ForgetsKeeps ==
  ASSUME IInv, UNCHANGED <<entry, files>> \/ \E S \in SUBSET Tenant : Forgets(S)
  PROVE  /\ \A t \in Tenant : entry'[t] = entry[t] \/ entry'[t] = Nobody
         /\ files' \subseteq files
         /\ \A c \in Child : child[c].tenant \in Tenant =>
               IF entry[child[c].tenant] = c /\ entry'[child[c].tenant] # c
               THEN ~Alive(c) /\ c \notin files'
               ELSE c \in files' <=> c \in files
<1>1. CASE UNCHANGED <<entry, files>> BY Zenon, <1>1
<1>2. ASSUME NEW S \in SUBSET Tenant, Forgets(S)
      PROVE  /\ \A t \in Tenant : entry'[t] = entry[t] \/ entry'[t] = Nobody
             /\ files' \subseteq files
             /\ \A c \in Child : child[c].tenant \in Tenant =>
                   IF entry[child[c].tenant] = c /\ entry'[child[c].tenant] # c
                   THEN ~Alive(c) /\ c \notin files'
                   ELSE c \in files' <=> c \in files
  <2> DEFINE gone == {t \in S : entry[t] # Nobody /\ ~Alive(entry[t])}
  <2>1. entry' = [t \in Tenant |-> IF t \in gone THEN Nobody ELSE entry[t]]
    BY Zenon, <1>2 DEF Forgets
  <2>2. files' = files \ {entry[t] : t \in gone} BY Zenon, <1>2 DEF Forgets
  <2>3. \A t \in gone : t \in Tenant /\ entry[t] # Nobody /\ ~Alive(entry[t])
                          /\ child[entry[t]].tenant = t
    BY Zenon DEF IInv, Ownership, Entries
  <2> HIDE DEF gone
  <2>4. \A t \in Tenant : entry'[t] = IF t \in gone THEN Nobody ELSE entry[t] BY Zenon, <2>1
  <2>5. ASSUME NEW c \in Child, child[c].tenant \in Tenant
        PROVE  IF entry[child[c].tenant] = c /\ entry'[child[c].tenant] # c
               THEN ~Alive(c) /\ c \notin files'
               ELSE c \in files' <=> c \in files
    <3>1. CASE child[c].tenant \in gone /\ entry[child[c].tenant] = c
      BY Zenon, <2>2, <2>3, <2>4, <2>5, <3>1
    <3>2. CASE child[c].tenant \notin gone
      <4>1. ASSUME NEW t \in gone PROVE entry[t] # c BY Zenon, <2>3, <3>2
      <4>2. entry'[child[c].tenant] = entry[child[c].tenant] BY Zenon, <2>4, <2>5, <3>2
      <4> QED BY Zenon, <2>2, <4>1, <4>2
    <3>3. CASE entry[child[c].tenant] # c
      <4>1. ASSUME NEW t \in gone PROVE entry[t] # c BY Zenon, <2>3, <3>3
      <4> QED BY Zenon, <2>2, <3>3, <4>1
    <3> QED BY Zenon, <3>1, <3>2, <3>3
  <2> QED BY Zenon, <2>2, <2>4, <2>5
<1> QED BY Zenon, <1>1, <1>2

\* Quiet steps keep who owns what.
LEMMA QuietKeeps ==
  ASSUME IInv, TypeOK', Quiet
  PROVE  Ownership' /\ Working' /\ Down'
<1> USE DEF IInv, Ownership
<1>0. /\ up /\ up' /\ UNCHANGED <<up, child, lost, admitting>>
      /\ \A c \in Child : reaper[c] = "none" => reaper'[c] = "none"
  BY Zenon DEF Quiet
<1>1. /\ \A t \in Tenant : entry'[t] = entry[t] \/ entry'[t] = Nobody
      /\ files' \subseteq files
      /\ \A c \in Child : child[c].tenant \in Tenant =>
            IF entry[child[c].tenant] = c /\ entry'[child[c].tenant] # c
            THEN ~Alive(c) /\ c \notin files'
            ELSE c \in files' <=> c \in files
  BY Zenon, ForgetsKeeps DEF Quiet
<1>2. \A j \in Task : /\ pc'[j] = "insert" <=> pc[j] = "insert"
                      /\ pc[j] = "insert" => on'[j] = on[j]
                      /\ pc'[j] # "idle" => on'[j].tenant \in Tenant
  BY Zenon DEF Quiet
<1>3. Admission' BY Zenon, <1>0, <1>1, <1>2 DEF Admission
<1>4. Inserting'
  <2>1. ASSUME NEW j \in Task, pc'[j] = "insert"
        PROVE  /\ on[j].child \in Child /\ on'[j] = on[j]
               /\ child[on[j].child].state # Unborn
               /\ child[on[j].child].tenant = on[j].tenant
               /\ reaper'[on[j].child] = "none"
    BY Zenon, <1>0, <1>2, <2>1 DEF Inserting
  <2> QED BY Zenon, <1>0, <2>1 DEF Inserting
<1>5. Entries' BY Zenon, <1>0, <1>1 DEF Entries
<1>6. ASSUME NEW c \in Child, child[c].state # Unborn, Owned(c) PROVE Owned(c)' \/ (~Alive(c) /\ c \notin files')
  BY Zenon, <1>0, <1>1, <1>2, <1>6 DEF Owned, Working
<1>7. AliveOwned'
  <2> SUFFICES ASSUME NEW c \in Child \ lost, Alive(c) PROVE Owned(c)' /\ c \in files'
    BY Zenon, <1>0 DEF AliveOwned, Alive
  <2>1. child[c].state # Unborn /\ child[c].tenant \in Tenant
    BY Zenon DEF Alive, Unborn, Working
  <2> QED BY Zenon, <1>1, <1>6, <2>1 DEF AliveOwned
<1>8. FilesOwned'
  <2> SUFFICES ASSUME NEW c \in files' PROVE Owned(c)' BY Zenon DEF FilesOwned
  <2>1. c \in files /\ c \in Child BY Zenon, <1>1 DEF TypeOK
  <2>2. child[c].state # Unborn BY Zenon, <2>1 DEF Unspawned
  <2> QED BY Zenon, <1>0, <1>6, <2>1, <2>2 DEF FilesOwned
<1>9. Unspawned' BY Zenon, <1>0, <1>1 DEF Unspawned
<1>10. OneCrawl' BY Zenon, <1>0 DEF OneCrawl, Alive
<1>11. Working' BY Zenon, <1>0, <1>2 DEF Working
<1>12. Down' BY Zenon, <1>0 DEF Down
<1> QED BY Zenon, <1>3, <1>4, <1>5, <1>7, <1>8, <1>9, <1>10, <1>11, <1>12

\* A step that leaves tasks, owners, bearers and children alone.
Still ==
    /\ UNCHANGED <<up, armed, cancelled, toggling, pc, on, child, files, lost, entry, admitting>>
    /\ \A c \in Child : reaper[c] = "none" => reaper'[c] = "none"

LEMMA StillKeeps ==
  ASSUME IInv, Still
  PROVE  Ownership' /\ Working' /\ Down'
<1>1. Working' BY Zenon DEF IInv, Still, Working
<1>2. Down' BY Zenon DEF IInv, Still, Down
<1>3. Admission' /\ Inserting' /\ Entries' BY Zenon DEF IInv, Ownership, Still, Admission, Inserting, Entries
<1>4. AliveOwned' /\ FilesOwned' BY Zenon DEF IInv, Ownership, Still, AliveOwned, FilesOwned, Alive, Owned
<1>5. Unspawned' BY Zenon DEF IInv, Ownership, Still, Unspawned
<1>6. OneCrawl' BY Zenon DEF IInv, Ownership, Still, OneCrawl, Alive
<1> QED BY Zenon, <1>1, <1>2, <1>3, <1>4, <1>5, <1>6 DEF Ownership

\* The spawn: no child of this server is alive, and no bearer of it is left.
LEMMA SpawnOwns ==
  ASSUME IInv, TypeOK', NEW k \in Task, Spawn(k)
  PROVE  Ownership' /\ Working' /\ Down'
<1> USE DEF IInv, Ownership
<1>0. up /\ up' /\ on[k].tenant \in Tenant
  BY Zenon DEF Spawn, Admits, Working, Down
<1>1. PICK c \in Child :
        /\ child[c].state = Unborn
        /\ child' = [child EXCEPT ![c] = [tenant |-> on[k].tenant, mode |-> on[k].mode,
                                          state |-> "alive"]]
        /\ files' = (files \ {entry[t] : t \in Tenant}) \union {c}
        /\ on' = [on EXCEPT ![k] = Holding(k, c)]
  BY Zenon DEF Spawn
<1>2. /\ child'[c].state = "alive" /\ child'[c].tenant = on[k].tenant
      /\ \A d \in Child : d # c => child'[d] = child[d]
  <2>1. child \in [Child -> Process] BY Zenon DEF TypeOK
  <2> QED BY Zenon, <1>1, <2>1
<1>3. on'[k].child = c /\ on'[k].tenant = on[k].tenant /\ pc'[k] = "insert" /\ Apart(k)
  <2>1. Holding(k, c).tenant = on[k].tenant /\ Holding(k, c).child = c BY Zenon, HoldingErrand
  <2>2. pc' = [pc EXCEPT ![k] = "insert"] BY Zenon DEF Spawn
  <2>3. pc \in [Task -> Point] /\ on \in [Task -> Errand] BY Zenon DEF TypeOK
  <2> QED BY Zenon, <1>1, <2>1, <2>2, <2>3 DEF Apart
<1>4. /\ admitting = NoTask /\ admitting' = k /\ UNCHANGED <<up, reaper, lost>>
      /\ \A t \in Tenant : entry'[t] = Nobody /\ ~OwnsLive(t)
  BY Zenon DEF Spawn, Admits, marks
<1>5. \A j \in Task : pc[j] # "insert" /\ j # NoTask
  BY Zenon, <1>4, SyncAssumption DEF Admission
<1>6. c \notin lost /\ reaper[c] = "none" BY Zenon, <1>1 DEF Unspawned
<1>7. \A d \in Child \ lost : ~Alive(d)
  <2> SUFFICES ASSUME NEW d \in Child \ lost, Alive(d) PROVE FALSE OBVIOUS
  <2>1. entry[child[d].tenant] = d BY Zenon, <1>5 DEF AliveOwned, Owned
  <2>2. child[d].tenant \in Tenant BY Zenon DEF Alive, Unborn, Working
  <2> QED BY Zenon, <1>4, <2>1, <2>2, NobodyIsNoChild DEF OwnsLive
<1>8. files' = {c}
  <2> SUFFICES ASSUME NEW d \in files PROVE d \in {entry[t] : t \in Tenant}
    BY Zenon, <1>1
  <2>1. d \in Child /\ child[d].state # Unborn BY Zenon DEF TypeOK, Unspawned
  <2>2. entry[child[d].tenant] = d BY Zenon, <1>0, <1>5 DEF FilesOwned, Owned
  <2> QED BY Zenon, <2>1, <2>2 DEF Working
<1>9. \A d \in Child : Alive(d)' /\ d # c => Alive(d)
  BY Zenon, <1>2 DEF Alive
<1>10. Admission' BY Zenon, <1>3, <1>4, <1>5 DEF Admission, Apart
<1>11. Inserting'
  <2>1. child'[c].state # Unborn BY Zenon, <1>2 DEF Unborn
  <2> QED BY Zenon, <1>2, <1>3, <1>4, <1>5, <1>6, <2>1 DEF Inserting, Apart
<1>12. Entries' BY Zenon, <1>4 DEF Entries
<1>13. Owned(c)' BY Zenon, <1>3 DEF Owned
<1>14. AliveOwned' BY Zenon, <1>4, <1>7, <1>8, <1>9, <1>13 DEF AliveOwned
<1>15. FilesOwned' BY Zenon, <1>8, <1>13 DEF FilesOwned
<1>16. Unspawned'
  <2>1. child'[c].state # Unborn BY Zenon, <1>2 DEF Unborn
  <2> QED BY Zenon, <1>2, <1>4, <1>8, <2>1 DEF Unspawned
<1>17. OneCrawl' BY Zenon, <1>4, <1>7, <1>9 DEF OneCrawl
<1>18. Working' BY Zenon, <1>0, <1>2, <1>3 DEF Working, Apart
<1>19. Down' BY Zenon, <1>0 DEF Down
<1> QED BY Zenon, <1>10, <1>11, <1>12, <1>14, <1>15, <1>16, <1>17, <1>18, <1>19

\* The end of an insert, or of a handler that is dropped before its insert: the
\* lock is free, and no task holds a child.
LEMMA NoneInserts ==
  ASSUME IInv, NEW k \in Task, pc[k] = "insert", Done(k), admitting' = NoTask
  PROVE  /\ up /\ \A j \in Task : pc'[j] # "insert" /\ j # NoTask
         /\ \A j \in Task : pc[j] = "insert" => j = k
         /\ \A t \in Tenant : entry[t] = Nobody
         /\ \A j \in Task : pc'[j] # "idle" => on'[j].tenant \in Tenant
<1> USE DEF IInv, Ownership
<1>0. k \in Loop \/ k \in Request BY Zenon DEF Task
<1>1. up /\ on[k].tenant \in Tenant BY Zenon DEF Down, Working
<1>2. admitting = k /\ k # NoTask BY Zenon, SyncAssumption DEF Admission
<1>3. pc'[k] = "wait" \/ pc'[k] = "idle" BY Zenon, <1>0, DoneMoves
<1>4. \A j \in Task : j # k => pc'[j] = pc[j] /\ on'[j] = on[j] BY Zenon, DoneMoves DEF Apart
<1>5. pc'[k] # "insert" BY Zenon, <1>3
<1>6. \A j \in Task : pc[j] = "insert" => j = k BY Zenon, <1>2 DEF Admission
<1>7. pc'[k] # "idle" => on'[k].tenant \in Tenant
  BY Zenon, <1>0, <1>1, DoneMoves
<1> QED BY Zenon, <1>1, <1>2, <1>4, <1>5, <1>6, <1>7, SyncAssumption DEF Admission, Working

\* The insert: the child passes from the task's hands to its tenant's entry.
LEMMA InsertOwns ==
  ASSUME IInv, TypeOK', NEW k \in Task, Insert(k)
  PROVE  Ownership' /\ Working' /\ Down'
<1> DEFINE c == on[k].child
           t == on[k].tenant
<1> USE DEF IInv, Ownership
<1>0. pc[k] = "insert" /\ Done(k) /\ admitting' = NoTask
        /\ UNCHANGED <<up, child, files, lost>>
  BY Zenon DEF Insert, procs, marks
<1>1. /\ up /\ \A j \in Task : pc'[j] # "insert" /\ j # NoTask
      /\ \A j \in Task : pc[j] = "insert" => j = k
      /\ \A s \in Tenant : entry[s] = Nobody
      /\ \A j \in Task : pc'[j] # "idle" => on'[j].tenant \in Tenant
  BY Zenon, <1>0, NoneInserts
<1>2. c \in Child /\ child[c].state # Unborn /\ child[c].tenant = t BY Zenon, <1>0 DEF Inserting
<1>3. t \in Tenant BY Zenon, <1>2 DEF Working
<1>4. entry'[t] = c /\ \A s \in Tenant : s # t => entry'[s] = Nobody
  <2>1. entry' = [entry EXCEPT ![t] = c] BY Zenon DEF Insert
  <2>2. entry \in [Tenant -> Child \union {Nobody}] BY Zenon DEF TypeOK
  <2> QED BY Zenon, <1>1, <1>3, <2>1, <2>2
<1>5. \A d \in Child : d # c => reaper'[d] = reaper[d]
  <2>1. reaper' = [reaper EXCEPT ![c] = "watch"] BY Zenon DEF Insert
  <2>2. reaper \in [Child -> {"none", "watch", "reconcile", "done"}] BY Zenon DEF TypeOK
  <2> QED BY Zenon, <2>1, <2>2
<1> HIDE DEF c, t
<1>6. ASSUME NEW d \in Child, child[d].state # Unborn, Owned(d) PROVE Owned(d)'
  <2>1. child[d].tenant \in Tenant BY Zenon, <1>6 DEF Working
  <2>2. entry[child[d].tenant] # d BY Zenon, <1>1, <2>1, NobodyIsNoChild
  <2>3. d = c BY Zenon, <1>1, <1>6, <2>2 DEF Owned, c
  <2> QED BY Zenon, <1>0, <1>2, <1>4, <2>3 DEF Owned
<1>7. Admission' BY Zenon, <1>0, <1>1 DEF Admission
<1>8. Inserting' BY Zenon, <1>1 DEF Inserting
<1>9. Entries' BY Zenon, <1>0, <1>2, <1>4 DEF Entries
<1>10. AliveOwned'
  <2> SUFFICES ASSUME NEW d \in Child \ lost, Alive(d) PROVE Owned(d)' /\ d \in files'
    BY Zenon, <1>0 DEF AliveOwned, Alive
  <2>1. child[d].state # Unborn BY Zenon DEF Alive, Unborn
  <2> QED BY Zenon, <1>0, <1>6, <2>1 DEF AliveOwned
<1>11. FilesOwned' BY Zenon, <1>0, <1>1, <1>6 DEF FilesOwned, Unspawned, TypeOK
<1>12. Unspawned' BY Zenon, <1>0, <1>2, <1>5 DEF Unspawned
<1>13. OneCrawl' BY Zenon, <1>0 DEF OneCrawl, Alive
<1>14. Working' BY Zenon, <1>0, <1>1 DEF Working
<1>15. Down' BY Zenon, <1>0, <1>1 DEF Down
<1> QED BY Zenon, <1>7, <1>8, <1>9, <1>10, <1>11, <1>12, <1>13, <1>14, <1>15

\* A handler that is dropped before its insert loses the child and its bearer.
LEMMA DropLoses ==
  ASSUME IInv, TypeOK', NEW r \in Request, Drop(r), pc[r] = "insert"
  PROVE  Ownership' /\ Working' /\ Down'
<1> DEFINE c == on[r].child
<1> USE DEF IInv, Ownership
<1>0. r \in Task BY Zenon DEF Task
<1>1. /\ Done(r) /\ admitting = r /\ admitting' = NoTask
      /\ lost' = lost \union {c} /\ files' = files \ {c} /\ UNCHANGED <<up, child, entry, reaper>>
  BY Zenon, <1>0 DEF Drop, Admission
<1>2. /\ up /\ \A j \in Task : pc'[j] # "insert" /\ j # NoTask
      /\ \A j \in Task : pc[j] = "insert" => j = r
      /\ \A s \in Tenant : entry[s] = Nobody
      /\ \A j \in Task : pc'[j] # "idle" => on'[j].tenant \in Tenant
  BY Zenon, <1>0, <1>1, NoneInserts
<1>3. c \in Child /\ child[c].state # Unborn BY Zenon, <1>0 DEF Inserting
<1> HIDE DEF c
<1>4. ASSUME NEW d \in Child, child[d].state # Unborn, Owned(d) PROVE d = c
  <2>1. child[d].tenant \in Tenant BY Zenon, <1>4 DEF Working
  <2>2. entry[child[d].tenant] # d BY Zenon, <1>2, <2>1, NobodyIsNoChild
  <2> QED BY Zenon, <1>2, <1>4, <2>2 DEF Owned, c
<1>5. Admission' BY Zenon, <1>1, <1>2 DEF Admission
<1>6. Inserting' BY Zenon, <1>2 DEF Inserting
<1>7. Entries' BY Zenon, <1>1, <1>2 DEF Entries
<1>8. \A d \in Child \ lost' : ~Alive(d)
  <2> SUFFICES ASSUME NEW d \in Child \ lost', Alive(d) PROVE FALSE OBVIOUS
  <2>1. child[d].state # Unborn BY Zenon DEF Alive, Unborn
  <2> QED BY Zenon, <1>1, <1>4, <2>1 DEF AliveOwned
<1>9. AliveOwned' /\ OneCrawl' BY Zenon, <1>1, <1>8 DEF AliveOwned, OneCrawl, Alive
<1>10. \A d : d \notin files'
  BY Zenon, <1>1, <1>2, <1>4 DEF FilesOwned, Unspawned, TypeOK
<1>11. FilesOwned' BY Zenon, <1>10 DEF FilesOwned
<1>12. Unspawned' BY Zenon, <1>1, <1>3, <1>10 DEF Unspawned
<1>13. Working' BY Zenon, <1>1, <1>2 DEF Working
<1>14. Down' BY Zenon, <1>1, <1>2 DEF Down
<1> QED BY Zenon, <1>5, <1>6, <1>7, <1>9, <1>11, <1>12, <1>13, <1>14

\* A child that ends keeps its owner.
LEMMA ExitOwns ==
  ASSUME IInv, NEW c \in Child, Exit(c)
  PROVE  Ownership' /\ Working' /\ Down'
<1> USE DEF IInv, Ownership
<1>0. UNCHANGED <<up, armed, cancelled, toggling, pc, on, files, lost, entry, admitting, reaper>>
  BY Zenon DEF Exit, plane, tasks, book, marks
<1>1. /\ child[c].state # Unborn /\ child'[c].tenant = child[c].tenant
      /\ child'[c].state \in {"ok", "failed"}
      /\ \A d \in Child : d # c => child'[d] = child[d]
  <2>1. child \in [Child -> Process] BY Zenon DEF TypeOK
  <2> QED BY <2>1 DEF Exit, Alive, Unborn
<1>2. ~Alive(c)' /\ child'[c].state # Unborn BY Zenon, <1>1 DEF Alive, Unborn
<1>3. \A d \in Child : /\ child'[d].tenant = child[d].tenant
                       /\ child'[d].state = Unborn <=> child[d].state = Unborn
                       /\ Alive(d)' => Alive(d)
  BY Zenon, <1>1, <1>2 DEF Alive
<1>4. \A d \in Child : Owned(d) => Owned(d)' BY Zenon, <1>0, <1>3 DEF Owned
<1>5. Admission' BY Zenon, <1>0 DEF Admission
<1>6. Inserting' BY Zenon, <1>0, <1>3 DEF Inserting
<1>7. Entries'
  <2>1. \A t \in Tenant : entry[t] # Nobody => entry[t] \in Child BY Zenon DEF TypeOK
  <2> QED BY Zenon, <1>0, <1>3, <2>1 DEF Entries
<1>8. AliveOwned' BY Zenon, <1>0, <1>3, <1>4 DEF AliveOwned
<1>9. FilesOwned' BY Zenon, <1>0, <1>4 DEF FilesOwned, TypeOK
<1>10. Unspawned' BY Zenon, <1>0, <1>3 DEF Unspawned
<1>11. OneCrawl' BY Zenon, <1>0, <1>3 DEF OneCrawl
<1>12. Working' BY Zenon, <1>0, <1>3 DEF Working
<1>13. Down' BY Zenon, <1>0, <1>3 DEF Down
<1> QED BY Zenon, <1>5, <1>6, <1>7, <1>8, <1>9, <1>10, <1>11, <1>12, <1>13

\* The crash loses every child; the boot finds none and sweeps every bearer.
LEMMA RestartOwns ==
  ASSUME IInv, Crash \/ Boot
  PROVE  Ownership' /\ Working' /\ Down'
<1> USE DEF IInv, Ownership
<1>1. child' = child BY Zenon DEF Crash, Boot, procs
<1>2. \A j \in Task : pc'[j] # "insert" /\ (pc'[j] # "idle" => on'[j].tenant \in Tenant)
  <2>1. CASE Crash BY Zenon, <2>1 DEF Crash
  <2>2. CASE Boot
    <3>1. \A j \in Task : pc[j] = "idle" BY Zenon, <2>2 DEF Boot, Down
    <3>2. CASE UNCHANGED <<pc, on>> BY Zenon, <3>1, <3>2
    <3>3. CASE Rebooted
      <4>1. \A j \in Task : pc'[j] = "idle" \/ pc'[j] = "wait" BY Zenon, <3>3 DEF Rebooted
      <4>2. \A j \in Task : pc'[j] # "idle" => on'[j].tenant \in Tenant
        <5> SUFFICES ASSUME NEW j \in Task, pc'[j] # "idle" PROVE on'[j].tenant \in Tenant
          OBVIOUS
        <5>1. PICK t \in sched : armed'[t] = j BY Zenon, <3>3 DEF Rebooted
        <5>2. on'[j].tenant = t BY Zenon, <3>3, <5>1 DEF Rebooted
        <5> QED BY Zenon, <5>2 DEF TypeOK
      <4> QED BY Zenon, <4>1, <4>2
    <3> QED BY Zenon, <2>2, <3>2, <3>3, BootMoves
  <2> QED BY Zenon, <2>1, <2>2
<1>3. admitting' = NoTask /\ \A t \in Tenant : entry'[t] = Nobody
  <2>1. CASE Crash BY Zenon, <2>1 DEF Crash
  <2>2. CASE Boot BY Zenon, <2>2 DEF Boot, book, Down
  <2> QED BY Zenon, <2>1, <2>2
<1>4. \A c \in Child : child[c].state # Unborn => c \in lost'
  <2>1. CASE Crash BY Zenon, <2>1 DEF Crash
  <2>2. CASE Boot BY Zenon, <2>2 DEF Boot, Down
  <2> QED BY Zenon, <2>1, <2>2
<1>5. \A c \in Child \ lost' : ~Alive(c)' BY Zenon, <1>1, <1>4 DEF Alive, Unborn
<1>6. Admission' BY Zenon, <1>2, <1>3, SyncAssumption DEF Admission
<1>7. Inserting' /\ Entries' BY Zenon, <1>2, <1>3 DEF Inserting, Entries
<1>8. AliveOwned' /\ OneCrawl' BY Zenon, <1>5 DEF AliveOwned, OneCrawl
<1>9. FilesOwned'
  <2>1. CASE Crash BY Zenon, <2>1 DEF Crash, FilesOwned
  <2>2. CASE Boot BY Zenon, <2>2 DEF Boot, Swept, FilesOwned
  <2> QED BY Zenon, <2>1, <2>2
<1>10. Unspawned'
  <2>1. CASE Crash BY Zenon, <2>1 DEF Crash, procs, Unspawned
  <2>2. CASE Boot BY Zenon, <2>2 DEF Boot, Swept, book, Unspawned
  <2> QED BY Zenon, <2>1, <2>2
<1>11. Working' BY Zenon, <1>1, <1>2 DEF Working
<1>12. Down'
  <2>1. CASE Crash
    <3>1. \A k \in Task : pc'[k] = "idle" BY Zenon, <2>1 DEF Crash
    <3>2. \A t \in Tenant : armed'[t] = NoTask BY Zenon, <2>1 DEF Crash
    <3> QED BY Zenon, <1>1, <1>3, <1>4, <2>1, <3>1, <3>2 DEF Crash, Down
  <2>2. CASE Boot BY Zenon, <2>2 DEF Boot, Down
  <2> QED BY Zenon, <2>1, <2>2
<1> QED BY Zenon, <1>6, <1>7, <1>8, <1>9, <1>10, <1>11, <1>12

\* Handlers and loops keep who owns what.
LEMMA StepOwns ==
  ASSUME IInv, TypeOK', NEW k \in Task, Step(k)
  PROVE  Ownership' /\ Working' /\ Down'
<1>0. TypeOK /\ (k \in Loop \/ k \in Request) BY Zenon DEF IInv, Task
<1>1. pc[k] # "idle" => up /\ on[k].tenant \in Tenant BY Zenon DEF IInv, Down, Working
<1>2. {"check", "unpersist", "persist", "arm", "disarm", "probe", "resolve", "admit"}
        \subseteq Point \ {"insert", "idle"}
  BY Zenon DEF Point
<1>3. ASSUME up, Apart(k), UNCHANGED <<up, child, lost, reaper, admitting>>,
             pc[k] # "insert", pc'[k] # "insert", pc'[k] # "idle" => on'[k].tenant \in Tenant,
             UNCHANGED <<entry, files>> \/ \E S \in SUBSET Tenant : Forgets(S)
      PROVE  Ownership' /\ Working' /\ Down'
  BY Zenon, <1>3, TaskQuiet, QuietKeeps
<1>4. ASSUME up, on[k].tenant \in Tenant, UNCHANGED <<up, child, lost, reaper, admitting>>,
             pc[k] # "insert",
             Done(k) \/ \E at \in Point \ {"insert", "idle"} : Goto(k, at),
             UNCHANGED <<entry, files>> \/ \E S \in SUBSET Tenant : Forgets(S)
      PROVE  Ownership' /\ Working' /\ Down'
  <2>1. CASE Done(k)
    <3>1. Apart(k) /\ (pc'[k] = "wait" \/ pc'[k] = "idle") BY Zenon, <1>0, <2>1, DoneMoves
    <3>2. pc'[k] # "idle" => on'[k].tenant \in Tenant BY Zenon, <1>0, <1>4, <2>1, DoneMoves
    <3>3. pc'[k] # "insert" BY Zenon, <3>1
    <3> QED BY Zenon, <1>3, <1>4, <3>1, <3>2, <3>3
  <2>2. ASSUME NEW at \in Point \ {"insert", "idle"}, Goto(k, at)
        PROVE  Ownership' /\ Working' /\ Down'
    BY Zenon, <1>0, <1>3, <1>4, <2>2, GotoMoves
  <2> QED BY Zenon, <1>4, <2>1, <2>2
<1>5. CASE k \in Request /\ Admit(k)
  BY Zenon, <1>1, <1>2, <1>4, <1>5 DEF Admit, procs, book, marks
<1>6. CASE k \in Request /\ Check(k)
  BY Zenon, <1>1, <1>2, <1>4, <1>6 DEF Check, procs, book, marks
<1>7. CASE k \in Request /\ Persist(k)
  BY Zenon, <1>1, <1>2, <1>4, <1>7 DEF Persist, procs, book, marks
<1>8. CASE k \in Request /\ Arm(k)
  <2>1. PICK l \in Loop :
          /\ pc[l] = "idle"
          /\ pc' = [pc EXCEPT ![l] = "wait", ![k] = "probe"]
          /\ on' = [on EXCEPT ![l] = on[k]]
    BY Zenon, <1>8 DEF Arm
  <2>2. pc[k] = "arm" /\ up /\ on[k].tenant \in Tenant BY Zenon, <1>1, <1>8 DEF Arm
  <2>3. \A j \in Task : /\ pc'[j] = "insert" <=> pc[j] = "insert"
                        /\ pc[j] = "insert" => on'[j] = on[j]
    BY Zenon, <1>0, <2>1, <2>2 DEF TypeOK, Task
  <2>4. \A j \in Task : pc'[j] # "idle" => on'[j].tenant \in Tenant
    BY Zenon, <1>0, <2>1, <2>2 DEF TypeOK, Task, IInv, Working
  <2>5. Quiet BY Zenon, <1>8, <2>2, <2>3, <2>4 DEF Quiet, Arm, procs, book
  <2> QED BY Zenon, <2>5, QuietKeeps
<1>9. CASE k \in Loop /\ Break(k)
  <2>1. pc'[k] = "idle" /\ pc[k] = "wait" /\ Apart(k) /\ up
    BY Zenon, <1>0, <1>1, <1>9 DEF Break, TypeOK, Apart
  <2> QED BY Zenon, <1>3, <1>9, <2>1 DEF Break, procs, book, marks
<1>10. CASE Probe(k)
  <2>1. up /\ on[k].tenant \in Tenant /\ pc[k] = "probe" BY Zenon, <1>1, <1>10 DEF Probe
  <2>2. \E S \in SUBSET Tenant : Forgets(S) BY Zenon, <1>10, <2>1 DEF Probe
  <2>3. Done(k) \/ \E at \in Point \ {"insert", "idle"} : Goto(k, at)
    BY Zenon, <1>2, <1>10 DEF Probe
  <2> QED BY Zenon, <1>4, <1>10, <2>1, <2>2, <2>3 DEF Probe, marks
<1>11. CASE Resolve(k)
  BY Zenon, <1>1, <1>2, <1>4, <1>11 DEF Resolve, procs, book, marks
<1>12. CASE Busy(k)
  <2>1. up /\ on[k].tenant \in Tenant /\ pc[k] = "admit" BY Zenon, <1>1, <1>12 DEF Busy, Admits
  <2>2. UNCHANGED <<entry, files>> \/ \E S \in SUBSET Tenant : Forgets(S)
    BY Zenon, <1>12, <2>1 DEF Busy
  <2> QED BY Zenon, <1>4, <1>12, <2>1, <2>2 DEF Busy, marks
<1>13. CASE Spawn(k) BY Zenon, <1>13, SpawnOwns
<1>14. CASE Insert(k) BY Zenon, <1>14, InsertOwns
<1>15. CASE k \in Request /\ Disarm(k)
  BY Zenon, <1>1, <1>4, <1>15 DEF Disarm, procs, book
<1> QED BY Zenon, <1>5, <1>6, <1>7, <1>8, <1>9, <1>10, <1>11, <1>12, <1>13, <1>14, <1>15 DEF Step

\* Every step keeps who owns what.
LEMMA OwnStep == IInv /\ TypeOK' /\ [Next]_vars => Ownership' /\ Working' /\ Down'
<1> SUFFICES ASSUME IInv, TypeOK', [Next]_vars PROVE Ownership' /\ Working' /\ Down' OBVIOUS
<1>0. TypeOK /\ Request \subseteq Task /\ Loop \subseteq Task BY Zenon DEF IInv, Task
<1>1. ASSUME NEW r \in Request, Handle(r) PROVE Ownership' /\ Working' /\ Down'
  <2>0. {"toggle_on", "toggle_off", "resolve"} \subseteq Point \ {"insert"} BY Zenon DEF Point
  <2>1. ASSUME NEW at \in Point \ {"insert"}, NEW t \in Tenant, NEW m \in Mode, Begin(r, at, t, m),
               up, pc[r] = "idle", UNCHANGED <<up, child, lost, reaper, admitting, entry, files>>
        PROVE  Ownership' /\ Working' /\ Down'
    <3>1. Apart(r) /\ pc'[r] = at /\ on'[r].tenant = t BY Zenon, <1>0, <2>1, BeginMoves
    <3>2. pc[r] # "insert" BY Zenon, <2>1
    <3> QED BY Zenon, <1>0, <2>1, <3>1, <3>2, TaskQuiet, QuietKeeps
  <2>2. ASSUME NEW t \in Synced, NEW enabled \in BOOLEAN, SyncSource(r, t, enabled)
        PROVE  Ownership' /\ Working' /\ Down'
    BY Zenon, <2>0, <2>1, <2>2, SyncAssumption DEF SyncSource, Mode, procs, book, marks
  <2>3. ASSUME NEW t \in Tenant, BackfillSource(r, t) PROVE Ownership' /\ Working' /\ Down'
    BY Zenon, <2>0, <2>1, <2>3 DEF BackfillSource, Mode, procs, book, marks
  <2>4. CASE Drop(r) /\ pc[r] # "insert"
    <3>1. Apart(r) /\ pc'[r] = "idle" BY Zenon, <1>0, <2>4, DoneMoves DEF Drop
    <3>2. admitting # r /\ up BY Zenon, <1>0, <2>4 DEF Drop, IInv, Ownership, Admission, Down
    <3>3. pc'[r] # "insert" BY Zenon, <3>1
    <3>4. UNCHANGED <<up, child, lost, reaper, admitting, entry, files>>
      BY Zenon, <2>4, <3>2 DEF Drop
    <3> QED BY Zenon, <1>0, <2>4, <3>1, <3>2, <3>3, <3>4, TaskQuiet, QuietKeeps
  <2>5. CASE Drop(r) /\ pc[r] = "insert" BY Zenon, <2>5, DropLoses
  <2> QED BY Zenon, <1>1, <2>2, <2>3, <2>4, <2>5 DEF Handle
<1>2. ASSUME NEW l \in Loop, Tick(l) PROVE Ownership' /\ Working' /\ Down'
  <2>1. "probe" \in Point BY Zenon DEF Point
  <2>2. Apart(l) /\ pc[l] = "wait" /\ pc'[l] = "probe" /\ on'[l] = on[l]
    BY Zenon, <1>0, <1>2, <2>1, GotoMoves DEF Tick
  <2>3. pc[l] # "idle" /\ pc[l] # "insert" /\ pc'[l] # "insert" BY Zenon, <2>2
  <2>4. up /\ on[l].tenant \in Tenant BY Zenon, <1>0, <2>3 DEF IInv, Down, Working
  <2>5. UNCHANGED <<up, child, lost, reaper, admitting, entry, files>>
    BY Zenon, <1>2 DEF Tick, procs, book, marks
  <2> QED BY Zenon, <1>0, <2>2, <2>3, <2>4, <2>5, TaskQuiet, QuietKeeps
<1>3. ASSUME NEW c \in Child, Send(c) \/ Record(c) \/ Lose(c) \/ Signal(c)
      PROVE  Ownership' /\ Working' /\ Down'
  <2>1. UNCHANGED <<up, plane, tasks, child, files, book, marks>>
    BY Zenon, <1>3 DEF Send, Record, Lose, Signal
  <2>2. Still BY Zenon, <2>1 DEF Still, plane, tasks, book, marks
  <2> QED BY Zenon, <2>2, StillKeeps
<1>5. ASSUME NEW c \in Child, Reap(c) PROVE Ownership' /\ Working' /\ Down'
  <2> DEFINE t == child[c].tenant
  <2>1. \A d \in Child : reaper[d] = "none" => reaper'[d] = "none"
    BY Zenon, <1>0, <1>5 DEF Reap, TypeOK
  <2>2. CASE UNCHANGED <<entry, files>>
    <3>1. Still BY Zenon, <1>5, <2>1, <2>2 DEF Still, Reap, plane, tasks, marks
    <3> QED BY Zenon, <3>1, StillKeeps
  <2>3. CASE /\ entry[t] = c /\ Exited(c) /\ entry' = [entry EXCEPT ![t] = Nobody]
             /\ files' = files \ {c}
    <3>1. ~Alive(c) /\ child[c].state # Unborn BY Zenon, <2>3 DEF Exited, Alive, Unborn
    <3>2. t \in Tenant BY Zenon, <3>1 DEF IInv, Working
    <3>3. c # Nobody BY Zenon, NobodyIsNoChild
    <3> DEFINE gone == {s \in {t} : entry[s] # Nobody /\ ~Alive(entry[s])}
    <3>4. gone = {t} BY Zenon, <2>3, <3>1, <3>3
    <3>5. entry' = [s \in Tenant |-> IF s \in {t} THEN Nobody ELSE entry[s]]
      BY Zenon, <1>0, <2>3 DEF TypeOK
    <3>6. Forgets({t})
      <4>1. files' = files \ {entry[s] : s \in {t}} BY Zenon, <2>3
      <4>2. Forgets({t}) <=> /\ entry' = [s \in Tenant |-> IF s \in gone THEN Nobody ELSE entry[s]]
                             /\ files' = files \ {entry[s] : s \in gone}
        BY Zenon DEF Forgets
      <4> QED BY Zenon, <3>4, <3>5, <4>1, <4>2
    <3>7. up BY Zenon, <2>3, <3>2, <3>3 DEF IInv, Down
    <3>8. UNCHANGED <<up, child, lost, admitting, pc, on>> BY Zenon, <1>5 DEF Reap, tasks, marks
    <3>9. Quiet BY Zenon, <2>1, <3>2, <3>6, <3>7, <3>8 DEF Quiet, IInv, Working
    <3> QED BY Zenon, <3>9, QuietKeeps
  <2> QED BY Zenon, <1>5, <2>2, <2>3 DEF Reap
<1>6. ASSUME NEW c \in Child, Reconcile(c) PROVE Ownership' /\ Working' /\ Down'
  <2>1. \A d \in Child : reaper[d] = "none" => reaper'[d] = "none"
    BY Zenon, <1>0, <1>6 DEF Reconcile, TypeOK
  <2>2. Still BY Zenon, <1>6, <2>1 DEF Still, Reconcile, plane, tasks, procs
  <2> QED BY Zenon, <2>2, StillKeeps
<1>7. CASE UNCHANGED vars
  <2>1. Still BY Zenon, <1>7 DEF Still, vars, plane, tasks, procs, book, marks
  <2> QED BY Zenon, <2>1, StillKeeps
<1> QED BY Zenon, <1>1, <1>2, <1>3, <1>5, <1>6, <1>7, ExitOwns, StepOwns, RestartOwns
      DEF Next, Crawl

-----------------------------------------------------------------------------
(* Schedules and loops *)

LockPoint == {"check", "persist", "arm", "unpersist", "disarm"}

\* A step of a task that neither writes a row nor arms or disarms a loop ...
Beside(k) ==
    /\ UNCHANGED <<up, sched, armed, cancelled, torn>> /\ Apart(k)
    /\ pc[k] \notin {"arm", "disarm"} /\ pc'[k] \notin {"arm", "disarm"}
    /\ k \in Loop => pc[k] # "idle" /\ pc'[k] # "idle" /\ on'[k].tenant = on[k].tenant

\* ... and does not take the toggle lock.
Aside(k) ==
    /\ Beside(k)
    /\ pc'[k] \in LockPoint => pc[k] \in LockPoint /\ toggling' = toggling
    /\ toggling' = toggling \/ toggling = k

LEMMA BesideKeeps ==
  ASSUME IInv, NEW k \in Task, Beside(k), Locked'
  PROVE  Schedules'
<1> USE DEF IInv, Schedules
<1>0. \A j \in Task : j # k => pc'[j] = pc[j] /\ on'[j] = on[j] BY Zenon DEF Beside, Apart
<1>1. Request \subseteq Task /\ Loop \subseteq Task BY Zenon DEF Task
<1>2. UNCHANGED <<up, sched, armed, cancelled, torn>> BY Zenon DEF Beside
<1>3. Pending' BY Zenon, <1>0, <1>1, <1>2 DEF Beside, Pending
<1>4. Matching'
  <2>1. ASSUME NEW r \in Request, pc[r] \in {"arm", "disarm"}
        PROVE  pc'[r] \in {"arm", "disarm"} /\ on'[r] = on[r]
    BY Zenon, <1>0, <1>1, <2>1 DEF Beside
  <2> QED BY Zenon, <1>2, <2>1 DEF Matching
<1>5. ASSUME NEW l \in Loop PROVE /\ pc'[l] # "idle" <=> pc[l] # "idle"
                                  /\ on'[l].tenant = on[l].tenant
  BY Zenon, <1>0, <1>1 DEF Beside
<1>6. Armed'
  <2>1. \A t \in Tenant : armed[t] # NoTask => armed[t] \in Loop BY Zenon DEF TypeOK
  <2> QED BY Zenon, <1>2, <1>5, <2>1 DEF Armed
<1>7. Looping' BY Zenon, <1>2, <1>5 DEF Looping
<1> QED BY Zenon, <1>3, <1>4, <1>6, <1>7

LEMMA AsideKeeps ==
  ASSUME IInv, NEW k \in Task, Aside(k)
  PROVE  Schedules'
<1>1. Locked'
  <2> SUFFICES ASSUME NEW r \in Request, pc'[r] \in LockPoint PROVE toggling' = r
    BY Zenon DEF Locked, LockPoint
  <2>1. CASE r = k BY Zenon, <2>1 DEF Aside, IInv, Schedules, Locked, LockPoint
  <2>2. CASE r # k
    BY Zenon, <2>2 DEF Aside, Beside, Apart, IInv, Schedules, Locked, LockPoint, Task
  <2> QED BY Zenon, <2>1, <2>2
<1> QED BY Zenon, <1>1, BesideKeeps DEF Aside

\* Steps that leave the tasks and the sync plane alone.
LEMMA PlaneKeeps ==
  ASSUME IInv, UNCHANGED <<up, sched, torn, plane, tasks>>
  PROVE  Schedules'
<1>1. UNCHANGED <<up, sched, torn, armed, cancelled, toggling, pc, on>> BY Zenon DEF plane, tasks
<1>2. Locked' /\ Pending' BY Zenon, <1>1 DEF IInv, Schedules, Locked, Pending
<1>3. Matching' BY <1>1 DEF IInv, Schedules, Matching
<1>4. Armed' /\ Looping' BY Zenon, <1>1 DEF IInv, Schedules, Armed, Looping
<1> QED BY Zenon, <1>2, <1>3, <1>4 DEF Schedules

\* While a toggle is between row and loop, no other is.
LEMMA OneToggle ==
  ASSUME IInv, NEW r \in Request, pc[r] \in LockPoint
  PROVE  /\ toggling = r /\ r \in Task /\ r \notin Loop /\ up /\ on[r].tenant \in Tenant
         /\ \A q \in Request : pc[q] \in LockPoint => q = r
<1>1. r \in Task /\ r \notin Loop BY Zenon, SyncAssumption DEF Task
<1>2. pc[r] # "idle" BY Zenon DEF LockPoint
<1> QED BY Zenon, <1>1, <1>2 DEF IInv, Schedules, Locked, LockPoint, Down, Working

\* The row is written: the toggle will make the loop follow.
LEMMA PersistKeeps ==
  ASSUME IInv, NEW r \in Request, Persist(r)
  PROVE  Schedules'
<1>0. pc[r] \in LockPoint /\ pc[r] \notin {"arm", "disarm"} BY Zenon DEF Persist, LockPoint
<1>1. /\ toggling = r /\ r \in Task /\ r \notin Loop /\ up /\ on[r].tenant \in Tenant
      /\ \A q \in Request : pc[q] \in LockPoint => q = r
  BY Zenon, <1>0, OneToggle
<1>2. CASE Done(r) /\ UNCHANGED sched
  <2>1. Apart(r) /\ pc'[r] = "idle" BY Zenon, <1>1, <1>2, DoneMoves DEF IInv
  <2>2. Aside(r)
    BY Zenon, <1>0, <1>1, <1>2, <2>1 DEF Aside, Beside, Persist, marks, LockPoint
  <2> QED BY Zenon, <1>1, <2>2, AsideKeeps
<1>3. CASE /\ \/ pc[r] = "persist" /\ sched' = sched \union {on[r].tenant} /\ Goto(r, "arm")
              \/ pc[r] = "unpersist" /\ sched' = sched \ {on[r].tenant} /\ Goto(r, "disarm")
           /\ UNCHANGED toggling
  <2>1. "arm" \in Point /\ "disarm" \in Point BY Zenon DEF Point
  <2>2. /\ Apart(r) /\ on'[r] = on[r]
        /\ \/ pc'[r] = "arm" /\ on[r].tenant \in sched'
           \/ pc'[r] = "disarm" /\ on[r].tenant \notin sched'
        /\ \A t \in Tenant : t # on[r].tenant => (t \in sched' <=> t \in sched)
    BY Zenon, <1>1, <1>3, <2>1, GotoMoves DEF IInv
  <2>3. UNCHANGED <<up, armed, cancelled, torn, toggling>> BY Zenon, <1>3 DEF Persist, marks
  <2>4. \A q \in Request : q # r => pc'[q] = pc[q] /\ pc[q] \notin LockPoint
    BY Zenon, <1>1, <2>2 DEF Apart, Task
  <2>5. \A l \in Loop : pc'[l] = pc[l] /\ on'[l] = on[l]
    BY Zenon, <1>1, <2>2 DEF Apart, Task
  <2>6. Locked' BY Zenon, <1>1, <2>3, <2>4 DEF Locked, LockPoint
  <2>7. Pending'
    <3>1. \A q \in Request : q # r => pc'[q] # "arm" /\ pc'[q] # "disarm"
      BY Zenon, <2>4 DEF LockPoint
    <3>2. "arm" # "disarm" OBVIOUS
    <3> QED BY Zenon, <2>2, <3>1, <3>2 DEF Pending
  <2>8. Matching'
    <3> SUFFICES ASSUME NEW t \in Tenant \ torn
                 PROVE  \/ armed[t] # NoTask <=> t \in sched'
                        \/ t = on[r].tenant
      BY Zenon, <2>2, <2>3 DEF Matching
    <3>1. \A q \in Request : pc[q] \notin {"arm", "disarm"}
      BY Zenon, <1>0, <1>1 DEF LockPoint
    <3> QED BY Zenon, <1>1, <2>2, <3>1 DEF IInv, Schedules, Matching
  <2>9. Armed'
    <3>1. \A t \in Tenant : armed[t] # NoTask => armed[t] \in Loop BY Zenon DEF IInv, TypeOK
    <3> QED BY Zenon, <2>3, <2>5, <3>1 DEF IInv, Schedules, Armed
  <2>10. Looping' BY Zenon, <2>3, <2>5 DEF IInv, Schedules, Looping
  <2> QED BY Zenon, <2>6, <2>7, <2>8, <2>9, <2>10 DEF Schedules
<1> QED BY Zenon, <1>2, <1>3 DEF Persist

\* The loop that is started, of the toggle's tenant, takes the place of its loop,
\* which is told to stop.
LEMMA ArmKeeps ==
  ASSUME IInv, TypeOK', NEW r \in Request, Arm(r)
  PROVE  Schedules'
<1> DEFINE t == on[r].tenant
<1>0. pc[r] \in LockPoint /\ pc[r] = "arm" BY Zenon DEF Arm, LockPoint
<1>1. /\ toggling = r /\ r \in Task /\ r \notin Loop /\ up /\ t \in Tenant
      /\ \A q \in Request : pc[q] \in LockPoint => q = r
  BY Zenon, <1>0, OneToggle
<1>2. PICK l \in Loop :
        /\ pc[l] = "idle"
        /\ armed' = [armed EXCEPT ![t] = l]
        /\ cancelled' = (cancelled \union ({armed[t]} \ {NoTask})) \ {l}
        /\ pc' = [pc EXCEPT ![l] = "wait", ![r] = "probe"]
        /\ on' = [on EXCEPT ![l] = on[r]]
  BY Zenon DEF Arm
<1>3. /\ l \in Task /\ l # r /\ pc'[l] = "wait" /\ pc'[r] = "probe" /\ on'[l].tenant = t
      /\ \A j \in Task : j # l => on'[j] = on[j] /\ (j # r => pc'[j] = pc[j])
  BY Zenon, <1>1, <1>2 DEF IInv, TypeOK, Task
<1>4. /\ armed'[t] = l /\ \A s \in Tenant : s # t => armed'[s] = armed[s]
  BY Zenon, <1>1, <1>2 DEF IInv, TypeOK
<1>5. UNCHANGED <<up, sched, toggling>> /\ torn' = torn \ {t} BY Zenon DEF Arm
<1>6. t \in sched BY Zenon, <1>0 DEF IInv, Schedules, Pending
<1>7. l # NoTask /\ NoTask \notin Task BY Zenon, <1>3, SyncAssumption
<1>8. \A s \in Tenant : armed[s] # l BY Zenon, <1>2, <1>7 DEF IInv, Schedules, Armed
<1>9. \A q \in Request : pc'[q] \notin LockPoint
  <2>1. \A q \in Request : q \in Task /\ q # l BY Zenon, <1>2, SyncAssumption DEF Task
  <2>2. pc'[r] \notin LockPoint BY Zenon, <1>3 DEF LockPoint
  <2> QED BY Zenon, <1>1, <1>3, <2>1, <2>2
<1> HIDE DEF t
<1>10. Locked' /\ Pending'
  <2>1. \A q \in Request : pc'[q] # "arm" /\ pc'[q] # "disarm" BY Zenon, <1>9 DEF LockPoint
  <2> QED BY Zenon, <1>9, <2>1 DEF Locked, Pending, LockPoint
<1>11. Matching'
  <2> SUFFICES ASSUME NEW s \in Tenant, s \notin torn' PROVE armed'[s] # NoTask <=> s \in sched
    BY Zenon, <1>5 DEF Matching
  <2>1. CASE s = t BY Zenon, <1>4, <1>6, <1>7, <2>1
  <2>2. CASE s # t
    <3>1. s \notin torn BY Zenon, <1>5, <2>2
    <3>2. \A q \in Request : pc[q] \in {"arm", "disarm"} => on[q].tenant # s
      BY Zenon, <1>1, <2>2 DEF LockPoint, t
    <3> QED BY Zenon, <1>1, <1>4, <2>2, <3>1, <3>2 DEF IInv, Schedules, Matching
  <2> QED BY Zenon, <2>1, <2>2
<1>12. Armed'
  <2> SUFFICES ASSUME NEW s \in Tenant, armed'[s] # NoTask
               PROVE  /\ pc'[armed'[s]] # "idle" /\ on'[armed'[s]].tenant = s
                      /\ armed'[s] \notin cancelled'
    BY Zenon DEF Armed
  <2>1. CASE s = t
    <3>1. pc'[l] # "idle" BY Zenon, <1>3
    <3>2. l \notin cancelled' BY Zenon, <1>2
    <3> QED BY Zenon, <1>3, <1>4, <2>1, <3>1, <3>2
  <2>2. CASE s # t
    <3>1. armed'[s] = armed[s] /\ armed[s] # l BY Zenon, <1>4, <1>8, <2>2
    <3>2. armed[s] \in Loop /\ armed[s] \in Task /\ armed[s] # r
      BY Zenon, <1>1, <3>1 DEF IInv, TypeOK, Task
    <3>3. pc[armed[s]] # "idle" /\ on[armed[s]].tenant = s /\ armed[s] \notin cancelled
      BY Zenon, <3>1 DEF IInv, Schedules, Armed
    <3>4. armed[s] # armed[t]
      BY Zenon, <1>1, <2>2, <3>1, <3>3 DEF IInv, Schedules, Armed
    <3>5. armed[s] \notin cancelled' BY Zenon, <1>2, <3>3, <3>4
    <3> QED BY Zenon, <1>3, <3>1, <3>2, <3>3, <3>5
  <2> QED BY Zenon, <2>1, <2>2
<1>13. Looping'
  <2> SUFFICES ASSUME NEW m \in Loop, pc'[m] # "idle", m \notin cancelled'
               PROVE  armed'[on'[m].tenant] = m
    BY Zenon DEF Looping
  <2>1. CASE m = l BY Zenon, <1>3, <1>4, <2>1
  <2>2. CASE m # l
    <3>1. m \in Task /\ m # r BY Zenon, <1>1 DEF Task
    <3>2. pc[m] # "idle" /\ on'[m] = on[m] BY Zenon, <1>3, <2>2, <3>1
    <3>3. m \notin cancelled /\ m # armed[t] BY Zenon, <1>2, <1>7, <2>2, <3>1
    <3>4. armed[on[m].tenant] = m /\ on[m].tenant \in Tenant
      BY Zenon, <3>1, <3>2, <3>3 DEF IInv, Schedules, Looping, Working
    <3> QED BY Zenon, <1>4, <3>2, <3>3, <3>4
  <2> QED BY Zenon, <2>1, <2>2
<1> QED BY Zenon, <1>10, <1>11, <1>12, <1>13 DEF Schedules

\* The loop of the toggle's tenant leaves the map and is told to stop.
LEMMA DisarmKeeps ==
  ASSUME IInv, TypeOK', NEW r \in Request, Disarm(r)
  PROVE  Schedules'
<1> DEFINE t == on[r].tenant
<1>0. pc[r] \in LockPoint /\ pc[r] = "disarm" BY Zenon DEF Disarm, LockPoint
<1>1. /\ toggling = r /\ r \in Task /\ r \notin Loop /\ up /\ t \in Tenant
      /\ \A q \in Request : pc[q] \in LockPoint => q = r
  BY Zenon, <1>0, OneToggle
<1>2. Apart(r) /\ pc'[r] = "idle" BY Zenon, <1>1, DoneMoves DEF IInv, Disarm
<1>3. armed'[t] = NoTask /\ \A s \in Tenant : s # t => armed'[s] = armed[s]
  BY Zenon, <1>1 DEF IInv, TypeOK, Disarm
<1>4. /\ UNCHANGED <<up, sched>> /\ torn' = torn \ {t}
      /\ cancelled' = cancelled \union ({armed[t]} \ {NoTask})
  BY Zenon DEF Disarm
<1>5. t \notin sched BY Zenon, <1>0 DEF IInv, Schedules, Pending
<1>6. \A q \in Request : pc'[q] \notin LockPoint
  <2>1. pc'[r] \notin LockPoint BY Zenon, <1>2 DEF LockPoint
  <2> QED BY Zenon, <1>1, <1>2, <2>1 DEF Apart, Task
<1>7. \A m \in Loop : m \in Task /\ m # NoTask /\ pc'[m] = pc[m] /\ on'[m] = on[m]
  BY Zenon, <1>1, <1>2, SyncAssumption DEF Apart, Task
<1> HIDE DEF t
<1>8. Locked' /\ Pending'
  <2>1. \A q \in Request : pc'[q] # "arm" /\ pc'[q] # "disarm" BY Zenon, <1>6 DEF LockPoint
  <2> QED BY Zenon, <1>6, <2>1 DEF Locked, Pending, LockPoint
<1>9. Matching'
  <2> SUFFICES ASSUME NEW s \in Tenant, s \notin torn' PROVE armed'[s] # NoTask <=> s \in sched
    BY Zenon, <1>4 DEF Matching
  <2>1. CASE s = t BY Zenon, <1>3, <1>5, <2>1
  <2>2. CASE s # t
    <3>1. s \notin torn BY Zenon, <1>4, <2>2
    <3>2. \A q \in Request : pc[q] \in {"arm", "disarm"} => on[q].tenant # s
      BY Zenon, <1>1, <2>2 DEF LockPoint, t
    <3> QED BY Zenon, <1>1, <1>3, <2>2, <3>1, <3>2 DEF IInv, Schedules, Matching
  <2> QED BY Zenon, <2>1, <2>2
<1>10. Armed'
  <2> SUFFICES ASSUME NEW s \in Tenant, armed'[s] # NoTask
               PROVE  /\ pc'[armed'[s]] # "idle" /\ on'[armed'[s]].tenant = s
                      /\ armed'[s] \notin cancelled'
    BY Zenon DEF Armed
  <2>1. s # t /\ armed'[s] = armed[s] BY Zenon, <1>3
  <2>2. armed[s] \in Loop BY Zenon, <2>1 DEF IInv, TypeOK
  <2>3. pc[armed[s]] # "idle" /\ on[armed[s]].tenant = s /\ armed[s] \notin cancelled
    BY Zenon, <2>1 DEF IInv, Schedules, Armed
  <2>4. armed[s] # armed[t] BY Zenon, <1>1, <2>1, <2>3 DEF IInv, Schedules, Armed
  <2> QED BY Zenon, <1>4, <1>7, <2>1, <2>2, <2>3, <2>4
<1>11. Looping'
  <2> SUFFICES ASSUME NEW m \in Loop, pc'[m] # "idle", m \notin cancelled'
               PROVE  armed'[on'[m].tenant] = m
    BY Zenon DEF Looping
  <2>1. m \notin cancelled /\ m # armed[t] BY Zenon, <1>4, <1>7
  <2>2. armed[on[m].tenant] = m /\ on[m].tenant \in Tenant
    BY Zenon, <1>7, <2>1 DEF IInv, Schedules, Looping, Working
  <2> QED BY Zenon, <1>3, <1>7, <2>1, <2>2
<1> QED BY Zenon, <1>8, <1>9, <1>10, <1>11 DEF Schedules

\* A toggle that takes the lock; no other holds it.
LEMMA AdmitKeeps ==
  ASSUME IInv, NEW r \in Request, Admit(r)
  PROVE  Schedules'
<1>0. r \in Task /\ r \notin Loop /\ r # NoTask BY Zenon, SyncAssumption DEF Task
<1>1. "check" \in Point /\ "unpersist" \in Point BY Zenon DEF Point
<1>2. Apart(r) /\ (pc'[r] = "check" \/ pc'[r] = "unpersist")
  BY Zenon, <1>0, <1>1, GotoMoves DEF IInv, Admit
<1>3. toggling = NoTask /\ toggling' = r BY Zenon DEF Admit
<1>4. Beside(r) BY Zenon, <1>0, <1>2 DEF Beside, Admit, marks
<1>5. Locked'
  <2>1. \A q \in Request : pc[q] \notin LockPoint
    BY Zenon, <1>3, SyncAssumption DEF IInv, Schedules, Locked, LockPoint, Task
  <2> QED BY Zenon, <1>2, <1>3, <2>1 DEF Locked, LockPoint, Apart, Task
<1> QED BY Zenon, <1>0, <1>4, <1>5, BesideKeeps

\* A loop that was told to stop is not in the map.
LEMMA BreakKeeps ==
  ASSUME IInv, NEW l \in Loop, Break(l)
  PROVE  Schedules'
<1> USE DEF IInv, Schedules
<1>0. /\ l \in Task /\ l \in cancelled /\ cancelled' = cancelled \ {l} /\ pc'[l] = "idle"
      /\ \A j \in Task : j # l => pc'[j] = pc[j] /\ on'[j] = on[j]
      /\ UNCHANGED <<up, sched, armed, toggling, torn>>
  BY Zenon DEF Break, TypeOK, Task, marks
<1>1. \A r \in Request : pc'[r] = pc[r] /\ on'[r] = on[r]
  BY Zenon, <1>0, SyncAssumption DEF Task
<1>2. Locked' /\ Pending' BY Zenon, <1>0, <1>1 DEF Locked, Pending
<1>3. Matching' BY <1>0, <1>1 DEF Matching
<1>4. Armed'
  <2>1. \A t \in Tenant : armed[t] # NoTask => armed[t] \in Task BY Zenon DEF TypeOK, Task
  <2>2. \A t \in Tenant : armed[t] # NoTask => armed[t] # l BY Zenon, <1>0 DEF Armed
  <2> QED BY Zenon, <1>0, <2>1, <2>2 DEF Armed
<1>5. Looping'
  <2> SUFFICES ASSUME NEW m \in Loop, pc'[m] # "idle", m \notin cancelled'
               PROVE  armed'[on'[m].tenant] = m
    BY Zenon DEF Looping
  <2>1. m # l /\ m \in Task BY Zenon, <1>0 DEF Task
  <2> QED BY Zenon, <1>0, <2>1 DEF Looping
<1> QED BY Zenon, <1>2, <1>3, <1>4, <1>5

\* A handler that is dropped gives its lock back; between row and loop, its
\* tenant is torn.
LEMMA DropKeeps ==
  ASSUME IInv, NEW r \in Request, Drop(r)
  PROVE  Schedules'
<1>0. r \in Task /\ r \notin Loop BY Zenon, SyncAssumption DEF Task
<1>1. Apart(r) /\ pc'[r] = "idle" /\ toggling' = (IF toggling = r THEN NoTask ELSE toggling)
  BY Zenon, <1>0, DoneMoves DEF IInv, Drop
<1>2. pc'[r] \notin LockPoint BY Zenon, <1>1 DEF LockPoint
<1>3. CASE pc[r] \notin {"arm", "disarm"}
  <2>1. UNCHANGED <<up, sched, armed, cancelled, torn>> BY Zenon, <1>3 DEF Drop
  <2>2. Aside(r) BY Zenon, <1>0, <1>1, <1>2, <1>3, <2>1 DEF Aside, Beside, LockPoint
  <2> QED BY Zenon, <1>0, <2>2, AsideKeeps
<1>4. CASE pc[r] \in {"arm", "disarm"}
  <2>1. /\ toggling = r /\ up /\ \A q \in Request : pc[q] \in LockPoint => q = r
    BY Zenon, <1>4, OneToggle DEF LockPoint
  <2>2. torn' = torn \union {on[r].tenant} /\ UNCHANGED <<up, sched, armed, cancelled>>
    BY Zenon, <1>4 DEF Drop
  <2>3. \A q \in Request : pc'[q] \notin LockPoint
    BY Zenon, <1>1, <1>2, <2>1 DEF Apart, Task
  <2>4. \A m \in Loop : pc'[m] = pc[m] /\ on'[m] = on[m] BY Zenon, <1>0, <1>1 DEF Apart, Task
  <2>5. Locked' /\ Pending'
    <3>1. \A q \in Request : pc'[q] # "arm" /\ pc'[q] # "disarm" BY Zenon, <2>3 DEF LockPoint
    <3> QED BY Zenon, <2>3, <3>1 DEF Locked, Pending, LockPoint
  <2>6. Matching'
    <3> SUFFICES ASSUME NEW t \in Tenant, t \notin torn' PROVE armed[t] # NoTask <=> t \in sched
      BY Zenon, <2>2 DEF Matching
    <3>1. t \notin torn /\ t # on[r].tenant BY Zenon, <2>2
    <3>2. \A q \in Request : pc[q] \in {"arm", "disarm"} => on[q].tenant # t
      BY Zenon, <2>1, <3>1 DEF LockPoint
    <3> QED BY Zenon, <2>1, <3>1, <3>2 DEF IInv, Schedules, Matching
  <2>7. Armed'
    <3>1. \A t \in Tenant : armed[t] # NoTask => armed[t] \in Loop BY Zenon DEF IInv, TypeOK
    <3> QED BY Zenon, <2>2, <2>4, <3>1 DEF IInv, Schedules, Armed
  <2>8. Looping' BY Zenon, <2>2, <2>4 DEF IInv, Schedules, Looping
  <2> QED BY Zenon, <2>5, <2>6, <2>7, <2>8 DEF Schedules
<1> QED BY Zenon, <1>3, <1>4

\* The crash ends every loop; the boot starts those of the schedules again.
LEMMA RestartKeeps ==
  ASSUME IInv, Crash \/ Boot
  PROVE  Schedules'
<1>1. CASE Crash
  <2>1. \A k \in Task : pc'[k] = "idle" BY Zenon, <1>1 DEF Crash
  <2>2. \A t \in Tenant : armed'[t] = NoTask BY Zenon, <1>1 DEF Crash
  <2>3. \A r \in Request : pc'[r] = "idle" /\ "idle" \notin LockPoint BY Zenon, <2>1 DEF Task, LockPoint
  <2>4. Locked' /\ Pending'
    <3>1. \A r \in Request : pc'[r] # "arm" /\ pc'[r] # "disarm" BY Zenon, <2>3
    <3> QED BY Zenon, <2>3, <3>1 DEF Locked, Pending, LockPoint
  <2>5. Matching' BY Zenon, <1>1 DEF Crash, Matching
  <2>6. Armed' /\ Looping' BY Zenon, <2>1, <2>2 DEF Armed, Looping, Task
  <2> QED BY Zenon, <2>4, <2>5, <2>6 DEF Schedules
<1>2. CASE Boot
  <2>0. cancelled' = {} /\ sched' = sched /\ sched \subseteq Tenant
    BY Zenon, <1>2 DEF Boot, IInv, Down, TypeOK
  <2>1. /\ \A k \in Task : pc[k] = "idle"
        /\ \A t \in Tenant : armed[t] = NoTask
    BY Zenon, <1>2 DEF Boot, IInv, Down
  <2>2. CASE torn' = sched /\ UNCHANGED <<armed, pc, on>>
    <3>1. \A r \in Request : pc'[r] \notin LockPoint /\ pc'[r] # "arm" /\ pc'[r] # "disarm"
      BY Zenon, <2>1, <2>2 DEF Task, LockPoint
    <3>2. Locked' /\ Pending' BY Zenon, <3>1 DEF Locked, Pending, LockPoint
    <3>3. Matching' BY Zenon, <2>0, <2>1, <2>2 DEF Matching
    <3>4. Armed' /\ Looping' BY Zenon, <2>1, <2>2 DEF Armed, Looping, Task
    <3> QED BY Zenon, <3>2, <3>3, <3>4 DEF Schedules
  <2>3. CASE Rebooted
    <3>1. \A k \in Task : pc'[k] = "idle" \/ pc'[k] = "wait" BY Zenon, <2>3 DEF Rebooted
    <3>2. \A r \in Request : pc'[r] \notin LockPoint /\ pc'[r] # "arm" /\ pc'[r] # "disarm"
      BY Zenon, <3>1 DEF Task, LockPoint
    <3>3. Locked' /\ Pending' BY Zenon, <3>2 DEF Locked, Pending, LockPoint
    <3>4. Matching' BY Zenon, <2>0, <2>3 DEF Rebooted, Matching
    <3>5. Armed'
      <4>1. \A t \in sched : pc'[armed'[t]] # "idle" BY Zenon, <2>3 DEF Rebooted
      <4> QED BY Zenon, <2>0, <2>3, <4>1 DEF Rebooted, Armed
    <3>6. Looping'
      <4> SUFFICES ASSUME NEW m \in Loop, pc'[m] # "idle" PROVE armed'[on'[m].tenant] = m
        BY Zenon DEF Looping
      <4>1. m \in Task BY Zenon DEF Task
      <4>2. PICK t \in sched : armed'[t] = m BY Zenon, <2>3, <4>1 DEF Rebooted
      <4> QED BY Zenon, <2>3, <4>2 DEF Rebooted
    <3> QED BY Zenon, <3>3, <3>4, <3>5, <3>6 DEF Schedules
  <2> QED BY Zenon, <1>2, <2>2, <2>3, BootMoves
<1> QED BY Zenon, <1>1, <1>2

\* Every step keeps the loops in line with the schedules.
LEMMA ScheduleStep == IInv /\ TypeOK' /\ [Next]_vars => Schedules'
<1> SUFFICES ASSUME IInv, TypeOK', [Next]_vars PROVE Schedules' OBVIOUS
<1>0. TypeOK /\ Request \subseteq Task /\ Loop \subseteq Task BY Zenon DEF IInv, Task
<1>1. \A k \in Task : (k \in Loop \/ k \in Request) /\ ~(k \in Loop /\ k \in Request)
  BY Zenon, SyncAssumption DEF Task
<1>2. ASSUME NEW k \in Task, UNCHANGED <<up, sched, armed, cancelled, torn>>,
             pc[k] \notin {"arm", "disarm"}, pc[k] # "idle",
             \/ Done(k)
             \/ \E at \in Point \ {"arm", "disarm", "idle"} :
                   /\ Goto(k, at) /\ UNCHANGED toggling
                   /\ at \in LockPoint => pc[k] \in LockPoint
      PROVE  Schedules'
  <2>1. CASE Done(k)
    <3>1. /\ Apart(k) /\ (pc'[k] = "idle" \/ pc'[k] = "wait")
          /\ k \in Loop => pc'[k] = "wait" /\ on'[k].tenant = on[k].tenant
          /\ toggling' = (IF toggling = k THEN NoTask ELSE toggling)
      BY Zenon, <1>0, <1>1, <2>1, DoneMoves
    <3>2. pc'[k] \notin LockPoint /\ pc'[k] \notin {"arm", "disarm"} BY Zenon, <3>1 DEF LockPoint
    <3>3. k \in Loop => pc'[k] # "idle" BY Zenon, <3>1
    <3>4. Aside(k) BY Zenon, <1>2, <3>1, <3>2, <3>3 DEF Aside, Beside
    <3> QED BY Zenon, <3>4, AsideKeeps
  <2>2. ASSUME NEW at \in Point \ {"arm", "disarm", "idle"}, Goto(k, at), UNCHANGED toggling,
               at \in LockPoint => pc[k] \in LockPoint
        PROVE  Schedules'
    <3>1. Apart(k) /\ pc'[k] = at /\ on'[k] = on[k] BY Zenon, <1>0, <2>2, GotoMoves
    <3>2. Aside(k) BY Zenon, <1>2, <2>2, <3>1 DEF Aside, Beside
    <3> QED BY Zenon, <3>2, AsideKeeps
  <2> QED BY Zenon, <1>2, <2>1, <2>2
<1>3. {"probe", "resolve", "admit"} \subseteq (Point \ {"arm", "disarm", "idle"}) \ LockPoint
  BY Zenon DEF Point, LockPoint
<1>4. ASSUME NEW r \in Request, Handle(r) PROVE Schedules'
  <2>1. ASSUME NEW at \in {"toggle_on", "toggle_off", "resolve"}, NEW t \in Tenant,
               NEW m \in {"poll", "backfill"}, Begin(r, at, t, m), pc[r] = "idle",
               UNCHANGED <<up, sched, plane, marks>>
        PROVE  Schedules'
    <3>1. at \in Point /\ m \in Mode BY Zenon DEF Point, Mode
    <3>2. Apart(r) /\ pc'[r] = at BY Zenon, <1>0, <2>1, <3>1, BeginMoves
    <3>3. Aside(r) BY Zenon, <1>0, <1>1, <2>1, <3>2 DEF Aside, Beside, LockPoint, plane, marks
    <3> QED BY Zenon, <1>0, <3>3, AsideKeeps
  <2>2. ASSUME NEW t \in Synced, NEW enabled \in BOOLEAN, SyncSource(r, t, enabled)
        PROVE  Schedules'
    BY Zenon, <2>1, <2>2, SyncAssumption DEF SyncSource
  <2>3. ASSUME NEW t \in Tenant, BackfillSource(r, t) PROVE Schedules'
    BY Zenon, <2>1, <2>3 DEF BackfillSource
  <2> QED BY Zenon, <1>4, <2>2, <2>3, DropKeeps DEF Handle
<1>5. ASSUME NEW k \in Task, Step(k) PROVE Schedules'
  <2>1. CASE k \in Request /\ Check(k)
    <3>1. "persist" \in Point \ {"arm", "disarm", "idle"} /\ "check" \in LockPoint
      BY Zenon DEF Point, LockPoint
    <3> QED BY Zenon, <1>2, <2>1, <3>1 DEF Check, marks
  <2>2. CASE Probe(k) BY Zenon, <1>2, <1>3, <2>2 DEF Probe, marks
  <2>3. CASE Resolve(k) BY Zenon, <1>2, <1>3, <2>3 DEF Resolve, marks
  <2>4. CASE Busy(k) BY Zenon, <1>2, <2>4 DEF Busy, Admits, marks
  <2>5. CASE Insert(k) BY Zenon, <1>2, <2>5 DEF Insert, marks
  <2>6. CASE Spawn(k)
    <3>1. pc[k] = "admit" /\ pc' = [pc EXCEPT ![k] = "insert"]
            /\ \E c \in Child : on' = [on EXCEPT ![k] = Holding(k, c)]
      BY Zenon, <2>6 DEF Spawn, Admits
    <3>2. pc'[k] = "insert" /\ Apart(k) /\ on'[k].tenant = on[k].tenant
      BY <1>0, <3>1, HoldingErrand DEF TypeOK, Apart
    <3>3. Aside(k) BY Zenon, <2>6, <3>1, <3>2 DEF Aside, Beside, LockPoint, Spawn, plane, marks
    <3> QED BY Zenon, <3>3, AsideKeeps
  <2> QED BY Zenon, <1>5, <2>1, <2>2, <2>3, <2>4, <2>5, <2>6, AdmitKeeps, PersistKeeps, ArmKeeps,
             DisarmKeeps, BreakKeeps DEF Step
<1>6. ASSUME NEW l \in Loop, Tick(l) PROVE Schedules'
  <2>1. UNCHANGED <<up, sched, armed, cancelled, torn, toggling>>
    BY Zenon, <1>6 DEF Tick, plane, marks
  <2> QED BY Zenon, <1>0, <1>2, <1>3, <1>6, <2>1 DEF Tick
<1>7. ASSUME NEW c \in Child, Crawl(c) \/ Reap(c) \/ Reconcile(c) PROVE Schedules'
  <2>1. UNCHANGED <<up, sched, torn, plane, tasks>>
    BY Zenon, <1>7 DEF Crawl, Send, Record, Lose, Signal, Exit, Reap, Reconcile, marks
  <2> QED BY Zenon, <2>1, PlaneKeeps
<1>8. CASE UNCHANGED vars
  <2>1. UNCHANGED <<up, sched, torn, plane, tasks>> BY Zenon, <1>8 DEF vars, marks
  <2> QED BY Zenon, <2>1, PlaneKeeps
<1> QED BY Zenon, <1>4, <1>5, <1>6, <1>7, <1>8, RestartKeeps DEF Next

-----------------------------------------------------------------------------
(* Outcomes *)

Outcome(c) ==
    IF child[c].state = "failed" THEN run[c] = "failed"
    ELSE run[c] = "degraded_acl" \/ (run[c] = "completed" /\ c \notin log)

\* What a sealed run needs: nothing of it changes any more.
Over(c) == reaper[c] = "done" /\ post[c] = "none" /\ Exited(c) /\ Outcome(c)

LEMMA SealedMeans ==
  Sealed <=> /\ \A c \in sealed : Over(c)
             /\ \A c \in Child : reaper[c] = "reconcile" => Exited(c)
  BY Zenon DEF Sealed, OutcomeStands, Over, Outcome

\* Runs that a step leaves alone keep what they have.
LEMMA OverFrame ==
  ASSUME NEW c, UNCHANGED <<child[c], reaper[c], post[c], run[c]>>, c \in log' <=> c \in log, Over(c)
  PROVE  Over(c)'
  BY Zenon DEF Over, Exited, Outcome

\* Every step leaves the runs that are over alone.
LEMMA SealedStep == IInv /\ TypeOK' /\ [Next]_vars => Sealed'
<1> SUFFICES ASSUME IInv, TypeOK', [Next]_vars
             PROVE  /\ \A c \in sealed' : Over(c)'
                    /\ \A c \in Child : reaper'[c] = "reconcile" => Exited(c)'
  BY Zenon, SealedMeans DEF Sealed, OutcomeStands, Over, Outcome
<1>0. /\ \A c \in sealed : Over(c) /\ c \in Child
      /\ \A c \in Child : reaper[c] = "reconcile" => Exited(c)
  BY Zenon, SealedMeans DEF IInv, TypeOK
<1>1. /\ child \in [Child -> Process] /\ post \in [Child -> (Report \ {"degraded"}) \union {"none"}]
      /\ reaper \in [Child -> {"none", "watch", "reconcile", "done"}]
      /\ run \in [Child -> Verdict \union {"none", "running"}]
  BY Zenon DEF IInv, TypeOK
<1>2. ASSUME NEW k \in Child, sealed' = sealed, k \notin sealed,
             \A c \in Child : c # k => /\ UNCHANGED <<child[c], reaper[c], post[c], run[c]>>
                                       /\ c \in log' <=> c \in log,
             reaper'[k] = "reconcile" => Exited(k)'
      PROVE  /\ \A c \in sealed' : Over(c)'
             /\ \A c \in Child : reaper'[c] = "reconcile" => Exited(c)'
  <2>1. \A c \in sealed : Over(c)' BY Zenon, <1>0, <1>2, OverFrame
  <2>2. \A c \in Child : c # k => (reaper'[c] = "reconcile" => Exited(c)')
    BY Zenon, <1>0, <1>2 DEF Exited
  <2> QED BY Zenon, <1>2, <2>1, <2>2
<1>3. CASE UNCHANGED <<child, reaper, post, run, log, sealed>>
  BY Zenon, <1>0, <1>3, OverFrame DEF Exited
<1>4. ASSUME NEW k \in Task, Spawn(k)
      PROVE  /\ \A c \in sealed' : Over(c)'
             /\ \A c \in Child : reaper'[c] = "reconcile" => Exited(c)'
  <2>1. PICK c \in Child :
          /\ child[c].state = Unborn
          /\ \A d \in Child : d # c => child'[d] = child[d]
    <3>1. PICK c \in Child :
            /\ child[c].state = Unborn
            /\ child' = [child EXCEPT ![c] = [tenant |-> on[k].tenant, mode |-> on[k].mode,
                                              state |-> "alive"]]
      BY Zenon, <1>4 DEF Spawn
    <3> QED BY Zenon, <1>1, <3>1
  <2>2. c \notin sealed BY Zenon, <1>0, <2>1 DEF Over, Exited, Unborn
  <2>3. reaper[c] = "none" BY Zenon, <2>1 DEF IInv, Ownership, Unspawned
  <2>4. UNCHANGED <<reaper, post, run, log, sealed>> BY Zenon, <1>4 DEF Spawn, marks
  <2>5. reaper'[c] # "reconcile" BY Zenon, <2>3, <2>4
  <2> QED BY Zenon, <1>2, <2>1, <2>2, <2>4, <2>5
<1>5. ASSUME NEW k \in Task, Insert(k)
      PROVE  /\ \A c \in sealed' : Over(c)'
             /\ \A c \in Child : reaper'[c] = "reconcile" => Exited(c)'
  <2> DEFINE c == on[k].child
  <2>1. c \in Child /\ reaper[c] = "none" BY Zenon, <1>5 DEF Insert, IInv, Ownership, Inserting
  <2>2. reaper' = [reaper EXCEPT ![c] = "watch"] /\ UNCHANGED <<child, post, run, log, sealed>>
    BY Zenon, <1>5 DEF Insert, procs, marks
  <2> HIDE DEF c
  <2>3. reaper'[c] = "watch" /\ \A d \in Child : d # c => reaper'[d] = reaper[d]
    BY Zenon, <1>1, <2>1, <2>2
  <2>4. c \notin sealed /\ reaper'[c] # "reconcile" BY Zenon, <1>0, <2>1, <2>3 DEF Over
  <2> QED BY Zenon, <1>2, <2>1, <2>2, <2>3, <2>4
<1>6. ASSUME NEW c \in Child, Send(c) \/ Signal(c) \/ Exit(c)
      PROVE  /\ \A d \in sealed' : Over(d)'
             /\ \A d \in Child : reaper'[d] = "reconcile" => Exited(d)'
  <2>1. Alive(c) BY Zenon, <1>6 DEF Send, Signal, Exit
  <2>2. ~Exited(c) BY Zenon, <2>1 DEF Alive, Exited
  <2>3. c \notin sealed /\ reaper[c] # "reconcile" BY Zenon, <1>0, <2>2 DEF Over
  <2>4. \A d \in Child : d # c => child'[d] = child[d] /\ post'[d] = post[d]
    <3>1. CASE Send(c) BY Zenon, <1>1, <3>1 DEF Send
    <3>2. CASE Signal(c) BY Zenon, <3>2 DEF Signal
    <3>3. CASE Exit(c) BY Zenon, <1>1, <3>3 DEF Exit
    <3> QED BY Zenon, <1>6, <3>1, <3>2, <3>3
  <2>5. UNCHANGED <<reaper, run, sealed>>
    BY Zenon, <1>6 DEF Send, Signal, Exit, book, marks
  <2>6. \A d \in Child : d # c => (d \in log' <=> d \in log)
    BY Zenon, <1>6 DEF Send, Signal, Exit
  <2> QED BY Zenon, <1>2, <2>3, <2>4, <2>5, <2>6
<1>7. ASSUME NEW c \in Child, Record(c) \/ Lose(c)
      PROVE  /\ \A d \in sealed' : Over(d)'
             /\ \A d \in Child : reaper'[d] = "reconcile" => Exited(d)'
  <2>1. c \notin sealed BY Zenon, <1>0, <1>7 DEF Record, Lose, Over
  <2>2. \A d \in Child : d # c => run'[d] = run[d] /\ post'[d] = post[d]
    BY Zenon, <1>1, <1>7 DEF Record, Lose
  <2>3. UNCHANGED <<child, reaper, log, sealed>> BY Zenon, <1>7 DEF Record, Lose, book, marks
  <2>4. reaper'[c] = "reconcile" => Exited(c)' BY Zenon, <1>0, <2>3 DEF Exited
  <2> QED BY Zenon, <1>2, <2>1, <2>2, <2>3, <2>4
<1>8. ASSUME NEW c \in Child, Reap(c)
      PROVE  /\ \A d \in sealed' : Over(d)'
             /\ \A d \in Child : reaper'[d] = "reconcile" => Exited(d)'
  <2>1. c \notin sealed BY Zenon, <1>0, <1>8 DEF Reap, Over
  <2>2. /\ \A d \in Child : d # c => reaper'[d] = reaper[d]
        /\ reaper'[c] = "reconcile" => Exited(c)
    BY Zenon, <1>1, <1>8 DEF Reap
  <2>3. UNCHANGED <<child, post, run, log, sealed>> BY Zenon, <1>8 DEF Reap, marks
  <2>4. reaper'[c] = "reconcile" => Exited(c)' BY Zenon, <2>2, <2>3 DEF Exited
  <2> QED BY Zenon, <1>2, <2>1, <2>2, <2>3, <2>4
<1>9. ASSUME NEW c \in Child, Reconcile(c)
      PROVE  /\ \A d \in sealed' : Over(d)'
             /\ \A d \in Child : reaper'[d] = "reconcile" => Exited(d)'
  <2>1. Exited(c) /\ c \notin sealed BY Zenon, <1>0, <1>9 DEF Reconcile, Over
  <2>2. reaper'[c] = "done" /\ \A d \in Child : d # c => reaper'[d] = reaper[d]
    BY Zenon, <1>1, <1>9 DEF Reconcile
  <2>3. UNCHANGED <<child, post, log>> BY Zenon, <1>9 DEF Reconcile, procs
  <2>4. reaper'[c] # "reconcile" BY Zenon, <2>2
  <2>5. CASE UNCHANGED <<run, sealed>> BY Zenon, <1>2, <2>1, <2>2, <2>3, <2>4, <2>5
  <2>6. ASSUME NEW v \in Verdicts(c), run' = [run EXCEPT ![c] = v],
               sealed' = IF post[c] = "none" THEN sealed \union {c} ELSE sealed
        PROVE  /\ \A d \in sealed' : Over(d)'
               /\ \A d \in Child : reaper'[d] = "reconcile" => Exited(d)'
    <3>1. run'[c] = v /\ \A d \in Child : d # c => run'[d] = run[d] BY Zenon, <1>1, <2>6
    <3>2. \A d \in sealed : Over(d)' BY Zenon, <1>0, <2>1, <2>2, <2>3, <3>1, OverFrame
    <3>3. post[c] = "none" => Over(c)'
      BY Zenon, <2>1, <2>2, <2>3, <3>1 DEF Over, Outcome, Exited, Verdicts
    <3>4. \A d \in sealed' : Over(d)' BY Zenon, <2>6, <3>2, <3>3
    <3>5. \A d \in Child : reaper'[d] = "reconcile" => Exited(d)'
      BY Zenon, <1>0, <2>2, <2>3, <2>4 DEF Exited
    <3> QED BY Zenon, <3>4, <3>5
  <2> QED BY Zenon, <1>9, <2>5, <2>6 DEF Reconcile
<1>10. CASE Crash
  <2>1. /\ reaper' = [c \in Child |-> IF child[c].state = Unborn THEN "none" ELSE "done"]
        /\ UNCHANGED <<child, post, run, log, sealed>>
    BY Zenon, <1>10 DEF Crash, procs
  <2>2. \A c \in sealed : reaper'[c] = reaper[c] BY Zenon, <1>0, <2>1 DEF Over, Exited, Unborn
  <2>3. \A c \in Child : reaper'[c] # "reconcile" BY Zenon, <2>1
  <2> QED BY Zenon, <1>0, <2>1, <2>2, <2>3, OverFrame
<1>11. CASE Boot BY Zenon, <1>3, <1>11 DEF Boot, book
<1>12. ASSUME NEW r \in Request, Handle(r)
       PROVE  UNCHANGED <<child, reaper, post, run, log, sealed>>
  BY Zenon, <1>12 DEF Handle, SyncSource, BackfillSource, Drop, procs, book, marks
<1>13. ASSUME NEW k \in Task, Step(k), ~Spawn(k), ~Insert(k)
       PROVE  UNCHANGED <<child, reaper, post, run, log, sealed>>
  BY Zenon, <1>13 DEF Step, Admit, Check, Persist, Arm, Disarm, Break, Probe, Resolve, Busy,
                      procs, book, marks
<1>14. ASSUME NEW l \in Loop, Tick(l) PROVE UNCHANGED <<child, reaper, post, run, log, sealed>>
  BY Zenon, <1>14 DEF Tick, procs, book, marks
<1>15. CASE UNCHANGED vars BY Zenon, <1>3, <1>15 DEF vars, procs, book, marks
<1> QED BY Zenon, <1>3, <1>4, <1>5, <1>6, <1>7, <1>8, <1>9, <1>10, <1>11, <1>12, <1>13, <1>14, <1>15
        DEF Next, Crawl

-----------------------------------------------------------------------------

LEMMA InitIInv == Init => IInv
<1> SUFFICES ASSUME Init PROVE IInv OBVIOUS
<1>1. TypeOK
  <2>1. NoWork \in Errand BY Zenon DEF NoWork, Errand, Mode
  <2>2. NoChild \in Process BY Zenon DEF NoChild, Process, Mode
  <2>3. on \in [Task -> Errand] /\ child \in [Child -> Process] BY Zenon, <2>1, <2>2 DEF Init
  <2>4. pc \in [Task -> Point] BY Zenon DEF Init, Point
  <2> QED BY Zenon, <2>3, <2>4 DEF Init, TypeOK
<1>2. \A k \in Task : pc[k] = "idle" BY Zenon DEF Init
<1>3. \A c \in Child : child[c].state = Unborn /\ reaper[c] = "none" BY Zenon DEF Init, NoChild
<1>4. \A t \in Tenant : armed[t] = NoTask /\ entry[t] = Nobody BY Zenon DEF Init
<1>5. /\ up /\ sched = {} /\ cancelled = {} /\ admitting = NoTask /\ files = {} /\ lost = {}
      /\ sealed = {}
  BY Zenon DEF Init
<1>6. Working /\ Down BY Zenon, <1>2, <1>3, <1>5 DEF Working, Down
<1>7. \A k \in Task : pc[k] # "insert" /\ k # NoTask BY Zenon, <1>2, SyncAssumption
<1>8. \A c \in Child : ~Alive(c) BY Zenon, <1>3 DEF Alive, Unborn
<1>9. Ownership
  BY Zenon, <1>3, <1>4, <1>5, <1>7, <1>8
     DEF Ownership, Admission, Inserting, Entries, AliveOwned, FilesOwned, Unspawned, OneCrawl
<1>10. \A r \in Request : pc[r] \notin LockPoint /\ pc[r] # "arm" /\ pc[r] # "disarm"
  BY Zenon, <1>2 DEF Task, LockPoint
<1>11. Locked /\ Pending BY Zenon, <1>10 DEF Locked, Pending, LockPoint
<1>12. Matching BY Zenon, <1>4, <1>5 DEF Matching
<1>13. Armed /\ Looping BY Zenon, <1>2, <1>4 DEF Armed, Looping, Task
<1>14. \A c \in Child : reaper[c] # "reconcile" BY Zenon, <1>3
<1>15. Sealed BY Zenon, <1>5, <1>14 DEF Sealed, OutcomeStands
<1> QED BY Zenon, <1>1, <1>6, <1>9, <1>11, <1>12, <1>13, <1>15 DEF IInv, Schedules

\* Whatever handlers, loops, children, reaps, clients and the server do, the
\* inductive invariant holds.
THEOREM Invariant == Spec => []IInv
<1>1. IInv /\ [Next]_vars => IInv'
  BY Zenon, TypeStep, OwnStep, ScheduleStep, SealedStep DEF IInv
<1> QED BY InitIInv, <1>1, PTL DEF Spec

\* The variables keep their types in every instance.
THEOREM TypeCorrect == Spec => []TypeOK
<1>1. IInv => TypeOK BY Zenon DEF IInv
<1> QED BY Invariant, <1>1, PTL

\* ConnectorPlane::start: of the children this server owns, at most one is alive,
\* for any number of tenants, handlers, loops and runs, also when handlers are
\* dropped while they hold the admission lock or a child not yet inserted.
THEOREM SourceSerialised == Spec => []OneCrawl
<1>1. IInv => OneCrawl BY Zenon DEF IInv, Ownership
<1> QED BY Invariant, <1>1, PTL

\* CredFile: a bearer on disk is the bearer of an owned child, and a child alive
\* under this server has its bearer.
THEOREM BearersFollow == Spec => []BearerFollowsChild
<1>1. IInv => BearerFollowsChild
  BY Zenon DEF IInv, Ownership, BearerFollowsChild, FilesOwned, AliveOwned
<1> QED BY Invariant, <1>1, PTL

\* sync_source and reestablish_on_boot: loops match schedules between toggles, and
\* a loop that is not in the map was told to stop.
THEOREM LoopsMatchRows == Spec => []NoGhostLoop
<1>1. ASSUME IInv PROVE NoGhostLoop
  <2>1. ASSUME toggling = NoTask, up, NEW t \in Tenant \ torn PROVE armed[t] # NoTask <=> t \in sched
    <3>1. \A r \in Request : pc[r] \notin {"arm", "disarm"}
      BY Zenon, <1>1, <2>1, SyncAssumption DEF IInv, Schedules, Locked, Task
    <3> QED BY Zenon, <1>1, <2>1, <3>1 DEF IInv, Schedules, Matching
  <2> QED BY Zenon, <1>1, <2>1 DEF NoGhostLoop, IInv, Schedules, Looping
<1> QED BY Invariant, <1>1, PTL

\* reconcile_terminal: an outcome written with no post under way stands, and never
\* shows a failed child as completed or a degraded crawl as clean.
THEOREM OutcomesStand == Spec => []OutcomeStands
<1>1. IInv => OutcomeStands BY Zenon DEF IInv, Sealed
<1> QED BY Invariant, <1>1, PTL

=============================================================================
