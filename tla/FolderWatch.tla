----------------------------- MODULE FolderWatch -----------------------------
(***************************************************************************)
(* One watched folder (folder_watch): its row of folder_watches, the OS    *)
(* watch with its debouncer and ingest consumer, the supervised scans of   *)
(* the files already there, the boot catch-up, and the versions of each    *)
(* file that the chunk index holds.  A file is one chunk, and the content  *)
(* of a file is told apart by its modification time, which is also the     *)
(* valid_from of its chunk.  A task stops at every await that another task *)
(* can be seen through; the server can crash between any two steps.        *)
(***************************************************************************)
EXTENDS Integers, FiniteSets

CONSTANTS
    File,       \* files that appear in the folder
    Declined,   \* those ingest_file skips: hidden, temporary, empty, too large
    Policy,     \* visibility policies a registration can name
    Request,    \* request slots: registrations and stops under way
    MaxFeeds,   \* bound: OS watches ever armed
    MaxRuns,    \* bound: scans ever started
    MaxTime,    \* bound: changes of files
    Faults      \* what may go wrong: "crash", "fail", "panic"

Feed == 1..MaxFeeds
Run == 1..MaxRuns
None == 0            \* no OS watch, no scan
Never == 0           \* a file that is absent, last_seen IS NULL
Time == 1..MaxTime
NoPolicy == "none"
NoFile == "none"

ASSUME FolderAssumption ==
    /\ IsFiniteSet(File) /\ Declined \subseteq File /\ NoFile \notin File
    /\ NoPolicy \notin Policy
    /\ MaxFeeds \in Nat /\ MaxRuns \in Nat /\ MaxTime \in Nat
    /\ Faults \subseteq {"crash", "fail", "panic"}

VARIABLES
    up,        \* the server is "down", in its "boot", or "up"
    now,       \* the latest change
    mtime,     \* modification time of each file
    row,       \* [active, seen, policy] of folder_watches; last_seen = t lies
               \* after modification t - 1 and not after modification t
    dirty,     \* files changed under the OS watch whose burst has not settled
    fed,       \* WatcherRegistry.live: the OS watch that is held
    feed,      \* [policy, queue, at] of each ingest consumer
    scan,      \* [state, policy, todo, at, cancel] of each scan task
    handle,    \* FolderScanPlane.scans: the scan that is registered
    run,       \* backfill_run.state of each scan
    req,       \* [at, policy, run] of each request
    index,     \* chunks of each file: [from, policy, open]
    boot,      \* [todo, caught] of the boot catch-up
    cut,       \* [files, at]: what a scan had still to index when the server crashed,
               \* and when that was (history)
    missed     \* files left out until they change: an ingest or a scan failed, a
               \* scan was stopped, or a boot did not find them (history)

disk == <<now, mtime, dirty>>
tasks == <<feed, scan, handle, run>>
vars == <<up, disk, row, fed, tasks, req, index, boot, cut, missed>>

-----------------------------------------------------------------------------
(* Types *)

NoWork == [file |-> NoFile, from |-> Never]
Work == {NoWork} \union [file : File, from : Time]

Watch(active, seen, policy) == [active |-> active, seen |-> seen, policy |-> policy]
Consumer(policy, queue, at) == [policy |-> policy, queue |-> queue, at |-> at]
Task(state, policy, todo, at, cancel) ==
    [state |-> state, policy |-> policy, todo |-> todo, at |-> at, cancel |-> cancel]
Handler(at, policy, r) == [at |-> at, policy |-> policy, run |-> r]
Chunk(from, policy, open) == [from |-> from, policy |-> policy, open |-> open]

NoFeed == Consumer(NoPolicy, {}, NoWork)
NoScan == Task("none", NoPolicy, {}, NoWork, FALSE)
NoRequest == Handler("idle", NoPolicy, None)

Terminal == {"completed", "paused", "failed"}
Named == Policy \union {NoPolicy}

Watches == [active : BOOLEAN, seen : 0..(MaxTime + 1), policy : Named]
Consumers == [policy : Named, queue : SUBSET File, at : Work]
Tasks == [state : {"none", "enumerate", "walk", "finish", "panic", "done"},
          policy : Named, todo : SUBSET File, at : Work, cancel : BOOLEAN]
Handlers == [at : {"idle", "recorded", "removed", "armed", "insert", "stopping"},
             policy : Named, run : Run \union {None}]
Chunks == [from : Time, policy : Policy, open : BOOLEAN]

TypeOK ==
    /\ up \in {"down", "boot", "up"} /\ now \in 0..MaxTime
    /\ mtime \in [File -> 0..MaxTime]
    /\ row \in Watches
    /\ boot \in [todo : SUBSET File, caught : BOOLEAN]
    /\ dirty \subseteq File /\ cut \in [files : SUBSET File, at : 0..MaxTime] /\ missed \subseteq File
    /\ fed \in Feed \union {None} /\ handle \in Run \union {None}
    /\ feed \in [Feed -> Consumers]
    /\ scan \in [Run -> Tasks]
    /\ run \in [Run -> Terminal \union {"none", "running"}]
    /\ req \in [Request -> Handlers]
    /\ index \in [File -> SUBSET Chunks]

Init ==
    /\ up = "up" /\ now = 0
    /\ mtime = [f \in File |-> Never]
    /\ row = Watch(FALSE, Never, NoPolicy)
    /\ boot = [todo |-> {}, caught |-> FALSE]
    /\ dirty = {} /\ cut = [files |-> {}, at |-> 0] /\ missed = {}
    /\ fed = None /\ handle = None
    /\ feed = [g \in Feed |-> NoFeed] /\ scan = [r \in Run |-> NoScan]
    /\ run = [r \in Run |-> "none"]
    /\ req = [q \in Request |-> NoRequest]
    /\ index = [f \in File |-> {}]

-----------------------------------------------------------------------------
(* The folder, and what the OS watch reports of it *)

\* A file is created or changed.
Modify(f) ==
    /\ now < MaxTime
    /\ now' = now + 1
    /\ mtime' = [mtime EXCEPT ![f] = now']
    /\ dirty' = IF fed # None THEN dirty \union {f} ELSE dirty
    /\ missed' = missed \ {f}
    /\ UNCHANGED <<up, row, fed, tasks, req, index, boot, cut>>

\* A file is removed: a no-op for the watch and for memory.
Delete(f) ==
    /\ mtime[f] # Never /\ now < MaxTime
    /\ now' = now + 1
    /\ mtime' = [mtime EXCEPT ![f] = Never]
    /\ missed' = missed \ {f}
    /\ UNCHANGED <<up, dirty, row, fed, tasks, req, index, boot, cut>>

\* The burst is over: the path goes to the consumer.
Settle(f) ==
    /\ f \in dirty
    /\ dirty' = dirty \ {f}
    /\ feed' = [feed EXCEPT ![fed] = Consumer(@.policy, @.queue \union {f}, @.at)]
    /\ UNCHANGED <<up, now, mtime, row, fed, scan, handle, run, req, index, boot, cut, missed>>

-----------------------------------------------------------------------------
(* Ingesting one file: ingest_file, ingest_document, upsert_chunks *)

Wanted(f) == mtime[f] # Never /\ f \notin Declined

Taken(f) == IF Wanted(f) THEN [file |-> f, from |-> mtime[f]] ELSE NoWork

\* Mutant of Upserted: an older delivery closes what is newer.
UpsertedAnyway(chunks, from, policy) ==
    {Chunk(c.from, c.policy, FALSE) : c \in chunks}
       \union {c \in {Chunk(from, policy, TRUE)} : \A d \in chunks : d.from # from}

\* Open chunks that are older are closed; the new one is inserted open unless
\* there is one of this valid_from.
Upserted(chunks, from, policy) ==
    {Chunk(c.from, c.policy, c.open /\ c.from >= from) : c \in chunks}
       \union {c \in {Chunk(from, policy, TRUE)} : \A d \in chunks : d.from # from}

Deliver(work, policy) ==
    index' = [index EXCEPT ![work.file] = Upserted(@, work.from, policy)]

Served(f) == \E c \in index[f] : c.open /\ c.from = mtime[f]

Miss(files) == missed' = missed \union {f \in files : Wanted(f) /\ ~Served(f)}

\* The consumer reads the next file, or skips it.
FeedRead(g, f) ==
    /\ feed[g].at = NoWork /\ f \in feed[g].queue
    /\ feed' = [feed EXCEPT ![g] = Consumer(@.policy, @.queue \ {f}, Taken(f))]
    /\ UNCHANGED <<up, disk, row, fed, scan, handle, run, req, index, boot, cut, missed>>

\* It is indexed and last_seen moves to now; or the ingest fails.
FeedWrite(g) ==
    /\ feed[g].at # NoWork
    /\ feed' = [feed EXCEPT ![g] = Consumer(@.policy, @.queue, NoWork)]
    /\ \/ /\ Deliver(feed[g].at, feed[g].policy)
          /\ row' = Watch(row.active, now + 1, row.policy)
          /\ UNCHANGED missed
       \/ "fail" \in Faults /\ Miss({feed[g].at.file}) /\ UNCHANGED <<index, row>>
    /\ UNCHANGED <<up, disk, fed, scan, handle, run, req, boot, cut>>

-----------------------------------------------------------------------------
(* The scan of the files that are there: run_initial_scan, ScanCleanup *)

\* A scan ends early: what it had still to read is left to a later scan, if any.
Leave(r, files) ==
    Miss(IF \A s \in Run : s > r => scan[s] = NoScan THEN files ELSE {})

Finished(task) == Task("finish", task.policy, task.todo, task.at, task.cancel)
Cancelled(task) == Task(task.state, task.policy, task.todo, task.at, TRUE)

\* The files are listed and the run is reported; or they cannot be listed.
Enumerate(r) ==
    /\ scan[r].state = "enumerate"
    /\ \/ /\ scan' = [scan EXCEPT ![r] =
                        Task("walk", @.policy, {f \in File : mtime[f] # Never}, @.at, @.cancel)]
          /\ run' = [run EXCEPT ![r] = "running"]
          /\ UNCHANGED missed
       \/ /\ "fail" \in Faults
          /\ scan' = [scan EXCEPT ![r] = Finished(@)]
          /\ run' = [run EXCEPT ![r] = "failed"]
          /\ Leave(r, File)
    /\ UNCHANGED <<up, disk, row, fed, feed, handle, req, index, boot, cut>>

\* The flag is looked at before each file.
ScanRead(r, f) ==
    /\ scan[r].state = "walk" /\ scan[r].at = NoWork /\ ~scan[r].cancel
    /\ f \in scan[r].todo
    /\ scan' = [scan EXCEPT ![r] = Task(@.state, @.policy, @.todo \ {f}, Taken(f), @.cancel)]
    /\ UNCHANGED <<up, disk, row, fed, feed, handle, run, req, index, boot, cut, missed>>

ScanWrite(r) ==
    /\ scan[r].state = "walk" /\ scan[r].at # NoWork
    /\ scan' = [scan EXCEPT ![r] = Task(@.state, @.policy, @.todo, NoWork, @.cancel)]
    /\ \/ Deliver(scan[r].at, scan[r].policy) /\ UNCHANGED missed
       \/ "fail" \in Faults /\ Miss({scan[r].at.file}) /\ UNCHANGED index
    /\ UNCHANGED <<up, disk, row, fed, feed, handle, run, req, boot, cut>>

\* Mutant of ScanEnd: a cancelled scan ends without a word.
ScanEndSilent(r) ==
    /\ scan[r].state = "walk" /\ scan[r].at = NoWork
    /\ \/ /\ scan[r].cancel /\ scan[r].todo # {}
          /\ Leave(r, scan[r].todo)
          /\ UNCHANGED <<run, row>>
       \/ /\ scan[r].todo = {}
          /\ run' = [run EXCEPT ![r] = "completed"]
          /\ row' = Watch(row.active, now + 1, row.policy)
          /\ UNCHANGED missed
    /\ scan' = [scan EXCEPT ![r] = Finished(@)]
    /\ UNCHANGED <<up, disk, fed, feed, handle, req, index, boot, cut>>

\* Cancelled between two files, or done with all of them.
ScanEnd(r) ==
    /\ scan[r].state = "walk" /\ scan[r].at = NoWork
    /\ \/ /\ scan[r].cancel /\ scan[r].todo # {}
          /\ run' = [run EXCEPT ![r] = "paused"]
          /\ Leave(r, scan[r].todo)
          /\ UNCHANGED row
       \/ /\ scan[r].todo = {}
          /\ run' = [run EXCEPT ![r] = "completed"]
          /\ row' = Watch(row.active, now + 1, row.policy)
          /\ UNCHANGED missed
    /\ scan' = [scan EXCEPT ![r] = Finished(@)]
    /\ UNCHANGED <<up, disk, fed, feed, handle, req, index, boot, cut>>

\* A file blows up the extraction: the guard is dropped armed.
Panic(r) ==
    /\ "panic" \in Faults
    /\ scan[r].state = "walk" /\ scan[r].at # NoWork
    /\ scan' = [scan EXCEPT ![r] = Task("panic", @.policy, @.todo, NoWork, @.cancel)]
    /\ Leave(r, scan[r].todo \union {scan[r].at.file})
    /\ UNCHANGED <<up, disk, row, fed, feed, handle, run, req, index, boot, cut>>

\* The detached task of the guard's Drop.
CleanUp(r) ==
    /\ scan[r].state = "panic"
    /\ run' = [run EXCEPT ![r] = "failed"]
    /\ scan' = [scan EXCEPT ![r] = Finished(@)]
    /\ UNCHANGED <<up, disk, row, fed, feed, handle, req, index, boot, cut, missed>>

\* drop_scan_handle: only if it is still this run's.
DropHandle(r) ==
    /\ scan[r].state = "finish"
    /\ scan' = [scan EXCEPT ![r] = Task("done", @.policy, {}, @.at, @.cancel)]
    /\ handle' = IF handle = r THEN None ELSE handle
    /\ UNCHANGED <<up, disk, row, fed, feed, run, req, index, boot, cut, missed>>

-----------------------------------------------------------------------------
(* Registrations and stops *)

Spare == Cardinality({g \in Feed : feed[g].policy = NoPolicy})
Registering == {q \in Request : req[q].at \in {"recorded", "removed"}}
Starting == {q \in Request : req[q].at \in {"recorded", "removed", "armed"}}

\* The bounds leave every registration that is begun its OS watch and its scan.
WithinBounds ==
    /\ Spare > Cardinality(Registering)
    /\ Cardinality({r \in Run : scan[r] = NoScan}) > Cardinality(Starting)

Goto(q, at) == req' = [req EXCEPT ![q] = Handler(at, @.policy, @.run)]
Idle(q) == req' = [req EXCEPT ![q] = NoRequest]

\* The row is inserted, or takes the new policy and becomes active again; its
\* last_seen stays.
AddFolderWatch(q, p) ==
    /\ up = "up" /\ req[q].at = "idle" /\ WithinBounds
    /\ row' = Watch(TRUE, row.seen, p)
    /\ req' = [req EXCEPT ![q] = Handler("recorded", p, None)]
    /\ UNCHANGED <<up, disk, fed, tasks, index, boot, cut, missed>>

StopFolderWatch(q) ==
    /\ up = "up" /\ req[q].at = "idle" /\ row.policy # NoPolicy
    /\ row' = Watch(FALSE, row.seen, row.policy)
    /\ Goto(q, "stopping")
    /\ UNCHANGED <<up, disk, fed, tasks, index, boot, cut, missed>>

\* The OS watch goes, with its bursts that have not settled; the consumer drains
\* its queue.
Remove(q) ==
    /\ \/ req[q].at = "recorded" /\ Goto(q, "removed")
       \/ req[q].at = "stopping" /\ Idle(q)
    /\ fed' = None /\ dirty' = {}
    /\ UNCHANGED <<up, now, mtime, row, tasks, index, boot, cut, missed>>

\* arm_watch: a new OS watch replaces the one that is held.
ArmWatch(g, policy) ==
    /\ feed[g].policy = NoPolicy /\ \A h \in Feed : h < g => feed[h].policy # NoPolicy
    /\ feed' = [feed EXCEPT ![g] = Consumer(policy, @.queue, @.at)]
    /\ fed' = g /\ dirty' = {}

Arm(q) ==
    /\ req[q].at = "removed"
    /\ \/ /\ \E g \in Feed : ArmWatch(g, req[q].policy)
          /\ Goto(q, "armed")
       \/ "fail" \in Faults /\ Idle(q) /\ UNCHANGED <<feed, fed, dirty>>
    /\ UNCHANGED <<up, now, mtime, row, scan, handle, run, index, boot, cut, missed>>

\* Under the admission lock the task is spawned, and may run, before ...
SpawnScan(q) ==
    /\ req[q].at = "armed" /\ \A o \in Request : req[o].at # "insert"
    /\ \E r \in Run :
          /\ scan[r] = NoScan /\ \A s \in Run : s < r => scan[s] # NoScan
          /\ scan' = [scan EXCEPT ![r] = Task("enumerate", req[q].policy, {}, NoWork, FALSE)]
          /\ req' = [req EXCEPT ![q] = Handler("insert", @.policy, r)]
    /\ UNCHANGED <<up, disk, row, fed, feed, handle, run, index, boot, cut, missed>>

\* Mutant of InsertScan: the predecessor is not superseded.
InsertScanBeside(q) ==
    /\ req[q].at = "insert"
    /\ handle' = req[q].run
    /\ Idle(q)
    /\ UNCHANGED <<up, disk, row, fed, feed, scan, run, index, boot, cut, missed>>

\* ... its handle takes the place of the predecessor's, which is told to stop.
InsertScan(q) ==
    /\ req[q].at = "insert"
    /\ handle' = req[q].run
    /\ scan' = [r \in Run |-> IF r = handle THEN Cancelled(scan[r]) ELSE scan[r]]
    /\ Idle(q)
    /\ UNCHANGED <<up, disk, row, fed, feed, run, index, boot, cut, missed>>

\* stop_folder_scan, FolderScanPlane::cancel.
StopFolderScan ==
    /\ handle # None
    /\ scan' = [scan EXCEPT ![handle] = Cancelled(@)]
    /\ handle' = None
    /\ UNCHANGED <<up, disk, row, fed, feed, run, req, index, boot, cut, missed>>

-----------------------------------------------------------------------------
(* Crash and boot *)

Crash ==
    /\ "crash" \in Faults /\ up # "down" /\ Spare > 0
    /\ up' = "down"
    /\ fed' = None /\ dirty' = {} /\ handle' = None
    /\ boot' = [todo |-> {}, caught |-> FALSE]
    /\ cut' = [files |-> UNION {scan[r].todo \union ({scan[r].at.file} \ {NoFile}) :
                                  r \in {s \in Run : scan[s].state = "walk" /\ ~scan[s].cancel}},
               at |-> now]
    /\ feed' = [g \in Feed |-> Consumer(feed[g].policy, {}, NoWork)]
    /\ scan' = [r \in Run |-> IF scan[r] = NoScan THEN NoScan
                              ELSE Task("done", scan[r].policy, {}, NoWork, FALSE)]
    /\ req' = [q \in Request |-> NoRequest]
    /\ UNCHANGED <<now, mtime, row, run, index, missed>>

\* Mutant of ChangedSince: a modification at the instant of last_seen is not new.
ChangedAfter(f) == row.seen = Never \/ mtime[f] > row.seen

ChangedSince(f) == row.seen = Never \/ mtime[f] >= row.seen

\* reestablish_on_boot: an inactive watch stays off; an active one looks for the
\* files changed since last_seen, before requests are accepted.
Boot ==
    /\ up = "down"
    /\ IF row.active
       THEN /\ up' = "boot"
            /\ boot' = [todo |-> {f \in File : mtime[f] # Never /\ ChangedSince(f)},
                        caught |-> FALSE]
       ELSE up' = "up" /\ UNCHANGED boot
    /\ cut' = [files |-> {}, at |-> 0]
    /\ UNCHANGED <<disk, row, fed, tasks, req, index, missed>>

CatchUp(f) ==
    /\ up = "boot" /\ f \in boot.todo
    /\ \/ /\ Wanted(f)
          /\ Deliver(Taken(f), row.policy)
          /\ boot' = [todo |-> boot.todo \ {f}, caught |-> TRUE]
       \/ /\ ~Wanted(f) \/ "fail" \in Faults
          /\ boot' = [todo |-> boot.todo \ {f}, caught |-> boot.caught]
          /\ UNCHANGED index
    /\ UNCHANGED <<up, disk, row, fed, tasks, req, cut, missed>>

\* last_seen moves if a file was caught up; then the OS watch is armed.
Rearm ==
    /\ up = "boot" /\ boot.todo = {}
    /\ up' = "up"
    /\ row' = Watch(row.active, IF boot.caught THEN now + 1 ELSE row.seen, row.policy)
    /\ \/ \E g \in Feed : ArmWatch(g, row.policy)
       \/ "fail" \in Faults /\ UNCHANGED <<feed, fed, dirty>>
    /\ Miss(File)
    /\ boot' = [todo |-> {}, caught |-> FALSE]
    /\ UNCHANGED <<now, mtime, scan, handle, run, req, index, cut>>

-----------------------------------------------------------------------------

Consume(g) == FeedWrite(g) \/ \E f \in File : FeedRead(g, f)

Scan(r) ==
    \/ Enumerate(r) \/ ScanWrite(r) \/ ScanEnd(r) \/ CleanUp(r) \/ DropHandle(r)
    \/ \E f \in File : ScanRead(r, f)

Proceed(q) == Remove(q) \/ Arm(q) \/ SpawnScan(q) \/ InsertScan(q)

Restart == Boot \/ Rearm \/ \E f \in File : CatchUp(f)

Next ==
    \/ \E f \in File : Modify(f) \/ Delete(f) \/ Settle(f)
    \/ \E g \in Feed : Consume(g)
    \/ \E r \in Run : Scan(r) \/ Panic(r)
    \/ \E q \in Request : Proceed(q) \/ StopFolderWatch(q) \/ \E p \in Policy : AddFolderWatch(q, p)
    \/ StopFolderScan \/ Crash \/ Restart

Spec == Init /\ [][Next]_vars

\* The runtime polls every task that is ready, the debouncer reports every burst,
\* and the supervisor restarts the server.
Fairness ==
    /\ WF_vars(Restart)
    /\ \A f \in File : WF_vars(Settle(f))
    /\ \A g \in Feed : WF_vars(Consume(g))
    /\ \A r \in Run : WF_vars(Scan(r))
    /\ \A q \in Request : WF_vars(Proceed(q))

FairSpec == Spec /\ Fairness

-----------------------------------------------------------------------------
(* Properties *)

\* The newest version that was ever indexed of a file is the one recall sees: the
\* scan, the live watch, consumers that were replaced and the boot catch-up may
\* deliver in any order, and none hides what is newer (upsert_chunks).
NewestServed ==
    \A f \in File : \A c \in index[f] : (\A d \in index[f] : d.from <= c.from) => c.open

\* spawn_initial_scan: however registrations, stops and ends of scans interleave,
\* two scans of the folder go on side by side only while the newer one is about
\* to supersede the older one.
OneScan ==
    \A r, s \in Run :
       (r < s /\ {scan[r].state, scan[s].state} \subseteq {"enumerate", "walk"} /\ ~scan[r].cancel)
         => scan[s].cancel \/ \E q \in Request : req[q].at = "insert" /\ req[q].run = s

\* "backfill_run never gets stuck at running": a run that is reported as running
\* ends in a terminal state, also when its task panics, unless the server stops.
RunsEnd ==
    \A r \in Run :
       (run[r] = "running" /\ scan[r].state # "done") ~> (run[r] \in Terminal \/ up # "up")

\* A file that is let be under a live watch is served in its last version, even if
\* it changed while the watch was being replaced or scanned: nothing is lost but
\* what failed, what the operator stopped and what a boot overlooked.
Settled ==
    \A f \in File \ Declined :
       <>[](fed # None /\ mtime[f] # Never /\ f \notin missed) => <>[]Served(f)

\* Both together: scans are reported as ended, and what they and the live watch
\* were given is served.
WorkSettles == RunsEnd /\ Settled

\* reestablish_on_boot: whatever changed while the server was down is caught up,
\* whoever advanced last_seen last before the crash.
DownFilesFound ==
    [][(up = "down" /\ up' = "boot") => {f \in File : mtime[f] > cut.at} \subseteq boot'.todo]_vars

\* run_initial_scan: "last_seen only advances after a clean, complete walk so a
\* crash mid-scan re-scans the folder on next boot".  The live consumer advances
\* it too, while the scan goes on.
CrashRescans ==
    [][(up = "down" /\ up' = "boot") => {f \in cut.files : Wanted(f)} \subseteq boot'.todo]_vars

\* run_initial_scan: "a file caught by both paths never double-populates the
\* search index".  A delivery that is overtaken by a newer one opens a second
\* chunk for the same place of the document.
IndexedOnce ==
    \A f \in File : \A c, d \in index[f] : c.open /\ d.open => c = d

=============================================================================
