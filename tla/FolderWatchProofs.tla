------------------------- MODULE FolderWatchProofs -------------------------
(***************************************************************************)
(* Proofs about FolderWatch, for every set of files, policies and requests *)
(* and every bound: what is served is the newest version indexed, one scan *)
(* goes on, and a boot finds what changed while the server was down.       *)
(***************************************************************************)
EXTENDS FolderWatch, TLAPS

-----------------------------------------------------------------------------
(* The inductive invariant *)

Going(r) == scan[r].state \in {"enumerate", "walk"}
Active(r) == Going(r) /\ ~scan[r].cancel
Started(r) == scan[r] # NoScan
Inserting(q, r) == req[q].at = "insert" /\ req[q].run = r

\* A consumer, a scan or a boot at work has a policy to ingest under.
FeedPolicies ==
    /\ \A g \in Feed : feed[g].policy = NoPolicy => feed[g] = NoFeed
    /\ dirty # {} => fed # None
    /\ fed # None => feed[fed].policy # NoPolicy

ScanPolicies == \A r \in Run : Going(r) => scan[r].policy \in Policy

RequestPolicies ==
    \A q \in Request : req[q].at \in {"recorded", "removed", "armed"} => req[q].policy \in Policy

RowPolicy == (row.active => row.policy \in Policy) /\ (up = "boot" => row.active)

Policies == FeedPolicies /\ ScanPolicies /\ RequestPolicies /\ RowPolicy

\* Scans are started in order, a registration about to insert a handle holds
\* the newest scan, and a scan that goes on and was not told to stop is the
\* registered one or about to be.
Scans ==
    /\ \A q, o \in Request : req[q].at = "insert" /\ req[o].at = "insert" => q = o
    /\ \A q \in Request : req[q].at = "insert" =>
          /\ req[q].run \in Run /\ Started(req[q].run)
          /\ \A s \in Run : s > req[q].run => ~Started(s)
    /\ \A r, s \in Run : s < r /\ Started(r) => Started(s)
    /\ \A r \in Run : scan[r].state = "none" => ~Started(r)
    /\ handle # None => Started(handle)
    /\ \A r \in Run : Active(r) => handle = r \/ \E q \in Request : Inserting(q, r)

\* Nothing but files changes while the server is down.
Stopped ==
    /\ fed = None /\ handle = None /\ dirty = {}
    /\ \A g \in Feed : feed[g].queue = {} /\ feed[g].at = NoWork
    /\ \A r \in Run : scan[r].state \in {"none", "done"}
    /\ \A q \in Request : req[q].at = "idle"

\* last_seen lies in the past, and before the crash if the server is down.
LastSeen ==
    /\ row.seen <= now + 1
    /\ up = "down" => Stopped /\ row.seen <= cut.at + 1

IInv == TypeOK /\ Policies /\ NewestServed /\ Scans /\ LastSeen

-----------------------------------------------------------------------------
(* Records *)

States == {"none", "enumerate", "walk", "finish", "panic", "done"}
Points == {"idle", "recorded", "removed", "armed", "insert", "stopping"}

LEMMA Makers ==
    /\ \A a \in BOOLEAN, s \in 0..(MaxTime + 1), p \in Named : Watch(a, s, p) \in Watches
    /\ \A p \in Named, u \in SUBSET File, w \in Work : Consumer(p, u, w) \in Consumers
    /\ \A s \in States, p \in Named, t \in SUBSET File, w \in Work, c \in BOOLEAN :
          Task(s, p, t, w, c) \in Tasks
    /\ \A a \in Points, p \in Named, r \in Run \union {None} : Handler(a, p, r) \in Handlers
    /\ \A t \in Time, p \in Policy, o \in BOOLEAN : Chunk(t, p, o) \in Chunks
BY Zenon DEF Watch, Consumer, Task, Handler, Chunk, Watches, Consumers, Tasks, Handlers, Chunks,
             States, Points

LEMMA Typed ==
    ASSUME TypeOK
    PROVE  /\ row.active \in BOOLEAN /\ row.seen \in 0..(MaxTime + 1) /\ row.policy \in Named
           /\ \A g \in Feed : /\ feed[g].policy \in Named /\ feed[g].queue \in SUBSET File
                              /\ feed[g].at \in Work
           /\ \A r \in Run : /\ scan[r].state \in States /\ scan[r].policy \in Named
                             /\ scan[r].todo \in SUBSET File /\ scan[r].at \in Work
                             /\ scan[r].cancel \in BOOLEAN
           /\ \A q \in Request : /\ req[q].at \in Points /\ req[q].policy \in Named
                                 /\ req[q].run \in Run \union {None}
           /\ \A f \in File : \A c \in index[f] : /\ c.from \in Time /\ c.policy \in Policy
                                                  /\ c.open \in BOOLEAN
           /\ boot.todo \in SUBSET File /\ boot.caught \in BOOLEAN
<1>1. row.active \in BOOLEAN /\ row.seen \in 0..(MaxTime + 1) /\ row.policy \in Named
  BY Zenon DEF TypeOK, Watches
<1>2. \A g \in Feed : /\ feed[g].policy \in Named /\ feed[g].queue \in SUBSET File
                      /\ feed[g].at \in Work
  BY Zenon DEF TypeOK, Consumers
<1>3. \A r \in Run : /\ scan[r].state \in States /\ scan[r].policy \in Named
                     /\ scan[r].todo \in SUBSET File /\ scan[r].at \in Work
                     /\ scan[r].cancel \in BOOLEAN
  <2> SUFFICES ASSUME NEW r \in Run PROVE /\ scan[r].state \in States /\ scan[r].policy \in Named
                     /\ scan[r].todo \in SUBSET File /\ scan[r].at \in Work
                     /\ scan[r].cancel \in BOOLEAN
    BY Zenon
  <2>1. scan[r] \in Tasks
    BY Zenon DEF TypeOK
  <2> QED BY Zenon, <2>1 DEF Tasks, States
<1>4. \A q \in Request : /\ req[q].at \in Points /\ req[q].policy \in Named
                         /\ req[q].run \in Run \union {None}
  BY Zenon DEF TypeOK, Handlers, Points
<1>5. \A f \in File : \A c \in index[f] : /\ c.from \in Time /\ c.policy \in Policy
                                          /\ c.open \in BOOLEAN
  <2>1. \A f \in File : index[f] \subseteq Chunks
    BY Zenon DEF TypeOK
  <2>2. \A c \in Chunks : c.from \in Time /\ c.policy \in Policy /\ c.open \in BOOLEAN
    BY Zenon DEF Chunks
  <2> QED BY Zenon, <2>1, <2>2
<1>6. boot.todo \in SUBSET File /\ boot.caught \in BOOLEAN
  BY Zenon DEF TypeOK
<1> QED BY Zenon, <1>1, <1>2, <1>3, <1>4, <1>5, <1>6

LEMMA Indices ==
    /\ None \notin Feed /\ None \notin Run
    /\ \A r \in Run : r \in Int
    /\ \A t \in Time : t \in Nat /\ t # Never
    /\ Never \in 0..MaxTime /\ Never \in 0..(MaxTime + 1)
    /\ NoPolicy \notin Policy /\ Policy \subseteq Named /\ NoPolicy \in Named
BY FolderAssumption DEF None, Feed, Run, Time, Never, Named

LEMMA TakenType ==
    ASSUME TypeOK, NEW f \in File
    PROVE  /\ Taken(f) \in Work
           /\ Wanted(f) => Taken(f) # NoWork
<1>1. mtime[f] # Never => mtime[f] \in Time
  <2>1. mtime[f] \in 0..MaxTime
    BY Zenon DEF TypeOK
  <2> QED BY <2>1, FolderAssumption DEF Never, Time
<1>2. Wanted(f) => [file |-> f, from |-> mtime[f]] \in [file : File, from : Time]
  BY Zenon, <1>1 DEF Wanted
<1>3. NoWork \in Work
  BY Zenon DEF Work
<1>4. Taken(f) \in Work
  BY Zenon, <1>2, <1>3 DEF Taken, Work
<1>5. [file |-> f, from |-> mtime[f]].file = f /\ NoWork.file = NoFile /\ NoFile # f
  BY Zenon, FolderAssumption DEF NoWork
<1> QED BY Zenon, <1>4, <1>5 DEF Taken

LEMMA WorkType ==
    ASSUME NEW w \in Work, w # NoWork
    PROVE  w.file \in File /\ w.from \in Time
BY Zenon DEF Work

LEMMA MissType ==
    ASSUME TypeOK, NEW fs \in SUBSET File, Miss(fs)
    PROVE  missed' \subseteq File
BY Zenon DEF TypeOK, Miss

LEMMA LeaveType ==
    ASSUME TypeOK, NEW r, NEW fs \in SUBSET File, Leave(r, fs)
    PROVE  missed' \subseteq File
<1>1. (IF \A s \in Run : s > r => scan[s] = NoScan THEN fs ELSE {}) \in SUBSET File
  BY Zenon
<1> QED BY Zenon, <1>1, MissType DEF Leave

LEMMA InitIInv == Init => IInv
<1> SUFFICES ASSUME Init PROVE IInv
  BY Zenon
<1>1. /\ NoFeed \in Consumers /\ NoScan \in Tasks /\ NoRequest \in Handlers
      /\ Watch(FALSE, Never, NoPolicy) \in Watches
  <2>1. NoWork \in Work /\ {} \in SUBSET File /\ "none" \in States /\ "idle" \in Points
        /\ None \in Run \union {None} /\ FALSE \in BOOLEAN
    BY Zenon DEF Work, States, Points
  <2> QED BY Zenon, <2>1, Makers, Indices DEF NoFeed, NoScan, NoRequest
<1>2. 0 \in 0..MaxTime
  BY FolderAssumption
<1>3. TypeOK
  <2>1. boot \in [todo : SUBSET File, caught : BOOLEAN] /\ cut \in [files : SUBSET File, at : 0..MaxTime]
    BY Zenon, <1>2 DEF Init
  <2>2. run \in [Run -> Terminal \union {"none", "running"}]
    BY Zenon DEF Init
  <2> QED BY Zenon, <1>1, <1>2, <2>1, <2>2, Indices DEF Init, TypeOK
<1>4. \A r \in Run : scan[r] = NoScan /\ scan[r].state = "none"
  BY Zenon DEF Init, NoScan, Task
<1>5. \A q \in Request : req[q].at = "idle"
  BY Zenon DEF Init, NoRequest, Handler
<1>6. row.active = FALSE /\ row.seen = Never
  BY Zenon DEF Init, Watch
<1>7. Policies
  BY Zenon, <1>4, <1>5, <1>6
     DEF Init, Policies, FeedPolicies, ScanPolicies, RequestPolicies, RowPolicy, Going
<1>8. Scans
  BY Zenon, <1>4, <1>5 DEF Init, Scans, Active, Going, Started
<1>9. LastSeen
  <2>1. row.seen <= now + 1
    <3>1. now = 0 /\ row.seen = 0
      BY Zenon, <1>6 DEF Init, Never
    <3> QED BY <3>1
  <2> QED BY Zenon, <2>1 DEF Init, LastSeen
<1>10. NewestServed
  BY Zenon DEF Init, NewestServed
<1> QED BY Zenon, <1>3, <1>7, <1>8, <1>9, <1>10 DEF IInv

-----------------------------------------------------------------------------
(* Indexing one version *)

LEMMA DeliverStep ==
    ASSUME TypeOK, NewestServed, NEW w \in Work, w # NoWork, NEW p \in Policy, Deliver(w, p)
    PROVE  index' \in [File -> SUBSET Chunks] /\ NewestServed'
<1>1. w.file \in File /\ w.from \in Time
  BY Zenon, WorkType
<1>2. \A c \in index[w.file] : c.from \in Time /\ c.policy \in Policy /\ c.open \in BOOLEAN
  BY Zenon, <1>1, Typed
<1> DEFINE old == index[w.file]
           new == Upserted(old, w.from, p)
<1>3. index' = [index EXCEPT ![w.file] = new] /\ index \in [File -> SUBSET Chunks]
  BY Zenon DEF Deliver, TypeOK
<1>4. \A t \in Time : t \in Int
  BY Indices
<1>5. \A c \in new : \/ \E d \in old : c = Chunk(d.from, d.policy, d.open /\ d.from >= w.from)
                     \/ c = Chunk(w.from, p, TRUE)
  BY Zenon DEF Upserted
<1>6. new \in SUBSET Chunks
  <2>1. ASSUME NEW d \in old
        PROVE  Chunk(d.from, d.policy, d.open /\ d.from >= w.from) \in Chunks
    <3>1. (d.open /\ d.from >= w.from) \in BOOLEAN
      BY Zenon
    <3> QED BY Zenon, <1>2, <3>1 DEF Chunk, Chunks
  <2>2. Chunk(w.from, p, TRUE) \in Chunks
    BY Zenon, <1>1 DEF Chunk, Chunks
  <2> HIDE DEF new
  <2> QED BY Zenon, <1>5, <2>1, <2>2
\* A chunk that is newest in the new set: its valid_from is not before w's.
<1>7. \E c \in new : c.from = w.from
  <2>1. CASE \A d \in old : d.from # w.from
    <3>1. Chunk(w.from, p, TRUE) \in new
      BY Zenon, <2>1 DEF Upserted
    <3> QED BY Zenon, <3>1 DEF Chunk
  <2>2. CASE \E d \in old : d.from = w.from
    <3>1. PICK d \in old : d.from = w.from
      BY Zenon, <2>2
    <3>2. Chunk(d.from, d.policy, d.open /\ d.from >= w.from) \in new
      BY Zenon DEF Upserted
    <3> QED BY Zenon, <3>1, <3>2 DEF Chunk
  <2> QED BY Zenon, <2>1, <2>2
<1>8. ASSUME NEW c \in new, \A e \in new : e.from <= c.from PROVE c.open
  <2>1. w.from <= c.from
    BY Zenon, <1>7, <1>8
  <2>2. CASE c = Chunk(w.from, p, TRUE)
    BY Zenon, <2>2 DEF Chunk
  <2>3. ASSUME NEW d \in old, c = Chunk(d.from, d.policy, d.open /\ d.from >= w.from)
        PROVE  c.open
    <3>1. c.from = d.from /\ c.open = (d.open /\ d.from >= w.from)
      BY Zenon, <2>3 DEF Chunk
    <3>2. ASSUME NEW e \in old PROVE e.from <= d.from
      <4>1. Chunk(e.from, e.policy, e.open /\ e.from >= w.from) \in new
        BY Zenon DEF Upserted
      <4> QED BY Zenon, <1>8, <3>1, <4>1 DEF Chunk
    <3>3. d.open
      BY Zenon, <1>1, <3>2 DEF NewestServed
    <3>4. d.from >= w.from
      BY <1>1, <1>2, <1>4, <2>1, <3>1
    <3> QED BY Zenon, <3>1, <3>3, <3>4
  <2> QED BY Zenon, <1>5, <2>2, <2>3
<1> HIDE DEF new
<1>9. \A f \in File : index'[f] = IF f = w.file THEN new ELSE index[f]
  BY Zenon, <1>3
<1>10. index' \in [File -> SUBSET Chunks]
  BY Zenon, <1>1, <1>3, <1>6
<1>11. NewestServed'
  BY Zenon, <1>8, <1>9 DEF NewestServed
<1> QED BY Zenon, <1>10, <1>11

-----------------------------------------------------------------------------
(* What a step that leaves most of the state alone preserves *)

LEMMA QuietScans ==
    ASSUME Scans, UNCHANGED <<scan, handle>>,
           \A q \in Request : \/ req'[q] = req[q]
                              \/ req[q].at # "insert" /\ req'[q].at # "insert"
    PROVE  Scans' /\ (ScanPolicies => ScanPolicies')
<1>1. \A r : /\ Started(r)' = Started(r) /\ Active(r)' = Active(r)
             /\ Going(r)' = Going(r) /\ scan'[r] = scan[r]
  BY Zenon DEF Started, Active, Going
<1>2. \A q \in Request : (req'[q].at = "insert") = (req[q].at = "insert")
  BY Zenon
<1>3. \A q \in Request : req'[q].at = "insert" => req'[q].run = req[q].run
  BY Zenon
<1>4. \A q \in Request : \A r : Inserting(q, r) => Inserting(q, r)'
  BY Zenon, <1>2, <1>3 DEF Inserting
<1>5. Scans'
  <2>1. \A q \in Request : req'[q].at = "insert" =>
          /\ req'[q].run \in Run /\ Started(req[q].run)'
          /\ \A s \in Run : s > req'[q].run => ~Started(s)'
    <3>1. ASSUME NEW q \in Request, req'[q].at = "insert"
          PROVE  req[q].at = "insert" /\ req'[q].run = req[q].run
      BY Zenon, <1>2, <1>3, <3>1
    <3> QED BY Zenon, <1>1, <3>1 DEF Scans, Started
  <2>2. \A q, o \in Request : req'[q].at = "insert" /\ req'[o].at = "insert" => q = o
    BY Zenon, <1>2 DEF Scans
  <2>3. \A r \in Run : Active(r)' => handle' = r \/ \E q \in Request : Inserting(q, r)'
    BY Zenon, <1>1, <1>4 DEF Scans
  <2>4. /\ \A r, s \in Run : s < r /\ Started(r)' => Started(s)'
        /\ \A r \in Run : scan'[r].state = "none" => ~Started(r)'
        /\ handle' # None => Started(handle)'
    BY Zenon, <1>1 DEF Scans, Started
  <2> QED BY Zenon, <2>1, <2>2, <2>3, <2>4 DEF Scans
<1> QED BY Zenon, <1>1, <1>5 DEF ScanPolicies

\* One scan moves on, is told to stop, or gives up its handle.
LEMMA ScanStep ==
    ASSUME TypeOK, Scans, ScanPolicies, NEW r \in Run, NEW t \in Tasks,
           scan' = [scan EXCEPT ![r] = t], req' = req,
           Started(r), t.state # "none", t.policy = scan[r].policy,
           t.state \in {"enumerate", "walk"} => Going(r),
           t.state \in {"enumerate", "walk"} /\ ~t.cancel => Active(r),
           \/ handle' = handle
           \/ /\ handle = r /\ handle' = None
              /\ ~(t.state \in {"enumerate", "walk"} /\ ~t.cancel)
    PROVE  scan' \in [Run -> Tasks] /\ ScanPolicies' /\ Scans'
<1>1. /\ scan \in [Run -> Tasks] /\ scan' \in [Run -> Tasks] /\ scan'[r] = t
      /\ \A s \in Run \ {r} : scan'[s] = scan[s]
  BY Zenon DEF TypeOK
<1>2. NoScan.state = "none"
  BY Zenon DEF NoScan, Task
<1>3. Started(r)' /\ scan'[r].state # "none"
  BY Zenon, <1>1, <1>2 DEF Started
<1>4. \A s \in Run : Started(s)' <=> Started(s)
  BY Zenon, <1>1, <1>3 DEF Started
<1>5. \A s \in Run : /\ Going(s)' => Going(s) /\ scan'[s].policy = scan[s].policy
                     /\ Active(s)' => Active(s)
  BY Zenon, <1>1 DEF Going, Active
<1>6. \A q \in Request : \A s : Inserting(q, s)' <=> Inserting(q, s)
  BY Zenon DEF Inserting
<1>7. \A s \in Run : Active(s)' => handle' = s \/ \E q \in Request : Inserting(q, s)'
  <2>1. CASE handle' = handle
    BY Zenon, <1>5, <1>6, <2>1 DEF Scans
  <2>2. CASE handle = r /\ handle' = None /\ ~Active(r)'
    <3>1. ASSUME NEW s \in Run, Active(s)' PROVE \E q \in Request : Inserting(q, s)'
      <4>1. s # r /\ Active(s)
        BY Zenon, <1>5, <2>2, <3>1
      <4> QED BY Zenon, <1>6, <2>2, <4>1 DEF Scans
    <3> QED BY Zenon, <3>1
  <2> QED BY Zenon, <1>1, <2>1, <2>2 DEF Active, Going
<1>8. handle' # None => Started(handle)'
  <2>1. CASE handle' = handle
    <3>1. handle \in Run \union {None}
      BY Zenon DEF TypeOK
    <3> QED BY Zenon, <1>4, <2>1, <3>1 DEF Scans, Started
  <2> QED BY Zenon, <2>1
<1>9. \A s \in Run : scan'[s].state = "none" => ~Started(s)'
  BY Zenon, <1>1, <1>3, <1>4 DEF Scans
<1>10. \A q \in Request : req'[q].at = "insert" =>
          /\ req'[q].run \in Run /\ Started(req[q].run)'
          /\ \A s \in Run : s > req'[q].run => ~Started(s)'
  BY Zenon, <1>4 DEF Scans, Started
<1>11. Scans'
  BY Zenon, <1>4, <1>7, <1>8, <1>9, <1>10 DEF Scans
<1>12. ScanPolicies'
  BY Zenon, <1>5 DEF ScanPolicies
<1> QED BY Zenon, <1>1, <1>11, <1>12

LEMMA FeedStep ==
    ASSUME TypeOK, FeedPolicies, NEW g \in Feed, NEW c \in Consumers,
           feed' = [feed EXCEPT ![g] = c], c.policy = feed[g].policy, feed[g].policy # NoPolicy,
           fed' = fed, dirty' \subseteq dirty
    PROVE  feed' \in [Feed -> Consumers] /\ FeedPolicies'
<1>1. /\ feed \in [Feed -> Consumers] /\ feed' \in [Feed -> Consumers] /\ feed'[g] = c
      /\ \A h \in Feed \ {g} : feed'[h] = feed[h]
  BY Zenon DEF TypeOK
<1>2. \A h \in Feed : feed'[h].policy = feed[h].policy
  BY Zenon, <1>1
<1>3. fed \in Feed \union {None}
  BY Zenon DEF TypeOK
<1>4. \A h \in Feed : feed'[h].policy = NoPolicy => feed'[h] = NoFeed
  BY Zenon, <1>1, <1>2 DEF FeedPolicies
<1>5. fed' # None => feed'[fed'].policy # NoPolicy
  BY Zenon, <1>2, <1>3 DEF FeedPolicies
<1>6. dirty' # {} => fed' # None
  BY Zenon DEF FeedPolicies
<1> QED BY Zenon, <1>1, <1>4, <1>5, <1>6 DEF FeedPolicies

\* last_seen only moves to the present.
LEMMA SeenStep ==
    ASSUME TypeOK, LastSeen, now' = now \/ now' = now + 1,
           row'.seen = row.seen \/ row'.seen = now + 1
    PROVE  row'.seen <= now' + 1
<1>1. row.seen \in Int /\ now \in Int
  <2>1. row.seen \in 0..(MaxTime + 1) /\ now \in 0..MaxTime
    BY Zenon, Typed DEF TypeOK
  <2> QED BY <2>1, FolderAssumption
<1>2. row.seen <= now + 1
  BY Zenon DEF LastSeen
<1> QED BY <1>1, <1>2

\* The server is up, and stays up, at a step of one of its tasks.
LEMMA AwakeStep ==
    ASSUME TypeOK, LastSeen, up' # "down", now' = now,
           row'.seen = row.seen \/ row'.seen = now + 1
    PROVE  LastSeen'
BY Zenon, SeenStep DEF LastSeen

-----------------------------------------------------------------------------
(* The folder and the live watch *)

LEMMA DiskStep ==
    ASSUME IInv, NEW f \in File, Modify(f) \/ Delete(f)
    PROVE  IInv'
<1> USE DEF IInv
<1>1. /\ now < MaxTime /\ now' = now + 1
      /\ \E t \in {Never, now + 1} : mtime' = [mtime EXCEPT ![f] = t]
      /\ missed' = missed \ {f}
      /\ UNCHANGED <<up, row, fed, feed, scan, handle, run, req, index, boot, cut>>
      /\ dirty' = dirty \/ (fed # None /\ dirty' = dirty \union {f})
  BY Zenon DEF Modify, Delete, tasks
<1>2. now + 1 \in 0..MaxTime
  <2>1. now \in 0..MaxTime
    BY Zenon DEF TypeOK
  <2> QED BY <1>1, <2>1, FolderAssumption
<1>3. TypeOK'
  <2>1. PICK t \in {Never, now + 1} : mtime' = [mtime EXCEPT ![f] = t]
    BY Zenon, <1>1
  <2>2. mtime' \in [File -> 0..MaxTime]
    <3>1. mtime \in [File -> 0..MaxTime]
      BY Zenon DEF TypeOK
    <3>2. t \in 0..MaxTime
      BY Zenon, <1>2, <2>1, Indices
    <3> QED BY Zenon, <2>1, <3>1, <3>2
  <2>3. dirty' \subseteq File /\ missed' \subseteq File /\ now' \in 0..MaxTime
    BY Zenon, <1>1, <1>2 DEF TypeOK
  <2> QED BY Zenon, <1>1, <2>2, <2>3 DEF TypeOK
<1>4. Scans' /\ ScanPolicies'
  BY Zenon, <1>1, QuietScans DEF Policies
<1>5. Policies'
  BY Zenon, <1>1, <1>4 DEF Policies, FeedPolicies, RequestPolicies, RowPolicy
<1>6. row'.seen <= now' + 1
  BY Zenon, <1>1, SeenStep
<1>7. LastSeen'
  BY Zenon, <1>1, <1>6 DEF LastSeen, Stopped
<1> QED BY Zenon, <1>1, <1>3, <1>4, <1>5, <1>7 DEF NewestServed

\* The parts that a consumer or a burst leaves alone.
LEMMA FeedFrame ==
    ASSUME IInv, UNCHANGED <<up, now, mtime, fed, scan, handle, run, req, boot, cut>>,
           dirty' \subseteq dirty, missed' \subseteq File,
           row' \in Watches, row'.active = row.active, row'.policy = row.policy,
           row'.seen = row.seen \/ row'.seen = now + 1, up # "down",
           feed' \in [Feed -> Consumers], FeedPolicies',
           index' \in [File -> SUBSET Chunks], NewestServed'
    PROVE  IInv'
<1> USE DEF IInv
<1>1. TypeOK'
  BY Zenon DEF TypeOK
<1>2. Scans' /\ ScanPolicies'
  BY Zenon, QuietScans DEF Policies
<1>3. Policies'
  BY Zenon, <1>2 DEF Policies, RequestPolicies, RowPolicy
<1>4. LastSeen'
  BY Zenon, AwakeStep
<1> QED BY Zenon, <1>1, <1>2, <1>3, <1>4

LEMMA SettleStep ==
    ASSUME IInv, NEW f \in File, Settle(f)
    PROVE  IInv'
<1> USE DEF IInv
<1>1. fed \in Feed /\ feed[fed].policy # NoPolicy /\ up # "down"
  BY Zenon DEF Settle, TypeOK, Policies, FeedPolicies, LastSeen, Stopped
<1> DEFINE c == Consumer(feed[fed].policy, feed[fed].queue \union {f}, feed[fed].at)
<1>2. c \in Consumers /\ c.policy = feed[fed].policy
  <2>1. feed[fed].queue \union {f} \in SUBSET File
    BY Zenon, <1>1, Typed
  <2>2. c \in Consumers
    BY Zenon, <1>1, <2>1, Typed, Makers
  <2> QED BY Zenon, <2>2 DEF Consumer
<1>3. feed' = [feed EXCEPT ![fed] = c]
  BY Zenon DEF Settle
<1> HIDE DEF c
<1>4. feed' \in [Feed -> Consumers] /\ FeedPolicies'
  BY Zenon, <1>1, <1>2, <1>3, FeedStep DEF Settle, Policies
<1> QED BY Zenon, <1>1, <1>4, FeedFrame DEF Settle, TypeOK, NewestServed

LEMMA FeedReadStep ==
    ASSUME IInv, NEW g \in Feed, NEW f \in File, FeedRead(g, f)
    PROVE  IInv'
<1> USE DEF IInv
<1>1. feed[g].policy # NoPolicy /\ up # "down"
  <2>1. NoFeed.queue = {}
    BY Zenon DEF NoFeed, Consumer
  <2> QED BY Zenon, <2>1 DEF FeedRead, Policies, FeedPolicies, LastSeen, Stopped
<1> DEFINE c == Consumer(feed[g].policy, feed[g].queue \ {f}, Taken(f))
<1>2. c \in Consumers /\ c.policy = feed[g].policy
  <2>1. feed[g].queue \ {f} \in SUBSET File
    BY Zenon, Typed
  <2>2. c \in Consumers
    BY Zenon, <2>1, Typed, TakenType, Makers
  <2> QED BY Zenon, <2>2 DEF Consumer
<1>3. feed' = [feed EXCEPT ![g] = c]
  BY Zenon DEF FeedRead
<1> HIDE DEF c
<1>4. feed' \in [Feed -> Consumers] /\ FeedPolicies'
  BY Zenon, <1>1, <1>2, <1>3, FeedStep DEF FeedRead, disk, Policies
<1> QED BY Zenon, <1>1, <1>4, FeedFrame DEF FeedRead, disk, TypeOK, NewestServed

LEMMA NextSeen ==
    ASSUME TypeOK
    PROVE  /\ Watch(row.active, now + 1, row.policy) \in Watches
           /\ Watch(row.active, now + 1, row.policy).active = row.active
           /\ Watch(row.active, now + 1, row.policy).policy = row.policy
           /\ Watch(row.active, now + 1, row.policy).seen = now + 1
<1>1. now + 1 \in 0..(MaxTime + 1)
  <2>1. now \in 0..MaxTime
    BY Zenon DEF TypeOK
  <2> QED BY <2>1, FolderAssumption
<1>2. Watch(row.active, now + 1, row.policy) \in Watches
  BY Zenon, <1>1, Typed, Makers
<1> QED BY Zenon, <1>2 DEF Watch

LEMMA FeedWriteStep ==
    ASSUME IInv, NEW g \in Feed, FeedWrite(g)
    PROVE  IInv'
<1> USE DEF IInv
<1>1. feed[g].policy \in Policy /\ up # "down" /\ feed[g].policy # NoPolicy
  <2>1. NoFeed.at = NoWork
    BY Zenon DEF NoFeed, Consumer
  <2>2. feed[g].policy # NoPolicy
    BY Zenon, <2>1 DEF FeedWrite, Policies, FeedPolicies
  <2> QED BY Zenon, <2>2, Typed DEF FeedWrite, LastSeen, Stopped, Named
<1>2. feed[g].at \in Work /\ feed[g].at # NoWork /\ feed[g].at.file \in File
  BY Zenon, Typed, WorkType DEF FeedWrite
<1> DEFINE c == Consumer(feed[g].policy, feed[g].queue, NoWork)
<1>3. c \in Consumers /\ c.policy = feed[g].policy
  <2>1. NoWork \in Work
    BY Zenon DEF Work
  <2>2. c \in Consumers
    BY Zenon, <2>1, Typed, Makers
  <2> QED BY Zenon, <2>2 DEF Consumer
<1>4. feed' = [feed EXCEPT ![g] = c]
  BY Zenon DEF FeedWrite
<1> HIDE DEF c
<1>5. UNCHANGED <<up, now, mtime, dirty, fed, scan, handle, run, req, boot, cut>>
  BY Zenon DEF FeedWrite, disk
<1>6. feed' \in [Feed -> Consumers] /\ FeedPolicies'
  BY Zenon, <1>1, <1>3, <1>4, <1>5, FeedStep DEF Policies
<1>7. CASE /\ Deliver(feed[g].at, feed[g].policy)
           /\ row' = Watch(row.active, now + 1, row.policy)
           /\ UNCHANGED missed
  <2>1. index' \in [File -> SUBSET Chunks] /\ NewestServed'
    BY Zenon, <1>1, <1>2, <1>7, DeliverStep
  <2>2. /\ row' \in Watches /\ row'.active = row.active /\ row'.policy = row.policy
        /\ row'.seen = now + 1
    BY Zenon, <1>7, NextSeen
  <2> QED BY Zenon, <1>1, <1>5, <1>6, <1>7, <2>1, <2>2, FeedFrame DEF TypeOK
<1>8. CASE Miss({feed[g].at.file}) /\ UNCHANGED <<index, row>>
  <2>1. missed' \subseteq File
    BY Zenon, <1>2, <1>8, MissType
  <2> QED BY Zenon, <1>1, <1>5, <1>6, <1>8, <2>1, FeedFrame DEF TypeOK, NewestServed
<1> QED BY Zenon, <1>7, <1>8 DEF FeedWrite

-----------------------------------------------------------------------------
(* Scans *)

\* The parts that a scan leaves alone.
LEMMA ScanFrame ==
    ASSUME IInv, UNCHANGED <<up, now, mtime, dirty, fed, feed, req, boot, cut>>,
           missed' \subseteq File, run' \in [Run -> Terminal \union {"none", "running"}],
           row' \in Watches, row'.active = row.active, row'.policy = row.policy,
           row'.seen = row.seen \/ row'.seen = now + 1, up # "down",
           handle' = handle \/ handle' = None,
           scan' \in [Run -> Tasks], ScanPolicies', Scans',
           index' \in [File -> SUBSET Chunks], NewestServed'
    PROVE  IInv'
<1> USE DEF IInv
<1>1. TypeOK'
  BY Zenon DEF TypeOK
<1>2. Policies'
  BY Zenon DEF Policies, FeedPolicies, RequestPolicies, RowPolicy
<1>3. LastSeen'
  BY Zenon, AwakeStep
<1> QED BY Zenon, <1>1, <1>2, <1>3

LEMMA AliveScan ==
    ASSUME IInv, NEW r \in Run, scan[r].state \notin {"none", "done"}
    PROVE  /\ up # "down" /\ Started(r)
           /\ NoWork \in Work /\ {} \in SUBSET File
<1>1. up # "down"
  BY Zenon DEF IInv, LastSeen, Stopped
<1>2. Started(r)
  <2>1. NoScan.state = "none"
    BY Zenon DEF NoScan, Task
  <2> QED BY Zenon, <2>1 DEF Started
<1> QED BY Zenon, <1>1, <1>2 DEF Work

LEMMA RunType ==
    ASSUME TypeOK, NEW r \in Run, NEW st \in Terminal \union {"running"},
           run' = [run EXCEPT ![r] = st]
    PROVE  run' \in [Run -> Terminal \union {"none", "running"}]
BY Zenon DEF TypeOK

LEMMA EnumerateStep ==
    ASSUME IInv, NEW r \in Run, Enumerate(r)
    PROVE  IInv'
<1> USE DEF IInv
<1>1. scan[r].state = "enumerate"
  BY Zenon DEF Enumerate
<1>2. up # "down" /\ Started(r)
  BY Zenon, <1>1, AliveScan
<1>3. UNCHANGED <<up, now, mtime, dirty, row, fed, feed, handle, req, index, boot, cut>>
  BY Zenon DEF Enumerate, disk
<1>4. CASE /\ scan' = [scan EXCEPT ![r] = Task("walk", scan[r].policy, {f \in File : mtime[f] # Never},
                                               scan[r].at, scan[r].cancel)]
           /\ run' = [run EXCEPT ![r] = "running"] /\ UNCHANGED missed
  <2> DEFINE t == Task("walk", scan[r].policy, {f \in File : mtime[f] # Never},
                       scan[r].at, scan[r].cancel)
  <2>1. t.state = "walk" /\ t.policy = scan[r].policy /\ t.cancel = scan[r].cancel
    BY Zenon DEF Task
  <2>2. t \in Tasks
    <3>1. "walk" \in States /\ {f \in File : mtime[f] # Never} \in SUBSET File
      BY Zenon DEF States
    <3> QED BY Zenon, <3>1, Typed, Makers
  <2>3. scan' = [scan EXCEPT ![r] = t]
    BY Zenon, <1>4
  <2> HIDE DEF t
  <2>4. Going(r) /\ (~t.cancel => Active(r))
    BY Zenon, <1>1, <2>1 DEF Going, Active
  <2>5. scan' \in [Run -> Tasks] /\ ScanPolicies' /\ Scans'
    BY Zenon, <1>2, <1>3, <2>1, <2>2, <2>3, <2>4, ScanStep DEF Policies
  <2>6. run' \in [Run -> Terminal \union {"none", "running"}]
    BY Zenon, <1>4, RunType
  <2> QED BY Zenon, <1>2, <1>3, <1>4, <2>5, <2>6, ScanFrame DEF TypeOK, NewestServed
<1>5. CASE /\ scan' = [scan EXCEPT ![r] = Finished(scan[r])]
           /\ run' = [run EXCEPT ![r] = "failed"] /\ Leave(r, File)
  <2>1. scan' \in [Run -> Tasks] /\ ScanPolicies' /\ Scans'
    <3>1. /\ Finished(scan[r]).state = "finish" /\ Finished(scan[r]).policy = scan[r].policy
      BY Zenon DEF Finished, Task
    <3>2. Finished(scan[r]) \in Tasks
      <4>1. "finish" \in States
        BY Zenon DEF States
      <4> QED BY Zenon, <4>1, Typed, Makers DEF Finished
    <3> QED BY Zenon, <1>2, <1>3, <1>5, <3>1, <3>2, ScanStep DEF Policies
  <2>2. run' \in [Run -> Terminal \union {"none", "running"}]
    BY Zenon, <1>5, RunType DEF Terminal
  <2>3. missed' \subseteq File
    <3>1. File \in SUBSET File
      BY Zenon
    <3> QED BY Zenon, <1>5, <3>1, LeaveType
  <2> QED BY Zenon, <1>2, <1>3, <2>1, <2>2, <2>3, ScanFrame DEF TypeOK, NewestServed
<1> QED BY Zenon, <1>4, <1>5 DEF Enumerate

\* A walk that stays a walk, with other files before it.
LEMMA WalkStep ==
    ASSUME IInv, NEW r \in Run, NEW td \in SUBSET File, NEW w \in Work, scan[r].state = "walk",
           scan' = [scan EXCEPT ![r] = Task(scan[r].state, scan[r].policy, td, w, scan[r].cancel)],
           UNCHANGED <<req, handle>>
    PROVE  scan' \in [Run -> Tasks] /\ ScanPolicies' /\ Scans'
<1> USE DEF IInv
<1> DEFINE t == Task(scan[r].state, scan[r].policy, td, w, scan[r].cancel)
<1>1. t.state = scan[r].state /\ t.policy = scan[r].policy /\ t.cancel = scan[r].cancel
  BY Zenon DEF Task
<1>2. t \in Tasks
  BY Zenon, Typed, Makers
<1>3. scan' = [scan EXCEPT ![r] = t]
  BY Zenon
<1> HIDE DEF t
<1>4. Going(r) /\ (~t.cancel => Active(r))
  BY Zenon, <1>1 DEF Going, Active
<1>5. Started(r)
  BY Zenon, AliveScan
<1> QED BY Zenon, <1>1, <1>2, <1>3, <1>4, <1>5, ScanStep DEF Policies

LEMMA ScanReadStep ==
    ASSUME IInv, NEW r \in Run, NEW f \in File, ScanRead(r, f)
    PROVE  IInv'
<1> USE DEF IInv
<1>1. up # "down"
  BY Zenon, AliveScan DEF ScanRead
<1>2. Taken(f) \in Work /\ scan[r].todo \ {f} \in SUBSET File
  BY Zenon, TakenType, Typed
<1>3. scan' \in [Run -> Tasks] /\ ScanPolicies' /\ Scans'
  BY Zenon, <1>2, WalkStep DEF ScanRead
<1> QED BY Zenon, <1>1, <1>3, ScanFrame DEF ScanRead, disk, TypeOK, NewestServed

LEMMA ScanWriteStep ==
    ASSUME IInv, NEW r \in Run, ScanWrite(r)
    PROVE  IInv'
<1> USE DEF IInv
<1>1. up # "down" /\ NoWork \in Work
  BY Zenon, AliveScan DEF ScanWrite
<1>2. scan[r].policy \in Policy
  BY Zenon DEF ScanWrite, Policies, ScanPolicies, Going
<1>3. scan[r].at \in Work /\ scan[r].at # NoWork /\ scan[r].at.file \in File
  BY Zenon, Typed, WorkType DEF ScanWrite
<1>4. scan[r].todo \in SUBSET File
  BY Zenon, Typed
<1>5. scan' \in [Run -> Tasks] /\ ScanPolicies' /\ Scans'
  BY Zenon, <1>1, <1>4, WalkStep DEF ScanWrite
<1>6. UNCHANGED <<up, now, mtime, dirty, row, fed, feed, handle, run, req, boot, cut>>
  BY Zenon DEF ScanWrite, disk
<1>7. CASE Deliver(scan[r].at, scan[r].policy) /\ UNCHANGED missed
  <2>1. index' \in [File -> SUBSET Chunks] /\ NewestServed'
    BY Zenon, <1>2, <1>3, <1>7, DeliverStep
  <2> QED BY Zenon, <1>1, <1>5, <1>6, <1>7, <2>1, ScanFrame DEF TypeOK
<1>8. CASE Miss({scan[r].at.file}) /\ UNCHANGED index
  <2>1. missed' \subseteq File
    BY Zenon, <1>3, <1>8, MissType
  <2> QED BY Zenon, <1>1, <1>5, <1>6, <1>8, <2>1, ScanFrame DEF TypeOK, NewestServed
<1> QED BY Zenon, <1>7, <1>8 DEF ScanWrite

\* The scan no longer walks; its handle may go with it.
LEMMA OverStep ==
    ASSUME IInv, NEW r \in Run, scan[r].state \notin {"none", "done"},
           NEW st \in {"finish", "panic", "done"}, NEW td \in SUBSET File, NEW w \in Work,
           scan' = [scan EXCEPT ![r] = Task(st, scan[r].policy, td, w, scan[r].cancel)],
           req' = req, handle' = handle \/ (handle = r /\ handle' = None)
    PROVE  scan' \in [Run -> Tasks] /\ ScanPolicies' /\ Scans'
<1> USE DEF IInv
<1> DEFINE t == Task(st, scan[r].policy, td, w, scan[r].cancel)
<1>1. t.state = st /\ t.policy = scan[r].policy
  BY Zenon DEF Task
<1>2. st \in States
  BY Zenon DEF States
<1>3. t \in Tasks
  BY Zenon, <1>2, Typed, Makers
<1>4. scan' = [scan EXCEPT ![r] = t]
  BY Zenon
<1> HIDE DEF t
<1>5. t.state \notin {"none", "enumerate", "walk"}
  BY Zenon, <1>1
<1>6. Started(r)
  BY Zenon, AliveScan
<1> QED BY Zenon, <1>1, <1>3, <1>4, <1>5, <1>6, ScanStep DEF Policies

LEMMA ScanEndStep ==
    ASSUME IInv, NEW r \in Run, ScanEnd(r)
    PROVE  IInv'
<1> USE DEF IInv
<1>1. up # "down"
  BY Zenon, AliveScan DEF ScanEnd
<1>2. scan' \in [Run -> Tasks] /\ ScanPolicies' /\ Scans'
  BY Zenon, Typed, OverStep DEF ScanEnd, Finished
<1>3. UNCHANGED <<up, now, mtime, dirty, fed, feed, handle, req, index, boot, cut>>
  BY Zenon DEF ScanEnd, disk
<1>4. CASE run' = [run EXCEPT ![r] = "paused"] /\ Leave(r, scan[r].todo) /\ UNCHANGED row
  <2>1. run' \in [Run -> Terminal \union {"none", "running"}]
    BY Zenon, <1>4, RunType DEF Terminal
  <2>2. missed' \subseteq File
    BY Zenon, <1>4, Typed, LeaveType
  <2> QED BY Zenon, <1>1, <1>2, <1>3, <1>4, <2>1, <2>2, ScanFrame DEF TypeOK, NewestServed
<1>5. CASE /\ run' = [run EXCEPT ![r] = "completed"] /\ UNCHANGED missed
           /\ row' = Watch(row.active, now + 1, row.policy)
  <2>1. run' \in [Run -> Terminal \union {"none", "running"}]
    BY Zenon, <1>5, RunType DEF Terminal
  <2>2. /\ row' \in Watches /\ row'.active = row.active /\ row'.policy = row.policy
        /\ row'.seen = now + 1
    BY Zenon, <1>5, NextSeen
  <2> QED BY Zenon, <1>1, <1>2, <1>3, <1>5, <2>1, <2>2, ScanFrame DEF TypeOK, NewestServed
<1> QED BY Zenon, <1>4, <1>5 DEF ScanEnd

LEMMA PanicStep ==
    ASSUME IInv, NEW r \in Run, Panic(r)
    PROVE  IInv'
<1> USE DEF IInv
<1>1. up # "down" /\ NoWork \in Work /\ scan[r].todo \in SUBSET File
  BY Zenon, AliveScan, Typed DEF Panic
<1>2. scan[r].todo \union {scan[r].at.file} \in SUBSET File
  <2>1. scan[r].at.file \in File
    BY Zenon, Typed, WorkType DEF Panic
  <2> QED BY Zenon, <1>1, <2>1
<1>3. missed' \subseteq File
  BY Zenon, <1>2, LeaveType DEF Panic
<1>4. scan' \in [Run -> Tasks] /\ ScanPolicies' /\ Scans'
  BY Zenon, <1>1, OverStep DEF Panic
<1> QED BY Zenon, <1>1, <1>3, <1>4, ScanFrame DEF Panic, disk, TypeOK, NewestServed

LEMMA CleanUpStep ==
    ASSUME IInv, NEW r \in Run, CleanUp(r)
    PROVE  IInv'
<1> USE DEF IInv
<1>1. up # "down"
  BY Zenon, AliveScan DEF CleanUp
<1>2. scan' \in [Run -> Tasks] /\ ScanPolicies' /\ Scans'
  BY Zenon, Typed, OverStep DEF CleanUp, Finished
<1>3. run' \in [Run -> Terminal \union {"none", "running"}]
  BY Zenon, RunType DEF CleanUp, Terminal
<1> QED BY Zenon, <1>1, <1>2, <1>3, ScanFrame DEF CleanUp, disk, TypeOK, NewestServed

LEMMA DropHandleStep ==
    ASSUME IInv, NEW r \in Run, DropHandle(r)
    PROVE  IInv'
<1> USE DEF IInv
<1>1. up # "down" /\ {} \in SUBSET File
  BY Zenon, AliveScan DEF DropHandle
<1>2. handle' = handle \/ (handle = r /\ handle' = None)
  BY Zenon DEF DropHandle
<1>3. scan' \in [Run -> Tasks] /\ ScanPolicies' /\ Scans'
  BY Zenon, <1>1, <1>2, Typed, OverStep DEF DropHandle
<1> QED BY Zenon, <1>1, <1>2, <1>3, ScanFrame DEF DropHandle, disk, TypeOK, NewestServed

-----------------------------------------------------------------------------
(* Registrations and stops *)

\* The parts that a request leaves alone.
LEMMA RequestFrame ==
    ASSUME IInv, UNCHANGED <<up, now, mtime, run, index, boot, cut, missed>>, up # "down",
           row' \in Watches, RowPolicy', row'.seen = row.seen,
           dirty' \subseteq File, fed' \in Feed \union {None},
           feed' \in [Feed -> Consumers], FeedPolicies',
           scan' \in [Run -> Tasks], ScanPolicies', handle' \in Run \union {None},
           req' \in [Request -> Handlers], RequestPolicies', Scans'
    PROVE  IInv'
<1> USE DEF IInv
<1>1. TypeOK'
  BY Zenon DEF TypeOK
<1>2. Policies'
  BY Zenon DEF Policies
<1>3. LastSeen'
  BY Zenon, AwakeStep
<1>4. NewestServed'
  BY Zenon DEF NewestServed
<1> QED BY Zenon, <1>1, <1>2, <1>3, <1>4

\* A request moves on to a point at which it does not insert a scan.
LEMMA HandlerStep ==
    ASSUME IInv, NEW q \in Request, NEW h \in Handlers, req' = [req EXCEPT ![q] = h],
           h.at \in {"recorded", "removed", "armed"} => h.policy \in Policy
    PROVE  /\ req' \in [Request -> Handlers] /\ RequestPolicies'
           /\ req'[q] = h /\ \A o \in Request \ {q} : req'[o] = req[o]
<1>1. /\ req' \in [Request -> Handlers] /\ req'[q] = h
      /\ \A o \in Request \ {q} : req'[o] = req[o]
  <2>1. req \in [Request -> Handlers]
    BY Zenon DEF IInv, TypeOK
  <2> QED BY Zenon, <2>1
<1> QED BY Zenon, <1>1 DEF IInv, Policies, RequestPolicies

LEMMA GotoStep ==
    ASSUME IInv, NEW q \in Request, NEW at \in Points, Goto(q, at) \/ (at = "idle" /\ Idle(q)),
           at \in {"recorded", "removed", "armed"} =>
              req[q].at \in {"recorded", "removed", "armed"}
    PROVE  /\ req' \in [Request -> Handlers] /\ RequestPolicies'
           /\ req'[q].at = at /\ \A o \in Request \ {q} : req'[o] = req[o]
<1> USE DEF IInv
<1>1. CASE Goto(q, at)
  <2> DEFINE h == Handler(at, req[q].policy, req[q].run)
  <2>1. h.at = at /\ h.policy = req[q].policy
    BY Zenon DEF Handler
  <2>2. h \in Handlers
    BY Zenon, Typed, Makers
  <2>3. req' = [req EXCEPT ![q] = h]
    BY Zenon, <1>1 DEF Goto
  <2> HIDE DEF h
  <2>4. at \in {"recorded", "removed", "armed"} => h.policy \in Policy
    BY Zenon, <2>1 DEF Policies, RequestPolicies
  <2> QED BY Zenon, <2>1, <2>2, <2>3, <2>4, HandlerStep
<1>2. CASE at = "idle" /\ Idle(q)
  <2>1. NoRequest.at = "idle"
    BY Zenon DEF NoRequest, Handler
  <2>2. NoRequest \in Handlers
    <3>1. "idle" \in Points /\ None \in Run \union {None}
      BY Zenon DEF Points
    <3> QED BY Zenon, <3>1, Makers, Indices DEF NoRequest
  <2> QED BY Zenon, <1>2, <2>1, <2>2, HandlerStep DEF Idle
<1> QED BY Zenon, <1>1, <1>2

LEMMA AddStep ==
    ASSUME IInv, NEW q \in Request, NEW p \in Policy, AddFolderWatch(q, p)
    PROVE  IInv'
<1> USE DEF IInv
<1>1. /\ up = "up" /\ req[q].at = "idle" /\ row' = Watch(TRUE, row.seen, p)
      /\ req' = [req EXCEPT ![q] = Handler("recorded", p, None)]
      /\ UNCHANGED <<up, now, mtime, dirty, fed, feed, scan, handle, run, index, boot, cut, missed>>
  BY Zenon DEF AddFolderWatch, disk, tasks
<1>2. row' \in Watches /\ row'.seen = row.seen /\ RowPolicy'
  <2>1. row' \in Watches
    BY Zenon, <1>1, Typed, Makers, Indices
  <2>2. row'.seen = row.seen /\ row'.active /\ row'.policy = p
    BY Zenon, <1>1 DEF Watch
  <2> QED BY Zenon, <2>1, <2>2 DEF RowPolicy
<1> DEFINE h == Handler("recorded", p, None)
<1>3. h.at = "recorded" /\ h.policy = p
  BY Zenon DEF Handler
<1>4. h \in Handlers
  <2>1. "recorded" \in Points /\ None \in Run \union {None} /\ p \in Named
    BY Zenon, Indices DEF Points
  <2> QED BY Zenon, <2>1, Makers
<1>5. req' = [req EXCEPT ![q] = h]
  BY Zenon, <1>1
<1> HIDE DEF h
<1>6. /\ req' \in [Request -> Handlers] /\ RequestPolicies'
      /\ req'[q] = h /\ \A o \in Request \ {q} : req'[o] = req[o]
  BY Zenon, <1>3, <1>4, <1>5, HandlerStep
<1>7. \A o \in Request : req'[o] = req[o] \/ (req[o].at # "insert" /\ req'[o].at # "insert")
  BY Zenon, <1>1, <1>3, <1>6
<1>8. Scans' /\ ScanPolicies'
  BY Zenon, <1>1, <1>7, QuietScans DEF Policies
<1>9. up # "down" /\ FeedPolicies'
  BY Zenon, <1>1 DEF Policies, FeedPolicies
<1> QED BY Zenon, <1>1, <1>2, <1>6, <1>8, <1>9, RequestFrame DEF TypeOK

LEMMA StopStep ==
    ASSUME IInv, NEW q \in Request, StopFolderWatch(q)
    PROVE  IInv'
<1> USE DEF IInv
<1>1. /\ up = "up" /\ req[q].at = "idle" /\ row' = Watch(FALSE, row.seen, row.policy)
      /\ Goto(q, "stopping")
      /\ UNCHANGED <<up, now, mtime, dirty, fed, feed, scan, handle, run, index, boot, cut, missed>>
  BY Zenon DEF StopFolderWatch, disk, tasks
<1>2. row' \in Watches /\ row'.seen = row.seen /\ RowPolicy'
  <2>1. row' \in Watches
    BY Zenon, <1>1, Typed, Makers
  <2>2. row'.seen = row.seen /\ ~row'.active
    BY Zenon, <1>1 DEF Watch
  <2> QED BY Zenon, <1>1, <2>1, <2>2 DEF RowPolicy
<1>3. /\ req' \in [Request -> Handlers] /\ RequestPolicies'
      /\ req'[q].at = "stopping" /\ \A o \in Request \ {q} : req'[o] = req[o]
  BY Zenon, <1>1, GotoStep DEF Points
<1>4. \A o \in Request : req'[o] = req[o] \/ (req[o].at # "insert" /\ req'[o].at # "insert")
  BY Zenon, <1>1, <1>3
<1>5. Scans' /\ ScanPolicies'
  BY Zenon, <1>1, <1>4, QuietScans DEF Policies
<1>6. up # "down" /\ FeedPolicies'
  BY Zenon, <1>1 DEF Policies, FeedPolicies
<1> QED BY Zenon, <1>1, <1>2, <1>3, <1>5, <1>6, RequestFrame DEF TypeOK

\* A request under way means that the server is up.
LEMMA AliveRequest ==
    ASSUME IInv, NEW q \in Request, req[q].at # "idle"
    PROVE  up # "down"
BY Zenon DEF IInv, LastSeen, Stopped

LEMMA RemoveStep ==
    ASSUME IInv, NEW q \in Request, Remove(q)
    PROVE  IInv'
<1> USE DEF IInv
<1>1. /\ fed' = None /\ dirty' = {}
      /\ UNCHANGED <<up, now, mtime, row, feed, scan, handle, run, index, boot, cut, missed>>
  BY Zenon DEF Remove, tasks
<1>2. up # "down" /\ req[q].at # "insert"
  BY Zenon, AliveRequest DEF Remove
<1>3. /\ req' \in [Request -> Handlers] /\ RequestPolicies'
      /\ req'[q].at # "insert" /\ \A o \in Request \ {q} : req'[o] = req[o]
  <2>1. CASE req[q].at = "recorded" /\ Goto(q, "removed")
    BY Zenon, <2>1, GotoStep DEF Points
  <2>2. CASE req[q].at = "stopping" /\ Idle(q)
    BY Zenon, <2>2, GotoStep DEF Points
  <2> QED BY Zenon, <2>1, <2>2 DEF Remove
<1>4. Scans' /\ ScanPolicies'
  BY Zenon, <1>1, <1>2, <1>3, QuietScans DEF Policies
<1>5. FeedPolicies' /\ RowPolicy'
  BY Zenon, <1>1 DEF Policies, FeedPolicies, RowPolicy
<1> QED BY Zenon, <1>1, <1>2, <1>3, <1>4, <1>5, RequestFrame DEF TypeOK

LEMMA ArmWatchStep ==
    ASSUME IInv, NEW g \in Feed, NEW p \in Policy, ArmWatch(g, p)
    PROVE  /\ feed' \in [Feed -> Consumers] /\ FeedPolicies'
           /\ fed' \in Feed \union {None} /\ dirty' \subseteq File
<1> USE DEF IInv
<1> DEFINE c == Consumer(p, feed[g].queue, feed[g].at)
<1>1. c.policy = p
  BY Zenon DEF Consumer
<1>2. c \in Consumers
  BY Zenon, Typed, Makers, Indices
<1>3. feed' = [feed EXCEPT ![g] = c] /\ fed' = g /\ dirty' = {}
  BY Zenon DEF ArmWatch
<1> HIDE DEF c
<1>4. /\ feed' \in [Feed -> Consumers] /\ feed'[g] = c
      /\ \A h \in Feed \ {g} : feed'[h] = feed[h]
  <2>1. feed \in [Feed -> Consumers]
    BY Zenon DEF TypeOK
  <2> QED BY Zenon, <1>2, <1>3, <2>1
<1>5. c.policy # NoPolicy
  BY Zenon, <1>1, Indices
<1>6. \A h \in Feed : feed'[h].policy = NoPolicy => feed'[h] = NoFeed
  BY Zenon, <1>4, <1>5 DEF Policies, FeedPolicies
<1> QED BY Zenon, <1>3, <1>4, <1>5, <1>6 DEF FeedPolicies

LEMMA ArmStep ==
    ASSUME IInv, NEW q \in Request, Arm(q)
    PROVE  IInv'
<1> USE DEF IInv
<1>1. /\ req[q].at = "removed"
      /\ UNCHANGED <<up, now, mtime, row, scan, handle, run, index, boot, cut, missed>>
  BY Zenon DEF Arm
<1>2. up # "down" /\ RowPolicy' /\ req[q].policy \in Policy
  BY Zenon, <1>1, AliveRequest DEF Policies, RowPolicy, RequestPolicies
<1>3. /\ req' \in [Request -> Handlers] /\ RequestPolicies'
      /\ req'[q].at # "insert" /\ \A o \in Request \ {q} : req'[o] = req[o]
  <2>1. CASE Goto(q, "armed")
    BY Zenon, <1>1, <2>1, GotoStep DEF Points
  <2>2. CASE Idle(q)
    BY Zenon, <2>2, GotoStep DEF Points
  <2> QED BY Zenon, <2>1, <2>2 DEF Arm
<1>4. /\ feed' \in [Feed -> Consumers] /\ FeedPolicies'
      /\ fed' \in Feed \union {None} /\ dirty' \subseteq File
  <2>1. CASE \E g \in Feed : ArmWatch(g, req[q].policy)
    BY Zenon, <1>2, <2>1, ArmWatchStep
  <2>2. CASE UNCHANGED <<feed, fed, dirty>>
    BY Zenon, <2>2 DEF TypeOK, Policies, FeedPolicies
  <2> QED BY Zenon, <2>1, <2>2 DEF Arm
<1>5. Scans' /\ ScanPolicies'
  BY Zenon, <1>1, <1>3, QuietScans DEF Policies
<1> QED BY Zenon, <1>1, <1>2, <1>3, <1>4, <1>5, RequestFrame DEF TypeOK

\* A scan starts under the admission lock: it is the newest one.
LEMMA SpawnStep ==
    ASSUME IInv, NEW q \in Request, SpawnScan(q)
    PROVE  IInv'
<1> USE DEF IInv
<1>1. PICK r \in Run :
        /\ scan[r] = NoScan /\ \A s \in Run : s < r => scan[s] # NoScan
        /\ scan' = [scan EXCEPT ![r] = Task("enumerate", req[q].policy, {}, NoWork, FALSE)]
        /\ req' = [req EXCEPT ![q] = Handler("insert", req[q].policy, r)]
  BY Zenon DEF SpawnScan
<1>2. /\ req[q].at = "armed" /\ \A o \in Request : req[o].at # "insert"
      /\ UNCHANGED <<up, now, mtime, dirty, row, fed, feed, handle, run, index, boot, cut, missed>>
  BY Zenon DEF SpawnScan, disk
<1>3. up # "down" /\ req[q].policy \in Policy /\ RowPolicy' /\ FeedPolicies'
  BY Zenon, <1>2, AliveRequest DEF Policies, RowPolicy, RequestPolicies, FeedPolicies
<1> DEFINE t == Task("enumerate", req[q].policy, {}, NoWork, FALSE)
           h == Handler("insert", req[q].policy, r)
<1>4. /\ t.state = "enumerate" /\ t.policy = req[q].policy /\ h.at = "insert" /\ h.run = r
      /\ NoScan.state = "none"
  BY Zenon DEF Task, Handler, NoScan
<1>5. t \in Tasks /\ h \in Handlers
  <2>1. /\ "enumerate" \in States /\ "insert" \in Points /\ {} \in SUBSET File /\ NoWork \in Work
        /\ FALSE \in BOOLEAN /\ r \in Run \union {None}
    BY Zenon DEF States, Points, Work
  <2> QED BY Zenon, <1>3, <2>1, Makers, Indices
<1>6. scan' = [scan EXCEPT ![r] = t] /\ req' = [req EXCEPT ![q] = h]
  BY Zenon, <1>1
<1> HIDE DEF t, h
<1>7. /\ scan' \in [Run -> Tasks] /\ scan'[r] = t
      /\ \A s \in Run \ {r} : scan'[s] = scan[s]
  <2>1. scan \in [Run -> Tasks]
    BY Zenon DEF TypeOK
  <2> QED BY Zenon, <1>5, <1>6, <2>1
<1>8. /\ req' \in [Request -> Handlers] /\ RequestPolicies'
      /\ req'[q] = h /\ \A o \in Request \ {q} : req'[o] = req[o]
  BY Zenon, <1>4, <1>5, <1>6, HandlerStep
<1>9. ScanPolicies'
  BY Zenon, <1>3, <1>4, <1>7 DEF Policies, ScanPolicies, Going
<1>10. ASSUME NEW s \in Run, Started(s) PROVE s < r
  <2>1. s # r /\ (r < s => Started(r))
    BY Zenon, <1>1, <1>10 DEF Scans, Started
  <2>2. ~(r < s)
    BY Zenon, <1>1, <2>1 DEF Started
  <2> QED BY <2>1, <2>2, Indices
<1>11. Started(r)' /\ \A s \in Run \ {r} : Started(s)' = Started(s)
  BY Zenon, <1>4, <1>7 DEF Started
<1>12. \A s \in Run : s > r => ~Started(s)'
  <2>1. ASSUME NEW s \in Run, s > r PROVE s # r /\ ~(s < r)
    BY <2>1, Indices
  <2> QED BY Zenon, <1>10, <1>11, <2>1
<1>13. Scans'
  <2>1. \A o \in Request : req'[o].at = "insert" => o = q
    BY Zenon, <1>2, <1>8
  <2>2. req'[q].run = r
    BY Zenon, <1>4, <1>8
  <2>3. \A o \in Request : req'[o].at = "insert" =>
          /\ req'[o].run \in Run /\ Started(req[o].run)'
          /\ \A s \in Run : s > req'[o].run => ~Started(s)'
    BY Zenon, <1>11, <1>12, <2>1, <2>2 DEF Started
  <2>4. ASSUME NEW a \in Run, NEW s \in Run, s < a, Started(a)' PROVE Started(s)'
    <3>1. CASE a = r
      BY Zenon, <1>1, <1>11, <2>4, <3>1 DEF Started
    <3>2. CASE a # r
      BY Zenon, <1>11, <2>4, <3>2 DEF Scans
    <3> QED BY Zenon, <3>1, <3>2
  <2>5. \A s \in Run : scan'[s].state = "none" => ~Started(s)'
    BY Zenon, <1>4, <1>7, <1>11 DEF Scans
  <2>6. handle' # None => Started(handle)'
    <3>1. handle # None => handle \in Run /\ handle # r /\ Started(handle)
      BY Zenon, <1>1 DEF TypeOK, Scans, Started
    <3> QED BY Zenon, <1>2, <1>7, <3>1 DEF Started
  <2>7. Inserting(q, r)'
    BY Zenon, <1>4, <1>8 DEF Inserting
  <2>8. \A s \in Run \ {r} : Active(s)' => handle' = s
    <3>1. \A s \in Run \ {r} : Active(s)' => Active(s)
      BY Zenon, <1>7 DEF Active, Going
    <3> QED BY Zenon, <1>2, <3>1 DEF Scans, Inserting
  <2> QED BY Zenon, <2>1, <2>3, <2>4, <2>5, <2>6, <2>7, <2>8 DEF Scans
<1> QED BY Zenon, <1>2, <1>3, <1>7, <1>8, <1>9, <1>13, RequestFrame DEF TypeOK

\* The new handle takes the place of its predecessor's, which is cancelled.
LEMMA InsertStep ==
    ASSUME IInv, NEW q \in Request, InsertScan(q)
    PROVE  IInv'
<1> USE DEF IInv
<1>1. /\ req[q].at = "insert" /\ handle' = req[q].run /\ Idle(q)
      /\ scan' = [r \in Run |-> IF r = handle THEN Cancelled(scan[r]) ELSE scan[r]]
      /\ UNCHANGED <<up, now, mtime, dirty, row, fed, feed, run, index, boot, cut, missed>>
  BY Zenon DEF InsertScan, disk
<1>2. up # "down" /\ RowPolicy' /\ FeedPolicies'
  BY Zenon, <1>1, AliveRequest DEF Policies, RowPolicy, FeedPolicies
<1>3. /\ req' \in [Request -> Handlers] /\ RequestPolicies'
      /\ req'[q].at = "idle" /\ \A o \in Request \ {q} : req'[o] = req[o]
  BY Zenon, <1>1, GotoStep DEF Points
<1>4. \A t \in Tasks : /\ Cancelled(t).state = t.state /\ Cancelled(t).policy = t.policy
                       /\ Cancelled(t).cancel
  BY Zenon DEF Cancelled, Task
<1>5. \A r \in Run : scan[r] \in Tasks /\ Cancelled(scan[r]) \in Tasks
  <2>1. \A r \in Run : scan[r] \in Tasks
    BY Zenon DEF TypeOK
  <2>2. TRUE \in BOOLEAN
    BY Zenon
  <2> QED BY Zenon, <2>1, <2>2, Typed, Makers DEF Cancelled
<1>6. \A r \in Run : scan'[r] = IF r = handle THEN Cancelled(scan[r]) ELSE scan[r]
  BY Zenon, <1>1
<1>7. scan' \in [Run -> Tasks]
  BY Zenon, <1>1, <1>5
<1>8. \A r \in Run : /\ scan'[r].state = scan[r].state /\ scan'[r].policy = scan[r].policy
                     /\ Active(r)' => Active(r) /\ r # handle
  <2>1. \A r \in Run : /\ scan'[r].state = scan[r].state /\ scan'[r].policy = scan[r].policy
                       /\ ~scan'[r].cancel => ~scan[r].cancel /\ r # handle
    BY Zenon, <1>4, <1>5, <1>6
  <2> QED BY Zenon, <2>1 DEF Active, Going
<1>9. NoScan.state = "none"
  BY Zenon DEF NoScan, Task
<1>10. \A r \in Run : Started(r)' <=> Started(r)
  <2>1. \A r \in Run : Started(r) <=> scan[r].state # "none"
    BY Zenon, <1>9 DEF Scans, Started
  <2>2. ASSUME NEW r \in Run, Started(r) PROVE Started(r)'
    BY Zenon, <1>8, <1>9, <2>1, <2>2 DEF Started
  <2>3. ASSUME NEW r \in Run, ~Started(r) PROVE ~Started(r)'
    <3>1. r # handle
      <4>1. None # r
        BY Zenon, Indices
      <4> QED BY Zenon, <2>3, <4>1 DEF Scans
    <3> QED BY Zenon, <1>6, <2>3, <3>1 DEF Started
  <2> QED BY Zenon, <2>2, <2>3
<1>11. handle' \in Run /\ Started(handle)'
  BY Zenon, <1>1, <1>10 DEF Scans, Started
<1>12. \A o \in Request : req'[o].at # "insert"
  BY Zenon, <1>1, <1>3 DEF Scans
<1>13. \A r \in Run : Active(r)' => handle' = r
  <2>1. ASSUME NEW r \in Run, Active(r)' PROVE handle' = r
    <3>1. Active(r) /\ r # handle
      BY Zenon, <1>8, <2>1
    <3>2. PICK o \in Request : Inserting(o, r)
      BY Zenon, <3>1 DEF Scans
    <3>3. o = q
      BY Zenon, <1>1, <3>2 DEF Scans, Inserting
    <3> QED BY Zenon, <1>1, <3>2, <3>3 DEF Inserting
  <2> QED BY Zenon, <2>1
<1>14. \A r \in Run : scan'[r].state = "none" => ~Started(r)'
  BY Zenon, <1>8, <1>10 DEF Scans
<1>15. Scans'
  BY Zenon, <1>10, <1>11, <1>12, <1>13, <1>14 DEF Scans
<1>16. ScanPolicies'
  BY Zenon, <1>8 DEF Policies, ScanPolicies, Going
<1> QED BY Zenon, <1>1, <1>2, <1>3, <1>7, <1>11, <1>15, <1>16, RequestFrame DEF TypeOK

LEMMA StopScanStep ==
    ASSUME IInv, StopFolderScan
    PROVE  IInv'
<1> USE DEF IInv
<1>1. /\ handle \in Run /\ handle' = None /\ Started(handle) /\ up # "down"
      /\ scan' = [scan EXCEPT ![handle] = Cancelled(scan[handle])]
      /\ UNCHANGED <<up, now, mtime, dirty, row, fed, feed, run, req, index, boot, cut, missed>>
  BY Zenon DEF StopFolderScan, disk, TypeOK, Scans, LastSeen, Stopped
<1> DEFINE t == Cancelled(scan[handle])
<1>2. t.state = scan[handle].state /\ t.policy = scan[handle].policy /\ t.cancel
  BY Zenon DEF Cancelled, Task
<1>3. t \in Tasks
  <2>1. TRUE \in BOOLEAN
    BY Zenon
  <2> QED BY Zenon, <1>1, <2>1, Typed, Makers DEF Cancelled
<1>4. scan' = [scan EXCEPT ![handle] = t]
  BY Zenon, <1>1
<1> HIDE DEF t
<1>5. t.state # "none" /\ (t.state \in {"enumerate", "walk"} => Going(handle))
  BY Zenon, <1>1, <1>2 DEF Scans, Going
<1>6. scan' \in [Run -> Tasks] /\ ScanPolicies' /\ Scans'
  BY Zenon, <1>1, <1>2, <1>3, <1>4, <1>5, ScanStep DEF Policies
<1> QED BY Zenon, <1>1, <1>6, ScanFrame DEF TypeOK, NewestServed

-----------------------------------------------------------------------------
(* Crash and boot *)

LEMMA CrashStep ==
    ASSUME IInv, Crash
    PROVE  IInv'
<1> USE DEF IInv
<1>1. /\ up' = "down" /\ fed' = None /\ dirty' = {} /\ handle' = None
      /\ boot' = [todo |-> {}, caught |-> FALSE]
      /\ feed' = [g \in Feed |-> Consumer(feed[g].policy, {}, NoWork)]
      /\ scan' = [r \in Run |-> IF scan[r] = NoScan THEN NoScan
                                ELSE Task("done", scan[r].policy, {}, NoWork, FALSE)]
      /\ req' = [q \in Request |-> NoRequest]
      /\ UNCHANGED <<now, mtime, row, run, index, missed>>
  BY Zenon DEF Crash
<1>2. cut' \in [files : SUBSET File, at : 0..MaxTime] /\ cut'.at = now
  <2> DEFINE rest(r) == scan[r].todo \union ({scan[r].at.file} \ {NoFile})
             fs == UNION {rest(r) : r \in {s \in Run : scan[s].state = "walk" /\ ~scan[s].cancel}}
  <2>1. ASSUME NEW r \in Run PROVE rest(r) \subseteq File
    <3>1. scan[r].todo \subseteq File /\ scan[r].at \in Work /\ NoWork.file = NoFile
      BY Zenon, Typed DEF NoWork
    <3>2. scan[r].at # NoWork => scan[r].at.file \in File
      BY Zenon, <3>1, WorkType
    <3> QED BY Zenon, <3>1, <3>2
  <2>2. cut' = [files |-> fs, at |-> now]
    BY Zenon DEF Crash
  <2> HIDE DEF rest
  <2>3. fs \in SUBSET File
    BY Zenon, <2>1
  <2>4. now \in 0..MaxTime
    BY Zenon DEF TypeOK
  <2> HIDE DEF fs
  <2> QED BY Zenon, <2>2, <2>3, <2>4
<1>3. NoWork \in Work /\ {} \in SUBSET File /\ FALSE \in BOOLEAN /\ "done" \in States
  BY Zenon DEF Work, States
<1>4. /\ \A g \in Feed : Consumer(feed[g].policy, {}, NoWork) \in Consumers
      /\ \A r \in Run : Task("done", scan[r].policy, {}, NoWork, FALSE) \in Tasks
      /\ NoScan \in Tasks /\ NoRequest \in Handlers
  <2>1. \A g \in Feed : Consumer(feed[g].policy, {}, NoWork) \in Consumers
    BY Zenon, <1>3, Typed, Makers
  <2>2. \A r \in Run : Task("done", scan[r].policy, {}, NoWork, FALSE) \in Tasks
    BY Zenon, <1>3, Typed, Makers
  <2>3. "none" \in States /\ "idle" \in Points /\ None \in Run \union {None} /\ NoPolicy \in Named
    BY Zenon, Indices DEF States, Points
  <2> QED BY Zenon, <1>3, <2>1, <2>2, <2>3, Makers DEF NoScan, NoRequest
<1>5. /\ \A g \in Feed : feed'[g] = Consumer(feed[g].policy, {}, NoWork)
      /\ \A r \in Run : scan'[r] = IF scan[r] = NoScan THEN NoScan
                                   ELSE Task("done", scan[r].policy, {}, NoWork, FALSE)
      /\ \A q \in Request : req'[q] = NoRequest
  BY Zenon, <1>1
<1>6. TypeOK'
  <2>1. feed' \in [Feed -> Consumers] /\ req' \in [Request -> Handlers]
    BY Zenon, <1>1, <1>4
  <2>2. scan' \in [Run -> Tasks]
    BY Zenon, <1>1, <1>4
  <2>3. boot' \in [todo : SUBSET File, caught : BOOLEAN]
    BY Zenon, <1>1
  <2> QED BY Zenon, <1>1, <1>2, <2>1, <2>2, <2>3 DEF TypeOK
<1>7. /\ \A g \in Feed : /\ feed'[g].policy = feed[g].policy
                         /\ feed'[g].queue = {} /\ feed'[g].at = NoWork
      /\ \A q \in Request : req'[q].at = "idle"
      /\ NoFeed = Consumer(NoPolicy, {}, NoWork)
  <2>1. \A g \in Feed : /\ feed'[g].policy = feed[g].policy
                        /\ feed'[g].queue = {} /\ feed'[g].at = NoWork
    <3>1. ASSUME NEW g \in Feed
          PROVE  /\ feed'[g].policy = feed[g].policy
                 /\ feed'[g].queue = {} /\ feed'[g].at = NoWork
      <4> DEFINE c == Consumer(feed[g].policy, {}, NoWork)
      <4>1. c.policy = feed[g].policy /\ c.queue = {} /\ c.at = NoWork
        BY Zenon DEF Consumer
      <4>2. feed'[g] = c
        BY Zenon, <1>5
      <4> HIDE DEF c
      <4> QED BY Zenon, <4>1, <4>2
    <3> QED BY Zenon, <3>1
  <2>2. NoRequest.at = "idle"
    BY Zenon DEF NoRequest, Handler
  <2> QED BY Zenon, <1>5, <2>1, <2>2 DEF NoFeed
<1>8. \A r \in Run : /\ Started(r)' <=> Started(r)
                     /\ scan'[r].state \in {"none", "done"}
                     /\ scan'[r].state = "none" => ~Started(r)'
  <2>1. NoScan.state = "none" /\ \A r \in Run : Task("done", scan[r].policy, {}, NoWork, FALSE).state = "done"
    BY Zenon DEF NoScan, Task
  <2> QED BY Zenon, <1>5, <2>1 DEF Started
<1>9. Policies'
  <2>1. FeedPolicies'
    BY Zenon, <1>1, <1>5, <1>7 DEF FeedPolicies
  <2> QED BY Zenon, <1>1, <1>7, <1>8, <2>1
          DEF Policies, ScanPolicies, RequestPolicies, RowPolicy, Going
<1>10. Scans'
  BY Zenon, <1>1, <1>7, <1>8 DEF Scans, Active, Going
<1>11. LastSeen'
  <2>1. row'.seen <= now' + 1
    BY Zenon, <1>1, SeenStep
  <2> QED BY Zenon, <1>1, <1>2, <1>7, <1>8, <2>1 DEF LastSeen, Stopped
<1> QED BY Zenon, <1>1, <1>6, <1>9, <1>10, <1>11 DEF NewestServed

LEMMA BootStep ==
    ASSUME IInv, Boot
    PROVE  IInv'
<1> USE DEF IInv
<1>1. /\ UNCHANGED <<now, mtime, dirty, row, fed, feed, scan, handle, run, req, index, missed>>
      /\ cut' = [files |-> {}, at |-> 0]
      /\ (up' = "boot" /\ row.active) \/ up' = "up"
  BY Zenon DEF Boot, disk, tasks
<1>2. boot' \in [todo : SUBSET File, caught : BOOLEAN]
  <2>1. {f \in File : mtime[f] # Never /\ ChangedSince(f)} \in SUBSET File /\ FALSE \in BOOLEAN
    BY Zenon
  <2>2. boot \in [todo : SUBSET File, caught : BOOLEAN]
    BY Zenon DEF TypeOK
  <2>3. \/ boot' = boot
        \/ boot' = [todo |-> {f \in File : mtime[f] # Never /\ ChangedSince(f)}, caught |-> FALSE]
    BY Zenon DEF Boot
  <2>4. CASE boot' = [todo |-> {f \in File : mtime[f] # Never /\ ChangedSince(f)},
                      caught |-> FALSE]
    BY Zenon, <2>1, <2>4
  <2> QED BY Zenon, <2>2, <2>3, <2>4
<1>3. cut' \in [files : SUBSET File, at : 0..MaxTime]
  <2>1. 0 \in 0..MaxTime
    BY FolderAssumption
  <2> QED BY Zenon, <1>1, <2>1
<1>4. TypeOK'
  BY Zenon, <1>1, <1>2, <1>3 DEF TypeOK
<1>5. Scans' /\ ScanPolicies'
  BY Zenon, <1>1, QuietScans DEF Policies
<1>6. Policies'
  BY Zenon, <1>1, <1>5 DEF Policies, FeedPolicies, RequestPolicies, RowPolicy
<1>7. LastSeen'
  BY Zenon, <1>1, AwakeStep
<1> QED BY Zenon, <1>1, <1>4, <1>5, <1>6, <1>7 DEF NewestServed

LEMMA CatchUpStep ==
    ASSUME IInv, NEW f \in File, CatchUp(f)
    PROVE  IInv'
<1> USE DEF IInv
<1>1. /\ up = "boot" /\ row.policy \in Policy
      /\ UNCHANGED <<up, now, mtime, dirty, row, fed, feed, scan, handle, run, req, cut, missed>>
  BY Zenon DEF CatchUp, disk, tasks, Policies, RowPolicy
<1>2. boot' \in [todo : SUBSET File, caught : BOOLEAN]
  <2>1. boot.todo \ {f} \in SUBSET File /\ boot.caught \in BOOLEAN /\ TRUE \in BOOLEAN
    BY Zenon, Typed
  <2>2. \/ boot' = [todo |-> boot.todo \ {f}, caught |-> TRUE]
        \/ boot' = [todo |-> boot.todo \ {f}, caught |-> boot.caught]
    BY Zenon DEF CatchUp
  <2>3. CASE boot' = [todo |-> boot.todo \ {f}, caught |-> TRUE]
    BY Zenon, <2>1, <2>3
  <2>4. CASE boot' = [todo |-> boot.todo \ {f}, caught |-> boot.caught]
    BY Zenon, <2>1, <2>4
  <2> QED BY Zenon, <2>2, <2>3, <2>4
<1>3. index' \in [File -> SUBSET Chunks] /\ NewestServed'
  <2>1. CASE Wanted(f) /\ Deliver(Taken(f), row.policy)
    BY Zenon, <1>1, <2>1, TakenType, DeliverStep
  <2>2. CASE UNCHANGED index
    BY Zenon, <2>2 DEF TypeOK, NewestServed
  <2> QED BY Zenon, <2>1, <2>2 DEF CatchUp
<1>4. TypeOK'
  BY Zenon, <1>1, <1>2, <1>3 DEF TypeOK
<1>5. Scans' /\ ScanPolicies'
  BY Zenon, <1>1, QuietScans DEF Policies
<1>6. Policies'
  BY Zenon, <1>1, <1>5 DEF Policies, FeedPolicies, RequestPolicies, RowPolicy
<1>7. LastSeen'
  BY Zenon, <1>1, AwakeStep
<1> QED BY Zenon, <1>3, <1>4, <1>5, <1>6, <1>7

LEMMA RearmStep ==
    ASSUME IInv, Rearm
    PROVE  IInv'
<1> USE DEF IInv
<1>1. /\ up = "boot" /\ up' = "up" /\ row.policy \in Policy
      /\ row' = Watch(row.active, IF boot.caught THEN now + 1 ELSE row.seen, row.policy)
      /\ boot' = [todo |-> {}, caught |-> FALSE] /\ Miss(File)
      /\ UNCHANGED <<now, mtime, scan, handle, run, req, index, cut>>
  BY Zenon DEF Rearm, Policies, RowPolicy
<1>2. /\ row' \in Watches /\ row'.active = row.active /\ row'.policy = row.policy
      /\ row'.seen = row.seen \/ row'.seen = now + 1
  <2>1. CASE row' = Watch(row.active, now + 1, row.policy)
    BY Zenon, <2>1, NextSeen
  <2>2. CASE row' = Watch(row.active, row.seen, row.policy)
    <3>1. row' \in Watches
      BY Zenon, <2>2, Typed, Makers
    <3> QED BY Zenon, <2>2, <3>1 DEF Watch
  <2> QED BY Zenon, <1>1, <2>1, <2>2
<1>3. /\ feed' \in [Feed -> Consumers] /\ FeedPolicies'
      /\ fed' \in Feed \union {None} /\ dirty' \subseteq File
  <2>1. CASE \E g \in Feed : ArmWatch(g, row.policy)
    BY Zenon, <1>1, <2>1, ArmWatchStep
  <2>2. CASE UNCHANGED <<feed, fed, dirty>>
    BY Zenon, <2>2 DEF TypeOK, Policies, FeedPolicies
  <2> QED BY Zenon, <2>1, <2>2 DEF Rearm
<1>4. missed' \subseteq File
  <2>1. File \in SUBSET File
    BY Zenon
  <2> QED BY Zenon, <1>1, <2>1, MissType
<1>5. boot' \in [todo : SUBSET File, caught : BOOLEAN]
  BY Zenon, <1>1
<1>6. TypeOK'
  BY Zenon, <1>1, <1>2, <1>3, <1>4, <1>5 DEF TypeOK
<1>7. Scans' /\ ScanPolicies'
  BY Zenon, <1>1, QuietScans DEF Policies
<1>8. Policies'
  BY Zenon, <1>1, <1>2, <1>3, <1>7 DEF Policies, RequestPolicies, RowPolicy
<1>9. LastSeen'
  BY Zenon, <1>1, <1>2, AwakeStep
<1> QED BY Zenon, <1>1, <1>6, <1>7, <1>8, <1>9 DEF NewestServed

-----------------------------------------------------------------------------
(* The theorems *)

LEMMA NextIInv == IInv /\ [Next]_vars => IInv'
<1> SUFFICES ASSUME IInv, [Next]_vars PROVE IInv'
  BY Zenon
<1>1. ASSUME NEW r \in Run, Scan(r) \/ Panic(r) PROVE IInv'
  BY Zenon, <1>1, EnumerateStep, ScanReadStep, ScanWriteStep, ScanEndStep, PanicStep, CleanUpStep,
     DropHandleStep DEF Scan
<1>2. ASSUME NEW q \in Request,
             Proceed(q) \/ StopFolderWatch(q) \/ \E p \in Policy : AddFolderWatch(q, p)
      PROVE  IInv'
  BY Zenon, <1>2, AddStep, StopStep, RemoveStep, ArmStep, SpawnStep, InsertStep DEF Proceed
<1>3. ASSUME NEW g \in Feed, Consume(g) PROVE IInv'
  BY Zenon, <1>3, FeedReadStep, FeedWriteStep DEF Consume
<1>4. CASE Restart
  BY Zenon, <1>4, BootStep, CatchUpStep, RearmStep DEF Restart
<1>5. CASE UNCHANGED vars
  <2>1. UNCHANGED <<up, now, mtime, dirty, row, fed, feed, scan, handle, run, req, index, boot,
                    cut, missed>>
    BY Zenon, <1>5 DEF vars, disk, tasks
  <2>2. TypeOK' /\ NewestServed'
    BY Zenon, <2>1 DEF IInv, TypeOK, NewestServed
  <2>3. Scans' /\ ScanPolicies'
    BY Zenon, <2>1, QuietScans DEF IInv, Policies
  <2>4. Policies'
    BY Zenon, <2>1, <2>3 DEF IInv, Policies, FeedPolicies, RequestPolicies, RowPolicy
  <2>5. LastSeen'
    BY Zenon, <2>1 DEF IInv, LastSeen, Stopped
  <2> QED BY Zenon, <2>2, <2>3, <2>4, <2>5 DEF IInv
<1> QED
  BY Zenon, <1>1, <1>2, <1>3, <1>4, <1>5, DiskStep, SettleStep, StopScanStep, CrashStep DEF Next

THEOREM Invariance == Spec => []IInv
BY InitIInv, NextIInv, PTL DEF Spec

\* Every variable keeps its type; in particular nothing is ever ingested without
\* a visibility policy.
THEOREM TypeCorrect == Spec => []TypeOK
<1>1. IInv => TypeOK
  BY Zenon DEF IInv
<1> QED BY <1>1, Invariance, PTL

\* upsert_chunks: in whatever order the scan, the live watch, replaced consumers
\* and the boot deliver, the newest version indexed of a file is open.
THEOREM NewestStaysOpen == Spec => []NewestServed
<1>1. IInv => NewestServed
  BY Zenon DEF IInv
<1> QED BY <1>1, Invariance, PTL

\* spawn_initial_scan: two scans go on only while the newer supersedes the older.
THEOREM ScansSupersede == Spec => []OneScan
<1>1. ASSUME IInv, NEW r \in Run, NEW s \in Run, r < s, Going(r), Going(s),
             ~scan[r].cancel, ~scan[s].cancel
      PROVE  \E q \in Request : Inserting(q, s)
  <2>1. Started(s)
    BY Zenon, <1>1, AliveScan DEF Going
  <2>2. ASSUME NEW q \in Request, Inserting(q, r) PROVE FALSE
    <3>1. s > r
      BY <1>1, Indices
    <3>2. req[q].at = "insert" /\ req[q].run = r
      BY Zenon, <2>2 DEF Inserting
    <3>3. s > req[q].run
      BY <3>1, <3>2
    <3>4. \A x \in Run : x > req[q].run => ~Started(x)
      <4>1. req[q].at = "insert" /\ Scans
        BY Zenon, <1>1, <3>2 DEF IInv
      <4> QED BY Zenon, <4>1 DEF Scans
    <3> QED BY Zenon, <2>1, <3>3, <3>4
  <2>3. handle = r
    BY Zenon, <1>1, <2>2 DEF IInv, Scans, Active
  <2>4. handle # s
    BY <1>1, <2>3, Indices
  <2> QED BY Zenon, <1>1, <2>4 DEF IInv, Scans, Active
<1>2. IInv => OneScan
  BY Zenon, <1>1 DEF OneScan, Going, Inserting
<1> QED BY <1>2, Invariance, PTL

\* reestablish_on_boot: the catch-up finds whatever changed after the crash,
\* whoever moved last_seen before it.
THEOREM BootFindsChanges == Spec => DownFilesFound
<1>1. IInv /\ [Next]_vars =>
        [(up = "down" /\ up' = "boot") => {f \in File : mtime[f] > cut.at} \subseteq boot'.todo]_vars
  <2> SUFFICES ASSUME IInv, [Next]_vars, up = "down", up' = "boot", NEW f \in File,
                      mtime[f] > cut.at
               PROVE  f \in boot'.todo
    BY Zenon
  <2>1. /\ row.seen \in 0..(MaxTime + 1) /\ mtime[f] \in 0..MaxTime /\ cut.at \in 0..MaxTime
        /\ row.seen <= cut.at + 1
    BY Zenon, Typed DEF IInv, TypeOK, LastSeen
  <2>2. mtime[f] # Never /\ mtime[f] >= row.seen
    BY <2>1, FolderAssumption DEF Never
  <2>3. Boot
    <3>1. \A q \in Request : req[q].at = "idle"
      BY Zenon DEF IInv, LastSeen, Stopped
    <3>2. "boot" # "down" /\ "boot" # "up"
      BY Zenon
    <3>3. up' # up
      BY Zenon, <3>2
    <3> QED BY Zenon, <3>2, <3>3 DEF Next, Modify, Delete, Settle, Consume, FeedRead, FeedWrite, Scan,
              Panic, Enumerate, ScanRead, ScanWrite, ScanEnd, CleanUp, DropHandle, Proceed, Remove,
              Arm, SpawnScan, InsertScan, StopFolderWatch, AddFolderWatch, StopFolderScan, Crash,
              Restart, Rearm, CatchUp, vars
  <2>4. boot' = [todo |-> {x \in File : mtime[x] # Never /\ ChangedSince(x)}, caught |-> FALSE]
    BY Zenon, <2>3 DEF Boot
  <2>5. ChangedSince(f)
    BY Zenon, <2>2 DEF ChangedSince
  <2> QED BY Zenon, <2>2, <2>4, <2>5
<1> QED BY <1>1, Invariance, PTL DEF Spec, DownFilesFound

=============================================================================
