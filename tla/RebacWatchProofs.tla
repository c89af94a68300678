-------------------------- MODULE RebacWatchProofs --------------------------
(* The cursor covers what it passed, and fresh replicas have a live leader,  *)
(* for any number of replicas, any graph and any sequence of faults.         *)
EXTENDS RebacWatch, TLAPS

Covered(r) == Materialised(r) \/ r \in skipped

\* What every revision up to n needs.
Through(n) == \A r \in 1..n : Covered(r)

\* Cursors in the table and in the hands of the replicas, zombies included.
Covering ==
    /\ Through(cursor)
    /\ \A p \in Proc : Through(start[p]) /\ Through(pos[p])

\* An advance comes from the leader's beat or from an answer to the replica.
Vouched(p) ==
    \/ advance[p] = Never
    \/ beat >= advance[p] - Fresh
    \/ served[p] >= advance[p]

Past == beat <= now /\ \A r \in 1..Len(log) : log[r].at <= now

IInv == TypeOK /\ Past /\ Covering /\ \A p \in Proc : Vouched(p)

\* What no step takes away from a revision that is covered.
Grow ==
    /\ Len(log) <= Len(log') /\ \A r \in 1..Len(log) : log'[r] = log[r]
    /\ tombs \subseteq tombs' /\ skipped \subseteq skipped'

-----------------------------------------------------------------------------
\* Init establishes the invariant.
LEMMA InitIInv == Init => IInv
<1> SUFFICES ASSUME Init PROVE IInv OBVIOUS
<1> USE WatchAssumption DEF Init, NoCursor, Never, None
<1>1. TypeOK BY DEF TypeOK, Point, Tombstone
<1>2. Past BY DEF Past
<1>3. Covering BY DEF Covering, Through
<1>4. \A p \in Proc : Vouched(p) BY DEF Vouched
<1> QED BY <1>1, <1>2, <1>3, <1>4 DEF IInv

\* The log is append-only, tombstones and history only accumulate.
LEMMA Grows == IInv /\ [Next]_vars => Grow
<1> SUFFICES ASSUME IInv, [Next]_vars PROVE Grow OBVIOUS
<1>0. log \in Seq(Change) /\ now \in Nat BY DEF IInv, TypeOK
<1>1. ASSUME UNCHANGED <<log, tombs, skipped>> PROVE Grow
  BY <1>0, <1>1 DEF Grow
<1>2. ASSUME NEW p \in Proc, Step(p) PROVE Grow
  <2>1. CASE Acquire(p) BY <1>1, <2>1 DEF Acquire, spicedb, tables, history
  <2>2. CASE Follow(p) BY <1>1, <2>2 DEF Follow, spicedb, tables, history
  <2>3. CASE LoadCursor(p) BY <1>1, <2>3 DEF LoadCursor, spicedb, tables, history
  <2>4. CASE Probe(p) BY <1>1, <2>4 DEF Probe, spicedb, tables, history
  <2>5. CASE ProbeFails(p) BY <1>1, <2>5 DEF ProbeFails, spicedb, tables, history
  <2>6. CASE ConnectOk(p) BY <1>1, <2>6 DEF ConnectOk, spicedb, tables, history
  <2>7. CASE ConnectRefused(p) BY <1>1, <2>7 DEF ConnectRefused, spicedb, tables, history
  <2>8. CASE ConnectFails(p) BY <1>1, <2>8 DEF ConnectFails, spicedb, tables, history
  <2>9. CASE StoreCursor(p) BY <1>1, <2>9 DEF StoreCursor, spicedb, tables, history
  <2>10. CASE Heartbeat(p) BY <1>1, <2>10 DEF Heartbeat, spicedb, tables, history
  <2>11. CASE StreamEnds(p) BY <1>1, <2>11 DEF StreamEnds, spicedb, tables, history
  <2>12. CASE StreamGap(p) BY <1>1, <2>12 DEF StreamGap, spicedb, tables, history
  <2>13. CASE Issue(p) BY <1>0, <2>13 DEF Grow, Issue, spicedb, tables, history
  <2>14. CASE ApplyDelete(p) BY <1>0, <2>14 DEF Grow, ApplyDelete, spicedb, history
  <2> QED BY <1>2, <2>1, <2>2, <2>3, <2>4, <2>5, <2>6, <2>7, <2>8, <2>9, <2>10, <2>11, <2>12, <2>13, <2>14 DEF Step
<1>3. ASSUME NEW p \in Proc, Upset(p) PROVE Grow
  <2>1. CASE LoadFails(p) BY <1>1, <2>1 DEF LoadFails, spicedb, tables, history
  <2>2. CASE Panic(p) BY <1>1, <2>2 DEF Panic, spicedb, tables, history
  <2>3. CASE Restart(p) BY <1>1, <2>3 DEF Restart, spicedb, tables, history
  <2>4. CASE LoseSession(p) BY <1>1, <2>4 DEF LoseSession, spicedb, tables, history
  <2> QED BY <1>3, <2>1, <2>2, <2>3, <2>4 DEF Upset
<1>4. ASSUME NEW g \in Group, NEW k \in {"grant", "delete"}, Commit(k, g) PROVE Grow
  BY <1>0, <1>4 DEF Grow, Commit, Change, tables, history
<1>5. ASSUME NEW g \in Group, AdminRecord(g) PROVE Grow
  BY <1>0, <1>5 DEF Grow, AdminRecord, spicedb, history
<1>6. CASE Collect \/ GoDown \/ ComeUp \/ Tick
  BY <1>0, <1>6 DEF Grow, Collect, GoDown, ComeUp, Tick, tables, history, spicedb
<1>7. CASE UNCHANGED vars
  BY <1>0, <1>7 DEF Grow, vars, spicedb, tables, history
<1> QED BY <1>2, <1>3, <1>4, <1>5, <1>6, <1>7 DEF Next

\* A covered revision stays covered.
LEMMA StaysCovered ==
  ASSUME TypeOK, Grow, NEW n \in Int, Through(n) PROVE Through(n)'
<1>0. log \in Seq(Change) /\ Len(log) \in Nat BY DEF TypeOK
<1>1. ASSUME NEW r \in 1..n, Materialised(r) PROVE Materialised(r)'
  <2>1. r \in 1..Len(log) /\ log'[r] = log[r] BY <1>0, <1>1 DEF Materialised, Grow
  <2>2. r <= Len(log)' BY <2>1, <1>0 DEF Grow
  <2> QED BY <1>1, <2>1, <2>2 DEF Materialised, Grow
<1> QED BY <1>1 DEF Through, Covered, Grow

-----------------------------------------------------------------------------
\* A revision of the log is a change.
LEMMA LogEntry ==
  ASSUME TypeOK, NEW r \in 1..Len(log)
  PROVE  log[r] \in Change /\ log[r].group \in Group /\ log[r].at \in Nat
<1>1. log \in Seq(Change) BY DEF TypeOK
<1>2. log[r] \in Change BY <1>1
<1> QED BY <1>2 DEF Change

\* Dropping the guard keeps the types of what it resets.
LEMMA RelinquishTyped ==
  ASSUME TypeOK, NEW p \in Proc, Relinquish(p)
  PROVE  /\ holder' \in Proc \union {None} /\ pc' \in [Proc -> Point]
         /\ start' \in [Proc -> Int] /\ pos' \in [Proc -> Int]
<1>1. holder' \in Proc \union {None} BY Zenon DEF TypeOK, Relinquish
<1>2. pc' \in [Proc -> Point] BY DEF TypeOK, Relinquish, Goto, Point
<1>3. start' \in [Proc -> Int] /\ pos' \in [Proc -> Int] BY DEF TypeOK, Relinquish, NoCursor
<1> QED BY Zenon, <1>1, <1>2, <1>3

\* A step of the loop goes to one of its points.
LEMMA GotoTyped ==
  ASSUME TypeOK, NEW p \in Proc, NEW x \in Point, Goto(p, x)
  PROVE  pc' \in [Proc -> Point]
BY DEF TypeOK, Goto

\* The setters of WatchStatus keep its types.
LEMMA StatusTyped ==
  ASSUME TypeOK, NEW p \in Proc
  PROVE  /\ SetConnected(p, TRUE) => connected' \in [Proc -> BOOLEAN]
         /\ SetConnected(p, FALSE) => connected' \in [Proc -> BOOLEAN]
         /\ MarkAdvance(p) => advance' \in [Proc -> Int]
         /\ Served(p) => served' \in [Proc -> Nat]
         /\ Gap(p) => degraded' \in [Proc -> BOOLEAN]
<1>1. SetConnected(p, TRUE) => connected' \in [Proc -> BOOLEAN] BY DEF TypeOK, SetConnected
<1>2. SetConnected(p, FALSE) => connected' \in [Proc -> BOOLEAN] BY DEF TypeOK, SetConnected
<1>3. MarkAdvance(p) => advance' \in [Proc -> Int] BY DEF TypeOK, MarkAdvance
<1>4. Served(p) => served' \in [Proc -> Nat] BY DEF TypeOK, Served
<1>5. Gap(p) => degraded' \in [Proc -> BOOLEAN] BY DEF TypeOK, Gap
<1> QED BY Zenon, <1>1, <1>2, <1>3, <1>4, <1>5

\* The fault counter counts.
LEMMA FaultTyped == TypeOK /\ (Fault \/ UNCHANGED faults) => faults' \in Nat
BY DEF TypeOK, Fault

\* Types are kept.
LEMMA TypesKept == IInv /\ [Next]_vars => TypeOK'
<1> SUFFICES ASSUME IInv, [Next]_vars PROVE TypeOK' OBVIOUS
<1>1. TypeOK BY DEF IInv
<1>0. NoCursor \in Int /\ Never \in Int BY WatchAssumption DEF NoCursor, Never
<1> USE <1>1 DEF TypeOK, spicedb, tables, loop, status, history
<1>p. {"elect", "load", "connect", "stream", "store"} = Point BY Zenon DEF Point
<1>2. ASSUME NEW p \in Proc, Step(p) PROVE TypeOK'
  <2>0. beat \in Int /\ now \in Int OBVIOUS
  <2>1. CASE Acquire(p)
    <3>1. pc' \in [Proc -> Point] BY Zenon, <2>1, <1>p, GotoTyped DEF Acquire
    <3>2. faults' \in Nat BY Zenon, <2>1, FaultTyped DEF Acquire
    <3>3. beat' \in Int BY Zenon, <2>0, <2>1 DEF Acquire
    <3> QED BY Zenon, <2>1, <3>1, <3>2, <3>3 DEF Acquire
  <2>2. CASE Follow(p)
    BY Zenon, <2>2, StatusTyped DEF Follow, Vouch
  <2>3. CASE LoadCursor(p)
    <3>1. pc' \in [Proc -> Point] BY Zenon, <2>3, <1>p, GotoTyped DEF LoadCursor
    <3> QED BY Zenon, <2>3, <3>1 DEF LoadCursor
  <2>4. CASE Issue(p)
    <3>1. Len(log) \in Nat BY DEF Change
    <3>2. pos' \in [Proc -> Int] BY <2>4, <3>1 DEF Issue
    <3>3. skipped' \subseteq skipped \union 1..Len(log) BY Zenon, <2>4 DEF Issue
    <3>4. anchor' \in Int BY <2>4, <3>1 DEF Issue
    <3>5. skipped' \subseteq Nat BY <3>1, <3>3
    <3> QED BY Zenon, <2>4, <3>2, <3>4, <3>5 DEF Issue
  <2>5. CASE Probe(p)
    <3>1. CASE holder = p /\ beat' = now /\ UNCHANGED <<faults, holder, loop>>
      BY Zenon, <2>0, <2>5, <3>1, StatusTyped DEF Probe, Vouch
    <3>2. CASE Relinquish(p) /\ UNCHANGED beat /\ faults' \in Nat
      BY Zenon, <2>5, <3>2, StatusTyped, RelinquishTyped DEF Probe, Vouch
    <3>3. Fault \/ UNCHANGED faults => faults' \in Nat BY Zenon, FaultTyped
    <3> QED BY Zenon, <2>5, <3>1, <3>2, <3>3 DEF Probe
  <2>6. CASE ProbeFails(p) BY Zenon, <2>6, StatusTyped DEF ProbeFails
  <2>7. CASE ConnectOk(p)
    <3>1. pc' \in [Proc -> Point] BY Zenon, <2>7, <1>p, GotoTyped DEF ConnectOk
    <3> QED BY Zenon, <2>7, <3>1, StatusTyped DEF ConnectOk, Vouch
  <2>8. CASE ConnectRefused(p)
    <3>1. faults' \in Nat BY Zenon, <2>8, FaultTyped DEF ConnectRefused
    <3>2. cursor' \in Int BY Zenon, <1>0, <2>8 DEF ConnectRefused
    <3> QED BY Zenon, <2>8, <3>1, <3>2, StatusTyped, RelinquishTyped DEF ConnectRefused, Gap
  <2>9. CASE ConnectFails(p)
    <3>1. faults' \in Nat BY Zenon, <2>9, FaultTyped DEF ConnectFails
    <3> QED BY Zenon, <2>9, <3>1, RelinquishTyped DEF ConnectFails
  <2>10. CASE ApplyDelete(p)
    <3>0. pos[p] + 1 \in 1..Len(log) BY <2>10 DEF ApplyDelete
    <3>1. log[pos[p] + 1].group \in Group BY Zenon, <3>0, LogEntry
    <3>2. tombs' \subseteq Tombstone
      BY <2>10, <3>1, WatchAssumption DEF ApplyDelete, Stamp, FreshTokens, Tombstone
    <3>3. pos' \in [Proc -> Int] BY <2>10 DEF ApplyDelete
    <3>4. pc' \in [Proc -> Point] BY Zenon, <2>10, <1>p, GotoTyped DEF ApplyDelete
    <3> QED BY Zenon, <2>10, <3>2, <3>3, <3>4 DEF ApplyDelete
  <2>11. CASE StoreCursor(p)
    <3>1. pc' \in [Proc -> Point] BY Zenon, <2>11, <1>p, GotoTyped DEF StoreCursor
    <3>2. cursor' \in Int BY Zenon, <2>11 DEF StoreCursor
    <3> QED BY Zenon, <2>11, <3>1, <3>2, StatusTyped DEF StoreCursor
  <2>12. CASE Heartbeat(p)
    <3>1. CASE holder = p /\ beat' = now /\ MarkAdvance(p)
               /\ UNCHANGED <<holder, loop, connected>>
      BY Zenon, <2>0, <2>12, <3>1, StatusTyped DEF Heartbeat
    <3>2. CASE SetConnected(p, FALSE) /\ Relinquish(p) /\ UNCHANGED <<beat, advance>>
      BY Zenon, <2>12, <3>2, StatusTyped, RelinquishTyped DEF Heartbeat
    <3> QED BY Zenon, <2>12, <3>1, <3>2 DEF Heartbeat
  <2>13. CASE StreamEnds(p)
    <3>1. faults' \in Nat BY Zenon, <2>13, FaultTyped DEF StreamEnds
    <3> QED BY Zenon, <2>13, <3>1, StatusTyped, RelinquishTyped DEF StreamEnds
  <2>14. CASE StreamGap(p)
    <3>1. faults' \in Nat BY Zenon, <2>14, FaultTyped DEF StreamGap
    <3>2. cursor' \in Int BY Zenon, <1>0, <2>14 DEF StreamGap
    <3> QED BY Zenon, <2>14, <3>1, <3>2, StatusTyped, RelinquishTyped DEF StreamGap, Gap
  <2> QED BY Zenon, <1>2, <2>1, <2>2, <2>3, <2>4, <2>5, <2>6, <2>7, <2>8, <2>9, <2>10, <2>11, <2>12, <2>13, <2>14 DEF Step
<1>3. ASSUME NEW p \in Proc, Upset(p) PROVE TypeOK'
  <2>1. CASE LoadFails(p) BY Zenon, <2>1, FaultTyped, RelinquishTyped DEF LoadFails
  <2>2. CASE Panic(p) BY Zenon, <2>2, FaultTyped, RelinquishTyped DEF Panic
  <2>3. CASE Restart(p)
    <3>1. degraded' \in [Proc -> BOOLEAN] BY <2>3 DEF Restart
    <3>2. advance' \in [Proc -> Int] BY <1>0, <2>3 DEF Restart
    <3> QED BY Zenon, <2>3, <3>1, <3>2, FaultTyped, RelinquishTyped, StatusTyped DEF Restart
  <2>4. CASE LoseSession(p) BY Zenon, <2>4, FaultTyped DEF LoseSession
  <2> QED BY Zenon, <1>3, <2>1, <2>2, <2>3, <2>4 DEF Upset
<1>4. ASSUME NEW g \in Group, NEW k \in {"grant", "delete"}, Commit(k, g) PROVE TypeOK'
  BY <1>4 DEF Commit, Change
<1>5. ASSUME NEW g \in Group, AdminRecord(g) PROVE TypeOK'
  <2>1. tombs' \subseteq Tombstone BY <1>5, WatchAssumption DEF AdminRecord, Stamp, Tombstone
  <2> QED BY Zenon, <1>5, <2>1 DEF AdminRecord
<1>6. CASE Collect BY <1>6 DEF Collect
<1>7. CASE GoDown BY Zenon, <1>7, FaultTyped DEF GoDown
<1>8. CASE ComeUp BY Zenon, <1>8 DEF ComeUp
<1>9. CASE Tick BY <1>9 DEF Tick
<1>10. CASE UNCHANGED vars BY Zenon, <1>10 DEF vars
<1> QED BY Zenon, <1>2, <1>3, <1>4, <1>5, <1>6, <1>7, <1>8, <1>9, <1>10 DEF Next

\* Beats and changes are never ahead of the clock.
LEMMA PastKept == IInv /\ [Next]_vars => Past'
<1> SUFFICES ASSUME IInv, [Next]_vars PROVE Past' OBVIOUS
<1> USE DEF Past, spicedb, tables, loop, status, history
<1>0. TypeOK /\ Past BY DEF IInv
<1>1. now \in Nat /\ beat \in Int /\ log \in Seq(Change) BY Zenon, <1>0 DEF TypeOK
<1>2. ASSUME NEW p \in Proc, Step(p) PROVE Past'
  <2>1. CASE Acquire(p) BY <2>1, <1>0, <1>1 DEF Acquire
  <2>2. CASE Follow(p) BY <2>2, <1>0, <1>1 DEF Follow
  <2>3. CASE LoadCursor(p) BY Zenon, <2>3, <1>0, <1>1 DEF LoadCursor
  <2>4. CASE Issue(p) BY Zenon, <2>4, <1>0, <1>1 DEF Issue
  <2>5. CASE Probe(p) BY <2>5, <1>0, <1>1 DEF Probe
  <2>6. CASE ProbeFails(p) BY <2>6, <1>0, <1>1 DEF ProbeFails
  <2>7. CASE ConnectOk(p) BY <2>7, <1>0, <1>1 DEF ConnectOk
  <2>8. CASE ConnectRefused(p) BY Zenon, <2>8, <1>0, <1>1 DEF ConnectRefused
  <2>9. CASE ConnectFails(p) BY Zenon, <2>9, <1>0, <1>1 DEF ConnectFails
  <2>10. CASE ApplyDelete(p) BY Zenon, <2>10, <1>0, <1>1 DEF ApplyDelete
  <2>11. CASE StoreCursor(p) BY Zenon, <2>11, <1>0, <1>1 DEF StoreCursor
  <2>12. CASE Heartbeat(p)
    <3>1. beat' \in {beat, now} BY Zenon, <2>12 DEF Heartbeat
    <3> QED BY <2>12, <3>1, <1>0, <1>1 DEF Heartbeat
  <2>13. CASE StreamEnds(p) BY Zenon, <2>13, <1>0, <1>1 DEF StreamEnds
  <2>14. CASE StreamGap(p) BY Zenon, <2>14, <1>0, <1>1 DEF StreamGap
  <2> QED BY Zenon, <1>2, <2>1, <2>2, <2>3, <2>4, <2>5, <2>6, <2>7, <2>8, <2>9, <2>10, <2>11, <2>12, <2>13, <2>14 DEF Step
<1>3. ASSUME NEW p \in Proc, Upset(p) PROVE Past'
  <2>1. CASE LoadFails(p) BY Zenon, <2>1, <1>0, <1>1 DEF LoadFails
  <2>2. CASE Panic(p) BY Zenon, <2>2, <1>0, <1>1 DEF Panic
  <2>3. CASE Restart(p) BY Zenon, <2>3, <1>0, <1>1 DEF Restart
  <2>4. CASE LoseSession(p) BY Zenon, <2>4, <1>0, <1>1 DEF LoseSession
  <2> QED BY Zenon, <1>3, <2>1, <2>2, <2>3, <2>4 DEF Upset
<1>4. ASSUME NEW g \in Group, NEW k \in {"grant", "delete"}, Commit(k, g) PROVE Past'
  BY <1>4, <1>0, <1>1 DEF Commit, Change
<1>5. ASSUME NEW g \in Group, AdminRecord(g) PROVE Past'
  BY <1>5, <1>0, <1>1 DEF AdminRecord
<1>6. CASE Collect BY Zenon, <1>6, <1>0, <1>1 DEF Collect
<1>7. CASE GoDown BY Zenon, <1>7, <1>0, <1>1 DEF GoDown
<1>8. CASE ComeUp BY Zenon, <1>8, <1>0, <1>1 DEF ComeUp
<1>9. CASE Tick
  <2>1. \A r \in 1..Len(log) : log[r].at \in Nat BY <1>0, LogEntry
  <2> QED BY <1>9, <2>1, <1>0, <1>1 DEF Tick
<1>10. CASE UNCHANGED vars BY <1>10, <1>0, <1>1 DEF vars
<1> QED BY <1>2, <1>3, <1>4, <1>5, <1>6, <1>7, <1>8, <1>9, <1>10 DEF Next

\* An advance is vouched for by a beat or by an answer.
LEMMA VouchedKept == IInv /\ [Next]_vars => \A p \in Proc : Vouched(p)'
<1> SUFFICES ASSUME IInv, [Next]_vars, NEW q \in Proc PROVE Vouched(q)' OBVIOUS
<1>1. TypeOK /\ Past /\ Vouched(q) BY Zenon DEF IInv
<1>2. /\ now \in Nat /\ beat \in Int /\ beat <= now /\ Fresh \in Nat
      /\ advance \in [Proc -> Int] /\ served \in [Proc -> Nat]
  BY <1>1, WatchAssumption DEF TypeOK, Past
<1>3. ASSUME UNCHANGED <<advance, served>>, beat' \in {beat, now} PROVE Vouched(q)'
  BY <1>1, <1>2, <1>3 DEF Vouched
<1>4. ASSUME NEW p \in Proc, advance' = [advance EXCEPT ![p] = now], beat' \in {beat, now},
             \/ beat' > now - Fresh /\ UNCHANGED served
             \/ beat' = now /\ UNCHANGED served
             \/ served' = [served EXCEPT ![p] = now]
      PROVE  Vouched(q)'
  <2>1. CASE q = p BY <1>2, <1>4, <2>1 DEF Vouched
  <2>2. CASE q # p
    <3>1. advance'[q] = advance[q] /\ served'[q] = served[q] BY Zenon, <1>2, <1>4, <2>2
    <3> QED BY <1>1, <1>2, <1>4, <3>1 DEF Vouched
  <2> QED BY <2>1, <2>2
<1> USE DEF spicedb, tables, loop, status, history
<1>5. ASSUME NEW p \in Proc, Step(p) PROVE Vouched(q)'
  <2>1. CASE Acquire(p) BY <1>3, <2>1 DEF Acquire
  <2>2. CASE Follow(p) BY Zenon, <1>4, <2>2, <1>2 DEF Follow, Vouch, MarkAdvance
  <2>3. CASE LoadCursor(p) BY Zenon, <1>3, <2>3 DEF LoadCursor
  <2>4. CASE Issue(p) BY <1>3, <2>4 DEF Issue
  <2>5. CASE Probe(p)
    <3>1. beat' \in {beat, now} BY <2>5 DEF Probe
    <3> QED BY Zenon, <1>4, <2>5, <3>1 DEF Probe, Vouch, MarkAdvance, Served
  <2>6. CASE ProbeFails(p) BY <1>3, <2>6 DEF ProbeFails
  <2>7. CASE ConnectOk(p) BY Zenon, <1>4, <2>7 DEF ConnectOk, Vouch, MarkAdvance, Served
  <2>8. CASE ConnectRefused(p) BY Zenon, <1>3, <2>8 DEF ConnectRefused
  <2>9. CASE ConnectFails(p) BY Zenon, <1>3, <2>9 DEF ConnectFails
  <2>10. CASE ApplyDelete(p) BY <1>3, <2>10 DEF ApplyDelete
  <2>11. CASE StoreCursor(p) BY Zenon, <1>4, <2>11 DEF StoreCursor, MarkAdvance, Served
  <2>12. CASE Heartbeat(p)
    <3>1. CASE holder = p BY <1>4, <2>12, <3>1 DEF Heartbeat, MarkAdvance
    <3>2. CASE holder # p BY Zenon, <1>3, <2>12, <3>2 DEF Heartbeat
    <3> QED BY Zenon, <3>1, <3>2
  <2>13. CASE StreamEnds(p) BY Zenon, <1>3, <2>13 DEF StreamEnds
  <2>14. CASE StreamGap(p) BY <1>3, <2>14 DEF StreamGap
  <2> QED BY <1>5, <2>1, <2>2, <2>3, <2>4, <2>5, <2>6, <2>7, <2>8, <2>9, <2>10, <2>11, <2>12, <2>13, <2>14 DEF Step
<1>6. ASSUME NEW p \in Proc, Upset(p) PROVE Vouched(q)'
  <2>1. CASE LoadFails(p) BY <1>3, <2>1 DEF LoadFails
  <2>2. CASE Panic(p) BY <1>3, <2>2 DEF Panic
  <2>3. CASE Restart(p)
    <3>1. CASE q = p BY <1>2, <2>3, <3>1 DEF Restart, Vouched
    <3>2. CASE q # p BY <1>1, <1>2, <2>3, <3>2 DEF Restart, Served, Vouched
    <3> QED BY <3>1, <3>2
  <2>4. CASE LoseSession(p) BY <1>3, <2>4 DEF LoseSession
  <2> QED BY <1>6, <2>1, <2>2, <2>3, <2>4 DEF Upset
<1>7. ASSUME NEW g \in Group, NEW k \in {"grant", "delete"}, Commit(k, g) PROVE Vouched(q)'
  BY <1>3, <1>7 DEF Commit
<1>8. ASSUME NEW g \in Group, AdminRecord(g) PROVE Vouched(q)'
  BY <1>3, <1>8 DEF AdminRecord
<1>9. CASE Collect BY <1>3, <1>9 DEF Collect
<1>10. CASE GoDown BY <1>3, <1>10 DEF GoDown
<1>11. CASE ComeUp BY <1>3, <1>11 DEF ComeUp
<1>12. CASE Tick BY <1>3, <1>12 DEF Tick
<1>13. CASE UNCHANGED vars BY <1>3, <1>13 DEF vars
<1> QED BY <1>5, <1>6, <1>7, <1>8, <1>9, <1>10, <1>11, <1>12, <1>13 DEF Next

-----------------------------------------------------------------------------
\* A stream anchored at head covers what it passes over.
LEMMA AnchorCovers ==
  ASSUME TypeOK, NEW p \in Proc, Issue(p), start[p] = NoCursor
  PROVE  Through(Len(log))' /\ pos' = [pos EXCEPT ![p] = Len(log)]
<1>1. /\ UNCHANGED <<log, tombs>>
      /\ skipped' = skipped \union {r \in 1..Len(log) : ~Materialised(r)}
      /\ pos' = [pos EXCEPT ![p] = Len(log)]
  BY DEF Issue, spicedb, tables
<1>2. \A r \in 1..Len(log) : Materialised(r) => Materialised(r)' BY <1>1 DEF Materialised
<1> QED BY Zenon, <1>1, <1>2 DEF Through, Covered

\* Applying a change covers its revision: a token is stamped or was lately.
LEMMA ApplyCovers ==
  ASSUME TypeOK, Past, NEW p \in Proc, ApplyDelete(p), NEW n \in Int, n = pos[p] + 1
  PROVE  Covered(n)'
<1> DEFINE c == log[n]
<1>1. /\ log \in Seq(Change) /\ pos[p] \in Int /\ gc \in Nat /\ now \in Nat
      /\ tombs \subseteq Tombstone /\ Dedupe \in Nat
      /\ UNCHANGED log
  BY Zenon, WatchAssumption DEF TypeOK, ApplyDelete, spicedb
<1>2. n \in 1..Len(log) BY <1>1 DEF ApplyDelete
<1>3. c.at \in Nat /\ c.at <= now BY <1>2, LogEntry DEF Past
<1>4. ASSUME c.kind = "delete", NEW t \in Up[c.group]
      PROVE  \E e \in tombs' : e.token = t /\ e.at >= c.at - Dedupe
  <2>1. tombs' = tombs \union Stamp(FreshTokens(c.group)) BY Zenon, <1>4 DEF ApplyDelete
  <2>2. CASE t \in FreshTokens(c.group)
    <3>1. [token |-> t, at |-> now] \in tombs' BY Zenon, <2>1, <2>2 DEF Stamp
    <3> QED BY <3>1, <1>1, <1>3
  <2>3. CASE t \notin FreshTokens(c.group)
    <3>1. PICK e \in tombs : e.token = t /\ e.at > now - Dedupe BY <1>4, <2>3 DEF FreshTokens
    <3>2. e.at \in Nat BY <1>1 DEF Tombstone
    <3> QED BY <1>1, <1>3, <2>1, <3>1, <3>2
  <2> QED BY Zenon, <2>2, <2>3
<1>5. Materialised(n)' BY <1>1, <1>2, <1>4 DEF Materialised
<1> QED BY <1>5 DEF Covered

\* A cursor in the table or held by a replica, as a value.
Held(n) == n = NoCursor \/ n = cursor \/ \E p \in Proc : n \in {start[p], pos[p]}

\* A value that was held covers what it did, after any step.
LEMMA HeldCovers ==
  ASSUME IInv, [Next]_vars, NEW n \in Int, Held(n) PROVE Through(n)'
<1>1. TypeOK /\ Covering BY DEF IInv
<1>2. Grow BY Grows
<1>3. Through(n) BY <1>1 DEF Covering, Held, Through, NoCursor
<1> QED BY <1>1, <1>2, <1>3, StaysCovered

\* Every cursor, wherever it is held, covers the revisions up to it.
LEMMA CoveringKept == IInv /\ [Next]_vars => Covering'
<1> SUFFICES ASSUME IInv, [Next]_vars PROVE Covering' OBVIOUS
<1>1. TypeOK /\ Past BY DEF IInv
<1>2. TypeOK' BY TypesKept
<1>3. /\ cursor \in Int /\ start \in [Proc -> Int] /\ pos \in [Proc -> Int]
      /\ cursor' \in Int /\ start' \in [Proc -> Int] /\ pos' \in [Proc -> Int]
  BY Zenon, <1>1, <1>2 DEF TypeOK
\* A step that only moves cursors between the table and the replicas.
<1>4. ASSUME Held(cursor'), \A q \in Proc : Held(start'[q]) /\ Held(pos'[q])
      PROVE  Covering'
  <2>1. \A n \in Int : Held(n) => Through(n)' BY HeldCovers
  <2>2. \A r \in 1..cursor' : Covered(r)' BY <1>3, <1>4, <2>1 DEF Through
  <2>3. ASSUME NEW q \in Proc
        PROVE  (\A r \in 1..start'[q] : Covered(r)') /\ (\A r \in 1..pos'[q] : Covered(r)')
    BY Zenon, <1>3, <1>4, <2>1 DEF Through
  <2> QED BY <2>2, <2>3 DEF Covering, Through
<1>5. ASSUME UNCHANGED <<cursor, start, pos>> PROVE Covering'
  BY Zenon, <1>4, <1>5 DEF Held
<1>6. ASSUME NEW p \in Proc, Relinquish(p), cursor' \in {cursor, NoCursor} PROVE Covering'
  BY <1>3, <1>4, <1>6 DEF Held, Relinquish
<1> USE DEF spicedb, tables, loop
<1>7. ASSUME NEW p \in Proc, Step(p) PROVE Covering'
  <2>1. CASE Acquire(p) BY Zenon, <1>5, <2>1 DEF Acquire
  <2>2. CASE Follow(p) BY <1>5, <2>2 DEF Follow
  <2>3. CASE LoadCursor(p) BY <1>3, <1>4, <2>3 DEF LoadCursor, Held
  <2>4. CASE Issue(p)
    <3>1. CASE start[p] # NoCursor BY Zenon, <1>3, <1>4, <2>4, <3>1 DEF Issue, Held
    <3>2. CASE start[p] = NoCursor
      <4>1. Through(Len(log))' /\ pos' = [pos EXCEPT ![p] = Len(log)]
        BY Zenon, <1>1, <2>4, <3>2, AnchorCovers
      <4>2. UNCHANGED <<cursor, start, log>> BY Zenon, <2>4 DEF Issue
      <4>3. Through(cursor)' BY <1>3, <4>2, HeldCovers DEF Held, Through
      <4>4. ASSUME NEW q \in Proc PROVE Through(start[q])' /\ Through(pos[q])'
        <5>1. Through(start[q])' BY <1>3, <4>2, HeldCovers DEF Held, Through
        <5>2. CASE q = p BY <1>3, <4>1, <4>2, <5>1, <5>2 DEF Through
        <5>3. CASE q # p
          <6>1. pos'[q] = pos[q] BY <1>3, <4>1, <5>3
          <6>2. \A n \in Int : n = pos[q] => Through(n)' BY HeldCovers DEF Held
          <6>3. Through(pos[q])' BY <1>3, <6>1, <6>2 DEF Through
          <6> QED BY <5>1, <6>3
        <5> QED BY <5>2, <5>3
      <4> QED BY <4>3, <4>4 DEF Covering
    <3> QED BY <3>1, <3>2
  <2>5. CASE Probe(p)
    <3>1. cursor' = cursor BY <2>5 DEF Probe
    <3>2. CASE UNCHANGED loop BY <1>5, <3>1, <3>2
    <3>3. CASE Relinquish(p) BY <1>6, <3>1, <3>3
    <3> QED BY <2>5, <3>2, <3>3 DEF Probe
  <2>6. CASE ProbeFails(p) BY Zenon, <1>5, <2>6 DEF ProbeFails
  <2>7. CASE ConnectOk(p) BY Zenon, <1>5, <2>7 DEF ConnectOk
  <2>8. CASE ConnectRefused(p)
    <3>1. cursor' \in {cursor, NoCursor} BY Zenon, <2>8 DEF ConnectRefused
    <3> QED BY Zenon, <1>6, <2>8, <3>1 DEF ConnectRefused, Gap
  <2>9. CASE ConnectFails(p) BY Zenon, <1>6, <2>9 DEF ConnectFails
  <2>10. CASE ApplyDelete(p)
    <3>1. UNCHANGED <<cursor, start>> /\ pos' = [pos EXCEPT ![p] = pos[p] + 1]
      BY <2>10 DEF ApplyDelete
    <3>2. \A n \in Int : Held(n) => Through(n)' BY HeldCovers
    <3>3. \A n \in Int : n = pos[p] + 1 => Covered(n)' BY <1>1, <2>10, ApplyCovers
    <3>4. \A r \in 1..cursor' : Covered(r)' BY <1>3, <3>1, <3>2 DEF Through, Held
    <3>5. ASSUME NEW q \in Proc PROVE \A r \in 1..start'[q] : Covered(r)'
      BY <1>3, <3>1, <3>2 DEF Through, Held
    <3>6. ASSUME NEW q \in Proc PROVE \A r \in 1..pos'[q] : Covered(r)'
      <4>1. \A r \in 1..pos[q] : Covered(r)' BY <1>3, <3>2 DEF Through, Held
      <4>2. CASE q = p
        <5>1. pos'[q] = pos[p] + 1 BY <1>3, <3>1, <4>2
        <5> QED BY <1>3, <3>3, <4>1, <4>2, <5>1
      <4>3. CASE q # p BY <1>3, <3>1, <4>1, <4>3
      <4> QED BY <4>2, <4>3
    <3> QED BY <3>4, <3>5, <3>6 DEF Covering, Through
  <2>11. CASE StoreCursor(p) BY <1>3, <1>4, <2>11 DEF StoreCursor, Held
  <2>12. CASE Heartbeat(p)
    <3>1. cursor' = cursor BY Zenon, <2>12 DEF Heartbeat
    <3>2. CASE UNCHANGED loop BY <1>5, <3>1, <3>2
    <3>3. CASE Relinquish(p) BY <1>6, <3>1, <3>3
    <3> QED BY Zenon, <2>12, <3>2, <3>3 DEF Heartbeat
  <2>13. CASE StreamEnds(p) BY Zenon, <1>6, <2>13 DEF StreamEnds
  <2>14. CASE StreamGap(p)
    <3>1. cursor' \in {cursor, NoCursor} BY <2>14 DEF StreamGap
    <3> QED BY <1>6, <2>14, <3>1 DEF StreamGap, Gap
  <2> QED BY <1>7, <2>1, <2>2, <2>3, <2>4, <2>5, <2>6, <2>7, <2>8, <2>9, <2>10, <2>11, <2>12,
             <2>13, <2>14 DEF Step
<1>8. ASSUME NEW p \in Proc, Upset(p) PROVE Covering'
  <2>1. CASE LoadFails(p) BY <1>6, <2>1 DEF LoadFails
  <2>2. CASE Panic(p) BY <1>6, <2>2 DEF Panic
  <2>3. CASE Restart(p) BY <1>6, <2>3 DEF Restart
  <2>4. CASE LoseSession(p) BY <1>5, <2>4 DEF LoseSession
  <2> QED BY <1>8, <2>1, <2>2, <2>3, <2>4 DEF Upset
<1>9. ASSUME NEW g \in Group, NEW k \in {"grant", "delete"}, Commit(k, g) PROVE Covering'
  BY <1>5, <1>9 DEF Commit
<1>10. ASSUME NEW g \in Group, AdminRecord(g) PROVE Covering' BY <1>5, <1>10 DEF AdminRecord
<1>11. CASE Collect BY <1>5, <1>11 DEF Collect
<1>12. CASE GoDown BY <1>5, <1>12 DEF GoDown
<1>13. CASE ComeUp BY <1>5, <1>13 DEF ComeUp
<1>14. CASE Tick BY <1>5, <1>14 DEF Tick
<1>15. CASE UNCHANGED vars BY <1>5, <1>15 DEF vars
<1> QED BY <1>7, <1>8, <1>9, <1>10, <1>11, <1>12, <1>13, <1>14, <1>15 DEF Next

-----------------------------------------------------------------------------
\* The inductive invariant holds in every reachable state.
LEMMA WatchInvariance == Spec => []IInv
<1>1. IInv /\ [Next]_vars => IInv'
  BY TypesKept, PastKept, CoveringKept, VouchedKept DEF IInv
<1> QED BY InitIInv, <1>1, PTL DEF Spec

\* The persisted cursor never passes a deletion without tombstones, with any
\* number of replicas, zombie leaders, replays and gaps; what a stream anchored
\* at head passed over is the only exception.
THEOREM CursorNeverPassesADelete == Spec => []CursorCovers
<1>1. IInv => CursorCovers BY DEF IInv, Covering, Through, Covered, CursorCovers
<1> QED BY <1>1, WatchInvariance, PTL

\* A replica whose reads are unfenced has a leader that beat within the bounds,
\* or an answer of its own: is_stale and the follower's mirror agree.
THEOREM FreshnessHasASource == Spec => []UnfencedHasLeader
<1>1. IInv => UnfencedHasLeader
  <2> SUFFICES ASSUME IInv, NEW p \in Proc, ~Stale(p)
               PROVE  now - beat <= Bound + Fresh \/ now - served[p] <= Bound
    BY DEF UnfencedHasLeader
  <2>1. /\ now \in Nat /\ beat \in Int /\ advance[p] \in Int /\ served[p] \in Nat
        /\ Bound \in Nat /\ Fresh \in Nat /\ Vouched(p)
    BY WatchAssumption DEF IInv, TypeOK
  <2> QED BY <2>1 DEF Stale, Vouched
<1> QED BY <1>1, WatchInvariance, PTL

=============================================================================
