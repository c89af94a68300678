--------------------------- MODULE FactStoreProofs ---------------------------
(* Proofs about FactStore, for every instance. *)
EXTENDS FactStore, TLAPS

\* A row of the key is current or closed, and there is at most one current row.
OneCurrent == \A i, j \in Current : i = j

\* A row closed by a newer value ends where another row begins: a later one,
\* or one that was there before it.
EndsAtAnother ==
    \A i \in Ids \ removed : facts[i].valid_to # Open =>
       \E j \in Ids :
          /\ facts[j].valid_from = facts[i].valid_to
          /\ facts[j].valid_from > facts[i].valid_from \/ (facts[j].valid_from = facts[i].valid_from /\ j < i)

\* With no current row, the latest row was deleted or forgotten.
NoneCurrent ==
    Current = {} => \A j \in Ids : \E k \in removed : facts[k].valid_from >= facts[j].valid_from

RowInv ==
    /\ facts \in Seq(Row)
    /\ removed \subseteq Ids
    /\ OneCurrent
    /\ EndsAtAnother
    /\ NoneCurrent
    /\ LatestRecordedWins

\* A read under way carries a row that was current when it was read.
FillsWereCurrent == \A q \in Request : pc[q] = "fill" => WasCurrent(held[q].id)

Copies == CacheWasCurrent /\ FillsWereCurrent

IInv == TypeOK /\ now <= MaxTime /\ RowInv /\ Copies

\* A step of the timeline, or none.
TimelineStep == [Timeline!Next]_(Timeline!vars)

\* A row that was current still is one that was.
Kept == \A i \in Ids : WasCurrent(i) => WasCurrent(i)'

StepGoal == RowInv' /\ Frozen /\ Kept /\ TimelineStep

-----------------------------------------------------------------------------
(* Rows *)

LEMMA RowTypes ==
    /\ \A v \in Value, from \in Time, to \in Time \union {Open}, acl \in Acl :
          NewRow(v, from, to, acl) \in Row
    /\ \A x \in Row, t \in Time, by \in Nat : Closed(x, t, by) \in Row
    /\ \A x \in Row, acl \in Acl : Relabelled(x, acl) \in Row
BY DEF NewRow, Closed, Relabelled, Row, None, Time, Acl

\* Closing rows keeps them as they are otherwise.
LEMMA CloseRows ==
    ASSUME NEW rows \in Seq(Row), NEW S, NEW t \in Time, NEW by \in Nat
    PROVE  /\ Close(rows, S, t, by) \in Seq(Row)
           /\ Len(Close(rows, S, t, by)) = Len(rows)
           /\ \A i \in 1..Len(rows) :
                 /\ Close(rows, S, t, by)[i].value = rows[i].value
                 /\ Close(rows, S, t, by)[i].valid_from = rows[i].valid_from
                 /\ i \in S => /\ Close(rows, S, t, by)[i].valid_to = t
                               /\ Close(rows, S, t, by)[i].superseded_by = by
                 /\ i \notin S => Close(rows, S, t, by)[i] = rows[i]
<1>1. \A i \in 1..Len(rows) : (IF i \in S THEN Closed(rows[i], t, by) ELSE rows[i]) \in Row
  BY RowTypes
<1>2. Close(rows, S, t, by) \in [1..Len(rows) -> Row]
  BY <1>1 DEF Close
<1> QED
  BY <1>2 DEF Close, Closed

LEMMA AppendRow ==
    ASSUME NEW rows \in Seq(Row), NEW x \in Row
    PROVE  /\ Append(rows, x) \in Seq(Row)
           /\ Len(Append(rows, x)) = Len(rows) + 1
           /\ \A i \in 1..Len(rows) : Append(rows, x)[i] = rows[i]
           /\ Append(rows, x)[Len(rows) + 1] = x
OBVIOUS

LEMMA RowOf ==
    ASSUME NEW rows \in Seq(Row), NEW i \in 1..Len(rows)
    PROVE  /\ rows[i] \in Row
           /\ rows[i].valid_from \in Nat
           /\ rows[i].valid_to \in Nat \union {Open}
<1>1. rows[i] \in Row
  OBVIOUS
<1> QED
  BY <1>1 DEF Row, Time

-----------------------------------------------------------------------------
(* What each write does to the rows *)

\* A row inserted where none is current.
LEMMA InsertedStep ==
    ASSUME RowInv, NEW v \in Value, NEW at \in 1..MaxTime, NEW acl \in Acl,
           Inserted(v, at, acl), UNCHANGED removed
    PROVE  StepGoal
<1> DEFINE x == NewRow(v, at, Open, acl)
           n == Len(facts) + 1
<1>t. at \in Time /\ at \in Nat
  BY FactAssumption DEF Time
<1>1. /\ x \in Row /\ x.valid_to = Open /\ x.valid_from = at /\ x.value = v
  BY Zenon, <1>t, RowTypes DEF NewRow
<1> HIDE DEF x
<1>2. /\ facts \in Seq(Row) /\ facts' \in Seq(Row) /\ Len(facts) \in Nat
      /\ Len(facts') = n /\ facts'[n] = x
      /\ \A i \in Ids : facts'[i] = facts[i]
  BY <1>1, AppendRow DEF Inserted, RowInv, Ids, x
<1>3. Ids' = Ids \union {n} /\ n \notin Ids
  BY <1>2 DEF Ids
<1>4. \A i \in Ids : facts[i].valid_from \in Nat /\ facts[i] \in Row
  BY <1>2, RowOf DEF Ids
<1>5. Current = {} /\ Current' = {n}
  <2>1. \A i \in Ids : facts[i].valid_to # Open
    BY DEF Inserted, Current
  <2>2. \A i \in Ids' : facts'[i].valid_to = Open <=> i = n
    BY <2>1, <1>1, <1>2, <1>3
  <2> QED
    BY Zenon, <2>2, <1>3 DEF Inserted, Current
<1>6. removed' \subseteq Ids'
  BY <1>3 DEF RowInv
<1>7. OneCurrent'
  BY <1>5 DEF OneCurrent
<1>8. EndsAtAnother'
  <2> SUFFICES ASSUME NEW i \in Ids' \ removed', facts'[i].valid_to # Open
               PROVE  \E j \in Ids' :
                        /\ facts'[j].valid_from = facts'[i].valid_to
                        /\ \/ facts'[j].valid_from > facts'[i].valid_from
                           \/ facts'[j].valid_from = facts'[i].valid_from /\ j < i
    BY DEF EndsAtAnother
  <2>1. i \in Ids \ removed
    BY <1>1, <1>2, <1>3
  <2> QED
    BY <2>1, <1>2, <1>3 DEF RowInv, EndsAtAnother
<1>9. NoneCurrent'
  BY <1>5 DEF NoneCurrent
<1>10. LatestRecordedWins'
  <2> SUFFICES ASSUME NEW j \in Ids'
               PROVE  \/ facts'[j].valid_from <= facts'[n].valid_from
                      \/ \E k \in removed' : facts'[k].valid_from >= facts'[j].valid_from
    BY <1>5 DEF LatestRecordedWins
  <2>1. CASE j = n
    BY <2>1, <1>t, <1>1, <1>2
  <2>2. CASE j \in Ids
    <3>1. PICK k \in removed : facts[k].valid_from >= facts[j].valid_from
      BY <2>2, <1>5 DEF RowInv, NoneCurrent
    <3> QED
      BY <3>1, <2>2, <1>2 DEF RowInv
  <2> QED
    BY <2>1, <2>2, <1>3
<1>11. Frozen
  BY <1>2, <1>3 DEF Frozen
<1>12. TimelineStep
  <2>1. Recorded(Current) = {} /\ Recorded(Current)' = {Timeline!Record(v, at)}
    BY <1>1, <1>2, <1>5 DEF Recorded, Timeline!Record
  <2>2. Recorded(Ids \ Current)' = Recorded(Ids \ Current)
    <3>1. (Ids \ Current)' = Ids \ Current
      BY <1>3, <1>5
    <3> QED
      BY <3>1, <1>2 DEF Recorded
  <2> QED
    BY <2>1, <2>2 DEF TimelineStep, Timeline!Next, Timeline!Assert
<1>13. Kept
  BY <1>2 DEF Kept, WasCurrent
<1> QED
  BY <1>2, <1>6, <1>7, <1>8, <1>9, <1>10, <1>11, <1>12, <1>13 DEF RowInv, StepGoal

\* A late event recorded as history.
LEMMA StaleStep ==
    ASSUME RowInv, NEW v \in Value, NEW at \in 1..MaxTime, NEW acl \in Acl,
           StaleEvent(v, at, acl), UNCHANGED removed
    PROVE  StepGoal
<1> DEFINE n == Len(facts) + 1
<1>t. at \in Time /\ at \in Nat
  BY FactAssumption DEF Time
<1>1. PICK c \in Current :
         /\ facts[c].value # v /\ at <= facts[c].valid_from
         /\ facts' = Append(facts, NewRow(v, at, facts[c].valid_from, acl))
  BY DEF StaleEvent
<1> DEFINE x == NewRow(v, at, facts[c].valid_from, acl)
<1>2. /\ facts \in Seq(Row) /\ Len(facts) \in Nat
      /\ c \in Ids /\ facts[c].valid_from \in Nat /\ facts[c].valid_to = Open
  BY RowOf DEF RowInv, Ids, Current
<1>3. x \in Row /\ x.valid_to = facts[c].valid_from /\ x.valid_from = at /\ x.value = v
  BY Zenon, <1>t, <1>2, RowTypes DEF NewRow, Time
<1> HIDE DEF x
<1>4. /\ facts' \in Seq(Row) /\ Len(facts') = n /\ facts'[n] = x
      /\ \A i \in Ids : facts'[i] = facts[i]
  BY <1>1, <1>2, <1>3, AppendRow DEF Ids, x
<1>5. Ids' = Ids \union {n} /\ n \notin Ids
  BY <1>2, <1>4 DEF Ids
<1>6. x.valid_to # Open
  BY <1>2, <1>3 DEF Open
<1>7. Current' = Current
  BY <1>4, <1>5, <1>6 DEF Current
<1>8. removed' \subseteq Ids'
  BY <1>5 DEF RowInv
<1>9. OneCurrent'
  BY <1>7 DEF OneCurrent, RowInv
<1>10. EndsAtAnother'
  <2> SUFFICES ASSUME NEW i \in Ids' \ removed', facts'[i].valid_to # Open
               PROVE  \E j \in Ids' :
                        /\ facts'[j].valid_from = facts'[i].valid_to
                        /\ \/ facts'[j].valid_from > facts'[i].valid_from
                           \/ facts'[j].valid_from = facts'[i].valid_from /\ j < i
    BY DEF EndsAtAnother
  <2>1. CASE i = n
    <3>1. c \in Ids' /\ c < n
      BY <1>2, <1>5 DEF Ids
    <3>2. /\ facts'[c].valid_from = facts'[i].valid_to
          /\ facts'[i].valid_from = at /\ facts'[c].valid_from = facts[c].valid_from
      BY <2>1, <1>2, <1>3, <1>4
    <3>3. \/ facts'[c].valid_from > facts'[i].valid_from
          \/ facts'[c].valid_from = facts'[i].valid_from /\ c < i
      BY <3>1, <3>2, <2>1, <1>t, <1>1, <1>2
    <3> QED
      BY <3>1, <3>2, <3>3
  <2>2. CASE i \in Ids
    BY <2>2, <1>4, <1>5 DEF RowInv, EndsAtAnother
  <2> QED
    BY <2>1, <2>2, <1>5
<1>11. NoneCurrent'
  BY <1>7 DEF NoneCurrent
<1>12. LatestRecordedWins'
  <2> SUFFICES ASSUME NEW i \in Current, NEW j \in Ids'
               PROVE  \/ facts'[j].valid_from <= facts'[i].valid_from
                      \/ \E k \in removed' : facts'[k].valid_from >= facts'[j].valid_from
    BY <1>7 DEF LatestRecordedWins
  <2>1. i = c /\ i \in Ids
    BY DEF RowInv, OneCurrent, Current
  <2>2. CASE j = n
    BY Zenon, <2>1, <2>2, <1>1, <1>3, <1>4
  <2>3. CASE j \in Ids
    BY <2>1, <2>3, <1>4 DEF RowInv, LatestRecordedWins
  <2> QED
    BY <2>2, <2>3, <1>5
<1>13. Frozen
  BY <1>4, <1>5 DEF Frozen
<1>14. TimelineStep
  <2>1. Recorded(Current)' = Recorded(Current)
    <3>1. \A i \in Current : facts'[i] = facts[i]
      BY <1>4 DEF Current
    <3> QED
      BY <3>1, <1>7 DEF Recorded
  <2>2. Recorded(Ids \ Current)' = Recorded(Ids \ Current) \union {Timeline!Record(v, at)}
    <3>1. (Ids \ Current)' = (Ids \ Current) \union {n}
      BY <1>5, <1>7 DEF Current
    <3>2. [value |-> facts'[n].value, since |-> facts'[n].valid_from] = Timeline!Record(v, at)
      BY <1>3, <1>4 DEF Timeline!Record
    <3> QED
      BY <3>1, <3>2, <1>4 DEF Recorded
  <2>3. [value |-> facts[c].value, since |-> facts[c].valid_from] \in Recorded(Current)
    BY DEF Recorded
  <2>4. \E y \in Recorded(Current) : at <= y.since /\ v # y.value
    BY <2>3, <1>1
  <2> QED
    BY Zenon, <2>1, <2>2, <2>4 DEF TimelineStep, Timeline!Next, Timeline!Late
<1>15. Kept
  BY <1>4 DEF Kept, WasCurrent
<1> QED
  BY <1>4, <1>8, <1>9, <1>10, <1>11, <1>12, <1>13, <1>14, <1>15 DEF RowInv, StepGoal

\* A newer value takes the place of the current one.
LEMMA SupersededStep ==
    ASSUME RowInv, NEW v \in Value, NEW at \in 1..MaxTime, NEW acl \in Acl,
           Superseded(v, at, acl), UNCHANGED removed
    PROVE  StepGoal
<1>t. at \in Time /\ at \in Nat
  BY FactAssumption DEF Time
<1>0. PICK n \in Nat : n = Len(facts) + 1
  BY DEF RowInv
<1> DEFINE x == NewRow(v, at, Open, acl)
<1>1. PICK c \in Current :
         /\ facts[c].value # v /\ at > facts[c].valid_from
         /\ facts' = Append(Close(facts, {c}, at, n), x)
  BY Zenon, <1>0 DEF Superseded
<1>2. /\ facts \in Seq(Row) /\ Len(facts) \in Nat
      /\ c \in Ids /\ facts[c] \in Row /\ facts[c].valid_from \in Nat
  BY RowOf DEF RowInv, Ids, Current
<1>3. x \in Row /\ x.valid_to = Open /\ x.valid_from = at /\ x.value = v
  BY Zenon, <1>t, RowTypes DEF NewRow
<1> HIDE DEF x
<1> DEFINE old == Close(facts, {c}, at, n)
<1>4. /\ old \in Seq(Row) /\ Len(old) = Len(facts)
      /\ \A i \in Ids :
            /\ old[i].value = facts[i].value
            /\ old[i].valid_from = facts[i].valid_from
            /\ i \in {c} => old[i].valid_to = at /\ old[i].superseded_by = n
            /\ i \notin {c} => old[i] = facts[i]
  BY <1>t, <1>2, CloseRows DEF Ids
<1> HIDE DEF old
<1>5. /\ facts' \in Seq(Row) /\ Len(facts') = n /\ facts'[n] = x
      /\ \A i \in Ids : facts'[i] = old[i]
  <2>1. facts' = Append(old, x)
    BY <1>1 DEF old
  <2>2. /\ Append(old, x) \in Seq(Row) /\ Len(Append(old, x)) = Len(old) + 1
        /\ \A i \in 1..Len(old) : Append(old, x)[i] = old[i]
        /\ Append(old, x)[Len(old) + 1] = x
    BY <1>3, <1>4, AppendRow
  <2> QED
    BY <2>1, <2>2, <1>0, <1>4 DEF Ids
<1>6. Ids' = Ids \union {n} /\ n \notin Ids
  BY <1>0, <1>2, <1>5 DEF Ids
<1>7. /\ \A i \in Ids : facts'[i].valid_from = facts[i].valid_from /\ facts'[i].value = facts[i].value
      /\ \A i \in Ids : i # c => facts'[i] = facts[i]
      /\ facts'[c].valid_to = at
  BY <1>2, <1>4, <1>5
<1>8. at # Open /\ \A i \in Ids : i # c => facts[i].valid_to # Open
  BY <1>t DEF RowInv, OneCurrent, Current, Open
<1>9. Current' = {n}
  <2>1. \A i \in Ids' : facts'[i].valid_to = Open <=> i = n
    BY <1>2, <1>3, <1>5, <1>6, <1>7, <1>8
  <2> QED
    BY <2>1, <1>6 DEF Current
<1>10. removed' \subseteq Ids'
  BY <1>6 DEF RowInv
<1>11. OneCurrent' /\ NoneCurrent'
  BY <1>9 DEF OneCurrent, NoneCurrent
<1>12. EndsAtAnother'
  <2> SUFFICES ASSUME NEW i \in Ids' \ removed', facts'[i].valid_to # Open
               PROVE  \E j \in Ids' :
                        /\ facts'[j].valid_from = facts'[i].valid_to
                        /\ \/ facts'[j].valid_from > facts'[i].valid_from
                           \/ facts'[j].valid_from = facts'[i].valid_from /\ j < i
    BY DEF EndsAtAnother
  <2>1. i # n
    BY <1>3, <1>5
  <2>2. CASE i = c
    <3>1. n \in Ids' /\ facts'[n].valid_from = at
      BY <1>3, <1>5, <1>6
    <3> QED
      BY Zenon, <3>1, <2>2, <1>1, <1>2, <1>7
  <2>3. CASE i \in Ids /\ i # c
    BY <2>3, <1>6, <1>7 DEF RowInv, EndsAtAnother
  <2> QED
    BY <2>1, <2>2, <2>3, <1>6
<1>13. LatestRecordedWins'
  <2> SUFFICES ASSUME NEW j \in Ids'
               PROVE  \/ facts'[j].valid_from <= facts'[n].valid_from
                      \/ \E k \in removed' : facts'[k].valid_from >= facts'[j].valid_from
    BY <1>9 DEF LatestRecordedWins
  <2>1. CASE j = n
    BY <2>1, <1>t, <1>3, <1>5
  <2>2. CASE j \in Ids
    <3>1. facts[j].valid_from \in Nat
      BY <2>2, <1>2, RowOf DEF Ids
    <3>2. CASE facts[j].valid_from <= facts[c].valid_from
      <4>1. facts'[j].valid_from = facts[j].valid_from /\ facts'[n].valid_from = at
        BY <2>2, <1>3, <1>5, <1>7
      <4> QED
        BY <4>1, <3>1, <3>2, <1>t, <1>1, <1>2
    <3>3. CASE \E k \in removed : facts[k].valid_from >= facts[j].valid_from
      BY <3>3, <2>2, <1>7 DEF RowInv
    <3> QED
      BY <3>2, <3>3, <2>2 DEF RowInv, LatestRecordedWins
  <2> QED
    BY <2>1, <2>2, <1>6
<1>14. Frozen
  <2>1. facts[c].valid_to = Open
    BY DEF Current
  <2> QED
    BY <2>1, <1>6, <1>7 DEF Frozen
<1>15. TimelineStep
  <2>1. Current = {c}
    BY DEF RowInv, OneCurrent
  <2>2. Recorded(Current)' = {Timeline!Record(v, at)}
    BY <1>3, <1>5, <1>9 DEF Recorded, Timeline!Record
  <2>3. Recorded(Ids \ Current)' = Recorded(Ids \ Current) \union Recorded(Current)
    <3>1. (Ids \ Current)' = (Ids \ Current) \union Current
      BY <1>6, <1>9 DEF Current
    <3> QED
      BY <3>1, <1>7 DEF Recorded, Current
  <2>4. \A y \in Recorded(Current) : at > y.since /\ v # y.value
    BY <2>1, <1>1 DEF Recorded
  <2> QED
    BY Zenon, <2>2, <2>3, <2>4 DEF TimelineStep, Timeline!Next, Timeline!Assert
<1>16. Kept
  <2>1. facts'[c].superseded_by # None
    BY <1>0, <1>2, <1>4, <1>5 DEF None
  <2> QED
    BY <2>1, <1>7 DEF Kept, WasCurrent
<1> QED
  BY <1>5, <1>10, <1>11, <1>12, <1>13, <1>14, <1>15, <1>16 DEF RowInv, StepGoal

\* What is current is closed by a deletion or a forget.
LEMMA RemoveStep ==
    ASSUME RowInv, NEW t \in Time, Current # {},
           facts' = Close(facts, Current, t, None), removed' = removed \union Current
    PROVE  StepGoal
<1>1. facts \in Seq(Row) /\ None \in Nat /\ Len(facts) \in Nat
  BY DEF RowInv, None
<1>2. /\ facts' \in Seq(Row) /\ Len(facts') = Len(facts)
      /\ \A i \in Ids : /\ facts'[i].valid_from = facts[i].valid_from /\ facts'[i].value = facts[i].value
                        /\ i \in Current => facts'[i].valid_to = t
                        /\ i \notin Current => facts'[i] = facts[i]
  <2> DEFINE R == Close(facts, Current, t, None)
  <2>1. /\ R \in Seq(Row) /\ Len(R) = Len(facts)
        /\ \A i \in 1..Len(facts) :
              /\ R[i].valid_from = facts[i].valid_from /\ R[i].value = facts[i].value
              /\ i \in Current => R[i].valid_to = t
              /\ i \notin Current => R[i] = facts[i]
    BY <1>1, CloseRows
  <2> QED
    BY <2>1 DEF Ids
<1>3. Ids' = Ids
  BY <1>2 DEF Ids
<1>4. t # Open
  BY DEF Time, Open
<1>5. Current' = {}
  BY Zenon, <1>2, <1>3, <1>4 DEF Current
<1>6. removed' \subseteq Ids'
  BY <1>3 DEF RowInv, Current
<1>7. EndsAtAnother'
  <2> SUFFICES ASSUME NEW i \in Ids' \ removed', facts'[i].valid_to # Open
               PROVE  \E j \in Ids' :
                        /\ facts'[j].valid_from = facts'[i].valid_to
                        /\ \/ facts'[j].valid_from > facts'[i].valid_from
                           \/ facts'[j].valid_from = facts'[i].valid_from /\ j < i
    BY DEF EndsAtAnother
  <2>1. i \in Ids \ removed /\ facts'[i] = facts[i]
    BY <1>2, <1>3
  <2> QED
    BY <2>1, <1>2, <1>3 DEF RowInv, EndsAtAnother
<1>8. NoneCurrent'
  <2> SUFFICES ASSUME NEW j \in Ids
               PROVE  \E k \in removed' : facts'[k].valid_from >= facts'[j].valid_from
    BY <1>3 DEF NoneCurrent
  <2>1. PICK c \in Current : TRUE
    OBVIOUS
  <2>2. c \in Ids /\ facts[j].valid_from \in Nat /\ facts[c].valid_from \in Nat
    BY <1>1, RowOf DEF Current, Ids
  <2>3. CASE facts[j].valid_from <= facts[c].valid_from
    BY <2>1, <2>2, <2>3, <1>2
  <2>4. CASE \E k \in removed : facts[k].valid_from >= facts[j].valid_from
    BY Zenon, <2>4, <1>2 DEF RowInv
  <2> QED
    BY <2>1, <2>3, <2>4 DEF RowInv, LatestRecordedWins
<1>9. Frozen
  BY Zenon, <1>2, <1>3 DEF Frozen, Current
<1>10. TimelineStep
  <2>1. Recorded(Current) # {} /\ Recorded(Current)' = {}
    BY Zenon, <1>5 DEF Recorded
  <2>2. Recorded(Ids \ Current)' = Recorded(Ids \ Current) \union Recorded(Current)
    <3>1. (Ids \ Current)' = (Ids \ Current) \union Current
      BY <1>3, <1>5 DEF Current
    <3>2. \A i \in Ids : /\ facts'[i].valid_from = facts[i].valid_from
                         /\ facts'[i].value = facts[i].value
      BY <1>2
    <3>3. Current \subseteq Ids
      BY DEF Current
    <3> QED
      BY <3>1, <3>2, <3>3 DEF Recorded
  <2> QED
    BY <2>1, <2>2 DEF TimelineStep, Timeline!Next, Timeline!Retract
<1>11. Kept
  BY <1>2 DEF Kept, WasCurrent
<1> QED
  BY <1>2, <1>5, <1>6, <1>7, <1>8, <1>9, <1>10, <1>11 DEF RowInv, OneCurrent, LatestRecordedWins, StepGoal

\* A correction gives every row another ACL.
LEMMA RelabelStep ==
    ASSUME RowInv, NEW acl \in Acl,
           facts' = [i \in Ids |-> Relabelled(facts[i], acl)], UNCHANGED removed
    PROVE  StepGoal
<1>1. facts \in Seq(Row) /\ Len(facts) \in Nat
  BY DEF RowInv
<1>2. \A i \in Ids : Relabelled(facts[i], acl) \in Row
  BY <1>1, RowOf, RowTypes DEF Ids
<1>3. facts' \in Seq(Row) /\ Len(facts') = Len(facts)
  BY <1>1, <1>2 DEF Ids
<1>4. \A i \in Ids : /\ facts'[i].valid_from = facts[i].valid_from /\ facts'[i].value = facts[i].value
                     /\ facts'[i].superseded_by = facts[i].superseded_by
                     /\ facts'[i].valid_to = facts[i].valid_to
  BY DEF Relabelled
<1>5. Ids' = Ids
  BY <1>3 DEF Ids
<1>6. Current' = Current
  BY <1>4, <1>5 DEF Current
<1>7. EndsAtAnother'
  BY <1>4, <1>5 DEF RowInv, EndsAtAnother
<1>8. NoneCurrent' /\ LatestRecordedWins'
  <2>1. \A j \in Current : j \in Ids
    BY DEF Current
  <2>2. \A k \in removed : k \in Ids
    BY DEF RowInv
  <2> QED
    BY <2>1, <2>2, <1>4, <1>5, <1>6 DEF RowInv, NoneCurrent, LatestRecordedWins
<1>9. Frozen
  BY <1>4, <1>5 DEF Frozen
<1>10. TimelineStep
  <2>1. Recorded(Current)' = Recorded(Current) /\ Recorded(Ids \ Current)' = Recorded(Ids \ Current)
    BY <1>4, <1>5, <1>6 DEF Recorded, Current
  <2> QED
    BY <2>1 DEF TimelineStep, Timeline!vars
<1>11. Kept
  BY <1>4 DEF Kept, WasCurrent
<1> QED
  BY Zenon, <1>3, <1>5, <1>6, <1>7, <1>8, <1>9, <1>10, <1>11 DEF RowInv, OneCurrent, StepGoal

LEMMA SameRows ==
    ASSUME RowInv, UNCHANGED <<facts, removed>>
    PROVE  StepGoal
<1>1. RowInv'
  BY DEF RowInv, OneCurrent, EndsAtAnother, NoneCurrent, LatestRecordedWins, Current, Ids
<1>2. Frozen
  BY DEF Frozen, Ids
<1>3. TimelineStep
  BY DEF TimelineStep, Timeline!vars, Recorded, Current, Ids
<1>4. Kept
  BY DEF Kept, WasCurrent
<1> QED
  BY <1>1, <1>2, <1>3, <1>4 DEF StepGoal

-----------------------------------------------------------------------------
(* The handlers *)

LEMMA SlotTypes ==
    ASSUME TypeOK, NEW q \in Request, NEW at \in Point, NEW h \in Copy, Goto(q, at, h)
    PROVE  /\ pc' \in [Request -> Point] /\ held' \in [Request -> Copy]
           /\ pc'[q] = at /\ held'[q] = h
           /\ \A r \in Request : r # q => pc'[r] = pc[r] /\ held'[r] = held[r]
BY DEF TypeOK, Goto

LEMMA CopyTypes ==
    /\ NoCopy \in Copy
    /\ \A i \in Nat, acl \in Acl : [id |-> i, acl |-> acl] \in Copy
    /\ {"idle", "query", "fill", "flush", "correct"} = Point
BY DEF NoCopy, Copy, NoAcl, Acl, None, Point

\* A handler that moves on without holding a row.
LEMMA Moves ==
    ASSUME TypeOK, Copies, Frozen, Kept, NEW q \in Request, NEW at \in Point \ {"fill"}, NEW h \in Copy, Goto(q, at, h),
           RowInv', Len(facts') \in Nat, Len(facts') >= Len(facts),
           now' \in Nat, newest' \in [at : Time, values : SUBSET Value],
           UNCHANGED cache
    PROVE  TypeOK' /\ Copies'
<1>1. /\ pc' \in [Request -> Point] /\ held' \in [Request -> Copy]
      /\ pc'[q] = at
      /\ \A r \in Request : r # q => pc'[r] = pc[r] /\ held'[r] = held[r]
  BY SlotTypes
<1>2. /\ facts' \in Seq(Row) /\ removed' \subseteq 1..Len(facts') /\ Len(facts) \in Nat
  BY DEF RowInv, Ids, TypeOK
<1>3. \A r \in Request : pc'[r] = "fill" => held'[r].id \in 1..Len(facts')
  <2> SUFFICES ASSUME NEW r \in Request, pc'[r] = "fill" PROVE held'[r].id \in 1..Len(facts')
    OBVIOUS
  <2>1. r # q
    BY <1>1
  <2>2. held[r].id \in 1..Len(facts) /\ held'[r] = held[r]
    BY <2>1, <1>1 DEF TypeOK
  <2> QED
    BY <2>2, <1>2
<1>4. cache' \in [Process -> Copy] /\ \A p \in Process : cache'[p].id <= Len(facts')
  <2>1. \A p \in Process : cache[p].id \in Nat /\ cache[p].id <= Len(facts)
    BY DEF TypeOK, Copy
  <2> QED
    BY <2>1, <1>2 DEF TypeOK
<1>5. CacheWasCurrent'
  <2> SUFFICES ASSUME NEW p \in Process, cache[p].id # None PROVE WasCurrent(cache[p].id)'
    BY DEF CacheWasCurrent
  <2>1. cache[p].id \in Ids
    BY <1>2 DEF TypeOK, Copy, None, Ids
  <2> QED
    BY <2>1 DEF Copies, CacheWasCurrent, Kept, WasCurrent
<1>6. FillsWereCurrent'
  <2> SUFFICES ASSUME NEW r \in Request, pc'[r] = "fill" PROVE WasCurrent(held[r].id)' /\ held'[r] = held[r]
    BY DEF FillsWereCurrent, WasCurrent
  <2>1. r # q
    BY <1>1
  <2>2. held[r].id \in Ids /\ held'[r] = held[r] /\ WasCurrent(held[r].id)
    BY <2>1, <1>1 DEF TypeOK, Ids, Copies, FillsWereCurrent
  <2> QED
    BY <2>2 DEF Kept, WasCurrent
<1> QED
  BY <1>1, <1>2, <1>3, <1>4, <1>5, <1>6 DEF TypeOK, Time, Copies

LEMMA Grows ==
    ASSUME TypeOK, RowInv', Frozen
    PROVE  Len(facts') \in Nat /\ Len(facts') >= Len(facts)
<1>1. Len(facts) \in Nat /\ Len(facts') \in Nat
  BY DEF TypeOK, RowInv
<1>2. CASE Len(facts) = 0
  BY <1>1, <1>2
<1>3. CASE Len(facts) > 0
  <2>1. Len(facts) \in Ids
    BY <1>1, <1>3 DEF Ids
  <2> QED
    BY <2>1, <1>1 DEF Frozen, Ids
<1> QED
  BY <1>1, <1>2, <1>3

LEMMA UpsertStep ==
    ASSUME IInv, NEW q \in Request, NEW v \in Value, NEW at \in 1..now, NEW acl \in EventAcls,
           UpsertFact(q, v, at, acl)
    PROVE  IInv' /\ Frozen /\ TimelineStep
<1>1. at \in 1..MaxTime /\ acl \in Acl /\ RowInv /\ TypeOK /\ Copies /\ at \in Nat /\ now \in Nat
  BY FactAssumption DEF IInv, TypeOK, Acl, Time
<1>2. StepGoal
  <2>1. CASE Inserted(v, at, acl)
    BY <1>1, <2>1, InsertedStep DEF UpsertFact
  <2>2. CASE Superseded(v, at, acl)
    BY <1>1, <2>2, SupersededStep DEF UpsertFact
  <2>3. CASE Unchanged(v)
    BY <1>1, <2>3, SameRows DEF UpsertFact, Unchanged
  <2>4. CASE StaleEvent(v, at, acl)
    BY <1>1, <2>4, StaleStep DEF UpsertFact
  <2> QED
    BY <2>1, <2>2, <2>3, <2>4 DEF UpsertFact
<1>3. Len(facts') \in Nat /\ Len(facts') >= Len(facts)
  BY <1>1, <1>2, Grows DEF StepGoal
<1>4. newest' \in [at : Time, values : SUBSET Value] /\ now' = now
  BY <1>1 DEF UpsertFact, Note, TypeOK, Time
<1>5. TypeOK' /\ Copies'
  <2>1. CASE Goto(q, "flush", NoCopy)
    BY Zenon, <2>1, <1>1, <1>2, <1>3, <1>4, CopyTypes, Moves DEF UpsertFact, StepGoal
  <2>2. CASE UNCHANGED slots
    <3>1. Goto(q, pc[q], held[q]) /\ pc[q] = "idle" /\ held[q] \in Copy
      BY <2>2, <1>1 DEF Goto, slots, UpsertFact, TypeOK
    <3> QED
      BY Zenon, <3>1, <1>1, <1>2, <1>3, <1>4, CopyTypes, Moves DEF UpsertFact, StepGoal
  <2> QED
    BY <2>1, <2>2 DEF UpsertFact
<1> QED
  BY <1>1, <1>2, <1>4, <1>5 DEF IInv, StepGoal

LEMMA RemovalStep ==
    ASSUME IInv, NEW q \in Request,
           \/ Forget(q)
           \/ \E at \in 1..now : RetireEntity(q, at)
    PROVE  IInv' /\ Frozen /\ TimelineStep
<1>1. RowInv /\ TypeOK /\ Copies /\ now \in Nat
  BY DEF IInv, TypeOK, Time
<1>2. PICK t \in Time : /\ Current # {} /\ facts' = Close(facts, Current, t, None)
                        /\ removed' = removed \union Current
                        /\ Goto(q, "flush", NoCopy)
                        /\ UNCHANGED <<now, newest, cache>>
  BY <1>1 DEF Forget, RetireEntity, Time
<1>3. StepGoal
  BY <1>1, <1>2, RemoveStep
<1>4. Len(facts') \in Nat /\ Len(facts') >= Len(facts)
  BY <1>1, <1>3, Grows DEF StepGoal
<1>5. newest' \in [at : Time, values : SUBSET Value]
  BY <1>1, <1>2 DEF TypeOK
<1>6. TypeOK' /\ Copies'
  BY Zenon, <1>1, <1>2, <1>3, <1>4, <1>5, CopyTypes, Moves DEF StepGoal
<1> QED
  BY <1>1, <1>2, <1>3, <1>6 DEF IInv, StepGoal

\* A step of a handler that leaves the rows and the cache alone.
LEMMA QuietStep ==
    ASSUME IInv, NEW q \in Request,
           \/ Miss(q) \/ Drop(q)
           \/ \E acl \in NewAcls, unshare \in BOOLEAN : AclChange(q, acl, unshare)
    PROVE  IInv' /\ Frozen /\ TimelineStep
<1>1. RowInv /\ TypeOK /\ Copies /\ now \in Nat /\ UNCHANGED <<now, store, cache>>
  BY Zenon DEF IInv, TypeOK, Time, Miss, Drop, AclChange
<1>2. StepGoal
  BY <1>1, SameRows DEF store
<1>3. Len(facts') \in Nat /\ Len(facts') >= Len(facts)
  BY <1>1, <1>2, Grows DEF StepGoal
<1>4. PICK at \in Point \ {"fill"}, h \in Copy : Goto(q, at, h)
  <2>1. CASE Miss(q) \/ Drop(q)
    BY <2>1, CopyTypes DEF Miss, Drop
  <2>2. CASE \E acl \in NewAcls, unshare \in BOOLEAN : AclChange(q, acl, unshare)
    <3>1. PICK acl \in NewAcls, unshare \in BOOLEAN : AclChange(q, acl, unshare)
      BY <2>2
    <3>2. acl \in Acl /\ None \in Nat
      BY FactAssumption DEF Acl, None
    <3>3. \A i \in Current : [visibility |-> acl.visibility,
                             confidentiality |-> facts[i].acl.confidentiality] \in Acl
      <4>1. \A i \in Current : facts[i].acl \in Acl
        BY Zenon, <1>1, RowOf DEF RowInv, Current, Ids, Row
      <4> QED
        BY <4>1, <3>2 DEF Acl
    <3> QED
      BY Zenon, <3>1, <3>2, <3>3, CopyTypes DEF AclChange
  <2> QED
    BY <2>1, <2>2
<1>5. newest' \in [at : Time, values : SUBSET Value]
  BY <1>1 DEF TypeOK, store
<1>6. TypeOK' /\ Copies'
  BY <1>1, <1>2, <1>3, <1>4, <1>5, Moves DEF StepGoal
<1> QED
  BY <1>1, <1>2, <1>6 DEF IInv, StepGoal

LEMMA QueryStep ==
    ASSUME IInv, NEW q \in Request, NEW s \in Scope, Query(q, s)
    PROVE  IInv' /\ Frozen /\ TimelineStep
<1>1. RowInv /\ TypeOK /\ Copies /\ now \in Nat /\ UNCHANGED <<now, store, cache>>
  BY DEF IInv, TypeOK, Time, Query
<1>2. StepGoal
  BY <1>1, SameRows DEF store
<1>3. CASE Goto(q, "idle", NoCopy)
  <2>1. Len(facts') \in Nat /\ Len(facts') >= Len(facts)
    BY <1>1, <1>2, Grows DEF StepGoal
  <2>2. newest' \in [at : Time, values : SUBSET Value]
    BY <1>1 DEF TypeOK, store
  <2>3. TypeOK' /\ Copies'
    BY Zenon, <2>1, <2>2, <1>1, <1>2, <1>3, CopyTypes, Moves DEF StepGoal
  <2> QED
    BY <2>3, <1>1, <1>2 DEF IInv, StepGoal
<1>4. CASE \E i \in Current : Goto(q, "fill", [id |-> i, acl |-> facts[i].acl])
  <2>1. PICK i \in Current : Goto(q, "fill", [id |-> i, acl |-> facts[i].acl])
    BY <1>4
  <2>2. i \in Ids /\ i \in Nat /\ facts[i].valid_to = Open /\ facts[i].acl \in Acl
    <3>1. i \in Ids /\ i \in Nat /\ facts[i].valid_to = Open
      BY DEF Current, Ids
    <3>2. facts[i] \in Row
      BY <3>1, <1>1, RowOf DEF RowInv, Ids
    <3> QED
      BY <3>1, <3>2 DEF Row
  <2>3. PICK h \in Copy : h = [id |-> i, acl |-> facts[i].acl]
    BY Zenon, <2>2, CopyTypes
  <2>4. /\ pc' \in [Request -> Point] /\ held' \in [Request -> Copy]
        /\ held'[q].id = i
        /\ \A r \in Request : r # q => pc'[r] = pc[r] /\ held'[r] = held[r]
    BY <2>1, <2>2, <2>3, <1>1, CopyTypes, SlotTypes
  <2>5. UNCHANGED <<now, facts, removed, newest, cache>>
    BY <1>1 DEF store
  <2>6. \A r \in Request : pc'[r] = "fill" => held'[r].id \in 1..Len(facts')
    BY <2>2, <2>4, <2>5, <1>1 DEF TypeOK, Ids
  <2>7. TypeOK'
    BY <2>4, <2>5, <2>6, <1>1 DEF TypeOK
  <2>8. CacheWasCurrent'
    BY <2>5, <1>1 DEF Copies, CacheWasCurrent, WasCurrent
  <2>9. FillsWereCurrent'
    BY <2>2, <2>4, <2>5, <1>1 DEF Copies, FillsWereCurrent, WasCurrent
  <2> QED
    BY <2>7, <2>8, <2>9, <1>1, <1>2 DEF IInv, StepGoal, Copies
<1> QED
  BY <1>3, <1>4 DEF Query

\* A process forgets its cache, or puts a row it read there.
LEMMA CacheStep ==
    ASSUME IInv, NEW q \in Request, Flush(q) \/ Fill(q)
    PROVE  IInv' /\ Frozen /\ TimelineStep
<1>1. RowInv /\ TypeOK /\ Copies /\ now \in Nat /\ Home[q] \in Process
  BY FactAssumption DEF IInv, TypeOK, Time
<1>2. UNCHANGED <<now, facts, removed, newest>> /\ Goto(q, "idle", NoCopy)
  BY DEF Flush, Fill, store
<1>3. StepGoal
  BY <1>1, <1>2, SameRows
<1>4. PICK h \in Copy : /\ cache' = [cache EXCEPT ![Home[q]] = h]
                        /\ h.id <= Len(facts) /\ (h.id # None => WasCurrent(h.id))
  <2>1. CASE Flush(q)
    <3>1. NoCopy \in Copy /\ NoCopy.id <= Len(facts) /\ NoCopy.id = None
      BY CopyTypes, <1>1 DEF NoCopy, None, TypeOK
    <3> QED
      BY Zenon, <2>1, <3>1 DEF Flush
  <2>2. CASE Fill(q)
    <3>1. held[q] \in Copy /\ held[q].id \in 1..Len(facts) /\ WasCurrent(held[q].id)
      BY <2>2, <1>1 DEF Fill, TypeOK, Copies, FillsWereCurrent
    <3>2. held[q].id <= Len(facts)
      BY <3>1, <1>1 DEF TypeOK
    <3> QED
      BY Zenon, <3>1, <3>2, <2>2 DEF Fill
  <2> QED
    BY <2>1, <2>2
<1>5. /\ pc' \in [Request -> Point] /\ held' \in [Request -> Copy] /\ pc'[q] = "idle"
      /\ \A r \in Request : r # q => pc'[r] = pc[r] /\ held'[r] = held[r]
  BY <1>1, <1>2, CopyTypes, SlotTypes
<1>6. TypeOK'
  <2>1. cache' \in [Process -> Copy] /\ \A p \in Process : cache'[p].id <= Len(facts')
    BY <1>1, <1>2, <1>4 DEF TypeOK
  <2>2. \A r \in Request : pc'[r] = "fill" => held'[r].id \in 1..Len(facts')
    BY <1>1, <1>2, <1>5 DEF TypeOK
  <2> QED
    BY <2>1, <2>2, <1>1, <1>2, <1>5 DEF TypeOK
<1>7. CacheWasCurrent'
  BY <1>1, <1>2, <1>4 DEF Copies, CacheWasCurrent, WasCurrent, TypeOK
<1>8. FillsWereCurrent'
  BY <1>1, <1>2, <1>5 DEF Copies, FillsWereCurrent, WasCurrent
<1> QED
  BY <1>1, <1>2, <1>3, <1>6, <1>7, <1>8 DEF IInv, StepGoal, Copies

LEMMA CorrectStep ==
    ASSUME IInv, NEW q \in Request, CorrectFactAcl(q)
    PROVE  IInv' /\ Frozen /\ TimelineStep
<1>1. RowInv /\ TypeOK /\ Copies /\ now \in Nat /\ held[q].acl \in Acl
  BY DEF IInv, TypeOK, Time, Copy
<1>2. /\ UNCHANGED <<now, removed, newest, cache>> /\ Goto(q, "idle", NoCopy)
      /\ facts' = [i \in Ids |-> Relabelled(facts[i], held[q].acl)]
  BY DEF CorrectFactAcl
<1>3. PICK acl \in Acl : acl = held[q].acl
  BY <1>1
<1>4. facts' = [i \in Ids |-> Relabelled(facts[i], acl)]
  BY <1>2, <1>3
<1>5. StepGoal
  BY <1>1, <1>2, <1>4, RelabelStep
<1>6. Len(facts') \in Nat /\ Len(facts') >= Len(facts)
  BY <1>1, <1>5, Grows DEF StepGoal
<1>7. newest' \in [at : Time, values : SUBSET Value]
  BY <1>1, <1>2 DEF TypeOK
<1>8. TypeOK' /\ Copies'
  BY Zenon, <1>1, <1>2, <1>5, <1>6, <1>7, CopyTypes, Moves DEF StepGoal
<1> QED
  BY <1>1, <1>2, <1>5, <1>8 DEF IInv, StepGoal

LEMMA RestartStep ==
    ASSUME IInv, NEW p \in Process, Restart(p)
    PROVE  IInv' /\ Frozen /\ TimelineStep
<1>1. RowInv /\ TypeOK /\ Copies /\ now \in Nat
  BY DEF IInv, TypeOK, Time
<1>2. UNCHANGED <<now, facts, removed, newest>>
  BY DEF Restart, store
<1>3. StepGoal
  BY <1>1, <1>2, SameRows
<1>4. /\ pc' \in [Request -> Point] /\ held' \in [Request -> Copy]
      /\ \A r \in Request : pc'[r] = "fill" => pc[r] = "fill" /\ held'[r] = held[r]
  BY <1>1, CopyTypes DEF Restart, TypeOK
<1>5. /\ cache' \in [Process -> Copy]
      /\ \A r \in Process : cache'[r] = cache[r] \/ cache'[r] = NoCopy
  BY <1>1, CopyTypes DEF Restart, TypeOK
<1>6. NoCopy.id = None /\ NoCopy.id <= Len(facts)
  BY <1>1 DEF NoCopy, None, TypeOK
<1>7. TypeOK'
  <2>1. \A r \in Process : cache'[r].id <= Len(facts')
    BY <1>1, <1>2, <1>5, <1>6 DEF TypeOK
  <2>2. \A r \in Request : pc'[r] = "fill" => held'[r].id \in 1..Len(facts')
    BY <1>1, <1>2, <1>4 DEF TypeOK
  <2> QED
    BY <2>1, <2>2, <1>1, <1>2, <1>4, <1>5 DEF TypeOK
<1>8. CacheWasCurrent'
  BY <1>1, <1>2, <1>5, <1>6 DEF Copies, CacheWasCurrent, WasCurrent
<1>9. FillsWereCurrent'
  BY <1>1, <1>2, <1>4 DEF Copies, FillsWereCurrent, WasCurrent
<1> QED
  BY <1>1, <1>2, <1>3, <1>7, <1>8, <1>9 DEF IInv, StepGoal, Copies

\* The clock moves, or nothing happens.
LEMMA IdleStep ==
    ASSUME IInv, Tick \/ UNCHANGED vars
    PROVE  IInv' /\ Frozen /\ TimelineStep
<1>1. RowInv /\ TypeOK /\ Copies /\ now \in Nat
  BY DEF IInv, TypeOK, Time
<1>2. UNCHANGED <<facts, removed, newest, cache, pc, held>>
  BY DEF Tick, vars, store, slots
<1>3. StepGoal
  BY <1>1, <1>2, SameRows
<1>4. now' \in Nat /\ now' <= MaxTime
  BY <1>1, FactAssumption DEF IInv, Tick, vars
<1>5. TypeOK'
  BY <1>1, <1>2, <1>4 DEF TypeOK, Time
<1>6. Copies'
  BY <1>1, <1>2 DEF Copies, CacheWasCurrent, FillsWereCurrent, WasCurrent
<1> QED
  BY <1>3, <1>4, <1>5, <1>6 DEF IInv, StepGoal

LEMMA Initially ==
    ASSUME Init
    PROVE  IInv /\ Timeline!Init
<1>1. facts = <<>> /\ Len(facts) = 0 /\ Ids = {} /\ Current = {} /\ removed = {}
  BY DEF Init, Ids, Current
<1>2. TypeOK
  BY <1>1, CopyTypes DEF Init, TypeOK, Time, NoCopy, None
<1>3. RowInv
  BY <1>1 DEF RowInv, OneCurrent, EndsAtAnother, NoneCurrent, LatestRecordedWins
<1>4. Copies
  BY DEF Init, Copies, CacheWasCurrent, FillsWereCurrent, NoCopy
<1>5. Timeline!Init
  BY <1>1 DEF Timeline!Init, Recorded
<1> QED
  BY <1>2, <1>3, <1>4, <1>5, FactAssumption DEF IInv, Init

LEMMA NextStep ==
    ASSUME IInv, [Next]_vars
    PROVE  IInv' /\ Frozen /\ TimelineStep
<1>1. CASE Tick \/ UNCHANGED vars
  BY <1>1, IdleStep
<1>2. CASE \E p \in Process : Restart(p)
  BY <1>2, RestartStep
<1>3. CASE \E q \in Request : Handle(q)
  <2>1. PICK q \in Request : Handle(q)
    BY <1>3
  <2>2. CASE \E v \in Value, at \in 1..now, acl \in EventAcls : UpsertFact(q, v, at, acl)
    BY <2>2, UpsertStep
  <2>3. CASE Forget(q) \/ \E at \in 1..now : RetireEntity(q, at)
    BY <2>3, RemovalStep
  <2>4. CASE Flush(q) \/ Fill(q)
    BY <2>4, CacheStep
  <2>5. CASE \E s \in Scope : Query(q, s)
    BY <2>5, QueryStep
  <2>6. CASE \/ Miss(q) \/ Drop(q)
             \/ \E acl \in NewAcls, unshare \in BOOLEAN : AclChange(q, acl, unshare)
    BY <2>6, QuietStep
  <2>7. CASE CorrectFactAcl(q)
    BY <2>7, CorrectStep
  <2> QED
    BY <2>1, <2>2, <2>3, <2>4, <2>5, <2>6, <2>7 DEF Handle
<1> QED
  BY <1>1, <1>2, <1>3 DEF Next

-----------------------------------------------------------------------------
(* Theorems *)

\* Whatever events, deletions, reads and corrections do to a fact, the store's
\* rows, the caches and the handlers keep their types.
THEOREM TypeCorrect == Spec => []TypeOK
<1>1. Init => IInv
  BY Initially, FactAssumption
<1>2. IInv /\ [Next]_vars => IInv'
  BY NextStep
<1>3. IInv => TypeOK
  BY DEF IInv
<1> QED
  BY <1>1, <1>2, <1>3, PTL DEF Spec

\* upsert_fact: the current row is the latest recorded one, unless something
\* at least as late was deleted or forgotten.
THEOREM LatestWins == Spec => []LatestRecordedWins
<1>1. Init => IInv
  BY Initially, FactAssumption
<1>2. IInv /\ [Next]_vars => IInv'
  BY NextStep
<1>3. IInv => LatestRecordedWins
  BY DEF IInv, RowInv
<1> QED
  BY <1>1, <1>2, <1>3, PTL DEF Spec

\* fact_as_of: an instant for which a value was recorded stays covered.
THEOREM NoHoles == Spec => []HistoryHasNoHoles
<1>1. Init => IInv
  BY Initially, FactAssumption
<1>2. IInv /\ [Next]_vars => IInv'
  BY NextStep
<1>3. IInv => HistoryHasNoHoles
  <2> SUFFICES ASSUME IInv, NEW t \in 1..MaxTime, NEW i \in Ids \ removed,
                      facts[i].valid_from <= t, ~AliveAt(facts[i], t)
               PROVE  \E j \in Ids :
                         /\ facts[j].valid_from \in facts[i].valid_from..t
                         /\ facts[j].valid_from > facts[i].valid_from \/ j < i
    BY DEF HistoryHasNoHoles
  <2>1. /\ facts[i].valid_from \in Nat /\ facts[i].valid_to \in Nat
        /\ facts[i].valid_to <= t /\ facts[i].valid_to # Open /\ t \in Nat
    BY RowOf, FactAssumption DEF IInv, RowInv, Ids, AliveAt
  <2>2. PICK j \in Ids :
          /\ facts[j].valid_from = facts[i].valid_to
          /\ \/ facts[j].valid_from > facts[i].valid_from
             \/ facts[j].valid_from = facts[i].valid_from /\ j < i
    BY <2>1 DEF IInv, RowInv, EndsAtAnother
  <2>3. facts[j].valid_from \in facts[i].valid_from..t
    BY <2>1, <2>2
  <2> QED
    BY <2>2, <2>3
<1> QED
  BY <1>1, <1>2, <1>3, PTL DEF Spec

\* CachedAdapter: a stale cache still holds nothing but rows that were current.
THEOREM CachedOnce == Spec => []CacheWasCurrent
<1>1. Init => IInv
  BY Initially, FactAssumption
<1>2. IInv /\ [Next]_vars => IInv'
  BY NextStep
<1>3. IInv => CacheWasCurrent
  BY DEF IInv, Copies
<1> QED
  BY <1>1, <1>2, <1>3, PTL DEF Spec

\* No handler changes the value or the interval of a closed row.
THEOREM FrozenHistory == Spec => HistoryFrozen
<1>1. Init => IInv
  BY Initially, FactAssumption
<1>2. IInv /\ [Next]_vars => IInv' /\ [Frozen]_vars
  BY NextStep
<1> QED
  BY <1>1, <1>2, PTL DEF Spec, HistoryFrozen

\* The store implements the timeline, whatever order events come in.
THEOREM Implements == Spec => ImplementsTimeline
<1>1. Init => IInv /\ Timeline!Init
  BY Initially, FactAssumption
<1>2. IInv /\ [Next]_vars => IInv' /\ [Timeline!Next]_(Timeline!vars)
  BY NextStep DEF TimelineStep
<1> QED
  BY <1>1, <1>2, PTL DEF Spec, ImplementsTimeline, Timeline!Spec

=============================================================================
