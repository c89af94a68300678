--------------------------- MODULE DocumentsProofs ---------------------------
(***************************************************************************)
(* Proofs about Documents.  The inductive invariant IInv adds to the       *)
(* properties what each of them needs: that ids are handed out in order    *)
(* and never lost (Known), that an observation on its way already narrows  *)
(* (PendingNarrows), that the keyset of a sweep leaves nothing behind      *)
(* (Ahead), and what a refresh has read (RefreshHasAll).  Every step on    *)
(* chunks is an UPDATE in place beside an insertion of new ids (Rewritten, *)
(* New); RowStep shows once what such a step preserves.                    *)
(***************************************************************************)
EXTENDS Documents, FiniteSetTheorems, WellFoundedInduction, TLAPS

IdsUnique == \A c, d \in rows : c.id = d.id => c = d

\* Chunks are never deleted and ids are handed out in order: ids are bounded, and
\* what is remembered by id is the id of a chunk.
Known ==
    /\ \E n \in Nat : \A c \in rows : c.id <= n
    /\ touched \subseteq Ids(rows) /\ sweep.due \subseteq Ids(rows)
    /\ \A w \in Writer : write[w].ins \subseteq Ids(rows)
    /\ \A c \in rows : c.ins \subseteq Ids(rows)

\* A mirrored document cites no lineage.
Plain ==
    /\ \A c \in rows : c.doc = Mirrored => c.ins = {}
    /\ \A w \in Writer : write[w].doc = Mirrored => write[w].ins = {}

\* An observation on its way narrows like the chunk it becomes.
PendingNarrows ==
    \A w \in Writer : \A i \in rows :
       (i.id \in write[w].ins /\ i.id \notin touched) => write[w].vis \subseteq i.vis

\* The keyset of a sweep: what it still has to rewrite lies behind it.
Ahead ==
    sweep.on => \A c \in rows : (c.id \in sweep.due /\ sweep.tok \in c.vis) => c.id > sweep.last

\* A refresh that no write has raced has read every open chunk of the entity.
RefreshHasAll == (refresh.at # "idle" /\ ~raced) => Ids(About) \subseteq refresh.mem

IInv ==
    /\ TypeOK /\ Known /\ Plain /\ NoStaleTail
    /\ LineageNarrows /\ PendingNarrows
    /\ SweptClean /\ Ahead
    /\ BriefHasAll /\ RefreshHasAll

-----------------------------------------------------------------------------
(* Ids *)

\* A non-empty bounded set of numbers has a largest element.
LEMMA MaxIs ==
    ASSUME NEW S \in SUBSET Nat, NEW n \in Nat, S # {}, \A x \in S : x <= n
    PROVE  Max(S) \in S /\ \A y \in S : Max(S) >= y
<1> DEFINE Above == {u \in Nat : \A x \in S : x <= u}
<1>1. n \in Above /\ Above \subseteq Nat
  OBVIOUS
<1>2. PICK m \in Above : \A y \in Above : ~(<<y, m>> \in OpToRel(<, Nat))
  <2> HIDE DEF Above
  <2> QED BY <1>1, NatLessThanWellFounded, WFMin, Zenon
<1>3. \A y \in Above : m <= y
  <2> SUFFICES ASSUME NEW y \in Above PROVE ~(y < m)
    OBVIOUS
  <2> QED BY <1>1, <1>2, Zenon DEF OpToRel
<1>4. m \in S
  <2> SUFFICES ASSUME m \notin S PROVE FALSE
    OBVIOUS
  <2>1. \A x \in S : x \in Nat /\ x <= m /\ x # m
    BY Zenon
  <2>2. PICK x \in S : x \in Nat /\ x <= m /\ x # m
    BY <2>1, Zenon
  <2>3. m - 1 \in Above
    BY <2>1, <2>2
  <2> QED BY <2>3, <1>3
<1>5. \A y \in S : m >= y
  OBVIOUS
<1> QED BY <1>4, <1>5, Zenon DEF Max

LEMMA IdsOf ==
    ASSUME NEW T, NEW n, \A c \in T : c.id \in Nat /\ c.id <= n
    PROVE  Ids(T) \in SUBSET Nat /\ (\A j \in Ids(T) : j <= n) /\ (T # {} => Ids(T) # {})
<1>1. \A j \in Ids(T) : j \in Nat /\ j <= n
  BY Zenon DEF Ids
<1>2. T # {} => Ids(T) # {}
  BY Zenon DEF Ids
<1> QED BY <1>1, <1>2, Zenon

\* What a chunk keeps for good; it may be closed but is never opened again.
Kept(c, e) ==
    /\ e.id = c.id /\ e.doc = c.doc /\ e.seq = c.seq /\ e.from = c.from
    /\ e.ep = c.ep /\ e.tag = c.tag /\ e.ins = c.ins /\ (e.open => c.open)

\* An UPDATE: every chunk is there before and after, under its id.
LEMMA UpdateKeeps ==
    ASSUME rows \subseteq Row, IdsUnique, NEW X \in SUBSET rows, NEW g,
           \A c \in X : g[c] \in Row /\ Kept(c, g[c])
    PROVE  /\ Update(X, g) \subseteq Row
           /\ \A c, d \in Update(X, g) : c.id = d.id => c = d
           /\ \A e \in Update(X, g) :
                 \E c \in rows : Kept(c, e) /\ (IF c \in X THEN e = g[c] ELSE e = c)
           /\ \A c \in rows : \E e \in Update(X, g) : Kept(c, e)
<1>1. \A c \in rows : Kept(c, c)
  BY Zenon DEF Kept
<1>2. \A e \in Update(X, g) :
         \E c \in rows : Kept(c, e) /\ (IF c \in X THEN e = g[c] ELSE e = c)
  BY <1>1, Zenon DEF Update
<1>3. \A c \in rows : \E e \in Update(X, g) : Kept(c, e)
  BY <1>1, Zenon DEF Update
<1>4. Update(X, g) \subseteq Row
  BY Zenon DEF Update
<1>5. ASSUME NEW d \in Update(X, g), NEW e \in Update(X, g), d.id = e.id
      PROVE  d = e
  <2>1. PICK b \in rows : Kept(b, d) /\ (IF b \in X THEN d = g[b] ELSE d = b)
    BY <1>2, Zenon
  <2>2. PICK c \in rows : Kept(c, e) /\ (IF c \in X THEN e = g[c] ELSE e = c)
    BY <1>2, Zenon
  <2>3. b.id = c.id
    BY <2>1, <2>2, <1>5, Zenon DEF Kept
  <2>4. b = c
    BY <2>3, Zenon DEF IdsUnique
  <2> QED BY <2>1, <2>2, <2>4, Zenon
<1> QED BY <1>2, <1>3, <1>4, <1>5, Zenon

LEMMA CloseKeeps ==
    ASSUME rows \subseteq Row, IdsUnique, NEW X \in SUBSET rows
    PROVE  /\ Close(X) \subseteq Row
           /\ \A c, d \in Close(X) : c.id = d.id => c = d
           /\ \A e \in Close(X) :
                 \E c \in rows : Kept(c, e) /\ e.vis = c.vis /\ (c \in X => ~e.open)
           /\ \A c \in rows : \E e \in Close(X) : Kept(c, e)
<1> DEFINE g == [c \in X |-> [c EXCEPT !.open = FALSE]]
<1>1. \A c \in X : g[c] \in Row /\ Kept(c, g[c]) /\ g[c].vis = c.vis /\ ~g[c].open
  BY Zenon DEF Row, Kept
<1>2. Close(X) = Update(X, g)
  BY Zenon DEF Close
<1> HIDE DEF g
<1>3. /\ Update(X, g) \subseteq Row
      /\ \A c, d \in Update(X, g) : c.id = d.id => c = d
      /\ \A e \in Update(X, g) :
            \E c \in rows : Kept(c, e) /\ (IF c \in X THEN e = g[c] ELSE e = c)
      /\ \A c \in rows : \E e \in Update(X, g) : Kept(c, e)
  BY <1>1, UpdateKeeps
<1>4. ASSUME NEW e \in Update(X, g)
      PROVE  \E c \in rows : Kept(c, e) /\ e.vis = c.vis /\ (c \in X => ~e.open)
  <2>1. PICK c \in rows : Kept(c, e) /\ (IF c \in X THEN e = g[c] ELSE e = c)
    BY <1>3, Zenon
  <2> QED BY <2>1, <1>1, Zenon
<1> QED BY <1>2, <1>3, <1>4, Zenon

-----------------------------------------------------------------------------
(* The keyset of a sweep *)

\* The first Batch chunks in the order of ids: they are a lower part of the whole,
\* and all of it when they are fewer than Batch.
LEMMA FirstBatch ==
    ASSUME NEW N, NEW n \in Nat,
           \A c \in N : c.id \in Nat /\ c.id <= n,
           \A c, d \in N : c.id = d.id => c = d,
           NEW F, F = {c \in N : Cardinality({d \in N : d.id <= c.id}) <= Batch}
    PROVE  /\ \A c \in N, d \in F : c.id <= d.id => c \in F
           /\ Cardinality(F) # Batch => F = N
           /\ F \subseteq N
<1> DEFINE Below(c) == {d \in N : d.id <= c.id}
<1>0. Batch \in Nat /\ Batch # 0
  BY DocumentAssumption
<1>1. IsFiniteSet(N)
  <2> DEFINE f == [c \in N |-> c.id]
  <2>1. f \in Injection(N, 0..n)
    BY DEF Injection, IsInjective
  <2>2. IsFiniteSet(0..n)
    BY FS_Interval
  <2> QED BY <2>1, <2>2, FS_Injection, Zenon
<1>2. \A T \in SUBSET N : IsFiniteSet(T) /\ Cardinality(T) \in Nat
  BY <1>1, FS_Subset, FS_CardinalityType
<1>3. \A T \in SUBSET N : \A U \in SUBSET T : Cardinality(U) <= Cardinality(T)
  BY <1>2, FS_Subset
<1>4. ASSUME NEW c \in N, NEW d \in F, c.id <= d.id
      PROVE  c \in F
  <2>1. Below(c) \subseteq Below(d) /\ Below(d) \subseteq N
    BY <1>4
  <2>2. Cardinality(Below(c)) <= Cardinality(Below(d))
    BY <2>1, <1>3, Zenon
  <2>3. Cardinality(Below(c)) \in Nat /\ Cardinality(Below(d)) \in Nat
    BY <2>1, <1>2, Zenon
  <2>4. Cardinality(Below(d)) <= Batch
    BY Zenon
  <2>5. Cardinality(Below(c)) <= Batch
    <3> HIDE DEF Below
    <3> QED BY <2>2, <2>3, <2>4, <1>0
  <2> QED BY <2>5, Zenon
<1>5. F \subseteq N
  BY Zenon
<1>6. ASSUME NEW b \in N \ F
      PROVE  Cardinality(F) = Batch
  <2> DEFINE Rest == Ids(N \ F)
  <2>1. Rest \subseteq Nat /\ Rest # {}
    <3>1. \A c \in N \ F : c.id \in Nat /\ c.id <= n
      BY Zenon
    <3> QED BY <1>6, <3>1, IdsOf, Zenon
  <2>2. PICK i \in Rest : \A j \in Rest : ~(<<j, i>> \in OpToRel(<, Nat))
    <3> HIDE DEF Rest
    <3> QED BY <2>1, NatLessThanWellFounded, WFMin, Zenon
  <2>3. PICK x \in N \ F : x.id = i
    BY <2>2, Zenon DEF Ids
  <2>4. \A d \in N \ F : ~(d.id < x.id)
    BY <2>1, <2>2, <2>3, Zenon DEF OpToRel, Ids
  <2>5. \A d \in F : d.id < x.id
    BY <1>4, <2>3, <1>5
  <2>6. Below(x) = F \union {x}
    <3>1. ASSUME NEW d \in Below(x) PROVE d \in F \union {x}
      BY <3>1, <2>3, <2>4
    <3>2. ASSUME NEW d \in F \union {x} PROVE d \in Below(x)
      BY <3>2, <2>3, <2>5, <1>5
    <3> QED BY <3>1, <3>2, Zenon
  <2>7. IsFiniteSet(F) /\ Cardinality(F) \in Nat
    BY <1>2, <1>5, Zenon
  <2>8. Cardinality(F \union {x}) = Cardinality(F) + 1
    BY <2>3, <2>7, FS_AddElement, Zenon
  <2>9. ~(Cardinality(Below(x)) <= Batch)
    BY <2>3, Zenon
  <2>10. Cardinality(F) >= Batch
    <3> HIDE DEF Below
    <3> QED BY <2>6, <2>7, <2>8, <2>9, <1>0
  <2>11. Cardinality(F) <= Batch
    <3>1. CASE F = {}
      <4>1. Cardinality(F) = 0
        BY <3>1, FS_EmptySet, Zenon
      <4> QED BY <4>1, <1>0
    <3>2. CASE F # {}
      <4> DEFINE I == Ids(F)
      <4>1. I \in SUBSET Nat /\ I # {} /\ \A j \in I : j <= n
        <5>1. \A c \in F : c.id \in Nat /\ c.id <= n
          BY <1>5, Zenon
        <5> QED BY <5>1, <3>2, IdsOf, Zenon
      <4>2. Max(I) \in I /\ \A j \in I : Max(I) >= j
        <5> HIDE DEF I
        <5> QED BY <4>1, MaxIs, Zenon
      <4>3. PICK y \in F : y.id = Max(I)
        BY <4>2, Zenon DEF Ids
      <4>4. F \subseteq Below(y)
        <5>1. \A c \in F : Max(I) >= c.id
          BY <4>2, Zenon DEF Ids
        <5>2. \A c \in F : c \in N /\ c.id \in Nat /\ y.id \in Nat
          BY <1>5, Zenon
        <5> HIDE DEF I
        <5>3. \A c \in F : c \in N /\ c.id <= y.id
          BY <4>3, <5>1, <5>2
        <5> QED BY <5>3, Zenon
      <4>5. Cardinality(F) <= Cardinality(Below(y)) /\ Cardinality(Below(y)) \in Nat
        BY <4>4, <1>2, <1>3, Zenon
      <4>6. Cardinality(Below(y)) <= Batch
        BY Zenon
      <4> HIDE DEF Below
      <4> QED BY <4>5, <4>6, <2>7, <1>0
    <3> QED BY <3>1, <3>2, Zenon
  <2> DEFINE k == Cardinality(F)
  <2>12. k \in Nat /\ k >= Batch /\ k <= Batch
    BY <2>7, <2>10, <2>11, Zenon
  <2> HIDE DEF k
  <2>13. k = Batch
    BY <2>12, <1>0
  <2> QED BY <2>13, Zenon DEF k
<1> QED BY <1>4, <1>5, <1>6, Zenon

-----------------------------------------------------------------------------
(* What a step does to the chunks *)

LEMMA LastIdIs ==
    ASSUME TypeOK, Known
    PROVE  LastId \in Nat /\ \A c \in rows : c.id <= LastId
<1>1. PICK n \in Nat : \A c \in rows : c.id <= n
  BY Zenon DEF Known
<1>2. \A c \in rows : c.id \in Nat /\ c.id <= n
  BY <1>1 DEF TypeOK, Row, Id
<1>3. Ids(rows) \in SUBSET Nat /\ \A j \in Ids(rows) : j <= n
  BY <1>2, IdsOf, Zenon
<1> DEFINE S == {0} \union Ids(rows)
<1>4. S \in SUBSET Nat /\ S # {} /\ \A j \in S : j <= n
  BY <1>1, <1>3
<1>5. \A c \in rows : c.id \in S
  BY Zenon DEF Ids
<1> HIDE DEF S
<1>6. Max(S) \in S /\ \A j \in S : Max(S) >= j
  BY <1>4, MaxIs, Zenon
<1>7. Max(S) \in Nat /\ \A c \in rows : c.id <= Max(S)
  BY <1>2, <1>4, <1>5, <1>6, Zenon
<1> QED BY <1>7, Zenon DEF LastId, S

\* Chunks of an insertion: new ids, lineage that is known and narrows, and no open
\* chunk of an older version beside them.
New(N) ==
    /\ \A e \in N : \A c \in rows : e.id > c.id
    /\ \E m \in Nat : \A e \in N : e.id <= m
    /\ \A e \in N : e.ins \subseteq Ids(rows) /\ (e.doc = Mirrored => e.ins = {})
    /\ \A e \in N : \A i \in rows : (i.id \in e.ins /\ i.id \notin touched) => e.vis \subseteq i.vis
    /\ \A e \in N : \A c \in rows' :
          (e.doc = Mirrored /\ c.doc = Mirrored /\ c.open) => ~(c.from < e.from)

\* A step that inserts N and updates chunks in place; an audience that changes is
\* recorded, and only a mirrored document's is widened.
Rewritten(N) ==
    /\ rows' \subseteq Row /\ IdsUnique' /\ touched \subseteq touched'
    /\ \A c \in rows : \E e \in rows' : Kept(c, e)
    /\ \A e \in rows' : e \notin N =>
          \E c \in rows : /\ Kept(c, e) /\ (e.id \notin touched' => e.vis = c.vis)
                          /\ (e.vis \subseteq c.vis \/ e.doc = Mirrored)

LEMMA RewrittenIds ==
    ASSUME NEW N, Rewritten(N)
    PROVE  /\ Ids(rows) \subseteq Ids(rows')
           /\ \A e \in rows' : e \in N \/ e.id \in Ids(rows)
           /\ \A e \in About' : e \in N \/ e.id \in Ids(About)
<1>1. \A c \in rows : \E e \in rows' : e.id = c.id
  BY Zenon DEF Rewritten, Kept
<1>2. \A e \in rows' : e \in N \/ \E c \in rows : Kept(c, e)
  BY Zenon DEF Rewritten
<1>3. Ids(rows) \subseteq Ids(rows')
  BY <1>1, Zenon DEF Ids
<1>4. \A e \in rows' : e \in N \/ e.id \in Ids(rows)
  BY <1>2, Zenon DEF Ids, Kept
<1>5. \A e \in About' : e \in N \/ e.id \in Ids(About)
  <2> SUFFICES ASSUME NEW e \in About', e \notin N PROVE e.id \in Ids(About)
    OBVIOUS
  <2>1. e \in rows' /\ e.open /\ e.tag
    BY Zenon DEF About, Open
  <2>2. PICK c \in rows : Kept(c, e)
    BY <2>1, <1>2, Zenon
  <2>3. c \in About /\ c.id = e.id
    BY <2>1, <2>2, Zenon DEF About, Open, Kept
  <2> QED BY <2>3, Zenon DEF Ids
<1> QED BY <1>3, <1>4, <1>5, Zenon

LEMMA KnownRows ==
    ASSUME TypeOK, Known, Plain, NEW N, Rewritten(N), New(N)
    PROVE  /\ (\E n \in Nat : \A c \in rows : c.id <= n)'
           /\ (\A c \in rows : c.ins \subseteq Ids(rows))'
           /\ (\A c \in rows : c.doc = Mirrored => c.ins = {})'
<1>1. \A e \in rows' : e \in N \/ \E c \in rows : Kept(c, e)
  BY Zenon DEF Rewritten
<1>2. PICK n \in Nat : \A c \in rows : c.id <= n
  BY Zenon DEF Known
<1>3. PICK m \in Nat : \A e \in N : e.id <= m
  BY Zenon DEF New
<1>4. \A e \in rows' : e.id <= n \/ e.id <= m
  BY <1>1, <1>2, <1>3, Zenon DEF Kept
<1>5. n + m \in Nat /\ \A e \in rows' : e.id <= n + m
  <2>1. \A e \in rows' : e.id \in Nat
    BY DEF Rewritten, Row, Id
  <2> QED BY <1>4, <2>1
<1>6. \A e \in rows' : e.ins \subseteq Ids(rows)
  <2>1. \A e \in N : e.ins \subseteq Ids(rows)
    BY Zenon DEF New
  <2>2. \A c \in rows : c.ins \subseteq Ids(rows)
    BY Zenon DEF Known
  <2> QED BY <1>1, <2>1, <2>2, Zenon DEF Kept
<1>7. \A e \in rows' : e.ins \subseteq Ids(rows')
  BY <1>6, RewrittenIds, Zenon
<1>8. \A e \in rows' : e.doc = Mirrored => e.ins = {}
  <2> SUFFICES ASSUME NEW e \in rows', e.doc = Mirrored PROVE e.ins = {}
    BY Zenon
  <2>1. CASE e \in N
    BY <2>1, Zenon DEF New
  <2>2. ASSUME NEW c \in rows, Kept(c, e) PROVE e.ins = {}
    BY <2>2, Zenon DEF Kept, Plain
  <2> QED BY <1>1, <2>1, <2>2, Zenon
<1>9. (\E k \in Nat : \A c \in rows : c.id <= k)'
  BY <1>5, Zenon
<1> QED BY <1>7, <1>8, <1>9, Zenon

LEMMA TailRows ==
    ASSUME TypeOK, NoStaleTail, NEW N, Rewritten(N), New(N)
    PROVE  NoStaleTail'
<1> SUFFICES ASSUME NEW c \in rows', NEW d \in rows',
                    c.doc = Mirrored, d.doc = Mirrored, c.open, c.from < d.from
             PROVE  c.id > d.id
  BY Zenon DEF NoStaleTail
<1>1. d \notin N
  BY Zenon DEF New
<1>2. PICK b \in rows : Kept(b, d)
  BY <1>1, Zenon DEF Rewritten
<1>3. CASE c \in N
  BY <1>2, <1>3, Zenon DEF New, Kept
<1>4. CASE c \notin N
  <2>1. PICK a \in rows : Kept(a, c)
    BY <1>4, Zenon DEF Rewritten
  <2> QED BY <1>2, <2>1, Zenon DEF NoStaleTail, Kept
<1> QED BY <1>3, <1>4, Zenon

\* A chunk whose id was there, and whose audience did not change, is the old one.
LEMMA OldRow ==
    ASSUME NEW N, Rewritten(N), New(N), NEW i \in rows', i.id \in Ids(rows), i.id \notin touched'
    PROVE  \E j \in rows : Kept(j, i) /\ i.vis = j.vis
<1>1. PICK h \in rows : h.id = i.id
  BY Zenon DEF Ids
<1>2. i \notin N
  <2> SUFFICES ASSUME i \in N PROVE FALSE
    OBVIOUS
  <2>1. i.id > i.id
    BY <1>1, Zenon DEF New
  <2>2. i.id \in Nat
    BY DEF Rewritten, Row, Id
  <2> QED BY <2>1, <2>2
<1> QED BY <1>2, Zenon DEF Rewritten

LEMMA LineageRows ==
    ASSUME Known, Plain, LineageNarrows, NEW N, Rewritten(N), New(N)
    PROVE  LineageNarrows'
<1> SUFFICES ASSUME NEW e \in rows', NEW i \in rows', i.id \in e.ins, i.id \notin touched'
             PROVE  e.vis \subseteq i.vis
  BY Zenon DEF LineageNarrows
<1>1. i.id \in Ids(rows)
  <2>1. CASE e \in N
    BY <2>1, Zenon DEF New
  <2>2. CASE e \notin N
    BY <2>2, Zenon DEF Rewritten, Kept, Known
  <2> QED BY <2>1, <2>2, Zenon
<1>2. i.id \notin touched
  BY Zenon DEF Rewritten
<1>3. PICK j \in rows : Kept(j, i) /\ i.vis = j.vis
  BY <1>1, OldRow, Zenon
<1>4. CASE e \in N
  BY <1>2, <1>3, <1>4, Zenon DEF New, Kept
<1>5. CASE e \notin N
  <2>1. PICK c \in rows : Kept(c, e) /\ (e.vis \subseteq c.vis \/ e.doc = Mirrored)
    BY <1>5, Zenon DEF Rewritten
  <2>2. c.doc # Mirrored
    BY <2>1, Zenon DEF Plain, Kept
  <2>3. e.vis \subseteq c.vis
    BY <2>1, <2>2, Zenon DEF Kept
  <2>4. c.vis \subseteq j.vis
    BY <1>2, <1>3, <2>1, Zenon DEF LineageNarrows, Kept
  <2> QED BY <1>3, <2>3, <2>4, Zenon
<1> QED BY <1>4, <1>5, Zenon

LEMMA PendingRows ==
    ASSUME Known, PendingNarrows, NEW N, Rewritten(N), New(N),
           \A w \in Writer : write'[w] = write[w] \/ write'[w].ins = {}
    PROVE  PendingNarrows'
<1> SUFFICES ASSUME NEW w \in Writer, NEW i \in rows',
                    i.id \in write'[w].ins, i.id \notin touched'
             PROVE  write'[w].vis \subseteq i.vis
  BY Zenon DEF PendingNarrows
<1>1. write'[w] = write[w]
  BY Zenon
<1>2. i.id \in Ids(rows) /\ i.id \notin touched
  BY <1>1, Zenon DEF Known, Rewritten
<1>3. PICK j \in rows : Kept(j, i) /\ i.vis = j.vis
  BY <1>2, OldRow, Zenon
<1> QED BY <1>1, <1>2, <1>3, Zenon DEF PendingNarrows, Kept

LEMMA SweepRows ==
    ASSUME SweptClean, Ahead,
           sweep'.on = sweep.on, sweep'.tok = sweep.tok, sweep'.last = sweep.last,
           \A e \in rows' : (e.id \in sweep'.due /\ sweep.tok \in e.vis) =>
              \E c \in rows : c.id = e.id /\ c.id \in sweep.due /\ sweep.tok \in c.vis
    PROVE  SweptClean' /\ Ahead'
<1>1. SweptClean'
  <2> SUFFICES ASSUME ~sweep'.on, NEW e \in rows', e.id \in sweep'.due, sweep'.tok \in e.vis
               PROVE  FALSE
    BY Zenon DEF SweptClean
  <2> QED BY Zenon DEF SweptClean
<1>2. Ahead'
  <2> SUFFICES ASSUME sweep'.on, NEW e \in rows', e.id \in sweep'.due, sweep'.tok \in e.vis
               PROVE  e.id > sweep'.last
    BY Zenon DEF Ahead
  <2>1. PICK c \in rows : c.id = e.id /\ c.id \in sweep.due /\ sweep.tok \in c.vis
    BY Zenon
  <2>2. c.id > sweep.last
    BY <2>1, Zenon DEF Ahead
  <2> QED BY <2>1, <2>2, Zenon
<1> QED BY <1>1, <1>2, Zenon

LEMMA BriefRows ==
    ASSUME TypeOK, BriefHasAll, RefreshHasAll, NEW N, Rewritten(N), refresh' = refresh,
           NEW marks \in BOOLEAN, MarkStale(marks), (\E e \in N : e.tag) => marks
    PROVE  BriefHasAll' /\ RefreshHasAll'
<1>1. CASE marks
  <2>1. brief.made => brief'.stale
    BY <1>1 DEF MarkStale, TypeOK
  <2>2. ~brief.made => brief' = brief
    BY <1>1, Zenon DEF MarkStale
  <2>3. refresh.at # "idle" => raced'
    BY <1>1, Zenon DEF MarkStale
  <2> QED BY <2>1, <2>2, <2>3, Zenon DEF BriefHasAll, RefreshHasAll
<1>2. CASE ~marks
  <2>1. brief' = brief /\ (~raced' => ~raced)
    BY <1>2, Zenon DEF MarkStale
  <2>2. \A e \in About' : e.tag
    BY Zenon DEF About
  <2>3. \A e \in About' : e.id \in Ids(About)
    BY <1>2, <2>2, RewrittenIds, Zenon
  <2>4. Ids(About)' \subseteq Ids(About)
    BY <2>3, Zenon DEF Ids
  <2>5. BriefHasAll'
    BY <2>1, <2>4, Zenon DEF BriefHasAll
  <2>6. RefreshHasAll'
    BY <2>1, <2>4, Zenon DEF RefreshHasAll
  <2> QED BY <2>5, <2>6, Zenon
<1> QED BY <1>1, <1>2, Zenon

LEMMA MarkedType ==
    ASSUME TypeOK, NEW marks, MarkStale(marks)
    PROVE  brief' \in [made : BOOLEAN, body : SUBSET Id, vis : SUBSET Principal, stale : BOOLEAN]
BY Zenon DEF MarkStale, TypeOK

LEMMA Unmarked ==
    ASSUME TypeOK, UNCHANGED <<brief, raced>>
    PROVE  MarkStale(FALSE)
BY Zenon DEF MarkStale, TypeOK

LEMMA NothingNew == New({})
<1>1. 0 \in Nat
  OBVIOUS
<1> QED BY <1>1, Zenon DEF New

\* All together: what is left to show of a step that changes chunks.
LEMMA RowStep ==
    ASSUME IInv, TypeOK', NEW N, Rewritten(N), New(N),
           NEW marks \in BOOLEAN, MarkStale(marks), (\E e \in N : e.tag) => marks,
           refresh' = refresh, touched' \subseteq Ids(rows), sweep'.due \subseteq Ids(rows),
           \A w \in Writer : write'[w] = write[w] \/ write'[w].ins = {},
           SweptClean' /\ Ahead'
    PROVE  IInv'
<1>1. Ids(rows) \subseteq Ids(rows')
  BY RewrittenIds, Zenon
<1>2. \A w \in Writer : write'[w].ins \subseteq Ids(rows) /\ (write'[w].doc = Mirrored => write'[w].ins = {})
  <2> SUFFICES ASSUME NEW w \in Writer
               PROVE  write'[w].ins \subseteq Ids(rows) /\ (write'[w].doc = Mirrored => write'[w].ins = {})
    BY Zenon
  <2>1. CASE write'[w] = write[w]
    BY <2>1, Zenon DEF IInv, Known, Plain
  <2>2. CASE write'[w].ins = {}
    BY <2>2, Zenon
  <2> QED BY <2>1, <2>2, Zenon
<1>3. /\ (\E n \in Nat : \A c \in rows : c.id <= n)'
      /\ (\A c \in rows : c.ins \subseteq Ids(rows))'
      /\ (\A c \in rows : c.doc = Mirrored => c.ins = {})'
  BY KnownRows, Zenon DEF IInv
<1>4. Known'
  BY <1>1, <1>2, <1>3, Zenon DEF Known
<1>5. Plain'
  BY <1>2, <1>3, Zenon DEF Plain
<1>6. NoStaleTail'
  BY TailRows, Zenon DEF IInv
<1>7. LineageNarrows'
  BY LineageRows, Zenon DEF IInv
<1>8. PendingNarrows'
  BY PendingRows, Zenon DEF IInv
<1>9. BriefHasAll' /\ RefreshHasAll'
  BY BriefRows, Zenon DEF IInv
<1> QED BY <1>4, <1>5, <1>6, <1>7, <1>8, <1>9, Zenon DEF IInv

\* The same of a step that inserts nothing.
LEMMA AgeStep ==
    ASSUME IInv, TypeOK', Rewritten({}), UNCHANGED <<write, brief, refresh, raced>>,
           touched' \subseteq Ids(rows), sweep'.due \subseteq Ids(rows), SweptClean' /\ Ahead'
    PROVE  IInv'
<1>1. MarkStale(FALSE)
  BY Unmarked, Zenon DEF IInv
<1>2. New({})
  BY NothingNew, Zenon
<1>3. FALSE \in BOOLEAN /\ ((\E e \in {} : e.tag) => FALSE)
  BY Zenon
<1>4. refresh' = refresh /\ \A w \in Writer : write'[w] = write[w] \/ write'[w].ins = {}
  BY Zenon
<1> QED BY <1>1, <1>2, <1>3, <1>4, RowStep, Zenon

LEMMA UpdateStep ==
    ASSUME rows \subseteq Row, IdsUnique, NEW X \in SUBSET rows, NEW g,
           \A c \in X : /\ g[c] \in Row /\ Kept(c, g[c])
                        /\ g[c].vis \subseteq c.vis \/ c.doc = Mirrored
                        /\ g[c].vis = c.vis \/ c.id \in touched',
           rows' = Update(X, g), touched \subseteq touched'
    PROVE  Rewritten({})
<1>1. /\ Update(X, g) \subseteq Row
      /\ \A c, d \in Update(X, g) : c.id = d.id => c = d
      /\ \A e \in Update(X, g) :
            \E c \in rows : Kept(c, e) /\ (IF c \in X THEN e = g[c] ELSE e = c)
      /\ \A c \in rows : \E e \in Update(X, g) : Kept(c, e)
  BY UpdateKeeps
<1>2. rows' \subseteq Row /\ IdsUnique' /\ \A c \in rows : \E e \in rows' : Kept(c, e)
  BY <1>1, Zenon DEF IdsUnique
<1>3. ASSUME NEW e \in rows'
      PROVE  \E c \in rows : /\ Kept(c, e) /\ (e.id \notin touched' => e.vis = c.vis)
                             /\ (e.vis \subseteq c.vis \/ e.doc = Mirrored)
  <2>1. PICK c \in rows : Kept(c, e) /\ (IF c \in X THEN e = g[c] ELSE e = c)
    BY <1>1, Zenon
  <2>2. CASE c \in X
    <3>1. e = g[c] /\ (e.vis \subseteq c.vis \/ c.doc = Mirrored) /\ (e.vis = c.vis \/ c.id \in touched')
      BY <2>1, <2>2, Zenon
    <3> QED BY <2>1, <3>1, Zenon DEF Kept
  <2>3. CASE c \notin X
    BY <2>1, <2>3, Zenon
  <2> QED BY <2>2, <2>3, Zenon
<1> QED BY <1>2, <1>3, Zenon DEF Rewritten

-----------------------------------------------------------------------------
(* The actions *)

LEMMA IdsAre ==
    ASSUME TypeOK, NEW X \in SUBSET rows
    PROVE  Ids(X) \subseteq Ids(rows) /\ Ids(X) \subseteq Id
<1>1. Ids(X) \subseteq Ids(rows)
  BY Zenon DEF Ids
<1>2. \A c \in rows : c.id \in Id
  BY DEF TypeOK, Row
<1> QED BY <1>1, <1>2, Zenon DEF Ids

\* Steps that leave the deliveries under way and the sweep alone, and take no
\* token on.
LEMMA WithdrawStep ==
    ASSUME IInv, Rewritten({}), UNCHANGED <<eps, write, acts, brief, refresh, raced, sweep>>,
           touched' \subseteq Ids(rows),
           \A e \in rows' : \E c \in rows : Kept(c, e) /\ e.vis \subseteq c.vis
    PROVE  IInv'
<1>1. TypeOK'
  <2>1. touched' \subseteq Id
    BY IdsAre, Zenon DEF IInv
  <2> QED BY <2>1, Zenon DEF IInv, TypeOK, Rewritten, IdsUnique
<1>2. SweptClean' /\ Ahead'
  <2>1. \A e \in rows' : (e.id \in sweep'.due /\ sweep.tok \in e.vis) =>
           \E c \in rows : c.id = e.id /\ c.id \in sweep.due /\ sweep.tok \in c.vis
    <3> SUFFICES ASSUME NEW e \in rows', e.id \in sweep'.due, sweep.tok \in e.vis
                 PROVE  \E c \in rows : c.id = e.id /\ c.id \in sweep.due /\ sweep.tok \in c.vis
      BY Zenon
    <3>1. PICK c \in rows : Kept(c, e) /\ e.vis \subseteq c.vis
      BY Zenon
    <3>2. c.id = e.id /\ sweep.tok \in c.vis /\ e.id \in sweep.due
      BY <3>1, Zenon DEF Kept
    <3> QED BY <3>2, Zenon
  <2> QED BY <2>1, SweepRows, Zenon DEF IInv
<1>3. sweep'.due \subseteq Ids(rows)
  BY Zenon DEF IInv, Known
<1> QED BY <1>1, <1>2, <1>3, AgeStep, Zenon

LEMMA RetireStep ==
    ASSUME IInv, RetireDocument
    PROVE  IInv'
<1> DEFINE gone == {c \in Open : c.doc = Mirrored}
           g == [c \in gone |-> [c EXCEPT !.open = FALSE, !.vis = {}]]
<1>1. /\ rows' = Update(gone, g) /\ touched' = touched \union Ids(gone)
      /\ UNCHANGED <<eps, write, acts, brief, refresh, raced, sweep>>
  BY Zenon DEF RetireDocument
<1>2. gone \in SUBSET rows /\ rows \subseteq Row /\ IdsUnique
  <2>1. gone \in SUBSET rows
    BY Zenon DEF Open
  <2> QED BY <2>1, Zenon DEF IInv, TypeOK, IdsUnique
<1>3. \A c \in gone : g[c] \in Row /\ Kept(c, g[c]) /\ g[c].vis = {} /\ c.id \in Ids(gone)
  <2>1. \A c \in gone : c \in Row
    BY <1>2, Zenon
  <2>2. \A c \in gone : c.id \in Ids(gone)
    BY Zenon DEF Ids
  <2> QED BY <2>1, <2>2, Zenon DEF Row, Kept
<1> HIDE DEF g, gone
<1>4. Rewritten({})
  BY <1>1, <1>2, <1>3, UpdateStep
<1>5. \A e \in rows' : \E c \in rows : Kept(c, e) /\ e.vis \subseteq c.vis
  <2> SUFFICES ASSUME NEW e \in rows' PROVE \E c \in rows : Kept(c, e) /\ e.vis \subseteq c.vis
    BY Zenon
  <2>1. PICK c \in rows : Kept(c, e) /\ (IF c \in gone THEN e = g[c] ELSE e = c)
    BY <1>1, <1>2, <1>3, UpdateKeeps
  <2>2. e.vis \subseteq c.vis
    BY <2>1, <1>3, Zenon
  <2> QED BY <2>1, <2>2, Zenon
<1>6. touched' \subseteq Ids(rows)
  BY <1>1, <1>2, IdsAre, Zenon DEF IInv, Known
<1> QED BY <1>1, <1>4, <1>5, <1>6, WithdrawStep, Zenon

LEMMA ForgetStep ==
    ASSUME IInv, NEW X \in SUBSET rows, Forget(X)
    PROVE  IInv'
<1>1. rows' = Close(X) /\ UNCHANGED <<eps, write, acts, brief, refresh, raced, sweep, touched>>
  BY Zenon DEF Forget
<1>2. rows \subseteq Row /\ IdsUnique
  BY Zenon DEF IInv, TypeOK, IdsUnique
<1>3. /\ Close(X) \subseteq Row
      /\ \A c, d \in Close(X) : c.id = d.id => c = d
      /\ \A e \in Close(X) :
            \E c \in rows : Kept(c, e) /\ e.vis = c.vis /\ (c \in X => ~e.open)
      /\ \A c \in rows : \E e \in Close(X) : Kept(c, e)
  BY <1>2, CloseKeeps, Zenon
<1>4. Rewritten({})
  BY <1>1, <1>3, Zenon DEF Rewritten, IdsUnique
<1>5. \A e \in rows' : \E c \in rows : Kept(c, e) /\ e.vis \subseteq c.vis
  BY <1>1, <1>3, Zenon
<1>6. touched' \subseteq Ids(rows)
  BY <1>1, Zenon DEF IInv, Known
<1> QED BY <1>1, <1>4, <1>5, <1>6, WithdrawStep, Zenon

LEMMA CorrectStep ==
    ASSUME IInv, NEW vis \in Audience, CorrectChunkAcl(vis)
    PROVE  IInv'
<1> DEFINE doc == {c \in rows : c.doc = Mirrored}
           g == [c \in doc |-> [c EXCEPT !.vis = vis]]
<1>1. /\ rows' = Update(doc, g) /\ touched' = touched \union Ids(doc)
      /\ sweep' = [sweep EXCEPT !.due = IF sweep.tok \in vis THEN @ \ Ids(doc) ELSE @]
      /\ UNCHANGED <<eps, write, acts, brief, refresh, raced>>
  BY Zenon DEF CorrectChunkAcl
<1>2. doc \in SUBSET rows /\ rows \subseteq Row /\ IdsUnique
  BY Zenon DEF IInv, TypeOK, IdsUnique
<1>3. \A c \in doc : /\ g[c] \in Row /\ Kept(c, g[c]) /\ g[c].vis = vis
                     /\ c.id \in Ids(doc) /\ c.doc = Mirrored
  <2>1. \A c \in doc : c \in Row /\ c.doc = Mirrored
    BY <1>2, Zenon
  <2>2. \A c \in doc : c.id \in Ids(doc)
    BY Zenon DEF Ids
  <2>3. vis \in SUBSET Principal
    BY DocumentAssumption, Zenon
  <2> QED BY <2>1, <2>2, <2>3 DEF Row, Kept
<1>4. /\ sweep'.on = sweep.on /\ sweep'.tok = sweep.tok /\ sweep'.last = sweep.last
      /\ sweep'.due = IF sweep.tok \in vis THEN sweep.due \ Ids(doc) ELSE sweep.due
      /\ sweep' \in [on : BOOLEAN, tok : Principal, last : Nat, due : SUBSET Id]
  BY <1>1, Zenon DEF IInv, TypeOK
<1>5. touched' \subseteq Ids(rows) /\ touched' \subseteq Id /\ sweep'.due \subseteq Ids(rows)
  <2>1. Ids(doc) \subseteq Ids(rows) /\ Ids(doc) \subseteq Id
    BY <1>2, IdsAre, Zenon DEF IInv
  <2> QED BY <2>1, <1>1, <1>4, Zenon DEF IInv, Known, TypeOK
<1> HIDE DEF g, doc
<1>6. Rewritten({})
  BY <1>1, <1>2, <1>3, UpdateStep
<1>7. TypeOK'
  BY <1>1, <1>4, <1>5, <1>6, Zenon DEF IInv, TypeOK, Rewritten, IdsUnique
<1>8. \A e \in rows' : (e.id \in sweep'.due /\ sweep.tok \in e.vis) =>
         \E c \in rows : c.id = e.id /\ c.id \in sweep.due /\ sweep.tok \in c.vis
  <2> SUFFICES ASSUME NEW e \in rows', e.id \in sweep'.due, sweep.tok \in e.vis
               PROVE  \E c \in rows : c.id = e.id /\ c.id \in sweep.due /\ sweep.tok \in c.vis
    BY Zenon
  <2>1. PICK c \in rows : Kept(c, e) /\ (IF c \in doc THEN e = g[c] ELSE e = c)
    BY <1>1, <1>2, <1>3, UpdateKeeps
  <2>2. c.id = e.id
    BY <2>1, Zenon DEF Kept
  <2>3. c \notin doc
    BY <2>1, <2>2, <1>3, <1>4, Zenon
  <2>4. e = c /\ e.id \in sweep.due
    BY <2>1, <2>3, <1>4, Zenon
  <2> QED BY <2>4, Zenon
<1>9. SweptClean' /\ Ahead'
  BY <1>4, <1>8, SweepRows, Zenon DEF IInv
<1> QED BY <1>1, <1>5, <1>6, <1>7, <1>9, AgeStep, Zenon

\* A batch takes the first chunks behind the keyset that carry the token.
LEMMA SweptIs ==
    ASSUME TypeOK, Known
    PROVE  LET next == {c \in Carrying(sweep.tok) : c.id > sweep.last} IN
           /\ Swept \in SUBSET rows
           /\ Cardinality(Swept) # Batch => Swept = next
           /\ Cardinality(Swept) = Batch =>
                 /\ Max(Ids(Swept)) \in Nat
                 /\ \A c \in next : c \in Swept \/ c.id > Max(Ids(Swept))
<1> DEFINE next == {c \in Carrying(sweep.tok) : c.id > sweep.last}
           F == {c \in next : Cardinality({d \in next : d.id <= c.id}) <= Batch}
<1>1. Swept = F
  BY Zenon DEF Swept
<1>2. next \subseteq rows
  BY Zenon DEF Carrying
<1> HIDE DEF next
<1>3. PICK n \in Nat : \A c \in rows : c.id <= n
  BY Zenon DEF Known
<1>4. \A c \in rows : c.id \in Nat /\ c.id <= n
  BY <1>3 DEF TypeOK, Row, Id
<1>5. \A c \in next : c.id \in Nat /\ c.id <= n
  BY <1>2, <1>4, Zenon
<1>6. \A c, d \in next : c.id = d.id => c = d
  BY <1>2, Zenon DEF TypeOK
<1>7. /\ \A c \in next, d \in F : c.id <= d.id => c \in F
      /\ Cardinality(F) # Batch => F = next
      /\ F \subseteq next
  BY <1>5, <1>6, FirstBatch, Zenon
<1> HIDE DEF F
<1>8. ASSUME Cardinality(F) = Batch
      PROVE  Max(Ids(F)) \in Nat /\ \A c \in next : c \in F \/ c.id > Max(Ids(F))
  <2>1. F # {}
    <3>1. Batch # 0
      BY DocumentAssumption
    <3> QED BY <3>1, <1>8, FS_EmptySet, Zenon
  <2>2. \A c \in F : c.id \in Nat /\ c.id <= n
    BY <1>5, <1>7, Zenon
  <2>3. Ids(F) \in SUBSET Nat /\ (\A j \in Ids(F) : j <= n) /\ Ids(F) # {}
    BY <2>1, <2>2, IdsOf, Zenon
  <2>4. Max(Ids(F)) \in Ids(F)
    BY <2>3, MaxIs, Zenon
  <2>5. PICK d \in F : d.id = Max(Ids(F))
    BY <2>4, Zenon DEF Ids
  <2>6. \A c \in next : c \in F \/ ~(c.id <= d.id)
    BY <1>7, Zenon
  <2>7. \A c \in next : c \in F \/ c.id > d.id
    BY <1>5, <2>2, <2>6
  <2> QED BY <2>2, <2>5, <2>7, Zenon
<1> QED BY <1>1, <1>2, <1>7, <1>8, Zenon DEF next

LEMMA SweepStep ==
    ASSUME IInv, SweepBatch
    PROVE  IInv'
<1> DEFINE tok == sweep.tok
           next == {c \in Carrying(tok) : c.id > sweep.last}
           full == Cardinality(Swept) = Batch
           g == [c \in Swept |-> [c EXCEPT !.vis = @ \ {tok}]]
<1>1. /\ sweep.on /\ rows' = Update(Swept, g) /\ touched' = touched \union Ids(Swept)
      /\ sweep' = [sweep EXCEPT !.on = full, !.last = IF full THEN Max(Ids(Swept)) ELSE 0]
      /\ UNCHANGED <<eps, write, acts, brief, refresh, raced>>
  BY Zenon DEF SweepBatch
<1>2. rows \subseteq Row /\ IdsUnique
  BY Zenon DEF IInv, TypeOK, IdsUnique
<1>3. /\ Swept \in SUBSET rows
      /\ ~full => Swept = next
      /\ full => Max(Ids(Swept)) \in Nat /\ \A c \in next : c \in Swept \/ c.id > Max(Ids(Swept))
  BY SweptIs, Zenon DEF IInv
<1>4. \A c \in Swept : /\ g[c] \in Row /\ Kept(c, g[c]) /\ c.id \in Ids(Swept)
                       /\ g[c].vis \subseteq c.vis /\ tok \notin g[c].vis
  <2>1. \A c \in Swept : c \in Row
    BY <1>2, <1>3, Zenon
  <2>2. \A c \in Swept : c.id \in Ids(Swept)
    BY Zenon DEF Ids
  <2> HIDE DEF tok
  <2> QED BY <2>1, <2>2 DEF Row, Kept
<1> HIDE DEF g
<1>5. Rewritten({})
  BY <1>1, <1>2, <1>3, <1>4, UpdateStep
<1>6. /\ sweep'.on = full /\ sweep'.tok = tok /\ sweep'.due = sweep.due
      /\ sweep'.last = IF full THEN Max(Ids(Swept)) ELSE 0
  BY <1>1 DEF IInv, TypeOK
<1>7. sweep' \in [on : BOOLEAN, tok : Principal, last : Nat, due : SUBSET Id]
  <2> DEFINE m == IF full THEN Max(Ids(Swept)) ELSE 0
  <2>1. m \in Nat /\ full \in BOOLEAN
    BY <1>3
  <2>2. sweep' = [sweep EXCEPT !.on = full, !.last = m]
    BY <1>1, Zenon
  <2>3. sweep \in [on : BOOLEAN, tok : Principal, last : Nat, due : SUBSET Id]
    BY Zenon DEF IInv, TypeOK
  <2> HIDE DEF m, full
  <2> QED BY <2>1, <2>2, <2>3, Zenon
<1>8. touched' \subseteq Ids(rows) /\ touched' \subseteq Id
  <2>1. Ids(Swept) \subseteq Ids(rows) /\ Ids(Swept) \subseteq Id
    BY <1>3, IdsAre, Zenon DEF IInv
  <2> QED BY <2>1, <1>1, Zenon DEF IInv, Known, TypeOK
<1>9. TypeOK'
  BY <1>1, <1>5, <1>7, <1>8, Zenon DEF IInv, TypeOK, Rewritten, IdsUnique
<1>10. \A e \in rows' : (e.id \in sweep.due /\ tok \in e.vis) => e \in next /\ e \notin Swept
  <2> SUFFICES ASSUME NEW e \in rows', e.id \in sweep.due, tok \in e.vis
               PROVE  e \in next /\ e \notin Swept
    BY Zenon
  <2>1. PICK c \in rows : Kept(c, e) /\ (IF c \in Swept THEN e = g[c] ELSE e = c)
    BY <1>1, <1>2, <1>3, <1>4, UpdateKeeps
  <2>2. c \notin Swept
    BY <2>1, <1>4, Zenon
  <2>3. e = c
    BY <2>1, <2>2, Zenon
  <2>4. e.id > sweep.last
    BY <2>3, <1>1, Zenon DEF IInv, Ahead
  <2> QED BY <2>2, <2>3, <2>4, Zenon DEF Carrying
<1>11. SweptClean'
  <2> SUFFICES ASSUME ~sweep'.on, NEW e \in rows', e.id \in sweep'.due, sweep'.tok \in e.vis
               PROVE  FALSE
    BY Zenon DEF SweptClean
  <2> QED BY <1>3, <1>6, <1>10, Zenon
<1>12. Ahead'
  <2> SUFFICES ASSUME sweep'.on, NEW e \in rows', e.id \in sweep'.due, sweep'.tok \in e.vis
               PROVE  e.id > sweep'.last
    BY Zenon DEF Ahead
  <2>1. full /\ e \in next /\ e \notin Swept
    BY <1>6, <1>10, Zenon
  <2> QED BY <2>1, <1>3, <1>6, Zenon
<1>13. sweep'.due \subseteq Ids(rows)
  BY <1>6, Zenon DEF IInv, Known
<1> QED BY <1>1, <1>5, <1>8, <1>9, <1>11, <1>12, <1>13, AgeStep, Zenon

LEMMA SameRows ==
    ASSUME IInv, UNCHANGED <<rows, touched>>
    PROVE  Rewritten({})
<1>1. \A c \in rows : Kept(c, c)
  BY Zenon DEF Kept
<1> QED BY <1>1, Zenon DEF Rewritten, IInv, TypeOK, IdsUnique

LEMMA RetractStep ==
    ASSUME IInv, NEW p \in Leaver, RetractToken(p)
    PROVE  IInv'
<1>1. /\ sweep' = [on |-> TRUE, tok |-> p, last |-> 0, due |-> Ids(Carrying(p))]
      /\ UNCHANGED <<rows, eps, write, acts, brief, refresh, raced, touched>>
  BY Zenon DEF RetractToken
<1>2. Ids(Carrying(p)) \subseteq Ids(rows) /\ Ids(Carrying(p)) \subseteq Id
  <2>1. Carrying(p) \in SUBSET rows
    BY Zenon DEF Carrying
  <2> QED BY <2>1, IdsAre, Zenon DEF IInv
<1>3. /\ sweep'.on /\ sweep'.last = 0 /\ sweep'.due = Ids(Carrying(p))
      /\ sweep' \in [on : BOOLEAN, tok : Principal, last : Nat, due : SUBSET Id]
  BY <1>1, <1>2, DocumentAssumption
<1>4. TypeOK'
  BY <1>1, <1>3, Zenon DEF IInv, TypeOK
<1>5. \A c \in rows' : c.id > 0
  BY <1>1 DEF IInv, TypeOK, Row, Id
<1>6. SweptClean' /\ Ahead'
  BY <1>3, <1>5, Zenon DEF SweptClean, Ahead
<1>7. touched' \subseteq Ids(rows) /\ sweep'.due \subseteq Ids(rows)
  BY <1>1, <1>2, <1>3, Zenon DEF IInv, Known
<1>8. Rewritten({})
  BY <1>1, SameRows, Zenon
<1> QED BY <1>1, <1>4, <1>6, <1>7, <1>8, AgeStep, Zenon

\* What an insertion of new ids adds to chunks that were updated in place.
LEMMA Inserted ==
    ASSUME TypeOK, NEW R, NEW N, rows' = R \union N, UNCHANGED touched,
           R \subseteq Row, \A c, d \in R : c.id = d.id => c = d,
           \A e \in R : \E c \in rows : Kept(c, e) /\ e.vis = c.vis,
           \A c \in rows : \E e \in R : Kept(c, e),
           N \subseteq Row, \A c, d \in N : c.id = d.id => c = d,
           \A e \in N : \A c \in rows : e.id > c.id
    PROVE  Rewritten(N)
<1>1. \A e \in N : \A c \in R : e.id # c.id
  <2> SUFFICES ASSUME NEW e \in N, NEW c \in R, e.id = c.id PROVE FALSE
    OBVIOUS
  <2>1. PICK b \in rows : b.id = c.id
    BY Zenon DEF Kept
  <2>2. e.id > b.id /\ e.id = b.id /\ e.id \in Nat
    BY <2>1 DEF Row, Id
  <2> QED BY <2>2
<1>2. IdsUnique'
  BY <1>1, Zenon DEF IdsUnique
<1>3. rows' \subseteq Row
  BY Zenon
<1>4. \A c \in rows : \E e \in rows' : Kept(c, e)
  BY Zenon
<1>5. \A e \in rows' : e \notin N => \E c \in rows : Kept(c, e) /\ e.vis = c.vis
  BY Zenon
<1> QED BY <1>2, <1>3, <1>4, <1>5, Zenon DEF Rewritten

\* The same for the sweep: an id that it has to rewrite is no new one.
LEMMA InsertedSwept ==
    ASSUME IInv, NEW N, UNCHANGED sweep, \A e \in N : \A c \in rows : e.id > c.id, N \subseteq Row,
           \A e \in rows' : e \in N \/ \E c \in rows : Kept(c, e) /\ e.vis = c.vis
    PROVE  SweptClean' /\ Ahead'
<1>1. \A e \in N : e.id \notin sweep.due
  <2> SUFFICES ASSUME NEW e \in N, e.id \in sweep.due PROVE FALSE
    OBVIOUS
  <2>1. e.id \in Ids(rows)
    BY Zenon DEF IInv, Known
  <2>2. PICK c \in rows : c.id = e.id
    BY <2>1, Zenon DEF Ids
  <2>3. e.id > c.id /\ e.id \in Nat
    BY DEF Row, Id
  <2> QED BY <2>2, <2>3
<1>2. \A e \in rows' : (e.id \in sweep'.due /\ sweep.tok \in e.vis) =>
         \E c \in rows : c.id = e.id /\ c.id \in sweep.due /\ sweep.tok \in c.vis
  <2> SUFFICES ASSUME NEW e \in rows', e.id \in sweep'.due, sweep.tok \in e.vis
               PROVE  \E c \in rows : c.id = e.id /\ c.id \in sweep.due /\ sweep.tok \in c.vis
    BY Zenon
  <2>1. PICK c \in rows : Kept(c, e) /\ e.vis = c.vis
    BY <1>1, Zenon
  <2>2. c.id = e.id
    BY <2>1, Zenon DEF Kept
  <2> QED BY <2>1, <2>2, Zenon
<1> QED BY <1>2, SweepRows, Zenon DEF IInv

LEMMA FreshIs ==
    ASSUME TypeOK, Known, NEW d \in Delivery, d.ep # 0
    PROVE  /\ Fresh(d) \subseteq Row
           /\ \A c, e \in Fresh(d) : c.id = e.id => c = e
           /\ \A e \in Fresh(d) : \A c \in rows : e.id > c.id
           /\ \A e \in Fresh(d) : e.id <= LastId + MaxSize
           /\ \A e \in Fresh(d) : /\ e.doc = d.doc /\ e.from = d.from /\ e.vis = d.vis
                                  /\ e.tag = d.tag /\ e.ins = d.ins /\ d.size > 0
<1> DEFINE Chunk(x) == [doc |-> d.doc, seq |-> x, from |-> d.from, ep |-> d.ep, open |-> TRUE,
                        vis |-> d.vis, tag |-> d.tag, ins |-> d.ins, id |-> LastId + x + 1]
<1>1. LastId \in Nat /\ \A c \in rows : c.id <= LastId
  BY LastIdIs, Zenon
<1>2. \A e \in Fresh(d) : \E x \in 0..(d.size - 1) : e = Chunk(x)
  BY Zenon DEF Fresh
<1>3. \A x \in 0..(d.size - 1) :
         x \in Nat /\ x \in Place /\ LastId + x + 1 \in Id /\ x + 1 <= MaxSize /\ d.size > 0
  BY <1>1, DocumentAssumption DEF Delivery, Place, Id
<1>4. d.ep \in 1..MaxEpisodes
  BY DocumentAssumption DEF Delivery
<1>5. \A x \in 0..(d.size - 1) : Chunk(x) \in Row
  BY <1>3, <1>4 DEF Row, Delivery
<1>6. \A x, y \in 0..(d.size - 1) : Chunk(x).id = Chunk(y).id => Chunk(x) = Chunk(y)
  <2> SUFFICES ASSUME NEW x \in 0..(d.size - 1), NEW y \in 0..(d.size - 1), Chunk(x).id = Chunk(y).id
               PROVE  x = y
    BY Zenon
  <2>1. LastId + x + 1 = LastId + y + 1
    BY Zenon
  <2> QED BY <2>1, <1>1, <1>3
<1>7. \A x \in 0..(d.size - 1) :
         /\ Chunk(x).id = LastId + x + 1 /\ Chunk(x).doc = d.doc /\ Chunk(x).from = d.from
         /\ Chunk(x).vis = d.vis /\ Chunk(x).tag = d.tag /\ Chunk(x).ins = d.ins
  BY Zenon
<1> HIDE DEF Chunk
<1>8. \A e \in Fresh(d) : \A c \in rows : e.id > c.id
  <2>1. \A c \in rows : c.id \in Nat
    BY DEF TypeOK, Row, Id
  <2>2. \A x \in 0..(d.size - 1) : \A c \in rows : LastId + x + 1 > c.id
    BY <1>1, <1>3, <2>1
  <2> QED BY <1>2, <1>7, <2>2, Zenon
<1>9. \A e \in Fresh(d) : e.id <= LastId + MaxSize
  <2>1. \A x \in 0..(d.size - 1) : LastId + x + 1 <= LastId + MaxSize
    BY <1>1, <1>3, DocumentAssumption
  <2> QED BY <1>2, <1>7, <2>1, Zenon
<1>10. Fresh(d) \subseteq Row
  BY <1>2, <1>5, Zenon
<1>11. \A c, e \in Fresh(d) : c.id = e.id => c = e
  BY <1>2, <1>6, Zenon
<1>12. \A e \in Fresh(d) : /\ e.doc = d.doc /\ e.from = d.from /\ e.vis = d.vis
                           /\ e.tag = d.tag /\ e.ins = d.ins /\ d.size > 0
  BY <1>2, <1>3, <1>7, Zenon
<1> QED BY <1>8, <1>9, <1>10, <1>11, <1>12, Zenon

LEMMA UpsertStep ==
    ASSUME IInv, NEW w \in Writer, UpsertChunks(w)
    PROVE  IInv'
<1> DEFINE d == write[w]
           X == Replaced(d) \union Remainder(d)
           N == Fresh(d)
<1>1. /\ d.ep # 0 /\ rows' = Close(X) \union N /\ MarkStale(Affected(d))
      /\ write' = [write EXCEPT ![w] = NoWrite]
      /\ UNCHANGED <<eps, acts, refresh, sweep, touched>>
  BY Zenon DEF UpsertChunks
<1>2. d \in Delivery /\ rows \subseteq Row /\ IdsUnique
  BY Zenon DEF IInv, TypeOK, IdsUnique
<1>3. /\ N \subseteq Row
      /\ \A c, e \in N : c.id = e.id => c = e
      /\ \A e \in N : \A c \in rows : e.id > c.id
      /\ \A e \in N : e.id <= LastId + MaxSize
      /\ \A e \in N : /\ e.doc = d.doc /\ e.from = d.from /\ e.vis = d.vis
                      /\ e.tag = d.tag /\ e.ins = d.ins /\ d.size > 0
  BY <1>1, <1>2, FreshIs, Zenon DEF IInv
<1>4. X \in SUBSET rows
  BY Zenon DEF Replaced, Remainder
<1>5. /\ Close(X) \subseteq Row
      /\ \A c, e \in Close(X) : c.id = e.id => c = e
      /\ \A e \in Close(X) :
            \E c \in rows : Kept(c, e) /\ e.vis = c.vis /\ (c \in X => ~e.open)
      /\ \A c \in rows : \E e \in Close(X) : Kept(c, e)
  BY <1>2, <1>4, CloseKeeps, Zenon
<1>6. \A c \in rows : (d.size > 0 /\ Delivers(d, c)) => c \in X
  <2>1. \A c \in rows : c.seq < d.size \/ c.seq >= d.size
    BY <1>2 DEF Row, Delivery, Place
  <2> QED BY <2>1, Zenon DEF Replaced, Remainder
<1> HIDE DEF X, N
<1>7. Rewritten(N)
  BY <1>1, <1>3, <1>5, Inserted, Zenon DEF IInv
<1>8. New(N)
  <2>1. \E m \in Nat : \A e \in N : e.id <= m
    <3>1. LastId + MaxSize \in Nat
      BY LastIdIs, DocumentAssumption DEF IInv
    <3> QED BY <3>1, <1>3, Zenon
  <2>2. \A e \in N : e.ins \subseteq Ids(rows) /\ (e.doc = Mirrored => e.ins = {})
    BY <1>3, Zenon DEF IInv, Known, Plain
  <2>3. \A e \in N : \A i \in rows : (i.id \in e.ins /\ i.id \notin touched) => e.vis \subseteq i.vis
    BY <1>3, Zenon DEF IInv, PendingNarrows
  <2>4. ASSUME NEW e \in N, NEW c \in rows', e.doc = Mirrored, c.doc = Mirrored, c.open
        PROVE  ~(c.from < e.from)
    <3>1. CASE c \in N
      <4>1. c.from = e.from /\ c.from \in Nat
        BY <1>3, <3>1 DEF Row
      <4> QED BY <4>1
    <3>2. CASE c \in Close(X)
      <4>1. PICK b \in rows : Kept(b, c) /\ (b \in X => ~c.open)
        BY <1>5, <3>2, Zenon
      <4>2. d.size > 0 /\ e.doc = d.doc /\ e.from = d.from
        BY <1>3, Zenon
      <4>3. ~Delivers(d, b)
        BY <1>6, <2>4, <4>1, <4>2, Zenon
      <4> QED BY <2>4, <4>1, <4>2, <4>3, Zenon DEF Delivers, Kept
    <3> QED BY <1>1, <3>1, <3>2, Zenon
  <2> QED BY <1>3, <2>1, <2>2, <2>3, <2>4, Zenon DEF New
<1>9. \A v \in Writer : write'[v] = write[v] \/ write'[v].ins = {}
  <2>1. NoWrite.ins = {}
    BY Zenon DEF NoWrite
  <2>2. write \in [Writer -> Delivery]
    BY Zenon DEF IInv, TypeOK
  <2> QED BY <1>1, <2>1, <2>2, Zenon
<1>10. Affected(d) \in BOOLEAN /\ ((\E e \in N : e.tag) => Affected(d))
  BY <1>3, Zenon DEF Affected
<1>11. TypeOK'
  <2>1. NoWrite \in Delivery
    BY DocumentAssumption DEF NoWrite, Delivery, Mirrored
  <2>2. write' \in [Writer -> Delivery]
    <3>1. write \in [Writer -> Delivery]
      BY Zenon DEF IInv, TypeOK
    <3> QED BY <1>1, <2>1, <3>1, Zenon
  <2>3. brief' \in [made : BOOLEAN, body : SUBSET Id, vis : SUBSET Principal, stale : BOOLEAN]
    BY <1>1, MarkedType, Zenon DEF IInv
  <2>4. raced' \in BOOLEAN
    BY <1>1, Zenon DEF MarkStale
  <2> QED BY <1>1, <1>7, <2>2, <2>3, <2>4, Zenon DEF IInv, TypeOK, Rewritten, IdsUnique
<1>12. SweptClean' /\ Ahead'
  <2>1. \A e \in rows' : e \in N \/ \E c \in rows : Kept(c, e) /\ e.vis = c.vis
    BY <1>1, <1>5, Zenon
  <2> QED BY <1>1, <1>3, <2>1, InsertedSwept, Zenon
<1>13. touched' \subseteq Ids(rows) /\ sweep'.due \subseteq Ids(rows) /\ refresh' = refresh
  BY <1>1, Zenon DEF IInv, Known
<1> DEFINE marks == Affected(d)
<1>14. marks \in BOOLEAN /\ MarkStale(marks) /\ ((\E e \in N : e.tag) => marks)
  BY <1>1, <1>10, Zenon
<1> HIDE DEF marks
<1> QED BY <1>7, <1>8, <1>9, <1>11, <1>12, <1>13, <1>14, RowStep

LEMMA RecordStep ==
    ASSUME IInv, NEW vis \in Audience, RecordAction(vis)
    PROVE  IInv'
<1> DEFINE c == [doc |-> eps', seq |-> 0, from |-> 1, ep |-> eps', open |-> TRUE,
                 vis |-> vis, tag |-> TRUE, ins |-> {}, id |-> LastId + 1]
           N == {c}
<1>1. /\ eps < MaxEpisodes /\ eps' = eps + 1 /\ acts' = {vis}
      /\ rows' = rows \union N /\ MarkStale(TRUE)
      /\ UNCHANGED <<write, refresh, sweep, touched>>
  BY Zenon DEF RecordAction, InsertEpisode
<1>2. rows \subseteq Row /\ IdsUnique /\ \A b \in rows : Kept(b, b)
  BY Zenon DEF IInv, TypeOK, IdsUnique, Kept
<1>3. LastId \in Nat /\ \A b \in rows : b.id <= LastId
  BY LastIdIs, Zenon DEF IInv
<1>4. eps' \in 1..MaxEpisodes /\ eps' \in 0..MaxEpisodes
  BY <1>1, DocumentAssumption DEF IInv, TypeOK
<1>5. vis \in SUBSET Principal
  BY DocumentAssumption, Zenon
<1>6. c \in Row
  <2>1. 0 \in Place /\ 1 \in 1..MaxTime /\ LastId + 1 \in Id
    BY <1>3, DocumentAssumption DEF Place, Id
  <2> QED BY <1>4, <1>5, <2>1 DEF Row
<1>7. c.id = LastId + 1 /\ c.ins = {} /\ c.doc # Mirrored
  BY <1>4 DEF Mirrored
<1>8. \A b \in rows : c.id > b.id
  <2>1. \A b \in rows : b.id \in Nat
    BY <1>2 DEF Row, Id
  <2> QED BY <1>3, <1>7, <2>1
<1> HIDE DEF c
<1>9. Rewritten(N)
  <2>1. \A e \in rows : \E b \in rows : Kept(b, e) /\ e.vis = b.vis
    BY <1>2, Zenon
  <2>2. \A b \in rows : \E e \in rows : Kept(b, e)
    BY <1>2, Zenon
  <2>3. N \subseteq Row /\ (\A b, e \in N : b.id = e.id => b = e) /\ \A e \in N : \A b \in rows : e.id > b.id
    BY <1>6, <1>8, Zenon
  <2>4. \A b, e \in rows : b.id = e.id => b = e
    BY <1>2, Zenon DEF IdsUnique
  <2> HIDE DEF N
  <2> QED BY <1>1, <1>2, <2>1, <2>2, <2>3, <2>4, Inserted, Zenon DEF IInv
<1>10. New(N)
  <2>1. LastId + 1 \in Nat /\ c.id <= LastId + 1
    BY <1>3, <1>7
  <2> QED BY <1>7, <1>8, <2>1, Zenon DEF New
<1>11. TypeOK'
  <2>1. brief' \in [made : BOOLEAN, body : SUBSET Id, vis : SUBSET Principal, stale : BOOLEAN]
    BY <1>1, MarkedType, Zenon DEF IInv
  <2>2. raced' \in BOOLEAN /\ acts' \subseteq SUBSET Principal
    BY <1>1, <1>5, Zenon DEF MarkStale
  <2> QED BY <1>1, <1>4, <1>9, <2>1, <2>2, Zenon DEF IInv, TypeOK, Rewritten, IdsUnique
<1>12. SweptClean' /\ Ahead'
  <2>1. \A e \in rows' : e \in N \/ \E b \in rows : Kept(b, e) /\ e.vis = b.vis
    BY <1>1, <1>2, Zenon
  <2>2. N \subseteq Row /\ \A e \in N : \A b \in rows : e.id > b.id
    BY <1>6, <1>8, Zenon
  <2> QED BY <1>1, <2>1, <2>2, InsertedSwept, Zenon
<1>13. touched' \subseteq Ids(rows) /\ sweep'.due \subseteq Ids(rows) /\ refresh' = refresh
  BY <1>1, Zenon DEF IInv, Known
<1>14. \A v \in Writer : write'[v] = write[v] \/ write'[v].ins = {}
  BY <1>1, Zenon
<1> HIDE DEF N
<1> QED BY <1>1, <1>9, <1>10, <1>11, <1>12, <1>13, <1>14, RowStep, Zenon

\* A delivery or an observation is taken on.
LEMMA WriteStep ==
    ASSUME IInv, NEW w \in Writer, NEW d \in Delivery, write' = [write EXCEPT ![w] = d],
           UNCHANGED <<rows, acts, brief, refresh, raced, sweep, touched>>, eps' \in 0..MaxEpisodes,
           d.ins \subseteq Ids(rows), d.doc = Mirrored => d.ins = {},
           \A i \in rows : (i.id \in d.ins /\ i.id \notin touched) => d.vis \subseteq i.vis
    PROVE  IInv'
<1>1. write \in [Writer -> Delivery]
  BY Zenon DEF IInv, TypeOK
<1>2. write' \in [Writer -> Delivery] /\ \A v \in Writer : write'[v] = write[v] \/ write'[v] = d
  BY <1>1, Zenon
<1>3. TypeOK'
  BY <1>2, Zenon DEF IInv, TypeOK
<1>4. Known'
  <2>1. \A v \in Writer : write'[v].ins \subseteq Ids(rows)
    BY <1>2, Zenon DEF IInv, Known
  <2> QED BY <2>1, Zenon DEF IInv, Known
<1>5. Plain'
  <2>1. \A v \in Writer : write'[v].doc = Mirrored => write'[v].ins = {}
    BY <1>2, Zenon DEF IInv, Plain
  <2> QED BY <2>1, Zenon DEF IInv, Plain
<1>6. PendingNarrows'
  <2> SUFFICES ASSUME NEW v \in Writer, NEW i \in rows, i.id \in write'[v].ins, i.id \notin touched
               PROVE  write'[v].vis \subseteq i.vis
    BY Zenon DEF PendingNarrows
  <2> QED BY <1>2, Zenon DEF IInv, PendingNarrows
<1>7. NoStaleTail' /\ LineageNarrows'
  BY Zenon DEF IInv, NoStaleTail, LineageNarrows
<1>8. SweptClean' /\ Ahead'
  BY Zenon DEF IInv, SweptClean, Ahead
<1>9. BriefHasAll' /\ RefreshHasAll'
  BY Zenon DEF IInv, BriefHasAll, RefreshHasAll, About, Open
<1> QED BY <1>3, <1>4, <1>5, <1>6, <1>7, <1>8, <1>9, Zenon DEF IInv

LEMMA IngestStep ==
    ASSUME IInv, NEW w \in Writer, NEW from \in 1..MaxTime, NEW size \in 0..MaxSize,
           NEW vis \in Audience, NEW tag \in BOOLEAN, IngestDocument(w, from, size, vis, tag)
    PROVE  IInv'
<1> DEFINE d == [doc |-> Mirrored, from |-> from, size |-> size, ep |-> eps',
                 vis |-> vis, tag |-> tag, ins |-> {}]
<1>1. /\ eps < MaxEpisodes /\ eps' = eps + 1 /\ write' = [write EXCEPT ![w] = d]
      /\ UNCHANGED <<rows, acts, brief, refresh, raced, sweep, touched>>
  BY Zenon DEF IngestDocument, InsertEpisode
<1>2. eps' \in 0..MaxEpisodes
  BY <1>1, DocumentAssumption DEF IInv, TypeOK
<1>3. vis \in SUBSET Principal
  BY DocumentAssumption, Zenon
<1>4. d \in Delivery
  <2>1. Mirrored \in 0..MaxEpisodes
    BY DocumentAssumption DEF Mirrored
  <2> QED BY <1>2, <1>3, <2>1 DEF Delivery
<1>5. d.ins = {}
  BY Zenon
<1> HIDE DEF d
<1> QED BY <1>1, <1>2, <1>4, <1>5, WriteStep, Zenon

LEMMA RememberStep ==
    ASSUME IInv, NEW w \in Writer, NEW scope \in SUBSET Principal, NEW inputs \in SUBSET Resolvable(scope),
           NEW vis \in Audience \union {Ceiling(scope, inputs)}, Remember(w, scope, inputs, vis)
    PROVE  IInv'
<1> DEFINE d == [doc |-> eps', from |-> 1, size |-> 1, ep |-> eps',
                 vis |-> vis, tag |-> TRUE, ins |-> Ids(inputs)]
<1>1. /\ eps < MaxEpisodes /\ eps' = eps + 1 /\ write' = [write EXCEPT ![w] = d]
      /\ vis \subseteq Ceiling(scope, inputs)
      /\ UNCHANGED <<rows, acts, brief, refresh, raced, sweep, touched>>
  BY Zenon DEF Remember, InsertEpisode
<1>2. eps' \in 0..MaxEpisodes /\ eps' # 0
  BY <1>1, DocumentAssumption DEF IInv, TypeOK
<1>3. inputs \in SUBSET rows
  BY Zenon DEF Resolvable, Open
<1>4. Ids(inputs) \subseteq Ids(rows) /\ Ids(inputs) \subseteq Id
  BY <1>3, IdsAre, Zenon DEF IInv
<1>5. vis \in SUBSET Principal
  BY <1>1, Zenon DEF Ceiling, Intersection
<1>6. d \in Delivery
  <2>1. 1 \in 1..MaxTime /\ 1 \in 0..MaxSize
    BY DocumentAssumption
  <2> QED BY <1>2, <1>4, <1>5, <2>1 DEF Delivery
<1>7. d.ins = Ids(inputs) /\ d.doc # Mirrored /\ d.vis = vis
  BY <1>2 DEF Mirrored
<1>8. \A i \in rows : i.id \in Ids(inputs) => vis \subseteq i.vis
  <2> SUFFICES ASSUME NEW i \in rows, i.id \in Ids(inputs) PROVE vis \subseteq i.vis
    BY Zenon
  <2>1. PICK j \in inputs : j.id = i.id
    BY Zenon DEF Ids
  <2>2. j = i
    BY <1>3, <2>1, Zenon DEF IInv, TypeOK
  <2>3. vis \subseteq Intersection(inputs)
    BY <1>1, <2>1, Zenon DEF Ceiling
  <2> QED BY <2>1, <2>2, <2>3, Zenon DEF Intersection
<1> HIDE DEF d
<1>9. \A i \in rows : (i.id \in d.ins /\ i.id \notin touched) => d.vis \subseteq i.vis
  BY <1>7, <1>8, Zenon
<1>10. d.ins \subseteq Ids(rows) /\ (d.doc = Mirrored => d.ins = {})
  BY <1>4, <1>7, Zenon
<1> QED BY <1>1, <1>2, <1>6, <1>9, <1>10, WriteStep, Zenon

\* A refresh changes the brief only.
LEMMA RefreshStep ==
    ASSUME IInv, RefreshRead \/ RefreshActs \/ RefreshWrite
    PROVE  IInv'
<1>1. UNCHANGED <<rows, eps, write, acts, sweep, touched>>
  BY Zenon DEF RefreshRead, RefreshActs, RefreshWrite
<1>2. Known' /\ Plain' /\ NoStaleTail' /\ LineageNarrows' /\ PendingNarrows'
  BY <1>1, Zenon DEF IInv, Known, Plain, NoStaleTail, LineageNarrows, PendingNarrows
<1>3. SweptClean' /\ Ahead'
  BY <1>1, Zenon DEF IInv, SweptClean, Ahead
<1>4. Ids(About)' = Ids(About)
  BY <1>1, Zenon DEF About, Open, Ids
<1> SUFFICES TypeOK' /\ BriefHasAll' /\ RefreshHasAll'
  BY <1>2, <1>3, Zenon DEF IInv
<1>5. CASE RefreshRead
  <2>1. /\ ~brief.made \/ brief.stale
        /\ refresh' = [at |-> "chunks", mem |-> Ids(About), vis |-> Intersection(About)]
        /\ raced' = FALSE /\ brief' = brief
    BY <1>5, Zenon DEF RefreshRead
  <2>2. Ids(About) \subseteq Id /\ Intersection(About) \in SUBSET Principal
    <3>1. About \in SUBSET rows
      BY Zenon DEF About, Open
    <3> QED BY <3>1, IdsAre, Zenon DEF IInv, Intersection
  <2>3. refresh' \in [at : {"idle", "chunks", "acts"}, mem : SUBSET Id, vis : SUBSET Principal]
    BY <2>1, <2>2
  <2>4. TypeOK'
    BY <1>1, <2>1, <2>3, Zenon DEF IInv, TypeOK
  <2>5. BriefHasAll'
    BY <2>1, Zenon DEF BriefHasAll
  <2>6. refresh'.mem = Ids(About)
    BY <2>1, Zenon
  <2>7. RefreshHasAll'
    BY <1>4, <2>6, Zenon DEF RefreshHasAll
  <2> QED BY <2>4, <2>5, <2>7, Zenon
<1>6. CASE RefreshActs
  <2> DEFINE v == IF refresh.mem = {} /\ acts = {} THEN {}
                  ELSE {p \in refresh.vis : \A a \in acts : p \in a}
  <2>1. /\ refresh.at = "chunks" /\ refresh' = [refresh EXCEPT !.at = "acts", !.vis = v]
        /\ brief' = brief /\ raced' = raced
    BY <1>6, Zenon DEF RefreshActs
  <2>2. refresh \in [at : {"idle", "chunks", "acts"}, mem : SUBSET Id, vis : SUBSET Principal]
    BY Zenon DEF IInv, TypeOK
  <2>3. v \in SUBSET Principal
    BY <2>2
  <2> HIDE DEF v
  <2>4. /\ refresh' \in [at : {"idle", "chunks", "acts"}, mem : SUBSET Id, vis : SUBSET Principal]
        /\ refresh'.mem = refresh.mem
    BY <2>1, <2>2, <2>3, Zenon
  <2>5. TypeOK'
    BY <1>1, <2>1, <2>4, Zenon DEF IInv, TypeOK
  <2>6. BriefHasAll'
    BY <1>4, <2>1, Zenon DEF BriefHasAll, IInv
  <2>7. refresh.at # "idle"
    BY <2>1
  <2>8. RefreshHasAll'
    BY <1>4, <2>1, <2>4, <2>7, Zenon DEF RefreshHasAll, IInv
  <2> QED BY <2>5, <2>6, <2>8, Zenon
<1>7. CASE RefreshWrite
  <2>1. /\ refresh.at = "acts" /\ raced' = raced
        /\ brief' = [made |-> TRUE, body |-> refresh.mem, vis |-> refresh.vis, stale |-> FALSE]
        /\ refresh' = [at |-> "idle", mem |-> {}, vis |-> {}]
    BY <1>7, Zenon DEF RefreshWrite
  <2>2. refresh.at # "idle" /\ refresh'.at = "idle"
    BY <2>1
  <2>3. brief'.body = refresh.mem
    BY <2>1, Zenon
  <2>4. TypeOK'
    <3>1. /\ refresh' \in [at : {"idle", "chunks", "acts"}, mem : SUBSET Id, vis : SUBSET Principal]
          /\ brief' \in [made : BOOLEAN, body : SUBSET Id, vis : SUBSET Principal, stale : BOOLEAN]
      BY <2>1 DEF IInv, TypeOK
    <3> QED BY <1>1, <2>1, <3>1, Zenon DEF IInv, TypeOK
  <2>5. BriefHasAll'
    BY <1>4, <2>1, <2>2, <2>3, Zenon DEF BriefHasAll, RefreshHasAll, IInv
  <2>6. RefreshHasAll'
    BY <2>2, Zenon DEF RefreshHasAll
  <2> QED BY <2>4, <2>5, <2>6, Zenon
<1> QED BY <1>5, <1>6, <1>7, Zenon

-----------------------------------------------------------------------------
(* The theorems *)

LEMMA InitHolds ==
    Init => IInv
<1> SUFFICES ASSUME Init PROVE IInv
  OBVIOUS
<1>1. /\ rows = {} /\ eps = 0 /\ acts = {} /\ raced = FALSE /\ touched = {}
      /\ write = [w \in Writer |-> NoWrite] /\ sweep = NoSweep
      /\ brief = [made |-> FALSE, body |-> {}, vis |-> {}, stale |-> FALSE]
      /\ refresh = [at |-> "idle", mem |-> {}, vis |-> {}]
  BY Zenon DEF Init
<1>2. NoWrite \in Delivery /\ NoWrite.ins = {}
  BY DocumentAssumption DEF NoWrite, Delivery, Mirrored
<1>3. (CHOOSE p \in Principal : TRUE) \in Principal
  BY DocumentAssumption, Zenon
<1>4. /\ sweep \in [on : BOOLEAN, tok : Principal, last : Nat, due : SUBSET Id]
      /\ sweep.due = {} /\ ~sweep.on
  BY <1>1, <1>3 DEF NoSweep
<1>5. TypeOK
  <2>1. /\ brief \in [made : BOOLEAN, body : SUBSET Id, vis : SUBSET Principal, stale : BOOLEAN]
        /\ refresh \in [at : {"idle", "chunks", "acts"}, mem : SUBSET Id, vis : SUBSET Principal]
        /\ eps \in 0..MaxEpisodes
    BY <1>1, DocumentAssumption
  <2>2. write \in [Writer -> Delivery]
    BY <1>1, <1>2, Zenon
  <2> QED BY <1>1, <1>4, <2>1, <2>2, Zenon DEF TypeOK
<1>6. Known /\ Plain
  <2>1. 0 \in Nat /\ \A w \in Writer : write[w].ins = {}
    BY <1>1, <1>2
  <2> QED BY <1>1, <1>4, <2>1, Zenon DEF Known, Plain
<1>7. NoStaleTail /\ LineageNarrows /\ PendingNarrows /\ SweptClean /\ Ahead
  BY <1>1, <1>4, Zenon DEF NoStaleTail, LineageNarrows, PendingNarrows, SweptClean, Ahead
<1>8. BriefHasAll /\ RefreshHasAll
  BY <1>1, Zenon DEF BriefHasAll, RefreshHasAll
<1> QED BY <1>5, <1>6, <1>7, <1>8, Zenon DEF IInv

LEMMA StepHolds ==
    IInv /\ [Next]_vars => IInv'
<1> SUFFICES ASSUME IInv, [Next]_vars PROVE IInv'
  OBVIOUS
<1>1. ASSUME NEW w \in Writer, UpsertChunks(w) PROVE IInv'
  BY <1>1, UpsertStep, Zenon
<1>2. ASSUME NEW w \in Writer, NEW from \in 1..MaxTime, NEW size \in 0..MaxSize,
             NEW vis \in Audience, NEW tag \in BOOLEAN, IngestDocument(w, from, size, vis, tag)
      PROVE  IInv'
  BY <1>2, IngestStep, Zenon
<1>3. ASSUME NEW w \in Writer, NEW scope \in SUBSET Principal,
             NEW inputs \in SUBSET Resolvable(scope),
             NEW vis \in Audience \union {Ceiling(scope, inputs)}, Remember(w, scope, inputs, vis)
      PROVE  IInv'
  BY <1>3, RememberStep, Zenon
<1>4. ASSUME NEW vis \in Audience, RecordAction(vis) PROVE IInv'
  BY <1>4, RecordStep, Zenon
<1>5. ASSUME NEW vis \in Audience, CorrectChunkAcl(vis) PROVE IInv'
  BY <1>5, CorrectStep, Zenon
<1>6. CASE RetireDocument
  BY <1>6, RetireStep, Zenon
<1>7. CASE ForgetChunk
  <2>1. PICK c \in Open : Forget({c})
    BY <1>7, Zenon DEF ForgetChunk
  <2>2. {c} \in SUBSET rows
    BY Zenon DEF Open
  <2> QED BY <2>1, <2>2, ForgetStep, Zenon
<1>8. CASE ForgetEpisode
  <2>1. PICK e \in 1..eps : Forget({c \in Open : c.ep = e})
    BY <1>8, Zenon DEF ForgetEpisode
  <2>2. {c \in Open : c.ep = e} \in SUBSET rows
    BY Zenon DEF Open
  <2> QED BY <2>1, <2>2, ForgetStep, Zenon
<1>9. ASSUME NEW p \in Leaver, RetractToken(p) PROVE IInv'
  BY <1>9, RetractStep, Zenon
<1>10. CASE SweepBatch
  BY <1>10, SweepStep, Zenon
<1>11. CASE RefreshRead \/ RefreshActs \/ RefreshWrite
  BY <1>11, RefreshStep, Zenon
<1>12. CASE UNCHANGED vars
  BY <1>12, Zenon DEF vars, IInv, TypeOK, Known, Plain, NoStaleTail, LineageNarrows,
     PendingNarrows, SweptClean, Ahead, BriefHasAll, RefreshHasAll, About, Open
<1> QED BY <1>1, <1>2, <1>3, <1>4, <1>5, <1>6, <1>7, <1>8, <1>9, <1>10, <1>11, <1>12, Zenon DEF Next

\* The inductive invariant of the chunk store.
THEOREM Invariance == Spec => []IInv
BY InitHolds, StepHolds, PTL DEF Spec

\* Every row, delivery, brief and sweep has its type, and an id is the id of one
\* chunk, whatever upsert_chunks, record_action and the withdrawals do.
THEOREM TypeCorrect == Spec => []TypeOK
<1>1. IInv => TypeOK
  BY Zenon DEF IInv
<1> QED BY <1>1, Invariance, PTL

\* upsert_chunks: an older version of a mirrored document is open beside a newer
\* one only if it was delivered after it, for any number of writers, versions
\* and chunks.
THEOREM NoTailLeft == Spec => []NoStaleTail
<1>1. IInv => NoStaleTail
  BY Zenon DEF IInv
<1> QED BY <1>1, Invariance, PTL

\* remember and retract_token_from_chunks: nobody is in the audience of a chunk
\* whom its lineage or a finished sweep keeps out, whatever the batch size and
\* whatever is written between the batches.
THEOREM AudiencesHold == Spec => []AudienceHolds
<1>1. IInv => AudienceHolds
  BY Zenon DEF IInv, AudienceHolds
<1> QED BY <1>1, Invariance, PTL

\* mark_briefs_stale_tx and refresh_brief: a brief that claims to be current has
\* every open chunk of its entity in it, unless a write raced its refresh.
THEOREM BriefsComplete == Spec => []BriefHasAll
<1>1. IInv => BriefHasAll
  BY Zenon DEF IInv
<1> QED BY <1>1, Invariance, PTL

=============================================================================
