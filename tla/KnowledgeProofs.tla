--------------------------- MODULE KnowledgeProofs ---------------------------
(***************************************************************************)
(* The safety properties of the knowledge plane, proved for any finite set *)
(* of episodes and any number of workers, items and failures.  What makes  *)
(* them inductive: an item's counter is the count of its evidence (so the  *)
(* gate of publish_knowledge looks at the evidence), a worker that is      *)
(* about to write marked its episode first and is the only one to do so,   *)
(* and a worker's task names an episode and an item that are there.        *)
(***************************************************************************)
EXTENDS Knowledge, FiniteSetTheorems, SequenceTheorems, WellFoundedInduction, TLAPS

\* What holds of every item: the counter is the count of its evidence, a chunk
\* exists once it was published, and an open one is supported.
Sound(item) ==
    /\ item.distinct = Entities(item.ev)
    /\ (item.chunk # None) <=> (item.status \in {"published", "invalidated"})
    /\ item.chunk = "open" => (item.status = "published" /\ Entities(item.ev) >= KMin)

\* What a worker holds at each stage is there.
Grounded(task, known, places) ==
    /\ task.at # "rest" => task.ep \in known
    /\ task.at \in {"find", "merge", "propose"} => task.text \in Statement
    /\ task.at \in {"merge", "promote", "promoted"} => task.item \in places

\* The payload of an episode is written, or about to be, by one worker, after the
\* episode was marked.
Once ==
    /\ \A e \in Episode : wrote[e] <= 1 /\ (wrote[e] = 1 => lease[e] = "processed")
    /\ \A w \in Worker : work[w].at = "facts" =>
          lease[work[w].ep] = "processed" /\ wrote[work[w].ep] = 0
    /\ \A v, w \in Worker :
          (work[v].at = "facts" /\ work[w].at = "facts" /\ work[v].ep = work[w].ep) => v = w

ItemsOK ==
    /\ items \in Seq(Item) /\ Len(items) <= MaxItems
    /\ \A k \in DOMAIN items : items[k].ev \subseteq cited /\ Sound(items[k])

WorkOK == work \in [Worker -> Task] /\ \A w \in Worker : Grounded(work[w], cited, DOMAIN items)

IInv ==
    /\ ItemsOK /\ WorkOK /\ Once /\ cited \subseteq Episode
    /\ lease \in [Episode -> {"none", "held", "lapsed", "processed"}]
    /\ wrote \in [Episode -> Nat]
    /\ proposal \in 0..Len(items) /\ faults \in 0..MaxFaults

-----------------------------------------------------------------------------
(* Counting evidence *)

\* The image of a finite set is finite.
LEMMA ImageIsFinite ==
    ASSUME NEW S, IsFiniteSet(S), NEW f
    PROVE  IsFiniteSet({f[x] : x \in S})
<1> DEFINE g == [x \in S |-> f[x]]
           T == {f[x] : x \in S}
<1>1. g \in Surjection(S, T)
  BY DEF Surjection
<1> QED BY <1>1, FS_Surjection, Zenon

LEMMA EntitiesCount ==
    ASSUME NEW ev \in SUBSET Episode
    PROVE  Entities(ev) \in Nat /\ Writers(ev) \in Nat
<1>1. IsFiniteSet(ev)
  BY KnowledgeAssumption, FS_Subset, Zenon
<1>2. IsFiniteSet({EntityOf[e] : e \in ev}) /\ IsFiniteSet({WriterOf[e] : e \in ev})
  BY <1>1, ImageIsFinite, Zenon
<1> QED BY <1>2, FS_CardinalityType, Zenon DEF Entities, Writers

\* More evidence never has fewer entities.
LEMMA EntitiesGrow ==
    ASSUME NEW all \in SUBSET Episode, NEW ev \in SUBSET all
    PROVE  Entities(ev) <= Entities(all)
<1>1. IsFiniteSet(all)
  BY KnowledgeAssumption, FS_Subset, Zenon
<1>2. IsFiniteSet({EntityOf[e] : e \in all})
  BY <1>1, ImageIsFinite, Zenon
<1>3. {EntityOf[e] : e \in ev} \in SUBSET {EntityOf[e] : e \in all}
  BY Zenon
<1> QED BY <1>2, <1>3, FS_Subset, Zenon DEF Entities

-----------------------------------------------------------------------------
(* What is done to an item *)

LEMMA BucketType == \A n : Bucket(n) \in {None, "emerging", "established"}
BY Zenon DEF Bucket

LEMMA MovedSound ==
    ASSUME NEW item \in Item, Sound(item), item.status \in {"candidate", "eligible"},
           NEW status \in {"eligible", "rejected"}
    PROVE  /\ Moved(item, status) \in Item /\ Sound(Moved(item, status))
           /\ Moved(item, status).ev = item.ev
<1>1. item.chunk = None
  BY Zenon DEF Sound
<1>2. status \in Status /\ status \notin {"published", "invalidated"}
  BY DEF Status
<1>3. Moved(item, status) \in Item
  BY <1>2 DEF Moved, Item
<1>4. /\ Moved(item, status).ev = item.ev /\ Moved(item, status).distinct = item.distinct
      /\ Moved(item, status).chunk = item.chunk /\ Moved(item, status).status = status
  BY DEF Moved, Item
<1>5. None # "open"
  BY DEF None
<1> HIDE DEF None
<1> QED BY <1>1, <1>2, <1>3, <1>4, <1>5, Zenon DEF Sound

LEMMA PublishedSound ==
    ASSUME NEW item \in Item, Sound(item), Publishable(item)
    PROVE  /\ Published(item) \in Item /\ Sound(Published(item)) /\ Published(item).ev = item.ev
<1>1. Published(item) \in Item
  <2>1. Bucket(item.distinct) \in {None, "emerging", "established"}
    BY BucketType, Zenon
  <2> QED BY <2>1, Zenon DEF Published, Item, Status
<1>2. /\ Published(item).ev = item.ev /\ Published(item).distinct = item.distinct
      /\ Published(item).chunk = "open" /\ Published(item).status = "published"
  BY DEF Published, Item
<1>3. "open" # None
  BY DEF None
<1>4. Entities(item.ev) >= KMin
  BY Zenon DEF Publishable, Supported, Sound
<1> HIDE DEF None
<1> QED BY <1>1, <1>2, <1>3, <1>4, Zenon DEF Sound

LEMMA RetiredSound ==
    ASSUME NEW item \in Item, Sound(item), item.chunk = "open"
    PROVE  Retired(item) \in Item /\ Sound(Retired(item)) /\ Retired(item).ev = item.ev
<1>1. Retired(item) \in Item
  BY DEF Retired, Item
<1>2. /\ Retired(item).ev = item.ev /\ Retired(item).distinct = item.distinct
      /\ Retired(item).chunk = "closed" /\ Retired(item).status = item.status
  BY DEF Retired, Item
<1>3. "closed" # None /\ "open" # None /\ "closed" # "open"
  BY DEF None
<1> QED BY <1>1, <1>2, <1>3, Zenon DEF Sound

\* Counting again over more evidence.
LEMMA RecountedSound ==
    ASSUME NEW item \in Item, NEW all \in SUBSET Episode, item.ev \subseteq all,
           (item.chunk # None) <=> (item.status \in {"published", "invalidated"}),
           item.chunk = "open" => (item.status = "published" /\ Entities(item.ev) >= KMin)
    PROVE  /\ Recounted(item, all) \in Item /\ Sound(Recounted(item, all))
           /\ Recounted(item, all).ev = all /\ Recounted(item, all).status = item.status
           /\ Recounted(item, all).chunk = item.chunk
<1>1. Entities(all) \in Nat /\ Writers(all) \in Nat
  BY EntitiesCount, Zenon
<1>2. Recounted(item, all) \in Item
  BY <1>1, Zenon DEF Recounted, Item
<1>3. /\ Recounted(item, all).ev = all /\ Recounted(item, all).distinct = Entities(all)
      /\ Recounted(item, all).status = item.status /\ Recounted(item, all).chunk = item.chunk
  BY DEF Recounted, Item
<1>4. Entities(item.ev) >= KMin => Entities(all) >= KMin
  <2>1. Entities(item.ev) <= Entities(all) /\ Entities(item.ev) \in Nat
    BY EntitiesGrow, EntitiesCount, Zenon
  <2> QED BY KnowledgeAssumption, <1>1, <2>1
<1> QED BY <1>2, <1>3, <1>4, Zenon DEF Sound

LEMMA NewSound ==
    ASSUME NEW text \in Statement, NEW canon \in Canon, NEW ev \in SUBSET Episode
    PROVE  /\ NewItem(text, canon, ev) \in Item /\ Sound(NewItem(text, canon, ev))
           /\ NewItem(text, canon, ev).ev = ev /\ NewItem(text, canon, ev).canon = canon
<1> DEFINE item == [text |-> text, canon |-> canon,
                    status |-> IF text \in Naming THEN "quarantined" ELSE "candidate",
                    ev |-> {}, distinct |-> 0, writers |-> 0, tier1 |-> FALSE,
                    chunk |-> None, tier |-> None]
<1>1. NewItem(text, canon, ev) = Recounted(item, ev)
  BY Zenon DEF NewItem
<1>2. item \in Item
  BY DEF Item, Status
<1>3. /\ item.ev \subseteq ev /\ item.chunk = None /\ item.canon = canon
      /\ item.status \notin {"published", "invalidated"} /\ None # "open"
  BY DEF None
<1> HIDE DEF item, None
<1>4. (item.chunk # None) <=> (item.status \in {"published", "invalidated"})
  BY <1>3, Zenon
<1>5. item.chunk = "open" => (item.status = "published" /\ Entities(item.ev) >= KMin)
  BY <1>3, Zenon
<1>6. /\ Recounted(item, ev) \in Item /\ Sound(Recounted(item, ev)) /\ Recounted(item, ev).ev = ev
  BY <1>2, <1>3, <1>4, <1>5, RecountedSound
<1>7. Recounted(item, ev).canon = canon
  BY <1>2, <1>3 DEF Recounted, Item
<1> QED BY <1>1, <1>6, <1>7, Zenon

LEMMA MergedSound ==
    ASSUME NEW item \in Item, Sound(item), NEW ev \in SUBSET Episode
    PROVE  Merged(item, ev) \in Item /\ Sound(Merged(item, ev)) /\ Merged(item, ev).ev = item.ev \union ev
<1> DEFINE all == Recounted(item, item.ev \union ev)
           tier == IF item.status = "published" /\ item.chunk = "open"
                   THEN Bucket(all.distinct) ELSE all.tier
           sticks == all.tier1 \/ item.tier1
<1>1. item.ev \union ev \in SUBSET Episode
  BY DEF Item
<1>2. all \in Item /\ Sound(all) /\ all.ev = item.ev \union ev
  BY <1>1, RecountedSound, Zenon DEF Sound
<1>3. tier \in {None, "emerging", "established"} /\ sticks \in BOOLEAN
  <2>1. all.tier \in {None, "emerging", "established"}
    BY <1>2, Zenon DEF Item
  <2> QED BY <2>1, BucketType, Zenon
<1>4. Merged(item, ev) = [all EXCEPT !.tier1 = sticks, !.tier = tier]
  BY Zenon DEF Merged
<1> HIDE DEF all, tier, sticks
<1>5. Merged(item, ev) \in Item
  BY <1>2, <1>3, <1>4, Zenon DEF Item
<1>6. /\ Merged(item, ev).ev = all.ev /\ Merged(item, ev).distinct = all.distinct
      /\ Merged(item, ev).chunk = all.chunk /\ Merged(item, ev).status = all.status
  BY <1>2, <1>4 DEF Item
<1> QED BY <1>2, <1>5, <1>6, Zenon DEF Sound

LEMMA WithdrawnSound ==
    ASSUME NEW item \in Item, Sound(item), NEW e \in Episode
    PROVE  Withdrawn(item, e) \in Item /\ Sound(Withdrawn(item, e)) /\ Withdrawn(item, e).ev \subseteq item.ev
<1> DEFINE ev == item.ev \ {e}
           below == item.status = "published" /\ Entities(ev) < KMin
<1>1. CASE e \notin item.ev
  BY <1>1, Zenon DEF Withdrawn
<1>2. CASE e \in item.ev
  <2> DEFINE status == IF below THEN "invalidated" ELSE item.status
             chunk == IF below THEN "closed" ELSE item.chunk
             out == [item EXCEPT !.ev = ev, !.distinct = Entities(ev), !.status = status, !.chunk = chunk]
  <2>1. Withdrawn(item, e) = out
    BY <1>2, Zenon DEF Withdrawn
  <2>2. ev \in SUBSET Episode
    BY DEF Item
  <2>3. Entities(ev) \in Nat /\ KMin \in Nat
    BY KnowledgeAssumption, <2>2, EntitiesCount, Zenon
  <2>4. status \in Status /\ chunk \in {None, "open", "closed"}
    BY DEF Item, Status
  <2>5. below \/ item.status # "published" \/ Entities(ev) >= KMin
    <3> HIDE DEF ev
    <3> QED BY <2>3
  <2>6. (chunk # None) <=> (status \in {"published", "invalidated"})
    <3>1. CASE below
      BY <3>1 DEF None
    <3>2. CASE ~below
      BY <3>2, Zenon DEF Sound
    <3> QED BY <3>1, <3>2, Zenon
  <2>7. chunk = "open" => status = "published" /\ Entities(ev) >= KMin
    <3>1. CASE below
      BY <3>1
    <3>2. CASE ~below
      BY <3>2, <2>5, Zenon DEF Sound
    <3> QED BY <3>1, <3>2, Zenon
  <2> HIDE DEF status, chunk, ev
  <2>8. out \in Item
    BY <2>2, <2>3, <2>4, Zenon DEF Item
  <2>9. out.ev = ev /\ out.distinct = Entities(ev) /\ out.status = status /\ out.chunk = chunk
    BY DEF Item
  <2>10. Sound(out)
    BY <2>6, <2>7, <2>9, Zenon DEF Sound
  <2>11. ev \subseteq item.ev
    BY Zenon DEF ev
  <2> QED BY <2>1, <2>8, <2>9, <2>10, <2>11, Zenon
<1> QED BY <1>1, <1>2, Zenon

-----------------------------------------------------------------------------
(* What is done to the items *)

LEMMA Items ==
    ASSUME ItemsOK
    PROVE  /\ Len(items) \in Nat /\ DOMAIN items = 1..Len(items)
           /\ \A k \in DOMAIN items : items[k] \in Item
BY LenProperties, ElementOfSeq, Zenon DEF ItemsOK

LEMMA ItemsSame ==
    ASSUME ItemsOK, UNCHANGED items, cited \subseteq cited'
    PROVE  ItemsOK' /\ DOMAIN items' = DOMAIN items /\ Len(items') = Len(items)
BY Zenon DEF ItemsOK

LEMMA ItemReplaced ==
    ASSUME ItemsOK, NEW k \in DOMAIN items, NEW x \in Item, Sound(x),
           items' = [items EXCEPT ![k] = x], x.ev \subseteq cited', cited \subseteq cited'
    PROVE  ItemsOK' /\ DOMAIN items' = DOMAIN items /\ Len(items') = Len(items)
<1>1. items \in Seq(Item) /\ k \in 1..Len(items) /\ DOMAIN items = 1..Len(items)
  BY Items, Zenon DEF ItemsOK
<1>2. /\ items' \in Seq(Item) /\ Len(items') = Len(items)
      /\ \A j \in 1..Len(items) : items'[j] = IF j = k THEN x ELSE items[j]
  BY <1>1, ExceptSeq, Zenon
<1>3. DOMAIN items' = 1..Len(items)
  BY <1>2, LenProperties, Zenon
<1>4. \A j \in DOMAIN items' : items'[j].ev \subseteq cited' /\ Sound(items'[j])
  BY <1>1, <1>2, <1>3, Zenon DEF ItemsOK
<1> QED BY <1>1, <1>2, <1>3, <1>4, Zenon DEF ItemsOK

LEMMA ItemAppended ==
    ASSUME ItemsOK, NEW x \in Item, Sound(x), Len(items) + 1 <= MaxItems,
           items' = Append(items, x), x.ev \subseteq cited', cited \subseteq cited'
    PROVE  /\ ItemsOK' /\ DOMAIN items' = 1..(Len(items) + 1) /\ Len(items') = Len(items) + 1
           /\ items'[Len(items) + 1] = x
           /\ \A j \in DOMAIN items : items'[j] = items[j]
<1>1. items \in Seq(Item) /\ Len(items) \in Nat /\ DOMAIN items = 1..Len(items)
  BY Items, Zenon DEF ItemsOK
<1>2. /\ items' \in Seq(Item) /\ Len(items') = Len(items) + 1
      /\ \A j \in 1..Len(items) : items'[j] = items[j]
      /\ items'[Len(items) + 1] = x
  BY <1>1, AppendProperties
<1>3. DOMAIN items' = 1..(Len(items) + 1)
  BY <1>2, LenProperties, Zenon
<1>4. ASSUME NEW j \in DOMAIN items'
      PROVE  items'[j].ev \subseteq cited' /\ Sound(items'[j])
  <2>1. j \in 1..Len(items) \/ j = Len(items) + 1
    BY <1>1, <1>3
  <2> QED BY <1>1, <1>2, <2>1, Zenon DEF ItemsOK
<1> QED BY <1>1, <1>2, <1>3, <1>4, Zenon DEF ItemsOK

LEMMA ItemsWithdrawn ==
    ASSUME ItemsOK, NEW e \in Episode, UNCHANGED cited,
           items' = [k \in DOMAIN items |-> Withdrawn(items[k], e)]
    PROVE  ItemsOK' /\ DOMAIN items' = DOMAIN items /\ Len(items') = Len(items)
<1>1. items \in Seq(Item) /\ Len(items) \in Nat /\ DOMAIN items = 1..Len(items)
  BY Items, Zenon DEF ItemsOK
<1>2. \A k \in DOMAIN items :
         /\ Withdrawn(items[k], e) \in Item /\ Sound(Withdrawn(items[k], e))
         /\ Withdrawn(items[k], e).ev \subseteq items[k].ev
  BY WithdrawnSound, Items, Zenon DEF ItemsOK
<1>3. items' \in [1..Len(items) -> Item]
  BY <1>1, <1>2, Zenon
<1>4. items' \in Seq(Item)
  BY <1>1, <1>3, SeqDef, Zenon
<1>5. DOMAIN items' = DOMAIN items /\ \A k \in DOMAIN items : items'[k] = Withdrawn(items[k], e)
  BY Zenon
<1>6. Len(items') = Len(items)
  <2>1. Len(items') \in Nat /\ DOMAIN items' = 1..Len(items')
    BY <1>4, LenProperties, Zenon
  <2> QED BY <1>1, <1>5, <2>1
<1>7. \A k \in DOMAIN items' : items'[k].ev \subseteq cited' /\ Sound(items'[k])
  BY <1>2, <1>5, Zenon DEF ItemsOK
<1> QED BY <1>1, <1>4, <1>5, <1>6, <1>7, Zenon DEF ItemsOK

\* A non-empty set of places has a first one.
LEMMA FirstIs ==
    ASSUME NEW ks \in SUBSET Nat, ks # {}
    PROVE  First(ks) \in ks
<1>1. PICK k \in ks : \A l \in ks : ~(<<l, k>> \in OpToRel(<, Nat))
  BY NatLessThanWellFounded, WFMin, Zenon
<1>2. \A l \in ks : k <= l
  <2> SUFFICES ASSUME NEW l \in ks PROVE ~(l < k)
    OBVIOUS
  <2> QED BY <1>1, Zenon DEF OpToRel
<1> QED BY <1>2, Zenon DEF First

\* propose_knowledge: where a proposal ends, and what it leaves alone.
LEMMA Proposed ==
    ASSUME ItemsOK, NEW text \in Statement, NEW canon \in Canon, NEW ev \in SUBSET Episode,
           NEW k \in 0..MaxItems, ProposeKnowledge(text, canon, ev, k),
           ev \subseteq cited', cited \subseteq cited', cited' \subseteq Episode
    PROVE  /\ ItemsOK' /\ DOMAIN items \subseteq DOMAIN items' /\ NotRevived
           /\ Len(items) <= Len(items') /\ (k # 0 => k \in DOMAIN items')
<1> DEFINE twins == IF text \in Naming THEN {} ELSE Twins(text, canon)
<1>1. Len(items) \in Nat /\ DOMAIN items = 1..Len(items) /\ \A j \in DOMAIN items : items[j] \in Item
  BY Items, Zenon
<1>2. CASE k = 0 /\ UNCHANGED items
  <2>1. ItemsOK' /\ DOMAIN items' = DOMAIN items /\ Len(items') = Len(items)
    BY <1>2, ItemsSame, Zenon
  <2>2. NotRevived
    BY <2>1, Zenon DEF NotRevived
  <2> QED BY <1>1, <1>2, <2>1, <2>2
<1>3. CASE /\ twins # {} /\ k = First(twins)
           /\ items' = [items EXCEPT ![k] = Recounted(items[k], items[k].ev \union ev)]
  <2> DEFINE x == Recounted(items[k], items[k].ev \union ev)
  <2>1. twins \subseteq DOMAIN items
    BY Zenon DEF Twins
  <2>2. DOMAIN items \subseteq Nat
    BY <1>1
  <2> HIDE DEF twins
  <2>3. k \in DOMAIN items
    BY <1>3, <2>1, <2>2, FirstIs, Zenon
  <2>4. items[k] \in Item /\ Sound(items[k]) /\ items[k].ev \subseteq cited
    BY <1>1, <2>3, Zenon DEF ItemsOK
  <2>5. items[k].ev \union ev \in SUBSET Episode
    BY <2>4, Zenon
  <2>6. x \in Item /\ Sound(x) /\ x.ev = items[k].ev \union ev
    BY <2>4, <2>5, RecountedSound, Zenon DEF Sound
  <2>7. x.ev \subseteq cited'
    BY <2>4, <2>6, Zenon
  <2>8. items' = [items EXCEPT ![k] = x]
    BY <1>3, Zenon
  <2> HIDE DEF x
  <2>9. ItemsOK' /\ DOMAIN items' = DOMAIN items /\ Len(items') = Len(items)
    BY <2>3, <2>6, <2>7, <2>8, ItemReplaced, Zenon
  <2>10. NotRevived
    BY <2>9, Zenon DEF NotRevived
  <2> QED BY <1>1, <2>3, <2>9, <2>10
<1>4. CASE /\ Remembered(text, canon) = {} /\ k = Len(items) + 1 /\ k <= MaxItems
           /\ items' = Append(items, NewItem(text, canon, ev))
  <2> DEFINE x == NewItem(text, canon, ev)
  <2>1. x \in Item /\ Sound(x) /\ x.ev = ev /\ x.canon = canon
    BY NewSound, SMT
  <2>2. items' = Append(items, x) /\ Len(items) + 1 <= MaxItems /\ x.ev \subseteq cited'
    BY <1>4, <2>1, Zenon
  <2> HIDE DEF x
  <2>3. /\ ItemsOK' /\ DOMAIN items' = 1..(Len(items) + 1) /\ Len(items') = Len(items) + 1
        /\ items'[Len(items) + 1] = x
    BY <2>1, <2>2, ItemAppended, Zenon
  <2>4. \A j \in DOMAIN items' \ DOMAIN items : j = Len(items) + 1
    BY <1>1, <2>3
  <2>5. \A j \in DOMAIN items' \ DOMAIN items : items'[j].canon = canon
    BY <2>1, <2>3, <2>4, Zenon
  <2>6. canon # None => \A l \in DOMAIN items : items[l].status = "rejected" => items[l].canon # canon
    BY <1>4, Zenon DEF Remembered
  <2>7. NotRevived
    BY <2>5, <2>6, Zenon DEF NotRevived
  <2> QED BY <1>1, <1>4, <2>3, <2>7
<1> QED BY <1>2, <1>3, <1>4, Zenon DEF ProposeKnowledge

-----------------------------------------------------------------------------
(* What is done by workers *)

LEMMA StillGrounded ==
    ASSUME NEW t, NEW known, NEW places, NEW more, NEW larger, Grounded(t, known, places),
           known \subseteq more, places \subseteq larger
    PROVE  Grounded(t, more, larger)
BY Zenon DEF Grounded

LEMMA WorkStays ==
    ASSUME WorkOK, UNCHANGED work, cited \subseteq cited', DOMAIN items \subseteq DOMAIN items'
    PROVE  WorkOK'
BY StillGrounded, Zenon DEF WorkOK

LEMMA WorkMoves ==
    ASSUME WorkOK, NEW w \in Worker, NEW t \in Task, work' = [work EXCEPT ![w] = t],
           cited \subseteq cited', DOMAIN items \subseteq DOMAIN items',
           Grounded(t, cited', DOMAIN items')
    PROVE  WorkOK' /\ work'[w] = t /\ \A v \in Worker : v # w => work'[v] = work[v]
<1>1. work \in [Worker -> Task]
  BY Zenon DEF WorkOK
<1>2. /\ work' \in [Worker -> Task] /\ work'[w] = t
      /\ \A v \in Worker : v # w => work'[v] = work[v]
  BY <1>1, Zenon
<1>3. \A v \in Worker : Grounded(work[v], cited', DOMAIN items')
  BY StillGrounded, Zenon DEF WorkOK
<1>4. \A v \in Worker : Grounded(work'[v], cited', DOMAIN items')
  BY <1>2, <1>3, Zenon
<1> QED BY <1>2, <1>4, Zenon DEF WorkOK

LEMMA RestIs ==
    Rest \in Task /\ Rest.at = "rest" /\ \A known, places : Grounded(Rest, known, places)
<1>1. Rest \in Task /\ Rest.at = "rest"
  BY KnowledgeAssumption DEF Rest, Task, Canon, None
<1>2. "rest" \notin {"find", "merge", "propose"} /\ "rest" \notin {"merge", "promote", "promoted"}
  OBVIOUS
<1> QED BY <1>1, <1>2, Zenon DEF Grounded

LEMMA StageIs ==
    ASSUME NEW t \in Task, NEW at \in {"facts", "promote", "promoted"}
    PROVE  /\ Stage(t, at) \in Task /\ Stage(t, at).at = at /\ Stage(t, at).ep = t.ep
           /\ Stage(t, at).item = t.item
BY DEF Stage, Task

LEMMA OnceStays ==
    ASSUME IInv, UNCHANGED wrote,
           \A e \in Episode : lease[e] = "processed" => lease'[e] = "processed",
           \A w \in Worker : work'[w].at = "facts" => work'[w] = work[w]
    PROVE  Once'
<1>1. \A w \in Worker : work[w].at = "facts" => work[w].ep \in Episode
  <2>1. "facts" # "rest"
    OBVIOUS
  <2> QED BY <2>1, Zenon DEF IInv, WorkOK, Grounded
<1>2. \A e \in Episode : wrote'[e] <= 1 /\ (wrote'[e] = 1 => lease'[e] = "processed")
  BY Zenon DEF IInv, Once
<1>3. ASSUME NEW w \in Worker, work'[w].at = "facts"
      PROVE  lease'[work'[w].ep] = "processed" /\ wrote'[work'[w].ep] = 0
  BY <1>1, <1>3, Zenon DEF IInv, Once
<1>4. ASSUME NEW v \in Worker, NEW w \in Worker,
             work'[v].at = "facts", work'[w].at = "facts", work'[v].ep = work'[w].ep
      PROVE  v = w
  BY <1>4, Zenon DEF IInv, Once
<1> QED BY <1>2, <1>3, <1>4, Zenon DEF Once

LEMMA Working ==
    ASSUME IInv, NEW w \in Worker
    PROVE  /\ work[w] \in Task /\ Grounded(work[w], cited, DOMAIN items)
           /\ work[w].at # "rest" => work[w].ep \in cited /\ work[w].ep \in Episode
<1>1. work[w] \in Task /\ Grounded(work[w], cited, DOMAIN items)
  BY Zenon DEF IInv, WorkOK
<1> QED BY <1>1, Zenon DEF IInv, Grounded

-----------------------------------------------------------------------------
(* The actions *)

LEMMA SamePlaces ==
    ASSUME DOMAIN items' = DOMAIN items
    PROVE  NotRevived
BY Zenon DEF NotRevived

\* A step that no worker takes.
LEMMA ItemStep ==
    ASSUME IInv, ItemsOK', DOMAIN items \subseteq DOMAIN items', cited \subseteq cited',
           cited' \subseteq Episode, UNCHANGED <<lease, wrote, work, faults>>,
           proposal' \in 0..Len(items')
    PROVE  IInv'
<1>1. WorkOK'
  BY WorkStays, Zenon DEF IInv
<1>2. Once'
  BY OnceStays, Zenon
<1> QED BY <1>1, <1>2, Zenon DEF IInv

LEMMA ReviewStep ==
    ASSUME IInv, NEW k \in DOMAIN items, Publish(k) \/ RejectKnowledge(k) \/ ForgetLesson(k)
    PROVE  IInv' /\ NotRevived
<1>1. UNCHANGED <<cited, lease, wrote, work, proposal, faults>>
  BY Zenon DEF Publish, RejectKnowledge, ForgetLesson
<1>2. items[k] \in Item /\ Sound(items[k]) /\ items[k].ev \subseteq cited
  BY Items, Zenon DEF IInv, ItemsOK
<1>3. ASSUME NEW x \in Item, Sound(x), x.ev = items[k].ev, items' = [items EXCEPT ![k] = x]
      PROVE  IInv' /\ NotRevived
  <2>1. x.ev \subseteq cited' /\ cited \subseteq cited' /\ cited' \subseteq Episode
    BY <1>1, <1>2, <1>3, Zenon DEF IInv
  <2>2. ItemsOK' /\ DOMAIN items' = DOMAIN items /\ Len(items') = Len(items)
    BY <1>3, <2>1, ItemReplaced, Zenon DEF IInv
  <2>3. proposal' \in 0..Len(items')
    BY <1>1, <2>2, Zenon DEF IInv
  <2> QED BY <1>1, <2>1, <2>2, <2>3, ItemStep, SamePlaces, Zenon
<1>4. CASE Publish(k)
  <2>1. Publishable(items[k]) /\ items' = [items EXCEPT ![k] = Published(items[k])]
    BY <1>4, Zenon DEF Publish, PublishKnowledge
  <2> QED BY <1>2, <1>3, <2>1, PublishedSound, Zenon
<1>5. CASE RejectKnowledge(k)
  <2>1. items[k].status \in {"candidate", "eligible"} /\ items' = [items EXCEPT ![k] = Moved(items[k], "rejected")]
    BY <1>5, Zenon DEF RejectKnowledge
  <2>2. "rejected" \in {"eligible", "rejected"}
    OBVIOUS
  <2> QED BY <1>2, <1>3, <2>1, <2>2, MovedSound, Zenon
<1>6. CASE ForgetLesson(k)
  <2>1. items[k].chunk = "open" /\ items' = [items EXCEPT ![k] = Retired(items[k])]
    BY <1>6, Zenon DEF ForgetLesson
  <2> QED BY <1>2, <1>3, <2>1, RetiredSound, Zenon
<1> QED BY <1>4, <1>5, <1>6, Zenon

LEMMA ForgetStep ==
    ASSUME IInv, NEW e \in Episode, ForgetEvidence(e)
    PROVE  IInv' /\ NotRevived
<1>1. /\ items' = [k \in DOMAIN items |-> Withdrawn(items[k], e)]
      /\ UNCHANGED <<cited, lease, wrote, work, proposal, faults>>
  BY Zenon DEF ForgetEvidence
<1>2. ItemsOK' /\ DOMAIN items' = DOMAIN items /\ Len(items') = Len(items)
  BY <1>1, ItemsWithdrawn, Zenon DEF IInv
<1>3. proposal' \in 0..Len(items') /\ cited \subseteq cited' /\ cited' \subseteq Episode
  BY <1>1, <1>2, Zenon DEF IInv
<1> QED BY <1>1, <1>2, <1>3, ItemStep, SamePlaces, Zenon

LEMMA LearningStep ==
    ASSUME IInv, NEW text \in Statement, NEW e \in Episode, ProposeLearning(text, e)
    PROVE  IInv' /\ NotRevived
<1>1. /\ cited' = cited \union {e} /\ UNCHANGED <<lease, wrote, work, faults>>
      /\ \E k \in 0..MaxItems : ProposeKnowledge(text, None, {e}, k) /\ (proposal' = k \/ proposal' = 0)
  BY Zenon DEF ProposeLearning
<1>2. PICK k \in 0..MaxItems : ProposeKnowledge(text, None, {e}, k) /\ (proposal' = k \/ proposal' = 0)
  BY <1>1, Zenon
<1>3. /\ None \in Canon /\ {e} \in SUBSET Episode /\ {e} \subseteq cited' /\ cited \subseteq cited'
      /\ cited' \subseteq Episode
  BY <1>1, Zenon DEF Canon, IInv
<1>4. /\ ItemsOK' /\ DOMAIN items \subseteq DOMAIN items' /\ NotRevived
      /\ Len(items) <= Len(items') /\ (k # 0 => k \in DOMAIN items')
  BY <1>2, <1>3, Proposed DEF IInv
<1>5. Len(items') \in Nat /\ DOMAIN items' = 1..Len(items')
  BY <1>4, LenProperties, Zenon DEF ItemsOK
<1>6. proposal' \in 0..Len(items')
  BY <1>2, <1>4, <1>5
<1> QED BY <1>1, <1>3, <1>4, <1>6, ItemStep, Zenon

\* mark_knowledge_eligible, or publish_knowledge by the promotion.
LEMMA Promoted ==
    ASSUME ItemsOK, NEW k \in DOMAIN items, UNCHANGED cited,
           MarkEligible(k) \/ PublishKnowledge(k)
    PROVE  ItemsOK' /\ DOMAIN items' = DOMAIN items /\ Len(items') = Len(items)
<1>1. items[k] \in Item /\ Sound(items[k]) /\ items[k].ev \subseteq cited
  BY Items, Zenon DEF ItemsOK
<1>2. CASE UNCHANGED items
  BY <1>2, ItemsSame, Zenon
<1>3. ASSUME NEW x \in Item, Sound(x), x.ev = items[k].ev, items' = [items EXCEPT ![k] = x]
      PROVE  ItemsOK' /\ DOMAIN items' = DOMAIN items /\ Len(items') = Len(items)
  <2>1. x.ev \subseteq cited' /\ cited \subseteq cited'
    BY <1>1, <1>3, Zenon
  <2> QED BY <1>3, <2>1, ItemReplaced, Zenon
<1>4. CASE items[k].status = "candidate" /\ items' = [items EXCEPT ![k] = Moved(items[k], "eligible")]
  <2>1. "eligible" \in {"eligible", "rejected"} /\ items[k].status \in {"candidate", "eligible"}
    BY <1>4
  <2> QED BY <1>1, <1>3, <1>4, <2>1, MovedSound, Zenon
<1>5. CASE Publishable(items[k]) /\ items' = [items EXCEPT ![k] = Published(items[k])]
  BY <1>1, <1>3, <1>5, PublishedSound, Zenon
<1> QED BY <1>2, <1>4, <1>5, Zenon DEF MarkEligible, PublishKnowledge

LEMMA ProposalStep ==
    ASSUME IInv, ProposalEligible
    PROVE  IInv' /\ NotRevived
<1>1. /\ proposal # 0 /\ MarkEligible(proposal) /\ proposal' = 0
      /\ UNCHANGED <<cited, lease, wrote, work, faults>>
  BY Zenon DEF ProposalEligible
<1>2. proposal \in DOMAIN items /\ Len(items) \in Nat
  <2>1. Len(items) \in Nat /\ DOMAIN items = 1..Len(items) /\ proposal \in 0..Len(items)
    BY Items, Zenon DEF IInv
  <2> QED BY <1>1, <2>1
<1>3. ItemsOK' /\ DOMAIN items' = DOMAIN items /\ Len(items') = Len(items)
  BY <1>1, <1>2, Promoted, Zenon DEF IInv
<1>4. proposal' \in 0..Len(items') /\ cited \subseteq cited' /\ cited' \subseteq Episode
  <2>1. 0 \in 0..Len(items')
    BY <1>2, <1>3
  <2> QED BY <1>1, <2>1, Zenon DEF IInv
<1> QED BY <1>1, <1>3, <1>4, ItemStep, SamePlaces, Zenon

LEMMA AppendStep ==
    ASSUME IInv, NEW e \in Episode, AppendEpisode(e)
    PROVE  IInv' /\ NotRevived
<1>1. cited' = cited \union {e} /\ UNCHANGED <<items, lease, wrote, work, proposal, faults>>
  BY Zenon DEF AppendEpisode
<1>2. cited \subseteq cited' /\ cited' \subseteq Episode
  BY <1>1, Zenon DEF IInv
<1>3. ItemsOK' /\ DOMAIN items' = DOMAIN items /\ Len(items') = Len(items)
  BY <1>1, <1>2, ItemsSame, Zenon DEF IInv
<1>4. proposal' \in 0..Len(items')
  BY <1>1, Zenon DEF IInv
<1> QED BY <1>1, <1>2, <1>3, <1>4, ItemStep, SamePlaces, Zenon

\* A worker goes on, and no episode is marked or written.
LEMMA WorkerStep ==
    ASSUME IInv, ItemsOK', DOMAIN items \subseteq DOMAIN items', Len(items) <= Len(items'),
           UNCHANGED <<cited, lease, wrote, proposal>>, faults' \in 0..MaxFaults,
           NEW w \in Worker, NEW t \in Task, work' = [work EXCEPT ![w] = t],
           Grounded(t, cited, DOMAIN items'), t.at # "facts"
    PROVE  IInv'
<1>1. WorkOK' /\ work'[w] = t /\ \A v \in Worker : v # w => work'[v] = work[v]
  <2>1. Grounded(t, cited', DOMAIN items') /\ cited \subseteq cited'
    BY Zenon
  <2> QED BY <2>1, WorkMoves, Zenon DEF IInv
<1>2. \A v \in Worker : work'[v].at = "facts" => work'[v] = work[v]
  BY <1>1, Zenon
<1>3. Once'
  BY <1>2, OnceStays, Zenon
<1>4. proposal' \in 0..Len(items')
  <2>1. Len(items) \in Nat /\ Len(items') \in Nat
    BY LenProperties, Zenon DEF IInv, ItemsOK
  <2> QED BY <2>1 DEF IInv
<1> QED BY <1>1, <1>3, <1>4, Zenon DEF IInv

LEMMA FindStep ==
    ASSUME IInv, NEW w \in Worker, NEW judged \in 0..Len(items), Find(w, judged)
    PROVE  IInv' /\ NotRevived
<1> DEFINE exact == Exact(work[w].canon)
           target == IF exact # {} THEN First(exact) ELSE IF judged \in Mergeable THEN judged ELSE 0
           at == IF target = 0 THEN "propose" ELSE "merge"
           t == [work[w] EXCEPT !.at = at, !.item = target]
<1>1. /\ work[w].at = "find" /\ work' = [work EXCEPT ![w] = t]
      /\ UNCHANGED <<items, cited, lease, wrote, proposal, faults>>
  BY Zenon DEF Find
<1>2. Len(items) \in Nat /\ DOMAIN items = 1..Len(items) /\ Len(items) <= MaxItems /\ MaxItems \in Nat
  BY KnowledgeAssumption, Items, Zenon DEF IInv, ItemsOK
<1>3. target = 0 \/ target \in DOMAIN items
  <2>1. exact \subseteq DOMAIN items /\ Mergeable \subseteq DOMAIN items
    BY Zenon DEF Exact, Mergeable
  <2>2. DOMAIN items \subseteq Nat
    BY <1>2
  <2>3. exact # {} => First(exact) \in DOMAIN items
    BY <2>1, <2>2, FirstIs, Zenon
  <2> QED BY <2>1, <2>3, Zenon
<1> HIDE DEF target
<1>4. target \in 0..MaxItems
  BY <1>2, <1>3
<1>5. /\ work[w] \in Task /\ work[w].ep \in cited /\ work[w].text \in Statement
  <2>1. "find" # "rest" /\ "find" \in {"find", "merge", "propose"}
    OBVIOUS
  <2> QED BY <1>1, <2>1, Working, Zenon DEF Grounded
<1>6. t \in Task
  BY <1>4, <1>5, Zenon DEF Task
<1>7. t.at = at /\ t.item = target /\ t.ep = work[w].ep /\ t.text = work[w].text
  BY <1>5 DEF Task
<1>8. at # "facts" /\ at # "rest" /\ (at \in {"merge", "promote", "promoted"} => target # 0)
  OBVIOUS
<1> HIDE DEF t, at
<1>9. Grounded(t, cited, DOMAIN items)
  BY <1>3, <1>5, <1>7, <1>8, Zenon DEF Grounded
<1>10. ItemsOK' /\ DOMAIN items' = DOMAIN items /\ Len(items') = Len(items)
  BY <1>1, ItemsSame, Zenon DEF IInv
<1>11. Len(items) <= Len(items') /\ faults' \in 0..MaxFaults
  BY <1>1, <1>2 DEF IInv
<1> QED BY <1>1, <1>6, <1>7, <1>8, <1>9, <1>10, <1>11, WorkerStep, SamePlaces, Zenon

LEMMA MergeStep ==
    ASSUME IInv, NEW w \in Worker, Merge(w)
    PROVE  IInv' /\ NotRevived
<1> DEFINE k == work[w].item
           x == Merged(items[k], {work[w].ep})
           t == Stage(work[w], "promote")
<1>1. /\ work[w].at = "merge" /\ items' = [items EXCEPT ![k] = x] /\ work' = [work EXCEPT ![w] = t]
      /\ UNCHANGED <<cited, lease, wrote, proposal, faults>>
  BY Zenon DEF Merge
<1>2. /\ work[w] \in Task /\ work[w].ep \in cited /\ k \in DOMAIN items /\ work[w].ep \in Episode
  <2>1. "merge" # "rest" /\ "merge" \in {"merge", "promote", "promoted"}
    OBVIOUS
  <2> QED BY <1>1, <2>1, Working, Zenon DEF Grounded
<1>3. items[k] \in Item /\ Sound(items[k]) /\ items[k].ev \subseteq cited
  BY <1>2, Items, Zenon DEF IInv, ItemsOK
<1>4. x \in Item /\ Sound(x) /\ x.ev \subseteq cited
  <2>1. {work[w].ep} \in SUBSET Episode
    BY <1>2, Zenon
  <2>2. x \in Item /\ Sound(x) /\ x.ev = items[k].ev \union {work[w].ep}
    BY <1>3, <2>1, MergedSound, Zenon
  <2> QED BY <1>2, <1>3, <2>2, Zenon
<1>5. t \in Task /\ t.at = "promote" /\ t.ep = work[w].ep /\ t.item = k
  <2>1. "promote" \in {"facts", "promote", "promoted"}
    OBVIOUS
  <2> QED BY <1>2, <2>1, StageIs, Zenon
<1> HIDE DEF x, t, k
<1>6. ItemsOK' /\ DOMAIN items' = DOMAIN items /\ Len(items') = Len(items)
  BY <1>1, <1>2, <1>4, ItemReplaced, Zenon DEF IInv
<1>7. t.at \notin {"find", "merge", "propose"} /\ t.at # "facts"
  BY <1>5
<1>8. Grounded(t, cited, DOMAIN items')
  BY <1>2, <1>5, <1>6, <1>7, Zenon DEF Grounded
<1>9. Len(items) <= Len(items') /\ faults' \in 0..MaxFaults /\ DOMAIN items \subseteq DOMAIN items'
  <2>1. Len(items) \in Nat
    BY Items, Zenon DEF IInv
  <2> QED BY <1>1, <1>6, <2>1 DEF IInv
<1> QED BY <1>1, <1>5, <1>6, <1>7, <1>8, <1>9, WorkerStep, SamePlaces, Zenon

LEMMA ProposeStep ==
    ASSUME IInv, NEW w \in Worker, Propose(w)
    PROVE  IInv' /\ NotRevived
<1>1. /\ work[w].at = "propose" /\ UNCHANGED <<cited, lease, wrote, proposal, faults>>
      /\ \E k \in 0..MaxItems :
            /\ ProposeKnowledge(work[w].text, work[w].canon, {work[w].ep}, k)
            /\ work' = [work EXCEPT ![w] = IF k = 0 THEN Rest
                                           ELSE [work[w] EXCEPT !.at = "promote", !.item = k]]
  BY Zenon DEF Propose
<1>2. PICK k \in 0..MaxItems :
         /\ ProposeKnowledge(work[w].text, work[w].canon, {work[w].ep}, k)
         /\ work' = [work EXCEPT ![w] = IF k = 0 THEN Rest
                                        ELSE [work[w] EXCEPT !.at = "promote", !.item = k]]
  BY <1>1, Zenon
<1>3. /\ work[w] \in Task /\ work[w].ep \in cited /\ work[w].text \in Statement /\ work[w].ep \in Episode
  <2>1. "propose" # "rest" /\ "propose" \in {"find", "merge", "propose"}
    OBVIOUS
  <2> QED BY <1>1, <2>1, Working, Zenon DEF Grounded
<1>4. work[w].canon \in Canon
  BY <1>3, Zenon DEF Task
<1>5. /\ ItemsOK' /\ DOMAIN items \subseteq DOMAIN items' /\ NotRevived
      /\ Len(items) <= Len(items') /\ (k # 0 => k \in DOMAIN items')
  <2>1. /\ {work[w].ep} \in SUBSET Episode /\ {work[w].ep} \subseteq cited' /\ cited \subseteq cited'
        /\ cited' \subseteq Episode
    BY <1>1, <1>3, Zenon DEF IInv
  <2> QED BY <1>2, <1>3, <1>4, <2>1, Proposed, Zenon DEF IInv
<1>6. faults' \in 0..MaxFaults
  BY <1>1, Zenon DEF IInv
<1>7. CASE k = 0
  <2>1. work' = [work EXCEPT ![w] = Rest]
    BY <1>2, <1>7, Zenon
  <2>2. Rest \in Task /\ Rest.at # "facts" /\ Grounded(Rest, cited, DOMAIN items')
    <3>1. "rest" # "facts"
      OBVIOUS
    <3> QED BY <3>1, RestIs, Zenon
  <2> QED BY <1>1, <1>5, <1>6, <2>1, <2>2, WorkerStep, Zenon
<1>8. CASE k # 0
  <2> DEFINE t == [work[w] EXCEPT !.at = "promote", !.item = k]
  <2>1. work' = [work EXCEPT ![w] = t]
    BY <1>2, <1>8, Zenon
  <2>2. t \in Task /\ t.at = "promote" /\ t.item = k /\ t.ep = work[w].ep
    BY <1>3, Zenon DEF Task
  <2>3. t.at # "facts" /\ t.at \notin {"find", "merge", "propose"}
    BY <2>2
  <2> HIDE DEF t
  <2>4. Grounded(t, cited, DOMAIN items')
    BY <1>3, <1>5, <1>8, <2>2, <2>3, Zenon DEF Grounded
  <2> QED BY <1>1, <1>5, <1>6, <2>1, <2>2, <2>3, <2>4, WorkerStep, Zenon
<1> QED BY <1>7, <1>8, Zenon

\* A worker is done, or dies.
LEMMA RestStep ==
    ASSUME IInv, ItemsOK', DOMAIN items' = DOMAIN items, Len(items') = Len(items),
           UNCHANGED <<cited, lease, wrote, proposal>>, faults' \in 0..MaxFaults,
           NEW w \in Worker, work' = [work EXCEPT ![w] = Rest]
    PROVE  IInv'
<1>1. Rest \in Task /\ Rest.at # "facts" /\ Grounded(Rest, cited, DOMAIN items')
  <2>1. "rest" # "facts"
    OBVIOUS
  <2> QED BY <2>1, RestIs, Zenon
<1>2. Len(items) <= Len(items') /\ DOMAIN items \subseteq DOMAIN items'
  <2>1. Len(items) \in Nat
    BY Items, Zenon DEF IInv
  <2> QED BY <2>1
<1> QED BY <1>1, <1>2, WorkerStep, Zenon

LEMMA DecideStep ==
    ASSUME IInv, NEW w \in Worker, Decide(w)
    PROVE  IInv' /\ NotRevived
<1> DEFINE t == Stage(work[w], "promoted")
<1>1. /\ work[w].at = "promote" /\ UNCHANGED <<items, cited, lease, wrote, proposal, faults>>
      /\ work' = [work EXCEPT ![w] = t] \/ work' = [work EXCEPT ![w] = Rest]
  BY Zenon DEF Decide
<1>2. ItemsOK' /\ DOMAIN items' = DOMAIN items /\ Len(items') = Len(items) /\ faults' \in 0..MaxFaults
  BY <1>1, ItemsSame, Zenon DEF IInv
<1>3. CASE work' = [work EXCEPT ![w] = Rest]
  BY <1>1, <1>2, <1>3, RestStep, SamePlaces, Zenon
<1>4. CASE work' = [work EXCEPT ![w] = t]
  <2>1. /\ work[w] \in Task /\ work[w].ep \in cited /\ work[w].item \in DOMAIN items
    <3>1. "promote" # "rest" /\ "promote" \in {"merge", "promote", "promoted"}
      OBVIOUS
    <3> QED BY <1>1, <3>1, Working, Zenon DEF Grounded
  <2>2. t \in Task /\ t.at = "promoted" /\ t.ep = work[w].ep /\ t.item = work[w].item
    <3>1. "promoted" \in {"facts", "promote", "promoted"}
      OBVIOUS
    <3> QED BY <2>1, <3>1, StageIs, Zenon
  <2> HIDE DEF t
  <2>3. t.at \notin {"find", "merge", "propose"} /\ t.at # "facts"
    BY <2>2
  <2>4. Grounded(t, cited, DOMAIN items')
    BY <1>2, <2>1, <2>2, <2>3, Zenon DEF Grounded
  <2>5. Len(items) <= Len(items') /\ DOMAIN items \subseteq DOMAIN items'
    <3>1. Len(items) \in Nat
      BY Items, Zenon DEF IInv
    <3> QED BY <1>2, <3>1
  <2> QED BY <1>1, <1>2, <1>4, <2>2, <2>3, <2>4, <2>5, WorkerStep, SamePlaces, Zenon
<1> QED BY <1>1, <1>3, <1>4, Zenon

LEMMA PromoteStep ==
    ASSUME IInv, NEW w \in Worker, Promote(w)
    PROVE  IInv' /\ NotRevived
<1>1. /\ work[w].at = "promoted" /\ UNCHANGED <<cited, lease, wrote, proposal, faults>>
      /\ MarkEligible(work[w].item) \/ PublishKnowledge(work[w].item)
      /\ work' = [work EXCEPT ![w] = Rest]
  BY Zenon DEF Promote
<1>2. work[w].item \in DOMAIN items
  <2>1. "promoted" \in {"merge", "promote", "promoted"}
    OBVIOUS
  <2> QED BY <1>1, <2>1, Working, Zenon DEF Grounded
<1>3. ItemsOK' /\ DOMAIN items' = DOMAIN items /\ Len(items') = Len(items)
  BY <1>1, <1>2, Promoted, Zenon DEF IInv
<1>4. faults' \in 0..MaxFaults
  BY <1>1, Zenon DEF IInv
<1> QED BY <1>1, <1>3, <1>4, RestStep, SamePlaces, Zenon

LEMMA FailStep ==
    ASSUME IInv, NEW w \in Worker, Fail(w)
    PROVE  IInv' /\ NotRevived
<1>1. /\ faults < MaxFaults /\ faults' = faults + 1 /\ work' = [work EXCEPT ![w] = Rest]
      /\ UNCHANGED <<items, cited, lease, wrote, proposal>>
  BY Zenon DEF Fail
<1>2. faults' \in 0..MaxFaults
  BY KnowledgeAssumption, <1>1 DEF IInv
<1>3. ItemsOK' /\ DOMAIN items' = DOMAIN items /\ Len(items') = Len(items)
  BY <1>1, ItemsSame, Zenon DEF IInv
<1> QED BY <1>1, <1>2, <1>3, RestStep, SamePlaces, Zenon

LEMMA LapseStep ==
    ASSUME IInv, NEW e \in Episode, Lapse(e)
    PROVE  IInv' /\ NotRevived
<1>1. /\ lease[e] = "held" /\ lease' = [lease EXCEPT ![e] = "lapsed"]
      /\ UNCHANGED <<items, cited, wrote, work, proposal, faults>>
  BY Zenon DEF Lapse
<1>2. lease \in [Episode -> {"none", "held", "lapsed", "processed"}]
  BY Zenon DEF IInv
<1>3. lease' \in [Episode -> {"none", "held", "lapsed", "processed"}]
  BY <1>1, <1>2, Zenon
<1>4. \A d \in Episode : lease[d] = "processed" => lease'[d] = "processed"
  <2>1. "held" # "processed"
    OBVIOUS
  <2> QED BY <1>1, <1>2, <2>1, Zenon
<1>5. Once'
  BY <1>1, <1>4, OnceStays, Zenon
<1>6. ItemsOK' /\ WorkOK' /\ DOMAIN items' = DOMAIN items
  BY <1>1, ItemsSame, WorkStays, Zenon DEF IInv
<1> QED BY <1>1, <1>3, <1>5, <1>6, SamePlaces, Zenon DEF IInv

LEMMA LeaseStep ==
    ASSUME IInv, NEW w \in Worker, NEW e \in Episode, Lease(w, e)
    PROVE  IInv' /\ NotRevived
<1> DEFINE t == [Rest EXCEPT !.at = "extract", !.ep = e]
<1>1. /\ e \in cited /\ lease[e] \in {"none", "lapsed"} /\ lease' = [lease EXCEPT ![e] = "held"]
      /\ work' = [work EXCEPT ![w] = t] /\ UNCHANGED <<items, cited, wrote, proposal, faults>>
  BY Zenon DEF Lease, Leasable
<1>2. lease \in [Episode -> {"none", "held", "lapsed", "processed"}]
  BY Zenon DEF IInv
<1>3. lease' \in [Episode -> {"none", "held", "lapsed", "processed"}]
  BY <1>1, <1>2, Zenon
<1>4. \A d \in Episode : lease[d] = "processed" => lease'[d] = "processed"
  <2>1. lease[e] # "processed"
    BY <1>1
  <2> QED BY <1>1, <1>2, <2>1, Zenon
<1>5. t \in Task /\ t.at = "extract" /\ t.ep = e
  <2>1. Rest \in Task
    BY RestIs, Zenon
  <2> QED BY <2>1, Zenon DEF Task
<1>6. /\ t.at # "facts" /\ t.at \notin {"find", "merge", "propose"}
      /\ t.at \notin {"merge", "promote", "promoted"}
  BY <1>5
<1> HIDE DEF t
<1>7. Grounded(t, cited', DOMAIN items') /\ cited \subseteq cited' /\ DOMAIN items \subseteq DOMAIN items'
  BY <1>1, <1>5, <1>6, Zenon DEF Grounded
<1>8. WorkOK' /\ work'[w] = t /\ \A v \in Worker : v # w => work'[v] = work[v]
  BY <1>1, <1>5, <1>7, WorkMoves, Zenon DEF IInv
<1>9. Once'
  BY <1>1, <1>4, <1>6, <1>8, OnceStays, Zenon
<1>10. ItemsOK' /\ DOMAIN items' = DOMAIN items
  BY <1>1, ItemsSame, Zenon DEF IInv
<1> QED BY <1>1, <1>3, <1>8, <1>9, <1>10, SamePlaces, Zenon DEF IInv

LEMMA CompleteStep ==
    ASSUME IInv, NEW w \in Worker, Complete(w)
    PROVE  IInv' /\ NotRevived
<1> DEFINE e == work[w].ep
           t == IF Completes(e) THEN Stage(work[w], "facts") ELSE Rest
<1>1. /\ work[w].at = "extract" /\ lease' = [lease EXCEPT ![e] = "processed"]
      /\ work' = [work EXCEPT ![w] = t] /\ UNCHANGED <<items, cited, wrote, proposal, faults>>
  BY Zenon DEF Complete
<1>2. work[w] \in Task /\ e \in cited /\ e \in Episode
  <2>1. "extract" # "rest"
    OBVIOUS
  <2> QED BY <1>1, <2>1, Working, Zenon
<1>3. lease \in [Episode -> {"none", "held", "lapsed", "processed"}]
  BY Zenon DEF IInv
<1>4. /\ lease' \in [Episode -> {"none", "held", "lapsed", "processed"}] /\ lease'[e] = "processed"
      /\ \A d \in Episode : lease[d] = "processed" => lease'[d] = "processed"
  BY <1>1, <1>2, <1>3, Zenon
<1>5. /\ t \in Task /\ Grounded(t, cited, DOMAIN items)
      /\ t.at = "facts" => Completes(e) /\ t.ep = e
  <2>1. CASE Completes(e)
    <3>1. t \in Task /\ t.at = "facts" /\ t.ep = e
      <4>1. "facts" \in {"facts", "promote", "promoted"}
        OBVIOUS
      <4> QED BY <1>2, <2>1, <4>1, StageIs, Zenon
    <3>2. "facts" \notin {"find", "merge", "propose"} /\ "facts" \notin {"merge", "promote", "promoted"}
      OBVIOUS
    <3> QED BY <1>2, <2>1, <3>1, <3>2, Zenon DEF Grounded
  <2>2. CASE ~Completes(e)
    <3>1. "rest" # "facts"
      OBVIOUS
    <3> QED BY <2>2, <3>1, RestIs, Zenon
  <2> QED BY <2>1, <2>2, Zenon
<1> HIDE DEF t
<1>6. WorkOK' /\ work'[w] = t /\ \A v \in Worker : v # w => work'[v] = work[v]
  <2>1. Grounded(t, cited', DOMAIN items') /\ cited \subseteq cited' /\ DOMAIN items \subseteq DOMAIN items'
    BY <1>1, <1>5, Zenon
  <2> QED BY <1>1, <1>5, <2>1, WorkMoves, Zenon DEF IInv
<1>7. Completes(e) => wrote[e] = 0 /\ \A v \in Worker : work[v].at = "facts" => work[v].ep # e
  <2> SUFFICES ASSUME Completes(e)
               PROVE  wrote[e] = 0 /\ \A v \in Worker : work[v].at = "facts" => work[v].ep # e
    OBVIOUS
  <2>1. lease[e] # "processed"
    BY DEF Completes
  <2>2. wrote[e] \in Nat /\ wrote[e] <= 1 /\ wrote[e] # 1
    BY <1>2, <2>1, Zenon DEF IInv, Once
  <2>3. wrote[e] = 0
    BY <2>2
  <2> QED BY <2>1, <2>3, Zenon DEF IInv, Once
<1>8. Once'
  <2>1. \A d \in Episode : wrote'[d] <= 1 /\ (wrote'[d] = 1 => lease'[d] = "processed")
    BY <1>1, <1>4, Zenon DEF IInv, Once
  <2>2. \A v \in Worker : work[v].at = "facts" => work[v].ep \in Episode
    <3>1. "facts" # "rest"
      OBVIOUS
    <3> QED BY <3>1, Working, Zenon
  <2>3. ASSUME NEW v \in Worker, work'[v].at = "facts"
        PROVE  lease'[work'[v].ep] = "processed" /\ wrote'[work'[v].ep] = 0
    <3>1. CASE v = w
      <4>1. Completes(e) /\ work'[v].ep = e
        BY <3>1, <2>3, <1>5, <1>6, Zenon
      <4>2. wrote[e] = 0 /\ wrote' = wrote
        BY <4>1, <1>1, <1>7, Zenon
      <4> HIDE DEF e
      <4> QED BY <4>1, <4>2, <1>4
    <3>2. CASE v # w
      <4>1. work'[v] = work[v]
        BY <3>2, <1>6, Zenon
      <4> QED BY <4>1, <2>2, <2>3, <1>1, <1>4, Zenon DEF IInv, Once
    <3> QED BY <3>1, <3>2, Zenon
  <2>4. ASSUME NEW u \in Worker, NEW v \in Worker,
               work'[u].at = "facts", work'[v].at = "facts", work'[u].ep = work'[v].ep
        PROVE  u = v
    <3>1. CASE u # w /\ v # w
      BY <3>1, <2>4, <1>6, Zenon DEF IInv, Once
    <3>2. CASE u = w /\ v # w
      BY <3>2, <2>4, <1>5, <1>6, <1>7, Zenon
    <3>3. CASE u # w /\ v = w
      BY <3>3, <2>4, <1>5, <1>6, <1>7, Zenon
    <3> QED BY <3>1, <3>2, <3>3, Zenon
  <2> QED BY <2>1, <2>3, <2>4, Zenon DEF Once
<1>9. ItemsOK' /\ DOMAIN items' = DOMAIN items
  BY <1>1, ItemsSame, Zenon DEF IInv
<1> QED BY <1>1, <1>4, <1>6, <1>8, <1>9, SamePlaces, Zenon DEF IInv

LEMMA WriteFactsStep ==
    ASSUME IInv, NEW w \in Worker, WriteFacts(w)
    PROVE  IInv' /\ NotRevived
<1> DEFINE e == work[w].ep
           Found(s, c) == [work[w] EXCEPT !.at = "find", !.text = s, !.canon = c]
<1>1. /\ work[w].at = "facts" /\ wrote' = [wrote EXCEPT ![e] = @ + 1]
      /\ UNCHANGED <<items, cited, lease, proposal, faults>>
  BY Zenon DEF WriteFacts
<1>2. work[w] \in Task /\ e \in cited /\ e \in Episode
  <2>1. "facts" # "rest"
    OBVIOUS
  <2> QED BY <1>1, <2>1, Working, Zenon
<1>3. PICK t \in Task : /\ work' = [work EXCEPT ![w] = t] /\ t.at # "facts"
                        /\ Grounded(t, cited, DOMAIN items)
  <2>1. CASE work' = [work EXCEPT ![w] = Rest]
    <3>1. Rest \in Task /\ Rest.at # "facts" /\ Grounded(Rest, cited, DOMAIN items)
      <4>1. "rest" # "facts"
        OBVIOUS
      <4> QED BY <4>1, RestIs, Zenon
    <3> QED BY <2>1, <3>1, Zenon
  <2>2. CASE \E s \in Statement, c \in {TRUE, FALSE} :
                work' = [work EXCEPT ![w] = Found(s, IF c THEN CanonOf[s] ELSE None)]
    <3>1. PICK s \in Statement, c \in Canon : work' = [work EXCEPT ![w] = Found(s, c)]
      BY <2>2, Zenon DEF Canon
    <3> DEFINE t == Found(s, c)
    <3>2. t \in Task /\ t.at = "find" /\ t.ep = e /\ t.text \in Statement
      BY <1>2, Zenon DEF Task
    <3>3. work' = [work EXCEPT ![w] = t]
      BY <3>1, Zenon
    <3> HIDE DEF t
    <3>4. t.at # "facts" /\ t.at \notin {"merge", "promote", "promoted"}
      BY <3>2
    <3>5. Grounded(t, cited, DOMAIN items)
      BY <1>2, <3>2, <3>4, Zenon DEF Grounded
    <3> QED BY <3>2, <3>3, <3>4, <3>5, Zenon
  <2> QED BY <2>1, <2>2, Zenon DEF WriteFacts
<1>4. WorkOK' /\ work'[w] = t /\ \A v \in Worker : v # w => work'[v] = work[v]
  <2>1. Grounded(t, cited', DOMAIN items') /\ cited \subseteq cited' /\ DOMAIN items \subseteq DOMAIN items'
    BY <1>1, <1>3, Zenon
  <2> QED BY <1>1, <1>3, <2>1, WorkMoves, Zenon DEF IInv
<1>5. wrote \in [Episode -> Nat] /\ wrote[e] = 0 /\ lease[e] = "processed"
  BY <1>1, Zenon DEF IInv, Once
<1>6. /\ wrote' \in [Episode -> Nat] /\ wrote'[e] = 1
      /\ \A d \in Episode : d # e => wrote'[d] = wrote[d]
  <2> HIDE DEF e
  <2>1. wrote' = [wrote EXCEPT ![e] = 1]
    BY <1>1, <1>2, <1>5
  <2> QED BY <2>1, <1>2, <1>5
<1>7. \A v \in Worker : work'[v].at = "facts" =>
         v # w /\ work'[v] = work[v] /\ work[v].at = "facts" /\ work[v].ep # e /\ work[v].ep \in Episode
  <2> SUFFICES ASSUME NEW v \in Worker, work'[v].at = "facts"
               PROVE  /\ v # w /\ work'[v] = work[v] /\ work[v].at = "facts" /\ work[v].ep # e
                      /\ work[v].ep \in Episode
    BY Zenon
  <2>1. v # w /\ work'[v] = work[v] /\ work[v].at = "facts"
    BY <1>3, <1>4, Zenon
  <2>2. work[v].ep # e
    BY <1>1, <2>1, Zenon DEF IInv, Once
  <2>3. work[v].ep \in Episode
    <3>1. "facts" # "rest"
      OBVIOUS
    <3> QED BY <2>1, <3>1, Working, Zenon
  <2> QED BY <2>1, <2>2, <2>3, Zenon
<1>8. Once'
  <2>1. ASSUME NEW d \in Episode
        PROVE  wrote'[d] <= 1 /\ (wrote'[d] = 1 => lease'[d] = "processed")
    <3>1. CASE d = e
      <4>1. wrote'[d] = 1 /\ lease'[d] = "processed"
        BY <3>1, <1>1, <1>5, <1>6, Zenon
      <4> QED BY <4>1
    <3>2. CASE d # e
      BY <3>2, <1>1, <1>6, Zenon DEF IInv, Once
    <3> QED BY <3>1, <3>2, Zenon
  <2>2. \A v \in Worker : work'[v].at = "facts" =>
           lease'[work'[v].ep] = "processed" /\ wrote'[work'[v].ep] = 0
    <3> SUFFICES ASSUME NEW v \in Worker, work'[v].at = "facts"
                 PROVE  lease'[work'[v].ep] = "processed" /\ wrote'[work'[v].ep] = 0
      BY Zenon
    <3>1. work'[v].ep = work[v].ep /\ work[v].ep \in Episode /\ work[v].ep # e /\ work[v].at = "facts"
      BY <1>7, Zenon
    <3>2. lease[work[v].ep] = "processed" /\ wrote[work[v].ep] = 0
      BY <3>1, Zenon DEF IInv, Once
    <3>3. lease'[work[v].ep] = "processed" /\ wrote'[work[v].ep] = 0
      BY <3>1, <3>2, <1>1, <1>6, Zenon
    <3> QED BY <3>1, <3>3
  <2>3. \A u, v \in Worker :
           (work'[u].at = "facts" /\ work'[v].at = "facts" /\ work'[u].ep = work'[v].ep) => u = v
    <3> SUFFICES ASSUME NEW u \in Worker, NEW v \in Worker,
                        work'[u].at = "facts", work'[v].at = "facts", work'[u].ep = work'[v].ep
                 PROVE  u = v
      BY Zenon
    <3>1. work[u].at = "facts" /\ work[v].at = "facts" /\ work'[u] = work[u] /\ work'[v] = work[v]
      BY <1>7, Zenon
    <3>2. work[u].ep = work[v].ep
      BY <3>1, Zenon
    <3> QED BY <3>1, <3>2, Zenon DEF IInv, Once
  <2> QED BY <2>1, <2>2, <2>3, Zenon DEF Once
<1>9. ItemsOK' /\ DOMAIN items' = DOMAIN items
  BY <1>1, ItemsSame, Zenon DEF IInv
<1> QED BY <1>1, <1>4, <1>6, <1>8, <1>9, SamePlaces, Zenon DEF IInv

-----------------------------------------------------------------------------
(* The invariant and what it shows *)

LEMMA InitHolds ==
    ASSUME KnowledgeInit
    PROVE  IInv
<1>1. items \in Seq(Item) /\ Len(items) = 0 /\ DOMAIN items = {}
  BY DEF KnowledgeInit
<1>2. ItemsOK
  BY KnowledgeAssumption, <1>1 DEF ItemsOK
<1>3. WorkOK
  BY RestIs, Zenon DEF KnowledgeInit, WorkOK
<1>4. \A w \in Worker : work[w].at # "facts"
  <2>1. "rest" # "facts"
    OBVIOUS
  <2> QED BY <2>1, RestIs, Zenon DEF KnowledgeInit
<1>5. \A e \in Episode : wrote[e] <= 1 /\ wrote[e] # 1
  BY DEF KnowledgeInit
<1>6. Once
  BY <1>4, <1>5, Zenon DEF Once
<1>7. /\ cited \subseteq Episode
      /\ lease \in [Episode -> {"none", "held", "lapsed", "processed"}]
      /\ wrote \in [Episode -> Nat]
  BY DEF KnowledgeInit
<1>8. proposal \in 0..Len(items) /\ faults \in 0..MaxFaults
  BY KnowledgeAssumption, <1>1 DEF KnowledgeInit
<1> QED BY <1>2, <1>3, <1>6, <1>7, <1>8, Zenon DEF IInv

LEMMA StepHolds ==
    ASSUME IInv, [KnowledgeNext]_lessonVars
    PROVE  IInv' /\ [NotRevived]_lessonVars
<1>1. ASSUME NEW w \in Worker, Consolidate(w)
      PROVE  IInv' /\ NotRevived
  <2>1. CASE Complete(w)
    BY <2>1, CompleteStep, Zenon
  <2>2. CASE WriteFacts(w)
    BY <2>2, WriteFactsStep, Zenon
  <2>3. CASE \E judged \in 0..Len(items) : Find(w, judged)
    BY <2>3, FindStep, Zenon
  <2>4. CASE Merge(w)
    BY <2>4, MergeStep, Zenon
  <2>5. CASE Propose(w)
    BY <2>5, ProposeStep, Zenon
  <2>6. CASE Decide(w)
    BY <2>6, DecideStep, Zenon
  <2>7. CASE Promote(w)
    BY <2>7, PromoteStep, Zenon
  <2> QED BY <1>1, <2>1, <2>2, <2>3, <2>4, <2>5, <2>6, <2>7, Zenon DEF Consolidate
<1>2. ASSUME NEW w \in Worker, Fail(w)
      PROVE  IInv' /\ NotRevived
  BY <1>2, FailStep, Zenon
<1>3. ASSUME NEW w \in Worker, NEW e \in Episode, Lease(w, e)
      PROVE  IInv' /\ NotRevived
  BY <1>3, LeaseStep, Zenon
<1>4. ASSUME NEW e \in Episode, AppendEpisode(e) \/ Lapse(e) \/ ForgetEvidence(e)
      PROVE  IInv' /\ NotRevived
  BY <1>4, AppendStep, LapseStep, ForgetStep, Zenon
<1>5. ASSUME NEW s \in Statement, NEW e \in Episode, ProposeLearning(s, e)
      PROVE  IInv' /\ NotRevived
  BY <1>5, LearningStep, Zenon
<1>6. ASSUME NEW k \in DOMAIN items, Publish(k) \/ RejectKnowledge(k) \/ ForgetLesson(k)
      PROVE  IInv' /\ NotRevived
  BY <1>6, ReviewStep, Zenon
<1>7. CASE ProposalEligible
  BY <1>7, ProposalStep, Zenon
<1>8. CASE UNCHANGED lessonVars
  <2>1. UNCHANGED <<items, cited, lease, wrote, work, proposal, faults>>
    BY <1>8, Zenon DEF lessonVars
  <2>2. ItemsOK' /\ DOMAIN items \subseteq DOMAIN items' /\ cited \subseteq cited' /\ cited' \subseteq Episode
    BY <2>1, ItemsSame, Zenon DEF IInv
  <2>3. proposal' \in 0..Len(items')
    BY <2>1, Zenon DEF IInv
  <2> QED BY <1>8, <2>1, <2>2, <2>3, ItemStep, Zenon
<1> QED BY <1>1, <1>2, <1>3, <1>4, <1>5, <1>6, <1>7, <1>8, Zenon DEF KnowledgeNext

\* The inductive invariant holds in every reachable state of the knowledge plane,
\* for any number of workers, episodes, items and failures.
THEOREM Invariance ==
    KnowledgeSpec => []IInv
<1>1. KnowledgeInit => IInv
  BY InitHolds
<1>2. IInv /\ [KnowledgeNext]_lessonVars => IInv'
  BY StepHolds
<1> QED BY <1>1, <1>2, PTL DEF KnowledgeSpec

\* Items, leases and tasks keep their types, an item's evidence is of episodes that
\* are there, and it has a chunk exactly when publish_knowledge gave it one.
THEOREM TypeCorrect ==
    KnowledgeSpec => []LessonTypeOK
<1>1. IInv => LessonTypeOK
  BY Zenon DEF IInv, ItemsOK, WorkOK, Sound, LessonTypeOK
<1> QED BY <1>1, Invariance, PTL

\* publish_knowledge and the cascade of forget_episode: whatever the workers and
\* the reviewers do, a lesson whose chunk is open is published and rests on episodes
\* of at least KMin entities that nobody withdrew.
THEOREM LessonsSupported ==
    KnowledgeSpec => []ServedSupported
<1>1. IInv => ServedSupported
  BY Zenon DEF IInv, ItemsOK, Sound, ServedSupported
<1> QED BY <1>1, Invariance, PTL

\* complete: an episode leased again after its lease ran out, and completed by two
\* workers, has its payload written at most once.
THEOREM PayloadsWrittenOnce ==
    KnowledgeSpec => []WrittenOnce
<1>1. IInv => WrittenOnce
  BY Zenon DEF IInv, Once, WrittenOnce
<1> QED BY <1>1, Invariance, PTL

\* propose_knowledge: no step appends an item with the canonical form of one that
\* reject_knowledge turned down.
THEOREM RejectionsStand ==
    KnowledgeSpec => RejectionStands
<1>1. IInv /\ [KnowledgeNext]_lessonVars => [NotRevived]_lessonVars
  BY StepHolds
<1> QED BY <1>1, Invariance, PTL DEF KnowledgeSpec, RejectionStands

=============================================================================
