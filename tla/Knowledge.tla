------------------------------ MODULE Knowledge ------------------------------
(***************************************************************************)
(* Lessons and the worker that finds them.  consolidation.rs leases        *)
(* episodes to workers and writes what they extracted (complete); agents   *)
(* propose lessons (propose_learning); propose_knowledge, merge_evidence,  *)
(* promote_if_eligible, publish_knowledge, reject_knowledge and the        *)
(* retraction cascade of forget move an item between its states.  An item  *)
(* keeps counters of the evidence it rests on beside the evidence itself.  *)
(* Each transaction is a step; a lookup before it is a step of its own.    *)
(***************************************************************************)
EXTENDS Integers, FiniteSets, Sequences

CONSTANTS
    Episode,      \* L0 episodes that workers lease or agents cite
    EntityOf,     \* source_entity of an episode
    WriterOf,     \* writer_azp of an episode
    Tier1,        \* episodes of trust tier 1
    Statement,    \* texts of lessons
    CanonOf,      \* the canonical form a worker derives from a text
    Naming,       \* texts with a known entity identifier in them
    Worker,       \* consolidation workers
    KMin,         \* K_SUPPORT_MIN
    Established,  \* support from which the tier is "established"
    MaxItems,     \* bound: knowledge items
    MaxFaults     \* bound: requests and workers that die half-way

None == "none"

\* The episodes of a run are finitely many; the floors are counts.
ASSUME KnowledgeAssumption ==
    /\ IsFiniteSet(Episode) /\ KMin \in Nat /\ Established \in Nat
    /\ MaxItems \in Nat /\ MaxFaults \in Nat

VARIABLES
    items,     \* knowledge: [text, canon, status, ev, distinct, writers, tier1, chunk, tier]
    cited,       \* episodes appended
    lease,     \* [Episode -> "none", "held", "lapsed" or "processed"]
    wrote,     \* [Episode -> completions that wrote their payload] (history)
    work,      \* [Worker -> [at, ep, text, canon, item]]
    proposal,  \* item that propose_learning is about to mark eligible, 0 if none
    faults

lessonVars == <<items, cited, lease, wrote, work, proposal, faults>>

-----------------------------------------------------------------------------

Canon == {CanonOf[s] : s \in Statement} \union {None}
Status == {"candidate", "eligible", "quarantined", "published", "rejected", "invalidated"}
Item == [text : Statement, canon : Canon, status : Status, ev : SUBSET Episode,
         distinct : Nat, writers : Nat, tier1 : BOOLEAN, chunk : {None, "open", "closed"},
         tier : {None, "emerging", "established"}]
Task == [at : {"rest", "extract", "facts", "find", "merge", "propose", "promote", "promoted"},
         ep : Episode \union {None}, text : Statement \union {None}, canon : Canon,
         item : 0..MaxItems]
Rest == [at |-> "rest", ep |-> None, text |-> None, canon |-> None, item |-> 0]

Entities(ev) == Cardinality({EntityOf[e] : e \in ev})
Writers(ev) == Cardinality({WriterOf[e] : e \in ev})

\* SupportTier::from_distinct, as far as the properties tell tiers apart.
Bucket(n) == IF n >= Established THEN "established" ELSE IF n >= KMin THEN "emerging" ELSE None

KnowledgeInit ==
    /\ items = <<>>
    /\ cited = {}
    /\ lease = [e \in Episode |-> "none"]
    /\ wrote = [e \in Episode |-> 0]
    /\ work = [w \in Worker |-> Rest]
    /\ proposal = 0
    /\ faults = 0

-----------------------------------------------------------------------------
(* propose_knowledge *)

\* Mutant of Remembered: rejections are not looked up.
RememberedNever(text, canon) == {}

\* Rejection memory: by canonical form when there is one, else by text.
Remembered(text, canon) ==
    {k \in DOMAIN items :
       items[k].status = "rejected"
       /\ IF canon # None THEN items[k].canon = canon ELSE items[k].text = text}

\* A live item with the same form or the same text gains the support.
Twins(text, canon) ==
    {k \in DOMAIN items :
       items[k].status \in {"candidate", "eligible"}
       /\ (items[k].text = text \/ (canon # None /\ items[k].canon = canon))}

First(ks) == CHOOSE k \in ks : \A l \in ks : k <= l

Recounted(item, ev) ==
    [item EXCEPT !.ev = ev, !.distinct = Entities(ev), !.writers = Writers(ev),
                 !.tier1 = ev \intersect Tier1 # {}]

NewItem(text, canon, ev) ==
    Recounted([text |-> text, canon |-> canon,
               status |-> IF text \in Naming THEN "quarantined" ELSE "candidate",
               ev |-> {}, distinct |-> 0, writers |-> 0, tier1 |-> FALSE,
               chunk |-> None, tier |-> None], ev)

\* The item that the proposal ends in, 0 when it is remembered as rejected (or
\* when the bound on items is reached, and it is not followed any further).
ProposeKnowledge(text, canon, ev, k) ==
    LET twins == IF text \in Naming THEN {} ELSE Twins(text, canon) IN
    \/ /\ Remembered(text, canon) # {}
       /\ k = 0 /\ UNCHANGED items
    \/ /\ Remembered(text, canon) = {} /\ twins # {}
       /\ k = First(twins)
       /\ items' = [items EXCEPT ![k] = Recounted(items[k], items[k].ev \union ev)]
    \/ /\ Remembered(text, canon) = {} /\ twins = {}
       /\ k = Len(items) + 1 /\ k <= MaxItems
       /\ items' = Append(items, NewItem(text, canon, ev))
    \/ /\ Remembered(text, canon) = {} /\ twins = {} /\ Len(items) = MaxItems
       /\ k = 0 /\ UNCHANGED items

-----------------------------------------------------------------------------
(* The gate *)

Corroborated(item) == item.writers >= 2 \/ item.tier1
Supported(item) == item.distinct >= KMin /\ Corroborated(item)

Moved(item, status) == [item EXCEPT !.status = status]

\* mark_knowledge_eligible
MarkEligible(k) ==
    items' = IF items[k].status = "candidate"
             THEN [items EXCEPT ![k] = Moved(items[k], "eligible")] ELSE items

Publishable(item) == item.status \in {"candidate", "eligible"} /\ Supported(item)

\* publish_knowledge: the state and the chunk that recall serves.
Published(item) ==
    [item EXCEPT !.status = "published", !.chunk = "open", !.tier = Bucket(item.distinct)]

PublishKnowledge(k) ==
    items' = IF Publishable(items[k]) THEN [items EXCEPT ![k] = Published(items[k])] ELSE items

\* A reviewer publishes, or rejects what is not published yet.
Publish(k) ==
    /\ Publishable(items[k]) /\ PublishKnowledge(k)
    /\ UNCHANGED <<cited, lease, wrote, work, proposal, faults>>

RejectKnowledge(k) ==
    /\ items[k].status \in {"candidate", "eligible"}
    /\ items' = [items EXCEPT ![k] = Moved(items[k], "rejected")]
    /\ UNCHANGED <<cited, lease, wrote, work, proposal, faults>>

-----------------------------------------------------------------------------
(* forget *)

\* Mutant of Withdrawn: the counter is corrected and the item stays as it is.
WithdrawnServed(item, e) ==
    LET ev == item.ev \ {e} IN
    IF e \notin item.ev THEN item ELSE [item EXCEPT !.ev = ev, !.distinct = Entities(ev)]

\* Retraction cascade: evidence, distinct_entities and episode_count go; below the
\* floor a published item is invalidated and its chunk retired.
Withdrawn(item, e) ==
    LET ev == item.ev \ {e}
        below == item.status = "published" /\ Entities(ev) < KMin IN
    IF e \notin item.ev THEN item
    ELSE [item EXCEPT !.ev = ev, !.distinct = Entities(ev),
                      !.status = IF below THEN "invalidated" ELSE @,
                      !.chunk = IF below THEN "closed" ELSE @]

ForgetEvidence(e) ==
    /\ \E k \in DOMAIN items : e \in items[k].ev
    /\ items' = [k \in DOMAIN items |-> Withdrawn(items[k], e)]
    /\ UNCHANGED <<cited, lease, wrote, work, proposal, faults>>

Retired(item) == [item EXCEPT !.chunk = "closed"]

ForgetLesson(k) ==
    /\ items[k].chunk = "open"
    /\ items' = [items EXCEPT ![k] = Retired(items[k])]
    /\ UNCHANGED <<cited, lease, wrote, work, proposal, faults>>

-----------------------------------------------------------------------------
(* propose_learning *)

\* A bare proposal is itself an episode; one with evidence cites episodes.
ProposeLearning(text, e) ==
    /\ proposal = 0
    /\ cited' = cited \union {e}
    /\ \E k \in 0..MaxItems :
          /\ ProposeKnowledge(text, None, {e}, k)
          /\ proposal' = IF k # 0 /\ items'[k].status = "candidate" /\ Supported(items'[k])
                         THEN k ELSE 0
    /\ UNCHANGED <<lease, wrote, work, faults>>

\* What it read of the item decides; the item may have changed since.
ProposalEligible ==
    /\ proposal # 0
    /\ MarkEligible(proposal) /\ proposal' = 0
    /\ UNCHANGED <<cited, lease, wrote, work, faults>>

-----------------------------------------------------------------------------
(* lease and complete *)

\* An episode of a kind that is consolidated: observation, webhook or document version.
AppendEpisode(e) ==
    /\ e \notin cited
    /\ cited' = cited \union {e}
    /\ UNCHANGED <<items, lease, wrote, work, proposal, faults>>

Leasable(e) == e \in cited /\ lease[e] \in {"none", "lapsed"}

Lease(w, e) ==
    /\ work[w] = Rest /\ Leasable(e)
    /\ lease' = [lease EXCEPT ![e] = "held"]
    /\ work' = [work EXCEPT ![w] = [Rest EXCEPT !.at = "extract", !.ep = e]]
    /\ UNCHANGED <<items, cited, wrote, proposal, faults>>

\* Five minutes pass; a worker that is still at it does not notice.
Lapse(e) ==
    /\ lease[e] = "held"
    /\ lease' = [lease EXCEPT ![e] = "lapsed"]
    /\ UNCHANGED <<items, cited, wrote, work, proposal, faults>>

\* Mutant of Completes: a completion is not refused after another.
CompletesAgain(e) == lease[e] # "none"

Completes(e) == lease[e] \in {"held", "lapsed"}

Stage(task, at) == [task EXCEPT !.at = at]

\* "Terminal-state transition first": the payload of a later completion is dropped.
Complete(w) ==
    LET e == work[w].ep IN
    /\ work[w].at = "extract"
    /\ lease' = [lease EXCEPT ![e] = "processed"]
    /\ work' = [work EXCEPT ![w] = IF Completes(e) THEN Stage(work[w], "facts") ELSE Rest]
    /\ UNCHANGED <<items, cited, wrote, proposal, faults>>

\* L2 facts and tag suggestions, one statement each; then the candidate of the
\* payload, if the extractor found a lesson in the episode.
WriteFacts(w) ==
    /\ work[w].at = "facts"
    /\ wrote' = [wrote EXCEPT ![work[w].ep] = @ + 1]
    /\ \/ work' = [work EXCEPT ![w] = Rest]
       \/ \E s \in Statement, c \in {TRUE, FALSE} :
             work' = [work EXCEPT ![w] = [work[w] EXCEPT !.at = "find", !.text = s,
                                             !.canon = IF c THEN CanonOf[s] ELSE None]]
    /\ UNCHANGED <<items, cited, lease, proposal, faults>>

\* propose_or_merge: the canonical-exact fast path, else the item that the judge
\* named, if it still is one that may gain support, else a proposal.
Mergeable == {k \in DOMAIN items : items[k].status \in {"candidate", "published"}}
Exact(canon) == {k \in Mergeable : canon # None /\ items[k].canon = canon}

Find(w, judged) ==
    LET exact == Exact(work[w].canon)
        target == IF exact # {} THEN First(exact) ELSE IF judged \in Mergeable THEN judged ELSE 0 IN
    /\ work[w].at = "find"
    /\ work' = [work EXCEPT ![w] = [work[w] EXCEPT !.at = IF target = 0 THEN "propose" ELSE "merge",
                                                   !.item = target]]
    /\ UNCHANGED <<items, cited, lease, wrote, proposal, faults>>

\* merge_evidence: tier-1 support sticks, and a published chunk shows the new tier.
Merged(item, ev) ==
    LET all == Recounted(item, item.ev \union ev) IN
    [all EXCEPT !.tier1 = @ \/ item.tier1,
                !.tier = IF item.status = "published" /\ item.chunk = "open"
                         THEN Bucket(all.distinct) ELSE @]

Merge(w) ==
    /\ work[w].at = "merge"
    /\ items' = [items EXCEPT ![work[w].item] = Merged(items[work[w].item], {work[w].ep})]
    /\ work' = [work EXCEPT ![w] = Stage(work[w], "promote")]
    /\ UNCHANGED <<cited, lease, wrote, proposal, faults>>

Propose(w) ==
    /\ work[w].at = "propose"
    /\ \E k \in 0..MaxItems :
          /\ ProposeKnowledge(work[w].text, work[w].canon, {work[w].ep}, k)
          /\ work' = [work EXCEPT ![w] = IF k = 0 THEN Rest
                                         ELSE [work[w] EXCEPT !.at = "promote", !.item = k]]
    /\ UNCHANGED <<cited, lease, wrote, proposal, faults>>

\* promote_if_eligible: reads the item again, then marks it or, where the tenant
\* opted in, takes it through the gate of publish_knowledge.
Decide(w) ==
    LET item == items[work[w].item] IN
    /\ work[w].at = "promote"
    /\ work' = [work EXCEPT ![w] = IF item.status = "candidate" /\ Supported(item)
                                   THEN Stage(work[w], "promoted") ELSE Rest]
    /\ UNCHANGED <<items, cited, lease, wrote, proposal, faults>>

Promote(w) ==
    /\ work[w].at = "promoted"
    /\ MarkEligible(work[w].item) \/ PublishKnowledge(work[w].item)
    /\ work' = [work EXCEPT ![w] = Rest]
    /\ UNCHANGED <<cited, lease, wrote, proposal, faults>>

\* A worker dies, or its request fails half-way (a statement fails, the chunk of a
\* tag suggestion is not known, the server stops).
Fail(w) ==
    /\ work[w] # Rest /\ faults < MaxFaults
    /\ faults' = faults + 1
    /\ work' = [work EXCEPT ![w] = Rest]
    /\ UNCHANGED <<items, cited, lease, wrote, proposal>>

-----------------------------------------------------------------------------

Consolidate(w) ==
    \/ Complete(w) \/ WriteFacts(w) \/ Merge(w) \/ Propose(w) \/ Decide(w) \/ Promote(w)
    \/ \E judged \in 0..Len(items) : Find(w, judged)

KnowledgeNext ==
    \/ \E w \in Worker : Consolidate(w) \/ Fail(w) \/ (\E e \in Episode : Lease(w, e))
    \/ \E e \in Episode : AppendEpisode(e) \/ Lapse(e) \/ ForgetEvidence(e)
    \/ \E s \in Statement, e \in Episode : ProposeLearning(s, e)
    \/ \E k \in DOMAIN items : Publish(k) \/ RejectKnowledge(k) \/ ForgetLesson(k)
    \/ ProposalEligible

KnowledgeSpec == KnowledgeInit /\ [][KnowledgeNext]_lessonVars

-----------------------------------------------------------------------------
(* Properties *)

LessonTypeOK ==
    /\ items \in Seq(Item) /\ Len(items) <= MaxItems
    /\ \A k \in DOMAIN items :
          /\ items[k].ev \subseteq cited
          /\ (items[k].chunk # None) <=> (items[k].status \in {"published", "invalidated"})
    /\ cited \subseteq Episode
    /\ lease \in [Episode -> {"none", "held", "lapsed", "processed"}]
    /\ wrote \in [Episode -> Nat] /\ work \in [Worker -> Task]
    /\ proposal \in 0..Len(items) /\ faults \in 0..MaxFaults

\* publish_knowledge with the cascade of forget: a lesson that recall can serve is
\* published and rests on evidence of at least KMin entities that nobody withdrew,
\* however proposals, merges, promotions and forgetting interleave.
ServedSupported ==
    \A k \in DOMAIN items :
       items[k].chunk = "open" =>
          items[k].status = "published" /\ Entities(items[k].ev) >= KMin

\* complete: however often an episode is leased again and completed, what its
\* worker extracted is written once.
WrittenOnce == \A e \in Episode : wrote[e] <= 1

\* reject_knowledge and the rejection memory of propose_knowledge: no proposal
\* brings a rejected canonical form back as a new item.
NotRevived ==
    \A k \in DOMAIN items' \ DOMAIN items :
       items'[k].canon # None =>
          \A l \in DOMAIN items :
             items[l].status = "rejected" => items[l].canon # items'[k].canon

RejectionStands == [][NotRevived]_lessonVars

\* complete: "Idempotent replay after a worker retry: drop the payload, the first
\* completion already wrote it."
FirstCompletionWrote ==
    \A e \in Episode :
       (lease[e] = "processed" /\ \A w \in Worker : work[w].ep # e) => wrote[e] = 1

\* publish_knowledge: "corroboration unmet: needs >=2 distinct writers or tier-1
\* evidence".  forget leaves writer_count and has_tier1_evidence as they were.
PublishedCorroborated ==
    [][\A k \in DOMAIN items :
          (items'[k].status = "published" /\ items[k].status # "published") =>
             (Writers(items[k].ev) >= 2 \/ items[k].ev \intersect Tier1 # {})]_lessonVars

=============================================================================
