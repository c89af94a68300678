------------------------------ MODULE Documents ------------------------------
(***************************************************************************)
(* The chunk store as one tenant sees it: versions of a mirrored document  *)
(* (ingest_document, upsert_chunks), observations with declared lineage    *)
(* (remember), recorded actions, retirement, forgetting, ACL correction,   *)
(* the token sweep of a deprovisioned principal, and the materialized      *)
(* brief of one entity.  A chunk's text is told apart by its place and its *)
(* valid_from; recall reads the open chunks (valid_to IS NULL) whose       *)
(* visibility meets the reader's principals.  Each transaction is a step;  *)
(* what a handler reads before a transaction is a step of its own.         *)
(***************************************************************************)
EXTENDS Integers, FiniteSets, FiniteSetsExt

CONSTANTS
    Principal,   \* principals, one token each
    Leaver,      \* those that are deprovisioned
    Audience,    \* visibilities a connector or an administrator names
    Writer,      \* slots for deliveries and observations under way
    MaxTime,     \* bound: instants of the source's clock
    MaxSize,     \* bound: chunks of a document version
    MaxEpisodes, \* bound: L0 episodes
    Batch        \* SWEEP_BATCH

ASSUME DocumentAssumption ==
    /\ Audience \subseteq SUBSET Principal /\ Leaver \subseteq Principal
    /\ MaxTime \in Nat \ {0} /\ MaxSize \in Nat \ {0} /\ MaxEpisodes \in Nat
    /\ Batch \in Nat \ {0} /\ Principal # {}

VARIABLES
    rows,     \* chunks: [doc, seq, from, ep, open, vis, tag, ins, id]
    eps,      \* episodes appended
    write,    \* [Writer -> the document version or observation to be indexed]
    acts,     \* visibilities of the entity's recorded actions
    brief,    \* [made, body, vis, stale] of the entity
    refresh,  \* [at, mem, vis] of the refresh under way
    raced,    \* a write marked the brief while its refresh was under way (history)
    sweep,    \* [on, tok, last, due] of retract_token_from_chunks
    touched   \* chunks whose visibility was corrected or retracted (history)

vars == <<rows, eps, write, acts, brief, refresh, raced, sweep, touched>>

-----------------------------------------------------------------------------

Mirrored == 0                 \* the mirrored document; n > 0 is the one of episode n
Place == 0..(MaxSize - 1)
Id == Nat \ {0}               \* a sequence of the database

Row == [doc : 0..MaxEpisodes, seq : Place, from : 1..MaxTime, ep : 1..MaxEpisodes,
        open : BOOLEAN, vis : SUBSET Principal, tag : BOOLEAN, ins : SUBSET Id, id : Id]

Delivery == [doc : 0..MaxEpisodes, from : 1..MaxTime, size : 0..MaxSize, ep : 0..MaxEpisodes,
             vis : SUBSET Principal, tag : BOOLEAN, ins : SUBSET Id]

NoWrite == [doc |-> Mirrored, from |-> 1, size |-> 0, ep |-> 0, vis |-> {}, tag |-> FALSE, ins |-> {}]
NoSweep == [on |-> FALSE, tok |-> CHOOSE p \in Principal : TRUE, last |-> 0, due |-> {}]

Open == {c \in rows : c.open}
About == {c \in Open : c.tag}            \* open chunks tagged with the entity
Ids(chunks) == {c.id : c \in chunks}
LastId == Max({0} \union Ids(rows))

Init ==
    /\ rows = {} /\ eps = 0
    /\ write = [w \in Writer |-> NoWrite]
    /\ acts = {}
    /\ brief = [made |-> FALSE, body |-> {}, vis |-> {}, stale |-> FALSE]
    /\ refresh = [at |-> "idle", mem |-> {}, vis |-> {}]
    /\ raced = FALSE
    /\ sweep = NoSweep
    /\ touched = {}

-----------------------------------------------------------------------------
(* upsert_chunks *)

Delivers(d, c) == c.doc = d.doc /\ c.open /\ c.from < d.from

\* The version before this one at each place that the delivery has.
Replaced(d) == {c \in rows : Delivers(d, c) /\ c.seq < d.size}

\* Mutant of Remainder: a shorter version leaves the rest of the longer one.
NoTail(d) == {}

\* Shrink close: places beyond the last one delivered.
Remainder(d) == {c \in rows : Delivers(d, c) /\ d.size > 0 /\ c.seq >= d.size}

\* ON CONFLICT (.., seq, valid_from) DO NOTHING.
Fresh(d) ==
    {[doc |-> d.doc, seq |-> s, from |-> d.from, ep |-> d.ep, open |-> TRUE, vis |-> d.vis,
      tag |-> d.tag, ins |-> d.ins, id |-> LastId + s + 1] :
       s \in {s \in 0..(d.size - 1) :
                \A c \in rows : ~(c.doc = d.doc /\ c.seq = s /\ c.from = d.from)}}

\* UPDATE of some rows, each to its new contents.
Update(chunks, new) == (rows \ chunks) \union {new[c] : c \in chunks}

Close(chunks) == Update(chunks, [c \in chunks |-> [c EXCEPT !.open = FALSE]])

\* mark_briefs_stale_tx: only a brief that exists can be marked.
MarkStale(affected) ==
    /\ brief' = IF affected /\ brief.made THEN [brief EXCEPT !.stale = TRUE] ELSE brief
    /\ raced' = (raced \/ (affected /\ refresh.at # "idle"))

\* Mutant of Affected: only the tags of what is closed count.
AffectedClosed(d) == d.size > 0 /\ \E c \in Remainder(d) : c.tag

\* The tags of what is written, and of the tail that is closed.
Affected(d) == d.size > 0 /\ (d.tag \/ \E c \in Remainder(d) : c.tag)

UpsertChunks(w) ==
    LET d == write[w] IN
    /\ d.ep # 0
    /\ rows' = Close(Replaced(d) \union Remainder(d)) \union Fresh(d)
    /\ MarkStale(Affected(d))
    /\ write' = [write EXCEPT ![w] = NoWrite]
    /\ UNCHANGED <<eps, acts, refresh, sweep, touched>>

-----------------------------------------------------------------------------
(* What is written *)

InsertEpisode == eps < MaxEpisodes /\ eps' = eps + 1

\* ingest_document: the episode is appended and the text is split and encoded; a
\* delivery whose extraction failed, or that had no content, has no chunks.
IngestDocument(w, from, size, vis, tag) ==
    /\ write[w] = NoWrite /\ InsertEpisode
    /\ write' = [write EXCEPT ![w] = [doc |-> Mirrored, from |-> from, size |-> size, ep |-> eps',
                                      vis |-> vis, tag |-> tag, ins |-> {}]]
    /\ UNCHANGED <<rows, acts, brief, refresh, raced, sweep, touched>>

\* resolve_derivation_inputs: the open chunks a reader can see.
Resolvable(scope) == {c \in Open : c.vis \intersect scope # {}}

Intersection(chunks) == {p \in Principal : \A c \in chunks : p \in c.vis}

\* Mutant of Ceiling: the writer's own scope is the ceiling of a policy.
CeilingScope(scope, inputs) == scope

\* What a visibility policy may name, and the visibility without one: the
\* audience that the inputs share, or the writer's compiled scope.
Ceiling(scope, inputs) == IF inputs = {} THEN scope ELSE Intersection(inputs)

\* remember: lineage is resolved under the writer's scope (a reference that is
\* not visible refuses the request) before the episode is appended; the
\* observation is about the entity.
Remember(w, scope, inputs, vis) ==
    /\ write[w] = NoWrite /\ InsertEpisode
    /\ scope # {} /\ inputs \subseteq Resolvable(scope)
    /\ vis \subseteq Ceiling(scope, inputs)
    /\ write' = [write EXCEPT ![w] = [doc |-> eps', from |-> 1, size |-> 1, ep |-> eps',
                                      vis |-> vis, tag |-> TRUE, ins |-> Ids(inputs)]]
    /\ UNCHANGED <<rows, acts, brief, refresh, raced, sweep, touched>>

\* record_action: episode, action, chunk and mark in one transaction; a replay
\* of the action_id is rolled back.
RecordAction(vis) ==
    /\ acts = {} /\ InsertEpisode
    /\ acts' = {vis}
    /\ rows' = rows \union {[doc |-> eps', seq |-> 0, from |-> 1, ep |-> eps', open |-> TRUE,
                             vis |-> vis, tag |-> TRUE, ins |-> {}, id |-> LastId + 1]}
    /\ MarkStale(TRUE)
    /\ UNCHANGED <<write, refresh, sweep, touched>>

-----------------------------------------------------------------------------
(* What is withdrawn *)

\* retire_document: closed, and visible to nobody.
RetireDocument ==
    LET gone == {c \in Open : c.doc = Mirrored} IN
    /\ gone # {}
    /\ rows' = Update(gone, [c \in gone |-> [c EXCEPT !.open = FALSE, !.vis = {}]])
    /\ touched' = touched \union Ids(gone)
    /\ UNCHANGED <<eps, write, acts, brief, refresh, raced, sweep>>

\* forget: a chunk, or all chunks of an episode.
Forget(chunks) ==
    /\ chunks # {}
    /\ rows' = Close(chunks)
    /\ UNCHANGED <<eps, write, acts, brief, refresh, raced, sweep, touched>>

ForgetChunk == \E c \in Open : Forget({c})
ForgetEpisode == \E e \in 1..eps : Forget({c \in Open : c.ep = e})

\* correct_chunk_acl: every version of the document, closed ones too.
CorrectChunkAcl(vis) ==
    LET doc == {c \in rows : c.doc = Mirrored} IN
    /\ doc # {}
    /\ rows' = Update(doc, [c \in doc |-> [c EXCEPT !.vis = vis]])
    /\ touched' = touched \union Ids(doc)
    /\ sweep' = [sweep EXCEPT !.due = IF sweep.tok \in vis THEN @ \ Ids(doc) ELSE @]
    /\ UNCHANGED <<eps, write, acts, brief, refresh, raced>>

-----------------------------------------------------------------------------
(* retract_token_from_chunks *)

Carrying(p) == {c \in rows : p \in c.vis}

RetractToken(p) ==
    /\ ~sweep.on /\ sweep.due = {}
    /\ sweep' = [on |-> TRUE, tok |-> p, last |-> 0, due |-> Ids(Carrying(p))]
    /\ UNCHANGED <<rows, eps, write, acts, brief, refresh, raced, touched>>

\* The next batch in the order of ids.
Swept ==
    LET next == {c \in Carrying(sweep.tok) : c.id > sweep.last} IN
    {c \in next : Cardinality({d \in next : d.id <= c.id}) <= Batch}

\* One transaction per batch; a short batch is the last.
SweepBatch ==
    /\ sweep.on
    /\ rows' = Update(Swept, [c \in Swept |-> [c EXCEPT !.vis = @ \ {sweep.tok}]])
    /\ touched' = touched \union Ids(Swept)
    /\ sweep' = [sweep EXCEPT !.on = Cardinality(Swept) = Batch,
                              !.last = IF Cardinality(Swept) = Batch THEN Max(Ids(Swept)) ELSE 0]
    /\ UNCHANGED <<eps, write, acts, brief, refresh, raced>>

-----------------------------------------------------------------------------
(* The brief: refresh_brief, from a read of a missing or stale brief or from the
   batch refresh *)

RefreshRead ==
    /\ refresh.at = "idle" /\ (~brief.made \/ brief.stale)
    /\ refresh' = [at |-> "chunks", mem |-> Ids(About), vis |-> Intersection(About)]
    /\ raced' = FALSE
    /\ UNCHANGED <<rows, eps, write, acts, brief, sweep, touched>>

\* intersect_visibilities over chunks and actions; no sources, no audience.
RefreshActs ==
    /\ refresh.at = "chunks"
    /\ refresh' = [refresh EXCEPT !.at = "acts",
                      !.vis = IF refresh.mem = {} /\ acts = {} THEN {}
                              ELSE {p \in @ : \A v \in acts : p \in v}]
    /\ UNCHANGED <<rows, eps, write, acts, brief, raced, sweep, touched>>

\* The row is written, and is not stale.
RefreshWrite ==
    /\ refresh.at = "acts"
    /\ brief' = [made |-> TRUE, body |-> refresh.mem, vis |-> refresh.vis, stale |-> FALSE]
    /\ refresh' = [at |-> "idle", mem |-> {}, vis |-> {}]
    /\ UNCHANGED <<rows, eps, write, acts, raced, sweep, touched>>

-----------------------------------------------------------------------------

Next ==
    \/ \E w \in Writer :
          \/ UpsertChunks(w)
          \/ \E from \in 1..MaxTime, size \in 0..MaxSize, vis \in Audience, tag \in BOOLEAN :
                IngestDocument(w, from, size, vis, tag)
          \/ \E scope \in SUBSET Principal : \E inputs \in SUBSET Resolvable(scope) :
             \E vis \in Audience \union {Ceiling(scope, inputs)} : Remember(w, scope, inputs, vis)
    \/ \E vis \in Audience : RecordAction(vis) \/ CorrectChunkAcl(vis)
    \/ RetireDocument \/ ForgetChunk \/ ForgetEpisode
    \/ \E p \in Leaver : RetractToken(p)
    \/ SweepBatch \/ RefreshRead \/ RefreshActs \/ RefreshWrite

Spec == Init /\ [][Next]_vars

-----------------------------------------------------------------------------
(* Properties *)

TypeOK ==
    /\ rows \subseteq Row /\ eps \in 0..MaxEpisodes
    /\ \A c, d \in rows : c.id = d.id => c = d
    /\ write \in [Writer -> Delivery]
    /\ acts \subseteq SUBSET Principal /\ raced \in BOOLEAN /\ touched \subseteq Id
    /\ brief \in [made : BOOLEAN, body : SUBSET Id, vis : SUBSET Principal, stale : BOOLEAN]
    /\ refresh \in [at : {"idle", "chunks", "acts"}, mem : SUBSET Id, vis : SUBSET Principal]
    /\ sweep \in [on : BOOLEAN, tok : Principal, last : Nat, due : SUBSET Id]

\* upsert_chunks: a version of the document stays open beside a newer one only if
\* it was delivered after it; in particular a shorter version closes the tail of
\* the longer one before it.
NoStaleTail ==
    \A c, d \in rows :
       (c.doc = Mirrored /\ d.doc = Mirrored /\ c.open /\ c.from < d.from) => c.id > d.id

\* remember: a chunk that cites lineage is open to nobody who was not in the
\* audience of each of its inputs, unless that input was corrected since.
LineageNarrows ==
    \A c, i \in rows : (i.id \in c.ins /\ i.id \notin touched) => c.vis \subseteq i.vis

\* retract_token_from_chunks: once the sweep of a principal's token is over, no
\* chunk it set out to rewrite carries the token, superseded versions included,
\* whatever was delivered, forgotten or corrected between its batches; only a
\* correction that names the principal again brings it back.
SweptClean == ~sweep.on => \A c \in rows : c.id \in sweep.due => sweep.tok \notin c.vis

\* Both together: nobody is in the audience of a chunk whom its lineage or a
\* finished sweep keeps out.
AudienceHolds == LineageNarrows /\ SweptClean

\* mark_briefs_stale_tx: a brief that claims to be current has every open chunk of
\* its entity in it, unless a write marked it in the middle of a refresh.
BriefHasAll == (brief.made /\ ~brief.stale /\ ~raced) => Ids(About) \subseteq brief.body

\* SPEC.md: "A brief summarizing three docs is visible only to principals who can
\* see all three", "and is invalidated whenever any ancestor's scope narrows".
\* Correction, retraction and retirement mark no brief.
SummaryNarrows ==
    (brief.made /\ ~brief.stale) =>
       \A c \in rows : c.id \in brief.body => brief.vis \subseteq c.vis

=============================================================================
