----------------------------- MODULE Resolution -----------------------------
(***************************************************************************)
(* Entity resolution of one tenant: the append-only evidence ledger, the   *)
(* Tier-1 producers that fill it from the current facts, the materializer  *)
(* that folds it and writes the alias and tag rows one statement at a      *)
(* time, the administrator's handlers and the debounced background loop.   *)
(* The loop and the administrator's runs are not serialized against each   *)
(* other.  Time is abstracted: a tick of the loop finds the debounce       *)
(* window elapsed or does not happen.                                      *)
(***************************************************************************)
EXTENDS EvidenceFold

CONSTANTS
  FactValue,    \* the facts <<member, field, value>> a source may report
  InitFacts,    \* the facts current when the server starts
  CanonicalOf,  \* canonicalize_email over the model's raw values, "" = refused
  NamespaceOf,  \* the key namespace of each member's e-mail field
  ParentOf,     \* the member a foreign-key value names
  Catalogue,    \* the evidence rows the administrator may append
  ConfigRows,   \* the configuration rows <<kind, row>> the administrator may put
  Crosswalk,    \* the alias rows <<member, canonical>> they may put
  MaxRows,      \* bound: rows of the ledger
  MaxRuns,      \* bound: runs of the materializer
  MaxEdits      \* bound: ingests and administrator's writes

VARIABLES
  facts,     \* the current facts
  ledger,    \* entity_evidence: sequence of [row, live, made]
  config,    \* entity_resolution_config by key kind
  aliases,   \* entity_aliases: each member's canonical, None when unmapped
  tags,      \* chunks.entity_tags
  dirty,     \* the scheduler's dirty flag
  run,       \* each runner's run in progress
  quiet,     \* history: runners whose reads and writes nothing overtook
  settled,   \* history: the last run ended quiet and nothing was written since
  unread,    \* history: a fact changed that no run has read
  runs, edits

vars == <<facts, ledger, config, aliases, tags, dirty, run, quiet, settled,
          unread, runs, edits>>

Runner == {"loop", "admin"}

Row(l, r, tier, method, key, pol) ==
  [left |-> l, right |-> r, tier |-> tier, method |-> method, key |-> key,
   pol |-> pol]

NoPlan == [m \in {} |-> None]

Idle == [at |-> "idle", rows |-> {}, ev |-> NoPlan, cfg |-> NoPlan,
         plan |-> NoPlan, tags |-> NoPlan]

Init ==
  /\ facts = InitFacts
  /\ ledger = <<>>
  /\ config = NoPlan
  /\ aliases = [m \in Member |-> None]
  /\ tags = [c \in Chunk |-> {}]
  /\ dirty = FALSE
  /\ run = [r \in Runner |-> Idle]
  /\ quiet = {}
  /\ settled = FALSE
  /\ unread = FALSE
  /\ runs = 0
  /\ edits = 0

-----------------------------------------------------------------------------
(* The ledger. *)

LiveOf(rows) == [i \in {i \in DOMAIN rows : rows[i].live} |-> rows[i].row]

\* all_live_evidence, each row at its place in the ledger.
Live == LiveOf(ledger)

\* insert_evidence: a row of its own id.
Appended(row) == Append(ledger, [row |-> row, live |-> TRUE, made |-> FALSE])

\* Mutant of Produced: only live rows are looked at.
ProducedAnew(row) ==
  IF \E i \in DOMAIN ledger : ledger[i].made /\ ledger[i].live /\ ledger[i].row = row
  THEN ledger
  ELSE Append(ledger, [row |-> row, live |-> TRUE, made |-> TRUE])

\* insert_evidence_with_id: the same claim made before is left as it is.
Produced(row) ==
  IF \E i \in DOMAIN ledger : ledger[i].made /\ ledger[i].row = row
  THEN ledger
  ELSE Append(ledger, [row |-> row, live |-> TRUE, made |-> TRUE])

Disturb ==
  /\ quiet' = {}
  /\ settled' = FALSE

Edit ==
  /\ edits < MaxEdits
  /\ edits' = edits + 1

AdminEvidenceInsert(row) ==
  /\ Edit
  /\ Len(ledger) < MaxRows
  /\ ledger' = Appended(row)
  /\ Disturb
  /\ UNCHANGED <<facts, config, aliases, tags, dirty, run, unread, runs>>

AdminEvidenceRetract(i) ==
  /\ Edit
  /\ ledger[i].live
  /\ ledger' = [ledger EXCEPT ![i].live = FALSE]
  /\ Disturb
  /\ UNCHANGED <<facts, config, aliases, tags, dirty, run, unread, runs>>

\* admin_resolution_config_put.
PutConfig(kind, row) ==
  /\ Edit
  /\ config' = [k \in DOMAIN config \cup {kind} |->
                  IF k = kind THEN row ELSE config[k]]
  /\ Disturb
  /\ UNCHANGED <<facts, ledger, aliases, tags, dirty, run, unread, runs>>

AliasedOnce(m, canonical) ==
  IF aliases[m] = None THEN [aliases EXCEPT ![m] = canonical] ELSE aliases

\* upsert_entity_alias.
Aliased(m, canonical) == [aliases EXCEPT ![m] = canonical]

\* admin_entity_aliases, for one member.
AdminEntityAliases(m, canonical) ==
  /\ Edit
  /\ aliases' = Aliased(m, canonical)
  /\ Disturb
  /\ UNCHANGED <<facts, ledger, config, tags, dirty, run, unread, runs>>

-----------------------------------------------------------------------------
(* Ingest and the background loop. *)

\* A source reports a value, or drops its entity: the write, then mark_dirty.
Ingest(fact) ==
  /\ Edit
  /\ \/ /\ fact \notin facts
        /\ facts' = {f \in facts : f[1] # fact[1] \/ f[2] # fact[2]} \cup {fact}
     \/ /\ fact \in facts
        /\ facts' = {f \in facts : f[1] # fact[1]}
  /\ dirty' = TRUE
  /\ unread' = TRUE
  /\ UNCHANGED <<ledger, config, aliases, tags, run, quiet, settled, runs>>

Start(r, at) ==
  /\ run[r].at = "idle"
  /\ runs < MaxRuns
  /\ runs' = runs + 1
  /\ run' = [run EXCEPT ![r].at = at]

\* auto_resolve_loop finds the tenant due.
Tick ==
  /\ dirty
  /\ Start("loop", "facts")
  /\ UNCHANGED <<facts, ledger, config, aliases, tags, dirty, quiet, settled,
                 unread, edits>>

\* admin_trigger_fold folds what is there; admin_run_resolution produces first.
AdminRun(at) ==
  /\ Start("admin", at)
  /\ UNCHANGED <<facts, ledger, config, aliases, tags, dirty, quiet, settled,
                 unread, edits>>

\* admin_entity_decide: the verdict is appended, then the ledger is folded.
AdminEntityDecide(l, r, confirm) ==
  /\ Edit
  /\ Len(ledger) < MaxRows
  /\ Start("admin", "ledger")
  /\ ledger' = Appended(IF confirm THEN Row(l, r, 2, "human_confirmed", "", 1)
                        ELSE Row(l, r, 2, "human_rejected", "", -1))
  /\ Disturb
  /\ UNCHANGED <<facts, config, aliases, tags, dirty, unread>>

-----------------------------------------------------------------------------
(* produce_tier1_evidence. *)

\* The canonical e-mail a fact gives its member, "" when it gives none.
Named(f) == IF f[2] = "email" THEN CanonicalOf[f[3]] ELSE ""

\* Mutant of ShareEmail: addresses are compared across namespaces.
ShareEmailAnywhere(f, g) ==
  LET row == Lookup(config, "email") IN
  /\ row.eligible /\ f[1] < g[1]
  /\ Named(f) # "" /\ Named(f) = Named(g) /\ Named(f) \notin row.deny

\* Within one namespace every two members that share a canonical e-mail.
ShareEmail(f, g) ==
  LET row == Lookup(config, "email") IN
  /\ row.eligible /\ f[1] < g[1]
  /\ Named(f) # "" /\ Named(f) = Named(g) /\ Named(f) \notin row.deny
  /\ NamespaceOf[f[1]] = NamespaceOf[g[1]]

EmailRows ==
  {Row(p[1][1], p[2][1], 1, "email_exact", Named(p[1]), 1) :
     p \in {p \in facts \X facts : ShareEmail(p[1], p[2])}}

\* Every two members that carry the same id of an external system.
ShareId(f, g) ==
  LET row == Lookup(config, "external_id") IN
  /\ row.eligible /\ f[1] < g[1]
  /\ f[2] = "external_id" /\ g[2] = "external_id" /\ f[3] = g[3]
  /\ f[3] \notin row.deny

ExternalIdRows ==
  {Row(p[1][1], p[2][1], 1, "external_id", p[1][3], 1) :
     p \in {p \in facts \X facts : ShareId(p[1], p[2])}}

\* A child row and the parent its foreign key names, in ref order.
CrmFkRows ==
  {LET p == ParentOf[f[3]]
   IN Row(Min({f[1], p}), Max({f[1], p}), 1, "crm_fk", "account", 1) :
     f \in {f \in facts : f[2] = "fk" /\ ParentOf[f[3]] # f[1]}}

Tier1Rows == CrmFkRows \cup EmailRows \cup ExternalIdRows

ReadFacts(r) ==
  /\ run[r].at = "facts"
  /\ run' = [run EXCEPT ![r].rows = Tier1Rows,
                        ![r].at = IF Tier1Rows = {} THEN "ledger" ELSE "insert"]
  /\ unread' = FALSE
  /\ UNCHANGED <<facts, ledger, config, aliases, tags, dirty, quiet, settled,
                 runs, edits>>

InsertRow(r) ==
  /\ run[r].at = "insert"
  /\ \E row \in run[r].rows :
       /\ ledger' = Produced(row)
       /\ run' = [run EXCEPT ![r].rows = @ \ {row},
                             ![r].at = IF run[r].rows = {row} THEN "ledger" ELSE @]
       /\ IF ledger' = ledger THEN UNCHANGED <<quiet, settled>> ELSE Disturb
  /\ UNCHANGED <<facts, config, aliases, tags, dirty, unread, runs, edits>>

-----------------------------------------------------------------------------
(* run_full_fold: three reads, then one statement per row of the plan. *)

ReadLedger(r) ==
  /\ run[r].at = "ledger"
  /\ run' = [run EXCEPT ![r].at = "config", ![r].ev = Live]
  /\ quiet' = quiet \cup {r}
  /\ UNCHANGED <<facts, ledger, config, aliases, tags, dirty, settled, unread,
                 runs, edits>>

ReadConfig(r) ==
  /\ run[r].at = "config"
  /\ run' = [run EXCEPT ![r].at = "known", ![r].cfg = config]
  /\ UNCHANGED <<facts, ledger, config, aliases, tags, dirty, quiet, settled,
                 unread, runs, edits>>

\* all_canonical_keys, and the fold itself.
ReadKnown(r) ==
  /\ run[r].at = "known"
  /\ LET e == run[r].ev
         c == run[r].cfg
     IN run' = [run EXCEPT ![r].at = "write", ![r].ev = NoPlan, ![r].cfg = NoPlan,
                           ![r].plan = Aliases(e, c),
                           ![r].tags = ChunkTags(e, c, Range(aliases) \ {None})]
  /\ UNCHANGED <<facts, ledger, config, aliases, tags, dirty, quiet, settled,
                 unread, runs, edits>>

WriteAlias(r) ==
  /\ run[r].at = "write"
  /\ run[r].plan # NoPlan
  /\ LET m == Min(DOMAIN run[r].plan) IN
       /\ aliases' = Aliased(m, run[r].plan[m])
       /\ run' = [run EXCEPT ![r].plan = RestrictDomain(@, LAMBDA x : x # m)]
  /\ quiet' = quiet \cap {r}
  /\ settled' = FALSE
  /\ UNCHANGED <<facts, ledger, config, tags, dirty, unread, runs, edits>>

WriteTag(r) ==
  /\ run[r].at = "write"
  /\ run[r].plan = NoPlan
  /\ run[r].tags # NoPlan
  /\ LET c == Min(DOMAIN run[r].tags) IN
       /\ tags' = [tags EXCEPT ![c] = run[r].tags[c]]
       /\ run' = [run EXCEPT ![r].tags = RestrictDomain(@, LAMBDA x : x # c)]
  /\ UNCHANGED <<facts, ledger, config, aliases, dirty, quiet, settled, unread,
                 runs, edits>>

\* The run returns; the loop then stamps the tenant whatever the outcome.
Return(r) ==
  /\ run' = [run EXCEPT ![r] = Idle]
  /\ dirty' = IF r = "loop" THEN FALSE ELSE dirty
  /\ UNCHANGED <<facts, ledger, config, aliases, tags, runs, edits>>

Finish(r) ==
  /\ run[r].at = "write"
  /\ run[r].plan = NoPlan
  /\ run[r].tags = NoPlan
  /\ Return(r)
  /\ settled' = (settled \/ r \in quiet)
  /\ quiet' = quiet \ {r}
  /\ UNCHANGED unread

\* A statement fails: the rows written so far stay.  What the loop's run was
\* to read is given up with it.
Fail(r) ==
  /\ run[r].at # "idle"
  /\ Return(r)
  /\ unread' = (unread /\ ~(r = "loop" /\ run[r].at = "facts"))
  /\ quiet' = quiet \ {r}
  /\ UNCHANGED settled

Next ==
  \/ \E f \in FactValue : Ingest(f)
  \/ \E row \in Catalogue : AdminEvidenceInsert(row)
  \/ \E i \in DOMAIN ledger : AdminEvidenceRetract(i)
  \/ \E c \in ConfigRows : PutConfig(c[1], c[2])
  \/ \E c \in Crosswalk : AdminEntityAliases(c[1], c[2])
  \/ \E l, r \in Member, confirm \in BOOLEAN :
       l < r /\ AdminEntityDecide(l, r, confirm)
  \/ Tick
  \/ \E at \in {"facts", "ledger"} : AdminRun(at)
  \/ \E r \in Runner :
       \/ ReadFacts(r) \/ InsertRow(r)
       \/ ReadLedger(r) \/ ReadConfig(r) \/ ReadKnown(r)
       \/ WriteAlias(r) \/ WriteTag(r) \/ Finish(r) \/ Fail(r)

Spec == Init /\ [][Next]_vars

-----------------------------------------------------------------------------
(* Properties. *)

\* Rows, runs and tables keep their shape; a finished run leaves nothing behind.
TypeOK ==
  /\ facts \subseteq FactValue
  /\ \A f, g \in facts : f[1] = g[1] /\ f[2] = g[2] => f = g
  /\ \A i \in DOMAIN ledger : ledger[i].live \in BOOLEAN /\ ledger[i].made \in BOOLEAN
  /\ \A i, j \in DOMAIN ledger :
       ledger[i].made /\ ledger[j].made /\ ledger[i].row = ledger[j].row => i = j
  /\ \A r \in Runner : run[r].at = "idle" => run[r] = Idle
  /\ dirty \in BOOLEAN /\ unread \in BOOLEAN

\* Two members a live anti-link separates are never in one merged component,
\* through whatever chain of positive rows they are connected (the quarantine
\* of fold_with_known_canonicals).
RejectedApart ==
  \A p \in AntiLinks(Live) : \A c \in Merges(Live, config) : ~(p \subseteq c)

\* Tier 3, which no human judged.
Mention(e) ==
  e.tier \notin {1, 2} /\ ~(e.pol < 0) /\ e.method \notin {"human_confirmed", "human_rejected"}

Unmentioned(E) == [i \in {i \in DOMAIN E : ~Mention(E[i])} |-> E[i]]

\* Leaving every mention out of the ledger changes no merge: Tier 3 annotates
\* chunks and forms no edge, however many mentions name the same two members.
MentionsNeverMerge == Merges(Live, config) = Merges(Unmentioned(Live), config)

\* A row that ties x and y: it names both, or it names one of them and a key that
\* some row ties the other to.
Ties(e, x, y, E) ==
  /\ e.pol >= 0
  /\ \/ Pair(e) = {x, y}
     \/ /\ OneKey(e) /\ Leaf(e) \in {x, y}
        /\ \A z \in {x, y} : \E f \in Range(E) : OneKey(f) /\ Leaf(f) = z
                                                /\ KeySide(f) = KeySide(e)

\* A strong method or a human ties x and y, or two rows that differ in their
\* method, in their key or in going through a key do.
Corroborated(x, y, E) ==
  LET tying == {e \in Range(E) : Ties(e, x, y, E)}
  IN \/ \E e \in tying : e.method \in StrongMethods
     \/ \E e, f \in tying :
          <<e.method, e.key, OneKey(e)>> # <<f.method, f.key, OneKey(f)>>

Refs(E) == UNION {Pair(e) : e \in Range(E)}

Tied(E) ==
  UNION {{{x, y} : y \in {y \in Refs(E) : Corroborated(x, y, E)}} : x \in Refs(E)}

\* Two merged members are joined by a chain of corroborated pairs: no chain uses
\* a link that rests on one medium key (the per-kind bar of pass 3, with bars of
\* two keys or more).
ChainsCorroborated ==
  (\A k \in DOMAIN config : config[k].min \in Nat /\ config[k].min > 1)
    => \A c \in Merges(Live, config) : \E b \in Components(Tied(Live)) : c \subseteq b

\* Members of different key namespaces are never linked by a produced e-mail
\* row, whatever both sides' addresses canonicalize to.
NamespacesApart ==
  \A i \in DOMAIN ledger :
    ledger[i].made /\ ledger[i].row.method = "email_exact"
      => NamespaceOf[ledger[i].row.left] = NamespaceOf[ledger[i].row.right]

\* What fold_with_known_canonicals merges is sound: all three together, in every
\* state of the ledger, whatever is inserted, retracted, confirmed or rejected.
MergesSound ==
  /\ RejectedApart
  /\ MentionsNeverMerge
  /\ ChainsCorroborated

\* A run that nothing overtook leaves the alias rows its ledger calls for, from
\* whatever rows earlier, failed or overtaken runs and the crosswalk left
\* behind: re-running converges.
RerunConverges ==
  settled => LET plan == Aliases(Live, config)
             IN \A m \in DOMAIN plan : aliases[m] = plan[m]

\* What a step may do to the ledger: rows stay as they are and a retracted one
\* stays retracted, and no row is appended under an id a producer used before.
LedgerKept ==
  /\ \A i \in DOMAIN ledger :
       /\ i \in DOMAIN ledger'
       /\ ledger'[i].row = ledger[i].row /\ ledger'[i].made = ledger[i].made
       /\ ledger'[i].live => ledger[i].live
  /\ \A i \in DOMAIN ledger, j \in DOMAIN ledger' \ DOMAIN ledger :
       ledger[i].made /\ ledger'[j].made => ledger'[j].row # ledger[i].row

\* admin_evidence_retract against the producers: a retracted claim is not made
\* again by the next run, whose insert_evidence_with_id meets the old id.
RetractionStands == [][LedgerKept]_vars

\* After such a run no two members a live anti-link separates resolve to one
\* canonical (admin_entity_decide: a reject splits their component).
RejectSplits ==
  settled => \A p \in AntiLinks(Live) :
               \A m, n \in p \cap Member :
                 m # n => aliases[m] = None \/ aliases[m] # aliases[n]

\* A fact no run has read keeps the tenant dirty, or a run is still to read it
\* (stamp_resolved: an ingest that arrives mid-run re-dirties the tenant).
IngestStaysDue ==
  unread => dirty \/ \E r \in Runner : run[r].at = "facts"
=============================================================================
