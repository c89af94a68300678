---------------------------- MODULE EvidenceFold ----------------------------
(***************************************************************************)
(* The pure fold of entity resolution: from the live evidence rows of one  *)
(* tenant, by their place in the ledger, to the entities that are merged   *)
(* and the tags its chunks carry.  Refs are numbers: the order of the      *)
(* numbers is the order of the ref strings, which picks the canonical of a *)
(* component.                                                              *)
(* Every row is of one key namespace, so a configuration row is looked up  *)
(* by its key kind alone.  A canonical key only ever stands as the side a  *)
(* mention asserts.  Badges and audit records are left out.                *)
(***************************************************************************)
EXTENDS Integers, Sequences, FiniteSets, FiniteSetsExt, Functions

CONSTANTS
  Member,   \* refs "source:entity_id"
  Key,      \* refs "key:domain:value", a medium kind
  Chunk     \* refs "chunk:source:document:seq"

\* Refs are numbered from 1 in their order.
ASSUME RefAssumption == Member \subseteq Nat

None == 0

\* The key "canon:source:entity_id" of the component whose least member is m.
Canon(m) == 1000 + m

StrongMethods ==
  {"crm_fk", "external_id", "admin_crosswalk", "human_confirmed"}

KeyKind(e) ==
  CASE e.method = "domain_match"    -> "domain"
    [] e.method = "email_exact"     -> "email"
    [] e.method = "external_id"     -> "external_id"
    [] e.method = "crm_fk"          -> "crm_fk"
    [] e.method = "admin_crosswalk" -> "admin"
    [] OTHER                        -> "*"

\* EntityResolutionConfig::defaults, the fallback run_full_fold passes.
Fallback ==
  [eligible |-> TRUE, deny |-> {}, min |-> 2, tier1 |-> TRUE, tier3 |-> FALSE,
   cap |-> None]

Lookup(cfg, kind) == IF kind \in DOMAIN cfg THEN cfg[kind] ELSE Fallback

Pair(e) == {e.left, e.right}

AntiLinks(E) ==
  {Pair(e) : e \in {x \in Range(E) : x.pol < 0 \/ x.method = "human_rejected"}}

Confirmed(E) ==
  {Pair(e) : e \in {x \in Range(E) : x.pol >= 0 /\ x.method = "human_confirmed"}}

\* The bar a row of each tier clears before it may form an edge.
TierBar(e, cfg, confirmed) ==
  \/ e.tier = 1 /\ Lookup(cfg, KeyKind(e)).tier1
  \/ e.tier = 2 /\ Pair(e) \in confirmed

Forms(e, cfg, confirmed) ==
  LET row == Lookup(cfg, KeyKind(e)) IN
  /\ e.pol >= 0
  /\ e.method # "human_rejected"
  /\ row.eligible
  /\ e.key \notin row.deny
  /\ TierBar(e, cfg, confirmed)

\* The rows that add a candidate edge: those that clear the bar, then those a
\* human confirmed.  <<n, i>> is the place of row i in the n-th pass.
Candidates(E, cfg) ==
  LET clear == {i \in DOMAIN E : Forms(E[i], cfg, Confirmed(E))}
      sure == {i \in DOMAIN E : E[i].method = "human_confirmed" /\ E[i].pol >= 0}
  IN [x \in ({1} \X clear) \cup ({2} \X sure) |-> E[x[2]]]

UpTo(x, y) == x[1] < y[1] \/ (x[1] = y[1] /\ x[2] <= y[2])

Earliest(S) == CHOOSE x \in S : \A y \in S : UpTo(x, y)

Latest(S) == CHOOSE x \in S : \A y \in S : UpTo(y, x)

KeySide(e) == IF e.left \in Key THEN e.left ELSE e.right

Leaf(e) == IF e.left \in Key THEN e.right ELSE e.left

OneKey(e) == (e.left \in Key) # (e.right \in Key)

\* The members the rows at places S tie to key k.
Leaves(C, k, S) ==
  {Leaf(C[x]) : x \in {y \in S : OneKey(C[y]) /\ KeySide(C[y]) = k}}

\* add_candidate_edge: the pairs the row at x adds or corroborates.
Adds(C, x) ==
  LET e == C[x]
      far == Leaves(C, KeySide(e), {y \in DOMAIN C : UpTo(y, x)}) \ {Leaf(e)}
  IN CASE OneKey(e) -> {{Leaf(e), o} : o \in far}
       [] e.left \in Key /\ e.right \in Key -> {}
       [] OTHER -> {Pair(e)}

Pairs(C) == UNION {Adds(C, x) : x \in DOMAIN C}

RowsOf(C, p) == {x \in DOMAIN C : p \in Adds(C, x)}

\* The key the last key-mediated row of the pair went through.
ViaKey(C, p) ==
  LET keyed == {x \in RowsOf(C, p) : OneKey(C[x])} IN
  IF keyed = {} THEN None ELSE KeySide(C[Latest(keyed)])

\* What a row counts as when the independent keys of a pair are counted.
CountedKey(e) ==
  <<KeyKind(e), IF e.key = "" /\ ~OneKey(e) THEN e.method ELSE e.key>>

\* The kind of the first of the rows of the strongest tier.
Dominant(C, p) ==
  LET best == Min({C[x].tier : x \in RowsOf(C, p)})
  IN KeyKind(C[Earliest({x \in RowsOf(C, p) : C[x].tier = best})])

EnoughKeys(C, p, cfg, confirmed) ==
  \/ \E x \in RowsOf(C, p) : C[x].method \in StrongMethods
  \/ p \in confirmed
  \/ Cardinality({CountedKey(C[x]) : x \in RowsOf(C, p)})
       >= Max({1, Lookup(cfg, Dominant(C, p)).min})

FannedOut(C) ==
  {k \in Key : Cardinality(Leaves(C, k, DOMAIN C)) > 2}

\* The pairs that reach union-find.
Welded(C, cfg, confirmed) ==
  {p \in Pairs(C) :
     EnoughKeys(C, p, cfg, confirmed) /\ ViaKey(C, p) \notin FannedOut(C)}

\* A set of refs no pair of W leads out of.
Closed(S, W) == \A p \in W : p \cap S # {} => p \subseteq S

\* UnionFind: what the pairs of W join to ref r.
Block(r, W) ==
  LET around == {S \in SUBSET UNION W : r \in S /\ Closed(S, W)}
  IN {x \in UNION W : \A S \in around : x \in S}

\* The components; a ref no pair names is alone and merges nothing.
Components(W) == {Block(r, W) : r \in UNION W}

QuarantinedPair(c, E) == c \cap Member \in AntiLinks(E)

\* A component an anti-link falls inside goes to review instead.
Quarantined(c, E) == \E p \in AntiLinks(E) : p \subseteq c

OverCap(c) == Fallback.cap # None /\ Cardinality(c \cap Member) > Fallback.cap

Merges(E, cfg) ==
  {c \cap Member : c \in
    {c \in Components(Welded(Candidates(E, cfg), cfg, Confirmed(E))) :
        Cardinality(c \cap Member) > 1
        /\ ~Quarantined(c, E) /\ ~OverCap(c)}}

\* The alias rows of the plan: each merged member and its canonical.
Aliases(E, cfg) ==
  LET merged == Merges(E, cfg) IN
  [m \in UNION merged |-> Canon(Min(CHOOSE c \in merged : m \in c))]

\* materialize_chunk_tags: known is what entity_aliases held before the run.
ChunkTags(E, cfg, known) ==
  LET folded == known \cup Range(Aliases(E, cfg))
      On(c) == {e \in Range(E) : e.pol >= 0 /\ c \in Pair(e)}
      Cosignal(c) == \E e \in On(c) : e.tier <= 2 \/ e.method = "human_confirmed"
      Asserted(c) == UNION {Pair(e) \ {c} : e \in On(c)}
      Gate(c) == Lookup(cfg, "*").tier3 \/ Cosignal(c)
      TagsOf(c) == (Asserted(c) \cap folded)
                     \cup {Canon(m) : m \in {m \in Asserted(c) \cap Member :
                                               Cosignal(c) /\ Canon(m) \in folded}}
  IN [c \in {c \in Chunk : Gate(c) /\ TagsOf(c) # {}} |-> TagsOf(c)]
=============================================================================
