-------------------------- MODULE ResolutionProofs --------------------------
(***************************************************************************)
(* Proofs about Resolution, for every set of members, facts, evidence and  *)
(* configuration rows and every bound: a run that nothing overtook leaves  *)
(* the aliases its ledger calls for, retractions stand, and produced rows  *)
(* keep to their namespace.  For these the fold (Aliases) is kept closed:  *)
(* the argument needs only that it is a function on members.  What the     *)
(* fold merges is the subject of lemmas of its own.                        *)
(***************************************************************************)
EXTENDS Resolution, SequenceTheorems, FiniteSetTheorems, WellFoundedInduction, TLAPS

-----------------------------------------------------------------------------
(* The inductive invariant *)

Fields == {"at", "rows", "ev", "cfg", "plan", "tags"}

Line(C) == [row : C, live : BOOLEAN, made : BOOLEAN]

LedgerOK == \E C : ledger \in Seq(Line(C))

\* A plan is a function on members.
Planned(plan) == DOMAIN plan \subseteq Member /\ plan = [m \in DOMAIN plan |-> plan[m]]

Runs ==
    /\ DOMAIN run = Runner
    /\ \A r \in Runner : DOMAIN run[r] = Fields /\ Planned(run[r].plan)

\* Produced e-mail rows, in the ledger or on their way, keep to one namespace.
OneNamespace(row) ==
    row.method = "email_exact" => NamespaceOf[row.left] = NamespaceOf[row.right]

Sourced == \A r \in Runner : \A row \in run[r].rows : OneNamespace(row)

\* What the ledger and the configuration call for.
Called == Aliases(Live, config)

\* A run that nothing has overtaken works on what is there, and what it wrote so
\* far and what it has still to write are together what is called for.
Abreast(task, live, cfg, called, mapped) ==
    /\ task.at \in {"config", "known", "write"}
    /\ task.at = "config" => task.ev = live
    /\ task.at = "known" => task.ev = live /\ task.cfg = cfg
    /\ task.at = "write" =>
         /\ \A m \in DOMAIN task.plan : m \in DOMAIN called /\ task.plan[m] = called[m]
         /\ \A m \in DOMAIN called : m \notin DOMAIN task.plan => mapped[m] = called[m]

Quiet ==
    /\ quiet \subseteq Runner
    /\ \A r \in quiet : Abreast(run[r], Live, config, Called, aliases)

Converged == settled => \A m \in DOMAIN Called : aliases[m] = Called[m]

IInv ==
    /\ LedgerOK /\ Runs /\ DOMAIN aliases = Member
    /\ Sourced /\ NamespacesApart
    /\ Quiet /\ Converged

-----------------------------------------------------------------------------
(* Operators of the model *)

\* Min picks an element of a non-empty set of refs.
LEMMA LeastIn ==
    ASSUME NEW S \in SUBSET Nat, S # {}
    PROVE  Min(S) \in S
<1>1. PICK x \in S : \A y \in S : ~(<<y, x>> \in OpToRel(<, Nat))
  BY WFMin, NatLessThanWellFounded, Zenon
<1>2. \A y \in S : x =< y
  <2> SUFFICES ASSUME NEW y \in S PROVE ~(y < x)
    OBVIOUS
  <2> QED BY Zenon, <1>1 DEF OpToRel
<1> QED BY <1>2, Zenon DEF Min

\* The fold plans an alias for members only.
LEMMA FoldPlans ==
    ASSUME NEW E, NEW cfg
    PROVE  Planned(Aliases(E, cfg))
<1>1. UNION Merges(E, cfg) \subseteq Member
  BY Zenon DEF Merges
<1>2. DOMAIN Aliases(E, cfg) = UNION Merges(E, cfg)
  BY Zenon DEF Aliases
<1>3. Aliases(E, cfg) = [m \in DOMAIN Aliases(E, cfg) |-> Aliases(E, cfg)[m]]
  BY Zenon DEF Aliases
<1> QED BY <1>1, <1>2, <1>3, Zenon DEF Planned

\* A plan without one of its members, whose row has been written.
Without(plan, m) == [x \in {y \in DOMAIN plan : y # m} |-> plan[x]]

LEMMA PlanShrinks ==
    ASSUME NEW plan, Planned(plan), NEW m
    PROVE  /\ Planned(Without(plan, m))
           /\ DOMAIN Without(plan, m) = {x \in DOMAIN plan : x # m}
           /\ \A x \in DOMAIN Without(plan, m) : Without(plan, m)[x] = plan[x]
<1> DEFINE rest == Without(plan, m)
<1>1. DOMAIN rest = {x \in DOMAIN plan : x # m}
  BY Zenon DEF Without
<1>2. \A x \in DOMAIN rest : rest[x] = plan[x]
  BY Zenon DEF Without
<1>3. rest = [x \in DOMAIN rest |-> rest[x]]
  BY Zenon DEF Without
<1> QED BY <1>1, <1>2, <1>3, Zenon DEF Planned

\* A plan that is not empty has a first member.
LEMMA PlanFirst ==
    ASSUME NEW plan, Planned(plan), plan # NoPlan
    PROVE  Min(DOMAIN plan) \in DOMAIN plan
<1>1. DOMAIN plan # {}
  <2> SUFFICES ASSUME DOMAIN plan = {} PROVE plan = NoPlan
    BY Zenon
  <2> QED BY Zenon DEF Planned, NoPlan
<1>2. DOMAIN plan \in SUBSET Nat
  BY RefAssumption, Zenon DEF Planned
<1> QED BY <1>1, <1>2, LeastIn, Zenon

LEMMA NothingPlanned == Planned(NoPlan) /\ DOMAIN NoPlan = {}
  BY Zenon DEF Planned, NoPlan

\* No two members of a live anti-link are in one merged component: a component
\* around one is sent to review whole, so no chain of rows gets past it.
LEMMA QuarantineHolds ==
    ASSUME NEW E, NEW cfg, NEW c \in Merges(E, cfg), NEW p \in AntiLinks(E)
    PROVE  ~(p \subseteq c)
  BY Zenon DEF Merges, Quarantined

\* What the fold merges does not look at mentions: they are neither candidates
\* nor confirmations nor anti-links.
LEMMA MentionsApart ==
    ASSUME NEW E, NEW cfg
    PROVE  Merges(E, cfg) = Merges(Unmentioned(E), cfg)
<1> DEFINE U == Unmentioned(E)
<1>1. /\ DOMAIN U = {i \in DOMAIN E : ~Mention(E[i])}
      /\ \A i \in DOMAIN U : U[i] = E[i]
  BY Zenon DEF Unmentioned
<1> HIDE DEF U
<1>2. Range(U) = {e \in Range(E) : ~Mention(e)}
  BY <1>1, Zenon DEF Range
<1>3. Confirmed(U) = Confirmed(E)
  <2>1. \A e : e.method = "human_confirmed" => ~Mention(e)
    BY Zenon DEF Mention
  <2>2. {x \in Range(U) : x.pol >= 0 /\ x.method = "human_confirmed"}
          = {x \in Range(E) : x.pol >= 0 /\ x.method = "human_confirmed"}
    BY <1>2, <2>1, Zenon
  <2> QED BY <2>2, Zenon DEF Confirmed
<1>4. AntiLinks(U) = AntiLinks(E)
  <2>1. \A e : e.pol < 0 \/ e.method = "human_rejected" => ~Mention(e)
    BY Zenon DEF Mention
  <2>2. {x \in Range(U) : x.pol < 0 \/ x.method = "human_rejected"}
          = {x \in Range(E) : x.pol < 0 \/ x.method = "human_rejected"}
    BY <1>2, <2>1, Zenon
  <2> QED BY <2>2, Zenon DEF AntiLinks
<1>5. Candidates(U, cfg) = Candidates(E, cfg)
  <2> DEFINE Clear(F) == {i \in DOMAIN F : Forms(F[i], cfg, Confirmed(E))}
             Sure(F) == {i \in DOMAIN F : F[i].method = "human_confirmed" /\ F[i].pol >= 0}
             Places(F) == ({1} \X Clear(F)) \cup ({2} \X Sure(F))
  <2>1. Clear(U) = Clear(E)
    <3>1. \A e : Forms(e, cfg, Confirmed(E)) => ~Mention(e)
      BY Zenon DEF Forms, TierBar, Mention
    <3>2. \A i : i \in Clear(U) <=> i \in DOMAIN U /\ Forms(U[i], cfg, Confirmed(E))
      BY Zenon
    <3>3. \A i : i \in Clear(E) <=> i \in DOMAIN E /\ Forms(E[i], cfg, Confirmed(E))
      BY Zenon
    <3>4. \A i : i \in Clear(U) <=> i \in Clear(E)
      BY <1>1, <3>1, <3>2, <3>3, Zenon
    <3> HIDE DEF Clear
    <3> QED BY <3>4, Zenon
  <2>2. Sure(U) = Sure(E)
    <3>1. \A e : e.method = "human_confirmed" => ~Mention(e)
      BY Zenon DEF Mention
    <3> QED BY <1>1, <3>1, Zenon
  <2>3. \A x \in Places(E) : x[2] \in DOMAIN U
    <3>1. \A i \in Clear(U) \cup Sure(U) : i \in DOMAIN U
      BY Zenon
    <3>2. \A x \in Places(E) : x[2] \in Clear(E) \cup Sure(E)
      BY Zenon
    <3> QED BY <2>1, <2>2, <3>1, <3>2, Zenon
  <2>4. [x \in Places(U) |-> U[x[2]]] = [x \in Places(E) |-> E[x[2]]]
    <3>1. Places(U) = Places(E)
      BY <2>1, <2>2, Zenon
    <3> HIDE DEF Places
    <3> QED BY <1>1, <2>3, <3>1, Zenon
  <2> QED BY <1>3, <2>4, Zenon DEF Candidates
<1>6. \A c : Quarantined(c, U) <=> Quarantined(c, E)
  BY <1>4, Zenon DEF Quarantined
<1>7. Merges(U, cfg) = Merges(E, cfg)
  BY <1>3, <1>5, <1>6, Zenon DEF Merges
<1> QED BY <1>7, Zenon DEF U

\* Less pairs join less.
LEMMA BlocksGrow ==
    ASSUME NEW V, NEW W, V \subseteq W, NEW r \in UNION V
    PROVE  Block(r, V) \subseteq Block(r, W)
<1> SUFFICES ASSUME NEW x \in Block(r, V), NEW S \in SUBSET UNION W, r \in S, Closed(S, W)
             PROVE  x \in UNION W /\ x \in S
  BY Zenon DEF Block
<1>1. x \in UNION V /\ x \in UNION W
  BY Zenon DEF Block
<1> DEFINE T == S \cap UNION V
<1>2. T \in SUBSET UNION V /\ r \in T
  BY Zenon
<1>3. Closed(T, V)
  <2> SUFFICES ASSUME NEW p \in V, p \cap T # {} PROVE p \subseteq T
    BY Zenon DEF Closed
  <2>1. p \cap S # {}
    BY Zenon
  <2>2. p \subseteq S /\ p \subseteq UNION V
    BY <2>1, Zenon DEF Closed
  <2> QED BY <2>2, Zenon
<1>4. x \in T
  BY <1>2, <1>3, Zenon DEF Block
<1> QED BY <1>1, <1>4, Zenon

\* What a candidate row is.
LEMMA CandidateRow ==
    ASSUME NEW E, NEW cfg, NEW x \in DOMAIN Candidates(E, cfg)
    PROVE  /\ Candidates(E, cfg)[x] \in Range(E)
           /\ Candidates(E, cfg)[x].pol >= 0
<1> DEFINE clear == {i \in DOMAIN E : Forms(E[i], cfg, Confirmed(E))}
           sure == {i \in DOMAIN E : E[i].method = "human_confirmed" /\ E[i].pol >= 0}
<1>1. x \in ({1} \X clear) \cup ({2} \X sure) /\ Candidates(E, cfg)[x] = E[x[2]]
  BY Zenon DEF Candidates
<1>2. x[2] \in clear \cup sure
  BY <1>1, Zenon
<1>3. E[x[2]] \in Range(E)
  BY <1>2, Zenon DEF Range
<1>4. E[x[2]].pol >= 0
  BY <1>2, Zenon DEF Forms
<1> QED BY <1>1, <1>3, <1>4, Zenon

\* A row that adds a pair ties its two refs.
LEMMA AddsTie ==
    ASSUME NEW E, NEW cfg, NEW x \in DOMAIN Candidates(E, cfg),
           NEW p \in Adds(Candidates(E, cfg), x)
    PROVE  /\ \E a, b \in Refs(E) : p = {a, b}
           /\ \A a, b : p = {a, b} => Ties(Candidates(E, cfg)[x], a, b, E)
<1> DEFINE C == Candidates(E, cfg)
           e == C[x]
<1>1. \A y \in DOMAIN C : C[y] \in Range(E) /\ C[y].pol >= 0
  BY CandidateRow, Zenon
<1>2. \A f \in Range(E) : f.left \in Refs(E) /\ f.right \in Refs(E) /\ Leaf(f) \in Refs(E)
  <2> SUFFICES ASSUME NEW f \in Range(E)
               PROVE  f.left \in Refs(E) /\ f.right \in Refs(E) /\ Leaf(f) \in Refs(E)
    BY Zenon
  <2>1. Pair(f) \subseteq Refs(E)
    BY Zenon DEF Refs
  <2>2. f.left \in Pair(f) /\ f.right \in Pair(f)
    BY Zenon DEF Pair
  <2>3. Leaf(f) = f.left \/ Leaf(f) = f.right
    BY Zenon DEF Leaf
  <2> QED BY <2>1, <2>2, <2>3, Zenon
<1> HIDE DEF C
<1>3. CASE OneKey(e)
  <2>1. PICK o \in Leaves(C, KeySide(e), {y \in DOMAIN C : UpTo(y, x)}) : p = {Leaf(e), o}
    BY <1>3, Zenon DEF Adds, C
  <2>2. PICK y \in DOMAIN C : OneKey(C[y]) /\ KeySide(C[y]) = KeySide(e) /\ o = Leaf(C[y])
    BY <2>1, Zenon DEF Leaves
  <2>3. e \in Range(E) /\ e.pol >= 0 /\ C[y] \in Range(E)
    BY <1>1, Zenon DEF C
  <2>4. ASSUME NEW a, NEW b, p = {a, b} PROVE Ties(e, a, b, E)
    <3>1. Leaf(e) \in {a, b}
      BY <2>1, <2>4, Zenon
    <3>2. \A z \in {a, b} : z = Leaf(e) \/ z = o
      BY <2>1, <2>4, Zenon
    <3> HIDE DEF e
    <3> QED BY <1>3, <2>2, <2>3, <3>1, <3>2, Zenon DEF Ties
  <2> QED BY <1>2, <2>1, <2>2, <2>3, <2>4, Zenon DEF C
<1>4. CASE ~OneKey(e)
  <2>1. p = Pair(e)
    BY <1>4, Zenon DEF Adds, C
  <2>2. e \in Range(E) /\ e.pol >= 0
    BY <1>1, Zenon DEF C
  <2> QED BY <1>2, <2>1, <2>2, Zenon DEF Ties, Pair, C
<1> QED BY <1>3, <1>4, Zenon

\* A set as large as a bar of two or more has two elements.
LEMMA TwoOf ==
    ASSUME NEW S, NEW m \in Nat, m > 1, Cardinality(S) >= Max({1, m})
    PROVE  \E s, t \in S : s # t
<1>1. Max({1, m}) = m
  BY DEF Max
<1>2. S # {}
  BY <1>1, FS_EmptySet
<1>3. PICK s : s \in S
  BY <1>2, Zenon
<1>4. S # {s}
  BY <1>1, FS_Singleton
<1> QED BY <1>3, <1>4, Zenon

\* What a row counts as depends on its method, its key and its form.
LEMMA SameRowsCount ==
    ASSUME NEW e, NEW f, e.method = f.method, e.key = f.key, OneKey(e) = OneKey(f)
    PROVE  CountedKey(e) = CountedKey(f)
<1>1. KeyKind(e) = KeyKind(f)
  BY Zenon DEF KeyKind
<1> QED BY <1>1, Zenon DEF CountedKey

\* With bars of two keys or more, a pair that reaches union-find is corroborated.
LEMMA WeldsCorroborated ==
    ASSUME NEW E, NEW cfg, \A k \in DOMAIN cfg : cfg[k].min \in Nat /\ cfg[k].min > 1
    PROVE  Welded(Candidates(E, cfg), cfg, Confirmed(E)) \subseteq Tied(E)
<1> DEFINE C == Candidates(E, cfg)
<1> SUFFICES ASSUME NEW p \in Welded(C, cfg, Confirmed(E)) PROVE p \in Tied(E)
  BY Zenon
<1>1. p \in Pairs(C) /\ EnoughKeys(C, p, cfg, Confirmed(E))
  BY Zenon DEF Welded
<1>2. PICK x0 \in DOMAIN C : p \in Adds(C, x0)
  BY <1>1, Zenon DEF Pairs
<1>3. PICK a \in Refs(E), b \in Refs(E) : p = {a, b}
  BY <1>2, AddsTie
<1>4. \A x \in RowsOf(C, p) : C[x] \in Range(E) /\ Ties(C[x], a, b, E)
  <2> SUFFICES ASSUME NEW x \in RowsOf(C, p)
               PROVE  C[x] \in Range(E) /\ Ties(C[x], a, b, E)
    BY Zenon
  <2>1. x \in DOMAIN C /\ p \in Adds(C, x)
    BY Zenon DEF RowsOf
  <2> QED BY <1>3, <2>1, AddsTie, CandidateRow, Zenon
<1> HIDE DEF C
<1>5. Corroborated(a, b, E)
  <2>1. CASE \E x \in RowsOf(C, p) : C[x].method \in StrongMethods
    BY <1>4, <2>1, Zenon DEF Corroborated
  <2>2. CASE p \in Confirmed(E)
    <3>1. PICK e \in Range(E) : /\ e.pol >= 0 /\ e.method = "human_confirmed"
                                /\ p = Pair(e)
      BY <2>2, Zenon DEF Confirmed
    <3>2. Ties(e, a, b, E) /\ e.method \in StrongMethods
      BY <1>3, <3>1, Zenon DEF Ties, StrongMethods
    <3> QED BY <3>2, Zenon DEF Corroborated
  <2>3. CASE Cardinality({CountedKey(C[x]) : x \in RowsOf(C, p)})
               >= Max({1, Lookup(cfg, Dominant(C, p)).min})
    <3> DEFINE S == {CountedKey(C[x]) : x \in RowsOf(C, p)}
               m == Lookup(cfg, Dominant(C, p)).min
    <3>1. m \in Nat /\ m > 1
      BY DEF Lookup, Fallback
    <3>2. Cardinality(S) >= Max({1, m})
      BY <2>3, Zenon
    <3> HIDE DEF S, m
    <3>3. \E s, t \in S : s # t
      BY <3>1, <3>2, TwoOf
    <3>4. PICK x \in RowsOf(C, p), y \in RowsOf(C, p) : CountedKey(C[x]) # CountedKey(C[y])
      BY <3>3, Zenon DEF S
    <3>5. <<C[x].method, C[x].key, OneKey(C[x])>> # <<C[y].method, C[y].key, OneKey(C[y])>>
      BY <3>4, SameRowsCount, Zenon
    <3> QED BY <1>4, <3>5, Zenon DEF Corroborated
  <2> QED BY <1>1, <2>1, <2>2, <2>3, Zenon DEF EnoughKeys
<1> DEFINE With(x) == {{x, y} : y \in {y \in Refs(E) : Corroborated(x, y, E)}}
<1>6. p \in With(a)
  BY <1>3, <1>5, Zenon
<1>7. Tied(E) = UNION {With(x) : x \in Refs(E)}
  BY Zenon DEF Tied
<1> HIDE DEF With
<1> QED BY <1>3, <1>6, <1>7, Zenon

\* Chains of pairs that reach union-find are chains of corroborated pairs.
LEMMA ChainsHold ==
    ASSUME NEW E, NEW cfg, \A k \in DOMAIN cfg : cfg[k].min \in Nat /\ cfg[k].min > 1,
           NEW c \in Merges(E, cfg)
    PROVE  \E b \in Components(Tied(E)) : c \subseteq b
<1> DEFINE V == Welded(Candidates(E, cfg), cfg, Confirmed(E))
<1>1. PICK r \in UNION V : c = Block(r, V) \cap Member
  BY Zenon DEF Merges, Components
<1>2. V \subseteq Tied(E)
  BY WeldsCorroborated, Zenon
<1> HIDE DEF V
<1>3. Block(r, V) \subseteq Block(r, Tied(E)) /\ r \in UNION Tied(E)
  BY <1>2, BlocksGrow, Zenon
<1> QED BY <1>1, <1>3, Zenon DEF Components

\* produce_tier1_evidence pairs e-mails within one namespace.
LEMMA ProducersKeepNamespaces ==
    ASSUME NEW row \in Tier1Rows
    PROVE  OneNamespace(row)
<1>1. CASE row \in CrmFkRows
  <2>1. PICK l, r : row = Row(l, r, 1, "crm_fk", "account", 1)
    BY <1>1, Zenon DEF CrmFkRows
  <2>2. row.method = "crm_fk"
    BY <2>1 DEF Row
  <2> QED BY <2>2 DEF OneNamespace
<1>2. CASE row \in ExternalIdRows
  <2>1. row.method = "external_id"
    BY <1>2 DEF ExternalIdRows, Row
  <2> QED BY <2>1 DEF OneNamespace
<1>3. CASE row \in EmailRows
  <2>1. PICK p \in facts \X facts :
           /\ ShareEmail(p[1], p[2])
           /\ row = Row(p[1][1], p[2][1], 1, "email_exact", Named(p[1]), 1)
    BY <1>3, Zenon DEF EmailRows
  <2>2. row.left = p[1][1] /\ row.right = p[2][1]
    BY <2>1 DEF Row
  <2>3. NamespaceOf[p[1][1]] = NamespaceOf[p[2][1]]
    BY <2>1, Zenon DEF ShareEmail
  <2> QED BY <2>2, <2>3, Zenon DEF OneNamespace
<1> QED BY <1>1, <1>2, <1>3, Zenon DEF Tier1Rows

-----------------------------------------------------------------------------
(* The ledger *)

\* A row appended leaves those before it alone.
LEMMA AppendKeeps ==
    ASSUME LedgerOK, NEW row, NEW made \in BOOLEAN,
           ledger' = Append(ledger, [row |-> row, live |-> TRUE, made |-> made])
    PROVE  /\ LedgerOK'
           /\ DOMAIN ledger' = DOMAIN ledger \union {Len(ledger) + 1}
           /\ \A i \in DOMAIN ledger : ledger'[i] = ledger[i]
           /\ ledger'[Len(ledger) + 1].row = row
           /\ ledger'[Len(ledger) + 1].made = made
<1> DEFINE new == [row |-> row, live |-> TRUE, made |-> made]
<1>1. PICK C : ledger \in Seq(Line(C))
  BY Zenon DEF LedgerOK
<1>2. ledger \in Seq(Line(C \union {row})) /\ new \in Line(C \union {row})
  <2>1. Line(C) \subseteq Line(C \union {row}) /\ new \in Line(C \union {row})
    BY DEF Line
  <2> QED BY <1>1, <2>1, SeqMonotonic, Zenon
<1>3. new.row = row /\ new.made = made /\ ledger' = Append(ledger, new)
  OBVIOUS
<1> HIDE DEF new
<1>4. /\ ledger' \in Seq(Line(C \union {row})) /\ Len(ledger') = Len(ledger) + 1
      /\ \A i \in 1..Len(ledger) : ledger'[i] = ledger[i]
      /\ ledger'[Len(ledger) + 1] = new
  <2>1. /\ Append(ledger, new) \in Seq(Line(C \union {row}))
        /\ Len(Append(ledger, new)) = Len(ledger) + 1
        /\ \A i \in 1..Len(ledger) : Append(ledger, new)[i] = ledger[i]
        /\ Append(ledger, new)[Len(ledger) + 1] = new
    BY <1>2, AppendProperties
  <2> QED BY <1>3, <2>1, Zenon
<1>5. DOMAIN ledger = 1..Len(ledger) /\ Len(ledger) \in Nat /\ DOMAIN ledger' = 1..Len(ledger')
  BY <1>1, <1>4, LenProperties, Zenon
<1>6. DOMAIN ledger' = DOMAIN ledger \union {Len(ledger) + 1}
  BY <1>4, <1>5
<1> QED BY <1>3, <1>4, <1>5, <1>6, Zenon DEF LedgerOK

\* A retraction changes the mark of one row.
LEMMA RetractKeeps ==
    ASSUME LedgerOK, NEW k \in DOMAIN ledger, ledger' = [ledger EXCEPT ![k].live = FALSE]
    PROVE  /\ LedgerOK' /\ DOMAIN ledger' = DOMAIN ledger
           /\ \A i \in DOMAIN ledger :
                /\ ledger'[i].row = ledger[i].row /\ ledger'[i].made = ledger[i].made
                /\ ledger'[i].live => ledger[i].live
<1>1. PICK C : ledger \in Seq(Line(C))
  BY Zenon DEF LedgerOK
<1>2. DOMAIN ledger = 1..Len(ledger) /\ ledger[k] \in Line(C)
  BY <1>1, LenProperties, ElementOfSeq, Zenon
<1> DEFINE new == [ledger[k] EXCEPT !.live = FALSE]
<1>3. new \in Line(C) /\ new.row = ledger[k].row /\ new.made = ledger[k].made /\ ~new.live
  BY <1>2 DEF Line
<1>4. ledger' = [ledger EXCEPT ![k] = new]
  BY Zenon
<1> HIDE DEF new
<1>5. ledger' \in Seq(Line(C)) /\ DOMAIN ledger' = DOMAIN ledger
  <2>1. k \in 1..Len(ledger)
    BY <1>2, Zenon
  <2>2. [ledger EXCEPT ![k] = new] \in Seq(Line(C))
    BY <1>1, <1>3, <2>1, ExceptSeq, Zenon
  <2> QED BY <1>4, <2>2, Zenon
<1>6. \A i \in DOMAIN ledger : ledger'[i] = IF i = k THEN new ELSE ledger[i]
  BY <1>4, Zenon
<1> QED BY <1>3, <1>5, <1>6, Zenon DEF LedgerOK

-----------------------------------------------------------------------------
(* What steps have in common *)

LEMMA CallUnmoved ==
    ASSUME UNCHANGED ledger
    PROVE  Live' = Live /\ (UNCHANGED config => Called' = Called)
  BY Zenon DEF Live, Called

LEMMA LedgerUnmoved ==
    ASSUME IInv, UNCHANGED ledger
    PROVE  LedgerOK' /\ NamespacesApart' /\ LedgerKept
  BY Zenon DEF IInv, LedgerOK, NamespacesApart, LedgerKept

LEMMA RunsUnmoved ==
    ASSUME IInv, UNCHANGED run
    PROVE  Runs' /\ Sourced'
  BY Zenon DEF IInv, Runs, Sourced

\* An edit makes every run in progress an overtaken one.
LEMMA EditStep ==
    ASSUME Disturb, LedgerOK', NamespacesApart', Runs', Sourced', (DOMAIN aliases = Member)'
    PROVE  IInv'
  BY Zenon DEF Disturb, IInv, Quiet, Converged

\* A step of one runner that writes no row.
LEMMA TaskStep ==
    ASSUME IInv, UNCHANGED <<ledger, config, aliases>>, NEW r \in Runner,
           DOMAIN run' = Runner, \A s \in Runner : s # r => run'[s] = run[s],
           DOMAIN run'[r] = Fields, Planned(run'[r].plan),
           \A row \in run'[r].rows : OneNamespace(row),
           quiet' \subseteq quiet \union {r},
           r \in quiet' => Abreast(run'[r], Live, config, Called, aliases),
           settled' => settled \/ \A m \in DOMAIN Called : aliases[m] = Called[m]
    PROVE  IInv' /\ LedgerKept
<1>1. Live' = Live /\ Called' = Called
  BY CallUnmoved, Zenon
<1>2. Runs' /\ Sourced'
  BY Zenon DEF IInv, Runs, Sourced
<1>3. Quiet'
  <2>1. quiet' \subseteq Runner
    BY Zenon DEF IInv, Quiet
  <2>2. ASSUME NEW s \in quiet' PROVE Abreast(run'[s], Live, config, Called, aliases)
    BY <2>2, Zenon DEF IInv, Quiet
  <2> QED BY <1>1, <2>1, <2>2, Zenon DEF Quiet
<1>4. Converged'
  BY <1>1, Zenon DEF IInv, Converged
<1>5. LedgerOK' /\ NamespacesApart' /\ LedgerKept /\ (DOMAIN aliases = Member)'
  BY LedgerUnmoved, Zenon DEF IInv
<1> QED BY <1>2, <1>3, <1>4, <1>5, Zenon DEF IInv

\* What a row appended does to the ledger.
LEMMA AppendStep ==
    ASSUME IInv, NEW row, NEW made \in BOOLEAN,
           ledger' = Append(ledger, [row |-> row, live |-> TRUE, made |-> made]),
           made => /\ OneNamespace(row)
                   /\ \A i \in DOMAIN ledger : ledger[i].made => ledger[i].row # row
    PROVE  LedgerOK' /\ NamespacesApart' /\ LedgerKept
<1> DEFINE n == Len(ledger) + 1
<1>1. /\ LedgerOK' /\ DOMAIN ledger' = DOMAIN ledger \union {n}
      /\ \A i \in DOMAIN ledger : ledger'[i] = ledger[i]
      /\ ledger'[n].row = row /\ ledger'[n].made = made
  BY AppendKeeps, Zenon DEF IInv
<1> HIDE DEF n
<1>2. NamespacesApart'
  <2>1. ASSUME NEW i \in DOMAIN ledger', ledger'[i].made PROVE OneNamespace(ledger'[i].row)
    <3>1. CASE i \in DOMAIN ledger
      BY <1>1, <2>1, <3>1, Zenon DEF IInv, NamespacesApart, OneNamespace
    <3>2. CASE i = n
      BY <1>1, <2>1, <3>2, Zenon
    <3> QED BY <1>1, <3>1, <3>2, Zenon
  <2> QED BY <2>1, Zenon DEF NamespacesApart, OneNamespace
<1>3. LedgerKept
  <2>1. ASSUME NEW i \in DOMAIN ledger, NEW j \in DOMAIN ledger' \ DOMAIN ledger,
               ledger[i].made, ledger'[j].made
        PROVE  ledger'[j].row # ledger[i].row
    <3>1. j = n
      BY <1>1, Zenon
    <3> QED BY <1>1, <2>1, <3>1, Zenon
  <2>2. ASSUME NEW i \in DOMAIN ledger
        PROVE  /\ i \in DOMAIN ledger'
               /\ ledger'[i].row = ledger[i].row /\ ledger'[i].made = ledger[i].made
               /\ ledger'[i].live => ledger[i].live
    BY <1>1, Zenon
  <2> QED BY <2>1, <2>2, Zenon DEF LedgerKept
<1> QED BY <1>1, <1>2, <1>3, Zenon

-----------------------------------------------------------------------------
(* The administrator and the sources *)

LEMMA EvidenceStep ==
    ASSUME IInv, NEW row, AdminEvidenceInsert(row)
    PROVE  IInv' /\ LedgerKept
<1>1. LedgerOK' /\ NamespacesApart' /\ LedgerKept
  BY AppendStep, Zenon DEF AdminEvidenceInsert, Appended
<1>2. Disturb /\ UNCHANGED <<run, aliases>>
  BY Zenon DEF AdminEvidenceInsert
<1> QED BY <1>1, <1>2, RunsUnmoved, EditStep, Zenon DEF IInv

LEMMA RetractStep ==
    ASSUME IInv, NEW k \in DOMAIN ledger, AdminEvidenceRetract(k)
    PROVE  IInv' /\ LedgerKept
<1>1. /\ LedgerOK' /\ DOMAIN ledger' = DOMAIN ledger
      /\ \A i \in DOMAIN ledger :
           /\ ledger'[i].row = ledger[i].row /\ ledger'[i].made = ledger[i].made
           /\ ledger'[i].live => ledger[i].live
  BY RetractKeeps, Zenon DEF AdminEvidenceRetract, IInv
<1>2. LedgerKept
  BY <1>1, Zenon DEF LedgerKept
<1>3. NamespacesApart'
  BY <1>1, Zenon DEF IInv, NamespacesApart
<1>4. Disturb /\ UNCHANGED <<run, aliases>>
  BY Zenon DEF AdminEvidenceRetract
<1> QED BY <1>1, <1>2, <1>3, <1>4, RunsUnmoved, EditStep, Zenon DEF IInv

LEMMA ConfigStep ==
    ASSUME IInv, NEW kind, NEW row, PutConfig(kind, row)
    PROVE  IInv' /\ LedgerKept
<1>1. Disturb /\ UNCHANGED <<ledger, run, aliases>>
  BY Zenon DEF PutConfig
<1> QED BY <1>1, LedgerUnmoved, RunsUnmoved, EditStep, Zenon DEF IInv

LEMMA CrosswalkStep ==
    ASSUME IInv, NEW m, NEW canonical, AdminEntityAliases(m, canonical)
    PROVE  IInv' /\ LedgerKept
<1>1. Disturb /\ UNCHANGED <<ledger, run>>
  BY Zenon DEF AdminEntityAliases
<1>2. (DOMAIN aliases = Member)'
  BY Zenon DEF AdminEntityAliases, Aliased, IInv
<1> QED BY <1>1, <1>2, LedgerUnmoved, RunsUnmoved, EditStep, Zenon

\* A fact that comes in is seen by the next run that reads the facts.
LEMMA IngestStep ==
    ASSUME IInv, NEW fact, Ingest(fact)
    PROVE  IInv' /\ LedgerKept
<1>1. UNCHANGED <<ledger, config, aliases, run, quiet, settled>>
  BY Zenon DEF Ingest
<1>2. Live' = Live /\ Called' = Called
  BY <1>1, CallUnmoved, Zenon
<1>3. Quiet' /\ Converged'
  BY <1>1, <1>2, Zenon DEF IInv, Quiet, Converged
<1> QED BY <1>1, <1>3, LedgerUnmoved, RunsUnmoved, Zenon DEF IInv

-----------------------------------------------------------------------------
(* The runs *)

\* A runner that is idle is not among the quiet ones; it starts with empty hands.
LEMMA Started ==
    ASSUME IInv, NEW r \in Runner, NEW at, Start(r, at)
    PROVE  /\ r \notin quiet /\ DOMAIN run' = Runner
           /\ \A s \in Runner : s # r => run'[s] = run[s]
           /\ DOMAIN run'[r] = Fields
           /\ run'[r].plan = run[r].plan /\ run'[r].rows = run[r].rows
<1>1. "at" \in Fields /\ "plan" # "at" /\ "rows" # "at" /\ "plan" \in Fields /\ "rows" \in Fields
  BY DEF Fields
<1>2. "idle" \notin {"config", "known", "write"}
  OBVIOUS
<1>3. r \notin quiet
  BY <1>2, Zenon DEF Start, IInv, Quiet, Abreast
<1>4. run' = [run EXCEPT ![r].at = at] /\ DOMAIN run = Runner /\ DOMAIN run[r] = Fields
  BY Zenon DEF Start, IInv, Runs
<1> QED BY <1>1, <1>3, <1>4, Zenon

LEMMA StartStep ==
    ASSUME IInv, NEW r \in Runner, NEW at, Start(r, at),
           UNCHANGED <<ledger, config, aliases, quiet, settled>>
    PROVE  IInv' /\ LedgerKept
<1>1. Planned(run[r].plan) /\ \A row \in run[r].rows : OneNamespace(row)
  BY Zenon DEF IInv, Runs, Sourced
<1> QED BY <1>1, Started, TaskStep, Zenon

LEMMA TickStep ==
    ASSUME IInv, Tick
    PROVE  IInv' /\ LedgerKept
<1>1. "loop" \in Runner
  BY DEF Runner
<1> QED BY <1>1, StartStep, Zenon DEF Tick

LEMMA AdminRunStep ==
    ASSUME IInv, NEW at, AdminRun(at)
    PROVE  IInv' /\ LedgerKept
<1>1. "admin" \in Runner
  BY DEF Runner
<1> QED BY <1>1, StartStep, Zenon DEF AdminRun

LEMMA DecideStep ==
    ASSUME IInv, NEW l, NEW r, NEW confirm, AdminEntityDecide(l, r, confirm)
    PROVE  IInv' /\ LedgerKept
<1>1. PICK row : ledger' = Append(ledger, [row |-> row, live |-> TRUE, made |-> FALSE])
  BY Zenon DEF AdminEntityDecide, Appended
<1>2. LedgerOK' /\ NamespacesApart' /\ LedgerKept
  BY <1>1, AppendStep, Zenon
<1>3. Disturb /\ UNCHANGED aliases /\ Start("admin", "ledger")
  BY Zenon DEF AdminEntityDecide
<1>4. "admin" \in Runner
  BY DEF Runner
<1>5. Runs' /\ Sourced'
  BY <1>3, <1>4, Started, Zenon DEF IInv, Runs, Sourced
<1> QED BY <1>2, <1>3, <1>5, EditStep, Zenon DEF IInv

LEMMA ReadFactsStep ==
    ASSUME IInv, NEW r \in Runner, ReadFacts(r)
    PROVE  IInv' /\ LedgerKept
<1>1. /\ "at" \in Fields /\ "rows" \in Fields /\ "plan" \in Fields
      /\ "at" # "rows" /\ "plan" # "at" /\ "plan" # "rows"
      /\ "facts" \notin {"config", "known", "write"}
  BY DEF Fields
<1>2. DOMAIN run = Runner /\ DOMAIN run[r] = Fields /\ Planned(run[r].plan)
  BY Zenon DEF IInv, Runs
<1>3. /\ run' = [run EXCEPT ![r].rows = Tier1Rows,
                            ![r].at = IF Tier1Rows = {} THEN "ledger" ELSE "insert"]
      /\ UNCHANGED <<ledger, config, aliases, quiet, settled>>
  BY Zenon DEF ReadFacts
<1>4. /\ DOMAIN run' = Runner /\ \A s \in Runner : s # r => run'[s] = run[s]
      /\ DOMAIN run'[r] = Fields /\ run'[r].plan = run[r].plan /\ run'[r].rows = Tier1Rows
  BY <1>1, <1>2, <1>3, Zenon
<1>5. r \notin quiet
  BY <1>1, Zenon DEF ReadFacts, IInv, Quiet, Abreast
<1>6. \A row \in run'[r].rows : OneNamespace(row)
  BY <1>4, ProducersKeepNamespaces, Zenon
<1> QED BY <1>2, <1>3, <1>4, <1>5, <1>6, TaskStep, Zenon

LEMMA InsertRowStep ==
    ASSUME IInv, NEW r \in Runner, InsertRow(r)
    PROVE  IInv' /\ LedgerKept
<1>1. /\ "at" \in Fields /\ "rows" \in Fields /\ "plan" \in Fields
      /\ "at" # "rows" /\ "plan" # "at" /\ "plan" # "rows"
      /\ "insert" \notin {"config", "known", "write"}
  BY DEF Fields
<1>2. DOMAIN run = Runner /\ DOMAIN run[r] = Fields /\ Planned(run[r].plan)
  BY Zenon DEF IInv, Runs
<1>3. PICK row \in run[r].rows :
         /\ ledger' = Produced(row)
         /\ run' = [run EXCEPT ![r].rows = @ \ {row},
                               ![r].at = IF run[r].rows = {row} THEN "ledger" ELSE @]
         /\ IF ledger' = ledger THEN UNCHANGED <<quiet, settled>> ELSE Disturb
  BY Zenon DEF InsertRow
<1>4. UNCHANGED <<config, aliases>>
  BY Zenon DEF InsertRow
<1>5. /\ DOMAIN run' = Runner /\ \A s \in Runner : s # r => run'[s] = run[s]
      /\ DOMAIN run'[r] = Fields /\ run'[r].plan = run[r].plan
      /\ run'[r].rows = run[r].rows \ {row}
  BY <1>1, <1>2, <1>3, Zenon
<1>6. OneNamespace(row) /\ \A x \in run'[r].rows : OneNamespace(x)
  BY <1>3, <1>5, Zenon DEF IInv, Sourced
<1>7. r \notin quiet
  BY <1>1, Zenon DEF InsertRow, IInv, Quiet, Abreast
<1>8. CASE ledger' = ledger
  <2>1. UNCHANGED <<ledger, config, aliases>> /\ quiet' = quiet /\ settled' = settled
    BY <1>3, <1>4, <1>8, Zenon
  <2> QED BY <1>2, <1>5, <1>6, <1>7, <2>1, TaskStep, Zenon
<1>9. CASE ledger' # ledger
  <2>1. /\ ledger' = Append(ledger, [row |-> row, live |-> TRUE, made |-> TRUE])
        /\ \A i \in DOMAIN ledger : ledger[i].made => ledger[i].row # row
    BY <1>3, <1>9, Zenon DEF Produced
  <2>2. LedgerOK' /\ NamespacesApart' /\ LedgerKept
    BY <1>6, <2>1, AppendStep, Zenon
  <2>3. Runs' /\ Sourced'
    BY <1>2, <1>5, <1>6, Zenon DEF IInv, Runs, Sourced
  <2>4. Disturb
    BY <1>3, <1>9, Zenon
  <2> QED BY <1>4, <2>2, <2>3, <2>4, EditStep, Zenon DEF IInv
<1> QED BY <1>8, <1>9

\* The fold of what is there begins: from here on the run is quiet until another
\* task writes.
LEMMA ReadLedgerStep ==
    ASSUME IInv, NEW r \in Runner, ReadLedger(r)
    PROVE  IInv' /\ LedgerKept
<1>1. /\ "at" \in Fields /\ "ev" \in Fields /\ "rows" \in Fields /\ "plan" \in Fields
      /\ "ev" # "at" /\ "rows" # "at" /\ "rows" # "ev" /\ "plan" # "at" /\ "plan" # "ev"
      /\ "config" \in {"config", "known", "write"} /\ "config" # "known" /\ "config" # "write"
  BY DEF Fields
<1>2. DOMAIN run = Runner /\ DOMAIN run[r] = Fields /\ Planned(run[r].plan)
  BY Zenon DEF IInv, Runs
<1>3. /\ run' = [run EXCEPT ![r].at = "config", ![r].ev = Live]
      /\ quiet' = quiet \union {r} /\ UNCHANGED <<ledger, config, aliases, settled>>
  BY Zenon DEF ReadLedger
<1>4. /\ DOMAIN run' = Runner /\ \A s \in Runner : s # r => run'[s] = run[s]
      /\ DOMAIN run'[r] = Fields /\ run'[r].plan = run[r].plan /\ run'[r].rows = run[r].rows
      /\ run'[r].at = "config" /\ run'[r].ev = Live
  BY <1>1, <1>2, <1>3, Zenon
<1>5. Abreast(run'[r], Live, config, Called, aliases)
  BY <1>1, <1>4, Zenon DEF Abreast
<1>6. \A row \in run'[r].rows : OneNamespace(row)
  BY <1>4, Zenon DEF IInv, Sourced
<1> QED BY <1>2, <1>3, <1>4, <1>5, <1>6, TaskStep, Zenon

LEMMA ReadConfigStep ==
    ASSUME IInv, NEW r \in Runner, ReadConfig(r)
    PROVE  IInv' /\ LedgerKept
<1>1. /\ "at" \in Fields /\ "ev" \in Fields /\ "cfg" \in Fields /\ "rows" \in Fields
      /\ "plan" \in Fields /\ "cfg" # "at" /\ "ev" # "at" /\ "ev" # "cfg"
      /\ "rows" # "at" /\ "rows" # "cfg" /\ "plan" # "at" /\ "plan" # "cfg"
      /\ "known" \in {"config", "known", "write"} /\ "known" # "config" /\ "known" # "write"
  BY DEF Fields
<1>2. DOMAIN run = Runner /\ DOMAIN run[r] = Fields /\ Planned(run[r].plan)
  BY Zenon DEF IInv, Runs
<1>3. /\ run' = [run EXCEPT ![r].at = "known", ![r].cfg = config] /\ run[r].at = "config"
      /\ UNCHANGED <<ledger, config, aliases, quiet, settled>>
  BY Zenon DEF ReadConfig
<1>4. /\ DOMAIN run' = Runner /\ \A s \in Runner : s # r => run'[s] = run[s]
      /\ DOMAIN run'[r] = Fields /\ run'[r].plan = run[r].plan /\ run'[r].rows = run[r].rows
      /\ run'[r].at = "known" /\ run'[r].ev = run[r].ev /\ run'[r].cfg = config
  BY <1>1, <1>2, <1>3, Zenon
<1>5. r \in quiet => Abreast(run'[r], Live, config, Called, aliases)
  <2>1. r \in quiet => run[r].ev = Live
    BY <1>3, Zenon DEF IInv, Quiet, Abreast
  <2> QED BY <1>1, <1>4, <2>1, Zenon DEF Abreast
<1>6. \A row \in run'[r].rows : OneNamespace(row)
  BY <1>4, Zenon DEF IInv, Sourced
<1> QED BY <1>2, <1>3, <1>4, <1>5, <1>6, TaskStep, Zenon

\* The plan of a quiet run is what the ledger calls for.
LEMMA ReadKnownStep ==
    ASSUME IInv, NEW r \in Runner, ReadKnown(r)
    PROVE  IInv' /\ LedgerKept
<1>1. /\ "at" \in Fields /\ "ev" \in Fields /\ "cfg" \in Fields /\ "rows" \in Fields
      /\ "plan" \in Fields /\ "tags" \in Fields
      /\ "at" # "ev" /\ "at" # "cfg" /\ "at" # "plan" /\ "at" # "tags"
      /\ "plan" # "ev" /\ "plan" # "cfg" /\ "plan" # "tags"
      /\ "rows" # "at" /\ "rows" # "ev" /\ "rows" # "cfg" /\ "rows" # "plan" /\ "rows" # "tags"
      /\ "write" \in {"config", "known", "write"} /\ "write" # "config" /\ "write" # "known"
      /\ "known" # "write" /\ "known" # "config"
  BY DEF Fields
<1>2. DOMAIN run = Runner /\ DOMAIN run[r] = Fields
  BY Zenon DEF IInv, Runs
<1> DEFINE made == Aliases(run[r].ev, run[r].cfg)
           found == ChunkTags(run[r].ev, run[r].cfg, Range(aliases) \ {None})
<1>3. /\ run' = [run EXCEPT ![r].at = "write", ![r].ev = NoPlan, ![r].cfg = NoPlan,
                            ![r].plan = made, ![r].tags = found]
      /\ run[r].at = "known" /\ UNCHANGED <<ledger, config, aliases, quiet, settled>>
  BY Zenon DEF ReadKnown
<1>4. Planned(made)
  BY FoldPlans, Zenon
<1>5. r \in quiet => made = Called
  <2>1. r \in quiet => run[r].ev = Live /\ run[r].cfg = config
    BY <1>1, <1>3, Zenon DEF IInv, Quiet, Abreast
  <2> QED BY <2>1, Zenon DEF Called
<1> HIDE DEF made, found
<1>6. /\ DOMAIN run' = Runner /\ \A s \in Runner : s # r => run'[s] = run[s]
      /\ DOMAIN run'[r] = Fields /\ run'[r].rows = run[r].rows
      /\ run'[r].at = "write" /\ run'[r].plan = made
  BY <1>1, <1>2, <1>3, Zenon
<1>7. r \in quiet => Abreast(run'[r], Live, config, Called, aliases)
  BY <1>1, <1>5, <1>6, Zenon DEF Abreast
<1>8. \A row \in run'[r].rows : OneNamespace(row)
  BY <1>6, Zenon DEF IInv, Sourced
<1>9. Planned(run'[r].plan) /\ UNCHANGED <<ledger, config, aliases>> /\ quiet' = quiet /\ settled' = settled
  BY <1>3, <1>4, <1>6, Zenon
<1> QED BY <1>6, <1>7, <1>8, <1>9, TaskStep, Zenon

\* One alias row is written: of the quiet runs only this one remains, and what it
\* wrote is what is called for.
LEMMA WriteAliasStep ==
    ASSUME IInv, NEW r \in Runner, WriteAlias(r)
    PROVE  IInv' /\ LedgerKept
<1> DEFINE m == Min(DOMAIN run[r].plan)
           rest == RestrictDomain(run[r].plan, LAMBDA x : x # m)
<1>1. /\ "at" \in Fields /\ "plan" \in Fields /\ "rows" \in Fields
      /\ "at" # "plan" /\ "rows" # "plan"
      /\ "write" # "config" /\ "write" # "known"
  BY DEF Fields
<1>2. DOMAIN run = Runner /\ DOMAIN run[r] = Fields /\ Planned(run[r].plan)
  BY Zenon DEF IInv, Runs
<1>3. /\ run[r].at = "write" /\ run[r].plan # NoPlan
      /\ aliases' = [aliases EXCEPT ![m] = run[r].plan[m]]
      /\ run' = [run EXCEPT ![r].plan = rest]
      /\ quiet' = quiet \intersect {r} /\ ~settled' /\ UNCHANGED <<ledger, config>>
  BY Zenon DEF WriteAlias, Aliased
<1>4. m \in DOMAIN run[r].plan
  BY <1>2, <1>3, PlanFirst, Zenon
<1>5. /\ Planned(rest) /\ DOMAIN rest = {x \in DOMAIN run[r].plan : x # m}
      /\ \A x \in DOMAIN rest : rest[x] = run[r].plan[x]
  <2>1. rest = Without(run[r].plan, m)
    BY Zenon DEF RestrictDomain, Restrict, Without
  <2> HIDE DEF m, rest
  <2>2. /\ Planned(Without(run[r].plan, m))
        /\ DOMAIN Without(run[r].plan, m) = {x \in DOMAIN run[r].plan : x # m}
        /\ \A x \in DOMAIN Without(run[r].plan, m) : Without(run[r].plan, m)[x] = run[r].plan[x]
    BY <1>2, PlanShrinks, Zenon
  <2> QED BY <2>1, <2>2, Zenon
<1> HIDE DEF m, rest
<1>6. /\ DOMAIN run' = Runner /\ \A s \in Runner : s # r => run'[s] = run[s]
      /\ DOMAIN run'[r] = Fields /\ run'[r].rows = run[r].rows
      /\ run'[r].at = "write" /\ run'[r].plan = rest
  BY <1>1, <1>2, <1>3, Zenon
<1>7. /\ (DOMAIN aliases = Member)' /\ aliases'[m] = run[r].plan[m]
      /\ \A x \in Member : x # m => aliases'[x] = aliases[x]
  BY <1>2, <1>3, <1>4, Zenon DEF IInv, Planned
<1>8. Live' = Live /\ Called' = Called /\ DOMAIN Called \subseteq Member
  BY <1>3, CallUnmoved, FoldPlans, Zenon DEF Called, Planned
<1>9. r \in quiet => Abreast(run'[r], Live, config, Called, aliases')
  <2> SUFFICES ASSUME r \in quiet PROVE Abreast(run'[r], Live, config, Called, aliases')
    OBVIOUS
  <2>1. /\ \A x \in DOMAIN run[r].plan : x \in DOMAIN Called /\ run[r].plan[x] = Called[x]
        /\ \A x \in DOMAIN Called : x \notin DOMAIN run[r].plan => aliases[x] = Called[x]
    BY <1>3, Zenon DEF IInv, Quiet, Abreast
  <2>2. \A x \in DOMAIN rest : x \in DOMAIN Called /\ rest[x] = Called[x]
    BY <1>5, <2>1, Zenon
  <2>3. ASSUME NEW x \in DOMAIN Called, x \notin DOMAIN rest PROVE aliases'[x] = Called[x]
    <3>1. CASE x = m
      BY <1>4, <1>7, <2>1, <3>1, Zenon
    <3>2. CASE x # m
      BY <1>5, <1>7, <1>8, <2>1, <2>3, <3>2, Zenon
    <3> QED BY <3>1, <3>2
  <2>4. "write" \in {"config", "known", "write"}
    OBVIOUS
  <2> QED BY <1>1, <1>6, <2>2, <2>3, <2>4, Zenon DEF Abreast
<1>10. Quiet'
  <2>1. quiet' \subseteq Runner /\ \A s \in quiet' : s = r /\ r \in quiet
    BY <1>3, Zenon
  <2> QED BY <1>3, <1>8, <1>9, <2>1, Zenon DEF Quiet
<1>11. Runs' /\ Sourced'
  BY <1>5, <1>6, Zenon DEF IInv, Runs, Sourced
<1>12. Converged'
  BY <1>3, Zenon DEF Converged
<1> QED BY <1>3, <1>7, <1>10, <1>11, <1>12, LedgerUnmoved, Zenon DEF IInv

LEMMA WriteTagStep ==
    ASSUME IInv, NEW r \in Runner, WriteTag(r)
    PROVE  IInv' /\ LedgerKept
<1>1. /\ "at" \in Fields /\ "plan" \in Fields /\ "rows" \in Fields /\ "ev" \in Fields
      /\ "cfg" \in Fields /\ "tags" \in Fields /\ "at" # "tags" /\ "plan" # "tags"
      /\ "rows" # "tags" /\ "ev" # "tags" /\ "cfg" # "tags"
  BY DEF Fields
<1>2. DOMAIN run = Runner /\ DOMAIN run[r] = Fields /\ Planned(run[r].plan)
  BY Zenon DEF IInv, Runs
<1>3. /\ \E rest : run' = [run EXCEPT ![r].tags = rest]
      /\ UNCHANGED <<ledger, config, aliases, quiet, settled>>
  BY Zenon DEF WriteTag
<1>4. /\ DOMAIN run' = Runner /\ \A s \in Runner : s # r => run'[s] = run[s]
      /\ DOMAIN run'[r] = Fields /\ run'[r].plan = run[r].plan /\ run'[r].rows = run[r].rows
      /\ run'[r].at = run[r].at /\ run'[r].ev = run[r].ev /\ run'[r].cfg = run[r].cfg
  BY <1>1, <1>2, <1>3, Zenon
<1>5. r \in quiet => Abreast(run'[r], Live, config, Called, aliases)
  BY <1>4, Zenon DEF IInv, Quiet, Abreast
<1>6. \A row \in run'[r].rows : OneNamespace(row)
  BY <1>4, Zenon DEF IInv, Sourced
<1> QED BY <1>2, <1>3, <1>4, <1>5, <1>6, TaskStep, Zenon

LEMMA Returned ==
    ASSUME IInv, NEW r \in Runner, Return(r)
    PROVE  /\ DOMAIN run' = Runner /\ \A s \in Runner : s # r => run'[s] = run[s]
           /\ DOMAIN run'[r] = Fields /\ Planned(run'[r].plan) /\ run'[r].rows = {}
           /\ UNCHANGED <<ledger, config, aliases>>
<1>1. DOMAIN Idle = Fields /\ Idle.plan = NoPlan /\ Idle.rows = {}
  BY DEF Idle, Fields
<1>2. /\ run' = [run EXCEPT ![r] = Idle] /\ DOMAIN run = Runner
      /\ UNCHANGED <<ledger, config, aliases>>
  BY Zenon DEF Return, IInv, Runs
<1>3. run'[r] = Idle /\ DOMAIN run' = Runner /\ \A s \in Runner : s # r => run'[s] = run[s]
  BY <1>2, Zenon
<1> QED BY <1>1, <1>2, <1>3, NothingPlanned, Zenon

\* A quiet run that ends has written all that is called for.
LEMMA FinishStep ==
    ASSUME IInv, NEW r \in Runner, Finish(r)
    PROVE  IInv' /\ LedgerKept
<1>1. /\ run[r].at = "write" /\ run[r].plan = NoPlan /\ Return(r)
      /\ settled' = (settled \/ r \in quiet) /\ quiet' = quiet \ {r}
  BY Zenon DEF Finish
<1>2. r \in quiet => \A m \in DOMAIN Called : aliases[m] = Called[m]
  BY <1>1, NothingPlanned, Zenon DEF IInv, Quiet, Abreast
<1> QED BY <1>1, <1>2, Returned, TaskStep, Zenon

LEMMA FailStep ==
    ASSUME IInv, NEW r \in Runner, Fail(r)
    PROVE  IInv' /\ LedgerKept
<1>1. Return(r) /\ quiet' = quiet \ {r} /\ UNCHANGED settled
  BY Zenon DEF Fail
<1> QED BY <1>1, Returned, TaskStep, Zenon

-----------------------------------------------------------------------------
(* Theorems *)

LEMMA InitHolds ==
    ASSUME Init
    PROVE  IInv
<1>1. LedgerOK
  <2>1. ledger \in Seq(Line({}))
    BY DEF Init
  <2> QED BY <2>1, Zenon DEF LedgerOK
<1>2. DOMAIN Idle = Fields /\ Idle.plan = NoPlan /\ Idle.rows = {}
  BY DEF Idle, Fields
<1>3. Runs /\ Sourced
  BY <1>2, NothingPlanned, Zenon DEF Init, Runs, Sourced
<1>4. NamespacesApart
  <2>1. DOMAIN ledger = {}
    BY DEF Init
  <2> QED BY <2>1, Zenon DEF NamespacesApart
<1>5. DOMAIN aliases = Member /\ Quiet /\ Converged
  BY Zenon DEF Init, Quiet, Converged
<1> QED BY <1>1, <1>3, <1>4, <1>5, Zenon DEF IInv

LEMMA RunnerStep ==
    ASSUME IInv, NEW r \in Runner,
           \/ ReadFacts(r) \/ InsertRow(r)
           \/ ReadLedger(r) \/ ReadConfig(r) \/ ReadKnown(r)
           \/ WriteAlias(r) \/ WriteTag(r) \/ Finish(r) \/ Fail(r)
    PROVE  IInv' /\ LedgerKept
  BY ReadFactsStep, InsertRowStep, ReadLedgerStep, ReadConfigStep, ReadKnownStep,
     WriteAliasStep, WriteTagStep, FinishStep, FailStep, Zenon

LEMMA StepHolds ==
    ASSUME IInv, [Next]_vars
    PROVE  IInv' /\ [LedgerKept]_vars
<1>1. CASE \E f \in FactValue : Ingest(f)
  BY <1>1, IngestStep, Zenon
<1>2. CASE \E row \in Catalogue : AdminEvidenceInsert(row)
  BY <1>2, EvidenceStep, Zenon
<1>3. CASE \E i \in DOMAIN ledger : AdminEvidenceRetract(i)
  BY <1>3, RetractStep, Zenon
<1>4. CASE \E c \in ConfigRows : PutConfig(c[1], c[2])
  BY <1>4, ConfigStep, Zenon
<1>5. CASE \E c \in Crosswalk : AdminEntityAliases(c[1], c[2])
  BY <1>5, CrosswalkStep, Zenon
<1>6. CASE \E l, r \in Member, confirm \in BOOLEAN :
             l < r /\ AdminEntityDecide(l, r, confirm)
  BY <1>6, DecideStep, Zenon
<1>7. CASE Tick
  BY <1>7, TickStep, Zenon
<1>8. CASE \E at \in {"facts", "ledger"} : AdminRun(at)
  BY <1>8, AdminRunStep, Zenon
<1>9. CASE \E r \in Runner :
             \/ ReadFacts(r) \/ InsertRow(r)
             \/ ReadLedger(r) \/ ReadConfig(r) \/ ReadKnown(r)
             \/ WriteAlias(r) \/ WriteTag(r) \/ Finish(r) \/ Fail(r)
  BY <1>9, RunnerStep, Zenon
<1>10. CASE UNCHANGED vars
  <2>1. UNCHANGED <<ledger, config, aliases, run, quiet, settled>>
    BY <1>10, Zenon DEF vars
  <2>2. Live' = Live /\ Called' = Called
    BY <2>1, CallUnmoved, Zenon
  <2>3. Quiet' /\ Converged'
    BY <2>1, <2>2, Zenon DEF IInv, Quiet, Converged
  <2> QED BY <1>10, <2>1, <2>3, LedgerUnmoved, RunsUnmoved, Zenon DEF IInv
<1> QED BY <1>1, <1>2, <1>3, <1>4, <1>5, <1>6, <1>7, <1>8, <1>9, <1>10, Zenon DEF Next

\* The inductive invariant holds however ingests, edits, the loop's runs and the
\* administrator's interleave and fail.
THEOREM Invariance ==
    Spec => []IInv
<1>1. Init => IInv
  BY InitHolds
<1>2. IInv /\ [Next]_vars => IInv'
  BY StepHolds
<1> QED BY <1>1, <1>2, PTL DEF Spec

\* run_full_fold: a run that no edit and no other run's write overtook leaves every
\* alias row the ledger and the configuration call for, whatever runs that failed
\* or were overtaken left behind.
THEOREM RerunsConverge ==
    Spec => []RerunConverges
<1>1. IInv => RerunConverges
  BY Zenon DEF IInv, Converged, Called, RerunConverges
<1> QED BY <1>1, Invariance, PTL

\* insert_evidence_with_id: the ledger only grows, a retracted row stays retracted
\* and no run makes its claim again.
THEOREM RetractionsStand ==
    Spec => RetractionStands
<1>1. IInv /\ [Next]_vars => [LedgerKept]_vars
  BY StepHolds
<1> QED BY <1>1, Invariance, PTL DEF Spec, RetractionStands

\* produce_tier1_evidence: no produced e-mail row in the ledger links members of
\* different key namespaces.
THEOREM NamespacesKeptApart ==
    Spec => []NamespacesApart
<1>1. IInv => NamespacesApart
  BY Zenon DEF IInv
<1> QED BY <1>1, Invariance, PTL

\* fold_with_known_canonicals: in every state of the ledger, no two members a live
\* anti-link separates are in one merged component, leaving the mentions out changes
\* no merge, and merged members are joined by chains of corroborated pairs.
THEOREM MergesAreSound ==
    Spec => []MergesSound
<1>1. RejectedApart
  BY QuarantineHolds, Zenon DEF RejectedApart
<1>2. MentionsNeverMerge
  BY MentionsApart, Zenon DEF MentionsNeverMerge
<1>3. ChainsCorroborated
  BY ChainsHold, Zenon DEF ChainsCorroborated
<1>4. MergesSound
  BY <1>1, <1>2, <1>3, Zenon DEF MergesSound
<1> QED BY <1>4, PTL

=============================================================================
