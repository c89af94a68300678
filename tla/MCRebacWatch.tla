---------------------------- MODULE MCRebacWatch ----------------------------
(* Instances of RebacWatch for TLC. *)
EXTENDS RebacWatch, TLC

CONSTANTS p1, p2, g1, g2

Interchangeable == Permutations(Proc)

UpFlat == [g \in Group |-> {g}]
UpNested == (g1 :> {g1, g2}) @@ (g2 :> {g2})

\* The changes of the cursor instance are to the inner group, so that each is
\* materialised for both.
InnerChanges == \A i \in DOMAIN log' : log'[i].group = g1

=============================================================================
