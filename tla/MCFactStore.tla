----------------------------- MODULE MCFactStore -----------------------------
(* Small instances of FactStore for TLC. *)
EXTENDS FactStore, TLC

CONSTANTS p1, q1, q2, a, b, u1, u2

Home2 == (q1 :> p1) @@ (q2 :> p1)

\* One reader, cleared for the class of the events.
Reader == {[principals |-> {u1}, ceiling |-> 2]}
Shared == {[visibility |-> {u1}, confidentiality |-> 2]}

\* Corrections withhold the fact, with a lower class.
Withheld == {[visibility |-> {}, confidentiality |-> 1]}
Interchangeable == Permutations({a, b})

=============================================================================
