---------------------------- MODULE MCRevocation ----------------------------
(* Small instances of Revocation for TLC. *)
EXTENDS Revocation, TLC

CONSTANTS u1, g1, g2, r1, r2, q1, q2

\* Two replicas with one request slot each.
HomeApart == (q1 :> r1) @@ (q2 :> r2)

\* One replica with one request slot, or with two.
HomeAlone == (q1 :> r1)
\* g1 is nested in g2; or one group alone.
UpNested == (g1 :> {g1, g2}) @@ (g2 :> {g2})
UpFlat == (g1 :> {g1})

OneGroup == {{g1}}
NoPrincipals == {}
AskedTTLs == {0, 9}
LongTTL == {9}

\* The part of the instances with two replicas that is explored: the second
\* replica mints and takes the administrators' calls, the first one reads too.
OneReader == job'[q2].op # "read"

=============================================================================
