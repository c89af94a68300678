--------------------------- MODULE MCConnectorSync ---------------------------
(* Small instances of ConnectorSync for TLC. *)
EXTENDS ConnectorSync, TLC

CONSTANTS t1, t2, r1, r2, l1, l2

Interchangeable == Permutations({l1, l2}) \union Permutations({r1, r2})

=============================================================================
