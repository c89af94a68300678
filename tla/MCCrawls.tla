------------------------------- MODULE MCCrawls -------------------------------
(***************************************************************************)
(* The crawls instance of ConnectorSync.  Three parts of its state space   *)
(* are explored: two requests at a time, toggles of one tenant and         *)
(* backfills of another, that lose nothing; one request of the first       *)
(* tenant at a time, which may be cut off anywhere; and the same without   *)
(* a loop, where the children may log a coarsened ACL.                     *)
(***************************************************************************)
EXTENDS MCConnectorSync

Overlapping ==
    /\ log' = {} /\ torn' = {} /\ lost' = {}
    /\ \A r \in Request : on'[r].mode = "backfill" => on'[r].tenant = t2
    /\ \A c \in Child : child'[c].mode = "backfill" => child'[c].tenant # t1

HungUp ==
    /\ Cardinality({r \in Request : pc'[r] # "idle"}) <= 1
    /\ \A r \in Request : on'[r].tenant # t2
    /\ \A c \in Child : child'[c].tenant # t2

Coarsened == log' # {} => \A l \in Loop : pc'[l] = "idle"

Explored == Overlapping \/ (HungUp /\ Coarsened)

=============================================================================
