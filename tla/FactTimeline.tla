---------------------------- MODULE FactTimeline ----------------------------
(***************************************************************************)
(* What the fact store promises of one fact, whatever order its events     *)
(* come in: the live value moves forward in event time until it is         *)
(* retracted, and nothing that was ever recorded is lost.  FactStore       *)
(* implements this specification.                                          *)
(***************************************************************************)
EXTENDS Integers

CONSTANTS Value, Instant

VARIABLES
    live,     \* {} or the one live [value, since]
    past      \* every [value, since] that was live, or came too late to be

vars == <<live, past>>

Record(v, at) == [value |-> v, since |-> at]

Init == live = {} /\ past = {}

\* A value becomes live: over nothing, or over another, older one.
Assert(v, at) ==
    /\ \A x \in live : at > x.since /\ v # x.value
    /\ live' = {Record(v, at)}
    /\ past' = past \union live

\* A value that comes too late is history from the start.
Late(v, at) ==
    /\ \E x \in live : at <= x.since /\ v # x.value
    /\ past' = past \union {Record(v, at)}
    /\ UNCHANGED live

Retract ==
    /\ live # {}
    /\ live' = {}
    /\ past' = past \union live

Next ==
    \/ \E v \in Value, at \in Instant : Assert(v, at) \/ Late(v, at)
    \/ Retract

Spec == Init /\ [][Next]_vars

=============================================================================
