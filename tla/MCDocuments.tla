---------------------------- MODULE MCDocuments ----------------------------
(***************************************************************************)
(* Instances of Documents for TLC.  A sweep and a refresh of the brief     *)
(* share no state but the chunks, and no property is about both: a         *)
(* behaviour has one or the other, chosen at its start.  What a sweep does *)
(* never looks at a tag, and what a brief contains never at an audience:   *)
(* the one is fixed in behaviours of the first kind, the other in those of *)
(* the second.                                                             *)
(***************************************************************************)
EXTENDS Documents, TLC

CONSTANTS p1, p2, w1, w2

WriterSymmetry == Permutations({w1, w2})

VARIABLE focus

Writing == {write[w] : w \in Writer}

MCInit == Init /\ focus \in {"sweeps", "briefs"}

MCNext ==
    /\ Next /\ UNCHANGED focus
    /\ focus = "sweeps" => UNCHANGED refresh /\ \A w \in Writer : write'[w].ep # 0 => write'[w].tag
    /\ focus = "briefs" => UNCHANGED sweep /\ \A c \in rows' \union Writing' : c.vis \in {{}, Principal}

MCSpec == MCInit /\ [][MCNext]_<<vars, focus>>

=============================================================================
