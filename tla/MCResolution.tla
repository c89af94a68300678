---------------------------- MODULE MCResolution ----------------------------
(***************************************************************************)
(* Three members, one shared domain and one chunk.  Members 1 and 2 are    *)
(* contacts of a CRM, member 3 is a person of the internal directory.      *)
(***************************************************************************)
EXTENDS Resolution

MCMember == {1, 2, 3}
MCKey == {11}
MCChunk == {21}

MCInitFacts ==
  {<<1, "email", "jane">>, <<2, "email", "jane+news">>, <<2, "external_id", "x">>}

MCFactValue ==
  MCInitFacts \cup
  {<<3, "email", "jane">>, <<2, "fk", "acme">>, <<3, "external_id", "x">>}

MCCanonicalOf == [v \in {"jane", "jane+news"} |-> "jane"]
MCNamespaceOf == <<"customer_contact", "customer_contact", "internal_directory">>
MCParentOf == [v \in {"acme"} |-> 1]

MCCatalogue ==
  {Row(1, 11, 1, "domain_match", "acme.dev", 1),
   Row(2, 11, 1, "domain_match", "acme.dev", 1),
   Row(3, 11, 1, "domain_match", "acme.dev", 1),
   Row(1, 3, 1, "admin_crosswalk", "", 1),
   Row(2, 3, 1, "admin_crosswalk", "", 1),
   Row(1, 2, 2, "human_rejected", "", -1),
   Row(2, 1, 1, "email_exact", "jane", 1),
   Row(2, 3, 2, "llm_judge", "", 1),
   Row(1, 2, 3, "llm_mention", "", 1),
   Row(1, 21, 1, "domain_match", "acme.dev", 1),
   Row(1001, 21, 3, "llm_mention", "", 1)}

MCConfigRows == {<<"email", [Fallback EXCEPT !.min = 3, !.deny = {"jane"}]>>}

MCCrosswalk == {<<2, 2000>>}

\* The ledger is explored with one run and no edit in its midst, the overlap of
\* two runs and the edits between their steps with two edits.
VARIABLE focus

MCInit == Init /\ focus \in {"ledger", "overlap"}

MCNext ==
  /\ Next
  /\ focus = "ledger" => /\ runs' <= 1
                         /\ edits' # edits => \A r \in Runner : run[r] = Idle
  /\ focus = "overlap" => edits' <= 2
  /\ UNCHANGED focus

MCSpec == MCInit /\ [][MCNext]_<<vars, focus>>
=============================================================================
