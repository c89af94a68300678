------------------------------ MODULE MCStores ------------------------------
(***************************************************************************)
(* The document store and the lessons beside it, which share no row: a     *)
(* behaviour is one of documents (with a sweep or with a refresh of the    *)
(* brief) or one of lessons, chosen at its start.                          *)
(***************************************************************************)
EXTENDS MCDocuments, Knowledge

CONSTANTS e1, e2, a1, a2, c1, s1, k1, k2

EntityOfEpisode == e1 :> "acme" @@ e2 :> "bolt"
WriterOfEpisode == e1 :> a1 @@ e2 :> a2
CanonOfStatement == s1 :> c1

\* Neither writers of documents nor workers are told apart.
StoresSymmetry == WriterSymmetry \cup Permutations({k1, k2})

StoresInit ==
  /\ Init
  /\ KnowledgeInit
  /\ focus \in {"sweeps", "briefs", "lessons"}

StoresNext ==
  \/ focus # "lessons" /\ MCNext /\ UNCHANGED lessonVars
  \/ focus = "lessons" /\ KnowledgeNext /\ UNCHANGED <<vars, focus>>

StoresSpec == StoresInit /\ [][StoresNext]_<<vars, focus, lessonVars>>

=============================================================================
