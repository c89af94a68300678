--------------------------- MODULE MCFolderWatch ---------------------------
(* Instances of FolderWatch for TLC. *)
EXTENDS FolderWatch, TLC

CONSTANTS f1, f2, q1, q2, p1, p2

\* The last change of the folder that the bound allows is a removal.
RemovalLast == now' = MaxTime => \A f \in File : mtime'[f] # now'

=============================================================================
