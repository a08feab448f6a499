--------------------------- MODULE MCProjectCatalog ---------------------------
(* An instance of ProjectCatalog: two users of one project with two folders.  *)
EXTENDS ProjectCatalog

CONSTANTS p1, f1, f2, u1, u2

MCFolders == <<f1, f2>>
MCName == [f \in {f1, f2} |-> <<f>>]
=============================================================================
