--------------------------- MODULE MCProjectSave ---------------------------
(* Two jobs at once, one edit, and two paths for the project file.           *)
EXTENDS ProjectSave

CONSTANTS here, there
=============================================================================
