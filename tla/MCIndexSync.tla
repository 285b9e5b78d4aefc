------------------------------ MODULE MCIndexSync ------------------------------
(* The worker and one reindex request, two watched directories with a file *)
(* each.                                                                   *)
EXTENDS IndexSync

CONSTANTS memory, sessions, notes, a, b

MCRoots == <<memory, sessions>>

\* config/mouse.yaml: the last directory is one nothing creates.
MCRootsOfYaml == <<memory, sessions, notes>>

MCRootOf == [f \in Files |-> IF f = a THEN memory ELSE sessions]
=============================================================================
