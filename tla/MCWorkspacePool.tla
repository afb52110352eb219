-------------------------- MODULE MCWorkspacePool --------------------------
(* Instances of WorkspacePool for TLC. *)
EXTENDS WorkspacePool

CONSTANTS ann, bob, cid, c1, c2, c3, c4

\* Ann saves the settings and reads them; jobs of two others compete with her for
\* the room in the pool.
MCUserOf ==
  [c \in {c1, c2, c3, c4} |-> IF c \in {c1, c2} THEN ann ELSE IF c = c3 THEN bob ELSE cid]
MCKinds ==
  [c \in {c1, c2, c3, c4} |-> IF c = c1 THEN "write" ELSE IF c = c2 THEN "read" ELSE "job"]

\* The jobs are Ann's, too.
MCAnn == [c \in {c1, c2, c3, c4} |-> ann]
=============================================================================
