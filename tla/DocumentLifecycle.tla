------------------------- MODULE DocumentLifecycle -------------------------
(***************************************************************************)
(* The document lifecycle of core/src/lifecycle/state.ts, as the rules     *)
(* that every writer of documents.status ought to follow.  The server      *)
(* writes the status with plain UPDATEs and never asks assertTransition;   *)
(* IngestPipeline shows when its UPDATEs follow the rules all the same.    *)
(***************************************************************************)
CONSTANT Docs

VARIABLE state

States == {"pending", "ingesting", "ready", "failed"}

\* The table of legal transitions.
ALLOWED ==
  [from \in States |->
     CASE from = "pending"   -> {"ingesting", "failed"}
       [] from = "ingesting" -> {"ready", "failed"}
       [] from = "ready"     -> {"ingesting"}
       [] from = "failed"    -> {"pending", "ingesting"}]

Init == state = [d \in Docs |-> "absent"]

\* A row is born pending.
Create(d) ==
  /\ state[d] = "absent"
  /\ state' = [state EXCEPT ![d] = "pending"]

Transition(d, to) ==
  /\ state[d] # "absent"
  /\ to \in ALLOWED[state[d]]
  /\ state' = [state EXCEPT ![d] = to]

Next ==
  \E d \in Docs :
    \/ Create(d)
    \/ \E to \in States : Transition(d, to)

Spec == Init /\ [][Next]_state
=============================================================================
