---------------------------- MODULE JobContract ----------------------------
(***************************************************************************)
(* What the ingestion queue of one workspace promises, whatever table and  *)
(* worker implement it: one handler runs at a time, a job whose outcome is *)
(* recorded is never handled again, and only a job whose handler was cut   *)
(* off can be handled twice.                                               *)
(***************************************************************************)
CONSTANT Jobs

VARIABLE phase

Phases == {"absent", "queued", "active", "stalled", "settled"}

TypeOK == phase \in [Jobs -> Phases]

Init == phase = [j \in Jobs |-> "absent"]

Submit(j) ==
  /\ phase[j] = "absent"
  /\ phase' = [phase EXCEPT ![j] = "queued"]

Claim(j) ==
  /\ phase[j] = "queued"
  /\ \A k \in Jobs : phase[k] # "active"
  /\ phase' = [phase EXCEPT ![j] = "active"]

Settle(j) ==
  /\ phase[j] = "active"
  /\ phase' = [phase EXCEPT ![j] = "settled"]

\* The handler is cut off, or its outcome cannot be written down.
Abandon(j) ==
  /\ phase[j] = "active"
  /\ phase' \in {[phase EXCEPT ![j] = "stalled"], [phase EXCEPT ![j] = "queued"]}

\* The stalled jobs go back to the queue together.
Requeue ==
  /\ \E j \in Jobs : phase[j] = "stalled"
  /\ phase' = [j \in Jobs |-> IF phase[j] = "stalled" THEN "queued" ELSE phase[j]]

Next ==
  \/ \E j \in Jobs : Submit(j) \/ Claim(j) \/ Settle(j) \/ Abandon(j)
  \/ Requeue

Spec == Init /\ [][Next]_phase
=============================================================================
