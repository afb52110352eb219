-------------------------- MODULE MCIngestPipeline --------------------------
(* Instances of IngestPipeline for TLC: what the uploads carry.            *)
EXTENDS IngestPipeline

CONSTANTS u1, u2, u3, dA, dB, w1, w2

\* Two uploads of the same bytes, the second under a type that makes one
\* chunk less, and one of a document without text.
MCDocOf == [j \in {u1, u2, u3} |-> IF j = u3 THEN dB ELSE dA]
MCPartsOf == [j \in {u1, u2, u3} |-> IF j = u1 THEN 2 ELSE IF j = u2 THEN 1 ELSE 0]

\* Uploads of two documents, of two chunks and without text.
MCTwoDocs == [j \in {u1, u2} |-> IF j = u1 THEN dA ELSE dB]
MCTwoParts == [j \in {u1, u2} |-> IF j = u1 THEN 2 ELSE 0]
=============================================================================
