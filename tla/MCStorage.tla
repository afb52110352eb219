----------------------------- MODULE MCStorage ------------------------------
(* An instance of what a workspace stores, for TLC: KeywordIndex with two    *)
(* documents, of two chunks and of one, LocalFileStorage with two puts of    *)
(* one process and one of another, the chunkers, what is derived from the    *)
(* chunks, and the files of versions and images.  They share no state, so a  *)
(* behaviour follows one of them.                                            *)
EXTENDS KeywordIndex, LocalFileStorage, TextSplitter, Knowledge, KeptFiles, TLC

CONSTANTS a0, a1, b0, dA, dB, w1, w2, w3, p1, p2

VARIABLE subject   \* the component this behaviour is about

MCDocOf == [c \in {a0, a1, b0} |-> IF c \in {a0, a1} THEN dA ELSE dB]

\* Every chunk is its own text, and every put writes bytes of its own.
MCTextOf == [c \in {a0, a1, b0} |-> c]
MCValueOf == [w \in {w1, w2, w3} |-> w]
MCProcessOf == [w \in {w1, w2, w3} |-> IF w = w3 THEN p2 ELSE p1]

\* Windows without overlap, with one, and with more than a window.
MCWindows == {<<2, 1>>, <<3, 1>>, <<1, 3>>, <<3, 5>>}

\* The first document names two pairs twice and in both orders.
MCEntitiesOf == [d \in {"k1", "k2"} |-> IF d = "k1" THEN <<<<"A", "B">>, <<"B", "A", "C">>>>
                                        ELSE <<<<"B", "A">>>>]

\* The chunks of the longer document, and the puts of a process, are interchangeable.
Symmetry ==
  {ca @@ w : ca \in Permutations({a0, a1}), w \in Permutations({w1, w2})}

Init ==
  /\ subject \in {"index", "files", "splitter", "agent", "cluster", "tree", "versions", "images"}
  /\ subject = "splitter" \/ (kind = "pdf" /\ window = <<2, 1>> /\ text = <<<<>>>>)
  /\ subject = "cluster" \/ (triples = <<>> /\ known = {})
  /\ subject = "tree" \/ (clusterSize = 1 /\ levels = <<<<>>>>)
  /\ IndexInit /\ FileInit /\ SplitterInit /\ KnowledgeInit /\ KeptInit

ChunksNext ==
  /\ \/ /\ subject = "index" /\ IndexNext
        /\ UNCHANGED <<fileVars, splitterVars, knowledgeVars>>
     \/ /\ subject = "files" /\ FileNext
        /\ UNCHANGED <<indexVars, splitterVars, knowledgeVars>>
     \/ /\ subject = "splitter" /\ SplitterNext
        /\ UNCHANGED <<indexVars, fileVars, knowledgeVars>>
     \/ /\ subject \in {"agent", "cluster", "tree"} /\ KnowledgeNext
        /\ subject # "agent" => UNCHANGED agentVars
        /\ UNCHANGED <<indexVars, fileVars, splitterVars>>
  /\ UNCHANGED keptVars

FilesNext ==
  /\ \/ subject = "versions" /\ VersionNext
     \/ subject = "images" /\ ImageNext
  /\ UNCHANGED <<indexVars, fileVars, splitterVars, knowledgeVars>>

Next == (ChunksNext \/ FilesNext) /\ UNCHANGED subject

Spec == Init /\ [][Next]_<<indexVars, fileVars, splitterVars, knowledgeVars, keptVars, subject>>

TypeOK == IndexTypeOK /\ FileTypeOK /\ SplitterTypeOK /\ KnowledgeTypeOK /\ KeptTypeOK

\* What is made of an upload stands for it: its chunks tile the text, and the graph,
\* the clusters and the tree made of the chunks name what these name.
DerivedStands == ChunksTileText /\ DerivedIsGrounded
=============================================================================
