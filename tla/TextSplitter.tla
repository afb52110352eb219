---------------------------- MODULE TextSplitter ----------------------------
(* From the bytes of an upload to the chunks that are stored (chunker/,      *)
(* ingest.ts, ingest-verbose.ts): chunkText cuts a list of words into        *)
(* windows that overlap, chunkStructured cuts at the headings first, and an  *)
(* upload of text or markdown goes through a chunker twice.  A word is its   *)
(* place in the upload; Heading says which words are a heading's mark.       *)
EXTENDS Integers, Sequences, SequencesExt, FiniteSets, FiniteSetsExt

CONSTANTS
  MaxWords,   \* bound on the words of an upload
  Windows     \* the chunkers in use: targetTokens and overlapTokens, in words

ASSUME SplitterAssumption == MaxWords \in Nat /\ Windows \subseteq (1 .. 9) \X (0 .. 9)

VARIABLES
  kind,       \* detectKind of the upload
  window,
  headings,   \* the words that are the mark of a heading at the start of a line
  text,       \* rawText: paragraphs, each a sequence of words on a line of its own
  parts,      \* the sections the running chunkText has not seen
  at,         \* i of chunkText, counted from 0
  pass,       \* "extract", "chunk", "chunked"
  chunks      \* the chunks of the running pass, [words, first]: `first` opens a section

splitterVars == <<kind, window, headings, text, parts, at, pass, chunks>>

Kinds == {"pdf", "html", "markdown", "text"}
Words == 1 .. MaxWords
Target == window[1]

\* safeOverlap and stride of chunkText.
SafeOverlap == Max({0, Min({window[2], Target - 1})})
Stride == Max({1, Target - SafeOverlap})

SplitterTypeOK ==
  /\ kind \in Kinds /\ window \in Windows /\ headings \subseteq Words
  /\ text \in Seq(Seq(Words)) /\ parts \in Seq(Seq(Words)) /\ at \in Nat
  /\ pass \in {"extract", "chunk", "chunked"}
  /\ chunks \in Seq([words : Seq(Words), first : BOOLEAN])

\* chunkStructured: a line that begins with a heading's mark begins a section.
\* A section without a word yields no chunk.
Sections(lines) ==
  LET Open(out, line) ==
        IF out = <<>> \/ (line # <<>> /\ Head(line) \in headings) THEN Append(out, line)
        ELSE Append(Front(out), Last(out) \o line)
  IN  SelectSeq(FoldLeft(Open, <<>>, lines), LAMBDA s : s # <<>>)

\* chunkText, chunkMarkdown: the whole text is one part.
OnePart(lines) == SelectSeq(<<FlattenSeq(lines)>>, LAMBDA s : s # <<>>)

\* An upload of n words whose lines end before the words in `breaks`.
Lines(n, breaks) ==
  LET starts == SetToSortSeq({1} \cup breaks, <)
      end(k) == IF k = Len(starts) THEN n ELSE starts[k + 1] - 1
  IN  [k \in DOMAIN starts |-> [i \in 1 .. end(k) - starts[k] + 1 |-> starts[k] + i - 1]]

\* The first chunker: the PDF's text and markdown as one part, text by sections.
\* HTML only loses its tags; ingest() also puts it on one line, `breaks` = {}.
SplitterInit ==
  /\ kind \in Kinds /\ window \in Windows
  /\ \E n \in 0 .. MaxWords : \E breaks \in SUBSET (2 .. n) :
       /\ headings \in SUBSET (breaks \cup (1 .. Min({n, 1})))
       /\ text = Lines(n, breaks)
  /\ parts = IF kind \in {"text", "html"} THEN Sections(text) ELSE OnePart(text)
  /\ at = 0 /\ chunks = <<>>
  /\ pass = IF kind = "html" THEN "chunk" ELSE "extract"

\* The window of chunkText at `at`.
Slice == SubSeq(Head(parts), at + 1, Min({at + Target, Len(Head(parts))}))

\* Mutant: the last window is not seen to reach the end.
Reached_Past == at + Target > Len(Head(parts))

\* No further window when this one reaches the end of the part.
Reached == at + Target >= Len(Head(parts))

\* One turn of the loop of chunkText.
CutChunk ==
  /\ pass \in {"extract", "chunk"} /\ parts # <<>>
  /\ chunks' = Append(chunks, [words |-> Slice, first |-> at = 0])
  /\ IF Reached \/ at + Stride >= Len(Head(parts)) THEN parts' = Tail(parts) /\ at' = 0
     ELSE parts' = parts /\ at' = at + Stride
  /\ UNCHANGED <<kind, window, headings, text, pass>>

\* The chunks are joined again, each on a line of its own, and the text is
\* chunked a second time: a PDF's as one part, any other by sections.
Rechunk ==
  /\ pass = "extract" /\ parts = <<>>
  /\ text' = [k \in DOMAIN chunks |-> chunks[k].words]
  /\ parts' = IF kind = "pdf" THEN OnePart(text') ELSE Sections(text')
  /\ chunks' = <<>> /\ pass' = "chunk"
  /\ UNCHANGED <<kind, window, headings, at>>

Chunked ==
  /\ pass = "chunk" /\ parts = <<>>
  /\ pass' = "chunked"
  /\ UNCHANGED <<kind, window, headings, text, parts, at, chunks>>

SplitterNext == CutChunk \/ Rechunk \/ Chunked

SplitterSpec == SplitterInit /\ [][SplitterNext]_splitterVars

-----------------------------------------------------------------------------
(* Properties.                                                             *)

\* What a chunk adds to the one before it.
Adds(c) == IF c.first THEN c.words ELSE SubSeq(c.words, SafeOverlap + 1, Len(c.words))

\* The chunks of a text tile it, whatever the sizes and the headings: no chunk is
\* longer than the window or adds nothing, consecutive chunks of a section share
\* exactly the overlap, and together they read as the text.
ChunksTileText ==
  /\ \A k \in DOMAIN chunks :
       /\ Len(chunks[k].words) <= Target /\ Adds(chunks[k]) # <<>>
       /\ ~chunks[k].first =>
            LET before == chunks[k - 1].words
            IN  SubSeq(before, Len(before) - SafeOverlap + 1, Len(before))
                  = SubSeq(chunks[k].words, 1, SafeOverlap)
  /\ parts = <<>> => FlattenSeq([k \in DOMAIN chunks |-> Adds(chunks[k])]) = FlattenSeq(text)
=============================================================================
