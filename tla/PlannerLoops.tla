---------------------------- MODULE PlannerLoops ----------------------------
(***************************************************************************)
(* The two agent loops that let a model call tools: runDeepResearch        *)
(* (orchestrator/src/agents/deep-research.ts, behind patterns/builders.ts) *)
(* and createReActAgent (agents/react.ts with agents/planner.ts), and the  *)
(* built-in tools they call (tools/built-in.ts, tools/registry.ts).        *)
(*                                                                         *)
(* A turn of the model is an await, and so is the call of a tool.  The     *)
(* model writes what it likes: a call, an answer or something that does    *)
(* not parse, and any of its turns may throw.                              *)
(***************************************************************************)
EXTENDS Integers, Sequences, FiniteSets, SequencesExt

CONSTANTS
  Loops,      \* subset of {"deep", "react"}
  Tools,      \* names the registry knows
  Args,       \* arguments a model passes
  Facts,      \* what tools can return
  MaxHits,    \* bound on the hits of a call
  MaxSteps    \* maxSteps

\* registerBuiltInTools: five tools, as a store and an embedder are there, and one for
\* each further backend.
BuiltInTools(backends) ==
  {"hybrid_search", "vector_search", "keyword_search", "today", "summary_search"}
  \cup (IF "web" \in backends THEN {"web_search"} ELSE {})
  \cup (IF "trace" \in backends THEN {"trace_search"} ELSE {})
  \cup (IF "graph" \in backends THEN {"graph_search"} ELSE {})

ASSUME LoopAssumption ==
  /\ Loops \subseteq {"deep", "react"} /\ MaxSteps \in Nat \ {0} /\ MaxHits \in Nat
  /\ Tools \subseteq BuiltInTools({"web", "trace", "graph"})

\* The built-in tools: whether execute() asks for a user (requireUser), the
\* backends it awaits in turn, and what the elements of `data.hits` look like:
\* retrieval's { chunk, score } keep their text one level down ("textless"), as
\* the web's { title, url, snippet } do; searchKeyword's { chunkId, text } have no
\* id ("unnamed"), the corpus' { id, text } have both ("named").
HybridSearch == [user |-> TRUE, awaits |-> <<"retrieval">>, hits |-> "textless"]
VectorSearch == [user |-> TRUE, awaits |-> <<"embedder", "store">>, hits |-> "textless"]
KeywordSearch == [user |-> TRUE, awaits |-> <<"store">>, hits |-> "unnamed"]
Today == [user |-> FALSE, awaits |-> <<>>, hits |-> "none"]
WebSearch == [user |-> FALSE, awaits |-> <<"web">>, hits |-> "textless"]
TraceSearch == [user |-> TRUE, awaits |-> <<"embedder", "traces">>, hits |-> "named"]

\* The vector search again; of its hits the summaries.
SummarySearch == VectorSearch

\* Two queries, searchEntities and expandNeighborhood, and no `hits` in the data.
GraphSearch == [user |-> TRUE, awaits |-> <<"graph", "graph">>, hits |-> "none"]

ToolOf(name) ==
  CASE name = "hybrid_search" -> HybridSearch
    [] name = "vector_search" -> VectorSearch
    [] name = "keyword_search" -> KeywordSearch
    [] name = "today" -> Today
    [] name = "web_search" -> WebSearch
    [] name = "trace_search" -> TraceSearch
    [] name = "summary_search" -> SummarySearch
    [] name = "graph_search" -> GraphSearch

ShapeOf(tool) == ToolOf(tool).hits
NeedsUser(tool) == ToolOf(tool).user

Calls == [tool : Tools \cup {"no_such_tool"}, args : Args]
NoCall == [tool |-> "", args |-> ""]

VARIABLES
  loop,        \* the loop of this run
  hasUser,     \* invocationState.user_id is set
  loopAt,      \* "new", "planning", "calling", "yielding", "synthesis", "done", "thrown", "left"
  step,
  call,        \* turn.toolCall
  repeatGuard,
  findings,    \* the hits kept for the synthesis: [id, fact]
  citations,   \* ids
  trace,       \* the kinds of the events
  reply,       \* the answer of the result: "none", "written", "undefined", "canned"
  returned     \* history: what successful tools returned, with the shape of the tool

loopVars == <<loop, hasUser, loopAt, step, call, repeatGuard, findings, citations,
              trace, reply, returned>>

LoopTypeOK ==
  /\ loop \in {"deep", "react"} /\ hasUser \in BOOLEAN
  /\ loopAt \in {"new", "planning", "calling", "synthesis", "done", "thrown", "left"}
  /\ step \in 0 .. MaxSteps
  /\ {call, repeatGuard} \subseteq Calls \cup {NoCall}
  /\ reply \in {"none", "written", "undefined", "canned"}
  /\ \A e \in ToSet(trace) : e \in {"thought", "tool_call", "tool_result", "answer_chunk", "final"}

LoopInit ==
  /\ loop \in Loops /\ hasUser \in BOOLEAN
  /\ loop = "react" => ~hasUser   \* react.ts passes an empty invocationState
  /\ loopAt = "new" /\ step = 0
  /\ call = NoCall /\ repeatGuard = NoCall
  /\ findings = <<>> /\ citations = <<>> /\ trace = <<>>
  /\ reply = "none" /\ returned = {}

Emit(kinds) == trace' = trace \o kinds
Deep == loop = "deep"

\* buildDeepResearch answers by itself when it has no model.
LoopStart ==
  /\ loopAt = "new"
  /\ \/ loopAt' = "planning" /\ UNCHANGED reply
     \/ Deep /\ loopAt' = "done" /\ reply' = "canned"
  /\ UNCHANGED <<loop, hasUser, step, call, repeatGuard, findings, citations, trace, returned>>

\* A turn of the model.  Deep research hands its text out as answer_chunks.
Spoken == IF Deep THEN <<"answer_chunk">> ELSE <<>>

\* The model throws, or a consumer of the ReAct generator stops at a yield.
LoopBreaks ==
  /\ \/ loopAt \in {"planning", "synthesis"} /\ loopAt' = "thrown"
     \/ ~Deep /\ loopAt \in {"planning", "calling"} /\ trace # <<>> /\ loopAt' = "left"
  /\ UNCHANGED <<loop, hasUser, step, call, repeatGuard, findings, citations, trace,
                 reply, returned>>

TurnIs(c) == loopAt = "planning" /\ step < MaxSteps /\ call' = c

\* Mutant: the tool_call event is emitted before the loop guard looks at it.
PlanCall_Announced(c) ==
  /\ TurnIs(c)
  /\ IF Deep /\ c = repeatGuard
     THEN /\ loopAt' = "synthesis"
          /\ Emit(Spoken \o <<"thought", "tool_call", "thought", "thought">>)
          /\ UNCHANGED repeatGuard
     ELSE /\ loopAt' = "calling" /\ repeatGuard' = c
          /\ Emit(Spoken \o <<"thought", "tool_call">>)
  /\ UNCHANGED <<loop, hasUser, step, findings, citations, reply, returned>>

\* The model asks for a tool.  Deep research stops at the same call twice in a
\* row; ReAct throws out of the loop when the tool is unknown.
PlanCall(c) ==
  /\ TurnIs(c)
  /\ IF Deep /\ c = repeatGuard
     THEN /\ loopAt' = "synthesis"
          /\ Emit(Spoken \o <<"thought", "thought", "thought">>)
          /\ UNCHANGED repeatGuard
     ELSE /\ loopAt' = IF ~Deep /\ c.tool \notin Tools THEN "thrown" ELSE "calling"
          /\ repeatGuard' = c
          /\ Emit(Spoken \o <<"thought", "tool_call">>)
  /\ UNCHANGED <<loop, hasUser, step, findings, citations, reply, returned>>

\* The model answers: its citations are added to those collected, unchecked.
PlanAnswer(cited) ==
  /\ TurnIs(NoCall)
  /\ citations' = IF Deep THEN citations \o cited ELSE citations
  /\ reply' = "written" /\ loopAt' = "done"
  /\ Emit(Spoken \o (IF Deep THEN <<"thought", "final">> ELSE <<"final">>))
  /\ UNCHANGED <<loop, hasUser, step, repeatGuard, findings, returned>>

\* parsePlannerTurn throws, parseTurn returns a reason.
PlanGarbled ==
  /\ TurnIs(NoCall)
  /\ IF Deep THEN /\ loopAt' = "synthesis" /\ UNCHANGED reply
                  /\ Emit(Spoken \o <<"thought", "thought">>)
             ELSE loopAt' = "done" /\ reply' = "canned" /\ Emit(<<"final">>)
  /\ UNCHANGED <<loop, hasUser, step, repeatGuard, findings, citations, returned>>

\* collectCitationsFromResult: hits without text are skipped, and a hit without
\* an id is named after the tool and its place in the result.
Collected(tool, hits) ==
  CASE ShapeOf(tool) = "named" -> [i \in DOMAIN hits |-> [id |-> hits[i], fact |-> hits[i]]]
    [] ShapeOf(tool) = "unnamed" -> [i \in DOMAIN hits |-> [id |-> <<tool, i>>, fact |-> hits[i]]]
    [] OTHER -> <<>>

\* Mutant: only the last observation is kept.
Findings_Last(got) == got

Findings(got) ==
  findings \o SelectSeq(got, LAMBDA f : \A g \in ToSet(findings) : g.id # f.id)

Cited(got) ==
  citations \o SelectSeq([i \in DOMAIN got |-> got[i].id], LAMBDA id : id \notin ToSet(citations))

\* The loop goes on, or ends with the synthesis (deep) or a canned answer (ReAct).
AfterTool ==
  /\ step' = step + 1
  /\ IF step + 1 < MaxSteps
     THEN loopAt' = "planning" /\ Emit(<<"tool_result">>) /\ UNCHANGED reply
     ELSE IF Deep
     THEN loopAt' = "synthesis" /\ Emit(<<"tool_result", "thought">>) /\ UNCHANGED reply
     ELSE loopAt' = "done" /\ reply' = "canned" /\ Emit(<<"tool_result", "final">>)

ToolAnswers(hits) ==
  /\ loopAt = "calling" /\ call.tool \in Tools /\ (NeedsUser(call.tool) => hasUser)
  /\ LET got == Collected(call.tool, hits)
     IN  IF Deep THEN findings' = Findings(got) /\ citations' = Cited(got)
                 ELSE UNCHANGED <<findings, citations>>
  /\ returned' = returned \cup {<<ShapeOf(call.tool), hits[i]>> : i \in DOMAIN hits}
  /\ AfterTool
  /\ UNCHANGED <<loop, hasUser, call, repeatGuard>>

\* executeTool and wrap turn the exception of a backend, an unknown tool and a
\* missing user into a failed result.
ToolFails ==
  /\ loopAt = "calling"
  /\ call.tool \in Tools =>
       (NeedsUser(call.tool) /\ ~hasUser) \/ ToolOf(call.tool).awaits # <<>>
  /\ AfterTool
  /\ UNCHANGED <<loop, hasUser, call, repeatGuard, findings, citations, returned>>

\* The synthesis is read with parsePlannerTurn: { thought, finalAnswer }, of
\* which the loop takes the fields `answer` and `citations`.  A synthesis that
\* does not parse throws out of the run.
Synthesize(parses) ==
  /\ loopAt = "synthesis"
  /\ IF parses THEN /\ loopAt' = "done" /\ reply' = "undefined"
                    /\ Emit(<<"thought", "answer_chunk", "final">>)
               ELSE /\ loopAt' = "thrown" /\ UNCHANGED reply
                    /\ Emit(<<"thought", "answer_chunk">>)
  /\ UNCHANGED <<loop, hasUser, step, call, repeatGuard, findings, citations, returned>>

LoopNext ==
  \/ LoopStart \/ LoopBreaks \/ PlanGarbled \/ ToolFails
  \/ \E c \in Calls : PlanCall(c)
  \/ \E cited \in {<<f>> : f \in Facts} \cup {<<>>} : PlanAnswer(cited)
  \/ \E hits \in SeqOf(Facts, MaxHits) : IsInjective(hits) /\ ToolAnswers(hits)
  \/ \E parses \in BOOLEAN : Synthesize(parses)

LoopSpec == LoopInit /\ [][LoopNext]_loopVars

-----------------------------------------------------------------------------
(* Properties                                                              *)

\* A live trace can be drawn from the events of either loop: the event after a
\* tool_call is its tool_result, no result comes without a call, and a run that
\* returns has said so once, at the end, unless it never had a model.
TraceIsPaired ==
  /\ \A i \in DOMAIN trace :
       /\ trace[i] = "tool_call" /\ i < Len(trace) => trace[i + 1] = "tool_result"
       /\ trace[i] = "tool_result" => i > 1 /\ trace[i - 1] = "tool_call"
       /\ trace[i] = "final" => i = Len(trace)
  /\ loopAt \in {"planning", "synthesis", "done"} /\ trace # <<>> => Last(trace) # "tool_call"
  /\ loopAt = "done" /\ reply # "canned" => trace # <<>> /\ Last(trace) = "final"

\* Deep research "persists findings between turns", as far as the tools name
\* what they return: every such hit of every call is there for the synthesis,
\* once, and is cited.
FindingsAreTheUnion ==
  Deep =>
    /\ \A r \in returned : r[1] = "named" => \E f \in ToSet(findings) : f.fact = r[2]
    /\ \A i, j \in DOMAIN findings : findings[i].id = findings[j].id => i = j
    /\ {f.id : f \in ToSet(findings)} \subseteq ToSet(citations)

\* ". . . so the final synthesis can cite the union of every tool observation,
\* not just the last one" (deep-research.ts:10).
SynthesisCitesUnion ==
  Deep /\ loopAt = "synthesis" =>
    \A r \in returned : \E f \in ToSet(findings) : f.fact = r[2]

\* A run that returns returns an answer.
RepliesAreWritten == loopAt = "done" => reply # "undefined"
=============================================================================
