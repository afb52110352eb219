------------------------------ MODULE MCAgents ------------------------------
(* An instance of what answers a question, for TLC: the manager and the      *)
(* clients of the providers, the loops that call tools, the fan-out of the   *)
(* specialists, hybrid retrieval, the budget of a prompt, the helpers around *)
(* an answer and what grades answers.  They share no state, so a behaviour   *)
(* follows one.                                                              *)
EXTENDS
  LlmManager, PlannerLoops, RagFanOut, HybridRetrieval, ContextBuilder, ModelClients,
  Orchestration, Evaluation

VARIABLE subject   \* the component this behaviour is about

\* The specialists that share chunks, with one that does not; and the others.
MCRoleLists == {<<"vector", "keyword", "summary", "graph">>, <<"trace", "web", "memory">>}

\* The components of the path from a question to its answer, and those beside it.
Path == {"llm", "loop", "rag", "retrieval", "context", "reader", "client", "embed"}
Helpers == {"cache", "hooks", "traces"} \cup TaskKinds
Graders == {"harness", "synthetic"} \cup MeasureKinds

Init ==
  /\ subject \in Path \cup Helpers \cup Graders
  /\ IF subject = "context" THEN TRUE ELSE toPack = <<>> /\ toRecall = <<>>
  /\ IF subject = "reader" THEN TRUE ELSE wire = <<>>
  /\ IF subject = "embed" THEN TRUE ELSE texts = 0
  /\ LlmInit /\ RagInit /\ RetrievalInit /\ LoopInit /\ ContextInit /\ ClientsInit
  /\ subject # "loop" => loop = "react" /\ ~hasUser
  /\ subject # "context" => budget.retrieval = 65
  /\ subject # "rag" => roles[1] = "trace"
  /\ subject # "client" => prefix = "Raw"
  /\ HelpersInit(subject) /\ EvalInit(subject)

PathNext ==
  /\ \/ subject = "llm" /\ LlmNext
        /\ UNCHANGED <<loopVars, ragVars, retrievalVars, contextVars, readerVars, clientVars, embedVars>>
     \/ subject = "loop" /\ LoopNext
        /\ UNCHANGED <<llmVars, ragVars, retrievalVars, contextVars, readerVars, clientVars, embedVars>>
     \/ subject = "rag" /\ RagNext
        /\ UNCHANGED <<llmVars, loopVars, retrievalVars, contextVars, readerVars, clientVars, embedVars>>
     \/ subject = "retrieval" /\ RetrievalNext
        /\ UNCHANGED <<llmVars, loopVars, ragVars, contextVars, readerVars, clientVars, embedVars>>
     \/ subject = "context" /\ ContextNext
        /\ UNCHANGED <<llmVars, loopVars, ragVars, retrievalVars, readerVars, clientVars, embedVars>>
     \/ subject = "reader" /\ ReaderNext
        /\ UNCHANGED <<llmVars, loopVars, ragVars, retrievalVars, contextVars, clientVars, embedVars>>
     \/ subject = "client" /\ CallNext
        /\ UNCHANGED <<llmVars, loopVars, ragVars, retrievalVars, contextVars, readerVars, embedVars>>
     \/ subject = "embed" /\ EmbedNext
        /\ UNCHANGED <<llmVars, loopVars, ragVars, retrievalVars, contextVars, readerVars, clientVars>>

HelpNext ==
  \/ subject = "cache" /\ CacheNext
  \/ subject = "hooks" /\ HookNext
  \/ subject = "traces" /\ TraceNext
  \/ subject \in TaskKinds /\ Perform

GradeNext ==
  \/ subject = "harness" /\ HarnessNext
  \/ subject = "synthetic" /\ SyntheticTurn
  \/ subject \in MeasureKinds /\ TakeMeasure

pathVars == <<llmVars, loopVars, ragVars, retrievalVars, contextVars, modelVars>>

Next ==
  /\ UNCHANGED subject
  /\ \/ PathNext /\ UNCHANGED <<helperVars, evalVars>>
     \/ HelpNext /\ UNCHANGED <<pathVars, evalVars>>
     \/ GradeNext /\ UNCHANGED <<pathVars, helperVars>>

Spec == Init /\ [][Next]_<<pathVars, helperVars, evalVars, subject>>

\* What the tools, the specialists and the providers deliver reaches the answer:
\* every observation of deep research, the best hits of the fan-out, and the text of
\* a stream however it is cut.
AnswersAreWhole == FindingsAreTheUnion /\ BestHitsAreMerged /\ StreamSurvivesCuts

\* What is computed without a memory equals its definition.
ComputesAsDefined == HelpersAreExact /\ EvaluationIsHonest

TypeOK ==
  /\ LlmTypeOK /\ LoopTypeOK /\ RagTypeOK /\ RetrievalTypeOK /\ ContextTypeOK /\ ClientsTypeOK
  /\ HelpersTypeOK /\ EvalTypeOK
=============================================================================
