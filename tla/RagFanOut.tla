----------------------------- MODULE RagFanOut ------------------------------
(***************************************************************************)
(* One turn of the RagAgent (orchestrator/src/agents/rag-agent.ts): the    *)
(* specialists of agents/sub-agents.ts retrieve in parallel, each retried, *)
(* the hits are merged, a long history is summarised and the generator     *)
(* answers (agents/defaults.ts).  Hooks are told before and after.         *)
(*                                                                         *)
(* The specialists share nothing but the moment at which the last of them  *)
(* ends.  Between two of their awaits any other may run.                   *)
(***************************************************************************)
EXTENDS Integers, Sequences, FiniteSets, SequencesExt, FiniteSetsExt

CONSTANTS
  RoleLists,     \* what req.roles may be: roles in order, without repetition
  SubAgents,     \* the roles buildDefaultSubAgents has a backend for
  ChunkIds,      \* ids of chunks
  Scores,        \* scores of hits, in units of the smallest step
  Whole,         \* the score 1
  MaxTries,      \* retry.maxAttempts
  KeptHits,      \* the 30 of mergeHits
  HookMayThrow,  \* the hooks of RagAgentHooks may throw
  LongHistory    \* history.length > turnLimit, with a summarizer configured

ASSUME RagAssumption ==
  /\ \A list \in RoleLists : IsInjective(list)
  /\ Whole \in Nat /\ Whole > Cardinality(ChunkIds)
  /\ SubAgents \subseteq {"vector", "keyword", "graph", "trace", "memory", "web"}
  /\ MaxTries \in Nat \ {0} /\ KeptHits \in Nat /\ Scores \subseteq Nat
  /\ {HookMayThrow, LongHistory} \subseteq BOOLEAN

VARIABLES
  roles,     \* req.roles, or the default roles
  task,      \* "idle", "trying", "sleeping", "told", "ok", "error", "rejected", by role
  tries,     \* attempt of withRetry
  outputs,    \* the hits of SubAgentOutput
  turn,      \* "fanOut", "summary", "answer", "done", "thrown"
  merged,    \* mergeHits(outputs)
  chatHistory, \* the turns the generator is called with: "old" and "recent" ones, or
               \* a "summary", a system message, and the last two
  heard,       \* those of them that are in the prompt
  failedTries, \* history: the attempts of a role that failed
  afterCalls   \* history: how often afterRetrieve was called for a role

ragVars == <<roles, task, tries, outputs, turn, merged, chatHistory, heard, failedTries, afterCalls>>

\* A role without a sub-agent has no task: 'summary' never has one.
Tasks == SelectSeq(roles, LAMBDA role : role \in SubAgents)
Specialists == ToSet(Tasks)

Some == SeqOf(ChunkIds, Cardinality(ChunkIds))
Distinct == {n \in Some : IsInjective(n)}
Sorted(list) == \A i, j \in DOMAIN list : i < j => list[i].score >= list[j].score

\* A list without repetitions of ids in a name space, with the scores its store
\* computed, best first.
Scored(space, from) ==
  {h \in SeqOf([id : {<<space, c>> : c \in ChunkIds}, score : Scores, from : {from}],
               Cardinality(ChunkIds)) :
     Sorted(h) /\ \A i, j \in DOMAIN h : h[i].id = h[j].id => i = j}

\* Vector and keyword search name the same chunks.
VectorHits == Scored("chunk", "vector")
KeywordHits == Scored("chunk", "keyword")

\* The entities that match score 1.  expandNeighborhood answers them again, under
\* other ids, and their neighbours with what is left of its limit, for a half.
GraphHits ==
  LET Named(names, space, score) ==
        [i \in DOMAIN names |-> [id |-> <<space, names[i]>>, score |-> score, from |-> "graph"]]
      Expanded(e, n) == SubSeq(e \o n, 1, Min({Len(e \o n), Cardinality(ChunkIds)}))
  IN  {<<>>} \cup
      {Named(e, "graph", Whole) \o Named(Expanded(e, n), "graph_n", Whole \div 2) :
         e \in Distinct \ {<<>>}, n \in Distinct}

\* Traces are scored by their place, in steps of 0.01.
TraceHits ==
  {[i \in DOMAIN t |-> [id |-> <<"trace", t[i]>>, score |-> Whole - (i - 1), from |-> "trace"]] :
     t \in Distinct}

\* So are pages, in steps of 0.05; an address found twice makes two ids.
WebHits ==
  {[i \in DOMAIN p |-> [id |-> <<"web", i, p[i]>>, score |-> Whole - (i - 1), from |-> "web"]] :
     p \in Some}

MemoryHits == Scored("mem", "memory")

\* What a specialist may return.
Hits(role) ==
  CASE role = "vector" -> VectorHits
    [] role = "keyword" -> KeywordHits
    [] role = "graph" -> GraphHits
    [] role = "trace" -> TraceHits
    [] role = "web" -> WebHits
    [] role = "memory" -> MemoryHits

RagTypeOK ==
  /\ roles \in RoleLists
  /\ task \in [Specialists -> {"idle", "trying", "sleeping", "ok", "error", "rejected"}]
  /\ tries \in [Specialists -> 1 .. MaxTries]
  /\ \A r \in Specialists : outputs[r] \in Hits(r)
  /\ turn \in {"fanOut", "summary", "answer", "done", "thrown"}
  /\ Len(merged) <= KeptHits
  /\ {chatHistory, heard} \subseteq SUBSET {"old", "recent", "summary"}

RagInit ==
  /\ roles \in RoleLists
  /\ task = [r \in Specialists |-> "idle"]
  /\ tries = [r \in Specialists |-> 1]
  /\ outputs = [r \in Specialists |-> <<>>]
  /\ turn = "fanOut"
  /\ merged = <<>>
  /\ chatHistory = {"old", "recent"} /\ heard = {}
  /\ failedTries = [r \in Specialists |-> 0]
  /\ afterCalls = [r \in Specialists |-> 0]

\* hooks.beforeRetrieve is awaited outside the try: its exception rejects the task.
BeginTask(r) ==
  /\ turn = "fanOut" /\ task[r] = "idle"
  /\ \E throws \in {FALSE, HookMayThrow} :
       task' = [task EXCEPT ![r] = IF throws THEN "rejected" ELSE "trying"]
  /\ UNCHANGED <<tries, outputs, turn, merged, chatHistory, heard, failedTries, afterCalls>>

\* afterRetrieve(hits) inside the try.  When it throws, the hits are given up and
\* the hook is called again, with none, where nothing catches it.
Retrieve(r, hits) ==
  /\ task[r] = "trying"
  /\ \/ /\ task' = [task EXCEPT ![r] = "ok"] /\ outputs' = [outputs EXCEPT ![r] = hits]
        /\ afterCalls' = [afterCalls EXCEPT ![r] = @ + 1]
     \/ /\ HookMayThrow
        /\ \E again \in BOOLEAN : task' = [task EXCEPT ![r] = IF again THEN "rejected" ELSE "error"]
        /\ afterCalls' = [afterCalls EXCEPT ![r] = @ + 2]
        /\ UNCHANGED outputs
  /\ UNCHANGED <<tries, turn, merged, chatHistory, heard, failedTries>>

\* Mutant: the retries end one attempt early.
GivesUp_Early(r) == tries[r] + 1 >= MaxTries

GivesUp(r) == tries[r] = MaxTries

\* retrieve() rejects: sleep and try again, or answer with an error.
RetrieveFails(r) ==
  /\ task[r] = "trying"
  /\ failedTries' = [failedTries EXCEPT ![r] = @ + 1]
  /\ IF ~GivesUp(r)
     THEN task' = [task EXCEPT ![r] = "sleeping"] /\ UNCHANGED afterCalls
     ELSE /\ \E throws \in {FALSE, HookMayThrow} :
               task' = [task EXCEPT ![r] = IF throws THEN "rejected" ELSE "error"]
          /\ afterCalls' = [afterCalls EXCEPT ![r] = @ + 1]
  /\ UNCHANGED <<tries, outputs, turn, merged, chatHistory, heard>>

WakeTask(r) ==
  /\ task[r] = "sleeping"
  /\ task' = [task EXCEPT ![r] = "trying"]
  /\ tries' = [tries EXCEPT ![r] = @ + 1]
  /\ UNCHANGED <<outputs, turn, merged, chatHistory, heard, failedTries, afterCalls>>

\* Mutant: the first hit of a chunk stays.
Put_First(seen, h) ==
  IF \A i \in DOMAIN seen : seen[i].id # h.id THEN Append(seen, h) ELSE seen

\* mergeHits: a Map keeps the place of the first hit of a chunk and, of its hits,
\* the first with the highest score; then a stable sort and the cut.
Put(seen, h) ==
  IF \A i \in DOMAIN seen : seen[i].id # h.id THEN Append(seen, h)
  ELSE [i \in DOMAIN seen |-> IF seen[i].id = h.id /\ h.score > seen[i].score THEN h ELSE seen[i]]

MergeHits ==
  LET all == FlattenSeq([i \in DOMAIN Tasks |-> outputs[Tasks[i]]])
      merge == FoldLeft(Put, <<>>, all)
      first(i, j) ==
        merge[i].score > merge[j].score \/ (merge[i].score = merge[j].score /\ i < j)
      order == SortSeq([i \in DOMAIN merge |-> i], first)
      best == [k \in DOMAIN merge |-> merge[order[k]]]
  IN  SubSeq(best, 1, Min({KeptHits, Len(best)}))

\* Promise.all: the last specialist ends.
Gather ==
  /\ turn = "fanOut" /\ \A r \in Specialists : task[r] \in {"ok", "error"}
  /\ merged' = MergeHits
  /\ turn' = IF LongHistory THEN "summary" ELSE "answer"
  /\ UNCHANGED <<task, tries, outputs, chatHistory, heard, failedTries, afterCalls>>

\* req.signal is looked at once, before anything is done.
AbortedTurn ==
  /\ turn = "fanOut" /\ \A r \in Specialists : task[r] = "idle"
  /\ turn' = "thrown"
  /\ UNCHANGED <<task, tries, outputs, merged, chatHistory, heard, failedTries, afterCalls>>

\* Promise.all rejects at the first rejection; the other tasks go on unheard.
FanOutRejects ==
  /\ turn = "fanOut" /\ \E r \in Specialists : task[r] = "rejected"
  /\ turn' = "thrown"
  /\ UNCHANGED <<task, tries, outputs, merged, chatHistory, heard, failedTries, afterCalls>>

\* maybeSummarize: a summary and the last two messages, or the history as it is.
Summarise ==
  /\ turn = "summary" /\ turn' = "answer"
  /\ chatHistory' \in {chatHistory, {"summary", "recent"}}
  /\ UNCHANGED <<task, tries, outputs, merged, heard, failedTries, afterCalls>>

\* buildMessages: the prompt leaves out the system messages of the history.
Prompt(turns) == turns \ {"summary"}

\* invokeWithHooks around generator.generate.
Generate ==
  /\ turn = "answer" /\ turn' \in {"done", "thrown"}
  /\ heard' = Prompt(chatHistory)
  /\ UNCHANGED <<task, tries, outputs, merged, chatHistory, failedTries, afterCalls>>

RagNext ==
  /\ UNCHANGED roles
  /\ \/ \E r \in Specialists : \/ BeginTask(r) \/ RetrieveFails(r) \/ WakeTask(r)
                               \/ \E hits \in Hits(r) : Retrieve(r, hits)
     \/ AbortedTurn \/ Gather \/ FanOutRejects \/ Summarise \/ Generate

RagSpec == RagInit /\ [][RagNext]_ragVars

-----------------------------------------------------------------------------
(* Properties                                                              *)

AllHits == UNION {ToSet(outputs[r]) : r \in Specialists}

\* Whatever the order in which the specialists end and how often they fail, the
\* generator gets every chunk they found once, at its best score, the best
\* first; what the cut leaves out is no better than what it keeps.  (rag-agent.ts
\* promises "rerank + dedup + score fusion on the merged hit list".)
BestHitsAreMerged ==
  turn \in {"summary", "answer", "done"} =>
    LET kept == ToSet(merged) IN
    /\ \A i, j \in DOMAIN merged : i < j => merged[i].score >= merged[j].score
                                            /\ merged[i].id # merged[j].id
    /\ kept \subseteq AllHits
    /\ \A h \in AllHits :
         \/ \E k \in kept : k.id = h.id /\ k.score >= h.score
         \/ Len(merged) = KeptHits /\ \A k \in kept : k.score >= h.score

\* A specialist is given up only after MaxTries failures, or by a hook.
ErrorsAreRetried ==
  \A r \in Specialists : task[r] = "error" => failedTries[r] = MaxTries \/ afterCalls[r] = 2

\* "conversation management: if history > turnLimit, summarize" (rag-agent.ts:12):
\* what is older than the last two messages reaches the model, as it was or
\* summarised.
OldTurnsAreHeard == turn = "done" => heard \cap {"old", "summary"} # {}

\* (Not kept.)  Every merged hit can be cited with its document: keyword hits
\* carry an empty documentId and displace the vector hit of the same chunk.
MergedHitsNameDocument == \A i \in DOMAIN merged : merged[i].from # "keyword"
=============================================================================
