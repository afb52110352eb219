------------------------------ MODULE Knowledge -----------------------------
(* What is derived from documents: the entity graph, the fact and the        *)
(* summary that agenticIngest adds after the chunks (ingest-agentic.ts,      *)
(* graph/store.ts, summary/index.ts), the clusters of an extracted graph     *)
(* (graph/index.ts) and the tree of summaries (summary/raptor.ts).           *)
EXTENDS Integers, Sequences, SequencesExt, FiniteSets, FiniteSetsExt

CONSTANTS
  KnownDocs,     \* documents that are ingested
  Names,         \* entity names
  EntitiesOf,    \* the names in each chunk of a document, in the order of the text
  SummaryKinds,  \* the SummaryIndex that may be wired: "llm", "extractive"
  MaxIngests,    \* bound on the ingests
  MaxTriples,    \* bound on the triples the model extracts
  MaxLeaves,     \* bound on the chunks under a tree of summaries
  MaxLevels      \* maxLevels of buildRaptorTree

ASSUME KnowledgeAssumption ==
  /\ EntitiesOf \in [KnownDocs -> Seq(Seq(Names))]
  /\ SummaryKinds \subseteq {"llm", "extractive"}
  /\ {MaxIngests, MaxTriples, MaxLeaves, MaxLevels} \subseteq Nat

VARIABLES
  ingestAt,   \* agenticIngest of a document: "idle", "steps", "summary", "done"
  ingests,    \* calls of agenticIngest
  graphSeen,  \* chunks the graph step has visited
  stepAt,     \* the graph and the memory step of a document: "running", "ended", "failed"
  mentions,   \* graph_entities: <<name, chunk>>
  edges,      \* graph_edges: the weight of each ordered pair of names
  facts,      \* memory rows the ingests of a document wrote
  summaries,  \* documents whose summary chunk is stored
  reported,   \* sideEffects of the last answer: what it says was derived
  known,      \* entities of extractEntities
  triples,    \* its triples, those the clustering has not seen
  extracted,  \* all of them
  parent,     \* the union-find forest of clusterEntities
  clusterSize,
  levels      \* of buildRaptorTree: the leaves under each chunk of each level

agentVars == <<ingestAt, ingests, graphSeen, stepAt, mentions, edges, facts, summaries,
               reported>>
clusterVars == <<known, triples, extracted, parent>>
treeVars == <<clusterSize, levels>>
knowledgeVars == <<agentVars, clusterVars, treeVars>>

Pairs == Names \X Names
ChunksOf(d) == {<<d, i>> : i \in DOMAIN EntitiesOf[d]}
Effects(d) == ChunksOf(d) \cup {<<"memory">>, <<"summary">>}

KnowledgeTypeOK ==
  /\ ingestAt \in [KnownDocs -> {"idle", "steps", "summary", "done"}]
  /\ stepAt \in [KnownDocs \X {"graph", "memory"} -> {"running", "ended", "failed"}]
  /\ mentions \subseteq Names \X UNION {ChunksOf(d) : d \in KnownDocs}
  /\ edges \in [Pairs -> Nat] /\ facts \in [KnownDocs -> 0 .. ingests]
  /\ summaries \subseteq KnownDocs
  /\ \A d \in KnownDocs : graphSeen[d] <= Len(EntitiesOf[d]) /\ reported[d] \subseteq Effects(d)
  /\ triples \in Seq(Pairs) /\ parent \in [Names -> Names] /\ known \subseteq Names
  /\ clusterSize \in 1 .. 3 /\ levels \in Seq(Seq(SUBSET (1 .. MaxLeaves)))

KnowledgeInit ==
  /\ ingestAt = [d \in KnownDocs |-> "idle"] /\ ingests = 0
  /\ graphSeen = [d \in KnownDocs |-> 0]
  /\ stepAt = [s \in KnownDocs \X {"graph", "memory"} |-> "running"]
  /\ mentions = {} /\ edges = [p \in Pairs |-> 0]
  /\ facts = [d \in KnownDocs |-> 0] /\ summaries = {} /\ reported = [d \in KnownDocs |-> {}]
  /\ known \in SUBSET Names /\ triples \in BoundedSeq(Pairs, MaxTriples)
  /\ extracted = triples /\ parent = [n \in Names |-> n]
  /\ clusterSize \in 1 .. 3
  /\ \E n \in 0 .. MaxLeaves : levels = <<[i \in 1 .. n |-> {i}]>>

-----------------------------------------------------------------------------
(* agenticIngest.                                                          *)

\* ingest() has stored the chunks; the same bytes come again when no seenHashes
\* is wired.
BeginSteps(d) ==
  /\ ingestAt[d] \in {"idle", "done"} /\ ingests < MaxIngests
  /\ ingestAt' = [ingestAt EXCEPT ![d] = "steps"]
  /\ ingests' = ingests + 1 /\ graphSeen' = [graphSeen EXCEPT ![d] = 0]
  /\ stepAt' = [s \in DOMAIN stepAt |-> IF s[1] = d THEN "running" ELSE stepAt[s]]
  /\ reported' = [reported EXCEPT ![d] = {}]
  /\ UNCHANGED <<mentions, edges, facts, summaries>>

\* Mutant: the pairs come first.
Statements_PairsFirst(names) ==
  LET pairs == {p \in (DOMAIN names) \X (DOMAIN names) : p[1] < p[2]}
      order == SetToSortSeq(pairs, LAMBDA p, q : p[1] < q[1] \/ (p[1] = q[1] /\ p[2] < q[2]))
  IN  [k \in DOMAIN order |-> <<names[order[k][1]], names[order[k][2]]>>]
        \o [i \in DOMAIN names |-> <<names[i]>>]

\* The statements of addMentions for a chunk: its names, then every pair of them.
Statements(names) ==
  LET pairs == {p \in (DOMAIN names) \X (DOMAIN names) : p[1] < p[2]}
      order == SetToSortSeq(pairs, LAMBDA p, q : p[1] < q[1] \/ (p[1] = q[1] /\ p[2] < q[2]))
  IN  [i \in DOMAIN names |-> <<names[i]>>]
        \o [k \in DOMAIN order |-> <<names[order[k][1]], names[order[k][2]]>>]

\* A statement that throws ends the graph step; there is no transaction, and what
\* was written stays.  A name already there is ignored, an edge gains weight.
MentionChunk(d) ==
  LET c == <<d, graphSeen[d] + 1>>
      todo == Statements(EntitiesOf[d][c[2]])
  IN  /\ ingestAt[d] = "steps" /\ stepAt[d, "graph"] = "running"
      /\ graphSeen[d] < Len(EntitiesOf[d])
      /\ \E k \in 0 .. Len(todo) :
           LET run == ToSet(SubSeq(todo, 1, k))
           IN  /\ mentions' = mentions \cup {<<s[1], c>> : s \in {s \in run : Len(s) = 1}}
               /\ edges' = [p \in Pairs |-> IF p \in run THEN edges[p] + 1 ELSE edges[p]]
               /\ IF k = Len(todo)
                  THEN /\ graphSeen' = [graphSeen EXCEPT ![d] = @ + 1]
                       /\ reported' = [reported EXCEPT ![d] = @ \cup {c : s \in run}]
                       /\ UNCHANGED stepAt
                  ELSE /\ stepAt' = [stepAt EXCEPT ![d, "graph"] = "failed"]
                       /\ reported' = [reported EXCEPT ![d] = @ \ ChunksOf(d)]
                       /\ UNCHANGED graphSeen
      /\ UNCHANGED <<ingestAt, ingests, facts, summaries>>

EndGraph(d) ==
  /\ ingestAt[d] = "steps" /\ stepAt[d, "graph"] = "running"
  /\ graphSeen[d] = Len(EntitiesOf[d])
  /\ stepAt' = [stepAt EXCEPT ![d, "graph"] = "ended"]
  /\ UNCHANGED <<ingestAt, ingests, graphSeen, mentions, edges, facts, summaries, reported>>

Remember(d) ==
  /\ ingestAt[d] = "steps" /\ stepAt[d, "memory"] = "running"
  /\ \/ /\ stepAt' = [stepAt EXCEPT ![d, "memory"] = "ended"]
        /\ facts' = [facts EXCEPT ![d] = @ + 1]
        /\ reported' = [reported EXCEPT ![d] = @ \cup {<<"memory">>}]
     \/ /\ stepAt' = [stepAt EXCEPT ![d, "memory"] = "failed"]
        /\ UNCHANGED <<facts, reported>>
  /\ UNCHANGED <<ingestAt, ingests, graphSeen, mentions, edges, summaries>>

\* Promise.all.
BeginSummary(d) ==
  /\ ingestAt[d] = "steps"
  /\ \A s \in {"graph", "memory"} : stepAt[d, s] # "running"
  /\ ingestAt' = [ingestAt EXCEPT ![d] = "summary"]
  /\ UNCHANGED <<ingests, graphSeen, stepAt, mentions, edges, facts, summaries, reported>>

\* A summary has a text whether the model answers or not, but only one that was
\* embedded can be stored: the extractive index embeds none.
Summarise(d) ==
  /\ ingestAt[d] = "summary"
  /\ ingestAt' = [ingestAt EXCEPT ![d] = "done"]
  /\ \/ "llm" \in SummaryKinds /\ summaries' = summaries \cup {d}
        /\ reported' = [reported EXCEPT ![d] = @ \cup {<<"summary">>}]
     \/ UNCHANGED <<summaries, reported>>
  /\ UNCHANGED <<ingests, graphSeen, stepAt, mentions, edges, facts>>

AgentNext ==
  \E d \in KnownDocs :
    \/ BeginSteps(d) \/ MentionChunk(d) \/ EndGraph(d) \/ Remember(d)
    \/ BeginSummary(d) \/ Summarise(d)

-----------------------------------------------------------------------------
(* clusterEntities and expandNeighborhood.                                 *)

Root(n) ==
  LET root[m \in Names] == IF parent[m] = m THEN m ELSE root[parent[m]] IN root[n]

\* find(x) points all it passed at the root.
Passed(n) ==
  LET path[m \in Names] == {m} \cup (IF parent[m] = m THEN {} ELSE path[parent[m]]) IN path[n]

Find(forest, a, b) ==
  [n \in Names |-> CASE n \in Passed(a) -> Root(a) [] n \in Passed(b) -> Root(b) [] OTHER -> forest[n]]

\* Mutant: the name is hung under the other root, and not its root.
Unite_Name ==
  /\ triples # <<>>
  /\ LET a == Head(triples)[1] b == Head(triples)[2]
     IN  parent' = IF {a, b} \subseteq known
                   THEN [Find(parent, a, b) EXCEPT ![a] = Root(b)] ELSE parent
  /\ triples' = Tail(triples)
  /\ UNCHANGED <<known, extracted>>

\* A triple between two known entities joins their clusters.
Unite ==
  /\ triples # <<>>
  /\ LET a == Head(triples)[1] b == Head(triples)[2]
     IN  parent' = IF {a, b} \subseteq known
                   THEN [Find(parent, a, b) EXCEPT ![Root(a)] = Root(b)] ELSE parent
  /\ triples' = Tail(triples)
  /\ UNCHANGED <<known, extracted>>

\* expandNeighborhood: hop by hop along the edges, in their direction.
Neighborhood(seeds, hop) ==
  FoldLeft(LAMBDA s, h :
             LET next == {b \in Names \ s.visited : \E a \in s.frontier : edges[a, b] > 0}
             IN  [visited |-> s.visited \cup next, frontier |-> next],
           [visited |-> seeds, frontier |-> seeds], [h \in 1 .. hop |-> h]).visited

-----------------------------------------------------------------------------
(* buildRaptorTree.                                                        *)

\* Mutant: the last group takes no chunk past the last full one.
Groups_Full(level) ==
  [i \in 1 .. Len(level) \div clusterSize |->
     UNION {level[k] : k \in (i - 1) * clusterSize + 1 .. i * clusterSize}]

\* greedyKMeans groups neighbours, whatever their vectors.
Groups(level) ==
  [i \in 1 .. (Len(level) + clusterSize - 1) \div clusterSize |->
     UNION {level[k] : k \in (i - 1) * clusterSize + 1 .. Min({i * clusterSize, Len(level)})}]

\* One level more, each chunk of it a summary of a group; a level that would be
\* one chunk is not built.
BuildLevel ==
  /\ Len(levels) <= MaxLevels /\ Len(Last(levels)) > 1
  /\ Len(Groups(Last(levels))) > 1
  /\ levels' = Append(levels, Groups(Last(levels)))
  /\ UNCHANGED clusterSize

KnowledgeNext ==
  \/ AgentNext /\ UNCHANGED <<clusterVars, treeVars>>
  \/ Unite /\ UNCHANGED <<agentVars, treeVars>>
  \/ BuildLevel /\ UNCHANGED <<agentVars, clusterVars>>

-----------------------------------------------------------------------------
(* Properties.                                                             *)

\* Whatever statement of whatever ingest failed, two names that are joined in the
\* graph occur in one chunk that the graph also knows, in that order; and a chunk
\* an answer reports is in the graph with all its names and pairs.  Two hops reach
\* what a path of at most two edges reaches.
GraphIsGrounded ==
  /\ \A p \in Pairs : edges[p] > 0 =>
       \E d \in KnownDocs : \E i \in DOMAIN EntitiesOf[d] :
         LET names == EntitiesOf[d][i]
         IN  /\ {<<p[1], <<d, i>>>>, <<p[2], <<d, i>>>>} \subseteq mentions
             /\ \E j, k \in DOMAIN names : j < k /\ names[j] = p[1] /\ names[k] = p[2]
  /\ \A d \in KnownDocs : \A c \in reported[d] \cap ChunksOf(d) :
       \A s \in ToSet(Statements(EntitiesOf[d][c[2]])) :
         IF Len(s) = 1 THEN <<s[1], c>> \in mentions ELSE edges[s] > 0
  /\ \A a, b \in Names :
       b \in Neighborhood({a}, 2) <=>
         a = b \/ edges[a, b] > 0 \/ \E n \in Names : edges[a, n] > 0 /\ edges[n, b] > 0

\* Two entities are in one cluster exactly when triples connect them: every set of
\* entities that no triple leaves holds both or none.
ClustersAreComponents ==
  triples = <<>> =>
    \A a, b \in known :
      Root(a) = Root(b) <=>
        \A S \in SUBSET known :
          (\A i \in DOMAIN extracted :
             LET t == extracted[i] IN {t[1], t[2]} \subseteq known => (t[1] \in S <=> t[2] \in S))
            => (a \in S <=> b \in S)

\* Every level of the tree stands for all the leaves, each of them once.
LevelsCoverLeaves ==
  \A l \in DOMAIN levels :
    LET level == levels[l]
    IN  /\ UNION ToSet(level) = UNION ToSet(levels[1])
        /\ \A i, j \in DOMAIN level : i # j => level[i] \cap level[j] = {}

DerivedIsGrounded == GraphIsGrounded /\ ClustersAreComponents /\ LevelsCoverLeaves
=============================================================================
