---------------------------- MODULE Orchestration ----------------------------
(* The helpers around an answer (orchestrator/src/pipeline, patterns, hooks,  *)
(* core/src/retrieval and traces): the query cache and the hook bus, which    *)
(* keep state, and what is computed from a request - its strategy, its        *)
(* pipeline, its expansions, a fused ranking, the text for the generator, the *)
(* kind of an upload (core/src/lifecycle/scanner.ts).                         *)
(* Whoever calls the cache and the bus is external.                           *)
EXTENDS Integers, Sequences, SequencesExt, FiniteSets, FiniteSetsExt, TLC

CONSTANTS
  CacheRooms, CacheUsers,
  CacheTtl,        \* ttlMs
  MaxCacheTime,    \* bound on the clock
  MaxCacheWrites,  \* bound on what is put
  Listeners,       \* hooks that may be registered
  MaxTurnover,     \* bound on the registrations
  TraceIds,
  MaxTraces        \* bound on the inserts

VARIABLES
  cacheTime,
  cached,      \* QueryCache.store: key -> [hits, expiresAt]
  cacheLog,    \* what was put or invalidated: [key, hits, at], hits 0 for an invalidation
  cacheReply,  \* the last answer of get(): [key, hits, at, logged]
  hookList,    \* bus[kind], a sequence
  turnover,
  emitting,    \* emit(): the next position, 0 when none runs
  called,      \* the hooks the emit called, in order
  stayed,      \* the hooks registered from its beginning to now
  shifted,     \* whether a hook left meanwhile
  traceRows,   \* trace_corpus: id -> [room, forms, near]
  traceReply,  \* search(): [room, form, topK, ids]
  traceWrites,
  asked,       \* the question put to one of the pure helpers
  outcome      \* and the answer

cacheVars == <<cacheTime, cached, cacheLog, cacheReply>>
hookVars == <<hookList, turnover, emitting, called, stayed, shifted>>
traceVars == <<traceRows, traceReply, traceWrites>>
askedVars == <<asked, outcome>>
helperVars == <<cacheVars, hookVars, traceVars, askedVars>>

-----------------------------------------------------------------------------
(* QueryCache.                                                             *)

Questions == [workspaceId : CacheRooms, userId : CacheUsers]

\* Mutant: the key leaves the user out.
HashKey_NoUser(q) == [workspaceId |-> q.workspaceId, userId |-> "any"]

\* hashKey(): the ids and the question, joined; no id contains the separator.
HashKey(q) == q

NoReply == [key |-> [workspaceId |-> "none", userId |-> "none"], hits |-> 0, at |-> 0, logged |-> 0]

CachePut(q) ==
  /\ Len(cacheLog) < MaxCacheWrites
  /\ LET hits == Len(cacheLog) + 1 IN
       /\ cached' = (HashKey(q) :> [hits |-> hits, expiresAt |-> cacheTime + CacheTtl]) @@ cached
       /\ cacheLog' = Append(cacheLog, [key |-> q, hits |-> hits, at |-> cacheTime])
  /\ UNCHANGED <<cacheTime, cacheReply>>

\* An entry is served up to and with the moment it expires.
Get(q) ==
  LET k == HashKey(q) IN
  IF k \in DOMAIN cached /\ cached[k].expiresAt >= cacheTime
  THEN /\ cacheReply' = [key |-> q, hits |-> cached[k].hits, at |-> cacheTime, logged |-> Len(cacheLog)]
       /\ UNCHANGED <<cacheTime, cached, cacheLog>>
  ELSE /\ cacheReply' = NoReply
       /\ cached' = [x \in DOMAIN cached \ {k} |-> cached[x]]
       /\ UNCHANGED <<cacheTime, cacheLog>>

\* The entries of one workspace, found by the beginning of their key.
Invalidate(room) ==
  /\ Len(cacheLog) < MaxCacheWrites
  /\ cached' = [k \in {x \in DOMAIN cached : x.workspaceId # room} |-> cached[k]]
  /\ cacheLog' = Append(cacheLog, [key |-> [workspaceId |-> room, userId |-> "any"],
                                    hits |-> 0, at |-> cacheTime])
  /\ UNCHANGED <<cacheTime, cacheReply>>

CacheTick ==
  /\ cacheTime < MaxCacheTime /\ cacheTime' = cacheTime + 1
  /\ UNCHANGED <<cached, cacheLog, cacheReply>>

CacheNext ==
  /\ \/ \E q \in Questions : CachePut(q) \/ Get(q)
     \/ \E room \in CacheRooms : Invalidate(room)
     \/ CacheTick
  /\ UNCHANGED <<hookVars, traceVars, askedVars>>

-----------------------------------------------------------------------------
(* HookRegistry.  emit() walks the live list by position and awaits each hook, *)
(* so others register and leave while it runs.                                *)

On(h) ==
  /\ turnover < MaxTurnover /\ h \notin ToSet(hookList)
  /\ hookList' = Append(hookList, h) /\ turnover' = turnover + 1
  /\ UNCHANGED <<emitting, called, stayed, shifted>>

\* What on() returned: the first occurrence is spliced out.
Off(h) ==
  /\ h \in ToSet(hookList)
  /\ hookList' = SelectSeq(hookList, LAMBDA x : x # h)
  /\ stayed' = stayed \ {h} /\ shifted' = (shifted \/ emitting > 0)
  /\ UNCHANGED <<turnover, emitting, called>>

BeginEmit ==
  /\ emitting = 0 /\ emitting' = 1 /\ called' = <<>>
  /\ stayed' = ToSet(hookList) /\ shifted' = FALSE
  /\ UNCHANGED <<hookList, turnover>>

\* Mutant: a hook that throws ends the emit.
AfterHook_Break(threw) == IF threw THEN Len(hookList) + 1 ELSE emitting + 1

\* A hook that throws or rejects is passed over.
AfterHook(threw) == emitting + 1

CallHook ==
  /\ emitting \in 1 .. Len(hookList)
  /\ called' = Append(called, hookList[emitting])
  /\ \E threw \in BOOLEAN : emitting' = AfterHook(threw)
  /\ UNCHANGED <<hookList, turnover, stayed, shifted>>

EndEmit ==
  /\ emitting > Len(hookList) /\ emitting' = 0
  /\ UNCHANGED <<hookList, turnover, called, stayed, shifted>>

HookNext ==
  /\ (\E h \in Listeners : On(h) \/ Off(h)) \/ BeginEmit \/ CallHook \/ EndEmit
  /\ UNCHANGED <<cacheVars, traceVars, askedVars>>

-----------------------------------------------------------------------------
(* SqliteTraceCorpus.                                                      *)

Forms == {"struct", "semantic", "reflect"}

NoTraces == [room |-> "none", form |-> "none", topK |-> 0, ids |-> <<>>]

\* INSERT OR REPLACE: the id alone is the key, whatever the workspace.  An earlier
\* answer is with its caller by then.
InsertTrace(id) ==
  /\ traceWrites < MaxTraces /\ traceWrites' = traceWrites + 1
  /\ \E room \in CacheRooms, forms \in {{"semantic"}, Forms}, near \in 0 .. 2 :
       traceRows' = (id :> [room |-> room, forms |-> forms, near |-> near]) @@ traceRows
  /\ traceReply' = NoTraces

\* The rows of the workspace that have the form; a vector of another length is
\* near 0 and stays in.
Eligible(room, form) == {t \in DOMAIN traceRows : traceRows[t].room = room /\ form \in traceRows[t].forms}

\* Best first; equals in the order the table gives them, which is any.
Ordered(ids) ==
  {s \in SetToSeqs(ids) : \A i \in 1 .. Len(s) - 1 : traceRows[s[i]].near >= traceRows[s[i + 1]].near}

Cut(s, n) == SubSeq(s, 1, IF n < Len(s) THEN n ELSE Len(s))

\* Mutant: the table is cut before the rows of the workspace are chosen.
Found_Early(room, form, topK) ==
  {SelectSeq(Cut(s, topK), LAMBDA t : t \in Eligible(room, form)) : s \in Ordered(DOMAIN traceRows)}

TracesFound(room, form, topK) == {Cut(s, topK) : s \in Ordered(Eligible(room, form))}

SearchTraces ==
  /\ \E room \in CacheRooms, form \in Forms, topK \in 1 .. 2 : \E ids \in TracesFound(room, form, topK) :
       traceReply' = [room |-> room, form |-> form, topK |-> topK, ids |-> ids]
  /\ UNCHANGED <<traceRows, traceWrites>>

TraceNext ==
  /\ (\E id \in TraceIds : InsertTrace(id)) \/ SearchTraces
  /\ UNCHANGED <<cacheVars, hookVars, askedVars>>

-----------------------------------------------------------------------------
(* resolveStrategy() and makeInvocationState(): the layers default, session,  *)
(* user and request, each a function on the fields it sets.                   *)

Fields == {"mode", "denseWeight", "rrfK"}
Nested == {"denseWeight", "rrfK"}            \* the fields of "hybrid"
StrategyDefaults == [f \in Fields |-> "default"]
Layers == UNION {[fs -> {"x", "y"}] : fs \in SUBSET Fields}

\* Mutant: a layer with some nested field stands for all of them.
Merge_Whole(base, over) ==
  over @@ (IF DOMAIN over \cap Nested = {} THEN base
           ELSE [f \in Fields |-> IF f \in Nested THEN "default" ELSE base[f]])

\* mergeStrategy(): field by field, nested ones too.
MergeStrategy(base, over) == over @@ base

ResolveStrategy(layers) == FoldLeft(MergeStrategy, StrategyDefaults, layers)

-----------------------------------------------------------------------------
(* PipelineRouter.resolve().                                               *)

Pipelines == {"query", "ingest"}
Hints == Pipelines \cup {"none", "bad"}

ResolvePipeline(hints) ==
  LET good == {i \in DOMAIN hints : hints[i] \in Pipelines}
  IN  IF good = {} THEN [pipeline |-> "query", reason |-> 0]
      ELSE [pipeline |-> hints[Min(good)], reason |-> Min(good)]

-----------------------------------------------------------------------------
(* shapeContext(): hits are [chunk, long]; a long one is cut.              *)

Shown == [chunk : {"a", "b"}, long : BOOLEAN]

\* Mutant: the numbers are the positions among the hits.
Number_Position(taken, i) == i

Number(taken, i) == Len(taken) + 1

ShapeContext(hits, topK) ==
  LET step(taken, i) ==
        IF Len(taken) >= topK \/ (\E s \in ToSet(taken) : s.chunk = hits[i].chunk) THEN taken
        ELSE Append(taken, [citation |-> Number(taken, i), chunk |-> hits[i].chunk, cut |-> hits[i].long])
      sources == FoldLeft(step, <<>>, [i \in DOMAIN hits |-> i])
  IN  [sources |-> sources, truncated |-> \E s \in ToSet(sources) : s.cut]

-----------------------------------------------------------------------------
(* linearFusion(), in twelfths of a tenth: the weights are 6 and 4, the scores *)
(* and ranks divide 12.  A list is a sequence of [chunk, score].              *)

Dense == 6
Sparse == 4

RankIn(list, c) == IF \E i \in DOMAIN list : list[i].chunk = c
                   THEN CHOOSE i \in DOMAIN list : list[i].chunk = c ELSE 0

TopScore(list) == IF list = <<>> THEN 1 ELSE Max({list[i].score : i \in DOMAIN list})

\* Mutant: both lists are divided by the best dense score.
Normal_Dense(list, dense, i) == (12 * list[i].score) \div TopScore(dense)

\* The score over the best of its own list.
Normal(list, dense, i) == (12 * list[i].score) \div TopScore(list)

\* The second list writes over the score the first one gave: a chunk of both is
\* weighed by its sparse score, and by its sparse rank where the formula has the
\* score.
Fused(dense, sparse, c) ==
  LET d == RankIn(dense, c)
      s == RankIn(sparse, c)
      score == IF s > 0 THEN Normal(sparse, dense, s) ELSE Normal(dense, dense, d)
  IN  IF d > 0 THEN Dense * score + (IF s > 0 THEN (Sparse * 12) \div s ELSE 0) ELSE Sparse * score

ChunksOf(list) == {list[i].chunk : i \in DOMAIN list}

\* The first list's order, then the second's; the sort keeps it among equals.
LinearFusion(dense, sparse) ==
  LET chunks == [i \in DOMAIN dense |-> dense[i].chunk]
                  \o SelectSeq([i \in DOMAIN sparse |-> sparse[i].chunk], LAMBDA c : RankIn(dense, c) = 0)
      before(i, j) == LET a == Fused(dense, sparse, chunks[i])
                          b == Fused(dense, sparse, chunks[j]) IN a > b \/ (a = b /\ i < j)
      order == SetToSortSeq(DOMAIN chunks, before)
  IN  [i \in DOMAIN order |->
         [chunk |-> chunks[order[i]], score |-> Fused(dense, sparse, chunks[order[i]])]]

\* What a search returns: distinct chunks, best first.
Results == {<<>>} \cup {<<[chunk |-> c, score |-> s]>> : c \in {"a", "b", "c"}, s \in 1 .. 2}
  \cup {<<[chunk |-> c, score |-> s], [chunk |-> d, score |-> t]>> :
          c \in {"a", "b"}, d \in {"c", "d"}, s \in 2 .. 3, t \in 1 .. 2}

-----------------------------------------------------------------------------
(* transforms.ts: the lines of a reply, by how they begin.                 *)

Lines == {"plain", "bullet", "numbered", "year", "marker", "blank"}
WithWords == {"plain", "bullet", "numbered", "year"}

\* Mutant: what is left of a line is not looked at.
Kept_All(line) == line # "blank"

\* replace(/^[-*\d.\s]+/) and trim: a mark goes, and so does the year or the
\* number a question begins with.
Kept(line) == line \in WithWords

Expand(lines) ==
  [i \in DOMAIN SelectSeq(lines, Kept) |->
     LET l == SelectSeq(lines, Kept)[i] IN [from |-> l, whole |-> l # "year"]]

\* compose(): without passages the model is not asked.
Compose(passages) == [asked |-> passages > 0, passages |-> passages]

-----------------------------------------------------------------------------
(* scanner.ts: an upload is its extension, what its first bytes look like and  *)
(* its size; text/plain, text/csv and the like are one kind of each.           *)

MimeOfExtension ==
  [pdf |-> "pdf", txt |-> "text", html |-> "text", json |-> "json", docx |-> "docx", png |-> "png"]

\* Signatures, by the bytes that bear them: every zip archive is taken for a docx.
MagicBytes == [pdf |-> "pdf", png |-> "png", zip |-> "docx"]

ScannedFiles == [ext : DOMAIN MimeOfExtension \cup {"log", "none"},
                 begins : DOMAIN MagicBytes \cup {"words"}, size : 0 .. 3, named : BOOLEAN]

\* detectMimeType(): a known extension, else the bytes, else the default.
DetectMimeType(f) ==
  CASE f.ext \in DOMAIN MimeOfExtension -> [mime |-> MimeOfExtension[f.ext], source |-> "extension"]
    [] f.ext \notin DOMAIN MimeOfExtension /\ f.size > 0 /\ f.begins \in DOMAIN MagicBytes ->
         [mime |-> MagicBytes[f.begins], source |-> "magic"]
    [] OTHER -> [mime |-> "octets", source |-> "default"]

\* validateUpload(): an empty file is that and nothing else, the other gates add up.
\* No list of kinds, or an empty one, lets every kind pass.
ValidateUpload(f, most, allowed) ==
  IF f.size = 0 THEN {"empty"}
  ELSE {gate \in {"size", "filename", "mime"} :
          \/ gate = "size" /\ f.size > most
          \/ gate = "filename" /\ ~f.named
          \/ gate = "mime" /\ allowed # {} /\ DetectMimeType(f).mime \notin allowed}

\* pickConverter(): by the detected kind alone.
PickConverter(f) ==
  LET mime == DetectMimeType(f).mime IN IF mime \in {"pdf", "text"} THEN mime ELSE "null"

ScanUpload(f, most, allowed) ==
  [errors |-> ValidateUpload(f, most, allowed), converter |-> PickConverter(f)]

-----------------------------------------------------------------------------

Ask(kind, in) == [kind |-> kind, in |-> in]

AskedTasks(kind) ==
  CASE kind = "strategy" -> {Ask(kind, ls) : ls \in [1 .. 3 -> Layers]}
    [] kind = "route" -> {Ask(kind, hs) : hs \in [1 .. 3 -> Hints]}
    [] kind = "shape" -> {Ask(kind, [hits |-> hs, topK |-> k]) : hs \in BoundedSeq(Shown, 3), k \in 1 .. 2}
    [] kind = "fusion" -> {Ask(kind, [dense |-> d, sparse |-> s]) : d \in Results, s \in Results}
    [] kind = "expand" -> {Ask(kind, ls) : ls \in BoundedSeq(Lines, 3)}
    [] kind = "compose" -> {Ask(kind, n) : n \in 0 .. 2}
    [] kind = "scan" -> {Ask(kind, [file |-> f, most |-> 2, allowed |-> mimes]) :
                           f \in ScannedFiles, mimes \in SUBSET {"pdf", "text", "png"}}
    [] OTHER -> {Ask("none", 0)}

TaskKinds == {"strategy", "route", "shape", "fusion", "expand", "compose", "scan"}

Perform ==
  /\ outcome = <<>> /\ asked.kind \in TaskKinds
  /\ outcome' =
       <<CASE asked.kind = "strategy" -> ResolveStrategy(asked.in)
           [] asked.kind = "route" -> ResolvePipeline(asked.in)
           [] asked.kind = "shape" -> ShapeContext(asked.in.hits, asked.in.topK)
           [] asked.kind = "fusion" -> LinearFusion(asked.in.dense, asked.in.sparse)
           [] asked.kind = "expand" -> Expand(asked.in)
           [] asked.kind = "compose" -> Compose(asked.in)
           [] asked.kind = "scan" -> ScanUpload(asked.in.file, asked.in.most, asked.in.allowed)>>
  /\ UNCHANGED <<asked, cacheVars, hookVars, traceVars>>

HelpersInit(kind) ==
  /\ cacheTime = 0 /\ cached = <<>> /\ cacheLog = <<>>
  /\ cacheReply = NoReply
  /\ hookList = <<>> /\ turnover = 0 /\ emitting = 0 /\ called = <<>> /\ stayed = {} /\ shifted = FALSE
  /\ traceRows = <<>> /\ traceWrites = 0
  /\ traceReply = NoTraces
  /\ asked \in AskedTasks(kind) /\ outcome = <<>>

HelpersNext == CacheNext \/ HookNext \/ TraceNext \/ Perform

HelpersSpec == (\E kind \in TaskKinds \cup {"cache"} : HelpersInit(kind)) /\ [][HelpersNext]_helperVars

-----------------------------------------------------------------------------

HelpersTypeOK ==
  /\ cacheTime \in 0 .. MaxCacheTime /\ Len(cacheLog) <= MaxCacheWrites
  /\ ToSet(hookList) \subseteq Listeners /\ emitting \in Nat /\ stayed \subseteq Listeners
  /\ DOMAIN traceRows \subseteq TraceIds /\ asked.kind \in TaskKinds \cup {"none"} /\ Len(outcome) <= 1

\* What the cache answers was put for the same user of the same workspace, no longer
\* ago than its time to live, and since the workspace was last invalidated.
CacheIsOwn ==
  cacheReply.hits > 0 =>
    LET put == cacheLog[cacheReply.hits] IN
      /\ put.key = cacheReply.key /\ cacheReply.at - put.at <= CacheTtl
      /\ \A i \in cacheReply.hits + 1 .. cacheReply.logged :
           cacheLog[i].hits > 0 \/ cacheLog[i].key.workspaceId # put.key.workspaceId

\* An emit that ended called every hook that stayed, once and in order, whatever
\* threw - unless one left meanwhile, which moves the others past the position.
HooksAreHeard ==
  /\ \A h \in stayed : Len(SelectSeq(called, LAMBDA x : x = h)) <= 1
  /\ emitting > Len(hookList) /\ ~shifted => called = hookList

\* A search gives rows of its workspace that have the form, best first, and leaves
\* out none that is nearer than the last one it gives.
TracesAreNearest ==
  LET r == traceReply
      rows == {t \in DOMAIN traceRows : traceRows[t].room = r.room /\ r.form \in traceRows[t].forms}
  IN  /\ ToSet(r.ids) \subseteq rows
      /\ Len(r.ids) = Min({r.topK, Cardinality(rows)})
      /\ \A t \in rows \ ToSet(r.ids) : \A i \in DOMAIN r.ids : traceRows[r.ids[i]].near >= traceRows[t].near

\* Of every field of a strategy the last layer that sets it decides, and of the
\* hints the first one that names a pipeline.
LastLayerWins ==
  outcome # <<>> =>
    /\ asked.kind = "strategy" =>
         \A f \in Fields : LET setting == {i \in 1 .. 3 : f \in DOMAIN asked.in[i]} IN
           outcome[1][f] = IF setting = {} THEN "default" ELSE asked.in[Max(setting)][f]
    /\ asked.kind = "route" =>
         /\ outcome[1].reason = 0 => \A i \in 1 .. 3 : asked.in[i] \notin Pipelines
         /\ outcome[1].reason > 0 => asked.in[outcome[1].reason] = outcome[1].pipeline

\* The sources of a prompt are numbered 1, 2, ... without a gap, are different
\* chunks, and the flag says whether one of them was cut.
SourcesAreNumbered ==
  outcome # <<>> /\ asked.kind = "shape" =>
    LET s == outcome[1].sources IN
      /\ \A i \in DOMAIN s : s[i].citation = i
      /\ IsInjective([i \in DOMAIN s |-> s[i].chunk])
      /\ Len(s) = Min({asked.in.topK, Cardinality({asked.in.hits[i].chunk : i \in DOMAIN asked.in.hits})})
      /\ outcome[1].truncated = \E i \in DOMAIN s : s[i].cut

\* A fused ranking has every chunk of both lists once, best first, no score above the
\* sum of the weights, and keeps the order of the chunks that are in one list only.
FusionIsFair ==
  outcome # <<>> /\ asked.kind = "fusion" =>
    LET out == outcome[1]
        only(list, other) == {c \in ChunksOf(list) : RankIn(other, c) = 0}
    IN  /\ ChunksOf(out) = ChunksOf(asked.in.dense) \cup ChunksOf(asked.in.sparse)
        /\ IsInjective([i \in DOMAIN out |-> out[i].chunk])
        /\ \A i \in DOMAIN out : out[i].score \in 0 .. (Dense + Sparse) * 12
        /\ \A i, j \in DOMAIN out : i < j => out[i].score >= out[j].score
        /\ \A l \in {<<asked.in.dense, asked.in.sparse>>, <<asked.in.sparse, asked.in.dense>>} :
             \A c, d \in only(l[1], l[2]) :
               RankIn(l[1], c) < RankIn(l[1], d) => RankIn(out, c) < RankIn(out, d)

\* The questions a reply is expanded to are its lines that bear words.
ExpansionsBearWords ==
  outcome # <<>> /\ asked.kind = "expand" =>
    /\ Len(outcome[1]) = Cardinality({i \in DOMAIN asked.in : asked.in[i] \in WithWords})
    /\ \A i \in DOMAIN outcome[1] : outcome[1][i].from \in WithWords

\* An upload that passes a list of kinds with converters has a converter; bytes alone
\* never pass for text; and a file is refused for what it is, not for what it is
\* called, unless its extension is known.
UploadsAreSorted ==
  outcome # <<>> /\ asked.kind = "scan" =>
    LET f == asked.in.file
        out == outcome[1]
    IN  /\ out.errors = {} /\ asked.in.allowed # {} /\ asked.in.allowed \subseteq {"pdf", "text"} =>
             out.converter # "null"
        /\ out.converter = "text" => f.ext \in {"txt", "html"}
        /\ f.ext \notin DOMAIN MimeOfExtension =>
             out = ScanUpload([f EXCEPT !.ext = "none"], asked.in.most, asked.in.allowed)
        /\ out.errors = {} => f.size \in 1 .. asked.in.most /\ f.named

\* What the helpers give: cached hits of one's own, hooks heard, the nearest traces,
\* the strategy that was asked for, numbered sources, a fair fusion, real questions, uploads of known kinds.
HelpersAreExact ==
  /\ CacheIsOwn /\ HooksAreHeard /\ TracesAreNearest
  /\ LastLayerWins /\ SourcesAreNumbered /\ FusionIsFair /\ ExpansionsBearWords
  /\ UploadsAreSorted
=============================================================================
