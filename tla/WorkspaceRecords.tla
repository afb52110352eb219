-------------------------- MODULE WorkspaceRecords --------------------------
(* The small tables of a workspace and the routes over them: the audit log   *)
(* and the webhooks it stands for, feedback, sessions, facts and turns       *)
(* (storage/, routes/).  Members are looked up in the stores the process     *)
(* bound when it booted (guarded routes), rows are in the caller's own file. *)
EXTENDS Integers, Sequences, SequencesExt, FiniteSets, FiniteSetsExt

CONSTANTS
  People,
  RoomOf,        \* the workspace each of them is in
  RecordCalls,   \* requests
  Words,         \* words of facts and of queries
  MaxRows,       \* bound on facts, and on turns
  RecallWindow,  \* rows search() reads at most: Math.max(50, topK * 5)
  RecallTopK,
  HistoryTurns,  \* maxTurns
  PageMost,      \* events a page of the log has at most: 500
  ListMost       \* ratings the list has at most: 100

ASSUME RecordsAssumption ==
  /\ RoomOf \in [People -> STRING] /\ RecordCalls \subseteq Nat \ {0}
  /\ {MaxRows, RecallWindow, RecallTopK, HistoryTurns, PageMost, ListMost} \subseteq Nat

VARIABLES
  bootRoom,   \* the workspace whose member store the routes hold, or "none"
  roleOf,     \* the rows of that store
  calls,      \* requests: at, by, op, of (the row they name), begun as an admin
  auditLog,   \* audit_event of each workspace
  feedbackRows,
  sessionRow, \* sessions: the PATCH whose strategy a user's token carries
  factRows,   \* memory_fact, oldest first
  turnRows    \* turns, in the order of their ids

recordVars == <<bootRoom, roleOf, calls, auditLog, feedbackRows, sessionRow, factRows, turnRows>>

Rooms == {RoomOf[u] : u \in People}
Ops == {"webhook", "unhook", "rate", "unrate", "strategy", "logout"}

\* A request sleeps between its awaits: the check of the caller, the body or the
\* row it reads, the write, the answer.
CallsAt == {"new", "checking", "passed", "read", "written", "answered", "refused", "failed"}

NoCall == [at |-> "new", by |-> CHOOSE u \in People : TRUE, op |-> "rate", of |-> 0, asAdmin |-> FALSE]

Scopes == {"user", "workspace"}
Fact == [by : People, scope : Scopes, words : SUBSET Words]
Turn == [by : People, nr : Nat]

RecordsTypeOK ==
  /\ bootRoom \in Rooms \cup {"none"} /\ roleOf \in [People -> {"admin", "member", "none"}]
  /\ calls \in [RecordCalls -> [at : CallsAt, by : People, op : Ops, of : RecordCalls \cup {0},
                                asAdmin : BOOLEAN]]
  /\ auditLog \in [Rooms -> Seq({"created", "deleted"} \X RecordCalls)]
  /\ feedbackRows \in [Rooms -> SUBSET RecordCalls]
  /\ sessionRow \in [People -> RecordCalls \cup {0}]
  /\ factRows \in Seq(Fact) /\ turnRows \in Seq(Turn)

RecordsInit ==
  /\ bootRoom \in Rooms \cup {"none"}
  /\ roleOf \in [People -> {"admin", "member", "none"}]
  /\ \A u \in People : roleOf[u] = "none" <=> RoomOf[u] # bootRoom
  /\ calls = [q \in RecordCalls |-> NoCall]
  /\ auditLog = [r \in Rooms |-> <<>>]
  /\ feedbackRows = [r \in Rooms |-> {}]
  /\ sessionRow = [u \in People |-> 0]
  /\ factRows = <<>> /\ turnRows = <<>>

-----------------------------------------------------------------------------
(* The requests.                                                           *)

Move(q, at) == calls' = [calls EXCEPT ![q].at = at]
Does(q, at, op) == calls[q].at = at /\ calls[q].op = op
Room(q) == RoomOf[calls[q].by]

\* isAdmin, canRead: a caller whose workspace is not the bound one has no row
\* there; without a bound store everybody passes.
IsAdmin_Member(u) == bootRoom = "none" \/ roleOf[u] # "none"  \* mutant: any member
IsAdmin(u) == bootRoom = "none" \/ roleOf[u] = "admin"
CanRead(u) == bootRoom = "none" \/ roleOf[u] # "none"

\* Requests are numbered in the order in which they come.
BeginCall(q) ==
  /\ calls[q].at = "new" /\ \A p \in RecordCalls : p < q => calls[p].at # "new"
  /\ \E u \in People : \E op \in Ops : \E of \in RecordCalls \cup {0} :
       /\ of \in RecordCalls => op \in {"unhook", "unrate"} /\ calls[of].at # "new"
       /\ of = 0 => op \notin {"unhook", "unrate"}
       /\ calls' = [calls EXCEPT ![q] = [at |-> "checking", by |-> u, op |-> op, of |-> of,
                                         asAdmin |-> roleOf[u] = "admin"]]
  /\ UNCHANGED <<bootRoom, roleOf, auditLog, feedbackRows, sessionRow, factRows, turnRows>>

\* POST /v1/feedback asks for no role, the session routes for a bound store.
Check(q) ==
  /\ calls[q].at = "checking"
  /\ LET u == calls[q].by
         op == calls[q].op
         ok == CASE op \in {"webhook", "unhook"} -> IsAdmin(u)
                 [] op = "unrate" -> CanRead(u)
                 [] op = "rate" -> TRUE
                 [] OTHER -> bootRoom # "none"
     IN  Move(q, IF ok THEN "passed" ELSE "refused")
  /\ UNCHANGED <<bootRoom, roleOf, auditLog, feedbackRows, sessionRow, factRows, turnRows>>

\* Mutant: the row of a removal names the removal.
Entry_Own(q) == <<IF calls[q].op = "webhook" THEN "created" ELSE "deleted", q>>

\* A subscription is a row of the audit log and nothing else; a removal is one
\* more row, whatever it names.
Entry(q) == IF calls[q].op = "webhook" THEN <<"created", q>> ELSE <<"deleted", calls[q].of>>

Record(q) ==
  /\ Does(q, "passed", "webhook") \/ Does(q, "passed", "unhook")
  /\ auditLog' = [auditLog EXCEPT ![Room(q)] =
                    Append(@, Entry(q))]
  /\ Move(q, "written")
  /\ UNCHANGED <<bootRoom, roleOf, feedbackRows, sessionRow, factRows, turnRows>>

Rate(q) ==
  /\ Does(q, "passed", "rate") \/ Does(q, "passed", "unrate")
  /\ feedbackRows' = [feedbackRows EXCEPT ![Room(q)] =
                        IF calls[q].op = "rate" THEN @ \cup {q} ELSE @ \ {calls[q].of}]
  /\ Move(q, "written")
  /\ UNCHANGED <<bootRoom, roleOf, auditLog, sessionRow, factRows, turnRows>>

\* PATCH /v1/me/strategy writes only where it read no row.
ReadSession(q) ==
  /\ Does(q, "passed", "strategy")
  /\ Move(q, IF sessionRow[calls[q].by] = 0 THEN "read" ELSE "written")
  /\ UNCHANGED <<bootRoom, roleOf, auditLog, feedbackRows, sessionRow, factRows, turnRows>>

UpsertSession(q) ==
  /\ Does(q, "read", "strategy")
  /\ sessionRow' = [sessionRow EXCEPT ![calls[q].by] = q]
  /\ Move(q, "written")
  /\ UNCHANGED <<bootRoom, roleOf, auditLog, feedbackRows, factRows, turnRows>>

Logout(q) ==
  /\ Does(q, "passed", "logout")
  /\ sessionRow' = [sessionRow EXCEPT ![calls[q].by] = 0]
  /\ Move(q, "written")
  /\ UNCHANGED <<bootRoom, roleOf, auditLog, feedbackRows, factRows, turnRows>>

\* The answer is on its way, or the statement threw, or the process is gone.
Answer(q) ==
  /\ \/ calls[q].at = "written" /\ calls' = [calls EXCEPT ![q].at = "answered"]
     \/ calls[q].at \in {"passed", "read", "written"} /\ calls' = [calls EXCEPT ![q].at = "failed"]
  /\ UNCHANGED <<bootRoom, roleOf, auditLog, feedbackRows, sessionRow, factRows, turnRows>>

\* The member routes (module Accounts) change a row of the bound store meanwhile.
Reassign(u) ==
  /\ RoomOf[u] = bootRoom
  /\ \E role \in {"admin", "member", "none"} \ {roleOf[u]} : roleOf' = [roleOf EXCEPT ![u] = role]
  /\ calls' = [q \in RecordCalls |->
                 [calls[q] EXCEPT !.asAdmin = @ \/ (calls[q].at = "checking" /\ calls[q].by = u
                                                    /\ roleOf'[u] = "admin")]]
  /\ UNCHANGED <<bootRoom, auditLog, feedbackRows, sessionRow, factRows, turnRows>>

-----------------------------------------------------------------------------
(* Facts and turns: one statement each.                                    *)

Remember(u) ==
  /\ Len(factRows) < MaxRows
  /\ \E scope \in Scopes : \E words \in SUBSET Words :
       factRows' = Append(factRows, [by |-> u, scope |-> scope, words |-> words])
  /\ UNCHANGED <<bootRoom, roleOf, calls, auditLog, feedbackRows, sessionRow, turnRows>>

Forget ==
  /\ \E i \in DOMAIN factRows : factRows' = RemoveAt(factRows, i)
  /\ UNCHANGED <<bootRoom, roleOf, calls, auditLog, feedbackRows, sessionRow, turnRows>>

AppendTurn(u) ==
  /\ Len(turnRows) < MaxRows
  /\ turnRows' = Append(turnRows, [by |-> u, nr |-> Len(turnRows)])
  /\ UNCHANGED <<bootRoom, roleOf, calls, auditLog, feedbackRows, sessionRow, factRows>>

ClearTurns(u) ==
  /\ turnRows' = SelectSeq(turnRows, LAMBDA t : t.by # u)
  /\ UNCHANGED <<bootRoom, roleOf, calls, auditLog, feedbackRows, sessionRow, factRows>>

RouteNext ==
  \/ \E q \in RecordCalls :
       BeginCall(q) \/ Check(q) \/ Record(q) \/ Rate(q) \/ ReadSession(q) \/ UpsertSession(q)
         \/ Logout(q) \/ Answer(q)
  \/ \E u \in People : Reassign(u)

FactNext == Forget \/ \E u \in People : Remember(u)
TurnNext == \E u \in People : AppendTurn(u) \/ ClearTurns(u)

RecordsNext == RouteNext \/ FactNext \/ TurnNext

RecordsSpec == RecordsInit /\ [][RecordsNext]_recordVars

-----------------------------------------------------------------------------
(* What is read.                                                           *)

MayRecall(u, f) == RoomOf[f.by] = RoomOf[u] /\ (f.scope = "workspace" \/ f.by = u)

Newest(rows, n) == SubSeq(Reverse(rows), 1, Min({n, Len(rows)}))

\* Mutant: the scope is applied to the rows that were read.
Recalled_LimitFirst(u, rows) == SelectSeq(Newest(rows, RecallWindow), LAMBDA f : MayRecall(u, f))

\* The rows of search(): WHERE, ORDER BY created_at DESC, LIMIT.
Recalled(u, rows) == Newest(SelectSeq(rows, LAMBDA f : MayRecall(u, f)), RecallWindow)

\* search(): those rows by the share of the query's words in them, the newest
\* first among equals, RecallTopK of them.
Recall(u, query, rows) ==
  LET read == Recalled(u, rows)
      score(f) == IF query = {} THEN 1 ELSE Cardinality(f.words \cap query)
      order == SetToSortSeq(DOMAIN read,
                 LAMBDA i, j : score(read[i]) > score(read[j])
                               \/ (score(read[i]) = score(read[j]) /\ i < j))
  IN  [k \in 1 .. Min({RecallTopK, Len(read)}) |-> read[order[k]]]

\* history(): the newest turns of a session, the newest first.
History(u, rows) == Newest(SelectSeq(rows, LAMBDA t : t.by = u), HistoryTurns)

-----------------------------------------------------------------------------
(* What the routes over the log and the ratings answer.  A row of the log has  *)
(* a kind, a rating a value: kindOf and ratingOf stand for what was recorded.  *)

EventKinds == {"settings.update", "document.delete"}
Ratings == {"up", "down", "neutral"}

AuditList(r, limit) == Newest(auditLog[r], limit)

\* GET /v1/audit: the newest events, and of these the ones of a kind.
AuditPage(u, limit, kind, kindOf) ==
  LET read == AuditList(RoomOf[u], Min({Max({limit, 1}), PageMost}))
      ofKind == SelectSeq(read, LAMBDA e : kindOf[e[1]] = kind)
  IN  IF ~IsAdmin(u) THEN <<"forbidden">> ELSE IF kind = "" THEN read ELSE ofKind

\* GET /v1/audit/kinds, over twice as many.
AuditKinds(u, kindOf) ==
  IF ~IsAdmin(u) THEN {"forbidden"} ELSE {kindOf[e[1]] : e \in ToSet(AuditList(RoomOf[u], 2 * PageMost))}

\* aggregate(): GROUP BY rating, then the groups by name and their sum.
Aggregate(r, ratingOf) ==
  LET n(v) == Cardinality({f \in feedbackRows[r] : ratingOf[f] = v})
      groups == {ratingOf[f] : f \in feedbackRows[r]}
      count(v) == IF v \in groups THEN n(v) ELSE 0
  IN  [total |-> MapThenSumSet(n, groups), up |-> count("up"), down |-> count("down"),
       neutral |-> count("neutral")]

\* GET /v1/stats asks for no role; its list of events ends at 100,000.
Stats(u, ratingOf) ==
  [events |-> Len(AuditList(RoomOf[u], 200 * PageMost)), feedback |-> Aggregate(RoomOf[u], ratingOf)]

\* GET /v1/feedback, GET /v1/feedback/aggregate and GET /v1/feedback/:id.
\* The list ends at its limit; the order of time, which the set leaves out, says where.
ListFeedback(u) ==
  IF ~CanRead(u) THEN {}
  ELSE LET rows == feedbackRows[RoomOf[u]] IN kSubset(Min({ListMost, Cardinality(rows)}), rows)
ReadAggregate(u, ratingOf) == IF CanRead(u) THEN <<Aggregate(RoomOf[u], ratingOf)>> ELSE <<>>
GetFeedback(u, id) ==
  CASE ~CanRead(u) -> "forbidden"
    [] CanRead(u) /\ id \in feedbackRows[RoomOf[u]] -> "found"
    [] OTHER -> "not found"

-----------------------------------------------------------------------------
(* Properties.                                                             *)

\* What somebody recalls or reads back does not depend on rows that are not his,
\* however many there are and wherever they stand: limits never let the facts or
\* turns of others crowd his out.
ReadsIgnoreOthers ==
  \A u \in People :
    /\ \A query \in SUBSET Words :
         Recall(u, query, factRows) = Recall(u, query, SelectSeq(factRows, LAMBDA f : MayRecall(u, f)))
    /\ History(u, turnRows) = History(u, SelectSeq(turnRows, LAMBDA t : t.by = u))

\* "subscribers are stored as audit events": the log of a workspace tells which
\* subscriptions stand -- every one that was answered and that no request has
\* named since, and none that an answered removal named.
LogTellsSubscriptions ==
  \A q \in RecordCalls :
    LET log == ToSet(auditLog[Room(q)])
        removals == {p \in RecordCalls : calls[p].op = "unhook" /\ calls[p].of = q
                                         /\ calls[p].at # "new" /\ Room(p) = Room(q)}
    IN  calls[q].op = "webhook" =>
          /\ calls[q].at = "answered" => <<"created", q>> \in log
          /\ removals = {} => <<"deleted", q>> \notin log
          /\ (\E p \in removals : calls[p].at = "answered") => <<"deleted", q>> \in log

\* Nobody who was no admin while his request was being checked changes the
\* subscriptions, unless no member store is bound; one who is no member of the
\* bound workspace never does.
OnlyAdminsSubscribe ==
  \A q \in RecordCalls :
    calls[q].op \in {"webhook", "unhook"} /\ calls[q].at \in {"written", "answered"}
      /\ bootRoom # "none" => calls[q].asAdmin /\ Room(q) = bootRoom

\* A page of the log is where a longer one begins, of a kind or not; every kind on it
\* is in the list of kinds; and while the log fits a page, an admin of the workspace
\* reads in it every subscription that was answered.
PagesAgree ==
  \A u \in {v \in People : IsAdmin(v) /\ auditLog[RoomOf[v]] # <<>>} :
    \A kindOf \in [{"created", "deleted"} -> EventKinds] :
      LET page(limit, kind) == AuditPage(u, limit, kind, kindOf) IN
        /\ \A kind \in {kindOf["created"], ""} : \A limit \in 1 .. PageMost :
             IsPrefix(page(limit - 1, kind), page(limit, kind))
        /\ {kindOf[e[1]] : e \in ToSet(page(PageMost, ""))} \subseteq AuditKinds(u, kindOf)
        /\ Len(auditLog[RoomOf[u]]) <= PageMost =>
             \A q \in RecordCalls :
               calls[q].op = "webhook" /\ calls[q].at = "answered" /\ Room(q) = RoomOf[u] =>
                 <<"created", q>> \in ToSet(page(PageMost, ""))

\* A rating that was answered and that no request has named since is found by whoever
\* may read the workspace and by nobody of another.
RatingsAreFound ==
  \A u \in People : \A q \in RecordCalls :
    /\ GetFeedback(u, q) = "found" => Room(q) = RoomOf[u] /\ calls[q].op = "rate"
    /\ calls[q].op = "rate" /\ calls[q].at = "answered" /\ Room(q) = RoomOf[u] /\ CanRead(u)
         /\ (\A p \in RecordCalls : calls[p].op = "unrate" => calls[p].of # q) =>
         GetFeedback(u, q) = "found"

\* The counts, of the statistics too, are of the rows that can be read, each under one
\* value, and the list is of as many of them as its limit allows.
RatingsAreCounted ==
  \A u \in People : \A ratingOf \in [feedbackRows[RoomOf[u]] -> Ratings] :
    LET agg == Stats(u, ratingOf).feedback IN
      /\ agg.up + agg.down + agg.neutral = agg.total
      /\ CanRead(u) => ReadAggregate(u, ratingOf) = <<agg>>
      /\ \A list \in ListFeedback(u) :
           /\ Cardinality(list) = Min({ListMost, agg.total})
           /\ \A f \in list : GetFeedback(u, f) = "found"

\* What the small tables keep of the requests that were answered.
RecordsAreKept == LogTellsSubscriptions /\ OnlyAdminsSubscribe /\ RatingsAreFound

\* What their routes make of the rows.
RecordsAreRead == ReadsIgnoreOthers /\ PagesAgree /\ RatingsAreCounted
=============================================================================
