----------------------------- MODULE RateLimit ------------------------------
(***************************************************************************)
(* rateLimitMiddleware (api/src/middleware/rate-limit.ts): a counter per   *)
(* client address, then, once the token is verified, one per workspace.    *)
(*                                                                         *)
(* Time is a count of ticks.  The verification of a token is an await, so  *)
(* requests interleave between the two counters.                           *)
(***************************************************************************)
EXTENDS Integers, Sequences, FiniteSets

CONSTANTS
  Ips,          \* client addresses
  Workspaces,   \* workspace_id claims
  IpLimit,      \* perIpPerMinute
  WsLimit,      \* perWorkspacePerMinute
  Window,       \* WINDOW_MS
  MaxTime,      \* bound on the clock
  MaxRequests   \* bound on the requests

Keys == Ips \cup Workspaces
LimitOf(k) == IF k \in Ips THEN IpLimit ELSE WsLimit

ASSUME LimitAssumption ==
  /\ {IpLimit, WsLimit, Window} \subseteq Nat \ {0}
  /\ {MaxTime, MaxRequests} \subseteq Nat

VARIABLES
  now,
  buckets,     \* both Maps: key -> [count, resetAt], absent when count = 0
  verifying,   \* the bag of requests awaiting jwt.verify: workspace -> how many
  passed,      \* history: the times at which take() allowed a key
  counted,       \* history: the times at which take() was called with a key
  denied       \* history: the keys denied in the last step

limitVars == <<now, buckets, verifying, passed, counted, denied>>

Bucket == [count : 0 .. MaxRequests, resetAt : 0 .. MaxTime + Window]
NoBucket == [count |-> 0, resetAt |-> 0]

LimitTypeOK ==
  /\ now \in 0 .. MaxTime
  /\ buckets \in [Keys -> Bucket]
  /\ verifying \in [Workspaces -> 0 .. MaxRequests]
  /\ \A k \in Keys : passed[k] \in Seq(0 .. now) /\ counted[k] \in Seq(0 .. now)
  /\ denied \in SUBSET Keys

LimitInit ==
  /\ now = 0
  /\ buckets = [k \in Keys |-> NoBucket]
  /\ verifying = [w \in Workspaces |-> 0]
  /\ passed = [k \in Keys |-> <<>>]
  /\ counted = [k \in Keys |-> <<>>]
  /\ denied = {}

\* Mutant: a bucket never expires.
Expired_Never(b) == FALSE

Expired(b) == b.resetAt < now

\* The bucket a request is counted in.
Current(k) ==
  IF buckets[k].count = 0 \/ Expired(buckets[k])
  THEN [count |-> 0, resetAt |-> now + Window]
  ELSE buckets[k]

\* Mutant: the limit is compared before the request is counted.
Allowed_OneMore(k) == Current(k).count <= LimitOf(k)

Allowed(k) == Current(k).count + 1 <= LimitOf(k)

Count(k) ==
  /\ buckets' = [buckets EXCEPT ![k] = [Current(k) EXCEPT !.count = @ + 1]]
  /\ counted' = [counted EXCEPT ![k] = Append(@, now)]
  /\ passed' = IF Allowed(k) THEN [passed EXCEPT ![k] = Append(@, now)] ELSE passed
  /\ denied' = IF Allowed(k) THEN {} ELSE {k}

Requested == LET count[S \in SUBSET Ips] ==
                   IF S = {} THEN 0
                   ELSE LET i == CHOOSE i \in S : TRUE IN Len(counted[i]) + count[S \ {i}]
             IN  count[Ips]

\* A request without a token is done with the first counter.
Arrive(ip) ==
  /\ Requested < MaxRequests
  /\ Count(ip)
  /\ \/ UNCHANGED verifying
     \/ /\ Allowed(ip)
        /\ \E w \in Workspaces : verifying' = [verifying EXCEPT ![w] = @ + 1]
  /\ UNCHANGED now

\* jwt.verify resolves with the claim.
Verified(w) ==
  /\ verifying[w] > 0
  /\ Count(w)
  /\ verifying' = [verifying EXCEPT ![w] = @ - 1]
  /\ UNCHANGED now

\* The interval deletes what has expired.
Cleanup ==
  /\ \E k \in Keys : buckets[k].count > 0 /\ Expired(buckets[k])
  /\ buckets' = [k \in Keys |-> IF Expired(buckets[k]) THEN NoBucket ELSE buckets[k]]
  /\ denied' = {}
  /\ UNCHANGED <<now, verifying, passed, counted>>

Tick ==
  /\ now < MaxTime
  /\ now' = now + 1
  /\ denied' = {}
  /\ UNCHANGED <<buckets, verifying, passed, counted>>

LimitNext ==
  \/ \E ip \in Ips : Arrive(ip)
  \/ \E w \in Workspaces : Verified(w)
  \/ Cleanup
  \/ Tick

LimitSpec == LimitInit /\ [][LimitNext]_limitVars

-----------------------------------------------------------------------------
(* Properties                                                              *)

\* How many of a list of times are in [from, from + Window).
Within(times, from) == Cardinality({i \in DOMAIN times : times[i] >= from /\ times[i] < from + Window})

\* What the counter does guarantee: in no span of a window is a key allowed
\* more than twice its limit.
AtMostTwice == \A k \in Keys, t \in 0 .. now : Within(passed[k], t) <= 2 * LimitOf(k)

\* A key is denied only when its limit was reached within the last window:
\* a client that keeps to the limit is never turned away.
DenialIsEarned ==
  \A k \in denied : Cardinality({i \in DOMAIN counted[k] : counted[k][i] >= now - Window}) > LimitOf(k)

\* The limiter stops what exceeds its limits, as far as fixed windows can, and nothing
\* else.
LimitsHold == AtMostTwice /\ DenialIsEarned

\* A sliding window: in no span of a window more than the limit.
SlidingWindow == \A k \in Keys, t \in 0 .. now : Within(passed[k], t) <= LimitOf(k)

=============================================================================
