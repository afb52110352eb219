----------------------------- MODULE RequestGate -----------------------------
(* The way of a request through the middleware of createApp() (api/src/app.ts, *)
(* middleware/, auth/jwt.ts), the health probes and the shutdown coordinator  *)
(* (services/).  The buckets of the rate limiter are module RateLimit; here a *)
(* limit is hit or not.  Hono's dispatcher is external: see Caught.           *)
EXTENDS Integers, Sequences, SequencesExt, FiniteSets

CONSTANTS
  GateRequests,   \* requests
  AddressBits,    \* width of an address (32 for IPv4, 128 for IPv6)
  TrustedRanges,  \* REVEX_TRUSTED_PROXY_CIDRS holds one of these: [family, base, bits]
  TokenLife,      \* ttlSeconds
  MaxGateTime,    \* bound on the clock
  Collaborators,  \* what probeHealth() probes, a sequence
  CleanupCount,   \* handlers registered with the coordinator
  MaxFlaps        \* bound on the changes of collaborators

ASSUME GateAssumption ==
  /\ AddressBits \in Nat \ {0} /\ AddressBits % 2 = 0
  /\ TrustedRanges \subseteq [family : {"v4", "v6"}, base : 0 .. 2 ^ AddressBits - 1, bits : 0 .. AddressBits]
  /\ {TokenLife, MaxGateTime, CleanupCount, MaxFlaps} \subseteq Nat
  /\ Collaborators \in Seq(STRING)

VARIABLES
  gateTime,
  trusted,    \* the range of the proxies
  gate,       \* [at, req, checked, from, handled, answer] of each request
  collabUp,   \* whether each collaborator works
  probe,      \* probeHealth(): [next, seen, steady]
  flaps,
  cleanup,    \* ShutdownCoordinator: [invoked, next, exited]
  signals,    \* the signals that came
  ran         \* the handlers that ran, in order

gateRequestVars == <<gateTime, trusted, gate>>
healthVars == <<collabUp, probe, flaps>>
shutdownVars == <<cleanup, signals, ran>>
gateVars == <<gateRequestVars, healthVars, shutdownVars>>

Address == 0 .. 2 ^ AddressBits - 1

Methods == {"GET", "POST", "OPTIONS"}
Paths == {"health", "readyz", "login", "guarded", "unknown"}
Origins == {"none", "own", "listed", "foreign"}
Tokens == {"none", "forged", "signed"}
Cookies == {"none", "broken", "key"}
Families == {"none", "v4", "v6"}   \* of the peer's address

Nothing == [method |-> "GET", path |-> "health", origin |-> "none", token |-> "none",
            expires |-> 0, cookie |-> "none", family |-> "none", peer |-> 0, forwarded |-> FALSE]

NoAnswer == [status |-> 0, body |-> "none"]

GateInit ==
  /\ gateTime = 0 /\ trusted \in TrustedRanges
  /\ gate = [q \in GateRequests |-> [at |-> "new", req |-> Nothing, checked |-> -1, from |-> "none",
                                     handled |-> FALSE, answer |-> NoAnswer]]
  /\ collabUp = [c \in ToSet(Collaborators) |-> TRUE]
  /\ probe = [next |-> 0, seen |-> {}, steady |-> TRUE] /\ flaps = 0
  /\ cleanup = [invoked |-> FALSE, next |-> 1, exited |-> FALSE] /\ signals = {} /\ ran = <<>>

-----------------------------------------------------------------------------
(* Addresses.                                                              *)

\* JavaScript takes the count of a shift modulo the width.
ShiftLeft(x, n) == (x * 2 ^ (n % AddressBits)) % 2 ^ AddressBits

\* Bits both numbers have.
BitAnd[x, y \in Address] ==
  IF x = 0 \/ y = 0 THEN 0 ELSE 2 * BitAnd[x \div 2, y \div 2] + (x % 2) * (y % 2)

\* Mutant: the range of no bits is not set apart.
Mask_Shift(bits) == ShiftLeft(2 ^ AddressBits - 1, AddressBits - bits)

\* parseIpv4Cidr(): ~0 << (32 - bits), which for no bits would shift by nothing.
Mask(bits) == IF bits = 0 THEN 0 ELSE ShiftLeft(2 ^ AddressBits - 1, AddressBits - bits)

\* isIPv4InCidr().
InRange(address) == BitAnd[address, Mask(trusted.bits)] = BitAnd[trusted.base, Mask(trusted.bits)]

\* expandIpv6() and ipv6ToBigInt(): groups of half an address, two of them or, around
\* a `::`, at most one; the others are zero.  Each number has its ways to be written.
Spellings(address) ==
  LET high == address \div 2 ^ (AddressBits \div 2)
      low == address % 2 ^ (AddressBits \div 2)
  IN  {[head |-> <<high, low>>, gap |-> FALSE, tail |-> <<>>]}
      \cup (IF low = 0 THEN {[head |-> <<high>>, gap |-> TRUE, tail |-> <<>>]} ELSE {})
      \cup (IF high = 0 THEN {[head |-> <<>>, gap |-> TRUE, tail |-> <<low>>]} ELSE {})
      \cup (IF address = 0 THEN {[head |-> <<>>, gap |-> TRUE, tail |-> <<>>]} ELSE {})

ExpandIpv6(text) ==
  IF ~text.gap THEN text.head
  ELSE text.head \o [i \in 1 .. 2 - Len(text.head) - Len(text.tail) |-> 0] \o text.tail

\* parseIpv6Cidr(): the mask as a number of any size, split in halves.
MaskIpv6(bits) ==
  LET mask == IF bits = 0 THEN 0 ELSE (2 ^ bits - 1) * 2 ^ (AddressBits - bits)
  IN  <<mask \div 2 ^ (AddressBits \div 2), mask % 2 ^ (AddressBits \div 2)>>

\* isIPv6InCidr(): both halves agree.
InRangeIpv6(text, range) ==
  LET peer == ExpandIpv6(text)
      base == ExpandIpv6(range)
      mask == MaskIpv6(trusted.bits)
  IN  \A half \in 1 .. 2 : BitAnd[peer[half], mask[half]] = BitAnd[base[half], mask[half]]

-----------------------------------------------------------------------------
(* The middleware, outermost first: headers, errors, origin, limits, token. *)

Respond(q, status, body) ==
  gate' = [gate EXCEPT ![q].at = "answered",
                       ![q].answer = [status |-> status, body |-> body]]

Advance(q, at) == gate' = [gate EXCEPT ![q].at = at]

\* Whatever throws an Error below is answered by Hono's own handler, at once and as
\* plain text: no middleware above sees it.  A value that is no Error reaches the
\* next try: that of jwtAuthMiddleware, or of errorMiddleware.
Caught(q, thrown) ==
  IF thrown # "value" THEN Respond(q, 500, "text")
  ELSE IF gate[q].req.path = "login" THEN Respond(q, 500, "json")
  ELSE Respond(q, 401, "json")

Probes == {"health", "readyz"}

\* Mutant: the check of the origin is left to the cookie's SameSite.
OriginMatters_Cookie(r) == r.method = "POST" /\ r.cookie = "none"

\* Mutant: alwaysAllow is not asked.
OriginMatters_Probes(r) == r.method = "POST"

\* csrfMiddleware: state-changing methods, but for the probes.
OriginMatters(r) == r.method = "POST" /\ r.path \notin Probes

\* isTrustedPeer().
IsTrustedPeer(peer, text, range) ==
  IF trusted.family = "v4" THEN InRange(peer) ELSE InRangeIpv6(text, range)

\* clientIp(): the first forwarded address behind a trusted proxy.  An address of
\* the other family than the range is an exception.
Source(r, text, range) ==
  IF r.family = "none" \/ ~r.forwarded THEN "peer"
  ELSE IF r.family # trusted.family THEN "thrown"
  ELSE IF IsTrustedPeer(r.peer, text, range) THEN "forwarded" ELSE "peer"

\* A request comes in and runs to its first await.
Receive(q) ==
  /\ gate[q].at = "new"
  /\ \E r \in [method : Methods, path : Paths, origin : Origins, token : Tokens,
               expires : {gateTime + TokenLife}, cookie : Cookies, family : Families,
               peer : Address, forwarded : BOOLEAN] :
       /\ r.family # trusted.family \/ ~r.forwarded => r.peer = 0
       /\ gate' = [gate EXCEPT ![q].at = "received", ![q].req = r]
  /\ UNCHANGED <<gateTime, trusted, healthVars, shutdownVars>>

\* The peer and the range may be written in any way.
Screen(q) ==
  \E text \in Spellings(gate[q].req.peer), range \in Spellings(trusted.base) :
  LET r == gate[q].req
      from == IF r.path \in Probes THEN "none" ELSE Source(r, text, range)
  IN  /\ gate[q].at = "received"
      /\ \/ r.method = "OPTIONS" /\ Respond(q, 204, "none")
         \/ /\ r.method # "OPTIONS" /\ OriginMatters(r) /\ r.origin \notin {"own", "listed"}
            /\ Respond(q, 403, "json")
         \/ /\ r.method # "OPTIONS" /\ (OriginMatters(r) => r.origin \in {"own", "listed"})
            /\ \/ from = "thrown" /\ Caught(q, "error")
               \/ from \in {"peer", "forwarded"} /\ Respond(q, 429, "json")
               \/ /\ from # "thrown"
                  /\ gate' = [gate EXCEPT ![q].from = from,
                       ![q].at = IF r.path \in Probes \/ r.token = "none" THEN "routing" ELSE "limiting"]
      /\ UNCHANGED <<gateTime, trusted, healthVars, shutdownVars>>

\* jwt.verify(): the signature, and the expiry at the time it is called.
GateVerified(r) == r.token = "signed" /\ gateTime < r.expires

\* The limit of the workspace, once the token has been verified; a token that is
\* refused here only escapes this limit.
LimitWorkspace(q) ==
  /\ gate[q].at = "limiting"
  /\ \/ GateVerified(gate[q].req) /\ Respond(q, 429, "json")
     \/ Advance(q, "routing")
  /\ UNCHANGED <<gateTime, trusted, healthVars, shutdownVars>>

\* Mutant: the token the limiter verified is good enough.
TokenHolds_Once(q) == gate[q].req.token = "signed"

\* The token is verified a second time, the clock having moved on.
TokenHolds(q) == GateVerified(gate[q].req)

\* The probes and the auth routes are registered first; jwtAuthMiddleware stands
\* before everything else, unknown paths included.
Route(q) ==
  LET r == gate[q].req IN
  /\ gate[q].at = "routing"
  /\ IF r.path \in Probes /\ r.method = "GET" THEN Advance(q, "probing")
     ELSE IF r.path = "login" /\ r.method = "POST"
       THEN gate' = [gate EXCEPT ![q].at = "handling", ![q].handled = TRUE]
     ELSE IF r.token = "none" THEN Respond(q, 401, "json")
     ELSE Advance(q, "verifying")
  /\ UNCHANGED <<gateTime, trusted, healthVars, shutdownVars>>

\* The claims and the cookie; one that cannot be decoded is an exception inside the
\* try, and looks like a bad token.
Authenticate(q) ==
  LET r == gate[q].req IN
  /\ gate[q].at = "verifying"
  /\ IF ~TokenHolds(q) \/ r.cookie = "broken" THEN Respond(q, 401, "json")
     ELSE IF r.path # "guarded" THEN Respond(q, 404, "text")
     ELSE gate' = [gate EXCEPT ![q].at = "handling", ![q].handled = TRUE, ![q].checked = gateTime]
  /\ UNCHANGED <<gateTime, trusted, healthVars, shutdownVars>>

\* What the routes answer themselves, what they find wrong included.
Answers(path) ==
  IF path = "login" THEN {200, 400, 401, 404}
  ELSE {200, 201, 202, 400, 401, 403, 404, 500, 503}

\* The error workspaceContextFrom() throws for a missing passphrase, where its route
\* does not catch it, is an Error like any other, as are StoreUnavailableError and the
\* errors of the core.
Handle(q) ==
  /\ gate[q].at = "handling"
  /\ \/ \E status \in Answers(gate[q].req.path) : Respond(q, status, "json")
     \/ \E thrown \in {"revex", "store", "error", "value"} : Caught(q, thrown)
  /\ UNCHANGED <<gateTime, trusted, healthVars, shutdownVars>>

\* /readyz asks the registry.
AnswerProbe(q) ==
  /\ gate[q].at = "probing"
  /\ \/ Respond(q, 200, "json")
     \/ gate[q].req.path = "readyz" /\ Respond(q, 503, "json")
  /\ UNCHANGED <<gateTime, trusted, healthVars, shutdownVars>>

GateTick ==
  /\ gateTime < MaxGateTime /\ gateTime' = gateTime + 1
  /\ UNCHANGED <<trusted, gate, healthVars, shutdownVars>>

-----------------------------------------------------------------------------
(* probeHealth(): one collaborator after the other.                        *)

BeginProbe ==
  /\ probe.next = 0 /\ probe' = [next |-> 1, seen |-> {}, steady |-> TRUE]
  /\ UNCHANGED <<collabUp, flaps, gateRequestVars, shutdownVars>>

ProbeNext ==
  /\ probe.next \in 1 .. Len(Collaborators)
  /\ LET c == Collaborators[probe.next]
     IN  probe' = [probe EXCEPT !.next = @ + 1, !.seen = IF collabUp[c] THEN @ ELSE @ \cup {c}]
  /\ UNCHANGED <<collabUp, flaps, gateRequestVars, shutdownVars>>

Flap(c) ==
  /\ flaps < MaxFlaps /\ flaps' = flaps + 1
  /\ collabUp' = [collabUp EXCEPT ![c] = ~@] /\ probe' = [probe EXCEPT !.steady = FALSE]
  /\ UNCHANGED <<gateRequestVars, shutdownVars>>

\* Mutant: the report is down when everything is.
Report_All(seen) ==
  IF seen = {} THEN "ok" ELSE IF seen = ToSet(Collaborators) THEN "down" ELSE "degraded"

\* Every one ok, some one down, or neither, which no probe gives.
Report(seen) ==
  IF seen = {} THEN "ok"
  ELSE IF \E c \in seen : c \in ToSet(Collaborators) THEN "down" ELSE "degraded"

-----------------------------------------------------------------------------
(* ShutdownCoordinator.                                                    *)

\* The first signal runs the handlers; the other one finds them invoked, has
\* nothing to wait for, and exits.
Signal(s) ==
  /\ s \notin signals /\ ~cleanup.exited
  /\ signals' = signals \cup {s}
  /\ cleanup' = IF cleanup.invoked THEN [cleanup EXCEPT !.exited = TRUE]
                ELSE [cleanup EXCEPT !.invoked = TRUE]
  /\ UNCHANGED <<ran, gateRequestVars, healthVars>>

\* Mutant: a handler that throws ends the run.
NextHandler_Break(threw) == IF threw THEN CleanupCount + 1 ELSE cleanup.next + 1
NextHandler(threw) == cleanup.next + 1

RunHandler ==
  /\ cleanup.invoked /\ ~cleanup.exited /\ cleanup.next <= CleanupCount
  /\ \E threw \in BOOLEAN :
       /\ cleanup' = [cleanup EXCEPT !.next = NextHandler(threw)]
       /\ ran' = Append(ran, cleanup.next)
  /\ UNCHANGED <<signals, gateRequestVars, healthVars>>

Exit ==
  /\ cleanup.invoked /\ ~cleanup.exited /\ cleanup.next > CleanupCount
  /\ cleanup' = [cleanup EXCEPT !.exited = TRUE]
  /\ UNCHANGED <<signals, ran, gateRequestVars, healthVars>>

-----------------------------------------------------------------------------

GateRequestNext ==
  \/ \E q \in GateRequests :
       Receive(q) \/ Screen(q) \/ LimitWorkspace(q) \/ Route(q) \/ Authenticate(q) \/ Handle(q)
         \/ AnswerProbe(q)
  \/ GateTick

HealthNext == BeginProbe \/ ProbeNext \/ \E c \in ToSet(Collaborators) : Flap(c)

ShutdownNext == RunHandler \/ Exit \/ \E s \in {"SIGTERM", "SIGINT"} : Signal(s)

GateNext == GateRequestNext \/ HealthNext \/ ShutdownNext

GateSpec == GateInit /\ [][GateNext]_gateVars

-----------------------------------------------------------------------------

GateTypeOK ==
  /\ gateTime \in 0 .. MaxGateTime
  /\ \A q \in GateRequests :
       /\ gate[q].at \in {"new", "received", "limiting", "routing", "verifying", "handling",
                          "probing", "answered"}
       /\ gate[q].from \in {"none", "peer", "forwarded"} /\ gate[q].checked \in -1 .. MaxGateTime
       /\ gate[q].answer.status \in Answers("guarded") \cup {0, 204, 429}
  /\ probe.next \in 0 .. Len(Collaborators) + 1 /\ flaps \in 0 .. MaxFlaps
  /\ cleanup.next \in 1 .. CleanupCount + 1 /\ signals \subseteq {"SIGTERM", "SIGINT"}

\* What reaches a handler behind the token was verified while the token was valid,
\* not only when the limiter looked at it an await earlier, and a change came from a
\* page of ours whatever its cookies say.
AdmittedByRules ==
  \A q \in GateRequests : LET r == gate[q].req IN gate[q].handled =>
    /\ r.path = "guarded" => r.token = "signed" /\ gate[q].checked \in 0 .. r.expires - 1
    /\ r.method = "POST" => r.origin \in {"own", "listed"}

\* What is the matter with a request that is answered before it has a handler.
Matter(r, status) ==
  /\ status = 204 => r.method = "OPTIONS"
  /\ status = 401 => r.token # "signed" \/ r.expires <= gateTime \/ r.cookie = "broken"
  /\ status = 403 => r.method = "POST" /\ r.path \notin Probes /\ r.origin \notin {"own", "listed"}
  /\ status = 404 => r.token = "signed" /\ r.path # "guarded"
  /\ status = 429 => r.path \notin Probes
  /\ status = 500 => r.forwarded /\ r.family \notin {"none", trusted.family}
  /\ status \in {200, 503} => r.method = "GET" /\ r.path \in Probes

\* The gate turns nobody away for nothing: whoever asks for a route from a page of ours
\* with a valid token gets the answer of its handler, unless a limit is hit or a proxy
\* speaks of an address of the other family; probes are limited by nothing, and only
\* holders of a token learn that a path does not exist.
RefusedForAReason ==
  \A q \in GateRequests :
    gate[q].at = "answered" /\ ~gate[q].handled => Matter(gate[q].req, gate[q].answer.status)

\* A client is believed about its address only behind a proxy whose address agrees
\* with the range on as many bits as the range has: all addresses for 0, one for all.
ForwardedIsTrusted ==
  \A q \in GateRequests :
    LET prefix(x) == x \div 2 ^ (AddressBits - trusted.bits) IN
    /\ gate[q].from = "forwarded" => prefix(gate[q].req.peer) = prefix(trusted.base)
    /\ gate[q].from = "peer" /\ gate[q].req.forwarded /\ gate[q].req.family = trusted.family =>
         prefix(gate[q].req.peer) # prefix(trusted.base)

\* A probe nothing changed under says down exactly when something is down.
ReportIsTrue ==
  probe.next = Len(Collaborators) + 1 /\ probe.steady =>
    Report(probe.seen) = IF \E c \in ToSet(Collaborators) : ~collabUp[c] THEN "down" ELSE "ok"

\* A process that got one signal runs every handler once and in order before it
\* exits, even when some throw.
CleanupIsWhole ==
  /\ cleanup.exited /\ Cardinality(signals) = 1 => ran = [i \in 1 .. CleanupCount |-> i]
  /\ \A i \in DOMAIN ran : ran[i] = i

\* The gate holds: what is handled was admitted, what is turned away has something the
\* matter, the health report is true and the shutdown is whole.
GateHolds == AdmittedByRules /\ RefusedForAReason /\ ReportIsTrue /\ CleanupIsWhole
=============================================================================
