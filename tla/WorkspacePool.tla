---------------------------- MODULE WorkspacePool ----------------------------
(***************************************************************************)
(* The pool of unlocked handles of one workspace, one per user, that HTTP  *)
(* requests and ingestion jobs share (api/src/workspace-pool.ts), with the *)
(* settings they read and write through a handle                           *)
(* (core/src/encryption.ts).                                               *)
(*                                                                         *)
(* A caller gets a handle, awaits other things, and uses the handle later. *)
(* A handle is named after the caller whose get() opened it.  Requests     *)
(* bring the passphrase in their cookie; a job brings what the vault has,  *)
(* which is nothing once the process was restarted.                        *)
(***************************************************************************)
EXTENDS Naturals, FiniteSets

CONSTANTS
  Users,         \* the keys of the pool, for one workspace
  Callers,       \* calls of get()
  UserOf,        \* whose handle a caller asks for
  KindOf,        \* "job", "read" or "write": what it is for
  None,          \* no handle, no caller
  MaxHandles,    \* maxHandles
  MaxRestarts,   \* bound on restarts of the process
  OpenMayFail    \* opening may throw

ASSUME CallerAssumption ==
  /\ UserOf \in [Callers -> Users]
  /\ KindOf \in [Callers -> {"job", "read", "write"}]
  /\ None \notin Callers
ASSUME SizeAssumption == MaxHandles \in Nat \ {0} /\ IsFiniteSet(Users)
ASSUME PoolBoundAssumption == MaxRestarts \in Nat /\ OpenMayFail \in BOOLEAN

VARIABLES
  entries,    \* user -> the cached handle
  lastUsed,   \* user -> when it was last asked for
  locks,      \* user -> the caller whose open is in flight
  open,       \* the handles whose connection is open
  keyed,      \* the handles that encrypt and decrypt the settings
  now,        \* Date.now(), advanced only where its order matters
  pc,         \* what each caller does
  held,       \* the handle a caller was given
  stored,     \* how the settings row was last written
  vault,      \* the vault has the passphrase
  restarts

pool == <<entries, lastUsed, locks, open, keyed, now>>
callers == <<pc, held>>
world == <<stored, vault, restarts>>
vars == <<pool, callers, world>>

Pcs == {"idle", "opening", "sharing", "holding", "done", "missing", "error"}

TypeOK ==
  /\ entries \in [Users -> Callers \cup {None}]
  /\ lastUsed \in [Users -> Nat]
  /\ locks \in [Users -> Callers \cup {None}]
  /\ open \subseteq Callers
  /\ keyed \subseteq Callers
  /\ now \in Nat
  /\ pc \in [Callers -> Pcs]
  /\ held \in [Callers -> Callers \cup {None}]
  /\ stored \in {"nothing", "plaintext", "ciphertext"}
  /\ vault \in BOOLEAN
  /\ restarts \in 0 .. MaxRestarts

\* Registration has deposited the passphrase and created the key check.
Init ==
  /\ entries = [u \in Users |-> None]
  /\ lastUsed = [u \in Users |-> 0]
  /\ locks = [u \in Users |-> None]
  /\ open = {}
  /\ keyed = {}
  /\ now = 0
  /\ pc = [c \in Callers |-> "idle"]
  /\ held = [c \in Callers |-> None]
  /\ stored = "nothing"
  /\ vault = TRUE
  /\ restarts = 0

Cached == {u \in Users : entries[u] # None}

\* The callers whose promise is settled when c's open is.
Sharers(c) == {s \in Callers : pc[s] = "sharing" /\ held[s] = c}

-----------------------------------------------------------------------------
(* get() *)

\* The entry is there: touch it and hand it out, whatever the passphrase.
GetCached(c) ==
  LET u == UserOf[c] IN
  /\ pc[c] = "idle"
  /\ u \in Cached
  /\ now' \in {now, now + 1}
  /\ lastUsed' = [lastUsed EXCEPT ![u] = now']
  /\ pc' = [pc EXCEPT ![c] = "holding"]
  /\ held' = [held EXCEPT ![c] = entries[u]]
  /\ UNCHANGED <<entries, locks, open, keyed, world>>

GetInFlight(c) ==
  LET u == UserOf[c] IN
  /\ pc[c] = "idle"
  /\ u \notin Cached
  /\ locks[u] # None
  /\ pc' = [pc EXCEPT ![c] = "sharing"]
  /\ held' = [held EXCEPT ![c] = locks[u]]
  /\ UNCHANGED <<pool, world>>

\* Mutant: a second caller does not see the open in flight.
GetMissing_NoShare(c) ==
  LET u == UserOf[c] IN
  /\ pc[c] = "idle"
  /\ u \notin Cached
  /\ pc' = [pc EXCEPT ![c] = "opening"]
  /\ locks' = [locks EXCEPT ![u] = c]
  /\ UNCHANGED <<entries, lastUsed, open, keyed, now, held, world>>

GetMissing(c) ==
  LET u == UserOf[c] IN
  /\ pc[c] = "idle"
  /\ u \notin Cached
  /\ locks[u] = None
  /\ pc' = [pc EXCEPT ![c] = "opening"]
  /\ locks' = [locks EXCEPT ![u] = c]
  /\ UNCHANGED <<entries, lastUsed, open, keyed, now, held, world>>

\* Mutant: one handle too many.
IsFull_Late == Cardinality(Cached) > MaxHandles

IsFull == Cardinality(Cached) >= MaxHandles

\* The entry that evictIfNeeded() picks.
IsOldest(u) == u \in Cached /\ \A v \in Cached : lastUsed[u] <= lastUsed[v]

\* The entries of E give way to the handle c opened.
Opened(c, E) ==
  /\ entries' = [u \in Users |->
       IF u = UserOf[c] THEN c ELSE IF u \in E THEN None ELSE entries[u]]
  /\ open' = (open \ {entries[u] : u \in E}) \cup {c}

\* Mutant: the ingest handler does not ask the vault.
Unlocks_NoVault(c) == KindOf[c] # "job"

\* The passphrase the caller brings is not ''.
Unlocks(c) == KindOf[c] # "job" \/ vault

OpenDone(c) ==
  LET u == UserOf[c] IN
  /\ pc[c] = "opening"
  /\ now' \in {now, now + 1}
  /\ \/ IsFull /\ \E e \in Users : IsOldest(e) /\ Opened(c, {e})
     \/ ~IsFull /\ Opened(c, {})
  /\ lastUsed' = [lastUsed EXCEPT ![u] = now']
  /\ locks' = [locks EXCEPT ![u] = None]
  /\ keyed' = IF Unlocks(c) THEN keyed \cup {c} ELSE keyed
  /\ pc' = [s \in Callers |-> IF s = c \/ s \in Sharers(c) THEN "holding" ELSE pc[s]]
  /\ held' = [held EXCEPT ![c] = c]
  /\ UNCHANGED world

\* Mutant: a failed open is reported to its own caller only.
OpenFails_Alone(c) ==
  /\ OpenMayFail
  /\ pc[c] = "opening"
  /\ locks' = [locks EXCEPT ![UserOf[c]] = None]
  /\ pc' = [pc EXCEPT ![c] = "error"]
  /\ UNCHANGED <<entries, lastUsed, open, keyed, now, held, world>>

OpenFails(c) ==
  /\ OpenMayFail
  /\ pc[c] = "opening"
  /\ locks' = [locks EXCEPT ![UserOf[c]] = None]
  /\ pc' = [s \in Callers |-> IF s = c \/ s \in Sharers(c) THEN "error" ELSE pc[s]]
  /\ UNCHANGED <<entries, lastUsed, open, keyed, now, held, world>>

-----------------------------------------------------------------------------
(* What callers do with the handle they hold. *)

\* A statement on a closed connection throws.
UseClosed(c) ==
  /\ pc[c] = "holding"
  /\ held[c] \notin open
  /\ pc' = [pc EXCEPT ![c] = "error"]
  /\ UNCHANGED <<pool, held, world>>

Usable(c) == pc[c] = "holding" /\ held[c] \in open

\* A job works on other tables.
RunJob(c) ==
  /\ Usable(c)
  /\ KindOf[c] = "job"
  /\ pc' = [pc EXCEPT ![c] = "done"]
  /\ UNCHANGED <<pool, held, world>>

WriteSettings(c) ==
  /\ Usable(c)
  /\ KindOf[c] = "write"
  /\ stored' = IF held[c] \in keyed THEN "ciphertext" ELSE "plaintext"
  /\ pc' = [pc EXCEPT ![c] = "done"]
  /\ UNCHANGED <<pool, held, vault, restarts>>

\* get('llm'): a plaintext handle answers null for a row it cannot parse, a
\* keyed one throws.
ReadSettings(c) ==
  /\ Usable(c)
  /\ KindOf[c] = "read"
  /\ pc' = [pc EXCEPT ![c] =
       IF held[c] \in keyed
       THEN IF stored = "plaintext" THEN "error" ELSE "done"
       ELSE IF stored = "ciphertext" THEN "missing" ELSE "done"]
  /\ UNCHANGED <<pool, held, world>>

\* The process is restarted: only the database survives.
Restart ==
  /\ restarts < MaxRestarts
  /\ restarts' = restarts + 1
  /\ vault' = FALSE
  /\ entries' = [u \in Users |-> None]
  /\ locks' = [u \in Users |-> None]
  /\ open' = {}
  /\ pc' = [c \in Callers |->
       IF pc[c] \in {"opening", "sharing", "holding"} THEN "error" ELSE pc[c]]
  /\ UNCHANGED <<lastUsed, keyed, now, held, stored>>

-----------------------------------------------------------------------------
Get(c) == GetCached(c) \/ GetInFlight(c) \/ GetMissing(c)
Use(c) == RunJob(c) \/ WriteSettings(c) \/ ReadSettings(c) \/ UseClosed(c)

Next ==
  \/ \E c \in Callers : Get(c) \/ OpenDone(c) \/ OpenFails(c) \/ Use(c)
  \/ Restart

Spec == Init /\ [][Next]_vars

\* Opens settle and callers use what they hold; nobody has to call get().
Fairness ==
  \A c \in Callers : WF_vars(OpenDone(c) \/ OpenFails(c)) /\ WF_vars(Use(c))

FairSpec == Spec /\ Fairness

-----------------------------------------------------------------------------
\* The pool never caches more than maxHandles handles: several opens may be in
\* flight, each makes room for itself when it ends, and nothing is awaited
\* between the eviction and the insertion (workspace-pool.ts:89-91, 131-146).
PoolIsBounded == Cardinality(Cached) <= MaxHandles

\* Every handle that was opened is closed or cached for its user: concurrent callers
\* share one open and an evicted handle is closed, so none leaks and none is
\* handed out after it was closed (workspace-pool.ts:75-96).
OpenIsCached == open = {entries[u] : u \in Cached}

\* A caller is never left waiting: sharing ends when the open it shares ends,
\* by an error too.
SharersAreAnswered ==
  \A c \in Callers : pc[c] = "sharing" ~> pc[c] # "sharing"

\* workspace-pool.ts:2-4: handles are cached "for the lifetime of the daemon
\* process"; the handle that a caller holds across its awaits stays open.
HeldIsOpen == \A c \in Callers : pc[c] = "holding" => held[c] \in open

\* encryption.ts:9-10: "Reads decrypt on the fly; writes encrypt
\* transparently": a request that brings the passphrase reads what requests
\* that brought it wrote.
SettingsSurviveRestarts ==
  \A c \in Callers : KindOf[c] = "read" /\ held[c] # None => pc[c] # "missing"

\* It does for the lifetime of the process: whoever opens the workspace, a
\* request or a job that has no passphrase but the vault's, opens it keyed.
SettingsAreRead == restarts = 0 => SettingsSurviveRestarts
=============================================================================
