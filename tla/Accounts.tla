------------------------------ MODULE Accounts ------------------------------
(***************************************************************************)
(* Registration, login, password changes and members (api/src/routes/      *)
(* auth.ts, password.ts, workspaces.ts, me.ts, logout.ts) over one file    *)
(* per workspace and the registry of all of them.                          *)
(*                                                                         *)
(* A workspace, its founder and the founder's user id are named after the  *)
(* registration that makes them, and a password after the request that     *)
(* sets it.  A step is what runs between two awaits that suspend, or a     *)
(* statement that can throw.                                               *)
(***************************************************************************)
EXTENDS Naturals, Sequences, FiniteSets, Functions

CONSTANTS
  Regs,         \* registrations
  EmailOf,      \* the e-mail and
  KeyOf,        \* the passphrase given with each
  Logins,       \* login requests
  Changes,      \* password changes and resets
  MemberOps,    \* requests on the members of a workspace
  GivenRoles,   \* the roles those requests give
  Mixes,        \* the sets of requests that behaviours draw on
  Nobody,
  MaxBoots      \* bound on restarts

Managers == {"owner", "admin"}

ASSUME AccountsAssumption ==
  /\ EmailOf \in [Regs -> Nat] /\ KeyOf \in [Regs -> Nat] /\ MaxBoots \in Nat
  /\ Nobody \notin Regs \cup Changes \cup MemberOps /\ Regs \cap Changes = {}
  /\ GivenRoles \subseteq {"owner", "admin", "member", "viewer"}

Ids == Regs \cup MemberOps          \* an invitation makes the user id it adds
Passwords == Regs \cup Changes
NoRole == "none"

VARIABLES
  reg,        \* the step each registration has reached
  directory,  \* workspace_directory, in the order of registered_at
  hashes,     \* users: workspace -> password of its only row, or Nobody
  roles,      \* workspace_member: workspace -> user id -> role
  settled,    \* the workspaces whose llm settings are written
  audits,     \* audit_event: workspace -> set of audited requests
  bound,      \* the workspace whose stores were bound at boot, or Nobody
  login,      \* per login: where it is and what it has found
  change,     \* per password request
  memberOp,   \* per request on members
  boots,
  mix,        \* the logins, changes and member requests of this behaviour
  applied,    \* history: requests that have changed a table
  answered    \* history: answered passwords in the order of their answers

accountVars == <<reg, directory, hashes, roles, settled, audits, bound, login,
                 change, memberOp, boots, mix, applied, answered>>

RegStates == {"idle", "opened", "enlisted", "user", "owner", "settings", "done",
              "failed"}

NoLogin == [at |-> "idle", as |-> Nobody, pw |-> Nobody, list |-> <<>>,
            home |-> Nobody, hash |-> Nobody, own |-> FALSE]
NoChange == [at |-> "idle", by |-> Nobody, reset |-> FALSE, over |-> {}]
NoOp == [at |-> "idle", by |-> Nobody]

AccountsTypeOK ==
  /\ reg \in [Regs -> RegStates]
  /\ directory \in Seq(Regs)
  /\ hashes \in [Regs -> Passwords \cup {Nobody}]
  /\ roles \in [Regs -> [Ids -> GivenRoles \cup {"owner", NoRole}]]
  /\ settled \subseteq Regs /\ bound \in Regs \cup {Nobody}
  /\ audits \in [Regs -> SUBSET (Regs \cup Changes \cup MemberOps)]
  /\ \A l \in Logins : login[l].at \in {"idle", "scan", "found", "in", "refused"}
  /\ \A c \in Changes : change[c].at \in {"idle", "verify", "hash", "done", "refused"}
  /\ \A m \in MemberOps : memberOp[m].at \in {"idle", "body", "applied", "done", "refused"}
  /\ boots \in 0 .. MaxBoots

AccountsInit ==
  /\ reg = [r \in Regs |-> "idle"]
  /\ directory = <<>>
  /\ hashes = [r \in Regs |-> Nobody]
  /\ roles = [r \in Regs |-> [i \in Ids |-> NoRole]]
  /\ settled = {} /\ bound = Nobody
  /\ audits = [r \in Regs |-> {}]
  /\ login = [l \in Logins |-> NoLogin]
  /\ change = [c \in Changes |-> NoChange]
  /\ memberOp = [m \in MemberOps |-> NoOp]
  /\ boots = 0 /\ mix \in Mixes /\ applied = {} /\ answered = <<>>

-----------------------------------------------------------------------------
(* Registration.                                                           *)

RegStep(r, from, to) == reg[r] = from /\ reg' = [reg EXCEPT ![r] = to]

\* mkdirSync and openEncryptedWorkspace: the file and its key check.
OpenFile(r) ==
  /\ RegStep(r, "idle", "opened")
  /\ UNCHANGED <<directory, hashes, roles, settled, audits, bound, login, change,
                 memberOp, boots, mix, applied, answered>>

\* registry.register and registerWorkspace.
Enlist(r) ==
  /\ RegStep(r, "opened", "enlisted")
  /\ directory' = Append(directory, r)
  /\ UNCHANGED <<hashes, roles, settled, audits, bound, login, change, memberOp,
                 boots, mix, applied, answered>>

\* hasher.hash has ended: userStore.create.
CreateUser(r) ==
  /\ RegStep(r, "enlisted", "user")
  /\ hashes' = [hashes EXCEPT ![r] = r]
  /\ UNCHANGED <<directory, roles, settled, audits, bound, login, change, memberOp,
                 boots, mix, applied, answered>>

AddOwner(r) ==
  /\ RegStep(r, "user", "owner")
  /\ roles' = [roles EXCEPT ![r][r] = "owner"]
  /\ UNCHANGED <<directory, hashes, settled, audits, bound, login, change, memberOp,
                 boots, mix, applied, answered>>

WriteLlmSettings(r) ==
  /\ RegStep(r, "owner", "settings")
  /\ settled' = settled \cup {r}
  /\ UNCHANGED <<directory, hashes, roles, audits, bound, login, change, memberOp,
                 boots, mix, applied, answered>>

\* Mutant: the answer does not wait for the settings.
Registered_Early(r) ==
  /\ reg[r] \in {"owner", "settings"}
  /\ reg' = [reg EXCEPT ![r] = "done"]
  /\ audits' = [audits EXCEPT ![r] = @ \cup {r}]
  /\ applied' = applied \cup {r}
  /\ UNCHANGED <<directory, hashes, roles, settled, bound, login, change, memberOp,
                 boots, mix, answered>>

\* The token is minted: the audit row, in the file of the new workspace, and the
\* answer.
Registered(r) ==
  /\ RegStep(r, "settings", "done")
  /\ audits' = [audits EXCEPT ![r] = @ \cup {r}]
  /\ applied' = applied \cup {r}
  /\ UNCHANGED <<directory, hashes, roles, settled, bound, login, change, memberOp,
                 boots, mix, answered>>

\* A statement of the registration throws: nothing is undone.
RegisterThrows(r) ==
  /\ reg[r] \notin {"idle", "done", "failed"}
  /\ reg' = [reg EXCEPT ![r] = "failed"]
  /\ UNCHANGED <<directory, hashes, roles, settled, audits, bound, login, change,
                 memberOp, boots, mix, applied, answered>>

Register(r) ==
  OpenFile(r) \/ Enlist(r) \/ CreateUser(r) \/ AddOwner(r) \/ WriteLlmSettings(r)
    \/ Registered(r) \/ RegisterThrows(r)

-----------------------------------------------------------------------------
(* Login.                                                                  *)

NotForLogin == <<reg, directory, hashes, roles, settled, audits, bound, change,
                 memberOp, boots, mix, applied, answered>>

\* registry.list() is read once; the credentials are those of workspace r.
BeginLogin(l, r, pw) ==
  /\ login[l].at = "idle" /\ reg[r] # "idle"
  /\ login' = [login EXCEPT ![l] =
       [at |-> "scan", as |-> r, pw |-> pw, list |-> directory, home |-> Nobody,
        hash |-> Nobody, own |-> reg[r] = "done" /\ hashes[r] = pw]]
  /\ UNCHANGED NotForLogin

HasUser(w, r) == hashes[w] # Nobody /\ EmailOf[w] = EmailOf[r]

\* Mutant: the error of a workspace with another passphrase ends the search.
ScanEntry_Throws(l) ==
  /\ login[l].at = "scan" /\ login[l].list # <<>>
  /\ LET w == Head(login[l].list) r == login[l].as
     IN login' = [login EXCEPT ![l] =
          IF KeyOf[w] # KeyOf[r] THEN [@ EXCEPT !.list = <<>>]
          ELSE IF HasUser(w, r)
          THEN [@ EXCEPT !.at = "found", !.home = w, !.hash = hashes[w]]
          ELSE [@ EXCEPT !.list = Tail(@)]]
  /\ UNCHANGED NotForLogin

\* findUserByEmail, one entry of the list: the open throws if the passphrase is
\* that of another workspace.
ScanEntry(l) ==
  /\ login[l].at = "scan" /\ login[l].list # <<>>
  /\ LET w == Head(login[l].list) r == login[l].as
     IN login' = [login EXCEPT ![l] =
          IF KeyOf[w] = KeyOf[r] /\ HasUser(w, r)
          THEN [@ EXCEPT !.at = "found", !.home = w, !.hash = hashes[w]]
          ELSE [@ EXCEPT !.list = Tail(login[l].list)]]
  /\ UNCHANGED NotForLogin

\* hasher.verify, resolve, open and mint.
FinishLogin(l) ==
  /\ \/ login[l].at = "scan" /\ login[l].list = <<>>
        /\ login' = [login EXCEPT ![l].at = "refused"]
     \/ login[l].at = "found"
        /\ login' = [login EXCEPT ![l].at =
             IF login[l].hash = login[l].pw THEN "in" ELSE "refused"]
  /\ UNCHANGED NotForLogin

LoggedIn(r) ==
  reg[r] = "done" \/ \E l \in Logins : login[l].at = "in" /\ login[l].home = r

-----------------------------------------------------------------------------
(* Password changes: both routes use the stores bound at boot.             *)

NotForChange == <<reg, directory, roles, settled, bound, login, memberOp,
                  boots, mix>>

\* The row of user r of workspace r, in the bound store.
Known(r) == bound = r /\ hashes[r] # Nobody

\* POST /v1/auth/password up to hasher.verify.
BeginChange(c, r) ==
  /\ change[c].at = "idle" /\ LoggedIn(r)
  /\ change' = [change EXCEPT ![c] =
       [at |-> IF Known(r) THEN "verify" ELSE "refused", by |-> r,
        reset |-> FALSE, over |-> Regs \cup Range(answered)]]
  /\ UNCHANGED <<NotForChange, hashes, audits, applied, answered>>

\* The current password was looked up before the await.
Verify(c, matches) ==
  /\ change[c].at = "verify"
  /\ change' = [change EXCEPT ![c].at = IF matches THEN "hash" ELSE "refused"]
  /\ UNCHANGED <<NotForChange, hashes, audits, applied, answered>>

\* POST /v1/auth/reset up to hasher.hash: isAdmin asks the bound member table.
BeginReset(c, r) ==
  /\ change[c].at = "idle" /\ LoggedIn(r)
  /\ change' = [change EXCEPT ![c] =
       [at |-> IF bound # Nobody /\ roles[bound][r] \in Managers /\ Known(r)
               THEN "hash" ELSE "refused",
        by |-> r, reset |-> TRUE, over |-> Regs \cup Range(answered)]]
  /\ UNCHANGED <<NotForChange, hashes, audits, applied, answered>>

\* Mutant: the UPDATE is not awaited, and another change gets between.
SetPassword_Late(c) ==
  /\ \/ change[c].at = "hash"
        /\ change' = [change EXCEPT ![c].at = "done"]
        /\ answered' = Append(answered, c) /\ UNCHANGED <<hashes, applied, audits>>
     \/ change[c].at = "done" /\ c \notin applied
        /\ hashes' = [hashes EXCEPT ![change[c].by] = c]
        /\ applied' = applied \cup {c} /\ UNCHANGED <<change, answered, audits>>
  /\ UNCHANGED NotForChange

\* hasher.hash has ended: the UPDATE, the audit row of a reset, the answer.
SetPassword(c) ==
  /\ change[c].at = "hash"
  /\ hashes' = [hashes EXCEPT ![change[c].by] = c]
  /\ change' = [change EXCEPT ![c].at = "done"]
  /\ applied' = applied \cup {c}
  /\ answered' = Append(answered, c)
  /\ audits' = IF change[c].reset
               THEN [audits EXCEPT ![change[c].by] = @ \cup {c}] ELSE audits
  /\ UNCHANGED NotForChange

-----------------------------------------------------------------------------
(* Members: the table of the caller's workspace, the audit store bound at   *)
(* boot.                                                                    *)

NotForMembers == <<reg, directory, hashes, settled, bound, login, change, boots, mix, answered>>

\* memberStore.get of the caller; the body is still to come.
BeginMemberOp(m, r) ==
  /\ memberOp[m].at = "idle" /\ LoggedIn(r)
  /\ memberOp' = [memberOp EXCEPT ![m] =
       [at |-> IF roles[r][r] \in Managers THEN "body" ELSE "refused", by |-> r]]
  /\ UNCHANGED <<NotForMembers, roles, audits, applied>>

Apply(m, target, role) ==
  /\ memberOp[m].at = "body"
  /\ roles' = [roles EXCEPT ![memberOp[m].by][target] = role]
  /\ memberOp' = [memberOp EXCEPT ![m].at = "applied"]
  /\ applied' = applied \cup {m}
  /\ UNCHANGED <<NotForMembers, audits>>

Invite(m) == \E role \in GivenRoles : Apply(m, m, role)

\* upsert: the target need not be a member.
ChangeRole(m) ==
  \E target \in Regs \cup {o \in MemberOps : memberOp[o].at # "idle"},
     role \in GivenRoles : Apply(m, target, role)

\* No body to wait for: the check and the DELETE are one step.
RemoveMember(m, r) ==
  /\ memberOp[m].at = "idle" /\ LoggedIn(r)
  /\ IF roles[r][r] \in Managers
     THEN /\ \E target \in Ids : roles' = [roles EXCEPT ![r][target] = NoRole]
          /\ memberOp' = [memberOp EXCEPT ![m] = [at |-> "applied", by |-> r]]
          /\ applied' = applied \cup {m}
     ELSE /\ memberOp' = [memberOp EXCEPT ![m] = [at |-> "refused", by |-> r]]
          /\ UNCHANGED <<roles, applied>>
  /\ UNCHANGED <<NotForMembers, audits>>

\* The audit row, if the server was booted with a workspace, and the answer.
AuditMemberOp(m) ==
  /\ memberOp[m].at = "applied"
  /\ audits' = IF bound = Nobody THEN audits
               ELSE [audits EXCEPT ![bound] = @ \cup {m}]
  /\ memberOp' = [memberOp EXCEPT ![m].at = "done"]
  /\ UNCHANGED <<NotForMembers, roles, applied>>

\* Mutant: the row is written before the table is.
BeginMemberOp_Audits(m, r) ==
  /\ memberOp[m].at = "idle" /\ LoggedIn(r)
  /\ memberOp' = [memberOp EXCEPT ![m] =
       [at |-> IF roles[r][r] \in Managers THEN "body" ELSE "refused", by |-> r]]
  /\ audits' = IF bound = Nobody THEN audits
               ELSE [audits EXCEPT ![bound] = @ \cup {m}]
  /\ UNCHANGED <<NotForMembers, roles, applied>>

MemberRequest(m) ==
  \/ \E r \in Regs : BeginMemberOp(m, r) \/ RemoveMember(m, r)
  \/ Invite(m) \/ ChangeRole(m) \/ AuditMemberOp(m)

-----------------------------------------------------------------------------
\* What was under way is lost; wireFirstWorkspaceStores binds the first entry.
Restart ==
  LET End(req) == [x \in DOMAIN req |->
        IF req[x].at \in {"idle", "in", "done", "refused"} THEN req[x]
        ELSE [req[x] EXCEPT !.at = "refused", !.by = Nobody]]
  IN
  /\ boots < MaxBoots
  /\ boots' = boots + 1
  /\ bound' = IF directory = <<>> THEN Nobody ELSE Head(directory)
  /\ reg' = [r \in Regs |-> IF reg[r] \in {"idle", "done"} THEN reg[r] ELSE "failed"]
  /\ login' = [l \in Logins |->
       IF login[l].at \in {"scan", "found"} THEN NoLogin ELSE login[l]]
  /\ change' = End(change) /\ memberOp' = End(memberOp)
  /\ UNCHANGED <<directory, hashes, roles, settled, audits, mix, applied, answered>>

AccountsNext ==
  \/ \E r \in Regs : Register(r)
  \/ \E l \in Logins \cap mix :
       \/ \E r \in Regs, pw \in Passwords : BeginLogin(l, r, pw)
       \/ ScanEntry(l) \/ FinishLogin(l)
  \/ \E c \in Changes \cap mix :
       \/ \E r \in Regs : BeginChange(c, r) \/ BeginReset(c, r)
       \/ \E ok \in BOOLEAN : Verify(c, ok)
       \/ SetPassword(c)
  \/ \E m \in MemberOps \cap mix : MemberRequest(m)
  \/ Restart

AccountsSpec == AccountsInit /\ [][AccountsNext]_accountVars

-----------------------------------------------------------------------------
(* Properties.                                                             *)

\* A registration that was answered is whole: entry, user, settings and audit
\* row are there whatever other requests failed or crashed in between.
RegisteredIsWhole ==
  \A r \in Regs : reg[r] = "done" =>
    r \in Range(directory) /\ hashes[r] # Nobody /\ r \in settled /\ r \in audits[r]

\* No other registration uses both the e-mail and the passphrase of r.
Distinct(r) == \A q \in Regs \ {r} : EmailOf[q] = EmailOf[r] => KeyOf[q] # KeyOf[r]

\* A login with the e-mail, passphrase and current password of an answered
\* registration is not refused and enters that workspace, whatever is in the
\* registry beside it: workspaces of other passphrases, the remains of failed
\* registrations, accounts of the same e-mail.
LoginFindsAccount ==
  \A l \in Logins :
    login[l].own /\ hashes[login[l].as] = login[l].pw /\ Distinct(login[l].as) =>
    login[l].at # "refused" /\ (login[l].at = "in" => login[l].home = login[l].as)

\* What was answered can be used: it is whole, and its owner gets in.
AccountsAreUsable == RegisteredIsWhole /\ LoginFindsAccount

\* Once a password change is answered no password answered before it began
\* comes back.
AnsweredPasswordHolds ==
  \A c \in Changes : change[c].at = "done" =>
    hashes[change[c].by] \notin change[c].over

\* An account can be used by the one who registered it, and by no password but
\* the one last confirmed.
AccountsHold == AccountsAreUsable /\ AnsweredPasswordHolds

\* An audited request on members, passwords or workspaces has taken effect.
AuditedHasHappened == \A w \in Regs : audits[w] \subseteq applied

\* What the code does not keep, see the README.

\* "The passphrase always unlocks the user's own workspace" (auth.ts:215).
PassphraseFindsOwn ==
  \A l \in Logins : login[l].own /\ hashes[login[l].as] = login[l].pw =>
    login[l].at # "refused"

\* A change of members is recorded with the workspace it is about.
AuditedAtHome ==
  \A m \in MemberOps : memberOp[m].at = "done" => m \in audits[memberOp[m].by]

\* A workspace keeps somebody who can manage it.
WorkspaceKeepsManager ==
  \A r \in Regs : reg[r] = "done" => \E i \in Ids : roles[r][i] \in Managers

\* Whoever registered can change the password.
FounderIsKnown == \A r \in Regs : reg[r] = "done" => Known(r)
=============================================================================
