---------------------------- MODULE AccessLists -----------------------------
(***************************************************************************)
(* Who may see which document of a workspace: the grants of                *)
(* document_principal (core/src/storage/document-principal.ts), the routes *)
(* that change them (api/src/routes/document-acl.ts), roles and groups     *)
(* (core/src/storage/groups.ts) and the filter with which both searches    *)
(* read them (core/src/retrieval/rbac.ts, core/src/stores/sqlite-vec.ts).  *)
(*                                                                         *)
(* A request awaits between its statements, so the role it checked may be  *)
(* gone when it writes.  The id of a document is the hash of its bytes:    *)
(* its row, once inserted, stays and keeps its owner, while its chunks are *)
(* dropped by a delete and belong to whoever ingested the bytes last.      *)
(***************************************************************************)
EXTENDS Integers, Sequences, FiniteSets

CONSTANTS
  Members,      \* users
  Documents,    \* ids of documents
  Groups,       \* ids of groups and roles
  Permissions,  \* "read", "admin"
  AclRequests,  \* requests to /v1/documents/:id/principals
  MaxAclSteps   \* bound on uploads, ingests, deletes and membership changes

ASSUME AclAssumption ==
  Permissions \subseteq {"read", "admin"} /\ AclRequests \cup {MaxAclSteps} \subseteq Nat

Principals == {<<"user", u>> : u \in Members} \cup ({"role", "group"} \X Groups)
NoOne == "no one"

VARIABLES
  owner,        \* documents: owner_id, or NoOne without a row
  chunkOwner,   \* chunks: owner_id of those of a document, or NoOne without any
  memberRole,   \* workspace_member.role, or NoOne
  grants,       \* document_principal: [doc, who, permission, by]
  joined,       \* role_member and workspace_group_member: [in, who]
  acl,          \* the requests: [at, op, by, doc, who, permission], and as history
                \* `held`: since it came, its user could manage the list at some moment
  aclSteps

aclVars == <<owner, chunkOwner, memberRole, grants, joined, acl, aclSteps>>

AclIdle == [at |-> "idle", op |-> "grant", by |-> NoOne, doc |-> NoOne, who |-> NoOne,
            permission |-> "read", held |-> FALSE]

AclTypeOK ==
  /\ {owner, chunkOwner} \subseteq [Documents -> Members \cup {NoOne}]
  /\ memberRole \in [Members -> {"owner", "admin", "member", "viewer", NoOne}]
  /\ grants \subseteq [doc : Documents, who : Principals, permission : Permissions, by : Members]
  /\ joined \subseteq [in : {"role", "group"} \X Groups, who : Principals]
  /\ \A r \in AclRequests :
       /\ acl[r].at \in {"idle", "found", "allowed", "applied", "done", "refused"}
       /\ acl[r].held \in BOOLEAN
  /\ aclSteps \in 0 .. MaxAclSteps

CanManage(role) == role \in {"owner", "admin"}

\* Who can manage the list of document d, now.
Governs(u, d) == owner[d] = u \/ CanManage(memberRole[u])

AclInit ==
  /\ owner = [d \in Documents |-> NoOne] /\ chunkOwner = owner
  /\ memberRole \in {r \in [Members -> {"owner", "member"}] : \E u \in Members : r[u] = "owner"}
  /\ grants = {} /\ joined = {}
  /\ acl = [r \in AclRequests |-> AclIdle]
  /\ aclSteps = 0

Elsewhere ==
  /\ aclSteps < MaxAclSteps /\ aclSteps' = aclSteps + 1
  /\ UNCHANGED <<grants>>

\* The INSERT of an upload, which a second upload of the bytes leaves as it is.
\* applyDefaultAcl, with which storage/document-principal.ts grants the owner its
\* document, has no caller.
Upload(u, d) ==
  /\ owner[d] = NoOne
  /\ owner' = [owner EXCEPT ![d] = u]
  /\ UNCHANGED <<chunkOwner, memberRole, joined, acl>> /\ Elsewhere

\* INSERT OR REPLACE of the chunks, for the user of a job or of a POST
\* /v1/documents/ingest-stream, which needs no row.  A document is one chunk here.
Ingest(u, d) ==
  /\ chunkOwner[d] # u
  /\ chunkOwner' = [chunkOwner EXCEPT ![d] = u]
  /\ UNCHANGED <<owner, memberRole, joined, acl>> /\ Elsewhere

\* DELETE /v1/documents/:id by its owner leaves the row of documents and those of
\* document_principal.
Delete(u, d) ==
  /\ owner[d] = u /\ chunkOwner[d] # NoOne
  /\ chunkOwner' = [chunkOwner EXCEPT ![d] = NoOne]
  /\ UNCHANGED <<owner, memberRole, joined, acl>> /\ Elsewhere

SetRole(u, role) ==
  /\ memberRole[u] # role
  /\ memberRole' = [memberRole EXCEPT ![u] = role]
  /\ acl' = [r \in AclRequests |->
       [acl[r] EXCEPT !.held = @ \/ (acl[r].by = u /\ CanManage(role))]]
  /\ UNCHANGED <<owner, chunkOwner, joined>> /\ Elsewhere

\* addMember (INSERT OR IGNORE) and removeMember of the role and the group store.
\* Roles take users and groups, groups take users; nothing asks for a row of either.
Joins(in, who) == joined' = joined \cup {[in |-> in, who |-> who]}
Leaves(in, who) == joined' = joined \ {[in |-> in, who |-> who]}

AddRoleMember(g, who) == who[1] # "role" /\ Joins(<<"role", g>>, who)
RemoveRoleMember(g, who) == Leaves(<<"role", g>>, who)
AddGroupMember(g, u) == Joins(<<"group", g>>, <<"user", u>>)
RemoveGroupMember(g, u) == Leaves(<<"group", g>>, <<"user", u>>)

MembershipStep ==
  /\ \E g \in Groups :
       \/ \E who \in Principals : AddRoleMember(g, who) \/ RemoveRoleMember(g, who)
       \/ \E u \in Members : AddGroupMember(g, u) \/ RemoveGroupMember(g, u)
  /\ joined' # joined
  /\ UNCHANGED <<owner, chunkOwner, memberRole, acl>> /\ Elsewhere

\* A request that has ended keeps nothing of what it asked.
AclStep(r, at) ==
  /\ acl' = [acl EXCEPT ![r] = [IF at \in {"done", "refused"} THEN AclIdle ELSE @ EXCEPT !.at = at]]
  /\ UNCHANGED <<owner, chunkOwner, memberRole, joined, aclSteps>>

\* documentStore.getById, or 404.  Requests are numbered in the order in which
\* they come.
FindDocument(r, op, u, d, who, permission) ==
  /\ acl[r].at = "idle" /\ \A q \in AclRequests : q < r => acl[q].at # "idle"
  /\ owner[d] # NoOne
  /\ acl' = [acl EXCEPT ![r] = [at |-> IF owner[d] = u THEN "allowed" ELSE "found",
                                op |-> op, by |-> u, doc |-> d, who |-> who,
                                permission |-> permission, held |-> Governs(u, d)]]
  /\ UNCHANGED <<owner, chunkOwner, memberRole, grants, joined, aclSteps>>

\* Mutant: any member of the workspace passes.
MayChange_Member(u) == memberRole[u] # NoOne

\* memberStore.get and canManageWorkspace.
MayChange(u) == CanManage(memberRole[u])

CheckRole(r) ==
  /\ acl[r].at = "found"
  /\ AclStep(r, IF MayChange(acl[r].by) THEN "allowed" ELSE "refused")
  /\ UNCHANGED grants

\* A body that names no principal or permission, or is no JSON.
RefuseBody(r) ==
  /\ acl[r].at = "allowed" /\ acl[r].op # "list"
  /\ AclStep(r, "refused") /\ UNCHANGED grants

\* grant(): INSERT OR IGNORE, so the first who grants stands in the row; revoke():
\* DELETE, whoever granted.
Same(g, q) == g.doc = q.doc /\ g.who = q.who /\ g.permission = q.permission

Granted(q) ==
  IF \E g \in grants : Same(g, q) THEN grants
  ELSE grants \cup {[doc |-> q.doc, who |-> q.who, permission |-> q.permission, by |-> q.by]}

Revoked(q) == {g \in grants : ~Same(g, q)}

\* The body has been read.
ApplyAcl(r) ==
  LET q == acl[r] IN
  /\ q.at = "allowed" /\ AclStep(r, "applied")
  /\ grants' = CASE q.op = "grant" -> Granted(q) [] q.op = "revoke" -> Revoked(q) [] OTHER -> grants

\* The audit event, into the store the server was started with.
AuditAcl(r) == acl[r].at = "applied" /\ AclStep(r, "done") /\ UNCHANGED grants

\* GET, POST and DELETE /v1/documents/:id/principals.
ListPrincipals(r, u, d) == FindDocument(r, "list", u, d, NoOne, "read")
GrantPrincipal(r, u, d) ==
  \E who \in Principals, permission \in Permissions : FindDocument(r, "grant", u, d, who, permission)
RevokePrincipal(r, u, d) ==
  \E who \in Principals, permission \in Permissions : FindDocument(r, "revoke", u, d, who, permission)

AclNext ==
  \/ \E u \in Members, d \in Documents : Upload(u, d) \/ Ingest(u, d) \/ Delete(u, d)
  \/ \E u \in Members, role \in {"admin", "member", NoOne} : SetRole(u, role)
  \/ MembershipStep
  \/ \E r \in AclRequests :
       \/ CheckRole(r) \/ RefuseBody(r) \/ ApplyAcl(r) \/ AuditAcl(r)
       \/ \E u \in Members, d \in Documents :
            ListPrincipals(r, u, d) \/ GrantPrincipal(r, u, d) \/ RevokePrincipal(r, u, d)

AclSpec == AclInit /\ [][AclNext]_aclVars

-----------------------------------------------------------------------------
(* The filter.  allowedCompanyFilter gives an admin no user and no           *)
(* principals, anyone else their own id for both.  In the text of the        *)
(* statement the owner comes before the principals, in the list of its       *)
(* parameters after them.                                                    *)

Placeholders(admin) == <<"workspace">> \o (IF admin THEN <<>> ELSE <<"owner", "type", "id">>)
Parameters(u, admin) == <<"workspace">> \o (IF admin THEN <<>> ELSE <<"user", u, u>>)

Bound(u, name) ==
  Parameters(u, FALSE)[CHOOSE i \in 1 .. 4 : Placeholders(FALSE)[i] = name]

\* userGroups(), and the roles whose members() name a user or one of its groups.
UserGroups(u) == {g \in Groups : [in |-> <<"group", g>>, who |-> <<"user", u>>] \in joined}
RolesOf(who) == {g \in Groups : [in |-> <<"role", g>>, who |-> who] \in joined}

\* hasAccess(): a grant of any permission to one of the principals.
HasAccess(d, principals) == \E g \in grants : g.doc = d /\ g.who \in principals

\* The documents whose chunks searchVector and searchKeyword return.
Searchable(u, admin) ==
  {d \in Documents :
     /\ chunkOwner[d] # NoOne
     /\ admin \/ /\ chunkOwner[d] = Bound(u, "owner")
                 /\ \E g \in grants : g.doc = d /\ g.who = <<Bound(u, "type"), Bound(u, "id")>>}

-----------------------------------------------------------------------------
(* Properties                                                              *)

\* "Only document owners or workspace admins can mutate ACL" (document-acl.ts:8),
\* or list it: whatever a request reads or changes of a list, its user could manage
\* that list at a moment since the request came, though roles, documents and chunks
\* change while it awaits.  (That it still can when it writes is not kept.)
OnlyGovernorsGrant ==
  [][/\ \A r \in AclRequests :
          acl[r].at # "applied" /\ acl'[r].at = "applied" => acl[r].held
     /\ grants' # grants =>
          \E r \in AclRequests :
            /\ acl[r].at # "applied" /\ acl'[r].at = "applied"
            /\ \A g \in (grants \ grants') \cup (grants' \ grants) : Same(g, acl[r])
            /\ \A g \in grants' \ grants : g.by = acl[r].by]_aclVars

PrincipalsOf(u) ==
  LET direct == {<<"user", u>>} \cup {<<"group", g>> : g \in UserGroups(u)}
  IN  direct \cup {<<"role", g>> : g \in UNION {RolesOf(who) : who \in direct}}

\* "A chunk is reachable if any of the user's principals (user, role, or group)
\* has `read` or `admin` on its parent document" (sqlite-vec.ts).
GrantedIsReachable ==
  \A d \in Documents, u \in Members :
    HasAccess(d, PrincipalsOf(u)) /\ chunkOwner[d] # NoOne => d \in Searchable(u, FALSE)
=============================================================================
