------------------------------- MODULE Registry -------------------------------
(***************************************************************************)
(* The rows of the database that say who may do what: users, projects and  *)
(* their members, agents and the projects they read, and the backup of all *)
(* of it.  A request checks what it reads and commits later; others commit *)
(* in between.  SQLite enforces no foreign key here, so nothing cascades.  *)
(***************************************************************************)
EXTENDS Integers, FiniteSets

CONSTANTS MaxUser,           \* bound: ids of users, given out as the largest id + 1
          Projects, Agents,  \* ids, random and never used twice
          Names, Clients, None,
          MaxRequests,       \* bound: requests that are accepted
          MaxRestarts        \* bound: restarts of the process

ASSUME RegistryAssumption ==
    /\ MaxUser \in Nat \ {0} /\ MaxRequests \in Nat /\ MaxRestarts \in Nat
    /\ None \notin Projects \cup Agents \cup Names

VARIABLES role,      \* users: "none" is no row
          seeded,    \* id of the row named admin, 0 if there is none
          type,      \* projects: "none" before the row, "gone" after it
          ticket,    \* ticket_project_id
          model,     \* knowledge_api_model_name
          apiAgent,  \* knowledge_agent_id
          member,    \* project_members, by project and user
          agent,     \* agents: how they came to be, and created_by
          binds,     \* agent_projects
          bundle,    \* the configuration bundle an administrator has kept
          req,       \* the request of each client that has read and not yet written
          asked, restarts,
          calm,      \* history: no two requests have overlapped
          sought     \* history: names that two projects have asked for at once

rows == <<role, seeded, type, ticket, model, apiAgent, member, agent, binds>>
registryVars == <<rows, bundle, req, asked, restarts, calm, sought>>

Users == 1..MaxUser
Idle == [op |-> "idle"]
Unset == "unset"  \* a field the request does not have
NoAgent == [kind |-> "none", by |-> 0]
IsUser(u) == role[u] # "none"
IsAdmin(u) == role[u] = "admin"
Live(p) == type[p] \in {"knowledge_base", "case_library"}
KnowledgeBase(p) == type[p] = "knowledge_base"
AgentExists(a) == agent[a].kind \in {"made", "knowledge"}

\* check_membership, without a role and with require="owner".
IsMember(u, p) == IsUser(u) /\ (IsAdmin(u) \/ member[p][u] # "none")
IsOwner(u, p) == IsUser(u) /\ (IsAdmin(u) \/ member[p][u] = "owner")

\* A bundle of an older version, in which agent a is bound to case library p and to the
\* knowledge bases qs.
OldBundle(a, p, qs) ==
    [role |-> [u \in Users |-> IF u = 1 THEN "admin" ELSE "none"], seeded |-> 1,
     type |-> [q \in Projects |-> IF q = p THEN "case_library"
                                  ELSE IF q \in qs THEN "knowledge_base" ELSE "none"],
     ticket |-> [q \in Projects |-> IF q \in qs THEN p ELSE None],
     member |-> [q \in Projects |-> [u \in Users |-> "none"]],
     agent |-> [b \in Agents |-> IF b = a THEN [kind |-> "made", by |-> 1] ELSE NoAgent],
     binds |-> {a} \X (qs \cup {p})]
OldBundles ==
    UNION {{OldBundle(a, p, qs) : a \in Agents, qs \in SUBSET (Projects \ {p})} : p \in Projects}

\* init_db has seeded the administrator; what an old bundle lists was deleted since.
RegistryInit ==
    /\ role = [u \in Users |-> IF u = 1 THEN "admin" ELSE "none"] /\ seeded = 1
    /\ bundle \in {None} \cup OldBundles
    /\ type = [p \in Projects |-> IF bundle # None /\ bundle.type[p] # "none" THEN "gone" ELSE "none"]
    /\ ticket = [p \in Projects |-> None]
    /\ model = [p \in Projects |-> None]
    /\ apiAgent = [p \in Projects |-> None]
    /\ member = [p \in Projects |-> [u \in Users |-> "none"]]
    /\ agent = [a \in Agents |-> IF bundle # None THEN [bundle.agent[a] EXCEPT !.kind =
                                   IF @ = "none" THEN "none" ELSE "gone"] ELSE NoAgent]
    /\ binds = {}
    /\ req = [c \in Clients |-> Idle]
    /\ asked = 0 /\ restarts = 0 /\ calm = TRUE /\ sought = {}

-----------------------------------------------------------------------------
(* Requests: what is checked before the first write.                        *)

SeeksName(r, n) == r.op = "knowledgeApi" /\ r.n = n
AskedAtOnce(r) ==
    {n \in Names : SeeksName(r, n) /\ \E d \in Clients : SeeksName(req[d], n) /\ req[d].p # r.p}

Ask(c, r) ==
    /\ req[c] = Idle /\ asked < MaxRequests
    /\ req' = [req EXCEPT ![c] = r]
    /\ asked' = asked + 1
    /\ calm' = (calm /\ \A d \in Clients : req[d] = Idle)
    /\ sought' = sought \cup AskedAtOnce(r)
    /\ UNCHANGED <<rows, bundle, restarts>>

\* Ids of requests under way are random, so they differ.
FreshProject(p) ==
    type[p] = "none" /\ \A d \in Clients : req[d].op = "createProject" => req[d].p # p
FreshAgent(a) ==
    agent[a] = NoAgent
    /\ \A d \in Clients : req[d].op \in {"createAgent", "knowledgeApi"} => req[d].a # a

Register(c) == Ask(c, [op |-> "register"])

AskUser(c) ==
    \E u, t \in Users : IsAdmin(u) /\ IsUser(t) /\ t # u
        /\ \/ \E r \in {"admin", "user"} : Ask(c, [op |-> "setRole", u |-> t, role |-> r])
           \/ Ask(c, [op |-> "deleteUser", u |-> t])

\* A case library may be created for a main project that has none yet.
CreateProject(c) ==
    \E u \in Users, p \in Projects, main \in Projects \cup {None}, lib \in BOOLEAN :
        /\ IsUser(u) /\ FreshProject(p)
        /\ main # None => lib /\ IsOwner(u, main) /\ Live(main) /\ ticket[main] = None
        /\ Ask(c, [op |-> "createProject", p |-> p, u |-> u, main |-> main,
                   type |-> IF lib THEN "case_library" ELSE "knowledge_base"])

UpdateProject(c) ==
    \E u \in Users, p \in Projects, t \in Projects \cup {None} :
        /\ IsOwner(u, p) /\ Live(p)
        /\ t # None => IsMember(u, t) /\ t # p /\ KnowledgeBase(p) /\ type[t] = "case_library"
        /\ Ask(c, [op |-> "updateProject", p |-> p, t |-> t])

DeleteProject(c) ==
    \E u \in Users, p \in Projects :
        IsOwner(u, p) /\ Live(p) /\ Ask(c, [op |-> "deleteProject", p |-> p])

\* Whether the project or the user exists is not asked.
AddMember(c) ==
    \E u, v \in Users, p \in Projects, r \in {"owner", "editor"} :
        IsOwner(u, p) /\ Ask(c, [op |-> "addMember", p |-> p, u |-> v, role |-> r])

\* Mutant of UpdateKnowledgeApi: the name is not looked up.
UpdateKnowledgeApiAnyName(c) ==
    \E u \in Users, p \in Projects, n \in Names \cup {None, Unset}, a \in Agents, on \in BOOLEAN :
        /\ IsOwner(u, p) /\ Live(p)
        /\ on /\ apiAgent[p] = None => FreshAgent(a)
        /\ Ask(c, [op |-> "knowledgeApi", p |-> p, n |-> n, u |-> u,
                   a |-> IF on /\ apiAgent[p] = None THEN a ELSE None])

\* A model name that another project has is refused; enabling the API makes an
\* agent unless the project names one.
UpdateKnowledgeApi(c) ==
    \E u \in Users, p \in Projects, n \in Names \cup {None, Unset}, a \in Agents, on \in BOOLEAN :
        /\ IsOwner(u, p) /\ Live(p)
        /\ \A q \in Projects \ {p} : n \in Names => ~(Live(q) /\ model[q] = n)
        /\ on /\ apiAgent[p] = None => FreshAgent(a)
        /\ Ask(c, [op |-> "knowledgeApi", p |-> p, n |-> n, u |-> u,
                   a |-> IF on /\ apiAgent[p] = None THEN a ELSE None])

\* validate_agent_project_ids
Bindable == {p \in Projects : KnowledgeBase(p)}
CreateAgent(c) ==
    \E u \in Users, a \in Agents, ps \in SUBSET Bindable :
        IsUser(u) /\ FreshAgent(a) /\ Ask(c, [op |-> "createAgent", a |-> a, u |-> u, ps |-> ps])

\* _get_agent_or_404
Manages(u, a) == IsUser(u) /\ AgentExists(a) /\ (agent[a].by = u \/ IsAdmin(u))
UpdateAgent(c) ==
    \E u \in Users, a \in Agents, ps \in SUBSET Bindable :
        Manages(u, a) /\ Ask(c, [op |-> "updateAgent", a |-> a, ps |-> ps])
DeleteAgent(c) ==
    \E u \in Users, a \in Agents : Manages(u, a) /\ Ask(c, [op |-> "deleteAgent", a |-> a])

\* The tables are read one after the other: users and projects here, the rest when
\* the request ends.
ExportConfig(c) ==
    \E u \in Users : IsAdmin(u)
        /\ Ask(c, [op |-> "export", role |-> role, seeded |-> seeded, type |-> type, ticket |-> ticket])
ImportConfig(c) ==
    \E u \in Users : IsAdmin(u) /\ bundle # None /\ Ask(c, [op |-> "import", b |-> bundle])

-----------------------------------------------------------------------------
(* Requests: the commit.                                                    *)

Ended(c) == req' = [req EXCEPT ![c] = Idle] /\ UNCHANGED <<asked, restarts, calm, sought>>
Doing(c, op) == req[c].op = op

\* SQLite gives the largest id plus one.
IsNewId(id) == \A u \in Users : (IsUser(u) => u < id) /\ (u = id - 1 => IsUser(u))

CommitRegister(c) ==
    /\ Doing(c, "register")
    /\ \E id \in Users : IsNewId(id) /\ role' = [role EXCEPT ![id] = "user"]
    /\ Ended(c)
    /\ UNCHANGED <<seeded, type, ticket, model, apiAgent, member, agent, binds, bundle>>

\* An update of a row that is gone fails and rolls back.
CommitRole(c) ==
    /\ Doing(c, "setRole")
    /\ role' = IF IsUser(req[c].u) THEN [role EXCEPT ![req[c].u] = req[c].role] ELSE role
    /\ Ended(c)
    /\ UNCHANGED <<seeded, type, ticket, model, apiAgent, member, agent, binds, bundle>>

CommitDeleteUser(c) ==
    /\ Doing(c, "deleteUser")
    /\ role' = [role EXCEPT ![req[c].u] = "none"]
    /\ seeded' = IF seeded = req[c].u THEN 0 ELSE seeded
    /\ Ended(c)
    /\ UNCHANGED <<type, ticket, model, apiAgent, member, agent, binds, bundle>>

\* The main project's link and the new rows are one transaction.
CommitCreateProject(c) ==
    LET r == req[c] IN
    /\ Doing(c, "createProject")
    /\ IF r.main # None /\ ~Live(r.main) THEN UNCHANGED <<type, member, ticket>>
       ELSE /\ type' = [type EXCEPT ![r.p] = r.type]
            /\ member' = [member EXCEPT ![r.p][r.u] = "owner"]
            /\ ticket' = IF r.main = None THEN ticket ELSE [ticket EXCEPT ![r.main] = r.p]
    /\ Ended(c)
    /\ UNCHANGED <<role, seeded, model, apiAgent, agent, binds, bundle>>

CommitUpdateProject(c) ==
    /\ Doing(c, "updateProject")
    /\ ticket' = IF Live(req[c].p) THEN [ticket EXCEPT ![req[c].p] = req[c].t] ELSE ticket
    /\ Ended(c)
    /\ UNCHANGED <<role, seeded, type, model, apiAgent, member, agent, binds, bundle>>

\* Links to the project are cleared in the transaction that deletes it; members and
\* bindings of agents stay.
CommitDeleteProject(c) ==
    LET p == req[c].p IN
    /\ Doing(c, "deleteProject")
    /\ type' = [type EXCEPT ![p] = "gone"]
    /\ ticket' = [q \in Projects |-> IF q = p \/ ticket[q] = p THEN None ELSE ticket[q]]
    /\ model' = [model EXCEPT ![p] = None] /\ apiAgent' = [apiAgent EXCEPT ![p] = None]
    /\ Ended(c)
    /\ UNCHANGED <<role, seeded, member, agent, binds, bundle>>

CommitAddMember(c) ==
    /\ Doing(c, "addMember")
    /\ member' = [member EXCEPT ![req[c].p][req[c].u] = req[c].role]
    /\ Ended(c)
    /\ UNCHANGED <<role, seeded, type, ticket, model, apiAgent, agent, binds, bundle>>

CommitKnowledgeApi(c) ==
    LET r == req[c] IN
    /\ Doing(c, "knowledgeApi")
    /\ IF ~Live(r.p) THEN UNCHANGED <<model, apiAgent, agent, binds>>
       ELSE /\ model' = IF r.n = Unset THEN model ELSE [model EXCEPT ![r.p] = r.n]
            /\ IF r.a = None THEN UNCHANGED <<apiAgent, agent, binds>>
               ELSE /\ apiAgent' = [apiAgent EXCEPT ![r.p] = r.a]
                    /\ agent' = [agent EXCEPT ![r.a] = [kind |-> "knowledge", by |-> r.u]]
                    /\ binds' = binds \cup {<<r.a, r.p>>}
    /\ Ended(c)
    /\ UNCHANGED <<role, seeded, type, ticket, member, bundle>>

CommitAgent(c) ==
    LET r == req[c] IN
    /\ req[c].op \in {"createAgent", "updateAgent"}
    /\ agent' = IF r.op = "createAgent"
                THEN [agent EXCEPT ![r.a] = [kind |-> "made", by |-> r.u]] ELSE agent
    /\ binds' = {b \in binds : b[1] # r.a} \cup ({r.a} \X r.ps)
    /\ Ended(c)
    /\ UNCHANGED <<role, seeded, type, ticket, model, apiAgent, member, bundle>>

CommitDeleteAgent(c) ==
    /\ Doing(c, "deleteAgent")
    /\ agent' = [agent EXCEPT ![req[c].a].kind = "gone"]
    /\ Ended(c)
    /\ UNCHANGED <<role, seeded, type, ticket, model, apiAgent, member, binds, bundle>>

EndExport(c) ==
    /\ Doing(c, "export")
    /\ bundle' = [role |-> req[c].role, seeded |-> req[c].seeded, type |-> req[c].type,
                  ticket |-> req[c].ticket, member |-> member, agent |-> agent, binds |-> binds]
    /\ Ended(c)
    /\ UNCHANGED rows

\* The projects of a bundle.
Listed(b) == {p \in Projects : b.type[p] \in {"knowledge_base", "case_library"}}
\* Mutant of ImportRows: rows that the bundle does not list stay.
ImportRowsOver(b) ==
    /\ role' = b.role /\ seeded' = b.seeded
    /\ type' = [p \in Projects |-> IF p \in Listed(b) THEN b.type[p] ELSE type[p]]
    /\ ticket' = [p \in Projects |-> IF p \in Listed(b) THEN b.ticket[p] ELSE ticket[p]]
    /\ model' = [p \in Projects |-> None] /\ apiAgent' = [p \in Projects |-> None]
    /\ member' = b.member
    /\ agent' = [a \in Agents |-> IF b.agent[a].kind \in {"made", "knowledge"} THEN b.agent[a] ELSE agent[a]]

ImportRows(b) ==
    /\ role' = b.role /\ seeded' = b.seeded
    /\ type' = [p \in Projects |-> IF p \in Listed(b) THEN b.type[p]
                                   ELSE IF Live(p) THEN "gone" ELSE type[p]]
    /\ ticket' = [p \in Projects |-> IF p \in Listed(b) THEN b.ticket[p] ELSE None]
    /\ model' = [p \in Projects |-> None] /\ apiAgent' = [p \in Projects |-> None]
    /\ member' = b.member
    /\ agent' = [a \in Agents |-> IF b.agent[a].kind \in {"made", "knowledge"} THEN b.agent[a]
                                  ELSE IF AgentExists(a) THEN [agent[a] EXCEPT !.kind = "gone"]
                                  ELSE agent[a]]

\* Mutant of CommitImport: bindings to case libraries are restored too.
CommitImportUnfiltered(c) ==
    LET b == req[c].b IN
    /\ Doing(c, "import")
    /\ ImportRows(b)
    /\ binds' = b.binds
    /\ Ended(c)
    /\ UNCHANGED bundle

\* Every table is emptied and filled from the bundle in one transaction; names and
\* agents of the knowledge API are not in it.
CommitImport(c) ==
    LET b == req[c].b IN
    /\ Doing(c, "import")
    /\ ImportRows(b)
    /\ binds' = {x \in b.binds : b.type[x[2]] # "case_library"}
    /\ Ended(c)
    /\ UNCHANGED bundle

Commit(c) ==
    \/ CommitRegister(c) \/ CommitRole(c) \/ CommitDeleteUser(c)
    \/ CommitCreateProject(c) \/ CommitUpdateProject(c) \/ CommitDeleteProject(c)
    \/ CommitAddMember(c) \/ CommitKnowledgeApi(c)
    \/ CommitAgent(c) \/ CommitDeleteAgent(c) \/ EndExport(c) \/ CommitImport(c)

\* _seed_admin at every start; requests under way are lost with the process.
Restart ==
    /\ restarts < MaxRestarts
    /\ restarts' = restarts + 1
    /\ \E id \in Users :
          /\ IF seeded = 0 THEN IsNewId(id) ELSE id = seeded
          /\ seeded' = id /\ role' = [role EXCEPT ![id] = "admin"]
    /\ req' = [c \in Clients |-> Idle]
    /\ UNCHANGED <<type, ticket, model, apiAgent, member, agent, binds, bundle, asked, calm, sought>>

Request(c) ==
    \/ Register(c) \/ AskUser(c) \/ CreateProject(c) \/ UpdateProject(c) \/ DeleteProject(c)
    \/ AddMember(c) \/ UpdateKnowledgeApi(c) \/ CreateAgent(c) \/ UpdateAgent(c)
    \/ DeleteAgent(c) \/ ExportConfig(c) \/ ImportConfig(c)

RegistryNext == Restart \/ \E c \in Clients : Request(c) \/ Commit(c)

RegistrySpec == RegistryInit /\ [][RegistryNext]_registryVars

-----------------------------------------------------------------------------
(* Properties.                                                              *)

Roles == {"none", "owner", "editor"}
UserRoles == [Users -> {"none", "user", "admin"}]
Types == [Projects -> {"none", "knowledge_base", "case_library", "gone"}]
Tickets == [Projects -> Projects \cup {None}]
Members == [Projects -> [Users -> Roles]]
AgentRows == [Agents -> [kind : {"none", "made", "knowledge", "gone"}, by : 0..MaxUser]]
Bundles == [role : UserRoles, seeded : 0..MaxUser, type : Types, ticket : Tickets,
            member : Members, agent : AgentRows, binds : SUBSET (Agents \X Projects)]
Calls ==
    {Idle} \cup [op : {"register"}] \cup [op : {"setRole"}, u : Users, role : {"admin", "user"}]
    \cup [op : {"deleteUser"}, u : Users]
    \cup [op : {"createProject"}, p : Projects, u : Users, main : Projects \cup {None},
          type : {"knowledge_base", "case_library"}]
    \cup [op : {"updateProject"}, p : Projects, t : Projects \cup {None}] \cup [op : {"deleteProject"}, p : Projects]
    \cup [op : {"addMember"}, p : Projects, u : Users, role : Roles]
    \cup [op : {"knowledgeApi"}, p : Projects, n : Names \cup {None, Unset}, u : Users, a : Agents \cup {None}]
    \cup [op : {"createAgent"}, a : Agents, u : Users, ps : SUBSET Projects]
    \cup [op : {"updateAgent"}, a : Agents, ps : SUBSET Projects] \cup [op : {"deleteAgent"}, a : Agents]
    \cup [op : {"export"}, role : UserRoles, seeded : 0..MaxUser, type : Types, ticket : Tickets]
    \cup [op : {"import"}, b : Bundles]
RegistryTypeOK ==
    /\ role \in UserRoles /\ seeded \in 0..MaxUser
    /\ seeded # 0 => IsUser(seeded)
    /\ type \in Types /\ ticket \in Tickets
    /\ model \in [Projects -> Names \cup {None}] /\ apiAgent \in [Projects -> Agents \cup {None}]
    /\ member \in Members /\ agent \in AgentRows
    /\ binds \subseteq Agents \X Projects
    /\ bundle \in {None} \cup Bundles /\ req \in [Clients -> Calls]
    /\ asked \in 0..MaxRequests /\ restarts \in 0..MaxRestarts
    /\ calm \in BOOLEAN /\ sought \subseteq Names

\* Administrators may demote and delete each other but never themselves
\* (admin/router.py:734, 755): as long as requests do not overlap one is left, also
\* after a backup was restored.
AdminRemains == calm => \E u \in Users : IsAdmin(u)

\* A link to a ticket project is to a case library that exists
\* (projects/service.py:214-225, 276-280), through deletions and restored backups,
\* as long as requests do not overlap.
TicketsAreLibraries ==
    calm => \A p \in Projects : Live(p) /\ ticket[p] # None => type[ticket[p]] = "case_library"

\* The OpenAI-compatible API finds a project by its model name and fails when two
\* have it (openai_compat/router.py:145).  The name is looked up before the commit
\* (knowledge_router.py:100-110): whatever else overlaps, deletions and restored
\* backups included, two projects have one name only when both asked for it at once.
ModelNamesApart ==
    \A p, q \in Projects :
        Live(p) /\ Live(q) /\ p # q /\ model[p] \in Names \ sought => model[p] # model[q]

\* Agents read knowledge bases only (agents/service.py:43-66): whatever overlaps and
\* whichever backup is restored, the one binding to a case library there can be is
\* that of the agent its own knowledge API made.
LibrariesUnbound ==
    \A x \in binds : type[x[2]] = "case_library" => agent[x[1]].kind # "made"

\* Restoring a backup replaces users, projects, links, members and agents by the
\* backup's: nothing that it does not list survives (admin/router.py:208-314).
Backup == [role |-> role, ticket |-> [p \in Projects |-> IF Live(p) THEN ticket[p] ELSE None],
           live |-> {<<p, type[p]>> : p \in {q \in Projects : Live(q)}},
           member |-> member, agents |-> {a \in Agents : AgentExists(a)}]
BackupOf(b) == [role |-> b.role, ticket |-> [p \in Projects |-> IF p \in Listed(b) THEN b.ticket[p] ELSE None],
                live |-> {<<p, b.type[p]>> : p \in Listed(b)},
                member |-> b.member, agents |-> {a \in Agents : b.agent[a].kind \in {"made", "knowledge"}}]
RestoreIsExact ==
    [][\A c \in Clients : Doing(c, "import") /\ req'[c] = Idle /\ restarts' = restarts =>
          Backup' = BackupOf(req[c].b)]_registryVars

-----------------------------------------------------------------------------
(* The inductive invariant.                                                 *)

OneByOne == calm => \A c, d \in Clients : req[c] # Idle /\ req[d] # Idle => c = d

TicketsFit(t, k) ==
    \A p \in Projects : t[p] \in {"knowledge_base", "case_library"} /\ k[p] # None => t[k[p]] = "case_library"
\* Tables that were read together, now or for a backup.
UsersFit(r, s) == (\E u \in Users : r[u] = "admin") /\ (s # 0 => r[s] # "none")
ProjectsFit(t, k) ==
    /\ calm => TicketsFit(t, k)
    /\ \A p \in Projects : type[p] = "none" => t[p] = "none"
BundleFits(b) ==
    /\ UsersFit(b.role, b.seeded) /\ ProjectsFit(b.type, b.ticket)
    /\ \A x \in b.binds : type[x[2]] # "none"

\* What a request has read and will write, whatever is committed in between.
RequestFits(r) ==
    /\ r.op = "createProject" /\ r.main # None => r.type = "case_library"
    /\ r.op \in {"createAgent", "updateAgent"} => \A p \in r.ps : type[p] # "none"
    /\ r.op = "export" => UsersFit(r.role, r.seeded) /\ ProjectsFit(r.type, r.ticket)
    /\ r.op = "import" => BundleFits(r.b)
\* What a lone request has checked still holds when it writes.
StillHolds(r) ==
    /\ r.op \in {"setRole", "deleteUser"} => \E u \in Users : u # r.u /\ IsAdmin(u)
    /\ r.op = "createProject" => type[r.p] = "none"
    /\ r.op = "updateProject" /\ r.t # None => type[r.t] = "case_library"
RequestsFit ==
    /\ bundle # None => BundleFits(bundle)
    /\ \A c \in Clients : RequestFits(req[c]) /\ (calm => StillHolds(req[c]))

\* Nothing is known of a project before its row.
Unmentioned ==
    /\ \A p \in Projects : type[p] = "none" => ticket[p] = None /\ model[p] = None
    /\ \A x \in binds : type[x[2]] # "none"

\* A project is of one kind from its creation on, in every table, request and backup, and
\* what a user's agent is bound to, by a request or in the tables, is a knowledge base.
BundleKinds(b, kind) ==
    /\ \A p \in Listed(b) : b.type[p] = kind[p]
    /\ \A x \in b.binds : b.agent[x[1]].kind = "made" /\ b.type[x[2]] # "case_library" => kind[x[2]] = "knowledge_base"
RequestKinds(r, kind) ==
    /\ r.op = "createProject" => r.type = kind[r.p]
    /\ r.op = "export" => \A p \in Projects : r.type[p] \in {"none", "gone", kind[p]}
    /\ r.op \in {"createAgent", "updateAgent"} => \A p \in r.ps : kind[p] = "knowledge_base"
    /\ r.op = "import" => BundleKinds(r.b, kind)
RowKinds(kind) ==
    /\ \A p \in Projects : type[p] \in {"none", "gone", kind[p]}
    /\ \A x \in binds : agent[x[1]].kind = "made" => kind[x[2]] = "knowledge_base"
OfOneKind ==
    \E kind \in [Projects -> {"knowledge_base", "case_library"}] :
        /\ RowKinds(kind) /\ (bundle # None => BundleKinds(bundle, kind))
        /\ \A c \in Clients : RequestKinds(req[c], kind)

\* Administrators, ticket projects and bindings as stated above
\* (admin/router.py:734, projects/service.py:57-66), inductively.
RegistryInv ==
    /\ RegistryTypeOK /\ OneByOne /\ AdminRemains /\ TicketsAreLibraries /\ LibrariesUnbound
    /\ RequestsFit /\ Unmentioned /\ OfOneKind

\* ModelNamesApart, inductively: what the lookup found holds until the commit, and a
\* project that is not there has no name.
NameStillFree(r) ==
    \A n \in Names \ sought : SeeksName(r, n) => \A q \in Projects \ {r.p} : ~(Live(q) /\ model[q] = n)
NamesInv ==
    /\ ModelNamesApart
    /\ \A p \in Projects : ~Live(p) => model[p] = None
    /\ \A c \in Clients : NameStillFree(req[c])
    /\ \A c, d \in Clients, n \in Names :
          SeeksName(req[c], n) /\ SeeksName(req[d], n) /\ req[c].p # req[d].p => n \in sought
=============================================================================
