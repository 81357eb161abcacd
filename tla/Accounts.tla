------------------------------ MODULE Accounts ------------------------------
(***************************************************************************)
(* The administrator's desk (UsersAdmin and BranchesAdmin, UsersService    *)
(* and BranchesService), which keeps two stores in step without a          *)
(* transaction: the users table and the Cognito user pool.  Each operation *)
(* is a chain of calls that may fail half way and then compensates.        *)
(* Against it run signed-in clients, whose requests JwtAuthGuard resolves  *)
(* to a row of the users table and serves with the policies of Access.     *)
(***************************************************************************)
EXTENDS Access

CONSTANTS Email,        \* the e-mail addresses in play
          Desk,         \* administrators' requests that may be under way at once
          Session,      \* clients' requests that may be under way at once
          Bodies,       \* the update bodies administrators send
          Fault,        \* kinds of failure that may happen
          MaxFaults,    \* bound: failures in a behaviour
          MaxSerial,    \* bound: ids and identities ever issued
          MaxRows       \* bound: import and export rows together

ASSUME SerialAssumption ==
    /\ MaxSerial \in Nat \ {0} /\ Account = 1 .. MaxSerial
    /\ MaxFaults \in Nat

VARIABLES users,     \* the users table by e-mail, a User or NoUser
          pool,      \* the Cognito pool by e-mail, an Identity or NoIdentity
          branches,  \* the branches table: a status or Gone
          desk,      \* the administrators' requests
          session,   \* the clients' requests
          tokens,    \* the id tokens issued so far
          imports,   \* the import_jobs rows
          exports,   \* the export_jobs rows
          serial,    \* the last id or identity issued
          faults,    \* failures so far
          damaged    \* e-mails on which a failure went uncompensated

vars == <<users, pool, branches, desk, session, tokens, imports, exports,
          serial, faults, damaged>>

Status == {"ACTIVE", "INACTIVE"}
Gone == "GONE"
NoUser == [id |-> 0]
NoIdentity == [sub |-> 0]
Unlinked == 0         \* no cognito_sub, or one that starts with "mock-"
Keep == "keep"        \* a field the body leaves out

User == [id : Account, role : Role, branch : Branch \cup {Null}, status : Status,
         sub : Account \cup {Unlinked}]
Identity == [sub : Account, enabled : BOOLEAN]
Body == [role : Role \cup {Keep}, branch : Branch \cup {Null, Keep}, status : Status \cup {Keep}]
Token == [email : Email, sub : Account]

ASSUME BodiesAssumption == Bodies \subseteq Body

IdleDesk == [pc |-> "idle"]
CreateJob == [pc : {"identity", "row", "undo"}, op : {"create"}, email : Email, role : Role,
              branch : Branch \cup {Null}, sub : Account \cup {Unlinked}]
UpdateJob == [pc : {"identity", "row", "undo"}, op : {"update"}, email : Email, body : Body,
              seen : User]
DeleteJob == [pc : {"identity", "row"}, op : {"delete"}, email : Email, seen : User]

IdleSession == [pc |-> "idle"]
Unmatched == [pc : {"unmatched"}, token : Token]
Linking == [pc : {"linking"}, token : Token, seen : Account]
Serving == [pc : {"serving"}, token : Token, actor : Actor]

Exists(e) == users[e] # NoUser
HasIdentity(e) == pool[e] # NoIdentity
InBranch(role) == role \in BranchRoles
BranchFits(role, b) == InBranch(role) => b # Null /\ branches[b] # Gone

\* RESTRICT keys: rows of these tables keep their branch from being deleted.
Referenced(b) == \E r \in imports : r.branch = b

TypeOK ==
    /\ users \in [Email -> User \cup {NoUser}]
    /\ pool \in [Email -> Identity \cup {NoIdentity}]
    /\ branches \in [Branch -> Status \cup {Gone}]
    /\ desk \in [Desk -> {IdleDesk} \cup CreateJob \cup UpdateJob \cup DeleteJob]
    /\ session \in [Session -> {IdleSession} \cup Unmatched \cup Linking \cup Serving]
    /\ tokens \subseteq Token
    /\ imports \subseteq Import /\ exports \subseteq Export
    /\ serial \in 0 .. MaxSerial /\ faults \in 0 .. MaxFaults
    /\ damaged \subseteq Email

(* The seed: some e-mails have a row, each with an identity in the pool; the
   row may not be linked to the identity yet. *)
Init ==
    \E seeded \in Email, role \in Role, home \in Branch, linked \in BOOLEAN :
        /\ users = [e \in Email |->
                        IF e # seeded THEN NoUser
                        ELSE [id |-> 1, role |-> role, status |-> "ACTIVE",
                              branch |-> IF InBranch(role) THEN home ELSE Null,
                              sub |-> IF linked THEN 1 ELSE Unlinked]]
        /\ pool = [e \in Email |-> IF e # seeded THEN NoIdentity
                                   ELSE [sub |-> 1, enabled |-> TRUE]]
        /\ branches = [b \in Branch |-> "ACTIVE"]
        /\ desk = [d \in Desk |-> IdleDesk]
        /\ session = [s \in Session |-> IdleSession]
        /\ tokens = {} /\ imports = {} /\ exports = {}
        /\ serial = 1 /\ faults = 0 /\ damaged = {}

Fails(kind) == kind \in Fault /\ faults < MaxFaults /\ faults' = faults + 1
Sound == UNCHANGED <<faults, damaged>>

Finish(d) == desk' = [desk EXCEPT ![d] = IdleDesk]
Goto(d, pc) == desk' = [desk EXCEPT ![d].pc = pc]

-----------------------------------------------------------------------------
(* UsersService.create *)

CreateReads(d, e, role, b) ==
    /\ desk[d].pc = "idle" /\ ~Exists(e) /\ BranchFits(role, b)
    /\ desk' = [desk EXCEPT ![d] = [pc |-> "identity", op |-> "create", email |-> e,
                    role |-> role, branch |-> IF InBranch(role) THEN b ELSE Null,
                    sub |-> Unlinked]]
    /\ UNCHANGED <<users, pool, branches, session, tokens, imports, exports, serial>> /\ Sound

\* Cognito refuses an e-mail that has an identity, and may refuse or lose any
\* call without effect: the request ends, and so in update and delete.
CreateIdentity(d) ==
    /\ desk[d].pc = "identity" /\ desk[d].op = "create" /\ serial < MaxSerial
    /\ LET e == desk[d].email
       IN  \/ /\ ~HasIdentity(e)
              /\ serial' = serial + 1
              /\ pool' = [pool EXCEPT ![e] = [sub |-> serial', enabled |-> TRUE]]
              /\ \/ desk' = [desk EXCEPT ![d].pc = "row", ![d].sub = serial']
                    /\ Sound
                 \/ Fails("answer") /\ damaged' = damaged \cup {e} /\ Finish(d)
           \/ Finish(d) /\ Sound /\ UNCHANGED <<pool, serial>>
    /\ UNCHANGED <<users, branches, session, tokens, imports, exports>>

CreateRow(d) ==
    /\ desk[d].pc = "row" /\ desk[d].op = "create"
    /\ LET j == desk[d]
           fits == ~Exists(j.email) /\ (j.branch # Null => branches[j.branch] # Gone)
       IN  \/ /\ fits /\ Finish(d) /\ Sound
              /\ users' = [users EXCEPT ![j.email] =
                     [id |-> j.sub, role |-> j.role, branch |-> j.branch,
                      status |-> "ACTIVE", sub |-> j.sub]]
           \/ ~fits /\ Goto(d, "undo") /\ Sound /\ UNCHANGED users
           \/ Fails("database") /\ Goto(d, "undo") /\ UNCHANGED <<users, damaged>>
    /\ UNCHANGED <<pool, branches, session, tokens, imports, exports, serial>>

-----------------------------------------------------------------------------
(* UsersService.update *)

FinalRole(body, u) == IF body.role = Keep THEN u.role ELSE body.role
FinalBranch(body, u) == IF body.branch = Keep THEN u.branch ELSE body.branch
StatusChanges(body, u) == body.status # Keep /\ body.status # u.status

\* Mutation: the role is looked up in the body alone.
WrittenBranchByBody(j) ==
    IF InBranch(j.body.role) THEN FinalBranch(j.body, j.seen) ELSE Null

\* The branch an update writes, by the row it read at first.
WrittenBranch(j) ==
    IF InBranch(FinalRole(j.body, j.seen)) THEN FinalBranch(j.body, j.seen) ELSE Null

UpdateReads(d, e, body) ==
    /\ desk[d].pc = "idle" /\ Exists(e)
    /\ BranchFits(FinalRole(body, users[e]), FinalBranch(body, users[e]))
    /\ desk' = [desk EXCEPT ![d] =
           [pc |-> IF StatusChanges(body, users[e]) THEN "identity" ELSE "row",
            op |-> "update", email |-> e, body |-> body, seen |-> users[e]]]
    /\ UNCHANGED <<users, pool, branches, session, tokens, imports, exports, serial>> /\ Sound

UpdateIdentity(d) ==
    /\ desk[d].pc = "identity" /\ desk[d].op = "update"
    /\ LET e == desk[d].email
       IN  \/ /\ HasIdentity(e)
              /\ pool' = [pool EXCEPT ![e].enabled = (desk[d].body.status = "ACTIVE")]
              /\ \/ Goto(d, "row") /\ Sound
                 \/ Fails("answer") /\ damaged' = damaged \cup {e} /\ Finish(d)
           \/ Finish(d) /\ Sound /\ UNCHANGED pool
    /\ UNCHANGED <<users, branches, session, tokens, imports, exports, serial>>

UpdateRow(d) ==
    /\ desk[d].pc = "row" /\ desk[d].op = "update"
    /\ LET j == desk[d]
           u == users[j.email]
           branch == WrittenBranch(j)
           fits == u.id = j.seen.id /\ (branch # Null => branches[branch] # Gone)
           undoes == StatusChanges(j.body, j.seen)
           Compensate == IF undoes THEN Goto(d, "undo") ELSE Finish(d)
       IN  \/ /\ fits /\ Finish(d) /\ Sound
              /\ users' = [users EXCEPT ![j.email] =
                     [u EXCEPT !.role = FinalRole(j.body, u), !.branch = branch,
                               !.status = IF j.body.status = Keep THEN @ ELSE j.body.status]]
           \/ ~fits /\ Compensate /\ Sound /\ UNCHANGED users
           \/ Fails("database") /\ Compensate /\ UNCHANGED <<users, damaged>>
    /\ UNCHANGED <<pool, branches, session, tokens, imports, exports, serial>>

\* Mutation: the compensation of create leaves the new identity in the pool.
UndoUpdatesOnly(d) ==
    /\ desk[d].pc = "undo" /\ Finish(d)
    /\ LET j == desk[d]
       IN  IF j.op = "update" /\ HasIdentity(j.email)
           THEN pool' = [pool EXCEPT ![j.email].enabled = (j.seen.status # "INACTIVE")]
           ELSE UNCHANGED pool
    /\ UNCHANGED <<users, branches, session, tokens, imports, exports, serial>> /\ Sound

(* The catch blocks of create and update: take the identity's change back. *)
Undo(d) ==
    /\ desk[d].pc = "undo" /\ Finish(d)
    /\ LET j == desk[d]
           undone == IF j.op = "create" THEN NoIdentity
                     ELSE [pool[j.email] EXCEPT !.enabled = (j.seen.status # "INACTIVE")]
       IN  \/ HasIdentity(j.email) /\ pool' = [pool EXCEPT ![j.email] = undone] /\ Sound
           \/ ~HasIdentity(j.email) /\ UNCHANGED pool /\ Sound
           \/ Fails("compensation") /\ damaged' = damaged \cup {j.email} /\ UNCHANGED pool
    /\ UNCHANGED <<users, branches, session, tokens, imports, exports, serial>>

-----------------------------------------------------------------------------
(* UsersService.delete *)

DeleteReads(d, e) ==
    /\ desk[d].pc = "idle" /\ Exists(e)
    /\ desk' = [desk EXCEPT ![d] = [pc |-> "identity", op |-> "delete", email |-> e,
                                    seen |-> users[e]]]
    /\ UNCHANGED <<users, pool, branches, session, tokens, imports, exports, serial>> /\ Sound

DeleteIdentity(d) ==
    /\ desk[d].pc = "identity" /\ desk[d].op = "delete"
    /\ LET e == desk[d].email
       IN  \/ /\ HasIdentity(e)
              /\ pool' = [pool EXCEPT ![e] = NoIdentity]
              /\ \/ Goto(d, "row") /\ Sound
                 \/ Fails("answer") /\ damaged' = damaged \cup {e} /\ Finish(d)
           \/ Finish(d) /\ Sound /\ UNCHANGED pool
    /\ UNCHANGED <<users, branches, session, tokens, imports, exports, serial>>

(* import_jobs.created_by is ON DELETE SET NULL and notifications cascade, so
   the row goes whatever history it has. *)
DeleteRow(d) ==
    /\ desk[d].pc = "row" /\ desk[d].op = "delete" /\ Finish(d)
    /\ LET j == desk[d]
           known == users[j.email].id = j.seen.id
       IN  \/ /\ known /\ Sound
              /\ users' = [users EXCEPT ![j.email] = NoUser]
              /\ imports' = {[r EXCEPT !.by = IF @ = j.seen.id THEN Null ELSE @] : r \in imports}
           \/ ~known /\ Sound /\ UNCHANGED <<users, imports>>
           \/ Fails("database") /\ damaged' = damaged \cup {j.email} /\ UNCHANGED <<users, imports>>
    /\ UNCHANGED <<pool, branches, session, tokens, exports, serial>>

(* The function serving the request is lost between two calls. *)
DeskDies(d) ==
    /\ desk[d].pc # "idle" /\ Finish(d)
    /\ Fails("crash") /\ damaged' = damaged \cup {desk[d].email}
    /\ UNCHANGED <<users, pool, branches, session, tokens, imports, exports, serial>>

-----------------------------------------------------------------------------
(* BranchesService *)

BranchCreate(b) ==
    /\ branches[b] = Gone
    /\ branches' = [branches EXCEPT ![b] = "ACTIVE"]
    /\ UNCHANGED <<users, pool, desk, session, tokens, imports, exports, serial>> /\ Sound

BranchUpdate(b, status) ==
    /\ branches[b] \in Status \ {status}
    /\ branches' = [branches EXCEPT ![b] = status]
    /\ UNCHANGED <<users, pool, desk, session, tokens, imports, exports, serial>> /\ Sound

(* users.branch_id is ON DELETE SET NULL; a RESTRICT key makes the catch
   block deactivate the branch instead. *)
BranchDelete(b) ==
    /\ branches[b] # Gone
    /\ \/ /\ ~Referenced(b)
          /\ branches' = [branches EXCEPT ![b] = Gone]
          /\ users' = [e \in Email |->
                 IF Exists(e) /\ users[e].branch = b THEN [users[e] EXCEPT !.branch = Null]
                 ELSE users[e]]
       \/ /\ Referenced(b)
          /\ branches' = [branches EXCEPT ![b] = "INACTIVE"]
          /\ UNCHANGED users
    /\ UNCHANGED <<pool, desk, session, tokens, imports, exports, serial>> /\ Sound

-----------------------------------------------------------------------------
(* Clients. *)

\* loginWithCognito: the pool signs in an enabled identity.
SignIn(e) ==
    /\ HasIdentity(e) /\ pool[e].enabled
    /\ tokens' = tokens \cup {[email |-> e, sub |-> pool[e].sub]}
    /\ UNCHANGED <<users, pool, branches, desk, session, imports, exports, serial>> /\ Sound

ActorOf(u) == [id |-> u.id, role |-> u.role, branch |-> u.branch]

\* Mutation: any row of the token's e-mail is linked to its identity.
LinkableByEmail(u) == u # NoUser

Linkable(u) == u # NoUser /\ u.sub = Unlinked

Admit(s, t, u) ==
    session' = [session EXCEPT ![s] = [pc |-> "serving", token |-> t, actor |-> ActorOf(u)]]

(* JwtAuthGuard.canActivate up to the update: the row the token's sub is
   linked to, else the unlinked row of its e-mail, which is read after it.  A
   refused request leaves no trace. *)
GuardReads(s, t) ==
    /\ session[s].pc = "idle"
    /\ \/ \E e \in Email : /\ Exists(e) /\ users[e].sub = t.sub
                           /\ users[e].status = "ACTIVE"
                           /\ Admit(s, t, users[e])
       \/ /\ \A e \in Email : Exists(e) => users[e].sub # t.sub
          /\ session' = [session EXCEPT ![s] = [pc |-> "unmatched", token |-> t]]
    /\ UNCHANGED <<users, pool, branches, desk, tokens, imports, exports, serial>> /\ Sound

GuardMatches(s) ==
    /\ session[s].pc = "unmatched"
    /\ LET t == session[s].token
       IN  session' = [session EXCEPT ![s] =
               IF Linkable(users[t.email])
               THEN [pc |-> "linking", token |-> t, seen |-> users[t.email].id]
               ELSE IdleSession]
    /\ UNCHANGED <<users, pool, branches, desk, tokens, imports, exports, serial>> /\ Sound

\* Mutation: the row just linked is served without a look at its status.
GuardLinksUnchecked(s) ==
    /\ session[s].pc = "linking"
    /\ LET t == session[s].token
           linked == [users[t.email] EXCEPT !.sub = t.sub]
       IN  /\ users[t.email].id = session[s].seen
           /\ users' = [users EXCEPT ![t.email] = linked]
           /\ Admit(s, t, linked)
    /\ UNCHANGED <<pool, branches, desk, tokens, imports, exports, serial>> /\ Sound

GuardLinks(s) ==
    /\ session[s].pc = "linking"
    /\ LET t == session[s].token
           known == users[t.email].id = session[s].seen
           linked == [users[t.email] EXCEPT !.sub = t.sub]
       IN  \/ /\ known
              /\ users' = [users EXCEPT ![t.email] = linked]
              /\ IF linked.status = "ACTIVE" THEN Admit(s, t, linked)
                 ELSE session' = [session EXCEPT ![s] = IdleSession]
           \/ ~known /\ session' = [session EXCEPT ![s] = IdleSession] /\ UNCHANGED users
    /\ UNCHANGED <<pool, branches, desk, tokens, imports, exports, serial>> /\ Sound

Serve(s) == session[s].pc = "serving" /\ session' = [session EXCEPT ![s] = IdleSession]

CreateImport(s, b) ==
    LET a == session[s].actor
    IN  /\ Serve(s)
        /\ CanWriteImport(a, b) /\ branches[b] # Gone
        /\ \E e \in Email : users[e].id = a.id
        /\ Cardinality(imports) + Cardinality(exports) < MaxRows
        /\ imports' = imports \cup {[branch |-> b, by |-> a.id]}
        /\ UNCHANGED <<users, pool, branches, desk, tokens, exports, serial>> /\ Sound

CreateExport(s, q) ==
    /\ Serve(s)
    /\ Cardinality(imports) + Cardinality(exports) < MaxRows
    /\ exports' = exports \cup NewExport(session[s].actor, q)
    /\ UNCHANGED <<users, pool, branches, desk, tokens, imports, serial>> /\ Sound

\* A read, or a request the policies refuse.
Answer(s) ==
    Serve(s) /\ UNCHANGED <<users, pool, branches, desk, tokens, imports, exports, serial>> /\ Sound

-----------------------------------------------------------------------------
DeskStep(d) ==
    \/ \E e \in Email, role \in Role, b \in Branch : CreateReads(d, e, role, b)
    \/ \E e \in Email, body \in Bodies : UpdateReads(d, e, body)
    \/ \E e \in Email : DeleteReads(d, e)
    \/ CreateIdentity(d) \/ CreateRow(d)
    \/ UpdateIdentity(d) \/ UpdateRow(d)
    \/ DeleteIdentity(d) \/ DeleteRow(d)
    \/ Undo(d) \/ DeskDies(d)

SessionStep(s) ==
    \/ \E t \in tokens : GuardReads(s, t)
    \/ GuardMatches(s) \/ GuardLinks(s)
    \/ \E b \in Branch : CreateImport(s, b)
    \/ \E q \in Branch \cup {Null} : CreateExport(s, q)
    \/ Answer(s)

Next ==
    \/ \E d \in Desk : DeskStep(d)
    \/ \E s \in Session : SessionStep(s)
    \/ \E e \in Email : SignIn(e)
    \/ \E b \in Branch : BranchCreate(b) \/ BranchDelete(b)
    \/ \E b \in Branch, status \in Status : BranchUpdate(b, status)

Spec == Init /\ [][Next]_vars

-----------------------------------------------------------------------------
(* Properties *)

Working(e) == \E d \in Desk : desk[d].pc # "idle" /\ desk[d].email = e

(* The users table and the identity pool tell the same story about every
   e-mail nobody is working on and no uncompensated failure has hit: a row
   iff an identity, the identity enabled iff the row is ACTIVE, and the row
   linked to that identity or to none.  The catch blocks of create and update
   and the order of delete are what keeps it. *)
StoresAgree ==
    \A e \in Email \ damaged : ~Working(e) =>
        /\ Exists(e) = HasIdentity(e)
        /\ Exists(e) => /\ pool[e].enabled = (users[e].status = "ACTIVE")
                        /\ users[e].sub \in {Unlinked, pool[e].sub}

(* An account that is linked to an identity is never linked to another: the
   guard writes the link it decided on from an earlier read. *)
LinkedOnce ==
    [][\A e \in Email :
          users[e] # NoUser /\ users'[e] # NoUser /\ users'[e].id = users[e].id
             /\ users[e].sub # Unlinked
          => users'[e].sub = users[e].sub]_vars

(* A request is served only as an account that is ACTIVE at that moment and
   linked to the identity the token was issued for, under the token's own
   e-mail: tokens outlive deactivation, deletion and re-creation. *)
AdmittedIsCurrent ==
    [][\A s \in Session :
          session'[s].pc = "serving" /\ session[s].pc # "serving" =>
             LET t == session'[s].token
                 u == users'[t.email]
             IN  /\ u # NoUser /\ u.status = "ACTIVE" /\ u.sub = t.sub
                 /\ session'[s].actor = ActorOf(u)]_vars

Stranded(e) == Exists(e) /\ users[e].role \in BranchRoles /\ users[e].branch = Null

(* Staff are left without a branch by its deletion and in no other way,
   although an update writes the branch it made up from a row it read before a
   call to Cognito, and the branch it checked may be gone by then. *)
StrandedByDeletion ==
    [][\A e \in Email :
          Stranded(e)' /\ ~Stranded(e) =>
             /\ Exists(e) /\ users[e].branch # Null
             /\ branches[users[e].branch] # Gone /\ branches'[users[e].branch] = Gone]_vars

=============================================================================
