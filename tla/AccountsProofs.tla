--------------------------- MODULE AccountsProofs ---------------------------
(***************************************************************************)
(* Theorems about Accounts, for any e-mails, branches, administrators'     *)
(* requests and clients at once, and any failures (StoresAgreeAlways: for  *)
(* one request of the administrators at a time), and about the decisions   *)
(* of Access, for any branches, accounts and tables.                       *)
(***************************************************************************)
EXTENDS Accounts, TLAPS

USE NullAssumption, SerialAssumption, BodiesAssumption

\* A request of create that is about to insert has an identity to link, one
\* issued after the seed's.
Numbered ==
    /\ serial >= 1
    /\ \A d \in Desk : desk[d].pc = "row" /\ desk[d].op = "create" => desk[d].sub >= 2

Typed == TypeOK /\ Numbered

LEMMA DeskType ==
  ASSUME TypeOK, NEW d \in Desk, desk[d].pc # "idle"
  PROVE  /\ desk[d] \in CreateJob \cup UpdateJob \cup DeleteJob
         /\ desk[d].email \in Email
         /\ desk[d].op = "create" => desk[d] \in CreateJob
         /\ desk[d].op = "update" => desk[d] \in UpdateJob
         /\ desk[d].op = "delete" => desk[d] \in DeleteJob
BY DEF TypeOK, IdleDesk, CreateJob, UpdateJob, DeleteJob

LEMMA SessionType ==
  ASSUME TypeOK, NEW s \in Session
  PROVE  /\ session[s].pc = "unmatched" => session[s] \in Unmatched
         /\ session[s].pc = "linking" => session[s] \in Linking
         /\ session[s].pc = "serving" => session[s] \in Serving
BY DEF TypeOK, IdleSession, Unmatched, Linking, Serving

LEMMA UserType ==
  ASSUME TypeOK, NEW e \in Email, users[e] # NoUser
  PROVE  users[e] \in User
BY DEF TypeOK

LEMMA InitTyped == Init => Typed
<1> SUFFICES ASSUME Init PROVE Typed
  OBVIOUS
<1>1. PICK seeded \in Email, role \in Role, home \in Branch, linked \in BOOLEAN :
        users = [e \in Email |->
                    IF e # seeded THEN NoUser
                    ELSE [id |-> 1, role |-> role, status |-> "ACTIVE",
                          branch |-> IF InBranch(role) THEN home ELSE Null,
                          sub |-> IF linked THEN 1 ELSE Unlinked]]
        /\ pool = [e \in Email |-> IF e # seeded THEN NoIdentity ELSE [sub |-> 1, enabled |-> TRUE]]
  BY DEF Init
<1>2. users \in [Email -> User \cup {NoUser}]
  BY <1>1 DEF User, Status
<1>3. pool \in [Email -> Identity \cup {NoIdentity}]
  BY <1>1 DEF Identity
<1>4. /\ branches \in [Branch -> Status \cup {Gone}] /\ tokens \subseteq Token
      /\ imports \subseteq Import /\ exports \subseteq Export
      /\ serial \in 0 .. MaxSerial /\ faults \in 0 .. MaxFaults /\ damaged \subseteq Email
  BY DEF Init, Status
<1>5. /\ desk \in [Desk -> {IdleDesk} \cup CreateJob \cup UpdateJob \cup DeleteJob]
      /\ session \in [Session -> {IdleSession} \cup Unmatched \cup Linking \cup Serving]
  BY DEF Init
<1>6. Numbered
  BY DEF Init, Numbered, IdleDesk
<1> QED
  BY <1>2, <1>3, <1>4, <1>5, <1>6 DEF Typed, TypeOK

-----------------------------------------------------------------------------
(* Type correctness, one lemma for each operation of the desk. *)

DeskFits ==
    /\ desk \in [Desk -> {IdleDesk} \cup CreateJob \cup UpdateJob \cup DeleteJob]
    /\ \A d \in Desk : desk[d].pc = "row" /\ desk[d].op = "create" => desk[d].sub >= 2

\* How a step that starts, moves on or ends a request leaves the desk.
LEMMA FinishFits == ASSUME Typed, NEW d \in Desk, Finish(d) PROVE DeskFits'
BY DEF Typed, TypeOK, Numbered, DeskFits, Finish, IdleDesk

LEMMA StartFits ==
  ASSUME Typed, NEW d \in Desk, NEW j \in CreateJob \cup UpdateJob \cup DeleteJob,
         j.op = "create" => j.pc = "identity", desk' = [desk EXCEPT ![d] = j]
  PROVE  DeskFits'
BY DEF Typed, TypeOK, Numbered, DeskFits, CreateJob, UpdateJob, DeleteJob

LEMMA GotoFits ==
  ASSUME Typed, NEW d \in Desk, desk[d].pc # "idle", NEW pc \in {"row", "undo"},
         IF desk[d].op = "create" THEN pc = "undo" ELSE desk[d].op = "update" \/ pc = "row",
         Goto(d, pc)
  PROVE  DeskFits'
<1>1. /\ desk[d] \in CreateJob \cup UpdateJob \cup DeleteJob
      /\ desk[d].op = "create" => desk[d] \in CreateJob
      /\ desk[d].op = "update" => desk[d] \in UpdateJob
      /\ desk[d].op = "delete" => desk[d] \in DeleteJob
  BY DeskType DEF Typed
<1>2. [desk[d] EXCEPT !.pc = pc] \in CreateJob \cup UpdateJob \cup DeleteJob
  BY <1>1 DEF CreateJob, UpdateJob, DeleteJob
<1>3. desk' = [desk EXCEPT ![d] = [desk[d] EXCEPT !.pc = pc]] /\ DOMAIN desk = Desk
  BY DEF Goto, Typed, TypeOK
<1>4. [desk[d] EXCEPT !.pc = pc].op = desk[d].op /\ [desk[d] EXCEPT !.pc = pc].pc = pc
  BY <1>1 DEF CreateJob, UpdateJob, DeleteJob
<1> QED
  BY <1>2, <1>3, <1>4 DEF Typed, TypeOK, Numbered, DeskFits

\* What a step of a request does to the counters of failures.
FaultsFit == faults \in 0 .. MaxFaults /\ damaged \subseteq Email

LEMMA FaultsTyped ==
  ASSUME Typed,
         \/ Sound
         \/ /\ \E kind : Fails(kind)
            /\ \/ damaged' = damaged
               \/ \E d \in Desk : desk[d].pc # "idle" /\ damaged' = damaged \cup {desk[d].email}
  PROVE  FaultsFit'
<1>1. \A d \in Desk : desk[d].pc # "idle" => desk[d].email \in Email
  BY DeskType DEF Typed
<1> QED
  BY <1>1 DEF Typed, TypeOK, Sound, Fails, FaultsFit

\* The rows of the two stores after a step.
StoresFit ==
    /\ users \in [Email -> User \cup {NoUser}]
    /\ pool \in [Email -> Identity \cup {NoIdentity}]

LEMMA FitTogether ==
  ASSUME Typed, DeskFits', FaultsFit', StoresFit', serial' \in 1 .. MaxSerial,
         imports' \subseteq Import,
         UNCHANGED <<branches, session, tokens, exports>>
  PROVE  Typed'
BY DEF Typed, TypeOK, Numbered, DeskFits, FaultsFit, StoresFit

LEMMA CreateTyped ==
  ASSUME Typed, NEW d \in Desk,
         \/ \E e \in Email, role \in Role, b \in Branch : CreateReads(d, e, role, b)
         \/ CreateIdentity(d) \/ CreateRow(d)
  PROVE  Typed'
<1> USE DEF Typed, TypeOK
<1>1. ASSUME NEW e \in Email, NEW role \in Role, NEW b \in Branch, CreateReads(d, e, role, b)
      PROVE  Typed'
  <2> DEFINE j == [pc |-> "identity", op |-> "create", email |-> e, role |-> role,
                   branch |-> IF InBranch(role) THEN b ELSE Null, sub |-> Unlinked]
  <2>1. j \in CreateJob /\ desk' = [desk EXCEPT ![d] = j]
    BY <1>1 DEF CreateReads, CreateJob
  <2>2. DeskFits'
    BY <2>1, StartFits
  <2>3. FaultsFit'
    BY <1>1, FaultsTyped DEF CreateReads
  <2> QED
    BY <1>1, <2>2, <2>3, FitTogether DEF CreateReads, StoresFit, Numbered
<1>2. CASE CreateIdentity(d)
  <2> DEFINE e == desk[d].email
  <2>1. desk[d] \in CreateJob /\ e \in Email /\ desk[d].pc # "idle"
    BY <1>2, DeskType DEF CreateIdentity
  <2>2. CASE Finish(d) /\ Sound /\ UNCHANGED <<pool, serial>>
    <3>1. DeskFits'
      BY <2>1, <2>2, FinishFits DEF Numbered
    <3> QED
      BY <1>2, <2>2, <3>1, FaultsTyped, FitTogether DEF CreateIdentity, StoresFit, Numbered
  <2> DEFINE Goes == desk' = [desk EXCEPT ![d].pc = "row", ![d].sub = serial'] /\ Sound
             Loses == Fails("answer") /\ damaged' = damaged \cup {e} /\ Finish(d)
  <2>3. CASE /\ serial' = serial + 1
             /\ pool' = [pool EXCEPT ![e] = [sub |-> serial', enabled |-> TRUE]]
             /\ Goes \/ Loses
    <3>1. /\ serial' = serial + 1 /\ serial < MaxSerial
          /\ pool' = [pool EXCEPT ![e] = [sub |-> serial', enabled |-> TRUE]]
      BY <1>2, <2>3 DEF CreateIdentity
    <3>2. serial' \in Account /\ serial' \in 1 .. MaxSerial /\ serial' >= 2
      BY <3>1 DEF Numbered
    <3>3. StoresFit'
      BY <1>2, <2>1, <3>1, <3>2 DEF CreateIdentity, StoresFit, Identity
    <3>4. CASE desk' = [desk EXCEPT ![d].pc = "row", ![d].sub = serial'] /\ Sound
      <4>1. [desk[d] EXCEPT !.pc = "row", !.sub = serial'] \in CreateJob
        BY <2>1, <3>2 DEF CreateJob
      <4>2. /\ desk' = [desk EXCEPT ![d] = [desk[d] EXCEPT !.pc = "row", !.sub = serial']]
            /\ [desk[d] EXCEPT !.pc = "row", !.sub = serial'].sub = serial'
        BY <2>1, <3>4 DEF CreateJob
      <4>3. DeskFits'
        BY <3>2, <4>1, <4>2 DEF DeskFits, Numbered
      <4> QED
        BY <1>2, <3>2, <3>3, <3>4, <4>3, FaultsTyped, FitTogether DEF CreateIdentity
    <3>5. CASE Fails("answer") /\ damaged' = damaged \cup {e} /\ Finish(d)
      <4>1. DeskFits' /\ FaultsFit'
        BY <2>1, <3>5, FinishFits, FaultsTyped
      <4> QED
        BY <1>2, <3>2, <3>3, <4>1, FitTogether DEF CreateIdentity
    <3> QED
      BY <2>3, <3>4, <3>5
  <2> QED
    BY <1>2, <2>2, <2>3 DEF CreateIdentity
<1>3. CASE CreateRow(d)
  <2> DEFINE j == desk[d]
             u == [id |-> j.sub, role |-> j.role, branch |-> j.branch, status |-> "ACTIVE", sub |-> j.sub]
  <2>1. j \in CreateJob /\ j.email \in Email /\ j.pc = "row" /\ j.op = "create"
    BY <1>3, DeskType DEF CreateRow
  <2>2. u \in User
    BY <2>1 DEF CreateJob, User, Status, Numbered, Unlinked
  <2>3. DeskFits'
    BY <1>3, <2>1, FinishFits, GotoFits DEF CreateRow
  <2>4. FaultsFit'
    BY <1>3, FaultsTyped DEF CreateRow
  <2>5. StoresFit'
    <3>1. users' = [users EXCEPT ![j.email] = u] \/ users' = users
      BY <1>3 DEF CreateRow
    <3> QED
      BY <1>3, <2>1, <2>2, <3>1 DEF CreateRow, StoresFit
  <2> QED
    BY <1>3, <2>3, <2>4, <2>5, FitTogether DEF CreateRow, Numbered
<1> QED
  BY <1>1, <1>2, <1>3

LEMMA UpdateTyped ==
  ASSUME Typed, NEW d \in Desk,
         \/ \E e \in Email, body \in Bodies : UpdateReads(d, e, body)
         \/ UpdateIdentity(d) \/ UpdateRow(d)
  PROVE  Typed'
<1> USE DEF Typed, TypeOK
<1>1. ASSUME NEW e \in Email, NEW body \in Bodies, UpdateReads(d, e, body) PROVE Typed'
  <2> DEFINE j == [pc |-> IF StatusChanges(body, users[e]) THEN "identity" ELSE "row",
                   op |-> "update", email |-> e, body |-> body, seen |-> users[e]]
  <2>1. users[e] \in User
    BY <1>1 DEF UpdateReads, Exists
  <2>2. j \in UpdateJob /\ desk' = [desk EXCEPT ![d] = j]
    BY <1>1, <2>1 DEF UpdateReads, UpdateJob
  <2>3. DeskFits'
    BY <2>2, StartFits
  <2>4. FaultsFit'
    BY <1>1, FaultsTyped DEF UpdateReads
  <2> QED
    BY <1>1, <2>3, <2>4, FitTogether DEF UpdateReads, StoresFit, Numbered
<1>2. CASE UpdateIdentity(d)
  <2> DEFINE e == desk[d].email
  <2>1. desk[d] \in UpdateJob /\ e \in Email /\ desk[d].pc # "idle"
    BY <1>2, DeskType DEF UpdateIdentity
  <2>2. DeskFits'
    BY <1>2, <2>1, FinishFits, GotoFits DEF UpdateIdentity, UpdateJob
  <2>3. FaultsFit'
    BY <1>2, <2>1, FaultsTyped DEF UpdateIdentity
  <2>4. StoresFit'
    <3> DEFINE new == [pool EXCEPT ![e].enabled = (desk[d].body.status = "ACTIVE")]
    <3>1. CASE HasIdentity(e) /\ pool' = new
      <4>1. pool[e] \in Identity
        BY <2>1, <3>1 DEF HasIdentity
      <4>2. \A b \in BOOLEAN : [pool[e] EXCEPT !.enabled = b] \in Identity
        BY <4>1 DEF Identity
      <4>3. (desk[d].body.status = "ACTIVE") \in BOOLEAN
        OBVIOUS
      <4>4. [pool[e] EXCEPT !.enabled = (desk[d].body.status = "ACTIVE")] \in Identity
        BY <4>2, <4>3
      <4>5. pool' = [pool EXCEPT ![e] = [pool[e] EXCEPT !.enabled = (desk[d].body.status = "ACTIVE")]]
        BY <3>1
      <4> QED
        BY <1>2, <2>1, <4>4, <4>5 DEF UpdateIdentity, StoresFit
    <3>2. CASE pool' = pool
      BY <1>2, <3>2 DEF UpdateIdentity, StoresFit
    <3> QED
      BY <1>2, <3>1, <3>2 DEF UpdateIdentity
  <2> QED
    BY <1>2, <2>2, <2>3, <2>4, FitTogether DEF UpdateIdentity, Numbered
<1>3. CASE UpdateRow(d)
  <2> DEFINE j == desk[d]
             u == users[j.email]
             branch == WrittenBranch(j)
             new == [u EXCEPT !.role = FinalRole(j.body, u), !.branch = branch,
                              !.status = IF j.body.status = Keep THEN u.status ELSE j.body.status]
  <2>1. j \in UpdateJob /\ j.email \in Email /\ j.pc # "idle" /\ j.op = "update"
    BY <1>3, DeskType DEF UpdateRow
  <2>2. DeskFits'
    BY <1>3, <2>1, FinishFits, GotoFits DEF UpdateRow
  <2>3. FaultsFit'
    BY <1>3, FaultsTyped DEF UpdateRow
  <2>4. CASE users' = users
    BY <1>3, <2>2, <2>3, <2>4, FitTogether DEF UpdateRow, Numbered, StoresFit
  <2>5. CASE users' = [users EXCEPT ![j.email] = new] /\ u.id = j.seen.id
    <3>1. j.seen \in User /\ j.body \in Body
      BY <2>1 DEF UpdateJob
    <3>2. u \in User
      BY <2>1, <2>5, <3>1 DEF User, NoUser
    <3>3. branch \in Branch \cup {Null}
      BY <3>1 DEF Body, User, FinalBranch, WrittenBranch
    <3>4. /\ FinalRole(j.body, u) \in Role
          /\ (IF j.body.status = Keep THEN u.status ELSE j.body.status) \in Status
      BY <3>1, <3>2 DEF Body, User, FinalRole
    <3>5. new \in User
      BY <3>2, <3>3, <3>4 DEF User
    <3> QED
      BY <1>3, <2>1, <2>2, <2>3, <2>5, <3>5, FitTogether DEF UpdateRow, Numbered, StoresFit
  <2>6. users' = users \/ (users' = [users EXCEPT ![j.email] = new] /\ u.id = j.seen.id)
    BY <1>3 DEF UpdateRow
  <2> QED
    BY <2>4, <2>5, <2>6
<1> QED
  BY <1>1, <1>2, <1>3

LEMMA UndoTyped ==
  ASSUME Typed, NEW d \in Desk, Undo(d) \/ DeskDies(d)
  PROVE  Typed'
<1> USE DEF Typed, TypeOK
<1> DEFINE j == desk[d]
<1>1. desk[d].pc # "idle" /\ desk[d].email \in Email
  BY DeskType DEF Undo, DeskDies
<1>2. DeskFits'
  BY FinishFits DEF Undo, DeskDies
<1>3. FaultsFit'
  BY <1>1, FaultsTyped DEF Undo, DeskDies
<1>4. StoresFit'
  <2>1. CASE UNCHANGED <<users, pool>>
    BY <2>1 DEF StoresFit
  <2> DEFINE disabled == [pool[j.email] EXCEPT !.enabled = (j.seen.status # "INACTIVE")]
  <2>2. CASE /\ users' = users /\ HasIdentity(j.email)
             /\ \/ pool' = [pool EXCEPT ![j.email] = NoIdentity]
                \/ pool' = [pool EXCEPT ![j.email] = disabled]
    <3>1. pool[j.email] \in Identity
      BY <1>1, <2>2 DEF HasIdentity
    <3>2. \A b \in BOOLEAN : [pool[j.email] EXCEPT !.enabled = b] \in Identity
      BY <3>1 DEF Identity
    <3>3. (j.seen.status # "INACTIVE") \in BOOLEAN
      OBVIOUS
    <3>4. disabled \in Identity
      BY <3>2, <3>3
    <3> QED
      BY <1>1, <2>2, <3>4 DEF StoresFit
  <2> QED
    BY <2>1, <2>2 DEF Undo, DeskDies
<1> QED
  BY <1>2, <1>3, <1>4, FitTogether DEF Undo, DeskDies, Numbered

LEMMA DeleteTyped ==
  ASSUME Typed, NEW d \in Desk,
         \/ \E e \in Email : DeleteReads(d, e)
         \/ DeleteIdentity(d) \/ DeleteRow(d)
  PROVE  Typed'
<1> USE DEF Typed, TypeOK
<1>1. ASSUME NEW e \in Email, DeleteReads(d, e) PROVE Typed'
  <2> DEFINE j == [pc |-> "identity", op |-> "delete", email |-> e, seen |-> users[e]]
  <2>1. j \in DeleteJob /\ desk' = [desk EXCEPT ![d] = j]
    BY <1>1 DEF DeleteReads, DeleteJob, Exists
  <2>2. DeskFits'
    BY <2>1, StartFits
  <2>3. FaultsFit'
    BY <1>1, FaultsTyped DEF DeleteReads
  <2> QED
    BY <1>1, <2>2, <2>3, FitTogether DEF DeleteReads, StoresFit, Numbered
<1>2. CASE DeleteIdentity(d)
  <2>1. desk[d].pc # "idle" /\ desk[d].email \in Email
    BY <1>2, DeskType DEF DeleteIdentity
  <2>2. DeskFits'
    BY <1>2, <2>1, FinishFits, GotoFits DEF DeleteIdentity
  <2>3. FaultsFit'
    BY <1>2, <2>1, FaultsTyped DEF DeleteIdentity
  <2>4. StoresFit'
    BY <1>2, <2>1 DEF DeleteIdentity, StoresFit
  <2> QED
    BY <1>2, <2>2, <2>3, <2>4, FitTogether DEF DeleteIdentity, Numbered
<1>3. CASE DeleteRow(d)
  <2>1. desk[d].pc # "idle" /\ desk[d].email \in Email
    BY <1>3, DeskType DEF DeleteRow
  <2>2. DeskFits'
    BY <1>3, FinishFits DEF DeleteRow
  <2>3. FaultsFit'
    BY <1>3, <2>1, FaultsTyped DEF DeleteRow
  <2>4. StoresFit' /\ imports' \subseteq Import
    <3>1. \A r \in Import : /\ r.by \in Account \cup {Null}
                            /\ [r EXCEPT !.by = Null] \in Import /\ [r EXCEPT !.by = r.by] \in Import
      BY DEF Import
    <3>2. imports' = imports \/ imports' = {[r EXCEPT !.by = IF r.by = desk[d].seen.id THEN Null ELSE r.by] : r \in imports}
      BY <1>3 DEF DeleteRow
    <3>3. imports' \subseteq Import
      <4> SUFFICES ASSUME NEW r \in imports
                   PROVE  [r EXCEPT !.by = IF r.by = desk[d].seen.id THEN Null ELSE r.by] \in Import
        BY <3>2
      <4> QED
        BY <3>1
    <3> QED
      BY <1>3, <2>1, <3>3 DEF DeleteRow, StoresFit
  <2> QED
    BY <1>3, <2>2, <2>3, <2>4, FitTogether DEF DeleteRow, Numbered
<1> QED
  BY <1>1, <1>2, <1>3

LEMMA BranchTyped ==
  ASSUME Typed, NEW b \in Branch,
         BranchCreate(b) \/ BranchDelete(b) \/ \E status \in Status : BranchUpdate(b, status)
  PROVE  Typed'
<1> USE DEF Typed, TypeOK, Numbered, Sound
<1>1. CASE BranchCreate(b)
  BY <1>1 DEF BranchCreate, Status
<1>2. ASSUME NEW status \in Status, BranchUpdate(b, status) PROVE Typed'
  BY <1>2 DEF BranchUpdate
<1>3. CASE BranchDelete(b)
  <2>1. \A u \in User : [u EXCEPT !.branch = Null] \in User
    BY DEF User
  <2>2. users' \in [Email -> User \cup {NoUser}]
    BY <1>3, <2>1 DEF BranchDelete, Exists
  <2>3. branches' \in [Branch -> Status \cup {Gone}]
    BY <1>3 DEF BranchDelete, Status
  <2> QED
    BY <1>3, <2>2, <2>3 DEF BranchDelete
<1> QED
  BY <1>1, <1>2, <1>3

LEMMA SessionTyped ==
  ASSUME Typed, NEW s \in Session, SessionStep(s)
  PROVE  Typed'
<1> USE DEF Typed, TypeOK, Numbered, Sound
<1>1. \A t \in Token, u \in User : [pc |-> "serving", token |-> t, actor |-> ActorOf(u)] \in Serving
  BY DEF Serving, ActorOf, User, Actor
<1>2. ASSUME NEW t \in tokens, GuardReads(s, t) PROVE Typed'
  <2>1. \A e \in Email : Exists(e) => users[e] \in User
    BY DEF Exists
  <2>2. session' \in [Session -> {IdleSession} \cup Unmatched \cup Linking \cup Serving]
    <3>1. CASE \E e \in Email : Exists(e) /\ Admit(s, t, users[e])
      BY <1>1, <2>1, <3>1 DEF Admit
    <3>2. CASE session' = [session EXCEPT ![s] = [pc |-> "unmatched", token |-> t]]
      BY <3>2 DEF Unmatched
    <3> QED
      BY <1>2, <3>1, <3>2 DEF GuardReads
  <2> QED
    BY <1>2, <2>2 DEF GuardReads
<1>7. CASE GuardMatches(s)
  <2> DEFINE t == session[s].token
  <2>1. t \in Token /\ t.email \in Email
    BY <1>7, SessionType DEF GuardMatches, Unmatched, Token
  <2>2. Linkable(users[t.email]) => users[t.email].id \in Account
    BY <2>1 DEF Linkable, User
  <2>3. session' \in [Session -> {IdleSession} \cup Unmatched \cup Linking \cup Serving]
    BY <1>7, <2>1, <2>2 DEF GuardMatches, Linking
  <2> QED
    BY <1>7, <2>3 DEF GuardMatches
<1>3. CASE GuardLinks(s)
  <2> DEFINE t == session[s].token
             linked == [users[t.email] EXCEPT !.sub = t.sub]
  <2>1. session[s] \in Linking /\ t \in Token /\ t.email \in Email /\ t.sub \in Account
    BY <1>3, SessionType DEF GuardLinks, Linking, Token
  <2>2. CASE users[t.email].id = session[s].seen
    <3>1. users[t.email] \in User
      BY <2>1, <2>2 DEF Linking, NoUser
    <3>2. linked \in User
      BY <2>1, <3>1 DEF User
    <3>3. /\ users' = [users EXCEPT ![t.email] = linked]
          /\ Admit(s, t, linked) \/ session' = [session EXCEPT ![s] = IdleSession]
      BY <1>3, <2>2 DEF GuardLinks
    <3>4. users' \in [Email -> User \cup {NoUser}]
      BY <2>1, <3>2, <3>3
    <3>5. session' \in [Session -> {IdleSession} \cup Unmatched \cup Linking \cup Serving]
      BY <1>1, <2>1, <3>2, <3>3 DEF Admit
    <3> QED
      BY <1>3, <3>4, <3>5 DEF GuardLinks
  <2>3. CASE users[t.email].id # session[s].seen
    BY <1>3, <2>3 DEF GuardLinks
  <2> QED
    BY <2>2, <2>3
<1>4. ASSUME NEW b \in Branch, CreateImport(s, b) PROVE Typed'
  <2>1. session[s].actor \in Actor
    BY <1>4, SessionType DEF CreateImport, Serve, Serving
  <2>2. [branch |-> b, by |-> session[s].actor.id] \in Import
    BY <2>1 DEF Actor, Import
  <2> QED
    BY <1>4, <2>2 DEF CreateImport, Serve
<1>5. ASSUME NEW q \in Branch \cup {Null}, CreateExport(s, q) PROVE Typed'
  <2>1. session[s].actor \in Actor
    BY <1>5, SessionType DEF CreateExport, Serve, Serving
  <2>2. NewExport(session[s].actor, q) \subseteq Export
    BY <2>1 DEF NewExport, Actor, Export
  <2> QED
    BY <1>5, <2>2 DEF CreateExport, Serve
<1>6. CASE Answer(s)
  BY <1>6 DEF Answer, Serve
<1> QED
  BY <1>2, <1>3, <1>4, <1>5, <1>6, <1>7 DEF SessionStep

LEMMA StepTyped == Typed /\ [Next]_vars => Typed'
<1> SUFFICES ASSUME Typed, [Next]_vars PROVE Typed'
  OBVIOUS
<1>1. ASSUME NEW e \in Email, SignIn(e) PROVE Typed'
  <2>1. [email |-> e, sub |-> pool[e].sub] \in Token
    BY <1>1 DEF SignIn, HasIdentity, Typed, TypeOK, Identity, Token
  <2> QED
    BY <1>1, <2>1 DEF SignIn, Typed, TypeOK, Numbered, Sound
<1>2. CASE UNCHANGED vars
  BY <1>2 DEF Typed, TypeOK, Numbered, vars
<1> QED
  BY <1>1, <1>2, CreateTyped, UpdateTyped, UndoTyped, DeleteTyped, BranchTyped, SessionTyped
  DEF Next, DeskStep

\* Every reachable state is well typed, whichever calls fail: no compensation
\* or late update puts half a row into either store.
THEOREM TypeCorrect == Spec => []TypeOK
<1>1. Typed => TypeOK
  BY DEF Typed
<1> QED
  BY InitTyped, StepTyped, <1>1, PTL DEF Spec

-----------------------------------------------------------------------------
(* Identities.  The sub of an identity stays with its e-mail wherever it is   *)
(* written down: in the row, the pool, a token, or a request of create that   *)
(* still has to insert the row.                                               *)

Creating(d, e) == desk[d].pc # "idle" /\ desk[d].op = "create" /\ desk[d].email = e

Has(e, sub) ==
    \/ users[e] # NoUser /\ users[e].sub = sub
    \/ pool[e] # NoIdentity /\ pool[e].sub = sub
    \/ \E t \in tokens : t.email = e /\ t.sub = sub
    \/ \E d \in Desk : Creating(d, e) /\ desk[d].sub = sub

\* Cognito never issues a sub twice.
Issued ==
    \A e \in Email, sub \in Account : Has(e, sub) =>
        sub <= serial /\ \A f \in Email : Has(f, sub) => f = e

\* Only the seed's row, whose id is 1, can be without an identity; as long as it
\* is there no other identity is made for its e-mail.
SeedLinks ==
    \A e \in Email : users[e] # NoUser =>
        /\ users[e].sub = Unlinked => users[e].id = 1
        /\ users[e].id = 1 => /\ \A sub \in Account : Has(e, sub) => sub = 1
                              /\ \A d \in Desk : ~Creating(d, e)

\* A request that is about to link has read the seed's row.
LinksSeed ==
    \A s \in Session :
        /\ session[s].pc # "idle" => session[s].token \in tokens
        /\ session[s].pc = "linking" => session[s].seen = 1

Linked == Issued /\ SeedLinks /\ LinksSeed

LEMMA InitLinked == Init => Linked
<1> SUFFICES ASSUME Init PROVE Linked
  OBVIOUS
<1>1. PICK seeded \in Email, role \in Role, home \in Branch, linked \in BOOLEAN :
        users = [e \in Email |->
                    IF e # seeded THEN NoUser
                    ELSE [id |-> 1, role |-> role, status |-> "ACTIVE",
                          branch |-> IF InBranch(role) THEN home ELSE Null,
                          sub |-> IF linked THEN 1 ELSE Unlinked]]
        /\ pool = [e \in Email |-> IF e # seeded THEN NoIdentity ELSE [sub |-> 1, enabled |-> TRUE]]
  BY DEF Init
<1>2. \A d \in Desk, e \in Email : ~Creating(d, e)
  BY DEF Init, Creating, IdleDesk
<1>3. \A e \in Email, sub \in Account : Has(e, sub) => e = seeded /\ sub = 1
  BY <1>1, <1>2 DEF Has, Init, Unlinked
<1>4. Issued
  BY <1>3 DEF Issued, Init
<1>5. SeedLinks
  BY <1>1, <1>2, <1>3 DEF SeedLinks
<1>6. LinksSeed
  BY DEF LinksSeed, Init, IdleSession
<1> QED
  BY <1>4, <1>5, <1>6 DEF Linked

\* A step that writes no sub anywhere it was not, makes no row and starts no
\* request of create for a seed's row.
LEMMA LinkedKept ==
  ASSUME Typed, Linked, serial' = serial,
         \A e \in Email, sub \in Account : Has(e, sub)' => Has(e, sub),
         \A e \in Email : users'[e] # NoUser =>
             users[e] # NoUser /\ users'[e].id = users[e].id
               /\ (users'[e].sub = users[e].sub \/ users'[e].sub # Unlinked),
         \A d \in Desk, e \in Email : Creating(d, e)' => Creating(d, e) \/ users'[e] = NoUser,
         tokens \subseteq tokens', LinksSeed'
  PROVE  Linked'
<1>1. Issued'
  BY DEF Linked, Issued
<1>2. SeedLinks'
  BY DEF Linked, SeedLinks
<1> QED
  BY <1>1, <1>2 DEF Linked

\* The same for a step of the desk, which leaves tokens and sessions alone.
LEMMA DeskKept ==
  ASSUME Typed, Linked, UNCHANGED <<serial, tokens, session>>,
         \A e \in Email :
            /\ users'[e] # NoUser => users[e] # NoUser /\ users'[e].id = users[e].id
                                                       /\ users'[e].sub = users[e].sub
            /\ pool'[e] # NoIdentity => pool[e] # NoIdentity /\ pool'[e].sub = pool[e].sub,
         \A d \in Desk, e \in Email :
            Creating(d, e)' => \/ Creating(d, e) /\ desk'[d].sub = desk[d].sub
                               \/ desk'[d].sub = Unlinked /\ users'[e] = NoUser
  PROVE  Linked'
<1>1. \A e \in Email, sub \in Account : Has(e, sub)' => Has(e, sub)
  <2> SUFFICES ASSUME NEW e \in Email, NEW sub \in Account, Has(e, sub)' PROVE Has(e, sub)
    OBVIOUS
  <2>1. sub # Unlinked
    BY DEF Unlinked
  <2> QED
    BY <2>1 DEF Has
<1>2. LinksSeed'
  BY DEF Linked, LinksSeed
<1> QED
  BY <1>1, <1>2, LinkedKept

\* How the requests move on: none becomes one of create, and the others keep
\* what they carry.
LEMMA DeskMoves ==
  ASSUME Typed, NEW d \in Desk,
         \/ desk[d].pc # "idle" /\ (Finish(d) \/ \E pc \in {"row", "undo"} : Goto(d, pc))
         \/ \E j \in UpdateJob \cup DeleteJob : desk' = [desk EXCEPT ![d] = j]
  PROVE  \A c \in Desk, e \in Email :
           Creating(c, e)' => Creating(c, e) /\ desk'[c].sub = desk[c].sub
<1>1. CASE Finish(d)
  BY <1>1 DEF Finish, Creating, IdleDesk, Typed, TypeOK
<1>2. ASSUME NEW pc \in {"row", "undo"}, Goto(d, pc), desk[d].pc # "idle"
      PROVE  \A c \in Desk, e \in Email :
               Creating(c, e)' => Creating(c, e) /\ desk'[c].sub = desk[c].sub
  <2>1. desk[d] \in CreateJob \cup UpdateJob \cup DeleteJob
    BY <1>2, DeskType DEF Typed
  <2> QED
    BY <1>2, <2>1 DEF Goto, Creating, Typed, TypeOK, CreateJob, UpdateJob, DeleteJob
<1>3. ASSUME NEW j \in UpdateJob \cup DeleteJob, desk' = [desk EXCEPT ![d] = j]
      PROVE  \A c \in Desk, e \in Email :
               Creating(c, e)' => Creating(c, e) /\ desk'[c].sub = desk[c].sub
  BY <1>3 DEF Creating, Typed, TypeOK, UpdateJob, DeleteJob
<1> QED
  BY <1>1, <1>2, <1>3

LEMMA CreateLinked ==
  ASSUME Typed, Linked, NEW d \in Desk,
         \/ \E e \in Email, role \in Role, b \in Branch : CreateReads(d, e, role, b)
         \/ CreateIdentity(d) \/ CreateRow(d)
  PROVE  Linked'
<1>1. ASSUME NEW e \in Email, NEW role \in Role, NEW b \in Branch, CreateReads(d, e, role, b)
      PROVE  Linked'
  <2> DEFINE j == [pc |-> "identity", op |-> "create", email |-> e, role |-> role,
                   branch |-> IF InBranch(role) THEN b ELSE Null, sub |-> Unlinked]
  <2>1. /\ UNCHANGED <<users, pool, serial, tokens, session>> /\ users[e] = NoUser
        /\ desk' = [desk EXCEPT ![d] = j] /\ j.email = e /\ j.sub = Unlinked
    BY <1>1 DEF CreateReads, Exists
  <2>2. \A c \in Desk, f \in Email :
          Creating(c, f)' => \/ Creating(c, f) /\ desk'[c].sub = desk[c].sub
                             \/ desk'[c].sub = Unlinked /\ users'[f] = NoUser
    BY <2>1 DEF Creating, Typed, TypeOK
  <2> QED
    BY <2>1, <2>2, DeskKept
<1>2. CASE CreateIdentity(d)
  <2> DEFINE e == desk[d].email
  <2>1. desk[d] \in CreateJob /\ e \in Email /\ desk[d].pc # "idle" /\ desk[d].op = "create"
    BY <1>2, DeskType DEF CreateIdentity, Typed
  <2>2. UNCHANGED <<users, tokens, session>>
    BY <1>2 DEF CreateIdentity
  <2>3. CASE Finish(d) /\ UNCHANGED <<pool, serial>>
    BY <2>1, <2>2, <2>3, DeskMoves, DeskKept
  <2>4. CASE /\ serial' = serial + 1
             /\ pool' = [pool EXCEPT ![e] = [sub |-> serial', enabled |-> TRUE]]
             /\ Finish(d) \/ desk' = [desk EXCEPT ![d].pc = "row", ![d].sub = serial']
    <3>1. /\ serial' = serial + 1 /\ serial \in Nat
          /\ pool' = [pool EXCEPT ![e] = [sub |-> serial', enabled |-> TRUE]]
          /\ Finish(d) \/ desk' = [desk EXCEPT ![d].pc = "row", ![d].sub = serial']
      BY <2>4 DEF Typed, TypeOK
    <3>2. \A c \in Desk, f \in Email :
            Creating(c, f)' => Creating(c, f) /\ (desk'[c].sub = desk[c].sub \/ (c = d /\ desk'[c].sub = serial'))
      <4>1. CASE Finish(d)
        BY <2>1, <4>1, DeskMoves
      <4>2. CASE desk' = [desk EXCEPT ![d].pc = "row", ![d].sub = serial']
        BY <2>1, <4>2 DEF Creating, Typed, TypeOK, CreateJob
      <4> QED
        BY <3>1, <4>1, <4>2
    <3>3. Creating(d, e)
      BY <2>1 DEF Creating
    <3>4. ASSUME NEW f \in Email, NEW sub \in Account, Has(f, sub)'
          PROVE  Has(f, sub) \/ (f = e /\ sub = serial')
      <4>1. pool' \in [Email -> Identity \cup {NoIdentity}] /\ pool \in [Email -> Identity \cup {NoIdentity}]
        BY <1>2, <2>1, CreateTyped DEF Typed, TypeOK
      <4>2. CASE pool'[f] # NoIdentity /\ pool'[f].sub = sub
        BY <2>1, <3>1, <4>1, <4>2 DEF Has
      <4>3. CASE \E c \in Desk : Creating(c, f)' /\ desk'[c].sub = sub
        <5>1. PICK c \in Desk : Creating(c, f)' /\ desk'[c].sub = sub
          BY <4>3
        <5>2. CASE desk'[c].sub = desk[c].sub
          BY <3>2, <5>1, <5>2 DEF Has
        <5>3. CASE c = d /\ desk'[c].sub = serial'
          BY <3>2, <5>1, <5>3 DEF Creating
        <5> QED
          BY <3>2, <5>1, <5>2, <5>3
      <4> QED
        BY <2>2, <3>4, <4>2, <4>3 DEF Has
    <3>5. \A f \in Email, sub \in Account : Has(f, sub) => sub <= serial
      BY DEF Linked, Issued
    <3>6. Issued'
      BY <3>1, <3>4, <3>5 DEF Linked, Issued
    <3>7. users[e] # NoUser => users[e].id # 1
      BY <2>1, <3>3 DEF Linked, SeedLinks
    <3>8. SeedLinks'
      BY <2>2, <3>2, <3>4, <3>7 DEF Linked, SeedLinks
    <3>9. LinksSeed'
      BY <2>2 DEF Linked, LinksSeed
    <3> QED
      BY <3>6, <3>8, <3>9 DEF Linked
  <2> QED
    BY <1>2, <2>3, <2>4 DEF CreateIdentity
<1>3. CASE CreateRow(d)
  <2> DEFINE j == desk[d]
             u == [id |-> j.sub, role |-> j.role, branch |-> j.branch, status |-> "ACTIVE", sub |-> j.sub]
  <2>1. j \in CreateJob /\ j.email \in Email /\ j.pc = "row" /\ j.op = "create" /\ j.sub >= 2
    BY <1>3, DeskType DEF CreateRow, Typed, Numbered
  <2>2. UNCHANGED <<pool, tokens, session, serial>>
    BY <1>3 DEF CreateRow
  <2>3. \A c \in Desk, f \in Email : Creating(c, f)' => Creating(c, f) /\ desk'[c].sub = desk[c].sub
    BY <1>3, <2>1, DeskMoves DEF CreateRow
  <2>4. CASE users' = users
    BY <2>2, <2>3, <2>4, DeskKept
  <2>5. CASE users' = [users EXCEPT ![j.email] = u] /\ users[j.email] = NoUser
    <3>1. Creating(d, j.email) /\ j.sub # Unlinked
      BY <2>1 DEF Creating, Unlinked, CreateJob
    <3>2. users \in [Email -> User \cup {NoUser}]
      BY DEF Typed, TypeOK
    <3>3. \A f \in Email, sub \in Account : Has(f, sub)' => Has(f, sub)
      <4> SUFFICES ASSUME NEW f \in Email, NEW sub \in Account, Has(f, sub)' PROVE Has(f, sub)
        OBVIOUS
      <4>1. CASE users'[f] # NoUser /\ users'[f].sub = sub
        BY <2>1, <2>5, <3>1, <3>2, <4>1 DEF Has
      <4>2. CASE \E c \in Desk : Creating(c, f)' /\ desk'[c].sub = sub
        BY <2>3, <4>2 DEF Has
      <4> QED
        BY <2>2, <4>1, <4>2 DEF Has
    <3>4. \A f \in Email : users'[f] # NoUser =>
            \/ users'[f] = users[f]
            \/ users'[f].id # 1 /\ users'[f].sub # Unlinked
      BY <2>1, <2>5, <3>1, <3>2
    <3>5. Issued'
      BY <2>2, <3>3 DEF Linked, Issued
    <3>6. SeedLinks'
      BY <2>3, <3>3, <3>4 DEF Linked, SeedLinks
    <3>7. LinksSeed'
      BY <2>2 DEF Linked, LinksSeed
    <3> QED
      BY <3>5, <3>6, <3>7 DEF Linked
  <2> QED
    BY <1>3, <2>4, <2>5 DEF CreateRow, Exists
<1> QED
  BY <1>1, <1>2, <1>3

\* The other requests of the desk make no row, no identity and no link.
LEMMA DeskLinked ==
  ASSUME Typed, Linked, NEW d \in Desk,
         \/ \E e \in Email, body \in Bodies : UpdateReads(d, e, body)
         \/ UpdateIdentity(d) \/ UpdateRow(d)
         \/ \E e \in Email : DeleteReads(d, e)
         \/ DeleteIdentity(d) \/ DeleteRow(d)
         \/ Undo(d) \/ DeskDies(d)
  PROVE  Linked'
<1> DEFINE UsersKept == \A e \in Email : users'[e] # NoUser =>
             users[e] # NoUser /\ users'[e].id = users[e].id /\ users'[e].sub = users[e].sub
           PoolKept == \A e \in Email : pool'[e] # NoIdentity =>
             pool[e] # NoIdentity /\ pool'[e].sub = pool[e].sub
           Jobs == \/ desk[d].pc # "idle" /\ (Finish(d) \/ \E pc \in {"row", "undo"} : Goto(d, pc))
                   \/ \E j \in UpdateJob \cup DeleteJob : desk' = [desk EXCEPT ![d] = j]
           Rest == UNCHANGED <<serial, tokens, session>>
<1>1. /\ users \in [Email -> User \cup {NoUser}]
      /\ pool \in [Email -> Identity \cup {NoIdentity}]
  BY DEF Typed, TypeOK
<1>2. desk[d].pc # "idle" => desk[d].email \in Email
  BY DeskType DEF Typed
<1>3. ASSUME NEW e \in Email, NEW body \in Bodies, UpdateReads(d, e, body)
      PROVE  UsersKept /\ PoolKept /\ Jobs /\ Rest
  <2> DEFINE j == [pc |-> IF StatusChanges(body, users[e]) THEN "identity" ELSE "row",
                   op |-> "update", email |-> e, body |-> body, seen |-> users[e]]
  <2>1. users[e] \in User
    BY <1>1, <1>3 DEF UpdateReads, Exists
  <2>2. j \in UpdateJob /\ desk' = [desk EXCEPT ![d] = j]
    BY <1>3, <2>1 DEF UpdateReads, UpdateJob
  <2> QED
    BY <1>3, <2>2 DEF UpdateReads
<1>4. ASSUME NEW e \in Email, DeleteReads(d, e) PROVE UsersKept /\ PoolKept /\ Jobs /\ Rest
  <2> DEFINE j == [pc |-> "identity", op |-> "delete", email |-> e, seen |-> users[e]]
  <2>1. users[e] \in User
    BY <1>1, <1>4 DEF DeleteReads, Exists
  <2>2. j \in DeleteJob /\ desk' = [desk EXCEPT ![d] = j]
    BY <1>4, <2>1 DEF DeleteReads, DeleteJob
  <2> QED
    BY <1>4, <2>2 DEF DeleteReads
<1>5. ASSUME UpdateIdentity(d) \/ DeleteIdentity(d) PROVE UsersKept /\ PoolKept /\ Jobs /\ Rest
  <2>1. UsersKept /\ Jobs /\ Rest
    BY <1>5 DEF UpdateIdentity, DeleteIdentity
  <2>2. PoolKept
    BY <1>1, <1>2, <1>5 DEF UpdateIdentity, DeleteIdentity, Identity, HasIdentity
  <2> QED
    BY <2>1, <2>2
<1>6. ASSUME Undo(d) \/ DeskDies(d) PROVE UsersKept /\ PoolKept /\ Jobs /\ Rest
  <2>1. UsersKept /\ Jobs /\ Rest
    BY <1>6 DEF Undo, DeskDies
  <2>2. PoolKept
    BY <1>1, <1>2, <1>6 DEF Undo, DeskDies, Identity, HasIdentity
  <2> QED
    BY <2>1, <2>2
<1>7. ASSUME UpdateRow(d) PROVE UsersKept /\ PoolKept /\ Jobs /\ Rest
  <2>1. PoolKept /\ Jobs /\ Rest
    BY <1>7 DEF UpdateRow
  <2>2. UsersKept
    <3> DEFINE j == desk[d]
               u == users[j.email]
               branch == WrittenBranch(j)
               new == [u EXCEPT !.role = FinalRole(j.body, u), !.branch = branch,
                                !.status = IF j.body.status = Keep THEN u.status ELSE j.body.status]
    <3>1. j \in UpdateJob /\ j.email \in Email
      BY <1>7, DeskType DEF UpdateRow, Typed
    <3>2. users' = users \/ (users' = [users EXCEPT ![j.email] = new] /\ u.id = j.seen.id)
      BY <1>7 DEF UpdateRow
    <3>3. CASE users' = [users EXCEPT ![j.email] = new] /\ u.id = j.seen.id
      <4>1. u \in User
        BY <1>1, <3>1, <3>3 DEF UpdateJob, User, NoUser
      <4>2. new.id = u.id /\ new.sub = u.sub /\ u # NoUser
        BY <4>1 DEF User, NoUser
      <4> QED
        BY <1>1, <3>1, <3>3, <4>2
    <3> QED
      BY <3>2, <3>3
  <2> QED
    BY <2>1, <2>2
<1>8. ASSUME DeleteRow(d) PROVE UsersKept /\ PoolKept /\ Jobs /\ Rest
  <2>1. PoolKept /\ Jobs /\ Rest
    BY <1>8 DEF DeleteRow
  <2>2. UsersKept
    BY <1>1, <1>2, <1>8 DEF DeleteRow
  <2> QED
    BY <2>1, <2>2
<1>9. UsersKept /\ PoolKept /\ Jobs /\ Rest
  BY <1>3, <1>4, <1>5, <1>6, <1>7, <1>8
<1>10. \A c \in Desk, e \in Email : Creating(c, e)' => Creating(c, e) /\ desk'[c].sub = desk[c].sub
  BY <1>9, DeskMoves
<1> QED
  BY <1>9, <1>10, DeskKept

LEMMA BranchLinked ==
  ASSUME Typed, Linked, NEW b \in Branch,
         BranchCreate(b) \/ BranchDelete(b) \/ \E status \in Status : BranchUpdate(b, status)
  PROVE  Linked'
<1>1. UNCHANGED <<serial, tokens, session, desk, pool>>
  BY DEF BranchCreate, BranchDelete, BranchUpdate
<1>2. \A e \in Email : users'[e] # NoUser =>
        users[e] # NoUser /\ users'[e].id = users[e].id /\ users'[e].sub = users[e].sub
  <2>1. users \in [Email -> User \cup {NoUser}]
    BY DEF Typed, TypeOK
  <2> QED
    BY <2>1 DEF BranchCreate, BranchDelete, BranchUpdate, Exists, User
<1>3. \A c \in Desk, e \in Email : Creating(c, e)' => Creating(c, e) /\ desk'[c].sub = desk[c].sub
  BY <1>1 DEF Creating
<1> QED
  BY <1>1, <1>2, <1>3, DeskKept

LEMMA SignInLinked == ASSUME Typed, Linked, NEW e \in Email, SignIn(e) PROVE Linked'
<1>1. /\ UNCHANGED <<users, pool, desk, session, serial>>
      /\ tokens' = tokens \cup {[email |-> e, sub |-> pool[e].sub]} /\ pool[e] # NoIdentity
  BY DEF SignIn, HasIdentity
<1>2. \A f \in Email, sub \in Account : Has(f, sub)' => Has(f, sub)
  BY <1>1 DEF Has, Creating
<1>3. LinksSeed'
  BY <1>1 DEF Linked, LinksSeed
<1> QED
  BY <1>1, <1>2, <1>3, LinkedKept DEF Creating

\* A token about to be linked is of the seed's identity, if the row it was
\* matched with is still there.
LEMMA LinkIsSeeds ==
  ASSUME Typed, Linked, NEW s \in Session, session[s].pc = "linking",
         users[session[s].token.email].id = session[s].seen
  PROVE  LET t == session[s].token IN
         /\ t \in tokens /\ t.email \in Email /\ t.sub = 1
         /\ users[t.email] \in User /\ users[t.email].sub \in {Unlinked, 1}
<1> DEFINE t == session[s].token
<1>1. t \in tokens /\ t \in Token /\ session[s].seen = 1
  BY DEF Linked, LinksSeed, Typed, TypeOK
<1>2. t.email \in Email /\ t.sub \in Account
  BY <1>1 DEF Token
<1>3. users[t.email] # NoUser /\ users[t.email] \in User /\ users[t.email].id = 1
  BY <1>1, <1>2 DEF NoUser, Typed, TypeOK
<1>4. Has(t.email, t.sub)
  BY <1>1 DEF Has
<1>5. t.sub = 1
  BY <1>2, <1>3, <1>4 DEF Linked, SeedLinks
<1>6. users[t.email].sub # Unlinked => Has(t.email, users[t.email].sub) /\ users[t.email].sub \in Account
  BY <1>3 DEF Has, User
<1>7. users[t.email].sub \in {Unlinked, 1}
  BY <1>2, <1>3, <1>6 DEF Linked, SeedLinks
<1> QED
  BY <1>1, <1>2, <1>3, <1>5, <1>7

LEMMA SessionLinked == ASSUME Typed, Linked, NEW s \in Session, SessionStep(s) PROVE Linked'
<1>1. UNCHANGED <<pool, desk, tokens, serial>>
  BY DEF SessionStep, GuardReads, GuardMatches, GuardLinks, CreateImport, CreateExport, Answer
<1>2. \A c \in Desk, e \in Email : Creating(c, e)' <=> Creating(c, e)
  BY <1>1 DEF Creating
<1>3. session \in [Session -> {IdleSession} \cup Unmatched \cup Linking \cup Serving]
  BY DEF Typed, TypeOK
<1>4. ASSUME users' = users, LinksSeed' PROVE Linked'
  <2>1. \A e \in Email, sub \in Account : Has(e, sub)' => Has(e, sub)
    BY <1>1, <1>2, <1>4 DEF Has
  <2> QED
    BY <1>1, <1>2, <1>4, <2>1, LinkedKept
<1>5. ASSUME session' = [session EXCEPT ![s] = IdleSession] PROVE LinksSeed'
  BY <1>1, <1>3, <1>5 DEF Linked, LinksSeed, IdleSession
<1>6. ASSUME NEW t \in tokens, NEW u, Admit(s, t, u) PROVE LinksSeed'
  BY <1>1, <1>3, <1>6 DEF Linked, LinksSeed, Admit
<1>7. ASSUME NEW t \in tokens, GuardReads(s, t) PROVE Linked'
  <2>1. users' = users
    BY <1>7 DEF GuardReads
  <2>2. CASE \E u : Admit(s, t, u)
    BY <1>4, <1>6, <2>1, <2>2
  <2>3. CASE session' = [session EXCEPT ![s] = [pc |-> "unmatched", token |-> t]]
    <3>1. LinksSeed'
      BY <1>1, <1>3, <2>3 DEF Linked, LinksSeed
    <3> QED
      BY <1>4, <2>1, <3>1
  <2> QED
    BY <1>7, <2>2, <2>3 DEF GuardReads
<1>10. CASE GuardMatches(s)
  <2> DEFINE t == session[s].token
  <2>1. users' = users /\ t \in tokens
    BY <1>10 DEF GuardMatches, Linked, LinksSeed
  <2>2. CASE ~Linkable(users[t.email])
    BY <1>4, <1>5, <1>10, <2>1, <2>2 DEF GuardMatches
  <2>3. CASE Linkable(users[t.email])
    <3>1. session' = [session EXCEPT ![s] = [pc |-> "linking", token |-> t, seen |-> users[t.email].id]]
      BY <1>10, <2>3 DEF GuardMatches
    <3>2. t.email \in Email
      BY <2>1 DEF Typed, TypeOK, Token
    <3>3. users[t.email].id = 1
      BY <2>3, <3>2 DEF Linkable, Linked, SeedLinks
    <3>4. LinksSeed'
      BY <1>1, <1>3, <2>1, <3>1, <3>3 DEF Linked, LinksSeed
    <3> QED
      BY <1>4, <2>1, <3>4
  <2> QED
    BY <2>2, <2>3
<1>8. CASE GuardLinks(s)
  <2> DEFINE t == session[s].token
             linked == [users[t.email] EXCEPT !.sub = t.sub]
  <2>1. session[s].pc = "linking" /\ t \in tokens
    BY <1>8 DEF GuardLinks, Linked, LinksSeed
  <2>2. LinksSeed'
    BY <1>5, <1>6, <1>8, <2>1 DEF GuardLinks
  <2>3. CASE users[t.email].id # session[s].seen
    BY <1>4, <1>8, <2>2, <2>3 DEF GuardLinks
  <2>4. CASE users[t.email].id = session[s].seen
    <3>1. /\ t.email \in Email /\ t.sub = 1 /\ users[t.email] \in User
          /\ users[t.email].sub \in {Unlinked, 1}
      BY <2>1, <2>4, LinkIsSeeds
    <3>2. users' = [users EXCEPT ![t.email] = linked] /\ users \in [Email -> User \cup {NoUser}]
      BY <1>8, <2>4 DEF GuardLinks, Typed, TypeOK
    <3>3. linked.sub = t.sub /\ linked.id = users[t.email].id /\ users[t.email] # NoUser
      BY <3>1 DEF User, NoUser
    <3>4. \A e \in Email, sub \in Account : Has(e, sub)' => Has(e, sub)
      BY <1>1, <1>2, <2>1, <3>1, <3>2, <3>3 DEF Has
    <3>5. \A e \in Email : users'[e] # NoUser =>
            /\ users[e] # NoUser /\ users'[e].id = users[e].id
            /\ users'[e].sub = users[e].sub \/ users'[e].sub # Unlinked
      BY <3>1, <3>2, <3>3 DEF Unlinked
    <3> QED
      BY <1>1, <1>2, <2>2, <3>4, <3>5, LinkedKept
  <2> QED
    BY <2>3, <2>4
<1>9. CASE (\E b \in Branch : CreateImport(s, b)) \/ (\E q \in Branch \cup {Null} : CreateExport(s, q)) \/ Answer(s)
  <2>1. users' = users /\ session' = [session EXCEPT ![s] = IdleSession]
    BY <1>9 DEF CreateImport, CreateExport, Answer, Serve
  <2> QED
    BY <1>4, <1>5, <2>1
<1> QED
  BY <1>7, <1>8, <1>9, <1>10 DEF SessionStep

LEMMA StepLinked == Typed /\ Linked /\ [Next]_vars => Linked'
<1> SUFFICES ASSUME Typed, Linked, [Next]_vars PROVE Linked'
  OBVIOUS
<1>1. CASE UNCHANGED vars
  BY <1>1 DEF vars, Linked, Issued, SeedLinks, LinksSeed, Has, Creating
<1> QED
  BY <1>1, CreateLinked, DeskLinked, BranchLinked, SessionLinked, SignInLinked DEF Next, DeskStep

-----------------------------------------------------------------------------
(* What follows for clients. *)

\* However the desk's requests and the clients' interleave and whatever fails, a
\* row that is linked to an identity is never linked to another one: the guard
\* only links the seed's rows, and their e-mail has no other identity while
\* they are there.
THEOREM LinkedOnceAlways == Spec => LinkedOnce
<1> DEFINE Once(e) == users[e] # NoUser /\ users'[e] # NoUser /\ users'[e].id = users[e].id
                        /\ users[e].sub # Unlinked => users'[e].sub = users[e].sub
<1>1. ASSUME Typed, Linked, [Next]_vars, NEW e \in Email PROVE Once(e)
  <2>1. users \in [Email -> User \cup {NoUser}]
    BY <1>1 DEF Typed, TypeOK
  <2>2. CASE UNCHANGED users
    BY <2>2
  <2>3. ASSUME NEW d \in Desk, CreateRow(d) PROVE Once(e)
    <3>1. users' = users \/ \E u : users' = [users EXCEPT ![desk[d].email] = u] /\ users[desk[d].email] = NoUser
      BY <2>3 DEF CreateRow, Exists
    <3> QED
      BY <2>1, <3>1
  <2>4. ASSUME NEW d \in Desk, UpdateRow(d) PROVE Once(e)
    <3> DEFINE j == desk[d]
               u == users[j.email]
               branch == WrittenBranch(j)
               new == [u EXCEPT !.role = FinalRole(j.body, u), !.branch = branch,
                                !.status = IF j.body.status = Keep THEN u.status ELSE j.body.status]
    <3>1. users' = users \/ users' = [users EXCEPT ![j.email] = new]
      BY <2>4 DEF UpdateRow
    <3>2. j.email \in Email
      BY <1>1, <2>4, DeskType DEF UpdateRow, Typed
    <3>3. u \in User => new.sub = u.sub
      BY DEF User
    <3>4. u \in User => new.id = u.id
      BY DEF User
    <3>5. u = NoUser => new = NoUser
      BY DEF NoUser
    <3> QED
      BY <2>1, <3>1, <3>2, <3>3, <3>4, <3>5
  <2>5. ASSUME NEW d \in Desk, DeleteRow(d) PROVE Once(e)
    BY <2>1, <2>5 DEF DeleteRow
  <2>6. ASSUME NEW b \in Branch, BranchDelete(b) PROVE Once(e)
    BY <2>1, <2>6 DEF BranchDelete, User
  <2>7. ASSUME NEW s \in Session, GuardLinks(s) PROVE Once(e)
    <3> DEFINE t == session[s].token
    <3>1. CASE users[t.email].id # session[s].seen
      BY <2>7, <3>1 DEF GuardLinks
    <3>2. CASE users[t.email].id = session[s].seen
      <4>1. /\ t.sub = 1 /\ users[t.email] \in User /\ users[t.email].sub \in {Unlinked, 1}
        BY <1>1, <2>7, <3>2, LinkIsSeeds DEF GuardLinks
      <4>2. users' = [users EXCEPT ![t.email] = [users[t.email] EXCEPT !.sub = t.sub]]
        BY <2>7, <3>2 DEF GuardLinks
      <4> QED
        BY <2>1, <4>1, <4>2 DEF User
    <3> QED
      BY <3>1, <3>2
  <2>8. UNCHANGED users
          \/ (\E d \in Desk : CreateRow(d) \/ UpdateRow(d) \/ DeleteRow(d))
          \/ (\E b \in Branch : BranchDelete(b)) \/ (\E s \in Session : GuardLinks(s))
    BY <1>1 DEF Next, DeskStep, SessionStep, vars, CreateReads, CreateIdentity, UpdateReads,
       UpdateIdentity, DeleteReads, DeleteIdentity, Undo, DeskDies, BranchCreate, BranchUpdate,
       SignIn, GuardReads, GuardMatches, CreateImport, CreateExport, Answer
  <2> QED
    BY <2>2, <2>3, <2>4, <2>5, <2>6, <2>7, <2>8
<1>2. Typed /\ Linked /\ [Next]_vars =>
        [\A e \in Email :
          users[e] # NoUser /\ users'[e] # NoUser /\ users'[e].id = users[e].id
             /\ users[e].sub # Unlinked
          => users'[e].sub = users[e].sub]_vars
  BY <1>1
<1> QED
  BY InitTyped, StepTyped, InitLinked, StepLinked, <1>2, PTL DEF Spec, LinkedOnce

\* A request is only served as an account that is ACTIVE at that moment and
\* linked to the identity of its token, under the token's own e-mail, although
\* the guard decides on what it read before it links.
THEOREM AdmittedIsCurrentAlways == Spec => AdmittedIsCurrent
<1> DEFINE Current(s) ==
             session'[s].pc = "serving" /\ session[s].pc # "serving" =>
               LET t == session'[s].token
                   u == users'[t.email]
               IN  /\ u # NoUser /\ u.status = "ACTIVE" /\ u.sub = t.sub
                   /\ session'[s].actor = ActorOf(u)
<1>1. ASSUME Typed, Linked, [Next]_vars, NEW s \in Session PROVE Current(s)
  <2>1. /\ users \in [Email -> User \cup {NoUser}]
        /\ session \in [Session -> {IdleSession} \cup Unmatched \cup Linking \cup Serving]
    BY <1>1 DEF Typed, TypeOK
  <2>2. CASE session'[s] = session[s]
    BY <2>2
  <2>3. ASSUME NEW c \in Session, session' = [session EXCEPT ![c] = IdleSession] PROVE Current(s)
    BY <2>1, <2>3 DEF IdleSession
  <2>4. ASSUME NEW c \in Session, NEW t \in tokens, GuardReads(c, t) PROVE Current(s)
    <3>1. t.email \in Email /\ t.sub \in Account
      BY <1>1 DEF Typed, TypeOK, Token
    <3>2. ASSUME NEW e \in Email, Exists(e), users[e].sub = t.sub, users[e].status = "ACTIVE",
                 Admit(c, t, users[e]), users' = users
          PROVE  Current(s)
      <4>1. Has(e, t.sub) /\ Has(t.email, t.sub)
        BY <3>2 DEF Has, Exists
      <4>2. e = t.email
        BY <1>1, <3>1, <4>1 DEF Linked, Issued
      <4> QED
        BY <2>1, <3>2, <4>2 DEF Admit, Exists
    <3>3. ASSUME session' = [session EXCEPT ![c] = [pc |-> "unmatched", token |-> t]]
          PROVE  Current(s)
      BY <2>1, <3>3
    <3> QED
      BY <2>4, <3>2, <3>3 DEF GuardReads
  <2>7. ASSUME NEW c \in Session, GuardMatches(c) PROVE Current(s)
    BY <2>1, <2>7 DEF GuardMatches, IdleSession
  <2>5. ASSUME NEW c \in Session, GuardLinks(c) PROVE Current(s)
    <3> DEFINE t == session[c].token
               linked == [users[t.email] EXCEPT !.sub = t.sub]
    <3>1. CASE users[t.email].id # session[c].seen
      BY <2>1, <2>5, <3>1 DEF GuardLinks, IdleSession
    <3>2. CASE users[t.email].id = session[c].seen
      <4>1. t.email \in Email /\ users[t.email] \in User
        BY <1>1, <2>5, <3>2, LinkIsSeeds DEF GuardLinks
      <4>2. users' = [users EXCEPT ![t.email] = linked]
        BY <2>5, <3>2 DEF GuardLinks
      <4>3. users'[t.email] = linked /\ linked.sub = t.sub /\ linked # NoUser
        BY <2>1, <4>1, <4>2 DEF User, NoUser
      <4>4. CASE linked.status = "ACTIVE" /\ Admit(c, t, linked)
        BY <2>1, <4>3, <4>4 DEF Admit
      <4>5. CASE session' = [session EXCEPT ![c] = IdleSession]
        BY <2>3, <4>5
      <4> QED
        BY <2>5, <3>2, <4>4, <4>5 DEF GuardLinks
    <3> QED
      BY <3>1, <3>2
  <2>6. \/ UNCHANGED session
        \/ \E c \in Session : \/ \E t \in tokens : GuardReads(c, t)
                              \/ GuardMatches(c) \/ GuardLinks(c)
                              \/ session' = [session EXCEPT ![c] = IdleSession]
    <3>1. ASSUME NEW d \in Desk, DeskStep(d) PROVE UNCHANGED session
      BY <3>1 DEF DeskStep, CreateReads, CreateIdentity, CreateRow, UpdateReads, UpdateIdentity,
         UpdateRow, DeleteReads, DeleteIdentity, DeleteRow, Undo, DeskDies
    <3>2. ASSUME NEW c \in Session, SessionStep(c)
          PROVE  \/ \E t \in tokens : GuardReads(c, t)
                 \/ GuardMatches(c) \/ GuardLinks(c)
                 \/ session' = [session EXCEPT ![c] = IdleSession]
      BY <3>2 DEF SessionStep, CreateImport, CreateExport, Answer, Serve
    <3>3. ASSUME NEW b \in Branch,
                 BranchCreate(b) \/ BranchDelete(b) \/ \E status \in Status : BranchUpdate(b, status)
          PROVE  UNCHANGED session
      BY <3>3 DEF BranchCreate, BranchDelete, BranchUpdate
    <3>4. ASSUME NEW e \in Email, SignIn(e) PROVE UNCHANGED session
      BY <3>4 DEF SignIn
    <3>5. CASE UNCHANGED vars
      BY <3>5 DEF vars
    <3>6. CASE Next
      <4>1. CASE \E d \in Desk : DeskStep(d)
        BY <3>1, <4>1
      <4>2. CASE \E c \in Session : SessionStep(c)
        BY <3>2, <4>2
      <4>3. CASE \E e \in Email : SignIn(e)
        BY <3>4, <4>3
      <4>4. CASE \E b \in Branch : BranchCreate(b) \/ BranchDelete(b)
        BY <3>3, <4>4
      <4>5. CASE \E b \in Branch, status \in Status : BranchUpdate(b, status)
        BY <3>3, <4>5
      <4> QED
        BY <3>6, <4>1, <4>2, <4>3, <4>4, <4>5 DEF Next
    <3> QED
      BY <1>1, <3>5, <3>6
  <2> QED
    BY <2>2, <2>3, <2>4, <2>5, <2>6, <2>7
<1>2. Typed /\ Linked /\ [Next]_vars =>
        [\A s \in Session :
          session'[s].pc = "serving" /\ session[s].pc # "serving" =>
             LET t == session'[s].token
                 u == users'[t.email]
             IN  /\ u # NoUser /\ u.status = "ACTIVE" /\ u.sub = t.sub
                 /\ session'[s].actor = ActorOf(u)]_vars
  BY <1>1
<1> QED
  BY InitTyped, StepTyped, InitLinked, StepLinked, <1>2, PTL DEF Spec, AdmittedIsCurrent

-----------------------------------------------------------------------------
(* The two stores, when the desk has one request at a time. *)

OneDesk == \A c, d \in Desk : c = d

\* What StoresAgree says of an e-mail.
Matched(e) ==
    /\ Exists(e) = HasIdentity(e)
    /\ Exists(e) => /\ pool[e].enabled = (users[e].status = "ACTIVE")
                    /\ users[e].sub \in {Unlinked, pool[e].sub}

\* What an update has made of the identity when it comes to the row.
Wanted(j) == IF StatusChanges(j.body, j.seen) THEN j.body.status ELSE j.seen.status

\* How the stores stand to each other while a request is half way.
Midway(j) ==
    LET e == j.email IN
    /\ j.pc = "identity" => Matched(e)
    /\ j.op = "create" =>
         /\ ~Exists(e)
         /\ j.pc = "row" => HasIdentity(e) /\ pool[e].sub = j.sub /\ pool[e].enabled = TRUE
    /\ j.op # "create" => Exists(e) /\ users[e].id = j.seen.id
    /\ j.op = "update" =>
         /\ HasIdentity(e) /\ users[e].sub \in {Unlinked, pool[e].sub}
         /\ users[e].status = j.seen.status
         /\ j.pc = "identity" => StatusChanges(j.body, j.seen)
         /\ j.pc = "row" => pool[e].enabled = (Wanted(j) = "ACTIVE")
    /\ j.op = "delete" /\ j.pc = "row" => ~HasIdentity(e)

Paired ==
    \A e \in Email \ damaged :
        /\ ~Working(e) => Matched(e)
        /\ \A d \in Desk : desk[d].pc # "idle" /\ desk[d].email = e => Midway(desk[d])

LEMMA InitPaired == Init => Paired
<1> SUFFICES ASSUME Init PROVE Paired
  OBVIOUS
<1>1. PICK seeded \in Email, role \in Role, home \in Branch, linked \in BOOLEAN :
        users = [e \in Email |->
                    IF e # seeded THEN NoUser
                    ELSE [id |-> 1, role |-> role, status |-> "ACTIVE",
                          branch |-> IF InBranch(role) THEN home ELSE Null,
                          sub |-> IF linked THEN 1 ELSE Unlinked]]
        /\ pool = [e \in Email |-> IF e # seeded THEN NoIdentity ELSE [sub |-> 1, enabled |-> TRUE]]
  BY DEF Init
<1>2. \A d \in Desk : desk[d].pc = "idle"
  BY DEF Init, IdleDesk
<1>3. ASSUME NEW e \in Email PROVE Matched(e)
  <2>1. CASE e = seeded
    <3>1. /\ users[e] # NoUser /\ users[e].status = "ACTIVE" /\ users[e].sub \in {1, Unlinked}
          /\ pool[e] # NoIdentity /\ pool[e].enabled = TRUE /\ pool[e].sub = 1
      BY <1>1, <2>1 DEF NoUser, NoIdentity
    <3> QED
      BY <3>1 DEF Matched, Exists, HasIdentity
  <2>2. CASE e # seeded
    BY <1>1, <2>2 DEF Matched, Exists, HasIdentity
  <2> QED
    BY <2>1, <2>2
<1> QED
  BY <1>2, <1>3 DEF Paired

\* A step that leaves the desk and the pool alone, no account's row comes or
\* goes, and a row is linked, if at all, to the identity of its e-mail.
LEMMA RowsKept ==
  ASSUME Typed, Paired, UNCHANGED <<pool, desk, damaged>>,
         \A e \in Email :
           /\ Exists(e)' <=> Exists(e)
           /\ Exists(e) => /\ users'[e].id = users[e].id /\ users'[e].status = users[e].status
                           /\ \/ users'[e].sub = users[e].sub
                              \/ HasIdentity(e) => users'[e].sub = pool[e].sub
  PROVE  Paired'
<1>1. \A e \in Email : Working(e)' <=> Working(e)
  BY DEF Working
<1>2. \A e \in Email : HasIdentity(e)' <=> HasIdentity(e)
  BY DEF HasIdentity
<1>3. \A e \in Email : Matched(e) => Matched(e)'
  BY <1>2 DEF Matched, Exists, HasIdentity
<1>4. ASSUME NEW d \in Desk, desk[d].pc # "idle", Midway(desk[d]) PROVE Midway(desk[d])'
  <2>1. desk[d].email \in Email /\ desk'[d] = desk[d]
    BY <1>4, DeskType DEF Typed
  <2> QED
    BY <1>2, <1>3, <1>4, <2>1 DEF Midway, Wanted, StatusChanges
<1> QED
  BY <1>1, <1>3, <1>4 DEF Paired

\* A step of the only request there is, for an e-mail it had or takes on.
LEMMA OnlyRequest ==
  ASSUME OneDesk, Typed, Paired, NEW d \in Desk, NEW e \in Email,
         desk[d].pc = "idle" \/ desk[d].email = e,
         \A f \in Email : f # e => users'[f] = users[f] /\ pool'[f] = pool[f],
         damaged \subseteq damaged',
         desk'[d].pc # "idle" => desk'[d].email = e,
         e \notin damaged' => IF desk'[d].pc = "idle" THEN Matched(e)' ELSE Midway(desk[d])'
  PROVE  Paired'
<1>1. \A c \in Desk : c = d
  BY DEF OneDesk
<1>2. ASSUME NEW f \in Email \ damaged', f # e PROVE Matched(f)'
  <2>1. ~Working(f) /\ f \notin damaged
    BY <1>1, <1>2 DEF Working
  <2>2. Matched(f) /\ users'[f] = users[f] /\ pool'[f] = pool[f]
    BY <1>2, <2>1 DEF Paired
  <2> QED
    BY <2>2 DEF Matched, Exists, HasIdentity
<1>3. Working(e)' <=> desk'[d].pc # "idle"
  BY <1>1 DEF Working
<1> QED
  BY <1>1, <1>2, <1>3 DEF Paired

LEMMA StartPaired ==
  ASSUME OneDesk, Typed, Paired, NEW d \in Desk, NEW e \in Email,
         \/ \E role \in Role, b \in Branch : CreateReads(d, e, role, b)
         \/ \E body \in Bodies : UpdateReads(d, e, body)
         \/ DeleteReads(d, e)
  PROVE  Paired'
<1>1. /\ desk[d].pc = "idle" /\ UNCHANGED <<users, pool, damaged>>
      /\ users[e] \in User \cup {NoUser} /\ DOMAIN desk = Desk
  BY DEF CreateReads, UpdateReads, DeleteReads, Sound, Typed, TypeOK
<1>2. e \notin damaged => Matched(e)
  BY <1>1 DEF OneDesk, Paired, Working
<1>3. Exists(e)' = Exists(e) /\ HasIdentity(e)' = HasIdentity(e) /\ Matched(e)' = Matched(e)
  BY <1>1 DEF Matched, Exists, HasIdentity
<1>4. ASSUME NEW role \in Role, NEW b \in Branch, CreateReads(d, e, role, b)
      PROVE  desk'[d].email = e /\ desk'[d].pc # "idle" /\ (e \notin damaged => Midway(desk[d])')
  <2>1. desk'[d].email = e /\ desk'[d].pc = "identity" /\ desk'[d].op = "create" /\ ~Exists(e)
    BY <1>1, <1>4 DEF CreateReads
  <2> QED
    BY <1>2, <1>3, <2>1 DEF Midway
<1>5. ASSUME DeleteReads(d, e)
      PROVE  desk'[d].email = e /\ desk'[d].pc # "idle" /\ (e \notin damaged => Midway(desk[d])')
  <2>1. /\ desk'[d].email = e /\ desk'[d].pc = "identity" /\ desk'[d].op = "delete" /\ Exists(e)
        /\ desk'[d].seen = users[e]
    BY <1>1, <1>5 DEF DeleteReads
  <2> QED
    BY <1>1, <1>2, <1>3, <2>1 DEF Midway
<1>6. ASSUME NEW body \in Bodies, UpdateReads(d, e, body)
      PROVE  desk'[d].email = e /\ desk'[d].pc # "idle" /\ (e \notin damaged => Midway(desk[d])')
  <2>1. /\ desk'[d].email = e /\ desk'[d].op = "update" /\ Exists(e)
        /\ desk'[d].seen = users[e] /\ desk'[d].body = body
        /\ desk'[d].pc = IF StatusChanges(body, users[e]) THEN "identity" ELSE "row"
    BY <1>1, <1>6 DEF UpdateReads
  <2>2. desk'[d].pc = "row" => (Wanted(desk[d]) = users[e].status)'
    BY <1>1, <2>1 DEF Wanted
  <2>3. Matched(e) => /\ HasIdentity(e) /\ users[e].sub \in {Unlinked, pool[e].sub}
                      /\ pool[e].enabled = (users[e].status = "ACTIVE")
    BY <2>1 DEF Matched
  <2> QED
    BY <1>1, <1>2, <1>3, <2>1, <2>2, <2>3 DEF Midway
<1> QED
  BY <1>1, <1>4, <1>5, <1>6, OnlyRequest

\* A request under way ends, or goes on to its next step.
LEMMA FinishMeans == ASSUME Typed, NEW d \in Desk, Finish(d) PROVE desk'[d].pc = "idle"
BY DEF Finish, IdleDesk, Typed, TypeOK

LEMMA GotoMeans ==
  ASSUME Typed, NEW d \in Desk, desk[d].pc # "idle", NEW pc \in {"row", "undo"}, Goto(d, pc)
  PROVE  /\ desk'[d].pc = pc /\ desk'[d].op = desk[d].op /\ desk'[d].email = desk[d].email
         /\ desk[d].op = "create" => desk'[d].sub = desk[d].sub
         /\ desk[d].op = "update" => desk'[d].body = desk[d].body
         /\ desk[d].op # "create" => desk'[d].seen = desk[d].seen
         /\ Wanted(desk[d])' = Wanted(desk[d]) \/ desk[d].op # "update"
<1>1. /\ desk[d] \in CreateJob \cup UpdateJob \cup DeleteJob
      /\ desk[d].op = "create" => desk[d] \in CreateJob
      /\ desk[d].op = "update" => desk[d] \in UpdateJob
      /\ desk[d].op = "delete" => desk[d] \in DeleteJob
  BY DeskType DEF Typed
<1>2. desk'[d] = [desk[d] EXCEPT !.pc = pc]
  BY DEF Goto, Typed, TypeOK
<1>3. /\ desk'[d].pc = pc /\ desk'[d].op = desk[d].op /\ desk'[d].email = desk[d].email
      /\ desk[d].op = "create" => desk'[d].sub = desk[d].sub
      /\ desk[d].op = "update" => desk'[d].body = desk[d].body
      /\ desk[d].op # "create" => desk'[d].seen = desk[d].seen
  BY <1>1, <1>2 DEF CreateJob, UpdateJob, DeleteJob
<1>4. desk[d].op = "update" => Wanted(desk[d])' = Wanted(desk[d])
  BY <1>3 DEF Wanted, StatusChanges
<1> QED
  BY <1>3, <1>4

LEMMA CreatePaired ==
  ASSUME OneDesk, Typed, Paired, NEW d \in Desk, CreateIdentity(d) \/ CreateRow(d)
  PROVE  Paired'
<1> DEFINE j == desk[d]
<1>0. PICK e : e = j.email
  OBVIOUS
<1>1. /\ j \in CreateJob /\ e \in Email /\ j.pc \in {"identity", "row"} /\ j.op = "create"
      /\ DOMAIN desk = Desk /\ users \in [Email -> User \cup {NoUser}]
      /\ pool \in [Email -> Identity \cup {NoIdentity}]
  BY <1>0, DeskType DEF CreateIdentity, CreateRow, Typed, TypeOK
<1>2. e \notin damaged => Midway(j)
  BY <1>0, <1>1 DEF Paired
<1>3. e \notin damaged => ~Exists(e) /\ (j.pc = "identity" => ~HasIdentity(e))
  BY <1>0, <1>1, <1>2 DEF Midway, Matched
<1>4. CASE CreateIdentity(d)
  <2>1. j.pc = "identity" /\ users' = users
    BY <1>0, <1>4 DEF CreateIdentity
  <2> DEFINE born == [pool EXCEPT ![e] = [sub |-> serial', enabled |-> TRUE]]
  <2>2. CASE Finish(d) /\ (e \in damaged' \/ UNCHANGED <<pool, damaged>>)
    <3>1. /\ damaged \subseteq damaged'
          /\ \A f \in Email : f # e => pool'[f] = pool[f]
      BY <1>0, <1>1, <1>4 DEF CreateIdentity, Sound
    <3>2. e \notin damaged' => Matched(e)'
      BY <1>2, <1>0, <2>1, <2>2 DEF Midway, Matched, Exists, HasIdentity
    <3> QED
      BY <1>0, <1>1, <2>1, <2>2, <3>1, <3>2, FinishMeans, OnlyRequest
  <2>3. CASE desk' = [desk EXCEPT ![d].pc = "row", ![d].sub = serial'] /\ Sound /\ pool' = born
    <3>1. /\ desk'[d].pc = "row" /\ desk'[d].sub = serial' /\ desk'[d].op = "create"
          /\ desk'[d].email = e
      BY <1>0, <1>1, <2>3 DEF CreateJob
    <3>2. pool' = [pool EXCEPT ![e] = [sub |-> serial', enabled |-> TRUE]] /\ damaged' = damaged
      BY <2>3 DEF Sound
    <3>3. pool'[e] = [sub |-> serial', enabled |-> TRUE] /\ pool'[e] # NoIdentity
      BY <1>0, <1>1, <3>2 DEF NoIdentity
    <3>4. e \notin damaged => Midway(desk[d])'
      BY <1>3, <2>1, <3>1, <3>3 DEF Midway, Exists, HasIdentity
    <3> QED
      BY <1>0, <1>1, <2>1, <3>1, <3>2, <3>4, OnlyRequest
  <2> QED
    BY <1>0, <1>1, <1>4, <2>2, <2>3 DEF CreateIdentity, Sound
<1>5. CASE CreateRow(d)
  <2> DEFINE u == [id |-> j.sub, role |-> j.role, branch |-> j.branch, status |-> "ACTIVE", sub |-> j.sub]
  <2>1. j.pc = "row" /\ pool' = pool /\ damaged' = damaged
    BY <1>5 DEF CreateRow, Sound
  <2>2. CASE Finish(d) /\ users' = [users EXCEPT ![e] = u]
    <3>1. users'[e] = u /\ users'[e].status = "ACTIVE" /\ users'[e].sub = j.sub /\ users'[e] # NoUser
      BY <1>0, <1>1, <2>2 DEF NoUser
    <3>2. e \notin damaged => Matched(e)'
      BY <1>0, <1>1, <1>2, <2>1, <3>1 DEF Midway, Matched, Exists, HasIdentity
    <3>3. \A f \in Email : f # e => users'[f] = users[f]
      BY <1>0, <1>1, <2>2
    <3> QED
      BY <1>0, <1>1, <2>1, <2>2, <3>2, <3>3, FinishMeans, OnlyRequest
  <2>3. CASE Goto(d, "undo") /\ users' = users
    <3>1. desk'[d].pc = "undo" /\ desk'[d].op = "create" /\ desk'[d].email = e
      BY <1>0, <1>1, <2>1, <2>3, GotoMeans
    <3>2. e \notin damaged => Midway(desk[d])'
      BY <1>3, <2>3, <3>1 DEF Midway, Exists
    <3> QED
      BY <1>0, <1>1, <2>1, <2>3, <3>1, <3>2, OnlyRequest
  <2> QED
    BY <1>0, <1>5, <2>2, <2>3 DEF CreateRow
<1> QED
  BY <1>4, <1>5

LEMMA UpdatePaired ==
  ASSUME OneDesk, Typed, Paired, NEW d \in Desk, UpdateIdentity(d) \/ UpdateRow(d)
  PROVE  Paired'
<1> DEFINE j == desk[d]
<1>0. PICK e : e = j.email
  OBVIOUS
<1>1. /\ j \in UpdateJob /\ e \in Email /\ j.pc \in {"identity", "row"} /\ j.op = "update"
      /\ DOMAIN desk = Desk /\ users \in [Email -> User \cup {NoUser}]
      /\ pool \in [Email -> Identity \cup {NoIdentity}]
  BY <1>0, DeskType DEF UpdateIdentity, UpdateRow, Typed, TypeOK
<1>2. e \notin damaged => Midway(j)
  BY <1>0, <1>1 DEF Paired
<1>3. e \notin damaged => /\ Exists(e) /\ HasIdentity(e) /\ users[e].id = j.seen.id
                          /\ users[e].sub \in {Unlinked, pool[e].sub}
                          /\ users[e].status = j.seen.status
                          /\ j.pc = "identity" => StatusChanges(j.body, j.seen)
                          /\ j.pc = "row" => pool[e].enabled = (Wanted(j) = "ACTIVE")
  BY <1>0, <1>1, <1>2 DEF Midway
<1>4. CASE UpdateIdentity(d)
  <2>1. j.pc = "identity" /\ users' = users
    BY <1>4 DEF UpdateIdentity
  <2> DEFINE set == [pool EXCEPT ![e].enabled = (j.body.status = "ACTIVE")]
  <2>2. CASE Finish(d) /\ (e \in damaged' \/ UNCHANGED <<pool, damaged>>)
    <3>1. damaged \subseteq damaged' /\ \A f \in Email : f # e => pool'[f] = pool[f]
      BY <1>0, <1>1, <1>4 DEF UpdateIdentity, Sound
    <3>2. e \notin damaged' => Matched(e)'
      BY <1>2, <1>0, <2>1, <2>2 DEF Midway, Matched, Exists, HasIdentity
    <3> QED
      BY <1>0, <1>1, <2>1, <2>2, <3>1, <3>2, FinishMeans, OnlyRequest
  <2>3. CASE HasIdentity(e) /\ Goto(d, "row") /\ Sound /\ pool' = set
    <3>1. /\ desk'[d].pc = "row" /\ desk'[d].op = "update" /\ desk'[d].email = e
          /\ desk'[d].seen = j.seen /\ Wanted(desk[d])' = Wanted(j)
      BY <1>0, <1>1, <2>1, <2>3, GotoMeans
    <3>2. /\ pool' = [pool EXCEPT ![e] = [pool[e] EXCEPT !.enabled = (j.body.status = "ACTIVE")]]
          /\ damaged' = damaged
      BY <1>1, <2>3 DEF Sound
    <3>3. pool[e] \in Identity
      BY <1>1, <2>3 DEF HasIdentity
    <3>4. /\ pool'[e].enabled = (j.body.status = "ACTIVE") /\ pool'[e].sub = pool[e].sub
          /\ pool'[e] # NoIdentity
      BY <1>1, <3>2, <3>3 DEF Identity, NoIdentity
    <3>5. e \notin damaged => Wanted(j) = j.body.status
      BY <1>3, <2>1 DEF Wanted
    <3>6. e \notin damaged => Midway(desk[d])'
      BY <1>3, <2>1, <3>1, <3>4, <3>5 DEF Midway, Exists, HasIdentity
    <3>7. \A f \in Email : f # e => pool'[f] = pool[f]
      BY <1>1, <3>2
    <3> QED
      BY <1>0, <1>1, <2>1, <3>1, <3>2, <3>6, <3>7, OnlyRequest
  <2> QED
    BY <1>0, <1>1, <1>4, <2>2, <2>3 DEF UpdateIdentity, Sound
<1>5. CASE UpdateRow(d)
  <2> DEFINE u == users[e]
             branch == WrittenBranch(j)
             new == [u EXCEPT !.role = FinalRole(j.body, u), !.branch = branch,
                              !.status = IF j.body.status = Keep THEN u.status ELSE j.body.status]
             Compensates == IF StatusChanges(j.body, j.seen) THEN Goto(d, "undo") ELSE Finish(d)
  <2>1. j.pc = "row" /\ pool' = pool /\ damaged' = damaged
    BY <1>5 DEF UpdateRow, Sound
  <2>2. CASE Finish(d) /\ users' = [users EXCEPT ![e] = new] /\ u.id = j.seen.id
    <3>1. u \in User
      BY <1>1, <2>2 DEF UpdateJob, User, NoUser
    <3>2. /\ new.sub = u.sub /\ new # NoUser
          /\ new.status = IF j.body.status = Keep THEN u.status ELSE j.body.status
      BY <3>1 DEF User, NoUser
    <3>3. users'[e] = new
      BY <1>1, <2>2
    <3> HIDE DEF new
    <3>4. e \notin damaged => new.status = Wanted(j)
      BY <1>3, <3>2 DEF Wanted, StatusChanges
    <3>5. e \notin damaged => Matched(e)'
      BY <1>3, <2>1, <3>2, <3>3, <3>4 DEF Matched, Exists, HasIdentity
    <3>6. \A f \in Email : f # e => users'[f] = users[f]
      BY <1>1, <2>2
    <3> QED
      BY <1>0, <1>1, <2>1, <2>2, <3>5, <3>6, FinishMeans, OnlyRequest
  <2>3. CASE Compensates /\ users' = users
    <3>1. CASE Goto(d, "undo")
      <4>1. /\ desk'[d].pc = "undo" /\ desk'[d].op = "update" /\ desk'[d].email = e
            /\ desk'[d].seen = j.seen
        BY <1>0, <1>1, <2>1, <3>1, GotoMeans
      <4>2. e \notin damaged => Midway(desk[d])'
        BY <1>3, <2>1, <2>3, <4>1 DEF Midway, Exists, HasIdentity
      <4> QED
        BY <1>0, <1>1, <2>1, <2>3, <4>1, <4>2, OnlyRequest
    <3>2. CASE Finish(d) /\ ~StatusChanges(j.body, j.seen)
      <4>1. e \notin damaged => Matched(e)'
        BY <1>3, <2>1, <2>3, <3>2 DEF Matched, Exists, HasIdentity, Wanted
      <4> QED
        BY <1>0, <1>1, <2>1, <2>3, <3>2, <4>1, FinishMeans, OnlyRequest
    <3> QED
      BY <2>3, <3>1, <3>2
  <2> QED
    BY <1>0, <1>5, <2>2, <2>3 DEF UpdateRow
<1> QED
  BY <1>4, <1>5

LEMMA DeletePaired ==
  ASSUME OneDesk, Typed, Paired, NEW d \in Desk, DeleteIdentity(d) \/ DeleteRow(d)
  PROVE  Paired'
<1> DEFINE j == desk[d]
<1>0. PICK e : e = j.email
  OBVIOUS
<1>1. /\ j \in DeleteJob /\ e \in Email /\ j.pc \in {"identity", "row"} /\ j.op = "delete"
      /\ DOMAIN desk = Desk /\ users \in [Email -> User \cup {NoUser}]
      /\ pool \in [Email -> Identity \cup {NoIdentity}]
  BY <1>0, DeskType DEF DeleteIdentity, DeleteRow, Typed, TypeOK
<1>2. e \notin damaged => Midway(j)
  BY <1>0, <1>1 DEF Paired
<1>3. e \notin damaged => /\ Exists(e) /\ users[e].id = j.seen.id
                          /\ j.pc = "identity" => HasIdentity(e)
                          /\ j.pc = "row" => ~HasIdentity(e)
  BY <1>0, <1>1, <1>2 DEF Midway, Matched
<1>4. damaged \subseteq damaged' /\ \A f \in Email : f # e => pool'[f] = pool[f] /\ users'[f] = users[f]
  BY <1>0, <1>1 DEF DeleteIdentity, DeleteRow, Sound
<1>5. CASE DeleteIdentity(d)
  <2>1. j.pc = "identity" /\ users' = users
    BY <1>5 DEF DeleteIdentity
  <2>2. CASE Finish(d) /\ (e \in damaged' \/ UNCHANGED <<pool, damaged>>)
    <3>1. e \notin damaged' => Matched(e)'
      BY <1>2, <1>0, <2>1, <2>2 DEF Midway, Matched, Exists, HasIdentity
    <3> QED
      BY <1>0, <1>1, <1>4, <2>1, <2>2, <3>1, FinishMeans, OnlyRequest
  <2>3. CASE Goto(d, "row") /\ pool' = [pool EXCEPT ![e] = NoIdentity]
    <3>1. desk'[d].pc = "row" /\ desk'[d].op = "delete" /\ desk'[d].email = e /\ desk'[d].seen = j.seen
      BY <1>0, <1>1, <2>1, <2>3, GotoMeans
    <3>2. e \notin damaged => Midway(desk[d])'
      BY <1>1, <1>3, <2>1, <2>3, <3>1 DEF Midway, Exists, HasIdentity
    <3> QED
      BY <1>0, <1>1, <1>4, <2>1, <3>1, <3>2, OnlyRequest
  <2> QED
    BY <1>0, <1>1, <1>5, <2>2, <2>3 DEF DeleteIdentity, Sound
<1>6. CASE DeleteRow(d)
  <2>1. j.pc = "row" /\ Finish(d) /\ pool' = pool
    BY <1>6 DEF DeleteRow
  <2>2. CASE users' = [users EXCEPT ![e] = NoUser]
    <3>1. e \notin damaged => Matched(e)'
      BY <1>1, <1>3, <2>1, <2>2 DEF Matched, Exists, HasIdentity
    <3> QED
      BY <1>0, <1>1, <1>4, <2>1, <3>1, FinishMeans, OnlyRequest
  <2>3. CASE e \in damaged' \/ users[e].id # j.seen.id
    BY <1>0, <1>1, <1>3, <1>4, <2>1, <2>3, FinishMeans, OnlyRequest
  <2> QED
    BY <1>0, <1>6, <2>2, <2>3 DEF DeleteRow
<1> QED
  BY <1>5, <1>6

LEMMA UndoPaired ==
  ASSUME OneDesk, Typed, Paired, NEW d \in Desk, Undo(d) \/ DeskDies(d)
  PROVE  Paired'
<1> DEFINE j == desk[d]
<1>0. PICK e : e = j.email
  OBVIOUS
<1>1. /\ j \in CreateJob \cup UpdateJob \cup DeleteJob /\ e \in Email /\ j.pc # "idle"
      /\ j.op = "create" => j \in CreateJob
      /\ j.op = "update" => j \in UpdateJob
      /\ pool \in [Email -> Identity \cup {NoIdentity}]
      /\ users' = users /\ desk'[d].pc = "idle"
  BY <1>0, DeskType, FinishMeans DEF Undo, DeskDies, Typed, TypeOK
<1>2. e \notin damaged => Midway(j)
  BY <1>0, <1>1 DEF Paired
<1>3. damaged \subseteq damaged' /\ \A f \in Email : f # e => pool'[f] = pool[f]
  BY <1>0, <1>1 DEF Undo, DeskDies, Sound
<1>4. ASSUME Undo(d), e \notin damaged' PROVE Matched(e)'
  <2> DEFINE off == [pool[e] EXCEPT !.enabled = (j.seen.status # "INACTIVE")]
  <2>1. /\ j.pc = "undo" /\ e \notin damaged
        /\ \/ HasIdentity(e) /\ pool' = [pool EXCEPT ![e] = IF j.op = "create" THEN NoIdentity ELSE off]
           \/ ~HasIdentity(e) /\ pool' = pool
    BY <1>0, <1>3, <1>4 DEF Undo
  <2>2. CASE j.op = "create"
    <3>1. ~Exists(e)
      BY <1>0, <1>2, <2>1, <2>2 DEF Midway
    <3>2. pool'[e] = NoIdentity
      BY <1>1, <2>1, <2>2 DEF HasIdentity
    <3> QED
      BY <1>1, <3>1, <3>2 DEF Matched, Exists, HasIdentity
  <2>3. CASE j.op # "create"
    <3>1. j.op = "update" /\ j \in UpdateJob
      BY <1>1, <2>1, <2>3 DEF CreateJob, UpdateJob, DeleteJob
    <3>2. /\ Exists(e) /\ HasIdentity(e) /\ users[e].sub \in {Unlinked, pool[e].sub}
          /\ users[e].status = j.seen.status
      BY <1>0, <1>2, <2>1, <3>1 DEF Midway
    <3>3. pool[e] \in Identity /\ pool'[e] = off
      BY <1>1, <2>1, <2>3, <3>2 DEF HasIdentity
    <3>4. off.sub = pool[e].sub /\ off.enabled = (j.seen.status # "INACTIVE") /\ off # NoIdentity
      BY <3>3 DEF Identity, NoIdentity
    <3>5. (j.seen.status # "INACTIVE") = (j.seen.status = "ACTIVE")
      BY <3>1 DEF UpdateJob, User, Status
    <3> HIDE DEF off
    <3> QED
      BY <1>1, <3>2, <3>3, <3>4, <3>5 DEF Matched, Exists, HasIdentity
  <2> QED
    BY <2>2, <2>3
<1>5. DeskDies(d) => e \in damaged'
  BY <1>0 DEF DeskDies
<1> QED
  BY <1>0, <1>1, <1>3, <1>4, <1>5, OnlyRequest

LEMMA OthersPaired ==
  ASSUME Typed, Linked, Paired,
         \/ \E s \in Session : SessionStep(s)
         \/ \E e \in Email : SignIn(e)
         \/ \E b \in Branch : BranchCreate(b) \/ BranchDelete(b) \/ \E status \in Status : BranchUpdate(b, status)
  PROVE  Paired'
<1> DEFINE Kept(e) ==
             /\ Exists(e)' <=> Exists(e)
             /\ Exists(e) => /\ users'[e].id = users[e].id /\ users'[e].status = users[e].status
                             /\ \/ users'[e].sub = users[e].sub
                                \/ HasIdentity(e) => users'[e].sub = pool[e].sub
<1>1. users \in [Email -> User \cup {NoUser}] /\ pool \in [Email -> Identity \cup {NoIdentity}]
  BY DEF Typed, TypeOK
<1>2. UNCHANGED <<pool, desk, damaged>>
  BY DEF SessionStep, GuardReads, GuardMatches, GuardLinks, CreateImport, CreateExport, Answer, SignIn,
     BranchCreate, BranchDelete, BranchUpdate, Sound
<1>3. CASE UNCHANGED users
  BY <1>2, <1>3, RowsKept DEF Exists
<1>4. ASSUME NEW b \in Branch, BranchDelete(b) PROVE Paired'
  <2>1. \A e \in Email : \/ users'[e] = users[e]
                         \/ Exists(e) /\ users'[e] = [users[e] EXCEPT !.branch = Null]
    BY <1>1, <1>4 DEF BranchDelete
  <2>2. ASSUME NEW e \in Email PROVE Kept(e)
    <3>1. CASE users'[e] = users[e]
      BY <3>1 DEF Exists
    <3>2. CASE Exists(e) /\ users'[e] = [users[e] EXCEPT !.branch = Null]
      <4>1. users[e] \in User
        BY <1>1, <3>2 DEF Exists
      <4>2. /\ users'[e].id = users[e].id /\ users'[e].status = users[e].status
            /\ users'[e].sub = users[e].sub /\ users'[e] # NoUser
        BY <3>2, <4>1 DEF User, NoUser
      <4> QED
        BY <3>2, <4>2 DEF Exists
    <3> QED
      BY <2>1, <3>1, <3>2
  <2> QED
    BY <1>2, <2>2, RowsKept
<1>5. ASSUME NEW s \in Session, GuardLinks(s), users' # users PROVE Paired'
  <2> DEFINE t == session[s].token
             linked == [users[t.email] EXCEPT !.sub = t.sub]
  <2>1. session[s].pc = "linking" /\ users[t.email].id = session[s].seen /\ users' = [users EXCEPT ![t.email] = linked]
    BY <1>5 DEF GuardLinks
  <2>2. t \in tokens /\ t.email \in Email /\ t.sub = 1 /\ users[t.email] \in User
    BY <2>1, LinkIsSeeds
  <2>3. /\ linked.sub = 1 /\ linked.id = users[t.email].id /\ linked.status = users[t.email].status
        /\ linked # NoUser /\ users[t.email] # NoUser
    BY <2>2 DEF User, NoUser
  <2>4. HasIdentity(t.email) => pool[t.email].sub = 1
    <3> SUFFICES ASSUME HasIdentity(t.email) PROVE pool[t.email].sub = 1
      OBVIOUS
    <3>1. pool[t.email].sub \in Account /\ Has(t.email, pool[t.email].sub)
      BY <1>1, <2>2 DEF HasIdentity, Has, Identity
    <3>2. users[t.email].id = 1
      BY <2>1 DEF Linked, LinksSeed
    <3> QED
      BY <2>2, <2>3, <3>1, <3>2 DEF Linked, SeedLinks
  <2> HIDE DEF linked
  <2>5. ASSUME NEW e \in Email PROVE Kept(e)
    <3>1. CASE e = t.email
      <4>1. users'[e] = linked
        BY <1>1, <2>1, <2>2, <3>1
      <4> QED
        BY <2>3, <2>4, <3>1, <4>1 DEF Exists
    <3>2. CASE e # t.email
      BY <1>1, <2>1, <3>2 DEF Exists
    <3> QED
      BY <3>1, <3>2
  <2> QED
    BY <1>2, <2>5, RowsKept
<1>6. UNCHANGED users \/ (\E b \in Branch : BranchDelete(b)) \/ (\E s \in Session : GuardLinks(s) /\ users' # users)
  BY DEF SessionStep, GuardReads, GuardMatches, CreateImport, CreateExport, Answer, SignIn, BranchCreate, BranchUpdate
<1> QED
  BY <1>3, <1>4, <1>5, <1>6

LEMMA StepPaired ==
  ASSUME OneDesk, Typed, Linked, Paired, [Next]_vars
  PROVE  Paired'
<1>1. CASE UNCHANGED vars
  BY <1>1 DEF vars, Paired, Working, Matched, Midway, Wanted, StatusChanges, Exists, HasIdentity
<1>2. ASSUME NEW d \in Desk, DeskStep(d) PROVE Paired'
  BY <1>2, StartPaired, CreatePaired, UpdatePaired, DeletePaired, UndoPaired DEF DeskStep
<1> QED
  BY <1>1, <1>2, OthersPaired DEF Next

\* The users table and the identity pool agree on every e-mail whenever no
\* request is under way for it, whatever requests come, whatever of them fails
\* and is compensated, and whatever clients and branches do meanwhile.
THEOREM StoresAgreeAlways ==
  ASSUME OneDesk
  PROVE  Spec => []StoresAgree
<1>1. Paired => StoresAgree
  BY DEF Paired, Matched, StoresAgree
<1>2. Typed /\ Linked /\ Paired /\ [Next]_vars => (Typed /\ Linked /\ Paired)'
  BY StepTyped, StepLinked, StepPaired
<1> QED
  BY <1>1, <1>2, InitTyped, InitLinked, InitPaired, PTL DEF Spec

-----------------------------------------------------------------------------
(* Staff and their branches, when the desk has one request at a time. *)

\* What a request will write gives staff a branch: create has one, and an
\* update was checked against the role the row still has.
Backed(j) ==
    /\ j.op = "create" /\ InBranch(j.role) => j.branch # Null
    /\ j.op = "update" =>
         /\ InBranch(FinalRole(j.body, j.seen)) => FinalBranch(j.body, j.seen) # Null
         /\ users[j.email].id = j.seen.id => users[j.email].role = j.seen.role

AllBacked == \A d \in Desk : desk[d].pc # "idle" => Backed(desk[d])

\* Who changes the users table.
LEMMA RowWriters ==
  ASSUME [Next]_vars
  PROVE  \/ UNCHANGED users
         \/ \E d \in Desk : CreateRow(d) \/ UpdateRow(d) \/ DeleteRow(d)
         \/ \E b \in Branch : BranchDelete(b)
         \/ \E s \in Session : GuardLinks(s)
BY DEF Next, DeskStep, SessionStep, vars, CreateReads, CreateIdentity, UpdateReads,
   UpdateIdentity, DeleteReads, DeleteIdentity, Undo, DeskDies, BranchCreate, BranchUpdate,
   SignIn, GuardReads, GuardMatches, CreateImport, CreateExport, Answer

\* The deletion of a branch takes it from rows, and a link leaves all but the
\* link of a row alone.
LEMMA OthersKeepRoles ==
  ASSUME Typed,
         (\E b \in Branch : BranchDelete(b)) \/ (\E s \in Session : SessionStep(s))
  PROVE  \A e \in Email :
           /\ users'[e].id = users[e].id
           /\ Exists(e)' <=> Exists(e)
           /\ Exists(e) => users'[e].role = users[e].role
<1>1. users \in [Email -> User \cup {NoUser}]
  BY DEF Typed, TypeOK
<1>2. ASSUME NEW b \in Branch, BranchDelete(b), NEW e \in Email
      PROVE  /\ users'[e].id = users[e].id
             /\ Exists(e)' <=> Exists(e)
             /\ Exists(e) => users'[e].role = users[e].role
  <2>1. CASE users'[e] = users[e]
    BY <2>1 DEF Exists
  <2>2. CASE Exists(e) /\ users'[e] = [users[e] EXCEPT !.branch = Null]
    BY <1>1, <2>2 DEF Exists, User, NoUser
  <2> QED
    BY <1>1, <1>2, <2>1, <2>2 DEF BranchDelete
<1>3. ASSUME NEW s \in Session, GuardLinks(s), users' # users, NEW e \in Email
      PROVE  /\ users'[e].id = users[e].id
             /\ Exists(e)' <=> Exists(e)
             /\ Exists(e) => users'[e].role = users[e].role
  <2> DEFINE t == session[s].token
  <2>1. session[s] \in Linking /\ t.email \in Email
    BY <1>3, SessionType DEF GuardLinks, Typed, Linking, Token
  <2>2. /\ users[t.email].id = session[s].seen
        /\ users' = [users EXCEPT ![t.email] = [users[t.email] EXCEPT !.sub = t.sub]]
    BY <1>3 DEF GuardLinks
  <2>3. users[t.email] \in User
    BY <1>1, <2>1, <2>2 DEF Linking, NoUser
  <2>4. CASE e = t.email
    BY <1>1, <2>1, <2>2, <2>3, <2>4 DEF Exists, User, NoUser
  <2>5. CASE e # t.email
    BY <1>1, <2>1, <2>2, <2>5 DEF Exists
  <2> QED
    BY <2>4, <2>5
<1>4. UNCHANGED users \/ (\E b \in Branch : BranchDelete(b)) \/ (\E s \in Session : GuardLinks(s) /\ users' # users)
  BY DEF SessionStep, GuardReads, GuardMatches, CreateImport, CreateExport, Answer
<1> QED
  BY <1>2, <1>3, <1>4 DEF Exists

LEMMA StepBacked ==
  ASSUME OneDesk, Typed, AllBacked, [Next]_vars
  PROVE  AllBacked'
<1>1. /\ users \in [Email -> User \cup {NoUser}]
      /\ desk \in [Desk -> {IdleDesk} \cup CreateJob \cup UpdateJob \cup DeleteJob]
  BY DEF Typed, TypeOK
<1>2. ASSUME UNCHANGED <<users, desk>> PROVE AllBacked'
  BY <1>2 DEF AllBacked, Backed
<1>3. ASSUME UNCHANGED desk,
             (\E b \in Branch : BranchDelete(b)) \/ (\E s \in Session : SessionStep(s))
      PROVE  AllBacked'
  <2> SUFFICES ASSUME NEW d \in Desk, desk[d].pc # "idle" PROVE Backed(desk[d])'
    BY <1>3 DEF AllBacked
  <2>1. Backed(desk[d]) /\ desk[d].email \in Email
    BY DeskType DEF AllBacked, Typed
  <2>2. desk[d].op = "update" => desk[d].seen \in User
    BY DeskType DEF Typed, UpdateJob
  <2>3. desk[d].op = "update" /\ users[desk[d].email].id = desk[d].seen.id => Exists(desk[d].email)
    BY <2>2 DEF Exists, User, NoUser
  <2> QED
    BY <1>3, <2>1, <2>3, OthersKeepRoles DEF Backed
\* The request that is there goes on: its plans stay as they are.
<1>4. ASSUME NEW d \in Desk, DeskStep(d) PROVE AllBacked'
  <2>1. \A c \in Desk : c = d
    BY DEF OneDesk
  <2>2. CASE desk'[d].pc = "idle"
    BY <2>1, <2>2 DEF AllBacked
  <2>3. ASSUME NEW e \in Email, NEW role \in Role, NEW b \in Branch, CreateReads(d, e, role, b)
        PROVE  AllBacked'
    <3>1. desk'[d] = [pc |-> "identity", op |-> "create", email |-> e, role |-> role,
                      branch |-> IF InBranch(role) THEN b ELSE Null, sub |-> Unlinked]
      BY <1>1, <2>3 DEF CreateReads
    <3>2. b # Null
      BY NullAssumption
    <3> QED
      BY <2>1, <3>1, <3>2 DEF AllBacked, Backed
  <2>4. ASSUME NEW e \in Email, NEW body \in Bodies, UpdateReads(d, e, body) PROVE AllBacked'
    <3>1. /\ desk'[d].op = "update" /\ desk'[d].email = e /\ desk'[d].body = body
          /\ desk'[d].seen = users[e] /\ users' = users
      BY <1>1, <2>4 DEF UpdateReads
    <3>2. InBranch(FinalRole(body, users[e])) => FinalBranch(body, users[e]) # Null
      BY <2>4 DEF UpdateReads, BranchFits
    <3> QED
      BY <2>1, <3>1, <3>2 DEF AllBacked, Backed
  <2>5. ASSUME NEW e \in Email, DeleteReads(d, e) PROVE AllBacked'
    <3>1. desk'[d].op = "delete"
      BY <1>1, <2>5 DEF DeleteReads
    <3> QED
      BY <2>1, <3>1 DEF AllBacked, Backed
  <2>6. ASSUME UNCHANGED users, desk[d].pc # "idle", \E pc, sub :
                 desk' = [desk EXCEPT ![d].pc = pc] \/ desk' = [desk EXCEPT ![d].pc = pc, ![d].sub = sub]
        PROVE  AllBacked'
    <3>1. /\ desk[d] \in CreateJob \cup UpdateJob \cup DeleteJob /\ Backed(desk[d])
          /\ desk[d].op = "create" => desk[d] \in CreateJob
          /\ desk[d].op = "update" => desk[d] \in UpdateJob
      BY <2>6, DeskType DEF AllBacked, Typed
    <3>2. /\ desk'[d].op = desk[d].op /\ desk'[d].email = desk[d].email
          /\ desk[d].op = "create" => desk'[d].role = desk[d].role /\ desk'[d].branch = desk[d].branch
          /\ desk[d].op = "update" => desk'[d].body = desk[d].body /\ desk'[d].seen = desk[d].seen
      BY <1>1, <2>6, <3>1 DEF CreateJob, UpdateJob, DeleteJob
    <3> QED
      BY <2>1, <2>6, <3>1, <3>2 DEF AllBacked, Backed
  <2>7. \/ desk'[d].pc = "idle"
        \/ /\ UNCHANGED users /\ desk[d].pc # "idle"
           /\ \E pc, sub : desk' = [desk EXCEPT ![d].pc = pc] \/ desk' = [desk EXCEPT ![d].pc = pc, ![d].sub = sub]
        \/ \E e \in Email, role \in Role, b \in Branch : CreateReads(d, e, role, b)
        \/ \E e \in Email, body \in Bodies : UpdateReads(d, e, body)
        \/ \E e \in Email : DeleteReads(d, e)
    <3>1. ASSUME Finish(d) PROVE desk'[d].pc = "idle"
      BY <3>1, FinishMeans
    <3>2. ASSUME CreateIdentity(d) \/ CreateRow(d)
          PROVE  \/ desk'[d].pc = "idle"
                 \/ /\ UNCHANGED users /\ desk[d].pc # "idle"
                    /\ \E pc, sub : desk' = [desk EXCEPT ![d].pc = pc] \/ desk' = [desk EXCEPT ![d].pc = pc, ![d].sub = sub]
      BY <3>1, <3>2 DEF CreateIdentity, CreateRow, Goto
    <3>3. ASSUME UpdateIdentity(d) \/ UpdateRow(d)
          PROVE  \/ desk'[d].pc = "idle"
                 \/ UNCHANGED users /\ desk[d].pc # "idle" /\ \E pc : desk' = [desk EXCEPT ![d].pc = pc]
      BY <3>1, <3>3 DEF UpdateIdentity, UpdateRow, Goto
    <3>4. ASSUME DeleteIdentity(d) \/ DeleteRow(d)
          PROVE  \/ desk'[d].pc = "idle"
                 \/ UNCHANGED users /\ desk[d].pc # "idle" /\ \E pc : desk' = [desk EXCEPT ![d].pc = pc]
      BY <3>1, <3>4 DEF DeleteIdentity, DeleteRow, Goto
    <3>5. ASSUME Undo(d) \/ DeskDies(d) PROVE desk'[d].pc = "idle"
      BY <3>1, <3>5 DEF Undo, DeskDies
    <3> QED
      BY <1>4, <3>2, <3>3, <3>4, <3>5 DEF DeskStep
  <2> QED
    BY <2>2, <2>3, <2>4, <2>5, <2>6, <2>7
<1>5. ASSUME NEW s \in Session, SessionStep(s) PROVE AllBacked'
  <2>1. UNCHANGED desk
    BY <1>5 DEF SessionStep, GuardReads, GuardMatches, GuardLinks, CreateImport, CreateExport, Answer
  <2> QED
    BY <1>3, <1>5, <2>1
<1>6. ASSUME NEW b \in Branch, BranchDelete(b) PROVE AllBacked'
  BY <1>3, <1>6 DEF BranchDelete
<1>7. ASSUME NEW b \in Branch, BranchCreate(b) \/ \E status \in Status : BranchUpdate(b, status) PROVE AllBacked'
  BY <1>2, <1>7 DEF BranchCreate, BranchUpdate
<1>8. ASSUME NEW e \in Email, SignIn(e) PROVE AllBacked'
  BY <1>2, <1>8 DEF SignIn
<1>9. CASE UNCHANGED vars
  BY <1>2, <1>9 DEF vars
<1> QED
  BY <1>4, <1>5, <1>6, <1>7, <1>8, <1>9 DEF Next

\* With one request of the desk at a time, staff are left without a branch by
\* the deletion of their branch and by nothing else: an update that was checked
\* before a deletion fails on the foreign key, and none writes the branch of a
\* role the row no longer has.
THEOREM StrandedByDeletionAlways ==
  ASSUME OneDesk
  PROVE  Spec => StrandedByDeletion
<1> DEFINE Deleted(e) == Stranded(e)' /\ ~Stranded(e) =>
                           /\ Exists(e) /\ users[e].branch # Null
                           /\ branches[users[e].branch] # Gone /\ branches'[users[e].branch] = Gone
<1>1. ASSUME Typed, AllBacked, [Next]_vars, NEW e \in Email PROVE Deleted(e)
  <2>1. users \in [Email -> User \cup {NoUser}] /\ branches \in [Branch -> Status \cup {Gone}]
    BY <1>1 DEF Typed, TypeOK
  <2>2. CASE users'[e] = users[e]
    BY <2>2 DEF Stranded, Exists
  <2>3. ASSUME NEW d \in Desk, CreateRow(d), users'[e] # users[e] PROVE ~Stranded(e)'
    <3> DEFINE j == desk[d]
    <3>1. j.email = e /\ users'[e].role = j.role /\ users'[e].branch = j.branch
      BY <2>1, <2>3 DEF CreateRow
    <3>2. InBranch(j.role) => j.branch # Null
      BY <1>1, <2>3 DEF CreateRow, AllBacked, Backed
    <3> QED
      BY <3>1, <3>2 DEF Stranded, InBranch
  <2>4. ASSUME NEW d \in Desk, UpdateRow(d), users'[e] # users[e] PROVE ~Stranded(e)'
    <3> DEFINE j == desk[d]
               u == users[e]
    <3>1. j.email \in Email /\ j \in UpdateJob /\ Backed(j)
      BY <1>1, <2>4, DeskType DEF UpdateRow, Typed, AllBacked
    <3>2. /\ j.email = e /\ u.id = j.seen.id
          /\ users'[e] = [u EXCEPT !.role = FinalRole(j.body, u), !.branch = WrittenBranch(j),
                                   !.status = IF j.body.status = Keep THEN u.status ELSE j.body.status]
      BY <2>1, <2>4, <3>1 DEF UpdateRow
    <3>3. u \in User
      BY <2>1, <3>1, <3>2 DEF UpdateJob, User, NoUser
    <3>4. users'[e].role = FinalRole(j.body, j.seen) /\ users'[e].branch = WrittenBranch(j)
      BY <2>4, <3>1, <3>2, <3>3 DEF User, Backed, FinalRole, UpdateRow
    <3> QED
      BY <2>4, <3>1, <3>4 DEF Stranded, InBranch, WrittenBranch, Backed, UpdateRow
  <2>5. ASSUME NEW d \in Desk, DeleteRow(d), users'[e] # users[e] PROVE ~Stranded(e)'
    BY <2>1, <2>5 DEF DeleteRow, Stranded, Exists
  <2>6. ASSUME NEW b \in Branch, BranchDelete(b), users'[e] # users[e] PROVE Deleted(e)
    BY <2>1, <2>6, NullAssumption DEF BranchDelete
  <2>7. ASSUME NEW s \in Session, GuardLinks(s), users'[e] # users[e]
        PROVE  users'[e].role = users[e].role /\ users'[e].branch = users[e].branch /\ Exists(e)
    <3> DEFINE t == session[s].token
    <3>1. session[s] \in Linking /\ t.email \in Email
      BY <1>1, <2>7, SessionType DEF GuardLinks, Typed, Linking, Token
    <3>2. /\ e = t.email /\ users[e].id = session[s].seen
          /\ users'[e] = [users[e] EXCEPT !.sub = t.sub]
      BY <2>1, <2>7, <3>1 DEF GuardLinks
    <3>3. users[e] \in User /\ users[e] # NoUser
      BY <2>1, <3>1, <3>2 DEF Linking, NoUser
    <3> QED
      BY <3>2, <3>3 DEF User, Exists
  <2> QED
    BY <1>1, <2>2, <2>3, <2>4, <2>5, <2>6, <2>7, RowWriters DEF Stranded
<1>2. Typed /\ AllBacked /\ [Next]_vars =>
        [\A e \in Email :
          Stranded(e)' /\ ~Stranded(e) =>
             /\ Exists(e) /\ users[e].branch # Null
             /\ branches[users[e].branch] # Gone /\ branches'[users[e].branch] = Gone]_vars
  BY <1>1
<1>3. Init => AllBacked
  BY DEF Init, AllBacked, IdleDesk
<1>4. AllBacked /\ Typed /\ [Next]_vars => AllBacked'
  BY StepBacked
<1> QED
  BY InitTyped, StepTyped, <1>2, <1>3, <1>4, PTL DEF Spec, StrandedByDeletion

-----------------------------------------------------------------------------
(* The decisions of Access: what the scope of a list query lets through is   *)
(* what the check of the single-row endpoint admits, and what the dashboard  *)
(* offers is answered.                                                       *)

USE ForbiddenAssumption, RefusedAssumption DEF Actor, IsAdmin, CanReadBranch, BranchRoles, Role

\* An administrator, or staff of a branch.
Placed(a) == IsAdmin(a) \/ a.branch # Null

\* The query string of GET /inventory can narrow what it answers, never widen
\* it beyond the branches whose rows PATCH and the single-branch endpoint
\* check; without it the answer leaves out none of those rows.
THEOREM InventoryListReadable ==
  ASSUME NEW a \in Actor, NEW q \in Branch \cup {Null}, NEW low \in BOOLEAN,
         NEW rows \in SUBSET Stock
  PROVE  /\ \A r \in InventoryList(a, q, low, rows) : CanReadBranch(a, r.branch)
         /\ InventoryList(a, Null, FALSE, rows) = {r \in rows : CanReadBranch(a, r.branch)}
<1>1. \A r \in rows : r.branch \in Branch /\ r.branch # Null
  BY DEF Stock
<1>2. \A r \in InventoryList(a, q, low, rows) : CanReadBranch(a, r.branch)
  BY <1>1 DEF InventoryList, InventoryScope, Refused
<1>3. InventoryList(a, Null, FALSE, rows) = {r \in rows : CanReadBranch(a, r.branch)}
  <2>1. CASE IsAdmin(a)
    BY <1>1, <2>1 DEF InventoryList, InventoryScope
  <2>2. CASE ~IsAdmin(a)
    BY <1>1, <2>2 DEF InventoryList, InventoryScope
  <2> QED
    BY <2>1, <2>2
<1> QED
  BY <1>2, <1>3

\* GET /transfers lists transfers that GET /transfers/:id would show to the
\* same user, and without a query string all of them.
THEOREM TransferListReadable ==
  ASSUME NEW a \in Actor, NEW q \in Branch \cup {Null}, NEW rows \in SUBSET Transfer, Placed(a)
  PROVE  /\ \A t \in TransferList(a, q, rows) : CanReadTransfer(a, t)
         /\ TransferList(a, Null, rows) = {t \in rows : CanReadTransfer(a, t)}
<1>1. \A t \in rows : t.from \in Branch /\ t.to \in Branch
  BY DEF Transfer
<1>2. \A t \in TransferList(a, q, rows) : CanReadTransfer(a, t)
  BY <1>1 DEF Placed, TransferList, TransferScope, CanReadTransfer, Refused
<1>3. TransferList(a, Null, rows) = {t \in rows : CanReadTransfer(a, t)}
  <2>1. CASE IsAdmin(a)
    BY <1>1, <2>1 DEF Placed, TransferList, TransferScope, CanReadTransfer
  <2>2. CASE ~IsAdmin(a)
    BY <1>1, <2>2 DEF Placed, TransferList, TransferScope, CanReadTransfer
  <2> QED
    BY <2>1, <2>2
<1> QED
  BY <1>2, <1>3

\* GET /imports lists the jobs that the endpoints of a single job admit.
THEOREM ImportListReadable ==
  ASSUME NEW a \in Actor, NEW q \in Branch \cup {Null}, NEW rows \in SUBSET Import
  PROVE  /\ \A r \in ImportList(a, q, rows) : CanReadImport(a, r.branch)
         /\ ImportList(a, Null, rows) = {r \in rows : CanReadImport(a, r.branch)}
<1>1. \A r \in rows : r.branch \in Branch /\ r.branch # Null /\ r.branch # Forbidden
  BY DEF Import
<1>2. \A r \in ImportList(a, q, rows) : CanReadImport(a, r.branch)
  BY <1>1 DEF ImportList, ImportScope, CanReadImport, Refused
<1>3. ImportList(a, Null, rows) = {r \in rows : CanReadImport(a, r.branch)}
  <2>1. CASE IsAdmin(a)
    BY <1>1, <2>1 DEF ImportList, ImportScope, CanReadImport
  <2>2. CASE ~IsAdmin(a)
    BY <1>1, <2>2 DEF ImportList, ImportScope, CanReadImport
  <2> QED
    BY <2>1, <2>2
<1> QED
  BY <1>2, <1>3

\* Staff without a branch, whose branch was deleted, get from all lists nothing
\* but the export jobs they have made themselves, of which neither the job nor
\* its file is served to them any more, and they can store nothing, whatever
\* branch their request names: GET /exports goes by the creator alone, the
\* endpoints of a single export by the branch.
THEOREM BranchlessRefused ==
  ASSUME NEW a \in Actor, a.role \in BranchRoles, a.branch = Null,
         NEW q \in Branch \cup {Null}
  PROVE  /\ \A low \in BOOLEAN : \A rows : InventoryList(a, q, low, rows) = {}
         /\ \A rows : TransferList(a, q, rows) = {} /\ ImportList(a, q, rows) = {}
         /\ BranchList(a, Branch) = {}
         /\ \A rows \in SUBSET Export :
              /\ ExportList(a, rows) = {r \in rows : r.by = a.id}
              /\ \A r \in rows : ~CanReadReport(a, r.branch)
         /\ NewExport(a, q) = {}
         /\ \A to \in Branch : q # Null => ~CanCreateTransfer(a, q, to) /\ ~CanWriteImport(a, q)
<1>1. \A low \in BOOLEAN : \A rows : InventoryList(a, q, low, rows) = {}
  BY DEF InventoryList, InventoryScope, Refused
<1>2. \A rows : TransferList(a, q, rows) = {}
  BY DEF TransferList, TransferScope, Refused
<1>3. \A rows : ImportList(a, q, rows) = {}
  BY DEF ImportList, ImportScope, CanReadImport, Refused
<1>4. BranchList(a, Branch) = {} /\ NewExport(a, q) = {}
  BY DEF BranchList, NewExport, CanCreateReport
<1>5. \A rows \in SUBSET Export :
        /\ ExportList(a, rows) = {r \in rows : r.by = a.id}
        /\ \A r \in rows : ~CanReadReport(a, r.branch)
  BY DEF ExportList, CanReadReport
<1>6. \A to \in Branch : q # Null => ~CanCreateTransfer(a, q, to) /\ ~CanWriteImport(a, q)
  BY DEF CanCreateTransfer, CanWriteImport
<1> QED
  BY <1>1, <1>2, <1>3, <1>4, <1>5, <1>6

-----------------------------------------------------------------------------
(* The decisions on transfers. *)

\* Nobody but an administrator can both approve and cancel one transfer, nobody
\* at all approves a transfer of their own, and whoever decides on a transfer
\* can read it.
THEOREM DecisionsSeparate ==
  ASSUME NEW a \in Actor, NEW t \in Transfer
  PROVE  /\ CanApprove(a, t) /\ CanCancel(a, t) => IsAdmin(a) /\ t.by # a.id
         /\ CanApprove(a, t) \/ CanCancel(a, t) => CanReadTransfer(a, t)
BY DEF CanApprove, CanCancel, CanReadTransfer, Transfer

-----------------------------------------------------------------------------
(* The dashboard. *)

\* Every endpoint behind a tab that a role is offered lets that role past its
\* guards: no tab answers 403 as a whole.
THEOREM TabsAnswered ==
  ASSUME NEW a \in Actor, NEW tab \in Tabs(a), NEW call \in TabCalls(tab)
  PROVE  Reaches(a, call)
<1> USE DEF Reaches, OpenEndpoints, AdminEndpoints, InventoryEndpoints, TransfersEndpoints,
            ImportsEndpoints, ReportsEndpoints, CanAdminister
<1>1. CASE tab \in {"inventory", "low-stock"}
  BY <1>1, Zenon DEF TabCalls, InventoryCalls
<1>2. CASE tab = "transfers"
  BY <1>2, Zenon DEF TabCalls, TransfersCalls, PickerCalls
<1>3. CASE tab = "imports"
  BY <1>3, Zenon DEF TabCalls, ImportsCalls, UploadCalls
<1>4. CASE tab = "reports"
  BY <1>4, Zenon DEF TabCalls, ReportsCalls
<1>5. CASE IsAdmin(a) /\ tab = "dlq"
  BY <1>5, Zenon DEF TabCalls, RecoveryCalls, RecoveryEndpoints
<1>6. CASE IsAdmin(a) /\ tab = "reconciliation"
  BY <1>6, Zenon DEF TabCalls, ReconciliationCalls, ReconciliationEndpoints
<1>7. CASE IsAdmin(a) /\ tab = "users"
  BY <1>7, Zenon DEF TabCalls, UsersCalls, UsersEndpoints
<1>8. CASE IsAdmin(a) /\ tab = "branches"
  BY <1>8, Zenon DEF TabCalls, BranchesCalls, BranchesEndpoints
<1> QED
  BY <1>1, <1>2, <1>3, <1>4, <1>5, <1>6, <1>7, <1>8, Zenon DEF Tabs, OperationTabs, AdminTabs

\* The form for a new transfer lists the branches GET /branches answers with,
\* for staff their own: it offers them no transfer, although the policy would
\* let them create one from or to their branch.
THEOREM NoTransferOffered ==
  ASSUME NEW a \in Actor, ~IsAdmin(a)
  PROVE  TransferChoices(a, Branch) = {}
<1>1. \A b, c \in BranchList(a, Branch) : b = c
  BY DEF BranchList
<1> QED
  BY <1>1 DEF TransferChoices

\* The branches an administrator or a warehouse user can pick for an upload are
\* branches whose imports they may write.  (The picker is shown to store
\* managers as well, whose uploads are refused.)
THEOREM UploadsOffered ==
  ASSUME NEW a \in Actor, NEW b \in UploadChoices(a, Branch), a.role \in Writers
  PROVE  CanWriteImport(a, b)
BY DEF UploadChoices, BranchList, CanWriteImport, Writers
=============================================================================
