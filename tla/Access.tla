------------------------------- MODULE Access -------------------------------
(***************************************************************************)
(* Who may do what: the policy service, the scope each list query is given *)
(* and the check each single-row endpoint makes, the role guard of the     *)
(* administrative controllers, and what the dashboard offers to a role.    *)
(* Pure operators over an actor (the identity JwtAuthGuard puts on the     *)
(* request) and the rows of the tables; Accounts.tla makes requests with   *)
(* them while accounts and branches change.                                *)
(***************************************************************************)
EXTENDS Naturals, FiniteSets

CONSTANTS Branch,     \* branch ids
          Account,    \* user ids
          Null,       \* an absent id
          Forbidden   \* the "__forbidden__" id, which no branch has

ASSUME NullAssumption == Null \notin Branch \cup Account
ASSUME ForbiddenAssumption == Forbidden \notin Branch \cup {Null}

Role == {"ADMIN", "WAREHOUSE", "STORE_MANAGER"}
BranchRoles == {"STORE_MANAGER", "WAREHOUSE"}
Writers == {"ADMIN", "WAREHOUSE"}

Actor == [id : Account, role : Role, branch : Branch \cup {Null}]

(* Rows as far as access tells them apart. *)
Stock == [branch : Branch, low : BOOLEAN]
Transfer == [from : Branch, to : Branch, by : Account \cup {Null}]
Import == [branch : Branch, by : Account \cup {Null}]
Export == [branch : Branch \cup {Null}, by : Account \cup {Null}]

-----------------------------------------------------------------------------
(* AuthorizationPolicyService. *)

IsAdmin(a) == a.role = "ADMIN"

CanReadBranch(a, b) == IsAdmin(a) \/ (a.role \in BranchRoles /\ a.branch = b)

CanAdjust(a, b) == a.role \in Writers /\ CanReadBranch(a, b)

CanCreateTransfer(a, from, to) ==
    /\ a.role \in {"ADMIN"} \cup BranchRoles
    /\ IsAdmin(a) \/ a.branch \in {from, to}

CanReadTransfer(a, t) == IsAdmin(a) \/ a.branch \in {t.from, t.to}

CanApprove(a, t) ==
    /\ a.role \in Writers
    /\ CanReadBranch(a, t.from)
    /\ t.by # a.id

CanCancel(a, t) == IsAdmin(a) \/ (CanReadBranch(a, t.from) /\ t.by = a.id)

CanReadImport(a, b) == CanReadBranch(a, b)

CanWriteImport(a, b) == a.role \in Writers /\ CanReadBranch(a, b)

CanCreateReport(a, b) == IsAdmin(a) \/ (b # Null /\ CanReadBranch(a, b))

\* The ownership test of the policy returns on both of its outcomes.
CanReadReport(a, b) == IsAdmin(a) \/ (b # Null /\ CanReadBranch(a, b))

(* RolesGuard on the users, branches, recovery, dlq and reconciliation
   controllers: every endpoint of theirs carries @Roles(ADMIN). *)
CanAdminister(a) == a.role \in {"ADMIN"}

-----------------------------------------------------------------------------
(* The scope of a list query: the branch its WHERE names, or Refused.  q is
   the branchId of the query string, Null when there is none; a scope of Null
   means no branch condition. *)

Refused == "refused"
ASSUME RefusedAssumption == Refused \notin Branch \cup {Null, Forbidden}

InventoryScope(a, q) ==
    IF IsAdmin(a) THEN q
    ELSE IF a.branch = Null THEN Refused
    ELSE IF q # Null /\ q # a.branch /\ ~CanReadBranch(a, q) THEN Refused
    ELSE a.branch

TransferScope(a, q) ==
    IF IsAdmin(a) THEN q
    ELSE IF a.branch = Null THEN Refused
    ELSE IF q # Null /\ q # a.branch /\ a.branch # q THEN Refused
    ELSE a.branch

ImportScope(a, q) ==
    IF IsAdmin(a) THEN q
    ELSE IF q # Null /\ ~CanReadImport(a, q) THEN Refused
    ELSE IF a.branch = Null /\ ~CanReadImport(a, Forbidden) THEN Refused
    ELSE IF a.branch = Null THEN Forbidden ELSE a.branch

(* The rows each list endpoint answers with. *)

InventoryList(a, q, lowOnly, rows) ==
    LET scope == InventoryScope(a, q)
    IN  {r \in rows : /\ scope # Refused
                      /\ scope # Null => r.branch = scope
                      /\ lowOnly => r.low}

SkuList(a, rows) ==
    {r \in rows : IsAdmin(a) \/ r.branch = (IF a.branch = Null THEN Forbidden ELSE a.branch)}

BranchInventory(a, b, lowOnly, rows) ==
    IF CanReadBranch(a, b) THEN InventoryList(a, b, lowOnly, rows) ELSE {}

BranchList(a, branches) ==
    {b \in branches : IsAdmin(a) \/ b = (IF a.branch = Null THEN Forbidden ELSE a.branch)}

TransferList(a, q, rows) ==
    LET scope == TransferScope(a, q)
    IN  {t \in rows : scope # Refused /\ (scope # Null => scope \in {t.from, t.to})}

ImportList(a, q, rows) ==
    LET scope == ImportScope(a, q)
    IN  {r \in rows : scope # Refused /\ (scope # Null => r.branch = scope)}

ExportList(a, rows) == {r \in rows : IsAdmin(a) \/ r.by = a.id}

(* The row a create request stores: the branch of the request, or the
   actor's own, and for an administrator only what the request named. *)
NewExport(a, q) ==
    LET branch == IF q # Null THEN q ELSE a.branch
    IN  IF ~CanCreateReport(a, branch) THEN {}
        ELSE {[branch |-> IF IsAdmin(a) THEN q ELSE branch, by |-> a.id]}

(* Totals over all matching rows, whatever the page and the search. *)
Summary(a, q, rows) ==
    LET mine == InventoryList(a, q, FALSE, rows)
    IN  [rows |-> Cardinality(mine), low |-> Cardinality({r \in mine : r.low})]

-----------------------------------------------------------------------------
(* The endpoints of each controller.  Every controller but the public health
   check and the SNS webhook carries JwtAuthGuard; these five add RolesGuard. *)

UsersEndpoints == {"GET users", "POST users", "PATCH user", "DELETE user"}
BranchesEndpoints == {"POST branches", "PATCH branch", "DELETE branch"}
RecoveryEndpoints == {"GET recovery reports", "GET report queue", "POST report replay",
                      "POST report discard", "POST dlq redrive", "GET recovery imports",
                      "POST import replay", "POST import discard"}
DlqEndpoints == {"GET dlq imports", "POST dlq replay", "POST dlq discard"}
ReconciliationEndpoints == {"GET issues", "POST reconciliation run", "POST issue resolve"}
AdminEndpoints == UsersEndpoints \cup BranchesEndpoints \cup RecoveryEndpoints
                     \cup DlqEndpoints \cup ReconciliationEndpoints

InventoryEndpoints == {"GET inventory", "GET summary", "GET sku", "GET branches",
                       "GET branch inventory", "PATCH inventory"}
TransfersEndpoints == {"POST transfers", "GET transfers", "GET transfer", "POST approve",
                       "POST reject", "POST cancel"}
ImportsEndpoints == {"POST presigned", "POST init", "POST upload", "POST start", "GET imports",
                     "GET import", "GET progress", "GET errors", "GET preview", "POST confirm",
                     "POST import cancel", "POST retry rows"}
ReportsEndpoints == {"POST export", "GET exports", "GET export", "GET download"}
OpenEndpoints == InventoryEndpoints \cup TransfersEndpoints \cup ImportsEndpoints
                    \cup ReportsEndpoints

\* Past the guards; the policies on branch and row come after.
Reaches(a, endpoint) ==
    \/ endpoint \in OpenEndpoints
    \/ endpoint \in AdminEndpoints /\ CanAdminister(a)

-----------------------------------------------------------------------------
(* What the dashboard offers. *)

OperationTabs == {"inventory", "transfers", "imports", "low-stock", "reports"}
AdminTabs == {"dlq", "reconciliation", "users", "branches"}
Tabs(a) == OperationTabs \cup (IF IsAdmin(a) THEN AdminTabs ELSE {})

InventoryCalls == {"GET inventory", "GET summary", "GET transfers"}
TransfersCalls == {"GET transfers", "POST transfers", "POST approve", "POST reject"}
PickerCalls == {"GET inventory"}
ImportsCalls == {"GET imports", "GET preview", "POST confirm"}
UploadCalls == {"POST presigned"}
ReportsCalls == {"GET exports", "POST export"}
RecoveryCalls == {"GET recovery reports", "GET recovery imports", "GET report queue",
                  "POST report replay", "POST report discard", "POST dlq redrive",
                  "POST import replay", "POST import discard"}
ReconciliationCalls == {"GET issues", "POST reconciliation run", "POST issue resolve"}
UsersCalls == {"GET users", "GET branches", "POST users", "PATCH user", "DELETE user"}
BranchesCalls == {"GET branches", "POST branches", "PATCH branch", "DELETE branch"}

\* What opening a tab and using its controls may call.
TabCalls(tab) ==
    CASE tab \in {"inventory", "low-stock"} -> InventoryCalls
      [] tab = "transfers"      -> TransfersCalls \cup PickerCalls
      [] tab = "imports"        -> ImportsCalls \cup UploadCalls
      [] tab = "reports"        -> ReportsCalls
      [] tab = "dlq"            -> RecoveryCalls
      [] tab = "reconciliation" -> ReconciliationCalls
      [] tab = "users"          -> UsersCalls
      [] tab = "branches"       -> BranchesCalls

\* The branch a panel filters on: the one picked, else the user's own.
SelectedBranch(a, picked) == IF picked # Null THEN picked ELSE a.branch

\* Both branch fields of the form list what GET /branches answered; the
\* request schema refuses a transfer of a branch to itself.
TransferChoices(a, branches) ==
    {c \in BranchList(a, branches) \X BranchList(a, branches) : c[1] # c[2]}

DecisionOffered(a, t) == IsAdmin(a)

UploadChoices(a, branches) == BranchList(a, branches)
=============================================================================
