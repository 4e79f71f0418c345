------------------------------- MODULE Access -------------------------------
(***************************************************************************)
(* Accounts and roles of the web application: /users and /roles, used by   *)
(* several administrators at once.  A handler checks who is asking and     *)
(* reads its rows in one step and commits in another; what it writes are   *)
(* the attributes that differ from the rows it has read.                   *)
(***************************************************************************)
EXTENDS Naturals, FiniteSets

CONSTANTS
    Accounts,     \* ids of users
    Roles,        \* ids of roles
    Tabs,         \* PAGE_KEYS: the tabs of a user without a role
    Forms,        \* requests that may be handled at the same time
    NoAccount, NoRole,
    MaxForms      \* bound: requests

ASSUME AccessAssumption ==
    /\ MaxForms \in Nat /\ NoRole \notin Roles /\ Accounts # {}
    /\ IsFiniteSet(Accounts)

VARIABLES
    accounts,     \* rows of users
    roles,        \* rows of roles: the pages of a role, or none
    form,         \* a request between its reads and its commit
    formCount,
    chosen,       \* history: the role an administrator last gave the user
    crossed       \* history: a request committed what it decided on rows
                  \* that another one had changed meanwhile

accessVars == <<accounts, roles, form, formCount, chosen, crossed>>

Account == [admin : BOOLEAN, active : BOOLEAN, role : Roles \cup {NoRole}]
Missing == [missing |-> TRUE]
Blank   == [what |-> "none", target |-> NoAccount, role |-> NoRole,
            saw |-> Missing, want |-> Missing, stale |-> FALSE]

Known(u) == accounts[u] # Missing
(* require_admin: get_current_user, then is_admin. *)
MayAdminister(u) == Known(u) /\ accounts[u].active /\ accounts[u].admin
Exists(r) == roles[r] # Missing
(* _role_id_or_none: a role that does not exist is taken for none. *)
RoleChoices == {r \in Roles : Exists(r)} \cup {NoRole}

(* pages.allowed_pages of a user who is not an administrator. *)
Allowed(u) == IF accounts[u].role = NoRole THEN Tabs ELSE roles[accounts[u].role].pages

AccessTypeOK ==
    /\ \A u \in Accounts : Known(u) => accounts[u] \in Account
    /\ \A r \in Roles : Exists(r) => roles[r].pages \subseteq Tabs
    /\ \A f \in Forms : form[f].what \in {"none", "edit", "delete", "dropRole"}
    /\ formCount \in 0..MaxForms /\ crossed \in BOOLEAN
    /\ \A u \in Accounts : Known(u) /\ accounts[u].role # NoRole
                              => Exists(accounts[u].role)

(* seed_admin_from_env has made the first administrator. *)
AccessInit ==
    /\ \E first \in Accounts : accounts = [u \in Accounts |->
            IF u = first THEN [admin |-> TRUE, active |-> TRUE, role |-> NoRole]
            ELSE Missing]
    /\ roles = [r \in Roles |-> Missing]
    /\ form = [f \in Forms |-> Blank]
    /\ formCount = 0 /\ crossed = FALSE
    /\ chosen = [u \in Accounts |-> NoRole]

Opens(f) == form[f] = Blank /\ formCount < MaxForms /\ formCount' = formCount + 1

(* The request f is over; if it changed a row, the others are late. *)
Closes(f, touched) ==
    form' = [g \in Forms |-> IF g = f THEN Blank
                             ELSE IF touched /\ form[g] # Blank
                             THEN [form[g] EXCEPT !.stale = TRUE] ELSE form[g]]

Changes(f) == crossed' = (crossed \/ form[f].stale)

(***************************************************************************)
(* Requests that are one step: the unique names decide between two.        *)
(***************************************************************************)
UsersCreate(f, u, row) ==
    /\ Opens(f) /\ ~Known(u) /\ \E by \in Accounts : MayAdminister(by)
    /\ row.active /\ row.role \in RoleChoices
    /\ accounts' = [accounts EXCEPT ![u] = row]
    /\ chosen' = [chosen EXCEPT ![u] = row.role]
    /\ Closes(f, TRUE)
    /\ UNCHANGED <<roles, crossed>>

(* roles_create, roles_edit *)
RolesSave(f, r, pages) ==
    /\ Opens(f) /\ \E by \in Accounts : MayAdminister(by)
    /\ roles' = [roles EXCEPT ![r] = [pages |-> pages]]
    /\ Closes(f, TRUE)
    /\ UNCHANGED <<accounts, chosen, crossed>>

(***************************************************************************)
(* /users/{id}/edit: nobody takes the rights from himself.                 *)
(***************************************************************************)
\* Mutant: the form of oneself is treated like any other.
UsersEditAnyone(f, by, u, want) ==
    /\ Opens(f) /\ MayAdminister(by) /\ Known(u)
    /\ want.role \in RoleChoices
    /\ form' = [form EXCEPT ![f] = [Blank EXCEPT !.what = "edit", !.target = u,
                                        !.saw = accounts[u], !.want = want]]
    /\ UNCHANGED <<accounts, roles, chosen, crossed>>

UsersEdit(f, by, u, want) ==
    /\ Opens(f) /\ MayAdminister(by) /\ Known(u)
    /\ want.role \in RoleChoices
    /\ LET row == IF u = by THEN [accounts[u] EXCEPT !.role = want.role] ELSE want
       IN  form' = [form EXCEPT ![f] = [Blank EXCEPT !.what = "edit", !.target = u,
                                            !.saw = accounts[u], !.want = row]]
    /\ UNCHANGED <<accounts, roles, chosen, crossed>>

(* UPDATE of what differs; a row or a role that is gone makes it fail. *)
UsersSave(f) ==
    /\ form[f].what = "edit"
    /\ LET u == form[f].target
           new(field) == IF form[f].want[field] = form[f].saw[field]
                         THEN accounts[u][field] ELSE form[f].want[field]
           moved == form[f].want # form[f].saw
           fails == moved /\ (~Known(u) \/ (new("role") \in Roles /\ ~Exists(new("role"))))
       IN  IF fails \/ ~moved
           THEN Closes(f, FALSE) /\ UNCHANGED <<accounts, chosen, crossed>>
           ELSE /\ accounts' = [accounts EXCEPT ![u] =
                      [admin |-> new("admin"), active |-> new("active"), role |-> new("role")]]
                /\ chosen' = [chosen EXCEPT ![u] = form[f].want.role]
                /\ Closes(f, TRUE) /\ Changes(f)
    /\ UNCHANGED <<roles, formCount>>

UsersDelete(f, by, u) ==
    /\ Opens(f) /\ MayAdminister(by) /\ u # by /\ Known(u)
    /\ form' = [form EXCEPT ![f] = [Blank EXCEPT !.what = "delete", !.target = u]]
    /\ UNCHANGED <<accounts, roles, chosen, crossed>>

UsersDeleted(f) ==
    /\ form[f].what = "delete"
    /\ IF ~Known(form[f].target)
       THEN Closes(f, FALSE) /\ UNCHANGED <<accounts, chosen, crossed>>
       ELSE /\ accounts' = [accounts EXCEPT ![form[f].target] = Missing]
            /\ chosen' = [chosen EXCEPT ![form[f].target] = NoRole]
            /\ Closes(f, TRUE) /\ Changes(f)
    /\ UNCHANGED <<roles, formCount>>

(***************************************************************************)
(* /roles/{id}/delete: a role that is assigned is kept; users.role_id is   *)
(* ON DELETE SET NULL, and no role means every tab.                        *)
(***************************************************************************)
RolesDelete(f, r) ==
    /\ Opens(f) /\ Exists(r) /\ \E by \in Accounts : MayAdminister(by)
    /\ ~\E u \in Accounts : Known(u) /\ accounts[u].role = r
    /\ form' = [form EXCEPT ![f] = [Blank EXCEPT !.what = "dropRole", !.role = r]]
    /\ UNCHANGED <<accounts, roles, chosen, crossed>>

RolesDeleted(f) ==
    /\ form[f].what = "dropRole"
    /\ IF ~Exists(form[f].role)
       THEN Closes(f, FALSE) /\ UNCHANGED <<accounts, roles, crossed>>
       ELSE /\ roles' = [roles EXCEPT ![form[f].role] = Missing]
            /\ accounts' = [u \in Accounts |->
                  IF Known(u) /\ accounts[u].role = form[f].role
                  THEN [accounts[u] EXCEPT !.role = NoRole] ELSE accounts[u]]
            /\ Closes(f, TRUE) /\ Changes(f)
    /\ UNCHANGED <<formCount, chosen>>

AccessNext ==
    \E f \in Forms :
        \/ \E u \in Accounts, row \in Account : UsersCreate(f, u, row)
        \/ \E r \in Roles, pages \in SUBSET Tabs : RolesSave(f, r, pages)
        \/ \E by, u \in Accounts, want \in Account : UsersEdit(f, by, u, want)
        \/ \E by, u \in Accounts : UsersDelete(f, by, u)
        \/ \E r \in Roles : RolesDelete(f, r)
        \/ UsersSave(f) \/ UsersDeleted(f) \/ RolesDeleted(f)

AccessSpec == AccessInit /\ [][AccessNext]_accessVars

(* As long as no two administrators decide on the same moment's rows,      *)
(* somebody can always administer (web/app.py:2597: nobody may demote or   *)
(* delete himself), and whoever was given a role sees the tabs of that     *)
(* role and no others (web/app.py:2721-2722).                              *)
AccessIsKept ==
    crossed \/ /\ \E u \in Accounts : MayAdminister(u)
               /\ \A u \in Accounts : Known(u) /\ chosen[u] # NoRole
                    => Exists(chosen[u]) /\ Allowed(u) = roles[chosen[u]].pages
=============================================================================
