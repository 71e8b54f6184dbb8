--------------------------- MODULE UserManagement ---------------------------
(***************************************************************************)
(* The proctors' accounts: the page that lists, edits, switches on and off *)
(* and deletes them (dashboard/src/pages/UserManagement.jsx), in the       *)
(* session of one administrator, Me, and the server's part (server/app/    *)
(* api/auth.py), which other administrators' pages use as well.  The page  *)
(* names the roles in capitals; the server knows "admin" and "proctor".    *)
(***************************************************************************)
EXTENDS Naturals, FiniteSets, Functions, QueryClient

CONSTANTS
    Users,
    Me,                 \* whose page it is
    RolesChosen,        \* bound: the roles that are chosen in the dialog
    MaxUserRequests,    \* bound on the requests sent
    MaxUserEvents       \* bound on losses and what others do

ASSUME UserAssumption == IsFiniteSet(Users) /\ Me \in Users /\ "none" \notin Users

VARIABLES
    accounts,       \* the server's rows: user -> [role, active]
    listed,         \* the page's query
    userDialog,     \* <<>>, or <<[user, role]>>; the user is "none" for a new one
    deleteConfirm,  \* the user that the deletion dialog is about, or "none"
    userRequests,   \* under way: [no, do, user, row, at]
    sentUserRequests, userEvents

userPageVars == <<userDialog, deleteConfirm>>
userVars == <<accounts, listed, userPageVars, userRequests, sentUserRequests, userEvents>>

UserEvent == userEvents < MaxUserEvents /\ userEvents' = userEvents + 1

(* ROLES, the server's names in capitals; any other is shown as PROCTOR.   *)
PageRoles == {"ADMIN", "PROCTOR", "OBSERVER"}
ShownRole(role) == CASE role = "admin" -> "ADMIN" [] role \in PageRoles -> role [] OTHER -> "PROCTOR"

(* require_admin.                                                          *)
Administers(u) == u \in DOMAIN accounts /\ accounts[u].active /\ accounts[u].role = "admin"

(* The rows that search and filter leave: any part of what was fetched.    *)
UserRows == IF HasData(listed) THEN DOMAIN DataOf(listed) ELSE {}

NoDialog == userDialog = <<>> /\ deleteConfirm = "none"

-----------------------------------------------------------------------------
UserPageStep == UNCHANGED <<accounts, listed, userRequests, sentUserRequests, userEvents>>

openCreate ==
    /\ NoDialog
    /\ userDialog' = <<[user |-> "none", role |-> "PROCTOR"]>>
    /\ UNCHANGED deleteConfirm /\ UserPageStep

openEdit(u) ==
    /\ NoDialog /\ u \in UserRows
    /\ userDialog' = <<[user |-> u, role |-> DataOf(listed)[u].role]>>
    /\ UNCHANGED deleteConfirm /\ UserPageStep

chooseRole(role) ==
    /\ userDialog # <<>> /\ userDialog[1].role # role
    /\ userDialog' = <<[userDialog[1] EXCEPT !.role = role]>>
    /\ UNCHANGED deleteConfirm /\ UserPageStep

(* Not offered for one's own account.                                      *)
openDelete(u) ==
    /\ NoDialog /\ u \in UserRows \ {Me}
    /\ deleteConfirm' = u
    /\ UNCHANGED userDialog /\ UserPageStep

CloseUserDialog ==
    /\ ~NoDialog
    /\ userDialog' = <<>> /\ deleteConfirm' = "none"
    /\ UserPageStep

SendUser(do, u, row) ==
    /\ sentUserRequests < MaxUserRequests /\ sentUserRequests' = sentUserRequests + 1
    /\ userRequests' = userRequests \union
         {[no |-> sentUserRequests, do |-> do, user |-> u, row |-> row, at |-> "sent"]}
    /\ UNCHANGED <<accounts, listed, userPageVars, userEvents>>

(* The dialogs stay open, and their buttons enabled, until the answer.     *)
handleSaveUser ==
    /\ userDialog # <<>>
    /\ SendUser(IF userDialog[1].user = "none" THEN "create" ELSE "role", userDialog[1].user,
                [role |-> userDialog[1].role, active |-> TRUE])

(* The new state is the opposite of the one that is shown.                 *)
toggleStatus(u) ==
    /\ NoDialog /\ u \in UserRows \ {Me}
    /\ SendUser("active", u, [role |-> "", active |-> ~DataOf(listed)[u].active])

handleDeleteUser ==
    /\ deleteConfirm # "none"
    /\ SendUser("delete", deleteConfirm, [role |-> "", active |-> FALSE])

-----------------------------------------------------------------------------
UserAnswer(r, at) == userRequests' = (userRequests \ {r}) \union {[r EXCEPT !.at = at]}

(* register_proctor: none of the page's roles matches ^(admin|proctor)$.   *)
register_proctor(r) ==
    /\ r.at = "sent" /\ r.do = "create"
    /\ UserAnswer(r, "refused")
    /\ UNCHANGED <<accounts, listed, userPageVars, sentUserRequests, userEvents>>

(* update_user takes any role.                                             *)
update_user(r) ==
    /\ r.at = "sent" /\ r.do \in {"role", "active"}
    /\ IF Administers(Me) /\ r.user \in DOMAIN accounts
       THEN /\ accounts' = [accounts EXCEPT ![r.user] =
                              IF r.do = "role" THEN [@ EXCEPT !.role = r.row.role]
                                               ELSE [@ EXCEPT !.active = r.row.active]]
            /\ UserAnswer(r, "done")
       ELSE UNCHANGED accounts /\ UserAnswer(r, "refused")
    /\ UNCHANGED <<listed, userPageVars, sentUserRequests, userEvents>>

delete_user(r) ==
    /\ r.at = "sent" /\ r.do = "delete"
    /\ IF Administers(Me) /\ r.user \in DOMAIN accounts \ {Me}
       THEN accounts' = Restrict(accounts, DOMAIN accounts \ {r.user}) /\ UserAnswer(r, "done")
       ELSE UNCHANGED accounts /\ UserAnswer(r, "refused")
    /\ UNCHANGED <<listed, userPageVars, sentUserRequests, userEvents>>

(* Another administrator: an account is added, deleted, or switched.       *)
OthersChange(u) ==
    /\ UserEvent
    /\ \/ /\ u \notin DOMAIN accounts
          /\ \E role \in {"admin", "proctor"} :
                accounts' = [v \in DOMAIN accounts \union {u} |->
                               IF v = u THEN [role |-> role, active |-> TRUE] ELSE accounts[v]]
       \/ u \in DOMAIN accounts /\ accounts' = Restrict(accounts, DOMAIN accounts \ {u})
       \/ u \in DOMAIN accounts /\ accounts' = [accounts EXCEPT ![u].active = ~@]
    /\ UNCHANGED <<listed, userPageVars, userRequests, sentUserRequests>>

-----------------------------------------------------------------------------
UsersRefreshed == Invalidated(listed)

(* The list is fetched, and whichever dialog of its kind is open closes.   *)
UserDone(r) ==
    /\ r.at = "done"
    /\ listed' = UsersRefreshed
    /\ userDialog' = IF r.do = "role" THEN <<>> ELSE userDialog
    /\ deleteConfirm' = IF r.do = "delete" THEN "none" ELSE deleteConfirm
    /\ userRequests' = userRequests \ {r}
    /\ UNCHANGED <<accounts, sentUserRequests, userEvents>>

(* A toast; the dialogs stay.  After a loss the server may have acted.     *)
UserFailed(r) ==
    /\ IF r.at = "refused" THEN UNCHANGED userEvents ELSE UserEvent
    /\ userRequests' = userRequests \ {r}
    /\ UNCHANGED <<accounts, listed, userPageVars, sentUserRequests>>

UserListProgress ==
    /\ listed' \in Progress(listed, accounts)
    /\ IF listed'.failed /\ ~Fetching(listed') THEN UserEvent ELSE UNCHANGED userEvents
    /\ UNCHANGED <<accounts, userPageVars, userRequests, sentUserRequests>>

UserInit ==
    /\ accounts = [u \in Users |-> [role |-> "admin", active |-> TRUE]]
    /\ listed = Mounted
    /\ userDialog = <<>> /\ deleteConfirm = "none"
    /\ userRequests = {} /\ sentUserRequests = 0 /\ userEvents = 0

UserNext ==
    \/ openCreate \/ CloseUserDialog \/ handleSaveUser \/ handleDeleteUser \/ UserListProgress
    \/ \E role \in RolesChosen \intersect PageRoles : chooseRole(role)
    \/ \E u \in Users : openEdit(u) \/ openDelete(u) \/ toggleStatus(u) \/ OthersChange(u)
    \/ \E r \in userRequests : \/ register_proctor(r) \/ update_user(r) \/ delete_user(r)
                                \/ UserDone(r) \/ UserFailed(r)

UserSpec == UserInit /\ [][UserNext]_userVars

-----------------------------------------------------------------------------
(***************************************************************************)
(* "ADMIN ... Full system access" (UserManagement.jsx:19): an active       *)
(* account that the page shows as ADMIN may do what require_admin guards.  *)
(***************************************************************************)
AdminHasAccess ==
    \A u \in DOMAIN accounts :
        accounts[u].active /\ ShownRole(accounts[u].role) = "ADMIN" => Administers(u)
=============================================================================
