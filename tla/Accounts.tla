------------------------------ MODULE Accounts ------------------------------
(***************************************************************************)
(* Users (api/routes/auth.py), the claims of the JWTs they hold, and their *)
(* organizations.  Routes trust the claims of a token and do not read the  *)
(* user again: a token outlives a change of role and the user itself.      *)
(***************************************************************************)
EXTENDS Organizations

VARIABLES
  user,     \* name and role of each user, NoUser when there is none
  issued,   \* the user ids given out so far
  tokens,   \* the valid JWTs: the user and the role they were issued for
  outdated  \* an administrator was given another role, or a token was used
            \* whose user is no longer an administrator (auxiliary)

userVars == <<user, issued, tokens, outdated>>

vars == <<orgVars, req, userVars>>

NoUser == [name |-> None, role |-> None]

Token == [user : Users, role : UserRoles]

Present == {u \in Users : user[u] # NoUser}

Admins == {u \in Present : user[u].role = "admin"}

Taken(name) == \E u \in Present : user[u].name = name

AdminTokens == {t \in tokens : t.role = "admin"}

Uses(t) == outdated' = (outdated \/ t.user \notin Admins)

-----------------------------------------------------------------------------
Begin_ForgetsRole(s, op, name, role) ==
  /\ req[s] = Free
  /\ req' = [req EXCEPT ![s] =
               [Free EXCEPT !.op = op, !.at = "insert", !.name = name]]

Begin(s, op, name, role) ==
  /\ req[s] = Free
  /\ req' = [req EXCEPT ![s] =
               [Free EXCEPT !.op = op, !.at = "insert", !.name = name,
                            !.role = role]]

Bootstrap_Unchecked(s, name) ==
  /\ Begin(s, "bootstrap", name, "admin")
  /\ UNCHANGED <<orgVars, userVars>>

Bootstrap(s, name) ==
  /\ Present = {}
  /\ Begin(s, "bootstrap", name, "admin")
  /\ UNCHANGED <<orgVars, userVars>>

Signup(s, name) ==
  /\ ~Taken(name)
  /\ Begin(s, "signup", name, "viewer")
  /\ UNCHANGED <<orgVars, userVars>>

CreateUser(s, t, name, role) ==
  /\ ~Taken(name)
  /\ Begin(s, "user", name, role)
  /\ Uses(t)
  /\ UNCHANGED <<orgVars, user, issued, tokens>>

(* insert_one: the index on username refuses a name taken in the meantime. *)
(* A signup goes on with create_organization; bootstrap answers a token.   *)
InsertUser(s) ==
  /\ req[s] # Free /\ req[s].at = "insert"
  /\ IF Taken(req[s].name) THEN Finish(s) /\ UNCHANGED <<user, issued, tokens>>
     ELSE \E u \in Users \ issued :
       /\ user' = [user EXCEPT ![u] = [name |-> req[s].name, role |-> req[s].role]]
       /\ issued' = issued \cup {u}
       /\ tokens' = IF req[s].op = "bootstrap"
                    THEN tokens \cup {[user |-> u, role |-> "admin"]} ELSE tokens
       /\ req' = [r \in Slots |->
            CASE r = s /\ req[s].op = "signup" ->
                   [Free EXCEPT !.op = "signup", !.at = "org", !.user = u]
              [] r = s -> Free
              [] r # s /\ At(r, "bootstrap", "insert") -> [req[r] EXCEPT !.late = TRUE]
              [] OTHER -> req[r]]
  /\ UNCHANGED <<orgVars, outdated>>

(* signup answers a token once the organization has its owner.             *)
FinishCreation(s) ==
  /\ AddOwner(s)
  /\ tokens' = IF req[s].op = "signup"
               THEN tokens \cup {[user |-> req[s].user, role |-> "viewer"]}
               ELSE tokens
  /\ UNCHANGED <<user, issued, outdated>>

Login(u) ==
  /\ u \in Present
  /\ tokens' = tokens \cup {[user |-> u, role |-> user[u].role]}
  /\ UNCHANGED <<orgVars, req, user, issued, outdated>>

ExpireToken(t) ==
  /\ tokens' = tokens \ {t}
  /\ UNCHANGED <<orgVars, req, user, issued, outdated>>

UpdateUser(t, u, role) ==
  /\ u \in Present
  /\ user' = [user EXCEPT ![u].role = role]
  /\ outdated' = (outdated \/ t.user \notin Admins \/ (u \in Admins /\ role # "admin"))
  /\ UNCHANGED <<orgVars, req, issued, tokens>>

DeleteUser_AlsoYourself(t, u) ==
  /\ u \in Present
  /\ user' = [user EXCEPT ![u] = NoUser]
  /\ Uses(t)
  /\ UNCHANGED <<orgVars, req, issued, tokens>>

DeleteUser(t, u) ==
  /\ u # t.user
  /\ u \in Present
  /\ user' = [user EXCEPT ![u] = NoUser]
  /\ Uses(t)
  /\ UNCHANGED <<orgVars, req, issued, tokens>>

(* add_member finds its target by user name.                               *)
FindUser(s, name) ==
  /\ At(s, "add", "target")
  /\ IF ~Taken(name) THEN Finish(s)
     ELSE \E u \in Present :
            /\ user[u].name = name
            /\ req' = [req EXCEPT ![s].at = "write", ![s].target = u]
  /\ UNCHANGED <<orgVars, userVars>>

-----------------------------------------------------------------------------
Init ==
  /\ OrganizationsInit
  /\ user = [u \in Users |-> NoUser]
  /\ issued = {}
  /\ tokens = {}
  /\ outdated = FALSE

OrgRequest(s) ==
  /\ \/ InsertOrganization(s)
     \/ \E t \in tokens :
          \/ CreateOrg(s, t.user)
          \/ \E o \in Orgs :
               \/ \E role \in GivenRoles :
                    RequireManager(s, "add", t.user, o, None, role)
               \/ \E u \in Users, role \in GivenRoles :
                    RequireManager(s, "change", t.user, o, u, role)
               \/ \E u \in Users :
                    RequireManager(s, "remove", t.user, o, u, None)
     \/ AddMembership(s)
     \/ FindTarget(s)
     \/ CountOwners(s)
     \/ WriteMember(s)
     \/ CutRequest(s)
  /\ UNCHANGED userVars

UserRequest(s) ==
  \/ \E name \in Names :
       \/ Bootstrap(s, name)
       \/ Signup(s, name)
       \/ \E t \in AdminTokens, role \in UserRoles : CreateUser(s, t, name, role)
       \/ FindUser(s, name)
  \/ InsertUser(s)
  \/ FinishCreation(s)

Next ==
  \/ \E s \in Slots : OrgRequest(s) \/ UserRequest(s)
  \/ \E u \in Users : Login(u)
  \/ \E t \in tokens : ExpireToken(t)
  \/ \E t \in AdminTokens, u \in Users :
       DeleteUser(t, u) \/ \E role \in UserRoles : UpdateUser(t, u, role)

Spec == Init /\ [][Next]_vars

-----------------------------------------------------------------------------
(* What a request has read by the stage it is at; orgs are those created.  *)
WellFormed(r, orgs) ==
  /\ r.at = "insert" => r.name \in Names /\ r.role \in UserRoles
  /\ r.op = "bootstrap" => r.at = "insert" /\ r.role = "admin"
  /\ r.at \in {"org", "owner"} => r.user \in Users
  /\ r.at \in {"target", "owners", "write", "owner"} => r.org \in orgs
  /\ r.at \in {"target", "owners", "write"} => r.role \in OrgRoles \cup {None}
  /\ r.op \in {"change", "remove"} => r.target \in Users
  /\ r.op = "add" /\ r.at = "write" => r.target \in Users

(* Users, tokens, organizations and requests have their shape: a request   *)
(* never goes on without what an earlier stage has read.                   *)
TypeOK ==
  /\ created \subseteq Orgs /\ excused \subseteq Orgs
  /\ member \in [Orgs -> [Users -> OrgRoles \cup {None}]]
  /\ req \in [Slots -> Request]
  /\ user \in [Users -> [name : Names, role : UserRoles] \cup {NoUser}]
  /\ issued \subseteq Users /\ tokens \subseteq Token /\ outdated \in BOOLEAN
  /\ Present \subseteq issued
  /\ \A s \in Slots : req[s] # Free => WellFormed(req[s], created)

(* An organization keeps an owner through any sequence of role changes and *)
(* removals, unless two of them overlapped, add_member demoted an owner or *)
(* its creation was cut short (change_member_role, remove_member).         *)
OwnersRemain ==
  \A o \in created \ excused :
    \/ Owners(o) # {}
    \/ \E s \in Slots : req[s] # Free /\ req[s].at = "owner" /\ req[s].org = o

(* Whoever holds a token of an administrator, some administrator exists,   *)
(* however deletions cross, unless one was demoted or a token was used     *)
(* whose user is none any more (delete_user: "Cannot delete yourself").    *)
AdminRemains == AdminTokens # {} /\ ~outdated => Admins # {}

(* bootstrap makes an administrator beside other users only when they were *)
(* inserted after it had counted none.                                     *)
BootstrapComesFirst ==
  [][\A s \in Slots : At(s, "bootstrap", "insert") /\ issued' # issued
       /\ req'[s] = Free /\ Present # {} => req[s].late]_vars
(* What the error texts of change_member_role and remove_member say:       *)
(* "Cannot demote the last owner", "Cannot remove the last owner".         *)
LastOwnerIsKept == [][\A o \in Orgs : Owners(o) # {} => Owners(o)' # {}]_vars
=============================================================================
