--------------------------- MODULE Organizations ---------------------------
(***************************************************************************)
(* Organizations and their memberships (db/organizations.py and the routes *)
(* of api/routes/organizations.py).  A route is a sequence of awaited      *)
(* database calls: it looks up the membership of the caller, then that of  *)
(* the member it is about, then counts the owners, and only then writes.   *)
(* A request slot holds what a route has read so far.                      *)
(*                                                                         *)
(* Accounts adds the users and composes the two.                           *)
(***************************************************************************)
EXTENDS Naturals, FiniteSets

CONSTANTS
  Users,       \* the ids of users
  Names,       \* the user names
  Orgs,        \* the ids of organizations
  Slots,       \* the requests in progress
  GivenRoles,  \* the roles that requests ask for
  None         \* no user, no name, no organization, no role

VARIABLES
  created,  \* the organizations inserted so far; none is ever deleted
  member,   \* the role of each user in each organization, or None
  req,      \* the requests in progress
  excused   \* the organizations whose creation was cut short, an owner of
            \* which add_member demoted, or two of whose members were changed
            \* or removed by overlapping requests (auxiliary)

ASSUME OrganizationsAssumption ==
  /\ IsFiniteSet(Users)
  /\ None \notin Users \cup Names \cup Orgs \cup {"owner", "admin", "member", "viewer"}
  /\ GivenRoles \subseteq {"owner", "admin", "member"}

orgVars == <<created, member, excused>>

OrgRoles == {"owner", "admin", "member"}

UserRoles == {"admin", "viewer"}

(* late: another user was inserted since the request counted them          *)
(* (auxiliary).                                                            *)
Request ==
  [op : {"bootstrap", "signup", "user", "create", "add", "change", "remove"},
   at : {"target", "owners", "write", "insert", "org", "owner"},
   user : Users \cup {None}, name : Names \cup {None}, org : Orgs \cup {None},
   target : Users \cup {None}, role : OrgRoles \cup UserRoles \cup {None},
   late : BOOLEAN]

Free ==
  [op |-> "signup", at |-> "owner", user |-> None, name |-> None, org |-> None,
   target |-> None, role |-> None, late |-> FALSE]

At(s, op, stage) == req[s] # Free /\ req[s].op = op /\ req[s].at = stage

Owners(o) == {u \in Users : member[o][u] = "owner"}

Manages(o, u) == member[o][u] \in {"owner", "admin"}

Finish(s) == req' = [req EXCEPT ![s] = Free]

SetRole(o, u, role) == member' = [member EXCEPT ![o][u] = role]

-----------------------------------------------------------------------------
(* create_organization: the insert, then the membership of the owner.  A   *)
(* slug that is taken gets a suffix, so the insert itself succeeds.        *)
InsertOrganization(s) ==
  /\ At(s, "signup", "org")
  /\ \E o \in Orgs \ created :
       /\ created' = created \cup {o}
       /\ req' = [req EXCEPT ![s].at = "owner", ![s].org = o]
  /\ UNCHANGED <<member, excused>>

(* add_membership is an upsert.                                            *)
AddOwner(s) ==
  /\ req[s] # Free /\ req[s].at = "owner"
  /\ SetRole(req[s].org, req[s].user, "owner")
  /\ Finish(s)
  /\ UNCHANGED <<created, excused>>

CreateOrg(s, caller) ==
  /\ req[s] = Free
  /\ \E o \in Orgs \ created :
       /\ created' = created \cup {o}
       /\ req' = [req EXCEPT ![s] =
                    [Free EXCEPT !.op = "create", !.user = caller, !.org = o]]
  /\ UNCHANGED <<member, excused>>

-----------------------------------------------------------------------------
(* The start of a route about a member: _require_member, _require_manager. *)
RequireManager(s, op, caller, o, target, role) ==
  /\ req[s] = Free
  /\ o \in created
  /\ Manages(o, caller)
  /\ req' = [req EXCEPT ![s] =
               [Free EXCEPT !.op = op, !.at = "target", !.org = o,
                            !.target = target, !.role = role]]
  /\ UNCHANGED orgVars

(* add_member writes without a look at the role the target has.            *)
AddMembership(s) ==
  LET o == req[s].org
      u == req[s].target
  IN  /\ At(s, "add", "write")
      /\ SetRole(o, u, req[s].role)
      /\ excused' = IF u \in Owners(o) /\ req[s].role # "owner"
                    THEN excused \cup {o} ELSE excused
      /\ Finish(s)
      /\ UNCHANGED created

(* A request of change_member_role or remove_member that is about to write *)
Writing(s) == At(s, "change", "write") \/ At(s, "remove", "write")

Overlaps(s) ==
  \E r \in Slots \ {s} : Writing(r) /\ req[r].org = req[s].org

ToWrite(s) ==
  /\ req' = [req EXCEPT ![s].at = "write"]
  /\ excused' = IF Overlaps(s) THEN excused \cup {req[s].org} ELSE excused

(* change_member_role and remove_member: get_membership of the target.     *)
(* role is None for a removal, which is never the role of an owner.        *)
FindTarget(s) ==
  /\ req[s] # Free /\ req[s].op \in {"change", "remove"} /\ req[s].at = "target"
  /\ CASE member[req[s].org][req[s].target] = None ->
            Finish(s) /\ UNCHANGED excused
       [] member[req[s].org][req[s].target] = "owner" /\ req[s].role # "owner" ->
            req' = [req EXCEPT ![s].at = "owners"] /\ UNCHANGED excused
       [] OTHER -> ToWrite(s)
  /\ UNCHANGED <<created, member>>

LastOwner_OffByOne(o) == Cardinality(Owners(o)) < 1

LastOwner(o) == Cardinality(Owners(o)) <= 1

(* count_org_role                                                          *)
CountOwners(s) ==
  /\ req[s] # Free /\ req[s].op \in {"change", "remove"} /\ req[s].at = "owners"
  /\ IF LastOwner(req[s].org)
     THEN Finish(s) /\ UNCHANGED excused
     ELSE ToWrite(s)
  /\ UNCHANGED <<created, member>>

(* update_member_role changes nothing when the membership is gone, and     *)
(* neither does remove_membership.                                         *)
WriteMember(s) ==
  /\ Writing(s)
  /\ IF member[req[s].org][req[s].target] = None THEN UNCHANGED member
     ELSE SetRole(req[s].org, req[s].target, req[s].role)
  /\ Finish(s)
  /\ UNCHANGED <<created, excused>>

(* A request dies, or a database call raises, at any stage.                *)
CutRequest(s) ==
  /\ req[s] # Free
  /\ excused' = IF req[s].at = "owner" THEN excused \cup {req[s].org} ELSE excused
  /\ Finish(s)
  /\ UNCHANGED <<created, member>>

OrganizationsInit ==
  /\ created = {}
  /\ member = [o \in Orgs |-> [u \in Users |-> None]]
  /\ req = [s \in Slots |-> Free]
  /\ excused = {}
=============================================================================
