-------------------------- MODULE AccountsProofs ---------------------------
(***************************************************************************)
(* Theorems about Accounts, for any users, names, organizations and        *)
(* requests in progress.                                                   *)
(***************************************************************************)
EXTENDS Accounts, FiniteSetTheorems, TLAPS

(* Two requests that are about to change members of one organization       *)
(* overlapped.                                                             *)
OneWrites ==
  \A s, r \in Slots :
    s # r /\ Writing(s) /\ Writing(r) /\ req[s].org = req[r].org
      => req[s].org \in excused

(* Until its owner is added, nothing refers to an organization but the     *)
(* request that creates it.                                                *)
Untouched(o) == \A u \in Users : member[o][u] = None

Creating(s, o) == req[s] # Free /\ req[s].at = "owner" /\ req[s].org = o

NewOrgs ==
  /\ \A o \in Orgs \ created :
       Untouched(o) /\ \A r \in Slots : req[r].org # o
  /\ \A s \in Slots, o \in Orgs :
       Creating(s, o) => Untouched(o) /\ \A r \in Slots \ {s} : req[r].org # o

(* Whatever a request that has passed the count of the owners is about to  *)
(* write, another owner is left.                                           *)
WriteSafe ==
  \A s \in Slots :
    Writing(s) /\ req[s].role # "owner" /\ req[s].org \notin excused
      => Owners(req[s].org) \ {req[s].target} # {}

(* A bootstrap that is about to insert counted no users.                   *)
Counted ==
  \A s \in Slots :
    At(s, "bootstrap", "insert") /\ Present # {} => req[s].late

OrgInv == OwnersRemain /\ OneWrites /\ WriteSafe

Inv == TypeOK /\ NewOrgs /\ OrgInv /\ AdminRemains /\ Counted

-----------------------------------------------------------------------------
(* Types *)

LEMMA FreeIsRequest == Free \in Request
<1> QED
  BY DEF Free, Request, OrgRoles, UserRoles

(* A step that sets one request and the organizations keeps the types.     *)
LEMMA RequestType ==
  ASSUME TypeOK, NEW s \in Slots, NEW v \in Request,
         req' = [req EXCEPT ![s] = v],
         v # Free => WellFormed(v, created'),
         created \subseteq created', created' \subseteq Orgs,
         excused' \subseteq Orgs,
         member' \in [Orgs -> [Users -> OrgRoles \cup {None}]],
         UNCHANGED <<user, issued>>, tokens' \subseteq Token,
         outdated' \in BOOLEAN
  PROVE  TypeOK'
<1>1. req' \in [Slots -> Request]
  BY DEF TypeOK
<1>2. ASSUME NEW r \in Slots, req'[r] # Free
      PROVE  WellFormed(req'[r], created')
  <2>1. CASE r = s
    BY <2>1, <1>2 DEF TypeOK
  <2>2. CASE r # s
    BY <2>2, <1>2 DEF TypeOK, WellFormed
  <2> QED
    BY <2>1, <2>2
<1>3. user' \in [Users -> [name : Names, role : UserRoles] \cup {NoUser}]
  BY DEF TypeOK
<1>4. Present' \subseteq issued' /\ issued' \subseteq Users
  BY DEF TypeOK, Present
<1> QED
  BY <1>1, <1>2, <1>3, <1>4 DEF TypeOK

(* The same for a step that leaves the requests alone.                     *)
LEMMA UserType ==
  ASSUME TypeOK, UNCHANGED <<req, orgVars>>,
         user' \in [Users -> [name : Names, role : UserRoles] \cup {NoUser}],
         Present' \subseteq issued', issued' \subseteq Users,
         tokens' \subseteq Token, outdated' \in BOOLEAN
  PROVE  TypeOK'
<1>1. \A r \in Slots : req'[r] # Free => WellFormed(req'[r], created')
  BY DEF TypeOK, WellFormed, orgVars
<1> QED
  BY <1>1 DEF TypeOK, orgVars
(* The steps of a request that has read a part of what it needs.           *)
LEMMA OrgRequestType ==
  ASSUME TypeOK, NEW s \in Slots, OrgRequest(s)
  PROVE  TypeOK'
<1> USE FreeIsRequest
<1>0. req[s] \in Request /\ (req[s] # Free => WellFormed(req[s], created))
  BY DEF TypeOK
<1>1. ASSUME NEW t \in tokens, CreateOrg(s, t.user)
      PROVE  TypeOK'
  <2>1. PICK o \in Orgs \ created :
          /\ created' = created \cup {o}
          /\ req' = [req EXCEPT ![s] =
               [Free EXCEPT !.op = "create", !.user = t.user, !.org = o]]
    BY <1>1 DEF CreateOrg
  <2> DEFINE v == [Free EXCEPT !.op = "create", !.user = t.user, !.org = o]
  <2>2. t.user \in Users
    BY DEF TypeOK, Token
  <2>3. v \in Request /\ WellFormed(v, created')
    BY <2>1, <2>2 DEF Free, Request, WellFormed
  <2> HIDE DEF v
  <2>4. UNCHANGED <<member, excused, user, issued, tokens, outdated>>
    BY <1>1 DEF CreateOrg, OrgRequest, userVars
  <2> QED
    BY <2>1, <2>3, <2>4, RequestType DEF v, TypeOK
<1>2. CASE InsertOrganization(s)
  <2>1. PICK o \in Orgs \ created :
          /\ created' = created \cup {o}
          /\ req' = [req EXCEPT ![s] = [req[s] EXCEPT !.at = "owner", !.org = o]]
    BY <1>2, <1>0 DEF InsertOrganization, TypeOK
  <2> DEFINE v == [req[s] EXCEPT !.at = "owner", !.org = o]
  <2>2. v \in Request /\ WellFormed(v, created')
    <3>1. req[s].op = "signup" /\ req[s].user \in Users
      BY <1>0, <1>2 DEF InsertOrganization, At, WellFormed
    <3>2. v \in Request
      BY <1>0 DEF Request
    <3>3. v.op = "signup" /\ v.at = "owner" /\ v.user \in Users /\ v.org = o
      BY <1>0, <3>1 DEF Request
    <3> HIDE DEF v
    <3> QED
      BY <2>1, <3>2, <3>3 DEF WellFormed
  <2> HIDE DEF v
  <2>3. UNCHANGED <<member, excused, user, issued, tokens, outdated>>
    BY <1>2 DEF InsertOrganization, OrgRequest, userVars
  <2> QED
    BY <2>1, <2>2, <2>3, RequestType DEF v, TypeOK
<1>3. ASSUME NEW t \in tokens, NEW op \in {"add", "change", "remove"},
             NEW o \in Orgs, NEW u \in Users \cup {None},
             NEW role \in GivenRoles \cup {None},
             op # "add" => u \in Users,
             RequireManager(s, op, t.user, o, u, role)
      PROVE  TypeOK'
  <2> DEFINE v == [Free EXCEPT !.op = op, !.at = "target", !.org = o,
                               !.target = u, !.role = role]
  <2>1. req' = [req EXCEPT ![s] = v] /\ o \in created
    BY <1>3 DEF RequireManager
  <2>2. v \in Request /\ WellFormed(v, created)
    BY <1>3, <2>1, OrganizationsAssumption
    DEF Free, Request, WellFormed, OrgRoles, UserRoles
  <2> HIDE DEF v
  <2>3. UNCHANGED <<created, member, excused, user, issued, tokens, outdated>>
    BY <1>3 DEF RequireManager, OrgRequest, orgVars, userVars
  <2> QED
    BY <2>1, <2>2, <2>3, RequestType DEF TypeOK
<1>4. ASSUME NEW stage \in {"owners", "write"},
             req[s].at \in {"target", "owners"}, req[s] # Free,
             req[s].op # "add",
             req' = [req EXCEPT ![s].at = stage],
             UNCHANGED <<created, member>>, excused' \subseteq Orgs
      PROVE  TypeOK'
  <2> DEFINE v == [req[s] EXCEPT !.at = stage]
  <2>1. v \in Request /\ WellFormed(v, created)
    BY <1>0, <1>4 DEF Request, WellFormed
  <2>2. req' = [req EXCEPT ![s] = v]
    BY <1>0, <1>4 DEF TypeOK
  <2> HIDE DEF v
  <2>3. UNCHANGED <<user, issued, tokens, outdated>>
    BY DEF OrgRequest, userVars
  <2> QED
    BY <1>4, <2>1, <2>2, <2>3, RequestType DEF TypeOK
<1>5. ASSUME Finish(s), UNCHANGED created, excused' \subseteq Orgs,
             member' \in [Orgs -> [Users -> OrgRoles \cup {None}]]
      PROVE  TypeOK'
  <2>1. UNCHANGED <<user, issued, tokens, outdated>>
    BY DEF OrgRequest, userVars
  <2> QED
    BY <1>5, <2>1, RequestType DEF TypeOK, Finish
<1>6. ASSUME req[s] # Free, req[s].at \in {"target", "owners", "write"},
             req[s].target \in Users,
             SetRole(req[s].org, req[s].target, req[s].role)
      PROVE  member' \in [Orgs -> [Users -> OrgRoles \cup {None}]]
  BY <1>0, <1>6 DEF SetRole, TypeOK, WellFormed
<1>7. CASE AddMembership(s)
  <2>1. excused' \subseteq Orgs
    BY <1>0, <1>7 DEF AddMembership, At, WellFormed, TypeOK
  <2> QED
    BY <1>0, <1>7, <2>1, <1>5, <1>6 DEF AddMembership, At, WellFormed
<1>8. ASSUME ToWrite(s), req[s] # Free, req[s].at \in {"target", "owners"}
      PROVE  excused' \subseteq Orgs
  BY <1>0, <1>8 DEF ToWrite, TypeOK, WellFormed
<1>9. CASE FindTarget(s)
  BY <1>9, <1>4, <1>5, <1>8 DEF FindTarget, ToWrite, TypeOK
<1>10. CASE CountOwners(s)
  <2>1. req[s].op # "add"
    BY <1>10 DEF CountOwners
  <2> QED
    BY <1>10, <1>4, <1>5, <1>8, <2>1 DEF CountOwners, ToWrite, TypeOK
<1>11. CASE WriteMember(s)
  BY <1>0, <1>11, <1>5, <1>6 DEF WriteMember, Writing, At, WellFormed, TypeOK
<1>12. CASE CutRequest(s)
  BY <1>0, <1>12, <1>5 DEF CutRequest, WellFormed, TypeOK
<1> QED
  BY <1>1, <1>2, <1>3, <1>7, <1>9, <1>10, <1>11, <1>12 DEF OrgRequest
LEMMA InsertUserType ==
  ASSUME TypeOK, NEW s \in Slots, InsertUser(s)
  PROVE  TypeOK'
<1> USE FreeIsRequest
<1>0. req[s] \in Request /\ WellFormed(req[s], created) /\ req[s].at = "insert"
  BY DEF TypeOK, InsertUser
<1>1. CASE Taken(req[s].name)
  <2>1. UNCHANGED <<orgVars, userVars>> /\ req' = [req EXCEPT ![s] = Free]
    BY <1>1 DEF InsertUser, Finish, userVars
  <2> QED
    BY <2>1, RequestType DEF orgVars, userVars, TypeOK
<1>2. CASE ~Taken(req[s].name)
  <2>1. PICK u \in Users \ issued :
          /\ user' = [user EXCEPT ![u] = [name |-> req[s].name, role |-> req[s].role]]
          /\ issued' = issued \cup {u}
          /\ tokens' = IF req[s].op = "bootstrap"
                       THEN tokens \cup {[user |-> u, role |-> "admin"]} ELSE tokens
          /\ req' = [r \in Slots |->
               CASE r = s /\ req[s].op = "signup" ->
                      [Free EXCEPT !.op = "signup", !.at = "org", !.user = u]
                 [] r = s -> Free
                 [] r # s /\ At(r, "bootstrap", "insert") ->
                      [req[r] EXCEPT !.late = TRUE]
                 [] OTHER -> req[r]]
    BY <1>2 DEF InsertUser
  <2>2. ASSUME NEW r \in Slots
        PROVE  /\ req'[r] \in Request
               /\ req'[r] # Free => WellFormed(req'[r], created)
    <3>1. CASE r = s /\ req[s].op = "signup"
      <4> DEFINE v == [Free EXCEPT !.op = "signup", !.at = "org", !.user = u]
      <4>1. v \in Request /\ WellFormed(v, created)
        BY DEF Free, Request, WellFormed
      <4> QED
        BY <2>1, <3>1, <4>1
    <3>2. CASE r = s /\ req[s].op # "signup"
      BY <2>1, <3>2
    <3>3. CASE r # s /\ At(r, "bootstrap", "insert")
      <4> DEFINE v == [req[r] EXCEPT !.late = TRUE]
      <4>1. req[r] \in Request /\ WellFormed(req[r], created)
        BY <3>3 DEF TypeOK, At
      <4>2. v \in Request /\ v.op = req[r].op /\ v.at = req[r].at
            /\ v.user = req[r].user /\ v.name = req[r].name /\ v.org = req[r].org
            /\ v.target = req[r].target /\ v.role = req[r].role
        BY <4>1 DEF Request
      <4> HIDE DEF v
      <4>3. WellFormed(v, created)
        BY <4>1, <4>2 DEF WellFormed
      <4>4. req'[r] = v
        BY <2>1, <3>3 DEF v
      <4> QED
        BY <4>2, <4>3, <4>4
    <3>4. CASE r # s /\ ~At(r, "bootstrap", "insert")
      <4>1. req'[r] = req[r]
        BY <2>1, <3>4
      <4> QED
        BY <4>1 DEF TypeOK
    <3> QED
      BY <3>1, <3>2, <3>3, <3>4
  <2>3. req' \in [Slots -> Request]
    BY <2>1, <2>2
  <2>4. user' \in [Users -> [name : Names, role : UserRoles] \cup {NoUser}]
    <3>1. [name |-> req[s].name, role |-> req[s].role]
            \in [name : Names, role : UserRoles]
      BY <1>0 DEF WellFormed
    <3> QED
      BY <2>1, <3>1 DEF TypeOK
  <2>5. Present' \subseteq issued' /\ issued' \subseteq Users
    BY <2>1 DEF Present, TypeOK
  <2>6. tokens' \subseteq Token
    BY <2>1 DEF TypeOK, Token, UserRoles
  <2>7. UNCHANGED <<created, member, excused, outdated>>
    BY DEF InsertUser, orgVars
  <2> QED
    BY <2>2, <2>3, <2>4, <2>5, <2>6, <2>7 DEF TypeOK
<1> QED
  BY <1>1, <1>2

LEMMA UserRequestType ==
  ASSUME TypeOK, NEW s \in Slots, UserRequest(s)
  PROVE  TypeOK'
<1> USE FreeIsRequest
<1>1. ASSUME NEW op \in {"bootstrap", "signup", "user"}, NEW name \in Names,
             NEW role \in UserRoles, op = "bootstrap" => role = "admin",
             Begin(s, op, name, role),
             UNCHANGED <<orgVars, user, issued, tokens>>, outdated' \in BOOLEAN
      PROVE  TypeOK'
  <2> DEFINE v == [Free EXCEPT !.op = op, !.at = "insert", !.name = name,
                               !.role = role]
  <2>1. v \in Request /\ WellFormed(v, created)
    BY <1>1 DEF Free, Request, WellFormed
  <2>2. req' = [req EXCEPT ![s] = v]
    BY <1>1 DEF Begin
  <2> HIDE DEF v
  <2> QED
    BY <1>1, <2>1, <2>2, RequestType DEF TypeOK, orgVars
<1>2. ASSUME NEW name \in Names, Bootstrap(s, name) PROVE TypeOK'
  BY <1>1, <1>2 DEF Bootstrap, userVars, TypeOK, UserRoles
<1>3. ASSUME NEW name \in Names, Signup(s, name) PROVE TypeOK'
  BY <1>1, <1>3 DEF Signup, userVars, TypeOK, UserRoles
<1>4. ASSUME NEW name \in Names, NEW t \in AdminTokens, NEW role \in UserRoles,
             CreateUser(s, t, name, role)
      PROVE  TypeOK'
  <2>1. outdated' \in BOOLEAN
    BY <1>4 DEF CreateUser, Uses, TypeOK
  <2> QED
    BY <1>1, <1>4, <2>1 DEF CreateUser
<1>5. ASSUME NEW name \in Names, FindUser(s, name) PROVE TypeOK'
  <2>1. CASE ~Taken(name)
    BY <1>5, <2>1, RequestType DEF FindUser, Finish, orgVars, userVars, TypeOK
  <2>2. CASE Taken(name)
    <3>1. PICK u \in Present :
            req' = [req EXCEPT ![s] = [req[s] EXCEPT !.at = "write", !.target = u]]
      BY <1>5, <2>2 DEF FindUser, TypeOK
    <3> DEFINE v == [req[s] EXCEPT !.at = "write", !.target = u]
    <3>2. req[s] \in Request /\ WellFormed(req[s], created)
          /\ req[s].op = "add" /\ req[s].at = "target"
      BY <1>5 DEF FindUser, At, TypeOK
    <3>3. u \in Users
      BY DEF Present
    <3>4. v \in Request /\ v.at = "write" /\ v.target = u /\ v.op = req[s].op
          /\ v.org = req[s].org /\ v.role = req[s].role
      BY <3>2, <3>3 DEF Request
    <3> HIDE DEF v
    <3>5. WellFormed(v, created)
      BY <3>2, <3>3, <3>4 DEF WellFormed
    <3>6. UNCHANGED <<orgVars, userVars>>
      BY <1>5 DEF FindUser
    <3> QED
      BY <3>1, <3>4, <3>5, <3>6, RequestType DEF v, orgVars, userVars, TypeOK
  <2> QED
    BY <2>1, <2>2
<1>6. CASE FinishCreation(s)
  <2>1. req[s] \in Request /\ WellFormed(req[s], created) /\ req[s].at = "owner"
    BY <1>6 DEF FinishCreation, AddOwner, TypeOK
  <2>2. req[s].user \in Users /\ req[s].org \in Orgs
    BY <2>1 DEF WellFormed, TypeOK
  <2>3. member' \in [Orgs -> [Users -> OrgRoles \cup {None}]]
    BY <1>6, <2>2 DEF FinishCreation, AddOwner, SetRole, TypeOK, OrgRoles
  <2>4. tokens' \subseteq Token
    BY <1>6, <2>2 DEF FinishCreation, TypeOK, Token, UserRoles
  <2> QED
    BY <1>6, <2>3, <2>4, RequestType
    DEF FinishCreation, AddOwner, Finish, TypeOK
<1> QED
  BY <1>2, <1>3, <1>4, <1>5, <1>6, InsertUserType DEF UserRequest

LEMMA TokenStepType ==
  ASSUME TypeOK,
         \/ \E u \in Users : Login(u)
         \/ \E t \in tokens : ExpireToken(t)
         \/ \E t \in AdminTokens, u \in Users :
              DeleteUser(t, u) \/ \E role \in UserRoles : UpdateUser(t, u, role)
  PROVE  TypeOK'
<1>1. ASSUME NEW u \in Users, Login(u) PROVE TypeOK'
  <2>1. user[u].role \in UserRoles
    BY <1>1 DEF Login, Present, TypeOK
  <2>2. tokens' \subseteq Token
    BY <1>1, <2>1 DEF Login, TypeOK, Token
  <2> QED
    BY <1>1, <2>2, UserType DEF Login, TypeOK, Present
<1>2. ASSUME NEW t \in tokens, ExpireToken(t) PROVE TypeOK'
  BY <1>2, UserType DEF ExpireToken, TypeOK, Present
<1>3. ASSUME NEW t \in AdminTokens, NEW u \in Users, DeleteUser(t, u)
      PROVE  TypeOK'
  <2>1. user' \in [Users -> [name : Names, role : UserRoles] \cup {NoUser}]
    BY <1>3 DEF DeleteUser, TypeOK
  <2>2. Present' \subseteq Present /\ outdated' \in BOOLEAN
    BY <1>3 DEF DeleteUser, Present, Uses, TypeOK
  <2> QED
    BY <1>3, <2>1, <2>2, UserType DEF DeleteUser, TypeOK
<1>4. ASSUME NEW t \in AdminTokens, NEW u \in Users, NEW role \in UserRoles,
             UpdateUser(t, u, role)
      PROVE  TypeOK'
  <2>1. user[u] \in [name : Names, role : UserRoles]
    BY <1>4 DEF UpdateUser, Present, TypeOK
  <2>2. [user[u] EXCEPT !.role = role] \in [name : Names, role : UserRoles]
    BY <2>1
  <2>3. user' = [user EXCEPT ![u] = [user[u] EXCEPT !.role = role]]
    BY <1>4 DEF UpdateUser, TypeOK
  <2>4. user' \in [Users -> [name : Names, role : UserRoles] \cup {NoUser}]
    BY <2>2, <2>3 DEF TypeOK
  <2>5. Present' \subseteq Present
    BY <1>4, <2>3 DEF Present, UpdateUser, TypeOK
  <2> QED
    BY <1>4, <2>4, <2>5, UserType DEF UpdateUser, TypeOK
<1> QED
  BY <1>1, <1>2, <1>3, <1>4

LEMMA TypeStep ==
  ASSUME TypeOK, [Next]_vars
  PROVE  TypeOK'
<1>1. CASE UNCHANGED vars
  BY <1>1, UserType DEF vars, userVars, TypeOK, Present
<1> QED
  BY <1>1, OrgRequestType, UserRequestType, TokenStepType DEF Next
-----------------------------------------------------------------------------
(* Owners *)

(* A step that changes no membership and lets no request through to its    *)
(* write keeps the owners, when it excuses the creation it cuts short.     *)
LEMMA QuietStep ==
  ASSUME OrgInv, UNCHANGED member, NEW s \in Slots,
         excused \subseteq excused',
         \A r \in Slots : Writing(r)' => Writing(r) /\ req'[r] = req[r],
         \A o \in created' \ created : Creating(s, o)',
         \A r \in Slots, o \in created :
           Creating(r, o) => Creating(r, o)' \/ o \in excused'
  PROVE  OrgInv'
<1>1. OwnersRemain'
  <2> SUFFICES ASSUME NEW o \in created' \ excused', Owners(o)' = {}
               PROVE  \E r \in Slots : Creating(r, o)'
    BY DEF OwnersRemain, Creating
  <2>1. CASE o \notin created
    BY <2>1
  <2>2. CASE o \in created
    <3>1. Owners(o) = {}
      BY DEF Owners
    <3>2. PICK r \in Slots : Creating(r, o)
      BY <2>2, <3>1 DEF OrgInv, OwnersRemain, Creating
    <3> QED
      BY <2>2, <3>2
  <2> QED
    BY <2>1, <2>2
<1>2. OneWrites'
  BY DEF OrgInv, OneWrites
<1>3. WriteSafe'
  BY DEF OrgInv, WriteSafe, Owners
<1> QED
  BY <1>1, <1>2, <1>3 DEF OrgInv

(* A request that passes to its write while another owner is left.         *)
LEMMA PassStep ==
  ASSUME TypeOK, OrgInv, NEW s \in Slots, ToWrite(s), req[s] # Free,
         req[s].op \in {"change", "remove"}, req[s].at \in {"target", "owners"},
         UNCHANGED <<created, member>>,
         \/ req[s].role = "owner"
         \/ req[s].org \in excused
         \/ Owners(req[s].org) \ {req[s].target} # {}
  PROVE  OrgInv'
<1> DEFINE o == req[s].org
<1>1. /\ req'[s] = [req[s] EXCEPT !.at = "write"]
      /\ \A r \in Slots \ {s} : req'[r] = req[r]
      /\ excused \subseteq excused' /\ excused' \subseteq excused \cup {o}
      /\ Overlaps(s) => o \in excused'
  BY DEF ToWrite, TypeOK
<1>2. req[s] \in Request /\ req'[s].op = req[s].op /\ req'[s].at = "write"
      /\ req'[s].org = o /\ req'[s].role = req[s].role
      /\ req'[s].target = req[s].target
  BY <1>1 DEF TypeOK, Request
<1>3. OwnersRemain'
  <2> SUFFICES ASSUME NEW x \in created \ excused', Owners(x)' = {}
               PROVE  \E r \in Slots : Creating(r, x)'
    BY DEF OwnersRemain, Creating
  <2>1. Owners(x) = {}
    BY DEF Owners
  <2>2. PICK r \in Slots : Creating(r, x)
    BY <1>1, <2>1 DEF OrgInv, OwnersRemain, Creating
  <2>3. r # s
    BY <2>2 DEF Creating
  <2> QED
    BY <1>1, <2>2, <2>3 DEF Creating
<1>4. \A r \in Slots \ {s} : Writing(r)' => Writing(r) /\ req'[r] = req[r]
  BY <1>1 DEF Writing, At
<1>5. OneWrites'
  <2> SUFFICES ASSUME NEW p \in Slots, NEW r \in Slots, p # r,
                      Writing(p)', Writing(r)', req'[p].org = req'[r].org
               PROVE  req'[p].org \in excused'
    BY DEF OneWrites
  <2>1. CASE p = s \/ r = s
    <3>1. PICK q \in Slots \ {s} : Writing(q)' /\ req'[q].org = req'[s].org
      BY <2>1
    <3>2. Writing(q) /\ req[q].org = req[s].org
      BY <1>2, <1>4, <3>1
    <3>3. Overlaps(s)
      BY <3>2 DEF Overlaps
    <3> QED
      BY <1>1, <1>2, <2>1, <3>3
  <2>2. CASE p # s /\ r # s
    <3>1. Writing(p) /\ Writing(r) /\ req[p].org = req[r].org
      BY <1>4, <2>2
    <3>2. req[p].org \in excused
      BY <3>1 DEF OrgInv, OneWrites
    <3> QED
      BY <1>1, <1>4, <2>2, <3>2
  <2> QED
    BY <2>1, <2>2
<1>6. WriteSafe'
  <2> SUFFICES ASSUME NEW r \in Slots, Writing(r)', req'[r].role # "owner",
                      req'[r].org \notin excused'
               PROVE  \E v \in Users :
                        v # req'[r].target /\ member'[req'[r].org][v] = "owner"
    BY DEF WriteSafe, Owners
  <2>1. CASE r = s
    <3>1. Owners(o) \ {req[s].target} # {}
      BY <1>1, <1>2, <2>1
    <3>2. PICK v \in Users : v # req[s].target /\ member[o][v] = "owner"
      BY <3>1 DEF Owners
    <3> QED
      BY <1>2, <2>1, <3>2
  <2>2. CASE r # s
    <3>1. Writing(r) /\ req'[r] = req[r]
      BY <1>4, <2>2
    <3>2. Owners(req[r].org) \ {req[r].target} # {}
      BY <1>1, <3>1 DEF OrgInv, WriteSafe
    <3> QED
      BY <3>1, <3>2 DEF Owners
  <2> QED
    BY <2>1, <2>2
<1> QED
  BY <1>3, <1>5, <1>6 DEF OrgInv

(* A step that finishes a request and sets one membership.  It takes an    *)
(* owner only when another is left, or excuses the organization.           *)
LEMMA MemberStep ==
  ASSUME TypeOK, OrgInv, NEW s \in Slots, NEW o \in created, NEW u \in Users,
         NEW role, SetRole(o, u, role), Finish(s), UNCHANGED created,
         excused \subseteq excused',
         Creating(s, o) => role = "owner",
         \A x \in created : Creating(s, x) => x = o,
         \/ role = "owner"
         \/ u \notin Owners(o)
         \/ o \in excused'
         \/ /\ Owners(o) \ {u} # {}
            /\ \A r \in Slots \ {s} :
                 Writing(r) /\ req[r].org = o => o \in excused'
  PROVE  OrgInv'
<1>1. /\ req'[s] = Free
      /\ \A r \in Slots \ {s} : req'[r] = req[r]
      /\ \A x \in Orgs \ {o} : member'[x] = member[x]
      /\ \A v \in Users \ {u} : member'[o][v] = member[o][v]
      /\ member'[o][u] = role
      /\ o \in Orgs
  BY DEF Finish, SetRole, TypeOK
<1>2. \A r \in Slots : Writing(r)' => r # s /\ Writing(r)
  BY <1>1 DEF Writing, At
<1>3. \A x \in Orgs \ {o} : Owners(x)' = Owners(x)
  BY <1>1 DEF Owners
<1>4. role = "owner" => Owners(o)' = Owners(o) \cup {u}
  BY <1>1 DEF Owners
<1>5. u \notin Owners(o) => Owners(o) \subseteq Owners(o)'
  BY <1>1 DEF Owners
<1>6. Owners(o) \ {u} \subseteq Owners(o)'
  BY <1>1 DEF Owners
<1>7. OwnersRemain'
  <2> SUFFICES ASSUME NEW x \in created \ excused', Owners(x)' = {}
               PROVE  \E r \in Slots : Creating(r, x)'
    BY DEF OwnersRemain, Creating
  <2>1. x \in Orgs /\ x \notin excused
    BY DEF TypeOK
  <2>2. Owners(x) = {}
    <3>1. CASE x # o
      BY <1>3, <2>1, <3>1
    <3>2. CASE x = o
      BY <1>4, <1>5, <1>6, <3>2
    <3> QED
      BY <3>1, <3>2
  <2>3. PICK r \in Slots : Creating(r, x)
    BY <2>1, <2>2 DEF OrgInv, OwnersRemain, Creating
  <2>4. CASE r = s
    <3>1. x = o /\ role = "owner"
      BY <2>3, <2>4
    <3> QED
      BY <1>4, <3>1
  <2>5. CASE r # s
    BY <1>1, <2>3, <2>5 DEF Creating
  <2> QED
    BY <2>4, <2>5
<1>8. OneWrites'
  BY <1>1, <1>2 DEF OrgInv, OneWrites
<1>9. WriteSafe'
  <2> SUFFICES ASSUME NEW r \in Slots, Writing(r)', req'[r].role # "owner",
                      req'[r].org \notin excused'
               PROVE  \E v \in Users :
                        v # req'[r].target /\ member'[req'[r].org][v] = "owner"
    BY DEF WriteSafe, Owners
  <2>1. r # s /\ Writing(r) /\ req'[r] = req[r] /\ req[r].org \notin excused
    BY <1>1, <1>2
  <2>2. PICK v \in Users : v # req[r].target /\ member[req[r].org][v] = "owner"
    BY <2>1 DEF OrgInv, WriteSafe, Owners
  <2>3. req[r].org \in Orgs
    BY <2>1 DEF TypeOK, WellFormed, Writing, At
  <2>4. CASE req[r].org # o
    BY <1>1, <2>1, <2>2, <2>3, <2>4
  <2>5. CASE req[r].org = o /\ v # u
    BY <1>1, <2>1, <2>2, <2>5
  <2>6. CASE req[r].org = o /\ v = u
    <3>1. u \in Owners(o)
      BY <2>2, <2>6 DEF Owners
    <3>2. role = "owner"
      BY <2>1, <2>6, <3>1
    <3> QED
      BY <1>1, <2>1, <2>2, <2>6, <3>2
  <2> QED
    BY <2>4, <2>5, <2>6
<1> QED
  BY <1>7, <1>8, <1>9 DEF OrgInv
(* What a step that sets one request may do to the organization it names.  *)
LEMMA NewOrgsStep ==
  ASSUME TypeOK, NewOrgs, NEW s \in Slots, NEW v \in Request,
         req' = [req EXCEPT ![s] = v],
         created \subseteq created', created' \subseteq Orgs,
         \A o \in Orgs, u \in Users :
           member'[o][u] # member[o][u] =>
             /\ o \in created /\ req[s].org = o
             /\ req[s] # Free /\ v.org = None,
         \/ v.org = None /\ created' = created
         \/ /\ v.org = req[s].org /\ created' = created
            /\ v # Free /\ v.at = "owner" => req[s] # Free /\ req[s].at = "owner"
         \/ v.org \in Orgs \ created /\ created' = created \cup {v.org}
         \/ /\ v.org \in created /\ created' = created /\ v.at # "owner"
            /\ ~Untouched(v.org)
  PROVE  NewOrgs'
<1>0. /\ req'[s] = v
      /\ \A r \in Slots \ {s} : req'[r] = req[r]
      /\ None \notin Orgs
  BY OrganizationsAssumption DEF TypeOK
<1>1. ASSUME NEW o \in Orgs \ created'
      PROVE  Untouched(o)' /\ \A r \in Slots : req'[r].org # o
  BY <1>0, <1>1 DEF NewOrgs, Untouched
<1>2. ASSUME NEW p \in Slots, NEW o \in Orgs, Creating(p, o)'
      PROVE  Untouched(o)' /\ \A r \in Slots \ {p} : req'[r].org # o
  <2>1. CASE v.org \in Orgs \ created /\ created' = created \cup {v.org}
    BY <1>0, <1>2, <2>1 DEF NewOrgs, Untouched, Creating
  <2>2. CASE ~(v.org \in Orgs \ created /\ created' = created \cup {v.org})
    <3>1. Creating(p, o)
      BY <1>0, <1>2, <2>2 DEF Creating
    <3>2. Untouched(o) /\ \A r \in Slots \ {p} : req[r].org # o
      BY <3>1 DEF NewOrgs
    <3>3. p = s => v.org # None
      BY <1>0, <1>2 DEF Creating
    <3>4. Untouched(o)'
      <4>1. p # s => req[s].org # o
        BY <3>2
      <4> QED
        BY <3>2, <3>3, <4>1 DEF Untouched
    <3> QED
      BY <1>0, <2>2, <3>2, <3>4
  <2> QED
    BY <2>1, <2>2
<1> QED
  BY <1>1, <1>2 DEF NewOrgs

LEMMA OrgRequestOwners ==
  ASSUME TypeOK, NewOrgs, OrgInv, NEW s \in Slots, OrgRequest(s)
  PROVE  OrgInv'
<1>0. req[s] \in Request /\ (req[s] # Free => WellFormed(req[s], created))
  BY DEF TypeOK
<1>1. ASSUME NEW t \in tokens, CreateOrg(s, t.user)
      PROVE  OrgInv'
  <2>1. PICK o \in Orgs \ created :
          /\ created' = created \cup {o}
          /\ req' = [req EXCEPT ![s] =
               [Free EXCEPT !.op = "create", !.user = t.user, !.org = o]]
          /\ req[s] = Free
    BY <1>1 DEF CreateOrg
  <2>2. Creating(s, o)'
    BY <2>1 DEF Creating, Free, TypeOK
  <2>3. \A r \in Slots : Writing(r)' => Writing(r) /\ req'[r] = req[r]
    BY <2>1 DEF Writing, At, Free, TypeOK
  <2>4. \A r \in Slots, x \in created : Creating(r, x) => Creating(r, x)'
    BY <2>1 DEF Creating, TypeOK
  <2> QED
    BY <1>1, <2>1, <2>2, <2>3, <2>4, QuietStep DEF CreateOrg
<1>2. CASE InsertOrganization(s)
  <2>1. PICK o \in Orgs \ created :
          /\ created' = created \cup {o}
          /\ req' = [req EXCEPT ![s] = [req[s] EXCEPT !.at = "owner", !.org = o]]
    BY <1>2, <1>0 DEF InsertOrganization, TypeOK
  <2>2. req'[s].at = "owner" /\ req'[s].org = o /\ req'[s].op = "signup"
        /\ req'[s].user \in Users
    BY <1>0, <1>2, <2>1
    DEF InsertOrganization, At, Request, TypeOK, WellFormed
  <2>3. Creating(s, o)'
    <3>1. req'[s] # Free
      BY <2>2, OrganizationsAssumption DEF Free
    <3> QED
      BY <2>2, <3>1 DEF Creating
  <2>4. \A r \in Slots : Writing(r)' => Writing(r) /\ req'[r] = req[r]
    BY <2>1, <2>2 DEF Writing, At, TypeOK
  <2>5. \A r \in Slots, x \in created : Creating(r, x) => Creating(r, x)'
    BY <1>2, <2>1 DEF Creating, TypeOK, InsertOrganization, At
  <2> QED
    BY <1>2, <2>1, <2>3, <2>4, <2>5, QuietStep DEF InsertOrganization
<1>3. ASSUME NEW v, req' = [req EXCEPT ![s] = v], v = Free \/ v.at \in {"target", "owners"},
             UNCHANGED <<created, member>>, excused \subseteq excused',
             req[s] = Free \/ req[s].at # "owner" \/ req[s].org \in excused'
      PROVE  OrgInv'
  <2>1. req'[s] = v /\ \A r \in Slots \ {s} : req'[r] = req[r]
    BY <1>3 DEF TypeOK
  <2>2. \A r \in Slots : Writing(r)' => Writing(r) /\ req'[r] = req[r]
    BY <1>3, <2>1 DEF Writing, At
  <2>3. \A r \in Slots, x \in created :
           Creating(r, x) => Creating(r, x)' \/ x \in excused'
    BY <1>3, <2>1 DEF Creating
  <2> QED
    BY <1>3, <2>2, <2>3, QuietStep
<1>4. ASSUME NEW op \in {"add", "change", "remove"}, NEW caller, NEW o \in Orgs,
             NEW u, NEW role, RequireManager(s, op, caller, o, u, role)
      PROVE  OrgInv'
  <2> DEFINE v == [Free EXCEPT !.op = op, !.at = "target", !.org = o,
                               !.target = u, !.role = role]
  <2>1. v.at = "target"
    BY DEF Free
  <2> HIDE DEF v
  <2>2. /\ req' = [req EXCEPT ![s] = v] /\ req[s] = Free
        /\ UNCHANGED <<created, member, excused>>
    BY <1>4 DEF RequireManager, v, orgVars
  <2> QED
    BY <1>3, <2>1, <2>2
<1>5. CASE AddMembership(s)
  <2> DEFINE o == req[s].org
             u == req[s].target
  <2>1. /\ req[s].at = "write" /\ o \in created /\ u \in Users
        /\ SetRole(o, u, req[s].role) /\ Finish(s)
        /\ UNCHANGED created /\ excused \subseteq excused'
        /\ u \in Owners(o) /\ req[s].role # "owner" => o \in excused'
    BY <1>0, <1>5 DEF AddMembership, At, WellFormed
  <2>2. \A x : ~Creating(s, x)
    BY <2>1 DEF Creating
  <2> QED
    BY <2>1, <2>2, MemberStep
<1>6. CASE FindTarget(s)
  <2>1. req[s] # Free /\ req[s].op \in {"change", "remove"} /\ req[s].at = "target"
        /\ UNCHANGED <<created, member>> /\ req[s].org \in created
    BY <1>0, <1>6 DEF FindTarget, WellFormed
  <2>2. CASE Finish(s) /\ UNCHANGED excused
    BY <1>3, <2>1, <2>2 DEF Finish
  <2>3. CASE req' = [req EXCEPT ![s].at = "owners"] /\ UNCHANGED excused
    <3>1. [req[s] EXCEPT !.at = "owners"].at = "owners"
      BY <1>0 DEF Request
    <3>2. req' = [req EXCEPT ![s] = [req[s] EXCEPT !.at = "owners"]]
      BY <2>3 DEF TypeOK
    <3> QED
      BY <1>3, <2>1, <2>3, <3>1, <3>2
  <2>4. CASE /\ ToWrite(s)
             /\ \/ member[req[s].org][req[s].target] # "owner"
                \/ req[s].role = "owner"
    <3> DEFINE o == req[s].org
    <3>1. \A r \in Slots : ~Creating(r, o)
      BY <2>1 DEF NewOrgs, Creating, TypeOK
    <3>2. \/ req[s].role = "owner"
          \/ o \in excused
          \/ Owners(o) # {} /\ req[s].target \notin Owners(o)
      BY <2>1, <2>4, <3>1 DEF OrgInv, OwnersRemain, Owners, Creating
    <3>3. \/ req[s].role = "owner"
          \/ o \in excused
          \/ Owners(o) \ {req[s].target} # {}
      BY <3>2
    <3> QED
      BY <2>1, <2>4, <3>3, PassStep
  <2> QED
    BY <1>6, <2>2, <2>3, <2>4 DEF FindTarget
<1>7. CASE CountOwners(s)
  <2>1. req[s] # Free /\ req[s].op \in {"change", "remove"} /\ req[s].at = "owners"
        /\ UNCHANGED <<created, member>> /\ req[s].org \in created
    BY <1>0, <1>7 DEF CountOwners, WellFormed
  <2>2. CASE LastOwner(req[s].org)
    BY <1>3, <1>7, <2>1, <2>2 DEF CountOwners, Finish
  <2>3. CASE ~LastOwner(req[s].org)
    <3> DEFINE O == Owners(req[s].org)
    <3>1. IsFiniteSet(O)
      BY OrganizationsAssumption, FS_Subset DEF Owners
    <3>3. O \ {req[s].target} # {}
      <4> SUFFICES ASSUME O \subseteq {req[s].target} PROVE FALSE
        OBVIOUS
      <4> HIDE DEF O
      <4>1. IsFiniteSet({req[s].target}) /\ Cardinality({req[s].target}) = 1
        BY FS_Singleton
      <4>2. Cardinality(O) <= Cardinality({req[s].target})
        BY <4>1, FS_Subset
      <4>3. Cardinality(O) > 1
        <5>1. Cardinality(O) \in Nat
          BY <3>1, FS_CardinalityType
        <5> QED
          BY <2>3, <5>1 DEF LastOwner, O
      <4>4. Cardinality(O) \in Nat
        BY <3>1, FS_CardinalityType
      <4> QED
        BY <4>1, <4>2, <4>3, <4>4
    <3> QED
      BY <1>7, <2>1, <2>3, <3>3, PassStep DEF CountOwners
  <2> QED
    BY <2>2, <2>3
<1>8. CASE WriteMember(s)
  <2> DEFINE o == req[s].org
             u == req[s].target
  <2>1. /\ Writing(s) /\ Finish(s) /\ UNCHANGED <<created, excused>>
        /\ o \in created /\ u \in Users /\ req[s].at = "write"
    BY <1>0, <1>8 DEF WriteMember, Writing, At, WellFormed
  <2>2. \A x : ~Creating(s, x)
    BY <2>1 DEF Creating
  <2>3. CASE UNCHANGED member
    BY <1>3, <2>1, <2>3 DEF Finish
  <2>4. CASE SetRole(o, u, req[s].role)
    <3>1. \/ req[s].role = "owner"
          \/ o \in excused'
          \/ Owners(o) \ {u} # {}
      BY <2>1 DEF OrgInv, WriteSafe
    <3>2. \A r \in Slots \ {s} : Writing(r) /\ req[r].org = o => o \in excused'
      BY <2>1 DEF OrgInv, OneWrites
    <3> QED
      BY <2>1, <2>2, <2>4, <3>1, <3>2, MemberStep
  <2> QED
    BY <1>8, <2>3, <2>4 DEF WriteMember
<1>9. CASE CutRequest(s)
  BY <1>3, <1>9 DEF CutRequest, Finish
<1> QED
  BY <1>1, <1>2, <1>4, <1>5, <1>6, <1>7, <1>8, <1>9 DEF OrgRequest
LEMMA OrgRequestNew ==
  ASSUME TypeOK, NewOrgs, NEW s \in Slots, OrgRequest(s)
  PROVE  NewOrgs'
<1> USE FreeIsRequest
<1>0. /\ req[s] \in Request /\ (req[s] # Free => WellFormed(req[s], created))
      /\ Free.org = None
  BY DEF TypeOK, Free
<1>1. ASSUME Finish(s), UNCHANGED <<created, member>>
      PROVE  NewOrgs'
  BY <1>0, <1>1, NewOrgsStep DEF Finish, TypeOK
<1>2. ASSUME NEW u, NEW role, req[s] # Free, req[s].org \in created, Finish(s),
             SetRole(req[s].org, u, role), UNCHANGED created
      PROVE  NewOrgs'
  <2>1. \A o \in Orgs, x \in Users :
          member'[o][x] # member[o][x] => o = req[s].org
    BY <1>2 DEF SetRole, TypeOK
  <2> QED
    BY <1>0, <1>2, <2>1, NewOrgsStep DEF Finish, TypeOK
<1>3. ASSUME NEW stage \in {"owners", "write"}, req[s].at \in {"target", "owners"},
             req' = [req EXCEPT ![s].at = stage], UNCHANGED <<created, member>>
      PROVE  NewOrgs'
  <2> DEFINE v == [req[s] EXCEPT !.at = stage]
  <2>1. v \in Request /\ v.org = req[s].org /\ v.at = stage
    BY <1>0 DEF Request
  <2>2. req' = [req EXCEPT ![s] = v]
    BY <1>3 DEF TypeOK
  <2> HIDE DEF v
  <2> QED
    BY <1>3, <2>1, <2>2, NewOrgsStep DEF TypeOK
<1>4. ASSUME NEW t \in tokens, CreateOrg(s, t.user)
      PROVE  NewOrgs'
  <2>1. PICK o \in Orgs \ created :
          /\ created' = created \cup {o}
          /\ req' = [req EXCEPT ![s] =
               [Free EXCEPT !.op = "create", !.user = t.user, !.org = o]]
    BY <1>4 DEF CreateOrg
  <2> DEFINE v == [Free EXCEPT !.op = "create", !.user = t.user, !.org = o]
  <2>2. v \in Request /\ v.org = o
    BY DEF Free, Request, TypeOK, Token
  <2> HIDE DEF v
  <2>3. UNCHANGED member
    BY <1>4 DEF CreateOrg
  <2> QED
    BY <2>1, <2>2, <2>3, NewOrgsStep DEF v, TypeOK
<1>5. CASE InsertOrganization(s)
  <2>1. PICK o \in Orgs \ created :
          /\ created' = created \cup {o}
          /\ req' = [req EXCEPT ![s] = [req[s] EXCEPT !.at = "owner", !.org = o]]
    BY <1>5, <1>0 DEF InsertOrganization, TypeOK
  <2> DEFINE v == [req[s] EXCEPT !.at = "owner", !.org = o]
  <2>2. v \in Request /\ v.org = o
    BY <1>0 DEF Request
  <2> HIDE DEF v
  <2>3. UNCHANGED member
    BY <1>5 DEF InsertOrganization
  <2> QED
    BY <2>1, <2>2, <2>3, NewOrgsStep DEF v, TypeOK
<1>6. ASSUME NEW t \in tokens, NEW op \in {"add", "change", "remove"},
             NEW o \in Orgs, NEW u \in Users \cup {None},
             NEW role \in GivenRoles \cup {None},
             RequireManager(s, op, t.user, o, u, role)
      PROVE  NewOrgs'
  <2> DEFINE v == [Free EXCEPT !.op = op, !.at = "target", !.org = o,
                               !.target = u, !.role = role]
  <2>1. req' = [req EXCEPT ![s] = v] /\ o \in created /\ UNCHANGED <<created, member>>
    BY <1>6 DEF RequireManager, orgVars
  <2>2. v \in Request /\ v.org = o /\ v.at = "target"
    BY <1>6, OrganizationsAssumption DEF Free, Request, OrgRoles
  <2>3. ~Untouched(o)
    BY <1>6, OrganizationsAssumption
    DEF RequireManager, Manages, Untouched, TypeOK, Token
  <2> HIDE DEF v
  <2> QED
    BY <2>1, <2>2, <2>3, NewOrgsStep DEF TypeOK
<1>7. CASE AddMembership(s)
  BY <1>0, <1>2, <1>7 DEF AddMembership, At, WellFormed
<1>8. CASE FindTarget(s)
  BY <1>1, <1>3, <1>8 DEF FindTarget, ToWrite
<1>9. CASE CountOwners(s)
  BY <1>1, <1>3, <1>9 DEF CountOwners, ToWrite
<1>10. CASE WriteMember(s)
  <2>1. req[s] # Free /\ req[s].org \in created
    BY <1>0, <1>10 DEF WriteMember, Writing, At, WellFormed
  <2> QED
    BY <1>1, <1>2, <1>10, <2>1 DEF WriteMember
<1>11. CASE CutRequest(s)
  BY <1>1, <1>11 DEF CutRequest
<1> QED
  BY <1>4, <1>5, <1>6, <1>7, <1>8, <1>9, <1>10, <1>11 DEF OrgRequest

(* The steps of the requests about users leave the organizations alone,    *)
(* but for the owner of a new one.                                         *)
LEMMA UserRequestOwners ==
  ASSUME TypeOK, NewOrgs, OrgInv, NEW s \in Slots, UserRequest(s)
  PROVE  NewOrgs' /\ OrgInv'
<1> USE FreeIsRequest
<1>0. /\ req[s] \in Request /\ (req[s] # Free => WellFormed(req[s], created))
      /\ Free.org = None
  BY DEF TypeOK, Free
<1>1. ASSUME NEW v \in Request, req' = [req EXCEPT ![s] = v], UNCHANGED orgVars,
             v # Free => v.at # "owner" /\ ~(v.at = "write" /\ v.op # "add"),
             req[s] # Free => req[s].at # "owner",
             v.org \in {None, req[s].org}
      PROVE  NewOrgs' /\ OrgInv'
  <2>1. req'[s] = v /\ \A r \in Slots \ {s} : req'[r] = req[r]
    BY <1>1 DEF TypeOK
  <2>2. NewOrgs'
    BY <1>1, NewOrgsStep DEF TypeOK, orgVars
  <2>3. \A r \in Slots : Writing(r)' => Writing(r) /\ req'[r] = req[r]
    BY <1>1, <2>1 DEF Writing, At
  <2>4. \A r \in Slots, x \in created : Creating(r, x) => Creating(r, x)'
    BY <1>1, <2>1 DEF Creating
  <2> QED
    BY <1>1, <2>2, <2>3, <2>4, QuietStep DEF orgVars
<1>2. ASSUME NEW op \in {"bootstrap", "signup", "user"}, NEW name \in Names,
             NEW role \in UserRoles, Begin(s, op, name, role), UNCHANGED orgVars
      PROVE  NewOrgs' /\ OrgInv'
  <2> DEFINE v == [Free EXCEPT !.op = op, !.at = "insert", !.name = name,
                               !.role = role]
  <2>1. v \in Request /\ v.at = "insert" /\ v.org = None
    BY DEF Free, Request
  <2>2. req' = [req EXCEPT ![s] = v] /\ req[s] = Free
    BY <1>2 DEF Begin
  <2> HIDE DEF v
  <2> QED
    BY <1>1, <1>2, <2>1, <2>2
<1>3. ASSUME NEW name \in Names,
             \/ Bootstrap(s, name) \/ Signup(s, name)
             \/ \E t \in AdminTokens, role \in UserRoles : CreateUser(s, t, name, role)
      PROVE  NewOrgs' /\ OrgInv'
  BY <1>2, <1>3 DEF Bootstrap, Signup, CreateUser, UserRoles
<1>4. ASSUME NEW name \in Names, FindUser(s, name) PROVE NewOrgs' /\ OrgInv'
  <2>0. req[s] # Free /\ req[s].at = "target" /\ req[s].op = "add" /\ UNCHANGED orgVars
    BY <1>4 DEF FindUser, At
  <2>1. CASE Finish(s)
    BY <1>0, <1>1, <2>0, <2>1 DEF Finish
  <2>2. CASE ~Finish(s)
    <3>1. PICK u \in Present :
            req' = [req EXCEPT ![s] = [req[s] EXCEPT !.at = "write", !.target = u]]
      BY <1>4, <2>2 DEF FindUser, TypeOK
    <3> DEFINE v == [req[s] EXCEPT !.at = "write", !.target = u]
    <3>2. v \in Request /\ v.at = "write" /\ v.op = "add" /\ v.org = req[s].org
      BY <1>0, <2>0 DEF Request, Present
    <3> HIDE DEF v
    <3> QED
      BY <1>1, <2>0, <3>1, <3>2 DEF v
  <2> QED
    BY <2>1, <2>2
<1>5. CASE FinishCreation(s)
  <2> DEFINE o == req[s].org
  <2>1. /\ req[s].at = "owner" /\ req[s] # Free /\ o \in created
        /\ req[s].user \in Users
        /\ SetRole(o, req[s].user, "owner") /\ Finish(s)
        /\ UNCHANGED <<created, excused>>
    BY <1>0, <1>5 DEF FinishCreation, AddOwner, WellFormed
  <2>2. \A x \in Orgs, u \in Users : member'[x][u] # member[x][u] => x = o
    BY <2>1 DEF SetRole, TypeOK
  <2>3. NewOrgs'
    BY <1>0, <2>1, <2>2, NewOrgsStep DEF Finish, TypeOK
  <2>4. \A x \in created : Creating(s, x) => x = o
    BY DEF Creating
  <2> QED
    BY <2>1, <2>3, <2>4, MemberStep
<1>6. CASE InsertUser(s)
  <2>1. CASE Taken(req[s].name)
    BY <1>0, <1>1, <1>6, <2>1 DEF InsertUser, Finish
  <2>2. CASE ~Taken(req[s].name)
    <3>1. PICK u \in Users \ issued :
            req' = [r \in Slots |->
               CASE r = s /\ req[s].op = "signup" ->
                      [Free EXCEPT !.op = "signup", !.at = "org", !.user = u]
                 [] r = s -> Free
                 [] r # s /\ At(r, "bootstrap", "insert") ->
                      [req[r] EXCEPT !.late = TRUE]
                 [] OTHER -> req[r]]
      BY <1>6, <2>2 DEF InsertUser
    <3>2. /\ req'[s] # Free => req'[s].at = "org"
          /\ req'[s].org = None
      BY <3>1 DEF Free
    <3>3. ASSUME NEW r \in Slots \ {s}
          PROVE  /\ req'[r].org = req[r].org
                 /\ \/ req'[r] = req[r]
                    \/ req[r].at = "insert" /\ req'[r].at = "insert"
      <4>1. CASE At(r, "bootstrap", "insert")
        <5>1. req'[r] = [req[r] EXCEPT !.late = TRUE] /\ req[r] \in Request
          BY <3>1, <4>1 DEF TypeOK
        <5> QED
          BY <4>1, <5>1 DEF At, Request
      <4>2. CASE ~At(r, "bootstrap", "insert")
        <5>1. req'[r] = req[r]
          BY <3>1, <4>2
        <5> QED
          BY <5>1
      <4> QED
        BY <4>1, <4>2
    <3>4. UNCHANGED <<created, member, excused>> /\ req[s].at = "insert"
      BY <1>6 DEF InsertUser, orgVars
    <3>5. \A r \in Slots : Writing(r)' => Writing(r) /\ req'[r] = req[r]
      BY <3>2, <3>3 DEF Writing, At
    <3>6. \A r \in Slots, x \in Orgs : Creating(r, x) <=> Creating(r, x)'
      BY <3>2, <3>3, <3>4 DEF Creating
    <3>7. NewOrgs'
      BY <3>2, <3>3, <3>4, <3>6, OrganizationsAssumption
      DEF NewOrgs, Untouched
    <3>8. OrgInv'
      BY <3>4, <3>5, <3>6, QuietStep DEF TypeOK
    <3> QED
      BY <3>7, <3>8
  <2> QED
    BY <2>1, <2>2
<1> QED
  BY <1>3, <1>4, <1>5, <1>6 DEF UserRequest
-----------------------------------------------------------------------------
(* Administrators *)

LEMMA AdminsStay ==
  ASSUME AdminRemains, AdminTokens' \subseteq AdminTokens,
         outdated => outdated', Admins \subseteq Admins'
  PROVE  AdminRemains'
BY DEF AdminRemains

LEMMA AdminStep ==
  ASSUME TypeOK, AdminRemains, [Next]_vars
  PROVE  AdminRemains'
<1>1. ASSUME UNCHANGED user, tokens' \subseteq tokens, outdated => outdated'
      PROVE  AdminRemains'
  BY <1>1, AdminsStay DEF AdminTokens, Admins, Present
<1>2. CASE UNCHANGED vars
  BY <1>1, <1>2 DEF vars, userVars
<1>3. ASSUME NEW s \in Slots, OrgRequest(s) PROVE AdminRemains'
  BY <1>1, <1>3 DEF OrgRequest, userVars
<1>4. ASSUME NEW s \in Slots, NEW name \in Names,
             \/ Bootstrap(s, name) \/ Signup(s, name) \/ FindUser(s, name)
             \/ \E t \in AdminTokens, role \in UserRoles : CreateUser(s, t, name, role)
      PROVE  AdminRemains'
  BY <1>1, <1>4 DEF Bootstrap, Signup, FindUser, CreateUser, Uses, userVars
<1>5. ASSUME NEW s \in Slots, FinishCreation(s) PROVE AdminRemains'
  <2>1. AdminTokens' \subseteq AdminTokens
    BY <1>5 DEF FinishCreation, AdminTokens
  <2> QED
    BY <1>5, <2>1, AdminsStay DEF FinishCreation, Admins, Present
<1>6. ASSUME NEW s \in Slots, InsertUser(s) PROVE AdminRemains'
  <2>1. CASE Taken(req[s].name)
    BY <1>1, <1>6, <2>1 DEF InsertUser
  <2>2. CASE ~Taken(req[s].name)
    <3>1. PICK u \in Users \ issued :
            /\ user' = [user EXCEPT ![u] = [name |-> req[s].name, role |-> req[s].role]]
            /\ tokens' = IF req[s].op = "bootstrap"
                         THEN tokens \cup {[user |-> u, role |-> "admin"]} ELSE tokens
      BY <1>6, <2>2 DEF InsertUser
    <3>2. UNCHANGED outdated
      BY <1>6 DEF InsertUser
    <3>3. u \notin Present
      BY DEF TypeOK
    <3>4. Admins \subseteq Admins'
      BY <3>1, <3>3 DEF Admins, Present, TypeOK
    <3>5. CASE Admins # {}
      BY <3>4, <3>5 DEF AdminRemains
    <3>6. CASE Admins = {} /\ outdated
      BY <3>2, <3>6 DEF AdminRemains
    <3>7. CASE AdminTokens = {} /\ req[s].op # "bootstrap"
      BY <3>1, <3>7 DEF AdminRemains, AdminTokens
    <3>8. CASE req[s].op = "bootstrap"
      <4>1. req[s].role = "admin"
        BY <1>6, <3>8 DEF InsertUser, TypeOK, WellFormed
      <4>2. user'[u] = [name |-> req[s].name, role |-> "admin"]
        BY <3>1, <4>1 DEF TypeOK
      <4>3. req[s].name \in Names
        BY <1>6 DEF InsertUser, TypeOK, WellFormed
      <4>4. user'[u] # NoUser
        BY <4>2, <4>3, OrganizationsAssumption DEF NoUser
      <4> QED
        BY <4>2, <4>4 DEF AdminRemains, Admins, Present
    <3> QED
      BY <3>5, <3>6, <3>7, <3>8 DEF AdminRemains
  <2> QED
    BY <2>1, <2>2
<1>7. ASSUME NEW u \in Users, Login(u) PROVE AdminRemains'
  <2>1. UNCHANGED <<user, outdated>>
    BY <1>7 DEF Login
  <2>2. CASE user[u].role = "admin"
    <3>1. u \in Admins
      BY <1>7, <2>2 DEF Login, Admins
    <3>2. u \in Admins'
      BY <2>1, <3>1 DEF Admins, Present
    <3> QED
      BY <3>2 DEF AdminRemains
  <2>3. CASE user[u].role # "admin"
    <3>1. AdminTokens' \subseteq AdminTokens
      BY <1>7, <2>3 DEF Login, AdminTokens
    <3> QED
      BY <2>1, <3>1, AdminsStay DEF Admins, Present
  <2> QED
    BY <2>2, <2>3
<1>8. ASSUME NEW t \in tokens, ExpireToken(t) PROVE AdminRemains'
  BY <1>1, <1>8 DEF ExpireToken
<1>9. ASSUME NEW t \in AdminTokens, NEW u \in Users, DeleteUser(t, u)
      PROVE  AdminRemains'
  <2>1. CASE t.user \notin Admins
    <3>1. outdated'
      BY <1>9, <2>1 DEF DeleteUser, Uses
    <3> QED
      BY <3>1 DEF AdminRemains
  <2>2. CASE t.user \in Admins
    <3>1. t.user \in Admins'
      BY <1>9, <2>2 DEF DeleteUser, Admins, Present, TypeOK
    <3> QED
      BY <3>1 DEF AdminRemains
  <2> QED
    BY <2>1, <2>2
<1>10. ASSUME NEW t \in AdminTokens, NEW u \in Users, NEW role \in UserRoles,
              UpdateUser(t, u, role)
       PROVE  AdminRemains'
  <2>1. CASE u \in Admins /\ role # "admin"
    BY <1>10, <2>1 DEF UpdateUser, AdminRemains
  <2>2. CASE u \notin Admins \/ role = "admin"
    <3>1. ASSUME NEW a \in Admins PROVE a \in Admins'
      <4>1. CASE a = u
        <5>1. user[u] \in [name : Names, role : UserRoles] /\ role = "admin"
          BY <1>10, <2>2, <4>1 DEF UpdateUser, Present, TypeOK
        <5>2. user'[u] = [user[u] EXCEPT !.role = "admin"]
          BY <1>10, <5>1 DEF UpdateUser, TypeOK
        <5>3. user'[u].role = "admin" /\ user'[u].name \in Names
          BY <5>1, <5>2
        <5>4. user'[u] # NoUser
          BY <5>3, OrganizationsAssumption DEF NoUser
        <5> QED
          BY <4>1, <5>3, <5>4 DEF Admins, Present
      <4>2. CASE a # u
        BY <1>10, <3>1, <4>2 DEF UpdateUser, Admins, Present, TypeOK
      <4> QED
        BY <4>1, <4>2
    <3> QED
      BY <1>10, <3>1, AdminsStay DEF UpdateUser, AdminTokens
  <2> QED
    BY <2>1, <2>2
<1> QED
  BY <1>2, <1>3, <1>4, <1>5, <1>6, <1>7, <1>8, <1>9, <1>10
  DEF Next, UserRequest

LEMMA CountedStays ==
  ASSUME Counted, Present' \subseteq Present,
         \A s \in Slots : At(s, "bootstrap", "insert")' =>
           At(s, "bootstrap", "insert") /\ req'[s] = req[s]
  PROVE  Counted'
BY DEF Counted

LEMMA CountedStep ==
  ASSUME TypeOK, Counted, [Next]_vars
  PROVE  Counted'
<1>1. ASSUME UNCHANGED req, Present' \subseteq Present
      PROVE  Counted'
  BY <1>1, CountedStays DEF At
<1>2. ASSUME NEW s \in Slots, NEW v, req' = [req EXCEPT ![s] = v], UNCHANGED user,
             v = Free \/ v.at # "insert"
      PROVE  Counted'
  BY <1>2, CountedStays DEF At, TypeOK, Present
<1>3. CASE UNCHANGED vars
  BY <1>1, <1>3 DEF vars, userVars, Present
<1>4. ASSUME NEW s \in Slots, OrgRequest(s) PROVE Counted'
  <2>0. UNCHANGED user /\ req[s] \in Request
    BY <1>4 DEF OrgRequest, userVars, TypeOK
  <2>1. ASSUME NEW stage \in {"owners", "write"}, req' = [req EXCEPT ![s].at = stage]
        PROVE  Counted'
    <3>1. [req[s] EXCEPT !.at = stage].at = stage
      BY <2>0 DEF Request
    <3>2. req' = [req EXCEPT ![s] = [req[s] EXCEPT !.at = stage]]
      BY <2>1 DEF TypeOK
    <3> QED
      BY <1>2, <2>0, <3>1, <3>2
  <2>2. ASSUME Finish(s) PROVE Counted'
    BY <1>2, <2>0, <2>2 DEF Finish
  <2>3. ASSUME NEW t \in tokens, CreateOrg(s, t.user) PROVE Counted'
    <3>1. PICK o : req' = [req EXCEPT ![s] =
                     [Free EXCEPT !.op = "create", !.user = t.user, !.org = o]]
      BY <2>3 DEF CreateOrg
    <3>2. [Free EXCEPT !.op = "create", !.user = t.user, !.org = o].at = "owner"
      BY DEF Free
    <3> QED
      BY <1>2, <2>0, <3>1, <3>2
  <2>4. CASE InsertOrganization(s)
    <3>1. PICK o : req' = [req EXCEPT ![s] = [req[s] EXCEPT !.at = "owner", !.org = o]]
      BY <2>4 DEF InsertOrganization, TypeOK
    <3>2. [req[s] EXCEPT !.at = "owner", !.org = o].at = "owner"
      BY <2>0 DEF Request
    <3> QED
      BY <1>2, <2>0, <3>1, <3>2
  <2>5. ASSUME NEW op, NEW caller, NEW o, NEW u, NEW role,
               RequireManager(s, op, caller, o, u, role)
        PROVE  Counted'
    <3> DEFINE v == [Free EXCEPT !.op = op, !.at = "target", !.org = o,
                                 !.target = u, !.role = role]
    <3>1. v.at = "target"
      BY DEF Free
    <3>2. req' = [req EXCEPT ![s] = v]
      BY <2>5 DEF RequireManager
    <3> HIDE DEF v
    <3> QED
      BY <1>2, <2>0, <3>1, <3>2
  <2> QED
    BY <1>4, <2>1, <2>2, <2>3, <2>4, <2>5
    DEF OrgRequest, AddMembership, FindTarget, CountOwners, ToWrite, WriteMember,
        CutRequest
<1>5. ASSUME NEW s \in Slots, NEW op, NEW name, NEW role, Begin(s, op, name, role),
             UNCHANGED user, op = "bootstrap" => Present = {}
      PROVE  Counted'
  <2> DEFINE v == [Free EXCEPT !.op = op, !.at = "insert", !.name = name,
                               !.role = role]
  <2>1. v.op = op
    BY DEF Free
  <2>2. req' = [req EXCEPT ![s] = v]
    BY <1>5 DEF Begin
  <2> HIDE DEF v
  <2> QED
    BY <1>5, <2>1, <2>2 DEF Counted, At, Present, TypeOK
<1>6. ASSUME NEW s \in Slots, NEW name \in Names,
             \/ Bootstrap(s, name) \/ Signup(s, name)
             \/ \E t \in AdminTokens, role \in UserRoles : CreateUser(s, t, name, role)
      PROVE  Counted'
  BY <1>5, <1>6 DEF Bootstrap, Signup, CreateUser, userVars
<1>7. ASSUME NEW s \in Slots, NEW name \in Names, FindUser(s, name) PROVE Counted'
  <2>1. CASE Finish(s)
    BY <1>2, <1>7, <2>1 DEF Finish, FindUser, userVars
  <2>2. CASE ~Finish(s)
    <3>1. PICK u : req' = [req EXCEPT ![s] =
                     [req[s] EXCEPT !.at = "write", !.target = u]]
      BY <1>7, <2>2 DEF FindUser, TypeOK
    <3>2. [req[s] EXCEPT !.at = "write", !.target = u].at = "write"
      BY DEF TypeOK, Request
    <3> QED
      BY <1>2, <1>7, <3>1, <3>2 DEF FindUser, userVars
  <2> QED
    BY <2>1, <2>2
<1>8. ASSUME NEW s \in Slots, FinishCreation(s) PROVE Counted'
  BY <1>2, <1>8 DEF FinishCreation, AddOwner, Finish
<1>9. ASSUME NEW s \in Slots, InsertUser(s) PROVE Counted'
  <2>1. CASE Taken(req[s].name)
    BY <1>2, <1>9, <2>1 DEF InsertUser, Finish
  <2>2. CASE ~Taken(req[s].name)
    <3>1. PICK u \in Users \ issued :
            req' = [r \in Slots |->
               CASE r = s /\ req[s].op = "signup" ->
                      [Free EXCEPT !.op = "signup", !.at = "org", !.user = u]
                 [] r = s -> Free
                 [] r # s /\ At(r, "bootstrap", "insert") ->
                      [req[r] EXCEPT !.late = TRUE]
                 [] OTHER -> req[r]]
      BY <1>9, <2>2 DEF InsertUser
    <3>2. SUFFICES ASSUME NEW r \in Slots, At(r, "bootstrap", "insert")'
                   PROVE  req'[r].late
      BY DEF Counted
    <3>3. r # s
      BY <3>1, <3>2 DEF At, Free
    <3>4. At(r, "bootstrap", "insert")
      <4>1. CASE ~At(r, "bootstrap", "insert")
        <5>1. req'[r] = req[r]
          BY <3>1, <3>3, <4>1
        <5> QED
          BY <3>2, <5>1 DEF At
      <4> QED
        BY <4>1
    <3>5. req'[r] = [req[r] EXCEPT !.late = TRUE] /\ req[r] \in Request
      BY <3>1, <3>3, <3>4 DEF TypeOK
    <3> QED
      BY <3>5 DEF Request
  <2> QED
    BY <2>1, <2>2
<1>10. ASSUME NEW u \in Users,
              \/ Login(u)
              \/ \E t \in tokens : ExpireToken(t)
              \/ \E t \in AdminTokens : DeleteUser(t, u)
       PROVE  Counted'
  BY <1>1, <1>10 DEF Login, ExpireToken, DeleteUser, Present, TypeOK
<1>11. ASSUME NEW t \in AdminTokens, NEW u \in Users, NEW role \in UserRoles,
              UpdateUser(t, u, role)
       PROVE  Counted'
  BY <1>1, <1>11 DEF UpdateUser, Present, TypeOK
<1>12. ASSUME NEW t \in tokens, ExpireToken(t) PROVE Counted'
  BY <1>1, <1>12 DEF ExpireToken, Present
<1> QED
  BY <1>3, <1>4, <1>6, <1>7, <1>8, <1>9, <1>10, <1>11, <1>12 DEF Next, UserRequest

-----------------------------------------------------------------------------
(* The inductive invariant holds of every behavior.                        *)
THEOREM AccountsInvariance == Spec => []Inv
<1>1. Init => Inv
  <2> SUFFICES ASSUME Init PROVE Inv
    OBVIOUS
  <2>1. \A s \in Slots : req[s] = Free
    BY DEF Init, OrganizationsInit
  <2>2. TypeOK
    BY <2>1, FreeIsRequest DEF Init, OrganizationsInit, TypeOK, Present
  <2>3. NewOrgs
    BY <2>1, OrganizationsAssumption
    DEF Init, OrganizationsInit, NewOrgs, Untouched, Creating, Free
  <2>4. OrgInv
    BY <2>1 DEF Init, OrganizationsInit, OrgInv, OwnersRemain, OneWrites,
                WriteSafe, Writing, At
  <2>5. AdminRemains
    BY DEF Init, AdminRemains, AdminTokens
  <2>6. Counted
    BY <2>1 DEF Counted, At
  <2> QED
    BY <2>2, <2>3, <2>4, <2>5, <2>6 DEF Inv
<1>2. Inv /\ [Next]_vars => Inv'
  <2> SUFFICES ASSUME Inv, [Next]_vars PROVE Inv'
    OBVIOUS
  <2>1. TypeOK'
    BY TypeStep DEF Inv
  <2>2. NewOrgs' /\ OrgInv'
    <3>1. CASE \E s \in Slots : OrgRequest(s)
      BY <3>1, OrgRequestNew, OrgRequestOwners DEF Inv
    <3>2. CASE \E s \in Slots : UserRequest(s)
      BY <3>2, UserRequestOwners DEF Inv
    <3>3. CASE UNCHANGED <<orgVars, req>>
      <4>1. NewOrgs'
        BY <3>3 DEF Inv, NewOrgs, Untouched, Creating, orgVars
      <4>2. OrgInv'
        BY <3>3 DEF Inv, OrgInv, OwnersRemain, OneWrites, WriteSafe, Owners,
                    Writing, At, orgVars
      <4> QED
        BY <4>1, <4>2
    <3> QED
      BY <3>1, <3>2, <3>3
      DEF Next, vars, Login, ExpireToken, DeleteUser, UpdateUser
  <2>3. AdminRemains'
    BY AdminStep DEF Inv
  <2>4. Counted'
    BY CountedStep DEF Inv
  <2> QED
    BY <2>1, <2>2, <2>3, <2>4 DEF Inv
<1> QED
  BY <1>1, <1>2, PTL DEF Spec

(* Users, tokens, organizations and requests keep their shape.             *)
THEOREM AccountsTypeCorrect == Spec => []TypeOK
BY AccountsInvariance, PTL DEF Inv

(* No sequence of role changes and removals takes the last owner of an     *)
(* organization, unless two of them overlap, add_member demotes an owner   *)
(* or the creation is cut short.                                           *)
THEOREM OwnersAreKept == Spec => []OwnersRemain
BY AccountsInvariance, PTL DEF Inv, OrgInv

(* Deletions of users, however they cross, leave an administrator while    *)
(* somebody holds a token of one.                                          *)
THEOREM AdministratorsAreKept == Spec => []AdminRemains
BY AccountsInvariance, PTL DEF Inv
(* A bootstrap makes an administrator beside other users only when they    *)
(* were inserted after it had counted none.                                *)
THEOREM BootstrapIsFirst == Spec => BootstrapComesFirst
<1>1. Inv /\ [Next]_vars =>
        [\A s \in Slots : At(s, "bootstrap", "insert") /\ issued' # issued
           /\ req'[s] = Free /\ Present # {} => req[s].late]_vars
  BY DEF Inv, Counted
<1> QED
  BY <1>1, AccountsInvariance, PTL DEF Spec, BootstrapComesFirst
=============================================================================
