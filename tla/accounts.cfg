\* Two user ids, two names, an organization and two requests that overlap.
SPECIFICATION Spec
CONSTANTS
  Users = {u1, u2}
  Names = {n1, n2}
  Orgs = {o1}
  Slots = {s1, s2}
  GivenRoles = {"owner", "admin", "member"}
  None = None
SYMMETRY AccountSymmetry
INVARIANTS
  TypeOK
  OwnersRemain
  AdminRemains
PROPERTY BootstrapComesFirst
CHECK_DEADLOCK FALSE
