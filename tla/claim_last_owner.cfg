\* The owners of an organization change one after the other: the last goes.
SPECIFICATION Spec
CONSTANTS
  Users = {u1, u2}
  Names = {n1, n2}
  Orgs = {o1}
  Slots = {s1, s2}
  GivenRoles = {"owner", "admin", "member"}
  None = None
SYMMETRY AccountSymmetry
PROPERTY LastOwnerIsKept
CHECK_DEADLOCK FALSE
