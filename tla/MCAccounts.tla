----------------------------- MODULE MCAccounts -----------------------------
(* Accounts for TLC: users, names, organizations and requests differ in    *)
(* nothing but their names.                                                *)
EXTENDS Accounts, TLC

AccountSymmetry ==
  Permutations(Users) \cup Permutations(Names) \cup Permutations(Orgs)
    \cup Permutations(Slots)
=============================================================================
