----------------------------- MODULE MCLockout -----------------------------
(* Lockout on one account: two password requests, one profile request.    *)
(* Rows of different accounts never meet in a statement, so one account     *)
(* shows every interleaving.                                                *)
EXTENDS Lockout, TLC

LoginSymmetry == Permutations(Logins)
============================================================================
