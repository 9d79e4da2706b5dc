------------------------------ MODULE MCRoles ------------------------------
(* One user whose roles two concurrent calls change.                        *)
EXTENDS Roles, TLC

Symm == Permutations(RoleIds) \cup Permutations(Names)
            \cup Permutations(Requests)
=============================================================================
