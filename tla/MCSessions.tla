---------------------------- MODULE MCSessions ----------------------------
(* Sessions with one account, two session ids and two concurrent requests,  *)
(* which may be of the same kind or not.                                    *)
EXTENDS Sessions, TLC

TwoRoleSets == {{}, {"admin"}}
IdSymmetry == Permutations(Sids) \cup Permutations(Requests)
============================================================================
