-------------------------------- MODULE MCMfa -------------------------------
(* Two-factor login for one account.                                        *)
EXTENDS Mfa, TLC

IdSymmetry == Permutations(Tokens) \cup Permutations(Requests)
              \cup Permutations(Sids) \cup Permutations(Setups)
============================================================================
