-------------------------- MODULE MCPasswordReset --------------------------
(* Password reset for one account: logins, requests for a link and uses of  *)
(* a link, three requests at a time.                                        *)
EXTENDS PasswordReset, TLC

IdSymmetry == Permutations(Tokens) \cup Permutations(Requests)
              \cup Permutations(Sids)
============================================================================
