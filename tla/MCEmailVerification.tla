------------------------ MODULE MCEmailVerification -----------------------
(* Email verification of one account with concurrent requests of every      *)
(* kind; another account holds one of the addresses.                        *)
EXTENDS EmailVerification, TLC

IdSymmetry == Permutations(Tokens) \cup Permutations(Requests)
              \cup Permutations(Emails \ Taken)
============================================================================
