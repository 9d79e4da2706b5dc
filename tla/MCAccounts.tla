---------------------------- MODULE MCAccounts -----------------------------
(* Ids, addresses and requests are interchangeable, and so are subjects.    *)
EXTENDS Accounts, TLC

Symmetry == Permutations(Users) \cup Permutations(Emails)
            \cup Permutations(Subjects) \cup Permutations(Requests)
============================================================================
