--------------------------- MODULE MCAccountNames ---------------------------
(* An address, the same with space around it, another address; accounts and  *)
(* requests are interchangeable.                                            *)
EXTENDS AccountNames, TLC

CONSTANTS Address, Spaced, Other

AllNames == {Address, Spaced, Other}
TwoAddresses == {Address, Other}
TrimmedName == [n \in AllNames |-> IF n = Spaced THEN Address ELSE n]

Symm == Permutations(Users) \cup Permutations(Requests)
=============================================================================
