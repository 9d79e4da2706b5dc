---------------------------- MODULE OneTimeGrant ----------------------------
(* What a challenge promises, whatever it is for: it is made for one        *)
(* account, which has no other open one; one of those who bring it back gets*)
(* to claim it; and what it then gives, it gives once, and to that account. *)
CONSTANTS Users, Grants, Uses

VARIABLES madeFor,     \* the grants made for each account
          open,        \* those that can still be claimed
          claimed,     \* those that somebody has claimed and not used yet
          given        \* what each grant gave, and to whom

vars == <<madeFor, open, claimed, given>>

Init ==
    /\ madeFor = [u \in Users |-> {}]
    /\ open = {}
    /\ claimed = {}
    /\ given = [g \in Grants |-> {}]

Make(u, g) ==
    /\ \A v \in Users : g \notin madeFor[v]
    /\ madeFor[u] \cap open = {}
    /\ madeFor' = [madeFor EXCEPT ![u] = @ \cup {g}]
    /\ open' = open \cup {g}
    /\ UNCHANGED <<claimed, given>>

Claim(g) ==
    /\ g \in open
    /\ open' = open \ {g}
    /\ claimed' = claimed \cup {g}
    /\ UNCHANGED <<madeFor, given>>

Use(u, g, x) ==
    /\ g \in claimed \cap madeFor[u]
    /\ \A v \in Users, h \in Grants : <<v, x>> \notin given[h]
    /\ claimed' = claimed \ {g}
    /\ given' = [given EXCEPT ![g] = @ \cup {<<u, x>>}]
    /\ UNCHANGED <<madeFor, open>>

(* Who claimed it fails before using it.                                    *)
Waste(g) ==
    /\ g \in claimed
    /\ claimed' = claimed \ {g}
    /\ UNCHANGED <<madeFor, open, given>>

Next ==
    \E g \in Grants :
        \/ Claim(g) \/ Waste(g)
        \/ \E u \in Users : Make(u, g) \/ \E x \in Uses : Use(u, g, x)

Spec == Init /\ [][Next]_vars

-----------------------------------------------------------------------------
TypeOK ==
    /\ madeFor \in [Users -> SUBSET Grants]
    /\ open \subseteq Grants
    /\ claimed \subseteq Grants
    /\ given \in [Grants -> SUBSET (Users \X Uses)]

(* A grant gives one thing at most, to the account it was made for, and can *)
(* then neither be claimed nor used again.                                  *)
GivenOnce ==
    \A g \in Grants :
        /\ \A p, q \in given[g] : p = q
        /\ \A u \in Users, x \in Uses : <<u, x>> \in given[g] => g \in madeFor[u]
        /\ given[g] # {} => g \notin open \cup claimed

OneOpenEach == \A u \in Users : \A g, h \in madeFor[u] \cap open : g = h

(* The inductive strengthening: a grant has one account, and an open one    *)
(* was not claimed.                                                         *)
GrantInv ==
    /\ TypeOK /\ GivenOnce /\ OneOpenEach
    /\ open \cap claimed = {}
    /\ \A g \in open \cup claimed : \E u \in Users : g \in madeFor[u]
    /\ \A u, v \in Users : u # v => madeFor[u] \cap madeFor[v] = {}

(* A grant that was claimed is never open again, and stays its account's.   *)
NeverReopened ==
    \A u \in Users : \A g \in madeFor[u] :
        /\ g \in madeFor'[u]
        /\ g \notin open => g \notin open'
=============================================================================
