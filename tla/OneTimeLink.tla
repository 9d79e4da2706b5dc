---------------------------- MODULE OneTimeLink ----------------------------
(* What a mailed token promises, whatever it is for: a user has at most one *)
(* live token, the one created last, and a token takes effect at most once, *)
(* and only while it is live.                                               *)
EXTENDS Integers

CONSTANTS Users, Tokens

VARIABLES live,     \* the tokens of each user that may still take effect
          created,  \* tokens created so far
          effects   \* how often each token took effect

linkVars == <<live, created, effects>>

TypeOK ==
    /\ live \in [Users -> SUBSET Tokens]
    /\ created \subseteq Tokens
    /\ effects \in [Tokens -> Nat]

Init ==
    /\ live = [u \in Users |-> {}]
    /\ created = {}
    /\ effects = [t \in Tokens |-> 0]

(* A new token replaces the live one.                                       *)
Create(u, t) ==
    /\ t \notin created
    /\ created' = created \cup {t}
    /\ live' = [live EXCEPT ![u] = {t}]
    /\ UNCHANGED effects

Use(u, t) ==
    /\ t \in live[u]
    /\ live' = [live EXCEPT ![u] = {}]
    /\ effects' = [effects EXCEPT ![t] = @ + 1]
    /\ UNCHANGED created

Next == \E u \in Users, t \in Tokens : Create(u, t) \/ Use(u, t)

Spec == Init /\ [][Next]_linkVars

(* A user has at most one live token, and a token takes effect at most once *)
(* and is dead from then on.                                                *)
AtMostOnce ==
    /\ \A u \in Users : \A s, t \in live[u] : s = t
    /\ \A t \in Tokens : /\ effects[t] <= 1
                         /\ effects[t] = 1 => \A u \in Users : t \notin live[u]

(* The inductive strengthening: a live token was created, has taken no      *)
(* effect and has one owner.                                                *)
LinkInv ==
    /\ TypeOK
    /\ AtMostOnce
    /\ \A u \in Users : live[u] \subseteq created
    /\ \A t \in Tokens : effects[t] # 0 => t \in created
    /\ \A u, v \in Users : u # v => live[u] \cap live[v] = {}
    /\ \A u \in Users : \A t \in live[u] : effects[t] = 0
============================================================================
