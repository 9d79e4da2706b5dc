---------------------------- MODULE SessionLife ----------------------------
(* What the sessions table promises whatever ends a session: it begins once,*)
(* for an account that is there, ends once, and ends with its account.      *)
CONSTANTS Users, Sids

VARIABLES present,     \* the accounts that are there
          live,        \* the sessions of each account that can be used
          over         \* the sessions that have ended

vars == <<present, live, over>>

Init ==
    /\ present = Users
    /\ live = [u \in Users |-> {}]
    /\ over = {}

Begin(u, s) ==
    /\ u \in present
    /\ s \notin over
    /\ \A v \in Users : s \notin live[v]
    /\ live' = [live EXCEPT ![u] = @ \cup {s}]
    /\ UNCHANGED <<present, over>>

(* A sign-out, of one session or of all, an expiry, housekeeping.           *)
End(S) ==
    /\ \A s \in S : \E u \in Users : s \in live[u]
    /\ live' = [u \in Users |-> live[u] \ S]
    /\ over' = over \cup S
    /\ UNCHANGED present

(* The account goes, and its sessions with it.                              *)
Close(u) ==
    /\ present' = present \ {u}
    /\ live' = [live EXCEPT ![u] = {}]
    /\ over' = over \cup live[u]

Next ==
    \/ \E u \in Users : Close(u) \/ \E s \in Sids : Begin(u, s)
    \/ \E S \in SUBSET Sids : End(S)

Spec == Init /\ [][Next]_vars

-----------------------------------------------------------------------------
TypeOK ==
    /\ present \subseteq Users
    /\ live \in [Users -> SUBSET Sids]
    /\ over \subseteq Sids

(* A session that can be used has one account, which is there, and is not   *)
(* over.                                                                    *)
OwnedWhileLive ==
    \A u \in Users : \A s \in live[u] :
        /\ u \in present
        /\ s \notin over
        /\ \A v \in Users : s \in live[v] => u = v

LifeInv == TypeOK /\ OwnedWhileLive

(* A session stays over, and changes hands with nobody: it is its account's *)
(* until it is over. An account that is gone gets no session.               *)
OverForGood ==
    /\ over \subseteq over'
    /\ \A u \in Users : \A s \in live[u] : s \in live'[u] \/ s \in over'
    /\ \A u \in Users \ present : live'[u] = {}
=============================================================================
