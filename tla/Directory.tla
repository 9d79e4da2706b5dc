----------------------------- MODULE Directory ------------------------------
(* What Accounts promises, as if each sign-up, link, change of address and  *)
(* deletion were one step: an address and a subject of Google each lead to  *)
(* at most one account, and an account that is gone leaves nothing behind   *)
(* and does not come back.                                                  *)
CONSTANTS Users, Emails, Subjects, NoEmail, NoUser

VARIABLES address,     \* the address of each account
          link,        \* the account of each subject
          used         \* the accounts there have been

vars == <<address, link, used>>

Init ==
    /\ address = [u \in Users |-> NoEmail]
    /\ link = [s \in Subjects |-> NoUser]
    /\ used = {}

Free(e) == \A u \in Users : address[u] # e

Create(u, e) ==
    /\ u \notin used
    /\ Free(e)
    /\ address' = [address EXCEPT ![u] = e]
    /\ used' = used \cup {u}

SignUp(u, e) == Create(u, e) /\ UNCHANGED link

SignUpLinked(u, e, s) ==
    /\ link[s] = NoUser
    /\ Create(u, e)
    /\ link' = [link EXCEPT ![s] = u]

Link(s, u) ==
    /\ address[u] # NoEmail
    /\ link[s] = NoUser
    /\ link' = [link EXCEPT ![s] = u]
    /\ UNCHANGED <<address, used>>

Move(u, e) ==
    /\ address[u] # NoEmail
    /\ Free(e)
    /\ address' = [address EXCEPT ![u] = e]
    /\ UNCHANGED <<link, used>>

Remove(u) ==
    /\ address' = [address EXCEPT ![u] = NoEmail]
    /\ link' = [s \in Subjects |-> IF link[s] = u THEN NoUser ELSE link[s]]
    /\ UNCHANGED used

Next ==
    \/ \E u \in Users, e \in Emails :
          \/ SignUp(u, e) \/ Move(u, e)
          \/ \E s \in Subjects : SignUpLinked(u, e, s)
    \/ \E u \in Users : Remove(u) \/ \E s \in Subjects : Link(s, u)

Spec == Init /\ [][Next]_vars

-----------------------------------------------------------------------------
TypeOK ==
    /\ address \in [Users -> Emails \cup {NoEmail}]
    /\ link \in [Subjects -> Users \cup {NoUser}]
    /\ used \subseteq Users

(* An address leads to at most one account.                                 *)
OneAccountPerAddress ==
    \A u, v \in Users : address[u] = address[v] /\ address[u] # NoEmail => u = v

(* A subject leads nowhere or to an account that is there.                  *)
LinksLeadToAccounts ==
    \A s \in Subjects : link[s] # NoUser => address[link[s]] # NoEmail

UsedBefore == \A u \in Users : address[u] # NoEmail => u \in used

DirectoryInv ==
    TypeOK /\ OneAccountPerAddress /\ LinksLeadToAccounts /\ UsedBefore

(* An account that has gone does not come back, and a subject moves to      *)
(* another account only after the one it led to has gone.                   *)
GoneForGood ==
    \A u \in Users : u \in used /\ address[u] = NoEmail => address'[u] = NoEmail
LinkStays ==
    \A s \in Subjects : link[s] # NoUser /\ link'[s] # link[s] =>
        link'[s] = NoUser /\ address'[link[s]] = NoEmail
=============================================================================
