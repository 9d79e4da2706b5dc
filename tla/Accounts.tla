----------------------------- MODULE Accounts ------------------------------
(* How accounts come to be, are reached and go: Register, the sign-in with  *)
(* Google that finds, links or creates an account, the profile update that  *)
(* moves an account to another address, and DeleteMe. Requests overlap, one *)
(* statement or committed transaction a step, over the unique indexes and   *)
(* foreign keys of the schema. Whether an address is verified is in         *)
(* EmailVerification, what sessions are good for in Sessions.               *)
EXTENDS FiniteSets

CONSTANTS Users,      \* the ids that uuid.New draws
          Emails, Subjects, Requests

VARIABLES account,    \* the row of users, with whether user_password has one
          identity,   \* user_identities: the user each subject is linked to
          sessions,   \* the users with a session that is not revoked
          drawn,      \* ids of the accounts created so far
          req,        \* the requests in flight
          had,        \* history: the addresses an account has had
          origin,     \* history: the subject an account was created for
          vouched     \* history: addresses called verified, by subject

tables == <<account, identity, sessions>>
history == <<had, origin, vouched>>
vars == <<tables, drawn, req, history>>

NoEmail == "no address"
NoUser == "no user"
NoSubject == "no subject"
ASSUME SentinelsAssumption == /\ NoEmail \notin Emails
                              /\ NoUser \notin Users
                              /\ NoSubject \notin Subjects

Idle == [pc |-> "idle"]
Row == [email : Emails, password : BOOLEAN]
NoRow == [email |-> NoEmail, password |-> FALSE]
Registration == [pc : {"emailFree", "createAccount"}, email : Emails]
GoogleSignIn == [pc : {"findIdentity", "findAddress", "createLinked"},
                 subject : Subjects, email : Emails, verified : BOOLEAN]
Linking == [pc : {"link"}, subject : Subjects, user : Users]
Issuing == [pc : {"issue"}, user : Users, subject : Subjects \cup {NoSubject}]
Update == [pc : {"checkFree", "write"}, user : Users, email : Emails]
Deletion == [pc : {"revoke", "delete"}, user : Users]
AnyRequest == Registration \cup GoogleSignIn \cup Linking \cup Issuing
              \cup Update \cup Deletion \cup {Idle}

TypeOK ==
    /\ account \in [Users -> Row \cup {NoRow}]
    /\ identity \in [Subjects -> Users \cup {NoUser}]
    /\ sessions \subseteq Users /\ drawn \subseteq Users
    /\ req \in [Requests -> AnyRequest]
    /\ had \in [Users -> SUBSET Emails]
    /\ origin \in [Users -> Subjects \cup {NoSubject}]
    /\ vouched \subseteq Subjects \X Emails

Init ==
    /\ account = [u \in Users |-> NoRow]
    /\ identity = [s \in Subjects |-> NoUser]
    /\ sessions = {} /\ drawn = {}
    /\ req = [r \in Requests |-> Idle]
    /\ had = [u \in Users |-> {}]
    /\ origin = [u \in Users |-> NoSubject]
    /\ vouched = {}

At(r, label) == req[r].pc = label
Become(r, request) == req' = [req EXCEPT ![r] = request]
Goto(r, label) == req' = [req EXCEPT ![r].pc = label]
Finish(r) == Become(r, Idle)
Issue(r, u, s) == Become(r, [pc |-> "issue", user |-> u, subject |-> s])

Exists(u) == account[u] # NoRow
HasEmail(u, e) == Exists(u) /\ account[u].email = e

(* Variant: the unique index on users(email) is not there.                  *)
EmailFreeAssumed(e) == TRUE

(* The unique index on users(email).                                        *)
EmailFree(e) == \A u \in Users : ~ HasEmail(u, e)

(* The row of a new account, on an address that is free.                    *)
CreateUser(u, e, withPassword) ==
    /\ u \notin drawn
    /\ drawn' = drawn \cup {u}
    /\ account' = [account EXCEPT ![u] =
                      [email |-> e, password |-> withPassword]]
    /\ had' = [had EXCEPT ![u] = {e}]

-----------------------------------------------------------------------------
(* Register. The username, checked and indexed as the address is, adds      *)
(* refusals and nothing else.                                               *)
BeginRegister(r, e) ==
    /\ At(r, "idle")
    /\ Become(r, [pc |-> "emailFree", email |-> e])
    /\ UNCHANGED <<tables, drawn, history>>

ExistsByEmail(r) ==
    /\ At(r, "emailFree")
    /\ IF \E u \in Users : HasEmail(u, req[r].email)
       THEN Finish(r)
       ELSE Goto(r, "createAccount")
    /\ UNCHANGED <<tables, drawn, history>>

(* The transaction: the user and the password, or neither.                  *)
CreateAccount(r, u) ==
    /\ At(r, "createAccount")
    /\ EmailFree(req[r].email)
    /\ CreateUser(u, req[r].email, TRUE)
    /\ Issue(r, u, NoSubject)
    /\ UNCHANGED <<identity, sessions, origin, vouched>>

-----------------------------------------------------------------------------
(* GoogleService.Authenticate, with the claims of an ID token.              *)
BeginGoogle(r, s, e, verified) ==
    /\ At(r, "idle")
    /\ Become(r, [pc |-> "findIdentity", subject |-> s, email |-> e,
                  verified |-> verified])
    /\ vouched' = IF verified THEN vouched \cup {<<s, e>>} ELSE vouched
    /\ UNCHANGED <<tables, drawn, had, origin>>

(* Variant: the lookup's error is not looked at.                            *)
GetByProviderSubjectUnchecked(r) ==
    /\ At(r, "findIdentity")
    /\ Issue(r, identity[req[r].subject], req[r].subject)
    /\ UNCHANGED <<tables, drawn, history>>

GetByProviderSubject(r) ==
    LET s == req[r].subject IN
    /\ At(r, "findIdentity")
    /\ IF identity[s] # NoUser
       THEN Issue(r, identity[s], s)
       ELSE Goto(r, "findAddress")
    /\ UNCHANGED <<tables, drawn, history>>

(* The account found is going to be linked.                                 *)
LinkTo(r, found) ==
    \E u \in found :
        Become(r, [pc |-> "link", subject |-> req[r].subject, user |-> u])

(* Variant: any address that matches is linked.                             *)
GetByEmailTrusting(r) ==
    LET found == {u \in Users : HasEmail(u, req[r].email)} IN
    /\ At(r, "findAddress")
    /\ IF found # {} THEN LinkTo(r, found) ELSE Goto(r, "createLinked")
    /\ UNCHANGED <<tables, drawn, history>>

(* An account with the address is linked when the claim calls it verified;  *)
(* when it does not, creating another is tried, and the index refuses it.   *)
GetByEmail(r) ==
    LET found == {u \in Users : HasEmail(u, req[r].email)} IN
    /\ At(r, "findAddress")
    /\ IF found # {} /\ req[r].verified
       THEN LinkTo(r, found)
       ELSE Goto(r, "createLinked")
    /\ UNCHANGED <<tables, drawn, history>>

(* Variant: a link that is already there is left and counts as success.     *)
LinkIfAbsent(r) ==
    LET s == req[r].subject
        u == req[r].user
    IN
    /\ At(r, "link")
    /\ Exists(u)
    /\ identity' = [identity EXCEPT ![s] = IF @ = NoUser THEN u ELSE @]
    /\ Issue(r, u, s)
    /\ UNCHANGED <<account, sessions, drawn, history>>

(* identities.Create: the user it found must still be there (foreign key)   *)
(* and the subject must still be unlinked (unique index).                   *)
Link(r) ==
    LET s == req[r].subject
        u == req[r].user
    IN
    /\ At(r, "link")
    /\ Exists(u)
    /\ identity[s] = NoUser
    /\ identity' = [identity EXCEPT ![s] = u]
    /\ Issue(r, u, s)
    /\ UNCHANGED <<account, sessions, drawn, history>>

(* Variant: the user is inserted before the transaction.                    *)
CreateLinkedApart(r, u) ==
    LET s == req[r].subject IN
    /\ At(r, "createLinked")
    /\ EmailFree(req[r].email)
    /\ CreateUser(u, req[r].email, FALSE)
    /\ IF identity[s] = NoUser
       THEN identity' = [identity EXCEPT ![s] = u] /\ Issue(r, u, s)
       ELSE UNCHANGED identity /\ Finish(r)
    /\ origin' = [origin EXCEPT ![u] = s]
    /\ UNCHANGED <<sessions, vouched>>

(* The transaction: the user and the link, or neither.                      *)
CreateLinked(r, u) ==
    LET s == req[r].subject IN
    /\ At(r, "createLinked")
    /\ EmailFree(req[r].email)
    /\ identity[s] = NoUser
    /\ CreateUser(u, req[r].email, FALSE)
    /\ identity' = [identity EXCEPT ![s] = u]
    /\ origin' = [origin EXCEPT ![u] = s]
    /\ Issue(r, u, s)
    /\ UNCHANGED <<sessions, vouched>>

(* IssueSession reads the user and inserts the session.                     *)
IssueSession(r) ==
    LET u == req[r].user IN
    /\ At(r, "issue")
    /\ sessions' = IF Exists(u) THEN sessions \cup {u} ELSE sessions
    /\ Finish(r)
    /\ UNCHANGED <<account, identity, drawn, history>>

-----------------------------------------------------------------------------
(* UpdateMe: the row is read, and the whole of it written later, with the   *)
(* address that was asked for or, when only the name was, the one read.     *)
BeginUpdate(r, u, e) ==
    /\ At(r, "idle")
    /\ Exists(u)
    /\ Become(r, [pc |-> IF e = account[u].email THEN "write" ELSE "checkFree",
                  user |-> u, email |-> e])
    /\ UNCHANGED <<tables, drawn, history>>

(* A lookup that fails lets the update go on as one that finds nobody does. *)
CheckFree(r) ==
    /\ At(r, "checkFree")
    /\ \/ /\ \E v \in Users \ {req[r].user} : HasEmail(v, req[r].email)
          /\ Finish(r)
       \/ Goto(r, "write")
    /\ UNCHANGED <<tables, drawn, history>>

UpdateUser(r) ==
    LET u == req[r].user
        e == req[r].email
    IN
    /\ At(r, "write")
    /\ Exists(u)
    /\ EmailFree(e) \/ HasEmail(u, e)
    /\ account' = [account EXCEPT ![u].email = e]
    /\ had' = [had EXCEPT ![u] = @ \cup {e}]
    /\ Finish(r)
    /\ UNCHANGED <<identity, sessions, drawn, origin, vouched>>

-----------------------------------------------------------------------------
(* DeleteMe, once the password has been confirmed. It is that of the account*)
(* found by the address, as AccountNames has it, which may be another one.  *)
BeginDelete(r, u) ==
    /\ At(r, "idle")
    /\ Exists(u)
    /\ Become(r, [pc |-> "revoke", user |-> u])
    /\ UNCHANGED <<tables, drawn, history>>

(* RevokeAllSessions; when it fails the deletion goes on.                   *)
RevokeSessions(r) ==
    /\ At(r, "revoke")
    /\ sessions' \in {sessions, sessions \ {req[r].user}}
    /\ Goto(r, "delete")
    /\ UNCHANGED <<account, identity, drawn, history>>

(* Variant: SoftDelete, which cascades to nothing.                          *)
DeleteSoftly(r) ==
    /\ At(r, "delete")
    /\ account' = [account EXCEPT ![req[r].user] = NoRow]
    /\ Finish(r)
    /\ UNCHANGED <<identity, sessions, drawn, history>>

(* users.Delete, with what the foreign keys cascade to. The history of an   *)
(* account ends with it.                                                    *)
Delete(r) ==
    LET u == req[r].user IN
    /\ At(r, "delete")
    /\ account' = [account EXCEPT ![u] = NoRow]
    /\ identity' = [s \in Subjects |->
                       IF identity[s] = u THEN NoUser ELSE identity[s]]
    /\ sessions' = sessions \ {u}
    /\ had' = [had EXCEPT ![u] = {}]
    /\ origin' = [origin EXCEPT ![u] = NoSubject]
    /\ Finish(r)
    /\ UNCHANGED <<drawn, vouched>>

(* A statement fails, a constraint refuses one, or the server stops: the    *)
(* request ends with what it has committed.                                 *)
Fail(r) ==
    /\ ~ At(r, "idle")
    /\ Finish(r)
    /\ UNCHANGED <<tables, drawn, history>>

Register(r) ==
    \/ \E e \in Emails : BeginRegister(r, e)
    \/ ExistsByEmail(r)
    \/ \E u \in Users : CreateAccount(r, u)

Authenticate(r) ==
    \/ \E s \in Subjects, e \in Emails, verified \in BOOLEAN :
           BeginGoogle(r, s, e, verified)
    \/ GetByProviderSubject(r) \/ GetByEmail(r) \/ Link(r)
    \/ \E u \in Users : CreateLinked(r, u)

UpdateMe(r) ==
    \/ \E u \in Users, e \in Emails : BeginUpdate(r, u, e)
    \/ CheckFree(r) \/ UpdateUser(r)

DeleteMe(r) ==
    \/ \E u \in Users : BeginDelete(r, u)
    \/ RevokeSessions(r) \/ Delete(r)

Next == \E r \in Requests :
            Register(r) \/ Authenticate(r) \/ IssueSession(r) \/ UpdateMe(r)
            \/ DeleteMe(r) \/ Fail(r)

Spec == Init /\ [][Next]_vars

-----------------------------------------------------------------------------
(* Register, the Google sign-in, the update and the deletion, which look    *)
(* before they write and overlap, amount to single steps of a directory in  *)
(* which an address and a subject lead to at most one account.              *)
D == INSTANCE Directory WITH
        address <- [u \in Users |-> account[u].email],
        link <- identity, used <- drawn
ImplementsDirectory == D!Spec

(* An account can always be signed in to, with a password or through        *)
(* Google: two sign-ins of one subject that race to create an account with  *)
(* different addresses leave none that neither of them reaches.             *)
AWayIn ==
    \A u \in Users :
        Exists(u) => account[u].password \/ \E s \in Subjects : identity[s] = u

(* A session that is about to be issued for a subject goes to the account   *)
(* the subject is linked to, whichever of its sign-ins made the link,       *)
(* unless that account has been deleted since.                              *)
SignsInWhereLinked ==
    \A r \in Requests :
        At(r, "issue") /\ req[r].subject # NoSubject /\ Exists(req[r].user)
        => identity[req[r].subject] = req[r].user

(* A subject is linked to the account that was created for it, or to one    *)
(* that has had an address which an ID token called verified for that       *)
(* subject (DESIGN.md:156). The account may have moved to another address   *)
(* before the link was made.                                                *)
LinkedByVerifiedAddress ==
    \A s \in Subjects :
        LET u == identity[s] IN
        u # NoUser => origin[u] = s \/ \E e \in had[u] : <<s, e>> \in vouched

(* A deletion leaves nothing behind (me/delete.go:63), not even what a      *)
(* request that was already under way adds: no link strands its subject on  *)
(* an account that is gone, and no session survives it.                     *)
DeletionIsComplete ==
    /\ \A s \in Subjects : identity[s] # NoUser => Exists(identity[s])
    /\ \A u \in sessions : Exists(u)

(* The inductive strengthening. Accounts that were created stay drawn, and  *)
(* so do those that a request found and is about to link or sign in to: an  *)
(* account that has gone does not come back under them. A claim that is     *)
(* called verified was noted when it came in, and the account it found has  *)
(* had its address.                                                         *)
TablesInv ==
    /\ \A u \in Users : Exists(u) => u \in drawn /\ account[u].email \in had[u]
    /\ AWayIn /\ LinkedByVerifiedAddress /\ DeletionIsComplete
Vetted(r) ==
    /\ req[r].pc \in {"link", "issue"} => req[r].user \in drawn
    /\ req[r].pc \in {"findIdentity", "findAddress", "createLinked"}
       /\ req[r].verified => <<req[r].subject, req[r].email>> \in vouched
    /\ At(r, "link") /\ Exists(req[r].user) =>
          \E e \in had[req[r].user] : <<req[r].subject, e>> \in vouched
    /\ At(r, "issue") /\ req[r].subject # NoSubject /\ Exists(req[r].user) =>
          identity[req[r].subject] = req[r].user
AccountsInv == TypeOK /\ TablesInv /\ \A r \in Requests : Vetted(r)
============================================================================
