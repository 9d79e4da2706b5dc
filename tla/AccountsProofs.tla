--------------------------- MODULE AccountsProofs ---------------------------
(* Accounts for any number of ids, addresses, subjects and requests: the    *)
(* inductive invariant and the refinement of Directory. Then the names that *)
(* accounts are found by.                                                   *)
EXTENDS Accounts, TLAPS

(* Which kind of request a request is follows from where it stands.         *)
LEMMA RequestKinds ==
    ASSUME TypeOK, NEW r \in Requests
    PROVE  /\ req[r] \in AnyRequest
           /\ req[r].pc \in {"emailFree", "createAccount"} => req[r] \in Registration
           /\ req[r].pc \in {"findIdentity", "findAddress", "createLinked"} =>
                 req[r] \in GoogleSignIn
           /\ At(r, "link") => req[r] \in Linking
           /\ At(r, "issue") => req[r] \in Issuing
           /\ req[r].pc \in {"checkFree", "write"} => req[r] \in Update
           /\ req[r].pc \in {"revoke", "delete"} => req[r] \in Deletion
  BY DEF TypeOK, AnyRequest, Registration, GoogleSignIn, Linking, Issuing,
         Update, Deletion, Idle, At

LEMMA InitInv == Init => AccountsInv
  <1> SUFFICES ASSUME Init PROVE AccountsInv
    OBVIOUS
  <1>1. TypeOK
    BY DEF Init, TypeOK, AnyRequest
  <1>2. TablesInv
    BY DEF Init, TablesInv, Exists, AWayIn, LinkedByVerifiedAddress,
           DeletionIsComplete
  <1>3. ASSUME NEW r \in Requests PROVE Vetted(r)
    BY <1>3 DEF Init, Vetted, At, Idle
  <1> QED
    BY <1>1, <1>2, <1>3 DEF AccountsInv

-----------------------------------------------------------------------------
(* A request that stays as it is stays vetted while the tables do.          *)
LEMMA OthersVetted ==
    ASSUME NEW r, Vetted(r), req'[r] = req[r],
           UNCHANGED <<account, identity, drawn, had>>, vouched \subseteq vouched'
    PROVE  Vetted(r)'
  BY DEF Vetted, Exists, At

(* Steps that replace a request and leave accounts and links alone.         *)
LEMMA QuietStep ==
    ASSUME AccountsInv, NEW r \in Requests, NEW request \in AnyRequest,
           Become(r, request), UNCHANGED <<account, identity, drawn, had, origin>>,
           sessions' \subseteq Users, \A u \in sessions' : Exists(u),
           vouched \subseteq vouched', vouched' \subseteq Subjects \X Emails,
           Vetted(r)'
    PROVE  AccountsInv'
  <1>1. TypeOK'
    BY DEF AccountsInv, TypeOK, Become
  <1>2. TablesInv'
    BY DEF AccountsInv, TablesInv, Exists, AWayIn, LinkedByVerifiedAddress,
           DeletionIsComplete
  <1>3. ASSUME NEW q \in Requests, q # r PROVE Vetted(q)'
    <2>1. req'[q] = req[q]
      BY <1>3 DEF AccountsInv, TypeOK, Become
    <2> QED
      BY <2>1, OthersVetted DEF AccountsInv
  <1> QED
    BY <1>1, <1>2, <1>3 DEF AccountsInv

(* Most of them change the request alone.                                   *)
LEMMA RequestStep ==
    ASSUME AccountsInv, NEW r \in Requests, NEW request \in AnyRequest,
           Become(r, request), UNCHANGED <<tables, drawn, history>>, Vetted(r)'
    PROVE  AccountsInv'
  <1>1. sessions' \subseteq Users /\ \A u \in sessions' : Exists(u)
    BY DEF AccountsInv, TypeOK, TablesInv, DeletionIsComplete, tables
  <1>2. vouched \subseteq vouched' /\ vouched' \subseteq Subjects \X Emails
    BY DEF AccountsInv, TypeOK, history
  <1> QED
    BY <1>1, <1>2, QuietStep DEF tables, history

(* A request that ends has nothing left to be vetted for.                   *)
LEMMA FinishVetted ==
    ASSUME AccountsInv, NEW r \in Requests, Finish(r)
    PROVE  Vetted(r)' /\ Idle \in AnyRequest
  BY DEF AccountsInv, TypeOK, Finish, Become, Vetted, At, Idle, AnyRequest

LEMMA FinishStep ==
    ASSUME AccountsInv, NEW r \in Requests, Finish(r),
           UNCHANGED <<tables, drawn, history>>
    PROVE  AccountsInv'
  BY FinishVetted, RequestStep DEF Finish

-----------------------------------------------------------------------------
LEMMA RegisterStep ==
    ASSUME AccountsInv, NEW r \in Requests,
           (\E e \in Emails : BeginRegister(r, e)) \/ ExistsByEmail(r)
    PROVE  AccountsInv'
  <1> TypeOK
    BY DEF AccountsInv
  <1>1. ASSUME NEW e \in Emails, BeginRegister(r, e) PROVE AccountsInv'
    <2> DEFINE new == [pc |-> "emailFree", email |-> e]
    <2>1. new \in AnyRequest
      BY DEF AnyRequest, Registration
    <2>2. Vetted(r)'
      BY <1>1 DEF BeginRegister, Become, TypeOK, Vetted, At
    <2> QED
      BY <1>1, <2>1, <2>2, RequestStep DEF BeginRegister
  <1>2. CASE ExistsByEmail(r)
    <2>1. CASE Finish(r)
      BY <1>2, <2>1, FinishStep DEF ExistsByEmail
    <2>2. CASE Goto(r, "createAccount")
      <3> DEFINE new == [req[r] EXCEPT !.pc = "createAccount"]
      <3>1. req[r] \in Registration
        BY <1>2, RequestKinds DEF ExistsByEmail, At
      <3>2. new \in AnyRequest /\ new.pc = "createAccount"
        BY <3>1 DEF AnyRequest, Registration
      <3>3. Become(r, new)
        BY <2>2 DEF Goto, Become
      <3>4. Vetted(r)'
        BY <3>2, <3>3 DEF Become, TypeOK, Vetted, At
      <3> QED
        BY <1>2, <3>2, <3>3, <3>4, RequestStep DEF ExistsByEmail
    <2> QED
      BY <1>2, <2>1, <2>2 DEF ExistsByEmail
  <1> QED
    BY <1>1, <1>2

LEMMA BeginGoogleStep ==
    ASSUME AccountsInv, NEW r \in Requests, NEW s \in Subjects, NEW e \in Emails,
           NEW verified \in BOOLEAN, BeginGoogle(r, s, e, verified)
    PROVE  AccountsInv'
  <1> DEFINE new == [pc |-> "findIdentity", subject |-> s, email |-> e,
                     verified |-> verified]
  <1> TypeOK
    BY DEF AccountsInv
  <1>1. new \in AnyRequest
    BY DEF AnyRequest, GoogleSignIn
  <1>2. vouched \subseteq vouched' /\ vouched' \subseteq Subjects \X Emails
    BY DEF BeginGoogle, TypeOK
  <1>3. Vetted(r)'
    BY DEF BeginGoogle, Become, TypeOK, Vetted, At
  <1>4. sessions' \subseteq Users /\ \A u \in sessions' : Exists(u)
    BY DEF AccountsInv, TypeOK, TablesInv, DeletionIsComplete, BeginGoogle, tables
  <1> QED
    BY <1>1, <1>2, <1>3, <1>4, QuietStep DEF BeginGoogle, tables

(* The account a subject is linked to is there, and was drawn.              *)
LEMMA FindIdentityStep ==
    ASSUME AccountsInv, NEW r \in Requests, GetByProviderSubject(r)
    PROVE  AccountsInv'
  <1> DEFINE s == req[r].subject
  <1> TypeOK
    BY DEF AccountsInv
  <1>1. req[r] \in GoogleSignIn /\ s \in Subjects
    BY RequestKinds DEF GetByProviderSubject, At, GoogleSignIn
  <1>2. CASE identity[s] # NoUser
    <2> DEFINE new == [pc |-> "issue", user |-> identity[s], subject |-> s]
    <2>1. identity[s] \in Users /\ identity[s] \in drawn
      BY <1>1, <1>2 DEF TypeOK, AccountsInv, TablesInv, DeletionIsComplete
    <2>2. new \in AnyRequest
      BY <1>1, <2>1 DEF AnyRequest, Issuing
    <2>3. Become(r, new) /\ UNCHANGED <<tables, drawn, history>>
      BY <1>2 DEF GetByProviderSubject, Issue
    <2>4. Vetted(r)'
      BY <2>1, <2>3 DEF Become, TypeOK, Vetted, At, tables
    <2> QED
      BY <2>2, <2>3, <2>4, RequestStep
  <1>3. CASE identity[s] = NoUser
    <2> DEFINE new == [req[r] EXCEPT !.pc = "findAddress"]
    <2>1. /\ new \in AnyRequest /\ new.pc = "findAddress"
          /\ new.subject = s /\ new.email = req[r].email
          /\ new.verified = req[r].verified
      BY <1>1 DEF AnyRequest, GoogleSignIn
    <2>2. Become(r, new) /\ UNCHANGED <<tables, drawn, history>>
      BY <1>3 DEF GetByProviderSubject, Goto, Become
    <2>3. Vetted(r) /\ req[r].pc = "findIdentity"
      BY DEF AccountsInv, GetByProviderSubject, At
    <2>4. Vetted(r)'
      BY <2>1, <2>2, <2>3 DEF Become, TypeOK, Vetted, At, history
    <2> QED
      BY <2>1, <2>2, <2>4, RequestStep
  <1> QED
    BY <1>2, <1>3

(* The account that is found has the address, which the claim vouches for.  *)
LEMMA FindAddressStep ==
    ASSUME AccountsInv, NEW r \in Requests, GetByEmail(r)
    PROVE  AccountsInv'
  <1> TypeOK
    BY DEF AccountsInv
  <1>1. req[r] \in GoogleSignIn /\ Vetted(r) /\ req[r].pc = "findAddress"
    BY RequestKinds DEF AccountsInv, GetByEmail, At
  <1>2. ASSUME NEW u \in Users, HasEmail(u, req[r].email), req[r].verified,
               Become(r, [pc |-> "link", subject |-> req[r].subject, user |-> u]),
               UNCHANGED <<tables, drawn, history>>
        PROVE  AccountsInv'
    <2> DEFINE new == [pc |-> "link", subject |-> req[r].subject, user |-> u]
    <2>1. new \in AnyRequest
      BY <1>1 DEF AnyRequest, Linking, GoogleSignIn
    <2>2. u \in drawn /\ req[r].email \in had[u]
      BY <1>2 DEF HasEmail, AccountsInv, TablesInv
    <2>3. <<req[r].subject, req[r].email>> \in vouched
      BY <1>1, <1>2 DEF Vetted
    <2>4. Vetted(r)'
      BY <1>2, <2>2, <2>3 DEF Become, TypeOK, Vetted, At, history
    <2> QED
      BY <1>2, <2>1, <2>4, RequestStep
  <1>3. CASE Goto(r, "createLinked") /\ UNCHANGED <<tables, drawn, history>>
    <2> DEFINE new == [req[r] EXCEPT !.pc = "createLinked"]
    <2>1. /\ new \in AnyRequest /\ new.pc = "createLinked"
          /\ new.subject = req[r].subject /\ new.email = req[r].email
          /\ new.verified = req[r].verified
      BY <1>1 DEF AnyRequest, GoogleSignIn
    <2>2. Become(r, new)
      BY <1>3 DEF Goto, Become
    <2>3. Vetted(r)'
      BY <1>1, <1>3, <2>1, <2>2 DEF Become, TypeOK, Vetted, At, history
    <2> QED
      BY <1>3, <2>1, <2>2, <2>3, RequestStep
  <1> QED
    BY <1>2, <1>3 DEF GetByEmail, LinkTo

LEMMA BeginUpdateStep ==
    ASSUME AccountsInv, NEW r \in Requests,
           \/ \E u \in Users, e \in Emails : BeginUpdate(r, u, e)
           \/ CheckFree(r)
    PROVE  AccountsInv'
  <1> TypeOK
    BY DEF AccountsInv
  <1>1. ASSUME NEW u \in Users, NEW e \in Emails, BeginUpdate(r, u, e)
        PROVE  AccountsInv'
    <2> DEFINE label == IF e = account[u].email THEN "write" ELSE "checkFree"
               new == [pc |-> label, user |-> u, email |-> e]
    <2>1. new \in AnyRequest
      BY DEF AnyRequest, Update
    <2>2. Vetted(r)'
      BY <1>1 DEF BeginUpdate, Become, TypeOK, Vetted, At
    <2> QED
      BY <1>1, <2>1, <2>2, RequestStep DEF BeginUpdate
  <1>2. CASE CheckFree(r)
    <2>1. CASE Finish(r)
      BY <1>2, <2>1, FinishStep DEF CheckFree
    <2>2. CASE Goto(r, "write")
      <3> DEFINE new == [req[r] EXCEPT !.pc = "write"]
      <3>1. req[r] \in Update
        BY <1>2, RequestKinds DEF CheckFree, At
      <3>2. new \in AnyRequest /\ new.pc = "write"
        BY <3>1 DEF AnyRequest, Update
      <3>3. Become(r, new)
        BY <2>2 DEF Goto, Become
      <3>4. Vetted(r)'
        BY <3>2, <3>3 DEF Become, TypeOK, Vetted, At
      <3> QED
        BY <1>2, <3>2, <3>3, <3>4, RequestStep DEF CheckFree
    <2> QED
      BY <1>2, <2>1, <2>2 DEF CheckFree
  <1> QED
    BY <1>1, <1>2

LEMMA BeginDeleteStep ==
    ASSUME AccountsInv, NEW r \in Requests,
           (\E u \in Users : BeginDelete(r, u)) \/ RevokeSessions(r)
    PROVE  AccountsInv'
  <1> TypeOK
    BY DEF AccountsInv
  <1>1. ASSUME NEW u \in Users, BeginDelete(r, u) PROVE AccountsInv'
    <2> DEFINE new == [pc |-> "revoke", user |-> u]
    <2>1. new \in AnyRequest
      BY DEF AnyRequest, Deletion
    <2>2. Vetted(r)'
      BY <1>1 DEF BeginDelete, Become, TypeOK, Vetted, At
    <2> QED
      BY <1>1, <2>1, <2>2, RequestStep DEF BeginDelete
  <1>2. CASE RevokeSessions(r)
    <2> DEFINE new == [req[r] EXCEPT !.pc = "delete"]
    <2>1. req[r] \in Deletion
      BY <1>2, RequestKinds DEF RevokeSessions, At
    <2>2. new \in AnyRequest /\ new.pc = "delete"
      BY <2>1 DEF AnyRequest, Deletion
    <2>3. Become(r, new)
      BY <1>2 DEF RevokeSessions, Goto, Become
    <2>4. Vetted(r)'
      BY <2>2, <2>3 DEF Become, TypeOK, Vetted, At
    <2>5. sessions' \subseteq Users /\ \A u \in sessions' : Exists(u)
      BY <1>2 DEF RevokeSessions, AccountsInv, TypeOK, TablesInv,
                  DeletionIsComplete
    <2>6. vouched \subseteq vouched' /\ vouched' \subseteq Subjects \X Emails
      BY <1>2 DEF RevokeSessions, TypeOK, history
    <2> QED
      BY <1>2, <2>2, <2>3, <2>4, <2>5, <2>6, QuietStep
      DEF RevokeSessions, history
  <1> QED
    BY <1>1, <1>2

LEMMA IssueStep ==
    ASSUME AccountsInv, NEW r \in Requests, IssueSession(r)
    PROVE  AccountsInv'
  <1> TypeOK
    BY DEF AccountsInv
  <1>1. req[r].user \in Users
    BY RequestKinds DEF IssueSession, Issuing
  <1>2. sessions' \subseteq Users /\ \A u \in sessions' : Exists(u)
    BY <1>1 DEF IssueSession, AccountsInv, TypeOK, TablesInv, DeletionIsComplete
  <1>3. vouched \subseteq vouched' /\ vouched' \subseteq Subjects \X Emails
    BY DEF IssueSession, TypeOK, history
  <1> QED
    BY <1>2, <1>3, FinishVetted, QuietStep DEF IssueSession, Finish, history

-----------------------------------------------------------------------------
(* A new account: it was not drawn before, so nothing in flight knows it.   *)
LEMMA CreateVetted ==
    ASSUME AccountsInv, NEW u \in Users, NEW e \in Emails, NEW withPassword,
           CreateUser(u, e, withPassword), vouched' = vouched,
           NEW q \in Requests, req'[q] = req[q],
           \/ identity' = identity
           \/ \E s \in Subjects : identity[s] = NoUser
                                  /\ identity' = [identity EXCEPT ![s] = u]
    PROVE  Vetted(q)'
  <1> TypeOK /\ Vetted(q)
    BY DEF AccountsInv
  <1>1. drawn \subseteq drawn' /\ u \notin drawn
    BY DEF CreateUser
  <1>2. \A v \in Users \ {u} : account'[v] = account[v] /\ had'[v] = had[v]
    BY DEF CreateUser, TypeOK
  <1>3. req[q].pc \in {"link", "issue"} => req[q].user \in Users \ {u}
    BY <1>1 DEF Vetted, TypeOK
  <1>4. (req[q].pc \in {"link", "issue"} => req[q].user \in drawn)'
    BY <1>1 DEF Vetted
  <1>5. (At(q, "link") /\ Exists(req[q].user) =>
            \E f \in had[req[q].user] : <<req[q].subject, f>> \in vouched)'
    BY <1>2, <1>3 DEF Vetted, At, Exists
  <1>6. (At(q, "issue") /\ req[q].subject # NoSubject /\ Exists(req[q].user) =>
            identity[req[q].subject] = req[q].user)'
    <2> SUFFICES ASSUME req[q].pc = "issue", req[q].subject # NoSubject,
                        Exists(req[q].user)'
                 PROVE  identity'[req[q].subject] = req[q].user
      BY DEF At
    <2>1. Exists(req[q].user)
      BY <1>2, <1>3 DEF Exists
    <2>2. req[q].subject \in Subjects /\ req[q].user \in Users
      BY RequestKinds DEF At, Issuing
    <2>3. identity[req[q].subject] = req[q].user
      BY <2>1 DEF Vetted, At
    <2> QED
      BY <2>2, <2>3, SentinelsAssumption DEF TypeOK
  <1> QED
    BY <1>4, <1>5, <1>6 DEF Vetted

LEMMA CreateAccountStep ==
    ASSUME AccountsInv, NEW r \in Requests, NEW u \in Users, CreateAccount(r, u)
    PROVE  AccountsInv'
  <1> DEFINE e == req[r].email
             new == [pc |-> "issue", user |-> u, subject |-> NoSubject]
  <1> TypeOK
    BY DEF AccountsInv
  <1>1. e \in Emails
    BY RequestKinds DEF CreateAccount, At, Registration
  <1>2. CreateUser(u, e, TRUE) /\ Become(r, new)
        /\ UNCHANGED <<identity, sessions, origin, vouched>>
    BY DEF CreateAccount, Issue
  <1>3. account' = [account EXCEPT ![u] = [email |-> e, password |-> TRUE]]
        /\ had' = [had EXCEPT ![u] = {e}] /\ drawn' = drawn \cup {u}
        /\ u \notin drawn
    BY <1>2 DEF CreateUser
  <1>4. TypeOK'
    <2>1. new \in AnyRequest
      BY DEF AnyRequest, Issuing
    <2>2. [email |-> e, password |-> TRUE] \in Row
      BY <1>1 DEF Row
    <2> QED
      BY <1>1, <1>2, <1>3, <2>1, <2>2 DEF TypeOK, Become
  <1>5. TablesInv'
    <2> USE DEF AccountsInv, TablesInv, TypeOK
    <2>1. /\ [email |-> e, password |-> TRUE] # NoRow
          /\ ~ Exists(u)
      BY <1>1, <1>3, SentinelsAssumption DEF NoRow
    <2>2. (\A v \in Users : Exists(v) => v \in drawn /\ account[v].email \in had[v])'
      BY <1>3 DEF Exists
    <2>3. AWayIn'
      BY <1>2, <1>3 DEF AWayIn, Exists
    <2>4. DeletionIsComplete'
      BY <1>2, <1>3, <2>1 DEF DeletionIsComplete, Exists
    <2>5. LinkedByVerifiedAddress'
      BY <1>2, <1>3, <2>1 DEF LinkedByVerifiedAddress, DeletionIsComplete
    <2> QED
      BY <2>2, <2>3, <2>4, <2>5
  <1>6. ASSUME NEW q \in Requests PROVE Vetted(q)'
    <2>1. CASE q = r
      BY <1>2, <1>3, <2>1 DEF Become, TypeOK, Vetted, At
    <2>2. CASE q # r
      <3>1. req'[q] = req[q]
        BY <1>2, <2>2 DEF Become, TypeOK
      <3> QED
        BY <1>1, <1>2, <3>1, CreateVetted
    <2> QED
      BY <2>1, <2>2
  <1> QED
    BY <1>4, <1>5, <1>6 DEF AccountsInv

LEMMA CreateLinkedStep ==
    ASSUME AccountsInv, NEW r \in Requests, NEW u \in Users, CreateLinked(r, u)
    PROVE  AccountsInv'
  <1> DEFINE s == req[r].subject
             e == req[r].email
             new == [pc |-> "issue", user |-> u, subject |-> s]
  <1> TypeOK
    BY DEF AccountsInv
  <1>1. e \in Emails /\ s \in Subjects
    BY RequestKinds DEF CreateLinked, At, GoogleSignIn
  <1>2. /\ CreateUser(u, e, FALSE) /\ Become(r, new)
        /\ identity[s] = NoUser /\ identity' = [identity EXCEPT ![s] = u]
        /\ origin' = [origin EXCEPT ![u] = s]
        /\ UNCHANGED <<sessions, vouched>>
    BY DEF CreateLinked, Issue
  <1>3. account' = [account EXCEPT ![u] = [email |-> e, password |-> FALSE]]
        /\ had' = [had EXCEPT ![u] = {e}] /\ drawn' = drawn \cup {u}
        /\ u \notin drawn
    BY <1>2 DEF CreateUser
  <1>4. TypeOK'
    <2>1. new \in AnyRequest
      BY <1>1 DEF AnyRequest, Issuing
    <2>2. [email |-> e, password |-> FALSE] \in Row
      BY <1>1 DEF Row
    <2> QED
      BY <1>1, <1>2, <1>3, <2>1, <2>2 DEF TypeOK, Become
  <1>5. TablesInv'
    <2> USE DEF AccountsInv, TablesInv, TypeOK
    <2>1. /\ [email |-> e, password |-> FALSE] # NoRow
          /\ ~ Exists(u)
      BY <1>1, <1>3, SentinelsAssumption DEF NoRow
    <2>2. (\A v \in Users : Exists(v) => v \in drawn /\ account[v].email \in had[v])'
      BY <1>3 DEF Exists
    <2>3. AWayIn'
      <3> SUFFICES ASSUME NEW v \in Users, Exists(v)'
                   PROVE  account'[v].password
                          \/ \E t \in Subjects : identity'[t] = v
        BY DEF AWayIn
      <3>1. CASE v = u
        BY <1>1, <1>2, <3>1
      <3>2. CASE v # u
        <4>1. Exists(v) /\ account'[v] = account[v]
          BY <1>3, <3>2 DEF Exists
        <4>2. \A t \in Subjects : identity[t] = v => identity'[t] = v
          BY <1>2, SentinelsAssumption
        <4> QED
          BY <4>1, <4>2 DEF AWayIn
      <3> QED
        BY <3>1, <3>2
    <2>4. DeletionIsComplete'
      BY <1>1, <1>2, <1>3, <2>1 DEF DeletionIsComplete, Exists
    <2>5. LinkedByVerifiedAddress'
      BY <1>1, <1>2, <1>3, <2>1 DEF LinkedByVerifiedAddress, DeletionIsComplete
    <2> QED
      BY <2>2, <2>3, <2>4, <2>5
  <1>6. ASSUME NEW q \in Requests PROVE Vetted(q)'
    <2>1. CASE q = r
      BY <1>1, <1>2, <1>3, <2>1 DEF Become, TypeOK, Vetted, At
    <2>2. CASE q # r
      <3>1. req'[q] = req[q]
        BY <1>2, <2>2 DEF Become, TypeOK
      <3> QED
        BY <1>1, <1>2, <3>1, CreateVetted
    <2> QED
      BY <2>1, <2>2
  <1> QED
    BY <1>4, <1>5, <1>6 DEF AccountsInv

(* The account is there and an address of its own vouches for the link;     *)
(* a request about to sign the subject in elsewhere cannot be, for the      *)
(* subject was linked nowhere.                                              *)
LEMMA LinkStep ==
    ASSUME AccountsInv, NEW r \in Requests, Link(r)
    PROVE  AccountsInv'
  <1> DEFINE s == req[r].subject
             u == req[r].user
             new == [pc |-> "issue", user |-> u, subject |-> s]
  <1> TypeOK
    BY DEF AccountsInv
  <1>1. s \in Subjects /\ u \in Users /\ Vetted(r) /\ req[r].pc = "link"
    BY RequestKinds DEF AccountsInv, Link, At, Linking
  <1>2. /\ Exists(u) /\ identity[s] = NoUser /\ Become(r, new)
        /\ identity' = [identity EXCEPT ![s] = u]
        /\ UNCHANGED <<account, sessions, drawn, had, origin, vouched>>
    BY DEF Link, Issue, history
  <1>3. TypeOK'
    <2>1. new \in AnyRequest
      BY <1>1 DEF AnyRequest, Issuing
    <2> QED
      BY <1>1, <1>2, <2>1 DEF TypeOK, Become
  <1>4. TablesInv'
    <2>1. (\A v \in Users : Exists(v) => v \in drawn /\ account[v].email \in had[v])'
      BY <1>2 DEF AccountsInv, TablesInv, Exists
    <2>2. \A t \in Subjects, v \in Users : identity[t] = v => identity'[t] = v
      BY <1>2, SentinelsAssumption DEF TypeOK
    <2>3. AWayIn'
      BY <1>2, <2>2 DEF AccountsInv, TablesInv, AWayIn, Exists
    <2>4. DeletionIsComplete'
      BY <1>1, <1>2 DEF AccountsInv, TablesInv, DeletionIsComplete, Exists, TypeOK
    <2>5. \E e \in had[u] : <<s, e>> \in vouched
      BY <1>1, <1>2 DEF Vetted, At
    <2>6. LinkedByVerifiedAddress'
      BY <1>1, <1>2, <2>5
      DEF AccountsInv, TablesInv, LinkedByVerifiedAddress, TypeOK
    <2> QED
      BY <2>1, <2>3, <2>4, <2>6 DEF TablesInv
  <1>5. ASSUME NEW q \in Requests PROVE Vetted(q)'
    <2>1. CASE q = r
      BY <1>1, <1>2, <2>1 DEF Become, TypeOK, Vetted, At
    <2>2. CASE q # r
      <3>1. req'[q] = req[q] /\ Vetted(q)
        BY <1>2, <2>2 DEF Become, TypeOK, AccountsInv
      <3>2. At(q, "issue") => req[q] \in Issuing
        BY RequestKinds
      <3>3. At(q, "issue") /\ req[q].subject # NoSubject /\ Exists(req[q].user) =>
                identity'[req[q].subject] = req[q].user
        <4> SUFFICES ASSUME At(q, "issue"), req[q].subject # NoSubject,
                            Exists(req[q].user)
                     PROVE  identity'[req[q].subject] = req[q].user
          OBVIOUS
        <4>1. identity[req[q].subject] = req[q].user
          BY <3>1 DEF Vetted
        <4>2. req[q].subject \in Subjects /\ req[q].user \in Users
          BY <3>2 DEF Issuing
        <4> QED
          BY <1>2, <4>1, <4>2, SentinelsAssumption DEF TypeOK
      <3> QED
        BY <1>2, <3>1, <3>3 DEF Vetted, At, Exists
    <2> QED
      BY <2>1, <2>2
  <1> QED
    BY <1>3, <1>4, <1>5 DEF AccountsInv

LEMMA UpdateStep ==
    ASSUME AccountsInv, NEW r \in Requests, UpdateUser(r)
    PROVE  AccountsInv'
  <1> DEFINE u == req[r].user
             e == req[r].email
  <1> TypeOK
    BY DEF AccountsInv
  <1>1. u \in Users /\ e \in Emails
    BY RequestKinds DEF UpdateUser, At, Update
  <1>2. /\ Exists(u) /\ Become(r, Idle)
        /\ account' = [account EXCEPT ![u] = [account[u] EXCEPT !.email = e]]
        /\ had' = [had EXCEPT ![u] = had[u] \cup {e}]
        /\ UNCHANGED <<identity, sessions, drawn, origin, vouched>>
    BY DEF UpdateUser, Finish
  <1>3. account[u] \in Row
    BY <1>1, <1>2 DEF Exists, TypeOK
  <1>4. /\ account'[u] \in Row /\ account'[u].email = e
        /\ account'[u].password = account[u].password
    BY <1>1, <1>2, <1>3 DEF Row, TypeOK
  <1>5. \A v \in Users \ {u} : account'[v] = account[v]
    BY <1>2 DEF TypeOK
  <1>6. \A v \in Users : Exists(v)' <=> Exists(v)
    BY <1>1, <1>2, <1>4, <1>5, SentinelsAssumption DEF Exists, Row, NoRow
  <1>7. \A v \in Users : had[v] \subseteq had'[v]
    BY <1>2 DEF TypeOK
  <1>8. TypeOK'
    BY <1>1, <1>2, <1>4, <1>5 DEF TypeOK, Become, AnyRequest
  <1>9. TablesInv'
    <2> USE DEF AccountsInv, TablesInv
    <2>1. (\A v \in Users : Exists(v) => v \in drawn /\ account[v].email \in had[v])'
      BY <1>1, <1>2, <1>4, <1>5, <1>6, <1>7 DEF TypeOK
    <2>2. AWayIn'
      BY <1>2, <1>4, <1>5, <1>6 DEF AWayIn
    <2>3. DeletionIsComplete'
      BY <1>2, <1>6 DEF DeletionIsComplete, TypeOK
    <2>4. LinkedByVerifiedAddress'
      BY <1>2, <1>7 DEF LinkedByVerifiedAddress, TypeOK
    <2> QED
      BY <2>1, <2>2, <2>3, <2>4
  <1>10. ASSUME NEW q \in Requests PROVE Vetted(q)'
    <2>1. CASE q = r
      BY <2>1, FinishVetted DEF UpdateUser
    <2>2. CASE q # r
      <3>1. req'[q] = req[q] /\ Vetted(q)
        BY <1>2, <2>2 DEF Become, TypeOK, AccountsInv
      <3>2. req[q].pc \in {"link", "issue"} => req[q].user \in Users
        BY <3>1 DEF Vetted, TypeOK
      <3> QED
        BY <1>2, <1>6, <1>7, <3>1, <3>2 DEF Vetted, At
    <2> QED
      BY <2>1, <2>2
  <1> QED
    BY <1>8, <1>9, <1>10 DEF AccountsInv

(* The account goes with everything that refers to it.                      *)
LEMMA DeleteStep ==
    ASSUME AccountsInv, NEW r \in Requests, Delete(r)
    PROVE  AccountsInv'
  <1> DEFINE u == req[r].user
  <1> TypeOK
    BY DEF AccountsInv
  <1>1. u \in Users
    BY RequestKinds DEF Delete, At, Deletion
  <1>2. /\ Become(r, Idle) /\ account' = [account EXCEPT ![u] = NoRow]
        /\ identity' = [s \in Subjects |->
                           IF identity[s] = u THEN NoUser ELSE identity[s]]
        /\ sessions' = sessions \ {u}
        /\ had' = [had EXCEPT ![u] = {}]
        /\ origin' = [origin EXCEPT ![u] = NoSubject]
        /\ UNCHANGED <<drawn, vouched>>
    BY DEF Delete, Finish
  <1>3. account'[u] = NoRow /\ \A v \in Users \ {u} :
            /\ account'[v] = account[v] /\ had'[v] = had[v]
            /\ origin'[v] = origin[v]
            /\ Exists(v)' <=> Exists(v)
    BY <1>1, <1>2 DEF TypeOK, Exists
  <1>4. TypeOK'
    BY <1>1, <1>2 DEF TypeOK, Become, AnyRequest
  <1>5. \A s \in Subjects : /\ identity'[s] # NoUser =>
                                  identity'[s] = identity[s] /\ identity[s] # u
                            /\ identity[s] # u => identity'[s] = identity[s]
    BY <1>2
  <1>6. TablesInv'
    <2> USE DEF AccountsInv, TablesInv
    <2>1. (\A v \in Users : Exists(v) => v \in drawn /\ account[v].email \in had[v])'
      BY <1>2, <1>3 DEF Exists
    <2>2. AWayIn'
      BY <1>3, <1>5 DEF AWayIn, Exists
    <2>3. DeletionIsComplete'
      BY <1>2, <1>3, <1>5 DEF DeletionIsComplete, TypeOK
    <2>4. LinkedByVerifiedAddress'
      BY <1>2, <1>5 DEF LinkedByVerifiedAddress, TypeOK
    <2> QED
      BY <2>1, <2>2, <2>3, <2>4
  <1>7. ASSUME NEW q \in Requests PROVE Vetted(q)'
    <2>1. CASE q = r
      BY <2>1, FinishVetted DEF Delete
    <2>2. CASE q # r
      <3>1. req'[q] = req[q] /\ Vetted(q)
        BY <1>2, <2>2 DEF Become, TypeOK, AccountsInv
      <3>2. req[q].pc \in {"link", "issue"} => req[q].user \in Users
        BY <3>1 DEF Vetted, TypeOK
      <3>3. At(q, "issue") => req[q] \in Issuing
        BY RequestKinds
      <3> QED
        BY <1>2, <1>3, <1>5, <3>1, <3>2, <3>3 DEF Vetted, At, Issuing, Exists
    <2> QED
      BY <2>1, <2>2
  <1> QED
    BY <1>4, <1>6, <1>7 DEF AccountsInv

LEMMA FailStep ==
    ASSUME AccountsInv, NEW r \in Requests, Fail(r)
    PROVE  AccountsInv'
  BY FinishStep DEF Fail

LEMMA Step == ASSUME AccountsInv, [Next]_vars PROVE AccountsInv'
  <1>1. ASSUME NEW r \in Requests, Register(r) PROVE AccountsInv'
    BY <1>1, RegisterStep, CreateAccountStep DEF Register
  <1>2. ASSUME NEW r \in Requests, Authenticate(r) PROVE AccountsInv'
    BY <1>2, BeginGoogleStep, FindIdentityStep, FindAddressStep, LinkStep,
       CreateLinkedStep
    DEF Authenticate
  <1>3. ASSUME NEW r \in Requests, UpdateMe(r) PROVE AccountsInv'
    BY <1>3, BeginUpdateStep, UpdateStep DEF UpdateMe
  <1>4. ASSUME NEW r \in Requests, DeleteMe(r) PROVE AccountsInv'
    BY <1>4, BeginDeleteStep, DeleteStep DEF DeleteMe
  <1>5. CASE UNCHANGED vars
    <2>1. TypeOK' /\ TablesInv'
      BY <1>5 DEF AccountsInv, vars, tables, history, TypeOK, TablesInv, Exists,
                  AWayIn, LinkedByVerifiedAddress, DeletionIsComplete
    <2>2. ASSUME NEW r \in Requests PROVE Vetted(r)'
      BY <1>5, OthersVetted DEF AccountsInv, vars, tables, history
    <2> QED
      BY <2>1, <2>2 DEF AccountsInv
  <1> QED
    BY <1>1, <1>2, <1>3, <1>4, <1>5, IssueStep, FailStep DEF Next

(* The inductive invariant of the component holds in every reachable state. *)
THEOREM InvariantHolds == Spec => []AccountsInv
  <1>1. AccountsInv /\ [Next]_vars => AccountsInv'
    BY Step
  <1> QED
    BY <1>1, InitInv, PTL DEF Spec

(* Accounts, links, requests and history keep their shape.                  *)
THEOREM TypeCorrect == Spec => []TypeOK
  <1>1. AccountsInv => TypeOK
    BY DEF AccountsInv
  <1> QED
    BY <1>1, InvariantHolds, PTL

(* Register and the transaction of Authenticate leave no account that       *)
(* neither a password nor a subject opens, whatever runs against them.      *)
THEOREM AWayInHolds == Spec => []AWayIn
  <1>1. AccountsInv => AWayIn
    BY DEF AccountsInv, TablesInv
  <1> QED
    BY <1>1, InvariantHolds, PTL

(* Authenticate hands the session to the account its subject is linked to.  *)
THEOREM SignsInWhereLinkedHolds == Spec => []SignsInWhereLinked
  <1>1. AccountsInv => SignsInWhereLinked
    BY DEF AccountsInv, Vetted, SignsInWhereLinked
  <1> QED
    BY <1>1, InvariantHolds, PTL

(* Authenticate links a subject to an account made for it or to one that    *)
(* has had an address verified for it.                                      *)
THEOREM LinkedByVerifiedAddressHolds == Spec => []LinkedByVerifiedAddress
  <1>1. AccountsInv => LinkedByVerifiedAddress
    BY DEF AccountsInv, TablesInv
  <1> QED
    BY <1>1, InvariantHolds, PTL

(* DeleteMe leaves nothing, and no request under way puts it back.          *)
THEOREM DeletionIsCompleteHolds == Spec => []DeletionIsComplete
  <1>1. AccountsInv => DeletionIsComplete
    BY DEF AccountsInv, TablesInv
  <1> QED
    BY <1>1, InvariantHolds, PTL

-----------------------------------------------------------------------------
LEMMA RefinementInit == Init => D!Init
  BY DEF Init, D!Init, NoRow

(* The address of an account is its own, and of none when there is no row.  *)
LEMMA Addresses ==
    ASSUME TypeOK, NEW u \in Users
    PROVE  /\ Exists(u) <=> account[u].email # NoEmail
           /\ \A e \in Emails : HasEmail(u, e) <=> account[u].email = e
  BY SentinelsAssumption DEF TypeOK, Exists, HasEmail, Row, NoRow

LEMMA EmailFreeMeansFree ==
    ASSUME TypeOK, NEW e \in Emails, EmailFree(e)
    PROVE  D!Free(e)
  BY Addresses DEF EmailFree, D!Free

LEMMA CreateRefines ==
    ASSUME TypeOK, NEW u \in Users, NEW e \in Emails, NEW withPassword \in BOOLEAN,
           EmailFree(e), CreateUser(u, e, withPassword)
    PROVE  D!Create(u, e)
  BY EmailFreeMeansFree DEF CreateUser, D!Create, TypeOK

LEMMA RefinementStep ==
    ASSUME TypeOK, [Next]_vars
    PROVE  [D!Next]_(D!vars)
  <1>1. ASSUME NEW r \in Requests, NEW u \in Users, CreateAccount(r, u)
        PROVE  D!Next
    <2>1. req[r].email \in Emails
      BY <1>1, RequestKinds DEF CreateAccount, At, Registration
    <2>2. D!SignUp(u, req[r].email)
      BY <1>1, <2>1, CreateRefines DEF CreateAccount, D!SignUp, D!Create
    <2> QED
      BY <2>1, <2>2 DEF D!Next, D!SignUp, D!Create
  <1>2. ASSUME NEW r \in Requests, NEW u \in Users, CreateLinked(r, u)
        PROVE  D!Next
    <2>1. req[r].email \in Emails /\ req[r].subject \in Subjects
      BY <1>2, RequestKinds DEF CreateLinked, At, GoogleSignIn
    <2>2. D!SignUpLinked(u, req[r].email, req[r].subject)
      BY <1>2, <2>1, CreateRefines
      DEF CreateLinked, D!SignUpLinked, D!Create
    <2> QED
      BY <2>1, <2>2 DEF D!Next
  <1>3. ASSUME NEW r \in Requests, Link(r)
        PROVE  D!Next
    <2>1. req[r].subject \in Subjects /\ req[r].user \in Users
      BY <1>3, RequestKinds DEF Link, Linking
    <2>2. D!Link(req[r].subject, req[r].user)
      BY <1>3, <2>1, Addresses DEF Link, D!Link, history
    <2> QED
      BY <2>1, <2>2 DEF D!Next
  <1>4. ASSUME NEW r \in Requests, UpdateUser(r)
        PROVE  D!Next \/ UNCHANGED D!vars
    <2> DEFINE u == req[r].user
               e == req[r].email
    <2>1. u \in Users /\ e \in Emails
      BY <1>4, RequestKinds DEF UpdateUser, At, Update
    <2>2. Exists(u) /\ account[u] \in Row
      BY <1>4, <2>1 DEF UpdateUser, Exists, TypeOK
    <2>3. account' = [account EXCEPT ![u] = [account[u] EXCEPT !.email = e]]
          /\ UNCHANGED <<identity, drawn>>
      BY <1>4 DEF UpdateUser
    <2>4. [v \in Users |-> account[v].email]'
              = [[v \in Users |-> account[v].email] EXCEPT ![u] = e]
      BY <2>1, <2>2, <2>3 DEF TypeOK, Row
    <2>5. CASE EmailFree(e)
      <3>1. D!Move(u, e)
        BY <2>1, <2>2, <2>3, <2>4, <2>5, Addresses, EmailFreeMeansFree DEF D!Move
      <3> QED
        BY <2>1, <3>1 DEF D!Next, D!Move
    <2>6. CASE HasEmail(u, e)
      BY <2>1, <2>3, <2>4, <2>6 DEF HasEmail, D!vars
    <2> QED
      BY <1>4, <2>5, <2>6 DEF UpdateUser
  <1>5. ASSUME NEW r \in Requests, Delete(r)
        PROVE  D!Next
    <2>1. req[r].user \in Users
      BY <1>5, RequestKinds DEF Delete, At, Deletion
    <2>2. D!Remove(req[r].user)
      BY <1>5, <2>1 DEF Delete, D!Remove, NoRow, TypeOK
    <2> QED
      BY <2>1, <2>2 DEF D!Next, D!Remove
  <1>6. ASSUME UNCHANGED <<account, identity, drawn>>
        PROVE  UNCHANGED D!vars
    BY <1>6 DEF D!vars
  <1> QED
    BY <1>1, <1>2, <1>3, <1>4, <1>5, <1>6
    DEF Next, vars, tables, Register, Authenticate, UpdateMe, DeleteMe,
        BeginRegister, ExistsByEmail, BeginGoogle, GetByProviderSubject,
        GetByEmail, IssueSession, BeginUpdate, CheckFree, BeginDelete,
        RevokeSessions, Fail

(* Register, Authenticate, UpdateMe and DeleteMe, which look before they    *)
(* write, are single steps of a directory (Directory): an address and a     *)
(* subject lead to one account, and what has gone does not come back.       *)
THEOREM AccountsAreADirectory == Spec => ImplementsDirectory
  <1>1. AccountsInv /\ [Next]_vars => [D!Next]_(D!vars)
    BY RefinementStep DEF AccountsInv
  <1> QED
    BY <1>1, InvariantHolds, RefinementInit, PTL
    DEF Spec, ImplementsDirectory, D!Spec

-----------------------------------------------------------------------------
(* What every directory keeps, read on the tables of Accounts.              *)
addressOf == [u \in Users |-> account[u].email]

LEMMA DirectoryInit == D!Init => D!DirectoryInv
  BY DEF D!Init, D!DirectoryInv, D!TypeOK, D!OneAccountPerAddress, D!LinksLeadToAccounts,
         D!UsedBefore

(* A new account changes its own address and nobody else's.                 *)
LEMMA CreateKeeps ==
    ASSUME D!DirectoryInv, NEW u \in Users, NEW e \in Emails, D!Create(u, e),
           \/ UNCHANGED identity
           \/ \E s \in Subjects : identity' = [identity EXCEPT ![s] = u]
    PROVE  D!DirectoryInv' /\ D!GoneForGood
  <1> USE SentinelsAssumption DEF addressOf
  <1>1. addressOf' = [addressOf EXCEPT ![u] = e] /\ drawn' = drawn \cup {u}
    BY DEF D!Create
  <1>2. e # NoEmail /\ u \notin drawn /\ D!Free(e)
    BY DEF D!Create
  <1>3. D!TypeOK'
    <2>1. addressOf' \in [Users -> Emails \cup {NoEmail}]
      BY <1>1 DEF D!DirectoryInv, D!TypeOK
    <2>2. identity' \in [Subjects -> Users \cup {NoUser}]
      BY DEF D!DirectoryInv, D!TypeOK
    <2>3. drawn' \subseteq Users
      BY <1>1 DEF D!DirectoryInv, D!TypeOK
    <2> QED
      BY <2>1, <2>2, <2>3 DEF D!TypeOK
  <1>4. D!OneAccountPerAddress'
    BY <1>1, <1>2 DEF D!DirectoryInv, D!TypeOK, D!OneAccountPerAddress, D!Free
  <1>5. D!LinksLeadToAccounts'
    BY <1>1, <1>2 DEF D!DirectoryInv, D!TypeOK, D!LinksLeadToAccounts
  <1>6. D!UsedBefore'
    BY <1>1 DEF D!DirectoryInv, D!TypeOK, D!UsedBefore
  <1>7. D!GoneForGood
    BY <1>1, <1>2 DEF D!DirectoryInv, D!TypeOK, D!GoneForGood
  <1> QED
    BY <1>3, <1>4, <1>5, <1>6, <1>7 DEF D!DirectoryInv

LEMMA CreateLinkStays ==
    ASSUME D!DirectoryInv, NEW u \in Users, NEW s \in Subjects,
           identity[s] = NoUser, identity' = [identity EXCEPT ![s] = u]
    PROVE  D!LinkStays
  BY DEF D!DirectoryInv, D!TypeOK, D!LinkStays, addressOf

LEMMA DirectoryStep ==
    ASSUME D!DirectoryInv, [D!Next]_(D!vars)
    PROVE  D!DirectoryInv' /\ D!GoneForGood /\ D!LinkStays
  <1> USE SentinelsAssumption DEF addressOf
  <1> USE DEF D!DirectoryInv
  <1>1. ASSUME NEW u \in Users, NEW e \in Emails, D!SignUp(u, e)
        PROVE  D!DirectoryInv' /\ D!GoneForGood /\ D!LinkStays
    <2>1. D!LinkStays
      BY <1>1 DEF D!SignUp, D!LinkStays
    <2> QED
      BY <1>1, <2>1, CreateKeeps DEF D!SignUp
  <1>2. ASSUME NEW u \in Users, NEW e \in Emails, NEW s \in Subjects,
               D!SignUpLinked(u, e, s)
        PROVE  D!DirectoryInv' /\ D!GoneForGood /\ D!LinkStays
    <2>1. D!LinkStays
      BY <1>2, CreateLinkStays DEF D!SignUpLinked
    <2> QED
      BY <1>2, <2>1, CreateKeeps DEF D!SignUpLinked
  <1>3. ASSUME NEW s \in Subjects, NEW u \in Users, D!Link(s, u)
        PROVE  D!DirectoryInv' /\ D!GoneForGood /\ D!LinkStays
    <2>1. D!TypeOK' /\ D!OneAccountPerAddress' /\ D!UsedBefore' /\ D!GoneForGood
      BY <1>3 DEF D!Link, D!TypeOK, D!OneAccountPerAddress, D!UsedBefore, D!GoneForGood
    <2>2. D!LinksLeadToAccounts'
      BY <1>3 DEF D!Link, D!TypeOK, D!LinksLeadToAccounts
    <2>3. D!LinkStays
      BY <1>3, CreateLinkStays DEF D!Link
    <2> QED
      BY <2>1, <2>2, <2>3
  <1>4. ASSUME NEW u \in Users, NEW e \in Emails, D!Move(u, e)
        PROVE  D!DirectoryInv' /\ D!GoneForGood /\ D!LinkStays
    <2>1. D!TypeOK' /\ D!UsedBefore' /\ D!GoneForGood /\ D!LinkStays
      BY <1>4 DEF D!Move, D!TypeOK, D!UsedBefore, D!GoneForGood, D!LinkStays
    <2>2. D!OneAccountPerAddress'
      BY <1>4 DEF D!Move, D!Free, D!TypeOK, D!OneAccountPerAddress
    <2>3. D!LinksLeadToAccounts'
      BY <1>4 DEF D!Move, D!TypeOK, D!LinksLeadToAccounts
    <2> QED
      BY <2>1, <2>2, <2>3
  <1>5. ASSUME NEW u \in Users, D!Remove(u)
        PROVE  D!DirectoryInv' /\ D!GoneForGood /\ D!LinkStays
    <2>1. D!TypeOK' /\ D!UsedBefore' /\ D!GoneForGood
      BY <1>5 DEF D!Remove, D!TypeOK, D!UsedBefore, D!GoneForGood
    <2>2. D!OneAccountPerAddress'
      BY <1>5 DEF D!Remove, D!TypeOK, D!OneAccountPerAddress
    <2>3. D!LinksLeadToAccounts' /\ D!LinkStays
      BY <1>5 DEF D!Remove, D!TypeOK, D!LinksLeadToAccounts, D!LinkStays
    <2> QED
      BY <2>1, <2>2, <2>3
  <1>6. CASE UNCHANGED D!vars
    BY <1>6 DEF D!vars, D!TypeOK, D!OneAccountPerAddress, D!LinksLeadToAccounts,
                D!UsedBefore, D!GoneForGood, D!LinkStays
  <1> QED
    BY <1>1, <1>2, <1>3, <1>4, <1>5, <1>6 DEF D!Next

(* Whatever signs up, moves, links and goes, an address leads to one        *)
(* account and a subject to one that is there.                              *)
THEOREM DirectoryKeeps ==
    D!Spec => [](D!OneAccountPerAddress /\ D!LinksLeadToAccounts)
  <1>1. D!DirectoryInv => D!OneAccountPerAddress /\ D!LinksLeadToAccounts
    BY DEF D!DirectoryInv
  <1>2. D!DirectoryInv /\ [D!Next]_(D!vars) => D!DirectoryInv'
    BY DirectoryStep
  <1> QED
    BY <1>1, <1>2, DirectoryInit, PTL DEF D!Spec

(* An account that has gone stays gone, and a subject never changes hands   *)
(* while its account is there.                                              *)
THEOREM DirectoryNeverRevives ==
    D!Spec => [][D!GoneForGood /\ D!LinkStays]_(D!vars)
  <1>1. D!DirectoryInv /\ [D!Next]_(D!vars) =>
            D!DirectoryInv' /\ [D!GoneForGood /\ D!LinkStays]_(D!vars)
    BY DirectoryStep
  <1> QED
    BY <1>1, DirectoryInit, PTL DEF D!Spec

(* The unique index on users(email) and the foreign key of user_identities  *)
(* hold through Register, Authenticate, UpdateMe and DeleteMe as if each    *)
(* were one step.                                                           *)
THEOREM AddressesLeadToOneAccount ==
    Spec => [](D!OneAccountPerAddress /\ D!LinksLeadToAccounts)
  BY AccountsAreADirectory, DirectoryKeeps DEF ImplementsDirectory

(* No interleaving of them brings an account back, or moves a subject of    *)
(* Google from an account that is there.                                    *)
THEOREM AccountsNeverRevive ==
    Spec => [][D!GoneForGood /\ D!LinkStays]_(D!vars)
  BY AccountsAreADirectory, DirectoryNeverRevives DEF ImplementsDirectory

-----------------------------------------------------------------------------
(* The names of accounts, for any names, normalisation, accounts and        *)
(* requests: AccountNames with variables of its own, and what it assumes of *)
(* the normalisation as a hypothesis.                                       *)
CONSTANTS Names, WellFormed, Trimmed
VARIABLES row, ids, calls, verbatim

N == INSTANCE AccountNames WITH Addresses <- WellFormed, drawn <- ids,
                                 req <- calls

NamesSane ==
    /\ Trimmed \in [Names -> Names]
    /\ \A n \in Names : Trimmed[Trimmed[n]] = Trimmed[n]
    /\ WellFormed \subseteq Names
    /\ \A n \in WellFormed : Trimmed[n] = n

(* Which kind of request a request is follows from where it stands.         *)
LEMMA NamesKinds ==
    ASSUME N!TypeOK, NEW r \in Requests
    PROVE  /\ calls[r] \in N!AnyRequest
           /\ calls[r].pc \in {"existsByEmail", "existsByUsername", "create"} =>
                 calls[r] \in N!Registration
           /\ calls[r].pc \in {"getByEmail", "update"} => calls[r] \in N!Update
           /\ N!At(r, "confirmFind") => calls[r] \in N!Deletion
           /\ N!Confirming(r) => calls[r] \in N!DeletionBy
  BY DEF N!TypeOK, N!AnyRequest, N!Registration, N!Update, N!Deletion,
         N!DeletionBy, N!Idle, N!At, N!Confirming

LEMMA NamesInit == N!Init => N!NamesInv
  BY DEF N!Init, N!NamesInv, N!TypeOK, N!AnyRequest, N!RowsInv, N!Vetted,
         N!Confirming, N!Exists, N!At, N!Idle

-----------------------------------------------------------------------------
(* A request that stays as it is stays vetted while the accounts that were  *)
(* drawn keep their rows or go.                                             *)
LEMMA NamesOthersVetted ==
    ASSUME NEW q, N!Vetted(q), calls'[q] = calls[q], ids \subseteq ids',
           \A u \in ids : row'[u] = row[u] \/ row'[u] = N!NoRow
    PROVE  N!Vetted(q)'
  BY DEF N!Vetted, N!Confirming, N!Exists, N!At

(* Steps that replace a request and leave the rows alone.                   *)
LEMMA NamesQuiet ==
    ASSUME N!NamesInv, NEW r \in Requests, NEW request \in N!AnyRequest,
           N!Become(r, request), UNCHANGED <<row, ids, verbatim>>,
           request.pc \in {"existsByEmail", "existsByUsername", "create"} =>
               Trimmed[request.email] = request.email,
           request.pc \in {"confirmFind", "confirm", "delete"} =>
               /\ request.user \in ids
               /\ N!Exists(request.user) /\ ~ request.moved =>
                     row[request.user].email = request.identifier,
           request.pc \in {"confirm", "delete"} =>
               \/ request.found = request.user \/ ~ N!Exists(request.user)
               \/ request.moved \/ request.byUsername,
           request.pc = "delete" => request.password = request.found
    PROVE  N!NamesInv'
  <1>1. N!TypeOK' /\ N!RowsInv'
    BY DEF N!NamesInv, N!TypeOK, N!RowsInv, N!Exists, N!Become
  <1>2. N!Vetted(r)'
    BY DEF N!NamesInv, N!TypeOK, N!Vetted, N!Confirming, N!Exists, N!At,
           N!Become
  <1>3. ASSUME NEW q \in Requests, q # r PROVE N!Vetted(q)'
    <2>1. calls'[q] = calls[q]
      BY <1>3 DEF N!NamesInv, N!TypeOK, N!Become
    <2> QED
      BY <2>1, NamesOthersVetted DEF N!NamesInv
  <1> QED
    BY <1>1, <1>2, <1>3 DEF N!NamesInv

LEMMA NamesFinish ==
    ASSUME N!NamesInv, NEW r \in Requests, N!Finish(r),
           UNCHANGED <<row, ids, verbatim>>
    PROVE  N!NamesInv'
  <1>1. N!Idle \in N!AnyRequest /\ N!Idle.pc = "idle"
    BY DEF N!AnyRequest, N!Idle
  <1> QED
    BY <1>1, NamesQuiet DEF N!Finish

-----------------------------------------------------------------------------
(* Registration, and creation by a sign-in with Google.                     *)
LEMMA BeginRegisterStep ==
    ASSUME NamesSane, N!NamesInv, NEW r \in Requests, NEW e \in Names,
           NEW n \in Names \cup {N!NoName}, N!BeginRegister(r, e, n)
    PROVE  N!NamesInv'
  <1> DEFINE request == [pc |-> "existsByEmail", email |-> Trimmed[e],
                         username |-> n]
  <1>1. request \in N!AnyRequest
    BY DEF NamesSane, N!AnyRequest, N!Registration
  <1>2. Trimmed[request.email] = request.email
    BY DEF NamesSane
  <1> QED
    BY <1>1, <1>2, NamesQuiet DEF N!BeginRegister

LEMMA RegisterLookStep ==
    ASSUME N!NamesInv, NEW r \in Requests,
           N!ExistsByEmail(r) \/ N!ExistsByUsername(r)
    PROVE  N!NamesInv'
  <1>1. calls[r] \in N!Registration /\ Trimmed[calls[r].email] = calls[r].email
    BY NamesKinds
       DEF N!NamesInv, N!Vetted, N!ExistsByEmail, N!ExistsByUsername, N!At
  <1>2. ASSUME NEW label \in {"existsByUsername", "create"}, N!Goto(r, label)
        PROVE  N!NamesInv'
    <2> DEFINE request == [calls[r] EXCEPT !.pc = label]
    <2>1. request \in N!Registration /\ request.email = calls[r].email
          /\ request.pc = label
      BY <1>1 DEF N!Registration
    <2>2. request \in N!AnyRequest
      BY <2>1 DEF N!AnyRequest
    <2>3. N!Become(r, request) /\ UNCHANGED <<row, ids, verbatim>>
      BY <1>2 DEF N!Goto, N!Become, N!ExistsByEmail, N!ExistsByUsername
    <2> HIDE DEF request
    <2> QED
      BY <1>1, <2>1, <2>2, <2>3, NamesQuiet
  <1>3. N!Finish(r) \/ \E label \in {"existsByUsername", "create"} : N!Goto(r, label)
    BY DEF N!ExistsByEmail, N!ExistsByUsername
  <1> QED
    BY <1>2, <1>3, NamesFinish DEF N!ExistsByEmail, N!ExistsByUsername

(* A new account has an address nobody has, and nobody waits to delete it.  *)
LEMMA CreateUserKeeps ==
    ASSUME N!NamesInv, NEW u \in Users, NEW e \in Names,
           NEW n \in Names \cup {N!NoName}, NEW password \in BOOLEAN,
           N!CreateUser(u, e, n, password), verbatim \subseteq verbatim',
           u \in verbatim' \/ Trimmed[e] = e
    PROVE  /\ row' \in [Users -> N!Row \cup {N!NoRow}] /\ ids' \subseteq Users
           /\ N!RowsInv' /\ ids \subseteq ids'
           /\ \A v \in ids : row'[v] = row[v]
  <1> DEFINE new == [email |-> e, username |-> n, password |-> password]
  <1>1. /\ row' = [row EXCEPT ![u] = new] /\ ids' = ids \cup {u}
        /\ u \notin ids /\ N!WithEmail(e) = {}
    BY DEF N!CreateUser
  <1>2. new \in N!Row /\ new.email = e
    BY DEF N!Row
  <1> HIDE DEF new
  <1>3. /\ row' \in [Users -> N!Row \cup {N!NoRow}] /\ ids' \subseteq Users
        /\ \A v \in Users : row'[v] = IF v = u THEN new ELSE row[v]
    BY <1>1, <1>2 DEF N!NamesInv, N!TypeOK
  <1>4. N!RowsInv'
    BY <1>1, <1>2, <1>3 DEF N!NamesInv, N!RowsInv, N!Exists, N!WithEmail
  <1> QED
    BY <1>1, <1>3, <1>4 DEF N!NamesInv, N!TypeOK

LEMMA CreateStep ==
    ASSUME N!NamesInv, NEW r \in Requests, NEW u \in Users, N!Create(r, u)
    PROVE  N!NamesInv'
  <1>1. PICK e, n : e = calls[r].email /\ n = calls[r].username
    OBVIOUS
  <1>2. e \in Names /\ n \in Names \cup {N!NoName} /\ Trimmed[e] = e
    BY <1>1, NamesKinds DEF N!NamesInv, N!Vetted, N!Create, N!Registration, N!At
  <1>3. N!CreateUser(u, e, n, TRUE) /\ verbatim' = verbatim
    BY <1>1 DEF N!Create
  <1>4. /\ row' \in [Users -> N!Row \cup {N!NoRow}] /\ ids' \subseteq Users
        /\ N!RowsInv' /\ ids \subseteq ids'
        /\ \A v \in ids : row'[v] = row[v]
    BY <1>2, <1>3, CreateUserKeeps
  <1>5. /\ calls' \in [Requests -> N!AnyRequest] /\ calls'[r] = N!Idle
        /\ \A q \in Requests \ {r} : calls'[q] = calls[q]
    BY DEF N!Create, N!Finish, N!Become, N!NamesInv, N!TypeOK, N!AnyRequest
  <1>6. N!TypeOK'
    BY <1>3, <1>4, <1>5 DEF N!NamesInv, N!TypeOK
  <1>7. N!Vetted(r)'
    BY <1>5 DEF N!Vetted, N!Confirming, N!At, N!Idle
  <1>8. ASSUME NEW q \in Requests, q # r PROVE N!Vetted(q)'
    BY <1>4, <1>5, <1>8, NamesOthersVetted DEF N!NamesInv
  <1> QED
    BY <1>4, <1>6, <1>7, <1>8 DEF N!NamesInv

LEMMA CreateByGoogleStep ==
    ASSUME N!NamesInv, NEW u \in Users, NEW e \in Names,
           N!CreateByGoogle(u, e)
    PROVE  N!NamesInv'
  <1>1. /\ N!CreateUser(u, e, N!NoName, FALSE) /\ UNCHANGED calls
        /\ verbatim' = verbatim \cup {u}
    BY DEF N!CreateByGoogle
  <1>2. /\ row' \in [Users -> N!Row \cup {N!NoRow}] /\ ids' \subseteq Users
        /\ N!RowsInv' /\ ids \subseteq ids'
        /\ \A v \in ids : row'[v] = row[v]
    BY <1>1, CreateUserKeeps
  <1>3. N!TypeOK'
    BY <1>1, <1>2 DEF N!NamesInv, N!TypeOK
  <1>4. ASSUME NEW q \in Requests PROVE N!Vetted(q)'
    BY <1>1, <1>2, NamesOthersVetted DEF N!NamesInv
  <1> QED
    BY <1>2, <1>3, <1>4 DEF N!NamesInv

-----------------------------------------------------------------------------
(* The profile update.                                                      *)
LEMMA UpdateLookStep ==
    ASSUME N!NamesInv, NEW r \in Requests, NEW u \in Users, NEW e \in Names,
           N!BeginUpdate(r, u, e) \/ N!GetByEmail(r)
    PROVE  N!NamesInv'
  <1>1. CASE N!BeginUpdate(r, u, e)
    <2>1. PICK request \in N!Update :
             /\ request.pc \in {"getByEmail", "update"} /\ N!Become(r, request)
             /\ UNCHANGED <<row, ids, verbatim>>
      <3> DEFINE request == [pc |-> IF e = row[u].email THEN "update"
                                    ELSE "getByEmail",
                             user |-> u, email |-> e]
      <3>1. request \in N!Update /\ request.pc \in {"getByEmail", "update"}
        BY DEF N!Update
      <3> QED
        BY <1>1, <3>1 DEF N!BeginUpdate
    <2> QED
      BY <2>1, NamesQuiet DEF N!AnyRequest
  <1>2. CASE N!GetByEmail(r)
    <2> DEFINE request == [calls[r] EXCEPT !.pc = "update"]
    <2>1. calls[r] \in N!Update
      BY <1>2, NamesKinds DEF N!NamesInv, N!GetByEmail, N!At
    <2>2. request \in N!Update /\ request.pc = "update"
      BY <2>1 DEF N!Update
    <2>3. N!Finish(r) \/ N!Become(r, request)
      BY <1>2 DEF N!GetByEmail, N!Goto, N!Become, N!Finish, N!NamesInv, N!TypeOK
    <2> HIDE DEF request
    <2> QED
      BY <1>2, <2>2, <2>3, NamesQuiet, NamesFinish
         DEF N!GetByEmail, N!AnyRequest
  <1> QED
    BY <1>1, <1>2

(* A deletion under way notes that its account moves away from the address  *)
(* it read.                                                                 *)
LEMMA UpdateUserStep ==
    ASSUME N!NamesInv, NEW r \in Requests, N!UpdateUser(r)
    PROVE  N!NamesInv'
  <1>1. PICK u, e : u = calls[r].user /\ e = calls[r].email
    OBVIOUS
  <1>2. u \in Users /\ e \in Names
    BY <1>1, NamesKinds DEF N!NamesInv, N!UpdateUser, N!Update, N!At
  <1>3. PICK new : new = [row[u] EXCEPT !.email = e]
    OBVIOUS
  <1>4. /\ N!Exists(u) /\ N!WithEmail(e) \subseteq {u} /\ ids' = ids
        /\ verbatim' = IF e = row[u].email THEN verbatim ELSE verbatim \cup {u}
        /\ row' = [row EXCEPT ![u] = new]
    BY <1>1, <1>2, <1>3 DEF N!UpdateUser, N!NamesInv, N!TypeOK
  <1>5. row[u] \in N!Row
    BY <1>2, <1>4 DEF N!NamesInv, N!TypeOK, N!Exists
  <1>6. new \in N!Row /\ new.email = e
    BY <1>2, <1>3, <1>5 DEF N!Row
  <1>7. /\ row' \in [Users -> N!Row \cup {N!NoRow}] /\ verbatim' \subseteq Users
        /\ \A v \in Users : row'[v] = IF v = u THEN new ELSE row[v]
    BY <1>2, <1>4, <1>6 DEF N!NamesInv, N!TypeOK
  <1>8. N!RowsInv'
    <2>1. ASSUME NEW v \in Users, N!Exists(v)'
          PROVE  /\ v \in ids' /\ N!Exists(v)
                 /\ v \in verbatim' \/ Trimmed[row'[v].email] = row'[v].email
      BY <1>2, <1>4, <1>6, <1>7, <2>1 DEF N!NamesInv, N!RowsInv, N!Exists
    <2>2. ASSUME NEW v \in Users, NEW w \in Users, N!Exists(v)', N!Exists(w)',
                 row'[v].email = row'[w].email
          PROVE  v = w
      BY <1>4, <1>6, <1>7, <2>1, <2>2
         DEF N!NamesInv, N!RowsInv, N!Exists, N!WithEmail
    <2> QED
      BY <2>1, <2>2 DEF N!RowsInv
  <1>9. ASSUME NEW q \in Requests
        PROVE  \/ calls'[q] = N!Idle
               \/ /\ calls'[q] = calls[q]
                  /\ calls[q].pc \in {"confirmFind", "confirm", "delete"} =>
                        calls[q].user # u \/ calls[q].identifier = e
               \/ /\ calls'[q] = [calls[q] EXCEPT !.moved = TRUE]
                  /\ calls[q].pc \in {"confirmFind", "confirm", "delete"}
    BY <1>1 DEF N!UpdateUser
  <1>10. ASSUME NEW q \in Requests
         PROVE  calls'[q] \in N!AnyRequest /\ N!Vetted(q)'
    <2>1. N!Vetted(q) /\ calls[q] \in N!AnyRequest
      BY NamesKinds DEF N!NamesInv
    <2>2. CASE calls'[q] = N!Idle
      BY <2>2 DEF N!Vetted, N!Confirming, N!At, N!Idle, N!AnyRequest
    <2>3. CASE /\ calls'[q] = calls[q]
               /\ calls[q].pc \in {"confirmFind", "confirm", "delete"} =>
                     calls[q].user # u \/ calls[q].identifier = e
      <3>1. calls[q].pc \in {"confirmFind", "confirm", "delete"} =>
                calls[q].user \in Users
        BY NamesKinds
           DEF N!NamesInv, N!Deletion, N!DeletionBy, N!Confirming, N!At
      <3> QED
        BY <1>4, <1>6, <1>7, <2>1, <2>3, <3>1
           DEF N!Vetted, N!Confirming, N!At, N!Exists
    <2>4. CASE /\ calls'[q] = [calls[q] EXCEPT !.moved = TRUE]
               /\ calls[q].pc \in {"confirmFind", "confirm", "delete"}
      <3>1. calls[q] \in N!Deletion \cup N!DeletionBy
        BY <2>4, NamesKinds DEF N!NamesInv, N!Confirming, N!At
      <3>2. /\ calls'[q] \in N!Deletion \cup N!DeletionBy
            /\ calls'[q].pc = calls[q].pc /\ calls'[q].moved = TRUE
            /\ calls'[q].user = calls[q].user
            /\ calls'[q].password = calls[q].password
        BY <2>4, <3>1 DEF N!Deletion, N!DeletionBy
      <3>3. N!Confirming(q) => calls'[q].found = calls[q].found
        BY <2>4, NamesKinds DEF N!NamesInv, N!DeletionBy
      <3> QED
        BY <1>4, <2>1, <2>4, <3>2, <3>3
           DEF N!Vetted, N!Confirming, N!At, N!AnyRequest
    <2> QED
      BY <1>9, <2>2, <2>3, <2>4
  <1>11. calls' \in [Requests -> N!AnyRequest]
    <2>1. calls' = [q \in Requests |-> calls'[q]]
      BY DEF N!UpdateUser
    <2> QED
      BY <1>10, <2>1
  <1> QED
    BY <1>4, <1>7, <1>8, <1>10, <1>11 DEF N!NamesInv, N!TypeOK

-----------------------------------------------------------------------------
(* The deletion and its confirmation.                                       *)
LEMMA NamesBeginDeleteStep ==
    ASSUME N!NamesInv, NEW r \in Requests, NEW u \in Users,
           NEW password \in Users,
           N!BeginDelete(r, u, password)
    PROVE  N!NamesInv'
  <1> DEFINE request == [pc |-> "confirmFind", user |-> u, password |-> password,
                         identifier |-> row[u].email, moved |-> FALSE]
  <1>1. N!Exists(u) /\ row[u] \in N!Row /\ u \in ids
    BY DEF N!BeginDelete, N!NamesInv, N!TypeOK, N!RowsInv, N!Exists
  <1>2. request \in N!AnyRequest
    BY <1>1 DEF N!AnyRequest, N!Deletion, N!Row
  <1> QED
    BY <1>1, <1>2, NamesQuiet DEF N!BeginDelete

LEMMA ConfirmFindStep ==
    ASSUME N!NamesInv, NEW r \in Requests, N!ConfirmFind(r)
    PROVE  N!NamesInv'
  <1>1. calls[r] \in N!Deletion /\ calls[r].pc = "confirmFind"
    BY NamesKinds DEF N!NamesInv, N!ConfirmFind, N!At
  <1>2. /\ calls[r].user \in ids
        /\ N!Exists(calls[r].user) /\ ~ calls[r].moved =>
              row[calls[r].user].email = calls[r].identifier
    BY <1>1 DEF N!NamesInv, N!Vetted, N!At
  <1>3. ASSUME NEW u \in N!FoundBy(calls[r].identifier),
               N!Become(r, [pc |-> "confirm", user |-> calls[r].user,
                          password |-> calls[r].password,
                          identifier |-> calls[r].identifier, found |-> u,
                          moved |-> calls[r].moved,
                          byUsername |-> row[u].username = calls[r].identifier])
        PROVE  N!NamesInv'
    <2> DEFINE request == [pc |-> "confirm", user |-> calls[r].user,
                           password |-> calls[r].password,
                           identifier |-> calls[r].identifier, found |-> u,
                           moved |-> calls[r].moved,
                           byUsername |-> row[u].username = calls[r].identifier]
    <2>1. /\ u \in Users /\ N!Exists(u)
          /\ \/ row[u].email = calls[r].identifier
             \/ row[u].username = calls[r].identifier
      BY <1>3 DEF N!FoundBy, N!WithEmail, N!WithUsername
    <2>2. request \in N!DeletionBy
      BY <1>1, <2>1 DEF N!Deletion, N!DeletionBy
    <2>3. request \in N!AnyRequest
      BY <2>2 DEF N!AnyRequest
    <2>4. \/ u = calls[r].user \/ ~ N!Exists(calls[r].user)
          \/ calls[r].moved \/ row[u].username = calls[r].identifier
      BY <1>1, <1>2, <2>1 DEF N!NamesInv, N!RowsInv, N!Deletion
    <2>5. N!Become(r, request)
      BY <1>3
    <2>6. /\ request.pc = "confirm" /\ request.user = calls[r].user
          /\ request.identifier = calls[r].identifier /\ request.found = u
          /\ request.moved = calls[r].moved
          /\ request.byUsername = (row[u].username = calls[r].identifier)
      OBVIOUS
    <2> HIDE DEF request
    <2> QED
      BY <1>2, <2>3, <2>4, <2>5, <2>6, NamesQuiet DEF N!ConfirmFind
  <1>4. CASE N!Finish(r)
    BY <1>4, NamesFinish DEF N!ConfirmFind
  <1> QED
    BY <1>3, <1>4 DEF N!ConfirmFind

LEMMA ConfirmStep ==
    ASSUME N!NamesInv, NEW r \in Requests, N!Confirm(r)
    PROVE  N!NamesInv'
  <1> DEFINE request == [calls[r] EXCEPT !.pc = "delete"]
  <1>1. calls[r] \in N!DeletionBy /\ N!Confirming(r) /\ UNCHANGED <<row, ids, verbatim>>
    BY NamesKinds DEF N!NamesInv, N!Confirm, N!At, N!Confirming
  <1>2. /\ request \in N!DeletionBy /\ request.pc = "delete"
        /\ request.user = calls[r].user
        /\ request.identifier = calls[r].identifier
        /\ request.found = calls[r].found /\ request.moved = calls[r].moved
        /\ request.byUsername = calls[r].byUsername
        /\ request.password = calls[r].password
    BY <1>1 DEF N!DeletionBy
  <1>3. /\ calls[r].user \in ids
        /\ N!Exists(calls[r].user) /\ ~ calls[r].moved =>
              row[calls[r].user].email = calls[r].identifier
        /\ \/ calls[r].found = calls[r].user \/ ~ N!Exists(calls[r].user)
           \/ calls[r].moved \/ calls[r].byUsername
    BY <1>1 DEF N!NamesInv, N!Vetted
  <1>4. N!Finish(r) \/ (N!Become(r, request) /\ calls[r].password = calls[r].found)
    BY DEF N!Confirm, N!Goto, N!Become, N!NamesInv, N!TypeOK
  <1>5. request \in N!AnyRequest
    BY <1>2 DEF N!AnyRequest
  <1> HIDE DEF request
  <1> QED
    BY <1>1, <1>2, <1>3, <1>4, <1>5, NamesQuiet, NamesFinish

LEMMA NamesDeleteStep ==
    ASSUME N!NamesInv, NEW r \in Requests, N!Delete(r)
    PROVE  N!NamesInv'
  <1>1. PICK u : u = calls[r].user
    OBVIOUS
  <1>2. u \in Users
    BY <1>1, NamesKinds
       DEF N!NamesInv, N!Delete, N!Confirming, N!At, N!DeletionBy
  <1>3. row' = [row EXCEPT ![u] = N!NoRow] /\ UNCHANGED <<ids, verbatim>>
    BY <1>1 DEF N!Delete
  <1>4. /\ row' \in [Users -> N!Row \cup {N!NoRow}]
        /\ \A v \in Users : row'[v] = IF v = u THEN N!NoRow ELSE row[v]
    BY <1>2, <1>3 DEF N!NamesInv, N!TypeOK
  <1>5. /\ calls' \in [Requests -> N!AnyRequest] /\ calls'[r] = N!Idle
        /\ \A q \in Requests \ {r} : calls'[q] = calls[q]
    BY DEF N!Delete, N!Finish, N!Become, N!NamesInv, N!TypeOK, N!AnyRequest
  <1>6. N!TypeOK' /\ N!RowsInv'
    BY <1>3, <1>4, <1>5 DEF N!NamesInv, N!TypeOK, N!RowsInv, N!Exists
  <1>7. N!Vetted(r)'
    BY <1>5 DEF N!Vetted, N!Confirming, N!At, N!Idle
  <1>8. ASSUME NEW q \in Requests, q # r PROVE N!Vetted(q)'
    BY <1>3, <1>4, <1>5, <1>8, NamesOthersVetted DEF N!NamesInv, N!TypeOK
  <1> QED
    BY <1>6, <1>7, <1>8 DEF N!NamesInv

-----------------------------------------------------------------------------
LEMMA NamesNext == NamesSane /\ N!NamesInv /\ [N!Next]_(N!vars) => N!NamesInv'
  <1> SUFFICES ASSUME NamesSane, N!NamesInv, [N!Next]_(N!vars)
               PROVE  N!NamesInv'
    OBVIOUS
  <1>1. CASE UNCHANGED N!vars
    BY <1>1
       DEF N!vars, N!NamesInv, N!TypeOK, N!RowsInv, N!Vetted, N!Confirming,
           N!Exists, N!At
  <1>2. ASSUME NEW r \in Requests, NEW u \in Users, NEW e \in Names,
               \/ \E n \in Names \cup {N!NoName} : N!BeginRegister(r, e, n)
               \/ N!ExistsByEmail(r) \/ N!ExistsByUsername(r) \/ N!Create(r, u)
               \/ N!BeginUpdate(r, u, e) \/ N!GetByEmail(r) \/ N!UpdateUser(r)
               \/ \E v \in Users : N!BeginDelete(r, u, v)
               \/ N!ConfirmFind(r) \/ N!Confirm(r) \/ N!Delete(r)
               \/ N!Fail(r)
        PROVE  N!NamesInv'
    BY <1>2, BeginRegisterStep, RegisterLookStep, CreateStep, UpdateLookStep,
       UpdateUserStep, NamesBeginDeleteStep, ConfirmFindStep, ConfirmStep,
       NamesDeleteStep, NamesFinish DEF N!Fail
  <1>3. ASSUME NEW u \in Users, NEW e \in Names, N!CreateByGoogle(u, e)
        PROVE  N!NamesInv'
    BY <1>3, CreateByGoogleStep
  <1> QED
    BY <1>1, <1>2, <1>3 DEF N!Next

(* NamesInv holds in every reachable state of AccountNames (password.go,    *)
(* users_repo.go, me/handler.go, me/delete.go).                             *)
THEOREM NamesInvariantHolds ==
    ASSUME NamesSane PROVE N!Spec => []N!NamesInv
  <1>1. N!NamesInv /\ [N!Next]_(N!vars) => N!NamesInv'
    BY NamesNext
  <1> QED
    BY <1>1, NamesInit, PTL DEF N!Spec

(* Rows, requests and history keep their type.                              *)
THEOREM NamesTypeCorrect ==
    ASSUME NamesSane PROVE N!Spec => []N!TypeOK
  <1>1. N!NamesInv => N!TypeOK
    BY DEF N!NamesInv
  <1> QED
    BY <1>1, NamesInvariantHolds, PTL

(* The password that confirms a deletion (me/delete.go:43) is that of the   *)
(* account deleted, unless it moved away from the address that was read or  *)
(* that address is somebody's username.                                     *)
THEOREM ConfirmedByOwner ==
    ASSUME NamesSane PROVE N!Spec => []N!ConfirmedByItsOwner
  <1>1. N!NamesInv => N!ConfirmedByItsOwner
    BY DEF N!NamesInv, N!ConfirmedByItsOwner, N!Vetted, N!Confirming, N!At
  <1> QED
    BY <1>1, NamesInvariantHolds, PTL

(* Two accounts have one address up to the space around it only where a     *)
(* profile update or a sign-in with Google stored it with the space for one *)
(* of them (me/handler.go:133, google.go:224): Register normalises, and the *)
(* unique index does the rest.                                              *)
THEOREM TwinsNeedVerbatim ==
    ASSUME NamesSane PROVE N!Spec => []N!TwinsOnlyVerbatim
  <1>1. N!NamesInv => N!TwinsOnlyVerbatim
    BY DEF N!NamesInv, N!RowsInv, N!TwinsOnlyVerbatim
  <1> QED
    BY <1>1, NamesInvariantHolds, PTL

-----------------------------------------------------------------------------
(* The rows of AccountNames, where addresses are typed by people, make the  *)
(* same directory as those of Accounts, if to have no name is not to have   *)
(* one; there are no subjects of Google there.                              *)
NoNameIsNone == N!NoName \notin Names
rowAddress == [u \in Users |-> row[u].email]
noLinks == [s \in {} |-> N!NoName]
ND == INSTANCE Directory WITH
    Emails <- Names, Subjects <- {}, NoEmail <- N!NoName, NoUser <- N!NoName,
    address <- rowAddress, link <- noLinks, used <- ids

LEMMA RowAddresses ==
    ASSUME NoNameIsNone, N!NamesInv, NEW u \in Users
    PROVE  /\ rowAddress[u] = row[u].email
           /\ N!Exists(u) <=> rowAddress[u] # N!NoName
  BY DEF NoNameIsNone, N!NamesInv, N!TypeOK, N!Row, N!NoRow, N!Exists, rowAddress

LEMMA NamedCreation ==
    ASSUME NoNameIsNone, N!NamesInv, NEW u \in Users, NEW e \in Names, NEW n,
           NEW password, N!CreateUser(u, e, n, password)
    PROVE  ND!Next
  <1> DEFINE new == [email |-> e, username |-> n, password |-> password]
  <1>1. /\ row' = [row EXCEPT ![u] = new] /\ ids' = ids \cup {u}
        /\ u \notin ids /\ N!WithEmail(e) = {} /\ new.email = e
    BY DEF N!CreateUser
  <1> HIDE DEF new
  <1>2. rowAddress' = [rowAddress EXCEPT ![u] = e]
    BY <1>1 DEF N!NamesInv, N!TypeOK, rowAddress
  <1>3. ND!Free(e)
    BY <1>1, RowAddresses DEF ND!Free, N!WithEmail, NoNameIsNone
  <1>4. ND!SignUp(u, e)
    BY <1>1, <1>2, <1>3 DEF ND!SignUp, ND!Create, noLinks
  <1> QED
    BY <1>4 DEF ND!Next

LEMMA NamedMove ==
    ASSUME NoNameIsNone, N!NamesInv, NEW r \in Requests, N!UpdateUser(r)
    PROVE  [ND!Next]_(ND!vars)
  <1>1. PICK u, e : u = calls[r].user /\ e = calls[r].email
    OBVIOUS
  <1>2. u \in Users /\ e \in Names
    BY <1>1, NamesKinds DEF N!NamesInv, N!UpdateUser, N!Update, N!At
  <1>3. PICK new : new = [row[u] EXCEPT !.email = e]
    OBVIOUS
  <1>4. /\ N!Exists(u) /\ N!WithEmail(e) \subseteq {u} /\ ids' = ids
        /\ row' = [row EXCEPT ![u] = new]
    BY <1>1, <1>2, <1>3 DEF N!UpdateUser, N!NamesInv, N!TypeOK
  <1>5. new.email = e
    BY <1>2, <1>3, <1>4 DEF N!NamesInv, N!TypeOK, N!Exists, N!Row
  <1>6. rowAddress' = [rowAddress EXCEPT ![u] = e]
    BY <1>4, <1>5 DEF N!NamesInv, N!TypeOK, rowAddress
  <1>7. CASE e = row[u].email
    BY <1>2, <1>4, <1>6, <1>7 DEF rowAddress, ND!vars, noLinks
  <1>8. CASE e # row[u].email
    <2>1. ND!Free(e)
      BY <1>2, <1>4, <1>8, RowAddresses DEF ND!Free, N!WithEmail, NoNameIsNone
    <2>2. ND!Move(u, e)
      BY <1>2, <1>4, <1>6, <2>1, RowAddresses DEF ND!Move, noLinks
    <2> QED
      BY <1>2, <2>2 DEF ND!Next
  <1> QED
    BY <1>7, <1>8

LEMMA NamedRemoval ==
    ASSUME N!NamesInv, NEW r \in Requests, N!Delete(r)
    PROVE  ND!Next
  <1>1. PICK u : u = calls[r].user
    OBVIOUS
  <1>2. u \in Users
    BY <1>1, NamesKinds
       DEF N!NamesInv, N!Delete, N!Confirming, N!At, N!DeletionBy
  <1>3. row' = [row EXCEPT ![u] = N!NoRow] /\ ids' = ids
    BY <1>1 DEF N!Delete
  <1>4. rowAddress' = [rowAddress EXCEPT ![u] = N!NoName]
    BY <1>3 DEF N!NamesInv, N!TypeOK, N!NoRow, rowAddress
  <1>5. ND!Remove(u)
    BY <1>3, <1>4 DEF ND!Remove, noLinks
  <1> QED
    BY <1>2, <1>5 DEF ND!Next

LEMMA NamedStep ==
    ASSUME NamesSane, NoNameIsNone, N!NamesInv, [N!Next]_(N!vars)
    PROVE  [ND!Next]_(ND!vars)
  <1>1. CASE UNCHANGED <<row, ids>>
    BY <1>1 DEF ND!vars, rowAddress, noLinks
  <1>2. ASSUME NEW r \in Requests, NEW u \in Users, N!Create(r, u)
        PROVE  ND!Next
    <2>1. calls[r].email \in Names
      BY <1>2, NamesKinds DEF N!NamesInv, N!Create, N!Registration, N!At
    <2> QED
      BY <1>2, <2>1, NamedCreation DEF N!Create
  <1>3. ASSUME NEW u \in Users, NEW e \in Names, N!CreateByGoogle(u, e)
        PROVE  ND!Next
    BY <1>3, NamedCreation DEF N!CreateByGoogle
  <1> QED
    BY <1>1, <1>2, <1>3, NamedMove, NamedRemoval
    DEF N!Next, N!BeginRegister, N!ExistsByEmail, N!ExistsByUsername,
        N!BeginUpdate, N!GetByEmail, N!BeginDelete, N!ConfirmFind, N!Confirm,
        N!Fail, N!vars

(* With names as they are typed, too, accounts are a directory: one account *)
(* at an address, a move only to a free one, and none that comes back       *)
(* (users_repo.go: the unique index; CreateUserTx, Update, Delete).         *)
THEOREM NamedAccountsAreADirectory ==
    ASSUME NamesSane, NoNameIsNone PROVE N!Spec => ND!Spec
  <1>1. N!Init => ND!Init
    BY DEF N!Init, ND!Init, N!NoRow, rowAddress, noLinks
  <1>2. N!NamesInv /\ [N!Next]_(N!vars) => [ND!Next]_(ND!vars)
    BY NamedStep
  <1> QED
    BY <1>1, <1>2, NamesInvariantHolds, PTL DEF N!Spec, ND!Spec

(* So no two accounts share an address, and none that was deleted comes     *)
(* back (the ids of uuid.New, the unique index on users.email).             *)
THEOREM NamedAccountsKeepTheirPlace ==
    ASSUME NamesSane, NoNameIsNone
    PROVE  N!Spec => []ND!OneAccountPerAddress /\ [][ND!GoneForGood]_(ND!vars)
  <1>1. N!NamesInv => ND!OneAccountPerAddress
    BY RowAddresses DEF N!NamesInv, N!RowsInv, ND!OneAccountPerAddress
  <1>2. ASSUME N!NamesInv, [N!Next]_(N!vars)
        PROVE  [ND!GoneForGood]_(ND!vars)
    <2>1. [ND!Next]_(ND!vars)
      BY <1>2, NamedStep
    <2>2. rowAddress = [u \in Users |-> rowAddress[u]]
      BY DEF rowAddress
    <2> QED
      BY <2>1, <2>2
      DEF ND!Next, ND!SignUp, ND!SignUpLinked, ND!Create, ND!Move, ND!Remove,
          ND!Link, ND!GoneForGood
  <1> QED
    BY <1>1, <1>2, NamesInvariantHolds, PTL DEF N!Spec
=============================================================================
