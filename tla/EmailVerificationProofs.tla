---------------------- MODULE EmailVerificationProofs ----------------------
(* Email verification for any number of accounts, links and requests: its   *)
(* type, the flag's history and the refinement of OneTimeLink.              *)
EXTENDS EmailVerification, TLAPS

(* Which kind of request a request is follows from where it stands.         *)
LEMMA RequestKinds ==
    ASSUME TypeOK, NEW r \in Requests
    PROVE  /\ At(r, "revoke") => req[r] \in SendRequest
           /\ req[r].pc \in {"insert", "mail"} => req[r] \in CreateRequest
           /\ req[r].pc \in {"checkFree", "write"} => req[r] \in UpdateRequest
           /\ At(r, "spend") => req[r] \in VerifyRequest
  BY DEF TypeOK, AnyRequest, SendRequest, CreateRequest, UpdateRequest,
         VerifyRequest, Idle, At

LEMMA InitType == Init => TypeOK
  <1> SUFFICES ASSUME Init PROVE TypeOK
    OBVIOUS
  <1>1. TokensTypeOK
    BY DEF Init, TokensInit, TokensTypeOK
  <1>2. user \in [Users -> Profile]
    <2>1. [email : Emails \ Taken, verified : BOOLEAN] \subseteq Profile
      BY DEF Profile
    <2> QED
      BY <2>1 DEF Init
  <1>3. req \in [Requests -> AnyRequest]
    BY DEF Init, AnyRequest
  <1>4. clicks \subseteq Click
    <2> SUFFICES ASSUME NEW u \in Users PROVE Vouched(u) \in Click
      BY DEF Init
    <2> QED
      BY <1>2 DEF Vouched, Click, Profile
  <1> QED
    BY <1>1, <1>2, <1>3, <1>4 DEF Init, TypeOK

(* Steps that only replace one request by another well-formed one.          *)
LEMMA BecomeType ==
    ASSUME TypeOK, NEW r \in Requests, NEW request \in AnyRequest,
           Become(r, request)
    PROVE  req' \in [Requests -> AnyRequest]
  BY DEF TypeOK, Become

LEMMA RevokeActiveType ==
    ASSUME TypeOK, NEW r \in Requests, NEW t \in Tokens, RevokeActive(r, t)
    PROVE  TypeOK'
  <1> DEFINE u == req[r].user
             new == [pc |-> "insert", user |-> u, to |-> req[r].to, tok |-> t,
                     expiresAt |-> Expiry, seen |-> ActiveOf(u)]
  <1>1. req[r] \in SendRequest
    BY RequestKinds DEF RevokeActive
  <1>2. Expiry \in Nat
    BY TokenTTLAssumption DEF TypeOK, TokensTypeOK, Expiry
  <1>3. new \in CreateRequest
    BY <1>1, <1>2 DEF SendRequest, CreateRequest, ActiveOf
  <1>4. req' \in [Requests -> AnyRequest]
    <2>1. new \in AnyRequest
      BY <1>3 DEF AnyRequest
    <2> QED
      BY <2>1, BecomeType DEF RevokeActive
  <1>5. generated' \subseteq Tokens
    BY DEF RevokeActive, Draw, TypeOK, TokensTypeOK
  <1> QED
    BY <1>4, <1>5 DEF RevokeActive, TypeOK, TokensTypeOK, tables

LEMMA SpendTokenType ==
    ASSUME TypeOK, NEW r \in Requests, SpendToken(r)
    PROVE  TypeOK'
  <1> DEFINE t == req[r].tok
             u == token[t].user
             click == [user |-> u, current |-> user[u].email]
  <1>1. t \in Tokens
    BY RequestKinds DEF SpendToken, VerifyRequest
  <1>2. token[t] \in TokenRow
    BY <1>1 DEF SpendToken, MarkConsumed, Active, TypeOK, TokensTypeOK
  <1>3. token' \in [Tokens -> TokenRow \cup {NoToken}]
    <2>1. token' = [token EXCEPT ![t] = [token[t] EXCEPT !.consumed = TRUE]]
      BY <1>1 DEF SpendToken, MarkConsumed
    <2>2. [token[t] EXCEPT !.consumed = TRUE] \in TokenRow
      BY <1>2 DEF TokenRow
    <2> QED
      BY <2>1, <2>2 DEF TypeOK, TokensTypeOK
  <1>4. u \in Users /\ user[u] \in Profile
    BY <1>2 DEF TokenRow, TypeOK
  <1>5. user' \in [Users -> Profile]
    <2>1. user' = [user EXCEPT ![u] = [user[u] EXCEPT !.verified = TRUE]]
      BY DEF SpendToken
    <2>2. [user[u] EXCEPT !.verified = TRUE] \in Profile
      BY <1>4 DEF Profile
    <2> QED
      BY <2>1, <2>2 DEF TypeOK
  <1>6. req' \in [Requests -> AnyRequest]
    BY BecomeType DEF SpendToken, Finish, AnyRequest
  <1>7. effects' \in [Tokens -> Nat]
    BY <1>1 DEF SpendToken, TypeOK
  <1>8. clicks' \subseteq Click
    <2>1. click \in Click
      BY <1>1, <1>4 DEF Click, Profile, TypeOK
    <2> QED
      BY <2>1 DEF SpendToken, TypeOK
  <1> QED
    BY <1>3, <1>5, <1>6, <1>7, <1>8 DEF SpendToken, TypeOK, TokensTypeOK

(* A step that changes only the request in flight keeps the type.           *)
LEMMA QuietType ==
    ASSUME TypeOK, NEW r \in Requests, NEW request \in AnyRequest,
           Become(r, request),
           UNCHANGED <<now, tables, generated, claimed, mailed, clicks, effects>>
    PROVE  TypeOK'
  <1>1. req' \in [Requests -> AnyRequest]
    BY BecomeType
  <1> QED
    BY <1>1 DEF TypeOK, TokensTypeOK, tables

LEMMA BeginType ==
    ASSUME TypeOK, NEW r \in Requests,
           \/ \E u \in Users, e \in Emails : BeginResend(r, u, e)
           \/ \E u \in Users : BeginRequest(r, u)
           \/ \E u \in Users, e \in Emails : BeginUpdate(r, u, e)
           \/ \E t \in Tokens : BeginVerify(r, t)
    PROVE  TypeOK'
  <1>1. ASSUME NEW u \in Users, NEW e \in Emails, BeginResend(r, u, e)
        PROVE  TypeOK'
    <2>1. [pc |-> "revoke", user |-> u, to |-> e] \in AnyRequest
      BY DEF AnyRequest, SendRequest
    <2> QED
      BY <1>1, <2>1, QuietType DEF BeginResend
  <1>2. ASSUME NEW u \in Users, BeginRequest(r, u)
        PROVE  TypeOK'
    <2>1. user[u].email \in Emails
      BY DEF TypeOK, Profile
    <2>2. [pc |-> "revoke", user |-> u, to |-> user[u].email] \in AnyRequest
      BY <2>1 DEF AnyRequest, SendRequest
    <2> QED
      BY <1>2, <2>2, QuietType DEF BeginRequest
  <1>3. ASSUME NEW u \in Users, NEW e \in Emails, BeginUpdate(r, u, e)
        PROVE  TypeOK'
    <2> DEFINE label == IF e = user[u].email THEN "write" ELSE "checkFree"
    <2>1. user[u] \in Profile /\ label \in {"checkFree", "write"}
      BY DEF TypeOK
    <2>2. [pc |-> label, user |-> u, row |-> user[u], email |-> e]
             \in AnyRequest
      BY <2>1 DEF AnyRequest, UpdateRequest
    <2> QED
      BY <1>3, <2>2, QuietType DEF BeginUpdate
  <1>4. ASSUME NEW t \in Tokens, BeginVerify(r, t)
        PROVE  TypeOK'
    <2>1. [pc |-> "spend", tok |-> t] \in AnyRequest
      BY DEF AnyRequest, VerifyRequest
    <2> QED
      BY <1>4, <2>1, QuietType DEF BeginVerify
  <1> QED
    BY <1>1, <1>2, <1>3, <1>4

LEMMA CheckFreeType ==
    ASSUME TypeOK, NEW r \in Requests, CheckFree(r)
    PROVE  TypeOK'
  <1>1. req[r] \in UpdateRequest
    BY RequestKinds DEF CheckFree, At
  <1>2. CASE Goto(r, "write")
    <2>1. [req[r] EXCEPT !.pc = "write"] \in AnyRequest
      BY <1>1 DEF AnyRequest, UpdateRequest
    <2>2. Become(r, [req[r] EXCEPT !.pc = "write"])
      BY <1>2 DEF Goto, Become
    <2> QED
      BY <2>1, <2>2, QuietType DEF CheckFree
  <1>3. CASE Finish(r)
    BY <1>3, QuietType DEF CheckFree, Finish, AnyRequest
  <1> QED
    BY <1>2, <1>3 DEF CheckFree

LEMMA InsertTokenType ==
    ASSUME TypeOK, NEW r \in Requests, InsertToken(r)
    PROVE  TypeOK'
  <1> DEFINE t == req[r].tok
             row == Inserted(req[r].user, req[r].expiresAt)
  <1>1. req[r] \in CreateRequest
    BY RequestKinds DEF InsertToken, At
  <1>2. row \in TokenRow
    BY <1>1 DEF CreateRequest, Inserted, TokenRow
  <1>3. token' = [x \in Tokens |->
                    IF x = t THEN row
                    ELSE IF x \in req[r].seen /\ Active(x)
                         THEN [token[x] EXCEPT !.consumed = TRUE]
                         ELSE token[x]]
    BY DEF InsertToken, RevokeAndCreate
  <1>4. \A x \in Tokens : token[x] # NoToken =>
           [token[x] EXCEPT !.consumed = TRUE] \in TokenRow
    BY DEF TypeOK, TokensTypeOK, TokenRow
  <1>5. token' \in [Tokens -> TokenRow \cup {NoToken}]
    BY <1>2, <1>3, <1>4 DEF TypeOK, TokensTypeOK, Active
  <1>6. req' \in [Requests -> AnyRequest]
    <2>1. [req[r] EXCEPT !.pc = "mail"] \in AnyRequest
      BY <1>1 DEF AnyRequest, CreateRequest
    <2>2. Become(r, [req[r] EXCEPT !.pc = "mail"])
      BY DEF InsertToken, Goto, Become
    <2> QED
      BY <2>1, <2>2, BecomeType
  <1> QED
    BY <1>5, <1>6 DEF InsertToken, TypeOK, TokensTypeOK

LEMMA SendMailType ==
    ASSUME TypeOK, NEW r \in Requests, SendMail(r)
    PROVE  TypeOK'
  <1>1. req[r] \in CreateRequest
    BY RequestKinds DEF SendMail, At
  <1>2. mailed' \in [Tokens -> Emails \cup {Nowhere}]
    BY <1>1 DEF SendMail, CreateRequest, TypeOK
  <1>3. req' \in [Requests -> AnyRequest]
    BY BecomeType DEF SendMail, Finish, AnyRequest
  <1> QED
    BY <1>2, <1>3 DEF SendMail, TypeOK, TokensTypeOK, tables

LEMMA WriteProfileType ==
    ASSUME TypeOK, NEW r \in Requests, WriteProfile(r)
    PROVE  TypeOK'
  <1>1. req[r] \in UpdateRequest
    BY RequestKinds DEF WriteProfile, At
  <1>2. req[r].user \in Users /\ req[r].email \in Emails
    BY <1>1 DEF UpdateRequest
  <1>3. user' \in [Users -> Profile]
    <2>1. (req[r].row.verified /\ ~ ChangesEmail(r)) \in BOOLEAN
      BY <1>1 DEF UpdateRequest, Profile, ChangesEmail
    <2>2. [email |-> req[r].email,
           verified |-> req[r].row.verified /\ ~ ChangesEmail(r)] \in Profile
      BY <1>2, <2>1 DEF Profile
    <2> QED
      BY <2>2 DEF WriteProfile, TypeOK
  <1>4. req' \in [Requests -> AnyRequest]
    <2>1. [pc |-> "revoke", user |-> req[r].user, to |-> req[r].email]
             \in AnyRequest
      BY <1>2 DEF AnyRequest, SendRequest
    <2>2. Idle \in AnyRequest
      BY DEF AnyRequest
    <2> QED
      BY <2>1, <2>2, BecomeType DEF WriteProfile, Finish
  <1> QED
    BY <1>3, <1>4 DEF WriteProfile, TypeOK, TokensTypeOK

(* Every step keeps the type.                                               *)
LEMMA TypeStep == TypeOK /\ [Next]_vars => TypeOK'
  <1> SUFFICES ASSUME TypeOK, [Next]_vars PROVE TypeOK'
    OBVIOUS
  <1>1. ASSUME NEW r \in Requests, Step(r) PROVE TypeOK'
    <2>1. Fail(r) => TypeOK'
      BY QuietType DEF Fail, Finish, AnyRequest
    <2> QED
      BY <1>1, <2>1, BeginType, RevokeActiveType, InsertTokenType,
         SendMailType, CheckFreeType, WriteProfileType, SpendTokenType
      DEF Step
  <1>2. ASSUME NEW u \in Users, MintClaims(u) PROVE TypeOK'
    <2>1. user[u].email \in Emails
      BY DEF TypeOK, Profile
    <2>2. claimed' \in [Users -> SUBSET Emails]
      BY <1>2, <2>1 DEF MintClaims, TypeOK
    <2> QED
      BY <1>2, <2>2 DEF MintClaims, TypeOK, TokensTypeOK, tables
  <1>3. CASE Tick
    BY <1>3 DEF Tick, TypeOK, TokensTypeOK, tables
  <1>4. CASE UNCHANGED vars
    BY <1>4 DEF vars, tables, TypeOK, TokensTypeOK
  <1> QED
    BY <1>1, <1>2, <1>3, <1>4 DEF Next

-----------------------------------------------------------------------------
(* The token table.                                                         *)
TokensInv == InsertFresh /\ InsertDistinct /\ RowsGenerated /\ OneActive

(* A step that draws no token, inserts none and lets no request reach the   *)
(* insert keeps the invariant of the table; it may end requests and consume *)
(* tokens.                                                                  *)
LEMMA TokensInvKept ==
    ASSUME TypeOK, TypeOK', TokensInv,
           UNCHANGED generated,
           \A t \in Tokens : /\ (token'[t] = NoToken) <=> (token[t] = NoToken)
                             /\ token[t] # NoToken =>
                                   token'[t].user = token[t].user
                             /\ Active(t)' => Active(t),
           \A r \in Requests : At(r, "insert")' =>
               At(r, "insert") /\ req'[r] = req[r]
    PROVE  TokensInv'
  <1>1. ASSUME NEW r \in Requests, At(r, "insert")'
        PROVE  /\ At(r, "insert")
               /\ req'[r] = req[r]
               /\ req[r].tok \in Tokens /\ req[r].seen \subseteq Tokens
    BY <1>1, RequestKinds DEF At, CreateRequest
  <1>2. InsertFresh'
    BY <1>1 DEF TokensInv, InsertFresh
  <1>3. InsertDistinct'
    BY <1>1 DEF TokensInv, InsertDistinct
  <1>4. RowsGenerated'
    BY DEF TokensInv, RowsGenerated
  <1>5. OneActive'
    BY DEF TokensInv, OneActive, Active
  <1> QED
    BY <1>2, <1>3, <1>4, <1>5 DEF TokensInv

(* Drawing a token and reading the active ones.                             *)
LEMMA TokensInvRevokeActive ==
    ASSUME TypeOK, TokensInv, NEW r \in Requests, NEW t \in Tokens,
           RevokeActive(r, t)
    PROVE  TokensInv'
  <1> DEFINE u == req[r].user
             new == [pc |-> "insert", user |-> u, to |-> req[r].to, tok |-> t,
                     expiresAt |-> Expiry, seen |-> ActiveOf(u)]
  <1>1. /\ req' = [req EXCEPT ![r] = new]
        /\ t \notin generated /\ generated' = generated \cup {t}
        /\ token' = token
    BY DEF RevokeActive, Become, Draw, tables
  <1>2. req'[r] = new /\ \A q \in Requests \ {r} : req'[q] = req[q]
    BY <1>1 DEF TypeOK
  <1>3. token[t] = NoToken
    BY <1>1 DEF TokensInv, RowsGenerated
  <1>4. InsertFresh'
    <2> SUFFICES ASSUME NEW q \in Requests, At(q, "insert")'
                 PROVE  /\ req'[q].tok \in generated'
                        /\ token'[req'[q].tok] = NoToken
                        /\ \A x \in req'[q].seen :
                              token'[x] # NoToken /\ token'[x].user = req'[q].user
      BY DEF InsertFresh
    <2>1. CASE q = r
      BY <1>1, <1>2, <1>3, <2>1 DEF ActiveOf, Active
    <2>2. CASE q # r
      BY <1>1, <1>2, <2>2 DEF TokensInv, InsertFresh, At
    <2> QED
      BY <2>1, <2>2
  <1>5. InsertDistinct'
    <2> SUFFICES ASSUME NEW p \in Requests, NEW q \in Requests,
                        At(p, "insert")', At(q, "insert")', p # q
                 PROVE  req'[p].tok # req'[q].tok
      BY DEF InsertDistinct
    <2>1. \A x \in Requests \ {r} : At(x, "insert")' =>
             /\ At(x, "insert") /\ req'[x].tok = req[x].tok
             /\ req[x].tok # t
      BY <1>1, <1>2 DEF TokensInv, InsertFresh, At
    <2>2. req'[r].tok = t
      BY <1>2
    <2> QED
      BY <2>1, <2>2 DEF TokensInv, InsertDistinct
  <1>6. RowsGenerated'
    BY <1>1 DEF TokensInv, RowsGenerated
  <1>7. OneActive'
    BY <1>1 DEF TokensInv, OneActive, Active
  <1> QED
    BY <1>4, <1>5, <1>6, <1>7 DEF TokensInv

(* What the transaction leaves of each row: the new token, and of the other *)
(* ones those of other users as they were and none of this user active.     *)
LEMMA InsertTokenRows ==
    ASSUME TypeOK, TokensInv, NEW r \in Requests, InsertToken(r)
    PROVE  LET t == req[r].tok
               u == req[r].user
           IN  /\ t \in Tokens /\ t \in generated /\ token[t] = NoToken
               /\ u \in Users
               /\ token'[t] # NoToken /\ token'[t].user = u
               /\ ~ token'[t].consumed
               /\ \A x \in Tokens \ {t} :
                     /\ (token'[x] = NoToken) <=> (token[x] = NoToken)
                     /\ token[x] # NoToken => token'[x].user = token[x].user
                     /\ Active(x)' <=> Active(x) /\ token[x].user # u
  <1> DEFINE t == req[r].tok
             u == req[r].user
             seen == req[r].seen
             row == Inserted(u, req[r].expiresAt)
  <1>1. /\ t \in Tokens /\ u \in Users /\ seen \subseteq Tokens
    BY RequestKinds DEF InsertToken, At, CreateRequest
  <1>2. /\ t \in generated /\ token[t] = NoToken
        /\ \A x \in seen : token[x] # NoToken /\ token[x].user = u
    BY DEF InsertToken, TokensInv, InsertFresh
  <1>3. /\ ActiveOf(u) \subseteq seen
        /\ token' = [x \in Tokens |->
                       IF x = t THEN row
                       ELSE IF x \in seen /\ Active(x)
                            THEN [token[x] EXCEPT !.consumed = TRUE]
                            ELSE token[x]]
    BY DEF InsertToken, RevokeAndCreate
  <1>4. token'[t] = row /\ row # NoToken /\ row.user = u /\ row.consumed = FALSE
    BY <1>1, <1>3 DEF Inserted, NoToken
  <1>5. ASSUME NEW x \in Tokens \ {t}
        PROVE  /\ (token'[x] = NoToken) <=> (token[x] = NoToken)
               /\ token[x] # NoToken => token'[x].user = token[x].user
               /\ Active(x)' <=> Active(x) /\ token[x].user # u
    <2>1. CASE x \in seen /\ Active(x)
      <3>1. token[x] \in TokenRow /\ token[x].user = u
        BY <1>2, <2>1 DEF TypeOK, TokensTypeOK, Active
      <3>2. token'[x] = [token[x] EXCEPT !.consumed = TRUE]
        BY <1>3, <2>1
      <3>3. token'[x] # NoToken /\ token'[x].user = u /\ token'[x].consumed = TRUE
        BY <3>1, <3>2 DEF TokenRow, NoToken
      <3> QED
        BY <2>1, <3>1, <3>3 DEF Active
    <2>2. CASE ~ (x \in seen /\ Active(x))
      <3>1. token'[x] = token[x]
        BY <1>3, <2>2
      <3>2. Active(x) => token[x].user # u
        BY <1>3, <2>2 DEF ActiveOf
      <3> QED
        BY <3>1, <3>2 DEF Active
    <2> QED
      BY <2>1, <2>2
  <1>6. token'[t] # NoToken /\ token'[t].user = u
        /\ ~ token'[t].consumed
    BY <1>4
  <1> QED
    BY <1>1, <1>2, <1>5, <1>6

LEMMA TokensInvInsertToken ==
    ASSUME TypeOK, TokensInv, NEW r \in Requests, InsertToken(r)
    PROVE  TokensInv'
  <1> DEFINE t == req[r].tok
             u == req[r].user
  <1>1. /\ t \in Tokens /\ t \in generated /\ token[t] = NoToken
        /\ u \in Users
        /\ token'[t] # NoToken /\ token'[t].user = u
        /\ ~ token'[t].consumed
        /\ \A x \in Tokens \ {t} :
              /\ (token'[x] = NoToken) <=> (token[x] = NoToken)
              /\ token[x] # NoToken => token'[x].user = token[x].user
              /\ Active(x)' <=> Active(x) /\ token[x].user # u
    BY InsertTokenRows
  <1>2. generated' = generated
    BY DEF InsertToken
  <1>3. \A q \in Requests : At(q, "insert")' =>
           q # r /\ At(q, "insert") /\ req'[q] = req[q]
    BY DEF InsertToken, Goto, At, TypeOK
  <1>4. ASSUME NEW q \in Requests, At(q, "insert")'
        PROVE  /\ req[q].tok \in generated /\ req[q].tok # t
               /\ req[q].tok \in Tokens /\ token[req[q].tok] = NoToken
               /\ req[q].seen \subseteq Tokens \ {t}
               /\ \A x \in req[q].seen :
                     token[x] # NoToken /\ token[x].user = req[q].user
    <2>1. At(q, "insert") /\ q # r /\ At(r, "insert")
      BY <1>3, <1>4 DEF InsertToken
    <2>2. req[q].tok \in Tokens /\ req[q].seen \subseteq Tokens
      BY <2>1, RequestKinds DEF At, CreateRequest
    <2> QED
      BY <1>1, <2>1, <2>2 DEF TokensInv, InsertFresh, InsertDistinct
  <1>5. InsertFresh'
    BY <1>1, <1>2, <1>3, <1>4 DEF InsertFresh
  <1>6. InsertDistinct'
    BY <1>3 DEF TokensInv, InsertDistinct
  <1>7. RowsGenerated'
    BY <1>1, <1>2 DEF TokensInv, RowsGenerated
  <1>8. OneActive'
    <2>1. \A x \in Tokens \ {t} : Active(x)' => 
             Active(x) /\ token[x].user # u /\ token'[x].user = token[x].user
      BY <1>1 DEF Active
    <2> QED
      BY <1>1, <2>1 DEF TokensInv, OneActive
  <1> QED
    BY <1>5, <1>6, <1>7, <1>8 DEF TokensInv

LEMMA TokensInvSpendToken ==
    ASSUME TypeOK, TypeOK', TokensInv, NEW r \in Requests, SpendToken(r)
    PROVE  TokensInv'
  <1> DEFINE t == req[r].tok
  <1>1. t \in Tokens
    BY RequestKinds DEF SpendToken, VerifyRequest
  <1>2. token[t] \in TokenRow /\ token[t].consumed = FALSE
    BY <1>1 DEF SpendToken, MarkConsumed, Active, TypeOK, TokensTypeOK, TokenRow
  <1>3. token' = [token EXCEPT ![t] = [token[t] EXCEPT !.consumed = TRUE]]
    BY DEF SpendToken, MarkConsumed
  <1>4. /\ token'[t] # NoToken /\ token'[t].user = token[t].user
        /\ token'[t].consumed = TRUE
        /\ \A x \in Tokens \ {t} : token'[x] = token[x]
    BY <1>1, <1>2, <1>3 DEF TypeOK, TokensTypeOK, TokenRow, NoToken
  <1>5. \A x \in Tokens : /\ (token'[x] = NoToken) <=> (token[x] = NoToken)
                          /\ token[x] # NoToken =>
                                token'[x].user = token[x].user
                          /\ Active(x)' => Active(x)
    BY <1>2, <1>4 DEF Active, TokenRow, NoToken
  <1>6. \A q \in Requests : At(q, "insert")' =>
           At(q, "insert") /\ req'[q] = req[q]
    BY DEF SpendToken, Finish, Become, Idle, At, TypeOK
  <1>7. generated' = generated
    BY DEF SpendToken
  <1> QED
    BY <1>5, <1>6, <1>7, TokensInvKept

(* A step that leaves the tables of tokens alone and makes a request that   *)
(* is not about to insert.                                                  *)
LEMMA TokensInvQuiet ==
    ASSUME TypeOK, TypeOK', TokensInv, UNCHANGED <<token, generated>>,
           NEW r \in Requests, NEW request, Become(r, request),
           request.pc # "insert"
    PROVE  TokensInv'
  <1>1. \A q \in Requests : At(q, "insert")' =>
           At(q, "insert") /\ req'[q] = req[q]
    BY DEF Become, At, TypeOK
  <1>2. \A x \in Tokens : Active(x)' <=> Active(x)
    BY DEF Active
  <1> QED
    BY <1>1, <1>2, TokensInvKept

LEMMA TokensStep == TypeOK /\ TokensInv /\ [Next]_vars => TokensInv'
  <1> SUFFICES ASSUME TypeOK, TokensInv, [Next]_vars PROVE TokensInv'
    OBVIOUS
  <1>0. TypeOK'
    BY TypeStep
  <1>1. ASSUME NEW r \in Requests, Step(r) PROVE TokensInv'
    <2>1. ASSUME NEW u \in Users, NEW e \in Emails,
                 BeginResend(r, u, e) \/ BeginUpdate(r, u, e)
          PROVE  TokensInv'
      <3>1. CASE BeginResend(r, u, e)
        BY <1>0, <3>1, TokensInvQuiet DEF BeginResend, tables
      <3>2. CASE BeginUpdate(r, u, e)
        BY <1>0, <3>2, TokensInvQuiet DEF BeginUpdate, tables
      <3> QED
        BY <2>1, <3>1, <3>2
    <2>2. ASSUME NEW u \in Users, BeginRequest(r, u) PROVE TokensInv'
      BY <1>0, <2>2, TokensInvQuiet DEF BeginRequest, tables
    <2>3. ASSUME NEW t \in Tokens, BeginVerify(r, t) PROVE TokensInv'
      BY <1>0, <2>3, TokensInvQuiet DEF BeginVerify, tables
    <2>4. CASE SendMail(r)
      BY <1>0, <2>4, TokensInvQuiet DEF SendMail, Finish, Idle, tables
    <2>5. CASE CheckFree(r)
      <3>1. CASE Finish(r)
        BY <1>0, <2>5, <3>1, TokensInvQuiet DEF CheckFree, Finish, Idle, tables
      <3>2. CASE Goto(r, "write")
        <4>1. Become(r, [req[r] EXCEPT !.pc = "write"])
          BY <3>2 DEF Goto, Become
        <4>2. [req[r] EXCEPT !.pc = "write"].pc # "insert"
          BY <2>5, RequestKinds DEF CheckFree, At, UpdateRequest
        <4> QED
          BY <1>0, <2>5, <4>1, <4>2, TokensInvQuiet DEF CheckFree, tables
      <3> QED
        BY <2>5, <3>1, <3>2 DEF CheckFree
    <2>6. CASE WriteProfile(r)
      <3>1. CASE Finish(r)
        BY <1>0, <2>6, <3>1, TokensInvQuiet DEF WriteProfile, Finish, Idle
      <3>2. CASE Become(r, [pc |-> "revoke", user |-> req[r].user,
                            to |-> req[r].email])
        BY <1>0, <2>6, <3>2, TokensInvQuiet DEF WriteProfile
      <3> QED
        BY <2>6, <3>1, <3>2 DEF WriteProfile
    <2>7. CASE Fail(r)
      BY <1>0, <2>7, TokensInvQuiet DEF Fail, Finish, Idle, tables
    <2> QED
      BY <1>0, <1>1, <2>1, <2>2, <2>3, <2>4, <2>5, <2>6, <2>7,
         TokensInvRevokeActive, TokensInvInsertToken, TokensInvSpendToken
      DEF Step
  <1>2. CASE \/ \E u \in Users : MintClaims(u)
             \/ Tick
             \/ UNCHANGED vars
    <2>1. UNCHANGED <<token, generated, req>>
      BY <1>2 DEF MintClaims, Tick, vars, tables
    <2>2. \A x \in Tokens : Active(x)' <=> Active(x)
      BY <2>1 DEF Active
    <2>3. \A q \in Requests : At(q, "insert")' <=> At(q, "insert")
      BY <2>1 DEF At
    <2> QED
      BY <1>0, <2>1, <2>2, <2>3, TokensInvKept
  <1> QED
    BY <1>1, <1>2 DEF Next

-----------------------------------------------------------------------------
(* The flag and its history.                                                *)
FlagInv == VerifiedByClick /\ SnapshotsClicked

(* A request that carries no profile row, or one just read, is harmless as  *)
(* long as the profiles and the history stay.                               *)
LEMMA FlagInvQuiet ==
    ASSUME TypeOK, FlagInv, UNCHANGED <<user, clicks>>,
           NEW r \in Requests, NEW request, Become(r, request),
           request.pc \in {"checkFree", "write"} =>
               (request.row.verified =>
                   ClickedUnder(request.user, request.row.email))
    PROVE  FlagInv'
  <1>1. req'[r] = request /\ \A q \in Requests \ {r} : req'[q] = req[q]
    BY DEF Become, TypeOK
  <1>2. VerifiedByClick'
    BY DEF FlagInv, VerifiedByClick, ClickedUnder
  <1>3. SnapshotsClicked'
    <2> SUFFICES ASSUME NEW q \in Requests,
                        req'[q].pc \in {"checkFree", "write"},
                        req'[q].row.verified
                 PROVE  ClickedUnder(req'[q].user, req'[q].row.email)
      BY DEF SnapshotsClicked, ClickedUnder
    <2> QED
      BY <1>1 DEF FlagInv, SnapshotsClicked
  <1> QED
    BY <1>2, <1>3 DEF FlagInv

LEMMA FlagInvWriteProfile ==
    ASSUME TypeOK, FlagInv, NEW r \in Requests, WriteProfile(r)
    PROVE  FlagInv'
  <1> DEFINE u == req[r].user
             new == [email |-> req[r].email,
                     verified |-> req[r].row.verified /\ ~ ChangesEmail(r)]
  <1>1. req[r] \in UpdateRequest /\ u \in Users
    BY RequestKinds DEF WriteProfile, At, UpdateRequest
  <1>2. /\ user' = [user EXCEPT ![u] = new]
        /\ clicks' = clicks
    BY DEF WriteProfile
  <1>3. user'[u] = new /\ \A v \in Users \ {u} : user'[v] = user[v]
    BY <1>1, <1>2 DEF TypeOK
  <1>4. new.verified => ClickedUnder(u, new.email)
    <2> SUFFICES ASSUME req[r].row.verified, ~ ChangesEmail(r)
                 PROVE  ClickedUnder(u, req[r].email)
      OBVIOUS
    <2>1. ClickedUnder(u, req[r].row.email)
      BY DEF FlagInv, SnapshotsClicked, WriteProfile, At
    <2> QED
      BY <2>1 DEF ChangesEmail
  <1>5. VerifiedByClick'
    <2> SUFFICES ASSUME NEW v \in Users, user'[v].verified
                 PROVE  ClickedUnder(v, user'[v].email)
      BY <1>2 DEF VerifiedByClick, ClickedUnder
    <2>1. CASE v = u
      BY <1>3, <1>4, <2>1
    <2>2. CASE v # u
      BY <1>3, <2>2 DEF FlagInv, VerifiedByClick
    <2> QED
      BY <2>1, <2>2
  <1>6. SnapshotsClicked'
    <2>1. /\ req'[r].pc \notin {"checkFree", "write"}
          /\ \A q \in Requests \ {r} : req'[q] = req[q]
      BY DEF WriteProfile, Finish, Become, Idle, TypeOK
    <2> SUFFICES ASSUME NEW q \in Requests,
                        req'[q].pc \in {"checkFree", "write"},
                        req'[q].row.verified
                 PROVE  ClickedUnder(req'[q].user, req'[q].row.email)
      BY <1>2 DEF SnapshotsClicked, ClickedUnder
    <2> QED
      BY <2>1 DEF FlagInv, SnapshotsClicked
  <1> QED
    BY <1>5, <1>6 DEF FlagInv

LEMMA FlagInvSpendToken ==
    ASSUME TypeOK, FlagInv, NEW r \in Requests, SpendToken(r)
    PROVE  FlagInv'
  <1> DEFINE t == req[r].tok
             u == token[t].user
             click == [user |-> u, current |-> user[u].email]
  <1>1. t \in Tokens /\ token[t] \in TokenRow
    <2>1. t \in Tokens
      BY RequestKinds DEF SpendToken, VerifyRequest
    <2> QED
      BY <2>1 DEF SpendToken, MarkConsumed, Active, TypeOK, TokensTypeOK
  <1>2. u \in Users /\ user[u] \in Profile
    BY <1>1 DEF TokenRow, TypeOK
  <1>3. /\ user' = [user EXCEPT ![u] = [user[u] EXCEPT !.verified = TRUE]]
        /\ clicks' = clicks \cup {click}
    BY DEF SpendToken
  <1>4. /\ user'[u].email = user[u].email
        /\ \A v \in Users \ {u} : user'[v] = user[v]
    BY <1>2, <1>3 DEF TypeOK, Profile
  <1>5. \A v, e : ClickedUnder(v, e) =>
           \E c \in clicks' : c.user = v /\ c.current = e
    BY <1>3 DEF ClickedUnder
  <1>6. \E c \in clicks' : c.user = u /\ c.current = user[u].email
    <2>1. click \in clicks'
      BY <1>3
    <2>2. click.user = u /\ click.current = user[u].email
      OBVIOUS
    <2> HIDE DEF click
    <2> QED
      BY <2>1, <2>2
  <1>7. VerifiedByClick'
    <2> SUFFICES ASSUME NEW v \in Users, user'[v].verified
                 PROVE  \E c \in clicks' : /\ c.user = v
                                           /\ c.current = user'[v].email
      BY DEF VerifiedByClick, ClickedUnder
    <2>1. CASE v = u
      BY <1>4, <1>6, <2>1
    <2>2. CASE v # u
      BY <1>4, <1>5, <2>2 DEF FlagInv, VerifiedByClick
    <2> QED
      BY <2>1, <2>2
  <1>8. SnapshotsClicked'
    <2>1. /\ req'[r].pc \notin {"checkFree", "write"}
          /\ \A q \in Requests \ {r} : req'[q] = req[q]
      BY DEF SpendToken, Finish, Become, Idle, TypeOK
    <2> SUFFICES ASSUME NEW q \in Requests,
                        req'[q].pc \in {"checkFree", "write"},
                        req'[q].row.verified
                 PROVE  \E c \in clicks' : /\ c.user = req'[q].user
                                           /\ c.current = req'[q].row.email
      BY DEF SnapshotsClicked, ClickedUnder
    <2> QED
      BY <1>5, <2>1 DEF FlagInv, SnapshotsClicked
  <1> QED
    BY <1>7, <1>8 DEF FlagInv

LEMMA FlagStep == TypeOK /\ FlagInv /\ [Next]_vars => FlagInv'
  <1> SUFFICES ASSUME TypeOK, FlagInv, [Next]_vars PROVE FlagInv'
    OBVIOUS
  <1>1. ASSUME NEW r \in Requests, Step(r) PROVE FlagInv'
    <2>1. ASSUME NEW u \in Users, NEW e \in Emails, BeginResend(r, u, e)
          PROVE  FlagInv'
      BY <2>1, FlagInvQuiet DEF BeginResend, tables
    <2>2. ASSUME NEW u \in Users, BeginRequest(r, u) PROVE FlagInv'
      BY <2>2, FlagInvQuiet DEF BeginRequest, tables
    <2>3. ASSUME NEW u \in Users, NEW e \in Emails, BeginUpdate(r, u, e)
          PROVE  FlagInv'
      <3>1. user[u].verified => ClickedUnder(u, user[u].email)
        BY DEF FlagInv, VerifiedByClick
      <3> QED
        BY <2>3, <3>1, FlagInvQuiet DEF BeginUpdate, tables
    <2>4. ASSUME NEW t \in Tokens, BeginVerify(r, t) PROVE FlagInv'
      BY <2>4, FlagInvQuiet DEF BeginVerify, tables
    <2>5. ASSUME NEW t \in Tokens, RevokeActive(r, t) PROVE FlagInv'
      BY <2>5, FlagInvQuiet DEF RevokeActive, tables
    <2>6. CASE InsertToken(r)
      <3>1. Become(r, [req[r] EXCEPT !.pc = "mail"])
        BY <2>6 DEF InsertToken, Goto, Become
      <3>2. [req[r] EXCEPT !.pc = "mail"].pc = "mail"
        BY <2>6, RequestKinds DEF InsertToken, At, CreateRequest
      <3> QED
        BY <2>6, <3>1, <3>2, FlagInvQuiet DEF InsertToken
    <2>7. CASE SendMail(r)
      BY <2>7, FlagInvQuiet DEF SendMail, Finish, Idle, tables
    <2>8. CASE CheckFree(r)
      <3>1. CASE Finish(r)
        BY <2>8, <3>1, FlagInvQuiet DEF CheckFree, Finish, Idle, tables
      <3>2. CASE Goto(r, "write")
        <4> DEFINE request == [req[r] EXCEPT !.pc = "write"]
        <4>1. Become(r, request)
          BY <3>2 DEF Goto, Become
        <4>2. request.user = req[r].user /\ request.row = req[r].row
          BY <2>8, RequestKinds DEF CheckFree, At, UpdateRequest
        <4>3. req[r].row.verified => ClickedUnder(req[r].user, req[r].row.email)
          BY <2>8 DEF CheckFree, At, FlagInv, SnapshotsClicked
        <4> QED
          BY <2>8, <4>1, <4>2, <4>3, FlagInvQuiet DEF CheckFree, tables
      <3> QED
        BY <2>8, <3>1, <3>2 DEF CheckFree
    <2>9. CASE Fail(r)
      BY <2>9, FlagInvQuiet DEF Fail, Finish, Idle, tables
    <2> QED
      BY <1>1, <2>1, <2>2, <2>3, <2>4, <2>5, <2>6, <2>7, <2>8, <2>9,
         FlagInvWriteProfile, FlagInvSpendToken
      DEF Step
  <1>2. CASE \/ \E u \in Users : MintClaims(u)
             \/ Tick
             \/ UNCHANGED vars
    <2>1. UNCHANGED <<user, clicks, req>>
      BY <1>2 DEF MintClaims, Tick, vars, tables
    <2> QED
      BY <2>1 DEF FlagInv, VerifiedByClick, SnapshotsClicked, ClickedUnder
  <1> QED
    BY <1>1, <1>2 DEF Next

(* Only a profile update takes the flag away.                               *)
LEMMA LostToUpdateStep == TypeOK /\ [Next]_vars => LostToUpdate
  <1> SUFFICES ASSUME TypeOK, [Next]_vars,
                      NEW v \in Users, user[v].verified, ~ user'[v].verified
               PROVE  \E r \in Requests :
                         /\ At(r, "write") /\ ~ At(r, "write")'
                         /\ req[r].user = v
                         /\ ChangesEmail(r) \/ ~ req[r].row.verified
    BY DEF LostToUpdate
  <1>1. PICK r \in Requests : WriteProfile(r) \/ SpendToken(r)
    BY DEF Next, Step, vars, tables, MintClaims, Tick, BeginResend,
           BeginRequest, RevokeActive, BeginVerify, InsertToken, SendMail,
           BeginUpdate, CheckFree, Fail
  <1>2. CASE WriteProfile(r)
    <2> DEFINE new == [email |-> req[r].email,
                       verified |-> req[r].row.verified /\ ~ ChangesEmail(r)]
    <2>1. /\ user' = [user EXCEPT ![req[r].user] = new]
          /\ At(r, "write")
      BY <1>2 DEF WriteProfile
    <2>2. req[r].user = v /\ user'[v] = new
      BY <2>1 DEF TypeOK
    <2>3. ~ At(r, "write")'
      BY <1>2 DEF WriteProfile, At, Finish, Become, Idle, TypeOK
    <2>4. ~ new.verified
      BY <2>2
    <2>5. ChangesEmail(r) \/ ~ req[r].row.verified
      BY <2>4
    <2> QED
      BY <2>1, <2>2, <2>3, <2>5
  <1>3. CASE SpendToken(r)
    <2> DEFINE u == token[req[r].tok].user
    <2>1. user' = [user EXCEPT ![u] = [user[u] EXCEPT !.verified = TRUE]]
      BY <1>3 DEF SpendToken
    <2>2. v = u => user'[v].verified = TRUE
      BY <2>1 DEF TypeOK, Profile
    <2>3. v # u => user'[v] = user[v]
      BY <2>1 DEF TypeOK
    <2> QED
      BY <2>2, <2>3
  <1> QED
    BY <1>1, <1>2, <1>3

-----------------------------------------------------------------------------
(* The refinement.                                                          *)
abstractLive == [u \in Users |-> ActiveOf(u)]
abstractCreated == {t \in Tokens : token[t] # NoToken}

LEMMA InsertTokenCreates ==
    ASSUME TypeOK, TokensInv, NEW r \in Requests, InsertToken(r)
    PROVE  \E v \in Users, x \in Tokens : Link!Create(v, x)
  <1>a. PICK t \in Tokens, u \in Users : t = req[r].tok /\ u = req[r].user
    BY RequestKinds DEF InsertToken, At, CreateRequest
  <1>1. /\ t \in Tokens /\ t \in generated /\ token[t] = NoToken
        /\ u \in Users
        /\ token'[t] # NoToken /\ token'[t].user = u
        /\ ~ token'[t].consumed
        /\ \A x \in Tokens \ {t} :
              /\ (token'[x] = NoToken) <=> (token[x] = NoToken)
              /\ token[x] # NoToken => token'[x].user = token[x].user
              /\ Active(x)' <=> Active(x) /\ token[x].user # u
    BY <1>a, InsertTokenRows
  <1>2. abstractCreated' = abstractCreated \cup {t}
    BY <1>1 DEF abstractCreated
  <1>3. t \notin abstractCreated
    BY <1>1 DEF abstractCreated
  <1>4. ASSUME NEW v \in Users, NEW x \in Tokens
        PROVE  (x \in ActiveOf(v))' <=> IF v = u THEN x = t ELSE x \in ActiveOf(v)
    <2>1. CASE x = t
      <3>1. ~ Active(t)
        BY <1>1 DEF Active
      <3>2. (x \in ActiveOf(v))' <=> v = u
        BY <1>1, <2>1 DEF ActiveOf, Active
      <3> QED
        BY <2>1, <3>1, <3>2 DEF ActiveOf
    <2>2. CASE x # t
      <3>1. Active(x) => token'[x].user = token[x].user
        BY <1>1, <2>2 DEF Active
      <3> QED
        BY <1>1, <2>2, <3>1 DEF ActiveOf
    <2> QED
      BY <2>1, <2>2
  <1>5. abstractLive' = [abstractLive EXCEPT ![u] = {t}]
    <2>1. \A v \in Users : ActiveOf(v)' = IF v = u THEN {t} ELSE ActiveOf(v)
      BY <1>1, <1>4 DEF ActiveOf
    <2> QED
      BY <1>1, <2>1 DEF abstractLive
  <1>6. effects' = effects
    BY DEF InsertToken
  <1>7. Link!Create(u, t)
    BY <1>1, <1>2, <1>3, <1>5, <1>6
    DEF Link!Create, abstractLive, abstractCreated
  <1> QED
    BY <1>1, <1>7

LEMMA SpendTokenUses ==
    ASSUME TypeOK, TokensInv, NEW r \in Requests, SpendToken(r)
    PROVE  \E u \in Users, t \in Tokens : Link!Use(u, t)
  <1>1. PICK t \in Tokens : t = req[r].tok
    BY RequestKinds DEF SpendToken, VerifyRequest
  <1>2. token[t] \in TokenRow /\ Active(t)
    BY <1>1 DEF SpendToken, MarkConsumed, Active, TypeOK, TokensTypeOK
  <1>3. PICK u \in Users : u = token[t].user
    BY <1>2 DEF TokenRow
  <1>4. /\ token' = [token EXCEPT ![t] = [token[t] EXCEPT !.consumed = TRUE]]
        /\ effects' = [effects EXCEPT ![t] = @ + 1]
    BY <1>1 DEF SpendToken, MarkConsumed
  <1>5. /\ token'[t] # NoToken /\ token'[t].consumed = TRUE
        /\ \A x \in Tokens \ {t} : token'[x] = token[x]
    BY <1>2, <1>4 DEF TypeOK, TokensTypeOK, TokenRow, NoToken
  <1>6. ASSUME NEW x \in Tokens
        PROVE  Active(x)' <=> Active(x) /\ x # t
    BY <1>5 DEF Active
  <1>7. \A x \in ActiveOf(u) : x = t
    BY <1>2, <1>3 DEF ActiveOf, TokensInv, OneActive
  <1>8. t \in ActiveOf(u)
    BY <1>2, <1>3 DEF ActiveOf
  <1>9. \A v \in Users : ActiveOf(v)' = IF v = u THEN {} ELSE ActiveOf(v)
    BY <1>3, <1>5, <1>6, <1>7 DEF ActiveOf
  <1>10. abstractLive' = [abstractLive EXCEPT ![u] = {}]
    BY <1>9 DEF abstractLive
  <1>11. abstractCreated' = abstractCreated
    BY <1>2, <1>5 DEF abstractCreated, Active
  <1>12. t \in abstractLive[u]
    BY <1>8 DEF abstractLive
  <1>13. Link!Use(u, t)
    BY <1>4, <1>10, <1>11, <1>12 DEF Link!Use, abstractLive, abstractCreated
  <1> QED
    BY <1>13

LEMMA RefinementStep ==
    TypeOK /\ TokensInv /\ [Next]_vars => [Link!Next]_(Link!linkVars)
  <1> SUFFICES ASSUME TypeOK, TokensInv, [Next]_vars
               PROVE  [Link!Next]_(Link!linkVars)
    OBVIOUS
  <1>1. CASE \E r \in Requests : InsertToken(r)
    BY <1>1, InsertTokenCreates DEF Link!Next
  <1>2. CASE \E r \in Requests : SpendToken(r)
    BY <1>2, SpendTokenUses DEF Link!Next
  <1>3. CASE ~ \E r \in Requests : InsertToken(r) \/ SpendToken(r)
    <2>1. token' = token /\ effects' = effects
      BY <1>3 DEF Next, Step, vars, tables, MintClaims, Tick, BeginResend,
             BeginRequest, RevokeActive, BeginVerify, SendMail, BeginUpdate,
             CheckFree, WriteProfile, Fail
    <2>2. \A u \in Users : ActiveOf(u)' = ActiveOf(u)
      BY <2>1 DEF ActiveOf, Active
    <2> QED
      BY <2>1, <2>2 DEF Link!linkVars
  <1> QED
    BY <1>1, <1>2, <1>3

LEMMA RefinementInit == Init => Link!Init
  BY DEF Init, TokensInit, Link!Init, ActiveOf, Active

-----------------------------------------------------------------------------
LEMMA InitInv == Init => TokensInv /\ FlagInv
  <1> SUFFICES ASSUME Init PROVE TokensInv /\ FlagInv
    OBVIOUS
  <1>1. \A r \in Requests : req[r].pc = "idle"
    BY DEF Init, Idle
  <1>2. \A t \in Tokens : token[t] = NoToken
    BY DEF Init, TokensInit
  <1>3. \A u \in Users : user[u].verified => ClickedUnder(u, user[u].email)
    <2> SUFFICES ASSUME NEW u \in Users, user[u].verified
                 PROVE  ClickedUnder(u, user[u].email)
      OBVIOUS
    <2>1. Vouched(u) \in clicks
      BY DEF Init
    <2> QED
      BY <2>1 DEF ClickedUnder, Vouched
  <1>4. InsertFresh /\ InsertDistinct /\ SnapshotsClicked
    BY <1>1 DEF InsertFresh, InsertDistinct, SnapshotsClicked, At
  <1>5. RowsGenerated /\ OneActive
    BY <1>2 DEF RowsGenerated, OneActive, Active
  <1>6. VerifiedByClick
    BY <1>3 DEF VerifiedByClick
  <1> QED
    BY <1>4, <1>5, <1>6 DEF TokensInv, FlagInv

(* The inductive invariant of the component holds in every reachable state. *)
THEOREM InvariantHolds == Spec => []EmailInv
  <1>1. Init => EmailInv
    BY InitType, InitInv DEF EmailInv, TokensInv, FlagInv
  <1>2. EmailInv /\ [Next]_vars => EmailInv'
    BY TypeStep, TokensStep, FlagStep DEF EmailInv, TokensInv, FlagInv
  <1> QED
    BY <1>1, <1>2, PTL DEF Spec

(* Profiles, requests, tokens and history keep their shape.                 *)
THEOREM TypeCorrect == Spec => []TypeOK
  <1>1. EmailInv => TypeOK
    BY DEF EmailInv
  <1> QED
    BY <1>1, InvariantHolds, PTL

(* UpdateMe and VerifyEmailToken: an account that says "verified" used a    *)
(* link while it had this address, whatever requests ran in between.        *)
THEOREM VerifiedByClickHolds == Spec => []VerifiedByClick
  <1>1. EmailInv => VerifiedByClick
    BY DEF EmailInv
  <1> QED
    BY <1>1, InvariantHolds, PTL

(* Only users.Update, from UpdateMe, takes the flag away.                   *)
THEOREM VerificationLostOnlyToUpdateHolds ==
    Spec => VerificationLostOnlyToUpdate
  <1>1. EmailInv /\ [Next]_vars => [LostToUpdate]_vars
    BY LostToUpdateStep DEF EmailInv
  <1> QED
    BY <1>1, InvariantHolds, PTL DEF Spec, VerificationLostOnlyToUpdate

(* createToken and VerifyEmailToken make every verification link a one-time *)
(* link (OneTimeLink).                                                      *)
THEOREM LinksAreOneTime == Spec => ImplementsOneTimeLink
  <1>1. EmailInv /\ [Next]_vars => [Link!Next]_(Link!linkVars)
    BY RefinementStep DEF EmailInv, TokensInv
  <1> QED
    BY <1>1, InvariantHolds, RefinementInit, PTL
    DEF Spec, ImplementsOneTimeLink, Link!Spec

-----------------------------------------------------------------------------
(* What the abstract link promises, read on the tables of the flow.         *)
LEMMA LinkInit == Link!Init => Link!LinkInv
  BY DEF Link!Init, Link!LinkInv, Link!TypeOK, Link!AtMostOnce

LEMMA LinkCreatePreserves ==
    ASSUME Link!LinkInv, NEW u \in Users, NEW t \in Tokens, Link!Create(u, t)
    PROVE  Link!LinkInv'
  <1>1. /\ abstractLive' = [abstractLive EXCEPT ![u] = {t}]
        /\ abstractCreated' = abstractCreated \cup {t}
        /\ effects' = effects
        /\ effects[t] = 0 /\ t \notin abstractCreated
    BY DEF Link!Create, Link!LinkInv, Link!TypeOK, abstractLive, abstractCreated
  <1>2. /\ abstractLive \in [Users -> SUBSET Tokens]
        /\ \A v \in Users : abstractLive'[v] = IF v = u THEN {t} ELSE abstractLive[v]
        /\ \A v \in Users : t \notin abstractLive[v]
    BY <1>1 DEF Link!LinkInv, Link!TypeOK, abstractLive, abstractCreated
  <1>3. Link!TypeOK'
    BY <1>1 DEF Link!LinkInv, Link!TypeOK, abstractLive, abstractCreated
  <1> QED
    BY <1>1, <1>2, <1>3 DEF Link!LinkInv, Link!TypeOK, Link!AtMostOnce,
       abstractLive, abstractCreated

LEMMA LinkUsePreserves ==
    ASSUME Link!LinkInv, NEW u \in Users, NEW t \in Tokens, Link!Use(u, t)
    PROVE  Link!LinkInv'
  <1>0. effects[t] = 0 /\ effects \in [Tokens -> Nat] /\ t \in abstractLive[u]
    BY DEF Link!Use, Link!LinkInv, Link!TypeOK, abstractLive
  <1>1. /\ abstractLive' = [abstractLive EXCEPT ![u] = {}]
        /\ abstractCreated' = abstractCreated
        /\ effects' = [effects EXCEPT ![t] = 0 + 1]
    BY <1>0 DEF Link!Use, abstractLive, abstractCreated
  <1>2. /\ abstractLive \in [Users -> SUBSET Tokens]
        /\ \A v \in Users : abstractLive'[v] = IF v = u THEN {} ELSE abstractLive[v]
        /\ \A v \in Users \ {u} : t \notin abstractLive[v]
        /\ t \in abstractCreated
    BY <1>0, <1>1 DEF Link!LinkInv, Link!TypeOK, abstractLive, abstractCreated
  <1>3. \A s \in Tokens : effects'[s] = IF s = t THEN 1 ELSE effects[s]
    BY <1>0, <1>1
  <1>4. Link!TypeOK'
    <2>1. abstractLive' \in [Users -> SUBSET Tokens]
      BY <1>1, <1>2
    <2>2. effects' \in [Tokens -> Nat]
      BY <1>0, <1>1
    <2> QED
      BY <2>1, <2>2 DEF Link!TypeOK, abstractLive
  <1>5. Link!AtMostOnce'
    <2>1. /\ \A v \in Users : \A x, y \in abstractLive[v] : x = y
          /\ \A x \in Tokens :
                /\ effects[x] <= 1
                /\ effects[x] = 1 => \A v \in Users : x \notin abstractLive[v]
      BY DEF Link!LinkInv, Link!AtMostOnce, abstractLive
    <2>2. /\ \A v \in Users : \A x, y \in abstractLive'[v] : x = y
          /\ \A x \in Tokens :
                /\ effects'[x] <= 1
                /\ effects'[x] = 1 => \A v \in Users : x \notin abstractLive'[v]
      BY <1>0, <1>2, <1>3, <2>1
    <2> QED
      BY <2>2 DEF Link!AtMostOnce, abstractLive
  <1>6. /\ \A v \in Users : abstractLive'[v] \subseteq abstractCreated'
        /\ \A s \in Tokens : effects'[s] # 0 => s \in abstractCreated'
        /\ \A v, w \in Users : v # w => abstractLive'[v] \cap abstractLive'[w] = {}
        /\ \A v \in Users : \A s \in abstractLive'[v] : effects'[s] = 0
    BY <1>0, <1>1, <1>2, <1>3 DEF Link!LinkInv, abstractLive, abstractCreated
  <1> QED
    BY <1>4, <1>5, <1>6 DEF Link!LinkInv, abstractLive, abstractCreated

(* Whatever creates and uses tokens as the abstract link does, a token takes*)
(* effect at most once and a user never has two live ones (OneTimeLink).    *)
THEOREM LinkTakesEffectOnce == Link!Spec => []Link!AtMostOnce
  <1>1. Link!LinkInv /\ [Link!Next]_(Link!linkVars) => Link!LinkInv'
    <2>1. Link!LinkInv /\ Link!Next => Link!LinkInv'
      BY LinkCreatePreserves, LinkUsePreserves DEF Link!Next
    <2>2. Link!LinkInv /\ UNCHANGED Link!linkVars => Link!LinkInv'
      BY DEF Link!linkVars, Link!LinkInv, Link!TypeOK, Link!AtMostOnce
    <2> QED
      BY <2>1, <2>2
  <1>2. Link!LinkInv => Link!AtMostOnce
    BY DEF Link!LinkInv
  <1> QED
    BY LinkInit, <1>1, <1>2, PTL DEF Link!Spec

(* A verification link, though its click is checked in one step and         *)
(* consumed in another, takes effect at most once, and a user never has two *)
(* that work (createToken, VerifyEmailToken).                               *)
THEOREM LinksTakeEffectOnce == Spec => []Link!AtMostOnce
  BY LinksAreOneTime, LinkTakesEffectOnce, PTL DEF ImplementsOneTimeLink
============================================================================
