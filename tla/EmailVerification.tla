------------------------ MODULE EmailVerification -------------------------
(* The address of an account and whether it is verified: VerifyEmailToken,  *)
(* the two requests that mail a verification link (email/handler.go) and    *)
(* the profile update that changes the address (me/handler.go). Requests    *)
(* run concurrently, one statement or committed transaction a step.         *)
EXTENDS VerificationTokens, FiniteSets

CONSTANTS Emails, Requests,
          Taken,    \* addresses of accounts that make no request here
          MaxNow    \* bound: the clock stops here

ASSUME EnoughEmails == Cardinality(Users) <= Cardinality(Emails \ Taken)

VARIABLES user,     \* email and email_verified of each row of users
          claimed,  \* addresses in access tokens that say "not verified"
          req,      \* the requests in flight
          mailed,   \* where the link with each token was sent
          clicks,   \* history: links used, with the address of the account then,
                    \* and the address of an account Google said was verified
          effects   \* history: how often a token verified an address

tables == <<user, token>>
vars == <<now, tables, generated, claimed, req, mailed, clicks, effects>>

Nowhere == "nowhere"
Profile == [email : Emails, verified : BOOLEAN]
Idle == [pc |-> "idle"]
SendRequest == [pc : {"revoke"}, user : Users, to : Emails]
CreateRequest == [pc : {"insert", "mail"}, user : Users, to : Emails,
                  tok : Tokens, expiresAt : Nat, seen : SUBSET Tokens]
UpdateRequest == [pc : {"checkFree", "write"}, user : Users, row : Profile,
                  email : Emails]
VerifyRequest == [pc : {"spend"}, tok : Tokens]
AnyRequest == SendRequest \cup CreateRequest \cup UpdateRequest
              \cup VerifyRequest \cup {Idle}
Click == [user : Users, current : Emails]

TypeOK ==
    /\ TokensTypeOK
    /\ user \in [Users -> Profile]
    /\ claimed \in [Users -> SUBSET Emails]
    /\ req \in [Requests -> AnyRequest]
    /\ mailed \in [Tokens -> Emails \cup {Nowhere}]
    /\ clicks \subseteq Click
    /\ effects \in [Tokens -> Nat]

(* GoogleService.Authenticate creates an account with Google's claim that   *)
(* the address is verified, as Register does without.                       *)
Vouched(u) == [user |-> u, current |-> user[u].email]

Init ==
    /\ TokensInit
    /\ user \in [Users -> [email : Emails \ Taken, verified : BOOLEAN]]
    /\ \A u, v \in Users : user[u].email = user[v].email => u = v
    /\ claimed = [u \in Users |-> {}]
    /\ req = [r \in Requests |-> Idle]
    /\ mailed = [t \in Tokens |-> Nowhere]
    /\ clicks = {Vouched(u) : u \in {v \in Users : user[v].verified}}
    /\ effects = [t \in Tokens |-> 0]

At(r, label) == req[r].pc = label
Goto(r, label) == req' = [req EXCEPT ![r].pc = label]
Become(r, request) == req' = [req EXCEPT ![r] = request]
Finish(r) == Become(r, Idle)

TakenByOther(u, e) == e \in Taken \/ \E v \in Users \ {u} : user[v].email = e

-----------------------------------------------------------------------------
(* An access token is minted for an account that is not verified.           *)
MintClaims(u) ==
    /\ ~ user[u].verified
    /\ user[u].email \notin claimed[u]
    /\ claimed' = [claimed EXCEPT ![u] = @ \cup {user[u].email}]
    /\ UNCHANGED <<now, tables, generated, req, mailed, clicks, effects>>

(* ResendVerificationEmail: everything it knows comes from the claims.      *)
BeginResend(r, u, e) ==
    /\ At(r, "idle")
    /\ e \in claimed[u]
    /\ Become(r, [pc |-> "revoke", user |-> u, to |-> e])
    /\ UNCHANGED <<now, tables, generated, claimed, mailed, clicks, effects>>

(* RequestVerificationEmail: GetByEmail of the address in the body.         *)
BeginRequest(r, u) ==
    /\ At(r, "idle")
    /\ ~ user[u].verified
    /\ Become(r, [pc |-> "revoke", user |-> u, to |-> user[u].email])
    /\ UNCHANGED <<now, tables, generated, claimed, mailed, clicks, effects>>

(* createToken: the token is drawn and RevokeActiveTokensTx starts.         *)
RevokeActive(r, t) ==
    LET u == req[r].user IN
    /\ At(r, "revoke")
    /\ Draw(t)
    /\ Become(r, [pc |-> "insert", user |-> u, to |-> req[r].to, tok |-> t,
                  expiresAt |-> Expiry, seen |-> ActiveOf(u)])
    /\ UNCHANGED <<now, tables, claimed, mailed, clicks, effects>>

(* The transaction commits, or fails on the unique index and changes        *)
(* nothing (Fail).                                                          *)
InsertToken(r) ==
    /\ At(r, "insert")
    /\ RevokeAndCreate(req[r].user, req[r].tok, req[r].seen, req[r].expiresAt)
    /\ Goto(r, "mail")
    /\ UNCHANGED <<now, user, generated, claimed, mailed, clicks, effects>>

(* SendVerificationEmail.                                                   *)
SendMail(r) ==
    /\ At(r, "mail")
    /\ mailed' = [mailed EXCEPT ![req[r].tok] = req[r].to]
    /\ Finish(r)
    /\ UNCHANGED <<now, tables, generated, claimed, clicks, effects>>

-----------------------------------------------------------------------------
(* UpdateMe reads the row; the request asks for address e, which may be the *)
(* one the account has.                                                     *)
BeginUpdate(r, u, e) ==
    /\ At(r, "idle")
    /\ Become(r, [pc |-> IF e = user[u].email THEN "write" ELSE "checkFree",
                  user |-> u, row |-> user[u], email |-> e])
    /\ UNCHANGED <<now, tables, generated, claimed, mailed, clicks, effects>>

(* A lookup that fails lets the update go on as one that finds nobody does. *)
CheckFree(r) ==
    /\ At(r, "checkFree")
    /\ \/ TakenByOther(req[r].user, req[r].email) /\ Finish(r)
       \/ Goto(r, "write")
    /\ UNCHANGED <<now, tables, generated, claimed, mailed, clicks, effects>>

ChangesEmail(r) == req[r].email # req[r].row.email

(* Variant: every profile update asks for the address to be verified again. *)
WriteProfileUnverifying(r) ==
    /\ At(r, "write")
    /\ ~ TakenByOther(req[r].user, req[r].email)
    /\ user' = [user EXCEPT ![req[r].user] =
                   [email |-> req[r].email, verified |-> FALSE]]
    /\ Finish(r)
    /\ UNCHANGED <<now, token, generated, claimed, mailed, clicks, effects>>

(* Variant: the new address inherits the flag of the old one.               *)
WriteProfileKeepingFlag(r) ==
    /\ At(r, "write")
    /\ ~ TakenByOther(req[r].user, req[r].email)
    /\ user' = [user EXCEPT ![req[r].user] =
                   [email |-> req[r].email, verified |-> req[r].row.verified]]
    /\ Finish(r)
    /\ UNCHANGED <<now, token, generated, claimed, mailed, clicks, effects>>

(* users.Update: address and flag as computed from the row that was read;   *)
(* the unique index on email refuses an address taken meanwhile (Fail).     *)
(* A changed address then gets a link.                                      *)
WriteProfile(r) ==
    LET u == req[r].user IN
    /\ At(r, "write")
    /\ ~ TakenByOther(u, req[r].email)
    /\ user' = [user EXCEPT ![u] =
                   [email |-> req[r].email,
                    verified |-> req[r].row.verified /\ ~ ChangesEmail(r)]]
    /\ IF ChangesEmail(r)
       THEN Become(r, [pc |-> "revoke", user |-> u, to |-> req[r].email])
       ELSE Finish(r)
    /\ UNCHANGED <<now, token, generated, claimed, mailed, clicks, effects>>

-----------------------------------------------------------------------------
(* VerifyEmailToken for a link that was mailed: read the row and IsValid;   *)
(* an invalid token ends the request.                                       *)
BeginVerify(r, t) ==
    /\ At(r, "idle")
    /\ mailed[t] # Nowhere
    /\ IsValid(t)
    /\ Become(r, [pc |-> "spend", tok |-> t])
    /\ UNCHANGED <<now, tables, generated, claimed, mailed, clicks, effects>>

(* The transaction: MarkConsumedTx and the UPDATE of the user by id. A      *)
(* token consumed or revoked since the read rolls it back (Fail).           *)
SpendToken(r) ==
    LET t == req[r].tok
        u == token[t].user
    IN
    /\ At(r, "spend")
    /\ MarkConsumed(t)
    /\ user' = [user EXCEPT ![u].verified = TRUE]
    /\ clicks' = clicks \cup {[user |-> u, current |-> user[u].email]}
    /\ effects' = [effects EXCEPT ![t] = @ + 1]
    /\ Finish(r)
    /\ UNCHANGED <<now, generated, claimed, mailed>>

(* A statement, the transaction or the mail fails: the request ends.        *)
Fail(r) ==
    /\ ~ At(r, "idle")
    /\ Finish(r)
    /\ UNCHANGED <<now, tables, generated, claimed, mailed, clicks, effects>>

(* A tick is longer than an access token lives.                             *)
Tick ==
    /\ now < MaxNow
    /\ now' = now + 1
    /\ claimed' = [u \in Users |-> {}]
    /\ UNCHANGED <<tables, generated, req, mailed, clicks, effects>>

Step(r) ==
    \/ \E u \in Users, e \in Emails : BeginResend(r, u, e)
    \/ \E u \in Users : BeginRequest(r, u)
    \/ \E t \in Tokens : RevokeActive(r, t) \/ BeginVerify(r, t)
    \/ InsertToken(r) \/ SendMail(r)
    \/ \E u \in Users, e \in Emails : BeginUpdate(r, u, e)
    \/ CheckFree(r) \/ WriteProfile(r)
    \/ SpendToken(r)
    \/ Fail(r)

Next ==
    \/ \E r \in Requests : Step(r)
    \/ \E u \in Users : MintClaims(u)
    \/ Tick

Spec == Init /\ [][Next]_vars

-----------------------------------------------------------------------------
(* Email verification links are one-time links: concurrent resends leave    *)
(* one live token, the last one created, and concurrent clicks on a link    *)
(* verify once.                                                             *)
Link == INSTANCE OneTimeLink WITH
    live <- [u \in Users |-> ActiveOf(u)],
    created <- {t \in Tokens : token[t] # NoToken}
ImplementsOneTimeLink == Link!Spec

ClickedUnder(u, e) == \E c \in clicks : c.user = u /\ c.current = e

(* An account that says "verified" used a link while it had this address,   *)
(* or was created on it with Google's word for it: no stale profile write   *)
(* and no change of address carries the flag over to another address.       *)
VerifiedByClick ==
    \A u \in Users : user[u].verified => ClickedUnder(u, user[u].email)

(* Only a profile update takes the flag away again: one that changes the    *)
(* address, or one that read the row before the link was used.              *)
LostToUpdate ==
    \A u \in Users :
        user[u].verified /\ ~ user'[u].verified =>
        \E r \in Requests : /\ At(r, "write") /\ ~ At(r, "write")'
                            /\ req[r].user = u
                            /\ ChangesEmail(r) \/ ~ req[r].row.verified
VerificationLostOnlyToUpdate == [][LostToUpdate]_vars

(* The inductive strengthening. Tokens about to be inserted are new and no  *)
(* two requests hold the same; what such a request saw are tokens of its    *)
(* user; a user has at most one active token; and the row a profile update  *)
(* will write back says "verified" only about an address a link was used    *)
(* under.                                                                   *)
InsertFresh ==
    \A r \in Requests : At(r, "insert") =>
        /\ req[r].tok \in generated /\ token[req[r].tok] = NoToken
        /\ \A t \in req[r].seen :
              token[t] # NoToken /\ token[t].user = req[r].user
InsertDistinct ==
    \A r, q \in Requests :
        At(r, "insert") /\ At(q, "insert") /\ r # q => req[r].tok # req[q].tok
RowsGenerated == \A t \in Tokens : token[t] # NoToken => t \in generated
OneActive ==
    \A s, t \in Tokens :
        Active(s) /\ Active(t) /\ token[s].user = token[t].user => s = t
SnapshotsClicked ==
    \A r \in Requests : req[r].pc \in {"checkFree", "write"} =>
        (req[r].row.verified => ClickedUnder(req[r].user, req[r].row.email))
EmailInv ==
    /\ TypeOK /\ InsertFresh /\ InsertDistinct /\ RowsGenerated /\ OneActive
    /\ VerifiedByClick /\ SnapshotsClicked
============================================================================
