--------------------------- MODULE PasswordReset ---------------------------
(* Password reset (password/handler.go, RequestPasswordReset and            *)
(* ResetPassword) against the logins it is meant to cut off. A reset is     *)
(* five statements on three tables, outside any transaction; a login reads  *)
(* the password hash long before it creates its session.                    *)
EXTENDS VerificationTokens, FiniteSets

CONSTANTS Sids, Requests,
          MaxVersion,    \* bound: the password changes at most this often
          MaxNow         \* bound: the clock stops here

ASSUME BoundsAssumption == MaxVersion \in Nat /\ MaxNow \in Nat

VARIABLES version,    \* user_password.password_hash, as a version number
          session,    \* the sessions table
          req,        \* the requests in flight
          mailed,     \* tokens whose link was mailed
          older,      \* history: the tokens of the user when one was created
          retired,    \* history: tokens a completed reset put out of use
          cutOff      \* history: newest password whose reset revoked everything

tables == <<token, version, session>>
history == <<older, retired, cutOff>>
vars == <<now, tables, generated, req, mailed, history>>

NoSession == [kind |-> "none"]
(* with is the password version the login compared; racing (history) says   *)
(* that a reset revoked the sessions of the user while it was in flight.    *)
SessionRow == [kind : {"session"}, user : Users, with : Nat,
               revoked : BOOLEAN, racing : BOOLEAN]
Idle == [pc |-> "idle"]
AskRequest == [pc : {"revoke"}, user : Users]
CreateRequest == [pc : {"insert", "mail"}, user : Users, tok : Tokens,
                  expiresAt : Nat, seen : SUBSET Tokens]
ResetRequest == [pc : {"change", "lookup", "consume", "revokeAll"},
                 user : Users, tok : Tokens, version : Nat]
LoginRequest == [pc : {"issue"}, user : Users, with : Nat, racing : BOOLEAN]
AnyRequest == AskRequest \cup CreateRequest \cup ResetRequest
              \cup LoginRequest \cup {Idle}

TypeOK ==
    /\ TokensTypeOK
    /\ version \in [Users -> Nat]
    /\ session \in [Sids -> SessionRow \cup {NoSession}]
    /\ req \in [Requests -> AnyRequest]
    /\ mailed \subseteq Tokens
    /\ older \in [Tokens -> SUBSET Tokens]
    /\ retired \subseteq Tokens
    /\ cutOff \in [Users -> Nat]

Init ==
    /\ TokensInit
    /\ version = [u \in Users |-> 0]
    /\ session = [s \in Sids |-> NoSession]
    /\ req = [r \in Requests |-> Idle]
    /\ mailed = {}
    /\ older = [t \in Tokens |-> {}]
    /\ retired = {}
    /\ cutOff = [u \in Users |-> 0]

At(r, label) == req[r].pc = label
Goto(r, label) == req' = [req EXCEPT ![r].pc = label]
Become(r, request) == req' = [req EXCEPT ![r] = request]
Finish(r) == Become(r, Idle)

TokensOf(u) == {t \in Tokens : token[t] # NoToken /\ token[t].user = u}

-----------------------------------------------------------------------------
(* RequestPasswordReset: GetByEmail found the account.                      *)
BeginAsk(r, u) ==
    /\ At(r, "idle")
    /\ Become(r, [pc |-> "revoke", user |-> u])
    /\ UNCHANGED <<now, tables, generated, mailed, history>>

(* createToken, first statement of the transaction ...                      *)
RevokeActive(r, t) ==
    LET u == req[r].user IN
    /\ At(r, "revoke")
    /\ Draw(t)
    /\ Become(r, [pc |-> "insert", user |-> u, tok |-> t,
                  expiresAt |-> Expiry, seen |-> ActiveOf(u)])
    /\ UNCHANGED <<now, tables, mailed, history>>

(* ... and its commit.                                                      *)
InsertToken(r) ==
    LET u == req[r].user IN
    /\ At(r, "insert")
    /\ RevokeAndCreate(u, req[r].tok, req[r].seen, req[r].expiresAt)
    /\ older' = [older EXCEPT ![req[r].tok] = TokensOf(u)]
    /\ Goto(r, "mail")
    /\ UNCHANGED <<now, version, session, generated, mailed, retired,
                   cutOff>>

SendMail(r) ==
    /\ At(r, "mail")
    /\ mailed' = mailed \cup {req[r].tok}
    /\ Finish(r)
    /\ UNCHANGED <<now, tables, generated, history>>

-----------------------------------------------------------------------------
(* ResetPassword: ValidatePasswordResetToken does not consume the token.    *)
BeginReset(r, t) ==
    /\ At(r, "idle")
    /\ t \in mailed
    /\ IsValid(t)
    /\ Become(r, [pc |-> "change", user |-> token[t].user, tok |-> t,
                  version |-> 0])
    /\ UNCHANGED <<now, tables, generated, mailed, history>>

(* ChangePassword: one UPDATE by user id; a password the policy refuses     *)
(* ends the request before it (Fail).                                       *)
ChangePassword(r) ==
    LET u == req[r].user IN
    /\ At(r, "change")
    /\ version[u] < MaxVersion
    /\ version' = [version EXCEPT ![u] = @ + 1]
    /\ req' = [req EXCEPT ![r].pc = "lookup", ![r].version = version'[u]]
    /\ UNCHANGED <<now, token, session, generated, mailed, older, retired,
                   cutOff>>

(* ConsumePasswordResetToken reads and validates the token once more; any   *)
(* error is logged and the request goes on.                                 *)
ConsumeLookup(r) ==
    /\ At(r, "lookup")
    /\ \/ IsValid(req[r].tok) /\ Goto(r, "consume")
       \/ Goto(r, "revokeAll")
    /\ UNCHANGED <<now, tables, generated, mailed, history>>

ConsumeMark(r) ==
    LET t == req[r].tok IN
    /\ At(r, "consume")
    /\ Goto(r, "revokeAll")
    /\ \/ MarkConsumed(t) /\ retired' = retired \cup {t} \cup older[t]
       \/ UNCHANGED <<token, retired>>
    /\ UNCHANGED <<now, version, session, generated, mailed, older,
                   cutOff>>

(* RevokeAllSessions; its error too is only logged (Fail). The logins in    *)
(* flight are remembered as racing.                                         *)
RevokeAllSessions(r) ==
    LET u == req[r].user IN
    /\ At(r, "revokeAll")
    /\ session' = [s \in Sids |->
                      IF session[s] # NoSession /\ session[s].user = u
                      THEN [session[s] EXCEPT !.revoked = TRUE] ELSE session[s]]
    /\ cutOff' = [cutOff EXCEPT ![u] = IF @ < req[r].version
                                       THEN req[r].version ELSE @]
    /\ req' = [q \in Requests |->
                  IF q = r THEN Idle
                  ELSE IF At(q, "issue") /\ req[q].user = u
                       THEN [req[q] EXCEPT !.racing = TRUE] ELSE req[q]]
    /\ UNCHANGED <<now, token, version, generated, mailed, older, retired>>

-----------------------------------------------------------------------------
(* Variant: the hash comes from a cache that a reset does not clear.        *)
BeginLoginCached(r, u) ==
    /\ At(r, "idle")
    /\ \E v \in 0..version[u] :
          Become(r, [pc |-> "issue", user |-> u, with |-> v, racing |-> FALSE])
    /\ UNCHANGED <<now, tables, generated, mailed, history>>

(* Login: Authenticate read the hash and the password matched it ...        *)
BeginLogin(r, u) ==
    /\ At(r, "idle")
    /\ Become(r, [pc |-> "issue", user |-> u, with |-> version[u],
                  racing |-> FALSE])
    /\ UNCHANGED <<now, tables, generated, mailed, history>>

(* ... and IssueSession creates the row. Session ids are random, so s is    *)
(* one that has no row.                                                     *)
IssueSession(r, s) ==
    /\ At(r, "issue")
    /\ session[s] = NoSession
    /\ session' = [session EXCEPT ![s] =
                      [kind |-> "session", user |-> req[r].user,
                       with |-> req[r].with, revoked |-> FALSE,
                       racing |-> req[r].racing]]
    /\ Finish(r)
    /\ UNCHANGED <<now, token, version, generated, mailed, history>>

(* A statement fails, the policy refuses, the mail or the client is lost.   *)
Fail(r) ==
    /\ ~ At(r, "idle")
    /\ Finish(r)
    /\ UNCHANGED <<now, tables, generated, mailed, history>>

Tick ==
    /\ now < MaxNow
    /\ now' = now + 1
    /\ UNCHANGED <<tables, generated, req, mailed, history>>

Step(r) ==
    \/ \E u \in Users : BeginAsk(r, u) \/ BeginLogin(r, u)
    \/ \E t \in Tokens : RevokeActive(r, t) \/ BeginReset(r, t)
    \/ InsertToken(r) \/ SendMail(r)
    \/ ChangePassword(r) \/ ConsumeLookup(r) \/ ConsumeMark(r)
    \/ RevokeAllSessions(r)
    \/ \E s \in Sids : IssueSession(r, s)
    \/ Fail(r)

Next == (\E r \in Requests : Step(r)) \/ Tick

Spec == Init /\ [][Next]_vars

-----------------------------------------------------------------------------
(* "Revoke all existing sessions for security" (password/handler.go:477):   *)
(* once a reset has run to its end, no session opened with an older         *)
(* password is alive, but for logins that were in flight while it revoked.  *)
ResetEndsOldSessions ==
    \A s \in Sids :
        session[s] # NoSession /\ ~ session[s].revoked /\ ~ session[s].racing
        => session[s].with >= cutOff[session[s].user]

(* The sessions a login opens and a reset revokes live as SessionLife says. *)
liveSessions ==
    [u \in Users |-> {s \in Sids : /\ session[s] # NoSession
                                   /\ session[s].user = u
                                   /\ ~ session[s].revoked}]
overSessions == {s \in Sids : session[s] # NoSession /\ session[s].revoked}
Life == INSTANCE SessionLife WITH
    present <- Users, live <- liveSessions, over <- overSessions
ImplementsSessionLife == Life!Spec

(* A reset that consumed its link leaves neither that link nor any mailed   *)
(* before it usable, however the requests for them were interleaved.        *)
RetiredLinksDead == \A t \in retired : ~ Active(t)

(* The inductive strengthening. A token that has a row was drawn, and what  *)
(* is remembered of a token is only other rows; once a token has a row, the *)
(* older ones of its user are consumed.                                     *)
LinksInv ==
    /\ \A t \in Tokens : token[t] # NoToken => t \in generated
    /\ \A t \in Tokens : \A x \in older[t] : token[x] # NoToken
    /\ \A t \in retired : token[t] # NoToken
    /\ \A t \in Tokens : token[t] # NoToken => \A x \in older[t] : ~ Active(x)
    /\ RetiredLinksDead
LoginsInv ==
    /\ \A u \in Users : cutOff[u] <= version[u]
    /\ ResetEndsOldSessions

(* A token that waits to be inserted was drawn for this request alone. No   *)
(* reset is ahead of the password, and a login that no reset overtook is    *)
(* not behind the last cut.                                                 *)
Sound(r) ==
    /\ At(r, "insert") => req[r].tok \in generated /\ token[req[r].tok] = NoToken
    /\ req[r].pc \in {"change", "lookup", "consume", "revokeAll"} =>
          req[r].version <= version[req[r].user]
    /\ At(r, "issue") /\ ~ req[r].racing => req[r].with >= cutOff[req[r].user]
OneInsertPerToken ==
    \A r, q \in Requests :
        At(r, "insert") /\ At(q, "insert") /\ req[r].tok = req[q].tok => r = q
ResetInv ==
    /\ TypeOK /\ LinksInv /\ LoginsInv /\ OneInsertPerToken
    /\ \A r \in Requests : Sound(r)
============================================================================
