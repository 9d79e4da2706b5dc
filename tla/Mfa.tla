-------------------------------- MODULE Mfa --------------------------------
(* Two-factor login (pkg/auth/mfa.go, the mfa handlers, the login handler   *)
(* and the mfa_verified claim of session.go). A password login of an        *)
(* enrolled account ends in a challenge, a row of verification_tokens; the  *)
(* second request brings the challenge back with a code. SetupTOTP and      *)
(* DisableMFA open a transaction, but their statements go to the pool, so   *)
(* every statement below stands on its own.                                 *)
EXTENDS VerificationTokens, FiniteSets

CONSTANTS Sids, Setups,    \* session ids; runs of SetupTOTP, one secret each
          Requests,
          MaxNow           \* bound: the clock stops here

VARIABLES enabled,   \* users.mfa_enabled
          secret,    \* mfa_secrets: the setup whose TOTP secret is stored
          codes,     \* mfa_recovery_codes: the setups whose codes are stored
          session,   \* the sessions table
          access,    \* the last access token minted for each session
          req,       \* the requests in flight
          drawn,     \* setups begun so far
          confirmed, \* history: the setup a code was accepted for
          torn,      \* history: a setup, enable or disable was cut or overlapped
          blocked    \* history: a login was refused for a dead challenge

factor == <<enabled, secret, codes>>
history == <<confirmed, torn, blocked>>
vars == <<now, token, generated, factor, session, access, req, drawn, history>>

NoSetup == "none"
NoChallenge == "password only"
ASSUME SentinelsAssumption == NoSetup \notin Setups /\ NoChallenge \notin Tokens
NoSession == [kind |-> "none"]
NoAccess == [kind |-> "none"]
(* challenge is the challenge that opened the session; sawOff (history): at *)
(* some moment of the login the account was not enrolled.                   *)
SessionRow == [kind : {"session"}, user : Users, revoked : BOOLEAN,
               challenge : Tokens \cup {NoChallenge}, sawOff : BOOLEAN]
AccessToken == [kind : {"jwt"}, mfaVerified : BOOLEAN, sawOff : BOOLEAN]

Idle == [pc |-> "idle"]
(* A login or refresh; flag is MFAEnabled as it was last read.              *)
LoginRequest == [pc : {"readFlag", "challenge", "issueRead", "issueCreate"},
                 user : Users, flag : BOOLEAN, sawOff : BOOLEAN,
                 challenge : Tokens \cup {NoChallenge}]
VerifyRequest == [pc : {"code", "consume"}, user : Users, tok : Tokens]
RefreshRequest == [pc : {"refreshRead", "refreshSign"}, user : Users,
                   sid : Sids, flag : BOOLEAN, sawOff : BOOLEAN]
SetupRequest == [pc : {"delSecret", "delCodes", "putSecret", "putCodes"},
                 user : Users, setup : Setups]
EnableRequest == [pc : {"setFlag"}, user : Users, setup : Setups]
DisableRequest == [pc : {"disSecret", "disCodes", "disFlag", "revokeAll"},
                   user : Users]
AnyRequest == LoginRequest \cup VerifyRequest \cup RefreshRequest
              \cup SetupRequest \cup EnableRequest \cup DisableRequest
              \cup {Idle}

TypeOK ==
    /\ TokensTypeOK
    /\ enabled \in [Users -> BOOLEAN]
    /\ secret \in [Users -> Setups \cup {NoSetup}]
    /\ codes \in [Users -> SUBSET Setups]
    /\ session \in [Sids -> SessionRow \cup {NoSession}]
    /\ access \in [Sids -> AccessToken \cup {NoAccess}]
    /\ req \in [Requests -> AnyRequest]
    /\ drawn \subseteq Setups
    /\ confirmed \in [Users -> Setups \cup {NoSetup}]
    /\ torn \in [Users -> BOOLEAN]
    /\ blocked \in [Users -> BOOLEAN]

Init ==
    /\ TokensInit
    /\ enabled = [u \in Users |-> FALSE]
    /\ secret = [u \in Users |-> NoSetup]
    /\ codes = [u \in Users |-> {}]
    /\ session = [s \in Sids |-> NoSession]
    /\ access = [s \in Sids |-> NoAccess]
    /\ req = [r \in Requests |-> Idle]
    /\ drawn = {}
    /\ confirmed = [u \in Users |-> NoSetup]
    /\ torn = [u \in Users |-> FALSE]
    /\ blocked = [u \in Users |-> FALSE]

At(r, label) == req[r].pc = label
Goto(r, label) == req' = [req EXCEPT ![r].pc = label]
Become(r, request) == req' = [req EXCEPT ![r] = request]
Finish(r) == Become(r, Idle)

LiveSession(s) == session[s] # NoSession /\ ~ session[s].revoked

EnrolSteps == {"delSecret", "delCodes", "putSecret", "putCodes", "setFlag",
               "disSecret", "disCodes", "disFlag"}
Enrolling(u) == {r \in Requests : req[r].pc \in EnrolSteps /\ req[r].user = u}

(* Between the first and the last statement of SetupTOTP or DisableMFA.     *)
HalfWay(r) == req[r].pc \in {"delCodes", "putSecret", "putCodes",
                             "disCodes", "disFlag"}

MarkTorn(u, condition) == torn' = [torn EXCEPT ![u] = @ \/ condition]

-----------------------------------------------------------------------------
(* Login: Authenticate accepted the password of u.                          *)
BeginLogin(r, u) ==
    /\ At(r, "idle")
    /\ Become(r, [pc |-> "readFlag", user |-> u, flag |-> FALSE,
                  sawOff |-> ~ enabled[u], challenge |-> NoChallenge])
    /\ UNCHANGED <<now, token, generated, factor, session, access, drawn, history>>

(* GetUserByID and the branch on user.MFAEnabled.                           *)
ReadFlag(r) ==
    /\ At(r, "readFlag")
    /\ Goto(r, IF enabled[req[r].user] THEN "challenge" ELSE "issueRead")
    /\ UNCHANGED <<now, token, generated, factor, session, access, drawn, history>>

(* Variant: when no challenge can be created the login goes on without one. *)
CreateChallengeOrProceed(r, t) ==
    LET u == req[r].user IN
    /\ At(r, "challenge")
    /\ Draw(t)
    /\ IF ActiveOf(u) = {}
       THEN /\ token' = [token EXCEPT ![t] = Inserted(u, Expiry)]
            /\ Finish(r)
       ELSE Goto(r, "issueRead") /\ UNCHANGED token
    /\ UNCHANGED <<now, factor, session, access, drawn, history>>

(* CreateMFAChallenge inserts and revokes nothing: the unique index refuses *)
(* it while any unconsumed challenge of the user exists, and the login      *)
(* fails.                                                                   *)
CreateChallenge(r, t) ==
    LET u == req[r].user IN
    /\ At(r, "challenge")
    /\ Draw(t)
    /\ Finish(r)
    /\ IF ActiveOf(u) = {}
       THEN token' = [token EXCEPT ![t] = Inserted(u, Expiry)] /\ UNCHANGED blocked
       ELSE /\ blocked' = [blocked EXCEPT
                              ![u] = @ \/ \A x \in ActiveOf(u) : ~ IsValid(x)]
            /\ UNCHANGED token
    /\ UNCHANGED <<now, factor, session, access, drawn, confirmed, torn>>

(* IssueSession: users.GetByID reads the flag once more ...                 *)
IssueRead(r) ==
    /\ At(r, "issueRead")
    /\ req' = [req EXCEPT ![r].pc = "issueCreate",
                          ![r].flag = enabled[req[r].user]]
    /\ UNCHANGED <<now, token, generated, factor, session, access, drawn, history>>

(* ... then the row is created and the claim is MFAVerified:                *)
(* !user.MFAEnabled || opts.MFAVerified.                                    *)
IssueCreate(r, s) ==
    LET verified == req[r].challenge # NoChallenge IN
    /\ At(r, "issueCreate")
    /\ session[s] = NoSession
    /\ session' = [session EXCEPT ![s] =
                      [kind |-> "session", user |-> req[r].user,
                       revoked |-> FALSE, challenge |-> req[r].challenge,
                       sawOff |-> req[r].sawOff]]
    /\ access' = [access EXCEPT ![s] =
                      [kind |-> "jwt", mfaVerified |-> ~ req[r].flag \/ verified,
                       sawOff |-> req[r].sawOff]]
    /\ Finish(r)
    /\ UNCHANGED <<now, token, generated, factor, drawn, history>>

-----------------------------------------------------------------------------
(* POST /v1/auth/mfa/verify: ValidateMFAChallenge.                          *)
BeginVerify(r, t) ==
    /\ At(r, "idle")
    /\ IsValid(t)
    /\ Become(r, [pc |-> "code", user |-> token[t].user, tok |-> t])
    /\ UNCHANGED <<now, token, generated, factor, session, access, drawn, history>>

(* VerifyTOTP with the code of the stored secret. Recovery codes are looked *)
(* up by a freshly salted hash and never found, so that branch always fails.*)
CheckCode(r) ==
    /\ At(r, "code")
    /\ secret[req[r].user] # NoSetup
    /\ Goto(r, "consume")
    /\ UNCHANGED <<now, token, generated, factor, session, access, drawn, history>>

(* The request continues as IssueSession with MFAVerified.                  *)
IssueVerified(r) ==
    LET u == req[r].user IN
    Become(r, [pc |-> "issueRead", user |-> u, flag |-> FALSE,
               sawOff |-> ~ enabled[u], challenge |-> req[r].tok])

(* Variant: an error of ConsumeMFAChallenge is only logged.                 *)
ConsumeChallengeBestEffort(r) ==
    /\ At(r, "consume")
    /\ MarkConsumed(req[r].tok) \/ (~ Active(req[r].tok) /\ UNCHANGED token)
    /\ IssueVerified(r)
    /\ UNCHANGED <<now, generated, factor, session, access, drawn, history>>

(* ConsumeMFAChallenge; its error ends the request (Fail).                  *)
ConsumeChallenge(r) ==
    /\ At(r, "consume")
    /\ MarkConsumed(req[r].tok)
    /\ IssueVerified(r)
    /\ UNCHANGED <<now, generated, factor, session, access, drawn, history>>

-----------------------------------------------------------------------------
(* RefreshSession of a live session, with no MFAVerified in its options.    *)
BeginRefresh(r, s) ==
    LET u == session[s].user IN
    /\ At(r, "idle")
    /\ LiveSession(s)
    /\ Become(r, [pc |-> "refreshRead", user |-> u, sid |-> s, flag |-> FALSE,
                  sawOff |-> ~ enabled[u]])
    /\ UNCHANGED <<now, token, generated, factor, session, access, drawn, history>>

RefreshRead(r) ==
    /\ At(r, "refreshRead")
    /\ req' = [req EXCEPT ![r].pc = "refreshSign",
                          ![r].flag = enabled[req[r].user]]
    /\ UNCHANGED <<now, token, generated, factor, session, access, drawn, history>>

(* Variant: the client cannot refresh without a session, so it is trusted.  *)
RefreshSignVerified(r) ==
    /\ At(r, "refreshSign")
    /\ access' = [access EXCEPT ![req[r].sid] =
                     [kind |-> "jwt", mfaVerified |-> TRUE,
                      sawOff |-> req[r].sawOff]]
    /\ Finish(r)
    /\ UNCHANGED <<now, token, generated, factor, session, drawn, history>>

RefreshSign(r) ==
    /\ At(r, "refreshSign")
    /\ access' = [access EXCEPT ![req[r].sid] =
                     [kind |-> "jwt", mfaVerified |-> ~ req[r].flag,
                      sawOff |-> req[r].sawOff]]
    /\ Finish(r)
    /\ UNCHANGED <<now, token, generated, factor, session, drawn, history>>

-----------------------------------------------------------------------------
(* SetupTOTP: refused when already enabled, then four statements.           *)
BeginSetup(r, u, g) ==
    /\ At(r, "idle")
    /\ ~ enabled[u]
    /\ g \notin drawn
    /\ drawn' = drawn \cup {g}
    /\ Become(r, [pc |-> "delSecret", user |-> u, setup |-> g])
    /\ MarkTorn(u, Enrolling(u) # {})
    /\ UNCHANGED <<now, token, generated, factor, session, access, confirmed,
                   blocked>>

DeleteSecret(r, from, to) ==
    /\ At(r, from)
    /\ secret' = [secret EXCEPT ![req[r].user] = NoSetup]
    /\ Goto(r, to)
    /\ UNCHANGED <<now, token, generated, enabled, codes, session, access,
                   drawn, history>>

(* Variant: DisableMFA and SetupTOTP leave the old recovery codes alone.    *)
DeleteCodesNot(r, from, to) ==
    /\ At(r, from)
    /\ Goto(r, to)
    /\ UNCHANGED <<now, token, generated, factor, session, access, drawn, history>>

DeleteCodes(r, from, to) ==
    /\ At(r, from)
    /\ codes' = [codes EXCEPT ![req[r].user] = {}]
    /\ Goto(r, to)
    /\ UNCHANGED <<now, token, generated, enabled, secret, session, access,
                   drawn, history>>

(* UNIQUE (user_id, method) refuses a second secret (Fail).                 *)
PutSecret(r) ==
    /\ At(r, "putSecret")
    /\ secret[req[r].user] = NoSetup
    /\ secret' = [secret EXCEPT ![req[r].user] = req[r].setup]
    /\ Goto(r, "putCodes")
    /\ UNCHANGED <<now, token, generated, enabled, codes, session, access,
                   drawn, history>>

PutCodes(r) ==
    /\ At(r, "putCodes")
    /\ codes' = [codes EXCEPT ![req[r].user] = @ \cup {req[r].setup}]
    /\ Finish(r)
    /\ UNCHANGED <<now, token, generated, enabled, secret, session, access,
                   drawn, history>>

(* VerifyTOTPAndEnable: the code matches the secret that was read ...       *)
BeginEnable(r, u) ==
    /\ At(r, "idle")
    /\ secret[u] # NoSetup
    /\ Become(r, [pc |-> "setFlag", user |-> u, setup |-> secret[u]])
    /\ MarkTorn(u, Enrolling(u) # {})
    /\ UNCHANGED <<now, token, generated, factor, session, access, drawn,
                   confirmed, blocked>>

(* ... and the flag is set, whatever happened to that secret meanwhile.     *)
SetFlag(r) ==
    LET u == req[r].user IN
    /\ At(r, "setFlag")
    /\ enabled' = [enabled EXCEPT ![u] = TRUE]
    /\ confirmed' = [confirmed EXCEPT ![u] = req[r].setup]
    /\ Finish(r)
    /\ UNCHANGED <<now, token, generated, secret, codes, session, access, drawn,
                   torn, blocked>>

(* Disable: password and TOTP code are right for the stored secret.         *)
BeginDisable(r, u) ==
    /\ At(r, "idle")
    /\ secret[u] # NoSetup
    /\ Become(r, [pc |-> "disSecret", user |-> u])
    /\ MarkTorn(u, Enrolling(u) # {})
    /\ UNCHANGED <<now, token, generated, factor, session, access, drawn,
                   confirmed, blocked>>

(* Requests in flight see the flag change.                                  *)
NoteFlagOff(u, reqs) ==
    [r \in Requests |->
        IF req[r].pc \in {"readFlag", "challenge", "issueRead", "issueCreate",
                          "refreshRead", "refreshSign"} /\ req[r].user = u
        THEN [reqs[r] EXCEPT !.sawOff = TRUE] ELSE reqs[r]]

ClearFlag(r) ==
    LET u == req[r].user IN
    /\ At(r, "disFlag")
    /\ enabled' = [enabled EXCEPT ![u] = FALSE]
    /\ req' = NoteFlagOff(u, [req EXCEPT ![r].pc = "revokeAll"])
    /\ UNCHANGED <<now, token, generated, secret, codes, session, access, drawn,
                   history>>

RevokeAllSessions(r) ==
    /\ At(r, "revokeAll")
    /\ session' = [s \in Sids |->
                      IF session[s] # NoSession /\ session[s].user = req[r].user
                      THEN [session[s] EXCEPT !.revoked = TRUE] ELSE session[s]]
    /\ Finish(r)
    /\ UNCHANGED <<now, token, generated, factor, access, drawn, history>>

-----------------------------------------------------------------------------
(* A statement fails, a code is wrong or the client leaves.                 *)
Fail(r) ==
    /\ ~ At(r, "idle")
    /\ Finish(r)
    /\ torn' = [u \in Users |-> torn[u] \/ (HalfWay(r) /\ req[r].user = u)]
    /\ UNCHANGED <<now, token, generated, factor, session, access, drawn,
                   confirmed, blocked>>

Tick ==
    /\ now < MaxNow
    /\ now' = now + 1
    /\ UNCHANGED <<token, generated, factor, session, access, req, drawn, history>>

LoginStep(r) ==
    \/ \E u \in Users : BeginLogin(r, u)
    \/ ReadFlag(r)
    \/ \E t \in Tokens : CreateChallenge(r, t) \/ BeginVerify(r, t)
    \/ CheckCode(r) \/ ConsumeChallenge(r)
    \/ IssueRead(r)
    \/ \E s \in Sids : IssueCreate(r, s) \/ BeginRefresh(r, s)
    \/ RefreshRead(r) \/ RefreshSign(r)

EnrolStep(r) ==
    \/ \E u \in Users, g \in Setups : BeginSetup(r, u, g)
    \/ DeleteSecret(r, "delSecret", "delCodes")
    \/ DeleteCodes(r, "delCodes", "putSecret")
    \/ PutSecret(r) \/ PutCodes(r)
    \/ \E u \in Users : BeginEnable(r, u) \/ BeginDisable(r, u)
    \/ SetFlag(r)
    \/ DeleteSecret(r, "disSecret", "disCodes")
    \/ DeleteCodes(r, "disCodes", "disFlag")
    \/ ClearFlag(r) \/ RevokeAllSessions(r)

Next ==
    \/ \E r \in Requests : LoginStep(r) \/ EnrolStep(r) \/ Fail(r)
    \/ Tick

Spec == Init /\ [][Next]_vars

-----------------------------------------------------------------------------
(* A challenge lets at most one session in, however many requests carry it  *)
(* past ValidateMFAChallenge and CheckCode at the same time.                *)
ChallengeOpensOneSession ==
    \A s, q \in Sids :
        /\ session[s] # NoSession /\ session[q] # NoSession
        /\ session[s].challenge = session[q].challenge
        => s = q \/ session[s].challenge = NoChallenge

(* A session opened with the password alone belongs to a login during which *)
(* the account was at some moment not enrolled.                             *)
SecondFactorNeeded ==
    \A s \in Sids : session[s] # NoSession /\ session[s].challenge = NoChallenge
                    => session[s].sawOff

(* An access token says mfa_verified only for a session that passed a       *)
(* challenge, or when the account was not enrolled at some moment of the    *)
(* request that minted it.                                                  *)
MfaClaimHonest ==
    \A s \in Sids : access[s] # NoAccess /\ access[s].mfaVerified
                    => session[s].challenge # NoChallenge \/ access[s].sawOff

(* Setup, enable and disable keep the factor consistent as long as they run *)
(* one after the other and to their end: the stored codes are those of the  *)
(* stored secret, and an enrolled account has the secret whose code it      *)
(* entered.                                                                 *)
Consistent(u) ==
    /\ codes[u] = (IF secret[u] = NoSetup THEN {} ELSE {secret[u]})
    /\ enabled[u] => secret[u] # NoSetup /\ secret[u] = confirmed[u]
FactorConsistent ==
    \A u \in Users : ~ torn[u] /\ Enrolling(u) = {} => Consistent(u)

(* The sessions a login opens and DisableMFA revokes live as SessionLife    *)
(* says.                                                                    *)
liveSessions ==
    [u \in Users |-> {s \in Sids : LiveSession(s) /\ session[s].user = u}]
overSessions == {s \in Sids : session[s] # NoSession /\ session[s].revoked}
Life == INSTANCE SessionLife WITH
    present <- Users, live <- liveSessions, over <- overSessions
ImplementsSessionLife == Life!Spec

(* A challenge is a one-time grant of a session to the account it was       *)
(* created for: open until ConsumeChallenge, which of all the requests that *)
(* brought it back one gets past, claimed while that one issues.            *)
Carries(r, t) ==
    /\ req[r].pc \in {"issueRead", "issueCreate"}
    /\ req[r].challenge = t
challengesOf ==
    [u \in Users |-> {t \in Tokens : token[t] # NoToken /\ token[t].user = u}]
openChallenges == {t \in Tokens : Active(t)}
claimedChallenges == {t \in Tokens : \E r \in Requests : Carries(r, t)}
openedWith ==
    [t \in Tokens |->
        {p \in Users \X Sids : /\ session[p[2]] # NoSession
                               /\ session[p[2]].user = p[1]
                               /\ session[p[2]].challenge = t}]
Grant == INSTANCE OneTimeGrant WITH
    Grants <- Tokens, Uses <- Sids, madeFor <- challengesOf,
    open <- openChallenges, claimed <- claimedChallenges, given <- openedWith
ImplementsOneTimeGrant == Grant!Spec

(* What that needs of the requests: the account one works for is the owner  *)
(* of the challenge it brought back or carries.                             *)
Brought(r, t) == req[r].pc \in {"code", "consume"} /\ req[r].tok = t
ServesOwner(r) ==
    \A t \in Tokens : Brought(r, t) \/ Carries(r, t) =>
                         token[t] # NoToken /\ token[t].user = req[r].user
OwnersServed == \A r \in Requests : ServesOwner(r)

(* README.md:260: "Challenge tokens expire after 5 minutes". An expired     *)
(* challenge no longer stands in the way of a login.                        *)
ExpiredChallengeDoesNotBlock == \A u \in Users : ~ blocked[u]

(* The inductive strengthening, for the logins: a challenge that opened a   *)
(* session, or is about to, was drawn, inserted and consumed, by one login. *)
Spent(t) == token[t] # NoToken /\ token[t].consumed
Issuing(r) == req[r].pc \in {"issueRead", "issueCreate"}
ChallengesInv ==
    /\ \A t \in Tokens : token[t] # NoToken => t \in generated
    /\ \A s \in Sids : session[s] # NoSession =>
          session[s].challenge = NoChallenge \/ Spent(session[s].challenge)
    /\ \A r, q \in Requests :
          /\ Issuing(r) /\ Issuing(q) /\ req[r].challenge # NoChallenge
          /\ req[r].challenge = req[q].challenge
          => r = q
    /\ ChallengeOpensOneSession /\ SecondFactorNeeded /\ MfaClaimHonest

(* Of one login or refresh: while the account is not enrolled it has noted  *)
(* that, it read the flag as off only if it noted that, and it goes without *)
(* a challenge, as it began, only if it did.                                *)
Vetted(r) ==
    /\ req[r].pc \in {"readFlag", "challenge", "issueRead", "issueCreate",
                      "refreshRead", "refreshSign"}
       /\ ~ enabled[req[r].user] => req[r].sawOff
    /\ req[r].pc \in {"issueCreate", "refreshSign"} /\ ~ req[r].flag =>
          req[r].sawOff
    /\ At(r, "readFlag") => req[r].challenge = NoChallenge
    /\ Issuing(r) /\ req[r].challenge = NoChallenge => req[r].sawOff
    /\ Issuing(r) /\ req[r].challenge # NoChallenge =>
          /\ Spent(req[r].challenge)
          /\ \A s \in Sids : session[s] # NoSession =>
                session[s].challenge # req[r].challenge

(* For the factor: what the tables hold at each statement of the one setup, *)
(* enable or disable of an account.                                         *)
Stage(r) ==
    LET u == req[r].user IN
    /\ At(r, "delSecret") => ~ enabled[u] /\ Consistent(u)
    /\ At(r, "delCodes")  => ~ enabled[u] /\ secret[u] = NoSetup
    /\ At(r, "putSecret") => ~ enabled[u] /\ secret[u] = NoSetup /\ codes[u] = {}
    /\ At(r, "putCodes")  => /\ ~ enabled[u] /\ secret[u] = req[r].setup
                             /\ codes[u] = {}
    /\ At(r, "setFlag")   => /\ Consistent(u) /\ secret[u] = req[r].setup
                             /\ secret[u] # NoSetup
    /\ At(r, "disSecret") => Consistent(u)
    /\ At(r, "disCodes")  => secret[u] = NoSetup
    /\ At(r, "disFlag")   => secret[u] = NoSetup /\ codes[u] = {}
InOrder(u) ==
    ~ torn[u] => /\ \A r, q \in Enrolling(u) : r = q
                 /\ \A r \in Enrolling(u) : Stage(r)
                 /\ Enrolling(u) = {} => Consistent(u)
MfaInv ==
    /\ TypeOK /\ ChallengesInv
    /\ \A r \in Requests : Vetted(r)
    /\ \A u \in Users : InOrder(u)
============================================================================
