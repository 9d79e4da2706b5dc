----------------------------- MODULE MfaProofs -----------------------------
(* Two-factor login for any number of accounts, challenges, sessions,       *)
(* setups and requests: the inductive invariant and what it gives.          *)
EXTENDS Mfa, TLAPS

FlagSteps == {"readFlag", "challenge", "issueRead", "issueCreate",
              "refreshRead", "refreshSign"}

(* Which kind of request a request is follows from where it stands.         *)
LEMMA RequestKinds ==
    ASSUME TypeOK, NEW r \in Requests
    PROVE  /\ req[r] \in AnyRequest
           /\ req[r].pc \in {"readFlag", "challenge", "issueRead", "issueCreate"} =>
                 req[r] \in LoginRequest
           /\ req[r].pc \in {"code", "consume"} => req[r] \in VerifyRequest
           /\ req[r].pc \in {"refreshRead", "refreshSign"} => req[r] \in RefreshRequest
           /\ req[r].pc \in {"delSecret", "delCodes", "putSecret", "putCodes"} =>
                 req[r] \in SetupRequest
           /\ req[r].pc = "setFlag" => req[r] \in EnableRequest
           /\ req[r].pc \in {"disSecret", "disCodes", "disFlag", "revokeAll"} =>
                 req[r] \in DisableRequest
  BY DEF TypeOK, AnyRequest, LoginRequest, VerifyRequest, RefreshRequest,
         SetupRequest, EnableRequest, DisableRequest, Idle

LEMMA InitInv == Init => MfaInv
  <1> SUFFICES ASSUME Init PROVE MfaInv
    OBVIOUS
  <1>1. TypeOK
    BY DEF Init, TypeOK, TokensInit, TokensTypeOK, AnyRequest
  <1>2. ChallengesInv
    BY DEF Init, TokensInit, ChallengesInv, Issuing, Idle,
       ChallengeOpensOneSession, SecondFactorNeeded, MfaClaimHonest
  <1>3. ASSUME NEW r \in Requests PROVE Vetted(r)
    BY <1>3 DEF Init, Vetted, Issuing, At, Idle
  <1>4. ASSUME NEW u \in Users PROVE InOrder(u)
    <2>1. Enrolling(u) = {}
      BY DEF Init, Enrolling, EnrolSteps, Idle
    <2>2. Consistent(u)
      BY DEF Init, Consistent
    <2> QED
      BY <2>1, <2>2 DEF InOrder
  <1> QED
    BY <1>1, <1>2, <1>3, <1>4 DEF MfaInv

-----------------------------------------------------------------------------
(* What becomes of the logins and refreshes when one request is replaced,   *)
(* sessions and access tokens stay, no challenge comes back and no flag is  *)
(* turned off: the new request has to be vetted, and to issue on a          *)
(* challenge of its own.                                                    *)
LEMMA LoginsKept ==
    ASSUME MfaInv, NEW r \in Requests, NEW request,
           \A q \in Requests : req'[q] = IF q = r THEN request ELSE req[q],
           UNCHANGED <<session, access>>,
           \A u \in Users : enabled[u] => enabled'[u],
           \A t \in Tokens : Spent(t) => Spent(t)',
           \A t \in Tokens : token'[t] # NoToken => t \in generated',
           Vetted(r)',
           request.pc \in {"issueRead", "issueCreate"} =>
              \/ Issuing(r) /\ request.challenge = req[r].challenge
              \/ request.challenge = NoChallenge
              \/ ~ Spent(request.challenge)
    PROVE  ChallengesInv' /\ \A q \in Requests : Vetted(q)'
  <1>1. \A s \in Sids : session[s] # NoSession =>
           session[s].challenge \in Tokens \cup {NoChallenge}
    BY DEF MfaInv, TypeOK, SessionRow
  <1>2. ASSUME NEW q \in Requests, Issuing(q)
        PROVE  req[q].challenge = NoChallenge
               \/ (req[q].challenge \in Tokens /\ Spent(req[q].challenge))
    BY <1>2, RequestKinds DEF MfaInv, Vetted, Issuing, LoginRequest
  <1>3. ChallengesInv'
    <2>1. \A s \in Sids : session'[s] # NoSession =>
             \/ session'[s].challenge = NoChallenge
             \/ /\ token'[session'[s].challenge] # NoToken
                /\ token'[session'[s].challenge].consumed
      BY <1>1 DEF MfaInv, ChallengesInv, Spent
    <2>2. ASSUME NEW p \in Requests, NEW q \in Requests,
                 Issuing(p)', Issuing(q)', req'[p].challenge # NoChallenge,
                 req'[p].challenge = req'[q].challenge
          PROVE  p = q
      <3>1. CASE p # r /\ q # r
        BY <2>2, <3>1 DEF MfaInv, ChallengesInv, Issuing
      <3>2. CASE p = r /\ q # r
        BY <1>2, <2>2, <3>2 DEF MfaInv, ChallengesInv, Issuing
      <3>3. CASE p # r /\ q = r
        BY <1>2, <2>2, <3>3 DEF MfaInv, ChallengesInv, Issuing
      <3> QED
        BY <3>1, <3>2, <3>3
    <2>3. ChallengeOpensOneSession' /\ SecondFactorNeeded' /\ MfaClaimHonest'
      BY DEF MfaInv, ChallengesInv, ChallengeOpensOneSession, SecondFactorNeeded,
         MfaClaimHonest
    <2> QED
      BY <2>1, <2>2, <2>3 DEF ChallengesInv, Spent
  <1>4. ASSUME NEW q \in Requests, q # r PROVE Vetted(q)'
    <2>1. req'[q] = req[q] /\ Vetted(q)
      BY <1>4 DEF MfaInv
    <2>2. CASE req[q].pc \in FlagSteps
      <3>1. req[q].user \in Users
        BY <2>2, RequestKinds DEF MfaInv, FlagSteps, LoginRequest, RefreshRequest
      <3>2. Issuing(q) /\ req[q].challenge # NoChallenge =>
               /\ token'[req[q].challenge] # NoToken
               /\ token'[req[q].challenge].consumed
        BY <1>2 DEF Spent
      <3> QED
        BY <2>1, <2>2, <3>1, <3>2 DEF Vetted, Issuing, At, FlagSteps, Spent
    <2>3. CASE req[q].pc \notin FlagSteps
      BY <2>1, <2>3 DEF Vetted, Issuing, At, FlagSteps
    <2> QED
      BY <2>2, <2>3
  <1> QED
    BY <1>3, <1>4

(* What becomes of the factor when no setup, enable or disable moves.       *)
LEMMA FactorKept ==
    ASSUME MfaInv, UNCHANGED <<factor, confirmed>>,
           \A u \in Users : torn[u] => torn'[u],
           \A q \in Requests : \/ req'[q] = req[q]
                               \/ /\ req[q].pc \notin EnrolSteps
                                  /\ req'[q].pc \notin EnrolSteps
    PROVE  \A u \in Users : InOrder(u)'
  <1> SUFFICES ASSUME NEW u \in Users, ~ torn'[u]
               PROVE  /\ \A r, q \in Enrolling(u)' : r = q
                      /\ \A r \in Enrolling(u)' : Stage(r)'
                      /\ Enrolling(u)' = {} => Consistent(u)'
    BY DEF InOrder
  <1>1. Enrolling(u)' = Enrolling(u)
    BY DEF Enrolling
  <1>2. Consistent(u)' <=> Consistent(u)
    BY DEF Consistent, factor
  <1>3. ASSUME NEW r \in Enrolling(u) PROVE Stage(r)' <=> Stage(r)
    <2>1. req'[r] = req[r] /\ req[r].user = u
      BY DEF Enrolling
    <2> QED
      BY <2>1 DEF Stage, At, Consistent, factor
  <1> QED
    BY <1>1, <1>2, <1>3 DEF MfaInv, InOrder

(* Both together: the steps of a login or a refresh that end in neither a   *)
(* session nor an access token.                                             *)
LEMMA LoginRequestStep ==
    ASSUME MfaInv, NEW r \in Requests, NEW request \in AnyRequest,
           Become(r, request),
           req[r].pc \notin EnrolSteps, request.pc \notin EnrolSteps,
           UNCHANGED <<now, factor, session, access, drawn, confirmed, torn>>,
           blocked' \in [Users -> BOOLEAN],
           generated' \subseteq Tokens,
           token' \in [Tokens -> TokenRow \cup {NoToken}],
           \A t \in Tokens : Spent(t) => Spent(t)',
           \A t \in Tokens : token'[t] # NoToken => t \in generated',
           Vetted(r)',
           request.pc \in {"issueRead", "issueCreate"} =>
              \/ Issuing(r) /\ request.challenge = req[r].challenge
              \/ request.challenge = NoChallenge
              \/ ~ Spent(request.challenge)
    PROVE  MfaInv'
  <1>1. TypeOK' /\ \A q \in Requests : req'[q] = IF q = r THEN request ELSE req[q]
    BY DEF MfaInv, TypeOK, TokensTypeOK, Become, factor
  <1>2. ChallengesInv' /\ \A q \in Requests : Vetted(q)'
    BY <1>1, LoginsKept DEF factor
  <1>3. \A u \in Users : InOrder(u)'
    BY <1>1, FactorKept
  <1> QED
    BY <1>1, <1>2, <1>3 DEF MfaInv

(* Most of them change the request alone.                                   *)
LEMMA QuietLoginStep ==
    ASSUME MfaInv, NEW r \in Requests, NEW request \in AnyRequest,
           Become(r, request),
           req[r].pc \notin EnrolSteps, request.pc \notin EnrolSteps,
           UNCHANGED <<now, token, generated, factor, session, access, drawn, history>>,
           Vetted(r)',
           request.pc \in {"issueRead", "issueCreate"} =>
              \/ Issuing(r) /\ request.challenge = req[r].challenge
              \/ request.challenge = NoChallenge
    PROVE  MfaInv'
  <1>1. /\ blocked' \in [Users -> BOOLEAN] /\ generated' \subseteq Tokens
        /\ token' \in [Tokens -> TokenRow \cup {NoToken}]
        /\ UNCHANGED <<confirmed, torn>>
    BY DEF MfaInv, TypeOK, TokensTypeOK, history
  <1>2. \A t \in Tokens : /\ Spent(t) => Spent(t)'
                          /\ token'[t] # NoToken => t \in generated'
    BY DEF MfaInv, ChallengesInv, Spent
  <1> QED
    BY <1>1, <1>2, LoginRequestStep
-----------------------------------------------------------------------------
(* Requests that begin note whether the account is enrolled.                *)
LEMMA BeginLoginStep ==
    ASSUME MfaInv, NEW r \in Requests, NEW u \in Users, BeginLogin(r, u)
    PROVE  MfaInv'
  <1> DEFINE new == [pc |-> "readFlag", user |-> u, flag |-> FALSE,
                     sawOff |-> ~ enabled[u], challenge |-> NoChallenge]
  <1>1. new \in AnyRequest
    BY DEF AnyRequest, LoginRequest
  <1>2. req'[r] = new /\ UNCHANGED enabled
    BY DEF BeginLogin, Become, factor, MfaInv, TypeOK
  <1>3. Vetted(r)'
    <2>1. /\ req'[r].pc = "readFlag" /\ req'[r].challenge = NoChallenge
          /\ req'[r].user = u /\ req'[r].sawOff = ~ enabled[u]
      BY <1>2
    <2>2. ~ enabled'[u] => req'[r].sawOff
      BY <1>2, <2>1
    <2> QED
      BY <2>1, <2>2 DEF Vetted, Issuing, At
  <1>4. req[r].pc \notin EnrolSteps /\ new.pc \notin EnrolSteps
    BY DEF BeginLogin, At, EnrolSteps
  <1> QED
    BY <1>1, <1>3, <1>4, QuietLoginStep DEF BeginLogin

LEMMA BeginVerifyStep ==
    ASSUME MfaInv, NEW r \in Requests, NEW t \in Tokens, BeginVerify(r, t)
    PROVE  MfaInv'
  <1> DEFINE new == [pc |-> "code", user |-> token[t].user, tok |-> t]
  <1>1. token[t].user \in Users
    BY DEF BeginVerify, IsValid, Active, MfaInv, TypeOK, TokensTypeOK, TokenRow
  <1>2. new \in AnyRequest
    BY <1>1 DEF AnyRequest, VerifyRequest
  <1>3. req'[r] = new
    BY DEF BeginVerify, Become, MfaInv, TypeOK
  <1>4. Vetted(r)'
    BY <1>3 DEF Vetted, Issuing, At
  <1>5. req[r].pc \notin EnrolSteps /\ new.pc \notin EnrolSteps
    BY DEF BeginVerify, At, EnrolSteps
  <1> QED
    BY <1>2, <1>4, <1>5, QuietLoginStep DEF BeginVerify

LEMMA BeginRefreshStep ==
    ASSUME MfaInv, NEW r \in Requests, NEW s \in Sids, BeginRefresh(r, s)
    PROVE  MfaInv'
  <1> DEFINE u == session[s].user
             new == [pc |-> "refreshRead", user |-> u, sid |-> s, flag |-> FALSE,
                     sawOff |-> ~ enabled[u]]
  <1>1. u \in Users
    BY DEF BeginRefresh, LiveSession, MfaInv, TypeOK, SessionRow
  <1>2. new \in AnyRequest
    BY <1>1 DEF AnyRequest, RefreshRequest
  <1>3. req'[r] = new /\ UNCHANGED enabled
    BY DEF BeginRefresh, Become, factor, MfaInv, TypeOK
  <1>4. Vetted(r)'
    <2>1. /\ req'[r].pc = "refreshRead"
          /\ req'[r].user = u /\ req'[r].sawOff = ~ enabled[u]
      BY <1>3
    <2>2. ~ enabled'[req'[r].user] => req'[r].sawOff
      BY <1>3, <2>1
    <2> QED
      BY <2>1, <2>2 DEF Vetted, Issuing, At
  <1>5. req[r].pc \notin EnrolSteps /\ new.pc \notin EnrolSteps
    BY DEF BeginRefresh, At, EnrolSteps
  <1> QED
    BY <1>2, <1>4, <1>5, QuietLoginStep DEF BeginRefresh

(* A login that finds the flag off has noted that it was off.               *)
LEMMA ReadFlagStep ==
    ASSUME MfaInv, NEW r \in Requests, ReadFlag(r)
    PROVE  MfaInv'
  <1> DEFINE label == IF enabled[req[r].user] THEN "challenge" ELSE "issueRead"
             new == [req[r] EXCEPT !.pc = label]
  <1>1. req[r] \in LoginRequest /\ req[r].pc = "readFlag" /\ Vetted(r)
    BY RequestKinds DEF ReadFlag, At, MfaInv
  <1>2. /\ label \in {"challenge", "issueRead"}
        /\ label = "issueRead" => ~ enabled[req[r].user]
    OBVIOUS
  <1> HIDE DEF label
  <1>3. /\ new \in AnyRequest /\ new.pc = label /\ new.user = req[r].user
        /\ new.sawOff = req[r].sawOff /\ new.challenge = req[r].challenge
    BY <1>1, <1>2 DEF LoginRequest, AnyRequest
  <1>4. Become(r, new) /\ req'[r] = new /\ UNCHANGED enabled
    BY DEF ReadFlag, Goto, Become, factor, MfaInv, TypeOK, label
  <1>5. new.challenge = NoChallenge /\ (label = "issueRead" => req[r].sawOff)
    BY <1>1, <1>2, <1>3 DEF Vetted, At
  <1>6. Vetted(r)'
    BY <1>1, <1>2, <1>3, <1>4, <1>5 DEF Vetted, Issuing, At
  <1>7. req[r].pc \notin EnrolSteps /\ new.pc \notin EnrolSteps
    BY <1>1, <1>2, <1>3 DEF EnrolSteps
  <1> QED
    BY <1>3, <1>4, <1>5, <1>6, <1>7, QuietLoginStep DEF ReadFlag

LEMMA CheckCodeStep ==
    ASSUME MfaInv, NEW r \in Requests, CheckCode(r)
    PROVE  MfaInv'
  <1> DEFINE new == [req[r] EXCEPT !.pc = "consume"]
  <1>1. req[r] \in VerifyRequest /\ req[r].pc = "code"
    BY RequestKinds DEF CheckCode, At, MfaInv
  <1>2. new \in AnyRequest /\ new.pc = "consume"
    BY <1>1 DEF VerifyRequest, AnyRequest
  <1>3. Become(r, new) /\ req'[r] = new
    BY DEF CheckCode, Goto, Become, MfaInv, TypeOK
  <1>4. Vetted(r)'
    BY <1>2, <1>3 DEF Vetted, Issuing, At
  <1>5. req[r].pc \notin EnrolSteps /\ new.pc \notin EnrolSteps
    BY <1>1, <1>2 DEF EnrolSteps
  <1> QED
    BY <1>2, <1>3, <1>4, <1>5, QuietLoginStep DEF CheckCode

(* The flag is read off only while a login or refresh notes that it is off. *)
LEMMA IssueReadStep ==
    ASSUME MfaInv, NEW r \in Requests, IssueRead(r)
    PROVE  MfaInv'
  <1> DEFINE new == [req[r] EXCEPT !.pc = "issueCreate",
                                   !.flag = enabled[req[r].user]]
  <1>1. req[r] \in LoginRequest /\ req[r].pc = "issueRead" /\ Vetted(r)
    BY RequestKinds DEF IssueRead, At, MfaInv
  <1>2. /\ new \in AnyRequest /\ new.pc = "issueCreate" /\ new.user = req[r].user
        /\ new.flag = enabled[req[r].user]
        /\ new.sawOff = req[r].sawOff /\ new.challenge = req[r].challenge
    BY <1>1 DEF LoginRequest, AnyRequest, MfaInv, TypeOK
  <1>3. Become(r, new) /\ req'[r] = new
    BY DEF IssueRead, Become, MfaInv, TypeOK
  <1>4. UNCHANGED <<enabled, session, token>>
    BY DEF IssueRead, factor
  <1>5. Vetted(r)'
    <2>1. ~ enabled[req[r].user] => req[r].sawOff
      BY <1>1 DEF Vetted
    <2>2. req[r].challenge = NoChallenge => req[r].sawOff
      BY <1>1 DEF Vetted, Issuing
    <2>3. req[r].challenge # NoChallenge =>
             /\ Spent(req[r].challenge)
             /\ \A s \in Sids : session[s] # NoSession =>
                   session[s].challenge # req[r].challenge
      BY <1>1 DEF Vetted, Issuing
    <2> HIDE DEF new
    <2> QED
      BY <1>2, <1>3, <1>4, <2>1, <2>2, <2>3 DEF Vetted, Issuing, At, Spent
  <1>6. req[r].pc \notin EnrolSteps /\ new.pc \notin EnrolSteps /\ Issuing(r)
    BY <1>1, <1>2 DEF EnrolSteps, Issuing
  <1> HIDE DEF new
  <1> QED
    BY <1>2, <1>3, <1>5, <1>6, QuietLoginStep DEF IssueRead

LEMMA RefreshReadStep ==
    ASSUME MfaInv, NEW r \in Requests, RefreshRead(r)
    PROVE  MfaInv'
  <1> DEFINE new == [req[r] EXCEPT !.pc = "refreshSign",
                                   !.flag = enabled[req[r].user]]
  <1>1. req[r] \in RefreshRequest /\ req[r].pc = "refreshRead" /\ Vetted(r)
    BY RequestKinds DEF RefreshRead, At, MfaInv
  <1>2. /\ new \in AnyRequest /\ new.pc = "refreshSign" /\ new.user = req[r].user
        /\ new.flag = enabled[req[r].user] /\ new.sawOff = req[r].sawOff
    BY <1>1 DEF RefreshRequest, AnyRequest, MfaInv, TypeOK
  <1>3. Become(r, new) /\ req'[r] = new
    BY DEF RefreshRead, Become, MfaInv, TypeOK
  <1>4. UNCHANGED enabled
    BY DEF RefreshRead, factor
  <1>5. Vetted(r)'
    <2>1. ~ enabled[req[r].user] => req[r].sawOff
      BY <1>1 DEF Vetted
    <2> HIDE DEF new
    <2> QED
      BY <1>2, <1>3, <1>4, <2>1 DEF Vetted, Issuing, At
  <1>6. req[r].pc \notin EnrolSteps /\ new.pc \notin EnrolSteps
    BY <1>1, <1>2 DEF EnrolSteps
  <1> HIDE DEF new
  <1> QED
    BY <1>2, <1>3, <1>5, <1>6, QuietLoginStep DEF RefreshRead

(* A login that ends, or any request outside the statements of a setup,     *)
(* enable or disable.                                                       *)
LEMMA FinishVetted ==
    ASSUME MfaInv, NEW r \in Requests, Finish(r)
    PROVE  /\ Idle \in AnyRequest /\ Become(r, Idle) /\ req'[r] = Idle
           /\ Idle.pc \notin EnrolSteps
           /\ Idle.pc \notin {"issueRead", "issueCreate"}
           /\ Vetted(r)'
  <1>1. req'[r] = Idle /\ Idle \in AnyRequest
    BY DEF Finish, Become, MfaInv, TypeOK, AnyRequest
  <1> QED
    BY <1>1 DEF Finish, Vetted, Issuing, At, Idle, EnrolSteps

(* A new challenge has no row before, so nothing was opened with it.        *)
LEMMA CreateChallengeStep ==
    ASSUME MfaInv, NEW r \in Requests, NEW t \in Tokens, CreateChallenge(r, t)
    PROVE  MfaInv'
  <1> DEFINE u == req[r].user
  <1>1. req[r] \in LoginRequest /\ u \in Users /\ req[r].pc = "challenge"
    BY RequestKinds DEF CreateChallenge, At, MfaInv, LoginRequest
  <1>2. /\ t \notin generated /\ generated' = generated \cup {t}
        /\ Finish(r)
        /\ UNCHANGED <<now, factor, session, access, drawn, confirmed, torn>>
        /\ token[t] = NoToken
    BY DEF CreateChallenge, Draw, MfaInv, ChallengesInv
  <1>3. /\ \/ token' = [token EXCEPT ![t] = Inserted(u, Expiry)]
           \/ UNCHANGED token
        /\ blocked' \in [Users -> BOOLEAN]
    BY <1>1 DEF CreateChallenge, MfaInv, TypeOK
  <1>4. Inserted(u, Expiry) \in TokenRow
    BY <1>1, TokenTTLAssumption
    DEF Inserted, Expiry, TokenRow, MfaInv, TypeOK, TokensTypeOK
  <1>5. /\ token' \in [Tokens -> TokenRow \cup {NoToken}]
        /\ generated' \subseteq Tokens
        /\ \A x \in Tokens \ {t} : token'[x] = token[x]
    BY <1>2, <1>3, <1>4 DEF MfaInv, TypeOK, TokensTypeOK
  <1>6. \A x \in Tokens : Spent(x) => Spent(x)'
    BY <1>2, <1>5 DEF Spent
  <1>7. \A x \in Tokens : token'[x] # NoToken => x \in generated'
    BY <1>2, <1>5 DEF MfaInv, ChallengesInv
  <1>8. req[r].pc \notin EnrolSteps
    BY <1>1 DEF EnrolSteps
  <1> QED
    BY <1>2, <1>3, <1>5, <1>6, <1>7, <1>8, FinishVetted, LoginRequestStep

(* The one request that gets to mark the challenge goes on with it: until   *)
(* then no session was opened and no login was about to issue on it.        *)
LEMMA ConsumeChallengeStep ==
    ASSUME MfaInv, NEW r \in Requests, ConsumeChallenge(r)
    PROVE  MfaInv'
  <1> DEFINE t == req[r].tok
             u == req[r].user
             new == [pc |-> "issueRead", user |-> u, flag |-> FALSE,
                     sawOff |-> ~ enabled[u], challenge |-> t]
  <1>1. /\ req[r] \in VerifyRequest /\ t \in Tokens /\ u \in Users
        /\ req[r].pc = "consume" /\ t # NoChallenge
    BY RequestKinds, SentinelsAssumption
    DEF ConsumeChallenge, At, MfaInv, VerifyRequest
  <1>2. new \in AnyRequest
    BY <1>1 DEF AnyRequest, LoginRequest
  <1>3. /\ UNCHANGED <<now, generated, factor, session, access, drawn, history>>
        /\ Become(r, new) /\ req'[r] = new
        /\ Active(t) /\ token' = [token EXCEPT ![t].consumed = TRUE]
    BY DEF ConsumeChallenge, IssueVerified, MarkConsumed, Become, MfaInv, TypeOK
  <1>4. token[t] \in TokenRow /\ ~ Spent(t)
    BY <1>1, <1>3 DEF Active, Spent, MfaInv, TypeOK, TokensTypeOK
  <1>5. /\ token' \in [Tokens -> TokenRow \cup {NoToken}]
        /\ \A x \in Tokens \ {t} : token'[x] = token[x]
        /\ token'[t] # NoToken /\ token'[t].consumed
    BY <1>1, <1>3, <1>4 DEF MfaInv, TypeOK, TokensTypeOK, TokenRow, NoToken
  <1>6. \A x \in Tokens : Spent(x) => Spent(x)'
    BY <1>4, <1>5 DEF Spent
  <1>7. \A x \in Tokens : token'[x] # NoToken => x \in generated'
    <2>1. t \in generated
      BY <1>1, <1>3 DEF Active, MfaInv, ChallengesInv
    <2> QED
      BY <1>3, <1>5, <2>1 DEF MfaInv, ChallengesInv
  <1>8. \A s \in Sids : session[s] # NoSession => session[s].challenge # t
    BY <1>1, <1>4 DEF MfaInv, ChallengesInv
  <1>9. Vetted(r)'
    <2>1. /\ req'[r].pc = "issueRead" /\ req'[r].challenge = t
          /\ req'[r].user = u /\ req'[r].sawOff = ~ enabled[u]
      BY <1>3
    <2>2. UNCHANGED <<session, enabled>>
      BY <1>3 DEF factor
    <2>3. ~ enabled'[u] => req'[r].sawOff
      BY <2>1, <2>2
    <2> QED
      BY <1>1, <1>5, <1>8, <2>1, <2>2, <2>3 DEF Vetted, Issuing, At, Spent
  <1>10. req[r].pc \notin EnrolSteps /\ new.pc \notin EnrolSteps
    BY <1>1 DEF EnrolSteps
  <1>11. /\ blocked' \in [Users -> BOOLEAN] /\ generated' \subseteq Tokens
         /\ UNCHANGED <<confirmed, torn>>
    BY <1>3 DEF history, MfaInv, TypeOK, TokensTypeOK
  <1>12. new.challenge = t
    OBVIOUS
  <1> HIDE DEF new
  <1> QED
    BY <1>2, <1>3, <1>4, <1>5, <1>6, <1>7, <1>9, <1>10, <1>11, <1>12, LoginRequestStep

-----------------------------------------------------------------------------
(* Steps that change sessions or access tokens and end their request, with  *)
(* the challenges and the flags as they are.                                *)
LEMMA FinishFactor ==
    ASSUME MfaInv, NEW r \in Requests, Finish(r), req[r].pc \notin EnrolSteps,
           UNCHANGED <<factor, history>>
    PROVE  \A u \in Users : InOrder(u)'
  <1>1. /\ UNCHANGED <<factor, confirmed>>
        /\ \A u \in Users : torn[u] => torn'[u]
    BY DEF history
  <1>2. ASSUME NEW q \in Requests, req'[q] # req[q]
        PROVE  req[q].pc \notin EnrolSteps /\ req'[q].pc \notin EnrolSteps
    <2>1. q = r
      BY <1>2 DEF Finish, Become, MfaInv, TypeOK
    <2> QED
      BY <2>1, FinishVetted
  <1> QED
    BY <1>1, <1>2, FactorKept

(* The session gets the challenge of the login, which no other session has; *)
(* without one the login had noted that the account was not enrolled.       *)
LEMMA IssueCreateStep ==
    ASSUME MfaInv, NEW r \in Requests, NEW s \in Sids, IssueCreate(r, s)
    PROVE  MfaInv'
  <1> DEFINE t == req[r].challenge
             row == [kind |-> "session", user |-> req[r].user, revoked |-> FALSE,
                     challenge |-> t, sawOff |-> req[r].sawOff]
             jwt == [kind |-> "jwt", mfaVerified |-> ~ req[r].flag \/ t # NoChallenge,
                     sawOff |-> req[r].sawOff]
  <1>1. req[r] \in LoginRequest /\ req[r].pc = "issueCreate" /\ Vetted(r)
    BY RequestKinds DEF IssueCreate, At, MfaInv
  <1>2. row \in SessionRow /\ jwt \in AccessToken
    BY <1>1 DEF LoginRequest, SessionRow, AccessToken
  <1>3. /\ UNCHANGED <<now, token, generated, factor, drawn, history>>
        /\ session[s] = NoSession /\ Finish(r)
        /\ session' = [session EXCEPT ![s] = row]
        /\ access' = [access EXCEPT ![s] = jwt]
    BY DEF IssueCreate
  <1>4. /\ \A x \in Sids : session'[x] = IF x = s THEN row ELSE session[x]
        /\ \A x \in Sids : access'[x] = IF x = s THEN jwt ELSE access[x]
    BY <1>3 DEF MfaInv, TypeOK
  <1>5. /\ req' \in [Requests -> AnyRequest]
        /\ \A q \in Requests : req'[q] = IF q = r THEN Idle ELSE req[q]
    BY <1>3, FinishVetted DEF Finish, Become, MfaInv, TypeOK
  <1>6. TypeOK'
    <2>1. session' \in [Sids -> SessionRow \cup {NoSession}]
      BY <1>2, <1>3 DEF MfaInv, TypeOK
    <2>2. access' \in [Sids -> AccessToken \cup {NoAccess}]
      BY <1>2, <1>3 DEF MfaInv, TypeOK
    <2> QED
      BY <1>3, <1>5, <2>1, <2>2 DEF MfaInv, TypeOK, TokensTypeOK, factor, history
  <1>7. /\ row.challenge = t /\ row.sawOff = req[r].sawOff /\ row # NoSession
        /\ jwt.sawOff = req[r].sawOff
        /\ jwt.mfaVerified => ~ req[r].flag \/ t # NoChallenge
    BY DEF NoSession
  <1>8. /\ t = NoChallenge => req[r].sawOff
        /\ ~ req[r].flag => req[r].sawOff
        /\ t # NoChallenge =>
              /\ Spent(t)
              /\ \A x \in Sids : session[x] # NoSession => session[x].challenge # t
    BY <1>1 DEF Vetted, Issuing
  <1> HIDE DEF row, jwt
  <1>9. ChallengesInv'
    <2>1. \A x \in Tokens : token'[x] # NoToken => x \in generated'
      BY <1>3 DEF MfaInv, ChallengesInv
    <2>2. \A x \in Sids : session'[x] # NoSession =>
             \/ session'[x].challenge = NoChallenge
             \/ /\ token'[session'[x].challenge] # NoToken
                /\ token'[session'[x].challenge].consumed
      BY <1>3, <1>4, <1>7, <1>8 DEF MfaInv, ChallengesInv, Spent
    <2>3. ASSUME NEW p \in Requests, NEW q \in Requests,
                 Issuing(p)', Issuing(q)', req'[p].challenge # NoChallenge,
                 req'[p].challenge = req'[q].challenge
          PROVE  p = q
      BY <1>5, <2>3 DEF MfaInv, ChallengesInv, Issuing, Idle
    <2>4. ChallengeOpensOneSession'
      BY <1>4, <1>7, <1>8 DEF MfaInv, ChallengesInv, ChallengeOpensOneSession
    <2>5. SecondFactorNeeded'
      BY <1>4, <1>7, <1>8 DEF MfaInv, ChallengesInv, SecondFactorNeeded
    <2>6. MfaClaimHonest'
      BY <1>4, <1>7, <1>8 DEF MfaInv, ChallengesInv, MfaClaimHonest
    <2> QED
      BY <2>1, <2>2, <2>3, <2>4, <2>5, <2>6 DEF ChallengesInv, Spent
  <1>10. ASSUME NEW q \in Requests PROVE Vetted(q)'
    <2>1. CASE q = r
      BY <1>3, <2>1, FinishVetted
    <2>2. CASE q # r
      <3>1. req'[q] = req[q] /\ Vetted(q)
        BY <1>5, <2>2 DEF MfaInv
      <3>2. Issuing(q) /\ req[q].challenge # NoChallenge => req[q].challenge # t
        BY <1>1, <2>2 DEF MfaInv, ChallengesInv, Issuing
      <3>3. Issuing(q) /\ req[q].challenge # NoChallenge =>
               \A x \in Sids : session'[x] # NoSession =>
                  session'[x].challenge # req[q].challenge
        BY <1>4, <1>7, <3>1, <3>2 DEF Vetted
      <3>4. UNCHANGED <<enabled, token>>
        BY <1>3 DEF factor
      <3> QED
        BY <3>1, <3>3, <3>4 DEF Vetted, Issuing, At, Spent
    <2> QED
      BY <2>1, <2>2
  <1>11. req[r].pc \notin EnrolSteps
    BY <1>1 DEF EnrolSteps
  <1>12. \A u \in Users : InOrder(u)'
    BY <1>3, <1>11, FinishFactor
  <1> QED
    BY <1>6, <1>9, <1>10, <1>12 DEF MfaInv

(* A refresh claims mfa_verified only if it read the flag off.              *)
LEMMA RefreshSignStep ==
    ASSUME MfaInv, NEW r \in Requests, RefreshSign(r)
    PROVE  MfaInv'
  <1> DEFINE jwt == [kind |-> "jwt", mfaVerified |-> ~ req[r].flag,
                     sawOff |-> req[r].sawOff]
  <1>1. req[r] \in RefreshRequest /\ req[r].pc = "refreshSign" /\ Vetted(r)
    BY RequestKinds DEF RefreshSign, At, MfaInv
  <1>2. jwt \in AccessToken
    BY <1>1 DEF RefreshRequest, AccessToken
  <1>3. /\ UNCHANGED <<now, token, generated, factor, session, drawn, history>>
        /\ access' = [access EXCEPT ![req[r].sid] = jwt]
        /\ Finish(r)
    BY DEF RefreshSign
  <1>4. \A x \in Sids : access'[x] = IF x = req[r].sid THEN jwt ELSE access[x]
    BY <1>3 DEF MfaInv, TypeOK
  <1>5. /\ req' \in [Requests -> AnyRequest]
        /\ \A q \in Requests : req'[q] = IF q = r THEN Idle ELSE req[q]
    BY <1>3, FinishVetted DEF Finish, Become, MfaInv, TypeOK
  <1>6. TypeOK'
    <2>1. access' \in [Sids -> AccessToken \cup {NoAccess}]
      BY <1>2, <1>3 DEF MfaInv, TypeOK
    <2> QED
      BY <1>3, <1>5, <2>1 DEF MfaInv, TypeOK, TokensTypeOK, factor, history
  <1>7. /\ jwt.sawOff = req[r].sawOff
        /\ jwt.mfaVerified => ~ req[r].flag
        /\ ~ req[r].flag => req[r].sawOff
    BY <1>1 DEF Vetted
  <1> HIDE DEF jwt
  <1>8. ChallengesInv'
    <2>1. MfaClaimHonest'
      BY <1>3, <1>4, <1>7 DEF MfaInv, ChallengesInv, MfaClaimHonest
    <2>2. ChallengeOpensOneSession' /\ SecondFactorNeeded'
      BY <1>3 DEF MfaInv, ChallengesInv, ChallengeOpensOneSession, SecondFactorNeeded
    <2> QED
      BY <1>3, <1>5, <2>1, <2>2 DEF MfaInv, ChallengesInv, Issuing, Idle, Spent
  <1>9. ASSUME NEW q \in Requests PROVE Vetted(q)'
    <2>1. CASE q = r
      BY <1>3, <2>1, FinishVetted
    <2>2. CASE q # r
      <3>1. req'[q] = req[q] /\ Vetted(q) /\ UNCHANGED <<enabled, token, session>>
        BY <1>3, <1>5, <2>2 DEF MfaInv, factor
      <3> QED
        BY <3>1 DEF Vetted, Issuing, At, Spent
    <2> QED
      BY <2>1, <2>2
  <1>10. \A u \in Users : InOrder(u)'
    <2>1. req[r].pc \notin EnrolSteps
      BY <1>1 DEF EnrolSteps
    <2> QED
      BY <1>3, <2>1, FinishFactor
  <1> QED
    BY <1>6, <1>8, <1>9, <1>10 DEF MfaInv

(* Revoking sessions takes nothing away but their use.                      *)
LEMMA RevokeAllStep ==
    ASSUME MfaInv, NEW r \in Requests, RevokeAllSessions(r)
    PROVE  MfaInv'
  <1>1. req[r].pc = "revokeAll"
    BY DEF RevokeAllSessions, At
  <1>2. /\ UNCHANGED <<now, token, generated, factor, access, drawn, history>>
        /\ Finish(r)
        /\ session' = [s \in Sids |->
                          IF session[s] # NoSession /\ session[s].user = req[r].user
                          THEN [session[s] EXCEPT !.revoked = TRUE] ELSE session[s]]
    BY DEF RevokeAllSessions
  <1>3. ASSUME NEW s \in Sids
        PROVE  /\ session'[s] \in SessionRow \cup {NoSession}
               /\ session'[s] # NoSession => session[s] # NoSession
               /\ session'[s].challenge = session[s].challenge
               /\ session'[s].sawOff = session[s].sawOff
    <2>1. session[s] \in SessionRow \cup {NoSession}
      BY DEF MfaInv, TypeOK
    <2>2. CASE session[s] # NoSession /\ session[s].user = req[r].user
      <3> DEFINE new == [session[s] EXCEPT !.revoked = TRUE]
      <3>1. /\ new \in SessionRow /\ new.challenge = session[s].challenge
            /\ new.sawOff = session[s].sawOff
        BY <2>1, <2>2 DEF SessionRow
      <3>2. session'[s] = new
        BY <1>2, <2>2
      <3> QED
        BY <2>2, <3>1, <3>2
    <2>3. CASE ~ (session[s] # NoSession /\ session[s].user = req[r].user)
      <3>1. session'[s] = session[s]
        BY <1>2, <2>3
      <3> QED
        BY <2>1, <3>1
    <2> QED
      BY <2>2, <2>3
  <1>4. /\ req' \in [Requests -> AnyRequest]
        /\ \A q \in Requests : req'[q] = IF q = r THEN Idle ELSE req[q]
    BY <1>2, FinishVetted DEF Finish, Become, MfaInv, TypeOK
  <1>5. TypeOK'
    <2>1. session' \in [Sids -> SessionRow \cup {NoSession}]
      BY <1>2, <1>3
    <2> QED
      BY <1>2, <1>4, <2>1 DEF MfaInv, TypeOK, TokensTypeOK, factor, history
  <1>6. ChallengesInv'
    <2>1. ChallengeOpensOneSession'
      BY <1>3 DEF MfaInv, ChallengesInv, ChallengeOpensOneSession
    <2>2. SecondFactorNeeded'
      BY <1>3 DEF MfaInv, ChallengesInv, SecondFactorNeeded
    <2>3. MfaClaimHonest'
      BY <1>2, <1>3 DEF MfaInv, ChallengesInv, MfaClaimHonest
    <2>4. \A s \in Sids : session'[s] # NoSession =>
             \/ session'[s].challenge = NoChallenge
             \/ /\ token'[session'[s].challenge] # NoToken
                /\ token'[session'[s].challenge].consumed
      BY <1>2, <1>3 DEF MfaInv, ChallengesInv, Spent
    <2> QED
      BY <1>2, <1>4, <2>1, <2>2, <2>3, <2>4
      DEF MfaInv, ChallengesInv, Issuing, Idle, Spent
  <1>7. ASSUME NEW q \in Requests PROVE Vetted(q)'
    <2>1. CASE q = r
      BY <1>2, <2>1, FinishVetted
    <2>2. CASE q # r
      <3>1. req'[q] = req[q] /\ Vetted(q) /\ UNCHANGED <<enabled, token>>
        BY <1>2, <1>4, <2>2 DEF MfaInv, factor
      <3> QED
        BY <1>3, <3>1 DEF Vetted, Issuing, At, Spent
    <2> QED
      BY <2>1, <2>2
  <1>8. \A u \in Users : InOrder(u)'
    <2>1. req[r].pc \notin EnrolSteps
      BY <1>1 DEF EnrolSteps
    <2> QED
      BY <1>2, <2>1, FinishFactor
  <1> QED
    BY <1>5, <1>6, <1>7, <1>8 DEF MfaInv

-----------------------------------------------------------------------------
(* Setup, enable and disable. They leave the logins alone as long as they   *)
(* turn no flag off ...                                                     *)
LEMMA LoginsUntouched ==
    ASSUME MfaInv, NEW r \in Requests, NEW request, request.pc \notin FlagSteps,
           \A q \in Requests : req'[q] = IF q = r THEN request ELSE req[q],
           UNCHANGED <<token, generated, session, access>>,
           \A u \in Users : enabled[u] => enabled'[u]
    PROVE  ChallengesInv' /\ \A q \in Requests : Vetted(q)'
  <1>1. Vetted(r)' /\ request.pc \notin {"issueRead", "issueCreate"}
    BY DEF Vetted, Issuing, At, FlagSteps
  <1>2. \A t \in Tokens : /\ Spent(t) => Spent(t)'
                          /\ token'[t] # NoToken => t \in generated'
    BY DEF MfaInv, ChallengesInv, Spent
  <1> QED
    BY <1>1, <1>2, LoginsKept

(* ... and while an account is not torn, one of them at a time works on it. *)
LEMMA Alone ==
    ASSUME MfaInv, NEW r \in Requests, NEW u \in Users, req[r].user = u,
           req[r].pc \in EnrolSteps, ~ torn[u]
    PROVE  Enrolling(u) = {r} /\ Stage(r)
  <1>1. r \in Enrolling(u)
    BY DEF Enrolling
  <1> QED
    BY <1>1 DEF MfaInv, InOrder

(* A statement of r changes the factor of its own account only; if r is     *)
(* alone there, the tables have to be as its next stage says, or consistent *)
(* at its end.                                                              *)
LEMMA EnrolAdvance ==
    ASSUME MfaInv, NEW r \in Requests, NEW u \in Users, req[r].user = u,
           req[r].pc \in EnrolSteps,
           \A q \in Requests \ {r} : \/ req'[q] = req[q]
                                     \/ /\ req[q].pc \notin EnrolSteps
                                        /\ req'[q].pc \notin EnrolSteps,
           req'[r].pc \in EnrolSteps => req'[r].user = u,
           \A v \in Users \ {u} : /\ enabled'[v] = enabled[v]
                                  /\ secret'[v] = secret[v]
                                  /\ codes'[v] = codes[v]
                                  /\ confirmed'[v] = confirmed[v],
           \A v \in Users : torn[v] => torn'[v],
           Stage(r) /\ ~ torn[u] /\ ~ torn'[u] =>
              IF req'[r].pc \in EnrolSteps THEN Stage(r)' ELSE Consistent(u)'
    PROVE  \A v \in Users : InOrder(v)'
  <1> SUFFICES ASSUME NEW v \in Users, ~ torn'[v]
               PROVE  /\ \A p, q \in Enrolling(v)' : p = q
                      /\ \A q \in Enrolling(v)' : Stage(q)'
                      /\ Enrolling(v)' = {} => Consistent(v)'
    BY DEF InOrder
  <1>1. ~ torn[v]
    OBVIOUS
  <1>2. CASE v = u
    <2>1. Enrolling(u) = {r} /\ Stage(r)
      BY <1>1, <1>2, Alone
    <2>2. Enrolling(u)' = IF req'[r].pc \in EnrolSteps THEN {r} ELSE {}
      BY <2>1 DEF Enrolling
    <2> QED
      BY <1>1, <1>2, <2>1, <2>2
  <1>3. CASE v # u
    <2>1. Enrolling(v)' = Enrolling(v)
      BY <1>3 DEF Enrolling
    <2>2. Consistent(v)' <=> Consistent(v)
      BY <1>3 DEF Consistent
    <2>3. ASSUME NEW q \in Enrolling(v) PROVE Stage(q)' <=> Stage(q)
      <3>1. req'[q] = req[q] /\ req[q].user = v
        BY <1>3, <2>3 DEF Enrolling
      <3> QED
        <4>1. /\ enabled'[v] = enabled[v] /\ secret'[v] = secret[v]
              /\ codes'[v] = codes[v] /\ confirmed'[v] = confirmed[v]
          BY <1>3
        <4> QED
          BY <3>1, <4>1 DEF Stage, At, Consistent
    <2> QED
      BY <1>1, <2>1, <2>2, <2>3 DEF MfaInv, InOrder
  <1> QED
    BY <1>2, <1>3

(* What begins on an account that is not torn afterwards found nobody else  *)
(* at work there, and so a consistent factor.                               *)
LEMMA EnrolBegin ==
    ASSUME MfaInv, NEW r \in Requests, NEW u \in Users,
           req[r].pc \notin EnrolSteps,
           \A q \in Requests \ {r} : req'[q] = req[q],
           req'[r].pc \in EnrolSteps, req'[r].user = u,
           UNCHANGED <<factor, confirmed>>, MarkTorn(u, Enrolling(u) # {}),
           Consistent(u) => Stage(r)'
    PROVE  \A v \in Users : InOrder(v)'
  <1> SUFFICES ASSUME NEW v \in Users, ~ torn'[v]
               PROVE  /\ \A p, q \in Enrolling(v)' : p = q
                      /\ \A q \in Enrolling(v)' : Stage(q)'
                      /\ Enrolling(v)' = {} => Consistent(v)'
    BY DEF InOrder
  <1>1. ~ torn[v] /\ (v = u => Enrolling(u) = {})
    BY DEF MarkTorn, MfaInv, TypeOK
  <1>2. CASE v = u
    <2>1. Enrolling(u)' = {r}
      BY <1>1, <1>2 DEF Enrolling
    <2>2. Consistent(u)
      BY <1>1, <1>2 DEF MfaInv, InOrder
    <2> QED
      BY <1>2, <2>1, <2>2
  <1>3. CASE v # u
    <2>1. Enrolling(v)' = Enrolling(v)
      BY <1>3 DEF Enrolling
    <2>2. Consistent(v)' <=> Consistent(v)
      BY DEF Consistent, factor
    <2>3. ASSUME NEW q \in Enrolling(v) PROVE Stage(q)' <=> Stage(q)
      <3>1. req'[q] = req[q] /\ req[q].user = v
        BY <1>3, <2>3 DEF Enrolling
      <3> QED
        BY <3>1 DEF Stage, At, Consistent, factor
    <2> QED
      BY <1>1, <2>1, <2>2, <2>3 DEF MfaInv, InOrder
  <1> QED
    BY <1>2, <1>3

(* Both together, for a request that begins to work on the factor ...       *)
LEMMA BeginStatement ==
    ASSUME MfaInv, NEW r \in Requests, NEW u \in Users, At(r, "idle"),
           NEW request \in AnyRequest, Become(r, request),
           request.pc \in EnrolSteps, request.user = u,
           UNCHANGED <<now, token, generated, factor, session, access,
                       confirmed, blocked>>,
           drawn' \subseteq Setups, MarkTorn(u, Enrolling(u) # {}),
           Consistent(u) => Stage(r)'
    PROVE  MfaInv'
  <1>1. /\ req' \in [Requests -> AnyRequest]
        /\ \A q \in Requests : req'[q] = IF q = r THEN request ELSE req[q]
    BY DEF Become, MfaInv, TypeOK
  <1>2. TypeOK'
    <2>1. torn' \in [Users -> BOOLEAN]
      BY DEF MarkTorn, MfaInv, TypeOK
    <2> QED
      BY <1>1, <2>1 DEF MfaInv, TypeOK, TokensTypeOK, factor
  <1>3. request.pc \notin FlagSteps /\ req[r].pc \notin EnrolSteps
    BY DEF FlagSteps, EnrolSteps, At
  <1>4. ChallengesInv' /\ \A q \in Requests : Vetted(q)'
    BY <1>1, <1>3, LoginsUntouched DEF factor
  <1>5. \A v \in Users : InOrder(v)'
    BY <1>1, <1>3, EnrolBegin
  <1> QED
    BY <1>2, <1>4, <1>5 DEF MfaInv

(* ... and for one of its statements.                                       *)
LEMMA NextStatement ==
    ASSUME MfaInv, NEW r \in Requests, NEW u \in Users, req[r].user = u,
           req[r].pc \in EnrolSteps, NEW request \in AnyRequest,
           Become(r, request), request.pc \notin FlagSteps,
           request.pc \in EnrolSteps => request.user = u,
           UNCHANGED <<now, token, generated, session, access, drawn, blocked>>,
           enabled' \in [Users -> BOOLEAN],
           secret' \in [Users -> Setups \cup {NoSetup}],
           codes' \in [Users -> SUBSET Setups],
           confirmed' \in [Users -> Setups \cup {NoSetup}],
           torn' \in [Users -> BOOLEAN],
           \A v \in Users \ {u} : /\ enabled'[v] = enabled[v]
                                  /\ secret'[v] = secret[v]
                                  /\ codes'[v] = codes[v]
                                  /\ confirmed'[v] = confirmed[v],
           \A v \in Users : enabled[v] => enabled'[v],
           \A v \in Users : torn[v] => torn'[v],
           Stage(r) /\ ~ torn[u] /\ ~ torn'[u] =>
              IF request.pc \in EnrolSteps THEN Stage(r)' ELSE Consistent(u)'
    PROVE  MfaInv'
  <1>1. /\ req' \in [Requests -> AnyRequest]
        /\ \A q \in Requests : req'[q] = IF q = r THEN request ELSE req[q]
    BY DEF Become, MfaInv, TypeOK
  <1>2. TypeOK'
    BY <1>1 DEF MfaInv, TypeOK, TokensTypeOK
  <1>3. ChallengesInv' /\ \A q \in Requests : Vetted(q)'
    BY <1>1, LoginsUntouched
  <1>4. \A v \in Users : InOrder(v)'
    BY <1>1, EnrolAdvance
  <1> QED
    BY <1>2, <1>3, <1>4 DEF MfaInv

-----------------------------------------------------------------------------
LEMMA BeginSetupStep ==
    ASSUME MfaInv, NEW r \in Requests, NEW u \in Users, NEW g \in Setups,
           BeginSetup(r, u, g)
    PROVE  MfaInv'
  <1> DEFINE new == [pc |-> "delSecret", user |-> u, setup |-> g]
  <1>1. new \in AnyRequest /\ new.pc \in EnrolSteps
    BY DEF AnyRequest, SetupRequest, EnrolSteps
  <1>2. req'[r] = new /\ UNCHANGED <<enabled, secret, codes, confirmed>>
    BY DEF BeginSetup, Become, factor, MfaInv, TypeOK
  <1>3. Consistent(u) => Stage(r)'
    BY <1>2 DEF BeginSetup, Stage, At, Consistent
  <1>4. drawn' \subseteq Setups
    BY DEF BeginSetup, MfaInv, TypeOK
  <1> QED
    BY <1>1, <1>3, <1>4, BeginStatement DEF BeginSetup

(* The code is checked against the secret that is stored.                   *)
LEMMA BeginEnableStep ==
    ASSUME MfaInv, NEW r \in Requests, NEW u \in Users, BeginEnable(r, u)
    PROVE  MfaInv'
  <1> DEFINE new == [pc |-> "setFlag", user |-> u, setup |-> secret[u]]
  <1>1. new \in AnyRequest /\ new.pc \in EnrolSteps
    BY DEF BeginEnable, AnyRequest, EnableRequest, EnrolSteps, MfaInv, TypeOK
  <1>2. req'[r] = new /\ UNCHANGED <<enabled, secret, codes, confirmed>>
    BY DEF BeginEnable, Become, factor, MfaInv, TypeOK
  <1>3. Consistent(u) => Stage(r)'
    BY <1>2 DEF BeginEnable, Stage, At, Consistent
  <1> QED
    BY <1>1, <1>3, BeginStatement DEF BeginEnable, MfaInv, TypeOK

LEMMA BeginDisableStep ==
    ASSUME MfaInv, NEW r \in Requests, NEW u \in Users, BeginDisable(r, u)
    PROVE  MfaInv'
  <1> DEFINE new == [pc |-> "disSecret", user |-> u]
  <1>1. new \in AnyRequest /\ new.pc \in EnrolSteps
    BY DEF AnyRequest, DisableRequest, EnrolSteps
  <1>2. req'[r] = new /\ UNCHANGED <<enabled, secret, codes, confirmed>>
    BY DEF BeginDisable, Become, factor, MfaInv, TypeOK
  <1>3. Consistent(u) => Stage(r)'
    BY <1>2 DEF Stage, At, Consistent
  <1> QED
    BY <1>1, <1>3, BeginStatement DEF BeginDisable, MfaInv, TypeOK

(* The record a statement goes on with is the same but for its place.       *)
LEMMA GotoRequest ==
    ASSUME MfaInv, NEW r \in Requests, NEW label, Goto(r, label),
           \/ /\ req[r].pc \in {"delSecret", "delCodes", "putSecret"}
              /\ label \in {"delCodes", "putSecret", "putCodes"}
           \/ /\ req[r].pc \in {"disSecret", "disCodes"}
              /\ label \in {"disCodes", "disFlag"}
    PROVE  /\ req'[r] \in AnyRequest /\ Become(r, req'[r])
           /\ req[r].user \in Users /\ req[r].pc \in EnrolSteps
           /\ req'[r].pc = label /\ req'[r].user = req[r].user
           /\ label \in EnrolSteps /\ label \notin FlagSteps
           /\ req[r].pc \in {"delSecret", "delCodes", "putSecret"} =>
                 req'[r].setup = req[r].setup /\ req[r].setup \in Setups
  <1> DEFINE new == [req[r] EXCEPT !.pc = label]
  <1>1. req'[r] = new /\ Become(r, new)
    BY DEF Goto, Become, MfaInv, TypeOK
  <1>2. CASE /\ req[r].pc \in {"delSecret", "delCodes", "putSecret"}
             /\ label \in {"delCodes", "putSecret", "putCodes"}
    <2>1. req[r] \in SetupRequest
      BY <1>2, RequestKinds DEF MfaInv
    <2>2. /\ new \in AnyRequest /\ new.pc = label /\ new.user = req[r].user
          /\ new.setup = req[r].setup
      BY <1>2, <2>1 DEF AnyRequest, SetupRequest
    <2> QED
      BY <1>1, <1>2, <2>1, <2>2 DEF SetupRequest, EnrolSteps, FlagSteps
  <1>3. CASE /\ req[r].pc \in {"disSecret", "disCodes"}
             /\ label \in {"disCodes", "disFlag"}
    <2>1. req[r] \in DisableRequest
      BY <1>3, RequestKinds DEF MfaInv
    <2>2. new \in AnyRequest /\ new.pc = label /\ new.user = req[r].user
      BY <1>3, <2>1 DEF AnyRequest, DisableRequest
    <2> QED
      BY <1>1, <1>3, <2>1, <2>2 DEF DisableRequest, EnrolSteps, FlagSteps
  <1> QED
    BY <1>2, <1>3

(* DELETE FROM mfa_secrets, in a setup and in a disable.                    *)
LEMMA DeleteSecretStep ==
    ASSUME MfaInv, NEW r \in Requests, NEW from, NEW to,
           \/ from = "delSecret" /\ to = "delCodes"
           \/ from = "disSecret" /\ to = "disCodes",
           DeleteSecret(r, from, to)
    PROVE  MfaInv'
  <1> DEFINE u == req[r].user
             new == req'[r]
  <1>1. req[r].pc = from /\ Goto(r, to)
    BY DEF DeleteSecret, At
  <1>2. /\ new \in AnyRequest /\ Become(r, new) /\ u \in Users
        /\ req[r].pc \in EnrolSteps /\ new.pc = to /\ new.user = u
        /\ to \in EnrolSteps /\ to \notin FlagSteps
    BY <1>1, GotoRequest
  <1>3. /\ UNCHANGED <<now, token, generated, enabled, codes, session, access,
                       drawn, history>>
        /\ secret' = [secret EXCEPT ![u] = NoSetup]
    BY DEF DeleteSecret
  <1>4. /\ secret' \in [Users -> Setups \cup {NoSetup}] /\ secret'[u] = NoSetup
        /\ \A v \in Users \ {u} : secret'[v] = secret[v]
    BY <1>2, <1>3 DEF MfaInv, TypeOK
  <1>5. Stage(r) => Stage(r)'
    BY <1>1, <1>2, <1>3, <1>4 DEF Stage, At
  <1> HIDE DEF new, u
  <1>6. req[r].user = u
    BY DEF u
  <1> QED
    BY <1>2, <1>3, <1>4, <1>5, <1>6, NextStatement DEF history, MfaInv, TypeOK

(* DELETE FROM mfa_recovery_codes, in a setup and in a disable.             *)
LEMMA DeleteCodesStep ==
    ASSUME MfaInv, NEW r \in Requests, NEW from, NEW to,
           \/ from = "delCodes" /\ to = "putSecret"
           \/ from = "disCodes" /\ to = "disFlag",
           DeleteCodes(r, from, to)
    PROVE  MfaInv'
  <1> DEFINE u == req[r].user
             new == req'[r]
  <1>1. req[r].pc = from /\ Goto(r, to)
    BY DEF DeleteCodes, At
  <1>2. /\ new \in AnyRequest /\ Become(r, new) /\ u \in Users
        /\ req[r].pc \in EnrolSteps /\ new.pc = to /\ new.user = u
        /\ to \in EnrolSteps /\ to \notin FlagSteps
    BY <1>1, GotoRequest
  <1>3. /\ UNCHANGED <<now, token, generated, enabled, secret, session, access,
                       drawn, history>>
        /\ codes' = [codes EXCEPT ![u] = {}]
    BY DEF DeleteCodes
  <1>4. /\ codes' \in [Users -> SUBSET Setups] /\ codes'[u] = {}
        /\ \A v \in Users \ {u} : codes'[v] = codes[v]
    BY <1>2, <1>3 DEF MfaInv, TypeOK
  <1>5. Stage(r) => Stage(r)'
    BY <1>1, <1>2, <1>3, <1>4 DEF Stage, At
  <1> HIDE DEF new, u
  <1>6. req[r].user = u
    BY DEF u
  <1> QED
    BY <1>2, <1>3, <1>4, <1>5, <1>6, NextStatement DEF history, MfaInv, TypeOK

LEMMA PutSecretStep ==
    ASSUME MfaInv, NEW r \in Requests, PutSecret(r)
    PROVE  MfaInv'
  <1> DEFINE u == req[r].user
             new == req'[r]
  <1>1. req[r].pc = "putSecret" /\ Goto(r, "putCodes")
    BY DEF PutSecret, At
  <1>2. /\ new \in AnyRequest /\ Become(r, new) /\ u \in Users
        /\ req[r].pc \in EnrolSteps /\ new.pc = "putCodes" /\ new.user = u
        /\ new.pc \in EnrolSteps /\ new.pc \notin FlagSteps
        /\ new.setup = req[r].setup /\ req[r].setup \in Setups
    BY <1>1, GotoRequest
  <1>3. /\ UNCHANGED <<now, token, generated, enabled, codes, session, access,
                       drawn, history>>
        /\ secret' = [secret EXCEPT ![u] = req[r].setup]
    BY DEF PutSecret
  <1>4. /\ secret' \in [Users -> Setups \cup {NoSetup}]
        /\ secret'[u] = req[r].setup
        /\ \A v \in Users \ {u} : secret'[v] = secret[v]
    BY <1>2, <1>3 DEF MfaInv, TypeOK
  <1>5. Stage(r) => Stage(r)'
    BY <1>1, <1>2, <1>3, <1>4 DEF Stage, At
  <1> HIDE DEF new, u
  <1>6. req[r].user = u
    BY DEF u
  <1> QED
    BY <1>2, <1>3, <1>4, <1>5, <1>6, NextStatement DEF history, MfaInv, TypeOK

(* A setup ends with its own codes beside its own secret, and not enabled.  *)
LEMMA PutCodesStep ==
    ASSUME MfaInv, NEW r \in Requests, PutCodes(r)
    PROVE  MfaInv'
  <1>1. req[r] \in SetupRequest /\ req[r].pc = "putCodes"
    BY RequestKinds DEF PutCodes, At, MfaInv
  <1>2. PICK u \in Users, g \in Setups : u = req[r].user /\ g = req[r].setup
    BY <1>1 DEF SetupRequest
  <1>3. /\ UNCHANGED <<now, token, generated, enabled, secret, session, access,
                       drawn, history>>
        /\ codes' = [codes EXCEPT ![u] = @ \cup {g}] /\ Finish(r)
    BY <1>2 DEF PutCodes
  <1>4. /\ codes' \in [Users -> SUBSET Setups] /\ codes'[u] = codes[u] \cup {g}
        /\ \A v \in Users \ {u} : codes'[v] = codes[v]
    BY <1>2, <1>3 DEF MfaInv, TypeOK
  <1>5. Stage(r) => Consistent(u)'
    <2> SUFFICES ASSUME Stage(r) PROVE Consistent(u)'
      OBVIOUS
    <2>1. ~ enabled[u] /\ secret[u] = g /\ codes[u] = {}
      BY <1>1, <1>2 DEF Stage, At
    <2>2. ~ enabled'[u] /\ secret'[u] = g /\ codes'[u] = {g} /\ g # NoSetup
      BY <1>3, <1>4, <2>1, SentinelsAssumption
    <2> QED
      BY <2>2 DEF Consistent
  <1>6. req[r].pc \in EnrolSteps /\ Idle.pc \notin FlagSteps
    BY <1>1 DEF EnrolSteps, FlagSteps, Idle
  <1> QED
    BY <1>2, <1>3, <1>4, <1>5, <1>6, FinishVetted, NextStatement
    DEF history, MfaInv, TypeOK

(* An enable ends with the flag on and the code it was shown confirmed; if  *)
(* nobody came between, the secret is still that one.                       *)
LEMMA SetFlagStep ==
    ASSUME MfaInv, NEW r \in Requests, SetFlag(r)
    PROVE  MfaInv'
  <1>1. req[r] \in EnableRequest /\ req[r].pc = "setFlag"
    BY RequestKinds DEF SetFlag, At, MfaInv
  <1>2. PICK u \in Users, g \in Setups : u = req[r].user /\ g = req[r].setup
    BY <1>1 DEF EnableRequest
  <1>3. /\ UNCHANGED <<now, token, generated, secret, codes, session, access, drawn,
                       torn, blocked>>
        /\ enabled' = [enabled EXCEPT ![u] = TRUE]
        /\ confirmed' = [confirmed EXCEPT ![u] = g] /\ Finish(r)
    BY <1>2 DEF SetFlag
  <1>4. /\ enabled' \in [Users -> BOOLEAN]
        /\ confirmed' \in [Users -> Setups \cup {NoSetup}]
        /\ confirmed'[u] = g
        /\ \A v \in Users \ {u} : /\ enabled'[v] = enabled[v]
                                  /\ confirmed'[v] = confirmed[v]
        /\ \A v \in Users : enabled[v] => enabled'[v]
    BY <1>2, <1>3 DEF MfaInv, TypeOK
  <1>5. Stage(r) => Consistent(u)'
    <2> SUFFICES ASSUME Stage(r) PROVE Consistent(u)'
      OBVIOUS
    <2>1. Consistent(u) /\ secret[u] = g /\ secret[u] # NoSetup
      BY <1>1, <1>2 DEF Stage, At
    <2> QED
      BY <1>3, <1>4, <2>1 DEF Consistent
  <1>6. req[r].pc \in EnrolSteps /\ Idle.pc \notin FlagSteps
    BY <1>1 DEF EnrolSteps, FlagSteps, Idle
  <1> QED
    BY <1>2, <1>3, <1>4, <1>5, <1>6, FinishVetted, NextStatement DEF MfaInv, TypeOK

-----------------------------------------------------------------------------
(* The flag goes off: every login and refresh of the account notes it, and  *)
(* the disable leaves neither secret nor codes behind it.                   *)
LEMMA ClearFlagStep ==
    ASSUME MfaInv, NEW r \in Requests, ClearFlag(r)
    PROVE  MfaInv'
  <1>1. req[r] \in DisableRequest /\ req[r].pc = "disFlag"
    BY RequestKinds DEF ClearFlag, At, MfaInv
  <1>2. PICK u \in Users : u = req[r].user
    BY <1>1 DEF DisableRequest
  <1> DEFINE next == [req[r] EXCEPT !.pc = "revokeAll"]
  <1>3. next \in AnyRequest /\ next.pc = "revokeAll"
    BY <1>1 DEF DisableRequest, AnyRequest
  <1>4. /\ UNCHANGED <<now, token, generated, secret, codes, session, access, drawn,
                       history>>
        /\ enabled' = [enabled EXCEPT ![u] = FALSE]
        /\ req' = NoteFlagOff(u, [req EXCEPT ![r].pc = "revokeAll"])
    BY <1>2 DEF ClearFlag
  <1>5. /\ enabled' \in [Users -> BOOLEAN] /\ ~ enabled'[u]
        /\ \A v \in Users \ {u} : enabled'[v] = enabled[v]
    BY <1>4 DEF MfaInv, TypeOK
  <1>6. req'[r] = next
    BY <1>1, <1>4 DEF NoteFlagOff, MfaInv, TypeOK
  <1>7. ASSUME NEW q \in Requests, q # r,
               ~ (req[q].pc \in FlagSteps /\ req[q].user = u)
        PROVE  req'[q] = req[q]
    BY <1>4, <1>7 DEF NoteFlagOff, FlagSteps, MfaInv, TypeOK
  <1>8. ASSUME NEW q \in Requests, q # r, req[q].pc \in FlagSteps, req[q].user = u
        PROVE  /\ req'[q] \in AnyRequest /\ req'[q].pc = req[q].pc
               /\ req'[q].sawOff
               /\ Issuing(q) => req'[q].challenge = req[q].challenge
               /\ req[q].pc = "readFlag" => req'[q].challenge = req[q].challenge
    <2> DEFINE new == [req[q] EXCEPT !.sawOff = TRUE]
    <2>1. req'[q] = new
      BY <1>4, <1>8 DEF NoteFlagOff, FlagSteps, MfaInv, TypeOK
    <2>2. CASE req[q].pc \in {"readFlag", "challenge", "issueRead", "issueCreate"}
      <3>1. req[q] \in LoginRequest
        BY <2>2, RequestKinds DEF MfaInv
      <3>2. /\ new \in AnyRequest /\ new.pc = req[q].pc /\ new.sawOff
            /\ new.challenge = req[q].challenge
        BY <3>1 DEF LoginRequest, AnyRequest
      <3> HIDE DEF new
      <3> QED
        BY <2>1, <3>2
    <2>3. CASE req[q].pc \in {"refreshRead", "refreshSign"}
      <3>1. req[q] \in RefreshRequest
        BY <2>3, RequestKinds DEF MfaInv
      <3>2. new \in AnyRequest /\ new.pc = req[q].pc /\ new.sawOff
        BY <3>1 DEF RefreshRequest, AnyRequest
      <3>3. ~ Issuing(q) /\ req[q].pc # "readFlag"
        BY <2>3 DEF Issuing
      <3> HIDE DEF new
      <3> QED
        BY <2>1, <3>2, <3>3
    <2> QED
      BY <1>8, <2>2, <2>3 DEF FlagSteps
  <1> HIDE DEF next
  <1>9. TypeOK'
    <2>1. req' \in [Requests -> AnyRequest]
      <3>1. \A q \in Requests : req'[q] \in AnyRequest
        BY <1>3, <1>6, <1>7, <1>8 DEF MfaInv, TypeOK
      <3> QED
        BY <1>4, <3>1 DEF NoteFlagOff
    <2> QED
      BY <1>4, <1>5, <2>1 DEF MfaInv, TypeOK, TokensTypeOK, history
  <1>10. \A q \in Requests : Issuing(q)' => /\ Issuing(q)
                                            /\ req'[q].challenge = req[q].challenge
    BY <1>3, <1>6, <1>7, <1>8 DEF Issuing
  <1>11. ChallengesInv'
    <2>1. ChallengeOpensOneSession' /\ SecondFactorNeeded' /\ MfaClaimHonest'
      BY <1>4 DEF MfaInv, ChallengesInv, ChallengeOpensOneSession,
         SecondFactorNeeded, MfaClaimHonest
    <2>2. \A s \in Sids : session'[s] # NoSession =>
             \/ session'[s].challenge = NoChallenge
             \/ /\ token'[session'[s].challenge] # NoToken
                /\ token'[session'[s].challenge].consumed
      BY <1>4 DEF MfaInv, ChallengesInv, Spent
    <2>3. \A x \in Tokens : token'[x] # NoToken => x \in generated'
      BY <1>4 DEF MfaInv, ChallengesInv
    <2>4. ASSUME NEW p \in Requests, NEW q \in Requests, Issuing(p)', Issuing(q)',
                 req'[p].challenge # NoChallenge,
                 req'[p].challenge = req'[q].challenge
          PROVE  p = q
      BY <1>10, <2>4 DEF MfaInv, ChallengesInv
    <2> QED
      BY <2>1, <2>2, <2>3, <2>4 DEF ChallengesInv, Spent
  <1>12. ASSUME NEW q \in Requests PROVE Vetted(q)'
    <2>1. CASE req'[q].pc \notin FlagSteps
      BY <2>1 DEF Vetted, Issuing, At, FlagSteps
    <2>2. CASE q # r /\ req[q].pc \in FlagSteps /\ req[q].user = u
      <3>1. Vetted(q) /\ UNCHANGED <<token, session>>
        BY <1>4 DEF MfaInv
      <3> QED
        BY <1>8, <1>10, <2>2, <3>1 DEF Vetted, Issuing, At, Spent
    <2>3. CASE q # r /\ req[q].pc \in FlagSteps /\ req[q].user # u
      <3>1. req'[q] = req[q] /\ Vetted(q) /\ UNCHANGED <<token, session>>
        BY <1>4, <1>7, <2>3 DEF MfaInv
      <3>2. req[q].user \in Users \ {u}
        BY <2>3, RequestKinds DEF MfaInv, FlagSteps, LoginRequest, RefreshRequest
      <3> QED
        BY <1>5, <3>1, <3>2 DEF Vetted, Issuing, At, Spent
    <2>4. CASE q = r
      BY <1>3, <1>6, <2>1, <2>4 DEF FlagSteps
    <2>5. CASE q # r /\ req[q].pc \notin FlagSteps
      BY <1>7, <2>1, <2>5
    <2> QED
      BY <2>2, <2>3, <2>4, <2>5
  <1>13. \A v \in Users : InOrder(v)'
    <2>1. ASSUME NEW q \in Requests \ {r}
          PROVE  \/ req'[q] = req[q]
                 \/ req[q].pc \notin EnrolSteps /\ req'[q].pc \notin EnrolSteps
      <3>1. CASE req[q].pc \in FlagSteps /\ req[q].user = u
        BY <1>8, <3>1 DEF FlagSteps, EnrolSteps
      <3>2. CASE ~ (req[q].pc \in FlagSteps /\ req[q].user = u)
        BY <1>7, <3>2
      <3> QED
        BY <3>1, <3>2
    <2>2. req[r].pc \in EnrolSteps /\ req'[r].pc \notin EnrolSteps
      BY <1>1, <1>3, <1>6 DEF EnrolSteps
    <2>3. Stage(r) => Consistent(u)'
      <3> SUFFICES ASSUME Stage(r) PROVE Consistent(u)'
        OBVIOUS
      <3>1. secret[u] = NoSetup /\ codes[u] = {}
        BY <1>1, <1>2 DEF Stage, At
      <3> QED
        BY <1>4, <1>5, <3>1 DEF Consistent
    <2> QED
      BY <1>2, <1>4, <1>5, <2>1, <2>2, <2>3, EnrolAdvance DEF history
  <1> QED
    BY <1>9, <1>11, <1>12, <1>13 DEF MfaInv

(* A setup or disable that stops half way tears the account; one that stops *)
(* before its first statement, and any enable, leaves a consistent factor.  *)
LEMMA FailStep ==
    ASSUME MfaInv, NEW r \in Requests, Fail(r)
    PROVE  MfaInv'
  <1>1. /\ UNCHANGED <<now, token, generated, factor, session, access, drawn,
                       confirmed, blocked>>
        /\ Finish(r)
        /\ torn' = [v \in Users |-> torn[v] \/ (HalfWay(r) /\ req[r].user = v)]
    BY DEF Fail
  <1>2. CASE req[r].pc \notin EnrolSteps
    <2>1. ~ HalfWay(r)
      BY <1>2 DEF HalfWay, EnrolSteps
    <2>2. torn' = torn
      BY <1>1, <2>1 DEF MfaInv, TypeOK
    <2> QED
      BY <1>1, <1>2, <2>2, FinishVetted, QuietLoginStep DEF history
  <1>3. CASE req[r].pc \in EnrolSteps
    <2>1. PICK u \in Users : u = req[r].user
      BY <1>3, RequestKinds
      DEF MfaInv, EnrolSteps, SetupRequest, EnableRequest, DisableRequest
    <2>2. /\ torn' \in [Users -> BOOLEAN]
          /\ \A v \in Users : torn[v] => torn'[v]
          /\ HalfWay(r) => torn'[u]
      BY <1>1, <2>1 DEF MfaInv, TypeOK
    <2>3. Stage(r) /\ ~ torn'[u] => Consistent(u)'
      <3> SUFFICES ASSUME Stage(r), ~ torn'[u] PROVE Consistent(u)'
        OBVIOUS
      <3>1. Consistent(u)
        BY <1>3, <2>1, <2>2 DEF HalfWay, EnrolSteps, Stage, At
      <3> QED
        BY <1>1, <3>1 DEF Consistent, factor
    <2>4. Idle.pc \notin FlagSteps
      BY DEF Idle, FlagSteps
    <2>5. /\ UNCHANGED <<enabled, secret, codes, confirmed>>
          /\ enabled' \in [Users -> BOOLEAN]
          /\ secret' \in [Users -> Setups \cup {NoSetup}]
          /\ codes' \in [Users -> SUBSET Setups]
          /\ confirmed' \in [Users -> Setups \cup {NoSetup}]
      BY <1>1 DEF factor, MfaInv, TypeOK
    <2> QED
      BY <1>1, <1>3, <2>1, <2>2, <2>3, <2>4, <2>5, FinishVetted, NextStatement
  <1> QED
    BY <1>2, <1>3

(* Neither the clock nor a stutter touches what the invariant speaks of.    *)
LEMMA StillStep ==
    ASSUME MfaInv, now' \in Nat,
           UNCHANGED <<token, generated, factor, session, access, req, drawn, history>>
    PROVE  MfaInv'
  <1>1. TypeOK'
    BY DEF MfaInv, TypeOK, TokensTypeOK, factor, history
  <1>2. ChallengesInv'
    BY DEF MfaInv, ChallengesInv, Issuing, Spent, ChallengeOpensOneSession,
       SecondFactorNeeded, MfaClaimHonest
  <1>3. \A r \in Requests : Vetted(r)'
    BY DEF MfaInv, Vetted, Issuing, At, Spent, factor
  <1>4. \A u \in Users : InOrder(u)'
    BY FactorKept DEF history
  <1> QED
    BY <1>1, <1>2, <1>3, <1>4 DEF MfaInv

-----------------------------------------------------------------------------
LEMMA NextInv == MfaInv /\ [Next]_vars => MfaInv'
  <1> SUFFICES ASSUME MfaInv, [Next]_vars PROVE MfaInv'
    OBVIOUS
  <1>1. ASSUME NEW r \in Requests, LoginStep(r) PROVE MfaInv'
    BY <1>1, BeginLoginStep, ReadFlagStep, CreateChallengeStep, BeginVerifyStep,
       CheckCodeStep, ConsumeChallengeStep, IssueReadStep, IssueCreateStep,
       BeginRefreshStep, RefreshReadStep, RefreshSignStep DEF LoginStep
  <1>2. ASSUME NEW r \in Requests, EnrolStep(r) PROVE MfaInv'
    <2>1. CASE DeleteSecret(r, "delSecret", "delCodes")
               \/ DeleteSecret(r, "disSecret", "disCodes")
      BY <2>1, DeleteSecretStep
    <2>2. CASE DeleteCodes(r, "delCodes", "putSecret")
               \/ DeleteCodes(r, "disCodes", "disFlag")
      BY <2>2, DeleteCodesStep
    <2> QED
      BY <1>2, <2>1, <2>2, BeginSetupStep, PutSecretStep, PutCodesStep,
         BeginEnableStep, BeginDisableStep, SetFlagStep, ClearFlagStep,
         RevokeAllStep DEF EnrolStep
  <1>3. CASE Tick
    BY <1>3, StillStep DEF Tick, MfaInv, TypeOK, TokensTypeOK
  <1>4. CASE UNCHANGED vars
    BY <1>4, StillStep DEF vars, MfaInv, TypeOK, TokensTypeOK
  <1> QED
    BY <1>1, <1>2, <1>3, <1>4, FailStep DEF Next

(* MfaInv holds in every reachable state of Mfa (mfa.go, session.go, the    *)
(* login and mfa handlers).                                                 *)
THEOREM InvariantHolds == Spec => []MfaInv
  BY InitInv, NextInv, PTL DEF Spec

(* Every variable keeps its type through every statement of mfa.go.         *)
THEOREM TypeCorrect == Spec => []TypeOK
  BY InvariantHolds, PTL DEF MfaInv

(* A challenge lets at most one session in: ConsumeMFAChallenge decides     *)
(* between the requests that passed ValidateMFAChallenge with it.           *)
THEOREM OneSessionPerChallenge == Spec => []ChallengeOpensOneSession
  <1>1. MfaInv => ChallengeOpensOneSession
    BY DEF MfaInv, ChallengesInv
  <1> QED
    BY <1>1, InvariantHolds, PTL

(* Without a challenge no session is opened for an account that was         *)
(* enrolled all through the login (the login handler's MFAEnabled branch).  *)
THEOREM SecondFactorHolds == Spec => []SecondFactorNeeded
  <1>1. MfaInv => SecondFactorNeeded
    BY DEF MfaInv, ChallengesInv
  <1> QED
    BY <1>1, InvariantHolds, PTL

(* mfa_verified is claimed only after a challenge, or for an account that   *)
(* was not enrolled at a moment of the request (session.go, the claim).     *)
THEOREM ClaimIsHonest == Spec => []MfaClaimHonest
  <1>1. MfaInv => MfaClaimHonest
    BY DEF MfaInv, ChallengesInv
  <1> QED
    BY <1>1, InvariantHolds, PTL

(* Setups, enables and disables that neither overlap nor stop half way keep *)
(* secret, codes and flag consistent (SetupTOTP, VerifyTOTPAndEnable,       *)
(* DisableMFA), whatever logins and other accounts do meanwhile.            *)
THEOREM FactorStaysConsistent == Spec => []FactorConsistent
  <1>1. MfaInv => FactorConsistent
    BY DEF MfaInv, InOrder, FactorConsistent
  <1> QED
    BY <1>1, InvariantHolds, PTL

-----------------------------------------------------------------------------
(* The row of a new session, on an id that has none.                        *)
LEMMA SessionBegins ==
    ASSUME MfaInv, NEW r \in Requests, NEW s \in Sids, IssueCreate(r, s)
    PROVE  Life!Next
  <1> DEFINE u == req[r].user
             row == [kind |-> "session", user |-> req[r].user,
                     revoked |-> FALSE, challenge |-> req[r].challenge,
                     sawOff |-> req[r].sawOff]
  <1>1. u \in Users
    BY RequestKinds DEF MfaInv, IssueCreate, At, LoginRequest
  <1>2. session[s] = NoSession /\ session' = [session EXCEPT ![s] = row]
    BY DEF IssueCreate
  <1>3. row # NoSession /\ row.user = u /\ ~ row.revoked
    BY DEF NoSession
  <1>4. \A x \in Sids : session'[x] = IF x = s THEN row ELSE session[x]
    BY <1>2 DEF MfaInv, TypeOK
  <1> HIDE DEF row
  <1>5. liveSessions' = [liveSessions EXCEPT ![u] = @ \cup {s}]
    <2>1. ASSUME NEW v \in Users
          PROVE  liveSessions'[v] =
                    IF v = u THEN liveSessions[v] \cup {s} ELSE liveSessions[v]
      BY <1>1, <1>2, <1>3, <1>4 DEF liveSessions, LiveSession
    <2> QED
      BY <1>1, <2>1 DEF liveSessions
  <1>6. overSessions' = overSessions
    BY <1>2, <1>3, <1>4 DEF overSessions
  <1>7. s \notin overSessions /\ \A v \in Users : s \notin liveSessions[v]
    BY <1>2 DEF overSessions, liveSessions, LiveSession
  <1>8. Life!Begin(u, s)
    BY <1>1, <1>5, <1>6, <1>7 DEF Life!Begin
  <1> QED
    BY <1>1, <1>8 DEF Life!Next

LEMMA RevocationEnds ==
    ASSUME MfaInv, NEW r \in Requests, RevokeAllSessions(r)
    PROVE  Life!Next
  <1>1. PICK u \in Users : u = req[r].user
    BY RequestKinds DEF MfaInv, RevokeAllSessions, At, DisableRequest
  <1>2. PICK E \in SUBSET Sids :
           E = {s \in Sids : session[s] # NoSession /\ session[s].user = u
                             /\ ~ session[s].revoked}
    OBVIOUS
  <1>3. ASSUME NEW s \in Sids
        PROVE  /\ session'[s] # NoSession <=> session[s] # NoSession
               /\ session'[s].user = session[s].user
               /\ session[s] # NoSession =>
                     (session'[s].revoked <=> session[s].revoked \/ s \in E)
    <2>1. session[s] \in SessionRow \cup {NoSession}
      BY DEF MfaInv, TypeOK
    <2>2. CASE session[s] # NoSession /\ session[s].user = u
      <3> DEFINE new == [session[s] EXCEPT !.revoked = TRUE]
      <3>1. session'[s] = new
        BY <1>1, <2>2 DEF RevokeAllSessions
      <3>2. new # NoSession /\ new.user = session[s].user /\ new.revoked
        BY <2>1, <2>2 DEF SessionRow, NoSession
      <3> QED
        BY <1>2, <2>1, <2>2, <3>1, <3>2 DEF SessionRow
    <2>3. CASE ~ (session[s] # NoSession /\ session[s].user = u)
      <3>1. session'[s] = session[s]
        BY <1>1, <2>3 DEF RevokeAllSessions
      <3> QED
        BY <1>2, <2>3, <3>1
    <2> QED
      BY <2>2, <2>3
  <1>4. liveSessions' = [v \in Users |-> liveSessions[v] \ E]
    BY <1>3 DEF liveSessions, LiveSession
  <1>5. overSessions' = overSessions \cup E
    BY <1>2, <1>3 DEF overSessions
  <1>6. \A s \in E : \E v \in Users : s \in liveSessions[v]
    BY <1>1, <1>2 DEF liveSessions, LiveSession
  <1>7. Life!End(E)
    BY <1>4, <1>5, <1>6 DEF Life!End
  <1> QED
    BY <1>7 DEF Life!Next

LEMMA LifeStep ==
    ASSUME MfaInv, [Next]_vars
    PROVE  [Life!Next]_(Life!vars)
  <1>1. CASE UNCHANGED session
    BY <1>1 DEF Life!vars, liveSessions, overSessions, LiveSession
  <1> QED
    BY <1>1, SessionBegins, RevocationEnds
    DEF Next, LoginStep, EnrolStep, BeginLogin, ReadFlag, CreateChallenge,
        BeginVerify, CheckCode, ConsumeChallenge, IssueRead, BeginRefresh,
        RefreshRead, RefreshSign, BeginSetup, DeleteSecret, DeleteCodes,
        PutSecret, PutCodes, BeginEnable, SetFlag, BeginDisable, ClearFlag,
        Fail, Tick, vars

(* Logins, challenges and DisableMFA, for which Mfa has a sessions table of *)
(* its own, treat it as Sessions does: a session begins once and ends once  *)
(* (IssueSession, RevokeAllSessions).                                       *)
THEOREM SessionsLiveOnce == Spec => ImplementsSessionLife
  <1>1. Init => Life!Init
    BY DEF Init, Life!Init, liveSessions, overSessions, LiveSession
  <1>2. MfaInv /\ [Next]_vars => [Life!Next]_(Life!vars)
    BY LifeStep
  <1> QED
    BY <1>1, <1>2, InvariantHolds, PTL
    DEF Spec, ImplementsSessionLife, Life!Spec

-----------------------------------------------------------------------------
(* What a step does to the challenges request q brought back or carries,    *)
(* when it does not concern them.                                           *)
Keeps(q) ==
    \A t \in Tokens :
        /\ Carries(q, t)' <=> Carries(q, t)
        /\ Brought(q, t)' => Brought(q, t)
        /\ Carries(q, t)' \/ Brought(q, t)' => req'[q].user = req[q].user

LEMMA Moved ==
    ASSUME MfaInv, NEW r \in Requests, NEW label, Goto(r, label)
    PROVE  /\ \A q \in Requests \ {r} : req'[q] = req[q]
           /\ req'[r] = [req[r] EXCEPT !.pc = label]
           /\ req'[r].pc = label
  <1>1. /\ \A q \in Requests \ {r} : req'[q] = req[q]
        /\ req'[r] = [req[r] EXCEPT !.pc = label]
    BY DEF Goto, MfaInv, TypeOK
  <1>2. req[r] \in AnyRequest
    BY DEF MfaInv, TypeOK
  <1>3. [req[r] EXCEPT !.pc = label].pc = label
    BY <1>2 DEF AnyRequest, LoginRequest, VerifyRequest, RefreshRequest,
       SetupRequest, EnableRequest, DisableRequest, Idle
  <1> QED
    BY <1>1, <1>3

LEMMA Replaced ==
    ASSUME MfaInv, NEW r \in Requests, NEW request, Become(r, request)
    PROVE  /\ \A q \in Requests \ {r} : req'[q] = req[q]
           /\ req'[r] = request
  BY DEF Become, MfaInv, TypeOK

LEMMA OthersKeep ==
    ASSUME NEW r \in Requests, \A q \in Requests \ {r} : req'[q] = req[q]
    PROVE  \A q \in Requests \ {r} : Keeps(q)
  BY DEF Keeps, Carries, Brought

LEMMA Elsewhere ==
    ASSUME NEW r \in Requests, \A q \in Requests \ {r} : req'[q] = req[q],
           ~ Issuing(r), ~ Issuing(r)', req'[r].pc \notin {"code", "consume"}
    PROVE  \A q \in Requests : Keeps(q)
  BY OthersKeep DEF Keeps, Carries, Brought, Issuing

(* Every step that neither creates, consumes nor uses a challenge, brings   *)
(* one back or gives up.                                                    *)
LEMMA QuietSteps ==
    ASSUME MfaInv, NEW r \in Requests,
           \/ \E u \in Users : BeginLogin(r, u)
           \/ ReadFlag(r) \/ CheckCode(r) \/ IssueRead(r)
           \/ \E s \in Sids : BeginRefresh(r, s)
           \/ RefreshRead(r) \/ RefreshSign(r)
           \/ EnrolStep(r)
    PROVE  \A q \in Requests : Keeps(q)
  <1>1. CASE ReadFlag(r)
    <2>1. PICK label \in {"challenge", "issueRead"} : Goto(r, label)
      BY <1>1 DEF ReadFlag
    <2>2. req[r] \in LoginRequest /\ req[r].pc = "readFlag"
          /\ req[r].challenge = NoChallenge
      BY <1>1, RequestKinds DEF ReadFlag, MfaInv, Vetted, At
    <2>3. /\ \A q \in Requests \ {r} : req'[q] = req[q]
          /\ req'[r] = [req[r] EXCEPT !.pc = label] /\ req'[r].pc = label
      BY <2>1, Moved
    <2>4. req'[r].challenge = NoChallenge
      BY <2>2, <2>3 DEF LoginRequest
    <2>5. Keeps(r)
      BY <2>2, <2>3, <2>4, SentinelsAssumption DEF Keeps, Carries, Brought
    <2> QED
      BY <2>3, <2>5, OthersKeep
  <1>2. CASE CheckCode(r)
    <2>1. req[r] \in VerifyRequest /\ req[r].pc = "code"
      BY <1>2, RequestKinds DEF CheckCode, MfaInv, At
    <2>2. /\ \A q \in Requests \ {r} : req'[q] = req[q]
          /\ req'[r] = [req[r] EXCEPT !.pc = "consume"] /\ req'[r].pc = "consume"
      BY <1>2, Moved DEF CheckCode
    <2>3. req'[r].user = req[r].user /\ req'[r].tok = req[r].tok
      BY <2>1, <2>2 DEF VerifyRequest
    <2>4. Keeps(r)
      BY <2>1, <2>2, <2>3 DEF Keeps, Carries, Brought
    <2> QED
      BY <2>2, <2>4, OthersKeep
  <1>3. CASE IssueRead(r)
    <2> DEFINE new == [req[r] EXCEPT !.pc = "issueCreate",
                                     !.flag = enabled[req[r].user]]
    <2>1. req[r] \in LoginRequest /\ req[r].pc = "issueRead"
      BY <1>3, RequestKinds DEF IssueRead, MfaInv, At
    <2>2. (\A q \in Requests \ {r} : req'[q] = req[q]) /\ req'[r] = new
      BY <1>3 DEF IssueRead, MfaInv, TypeOK
    <2>3. /\ new.pc = "issueCreate" /\ new.user = req[r].user
          /\ new.challenge = req[r].challenge
      BY <2>1 DEF LoginRequest
    <2>4. Keeps(r)
      BY <2>1, <2>2, <2>3 DEF Keeps, Carries, Brought
    <2> QED
      BY <2>2, <2>4, OthersKeep
  <1>4. CASE ClearFlag(r)
    <2>1. PICK u \in Users : u = req[r].user
      BY <1>4, RequestKinds DEF MfaInv, ClearFlag, At, DisableRequest
    <2>2. PICK reqs : reqs = [req EXCEPT ![r].pc = "revokeAll"]
      OBVIOUS
    <2>3. /\ req[r].pc = "disFlag" /\ req' = NoteFlagOff(u, reqs)
          /\ req[r] \in DisableRequest
      BY <1>4, <2>1, <2>2, RequestKinds DEF ClearFlag, At, MfaInv
    <2>4. /\ \A q \in Requests \ {r} : reqs[q] = req[q]
          /\ reqs[r].pc = "revokeAll"
      BY <2>2, <2>3 DEF MfaInv, TypeOK, DisableRequest
    <2>5. ASSUME NEW q \in Requests \ {r} PROVE Keeps(q)
      <3>1. CASE req'[q] = req[q]
        BY <3>1 DEF Keeps, Carries, Brought
      <3>2. CASE req'[q] # req[q]
        <4>1. /\ req'[q] = [req[q] EXCEPT !.sawOff = TRUE]
              /\ req[q].pc \in FlagSteps
          BY <2>3, <2>4, <3>2 DEF NoteFlagOff, FlagSteps
        <4>2. req[q] \in LoginRequest \cup RefreshRequest
          BY <4>1, RequestKinds DEF MfaInv, FlagSteps
        <4>3. /\ req'[q].pc = req[q].pc /\ req'[q].user = req[q].user
              /\ req[q] \in LoginRequest => req'[q].challenge = req[q].challenge
          BY <4>1, <4>2 DEF LoginRequest, RefreshRequest
        <4>4. Issuing(q) => req[q] \in LoginRequest
          BY RequestKinds DEF MfaInv, Issuing
        <4> QED
          BY <4>1, <4>3, <4>4 DEF Keeps, Carries, Brought, Issuing, FlagSteps
      <3> QED
        BY <3>1, <3>2
    <2>6. Keeps(r)
      <3>1. req'[r].pc = "revokeAll"
        BY <2>3, <2>4 DEF NoteFlagOff
      <3> QED
        BY <2>3, <3>1 DEF Keeps, Carries, Brought
    <2> QED
      BY <2>5, <2>6
  <1>5. CASE \/ \E u \in Users : BeginLogin(r, u)
             \/ \E s \in Sids : BeginRefresh(r, s)
             \/ RefreshSign(r) \/ PutCodes(r) \/ SetFlag(r)
             \/ RevokeAllSessions(r)
             \/ \E u \in Users, g \in Setups : BeginSetup(r, u, g)
             \/ \E u \in Users : BeginEnable(r, u) \/ BeginDisable(r, u)
    <2>1. PICK request : /\ Become(r, request) /\ ~ Issuing(r)
                         /\ request.pc \notin {"code", "consume",
                                              "issueRead", "issueCreate"}
      <3>1. CASE RefreshSign(r) \/ PutCodes(r) \/ SetFlag(r) \/ RevokeAllSessions(r)
        BY <3>1 DEF RefreshSign, PutCodes, SetFlag, RevokeAllSessions, Finish,
           Idle, Issuing, At
      <3>2. CASE \E u \in Users : BeginLogin(r, u)
        BY <3>2 DEF BeginLogin, Issuing, At
      <3>3. CASE \E s \in Sids : BeginRefresh(r, s)
        BY <3>3 DEF BeginRefresh, Issuing, At
      <3>4. CASE \E u \in Users, g \in Setups : BeginSetup(r, u, g)
        BY <3>4 DEF BeginSetup, Issuing, At
      <3>5. CASE \E u \in Users : BeginEnable(r, u)
        BY <3>5 DEF BeginEnable, Issuing, At
      <3>6. CASE \E u \in Users : BeginDisable(r, u)
        BY <3>6 DEF BeginDisable, Issuing, At
      <3> QED
        BY <1>5, <3>1, <3>2, <3>3, <3>4, <3>5, <3>6
    <2>2. (\A q \in Requests \ {r} : req'[q] = req[q]) /\ req'[r] = request
      BY <2>1, Replaced
    <2> QED
      BY <2>1, <2>2, Elsewhere DEF Issuing
  <1>6. CASE \/ DeleteSecret(r, "delSecret", "delCodes")
             \/ DeleteCodes(r, "delCodes", "putSecret")
             \/ PutSecret(r)
             \/ DeleteSecret(r, "disSecret", "disCodes")
             \/ DeleteCodes(r, "disCodes", "disFlag")
    <2>1. PICK label \in EnrolSteps : Goto(r, label) /\ ~ Issuing(r)
      BY <1>6 DEF DeleteSecret, DeleteCodes, PutSecret, EnrolSteps, Issuing, At
    <2>2. (\A q \in Requests \ {r} : req'[q] = req[q]) /\ req'[r].pc = label
      BY <2>1, Moved
    <2> QED
      BY <2>1, <2>2, Elsewhere DEF Issuing, EnrolSteps
  <1>7. CASE RefreshRead(r)
    <2> DEFINE new == [req[r] EXCEPT !.pc = "refreshSign",
                                     !.flag = enabled[req[r].user]]
    <2>1. req[r] \in RefreshRequest /\ req[r].pc = "refreshRead"
      BY <1>7, RequestKinds DEF RefreshRead, MfaInv, At
    <2>2. (\A q \in Requests \ {r} : req'[q] = req[q]) /\ req'[r] = new
      BY <1>7 DEF RefreshRead, MfaInv, TypeOK
    <2>3. new.pc = "refreshSign"
      BY <2>1 DEF RefreshRequest
    <2> QED
      BY <2>1, <2>2, <2>3, Elsewhere DEF Issuing
  <1> QED
    BY <1>1, <1>2, <1>3, <1>4, <1>5, <1>6, <1>7 DEF EnrolStep

LEMMA OwnersKept ==
    ASSUME OwnersServed, NEW r \in Requests,
           \A t \in Tokens : token[t] # NoToken =>
              token'[t] # NoToken /\ token'[t].user = token[t].user,
           \A q \in Requests \ {r} : Keeps(q),
           ServesOwner(r)'
    PROVE  OwnersServed'
  <1> SUFFICES ASSUME NEW q \in Requests, q # r PROVE ServesOwner(q)'
    BY DEF OwnersServed
  <1> QED
    BY DEF OwnersServed, ServesOwner, Keeps

LEMMA OwnersStep ==
    ASSUME MfaInv, OwnersServed, [Next]_vars
    PROVE  OwnersServed'
  <1>1. ASSUME NEW r \in Requests, \A q \in Requests : Keeps(q), UNCHANGED token
        PROVE  OwnersServed'
    BY <1>1 DEF OwnersServed, ServesOwner, Keeps
  <1>2. ASSUME NEW r \in Requests, Finish(r),
               \A t \in Tokens : token[t] # NoToken =>
                  token'[t] # NoToken /\ token'[t].user = token[t].user
        PROVE  OwnersServed'
    <2>1. (\A q \in Requests \ {r} : req'[q] = req[q]) /\ req'[r] = Idle
      BY <1>2, Replaced DEF Finish
    <2>2. ServesOwner(r)'
      BY <2>1 DEF ServesOwner, Brought, Carries, Idle
    <2> QED
      BY <1>2, <2>1, <2>2, OthersKeep, OwnersKept
  <1>3. ASSUME NEW r \in Requests, NEW t \in Tokens, CreateChallenge(r, t)
        PROVE  OwnersServed'
    <2>1. token[t] = NoToken
      BY <1>3 DEF CreateChallenge, Draw, MfaInv, ChallengesInv
    <2>2. \A x \in Tokens \ {t} : token'[x] = token[x]
      BY <1>3 DEF CreateChallenge, MfaInv, TypeOK, TokensTypeOK
    <2> QED
      BY <1>2, <1>3, <2>1, <2>2 DEF CreateChallenge
  <1>4. ASSUME NEW r \in Requests, NEW t \in Tokens, BeginVerify(r, t)
        PROVE  OwnersServed'
    <2>1. /\ \A q \in Requests \ {r} : req'[q] = req[q]
          /\ req'[r] = [pc |-> "code", user |-> token[t].user, tok |-> t]
      BY <1>4, Replaced DEF BeginVerify
    <2>2. token[t] # NoToken /\ UNCHANGED token
      BY <1>4 DEF BeginVerify, IsValid, Active
    <2>3. ServesOwner(r)'
      BY <2>1, <2>2 DEF ServesOwner, Brought, Carries
    <2> QED
      BY <2>1, <2>2, <2>3, OthersKeep, OwnersKept
  <1>5. ASSUME NEW r \in Requests, ConsumeChallenge(r) PROVE OwnersServed'
    <2>1. req[r] \in VerifyRequest /\ req[r].pc = "consume"
      BY <1>5, RequestKinds DEF ConsumeChallenge, MfaInv, At
    <2>2. PICK t \in Tokens : t = req[r].tok
      BY <2>1 DEF VerifyRequest
    <2>3. /\ \A q \in Requests \ {r} : req'[q] = req[q]
          /\ req'[r].pc = "issueRead" /\ req'[r].user = req[r].user
          /\ req'[r].challenge = t
      BY <1>5, <2>2, Replaced DEF ConsumeChallenge, IssueVerified
    <2>4. \A x \in Tokens : token[x] # NoToken =>
             token'[x] # NoToken /\ token'[x].user = token[x].user
      <3>1. /\ token[t] \in TokenRow
            /\ token' = [token EXCEPT ![t] = [token[t] EXCEPT !.consumed = TRUE]]
        BY <1>5, <2>2 DEF ConsumeChallenge, MarkConsumed, Active, MfaInv, TypeOK,
           TokensTypeOK
      <3>2. /\ [token[t] EXCEPT !.consumed = TRUE].user = token[t].user
            /\ [token[t] EXCEPT !.consumed = TRUE] # NoToken
        BY <3>1 DEF TokenRow, NoToken
      <3> QED
        BY <3>1, <3>2 DEF MfaInv, TypeOK, TokensTypeOK
    <2>5. Brought(r, t) /\ token[t] # NoToken /\ token[t].user = req[r].user
      BY <2>1, <2>2 DEF Brought, OwnersServed, ServesOwner
    <2>6. ServesOwner(r)'
      BY <2>3, <2>4, <2>5 DEF ServesOwner, Brought, Carries
    <2> QED
      BY <2>3, <2>4, <2>6, OthersKeep, OwnersKept
  <1>6. ASSUME NEW r \in Requests, NEW s \in Sids, IssueCreate(r, s)
        PROVE  OwnersServed'
    BY <1>2, <1>6 DEF IssueCreate
  <1>7. ASSUME NEW r \in Requests, Fail(r) PROVE OwnersServed'
    BY <1>2, <1>7 DEF Fail
  <1>8. CASE UNCHANGED <<req, token>>
    BY <1>8 DEF OwnersServed, ServesOwner, Brought, Carries
  <1>9. ASSUME NEW r \in Requests, EnrolStep(r) PROVE UNCHANGED token
    BY <1>9 DEF EnrolStep, BeginSetup, DeleteSecret, DeleteCodes, PutSecret,
       PutCodes, BeginEnable, SetFlag, BeginDisable, ClearFlag, RevokeAllSessions
  <1>10. ASSUME NEW r \in Requests, EnrolStep(r) PROVE OwnersServed'
    BY <1>1, <1>9, <1>10, QuietSteps
  <1>11. ASSUME NEW r \in Requests, LoginStep(r) PROVE OwnersServed'
    BY <1>1, <1>3, <1>4, <1>5, <1>6, <1>11, QuietSteps
    DEF LoginStep, BeginLogin, ReadFlag, CheckCode, IssueRead, BeginRefresh,
        RefreshRead, RefreshSign
  <1> QED
    BY <1>7, <1>8, <1>10, <1>11 DEF Next, Tick, vars

THEOREM OwnersAreServed == Spec => []OwnersServed
  <1>1. Init => OwnersServed
    BY DEF Init, OwnersServed, ServesOwner, Brought, Carries, Idle
  <1>2. MfaInv /\ OwnersServed /\ [Next]_vars => OwnersServed'
    BY OwnersStep
  <1> QED
    BY <1>1, <1>2, InvariantHolds, PTL DEF Spec

-----------------------------------------------------------------------------
(* Seen from the challenges, each step is one of OneTimeGrant or none.      *)
LEMMA SameClaims ==
    ASSUME \A q \in Requests : Keeps(q)
    PROVE  claimedChallenges' = claimedChallenges
  BY DEF claimedChallenges, Keeps

LEMMA SameGrants ==
    ASSUME \A q \in Requests : Keeps(q), UNCHANGED token,
           \A s \in Sids : /\ session'[s] # NoSession <=> session[s] # NoSession
                           /\ session[s] # NoSession =>
                                 /\ session'[s].user = session[s].user
                                 /\ session'[s].challenge = session[s].challenge
    PROVE  UNCHANGED Grant!vars
  <1>1. challengesOf' = challengesOf /\ openChallenges' = openChallenges
    BY DEF challengesOf, openChallenges, Active
  <1>2. openedWith' = openedWith
    BY DEF openedWith
  <1> QED
    BY <1>1, <1>2, SameClaims DEF Grant!vars

LEMMA CreationMakes ==
    ASSUME MfaInv, NEW r \in Requests, NEW t \in Tokens, CreateChallenge(r, t)
    PROVE  [Grant!Next]_(Grant!vars)
  <1>1. PICK u \in Users : u = req[r].user
    BY RequestKinds DEF MfaInv, CreateChallenge, At, LoginRequest
  <1>2. /\ \A q \in Requests \ {r} : req'[q] = req[q]
        /\ req'[r] = Idle /\ req[r].pc = "challenge"
    BY Replaced DEF CreateChallenge, Finish, At
  <1>3. \A q \in Requests : Keeps(q)
    BY <1>2, Elsewhere DEF Issuing, Idle
  <1>4. CASE ActiveOf(u) # {}
    BY <1>1, <1>3, <1>4, SameGrants DEF CreateChallenge
  <1>5. CASE ActiveOf(u) = {}
    <2>1. token' = [token EXCEPT ![t] = Inserted(u, Expiry)] /\ token[t] = NoToken
      BY <1>1, <1>5 DEF CreateChallenge, Draw, MfaInv, ChallengesInv
    <2>2. PICK row : row = Inserted(u, Expiry)
      OBVIOUS
    <2>3. row # NoToken /\ row.user = u /\ ~ row.consumed
      BY <2>2 DEF Inserted, NoToken
    <2>4. \A x \in Tokens : token'[x] = IF x = t THEN row ELSE token[x]
      BY <2>1, <2>2 DEF MfaInv, TypeOK, TokensTypeOK
    <2>5. challengesOf' = [challengesOf EXCEPT ![u] = @ \cup {t}]
      <3>1. ASSUME NEW v \in Users
            PROVE  challengesOf'[v] =
                      IF v = u THEN challengesOf[v] \cup {t} ELSE challengesOf[v]
        BY <2>1, <2>3, <2>4 DEF challengesOf
      <3> QED
        BY <3>1 DEF challengesOf
    <2>6. openChallenges' = openChallenges \cup {t}
      BY <2>3, <2>4 DEF openChallenges, Active
    <2>7. openedWith' = openedWith
      BY DEF CreateChallenge, openedWith
    <2>8. /\ \A v \in Users : t \notin challengesOf[v]
          /\ challengesOf[u] \cap openChallenges = {}
      BY <1>5, <2>1 DEF challengesOf, openChallenges, ActiveOf
    <2>9. Grant!Make(u, t)
      BY <1>3, <2>5, <2>6, <2>7, <2>8, SameClaims DEF Grant!Make
    <2> QED
      BY <2>9 DEF Grant!Next
  <1> QED
    BY <1>4, <1>5

LEMMA ConsumptionClaims ==
    ASSUME MfaInv, NEW r \in Requests, ConsumeChallenge(r)
    PROVE  Grant!Next
  <1>1. req[r] \in VerifyRequest /\ req[r].pc = "consume"
    BY RequestKinds DEF ConsumeChallenge, MfaInv, At
  <1>2. PICK t \in Tokens : t = req[r].tok
    BY <1>1 DEF VerifyRequest
  <1>3. /\ \A q \in Requests \ {r} : req'[q] = req[q]
        /\ req'[r].pc = "issueRead" /\ req'[r].challenge = t
    BY <1>2, Replaced DEF ConsumeChallenge, IssueVerified
  <1>4. PICK row : row = [token[t] EXCEPT !.consumed = TRUE]
    OBVIOUS
  <1>5. /\ Active(t) /\ token[t] \in TokenRow
        /\ \A x \in Tokens : token'[x] = IF x = t THEN row ELSE token[x]
    BY <1>2, <1>4 DEF ConsumeChallenge, MarkConsumed, Active, MfaInv, TypeOK,
       TokensTypeOK
  <1>6. row # NoToken /\ row.user = token[t].user /\ row.consumed
    BY <1>4, <1>5 DEF TokenRow, NoToken
  <1>7. challengesOf' = challengesOf
    BY <1>5, <1>6 DEF challengesOf, Active
  <1>8. openChallenges' = openChallenges \ {t} /\ t \in openChallenges
    BY <1>5, <1>6 DEF openChallenges, Active
  <1>9. openedWith' = openedWith
    BY DEF ConsumeChallenge, openedWith
  <1>10. claimedChallenges' = claimedChallenges \cup {t}
    <2>1. \A x \in Tokens : Carries(r, x)' <=> x = t
      BY <1>3 DEF Carries
    <2>2. \A x \in Tokens : ~ Carries(r, x)
      BY <1>1 DEF Carries
    <2>3. \A q \in Requests \ {r} : Keeps(q)
      BY <1>3, OthersKeep
    <2> QED
      BY <2>1, <2>2, <2>3 DEF claimedChallenges, Keeps
  <1>11. Grant!Claim(t)
    BY <1>7, <1>8, <1>9, <1>10 DEF Grant!Claim
  <1> QED
    BY <1>11 DEF Grant!Next

(* When a request that carries t is done, nobody carries t any more.        *)
LEMMA LetGo ==
    ASSUME MfaInv, NEW r \in Requests, NEW t \in Tokens, Carries(r, t), Finish(r)
    PROVE  claimedChallenges' = claimedChallenges \ {t} /\ t \in claimedChallenges
  <1>1. (\A q \in Requests \ {r} : req'[q] = req[q]) /\ req'[r] = Idle
    BY Replaced DEF Finish
  <1>2. \A x \in Tokens : ~ Carries(r, x)' /\ (Carries(r, x) <=> x = t)
    BY <1>1 DEF Carries, Idle
  <1>3. ASSUME NEW q \in Requests, Carries(q, t) PROVE q = r
    BY <1>3, SentinelsAssumption DEF MfaInv, ChallengesInv, Issuing, Carries
  <1>4. \A q \in Requests \ {r} : Keeps(q)
    BY <1>1, OthersKeep
  <1> QED
    BY <1>2, <1>3, <1>4 DEF claimedChallenges, Keeps

LEMMA LetGoOfNone ==
    ASSUME MfaInv, NEW r \in Requests, Finish(r),
           \A t \in Tokens : ~ Carries(r, t)
    PROVE  \A q \in Requests : Keeps(q)
  <1>1. (\A q \in Requests \ {r} : req'[q] = req[q]) /\ req'[r] = Idle
    BY Replaced DEF Finish
  <1> QED
    BY <1>1, OthersKeep DEF Keeps, Carries, Brought, Idle

LEMMA IssuingUses ==
    ASSUME MfaInv, OwnersServed, NEW r \in Requests, NEW s \in Sids,
           IssueCreate(r, s)
    PROVE  [Grant!Next]_(Grant!vars)
  <1>1. req[r] \in LoginRequest /\ req[r].pc = "issueCreate" /\ Finish(r)
    BY RequestKinds DEF MfaInv, IssueCreate, At
  <1>2. PICK u \in Users : u = req[r].user
    BY <1>1 DEF LoginRequest
  <1>3. PICK t \in Tokens \cup {NoChallenge} : t = req[r].challenge
    BY <1>1 DEF LoginRequest
  <1>4. PICK row : row = [kind |-> "session", user |-> req[r].user,
                          revoked |-> FALSE, challenge |-> req[r].challenge,
                          sawOff |-> req[r].sawOff]
    OBVIOUS
  <1>5. row # NoSession /\ row.user = u /\ row.challenge = t
    BY <1>2, <1>3, <1>4 DEF NoSession
  <1>6. /\ session[s] = NoSession /\ UNCHANGED token
        /\ \A x \in Sids : session'[x] = IF x = s THEN row ELSE session[x]
    BY <1>4 DEF IssueCreate, MfaInv, TypeOK
  <1>7. challengesOf' = challengesOf /\ openChallenges' = openChallenges
    BY <1>6 DEF challengesOf, openChallenges, Active
  <1>8. ASSUME NEW x \in Tokens
        PROVE  openedWith'[x] =
                  IF x = t THEN openedWith[x] \cup {<<u, s>>} ELSE openedWith[x]
    <2>1. /\ openedWith[x] = {p \in Users \X Sids :
                                /\ session[p[2]] # NoSession
                                /\ session[p[2]].user = p[1]
                                /\ session[p[2]].challenge = x}
          /\ openedWith'[x] = {p \in Users \X Sids :
                                /\ session'[p[2]] # NoSession
                                /\ session'[p[2]].user = p[1]
                                /\ session'[p[2]].challenge = x}
      BY DEF openedWith
    <2>2. ASSUME NEW v \in Users, NEW y \in Sids
          PROVE  <<v, y>> \in openedWith'[x] <=>
                    <<v, y>> \in openedWith[x] \/ (x = t /\ v = u /\ y = s)
      BY <1>5, <1>6, <2>1
    <2>3. /\ openedWith[x] \subseteq Users \X Sids
          /\ openedWith'[x] \subseteq Users \X Sids
      BY <2>1
    <2>4. ASSUME NEW p \in Users \X Sids
          PROVE  p \in openedWith'[x] <=>
                    p \in openedWith[x] \/ (x = t /\ p = <<u, s>>)
      <3>1. PICK v \in Users, y \in Sids : p = <<v, y>>
        OBVIOUS
      <3> QED
        BY <2>2, <3>1
    <2>5. CASE x = t
      BY <1>2, <2>3, <2>4, <2>5
    <2>6. CASE x # t
      BY <2>3, <2>4, <2>6
    <2> QED
      BY <2>5, <2>6
  <1>9. CASE t = NoChallenge
    <2>1. \A x \in Tokens : ~ Carries(r, x)
      BY <1>3, <1>9, SentinelsAssumption DEF Carries
    <2>2. openedWith' = openedWith
      BY <1>8, <1>9, SentinelsAssumption DEF openedWith
    <2> QED
      BY <1>1, <1>7, <2>1, <2>2, LetGoOfNone, SameClaims DEF Grant!vars
  <1>10. CASE t \in Tokens
    <2>1. Carries(r, t)
      BY <1>1, <1>3 DEF Carries
    <2>2. t \in challengesOf[u]
      BY <1>2, <1>10, <2>1 DEF challengesOf, OwnersServed, ServesOwner
    <2>3. \A v \in Users, h \in Tokens : <<v, s>> \notin openedWith[h]
      BY <1>6 DEF openedWith
    <2>4. openedWith' = [openedWith EXCEPT ![t] = @ \cup {<<u, s>>}]
      BY <1>8, <1>10 DEF openedWith
    <2>5. Grant!Use(u, t, s)
      BY <1>1, <1>7, <1>10, <2>1, <2>2, <2>3, <2>4, LetGo DEF Grant!Use
    <2> QED
      BY <1>10, <2>5 DEF Grant!Next
  <1> QED
    BY <1>9, <1>10

LEMMA FailureWastes ==
    ASSUME MfaInv, NEW r \in Requests, Fail(r)
    PROVE  [Grant!Next]_(Grant!vars)
  <1>1. Finish(r) /\ UNCHANGED <<token, session>>
    BY DEF Fail
  <1>2. CASE \E t \in Tokens : Carries(r, t)
    <2>1. PICK t \in Tokens : Carries(r, t)
      BY <1>2
    <2>2. UNCHANGED <<challengesOf, openChallenges, openedWith>>
      BY <1>1 DEF challengesOf, openChallenges, openedWith, Active
    <2>3. Grant!Waste(t)
      BY <1>1, <2>1, <2>2, LetGo DEF Grant!Waste
    <2> QED
      BY <2>3 DEF Grant!Next
  <1>3. CASE \A t \in Tokens : ~ Carries(r, t)
    BY <1>1, <1>3, LetGoOfNone, SameGrants
  <1> QED
    BY <1>2, <1>3

LEMMA GrantStep ==
    ASSUME MfaInv, OwnersServed, [Next]_vars
    PROVE  [Grant!Next]_(Grant!vars)
  <1>1. ASSUME NEW r \in Requests, LoginStep(r) PROVE [Grant!Next]_(Grant!vars)
    <2>1. ASSUME NEW t \in Tokens, BeginVerify(r, t)
          PROVE  UNCHANGED Grant!vars
      <3>1. /\ \A q \in Requests \ {r} : req'[q] = req[q]
            /\ req[r].pc = "idle" /\ req'[r].pc = "code"
        BY <2>1, Replaced DEF BeginVerify, At
      <3>2. claimedChallenges' = claimedChallenges
        BY <3>1 DEF claimedChallenges, Carries
      <3> QED
        BY <2>1, <3>2 DEF BeginVerify, Grant!vars, challengesOf, openChallenges,
           openedWith, Active
    <2>2. CASE \/ \E u \in Users : BeginLogin(r, u)
               \/ ReadFlag(r) \/ CheckCode(r) \/ IssueRead(r)
               \/ \E s \in Sids : BeginRefresh(r, s)
               \/ RefreshRead(r) \/ RefreshSign(r)
      <3>1. UNCHANGED <<token, session>>
        BY <2>2 DEF BeginLogin, ReadFlag, CheckCode, IssueRead, BeginRefresh,
           RefreshRead, RefreshSign
      <3>2. \A q \in Requests : Keeps(q)
        BY <2>2, QuietSteps
      <3> QED
        BY <3>1, <3>2, SameGrants
    <2> QED
      BY <1>1, <2>1, <2>2, CreationMakes, ConsumptionClaims, IssuingUses
      DEF LoginStep
  <1>2. ASSUME NEW r \in Requests, EnrolStep(r) PROVE UNCHANGED Grant!vars
    <2>1. \A q \in Requests : Keeps(q)
      BY <1>2, QuietSteps
    <2>2. CASE RevokeAllSessions(r)
      <3>1. ASSUME NEW s \in Sids
            PROVE  /\ session'[s] # NoSession <=> session[s] # NoSession
                   /\ session[s] # NoSession =>
                         /\ session'[s].user = session[s].user
                         /\ session'[s].challenge = session[s].challenge
        <4>1. session[s] \in SessionRow \cup {NoSession}
          BY DEF MfaInv, TypeOK
        <4>2. CASE session'[s] = session[s]
          BY <4>2
        <4>3. CASE session'[s] # session[s]
          <5>1. /\ session'[s] = [session[s] EXCEPT !.revoked = TRUE]
                /\ session[s] # NoSession
            BY <2>2, <4>3 DEF RevokeAllSessions
          <5> QED
            BY <4>1, <5>1 DEF SessionRow, NoSession
        <4> QED
          BY <4>2, <4>3
      <3> QED
        BY <2>1, <2>2, <3>1, SameGrants DEF RevokeAllSessions
    <2>3. CASE ~ RevokeAllSessions(r)
      <3>1. UNCHANGED <<token, session>>
        BY <1>2, <2>3 DEF EnrolStep, BeginSetup, DeleteSecret, DeleteCodes,
           PutSecret, PutCodes, BeginEnable, SetFlag, BeginDisable, ClearFlag
      <3> QED
        BY <2>1, <3>1, SameGrants
    <2> QED
      BY <2>2, <2>3
  <1>3. CASE UNCHANGED <<token, session, req>>
    BY <1>3 DEF Grant!vars, challengesOf, openChallenges, claimedChallenges,
       openedWith, Carries, Active
  <1> QED
    BY <1>1, <1>2, <1>3, FailureWastes DEF Next, Tick, vars

(* A challenge is a one-time grant: it opens one session at most, of the    *)
(* account it was created for, through one of the requests that brought it  *)
(* back, and an account has one open challenge (CreateMFAChallenge,         *)
(* ConsumeMFAChallenge, IssueSession).                                      *)
THEOREM ChallengesAreOneTimeGrants == Spec => ImplementsOneTimeGrant
  <1>1. Init => Grant!Init
    BY DEF Init, TokensInit, Grant!Init, challengesOf, openChallenges,
       claimedChallenges, openedWith, Carries, Active, Idle
  <1>2. MfaInv /\ OwnersServed /\ [Next]_vars => [Grant!Next]_(Grant!vars)
    BY GrantStep
  <1> QED
    BY <1>1, <1>2, InvariantHolds, OwnersAreServed, PTL
    DEF Spec, ImplementsOneTimeGrant, Grant!Spec

(* What a one-time grant promises, of whatever state stands for it.         *)
LEMMA GrantInit == Grant!Init => Grant!GrantInv
  BY DEF Grant!Init, Grant!GrantInv, Grant!TypeOK, Grant!GivenOnce,
     Grant!OneOpenEach

LEMMA GrantKeeps ==
    ASSUME Grant!GrantInv, [Grant!Next]_(Grant!vars)
    PROVE  Grant!GrantInv' /\ [Grant!NeverReopened]_(Grant!vars)
  <1>1. ASSUME NEW u \in Users, NEW g \in Tokens, Grant!Make(u, g)
        PROVE  Grant!GrantInv' /\ Grant!NeverReopened
    <2>1. Grant!TypeOK'
      BY <1>1 DEF Grant!GrantInv, Grant!TypeOK, Grant!Make
    <2>2. \A v \in Users : challengesOf'[v] =
             IF v = u THEN challengesOf[v] \cup {g} ELSE challengesOf[v]
      BY <1>1 DEF Grant!GrantInv, Grant!TypeOK, Grant!Make
    <2>3. Grant!GivenOnce' /\ Grant!OneOpenEach'
      BY <1>1, <2>2 DEF Grant!GrantInv, Grant!TypeOK, Grant!Make,
         Grant!GivenOnce, Grant!OneOpenEach
    <2>4. Grant!NeverReopened
      BY <1>1, <2>2 DEF Grant!Make, Grant!NeverReopened
    <2> QED
      BY <1>1, <2>1, <2>2, <2>3, <2>4 DEF Grant!GrantInv, Grant!Make
  <1>2. ASSUME NEW g \in Tokens, Grant!Claim(g) \/ Grant!Waste(g)
        PROVE  Grant!GrantInv' /\ Grant!NeverReopened
    BY <1>2 DEF Grant!GrantInv, Grant!TypeOK, Grant!Claim, Grant!Waste,
       Grant!GivenOnce, Grant!OneOpenEach, Grant!NeverReopened
  <1>3. ASSUME NEW u \in Users, NEW g \in Tokens, NEW x \in Sids,
               Grant!Use(u, g, x)
        PROVE  Grant!GrantInv' /\ Grant!NeverReopened
    <2>1. Grant!TypeOK'
      BY <1>3 DEF Grant!GrantInv, Grant!TypeOK, Grant!Use
    <2>2. \A h \in Tokens : openedWith'[h] =
             IF h = g THEN openedWith[h] \cup {<<u, x>>} ELSE openedWith[h]
      BY <1>3 DEF Grant!GrantInv, Grant!TypeOK, Grant!Use
    <2>3. Grant!GivenOnce'
      BY <1>3, <2>2 DEF Grant!GrantInv, Grant!TypeOK, Grant!Use, Grant!GivenOnce
    <2> QED
      BY <1>3, <2>1, <2>3 DEF Grant!GrantInv, Grant!Use, Grant!OneOpenEach,
         Grant!NeverReopened
  <1>4. CASE UNCHANGED Grant!vars
    BY <1>4 DEF Grant!vars, Grant!GrantInv, Grant!TypeOK, Grant!GivenOnce,
       Grant!OneOpenEach
  <1> QED
    BY <1>1, <1>2, <1>3, <1>4 DEF Grant!Next

(* What a challenge gives it gives once, and an account has one open one.   *)
THEOREM GrantsHold == Grant!Spec => [](Grant!GivenOnce /\ Grant!OneOpenEach)
  <1>1. Grant!GrantInv /\ [Grant!Next]_(Grant!vars) => Grant!GrantInv'
    BY GrantKeeps
  <1>2. Grant!GrantInv => Grant!GivenOnce /\ Grant!OneOpenEach
    BY DEF Grant!GrantInv
  <1> QED
    BY GrantInit, <1>1, <1>2, PTL DEF Grant!Spec

(* One that was claimed is never open again.                                *)
THEOREM GrantsNeverReopen == Grant!Spec => [][Grant!NeverReopened]_(Grant!vars)
  <1>1. Grant!GrantInv /\ [Grant!Next]_(Grant!vars) =>
            Grant!GrantInv' /\ [Grant!NeverReopened]_(Grant!vars)
    BY GrantKeeps
  <1> QED
    BY GrantInit, <1>1, PTL DEF Grant!Spec

(* A challenge opens one session at most, always of the account it was      *)
(* created for, is never brought back to life after it was consumed, and is *)
(* the only open one of its account.                                        *)
THEOREM ChallengesServeTheirOwner ==
    Spec => /\ [](Grant!GivenOnce /\ Grant!OneOpenEach)
            /\ [][Grant!NeverReopened]_(Grant!vars)
  BY ChallengesAreOneTimeGrants, GrantsHold, GrantsNeverReopen, PTL
  DEF ImplementsOneTimeGrant
============================================================================
