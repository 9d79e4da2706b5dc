------------------------ MODULE PasswordResetProofs ------------------------
(* Password reset for any number of accounts, links, sessions and requests: *)
(* the inductive invariant and the two properties it gives.                 *)
EXTENDS PasswordReset, TLAPS

ResetSteps == {"change", "lookup", "consume", "revokeAll"}

(* Which kind of request a request is follows from where it stands.         *)
LEMMA RequestKinds ==
    ASSUME TypeOK, NEW r \in Requests
    PROVE  /\ req[r] \in AnyRequest
           /\ At(r, "revoke") => req[r] \in AskRequest
           /\ req[r].pc \in {"insert", "mail"} => req[r] \in CreateRequest
           /\ req[r].pc \in ResetSteps => req[r] \in ResetRequest
           /\ At(r, "issue") => req[r] \in LoginRequest
  BY DEF TypeOK, AnyRequest, AskRequest, CreateRequest, ResetRequest,
         LoginRequest, Idle, At, ResetSteps

LEMMA InitInv == Init => ResetInv
  <1> SUFFICES ASSUME Init PROVE ResetInv
    OBVIOUS
  <1>1. TypeOK
    BY DEF Init, TypeOK, TokensInit, TokensTypeOK, AnyRequest
  <1>2. LinksInv
    BY DEF Init, TokensInit, LinksInv, RetiredLinksDead
  <1>3. LoginsInv
    BY DEF Init, LoginsInv, ResetEndsOldSessions
  <1>4. OneInsertPerToken /\ \A r \in Requests : Sound(r)
    BY DEF Init, OneInsertPerToken, Sound, At, Idle
  <1> QED
    BY <1>1, <1>2, <1>3, <1>4 DEF ResetInv

-----------------------------------------------------------------------------
(* A request that stays as it is stays sound while its token stays without  *)
(* a row, no password goes back and no reset cuts off more.                 *)
LEMMA OthersSound ==
    ASSUME ResetInv, NEW r \in Requests, req'[r] = req[r],
           generated \subseteq generated', UNCHANGED cutOff,
           version' \in [Users -> Nat],
           \A u \in Users : version[u] <= version'[u],
           At(r, "insert") => token'[req[r].tok] = token[req[r].tok]
    PROVE  Sound(r)'
  <1>1. TypeOK /\ Sound(r)
    BY DEF ResetInv
  <1>2. CASE At(r, "insert")
    BY <1>1, <1>2 DEF Sound, At
  <1>3. CASE req[r].pc \in ResetSteps
    <2>1. req[r].user \in Users /\ req[r].version \in Nat
      BY <1>1, <1>3, RequestKinds DEF ResetRequest
    <2> QED
      BY <1>1, <1>3, <2>1 DEF Sound, At, ResetSteps, TypeOK
  <1>4. CASE ~ At(r, "insert") /\ req[r].pc \notin ResetSteps
    BY <1>1, <1>4 DEF Sound, At, ResetSteps
  <1> QED
    BY <1>2, <1>3, <1>4

(* Steps that replace one request and leave the tables and the history      *)
(* alone: the new request has to be sound, and to wait for a token of its   *)
(* own.                                                                     *)
LEMMA RequestStep ==
    ASSUME ResetInv, NEW r \in Requests, NEW request \in AnyRequest,
           Become(r, request), UNCHANGED <<now, tables, history>>,
           generated \subseteq generated', generated' \subseteq Tokens,
           mailed' \subseteq Tokens, Sound(r)',
           request.pc = "insert" => request.tok \notin generated
    PROVE  ResetInv'
  <1> USE DEF tables, history
  <1>1. /\ TypeOK'
        /\ \A q \in Requests : req'[q] = IF q = r THEN request ELSE req[q]
    BY DEF ResetInv, TypeOK, TokensTypeOK, Become
  <1>2. LinksInv' /\ LoginsInv'
    BY DEF ResetInv, LinksInv, LoginsInv, RetiredLinksDead, ResetEndsOldSessions,
       Active
  <1>3. OneInsertPerToken'
    BY <1>1 DEF ResetInv, OneInsertPerToken, At, Sound
  <1>4. ASSUME NEW q \in Requests, q # r PROVE Sound(q)'
    BY <1>1, <1>4, OthersSound DEF ResetInv, TypeOK
  <1> QED
    BY <1>1, <1>2, <1>3, <1>4 DEF ResetInv

(* A request that ends has nothing left to be sound about.                  *)
LEMMA FinishStep ==
    ASSUME ResetInv, NEW r \in Requests, Finish(r),
           UNCHANGED <<now, tables, generated, history>>, mailed' \subseteq Tokens
    PROVE  ResetInv'
  <1>1. Idle \in AnyRequest /\ Sound(r)' /\ Idle.pc # "insert"
    BY DEF AnyRequest, Finish, Become, ResetInv, TypeOK, Sound, At, Idle
  <1> QED
    BY <1>1, RequestStep DEF Finish, ResetInv, TypeOK, TokensTypeOK

-----------------------------------------------------------------------------
LEMMA BeginAskStep ==
    ASSUME ResetInv, NEW r \in Requests, NEW u \in Users, BeginAsk(r, u)
    PROVE  ResetInv'
  <1> DEFINE new == [pc |-> "revoke", user |-> u]
  <1>1. new \in AnyRequest
    BY DEF AnyRequest, AskRequest
  <1>2. Sound(r)'
    BY DEF BeginAsk, Become, ResetInv, TypeOK, Sound, At
  <1> QED
    BY <1>1, <1>2, RequestStep DEF BeginAsk, ResetInv, TypeOK, TokensTypeOK

(* The password a login compares is not behind the last cut.                *)
LEMMA BeginLoginStep ==
    ASSUME ResetInv, NEW r \in Requests, NEW u \in Users, BeginLogin(r, u)
    PROVE  ResetInv'
  <1> DEFINE new == [pc |-> "issue", user |-> u, with |-> version[u],
                     racing |-> FALSE]
  <1>1. new \in AnyRequest
    BY DEF AnyRequest, LoginRequest, ResetInv, TypeOK
  <1>2. cutOff[u] <= version[u] /\ cutOff[u] \in Nat /\ version[u] \in Nat
    BY DEF ResetInv, LoginsInv, TypeOK
  <1>3. req'[r] = new /\ UNCHANGED <<version, cutOff>>
    BY DEF BeginLogin, Become, tables, history, ResetInv, TypeOK
  <1>4. Sound(r)'
    BY <1>2, <1>3 DEF Sound, At
  <1> QED
    BY <1>1, <1>4, RequestStep DEF BeginLogin, ResetInv, TypeOK, TokensTypeOK

(* The token that is drawn has no row, and no other request waits for it.   *)
LEMMA RevokeActiveStep ==
    ASSUME ResetInv, NEW r \in Requests, NEW t \in Tokens, RevokeActive(r, t)
    PROVE  ResetInv'
  <1> DEFINE u == req[r].user
             new == [pc |-> "insert", user |-> u, tok |-> t,
                     expiresAt |-> Expiry, seen |-> ActiveOf(u)]
  <1>1. req[r] \in AskRequest
    BY RequestKinds DEF ResetInv, RevokeActive
  <1>2. new \in AnyRequest
    <2>1. Expiry \in Nat /\ ActiveOf(u) \subseteq Tokens
      BY TokenTTLAssumption DEF Expiry, ActiveOf, ResetInv, TypeOK, TokensTypeOK
    <2> QED
      BY <1>1, <2>1 DEF AnyRequest, AskRequest, CreateRequest
  <1>3. /\ t \notin generated /\ generated' = generated \cup {t}
        /\ req'[r] = new /\ UNCHANGED token
    BY DEF RevokeActive, Draw, Become, tables, ResetInv, TypeOK
  <1>4. token[t] = NoToken
    BY <1>3 DEF ResetInv, LinksInv
  <1>5. Sound(r)'
    BY <1>3, <1>4 DEF Sound, At
  <1> QED
    BY <1>2, <1>3, <1>5, RequestStep DEF RevokeActive, ResetInv, TypeOK, TokensTypeOK

LEMMA SendMailStep ==
    ASSUME ResetInv, NEW r \in Requests, SendMail(r)
    PROVE  ResetInv'
  <1>1. req[r].tok \in Tokens
    BY RequestKinds DEF ResetInv, SendMail, At, CreateRequest
  <1> QED
    BY <1>1, FinishStep DEF SendMail, ResetInv, TypeOK

(* A reset that begins has changed nothing yet.                             *)
LEMMA BeginResetStep ==
    ASSUME ResetInv, NEW r \in Requests, NEW t \in Tokens, BeginReset(r, t)
    PROVE  ResetInv'
  <1> DEFINE new == [pc |-> "change", user |-> token[t].user, tok |-> t,
                     version |-> 0]
  <1>1. token[t].user \in Users
    BY DEF BeginReset, IsValid, Active, ResetInv, TypeOK, TokensTypeOK, TokenRow
  <1>2. new \in AnyRequest
    BY <1>1 DEF AnyRequest, ResetRequest
  <1>3. req'[r] = new /\ UNCHANGED version /\ version[token[t].user] \in Nat
    BY <1>1 DEF BeginReset, Become, tables, ResetInv, TypeOK
  <1>4. Sound(r)'
    BY <1>3 DEF Sound, At
  <1> QED
    BY <1>2, <1>4, RequestStep DEF BeginReset, ResetInv, TypeOK, TokensTypeOK

(* A reset moves on without touching a table or what it carries.            *)
LEMMA ResetGotoStep ==
    ASSUME ResetInv, NEW r \in Requests, NEW label \in ResetSteps, Goto(r, label),
           req[r].pc \in ResetSteps,
           UNCHANGED <<now, tables, generated, mailed, history>>
    PROVE  ResetInv'
  <1> DEFINE new == [req[r] EXCEPT !.pc = label]
  <1>1. req[r] \in ResetRequest /\ Sound(r)
    BY RequestKinds DEF ResetInv
  <1>2. /\ new \in AnyRequest /\ new.pc = label
        /\ new.user = req[r].user /\ new.version = req[r].version
    BY <1>1 DEF AnyRequest, ResetRequest, ResetSteps
  <1>3. Become(r, new) /\ req'[r] = new
    BY DEF Goto, Become, ResetInv, TypeOK
  <1>4. Sound(r)' /\ new.pc # "insert"
    BY <1>1, <1>2, <1>3 DEF Sound, At, ResetSteps, tables
  <1> QED
    BY <1>2, <1>3, <1>4, RequestStep DEF ResetInv, TypeOK, TokensTypeOK

LEMMA ConsumeLookupStep ==
    ASSUME ResetInv, NEW r \in Requests, ConsumeLookup(r)
    PROVE  ResetInv'
  BY ResetGotoStep DEF ConsumeLookup, At, ResetSteps

-----------------------------------------------------------------------------
(* The new row is active; every other link of the account was consumed or   *)
(* is by this statement, so what is older than the new link is dead.        *)
LEMMA InsertTokenStep ==
    ASSUME ResetInv, NEW r \in Requests, InsertToken(r)
    PROVE  ResetInv'
  <1> DEFINE u == req[r].user
             t == req[r].tok
             new == [req[r] EXCEPT !.pc = "mail"]
  <1>1. /\ req[r] \in CreateRequest /\ req[r].pc = "insert"
        /\ t \in Tokens /\ u \in Users /\ t \in generated /\ token[t] = NoToken
    BY RequestKinds DEF ResetInv, InsertToken, At, CreateRequest, Sound
  <1>2. new \in AnyRequest /\ new.pc = "mail"
    BY <1>1 DEF AnyRequest, CreateRequest
  <1>3. \A q \in Requests : req'[q] = IF q = r THEN new ELSE req[q]
    BY DEF InsertToken, Goto, ResetInv, TypeOK
  <1>4. /\ UNCHANGED <<now, version, session, generated, mailed, retired, cutOff>>
        /\ older' = [older EXCEPT ![t] = TokensOf(u)]
        /\ ActiveOf(u) \subseteq req[r].seen
        /\ token' = [x \in Tokens |->
                        IF x = t THEN Inserted(u, req[r].expiresAt)
                        ELSE IF x \in req[r].seen /\ Active(x)
                             THEN [token[x] EXCEPT !.consumed = TRUE]
                             ELSE token[x]]
    BY DEF InsertToken, RevokeAndCreate
  <1>5. Inserted(u, req[r].expiresAt) \in TokenRow
    BY <1>1 DEF Inserted, TokenRow, CreateRequest
  <1>6. \A x \in Tokens \ {t} :
           /\ token'[x] \in TokenRow \cup {NoToken}
           /\ token'[x] # NoToken <=> token[x] # NoToken
           /\ ~ Active(x) => token'[x] = token[x]
           /\ x \in ActiveOf(u) => token'[x].consumed
    <2> SUFFICES ASSUME NEW x \in Tokens \ {t}
                 PROVE  /\ token'[x] \in TokenRow \cup {NoToken}
                        /\ token'[x] # NoToken <=> token[x] # NoToken
                        /\ ~ Active(x) => token'[x] = token[x]
                        /\ x \in ActiveOf(u) => token'[x].consumed
      OBVIOUS
    <2>1. token[x] \in TokenRow \cup {NoToken}
      BY DEF ResetInv, TypeOK, TokensTypeOK
    <2>2. CASE x \in req[r].seen /\ Active(x)
      <3>1. token'[x] = [token[x] EXCEPT !.consumed = TRUE]
        BY <1>4, <2>2
      <3> QED
        BY <2>1, <2>2, <3>1 DEF Active, TokenRow, NoToken
    <2>3. CASE ~ (x \in req[r].seen /\ Active(x))
      <3>1. token'[x] = token[x]
        BY <1>4, <2>3
      <3> QED
        BY <1>4, <2>1, <2>3, <3>1 DEF ActiveOf
    <2> QED
      BY <2>2, <2>3
  <1>7. \A x \in Tokens : older'[x] = IF x = t THEN TokensOf(u) ELSE older[x]
    BY <1>4 DEF ResetInv, TypeOK
  <1>8. TypeOK'
    <2>1. token' \in [Tokens -> TokenRow \cup {NoToken}]
      BY <1>4, <1>5, <1>6
    <2>2. older' \in [Tokens -> SUBSET Tokens]
      BY <1>4 DEF TokensOf, ResetInv, TypeOK
    <2> QED
      BY <1>2, <1>3, <1>4, <2>1, <2>2
      DEF ResetInv, TypeOK, TokensTypeOK, InsertToken, Goto
  <1>9. LinksInv'
    <2>1. token'[t] # NoToken
      BY <1>1, <1>4 DEF Inserted, NoToken
    <2>2. \A x \in Tokens : token[x] # NoToken => x # t /\ token'[x] # NoToken
      BY <1>1, <1>6
    <2>3. \A x \in Tokens \ {t} : ~ Active(x) => ~ Active(x)'
      BY <1>6 DEF Active
    <2>4. \A x \in Tokens : token'[x] # NoToken => x \in generated'
      BY <1>1, <1>4, <1>6 DEF ResetInv, LinksInv
    <2>5. \A x \in Tokens : \A y \in older'[x] :
             y \in Tokens /\ token[y] # NoToken /\ token'[y] # NoToken
      BY <1>7, <2>2 DEF TokensOf, ResetInv, TypeOK, LinksInv
    <2>6. \A x \in retired' : token[x] # NoToken /\ token'[x] # NoToken
      BY <1>4, <2>2 DEF ResetInv, TypeOK, LinksInv
    <2>7. ASSUME NEW x \in Tokens, token'[x] # NoToken, NEW y \in older'[x]
          PROVE  ~ Active(y)'
      <3>1. y \in Tokens \ {t} /\ token[y] # NoToken
        BY <2>2, <2>5
      <3>2. CASE x = t
        <4>1. y \in TokensOf(u)
          BY <1>1, <1>7, <3>2
        <4>2. CASE Active(y)
          BY <1>6, <3>1, <4>1, <4>2 DEF ActiveOf, TokensOf, Active
        <4>3. CASE ~ Active(y)
          BY <2>3, <3>1, <4>3
        <4> QED
          BY <4>2, <4>3
      <3>3. CASE x # t
        <4>1. token[x] # NoToken /\ y \in older[x]
          BY <1>6, <1>7, <2>7, <3>3
        <4>2. ~ Active(y)
          BY <4>1 DEF ResetInv, LinksInv
        <4> QED
          BY <2>3, <3>1, <4>2
      <3> QED
        BY <3>2, <3>3
    <2>8. RetiredLinksDead'
      BY <1>4, <2>2, <2>3, <2>6 DEF ResetInv, TypeOK, LinksInv, RetiredLinksDead
    <2> QED
      BY <2>4, <2>5, <2>6, <2>7, <2>8 DEF LinksInv
  <1>10. LoginsInv'
    BY <1>4 DEF ResetInv, LoginsInv, ResetEndsOldSessions
  <1>11. OneInsertPerToken'
    BY <1>2, <1>3 DEF ResetInv, OneInsertPerToken, At
  <1>12. ASSUME NEW q \in Requests PROVE Sound(q)'
    <2>1. CASE q = r
      BY <1>2, <1>3, <2>1 DEF Sound, At
    <2>2. CASE q # r
      <3>1. At(q, "insert") => req[q].tok \in Tokens \ {t}
        BY <1>1, <2>2, RequestKinds
        DEF ResetInv, OneInsertPerToken, At, CreateRequest
      <3>2. At(q, "insert") => token'[req[q].tok] = token[req[q].tok]
        BY <1>6, <3>1 DEF ResetInv, Sound, Active
      <3>3. \A x \in Users : version[x] <= version'[x]
        BY <1>4 DEF ResetInv, TypeOK
      <3> QED
        BY <1>3, <1>4, <2>2, <3>2, <3>3, OthersSound DEF ResetInv, TypeOK
    <2> QED
      BY <2>1, <2>2
  <1> QED
    BY <1>8, <1>9, <1>10, <1>11, <1>12 DEF ResetInv

(* A change takes the password further, past every cut.                     *)
LEMMA ChangePasswordStep ==
    ASSUME ResetInv, NEW r \in Requests, ChangePassword(r)
    PROVE  ResetInv'
  <1> DEFINE u == req[r].user
             v == version[u] + 1
             new == [req[r] EXCEPT !.pc = "lookup", !.version = v]
  <1>1. req[r] \in ResetRequest /\ u \in Users /\ version[u] \in Nat
    BY RequestKinds DEF ResetInv, TypeOK, ChangePassword, At, ResetSteps, ResetRequest
  <1>2. /\ new \in AnyRequest /\ new.pc = "lookup"
        /\ new.user = u /\ new.version = v
    <2>1. v \in Nat
      BY <1>1
    <2> HIDE DEF v
    <2> QED
      BY <1>1, <2>1 DEF AnyRequest, ResetRequest
  <1>3. /\ UNCHANGED <<now, token, session, generated, mailed, older, retired, cutOff>>
        /\ version' = [version EXCEPT ![u] = v]
        /\ version'[u] = v
    BY <1>1 DEF ChangePassword, ResetInv, TypeOK
  <1>4. /\ req' \in [Requests -> AnyRequest]
        /\ \A q \in Requests : req'[q] = IF q = r THEN new ELSE req[q]
    BY <1>2, <1>3 DEF ChangePassword, ResetInv, TypeOK
  <1>5. \A x \in Users : version[x] <= version'[x] /\ version'[x] \in Nat
    BY <1>1, <1>3 DEF ResetInv, TypeOK
  <1>6. TypeOK'
    BY <1>1, <1>3, <1>4 DEF ResetInv, TypeOK, TokensTypeOK
  <1>7. LinksInv'
    BY <1>3 DEF ResetInv, LinksInv, RetiredLinksDead, Active
  <1>8. LoginsInv'
    <2>1. ResetEndsOldSessions'
      BY <1>3 DEF ResetInv, LoginsInv, ResetEndsOldSessions
    <2>2. ASSUME NEW x \in Users PROVE cutOff'[x] <= version'[x]
      <3>1. cutOff[x] \in Nat /\ version[x] \in Nat /\ cutOff[x] <= version[x]
        BY DEF ResetInv, TypeOK, LoginsInv
      <3> QED
        BY <1>3, <1>5, <3>1
    <2> QED
      BY <2>1, <2>2 DEF LoginsInv
  <1>9. OneInsertPerToken'
    <2> HIDE DEF new
    <2> QED
      BY <1>2, <1>4 DEF ResetInv, OneInsertPerToken, At
  <1>10. ASSUME NEW q \in Requests PROVE Sound(q)'
    <2>1. CASE q = r
      <3>1. /\ req'[q].pc = "lookup"
            /\ req'[q].version = v /\ version'[req'[q].user] = v
        BY <1>2, <1>3, <1>4, <2>1
      <3>2. v <= v
        BY <1>1
      <3> QED
        BY <3>1, <3>2 DEF Sound, At
    <2>2. CASE q # r
      BY <1>3, <1>4, <1>5, <1>6, <2>2, OthersSound DEF ResetInv, TypeOK
    <2> QED
      BY <2>1, <2>2
  <1> QED
    BY <1>6, <1>7, <1>8, <1>9, <1>10 DEF ResetInv

(* The link is consumed and with it everything older, which was dead as     *)
(* soon as the link existed.                                                *)
LEMMA ConsumeMarkStep ==
    ASSUME ResetInv, NEW r \in Requests, ConsumeMark(r)
    PROVE  ResetInv'
  <1> DEFINE t == req[r].tok
             new == [req[r] EXCEPT !.pc = "revokeAll"]
  <1>1. req[r] \in ResetRequest /\ req[r].pc = "consume" /\ t \in Tokens
    BY RequestKinds DEF ResetInv, ConsumeMark, At, ResetSteps, ResetRequest
  <1>2. /\ new \in AnyRequest /\ new.pc = "revokeAll"
        /\ new.user = req[r].user /\ new.version = req[r].version
    BY <1>1 DEF AnyRequest, ResetRequest
  <1>3. \A q \in Requests : req'[q] = IF q = r THEN new ELSE req[q]
    BY DEF ConsumeMark, Goto, ResetInv, TypeOK
  <1>4. UNCHANGED <<now, version, session, generated, mailed, older, cutOff>>
    BY DEF ConsumeMark
  <1>5. CASE MarkConsumed(t) /\ retired' = retired \cup {t} \cup older[t]
    <2>1. token[t] \in TokenRow /\ Active(t)
      BY <1>1, <1>5 DEF MarkConsumed, Active, ResetInv, TypeOK, TokensTypeOK
    <2>2. /\ token' \in [Tokens -> TokenRow \cup {NoToken}]
          /\ token'[t] # NoToken /\ token'[t].consumed
          /\ \A x \in Tokens \ {t} : token'[x] = token[x]
      BY <1>1, <1>5, <2>1
      DEF MarkConsumed, ResetInv, TypeOK, TokensTypeOK, TokenRow, NoToken
    <2>3. older[t] \subseteq Tokens /\ retired' \subseteq Tokens
      BY <1>1, <1>5 DEF ResetInv, TypeOK
    <2>4. TypeOK'
      BY <1>2, <1>3, <1>4, <2>2, <2>3
      DEF ResetInv, TypeOK, TokensTypeOK, ConsumeMark, Goto
    <2>5. \A x \in Tokens : /\ token'[x] # NoToken <=> token[x] # NoToken
                            /\ ~ Active(x) => ~ Active(x)'
      BY <2>1, <2>2 DEF Active
    <2>6. \A x \in Tokens : \A y \in older[x] : y \in Tokens
      BY DEF ResetInv, TypeOK
    <2>7. RetiredLinksDead'
      <3> SUFFICES ASSUME NEW x \in retired' PROVE ~ Active(x)'
        BY DEF RetiredLinksDead
      <3>1. CASE x = t
        BY <2>2, <3>1 DEF Active
      <3>2. CASE x # t
        <4>1. x \in Tokens /\ ~ Active(x)
          <5>1. x \in retired \/ x \in older[t]
            BY <1>5, <3>2
          <5>2. token[t] # NoToken
            BY <2>1 DEF Active
          <5>3. retired \subseteq Tokens /\ older[t] \subseteq Tokens
            BY <1>1 DEF ResetInv, TypeOK
          <5> QED
            BY <1>1, <5>1, <5>2, <5>3 DEF ResetInv, LinksInv, RetiredLinksDead
        <4> QED
          BY <2>5, <4>1
      <3> QED
        BY <3>1, <3>2
    <2>8. \A x \in retired' : token[x] # NoToken
      BY <1>1, <1>5, <2>1 DEF ResetInv, LinksInv, Active
    <2>9. LinksInv'
      BY <1>4, <2>3, <2>5, <2>6, <2>7, <2>8 DEF ResetInv, LinksInv
    <2>10. LoginsInv'
      BY <1>4 DEF ResetInv, LoginsInv, ResetEndsOldSessions
    <2>11. OneInsertPerToken'
      BY <1>2, <1>3 DEF ResetInv, OneInsertPerToken, At
    <2>12. ASSUME NEW q \in Requests PROVE Sound(q)'
      <3>1. CASE q = r
        BY <1>1, <1>2, <1>3, <1>4, <3>1 DEF ResetInv, Sound, At
      <3>2. CASE q # r
        <4>1. At(q, "insert") => token'[req[q].tok] = token[req[q].tok]
          BY <2>1, <2>2, RequestKinds DEF ResetInv, Sound, Active, At, CreateRequest
        <4>2. \A x \in Users : version[x] <= version'[x]
          BY <1>4 DEF ResetInv, TypeOK
        <4> QED
          BY <1>3, <1>4, <3>2, <4>1, <4>2, OthersSound DEF ResetInv, TypeOK
      <3> QED
        BY <3>1, <3>2
    <2> QED
      BY <2>4, <2>9, <2>10, <2>11, <2>12 DEF ResetInv
  <1>6. CASE UNCHANGED <<token, retired>>
    BY <1>1, <1>6, ResetGotoStep DEF ConsumeMark, ResetSteps, tables, history
  <1> QED
    BY <1>5, <1>6 DEF ConsumeMark

-----------------------------------------------------------------------------
(* The cut is at a password the account has had; every session of the       *)
(* account is revoked with it, and every login in flight is noted.          *)
LEMMA RevokeAllSessionsStep ==
    ASSUME ResetInv, NEW r \in Requests, RevokeAllSessions(r)
    PROVE  ResetInv'
  <1> DEFINE u == req[r].user
             v == req[r].version
  <1>1. /\ req[r] \in ResetRequest /\ u \in Users
        /\ v \in Nat /\ v <= version[u]
    BY RequestKinds DEF ResetInv, Sound, RevokeAllSessions, At, ResetSteps, ResetRequest
  <1>2. /\ UNCHANGED <<now, token, version, generated, mailed, older, retired>>
        /\ cutOff' = [cutOff EXCEPT ![u] = IF @ < v THEN v ELSE @]
    BY DEF RevokeAllSessions
  <1>3. \A s \in Sids :
           session'[s] = IF session[s] # NoSession /\ session[s].user = u
                         THEN [session[s] EXCEPT !.revoked = TRUE] ELSE session[s]
    BY DEF RevokeAllSessions
  <1>4. \A q \in Requests :
           req'[q] = IF q = r THEN Idle
                     ELSE IF At(q, "issue") /\ req[q].user = u
                          THEN [req[q] EXCEPT !.racing = TRUE] ELSE req[q]
    BY DEF RevokeAllSessions
  <1>5. /\ cutOff' \in [Users -> Nat] /\ cutOff'[u] <= version[u]
        /\ \A x \in Users \ {u} : cutOff'[x] = cutOff[x]
    <2>1. cutOff[u] \in Nat /\ cutOff[u] <= version[u]
      BY <1>1 DEF ResetInv, TypeOK, LoginsInv
    <2> QED
      BY <1>1, <1>2, <2>1 DEF ResetInv, TypeOK
  <1>6. ASSUME NEW s \in Sids
        PROVE  /\ session'[s] \in SessionRow \cup {NoSession}
               /\ session'[s] # NoSession =>
                     IF session[s].user = u THEN session'[s].revoked
                     ELSE session'[s] = session[s]
    <2>1. session[s] \in SessionRow \cup {NoSession}
      BY DEF ResetInv, TypeOK
    <2>2. CASE session[s] # NoSession /\ session[s].user = u
      <3> DEFINE new == [session[s] EXCEPT !.revoked = TRUE]
      <3>1. session'[s] = new
        BY <1>3, <2>2
      <3>2. new \in SessionRow /\ new.revoked
        BY <2>1, <2>2 DEF SessionRow
      <3> QED
        BY <2>2, <3>1, <3>2
    <2>3. CASE ~ (session[s] # NoSession /\ session[s].user = u)
      <3>1. session'[s] = session[s]
        BY <1>3, <2>3
      <3> QED
        BY <2>1, <2>3, <3>1
    <2> QED
      BY <2>2, <2>3
  <1>7. ASSUME NEW q \in Requests
        PROVE  /\ req'[q] \in AnyRequest
               /\ req'[q] = req[q] \/ req'[q].pc = "idle"
                  \/ (req'[q].pc = "issue" /\ req'[q].racing)
    <2>1. req[q] \in AnyRequest /\ (At(q, "issue") => req[q] \in LoginRequest)
      BY RequestKinds DEF ResetInv
    <2>2. CASE q = r
      <3>1. req'[q] = Idle /\ Idle \in AnyRequest /\ Idle.pc = "idle"
        BY <1>4, <2>2 DEF AnyRequest, Idle
      <3> QED
        BY <3>1
    <2>3. CASE q # r /\ At(q, "issue") /\ req[q].user = u
      <3> DEFINE new == [req[q] EXCEPT !.racing = TRUE]
      <3>1. new \in LoginRequest /\ new.pc = "issue" /\ new.racing
        BY <2>1, <2>3 DEF LoginRequest
      <3> QED
        BY <1>4, <2>3, <3>1 DEF AnyRequest
    <2>4. CASE q # r /\ ~ (At(q, "issue") /\ req[q].user = u)
      BY <1>4, <2>1, <2>4
    <2> QED
      BY <2>2, <2>3, <2>4
  <1>8. TypeOK'
    <2>1. req' \in [Requests -> AnyRequest]
      BY <1>7 DEF RevokeAllSessions
    <2>2. session' \in [Sids -> SessionRow \cup {NoSession}]
      BY <1>6 DEF RevokeAllSessions
    <2> QED
      BY <1>2, <1>5, <2>1, <2>2 DEF ResetInv, TypeOK, TokensTypeOK
  <1>9. LinksInv'
    BY <1>2 DEF ResetInv, LinksInv, RetiredLinksDead, Active
  <1>10. LoginsInv'
    <2>1. \A x \in Users : cutOff'[x] <= version'[x]
      BY <1>2, <1>5 DEF ResetInv, LoginsInv
    <2>2. ASSUME NEW s \in Sids, session'[s] # NoSession, ~ session'[s].revoked,
                 ~ session'[s].racing
          PROVE  session'[s].with >= cutOff'[session'[s].user]
      <3>1. session'[s] = session[s] /\ session[s].user # u
        BY <1>6, <2>2
      <3>2. session[s].user \in Users
        BY <1>6, <2>2, <3>1 DEF SessionRow
      <3> QED
        BY <1>5, <2>2, <3>1, <3>2 DEF ResetInv, LoginsInv, ResetEndsOldSessions
    <2> QED
      BY <2>1, <2>2 DEF LoginsInv, ResetEndsOldSessions
  <1>11. OneInsertPerToken'
    BY <1>7 DEF ResetInv, OneInsertPerToken, At
  <1>12. ASSUME NEW q \in Requests PROVE Sound(q)'
    <2>1. CASE req'[q].pc = "idle" \/ (req'[q].pc = "issue" /\ req'[q].racing)
      BY <2>1 DEF Sound, At
    <2>2. CASE req'[q] = req[q] /\ req[q].pc = "issue" /\ ~ req[q].racing
      <3>1. req[q].user \in Users /\ req[q].with >= cutOff[req[q].user]
        BY <2>2, RequestKinds DEF ResetInv, Sound, At, LoginRequest
      <3>2. req[q].user # u
        <4>1. CASE q = r
          <5>1. At(r, "revokeAll") /\ At(q, "issue")
            BY <2>2 DEF RevokeAllSessions, At
          <5> QED
            BY <4>1, <5>1 DEF At
        <4>2. CASE q # r /\ req[q].user = u
          <5> DEFINE new == [req[q] EXCEPT !.racing = TRUE]
          <5>1. req'[q] = new /\ req[q] \in LoginRequest
            BY <1>4, <2>2, <4>2, RequestKinds DEF ResetInv, At
          <5>2. new.racing
            BY <5>1 DEF LoginRequest
          <5> HIDE DEF new
          <5> QED
            BY <2>2, <5>1, <5>2
        <4> QED
          BY <4>1, <4>2
      <3> QED
        BY <1>5, <2>2, <3>1, <3>2 DEF Sound, At
    <2>3. CASE req'[q] = req[q] /\ ~ At(q, "issue")
      BY <1>2, <2>3 DEF ResetInv, Sound, At
    <2> QED
      BY <1>7, <2>1, <2>2, <2>3 DEF At
  <1> QED
    BY <1>8, <1>9, <1>10, <1>11, <1>12 DEF ResetInv

(* The session is opened with the password the login compared; if no reset  *)
(* overtook the login, no cut is ahead of that password.                    *)
LEMMA IssueSessionStep ==
    ASSUME ResetInv, NEW r \in Requests, NEW s \in Sids, IssueSession(r, s)
    PROVE  ResetInv'
  <1> DEFINE row == [kind |-> "session", user |-> req[r].user,
                     with |-> req[r].with, revoked |-> FALSE,
                     racing |-> req[r].racing]
  <1>1. /\ req[r] \in LoginRequest
        /\ ~ req[r].racing => req[r].with >= cutOff[req[r].user]
    BY RequestKinds DEF ResetInv, IssueSession, Sound
  <1>2. row \in SessionRow
    BY <1>1 DEF LoginRequest, SessionRow
  <1>3. /\ UNCHANGED <<now, token, version, generated, mailed, history>>
        /\ \A q \in Requests : req'[q] = IF q = r THEN Idle ELSE req[q]
        /\ \A x \in Sids : session'[x] = IF x = s THEN row ELSE session[x]
    BY DEF IssueSession, Finish, Become, ResetInv, TypeOK
  <1>4. TypeOK'
    BY <1>2, <1>3
    DEF IssueSession, Finish, Become, AnyRequest, ResetInv, TypeOK, TokensTypeOK, history
  <1>5. LinksInv'
    BY <1>3 DEF ResetInv, LinksInv, RetiredLinksDead, Active, history
  <1>6. LoginsInv'
    BY <1>1, <1>3 DEF ResetInv, LoginsInv, ResetEndsOldSessions, history
  <1>7. OneInsertPerToken'
    BY <1>3 DEF ResetInv, OneInsertPerToken, At, Idle
  <1>8. \A q \in Requests : Sound(q)'
    BY <1>3 DEF ResetInv, Sound, At, Idle, history
  <1> QED
    BY <1>4, <1>5, <1>6, <1>7, <1>8 DEF ResetInv

LEMMA TickStep == ResetInv /\ Tick => ResetInv'
  BY DEF ResetInv, TypeOK, TokensTypeOK, LinksInv, LoginsInv, OneInsertPerToken,
     Sound, At, Active, RetiredLinksDead, ResetEndsOldSessions, Tick, tables, history

LEMMA StutterStep == ResetInv /\ UNCHANGED vars => ResetInv'
  BY DEF ResetInv, TypeOK, TokensTypeOK, LinksInv, LoginsInv, OneInsertPerToken,
     Sound, At, Active, RetiredLinksDead, ResetEndsOldSessions, vars, tables, history

-----------------------------------------------------------------------------
LEMMA NextInv == ResetInv /\ [Next]_vars => ResetInv'
  <1> SUFFICES ASSUME ResetInv, [Next]_vars PROVE ResetInv'
    OBVIOUS
  <1>1. ASSUME NEW r \in Requests, Fail(r) PROVE ResetInv'
    BY <1>1, FinishStep DEF Fail, ResetInv, TypeOK
  <1> QED
    BY <1>1, BeginAskStep, BeginLoginStep, RevokeActiveStep, BeginResetStep,
       InsertTokenStep, SendMailStep, ChangePasswordStep, ConsumeLookupStep,
       ConsumeMarkStep, RevokeAllSessionsStep, IssueSessionStep, TickStep,
       StutterStep DEF Next, Step

(* ResetInv holds in every reachable state of PasswordReset                 *)
(* (password/handler.go, verification.go).                                  *)
THEOREM InvariantHolds == Spec => []ResetInv
  BY InitInv, NextInv, PTL DEF Spec

(* Every variable keeps its type through every statement of a reset.        *)
THEOREM TypeCorrect == Spec => []TypeOK
  BY InvariantHolds, PTL DEF ResetInv

(* A reset that ran to its end leaves no session alive that was opened with *)
(* an older password, but for logins in flight (password/handler.go:477).   *)
THEOREM OldSessionsEnd == Spec => []ResetEndsOldSessions
  <1>1. ResetInv => ResetEndsOldSessions
    BY DEF ResetInv, LoginsInv
  <1> QED
    BY <1>1, InvariantHolds, PTL

(* A link that a reset consumed, and every link the account had when that   *)
(* one was created, stays dead (createToken, ConsumePasswordResetToken).    *)
THEOREM RetiredForGood == Spec => []RetiredLinksDead
  <1>1. ResetInv => RetiredLinksDead
    BY DEF ResetInv, LinksInv
  <1> QED
    BY <1>1, InvariantHolds, PTL

-----------------------------------------------------------------------------
(* The row of a new session, on an id that has none.                        *)
LEMMA SessionBegins ==
    ASSUME ResetInv, NEW r \in Requests, NEW s \in Sids, IssueSession(r, s)
    PROVE  Life!Next
  <1> DEFINE u == req[r].user
             row == [kind |-> "session", user |-> req[r].user,
                     with |-> req[r].with, revoked |-> FALSE,
                     racing |-> req[r].racing]
  <1>1. u \in Users
    BY RequestKinds DEF ResetInv, IssueSession, At, LoginRequest
  <1>2. session[s] = NoSession /\ session' = [session EXCEPT ![s] = row]
    BY DEF IssueSession
  <1>3. row # NoSession /\ row.user = u /\ ~ row.revoked
    BY DEF NoSession
  <1>4. \A x \in Sids : session'[x] = IF x = s THEN row ELSE session[x]
    BY <1>2 DEF ResetInv, TypeOK
  <1> HIDE DEF row
  <1>5. liveSessions' = [liveSessions EXCEPT ![u] = @ \cup {s}]
    <2>1. ASSUME NEW v \in Users
          PROVE  liveSessions'[v] =
                    IF v = u THEN liveSessions[v] \cup {s} ELSE liveSessions[v]
      BY <1>1, <1>2, <1>3, <1>4 DEF liveSessions
    <2> QED
      BY <1>1, <2>1 DEF liveSessions
  <1>6. overSessions' = overSessions
    BY <1>2, <1>3, <1>4 DEF overSessions
  <1>7. s \notin overSessions /\ \A v \in Users : s \notin liveSessions[v]
    BY <1>2 DEF overSessions, liveSessions
  <1>8. Life!Begin(u, s)
    BY <1>1, <1>5, <1>6, <1>7 DEF Life!Begin
  <1> QED
    BY <1>1, <1>8 DEF Life!Next

LEMMA RevocationEnds ==
    ASSUME ResetInv, NEW r \in Requests, RevokeAllSessions(r)
    PROVE  Life!Next
  <1>1. PICK u \in Users : u = req[r].user
    BY RequestKinds DEF ResetInv, RevokeAllSessions, At, ResetSteps, ResetRequest
  <1>2. PICK E \in SUBSET Sids :
           E = {s \in Sids : session[s] # NoSession /\ session[s].user = u
                             /\ ~ session[s].revoked}
    OBVIOUS
  <1>3. ASSUME NEW s \in Sids
        PROVE  /\ session'[s] # NoSession <=> session[s] # NoSession
               /\ session'[s].user = session[s].user
               /\ session[s] # NoSession =>
                     (session'[s].revoked <=> session[s].revoked \/ s \in E)
    <2>1. session[s] \in SessionRow \cup {NoSession}
      BY DEF ResetInv, TypeOK
    <2>2. CASE session[s] # NoSession /\ session[s].user = u
      <3> DEFINE new == [session[s] EXCEPT !.revoked = TRUE]
      <3>1. session'[s] = new
        BY <1>1, <2>2 DEF RevokeAllSessions
      <3>2. new # NoSession /\ new.user = session[s].user /\ new.revoked
        BY <2>1, <2>2 DEF SessionRow, NoSession
      <3> QED
        BY <1>2, <2>1, <2>2, <3>1, <3>2 DEF SessionRow
    <2>3. CASE ~ (session[s] # NoSession /\ session[s].user = u)
      <3>1. session'[s] = session[s]
        BY <1>1, <2>3 DEF RevokeAllSessions
      <3> QED
        BY <1>2, <2>3, <3>1
    <2> QED
      BY <2>2, <2>3
  <1>4. liveSessions' = [v \in Users |-> liveSessions[v] \ E]
    BY <1>3 DEF liveSessions
  <1>5. overSessions' = overSessions \cup E
    BY <1>2, <1>3 DEF overSessions
  <1>6. \A s \in E : \E v \in Users : s \in liveSessions[v]
    BY <1>1, <1>2 DEF liveSessions
  <1>7. Life!End(E)
    BY <1>4, <1>5, <1>6 DEF Life!End
  <1> QED
    BY <1>7 DEF Life!Next

LEMMA LifeStep ==
    ASSUME ResetInv, [Next]_vars
    PROVE  [Life!Next]_(Life!vars)
  <1>1. CASE UNCHANGED session
    BY <1>1 DEF Life!vars, liveSessions, overSessions
  <1> QED
    BY <1>1, SessionBegins, RevocationEnds
    DEF Next, Step, BeginAsk, BeginLogin, RevokeActive, BeginReset, InsertToken,
        SendMail, ChangePassword, ConsumeLookup, ConsumeMark, Fail, Tick, vars,
        tables

(* Logins and resets, for which PasswordReset has a sessions table of its   *)
(* own, treat it as Sessions does: a session begins once and ends once      *)
(* (IssueSession, RevokeAllSessions).                                       *)
THEOREM SessionsLiveOnce == Spec => ImplementsSessionLife
  <1>1. Init => Life!Init
    BY DEF Init, Life!Init, liveSessions, overSessions
  <1>2. ResetInv /\ [Next]_vars => [Life!Next]_(Life!vars)
    BY LifeStep
  <1> QED
    BY <1>1, <1>2, InvariantHolds, PTL
    DEF Spec, ImplementsSessionLife, Life!Spec
============================================================================
