--------------------------- MODULE SessionsProofs ---------------------------
(* Sessions for any number of accounts, sessions and requests, any lifetimes*)
(* and any clock: the inductive invariant and the properties it gives. Then *)
(* the browsers that carry their tokens in cookies.                         *)
EXTENDS Sessions, TLAPS

(* Which kind of request a request is follows from where it stands.         *)
LEMMA RequestKinds ==
    ASSUME TypeOK, NEW r \in Requests
    PROVE  /\ req[r] \in AnyRequest
           /\ TokenStep(r) => req[r] \in TokenRequest
           /\ At(r, "lookup") => req[r] \in LookupRequest
           /\ req[r].pc \in DeleteSteps => req[r] \in DeleteRequest
  BY DEF TypeOK, AnyRequest, TokenRequest, LookupRequest, DeleteRequest, Idle,
         At, TokenStep, IssueSteps, RefreshSteps, DeleteSteps

LEMMA InitInv == Init => SessionsInv
  <1> SUFFICES ASSUME Init PROVE SessionsInv
    OBVIOUS
  <1>1. TypeOK
    BY DEF Init, TypeOK, AnyRequest, NotEnded
  <1>2. RowsInv
    BY DEF Init, RowsInv, Live
  <1>3. ExpiryInv
    BY TTLAssumption DEF Init, ExpiryInv
  <1>4. OneIssuePerId
    BY DEF Init, OneIssuePerId, Idle, IssueSteps
  <1>5. ASSUME NEW r \in Requests PROVE Sound(r)
    BY <1>5 DEF Init, Sound, Idle, IssueSteps, RefreshSteps, TokenStep
  <1> QED
    BY <1>1, <1>2, <1>3, <1>4, <1>5 DEF SessionsInv

-----------------------------------------------------------------------------
(* A request that stays as it is stays sound while the rows, the roles and  *)
(* the tokens handed out do.                                                *)
LEMMA OthersSound ==
    ASSUME SessionsInv, NEW r \in Requests, req'[r] = req[r], now' \in Nat,
           now <= now', UNCHANGED <<row, roleOf, ended, handed>>, used \subseteq used'
    PROVE  Sound(r)'
  <1>1. TokenStep(r) => req[r].at \in Nat
    BY RequestKinds DEF SessionsInv, TokenRequest
  <1> QED
    BY <1>1 DEF SessionsInv, TypeOK, Sound, TokenStep

(* What a step has to show that replaces one request and touches neither    *)
(* the tables nor the tokens: that the new request is sound, that it issues *)
(* on an id of its own, and that it mints for a session only if the old one *)
(* did or the session has not ended.                                        *)
LEMMA RequestStep ==
    ASSUME SessionsInv, NEW r \in Requests, NEW request \in AnyRequest,
           req' = [req EXCEPT ![r] = request],
           UNCHANGED <<now, tables, handed, validUntil, history>>,
           used' \subseteq Sids, used \subseteq used', Sound(r)',
           request.pc \in IssueSteps =>
              \/ req[r].pc \in IssueSteps /\ request.sid = req[r].sid
              \/ request.sid \notin used,
           \A s \in Sids : MintsFor(r, s)' => MintsFor(r, s) \/ ended[s] = NotEnded
    PROVE  SessionsInv'
  <1> USE DEF tables, history
  <1>1. /\ TypeOK'
        /\ \A q \in Requests : req'[q] = IF q = r THEN request ELSE req[q]
    BY DEF SessionsInv, TypeOK
  <1>2. RowsInv'
    BY DEF SessionsInv, RowsInv, Live
  <1>3. ExpiryInv'
    BY <1>1 DEF SessionsInv, ExpiryInv, MintsFor
  <1>4. OneIssuePerId'
    BY <1>1 DEF SessionsInv, OneIssuePerId, Sound
  <1>5. ASSUME NEW q \in Requests, q # r PROVE Sound(q)'
    BY <1>1, <1>5, OthersSound DEF SessionsInv, TypeOK
  <1> QED
    BY <1>1, <1>2, <1>3, <1>4, <1>5 DEF SessionsInv

(* A request that ends leaves nothing to be sound about.                    *)
LEMMA FinishStep ==
    ASSUME SessionsInv, NEW r \in Requests, Finish(r),
           UNCHANGED <<now, tables, used, handed, validUntil, history>>
    PROVE  SessionsInv'
  <1>1. Idle \in AnyRequest /\ req'[r] = Idle /\ used \subseteq Sids
    BY DEF AnyRequest, Finish, SessionsInv, TypeOK
  <1>2. Sound(r)'
    BY <1>1 DEF Sound, Idle, IssueSteps, RefreshSteps, TokenStep
  <1>3. \A s \in Sids : ~ MintsFor(r, s)'
    BY <1>1 DEF MintsFor, Idle, RefreshSteps
  <1>4. Idle.pc \notin IssueSteps
    BY DEF Idle, IssueSteps
  <1> QED
    BY <1>1, <1>2, <1>3, <1>4, RequestStep DEF Finish

-----------------------------------------------------------------------------
(* A fresh id has neither a row nor an end, and nobody else issues on it.   *)
LEMMA BeginIssueStep ==
    ASSUME SessionsInv, NEW r \in Requests, NEW u \in Users, NEW s \in Sids,
           BeginIssue(r, u, s)
    PROVE  SessionsInv'
  <1> DEFINE new == [pc |-> "getUser", user |-> u, sid |-> s, at |-> now,
                     until |-> 0, roles |-> {}, during |-> {roleOf[u]}]
  <1>1. new \in AnyRequest
    BY RolesAssumption DEF SessionsInv, TypeOK, AnyRequest, TokenRequest, IssueSteps
  <1>2. req' = [req EXCEPT ![r] = new] /\ req'[r] = new /\ s \notin handed
    BY DEF BeginIssue, SessionsInv, TypeOK
  <1>3. row[s] = NoRow /\ ended[s] = NotEnded
    BY DEF BeginIssue, SessionsInv, RowsInv
  <1>4. Sound(r)'
    BY <1>2, <1>3 DEF BeginIssue, tables, history, Sound, IssueSteps, RefreshSteps,
       TokenStep, SessionsInv, TypeOK
  <1>5. \A x \in Sids : ~ MintsFor(r, x)'
    BY <1>2 DEF MintsFor, RefreshSteps
  <1> QED
    BY <1>1, <1>2, <1>4, <1>5, RequestStep DEF BeginIssue, SessionsInv, TypeOK

LEMMA IssueGetUserStep ==
    ASSUME SessionsInv, NEW r \in Requests, IssueGetUser(r)
    PROVE  SessionsInv'
  <1> DEFINE new == [req[r] EXCEPT !.pc = "create", !.at = now]
  <1>1. CASE Finish(r)
    BY <1>1, FinishStep DEF IssueGetUser
  <1>2. CASE req' = [req EXCEPT ![r].pc = "create", ![r].at = now]
    <2>1. req[r] \in TokenRequest /\ Sound(r) /\ req[r].pc = "getUser"
      BY RequestKinds DEF SessionsInv, IssueGetUser, At, TokenStep, IssueSteps
    <2>2. /\ new \in AnyRequest /\ new.pc = "create" /\ new.sid = req[r].sid
          /\ new.user = req[r].user /\ new.at = now /\ new.during = req[r].during
      BY <2>1 DEF AnyRequest, TokenRequest, SessionsInv, TypeOK, IssueSteps
    <2>3. req' = [req EXCEPT ![r] = new] /\ req'[r] = new
      BY <1>2 DEF SessionsInv, TypeOK
    <2>4. Sound(r)'
      BY <2>1, <2>2, <2>3 DEF IssueGetUser, tables, history, Sound, IssueSteps,
         RefreshSteps, TokenStep, SessionsInv, TypeOK
    <2>5. \A x \in Sids : ~ MintsFor(r, x)'
      BY <2>2, <2>3 DEF MintsFor, RefreshSteps
    <2>6. req[r].pc \in IssueSteps
      BY <2>1 DEF IssueSteps
    <2> QED
      BY <2>2, <2>3, <2>4, <2>5, <2>6, RequestStep
      DEF IssueGetUser, SessionsInv, TypeOK
  <1> QED
    BY <1>1, <1>2 DEF IssueGetUser

(* The roles that are loaded are those of this moment.                      *)
LEMMA LoadRolesStep ==
    ASSUME SessionsInv, NEW r \in Requests, NEW from, NEW to,
           \/ from = "issueRoles" /\ to = "issueSign"
           \/ from = "refreshRoles" /\ to = "refreshSign",
           LoadRoles(r, from, to)
    PROVE  SessionsInv'
  <1> DEFINE new == [req[r] EXCEPT !.pc = to, !.roles = roleOf[req[r].user]]
  <1>1. req[r] \in TokenRequest /\ Sound(r) /\ req[r].pc = from
    BY RequestKinds DEF SessionsInv, LoadRoles, At, TokenStep, IssueSteps, RefreshSteps
  <1>2. /\ new \in AnyRequest /\ new.pc = to /\ new.sid = req[r].sid
        /\ new.user = req[r].user /\ new.at = req[r].at
        /\ new.during = req[r].during /\ new.roles = roleOf[req[r].user]
    BY <1>1 DEF AnyRequest, TokenRequest, SessionsInv, TypeOK, IssueSteps, RefreshSteps
  <1>3. req' = [req EXCEPT ![r] = new] /\ req'[r] = new
    BY DEF LoadRoles, SessionsInv, TypeOK
  <1>4. Sound(r)'
    BY <1>1, <1>2, <1>3 DEF LoadRoles, tables, history, Sound, IssueSteps,
       RefreshSteps, TokenStep, SessionsInv, TypeOK
  <1>5. \A x \in Sids : MintsFor(r, x)' => MintsFor(r, x)
    BY <1>1, <1>2, <1>3 DEF MintsFor, RefreshSteps
  <1>6. to \in IssueSteps => req[r].pc \in IssueSteps
    BY <1>1 DEF IssueSteps
  <1> QED
    BY <1>2, <1>3, <1>4, <1>5, <1>6, RequestStep DEF LoadRoles, SessionsInv, TypeOK

-----------------------------------------------------------------------------
(* A client that refreshes holds a token it was handed.                     *)
LEMMA BeginRefreshStep ==
    ASSUME SessionsInv, NEW r \in Requests, NEW s \in Sids, BeginRefresh(r, s)
    PROVE  SessionsInv'
  <1> DEFINE new == [pc |-> "lookup", sid |-> s]
  <1>1. new \in AnyRequest
    BY DEF AnyRequest, LookupRequest
  <1>2. req' = [req EXCEPT ![r] = new] /\ req'[r] = new
    BY DEF BeginRefresh, SessionsInv, TypeOK
  <1>3. Sound(r)'
    BY <1>2 DEF BeginRefresh, Sound, IssueSteps, RefreshSteps, TokenStep
  <1>4. \A x \in Sids : ~ MintsFor(r, x)'
    BY <1>2 DEF MintsFor, RefreshSteps
  <1>5. new.pc \notin IssueSteps
    BY DEF IssueSteps
  <1> QED
    BY <1>1, <1>2, <1>3, <1>4, <1>5, RequestStep DEF BeginRefresh, SessionsInv, TypeOK

(* From here on the refresh mints without looking at the row again: the     *)
(* session it found had not ended.                                          *)
LEMMA LookupStep ==
    ASSUME SessionsInv, NEW r \in Requests, Lookup(r)
    PROVE  SessionsInv'
  <1> DEFINE s == req[r].sid
             u == row[s].user
             new == [pc |-> "check", user |-> u, sid |-> s, at |-> now,
                     until |-> row[s].expiresAt, roles |-> {},
                     during |-> {roleOf[u]}]
  <1>1. CASE Finish(r)
    BY <1>1, FinishStep DEF Lookup
  <1>2. CASE Live(s) /\ StartCheck(r, s)
    <2>1. s \in Sids /\ Sound(r) /\ req[r].pc = "lookup"
      BY RequestKinds DEF Lookup, At, LookupRequest, SessionsInv
    <2>2. row[s] \in SessionRow
      BY <1>2, <2>1 DEF SessionsInv, TypeOK, Live
    <2>3. new \in AnyRequest
      BY <2>1, <2>2, RolesAssumption
      DEF SessionsInv, TypeOK, AnyRequest, TokenRequest, RefreshSteps, SessionRow
    <2>4. req' = [req EXCEPT ![r] = new] /\ req'[r] = new
      BY <1>2 DEF StartCheck, SessionsInv, TypeOK
    <2>5. Sound(r)'
      BY <2>1, <2>4 DEF Lookup, tables, Sound, IssueSteps, RefreshSteps,
         TokenStep, SessionsInv, TypeOK
    <2>6. \A x \in Sids : MintsFor(r, x)' => ended[x] = NotEnded
      BY <1>2, <2>1, <2>4 DEF MintsFor, SessionsInv, RowsInv
    <2>7. new.pc \notin IssueSteps
      BY DEF IssueSteps
    <2> QED
      BY <2>3, <2>4, <2>5, <2>6, <2>7, RequestStep DEF Lookup, SessionsInv, TypeOK
  <1> QED
    BY <1>1, <1>2 DEF Lookup

LEMMA RefreshChecksStep ==
    ASSUME SessionsInv, NEW r \in Requests, CheckValid(r) \/ RefreshGetUser(r)
    PROVE  SessionsInv'
  <1>1. CASE Finish(r)
    BY <1>1, FinishStep DEF CheckValid, RefreshGetUser
  <1>2. ASSUME NEW label \in {"refreshUser", "refreshRoles"}, Goto(r, label)
        PROVE  SessionsInv'
    <2> DEFINE new == [req[r] EXCEPT !.pc = label]
    <2>1. /\ req[r] \in TokenRequest /\ Sound(r)
          /\ req[r].pc \in {"check", "refreshUser"}
      BY RequestKinds
      DEF SessionsInv, CheckValid, RefreshGetUser, At, TokenStep, RefreshSteps
    <2>2. /\ new \in AnyRequest /\ new.pc = label /\ new.sid = req[r].sid
          /\ new.user = req[r].user /\ new.at = req[r].at
          /\ new.during = req[r].during
      BY <2>1 DEF AnyRequest, TokenRequest, RefreshSteps
    <2>3. req' = [req EXCEPT ![r] = new] /\ req'[r] = new
      BY <1>2 DEF Goto, SessionsInv, TypeOK
    <2>4. UNCHANGED <<now, tables, used, handed, validUntil, history>>
      BY DEF CheckValid, RefreshGetUser
    <2>5. Sound(r)'
      BY <2>1, <2>2, <2>3, <2>4 DEF tables, Sound, IssueSteps, RefreshSteps, TokenStep
    <2>6. \A x \in Sids : MintsFor(r, x)' => MintsFor(r, x)
      BY <2>1, <2>2, <2>3 DEF MintsFor, RefreshSteps
    <2>7. new.pc \notin IssueSteps
      BY <2>2 DEF IssueSteps
    <2> QED
      BY <2>2, <2>3, <2>4, <2>5, <2>6, <2>7, RequestStep DEF SessionsInv, TypeOK
  <1> QED
    BY <1>1, <1>2 DEF CheckValid, RefreshGetUser

(* A request to delete an account carries neither session nor roles.        *)
LEMMA BeginDeleteStep ==
    ASSUME SessionsInv, NEW r \in Requests, NEW u \in Users, BeginDelete(r, u)
    PROVE  SessionsInv'
  <1> DEFINE new == [pc |-> "revokeAll", user |-> u]
  <1>1. new \in AnyRequest
    BY DEF AnyRequest, DeleteRequest, DeleteSteps
  <1>2. req' = [req EXCEPT ![r] = new] /\ req'[r] = new
    BY DEF BeginDelete, SessionsInv, TypeOK
  <1>3. Sound(r)' /\ new.pc \notin IssueSteps
    BY <1>2 DEF Sound, IssueSteps, RefreshSteps, TokenStep
  <1>4. \A x \in Sids : ~ MintsFor(r, x)'
    BY <1>2 DEF MintsFor, RefreshSteps
  <1> QED
    BY <1>1, <1>2, <1>3, <1>4, RequestStep DEF BeginDelete, SessionsInv, TypeOK

-----------------------------------------------------------------------------
(* The row is created while nobody else works on the id.                    *)
LEMMA IssueCreateStep ==
    ASSUME SessionsInv, NEW r \in Requests, IssueCreate(r)
    PROVE  SessionsInv'
  <1> DEFINE s == req[r].sid
             new == [req[r] EXCEPT !.pc = "issueRoles"]
             created == [kind |-> "session", user |-> req[r].user,
                         expiresAt |-> req[r].at + RefreshTTL,
                         revokedAt |-> NotRevoked]
  <1>1. CASE Finish(r) /\ UNCHANGED row
    BY <1>1, FinishStep DEF IssueCreate, tables
  <1>2. CASE row' = [row EXCEPT ![s] = created] /\ Goto(r, "issueRoles")
    <2>1. req[r] \in TokenRequest /\ Sound(r) /\ req[r].pc = "create"
      BY RequestKinds DEF SessionsInv, IssueCreate, At, TokenStep, IssueSteps
    <2>2. /\ s \in Sids /\ s \in used \ handed
          /\ row[s] = NoRow /\ ended[s] = NotEnded
      BY <2>1 DEF Sound, TokenRequest, IssueSteps
    <2>3. /\ new \in AnyRequest /\ new.pc = "issueRoles" /\ new.sid = s
          /\ new.user = req[r].user /\ new.at = req[r].at
          /\ new.during = req[r].during
      BY <2>1 DEF AnyRequest, TokenRequest, IssueSteps
    <2>4. /\ req' = [req EXCEPT ![r] = new]
          /\ \A q \in Requests : req'[q] = IF q = r THEN new ELSE req[q]
      BY <1>2 DEF Goto, SessionsInv, TypeOK
    <2>5. UNCHANGED <<now, present, roleOf, used, handed, validUntil, history>>
      BY DEF IssueCreate
    <2>6. created \in SessionRow
      BY <2>1, TTLAssumption DEF TokenRequest, SessionRow
    <2>7. TypeOK'
      BY <1>2, <2>3, <2>4, <2>5, <2>6 DEF SessionsInv, TypeOK, history
    <2>8. RowsInv'
      BY <1>2, <2>2, <2>5 DEF SessionsInv, TypeOK, RowsInv, Live, history
    <2>9. ExpiryInv'
      BY <2>2, <2>3, <2>4, <2>5 DEF SessionsInv, ExpiryInv, MintsFor, history
    <2>10. OneIssuePerId'
      BY <2>1, <2>3, <2>4 DEF SessionsInv, OneIssuePerId, IssueSteps
    <2>11. Sound(r)'
      BY <2>1, <2>3, <2>4, <2>5 DEF Sound, IssueSteps, RefreshSteps, TokenStep
    <2>12. ASSUME NEW q \in Requests, q # r PROVE Sound(q)'
      <3>1. req'[q] = req[q] /\ Sound(q)
        BY <2>4, <2>12 DEF SessionsInv
      <3>2. CASE req[q].pc \in {"getUser", "create"}
        <4>1. req[q].sid # s
          BY <2>1, <2>12, <3>2 DEF SessionsInv, OneIssuePerId, IssueSteps
        <4>2. row'[req[q].sid] = row[req[q].sid]
          BY <1>2, <4>1, <3>2, RequestKinds
          DEF SessionsInv, TypeOK, TokenStep, TokenRequest, IssueSteps
        <4> QED
          BY <3>1, <4>2, <2>5 DEF Sound, TokenStep, history
      <3>3. CASE req[q].pc \notin {"getUser", "create"}
        BY <3>1, <3>3, <2>5 DEF Sound, TokenStep, history
      <3> QED
        BY <3>2, <3>3
    <2> QED
      BY <2>7, <2>8, <2>9, <2>10, <2>11, <2>12 DEF SessionsInv
  <1> QED
    BY <1>1, <1>2 DEF IssueCreate

(* A signature ends the request; it promises nothing beyond one AccessTTL   *)
(* from now, and only a session that is still minted for can gain from it.  *)
LEMMA MintStep ==
    ASSUME SessionsInv, NEW r \in Requests, IssueSign(r) \/ RefreshSign(r)
    PROVE  SessionsInv'
  <1> DEFINE s == req[r].sid
  <1>1. /\ req[r] \in TokenRequest /\ Sound(r)
        /\ req[r].pc \in {"issueSign", "refreshSign"}
    BY RequestKinds
    DEF SessionsInv, IssueSign, RefreshSign, At, TokenStep, IssueSteps, RefreshSteps
  <1>2. s \in Sids /\ s \in used /\ MintsFor(r, s)
    BY <1>1 DEF TokenRequest, Sound, IssueSteps, RefreshSteps, MintsFor, SessionsInv,
       TypeOK
  <1>3. /\ UNCHANGED <<now, tables, used, history>>
        /\ handed' = handed \cup {s}
        /\ \A q \in Requests : req'[q] = IF q = r THEN Idle ELSE req[q]
        /\ Finish(r)
    BY DEF IssueSign, RefreshSign, Mint, Finish, SessionsInv, TypeOK
  <1>4. /\ validUntil' \in [Sids -> Nat]
        /\ validUntil'[s] <= now + AccessTTL
        /\ \A x \in Sids \ {s} : validUntil'[x] = validUntil[x]
    <2>1. PICK expiry \in Nat :
             /\ expiry <= now + AccessTTL
             /\ validUntil' = [validUntil EXCEPT
                                  ![s] = IF @ > expiry THEN @ ELSE expiry]
      <3>1. CASE IssueSign(r)
        <4>1. req[r].at \in Nat /\ req[r].at <= now
          BY <1>1 DEF TokenRequest, Sound, TokenStep, IssueSteps, RefreshSteps
        <4> DEFINE expiry == req[r].at + AccessTTL
        <4>2. expiry \in Nat /\ expiry <= now + AccessTTL
          BY <4>1, TTLAssumption DEF SessionsInv, TypeOK
        <4> QED
          BY <3>1, <4>2 DEF IssueSign, Mint
      <3>2. CASE RefreshSign(r)
        <4> DEFINE expiry == now + AccessTTL
        <4>1. expiry \in Nat /\ expiry <= now + AccessTTL
          BY TTLAssumption DEF SessionsInv, TypeOK
        <4> QED
          BY <3>2, <4>1 DEF RefreshSign, Mint
      <3> QED
        BY <3>1, <3>2
    <2>2. validUntil[s] \in Nat /\ validUntil[s] <= now + AccessTTL
      BY <1>2 DEF SessionsInv, TypeOK, ExpiryInv
    <2> QED
      BY <1>2, <2>1, <2>2 DEF SessionsInv, TypeOK
  <1>5. TypeOK'
    BY <1>2, <1>3, <1>4 DEF SessionsInv, TypeOK, AnyRequest, tables, history, Finish
  <1>6. RowsInv'
    BY <1>3 DEF SessionsInv, RowsInv, Live, tables, history
  <1>7. ExpiryInv'
    <2> SUFFICES ASSUME NEW x \in Sids
                 PROVE  /\ validUntil'[x] <= now + AccessTTL
                        /\ ended[x] # NotEnded /\ ~ overlap[x] =>
                              /\ validUntil'[x] <= ended[x] + AccessTTL
                              /\ \A q \in Requests : ~ MintsFor(q, x)'
      BY <1>3 DEF ExpiryInv, history
    <2>1. \A q \in Requests : MintsFor(q, x)' => MintsFor(q, x)
      BY <1>3 DEF MintsFor, Idle, RefreshSteps
    <2>2. CASE x = s
      BY <1>2, <1>4, <2>2 DEF SessionsInv, ExpiryInv
    <2>3. CASE x # s
      BY <1>4, <2>1, <2>3 DEF SessionsInv, ExpiryInv
    <2> QED
      BY <2>2, <2>3
  <1>8. OneIssuePerId'
    BY <1>3 DEF SessionsInv, OneIssuePerId, Idle, IssueSteps
  <1>9. ASSUME NEW q \in Requests PROVE Sound(q)'
    <2>1. CASE q = r
      BY <1>3, <2>1 DEF Sound, Idle, IssueSteps, RefreshSteps, TokenStep
    <2>2. CASE q # r
      <3>1. req'[q] = req[q] /\ Sound(q)
        BY <1>3, <2>2 DEF SessionsInv
      <3>2. req[q].pc \in IssueSteps => req[q].sid # s
        BY <1>1, <2>2, <3>1
        DEF SessionsInv, OneIssuePerId, Sound, IssueSteps, RefreshSteps
      <3> QED
        BY <1>3, <3>1, <3>2 DEF Sound, TokenStep, tables, history
    <2> QED
      BY <2>1, <2>2
  <1> QED
    BY <1>5, <1>6, <1>7, <1>8, <1>9 DEF SessionsInv

-----------------------------------------------------------------------------
(* What a request keeps while sessions end and roles change: its place, its *)
(* session and its clock readings. It may stop, or note one more role set.  *)
Kept(r) ==
    \/ req'[r].pc \notin IssueSteps \cup RefreshSteps \cup {"lookup"}
    \/ /\ req'[r].pc = req[r].pc /\ req'[r].sid = req[r].sid
       /\ TokenStep(r) => /\ req'[r].at = req[r].at
                          /\ req'[r].roles = req[r].roles
                          /\ req[r].during \subseteq req'[r].during
                          /\ roleOf'[req'[r].user] \in req'[r].during

(* Sessions that end keep the invariant, whether by a revocation or with    *)
(* their row: the end is dated now, no token lasts longer than one          *)
(* AccessTTL from now, and overlap tells who was minting.                   *)
LEMMA EndingStep ==
    ASSUME SessionsInv, TypeOK', NEW S \in SUBSET Sids, RecordEnd(S),
           \A s \in S : row[s] # NoRow /\ ~ Live(s)',
           \A s \in Sids \ S : row'[s] = row[s],
           \A r \in Requests : Kept(r),
           UNCHANGED <<now, used, handed, validUntil>>
    PROVE  SessionsInv'
  <1>1. \A s \in Sids :
           /\ ended'[s] = IF s \in S /\ ended[s] = NotEnded THEN now ELSE ended[s]
           /\ overlap'[s] = IF s \in S /\ ended[s] = NotEnded
                            THEN \E r \in Requests : MintsFor(r, s) ELSE overlap[s]
    BY DEF RecordEnd
  <1>2. \A s \in S : s \in used
    BY DEF SessionsInv, RowsInv
  <1>3. RowsInv'
    BY <1>1, <1>2 DEF SessionsInv, RowsInv, Live
  <1>4. \A r \in Requests, s \in Sids : MintsFor(r, s)' => MintsFor(r, s)
    BY DEF Kept, MintsFor, IssueSteps, RefreshSteps
  <1>5. ExpiryInv'
    <2> SUFFICES ASSUME NEW s \in Sids
                 PROVE  /\ validUntil[s] <= now + AccessTTL
                        /\ ended'[s] # NotEnded /\ ~ overlap'[s] =>
                              /\ validUntil[s] <= ended'[s] + AccessTTL
                              /\ \A r \in Requests : ~ MintsFor(r, s)'
      BY DEF ExpiryInv
    <2>1. CASE s \in S /\ ended[s] = NotEnded
      BY <1>1, <1>4, <2>1 DEF SessionsInv, ExpiryInv
    <2>2. CASE ~ (s \in S /\ ended[s] = NotEnded)
      <3>1. ended'[s] = ended[s] /\ overlap'[s] = overlap[s]
        BY <1>1, <2>2
      <3> QED
        BY <1>4, <3>1 DEF SessionsInv, ExpiryInv
    <2> QED
      BY <2>1, <2>2
  <1>6. OneIssuePerId'
    BY DEF SessionsInv, OneIssuePerId, Kept
  <1>7. ASSUME NEW r \in Requests PROVE Sound(r)'
    <2>1. CASE req'[r].pc \notin IssueSteps \cup RefreshSteps \cup {"lookup"}
      BY <2>1 DEF Sound, IssueSteps, RefreshSteps, TokenStep
    <2>2. CASE /\ req'[r].pc \in IssueSteps \cup RefreshSteps \cup {"lookup"}
               /\ req'[r].pc = req[r].pc /\ req'[r].sid = req[r].sid
      <3>1. Sound(r) /\ Kept(r)
        BY DEF SessionsInv
      <3>2. req[r].pc \in {"getUser", "create"} =>
               /\ row'[req[r].sid] = NoRow /\ ended'[req[r].sid] = NotEnded
        <4> SUFFICES ASSUME req[r].pc \in {"getUser", "create"}
                     PROVE  row'[req[r].sid] = NoRow /\ ended'[req[r].sid] = NotEnded
          OBVIOUS
        <4>1. /\ req[r].sid \in Sids
              /\ row[req[r].sid] = NoRow /\ ended[req[r].sid] = NotEnded
          BY <3>1, RequestKinds
          DEF SessionsInv, Sound, TokenStep, IssueSteps, TokenRequest
        <4> QED
          BY <1>1, <4>1
      <3>3. TokenStep(r)' => TokenStep(r)
        BY <2>2 DEF TokenStep
      <3> QED
        BY <2>2, <3>1, <3>2, <3>3 DEF Sound, Kept, TokenStep, IssueSteps, RefreshSteps
    <2> QED
      BY <2>1, <2>2 DEF Kept
  <1> QED
    BY <1>3, <1>5, <1>6, <1>7 DEF SessionsInv

(* A revocation ends the sessions that could still be used; the rows stay.  *)
LEMMA RevokeStep ==
    ASSUME SessionsInv, NEW S \in SUBSET Sids, Revoke(S),
           UNCHANGED <<now, present, roleOf, used, handed, validUntil>>,
           req' \in [Requests -> AnyRequest], \A r \in Requests : Kept(r)
    PROVE  SessionsInv'
  <1> DEFINE E == {s \in S : Live(s)}
  <1>1. \A s \in E : row[s] \in SessionRow /\ [row[s] EXCEPT !.revokedAt = now]
                                               \in SessionRow
    BY DEF SessionsInv, TypeOK, Live, SessionRow
  <1>2. /\ RecordEnd(E) /\ E \in SUBSET Sids
        /\ \A s \in Sids \ E : row'[s] = row[s]
        /\ \A s \in E : row'[s] = [row[s] EXCEPT !.revokedAt = now]
    BY DEF Revoke
  <1>3. ASSUME NEW s \in E PROVE row[s] # NoRow /\ ~ Live(s)'
    <2>1. row'[s].revokedAt = now
      BY <1>1, <1>2 DEF SessionRow
    <2>2. now # NotRevoked
      BY DEF SessionsInv, TypeOK, NotRevoked
    <2> QED
      BY <2>1, <2>2 DEF Live
  <1>4. TypeOK'
    <2>1. row' \in [Sids -> SessionRow \cup {NoRow}]
      BY <1>1, <1>2 DEF Revoke, SessionsInv, TypeOK
    <2>2. /\ ended' \in [Sids -> Nat \cup {NotEnded}]
          /\ overlap' \in [Sids -> BOOLEAN]
      BY <1>2 DEF RecordEnd, SessionsInv, TypeOK
    <2> QED
      BY <2>1, <2>2 DEF SessionsInv, TypeOK
  <1> QED
    BY <1>2, <1>3, <1>4, EndingStep

(* A removal ends the sessions that had a row.                              *)
LEMMA RemoveStep ==
    ASSUME SessionsInv, NEW S \in SUBSET Sids, Remove(S),
           present' \subseteq Users, roleOf' \in [Users -> RoleSets],
           UNCHANGED <<now, used, handed, validUntil>>,
           req' \in [Requests -> AnyRequest], \A r \in Requests : Kept(r)
    PROVE  SessionsInv'
  <1> DEFINE E == {s \in S : row[s] # NoRow}
  <1>1. /\ RecordEnd(E) /\ E \in SUBSET Sids
        /\ \A s \in Sids \ E : row'[s] = row[s]
        /\ \A s \in E : row'[s] = NoRow
    BY DEF Remove
  <1>2. \A s \in E : row[s] # NoRow /\ ~ Live(s)'
    BY <1>1 DEF Live
  <1>3. TypeOK'
    BY <1>1 DEF Remove, RecordEnd, SessionsInv, TypeOK
  <1> QED
    BY <1>1, <1>2, <1>3, EndingStep

(* A request that is the same after a step, and whose user's roles are too, *)
(* is kept.                                                                 *)
LEMMA SameKept ==
    ASSUME SessionsInv, NEW r \in Requests, req'[r] = req[r], UNCHANGED roleOf
    PROVE  Kept(r)
  BY DEF Kept, SessionsInv, Sound, TokenStep

LEMMA LogoutStep ==
    ASSUME SessionsInv,
           (\E s \in Sids : Logout(s)) \/ (\E u \in Users : LogoutAll(u))
    PROVE  SessionsInv'
  <1>1. UNCHANGED <<now, present, roleOf, req, used, handed, validUntil>>
    BY DEF Logout, LogoutAll
  <1>2. \A r \in Requests : Kept(r)
    BY <1>1, SameKept
  <1>3. PICK S \in SUBSET Sids : Revoke(S)
    <2>1. CASE \E s \in Sids : Logout(s)
      BY <2>1 DEF Logout
    <2>2. CASE \E u \in Users : LogoutAll(u)
      BY <2>2 DEF LogoutAll, SessionsOf
    <2> QED
      BY <2>1, <2>2
  <1> QED
    BY <1>1, <1>2, <1>3, RevokeStep DEF SessionsInv, TypeOK

(* The revocation before a deletion may fail; the request goes on.          *)
LEMMA DeleteRevokeAllStep ==
    ASSUME SessionsInv, NEW r \in Requests, DeleteRevokeAll(r)
    PROVE  SessionsInv'
  <1> DEFINE new == [req[r] EXCEPT !.pc = "deleteUser"]
  <1>1. req[r] \in DeleteRequest
    BY RequestKinds DEF SessionsInv, DeleteRevokeAll, At, DeleteSteps
  <1>2. new \in AnyRequest /\ new.pc = "deleteUser"
    BY <1>1 DEF AnyRequest, DeleteRequest, DeleteSteps
  <1>3. /\ req' = [req EXCEPT ![r] = new]
        /\ \A q \in Requests : req'[q] = IF q = r THEN new ELSE req[q]
    BY DEF DeleteRevokeAll, Goto, SessionsInv, TypeOK
  <1>4. UNCHANGED <<now, present, roleOf, used, handed, validUntil>>
    BY DEF DeleteRevokeAll
  <1>5. CASE Revoke(SessionsOf(req[r].user))
    <2>1. req' \in [Requests -> AnyRequest]
      BY <1>2, <1>3 DEF SessionsInv, TypeOK
    <2>2. \A q \in Requests : Kept(q)
      BY <1>2, <1>3, <1>4, SameKept DEF Kept, IssueSteps, RefreshSteps
    <2>3. SessionsOf(req[r].user) \in SUBSET Sids
      BY DEF SessionsOf
    <2> QED
      BY <1>4, <1>5, <2>1, <2>2, <2>3, RevokeStep
  <1>6. CASE UNCHANGED <<row, history>>
    <2>1. Sound(r)' /\ new.pc \notin IssueSteps
      BY <1>2, <1>3 DEF Sound, IssueSteps, RefreshSteps, TokenStep
    <2>2. \A x \in Sids : ~ MintsFor(r, x)'
      BY <1>2, <1>3 DEF MintsFor, RefreshSteps
    <2> QED
      BY <1>2, <1>3, <1>4, <1>6, <2>1, <2>2, RequestStep DEF tables, SessionsInv, TypeOK
  <1> QED
    BY <1>5, <1>6 DEF DeleteRevokeAll

(* Roles change under the requests that carry the user; each notes it. The  *)
(* request that makes the change may end with it.                           *)
LEMMA RolesKept ==
    ASSUME SessionsInv, NEW u \in Users, NEW names \in RoleSets, NEW reqs,
           SetRolesOf(u, names, reqs),
           \A r \in Requests : reqs[r] = req[r] \/ (reqs[r] = Idle /\ ~ TokenStep(r))
    PROVE  /\ roleOf' \in [Users -> RoleSets]
           /\ req' \in [Requests -> AnyRequest]
           /\ \A r \in Requests : Kept(r)
  <1>1. roleOf' \in [Users -> RoleSets]
    BY DEF SetRolesOf, SessionsInv, TypeOK
  <1>2. ASSUME NEW r \in Requests PROVE req'[r] \in AnyRequest /\ Kept(r)
    <2>1. CASE TokenStep(r) /\ req[r].user = u
      <3> DEFINE new == [req[r] EXCEPT !.during = @ \cup {names}]
      <3>1. req[r] \in TokenRequest /\ reqs[r] = req[r]
        BY <1>2, <2>1, RequestKinds DEF SessionsInv
      <3>2. /\ new \in AnyRequest /\ new.pc = req[r].pc /\ new.sid = req[r].sid
            /\ new.at = req[r].at /\ new.roles = req[r].roles /\ new.user = u
            /\ new.during = req[r].during \cup {names}
        BY <2>1, <3>1 DEF AnyRequest, TokenRequest
      <3>3. req'[r] = new /\ roleOf'[u] = names
        BY <2>1, <3>1 DEF SetRolesOf, SessionsInv, TypeOK
      <3> QED
        BY <3>2, <3>3 DEF Kept
    <2>2. CASE ~ (TokenStep(r) /\ req[r].user = u)
      <3>1. req'[r] = reqs[r] /\ req[r] \in AnyRequest /\ Sound(r)
        BY <1>2, <2>2 DEF SetRolesOf, SessionsInv, TypeOK
      <3>2. CASE reqs[r] = Idle
        BY <3>1, <3>2 DEF AnyRequest, Idle, Kept, IssueSteps, RefreshSteps
      <3>3. CASE reqs[r] = req[r]
        <4>1. TokenStep(r) => /\ req[r].user \in Users
                              /\ roleOf'[req[r].user] = roleOf[req[r].user]
          BY <2>2, RequestKinds DEF SetRolesOf, SessionsInv, TypeOK, TokenRequest
        <4> QED
          BY <3>1, <3>3, <4>1 DEF Kept, Sound
      <3> QED
        BY <3>2, <3>3
    <2> QED
      BY <2>1, <2>2
  <1> QED
    BY <1>1, <1>2 DEF SetRolesOf

LEMMA DeleteUserStep ==
    ASSUME SessionsInv, NEW r \in Requests, DeleteUser(r)
    PROVE  SessionsInv'
  <1> DEFINE u == req[r].user
             reqs == [req EXCEPT ![r] = Idle]
  <1>1. u \in Users /\ ~ TokenStep(r)
    BY RequestKinds
    DEF SessionsInv, DeleteUser, At, DeleteSteps, DeleteRequest, TokenStep,
        IssueSteps, RefreshSteps
  <1>2. \A q \in Requests : reqs[q] = req[q] \/ (reqs[q] = Idle /\ ~ TokenStep(q))
    BY <1>1 DEF SessionsInv, TypeOK
  <1>3. SetRolesOf(u, {}, reqs)
    BY DEF DeleteUser
  <1>4. /\ roleOf' \in [Users -> RoleSets] /\ req' \in [Requests -> AnyRequest]
        /\ \A q \in Requests : Kept(q)
    BY <1>1, <1>2, <1>3, RolesKept, RolesAssumption
  <1>5. SessionsOf(u) \in SUBSET Sids /\ present' \subseteq Users
    BY DEF SessionsOf, DeleteUser, SessionsInv, TypeOK
  <1> QED
    BY <1>4, <1>5, RemoveStep DEF DeleteUser

LEMMA SetRolesStep ==
    ASSUME SessionsInv, NEW u \in Users, NEW names \in RoleSets, SetRoles(u, names)
    PROVE  SessionsInv'
  <1>1. /\ roleOf' \in [Users -> RoleSets] /\ req' \in [Requests -> AnyRequest]
        /\ \A r \in Requests : Kept(r)
    <2>1. \A r \in Requests : req[r] = req[r] \/ (req[r] = Idle /\ ~ TokenStep(r))
      OBVIOUS
    <2> QED
      BY <2>1, RolesKept DEF SetRoles
  <1>2. TypeOK'
    BY <1>1 DEF SetRoles, SessionsInv, TypeOK, history
  <1>3. RecordEnd({})
    BY DEF SetRoles, RecordEnd, history, SessionsInv, TypeOK
  <1> QED
    BY <1>1, <1>2, <1>3, EndingStep DEF SetRoles

LEMMA DeleteExpiredStep ==
    ASSUME SessionsInv, NEW cutoff, DeleteExpired(cutoff)
    PROVE  SessionsInv'
  <1>1. UNCHANGED <<now, present, roleOf, req, used, handed, validUntil>>
    BY DEF DeleteExpired
  <1>2. \A r \in Requests : Kept(r)
    BY <1>1, SameKept
  <1>3. /\ Remove({s \in Sids : Stale(s, cutoff)})
        /\ {s \in Sids : Stale(s, cutoff)} \in SUBSET Sids
    BY DEF DeleteExpired
  <1> QED
    BY <1>1, <1>2, <1>3, RemoveStep DEF SessionsInv, TypeOK

LEMMA TickStep == SessionsInv /\ Tick => SessionsInv'
  <1> SUFFICES ASSUME SessionsInv, Tick PROVE SessionsInv'
    OBVIOUS
  <1>1. /\ now' = now + 1
        /\ UNCHANGED <<tables, req, used, handed, validUntil, history>>
    BY DEF Tick
  <1>2. TypeOK'
    BY <1>1 DEF SessionsInv, TypeOK, tables, history
  <1>3. RowsInv' /\ OneIssuePerId'
    BY <1>1 DEF SessionsInv, RowsInv, OneIssuePerId, Live, tables, history
  <1>4. ExpiryInv'
    BY <1>1, TTLAssumption DEF SessionsInv, TypeOK, ExpiryInv, MintsFor, history
  <1>5. ASSUME NEW r \in Requests PROVE Sound(r)'
    BY <1>1, <1>5, OthersSound DEF SessionsInv, TypeOK, tables, history
  <1> QED
    BY <1>2, <1>3, <1>4, <1>5 DEF SessionsInv

LEMMA StutterStep == SessionsInv /\ UNCHANGED vars => SessionsInv'
  BY DEF SessionsInv, TypeOK, RowsInv, ExpiryInv, OneIssuePerId, Sound, Live,
     MintsFor, TokenStep, vars, tables, history

-----------------------------------------------------------------------------
LEMMA NextInv == SessionsInv /\ [Next]_vars => SessionsInv'
  <1> SUFFICES ASSUME SessionsInv, [Next]_vars PROVE SessionsInv'
    OBVIOUS
  <1>1. ASSUME NEW r \in Requests, Step(r) PROVE SessionsInv'
    <2>1. CASE Fail(r)
      BY <2>1, FinishStep DEF Fail
    <2>2. CASE IssueSign(r) \/ RefreshSign(r)
      BY <2>2, MintStep
    <2>3. CASE LoadRoles(r, "issueRoles", "issueSign")
               \/ LoadRoles(r, "refreshRoles", "refreshSign")
      BY <2>3, LoadRolesStep
    <2>4. CASE CheckValid(r) \/ RefreshGetUser(r)
      BY <2>4, RefreshChecksStep
    <2> QED
      BY <1>1, <2>1, <2>2, <2>3, <2>4, BeginIssueStep, IssueGetUserStep,
         IssueCreateStep, BeginRefreshStep, LookupStep, BeginDeleteStep,
         DeleteRevokeAllStep, DeleteUserStep DEF Step
  <1> QED
    BY <1>1, LogoutStep, SetRolesStep, DeleteExpiredStep, TickStep, StutterStep
    DEF Next

(* SessionsInv holds in every reachable state of Sessions (session.go,      *)
(* sessions_repo.go).                                                       *)
THEOREM InvariantHolds == Spec => []SessionsInv
  BY InitInv, NextInv, PTL DEF Spec

(* Every variable keeps its type through every handler of session.go.       *)
THEOREM TypeCorrect == Spec => []TypeOK
  BY InvariantHolds, PTL DEF SessionsInv

(* Of a session that was logged out or deleted while nobody was minting for *)
(* it, no access token is valid for longer than one AccessTTL afterwards    *)
(* (session.go, RevokeSession, RevokeAllSessions, issueAccessToken).        *)
THEOREM AccessEnds == Spec => []AccessEndsWithSession
  <1>1. SessionsInv => AccessEndsWithSession
    BY DEF SessionsInv, ExpiryInv, AccessEndsWithSession
  <1> QED
    BY <1>1, InvariantHolds, PTL

(* The roles a token is signed with are the user's at one moment of the     *)
(* request that signs it (session.go:198-200, getUserRoleNames).            *)
THEOREM TrueRoles == Spec => []TokenCarriesTrueRoles
  <1>1. SessionsInv => TokenCarriesTrueRoles
    BY DEF SessionsInv, Sound, TokenCarriesTrueRoles
  <1> QED
    BY <1>1, InvariantHolds, PTL

(* An end, once recorded, stays: only a session without one gets one.       *)
LEMMA EndStays ==
    ASSUME SessionsInv, [Next]_vars, NEW s \in Sids, ended[s] # NotEnded
    PROVE  ended'[s] # NotEnded
  <1>1. ASSUME NEW S, RecordEnd(S) PROVE ended'[s] # NotEnded
    BY <1>1 DEF RecordEnd
  <1>2. CASE UNCHANGED ended
    BY <1>2
  <1> QED
    BY <1>1, <1>2
    DEF Next, Step, BeginIssue, IssueGetUser, IssueCreate, LoadRoles, IssueSign,
        BeginRefresh, Lookup, CheckValid, RefreshGetUser, RefreshSign, BeginDelete,
        DeleteRevokeAll, DeleteUser, Fail, Logout, LogoutAll, SetRoles,
        DeleteExpired, Tick, Revoke, Remove, vars, history

(* A session that was revoked or deleted never becomes usable again: no     *)
(* handler writes a row back that another has revoked or removed.           *)
THEOREM EndedForGood == Spec => EndedIsFinal
  <1> DEFINE Gone == \A s \in Sids : ended[s] # NotEnded => ~ Live(s)'
  <1>1. SessionsInv /\ SessionsInv' /\ [Next]_vars => [Gone]_vars
    BY EndStays DEF SessionsInv, RowsInv
  <1> QED
    BY <1>1, NextInv, InvariantHolds, PTL DEF Spec, EndedIsFinal

-----------------------------------------------------------------------------
LEMMA LifeBegins == Init => Life!Init
  BY DEF Init, Life!Init, liveSessions, overSessions, SessionsOf, Live

(* How the life of sessions reads when those of L, all live, end and the    *)
(* others stay what they were.                                              *)
LEMMA EndsAre ==
    ASSUME NEW L \in SUBSET Sids,
           \A s \in L : Live(s) /\ ~ Live(s)' /\ ended'[s] # NotEnded,
           \A s \in Sids \ L :
              /\ Live(s)' <=> Live(s)
              /\ Live(s) => row'[s].user = row[s].user
              /\ row'[s] = NoRow /\ ended'[s] = NotEnded <=>
                    row[s] = NoRow /\ ended[s] = NotEnded
    PROVE  /\ liveSessions' = [u \in Users |-> liveSessions[u] \ L]
           /\ overSessions' = overSessions \cup L
  <1>1. ASSUME NEW s \in Sids, NEW u \in Users
        PROVE  s \in SessionsOf(u)' /\ Live(s)' <=>
                  s \in SessionsOf(u) /\ Live(s) /\ s \notin L
    BY DEF SessionsOf, Live
  <1>2. liveSessions' = [u \in Users |-> liveSessions[u] \ L]
    BY <1>1 DEF liveSessions, SessionsOf
  <1>3. overSessions' = overSessions \cup L
    BY DEF overSessions
  <1> QED
    BY <1>2, <1>3

LEMMA RevokeEnds ==
    ASSUME TypeOK, NEW S \in SUBSET Sids, Revoke(S), UNCHANGED present
    PROVE  Life!End({s \in S : Live(s)})
  <1> DEFINE L == {s \in S : Live(s)}
  <1>1. ASSUME NEW s \in L
        PROVE  Live(s) /\ ~ Live(s)' /\ ended'[s] # NotEnded
    <2>1. s \in Sids /\ Live(s) /\ row[s] \in SessionRow
      BY DEF TypeOK, Live
    <2>2. row'[s] = [row[s] EXCEPT !.revokedAt = now] /\ now \in Nat
      BY <2>1 DEF Revoke, TypeOK
    <2>3. ~ Live(s)'
      BY <2>1, <2>2 DEF Live, SessionRow, NotRevoked
    <2>4. ended'[s] # NotEnded
      BY <2>1 DEF Revoke, RecordEnd, TypeOK, NotEnded
    <2> QED
      BY <2>1, <2>3, <2>4
  <1>2. ASSUME NEW s \in Sids \ L
        PROVE  row'[s] = row[s] /\ ended'[s] = ended[s]
    BY DEF Revoke, RecordEnd
  <1>3. \A s \in L : \E u \in Users : s \in liveSessions[u]
    BY DEF liveSessions, SessionsOf, Live, TypeOK, SessionRow
  <1>4. /\ liveSessions' = [u \in Users |-> liveSessions[u] \ L]
        /\ overSessions' = overSessions \cup L
    <2>1. \A s \in Sids \ L :
             /\ Live(s)' <=> Live(s)
             /\ Live(s) => row'[s].user = row[s].user
             /\ row'[s] = NoRow /\ ended'[s] = NotEnded <=>
                   row[s] = NoRow /\ ended[s] = NotEnded
      BY <1>2 DEF Live
    <2> HIDE DEF L
    <2>2. L \in SUBSET Sids
      BY DEF L
    <2> QED
      BY <1>1, <2>1, <2>2, EndsAre
  <1> HIDE DEF L
  <1>5. Life!End(L)
    BY <1>3, <1>4 DEF Life!End
  <1> QED
    BY <1>5 DEF L

(* Rows that are deleted were over or are now.                              *)
LEMMA RemoveEnds ==
    ASSUME TypeOK, NEW S \in SUBSET Sids, Remove(S),
           NEW L \in SUBSET Sids, L = {s \in S : Live(s)}
    PROVE  /\ \A s \in L : \E u \in Users : s \in liveSessions[u]
           /\ liveSessions' = [u \in Users |-> liveSessions[u] \ L]
           /\ overSessions' = overSessions \cup L
  <1>1. ASSUME NEW s \in S
        PROVE  /\ ~ Live(s)'
               /\ row[s] # NoRow \/ ended[s] # NotEnded => ended'[s] # NotEnded
               /\ row[s] = NoRow => ended'[s] = ended[s]
    <2>1. row'[s] = NoRow
      BY DEF Remove
    <2>2. ended'[s] = IF row[s] # NoRow /\ ended[s] = NotEnded THEN now ELSE ended[s]
      BY DEF Remove, RecordEnd
    <2> QED
      BY <2>1, <2>2 DEF Live, TypeOK, NotEnded
  <1>2. ASSUME NEW s \in Sids \ S
        PROVE  row'[s] = row[s] /\ ended'[s] = ended[s]
    BY DEF Remove, RecordEnd
  <1>3. \A s \in L : \E u \in Users : s \in liveSessions[u]
    BY DEF liveSessions, SessionsOf, Live, TypeOK, SessionRow
  <1>4. /\ liveSessions' = [u \in Users |-> liveSessions[u] \ L]
        /\ overSessions' = overSessions \cup L
    <2>1. ASSUME NEW s \in Sids \ L
          PROVE  /\ Live(s)' <=> Live(s)
                 /\ Live(s) => row'[s].user = row[s].user
                 /\ row'[s] = NoRow /\ ended'[s] = NotEnded <=>
                       row[s] = NoRow /\ ended[s] = NotEnded
      <3>1. CASE s \in S
        <4>1. ~ Live(s) /\ ~ Live(s)' /\ row'[s] = NoRow
          BY <1>1, <2>1, <3>1 DEF Remove
        <4> QED
          BY <1>1, <3>1, <4>1
      <3>2. CASE s \notin S
        BY <1>2, <3>2 DEF Live
      <3> QED
        BY <3>1, <3>2
    <2>2. \A s \in L : Live(s) /\ ~ Live(s)' /\ ended'[s] # NotEnded
      BY <1>1 DEF Live
    <2> QED
      BY <2>1, <2>2, EndsAre
  <1> QED
    BY <1>3, <1>4

(* The row of a new session goes to an account that is there, on an id that *)
(* has had none.                                                            *)
LEMMA IssueCreateBegins ==
    ASSUME SessionsInv, NEW r \in Requests, IssueCreate(r),
           ~ UNCHANGED <<present, row, ended>>
    PROVE  Life!Next
  <1> DEFINE u == req[r].user
             s == req[r].sid
             new == [kind |-> "session", user |-> u,
                     expiresAt |-> req[r].at + RefreshTTL, revokedAt |-> NotRevoked]
  <1>1. u \in Users /\ s \in Sids
    BY RequestKinds
    DEF SessionsInv, IssueCreate, At, TokenStep, IssueSteps, TokenRequest
  <1>2. u \in present /\ row' = [row EXCEPT ![s] = new]
        /\ UNCHANGED <<present, ended>>
    BY DEF IssueCreate, history
  <1>3. row[s] = NoRow /\ ended[s] = NotEnded
    BY DEF SessionsInv, Sound, IssueCreate, At
  <1>4. new # NoRow /\ new.revokedAt = NotRevoked /\ new.user = u
    BY DEF NoRow
  <1>5. \A x \in Sids : row'[x] = IF x = s THEN new ELSE row[x]
    BY <1>2 DEF SessionsInv, TypeOK
  <1> HIDE DEF new
  <1>6. liveSessions' = [liveSessions EXCEPT ![u] = @ \cup {s}]
    <2>1. ASSUME NEW v \in Users
          PROVE  liveSessions'[v] =
                    IF v = u THEN liveSessions[v] \cup {s} ELSE liveSessions[v]
      BY <1>1, <1>3, <1>4, <1>5 DEF liveSessions, SessionsOf, Live
    <2> QED
      BY <1>1, <2>1 DEF liveSessions
  <1>7. overSessions' = overSessions
    BY <1>2, <1>3, <1>4, <1>5 DEF overSessions, Live
  <1>8. s \notin overSessions /\ \A v \in Users : s \notin liveSessions[v]
    BY <1>3 DEF overSessions, liveSessions, SessionsOf
  <1>9. Life!Begin(u, s)
    BY <1>2, <1>6, <1>7, <1>8 DEF Life!Begin
  <1> QED
    BY <1>1, <1>9 DEF Life!Next

LEMMA DeleteUserCloses ==
    ASSUME TypeOK, NEW r \in Requests, DeleteUser(r)
    PROVE  Life!Next
  <1>1. PICK u \in Users : u = req[r].user
    BY RequestKinds DEF DeleteUser, At, DeleteSteps, DeleteRequest
  <1>2. PICK L \in SUBSET Sids : L = {s \in SessionsOf(u) : Live(s)}
    BY DEF SessionsOf
  <1>3. Remove(SessionsOf(u)) /\ present' = present \ {u}
    BY <1>1 DEF DeleteUser
  <1>4. SessionsOf(u) \in SUBSET Sids
    BY DEF SessionsOf
  <1>5. /\ liveSessions' = [v \in Users |-> liveSessions[v] \ L]
        /\ overSessions' = overSessions \cup L
    BY <1>2, <1>3, <1>4, RemoveEnds
  <1>6. L = liveSessions[u] /\ \A v \in Users \ {u} : liveSessions[v] \cap L = {}
    BY <1>2 DEF liveSessions, SessionsOf
  <1>7. liveSessions' = [liveSessions EXCEPT ![u] = {}]
    <2>1. liveSessions = [v \in Users |-> liveSessions[v]]
      BY DEF liveSessions
    <2> QED
      BY <1>5, <1>6, <2>1
  <1>8. Life!Close(u)
    BY <1>3, <1>5, <1>6, <1>7 DEF Life!Close
  <1> QED
    BY <1>8 DEF Life!Next

LEMMA LifeStep ==
    ASSUME SessionsInv, [Next]_vars
    PROVE  [Life!Next]_(Life!vars)
  <1> USE DEF SessionsInv
  <1>1. ASSUME NEW S \in SUBSET Sids, Revoke(S), UNCHANGED present
        PROVE  Life!Next
    <2>1. {s \in S : Live(s)} \in SUBSET Sids
      OBVIOUS
    <2> QED
      BY <1>1, <2>1, RevokeEnds DEF Life!Next
  <1>2. \A s \in Sids : Logout(s) => Life!Next
    BY <1>1 DEF Logout
  <1>3. \A u \in Users : LogoutAll(u) => Life!Next
    BY <1>1 DEF LogoutAll, SessionsOf
  <1>4. ASSUME NEW r \in Requests, DeleteRevokeAll(r)
        PROVE  Life!Next \/ UNCHANGED Life!vars
    <2>1. CASE Revoke(SessionsOf(req[r].user))
      <3>1. SessionsOf(req[r].user) \in SUBSET Sids
        BY DEF SessionsOf
      <3> QED
        BY <1>1, <1>4, <2>1, <3>1 DEF DeleteRevokeAll
    <2>2. CASE UNCHANGED <<row, history>>
      BY <1>4, <2>2 DEF DeleteRevokeAll, history, Life!vars, liveSessions,
         overSessions, SessionsOf, Live
    <2> QED
      BY <1>4, <2>1, <2>2 DEF DeleteRevokeAll
  <1>5. ASSUME NEW cutoff, DeleteExpired(cutoff)
        PROVE  Life!Next
    <2>1. PICK S \in SUBSET Sids : S = {s \in Sids : Stale(s, cutoff)}
      OBVIOUS
    <2>2. PICK L \in SUBSET Sids : L = {s \in S : Live(s)}
      BY <2>1
    <2>3. Remove(S) /\ UNCHANGED present
      BY <1>5, <2>1 DEF DeleteExpired
    <2>4. Life!End(L)
      BY <2>2, <2>3, RemoveEnds DEF Life!End
    <2> QED
      BY <2>4 DEF Life!Next
  <1>6. CASE UNCHANGED <<present, row, ended>>
    BY <1>6 DEF Life!vars, liveSessions, overSessions, SessionsOf, Live
  <1> QED
    BY <1>2, <1>3, <1>4, <1>5, <1>6, IssueCreateBegins, DeleteUserCloses
    DEF Next, Step, BeginIssue, IssueGetUser, LoadRoles, IssueSign,
        BeginRefresh, Lookup, CheckValid, RefreshGetUser, RefreshSign,
        BeginDelete, Fail, SetRoles, Tick, vars, tables, history

(* Issue, revocation, housekeeping and deletion, though spread over many    *)
(* statements of concurrent requests, are single steps in the life of a     *)
(* session (session.go, sessions_repo.go, me/delete.go).                    *)
THEOREM SessionsLiveOnce == Spec => ImplementsSessionLife
  <1>1. SessionsInv /\ [Next]_vars => [Life!Next]_(Life!vars)
    BY LifeStep
  <1> QED
    BY <1>1, InvariantHolds, LifeBegins, PTL
    DEF Spec, ImplementsSessionLife, Life!Spec

-----------------------------------------------------------------------------
(* What every life of sessions keeps, read on the tables of Sessions.       *)
LEMMA LifeInit == Life!Init => Life!LifeInv
  BY DEF Life!Init, Life!LifeInv, Life!TypeOK, Life!OwnedWhileLive

LEMMA LifeBeginKeeps ==
    ASSUME Life!LifeInv, NEW u \in Users, NEW s \in Sids, Life!Begin(u, s)
    PROVE  Life!LifeInv' /\ Life!OverForGood
  <1>1. /\ liveSessions' = [liveSessions EXCEPT ![u] = @ \cup {s}]
        /\ present' = present /\ overSessions' = overSessions
        /\ u \in present /\ s \notin overSessions
        /\ \A v \in Users : s \notin liveSessions[v]
    BY DEF Life!Begin
  <1>2. liveSessions \in [Users -> SUBSET Sids]
    BY DEF Life!LifeInv, Life!TypeOK
  <1>3. liveSessions' \in [Users -> SUBSET Sids]
        /\ \A v \in Users : liveSessions'[v] = IF v = u THEN liveSessions[v] \cup {s}
                                               ELSE liveSessions[v]
    BY <1>1, <1>2
  <1>4. Life!TypeOK'
    BY <1>1, <1>3 DEF Life!LifeInv, Life!TypeOK
  <1>5. Life!OwnedWhileLive'
    BY <1>1, <1>3 DEF Life!LifeInv, Life!OwnedWhileLive
  <1>6. Life!OverForGood
    BY <1>1, <1>2, <1>3 DEF Life!LifeInv, Life!OwnedWhileLive, Life!OverForGood
  <1> QED
    BY <1>4, <1>5, <1>6 DEF Life!LifeInv

(* The sessions of E end, and those of accounts that go are among them.     *)
LEMMA LifeEndKeeps ==
    ASSUME Life!LifeInv, NEW E \in SUBSET Sids,
           liveSessions' = [u \in Users |-> liveSessions[u] \ E],
           overSessions' = overSessions \cup E,
           present' \subseteq present,
           \A u \in present \ present' : liveSessions[u] \subseteq E
    PROVE  Life!LifeInv' /\ Life!OverForGood
  <1>1. Life!TypeOK'
    BY DEF Life!LifeInv, Life!TypeOK
  <1>2. /\ \A u \in Users : liveSessions'[u] = liveSessions[u] \ E
        /\ \A u \in Users : liveSessions[u] \subseteq Sids
    BY DEF Life!LifeInv, Life!TypeOK
  <1>3. Life!OwnedWhileLive'
    BY <1>2 DEF Life!LifeInv, Life!OwnedWhileLive
  <1>4. Life!OverForGood
    BY <1>2 DEF Life!LifeInv, Life!OwnedWhileLive, Life!OverForGood
  <1> QED
    BY <1>1, <1>3, <1>4 DEF Life!LifeInv

LEMMA LifeCloseKeeps ==
    ASSUME Life!LifeInv, NEW u \in Users, Life!Close(u)
    PROVE  Life!LifeInv' /\ Life!OverForGood
  <1>1. PICK E \in SUBSET Sids : E = liveSessions[u]
    BY DEF Life!LifeInv, Life!TypeOK
  <1>2. /\ liveSessions' = [liveSessions EXCEPT ![u] = {}]
        /\ overSessions' = overSessions \cup E
        /\ present' = present \ {u}
        /\ liveSessions \in [Users -> SUBSET Sids]
    BY <1>1 DEF Life!Close, Life!LifeInv, Life!TypeOK
  <1>3. \A v \in Users \ {u} : liveSessions[v] \cap E = {}
    BY <1>1 DEF Life!LifeInv, Life!OwnedWhileLive
  <1>4. liveSessions' = [v \in Users |-> liveSessions[v] \ E]
    BY <1>1, <1>2, <1>3
  <1>5. present' \subseteq present
        /\ \A v \in present \ present' : liveSessions[v] \subseteq E
    BY <1>1, <1>2
  <1> QED
    BY <1>2, <1>4, <1>5, LifeEndKeeps

LEMMA LifeKeeps ==
    ASSUME Life!LifeInv, [Life!Next]_(Life!vars)
    PROVE  Life!LifeInv' /\ Life!OverForGood
  <1>1. ASSUME NEW E \in SUBSET Sids, Life!End(E)
        PROVE  Life!LifeInv' /\ Life!OverForGood
    BY <1>1, LifeEndKeeps DEF Life!End
  <1>2. CASE UNCHANGED Life!vars
    BY <1>2 DEF Life!vars, Life!LifeInv, Life!TypeOK, Life!OwnedWhileLive,
                Life!OverForGood
  <1> QED
    BY <1>1, <1>2, LifeBeginKeeps, LifeCloseKeeps DEF Life!Next

(* Whatever begins and ends sessions one by one, one that can be used is    *)
(* its account's alone, and the account is there (SessionLife).             *)
THEOREM LifeIsOwned == Life!Spec => []Life!OwnedWhileLive
  <1>1. Life!LifeInv /\ [Life!Next]_(Life!vars) => Life!LifeInv'
    BY LifeKeeps
  <1>2. Life!LifeInv => Life!OwnedWhileLive
    BY DEF Life!LifeInv
  <1> QED
    BY LifeInit, <1>1, <1>2, PTL DEF Life!Spec

(* And one that is over stays over.                                         *)
THEOREM LifeEndsOnce == Life!Spec => [][Life!OverForGood]_(Life!vars)
  <1>1. Life!LifeInv /\ [Life!Next]_(Life!vars) =>
            Life!LifeInv' /\ [Life!OverForGood]_(Life!vars)
    BY LifeKeeps
  <1> QED
    BY LifeInit, <1>1, PTL DEF Life!Spec

(* No session outlives its account or passes to another: the insert that    *)
(* races a deletion is refused by the foreign key, the cascade takes the    *)
(* rest (IssueSession, UsersRepository.Delete).                             *)
THEOREM SessionsAreOwned == Spec => []Life!OwnedWhileLive
  BY SessionsLiveOnce, LifeIsOwned, PTL DEF ImplementsSessionLife

(* A session is its account's until it is over, and over for good; an       *)
(* account that is gone gets none.                                          *)
THEOREM SessionsEndOnce == Spec => [][Life!OverForGood]_(Life!vars)
  BY SessionsLiveOnce, LifeEndsOnce, PTL DEF ImplementsSessionLife

-----------------------------------------------------------------------------
(* A browser and the cookies that stand for its sessions, for any number of *)
(* sessions and requests: WebClient with variables of its own, and what it  *)
(* assumes of the marks it uses beside sessions as a hypothesis.            *)
VARIABLES proc, session, account, jar, trips

W == INSTANCE WebClient WITH req <- trips

SidsAreNoMarks == {W!None, W!Keep, W!Clear} \cap Sids = {}

(* Sessions come into being and end, and never the other way round.         *)
SessionsMoveOn ==
    \A s \in Sids : /\ session[s] # "none" => session'[s] # "none"
                    /\ session[s] = "over" => session'[s] = "over"

LEMMA ClientKinds ==
    ASSUME W!TypeOK, NEW r \in Requests, ~ W!At(r, "idle")
    PROVE  /\ trips[r] \in W!Request
           /\ trips[r].with.refresh \in Sids \cup {W!None}
           /\ trips[r].with.access \in Sids \cup {W!None}
  BY DEF W!TypeOK, W!Request, W!Cookies, W!Idle, W!At

LEMMA ClientInit == W!Init => W!ClientInv
  BY DEF W!Init, W!ClientInv, W!TypeOK, W!ProcInit, W!ProcTypeOK, W!Cookies,
         W!Issued, W!Due, W!At, W!Idle

-----------------------------------------------------------------------------
(* A request that stays as it is remains due what it was while sessions move*)
(* on and the refresh cookie stays or goes.                                 *)
LEMMA ClientOthersDue ==
    ASSUME W!ClientInv, NEW q \in Requests, trips'[q] = trips[q],
           SessionsMoveOn,
           jar'.refresh \in {jar.refresh, W!None}
    PROVE  W!Due(q)'
  <1>1. CASE W!At(q, "idle")
    BY <1>1 DEF W!Due, W!At
  <1>2. CASE ~ W!At(q, "idle")
    <2>1. W!Due(q) /\ trips[q].with.refresh \in Sids \cup {W!None}
      BY <1>2, ClientKinds DEF W!ClientInv
    <2> QED
      BY <1>2, <2>1 DEF W!Due, W!Issued, W!At, SessionsMoveOn
  <1> QED
    BY <1>1, <1>2

(* Steps of one request that leave the cookies alone.                       *)
LEMMA ClientStep ==
    ASSUME W!ClientInv, NEW r \in Requests,
           NEW new \in W!Request \cup {W!Idle},
           trips' = [trips EXCEPT ![r] = new],
           session' \in [Sids -> {"none", "live", "over"}], SessionsMoveOn,
           jar' = jar, proc' = proc, account' \in BOOLEAN, W!Due(r)'
    PROVE  W!ClientInv'
  <1>1. /\ trips' \in [Requests -> W!Request \cup {W!Idle}]
        /\ \A q \in Requests \ {r} : trips'[q] = trips[q]
    BY DEF W!ClientInv, W!TypeOK
  <1>2. W!TypeOK'
    BY <1>1 DEF W!ClientInv, W!TypeOK, W!ProcTypeOK
  <1>3. W!Issued(jar.refresh)'
    BY DEF W!ClientInv, W!TypeOK, W!Cookies, W!Issued, SessionsMoveOn
  <1>4. ASSUME NEW q \in Requests, q # r PROVE W!Due(q)'
    BY <1>1, <1>4, ClientOthersDue
  <1> QED
    BY <1>2, <1>3, <1>4 DEF W!ClientInv

(* A request is answered.                                                   *)
LEMMA ClientAnswer ==
    ASSUME W!ClientInv, NEW r \in Requests, ~ W!At(r, "idle"),
           NEW answer \in Sids \cup {W!Keep, W!Clear}, NEW failed \in BOOLEAN,
           trips' = [trips EXCEPT ![r] = [trips[r] EXCEPT !.pc = "answered",
                                      !.answer = answer, !.failed = failed]],
           session' \in [Sids -> {"none", "live", "over"}], SessionsMoveOn,
           jar' = jar, proc' = proc, account' \in BOOLEAN,
           answer = W!Clear => \/ failed \/ trips[r].with.refresh = W!None
                             \/ session'[trips[r].with.refresh] = "over",
           answer \in Sids =>
               /\ session'[answer] # "none"
               /\ \/ trips[r].kind = "login"
                  \/ trips[r].kind = "refresh" /\ answer = trips[r].with.refresh
    PROVE  W!ClientInv'
  <1> DEFINE new == [trips[r] EXCEPT !.pc = "answered", !.answer = answer,
                                   !.failed = failed]
  <1>1. trips[r] \in W!Request /\ trips[r].with.refresh \in Sids \cup {W!None}
    BY ClientKinds DEF W!ClientInv
  <1>2. /\ new \in W!Request /\ new.pc = "answered" /\ new.answer = answer
        /\ new.failed = failed /\ new.kind = trips[r].kind
        /\ new.with = trips[r].with /\ new.overtaken = trips[r].overtaken
    BY <1>1 DEF W!Request
  <1> HIDE DEF new
  <1>3. trips' = [trips EXCEPT ![r] = new] /\ trips'[r] = new
    BY DEF new, W!ClientInv, W!TypeOK
  <1>4. /\ W!Issued(trips[r].with.refresh)
        /\ trips[r].overtaken \/ jar.refresh \in {trips[r].with.refresh, W!None}
    BY DEF W!ClientInv, W!Due
  <1>5. W!Due(r)'
    BY <1>1, <1>2, <1>3, <1>4 DEF W!Due, W!Issued, W!At, SessionsMoveOn
  <1> QED
    BY <1>2, <1>3, <1>5, ClientStep

LEMMA ClientAnswers ==
    ASSUME W!ClientInv, NEW r \in Requests, ~ W!At(r, "idle"),
           NEW answer \in Sids \cup {W!Keep, W!Clear}, W!Answer(r, answer),
           session' \in [Sids -> {"none", "live", "over"}], SessionsMoveOn,
           jar' = jar, proc' = proc, account' \in BOOLEAN,
           answer = W!Clear => \/ trips[r].with.refresh = W!None
                             \/ session'[trips[r].with.refresh] = "over",
           answer \in Sids =>
               /\ session'[answer] # "none"
               /\ \/ trips[r].kind = "login"
                  \/ trips[r].kind = "refresh" /\ answer = trips[r].with.refresh
    PROVE  W!ClientInv'
  <1>1. trips[r] \in W!Request
    BY ClientKinds DEF W!ClientInv
  <1>2. PICK failed \in BOOLEAN : failed = trips[r].failed
    BY <1>1 DEF W!Request
  <1>3. [trips[r] EXCEPT !.pc = "answered", !.answer = answer] =
            [trips[r] EXCEPT !.pc = "answered", !.answer = answer, !.failed = failed]
    BY <1>1, <1>2 DEF W!Request
  <1>4. trips' = [trips EXCEPT ![r] = [trips[r] EXCEPT !.pc = "answered",
                                                 !.answer = answer]]
    BY DEF W!Answer, W!ClientInv, W!TypeOK
  <1>5. trips' = [trips EXCEPT ![r] = [trips[r] EXCEPT !.pc = "answered",
                                      !.answer = answer, !.failed = failed]]
    BY <1>3, <1>4
  <1> QED
    BY <1>5, ClientAnswer

(* A handler goes on.                                                       *)
LEMMA ClientGoto ==
    ASSUME W!ClientInv, NEW r \in Requests, ~ W!At(r, "idle"), NEW label,
           W!Goto(r, label),
           \/ /\ label = "mint" /\ trips[r].kind = "refresh"
              /\ trips[r].with.refresh # W!None
           \/ label = "remove" /\ trips[r].kind = "delete",
           session' \in [Sids -> {"none", "live", "over"}], SessionsMoveOn,
           jar' = jar, proc' = proc, account' \in BOOLEAN
    PROVE  W!ClientInv'
  <1> DEFINE new == [trips[r] EXCEPT !.pc = label]
  <1>1. trips[r] \in W!Request /\ trips[r].with.refresh \in Sids \cup {W!None}
    BY ClientKinds DEF W!ClientInv
  <1>2. /\ new \in W!Request /\ new.pc = label /\ new.kind = trips[r].kind
        /\ new.with = trips[r].with /\ new.overtaken = trips[r].overtaken
    BY <1>1 DEF W!Request
  <1> HIDE DEF new
  <1>3. trips' = [trips EXCEPT ![r] = new] /\ trips'[r] = new
    BY DEF new, W!Goto, W!ClientInv, W!TypeOK
  <1>4. /\ W!Issued(trips[r].with.refresh)
        /\ trips[r].overtaken \/ jar.refresh \in {trips[r].with.refresh, W!None}
    BY DEF W!ClientInv, W!Due
  <1>5. W!Due(r)'
    BY <1>1, <1>2, <1>3, <1>4 DEF W!Due, W!Issued, W!At, SessionsMoveOn
  <1> QED
    BY <1>2, <1>3, <1>5, ClientStep

-----------------------------------------------------------------------------
(* What the handlers do.                                                    *)
LEMMA SendStep ==
    ASSUME W!ClientInv, NEW r \in Requests, NEW kind \in W!Kinds, W!Send(r,
           kind)
    PROVE  W!ClientInv'
  <1> DEFINE new == [pc |-> "sent", kind |-> kind, with |-> jar,
                     answer |-> W!Keep, failed |-> FALSE, overtaken |-> FALSE]
  <1>1. new \in W!Request
    BY DEF W!Request, W!ClientInv, W!TypeOK
  <1>2. /\ trips' = [trips EXCEPT ![r] = new]
        /\ UNCHANGED <<proc, session, account, jar>>
    BY DEF W!Send, W!serverVars
  <1>3. trips'[r] = new
    BY <1>2 DEF W!ClientInv, W!TypeOK
  <1>4. SessionsMoveOn
    BY <1>2 DEF SessionsMoveOn
  <1>5. W!Due(r)'
    BY <1>2, <1>3 DEF W!ClientInv, W!Due, W!Issued, W!At
  <1> HIDE DEF new
  <1> QED
    BY <1>1, <1>2, <1>4, <1>5, ClientStep DEF W!ClientInv, W!TypeOK

LEMMA KeepStep ==
    ASSUME SidsAreNoMarks, W!ClientInv, NEW r \in Requests,
           W!RateLimited(r) \/ W!Unauthorized(r) \/ W!Fail(r)
    PROVE  W!ClientInv'
  <1>1. /\ ~ W!At(r, "idle") /\ W!Answer(r, W!Keep)
        /\ UNCHANGED <<proc, session, account, jar>>
    BY DEF W!RateLimited, W!Unauthorized, W!Fail, W!At, W!serverVars
  <1>2. SessionsMoveOn
    BY <1>1 DEF SessionsMoveOn
  <1>3. W!Keep \notin Sids /\ W!Keep # W!Clear
    BY DEF SidsAreNoMarks, W!Keep, W!Clear
  <1> QED
    BY <1>1, <1>2, <1>3, ClientAnswers DEF W!ClientInv, W!TypeOK

LEMMA IssueSessionStep ==
    ASSUME SidsAreNoMarks, W!ClientInv, NEW r \in Requests, NEW s \in Sids,
           W!IssueSession(r, s)
    PROVE  W!ClientInv'
  <1>1. /\ ~ W!At(r, "idle") /\ trips[r].kind = "login"
        /\ W!Answer(r, s) \/ W!Answer(r, W!Keep)
        /\ session[s] = "none" /\ session' = [session EXCEPT ![s] = "live"]
        /\ UNCHANGED <<proc, account, jar>>
    BY DEF W!IssueSession, W!Handling, W!At
  <1>2. /\ session' \in [Sids -> {"none", "live", "over"}] /\ SessionsMoveOn
        /\ session'[s] = "live"
    BY <1>1 DEF W!ClientInv, W!TypeOK, SessionsMoveOn
  <1>3. W!Keep \notin Sids /\ W!Keep # W!Clear /\ s # W!Clear
    BY DEF SidsAreNoMarks, W!Keep, W!Clear
  <1> QED
    BY <1>1, <1>2, <1>3, ClientAnswers DEF W!ClientInv, W!TypeOK

LEMMA RefreshStep ==
    ASSUME SidsAreNoMarks, W!ClientInv, NEW r \in Requests,
           W!RefreshLookup(r) \/ W!RefreshMint(r)
    PROVE  W!ClientInv'
  <1>1. /\ ~ W!At(r, "idle") /\ trips[r].kind = "refresh"
        /\ UNCHANGED <<proc, session, account, jar>>
    BY DEF W!RefreshLookup, W!RefreshMint, W!Handling, W!At, W!serverVars
  <1>2. /\ session' \in [Sids -> {"none", "live", "over"}] /\ SessionsMoveOn
        /\ account' \in BOOLEAN
    BY <1>1 DEF W!ClientInv, W!TypeOK, SessionsMoveOn
  <1>3. {W!None, W!Keep, W!Clear} \cap Sids = {} /\ W!Keep # W!Clear
    BY DEF SidsAreNoMarks, W!Keep, W!Clear
  <1>4. /\ trips[r].with.refresh \in Sids \cup {W!None}
        /\ W!Issued(trips[r].with.refresh)
        /\ W!At(r, "mint") => trips[r].with.refresh # W!None
    BY <1>1, ClientKinds DEF W!ClientInv, W!Due
  <1>5. \/ W!Answer(r, W!Keep)
        \/ W!Goto(r, "mint") /\ trips[r].with.refresh # W!None
        \/ /\ W!Answer(r, W!Clear)
           /\ trips[r].with.refresh \in Sids
           /\ session[trips[r].with.refresh] # "live"
        \/ W!Answer(r, trips[r].with.refresh) /\ trips[r].with.refresh \in Sids
    BY <1>4 DEF W!RefreshLookup, W!RefreshMint, W!Handling
  <1>6. CASE W!Answer(r, W!Keep)
    BY <1>1, <1>2, <1>3, <1>6, ClientAnswers
  <1>7. CASE W!Goto(r, "mint") /\ trips[r].with.refresh # W!None
    BY <1>1, <1>2, <1>7, ClientGoto
  <1>8. CASE /\ W!Answer(r, W!Clear) /\ trips[r].with.refresh \in Sids
             /\ session[trips[r].with.refresh] # "live"
    <2>1. session'[trips[r].with.refresh] = "over"
      BY <1>1, <1>3, <1>4, <1>8 DEF W!ClientInv, W!TypeOK, W!Issued
    <2> QED
      BY <1>1, <1>2, <1>3, <1>8, <2>1, ClientAnswers
  <1>9. CASE W!Answer(r, trips[r].with.refresh) /\ trips[r].with.refresh \in Sids
    <2>1. PICK s \in Sids : s = trips[r].with.refresh
      BY <1>9
    <2>2. session'[s] # "none" /\ s # W!Clear
      BY <1>1, <1>3, <1>4, <2>1 DEF W!Issued
    <2> QED
      BY <1>1, <1>2, <1>9, <2>1, <2>2, ClientAnswers
  <1> QED
    BY <1>5, <1>6, <1>7, <1>8, <1>9

(* Logging out of one session: it is over, or the failure was noted.        *)
LEMMA ClientLogoutStep ==
    ASSUME SidsAreNoMarks, W!ClientInv, NEW r \in Requests, W!Logout(r)
    PROVE  W!ClientInv'
  <1>1. PICK s : s = trips[r].with.refresh
    OBVIOUS
  <1>2. /\ ~ W!At(r, "idle") /\ UNCHANGED <<proc, account, jar>>
    BY DEF W!Logout, W!Handling, W!At
  <1>3. s \in Sids \cup {W!None} /\ W!Issued(s)
    BY <1>1, <1>2, ClientKinds DEF W!ClientInv, W!Due
  <1>4. PICK lost \in BOOLEAN :
          /\ session' = IF s = W!None \/ lost THEN session
                        ELSE [session EXCEPT ![s] = "over"]
          /\ trips' = [trips EXCEPT ![r].pc = "answered", ![r].answer = W!Clear,
                                ![r].failed = lost /\ s # W!None]
    BY <1>1 DEF W!Logout
  <1>5. PICK failed \in BOOLEAN : failed = (lost /\ s # W!None)
    OBVIOUS
  <1>6. trips' = [trips EXCEPT ![r] = [trips[r] EXCEPT !.pc = "answered",
                                      !.answer = W!Clear, !.failed = failed]]
    BY <1>4, <1>5 DEF W!ClientInv, W!TypeOK
  <1>7. session' \in [Sids -> {"none", "live", "over"}] /\ SessionsMoveOn
    BY <1>3, <1>4 DEF W!ClientInv, W!TypeOK, SessionsMoveOn
  <1>8. failed \/ s = W!None \/ session'[s] = "over"
    BY <1>3, <1>4, <1>5 DEF W!ClientInv, W!TypeOK
  <1>9. W!Clear \notin Sids /\ account' \in BOOLEAN
    BY <1>2 DEF SidsAreNoMarks, W!ClientInv, W!TypeOK
  <1> QED
    BY <1>1, <1>2, <1>6, <1>7, <1>8, <1>9, ClientAnswer

(* Ending all sessions leaves those there have been over.                   *)
LEMMA EndAllMovesOn ==
    ASSUME W!ClientInv, W!EndAll
    PROVE  /\ session' \in [Sids -> {"none", "live", "over"}] /\ SessionsMoveOn
           /\ \A s \in Sids : session[s] # "none" => session'[s] = "over"
  BY DEF W!ClientInv, W!TypeOK, W!EndAll, SessionsMoveOn

LEMMA EndAllStep ==
    ASSUME SidsAreNoMarks, W!ClientInv, NEW r \in Requests,
           W!LogoutAll(r) \/ W!DeleteRevoke(r) \/ W!DeleteAccount(r)
    PROVE  W!ClientInv'
  <1>1. ~ W!At(r, "idle") /\ UNCHANGED <<proc, jar>>
    BY DEF W!LogoutAll, W!DeleteRevoke, W!DeleteAccount, W!Handling, W!At
  <1>2. trips[r].with.refresh \in Sids \cup {W!None} /\ W!Issued(trips[r].with.refresh)
    BY <1>1, ClientKinds DEF W!ClientInv, W!Due
  <1>3. CASE W!LogoutAll(r) \/ W!DeleteAccount(r)
    <2>1. W!EndAll /\ W!Answer(r, W!Clear) /\ account' \in BOOLEAN
      BY <1>3 DEF W!LogoutAll, W!DeleteAccount, W!ClientInv, W!TypeOK
    <2>2. \/ trips[r].with.refresh = W!None
          \/ session'[trips[r].with.refresh] = "over"
      BY <1>2, <2>1, EndAllMovesOn DEF W!Issued
    <2> QED
      BY <1>1, <2>1, <2>2, EndAllMovesOn, ClientAnswers DEF SidsAreNoMarks
  <1>4. CASE W!DeleteRevoke(r)
    <2>1. /\ W!EndAll \/ UNCHANGED session
          /\ W!Goto(r, "remove") /\ account' \in BOOLEAN
          /\ trips[r].kind = "delete"
      BY <1>4 DEF W!DeleteRevoke, W!Handling, W!ClientInv, W!TypeOK
    <2>2. session' \in [Sids -> {"none", "live", "over"}] /\ SessionsMoveOn
      BY <2>1, EndAllMovesOn DEF W!ClientInv, W!TypeOK, SessionsMoveOn
    <2> QED
      BY <1>1, <2>1, <2>2, ClientGoto
  <1> QED
    BY <1>3, <1>4

-----------------------------------------------------------------------------
(* The cookies, and what ends requests from outside.                        *)
LEMMA CookieStep ==
    ASSUME W!ClientInv, W!Forget \/ \E s \in Sids : W!EndElsewhere(s)
    PROVE  W!ClientInv'
  <1>1. UNCHANGED <<proc, account, trips>> /\ SessionsMoveOn
    BY DEF W!EndElsewhere, W!Forget, W!serverVars, W!ClientInv, W!TypeOK,
           SessionsMoveOn
  <1>2. /\ session' \in [Sids -> {"none", "live", "over"}]
        /\ jar' \in W!Cookies /\ jar'.refresh \in {jar.refresh, W!None}
    BY DEF W!EndElsewhere, W!Forget, W!serverVars, W!ClientInv, W!TypeOK,
           W!Cookies
  <1>3. W!TypeOK'
    BY <1>1, <1>2 DEF W!ClientInv, W!TypeOK, W!ProcTypeOK
  <1>4. W!Issued(jar.refresh)'
    BY <1>1, <1>2 DEF W!ClientInv, W!TypeOK, W!Cookies, W!Issued, SessionsMoveOn
  <1>5. ASSUME NEW q \in Requests PROVE W!Due(q)'
    BY <1>1, <1>2, ClientOthersDue
  <1> QED
    BY <1>3, <1>4, <1>5 DEF W!ClientInv

(* Requests that end without an answer.                                     *)
LEMMA GoneStep ==
    ASSUME W!ClientInv,
           \A q \in Requests : trips'[q] = trips[q] \/ trips'[q] = W!Idle,
           trips' \in [Requests -> W!Request \cup {W!Idle}],
           W!ProcTypeOK', UNCHANGED <<session, account, jar>>
    PROVE  W!ClientInv'
  <1>1. W!TypeOK' /\ W!Issued(jar.refresh)' /\ SessionsMoveOn
    BY DEF W!ClientInv, W!TypeOK, W!Issued, SessionsMoveOn
  <1>2. ASSUME NEW q \in Requests PROVE W!Due(q)'
    <2>1. CASE trips'[q] = W!Idle
      BY <2>1 DEF W!Due, W!At, W!Idle
    <2> QED
      BY <1>1, <2>1, ClientOthersDue
  <1> QED
    BY <1>1, <1>2 DEF W!ClientInv

LEMMA ProcessStep ==
    ASSUME W!ClientInv, W!Process \/ \E r \in Requests : W!Lose(r)
    PROVE  W!ClientInv'
  <1>1. CASE W!Process
    <2>1. W!ProcTypeOK' /\ UNCHANGED <<session, account, jar>>
          /\ (trips' = trips \/ W!CutOff)
      BY <1>1
         DEF W!Process, W!ShutDown, W!TimeOut, W!Boot, W!Interrupt, W!Drained,
             W!Deadline, W!Crash, W!ProcTypeOK, W!ClientInv, W!TypeOK,
             W!serverVars
    <2>2. /\ trips' \in [Requests -> W!Request \cup {W!Idle}]
          /\ \A q \in Requests : trips'[q] = trips[q] \/ trips'[q] = W!Idle
      BY <2>1 DEF W!CutOff, W!ClientInv, W!TypeOK
    <2> QED
      BY <2>1, <2>2, GoneStep
  <1>2. ASSUME NEW r \in Requests, W!Lose(r) PROVE W!ClientInv'
    <2>1. W!ProcTypeOK' /\ UNCHANGED <<session, account, jar>>
      BY <1>2 DEF W!Lose, W!serverVars, W!ClientInv, W!TypeOK, W!ProcTypeOK
    <2>2. /\ trips' \in [Requests -> W!Request \cup {W!Idle}]
          /\ \A q \in Requests : trips'[q] = trips[q] \/ trips'[q] = W!Idle
      BY <1>2 DEF W!Lose, W!ClientInv, W!TypeOK
    <2> QED
      BY <2>1, <2>2, GoneStep
  <1> QED
    BY <1>1, <1>2

(* An answer that sets or clears the cookies overtakes whatever is under    *)
(* way; one that does not leaves them as they are.                          *)
LEMMA DeliverStep ==
    ASSUME SidsAreNoMarks, W!ClientInv, NEW r \in Requests, W!Deliver(r)
    PROVE  W!ClientInv'
  <1>1. PICK answer : answer = trips[r].answer
    OBVIOUS
  <1>2. /\ W!At(r, "answered") /\ jar' = W!Receive(answer)
        /\ UNCHANGED <<proc, session, account>>
        /\ trips' = [q \in Requests |->
                      IF q = r THEN W!Idle
                      ELSE IF ~ W!At(q, "idle") /\ answer # W!Keep
                      THEN [trips[q] EXCEPT !.overtaken = TRUE] ELSE trips[q]]
    BY <1>1 DEF W!Deliver, W!serverVars
  <1>3. trips[r] \in W!Request /\ answer \in Sids \cup {W!Keep, W!Clear}
    BY <1>1, <1>2, ClientKinds DEF W!ClientInv, W!Request, W!At
  <1>4. {W!None, W!Keep, W!Clear} \cap Sids = {} /\ W!Keep # W!Clear
    BY DEF SidsAreNoMarks, W!Keep, W!Clear
  <1>5. /\ answer = W!Keep => jar' = jar
        /\ answer = W!Clear => jar' = [access |-> W!None, refresh |-> W!None]
        /\ answer \in Sids => jar' = [access |-> answer, refresh |-> answer]
    BY <1>2, <1>3, <1>4 DEF W!Receive
  <1>6. jar' \in W!Cookies
    BY <1>3, <1>5 DEF W!ClientInv, W!TypeOK, W!Cookies
  <1>7. answer \in Sids => W!Issued(answer)
    BY <1>1, <1>2 DEF W!ClientInv, W!Due
  <1>8. W!Issued(jar.refresh)'
    BY <1>2, <1>3, <1>5, <1>7 DEF W!ClientInv, W!Issued
  <1>9. SessionsMoveOn
    BY <1>2 DEF SessionsMoveOn
  <1>10. ASSUME NEW q \in Requests
         PROVE  trips'[q] \in W!Request \cup {W!Idle} /\ W!Due(q)'
    <2>1. CASE q = r
      <3>1. trips'[q] = W!Idle
        BY <1>2, <2>1
      <3> QED
        BY <3>1 DEF W!Due, W!At, W!Idle
    <2>2. CASE q # r /\ ~ (~ W!At(q, "idle") /\ answer # W!Keep)
      <3>1. trips'[q] = trips[q]
        BY <1>2, <2>2
      <3>2. CASE W!At(q, "idle")
        BY <3>1, <3>2 DEF W!Due, W!At, W!ClientInv, W!TypeOK
      <3>3. CASE ~ W!At(q, "idle")
        <4>1. jar' = jar
          BY <1>5, <2>2, <3>3
        <4> QED
          BY <1>9, <3>1, <4>1, ClientOthersDue DEF W!ClientInv, W!TypeOK
      <3> QED
        BY <3>2, <3>3
    <2>3. CASE q # r /\ ~ W!At(q, "idle") /\ answer # W!Keep
      <3> DEFINE new == [trips[q] EXCEPT !.overtaken = TRUE]
      <3>1. trips'[q] = new
        BY <1>2, <2>3
      <3>2. trips[q] \in W!Request /\ trips[q].with.refresh \in Sids \cup {W!None}
        BY <2>3, ClientKinds DEF W!ClientInv
      <3>3. /\ new \in W!Request /\ new.pc = trips[q].pc
            /\ new.kind = trips[q].kind
            /\ new.with = trips[q].with /\ new.overtaken = TRUE
            /\ new.failed = trips[q].failed /\ new.answer = trips[q].answer
        BY <3>2 DEF W!Request
      <3> HIDE DEF new
      <3>4. W!Due(q)
        BY DEF W!ClientInv
      <3> QED
        BY <1>2, <2>3, <3>1, <3>3, <3>4 DEF W!Due, W!Issued, W!At
    <2> QED
      BY <2>1, <2>2, <2>3
  <1>11. trips' \in [Requests -> W!Request \cup {W!Idle}]
    <2>1. trips' = [q \in Requests |-> trips'[q]]
      BY <1>2
    <2> QED
      BY <1>10, <2>1
  <1> QED
    BY <1>2, <1>6, <1>8, <1>10, <1>11 DEF W!ClientInv, W!TypeOK, W!ProcTypeOK

-----------------------------------------------------------------------------
LEMMA ClientNext ==
    SidsAreNoMarks /\ W!ClientInv /\ [W!Next]_(W!vars) => W!ClientInv'
  <1> SUFFICES ASSUME SidsAreNoMarks, W!ClientInv, [W!Next]_(W!vars)
               PROVE  W!ClientInv'
    OBVIOUS
  <1>1. CASE UNCHANGED W!vars
    <2>1. UNCHANGED <<proc, session, account, jar, trips>>
      BY <1>1 DEF W!vars, W!serverVars
    <2> QED
      BY <2>1, GoneStep DEF W!ClientInv, W!TypeOK, W!ProcTypeOK
  <1>2. ASSUME NEW r \in Requests,
               \/ \E kind \in W!Kinds : W!Send(r, kind)
               \/ W!RateLimited(r) \/ W!Unauthorized(r) \/ W!Fail(r)
               \/ \E s \in Sids : W!IssueSession(r, s)
               \/ W!RefreshLookup(r) \/ W!RefreshMint(r)
               \/ W!Logout(r) \/ W!LogoutAll(r) \/ W!DeleteRevoke(r)
               \/ W!DeleteAccount(r) \/ W!Deliver(r) \/ W!Lose(r)
        PROVE  W!ClientInv'
    BY <1>2, SendStep, KeepStep, IssueSessionStep, RefreshStep,
       ClientLogoutStep, EndAllStep, DeliverStep, ProcessStep
  <1> QED
    BY <1>1, <1>2, CookieStep, ProcessStep DEF W!Next

(* ClientInv holds in every reachable state of WebClient (cookie.go,        *)
(* session/handler.go, password/handler.go, me/delete.go).                  *)
THEOREM ClientInvariantHolds ==
    ASSUME SidsAreNoMarks PROVE W!Spec => []W!ClientInv
  <1>1. W!ClientInv /\ [W!Next]_(W!vars) => W!ClientInv'
    BY ClientNext
  <1> QED
    BY <1>1, ClientInit, PTL DEF W!Spec

(* Cookies, sessions, requests and the process keep their type, whatever the*)
(* handlers answer and the browser receives.                                *)
THEOREM ClientTypeCorrect ==
    ASSUME SidsAreNoMarks PROVE W!Spec => []W!TypeOK
  <1>1. W!ClientInv => W!TypeOK
    BY DEF W!ClientInv
  <1> QED
    BY <1>1, ClientInvariantHolds, PTL

(* Only the delivery of an answer takes the cookie of a live session, and it*)
(* is one of those listed.                                                  *)
LEMMA CookieOfLiveSession ==
    ASSUME SidsAreNoMarks, W!ClientInv, [W!Next]_(W!vars),
           jar.refresh # W!None, session[jar.refresh] = "live",
           jar'.refresh # jar.refresh
    PROVE  \E r \in Requests :
              /\ W!At(r, "answered") /\ trips'[r] = W!Idle
              /\ trips[r].overtaken \/ trips[r].failed \/ trips[r].kind = "login"
  <1>1. PICK r \in Requests : W!Deliver(r)
    <2>1. jar' # jar
      OBVIOUS
    <2>2. ~ W!Forget
      BY DEF W!Forget, W!ClientInv, W!TypeOK, W!Cookies
    <2> QED
      BY <2>1, <2>2
         DEF W!Next, W!vars, W!serverVars, W!Send, W!RateLimited,
             W!Unauthorized, W!Fail, W!IssueSession, W!RefreshLookup,
             W!RefreshMint, W!Logout, W!LogoutAll, W!DeleteRevoke,
             W!DeleteAccount, W!Lose, W!EndElsewhere, W!Process, W!ShutDown,
             W!TimeOut
  <1>2. PICK answer : answer = trips[r].answer
    OBVIOUS
  <1>3. /\ W!At(r, "answered") /\ trips'[r] = W!Idle
        /\ jar' = W!Receive(answer)
        /\ answer \in Sids \cup {W!Keep, W!Clear}
    BY <1>1, <1>2, ClientKinds DEF W!Deliver, W!ClientInv, W!Request, W!At
  <1>4. {W!None, W!Keep, W!Clear} \cap Sids = {} /\ W!Keep # W!Clear
    BY DEF SidsAreNoMarks, W!Keep, W!Clear
  <1>5. /\ answer # W!Keep /\ (answer = W!Clear \/ answer \in Sids)
        /\ answer \in Sids => jar'.refresh = answer
    BY <1>3, <1>4 DEF W!Receive
  <1>6. ~ W!At(r, "idle") /\ W!Due(r)
    BY <1>3 DEF W!ClientInv, W!At
  <1> QED
    BY <1>2, <1>3, <1>5, <1>6 DEF W!Due

(* No lost or late answer, no failing refresh, refused request or restart   *)
(* costs a browser the cookie of a live session (SetAuthCookies,            *)
(* ClearAuthCookies and the handlers that call them).                       *)
THEOREM SignedInStays ==
    ASSUME SidsAreNoMarks PROVE W!Spec => W!StaysSignedIn
  <1>1. W!ClientInv /\ [W!Next]_(W!vars) =>
           [jar.refresh # W!None /\ session[jar.refresh] = "live"
               /\ jar'.refresh # jar.refresh
            => \E r \in Requests :
                  /\ W!At(r, "answered") /\ trips'[r] = W!Idle
                  /\ trips[r].overtaken \/ trips[r].failed
                     \/ trips[r].kind = "login"]_(W!vars)
    BY CookieOfLiveSession
  <1> QED
    BY <1>1, ClientInvariantHolds, PTL DEF W!Spec, W!StaysSignedIn

-----------------------------------------------------------------------------
(* The sessions a browser deals with live as those of Sessions do, with one *)
(* account, the user's.                                                     *)
TheUser == "the user"
clientAccount == IF account THEN {TheUser} ELSE {}
clientLive == [u \in {TheUser} |-> {s \in Sids : session[s] = "live"}]
clientOver == {s \in Sids : session[s] = "over"}
B == INSTANCE SessionLife WITH
        Users <- {TheUser}, present <- clientAccount, live <- clientLive,
        over <- clientOver

(* Sessions of E, all live, end.                                            *)
LEMMA ClientEnds ==
    ASSUME NEW E \in SUBSET Sids, \A s \in E : session[s] = "live",
           session' = [s \in Sids |-> IF s \in E THEN "over" ELSE session[s]]
    PROVE  /\ \A s \in E : \E u \in {TheUser} : s \in clientLive[u]
           /\ clientLive' = [u \in {TheUser} |-> clientLive[u] \ E]
           /\ clientOver' = clientOver \cup E
  <1>1. clientLive' = [u \in {TheUser} |-> clientLive[u] \ E]
    BY DEF clientLive
  <1> QED
    BY <1>1 DEF clientLive, clientOver

LEMMA ClientEndStep ==
    ASSUME W!TypeOK, NEW E \in SUBSET Sids, \A s \in E : session[s] = "live",
           \A s \in Sids : session'[s] = IF s \in E THEN "over" ELSE session[s],
           session' \in [Sids -> {"none", "live", "over"}], UNCHANGED account
    PROVE  B!Next
  <1>1. session' = [s \in Sids |-> IF s \in E THEN "over" ELSE session[s]]
    OBVIOUS
  <1>2. B!End(E)
    BY <1>1, ClientEnds DEF B!End, clientAccount
  <1> QED
    BY <1>2 DEF B!Next

LEMMA ClientEndAll ==
    ASSUME W!TypeOK, W!EndAll, NEW E, E = {s \in Sids : session[s] = "live"}
    PROVE  /\ session' = [s \in Sids |-> IF s \in E THEN "over" ELSE session[s]]
           /\ session' \in [Sids -> {"none", "live", "over"}]
  BY DEF W!EndAll, W!TypeOK

LEMMA ClientIssueBegins ==
    ASSUME W!TypeOK, NEW r \in Requests, NEW s \in Sids, W!IssueSession(r, s)
    PROVE  B!Next
  <1>1. /\ account /\ UNCHANGED account /\ session[s] = "none"
        /\ \A x \in Sids : session'[x] = IF x = s THEN "live" ELSE session[x]
    BY DEF W!IssueSession, W!TypeOK
  <1>2. clientLive' = [clientLive EXCEPT ![TheUser] = @ \cup {s}]
    <2>1. {x \in Sids : session'[x] = "live"} =
             {x \in Sids : session[x] = "live"} \cup {s}
      BY <1>1
    <2> QED
      BY <2>1 DEF clientLive
  <1>3. /\ clientOver' = clientOver /\ s \notin clientOver
        /\ \A u \in {TheUser} : s \notin clientLive[u]
    BY <1>1 DEF clientOver, clientLive
  <1>4. B!Begin(TheUser, s)
    BY <1>1, <1>2, <1>3 DEF B!Begin, clientAccount
  <1> QED
    BY <1>4 DEF B!Next

LEMMA ClientDeletionCloses ==
    ASSUME W!TypeOK, NEW r \in Requests, W!DeleteAccount(r)
    PROVE  B!Next
  <1>1. PICK E \in SUBSET Sids : E = {s \in Sids : session[s] = "live"}
    OBVIOUS
  <1>2. session' = [s \in Sids |-> IF s \in E THEN "over" ELSE session[s]]
    BY <1>1, ClientEndAll DEF W!DeleteAccount
  <1>3. /\ clientLive' = [u \in {TheUser} |-> clientLive[u] \ E]
        /\ clientOver' = clientOver \cup E
    BY <1>1, <1>2, ClientEnds
  <1>4. clientLive = [u \in {TheUser} |-> E]
    BY <1>1 DEF clientLive
  <1>5. clientLive' = [clientLive EXCEPT ![TheUser] = {}]
    BY <1>3, <1>4
  <1>6. clientAccount' = clientAccount \ {TheUser}
    BY DEF W!DeleteAccount, clientAccount
  <1>7. B!Close(TheUser)
    BY <1>3, <1>4, <1>5, <1>6 DEF B!Close
  <1> QED
    BY <1>7 DEF B!Next

(* One that is over already is not ended again.                             *)
LEMMA ClientLogoutEnds ==
    ASSUME W!ClientInv, NEW r \in Requests, W!Logout(r)
    PROVE  B!Next \/ UNCHANGED B!vars
  <1>1. PICK s : s = trips[r].with.refresh
    OBVIOUS
  <1>2. s \in Sids \cup {W!None} /\ (s # W!None => session[s] # "none")
    BY <1>1, ClientKinds
    DEF W!Logout, W!Handling, W!At, W!ClientInv, W!Due, W!Issued
  <1>3. UNCHANGED account
        /\ (session' = session \/ (s # W!None
                                   /\ session' = [session EXCEPT ![s] = "over"]))
    BY <1>1 DEF W!Logout
  <1>4. CASE s # W!None /\ session' = [session EXCEPT ![s] = "over"]
             /\ session[s] = "live"
    <2>1. /\ \A x \in Sids : session'[x] = IF x \in {s} THEN "over" ELSE session[x]
          /\ session' \in [Sids -> {"none", "live", "over"}]
          /\ {s} \in SUBSET Sids /\ \A x \in {s} : session[x] = "live"
      BY <1>2, <1>4 DEF W!ClientInv, W!TypeOK
    <2> QED
      BY <1>3, <2>1, ClientEndStep DEF W!ClientInv
  <1>5. CASE s # W!None /\ session' = [session EXCEPT ![s] = "over"]
             /\ session[s] # "live"
    <2>1. session' = session
      BY <1>2, <1>5 DEF W!ClientInv, W!TypeOK
    <2> QED
      BY <1>3, <2>1 DEF B!vars, clientAccount, clientLive, clientOver
  <1>6. CASE session' = session
    BY <1>3, <1>6 DEF B!vars, clientAccount, clientLive, clientOver
  <1> QED
    BY <1>3, <1>4, <1>5, <1>6

LEMMA ClientLifeStep ==
    ASSUME W!ClientInv, [W!Next]_(W!vars)
    PROVE  [B!Next]_(B!vars)
  <1> USE DEF W!ClientInv
  <1>1. CASE UNCHANGED <<session, account>>
    BY <1>1 DEF B!vars, clientAccount, clientLive, clientOver
  <1>2. ASSUME W!EndAll, UNCHANGED account
        PROVE  B!Next
    <2>1. PICK E \in SUBSET Sids : E = {s \in Sids : session[s] = "live"}
      OBVIOUS
    <2>2. /\ session' \in [Sids -> {"none", "live", "over"}]
          /\ \A s \in Sids : session'[s] = IF s \in E THEN "over" ELSE session[s]
      BY <1>2, <2>1, ClientEndAll
    <2>3. \A s \in E : session[s] = "live"
      BY <2>1
    <2> QED
      BY <1>2, <2>2, <2>3, ClientEndStep
  <1>3. ASSUME NEW s \in Sids, W!EndElsewhere(s)
        PROVE  B!Next
    <2>1. /\ \A x \in Sids : session'[x] = IF x \in {s} THEN "over" ELSE session[x]
          /\ session' \in [Sids -> {"none", "live", "over"}]
          /\ {s} \in SUBSET Sids /\ \A x \in {s} : session[x] = "live"
      BY <1>3 DEF W!EndElsewhere, W!TypeOK
    <2> QED
      BY <1>3, <2>1, ClientEndStep DEF W!EndElsewhere
  <1>4. ASSUME NEW r \in Requests, W!LogoutAll(r) \/ W!DeleteRevoke(r)
        PROVE  B!Next \/ UNCHANGED B!vars
    BY <1>1, <1>2, <1>4 DEF W!LogoutAll, W!DeleteRevoke
  <1> QED
    BY <1>1, <1>3, <1>4, ClientIssueBegins, ClientDeletionCloses, ClientLogoutEnds
    DEF W!Next, W!vars, W!serverVars, W!Send, W!RateLimited, W!Unauthorized,
        W!Fail, W!RefreshLookup, W!RefreshMint, W!Deliver, W!Lose, W!Forget,
        W!Process, W!ShutDown, W!TimeOut

(* Sign-in, sign-out, expiry and deletion, as a browser causes or meets     *)
(* them, are steps of the same life of sessions (SessionLife): what         *)
(* WebClient leaves out of Sessions takes no promise of the table away.     *)
THEOREM BrowserSessionsLiveOnce ==
    ASSUME SidsAreNoMarks PROVE W!Spec => B!Spec
  <1>1. W!Init => B!Init
    BY DEF W!Init, B!Init, clientAccount, clientLive, clientOver
  <1>2. W!ClientInv /\ [W!Next]_(W!vars) => [B!Next]_(B!vars)
    BY ClientLifeStep
  <1> QED
    BY <1>1, <1>2, ClientInvariantHolds, PTL DEF W!Spec, B!Spec
=============================================================================
