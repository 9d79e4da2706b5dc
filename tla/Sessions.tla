------------------------------ MODULE Sessions ------------------------------
(* Sessions and access tokens (pkg/auth/session.go, sessions_repo.go, the   *)
(* session handlers and the end of DELETE /v1/me). A session is a row with  *)
(* an opaque refresh token; an access token is a signed statement nobody    *)
(* can take back, so what matters is when it is still minted. Requests run  *)
(* concurrently, one SQL statement a step, and stop where a statement fails. *)
EXTENDS Integers

CONSTANTS Users, Sids,         \* accounts; session ids, one refresh token each
          Requests,            \* concurrent requests of any kind
          RoleSets,            \* the role sets a user may have
          AccessTTL, RefreshTTL,
          MaxNow               \* bound: the clock stops here

ASSUME TTLAssumption == AccessTTL \in Nat \ {0} /\ RefreshTTL \in Nat \ {0}
ASSUME RolesAssumption == {} \in RoleSets
ASSUME ClockAssumption == MaxNow \in Nat

VARIABLES now, present,
          roleOf,      \* user_roles: the names GetUserRoleNames returns
          row,         \* the sessions table
          req,         \* the requests in flight
          used,        \* session ids already generated
          handed,      \* sessions whose refresh token reached a client
          validUntil,  \* when the last access token of a session expires
          ended,       \* history: when a session was first revoked or deleted
          overlap      \* history: somebody was minting for it at that moment

tables == <<present, roleOf, row>>
history == <<ended, overlap>>
vars == <<now, tables, req, used, handed, validUntil, history>>

NotRevoked == -1                              \* revoked_at IS NULL
NotEnded == -1
NoRow == [kind |-> "none"]
SessionRow == [kind : {"session"}, user : Users, expiresAt : Nat,
               revokedAt : Nat \cup {NotRevoked}]

Idle == [pc |-> "idle"]
IssueSteps == {"getUser", "create", "issueRoles", "issueSign"}
RefreshSteps == {"check", "refreshUser", "refreshRoles", "refreshSign"}
DeleteSteps == {"revokeAll", "deleteUser"}
(* at is when an issue read the clock, or when a refresh found its row;     *)
(* until is the expires_at it read; during (history) holds the role sets in *)
(* force since then.                                                        *)
TokenRequest == [pc : IssueSteps \cup RefreshSteps, user : Users, sid : Sids,
                 at : Nat, until : Nat, roles : RoleSets,
                 during : SUBSET RoleSets]
LookupRequest == [pc : {"lookup"}, sid : Sids]
DeleteRequest == [pc : DeleteSteps, user : Users]
AnyRequest == TokenRequest \cup LookupRequest \cup DeleteRequest \cup {Idle}

TypeOK ==
    /\ now \in Nat
    /\ present \subseteq Users
    /\ roleOf \in [Users -> RoleSets]
    /\ row \in [Sids -> SessionRow \cup {NoRow}]
    /\ req \in [Requests -> AnyRequest]
    /\ used \subseteq Sids
    /\ handed \subseteq used
    /\ validUntil \in [Sids -> Nat]
    /\ ended \in [Sids -> Nat \cup {NotEnded}]
    /\ overlap \in [Sids -> BOOLEAN]

Init ==
    /\ now = 0
    /\ present = Users
    /\ roleOf \in [Users -> RoleSets]
    /\ row = [s \in Sids |-> NoRow]
    /\ req = [r \in Requests |-> Idle]
    /\ used = {}
    /\ handed = {}
    /\ validUntil = [s \in Sids |-> 0]
    /\ ended = [s \in Sids |-> NotEnded]
    /\ overlap = [s \in Sids |-> FALSE]

-----------------------------------------------------------------------------
At(r, label) == req[r].pc = label
Goto(r, label) == req' = [req EXCEPT ![r].pc = label]
Finish(r) == req' = [req EXCEPT ![r] = Idle]

Live(s) == row[s] # NoRow /\ row[s].revokedAt = NotRevoked
SessionsOf(u) == {s \in Sids : row[s] # NoRow /\ row[s].user = u}

TokenStep(r) == req[r].pc \in IssueSteps \cup RefreshSteps

(* A request that will still sign an access token for s without looking at  *)
(* the row again.                                                           *)
MintsFor(r, s) ==
    /\ req[r].pc \in RefreshSteps \cup {"issueRoles", "issueSign"}
    /\ req[r].sid = s

(* user_roles changes for u, and the requests that carry u remember it.     *)
SetRolesOf(u, names, reqs) ==
    /\ roleOf' = [roleOf EXCEPT ![u] = names]
    /\ req' = [r \in Requests |->
                  IF TokenStep(r) /\ req[r].user = u
                  THEN [reqs[r] EXCEPT !.during = @ \cup {names}] ELSE reqs[r]]

(* History kept when the sessions of S end, by revocation or deletion.      *)
RecordEnd(S) ==
    /\ ended' = [s \in Sids |-> IF s \in S /\ ended[s] = NotEnded
                                THEN now ELSE ended[s]]
    /\ overlap' = [s \in Sids |->
          IF s \in S /\ ended[s] = NotEnded
          THEN \E r \in Requests : MintsFor(r, s) ELSE overlap[s]]

(* The three revoking UPDATEs: only rows with revoked_at IS NULL change.    *)
Revoke(S) ==
    /\ row' = [s \in Sids |-> IF s \in S /\ Live(s)
                              THEN [row[s] EXCEPT !.revokedAt = now] ELSE row[s]]
    /\ RecordEnd({s \in S : Live(s)})

Remove(S) ==
    /\ row' = [s \in Sids |-> IF s \in S THEN NoRow ELSE row[s]]
    /\ RecordEnd({s \in S : row[s] # NoRow})

Mint(r, expiry) ==
    LET s == req[r].sid IN
    /\ validUntil' = [validUntil EXCEPT ![s] = IF @ > expiry THEN @ ELSE expiry]
    /\ handed' = handed \cup {s}
    /\ Finish(r)

-----------------------------------------------------------------------------
(* Variant: session ids drawn without checking that they are new.           *)
BeginIssueReusingIds(r, u, s) ==
    /\ At(r, "idle")
    /\ req' = [req EXCEPT ![r] = [pc |-> "getUser", user |-> u, sid |-> s,
                                  at |-> now, until |-> 0, roles |-> {},
                                  during |-> {roleOf[u]}]]
    /\ UNCHANGED <<now, tables, used, handed, validUntil, history>>

(* IssueSession: some authentication method has accepted user u. The id and *)
(* the refresh token are random, so no two sessions share them.             *)
BeginIssue(r, u, s) ==
    /\ At(r, "idle")
    /\ s \notin used
    /\ used' = used \cup {s}
    /\ req' = [req EXCEPT ![r] = [pc |-> "getUser", user |-> u, sid |-> s,
                                  at |-> now, until |-> 0, roles |-> {},
                                  during |-> {roleOf[u]}]]
    /\ UNCHANGED <<now, tables, handed, validUntil, history>>

IssueGetUser(r) ==
    /\ At(r, "getUser")
    /\ IF req[r].user \in present
       THEN req' = [req EXCEPT ![r].pc = "create", ![r].at = now]
       ELSE Finish(r)
    /\ UNCHANGED <<now, tables, used, handed, validUntil, history>>

(* sessions.Create; the foreign key refuses a user deleted in between.      *)
IssueCreate(r) ==
    LET s == req[r].sid IN
    /\ At(r, "create")
    /\ IF req[r].user \in present
       THEN /\ row' = [row EXCEPT ![s] =
                  [kind |-> "session", user |-> req[r].user,
                   expiresAt |-> req[r].at + RefreshTTL, revokedAt |-> NotRevoked]]
            /\ Goto(r, "issueRoles")
       ELSE Finish(r) /\ UNCHANGED row
    /\ UNCHANGED <<now, present, roleOf, used, handed, validUntil, history>>

(* Variant: a role store that cannot be read counts as "no roles".          *)
LoadRolesBestEffort(r, from, to) ==
    /\ At(r, from)
    /\ \E names \in {roleOf[req[r].user], {}} :
          req' = [req EXCEPT ![r].pc = to, ![r].roles = names]
    /\ UNCHANGED <<now, tables, used, handed, validUntil, history>>

(* getUserRoleNames: one query; an error ends the request (Fail), after     *)
(* IssueSession has already created the row.                                *)
LoadRoles(r, from, to) ==
    /\ At(r, from)
    /\ req' = [req EXCEPT ![r].pc = to, ![r].roles = roleOf[req[r].user]]
    /\ UNCHANGED <<now, tables, used, handed, validUntil, history>>

(* issueAccessToken: the expiry counts from the clock read before Create.   *)
IssueSign(r) ==
    /\ At(r, "issueSign")
    /\ Mint(r, req[r].at + AccessTTL)
    /\ UNCHANGED <<now, tables, used, history>>

-----------------------------------------------------------------------------
(* RefreshSession, called by POST /v1/auth/refresh with a token that some   *)
(* client received. The handler passes no *http.Request, so the fingerprint *)
(* branch is never entered.                                                 *)
BeginRefresh(r, s) ==
    /\ At(r, "idle")
    /\ s \in handed
    /\ req' = [req EXCEPT ![r] = [pc |-> "lookup", sid |-> s]]
    /\ UNCHANGED <<now, tables, used, handed, validUntil, history>>

StartCheck(r, s) ==
    req' = [req EXCEPT ![r] =
               [pc |-> "check", user |-> row[s].user, sid |-> s, at |-> now,
                until |-> row[s].expiresAt, roles |-> {},
                during |-> {roleOf[row[s].user]}]]

(* GetByTokenHash.                                                          *)
Lookup(r) ==
    LET s == req[r].sid IN
    /\ At(r, "lookup")
    /\ IF Live(s)
       THEN StartCheck(r, s)
       ELSE Finish(r)
    /\ UNCHANGED <<now, tables, used, handed, validUntil, history>>

(* Variant: last_seen_at is updated by writing the whole row back.          *)
CheckValidRewritingRow(r) ==
    /\ At(r, "check")
    /\ now < req[r].until
    /\ row' = [row EXCEPT ![req[r].sid] =
                  [kind |-> "session", user |-> req[r].user,
                   expiresAt |-> req[r].until, revokedAt |-> NotRevoked]]
    /\ Goto(r, "refreshUser")
    /\ UNCHANGED <<now, present, roleOf, used, handed, validUntil, history>>

(* session.IsValid() on the row as it was read, then UpdateLastSeen, whose  *)
(* column nobody reads.                                                     *)
CheckValid(r) ==
    /\ At(r, "check")
    /\ IF now < req[r].until THEN Goto(r, "refreshUser") ELSE Finish(r)
    /\ UNCHANGED <<now, tables, used, handed, validUntil, history>>

RefreshGetUser(r) ==
    /\ At(r, "refreshUser")
    /\ IF req[r].user \in present THEN Goto(r, "refreshRoles") ELSE Finish(r)
    /\ UNCHANGED <<now, tables, used, handed, validUntil, history>>

(* Variant: a refreshed access token lives as long as the refresh token.    *)
RefreshSignLong(r) ==
    /\ At(r, "refreshSign")
    /\ Mint(r, now + AccessTTL + RefreshTTL)
    /\ UNCHANGED <<now, tables, used, history>>

RefreshSign(r) ==
    /\ At(r, "refreshSign")
    /\ Mint(r, now + AccessTTL)
    /\ UNCHANGED <<now, tables, used, history>>

-----------------------------------------------------------------------------
(* POST /v1/auth/logout and /v1/auth/logout/all: one UPDATE each.           *)
Logout(s) ==
    /\ s \in handed
    /\ Live(s)
    /\ Revoke({s})
    /\ UNCHANGED <<now, present, roleOf, req, used, handed, validUntil>>

LogoutAll(u) ==
    /\ \E s \in SessionsOf(u) : Live(s)
    /\ Revoke(SessionsOf(u))
    /\ UNCHANGED <<now, present, roleOf, req, used, handed, validUntil>>

(* DELETE /v1/me once the password is confirmed: revoke, then delete even   *)
(* if revoking failed; the deletion cascades to sessions and roles.         *)
BeginDelete(r, u) ==
    /\ At(r, "idle")
    /\ u \in present
    /\ req' = [req EXCEPT ![r] = [pc |-> "revokeAll", user |-> u]]
    /\ UNCHANGED <<now, tables, used, handed, validUntil, history>>

DeleteRevokeAll(r) ==
    /\ At(r, "revokeAll")
    /\ Goto(r, "deleteUser")
    /\ \/ Revoke(SessionsOf(req[r].user))
       \/ UNCHANGED <<row, history>>
    /\ UNCHANGED <<now, present, roleOf, used, handed, validUntil>>

DeleteUser(r) ==
    LET u == req[r].user IN
    /\ At(r, "deleteUser")
    /\ present' = present \ {u}
    /\ SetRolesOf(u, {}, [req EXCEPT ![r] = Idle])
    /\ Remove(SessionsOf(u))
    /\ UNCHANGED <<now, used, handed, validUntil>>

-----------------------------------------------------------------------------
(* The embedding application assigns, removes, replaces or deletes roles:   *)
(* the names of u become any others. Requests in flight note it.            *)
SetRoles(u, names) ==
    /\ u \in present
    /\ roleOf[u] # names
    /\ SetRolesOf(u, names, req)
    /\ UNCHANGED <<now, present, row, used, handed, validUntil, history>>

(* DeleteExpired, the repository's housekeeping statement.                  *)
Stale(s, cutoff) ==
    /\ row[s] # NoRow
    /\ \/ row[s].expiresAt < cutoff
       \/ row[s].revokedAt # NotRevoked /\ row[s].revokedAt < cutoff

DeleteExpired(cutoff) ==
    /\ \E s \in Sids : Stale(s, cutoff)
    /\ Remove({s \in Sids : Stale(s, cutoff)})
    /\ UNCHANGED <<now, present, roleOf, req, used, handed, validUntil>>

(* A statement fails or the client leaves: the request ends where it is.    *)
Fail(r) ==
    /\ ~ At(r, "idle")
    /\ Finish(r)
    /\ UNCHANGED <<now, tables, used, handed, validUntil, history>>

Tick ==
    /\ now < MaxNow
    /\ now' = now + 1
    /\ UNCHANGED <<tables, req, used, handed, validUntil, history>>

Step(r) ==
    \/ \E u \in Users, s \in Sids : BeginIssue(r, u, s)
    \/ IssueGetUser(r) \/ IssueCreate(r)
    \/ LoadRoles(r, "issueRoles", "issueSign") \/ IssueSign(r)
    \/ \E s \in Sids : BeginRefresh(r, s)
    \/ Lookup(r) \/ CheckValid(r) \/ RefreshGetUser(r)
    \/ LoadRoles(r, "refreshRoles", "refreshSign") \/ RefreshSign(r)
    \/ \E u \in Users : BeginDelete(r, u)
    \/ DeleteRevokeAll(r) \/ DeleteUser(r)
    \/ Fail(r)

Next ==
    \/ \E r \in Requests : Step(r)
    \/ \E s \in Sids : Logout(s)
    \/ \E u \in Users : LogoutAll(u)
    \/ \E u \in Users, names \in RoleSets : SetRoles(u, names)
    \/ \E cutoff \in 0..now : DeleteExpired(cutoff)
    \/ Tick

Spec == Init /\ [][Next]_vars

-----------------------------------------------------------------------------
(* A revoked session never becomes usable again: whatever interleaves, its  *)
(* row stays revoked until housekeeping or the cascade removes it, and a    *)
(* removed session never comes back.                                        *)
EndedIsFinal == [][\A s \in Sids : ended[s] # NotEnded => ~ Live(s)']_vars

(* Issue, revocation, housekeeping and the cascade of a deletion are single *)
(* steps in the life of a session (SessionLife).                            *)
liveSessions == [u \in Users |-> {s \in SessionsOf(u) : Live(s)}]
overSessions ==
    {s \in Sids : ~ Live(s) /\ ~ (row[s] = NoRow /\ ended[s] = NotEnded)}
Life == INSTANCE SessionLife WITH live <- liveSessions, over <- overSessions
ImplementsSessionLife == Life!Spec

(* Access tokens cannot be revoked, so ending a session is worth what its   *)
(* last token allows: if nobody was minting for it at that moment, every    *)
(* access token of an ended session expires within one AccessTTL.           *)
AccessEndsWithSession ==
    \A s \in Sids : ended[s] # NotEnded /\ ~ overlap[s]
                    => validUntil[s] <= ended[s] + AccessTTL

(* session.go:198-200: the roles about to be signed are the user's roles at *)
(* one moment of this request, never a partial or empty answer instead.     *)
TokenCarriesTrueRoles ==
    \A r \in Requests : req[r].pc \in {"issueSign", "refreshSign"}
                        => req[r].roles \in req[r].during

(* The inductive strengthening. An id that was never drawn has no row and   *)
(* no end; a session that can be used has not ended. Nothing minted lasts   *)
(* beyond one AccessTTL from now, and for a session that ended while nobody *)
(* was minting nobody ever mints again.                                     *)
RowsInv ==
    /\ \A s \in Sids \ used : row[s] = NoRow /\ ended[s] = NotEnded
    /\ \A s \in Sids : Live(s) => ended[s] = NotEnded
ExpiryInv ==
    \A s \in Sids :
        /\ validUntil[s] <= now + AccessTTL
        /\ ended[s] # NotEnded /\ ~ overlap[s] =>
              /\ validUntil[s] <= ended[s] + AccessTTL
              /\ \A r \in Requests : ~ MintsFor(r, s)

(* An issue works on an id that no client knows, and until it has created   *)
(* the row the session can neither exist nor have ended; a refresh works on *)
(* one a client was handed. Both carry every role set since they began.     *)
Sound(r) ==
    /\ req[r].pc \in IssueSteps => req[r].sid \in used \ handed
    /\ req[r].pc \in {"getUser", "create"} =>
          row[req[r].sid] = NoRow /\ ended[req[r].sid] = NotEnded
    /\ req[r].pc \in RefreshSteps \cup {"lookup"} => req[r].sid \in handed
    /\ TokenStep(r) => req[r].at <= now /\ roleOf[req[r].user] \in req[r].during
    /\ req[r].pc \in {"issueSign", "refreshSign"} => req[r].roles \in req[r].during
OneIssuePerId ==
    \A r, q \in Requests :
        /\ req[r].pc \in IssueSteps /\ req[q].pc \in IssueSteps
        /\ req[r].sid = req[q].sid
        => r = q
SessionsInv ==
    TypeOK /\ RowsInv /\ ExpiryInv /\ OneIssuePerId /\ \A r \in Requests : Sound(r)
================================================================================
