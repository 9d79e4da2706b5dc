------------------------------ MODULE Lockout ------------------------------
(* Account lockout: the two lock columns of the users table, the password   *)
(* requests that read and write them (pkg/auth/password.go, Authenticate)   *)
(* and the profile requests that also write them (PATCH /v1/me).            *)
(* Every SQL statement is one step; what a request keeps between two        *)
(* statements is its snapshot, which other requests may make stale.         *)
EXTENDS Integers, FiniteSets

CONSTANTS Users,              \* account ids
          Logins,             \* concurrent requests running Authenticate
          Editors,            \* concurrent requests running UpdateMe
          MaxFailedAttempts,  \* maxFailedAttempts of Authenticate
          LockoutDuration,    \* lockoutDuration, in clock ticks
          MissCap,            \* bound: no miss is recorded beyond this count
          MaxNow              \* bound: the clock stops here

ASSUME ActorsDisjoint == Logins \cap Editors = {}
ASSUME ThresholdAssumption == MaxFailedAttempts \in Nat \ {0}
ASSUME DurationAssumption == LockoutDuration \in Nat \ {0}
ASSUME BoundsAssumption == MissCap \in Nat /\ MaxNow \in Nat

VARIABLES now,         \* the database and server clock
          present,     \* users whose row exists and is not deleted
          users,       \* the lock columns of each row
          pc, target, guess, snap,   \* the requests
          misses,      \* history: wrong passwords recorded since the last reset
           overwritten  \* history: a stale profile write changed the lock columns

vars == <<now, present, users, pc, target, guess, snap, misses, overwritten>>
requestVars == <<pc, target, guess, snap>>
historyVars == <<misses, overwritten>>

Requests == Logins \cup Editors
Guesses == {"right", "wrong", "noCredential"}
NoLock == -1                                  \* locked_until IS NULL
LockColumns == [failed : Nat, lockedUntil : Nat \cup {NoLock}]
FreshRow == [failed |-> 0, lockedUntil |-> NoLock]

(* The statements of users_repo.go on one row.                              *)
IsLocked(row, t) == row.lockedUntil # NoLock /\ t < row.lockedUntil

(* Variant: the threshold compared with the counter before the increment.   *)
IncrementFailedOffByOne(row, t) ==
    [failed |-> row.failed + 1,
     lockedUntil |-> IF row.failed >= MaxFailedAttempts
                     THEN t + LockoutDuration ELSE row.lockedUntil]

IncrementFailed(row, t) ==
    [failed |-> row.failed + 1,
     lockedUntil |-> IF row.failed + 1 >= MaxFailedAttempts
                     THEN t + LockoutDuration ELSE row.lockedUntil]

(* Variant: a reset that takes back one threshold's worth of misses.        *)
ResetBySubtraction(row) ==
    [failed |-> row.failed - MaxFailedAttempts, lockedUntil |-> NoLock]

ResetFailed(row) == FreshRow

NeedsReset(row) == row.failed > 0 \/ row.lockedUntil # NoLock

BelowCap(u) == users[u].failed < MissCap /\ misses[u] < MissCap

InForce(u) == IsLocked(users[u], now)

TypeOK ==
    /\ now \in Nat
    /\ present \subseteq Users
    /\ users \in [Users -> LockColumns]
    /\ pc \in [Requests -> {"idle", "load", "check", "verify", "record",
                            "clear", "read", "write"}]
    /\ target \in [Requests -> Users]
    /\ guess \in [Requests -> Guesses]
    /\ snap \in [Requests -> LockColumns]
    /\ misses \in [Users -> Nat]
    /\ overwritten \in [Users -> BOOLEAN]

Init ==
    /\ now = 0
    /\ present = Users
    /\ users = [u \in Users |-> FreshRow]
    /\ pc = [r \in Requests |-> "idle"]
    /\ target \in [Requests -> Users]
    /\ guess = [r \in Requests |-> "noCredential"]
    /\ snap = [r \in Requests |-> FreshRow]
    /\ misses = [u \in Users |-> 0]
    /\ overwritten = [u \in Users |-> FALSE]

-----------------------------------------------------------------------------
(* A request moves on and keeps its locals, or ends and loses them.         *)
Goto(r, label) == pc' = [pc EXCEPT ![r] = label] /\ UNCHANGED <<guess, snap>>

Finish(r) ==
    /\ pc' = [pc EXCEPT ![r] = "idle"]
    /\ guess' = [guess EXCEPT ![r] = "noCredential"]
    /\ snap' = [snap EXCEPT ![r] = FreshRow]

Keep(r, label, row) ==
    /\ pc' = [pc EXCEPT ![r] = label]
    /\ snap' = [snap EXCEPT ![r] = row]
    /\ UNCHANGED guess

(* Authenticate: an identifier and a password arrive.                       *)
BeginLogin(r, u, g) ==
    /\ pc[r] = "idle"
    /\ pc' = [pc EXCEPT ![r] = "load"]
    /\ target' = [target EXCEPT ![r] = u]
    /\ guess' = [guess EXCEPT ![r] = g]
    /\ UNCHANGED <<now, present, users, snap, historyVars>>

(* GetByEmailOrUsername: the snapshot every later decision uses.            *)
LoadUser(r) ==
    /\ pc[r] = "load"
    /\ IF target[r] \in present
       THEN Keep(r, "check", users[target[r]])
       ELSE Finish(r)
    /\ UNCHANGED <<now, present, users, target, historyVars>>

(* Variant: the lock is looked at only when the counter is below the limit. *)
CheckLockedWhenBelowLimit(r) ==
    /\ pc[r] = "check"
    /\ IF IsLocked(snap[r], now) /\ snap[r].failed < MaxFailedAttempts
       THEN Finish(r) ELSE Goto(r, "verify")
    /\ UNCHANGED <<now, present, users, target, historyVars>>

(* user.IsLocked(): on the snapshot, against the clock.                     *)
CheckLocked(r) ==
    /\ pc[r] = "check"
    /\ IF IsLocked(snap[r], now) THEN Finish(r) ELSE Goto(r, "verify")
    /\ UNCHANGED <<now, present, users, target, historyVars>>

(* creds.GetByUserID and VerifyPassword; a success only resets the counter  *)
(* when the snapshot shows something to reset.                              *)
VerifyPassword(r) ==
    /\ pc[r] = "verify"
    /\ CASE guess[r] = "wrong" -> Goto(r, "record")
         [] guess[r] = "right" /\ NeedsReset(snap[r]) -> Goto(r, "clear")
         [] OTHER -> Finish(r)
    /\ UNCHANGED <<now, present, users, target, historyVars>>

(* Variant: the counter is computed from the snapshot instead of in SQL.    *)
RecordMissFromSnapshot(r) ==
    LET u == target[r] IN
    /\ pc[r] = "record"
    /\ BelowCap(u)
    /\ Finish(r)
    /\ u \in present
    /\ users' = [users EXCEPT ![u] = IncrementFailed(snap[r], now)]
    /\ misses' = [misses EXCEPT ![u] = @ + 1]
    /\ UNCHANGED <<now, present, target, overwritten>>

(* IncrementFailedLoginAttempts: one atomic UPDATE on the current row.      *)
RecordMiss(r) ==
    LET u == target[r] IN
    /\ pc[r] = "record"
    /\ BelowCap(u)
    /\ Finish(r)
    /\ IF u \in present
       THEN /\ users' = [users EXCEPT ![u] = IncrementFailed(@, now)]
            /\ misses' = [misses EXCEPT ![u] = @ + 1]
       ELSE UNCHANGED <<users, misses>>
    /\ UNCHANGED <<now, present, target, overwritten>>

(* ResetFailedLoginAttempts after a success.                                *)
ClearFailures(r) ==
    LET u == target[r] IN
    /\ pc[r] = "clear"
    /\ Finish(r)
    /\ IF u \in present
       THEN /\ users' = [users EXCEPT ![u] = ResetFailed(@)]
            /\ misses' = [misses EXCEPT ![u] = 0]
            /\ overwritten' = [overwritten EXCEPT ![u] = FALSE]
       ELSE UNCHANGED <<users, historyVars>>
    /\ UNCHANGED <<now, present, target>>

(* UpdateMe: users.GetByID ...                                              *)
BeginUpdate(e, u) ==
    /\ pc[e] = "idle"
    /\ Goto(e, "read")
    /\ target' = [target EXCEPT ![e] = u]
    /\ UNCHANGED <<now, present, users, historyVars>>

ReadProfile(e) ==
    /\ pc[e] = "read"
    /\ IF target[e] \in present
       THEN Keep(e, "write", users[target[e]])
       ELSE Finish(e)
    /\ UNCHANGED <<now, present, users, target, historyVars>>

(* ... and users.Update, which writes the lock columns of the snapshot back *)
(* with the profile.                                                        *)
WriteProfile(e) ==
    LET u == target[e] IN
    /\ pc[e] = "write"
    /\ Finish(e)
    /\ IF u \in present
       THEN /\ users' = [users EXCEPT ![u] = snap[e]]
            /\ overwritten' = [overwritten EXCEPT ![u] = @ \/ snap[e] # users[u]]
       ELSE UNCHANGED <<users, overwritten>>
    /\ UNCHANGED <<now, present, target, misses>>

(* A statement fails, the client goes away, or UpdateMe finds the address   *)
(* taken: the request ends here. Authenticate ignores the error of the two  *)
(* counter statements, so the counter simply stays as it is.                *)
Abandon(r) ==
    /\ pc[r] # "idle"
    /\ Finish(r)
    /\ UNCHANGED <<now, present, users, target, historyVars>>

(* UsersRepository.Delete, the last statement of DELETE /v1/me.             *)
DeleteUser(u) ==
    /\ present' = present \ {u}
    /\ u \in present
    /\ UNCHANGED <<now, users, requestVars, historyVars>>

Tick ==
    /\ now < MaxNow
    /\ now' = now + 1
    /\ UNCHANGED <<present, users, requestVars, historyVars>>

LoginStep(r) ==
    \/ \E u \in Users, g \in Guesses : BeginLogin(r, u, g)
    \/ LoadUser(r) \/ CheckLocked(r) \/ VerifyPassword(r)
    \/ RecordMiss(r) \/ ClearFailures(r) \/ Abandon(r)

EditorStep(e) ==
    \/ \E u \in Users : BeginUpdate(e, u)
    \/ ReadProfile(e) \/ WriteProfile(e) \/ Abandon(e)

Next ==
    \/ \E r \in Logins : LoginStep(r)
    \/ \E e \in Editors : EditorStep(e)
    \/ \E u \in Users : DeleteUser(u)
    \/ Tick

Spec == Init /\ [][Next]_vars

-----------------------------------------------------------------------------
(* What the lock columns promise.                                           *)
RowConsistent(row) == (row.failed >= MaxFailedAttempts) <=> (row.lockedUntil # NoLock)

(* The counter is at the threshold exactly when a lock is set, in every row *)
(* and in every snapshot a request may still write back: no interleaving of *)
(* increments, resets and profile writes leaves an account with too many    *)
(* misses and no lock, or locked without cause.                             *)
LockMatchesCounter ==
    /\ \A u \in Users : RowConsistent(users[u])
    /\ \A r \in Requests : RowConsistent(snap[r])

(* Concurrent wrong passwords are all counted: as long as no profile write  *)
(* has put an old counter back, failed_login_attempts is the number of      *)
(* misses recorded since the last reset.                                    *)
MissesCounted == \A u \in Users : ~overwritten[u] => users[u].failed = misses[u]

(* A lock in force is shortened or removed only by a request whose own read *)
(* of the row did not show it: somebody who has seen the lock cannot lift   *)
(* it, whatever password they hold.                                         *)
LiftedByStaleRead ==
    \A u \in Users :
        (InForce(u) /\ users'[u].lockedUntil < users[u].lockedUntil)
        => \E r \in Requests : /\ pc[r] \in {"clear", "write"} /\ pc'[r] = "idle"
                               /\ target[r] = u
                               /\ snap[r].lockedUntil # users[u].lockedUntil
LockLiftedOnlyByStaleRead == [][LiftedByStaleRead]_vars

(* Nobody who read the row while the present lock was set gets a password   *)
(* compared against it: a request past the lock check, while the account is *)
(* locked, read the row before that lock was set.                           *)
PastCheck(r) == pc[r] \in {"verify", "record", "clear"}
NoGuessAgainstSeenLock ==
    \A r \in Requests :
        PastCheck(r) /\ InForce(target[r])
        => snap[r].lockedUntil # users[target[r]].lockedUntil

(* password.go:124 promises "account lockout after 5 failed attempts": an   *)
(* account with that many recorded misses carries a lock.                   *)
LockAfterMaxFailedAttempts ==
    \A u \in present : misses[u] >= MaxFailedAttempts => users[u].lockedUntil # NoLock

(* The inductive strengthening of the properties above: a request past the  *)
(* check holds a snapshot whose lock, if any, has expired, and no lock      *)
(* reaches further than one lockout duration ahead.                         *)
SnapshotUnlocked ==
    \A r \in Requests : PastCheck(r) => ~ IsLocked(snap[r], now)
WithinHorizon(row) == row.lockedUntil <= now + LockoutDuration
LockHorizon ==
    /\ \A u \in Users : WithinHorizon(users[u])
    /\ \A r \in Requests : WithinHorizon(snap[r])
LockoutInv ==
    TypeOK /\ LockMatchesCounter /\ MissesCounted /\ SnapshotUnlocked /\ LockHorizon
============================================================================
