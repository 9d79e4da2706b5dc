--------------------------- MODULE LockoutProofs ---------------------------
(* The lock columns stay consistent for any number of accounts, concurrent  *)
(* logins and profile updates, any threshold and any lock length.           *)
EXTENDS Lockout, TLAPS

USE DEF Requests, Guesses

(* What the three UPDATE statements do to a consistent row.                 *)
LEMMA RowStatements ==
    ASSUME NEW row \in LockColumns, NEW t \in Nat, RowConsistent(row)
    PROVE  /\ IncrementFailed(row, t) \in LockColumns
           /\ RowConsistent(IncrementFailed(row, t))
           /\ IncrementFailed(row, t).failed = row.failed + 1
           /\ ResetFailed(row) \in LockColumns
           /\ RowConsistent(ResetFailed(row))
  BY ThresholdAssumption, DurationAssumption
     DEF RowConsistent, IncrementFailed, ResetFailed, LockColumns, NoLock, FreshRow

LEMMA FreshRowConsistent == FreshRow \in LockColumns /\ RowConsistent(FreshRow)
  BY ThresholdAssumption DEF RowConsistent, LockColumns, NoLock, FreshRow

LEMMA FreshRowWithinHorizon == TypeOK => WithinHorizon(FreshRow)
  BY DurationAssumption DEF TypeOK, WithinHorizon, FreshRow, NoLock

LEMMA FreshRowUnlocked == ASSUME NEW t PROVE ~ IsLocked(FreshRow, t)
  BY DEF IsLocked, FreshRow

-----------------------------------------------------------------------------
LEMMA InitInv == Init => LockoutInv
  <1> SUFFICES ASSUME Init PROVE LockoutInv
    OBVIOUS
  <1>1. TypeOK
    BY FreshRowConsistent DEF Init, TypeOK
  <1>2. LockMatchesCounter
    BY FreshRowConsistent DEF Init, LockMatchesCounter
  <1>3. MissesCounted
    BY DEF Init, MissesCounted, FreshRow
  <1>4. SnapshotUnlocked
    BY DEF Init, SnapshotUnlocked, PastCheck
  <1>5. LockHorizon
    BY <1>1, FreshRowWithinHorizon DEF Init, LockHorizon, WithinHorizon
  <1>6. QED
    BY <1>1, <1>2, <1>3, <1>4, <1>5 DEF LockoutInv

(* Steps that change no row and no clock: a request moves on, and the only  *)
(* snapshot it may take is the present row.                                 *)
MovesOnly(r) ==
    /\ UNCHANGED <<now, users, misses, overwritten>>
    /\ \/ snap' = snap
       \/ snap' = [snap EXCEPT ![r] = FreshRow]
       \/ snap' = [snap EXCEPT ![r] = users[target[r]]]
    /\ \A q \in Requests : PastCheck(q)' =>
          \/ PastCheck(q) /\ snap'[q] = snap[q]
          \/ ~ IsLocked(snap'[q], now)

LEMMA MovesOnlyKeepsInv ==
    ASSUME LockoutInv, TypeOK', NEW r \in Requests, MovesOnly(r)
    PROVE  LockoutInv'
  <1>1. LockMatchesCounter'
    BY FreshRowConsistent DEF LockoutInv, LockMatchesCounter, MovesOnly, TypeOK
  <1>2. MissesCounted'
    BY DEF LockoutInv, MissesCounted, MovesOnly
  <1>3. SnapshotUnlocked'
    BY DEF LockoutInv, SnapshotUnlocked, MovesOnly, PastCheck, IsLocked
  <1>4. LockHorizon'
    <2>1. WithinHorizon(FreshRow)
      BY FreshRowWithinHorizon DEF LockoutInv
    <2>2. QED
      BY <2>1 DEF LockoutInv, LockHorizon, MovesOnly, WithinHorizon, TypeOK
  <1>5. QED
    BY <1>1, <1>2, <1>3, <1>4 DEF LockoutInv

-----------------------------------------------------------------------------
LEMMA TypeInductive == TypeOK /\ [Next]_vars => TypeOK'
  <1> SUFFICES ASSUME TypeOK, [Next]_vars PROVE TypeOK'
    OBVIOUS
  <1> USE FreshRowConsistent DEF TypeOK, historyVars, requestVars, Goto, Finish, Keep
  <1>1. ASSUME NEW r \in Logins, LoginStep(r) PROVE TypeOK'
    <2>1. CASE \E u \in Users, g \in Guesses : BeginLogin(r, u, g)
      BY <2>1 DEF BeginLogin
    <2>2. CASE LoadUser(r)
      BY <2>2 DEF LoadUser
    <2>3. CASE CheckLocked(r)
      BY <2>3 DEF CheckLocked
    <2>4. CASE VerifyPassword(r)
      BY <2>4 DEF VerifyPassword
    <2>5. CASE RecordMiss(r)
      <3> DEFINE u == target[r]
      <3>1. u \in Users /\ users[u] \in LockColumns
        OBVIOUS
      <3>2. IncrementFailed(users[u], now) \in LockColumns
        BY <3>1, DurationAssumption DEF IncrementFailed, LockColumns
      <3>3. users' \in [Users -> LockColumns] /\ misses' \in [Users -> Nat]
        BY <2>5, <3>1, <3>2 DEF RecordMiss
      <3>4. QED
        BY <2>5, <3>3 DEF RecordMiss
    <2>6. CASE ClearFailures(r)
      <3>1. CASE target[r] \in present
        <4>1. users' = [users EXCEPT ![target[r]] = FreshRow]
          BY <2>6, <3>1 DEF ClearFailures, ResetFailed
        <4>2. users' \in [Users -> LockColumns]
          BY <4>1
        <4>3. /\ misses' = [misses EXCEPT ![target[r]] = 0]
              /\ overwritten' = [overwritten EXCEPT ![target[r]] = FALSE]
          BY <2>6, <3>1 DEF ClearFailures
        <4>6. misses' \in [Users -> Nat] /\ overwritten' \in [Users -> BOOLEAN]
          BY <4>3
        <4>4. /\ pc' \in [Requests -> {"idle", "load", "check", "verify", "record",
                                        "clear", "read", "write"}]
              /\ guess' \in [Requests -> Guesses]
              /\ snap' \in [Requests -> LockColumns]
          BY <2>6 DEF ClearFailures
        <4>5. QED
          BY <2>6, <4>2, <4>6, <4>4 DEF ClearFailures
      <3>2. CASE target[r] \notin present
        BY <2>6, <3>2 DEF ClearFailures
      <3>3. QED
        BY <3>1, <3>2
    <2>7. CASE Abandon(r)
      BY <2>7 DEF Abandon
    <2>8. QED
      BY <1>1, <2>1, <2>2, <2>3, <2>4, <2>5, <2>6, <2>7 DEF LoginStep
  <1>2. ASSUME NEW e \in Editors, EditorStep(e) PROVE TypeOK'
    <2>1. CASE \E u \in Users : BeginUpdate(e, u)
      BY <2>1 DEF BeginUpdate
    <2>2. CASE ReadProfile(e)
      BY <2>2 DEF ReadProfile
    <2>3. CASE WriteProfile(e)
      BY <2>3 DEF WriteProfile
    <2>4. CASE Abandon(e)
      BY <2>4 DEF Abandon
    <2>5. QED
      BY <1>2, <2>1, <2>2, <2>3, <2>4 DEF EditorStep
  <1>3. ASSUME NEW u \in Users, DeleteUser(u) PROVE TypeOK'
    BY <1>3 DEF DeleteUser
  <1>4. CASE Tick
    BY <1>4 DEF Tick
  <1>5. CASE UNCHANGED vars
    BY <1>5 DEF vars
  <1>6. QED
    BY <1>1, <1>2, <1>3, <1>4, <1>5 DEF Next

THEOREM TypeCorrect == Spec => []TypeOK
  <1>1. Init => TypeOK
    BY InitInv DEF LockoutInv
  <1>2. QED
    BY <1>1, TypeInductive, PTL DEF Spec

(* The steps of a request that only move it along.                          *)
LEMMA RequestMoves ==
    ASSUME LockoutInv, NEW r \in Requests,
           \/ \E u \in Users, g \in Guesses : BeginLogin(r, u, g)
           \/ \E u \in Users : BeginUpdate(r, u)
           \/ LoadUser(r) \/ CheckLocked(r) \/ VerifyPassword(r)
           \/ ReadProfile(r) \/ Abandon(r)
    PROVE  MovesOnly(r)
  <1> USE DEF LockoutInv, TypeOK, MovesOnly, PastCheck, historyVars,
              Goto, Finish, Keep
  <1>1. CASE \E u \in Users, g \in Guesses : BeginLogin(r, u, g)
    BY <1>1 DEF BeginLogin
  <1>2. CASE \E u \in Users : BeginUpdate(r, u)
    BY <1>2 DEF BeginUpdate
  <1>3. CASE LoadUser(r)
    BY <1>3 DEF LoadUser
  <1>4. CASE CheckLocked(r)
    BY <1>4 DEF CheckLocked
  <1>5. CASE VerifyPassword(r)
    BY <1>5 DEF VerifyPassword
  <1>6. CASE ReadProfile(r)
    BY <1>6 DEF ReadProfile
  <1>7. CASE Abandon(r)
    BY <1>7 DEF Abandon
  <1>8. QED
    BY <1>1, <1>2, <1>3, <1>4, <1>5, <1>6, <1>7

(* The three UPDATEs, the deletion and the clock.                           *)
LEMMA RecordMissKeepsInv ==
    ASSUME LockoutInv, TypeOK', NEW r \in Logins, RecordMiss(r)
    PROVE  LockoutInv'
  <1> DEFINE u == target[r]
  <1> USE DEF RecordMiss, Finish
  <1>1. r \in Requests /\ u \in Users /\ users[u] \in LockColumns /\ now \in Nat
    BY DEF LockoutInv, TypeOK
  <1>2. RowConsistent(users[u]) /\ WithinHorizon(users[u])
    BY <1>1 DEF LockoutInv, LockMatchesCounter, LockHorizon
  <1> DEFINE row == IncrementFailed(users[u], now)
  <1>9. RowConsistent(row) /\ row.failed = users[u].failed + 1
    BY <1>1, <1>2, RowStatements
  <1>3. LockMatchesCounter'
    <2>1. users' = users \/ users' = [users EXCEPT ![u] = row]
      OBVIOUS
    <2>2. \A v \in Users : RowConsistent(users'[v])
      BY <1>1, <1>9, <2>1 DEF LockoutInv, LockMatchesCounter, TypeOK
    <2>3. \A q \in Requests : RowConsistent(snap'[q])
      BY <1>1, FreshRowConsistent DEF LockoutInv, LockMatchesCounter, TypeOK
    <2>4. QED
      BY <2>2, <2>3 DEF LockMatchesCounter
  <1>4. MissesCounted'
    <2>1. CASE u \in present
      <3>1. users' = [users EXCEPT ![u] = row]
        BY <2>1
      <3>2. misses' = [misses EXCEPT ![u] = misses[u] + 1] /\ overwritten' = overwritten
        BY <2>1
      <3> HIDE DEF row
      <3>3. QED
        BY <1>1, <1>9, <3>1, <3>2 DEF LockoutInv, MissesCounted, TypeOK
    <2>2. CASE u \notin present
      BY <2>2 DEF LockoutInv, MissesCounted
    <2>3. QED
      BY <2>1, <2>2
  <1>5. SnapshotUnlocked'
    BY DEF LockoutInv, SnapshotUnlocked, PastCheck, TypeOK, IsLocked
  <1>6. WithinHorizon(IncrementFailed(users[u], now)) /\ WithinHorizon(FreshRow)
    BY <1>1, <1>2, DurationAssumption, FreshRowWithinHorizon
       DEF LockoutInv, WithinHorizon, IncrementFailed
  <1>7. LockHorizon'
    BY <1>1, <1>6 DEF LockoutInv, LockHorizon, WithinHorizon, TypeOK
  <1>8. QED
    BY <1>3, <1>4, <1>5, <1>7 DEF LockoutInv

LEMMA ClearFailuresKeepsInv ==
    ASSUME LockoutInv, TypeOK', NEW r \in Logins, ClearFailures(r)
    PROVE  LockoutInv'
  <1> USE DEF ClearFailures, Finish, ResetFailed
  <1>1. r \in Requests
    OBVIOUS
  <1>2. LockMatchesCounter'
    BY <1>1, FreshRowConsistent DEF LockoutInv, LockMatchesCounter, TypeOK
  <1>3. MissesCounted'
    BY DEF LockoutInv, MissesCounted, TypeOK, historyVars, FreshRow
  <1>4. SnapshotUnlocked'
    BY <1>1 DEF LockoutInv, SnapshotUnlocked, PastCheck, TypeOK, IsLocked
  <1>5. WithinHorizon(FreshRow)
    BY FreshRowWithinHorizon DEF LockoutInv
  <1>6. LockHorizon'
    BY <1>1, <1>5 DEF LockoutInv, LockHorizon, WithinHorizon, TypeOK
  <1>7. QED
    BY <1>2, <1>3, <1>4, <1>6 DEF LockoutInv

LEMMA WriteProfileKeepsInv ==
    ASSUME LockoutInv, TypeOK', NEW e \in Editors, WriteProfile(e)
    PROVE  LockoutInv'
  <1> USE DEF WriteProfile, Finish
  <1>1. e \in Requests
    OBVIOUS
  <1>2. LockMatchesCounter'
    BY <1>1, FreshRowConsistent DEF LockoutInv, LockMatchesCounter, TypeOK
  <1>3. MissesCounted'
    BY <1>1 DEF LockoutInv, MissesCounted, TypeOK
  <1>4. SnapshotUnlocked'
    BY <1>1 DEF LockoutInv, SnapshotUnlocked, PastCheck, TypeOK, IsLocked
  <1>5. WithinHorizon(FreshRow)
    BY FreshRowWithinHorizon DEF LockoutInv
  <1>6. LockHorizon'
    BY <1>1, <1>5 DEF LockoutInv, LockHorizon, WithinHorizon, TypeOK
  <1>7. QED
    BY <1>2, <1>3, <1>4, <1>6 DEF LockoutInv

LEMMA TickKeepsInv ==
    ASSUME LockoutInv, TypeOK', Tick
    PROVE  LockoutInv'
  <1> USE DEF Tick, requestVars, historyVars
  <1>1. LockMatchesCounter' /\ MissesCounted'
    BY DEF LockoutInv, LockMatchesCounter, MissesCounted
  <1>2. SnapshotUnlocked'
    BY DEF LockoutInv, TypeOK, SnapshotUnlocked, PastCheck, IsLocked,
           LockColumns, NoLock
  <1>3. LockHorizon'
    BY DurationAssumption
       DEF LockoutInv, TypeOK, LockHorizon, WithinHorizon, LockColumns, NoLock
  <1>4. QED
    BY <1>1, <1>2, <1>3 DEF LockoutInv

LEMMA InvInductive == LockoutInv /\ [Next]_vars => LockoutInv'
  <1> SUFFICES ASSUME LockoutInv, [Next]_vars PROVE LockoutInv'
    OBVIOUS
  <1>1. TypeOK'
    BY TypeInductive DEF LockoutInv
  <1>2. ASSUME NEW r \in Logins, LoginStep(r) PROVE LockoutInv'
    <2>1. CASE RecordMiss(r)
      BY <1>1, <2>1, RecordMissKeepsInv
    <2>2. CASE ClearFailures(r)
      BY <1>1, <2>2, ClearFailuresKeepsInv
    <2>3. CASE ~ RecordMiss(r) /\ ~ ClearFailures(r)
      <3>1. r \in Requests /\ MovesOnly(r)
        BY <1>2, <2>3, RequestMoves DEF LoginStep
      <3>2. QED
        BY <1>1, <3>1, MovesOnlyKeepsInv
    <2>4. QED
      BY <2>1, <2>2, <2>3
  <1>3. ASSUME NEW e \in Editors, EditorStep(e) PROVE LockoutInv'
    <2>1. CASE WriteProfile(e)
      BY <1>1, <2>1, WriteProfileKeepsInv
    <2>2. CASE ~ WriteProfile(e)
      <3>1. e \in Requests /\ MovesOnly(e)
        BY <1>3, <2>2, RequestMoves DEF EditorStep
      <3>2. QED
        BY <1>1, <3>1, MovesOnlyKeepsInv
    <2>3. QED
      BY <2>1, <2>2
  <1>4. ASSUME NEW u \in Users, DeleteUser(u) PROVE LockoutInv'
    BY <1>1, <1>4 DEF DeleteUser, requestVars, historyVars, LockoutInv,
       LockMatchesCounter, MissesCounted, SnapshotUnlocked, PastCheck,
       IsLocked, LockHorizon, WithinHorizon
  <1>5. CASE Tick
    BY <1>1, <1>5, TickKeepsInv
  <1>6. CASE UNCHANGED vars
    BY <1>1, <1>6 DEF vars, LockoutInv, LockMatchesCounter, MissesCounted,
       SnapshotUnlocked, PastCheck, IsLocked, LockHorizon, WithinHorizon
  <1>7. QED
    BY <1>2, <1>3, <1>4, <1>5, <1>6 DEF Next

THEOREM InvariantHolds == Spec => []LockoutInv
  BY InitInv, InvInductive, PTL DEF Spec

-----------------------------------------------------------------------------
(* password.go, users_repo.go: at the threshold exactly when a lock is set, *)
(* in every row and in every snapshot that may be written back.             *)
THEOREM LockMatchesCounterHolds == Spec => []LockMatchesCounter
  <1>1. LockoutInv => LockMatchesCounter
    BY DEF LockoutInv
  <1>2. QED
    BY <1>1, InvariantHolds, PTL

(* No concurrent wrong password is lost from the counter unless a profile   *)
(* write has put an older counter back.                                     *)
THEOREM MissesCountedHolds == Spec => []MissesCounted
  <1>1. LockoutInv => MissesCounted
    BY DEF LockoutInv
  <1>2. QED
    BY <1>1, InvariantHolds, PTL

(* A request past the check never holds a snapshot showing the lock that is *)
(* in force: its own lock, if it saw one, has expired.                      *)
THEOREM NoGuessAgainstSeenLockHolds == Spec => []NoGuessAgainstSeenLock
  <1>1. LockoutInv => NoGuessAgainstSeenLock
    BY DEF LockoutInv, TypeOK, SnapshotUnlocked, NoGuessAgainstSeenLock,
           InForce, IsLocked
  <1>2. QED
    BY <1>1, InvariantHolds, PTL

(* A step that lifts a lock in force is a reset or a profile write by a     *)
(* request whose read of the row did not show that lock.                    *)
LEMMA LiftingStep ==
    ASSUME LockoutInv, [Next]_vars PROVE LiftedByStaleRead
  <1> SUFFICES ASSUME NEW u \in Users, InForce(u),
                      users'[u].lockedUntil < users[u].lockedUntil
               PROVE  \E r \in Requests :
                          /\ pc[r] \in {"clear", "write"} /\ pc'[r] = "idle"
                          /\ target[r] = u
                          /\ snap[r].lockedUntil # users[u].lockedUntil
    BY DEF LiftedByStaleRead
  <1>1. now \in Nat /\ users[u] \in LockColumns /\ users[u].lockedUntil \in Int
    BY DEF LockoutInv, TypeOK, LockColumns, NoLock
  <1>2. users'[u] # users[u] /\ users' # users
    BY <1>1
  <1> USE DEF LockoutInv
  <1>3. ASSUME NEW r \in Logins, RecordMiss(r) PROVE FALSE
    <2>1. target[r] = u /\ users'[u] = IncrementFailed(users[u], now)
      <3>1. users' = [users EXCEPT ![target[r]] = IncrementFailed(users[target[r]], now)]
        BY <1>2, <1>3 DEF RecordMiss
      <3>2. QED
        BY <1>2, <3>1 DEF TypeOK
    <2>2. RowConsistent(users[u]) /\ WithinHorizon(users[u])
      BY DEF LockoutInv, LockMatchesCounter, LockHorizon
    <2>3. users'[u].lockedUntil >= users[u].lockedUntil
      BY <1>1, <2>1, <2>2, ThresholdAssumption, DurationAssumption
         DEF IncrementFailed, RowConsistent, WithinHorizon, InForce, IsLocked, LockColumns
    <2>4. users'[u].lockedUntil \in Int
      BY <1>1, <2>1, DurationAssumption DEF IncrementFailed
    <2>5. QED
      BY <1>1, <2>3, <2>4
  <1>4. ASSUME NEW r \in Logins, ClearFailures(r)
        PROVE  /\ pc[r] = "clear" /\ pc'[r] = "idle" /\ target[r] = u
               /\ snap[r].lockedUntil # users[u].lockedUntil
    <2>1. pc[r] = "clear" /\ pc'[r] = "idle" /\ target[r] = u
      <3>1. users' = [users EXCEPT ![target[r]] = ResetFailed(users[target[r]])]
        BY <1>2, <1>4 DEF ClearFailures
      <3>2. target[r] = u
        BY <1>2, <3>1 DEF TypeOK
      <3>3. QED
        BY <1>4, <3>2 DEF ClearFailures, Finish, TypeOK
    <2>2. ~ IsLocked(snap[r], now)
      BY <2>1 DEF LockoutInv, SnapshotUnlocked, PastCheck
    <2>3. QED
      BY <2>1, <2>2 DEF InForce, IsLocked
  <1>5. ASSUME NEW e \in Editors, WriteProfile(e)
        PROVE  /\ pc[e] = "write" /\ pc'[e] = "idle" /\ target[e] = u
               /\ snap[e].lockedUntil # users[u].lockedUntil
    <2>1. pc[e] = "write" /\ pc'[e] = "idle" /\ target[e] = u /\ users'[u] = snap[e]
      <3>1. users' = [users EXCEPT ![target[e]] = snap[e]]
        BY <1>2, <1>5 DEF WriteProfile
      <3>2. target[e] = u /\ users'[u] = snap[e]
        BY <1>2, <3>1 DEF TypeOK
      <3>3. QED
        BY <1>5, <3>2 DEF WriteProfile, Finish, TypeOK
    <2>2. QED
      BY <1>1, <2>1
  <1>6. \/ \E r \in Logins : RecordMiss(r) \/ ClearFailures(r)
        \/ \E e \in Editors : WriteProfile(e)
    BY <1>2 DEF Next, vars, LoginStep, EditorStep, BeginLogin, BeginUpdate, LoadUser,
       CheckLocked, VerifyPassword, ReadProfile, Abandon, DeleteUser, Tick
  <1>7. QED
    BY <1>3, <1>4, <1>5, <1>6

(* Whoever has seen a lock in force cannot lift it.                         *)
THEOREM LockLiftedOnlyByStaleReadHolds == Spec => LockLiftedOnlyByStaleRead
  <1>1. LockoutInv /\ [Next]_vars => [LiftedByStaleRead]_vars
    BY LiftingStep
  <1>2. QED
    BY <1>1, InvariantHolds, PTL DEF Spec, LockLiftedOnlyByStaleRead
============================================================================
