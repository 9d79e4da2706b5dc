# Verification of simple-idm-slim

TLA+ models of the server's identity and authentication core, the TLC runs that
check them on small instances, and proofs (TLAPS) of what matters most for every
instance. Paths below are relative to the repository's root.

## The system

simple-idm-slim is an HTTP service, or a library mounted in one (`idm/idm.go`),
over a PostgreSQL database. A handler decodes a request, calls a service of
`pkg/auth`, and the service calls repositories of `pkg/repository`, each of whose
methods is one SQL statement. Nothing is shared between requests in memory except
the OAuth state store; all interaction is through rows. Requests run concurrently,
several replicas may run, the isolation level is PostgreSQL's default (READ
COMMITTED), and only `repository.Tx` groups statements. So what is hard here is
what one request keeps between two of its statements while others write.

| component | state | operations | interacts with |
|---|---|---|---|
| Account lockout (`password.go`, `users_repo.go`) | `failed_login_attempts`, `locked_until` | `Authenticate`: read, lock check, password, increment or reset | `UpdateMe` writes the same columns back; deletion removes the row |
| Sessions (`session.go`, `sessions_repo.go`) | `sessions`; access tokens held by clients | issue, refresh, logout, logout all, housekeeping | every login issues; reset, MFA disabling and deletion revoke; roles and user read on each token |
| Verification tokens (`verification.go`) | `verification_tokens`, one unconsumed row per user and kind | revoke-and-create, validate, consume | email verification, password reset, MFA challenge |
| Email verification and profile (`email/`, `me/handler.go`) | `users.email`, `email_verified` | request, resend, click, `UpdateMe` | verification tokens; claims in access tokens |
| Password reset (`password/handler.go`) | `user_password` | ask for a link, reset | tokens, sessions, logins in flight |
| Two factors (`mfa.go`, `mfa/handler.go`) | `mfa_enabled`, secrets, recovery codes, challenges | setup, enable, disable, challenge, verify | login, session claims |
| Google sign-in (`google.go`, `google/handler.go`) | in-memory `StateStore`, signed cookie, `user_identities` | start, callback, find or create account | registration, sessions |
| Registration and deletion (`password.go`, `me/delete.go`) | `users`, `user_password` | register, delete | unique indexes, foreign keys |
| Names of accounts (`password.go`, `users_repo.go`, `me/`) | `users.email`, `users.username` | register, update, find by either name, confirm a deletion | every login finds its account by these |
| Roles (`roles_repo.go`, `idm/idm.go`) | `roles`, `user_roles` | create, rename, delete, assign, remove, replace; called by the embedding application | sessions read the names; deletion cascades |
| Web clients (`cookie.go`, the handlers that set or clear cookies) | two cookies in the browser | sign-in, refresh, logout, logout all, delete; answers | sessions; middleware and rate limiter in front |
| Process (`cmd/simple-idm/main.go`) | up, draining, down | boot, signal, graceful shutdown, deadline | cuts off the requests it serves |
| Policy, sanitising, fingerprint, other middleware, pages, mail, configuration | none, or in a library | checks and conversions of one value or request | called by the handlers |

What makes each component correct, and which behaviours are hard:

* **Lockout.** No interleaving may leave too many misses without a lock, lose a
  miss, or let someone who saw a lock guess on. Hard: the lock is checked on a
  snapshot, the increment is atomic, the reset is conditional on the snapshot, and
  the profile update is a read-modify-write.
* **Sessions.** A session that ended stays ended; what outlives an ended session is
  bounded by one access-token lifetime; a token carries roles the user really had. Hard:
  revocation, deletion and role changes between the statements of a refresh.
* **Verification tokens.** At most one live token, the newest; a token has effect
  at most once. Hard: two revoke-and-create transactions that do not see each
  other, and two clicks past the same validity check.
* **Email verification.** The flag belongs to the address it was earned for. Hard:
  stale writes, and an address that changes while a link is on its way.
* **Password reset.** Old sessions end, used links are dead. Hard: five statements
  outside a transaction, two of which may fail unnoticed, and logins in flight.
* **Two factors.** No session and no `mfa_verified` claim without the second factor
  for an enrolled account; secret, codes and flag agree. Hard: the same challenge
  brought back twice, the flag read several statements before it is used, setup
  and disabling whose statements are not in the transaction they open.
* **Google sign-in: state.** A state is good for one sign-in and not after it expired,
  wherever it was kept; what cannot be found has a reason; nothing stays in memory for
  ever. Hard: get and delete are two critical sections, replicas restart, the browser
  repeats requests and may keep a cookie, the sweep runs beside the handlers.
* **Accounts.** An address belongs to one account, a Google subject to one account that
  is its own, every account can be signed in to, deletion leaves nothing. Hard:
  three operations look before they write, and the account they found may be gone.
* **Names.** An address leads to one account, and the password that confirms a deletion
  is that of the account deleted. Hard: one query matches addresses and usernames, the
  update and the sign-in with Google do not normalise what registration did, and the
  confirmation goes through an address read earlier.
* **Roles.** A replacement replaces, and no assignment dangles. Hard: the replacement
  deletes what its DELETE saw at READ COMMITTED and waits for row locks on the way;
  renaming, creating and removing look before they write.
* **Web clients.** A live session is not lost to a late, lost or failed answer. Hard:
  answers overtake each other, and each sets or clears both cookies whatever happened since.
* **Process.** A server told to stop stops. Hard: a handler may hang.

## Modules

| module | models | main correspondence |
|---|---|---|
| `Lockout` | lockout | `users`, `now`: columns and clock; `snap`, `pc`: what a request holds and where it stands; one action per statement |
| `SessionLife` | abstract: what the sessions table promises | `present`: accounts; `live`: the usable sessions of each; `over` |
| `Sessions` | sessions, refresh, logout, deletion, housekeeping | `row`: the table; `req`: requests with their locals; `validUntil`: the latest expiry among the access tokens minted for a session; refines `SessionLife` (`ImplementsSessionLife`), as do `PasswordReset`, `Mfa` and `WebClient` |
| `OneTimeLink` | abstract: what a mailed token promises | `live`, `created`, `effects` |
| `VerificationTokens` | the token table, for the three modules below | `RevokeAndCreate`, `MarkConsumed`, `IsValid` |
| `EmailVerification` | both link requests, the click, `UpdateMe` | refines `OneTimeLink` (`ImplementsOneTimeLink`) |
| `PasswordReset` | link request, reset, login and its session | `version`: the password hash; `with`: the version a login compared |
| `OneTimeGrant` | abstract: what a challenge promises | `madeFor`, `open`, `claimed`, `given` |
| `Mfa` | login with challenge, refresh, setup, enable, disable | `secret`, `codes`, `confirmed`: which setup they come from; refines `OneTimeGrant` (`ImplementsOneTimeGrant`) |
| `OAuthState` | `Start`, `Callback`, `StateStore`, the cookie, restarts | `store`: the map of each replica; `cookie`: what the browser holds; `Lookup`, `DeleteState`: the two critical sections |
| `Directory` | abstract: what accounts promise | `address`, `link`, `used` |
| `Accounts` | `Register`, `GoogleService.Authenticate`, `UpdateMe`, `DeleteMe` | `account`, `identity`, `sessions`: the tables; one action per statement or transaction; refines `Directory` (`ImplementsDirectory`) |
| `AccountNames` | the two names of an account, and the deletion confirmed through them | `row`: `users`; `FoundBy`: `GetByEmailOrUsername`; `Trimmed`: `NormalizeEmail` |
| `Roles` | every role method of the library, cascades | `name`, `held`: `roles`, `user_roles`; `seen`, `gone`, `news`: what the replacement's transaction found, deleted, inserted |
| `Server` | boot, signal, shutdown, crash of the process | `proc` |
| `WebClient` | a browser and the server it talks to, on `Server` | `jar`: the cookies; `req`: requests sent, handled and answered; `session`: the rows |
| `LockoutProofs`, `SessionsProofs`, `EmailVerificationProofs`, `PasswordResetProofs`, `MfaProofs`, `OAuthStateProofs`, `AccountsProofs`, `RolesProofs` | theorems | `EmailVerificationProofs` also of `OneTimeLink`, `AccountsProofs` of `Directory` and `AccountNames`, `SessionsProofs` of `SessionLife` and `WebClient`, `MfaProofs` of `OneTimeGrant` |
| `MC*` | instances for TLC | |

Conventions. A request is a record, or a row of functions, with a `pc` that names
its next statement. `Fail` (`Abandon`) is a failing statement, a cancelled context,
a refused input or a crash of the server: a request ends and what it committed
stays. A crash has no further effect where all state is in the database; in
`OAuthState`, where it is not, `Restart` is an action that empties a replica's store, and
in `WebClient` a crash or an expired drain cuts off the requests being handled.
A definition introduced by "Variant:" is a plausible mistake; no action uses it. It
is there to show that the property named with it in `PROJECT.json` notices it.

History variables (`misses`, `overwritten`, `ended`, `overlap`, `clicks`, `effects`,
`retired`, `cutOff`, `racing`, `sawOff`, `confirmed`, `torn`, `blocked`, `during`; in
`OAuthState` `home` to `refused`; in `Accounts` `had`, `origin`, `vouched`; in
`AccountNames` `verbatim`, `moved`, `byUsername`; in `Roles` `added`, `removed`; in
`WebClient` `overtaken`, `failed`) record the past for the properties; no guard reads
them, but for the bound on `misses` and `home`, which also says that a state has been
started.

A transaction of two statements that starts by revoking (`createToken`) is two
steps, because at READ COMMITTED the UPDATE works on the rows it saw at its start:
`RevokeActive` remembers them, `InsertToken` is the effect of both statements at
commit, refused by the unique index when a row that was not seen is active. This
includes the waiting on row locks, which only orders the two. `VerifyEmailToken`'s
transaction is one step: its first UPDATE locks and re-checks the row. The replacement
in `Roles` is taken apart further, since its locks meet those of single statements: its
DELETE starts (`StartDelete`, which remembers the rows), gets the locks (`DeleteSeen`),
each INSERT is a step and so is the commit. What it inserted is locked but not visible
(`Locked`, `Holds`): statements that need such a row wait for the COMMIT, and so do
deletions that would cascade to it. Waiting on the key locks of `roles` itself, by which an upsert
or a rename may be held up, is left out: it only delays them.

Abstractions worth knowing:

* A time is a tick. `LockoutDuration` is any positive number of ticks, because what
  the database makes of the `time.Duration` bound to `$3::interval`
  (`pkg/repository/users_repo.go:124`) is the driver's business.
* In `EmailVerification` a tick is longer than an access token lives, so it drops the
  addresses that stale claims carry (`claimed`).
* Random tokens and ids are drawn from a finite supply and never twice.
* Token kinds never meet in a statement (each filters by kind), so each module has
  the rows of its own kind.
* A TOTP code is right or wrong for the stored secret. The recovery-code branch of
  `mfa.go` hashes the entered code with a fresh salt and looks that hash up
  (`pkg/auth/mfa.go:265`), which finds nothing; `CheckCode` has no such branch.
* In `OAuthState` a code exchange and an ID token succeed or fail, and a callback comes
  from the browser that started the sign-in. The redirect URI is reduced to whether it
  contains a `|`, at which the cookie's parser would cut it
  (`internal/http/features/google/handler.go:256`). Replicas with and without a signing
  key run side by side, as they do while a deployment is being changed.
  `CallbackHTML`, which no route reaches, is left out.
* In `WebClient` a cookie holds the session its token belongs to. Lifetimes are left
  open: a session may be over at any time and an access token refused at any time.
  `Max-Age` counts from the receipt of a token minted before, and restarts at each
  refresh, so the browser forgets a refresh token only after its session is over. The
  rate limiter, the token check, the body limit and the recovery of panics answer in
  place of the handler (`RateLimited`, `Unauthorized`, `Fail`).
* In `AccountNames` whose password was typed stands for the password, and a name is
  taken up to case (CITEXT). `Trimmed` is the only thing the normalisation does to it.
  `GoogleService.Authenticate` stores the address of the ID token as it is claimed
  (`pkg/auth/google.go:224`), so `CreateByGoogle` may bring any name.
* In `Accounts` an ID token may claim any address, verified or not. A username adds
  refusals of the same kind as an address does, which `Fail` stands for. Deletion starts
  after a password was confirmed, which need not be the account's own (`AccountNames` has
  whose), so an account without one may be deleted too. The flag `email_verified` is left
  to `EmailVerification`, whose accounts begin as `Register` or as Google's claim leaves
  them.
* Addresses in `Taken` belong to accounts that do nothing else.
* The public housekeeping statement `DeleteExpired` has no caller in the
  repository; `Sessions` includes it because an embedding application may call it.

## Runs

| run | instance | shows |
|---|---|---|
| `lockout` | 1 account, 2 logins, 1 profile update, threshold 2, 4 ticks | `LockMatchesCounter`, `MissesCounted`, `LockLiftedOnlyByStaleRead` |
| `sessions` | 1 account, 2 sessions, 2 requests, access token 1 tick, session 2 ticks, clock to 3 | `EndedIsFinal`, `AccessEndsWithSession`, `TokenCarriesTrueRoles` |
| `email_verification` | 1 account, 2 free addresses and a taken one, 3 links, 2 requests | `VerifiedByClick`, `VerificationLostOnlyToUpdate`, `ImplementsOneTimeLink` |
| `password_reset` | 1 account, 2 links, 2 sessions, 3 requests, 2 changes | `ResetEndsOldSessions`, `RetiredLinksDead` |
| `oauth_state` | 1 sign-in, a signing and a non-signing replica, 2 overlapping callbacks of at most 3, lifetime 1 tick, clock to 3 | `MemoryStateSpentOnce`, `NoLateSignIn`, `RefusalExplained`, `AbandonedStatesLeave` |
| `accounts` | 3 accounts, 2 addresses, 2 subjects, 2 requests | `AWayIn`, `SignsInWhereLinked`, `LinkedByVerifiedAddress`, `DeletionIsComplete`, `ImplementsDirectory` |
| `account_names` | 2 accounts, 3 names (an address, the same with space around it, another), 2 requests | `ConfirmedByItsOwner`, `TwinsOnlyVerbatim` |
| `mfa` | 1 account, 2 challenges, 2 sessions, 2 setups, 2 requests | `ChallengeOpensOneSession`, `SecondFactorNeeded`, `MfaClaimHonest`, `FactorConsistent` |
| `roles` | 1 user, 3 role ids, 2 names, 2 calls | `AssignmentsLive`, `ReplacementOffOnlyByRace` |
| `web_client` | 1 browser, 2 sessions, 2 requests on their way | `StaysSignedIn`, `DrainEnds` |
| `lockout_stale_write` | 1 login, 1 profile update | a counterexample, see below |
| `mfa_expired_challenge` | 1 login, 2 challenges | a counterexample, see below |

Every passing run also checks the module's `TypeOK`.

One account is enough where every statement filters by one user or one token and a
taken address stands for the others; `Accounts` and `AccountNames` are about what several
accounts share. In `Accounts` a third one can be created after two have met and one was
deleted; in `AccountNames` two suffice, because a confirmation involves the account that
is deleted and the one that is found. Entries of the state store do not interact, so one
sign-in is enough there. A replacement of roles filters by user, so one user is; two names
let one replacement keep what the other drops, and the third id lets a role be deleted and
created again under its name. Two sessions of a browser are the one it has and the one it
gets. Two requests show every pairwise race; the reset has three, since a login must
overlap a reset that overlaps a link request or another reset. Lifetimes of one tick on a
clock of one or more let a token or lock expire between any two steps. `MissCap` and
`MaxVersion` stop counters beyond the threshold and beyond two resets; `MaxNow` stops the
clock and `MaxVisits` the callbacks; two or three tokens and ids bound how many a
run may draw. A token is also drawn for nothing when its request fails. Deadlock is off
wherever these supplies can be used up; in `Lockout`, `Accounts` and `WebClient` it is
checked, and there is none. All permutations used as symmetry are of identifiers that no
property distinguishes; the runs with a liveness property use none.

**Fairness.** `OAuthState` and `WebClient` have any. In `OAuthState` time passes, and the
sweeping goroutine of each replica eventually runs when there is something to remove: its
ticker fires for ever, nothing stops it, and the lock it takes is held elsewhere only for
a map access, so weak fairness is what the scheduler gives it. `AbandonedStatesLeave` needs
both conditions, and every state is started early enough to expire before the clock
stops. In `WebClient` the main goroutine, which `Shutdown` wakes when nothing is being
handled (`ShutDown`) or when its thirty seconds are up (`TimeOut`), goes on. No request is
assumed to go on: clients leave and handlers may hang, which is why `DrainEnds` needs
the deadline. The other components neither retry nor wait nor sweep, so nothing is
promised there to happen eventually.

### What the code does not keep

Two runs check a statement of the repository's own text and TLC refutes it.

1. *"Implements account lockout after 5 failed attempts"*
   (`pkg/auth/password.go:124`). `users.Update` writes the lock columns of the row
   `UpdateMe` read, so misses recorded in between are lost and a lock set in
   between is lifted (`LockAfterMaxFailedAttempts`). `LockLiftedOnlyByStaleRead`
   and `MissesCounted` say that this, and a reset by a login that read the row
   earlier, are the only ways.
2. *"Challenge tokens expire after 5 minutes"* (`README.md:260`). An expired
   challenge stays unconsumed, and the unique index refuses every later challenge
   of that user: the login answers 500 from then on (`ExpiredChallengeDoesNotBlock`).

In other places the passing properties say how far the text goes:

* *"When email is changed, it must be verified before taking effect"*
  (`internal/http/features/me/handler.go:95`). The change takes effect at once, and a link
  mailed to the old address, used before the new one replaces it, or a link resent on
  stale claims, verifies the new address. What holds is `VerifiedByClick`: a click on some
  link of the account while it had the address.
* *"reset token already used"* (`internal/http/features/password/handler.go:456`). Two
  requests may both pass the check before either consumes, or the consumption fails;
  once it has succeeded the link is dead (`RetiredLinksDead`).
* *"MFAVerified indicates whether MFA was verified for this session"*
  (`pkg/auth/session.go:83`). A refresh computes the claim from options that never carry it.
  The claim is never made without the second factor of an enrolled account
  (`MfaClaimHonest`), but a refresh may lose it.
* *"replaces all role assignments"* (`pkg/repository/roles_repo.go:150`). It replaces those
  its DELETE saw; `ReplacementOffOnlyByRace` says which others stay: what was
  assigned since.
* *"Tries email first if identifier contains '@'"* (`pkg/repository/users_repo.go:211`). It
  is one query with an OR, so an address that is somebody's username may find either
  account; `ConfirmedByItsOwner` names that exception.

## Proofs

All theorems hold for every value of the constants that satisfies the assumptions
stated with them: disjoint sets of actors, positive lifetimes, durations and
threshold, and those listed at the end. Each temporal theorem rests on an inductive
invariant that was first checked with TLC.

* **`LockoutProofs`.** `LockoutInv` adds two facts to the properties. A request past
  the lock check holds a snapshot whose lock has expired (`SnapshotUnlocked`), and no
  lock lies further ahead than one duration (`LockHorizon`). Without the first,
  `NoGuessAgainstSeenLock` says nothing about the next step; without the second, a
  new lock could be earlier than the one it replaces and a mere miss would shorten
  it. `LockMatchesCounter` must also cover the snapshots, since a profile update
  writes them back. The action property is proved from the invariant and the step.
* **`EmailVerificationProofs`.** `EmailInv` has two independent parts over the typing.
  For the tokens: a token about to be inserted is fresh, no two requests hold the
  same one, what a pending request saw are its user's tokens, and at most one token
  of a user is active. This is what makes the commit of `InsertToken` exactly the
  abstract `Create`, and `SpendToken` the abstract `Use`. For the flag:
  `SnapshotsClicked`, every row copy that a profile update may still write back was
  earned too; without it `VerifiedByClick` is not preserved by `WriteProfile`.
  `LinksAreOneTime` is the refinement: initial states map to initial states, each of
  the two commits to one abstract action and every other step to a stutter. In the
  abstract specification a token takes effect at most once (`LinkTakesEffectOnce`; a live
  token was created, belongs to one user and has had no effect), which the refinement
  carries over (`LinksTakeEffectOnce`).
* **`AccountsProofs`.** `AccountsInv` is what the five properties need of the requests in
  flight (`Vetted`): an account that a request found and is about to link or sign in to was
  drawn, so it does not come back under another owner; a claim called verified was
  noted; a pending link is vouched for by an address the account has had, even if it has
  moved since; a pending session leads where its subject leads. All five properties
  checked by the run follow. `AccountsAreADirectory` is the refinement: each commit is one
  step of `Directory`, a write of the address the account has is a stutter, and so is
  every other step. It needs only the typing and that "no address" and "no user" are
  neither. In the abstract directory an address leads to one account, a subject to one
  that is there (`DirectoryKeeps`), and what has gone stays gone (`DirectoryNeverRevives`);
  its invariant adds that an account with an address was drawn before, so a creation
  cannot revive one. `AddressesLeadToOneAccount` and `AccountsNeverRevive` carry this over.
  The same module proves the two properties of `AccountNames`, instantiated with variables
  of its own and its assumptions on the normalisation (`NamesSane`: idempotent, and a
  well-formed address is its own) as a hypothesis. `NamesInv` adds that a row that is
  not normalised was stored as it came, and follows a deletion: while its account is there
  and has not moved it has the address that was read, so what was found by address is it.
  `AccountNames` refines `Directory` as well (`NamedAccountsAreADirectory`), with no subjects
  in it: what people type, normalised or not, ends as creations at free addresses, moves to
  free addresses and removals. `NamedAccountsKeepTheirPlace` is what follows from it.
* **`SessionsProofs`.** `SessionsInv` adds that an id which was not drawn has no row and no
  end, that an issue works on an id of its own that no client knows yet, that nothing
  minted lasts beyond one access lifetime from now, and that nobody mints for a session
  that ended while nobody was minting. The last is what makes `AccessEndsWithSession`
  inductive: without it a later refresh could push `validUntil` out. `EndedIsFinal` needs
  the first two, since only an insertion makes a row usable and it never meets an ended id.
  The module also proves `StaysSignedIn` for `WebClient`, instantiated with variables of
  its own; the hypothesis `SidsAreNoMarks` says that "no cookie", "keep" and "clear" are not
  sessions. `ClientInv` says what an answer under way is due: until another answer changes
  the cookies, the refresh cookie is the one the request left with or gone by itself; if the
  answer clears it, that session is over or the failed revocation was noted; if it sets
  one, it is the same or the request was a sign-in.
  `SessionsLiveOnce` is the refinement of `SessionLife`: `IssueCreate` is its `Begin`, each
  statement that revokes or deletes rows its `End` of whichever sessions those were, the
  deletion of the account, whose cascade takes the rows, its `Close`, and everything else
  a stutter. That the insertion meets neither a usable session nor an ended id comes
  from `SessionsInv`. In the abstract specification a usable session has one account, which
  is there, and is not over (`OwnedWhileLive`); over is for good, a session is its account's
  until then, and an account that is gone gets none (`OverForGood`). `SessionsAreOwned` and
  `SessionsEndOnce` carry this over.
* **`PasswordResetProofs`.** `ResetInv` says of the links that a token with a row was drawn
  for one request, that what is remembered of it is other rows, and that by the time it has
  a row its predecessors are consumed, so `RetiredLinksDead` survives the insertion; of the
  logins that no reset is ahead of the password, and that a login which no reset overtook
  compared a password not behind the last cut, so the session it opens is not of an older
  one (`ResetEndsOldSessions`). `SessionsLiveOnce` is the refinement of `SessionLife`, whose
  `End` is the revocation at the end of a reset.
* **`MfaProofs`.** `MfaInv` has two parts. For the logins: a challenge a login has passed
  with is consumed and carried by no other login and no session, which makes the insertion
  of the session safe for `ChallengeOpensOneSession`; and a request notes that the flag was
  off whenever it goes without a challenge or claims without one (`SecondFactorNeeded`,
  `MfaClaimHonest`). For the factor: what the tables hold at each statement of a setup, an
  enabling or a disabling that nothing has overlapped (`Stage`), from which
  `FactorConsistent` follows when none is under way.
  Two refinements rest on it. `SessionsLiveOnce` is that of `SessionLife`, with `DisableMFA` as
  the one that ends sessions. `ChallengesAreOneTimeGrants` is that of `OneTimeGrant`:
  `CreateChallenge` is `Make`, unless the unique index refuses it; of the requests that
  brought a challenge back, the one whose `ConsumeChallenge` goes through is the `Claim`; its
  `IssueCreate` is the `Use`; and when it fails in between, the challenge is spent for nothing
  (`Waste`). `MfaInv` gives that one request at most carries a challenge, so `Use` and
  `Waste` take it out of `claimed`. It says nothing of whose challenge a request works with:
  `OwnersServed`, proved inductive on top of it, says that a request serves the account
  its challenge was created for from `ValidateMFAChallenge` on, although the code never
  compares the two again. So a challenge opens one session at most, and only of its own
  account, an account has one open challenge, and a consumed one is never open again
  (`ChallengesServeTheirOwner`).
* **`OAuthStateProofs`.** `StateInv`: an entry or a cookie has the state's own expiry and is
  where the state was started; a state that is in neither has expired or somebody took it,
  lost it or answered with it, which is `RefusalExplained` at the moment of a refusal; a
  callback past its check began before the expiry (`NoLateSignIn`); and while a state is in
  a store nothing has been made of it and whoever found it has still to delete it, so of
  callbacks that did not overlap one at most goes on (`MemoryStateSpentOnce`).
* **`RolesProofs`.** `RolesInv` keeps the account of each replacement: the user's rows that
  its DELETE did not see were inserted by others since, every role already inserted is
  among its rows or was inserted and deleted by others, and what it inserted refers to a
  user and a role that are there. The last holds because deletions wait for the
  transaction, and it is why the COMMIT leaves no dangling assignment
  (`AssignmentsLive`); the rest is `ReplacementOffOnlyByRace` when the COMMIT comes.

So every invariant and every action property the runs check is proved, and the
refinements of all four abstract specifications. `Sessions`, `PasswordReset`, `Mfa` and
`WebClient` each keep as much of the sessions table as they need; that all of them
implement `SessionLife` (for `WebClient`, `BrowserSessionsLiveOnce`) is what makes them
views of one table: in none of them does a session end twice, come back or change
hands. Two of the refinements, of `Directory` by `Accounts` and of `OneTimeLink` by
`EmailVerification`, are also properties of a run. The others were tried with TLC on
instances of the same kind before they were proved, together with the abstract invariants
and `OwnersServed` (`Mfa` with two accounts and one setup), and are not part of a run.

Left to TLC are the two liveness properties (`AbandonedStatesLeave`, `DrainEnds`):
liveness under fairness and `ENABLED` are out of the prover's reach, as are induction over
data and recursive operators, which no module needs.

Assumptions that are not about sizes: the values that stand for "none" are not among the
identifiers (`SentinelsAssumption` in `Accounts` and `Mfa`, `NobodyAssumption` in
`OAuthState`, `NoNameAssumption` in `Roles` and `AccountNames`, `MarksAssumption` in
`WebClient`); the code's counterparts are NULL, an absent row or an absent cookie.

## Not modelled

* The connection pool. `SetupTOTP` and `DisableMFA` hold a transaction while their
  statements ask the pool for another connection, which would be a deadlock on a bounded
  pool; `NewDB` sets no bound, and the library, whose application might, has no MFA.
* The session fingerprint: the refresh handler passes no request, so it is never compared.
* Password policy, email validation and sanitising beyond what `AccountNames` needs:
  sequential predicates with table tests. (Validation that is not strict accepts
  `Name <a@b>` and stores it whole; a login does not trim what `Register` trimmed.)
* The counters of the rate limiter, which are in a library; headers, logging and limits,
  which look at one request.
* Pages, JSON answers, configuration and route tables: no state.
* Mail: a call that succeeds or fails. When it fails after the previous link was revoked,
  the account has no working link until the next request.
* Cryptography and JWT parsing are assumed to do what they say. The signature of an ID
  token is not verified (`pkg/auth/google.go:143`), so the models let one claim anything.

## Plan

Done, in this order: `Lockout` with its proofs, `Sessions`, `OneTimeLink` with its
proof, `VerificationTokens`, `EmailVerification` with its proofs and refinement,
`PasswordReset`, `Mfa`, `OAuthState`, `Accounts`, `Roles`, `Server` and `WebClient`,
`AccountNames`, `Directory` with its proofs and the refinement of `Accounts`.

The proofs of `Sessions`, `PasswordReset`, `Mfa`, `OAuthState`, `Roles`, `AccountNames` and
`WebClient` came last. The one of `Roles` found a gap in the model: a cascade has to wait
for every open transaction, while `Locked`, which leaves out the caller's own, let it pass
one when there was a single caller.

The abstract specifications came in the order `OneTimeLink`, `Directory`, `SessionLife`,
`OneTimeGrant`. Two flows have none, because what they keep is less than such a
specification would promise. A state in memory is no one-time grant: `Get` and `Delete` are
two critical sections (`Lookup` and `DeleteState` in `OAuthState`), so two callbacks that
overlap both pass with one state, which `MemoryStateSpentOnce` excepts. And a reset link is
no one-time link: the error of its consumption is only logged, so one link may change
the password twice; `RetiredLinksDead` and `ResetEndsOldSessions` are what is left of it.
