------------------------ MODULE VerificationTokens ------------------------
(* The verification_tokens table for one kind of token (pkg/auth/           *)
(* verification.go, verification_tokens_repo.go), shared by the flows that  *)
(* mail a token and wait for it to come back. Transactions run at READ      *)
(* COMMITTED: an UPDATE sees the rows committed when the statement starts,  *)
(* waits for the rows it locks, and the unique index on (user_id, kind)     *)
(* WHERE consumed_at IS NULL is checked when the INSERT goes through.       *)
EXTENDS Integers

CONSTANTS Users, Tokens, TokenTTL

ASSUME TokenTTLAssumption == TokenTTL \in Nat \ {0}

VARIABLES now,
          token,     \* the rows; a token that was not inserted has none
          generated  \* token values already drawn by GenerateToken

NoToken == [kind |-> "none"]
TokenRow == [kind : {"token"}, user : Users, expiresAt : Nat, consumed : BOOLEAN]

TokensTypeOK ==
    /\ now \in Nat
    /\ token \in [Tokens -> TokenRow \cup {NoToken}]
    /\ generated \subseteq Tokens

TokensInit ==
    /\ now = 0
    /\ token = [t \in Tokens |-> NoToken]
    /\ generated = {}

Active(t) == token[t] # NoToken /\ ~ token[t].consumed
ActiveOf(u) == {t \in Tokens : Active(t) /\ token[t].user = u}

(* VerificationToken.IsValid of the row of t, as it is now.                 *)
IsValid(t) == Active(t) /\ now < token[t].expiresAt

(* GenerateToken draws 32 random bytes: never a value drawn before.         *)
Draw(t) == t \notin generated /\ generated' = generated \cup {t}

(* Variant: the lifetime is taken off the clock instead of added to it.     *)
ExpiryBackdated == now - TokenTTL

Expiry == now + TokenTTL

Inserted(u, expiry) ==
    [kind |-> "token", user |-> u, expiresAt |-> expiry, consumed |-> FALSE]

(* Variant: verification_tokens without the unique index.                   *)
RevokeAndCreateNoIndex(u, t, seen, expiry) ==
    token' = [x \in Tokens |-> IF x = t THEN Inserted(u, expiry)
                               ELSE IF x \in seen /\ Active(x)
                                    THEN [token[x] EXCEPT !.consumed = TRUE]
                                    ELSE token[x]]

(* RevokeActiveTokensTx on the rows its statement saw, CreateTx and COMMIT. *)
(* It fails when a token the UPDATE did not see is active: the user already *)
(* has another one.                                                         *)
RevokeAndCreate(u, t, seen, expiry) ==
    /\ ActiveOf(u) \subseteq seen
    /\ token' = [x \in Tokens |-> IF x = t THEN Inserted(u, expiry)
                                  ELSE IF x \in seen /\ Active(x)
                                       THEN [token[x] EXCEPT !.consumed = TRUE]
                                       ELSE token[x]]

(* Variant: MarkConsumed without looking at the number of rows it changed.  *)
MarkConsumedBlindly(t) ==
    /\ token[t] # NoToken
    /\ token' = [token EXCEPT ![t].consumed = TRUE]

(* MarkConsumed: an error unless exactly this row was still unconsumed.     *)
MarkConsumed(t) ==
    /\ Active(t)
    /\ token' = [token EXCEPT ![t].consumed = TRUE]
============================================================================
