---------------------------- MODULE AccountNames ----------------------------
(* The names accounts are found by: the address and the username,           *)
(* each unique up to case (CITEXT), of which nothing keeps one account's    *)
(* username from being another's address since migration 0006 dropped the   *)
(* format. Register normalises the address it validates, UpdateMe stores    *)
(* what it is given and a sign-in with Google what the ID token claims, and *)
(* DeleteMe confirms itself by authenticating with the address it has read. *)
(* One statement or transaction a step. Lockout is in Lockout, the linking  *)
(* of Google's subjects in Accounts.                                        *)
CONSTANTS Users,       \* the ids that uuid.New draws
          Names,       \* what may be typed, up to case
          Addresses,   \* those that are well-formed and have no space around
          Trimmed,     \* each name without the space around it
          Requests

ASSUME TrimmedAssumption == /\ Trimmed \in [Names -> Names]
                            /\ \A n \in Names : Trimmed[Trimmed[n]] = Trimmed[n]
ASSUME AddressesAssumption == /\ Addresses \subseteq Names
                              /\ \A n \in Addresses : Trimmed[n] = n

VARIABLES row,         \* users, with whether user_password has a row
          drawn,       \* ids of the accounts created so far
          req,         \* the requests in flight
          verbatim     \* history: the accounts whose address was stored as
                       \* it came, by UpdateMe or a sign-in with Google

vars == <<row, drawn, req, verbatim>>

NoName == "no name"
ASSUME NoNameAssumption == NoName \notin Names
Row == [email : Names, username : Names \cup {NoName}, password : BOOLEAN]
NoRow == [email |-> NoName, username |-> NoName, password |-> FALSE]

Idle == [pc |-> "idle"]
Registration == [pc : {"existsByEmail", "existsByUsername", "create"},
                 email : Names, username : Names \cup {NoName}]
Update == [pc : {"getByEmail", "update"}, user : Users, email : Names]
(* moved and byUsername are history: the account went to another address    *)
(* since its own was read; the account that confirms was found by username. *)
Deletion == [pc : {"confirmFind"}, user : Users, password : Users,
             identifier : Names, moved : BOOLEAN]
DeletionBy == [pc : {"confirm", "delete"}, user : Users, password : Users,
               identifier : Names, found : Users, moved : BOOLEAN,
               byUsername : BOOLEAN]

AnyRequest == Registration \cup Update \cup Deletion \cup DeletionBy \cup {Idle}

TypeOK ==
    /\ row \in [Users -> Row \cup {NoRow}]
    /\ drawn \subseteq Users
    /\ req \in [Requests -> AnyRequest]
    /\ verbatim \subseteq Users

Init ==
    /\ row = [u \in Users |-> NoRow]
    /\ drawn = {}
    /\ req = [r \in Requests |-> Idle]
    /\ verbatim = {}

At(r, label) == req[r].pc = label
Become(r, request) == req' = [req EXCEPT ![r] = request]
Goto(r, label) == req' = [req EXCEPT ![r].pc = label]
Finish(r) == Become(r, Idle)

Exists(u) == row[u] # NoRow
WithEmail(e) == {u \in Users : Exists(u) /\ row[u].email = e}
WithUsername(n) == {u \in Users : Exists(u) /\ row[u].username = n}
(* GetByEmailOrUsername: any row that fits.                                 *)
FoundBy(n) == WithEmail(n) \cup WithUsername(n)

(* INSERT INTO users; the unique indexes refuse a name that is taken.       *)
CreateUser(u, e, n, password) ==
    /\ u \notin drawn
    /\ WithEmail(e) = {}
    /\ n = NoName \/ WithUsername(n) = {}
    /\ drawn' = drawn \cup {u}
    /\ row' = [row EXCEPT ![u] = [email |-> e, username |-> n,
                                  password |-> password]]

-----------------------------------------------------------------------------
(* Variant: the address is validated and stored as it was typed.            *)
BeginRegisterVerbatim(r, e, n) ==
    /\ At(r, "idle")
    /\ Trimmed[e] \in Addresses
    /\ Become(r, [pc |-> "existsByEmail", email |-> e, username |-> n])
    /\ UNCHANGED <<row, drawn, verbatim>>

(* Register: ValidateEmail looks at the normalised address, NormalizeEmail  *)
(* makes it the one that is used; the username is taken as it is.           *)
BeginRegister(r, e, n) ==
    /\ At(r, "idle")
    /\ Trimmed[e] \in Addresses
    /\ Become(r, [pc |-> "existsByEmail", email |-> Trimmed[e], username |-> n])
    /\ UNCHANGED <<row, drawn, verbatim>>

ExistsByEmail(r) ==
    /\ At(r, "existsByEmail")
    /\ IF WithEmail(req[r].email) # {} THEN Finish(r)
       ELSE Goto(r, IF req[r].username = NoName THEN "create"
                    ELSE "existsByUsername")
    /\ UNCHANGED <<row, drawn, verbatim>>

ExistsByUsername(r) ==
    /\ At(r, "existsByUsername")
    /\ IF WithUsername(req[r].username) # {} THEN Finish(r)
       ELSE Goto(r, "create")
    /\ UNCHANGED <<row, drawn, verbatim>>

(* The transaction of user and password.                                    *)
Create(r, u) ==
    /\ At(r, "create")
    /\ CreateUser(u, req[r].email, req[r].username, TRUE)
    /\ Finish(r)
    /\ UNCHANGED verbatim

(* A sign-in with Google creates an account without username or password,   *)
(* at the address the ID token claims, neither validated nor normalised.    *)
CreateByGoogle(u, e) ==
    /\ CreateUser(u, e, NoName, FALSE)
    /\ verbatim' = verbatim \cup {u}
    /\ UNCHANGED req

-----------------------------------------------------------------------------
(* UpdateMe: the row is read, and all of it written later, with the address *)
(* that was asked for, neither validated nor normalised, or the one read.   *)
BeginUpdate(r, u, e) ==
    /\ At(r, "idle")
    /\ Exists(u)
    /\ Become(r, [pc |-> IF e = row[u].email THEN "update" ELSE "getByEmail",
                  user |-> u, email |-> e])
    /\ UNCHANGED <<row, drawn, verbatim>>

(* A lookup that fails lets the update go on as one that finds nobody does. *)
GetByEmail(r) ==
    /\ At(r, "getByEmail")
    /\ \/ ~ WithEmail(req[r].email) \subseteq {req[r].user} /\ Finish(r)
       \/ Goto(r, "update")
    /\ UNCHANGED <<row, drawn, verbatim>>

UpdateUser(r) ==
    LET u == req[r].user
        e == req[r].email
        Leaves(q) == req[q].pc \in {"confirmFind", "confirm", "delete"}
                     /\ req[q].user = u /\ req[q].identifier # e
    IN
    /\ At(r, "update")
    /\ Exists(u)
    /\ WithEmail(e) \subseteq {u}
    /\ row' = [row EXCEPT ![u].email = e]
    /\ verbatim' = IF e = row[u].email THEN verbatim ELSE verbatim \cup {u}
    /\ req' = [q \in Requests |->
                  IF q = r THEN Idle
                  ELSE IF Leaves(q) THEN [req[q] EXCEPT !.moved = TRUE]
                  ELSE req[q]]
    /\ UNCHANGED drawn

-----------------------------------------------------------------------------
(* DeleteMe: the row is read, and its address used to confirm the password. *)
(* Whose password was typed stands for the password.                        *)
BeginDelete(r, u, password) ==
    /\ At(r, "idle")
    /\ Exists(u)
    /\ Become(r, [pc |-> "confirmFind", user |-> u, password |-> password,
                  identifier |-> row[u].email, moved |-> FALSE])
    /\ UNCHANGED <<row, drawn, verbatim>>

(* Variant: the account is looked for without its address.                  *)
ConfirmFindAny(r) ==
    /\ At(r, "confirmFind")
    /\ \E u \in Users :
          /\ Exists(u)
          /\ Become(r, [pc |-> "confirm", user |-> req[r].user,
                        password |-> req[r].password,
                        identifier |-> req[r].identifier, found |-> u,
                        moved |-> req[r].moved,
                        byUsername |-> row[u].username = req[r].identifier])
    /\ UNCHANGED <<row, drawn, verbatim>>

(* Variant: that no account was found is not noticed.                       *)
ConfirmFindUnchecked(r) ==
    LET found == FoundBy(req[r].identifier) IN
    /\ At(r, "confirmFind")
    /\ \E u \in IF found = {} THEN {NoName} ELSE found :
          Become(r, [pc |-> "confirm", user |-> req[r].user,
                     password |-> req[r].password,
                     identifier |-> req[r].identifier, found |-> u,
                     moved |-> req[r].moved, byUsername |-> FALSE])
    /\ UNCHANGED <<row, drawn, verbatim>>

(* Authenticate: one query by either name; several rows may fit.            *)
ConfirmFind(r) ==
    LET found == FoundBy(req[r].identifier) IN
    /\ At(r, "confirmFind")
    /\ \/ found = {} /\ Finish(r)
       \/ \E u \in found :
             Become(r, [pc |-> "confirm", user |-> req[r].user,
                        password |-> req[r].password,
                        identifier |-> req[r].identifier, found |-> u,
                        moved |-> req[r].moved,
                        byUsername |-> row[u].username = req[r].identifier])
    /\ UNCHANGED <<row, drawn, verbatim>>

(* Then the credentials of the row it returned. The handler does not look at*)
(* whose they are.                                                          *)
Confirm(r) ==
    LET u == req[r].found IN
    /\ At(r, "confirm")
    /\ IF Exists(u) /\ row[u].password /\ req[r].password = u
       THEN Goto(r, "delete") ELSE Finish(r)
    /\ UNCHANGED <<row, drawn, verbatim>>

(* Revoking the sessions touches nothing here; then users.Delete.           *)
Delete(r) ==
    /\ At(r, "delete")
    /\ row' = [row EXCEPT ![req[r].user] = NoRow]
    /\ Finish(r)
    /\ UNCHANGED <<drawn, verbatim>>

(* A statement fails, an index refuses one, the account is locked, or the   *)
(* server stops.                                                            *)
Fail(r) ==
    /\ ~ At(r, "idle")
    /\ Finish(r)
    /\ UNCHANGED <<row, drawn, verbatim>>

Next ==
    \/ \E r \in Requests, u \in Users, e \in Names :
          \/ \E n \in Names \cup {NoName} : BeginRegister(r, e, n)
          \/ ExistsByEmail(r) \/ ExistsByUsername(r) \/ Create(r, u)
          \/ BeginUpdate(r, u, e) \/ GetByEmail(r) \/ UpdateUser(r)
          \/ \E v \in Users : BeginDelete(r, u, v)
          \/ ConfirmFind(r) \/ Confirm(r) \/ Delete(r)
          \/ Fail(r)
    \/ \E u \in Users, e \in Names : CreateByGoogle(u, e)

Spec == Init /\ [][Next]_vars

-----------------------------------------------------------------------------
(* A deletion that is about to happen was confirmed with the password of the*)
(* account that is deleted (me/delete.go:15), although only the address ties*)
(* the two: unless the account left that address after it was read and      *)
(* another took it, or the address is the username of another account.      *)
ConfirmedByItsOwner ==
    \A r \in Requests :
        At(r, "delete") /\ Exists(req[r].user) /\ req[r].password # req[r].user
        => req[r].moved \/ req[r].byUsername

(* Where two accounts have one address up to the space around it, one of    *)
(* them has it with the space, and got it from a profile update or from the *)
(* claims of an ID token, which are not normalised (me/handler.go:133,      *)
(* google.go:224). Registrations that race do not get there, whatever moves *)
(* and deletions there are between their lookups and their insertions.      *)
TwinsOnlyVerbatim ==
    \A u, v \in Users :
        /\ Exists(u) /\ Exists(v) /\ u # v
        /\ Trimmed[row[u].email] = Trimmed[row[v].email]
        => \E w \in {u, v} :
              w \in verbatim /\ Trimmed[row[w].email] # row[w].email

(* The inductive strengthening. Of the rows: an account that is there was   *)
(* drawn, an address is one account's, and one that is not normalised was   *)
(* stored as it came.                                                       *)
RowsInv ==
    /\ \A u \in Users : Exists(u) =>
          /\ u \in drawn
          /\ u \in verbatim \/ Trimmed[row[u].email] = row[u].email
    /\ \A u, v \in Users :
          Exists(u) /\ Exists(v) /\ row[u].email = row[v].email => u = v

(* Of one request: a registration goes on with a normalised address; until  *)
(* a deletion is over its account, if it is still there and has not moved,  *)
(* has the address that was read, so who was found by it is that account.   *)
Confirming(r) == req[r].pc \in {"confirm", "delete"}
Vetted(r) ==
    /\ req[r].pc \in {"existsByEmail", "existsByUsername", "create"} =>
          Trimmed[req[r].email] = req[r].email
    /\ At(r, "confirmFind") \/ Confirming(r) =>
          /\ req[r].user \in drawn
          /\ Exists(req[r].user) /\ ~ req[r].moved =>
                row[req[r].user].email = req[r].identifier
    /\ Confirming(r) =>
          \/ req[r].found = req[r].user \/ ~ Exists(req[r].user)
          \/ req[r].moved \/ req[r].byUsername
    /\ At(r, "delete") => req[r].password = req[r].found
NamesInv == TypeOK /\ RowsInv /\ \A r \in Requests : Vetted(r)
=============================================================================
