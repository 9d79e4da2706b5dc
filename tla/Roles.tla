------------------------------- MODULE Roles -------------------------------
(* Roles and who holds them (roles_repo.go, the role methods of idm/idm.go, *)
(* the tables of migration 0007). The embedding application calls these     *)
(* from requests of its own, so calls overlap, one SQL statement a step.    *)
(* The replacement of a user's roles is the one transaction: its DELETE and *)
(* its INSERTs hold row locks until it commits, and at READ COMMITTED the   *)
(* DELETE works on the rows that were committed when it started.            *)
EXTENDS FiniteSets

CONSTANTS Users, RoleIds, Names,   \* ids come from gen_random_uuid
          Requests                 \* concurrent calls of the library

VARIABLES present,     \* the rows of users
          name,        \* the roles table: the name of each id
          held,        \* user_roles: pairs of a user and a role id
          drawn,       \* role ids ever created
          req,         \* the calls in flight
          added,       \* history: pairs that others inserted, and that they
          removed      \* deleted, since a replacement's DELETE began

tables == <<present, name, held>>
history == <<added, removed>>
vars == <<tables, drawn, req, history>>

NoName == "no name"
ASSUME NoNameAssumption == NoName \notin Names

Idle == [pc |-> "idle"]
Creation == [pc : {"createCheck", "createInsert"}, name : Names]
Renaming == [pc : {"renameById", "renameByName", "renameWrite"},
             id : RoleIds, name : Names]
Assignment == [pc : {"assignEnsure"}, user : Users, name : Names]
Insertion == [pc : {"assignInsert"}, user : Users, id : RoleIds]
Removal == [pc : {"removeLookup"}, user : Users, name : Names]
Pairs == Users \X RoleIds
Deletion == [pc : {"removeStart", "removeWait"}, user : Users, id : RoleIds,
             seen : SUBSET Pairs]
(* todo: names not ensured yet; ids: the roles they turned into, left: those*)
(* not inserted yet; seen: the rows the DELETE found when it started; gone: *)
(* those it deleted; news: the rows inserted.                               *)
Replacement == [pc : {"ensure", "wait", "insert"}, user : Users,
                todo : SUBSET Names, ids : SUBSET RoleIds,
                left : SUBSET RoleIds, seen : SUBSET Pairs,
                gone : SUBSET Pairs, news : SUBSET Pairs]
AnyCall == Creation \cup Renaming \cup Assignment \cup Insertion
               \cup Removal \cup Deletion \cup Replacement \cup {Idle}

TypeOK ==
    /\ present \subseteq Users
    /\ name \in [RoleIds -> Names \cup {NoName}]
    /\ held \subseteq Pairs
    /\ drawn \subseteq RoleIds
    /\ req \in [Requests -> AnyCall]
    /\ added \in [Requests -> SUBSET Pairs]
    /\ removed \in [Requests -> SUBSET Pairs]

Init ==
    /\ present = Users
    /\ name = [i \in RoleIds |-> NoName]
    /\ held = {}
    /\ drawn = {}
    /\ req = [r \in Requests |-> Idle]
    /\ added = [r \in Requests |-> {}]
    /\ removed = [r \in Requests |-> {}]

-----------------------------------------------------------------------------
At(r, label) == req[r].pc = label
Goto(r, label) == req' = [req EXCEPT ![r].pc = label]
Become(r, call) == req' = [req EXCEPT ![r] = call]
Finish(r) == Become(r, Idle)

Exists(i) == name[i] # NoName
Named(n) == {i \in RoleIds : name[i] = n}
RolesOf(u) == {p \in held : p[1] = u}

InTx(r) == At(r, "insert")
(* Rows that an open transaction has deleted or inserted: a statement of    *)
(* somebody else that needs one waits until the transaction ends. Through   *)
(* the foreign keys that includes the deletion of a user or a role that a   *)
(* row inserted names.                                                      *)
Holds(q, P) == InTx(q) /\ P \cap (req[q].gone \cup req[q].news) # {}
Locked(P, r) == \E q \in Requests \ {r} : Holds(q, P)

(* The table changes under the calls: a DELETE still waiting for a row that *)
(* somebody else deleted skips it, even if the pair is inserted again, and  *)
(* the history of each replacement under way notes what came and went.      *)
Forget(P, calls) ==
    [r \in Requests |-> IF calls[r].pc \in {"wait", "removeWait"}
                        THEN [calls[r] EXCEPT !.seen = @ \ P] ELSE calls[r]]
Replacing(r) == req[r].pc \in {"wait", "insert"}
Note(In, Out) ==
    /\ added' = [r \in Requests |->
                    IF Replacing(r)' THEN added[r] \cup In ELSE {}]
    /\ removed' = [r \in Requests |->
                    IF Replacing(r)' THEN removed[r] \cup Out ELSE {}]

(* A new row of roles; the caller has made sure that the name is free.      *)
NewRole(i, n) ==
    /\ i \notin drawn
    /\ drawn' = drawn \cup {i}
    /\ name' = [name EXCEPT ![i] = n]

(* Ensure: one upsert answers the role of that name, new or not.            *)
Ensure(i, n) ==
    \/ Named(n) = {i} /\ UNCHANGED <<name, drawn>>
    \/ Named(n) = {} /\ NewRole(i, n)

-----------------------------------------------------------------------------
(* Create: look the name up, then insert; the UNIQUE constraint refuses a   *)
(* name taken in between.                                                   *)
BeginCreate(r, n) ==
    /\ At(r, "idle")
    /\ Become(r, [pc |-> "createCheck", name |-> n])
    /\ UNCHANGED <<tables, drawn, history>>

CreateCheck(r) ==
    /\ At(r, "createCheck")
    /\ IF Named(req[r].name) = {} THEN Goto(r, "createInsert") ELSE Finish(r)
    /\ UNCHANGED <<tables, drawn, history>>

CreateInsert(r, i) ==
    /\ At(r, "createInsert")
    /\ Named(req[r].name) = {}
    /\ NewRole(i, req[r].name)
    /\ Finish(r)
    /\ UNCHANGED <<present, held, history>>

(* Update: the role exists, the name is free or its own, then the write,    *)
(* which finds no row when the role has been deleted.                       *)
BeginRename(r, i, n) ==
    /\ At(r, "idle")
    /\ Become(r, [pc |-> "renameById", id |-> i, name |-> n])
    /\ UNCHANGED <<tables, drawn, history>>

RenameById(r) ==
    /\ At(r, "renameById")
    /\ IF Exists(req[r].id) THEN Goto(r, "renameByName") ELSE Finish(r)
    /\ UNCHANGED <<tables, drawn, history>>

RenameByName(r) ==
    /\ At(r, "renameByName")
    /\ IF Named(req[r].name) \subseteq {req[r].id}
       THEN Goto(r, "renameWrite") ELSE Finish(r)
    /\ UNCHANGED <<tables, drawn, history>>

RenameWrite(r) ==
    /\ At(r, "renameWrite")
    /\ Exists(req[r].id)
    /\ Named(req[r].name) \subseteq {req[r].id}
    /\ name' = [name EXCEPT ![req[r].id] = req[r].name]
    /\ Finish(r)
    /\ UNCHANGED <<present, held, drawn, history>>

(* AssignRole: ensure the role, then insert the pair; an assignment that    *)
(* exists is kept as it is, and the foreign keys refuse a user or a role    *)
(* that has gone.                                                           *)
BeginAssign(r, u, n) ==
    /\ At(r, "idle")
    /\ Become(r, [pc |-> "assignEnsure", user |-> u, name |-> n])
    /\ UNCHANGED <<tables, drawn, history>>

AssignEnsure(r, i) ==
    /\ At(r, "assignEnsure")
    /\ Ensure(i, req[r].name)
    /\ Become(r, [pc |-> "assignInsert", user |-> req[r].user, id |-> i])
    /\ UNCHANGED <<present, held, history>>

AssignInsert(r) ==
    LET pair == <<req[r].user, req[r].id>> IN
    /\ At(r, "assignInsert")
    /\ ~ Locked({pair}, r)
    /\ req[r].user \in present /\ Exists(req[r].id)
    /\ held' = held \cup {pair}
    /\ Finish(r)
    /\ Note({pair} \ held, {})
    /\ UNCHANGED <<present, name, drawn>>

(* RemoveRole: the role of that name, none being no error, then the pair.   *)
BeginRemove(r, u, n) ==
    /\ At(r, "idle")
    /\ Become(r, [pc |-> "removeLookup", user |-> u, name |-> n])
    /\ UNCHANGED <<tables, drawn, history>>

(* Variant: a role that is not found is not taken for a no-op.              *)
RemoveLookupUnchecked(r) ==
    /\ At(r, "removeLookup")
    /\ LET i == CHOOSE x \in Named(req[r].name) \cup {NoName} :
                   x # NoName \/ Named(req[r].name) = {}
       IN Become(r, [pc |-> "removeStart", user |-> req[r].user, id |-> i,
                     seen |-> {}])
    /\ UNCHANGED <<tables, drawn, history>>

RemoveLookup(r) ==
    /\ At(r, "removeLookup")
    /\ \/ Named(req[r].name) = {} /\ Finish(r)
       \/ \E i \in Named(req[r].name) :
             Become(r, [pc |-> "removeStart", user |-> req[r].user, id |-> i,
                        seen |-> {}])
    /\ UNCHANGED <<tables, drawn, history>>

RemoveStart(r) ==
    /\ At(r, "removeStart")
    /\ Become(r, [req[r] EXCEPT !.pc = "removeWait",
                   !.seen = held \cap {<<req[r].user, req[r].id>>}])
    /\ UNCHANGED <<tables, drawn, history>>

RemoveFromUser(r) ==
    LET P == req[r].seen IN
    /\ At(r, "removeWait")
    /\ ~ Locked(P, r)
    /\ held' = held \ P
    /\ req' = [Forget(P, req) EXCEPT ![r] = Idle]
    /\ Note({}, P)
    /\ UNCHANGED <<present, name, drawn>>

(* DeleteRole and the deletion of a user, one statement each, with the rows *)
(* the foreign keys cascade to.                                             *)
Cascade(P) ==
    /\ \A q \in Requests : ~ Holds(q, P)
    /\ held' = held \ P
    /\ req' = Forget(P, req)
    /\ Note({}, P \cap held)

DeleteRole(i) ==
    /\ Exists(i)
    /\ name' = [name EXCEPT ![i] = NoName]
    /\ Cascade(Users \X {i})
    /\ UNCHANGED <<present, drawn>>

DeleteUser(u) ==
    /\ u \in present
    /\ present' = present \ {u}
    /\ Cascade({u} \X RoleIds)
    /\ UNCHANGED <<name, drawn>>

-----------------------------------------------------------------------------
(* SetUserRoles: ensure each name, one statement after the other, outside   *)
(* the transaction.                                                         *)
BeginReplace(r, u, N) ==
    /\ At(r, "idle")
    /\ Become(r, [pc |-> "ensure", user |-> u, todo |-> N, ids |-> {},
                  left |-> {}, seen |-> {}, gone |-> {}, news |-> {}])
    /\ UNCHANGED <<tables, drawn, history>>

EnsureNext(r, n, i) ==
    /\ At(r, "ensure")
    /\ n \in req[r].todo
    /\ Ensure(i, n)
    /\ req' = [req EXCEPT ![r].todo = @ \ {n}, ![r].ids = @ \cup {i}]
    /\ UNCHANGED <<present, held, history>>

(* Variant: the DELETE names the roles that are asked for.                  *)
StartDeleteAsked(r) ==
    /\ At(r, "ensure")
    /\ req[r].todo = {}
    /\ req' = [req EXCEPT ![r].pc = "wait", ![r].left = req[r].ids,
                          ![r].seen = held \cap ({req[r].user} \X req[r].ids)]
    /\ UNCHANGED <<tables, drawn, history>>

(* The transaction: the DELETE sees the rows committed when it starts ...   *)
StartDelete(r) ==
    /\ At(r, "ensure")
    /\ req[r].todo = {}
    /\ req' = [req EXCEPT ![r].pc = "wait", ![r].left = req[r].ids,
                          ![r].seen = RolesOf(req[r].user)]
    /\ UNCHANGED <<tables, drawn, history>>

(* ... waits for those another transaction has hold of, and deletes those   *)
(* still there.                                                             *)
DeleteSeen(r) ==
    /\ At(r, "wait")
    /\ ~ Locked(req[r].seen, r)
    /\ req' = [req EXCEPT ![r].pc = "insert", ![r].gone = req[r].seen]
    /\ UNCHANGED <<tables, drawn, history>>

(* INSERT ... ON CONFLICT DO NOTHING for one role: a pair this transaction  *)
(* sees is left alone, one that another has hold of is waited for.          *)
Sees(r, pair) == pair \in held \ req[r].gone
(* Variant: user_roles without foreign keys.                                *)
InsertOneUnchecked(r, i) ==
    LET pair == <<req[r].user, i>> IN
    /\ At(r, "insert")
    /\ i \in req[r].left
    /\ ~ Locked({pair}, r)
    /\ req' = [req EXCEPT ![r].left = @ \ {i},
                          ![r].news = IF Sees(r, pair) THEN @ ELSE @ \cup {pair}]
    /\ UNCHANGED <<tables, drawn, history>>

InsertOne(r, i) ==
    LET pair == <<req[r].user, i>> IN
    /\ At(r, "insert")
    /\ i \in req[r].left
    /\ ~ Locked({pair}, r)
    /\ Sees(r, pair) \/ (req[r].user \in present /\ Exists(i))
    /\ req' = [req EXCEPT ![r].left = @ \ {i},
                          ![r].news = IF Sees(r, pair) THEN @ ELSE @ \cup {pair}]
    /\ UNCHANGED <<tables, drawn, history>>

Commit(r) ==
    LET gone == req[r].gone
        news == req[r].news IN
    /\ At(r, "insert")
    /\ req[r].left = {}
    /\ held' = (held \ gone) \cup news
    /\ req' = [Forget(gone, req) EXCEPT ![r] = Idle]
    /\ Note(news, gone)
    /\ UNCHANGED <<present, name, drawn>>

(* A statement fails (a foreign key or the UNIQUE constraint, a deadlock,   *)
(* the connection) or the request is abandoned: the call ends there, and an *)
(* open transaction is rolled back.                                         *)
Fail(r) ==
    /\ ~ At(r, "idle")
    /\ Finish(r)
    /\ Note({}, {})
    /\ UNCHANGED <<tables, drawn>>

Next ==
    \/ \E r \in Requests, n \in Names, i \in RoleIds, u \in Users :
          \/ BeginCreate(r, n) \/ CreateCheck(r) \/ CreateInsert(r, i)
          \/ BeginRename(r, i, n) \/ RenameById(r) \/ RenameByName(r)
          \/ RenameWrite(r)
          \/ BeginAssign(r, u, n) \/ AssignEnsure(r, i) \/ AssignInsert(r)
          \/ BeginRemove(r, u, n) \/ RemoveLookup(r) \/ RemoveStart(r)
          \/ RemoveFromUser(r)
          \/ \E N \in SUBSET Names : BeginReplace(r, u, N)
          \/ EnsureNext(r, n, i) \/ StartDelete(r) \/ DeleteSeen(r)
          \/ InsertOne(r, i) \/ Commit(r) \/ Fail(r)
    \/ \E i \in RoleIds : DeleteRole(i)
    \/ \E u \in Users : DeleteUser(u)

Spec == Init /\ [][Next]_vars

-----------------------------------------------------------------------------
(* Every assignment refers to a user and a role that exist, although a      *)
(* replacement commits rows long after it checked them: the role or the user*)
(* may be deleted between its INSERT and its COMMIT only by waiting.        *)
AssignmentsLive ==
    \A p \in held : p[1] \in present /\ Exists(p[2])

(* SetUserRoles replaces all roles of a user, up to what raced with it: a   *)
(* role that is left over was assigned by somebody else since the DELETE    *)
(* began (a second replacement, an AssignRole), and a role that was asked   *)
(* for and is missing was both assigned and taken away by others meanwhile. *)
ReplacementOffOnlyByRace ==
    [][\A r \in Requests : Commit(r) =>
          LET asked == {req[r].user} \X req[r].ids
              got == {p \in held' : p[1] = req[r].user} IN
          /\ got \ asked \subseteq added[r]
          /\ asked \ got \subseteq added[r] \cap removed[r]]_vars

(* The inductive strengthening, of one call: of a replacement, what others  *)
(* did since its DELETE began accounts for every row it neither saw nor     *)
(* asked for and for every row it asked for and has not; what it inserted   *)
(* refers to what exists.                                                   *)
Sound(r) ==
    LET u == req[r].user
        unseen == RolesOf(u) \ req[r].gone
    IN
    /\ ~ Replacing(r) => added[r] = {} /\ removed[r] = {}
    /\ req[r].pc \in {"ensure", "wait"} => req[r].news = {}
    /\ At(r, "wait") => /\ req[r].left = req[r].ids
                        /\ RolesOf(u) \subseteq req[r].seen \cup added[r]
    /\ At(r, "insert") =>
          /\ req[r].left \subseteq req[r].ids
          /\ req[r].news \subseteq {u} \X req[r].ids
          /\ \A p \in req[r].news : p[1] \in present /\ Exists(p[2])
          /\ unseen \subseteq added[r]
          /\ {u} \X (req[r].ids \ req[r].left) \subseteq
                req[r].news \cup unseen \cup (added[r] \cap removed[r])
RolesInv ==
    TypeOK /\ AssignmentsLive /\ \A r \in Requests : Sound(r)
=============================================================================
