---------------------------- MODULE RolesProofs -----------------------------
(* Roles and assignments for any number of users, roles and calls: the      *)
(* inductive invariant, and the two properties of the run.                  *)
EXTENDS Roles, TLAPS

(* Which kind of call a call is follows from where it stands.               *)
LEMMA CallKinds ==
    ASSUME TypeOK, NEW r \in Requests
    PROVE  /\ req[r] \in AnyCall
           /\ req[r].pc \in {"createCheck", "createInsert"} => req[r] \in Creation
           /\ req[r].pc \in {"renameById", "renameByName", "renameWrite"} =>
                 req[r] \in Renaming
           /\ At(r, "assignEnsure") => req[r] \in Assignment
           /\ At(r, "assignInsert") => req[r] \in Insertion
           /\ At(r, "removeLookup") => req[r] \in Removal
           /\ req[r].pc \in {"removeStart", "removeWait"} => req[r] \in Deletion
           /\ req[r].pc \in {"ensure", "wait", "insert"} => req[r] \in Replacement
  BY DEF TypeOK, AnyCall, Creation, Renaming, Assignment, Insertion, Removal,
         Deletion, Replacement, Idle, At

LEMMA InitInv == Init => RolesInv
  BY DEF Init, RolesInv, TypeOK, AnyCall, AssignmentsLive, Sound, Replacing, At,
         Idle

-----------------------------------------------------------------------------
(* What Forget leaves of a call: everything but rows that have gone.        *)
LEMMA ForgetKeeps ==
    ASSUME TypeOK, NEW P, NEW q \in Requests
    PROVE  LET call == Forget(P, req)[q] IN
           /\ call \in AnyCall /\ call.pc = req[q].pc
           /\ call.pc \in {"ensure", "wait", "insert"} =>
                 /\ call.user = req[q].user /\ call.ids = req[q].ids
                 /\ call.left = req[q].left /\ call.gone = req[q].gone
                 /\ call.news = req[q].news
                 /\ call.seen = req[q].seen \/ call.seen = req[q].seen \ P
  <1> DEFINE call == Forget(P, req)[q]
             fewer == [req[q] EXCEPT !.seen = @ \ P]
  <1>1. call = IF req[q].pc \in {"wait", "removeWait"} THEN fewer ELSE req[q]
    BY DEF Forget
  <1>2. CASE req[q].pc \notin {"wait", "removeWait"}
    BY <1>1, <1>2, CallKinds
  <1>3. CASE At(q, "wait")
    <2>1. req[q] \in Replacement
      BY <1>3, CallKinds DEF At
    <2>2. /\ fewer \in Replacement /\ fewer.pc = req[q].pc
          /\ fewer.user = req[q].user /\ fewer.ids = req[q].ids
          /\ fewer.left = req[q].left /\ fewer.gone = req[q].gone
          /\ fewer.news = req[q].news /\ fewer.seen = req[q].seen \ P
      BY <2>1 DEF Replacement
    <2> HIDE DEF fewer
    <2> QED
      BY <1>1, <1>3, <2>2 DEF AnyCall, At
  <1>4. CASE At(q, "removeWait")
    <2>1. req[q] \in Deletion
      BY <1>4, CallKinds DEF At
    <2>2. fewer \in Deletion /\ fewer.pc = req[q].pc
      BY <2>1 DEF Deletion
    <2> HIDE DEF fewer
    <2> QED
      BY <1>1, <1>4, <2>2 DEF AnyCall, At
  <1> QED
    BY <1>2, <1>3, <1>4 DEF At

(* Rows come and go under a replacement: as long as its history notes them  *)
(* it accounts for what it will find, and what it inserted still refers to  *)
(* rows that are there.                                                     *)
LEMMA SoundKeeps ==
    ASSUME RolesInv, NEW q \in Requests, NEW P, NEW In, NEW Out,
           req'[q] = req[q] \/ req'[q] = Forget(P, req)[q],
           held' \subseteq held \cup In, held \subseteq held' \cup Out,
           P \cap held' \subseteq In,
           added'[q] = IF Replacing(q) THEN added[q] \cup In ELSE {},
           removed'[q] = IF Replacing(q) THEN removed[q] \cup Out ELSE {},
           At(q, "insert") => \A p \in req[q].news :
                                 p[1] \in present' /\ name'[p[2]] # NoName
    PROVE  Sound(q)'
  <1>1. Sound(q) /\ TypeOK
    BY DEF RolesInv
  <1>2. /\ req'[q].pc = req[q].pc
        /\ req'[q].pc \in {"ensure", "wait", "insert"} =>
              /\ req'[q].user = req[q].user /\ req'[q].ids = req[q].ids
              /\ req'[q].left = req[q].left /\ req'[q].gone = req[q].gone
              /\ req'[q].news = req[q].news
              /\ req'[q].seen = req[q].seen \/ req'[q].seen = req[q].seen \ P
    BY <1>1, ForgetKeeps
  <1>3. ~ Replacing(q)' => added'[q] = {} /\ removed'[q] = {}
    BY <1>2 DEF Replacing
  <1>4. req'[q].pc \in {"ensure", "wait"} => req'[q].news = {}
    BY <1>1, <1>2 DEF Sound
  <1>5. ASSUME At(q, "wait")
        PROVE  /\ req'[q].left = req'[q].ids
               /\ {p \in held' : p[1] = req'[q].user} \subseteq
                     req'[q].seen \cup added'[q]
    <2>1. /\ req[q].left = req[q].ids
          /\ RolesOf(req[q].user) \subseteq req[q].seen \cup added[q]
          /\ added'[q] = added[q] \cup In
      BY <1>1, <1>5 DEF Sound, Replacing, At
    <2> QED
      BY <1>2, <1>5, <2>1 DEF At, RolesOf
  <1>6. ASSUME At(q, "insert")
        PROVE  LET u == req'[q].user
                   unseen == {p \in held' : p[1] = u} \ req'[q].gone
               IN
               /\ req'[q].left \subseteq req'[q].ids
               /\ req'[q].news \subseteq {u} \X req'[q].ids
               /\ \A p \in req'[q].news : p[1] \in present' /\ name'[p[2]] # NoName
               /\ unseen \subseteq added'[q]
               /\ {u} \X (req'[q].ids \ req'[q].left) \subseteq
                     req'[q].news \cup unseen \cup (added'[q] \cap removed'[q])
    <2>1. /\ req[q].left \subseteq req[q].ids
          /\ req[q].news \subseteq {req[q].user} \X req[q].ids
          /\ RolesOf(req[q].user) \ req[q].gone \subseteq added[q]
          /\ {req[q].user} \X (req[q].ids \ req[q].left) \subseteq
                req[q].news \cup (RolesOf(req[q].user) \ req[q].gone)
                            \cup (added[q] \cap removed[q])
          /\ added'[q] = added[q] \cup In /\ removed'[q] = removed[q] \cup Out
      BY <1>1, <1>6 DEF Sound, Replacing, At
    <2>2. /\ req'[q].user = req[q].user /\ req'[q].ids = req[q].ids
          /\ req'[q].left = req[q].left /\ req'[q].gone = req[q].gone
          /\ req'[q].news = req[q].news
      BY <1>2, <1>6 DEF At
    <2>3. {p \in held' : p[1] = req[q].user} \ req[q].gone \subseteq added'[q]
      BY <2>1, <2>2 DEF RolesOf
    <2>4. (RolesOf(req[q].user) \ req[q].gone) \ held' \subseteq
              added'[q] \cap removed'[q]
      BY <2>1 DEF RolesOf
    <2>5. {req[q].user} \X (req[q].ids \ req[q].left) \subseteq
              req[q].news \cup ({p \in held' : p[1] = req[q].user} \ req[q].gone)
                          \cup (added'[q] \cap removed'[q])
      BY <2>1, <2>4 DEF RolesOf
    <2> QED
      BY <1>6, <2>1, <2>2, <2>3, <2>5
  <1> QED
    BY <1>2, <1>3, <1>4, <1>5, <1>6 DEF Sound, At, RolesOf, Exists

(* Steps of one call that leave the assignments alone and delete no role.   *)
LEMMA CallStep ==
    ASSUME RolesInv, NEW r \in Requests, NEW call \in AnyCall,
           \A q \in Requests : req'[q] = IF q = r THEN call ELSE req[q],
           req' \in [Requests -> AnyCall],
           UNCHANGED <<present, held>>, drawn' \subseteq RoleIds,
           name' \in [RoleIds -> Names \cup {NoName}],
           \A i \in RoleIds : name[i] # NoName => name'[i] # NoName,
           added' \in [Requests -> SUBSET Pairs],
           removed' \in [Requests -> SUBSET Pairs],
           \A q \in Requests \ {r} : added'[q] = added[q] /\ removed'[q] = removed[q],
           Sound(r)'
    PROVE  RolesInv'
  <1>1. TypeOK'
    BY DEF RolesInv, TypeOK
  <1>2. AssignmentsLive'
    BY DEF RolesInv, TypeOK, AssignmentsLive, Exists, Pairs
  <1>3. ASSUME NEW q \in Requests, q # r PROVE Sound(q)'
    <2>1. req[q].news \subseteq Pairs \/ ~ At(q, "insert")
      BY CallKinds DEF RolesInv, Replacement, At
    <2>2. At(q, "insert") => \A p \in req[q].news :
              p[1] \in present' /\ name'[p[2]] # NoName
      BY <2>1 DEF RolesInv, Sound, Exists, Pairs
    <2>3. ~ Replacing(q) => added[q] = {} /\ removed[q] = {}
      BY DEF RolesInv, Sound
    <2>4. /\ req'[q] = req[q] /\ held' = held
          /\ added'[q] = added[q] /\ removed'[q] = removed[q]
      BY <1>3
    <2>5. /\ held' \subseteq held \cup {} /\ held \subseteq held' \cup {}
          /\ {} \cap held' \subseteq {}
          /\ added'[q] = IF Replacing(q) THEN added[q] \cup {} ELSE {}
          /\ removed'[q] = IF Replacing(q) THEN removed[q] \cup {} ELSE {}
      BY <2>3, <2>4
    <2> QED
      BY <2>2, <2>4, <2>5, SoundKeeps
  <1> QED
    BY <1>1, <1>2, <1>3 DEF RolesInv

(* The same for a call that is not replacing before or after; a name may be *)
(* given to a role.                                                         *)
LEMMA PlainStep ==
    ASSUME RolesInv, NEW r \in Requests, NEW call \in AnyCall,
           Become(r, call), call.pc \notin {"wait", "insert"},
           call.pc = "ensure" => call.news = {},
           ~ Replacing(r), UNCHANGED <<present, held, history>>,
           drawn' \subseteq RoleIds, name' \in [RoleIds -> Names \cup {NoName}],
           \A i \in RoleIds : name[i] # NoName => name'[i] # NoName
    PROVE  RolesInv'
  <1>1. /\ \A q \in Requests : req'[q] = IF q = r THEN call ELSE req[q]
        /\ req' \in [Requests -> AnyCall]
    BY DEF RolesInv, TypeOK, Become
  <1>2. /\ added' \in [Requests -> SUBSET Pairs]
        /\ removed' \in [Requests -> SUBSET Pairs]
        /\ UNCHANGED <<added, removed>>
    BY DEF RolesInv, TypeOK, history
  <1>3. Sound(r)'
    BY <1>1, <1>2 DEF RolesInv, Sound, Replacing, At
  <1> QED
    BY <1>1, <1>2, <1>3, CallStep

LEMMA FinishStep ==
    ASSUME RolesInv, NEW r \in Requests, Finish(r), ~ Replacing(r),
           UNCHANGED <<tables, drawn, history>>
    PROVE  RolesInv'
  <1>1. Idle \in AnyCall /\ Idle.pc = "idle"
    BY DEF AnyCall, Idle
  <1> QED
    BY <1>1, PlainStep DEF Finish, tables, RolesInv, TypeOK

(* A call that goes on to the next statement of its own.                    *)
LEMMA GotoStep ==
    ASSUME RolesInv, NEW r \in Requests, NEW label, Goto(r, label),
           \/ /\ req[r].pc = "createCheck" /\ label = "createInsert"
           \/ /\ req[r].pc \in {"renameById", "renameByName"}
              /\ label \in {"renameByName", "renameWrite"},
           UNCHANGED <<tables, drawn, history>>
    PROVE  RolesInv'
  <1> DEFINE call == [req[r] EXCEPT !.pc = label]
  <1>1. req[r] \in Creation \cup Renaming
    BY CallKinds DEF RolesInv
  <1>2. call \in AnyCall /\ call.pc = label
    BY <1>1 DEF Creation, Renaming, AnyCall
  <1>3. Become(r, call)
    BY DEF Goto, Become, RolesInv, TypeOK
  <1>4. ~ Replacing(r)
    BY DEF Replacing
  <1> HIDE DEF call
  <1> QED
    BY <1>2, <1>3, <1>4, PlainStep DEF tables, RolesInv, TypeOK

LEMMA NewRoleNames ==
    ASSUME TypeOK, NEW i \in RoleIds, NEW n \in Names, NewRole(i, n)
    PROVE  /\ drawn' \subseteq RoleIds /\ name' \in [RoleIds -> Names \cup {NoName}]
           /\ \A j \in RoleIds : name[j] # NoName => name'[j] # NoName
  BY NoNameAssumption DEF TypeOK, NewRole

LEMMA EnsureNames ==
    ASSUME TypeOK, NEW i \in RoleIds, NEW n \in Names, Ensure(i, n)
    PROVE  /\ drawn' \subseteq RoleIds /\ name' \in [RoleIds -> Names \cup {NoName}]
           /\ \A j \in RoleIds : name[j] # NoName => name'[j] # NoName
  BY NewRoleNames DEF Ensure, TypeOK

-----------------------------------------------------------------------------
(* The single calls: create, rename, assign, remove.                        *)
LEMMA BeginStep ==
    ASSUME RolesInv, NEW r \in Requests, NEW n \in Names, NEW i \in RoleIds,
           NEW u \in Users,
           \/ BeginCreate(r, n) \/ BeginRename(r, i, n) \/ BeginAssign(r, u, n)
           \/ BeginRemove(r, u, n)
           \/ \E N \in SUBSET Names : BeginReplace(r, u, N)
    PROVE  RolesInv'
  <1>1. ~ Replacing(r)
    BY DEF Replacing, BeginCreate, BeginRename, BeginAssign, BeginRemove,
           BeginReplace, At
  <1>2. ASSUME NEW call \in AnyCall, Become(r, call),
               call.pc \notin {"wait", "insert"},
               call.pc = "ensure" => call.news = {},
               UNCHANGED <<tables, drawn, history>>
        PROVE  RolesInv'
    BY <1>1, <1>2, PlainStep DEF tables, RolesInv, TypeOK
  <1>3. CASE BeginCreate(r, n)
    <2> DEFINE call == [pc |-> "createCheck", name |-> n]
    <2>1. call \in AnyCall /\ call.pc = "createCheck"
      BY DEF AnyCall, Creation
    <2> QED
      BY <1>2, <1>3, <2>1 DEF BeginCreate
  <1>4. CASE BeginRename(r, i, n)
    <2> DEFINE call == [pc |-> "renameById", id |-> i, name |-> n]
    <2>1. call \in AnyCall /\ call.pc = "renameById"
      BY DEF AnyCall, Renaming
    <2> QED
      BY <1>2, <1>4, <2>1 DEF BeginRename
  <1>5. CASE BeginAssign(r, u, n)
    <2> DEFINE call == [pc |-> "assignEnsure", user |-> u, name |-> n]
    <2>1. call \in AnyCall /\ call.pc = "assignEnsure"
      BY DEF AnyCall, Assignment
    <2> QED
      BY <1>2, <1>5, <2>1 DEF BeginAssign
  <1>6. CASE BeginRemove(r, u, n)
    <2> DEFINE call == [pc |-> "removeLookup", user |-> u, name |-> n]
    <2>1. call \in AnyCall /\ call.pc = "removeLookup"
      BY DEF AnyCall, Removal
    <2> QED
      BY <1>2, <1>6, <2>1 DEF BeginRemove
  <1>7. ASSUME NEW N \in SUBSET Names, BeginReplace(r, u, N) PROVE RolesInv'
    <2> DEFINE call == [pc |-> "ensure", user |-> u, todo |-> N, ids |-> {},
                        left |-> {}, seen |-> {}, gone |-> {}, news |-> {}]
    <2>1. call \in AnyCall /\ call.pc = "ensure" /\ call.news = {}
      BY DEF AnyCall, Replacement
    <2> QED
      BY <1>2, <1>7, <2>1 DEF BeginReplace
  <1> QED
    BY <1>3, <1>4, <1>5, <1>6, <1>7

LEMMA LookStep ==
    ASSUME RolesInv, NEW r \in Requests,
           CreateCheck(r) \/ RenameById(r) \/ RenameByName(r)
    PROVE  RolesInv'
  <1>1. ~ Replacing(r)
    BY DEF Replacing, CreateCheck, RenameById, RenameByName, At
  <1> QED
    BY <1>1, GotoStep, FinishStep DEF CreateCheck, RenameById, RenameByName, At

LEMMA CreateInsertStep ==
    ASSUME RolesInv, NEW r \in Requests, NEW i \in RoleIds, CreateInsert(r, i)
    PROVE  RolesInv'
  <1>1. req[r].name \in Names /\ ~ Replacing(r)
    BY CallKinds DEF RolesInv, CreateInsert, Creation, At, Replacing
  <1>2. Idle \in AnyCall /\ Idle.pc = "idle"
    BY DEF AnyCall, Idle
  <1> QED
    BY <1>1, <1>2, PlainStep, NewRoleNames DEF CreateInsert, Finish, RolesInv

LEMMA RenameWriteStep ==
    ASSUME RolesInv, NEW r \in Requests, RenameWrite(r)
    PROVE  RolesInv'
  <1>1. req[r].name \in Names /\ req[r].id \in RoleIds /\ ~ Replacing(r)
    BY CallKinds DEF RolesInv, RenameWrite, Renaming, At, Replacing
  <1>2. Idle \in AnyCall /\ Idle.pc = "idle"
    BY DEF AnyCall, Idle
  <1>3. /\ name' \in [RoleIds -> Names \cup {NoName}]
        /\ \A j \in RoleIds : name[j] # NoName => name'[j] # NoName
    BY <1>1, NoNameAssumption DEF RolesInv, TypeOK, RenameWrite
  <1> QED
    BY <1>1, <1>2, <1>3, PlainStep DEF RenameWrite, Finish, RolesInv, TypeOK

LEMMA AssignEnsureStep ==
    ASSUME RolesInv, NEW r \in Requests, NEW i \in RoleIds, AssignEnsure(r, i)
    PROVE  RolesInv'
  <1> DEFINE call == [pc |-> "assignInsert", user |-> req[r].user, id |-> i]
  <1>1. req[r] \in Assignment /\ ~ Replacing(r)
    BY CallKinds DEF RolesInv, AssignEnsure, At, Replacing
  <1>2. call \in AnyCall /\ call.pc = "assignInsert" /\ req[r].name \in Names
    BY <1>1 DEF AnyCall, Assignment, Insertion
  <1> QED
    BY <1>1, <1>2, PlainStep, EnsureNames DEF AssignEnsure, RolesInv

LEMMA RemoveLookupStep ==
    ASSUME RolesInv, NEW r \in Requests, RemoveLookup(r)
    PROVE  RolesInv'
  <1>1. req[r] \in Removal /\ ~ Replacing(r)
    BY CallKinds DEF RolesInv, RemoveLookup, At, Replacing
  <1>2. CASE Finish(r)
    BY <1>1, <1>2, FinishStep DEF RemoveLookup
  <1>3. ASSUME NEW i \in Named(req[r].name),
               Become(r, [pc |-> "removeStart", user |-> req[r].user, id |-> i,
                          seen |-> {}])
        PROVE  RolesInv'
    <2> DEFINE call == [pc |-> "removeStart", user |-> req[r].user, id |-> i,
                        seen |-> {}]
    <2>1. call \in AnyCall /\ call.pc = "removeStart"
      BY <1>1, <1>3 DEF AnyCall, Removal, Deletion, Named
    <2> QED
      BY <1>1, <1>3, <2>1, PlainStep DEF RemoveLookup, tables, RolesInv, TypeOK
  <1> QED
    BY <1>2, <1>3 DEF RemoveLookup

LEMMA RemoveStartStep ==
    ASSUME RolesInv, NEW r \in Requests, RemoveStart(r)
    PROVE  RolesInv'
  <1> DEFINE call == [req[r] EXCEPT !.pc = "removeWait",
                        !.seen = held \cap {<<req[r].user, req[r].id>>}]
  <1>1. req[r] \in Deletion /\ ~ Replacing(r)
    BY CallKinds DEF RolesInv, RemoveStart, At, Replacing
  <1>2. call \in Deletion /\ call.pc = "removeWait"
    BY <1>1 DEF Deletion, Pairs, RolesInv, TypeOK
  <1>3. call \in AnyCall
    BY <1>2 DEF AnyCall
  <1>4. Become(r, call)
    BY DEF RemoveStart
  <1> HIDE DEF call
  <1> QED
    BY <1>1, <1>2, <1>3, <1>4, PlainStep DEF RemoveStart, tables, RolesInv, TypeOK

-----------------------------------------------------------------------------
(* The replacement, up to its COMMIT, and calls that fail.                  *)
LEMMA EnsureNextStep ==
    ASSUME RolesInv, NEW r \in Requests, NEW n \in Names, NEW i \in RoleIds,
           EnsureNext(r, n, i)
    PROVE  RolesInv'
  <1> DEFINE call == [req[r] EXCEPT !.todo = @ \ {n}, !.ids = @ \cup {i}]
  <1>1. req[r] \in Replacement /\ ~ Replacing(r) /\ req[r].pc = "ensure"
    BY CallKinds DEF RolesInv, EnsureNext, At, Replacing
  <1>2. req[r].news = {}
    BY <1>1 DEF RolesInv, Sound
  <1>3. call \in Replacement /\ call.pc = "ensure" /\ call.news = {}
    BY <1>1, <1>2 DEF Replacement
  <1>4. call \in AnyCall
    BY <1>3 DEF AnyCall
  <1>5. Become(r, call)
    BY DEF EnsureNext, Become, RolesInv, TypeOK
  <1> HIDE DEF call
  <1> QED
    BY <1>1, <1>3, <1>4, <1>5, PlainStep, EnsureNames DEF EnsureNext, RolesInv

LEMMA StartDeleteStep ==
    ASSUME RolesInv, NEW r \in Requests, StartDelete(r)
    PROVE  RolesInv'
  <1> DEFINE u == req[r].user
             call == [req[r] EXCEPT !.pc = "wait", !.left = req[r].ids,
                                    !.seen = {p \in held : p[1] = u}]
  <1>1. req[r] \in Replacement /\ ~ Replacing(r) /\ req[r].pc = "ensure"
    BY CallKinds DEF RolesInv, StartDelete, At, Replacing
  <1>2. req[r].news = {}
    BY <1>1 DEF RolesInv, Sound
  <1>3. /\ call \in Replacement /\ call.pc = "wait" /\ call.news = {}
        /\ call.user = u /\ call.ids = req[r].ids /\ call.left = req[r].ids
        /\ call.seen = {p \in held : p[1] = u}
    BY <1>1, <1>2 DEF Replacement, RolesInv, TypeOK
  <1>4. call \in AnyCall
    BY <1>3 DEF AnyCall
  <1>5. req' = [req EXCEPT ![r] = call] /\ UNCHANGED <<tables, drawn, history>>
    BY DEF StartDelete, RolesInv, TypeOK, RolesOf
  <1> HIDE DEF call
  <1>6. /\ \A q \in Requests : req'[q] = IF q = r THEN call ELSE req[q]
        /\ req' \in [Requests -> AnyCall]
    BY <1>4, <1>5 DEF RolesInv, TypeOK
  <1>7. Sound(r)'
    BY <1>3, <1>5, <1>6 DEF Sound, Replacing, At, RolesOf, tables
  <1> QED
    BY <1>4, <1>5, <1>6, <1>7, CallStep DEF tables, history, RolesInv, TypeOK

LEMMA DeleteSeenStep ==
    ASSUME RolesInv, NEW r \in Requests, DeleteSeen(r)
    PROVE  RolesInv'
  <1> DEFINE call == [req[r] EXCEPT !.pc = "insert", !.gone = req[r].seen]
  <1>1. req[r] \in Replacement /\ req[r].pc = "wait"
    BY CallKinds DEF RolesInv, DeleteSeen, At
  <1>2. /\ req[r].news = {} /\ req[r].left = req[r].ids
        /\ RolesOf(req[r].user) \subseteq req[r].seen \cup added[r]
    BY <1>1 DEF RolesInv, Sound, At
  <1>3. /\ call \in Replacement /\ call.pc = "insert" /\ call.news = {}
        /\ call.user = req[r].user /\ call.ids = req[r].ids
        /\ call.left = req[r].ids /\ call.gone = req[r].seen
    BY <1>1, <1>2 DEF Replacement
  <1>4. call \in AnyCall
    BY <1>3 DEF AnyCall
  <1>5. req' = [req EXCEPT ![r] = call] /\ UNCHANGED <<tables, drawn, history>>
    BY DEF DeleteSeen, RolesInv, TypeOK
  <1> HIDE DEF call
  <1>6. /\ \A q \in Requests : req'[q] = IF q = r THEN call ELSE req[q]
        /\ req' \in [Requests -> AnyCall]
    BY <1>4, <1>5 DEF RolesInv, TypeOK
  <1>7. Sound(r)'
    BY <1>2, <1>3, <1>5, <1>6 DEF Sound, Replacing, At, RolesOf, tables, history
  <1> QED
    BY <1>4, <1>5, <1>6, <1>7, CallStep DEF tables, history, RolesInv, TypeOK

(* The row inserted refers to what is there, and answers for its role.      *)
LEMMA InsertOneStep ==
    ASSUME RolesInv, NEW r \in Requests, NEW i \in RoleIds, InsertOne(r, i)
    PROVE  RolesInv'
  <1> DEFINE u == req[r].user
             pair == <<u, i>>
             new == IF Sees(r, pair) THEN req[r].news ELSE req[r].news \cup {pair}
             call == [req[r] EXCEPT !.left = @ \ {i}, !.news = new]
  <1>1. req[r] \in Replacement /\ req[r].pc = "insert" /\ i \in req[r].left
    BY CallKinds DEF RolesInv, InsertOne, At
  <1>2. /\ req[r].left \subseteq req[r].ids
        /\ req[r].news \subseteq {u} \X req[r].ids
        /\ \A p \in req[r].news : p[1] \in present /\ Exists(p[2])
        /\ RolesOf(u) \ req[r].gone \subseteq added[r]
        /\ {u} \X (req[r].ids \ req[r].left) \subseteq
              req[r].news \cup (RolesOf(u) \ req[r].gone)
                          \cup (added[r] \cap removed[r])
    BY <1>1 DEF RolesInv, Sound, At
  <1>3. new \subseteq Pairs
    BY <1>1 DEF Replacement, Pairs
  <1>4. /\ call \in Replacement /\ call.pc = "insert" /\ call.news = new
        /\ call.user = u /\ call.ids = req[r].ids
        /\ call.left = req[r].left \ {i} /\ call.gone = req[r].gone
    BY <1>1, <1>3 DEF Replacement
  <1>5. call \in AnyCall
    BY <1>4 DEF AnyCall
  <1>6. req' = [req EXCEPT ![r] = call] /\ UNCHANGED <<tables, drawn, history>>
    BY DEF InsertOne, RolesInv, TypeOK
  <1>7. new \subseteq {u} \X req[r].ids
    BY <1>1, <1>2
  <1>8. \A p \in new : p[1] \in present /\ Exists(p[2])
    BY <1>2 DEF InsertOne
  <1>9. {u} \X (req[r].ids \ (req[r].left \ {i})) \subseteq
            new \cup (RolesOf(u) \ req[r].gone) \cup (added[r] \cap removed[r])
    <2>1. pair \in new \cup (RolesOf(u) \ req[r].gone)
      BY DEF Sees, RolesOf
    <2> QED
      BY <1>2, <2>1
  <1> HIDE DEF call, new, pair
  <1>10. /\ \A q \in Requests : req'[q] = IF q = r THEN call ELSE req[q]
         /\ req' \in [Requests -> AnyCall]
    BY <1>5, <1>6 DEF RolesInv, TypeOK
  <1>11. Sound(r)'
    BY <1>2, <1>4, <1>6, <1>7, <1>8, <1>9, <1>10
       DEF Sound, Replacing, At, RolesOf, tables, history, Exists
  <1> QED
    BY <1>5, <1>6, <1>10, <1>11, CallStep DEF tables, history, RolesInv, TypeOK

LEMMA FailStep ==
    ASSUME RolesInv, NEW r \in Requests, Fail(r)
    PROVE  RolesInv'
  <1>1. Idle \in AnyCall /\ Idle.pc = "idle"
    BY DEF AnyCall, Idle
  <1>2. /\ \A q \in Requests : req'[q] = IF q = r THEN Idle ELSE req[q]
        /\ req' \in [Requests -> AnyCall]
    BY <1>1 DEF Fail, Finish, Become, RolesInv, TypeOK
  <1>3. /\ added' \in [Requests -> SUBSET Pairs]
        /\ removed' \in [Requests -> SUBSET Pairs]
    BY DEF Fail, Note, RolesInv, TypeOK
  <1>4. \A q \in Requests \ {r} : added'[q] = added[q] /\ removed'[q] = removed[q]
    BY <1>2 DEF Fail, Note, RolesInv, Sound, Replacing
  <1>5. Sound(r)'
    BY <1>1, <1>2 DEF Fail, Note, Sound, Replacing, At
  <1> QED
    BY <1>1, <1>2, <1>3, <1>4, <1>5, CallStep DEF Fail, tables, RolesInv, TypeOK

-----------------------------------------------------------------------------
(* Assignments come and go.                                                 *)
LEMMA ForgetType ==
    ASSUME TypeOK, NEW P
    PROVE  /\ Forget(P, req) \in [Requests -> AnyCall]
           /\ \A r \in Requests :
                 [Forget(P, req) EXCEPT ![r] = Idle] \in [Requests -> AnyCall]
  <1>1. \A q \in Requests : Forget(P, req)[q] \in AnyCall
    BY ForgetKeeps
  <1>2. Forget(P, req) = [q \in Requests |-> Forget(P, req)[q]]
    BY DEF Forget
  <1>3. Idle \in AnyCall
    BY DEF AnyCall
  <1>4. Forget(P, req) \in [Requests -> AnyCall]
    BY <1>1, <1>2
  <1> QED
    BY <1>3, <1>4

LEMMA HeldStep ==
    ASSUME RolesInv, NEW P, NEW In \in SUBSET Pairs, NEW Out \in SUBSET Pairs,
           req' \in [Requests -> AnyCall],
           \A q \in Requests : \/ req'[q] = req[q] \/ req'[q] = Idle
                               \/ req'[q] = Forget(P, req)[q],
           present' \subseteq Users, name' \in [RoleIds -> Names \cup {NoName}],
           held' \subseteq Pairs, drawn' = drawn, AssignmentsLive',
           held' \subseteq held \cup In, held \subseteq held' \cup Out,
           P \cap held' \subseteq In, Note(In, Out),
           \A q \in Requests : At(q, "insert") =>
               \A p \in req[q].news : p[1] \in present' /\ name'[p[2]] # NoName
    PROVE  RolesInv'
  <1>1. TypeOK'
    BY DEF RolesInv, TypeOK, Note
  <1>2. ASSUME NEW q \in Requests PROVE Sound(q)'
    <2>1. CASE req'[q] = Idle
      BY <2>1 DEF Idle, Sound, Replacing, Note, At
    <2>2. CASE req'[q] = req[q] \/ req'[q] = Forget(P, req)[q]
      <3>1. req'[q].pc = req[q].pc
        BY <2>2, ForgetKeeps DEF RolesInv
      <3>2. /\ added'[q] = IF Replacing(q) THEN added[q] \cup In ELSE {}
            /\ removed'[q] = IF Replacing(q) THEN removed[q] \cup Out ELSE {}
        BY <3>1 DEF Note, Replacing
      <3> QED
        BY <2>2, <3>2, SoundKeeps
    <2> QED
      BY <2>1, <2>2
  <1> QED
    BY <1>1, <1>2 DEF RolesInv

(* What the open transactions have inserted, as the invariant has it.       *)
LEMMA NewsLive ==
    ASSUME RolesInv, NEW q \in Requests, At(q, "insert")
    PROVE  /\ req[q].news \subseteq Pairs /\ req[q].gone \subseteq Pairs
           /\ \A p \in req[q].news : p[1] \in present /\ name[p[2]] # NoName
  BY CallKinds DEF RolesInv, Sound, Exists, Replacement, At

LEMMA AssignInsertStep ==
    ASSUME RolesInv, NEW r \in Requests, AssignInsert(r)
    PROVE  RolesInv'
  <1> DEFINE pair == <<req[r].user, req[r].id>>
             In == {pair} \ held
  <1>1. req[r] \in Insertion
    BY CallKinds DEF RolesInv, AssignInsert
  <1>2. pair \in Pairs
    BY <1>1 DEF Insertion, Pairs
  <1>3. /\ held' = held \cup {pair} /\ UNCHANGED <<present, name, drawn>>
        /\ Note(In, {})
        /\ req[r].user \in present /\ Exists(req[r].id)
    BY DEF AssignInsert
  <1>4. /\ req' \in [Requests -> AnyCall]
        /\ \A q \in Requests : req'[q] = req[q] \/ req'[q] = Idle
    BY DEF AssignInsert, Finish, Become, RolesInv, TypeOK, AnyCall
  <1>5. AssignmentsLive'
    BY <1>3 DEF AssignmentsLive, RolesInv, Exists
  <1>6. held' \subseteq Pairs /\ held' \subseteq held \cup In
    BY <1>2, <1>3 DEF RolesInv, TypeOK
  <1>7. In \in SUBSET Pairs
    BY <1>2
  <1> HIDE DEF In, pair
  <1>8. \A q \in Requests : At(q, "insert") =>
            \A p \in req[q].news : p[1] \in present' /\ name'[p[2]] # NoName
    BY <1>3, NewsLive
  <1> QED
    BY <1>3, <1>4, <1>5, <1>6, <1>7, <1>8, HeldStep DEF RolesInv, TypeOK

LEMMA RemoveFromUserStep ==
    ASSUME RolesInv, NEW r \in Requests, RemoveFromUser(r)
    PROVE  RolesInv'
  <1>1. PICK P : P = req[r].seen
    OBVIOUS
  <1>2. P \subseteq Pairs
    BY <1>1, CallKinds DEF RolesInv, RemoveFromUser, Deletion, At
  <1>3. /\ held' = held \ P /\ UNCHANGED <<present, name, drawn>>
        /\ req' = [Forget(P, req) EXCEPT ![r] = Idle] /\ Note({}, P)
    BY <1>1 DEF RemoveFromUser
  <1>4. req' \in [Requests -> AnyCall]
    BY <1>3, ForgetType DEF RolesInv
  <1>5. \A q \in Requests : req'[q] = Idle \/ req'[q] = Forget(P, req)[q]
    BY <1>3 DEF Forget
  <1>6. AssignmentsLive' /\ held' \subseteq Pairs
    BY <1>3 DEF AssignmentsLive, RolesInv, Exists, TypeOK
  <1>7. \A q \in Requests : At(q, "insert") =>
            \A p \in req[q].news : p[1] \in present' /\ name'[p[2]] # NoName
    BY <1>3, NewsLive
  <1> QED
    BY <1>2, <1>3, <1>4, <1>5, <1>6, <1>7, HeldStep DEF RolesInv, TypeOK

(* A cascade: nothing an open transaction inserted is among the rows it     *)
(* takes.                                                                   *)
LEMMA CascadeStep ==
    ASSUME RolesInv, NEW P \in SUBSET Pairs, Cascade(P),
           present' \subseteq Users, name' \in [RoleIds -> Names \cup {NoName}],
           drawn' = drawn,
           \A p \in Pairs \ P : p[1] \in present /\ name[p[2]] # NoName =>
                                p[1] \in present' /\ name'[p[2]] # NoName
    PROVE  RolesInv'
  <1>1. /\ held' = held \ P /\ req' = Forget(P, req) /\ Note({}, P \cap held)
        /\ \A q \in Requests : ~ Holds(q, P)
    BY DEF Cascade
  <1>2. req' \in [Requests -> AnyCall]
    BY <1>1, ForgetType DEF RolesInv
  <1>3. AssignmentsLive' /\ held' \subseteq Pairs
    BY <1>1 DEF AssignmentsLive, RolesInv, Exists, TypeOK
  <1>4. ASSUME NEW q \in Requests, At(q, "insert"), NEW p \in req[q].news
        PROVE  p[1] \in present' /\ name'[p[2]] # NoName
    <2>1. p \notin P
      BY <1>1, <1>4 DEF Holds, InTx
    <2> QED
      BY <1>4, <2>1, NewsLive
  <1> QED
    BY <1>1, <1>2, <1>3, <1>4, HeldStep

LEMMA DeletionStep ==
    ASSUME RolesInv,
           \/ \E i \in RoleIds : DeleteRole(i)
           \/ \E u \in Users : DeleteUser(u)
    PROVE  RolesInv'
  <1>1. ASSUME NEW i \in RoleIds, DeleteRole(i) PROVE RolesInv'
    <2>1. Users \X {i} \in SUBSET Pairs
      BY DEF Pairs
    <2>2. /\ name' \in [RoleIds -> Names \cup {NoName}]
          /\ \A j \in RoleIds \ {i} : name'[j] = name[j]
          /\ UNCHANGED <<present, drawn>> /\ Cascade(Users \X {i})
      BY <1>1 DEF DeleteRole, RolesInv, TypeOK
    <2>3. \A p \in Pairs \ (Users \X {i}) :
              p[1] \in present /\ name[p[2]] # NoName =>
              p[1] \in present' /\ name'[p[2]] # NoName
      BY <2>2 DEF Pairs
    <2> QED
      BY <2>1, <2>2, <2>3, CascadeStep DEF RolesInv, TypeOK
  <1>2. ASSUME NEW u \in Users, DeleteUser(u) PROVE RolesInv'
    <2>1. {u} \X RoleIds \in SUBSET Pairs
      BY DEF Pairs
    <2>2. /\ present' = present \ {u} /\ UNCHANGED <<name, drawn>>
          /\ Cascade({u} \X RoleIds)
      BY <1>2 DEF DeleteUser
    <2>3. \A p \in Pairs \ ({u} \X RoleIds) :
              p[1] \in present /\ name[p[2]] # NoName =>
              p[1] \in present' /\ name'[p[2]] # NoName
      BY <2>2 DEF Pairs
    <2> QED
      BY <2>1, <2>2, <2>3, CascadeStep DEF RolesInv, TypeOK
  <1> QED
    BY <1>1, <1>2

LEMMA CommitStep ==
    ASSUME RolesInv, NEW r \in Requests, Commit(r)
    PROVE  RolesInv'
  <1>1. PICK gone, news : gone = req[r].gone /\ news = req[r].news
    OBVIOUS
  <1>2. /\ news \subseteq Pairs /\ gone \subseteq Pairs
        /\ \A p \in news : p[1] \in present /\ name[p[2]] # NoName
    BY <1>1, NewsLive DEF Commit
  <1>3. /\ held' = (held \ gone) \cup news /\ UNCHANGED <<present, name, drawn>>
        /\ req' = [Forget(gone, req) EXCEPT ![r] = Idle] /\ Note(news, gone)
    BY <1>1 DEF Commit
  <1>4. req' \in [Requests -> AnyCall]
    BY <1>3, ForgetType DEF RolesInv
  <1>5. \A q \in Requests : req'[q] = Idle \/ req'[q] = Forget(gone, req)[q]
    BY <1>3 DEF Forget
  <1>6. AssignmentsLive' /\ held' \subseteq Pairs
    BY <1>2, <1>3 DEF AssignmentsLive, RolesInv, Exists, TypeOK
  <1>7. \A q \in Requests : At(q, "insert") =>
            \A p \in req[q].news : p[1] \in present' /\ name'[p[2]] # NoName
    BY <1>3, NewsLive
  <1>8. /\ held' \subseteq held \cup news /\ held \subseteq held' \cup gone
        /\ gone \cap held' \subseteq news
    BY <1>3
  <1> QED
    BY <1>2, <1>3, <1>4, <1>5, <1>6, <1>7, <1>8, HeldStep DEF RolesInv, TypeOK

-----------------------------------------------------------------------------
LEMMA StutterStep ==
    ASSUME RolesInv, UNCHANGED vars PROVE RolesInv'
  BY DEF RolesInv, TypeOK, AssignmentsLive, Exists, Sound, RolesOf, Replacing,
         At, vars, tables, history

LEMMA NextInv == RolesInv /\ [Next]_vars => RolesInv'
  <1> SUFFICES ASSUME RolesInv, [Next]_vars PROVE RolesInv'
    OBVIOUS
  <1>1. ASSUME NEW r \in Requests, NEW n \in Names, NEW i \in RoleIds,
               NEW u \in Users,
               \/ BeginCreate(r, n) \/ CreateCheck(r) \/ CreateInsert(r, i)
               \/ BeginRename(r, i, n) \/ RenameById(r) \/ RenameByName(r)
               \/ RenameWrite(r)
               \/ BeginAssign(r, u, n) \/ AssignEnsure(r, i) \/ AssignInsert(r)
               \/ BeginRemove(r, u, n) \/ RemoveLookup(r) \/ RemoveStart(r)
               \/ RemoveFromUser(r)
               \/ \E N \in SUBSET Names : BeginReplace(r, u, N)
               \/ EnsureNext(r, n, i) \/ StartDelete(r) \/ DeleteSeen(r)
               \/ InsertOne(r, i) \/ Commit(r) \/ Fail(r)
        PROVE  RolesInv'
    BY <1>1, BeginStep, LookStep, CreateInsertStep, RenameWriteStep,
       AssignEnsureStep, AssignInsertStep, RemoveLookupStep, RemoveStartStep,
       RemoveFromUserStep, EnsureNextStep, StartDeleteStep, DeleteSeenStep,
       InsertOneStep, CommitStep, FailStep
  <1>2. CASE UNCHANGED vars
    BY <1>2, StutterStep
  <1> QED
    BY <1>1, <1>2, DeletionStep DEF Next

(* RolesInv holds in every reachable state of Roles (roles_repo.go, the role*)
(* methods of idm/idm.go).                                                  *)
THEOREM InvariantHolds == Spec => []RolesInv
  BY InitInv, NextInv, PTL DEF Spec

(* Tables, calls and history keep their type through every role method.     *)
THEOREM TypeCorrect == Spec => []TypeOK
  <1>1. RolesInv => TypeOK
    BY DEF RolesInv
  <1> QED
    BY <1>1, InvariantHolds, PTL

(* No assignment outlives its user or its role, however replacements and    *)
(* deletions interleave (SetUserRoles, DeleteRole, the keys of user_roles). *)
THEOREM AssignmentsLiveHolds == Spec => []AssignmentsLive
  <1>1. RolesInv => AssignmentsLive
    BY DEF RolesInv
  <1> QED
    BY <1>1, InvariantHolds, PTL

(* What a COMMIT leaves, by the invariant of the call that commits.         *)
LEMMA CommitOffOnlyByRace ==
    ASSUME RolesInv, NEW r \in Requests, Commit(r)
    PROVE  LET asked == {req[r].user} \X req[r].ids
               got == {p \in held' : p[1] = req[r].user} IN
           /\ got \ asked \subseteq added[r]
           /\ asked \ got \subseteq added[r] \cap removed[r]
  <1>1. PICK u, ids, gone, news :
           /\ u = req[r].user /\ ids = req[r].ids
           /\ gone = req[r].gone /\ news = req[r].news
    OBVIOUS
  <1>2. req[r].left = {} /\ held' = (held \ gone) \cup news
    BY <1>1 DEF Commit
  <1>3. /\ news \subseteq {u} \X ids
        /\ RolesOf(u) \ gone \subseteq added[r]
        /\ {u} \X ids \subseteq news \cup (RolesOf(u) \ gone)
                                     \cup (added[r] \cap removed[r])
    BY <1>1, <1>2 DEF RolesInv, Sound, Commit
  <1>4. {p \in held' : p[1] = u} = (RolesOf(u) \ gone) \cup news
    BY <1>2, <1>3 DEF RolesOf
  <1> QED
    BY <1>1, <1>3, <1>4

(* SetUserRoles leaves exactly the roles it was asked for, but for what     *)
(* others added or took away since its DELETE began.                        *)
THEOREM ReplacementHolds == Spec => ReplacementOffOnlyByRace
  <1>1. RolesInv /\ [Next]_vars =>
           [\A r \in Requests : Commit(r) =>
               LET asked == {req[r].user} \X req[r].ids
                   got == {p \in held' : p[1] = req[r].user} IN
               /\ got \ asked \subseteq added[r]
               /\ asked \ got \subseteq added[r] \cap removed[r]]_vars
    BY CommitOffOnlyByRace
  <1> QED
    BY <1>1, InvariantHolds, PTL DEF Spec, ReplacementOffOnlyByRace
=============================================================================
