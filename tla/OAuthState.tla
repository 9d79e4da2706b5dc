---------------------------- MODULE OAuthState -----------------------------
(* The state of a Google sign-in between Start and Callback                 *)
(* (google/handler.go). A replica without a signing key keeps it in its     *)
(* StateStore, a map behind a lock that a goroutine sweeps; a replica with  *)
(* one signs it into a cookie of the browser. Callbacks arrive at any       *)
(* replica, may be repeated and overlap, and replicas restart.              *)
EXTENDS Integers, FiniteSets

CONSTANTS Servers,
          Signing,     \* the replicas configured with the signing key
          States,      \* the random state values, one browser each
          Callbacks,   \* concurrent callback requests
          Lifetime,    \* how long a state is good for
          MaxVisits,   \* bound: callbacks per state
          MaxNow       \* bound: the clock stops here

ASSUME SigningAssumption == Signing \subseteq Servers
ASSUME LifetimeAssumption == Lifetime \in Nat \ {0}
ASSUME BoundsAssumption == MaxVisits \in Nat /\ MaxNow \in Nat

VARIABLES now,
          store,     \* of each replica, the expiry of the states it keeps
          cookie,    \* the expiry in the browser's cookie for a state
          req,       \* the callbacks in flight
          visits,    \* callbacks begun for each state
          piped,     \* the states whose redirect URI has a '|' in it
          home,      \* history: the replica that started a state
          expiry,    \* history: when it expires
          taken,     \* history: states some callback deleted from the store
          lost,      \* history: states a restart lost
          answered,  \* history: states answered by a signing replica
          overlap,   \* history: two callbacks were between Get and Delete
          logins,    \* history: sign-ins completed with each state
          refused    \* history: where a state was not found before it expired

history == <<home, expiry, taken, lost, answered, overlap, logins, refused>>
vars == <<now, store, cookie, req, visits, piped, history>>

None == -1
Nobody == "no replica"
ASSUME NobodyAssumption == Nobody \notin Servers
Idle == [pc |-> "idle"]
(* cookie is what the browser sent along; until the expiry that was found.  *)
Callback == [pc : {"lookup", "delete", "check", "exchange"}, server : Servers,
             state : States, cookie : Nat \cup {None}, began : Nat,
             until : Nat \cup {None}]

TypeOK ==
    /\ now \in Nat
    /\ store \in [Servers -> [States -> Nat \cup {None}]]
    /\ cookie \in [States -> Nat \cup {None}]
    /\ req \in [Callbacks -> Callback \cup {Idle}]
    /\ visits \in [States -> Nat]
    /\ piped \subseteq States
    /\ home \in [States -> Servers \cup {Nobody}]
    /\ expiry \in [States -> Nat]
    /\ taken \subseteq States /\ lost \subseteq States
    /\ answered \subseteq States /\ overlap \subseteq States
    /\ logins \in [States -> Nat]
    /\ refused \subseteq States \X Servers

Init ==
    /\ now = 0
    /\ store = [v \in Servers |-> [t \in States |-> None]]
    /\ cookie = [t \in States |-> None]
    /\ req = [r \in Callbacks |-> Idle]
    /\ visits = [t \in States |-> 0]
    /\ piped = {}
    /\ home = [t \in States |-> Nobody]
    /\ expiry = [t \in States |-> 0]
    /\ taken = {} /\ lost = {} /\ answered = {} /\ overlap = {}
    /\ logins = [t \in States |-> 0]
    /\ refused = {}

At(r, label) == req[r].pc = label
Goto(r, label) == req' = [req EXCEPT ![r].pc = label]
Finish(r) == req' = [req EXCEPT ![r] = Idle]

Kept(v, t) == store[v][t] # None
Expired(until) == now > until

-----------------------------------------------------------------------------
(* Variant: the lifetime is taken off the clock.                            *)
NewExpiryBackdated == now - Lifetime

NewExpiry == now + Lifetime

(* Start: a fresh random state, in the cookie or in the store. The bound on *)
(* the clock leaves every state time to expire.                             *)
Start(v, t) ==
    /\ home[t] = Nobody
    /\ now + Lifetime < MaxNow
    /\ piped' \in {piped, piped \cup {t}}
    /\ home' = [home EXCEPT ![t] = v]
    /\ expiry' = [expiry EXCEPT ![t] = NewExpiry]
    /\ IF v \in Signing
       THEN cookie' = [cookie EXCEPT ![t] = NewExpiry] /\ UNCHANGED store
       ELSE store' = [store EXCEPT ![v][t] = NewExpiry] /\ UNCHANGED cookie
    /\ UNCHANGED <<now, req, visits, taken, lost, answered, overlap, logins,
                   refused>>

(* Google sends the browser back, to whichever replica; the browser adds    *)
(* the cookie while it has it.                                              *)
BeginCallback(r, v, t) ==
    /\ At(r, "idle")
    /\ home[t] # Nobody
    /\ visits[t] < MaxVisits
    /\ visits' = [visits EXCEPT ![t] = @ + 1]
    /\ req' = [req EXCEPT ![r] =
                  [pc |-> "lookup", server |-> v, state |-> t,
                   cookie |-> cookie[t], began |-> now, until |-> None]]
    /\ UNCHANGED <<now, store, cookie, piped, history>>

(* The answer of a signing replica clears the cookie, if it arrives.        *)
Answer(r) ==
    LET t == req[r].state IN
    /\ Finish(r)
    /\ IF req[r].server \in Signing
       THEN /\ answered' = answered \cup {t}
            /\ cookie' \in {cookie, [cookie EXCEPT ![t] = None]}
       ELSE UNCHANGED <<answered, cookie>>

(* The cookie is cut at the first three '|', so that one in the redirect    *)
(* URI moves the signature and the cookie does not verify.                  *)
Readable(r) ==
    /\ req[r].server \in Signing
    /\ req[r].cookie # None
    /\ req[r].state \notin piped

(* The cookie, then the store of this replica, or nothing.                  *)
Lookup(r) ==
    LET v == req[r].server
        t == req[r].state
    IN
    /\ At(r, "lookup")
    /\ \/ /\ Readable(r)
          /\ req' = [req EXCEPT ![r].pc = "check", ![r].until = req[r].cookie]
          /\ UNCHANGED <<cookie, answered, overlap, refused>>
       \/ /\ ~ Readable(r)
          /\ Kept(v, t)
          /\ req' = [req EXCEPT ![r].pc = "delete", ![r].until = store[v][t]]
          /\ overlap' = overlap \cup {x \in {t} : \E q \in Callbacks :
                                           At(q, "delete") /\ req[q].state = x}
          /\ UNCHANGED <<cookie, answered, refused>>
       \/ /\ ~ Readable(r)
          /\ ~ Kept(v, t)
          /\ Answer(r)
          /\ refused' = IF req[r].began <= expiry[t] /\ ~ Expired(expiry[t])
                        THEN refused \cup {<<t, v>>} ELSE refused
          /\ UNCHANGED overlap
    /\ UNCHANGED <<now, store, visits, piped, home, expiry, taken, lost,
                   logins>>

(* Variant: the state stays in the store.                                   *)
DeleteStateNot(r) ==
    /\ At(r, "delete")
    /\ Goto(r, "check")
    /\ UNCHANGED <<now, store, cookie, visits, piped, history>>

(* StateStore.Delete, under a lock of its own.                              *)
DeleteState(r) ==
    /\ At(r, "delete")
    /\ store' = [store EXCEPT ![req[r].server][req[r].state] = None]
    /\ taken' = taken \cup {req[r].state}
    /\ Goto(r, "check")
    /\ UNCHANGED <<now, cookie, visits, piped, home, expiry, lost, answered,
                   overlap, logins, refused>>

(* Variant: a signature that verifies is good for ever.                     *)
CheckExpiryOfStoreOnly(r) ==
    /\ At(r, "check")
    /\ IF Expired(req[r].until) /\ req[r].server \notin Signing
       THEN Answer(r)
       ELSE Goto(r, "exchange") /\ UNCHANGED <<answered, cookie>>
    /\ UNCHANGED <<now, store, visits, piped, home, expiry, taken, lost,
                   overlap, logins, refused>>

CheckExpiry(r) ==
    /\ At(r, "check")
    /\ IF Expired(req[r].until)
       THEN Answer(r)
       ELSE Goto(r, "exchange") /\ UNCHANGED <<answered, cookie>>
    /\ UNCHANGED <<now, store, visits, piped, home, expiry, taken, lost,
                   overlap, logins, refused>>

(* ExchangeCode, ValidateIDToken, Authenticate and IssueSession succeed, or *)
(* one of them fails; either way the callback is answered.                  *)
Complete(r) ==
    LET t == req[r].state IN
    /\ At(r, "exchange")
    /\ Answer(r)
    /\ logins' \in {logins, [logins EXCEPT ![t] = @ + 1]}
    /\ UNCHANGED <<now, store, visits, piped, home, expiry, taken, lost,
                   overlap, refused>>

(* The browser drops a cookie that reached its age.                         *)
DropCookie(t) ==
    /\ cookie[t] # None /\ Expired(cookie[t])
    /\ cookie' = [cookie EXCEPT ![t] = None]
    /\ UNCHANGED <<now, store, req, visits, piped, history>>

(* A replica restarts: its store and its requests are gone.                 *)
Restart(v) ==
    /\ store' = [store EXCEPT ![v] = [t \in States |-> None]]
    /\ lost' = lost \cup {t \in States : Kept(v, t)}
    /\ req' = [r \in Callbacks |->
                  IF ~ At(r, "idle") /\ req[r].server = v THEN Idle ELSE req[r]]
    /\ store' # store \/ req' # req
    /\ UNCHANGED <<now, cookie, visits, piped, home, expiry, taken, answered,
                   overlap, logins, refused>>

(* Variant: the sweep removes what has not expired.                         *)
CleanupTheOthers(v) ==
    /\ \E t \in States : Kept(v, t) /\ ~ Expired(store[v][t])
    /\ store' = [store EXCEPT ![v] = [t \in States |->
                    IF Expired(store[v][t]) THEN store[v][t] ELSE None]]
    /\ UNCHANGED <<now, cookie, req, visits, piped, history>>

(* One pass of the sweeping goroutine, under the lock throughout.           *)
Cleanup(v) ==
    /\ \E t \in States : Kept(v, t) /\ Expired(store[v][t])
    /\ store' = [store EXCEPT ![v] = [t \in States |->
                    IF Expired(store[v][t]) THEN None ELSE store[v][t]]]
    /\ UNCHANGED <<now, cookie, req, visits, piped, history>>

Tick ==
    /\ now < MaxNow
    /\ now' = now + 1
    /\ UNCHANGED <<store, cookie, req, visits, piped, history>>

Step(r) ==
    \/ \E v \in Servers, t \in States : BeginCallback(r, v, t)
    \/ Lookup(r) \/ DeleteState(r) \/ CheckExpiry(r) \/ Complete(r)

Next ==
    \/ \E v \in Servers, t \in States : Start(v, t)
    \/ \E r \in Callbacks : Step(r)
    \/ \E t \in States : DropCookie(t)
    \/ \E v \in Servers : Restart(v) \/ Cleanup(v)
    \/ Tick

(* Time passes, and the ticker keeps waking the sweeping goroutine, which   *)
(* competes only with short critical sections for the lock.                 *)
Fairness == WF_vars(Tick) /\ \A v \in Servers : WF_vars(Cleanup(v))

Spec == Init /\ [][Next]_vars /\ Fairness

-----------------------------------------------------------------------------
(* Get and Delete are two critical sections, yet a state kept in memory     *)
(* carries at most one sign-in, completed or still possible, unless two     *)
(* callbacks for it were between Get and Delete at the same time.           *)
Carrying(t) == {r \in Callbacks : req[r].pc \in {"delete", "check", "exchange"}
                                  /\ req[r].state = t}
MemoryStateSpentOnce ==
    \A t \in States :
        home[t] \in Servers \ Signing /\ t \notin overlap
        => logins[t] + Cardinality(Carrying(t)) <= 1

(* A sign-in that is about to be exchanged began before its state expired,  *)
(* wherever the state was kept, and however old the cookie or the map entry *)
(* it was found in.                                                         *)
NoLateSignIn ==
    \A r \in Callbacks :
        At(r, "exchange") => req[r].began <= expiry[req[r].state]

(* "possible pod restart or multi-replica issue" (google/handler.go:309): a *)
(* callback that finds no state although it has not expired is explained by *)
(* these, by an earlier callback, or by a '|' in the redirect URI, and by   *)
(* nothing else; a state in a cookie that can be read is lost neither by a  *)
(* restart nor between signing replicas.                                    *)
RefusalExplained ==
    \A t \in States, v \in Servers : <<t, v>> \in refused =>
        IF home[t] \in Signing
        THEN v \notin Signing \/ t \in answered \/ t \in piped
        ELSE v # home[t] \/ t \in lost \/ t \in taken

(* An entry of the store is gone eventually: a sign-in that nobody finishes *)
(* does not stay in memory.                                                 *)
AbandonedStatesLeave ==
    \A v \in Servers, t \in States : Kept(v, t) ~> ~ Kept(v, t)

(* The inductive strengthening. Of a state that was not started there is no *)
(* trace; one that was is in its cookie or its store, with its expiry,      *)
(* until it expired or something took it away.                              *)
EntryInv(t) ==
    /\ home[t] = Nobody => /\ logins[t] = 0
                           /\ \A v \in Servers : <<t, v>> \notin refused
                           /\ \A r \in Callbacks : At(r, "idle") \/ req[r].state # t
    /\ cookie[t] # None => home[t] \in Signing /\ cookie[t] = expiry[t]
    /\ \A v \in Servers : Kept(v, t) => v = home[t] /\ store[v][t] = expiry[t]
    /\ home[t] \in Signing =>
          cookie[t] # None \/ t \in answered \/ Expired(expiry[t])
    /\ home[t] \in Servers \ Signing =>
          Kept(home[t], t) \/ t \in taken \cup lost \/ Expired(expiry[t])

(* Of one callback: what it brought and found is the state's expiry, a      *)
(* missing cookie has a reason, and one that took the state from a store is *)
(* at the replica that started it.                                          *)
Sound(r) ==
    LET t == req[r].state IN
    /\ ~ At(r, "idle") => req[r].began <= now
    /\ ~ At(r, "idle") /\ req[r].cookie # None =>
          home[t] \in Signing /\ req[r].cookie = expiry[t]
    /\ At(r, "lookup") /\ home[t] \in Signing /\ req[r].cookie = None =>
          t \in answered \/ req[r].began > expiry[t]
    /\ At(r, "delete") => req[r].server = home[t]
    /\ req[r].pc \in {"delete", "check"} => req[r].until = expiry[t]
    /\ At(r, "exchange") => req[r].began <= expiry[t]

(* While a state is in a store, nothing has been made of it: whoever        *)
(* carries it has yet to delete it.                                         *)
SpentOnce(t) ==
    home[t] \in Servers \ Signing /\ t \notin overlap =>
        /\ logins[t] <= 1
        /\ logins[t] = 1 => Carrying(t) = {}
        /\ \A q, r \in Carrying(t) : q = r
        /\ Kept(home[t], t) =>
              logins[t] = 0 /\ \A r \in Carrying(t) : At(r, "delete")

StateInv ==
    /\ TypeOK
    /\ RefusalExplained
    /\ \A t \in States : EntryInv(t) /\ SpentOnce(t)
    /\ \A r \in Callbacks : Sound(r)
============================================================================
