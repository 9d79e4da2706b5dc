-------------------------- MODULE OAuthStateProofs --------------------------
(* The state of a Google sign-in for any number of replicas, states and     *)
(* callbacks: the inductive invariant and the three properties it gives.    *)
EXTENDS OAuthState, FiniteSetTheorems, TLAPS

LEMMA CallbackKinds ==
    ASSUME TypeOK, NEW r \in Callbacks
    PROVE  /\ req[r] = Idle \/ req[r] \in Callback
           /\ At(r, "idle") <=> req[r] = Idle
           /\ req[r].pc \in {"idle", "lookup", "delete", "check", "exchange"}
           /\ ~ At(r, "idle") =>
                 /\ req[r].state \in States /\ req[r].server \in Servers
                 /\ req[r].cookie \in Nat \cup {None}
                 /\ req[r].until \in Nat \cup {None} /\ req[r].began \in Nat
  BY DEF TypeOK, Callback, Idle, At

(* A callback is for a state that was started.                              *)
LEMMA CallbackStarted ==
    ASSUME StateInv, NEW r \in Callbacks, ~ At(r, "idle")
    PROVE  req[r].state \in States /\ home[req[r].state] \in Servers
  <1>1. req[r].state \in States
    BY CallbackKinds DEF StateInv
  <1> QED
    BY <1>1 DEF StateInv, EntryInv, TypeOK

LEMMA InitInv == Init => StateInv
  <1> SUFFICES ASSUME Init PROVE StateInv
    OBVIOUS
  <1>1. TypeOK /\ RefusalExplained
    BY DEF Init, TypeOK, RefusalExplained
  <1>2. \A r \in Callbacks : Sound(r)
    BY DEF Init, Sound, At, Idle
  <1>3. \A t \in States : EntryInv(t) /\ SpentOnce(t)
    BY NobodyAssumption, SigningAssumption
    DEF Init, EntryInv, SpentOnce, Carrying, At, Idle, Kept
  <1> QED
    BY <1>1, <1>2, <1>3 DEF StateInv

-----------------------------------------------------------------------------
(* What a step may do without disturbing a part of the invariant: time      *)
(* passes, history grows, and a state once started keeps its home.          *)
Onward ==
    /\ TypeOK' /\ now <= now'
    /\ answered \subseteq answered' /\ taken \subseteq taken'
    /\ lost \subseteq lost' /\ overlap \subseteq overlap'
    /\ piped \subseteq piped'
    /\ \A t \in States : home[t] # Nobody =>
          home'[t] = home[t] /\ expiry'[t] = expiry[t]

LEMMA OthersSound ==
    ASSUME StateInv, Onward, NEW r \in Callbacks,
           req'[r] = req[r] \/ req'[r] = Idle
    PROVE  Sound(r)'
  <1>1. CASE At(r, "idle") \/ req'[r] = Idle
    BY <1>1, CallbackKinds DEF StateInv, Sound, At, Idle
  <1>2. CASE ~ At(r, "idle") /\ req'[r] = req[r]
    <2>1. /\ req[r].state \in States /\ home[req[r].state] # Nobody
          /\ req[r].began \in Nat
      BY <1>2, CallbackStarted, CallbackKinds, NobodyAssumption DEF StateInv
    <2>2. /\ home'[req[r].state] = home[req[r].state]
          /\ expiry'[req[r].state] = expiry[req[r].state]
      BY <2>1 DEF Onward
    <2>3. now \in Nat /\ now' \in Nat /\ now <= now' /\ Sound(r)
      BY DEF Onward, StateInv, TypeOK
    <2> QED
      BY <1>2, <2>1, <2>2, <2>3 DEF Sound, At, Onward
  <1> QED
    BY <1>1, <1>2

(* An entry may go for a reason, and a state that was not started gets no   *)
(* callback.                                                                *)
LEMMA EntryKeeps ==
    ASSUME StateInv, Onward, NEW t \in States,
           home'[t] = home[t], expiry'[t] = expiry[t],
           home[t] = Nobody =>
               /\ logins'[t] = logins[t]
               /\ \A v \in Servers : <<t, v>> \in refused' => <<t, v>> \in refused
               /\ \A r \in Callbacks : req'[r].pc = "idle" \/ req'[r].state # t,
           \/ cookie'[t] = cookie[t]
           \/ cookie'[t] = None /\ (t \in answered' \/ now' > expiry[t]),
           \A v \in Servers :
               \/ store'[v][t] = store[v][t]
               \/ /\ store'[v][t] = None
                  /\ t \in taken' \cup lost' \/ now' > expiry[t]
    PROVE  EntryInv(t)'
  <1>1. EntryInv(t) /\ now \in Nat /\ now' \in Nat /\ now <= now' /\ expiry[t] \in Nat
    BY DEF StateInv, Onward, TypeOK
  <1>2. home[t] = Nobody =>
            /\ logins'[t] = 0
            /\ \A v \in Servers : <<t, v>> \notin refused'
            /\ \A r \in Callbacks : At(r, "idle")' \/ req'[r].state # t
    BY <1>1 DEF EntryInv, At
  <1>3. cookie'[t] # None => home[t] \in Signing /\ cookie'[t] = expiry[t]
    BY <1>1 DEF EntryInv
  <1>4. \A v \in Servers : store'[v][t] # None => v = home[t] /\ store'[v][t] = expiry[t]
    BY <1>1 DEF EntryInv, Kept
  <1>5. home[t] \in Signing =>
            cookie'[t] # None \/ t \in answered' \/ now' > expiry[t]
    BY <1>1 DEF EntryInv, Expired, Onward
  <1>6. home[t] \in Servers \ Signing =>
            store'[home[t]][t] # None \/ t \in taken' \cup lost' \/ now' > expiry[t]
    BY <1>1 DEF EntryInv, Kept, Expired, Onward
  <1> QED
    BY <1>2, <1>3, <1>4, <1>5, <1>6 DEF EntryInv, Kept, Expired, At

(* Nobody else comes to carry the state, and it is not put back.            *)
LEMMA SpentKeeps ==
    ASSUME StateInv, Onward, NEW t \in States,
           home'[t] = home[t], logins'[t] = logins[t],
           Carrying(t)' \subseteq Carrying(t),
           \A v \in Servers : store'[v][t] # None =>
               /\ store[v][t] # None
               /\ \A r \in Carrying(t)' : At(r, "delete") => At(r, "delete")'
    PROVE  SpentOnce(t)'
  <1> SUFFICES ASSUME home[t] \in Servers \ Signing, t \notin overlap'
               PROVE  /\ logins'[t] <= 1
                      /\ logins'[t] = 1 => Carrying(t)' = {}
                      /\ \A q, r \in Carrying(t)' : q = r
                      /\ store'[home[t]][t] # None =>
                            logins'[t] = 0 /\ \A r \in Carrying(t)' : At(r, "delete")'
    BY DEF SpentOnce, Kept
  <1>1. /\ logins[t] <= 1
        /\ logins[t] = 1 => Carrying(t) = {}
        /\ \A q, r \in Carrying(t) : q = r
        /\ store[home[t]][t] # None =>
              logins[t] = 0 /\ \A r \in Carrying(t) : At(r, "delete")
    BY DEF StateInv, SpentOnce, Kept, Onward
  <1> QED
    BY <1>1

(* A refusal that was explained stays explained.                            *)
LEMMA RefusalKeeps ==
    ASSUME StateInv, Onward, refused' \subseteq refused
    PROVE  RefusalExplained'
  <1>1. \A t \in States, v \in Servers : <<t, v>> \in refused =>
            home[t] # Nobody /\ home'[t] = home[t]
    BY DEF StateInv, EntryInv, Onward
  <1> QED
    BY <1>1 DEF StateInv, RefusalExplained, Onward

(* Who carries a state follows from the pc and the state of each callback.  *)
LEMMA CarryingSame ==
    ASSUME NEW t \in States, NEW r \in Callbacks,
           \A q \in Callbacks \ {r} : req'[q] = req[q],
           req'[r].pc \in {"delete", "check", "exchange"} /\ req'[r].state = t
               => r \in Carrying(t)
    PROVE  Carrying(t)' \subseteq Carrying(t)
  BY DEF Carrying

(* Steps that leave what is remembered of a state alone and finish          *)
(* callbacks or move them on without taking up a state: only the callbacks  *)
(* that change have to be sound.                                            *)
LEMMA QuietStep ==
    ASSUME StateInv, Onward, UNCHANGED <<home, expiry, logins, refused>>,
           \A q \in Callbacks : req'[q] = req[q] \/ req'[q] = Idle \/ Sound(q)',
           \A t \in States :
               /\ Carrying(t)' \subseteq Carrying(t)
               /\ \A r \in Callbacks : req'[r].pc = "idle" \/ req'[r].state # t
                                       \/ home[t] # Nobody
               /\ \/ cookie'[t] = cookie[t]
                  \/ cookie'[t] = None /\ (t \in answered' \/ now' > expiry[t])
               /\ \A v \in Servers :
                     \/ /\ store'[v][t] = store[v][t]
                        /\ \A r \in Carrying(t)' :
                              At(r, "delete") => At(r, "delete")' \/ store[v][t] = None
                     \/ /\ store'[v][t] = None
                        /\ t \in taken' \cup lost' \/ now' > expiry[t]
    PROVE  StateInv'
  <1>1. RefusalExplained'
    BY RefusalKeeps
  <1>2. \A q \in Callbacks : Sound(q)'
    BY OthersSound
  <1>3. ASSUME NEW t \in States PROVE EntryInv(t)'
    BY <1>3, EntryKeeps
  <1>4. ASSUME NEW t \in States PROVE SpentOnce(t)'
    BY <1>4, SpentKeeps
  <1> QED
    BY <1>1, <1>2, <1>3, <1>4 DEF StateInv, Onward

LEMMA TickStep ==
    ASSUME StateInv, Tick
    PROVE  StateInv'
  <1>1. Onward
    BY DEF StateInv, TypeOK, Tick, Onward, history
  <1> QED
    BY <1>1, QuietStep, CallbackStarted, NobodyAssumption
    DEF Tick, history, Carrying, At

LEMMA StutterStep ==
    ASSUME StateInv, UNCHANGED vars
    PROVE  StateInv'
  <1>1. Onward
    BY DEF StateInv, TypeOK, vars, Onward, history
  <1> QED
    BY <1>1, QuietStep, CallbackStarted, NobodyAssumption
    DEF vars, history, Carrying, At

LEMMA DropCookieStep ==
    ASSUME StateInv, NEW t \in States, DropCookie(t)
    PROVE  StateInv'
  <1>1. Onward
    BY DEF StateInv, TypeOK, DropCookie, Onward, history
  <1>2. cookie[t] = expiry[t] /\ now > expiry[t]
    BY DEF DropCookie, StateInv, EntryInv, Expired
  <1>3. \A x \in States : cookie'[x] = IF x = t THEN None ELSE cookie[x]
    BY DEF DropCookie, StateInv, TypeOK
  <1> QED
    BY <1>1, <1>2, <1>3, QuietStep, CallbackStarted, NobodyAssumption
    DEF DropCookie, history, Carrying, At

(* What the sweep removes has expired.                                      *)
LEMMA CleanupStep ==
    ASSUME StateInv, NEW v \in Servers, Cleanup(v)
    PROVE  StateInv'
  <1>1. Onward
    BY DEF StateInv, TypeOK, Cleanup, Onward, history
  <1>2. \A w \in Servers, t \in States :
            \/ store'[w][t] = store[w][t]
            \/ store'[w][t] = None /\ store[w][t] # None /\ now > store[w][t]
    BY DEF Cleanup, StateInv, TypeOK, Expired
  <1>3. \A w \in Servers, t \in States : store[w][t] # None => store[w][t] = expiry[t]
    BY DEF StateInv, EntryInv, Kept
  <1> QED
    BY <1>1, <1>2, <1>3, QuietStep, CallbackStarted, NobodyAssumption
    DEF Cleanup, history, Carrying, At

(* What a restart empties is noted as lost.                                 *)
LEMMA RestartStep ==
    ASSUME StateInv, NEW v \in Servers, Restart(v)
    PROVE  StateInv'
  <1>1. Onward
    BY DEF StateInv, TypeOK, Restart, Onward, history
  <1>2. \A w \in Servers, t \in States :
            \/ store'[w][t] = store[w][t]
            \/ store'[w][t] = None /\ t \in lost'
    BY DEF Restart, StateInv, TypeOK, Kept
  <1>3. \A q \in Callbacks : req'[q] = req[q] \/ req'[q] = Idle
    BY DEF Restart
  <1> QED
    BY <1>1, <1>2, <1>3, QuietStep, CallbackStarted, NobodyAssumption
    DEF Restart, Carrying, At, Idle

(* A callback that is answered leaves; a cookie that goes was answered.     *)
LEMMA AnswerStep ==
    ASSUME StateInv, NEW r \in Callbacks, ~ At(r, "idle"), Answer(r),
           UNCHANGED <<now, store, visits, piped, home, expiry, taken, lost,
                       overlap>>,
           logins' \in [States -> Nat], refused' \subseteq States \X Servers
    PROVE  /\ Onward
           /\ \A q \in Callbacks : req'[q] = IF q = r THEN Idle ELSE req[q]
           /\ \A t \in States : \/ cookie'[t] = cookie[t]
                                \/ cookie'[t] = None /\ t \in answered'
           /\ \A t \in States : Carrying(t)' = Carrying(t) \ {r}
           /\ \A t \in States, q \in Callbacks :
                 req'[q].pc = "idle" \/ req'[q].state # t \/ home[t] # Nobody
  <1>1. req[r].state \in States
    BY CallbackStarted
  <1>2. /\ req \in [Callbacks -> Callback \cup {Idle}]
        /\ answered \subseteq States /\ cookie \in [States -> Nat \cup {None}]
    BY DEF StateInv, TypeOK
  <1>3. /\ answered \subseteq answered' /\ answered' \subseteq States
        /\ cookie' \in [States -> Nat \cup {None}]
        /\ req' \in [Callbacks -> Callback \cup {Idle}]
        /\ \A q \in Callbacks : req'[q] = IF q = r THEN Idle ELSE req[q]
        /\ \A t \in States : \/ cookie'[t] = cookie[t]
                             \/ cookie'[t] = None /\ t \in answered'
    BY <1>1, <1>2 DEF Answer, Finish
  <1>4. Onward
    BY <1>3 DEF StateInv, TypeOK, Onward
  <1>5. \A t \in States : Carrying(t)' = Carrying(t) \ {r}
    BY <1>3 DEF Carrying, Idle
  <1>6. \A t \in States, q \in Callbacks :
            req'[q].pc = "idle" \/ req'[q].state # t \/ home[t] # Nobody
    BY <1>3, CallbackStarted, NobodyAssumption DEF At, Idle
  <1> QED
    BY <1>3, <1>4, <1>5, <1>6

(* A callback that ends without a sign-in or a refusal to explain.          *)
LEMMA EndStep ==
    ASSUME StateInv, NEW r \in Callbacks, ~ At(r, "idle"), Answer(r),
           UNCHANGED <<now, store, visits, piped, home, expiry, taken, lost,
                       overlap, logins, refused>>
    PROVE  StateInv'
  <1>1. logins' \in [States -> Nat] /\ refused' \subseteq States \X Servers
    BY DEF StateInv, TypeOK
  <1>2. \A t \in States : \A q \in Carrying(t)' :
            At(q, "delete") => At(q, "delete")'
    BY <1>1, AnswerStep DEF Carrying, At
  <1> QED
    BY <1>1, <1>2, AnswerStep, QuietStep

-----------------------------------------------------------------------------
(* The state was unknown, so nobody carries it and nothing refused it.      *)
LEMMA StartStep ==
    ASSUME StateInv, NEW v \in Servers, NEW t \in States, Start(v, t)
    PROVE  StateInv'
  <1>1. now \in Nat /\ NewExpiry \in Nat /\ NewExpiry >= now /\ v # Nobody
    BY LifetimeAssumption, NobodyAssumption DEF StateInv, TypeOK, NewExpiry
  <1>2. /\ \A x \in States : home'[x] = IF x = t THEN v ELSE home[x]
        /\ \A x \in States : expiry'[x] = IF x = t THEN NewExpiry ELSE expiry[x]
        /\ \A x \in States : cookie'[x] = IF x = t /\ v \in Signing
                                          THEN NewExpiry ELSE cookie[x]
        /\ \A x \in States, w \in Servers :
              store'[w][x] = IF x = t /\ w = v /\ v \notin Signing
                             THEN NewExpiry ELSE store[w][x]
    BY DEF Start, StateInv, TypeOK
  <1>3. TypeOK'
    BY <1>1 DEF Start, StateInv, TypeOK
  <1>4. Onward
    BY <1>1, <1>2, <1>3 DEF Start, Onward
  <1>5. RefusalExplained'
    BY <1>4, RefusalKeeps DEF Start
  <1>6. \A q \in Callbacks : Sound(q)'
    BY <1>4, OthersSound DEF Start
  <1>7. ASSUME NEW x \in States, x # t PROVE EntryInv(x)' /\ SpentOnce(x)'
    <2>1. EntryInv(x)'
      BY <1>2, <1>4, <1>7, EntryKeeps, CallbackStarted, NobodyAssumption DEF Start, At
    <2>2. SpentOnce(x)'
      BY <1>2, <1>4, <1>7, SpentKeeps DEF Start, Carrying, At
    <2> QED
      BY <2>1, <2>2
  <1>8. /\ logins[t] = 0 /\ cookie[t] = None
        /\ \A w \in Servers : store[w][t] = None
        /\ \A q \in Callbacks : At(q, "idle") \/ req[q].state # t
    BY SigningAssumption, NobodyAssumption DEF Start, StateInv, EntryInv, Kept
  <1>9. EntryInv(t)'
    BY <1>1, <1>2, <1>8 DEF Start, EntryInv, Kept, None, At
  <1>10. SpentOnce(t)'
    BY <1>8 DEF Start, SpentOnce, Carrying, At
  <1> QED
    BY <1>3, <1>5, <1>6, <1>7, <1>9, <1>10 DEF StateInv

(* A browser that comes without its cookie was answered, or kept it until   *)
(* it expired.                                                              *)
LEMMA BeginCallbackStep ==
    ASSUME StateInv, NEW r \in Callbacks, NEW v \in Servers, NEW t \in States,
           BeginCallback(r, v, t)
    PROVE  StateInv'
  <1> DEFINE new == [pc |-> "lookup", server |-> v, state |-> t,
                     cookie |-> cookie[t], began |-> now, until |-> None]
  <1>1. new \in Callback
    BY DEF StateInv, TypeOK, Callback
  <1>2. \A q \in Callbacks : req'[q] = IF q = r THEN new ELSE req[q]
    BY DEF BeginCallback, StateInv, TypeOK
  <1>3. Onward
    <2>1. TypeOK'
      BY <1>1 DEF BeginCallback, StateInv, TypeOK, history
    <2> QED
      BY <2>1 DEF BeginCallback, Onward, StateInv, TypeOK, history
  <1>4. Sound(r)'
    <2>1. /\ cookie[t] # None => home[t] \in Signing /\ cookie[t] = expiry[t]
          /\ home[t] \in Signing =>
                cookie[t] # None \/ t \in answered \/ now > expiry[t]
          /\ now \in Nat
      BY DEF StateInv, EntryInv, TypeOK, Expired
    <2> QED
      BY <1>2, <2>1 DEF Sound, At, BeginCallback, history
  <1>5. \A x \in States : Carrying(x)' \subseteq Carrying(x)
    BY <1>2 DEF Carrying
  <1>6. \A x \in States, q \in Callbacks :
            req'[q].pc = "idle" \/ req'[q].state # x \/ home[x] # Nobody
    BY <1>2, CallbackStarted, NobodyAssumption DEF BeginCallback, At
  <1>7. \A x \in States : \A q \in Carrying(x)' :
            At(q, "delete") => At(q, "delete")'
    BY <1>2 DEF BeginCallback, Carrying, At
  <1>8. \A q \in Callbacks : req'[q] = req[q] \/ Sound(q)'
    BY <1>2, <1>4
  <1>9. UNCHANGED <<home, expiry, logins, refused, cookie, store>>
    BY DEF BeginCallback, history
  <1> HIDE DEF new
  <1> QED
    BY <1>3, <1>5, <1>6, <1>7, <1>8, <1>9, QuietStep

(* The state leaves the store with the callback that carries it.            *)
LEMMA DeleteStateStep ==
    ASSUME StateInv, NEW r \in Callbacks, DeleteState(r)
    PROVE  StateInv'
  <1> DEFINE new == [req[r] EXCEPT !.pc = "check"]
             t == req[r].state
  <1>1. /\ req[r] \in Callback /\ t \in States /\ req[r].server \in Servers
        /\ Sound(r) /\ req[r].began \in Nat
    BY CallbackKinds DEF DeleteState, At, StateInv, Idle
  <1>2. /\ new \in Callback /\ new.pc = "check" /\ new.state = t
        /\ new.began = req[r].began /\ new.cookie = req[r].cookie
        /\ new.until = req[r].until
    BY <1>1 DEF Callback
  <1>3. \A q \in Callbacks : req'[q] = IF q = r THEN new ELSE req[q]
    BY DEF DeleteState, Goto, StateInv, TypeOK
  <1> HIDE DEF new
  <1>4. TypeOK'
    <2>1. req' \in [Callbacks -> Callback \cup {Idle}]
      BY <1>2, <1>3 DEF DeleteState, Goto, StateInv, TypeOK
    <2>2. store' \in [Servers -> [States -> Nat \cup {None}]]
      BY DEF DeleteState, StateInv, TypeOK
    <2> QED
      BY <1>1, <2>1, <2>2 DEF DeleteState, StateInv, TypeOK
  <1>5. Onward
    BY <1>4 DEF DeleteState, Onward, StateInv, TypeOK
  <1>6. Sound(r)'
    BY <1>1, <1>2, <1>3 DEF Sound, At, DeleteState
  <1>7. \A q \in Callbacks : req'[q] = req[q] \/ Sound(q)'
    BY <1>3, <1>6
  <1>8. \A x \in States : Carrying(x)' \subseteq Carrying(x)
    BY <1>2, <1>3 DEF Carrying, DeleteState, At
  <1>9. \A x \in States, q \in Callbacks :
            req'[q].pc = "idle" \/ req'[q].state # x \/ home[x] # Nobody
    BY <1>1, <1>2, <1>3, CallbackStarted, NobodyAssumption DEF DeleteState, At
  <1>10. \A x \in States, w \in Servers :
            IF x = t /\ w = req[r].server
            THEN store'[w][x] = None /\ x \in taken'
            ELSE store'[w][x] = store[w][x]
    BY <1>1 DEF DeleteState, StateInv, TypeOK
  <1>11. ASSUME NEW x \in States, NEW w \in Servers,
                ~ (x = t /\ w = req[r].server), NEW q \in Carrying(x)',
                At(q, "delete")
         PROVE  At(q, "delete")' \/ store[w][x] = None
    <2>1. CASE q = r
      <3>1. x = t /\ w # home[t]
        BY <1>1, <1>2, <1>3, <1>11, <2>1 DEF Carrying, Sound, DeleteState
      <3> QED
        BY <1>1, <3>1 DEF StateInv, EntryInv, Kept
    <2>2. CASE q # r
      BY <1>3, <1>11, <2>2 DEF Carrying, At
    <2> QED
      BY <2>1, <2>2
  <1>12. \A x \in States, w \in Servers :
            \/ /\ store'[w][x] = store[w][x]
               /\ \A q \in Carrying(x)' :
                     At(q, "delete") => At(q, "delete")' \/ store[w][x] = None
            \/ /\ store'[w][x] = None
               /\ x \in taken' \cup lost' \/ now' > expiry[x]
    BY <1>10, <1>11
  <1> QED
    BY <1>5, <1>7, <1>8, <1>9, <1>12, QuietStep DEF DeleteState

(* The clock has not passed what was found, which is the state's expiry,    *)
(* and the callback began before.                                           *)
LEMMA CheckExpiryStep ==
    ASSUME StateInv, NEW r \in Callbacks, CheckExpiry(r)
    PROVE  StateInv'
  <1> DEFINE new == [req[r] EXCEPT !.pc = "exchange"]
             t == req[r].state
  <1>1. /\ ~ At(r, "idle") /\ req[r] \in Callback /\ t \in States
        /\ Sound(r) /\ req[r].began \in Nat
    BY CallbackKinds DEF CheckExpiry, At, StateInv, Idle
  <1>2. CASE Expired(req[r].until)
    BY <1>1, <1>2, EndStep DEF CheckExpiry
  <1>3. CASE ~ Expired(req[r].until)
    <2>1. /\ new \in Callback /\ new.pc = "exchange" /\ new.state = t
          /\ new.began = req[r].began /\ new.cookie = req[r].cookie
      BY <1>1 DEF Callback
    <2>2. \A q \in Callbacks : req'[q] = IF q = r THEN new ELSE req[q]
      BY <1>3 DEF CheckExpiry, Goto, StateInv, TypeOK
    <2>3. UNCHANGED <<now, store, cookie, visits, piped, history>>
      BY <1>3 DEF CheckExpiry, history
    <2> HIDE DEF new
    <2>4. Onward
      <3>1. req' \in [Callbacks -> Callback \cup {Idle}]
        BY <1>3, <2>1, <2>2 DEF CheckExpiry, Goto, StateInv, TypeOK
      <3>2. TypeOK'
        BY <2>3, <3>1 DEF StateInv, TypeOK, history
      <3> QED
        BY <2>3, <3>2 DEF Onward, StateInv, TypeOK, history
    <2>5. Sound(r)'
      <3>1. /\ req[r].began <= now /\ now <= req[r].until
            /\ req[r].until = expiry[t] /\ now \in Nat /\ expiry[t] \in Nat
        BY <1>1, <1>3 DEF CheckExpiry, Sound, At, Expired, StateInv, TypeOK
      <3>2. req[r].began <= expiry[t]
        BY <1>1, <3>1
      <3> QED
        BY <1>1, <2>1, <2>2, <2>3, <3>1, <3>2 DEF Sound, At, history
    <2>6. \A q \in Callbacks : req'[q] = req[q] \/ Sound(q)'
      BY <2>2, <2>5
    <2>7. \A x \in States : Carrying(x)' \subseteq Carrying(x)
      BY <2>1, <2>2 DEF Carrying, CheckExpiry, At
    <2>8. \A x \in States, q \in Callbacks :
              req'[q].pc = "idle" \/ req'[q].state # x \/ home[x] # Nobody
      BY <1>1, <2>1, <2>2, CallbackStarted, NobodyAssumption DEF At
    <2>9. \A x \in States : \A q \in Carrying(x)' :
              At(q, "delete") => At(q, "delete")'
      BY <2>2 DEF Carrying, CheckExpiry, At
    <2> QED
      BY <2>3, <2>4, <2>6, <2>7, <2>8, <2>9, QuietStep DEF history
  <1> QED
    BY <1>2, <1>3

(* The one callback that carried the state signs in, and nobody carries it  *)
(* any more.                                                                *)
LEMMA CompleteStep ==
    ASSUME StateInv, NEW r \in Callbacks, Complete(r)
    PROVE  StateInv'
  <1>0. ~ At(r, "idle") /\ Answer(r) /\ req[r].state \in States
    BY CallbackKinds DEF Complete, At, StateInv
  <1> PICK t \in States : t = req[r].state
    BY <1>0
  <1>1. ~ At(r, "idle") /\ Answer(r) /\ t = req[r].state /\ r \in Carrying(t)
    BY <1>0 DEF Complete, At, Carrying
  <1>2. CASE logins' = logins
    BY <1>1, <1>2, EndStep DEF Complete
  <1>3. CASE logins' = [logins EXCEPT ![t] = @ + 1]
    <2>1. /\ logins' \in [States -> Nat] /\ logins[t] \in Nat
          /\ \A x \in States : logins'[x] = IF x = t THEN logins[t] + 1 ELSE logins[x]
      BY <1>1, <1>3 DEF StateInv, TypeOK
    <2>2. /\ UNCHANGED <<now, store, visits, piped, home, expiry, taken, lost,
                         overlap, refused>>
          /\ refused' \subseteq States \X Servers
      BY DEF Complete, StateInv, TypeOK
    <2>3. /\ Onward
          /\ \A q \in Callbacks : req'[q] = IF q = r THEN Idle ELSE req[q]
          /\ \A x \in States : \/ cookie'[x] = cookie[x]
                               \/ cookie'[x] = None /\ x \in answered'
          /\ \A x \in States : Carrying(x)' = Carrying(x) \ {r}
          /\ \A x \in States, q \in Callbacks :
                req'[q].pc = "idle" \/ req'[q].state # x \/ home[x] # Nobody
      BY <1>1, <2>1, <2>2, AnswerStep
    <2>4. RefusalExplained' /\ \A q \in Callbacks : Sound(q)'
      BY <2>2, <2>3, RefusalKeeps, OthersSound
    <2>5. home[t] # Nobody
      BY <1>1, CallbackStarted, NobodyAssumption
    <2>6. ASSUME NEW x \in States PROVE EntryInv(x)'
      BY <2>1, <2>2, <2>3, <2>5, <2>6, EntryKeeps
    <2>7. ASSUME NEW x \in States, x # t PROVE SpentOnce(x)'
      <3>1. \A q \in Carrying(x)' : At(q, "delete") => At(q, "delete")'
        BY <2>3 DEF Carrying, At
      <3> QED
        BY <2>1, <2>2, <2>3, <2>7, <3>1, SpentKeeps
    <2>8. SpentOnce(t)'
      <3> SUFFICES ASSUME home[t] \in Servers \ Signing, t \notin overlap
                   PROVE  /\ logins'[t] <= 1 /\ Carrying(t)' = {}
                          /\ store[home[t]][t] = None
        BY <1>1, <2>1, <2>2 DEF SpentOnce, Kept
      <3>1. /\ logins[t] <= 1 /\ logins[t] # 1
            /\ \A q, p \in Carrying(t) : q = p
            /\ store[home[t]][t] # None => At(r, "delete")
        BY <1>1, <2>1 DEF StateInv, SpentOnce, Kept
      <3> QED
        BY <1>1, <2>1, <2>3, <3>1 DEF Complete, At
    <2> QED
      BY <2>3, <2>4, <2>6, <2>7, <2>8 DEF StateInv, Onward
  <1> QED
    BY <1>2, <1>3 DEF Complete

-----------------------------------------------------------------------------
(* A callback that takes up what it found: of this state, once, or it       *)
(* overlaps.                                                                *)
LEMMA TakeUpStep ==
    ASSUME StateInv, NEW r \in Callbacks, At(r, "lookup"),
           NEW t \in States, t = req[r].state,
           NEW label \in {"delete", "check"},
           req' = [req EXCEPT ![r].pc = label, ![r].until = expiry[t]],
           UNCHANGED <<now, store, cookie, visits, piped, home, expiry, taken,
                       lost, answered, logins, refused>>,
           overlap \subseteq overlap', overlap' \subseteq States,
           label = "delete" => req[r].server = home[t],
           SpentOnce(t)'
    PROVE  StateInv'
  <1> DEFINE new == [req[r] EXCEPT !.pc = label, !.until = expiry[t]]
  <1>1. ~ At(r, "idle") /\ req[r] \in Callback /\ expiry[t] \in Nat /\ Sound(r)
    BY CallbackKinds DEF At, StateInv, Idle, TypeOK
  <1>2. /\ new \in Callback /\ new.pc = label /\ new.state = t
        /\ new.until = expiry[t] /\ new.server = req[r].server
        /\ new.began = req[r].began /\ new.cookie = req[r].cookie
    BY <1>1 DEF Callback
  <1>3. \A q \in Callbacks : req'[q] = IF q = r THEN new ELSE req[q]
    BY DEF StateInv, TypeOK
  <1>4. req' \in [Callbacks -> Callback \cup {Idle}]
    BY <1>2 DEF StateInv, TypeOK
  <1> HIDE DEF new
  <1>5. Onward
    BY <1>4 DEF StateInv, TypeOK, Onward
  <1>6. Sound(r)'
    BY <1>1, <1>2, <1>3 DEF Sound, At
  <1>7. RefusalExplained' /\ \A q \in Callbacks : Sound(q)'
    BY <1>3, <1>5, <1>6, RefusalKeeps, OthersSound
  <1>8. \A x \in States, q \in Callbacks :
            req'[q].pc = "idle" \/ req'[q].state # x \/ home[x] # Nobody
    <2>1. \A q \in Callbacks : At(q, "idle") \/ home[req[q].state] # Nobody
      BY CallbackStarted, NobodyAssumption
    <2>2. home[t] # Nobody
      BY <1>1, <2>1
    <2>3. req'[r].state = t
      BY <1>2, <1>3
    <2>4. \A q \in Callbacks \ {r} : req'[q] = req[q]
      BY <1>3
    <2>5. ASSUME NEW x \in States, NEW q \in Callbacks
          PROVE  req'[q].pc = "idle" \/ req'[q].state # x \/ home[x] # Nobody
      <3>1. CASE q = r
        BY <2>2, <2>3, <3>1
      <3>2. CASE q # r
        <4>1. req'[q] = req[q]
          BY <2>4, <3>2
        <4>2. req[q].pc = "idle" \/ home[req[q].state] # Nobody
          BY <2>1 DEF At
        <4> QED
          BY <4>1, <4>2
      <3> QED
        BY <3>1, <3>2
    <2> QED
      BY <2>5
  <1>9. ASSUME NEW x \in States PROVE EntryInv(x)'
    BY <1>5, <1>8, <1>9, EntryKeeps
  <1>10. ASSUME NEW x \in States, x # t PROVE SpentOnce(x)'
    <2>1. Carrying(x)' \subseteq Carrying(x)
      BY <1>2, <1>3, <1>10 DEF Carrying
    <2>2. \A q \in Carrying(x)' : At(q, "delete") => At(q, "delete")'
      BY <1>2, <1>3, <1>10 DEF Carrying, At
    <2> QED
      BY <1>5, <1>10, <2>1, <2>2, SpentKeeps
  <1> QED
    BY <1>5, <1>7, <1>9, <1>10 DEF StateInv, Onward

(* The cookie holds the expiry of a state that no memory keeps.             *)
LEMMA LookupCookie ==
    ASSUME StateInv, NEW r \in Callbacks, At(r, "lookup"), Readable(r),
           req' = [req EXCEPT ![r].pc = "check", ![r].until = req[r].cookie],
           UNCHANGED <<now, store, cookie, visits, piped, history>>
    PROVE  StateInv'
  <1>1. PICK t \in States : t = req[r].state
    BY CallbackStarted DEF At
  <1>2. home[t] \in Signing /\ req[r].cookie = expiry[t]
    BY <1>1 DEF StateInv, Sound, Readable, At
  <1>3. SpentOnce(t)'
    BY <1>2 DEF SpentOnce, history
  <1>4. overlap \subseteq overlap' /\ overlap' \subseteq States
    BY DEF StateInv, TypeOK, history
  <1> QED
    BY <1>1, <1>2, <1>3, <1>4, TakeUpStep DEF history

(* StateStore.Get and not yet Delete: another callback between the two is   *)
(* an overlap, and without one nobody carries the state.                    *)
LEMMA LookupStore ==
    ASSUME StateInv, NEW r \in Callbacks, At(r, "lookup"),
           NEW t \in States, t = req[r].state,
           Kept(req[r].server, t),
           req' = [req EXCEPT ![r].pc = "delete",
                              ![r].until = store[req[r].server][t]],
           overlap' = overlap \cup {x \in {t} : \E q \in Callbacks :
                                        At(q, "delete") /\ req[q].state = x},
           UNCHANGED <<now, store, cookie, visits, piped, home, expiry, taken,
                       lost, answered, logins, refused>>
    PROVE  StateInv'
  <1>1. req[r].server = home[t] /\ store[req[r].server][t] = expiry[t]
    BY CallbackKinds DEF StateInv, EntryInv, At
  <1>2. SpentOnce(t)'
    <2> SUFFICES ASSUME home[t] \in Servers \ Signing, t \notin overlap'
                 PROVE  /\ logins[t] = 0
                        /\ Carrying(t)' = {r} /\ At(r, "delete")'
      BY DEF SpentOnce
    <2>1. logins[t] = 0 /\ \A q \in Carrying(t) : At(q, "delete")
      BY <1>1 DEF StateInv, SpentOnce
    <2>2. Carrying(t) = {}
      BY <2>1 DEF Carrying
    <2>3. \A q \in Callbacks \ {r} : req'[q] = req[q]
      BY DEF StateInv, TypeOK
    <2>4. req'[r].pc = "delete" /\ req'[r].state = t
      BY CallbackKinds DEF StateInv, TypeOK, Callback, At, Idle
    <2> QED
      BY <2>1, <2>2, <2>3, <2>4 DEF Carrying, At
  <1>3. overlap \subseteq overlap' /\ overlap' \subseteq States
    BY DEF StateInv, TypeOK
  <1> QED
    BY <1>1, <1>2, <1>3, TakeUpStep

(* What is not found was answered, lost, taken or piped, is kept elsewhere, *)
(* or has expired.                                                          *)
LEMMA LookupNothing ==
    ASSUME StateInv, NEW r \in Callbacks, At(r, "lookup"), ~ Readable(r),
           ~ Kept(req[r].server, req[r].state), Answer(r),
           refused' = IF req[r].began <= expiry[req[r].state]
                         /\ ~ Expired(expiry[req[r].state])
                      THEN refused \cup {<<req[r].state, req[r].server>>}
                      ELSE refused,
           UNCHANGED <<now, store, visits, piped, home, expiry, taken, lost,
                       overlap, logins>>
    PROVE  StateInv'
  <1>0. ~ At(r, "idle")
    BY DEF At
  <1>1. /\ req[r].state \in States /\ home[req[r].state] # Nobody
        /\ req[r].server \in Servers /\ req[r].began \in Nat
    BY <1>0, CallbackStarted, CallbackKinds, NobodyAssumption DEF StateInv
  <1>2. logins' \in [States -> Nat] /\ refused' \subseteq States \X Servers
    BY <1>1 DEF StateInv, TypeOK
  <1>3. /\ Onward
        /\ \A q \in Callbacks : req'[q] = IF q = r THEN Idle ELSE req[q]
        /\ \A x \in States : \/ cookie'[x] = cookie[x]
                             \/ cookie'[x] = None /\ x \in answered'
        /\ \A x \in States : Carrying(x)' = Carrying(x) \ {r}
        /\ \A x \in States, q \in Callbacks :
              req'[q].pc = "idle" \/ req'[q].state # x \/ home[x] # Nobody
    BY <1>0, <1>2, AnswerStep
  <1>4. \A q \in Callbacks : Sound(q)'
    BY <1>3, OthersSound
  <1>5. \A x \in States, v \in Servers : <<x, v>> \in refused' =>
            <<x, v>> \in refused \/ (x = req[r].state /\ v = req[r].server)
    OBVIOUS
  <1>6. ASSUME NEW x \in States PROVE EntryInv(x)'
    BY <1>1, <1>3, <1>5, <1>6, EntryKeeps
  <1>7. ASSUME NEW x \in States PROVE SpentOnce(x)'
    <2>1. \A q \in Carrying(x)' : At(q, "delete") => At(q, "delete")'
      BY <1>3 DEF Carrying, At
    <2> QED
      BY <1>3, <1>7, <2>1, SpentKeeps
  <1>8. RefusalExplained'
    <2>1. CASE refused' = refused
      BY <1>3, <2>1, RefusalKeeps
    <2>2. CASE req[r].began <= expiry[req[r].state] /\ ~ Expired(expiry[req[r].state])
      <3> PICK t \in States, w \in Servers : t = req[r].state /\ w = req[r].server
        BY <1>1
      <3>1. expiry[t] \in Nat /\ ~ (req[r].began > expiry[t])
        BY <1>1, <2>2 DEF StateInv, TypeOK
      <3>2. home[t] \in Signing =>
                w \notin Signing \/ t \in answered \/ t \in piped
        BY <3>1 DEF StateInv, Sound, Readable
      <3>3. home[t] \notin Signing => w # home[t] \/ t \in lost \/ t \in taken
        BY <2>2 DEF StateInv, EntryInv
      <3>4. \A x \in States, v \in Servers : <<x, v>> \in refused =>
                IF home[x] \in Signing
                THEN v \notin Signing \/ x \in answered \/ x \in piped
                ELSE v # home[x] \/ x \in lost \/ x \in taken
        BY DEF StateInv, RefusalExplained
      <3> QED
        BY <1>3, <1>5, <3>2, <3>3, <3>4 DEF RefusalExplained, Onward
    <2> QED
      BY <2>1, <2>2
  <1> QED
    BY <1>3, <1>4, <1>6, <1>7, <1>8 DEF StateInv, Onward

LEMMA LookupStep ==
    ASSUME StateInv, NEW r \in Callbacks, Lookup(r)
    PROVE  StateInv'
  <1>1. PICK t \in States : t = req[r].state
    BY CallbackStarted DEF Lookup, At
  <1> QED
    BY <1>1, LookupCookie, LookupStore, LookupNothing DEF Lookup, history

-----------------------------------------------------------------------------
LEMMA NextInv == StateInv /\ [Next]_vars => StateInv'
  BY StartStep, BeginCallbackStep, LookupStep, DeleteStateStep, CheckExpiryStep,
     CompleteStep, DropCookieStep, RestartStep, CleanupStep, TickStep,
     StutterStep DEF Next, Step

(* StateInv holds in every reachable state of the sign-in between Start and *)
(* Callback (google/handler.go).                                            *)
THEOREM InvariantHolds == Spec => []StateInv
  BY InitInv, NextInv, PTL DEF Spec

(* Stores, cookies, callbacks and history keep their type.                  *)
THEOREM TypeCorrect == Spec => []TypeOK
  BY InvariantHolds, PTL DEF StateInv

(* A state in memory carries one sign-in at most, though Get and Delete are *)
(* two critical sections, unless two callbacks were between them.           *)
THEOREM SpentOnceHolds == Spec => []MemoryStateSpentOnce
  <1>1. StateInv => MemoryStateSpentOnce
    <2> SUFFICES ASSUME StateInv, NEW t \in States,
                        home[t] \in Servers \ Signing, t \notin overlap
                 PROVE  logins[t] + Cardinality(Carrying(t)) <= 1
      BY DEF MemoryStateSpentOnce
    <2>1. /\ logins[t] \in Nat /\ logins[t] <= 1
          /\ logins[t] = 1 => Carrying(t) = {}
          /\ \A q, r \in Carrying(t) : q = r
      BY DEF StateInv, TypeOK, SpentOnce
    <2>2. CASE Carrying(t) = {}
      <3>1. Cardinality(Carrying(t)) = 0
        BY <2>2, FS_EmptySet
      <3> QED
        BY <2>1, <3>1
    <2>3. CASE Carrying(t) # {}
      <3>1. PICK r : Carrying(t) = {r}
        BY <2>1, <2>3
      <3>2. Cardinality({r}) = 1
        BY FS_Singleton
      <3> QED
        BY <2>1, <3>1, <3>2
    <2> QED
      BY <2>2, <2>3
  <1> QED
    BY <1>1, InvariantHolds, PTL

(* No code is exchanged for a callback that began after the state expired,  *)
(* from the cookie or from the store (Handler.Callback).                    *)
THEOREM NoLateSignInHolds == Spec => []NoLateSignIn
  <1>1. StateInv => NoLateSignIn
    BY DEF StateInv, Sound, NoLateSignIn
  <1> QED
    BY <1>1, InvariantHolds, PTL

(* A state that is not found before it expired is at another replica, was   *)
(* taken, lost or answered before, or cannot be read ("possible pod restart *)
(* or multi-replica issue", google/handler.go:309).                         *)
THEOREM RefusalsExplained == Spec => []RefusalExplained
  BY InvariantHolds, PTL DEF StateInv
=============================================================================
