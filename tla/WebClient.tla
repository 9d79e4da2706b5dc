----------------------------- MODULE WebClient ------------------------------
(* A browser of one user and the server it talks to: the two cookies that   *)
(* stand for a session, the requests that carry them (sign-in, refresh, the *)
(* two sign-outs, the deletion of the account), the middleware in front and *)
(* the answers that set or clear them, which overtake each other and get    *)
(* lost. Lifetimes are left open: a session may be over at any time, an     *)
(* access token refused at any time. Max-Age counts from the receipt of     *)
(* what was minted before, so the browser forgets the refresh token only of *)
(* a session that is over.                                                  *)
EXTENDS Server

CONSTANTS Sids,        \* sessions of the user, one refresh token each
          Requests     \* requests of the browser at a time

VARIABLES session,     \* the rows of sessions: live or over
          account,     \* the user is there
          jar,         \* the cookies: whose access and whose refresh token
          req          \* the requests on their way, handled, answered

serverVars == <<session, account>>
vars == <<proc, serverVars, jar, req>>

None == "no cookie"
Keep == "no Set-Cookie"
Clear == "clear cookies"
ASSUME MarksAssumption == {None, Keep, Clear} \cap Sids = {}
Idle == [pc |-> "idle"]
Kinds == {"login", "refresh", "logout", "logoutAll", "delete"}
Limited == {"login", "refresh", "delete"}
Guarded == {"logoutAll", "delete"}
Cookies == [access : Sids \cup {None}, refresh : Sids \cup {None}]
(* failed: a revocation whose error was ignored; overtaken (history): the   *)
(* cookies were set or cleared by another answer since the request left.    *)
Request == [pc : {"sent", "mint", "remove", "answered"}, kind : Kinds,
            with : Cookies, answer : Sids \cup {Keep, Clear},
            failed : BOOLEAN, overtaken : BOOLEAN]

TypeOK ==
    /\ ProcTypeOK
    /\ session \in [Sids -> {"none", "live", "over"}]
    /\ account \in BOOLEAN
    /\ jar \in Cookies
    /\ req \in [Requests -> Request \cup {Idle}]

Init ==
    /\ ProcInit
    /\ session = [s \in Sids |-> "none"]
    /\ account = TRUE
    /\ jar = [access |-> None, refresh |-> None]
    /\ req = [r \in Requests |-> Idle]

At(r, label) == req[r].pc = label
Handling(r, kind, label) == At(r, label) /\ req[r].kind = kind
Goto(r, label) == req' = [req EXCEPT ![r].pc = label]
Answer(r, cookies) ==
    req' = [req EXCEPT ![r].pc = "answered", ![r].answer = cookies]

EndAll == session' = [s \in Sids |-> IF session[s] = "live" THEN "over"
                                     ELSE session[s]]

-----------------------------------------------------------------------------
(* A request leaves with the cookies of the moment; a server that does not  *)
(* accept connections is not reached.                                       *)
Send(r, kind) ==
    /\ At(r, "idle")
    /\ proc = "up"
    /\ req' = [req EXCEPT ![r] = [pc |-> "sent", kind |-> kind, with |-> jar,
                                  answer |-> Keep, failed |-> FALSE,
                                  overtaken |-> FALSE]]
    /\ UNCHANGED <<proc, serverVars, jar>>

(* Variant: an error answer of any kind signs the browser out.              *)
FailClearing(r) ==
    /\ req[r].pc \in {"sent", "mint", "remove"}
    /\ req[r].kind # "logout"
    /\ Answer(r, Clear)
    /\ UNCHANGED <<proc, serverVars, jar>>

(* Answers that leave the cookies alone: too many requests of this route ...*)
RateLimited(r) ==
    /\ At(r, "sent")
    /\ req[r].kind \in Limited
    /\ Answer(r, Keep)
    /\ UNCHANGED <<proc, serverVars, jar>>

(* ... no access token, or one that has expired ...                         *)
Unauthorized(r) ==
    /\ At(r, "sent")
    /\ req[r].kind \in Guarded
    /\ Answer(r, Keep)
    /\ UNCHANGED <<proc, serverVars, jar>>

(* ... and wrong credentials, a statement that fails, a body too large or a *)
(* recovered panic, at any point of a handler. Logout has no error answer.  *)
Fail(r) ==
    /\ req[r].pc \in {"sent", "mint", "remove"}
    /\ req[r].kind # "logout"
    /\ Answer(r, Keep)
    /\ UNCHANGED <<proc, serverVars, jar>>

(* Register or Login: a session, answered unless its token cannot be issued.*)
IssueSession(r, s) ==
    /\ Handling(r, "login", "sent")
    /\ account
    /\ session[s] = "none"
    /\ session' = [session EXCEPT ![s] = "live"]
    /\ Answer(r, s) \/ Answer(r, Keep)
    /\ UNCHANGED <<proc, account, jar>>

(* Variant: a missing refresh cookie is not noticed.                        *)
RefreshLookupUnchecked(r) ==
    LET s == req[r].with.refresh IN
    /\ Handling(r, "refresh", "sent")
    /\ IF s = None \/ session[s] = "live"
       THEN Goto(r, "mint")
       ELSE Answer(r, Clear)
    /\ UNCHANGED <<proc, serverVars, jar>>

(* Refresh: no cookie is a 401 and no more; a session that is over also     *)
(* clears the cookies.                                                      *)
RefreshLookup(r) ==
    LET s == req[r].with.refresh IN
    /\ Handling(r, "refresh", "sent")
    /\ \/ s = None /\ Answer(r, Keep)
       \/ s # None /\ session[s] = "live" /\ Goto(r, "mint")
       \/ s # None /\ session[s] # "live" /\ Answer(r, Clear)
    /\ UNCHANGED <<proc, serverVars, jar>>

(* The same refresh token is handed back, with a new access token.          *)
RefreshMint(r) ==
    /\ Handling(r, "refresh", "mint")
    /\ Answer(r, req[r].with.refresh)
    /\ UNCHANGED <<proc, serverVars, jar>>

(* Logout: the session of the cookie, if there is one, ends unless the      *)
(* statement fails, which nobody looks at; the cookies are cleared.         *)
Logout(r) ==
    LET s == req[r].with.refresh IN
    /\ Handling(r, "logout", "sent")
    /\ \E failed \in BOOLEAN :
          /\ session' = IF s = None \/ failed THEN session
                        ELSE [session EXCEPT ![s] = "over"]
          /\ req' = [req EXCEPT ![r].pc = "answered", ![r].answer = Clear,
                                ![r].failed = failed /\ s # None]
    /\ UNCHANGED <<proc, account, jar>>

(* LogoutAll, for an access token that is still accepted.                   *)
LogoutAll(r) ==
    /\ Handling(r, "logoutAll", "sent")
    /\ req[r].with.access # None
    /\ EndAll
    /\ Answer(r, Clear)
    /\ UNCHANGED <<proc, account, jar>>

(* DeleteMe, with the password confirmed: revoke, failing or not, delete.   *)
DeleteRevoke(r) ==
    /\ Handling(r, "delete", "sent")
    /\ req[r].with.access # None
    /\ account
    /\ EndAll \/ UNCHANGED session
    /\ Goto(r, "remove")
    /\ UNCHANGED <<proc, account, jar>>

DeleteAccount(r) ==
    /\ Handling(r, "delete", "remove")
    /\ account
    /\ account' = FALSE
    /\ EndAll
    /\ Answer(r, Clear)
    /\ UNCHANGED <<proc, jar>>

(* A session expires, or is ended from another device.                      *)
EndElsewhere(s) ==
    /\ session[s] = "live"
    /\ session' = [session EXCEPT ![s] = "over"]
    /\ UNCHANGED <<proc, account, jar, req>>

-----------------------------------------------------------------------------
(* SetAuthCookies and ClearAuthCookies: both cookies or none. Max-Age counts*)
(* from here.                                                               *)
Receive(answer) ==
    CASE answer = Keep -> jar
      [] answer = Clear -> [access |-> None, refresh |-> None]
      [] OTHER -> [access |-> answer, refresh |-> answer]

(* Answers arrive in any order, or not at all.                              *)
Deliver(r) ==
    LET answer == req[r].answer IN
    /\ At(r, "answered")
    /\ jar' = Receive(answer)
    /\ req' = [q \in Requests |->
                  IF q = r THEN Idle
                  ELSE IF ~ At(q, "idle") /\ answer # Keep
                  THEN [req[q] EXCEPT !.overtaken = TRUE] ELSE req[q]]
    /\ UNCHANGED <<proc, serverVars>>

Lose(r) ==
    /\ At(r, "answered")
    /\ req' = [req EXCEPT ![r] = Idle]
    /\ UNCHANGED <<proc, serverVars, jar>>

(* Max-Age runs out.                                                        *)
Forget ==
    /\ \/ jar' = [jar EXCEPT !.access = None]
       \/ /\ jar.refresh # None
          /\ session[jar.refresh] = "over"
          /\ jar' = [jar EXCEPT !.refresh = None]
    /\ UNCHANGED <<proc, serverVars, req>>

-----------------------------------------------------------------------------
(* The process stops: what was being handled is never answered.             *)
Busy == \E r \in Requests : ~ At(r, "idle") /\ ~ At(r, "answered")
CutOff == req' = [r \in Requests |-> IF At(r, "answered") THEN req[r] ELSE Idle]

ShutDown == Drained(Busy) /\ UNCHANGED <<serverVars, jar, req>>
TimeOut == Deadline /\ CutOff /\ UNCHANGED <<serverVars, jar>>
Process ==
    \/ (Boot \/ Interrupt) /\ UNCHANGED <<serverVars, jar, req>>
    \/ ShutDown
    \/ TimeOut
    \/ Crash /\ CutOff /\ UNCHANGED <<serverVars, jar>>

Next ==
    \/ \E r \in Requests :
          \/ \E kind \in Kinds : Send(r, kind)
          \/ RateLimited(r) \/ Unauthorized(r) \/ Fail(r)
          \/ \E s \in Sids : IssueSession(r, s)
          \/ RefreshLookup(r) \/ RefreshMint(r)
          \/ Logout(r) \/ LogoutAll(r) \/ DeleteRevoke(r) \/ DeleteAccount(r)
          \/ Deliver(r) \/ Lose(r)
    \/ \E s \in Sids : EndElsewhere(s)
    \/ Forget
    \/ Process

(* The runtime's timer and the goroutine in main go on; a handler may hang  *)
(* on the database for ever.                                                *)
Spec == Init /\ [][Next]_vars /\ WF_vars(ShutDown) /\ WF_vars(TimeOut)

-----------------------------------------------------------------------------
(* A browser keeps a session that is live: its refresh cookie goes only with*)
(* the answer to a new sign-in, with a logout whose revocation failed and   *)
(* was not looked at (session/handler.go:127), or with an answer to a       *)
(* request that left before the cookies were last changed. No lost answer,  *)
(* failing refresh, refused request or restart costs it the session.        *)
StaysSignedIn ==
    [][jar.refresh # None /\ session[jar.refresh] = "live"
          /\ jar'.refresh # jar.refresh
       => \E r \in Requests :
             /\ At(r, "answered") /\ req'[r] = Idle
             /\ req[r].overtaken \/ req[r].failed \/ req[r].kind = "login"]_vars

(* A server that was told to stop stops, though a handler may hang.         *)
DrainEnds == proc = "draining" ~> proc = "down"

(* The inductive strengthening. Cookies are of sessions there have been.    *)
Issued(s) == s # None => session[s] # "none"

(* While no other answer has changed the cookies, the refresh cookie is the *)
(* one a request left with, or gone by itself; then an answer that clears it*)
(* finds that session over, and one that sets it sets the same.             *)
Due(r) ==
    LET sent == req[r].with.refresh IN
    /\ ~ At(r, "idle") =>
          /\ Issued(sent)
          /\ req[r].overtaken \/ jar.refresh \in {sent, None}
    /\ At(r, "mint") => req[r].kind = "refresh" /\ sent # None
    /\ At(r, "remove") => req[r].kind = "delete"
    /\ At(r, "answered") /\ req[r].answer = Clear =>
          req[r].failed \/ sent = None \/ session[sent] = "over"
    /\ At(r, "answered") /\ req[r].answer \in Sids =>
          /\ Issued(req[r].answer)
          /\ req[r].kind = "login"
             \/ (req[r].kind = "refresh" /\ req[r].answer = sent)
ClientInv ==
    /\ TypeOK
    /\ Issued(jar.refresh)
    /\ \A r \in Requests : Due(r)
=============================================================================
