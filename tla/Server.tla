------------------------------- MODULE Server -------------------------------
(* The life of the simple-idm process (cmd/simple-idm/main.go), for modules *)
(* whose requests it serves: they say which requests are being handled and  *)
(* what becomes of those that are cut off.                                  *)
VARIABLE proc

ProcTypeOK == proc \in {"down", "up", "draining"}

ProcInit == proc = "down"

(* The configuration loads, the database answers, the keys decode: the      *)
(* router serves. When one does not, the process exits and stays down.      *)
Boot ==
    /\ proc = "down"
    /\ proc' = "up"

(* SIGINT or SIGTERM: no connection is accepted any more. A second signal   *)
(* waits in the channel and changes nothing.                                *)
Interrupt ==
    /\ proc = "up"
    /\ proc' = "draining"

(* Shutdown returns when the last request has been answered ...             *)
Drained(busy) ==
    /\ proc = "draining"
    /\ ~ busy
    /\ proc' = "down"

(* Variant: Shutdown is given a context without a timeout.                  *)
NoDeadline == FALSE /\ UNCHANGED proc

(* ... or when its thirty seconds are up, whatever is still being handled.  *)
Deadline ==
    /\ proc = "draining"
    /\ proc' = "down"

(* The listener fails (os.Exit), or the process is killed.                  *)
Crash ==
    /\ proc # "down"
    /\ proc' = "down"
=============================================================================
