------------------------------- MODULE HttpServer -------------------------------
(***************************************************************************)
(* runHTTP of cmd/openshift-mcp/main.go: the main goroutine in              *)
(* ListenAndServe, the goroutine that shuts the server down on a signal,    *)
(* the requests in flight, and the end of the process, which ends them all. *)
(* net/http is modelled from how runHTTP uses it.                           *)
(***************************************************************************)
EXTENDS Integers

CONSTANTS Requests     \* requests that clients may send, of any endpoint

VARIABLES
    signalled,   \* ctx is done: SIGINT or SIGTERM has come
    main,        \* the main goroutine
    listening,   \* the listener is open
    inShutdown,  \* Shutdown has been called
    stopper,     \* the goroutine that waits for ctx
    timeUp,      \* shutdownCtx has expired
    failed,      \* ListenAndServe failed of itself
    code,        \* the exit code of the process; -1 while it runs
    req          \* the requests

vars == <<signalled, main, listening, inShutdown, stopper, timeUp, failed, code, req>>

TypeOK ==
    /\ signalled \in BOOLEAN
    /\ main \in {"listen", "serving", "returned", "exited"}
    /\ listening \in BOOLEAN
    /\ inShutdown \in BOOLEAN
    /\ stopper \in {"waiting", "draining", "closing", "done"}
    /\ timeUp \in BOOLEAN
    /\ failed \in BOOLEAN
    /\ code \in {-1, 0, 1}
    /\ req \in [Requests -> {"new", "active", "answered", "cut"}]

Init ==
    /\ signalled = FALSE
    /\ main = "listen"
    /\ listening = FALSE
    /\ inShutdown = FALSE
    /\ stopper = "waiting"
    /\ timeUp = FALSE
    /\ failed = FALSE
    /\ code = -1
    /\ req = [r \in Requests |-> "new"]

Alive == main # "exited"
Active(r) == req[r] = "active"
Cut == [r \in Requests |-> IF Active(r) THEN "cut" ELSE req[r]]

(* SIGINT or SIGTERM; a second one is swallowed by NotifyContext.            *)
Signal ==
    /\ Alive /\ ~signalled
    /\ signalled' = TRUE
    /\ UNCHANGED <<main, listening, inShutdown, stopper, timeUp, failed, code, req>>

--------------------------------------------------------------------------------
(* The main goroutine.                                                       *)

(* ListenAndServe binds its address, unless Shutdown was called already.     *)
Listen ==
    /\ main = "listen" /\ ~inShutdown
    /\ main' = "serving"
    /\ listening' = TRUE
    /\ UNCHANGED <<signalled, inShutdown, stopper, timeUp, failed, code, req>>

(* The address cannot be bound, or Accept fails for good.                    *)
ListenFails ==
    /\ main \in {"listen", "serving"} /\ ~inShutdown
    /\ main' = "returned"
    /\ listening' = FALSE
    /\ failed' = TRUE
    /\ UNCHANGED <<signalled, inShutdown, stopper, timeUp, code, req>>

(* Once Shutdown is called, ListenAndServe returns ErrServerClosed at once:   *)
(* it does not wait for the requests.                                        *)
ServerClosed ==
    /\ main \in {"listen", "serving"} /\ inShutdown
    /\ main' = "returned"
    /\ UNCHANGED <<signalled, listening, inShutdown, stopper, timeUp, failed, code, req>>

(* Faulty variant: any return of ListenAndServe ends the process quietly.    *)
FaultyExit ==
    /\ main = "returned"
    /\ main' = "exited"
    /\ code' = 0
    /\ listening' = FALSE
    /\ req' = Cut
    /\ UNCHANGED <<signalled, inShutdown, stopper, timeUp, failed>>

(* runHTTP exits with 1 if there was no signal, and returns otherwise; main   *)
(* returns with it.  Either way the process ends, and what it was doing.     *)
Exit ==
    /\ main = "returned"
    /\ main' = "exited"
    /\ code' = IF signalled THEN 0 ELSE 1
    /\ listening' = FALSE
    /\ req' = Cut
    /\ UNCHANGED <<signalled, inShutdown, stopper, timeUp, failed>>

--------------------------------------------------------------------------------
(* The goroutine that shuts the server down.                                 *)

(* Faulty variant: the goroutine does not call Shutdown.                     *)
FaultyShutdown ==
    /\ Alive /\ stopper = "waiting" /\ signalled
    /\ stopper' = "done"
    /\ UNCHANGED <<signalled, main, listening, inShutdown, timeUp, failed, code, req>>

(* Shutdown closes the listener ...                                          *)
Shutdown ==
    /\ Alive /\ stopper = "waiting" /\ signalled
    /\ stopper' = "draining"
    /\ inShutdown' = TRUE
    /\ listening' = FALSE
    /\ UNCHANGED <<signalled, main, timeUp, failed, code, req>>

(* ... and returns when no request is in flight, or with an error after 10 s. *)
Drained ==
    /\ Alive /\ stopper = "draining"
    /\ \A r \in Requests : ~Active(r)
    /\ stopper' = "done"
    /\ UNCHANGED <<signalled, main, listening, inShutdown, timeUp, failed, code, req>>

TimeUp ==
    /\ Alive /\ stopper = "draining"
    /\ stopper' = "closing"
    /\ timeUp' = TRUE
    /\ UNCHANGED <<signalled, main, listening, inShutdown, failed, code, req>>

(* After an error the connections are closed.                                *)
Close ==
    /\ Alive /\ stopper = "closing"
    /\ stopper' = "done"
    /\ req' = Cut
    /\ UNCHANGED <<signalled, main, listening, inShutdown, timeUp, failed, code>>

--------------------------------------------------------------------------------
(* Requests: each is served by a goroutine of its own, whose context is not   *)
(* derived from ctx.                                                         *)

Accept(r) ==
    /\ Alive /\ listening /\ req[r] = "new"
    /\ req' = [req EXCEPT ![r] = "active"]
    /\ UNCHANGED <<signalled, main, listening, inShutdown, stopper, timeUp, failed, code>>

Respond(r) ==
    /\ Alive /\ Active(r)
    /\ req' = [req EXCEPT ![r] = "answered"]
    /\ UNCHANGED <<signalled, main, listening, inShutdown, stopper, timeUp, failed, code>>

Main == Listen \/ ListenFails \/ ServerClosed \/ Exit
Stopper == Shutdown \/ Drained \/ TimeUp \/ Close

Next ==
    \/ Signal
    \/ Main
    \/ Stopper
    \/ \E r \in Requests : Accept(r) \/ Respond(r)

Spec == Init /\ [][Next]_vars

(* The goroutines run, and shutdownCtx expires.  A request need not end.     *)
Fairness ==
    /\ WF_vars(Listen \/ ServerClosed \/ Exit)
    /\ WF_vars(Stopper)

FairSpec == Spec /\ Fairness

--------------------------------------------------------------------------------
(* A request is cut off only by a stop that was asked for, or by one that the *)
(* exit code reports: a supervisor never sees a server that dropped requests *)
(* of itself and exits as if told to.                                        *)
CutsAreAccountedFor ==
    (\E r \in Requests : req[r] = "cut") => signalled \/ code = 1

(* The state of the process: its types, and requests cut off for a reason.   *)
CutInv == TypeOK /\ CutsAreAccountedFor

(* A signal ends the process, whatever the requests do and also when it comes *)
(* before the server listens or while it fails.                              *)
SignalEnds == signalled ~> main = "exited"

(* The shutdown is meant to be graceful: Shutdown has 10 s, and what it cannot *)
(* finish in that time is logged as "graceful shutdown failed" and closed.   *)
(* So a request is cut off by a signal only when that time is up.            *)
GracefulShutdown ==
    (\E r \in Requests : req[r] = "cut") /\ ~failed => timeUp

================================================================================
