-------------------------------- MODULE ExecLimit --------------------------------
(***************************************************************************)
(* The time limit of a command in a debug pod: from DEBUG_POD_EXEC_TIMEOUT  *)
(* (ConfigFromEnv, debugServer) and timeout_seconds (debug_pod_exec) to the *)
(* seconds given to timeout(1) in the pod and the deadline of the stream    *)
(* (Runner.Exec).  A time.Duration is a signed integer of Width bits that   *)
(* wraps; Second is the number of its units in a second.                    *)
(*                                                                          *)
(* The state follows the last command that was asked for: it may start late *)
(* or not at all, timeout(1) sends it one SIGTERM and waits, and its status *)
(* is on the way for a while after it is over.                              *)
(***************************************************************************)
EXTENDS Integers

CONSTANTS
    Width,      \* bits of a time.Duration
    Second,     \* time.Second
    Grace,      \* seconds the stream is kept open after the limit
    Settings,   \* durations DEBUG_POD_EXEC_TIMEOUT may hold, any sign
    Asked,      \* values of timeout_seconds
    MaxTime     \* bound on the clock, for model checking

ASSUME UnitsAssumption ==
    /\ Width \in Nat \ {0}
    /\ Second \in Nat \ {0}
    /\ Grace \in Nat \ {0}
    /\ MaxTime \in Nat
ASSUME WidthAssumption == 2 ^ (Width - 1) \in Nat \ {0}

Half == 2 ^ (Width - 1)

ASSUME SettingsAssumption == Settings \subseteq -Half..(Half - 1) /\ Asked \subseteq Int

VARIABLES
    server,    \* the process: starting, without debug tools, serving, exited
    execMax,   \* cfg.ExecTimeout
    timeout,   \* the limit of the command
    hasTimeout,  \* the image of the pod has timeout(1)
    secs,      \* what timeout(1) was given; 0 is no limit
    clock,     \* time since ectx was made
    began,     \* when the command started, by that clock
    left,      \* the caller's context is done
    command,   \* the command in the pod; termed: it was sent SIGTERM
    stream     \* the call of remoteExec

vars == <<server, execMax, timeout, hasTimeout, secs, clock, began, left, command, stream>>

TypeOK ==
    /\ server \in {"starting", "plain", "serving", "exited"}
    /\ execMax \in Int
    /\ timeout \in Int
    /\ hasTimeout \in BOOLEAN
    /\ secs \in Nat
    /\ clock \in 0..MaxTime
    /\ began \in 0..MaxTime
    /\ left \in BOOLEAN
    /\ command \in {"none", "asked", "running", "termed", "over"}
    /\ stream \in {"none", "open", "closed", "timedOut", "cancelled", "broken", "refused"}

Init ==
    /\ server = "starting"
    /\ execMax = 0
    /\ timeout = 0
    /\ hasTimeout \in BOOLEAN
    /\ secs = 0
    /\ clock = 0
    /\ began = 0
    /\ left = FALSE
    /\ command = "none"
    /\ stream = "none"

(* duration of ConfigFromEnv                                                 *)
Valid(d) == d > 0

(* ConfigFromEnv and debugServer: a setting that is invalid, of the timeout  *)
(* or (restOK) of another variable, ends the process even if the debug tools *)
(* are off; with the tools on, an image and a token are needed too.          *)
Configure(d, enabled, restOK, imageAndToken) ==
    /\ server = "starting"
    /\ server' = IF ~Valid(d) \/ ~restOK \/ (enabled /\ ~imageAndToken) THEN "exited"
                 ELSE IF enabled THEN "serving" ELSE "plain"
    /\ execMax' = IF server' = "serving" THEN d ELSE 0
    /\ UNCHANGED <<timeout, hasTimeout, secs, clock, began, left, command, stream>>

(* x as a time.Duration                                                      *)
Wrap(x) == ((x + Half) % (2 * Half)) - Half

(* Faulty variant: a limit that is not positive is kept.                     *)
FaultyLimit(seconds) ==
    LET t == Wrap(seconds * Second) IN IF t > execMax THEN execMax ELSE t

(* timeout_seconds as a Duration, or ExecTimeout if it is out of range.      *)
Limit(seconds) ==
    LET t == Wrap(seconds * Second) IN IF t <= 0 \/ t > execMax THEN execMax ELSE t

(* Exec, once the pod is known to be the caller's: ectx is made, and the API *)
(* server is asked for a stream and the command, to be run under timeout(1)  *)
(* if the image has it.                                                      *)
Exec(seconds) ==
    /\ server = "serving" /\ stream # "open"
    /\ timeout' = Limit(seconds)
    /\ secs' = IF hasTimeout THEN timeout' \div Second ELSE 0
    /\ clock' = 0 /\ began' = 0 /\ left' = FALSE
    /\ command' = "asked"
    /\ stream' = "open"
    /\ UNCHANGED <<server, execMax, hasTimeout>>

(* There is no stream: the API server refuses it, or the connection fails.   *)
ExecRefused ==
    /\ stream = "open" /\ command = "asked"
    /\ command' = "none"
    /\ stream' = "refused"
    /\ UNCHANGED <<server, execMax, timeout, hasTimeout, secs, clock, began, left>>

(* The kubelet starts the command, perhaps when nobody waits for it any more.*)
CommandStarts ==
    /\ command = "asked"
    /\ command' = "running" /\ began' = clock
    /\ UNCHANGED <<server, execMax, timeout, hasTimeout, secs, clock, left, stream>>

(* The command ends, of itself or by the signal.                             *)
CommandEnds ==
    /\ command \in {"running", "termed"}
    /\ command' = "over"
    /\ UNCHANGED <<server, execMax, timeout, hasTimeout, secs, clock, began, left, stream>>

(* timeout(1) sends SIGTERM, once, which the command may catch or ignore.    *)
LimitReached == command = "running" /\ secs > 0 /\ clock >= began + secs * Second

Terminate ==
    /\ LimitReached
    /\ command' = "termed"
    /\ UNCHANGED <<server, execMax, timeout, hasTimeout, secs, clock, began, left, stream>>

(* The status of the command arrives.                                        *)
StreamCloses ==
    /\ stream = "open" /\ command = "over"
    /\ stream' = "closed"
    /\ UNCHANGED <<server, execMax, timeout, hasTimeout, secs, clock, began, left, command>>

(* Faulty variant: no grace between the limit and the end of the stream.     *)
FaultyDeadline == timeout

(* The time that context.WithTimeout is given: a sum that wraps, too.        *)
Deadline == Wrap(timeout + Grace * Second)

(* ectx is done by its deadline or by the context of the caller.             *)
EctxDone == left \/ clock >= Deadline

(* ectx is done: the call returns, and the command is on its own.            *)
DeadlineReached == stream = "open" /\ clock >= Deadline

(* Faulty variant: the stream ends with the context of the caller only.      *)
FaultyStreamDeadline == DeadlineReached /\ FALSE /\ UNCHANGED vars

StreamDeadline ==
    /\ DeadlineReached
    /\ stream' = "timedOut"
    /\ UNCHANGED <<server, execMax, timeout, hasTimeout, secs, clock, began, left, command>>

(* The caller goes away.                                                     *)
CallerLeaves ==
    /\ stream # "none" /\ ~left
    /\ left' = TRUE
    /\ UNCHANGED <<server, execMax, timeout, hasTimeout, secs, clock, began, command, stream>>

StreamCancelled ==
    /\ stream = "open" /\ left
    /\ stream' = "cancelled"
    /\ UNCHANGED <<server, execMax, timeout, hasTimeout, secs, clock, began, left, command>>

(* The connection is lost; the command goes on, and may even start later.    *)
StreamBreaks ==
    /\ stream = "open"
    /\ stream' = "broken"
    /\ UNCHANGED <<server, execMax, timeout, hasTimeout, secs, clock, began, left, command>>

(* Time passes; timers fire when they are due.                               *)
Tick ==
    /\ stream # "none" /\ clock < MaxTime
    /\ ~LimitReached /\ ~DeadlineReached
    /\ clock' = clock + 1
    /\ UNCHANGED <<server, execMax, timeout, hasTimeout, secs, began, left, command, stream>>

Next ==
    \/ \E d \in Settings, enabled, restOK, imageAndToken \in BOOLEAN :
          Configure(d, enabled, restOK, imageAndToken)
    \/ \E n \in Asked : Exec(n)
    \/ ExecRefused \/ CommandStarts \/ CommandEnds \/ Terminate
    \/ StreamCloses \/ StreamDeadline \/ CallerLeaves \/ StreamCancelled \/ StreamBreaks
    \/ Tick

Spec == Init /\ [][Next]_vars

--------------------------------------------------------------------------------
(* "default and max set by the server": whatever timeout_seconds holds, zero, *)
(* negative or so large that it wraps, the limit is positive and at most     *)
(* what the server was configured with.                                      *)
LimitIsInRange == stream # "none" => 0 < timeout /\ timeout <= execMax

(* timeout + 5*time.Second does not fit a Duration: ectx is done at once.    *)
Overflows == timeout + Grace * Second >= Half

(* "timeout(1) stops the command in the pod, not only the stream here": when *)
(* the call has timed out, a command that started within Grace of it is over *)
(* or was sent SIGTERM; it is not left without a limit.  It needs an image   *)
(* with timeout(1), a limit of a whole second or more (a shorter one becomes *)
(* timeout 0, which is none) and one whose deadline does not overflow; and a *)
(* command that ignores SIGTERM runs on, for timeout(1) is given no -k.      *)
CommandIsSignalled ==
    (/\ stream = "timedOut" /\ hasTimeout /\ timeout >= Second /\ ~Overflows
     /\ began < Grace * Second)
    => command # "running"

(* The limit of a command is the one that was configured or a shorter one,   *)
(* and the command is signalled in the pod before the call gives it up.      *)
LimitHolds == LimitIsInRange /\ CommandIsSignalled

================================================================================
