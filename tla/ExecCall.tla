--------------------------------- MODULE ExecCall --------------------------------
(***************************************************************************)
(* One call of Runner.Exec as a whole: the time limit (ExecLimit), the      *)
(* buffer its output goes to (LimitBuffer), and what the caller is told.    *)
(* Output and status are on their way from the pod while the command, its   *)
(* stream and the context of the call end in any order; the goroutines that *)
(* copy the output outlive a stream that was given up.                      *)
(***************************************************************************)
EXTENDS ExecLimit, LimitBuffer

VARIABLES
    made,     \* how many bytes the command has put out on each stream
    code,     \* its exit code, 0 or 1, once it has ended
    result    \* idle, pending, or what Exec returned: the text, the text with
              \* "[exit: ...]", or a time-out with the output so far

callVars == <<made, code, result>>

CallTypeOK ==
    /\ TypeOK /\ BufTypeOK
    /\ made \in [Streams -> 0..MaxBytes]
    /\ code \in {0, 1}
    /\ result \in {"idle", "pending", "text", "exit", "timedOut"}

Nothing == [s \in Streams |-> 0]

CallInit ==
    /\ Init /\ BufInit
    /\ made = Nothing /\ code = 0 /\ result = "idle"

(* The process starts.                                                       *)
Started ==
    /\ \E d \in Settings, enabled, restOK, imageAndToken \in BOOLEAN :
          Configure(d, enabled, restOK, imageAndToken)
    /\ UNCHANGED <<bufVars, callVars>>

(* Exec with a buffer of its own; the command is asked for.                  *)
Call ==
    /\ result # "pending"
    /\ \E n \in Asked : Exec(n)
    /\ NewBuffer
    /\ made' = Nothing /\ code' = 0 /\ result' = "pending"

(* There is no stream.                                                       *)
Refused == ExecRefused /\ UNCHANGED <<bufVars, callVars>>

Begins == CommandStarts /\ UNCHANGED <<bufVars, callVars>>

(* The command, or what it left behind in the pod, puts out a byte.          *)
Produce(s) ==
    /\ command \in {"running", "termed", "over"} /\ stream # "closed"
    /\ result = "pending" /\ made[s] < MaxBytes
    /\ made' = [made EXCEPT ![s] = @ + 1]
    /\ UNCHANGED <<vars, bufVars, code, result>>

(* Bytes arrive and are written to the buffer, also after the call has given *)
(* up on the stream, until Exec has read it; later ones change nothing.      *)
Deliver(s, n) ==
    /\ result = "pending" /\ sent[s] + n <= made[s]
    /\ Write(s, n)
    /\ UNCHANGED <<vars, callVars>>

(* The command ends with an exit code.  After SIGTERM it may be any too: the *)
(* timeout(1) of coreutils has one of its own, that of busybox has not.      *)
Ends == CommandEnds /\ code' \in {0, 1} /\ UNCHANGED <<bufVars, made, result>>

Signalled == Terminate /\ UNCHANGED <<bufVars, callVars>>

(* The status comes after all of the output.                                 *)
StatusArrives == StreamCloses /\ sent = made /\ UNCHANGED <<bufVars, callVars>>

(* ectx is done while the stream is open.                                    *)
Expires == (StreamDeadline \/ StreamCancelled) /\ UNCHANGED <<bufVars, callVars>>

(* The caller goes away, or the connection is lost.                          *)
Interrupted ==
    /\ result = "pending" /\ (CallerLeaves \/ StreamBreaks)
    /\ UNCHANGED <<bufVars, callVars>>

(* The clock is followed as long as the call or its command may need it.     *)
TimePasses ==
    /\ result = "pending" \/ command \in {"asked", "running"}
    /\ Tick /\ UNCHANGED <<bufVars, callVars>>

(* The error of r.exec, which is that of the stream or of the command.       *)
ExecError == stream # "closed" \/ code # 0

(* Faulty variant: the deadline is looked at before the error.               *)
FaultyOutcome == IF EctxDone THEN "timedOut" ELSE IF ExecError THEN "exit" ELSE "text"

(* What Exec returns when r.exec is back; ectx may be done only by then.     *)
Outcome == IF ~ExecError THEN "text" ELSE IF EctxDone THEN "timedOut" ELSE "exit"

(* Exec's end.                                                               *)
Return ==
    /\ result = "pending" /\ stream # "open"
    /\ String
    /\ result' = Outcome
    /\ UNCHANGED <<vars, made, code>>

CallNext ==
    \/ Started \/ Call \/ Refused \/ Begins \/ Ends \/ Signalled
    \/ StatusArrives \/ Expires \/ Interrupted \/ TimePasses \/ Return
    \/ \E s \in Streams : Produce(s) \/ \E n \in 1..MaxChunk : Deliver(s, n)

allVars == <<vars, bufVars, callVars>>

(* Time passes, timers fire, bytes that were sent arrive and Exec returns;   *)
(* nothing is assumed of the command, nor that its status ever arrives.      *)
Fairness ==
    /\ WF_allVars(TimePasses) /\ WF_allVars(Signalled) /\ WF_allVars(Expires)
    /\ WF_allVars(\E s \in Streams, n \in 1..MaxChunk : Deliver(s, n))
    /\ WF_allVars(Return)

CallSpec == CallInit /\ [][CallNext]_allVars /\ Fairness

--------------------------------------------------------------------------------
(* Plain text means that the command is over with exit code 0 and that all   *)
(* of its output, on both streams, is shown or counted as dropped.  "Non-zero *)
(* exit codes are returned with the output": so is it for "[exit: ...]" if   *)
(* the status had arrived; otherwise that is a lost or refused connection,   *)
(* and not one that was given up.                                            *)
Complete == sent = made /\ shown.total = Len(written)

TextIsSuccess == result = "text" => command = "over" /\ code = 0 /\ Complete

ExitIsShown ==
    result = "exit" =>
        \/ stream = "closed" /\ command = "over" /\ code # 0 /\ Complete
        \/ stream \in {"broken", "refused"}

(* A success whose status has arrived is reported as one, even if ectx is    *)
(* done while Exec returns; and what is reported as timed out took at least  *)
(* its limit, unless the caller has left or the deadline overflows.  Exit    *)
(* code 0 with a status still on its way counts as timed out or lost.        *)
TimeoutIsLate ==
    /\ result \in {"exit", "timedOut"} => ~(stream = "closed" /\ code = 0)
    /\ result = "timedOut" => left \/ Overflows \/ clock >= timeout

(* What the caller is told fits what became of the command.                  *)
ResultFitsTheEnd == CallTypeOK /\ TextIsSuccess /\ ExitIsShown /\ TimeoutIsLate

(* Every call returns, whatever the command does: its stream is given up at  *)
(* the latest Grace after the limit.                                         *)
EveryExecReturns == result = "pending" ~> result # "pending"

================================================================================
