------------------------------ MODULE BoundedRead ------------------------------
(***************************************************************************)
(* What the cached tool calls promise their callers, without a cache, a     *)
(* list or a flight: a call for a key is answered with something read for   *)
(* that key no longer than MaxAge before the call began, or with an error   *)
(* no older than MaxErrorAge; and a call only fails for a cancelled context *)
(* if the context of a call that is answered with it is cancelled.          *)
(***************************************************************************)
EXTENDS Integers

CONSTANTS Callers, Keys, IdleKey, MaxAge, MaxErrorAge, MaxTime

VARIABLES now, state, want, start, ctxDone, answer

readVars == <<now, state, want, start, ctxDone, answer>>

NoAnswer == [kind |-> "none", key |-> IdleKey, at |-> 0]

Answers == [kind : {"val", "api", "cancelled"}, key : Keys, at : 0..MaxTime]

Init ==
    /\ now = 0
    /\ state = [c \in Callers |-> "idle"]
    /\ want = [c \in Callers |-> IdleKey]
    /\ start = [c \in Callers |-> 0]
    /\ ctxDone = [c \in Callers |-> FALSE]
    /\ answer = [c \in Callers |-> NoAnswer]

(* A call for k begins.                                                      *)
Ask(c, k) ==
    /\ state[c] = "idle"
    /\ state' = [state EXCEPT ![c] = "pending"]
    /\ want' = [want EXCEPT ![c] = k]
    /\ start' = [start EXCEPT ![c] = now]
    /\ UNCHANGED <<now, ctxDone, answer>>

(* r may be the answer of call c, when it is given to all the calls in S.    *)
Allowed(c, r, S) ==
    /\ r.key = want[c]
    /\ r.at <= now
    /\ start[c] <= r.at + (IF r.kind = "val" THEN MaxAge ELSE MaxErrorAge)
    /\ r.kind = "cancelled" => \E d \in S : ctxDone[d]

(* The calls in S are answered, all with the same r.                         *)
Answer(S) ==
    /\ S # {}
    /\ \A c \in S : state[c] = "pending"
    /\ state' = [c \in Callers |-> IF c \in S THEN "answered" ELSE state[c]]
    /\ UNCHANGED <<now, want, start, ctxDone>>
    /\ \E r \in Answers :
          /\ \A c \in S : Allowed(c, r, S)
          /\ answer' = [c \in Callers |-> IF c \in S THEN r ELSE answer[c]]

Leave(c) ==
    /\ state[c] = "answered"
    /\ state' = [state EXCEPT ![c] = "idle"]
    /\ want' = [want EXCEPT ![c] = IdleKey]
    /\ start' = [start EXCEPT ![c] = 0]
    /\ ctxDone' = [ctxDone EXCEPT ![c] = FALSE]
    /\ answer' = [answer EXCEPT ![c] = NoAnswer]
    /\ UNCHANGED now

Cancel(c) ==
    /\ state[c] # "idle"
    /\ ctxDone' = [ctxDone EXCEPT ![c] = TRUE]
    /\ UNCHANGED <<now, state, want, start, answer>>

Tick ==
    /\ now < MaxTime
    /\ now' = now + 1
    /\ UNCHANGED <<state, want, start, ctxDone, answer>>

Next ==
    \/ \E c \in Callers, k \in Keys : Ask(c, k)
    \/ \E S \in SUBSET Callers : Answer(S)
    \/ \E c \in Callers : Leave(c) \/ Cancel(c)
    \/ Tick

Spec == Init /\ [][Next]_readVars

================================================================================
