---------------------------- MODULE HttpServerProofs ----------------------------
(***************************************************************************)
(* For any number of requests, and whenever the signal comes: a request is  *)
(* cut off only by a stop that was asked for or that the exit code reports, *)
(* and the process leaves no state of its own undefined on the way.         *)
(***************************************************************************)
EXTENDS HttpServer, TLAPS

(* Only a signal wakes the goroutine that shuts the server down, and only it *)
(* calls Shutdown; the exit code is there exactly when the process has ended *)
(* and is 0 only after a signal.                                             *)
StopInv ==
    /\ stopper # "waiting" => signalled
    /\ inShutdown <=> stopper # "waiting"
    /\ main = "exited" <=> code # -1
    /\ code = 0 => signalled
    /\ timeUp => signalled

Inv == TypeOK /\ StopInv /\ CutsAreAccountedFor

(* The process starts without a signal and without a request.                *)
LEMMA InitInv == Init => Inv
<1> SUFFICES ASSUME Init PROVE Inv
  OBVIOUS
<1>1. TypeOK
  BY DEF Init, TypeOK
<1>2. StopInv
  BY DEF Init, StopInv
<1>3. CutsAreAccountedFor
  BY DEF Init, CutsAreAccountedFor
<1> QED
  BY <1>1, <1>2, <1>3 DEF Inv

(* What cutting requests off does to them.                                   *)
LEMMA CutType ==
    ASSUME TypeOK PROVE Cut \in [Requests -> {"new", "active", "answered", "cut"}]
  BY DEF TypeOK, Cut, Active

(* A step of the main goroutine.                                             *)
LEMMA MainInv == ASSUME Inv, Main PROVE Inv'
<1>1. CASE Listen
  BY <1>1 DEF Listen, Inv, TypeOK, StopInv, CutsAreAccountedFor
<1>2. CASE ListenFails
  BY <1>2 DEF ListenFails, Inv, TypeOK, StopInv, CutsAreAccountedFor
<1>3. CASE ServerClosed
  BY <1>3 DEF ServerClosed, Inv, TypeOK, StopInv, CutsAreAccountedFor
<1>4. CASE Exit
  <2>1. TypeOK'
    BY <1>4, CutType DEF Exit, Inv, TypeOK
  <2>2. StopInv'
    BY <1>4 DEF Exit, Inv, TypeOK, StopInv
  <2>3. CutsAreAccountedFor'
    BY <1>4 DEF Exit, CutsAreAccountedFor
  <2> QED
    BY <2>1, <2>2, <2>3 DEF Inv
<1> QED
  BY <1>1, <1>2, <1>3, <1>4 DEF Main

(* A step of the goroutine that shuts the server down: it cuts requests off  *)
(* only after a signal.                                                      *)
LEMMA StopperInv == ASSUME Inv, Stopper PROVE Inv'
<1>1. CASE Shutdown
  BY <1>1 DEF Shutdown, Inv, TypeOK, StopInv, CutsAreAccountedFor
<1>2. CASE Drained
  BY <1>2 DEF Drained, Inv, TypeOK, StopInv, CutsAreAccountedFor
<1>3. CASE TimeUp
  BY <1>3 DEF TimeUp, Inv, TypeOK, StopInv, CutsAreAccountedFor
<1>4. CASE Close
  <2>1. TypeOK'
    BY <1>4, CutType DEF Close, Inv, TypeOK
  <2>2. StopInv' /\ signalled'
    BY <1>4 DEF Close, Inv, TypeOK, StopInv
  <2> QED
    BY <2>1, <2>2 DEF Inv, CutsAreAccountedFor
<1> QED
  BY <1>1, <1>2, <1>3, <1>4 DEF Stopper

(* A request that begins or is answered is not cut off.                      *)
LEMMA RequestInv ==
    ASSUME Inv, NEW r \in Requests, Accept(r) \/ Respond(r) PROVE Inv'
<1>1. /\ UNCHANGED <<signalled, main, listening, inShutdown, stopper, timeUp, failed, code>>
      /\ \E s \in {"active", "answered"} : req' = [req EXCEPT ![r] = s]
  BY DEF Accept, Respond
<1>2. /\ TypeOK'
      /\ \A q \in Requests : req'[q] = "cut" => req[q] = "cut"
  BY <1>1 DEF Inv, TypeOK
<1> QED
  BY <1>1, <1>2 DEF Inv, StopInv, CutsAreAccountedFor

(* Every step keeps the invariant.                                           *)
LEMMA NextInv == Inv /\ [Next]_vars => Inv'
<1> SUFFICES ASSUME Inv, [Next]_vars PROVE Inv'
  OBVIOUS
<1>1. CASE Signal
  BY <1>1 DEF Signal, Inv, TypeOK, StopInv, CutsAreAccountedFor
<1>2. CASE UNCHANGED vars
  BY <1>2 DEF vars, Inv, TypeOK, StopInv, CutsAreAccountedFor
<1> QED
  BY <1>1, <1>2, MainInv, StopperInv, RequestInv DEF Next

(* The process keeps its types, and a supervisor never sees requests dropped *)
(* by a server that stopped of itself and exits as if told to.               *)
THEOREM CutsHaveAReason == Spec => []CutInv
<1>1. Inv => CutInv
  BY DEF Inv, CutInv
<1> QED
  BY <1>1, InitInv, NextInv, PTL DEF Spec

================================================================================
