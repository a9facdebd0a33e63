------------------------------ MODULE ExecCallProofs ------------------------------
(***************************************************************************)
(* Proofs about a call of Exec, in three parts.  The time limit: for every  *)
(* width of a Duration, every setting and every timeout_seconds, those that *)
(* wrap included, the limit of a command is in range, and timeout(1) signals *)
(* the command before its call times out.  The buffer: for every limit,     *)
(* every number of streams and every way they cut their output into pieces, *)
(* all of it is kept in order or counted.  The call: it takes no step but   *)
(* those of its two parts, so what was proved of each holds of the whole,   *)
(* in whatever order output, exit, deadline and return come; what it        *)
(* returns needs an invariant of both.                                      *)
(***************************************************************************)
EXTENDS ExecCall, TLAPS

(* The types that the argument needs, and the limit computed from the        *)
(* configured one.                                                           *)
LimitInv ==
    /\ TypeOK
    /\ server = "serving" => execMax > 0
    /\ stream # "none" => server = "serving" /\ 0 < timeout /\ timeout <= execMax
    /\ stream = "none" => command = "none"

(* A command under timeout(1) is given whole seconds that are not more than  *)
(* the limit of the stream, and has not run for longer without a signal.     *)
UnderTimeout == hasTimeout /\ timeout >= Second

StopInv ==
    /\ UnderTimeout /\ command \in {"asked", "running"} => secs > 0 /\ secs * Second <= timeout
    /\ UnderTimeout /\ command = "running" => clock <= began + secs * Second
    /\ CommandIsSignalled

(* A stream is given up when ectx is done.                                   *)
GivenUpInv ==
    /\ stream = "timedOut" => clock >= Deadline
    /\ stream = "cancelled" => left

Inv == LimitInv /\ StopInv /\ GivenUpInv

(* The conversion to a Duration gives an integer.                            *)
LEMMA WrapIsInt == ASSUME NEW x \in Int PROVE Wrap(x) \in Int
<1>1. Half \in Nat \ {0}
  BY WidthAssumption DEF Half
<1>2. (x + Half) % (2 * Half) \in Int
  BY <1>1
<1> QED
  BY <1>1, <1>2 DEF Wrap

(* Exec's check puts every timeout_seconds, wrapped or not, into the range   *)
(* that the configured timeout allows.                                       *)
LEMMA LimitInRange ==
    ASSUME NEW n \in Int, execMax \in Int, execMax > 0
    PROVE  Limit(n) \in Int /\ 0 < Limit(n) /\ Limit(n) <= execMax
<1> DEFINE t == Wrap(n * Second)
<1>1. t \in Int
  <2>1. n * Second \in Int
    BY UnitsAssumption
  <2> QED
    BY <2>1, WrapIsInt
<1>2. Limit(n) = IF t <= 0 \/ t > execMax THEN execMax ELSE t
  BY DEF Limit
<1> HIDE DEF t
<1> QED
  BY <1>1, <1>2

(* The whole seconds of a limit of a second or more.                         *)
LEMMA WholeSeconds ==
    ASSUME NEW t \in Int, t >= Second
    PROVE  /\ t \div Second \in Int
           /\ t \div Second > 0
           /\ (t \div Second) * Second <= t
           /\ 0 <= (t \div Second) * Second
<1>1. t \div Second \in Int /\ t \div Second > 0 /\ (t \div Second) * Second <= t
  BY UnitsAssumption
<1>2. ASSUME NEW q \in Int, q > 0 PROVE 0 <= q * Second
  BY <1>2, UnitsAssumption
<1> QED
  BY <1>1, <1>2

(* timeout(1) is never given a negative number.                              *)
LEMMA SecondsAreNat == ASSUME NEW t \in Int, 0 < t PROVE t \div Second \in Nat
<1>1. Second \in Int /\ Second > 0
  BY UnitsAssumption
<1>2. t \div Second \in Int /\ (t \div Second + 1) * Second > t
  BY <1>1
<1>3. ASSUME NEW q \in Int, (q + 1) * Second > t PROVE q >= 0
  <2>1. ASSUME q + 1 <= 0 PROVE (q + 1) * Second <= 0
    BY <1>1, <2>1
  <2> QED
    BY <1>1, <1>3, <2>1
<1> QED
  BY <1>2, <1>3

(* The stream is kept open longer than the command may run.                  *)
LEMMA GraceIsPositive == Second \in Nat /\ Grace * Second \in Nat /\ Grace * Second > 0
  BY UnitsAssumption

(* What fits a Duration is not changed by the conversion.                    *)
LEMMA WrapFits == ASSUME NEW x \in Nat, x < Half PROVE Wrap(x) = x
<1>1. Half \in Nat \ {0}
  BY WidthAssumption DEF Half
<1>2. ASSUME NEW h \in Nat \ {0}, x < h PROVE (x + h) % (2 * h) = x + h
  <2>1. x + h \in Nat /\ 2 * h \in Nat \ {0} /\ x + h < 2 * h
    BY <1>2
  <2>2. ASSUME NEW a \in Nat, NEW d \in Nat \ {0}, a < d PROVE a % d = a
    BY <2>2
  <2> QED
    BY <2>1, <2>2
<1>3. (x + Half) % (2 * Half) = x + Half
  BY <1>1, <1>2
<1>4. ASSUME NEW h \in Nat PROVE (x + h) - h = x
  OBVIOUS
<1>5. Wrap(x) = (x + Half) - Half
  BY <1>3, Zenon DEF Wrap
<1> QED
  BY <1>1, <1>4, <1>5

(* The deadline of ectx, if it does not overflow.                            *)
LEMMA DeadlineIsLate ==
    ASSUME timeout \in Int, 0 < timeout, ~Overflows
    PROVE  Deadline = timeout + Grace * Second
<1>1. Half \in Nat \ {0}
  BY WidthAssumption DEF Half
<1>2. timeout + Grace * Second \in Nat
  BY GraceIsPositive
<1>3. timeout + Grace * Second < Half
  BY <1>1, <1>2 DEF Overflows
<1> QED
  BY <1>2, <1>3, WrapFits DEF Deadline

(* The process starts without a command and not yet serving.                 *)
LEMMA InitInv == Init => Inv
<1> SUFFICES ASSUME Init PROVE Inv
  OBVIOUS
<1>1. LimitInv
  <2>1. clock \in 0..MaxTime /\ began \in 0..MaxTime /\ secs \in Nat
    BY UnitsAssumption DEF Init
  <2>2. left \in BOOLEAN /\ hasTimeout \in BOOLEAN
    BY Zenon DEF Init
  <2>3. execMax \in Int /\ timeout \in Int
    BY DEF Init
  <2> QED
    BY <2>1, <2>2, <2>3 DEF Init, LimitInv, TypeOK
<1>2. StopInv /\ GivenUpInv
  BY DEF Init, StopInv, CommandIsSignalled, GivenUpInv
<1> QED
  BY <1>1, <1>2 DEF Inv

(* Configuring changes no command.                                           *)
LEMMA ConfigureInv ==
    ASSUME Inv, NEW d \in Settings, NEW enabled \in BOOLEAN, NEW restOK \in BOOLEAN,
           NEW imageAndToken \in BOOLEAN, Configure(d, enabled, restOK, imageAndToken)
    PROVE  Inv'
<1>1. d \in Int
  BY SettingsAssumption, WidthAssumption DEF Half
<1>2. /\ server' \in {"starting", "plain", "serving", "exited"}
      /\ execMax' \in Int /\ (server' = "serving" => execMax' > 0)
  BY <1>1 DEF Configure, Valid
<1>3. /\ UNCHANGED <<timeout, hasTimeout, secs, clock, began, left, command, stream>>
      /\ stream = "none"
  BY DEF Configure, Inv, LimitInv, TypeOK
<1> QED
  BY <1>2, <1>3 DEF Inv, LimitInv, TypeOK, StopInv, UnderTimeout, CommandIsSignalled, GivenUpInv

(* A command is asked for with a limit in range, and the whole seconds of it.*)
LEMMA ExecInv == ASSUME Inv, NEW n \in Asked, Exec(n) PROVE Inv'
<1>1. /\ server = "serving" /\ UNCHANGED <<server, execMax, hasTimeout>>
      /\ timeout' = Limit(n) /\ clock' = 0 /\ began' = 0 /\ left' = FALSE
      /\ command' = "asked" /\ stream' = "open"
      /\ secs' = IF hasTimeout THEN timeout' \div Second ELSE 0
  BY DEF Exec
<1>2. execMax \in Int /\ execMax > 0
  BY <1>1 DEF Inv, LimitInv, TypeOK
<1>3. n \in Int
  BY SettingsAssumption
<1>4. timeout' \in Int /\ 0 < timeout' /\ timeout' <= execMax
  BY <1>1, <1>2, <1>3, LimitInRange
<1>5. secs' \in Nat /\ clock' \in 0..MaxTime /\ began' \in 0..MaxTime
  <2>1. timeout' \div Second \in Nat
    BY <1>4, SecondsAreNat
  <2> QED
    BY <1>1, <2>1, UnitsAssumption
<1>6. LimitInv'
  BY <1>1, <1>2, <1>4, <1>5 DEF Inv, LimitInv, TypeOK
<1>7. ASSUME UnderTimeout' PROVE secs' > 0 /\ secs' * Second <= timeout'
  <2>1. hasTimeout /\ timeout' >= Second
    BY <1>1, <1>7 DEF UnderTimeout
  <2>2. secs' = timeout' \div Second
    BY <1>1, <2>1
  <2> QED
    BY <1>4, <2>1, <2>2, WholeSeconds
<1> QED
  BY <1>1, <1>6, <1>7 DEF Inv, StopInv, CommandIsSignalled, GivenUpInv

(* A command that starts late is not one of those that are signalled in time.*)
LEMMA CommandStartsInv == ASSUME Inv, CommandStarts PROVE Inv'
<1>1. /\ UNCHANGED <<server, execMax, timeout, hasTimeout, secs, clock, left, stream>>
      /\ command = "asked" /\ command' = "running" /\ began' = clock
  BY DEF CommandStarts
<1>2. LimitInv' /\ GivenUpInv'
  BY <1>1 DEF Inv, LimitInv, GivenUpInv, TypeOK, Deadline
<1>3. clock \in Nat /\ secs * Second \in Nat /\ timeout \in Int
  BY GraceIsPositive DEF Inv, LimitInv, TypeOK
<1>4. ASSUME stream = "timedOut", ~Overflows PROVE ~(clock < Grace * Second)
  <2>1. clock >= timeout + Grace * Second /\ 0 < timeout
    BY <1>3, <1>4, DeadlineIsLate DEF Inv, GivenUpInv, LimitInv
  <2> QED
    BY <1>3, <2>1, GraceIsPositive
<1>5. CommandIsSignalled'
  BY <1>1, <1>4 DEF CommandIsSignalled, Overflows
<1>6. clock <= clock + secs * Second
  BY <1>3
<1> QED
  BY <1>1, <1>2, <1>5, <1>6 DEF Inv, StopInv, UnderTimeout

(* When the stream times out, a command that started in time has its signal. *)
LEMMA StreamDeadlineInv == ASSUME Inv, StreamDeadline PROVE Inv'
<1>1. /\ UNCHANGED <<server, execMax, timeout, hasTimeout, secs, clock, began, left, command>>
      /\ clock >= Deadline /\ stream = "open" /\ stream' = "timedOut"
  BY DEF StreamDeadline, DeadlineReached
<1>2. LimitInv'
  BY <1>1 DEF Inv, LimitInv, TypeOK
<1>3. timeout \in Int /\ 0 < timeout /\ clock \in Int /\ began \in Int /\ secs * Second \in Int
  BY <1>1, GraceIsPositive DEF Inv, LimitInv, TypeOK
<1>4. ASSUME ~Overflows PROVE clock >= timeout + Grace * Second
  BY <1>1, <1>3, <1>4, DeadlineIsLate
<1>5. ASSUME UnderTimeout, ~Overflows, began < Grace * Second, command = "running" PROVE FALSE
  <2>1. secs * Second <= timeout /\ clock <= began + secs * Second
    BY <1>5 DEF Inv, StopInv
  <2>2. clock >= timeout + Grace * Second
    BY <1>4, <1>5
  <2> QED
    BY <1>3, <1>5, <2>1, <2>2, GraceIsPositive
<1>6. CommandIsSignalled'
  BY <1>1, <1>5 DEF CommandIsSignalled, UnderTimeout, Overflows
<1> QED
  BY <1>1, <1>2, <1>6 DEF Inv, StopInv, UnderTimeout, GivenUpInv, Deadline

(* Time does not pass a limit that is reached.                               *)
LEMMA TickInv == ASSUME Inv, Tick PROVE Inv'
<1>1. /\ UNCHANGED <<server, execMax, timeout, hasTimeout, secs, began, left, command, stream>>
      /\ clock' = clock + 1 /\ clock < MaxTime /\ ~LimitReached
  BY DEF Tick
<1>2. LimitInv'
  BY <1>1, UnitsAssumption DEF Inv, LimitInv, TypeOK
<1>3. secs * Second \in Int /\ clock \in Int /\ began \in Int /\ timeout \in Int
  BY GraceIsPositive DEF Inv, LimitInv, TypeOK
<1>4. ASSUME UnderTimeout, command = "running" PROVE clock + 1 <= began + secs * Second
  <2>1. secs > 0
    BY <1>4 DEF Inv, StopInv
  <2>2. ~(clock >= began + secs * Second)
    BY <1>1, <1>4, <2>1 DEF LimitReached
  <2> QED
    BY <1>3, <2>2
<1>5. GivenUpInv'
  <2>1. Deadline \in Int
    BY <1>3, GraceIsPositive, WrapIsInt DEF Deadline
  <2>2. ASSUME clock >= Deadline PROVE clock + 1 >= Deadline
    BY <1>3, <2>1, <2>2
  <2>3. Deadline' = Deadline
    BY <1>1 DEF Deadline
  <2> QED
    BY <1>1, <2>2, <2>3 DEF Inv, GivenUpInv
<1> QED
  BY <1>1, <1>2, <1>4, <1>5 DEF Inv, StopInv, UnderTimeout, CommandIsSignalled, Overflows

(* Each action of the server, the pod and the clock keeps the invariant.      *)
LEMMA NextInv == Inv /\ [Next]_vars => Inv'
<1> SUFFICES ASSUME Inv, [Next]_vars PROVE Inv'
  OBVIOUS
<1> USE DEF Inv, LimitInv, TypeOK, StopInv, UnderTimeout, CommandIsSignalled, GivenUpInv, Overflows,
        Deadline
<1>1. CASE CommandEnds
  BY <1>1 DEF CommandEnds
<1>2. CASE Terminate
  BY <1>2 DEF Terminate, LimitReached
<1>3. CASE CallerLeaves
  BY <1>3 DEF CallerLeaves
<1>4. CASE StreamBreaks
  BY <1>4 DEF StreamBreaks
<1>5. CASE UNCHANGED vars
  BY <1>5 DEF vars
<1>6. CASE ExecRefused
  BY <1>6 DEF ExecRefused
<1>7. CASE StreamCloses
  BY <1>7 DEF StreamCloses
<1>8. CASE StreamCancelled
  BY <1>8 DEF StreamCancelled
<1> QED
  BY <1>1, <1>2, <1>3, <1>4, <1>5, <1>6, <1>7, <1>8, ConfigureInv, ExecInv, CommandStartsInv,
     StreamDeadlineInv, TickInv DEF Next

(* The invariant holds in every state of every behaviour.                    *)
LEMMA AlwaysInv == Spec => []Inv
  BY InitInv, NextInv, PTL DEF Spec

(* Server, command and stream keep their types; in particular timeout(1) is   *)
(* never given a negative number.                                            *)
THEOREM TypesAreKept == Spec => []TypeOK
<1>1. Inv => TypeOK
  BY DEF Inv, LimitInv, TypeOK
<1> QED
  BY <1>1, AlwaysInv, PTL

(* The limit given to a command is positive and at most ExecTimeout.         *)
THEOREM LimitsAreInRange == Spec => []LimitIsInRange
<1>1. Inv => LimitIsInRange
  BY DEF Inv, LimitInv, TypeOK, LimitIsInRange
<1> QED
  BY <1>1, AlwaysInv, PTL

(* Where timeout(1) is there and the limit is a second or more, a command    *)
(* that started in time is signalled before the call times out.              *)
THEOREM CommandsAreSignalled == Spec => []CommandIsSignalled
<1>1. Inv => CommandIsSignalled
  BY DEF Inv, StopInv
<1> QED
  BY <1>1, AlwaysInv, PTL

(* Together: the limit is in range and timeout(1) acts on it in the pod      *)
(* before the call times out.                                                *)
THEOREM LimitsHold == Spec => []LimitHolds
<1>1. LimitIsInRange /\ CommandIsSignalled => LimitHolds
  BY DEF LimitHolds
<1> QED
  BY <1>1, LimitsAreInRange, CommandsAreSignalled, PTL

--------------------------------------------------------------------------------
(* The output buffer.                                                        *)

(* The stream of all bytes has no gaps, and ends, for each stream, with its  *)
(* last byte: with it the next chunk leaves no gap either.                   *)
WrittenNoGaps ==
    /\ \A i \in 1..Len(written) : written[i].n > 1 =>
          \E j \in 1..(i - 1) :
              written[j] = [from |-> written[i].from, n |-> written[i].n - 1]
    /\ \A s \in Streams : sent[s] > 0 =>
          \E j \in 1..Len(written) : written[j] = [from |-> s, n |-> sent[s]]

BufInv ==
    /\ BufTypeOK
    /\ KeepsTheFirstBytes
    /\ WrittenNoGaps
    /\ TruncationIsReported

(* What a chunk is made of.                                                  *)
LEMMA ChunkFacts ==
    ASSUME BufTypeOK, NEW s \in Streams, NEW n \in Nat
    PROVE  /\ Chunk(s, n) \in Seq(Bytes)
           /\ Len(Chunk(s, n)) = n
           /\ \A i \in 1..n : Chunk(s, n)[i] = [from |-> s, n |-> sent[s] + i]
<1>1. sent[s] \in Nat
  BY DEF BufTypeOK
<1>2. \A i \in 1..n : [from |-> s, n |-> sent[s] + i] \in Bytes
  BY <1>1 DEF Bytes
<1> QED BY <1>2 DEF Chunk

(* What putting t behind s gives.                                            *)
LEMMA ConcatFacts ==
    ASSUME NEW s \in Seq(Bytes), NEW t \in Seq(Bytes)
    PROVE  /\ s \o t \in Seq(Bytes)
           /\ Len(s \o t) = Len(s) + Len(t)
           /\ \A i \in 1..Len(s) : (s \o t)[i] = s[i]
           /\ \A i \in (Len(s) + 1)..(Len(s) + Len(t)) : (s \o t)[i] = t[i - Len(s)]
<1>1. Len(s) \in Nat /\ Len(t) \in Nat
  OBVIOUS
<1>2. s \o t \in Seq(Bytes) /\ Len(s \o t) = Len(s) + Len(t)
  OBVIOUS
<1>3. ASSUME NEW i \in 1..Len(s) PROVE (s \o t)[i] = s[i]
  BY <1>1
<1>4. ASSUME NEW i \in (Len(s) + 1)..(Len(s) + Len(t))
      PROVE  (s \o t)[i] = t[i - Len(s)]
  BY <1>1
<1> QED BY <1>2, <1>3, <1>4

(* How long the buffer is once the stream is k bytes long.                   *)
Fill(k) == IF k <= Max THEN k ELSE Max

(* Write keeps as much of p as there is room for, and counts the rest.       *)
LEMMA KeepFacts ==
    ASSUME BufTypeOK, KeepsTheFirstBytes, NEW p \in Seq(Bytes), Keep(p)
    PROVE  /\ buf' \in Seq(Bytes)
           /\ Len(buf') = Fill(Len(written) + Len(p))
           /\ \A i \in 1..Len(buf) : buf'[i] = buf[i]
           /\ \A i \in (Len(buf) + 1)..Len(buf') : buf'[i] = p[i - Len(buf)]
           /\ dropped' = Len(written) + Len(p) - Len(buf')
           /\ dropped' \in Nat
<1> DEFINE room == Max - Len(buf)
<1>0. /\ Len(buf) \in Nat /\ Len(written) \in Nat /\ Len(p) \in Nat /\ Max \in Nat
      /\ dropped \in Nat /\ buf \in Seq(Bytes)
      /\ Len(buf) = Fill(Len(written))
      /\ dropped = Len(written) - Len(buf)
  BY BoundsAssumption DEF BufTypeOK, KeepsTheFirstBytes, Fill
<1>R. room \in Int /\ room >= 0
  BY <1>0 DEF Fill
<1>K. \/ room <= 0 /\ buf' = buf /\ dropped' = dropped + Len(p)
      \/ /\ room > 0 /\ Len(p) > room
         /\ buf' = buf \o SubSeq(p, 1, room) /\ dropped' = dropped + (Len(p) - room)
      \/ /\ room > 0 /\ Len(p) <= room
         /\ buf' = buf \o p /\ dropped' = dropped
  <2>1. /\ room <= 0 => buf' = buf /\ dropped' = dropped + Len(p)
        /\ ~(room <= 0) /\ Len(p) > room =>
              buf' = buf \o SubSeq(p, 1, room) /\ dropped' = dropped + (Len(p) - room)
        /\ ~(room <= 0) /\ ~(Len(p) > room) => buf' = buf \o p /\ dropped' = dropped
    BY Zenon DEF Keep
  <2> HIDE DEF room
  <2> QED BY <2>1, <1>R, <1>0
<1>1. CASE room <= 0 /\ buf' = buf /\ dropped' = dropped + Len(p)
  <2>1. Len(buf') = Fill(Len(written) + Len(p))
    BY <1>0, <1>1 DEF Fill
  <2> QED BY <2>1, <1>0, <1>1
<1>2. CASE /\ room > 0 /\ Len(p) > room
           /\ buf' = buf \o SubSeq(p, 1, room) /\ dropped' = dropped + (Len(p) - room)
  <2> DEFINE q == SubSeq(p, 1, room)
  <2>1. /\ q \in Seq(Bytes) /\ Len(q) = room
        /\ \A i \in 1..room : q[i] = p[i]
    <3>1. room \in 1..Len(p)
      BY <1>0, <1>R, <1>2
    <3> HIDE DEF room
    <3>2. q \in Seq(Bytes) /\ Len(q) = room
      BY <3>1, <1>0
    <3>3. ASSUME NEW i \in 1..room PROVE q[i] = p[i]
      BY <3>1, <1>0
    <3> QED BY <3>2, <3>3
  <2> HIDE DEF q
  <2>2. /\ buf' \in Seq(Bytes) /\ Len(buf') = Len(buf) + Len(q)
        /\ \A i \in 1..Len(buf) : buf'[i] = buf[i]
        /\ \A i \in (Len(buf) + 1)..(Len(buf) + Len(q)) : buf'[i] = q[i - Len(buf)]
    BY <2>1, <1>0, <1>2, ConcatFacts DEF q
  <2>3. Len(buf') = Max /\ Len(buf') = Fill(Len(written) + Len(p))
    BY <2>1, <2>2, <1>0, <1>2 DEF Fill
  <2>4. ASSUME NEW i \in (Len(buf) + 1)..Len(buf') PROVE buf'[i] = p[i - Len(buf)]
    <3>1. i - Len(buf) \in 1..room
      BY <2>3, <1>0
    <3> QED BY <3>1, <2>1, <2>2, <1>0
  <2>5. dropped' = Len(written) + Len(p) - Len(buf') /\ dropped' \in Nat
    <3>1. dropped' = dropped + (Len(p) - (Max - Len(buf))) /\ Len(p) > Max - Len(buf)
      BY <1>2
    <3>2. Len(buf') = Max
      BY <2>3
    <3> HIDE DEF room
    <3> QED BY <3>1, <3>2, <1>0
  <2> QED BY <2>2, <2>3, <2>4, <2>5
<1>3. CASE /\ room > 0 /\ Len(p) <= room
           /\ buf' = buf \o p /\ dropped' = dropped
  <2>1. /\ buf' \in Seq(Bytes) /\ Len(buf') = Len(buf) + Len(p)
        /\ \A i \in 1..Len(buf) : buf'[i] = buf[i]
        /\ \A i \in (Len(buf) + 1)..(Len(buf) + Len(p)) : buf'[i] = p[i - Len(buf)]
    BY <1>0, <1>3, ConcatFacts
  <2>2. Len(buf') = Fill(Len(written) + Len(p)) /\ dropped' = Len(written) + Len(p) - Len(buf')
    BY <2>1, <1>0, <1>3 DEF Fill
  <2> QED BY <2>1, <2>2, <1>0, <1>3
<1> QED BY <1>K, <1>1, <1>2, <1>3

(* Initially nothing is written.                                             *)
LEMMA InvInit == BufInit => BufInv
BY BoundsAssumption DEF BufInit, BufInv, BufTypeOK, Bytes, Shown, KeepsTheFirstBytes, WrittenNoGaps,
   TruncationIsReported

(* A Write keeps the invariant.                                              *)
LEMMA InvWrite ==
    ASSUME BufInv, NEW s \in Streams, NEW n \in 0..MaxChunk, Write(s, n)
    PROVE  BufInv'
<1> DEFINE p == Chunk(s, n)
<1>0. /\ n \in Nat /\ sent[s] \in Nat /\ Len(buf) \in Nat /\ Len(written) \in Nat
      /\ Max \in Nat /\ BufTypeOK /\ KeepsTheFirstBytes
  BY BoundsAssumption DEF BufInv, BufTypeOK
<1>1. /\ p \in Seq(Bytes) /\ Len(p) = n
      /\ \A i \in 1..n : p[i] = [from |-> s, n |-> sent[s] + i]
  BY <1>0, ChunkFacts
<1>2. /\ Keep(p) /\ written' = written \o p /\ shown' = shown
      /\ sent' = [sent EXCEPT ![s] = sent[s] + n]
  BY DEF Write
<1> HIDE DEF p
<1>3. /\ written' \in Seq(Bytes) /\ Len(written') = Len(written) + n
      /\ \A i \in 1..Len(written) : written'[i] = written[i]
      /\ \A i \in (Len(written) + 1)..(Len(written) + n) : written'[i] = p[i - Len(written)]
  BY <1>0, <1>1, <1>2, ConcatFacts DEF BufTypeOK
<1> DEFINE m == Len(buf')
<1>4. /\ buf' \in Seq(Bytes) /\ m = Fill(Len(written) + n)
      /\ \A i \in 1..Len(buf) : buf'[i] = buf[i]
      /\ \A i \in (Len(buf) + 1)..m : buf'[i] = p[i - Len(buf)]
      /\ dropped' = Len(written) + n - m /\ dropped' \in Nat
  BY <1>0, <1>1, <1>2, KeepFacts
<1>5. BufTypeOK'
  BY <1>0, <1>2, <1>3, <1>4 DEF BufTypeOK
<1>6. KeepsTheFirstBytes'
  <2>1. Len(buf) = Fill(Len(written))
    BY <1>0 DEF KeepsTheFirstBytes, Fill
  <2>2. ASSUME NEW i \in 1..Len(buf') PROVE buf'[i] = written'[i]
    <3>1. CASE i <= Len(buf)
      <4>1. i \in 1..Len(buf) /\ i \in 1..Len(written)
        BY <3>1, <2>1, <1>0, <1>4 DEF Fill
      <4> QED BY <4>1, <1>0, <1>3, <1>4 DEF KeepsTheFirstBytes
    <3>2. CASE i > Len(buf)
      <4>1. /\ Len(buf) = Len(written)
            /\ i \in (Len(buf) + 1)..m /\ i \in (Len(written) + 1)..(Len(written) + n)
        BY <3>2, <2>1, <1>0, <1>4 DEF Fill
      <4> QED BY <4>1, <1>3, <1>4
    <3> QED BY <3>1, <3>2, <1>0, <1>4
  <2> QED BY <2>2, <1>0, <1>3, <1>4 DEF KeepsTheFirstBytes, Fill
<1>7. WrittenNoGaps'
  <2>1. ASSUME NEW i \in 1..Len(written'), written'[i].n > 1
        PROVE  \E j \in 1..(i - 1) :
                  written'[j] = [from |-> written'[i].from, n |-> written'[i].n - 1]
    <3>1. CASE i <= Len(written)
      <4>1. i \in 1..Len(written) /\ written'[i] = written[i]
        BY <3>1, <1>0, <1>3
      <4>2. PICK j \in 1..(i - 1) :
                written[j] = [from |-> written[i].from, n |-> written[i].n - 1]
        BY <4>1, <2>1 DEF BufInv, WrittenNoGaps
      <4>3. j \in 1..Len(written)
        BY <4>1, <4>2, <1>0
      <4> QED BY <4>1, <4>2, <4>3, <1>3
    <3>2. CASE i > Len(written)
      <4> DEFINE k == i - Len(written)
      <4>1. k \in 1..n /\ written'[i] = p[k] /\ p[k] = [from |-> s, n |-> sent[s] + k]
        BY <3>2, <1>0, <1>1, <1>3
      <4>2. CASE k = 1
        <5>1. sent[s] > 0 /\ written'[i].from = s /\ written'[i].n - 1 = sent[s]
          BY <4>1, <4>2, <2>1, <1>0
        <5>2. PICK j \in 1..Len(written) : written[j] = [from |-> s, n |-> sent[s]]
          BY <5>1 DEF BufInv, WrittenNoGaps
        <5>3. j \in 1..(i - 1) /\ written'[j] = written[j]
          BY <5>2, <3>2, <1>0, <1>3
        <5> QED BY <5>1, <5>2, <5>3
      <4>3. CASE k # 1
        <5>1. k - 1 \in 1..n /\ p[k - 1] = [from |-> s, n |-> sent[s] + (k - 1)]
          BY <4>1, <4>3, <1>0, <1>1
        <5>2. /\ i - 1 \in (Len(written) + 1)..(Len(written) + n)
              /\ written'[i - 1] = p[k - 1]
          <6>1. i \in Int /\ Len(written) \in Int /\ n \in Int /\ k = i - Len(written)
            BY <1>0, <1>3
          <6>2. i - 1 \in (Len(written) + 1)..(Len(written) + n)
            BY <5>1, <6>1
          <6>3. (i - 1) - Len(written) = k - 1
            BY <6>1
          <6> QED BY <6>2, <6>3, <1>3
        <5>3. written'[i].from = s /\ written'[i].n - 1 = sent[s] + (k - 1)
          BY <4>1, <1>0
        <5>4. i - 1 \in 1..(i - 1)
          BY <5>2, <1>0
        <5> QED BY <5>1, <5>2, <5>3, <5>4
      <4> QED BY <4>2, <4>3
    <3> QED BY <3>1, <3>2, <1>0, <1>3
  <2>2. ASSUME NEW t \in Streams, sent'[t] > 0
        PROVE  \E j \in 1..Len(written') : written'[j] = [from |-> t, n |-> sent'[t]]
    <3>1. CASE t = s /\ n > 0
      <4>1. sent'[t] = sent[s] + n /\ n \in 1..n
        BY <3>1, <1>0, <1>2 DEF BufTypeOK
      <4>2. /\ Len(written) + n \in 1..Len(written')
            /\ Len(written) + n \in (Len(written) + 1)..(Len(written) + n)
        BY <3>1, <1>0, <1>3
      <4>3. written'[Len(written) + n] = p[n]
        BY <4>2, <1>0, <1>3
      <4> QED BY <3>1, <4>1, <4>2, <4>3, <1>1
    <3>2. CASE ~(t = s /\ n > 0)
      <4>1. sent'[t] = sent[t]
        BY <3>2, <1>0, <1>2 DEF BufTypeOK
      <4>2. PICK j \in 1..Len(written) : written[j] = [from |-> t, n |-> sent[t]]
        BY <4>1, <2>2 DEF BufInv, WrittenNoGaps
      <4>3. j \in 1..Len(written')
        BY <4>2, <1>0, <1>3
      <4> QED BY <4>1, <4>2, <4>3, <1>3
    <3> QED BY <3>1, <3>2
  <2> QED BY <2>1, <2>2 DEF WrittenNoGaps
<1>8. TruncationIsReported'
  BY <1>2 DEF BufInv, TruncationIsReported
<1> QED BY <1>5, <1>6, <1>7, <1>8 DEF BufInv

(* So does String.                                                           *)
LEMMA InvString == BufInv /\ String => BufInv'
<1> SUFFICES ASSUME BufInv, String PROVE BufInv'
  OBVIOUS
<1>1. /\ buf' = buf /\ dropped' = dropped /\ written' = written /\ sent' = sent
      /\ shown' = [text |-> buf, more |-> dropped, total |-> Len(written)]
  BY DEF String
<1>2. BufTypeOK'
  BY <1>1 DEF BufInv, BufTypeOK, Shown
<1>3. KeepsTheFirstBytes' /\ WrittenNoGaps'
  BY <1>1 DEF BufInv, KeepsTheFirstBytes, WrittenNoGaps
<1>4. TruncationIsReported'
  BY <1>1 DEF BufInv, BufTypeOK, KeepsTheFirstBytes, TruncationIsReported
<1> QED BY <1>2, <1>3, <1>4 DEF BufInv

(* A new buffer is empty, and nothing was shown of it.                       *)
LEMMA InvNewBuffer == BufInv /\ NewBuffer => BufInv'
BY BoundsAssumption DEF NewBuffer, BufInv, BufTypeOK, Bytes, Shown, KeepsTheFirstBytes,
   WrittenNoGaps, TruncationIsReported

(* The invariant holds in every state of every behaviour.                    *)
THEOREM AlwaysBufInv == BufSpec => []BufInv
<1>1. BufInv /\ UNCHANGED bufVars => BufInv'
  BY DEF bufVars, BufInv, BufTypeOK, KeepsTheFirstBytes, WrittenNoGaps, TruncationIsReported
<1>2. BufInv /\ [BufNext]_bufVars => BufInv'
  BY <1>1, InvWrite, InvString, InvNewBuffer DEF BufNext
<1> QED BY <1>2, InvInit, PTL DEF BufSpec

(* limitBuffer keeps exactly the first max bytes that the streams write, and  *)
(* counts exactly the rest.                                                   *)
THEOREM FirstBytesAreKept == BufSpec => []KeepsTheFirstBytes
<1>1. BufInv => KeepsTheFirstBytes
  BY DEF BufInv
<1> QED BY <1>1, AlwaysBufInv, PTL

(* What is kept of stdout and of stderr is a prefix of each.                  *)
THEOREM StreamsKeepPrefixes == BufSpec => []NoGaps
<1>1. BufInv => NoGaps
  <2> SUFFICES ASSUME BufInv, NEW i \in 1..Len(buf), buf[i].n > 1
               PROVE  \E j \in 1..(i - 1) : buf[j] = [from |-> buf[i].from, n |-> buf[i].n - 1]
    BY DEF NoGaps
  <2>1. /\ Len(buf) \in Nat /\ Len(written) \in Nat /\ Max \in Nat
        /\ Len(buf) <= Len(written)
    BY BoundsAssumption DEF BufInv, BufTypeOK, KeepsTheFirstBytes
  <2>2. i \in 1..Len(written) /\ buf[i] = written[i]
    BY <2>1 DEF BufInv, KeepsTheFirstBytes
  <2>3. PICK j \in 1..(i - 1) : written[j] = [from |-> written[i].from, n |-> written[i].n - 1]
    BY <2>2 DEF BufInv, WrittenNoGaps
  <2>4. j \in 1..Len(buf)
    BY <2>1, <2>3
  <2> QED BY <2>2, <2>3, <2>4 DEF BufInv, KeepsTheFirstBytes
<1> QED BY <1>1, AlwaysBufInv, PTL

(* The text Exec returns and the number of bytes it reports as missing add up *)
(* to what the command had written.                                           *)
THEOREM ReportsAddUp == BufSpec => []TruncationIsReported
<1>1. BufInv => TruncationIsReported
  BY DEF BufInv
<1> QED BY <1>1, AlwaysBufInv, PTL

(* All of it together: the output of a command is kept from its beginning,    *)
(* stream by stream, and what is missing is counted.                          *)
THEOREM OutputsAreAccounted == BufSpec => []OutputIsAccounted
<1>1. KeepsTheFirstBytes /\ NoGaps /\ TruncationIsReported => OutputIsAccounted
  BY DEF OutputIsAccounted
<1> QED BY <1>1, FirstBytesAreKept, StreamsKeepPrefixes, ReportsAddUp, PTL

--------------------------------------------------------------------------------
(* The call as a whole.                                                      *)

(* Every step of a call is one of the time limit or leaves it alone, and one *)
(* of the buffer or leaves it alone.                                         *)
LEMMA StepsOfTheParts == [CallNext]_allVars => [Next]_vars /\ [BufNext]_bufVars
<1> SUFFICES ASSUME [CallNext]_allVars PROVE [Next]_vars /\ [BufNext]_bufVars
  OBVIOUS
<1>1. CASE Started
  BY <1>1 DEF Started, Next
<1>2. CASE Call
  BY <1>2 DEF Call, Next, BufNext
<1>3. CASE \/ Refused \/ Begins \/ Ends \/ Signalled \/ StatusArrives
           \/ Expires \/ Interrupted \/ TimePasses
  BY <1>3 DEF Refused, Begins, Ends, Signalled, StatusArrives, Expires, Interrupted, TimePasses,
              Next
<1>4. ASSUME NEW s \in Streams, Produce(s) PROVE [Next]_vars /\ [BufNext]_bufVars
  BY <1>4 DEF Produce
<1>5. ASSUME NEW s \in Streams, NEW n \in 1..MaxChunk, Deliver(s, n)
      PROVE  [Next]_vars /\ [BufNext]_bufVars
  <2>1. n \in 0..MaxChunk
    BY BoundsAssumption
  <2> QED
    BY <1>5, <2>1 DEF Deliver, BufNext
<1>6. CASE Return
  BY <1>6 DEF Return, BufNext
<1>7. CASE UNCHANGED allVars
  BY <1>7 DEF allVars
<1> QED
  BY <1>1, <1>2, <1>3, <1>4, <1>5, <1>6, <1>7 DEF CallNext

(* A call of Exec implements both of its parts.                              *)
THEOREM CallIsBoth == CallSpec => Spec /\ BufSpec
<1>1. CallInit => Init /\ BufInit
  BY DEF CallInit
<1> QED
  BY <1>1, StepsOfTheParts, PTL DEF CallSpec, Spec, BufSpec

(* In a call of Exec, too, all output is kept in order or counted.           *)
THEOREM CallAccountsOutput == CallSpec => []OutputIsAccounted
  BY CallIsBoth, OutputsAreAccounted, PTL

(* In a call of Exec, too, the limit is in range and a command under         *)
(* timeout(1) is signalled before the call times out.                        *)
THEOREM CallLimitsHold == CallSpec => []LimitHolds
  BY CallIsBoth, LimitsHold, PTL

--------------------------------------------------------------------------------
(* What a result says stays true because the stream of a call that returned  *)
(* is no longer open, and one that closed did so with all output delivered   *)
(* and its command over.                                                     *)
EndInv ==
    /\ made \in [Streams -> 0..MaxBytes]
    /\ code \in {0, 1}
    /\ result \in {"idle", "pending", "text", "exit", "timedOut"}
    /\ stream = "none" => result = "idle"
    /\ stream = "open" => result = "pending"
    /\ stream = "closed" => command = "over" /\ sent = made

ResultFacts == TextIsSuccess /\ ExitIsShown /\ TimeoutIsLate

(* A call begins without output and without a result.                        *)
LEMMA EndInvCall == ASSUME Call PROVE EndInv' /\ ResultFacts'
<1>1. /\ made' = [s \in Streams |-> 0] /\ code' = 0 /\ result' = "pending"
      /\ command' = "asked" /\ stream' = "open"
  BY DEF Call, Exec, Nothing
<1>2. made' \in [Streams -> 0..MaxBytes]
  BY <1>1, BoundsAssumption
<1> QED
  BY <1>1, <1>2 DEF EndInv, ResultFacts, TextIsSuccess, ExitIsShown, TimeoutIsLate

(* Output changes neither the command nor the stream nor the result, and     *)
(* nothing arrives when everything has.                                      *)
LEMMA EndInvOutput ==
    ASSUME BufTypeOK, EndInv, NEW s \in Streams,
           Produce(s) \/ \E n \in 1..MaxChunk : Deliver(s, n)
    PROVE  EndInv' /\ ResultFacts'
<1>1. /\ UNCHANGED <<command, stream, code, result>> /\ result = "pending"
      /\ made' \in [Streams -> 0..MaxBytes]
      /\ stream = "closed" => UNCHANGED <<made, sent>>
  <2>1. CASE Produce(s)
    <3>1. made[s] + 1 \in 0..MaxBytes
      BY <2>1, BoundsAssumption DEF Produce, EndInv
    <3> QED
      BY <2>1, <3>1 DEF Produce, EndInv, vars
  <2>2. CASE \E n \in 1..MaxChunk : Deliver(s, n)
    <3>1. PICK n \in 1..MaxChunk : Deliver(s, n)
      BY <2>2
    <3>2. UNCHANGED <<command, stream, code, result, made>> /\ result = "pending"
      BY <3>1 DEF Deliver, vars, callVars
    <3>3. sent # made
      <4>1. sent[s] \in Nat /\ sent[s] + n <= made[s] /\ n >= 1 /\ n \in Nat
        BY <3>1, BoundsAssumption DEF Deliver, BufTypeOK
      <4> QED
        BY <4>1
    <3> QED
      BY <3>2, <3>3 DEF EndInv
  <2> QED
    BY <2>1, <2>2
<1> QED
  BY <1>1 DEF EndInv, ResultFacts, TextIsSuccess, ExitIsShown, TimeoutIsLate

(* ectx is not done before the limit of the command, but for a caller that   *)
(* left.                                                                     *)
LEMMA DoneIsLate ==
    ASSUME Inv, stream # "none", EctxDone
    PROVE  left \/ Overflows \/ clock >= timeout
<1>1. timeout \in Int /\ 0 < timeout /\ clock \in Int
  BY DEF Inv, LimitInv, TypeOK
<1>2. ASSUME ~left, ~Overflows PROVE clock >= timeout
  <2>1. clock >= timeout + Grace * Second
    BY <1>1, <1>2, DeadlineIsLate DEF EctxDone
  <2> QED
    BY <1>1, <2>1, GraceIsPositive
<1> QED
  BY <1>2

(* Exec returns once its stream is not open; what it returns fits the end.   *)
LEMMA EndInvReturn == ASSUME Inv, EndInv, Return PROVE EndInv' /\ ResultFacts'
<1>1. /\ UNCHANGED <<command, stream, code, made, sent, written, left, clock, timeout>>
      /\ stream # "open" /\ result = "pending"
      /\ shown'.total = Len(written)
      /\ result' = Outcome
  BY DEF Return, String, vars
<1>2. /\ result' = "text" => stream = "closed" /\ code = 0
      /\ result' \in {"exit", "timedOut"} => stream # "closed" \/ code # 0
      /\ result' = "exit" => ~EctxDone
      /\ result' = "timedOut" => EctxDone
      /\ result' \in {"text", "exit", "timedOut"}
  BY <1>1 DEF Outcome, ExecError
<1>3. stream # "none"
  BY <1>1 DEF EndInv
<1>4. result' = "timedOut" => left \/ Overflows \/ clock >= timeout
  BY <1>2, <1>3, DoneIsLate
<1>5. stream \in {"timedOut", "cancelled"} => EctxDone
  BY DEF Inv, GivenUpInv, EctxDone
<1>6. EndInv' /\ TextIsSuccess'
  BY <1>1, <1>2 DEF EndInv, TextIsSuccess, Complete
<1>7. ExitIsShown'
  BY <1>1, <1>2, <1>3, <1>5 DEF EndInv, ExitIsShown, Complete, Inv, LimitInv, TypeOK
<1>8. TimeoutIsLate'
  BY <1>1, <1>2, <1>4 DEF TimeoutIsLate, Overflows
<1> QED
  BY <1>6, <1>7, <1>8 DEF ResultFacts

(* The ends of commands and streams.                                         *)
LEMMA EndInvEnds ==
    ASSUME Inv, EndInv, ResultFacts,
           \/ Started \/ Refused \/ Begins \/ Ends \/ Signalled
           \/ StatusArrives \/ Expires \/ Interrupted \/ TimePasses
    PROVE  EndInv' /\ ResultFacts'
<1> USE DEF ResultFacts, TextIsSuccess, ExitIsShown, TimeoutIsLate, Complete, Overflows
<1>1. CASE Started
  BY <1>1 DEF Started, Configure, bufVars, callVars, EndInv
<1>2. CASE Refused \/ Begins \/ Signalled
  <2>1. /\ UNCHANGED <<sent, shown, written, made, result, code, clock, left, timeout>>
        /\ command # "over" /\ command' # "over"
        /\ \/ UNCHANGED stream
           \/ stream = "open" /\ stream' = "refused"
    BY <1>2 DEF Refused, ExecRefused, Begins, CommandStarts, Signalled, Terminate, LimitReached,
                bufVars, callVars
  <2> QED
    BY <2>1 DEF EndInv
<1>3. CASE Ends
  <2>1. /\ UNCHANGED <<sent, shown, written, made, result, stream, clock, left, timeout>>
        /\ code' \in {0, 1} /\ command \in {"running", "termed"} /\ command' = "over"
    BY <1>3 DEF Ends, CommandEnds, bufVars
  <2> QED
    BY <2>1 DEF EndInv
<1>4. CASE StatusArrives
  <2>1. /\ UNCHANGED <<sent, shown, written, made, result, code, command, clock, left, timeout>>
        /\ stream = "open" /\ stream' = "closed" /\ command = "over" /\ sent = made
    BY <1>4 DEF StatusArrives, StreamCloses, bufVars, callVars
  <2> QED
    BY <2>1 DEF EndInv
<1>5. CASE Expires \/ Interrupted
  <2>1. /\ UNCHANGED <<sent, shown, written, made, result, code, command, clock, timeout>>
        /\ \/ stream = "open" /\ stream' \in {"timedOut", "cancelled", "broken"}
           \/ UNCHANGED stream /\ result = "pending"
    BY <1>5 DEF Expires, StreamDeadline, DeadlineReached, StreamCancelled, Interrupted,
                CallerLeaves, StreamBreaks, bufVars, callVars
  <2> QED
    BY <2>1 DEF EndInv
<1>6. CASE TimePasses
  <2>1. /\ UNCHANGED <<sent, shown, written, made, result, code, command, stream, left, timeout>>
        /\ clock' = clock + 1
    BY <1>6 DEF TimePasses, Tick, bufVars, callVars
  <2>2. clock >= timeout => clock + 1 >= timeout
    BY DEF Inv, LimitInv, TypeOK
  <2> QED
    BY <2>1, <2>2 DEF EndInv
<1> QED
  BY <1>1, <1>2, <1>3, <1>4, <1>5, <1>6

(* Both facts hold in every state of a call.                                 *)
LEMMA AlwaysEndInv == CallSpec => [](EndInv /\ ResultFacts)
<1>1. CallInit => EndInv /\ ResultFacts
  BY BoundsAssumption DEF CallInit, Init, Nothing, EndInv, ResultFacts, TextIsSuccess, ExitIsShown,
                          TimeoutIsLate
<1>2. Inv /\ BufInv /\ EndInv /\ ResultFacts /\ [CallNext]_allVars => EndInv' /\ ResultFacts'
  <2> SUFFICES ASSUME Inv, BufInv, EndInv, ResultFacts, [CallNext]_allVars
               PROVE  EndInv' /\ ResultFacts'
    OBVIOUS
  <2>1. CASE UNCHANGED allVars
    BY <2>1 DEF allVars, vars, bufVars, callVars, EndInv, ResultFacts, TextIsSuccess, ExitIsShown,
                TimeoutIsLate, Complete, Overflows
  <2>2. BufTypeOK
    BY DEF BufInv
  <2> QED
    BY <2>1, <2>2, EndInvCall, EndInvOutput, EndInvReturn, EndInvEnds DEF CallNext
<1> QED
  BY <1>1, <1>2, CallIsBoth, AlwaysInv, AlwaysBufInv, PTL DEF CallSpec

(* What Exec tells its caller fits what became of the command: plain text    *)
(* means exit code 0 and all of the output shown or counted, a success whose *)
(* status has arrived is reported as one, and nothing times out early.       *)
THEOREM ResultsFit == CallSpec => []ResultFitsTheEnd
<1>1. TypeOK /\ BufInv /\ EndInv /\ ResultFacts => ResultFitsTheEnd
  BY DEF BufInv, EndInv, ResultFacts, CallTypeOK, ResultFitsTheEnd
<1> QED
  BY <1>1, CallIsBoth, TypesAreKept, AlwaysBufInv, AlwaysEndInv, PTL

================================================================================
