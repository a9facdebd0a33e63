------------------------------ MODULE LimitBuffer ------------------------------
(***************************************************************************)
(* limitBuffer of internal/debugpod/debugpod.go: the output of a command in *)
(* a debug pod.  The stdout and the stderr stream of the exec write into it *)
(* from goroutines of their own, and Exec reads it with String when the     *)
(* command ends or times out, possibly while they still write.  Write and   *)
(* String each hold the mutex from beginning to end.                        *)
(*                                                                          *)
(* A byte is its stream and its place in that stream.                       *)
(***************************************************************************)
EXTENDS Integers, Sequences

CONSTANTS
    Streams,     \* the streams that write: stdout and stderr
    Max,         \* limitBuffer.max
    MaxChunk,    \* bound on the bytes of one Write
    MaxBytes     \* bound on the bytes a stream writes, for model checking

ASSUME BoundsAssumption ==
    /\ Max \in Nat \ {0}
    /\ MaxChunk \in Nat
    /\ MaxBytes \in Nat

VARIABLES
    buf,       \* limitBuffer.buf
    dropped,   \* limitBuffer.dropped
    written,   \* every byte written so far, in the order of the Writes
    sent,      \* how many bytes each stream has written
    shown      \* what String returned last: the text, the number it reports
               \* as dropped, and how much had been written by then

bufVars == <<buf, dropped, written, sent, shown>>

Bytes == [from : Streams, n : Nat]

Shown == [text : Seq(Bytes), more : Nat, total : Nat]

BufTypeOK ==
    /\ buf \in Seq(Bytes)
    /\ dropped \in Nat
    /\ written \in Seq(Bytes)
    /\ sent \in [Streams -> Nat]
    /\ shown \in Shown

BufInit ==
    /\ buf = << >>
    /\ dropped = 0
    /\ written = << >>
    /\ sent = [s \in Streams |-> 0]
    /\ shown = [text |-> << >>, more |-> 0, total |-> 0]

(* A call of Exec begins with a buffer of its own.                           *)
NewBuffer ==
    /\ buf' = << >> /\ dropped' = 0 /\ written' = << >>
    /\ sent' = [s \in Streams |-> 0]
    /\ shown' = [text |-> << >>, more |-> 0, total |-> 0]

(* The next n bytes of stream s.                                             *)
Chunk(s, n) == [i \in 1..n |-> [from |-> s, n |-> sent[s] + i]]

(* Faulty variant: a chunk that does not fit is dropped as a whole.          *)
FaultyKeep(p) ==
    LET room == Max - Len(buf) IN
    IF Len(p) > room
    THEN buf' = buf /\ dropped' = dropped + Len(p)
    ELSE buf' = buf \o p /\ dropped' = dropped

(* Write's three cases: no room, some room, room for all of p.               *)
Keep(p) ==
    LET room == Max - Len(buf) IN
    IF room <= 0
    THEN buf' = buf /\ dropped' = dropped + Len(p)
    ELSE IF Len(p) > room
         THEN buf' = buf \o SubSeq(p, 1, room) /\ dropped' = dropped + (Len(p) - room)
         ELSE buf' = buf \o p /\ dropped' = dropped

Write(s, n) ==
    /\ sent[s] + n <= MaxBytes
    /\ Keep(Chunk(s, n))
    /\ written' = written \o Chunk(s, n)
    /\ sent' = [sent EXCEPT ![s] = sent[s] + n]
    /\ UNCHANGED shown

(* String: the text, and the note with the number of dropped bytes if any    *)
(* were dropped.                                                             *)
String ==
    /\ shown' = [text |-> buf, more |-> dropped, total |-> Len(written)]
    /\ UNCHANGED <<buf, dropped, written, sent>>

BufNext ==
    \/ \E s \in Streams, n \in 0..MaxChunk : Write(s, n)
    \/ String \/ NewBuffer

BufSpec == BufInit /\ [][BufNext]_bufVars

--------------------------------------------------------------------------------
(* "limitBuffer keeps the first max bytes written and counts the rest", in   *)
(* whatever pieces the two streams write them.                               *)
KeepsTheFirstBytes ==
    /\ Len(buf) = IF Len(written) <= Max THEN Len(written) ELSE Max
    /\ \A i \in 1..Len(buf) : buf[i] = written[i]
    /\ dropped = Len(written) - Len(buf)

(* Each stream's output is kept as a prefix: no byte of a stream is in the   *)
(* buffer unless the one before it is there, further to the front.           *)
NoGaps ==
    \A i \in 1..Len(buf) : buf[i].n > 1 =>
        \E j \in 1..(i - 1) : buf[j] = [from |-> buf[i].from, n |-> buf[i].n - 1]

(* What Exec returns accounts for every byte written by then: the text and   *)
(* the number it reports as missing add up, also when String runs in the     *)
(* middle of the output.                                                     *)
TruncationIsReported == Len(shown.text) + shown.more = shown.total

(* What is kept, what is shown and what is counted as dropped are together   *)
(* the output, in its order, however the streams interleave and whenever     *)
(* String runs.                                                              *)
OutputIsAccounted == KeepsTheFirstBytes /\ NoGaps /\ TruncationIsReported

================================================================================
