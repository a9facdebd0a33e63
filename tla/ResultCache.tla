------------------------------ MODULE ResultCache ------------------------------
(***************************************************************************)
(* The result cache in front of the read-only tools (internal/mcp/cache.go *)
(* and the handler wrapper of addTool in internal/mcp/server.go): a TTL     *)
(* and LRU bounded map, with concurrent identical calls collapsed by        *)
(* singleflight.                                                            *)
(*                                                                          *)
(* A caller is the goroutine of one tool call; a key is a tool name with    *)
(* its raw arguments.  Each lock region of the cache and of singleflight is *)
(* one action, and so is each read the handler makes of the API server:     *)
(* everything else interleaves.                                             *)
(*                                                                          *)
(* A result text is abstracted to what can be told apart about it: the key  *)
(* whose handler produced it, the time of the handler's first read, and     *)
(* whether every read the handler made succeeded.                           *)
(***************************************************************************)
EXTENDS Integers, Sequences

CONSTANTS
    Callers,      \* goroutines that serve tool calls
    Keys,         \* cache keys: tool name + raw arguments
    Multi,        \* keys whose handler makes more than one API read
    Lenient,      \* ... and drops the error of a read after the first
                  \* (get_pod, get_workload, list_services, list_policies)
    Max,          \* resultCache.max
    TTL,          \* resultCache.ttl
    FlightTime,   \* longest time a flight takes (K8S_TIMEOUT per read)
    MaxTime       \* bound on the clock, for model checking

ASSUME KeysAssumption ==
    /\ Keys # {}
    /\ Multi \subseteq Keys
    /\ Lenient \subseteq Multi
ASSUME BoundsAssumption ==
    /\ Max \in Nat \ {0}
    /\ TTL \in Nat
    /\ FlightTime \in Nat
    /\ MaxTime \in Nat

VARIABLES
    now,       \* the monotonic clock that time.Now() reads
    items,     \* resultCache.items: key -> entry (a function on the cached keys)
    order,     \* resultCache.order: keys, front = most recently used
    flights,   \* singleflight.Group.m: key -> the call in flight
    pc,        \* where a caller is in do()
    key,       \* the key a caller asks for
    start,     \* when the call began
    ctxDone,   \* the caller's own context is cancelled
    out        \* the result a caller holds

vars == <<now, items, order, flights, pc, key, start, ctxDone, out>>

Times == 0..MaxTime

Kinds == {"none", "val", "api", "cancelled"}

(* What do() may return: nothing yet, a result text, an API error, or the   *)
(* error of a cancelled context.                                            *)
Results == [kind : Kinds, key : Keys, at : Times, full : BOOLEAN]

Value(k, t, f) == [kind |-> "val", key |-> k, at |-> t, full |-> f]
Error(k, e, t) == [kind |-> e, key |-> k, at |-> t, full |-> FALSE]
Nothing(k) == Error(k, "none", 0)

(* The key of a caller that is not in a call; which one does not matter.     *)
IdleKey == CHOOSE k \in Keys : TRUE

Entries == [val : Results, expires : Nat]
Flights == [leader : Callers, began : Times]

IsPartialFcn(f, S, T) == DOMAIN f \subseteq S /\ f \in [DOMAIN f -> T]

(* Where a caller is.  "wait" is a caller joined to someone else's flight;   *)
(* the stages from "recheck" to "complete" belong to the leader of a flight. *)
FetchStages == {"call", "more", "put"}
LeaderStages == FetchStages \cup {"recheck", "complete"}
PCs == LeaderStages \cup {"idle", "get", "join", "wait", "done"}

TypeOK ==
    /\ now \in Times
    /\ IsPartialFcn(items, Keys, Entries)
    /\ order \in Seq(Keys)
    /\ IsPartialFcn(flights, Keys, Flights)
    /\ pc \in [Callers -> PCs]
    /\ key \in [Callers -> Keys]
    /\ start \in [Callers -> Times]
    /\ ctxDone \in [Callers -> BOOLEAN]
    /\ out \in [Callers -> Results]

--------------------------------------------------------------------------------
(* container/list: the operations the cache uses.                           *)

PushFront(s, k) == [i \in 1..(Len(s) + 1) |-> IF i = 1 THEN k ELSE s[i - 1]]

Back(s) == s[Len(s)]

DropBack(s) == [i \in 1..(Len(s) - 1) |-> s[i]]

RemoveAt(s, p) == [i \in 1..(Len(s) - 1) |-> IF i < p THEN s[i] ELSE s[i + 1]]

(* The place of an element that is in the list.                              *)
Position(s, k) == CHOOSE p \in 1..Len(s) : s[p] = k

Remove(s, k) == RemoveAt(s, Position(s, k))

MoveToFront(s, k) == PushFront(Remove(s, k), k)

Without(f, k) == [x \in DOMAIN f \ {k} |-> f[x]]

With(f, k, e) == [x \in DOMAIN f \cup {k} |-> IF x = k THEN e ELSE f[x]]

(* Faulty variant: entries never expire.                                     *)
FaultyExpired(k) == FALSE

Expired(k) == now > items[k].expires

Hit(k) == k \in DOMAIN items /\ ~Expired(k)

(* Faulty variant: an expired entry leaves the map but not the list.         *)
FaultyGetEffect(k) ==
    /\ items' = IF k \in DOMAIN items /\ Expired(k) THEN Without(items, k) ELSE items
    /\ order' = IF k \in DOMAIN items THEN MoveToFront(order, k) ELSE order

(* get's effect on the cache: a hit becomes the most recently used entry, an *)
(* expired entry is removed, a missing one changes nothing.                  *)
GetEffect(k) ==
    IF k \notin DOMAIN items THEN UNCHANGED <<items, order>>
    ELSE IF Expired(k)
         THEN items' = Without(items, k) /\ order' = Remove(order, k)
         ELSE items' = items /\ order' = MoveToFront(order, k)

(* Faulty variant: a full cache evicts the most recently used entry.         *)
FaultyPutEffect(k, v) ==
    LET e == [val |-> v, expires |-> now + TTL] IN
    IF k \in DOMAIN items \/ Len(order) < Max
    THEN items' = With(items, k, e) /\ order' = PushFront(order, k)
    ELSE /\ items' = Without(With(items, k, e), Head(order))
         /\ order' = PushFront(Tail(order), k)

(* put's effect: refresh an entry in place, or push a new one and evict from *)
(* the back while the list is longer than max (which one eviction restores). *)
PutEffect(k, v) ==
    LET e == [val |-> v, expires |-> now + TTL] IN
    IF k \in DOMAIN items
    THEN items' = With(items, k, e) /\ order' = MoveToFront(order, k)
    ELSE IF Len(order) < Max
         THEN items' = With(items, k, e) /\ order' = PushFront(order, k)
         ELSE /\ items' = Without(With(items, k, e), Back(order))
              /\ order' = PushFront(DropBack(order), k)

--------------------------------------------------------------------------------
Init ==
    /\ now = 0
    /\ items = [k \in {} |-> Nothing(k)]
    /\ order = << >>
    /\ flights = [k \in {} |-> Nothing(k)]
    /\ pc = [c \in Callers |-> "idle"]
    /\ key = [c \in Callers |-> IdleKey]
    /\ start = [c \in Callers |-> 0]
    /\ ctxDone = [c \in Callers |-> FALSE]
    /\ out = [c \in Callers |-> Nothing(IdleKey)]

(* A tool call arrives: the wrapper computes the key and enters do().        *)
Begin(c, k) ==
    /\ pc[c] = "idle"
    /\ pc' = [pc EXCEPT ![c] = "get"]
    /\ key' = [key EXCEPT ![c] = k]
    /\ start' = [start EXCEPT ![c] = now]
    /\ out' = [out EXCEPT ![c] = Nothing(k)]
    /\ UNCHANGED <<now, items, order, flights, ctxDone>>

(* do's first get: a hit answers the call.                                   *)
Get(c) ==
    /\ pc[c] = "get"
    /\ GetEffect(key[c])
    /\ IF Hit(key[c])
       THEN /\ pc' = [pc EXCEPT ![c] = "done"]
            /\ out' = [out EXCEPT ![c] = items[key[c]].val]
       ELSE /\ pc' = [pc EXCEPT ![c] = "join"]
            /\ UNCHANGED out
    /\ UNCHANGED <<now, flights, key, start, ctxDone>>

(* Faulty variant: no singleflight, every miss runs the handler.             *)
FaultyJoin(c) ==
    /\ pc[c] = "join"
    /\ pc' = [pc EXCEPT ![c] = "recheck"]
    /\ flights' = With(flights, key[c], [leader |-> c, began |-> now])
    /\ UNCHANGED <<now, items, order, key, start, ctxDone, out>>

(* singleflight's Do: wait for the flight of this key, or start one.         *)
Join(c) ==
    /\ pc[c] = "join"
    /\ IF key[c] \in DOMAIN flights
       THEN /\ pc' = [pc EXCEPT ![c] = "wait"]
            /\ UNCHANGED flights
       ELSE /\ pc' = [pc EXCEPT ![c] = "recheck"]
            /\ flights' = With(flights, key[c], [leader |-> c, began |-> now])
    /\ UNCHANGED <<now, items, order, key, start, ctxDone, out>>

(* Faulty variant: the leader does not look into the cache again.            *)
FaultyRecheck(c) ==
    /\ pc[c] = "recheck"
    /\ pc' = [pc EXCEPT ![c] = "call"]
    /\ UNCHANGED <<now, items, order, flights, key, start, ctxDone, out>>

(* The leader's second get, inside the flight.                               *)
Recheck(c) ==
    /\ pc[c] = "recheck"
    /\ GetEffect(key[c])
    /\ IF Hit(key[c])
       THEN /\ pc' = [pc EXCEPT ![c] = "complete"]
            /\ out' = [out EXCEPT ![c] = items[key[c]].val]
       ELSE /\ pc' = [pc EXCEPT ![c] = "call"]
            /\ UNCHANGED out
    /\ UNCHANGED <<now, flights, key, start, ctxDone>>

(* The handler's first read succeeds.  It runs with the leader's context, so *)
(* it cannot succeed once that is cancelled.                                 *)
FirstRead(c) ==
    /\ pc[c] = "call"
    /\ ~ctxDone[c]
    /\ pc' = [pc EXCEPT ![c] = "more"]
    /\ out' = [out EXCEPT ![c] = Value(key[c], now, TRUE)]
    /\ UNCHANGED <<now, items, order, flights, key, start, ctxDone>>

(* The handler ends with a result: its later reads succeeded (or it makes    *)
(* none), and the text is rendered.                                          *)
HandlerDone(c) ==
    /\ pc[c] = "more"
    /\ ctxDone[c] => key[c] \notin Multi
    /\ pc' = [pc EXCEPT ![c] = "put"]
    /\ UNCHANGED <<now, items, order, flights, key, start, ctxDone, out>>

(* Faulty variant: an error is cached like a result.                         *)
FaultyHandlerError(c) ==
    /\ pc[c] \in {"call", "more"}
    /\ pc' = [pc EXCEPT ![c] = "put"]
    /\ out' = [out EXCEPT ![c] =
                  Error(key[c], IF ctxDone[c] THEN "cancelled" ELSE "api", now)]
    /\ UNCHANGED <<now, items, order, flights, key, start, ctxDone>>

(* The handler returns an error: a read fails, on its own or because the     *)
(* leader's context is cancelled.                                            *)
HandlerError(c) ==
    /\ \/ pc[c] = "call"
       \/ pc[c] = "more" /\ key[c] \in Multi \ Lenient
    /\ pc' = [pc EXCEPT ![c] = "complete"]
    /\ out' = [out EXCEPT ![c] =
                  Error(key[c], IF ctxDone[c] THEN "cancelled" ELSE "api", now)]
    /\ UNCHANGED <<now, items, order, flights, key, start, ctxDone>>

(* A later read fails in a handler that drops that error: the handler        *)
(* returns a result without the data.                                        *)
HandlerPartial(c) ==
    /\ pc[c] = "more"
    /\ key[c] \in Lenient
    /\ pc' = [pc EXCEPT ![c] = "put"]
    /\ out' = [out EXCEPT ![c].full = FALSE]
    /\ UNCHANGED <<now, items, order, flights, key, start, ctxDone>>

Put(c) ==
    /\ pc[c] = "put"
    /\ PutEffect(key[c], out[c])
    /\ pc' = [pc EXCEPT ![c] = "complete"]
    /\ UNCHANGED <<now, flights, key, start, ctxDone, out>>

(* Callers waiting for the flight of k.                                      *)
Waiters(k) == {w \in Callers : pc[w] = "wait" /\ key[w] = k}

(* Faulty variant: the flight ends without waking the waiters.               *)
FaultyComplete(c) ==
    /\ pc[c] = "complete"
    /\ pc' = [pc EXCEPT ![c] = "done"]
    /\ flights' = Without(flights, key[c])
    /\ UNCHANGED <<now, items, order, key, start, ctxDone, out>>

(* singleflight ends the flight: the key is free again, and the leader and   *)
(* every waiter return the same result or error.                             *)
Complete(c) ==
    /\ pc[c] = "complete"
    /\ LET S == Waiters(key[c]) \cup {c} IN
       /\ pc' = [d \in Callers |-> IF d \in S THEN "done" ELSE pc[d]]
       /\ out' = [d \in Callers |-> IF d \in S THEN out[c] ELSE out[d]]
    /\ flights' = Without(flights, key[c])
    /\ UNCHANGED <<now, items, order, key, start, ctxDone>>

(* The wrapper renders the result or the error, and the call is over.        *)
Return(c) ==
    /\ pc[c] = "done"
    /\ pc' = [pc EXCEPT ![c] = "idle"]
    /\ key' = [key EXCEPT ![c] = IdleKey]
    /\ start' = [start EXCEPT ![c] = 0]
    /\ ctxDone' = [ctxDone EXCEPT ![c] = FALSE]
    /\ out' = [out EXCEPT ![c] = Nothing(IdleKey)]
    /\ UNCHANGED <<now, items, order, flights>>

(* The client goes away or cancels the request.                              *)
Cancel(c) ==
    /\ pc[c] # "idle"
    /\ ~ctxDone[c]
    /\ ctxDone' = [ctxDone EXCEPT ![c] = TRUE]
    /\ UNCHANGED <<now, items, order, flights, pc, key, start, out>>

(* Time passes; no flight lasts longer than FlightTime.                      *)
Tick ==
    /\ now < MaxTime
    /\ \A k \in DOMAIN flights : now < flights[k].began + FlightTime
    /\ now' = now + 1
    /\ UNCHANGED <<items, order, flights, pc, key, start, ctxDone, out>>

(* The steps a caller's goroutine takes once its call has begun.             *)
Handler(c) ==
    \/ FirstRead(c)
    \/ HandlerDone(c)
    \/ HandlerError(c)
    \/ HandlerPartial(c)

Do(c) ==
    \/ Get(c)
    \/ Join(c)
    \/ Recheck(c)
    \/ Handler(c)
    \/ Put(c)
    \/ Complete(c)
    \/ Return(c)

Next ==
    \/ \E c \in Callers : (\E k \in Keys : Begin(c, k)) \/ Do(c) \/ Cancel(c)
    \/ Tick

Spec == Init /\ [][Next]_vars

(* The Go scheduler runs every goroutine, and every API read ends within     *)
(* K8S_TIMEOUT: a call that has begun keeps taking steps.                    *)
Fairness == \A c \in Callers : WF_vars(Do(c))

FairSpec == Spec /\ Fairness

--------------------------------------------------------------------------------
(* Properties.                                                               *)

(* The map and the list of the cache always hold the same keys, each once,   *)
(* and never more than max of them: get and put change both under the lock,  *)
(* so memory stays bounded whatever callers ask for.                         *)
CacheConsistent ==
    /\ \A i, j \in 1..Len(order) : order[i] = order[j] => i = j
    /\ \A k \in Keys : k \in DOMAIN items <=> \E i \in 1..Len(order) : order[i] = k
    /\ Len(order) <= Max

(* The state of the cache: its types, and the map with its list.             *)
CacheInv == TypeOK /\ CacheConsistent

(* "runs fn once (collapsing concurrent identical calls via singleflight)":  *)
(* no two callers are ever inside the handler for the same key.              *)
OneFetchPerKey ==
    \A c, d \in Callers :
        (pc[c] \in FetchStages /\ pc[d] \in FetchStages /\ key[c] = key[d]) => c = d

(* The second get inside the flight makes the handler run only for keys that *)
(* are not cached, and no other caller can cache the key meanwhile: put      *)
(* never replaces an entry that is still there.                              *)
FetchOnlyMissing ==
    \A c \in Callers : pc[c] \in FetchStages => key[c] \notin DOMAIN items

(* do asks the API server for a key only when it must: one caller at a time,  *)
(* and never while the answer is cached.                                     *)
FetchOnlyWhenNeeded == OneFetchPerKey /\ FetchOnlyMissing

(* A flight is never left behind: each one has a leader that is still        *)
(* running it, and a caller only ever waits for a flight that exists.  A     *)
(* waiter without a flight would wait for ever.                              *)
NoLostFlight ==
    /\ \A k \in DOMAIN flights :
          LET c == flights[k].leader IN pc[c] \in LeaderStages /\ key[c] = k
    /\ \A c \in Callers :
          pc[c] = "wait" => key[c] \in DOMAIN flights

(* How much older than the beginning of the call an answer may be: the TTL,   *)
(* plus the flight that fetched it, plus the flight that found it again.     *)
MaxAge == TTL + 2 * FlightTime

(* A call gets the result for the very key it asked for, and one that was    *)
(* read from the API server at most MaxAge before the call began.            *)
BoundedStaleness ==
    \A c \in Callers : pc[c] = "done" /\ out[c].kind = "val" =>
        /\ out[c].key = key[c]
        /\ start[c] <= out[c].at + MaxAge

(* "Errors are never cached": an error a call gets was produced by a flight   *)
(* the call could join, so it is never older than one flight.                *)
ErrorsNotCached ==
    \A c \in Callers : pc[c] = "done" /\ out[c].kind # "val" =>
        /\ out[c].kind # "none"
        /\ start[c] <= out[c].at + FlightTime

(* A cached entry only leaves the cache because it is expired, or because it *)
(* is the least recently used one of a full cache that takes a new key.      *)
EvictionStep ==
    \A k \in DOMAIN items \ DOMAIN items' :
        \/ now > items[k].expires
        \/ /\ Len(order) = Max
           /\ k = Back(order)
           /\ \E c \in Callers : pc[c] = "put" /\ key[c] \notin DOMAIN items
EvictionOnlyWhenDue == [][EvictionStep]_vars

(* Every call that begins is answered: a waiter by its leader, a leader by   *)
(* its own flight, even if contexts are cancelled on the way.                *)
EveryCallReturns == \A c \in Callers : pc[c] # "idle" ~> pc[c] = "idle"

(* The abstract specification of a cached read, under the obvious mapping: a  *)
(* call is pending until it is "done", and only then holds an answer.        *)
CallState(c) ==
    CASE pc[c] = "idle" -> "idle"
      [] pc[c] = "done" -> "answered"
      [] OTHER -> "pending"

CallAnswer(c) ==
    IF pc[c] = "done"
    THEN [kind |-> out[c].kind, key |-> out[c].key, at |-> out[c].at]
    ELSE [kind |-> "none", key |-> IdleKey, at |-> 0]

Read == INSTANCE BoundedRead WITH
            MaxErrorAge <- FlightTime,
            state <- [c \in Callers |-> CallState(c)],
            want <- key,
            answer <- [c \in Callers |-> CallAnswer(c)]

(* The cache implements BoundedRead: whatever is cached, evicted or shared,  *)
(* each step of it is a step a caller of a plain bounded read could see.     *)
ImplementsBoundedRead == Read!Spec

================================================================================
