--------------------------- MODULE ResultCacheProofs ---------------------------
(***************************************************************************)
(* Proofs about ResultCache, for every number of callers, keys and entries  *)
(* and every TTL and flight time.  First what the list operations do to the *)
(* set of keys a list holds; then the inductive invariant Inv, one step per *)
(* action; then the properties, and last that the cache implements          *)
(* BoundedRead.                                                             *)
(***************************************************************************)
EXTENDS ResultCache, TLAPS

(* A list holds a key; a list holds no key twice.                            *)
Holds(s, k) == \E i \in 1..Len(s) : s[i] = k
NoDup(s) == \A i, j \in 1..Len(s) : s[i] = s[j] => i = j

(* Putting a key that is not in the list at its front.                       *)
LEMMA PushFrontFacts ==
    ASSUME NEW s \in Seq(Keys), NEW k \in Keys, NoDup(s), ~Holds(s, k)
    PROVE  /\ PushFront(s, k) \in Seq(Keys)
           /\ Len(PushFront(s, k)) = Len(s) + 1
           /\ NoDup(PushFront(s, k))
           /\ \A x \in Keys : Holds(PushFront(s, k), x) <=> x = k \/ Holds(s, x)
<1> DEFINE t == PushFront(s, k)
<1>1. t \in Seq(Keys) /\ Len(t) = Len(s) + 1
  BY DEF PushFront
<1>2. \A i \in 1..Len(t) : t[i] = IF i = 1 THEN k ELSE s[i - 1]
  BY <1>1 DEF PushFront
<1>0. Len(s) \in Nat
  OBVIOUS
<1> HIDE DEF t
<1>3. NoDup(t)
  <2> SUFFICES ASSUME NEW i \in 1..Len(t), NEW j \in 1..Len(t), t[i] = t[j]
               PROVE  i = j
    BY DEF NoDup
  <2>1. CASE i = 1 /\ j # 1
    <3>1. j - 1 \in 1..Len(s) /\ s[j - 1] = k
      BY <2>1, <1>0, <1>1, <1>2
    <3> QED BY <3>1 DEF Holds
  <2>2. CASE i # 1 /\ j = 1
    <3>1. i - 1 \in 1..Len(s) /\ s[i - 1] = k
      BY <2>2, <1>0, <1>1, <1>2
    <3> QED BY <3>1 DEF Holds
  <2>3. CASE i # 1 /\ j # 1
    <3>1. i - 1 \in 1..Len(s) /\ j - 1 \in 1..Len(s) /\ s[i - 1] = s[j - 1]
      BY <2>3, <1>0, <1>1, <1>2
    <3>2. i - 1 = j - 1
      BY <3>1 DEF NoDup
    <3> QED BY <3>2, <1>0, <1>1
  <2> QED BY <2>1, <2>2, <2>3
<1>4. ASSUME NEW x \in Keys PROVE Holds(t, x) <=> x = k \/ Holds(s, x)
  <2>1. ASSUME Holds(t, x) PROVE x = k \/ Holds(s, x)
    <3>1. PICK i \in 1..Len(t) : t[i] = x
      BY <2>1 DEF Holds
    <3>2. i # 1 => i - 1 \in 1..Len(s) /\ s[i - 1] = x
      BY <3>1, <1>0, <1>1, <1>2
    <3> QED BY <3>1, <3>2, <1>2 DEF Holds
  <2>2. ASSUME x = k PROVE Holds(t, x)
    <3>1. 1 \in 1..Len(t) /\ t[1] = x
      BY <2>2, <1>0, <1>1, <1>2
    <3> QED BY <3>1 DEF Holds
  <2>3. ASSUME Holds(s, x) PROVE Holds(t, x)
    <3>1. PICK i \in 1..Len(s) : s[i] = x
      BY <2>3 DEF Holds
    <3>2. i + 1 \in 1..Len(t) /\ t[i + 1] = x
      BY <3>1, <1>0, <1>1, <1>2
    <3> QED BY <3>2 DEF Holds
  <2> QED BY <2>1, <2>2, <2>3
<1> QED BY <1>1, <1>3, <1>4 DEF t

(* Taking the element at place p out of a list without duplicates.           *)
LEMMA RemoveAtFacts ==
    ASSUME NEW s \in Seq(Keys), NEW p \in 1..Len(s), NoDup(s)
    PROVE  /\ RemoveAt(s, p) \in Seq(Keys)
           /\ Len(RemoveAt(s, p)) = Len(s) - 1
           /\ NoDup(RemoveAt(s, p))
           /\ \A x \in Keys :
                 Holds(RemoveAt(s, p), x) <=> x # s[p] /\ Holds(s, x)
<1> DEFINE t == RemoveAt(s, p)
<1>0. Len(s) \in Nat
  OBVIOUS
<1>1. t \in Seq(Keys) /\ Len(t) = Len(s) - 1
  BY <1>0 DEF RemoveAt
<1>2. \A i \in 1..Len(t) : t[i] = IF i < p THEN s[i] ELSE s[i + 1]
  BY <1>0, <1>1 DEF RemoveAt
<1> HIDE DEF t
<1> DEFINE At(i) == IF i < p THEN i ELSE i + 1
<1>3. \A i \in 1..Len(t) : At(i) \in 1..Len(s) /\ At(i) # p /\ t[i] = s[At(i)]
  BY <1>0, <1>1, <1>2
<1>4. \A i, j \in 1..Len(t) : At(i) = At(j) => i = j
  BY <1>0, <1>1
<1>5. \A m \in 1..Len(s) : m # p => \E i \in 1..Len(t) : At(i) = m
  <2> SUFFICES ASSUME NEW m \in 1..Len(s), m # p
               PROVE  \E i \in 1..Len(t) : At(i) = m
    OBVIOUS
  <2>1. CASE m < p
    <3>1. m \in 1..Len(t) /\ At(m) = m
      BY <2>1, <1>0, <1>1
    <3> QED BY <3>1
  <2>2. CASE m > p
    <3>1. m - 1 \in 1..Len(t) /\ At(m - 1) = m
      BY <2>2, <1>0, <1>1
    <3> QED BY <3>1
  <2> QED BY <2>1, <2>2, <1>0
<1> HIDE DEF At
<1>6. NoDup(t)
  BY <1>3, <1>4 DEF NoDup
<1>7. ASSUME NEW x \in Keys PROVE Holds(t, x) <=> x # s[p] /\ Holds(s, x)
  <2>1. ASSUME Holds(t, x) PROVE x # s[p] /\ Holds(s, x)
    <3>1. PICK i \in 1..Len(t) : t[i] = x
      BY <2>1 DEF Holds
    <3> QED BY <3>1, <1>3 DEF Holds, NoDup
  <2>2. ASSUME x # s[p], Holds(s, x) PROVE Holds(t, x)
    <3>1. PICK m \in 1..Len(s) : s[m] = x
      BY <2>2 DEF Holds
    <3>2. PICK i \in 1..Len(t) : At(i) = m
      BY <3>1, <2>2, <1>5
    <3> QED BY <3>1, <3>2, <1>3 DEF Holds
  <2> QED BY <2>1, <2>2
<1> QED BY <1>1, <1>6, <1>7 DEF t

(* Taking an element that is in the list out of it.                          *)
LEMMA RemoveFacts ==
    ASSUME NEW s \in Seq(Keys), NEW k \in Keys, NoDup(s), Holds(s, k)
    PROVE  /\ Remove(s, k) \in Seq(Keys)
           /\ Len(Remove(s, k)) = Len(s) - 1
           /\ NoDup(Remove(s, k))
           /\ \A x \in Keys : Holds(Remove(s, k), x) <=> x # k /\ Holds(s, x)
<1>1. Position(s, k) \in 1..Len(s) /\ s[Position(s, k)] = k
  BY DEF Holds, Position
<1> QED BY <1>1, RemoveAtFacts DEF Remove

(* Moving an element that is in the list to its front.                       *)
LEMMA MoveToFrontFacts ==
    ASSUME NEW s \in Seq(Keys), NEW k \in Keys, NoDup(s), Holds(s, k)
    PROVE  /\ MoveToFront(s, k) \in Seq(Keys)
           /\ Len(MoveToFront(s, k)) = Len(s)
           /\ NoDup(MoveToFront(s, k))
           /\ \A x \in Keys : Holds(MoveToFront(s, k), x) <=> Holds(s, x)
<1> DEFINE r == Remove(s, k)
<1>1. /\ r \in Seq(Keys) /\ Len(r) = Len(s) - 1 /\ NoDup(r)
      /\ \A x \in Keys : Holds(r, x) <=> x # k /\ Holds(s, x)
  BY RemoveFacts
<1> HIDE DEF r
<1>2. ~Holds(r, k)
  BY <1>1
<1>3. /\ PushFront(r, k) \in Seq(Keys) /\ Len(PushFront(r, k)) = Len(r) + 1
      /\ NoDup(PushFront(r, k))
      /\ \A x \in Keys : Holds(PushFront(r, k), x) <=> x = k \/ Holds(r, x)
  BY <1>1, <1>2, PushFrontFacts
<1>4. Len(s) \in Nat
  OBVIOUS
<1> QED BY <1>1, <1>3, <1>4 DEF MoveToFront, r

(* Dropping the last element.                                                *)
LEMMA DropBackFacts ==
    ASSUME NEW s \in Seq(Keys), Len(s) # 0, NoDup(s)
    PROVE  /\ DropBack(s) \in Seq(Keys)
           /\ Len(DropBack(s)) = Len(s) - 1
           /\ NoDup(DropBack(s))
           /\ Back(s) \in Keys /\ Holds(s, Back(s))
           /\ \A x \in Keys : Holds(DropBack(s), x) <=> x # Back(s) /\ Holds(s, x)
<1>0. Len(s) \in Nat /\ Len(s) \in 1..Len(s)
  OBVIOUS
<1>1. DropBack(s) = RemoveAt(s, Len(s))
  BY <1>0 DEF DropBack, RemoveAt
<1>2. Back(s) \in Keys /\ Holds(s, Back(s))
  BY <1>0 DEF Back, Holds
<1> QED BY <1>0, <1>1, <1>2, RemoveAtFacts DEF Back

--------------------------------------------------------------------------------
(* The inductive invariant.                                                  *)

(* Flights and their leaders point at each other, and waiters at flights.    *)
LeaderHasFlight ==
    \A c \in Callers : pc[c] \in LeaderStages =>
        key[c] \in DOMAIN flights /\ flights[key[c]].leader = c

(* A flight is no older than FlightTime and no call begins in the future.    *)
ClockInv ==
    /\ \A k \in DOMAIN flights :
          flights[k].began <= now /\ now <= flights[k].began + FlightTime
    /\ \A c \in Callers : start[c] <= now

(* A cached entry is a value of its own key, and expires at most one flight  *)
(* and one TTL after it was read.                                            *)
EntryInv ==
    \A k \in DOMAIN items :
        LET v == items[k].val IN
        /\ v.kind = "val" /\ v.key = k /\ v.at <= now
        /\ items[k].expires <= v.at + FlightTime + TTL

(* What a leader holds while the handler runs and before it is delivered.    *)
LeaderInv ==
    \A c \in Callers :
        /\ pc[c] \in {"more", "put"} =>
              /\ out[c].kind = "val" /\ out[c].key = key[c]
              /\ flights[key[c]].began <= out[c].at /\ out[c].at <= now
        /\ pc[c] = "complete" =>
              /\ out[c].kind # "none" /\ out[c].key = key[c] /\ out[c].at <= now
              /\ out[c].kind = "val" =>
                    flights[key[c]].began <= out[c].at + FlightTime + TTL
              /\ out[c].kind # "val" => flights[key[c]].began <= out[c].at
              /\ out[c].kind = "cancelled" => ctxDone[c]

(* What a call returns.                                                      *)
AnswerInv ==
    \A c \in Callers : pc[c] = "done" =>
        /\ out[c].kind # "none" /\ out[c].key = key[c]
        /\ start[c] <= out[c].at + (IF out[c].kind = "val" THEN MaxAge ELSE FlightTime)

Inv ==
    /\ TypeOK
    /\ CacheConsistent
    /\ NoLostFlight
    /\ LeaderHasFlight
    /\ FetchOnlyMissing
    /\ ClockInv
    /\ EntryInv
    /\ LeaderInv
    /\ AnswerInv

(* Reading the cache keeps it well formed and leaves the entries it keeps as *)
(* they are; after a miss the key is not cached.                             *)
LEMMA GetKeepsCache ==
    ASSUME TypeOK, CacheConsistent, NEW k \in Keys, GetEffect(k)
    PROVE  /\ IsPartialFcn(items', Keys, Entries)
           /\ order' \in Seq(Keys)
           /\ CacheConsistent'
           /\ \A x \in DOMAIN items' : x \in DOMAIN items /\ items'[x] = items[x]
           /\ ~Hit(k) => k \notin DOMAIN items'
<1>0. /\ order \in Seq(Keys) /\ Len(order) \in Nat /\ Max \in Nat
      /\ IsPartialFcn(items, Keys, Entries)
  BY BoundsAssumption DEF TypeOK
<1>1. /\ NoDup(order) /\ Len(order) <= Max
      /\ \A x \in Keys : x \in DOMAIN items <=> Holds(order, x)
  BY DEF CacheConsistent, NoDup, Holds
<1>2. CASE k \notin DOMAIN items
  BY <1>0, <1>1, <1>2 DEF GetEffect, CacheConsistent, NoDup, Holds, IsPartialFcn, Hit
<1>3. CASE k \in DOMAIN items /\ Expired(k)
  <2>1. items' = Without(items, k) /\ order' = Remove(order, k)
    BY <1>3 DEF GetEffect
  <2>2. /\ order' \in Seq(Keys) /\ Len(order') = Len(order) - 1 /\ NoDup(order')
        /\ \A x \in Keys : Holds(order', x) <=> x # k /\ Holds(order, x)
    BY <2>1, <1>0, <1>1, <1>3, RemoveFacts
  <2>3. /\ DOMAIN items' = DOMAIN items \ {k}
        /\ \A x \in DOMAIN items' : items'[x] = items[x]
        /\ IsPartialFcn(items', Keys, Entries)
    BY <2>1, <1>0 DEF Without, IsPartialFcn
  <2>4. CacheConsistent'
    <3>1. Len(order') <= Max
      BY <2>2, <1>0, <1>1
    <3>2. \A x \in Keys : x \in DOMAIN items' <=> Holds(order', x)
      BY <2>2, <2>3, <1>1
    <3> QED BY <3>1, <3>2, <2>2 DEF CacheConsistent, NoDup, Holds
  <2> QED BY <2>2, <2>3, <2>4
<1>4. CASE k \in DOMAIN items /\ ~Expired(k)
  <2>1. items' = items /\ order' = MoveToFront(order, k)
    BY <1>4 DEF GetEffect
  <2>2. /\ order' \in Seq(Keys) /\ Len(order') = Len(order) /\ NoDup(order')
        /\ \A x \in Keys : Holds(order', x) <=> Holds(order, x)
    BY <2>1, <1>0, <1>1, <1>4, MoveToFrontFacts
  <2>3. CacheConsistent'
    BY <2>1, <2>2, <1>1 DEF CacheConsistent, NoDup, Holds
  <2> QED BY <2>1, <2>2, <2>3, <1>0, <1>4 DEF Hit
<1> QED BY <1>2, <1>3, <1>4

(* Filling the cache keeps it well formed: it holds the new entry, and of    *)
(* the others only ones it held before, unchanged.                           *)
LEMMA PutKeepsCache ==
    ASSUME TypeOK, CacheConsistent, NEW k \in Keys, NEW v \in Results, PutEffect(k, v)
    PROVE  /\ IsPartialFcn(items', Keys, Entries)
           /\ order' \in Seq(Keys)
           /\ CacheConsistent'
           /\ \A x \in DOMAIN items' :
                 IF x = k THEN items'[x] = [val |-> v, expires |-> now + TTL]
                 ELSE x \in DOMAIN items /\ items'[x] = items[x]
<1> DEFINE e == [val |-> v, expires |-> now + TTL]
<1>0. /\ order \in Seq(Keys) /\ Len(order) \in Nat /\ Max \in Nat \ {0}
      /\ IsPartialFcn(items, Keys, Entries)
      /\ e \in Entries
  BY BoundsAssumption DEF TypeOK, Times, Entries
<1>1. /\ NoDup(order) /\ Len(order) <= Max
      /\ \A x \in Keys : x \in DOMAIN items <=> Holds(order, x)
  BY DEF CacheConsistent, NoDup, Holds
<1>W. /\ DOMAIN With(items, k, e) = DOMAIN items \cup {k}
      /\ \A x \in DOMAIN items \cup {k} :
            With(items, k, e)[x] = IF x = k THEN e ELSE items[x]
      /\ IsPartialFcn(With(items, k, e), Keys, Entries)
  BY <1>0 DEF With, IsPartialFcn
<1> HIDE DEF e
<1>2. CASE k \in DOMAIN items
  <2>1. items' = With(items, k, e) /\ order' = MoveToFront(order, k)
    BY <1>2 DEF PutEffect, e
  <2>2. /\ order' \in Seq(Keys) /\ Len(order') = Len(order) /\ NoDup(order')
        /\ \A x \in Keys : Holds(order', x) <=> Holds(order, x)
    BY <2>1, <1>0, <1>1, <1>2, MoveToFrontFacts
  <2>3. CacheConsistent'
    <3>1. \A x \in Keys : x \in DOMAIN items' <=> Holds(order', x)
      BY <2>1, <2>2, <1>W, <1>1, <1>2
    <3> QED BY <3>1, <2>2, <1>1 DEF CacheConsistent, NoDup, Holds
  <2> QED BY <2>1, <2>2, <2>3, <1>W DEF e
<1>3. CASE k \notin DOMAIN items /\ Len(order) < Max
  <2>1. items' = With(items, k, e) /\ order' = PushFront(order, k)
    BY <1>3 DEF PutEffect, e
  <2>2. /\ order' \in Seq(Keys) /\ Len(order') = Len(order) + 1 /\ NoDup(order')
        /\ \A x \in Keys : Holds(order', x) <=> x = k \/ Holds(order, x)
    BY <2>1, <1>0, <1>1, <1>3, PushFrontFacts
  <2>3. CacheConsistent'
    <3>1. \A x \in Keys : x \in DOMAIN items' <=> Holds(order', x)
      BY <2>1, <2>2, <1>W, <1>1
    <3>2. Len(order') <= Max
      BY <2>2, <1>0, <1>3
    <3> QED BY <3>1, <3>2, <2>2 DEF CacheConsistent, NoDup, Holds
  <2> QED BY <2>1, <2>2, <2>3, <1>W DEF e
<1>4. CASE k \notin DOMAIN items /\ ~(Len(order) < Max)
  <2> DEFINE d == DropBack(order)
             b == Back(order)
  <2>1. items' = Without(With(items, k, e), b) /\ order' = PushFront(d, k)
    BY <1>4 DEF PutEffect, e
  <2>2. Len(order) # 0 /\ Len(order) = Max
    BY <1>0, <1>1, <1>4
  <2>3. /\ d \in Seq(Keys) /\ Len(d) = Len(order) - 1 /\ NoDup(d)
        /\ b \in Keys /\ Holds(order, b)
        /\ \A x \in Keys : Holds(d, x) <=> x # b /\ Holds(order, x)
    BY <2>2, <1>0, <1>1, DropBackFacts
  <2> HIDE DEF d, b
  <2>4. k # b /\ ~Holds(d, k)
    BY <2>3, <1>1, <1>4
  <2>5. /\ order' \in Seq(Keys) /\ Len(order') = Len(d) + 1 /\ NoDup(order')
        /\ \A x \in Keys : Holds(order', x) <=> x = k \/ Holds(d, x)
    BY <2>1, <2>3, <2>4, PushFrontFacts
  <2>6. /\ DOMAIN items' = (DOMAIN items \cup {k}) \ {b}
        /\ \A x \in DOMAIN items' : items'[x] = IF x = k THEN e ELSE items[x]
        /\ IsPartialFcn(items', Keys, Entries)
    BY <2>1, <1>W DEF Without, IsPartialFcn
  <2>7. CacheConsistent'
    <3>1. \A x \in Keys : x \in DOMAIN items' <=> Holds(order', x)
      BY <2>3, <2>4, <2>5, <2>6, <1>1
    <3>2. Len(order') <= Max
      BY <2>2, <2>3, <2>5, <1>0
    <3> QED BY <3>1, <3>2, <2>5 DEF CacheConsistent, NoDup, Holds
  <2> QED BY <2>5, <2>6, <2>7 DEF e
<1> QED BY <1>2, <1>3, <1>4

(* Initially nothing is cached or in flight.                                 *)
LEMMA InvInit == Init => Inv
<1> SUFFICES ASSUME Init PROVE Inv
  OBVIOUS
<1>1. IdleKey \in Keys
  BY KeysAssumption DEF IdleKey
<1>2. 0 \in Times /\ Max \in Nat
  BY BoundsAssumption DEF Times
<1>3. TypeOK
  BY <1>1, <1>2 DEF Init, TypeOK, IsPartialFcn, PCs, Nothing, Error, Results, Kinds
<1>4. CacheConsistent
  BY <1>2 DEF Init, CacheConsistent
<1>5. /\ NoLostFlight /\ LeaderHasFlight /\ FetchOnlyMissing /\ EntryInv
      /\ LeaderInv /\ AnswerInv
  BY DEF Init, NoLostFlight, LeaderHasFlight, FetchOnlyMissing, EntryInv, LeaderInv,
         AnswerInv, LeaderStages, FetchStages
<1>6. ClockInv
  BY DEF Init, ClockInv
<1> QED BY <1>3, <1>4, <1>5, <1>6 DEF Inv

(* Every step keeps the invariant: one step below per action, and under it   *)
(* one per conjunct.                                                         *)
LEMMA InvNext == Inv /\ [Next]_vars => Inv'
<1> SUFFICES ASSUME Inv, [Next]_vars PROVE Inv'
  OBVIOUS
<1> USE DEF Inv
<1>K. IdleKey \in Keys
  BY KeysAssumption DEF IdleKey
<1>T. /\ Times \subseteq Nat /\ 0 \in Times /\ now \in Nat
      /\ TTL \in Nat /\ FlightTime \in Nat /\ MaxTime \in Nat
  BY BoundsAssumption DEF Times, TypeOK
<1>S. /\ \A c \in Callers : start[c] \in Nat /\ out[c].at \in Nat
      /\ \A k \in DOMAIN flights : flights[k].began \in Nat
      /\ \A k \in DOMAIN items : items[k].expires \in Nat /\ items[k].val.at \in Nat
  BY <1>T DEF TypeOK, IsPartialFcn, Flights, Entries, Results
<1>1. ASSUME NEW c \in Callers, NEW k \in Keys, Begin(c, k) PROVE Inv'
  <2>1. TypeOK'
    BY <1>1, <1>K, <1>T DEF Begin, TypeOK, IsPartialFcn, PCs, LeaderStages, FetchStages, Times, Results, Kinds, Entries, Flights, Value, Error, Nothing
  <2>2. CacheConsistent'
    BY <1>1 DEF Begin, CacheConsistent
  <2>3. NoLostFlight'
    BY <1>1 DEF Begin, NoLostFlight, LeaderHasFlight, LeaderStages, FetchStages, TypeOK
  <2>4. LeaderHasFlight'
    BY <1>1 DEF Begin, LeaderHasFlight, LeaderStages, FetchStages, TypeOK
  <2>5. FetchOnlyMissing'
    BY <1>1 DEF Begin, FetchOnlyMissing, FetchStages, TypeOK
  <2>6. ClockInv'
    BY <1>1, <1>T, <1>S DEF Begin, ClockInv, TypeOK
  <2>7. EntryInv'
    BY <1>1 DEF Begin, EntryInv
  <2>8. LeaderInv'
    BY <1>1, <1>T, <1>S DEF Begin, LeaderInv, TypeOK
  <2>9. AnswerInv'
    BY <1>1 DEF Begin, AnswerInv, TypeOK
  <2> QED BY <2>1, <2>2, <2>3, <2>4, <2>5, <2>6, <2>7, <2>8, <2>9
<1>2. ASSUME NEW c \in Callers, Get(c) PROVE Inv'
  <2>1. /\ IsPartialFcn(items', Keys, Entries) /\ order' \in Seq(Keys)
        /\ CacheConsistent'
        /\ \A x \in DOMAIN items' : x \in DOMAIN items /\ items'[x] = items[x]
        /\ ~Hit(key[c]) => key[c] \notin DOMAIN items'
    <3>1. key[c] \in Keys /\ GetEffect(key[c])
      BY <1>2 DEF Get, TypeOK
    <3> QED BY <3>1, GetKeepsCache
  <2>2. Hit(key[c]) => /\ items[key[c]].val \in Results /\ key[c] \in DOMAIN items
                        /\ now <= items[key[c]].expires
    BY <1>T, <1>S DEF Hit, Expired, TypeOK, IsPartialFcn, Entries
  <2>3. /\ now' = now /\ flights' = flights /\ key' = key /\ start' = start
        /\ ctxDone' = ctxDone
        /\ \A d \in Callers : d # c => pc'[d] = pc[d] /\ out'[d] = out[d]
        /\ pc[c] = "get"
        /\ Hit(key[c]) => pc'[c] = "done" /\ out'[c] = items[key[c]].val
        /\ ~Hit(key[c]) => pc'[c] = "join" /\ out'[c] = out[c]
    BY <1>2 DEF Get, TypeOK
  <2>4. TypeOK'
    BY <1>2, <2>1, <2>2 DEF Get, TypeOK, PCs, LeaderStages, FetchStages
  <2>5. CacheConsistent'
    BY <2>1
  <2>6. NoLostFlight'
    <3>1. \A k \in DOMAIN flights : flights[k].leader \in Callers
      BY DEF TypeOK, IsPartialFcn, Flights
    <3> QED BY <2>3, <3>1 DEF NoLostFlight, LeaderStages, FetchStages
  <2>7. LeaderHasFlight'
    BY <2>3 DEF LeaderHasFlight, LeaderStages, FetchStages
  <2>8. FetchOnlyMissing'
    <3> SUFFICES ASSUME NEW d \in Callers, pc'[d] \in FetchStages
                 PROVE  key'[d] \notin DOMAIN items'
      BY DEF FetchOnlyMissing
    <3>1. CASE d = c
      BY <3>1, <2>1, <2>3 DEF FetchStages
    <3>2. CASE d # c
      BY <3>2, <2>1, <2>3 DEF FetchOnlyMissing
    <3> QED BY <3>1, <3>2
  <2>9. ClockInv'
    BY <2>3 DEF ClockInv
  <2>10. EntryInv'
    <3> SUFFICES ASSUME NEW k \in DOMAIN items'
                 PROVE  /\ items'[k].val.kind = "val" /\ items'[k].val.key = k
                        /\ items'[k].val.at <= now'
                        /\ items'[k].expires <= items'[k].val.at + FlightTime + TTL
      BY DEF EntryInv
    <3>1. k \in DOMAIN items /\ items'[k] = items[k] /\ now' = now
      BY <2>1, <2>3
    <3> QED BY <3>1 DEF EntryInv
  <2>11. LeaderInv'
    BY <2>3 DEF LeaderInv
  <2>12. AnswerInv'
    <3>1. Hit(key[c]) => /\ items[key[c]].val.kind = "val" /\ items[key[c]].val.key = key[c]
                         /\ start[c] <= items[key[c]].val.at + MaxAge
      BY <2>2, <1>T, <1>S DEF EntryInv, ClockInv, MaxAge
    <3> QED BY <2>3, <3>1 DEF AnswerInv
  <2> QED BY <2>1, <2>2, <2>3, <2>4, <2>5, <2>6, <2>7, <2>8, <2>9, <2>10, <2>11, <2>12
<1>3. ASSUME NEW c \in Callers, Join(c) PROVE Inv'
  <2>1. TypeOK'
    <3>1. IsPartialFcn(flights', Keys, Flights)
      <4>1. key[c] \in Keys /\ [leader |-> c, began |-> now] \in Flights
        BY DEF TypeOK, Flights
      <4> QED BY <1>3, <4>1 DEF Join, With, TypeOK, IsPartialFcn
    <3> QED BY <1>3, <3>1 DEF Join, TypeOK, PCs, LeaderStages, FetchStages
  <2>2. CacheConsistent'
    BY <1>3 DEF Join, CacheConsistent
  <2>3. NoLostFlight'
    <3>1. \A k \in DOMAIN flights : flights[k].leader \in Callers
      BY DEF TypeOK, IsPartialFcn, Flights
    <3>2. CASE key[c] \in DOMAIN flights
      BY <1>3, <3>1, <3>2 DEF Join, NoLostFlight, LeaderStages, FetchStages, TypeOK
    <3>3. CASE key[c] \notin DOMAIN flights
      <4>1. /\ DOMAIN flights' = DOMAIN flights \cup {key[c]}
            /\ flights'[key[c]].leader = c
            /\ \A k \in DOMAIN flights : flights'[k] = flights[k]
        BY <1>3, <3>3 DEF Join, With
      <4> QED BY <1>3, <3>1, <3>3, <4>1 DEF Join, NoLostFlight, LeaderStages, FetchStages, TypeOK
    <3> QED BY <3>2, <3>3
  <2>4. LeaderHasFlight'
    BY <1>3 DEF Join, With, LeaderHasFlight, NoLostFlight, LeaderStages, FetchStages, TypeOK
  <2>5. FetchOnlyMissing'
    BY <1>3 DEF Join, FetchOnlyMissing, FetchStages, TypeOK
  <2>6. ClockInv'
    <3>1. \A k \in DOMAIN flights' :
             \/ k \in DOMAIN flights /\ flights'[k] = flights[k]
             \/ flights'[k].began = now
      BY <1>3 DEF Join, With
    <3>2. now' = now /\ start' = start
      BY <1>3 DEF Join
    <3>3. now <= now /\ now <= now + FlightTime
      BY <1>T
    <3> QED BY <3>1, <3>2, <3>3 DEF ClockInv
  <2>7. EntryInv'
    BY <1>3 DEF Join, EntryInv
  <2>8. LeaderInv'
    BY <1>3 DEF Join, With, LeaderInv, LeaderHasFlight, LeaderStages, FetchStages, TypeOK
  <2>9. AnswerInv'
    BY <1>3 DEF Join, AnswerInv, TypeOK
  <2> QED BY <2>1, <2>2, <2>3, <2>4, <2>5, <2>6, <2>7, <2>8, <2>9
<1>4. ASSUME NEW c \in Callers, Recheck(c) PROVE Inv'
  <2>1. /\ IsPartialFcn(items', Keys, Entries) /\ order' \in Seq(Keys)
        /\ CacheConsistent'
        /\ \A x \in DOMAIN items' : x \in DOMAIN items /\ items'[x] = items[x]
        /\ ~Hit(key[c]) => key[c] \notin DOMAIN items'
    <3>1. key[c] \in Keys /\ GetEffect(key[c])
      BY <1>4 DEF Recheck, TypeOK
    <3> QED BY <3>1, GetKeepsCache
  <2>2. Hit(key[c]) => /\ items[key[c]].val \in Results /\ key[c] \in DOMAIN items
                        /\ now <= items[key[c]].expires
    BY <1>T, <1>S DEF Hit, Expired, TypeOK, IsPartialFcn, Entries
  <2>3. /\ now' = now /\ flights' = flights /\ key' = key /\ start' = start
        /\ ctxDone' = ctxDone
        /\ \A d \in Callers : d # c => pc'[d] = pc[d] /\ out'[d] = out[d]
        /\ pc[c] = "recheck"
        /\ Hit(key[c]) => pc'[c] = "complete" /\ out'[c] = items[key[c]].val
        /\ ~Hit(key[c]) => pc'[c] = "call" /\ out'[c] = out[c]
    BY <1>4 DEF Recheck, TypeOK
  <2>4. TypeOK'
    BY <1>4, <2>1, <2>2 DEF Recheck, TypeOK, PCs, LeaderStages, FetchStages
  <2>5. CacheConsistent'
    BY <2>1
  <2>6. NoLostFlight'
    <3>1. \A k \in DOMAIN flights : flights[k].leader \in Callers
      BY DEF TypeOK, IsPartialFcn, Flights
    <3> QED BY <2>3, <3>1 DEF NoLostFlight, LeaderStages, FetchStages
  <2>7. LeaderHasFlight'
    BY <2>3 DEF LeaderHasFlight, LeaderStages, FetchStages
  <2>8. FetchOnlyMissing'
    <3> SUFFICES ASSUME NEW d \in Callers, pc'[d] \in FetchStages
                 PROVE  key'[d] \notin DOMAIN items'
      BY DEF FetchOnlyMissing
    <3>1. CASE d = c
      BY <3>1, <2>1, <2>3 DEF FetchStages
    <3>2. CASE d # c
      BY <3>2, <2>1, <2>3 DEF FetchOnlyMissing
    <3> QED BY <3>1, <3>2
  <2>9. ClockInv'
    BY <2>3 DEF ClockInv
  <2>10. EntryInv'
    <3> SUFFICES ASSUME NEW k \in DOMAIN items'
                 PROVE  /\ items'[k].val.kind = "val" /\ items'[k].val.key = k
                        /\ items'[k].val.at <= now'
                        /\ items'[k].expires <= items'[k].val.at + FlightTime + TTL
      BY DEF EntryInv
    <3>1. k \in DOMAIN items /\ items'[k] = items[k] /\ now' = now
      BY <2>1, <2>3
    <3> QED BY <3>1 DEF EntryInv
  <2>11. LeaderInv'
    <3>1. Hit(key[c]) =>
             /\ items[key[c]].val.kind = "val" /\ items[key[c]].val.key = key[c]
             /\ items[key[c]].val.at <= now
             /\ flights[key[c]].began <= items[key[c]].val.at + FlightTime + TTL
      <4>1. key[c] \in DOMAIN flights
        BY <2>3 DEF LeaderHasFlight, LeaderStages
      <4> QED BY <4>1, <2>2, <1>T, <1>S DEF EntryInv, ClockInv
    <3> QED BY <2>3, <3>1 DEF LeaderInv
  <2>12. AnswerInv'
    BY <2>3 DEF AnswerInv
  <2> QED BY <2>1, <2>2, <2>3, <2>4, <2>5, <2>6, <2>7, <2>8, <2>9, <2>10, <2>11, <2>12
<1>5. ASSUME NEW c \in Callers, FirstRead(c) PROVE Inv'
  <2>1. TypeOK'
    BY <1>5, <1>K, <1>T DEF FirstRead, TypeOK, IsPartialFcn, PCs, LeaderStages, FetchStages, Times, Results, Kinds, Entries, Flights, Value, Error, Nothing
  <2>2. CacheConsistent'
    BY <1>5 DEF FirstRead, CacheConsistent
  <2>3. NoLostFlight'
    BY <1>5 DEF FirstRead, NoLostFlight, LeaderHasFlight, LeaderStages, FetchStages, TypeOK
  <2>4. LeaderHasFlight'
    BY <1>5 DEF FirstRead, LeaderHasFlight, LeaderStages, FetchStages, TypeOK
  <2>5. FetchOnlyMissing'
    BY <1>5 DEF FirstRead, FetchOnlyMissing, FetchStages, TypeOK
  <2>6. ClockInv'
    BY <1>5, <1>T, <1>S DEF FirstRead, ClockInv, TypeOK
  <2>7. EntryInv'
    BY <1>5 DEF FirstRead, EntryInv
  <2>8. LeaderInv'
    BY <1>5, <1>T, <1>S DEF FirstRead, Value, LeaderInv, LeaderHasFlight, ClockInv, LeaderStages, FetchStages, TypeOK
  <2>9. AnswerInv'
    BY <1>5 DEF FirstRead, AnswerInv, TypeOK
  <2> QED BY <2>1, <2>2, <2>3, <2>4, <2>5, <2>6, <2>7, <2>8, <2>9
<1>6. ASSUME NEW c \in Callers, HandlerDone(c) PROVE Inv'
  <2>1. TypeOK'
    BY <1>6, <1>K, <1>T DEF HandlerDone, TypeOK, IsPartialFcn, PCs, LeaderStages, FetchStages, Times, Results, Kinds, Entries, Flights, Value, Error, Nothing
  <2>2. CacheConsistent'
    BY <1>6 DEF HandlerDone, CacheConsistent
  <2>3. NoLostFlight'
    BY <1>6 DEF HandlerDone, NoLostFlight, LeaderHasFlight, LeaderStages, FetchStages, TypeOK
  <2>4. LeaderHasFlight'
    BY <1>6 DEF HandlerDone, LeaderHasFlight, LeaderStages, FetchStages, TypeOK
  <2>5. FetchOnlyMissing'
    BY <1>6 DEF HandlerDone, FetchOnlyMissing, FetchStages, TypeOK
  <2>6. ClockInv'
    BY <1>6, <1>T, <1>S DEF HandlerDone, ClockInv, TypeOK
  <2>7. EntryInv'
    BY <1>6 DEF HandlerDone, EntryInv
  <2>8. LeaderInv'
    BY <1>6, <1>T, <1>S DEF HandlerDone, LeaderInv, TypeOK
  <2>9. AnswerInv'
    BY <1>6 DEF HandlerDone, AnswerInv, TypeOK
  <2> QED BY <2>1, <2>2, <2>3, <2>4, <2>5, <2>6, <2>7, <2>8, <2>9
<1>7. ASSUME NEW c \in Callers, HandlerError(c) PROVE Inv'
  <2>1. TypeOK'
    BY <1>7, <1>K, <1>T DEF HandlerError, TypeOK, IsPartialFcn, PCs, LeaderStages, FetchStages, Times, Results, Kinds, Entries, Flights, Value, Error, Nothing
  <2>2. CacheConsistent'
    BY <1>7 DEF HandlerError, CacheConsistent
  <2>3. NoLostFlight'
    BY <1>7 DEF HandlerError, NoLostFlight, LeaderHasFlight, LeaderStages, FetchStages, TypeOK
  <2>4. LeaderHasFlight'
    BY <1>7 DEF HandlerError, LeaderHasFlight, LeaderStages, FetchStages, TypeOK
  <2>5. FetchOnlyMissing'
    BY <1>7 DEF HandlerError, FetchOnlyMissing, FetchStages, TypeOK
  <2>6. ClockInv'
    BY <1>7, <1>T, <1>S DEF HandlerError, ClockInv, TypeOK
  <2>7. EntryInv'
    BY <1>7 DEF HandlerError, EntryInv
  <2>8. LeaderInv'
    BY <1>7, <1>T, <1>S DEF HandlerError, Error, LeaderInv, LeaderHasFlight, ClockInv, LeaderStages, FetchStages, TypeOK
  <2>9. AnswerInv'
    BY <1>7 DEF HandlerError, AnswerInv, TypeOK
  <2> QED BY <2>1, <2>2, <2>3, <2>4, <2>5, <2>6, <2>7, <2>8, <2>9
<1>8. ASSUME NEW c \in Callers, HandlerPartial(c) PROVE Inv'
  <2>1. TypeOK'
    BY <1>8, <1>K, <1>T DEF HandlerPartial, TypeOK, IsPartialFcn, PCs, LeaderStages, FetchStages, Times, Results, Kinds, Entries, Flights, Value, Error, Nothing
  <2>2. CacheConsistent'
    BY <1>8 DEF HandlerPartial, CacheConsistent
  <2>3. NoLostFlight'
    BY <1>8 DEF HandlerPartial, NoLostFlight, LeaderHasFlight, LeaderStages, FetchStages, TypeOK
  <2>4. LeaderHasFlight'
    BY <1>8 DEF HandlerPartial, LeaderHasFlight, LeaderStages, FetchStages, TypeOK
  <2>5. FetchOnlyMissing'
    BY <1>8 DEF HandlerPartial, FetchOnlyMissing, FetchStages, TypeOK
  <2>6. ClockInv'
    BY <1>8, <1>T, <1>S DEF HandlerPartial, ClockInv, TypeOK
  <2>7. EntryInv'
    BY <1>8 DEF HandlerPartial, EntryInv
  <2>8. LeaderInv'
    BY <1>8, <1>T, <1>S DEF HandlerPartial, LeaderInv, TypeOK, Results
  <2>9. AnswerInv'
    BY <1>8 DEF HandlerPartial, AnswerInv, TypeOK, Results
  <2> QED BY <2>1, <2>2, <2>3, <2>4, <2>5, <2>6, <2>7, <2>8, <2>9
<1>9. ASSUME NEW c \in Callers, Put(c) PROVE Inv'
  <2>1. /\ IsPartialFcn(items', Keys, Entries) /\ order' \in Seq(Keys)
        /\ CacheConsistent'
        /\ \A x \in DOMAIN items' :
              IF x = key[c] THEN items'[x] = [val |-> out[c], expires |-> now + TTL]
              ELSE x \in DOMAIN items /\ items'[x] = items[x]
    <3>1. key[c] \in Keys /\ out[c] \in Results /\ PutEffect(key[c], out[c])
      BY <1>9 DEF Put, TypeOK
    <3> QED BY <3>1, PutKeepsCache
  <2>2. /\ key[c] \in DOMAIN flights /\ flights[key[c]].leader = c
        /\ out[c].kind = "val" /\ out[c].key = key[c] /\ out[c].at <= now
        /\ flights[key[c]].began <= out[c].at
        /\ now <= flights[key[c]].began + FlightTime
    BY <1>9 DEF Put, LeaderInv, LeaderHasFlight, ClockInv, LeaderStages, FetchStages
  <2>3. TypeOK'
    BY <1>9, <2>1 DEF Put, TypeOK, PCs, LeaderStages, FetchStages
  <2>4. CacheConsistent'
    BY <2>1
  <2>5. NoLostFlight'
    BY <1>9 DEF Put, NoLostFlight, LeaderHasFlight, LeaderStages, FetchStages, TypeOK
  <2>6. LeaderHasFlight'
    BY <1>9 DEF Put, LeaderHasFlight, LeaderStages, FetchStages, TypeOK
  <2>7. FetchOnlyMissing'
    <3> SUFFICES ASSUME NEW d \in Callers, pc'[d] \in FetchStages
                 PROVE  key'[d] \notin DOMAIN items'
      BY DEF FetchOnlyMissing
    <3>1. d # c /\ pc[d] \in FetchStages /\ key'[d] = key[d]
      BY <1>9 DEF Put, FetchStages, TypeOK
    <3>2. key[d] # key[c]
      BY <3>1, <2>2 DEF LeaderHasFlight, LeaderStages
    <3> QED BY <3>1, <3>2, <2>1 DEF FetchOnlyMissing
  <2>8. ClockInv'
    BY <1>9, <1>T, <1>S DEF Put, ClockInv, TypeOK
  <2>9. EntryInv'
    <3>1. now + TTL <= out[c].at + FlightTime + TTL
      BY <2>2, <1>T, <1>S
    <3>2. now' = now
      BY <1>9 DEF Put
    <3> QED BY <3>1, <3>2, <2>1, <2>2 DEF EntryInv
  <2>10. LeaderInv'
    BY <1>9, <2>2, <1>T, <1>S DEF Put, LeaderInv, TypeOK
  <2>11. AnswerInv'
    BY <1>9 DEF Put, AnswerInv, TypeOK
  <2> QED BY <2>1, <2>2, <2>3, <2>4, <2>5, <2>6, <2>7, <2>8, <2>9, <2>10, <2>11
<1>10. ASSUME NEW c \in Callers, Complete(c) PROVE Inv'
  <2>1. /\ key[c] \in DOMAIN flights /\ flights[key[c]].leader = c
        /\ out[c].kind # "none" /\ out[c].key = key[c] /\ out[c].at <= now
        /\ now <= flights[key[c]].began + FlightTime
        /\ out[c].kind = "val" =>
              flights[key[c]].began <= out[c].at + FlightTime + TTL
        /\ out[c].kind # "val" => flights[key[c]].began <= out[c].at
    BY <1>10 DEF Complete, LeaderInv, LeaderHasFlight, ClockInv, LeaderStages
  <2>2. /\ \A d \in Waiters(key[c]) \cup {c} :
              d \in Callers /\ key[d] = key[c] /\ pc'[d] = "done" /\ out'[d] = out[c]
        /\ \A d \in Callers : d \notin Waiters(key[c]) \cup {c} =>
              pc'[d] = pc[d] /\ out'[d] = out[d]
        /\ \A d \in Callers : d \notin Waiters(key[c]) \cup {c} =>
              (pc[d] = "wait" => key[d] # key[c])
        /\ \A d \in Callers : d # c /\ pc[d] \in LeaderStages => key[d] # key[c]
    BY <1>10, <2>1 DEF Complete, Waiters, LeaderHasFlight
  <2>3. /\ DOMAIN flights' = DOMAIN flights \ {key[c]}
        /\ \A k \in DOMAIN flights' : flights'[k] = flights[k]
    BY <1>10 DEF Complete, Without
  <2>4. TypeOK'
    BY <1>10 DEF Complete, Without, TypeOK, IsPartialFcn, PCs, LeaderStages, FetchStages
  <2>5. CacheConsistent'
    BY <1>10 DEF Complete, CacheConsistent
  <2>6. NoLostFlight'
    <3>1. ASSUME NEW k \in DOMAIN flights'
          PROVE  LET d == flights'[k].leader IN pc'[d] \in LeaderStages /\ key'[d] = k
      <4>1. LET d == flights[k].leader IN d \in Callers /\ pc[d] \in LeaderStages /\ key[d] = k
        BY <2>3 DEF NoLostFlight, TypeOK, IsPartialFcn, Flights
      <4>2. flights[k].leader \notin Waiters(key[c]) \cup {c}
        BY <4>1, <2>3 DEF Waiters, LeaderStages, FetchStages
      <4> QED BY <4>1, <4>2, <2>2, <2>3, <1>10 DEF Complete
    <3>2. ASSUME NEW d \in Callers, pc'[d] = "wait" PROVE key'[d] \in DOMAIN flights'
      BY <3>2, <2>2, <2>3, <1>10 DEF Complete, NoLostFlight
    <3> QED BY <3>1, <3>2 DEF NoLostFlight
  <2>7. LeaderHasFlight'
    <3> SUFFICES ASSUME NEW d \in Callers, pc'[d] \in LeaderStages
                 PROVE  key'[d] \in DOMAIN flights' /\ flights'[key'[d]].leader = d
      BY DEF LeaderHasFlight
    <3>1. d \notin Waiters(key[c]) \cup {c} /\ pc[d] \in LeaderStages
      BY <2>2 DEF LeaderStages, FetchStages
    <3> QED BY <3>1, <2>2, <2>3, <1>10 DEF Complete, LeaderHasFlight
  <2>8. FetchOnlyMissing'
    BY <1>10, <2>2 DEF Complete, FetchOnlyMissing, FetchStages
  <2>9. ClockInv'
    BY <1>10, <2>3 DEF Complete, ClockInv
  <2>10. EntryInv'
    BY <1>10 DEF Complete, EntryInv
  <2>11. LeaderInv'
    <3>1. ASSUME NEW d \in Callers, pc'[d] \in {"more", "put", "complete"}
          PROVE  /\ pc[d] = pc'[d] /\ out'[d] = out[d] /\ key'[d] = key[d] /\ ctxDone'[d] = ctxDone[d]
                 /\ flights'[key[d]] = flights[key[d]]
      <4>1. d \notin Waiters(key[c]) \cup {c} /\ pc[d] = pc'[d] /\ out'[d] = out[d]
        BY <3>1, <2>2
      <4>2. key[d] # key[c] /\ key[d] \in DOMAIN flights
        BY <4>1, <3>1, <2>2 DEF LeaderHasFlight, LeaderStages, FetchStages
      <4> QED BY <4>1, <4>2, <2>3, <1>10 DEF Complete
    <3>2. now' = now
      BY <1>10 DEF Complete
    <3> QED BY <3>1, <3>2 DEF LeaderInv
  <2>12. AnswerInv'
    <3> SUFFICES ASSUME NEW d \in Callers, pc'[d] = "done"
                 PROVE  /\ out'[d].kind # "none" /\ out'[d].key = key'[d]
                        /\ start'[d] <= out'[d].at +
                              (IF out'[d].kind = "val" THEN MaxAge ELSE FlightTime)
      BY DEF AnswerInv, MaxAge
    <3>0. key' = key /\ start' = start
      BY <1>10 DEF Complete
    <3>1. CASE d \in Waiters(key[c]) \cup {c}
      <4>1. out'[d] = out[c] /\ key[d] = key[c]
        BY <3>1, <2>2
      <4>2. start[d] <= flights[key[c]].began + FlightTime
        BY <2>1, <1>T, <1>S DEF ClockInv
      <4> QED BY <4>1, <4>2, <3>0, <2>1, <1>T, <1>S DEF MaxAge
    <3>2. CASE d \notin Waiters(key[c]) \cup {c}
      BY <3>0, <3>2, <2>2 DEF AnswerInv
    <3> QED BY <3>1, <3>2
  <2> QED BY <2>1, <2>2, <2>3, <2>4, <2>5, <2>6, <2>7, <2>8, <2>9, <2>10, <2>11, <2>12
<1>11. ASSUME NEW c \in Callers, Return(c) PROVE Inv'
  <2>1. TypeOK'
    BY <1>11, <1>K, <1>T DEF Return, TypeOK, IsPartialFcn, PCs, LeaderStages, FetchStages, Times, Results, Kinds, Entries, Flights, Value, Error, Nothing
  <2>2. CacheConsistent'
    BY <1>11 DEF Return, CacheConsistent
  <2>3. NoLostFlight'
    BY <1>11 DEF Return, NoLostFlight, LeaderHasFlight, LeaderStages, FetchStages, TypeOK
  <2>4. LeaderHasFlight'
    BY <1>11 DEF Return, LeaderHasFlight, LeaderStages, FetchStages, TypeOK
  <2>5. FetchOnlyMissing'
    BY <1>11 DEF Return, FetchOnlyMissing, FetchStages, TypeOK
  <2>6. ClockInv'
    BY <1>11, <1>T, <1>S DEF Return, ClockInv, TypeOK
  <2>7. EntryInv'
    BY <1>11 DEF Return, EntryInv
  <2>8. LeaderInv'
    BY <1>11, <1>T, <1>S DEF Return, LeaderInv, TypeOK
  <2>9. AnswerInv'
    BY <1>11 DEF Return, AnswerInv, TypeOK
  <2> QED BY <2>1, <2>2, <2>3, <2>4, <2>5, <2>6, <2>7, <2>8, <2>9
<1>12. ASSUME NEW c \in Callers, Cancel(c) PROVE Inv'
  <2>1. TypeOK'
    BY <1>12, <1>K, <1>T DEF Cancel, TypeOK, IsPartialFcn, PCs, LeaderStages, FetchStages, Times, Results, Kinds, Entries, Flights, Value, Error, Nothing
  <2>2. CacheConsistent'
    BY <1>12 DEF Cancel, CacheConsistent
  <2>3. NoLostFlight'
    BY <1>12 DEF Cancel, NoLostFlight, LeaderHasFlight, LeaderStages, FetchStages, TypeOK
  <2>4. LeaderHasFlight'
    BY <1>12 DEF Cancel, LeaderHasFlight, LeaderStages, FetchStages, TypeOK
  <2>5. FetchOnlyMissing'
    BY <1>12 DEF Cancel, FetchOnlyMissing, FetchStages, TypeOK
  <2>6. ClockInv'
    BY <1>12, <1>T, <1>S DEF Cancel, ClockInv, TypeOK
  <2>7. EntryInv'
    BY <1>12 DEF Cancel, EntryInv
  <2>8. LeaderInv'
    BY <1>12, <1>T, <1>S DEF Cancel, LeaderInv, TypeOK
  <2>9. AnswerInv'
    BY <1>12 DEF Cancel, AnswerInv, TypeOK
  <2> QED BY <2>1, <2>2, <2>3, <2>4, <2>5, <2>6, <2>7, <2>8, <2>9
<1>13. ASSUME Tick PROVE Inv'
  <2>1. TypeOK'
    BY <1>13, <1>T DEF Tick, TypeOK, Times
  <2>2. CacheConsistent'
    BY <1>13 DEF Tick, CacheConsistent
  <2>3. NoLostFlight' /\ LeaderHasFlight' /\ FetchOnlyMissing'
    BY <1>13 DEF Tick, NoLostFlight, LeaderHasFlight, FetchOnlyMissing
  <2>4. ClockInv'
    BY <1>13, <1>T, <1>S DEF Tick, ClockInv
  <2>5. EntryInv'
    BY <1>13, <1>T, <1>S DEF Tick, EntryInv
  <2>6. LeaderInv'
    BY <1>13, <1>T, <1>S DEF Tick, LeaderInv
  <2>7. AnswerInv'
    BY <1>13 DEF Tick, AnswerInv
  <2> QED BY <2>1, <2>2, <2>3, <2>4, <2>5, <2>6, <2>7
<1>14. CASE UNCHANGED vars
  BY <1>14 DEF vars, TypeOK, CacheConsistent, NoLostFlight, LeaderHasFlight,
     FetchOnlyMissing, ClockInv, EntryInv, LeaderInv, AnswerInv
<1> QED
  BY <1>1, <1>2, <1>3, <1>4, <1>5, <1>6, <1>7, <1>8, <1>9, <1>10, <1>11, <1>12,
     <1>13, <1>14 DEF Next, Do, Handler

(* The invariant holds in every state of every behaviour.                    *)
THEOREM AlwaysInv == Spec => []Inv
BY InvInit, InvNext, PTL DEF Spec

(* Every variable keeps its type: the state the code can build is the state   *)
(* the model describes, for any number of callers, keys and entries.          *)
THEOREM TypeCorrect == Spec => []TypeOK
<1>1. Inv => TypeOK
  BY DEF Inv
<1> QED BY <1>1, AlwaysInv, PTL

(* The cache's map and its list always agree and hold at most max entries:    *)
(* get, put and removeElement keep both halves of resultCache in step.        *)
THEOREM CacheIsConsistent == Spec => []CacheInv
<1>1. Inv => CacheInv
  BY DEF Inv, CacheInv
<1> QED BY <1>1, AlwaysInv, PTL

(* singleflight and the second get of do make the handler run for one caller  *)
(* per key at a time ...                                                      *)
THEOREM HandlerRunsOnce == Spec => []OneFetchPerKey
<1>1. Inv => OneFetchPerKey
  BY DEF Inv, OneFetchPerKey, LeaderHasFlight, LeaderStages
<1> QED BY <1>1, AlwaysInv, PTL

(* ... and only for keys that are not in the cache, so that put never         *)
(* overwrites a live entry.                                                   *)
THEOREM HandlerRunsOnMiss == Spec => []FetchOnlyMissing
<1>1. Inv => FetchOnlyMissing
  BY DEF Inv
<1> QED BY <1>1, AlwaysInv, PTL

(* Together: a handler runs only when it must, for any number of callers.    *)
THEOREM HandlerRunsWhenNeeded == Spec => []FetchOnlyWhenNeeded
<1>1. OneFetchPerKey /\ FetchOnlyMissing => FetchOnlyWhenNeeded
  BY DEF FetchOnlyWhenNeeded
<1> QED BY <1>1, HandlerRunsOnce, HandlerRunsOnMiss, PTL

(* No waiter is ever left without the leader that will answer it.             *)
THEOREM FlightsAreNotLost == Spec => []NoLostFlight
<1>1. Inv => NoLostFlight
  BY DEF Inv
<1> QED BY <1>1, AlwaysInv, PTL

(* What do returns was read, for the key asked for, at most MaxAge before the *)
(* call began: however get, put, eviction and shared flights interleave.      *)
THEOREM AnswersAreFresh == Spec => []BoundedStaleness
<1>1. Inv => BoundedStaleness
  BY DEF Inv, AnswerInv, BoundedStaleness
<1> QED BY <1>1, AlwaysInv, PTL

(* An error do returns is never older than one flight.                        *)
THEOREM ErrorsAreFresh == Spec => []ErrorsNotCached
<1>1. Inv => ErrorsNotCached
  BY DEF Inv, AnswerInv, ErrorsNotCached
<1> QED BY <1>1, AlwaysInv, PTL

(* Entries leave the cache only when expired, or as the least recently used   *)
(* one when put needs room.                                                   *)
THEOREM EvictionIsDue == Spec => EvictionOnlyWhenDue
<1>1. Inv /\ [Next]_vars => [EvictionStep]_vars
  <2> SUFFICES ASSUME Inv, [Next]_vars, NEW k \in DOMAIN items, k \notin DOMAIN items'
               PROVE  \/ now > items[k].expires
                      \/ /\ Len(order) = Max
                         /\ k = Back(order)
                         /\ \E c \in Callers : pc[c] = "put" /\ key[c] \notin DOMAIN items
    BY DEF EvictionStep
  <2>1. ASSUME NEW x \in Keys, GetEffect(x) PROVE now > items[k].expires
    BY <2>1 DEF GetEffect, Without, Expired
  <2>2. ASSUME NEW c \in Callers, Put(c)
        PROVE  Len(order) = Max /\ k = Back(order) /\ pc[c] = "put" /\ key[c] \notin DOMAIN items
    <3>1. pc[c] = "put" /\ key[c] \notin DOMAIN items
      BY <2>2 DEF Put, Inv, FetchOnlyMissing, FetchStages
    <3>2. ~(Len(order) < Max) /\ k = Back(order)
      BY <2>2, <3>1 DEF Put, PutEffect, With, Without
    <3>3. Len(order) \in Nat /\ Max \in Nat /\ Len(order) <= Max
      BY BoundsAssumption DEF Inv, TypeOK, CacheConsistent
    <3> QED BY <3>1, <3>2, <3>3
  <2>3. ASSUME NEW c \in Callers, Get(c) \/ Recheck(c) PROVE now > items[k].expires
    BY <2>1, <2>3 DEF Get, Recheck, Inv, TypeOK
  <2>4. ASSUME NEW c \in Callers, Join(c) \/ Handler(c) \/ Complete(c) \/ Return(c) \/ Cancel(c)
        PROVE  FALSE
    BY <2>4 DEF Join, Handler, FirstRead, HandlerDone, HandlerError, HandlerPartial,
                Complete, Return, Cancel
  <2>5. ASSUME NEW c \in Callers, NEW x \in Keys, Begin(c, x) PROVE FALSE
    BY <2>5 DEF Begin
  <2>6. ~Tick /\ ~UNCHANGED vars
    BY DEF Tick, vars
  <2> QED BY <2>2, <2>3, <2>4, <2>5, <2>6 DEF Next, Do
<1> QED BY <1>1, AlwaysInv, PTL DEF Spec, EvictionOnlyWhenDue

(* How the mapping of a step that only changes callers that stay in their    *)
(* call, neither idle nor done, reads: nothing changes for BoundedRead.       *)
LEMMA InsideStutters ==
    ASSUME now' = now, key' = key, start' = start, ctxDone' = ctxDone,
           \A d \in Callers : \/ pc'[d] = pc[d] /\ out'[d] = out[d]
                             \/ {pc[d], pc'[d]} \cap {"idle", "done"} = {}
    PROVE  UNCHANGED Read!readVars
<1>1. \A d \in Callers : CallState(d)' = CallState(d) /\ CallAnswer(d)' = CallAnswer(d)
  BY DEF CallState, CallAnswer
<1> QED BY <1>1 DEF Read!readVars

(* Every step of the cache is a step of BoundedRead, or changes nothing a     *)
(* caller sees.                                                               *)
LEMMA StepSimulates == Inv /\ [Next]_vars => [Read!Next]_Read!readVars
<1> SUFFICES ASSUME Inv, [Next]_vars PROVE Read!Next \/ UNCHANGED Read!readVars
  OBVIOUS
<1>T. TypeOK
  BY DEF Inv
<1>1. ASSUME NEW c \in Callers, NEW k \in Keys, Begin(c, k) PROVE Read!Ask(c, k)
  <2>1. CallState(c) = "idle" /\ CallState(c)' = "pending"
    BY <1>1, <1>T DEF Begin, CallState, TypeOK
  <2>2. \A d \in Callers : /\ d # c => CallState(d)' = CallState(d)
                           /\ CallAnswer(d)' = CallAnswer(d)
    BY <1>1, <1>T DEF Begin, CallState, CallAnswer, TypeOK
  <2> QED BY <1>1, <2>1, <2>2 DEF Begin, Read!Ask
<1>2. ASSUME NEW S \in SUBSET Callers, S # {}, NEW r \in Results, r.kind # "none",
             \A d \in S : /\ {pc[d]} \cap {"idle", "done"} = {} /\ pc'[d] = "done"
                          /\ out'[d] = r /\ r.key = key[d]
                          /\ start[d] <= r.at + (IF r.kind = "val" THEN MaxAge ELSE FlightTime),
             r.kind = "cancelled" => \E d \in S : ctxDone[d],
             \A d \in Callers \ S : pc'[d] = pc[d] /\ out'[d] = out[d],
             r.at <= now, now' = now, key' = key, start' = start, ctxDone' = ctxDone
      PROVE  Read!Answer(S)
  <2> DEFINE a == [kind |-> r.kind, key |-> r.key, at |-> r.at]
  <2>1. /\ a \in Read!Answers
        /\ a.kind = r.kind /\ a.key = r.key /\ a.at = r.at
    BY <1>2 DEF Read!Answers, Results, Kinds, Times
  <2>2. \A d \in S : CallState(d) = "pending" /\ CallState(d)' = "answered" /\ CallAnswer(d)' = a
    BY <1>2 DEF CallState, CallAnswer
  <2>3. \A d \in Callers \ S : CallState(d)' = CallState(d) /\ CallAnswer(d)' = CallAnswer(d)
    BY <1>2 DEF CallState, CallAnswer
  <2> HIDE DEF a
  <2>4. \A d \in S : Read!Allowed(d, a, S)
    BY <1>2, <2>1 DEF Read!Allowed
  <2>5. /\ [d \in Callers |-> CallState(d)]' =
              [d \in Callers |-> IF d \in S THEN "answered" ELSE [x \in Callers |-> CallState(x)][d]]
        /\ [d \in Callers |-> CallAnswer(d)]' =
              [d \in Callers |-> IF d \in S THEN a ELSE [x \in Callers |-> CallAnswer(x)][d]]
    BY <2>2, <2>3
  <2>6. \A d \in S : [x \in Callers |-> CallState(x)][d] = "pending"
    BY <2>2
  <2> QED BY <1>2, <2>1, <2>4, <2>5, <2>6 DEF Read!Answer
<1>3. ASSUME NEW c \in Callers, Get(c) PROVE Read!Next \/ UNCHANGED Read!readVars
  <2>1. CASE Hit(key[c])
    <3>1. /\ key[c] \in DOMAIN items /\ now <= items[key[c]].expires
          /\ items[key[c]] \in Entries /\ now \in Nat
      BY <2>1, <1>T DEF Hit, Expired, TypeOK, IsPartialFcn, Entries, Times
    <3> DEFINE r == items[key[c]].val
    <3>2. /\ r \in Results /\ r.kind = "val" /\ r.key = key[c] /\ r.at <= now
          /\ start[c] <= r.at + MaxAge
      BY <3>1, <1>T, BoundsAssumption
         DEF Inv, EntryInv, ClockInv, MaxAge, Entries, Results, TypeOK, Times
    <3>3. /\ pc[c] = "get" /\ pc'[c] = "done" /\ out'[c] = r
          /\ \A d \in Callers \ {c} : pc'[d] = pc[d] /\ out'[d] = out[d]
          /\ now' = now /\ key' = key /\ start' = start /\ ctxDone' = ctxDone
      BY <1>3, <2>1, <1>T DEF Get, TypeOK
    <3> HIDE DEF r
    <3>4. Read!Answer({c})
      BY <3>2, <3>3, <1>2
    <3> QED BY <3>4 DEF Read!Next
  <2>2. CASE ~Hit(key[c])
    BY <1>3, <2>2, <1>T, InsideStutters DEF Get, TypeOK
  <2> QED BY <2>1, <2>2
<1>4. ASSUME NEW c \in Callers, Join(c) \/ Recheck(c) \/ Handler(c) \/ Put(c)
      PROVE  UNCHANGED Read!readVars
  <2>1. /\ now' = now /\ key' = key /\ start' = start /\ ctxDone' = ctxDone
        /\ \A d \in Callers : d # c => pc'[d] = pc[d] /\ out'[d] = out[d]
        /\ {pc[c], pc'[c]} \cap {"idle", "done"} = {}
    BY <1>4, <1>T DEF Join, Recheck, Handler, FirstRead, HandlerDone, HandlerError,
                      HandlerPartial, Put, TypeOK
  <2> QED BY <2>1, InsideStutters
<1>5. ASSUME NEW c \in Callers, Complete(c) PROVE Read!Next
  <2> DEFINE S == Waiters(key[c]) \cup {c}
             b == flights[key[c]].began
  <2>1. /\ key[c] \in DOMAIN flights /\ b \in Nat
        /\ out[c] \in Results /\ out[c].at \in Nat
        /\ out[c].kind # "none" /\ out[c].key = key[c] /\ out[c].at <= now
        /\ now <= b + FlightTime
        /\ out[c].kind = "val" => b <= out[c].at + FlightTime + TTL
        /\ out[c].kind # "val" => b <= out[c].at
        /\ out[c].kind = "cancelled" => ctxDone[c]
    <3>1. key[c] \in DOMAIN flights
      BY <1>5 DEF Complete, Inv, LeaderHasFlight, LeaderStages
    <3>2. b \in Nat /\ out[c] \in Results /\ out[c].at \in Nat
      BY <3>1, <1>T DEF TypeOK, IsPartialFcn, Flights, Results, Times
    <3> QED BY <1>5, <3>1, <3>2 DEF Complete, Inv, LeaderInv, ClockInv
  <2>2. \A d \in S : /\ d \in Callers /\ key[d] = key[c] /\ pc'[d] = "done" /\ out'[d] = out[c]
                     /\ pc[d] \in {"wait", "complete"}
    BY <1>5 DEF Complete, Waiters
  <2>3. /\ \A d \in Callers \ S : pc'[d] = pc[d] /\ out'[d] = out[d]
        /\ now' = now /\ key' = key /\ start' = start /\ ctxDone' = ctxDone
    BY <1>5 DEF Complete
  <2> HIDE DEF S
  <2>4. \A d \in S : start[d] <= out[c].at + (IF out[c].kind = "val" THEN MaxAge ELSE FlightTime)
    <3> SUFFICES ASSUME NEW d \in S
                 PROVE  start[d] <= out[c].at + (IF out[c].kind = "val" THEN MaxAge ELSE FlightTime)
      OBVIOUS
    <3>1. start[d] \in Nat /\ now \in Nat /\ start[d] <= now
      BY <2>2, <1>T DEF Inv, ClockInv, TypeOK, Times
    <3> QED BY <3>1, <2>1, BoundsAssumption DEF MaxAge
  <2>5. S \in SUBSET Callers /\ c \in S /\ S # {}
    BY <2>2 DEF S
  <2>6. \A d \in S : {pc[d]} \cap {"idle", "done"} = {}
    BY <2>2
  <2>7. out[c].kind = "cancelled" => \E d \in S : ctxDone[d]
    BY <2>1, <2>5
  <2>8. Read!Answer(S)
    BY <2>1, <2>2, <2>3, <2>4, <2>5, <2>6, <2>7, <1>2
  <2> QED BY <2>5, <2>8 DEF Read!Next
<1>6. ASSUME NEW c \in Callers, Return(c) PROVE Read!Leave(c)
  <2>1. CallState(c) = "answered" /\ CallState(c)' = "idle" /\ CallAnswer(c)' = Read!NoAnswer
    BY <1>6, <1>T DEF Return, CallState, CallAnswer, TypeOK, Read!NoAnswer
  <2>2. \A d \in Callers : d # c => /\ CallState(d)' = CallState(d)
                                    /\ CallAnswer(d)' = CallAnswer(d)
    BY <1>6, <1>T DEF Return, CallState, CallAnswer, TypeOK
  <2> QED BY <1>6, <2>1, <2>2 DEF Return, Read!Leave
<1>7. ASSUME NEW c \in Callers, Cancel(c) PROVE Read!Cancel(c)
  <2>1. \A d \in Callers : CallState(d)' = CallState(d) /\ CallAnswer(d)' = CallAnswer(d)
    BY <1>7 DEF Cancel, CallState, CallAnswer
  <2>2. CallState(c) # "idle"
    BY <1>7 DEF Cancel, CallState
  <2> QED BY <1>7, <2>1, <2>2 DEF Cancel, Read!Cancel
<1>8. ASSUME Tick PROVE Read!Tick
  <2>1. \A d \in Callers : CallState(d)' = CallState(d) /\ CallAnswer(d)' = CallAnswer(d)
    BY <1>8 DEF Tick, CallState, CallAnswer
  <2> QED BY <1>8, <2>1 DEF Tick, Read!Tick
<1>9. CASE UNCHANGED vars
  BY <1>9, InsideStutters DEF vars
<1> QED BY <1>1, <1>3, <1>4, <1>5, <1>6, <1>7, <1>8, <1>9 DEF Next, Do, Read!Next

(* The cached do implements a plain read that may be MaxAge old: a caller    *)
(* cannot tell the cache, its eviction and the shared flights from it.        *)
THEOREM CacheImplementsRead == Spec => ImplementsBoundedRead
<1>1. Init => Read!Init
  BY DEF Init, Read!Init, CallState, CallAnswer, Read!NoAnswer
<1> QED BY <1>1, StepSimulates, AlwaysInv, PTL DEF Spec, ImplementsBoundedRead, Read!Spec

================================================================================
