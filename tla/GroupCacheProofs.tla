---------------------------- MODULE GroupCacheProofs ----------------------------
(***************************************************************************)
(* For any callers, users, groups, ttl and fetch time: the mutex serialises *)
(* the use of the cache, the cluster is asked at most once per ttl, and     *)
(* what is handed out is no older than a ttl and two times the lock may be  *)
(* held, or a fetch that failed as recently is to blame.                    *)
(***************************************************************************)
EXTENDS GroupCache, TLAPS

Inside == {"check", "fetch", "reply", "read"}

(* The clock: nothing was changed, read or failed in the future, the lock is *)
(* held no longer than FetchTime, and the cache expires one ttl after the    *)
(* last fetch, which is in the past or never was.                            *)
ClockInv ==
    /\ changed <= now /\ readAt <= now /\ failedAt <= now /\ locked <= now
    /\ mu # NoCaller => now <= locked + FetchTime
    /\ expires = fetchEnd + TTL
    /\ fetchEnd = -1 - TTL \/ fetchEnd >= 0

(* A reply on its way was read since the lock was taken, and shows the       *)
(* cluster of now unless a group changed after it was read.                  *)
ReplyInv ==
    \A c \in Callers : pc[c] = "reply" =>
        /\ locked <= replyAt /\ replyAt <= now
        /\ reply = cluster \/ replyAt <= changed

(* How the last fetch ended: its data were read at most FetchTime before, or *)
(* it failed.  What is cached shows the cluster of now unless a group        *)
(* changed after it was read.                                                *)
DataInv ==
    /\ fetchEnd >= 0 => \/ readAt # Never /\ fetchEnd <= readAt + FetchTime
                        \/ failedAt = fetchEnd
    /\ readAt # Never => byUser = parseGroups(cluster) \/ readAt <= changed

(* A caller about to take its copy took the lock before the cache expired,   *)
(* and after some fetch.                                                     *)
ReaderInv ==
    \A c \in Callers : pc[c] = "read" => fetchEnd >= 0 /\ locked <= expires

Inv == TypeOK /\ MutexHeld /\ ClockInv /\ ReplyInv /\ DataInv /\ ReaderInv

--------------------------------------------------------------------------------
(* Nothing is cached, held or asked for.                                     *)
LEMMA InitInv == Init => Inv
<1> SUFFICES ASSUME Init PROVE Inv
  OBVIOUS
<1>1. TypeOK
  <2>1. /\ NoGroups \in Membership
        /\ NoReply \in [Groups -> SUBSET Users]
    BY DEF NoGroups, NoReply, Membership
  <2> QED
    BY <2>1, BoundsAssumption DEF Init, TypeOK, Never
<1>2. MutexHeld
  BY NoCallerAssumption DEF Init, MutexHeld
<1>3. ClockInv
  BY BoundsAssumption DEF Init, ClockInv, Never
<1>4. ReplyInv /\ ReaderInv
  BY DEF Init, ReplyInv, ReaderInv
<1>5. DataInv
  BY BoundsAssumption DEF Init, DataInv, Never
<1> QED
  BY <1>1, <1>2, <1>3, <1>4, <1>5 DEF Inv

(* What a reply is turned into gives every user a set of groups.             *)
LEMMA ParseType == ASSUME NEW data PROVE parseGroups(data) \in Membership
  BY DEF parseGroups, Membership

(* A caller goes on without touching mutex or cache, and without entering or *)
(* leaving the part of the code that holds the mutex.                        *)
LEMMA MovesInv ==
    ASSUME Inv, NEW c \in Callers, NEW s,
           UNCHANGED <<now, cluster, changed, mu, locked, expires, byUser, readAt,
                       failedAt, fetchEnd, reply, replyAt>>,
           pc' = [pc EXCEPT ![c] = s],
           TypeOK',
           s \in Inside <=> pc[c] \in Inside,
           s # "reply",
           s = "read" => fetchEnd >= 0 /\ locked <= expires
    PROVE  Inv'
<1>1. pc \in [Callers -> {"idle", "lock", "check", "fetch", "reply", "read", "done"}]
  BY DEF Inv, TypeOK
<1>2. \A d \in Callers : pc'[d] = IF d = c THEN s ELSE pc[d]
  BY <1>1
<1>3. MutexHeld'
  BY <1>2 DEF Inv, MutexHeld, Inside
<1>4. ClockInv' /\ DataInv'
  BY DEF Inv, ClockInv, DataInv
<1>5. ReplyInv' /\ ReaderInv'
  BY <1>2 DEF Inv, ReplyInv, ReaderInv
<1> QED
  BY <1>3, <1>4, <1>5 DEF Inv

(* A call begins.                                                            *)
LEMMA AskInv == ASSUME Inv, NEW c \in Callers, NEW u \in Users, Ask(c, u) PROVE Inv'
<1>1. TypeOK'
  BY DEF Ask, Inv, TypeOK, env, cacheVars, replyVars
<1> QED
  BY <1>1, MovesInv DEF Ask, env, cacheVars, replyVars, Inside

(* A caller takes the free mutex: no other is in the part that holds it.     *)
LEMMA LockStepInv == ASSUME Inv, NEW c \in Callers, Lock(c) PROVE Inv'
<1>1. /\ pc[c] = "lock" /\ mu = NoCaller /\ mu' = c /\ locked' = now
      /\ pc' = [pc EXCEPT ![c] = "check"]
      /\ UNCHANGED <<now, cluster, changed, expires, byUser, readAt, failedAt, fetchEnd,
                     reply, replyAt, user, ctxDone, result>>
  BY DEF Lock, env, cacheVars, replyVars
<1>2. TypeOK'
  BY <1>1 DEF Inv, TypeOK
<1>3. \A d \in Callers : pc'[d] = IF d = c THEN "check" ELSE pc[d]
  BY <1>1 DEF Inv, TypeOK
<1>4. \A d \in Callers : pc[d] \notin Inside
  BY <1>1, NoCallerAssumption DEF Inv, MutexHeld, Inside
<1>5. MutexHeld'
  BY <1>1, <1>3, <1>4, NoCallerAssumption DEF MutexHeld, Inside
<1>6. ClockInv'
  BY <1>1, BoundsAssumption DEF Inv, TypeOK, ClockInv
<1>7. ReplyInv' /\ ReaderInv'
  BY <1>3, <1>4 DEF ReplyInv, ReaderInv, Inside
<1>8. DataInv'
  BY <1>1 DEF Inv, DataInv
<1> QED
  BY <1>2, <1>5, <1>6, <1>7, <1>8 DEF Inv

(* The caller looks at the clock: it reads only a cache that has not expired, *)
(* which is one that some fetch filled.                                      *)
LEMMA CheckInv == ASSUME Inv, NEW c \in Callers, Check(c) PROVE Inv'
<1>1. TypeOK'
  BY DEF Check, Inv, TypeOK, env, cacheVars, replyVars
<1> DEFINE s == IF now > expires THEN "fetch" ELSE "read"
<1>2. s = "read" => fetchEnd >= 0 /\ locked <= expires
  BY BoundsAssumption DEF Inv, TypeOK, ClockInv
<1>3. s \in {"fetch", "read"} /\ pc[c] = "check" /\ pc' = [pc EXCEPT ![c] = s]
  BY DEF Check
<1> HIDE DEF s
<1> QED
  BY <1>1, <1>2, <1>3, MovesInv DEF Check, env, cacheVars, replyVars, Inside

(* The API server reads the groups of this moment.                           *)
LEMMA ServerReadsInv == ASSUME Inv, NEW c \in Callers, ServerReads(c) PROVE Inv'
<1>1. /\ pc[c] = "fetch" /\ reply' = cluster /\ replyAt' = now
      /\ pc' = [pc EXCEPT ![c] = "reply"]
      /\ UNCHANGED <<now, cluster, changed, mu, locked, expires, byUser, readAt, failedAt,
                     fetchEnd, user, ctxDone, result>>
  BY DEF ServerReads, env, cacheVars
<1>2. TypeOK'
  BY <1>1 DEF Inv, TypeOK
<1>3. \A d \in Callers : pc'[d] = IF d = c THEN "reply" ELSE pc[d]
  BY <1>1 DEF Inv, TypeOK
<1>4. MutexHeld'
  BY <1>1, <1>3 DEF Inv, MutexHeld
<1>5. ClockInv' /\ DataInv'
  BY <1>1 DEF Inv, ClockInv, DataInv
<1>6. ReplyInv'
  BY <1>1, <1>3 DEF Inv, TypeOK, ClockInv, ReplyInv
<1>7. ReaderInv'
  BY <1>1, <1>3 DEF Inv, ReaderInv
<1> QED
  BY <1>2, <1>4, <1>5, <1>6, <1>7 DEF Inv

(* A fetch ends, with data or without.                                       *)
LEMMA FetchEndsInv ==
    ASSUME Inv, NEW c \in Callers, pc[c] \in {"fetch", "reply"}, FetchEnds(c),
           byUser' \in Membership, readAt' \in -1..MaxTime, failedAt' \in -1..MaxTime,
           readAt' <= now, failedAt' <= now,
           \/ readAt' # Never /\ now <= readAt' + FetchTime
           \/ failedAt' = now,
           readAt' # Never => byUser' = parseGroups(cluster) \/ readAt' <= changed
    PROVE  Inv'
<1>1. /\ expires' = now + TTL /\ fetchEnd' = now
      /\ pc' = [pc EXCEPT ![c] = "read"]
      /\ reply' = NoReply /\ replyAt' = 0
      /\ UNCHANGED <<now, cluster, changed, mu, locked, user, ctxDone, result>>
  BY DEF FetchEnds, env
<1>2. TypeOK'
  <2>1. NoReply \in [Groups -> SUBSET Users]
    BY DEF NoReply
  <2> QED
    BY <1>1, <2>1, BoundsAssumption DEF Inv, TypeOK
<1>3. \A d \in Callers : pc'[d] = IF d = c THEN "read" ELSE pc[d]
  BY <1>1 DEF Inv, TypeOK
<1>4. MutexHeld'
  BY <1>1, <1>3 DEF Inv, MutexHeld
<1>5. ClockInv'
  BY <1>1, BoundsAssumption DEF Inv, TypeOK, ClockInv
<1>6. ReplyInv'
  <2>1. \A d \in Callers : pc'[d] # "reply"
    BY <1>3 DEF Inv, MutexHeld
  <2> QED
    BY <2>1 DEF ReplyInv
<1>7. DataInv'
  BY <1>1 DEF DataInv, parseGroups
<1>8. ReaderInv'
  <2>1. now >= 0 /\ locked <= now + TTL
    BY BoundsAssumption DEF Inv, TypeOK, ClockInv
  <2>2. \A d \in Callers : pc'[d] = "read" => fetchEnd' >= 0 /\ locked' <= expires'
    BY <1>1, <2>1
  <2> QED
    BY <2>2 DEF ReaderInv
<1> QED
  BY <1>2, <1>4, <1>5, <1>6, <1>7, <1>8 DEF Inv

(* The groups arrive: they were read while the lock was held.                *)
LEMMA FetchOKInv == ASSUME Inv, NEW c \in Callers, FetchOK(c) PROVE Inv'
<1>1. /\ pc[c] = "reply" /\ byUser' = parseGroups(reply) /\ readAt' = replyAt
      /\ failedAt' = failedAt /\ FetchEnds(c)
  BY DEF FetchOK
<1>2. /\ locked <= replyAt /\ replyAt <= now
      /\ reply = cluster \/ replyAt <= changed
  BY <1>1 DEF Inv, ReplyInv
<1>3. now <= locked + FetchTime
  BY <1>1, NoCallerAssumption DEF Inv, MutexHeld, ClockInv
<1>4. byUser' \in Membership
  BY <1>1, ParseType
<1>5. /\ readAt' \in -1..MaxTime /\ failedAt' \in -1..MaxTime
      /\ readAt' <= now /\ failedAt' <= now
      /\ readAt' # Never /\ now <= readAt' + FetchTime
  BY <1>1, <1>2, <1>3, BoundsAssumption DEF Inv, TypeOK, ClockInv, Never
<1>6. byUser' = parseGroups(cluster) \/ readAt' <= changed
  BY <1>1, <1>2
<1> QED
  BY <1>1, <1>4, <1>5, <1>6, FetchEndsInv

(* Garbage arrives, or nothing: the fetch has failed now.                    *)
LEMMA FetchFailsInv ==
    ASSUME Inv, NEW c \in Callers, FetchGarbage(c) \/ FetchFails(c) PROVE Inv'
<1>1. now \in -1..MaxTime /\ now <= now
  BY DEF Inv, TypeOK
<1>2. CASE FetchGarbage(c)
  <2>1. NoGroups \in Membership
    BY DEF NoGroups, Membership
  <2>2. /\ pc[c] = "reply" /\ byUser' = NoGroups /\ readAt' = Never /\ failedAt' = now
        /\ FetchEnds(c)
    BY <1>2 DEF FetchGarbage
  <2>3. readAt' \in -1..MaxTime /\ readAt' <= now
    BY <2>2, BoundsAssumption DEF Never, Inv, TypeOK
  <2> QED
    BY <1>1, <2>1, <2>2, <2>3, FetchEndsInv
<1>3. CASE FetchFails(c)
  <2>1. /\ pc[c] \in {"fetch", "reply"} /\ byUser' = byUser /\ readAt' = readAt
        /\ failedAt' = now /\ FetchEnds(c)
    BY <1>3 DEF FetchFails
  <2>2. /\ byUser \in Membership /\ readAt \in -1..MaxTime /\ readAt <= now
        /\ readAt # Never => byUser = parseGroups(cluster) \/ readAt <= changed
    BY DEF Inv, TypeOK, ClockInv, DataInv
  <2> QED
    BY <1>1, <2>1, <2>2, FetchEndsInv
<1> QED
  BY <1>2, <1>3

(* The caller has its copy and releases the mutex.                           *)
LEMMA HandOutInv == ASSUME Inv, NEW c \in Callers, HandOut(c) PROVE Inv'
<1>1. /\ pc[c] = "read" /\ mu' = NoCaller /\ pc' = [pc EXCEPT ![c] = "done"]
      /\ result' = [result EXCEPT ![c] = byUser[user[c]]]
      /\ UNCHANGED <<now, cluster, changed, locked, expires, byUser, readAt, failedAt,
                     fetchEnd, reply, replyAt, user, ctxDone>>
  BY DEF HandOut, env, cacheVars, replyVars
<1>2. TypeOK'
  <2>1. byUser[user[c]] \in SUBSET Groups
    BY DEF Inv, TypeOK, Membership
  <2> QED
    BY <1>1, <2>1 DEF Inv, TypeOK
<1>3. \A d \in Callers : pc'[d] = IF d = c THEN "done" ELSE pc[d]
  BY <1>1 DEF Inv, TypeOK
<1>4. \A d \in Callers : pc'[d] \notin Inside
  BY <1>1, <1>3 DEF Inv, MutexHeld, Inside
<1>5. MutexHeld'
  BY <1>1, <1>4, NoCallerAssumption DEF MutexHeld, Inside
<1>6. ClockInv' /\ DataInv'
  BY <1>1 DEF Inv, ClockInv, DataInv
<1>7. ReplyInv' /\ ReaderInv'
  BY <1>4 DEF ReplyInv, ReaderInv, Inside
<1> QED
  BY <1>2, <1>5, <1>6, <1>7 DEF Inv

(* The call is over.                                                         *)
LEMMA ReturnInv == ASSUME Inv, NEW c \in Callers, Return(c) PROVE Inv'
<1>1. TypeOK'
  BY DEF Return, Inv, TypeOK, env, cacheVars, replyVars
<1> QED
  BY <1>1, MovesInv DEF Return, env, cacheVars, replyVars, Inside

(* A context is cancelled.                                                   *)
LEMMA CancelInv == ASSUME Inv, NEW c \in Callers, Cancel(c) PROVE Inv'
<1>1. /\ UNCHANGED <<now, cluster, changed, mu, locked, expires, byUser, readAt, failedAt,
                     fetchEnd, reply, replyAt, pc, user, result>>
      /\ ctxDone' = [ctxDone EXCEPT ![c] = TRUE]
  BY DEF Cancel, env, cacheVars, replyVars
<1>2. TypeOK'
  BY <1>1 DEF Inv, TypeOK
<1>3. MutexHeld' /\ ClockInv' /\ ReplyInv' /\ DataInv' /\ ReaderInv'
  BY <1>1 DEF Inv, MutexHeld, ClockInv, ReplyInv, DataInv, ReaderInv
<1> QED
  BY <1>2, <1>3 DEF Inv

(* A group changes: what was read before now may be out of date.             *)
LEMMA ChangeGroupInv ==
    ASSUME Inv, NEW g \in Groups, NEW members \in SUBSET Users, ChangeGroup(g, members)
    PROVE  Inv'
<1>1. /\ cluster' = [cluster EXCEPT ![g] = members] /\ changed' = now
      /\ UNCHANGED <<now, mu, locked, expires, byUser, readAt, failedAt, fetchEnd, reply,
                     replyAt, pc, user, ctxDone, result>>
  BY DEF ChangeGroup, cacheVars, replyVars
<1>2. TypeOK'
  BY <1>1 DEF Inv, TypeOK
<1>3. MutexHeld' /\ ReaderInv'
  BY <1>1 DEF Inv, MutexHeld, ReaderInv
<1>4. ClockInv'
  BY <1>1 DEF Inv, TypeOK, ClockInv
<1>5. ReplyInv'
  BY <1>1 DEF Inv, ReplyInv
<1>6. DataInv'
  BY <1>1 DEF Inv, ClockInv, DataInv
<1> QED
  BY <1>2, <1>3, <1>4, <1>5, <1>6 DEF Inv

(* Time passes, unless the lock has been held for FetchTime.                 *)
LEMMA TickInv == ASSUME Inv, Tick PROVE Inv'
<1>1. /\ now < MaxTime /\ now' = now + 1
      /\ mu # NoCaller => now < locked + FetchTime
      /\ UNCHANGED <<cluster, changed, mu, locked, expires, byUser, readAt, failedAt,
                     fetchEnd, reply, replyAt, pc, user, ctxDone, result>>
  BY DEF Tick, cacheVars, replyVars
<1>2. TypeOK'
  BY <1>1, BoundsAssumption DEF Inv, TypeOK
<1>3. MutexHeld' /\ ReaderInv' /\ DataInv'
  BY <1>1 DEF Inv, MutexHeld, ReaderInv, DataInv, parseGroups
<1>4. ClockInv'
  BY <1>1, BoundsAssumption DEF Inv, TypeOK, ClockInv
<1>5. ReplyInv'
  BY <1>1 DEF Inv, TypeOK, ReplyInv
<1> QED
  BY <1>2, <1>3, <1>4, <1>5 DEF Inv

(* Every step keeps the invariant.                                           *)
LEMMA NextInv == Inv /\ [Next]_vars => Inv'
<1> SUFFICES ASSUME Inv, [Next]_vars PROVE Inv'
  OBVIOUS
<1>1. CASE UNCHANGED vars
  <2>1. TypeOK'
    BY <1>1 DEF vars, Inv, TypeOK
  <2>2. MutexHeld' /\ ClockInv' /\ ReplyInv' /\ DataInv' /\ ReaderInv'
    BY <1>1 DEF vars, Inv, MutexHeld, ClockInv, ReplyInv, DataInv, ReaderInv
  <2> QED
    BY <2>1, <2>2 DEF Inv
<1>2. ASSUME NEW c \in Callers, groupsFor(c) PROVE Inv'
  BY <1>2, LockStepInv, CheckInv, ServerReadsInv, FetchOKInv, FetchFailsInv, HandOutInv,
     ReturnInv DEF groupsFor, Fetch
<1> QED
  BY <1>1, <1>2, AskInv, CancelInv, ChangeGroupInv, TickInv DEF Next

(* The invariant in every state.                                             *)
LEMMA AlwaysInv == Spec => []Inv
  BY InitInv, NextInv, PTL DEF Spec

--------------------------------------------------------------------------------
(* The cache keeps its types, and exactly the caller between Lock and        *)
(* HandOut holds the mutex: byUser is never replaced under another's hands.  *)
THEOREM OneCallerAtATime == Spec => []LockInv
<1>1. Inv => LockInv
  BY DEF Inv, LockInv
<1> QED
  BY <1>1, AlwaysInv, PTL

(* What a caller takes was read recently enough, or a fetch failed recently: *)
(* the ages add up to a ttl and two times with the lock.                     *)
LEMMA TakenIsRecent ==
    ASSUME Inv, NEW c \in Callers, pc[c] = "read"
    PROVE  Recent(readAt) \/ Recent(failedAt)
<1>1. fetchEnd >= 0 /\ locked <= fetchEnd + TTL
  BY DEF Inv, ReaderInv, ClockInv
<1>2. now <= locked + FetchTime
  BY NoCallerAssumption DEF Inv, MutexHeld, ClockInv
<1>3. CASE readAt # Never /\ fetchEnd <= readAt + FetchTime
  <2>1. now <= readAt + (TTL + 2 * FetchTime)
    BY <1>1, <1>2, <1>3, BoundsAssumption DEF Inv, TypeOK
  <2> QED
    BY <1>3, <2>1 DEF Recent, MaxAge
<1>4. CASE failedAt = fetchEnd
  <2>1. now <= failedAt + (TTL + 2 * FetchTime) /\ failedAt # -1
    BY <1>1, <1>2, <1>4, BoundsAssumption DEF Inv, TypeOK
  <2> QED
    BY <2>1 DEF Recent, MaxAge, Never
<1> QED
  BY <1>1, <1>3, <1>4 DEF Inv, DataInv

(* A change of a group reaches every caller within a ttl and two times the   *)
(* lock may be held, unless a fetch failed in that time.                     *)
THEOREM ChangesReachCallers == Spec => []GroupsAreCurrent
<1>1. ASSUME Inv PROVE StaleOnlyAfterFailure
  BY <1>1, TakenIsRecent DEF StaleOnlyAfterFailure
<1>2. ASSUME Inv PROVE ChangesTakeEffect
  <2> SUFFICES ASSUME NEW c \in Callers, pc[c] = "read", now > changed + MaxAge,
                      ~Recent(failedAt)
               PROVE  byUser[user[c]] = {g \in Groups : user[c] \in cluster[g]}
    BY DEF ChangesTakeEffect
  <2>1. readAt # Never /\ now <= readAt + MaxAge
    BY <1>2, TakenIsRecent DEF Recent
  <2>2. ~(readAt <= changed)
    BY <1>2, <2>1, BoundsAssumption DEF Inv, TypeOK, MaxAge
  <2>3. byUser = parseGroups(cluster) /\ user[c] \in Users
    BY <1>2, <2>1, <2>2 DEF Inv, TypeOK, DataInv
  <2> QED
    BY <2>3 DEF parseGroups
<1>3. Inv => GroupsAreCurrent
  BY <1>1, <1>2 DEF GroupsAreCurrent
<1> QED
  BY <1>3, AlwaysInv, PTL

(* However many callers find the cache expired, and however a fetch ends, a  *)
(* fetch begins only when the last one is more than a ttl ago.               *)
THEOREM ClusterAskedRarely == Spec => FetchAtMostOncePerTTL
<1>1. ASSUME Inv, [Next]_vars PROVE [FetchStep]_vars
  <2> SUFFICES ASSUME ~Fetching, Fetching' PROVE now > fetchEnd + TTL
    BY DEF FetchStep
  <2>1. PICK c \in Callers : pc'[c] \in {"fetch", "reply"} /\ pc[c] \notin {"fetch", "reply"}
    BY DEF Fetching
  <2>2. pc \in [Callers -> {"idle", "lock", "check", "fetch", "reply", "read", "done"}]
    BY <1>1 DEF Inv, TypeOK
  <2>3. Next
    BY <1>1, <2>1 DEF vars
  <2>4. PICK d \in Callers : groupsFor(d) \/ Cancel(d) \/ \E u \in Users : Ask(d, u)
    BY <2>1, <2>3 DEF Next, ChangeGroup, Tick
  <2>5. Check(d)
    BY <2>1, <2>2, <2>4 DEF groupsFor, Fetch, Cancel, Ask, Lock, ServerReads, FetchOK,
       FetchGarbage, FetchFails, FetchEnds, HandOut, Return
  <2>6. d = c /\ now > expires
    BY <2>1, <2>2, <2>5 DEF Check
  <2> QED
    BY <1>1, <2>6 DEF Inv, ClockInv
<1> QED
  BY <1>1, AlwaysInv, PTL DEF Spec, FetchAtMostOncePerTTL

================================================================================
