------------------------------- MODULE GroupCache -------------------------------
(***************************************************************************)
(* groupCache of internal/debugpod/debugpod.go: the OpenShift groups of the *)
(* users that debug pods impersonate, re-read when older than ttl.  The     *)
(* mutex is held across the fetch, and the fetch runs with the context of   *)
(* the caller that found the cache expired.                                 *)
(***************************************************************************)
EXTENDS Integers

CONSTANTS
    Callers,     \* goroutines that call groupsFor
    Users,       \* the people they act for
    Groups,      \* OpenShift Group objects
    TTL,         \* groupCache.ttl
    FetchTime,   \* longest time the lock is held: a fetch takes at most K8S_TIMEOUT
    NoCaller,    \* the holder of a free lock
    MaxTime      \* bound on the clock, for model checking

ASSUME BoundsAssumption ==
    /\ TTL \in Nat
    /\ FetchTime \in Nat
    /\ MaxTime \in Nat
ASSUME NoCallerAssumption == NoCaller \notin Callers

VARIABLES
    now,       \* the clock
    cluster,   \* the Group objects of the cluster: group -> its users
    changed,   \* when a Group object last changed
    mu,        \* who holds the mutex
    expires,   \* groupCache.expires
    byUser,    \* groupCache.byUser: user -> groups
    readAt,    \* when the cluster's groups in byUser were current; -1: never
    failedAt,  \* when a fetch last ended without usable data; -1: never
    fetchEnd,  \* when the last fetch ended; before the first: long ago
    locked,    \* when the lock was taken
    reply,     \* the Group list on its way to the caller that fetches ...
    replyAt,   \* ... and when the API server read it
    pc, user, ctxDone, result

vars == <<now, cluster, changed, mu, locked, expires, byUser, readAt, failedAt,
          fetchEnd, reply, replyAt, pc, user, ctxDone, result>>

Membership == [Users -> SUBSET Groups]
Never == -1

TypeOK ==
    /\ now \in 0..MaxTime
    /\ cluster \in [Groups -> SUBSET Users]
    /\ changed \in 0..MaxTime
    /\ mu \in Callers \cup {NoCaller}
    /\ expires \in -1..(MaxTime + TTL)
    /\ byUser \in Membership
    /\ readAt \in -1..MaxTime
    /\ failedAt \in -1..MaxTime
    /\ fetchEnd \in (-1 - TTL)..MaxTime
    /\ locked \in 0..MaxTime
    /\ reply \in [Groups -> SUBSET Users]
    /\ replyAt \in 0..MaxTime
    /\ pc \in [Callers ->
                 {"idle", "lock", "check", "fetch", "reply", "read", "done"}]
    /\ user \in [Callers -> Users]
    /\ ctxDone \in [Callers -> BOOLEAN]
    /\ result \in [Callers -> SUBSET Groups]

(* Faulty variant: the next group of a user replaces the one before.         *)
FaultyParseGroups(data) ==
    [u \in Users |->
        {g \in Groups : u \in data[g] /\ g = CHOOSE h \in Groups : u \in data[h]}]

(* parseGroups: the list of groups with their users, turned round.           *)
parseGroups(data) == [u \in Users |-> {g \in Groups : u \in data[g]}]

NoGroups == [u \in Users |-> {}]
NoReply == [g \in Groups |-> {}]

Init ==
    /\ now = 0
    /\ cluster \in [Groups -> SUBSET Users]
    /\ changed = 0
    /\ mu = NoCaller
    /\ expires = Never
    /\ byUser = NoGroups
    /\ readAt = Never
    /\ failedAt = Never
    /\ fetchEnd = -1 - TTL
    /\ locked = 0
    /\ reply = NoReply
    /\ replyAt = 0
    /\ pc = [c \in Callers |-> "idle"]
    /\ user \in [Callers -> Users]
    /\ ctxDone = [c \in Callers |-> FALSE]
    /\ result = [c \in Callers |-> {}]

env == <<now, cluster, changed>>
cacheVars == <<expires, byUser, readAt, failedAt, fetchEnd>>
replyVars == <<reply, replyAt>>

(* A debug tool call of u asks for u's groups.                               *)
Ask(c, u) ==
    /\ pc[c] = "idle"
    /\ pc' = [pc EXCEPT ![c] = "lock"]
    /\ user' = [user EXCEPT ![c] = u]
    /\ UNCHANGED <<env, mu, locked, cacheVars, replyVars, ctxDone, result>>

(* Faulty variant: the lock is not taken.                                    *)
FaultyLock(c) ==
    /\ pc[c] = "lock"
    /\ locked' = now
    /\ pc' = [pc EXCEPT ![c] = "check"]
    /\ UNCHANGED <<env, mu, cacheVars, replyVars, user, ctxDone, result>>

Lock(c) ==
    /\ pc[c] = "lock"
    /\ mu = NoCaller
    /\ mu' = c
    /\ locked' = now
    /\ pc' = [pc EXCEPT ![c] = "check"]
    /\ UNCHANGED <<env, cacheVars, replyVars, user, ctxDone, result>>

(* Faulty variant: groups are read once and never again.                     *)
FaultyCheck(c) ==
    /\ pc[c] = "check"
    /\ pc' = [pc EXCEPT ![c] = IF expires = Never THEN "fetch" ELSE "read"]
    /\ UNCHANGED <<env, mu, locked, cacheVars, replyVars, user, ctxDone, result>>

Check(c) ==
    /\ pc[c] = "check"
    /\ pc' = [pc EXCEPT ![c] = IF now > expires THEN "fetch" ELSE "read"]
    /\ UNCHANGED <<env, mu, locked, cacheVars, replyVars, user, ctxDone, result>>

(* The API server reads the Group objects for the fetch.                     *)
ServerReads(c) ==
    /\ pc[c] = "fetch"
    /\ ~ctxDone[c]
    /\ reply' = cluster
    /\ replyAt' = now
    /\ pc' = [pc EXCEPT ![c] = "reply"]
    /\ UNCHANGED <<env, mu, locked, cacheVars, user, ctxDone, result>>

(* After a fetch, however it went, the cache is good for another ttl.        *)
FetchEnds(c) ==
    /\ expires' = now + TTL
    /\ fetchEnd' = now
    /\ pc' = [pc EXCEPT ![c] = "read"]
    /\ reply' = NoReply
    /\ replyAt' = 0
    /\ UNCHANGED <<env, mu, locked, user, ctxDone, result>>

(* The Group list arrives.  It cannot once the context of the caller that    *)
(* fetches is cancelled.                                                     *)
FetchOK(c) ==
    /\ pc[c] = "reply"
    /\ ~ctxDone[c]
    /\ byUser' = parseGroups(reply)
    /\ readAt' = replyAt
    /\ UNCHANGED failedAt
    /\ FetchEnds(c)

(* What arrives is not a Group list: no user has groups.                     *)
FetchGarbage(c) ==
    /\ pc[c] = "reply"
    /\ ~ctxDone[c]
    /\ byUser' = NoGroups
    /\ readAt' = Never
    /\ failedAt' = now
    /\ FetchEnds(c)

(* Faulty variant: a failed fetch is retried by the next caller at once.     *)
FaultyFetchFails(c) ==
    /\ pc[c] \in {"fetch", "reply"}
    /\ failedAt' = now
    /\ fetchEnd' = now
    /\ pc' = [pc EXCEPT ![c] = "read"]
    /\ UNCHANGED <<env, mu, locked, expires, byUser, readAt, replyVars,
                   user, ctxDone, result>>

(* The fetch fails, on its own or with the caller's context: what is known   *)
(* is kept.                                                                  *)
FetchFails(c) ==
    /\ pc[c] \in {"fetch", "reply"}
    /\ failedAt' = now
    /\ UNCHANGED <<byUser, readAt>>
    /\ FetchEnds(c)

(* Faulty variant: the lock is not released.                                 *)
FaultyHandOut(c) ==
    /\ pc[c] = "read"
    /\ result' = [result EXCEPT ![c] = byUser[user[c]]]
    /\ pc' = [pc EXCEPT ![c] = "done"]
    /\ UNCHANGED <<env, mu, locked, cacheVars, replyVars, user, ctxDone>>

(* The caller's copy of the user's groups is made, and the lock released.    *)
HandOut(c) ==
    /\ pc[c] = "read"
    /\ result' = [result EXCEPT ![c] = byUser[user[c]]]
    /\ mu' = NoCaller
    /\ pc' = [pc EXCEPT ![c] = "done"]
    /\ UNCHANGED <<env, locked, cacheVars, replyVars, user, ctxDone>>

Return(c) ==
    /\ pc[c] = "done"
    /\ pc' = [pc EXCEPT ![c] = "idle"]
    /\ ctxDone' = [ctxDone EXCEPT ![c] = FALSE]
    /\ result' = [result EXCEPT ![c] = {}]
    /\ UNCHANGED <<env, mu, locked, cacheVars, replyVars, user>>

Cancel(c) ==
    /\ pc[c] # "idle"
    /\ ~ctxDone[c]
    /\ ctxDone' = [ctxDone EXCEPT ![c] = TRUE]
    /\ UNCHANGED <<env, mu, locked, cacheVars, replyVars, pc, user, result>>

(* An administrator changes who is in a group.                               *)
ChangeGroup(g, members) ==
    /\ cluster' = [cluster EXCEPT ![g] = members]
    /\ changed' = now
    /\ UNCHANGED <<now, mu, locked, cacheVars, replyVars, pc, user, ctxDone, result>>

Fetching == \E c \in Callers : pc[c] \in {"fetch", "reply"}

(* Time passes; the lock is not held longer than FetchTime.                  *)
Tick ==
    /\ now < MaxTime
    /\ mu # NoCaller => now < locked + FetchTime
    /\ now' = now + 1
    /\ UNCHANGED <<cluster, changed, mu, locked, cacheVars, replyVars, pc, user,
                   ctxDone, result>>

Fetch(c) == ServerReads(c) \/ FetchOK(c) \/ FetchGarbage(c) \/ FetchFails(c)

groupsFor(c) == Lock(c) \/ Check(c) \/ Fetch(c) \/ HandOut(c) \/ Return(c)

Next ==
    \/ \E c \in Callers : (\E u \in Users : Ask(c, u)) \/ groupsFor(c) \/ Cancel(c)
    \/ \E g \in Groups, members \in SUBSET Users : ChangeGroup(g, members)
    \/ Tick

Spec == Init /\ [][Next]_vars

(* Go's mutex hands over to a waiter that has waited long enough, so a caller *)
(* that is offered the lock again and again takes it; the rest is the        *)
(* scheduler, and the fetch's request timeout.                               *)
Fairness ==
    \A c \in Callers :
        /\ SF_vars(Lock(c))
        /\ WF_vars(Check(c) \/ Fetch(c) \/ HandOut(c) \/ Return(c))

FairSpec == Spec /\ Fairness

--------------------------------------------------------------------------------
(* The mutex is held by exactly the caller between Lock and HandOut: byUser   *)
(* is never replaced under the hands of another caller.                      *)
MutexHeld ==
    \A c \in Callers : pc[c] \in {"check", "fetch", "reply", "read"} <=> mu = c

(* The state of the cache: its types, and the mutex with its holder.         *)
LockInv == TypeOK /\ MutexHeld

(* The cluster is asked at most once per ttl, however many callers find the  *)
(* cache expired and however the fetch ends.                                 *)
FetchStep == (~Fetching /\ Fetching') => now > fetchEnd + TTL
FetchAtMostOncePerTTL == [][FetchStep]_vars

(* How old what is handed out may be: a ttl, the fetch that read it and the   *)
(* caller's own time with the lock.                                          *)
MaxAge == TTL + 2 * FetchTime

Recent(t) == t # Never /\ now <= t + MaxAge

(* When groups older than that are handed out, the reason is a fetch that     *)
(* failed no longer ago: a failure is tried again one ttl later, not put off *)
(* for ever.                                                                 *)
StaleOnlyAfterFailure ==
    \A c \in Callers : pc[c] = "read" => Recent(readAt) \/ Recent(failedAt)

(* A change of a group reaches the callers: once it is older than that, and   *)
(* unless a fetch failed, each user is impersonated with exactly the groups  *)
(* the cluster gives them, so a user taken out of a group loses its access.  *)
ChangesTakeEffect ==
    \A c \in Callers :
        pc[c] = "read" /\ now > changed + MaxAge /\ ~Recent(failedAt) =>
            byUser[user[c]] = {g \in Groups : user[c] \in cluster[g]}

(* What is handed out is current: changes arrive, and stale groups have a    *)
(* failed fetch to blame.                                                    *)
GroupsAreCurrent == ChangesTakeEffect /\ StaleOnlyAfterFailure

(* Every caller gets an answer, though all wait for one lock that is held    *)
(* across an API call.                                                       *)
EveryCallerServed == \A c \in Callers : pc[c] = "lock" ~> pc[c] = "done"

================================================================================
