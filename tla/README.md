# A formal model of openshift-mcp

openshift-mcp is an MCP server in front of an OpenShift cluster: read-only tools
that answer questions about pods, workloads, policies and disruption budgets, and,
on a second endpoint, debug tools that start a pod, run commands in it and delete
it, as the user who asks.  This directory holds TLA+ modules that model the parts
of it in which order, failure, time or arithmetic matter, TLC configurations that
check them on small instances, and TLAPS proofs for every instance.

`PROJECT.json` maps every definition to the lines of source it models, and lists
the runs, their mutants, the hazards of the code and the theorems.

## The system

| Component | Source | State | Operations | Interacts with |
|---|---|---|---|---|
| Result cache, tool wrapper | `internal/mcp/cache.go`, `server.go` (`addTool`) | map and LRU list of entries with an expiry, flights of singleflight | `get`, `put`, `removeElement`, `do` | every read-only tool call goes through `do`; `do` runs the handler with the leader's context |
| Read-only handlers | `internal/mcp/handlers.go`, `list_teams` in `audit.go` | none | one to several API reads, then a summary | called by `do` |
| Policy tools | `internal/mcp/policy.go` | none | Kyverno match, exclude and exceptions | called by `do` |
| Disruption audit | `internal/mcp/audit.go` | none between calls; two groups of concurrent lists | PDBs, workloads, ReplicaSets, pods, custom resources, then a join | `ListPages`, `ListCustom` |
| Paged lists | `internal/k8s/list.go` | continue token, version tried | `ListPages`, `ListCustom` | API server |
| Redaction | `internal/mcp/redact.go` | none | masks credential values of an object in place | `get_resource` |
| Debug endpoint | `internal/mcp/debug.go` | none | four tools, bearer token, caller's name | Runner |
| Debug pod runner | `internal/debugpod/debugpod.go` | none of its own: the Jobs of the cluster | `Start`, `Exec`, `Finish`, `List`, `owned`, `waitRunning` | Job controller, kubelet, group cache |
| Group cache | `debugpod.go` (`groupCache`) | users' groups and their expiry, one mutex | `groupsFor`, `parseGroups` | asked for each debug call |
| Output buffer | `debugpod.go` (`limitBuffer`) | bytes and a count of dropped ones | `Write`, `String` | two streams of an exec |
| Command limit, configuration | `debugpod.go`, `debug.go` | `ExecTimeout` | `ConfigFromEnv`, the clamp in `Exec` | `timeout(1)` in the pod |
| HTTP server | `cmd/openshift-mcp/main.go` | listener, two goroutines, requests | `runHTTP` | signals |
| stdio mode, tool definitions, client construction, version | `main.go`, `tools.go`, `client.go`, `version.go` | none | | |

What is hard to get right, and hard to test:

- concurrent calls of one key: who runs the handler, whose context it runs with,
  who gets whose error, and how old a shared answer may be;
- entries that expire, are refreshed and are evicted while others read them;
- a mutex held across an API call whose failure or cancellation decides for all;
- requests of one call with a cluster that moves between them, and a server that
  may be restarted between any two;
- lists taken at different times that are then joined;
- durations that wrap and are cut to whole seconds, and a command, its stream, its
  deadline and its caller that end in any order;
- policies whose filters can be decided for a kind only in part;
- a map that is rewritten while Go walks it in random order;
- limits that cut a list or a log without a word;
- two goroutines that end the process together.

The hazards in `PROJECT.json` list them at their lines.

## Modules

| Module | Models | Properties that make it correct |
|---|---|---|
| `ResultCache` | `cache.go`, `addTool`: one action per lock region and per API read | `CacheInv`, `FetchOnlyWhenNeeded`, `NoLostFlight`, `BoundedStaleness`, `ErrorsNotCached` (proved only), `EvictionOnlyWhenDue`, `EveryCallReturns` |
| `BoundedRead` | what a caller of the cache may rely on: an abstract read with a bound on its age | implemented by `ResultCache` (`ImplementsBoundedRead`) |
| `GroupCache` | `groupsFor`, `parseGroups`, the fetch and who changes groups | `LockInv`, `FetchAtMostOncePerTTL`, `GroupsAreCurrent`, `EveryCallerServed` |
| `LimitBuffer` | `limitBuffer` with its two writers and a reader | `OutputIsAccounted` |
| `DebugPod` | `Start`, `Exec`, `Finish`, `List` request by request, with the Job controller and kubelet | `OnlyOwnPods`, `DebugInv`, `EveryJobGoes`, `EveryCallEnds` |
| `PodLease` | what the debug tools promise, without calls, requests or Jobs: a pod is leased to one person, lives once, and runs that person's commands only | implemented by `DebugPod` (`ImplementsPodLease`) |
| `ExecLimit` | `ConfigFromEnv`, the clamp, `timeout(1)`, the deadline of the stream | `LimitHolds` |
| `ExecCall` | a whole `Exec`: composes `ExecLimit` and `LimitBuffer`, and adds what the command puts out, its exit code and the result | `ResultFitsTheEnd`, `EveryExecReturns`, and the properties of its parts |
| `HttpServer` | `runHTTP` | `CutInv`, `SignalEnds`; `GracefulShutdown` is refuted |
| `Listing` | `ListPages`, `ListCustom` with snapshots, tokens and served versions | `PageInv`, `NeverCutShort`, `FirstVersionServed`, `EveryListEnds` |
| `AuditObjects` | the objects and label selectors both audit modules use | |
| `DisruptionAudit` | `handleDisruptionAudit`: the lists in their two error groups, and the join of budgets | `AuditInv`, `NoPartialReport`, `OverlapsAreMutual`, `EveryAuditEnds` |
| `DataServices` | the data service instances of the same report | `CountInv`, `StatefulSetsAreReported`, `LeadersAreTheMembers` |
| `Policies` | `policy.go` as operators: filters, match and exclude, autogen, exceptions, the cut of a report; and what Kyverno does with a request, as the reference | (see `Handlers`) |
| `Redaction` | `redact.go`: one step per value visited, in any order; and what is a credential, decided on the object before the walk | (see `Handlers`) |
| `Handlers` | one call of any read-only tool: composes the reads of its handler with a cluster that changes between them, `Policies` and `Redaction` | `AnswerInv`, `ShortAnswersAreWhole`, `MissingRulesHaveAReason`, `UnconditionalRulesApply`, `ExemptionsAreMarked`, `WorstFirst`, `MaskedExactly` |

Each `MC*` module extends one of these and gives its constants values for TLC, and
each `*Proofs` module extends one with theorems (`ExecCallProofs` also has those of the
`ExecLimit` and `LimitBuffer` that it composes, and `DisruptionAuditProofs` those of
`DataServices`, the other half of the audit).  `Faulty*` operators are variants
of the definition after them with a bug that code of this kind might have; each
property is known to fail when one of them takes the definition's place.

`CacheInv`, `LockInv`, `DebugInv`, `CutInv`, `PageInv`, `CountInv`, `AuditInv` and
`AnswerInv` are a module's type invariant together with its first safety invariant
(`CacheConsistent`, `MutexHeld`, `EveryJobHasItsOwner` and `ResultsAreTrue`, `CutsAreAccountedFor`,
`OncePerVersion`, `CountedOnce`, `QuietReportIsExact`, `AnswerIsComplete`); `ResultFitsTheEnd`
has the types of `ExecCall` and of its parts as its first conjunct, and `TextIsSuccess`,
`ExitIsShown` and `TimeoutIsLate` as the others.  Other properties
with parts are `FetchOnlyWhenNeeded` (`OneFetchPerKey`, `FetchOnlyMissing`),
`GroupsAreCurrent` (`ChangesTakeEffect`, `StaleOnlyAfterFailure`), `ResultsAreTrue`
(`StartedPodRan`, `FinishOkMeansDone`), `OutputIsAccounted` (`KeepsTheFirstBytes`,
`NoGaps`, `TruncationIsReported`), `LimitHolds` (`LimitIsInRange`, `CommandIsSignalled`)
and `ShortAnswersAreWhole` (`ShortListsAreWhole`, `LogsKeepTheEnd`).

How state and actions correspond to the code, where it is not one to one:

- **ResultCache.**  `pc` is the place of a caller's goroutine in `do`.  A result is
  the key it is for, the time of the first read it is built on, and whether every
  read succeeded.  The handler is a first read, and for keys in `Multi` later ones;
  handlers of keys in `Lenient` drop the error of a later read (`get_pod` and its
  events).  A flight ends for the leader and the waiters in one step, as the wait
  group of singleflight releases them.
- **GroupCache.**  The fetch is two steps, the API server's read and the arrival of
  the answer, since groups may change between them.  `readAt`, `failedAt`,
  `fetchEnd`, `changed` and `locked` are history, for the properties.
- **DebugPod.**  A Job and its one pod share a record.  Durations are the event that
  they pass.  A lost answer of the create is a choice of `CreateJob`; `Restart` drops
  all calls and leaves the cluster.  `StreamBreaks` may come before or after the
  command had its effect.  As a lease, a Job is the pod it makes: `waiting` until the pod
  runs, `ended` from the end of the pod to the deletion of the Job; the commands are those
  of the calls that are still there, so a restart forgets them.
- **ExecLimit.**  A Duration has `Width` bits and wraps, in the product with
  `timeout_seconds` and in the sum that is the deadline; `Second` is its unit.  The command
  is asked for, starts, may be sent one SIGTERM and is over, each a step of its own: it may
  start late, also after its call has been given up, and it may ignore the signal.  An image
  without `timeout(1)` runs the command without a limit, as the shell line does.
- **ExecCall.**  `made` is what the command has put out, `sent` what has arrived in the
  buffer.  The end of the command and the arrival of its status are two steps, and the
  status comes after all of the output; between them the deadline may pass, the caller
  leave or the connection break.  Bytes may still arrive until `Exec` has read the buffer.
  Time goes on between the end of the stream and `Return`, which is where `ectx` is asked.
  A new `Exec` begins when the last call has returned, its command possibly still running;
  the model then follows the new one.
- **HttpServer.**  net/http is modelled from how `runHTTP` uses it: after `Shutdown`,
  `ListenAndServe` returns at once.
- **DisruptionAudit.**  A list is one step, because its pages are of one snapshot
  (`Listing`).  A failing list cancels the others of its group, and `g.Wait` waits for
  all.  The cluster may change between any two steps.
- **DataServices.**  The join is one step over lists in any order; an image is the set
  of keywords its name contains, and whether it is an exporter.  The two loops of
  `detectEngine` are a choice: the first of the longest keywords found.
- **Handlers.**  A handler is the sequence of its reads, each of which must succeed or may
  fail without failing the call; `list_services` adds one per service it finds, and
  `exemptions` a second version.  A part of the cluster is a sequence of items of
  which only what the answer depends on is kept (a number to sort by, whether an
  endpoint is ready, the line of a byte).  `seen` is history: everything a part has held
  since the call began, so that a property can say "at some moment of the call" and
  "all through the call".
- **Policies.**  A filter's patterns on namespaces are whether they match the namespace
  asked about; a condition on the object (name, labels, annotations, operation) is a
  member of `Conds` that a request satisfies or not; roles count as subjects.  Whether a block of the
  old form has the key `resources` is part of it.  The meaning of a block to Kyverno
  (`BlockCovers`, `RuleCovers`) is written without the operators of the code.
- **Redaction.**  A string is one of a few classes: empty, plain, a sensitive word, a flag
  with a sensitive name, a URL with a password, kubectl's copy.  Go's range over a map is
  a choice of the next value to visit among all that are reached; this allows more orders
  than the recursion does, and the property holds in all of them.

## Runs

| Run | Instance | Shows |
|---|---|---|
| `cache_capacity` | 2 callers, 3 keys, 2 places, TTL 1, clock to 2 | expiry, refresh and eviction in every order; also that the cache implements `BoundedRead` |
| `cache_sharing` | 2 callers, 1 key, TTL 1, clock to 4 | flights joined, led and left, cancelled contexts, failing and dropped reads; answers get too old at 4 if nothing expires |
| `groups` | 2 callers, 1 user, 2 groups, TTL 1, clock to 4 | group changes, failing, garbled and cancelled fetches |
| `debug_pods` | 2 calls, 2 people and a robot, 1 Job, an application pod | every interleaving of two tool calls with the cluster, lost answers and restarts; also that they implement `PodLease` |
| `debug_pods_live` | 1 call, 1 person and a robot, 1 Job | calls end and Jobs go |
| `exec_call` | 4-bit Durations (-8 to 7), 3 units in a second, 1 second of grace, settings from -1 to 6 (the deadline of 6 is 9, which wraps to -7), `timeout_seconds` 0, 1, 3 (9 units, which wrap to -7) and 11 (33, which wrap to 1), 2 streams of 2 bytes, 2 bytes of room, chunks of 1 and 2 | limits and deadlines that wrap, commands that start late or ignore the signal, output and status before, at and after the end of the stream, chunks as long as the room and longer |
| `http_server` | 3 requests | signals and failures in every order |
| `http_graceful` | 2 requests | expected to fail: see below |
| `listing` | 2 versions, 3 objects, pages of 2, 3 changes | objects and versions that change between pages |
| `audit` | all subsets of 10 objects in 2 namespaces, 1 change | the join, failing lists, a change between two lists |
| `services` | lists of up to 4 of 9 workloads in any order, 3 resource lists, 2 budget sets | which instances are reported |
| `tools` | each of the 20 tools on small and large lists with a change between reads; limits and `tail_lines` from -1 to 5 with maxima of 3 and 4; match and exclude blocks of every two of 10 filters for every kind, for none and for one in another case, and blocks of the old form with and without resources; reports of up to 4 results, 2 shown; objects of 2 to 5 values | every answer, cut, rule and masked value, and each of the four ways in which a rule is hidden; the initial states enumerate the inputs |

Bounds.  Two callers are enough for one to be ahead of the other at any lock region;
three keys for two places make the least recently used one differ from the most
recently used one.  The clocks run one step past the age that the property forbids, so
that a cache that never expires violates it.  The cache's counters, the changes of a
cluster and the bytes of a stream are the only unbounded ones, and are capped by
`MaxTime`, `MaxChanges` and `MaxBytes`; no property holds because of a cap, and
where there is a theorem it holds for every value of them.  `CHECK_DEADLOCK` is off where the process
really may stop: `HttpServer` exits, `ExecCall` may have exited at its configuration or have come to the end of its clock,
`DataServices` computes one report and `Handlers` answers one call.  In `tools` two
filters per block are enough for `any` and `all` to differ and for one filter to hide or
to condition what another decides, and the three kinds are a pod, a controller that gets
pod rules by autogen and neither; objects nest a map in a list in the object, which is
where the walk's cases differ.

Fairness.  `WF` of a call's own steps: the Go scheduler runs every goroutine, and every
request ends within `K8S_TIMEOUT`.  `SF` of taking the group cache's mutex: Go's mutex
hands over to a waiter after a millisecond (starvation mode).  `SF` of giving up in
`waitRunning`: a `select` that finds its context done again and again takes that branch
sometime.  In the cluster only what Kubernetes promises is fair: a pod whose script saw
the done file exits, a Job ends with its pod, its deadline passes, its TTL passes.  In
`ExecCall` time passes, timers fire, bytes that were sent arrive and `Exec` goes on;
nothing makes the command start or end, or its status arrive.  Nothing makes a pod run, a request in flight end, or a client leave.

### A disagreement between code and intent

`http_graceful` refutes `GracefulShutdown`.  On a signal, `runHTTP` gives
`hs.Shutdown` ten seconds to let requests finish (`cmd/openshift-mcp/main.go:120`).
But `ListenAndServe` returns `ErrServerClosed` as soon as `Shutdown` is called (`:129`),
`runHTTP` prints "shutting down" and returns, and `main` with it: the process ends with
the requests still in flight.  Waiting for the goroutine before returning would make
the property hold.

### Other behaviours to know

Met while modelling; the passing properties are stated so that they are true of them.

- A handler that drops the error of a later read (`handlers.go:92`,
  `policy.go:56`) returns a result without that data, and the result is cached for the
  TTL and given to every caller, also if only the leader's context was cancelled.
  `BoundedStaleness` bounds how long.
- A failed or cancelled fetch of the groups counts as a refresh
  (`debugpod.go:496`): old groups, or none, are used for another ttl.
  `GroupsAreCurrent` says exactly when.
- `Exec` returns any error of the stream as output of the command, a refused exec
  included (`debugpod.go:335`); `ResultFitsTheEnd` says what can be told from a result.
- An error of the stream counts as a time-out as soon as `ectx` is done
  (`debugpod.go:331`): a command that exited 0, but whose status is still on its way at the
  deadline; a non-zero exit whose status arrived just before it, if `ectx` is asked just
  after; and a call whose caller left, which is told "timed out after" the limit without
  having run for it.
- "timeout(1) stops the command in the pod" (`debugpod.go:321`) holds for commands that heed
  SIGTERM: there is no `-k` (`:323`), so one that ignores it runs on until the pod ends.
  `CommandIsSignalled` says what the code does guarantee.
- A limit below a second becomes `timeout 0`, which is no limit
  (`debugpod.go:320`).  It comes from a configured timeout below a second, or from a
  `timeout_seconds` whose product wraps to one (`debug.go:125`).
- A configured limit within five seconds of the largest Duration makes the deadline
  overflow (`debugpod.go:325`): every call with that limit times out at once.
- `list_policies` hides a rule that some object asked about comes under in four ways, which
  `MissingRulesHaveAReason` names; each of them occurs in `tools`.
  Without a kind it takes every exclude filter to be about every kind (`policy.go:257`,
  `:184`): a rule that excludes, say, Services is left out altogether, though `tools.go:151`
  says "Omit for every kind." and the comment at `policy.go:179` "Exclude only what is certain
  for every object of this kind here".
  An unreadable selector counts as a match, "show the rule rather than hide it"
  (`policy.go:291`); in an exclude filter that hides the rule.
  A kind that is not written in Kubernetes' case ("deployment") finds its own rules, by
  `EqualFold`, but not those it gets from Pod rules by autogen (`policy.go:257`, `:259`); nor
  does it see that an exclude for Pods excludes it too, so rules are also shown that do not
  apply.  `UnconditionalRulesApply` and `ExemptionsAreMarked` are about kinds in Kubernetes'
  case.
  A match block of the old form with users and no `resources` is taken to be empty
  (`policy.go:221`).
- An exception marks a rule as exempted for the namespace even if it frees only objects
  of some names or labels (`policy.go:452`, text at `:120`).
- `list_services` shows 0 and 0 endpoints both for a service without endpoints and for
  one whose slices could not be read (`handlers.go:720`), though `tools.go:103` tells the
  model "0 ready endpoints = broken service".  `AnswerIsComplete` shows that it happens to
  the service whose own read failed and to no other.
- A limit above the maximum is not cut to the maximum but replaced by 100
  (`handlers.go:29`, `:613`), without a word.
- A cut list has exactly as many items as the limit, and so has a whole one of that length:
  only `list_resource` says which it is (`handlers.go:643`).  What `ShortAnswersAreWhole`
  guarantees is that a shorter list is whole.
- `list_events` and `get_pod` cut in the order of the server and sort afterwards or not
  at all (`handlers.go:146`, `:697`): of more events than the limit the newest may be missing.
- `tail_lines` 0 answers "(no log output)" (`handlers.go:124`).
- An environment variable with a sensitive name that is set to "" is shown as redacted
  (`redact.go:89`), and a list under a sensitive key is searched for flags and URLs but
  not hidden (`redact.go:112`).  `MaskedExactly` is stated with both.
- If a version of a custom resource stops being served between two pages, the next
  version is listed on top of the pages already handed over (`list.go:49`).
  `FirstVersionServed` excludes that case by `moved`.
- A Deployment that is gone from the workload list, or not in it yet, is reported with
  the apiVersion of its ReplicaSet, though the comment at `audit.go:102` says
  "Set only for owners that are not Deployments or StatefulSets."
- Of several replica StatefulSets of one Bitnami release only the last in the list is
  folded into its master (`audit.go:581`); the others are reported on their own.  A replica
  that is folded into a master without a known data service is in no report
  (`audit.go:539`, `:543`): `StatefulSetsAreReported` excepts it, and with it every replica
  of such a release, which is a little more than the code leaves out.
- A Deployment of redis next to a container whose image names a longer quorum keyword
  is in no report (`audit.go:546`): `StatefulSetsAreReported` holds for StatefulSets
  only.

## Proofs

All are checked by TLAPS for every value of the constants that satisfies the named
assumptions: any callers, keys, streams, objects, any positive size, any TTL.

- **`ResultCacheProofs`** (assumptions `KeysAssumption`, `BoundsAssumption`).  Type
  correctness and `CacheConsistent` (`CacheInv`), `FetchOnlyWhenNeeded`, `NoLostFlight`,
  `BoundedStaleness`, `ErrorsNotCached`, `EvictionOnlyWhenDue`, and that the cache
  implements `BoundedRead`.  None of these is inductive alone.  The invariant adds
  `LeaderHasFlight` (a caller past `Join` leads the flight of its key: with
  `NoLostFlight` it makes the leader unique), `ClockInv` (no flight began in the
  future or longer than `FlightTime` ago, no call began in the future), `EntryInv` (an
  entry is for its own key, and expires no later than its read plus a flight plus the
  TTL), `LeaderInv` (what a leader holds was read during its flight, or found in the
  cache during it) and `AnswerInv` (what a finished call holds is recent).  Freshness
  then adds up: TTL, the flight that fetched, the flight that found it again.  The
  lemmas on `PushFront`, `RemoveAt` and `MoveToFront` say that list and map keep the
  same keys, each once.
- **`ExecCallProofs`** (`BoundsAssumption`, `UnitsAssumption`, `WidthAssumption`,
  `SettingsAssumption`), in three parts.
  The buffer: `KeepsTheFirstBytes`, `NoGaps` and `TruncationIsReported`, together
  `OutputIsAccounted`.  The invariant adds `WrittenNoGaps`: the bytes written, kept or not,
  have no gap and end with each stream's last byte; a prefix of them then has no gap either.
  The limit: the types of the state (`TypesAreKept`); `LimitIsInRange` rests on a lemma about
  the clamp: whatever the wrapped product is, the result is positive and at most the
  configured limit; `CommandIsSignalled` rests on `StopInv`: a command under `timeout(1)` has
  not run past its whole seconds without a signal, and these are not more than the stream's
  limit, so that a command which started within the grace is signalled before the deadline
  unless that overflows (`DeadlineIsLate`).  Together they are `LimitHolds`.
  The call: `CallIsBoth`: every step of a call is a step or a stutter of the time limit and
  of the output buffer, so their theorems carry over (`CallAccountsOutput`,
  `CallLimitsHold`).  `ResultsFit`: `ResultFitsTheEnd`, whose invariant adds `EndInv`: an open
  stream belongs to a call that is pending, and a stream that closed did so after its
  command was over and all of its output had arrived; and `GivenUpInv`: a stream is given up
  only when `ectx` is done.
- **`GroupCacheProofs`** (`BoundsAssumption`, `NoCallerAssumption`).  `LockInv`,
  `GroupsAreCurrent` and the action property `FetchAtMostOncePerTTL`.  How old groups may be
  adds up over the fetch that read them, a ttl and the caller that takes them, so the
  invariant follows the data: `ReplyInv` (a reply was read
  since the lock was taken, and shows the cluster of now unless a group changed since),
  `DataInv` (the last fetch ended at most `FetchTime` after its data were read, or failed
  then), `ReaderInv` (who takes a copy took the lock before the cache expired) and
  `ClockInv`, which ties `expires` to the end of the last fetch, however it ended.
- **`DebugPodProofs`** (`NamesAssumption`, `PeopleAssumption`, `AppPodAssumption`).
  `DebugInv`, the action property `OnlyOwnPods`, and that `DebugPod`
  implements `PodLease`.  What a call has found out in one request must still be true in the
  next: the invariant says for each place of a call whose Job it is about (`Fits`) and what
  the state of a Job says about its pod (`JobInv`), and every step of calls, cluster and
  restarts keeps a Job's creation, its requester, that its pod ran and its done file
  (`Grow`).  For the refinement each controller step goes `Forward`, which is one move of
  the lease, and all steps of calls but three are `Quiet`: they at most forget commands.
- **`HttpServerProofs`**.  `CutInv` for any requests; `StopInv` says that only a signal starts
  the shutdown and that exit code 0 follows one.
- **`ListingProofs`** (`VersionsAssumption`: at least one version, all different;
  `ObjectsAssumption`: finitely many objects; `PageAssumption`).  `PageInv`, `NeverCutShort`, `FirstVersionServed`.
  `FreshInv`: nothing of the pages to come has been handed over in the version listed;
  `NothingLost`: what was there all along has been handed over or is named by the token;
  `FirstInv`: versions passed by are not served.  A page has its objects in any order, which
  the lemma on orders of a finite set covers.
- **`DisruptionAuditProofs`** (`ObjectsAssumption`).  `NoPartialReport`: the invariant
  ties `anyFailed` to a failed list of the current or an earlier group, which `Wait`
  does not let pass.  `OverlapsAreMutual`: budgets with distinct names in a snapshot,
  and overlaps recorded in pairs from the same pod, survive every change of the cluster
  between the lists.  `QuietReportsAreExact`: `AuditInv`, for any objects that meet
  `ObjectsAssumption` (names and selectors of their types, a pod with a controller names
  it).  `ProgressInv` says which lists are read at each step, `SnapshotInv` that what they
  read is what is there as long as nothing has changed, and the lemmas on `Resolve` that
  the owner of a pod is found through its ReplicaSet exactly where it has a Deployment.
  Data services (`KeywordsAssumption`, `NoEngineAssumption` and `ListsAssumption`: the lists
  hold what the API server can return, so workloads of a kind differ in name within a
  namespace and a resource controls one StatefulSet with the leader's name): `CountInv`,
  `StatefulSetsAreReported` and `LeadersAreTheMembers`.  `JoinedInv` says that the report is
  what the join makes of the lists.  `detectEngine` is the best of the pairs of an image and
  a keyword it contains, and that there is a best one needs no induction: of a finite set,
  whatever has the fewest ahead of it has none (`SomethingIsFirst`).  The rest is that the last
  master and the last replica of a release are unique, and that no master is folded.
- **`HandlersProofs`** (`LimitsAssumption`; `CasesAssumption`: a call is of one of the tools,
  the cluster has the parts its handler reads, and a part holds what `Holding` says: services
  differ in name, log lines are in order, events are times, objects are trees).  All seven
  properties of `Handlers`, for any contents of the parts and any changes between the reads.
  `WorldInv`: a part that has changed remembers what it held.  `ReadInv`: the reads to come
  are of different parts, which are there and have not been read (`PlanInv`), what was read
  is what the server had at some moment of the call, and what was dropped was allowed to
  fail (`GotInv`), and nothing the answer needs is forgotten (`CompleteInv`).  `PhaseInv` ties
  the answer to what was read, from which `AnswerInv`, `ShortAnswersAreWhole` and `WorstFirst`
  follow by lemmas on each kind of answer.  For the walk of the redaction,
  `Walked`: some values have been visited and have their final value, the others are as
  they were, and the count is the number of those that changed; a walk with nothing left to
  visit has visited everything, for otherwise the first value it missed would have a parent
  that it visited (`MaskedExactly`).  A sorted list is defined by how many items come before
  each (`Ordered`), and the lemma `Places` shows that an order of a finite set gives every
  place to one item; no induction is needed.  For `MissingRulesHaveAReason`, `UnconditionalRulesApply` and
  `ExemptionsAreMarked` there are lemmas on the operators of `Policies` against Kyverno's
  meaning: a filter that covers a request of the kind hits the kind, or misses its autogen
  form; a filter that is certain to exclude the kind covers every request of it, or excludes
  too much; from filters to blocks to rules, in both directions.  `BlocksAgree` shows that the
  code and the reference, which are written independently, take the same filters from a
  block unless it is one with users only.  TLC has also checked the inductive invariant `Inv` on the instance of
  `tools`.

Only model-checked: the liveness properties `EveryCallReturns`, `EveryCallerServed`,
`EveryExecReturns`, `EveryJobGoes`, `EveryCallEnds`, `SignalEnds`, `EveryListEnds` and
`EveryAuditEnds`.  Fairness and `ENABLED` are outside what the provers do.

## Not modelled

- Tool descriptions and schemas, version, stdio mode, client construction: no state, no
  decision.
- The bearer token check and the parsing of arguments: single stateless comparisons.
- JSON rendering, wording, logging; what a handler copies from one object into its
  summary (`podSummary`, `containerState`, `routeAdmitted`, `age`, conditions, quantities,
  the fields of a certificate); the numbers an audit copies from a PDB's status; the type
  and the check of a policy rule as text.
- Which strings are sensitive words, flags or URLs: pattern matching on characters, kept
  as classes of strings.
- The replica counts of operators' resources (`nestedInt`).
- The failure action of a policy rule and the order of the listed rules, which depends on it:
  copies and a sort of what the answer shows, that decide nothing else.
- In `DebugPod`, edits of a pod's labels or annotations and a pod that is deleted and made
  again under its name between `owned` and the exec, which goes by name (`debugpod.go:328`):
  the names are those the Job controller generates, and `owned` and `exec` are two requests
  between which the model has the pod end or go.
- In `DisruptionAudit`, the order of the two lists of `listAuditWorkloads` and the separate
  goroutines of the remaining lists: each is one step, which fails or succeeds as a whole.
  A pod's phase is one of those the code tells apart, so `Unknown` is not among them.
- In `DataServices` the instances are a set: an instance listed twice, as after a change of
  the version of a custom resource between two pages, is not told from one.
- In `ResultCache`, an error of `MarshalIndent` in the tool wrapper (`server.go:121`), which no
  result of a handler causes; it would be returned and not cached, like any other.

## Status

Every safety invariant, action property and refinement that a run checks is also a theorem, for
every value of the constants that meets the assumptions; `GracefulShutdown`, which the code
violates, and the liveness properties are the ones that are not.

What would come next, if the code grows: the replica counts of the operators' resources, if
the audit comes to decide anything by them, and the listing inside the audit as a composition of
`Listing` and `DisruptionAudit` in place of the one step a list is now.
